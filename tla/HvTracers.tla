--------------------------------- MODULE HvTracers ---------------------------------
(***************************************************************************)
(* The tracers of proxyclient/hv and m1n1/trace: they follow a guest's     *)
(* rings, tables, calls and buses from the accesses they see.  Each        *)
(* section is a machine of its own.                                        *)
(***************************************************************************)
EXTENDS Integers, Sequences, FiniteSets, TLC, SequencesExt

-----------------------------------------------------------------------------
(***************************************************************************)
(* The hypervisor's tracer of the guest's GPU driver (trace/agx.py).  The  *)
(* guest's accesses to the pointers of a channel's ring stop its CPU and   *)
(* call the tracer, which logs the messages it has not seen; the firmware, *)
(* on its own processor, goes on meanwhile.  A work message makes the      *)
(* tracer log the items of a command queue and look into each of them.     *)
(*                                                                         *)
(* Three machines that share only `active` are explored apart: "rx" and    *)
(* "tx" (a ring whose producer is the firmware, or the guest), "queue" (a  *)
(* command queue) and "work" (the items and their second dump).            *)
(***************************************************************************)

CONSTANTS Count,    \* slots of a ring (0x100 in the driver)
          MaxMsgs,  \* messages, and work items, that are produced
          MaxPauses \* times the user pauses the trace

VARIABLES part, active, pauses,
          ring, wptr, rptr, gw, n, taken, tail, seen, pc, raised, ok,
          head, done, uuid, last_uuid, fresh, last, cur, ask

ringVars == <<ring, wptr, rptr, gw, n, taken, tail, seen, pc, raised>>
queueVars == <<head, done, uuid, last_uuid, fresh>>
workVars == <<last, cur>>
agxVars == <<part, active, pauses, ring, wptr, rptr, gw, n, taken, tail, seen, pc, raised, ok,
             head, done, uuid, last_uuid, fresh, last, cur, ask>>

Types == {"TA", "3D", "CP"}
Slots == 0 .. Count - 1
Up(i) == (i + 1) % Count

AgxInit ==
  /\ part \in {"rx", "tx", "queue", "work", "kick"}
  /\ active = (part \in {"queue", "work"}) /\ pauses = 0
  /\ ring = [i \in Slots |-> 0] /\ wptr = 0 /\ rptr = 0 /\ gw = 0 /\ n = 0 /\ taken = 0
  /\ tail = 0 /\ seen = 0 /\ pc = IF part \in {"rx", "tx"} THEN "boot" ELSE "guest"
  /\ raised = FALSE /\ ok = TRUE
  /\ head = 0 /\ done = 0 /\ uuid = 1 /\ last_uuid = 0 /\ fresh = TRUE
  /\ last = [t \in Types |-> <<>>] /\ cur = 0
  /\ ask = <<>>

(* ------------------------------- the rings ------------------------------ *)
(* What lies in a ring from slot a up to, and without, slot b *)
Between(a, b) == [k \in 1 .. (b - a + Count) % Count |-> ring[(a + k - 1) % Count]]
InARow(s, from) == \A k \in DOMAIN s : s[k] = from + k

(* ChannelTracer.poll_ring: log what lies between the tail and the write pointer; the tail moves *)
(* only when every message was handled                                                            *)
poll_ring(t) ==
  /\ tail' = t /\ seen' = seen + Len(Between(tail, t))
  /\ ok' = (ok /\ (raised \/ InARow(Between(tail, t), seen)))
  /\ UNCHANGED raised
poll_Raises == raised' = TRUE /\ UNCHANGED <<tail, seen, ok>>
Polled(t) == IF active THEN poll_ring(t) \/ (tail # t /\ poll_Raises)
                       ELSE UNCHANGED <<tail, seen, ok, raised>>

(* The producer leaves one slot free; the firmware writes at any moment, the guest only while its *)
(* CPU runs                                                                                        *)
Produces ==
  /\ Up(wptr) # rptr /\ n < MaxMsgs
  /\ ring' = [ring EXCEPT ![wptr] = n + 1] /\ wptr' = Up(wptr) /\ n' = n + 1
FwPosts ==
  /\ part = "rx" /\ pc # "boot" /\ Produces
  /\ UNCHANGED <<part, active, pauses, rptr, gw, taken, tail, seen, pc, raised, ok, queueVars, workVars, ask>>
FwTakes ==
  /\ part = "tx" /\ pc # "boot" /\ rptr # wptr /\ rptr' = Up(rptr)
  /\ UNCHANGED <<part, active, pauses, ring, wptr, gw, n, taken, tail, seen, pc, raised, ok, queueVars, workVars, ask>>

(* KickEp and PongEp tell the tracer of the messages between guest and firmware; the one with the *)
(* address of the initial data makes pong_init set the channels up and log what the guest had put *)
(* into the rings before                                                                           *)
pong_init_Later == active' = TRUE /\ tail' = wptr /\ UNCHANGED <<seen, ok, raised>>
pong_init == active' = TRUE /\ poll_ring(wptr)
init_ep ==
  /\ pc = "boot" /\ pc' = "guest" /\ pong_init
  /\ UNCHANGED <<part, pauses, ring, wptr, rptr, gw, n, taken, queueVars, workVars, ask>>
GuestPosts ==
  /\ part = "tx" /\ pc \in {"boot", "guest"} /\ Produces
  /\ pc' = IF pc = "guest" /\ active THEN "wptr" ELSE pc
  /\ UNCHANGED <<part, active, pauses, rptr, gw, taken, tail, seen, raised, ok, queueVars, workVars, ask>>
kick ==
  /\ part \in {"rx", "tx"} /\ pc = "guest" /\ active
  /\ Polled(wptr)
  /\ UNCHANGED <<part, active, pauses, ring, wptr, rptr, gw, n, taken, pc, queueVars, workVars, ask>>

(* ChannelTracer.state_read and state_write: the access is done, then the tracer is called *)
state_read ==
  /\ part \in {"rx", "tx"} /\ pc = "guest"
  /\ gw' = wptr
  /\ Polled(wptr)
  /\ UNCHANGED <<part, active, pauses, ring, wptr, rptr, n, taken, pc, queueVars, workVars, ask>>
state_write_WPTR ==
  /\ part = "tx" /\ pc = "wptr" /\ pc' = "guest"
  /\ Polled(wptr)
  /\ UNCHANGED <<part, active, pauses, ring, wptr, rptr, gw, n, taken, queueVars, workVars, ask>>
GuestTakes ==
  /\ part = "rx" /\ pc = "guest" /\ rptr # gw
  /\ ok' = (ok /\ ring[rptr] = taken + 1) /\ taken' = taken + 1
  /\ rptr' = Up(rptr) /\ pc' = IF active THEN "rptr" ELSE pc
  /\ UNCHANGED <<part, active, pauses, ring, wptr, gw, n, tail, seen, raised, queueVars, workVars, ask>>
state_write_RPTR ==
  /\ part = "rx" /\ pc = "rptr"
  /\ \/ poll_ring(wptr) /\ pc' = "clear"
     \/ tail # wptr /\ poll_Raises /\ pc' = "guest"
  /\ UNCHANGED <<part, active, pauses, ring, wptr, rptr, gw, n, taken, queueVars, workVars, ask>>
Cleared_Next == rptr
Cleared == (rptr - 1) % Count
clear_message ==
  /\ part = "rx" /\ pc = "clear" /\ pc' = "guest"
  /\ ring' = [ring EXCEPT ![Cleared] = 0]
  /\ UNCHANGED <<part, active, pauses, wptr, rptr, gw, n, taken, tail, seen, raised, ok, queueVars, workVars, ask>>

(* AGXTracer.pause and resume, with set_active of every channel and queue: a channel that wakes *)
(* starts at the write pointer, a queue that was put to sleep has forgotten its place           *)
pause ==
  /\ active /\ pc = "guest" /\ pauses < MaxPauses /\ pauses' = pauses + 1 /\ active' = FALSE
  /\ tail' = IF part = "queue" THEN -1 ELSE tail
  /\ UNCHANGED <<part, ring, wptr, rptr, gw, n, taken, seen, pc, raised, ok, queueVars, workVars, ask>>
Woken_Keeps == tail
Woken == wptr
resume ==
  /\ ~active /\ pc = "guest" /\ part # "kick" /\ active' = TRUE
  /\ IF part \in {"rx", "tx"} THEN tail' = Woken /\ seen' = n /\ raised' = FALSE
     ELSE UNCHANGED <<tail, seen, raised>>
  /\ UNCHANGED <<part, pauses, ring, wptr, rptr, gw, n, taken, pc, ok, queueVars, workVars, ask>>

(* ----------------------------- a command queue -------------------------- *)
(* Items are pushed at the driver's write pointer, and submitted by a message that carries it *)
Push ==
  /\ part = "queue" /\ Produces
  /\ UNCHANGED <<part, active, pauses, rptr, gw, taken, tail, seen, pc, raised, ok, queueVars, workVars, ask>>
(* gpu_doneptr *)
GpuDone ==
  /\ part = "queue" /\ rptr # head /\ rptr' = Up(rptr) /\ done' = done + 1
  /\ UNCHANGED <<part, active, pauses, ring, wptr, gw, n, taken, tail, seen, pc, raised, ok, head, uuid, last_uuid, fresh, workVars, ask>>
(* The driver drops an idle queue and makes another at the same address; taken: the items before it *)
Recreate ==
  /\ part = "queue" /\ rptr = wptr /\ n > 0 /\ uuid < 3
  /\ uuid' = uuid + 1 /\ fresh' = TRUE /\ head' = 0 /\ wptr' = 0 /\ rptr' = 0 /\ ring' = [i \in Slots |-> 0]
  /\ taken' = n
  /\ UNCHANGED <<part, active, pauses, gw, n, tail, seen, pc, raised, ok, done, last_uuid, workVars, ask>>
(* CommandQueueTracer: a queue announced as new, and not known by its uuid, starts at slot 0 *)
get_cmdqueue_Known(new) == IF last_uuid = 0 THEN 0 ELSE tail
get_cmdqueue(new) == IF new /\ uuid # last_uuid THEN 0 ELSE tail
(* get_workitems: the items from the place kept, or from the GPU's done pointer, up to the message's *)
get_workitems(from) ==
  LET start == IF from = -1 THEN rptr ELSE from
      items == Between(start, wptr)
  IN  /\ ok' = (ok /\ InARow(items, IF fresh THEN taken ELSE IF from = -1 THEN done ELSE seen) /\ (items = <<>> \/ items[Len(items)] = n))
      /\ tail' = wptr /\ seen' = n
RunCmdQueue ==
  /\ part = "queue" /\ head # wptr
  /\ head' = wptr /\ fresh' = FALSE
  /\ IF active
     THEN get_workitems(get_cmdqueue(fresh)) /\ last_uuid' = IF fresh THEN uuid ELSE last_uuid
     ELSE UNCHANGED <<tail, seen, ok, last_uuid>>
  /\ UNCHANGED <<part, active, pauses, ring, wptr, rptr, gw, n, taken, pc, raised, done, uuid, workVars, ask>>

(* ------------------------------- work items ----------------------------- *)
(* An item of a queue of one type: its command may be absent or no draw ("none"), one that is not *)
(* looked into ("other"), or a draw or a dispatch, whose buffers are read in its own context      *)
Item(k, c) == [kind |-> k, ctx |-> c, n |-> n + 1, dumps |-> 1]
Contexts == 1 .. 2

(* Which item the tracer keeps for a second dump, and in which context it reads, if it reads *)
Keeps(t, i) == t = "CP" \/ i.kind # "none"
Context_Late(t, i) == IF t = "3D" THEN cur ELSE i.ctx
Context(t, i) == i.ctx
Reads(t, i) ==
  /\ cur' = IF i.kind = "draw" THEN Context(t, i) ELSE cur
  /\ ok' = (ok /\ (i.kind = "draw" => cur' = i.ctx))
(* handle_ta, handle_3d and handle_compute; handle_compute fails on an item with no command *)
Handled(t, i) == last' = [last EXCEPT ![t] = IF Keeps(t, i) THEN i ELSE @] /\ Reads(t, i)
handle_ta(i) == Handled("TA", i)
handle_3d(i) == Handled("3D", i)
handle_compute(i) == Handled("CP", i)
handle_ringmsg ==
  /\ part = "work" /\ active /\ n < MaxMsgs /\ n' = n + 1
  /\ \E k \in {"none", "other", "draw"}, c \in Contexts :
       handle_ta(Item(k, c)) \/ handle_3d(Item(k, c)) \/ handle_compute(Item(k, c))
  /\ UNCHANGED <<part, active, pauses, ring, wptr, rptr, gw, taken, tail, seen, pc, raised, queueVars, ask>>
(* exclude_context_id and encoder_id_filter pass over all the items of the message *)
Filtered ==
  /\ part = "work" /\ active /\ n < MaxMsgs /\ n' = n + 1
  /\ UNCHANGED <<part, active, pauses, ring, wptr, rptr, gw, taken, tail, seen, pc, raised, ok, queueVars, workVars, ask>>

(* handle_event dumps the kept items a second time, in the order TA, 3D, CP, and forgets each *)
Fails(t) == t = "CP" /\ last[t] # <<>> /\ last[t].kind = "none"
Pending == {t \in Types : last[t] # <<>>}
Forgets_Not(t) == FALSE
Forgets(t) == ~Fails(t)
handle_event ==
  /\ part = "work" /\ active /\ Pending # {}
  /\ LET draws == {t \in Pending : last[t].kind = "draw"}
         final == IF "CP" \in draws THEN "CP" ELSE IF "3D" \in draws THEN "3D" ELSE "TA"
     IN  cur' = IF draws = {} THEN cur ELSE last[final].ctx
  /\ ok' = (ok /\ \A t \in Pending : Fails(t) \/ last[t].dumps = 1)
  /\ last' = [t \in Types |-> IF t \in Pending /\ Forgets(t) THEN <<>>
                              ELSE IF t \in Pending /\ ~Fails(t) THEN [last[t] EXCEPT !.dumps = 2] ELSE last[t]]
  /\ UNCHANGED <<part, active, pauses, ring, wptr, rptr, gw, n, taken, tail, seen, pc, raised, queueVars, ask>>

(* --------------------------------- kicks -------------------------------- *)
channelNames == <<<<"TA", 0>>, <<"3D", 0>>, <<"CL", 0>>, <<"TA", 1>>, <<"3D", 1>>, <<"CL", 1>>,
                  <<"TA", 2>>, <<"3D", 2>>, <<"CL", 2>>, <<"TA", 3>>, <<"3D", 3>>, <<"CL", 3>>,
                  <<"DevCtrl", 0>>, <<"Event", 0>>, <<"FWLog", 0>>, <<"KTrace", 0>>, <<"Stats", 0>>, <<"FWCtl", 0>>>>
(* init_channels has no tracer for the statistics and the kernel trace *)
init_channels == SelectSeq(channelNames, LAMBDA c : c[1] \notin {"Stats", "KTrace"})
(* AGXTracer.kick: all of them, or the one the value names, and the channels from the firmware *)
polled_Flat(val) ==
  LET chans == init_channels
      from == {chans[i] : i \in 14 .. Len(chans)}
  IN  IF val = 16 THEN {chans[i] : i \in DOMAIN chans}
      ELSE IF val = 17 THEN {chans[13]} \cup from
      ELSE {chans[1 + (val % 12)]} \cup from
polled(val) ==
  LET chans == init_channels
      from == {chans[i] : i \in 14 .. Len(chans)}
  IN  IF val = 16 THEN {chans[i] : i \in DOMAIN chans}
      ELSE IF val = 17 THEN {chans[13]} \cup from
      ELSE {chans[1 + (val % 4) + 3 * ((val \div 4) % 4)]} \cup from
fwkick == LET chans == init_channels IN {chans[i] : i \in 14 .. Len(chans)} \cup {chans[Len(chans)]}
AskKick ==
  /\ part = "kick" /\ ask = <<>>
  /\ \E val \in {v \in 0 .. 17 : v < 16 => v % 4 # 3} : ask' = <<val, polled(val)>>
  /\ UNCHANGED <<part, active, pauses, ringVars, ok, queueVars, workVars>>

AgxNext ==
  \/ FwPosts \/ FwTakes \/ init_ep \/ GuestPosts \/ kick \/ state_read \/ state_write_WPTR \/ GuestTakes
  \/ state_write_RPTR \/ clear_message \/ pause \/ resume
  \/ Push \/ GpuDone \/ Recreate \/ RunCmdQueue
  \/ handle_ringmsg \/ Filtered \/ handle_event \/ AskKick

AgxSpec == AgxInit /\ [][AgxNext]_agxVars

-----------------------------------------------------------------------------
(* Type invariant. *)
AgxTypeOK ==
  /\ active \in BOOLEAN /\ pauses \in 0 .. MaxPauses /\ ok \in BOOLEAN /\ raised \in BOOLEAN
  /\ wptr \in Slots /\ rptr \in Slots /\ gw \in Slots /\ tail \in Slots \cup {-1}
  /\ n \in 0 .. MaxMsgs /\ pc \in {"boot", "guest", "wptr", "rptr", "clear"}
  /\ \A t \in Types : last[t] = <<>> \/ last[t].kind \in {"none", "other", "draw"}

(* While it is active the tracer logs every message of a ring once and in order, whichever of the   *)
(* guest's reads and writes of the pointers it hears of and however far the firmware is by then,    *)
(* unless a message could not be handled (the tail is then left behind until the next resume); and  *)
(* the test pattern it writes over a read message never lands on one the guest has yet to read.     *)
TraceInOrder == part \in {"rx", "tx"} => ok

(* A pause loses no more of a command queue than the GPU had finished before the next message, and  *)
(* a queue made anew at an old one's address is read from its start.                                *)
ItemsInOrder == part = "queue" => ok

(* An item's buffers are read in that item's own context, also when the event that ends it makes    *)
(* the tracer dump it again, which happens once.                                                    *)
ReadsOwnContext == part = "work" => ok

(* The kick the driver sends for a submission channel (its doorbell numbers count priorities in     *)
(* fours) makes the tracer poll that channel and every channel from the firmware, although the list *)
(* of tracers counts them in threes and leaves two channels out.                                    *)
KickPolls ==
  ask # <<>> =>
    LET f == fwkick
    IN  /\ {<<"Event", 0>>, <<"FWLog", 0>>, <<"FWCtl", 0>>} = f /\ f \subseteq ask[2]
        /\ ask[1] = 17 => ask[2] = f \cup {<<"DevCtrl", 0>>}
        /\ ask[1] < 16 => ask[2] = f \cup {<<(<<"TA", "3D", "CL">>)[1 + (ask[1] % 4)], ask[1] \div 4>>}

-----------------------------------------------------------------------------
(***************************************************************************)
(* How the GPU tracer follows the guest's page tables (trace/agx.py).  A   *)
(* guest write to a watched table stops its CPU and calls uat_write, which *)
(* watches the table the new entry names, or forgets the one it named, and *)
(* traces or drops the pages of a last-level table.  A write of a          *)
(* context's root scans the whole tree.  Tracers are kept by page and      *)
(* context; va_to_pa remembers which page an entry named.                  *)
(*                                                                         *)
(* One level lies between root and last level (two in the device).  A      *)
(* table has one place in one tree at a time, a data page one in each.     *)
(***************************************************************************)

CONSTANTS Tables,   \* pages the guest uses for tables
          Data,     \* pages of GPU memory
          UatContexts, \* 0 is the kernel's, whose pages are not traced (trace_kernva)
          Fan,      \* entries of a table
          MaxWrites \* what the guest writes

VARIABLES ttbr, mem, watch, vm, va_to_pa, early, wrong, uatActive, regions, writes

uatVars == <<ttbr, mem, watch, vm, va_to_pa, early, wrong, uatActive, regions, writes>>

UatSlots == 0 .. Fan - 1
Regions == {"regionA", "regionB", "Buffer manager ctl"}

UatInit ==
  /\ ttbr = [c \in UatContexts |-> 0] /\ mem = [p \in Tables |-> [i \in UatSlots |-> 0]]
  /\ watch = {} /\ vm = {} /\ va_to_pa = {} /\ early = {} /\ wrong = FALSE
  /\ uatActive = TRUE /\ regions = Regions /\ writes = 0

(* The tables and pages of a context, as foreach_table and foreach_page list them; an iova is the *)
(* path of entries to it                                                                          *)
TablesOf(root, m) ==
  IF root = 0 THEN {}
  ELSE {[page |-> root, level |-> 1, iova |-> <<>>]}
       \cup {[page |-> m[root][i], level |-> 0, iova |-> <<i>>] : i \in {k \in UatSlots : m[root][k] \in Tables}}
PagesOf(root, m) ==
  {[page |-> m[e[1].page][e[2]], iova |-> <<e[1].iova[1], e[2]>>] :
     e \in {x \in {u \in TablesOf(root, m) : u.level = 0} \X UatSlots : m[x[1].page][x[2]] \in Data}}

Used(r, m) == UNION {{t.page : t \in TablesOf(r[c], m)} : c \in UatContexts}
Tracer(t, c) == [page |-> t.page, ctx |-> c, level |-> t.level, iova |-> t.iova]

(* hv.add_tracer and del_tracer: one tracer for a page and a context *)
Put(set, w) == {x \in set : x.page # w.page \/ x.ctx # w.ctx} \cup {w}

Remember(rec, key, p) == {r \in rec : r.key # key} \cup {[key |-> key, page |-> p]}

(* add_uatmap_tracers and add_gpuvm_tracers scan a context, or all of them *)
add_uatmap_tracers(set, c, root, m) ==
  {x \in set : ~\E t \in TablesOf(root, m) : x.page = t.page /\ x.ctx = c}
  \cup {Tracer(t, c) : t \in TablesOf(root, m)}
Vm(s, c) == [page |-> s.page, ctx |-> c, iova |-> s.iova]
add_gpuvm_tracers(set, c, root, m) ==
  IF c = 0 THEN set
  ELSE {x \in set : ~\E s \in PagesOf(root, m) : x.page = s.page /\ x.ctx = c} \cup {Vm(s, c) : s \in PagesOf(root, m)}

(* uat_write at the root: all that was watched of the context goes, or the new tree is scanned; *)
(* uat_page_mapped, called for each page found, remembers it                                    *)
uat_write_Root_NoScan(c, root) ==
  /\ watch' = IF root = 0 THEN {x \in watch : x.ctx # c} ELSE Put(watch, Tracer([page |-> root, level |-> 1, iova |-> <<>>], c))
  /\ vm' = IF root = 0 THEN {x \in vm : x.ctx # c} ELSE vm
  /\ va_to_pa' = va_to_pa
uat_write_Root(c, root) ==
  /\ watch' = IF root = 0 THEN {x \in watch : x.ctx # c} ELSE add_uatmap_tracers(watch, c, root, mem)
  /\ vm' = IF root = 0 THEN {x \in vm : x.ctx # c} ELSE add_gpuvm_tracers(vm, c, root, mem)
  /\ va_to_pa' = IF root = 0 \/ c = 0 THEN va_to_pa
                 ELSE {r \in va_to_pa : ~\E s \in PagesOf(root, mem) : r.key = <<c, s.iova>>}
                      \cup {[key |-> <<c, s.iova>>, page |-> s.page] : s \in PagesOf(root, mem)}
GuestSetsRoot ==
  /\ writes < MaxWrites /\ writes' = writes + 1
  /\ \E c \in UatContexts, root \in Tables \cup {0} :
       /\ root # ttbr[c] /\ (ttbr[c] # 0 => root = 0)
       /\ \/ root = 0
          \/ /\ TablesOf(root, mem) # {} /\ {t.page : t \in TablesOf(root, mem)} \cap Used(ttbr, mem) = {}
             /\ \A i \in UatSlots : mem[root][i] \in Tables \cup {0}
             /\ \A i, j \in UatSlots : i # j /\ mem[root][i] # 0 => mem[root][i] # mem[root][j]
             /\ \A t \in TablesOf(root, mem) : t.level = 0 => t.page # root /\ \A i \in UatSlots : mem[t.page][i] \in Data \cup {0}
             /\ \A s, u \in PagesOf(root, mem) : s.page = u.page => s = u
       /\ ttbr' = [ttbr EXCEPT ![c] = root]
       /\ IF uatActive THEN uat_write_Root(c, root) ELSE UNCHANGED <<watch, vm, va_to_pa>>
       /\ early' = IF root # 0 /\ uatActive THEN early \ ({t.page : t \in TablesOf(root, mem)} \X UatSlots) ELSE early
  /\ UNCHANGED <<mem, wrong, uatActive, regions>>

(* One tracer of the table that was written: a table entry, or a page entry (uat_page_mapped).  An *)
(* entry that is cleared is looked up in va_to_pa.                                                 *)
KeyOf(w, i) == IF w.level = 1 THEN <<w.ctx, <<i>>>> ELSE <<w.ctx, <<w.iova[1], i>>>>
Recorded(w, i) == {r.page : r \in {x \in va_to_pa : x.key = KeyOf(w, i)}}
Traced(w) == w.level = 1 \/ w.ctx # 0
uat_page_mapped_Base(w, i, v) == [page |-> v, ctx |-> w.ctx, iova |-> <<w.iova[1], 0>>]
uat_page_mapped(w, i, v) == [page |-> v, ctx |-> w.ctx, iova |-> <<w.iova[1], i>>]
uat_write_Unmap_Blind(w, i) ==
  IF w.level = 1 THEN watch' = {x \in watch : x.ctx # w.ctx \/ x.level = 1} /\ vm' = vm
  ELSE watch' = watch /\ vm' = {x \in vm : x.page \notin Recorded(w, i) \/ x.ctx # w.ctx}
uat_write_Unmap(w, i) ==
  IF w.level = 1 THEN watch' = {x \in watch : x.page \notin Recorded(w, i) \/ x.ctx # w.ctx} /\ vm' = vm
  ELSE watch' = watch /\ vm' = {x \in vm : x.page \notin Recorded(w, i) \/ x.ctx # w.ctx}
uat_write(w, i, v) ==
  IF v = 0
  THEN /\ uat_write_Unmap(w, i)
       /\ va_to_pa' = {r \in va_to_pa : r.key # KeyOf(w, i)}
       /\ wrong' = (wrong \/ Recorded(w, i) \ {mem[w.page][i]} # {})
  ELSE IF ~Traced(w) THEN UNCHANGED <<watch, vm, va_to_pa, wrong>>
  ELSE /\ va_to_pa' = Remember(va_to_pa, KeyOf(w, i), v)
       /\ IF w.level = 1
          THEN watch' = Put(watch, [page |-> v, ctx |-> w.ctx, level |-> 0, iova |-> <<i>>]) /\ vm' = vm
          ELSE watch' = watch /\ vm' = Put(vm, uat_page_mapped(w, i, v))
       /\ UNCHANGED wrong

(* The guest writes an entry of a table: of a tree, in its place, or of a table not yet in any.  A *)
(* tracer left on a page that is not where it was is not followed further (`wrong`).               *)
InTree(p, c) == \E t \in TablesOf(ttbr[c], mem) : t.page = p
Roots == {ttbr[c] : c \in UatContexts}
Linked(p) == \E c \in UatContexts : InTree(p, c)
PagesBeside(p) == UNION {{s.page : s \in PagesOf(ttbr[c], mem)} : c \in {x \in UatContexts : InTree(p, x)}}
(* What the guest may write there *)
Fits(p, v) ==
  CASE v = 0 -> TRUE
    [] v \in Data -> p \notin Roots /\ v \notin PagesBeside(p) /\ \A j \in UatSlots : mem[p][j] # v
    [] v \in Tables -> /\ p \in Roots /\ v # p /\ ~Linked(v)
                       /\ \A j \in UatSlots : mem[v][j] \in (Data \ PagesBeside(p)) \cup {0}
Stale(w) == w \notin {Tracer(t, w.ctx) : t \in TablesOf(ttbr[w.ctx], mem)}
GuestWrites ==
  /\ writes < MaxWrites /\ writes' = writes + 1 /\ ~wrong
  /\ \E p \in Tables, i \in UatSlots, v \in Tables \cup Data \cup {0} :
       /\ v # mem[p][i] /\ (mem[p][i] # 0 => v = 0) /\ Fits(p, v)
       /\ mem' = [mem EXCEPT ![p][i] = v]
       /\ LET hit == {w \in watch : w.page = p}
          IN  /\ early' = (early \ {<<p, i>>}) \cup (IF v \in Tables THEN {v} \X {j \in UatSlots : mem[v][j] # 0} ELSE {})
              /\ IF hit = {} THEN UNCHANGED <<watch, vm, va_to_pa, wrong>>
                 ELSE IF \E w \in hit : Stale(w) THEN wrong' = TRUE /\ UNCHANGED <<watch, vm, va_to_pa>>
                 ELSE \E w \in hit : uat_write(w, i, v)
  /\ UNCHANGED <<ttbr, uatActive, regions>>

(* pause drops every tracer; resume scans all contexts again *)
uat_pause_Keeps == vm' = {x \in vm : x.ctx = 0} /\ watch' = watch
uat_pause_All == vm' = {} /\ watch' = {}
uat_pause ==
  /\ uatActive /\ uatActive' = FALSE
  /\ uat_pause_All
  /\ regions' = regions \ {"regionA", "regionB", "regionC"}
  /\ UNCHANGED <<ttbr, mem, va_to_pa, early, wrong, writes>>
uat_resume ==
  /\ ~uatActive /\ uatActive' = TRUE
  /\ watch' = UNION {{Tracer(t, c) : t \in TablesOf(ttbr[c], mem)} : c \in UatContexts}
  /\ vm' = UNION {{Vm(s, c) : s \in PagesOf(ttbr[c], mem)} : c \in UatContexts \ {0}}
  /\ va_to_pa' = LET found == UNION {{[key |-> <<c, s.iova>>, page |-> s.page] : s \in PagesOf(ttbr[c], mem)} : c \in UatContexts \ {0}}
                 IN  {r \in va_to_pa : \A f \in found : f.key # r.key} \cup found
  /\ regions' = Regions
  /\ early' = early \ (Used(ttbr, mem) \X UatSlots)
  /\ UNCHANGED <<ttbr, mem, wrong, writes>>

UatNext == GuestSetsRoot \/ GuestWrites \/ uat_pause \/ uat_resume

UatSpec == UatInit /\ [][UatNext]_uatVars

-----------------------------------------------------------------------------
(* Type invariant. *)
UatTypeOK ==
  /\ ttbr \in [UatContexts -> Tables \cup {0}] /\ mem \in [Tables -> [UatSlots -> Tables \cup Data \cup {0}]]
  /\ \A w \in watch : w.page \in Tables /\ w.ctx \in UatContexts /\ w.level \in 0 .. 1
  /\ \A x \in vm : x.page \in Data /\ x.ctx \in UatContexts
  /\ writes \in 0 .. MaxWrites /\ wrong \in BOOLEAN /\ uatActive \in BOOLEAN /\ regions \subseteq Regions

(* While the trace is active every table of every context is watched, at its own place in its own   *)
(* tree, however the guest links, clears and reuses tables: no later write to it is missed or       *)
(* misread.  Exempt are runs in which a record of va_to_pa outlived the tree it was made for (the   *)
(* scans neither drop nor renew the records of tables) or a scanned table was unlinked, which       *)
(* leaves its tracer behind.                                                                        *)
TablesFollowed ==
  uatActive /\ ~wrong =>
       \A c \in UatContexts : {Tracer(t, c) : t \in TablesOf(ttbr[c], mem)} \subseteq watch

(* Every page of a user context is traced under the address the GPU knows it by, except those       *)
(* a table below the root held when it was linked (uat_write does not look into it).                *)
PagesTraced ==
  uatActive /\ ~wrong =>
       \A c \in UatContexts \ {0} : \A s \in PagesOf(ttbr[c], mem) :
         \/ Vm(s, c) \in vm
         \/ <<mem[ttbr[c]][s.iova[1]], s.iova[2]>> \in early

(* A paused trace is silent: no table, page or region of the initial data is traced, but for the    *)
(* buffer manager's page, which resume traces and pause does not name.                              *)
PausedIsSilent == ~uatActive => watch = {} /\ vm = {} /\ regions \subseteq {"Buffer manager ctl"}

-----------------------------------------------------------------------------
(***************************************************************************)
(* The hypervisor's tracer of the guest's display coprocessor driver       *)
(* (hv/trace_dcp.py), which listens to the mailbox and reads along in the  *)
(* memory the two share: rings of messages (AFK), services announced on    *)
(* channels of such a ring (EPIC), and the stacks of remote calls of the   *)
(* frame buffer endpoint.                                                  *)
(*                                                                         *)
(* The three machines share nothing and are explored apart.  A ring is a   *)
(* row of slots, one for a message; the tracer reads a ring when a mailbox *)
(* message announces something in it, while the guest's CPU is stopped.    *)
(***************************************************************************)

CONSTANTS DcpSlots,    \* slots of a ring, one of which stays free
          DcpMaxMsgs,  \* messages of the ring, and calls
          Chans     \* EPIC channels

VARIABLES dcpPart,
          dcpRing, dcpWptr, dcpRptr, dcpN, mails, busy, state_rptr, sniffed, lapped, dcpOk,  \* AFK
          chan_map, out, handled, count,                                      \* EPIC
          nest, asyncs, ch, traced, stale, calls                              \* calls

afkVars == <<dcpRing, dcpWptr, dcpRptr, dcpN, mails, busy, state_rptr, sniffed, lapped>>
epicVars == <<chan_map, out, handled, count>>
callVars == <<nest, asyncs, ch, traced, stale, calls>>
dcpVars == <<dcpPart, dcpRing, dcpWptr, dcpRptr, dcpN, mails, busy, state_rptr, sniffed, lapped, dcpOk,
             chan_map, out, handled, count, nest, asyncs, ch, traced, stale, calls>>

DcpUp(i) == (i + 1) % DcpSlots
Channels == {"CMD", "CB", "ASYNC"}

DcpInit ==
  /\ dcpPart \in {"afk", "epic", "calls"}
  /\ dcpRing = [i \in 0 .. DcpSlots - 1 |-> 0] /\ dcpWptr = 0 /\ dcpRptr = 0 /\ dcpN = 0 /\ mails = 0 /\ busy = FALSE
  /\ state_rptr = 0 /\ sniffed = 0 /\ lapped = FALSE /\ dcpOk = TRUE
  /\ chan_map = [c \in Chans |-> "none"] /\ out = [c \in Chans |-> <<>>] /\ handled = <<>> /\ count = 0
  /\ nest = <<>> /\ asyncs = <<>> /\ ch = [x \in Channels |-> <<>>] /\ traced = FALSE /\ stale = FALSE /\ calls = 0

(* -------------------------------- AFK rings ----------------------------- *)
(* The coprocessor puts a message into the ring and announces it.  lapped: it came round to one the *)
(* tracer has not read, because the guest took more than had been announced to it.                  *)
FwWrites ==
  /\ dcpPart = "afk" /\ dcpN < DcpMaxMsgs /\ DcpUp(dcpWptr) # dcpRptr
  /\ dcpRing' = [dcpRing EXCEPT ![dcpWptr] = dcpN + 1] /\ dcpWptr' = DcpUp(dcpWptr) /\ dcpN' = dcpN + 1 /\ mails' = mails + 1
  /\ lapped' = (lapped \/ dcpRing[dcpWptr] > sniffed)
  /\ UNCHANGED <<dcpPart, dcpRptr, busy, state_rptr, sniffed, dcpOk, epicVars, callVars>>
DcpGuestTakes ==
  /\ dcpPart = "afk" /\ busy
  /\ IF dcpRptr = dcpWptr THEN busy' = FALSE /\ dcpRptr' = dcpRptr ELSE dcpRptr' = DcpUp(dcpRptr) /\ busy' = busy
  /\ UNCHANGED <<dcpPart, dcpRing, dcpWptr, dcpN, mails, state_rptr, sniffed, lapped, dcpOk, epicVars, callVars>>

(* AFKEp.Send and Recv: the sniffer, whose place is kept in the endpoint's state, reads to the end *)
read ==
  LET k == (dcpWptr - state_rptr + DcpSlots) % DcpSlots
  IN  /\ state_rptr' = dcpWptr /\ sniffed' = sniffed + k
      /\ dcpOk' = (dcpOk /\ (lapped \/ \A j \in 1 .. k : dcpRing[(state_rptr + j - 1) % DcpSlots] = sniffed + j))
Recv ==
  /\ dcpPart = "afk" /\ mails > 0 /\ ~busy
  /\ mails' = mails - 1 /\ busy' = TRUE /\ read
  /\ UNCHANGED <<dcpPart, dcpRing, dcpWptr, dcpRptr, dcpN, lapped, epicVars, callVars>>
(* AFKEp.GetBuf_Ack and InitRX: the coprocessor starts again with a new buffer.  The messages of *)
(* the old one that were not read are gone.                                                      *)
Renewed_Keeps == state_rptr
Renewed == 0
GetBuf_Ack ==
  /\ dcpPart = "afk" /\ dcpN > 0 /\ ~busy /\ sniffed + mails > 0
  /\ dcpRing' = [i \in 0 .. DcpSlots - 1 |-> 0] /\ dcpWptr' = 0 /\ dcpRptr' = 0 /\ mails' = 0 /\ lapped' = FALSE
  /\ state_rptr' = Renewed /\ sniffed' = dcpN
  /\ UNCHANGED <<dcpPart, dcpN, busy, dcpOk, epicVars, callVars>>
(* The tracer is loaded again: start hands the old state to new endpoints, create_bufs makes new *)
(* sniffers from it                                                                               *)
create_bufs_Anew == 0
create_bufs == state_rptr
start ==
  /\ dcpPart = "afk" /\ dcpN > 0
  /\ state_rptr' = create_bufs
  /\ UNCHANGED <<dcpPart, dcpRing, dcpWptr, dcpRptr, dcpN, mails, busy, sniffed, lapped, dcpOk, epicVars, callVars>>

(* --------------------------------- EPIC --------------------------------- *)
(* The handlers of EPICServiceTracer, which every service has, and of the services that are known *)
Base == {<<4, c>> : c \in 4 .. 7}
AVController == {<<0, 14>>}
DPDevice == {<<0, 15>>}
AudioInterface_NoPort == {<<0, c>> : c \in {6, 8, 9, 15, 16, 22}} \cup {<<1, c>> : c \in {18, 20, 21}}
AudioInterface == {<<0, c>> : c \in {6, 8, 9, 15, 16, 17, 22}} \cup {<<1, c>> : c \in {18, 20, 21}}
AudioReplies == {<<0, c>> : c \in {6, 8, 9, 15, 16, 17, 22}} \cup {<<1, c>> : c \in {18, 20, 21}}
HdcpSession == {<<4, 8>>}
PortCommands == {<<0, c>> : c \in {6, 11, 12}} \cup {<<8, 8>>}
PortNotifiesLow == {<<0, c>> : c \in 0 .. 12}
PortNotifiesHigh == {<<0, c>> : c \in 13 .. 24}

Services == {"dcpav-controller", "dcpdp-device", "dcpav-audio-interface", "dcpdptx-hdcp", "dcpdptx-port", "unknown"}
cmdmap(s) ==
  Base \cup CASE s = "none" -> {}
              [] s = "dcpav-controller" -> AVController
              [] s = "dcpdp-device" -> DPDevice
              [] s = "dcpav-audio-interface" -> AudioInterface
              [] s = "dcpdptx-hdcp" -> HdcpSession
              [] s = "dcpdptx-port" -> PortCommands
              [] s = "unknown" -> {}
replymap(s) == IF s = "dcpav-audio-interface" THEN Base \cup AudioReplies ELSE cmdmap(s)
notifymap(s) == IF s = "dcpdptx-port" THEN PortNotifiesLow \cup PortNotifiesHigh ELSE {}
notifyackmap(s) == notifymap(s)

(* The handler that a message of one kind finds: the service's own, or none *)
Finds(map, c, key) == IF chan_map[c] # "none" /\ key \in map THEN <<chan_map[c], key>> ELSE <<"?", key>>
KeysUsed == {<<4, 6>>, <<0, 6>>, <<0, 17>>, <<8, 8>>, <<9, 9>>}

(* EPICEp.handle_report_init: a service is announced on a channel, perhaps one that had another *)
handle_report_init_First(c, s) == IF chan_map[c] = "none" THEN s ELSE chan_map[c]
handle_report_init(c, s) == s
handle_report ==
  /\ dcpPart = "epic" /\ count < DcpMaxMsgs /\ count' = count + 1
  /\ \E c \in Chans, s \in Services :
       /\ chan_map' = [chan_map EXCEPT ![c] = handle_report_init(c, s)]
       /\ out' = [out EXCEPT ![c] = <<>>]
       /\ handled' = <<"announce", c, s, chan_map'[c]>>
  /\ UNCHANGED <<dcpPart, afkVars, dcpOk, callVars>>
handle_cmd ==
  /\ dcpPart = "epic" /\ count < DcpMaxMsgs /\ count' = count + 1
  /\ \E c \in Chans, key \in KeysUsed :
       /\ out[c] = <<>> /\ out' = [out EXCEPT ![c] = key]
       /\ \/ handled' = <<"cmd", c, key, Finds(cmdmap(chan_map[c]), c, key)>>
          \/ handled' = <<>>
  /\ UNCHANGED <<dcpPart, chan_map, afkVars, dcpOk, callVars>>
(* The services live in the endpoint object and not in its state: a reload forgets them *)
EPICEp_init ==
  /\ dcpPart = "epic" /\ count < DcpMaxMsgs /\ count' = count + 1
  /\ chan_map' = [c \in Chans |-> "none"] /\ handled' = <<>>
  /\ UNCHANGED <<dcpPart, out, afkVars, dcpOk, callVars>>
(* A reply without a buffer, or with a short one, is logged and not looked into *)
handle_reply ==
  /\ dcpPart = "epic" /\ count < DcpMaxMsgs /\ count' = count + 1
  /\ \E c \in Chans :
       /\ out[c] # <<>> /\ out' = [out EXCEPT ![c] = <<>>]
       /\ \/ handled' = <<"reply", c, out[c], Finds(replymap(chan_map[c]), c, out[c])>>
          \/ handled' = <<>>
  /\ UNCHANGED <<dcpPart, chan_map, afkVars, dcpOk, callVars>>
handle_notify ==
  /\ dcpPart = "epic" /\ count < DcpMaxMsgs /\ count' = count + 1
  /\ \E c \in Chans, key \in {<<0, 0>>, <<0, 12>>, <<0, 24>>, <<4, 6>>} :
       handled' = <<"notify", c, key, Finds(notifymap(chan_map[c]), c, key)>>
  /\ UNCHANGED <<dcpPart, chan_map, out, afkVars, dcpOk, callVars>>

(* ------------------------------ remote calls ---------------------------- *)
(* Commands of the guest and callbacks of the coprocessor nest in one another: the last one called *)
(* is the first acknowledged.  A command made inside a callback goes by the callback's context but *)
(* on the commands' channel.                                                                       *)
Entry(x, off) == [chan |-> x, off |-> off, id |-> calls + 1]
(* DCPEp's maps from the context of a message to the channel of the commands and of the callbacks *)
cmd_ch(ctx) == IF ctx = "CB" THEN "CMD" ELSE ctx
cb_ch(ctx) == ctx
Offset(x) == Cardinality({i \in DOMAIN nest : nest[i].chan = x})
DCPCallChannel_call(e) ==
  IF ~traced THEN UNCHANGED ch
  ELSE IF \E i \in DOMAIN ch[e.chan] : ch[e.chan][i].off = e.off THEN UNCHANGED ch
  ELSE ch' = [ch EXCEPT ![e.chan] = Append(@, e)]
(* Its place is compared with no other: a call at the place of one that was never acknowledged is *)
(* reported as overlapping, and dropped                                                           *)
Top_First(x) == ch[x][1]
Top(x) == ch[x][Len(ch[x])]
DCPCallChannel_ack(e) ==
  IF ~traced \/ ch[e.chan] = <<>> THEN UNCHANGED <<ch, dcpOk>>
  ELSE /\ dcpOk' = (dcpOk /\ (stale \/ Top(e.chan).id = e.id))
       /\ ch' = [ch EXCEPT ![e.chan] = SubSeq(@, 1, Len(@) - 1)]


(* DCPEp.Tx and Rx *)
InTurn == IF nest = <<>> THEN TRUE ELSE nest[Len(nest)].from = "coprocessor"
Called(from, chan) == nest' = Append(nest, Entry(chan, Offset(chan)) @@ [from |-> from])
Tx_Call ==
  /\ dcpPart = "calls" /\ calls < DcpMaxMsgs /\ InTurn /\ calls' = calls + 1
  /\ LET chan == cmd_ch(IF nest = <<>> THEN "CMD" ELSE "CB")
     IN  Called("guest", chan) /\ DCPCallChannel_call(Entry(chan, Offset(chan)))
  /\ UNCHANGED <<dcpPart, afkVars, dcpOk, epicVars, asyncs, traced, stale>>
Rx_Call ==
  /\ dcpPart = "calls" /\ calls < DcpMaxMsgs /\ nest # <<>> /\ calls' = calls + 1
  /\ nest[Len(nest)].from = "guest"
  /\ LET chan == cb_ch("CB")
     IN  Called("coprocessor", chan) /\ DCPCallChannel_call(Entry(chan, Offset(chan)))
  /\ UNCHANGED <<dcpPart, afkVars, dcpOk, epicVars, asyncs, traced, stale>>
Rx_Async ==
  /\ dcpPart = "calls" /\ calls < DcpMaxMsgs /\ asyncs = <<>>
  /\ asyncs' = <<Entry(cb_ch("ASYNC"), 0)>> /\ calls' = calls + 1
  /\ DCPCallChannel_call(Entry(cb_ch("ASYNC"), 0))
  /\ UNCHANGED <<dcpPart, afkVars, dcpOk, epicVars, nest, traced, stale>>
Ack ==
  /\ dcpPart = "calls" /\ nest # <<>> /\ nest' = SubSeq(nest, 1, Len(nest) - 1)
  /\ DCPCallChannel_ack(nest[Len(nest)])
  /\ UNCHANGED <<dcpPart, afkVars, epicVars, asyncs, traced, stale, calls>>
Tx_AsyncAck ==
  /\ dcpPart = "calls" /\ asyncs # <<>> /\ asyncs' = <<>>
  /\ DCPCallChannel_ack(asyncs[1])
  /\ UNCHANGED <<dcpPart, afkVars, epicVars, nest, traced, stale, calls>>
(* The trace may begin in the middle of calls *)
Attach ==
  /\ dcpPart = "calls" /\ ~traced /\ traced' = TRUE
  /\ UNCHANGED <<dcpPart, afkVars, dcpOk, epicVars, nest, asyncs, ch, stale, calls>>
(* SetShmem after the coprocessor was started again: what was called is never acknowledged, and the *)
(* tracer still holds it                                                                            *)
SetShmem ==
  /\ dcpPart = "calls" /\ calls > 0 /\ ~stale
  /\ nest' = <<>> /\ asyncs' = <<>> /\ stale' = (traced /\ nest \o asyncs # <<>>)
  /\ UNCHANGED <<dcpPart, afkVars, dcpOk, epicVars, ch, traced, calls>>

DcpNext ==
  \/ FwWrites \/ DcpGuestTakes \/ Recv \/ GetBuf_Ack \/ start
  \/ handle_report \/ EPICEp_init \/ handle_cmd \/ handle_reply \/ handle_notify
  \/ Tx_Call \/ Rx_Call \/ Rx_Async \/ Ack \/ Tx_AsyncAck \/ Attach \/ SetShmem

DcpSpec == DcpInit /\ [][DcpNext]_dcpVars

-----------------------------------------------------------------------------
(* Type invariant. *)
DcpTypeOK ==
  /\ dcpWptr \in 0 .. DcpSlots - 1 /\ dcpRptr \in 0 .. DcpSlots - 1 /\ state_rptr \in 0 .. DcpSlots - 1
  /\ dcpN \in 0 .. DcpMaxMsgs /\ dcpOk \in BOOLEAN /\ lapped \in BOOLEAN /\ busy \in BOOLEAN
  /\ chan_map \in [Chans -> Services \cup {"none"}] /\ traced \in BOOLEAN /\ stale \in BOOLEAN
  /\ Len(nest) <= DcpMaxMsgs

(* Reading along, the tracer gets every message of the ring once and in order, across a reload of   *)
(* the tracer and a restart of the coprocessor, as long as the guest has not taken messages that    *)
(* were not yet announced so early that the ring came round.                                        *)
ReadsAlong == dcpPart = "afk" => dcpOk

Known(c, key) == chan_map[c] # "none" /\ key \in cmdmap(chan_map[c]) \cup replymap(chan_map[c])

(* A message is given to the handler of the service last announced on its channel, and the reply of *)
(* a command that has a handler has one too, in the same service.                                   *)
OwnService ==
  handled # <<>> =>
    CASE handled[1] = "announce" -> chan_map[handled[2]] = handled[3]
      [] handled[1] \in {"cmd", "reply"} -> handled[4][1] = (IF Known(handled[2], handled[3]) THEN chan_map[handled[2]] ELSE "?")
      [] OTHER -> handled[4][1] = (IF chan_map[handled[2]] = "dcpdptx-port" /\ handled[3][1] = 0 THEN "dcpdptx-port" ELSE "?")

(* The answer shown for a call is that call's own, whichever calls and callbacks are nested and     *)
(* wherever the trace began, unless the coprocessor was started again in the middle of calls.       *)
AnswerOfCall == dcpPart = "calls" => dcpOk

-----------------------------------------------------------------------------
(***************************************************************************)
(* The SPMI controller: the client's driver of it (m1n1/hw/spmi.py) and    *)
(* the hypervisor's tracer of the guest's driver (m1n1/trace/spmi.py) with *)
(* the tracer of the USB-C power controllers behind it.                    *)
(*                                                                         *)
(* The controller has a FIFO of command words and one of reply words.  A   *)
(* command is one word and up to four bytes a word of data; its reply is   *)
(* one word and the data read.  The client's part and the tracer's part    *)
(* share nothing but the commands and are explored apart.                  *)
(***************************************************************************)

CONSTANTS MaxCmds,  \* commands
          Regs      \* registers of the power controller

VARIABLES spmiPart, cmds, left, exec, rx, sel,                            \* the driver and the controller
          spmiPc, mine, spmiRead, late, got,                                  \* the client's raw_command
          spmiTraced, midway, swallowed, cmd_pending, cmd_info, reply_pending, reply_started, sent_cmds, spmiOk,
          reg, last_opcode, data

busVars == <<cmds, left, exec, rx, sel>>
clientVars == <<spmiPc, mine, spmiRead, late, got>>
traceVars == <<spmiTraced, midway, swallowed, cmd_pending, cmd_info, reply_pending, reply_started, sent_cmds, spmiOk, reg, last_opcode, data>>
spmiVars == <<spmiPart, cmds, left, exec, rx, sel, spmiPc, mine, spmiRead, late, got, spmiTraced, midway, swallowed, cmd_pending,
              cmd_info, reply_pending, reply_started, sent_cmds, spmiOk, reg, last_opcode, data>>

SpmiInit ==
  /\ spmiPart \in {"client", "trace"}
  /\ cmds = <<>> /\ left = 0 /\ exec = 0 /\ rx = <<>> /\ sel = 0
  /\ spmiPc = "idle" /\ mine = 0 /\ spmiRead = 0 /\ late = FALSE /\ got = <<>>
  /\ spmiTraced = FALSE /\ midway = FALSE /\ swallowed = FALSE /\ cmd_pending = 0 /\ cmd_info = 0
  /\ reply_pending = <<>> /\ reply_started = FALSE /\ sent_cmds = <<>> /\ spmiOk = TRUE
  /\ reg = 0 /\ last_opcode = "none" /\ data = <<>>

(* The commands: register 0 of the device selects, an extended access moves data.  Words of data of *)
(* the command and of the reply.                                                                    *)
Opcodes == {"ZERO_WRITE", "EXT_READ", "EXT_WRITE", "WRITE", "READ", "WAKEUP"}
DataWords(op) == IF op = "EXT_WRITE" THEN 2 ELSE 0
ReplyWords(op) == CASE op = "EXT_READ" -> 2 [] op = "READ" -> 1 [] OTHER -> 0

(* The controller takes a command with all its data and puts the reply into its FIFO *)
Executes ==
  /\ exec < Len(cmds) - (IF left > 0 THEN 1 ELSE 0)
  /\ LET c == cmds[exec + 1]
         at == IF c.op = "ZERO_WRITE" THEN c.r ELSE sel
     IN  /\ exec' = exec + 1 /\ sel' = at
         /\ rx' = rx \o [k \in 1 .. 1 + ReplyWords(c.op) |-> [of |-> exec + 1, k |-> k - 1, at |-> at]]
  /\ UNCHANGED <<spmiPart, cmds, left, clientVars, traceVars>>

(* ------------------------------- the client ----------------------------- *)
(* raw_command: what is left in the reply FIFO is read away first *)
raw_command_NoDrain(c) == /\ spmiPc = "idle" /\ Len(cmds) < MaxCmds
                          /\ cmds' = Append(cmds, c) /\ rx' = rx /\ spmiPc' = "reply" /\ mine' = Len(cmds) + 1
                          /\ late' = (late \/ exec < Len(cmds))
raw_command(c) ==
  /\ spmiPc = "idle" /\ Len(cmds) < MaxCmds
  /\ cmds' = Append(cmds, c) /\ rx' = <<>> /\ spmiPc' = "reply" /\ mine' = Len(cmds) + 1
  /\ late' = (late \/ exec < Len(cmds))
Commands ==
  /\ spmiPart = "client" /\ \E op \in {"ZERO_WRITE", "EXT_READ"} : raw_command([op |-> op, r |-> 1])
  /\ spmiRead' = 0 /\ got' = <<>>
  /\ UNCHANGED <<spmiPart, left, exec, sel, traceVars>>
(* raw_read, for the reply and for each word of data.  A reply of another slave or opcode, a time-out *)
(* or a lost link end the command with an exception.                                                  *)
raw_read ==
  /\ spmiPart = "client" /\ spmiPc \in {"reply", "data"} /\ rx # <<>> /\ rx' = Tail(rx)
  /\ LET w == rx[1]
         other == spmiPc = "reply" /\ (w.k # 0 \/ cmds[w.of].op # cmds[mine].op)
         all == spmiRead = ReplyWords(cmds[mine].op)
     IN  /\ got' = IF other THEN <<>> ELSE Append(got, w)
         /\ spmiRead' = spmiRead + 1
         /\ spmiPc' = IF other \/ all THEN "idle" ELSE "data"
  /\ UNCHANGED <<spmiPart, cmds, left, exec, sel, mine, late, traceVars>>
Exception ==
  /\ spmiPart = "client" /\ spmiPc \in {"reply", "data"} /\ spmiPc' = "idle" /\ got' = <<>> /\ spmiRead' = 0
  /\ UNCHANGED <<spmiPart, busVars, mine, late, traceVars>>

(* ------------------------------- the tracer ----------------------------- *)
(* finalize_cmd *)
finalize_cmd(id) == sent_cmds' = Append(sent_cmds, id) /\ cmd_info' = 0
(* w_CMD: the words of data it waits for after a command.  For WRITE it waits for one, though the *)
(* value is in the command itself: the next command is taken for it.                              *)
Awaited_None(op) == 0
Awaited(op) == IF op = "WRITE" THEN 1 ELSE DataWords(op)
w_CMD(id, op) ==
  IF ~spmiTraced THEN UNCHANGED <<cmd_pending, cmd_info, reply_pending, sent_cmds>>
  ELSE IF cmd_pending > 0
  THEN /\ cmd_pending' = cmd_pending - 1 /\ UNCHANGED reply_pending
       /\ IF cmd_pending = 1 THEN finalize_cmd(cmd_info) ELSE UNCHANGED <<cmd_info, sent_cmds>>
  ELSE /\ cmd_pending' = Awaited(op) /\ reply_pending' = Append(reply_pending, ReplyWords(op))
       /\ IF Awaited(op) = 0 THEN finalize_cmd(id) ELSE cmd_info' = id /\ UNCHANGED sent_cmds

GuestCommand ==
  /\ spmiPart = "trace" /\ left = 0 /\ Len(cmds) < MaxCmds
  /\ \E op \in Opcodes, r \in Regs :
       /\ (op = "ZERO_WRITE" \/ (r = 1 /\ \E i \in DOMAIN cmds : cmds[i].op = "ZERO_WRITE") \/ (op = "WAKEUP" /\ r = 1)) = TRUE
       /\ cmds' = Append(cmds, [op |-> op, r |-> r]) /\ left' = DataWords(op)
       /\ w_CMD(Len(cmds) + 1, op) /\ swallowed' = (swallowed \/ (spmiTraced /\ op = "WRITE"))
  /\ UNCHANGED <<spmiPart, exec, rx, sel, clientVars, spmiTraced, midway, reply_started, spmiOk, reg, last_opcode, data>>
GuestData ==
  /\ spmiPart = "trace" /\ left > 0 /\ left' = left - 1
  /\ w_CMD(0, "data")
  /\ UNCHANGED <<spmiPart, cmds, exec, rx, sel, clientVars, spmiTraced, midway, swallowed, reply_started, spmiOk, reg, last_opcode, data>>

(* ACE3SPMIDevTracer.traffic: a command that selects, wakes the device or asks for the state of the *)
(* selected register prints what was moved before (flush), and so does finalize_reply once no reply *)
(* is awaited.  The answer "not ready yet" to such a question prints nothing.                       *)
Closes_NotSelect(op) == op \in {"WAKEUP", "READ"}
Closes(op) == op \in {"ZERO_WRITE", "WAKEUP", "READ"}
traffic(op, w, lasts, waiting) ==
  LET moves == op \in {"EXT_READ", "EXT_WRITE"}
      ats == IF moves THEN Append(data, w.at) ELSE data
      before == Closes(op) /\ ~waiting
      now == IF op = "ZERO_WRITE" THEN w.at ELSE reg
  IN  /\ reg' = now
      /\ data' = IF before \/ lasts THEN <<>> ELSE ats
      /\ last_opcode' = IF before \/ lasts THEN "none" ELSE IF moves THEN op ELSE last_opcode
      /\ spmiOk' = (spmiOk /\ (midway \/ swallowed \/ (before \/ lasts => \A i \in DOMAIN ats : ats[i] = (IF before THEN reg ELSE now))))

(* r_REPLY and finalize_reply.  A reply that nobody is known to have asked for finds no command, and *)
(* is an exception, unless another command was sent since: then it is taken for that one's.          *)
r_REPLY ==
  LET w == rx[1]
      pend == IF reply_pending = <<>> THEN <<0>> ELSE reply_pending
      ns == IF reply_started THEN pend[1] - 1 ELSE pend[1]
      final == ns = 0
      rest == Tail(pend)
  IN  IF ~reply_started /\ sent_cmds = <<>>
      THEN /\ reply_pending' = IF pend[1] = 0 THEN rest ELSE pend
           /\ reply_started' = (pend[1] > 0)
           /\ UNCHANGED <<sent_cmds, spmiOk, reg, last_opcode, data>>
      ELSE /\ reply_started' = ~final
           /\ reply_pending' = IF final THEN rest ELSE [pend EXCEPT ![1] = ns]
           /\ IF ~final \/ sent_cmds = <<>> THEN UNCHANGED <<sent_cmds, spmiOk, reg, last_opcode, data>>
              ELSE /\ sent_cmds' = Tail(sent_cmds)
                   /\ LET op == cmds[sent_cmds[1]].op
                      IN  IF sent_cmds[1] = w.of
                          THEN \E waiting \in {FALSE, op = "READ"} : traffic(op, w, rest = <<>>, waiting)
                          ELSE spmiOk' = (spmiOk /\ (midway \/ swallowed)) /\ UNCHANGED <<reg, last_opcode, data>>
GuestReply ==
  /\ spmiPart = "trace" /\ rx # <<>> /\ rx' = Tail(rx)
  /\ IF spmiTraced THEN r_REPLY ELSE UNCHANGED <<reply_pending, reply_started, sent_cmds, spmiOk, reg, last_opcode, data>>
  /\ UNCHANGED <<spmiPart, cmds, left, exec, sel, clientVars, spmiTraced, midway, swallowed, cmd_pending, cmd_info>>
(* The trace starts, perhaps with commands or their data under way *)
spmi_start ==
  /\ spmiPart = "trace" /\ ~spmiTraced /\ spmiTraced' = TRUE
  /\ midway' = (left > 0 \/ exec < Len(cmds) \/ rx # <<>> \/ sel # 0)
  /\ UNCHANGED <<spmiPart, busVars, clientVars, swallowed, cmd_pending, cmd_info, reply_pending, reply_started, sent_cmds, spmiOk, reg, last_opcode, data>>

SpmiNext ==
  \/ Executes \/ Commands \/ raw_read \/ Exception
  \/ GuestCommand \/ GuestData \/ GuestReply \/ spmi_start

SpmiSpec == SpmiInit /\ [][SpmiNext]_spmiVars

-----------------------------------------------------------------------------
(* Type invariant. *)
SpmiTypeOK ==
  /\ Len(cmds) <= MaxCmds /\ exec \in 0 .. MaxCmds /\ left \in 0 .. 2 /\ cmd_pending \in 0 .. 2
  /\ spmiPc \in {"idle", "reply", "data"} /\ late \in BOOLEAN /\ spmiOk \in BOOLEAN /\ spmiTraced \in BOOLEAN
  /\ reply_started \in BOOLEAN /\ midway \in BOOLEAN /\ swallowed \in BOOLEAN

(* What raw_command returns is the whole reply of its own command, also after commands that ended   *)
(* with an exception in the middle of theirs, unless one of those was still to be answered when the *)
(* FIFO was read away.                                                                              *)
WholeOwnReply ==
  spmiPc = "idle" /\ got # <<>> /\ ~late =>
        Len(got) = 1 + ReplyWords(cmds[mine].op) /\ \A k \in DOMAIN got : got[k].of = mine /\ got[k].k = k - 1

(* The tracer hands each device the command and the reply that belong together, however many are   *)
(* queued, and the power controller's tracer prints data under the register it was moved from or   *)
(* to, unless the trace began in the middle of traffic or a WRITE made it lose its place.          *)
TrafficPaired == spmiOk

-----------------------------------------------------------------------------
(***************************************************************************)
(* Three tracers of the hypervisor that put together, from the registers   *)
(* and the memory the guest's driver touches, what its device was told:    *)
(* the I2C controller with a device of paged registers (m1n1/trace/i2c.py),*)
(* the channels of the camera's firmware (m1n1/trace/isp.py) and the       *)
(* endpoints of a coprocessor's mailbox (m1n1/trace/asc.py).               *)
(* They share nothing and are explored apart.                              *)
(***************************************************************************)

CONSTANTS MaxTxns,  \* I2C transactions
          Num,      \* entries of a channel
          BusesMaxMsgs   \* messages of the channel, and of the mailbox

VARIABLES busesPart, busesOk,
          plan, txns, txn, bus, rxfifo, ptr, page, acc, told, moved, blurred,    \* I2C
          busesRing, put, busesTaken, busesN, cursor, busesSeen, missed, full,               \* ISP
          buf, size, state_buf, state_size, known, busesCount, busesAsk            \* mailbox

i2cVars == <<plan, txns, txn, bus, rxfifo, ptr, page, acc, told, moved, blurred>>
ispVars == <<busesRing, put, busesTaken, busesN, cursor, busesSeen, missed, full>>
ascVars == <<buf, size, state_buf, state_size, known, busesCount, busesAsk>>
busesVars == <<busesPart, busesOk, plan, txns, txn, bus, rxfifo, ptr, page, acc, told, moved, blurred,
               busesRing, put, busesTaken, busesN, cursor, busesSeen, missed, full, buf, size, state_buf, state_size, known, busesCount, busesAsk>>

BusesInit ==
  /\ busesPart \in {"i2c", "isp", "asc", "ask"} /\ busesOk = TRUE
  /\ plan = <<>> /\ txns = 0 /\ txn = <<>> /\ bus = <<>> /\ rxfifo = <<>> /\ ptr = -1 /\ page = 0
  /\ acc = <<>> /\ told = [imm |-> -1, pg |-> 0, page |-> 0, ev |-> <<>>] /\ moved = FALSE /\ blurred = FALSE
  /\ busesRing = [i \in 0 .. Num - 1 |-> 0] /\ put = 0 /\ busesTaken = 0 /\ busesN = 0 /\ cursor = 0 /\ busesSeen = 0
  /\ missed = FALSE /\ full = FALSE
  /\ buf = 0 /\ size = 0 /\ state_buf = 0 /\ state_size = 0 /\ known = FALSE /\ busesCount = 0 /\ busesAsk = <<>>

(* ---------------------------------- I2C --------------------------------- *)
(* Words for the transmit FIFO: a start with the device's address, a byte, a number of bytes to be *)
(* read, the last with a stop.  Register 0 of the device is its page register.                     *)
Word(kind, v, stop) == [kind |-> kind, v |-> v, stop |-> stop]
Plans ==
  {<<Word("Sw", 0, FALSE), Word("byte", r, TRUE)>> : r \in 0 .. 1}
    \cup {<<Word("Sw", 0, FALSE), Word("byte", r, FALSE), Word("byte", d, TRUE)>> : r \in 0 .. 1, d \in 0 .. 1}
    \cup {<<Word("Sw", 0, FALSE), Word("byte", 0, FALSE), Word("byte", 1, FALSE), Word("byte", 1, TRUE)>>}
    \cup {<<Word("Sw", 0, FALSE), Word("byte", r, FALSE), Word("Sr", 0, FALSE), Word("read", 2, TRUE)>> : r \in 0 .. 1}
    \cup IF ptr = -1 THEN {} ELSE {<<Word("Sr", 0, FALSE), Word("read", 1, TRUE)>>}
Begin ==
  /\ busesPart = "i2c" /\ plan = <<>> /\ txns < MaxTxns /\ txns' = txns + 1
  /\ plan' \in Plans
  /\ UNCHANGED <<busesPart, busesOk, txn, bus, rxfifo, ptr, page, acc, told, moved, blurred, ispVars, ascVars>>

(* Accesses to registers: <<page, register, write>>; those to the page register are not told *)
Access(p, r, w) == IF r = 0 THEN <<>> ELSE <<<<p, r, w>>>>
Fresh == bus # <<>> /\ Last(bus) = <<"Sw", 0>>

(* handle_txn and I2CRegMapTracer: a start for writing forgets the register, the first byte names it *)
(* in the page that is set (handle_addressing), the others are accesses to it and to those after it, *)
(* or set the page (handle_page_register)                                                            *)
buses_start_Kept(st) == st
buses_start(st) == [st EXCEPT !.imm = -1]
BusesItem(st, i) ==
  CASE i[1] = "Sw" -> buses_start(st)
    [] i[1] \in {"Sr", "P"} -> st
    [] OTHER -> IF st.imm = -1 THEN [st EXCEPT !.imm = i[2], !.pg = st.page]
                ELSE [st EXCEPT !.imm = @ + 1,
                                !.page = IF i[1] = "w" /\ st.imm = 0 THEN i[2] ELSE @,
                                !.ev = @ \o Access(st.pg, st.imm, i[1] = "w")]
handle_txn(t) == FoldLeft(BusesItem, [told EXCEPT !.ev = <<>>], t)

(* flush_txn: handled when it is stopped and no byte is missing *)
flush_txn_AtStop(t) == t # <<>> /\ Last(t)[1] = "P"
flush_txn(t) == t # <<>> /\ Last(t)[1] = "P" /\ \A i \in DOMAIN t : t[i] # <<"r", -1>>
Flush(t, b, a) ==
  IF ~flush_txn(t) THEN txn' = t /\ bus' = b /\ acc' = a /\ UNCHANGED <<busesOk, told>>
  ELSE /\ told' = [handle_txn(t) EXCEPT !.ev = <<>>]
       /\ busesOk' = (busesOk /\ t = b /\ (blurred' \/ handle_txn(t).ev = a))
       /\ txn' = <<>> /\ bus' = <<>> /\ acc' = <<>>

(* w_MTXFIFO, and what the device does with the word.  blurred: a register was reached by counting on *)
(* after the page had been set; the tracer counts on in the page the register was named in.           *)
w_MTXFIFO ==
  /\ busesPart = "i2c" /\ plan # <<>> /\ plan' = Tail(plan)
  /\ LET w == plan[1]
         end == IF w.stop THEN <<<<"P", 0>>>> ELSE <<>>
         names == w.kind = "byte" /\ Fresh
         items == CASE w.kind = "byte" -> <<<<"w", w.v>>>>
                    [] w.kind = "read" -> [i \in 1 .. w.v |-> <<"r", -1>>]
                    [] OTHER -> <<<<w.kind, 0>>>>
         real == IF w.kind = "read" THEN [i \in 1 .. w.v |-> <<"r", ptr + i - 1>>] ELSE items
         a == CASE names \/ w.kind \in {"Sw", "Sr"} -> <<>>
                [] w.kind = "byte" -> Access(page, ptr, TRUE)
                [] OTHER -> Access(page, ptr, FALSE) \o (IF w.v = 2 THEN Access(page, ptr + 1, FALSE) ELSE <<>>)
     IN  /\ ptr' = CASE names -> w.v [] w.kind = "byte" -> ptr + 1 [] w.kind = "read" -> ptr + w.v [] OTHER -> ptr
         /\ page' = IF w.kind = "byte" /\ ~names /\ ptr = 0 THEN w.v ELSE page
         /\ moved' = (~names /\ (moved \/ page' # page))
         /\ blurred' = (blurred \/ (a # <<>> /\ moved))
         /\ rxfifo' = IF w.kind = "read" THEN rxfifo \o [i \in 1 .. w.v |-> ptr + i - 1] ELSE rxfifo
         /\ Flush(txn \o items \o end, bus \o real \o end, acc \o a)
  /\ UNCHANGED <<busesPart, txns, ispVars, ascVars>>
(* r_MRXFIFO: a byte read is the first one that is missing *)
r_MRXFIFO_Last(t) == LET S == {i \in DOMAIN t : t[i] = <<"r", -1>>} IN CHOOSE i \in S : \A j \in S : j <= i
r_MRXFIFO_At(t) == LET S == {i \in DOMAIN t : t[i] = <<"r", -1>>} IN CHOOSE i \in S : \A j \in S : i <= j
r_MRXFIFO ==
  /\ busesPart = "i2c" /\ rxfifo # <<>> /\ rxfifo' = Tail(rxfifo)
  /\ UNCHANGED <<busesPart, plan, txns, ptr, page, moved, blurred, ispVars, ascVars>>
  /\ Flush([txn EXCEPT ![r_MRXFIFO_At(txn)] = <<"r", rxfifo[1]>>], bus, acc)

(* ---------------------------------- ISP --------------------------------- *)
(* One side writes entries of a channel in turn and rings (doorbell or interrupt), the other takes   *)
(* them in turn and marks them free; 0 is a free entry.                                              *)
Puts ==
  /\ busesPart = "isp" /\ busesN < BusesMaxMsgs /\ busesRing[put] = 0
  /\ busesRing' = [busesRing EXCEPT ![put] = busesN + 1] /\ put' = (put + 1) % Num /\ busesN' = busesN + 1
  /\ UNCHANGED <<busesPart, busesOk, busesTaken, cursor, busesSeen, missed, full, i2cVars, ascVars>>
Takes ==
  /\ busesPart = "isp" /\ busesRing[busesTaken] # 0
  /\ busesRing' = [busesRing EXCEPT ![busesTaken] = 0] /\ busesTaken' = (busesTaken + 1) % Num
  /\ missed' = (missed \/ busesRing[busesTaken] > busesSeen)
  /\ UNCHANGED <<busesPart, busesOk, put, busesN, cursor, busesSeen, full, i2cVars, ascVars>>
(* get_last_commands: the entries from the cursor to the first free one, where the cursor is left.  If *)
(* none is free the cursor stays, and they are shown again the next time.                              *)
Upto(c) == CHOOSE k \in 0 .. Num : (k = Num \/ busesRing[(c + k) % Num] = 0) /\ \A j \in 0 .. k - 1 : busesRing[(c + j) % Num] # 0
Cursor_Stays(c) == c
Cursor(c) == IF Upto(c) = Num THEN c ELSE (c + Upto(c)) % Num
get_last_commands ==
  /\ busesPart = "isp"
  /\ LET k == Upto(cursor)
     IN  /\ busesOk' = (busesOk /\ (missed \/ full \/ k = Num \/ \A j \in 1 .. k : busesRing[(cursor + j - 1) % Num] = busesSeen + j))
         /\ busesSeen' = IF k = 0 THEN busesSeen ELSE busesRing[(cursor + k - 1) % Num]
         /\ full' = (full \/ k = Num)
  /\ cursor' = Cursor(cursor)
  /\ UNCHANGED <<busesPart, busesRing, put, busesTaken, busesN, missed, i2cVars, ascVars>>

(* -------------------------------- mailbox ------------------------------- *)
(* EP.handle_msg: the handler of a message among those an endpoint declares, for a direction and a *)
(* type or for any                                                                                 *)
Dirs == {"RX", "TX", "any"}
BusesTypes == {"1", "2", "any"}
msgids_TypeLast(d, t) == <<<<d, t>>, <<d, "any">>, <<"any", t>>, <<"any", "any">>>>
msgids(d, t) == <<<<d, t>>, <<"any", t>>, <<d, "any">>, <<"any", "any">>>>
handle_msg(map, d, t) == SelectInSeq(msgids(d, t), LAMBDA m : m \in map)
AskHandler ==
  /\ busesPart = "ask" /\ busesAsk = <<>>
  /\ \E map \in SUBSET (Dirs \X BusesTypes) : \E d \in {"RX", "TX"}, t \in {"1", "2"} :
       busesAsk' = <<map, d, t, IF handle_msg(map, d, t) = 0 THEN <<>> ELSE msgids(d, t)[handle_msg(map, d, t)]>>
  /\ UNCHANGED <<busesPart, busesOk, i2cVars, ispVars, buf, size, state_buf, state_size, known, busesCount>>

(* Syslog: the firmware says how large its entries are, then names a buffer of its own or asks for   *)
(* one and is given it, then logs; it may start again.  The tracer may start in between.             *)
SyslogInit ==
  /\ busesPart = "asc" /\ busesCount < BusesMaxMsgs /\ busesCount' = busesCount + 1
  /\ \E s \in 1 .. 2 : size' = s /\ state_size' = IF known THEN s ELSE state_size
  /\ buf' = 0 /\ UNCHANGED <<busesPart, busesOk, i2cVars, ispVars, state_buf, known, busesAsk>>
GetBuf_Any(dva) == state_buf
GetBuf(dva) == dva
SyslogGetBuf ==
  /\ busesPart = "asc" /\ busesCount < BusesMaxMsgs /\ size > 0 /\ buf = 0 /\ busesCount' = busesCount + 1
  /\ \E b \in 1 .. 2 :
       /\ buf' = b
       /\ \/ state_buf' = IF known THEN GetBuf(b) ELSE state_buf   \* its own
          \/ state_buf' = IF known THEN b ELSE state_buf            \* GetBuf_Ack
  /\ UNCHANGED <<busesPart, busesOk, i2cVars, ispVars, size, state_size, known, busesAsk>>
SyslogLog ==
  /\ busesPart = "asc" /\ busesCount < BusesMaxMsgs /\ buf > 0 /\ busesCount' = busesCount + 1
  /\ busesOk' = (busesOk /\ (~known \/ state_buf = 0 \/ state_size = 0 \/ (state_buf = buf /\ state_size = size)))
  /\ UNCHANGED <<busesPart, i2cVars, ispVars, buf, size, state_buf, state_size, known, busesAsk>>
BaseASCTracer_start ==
  /\ busesPart = "asc" /\ ~known /\ known' = TRUE
  /\ UNCHANGED <<busesPart, busesOk, i2cVars, ispVars, buf, size, state_buf, state_size, busesCount, busesAsk>>

BusesNext ==
  \/ Begin \/ w_MTXFIFO \/ r_MRXFIFO \/ Puts \/ Takes \/ get_last_commands
  \/ AskHandler \/ SyslogInit \/ SyslogGetBuf \/ SyslogLog \/ BaseASCTracer_start

BusesSpec == BusesInit /\ [][BusesNext]_busesVars

-----------------------------------------------------------------------------
(* Type invariant. *)
BusesTypeOK ==
  /\ busesOk \in BOOLEAN /\ txns \in 0 .. MaxTxns /\ ptr \in Int /\ page \in 0 .. 1 /\ blurred \in BOOLEAN
  /\ put \in 0 .. Num - 1 /\ busesTaken \in 0 .. Num - 1 /\ cursor \in 0 .. Num - 1 /\ busesN \in 0 .. BusesMaxMsgs
  /\ missed \in BOOLEAN /\ full \in BOOLEAN /\ known \in BOOLEAN /\ busesCount \in 0 .. BusesMaxMsgs

(* The transaction the I2C tracer tells is the one that was on the bus, with each byte read in its  *)
(* place although the bytes are fetched later and perhaps after the next transaction was started,   *)
(* and the registers it names are those the device was asked for, unless they were reached by       *)
(* counting on over a change of page.                                                               *)
BusAsTold == busesPart = "i2c" => busesOk

(* Every message of a camera channel is shown once and in order at the rings that announce them,    *)
(* unless one was taken before any ring announced it or the channel was seen full.                  *)
ShownOnce == busesPart = "isp" => busesOk

(* A mailbox message goes to the handler declared for its type before one declared for any type,    *)
(* and for its direction before one for both.                                                       *)
NearestHandler ==
  busesAsk # <<>> =>
         LET map == busesAsk[1]
             fits == {m \in map : m[1] \in {busesAsk[2], "any"} /\ m[2] \in {busesAsk[3], "any"}}
             rank(m) == (IF m[2] = "any" THEN 0 ELSE 2) + (IF m[1] = "any" THEN 0 ELSE 1)
         IN  IF fits = {} THEN busesAsk[4] = <<>> ELSE busesAsk[4] \in fits /\ \A m \in fits : rank(m) <= rank(busesAsk[4])

(* A log line is read from the buffer and with the entry size that are in force, across restarts of *)
(* the firmware.                                                                                    *)
LogFromOwnBuffer == busesPart = "asc" => busesOk
=============================================================================
