-------------------------------- MODULE AscClients --------------------------------
(***************************************************************************)
(* Coprocessors behind an ASC mailbox: starting and stopping them, the AFK *)
(* rings, and the calls of the display coprocessor and of EPIC services.   *)
(* Each section is a machine of its own.                                   *)
(***************************************************************************)
EXTENDS Integers, Sequences, FiniteSets, SequencesExt

-----------------------------------------------------------------------------
(***************************************************************************)
(* The ring buffers shared with a coprocessor (proxyclient/m1n1/fw/afk/    *)
(* rbep.py): a header of three blocks (size, read and write pointer) and   *)
(* messages of a 16-byte header and a payload, padded to the block size    *)
(* and never split over the end.  The client writes one ring and reads the *)
(* other; its reader is a generator that may be entered again while an     *)
(* outer one is handling a message.  Sizes are counted in 16-byte units.   *)
(***************************************************************************)

CONSTANTS Step,      \* BLOCK_STEP
          Size,      \* bufsize
          MaxMsgs,   \* bound on messages of one ring
          MaxDepth   \* bound on nested Recv handlers

VARIABLES dir,       \* which ring is explored: "tx" or "rx"
          block,     \* block_size of the ring
          ring,      \* unit -> [id, len]; len is -1 in a payload
          cell,      \* header words by offset: rptr and wptr live in here
          wptr, rptr,    \* the client's own copies
          far,       \* the coprocessor's own pointer
          sent, got, \* identifiers written, and read (0: damaged)
          brim,      \* a message filled the ring to the last block
          over,      \* the writer went back to the start below the reader
          depth      \* Recv handlers now running

afkVars == <<dir, block, ring, cell, wptr, rptr, far, sent, got, brim, over, depth>>

Empty == [id |-> 0, len |-> -1]
RptrAt == block
WptrAt == 2 * block
align_up(x) == ((x + block - 1) \div block) * block
Lens == 0 .. Size - 3

AfkInit ==
    /\ dir = "none" /\ block = Step /\ ring = [u \in 0 .. Size - 1 |-> Empty]
    /\ cell = [o \in {0, Step, 2 * Step, 4 * Step} |-> 0]
    /\ wptr = 0 /\ rptr = 0 /\ far = 0 /\ sent = <<>> /\ got = <<>>
    /\ brim = FALSE /\ over = FALSE /\ depth = 0

\* InitTX and InitRX: the block size follows from the size the ring states.
init_rb(d, b) ==
    /\ dir = "none" /\ dir' = d /\ block' = b
    /\ UNCHANGED <<ring, cell, wptr, rptr, far, sent, got, brim, over, depth>>

-----------------------------------------------------------------------------
Stored(r, at, id, len) ==
    [u \in DOMAIN r |-> IF u = at THEN [id |-> id, len |-> len]
                        ELSE IF u > at /\ u <= at + len THEN [id |-> id, len |-> -1] ELSE r[u]]

\* The header goes in first, and again at the start if the payload does not fit.
Header(r, at, id, len) == [r EXCEPT ![at] = [id |-> id, len |-> len]]

Wraps(at, len) == len > Size - at - 1

Full_Never(w, r, len) == FALSE

\* The last of write()'s checks: w is where the message will start.
Full(w, r, len) == w < r /\ w + 1 + len >= r

\* update_wptr: the block's word, and the word at twice the step, which is the
\* read pointer's when blocks are two steps long.
update_wptr(c, w) == [[c EXCEPT ![WptrAt] = w] EXCEPT ![2 * Step] = w]

\* AFKRingBuf.write, called by send_ipc.  Its first check, for the header alone,
\* never refuses: both pointers are multiples of a block, longer than a header.
write(len) ==
    LET id == Len(sent) + 1
        r == cell[RptrAt]
        w0 == wptr
        wrap == Wraps(w0, len)
        w1 == IF wrap THEN 0 ELSE w0
        r1 == Header(ring, w0, id, len)
    IN
    /\ dir = "tx" /\ Len(sent) < MaxMsgs
    /\ over' = (over \/ (wrap /\ w0 < r /\ r >= 1))
    /\ \/ /\ wrap /\ r < 1
          /\ ring' = r1 /\ UNCHANGED <<cell, wptr, sent, brim>>
       \/ /\ ~(wrap /\ r < 1) /\ Full(w1, r, len)
          /\ ring' = (IF wrap THEN Header(r1, 0, id, len) ELSE r1)
          /\ wptr' = w1 /\ UNCHANGED <<cell, sent, brim>>
       \/ /\ ~(wrap /\ r < 1) /\ ~Full(w1, r, len)
          /\ ring' = Stored(r1, w1, id, len)
          /\ wptr' = align_up(w1 + 1 + len) % Size
          /\ cell' = update_wptr(cell, wptr')
          /\ sent' = Append(sent, id)
          /\ brim' = (brim \/ wptr' = r)
    /\ UNCHANGED <<dir, block, rptr, far, got, depth>>

-----------------------------------------------------------------------------
\* What a reader finds at position p: the header there, or the one at the start
\* when the payload cannot be behind it.
Start_Stays(p) == p
Start(p) == IF ring[p].len > Size - (p + 1) THEN 0 ELSE p

Whole(p) == LET h == ring[Start(p)] IN
            IF h.len >= 0 /\ \A k \in 1 .. h.len : Start(p) + k < Size /\ ring[Start(p) + k] = [id |-> h.id, len |-> -1]
            THEN h.id ELSE 0
After(p) == LET h == ring[Start(p)] IN align_up(Start(p) + 1 + (IF h.len < 0 THEN 0 ELSE h.len)) % Size

\* The coprocessor reads one message of the client's ring.
FarReads ==
    /\ dir = "tx" /\ far # cell[WptrAt] /\ Len(got) < MaxMsgs
    /\ got' = Append(got, Whole(far)) /\ far' = After(far)
    /\ cell' = [cell EXCEPT ![RptrAt] = After(far)]
    /\ UNCHANGED <<dir, block, ring, wptr, rptr, sent, brim, over, depth>>

\* The coprocessor writes one, leaving a block free.
FarWrites(len) ==
    LET r == cell[RptrAt]
        w1 == IF Wraps(far, len) THEN 0 ELSE far
        need == align_up(1 + len)
        room == IF far >= r THEN (IF w1 = far THEN (IF r = 0 THEN Size - far - block ELSE Size - far) ELSE r - block)
                ELSE (IF w1 = far THEN r - block - far ELSE -1)
    IN
    /\ dir = "rx" /\ Len(sent) < MaxMsgs /\ need <= room
    /\ LET id == Len(sent) + 1 IN
       /\ ring' = Stored(Header(ring, far, id, len), w1, id, len) /\ sent' = Append(sent, id)
    /\ far' = (w1 + need) % Size
    /\ cell' = [cell EXCEPT ![WptrAt] = far']
    /\ UNCHANGED <<dir, block, wptr, rptr, got, brim, over, depth>>

\* Recv: the generator starts, in the main loop or under a handler that works.
Recv ==
    /\ dir = "rx" /\ depth < MaxDepth /\ wptr = rptr /\ cell[WptrAt] # wptr
    /\ wptr' = cell[WptrAt]
    /\ UNCHANGED <<dir, block, ring, cell, rptr, far, sent, got, brim, over, depth>>

read_Late ==
    /\ dir = "rx" /\ wptr # rptr /\ depth < MaxDepth
    /\ got' = Append(got, Whole(rptr)) /\ depth' = depth + 1
    /\ wptr' = cell[WptrAt] /\ UNCHANGED <<rptr, cell>>
    /\ UNCHANGED <<dir, block, ring, far, sent, brim, over>>

\* read(): header and payload, the pointer moved and published, and only then
\* the message is handled.
read ==
    /\ dir = "rx" /\ wptr # rptr /\ depth < MaxDepth
    /\ got' = Append(got, Whole(rptr)) /\ depth' = depth + 1
    /\ rptr' = After(rptr) /\ cell' = [[cell EXCEPT ![RptrAt] = rptr'] EXCEPT ![Step] = rptr']
    /\ UNCHANGED <<dir, block, ring, wptr, far, sent, brim, over>>

\* The handler returns, and the generator looks at the write pointer again.
Handled ==
    /\ depth > 0 /\ depth' = depth - 1 /\ wptr' = cell[WptrAt]
    /\ UNCHANGED <<dir, block, ring, cell, rptr, far, sent, got, brim, over>>

AfkNext ==
    \/ \E d \in {"tx", "rx"}, b \in {Step, 2 * Step} : init_rb(d, b)
    \/ \E len \in Lens : write(len) \/ FarWrites(len)
    \/ FarReads \/ Recv \/ read \/ Handled

AfkSpec == AfkInit /\ [][AfkNext]_afkVars

-----------------------------------------------------------------------------
AfkTypeOK ==
    /\ block \in {Step, 2 * Step} /\ wptr \in 0 .. Size - 1 /\ rptr \in 0 .. Size - 1 /\ far \in 0 .. Size - 1
    /\ Len(sent) <= MaxMsgs /\ Len(got) <= MaxMsgs /\ depth \in 0 .. MaxDepth

\* The coprocessor reads the client's messages whole and in order, and when it
\* finds the ring empty it has read them all.  Three ways of the code lose this
\* and are left out: a message that fills the ring to the last block makes it
\* look empty, a write that goes back to the start does not ask whether unread
\* messages lie there, and with blocks of two steps update_wptr overwrites the
\* read pointer.
TxInOrder ==
    dir = "tx" /\ block = Step /\ ~brim /\ ~over =>
        /\ Len(got) <= Len(sent) /\ \A i \in DOMAIN got : got[i] = sent[i]
        /\ far = cell[WptrAt] => Len(got) = Len(sent)

\* The client hands every message to its handler once, whole and in order, even
\* when a handler reads the ring itself.
RxInOrder ==
    dir = "rx" =>
        /\ Len(got) <= Len(sent) /\ \A i \in DOMAIN got : got[i] = sent[i]
        /\ depth = 0 /\ wptr = rptr /\ cell[WptrAt] = wptr => Len(got) = Len(sent)

-----------------------------------------------------------------------------
(***************************************************************************)
(* A coprocessor brought up and down by the client (proxyclient/m1n1/hw/   *)
(* asc.py, fw/asc, fw/afk/rbep.py): messages through two mailboxes, the    *)
(* management endpoint's hello, endpoint map and power messages, the       *)
(* system endpoints started from within the map's handler, an AFK endpoint *)
(* started and stopped by the script.  The client handles messages only    *)
(* while it waits (work); the coprocessor is modelled from what it is sent.*)
(***************************************************************************)

CONSTANTS MaxBoots,   \* bound on starts
          System,     \* endpoints below 0x10 the coprocessor announces
          App         \* the AFK endpoint

VARIABLES inbox, outbox,   \* to and from the coprocessor
          iop,       \* [run, state, ap, maps, eps]: the coprocessor's side
          host,      \* what the script is doing
          iopp, app, \* power states the management endpoint has seen
          eps,       \* asc.eps
          objs,      \* endpoints with an object in epmap
          started,   \* endpoints started in this boot, in order
          alive,     \* the AFK endpoint has seen Init_Ack and no Shutdown_Ack
          ascRing,      \* the AFK queues it knows: subset of {"tx", "rx"}
          running,   \* the AFK endpoint has seen Start_Ack
          early,     \* it was stopped before Init_Ack came
          again,     \* a second boot met the endpoints of the first
          boots

ascVars == <<inbox, outbox, iop, host, iopp, app, eps, objs, started, alive, ascRing, running, early, again, boots>>

None == "none"
M(ep, type, arg) == [ep |-> ep, type |-> type, arg |-> arg]
Mgmt == "mgmt"
Down == [run |-> FALSE, state |-> "off", ap |-> "off", eps |-> {}]

AscInit ==
    /\ inbox = <<>> /\ outbox = <<>> /\ iop = Down
    /\ host = "off" /\ iopp = None /\ app = None
    /\ eps = <<>> /\ objs = {Mgmt} /\ started = <<>>
    /\ alive = FALSE /\ ascRing = {} /\ running = FALSE /\ early = FALSE /\ again = FALSE /\ boots = 0

Send(ms) == inbox' = inbox \o ms
ep_vars == <<alive, ascRing, running, early>>

-----------------------------------------------------------------------------
\* start(): RUN, then a power message, then wait_boot.
start ==
    /\ host = "off" /\ boots < MaxBoots /\ boots' = boots + 1
    /\ iop' = [iop EXCEPT !.run = TRUE]
    /\ Send(<<M(Mgmt, "SetIOPPower", "on")>>) /\ host' = "booting"
    /\ again' = (eps # <<>>)
    /\ started' = <<>>
    /\ UNCHANGED <<outbox, iopp, app, eps, objs, ep_vars>>

wait_boot_Iop ==
    /\ host = "booting" /\ iopp = "on" /\ host' = "up"
    /\ UNCHANGED <<inbox, outbox, iop, iopp, app, eps, objs, started, ep_vars, again, boots>>

\* wait_boot: until both power states are on.
wait_boot ==
    /\ host = "booting" /\ iopp = "on" /\ app = "on" /\ host' = "up"
    /\ UNCHANGED <<inbox, outbox, iop, iopp, app, eps, objs, started, ep_vars, again, boots>>

\* start_ep of the AFK endpoint: the object, StartEP, then its own Init.
start_ep ==
    /\ host = "up" /\ App \notin objs
    /\ objs' = objs \cup {App} /\ started' = Append(started, App)
    /\ alive' = FALSE /\ ascRing' = {} /\ running' = FALSE /\ early' = FALSE
    /\ Send(<<M(Mgmt, "StartEP", App), M(App, "Init", None)>>)
    /\ UNCHANGED <<outbox, iop, host, iopp, app, eps, again, boots>>

stop_SystemOnly ==
    /\ host = "up" /\ host' = "aplow" /\ Send(<<M(Mgmt, "SetAPPower", "low")>>)
    /\ UNCHANGED <<outbox, iop, iopp, app, eps, objs, started, ep_vars, again, boots>>

\* stop(): the script's endpoints first; AFK's stop sends and waits for alive to fall.
stop ==
    /\ host = "up"
    /\ IF App \in objs THEN /\ Send(<<M(App, "Shutdown", None)>>) /\ host' = "stopping" /\ early' = ~alive
       ELSE /\ host' = "aplow" /\ UNCHANGED early /\ Send(<<M(Mgmt, "SetAPPower", "low")>>)
    /\ UNCHANGED <<outbox, iop, iopp, app, eps, objs, started, alive, ascRing, running, again, boots>>

EpStopped ==
    /\ host = "stopping" /\ ~alive /\ host' = "aplow"
    /\ Send(<<M(Mgmt, "SetAPPower", "low")>>)
    /\ UNCHANGED <<outbox, iop, iopp, app, eps, objs, started, ep_vars, again, boots>>

\* mgmt.stop: the AP's power first, then the coprocessor's.
ApLow ==
    /\ host = "aplow" /\ app # "on" /\ host' = "ioplow"
    /\ Send(<<M(Mgmt, "SetIOPPower", "low")>>)
    /\ UNCHANGED <<outbox, iop, iopp, app, eps, objs, started, ep_vars, again, boots>>

\* stop() ends: no endpoint but a new management endpoint; asc.eps is kept.
IopLow ==
    /\ host = "ioplow" /\ iopp = "low" /\ host' = "off"
    /\ objs' = {Mgmt} /\ iopp' = None /\ app' = None
    /\ UNCHANGED <<inbox, outbox, iop, eps, started, ep_vars, again, boots>>

-----------------------------------------------------------------------------
(***************************************************************************)
(* work(): one message, while the script waits                             *)
(***************************************************************************)
Waiting == host \in {"booting", "up", "stopping", "aplow", "ioplow"}

SystemStarts_NoDone(list) == [i \in DOMAIN list |-> M(Mgmt, "StartEP", list[i])]

\* The last map's handler starts every system endpoint known and says the AP is on.
SystemStarts(list) == [i \in DOMAIN list |-> M(Mgmt, "StartEP", list[i])] \o <<M(Mgmt, "SetAPPower", "on")>>

Adding_Again(list, new) == list \o SetToSeq(new) \o list

\* The endpoints whose bits are set, after those known.
Adding(list, new) == list \o SetToSeq(new)

MgmtHandler(m) ==
    /\ CASE m.type = "Hello" -> Send(<<M(Mgmt, "HelloAck", None)>>) /\ UNCHANGED <<eps, objs, started, iopp, app>>
         [] m.type = "EPMap" -> /\ eps' = Adding(eps, m.arg) /\ Send(<<M(Mgmt, "EPMapAck", None)>>)
                                /\ UNCHANGED <<objs, started, iopp, app>>
         [] m.type = "EPMapLast" -> /\ eps' = Adding(eps, m.arg) /\ objs' = objs \cup Range(eps')
                                    /\ started' = started \o eps'
                                    /\ Send(<<M(Mgmt, "EPMapAck", None)>> \o SystemStarts(eps')) /\ UNCHANGED <<iopp, app>>
         [] m.type = "APPower" -> app' = m.arg /\ UNCHANGED <<inbox, eps, objs, started, iopp>>
         [] OTHER -> iopp' = m.arg /\ UNCHANGED <<inbox, eps, objs, started, app>>
    /\ UNCHANGED <<alive, ascRing, running>>

\* The AFK endpoint: buffer asked for, the two queues in any order, started.
AfkHandler(m) ==
    /\ CASE m.type = "InitAck" -> alive' = TRUE /\ UNCHANGED <<inbox, ascRing, running>>
         [] m.type = "GetBuf" -> Send(<<M(App, "GetBufAck", None)>>) /\ UNCHANGED <<alive, ascRing, running>>
         [] m.type = "InitRB" -> /\ ascRing' = ascRing \cup {m.arg}
                                 /\ (IF ascRing' = {"tx", "rx"} THEN Send(<<M(App, "Start", None)>>) ELSE UNCHANGED inbox)
                                 /\ UNCHANGED <<alive, running>>
         [] m.type = "StartAck" -> running' = TRUE /\ UNCHANGED <<inbox, alive, ascRing>>
         [] OTHER -> alive' = FALSE /\ UNCHANGED <<inbox, ascRing, running>>
    /\ UNCHANGED <<eps, objs, started, iopp, app>>

\* A message for an endpoint without an object is reported and dropped.
work ==
    /\ Waiting /\ outbox # <<>> /\ outbox' = Tail(outbox)
    /\ LET m == Head(outbox) IN
       IF m.ep \notin objs THEN UNCHANGED <<inbox, eps, objs, started, iopp, app, alive, ascRing, running>>
       ELSE IF m.ep = Mgmt THEN MgmtHandler(m) ELSE AfkHandler(m)
    /\ UNCHANGED <<iop, host, early, again, boots>>

-----------------------------------------------------------------------------
\* The coprocessor answers one message.
Answer(ms) == outbox' = outbox \o ms
Parts == IF Cardinality(System) > 1 THEN LET x == CHOOSE y \in System : TRUE IN <<System \ {x}, {x}>> ELSE <<{}, System>>

FarStep ==
    /\ iop.run /\ inbox # <<>> /\ inbox' = Tail(inbox)
    /\ LET m == Head(inbox) IN
       CASE m.type = "SetIOPPower" /\ m.arg = "on" -> Answer(<<M(Mgmt, "Hello", None)>>) /\ iop' = [iop EXCEPT !.state = "hello", !.eps = {}]
         [] m.type = "HelloAck" -> Answer(<<M(Mgmt, "EPMap", Parts[1])>>) /\ iop' = [iop EXCEPT !.state = "map1"]
         [] m.type = "EPMapAck" /\ iop.state = "map1" -> Answer(<<M(Mgmt, "EPMapLast", Parts[2])>>) /\ iop' = [iop EXCEPT !.state = "map2"]
         [] m.type = "EPMapAck" /\ iop.state # "map1" -> Answer(<<M(Mgmt, "IOPPower", "on")>>) /\ iop' = [iop EXCEPT !.state = "on"]
         [] m.type = "StartEP" -> Answer(<<>>) /\ iop' = [iop EXCEPT !.eps = @ \cup {m.arg}]
         [] m.type = "SetAPPower" -> Answer(<<M(Mgmt, "APPower", m.arg)>>) /\ iop' = [iop EXCEPT !.ap = m.arg]
         [] m.type = "SetIOPPower" /\ m.arg = "low" -> Answer(<<M(Mgmt, "IOPPower", "low")>>) /\ iop' = [iop EXCEPT !.state = "low"]
         [] m.type = "Init" -> Answer(<<M(App, "InitAck", None), M(App, "GetBuf", None)>>) /\ UNCHANGED iop
         [] m.type = "GetBufAck" -> /\ \E f \in {<<"tx", "rx">>, <<"rx", "tx">>} : Answer(<<M(App, "InitRB", f[1]), M(App, "InitRB", f[2])>>)
                                    /\ UNCHANGED iop
         [] m.type = "Start" -> Answer(<<M(App, "StartAck", None)>>) /\ UNCHANGED iop
         [] OTHER -> Answer(<<M(App, "ShutdownAck", None)>>) /\ iop' = [iop EXCEPT !.eps = @ \ {App}]
    /\ UNCHANGED <<host, iopp, app, eps, objs, started, ep_vars, again, boots>>

AscNext == start \/ wait_boot \/ start_ep \/ stop \/ EpStopped \/ ApLow \/ IopLow \/ work \/ FarStep

AscSpec == AscInit /\ [][AscNext]_ascVars

-----------------------------------------------------------------------------
AscTypeOK ==
    /\ host \in {"off", "booting", "up", "stopping", "aplow", "ioplow"} /\ boots \in 0 .. MaxBoots
    /\ objs \subseteq {Mgmt, App} \cup System /\ alive \in BOOLEAN /\ ascRing \subseteq {"tx", "rx"}

\* When start returns, both sides are powered and every system endpoint the
\* coprocessor announced has been started there, before the AP was said to be on.
BootComplete == host = "up" /\ ~again => iop.state = "on" /\ iop.ap = "on" /\ System \subseteq iop.eps

\* Each endpoint is started once in a boot; asc.eps survives stop(), so a second
\* boot starts the system endpoints twice.
StartedOnce == ~again => \A i, j \in DOMAIN started : i # j => started[i] # started[j]

\* The coprocessor is told to sleep only after the AFK endpoint is shut down,
\* unless stop came before its Init was acknowledged: alive is then still false
\* and nothing is waited for.
DownInOrder == host = "ioplow" /\ ~early => App \notin iop.eps /\ iop.ap # "on"

\* While the script waits there is always a message on its way: the two sides
\* never wait for one another (wait_boot, mgmt.stop, AFK's stop).
NeverStuck ==
    \/ inbox # <<>> \/ outbox # <<>>
    \/ host \in {"off", "up"}
    \/ (host = "booting" /\ iopp = "on" /\ app = "on") \/ (host = "stopping" /\ ~alive)
    \/ (host = "aplow" /\ app # "on") \/ (host = "ioplow" /\ iopp = "low")

-----------------------------------------------------------------------------
(***************************************************************************)
(* Calls between the client and the display coprocessor (proxyclient/m1n1/ *)
(* fw/dcp/dcpep.py, manager.py, ipc.py).  A call of the client waits by    *)
(* working through the mailbox, so a callback of the coprocessor runs on   *)
(* top of it and may itself call.  An acknowledgement carries no number:   *)
(* it completes the innermost call.  Buffers are stacked the same way.     *)
(* Arguments are laid out by Method and unpacked by it on the other side.  *)
(***************************************************************************)

CONSTANTS BufSize,    \* bytes of the command buffer, in blocks
          MaxCalls,   \* bound on the client's calls
          MaxCbs      \* bound on callbacks of the CB channel; there is one of the ASYNC channel

VARIABLES stack,     \* the client's frames: [k, id, ctx]
          pend,      \* ch_cmd.pending: [id, off, done]
          off,       \* ch_cmd.off
          incb,      \* in_callback
          todcp, fromdcp,   \* mailboxes
          dstack,    \* the coprocessor's main thread
          shm,       \* who wrote the answer in each block
          dcpGot,       \* the last answer read: [id, val]
          broken,    \* an exception passed through a callback or a call
          calls, cbs, asyncs, ask

dcpVars == <<stack, pend, off, incb, todcp, fromdcp, dstack, shm, dcpGot, broken, calls, cbs, asyncs, ask>>
link == <<stack, pend, off, incb, todcp, fromdcp, dstack, shm, dcpGot, broken, calls, cbs, asyncs>>

DcpNone == "none"
Top(s) == s[Len(s)]
Pop(s) == SubSeq(s, 1, Len(s) - 1)

DcpInit ==
    /\ stack = <<>> /\ pend = <<>> /\ off = 0 /\ incb = 0
    /\ todcp = <<>> /\ fromdcp = <<>> /\ dstack = <<>> /\ shm = [b \in 0 .. BufSize - 1 |-> 0]
    /\ dcpGot = [id |-> 0, val |-> 0] /\ broken = FALSE
    /\ calls = 0 /\ cbs = 0 /\ asyncs = 0 /\ ask = [kind |-> DcpNone]

-----------------------------------------------------------------------------
(***************************************************************************)
(* The client                                                              *)
(***************************************************************************)
Context_Cmd == "CMD"

\* __getattr__: the context of a call depends on whether a callback is running.
Context == IF incb > 0 THEN "CB" ELSE "CMD"

\* The script, or a callback of the CB channel (start_hardware_boot), may call.
MayCall == stack # <<>> => Top(stack).k = "cb" /\ Top(stack).ctx = "CB"

\* DCPCallChannel.call, up to its wait; too long a call is an AssertionError.
call(size) ==
    /\ MayCall = TRUE /\ calls < MaxCalls /\ calls' = calls + 1
    /\ IF off + size > BufSize
       THEN /\ stack' = <<>> /\ broken' = (broken \/ stack # <<>>)
            /\ UNCHANGED <<pend, off, todcp>>
       ELSE /\ pend' = Append(pend, [id |-> calls + 1, off |-> off, done |-> FALSE])
            /\ off' = off + size
            /\ stack' = Append(stack, [k |-> "call", id |-> calls + 1, ctx |-> Context])
            /\ todcp' = Append(todcp, [k |-> "call", id |-> calls + 1, off |-> off, ctx |-> Context])
            /\ UNCHANGED broken
    /\ UNCHANGED <<incb, fromdcp, dstack, shm, dcpGot, cbs, asyncs>>

Returns_Base ==
    /\ stack # <<>> /\ Top(stack).k = "call" /\ pend # <<>> /\ Top(pend).id = Top(stack).id /\ Top(pend).done
    /\ dcpGot' = [id |-> Top(stack).id, val |-> shm[0]]
    /\ pend' = Pop(pend) /\ off' = Top(pend).off /\ stack' = Pop(stack)
    /\ UNCHANGED <<incb, todcp, fromdcp, dstack, shm, broken, calls, cbs, asyncs>>

Returns_KeepsOff ==
    /\ stack # <<>> /\ Top(stack).k = "call" /\ pend # <<>> /\ Top(pend).id = Top(stack).id /\ Top(pend).done
    /\ dcpGot' = [id |-> Top(stack).id, val |-> shm[Top(pend).off]]
    /\ pend' = Pop(pend) /\ off' = 0 /\ stack' = Pop(stack)
    /\ UNCHANGED <<incb, todcp, fromdcp, dstack, shm, broken, calls, cbs, asyncs>>

\* The rest of call: the answer is read, the frame and its buffer given back.
Returns ==
    /\ stack # <<>> /\ Top(stack).k = "call" /\ pend # <<>> /\ Top(pend).id = Top(stack).id /\ Top(pend).done
    /\ dcpGot' = [id |-> Top(stack).id, val |-> shm[Top(pend).off]]
    /\ pend' = Pop(pend) /\ off' = Top(pend).off /\ stack' = Pop(stack)
    /\ UNCHANGED <<incb, todcp, fromdcp, dstack, shm, broken, calls, cbs, asyncs>>

ack_First == pend' = [pend EXCEPT ![1].done = TRUE]

\* ack(): the innermost pending call is complete.
ack == pend' = [pend EXCEPT ![Len(pend)].done = TRUE]

\* work() while waiting: Rx takes one message.
Working == stack # <<>> /\ Top(stack).k = "call" /\ ~(pend # <<>> /\ Top(pend).id = Top(stack).id /\ Top(pend).done)
Rx ==
    /\ fromdcp # <<>> /\ (stack # <<>> => Working) = TRUE
    /\ fromdcp' = Tail(fromdcp)
    /\ LET m == Head(fromdcp) IN
       IF m.k = "ack" THEN
            IF pend = <<>> THEN stack' = <<>> /\ broken' = TRUE /\ UNCHANGED <<pend, incb>>
            ELSE ack /\ UNCHANGED <<stack, incb, broken>>
       ELSE /\ stack' = Append(stack, [k |-> "cb", id |-> m.id, ctx |-> m.ctx]) /\ incb' = incb + 1
            /\ UNCHANGED <<pend, broken>>
    /\ UNCHANGED <<off, todcp, dstack, shm, dcpGot, calls, cbs, asyncs>>

CbReturns_Counts ==
    /\ stack # <<>> /\ Top(stack).k = "cb"
    /\ stack' = Pop(stack) /\ UNCHANGED incb
    /\ todcp' = Append(todcp, [k |-> "ack", id |-> Top(stack).id, off |-> 0, ctx |-> Top(stack).ctx])
    /\ UNCHANGED <<pend, off, fromdcp, dstack, shm, dcpGot, broken, calls, cbs, asyncs>>

\* The handler returns: in_callback falls, the answer is written and acknowledged.
CbReturns ==
    /\ stack # <<>> /\ Top(stack).k = "cb"
    /\ stack' = Pop(stack) /\ incb' = incb - 1
    /\ todcp' = Append(todcp, [k |-> "ack", id |-> Top(stack).id, off |-> 0, ctx |-> Top(stack).ctx])
    /\ UNCHANGED <<pend, off, fromdcp, dstack, shm, dcpGot, broken, calls, cbs, asyncs>>

\* An unknown callback, or one that raises: the exception leaves every frame,
\* and neither in_callback nor the pending list nor the offset is put back.
CbRaises ==
    /\ stack # <<>> /\ Top(stack).k = "cb" /\ ~broken
    /\ stack' = <<>> /\ broken' = TRUE
    /\ UNCHANGED <<pend, off, incb, todcp, fromdcp, dstack, shm, dcpGot, calls, cbs, asyncs>>

-----------------------------------------------------------------------------
\* The coprocessor: messages are kept apart by context, and its main thread
\* serves a call in the context it is in.
Takes(m) ==
    CASE m.ctx = "ASYNC" -> TRUE
      [] m.ctx = "CMD" -> dstack = <<>>
      [] m.ctx = "CB" -> dstack # <<>> /\ Top(dstack).k = "cb"

Takable == {i \in DOMAIN todcp : Takes(todcp[i]) /\ \A j \in 1 .. i - 1 : todcp[j].ctx # todcp[i].ctx}

DcpTakes == \E i \in Takable :
    /\ todcp' = SubSeq(todcp, 1, i - 1) \o SubSeq(todcp, i + 1, Len(todcp))
    /\ dstack' = IF todcp[i].k = "call" THEN Append(dstack, todcp[i])
                 ELSE IF todcp[i].ctx = "CB" THEN Pop(dstack) ELSE dstack
    /\ UNCHANGED <<stack, pend, off, incb, fromdcp, shm, dcpGot, broken, calls, cbs, asyncs>>

DcpAnswers ==
    /\ dstack # <<>> /\ Top(dstack).k = "call"
    /\ shm' = [shm EXCEPT ![Top(dstack).off] = Top(dstack).id]
    /\ fromdcp' = Append(fromdcp, [k |-> "ack", id |-> 0, ctx |-> Top(dstack).ctx])
    /\ dstack' = Pop(dstack)
    /\ UNCHANGED <<stack, pend, off, incb, todcp, dcpGot, broken, calls, cbs, asyncs>>

DcpCallsBack ==
    /\ cbs < MaxCbs /\ cbs' = cbs + 1
    /\ (dstack # <<>> => Top(dstack).k = "call") = TRUE
    /\ dstack' = Append(dstack, [k |-> "cb", id |-> cbs + 1, off |-> 0, ctx |-> "CB"])
    /\ fromdcp' = Append(fromdcp, [k |-> "cb", id |-> cbs + 1, ctx |-> "CB"])
    /\ UNCHANGED <<stack, pend, off, incb, todcp, shm, dcpGot, broken, calls, asyncs>>

DcpAsync ==
    /\ asyncs < 1 /\ asyncs' = asyncs + 1
    /\ fromdcp' = Append(fromdcp, [k |-> "cb", id |-> asyncs + 1, ctx |-> "ASYNC"])
    /\ UNCHANGED <<stack, pend, off, incb, todcp, dstack, shm, dcpGot, broken, calls, cbs>>

LinkStep ==
    /\ ask.kind = DcpNone /\ UNCHANGED ask
    /\ ~broken     \* nothing is promised of what a run does after that
    /\ \/ \E n \in 1 .. 2 : call(n)
       \/ Returns \/ Rx \/ CbReturns \/ CbRaises
       \/ DcpTakes \/ DcpAnswers \/ DcpCallsBack \/ DcpAsync

-----------------------------------------------------------------------------
(***************************************************************************)
(* Arguments: a kind is [dir, ptr], a value "v", None, or a pair for an    *)
(* array of pointers; a reference to be filled in is "ref".                *)
(***************************************************************************)
Kinds == {[dir |-> d, ptr |-> p] : d \in {"in", "inout"}, p \in {"no", "ptr", "arr"}} \cup {[dir |-> "out", ptr |-> p] : p \in {"no", "ptr"}}
Pairs == {<<a, b>> : a, b \in {"v", DcpNone}}
Values(k) == IF k.dir = "out" THEN (IF k.ptr = "no" THEN {<<"ref">>} ELSE {<<"ref">>, <<DcpNone>>})
             ELSE IF k.ptr = "no" THEN {<<"v">>} ELSE IF k.ptr = "ptr" THEN {<<"v">>, <<DcpNone>>} ELSE Pairs

\* call(): the null flags, the values, and whether the input can be built: a
\* missing pointer that is read has no value to build from.
Sent_NoNull(k, v) == [null |-> <<FALSE>>, val |-> (IF k.dir = "out" THEN <<DcpNone>> ELSE IF k.ptr = "arr" THEN [i \in 1 .. 2 |-> IF v[i] = DcpNone THEN "zero" ELSE v[i]] ELSE v),
                      ok |-> k.dir = "out" \/ v # <<DcpNone>>]
Sent(k, v) == [null |-> (IF k.ptr = "no" THEN <<FALSE>> ELSE [i \in DOMAIN v |-> v[i] = DcpNone]),
               val |-> (IF k.dir = "out" THEN <<DcpNone>> ELSE IF k.ptr = "arr" THEN [i \in 1 .. 2 |-> IF v[i] = DcpNone THEN "zero" ELSE v[i]] ELSE v),
               ok |-> k.dir = "out" \/ v # <<DcpNone>>]

\* callback() and get_field_val: what the handler is given.
Given(k, s) == IF k.dir = "out" THEN <<"ref">>
               ELSE IF k.ptr = "arr" THEN [i \in 1 .. 2 |-> IF s.null[IF Len(s.null) = 2 THEN i ELSE 1] THEN DcpNone ELSE s.val[i]]
               ELSE IF s.null[1] THEN <<DcpNone>> ELSE s.val

AskArgs == \E k1, k2 \in Kinds : \E v1 \in Values(k1), v2 \in Values(k2) :
    LET s1 == Sent(k1, v1)
        s2 == Sent(k2, v2)
    IN ask' = [kind |-> "args", ks |-> <<k1, k2>>, vs |-> <<v1, v2>>, ok |-> s1.ok /\ s2.ok, given |-> <<Given(k1, s1), Given(k2, s2)>>]

AskStep == ask.kind = DcpNone /\ calls = 0 /\ cbs = 0 /\ asyncs = 0 /\ AskArgs /\ UNCHANGED link

DcpNext == LinkStep \/ AskStep

DcpSpec == DcpInit /\ [][DcpNext]_dcpVars

-----------------------------------------------------------------------------
DcpTypeOK ==
    /\ off \in 0 .. BufSize /\ incb \in 0 .. 2 * MaxCbs /\ calls \in 0 .. MaxCalls
    /\ cbs \in 0 .. MaxCbs /\ asyncs \in 0 .. 1 /\ broken \in BOOLEAN

\* The answer a call returns was written for that call, however callbacks and
\* calls were nested, until an exception passed through a callback.
ResultIsOwn == ~broken => dcpGot.val = dcpGot.id

\* Pending calls never share a block of the command buffer, and the innermost
\* frame of the client is the innermost pending call.
BuffersStacked ==
    ~broken => /\ \A i, j \in DOMAIN pend : i < j => pend[i].off < pend[j].off
               /\ (pend # <<>> => Top(pend).off < off) /\ (pend = <<>> => off = 0)
               /\ Len(pend) = Cardinality({i \in DOMAIN stack : stack[i].k = "call"})

\* The client's wait always ends: a message is under way, or the coprocessor has
\* something to do, until an exception left in_callback standing, which sends the
\* next call in the wrong context.
DcpNeverStuck ==
    Working /\ ~broken /\ fromdcp = <<>> =>
        \/ dstack # <<>> /\ Top(dstack).k = "call"
        \/ Takable # {}

\* A method's arguments reach the handler as they were passed, nulls included; a
\* pointer to fill in is always given one, even if the caller passed none.
ArgsArrive ==
    ask.kind = "args" /\ ask.ok =>
        \A i \in 1 .. 2 : ask.given[i] = ask.vs[i] \/ (ask.ks[i].dir = "out" /\ ask.given[i] = <<"ref">>)

-----------------------------------------------------------------------------
(***************************************************************************)
(* Services on a ring buffer endpoint of a coprocessor (proxyclient/m1n1/  *)
(* fw/afk/epic.py).  A service is announced on a channel and is then       *)
(* reached by it; a command waits, by working through the endpoint's       *)
(* messages, until some reply of its channel has come.  Replies carry the  *)
(* number of the command and are taken without looking at it.              *)
(***************************************************************************)

CONSTANTS Services,   \* the endpoint's SERVICES
          Chans,      \* channels the coprocessor uses
          MaxSeq      \* bound on commands

VARIABLES chanmap,    \* channel -> service of chan_map, or None
          srv,        \* service -> [chan, seq, reply, last, tx, ready]
          wait,       \* the service whose command is being waited for, or None
          todev, fromdev,
          devtx,      \* what the coprocessor read of each channel's transmit buffer
          epicGot,        \* [want, have, parsed] of the last answer
          acked,      \* notifications answered, against those sent
          cut,        \* services with a command whose wait was broken off
          down, n, notes

epicVars == <<chanmap, srv, wait, todev, fromdev, devtx, epicGot, acked, cut, down, n, notes>>

EpicNone == "none"

EpicInit ==
    /\ chanmap = [c \in Chans |-> EpicNone]
    /\ srv = [s \in Services |-> [chan |-> 0, seq |-> 0, reply |-> -1, last |-> EpicNone, tx |-> 0, ready |-> FALSE]]
    /\ wait = EpicNone /\ todev = <<>> /\ fromdev = <<>> /\ devtx = <<>>
    /\ epicGot = [want |-> 0, have |-> 0, how |-> EpicNone, asked |-> EpicNone] /\ acked = <<>> /\ cut = {} /\ down = FALSE
    /\ n = 0 /\ notes = 0

-----------------------------------------------------------------------------
send_epic(s, how) == Append(todev, [chan |-> srv[s].chan, how |-> how, seq |-> srv[s].seq, id |-> n + 1])

Transmit_Later(s) == srv[s].tx

\* The data goes into the service's transmit buffer before the message.
Transmit(s) == n + 1

\* send_cmd; send_notify is the same with another type; send_roundtrip names the
\* call whose results the reply is parsed with.
send_cmd(s, how) ==
    /\ ~down /\ wait = EpicNone /\ srv[s].ready /\ n < MaxSeq
    /\ n' = n + 1 /\ wait' = s
    /\ todev' = send_epic(s, how)
    /\ srv' = [srv EXCEPT ![s].reply = -1, ![s].tx = Transmit(s), ![s].seq = @ + 1,
                          ![s].last = IF how = "roundtrip" THEN "call" ELSE @]
    /\ UNCHANGED <<chanmap, fromdev, devtx, epicGot, acked, cut, down, notes>>

\* The wait ends: the service has a reply; send_roundtrip forgets its call.
Answered_KeepsCall(s) ==
    /\ wait = s /\ srv[s].reply # -1 /\ wait' = EpicNone /\ UNCHANGED srv
    /\ UNCHANGED <<chanmap, todev, fromdev, devtx, epicGot, acked, cut, down, n, notes>>

Answered(s) ==
    /\ wait = s /\ srv[s].reply # -1 /\ wait' = EpicNone
    /\ srv' = [srv EXCEPT ![s].last = EpicNone]
    /\ UNCHANGED <<chanmap, todev, fromdev, devtx, epicGot, acked, cut, down, n, notes>>

Announced_NoChan(c, s, m) ==
    /\ chanmap' = [chanmap EXCEPT ![c] = s]
    /\ srv' = [srv EXCEPT ![s] = [chan |-> 1, seq |-> 0, reply |-> -1, last |-> EpicNone, tx |-> 0, ready |-> TRUE]]

\* The service gets its buffers, and the channel.
Announced(c, s, m) ==
    /\ chanmap' = [chanmap EXCEPT ![c] = s]
    /\ srv' = [srv EXCEPT ![s] = [chan |-> c, seq |-> 0, reply |-> -1, last |-> EpicNone, tx |-> 0, ready |-> TRUE]]

\* handle_report: a service of SERVICES is created and bound to its channel.
handle_report(m) ==
    /\ IF m.name \in Services THEN Announced(m.chan, m.name, m) ELSE UNCHANGED <<chanmap, srv>>
    /\ UNCHANGED <<wait, todev, epicGot, acked, cut, down>>

\* handle_reply: whatever the number, the reply is the channel's; a return code
\* that is not zero raises out of whoever is waiting.
handle_reply(m) ==
    LET s == chanmap[m.chan] IN
    /\ UNCHANGED <<chanmap, todev, acked>>
    /\ IF s = EpicNone THEN down' = TRUE /\ UNCHANGED <<srv, wait, epicGot, cut>>
       ELSE IF m.bad THEN
            /\ wait' = EpicNone /\ cut' = (IF wait = EpicNone \/ (wait = s /\ m.id = srv[s].tx) THEN cut ELSE cut \cup {wait})
            /\ UNCHANGED <<srv, epicGot, down>>
       ELSE /\ srv' = [srv EXCEPT ![s].reply = m.id]
            /\ epicGot' = [want |-> srv[s].tx, have |-> m.id, how |-> srv[s].last, asked |-> m.how]
            /\ UNCHANGED <<wait, cut, down>>

handle_notify_FirstChannel(m) ==
    LET s == chanmap[m.chan] IN
    /\ UNCHANGED <<chanmap, srv, wait, epicGot, cut>>
    /\ IF s = EpicNone THEN down' = TRUE /\ UNCHANGED todev
       ELSE /\ todev' = Append(todev, [chan |-> 1, how |-> "ack", seq |-> m.id, id |-> m.id]) /\ UNCHANGED down
    /\ UNCHANGED acked

\* handle_notify: acknowledged on the same channel with the same number.
handle_notify(m) ==
    LET s == chanmap[m.chan] IN
    /\ UNCHANGED <<chanmap, srv, wait, epicGot, cut>>
    /\ IF s = EpicNone THEN down' = TRUE /\ UNCHANGED todev
       ELSE /\ todev' = Append(todev, [chan |-> srv[s].chan, how |-> "ack", seq |-> m.id, id |-> m.id]) /\ UNCHANGED down
    /\ UNCHANGED acked

\* One message of the endpoint, from whoever works it: a waiting command or the
\* script's own loop (wait, wait_for).
handle_ipc ==
    /\ ~down /\ fromdev # <<>> /\ fromdev' = Tail(fromdev)
    /\ (wait # EpicNone => srv[wait].reply = -1) = TRUE
    /\ LET m == Head(fromdev) IN
       CASE m.k = "announce" -> handle_report(m)
         [] m.k = "notify" -> handle_notify(m)
         [] m.k = "reply" -> handle_reply(m)
    /\ UNCHANGED <<devtx, n, notes>>

\* The user breaks off the wait of a command (an interrupt at the console).
Interrupted ==
    /\ ~down /\ wait # EpicNone /\ srv[wait].reply = -1 /\ cut = {}
    /\ cut' = cut \cup {wait} /\ wait' = EpicNone
    /\ UNCHANGED <<chanmap, srv, todev, fromdev, devtx, epicGot, acked, down, n, notes>>

-----------------------------------------------------------------------------
\* The coprocessor announces each channel once, answers in order, and may notify
\* on a channel it has announced.
Told(c) == chanmap[c] # EpicNone \/ \E i \in DOMAIN fromdev : fromdev[i].k = "announce" /\ fromdev[i].chan = c
DevAnnounces == \E c \in Chans : \E s \in Services \cup {"other"} :
    /\ ~Told(c) /\ Len(fromdev) < 2
    /\ \A d \in Chans : chanmap[d] # s /\ ~\E i \in DOMAIN fromdev : fromdev[i].k = "announce" /\ fromdev[i].name = s
    /\ fromdev' = Append(fromdev, [k |-> "announce", chan |-> c, name |-> s, id |-> 0, bad |-> FALSE, how |-> EpicNone])
    /\ UNCHANGED <<chanmap, srv, wait, todev, devtx, epicGot, acked, cut, down, n, notes>>

DevNotifies == \E c \in Chans :
    /\ chanmap[c] # EpicNone /\ notes < 1 /\ notes' = notes + 1
    /\ fromdev' = Append(fromdev, [k |-> "notify", chan |-> c, name |-> EpicNone, id |-> 90 + c, bad |-> FALSE, how |-> EpicNone])
    /\ UNCHANGED <<chanmap, srv, wait, todev, devtx, epicGot, acked, cut, down, n>>

DevTakes ==
    /\ todev # <<>> /\ todev' = Tail(todev)
    /\ LET m == Head(todev) IN
       IF m.how = "ack" THEN acked' = <<m.chan, m.id>> /\ UNCHANGED <<fromdev, devtx>>
       ELSE /\ devtx' = <<m.id, srv[chanmap[m.chan]].tx>>
            /\ \E b \in BOOLEAN : fromdev' = Append(fromdev, [k |-> "reply", chan |-> m.chan, name |-> EpicNone, id |-> m.id, bad |-> b /\ m.how = "cmd", how |-> m.how])
            /\ UNCHANGED acked
    /\ UNCHANGED <<chanmap, srv, wait, epicGot, cut, down, n, notes>>

EpicNext ==
    \/ \E s \in Services : (\E how \in {"cmd", "roundtrip"} : send_cmd(s, how)) \/ Answered(s)
    \/ handle_ipc \/ Interrupted \/ DevAnnounces \/ DevNotifies \/ DevTakes

EpicSpec == EpicInit /\ [][EpicNext]_epicVars

-----------------------------------------------------------------------------
EpicTypeOK ==
    /\ chanmap \in [Chans -> Services \cup {EpicNone}] /\ wait \in Services \cup {EpicNone} /\ n \in 0 .. MaxSeq
    /\ cut \in SUBSET Services /\ down \in BOOLEAN

\* Every service is reached by the channel it was announced on, and by no other.
OneChannelEach == \A s \in Services : srv[s].ready <=> (srv[s].chan \in Chans /\ chanmap[srv[s].chan] = s)

\* A command is answered by its own reply: numbers are not compared, so this
\* holds for a service until a wait on it was broken off.
ReplyIsOwn == cut = {} => epicGot.have = epicGot.want

\* A reply is parsed as the results of the call that asked for it, and a plain
\* reply is left as it is, until a wait was broken off, which keeps the call.
ParsedAsAsked == cut = {} => (epicGot.how = "call") = (epicGot.asked = "roundtrip")

\* The coprocessor finds in the transmit buffer what the message is about.
BufferIsMessage == devtx # <<>> /\ cut = {} => devtx[1] = devtx[2]

\* A notification is acknowledged on the channel it came by.
AckedWhereSent == acked # <<>> => acked[2] = 90 + acked[1]
=============================================================================
