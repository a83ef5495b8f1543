---------------------------------- MODULE HvGuest ----------------------------------
(***************************************************************************)
(* The hypervisor console (proxyclient/m1n1/hv) and its guest: tracers and *)
(* stage 2 mappings, hardware breakpoints and CPU switches, the vectors it *)
(* hooks, and the memory it starts the guest with.  Each section is a      *)
(* machine of its own.                                                     *)
(***************************************************************************)
EXTENDS Integers, Sequences, FiniteSets, SequencesExt, FiniteSetsExt

-----------------------------------------------------------------------------
(***************************************************************************)
(* The hypervisor's MMIO maps (proxyclient/m1n1/hv/__init__.py): tracers   *)
(* are registered over address zones, the zones they change are kept as    *)
(* dirty, and pt_update turns the registrations into the stage-2 entries   *)
(* the guest runs under just before the guest is resumed.  A guest access  *)
(* then goes to the device, leaves a trace event for later, or traps and   *)
(* is replayed by the host.  A tracer may raise at any call, which opens a *)
(* shell in which the operator changes the registrations while the event   *)
(* is half delivered, and in an asynchronous event while the guest runs.   *)
(*                                                                         *)
(* A cell stands for a page-aligned zone.  Registrations are kept by cell; *)
(* the interval lists behind them are the subject of module RangeMap.      *)
(***************************************************************************)

CONSTANTS LastCell,   \* cells are 0 .. LastCell; cell 0 is the hypervisor's own
          MaxOps,     \* registrations changed by the operator
          MaxAcc,     \* guest accesses
          MaxRaises   \* tracer calls that raise

VARIABLES maps,    \* mmio_maps: cell -> ident -> registration
          dirty,   \* dirty_maps
          pt,      \* the stage-2 entry of each cell
          phase,   \* who runs: "guest", "handler", "proc", "shell" or "dead"
          queue,   \* trace events the guest has left
          proc,    \* the event or trap being handled
          result,  \* how the last one ended
          ops, accs, raises

mapsVars == <<maps, dirty, pt, phase, queue, proc, result, ops, accs, raises>>

Cells == 0 .. LastCell
CpuCell == LastCell
Zones == {{1}, 1 .. LastCell}

OFF == 0
ASYNC == 2
UNBUF == 3
WSYNC == 4
SYNC == 5
HOOK == 6
RESERVED == 7

HW == 1
Printer == 2
Trace == 3
Own == 4
Idents == {HW, Printer, Trace, Own}

None == [m |-> -1, r |-> FALSE, w |-> FALSE]
Reg(m, r, w) == [m |-> m, r |-> r, w |-> w]
OpRegs == [i \in {Printer, Trace} |->
             IF i = Printer THEN {Reg(ASYNC, TRUE, TRUE), Reg(WSYNC, TRUE, FALSE)}
             ELSE {Reg(HOOK, TRUE, FALSE), Reg(HOOK, FALSE, TRUE), Reg(WSYNC, TRUE, TRUE)}]

Present(m) == {i \in Idents : m[i] # None}
Before(m, i, j) == (m[i].m > m[j].m) \/ (m[i].m = m[j].m /\ i > j)
Sorted(m) == SetToSortSeq(Present(m), LAMBDA i, j : Before(m, i, j))
First(m) == m[Sorted(m)[1]]
NeedRead(m) == \E i \in Present(m) : m[i].r
NeedWrite(m) == \E i \in Present(m) : m[i].w

Entry(k, r, w, t) == [k |-> k, r |-> r, w |-> w, t |-> t]
Unmapped == Entry("none", FALSE, FALSE, FALSE)
Direct == Entry("hw", FALSE, FALSE, FALSE)
Kept == Entry("own", FALSE, FALSE, FALSE)

Wanted_First(m, old) ==
    IF Present(m) = {} THEN Unmapped
    ELSE LET f == First(m) IN
         CASE f.m = RESERVED -> old
           [] f.m \in {HOOK, SYNC} -> Entry("hook", f.r, f.w, FALSE)
           [] f.m = WSYNC -> Entry("hook", FALSE, f.w, f.r)
           [] f.m \in {UNBUF, ASYNC} -> Entry("sw", f.r, f.w, FALSE)
           [] f.m = OFF -> Direct

\* The stage-2 entry the registrations of a cell ask for; `old` is the
\* present one, which a reserved zone keeps.
Wanted(m, old) ==
    IF Present(m) = {} THEN Unmapped
    ELSE LET mode == First(m).m IN
         CASE mode = RESERVED -> old
           [] mode \in {HOOK, SYNC} -> Entry("hook", NeedRead(m), NeedWrite(m), FALSE)
           [] mode = WSYNC -> Entry("hook", FALSE, NeedWrite(m), NeedRead(m))
           [] mode \in {UNBUF, ASYNC} -> Entry("sw", NeedRead(m), NeedWrite(m), FALSE)
           [] mode = OFF -> Direct

\* map_hook_idx asserts that it is asked for a read or a write hook.
Asserts(m) == Present(m) # {} /\ First(m).m = WSYNC /\ ~NeedWrite(m)

Run(c, d) == \A e \in Min({c, d}) .. Max({c, d}) : maps[e] = maps[d]
Touched == {c \in Cells : \E d \in dirty : c = d \/ (Run(c, d) /\ Present(maps[d]) # {})}

\* A tracer call still to make: its ident, and what it is called for.
Call(i, f) == [i |-> i, f |-> f]
NoProc == [sync |-> FALSE, c |-> 0, w |-> FALSE, todo |-> <<>>, snap |-> {},
           seen |-> {}, owed |-> {}, acts |-> 0, clean |-> FALSE]
NoResult == [ok |-> TRUE, sync |-> FALSE, clean |-> FALSE, acts |-> 0,
             seen |-> {}, owed |-> {}, strays |-> {}]

Has(r, w) == IF w THEN r.w ELSE r.r
Tracers(m, w) == {i \in Present(m) : Has(m[i], w)}

MapsInit ==
    /\ maps = [c \in Cells |-> [i \in Idents |->
                 CASE i = HW -> Reg(OFF, FALSE, FALSE)
                   [] i = Own /\ c = 0 -> Reg(RESERVED, FALSE, FALSE)
                   [] OTHER -> None]]
    /\ dirty = {}
    /\ pt = [c \in Cells |-> IF c = 0 THEN Kept ELSE Direct]
    /\ phase = "guest"
    /\ queue = <<>>
    /\ proc = NoProc
    /\ result = NoResult
    /\ ops = 0 /\ accs = 0 /\ raises = 0

-----------------------------------------------------------------------------
(***************************************************************************)
(* What the operator does in a shell                                       *)
(***************************************************************************)
InShell == phase \in {"handler", "shell"} /\ ops < MaxOps

\* A changed registration is no longer owed the events of before.
Forgive(zone, i) ==
    /\ queue' = [k \in DOMAIN queue |->
                   IF queue[k].c \in zone THEN [queue[k] EXCEPT !.owed = @ \ {i}] ELSE queue[k]]
    /\ proc' = IF proc.c \in zone THEN [proc EXCEPT !.owed = @ \ {i}] ELSE proc

Change(zone, i, r) ==
    /\ maps' = [c \in Cells |-> IF c \in zone THEN [maps[c] EXCEPT ![i] = r] ELSE maps[c]]
    /\ dirty' = dirty \cup zone
    /\ Forgive(zone, i)
    /\ ops' = ops + 1
    /\ UNCHANGED <<pt, phase, result, accs, raises>>

add_tracer(zone, i, r) == InShell /\ Change(zone, i, r)

del_tracer_Quiet(zone, i) ==
    /\ InShell
    /\ maps' = [c \in Cells |-> IF c \in zone THEN [maps[c] EXCEPT ![i] = None] ELSE maps[c]]
    /\ Forgive(zone, i)
    /\ ops' = ops + 1
    /\ UNCHANGED <<dirty, pt, phase, result, accs, raises>>

del_tracer(zone, i) == InShell /\ Change(zone, i, None)

\* clear_tracers walks every zone and marks those that held the ident.
clear_tracers(i) ==
    /\ InShell
    /\ \E c \in Cells : maps[c][i] # None
    /\ Change({c \in Cells : maps[c][i] # None}, i, None)

-----------------------------------------------------------------------------
(***************************************************************************)
(* pt_update and the way back into the guest                               *)
(***************************************************************************)
pt_update_Takes ==
    /\ pt' = [c \in Cells |-> IF c \in dirty THEN Wanted(maps[c], Unmapped) ELSE pt[c]]
    /\ dirty' = {}
    /\ phase' = "guest"

\* Zones are rewritten in address order, whole registered zones at a time; an
\* assertion leaves the rest as it was and the dirty zones recorded.
pt_update ==
    LET bad == {c \in Touched : Asserts(maps[c])}
        done == IF bad = {} THEN Touched ELSE {c \in Touched : c < Min(bad)}
    IN /\ pt' = [c \in Cells |-> IF c \in done THEN Wanted(maps[c], pt[c]) ELSE pt[c]]
       /\ dirty' = IF bad = {} THEN {} ELSE dirty
       /\ phase' = IF bad = {} THEN "guest" ELSE "dead"

\* The guest starts a CPU: its state register gets a hook of its own, but the
\* zone recorded as reserved is the one the enclosing loop ended on.
cpustart_wh ==
    /\ phase = "guest"
    /\ proc = NoProc
    /\ pt[CpuCell] # Kept
    /\ accs < MaxAcc
    /\ accs' = accs + 1
    /\ pt' = [pt EXCEPT ![CpuCell] = Kept]
    /\ maps' = [maps EXCEPT ![0][Own] = Reg(RESERVED, FALSE, FALSE)]
    /\ dirty' = dirty \cup {0}
    /\ phase' = "handler"
    /\ result' = NoResult
    /\ UNCHANGED <<queue, proc, ops, raises>>

\* handle_exception's tail: the tables are brought up to date, then p.exit.
handle_exception ==
    /\ phase = "handler"
    /\ proc = NoProc
    /\ pt_update
    /\ UNCHANGED <<maps, queue, proc, result, ops, accs, raises>>

\* A user interrupt or a fault the host does not handle opens the shell.
interrupt ==
    /\ phase = "guest"
    /\ proc = NoProc
    /\ ops < MaxOps
    /\ phase' = "handler"
    /\ UNCHANGED <<maps, dirty, pt, queue, proc, result, ops, accs, raises>>

-----------------------------------------------------------------------------
(***************************************************************************)
(* A guest access                                                          *)
(***************************************************************************)
Owed(c, w) == IF c \in dirty \/ pt[c] = Kept THEN {} ELSE Tracers(maps[c], w)

HookPlan_Both(m, w) ==
    LET s == Sorted(m)
        hook == First(m).m = HOOK
        rest == SelectSeq(IF hook THEN Tail(s) ELSE s, LAMBDA i : Has(m[i], w))
        calls == [k \in DOMAIN rest |-> Call(rest[k], "trace")]
        act == IF hook /\ Has(First(m), w) THEN <<Call(s[1], "hook"), Call(0, "dev")>>
               ELSE <<Call(0, "dev")>>
    IN IF w THEN calls \o act ELSE act \o calls

\* The calls handle_vm_hook_mapped plans: a read is hooked or done first, a
\* write last, and the other tracers see it in between.
HookPlan(m, w) ==
    LET s == Sorted(m)
        hook == First(m).m = HOOK
        hooked == hook /\ Has(First(m), w)
        rest == SelectSeq(IF hook THEN Tail(s) ELSE s, LAMBDA i : Has(m[i], w))
        calls == [k \in DOMAIN rest |-> Call(rest[k], "trace")]
        act == IF hooked THEN <<Call(s[1], "hook")>> ELSE <<Call(0, "dev")>>
    IN IF w THEN calls \o act ELSE act \o calls

HookRefused(m, w) ==
    \/ Present(m) = {}
    \/ First(m).m \notin {HOOK, SYNC, WSYNC}
    \/ ~w /\ First(m).m = WSYNC

\* handle_vm_hook with id 0: the trap is replayed from the registrations, or
\* refused, which ends in the hypervisor shell.
handle_vm_hook(c, w) ==
    IF HookRefused(maps[c], w)
    THEN /\ phase' = "handler"
         /\ result' = [NoResult EXCEPT !.ok = FALSE, !.clean = c \notin dirty, !.sync = TRUE]
         /\ UNCHANGED proc
    ELSE /\ phase' = "proc"
         /\ proc' = [NoProc EXCEPT !.sync = TRUE, !.c = c, !.w = w,
                        !.todo = HookPlan(maps[c], w), !.snap = Present(maps[c]),
                        !.owed = Owed(c, w), !.clean = c \notin dirty]
         /\ result' = NoResult

access(c, w) ==
    /\ phase = "guest"
    /\ proc = NoProc
    /\ accs < MaxAcc
    /\ accs' = accs + 1
    /\ CASE pt[c].k = "hook" /\ Has(pt[c], w) ->
              handle_vm_hook(c, w) /\ UNCHANGED queue
         [] (pt[c].k = "sw" /\ Has(pt[c], w)) \/ (pt[c].k = "hook" /\ ~w /\ pt[c].t) ->
              /\ queue' = Append(queue, [c |-> c, w |-> w, owed |-> Owed(c, w)])
              /\ result' = NoResult
              /\ UNCHANGED <<phase, proc>>
         [] OTHER ->
              \* The device, an own hook, or a fault: nothing for the tracers.
              /\ result' = [NoResult EXCEPT !.owed = Owed(c, w), !.clean = c \notin dirty]
              /\ UNCHANGED <<phase, proc, queue>>
    /\ UNCHANGED <<maps, dirty, pt, ops, raises>>

\* handle_mmiotrace: the oldest event goes to the tracers registered now, except
\* those whose mode should have trapped.
EventPlan(m, w) ==
    LET may(i) == m[i].m <= WSYNC /\ ~(w /\ m[i].m > UNBUF) /\ m[i].m # OFF /\ Has(m[i], w)
        s == SelectSeq(Sorted(m), may)
    IN [k \in DOMAIN s |-> Call(s[k], "trace")]

handle_mmiotrace ==
    /\ phase = "guest"
    /\ proc = NoProc
    /\ queue # <<>>
    /\ LET e == Head(queue) IN
       /\ proc' = [NoProc EXCEPT !.c = e.c, !.w = e.w, !.todo = EventPlan(maps[e.c], e.w),
                      !.snap = Present(maps[e.c]), !.owed = e.owed, !.clean = TRUE]
       /\ queue' = Tail(queue)
       /\ phase' = "proc"
       /\ result' = NoResult
    /\ UNCHANGED <<maps, dirty, pt, ops, accs, raises>>

-----------------------------------------------------------------------------
(***************************************************************************)
(* The calls themselves                                                    *)
(***************************************************************************)
Next1 == Head(proc.todo)

\* shellwrap: the function returns.
shellwrap ==
    /\ phase = "proc"
    /\ proc.todo # <<>>
    /\ proc' = [proc EXCEPT !.todo = Tail(@),
                            !.seen = IF Next1.i = 0 THEN @ ELSE @ \cup {Next1.i},
                            !.acts = IF Next1.f = "trace" THEN @ ELSE @ + 1]
    /\ UNCHANGED <<maps, dirty, pt, phase, queue, result, ops, accs, raises>>

\* The function raises and the operator gets a shell.
Raises ==
    /\ phase = "proc"
    /\ proc.todo # <<>>
    /\ Next1.i # 0
    /\ raises < MaxRaises
    /\ raises' = raises + 1
    /\ phase' = "shell"
    /\ UNCHANGED <<maps, dirty, pt, queue, proc, result, ops, accs>>

Dropped == [proc EXCEPT !.todo = Tail(@), !.owed = @ \ {Next1.i},
                        !.acts = IF Next1.f = "trace" THEN @ ELSE @ + 1]

do_update_Gives ==
    [Dropped EXCEPT !.owed = proc.owed]

\* do_update looks the ident up again: a tracer that is gone, or has no function
\* for this direction now, is replaced by one that does nothing.
do_update ==
    IF Has(maps[proc.c][Next1.i], proc.w) THEN proc
    ELSE Dropped

Retries ==
    /\ phase = "shell"
    /\ proc' = do_update
    /\ phase' = "proc"
    /\ UNCHANGED <<maps, dirty, pt, queue, result, ops, accs, raises>>

\* skip() leaves the call out, unless its value is needed.
Skips ==
    /\ phase = "shell"
    /\ ~(Next1.f = "hook" /\ ~proc.w)
    /\ proc' = Dropped
    /\ phase' = "proc"
    /\ UNCHANGED <<maps, dirty, pt, queue, result, ops, accs, raises>>

\* The last call is made: a trap returns to handle_exception, an event to the
\* reader of the link.
Ends ==
    /\ phase = "proc"
    /\ proc.todo = <<>>
    /\ result' = [NoResult EXCEPT !.seen = proc.seen, !.owed = proc.owed, !.acts = proc.acts,
                     !.clean = proc.clean, !.sync = proc.sync, !.strays = proc.seen \ proc.snap]
    /\ proc' = NoProc
    /\ phase' = IF proc.sync THEN "handler" ELSE "guest"
    /\ UNCHANGED <<maps, dirty, pt, queue, ops, accs, raises>>

MapsNext ==
    \/ \E z \in Zones, i \in {Printer, Trace} : \E r \in OpRegs[i] : add_tracer(z, i, r)
    \/ \E z \in Zones, i \in {HW, Printer, Trace} : del_tracer(z, i)
    \/ \E i \in {Printer, Trace} : clear_tracers(i)
    \/ cpustart_wh
    \/ handle_exception
    \/ interrupt
    \/ \E c \in Cells, w \in BOOLEAN : access(c, w)
    \/ handle_mmiotrace
    \/ shellwrap
    \/ Raises
    \/ Retries
    \/ Skips
    \/ Ends

-----------------------------------------------------------------------------
RegOK(r) == r.m \in -1 .. RESERVED /\ r.r \in BOOLEAN /\ r.w \in BOOLEAN

MapsTypeOK ==
    /\ \A c \in Cells, i \in Idents : RegOK(maps[c][i])
    /\ dirty \subseteq Cells
    /\ \A c \in Cells : pt[c].k \in {"none", "hw", "own", "sw", "hook"}
    /\ phase \in {"guest", "handler", "proc", "shell", "dead"}
    /\ \A k \in DOMAIN queue : queue[k].c \in Cells /\ queue[k].owed \subseteq Idents
    /\ proc.seen \subseteq Idents /\ result.seen \subseteq Idents
    /\ ops \in 0 .. MaxOps /\ accs \in 0 .. MaxAcc /\ raises \in 0 .. MaxRaises

\* Wherever no zone is dirty the stage-2 entry is the one the registrations ask
\* for, however zones were split, merged and rewritten (pt_update).  The state
\* register of a started CPU may keep its hook, which no registration records.
PtInStep ==
    \A c \in Cells \ dirty :
        pt[c] = Wanted(maps[c], pt[c]) \/ (c = CpuCell /\ pt[c] = Kept)

\* A zone the hypervisor serves itself is never handed to the guest by an update
\* of the zones around it (TraceMode.RESERVED).
OwnKept == pt[0] = Kept

\* A trap at a zone that is not dirty is never refused, and the access it stands
\* for is carried out exactly once, by the device or by the hook
\* (handle_vm_hook_mapped), whatever the operator did while a tracer had raised.
TrapsDoneOnce == (result.sync /\ result.clean) => (result.ok /\ result.acts = 1)

\* Every tracer registered for an access sees it, at once or from the event
\* queue, unless it was changed or skipped in between; and no tracer is called
\* that was not registered when the event was taken up.
SeenByAll == result.owed \subseteq result.seen /\ result.strays = {}

MapsSpec == MapsInit /\ [][MapsNext]_mapsVars

-----------------------------------------------------------------------------
(***************************************************************************)
(* The hypervisor's debugger side (proxyclient/m1n1/hv/__init__.py): a     *)
(* guest CPU that traps is handed to handle_exception, which works on a    *)
(* copy of its context and may open a shell.  From the shell the operator  *)
(* edits the context, steps, moves to another CPU, and sets or removes     *)
(* breakpoints and watchpoints, which means visiting every started CPU.    *)
(* A visit can fail because the CPU is not there, or because another event *)
(* (a virtio request) answers in its place.  Ctrl-C may arrive at any time.*)
(*                                                                         *)
(* The target side (which CPU enters the proxy, the debug registers, the   *)
(* rendezvous) is external and modelled from how the class uses it.        *)
(***************************************************************************)

CONSTANTS MaxEdits,   \* context edits
          DebugMaxOps,     \* debugger commands
          MaxSigs,    \* presses of Ctrl-C
          MaxTraps    \* guest traps

VARIABLES ctx,      \* self.ctx: the CPU in hand and its context, or NoCtx
          info,     \* the context saved on the target, by CPU
          want,     \* ghost: the context the operator left each CPU with
          reg,      \* _bps and _wps: slot -> in use
          arm,      \* the debug registers: CPU -> slot -> enabled
          ss,       \* MDSCR_EL1.SS, by CPU
          started,  \* started_cpus
          late,     \* ghost: <<cpu, slot>> started after the slot was set
          torn,     \* ghost: slots whose visit of the CPUs failed
          loop,     \* the visit in progress
          debugPhase, inHandler, sigint, kicks, barked,
          edits, debugOps, sigs, traps

host == <<ctx, info, want, reg, arm, ss, started, late, torn, loop>>
sig == <<inHandler, sigint, kicks, barked, sigs>>
debugVars == <<host, sig, debugPhase, edits, debugOps, traps>>

Cpus == {0, 1}
Bps == {"b1"}
Wps == {"w1"}
Slots == Bps \cup Wps
NoCtx == [c |-> -1, v |-> 0]
NoLoop == [op |-> "none", slot |-> "b1", todo |-> <<>>, back |-> 0, failed |-> FALSE]

DebugInit ==
    /\ ctx = NoCtx
    /\ info = [c \in Cpus |-> 0] /\ want = [c \in Cpus |-> 0]
    /\ reg = [s \in Slots |-> FALSE]
    /\ arm = [c \in Cpus |-> [s \in Slots |-> FALSE]]
    /\ ss = [c \in Cpus |-> FALSE]
    /\ started = {0} /\ late = {} /\ torn = {}
    /\ loop = NoLoop
    /\ debugPhase = "guest" /\ inHandler = FALSE /\ sigint = FALSE /\ kicks = 0 /\ barked = FALSE
    /\ edits = 0 /\ debugOps = 0 /\ sigs = 0 /\ traps = 0

\* load_context and commit_context: the copy in hand against the saved one.
load_context(c) == ctx' = [c |-> c, v |-> info[c]]
Committed == IF ctx = NoCtx THEN info ELSE [info EXCEPT ![ctx.c] = ctx.v]

-----------------------------------------------------------------------------
(***************************************************************************)
(* Traps                                                                   *)
(***************************************************************************)
\* handle_exception up to the handler of the trap.
Enter(c) ==
    /\ debugPhase = "guest" /\ loop = NoLoop
    /\ c \in started
    /\ traps < MaxTraps
    /\ traps' = traps + 1
    /\ load_context(c)
    /\ inHandler' = TRUE
    /\ barked' = FALSE
    /\ UNCHANGED <<info, want, reg, started, late, torn, loop, edits, debugOps, sigs, kicks>>

\* A handled trap opens the shell only for a pending Ctrl-C.
AfterHandled == /\ debugPhase' = IF sigint THEN "shell" ELSE "leave"
                /\ sigint' = FALSE
AfterUnhandled == debugPhase' = "shell" /\ sigint' = FALSE

Disarm(c, group) == arm' = [arm EXCEPT ![c] = [s \in Slots |-> IF s \in group THEN FALSE ELSE @[s]]]

\* handle_break: every breakpoint off on this CPU, single step on; a hook may
\* handle it.
handle_break(c) ==
    /\ Enter(c)
    /\ \E s \in Bps : arm[c][s]
    /\ Disarm(c, Bps)
    /\ ss' = [ss EXCEPT ![c] = TRUE]
    /\ AfterHandled \/ AfterUnhandled

handle_watch(c) ==
    /\ Enter(c)
    /\ \E s \in Wps : arm[c][s]
    /\ Disarm(c, Wps)
    /\ ss' = [ss EXCEPT ![c] = TRUE]
    /\ AfterUnhandled

handle_step_BpsOnly(c) ==
    /\ Enter(c)
    /\ ss[c]
    /\ ss' = [ss EXCEPT ![c] = FALSE]
    /\ arm' = [arm EXCEPT ![c] = [s \in Slots |-> IF s \in Bps /\ reg[s] THEN TRUE ELSE @[s]]]
    /\ AfterHandled

\* handle_step: single step off; breakpoints in use are enabled again and every
\* watchpoint register gets its recorded value.
handle_step(c) ==
    /\ Enter(c)
    /\ ss[c]
    /\ ss' = [ss EXCEPT ![c] = FALSE]
    /\ arm' = [arm EXCEPT ![c] = [s \in Slots |-> IF s \in Wps THEN reg[s] ELSE reg[s] \/ @[s]]]
    /\ AfterHandled

\* A fault nothing handles.
handle_sync(c) ==
    /\ Enter(c)
    /\ UNCHANGED <<arm, ss>>
    /\ AfterUnhandled

\* The "!" that Ctrl-C sent breaks the guest out.
user_interrupt(c) ==
    /\ kicks > 0
    /\ debugPhase = "guest" /\ loop = NoLoop
    /\ c \in started
    /\ kicks' = kicks - 1
    /\ load_context(c)
    /\ inHandler' = TRUE
    /\ barked' = FALSE
    /\ AfterUnhandled
    /\ UNCHANGED <<info, want, reg, arm, ss, started, late, torn, loop, edits, debugOps, sigs, traps>>

\* A watchdog bark: its own shell, and the in-handler flag is left set.
handle_bark ==
    /\ debugPhase = "guest" /\ loop = NoLoop
    /\ traps < MaxTraps
    /\ traps' = traps + 1
    /\ inHandler' = TRUE
    /\ barked' = TRUE
    /\ sigint' = FALSE
    /\ UNCHANGED <<host, debugPhase, kicks, sigs, edits, debugOps>>

\* The guest starts its second CPU, with no debug register set.
start_secondary ==
    /\ debugPhase = "guest" /\ loop = NoLoop
    /\ 1 \notin started
    /\ started' = started \cup {1}
    /\ late' = late \cup {<<1, s>> : s \in {x \in Slots : reg[x]}}
    /\ UNCHANGED <<ctx, info, want, reg, arm, ss, torn, loop, sig, debugPhase, edits, debugOps, traps>>

-----------------------------------------------------------------------------
(***************************************************************************)
(* The shell                                                               *)
(***************************************************************************)
DebugInShell == debugPhase = "shell" /\ loop = NoLoop /\ ctx # NoCtx

Edit ==
    /\ DebugInShell
    /\ edits < MaxEdits
    /\ edits' = edits + 1
    /\ ctx' = [ctx EXCEPT !.v = edits + 1]
    /\ want' = [want EXCEPT ![ctx.c] = edits + 1]
    /\ UNCHANGED <<info, reg, arm, ss, started, late, torn, loop, sig, debugPhase, debugOps, traps>>

switch_context_NoFlush(n) ==
    /\ info' = info
    /\ ctx' = IF ctx.c = n THEN ctx ELSE [c |-> n, v |-> info[n]]

\* switch_context: the copy in hand is flushed before the proxy is left.
switch_context(n) ==
    /\ info' = Committed
    /\ ctx' = [c |-> n, v |-> Committed[n]]

\* The switch is answered by another event: no context is left.
SwitchFails == info' = Committed /\ ctx' = NoCtx

\* step(): one instruction of the CPU in hand, or another CPU's event instead.
step ==
    /\ DebugInShell
    /\ debugOps < DebugMaxOps
    /\ debugOps' = debugOps + 1
    /\ ss' = [ss EXCEPT ![ctx.c] = TRUE]
    /\ switch_context(ctx.c) \/ SwitchFails
    /\ UNCHANGED <<want, reg, arm, started, late, torn, loop, sig, debugPhase, edits, traps>>

\* cpu(n) typed by the operator.
cpu(n) ==
    /\ DebugInShell
    /\ n # ctx.c
    /\ n \in started
    /\ debugOps < DebugMaxOps
    /\ debugOps' = debugOps + 1
    /\ switch_context(n) \/ SwitchFails
    /\ UNCHANGED <<want, reg, arm, ss, started, late, torn, loop, sig, debugPhase, edits, traps>>

\* The four commands differ in when the slot is recorded: a breakpoint once
\* every CPU has it, the others at once.
Visit(op, s) ==
    loop' = [op |-> op, slot |-> s, back |-> ctx.c, failed |-> FALSE,
             todo |-> SetToSortSeq(started, LAMBDA a, b : a < b)]

add_hw_bp ==
    /\ DebugInShell
    /\ debugOps < DebugMaxOps
    /\ debugOps' = debugOps + 1
    /\ \E s \in Bps : ~reg[s] /\ Visit("add", s)
    /\ UNCHANGED <<ctx, info, want, reg, arm, ss, started, late, torn, sig, debugPhase, edits, traps>>

add_hw_wp ==
    /\ DebugInShell
    /\ debugOps < DebugMaxOps
    /\ debugOps' = debugOps + 1
    /\ \E s \in Wps : ~reg[s] /\ Visit("addwp", s) /\ reg' = [reg EXCEPT ![s] = TRUE]
    /\ UNCHANGED <<ctx, info, want, arm, ss, started, late, torn, sig, debugPhase, edits, traps>>

\* remove_hw_bp and remove_hw_wp
remove_hw(s) ==
    /\ DebugInShell
    /\ debugOps < DebugMaxOps
    /\ debugOps' = debugOps + 1
    /\ reg[s] /\ Visit("remove", s) /\ reg' = [reg EXCEPT ![s] = FALSE]
    /\ UNCHANGED <<ctx, info, want, arm, ss, started, late, torn, sig, debugPhase, edits, traps>>

-----------------------------------------------------------------------------
(***************************************************************************)
(* Visiting the CPUs                                                       *)
(***************************************************************************)
Looping == debugPhase = "shell" /\ loop # NoLoop /\ ctx # NoCtx

\* cpus(): the next CPU is switched to, and its registers are written.
cpus ==
    /\ Looping /\ loop.todo # <<>> /\ ~loop.failed
    /\ LET n == Head(loop.todo) IN
       /\ IF n = ctx.c THEN UNCHANGED <<ctx, info>> ELSE switch_context(n)
       /\ arm' = [arm EXCEPT ![n][loop.slot] = loop.op # "remove"]
       /\ loop' = [loop EXCEPT !.todo = Tail(@)]
    /\ UNCHANGED <<want, reg, ss, started, late, torn, sig, debugPhase, edits, debugOps, traps>>

\* The CPU is not there, or another event answers: the rest is not visited.
cpusFails ==
    /\ Looping /\ loop.todo # <<>> /\ ~loop.failed
    /\ Head(loop.todo) # ctx.c
    /\ \/ /\ UNCHANGED <<ctx, info>>
          /\ loop' = [loop EXCEPT !.failed = TRUE]
       \/ /\ SwitchFails
          /\ loop' = NoLoop
    /\ torn' = torn \cup {loop.slot}
    /\ UNCHANGED <<want, reg, arm, ss, started, late, sig, debugPhase, edits, debugOps, traps>>

\* Only a breakpoint whose visit ran to its end is entered in _bps here.
Recorded == IF loop.op = "add" /\ ~loop.failed THEN [reg EXCEPT ![loop.slot] = TRUE] ELSE reg

\* The finally clause goes back to where the command was typed.
Back ==
    /\ Looping
    /\ loop.todo = <<>> \/ loop.failed
    /\ \/ /\ IF loop.back = ctx.c THEN UNCHANGED <<ctx, info>> ELSE switch_context(loop.back)
          /\ reg' = Recorded
          /\ torn' = IF loop.failed THEN torn ELSE torn \ {loop.slot}
          /\ late' = IF loop.failed THEN late ELSE {p \in late : p[2] # loop.slot}
       \/ /\ loop.back # ctx.c
          /\ SwitchFails
          /\ torn' = torn \cup {loop.slot}
          /\ UNCHANGED <<reg, late>>
    /\ loop' = NoLoop
    /\ UNCHANGED <<want, arm, ss, started, sig, debugPhase, edits, debugOps, traps>>

-----------------------------------------------------------------------------
(***************************************************************************)
(* Leaving                                                                 *)
(***************************************************************************)
\* cont(), exit() and skip() end the shell; without a context the commit raises.
cont ==
    /\ debugPhase = "shell" /\ loop = NoLoop
    /\ debugPhase' = IF ctx = NoCtx THEN "dead" ELSE "leave"
    /\ UNCHANGED <<host, sig, edits, debugOps, traps>>

debug_handle_exception ==
    /\ debugPhase = "leave"
    /\ info' = Committed
    /\ ctx' = NoCtx
    /\ debugPhase' = "left"
    /\ UNCHANGED <<want, reg, arm, ss, started, late, torn, loop, sig, edits, debugOps, traps>>

ClearInHandler ==
    /\ debugPhase = "left"
    /\ inHandler' = FALSE
    /\ debugPhase' = "check"
    /\ UNCHANGED <<host, sigint, kicks, barked, sigs, edits, debugOps, traps>>

\* A Ctrl-C that came while the handler ran is sent on now.
CheckSigint_Drops ==
    /\ debugPhase = "check"
    /\ debugPhase' = "guest"
    /\ UNCHANGED <<host, sig, edits, debugOps, traps>>

CheckSigint ==
    /\ debugPhase = "check"
    /\ debugPhase' = "guest"
    /\ kicks' = IF sigint THEN kicks + 1 ELSE kicks
    /\ UNCHANGED <<host, inHandler, sigint, barked, sigs, edits, debugOps, traps>>

\* handle_sigint; in the shell Ctrl-C has its default meaning.  The presses come
\* before the first debugger command, which they do not interact with.
handle_sigint ==
    /\ debugPhase \notin {"shell", "dead"}
    /\ debugOps = 0
    /\ sigs < MaxSigs
    /\ sigs' = sigs + 1
    /\ sigint' = TRUE
    /\ kicks' = IF inHandler THEN kicks ELSE kicks + 1
    /\ UNCHANGED <<host, debugPhase, inHandler, barked, edits, debugOps, traps>>

DebugNext ==
    \/ \E c \in Cpus : handle_break(c) \/ handle_watch(c) \/ handle_step(c) \/ handle_sync(c)
                       \/ user_interrupt(c) \/ cpu(c)
    \/ handle_bark \/ start_secondary
    \/ Edit \/ step \/ add_hw_bp \/ add_hw_wp
    \/ \E s \in Slots : remove_hw(s)
    \/ cpus \/ cpusFails \/ Back
    \/ cont \/ debug_handle_exception \/ ClearInHandler \/ CheckSigint \/ handle_sigint

DebugSpec == DebugInit /\ [][DebugNext]_debugVars

-----------------------------------------------------------------------------
DebugTypeOK ==
    /\ ctx.c \in Cpus \cup {-1}
    /\ info \in [Cpus -> 0 .. MaxEdits] /\ want \in [Cpus -> 0 .. MaxEdits]
    /\ reg \in [Slots -> BOOLEAN] /\ ss \in [Cpus -> BOOLEAN]
    /\ arm \in [Cpus -> [Slots -> BOOLEAN]]
    /\ started \subseteq Cpus /\ torn \subseteq Slots /\ late \subseteq Cpus \X Slots
    /\ debugPhase \in {"guest", "shell", "leave", "left", "check", "dead"}
    /\ kicks \in 0 .. 2 * MaxSigs
    /\ inHandler \in BOOLEAN /\ sigint \in BOOLEAN /\ barked \in BOOLEAN

\* What the operator wrote into a CPU's context is on the target before that CPU
\* can run again: when the shell moves to another CPU, when a step or a visit is
\* cut short by another event, and when the guest is resumed (switch_context,
\* handle_exception).
EditsKept == \A c \in Cpus : ctx.c # c => info[c] = want[c]

\* Outside a visit every started CPU has exactly the breakpoints and watchpoints
\* on record, or is single-stepping towards having them again.  Exempt are the
\* slots whose last visit failed and CPUs started after the slot was set, which
\* the code does not reach.
ArmedEverywhere ==
    loop = NoLoop =>
        \A c \in started, s \in Slots \ torn :
            <<c, s>> \notin late =>
                /\ arm[c][s] => reg[s]
                /\ reg[s] => arm[c][s] \/ ss[c]

\* A Ctrl-C is never forgotten: while the guest runs and one is pending, a kick is
\* on its way, or a watchdog shell left the handler flag set, which the next trap
\* repairs (handle_sigint, interrupt, handle_bark).
InterruptKept ==
    debugPhase = "guest" => /\ sigint => (kicks > 0 \/ inHandler)
                            /\ inHandler => barked

-----------------------------------------------------------------------------
(***************************************************************************)
(* System-register traps and exception hooking of the hypervisor           *)
(* (proxyclient/m1n1/hv/__init__.py).  Every trapped MSR or MRS is done    *)
(* for the guest: from a shadow, not at all, or on the redirected          *)
(* register.  With hook_exceptions set it is also the moment at which the  *)
(* host looks at the guest's VBAR and replaces the branches of a vector    *)
(* table it has not seen by HVC instructions, so that the guest's          *)
(* exceptions pass through handle_hvc before they reach its handlers.      *)
(*                                                                         *)
(* Table "A" is at a physical address, "B" and "C" are kernel addresses    *)
(* that need the guest's MMU and a mapping.                                *)
(***************************************************************************)

CONSTANTS MaxSets,    \* writes of VBAR by the guest
          VectorsMaxTraps,   \* trapped system-register accesses
          MaxPatches  \* tables the host patches

VARIABLES vbar,     \* VBAR_EL12
          mmu, mapped,
          mem,      \* the vector tables as the guest would execute them
          vbar_el1, want_vbar, vectors,   \* the host's fields
          chosen,   \* ghost: the table the guest last chose
          stale,    \* ghost: chosen while the host was still holding one back
          again,    \* ghost: tables patched more than once
          last,     \* where the last exception went
          sysreg,   \* the shadow registers, by CPU
          dbg,      \* ghost: what each CPU last wrote to its shadow register
          hw,       \* the hardware debug register, set by the host alone
          seen,     \* what the last read returned, and to whom
          sets, vectorsTraps

vvars == <<vbar, mmu, mapped, mem, vbar_el1, want_vbar, vectors, chosen, stale, again, last>>
svars == <<sysreg, dbg, hw, seen>>
vectorsVars == <<vvars, svars, sets, vectorsTraps>>

Tables == {"A", "B", "C"}
High == {"B", "C"}
VectorsNone == "none"
Vecs == {0, 4}
VectorsCpus == {0, 1}

\* Instructions: a branch, a branch to itself, anything else, or HVC n for n >= 0.
Branch == -1
Loop == -2
Other == -3
Original == [t \in Tables |->
               [i \in Vecs |-> CASE t = "A" /\ i = 4 -> Loop [] t = "B" /\ i = 4 -> Other
                                 [] OTHER -> Branch]]

NoLast == [i |-> 0, t |-> VectorsNone, own |-> TRUE, held |-> FALSE, open |-> FALSE]
NoSeen == [c |-> 0, v |-> 0, is |-> FALSE]

VectorsInit ==
    /\ vbar = VectorsNone /\ mmu = FALSE /\ mapped = {}
    /\ mem = Original
    /\ vbar_el1 = VectorsNone /\ want_vbar = VectorsNone /\ vectors = <<>>
    /\ chosen = VectorsNone /\ stale = FALSE /\ again = {} /\ last = NoLast
    /\ sysreg = [c \in VectorsCpus |-> 0] /\ dbg = [c \in VectorsCpus |-> 0] /\ hw = 0 /\ seen = NoSeen
    /\ sets = 0 /\ vectorsTraps = 0

-----------------------------------------------------------------------------
(***************************************************************************)
(* The guest                                                               *)
(***************************************************************************)
SetVbar(t) ==
    /\ sets < MaxSets
    /\ sets' = sets + 1
    /\ vbar' = t
    /\ chosen' = t
    /\ stale' = (want_vbar # VectorsNone)
    /\ last' = NoLast
    /\ UNCHANGED <<mmu, mapped, mem, vbar_el1, want_vbar, vectors, again, svars, vectorsTraps>>

MmuOn ==
    /\ ~mmu
    /\ mmu' = TRUE
    /\ \E m \in {{"A"}, {"A", "B"}, {"B", "C"}} : mapped' = m
    /\ last' = NoLast
    /\ UNCHANGED <<vbar, mem, vbar_el1, want_vbar, vectors, chosen, stale, again, svars, sets, vectorsTraps>>

MapAll ==
    /\ mmu /\ mapped # Tables
    /\ mapped' = Tables
    /\ last' = NoLast
    /\ UNCHANGED <<vbar, mmu, mem, vbar_el1, want_vbar, vectors, chosen, stale, again, svars, sets, vectorsTraps>>

handle_hvc_Sentinel(n) ==
    IF n <= 1 \/ vectors[n].target = FALSE THEN VectorsNone ELSE vectors[n].t

\* handle_hvc: the table entry names the vector and its target; without one, or
\* for HVC 0, the exception is not handled and the shell opens.
handle_hvc(n) ==
    IF n = 0 \/ vectors[n].target = FALSE THEN VectorsNone ELSE vectors[n].t

GuestException(i) ==
    /\ vbar # VectorsNone
    /\ (mmu /\ vbar \in mapped) \/ (~mmu /\ vbar \notin High)
    /\ LET insn == mem[vbar][i]
           to == IF insn >= 0 THEN handle_hvc(insn) ELSE IF insn = Branch THEN vbar ELSE VectorsNone
       IN last' = [i |-> i, t |-> to, open |-> (to = VectorsNone),
                   own |-> (insn < 0 \/ insn = 0 \/ vectors[insn].i = i),
                   held |-> (want_vbar # VectorsNone)]
    /\ UNCHANGED <<vbar, mmu, mapped, mem, vbar_el1, want_vbar, vectors, chosen, stale, again,
                   svars, sets, vectorsTraps>>

-----------------------------------------------------------------------------
(***************************************************************************)
(* patch_exception_handling                                                *)
(***************************************************************************)
Translates(t) == IF mmu THEN t \in mapped ELSE t \notin High

\* A table that cannot be read yet is held back: the guest keeps the one before.
HoldBack(t) ==
    /\ IF vbar_el1 # VectorsNone THEN want_vbar' = t /\ vbar' = vbar_el1
       ELSE UNCHANGED <<want_vbar, vbar>>
    /\ UNCHANGED <<mem, vbar_el1, vectors, again, stale>>

Patch_SameIndex(t) ==
    /\ mem' = [mem EXCEPT ![t] = [i \in Vecs |-> Len(vectors) + 1]]
    /\ vectors' = vectors \o <<[t |-> t, i |-> 0, target |-> TRUE]>>

\* Each vector that is a branch becomes HVC of a new entry; any other HVC 0.
Patch(t) ==
    LET old == mem[t]
        first == IF old[0] \in {Branch, Loop} THEN <<[t |-> t, i |-> 0, target |-> old[0] = Branch]>> ELSE <<>>
        second == IF old[4] \in {Branch, Loop} THEN <<[t |-> t, i |-> 4, target |-> old[4] = Branch]>> ELSE <<>>
        n0 == Len(vectors) + Len(first)
    IN /\ vectors' = vectors \o first \o second
       /\ mem' = [mem EXCEPT ![t] = [i \in Vecs |->
                    IF i = 0 THEN (IF first = <<>> THEN 0 ELSE n0)
                    ELSE (IF second = <<>> THEN 0 ELSE n0 + 1)]]

patch_exception_handling ==
    LET t == IF want_vbar # VectorsNone THEN want_vbar ELSE vbar IN
    IF t = vbar_el1 \/ t = VectorsNone
    THEN UNCHANGED <<vbar, mem, vbar_el1, want_vbar, vectors, again, stale>>
    ELSE IF ~Translates(t)
    THEN HoldBack(t)
    ELSE /\ Patch(t)
         /\ vbar_el1' = t
         /\ vbar' = t
         /\ want_vbar' = VectorsNone
         /\ again' = IF \E i \in Vecs : mem[t][i] >= 0 THEN again \cup {t} ELSE again
         /\ stale' = (t # chosen)

-----------------------------------------------------------------------------
(***************************************************************************)
(* handle_msr                                                              *)
(***************************************************************************)
Shadowed == {"dbg"}
Values == {0, 1}

handle_msr_Direct(c, enc, write, v) ==
    /\ IF write THEN sysreg' = [sysreg EXCEPT ![c] = v] /\ hw' = v /\ seen' = NoSeen
       ELSE seen' = [c |-> c, v |-> sysreg[c], is |-> TRUE] /\ UNCHANGED <<sysreg, hw>>
    /\ dbg' = IF write THEN [dbg EXCEPT ![c] = v] ELSE dbg

\* A shadowed register lives in the host, one per CPU; a read-only one swallows
\* writes; the rest pass through to the (redirected) register.
handle_msr(c, enc, write, v) ==
    IF enc \in Shadowed
    THEN /\ sysreg' = IF write THEN [sysreg EXCEPT ![c] = v] ELSE sysreg
         /\ dbg' = IF write THEN [dbg EXCEPT ![c] = v] ELSE dbg
         /\ seen' = IF write THEN NoSeen ELSE [c |-> c, v |-> sysreg[c], is |-> TRUE]
         /\ UNCHANGED hw
    ELSE seen' = NoSeen /\ UNCHANGED <<sysreg, dbg, hw>>

\* The trap: the access, the program counter past it, and on CPU 0 the look at
\* the vectors.
vectors_handle_sync(c, enc, write, v) ==
    /\ vectorsTraps < VectorsMaxTraps
    /\ Len(vectors) <= 2 * MaxPatches
    /\ vectorsTraps' = vectorsTraps + 1
    /\ handle_msr(c, enc, write, v)
    /\ IF c = 0 THEN patch_exception_handling
       ELSE UNCHANGED <<vbar, mem, vbar_el1, want_vbar, vectors, again, stale>>
    /\ last' = NoLast
    /\ UNCHANGED <<mmu, mapped, chosen, sets>>

VectorsNext ==
    \/ \E t \in Tables : SetVbar(t)
    \/ MmuOn \/ MapAll
    \/ \E i \in Vecs : GuestException(i)
    \/ \E c \in VectorsCpus, enc \in {"dbg", "acc"}, w \in BOOLEAN, v \in Values :
          /\ (~w \/ enc = "acc") => v = 0
          /\ vectors_handle_sync(c, enc, w, v)

VectorsSpec == VectorsInit /\ [][VectorsNext]_vectorsVars

-----------------------------------------------------------------------------
VectorsTypeOK ==
    /\ vbar \in Tables \cup {VectorsNone} /\ vbar_el1 \in Tables \cup {VectorsNone}
    /\ want_vbar \in Tables \cup {VectorsNone} /\ chosen \in Tables \cup {VectorsNone}
    /\ mapped \subseteq Tables /\ again \subseteq Tables
    /\ \A t \in Tables, i \in Vecs : mem[t][i] \in Other .. Len(vectors)
    /\ sysreg \in [VectorsCpus -> Values] /\ hw \in Values
    /\ mmu \in BOOLEAN /\ stale \in BOOLEAN

\* An exception the guest takes ends in the handler of the same vector in the
\* table the guest last chose, through the patched instruction or directly;
\* while a table is held back it ends in the one before.  Exempt is a table
\* chosen while another was held back, which the host overwrites by the older
\* choice (want_vbar).
ReachesHandler ==
    /\ last.own
    /\ (last.t # VectorsNone /\ ~last.held) => (last.t = chosen \/ stale)

\* An exception is dropped into the shell only where the guest's own vector was
\* no branch elsewhere, or the table was patched a second time, which turns the
\* host's own HVC instructions into unknown ones.
OnlyUnknownOpens ==
    (last.open /\ vbar \notin again) => Original[vbar][last.i] # Branch

\* A guest's writes to a debug register stay in the shadow of that CPU: it reads
\* its own last value back, and the register the host's breakpoints use does not
\* change (handle_msr).
ShadowPrivate == hw = 0 /\ (seen.is => seen.v = dbg[seen.c])

-----------------------------------------------------------------------------
(***************************************************************************)
(* How the hypervisor places a guest and starts it                         *)
(* (proxyclient/m1n1/hv/__init__.py: init, load_raw, unmap_carveouts,      *)
(* start).  The guest gets the RAM below m1n1 and the RAM above its heap,  *)
(* less the carveouts; the device tree, the trust cache, the image, SEPFW, *)
(* preoslog and the boot arguments are laid out one after the other above  *)
(* the heap, the device tree's memory map is pointed at the copies, and    *)
(* only then are the stage-2 tables written and the guest entered.         *)
(*                                                                         *)
(* Sizes are in half pages, so that a size may need rounding; places that  *)
(* the code does not round may straddle a page.                            *)
(***************************************************************************)

CONSTANTS RamTop,     \* one past the last half page of RAM
          MonBase,    \* ba.phys_base: where m1n1 is
          HeapTop     \* u.heap_top

VARIABLES sizes,    \* the sizes of this boot
          carve,    \* half pages of the carveouts
          startStep,     \* the next step of the bring-up
          place,    \* what was put where: half page -> part
          startMaps,     \* registered RAM tracers: name -> half pages
          adt,      \* the memory map of the guest's device tree
          blob,     \* size of the built device tree
          hooks,    \* MMIO zones hooked and the zones reserved for them
          usb,      \* iodevs still enabled
          startPt        \* half pages of RAM the guest can reach

startVars == <<sizes, carve, startStep, place, startMaps, adt, blob, hooks, usb, startPt>>

Half == 0 .. RamTop - 1
Parts == {"image", "sepfw", "preoslog", "bootargs", "tc", "devtree"}
align(n) == ((n + 1) \div 2) * 2
Gap == 2               \* the 16 MB kept free above the heap
BootArgsSize == 2
Span(b, n) == b .. b + n - 1

-----------------------------------------------------------------------------
(***************************************************************************)
(* load_raw's layout                                                       *)
(***************************************************************************)
Base == LET z == sizes IN HeapTop + Gap + align(z.devtree) + align(z.tc)

Layout_NoPreoslog ==
    LET z == sizes
        sep == align(z.image)
        pre == sep + align(z.sepfw)
    IN [devtree |-> <<HeapTop + Gap, align(z.devtree)>>,
        tc |-> <<HeapTop + Gap + align(z.devtree), z.tc>>,
        image |-> <<Base, z.image>>,
        sepfw |-> <<Base + sep, z.sepfw>>,
        preoslog |-> <<Base + pre, z.preoslog>>,
        bootargs |-> <<Base + pre, BootArgsSize>>]

Layout ==
    LET z == sizes
        sep == align(z.image)
        pre == sep + align(z.sepfw)
        args == pre + z.preoslog
    IN [devtree |-> <<HeapTop + Gap, align(z.devtree)>>,
        tc |-> <<HeapTop + Gap + align(z.devtree), z.tc>>,
        image |-> <<Base, z.image>>,
        sepfw |-> <<Base + sep, z.sepfw>>,
        preoslog |-> <<Base + pre, z.preoslog>>,
        bootargs |-> <<Base + args, BootArgsSize>>]

top_of_kernel_data == Layout.bootargs[1] + BootArgsSize

-----------------------------------------------------------------------------
(***************************************************************************)
(* The steps                                                               *)
(***************************************************************************)
Order == <<"init", "ram", "carveouts", "image", "sepfw", "tc", "preoslog", "adjust", "bootargs",
           "iodevs", "essential", "tables", "devtree", "jump", "guest">>

At(s) == Order[startStep] = s
Go == startStep' = startStep + 1

Boots == {z \in [devtree : {1, 2}, tc : {1, 2}, image : {1, 3}, sepfw : {1, 2}, preoslog : {0, 1}] :
            z.devtree + z.tc >= 2}
Carveouts == {{}, {0, 1}, {RamTop - 2, RamTop - 1}}
NoSizes == [devtree |-> 1, tc |-> 1, image |-> 1, sepfw |-> 1, preoslog |-> 0]

StartInit ==
    /\ sizes = NoSizes /\ carve = {}
    /\ startStep = 1
    /\ place = [h \in Half |-> "free"]
    /\ startMaps = [low |-> {}, high |-> {}]
    /\ adt = [p \in Parts |-> <<0, 0>>]
    /\ blob = 0
    /\ hooks = [hooked |-> {}, reserved |-> {}]
    /\ usb = {"uart", "usb0", "usb1"}
    /\ startPt = {}

\* setup_adt renames the product and drops the nodes of our own port: the tree
\* may come out larger or smaller.
setup_adt == \E grow \in {-1, 0, 1} : blob' = Max({1, sizes'.devtree + grow})

\* init: the USB devices other than the one in use go first, then the handlers,
\* the MMIO range and the virtual UART.
init ==
    /\ At("init") /\ Go
    /\ \E z \in Boots, c \in Carveouts : sizes' = z /\ carve' = c
    /\ setup_adt
    /\ usb' = usb \ {"usb1"}
    /\ hooks' = [hooked |-> {"vuart"}, reserved |-> {"vuart"}]
    /\ UNCHANGED <<place, startMaps, adt, startPt>>

\* A script run before the guest may add a device node to the tree.
attach_virtio ==
    /\ startStep \in 2 .. 9
    /\ "virtio" \notin hooks.hooked
    /\ hooks' = [hooked |-> hooks.hooked \cup {"virtio"}, reserved |-> hooks.reserved \cup {"virtio"}]
    /\ blob' = blob + 1
    /\ UNCHANGED <<sizes, carve, startStep, place, startMaps, adt, usb, startPt>>

MapRam ==
    /\ At("ram") /\ Go
    /\ startMaps' = [low |-> 0 .. MonBase - 1, high |-> HeapTop .. RamTop - 1]
    /\ UNCHANGED <<sizes, carve, place, adt, blob, hooks, usb, startPt>>

unmap_carveouts_High ==
    /\ At("carveouts") /\ Go
    /\ startMaps' = [startMaps EXCEPT !.high = @ \ carve]
    /\ UNCHANGED <<sizes, carve, place, adt, blob, hooks, usb, startPt>>

unmap_carveouts ==
    /\ At("carveouts") /\ Go
    /\ startMaps' = [low |-> startMaps.low \ carve, high |-> startMaps.high \ carve]
    /\ UNCHANGED <<sizes, carve, place, adt, blob, hooks, usb, startPt>>

Put(p) == place' = [h \in Half |-> IF h \in Span(Layout[p][1], Layout[p][2]) THEN p ELSE place[h]]

Copy(p) ==
    /\ At(p) /\ Go
    /\ Put(p)
    /\ UNCHANGED <<sizes, carve, startMaps, adt, blob, hooks, usb, startPt>>

\* The memory map of the device tree is pointed at the copies.
AdjustAdt == [p \in Parts |-> IF p = "image" THEN <<Base, 0>> ELSE Layout[p]]

Adjust ==
    /\ At("adjust") /\ Go
    /\ adt' = AdjustAdt
    /\ UNCHANGED <<sizes, carve, place, startMaps, blob, hooks, usb, startPt>>

Iodevs ==
    /\ At("iodevs") /\ Go
    /\ usb' = {"usb0"}
    /\ UNCHANGED <<sizes, carve, place, startMaps, adt, blob, hooks, startPt>>

\* map_essential: each hook it sets is reserved in the tracer map as well.
map_essential ==
    /\ At("essential") /\ Go
    /\ hooks' = [hooked |-> hooks.hooked \cup {"pmgr", "cpustart", "rvbar"},
                 reserved |-> hooks.reserved \cup {"pmgr", "cpustart", "rvbar"}]
    /\ UNCHANGED <<sizes, carve, place, startMaps, adt, blob, usb, startPt>>

start_pt_update ==
    /\ At("tables") /\ Go
    /\ startPt' = startMaps.low \cup startMaps.high
    /\ UNCHANGED <<sizes, carve, place, startMaps, adt, blob, hooks, usb>>

UploadFits_Any == TRUE
UploadFits == blob <= align(sizes.devtree)

\* The built tree must fit the space of the original one, or start stops.
UploadAdt ==
    /\ At("devtree")
    /\ IF UploadFits
       THEN /\ Go
            /\ place' = [h \in Half |-> IF h \in Span(Layout.devtree[1], blob) THEN "devtree" ELSE place[h]]
       ELSE startStep' = 0 /\ UNCHANGED place
    /\ UNCHANGED <<sizes, carve, startMaps, adt, blob, hooks, usb, startPt>>

Jump ==
    /\ At("jump") /\ Go
    /\ UNCHANGED <<sizes, carve, place, startMaps, adt, blob, hooks, usb, startPt>>

start == Iodevs \/ map_essential \/ start_pt_update \/ UploadAdt \/ Jump
load_raw == MapRam \/ unmap_carveouts \/ (\E p \in Parts \ {"devtree"} : Copy(p)) \/ Adjust

StartNext == startStep > 0 /\ startStep < Len(Order) /\ (init \/ attach_virtio \/ load_raw \/ start)

StartSpec == StartInit /\ [][StartNext]_startVars

-----------------------------------------------------------------------------
StartTypeOK ==
    /\ startStep \in 0 .. Len(Order)
    /\ \A h \in Half : place[h] \in Parts \cup {"free"}
    /\ startMaps.low \subseteq Half /\ startMaps.high \subseteq Half /\ startPt \subseteq Half
    /\ usb \subseteq {"uart", "usb0", "usb1"}

Guest == startStep = Len(Order)

\* When the guest is entered, every part it was given is whole where the device
\* tree says it is: no later copy, and no larger device tree, has run over it
\* (load_raw, start).
PartsWhole ==
    Guest => \A p \in Parts \ {"image"} :
                 \A h \in Span(adt[p][1], IF p = "devtree" THEN blob ELSE adt[p][2]) : place[h] = p

\* The guest reaches everything it was given, below top_of_kernel_data and outside
\* the carveouts, and never m1n1's own memory or a carveout (RAM-LOW, RAM-HIGH).
GuestRam ==
    Guest => /\ startPt \cap (carve \cup MonBase .. HeapTop - 1) = {}
             /\ \A h \in Half : place[h] # "free" => (h \in startPt /\ h < top_of_kernel_data)
=============================================================================
