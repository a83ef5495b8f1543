--------------------------------- MODULE AgxClient ---------------------------------
(***************************************************************************)
(* The client's driver for the AGX GPU (proxyclient/m1n1/agx): rendering,  *)
(* the structures of a frame, initialisation data, objects shared with the *)
(* firmware, and the channels.  Each section is a machine of its own.      *)
(***************************************************************************)
EXTENDS Integers, Sequences, FiniteSets

-----------------------------------------------------------------------------
(***************************************************************************)
(* Rendering with the GPU firmware (proxyclient/m1n1/agx/render.py, with   *)
(* the work queues, micro sequences and buffer manager of agx/context.py). *)
(* A frame is two commands, for the tiler and for the fragment stage, on   *)
(* two queues the firmware works through on its own; the fragment command  *)
(* follows a barrier on the tiler's stamp.  Everything a frame allocates   *)
(* is kept on a list and freed once the last frame's stamps are reached.   *)
(*                                                                         *)
(* Firmware: the head of each queue, any time after the queue was run; a   *)
(* command reads what it names while it runs, then writes its stamps and   *)
(* fires its event.                                                        *)
(***************************************************************************)

CONSTANTS MaxFrames, RbSize,   \* frames submitted; slots of a queue's ring
          Registers            \* the firmware takes register lists (G14X)

VARIABLES pc, frame, opt, work, held, mapped, ring, wptr, done, known, cur, stamp, count, seen,
          bm, bmReady, broken, over, ask

renderVars == <<pc, frame, opt, work, held, mapped, ring, wptr, done, known, cur, stamp, count, seen, bm, bmReady, broken, over, ask>>

None == "none"
Empty == [k |-> None]
Q == {"3d", "ta"}
NoAsk == [kind |-> None]
Fresh == ask = NoAsk /\ pc = "idle" /\ frame = 0

RenderInit ==
    /\ pc = "idle" /\ frame = 0 /\ opt = {} /\ work = {} /\ held = {} /\ mapped = {}
    /\ ring = [q \in Q |-> [i \in 0 .. RbSize - 1 |-> Empty]] /\ wptr = [q \in Q |-> 0] /\ done = [q \in Q |-> 0]
    /\ known = {} /\ cur = [q \in Q |-> Empty] /\ stamp = [q \in Q |-> 0] /\ count = 0 /\ seen = 0
    /\ bm = FALSE /\ bmReady = FALSE /\ broken = {} /\ over = FALSE /\ ask = NoAsk

-----------------------------------------------------------------------------
(* What a frame allocates, in the order submit does. *)
Base == {"timestamps", "aux_fb", "deflake", "unk_buf"}
Tvb_Leaks(o) == {"tilemap", "heapmeta", "tile_bufs", "bufthing", "buf_desc"} \cup (o \cap {"depth_aux"})
Tvb(o) == {"tilemap", "heapmeta", "tile_bufs", "bufthing", "buf_desc"} \cup (o \cap {"depth_aux", "stencil_aux"})

\* What the fragment command names: its own fields, then the structures or
\* the register list, then the third structure and those after it.
Named3d == {"buf_desc", "tilemap", "timestamps"}
Structs3d(o) == {"tilemap", "heapmeta", "aux_fb"} \cup (o \cap {"depth_aux", "stencil_aux"})
Regs3d(o) == {"heapmeta", "tilemap", "aux_fb"} \cup (o \cap {"depth_aux", "stencil_aux"})
Struct3(o) == o \cap {"depth_aux", "stencil_aux"}
Struct6 == {"unk_buf"}
Micro3d == {"buf_desc", "wc_3d", "timestamps", "ms_3d"}
Refs3d(o) == Named3d \cup (IF Registers THEN Regs3d(o) ELSE Structs3d(o)) \cup Struct3(o) \cup Struct6 \cup Micro3d

NamedTa == {"buf_desc", "timestamps"}
StructsTa == {"tilemap", "tile_bufs", "heapmeta", "deflake"}
RegsTa == {"tilemap", "tile_bufs", "heapmeta", "deflake"}
Struct3Ta == {"deflake", "unk_buf"}
MicroTa == {"buf_desc", "wc_ta", "timestamps", "ms_ta"}
RefsTa == NamedTa \cup (IF Registers THEN RegsTa ELSE StructsTa) \cup Struct3Ta \cup MicroTa

-----------------------------------------------------------------------------
New(os) == held' = held \cup {<<frame', o>> : o \in os} /\ work' = work \cup {<<frame', o>> : o \in os}

Queue_Unflushed(q, c) ==
    /\ ring' = [ring EXCEPT ![q][wptr[q]] = c] /\ wptr' = [wptr EXCEPT ![q] = (@ + 1) % RbSize]
    /\ mapped' = mapped /\ over' = (over \/ (wptr[q] + 1) % RbSize = done[q])

\* GPUWorkQueue.submit: slot, write pointer, tables, then the pointer the
\* firmware sees.  There is no look at how far the firmware has come.
Queue(q, c) ==
    /\ ring' = [ring EXCEPT ![q][wptr[q]] = c] /\ wptr' = [wptr EXCEPT ![q] = (@ + 1) % RbSize]
    /\ mapped' = held' /\ over' = (over \/ (wptr[q] + 1) % RbSize = done[q])

Host == UNCHANGED <<done, known, cur, stamp, count, bmReady, ask>>

\* submit, to the end of its first allocations; the events are armed again
\* and both stamps move on.
Begin == \E o \in {{}, {"depth_aux"}, {"stencil_aux", "wait_for"}} :
    /\ ask = NoAsk /\ ~over /\ pc = "idle" /\ frame < MaxFrames /\ frame' = frame + 1 /\ opt' = o /\ pc' = "tvb"
    /\ New(Base) /\ UNCHANGED <<mapped, ring, wptr, seen, bm, broken, over>> /\ Host

\* TVB, tiler and auxiliary buffers.
AllocTvb ==
    /\ pc = "tvb" /\ pc' = "barrier" /\ UNCHANGED frame /\ New(Tvb(opt))
    /\ UNCHANGED <<opt, mapped, ring, wptr, seen, bm, broken, over>> /\ Host

Barrier3d_Older ==
    /\ pc = "barrier" /\ pc' = "3d" /\ UNCHANGED frame /\ New({"bar_3d"}) /\ Queue("3d", [k |-> "barrier", f |-> frame, on |-> "ta", v |-> frame - 1])
    /\ UNCHANGED <<opt, seen, bm, broken>> /\ Host
Barrier3d ==
    /\ pc = "barrier" /\ pc' = "3d" /\ UNCHANGED frame /\ New({"bar_3d"}) /\ Queue("3d", [k |-> "barrier", f |-> frame, on |-> "ta", v |-> frame])
    /\ UNCHANGED <<opt, seen, bm, broken>> /\ Host

Command3d ==
    /\ pc = "3d" /\ pc' = IF "wait_for" \in opt THEN "wait_for" ELSE "init_bm"
    /\ UNCHANGED frame /\ New({"wc_3d", "ms_3d"}) /\ Queue("3d", [k |-> "cmd", f |-> frame, refs |-> Refs3d(opt)])
    /\ UNCHANGED <<opt, seen, bm, broken>> /\ Host

BarrierTa ==
    /\ pc = "wait_for" /\ pc' = "init_bm" /\ UNCHANGED frame /\ New({"bar_ta"}) /\ Queue("ta", [k |-> "barrier", f |-> frame, on |-> "3d", v |-> frame - 1])
    /\ UNCHANGED <<opt, seen, bm, broken>> /\ Host

InitBm_Late == pc = "init_bm" /\ pc' = "ta" /\ bm' = TRUE /\ UNCHANGED <<frame, opt, work, held, mapped, ring, wptr, seen, broken, over>> /\ Host
InitBm ==
    /\ pc = "init_bm" /\ pc' = "ta" /\ UNCHANGED frame
    /\ IF bm THEN UNCHANGED <<held, work, mapped, ring, wptr, over>> ELSE New({"initbm"}) /\ Queue("ta", [k |-> "initbm", f |-> frame])
    /\ bm' = TRUE /\ UNCHANGED <<opt, seen, broken>> /\ Host

CommandTa ==
    /\ pc = "ta" /\ pc' = "idle" /\ UNCHANGED frame /\ New({"wc_ta", "ms_ta"}) /\ Queue("ta", [k |-> "cmd", f |-> frame, refs |-> RefsTa])
    /\ UNCHANGED <<opt, seen, bm, broken>> /\ Host

\* The link or an allocation fails inside submit: what was queued stays.
Breaks ==
    /\ pc \in {"tvb", "barrier", "3d", "wait_for", "init_bm", "ta"} /\ broken = {} /\ pc' = "idle" /\ broken' = {frame}
    /\ UNCHANGED <<frame, opt, work, held, mapped, ring, wptr, seen, bm, over>> /\ Host

\* run: a message on each queue's channel.
run ==
    /\ pc = "idle" /\ frame > 0 /\ known # Q /\ known' = Q /\ ~over
    /\ UNCHANGED <<pc, frame, opt, work, held, mapped, ring, wptr, done, cur, stamp, count, seen, bm, bmReady, broken, over, ask>>

free_Last == held' = {h \in held : h \notin work \/ h[1] # frame} /\ work' = {}
free == held' = held \ work /\ work' = {}

\* wait: both stamps against the newest values; if short of them, wait for
\* one more event to be counted.
StampsReached_One == stamp["ta"] >= frame
StampsReached == stamp["3d"] >= frame /\ stamp["ta"] >= frame
wait ==
    /\ pc \in {"idle", "woken"} /\ work # {} /\ known = Q /\ ~over
    /\ IF StampsReached THEN pc' = "idle" /\ free /\ UNCHANGED seen
       ELSE pc' = "waiting" /\ seen' = count /\ UNCHANGED <<work, held>>
    /\ UNCHANGED <<frame, opt, mapped, ring, wptr, bm, broken, over>> /\ Host

wait_for_events ==
    /\ pc = "waiting" /\ count # seen /\ pc' = "woken"
    /\ UNCHANGED <<frame, opt, work, held, mapped, ring, wptr, seen, bm, broken, over>> /\ Host

TimedOut ==
    /\ pc = "waiting" /\ count = seen /\ pc' = "idle" /\ frame < MaxFrames
    /\ UNCHANGED <<frame, opt, work, held, mapped, ring, wptr, seen, bm, broken, over>> /\ Host

-----------------------------------------------------------------------------
(* The firmware. *)
FwTakes == \E q \in known :
    LET c == ring[q][done[q]]
    IN /\ ~over /\ cur[q].k = None /\ done[q] # wptr[q]
       /\ IF c.k = "barrier" THEN stamp[c.on] >= c.v /\ done' = [done EXCEPT ![q] = (@ + 1) % RbSize] /\ UNCHANGED <<cur, bmReady>>
          ELSE IF c.k = "initbm" THEN bmReady' = TRUE /\ done' = [done EXCEPT ![q] = (@ + 1) % RbSize] /\ UNCHANGED cur
          ELSE cur' = [cur EXCEPT ![q] = c] /\ UNCHANGED <<done, bmReady>>
       /\ UNCHANGED <<pc, frame, opt, work, held, mapped, ring, wptr, known, stamp, count, seen, bm, broken, over, ask>>

FwEnds == \E q \in Q :
    /\ cur[q].k # None /\ stamp' = [stamp EXCEPT ![q] = cur[q].f] /\ count' = count + 1
    /\ cur' = [cur EXCEPT ![q] = Empty] /\ done' = [done EXCEPT ![q] = (@ + 1) % RbSize]
    /\ UNCHANGED <<pc, frame, opt, work, held, mapped, ring, wptr, known, seen, bm, bmReady, broken, over, ask>>

-----------------------------------------------------------------------------
(* Sizes of a frame, and of a micro sequence. *)
CeilDiv(a, b) == (a + b - 1) \div b
Tiling_NoAlign(w, h) ==
    LET tx == CeilDiv(w, 32)
        ty == CeilDiv(h, 32)
        mx == tx \div 4
        my == ty \div 4
        size1 == CeilDiv(5 * mx * my, 4)
    IN [tx |-> tx, ty |-> ty, mx |-> mx, my |-> my, map |-> 4 * size1 * 16, tpc |-> 8 * 16 * mx * my * 8]
Tiling(w, h) ==
    LET tx == CeilDiv(w, 32)
        ty == CeilDiv(h, 32)
        mx == 4 * CeilDiv(CeilDiv(tx, 4), 4)
        my == 4 * CeilDiv(CeilDiv(ty, 4), 4)
        size1 == CeilDiv(5 * mx * my, 4)
    IN [tx |-> tx, ty |-> ty, mx |-> mx, my |-> my, map |-> 4 * size1 * 16, tpc |-> 8 * 16 * mx * my * 8]

AskTiling == \E w \in {1, 31, 32, 33, 511, 512, 513, 1920, 16384}, h \in {1, 32, 65, 1080, 16384} :
    ask' = [kind |-> "tiling", w |-> w, h |-> h, t |-> Tiling(w, h)]

\* GPUMicroSequence.append gives the offset an operation begins at; the last
\* operation branches back by the distance to the first one's offset.
Total(s) == LET S[i \in 0 .. Len(s)] == IF i = 0 THEN 0 ELSE S[i - 1] + s[i] IN S[Len(s)]
append(ops, n) == [ops |-> Append(ops, n), off |-> Total(ops)]
Micro_AfterFinish(hook, start, ts, wt, fin) ==
    LET a == append(hook, start)
        b == append(append(append(a.ops, ts).ops, wt).ops, ts)
        f == append(b.ops, fin)
    IN [start |-> a.off, finish |-> f.off, branch |-> a.off - Total(f.ops), ops |-> Append(f.ops, 4)]

Micro(hook, start, ts, wt, fin) ==
    LET a == append(hook, start)
        b == append(append(append(a.ops, ts).ops, wt).ops, ts)
        f == append(b.ops, fin)
    IN [start |-> a.off, finish |-> f.off, branch |-> a.off - Total(b.ops), ops |-> Append(f.ops, 4)]

AskMicro == \E hook \in {<<>>, <<8>>, <<8, 16>>}, start \in {100, 416}, ts \in {32, 52} :
    ask' = [kind |-> "micro", m |-> Micro(hook, start, ts, 4, 160)]

AskStep == Fresh /\ (AskTiling \/ AskMicro)
           /\ UNCHANGED <<pc, frame, opt, work, held, mapped, ring, wptr, done, known, cur, stamp, count, seen, bm, bmReady, broken, over>>

RenderNext ==
    \/ Begin \/ AllocTvb \/ Barrier3d \/ Command3d \/ BarrierTa \/ InitBm \/ CommandTa \/ Breaks
    \/ run \/ wait \/ wait_for_events \/ TimedOut \/ FwTakes \/ FwEnds \/ AskStep

RenderSpec == RenderInit /\ [][RenderNext]_renderVars

-----------------------------------------------------------------------------
RenderTypeOK ==
    /\ frame \in 0 .. MaxFrames /\ work \subseteq held /\ mapped \subseteq (1 .. MaxFrames) \X STRING
    /\ \A q \in Q : wptr[q] \in 0 .. RbSize - 1 /\ done[q] \in 0 .. RbSize - 1

\* A command running in the GPU finds everything it names allocated, and
\* mapped in the tables the GPU sees, until it ends.
RunsOnHeld ==
    ~over => \A q \in Q : cur[q].k # None => \A o \in cur[q].refs : <<cur[q].f, o>> \in held \cap mapped

\* The fragment command of a frame runs only after its tiler command has
\* ended, also when submit broke off between the two.
TilerFirst == ~over /\ cur["3d"].k # None => stamp["ta"] >= cur["3d"].f

\* No tiler command runs before the buffer manager has been set up.
ManagerReady == ~over /\ cur["ta"].k # None => bmReady

\* Once wait has returned nothing of any frame is left allocated, except for
\* what a broken submission had not put on its list yet.
NothingLeaked == work = {} => \A h \in held : h[1] \in broken

\* The macro tiles cover the picture, their fields fit nine bits, and the
\* tile map has room for five bytes a tile.
TilesCovered ==
    ask.kind = "tiling" =>
        /\ 4 * ask.t.mx >= ask.t.tx /\ 4 * ask.t.my >= ask.t.ty /\ 3 * ask.t.mx < 512 /\ 3 * ask.t.my < 512
        /\ ask.t.map >= 5 * ask.t.tx * ask.t.ty /\ 32 * ask.t.tx >= ask.w /\ 32 * ask.t.ty >= ask.h

\* Restarting a command branches from its last operation to its first one,
\* whatever a hook put before it.
BranchesToStart == ask.kind = "micro" => ask.m.finish + ask.m.branch = ask.m.start

-----------------------------------------------------------------------------
(***************************************************************************)
(* What one frame puts in front of the AGX firmware: submit fills a buffer   *)
(* descriptor, the two work commands and their microsequences, and queues    *)
(* each command as soon as it is built.  A structure is modelled by the      *)
(* fields that depend on the version or the generation and by the arrays,    *)
(* whose lengths must agree; fields declared and given alike are left out.   *)
(***************************************************************************)

CONSTANTS Hooks,     \* the commands mshook_ta may put in front of a microsequence
          Traced     \* the microsequences a tracer may meet

VARIABLES gen, ver,  \* the GPU's generation and the firmware version
          hook,      \* the hook's commands
          waits,     \* submit is given a frame to wait for
          first,     \* the buffer manager is not initialised when submit begins
          ready,     \* buffer_mgr_initialized
          framesPc,        \* "new", "submit", "done", "failed" or "traced"
          k,         \* the next step of submit
          given,     \* the fields each object has, with their lengths
          framesKnown,     \* the embedded structures whose address has been set
          rings,     \* what each work queue's ring names
          lacking,   \* the fields the failing build did not find
          shown      \* what a microsequence was parsed as

framesVars == <<gen, ver, hook, waits, first, ready, framesPc, k, given, framesKnown, rings, lacking, shown>>

G13 == 0
G14 == 1
G14X == 2
V13_0B4 == 3
V13_2 == 6
V13_3 == 7
When(cond, fields) == IF cond THEN fields ELSE {}
Of(names) == {<<n, 1>> : n \in names}
If(cond, n) == IF cond THEN n ELSE 0

-----------------------------------------------------------------------------
(* The commands of a microsequence: the low six bits and the top four bits   *)
(* of their first word, their size and the fields a build asks for.          *)

Cmd(code, size, needs) == [code |-> code, top |-> 0, size |-> size, needs |-> needs]
Start3DCmd(g, v) == Cmd(36, 404 + If(g >= G14X, 8) + If(v >= V13_3, 8) + If(v >= V13_0B4, 16),
    {<<"attachments", 16>>} \cup Of({"struct1_addr", "struct2_addr", "busy_flag_ptr", "struct6_addr", "struct7_addr", "unk_buf2_ptr"}) \cup
    When(g >= G14X, Of({"registers_addr"})) \cup When(v >= V13_3, Of({"unk_7c_0"})) \cup When(v >= V13_0B4, Of({"counter", "unkptr_19c"})))
Finalize3DCmd(g, v) == Cmd(37, 156 + If(v >= V13_3, 8) + If(g = G14 /\ v < V13_0B4, 8) + If(v >= V13_0B4, 16),
    When(v >= V13_3, Of({"unk_6c_0"})) \cup When(g = G14 /\ v < V13_0B4, Of({"unk_8c_g14"})) \cup When(v >= V13_0B4, {<<"unk_9c", 16>>}))
StartTACmd(g, v) == Cmd(34, 380 + If(g >= G14X, 8) + If(v >= V13_0B4, 16),
    {<<"unk_74", 29>>} \cup Of({"tiling_params_addr", "struct2_addr", "struct3_addr", "unkptr_5c"}) \cup When(g >= G14X, Of({"registers_addr"})) \cup
    When(v >= V13_0B4, Of({"counter", "unkptr_180"})))
FinalizeTACmd(g, v) == Cmd(35, 116 + If(g = G14 /\ v < V13_0B4, 8) + If(v >= V13_0B4, 16),
    Of({"struct3_addr"}) \cup When(g = G14 /\ v < V13_0B4, Of({"unk_6c_g14"})) \cup When(v >= V13_0B4, {<<"unk_74", 16>>}))
StartComputeCmd(g, v) == Cmd(41, 340 + If(g >= G14X, 8) + If(v >= V13_0B4, 24), {})
FinalizeComputeCmd(g, v) == Cmd(42, 100 + If(g = G14 /\ v < V13_0B4, 8) + If(v >= V13_0B4, 24), {})
StartBlitCmd(v) == Cmd(38, 356 + If(v >= V13_0B4, 16), {})
FinalizeBlitCmd(v) == Cmd(39, 100 - If(v >= V13_3, 4) + If(v >= V13_0B4, 148), {})
TimestampCmd(v) == Cmd(25, 52 + If(v >= V13_0B4, 8), Of({"ts0_addr", "ts_pointers_addr", "user_ts_pointers_addr"}) \cup When(v >= V13_0B4, Of({"unk_ts_addr"})))
WaitCmds == [WaitForInterruptCmd |-> Cmd(1, 4, {}), Wait2Cmd |-> Cmd(2, 4, {}), DoorbellCmd |-> Cmd(3, 4, {})]
MemoryCmds == [Write32Cmd |-> [Cmd(14, 16, {}) EXCEPT !.top = 2], Store32Cmd |-> Cmd(14, 12, {}), Store64Cmd |-> Cmd(15, 12, {}),
               Write64Cmd |-> [Cmd(15, 20, {}) EXCEPT !.top = 2], Read32Cmd |-> Cmd(16, 12, {}), Read64Cmd |-> Cmd(17, 12, {})]
OtherCmds == [ALUCmd |-> Cmd(22, 12, {}), Add16Cmd |-> Cmd(23, 4, {}), ProfileCaptureCmd |-> Cmd(31, 20, {}),
              EndCmd |-> Cmd(24, 4, {}), CompleteCmd |-> Cmd(43, 44, {}), AbortCmd |-> Cmd(44, 60, {})]
Command(c) == CASE c = "Start3DCmd" -> Start3DCmd(gen, ver)
                [] c = "Finalize3DCmd" -> Finalize3DCmd(gen, ver)
                [] c = "StartTACmd" -> StartTACmd(gen, ver)
                [] c = "FinalizeTACmd" -> FinalizeTACmd(gen, ver)
                [] c = "StartComputeCmd" -> StartComputeCmd(gen, ver)
                [] c = "FinalizeComputeCmd" -> FinalizeComputeCmd(gen, ver)
                [] c = "StartBlitCmd" -> StartBlitCmd(ver)
                [] c = "FinalizeBlitCmd" -> FinalizeBlitCmd(ver)
                [] c = "TimestampCmd" -> TimestampCmd(ver)
                [] c \in DOMAIN WaitCmds -> WaitCmds[c]
                [] c \in DOMAIN MemoryCmds -> MemoryCmds[c]
                [] c \in DOMAIN OtherCmds -> OtherCmds[c]

(* MicroSequence: the parser's switch on the first word, and where it stops. *)
Switch_ByCode(code, top) ==
    CASE code \in {14, 15} -> IF code = 14 THEN "Write32Cmd" ELSE "Write64Cmd"
      [] code = 1 -> "WaitForInterruptCmd" [] code = 2 -> "Wait2Cmd" [] code = 3 -> "DoorbellCmd" [] code = 16 -> "Read32Cmd" [] code = 17 -> "Read64Cmd"
      [] code = 22 -> "ALUCmd" [] code = 23 -> "Add16Cmd" [] code = 24 -> "EndCmd" [] code = 25 -> "TimestampCmd" [] code = 31 -> "ProfileCaptureCmd"
      [] code = 34 -> "StartTACmd" [] code = 35 -> "FinalizeTACmd" [] code = 38 -> "StartBlitCmd" [] code = 39 -> "FinalizeBlitCmd"
      [] code = 41 -> "StartComputeCmd" [] code = 42 -> "FinalizeComputeCmd" [] code = 43 -> "CompleteCmd" [] code = 44 -> "AbortCmd"
Switch(code, top) ==
    CASE code = 1 -> "WaitForInterruptCmd" [] code = 2 -> "Wait2Cmd" [] code = 3 -> "DoorbellCmd"
      [] code = 14 -> IF top = 0 THEN "Store32Cmd" ELSE "Write32Cmd"
      [] code = 15 -> IF top = 0 THEN "Store64Cmd" ELSE "Write64Cmd"
      [] code = 16 -> "Read32Cmd" [] code = 17 -> "Read64Cmd" [] code = 22 -> "ALUCmd" [] code = 23 -> "Add16Cmd" [] code = 24 -> "EndCmd"
      [] code = 25 -> "TimestampCmd" [] code = 31 -> "ProfileCaptureCmd" [] code = 34 -> "StartTACmd" [] code = 35 -> "FinalizeTACmd"
      [] code = 36 -> "Start3DCmd" [] code = 37 -> "Finalize3DCmd" [] code = 38 -> "StartBlitCmd" [] code = 39 -> "FinalizeBlitCmd"
      [] code = 41 -> "StartComputeCmd" [] code = 42 -> "FinalizeComputeCmd" [] code = 43 -> "CompleteCmd" [] code = 44 -> "AbortCmd"
Stops(code) == code \in {24, 43, 44}

\* append's offsets: where each command of a sequence begins, and where the sequence ends.
Offsets(cmds) == LET o[i \in 1 .. Len(cmds) + 1] == IF i = 1 THEN 0 ELSE o[i - 1] + Command(cmds[i - 1]).size IN o
\* The parser reads the word at an offset, takes the command it names and goes on behind it.
Parse(cmds) ==
    LET o == Offsets(cmds)
        At(off) == CHOOSE i \in 1 .. Len(cmds) : o[i] = off
        Word(off) == Command(cmds[At(off)])
        Begins(off) == \E i \in 1 .. Len(cmds) : o[i] = off
        Class(off) == Switch(Word(off).code, Word(off).top)
        walk[n \in 0 .. Len(cmds)] ==
            IF n = 0 THEN [off |-> 0, out |-> <<>>, end |-> FALSE]
            ELSE LET w == walk[n - 1] IN
                 IF w.end \/ ~Begins(w.off) THEN w
                 ELSE [off |-> w.off + Command(Class(w.off)).size, out |-> Append(w.out, <<w.off, Class(w.off)>>), end |-> Stops(Word(w.off).code)]
    IN walk[Len(cmds)].out

-----------------------------------------------------------------------------
(* The structures of a frame: what their declarations ask for ...            *)

BufferManagerInfo(g, v) == {<<"unk_90", 48>>} \cup When(v < V13_0B4 \/ g >= G14X, Of({"unk_1c"}))
EventControl(g, v) == {<<"pstamp_ta", 4>>, <<"pstamp_3d", 4>>, <<"pstamp_cp", 4>>} \cup
    When(g >= G14 /\ v < V13_0B4, {<<"unk_98_g14_0", 20>>}) \cup When(v >= V13_0B4, Of({"unk_buf"}))
CommandQueueInfo(g, v) == Of({"pointers_addr", "job_list_addr", "gpu_context_addr"}) \cup When(v >= V13_2 /\ g < G14X, Of({"unk_a0_0", "unk_b0"}))
BufferThing(g, v) == When(g >= G14X, Of({"unk0_addr", "unk0_addr2"})) \cup When(v >= V13_3, Of({"unk_28"})) \cup When(g < G14X, Of({"unk_30", "unk_38"}))
AuxFBInfo(v) == When(v >= V13_0B4, Of({"aux_fb.unk3"}))
Start3DStruct1 == {<<"struct_1.unk_44_padding", 156>>, <<"struct_1.helper_cfg", 1>>}
Start3DStruct2(g, v) == {<<"struct_2.unk_78", 4>>, <<"struct_2.unk_108", 6>>} \cup AuxFBInfo(v) \cup
    (IF g < G14 THEN {<<"struct_2.unk_168_padding", 472>>}
     ELSE {<<"struct_2.unk_198_padding", 424>>} \cup Of({"struct_2.unk_58_g14_0", "struct_2.unk_58_g14_8", "struct_2.unk_68_g14_0"}))
Start3DStruct3(v) == {<<"struct_3.unk_120", 37>>, <<"struct_3.unk_2f8", 2>>, <<"struct_3.unk_324_padding", 12>>, <<"struct_3.registers_addr", 1>>} \cup
    AuxFBInfo(v) \cup When(v >= V13_0B4, Of({"struct_3.unk_390_0"}))
Start3DStruct7(v) == When(v >= V13_3, Of({"struct_7.unk_0_0"}))
WorkCommand3D(g, v) == Of({"struct_3", "struct_6", "struct_7", "microsequence_ptr"}) \cup Start3DStruct3(v) \cup Start3DStruct7(v) \cup
    (IF g < G14X THEN Of({"struct_1", "struct_2"}) \cup Start3DStruct1 \cup Start3DStruct2(g, v) ELSE {<<"registers", 128>>}) \cup
    When(v >= V13_0B4, Of({"counter", "unk_ts", "unk_ts2"}))
TilingParameters == {<<"tiling_params.helper_cfg", 1>>}
StartTACmdStruct2(g) == {<<"struct_2.unk_b0", 6>>} \cup
    When(g < G14, Of({"struct_2.tvb_cluster_tilemaps", "struct_2.tvb_cluster_meta1", "struct_2.unk_60", "struct_2.core_mask", "struct_2.tvb_cluster_meta2",
                      "struct_2.tvb_cluster_meta3", "struct_2.tiling_control", "struct_2.tvb_cluster_meta4", "struct_2.unk_f0"}))
StartTACmdStruct3 == {<<"struct_3.unk_480", 6>>, <<"struct_3.unk_4c4_padding", 72>>, <<"struct_3.unk_550", 6>>}
WorkCommandTA(g, v) == Of({"struct_3", "registers_addr", "microsequence_ptr"}) \cup StartTACmdStruct3 \cup
    (IF g < G14X THEN {<<"unk_3e8", 96>>} \cup Of({"struct_2", "tiling_params"}) \cup StartTACmdStruct2(g) \cup TilingParameters ELSE {<<"registers", 128>>}) \cup
    When(v >= V13_0B4, Of({"counter", "unk_ts", "unk_ts2"}))
\* The barrier and InitBM have no field that varies.
WorkCommandBarrier == Of({"stamp_addr", "wait_value", "event", "stamp_self", "uuid"})
WorkCommandInitBM == Of({"context_id", "buffer_mgr_slot", "unk_c", "unk_10", "buffer_mgr_addr", "stamp_value"})
\* A command in a ring is told apart by its first word.
CmdBufWork(id) == CASE id = 0 -> "WorkCommandTA" [] id = 1 -> "WorkCommand3D" [] id = 4 -> "WorkCommandBarrier" [] id = 6 -> "WorkCommandInitBM"
Magic == [WorkCommandTA |-> 0, WorkCommand3D |-> 1, WorkCommandBarrier |-> 4, WorkCommandInitBM |-> 6]
Built == {"Start3DCmd", "Finalize3DCmd", "StartTACmd", "FinalizeTACmd", "TimestampCmd"}
Declared(o) == CASE o = "BufferManagerInfo" -> BufferManagerInfo(gen, ver)
                 [] o = "EventControl" -> EventControl(gen, ver)
                 [] o = "CommandQueueInfo" -> CommandQueueInfo(gen, ver)
                 [] o = "BufferThing" -> BufferThing(gen, ver)
                 [] o = "WorkCommand3D" -> WorkCommand3D(gen, ver)
                 [] o = "WorkCommandTA" -> WorkCommandTA(gen, ver)
                 [] o = "WorkCommandBarrier" -> WorkCommandBarrier
                 [] o = "WorkCommandInitBM" -> WorkCommandInitBM
                 [] o \in Built -> Command(o).needs

-----------------------------------------------------------------------------
(* ... and submit, as the steps it takes.  New gives a new object its fields, *)
(* Give adds to them, Addr is set_addr, Point hands on the address of an      *)
(* embedded structure, Push and Submit build, Finalize builds every command.  *)

Step(do, o, arg) == [do |-> do, obj |-> o, arg |-> arg]
FramesNew(o, fields) == Step("new", o, fields)
Give(o, fields) == Step("give", o, fields)
Addr(o) == Step("addr", o, {})
Point(o, wc, pairs) == Step("point", o, {<<p[1], <<wc, p[2]>>>> : p \in pairs})
Push(o) == Step("push", o, {})
Submit(q, o) == Step("submit", o, q)
Finalize(q, cmds) == Step("finalize", q, cmds)

\* The objects of a renderer, made before its first frame.
Renderer == <<FramesNew("BufferManagerInfo", {<<"unk_90", 48>>, <<"unk_1c", 1>>}), Push("BufferManagerInfo"),
    FramesNew("CommandQueueInfo", Of({"unk_a0_0", "unk_b0"})), Give("CommandQueueInfo", Of({"pointers_addr", "job_list_addr", "gpu_context_addr"})), Push("CommandQueueInfo"),
    FramesNew("EventControl", {<<"pstamp_ta", 4>>, <<"pstamp_3d", 4>>, <<"pstamp_cp", 4>>, <<"unk_98_g14_0", 20>>} \cup Of({"unk_buf"})), Push("EventControl")>>
Ventura == Of({"counter", "unk_ts", "unk_ts2"})
BufDesc == <<FramesNew("BufferThing", Of({"unk0_addr", "unk0_addr2", "unk_28", "unk_30", "unk_38"})), Push("BufferThing")>>
Barrier(q) == <<FramesNew("WorkCommandBarrier", Of({"stamp_addr", "wait_value", "event", "stamp_self", "uuid"})), Submit(q, "WorkCommandBarrier")>>
FramesNamed3d == FramesNew("WorkCommand3D", Ventura \cup Of({"busy_flag", "unk_758", "unk_buf2", "ts1", "ts_pointers", "user_ts_pointers"}))
AuxFb == Of({"aux_fb.unk3"})
FramesStructs3d == Give("WorkCommand3D", Of({"struct_1", "struct_2"}) \cup {<<"struct_1.unk_44_padding", 156>>, <<"struct_1.unk_40", 1>>} \cup AuxFb \cup
          {<<"struct_2.unk_78", 4>>, <<"struct_2.unk_108", 6>>, <<"struct_2.unk_168_padding", 472>>, <<"struct_2.unk_198_padding", 424>>} \cup
          Of({"struct_2.unk_58_g14_0", "struct_2.unk_58_g14_8", "struct_2.unk_68_g14_0"}))
FramesRegs3d == Give("WorkCommand3D", {<<"registers", 67 + (128 - 67)>>})
FramesStruct3(g) == <<IF g >= G14X THEN Point("WorkCommand3D", "WorkCommand3D", {<<"struct_3.registers_addr", "registers">>})
                                   ELSE Give("WorkCommand3D", Of({"struct_3.registers_addr"})),
          Give("WorkCommand3D", {<<"struct_3.unk_120", 37>>, <<"struct_3.unk_2f8", 2>>, <<"struct_3.unk_324_padding", 12>>} \cup AuxFb \cup Of({"struct_3", "struct_3.unk_390_0"}))>>
Struct6And7 == Give("WorkCommand3D", Of({"struct_6", "struct_7", "struct_7.unk_0_0"}))
Start3d(g) == <<FramesNew("Start3DCmd", {<<"attachments", 16>>} \cup Of({"unk_7c_0", "counter", "unkptr_19c"}) \cup
                          Of(IF g < G14X THEN {"registers_addr"} ELSE {"struct1_addr", "struct2_addr"})),
    Point("Start3DCmd", "WorkCommand3D", {<<"busy_flag_ptr", "busy_flag">>, <<"struct6_addr", "struct_6">>, <<"struct7_addr", "struct_7">>, <<"unk_buf2_ptr", "unk_buf2">>} \cup
          (IF g < G14X THEN {<<"struct1_addr", "struct_1">>, <<"struct2_addr", "struct_2">>} ELSE {<<"registers_addr", "registers">>}))>>
Stamps(v, wc) == <<FramesNew("TimestampCmd", {}), Point("TimestampCmd", wc, {<<"ts0_addr", "ts1">>, <<"ts_pointers_addr", "ts_pointers">>, <<"user_ts_pointers_addr", "user_ts_pointers">>} \cup
                               When(v >= V13_0B4, {<<"unk_ts_addr", "unk_ts">>}))>>
Wait(g) == IF g >= G14X THEN "Wait2Cmd" ELSE "WaitForInterruptCmd"
FramesMicro3d(g) == <<"Start3DCmd", "TimestampCmd", Wait(g), "TimestampCmd", "Finalize3DCmd", "EndCmd">>
Finish3d == FramesNew("Finalize3DCmd", {<<"unk_9c", 16>>} \cup Of({"unk_6c_0", "unk_8c_g14"}))
Frame3d_OneAddr(g, v) == BufDesc \o Barrier("3d") \o <<FramesNamed3d, IF g < G14X THEN FramesStructs3d ELSE FramesRegs3d>> \o FramesStruct3(g) \o
    <<Struct6And7, Addr("WorkCommand3D")>> \o Start3d(g) \o Stamps(v, "WorkCommand3D") \o
    <<Finish3d, Finalize("3d", FramesMicro3d(g)), Give("WorkCommand3D", Of({"microsequence_ptr"})), Submit("3d", "WorkCommand3D")>>
Frame3d(g, v) == BufDesc \o Barrier("3d") \o <<FramesNamed3d, IF g < G14X THEN FramesStructs3d ELSE FramesRegs3d, Addr("WorkCommand3D")>> \o FramesStruct3(g) \o
    <<Struct6And7, Addr("WorkCommand3D")>> \o Start3d(g) \o Stamps(v, "WorkCommand3D") \o
    <<Finish3d, Finalize("3d", FramesMicro3d(g)), Give("WorkCommand3D", Of({"microsequence_ptr"})), Submit("3d", "WorkCommand3D")>>

InitBM == <<FramesNew("WorkCommandInitBM", Of({"context_id", "buffer_mgr_slot", "unk_c", "unk_10", "buffer_mgr_addr", "stamp_value"})), Submit("ta", "WorkCommandInitBM"),
            Step("ready", "WorkCommandInitBM", {})>>
FramesNamedTa == FramesNew("WorkCommandTA", Ventura \cup {<<"unk_3e8", 100>>} \cup Of({"unk_594", "ts1", "ts_pointers", "user_ts_pointers"}))
FramesStructsTa == Give("WorkCommandTA", Of({"tiling_params", "struct_2", "registers_addr"}) \cup {<<"struct_2.unk_b0", 6>>} \cup
          Of({"struct_2.tvb_cluster_tilemaps", "struct_2.tvb_cluster_meta1", "struct_2.unk_60", "struct_2.core_mask", "struct_2.tvb_cluster_meta2",
              "struct_2.tvb_cluster_meta3", "struct_2.tiling_control", "struct_2.tvb_cluster_meta4", "struct_2.unk_f0"}))
FramesRegsTa == <<Give("WorkCommandTA", {<<"registers", 57 + (128 - 57)>>}), Addr("WorkCommandTA"), Point("WorkCommandTA", "WorkCommandTA", {<<"registers_addr", "registers">>})>>
FramesStruct3Ta == Give("WorkCommandTA", {<<"struct_3.unk_480", 6>>, <<"struct_3.unk_4c4_padding", 72>>, <<"struct_3.unk_550", 6>>} \cup Of({"struct_3"}))
StartTa(g) == <<FramesNew("StartTACmd", {<<"unk_74", 16 + 13>>} \cup Of({"counter", "unkptr_180"}) \cup
                          Of(IF g < G14X THEN {"registers_addr"} ELSE {"tiling_params_addr", "struct2_addr"})),
    Point("StartTACmd", "WorkCommandTA", {<<"struct3_addr", "struct_3">>, <<"unkptr_5c", "unk_594">>} \cup
          (IF g < G14X THEN {<<"tiling_params_addr", "tiling_params">>, <<"struct2_addr", "struct_2">>} ELSE {<<"registers_addr", "registers">>}))>>
FinishTa == <<FramesNew("FinalizeTACmd", {<<"unk_74", 16>>} \cup Of({"unk_6c_g14"})), Point("FinalizeTACmd", "WorkCommandTA", {<<"struct3_addr", "struct_3">>})>>
FramesMicroTa(g, h) == h \o <<"StartTACmd", "TimestampCmd", Wait(g), "TimestampCmd", "FinalizeTACmd", "EndCmd">>
FrameTa(g, v, h) == <<FramesNamedTa>> \o (IF g < G14X THEN <<FramesStructsTa>> ELSE FramesRegsTa) \o <<FramesStruct3Ta, Addr("WorkCommandTA")>> \o StartTa(g) \o Stamps(v, "WorkCommandTA") \o
    FinishTa \o <<Finalize("ta", FramesMicroTa(g, h)), Step("dump", "ta", FramesMicroTa(g, h)), Give("WorkCommandTA", Of({"microsequence_ptr"})), Submit("ta", "WorkCommandTA")>>
submit == (IF first THEN Renderer ELSE <<>>) \o Frame3d(gen, ver) \o (IF waits THEN Barrier("ta") ELSE <<>>) \o (IF first THEN InitBM ELSE <<>>) \o FrameTa(gen, ver, hook)

Objects == DOMAIN Magic \cup Built \cup {"BufferManagerInfo", "EventControl", "CommandQueueInfo", "BufferThing"}
FramesInit ==
    /\ gen \in G13 .. G14X /\ ver \in 0 .. 10 /\ hook \in Hooks /\ waits \in BOOLEAN /\ first \in BOOLEAN /\ ready = ~first
    /\ framesPc = "new" /\ k = 1 /\ given = [o \in Objects |-> {}] /\ framesKnown = {} /\ rings = [q \in {"3d", "ta"} |-> <<>>]
    /\ lacking = {} /\ shown = <<>>

Goes == k' = k + 1 /\ framesPc' = (IF k = Len(submit) THEN "done" ELSE "submit")
Frame == UNCHANGED <<gen, ver, hook, waits, first>>
Has(o) == given[o]
Lacks(o) == Declared(o) \ Has(o)
Fails(missing) == framesPc' = "failed" /\ lacking' = missing /\ UNCHANGED <<k, given, framesKnown, rings, ready, shown>>

NewObject(s) == s.do = "new" /\ given' = [given EXCEPT ![s.obj] = s.arg] /\ Goes /\ UNCHANGED <<framesKnown, rings, ready, lacking, shown>> /\ Frame
GiveFields(s) == s.do = "give" /\ given' = [given EXCEPT ![s.obj] = @ \cup s.arg] /\ Goes /\ UNCHANGED <<framesKnown, rings, ready, lacking, shown>> /\ Frame
\* set_addr reaches the embedded structures the object has at that moment.
set_addr(s) == s.do = "addr" /\ framesKnown' = framesKnown \cup {<<s.obj, f[1]>> : f \in Has(s.obj)} /\ Goes /\ UNCHANGED <<given, rings, ready, lacking, shown>> /\ Frame
\* An embedded structure has no address before: None is handed on, which no build accepts.
PointAt(s) == s.do = "point" /\ given' = [given EXCEPT ![s.obj] = @ \cup Of({p[1] : p \in {p \in s.arg : p[2] \in framesKnown}})] /\ Goes
           /\ UNCHANGED <<framesKnown, rings, ready, lacking, shown>> /\ Frame
PushObject(s) == s.do = "push" /\ (IF Lacks(s.obj) = {} THEN Goes /\ UNCHANGED <<given, framesKnown, rings, ready, lacking, shown>> ELSE Fails(Lacks(s.obj))) /\ Frame
\* finalize builds all commands into one object of 4096 bytes.
Unbuilt(s) == UNION {Lacks(s.arg[i]) : i \in {i \in DOMAIN s.arg : s.arg[i] \in Objects}}
finalize(s) == s.do = "finalize" /\ (IF Unbuilt(s) = {} THEN Goes /\ UNCHANGED <<given, framesKnown, rings, ready, lacking, shown>> ELSE Fails(Unbuilt(s))) /\ Frame
\* submit of a work queue: push, then the ring entry and the write pointer.
SubmitWork(s) == s.do = "submit"
    /\ (IF Lacks(s.obj) = {} THEN Goes /\ rings' = [rings EXCEPT ![s.arg] = Append(@, CmdBufWork(Magic[s.obj]))] /\ UNCHANGED <<given, framesKnown, ready, lacking, shown>>
        ELSE Fails(Lacks(s.obj))) /\ Frame
SetReady(s) == s.do = "ready" /\ ready' = TRUE /\ Goes /\ UNCHANGED <<given, framesKnown, rings, lacking, shown>> /\ Frame
dump(s) == s.do = "dump" /\ shown' = Parse(s.arg) /\ Goes /\ UNCHANGED <<given, framesKnown, rings, ready, lacking>> /\ Frame

\* A tracer parses a microsequence that something else built.
Trace(cmds) == framesPc = "new" /\ hook = <<>> /\ ~waits /\ ~first /\ framesPc' = "traced" /\ hook' = cmds /\ shown' = Parse(cmds)
               /\ UNCHANGED <<gen, ver, waits, first, k, given, framesKnown, rings, ready, lacking>>
Over == framesPc \in {"done", "failed", "traced"} /\ UNCHANGED framesVars

\* The next step of submit.
Submits == framesPc \in {"new", "submit"} /\ \E s \in {submit[k]} :
    NewObject(s) \/ GiveFields(s) \/ set_addr(s) \/ PointAt(s) \/ PushObject(s) \/ finalize(s) \/ SubmitWork(s) \/ SetReady(s) \/ dump(s)

FramesNext == Submits \/ (\E c \in Traced : Trace(c)) \/ Over
FramesSpec == FramesInit /\ [][FramesNext]_framesVars

-----------------------------------------------------------------------------
FramesTypeOK ==
    /\ gen \in G13 .. G14X /\ ver \in 0 .. 10 /\ {waits, first, ready} \subseteq BOOLEAN
    /\ framesPc \in {"new", "submit", "done", "failed", "traced"} /\ k \in Nat
    /\ DOMAIN given = Objects /\ \A b \in framesKnown : b[1] \in Objects

(* The firmware is given work in the order it needs it, and a frame that     *)
(* fails stops before its 3D work: the 3D queue never holds more than the    *)
(* barrier, the TA queue nothing, and the buffer manager stays as it was.    *)
(* With registers (G14X) no frame of any version fails; before, every frame  *)
(* does, because submit gives Start3DStruct1.unk_40 where helper_cfg is      *)
(* declared (agx/render.py:553, fw/agx/microsequence.py:241).  Every address *)
(* of an embedded structure is set before it is handed on, or a build fails. *)
FrameEnds ==
    LET ta == (IF waits THEN <<"WorkCommandBarrier">> ELSE <<>>) \o (IF first THEN <<"WorkCommandInitBM">> ELSE <<>>) \o <<"WorkCommandTA">> IN
    /\ framesPc = "done" => rings["3d"] = <<"WorkCommandBarrier", "WorkCommand3D">> /\ rings["ta"] = ta /\ ready /\ gen = G14X
    /\ framesPc = "failed" => gen < G14X /\ lacking = Of({"struct_1.helper_cfg"}) /\ rings = [q \in {"3d", "ta"} |-> IF q = "3d" THEN <<"WorkCommandBarrier">> ELSE <<>>] /\ ready = ~first
    /\ rings["ta"] # <<>> => Len(rings["3d"]) = 2
(* What dump and the tracers print is the sequence that was built, command   *)
(* by command at the offset append gave it, up to the first one that ends    *)
(* it; and the sequence fits the 4096 bytes it is built into.                *)
DumpShowsFrame ==
    LET cmds == IF framesPc = "traced" THEN hook ELSE FramesMicroTa(gen, hook)
        o == Offsets(cmds)
        ends == {i \in DOMAIN cmds : cmds[i] \in {"EndCmd", "CompleteCmd", "AbortCmd"}} IN
    shown # <<>> =>
        /\ shown = [i \in 1 .. (CHOOSE e \in ends : \A f \in ends : e <= f) |-> <<o[i], cmds[i]>>]
        /\ o[Len(cmds) + 1] <= 4096

-----------------------------------------------------------------------------
(***************************************************************************)
(* The block of structures the AGX firmware is started with: build_initdata *)
(* allocates, fills and pushes about twenty objects that point at each      *)
(* other, for six chips and eleven firmware versions; start flushes the     *)
(* page tables and sends the address of the root.  Structures are modelled  *)
(* by the fields that depend on the version, the generation or the chip;    *)
(* the fields declared and given alike for all of them are left out.        *)
(***************************************************************************)

CONSTANTS Page,      \* bytes of a page in the IO map
          IoCalls    \* the sequences of <<phys, size>> build_iomappings is asked for

VARIABLES chip, initDataVer, \* the machine and the firmware version
          initDataPc,        \* "new", "build", "built", "flushed", "told", "failed" or "dead"
          initDataK,         \* the next step of Plan
          pushed,    \* the step at which each object was last pushed, 0 before
          why,       \* the fields a failing push found missing or of another length
          initDataAsk        \* the IO map in question

initDataVars == <<chip, initDataVer, initDataPc, initDataK, pushed, why, initDataAsk>>

Chips == {8103, 6001, 6002, 8112, 6021, 6020}
InitDataV13_0B4 == 3
InitDataV13_2 == 6
InitDataV13_3 == 7
V13_5B4 == 8
Versions == 0 .. 10
InitDataG14X(c) == c \in {6020, 6021}
InitDataWhen(cond, fields) == IF cond THEN fields ELSE {}
InitDataOf(names) == {<<n, 1>> : n \in names}

-----------------------------------------------------------------------------
(* CHIP_INFO: the lengths of the tables of a chip, 0 for None.               *)

Chip8103 == [shared1 |-> 7 + 9, shared2 |-> 10, shared3 |-> 16, zone924 |-> 8 * 8, zoneE48 |-> 8 * 8, unk_3cf4 |-> 8, unk_3d14 |-> 8, unk_3d34 |-> 8,
             unk_118ec |-> 0, hws2 |-> 8, coef |-> 0, states |-> 7, ab8 |-> 1, present |-> 1]
Chip600x == [Chip8103 EXCEPT !.shared1 = 16, !.unk_118ec = 3 + 3 * 6]
Chip8112 == [Chip8103 EXCEPT !.shared1 = 16, !.zone924 = 8 + 7 * 8, !.zoneE48 = 8 + 7 * 8, !.coef = 1, !.states = 9]
Chip602x == [Chip8112 EXCEPT !.zone924 = (4 + 4) * 16, !.zoneE48 = (4 + 4) * 16, !.unk_118ec = 3 + 4 * 6, !.ab8 = 0, !.present = 0]
CHIP_INFO(c) == IF c = 8103 THEN Chip8103 ELSE IF c = 8112 THEN Chip8112 ELSE IF InitDataG14X(c) THEN Chip602x ELSE Chip600x

\* A curve takes n values, pads them to 16, or has 16 zeros for none; curve2 has one per state.
Shared2Curve(n) == IF n = 0 THEN 16 ELSE n + (16 - n)
Shared2T8112(c) == IF CHIP_INFO(c).coef = 0 THEN Shared2Curve(0) ELSE Shared2Curve(1 + (CHIP_INFO(c).states - 1))
SharedTables == {<<"shared1", 16>>, <<"shared2", 10>>, <<"shared3", 16>>}
PowerZones == {<<"power_zones", 5>>}
A130Extra == InitDataOf({"unk_e10_0"})

-----------------------------------------------------------------------------
(* AGXHWDataA: what the declarations ask for ...                             *)

HwA_Power(v) == {<<"unk_74", 16>>} \cup
    InitDataWhen(v >= InitDataV13_0B4, InitDataOf({"clocks_per_period_2", "unk_3c_0", "unk_74_0", "ppm_filter_tc_clks", "unk_730_4", "unk_730_8", "unk_730_c"}) \cup {<<"unk_6b8_0", 16>>})
HwA_Sensors(v, c) == PowerZones \cup SharedTables \cup
    {<<n, IF InitDataG14X(c) THEN 128 ELSE 64>> : n \in {"unk_924", "unk_a24", "unk_e48", "unk_f48"}} \cup
    InitDataWhen(v >= InitDataV13_0B4, {<<"unk_7e0_0", 16>>, <<"unk_8e4_0", 16>>, <<"unk_d54_4", 12>>} \cup InitDataOf({"avg_power_target_filter_tc_clks", "unk_c58_4", "avg_power_filter_tc_clks"}) \cup A130Extra) \cup
    InitDataWhen(v >= InitDataV13_2, {<<"unk_e10_pad", 16>>}) \cup InitDataWhen(InitDataG14X(c), InitDataOf({"fast_die1_sensor_mask64", "fast_die1_sensor_mask64_2"}))
HwA_Tail(v, c) == {<<"unk_3cf4", 8>>, <<"unk_3d14", 8>>} \cup InitDataWhen(InitDataG14X(c), InitDataOf({"fast_die1_sensor_mask64_alt"})) \cup
    InitDataWhen(v < InitDataV13_0B4, InitDataOf({"fast_die0_sensor_present"})) \cup InitDataWhen(v >= InitDataV13_0B4, {<<"unk_hws2", 16>>, <<"unk_3d34_0", 8>>} \cup InitDataOf({"unk_3ce0_0"}))

(* ... and what its __init__ gives: a list of the chip's table has the table's length. *)
HwA_GivesPower == {<<"unk_74", 16>>, <<"unk_6b8_0", 16>>} \cup
    InitDataOf({"clocks_per_period_2", "unk_3c_0", "unk_74_0", "ppm_filter_tc_clks", "unk_730_4", "unk_730_8", "unk_730_c"})
HwA_GivesSensors(c) == PowerZones \cup A130Extra \cup {<<"unk_7e0_0", 16>>, <<"unk_8e4_0", 16>>, <<"unk_d54_4", 12>>, <<"unk_e10_pad", 16>>} \cup
    {<<n, CHIP_INFO(c).zone924>> : n \in {"unk_924", "unk_a24"}} \cup {<<n, CHIP_INFO(c).zoneE48>> : n \in {"unk_e48", "unk_f48"}} \cup
    {<<"shared1", CHIP_INFO(c).shared1>>, <<"shared2", CHIP_INFO(c).shared2>>, <<"shared3", CHIP_INFO(c).shared3>>} \cup
    InitDataOf({"avg_power_target_filter_tc_clks", "unk_c58_4", "avg_power_filter_tc_clks", "fast_die1_sensor_mask64", "fast_die1_sensor_mask64_2"})
HwA_GivesTail_NoTable(c) == {<<"unk_3cf4", CHIP_INFO(c).unk_3cf4>>, <<"unk_3d14", CHIP_INFO(c).unk_3d14>>, <<"unk_hws2", Shared2T8112(c)>>} \cup
    InitDataOf({"unk_3ce0_0", "fast_die1_sensor_mask64_alt"}) \cup InitDataWhen(CHIP_INFO(c).present = 1, InitDataOf({"fast_die0_sensor_present"}))
HwA_GivesTail(c) == {<<"unk_3cf4", CHIP_INFO(c).unk_3cf4>>, <<"unk_3d14", CHIP_INFO(c).unk_3d14>>, <<"unk_3d34_0", CHIP_INFO(c).unk_3d34>>, <<"unk_hws2", Shared2T8112(c)>>} \cup
    InitDataOf({"unk_3ce0_0", "fast_die1_sensor_mask64_alt"}) \cup InitDataWhen(CHIP_INFO(c).present = 1, InitDataOf({"fast_die0_sensor_present"}))

(* AGXHWDataB.  The frequency, voltage and shader tables are given here, the IO map and the   *)
(* cs and afr tables by build_initdata.                                                       *)
HwB_Declared(v) == {<<"io_mappings", IF v < InitDataV13_0B4 THEN 20 ELSE IF v < InitDataV13_3 THEN 23 ELSE IF v < V13_5B4 THEN 24 ELSE 25>>,
                    <<"yuv_matrices", IF v < InitDataV13_0B4 THEN 15 ELSE 63>>, <<"voltages", 128>>, <<"unk_ae4", 4>>, <<"frequencies", 16>>, <<"rel_max_powers", 16>>} \cup
    InitDataWhen(v < InitDataV13_0B4, InitDataOf({"unk_0", "unk_10", "num_pstates", "min_sram_volt", "unk_ab8", "unk_abc", "unk_ac0"})) \cup
    InitDataWhen(v >= InitDataV13_0B4, InitDataOf({"sgx_sram_ptr", "unk_504_0", "unk_53c_0", "cs_max_pstate", "afr_max_pstate", "cs_unkpad", "afr_unkpad", "unk_b38_0", "unk_b38_4", "unk_c3c"}) \cup
                                       {<<"cs_frequencies", 16>>, <<"cs_voltages", 32>>, <<"afr_frequencies", 8>>, <<"afr_voltages", 16>>, <<"unk_b6c", 208>>}) \cup
    InitDataWhen(v >= InitDataV13_3, {<<"unk_arr_0", 32>>, <<"unk_b38_8", 1>>})
HwB_Matrices(v) == {<<"yuv_matrices", IF v < InitDataV13_0B4 THEN 15 ELSE 8 + 24 + 7 + 24>>} \cup InitDataOf({"unk_0", "unk_10"})
HwB_Gives(c) == {<<"voltages", 16 * 8>>, <<"unk_ae4", 4>>, <<"frequencies", 16>>, <<"rel_max_powers", 16>>, <<"unk_arr_0", 16 + 16>>, <<"unk_b6c", 208>>} \cup
    InitDataOf({"num_pstates", "min_sram_volt", "unk_ac0", "unk_504_0", "unk_53c_0", "cs_unkpad", "afr_unkpad", "unk_b38_0", "unk_b38_4", "unk_b38_8", "unk_c3c"}) \cup
    InitDataWhen(CHIP_INFO(c).ab8 = 1, InitDataOf({"unk_ab8", "unk_abc"}))

(* The statistics, region B, region C and the root.                          *)
Stats_Declared(v, c) == {<<"queues", IF InitDataG14X(c) THEN 8 ELSE 4>>} \cup InitDataWhen(v >= InitDataV13_0B4, {<<"unk_c0", 1368>>, <<"unk_1c0", 1408>>}) \cup InitDataWhen(InitDataG14X(c), {<<"unk_684", 2048>>})
Stats_Gives(c) == {<<"queues", IF InitDataG14X(c) THEN 8 ELSE 4>>, <<"unk_c0", 1368>>, <<"unk_1c0", 1408>>, <<"unk_684", 2048>>}
RegionB_Declared(c) == InitDataWhen(InitDataG14X(c), {<<"pad_6b00_extra", 18432>>}) \cup InitDataOf({"hwdata_b_addr2", "fwlog_ring2", "buffer_mgr_ctl_gpu_addr", "counters"})
RegionB_Gives == {<<"pad_6b00_extra", 18432>>}
RegionC_Declared(v) == {<<"perfctrs", 512>>, <<"power_zones", 5>>, <<"pending_stamps", 256>>, <<"unk_118ec", 1024>>} \cup
    InitDataWhen(v >= InitDataV13_0B4, InitDataOf({"debug", "unk_2c_0", "unk_89f4_8", "unk_hws2_0", "unk_hws2_24", "unk_9010_0", "unk_1102c_0", "unk_118e4_0", "unk_11edc", "unk_11efc"}) \cup
                                       {<<"unk_66_0", 12>>, <<"unk_89bc_0", 60>>, <<"unk_hws2_4", 8>>, <<"unk_118e0_0", 156>>, <<"unk_11d40", 412>>}) \cup
    InitDataWhen(v \in InitDataV13_0B4 .. InitDataV13_2 - 1, InitDataOf({"unk_8000_0"})) \cup InitDataWhen(v >= InitDataV13_2, InitDataOf({"unk_24_0"})) \cup InitDataWhen(v >= InitDataV13_3, {<<"unk_28_4", 1>>, <<"unk_11f00", 640>>})
RegionC_Gives(c) == {<<"perfctrs", 512>>, <<"power_zones", 5>>, <<"pending_stamps", 256>>, <<"unk_118ec", CHIP_INFO(c).unk_118ec + (1024 - CHIP_INFO(c).unk_118ec)>>,
                  <<"unk_66_0", 12>>, <<"unk_89bc_0", 60>>, <<"unk_hws2_4", CHIP_INFO(c).hws2>>, <<"unk_118e0_0", 156>>, <<"unk_11d40", 412>>, <<"unk_11f00", 640>>} \cup
    InitDataOf({"debug", "unk_2c_0", "unk_89f4_8", "unk_hws2_0", "unk_hws2_24", "unk_9010_0", "unk_1102c_0", "unk_118e4_0", "unk_11edc", "unk_11efc", "unk_24_0", "unk_28_4"})
InitData_Declared(v) == InitDataWhen(v >= InitDataV13_0B4, {<<"ver_info", 4>>}) \cup {<<"uat_level_info", 3>>} \cup InitDataOf({"uat_num_levels", "host_mapped_fw_allocations"})

-----------------------------------------------------------------------------
(* build_initdata as a plan.  New allocates and maps an object, Set gives a  *)
(* field, Point gives a pointer field, Push builds the object and writes it. *)

InitDataNew(o) == [do |-> "new", obj |-> o, arg |-> <<"-", 0>>]
Set(o, f) == [do |-> "set", obj |-> o, arg |-> f]
InitDataPoint(o, t) == [do |-> "point", obj |-> o, arg |-> <<t, 0>>]
InitDataPush(o) == [do |-> "push", obj |-> o, arg |-> <<"-", 0>>]
Pushed(o, owner) == <<InitDataNew(o), InitDataPush(o), InitDataPoint(owner, o)>>

\* IOMapping lists: entries without registers are there but map nothing.
build_iomappings(c) == IF c \in {6001, 6002} THEN 20 ELSE 25

PlanRoot(v) == <<InitDataNew("initdata")>> \o (IF v >= InitDataV13_3 THEN <<Set("initdata", <<"ver_info", 4>>)>> ELSE <<>>) \o Pushed("regionA", "initdata") \o
    <<InitDataNew("regionB"), InitDataPoint("regionB", "rings")>> \o Pushed("stats_ta", "regionB") \o Pushed("stats_3d", "regionB") \o Pushed("stats_cp", "regionB") \o
    <<InitDataNew("hwdata_a"), InitDataPoint("regionB", "hwdata_a")>> \o Pushed("fault_info", "regionB") \o Pushed("unk_198", "regionB")
PlanHwB(c) == <<InitDataNew("hwdata_b"), Set("hwdata_b", <<"io_mappings", build_iomappings(c)>>), Set("hwdata_b", <<"sgx_sram_ptr", 1>>)>>
\* The performance states go into both; the cs and afr states are padded to 16 and 8.
PlanStates == <<Set("hwdata_a", <<"unk_74", 16>>), Set("hwdata_b", <<"frequencies", 16>>),
    Set("hwdata_b", <<"cs_max_pstate", 1>>), Set("hwdata_b", <<"cs_frequencies", 16>>), Set("hwdata_b", <<"cs_voltages", 32>>),
    Set("hwdata_b", <<"afr_max_pstate", 1>>), Set("hwdata_b", <<"afr_frequencies", 8>>), Set("hwdata_b", <<"afr_voltages", 16>>)>>
PlanRegionB_OneHwdata == <<InitDataPush("hwdata_b"), InitDataPoint("regionB", "hwdata_b"), Set("regionB", <<"hwdata_b_addr2", 1>>), Set("regionB", <<"fwlog_ring2", 1>>)>> \o
    Pushed("unk_1b8", "regionB") \o Pushed("unk_1c0", "regionB") \o Pushed("unk_1c8", "regionB") \o Pushed("buffer_mgr_ctl", "regionB") \o
    <<Set("regionB", <<"buffer_mgr_ctl_gpu_addr", 1>>), Set("regionB", <<"counters", 1>>), InitDataPush("regionB"), InitDataPoint("initdata", "regionB")>>
PlanRegionB == <<InitDataPush("hwdata_a"), InitDataPush("hwdata_b"), InitDataPoint("regionB", "hwdata_b"), Set("regionB", <<"hwdata_b_addr2", 1>>), Set("regionB", <<"fwlog_ring2", 1>>)>> \o
    Pushed("unk_1b8", "regionB") \o Pushed("unk_1c0", "regionB") \o Pushed("unk_1c8", "regionB") \o Pushed("buffer_mgr_ctl", "regionB") \o
    <<Set("regionB", <<"buffer_mgr_ctl_gpu_addr", 1>>), Set("regionB", <<"counters", 1>>), InitDataPush("regionB"), InitDataPoint("initdata", "regionB")>>
PlanEnd == <<InitDataNew("regionC"), InitDataPush("regionC"), InitDataPoint("initdata", "regionC"), InitDataNew("fw_status"), InitDataPoint("initdata", "fw_status"), InitDataPoint("fw_status", "rings"), InitDataPush("fw_status"),
    Set("initdata", <<"uat_num_levels", 1>>), Set("initdata", <<"uat_level_info", 3>>), Set("initdata", <<"host_mapped_fw_allocations", 1>>), InitDataPush("regionC"), InitDataPush("initdata")>>
build_initdata(c, v) == PlanRoot(v) \o PlanHwB(c) \o PlanStates \o PlanRegionB \o PlanEnd

InitDataObjects == {"initdata", "regionA", "regionB", "regionC", "rings", "stats_ta", "stats_3d", "stats_cp", "hwdata_a", "hwdata_b", "fault_info",
                    "unk_198", "unk_1b8", "unk_1c0", "unk_1c8", "buffer_mgr_ctl", "fw_status"}
InitDataDeclared(o) == CASE o = "hwdata_a" -> HwA_Power(initDataVer) \cup HwA_Sensors(initDataVer, chip) \cup HwA_Tail(initDataVer, chip)
                         [] o = "hwdata_b" -> HwB_Declared(initDataVer)
                         [] o \in {"stats_ta", "stats_3d"} -> Stats_Declared(initDataVer, chip)
                         [] o = "regionB" -> RegionB_Declared(chip)
                         [] o = "regionC" -> RegionC_Declared(initDataVer)
                         [] o = "initdata" -> InitData_Declared(initDataVer)
                         [] o \in InitDataObjects \ {"hwdata_a", "hwdata_b", "stats_ta", "stats_3d", "regionB", "regionC", "initdata"} -> {}
Constructed(o) == CASE o = "hwdata_a" -> HwA_GivesPower \cup HwA_GivesSensors(chip) \cup HwA_GivesTail(chip)
                    [] o = "hwdata_b" -> HwB_Matrices(initDataVer) \cup HwB_Gives(chip)
                    [] o \in {"stats_ta", "stats_3d"} -> Stats_Gives(chip)
                    [] o = "regionB" -> RegionB_Gives
                    [] o = "regionC" -> RegionC_Gives(chip)
                    [] o \in InitDataObjects \ {"hwdata_a", "hwdata_b", "stats_ta", "stats_3d", "regionB", "regionC"} -> {}

Plan == build_initdata(chip, initDataVer)
Before(n, o, what) == {j \in 1 .. n - 1 : Plan[j].obj = o /\ Plan[j].do = what}
Given(o) == Constructed(o) \cup {Plan[j].arg : j \in Before(initDataK, o, "set")}

InitDataInit == /\ chip = 0 /\ initDataVer = 0 /\ initDataPc = "new" /\ initDataK = 1 /\ why = {} /\ initDataAsk = <<>>
                /\ pushed = [o \in InitDataObjects |-> 0]

\* start: init_channels allocates the rings (their state is written as they are made), then builds.
start == /\ initDataPc = "new" /\ initDataAsk = <<>>
         /\ chip' \in Chips /\ initDataVer' \in Versions /\ initDataPc' = "build" /\ pushed' = [pushed EXCEPT !["rings"] = 1]
         /\ UNCHANGED <<initDataK, why, initDataAsk>>

\* GPUObject.push: builds the structure, every active field of it, before a byte is written.
push(o) == IF InitDataDeclared(o) \subseteq Given(o)
           THEN pushed' = [pushed EXCEPT ![o] = initDataK] /\ UNCHANGED <<initDataPc, why>>
           ELSE initDataPc' = "failed" /\ why' = InitDataDeclared(o) \ Given(o) /\ UNCHANGED pushed

InitDataStep == /\ initDataPc = "build" /\ initDataK <= Len(Plan)
                /\ IF Plan[initDataK].do = "push" THEN push(Plan[initDataK].obj) ELSE UNCHANGED <<pushed, initDataPc, why>>
                /\ initDataK' = initDataK + 1 /\ UNCHANGED <<chip, initDataVer, initDataAsk>>

\* initdata_hook, where a script sets one, changes region C and pushes it again.
initData_hook == initDataPc' = "built" /\ UNCHANGED pushed
InitDataBuilt == initDataPc = "build" /\ initDataK > Len(Plan) /\ initData_hook /\ UNCHANGED <<chip, initDataVer, initDataK, why, initDataAsk>>
flush_dirty == initDataPc = "built" /\ initDataPc' = "flushed" /\ UNCHANGED <<chip, initDataVer, initDataK, pushed, why, initDataAsk>>
send_initdata == initDataPc = "flushed" /\ initDataPc' = "told" /\ UNCHANGED <<chip, initDataVer, initDataK, pushed, why, initDataAsk>>
LinkDies == initDataPc \in {"build", "built", "flushed"} /\ initDataPc' = "dead" /\ UNCHANGED <<chip, initDataVer, initDataK, pushed, why, initDataAsk>>

-----------------------------------------------------------------------------
(* build_iomappings' iomap, on the io_allocator's block heap.                *)

Up(n) == (n + Page - 1) \div Page
iomap_off_Dropped(phys) == 0
iomap_off(phys) == phys % Page
\* The heap hands out whole blocks, one behind the other.
RECURSIVE IoMap(_, _)
IoMap(calls, at) ==
    IF calls = <<>> THEN <<>>
    ELSE LET phys == calls[1][1]  size == calls[1][2]  off == iomap_off(phys)
         IN  <<[phys |-> phys, virt |-> at * Page + off, size |-> size, first |-> at, out |-> (phys - off) \div Page, pages |-> Up(size + off)]>> \o
             IoMap(SubSeq(calls, 2, Len(calls)), at + Up(size + Page + off))
AskIoMap == \E c \in IoCalls : initDataAsk' = IoMap(c, 1)
Ask == initDataPc = "new" /\ initDataAsk = <<>> /\ AskIoMap /\ UNCHANGED <<chip, initDataVer, initDataPc, initDataK, pushed, why>>

InitDataNext == start \/ InitDataStep \/ InitDataBuilt \/ flush_dirty \/ send_initdata \/ LinkDies \/ Ask
InitDataSpec == InitDataInit /\ [][InitDataNext]_initDataVars

-----------------------------------------------------------------------------

InitDataTypeOK ==
    /\ chip \in Chips \cup {0} /\ initDataVer \in Versions /\ initDataPc \in {"new", "build", "built", "flushed", "told", "failed", "dead"}
    /\ initDataK \in Nat /\ pushed \in [InitDataObjects -> Nat] /\ Cardinality(why) <= 20 /\ Len(initDataAsk) <= 3

\* What the firmware finds from the root: a pointer is in memory when its owner was pushed after it was
\* set (G14X has no field for two of the buffers).
Undeclared == IF InitDataG14X(chip) THEN {"unk_1c0", "unk_1c8"} ELSE {}
InMemory(o) == {Plan[j].arg[1] : j \in Before(pushed[o], o, "point")} \ Undeclared
Found == LET One(S) == S \cup UNION {InMemory(o) : o \in S} IN One(One(One({"initdata"})))

\* When the firmware is told the address of the root, every object the version declares is reached from there, and each
\* was pushed after its last change and allocated before the page tables were flushed.
ToldWhole ==
    initDataPc = "told" => /\ Found = InitDataObjects \ Undeclared
                           /\ \A o \in InitDataObjects : /\ pushed[o] > 0
                                                         /\ \A j \in Before(initDataK, o, "set") \cup Before(initDataK, o, "point") : j < pushed[o]

KnownGaps == {"io_mappings", "ver_info", "unk_8000_0", "fast_die0_sensor_present", "unk_ab8", "unk_abc"}

\* A build stops only where the tables of a chip and the declarations of a version are known to part:
\* the length of the IO map, ver_info and unk_8000_0 of the 13.0 to 13.2 firmwares, and the fields of
\* the 12.x firmwares that have no value for the T602x.
FailsAsKnown ==
    initDataPc = "failed" => /\ {f[1] : f \in why} \subseteq KnownGaps
                             /\ (chip \in {6001, 6002} /\ initDataVer >= InitDataV13_0B4) \/ (chip \notin {6001, 6002} /\ initDataVer < V13_5B4)

\* Every byte of a register range is reached at the virtual address the firmware is given for it,
\* and no two ranges share a page or lie next to each other.
IoMapped ==
    \A i \in 1 .. Len(initDataAsk) :
      LET m == initDataAsk[i] IN
      /\ \A b \in 0 .. m.size - 1 : LET a == m.virt + b  p == a \div Page IN
           /\ p \in m.first .. m.first + m.pages - 1
           /\ (m.out + (p - m.first)) * Page + (a % Page) = m.phys + b
      /\ i < Len(initDataAsk) => m.first + m.pages < initDataAsk[i + 1].first

-----------------------------------------------------------------------------
(***************************************************************************)
(* The memory a client shares with the Apple GPU and its firmware          *)
(* (agx/object.py, agx/context.py, fw/agx/handoff.py, agx/shim.py).  An    *)
(* allocator takes virtual room, takes a physical page, and enters the     *)
(* mapping in the page tables it keeps on the host; the device sees the    *)
(* mapping only when flush_dirty writes the tables back and drops cached   *)
(* translations.  A mapping of the kernel half that is not shared may be   *)
(* held in the firmware's write-back cache, so freeing it goes through the *)
(* flush slots of the handoff page.  The shim keeps one object per buffer  *)
(* of an application and pushes them before each frame.                    *)
(*                                                                         *)
(* Three machines that share nothing are explored apart: "mem", "lock" and *)
(* "find".                                                                 *)
(***************************************************************************)

CONSTANTS Pages,     \* physical pages the heap may hand out, 1 .. n
          MaxFrees,  \* objects freed
          ObjectsMaxFrames  \* frames the shim submits

VARIABLES part, obj, want, objectsSeen, tlb, dirty, slot, objectsPc, gpu, frees, frames, map, mem, data, mark, lock, objectsAsk

objectsVars == <<part, obj, want, objectsSeen, tlb, dirty, slot, objectsPc, gpu, frees, frames, map, mem, data, mark, lock, objectsAsk>>

memVars == <<obj, want, objectsSeen, tlb, dirty, slot, objectsPc, gpu, frees, frames, map, mem, data, mark>>

(* The three places an object may live: "private" and "shared" in the kernel half above      *)
(* 0xf8000000000, "user" in a context below it.  A user mapping is not marked shared either. *)
Vas == {"private", "shared", "user"}
AttrShared(v) == v = "shared"
Above(v) == v \in {"private", "shared"}
ObjectsNone == 0
Unmapped == [page |-> 0, shared |-> FALSE]
To(p, s) == [page |-> p, shared |-> s]

ObjectsNoAsk == [kind |-> "none"]

ObjectsInit ==
  /\ part \in {"mem", "lock", "find"}
  /\ obj = [v \in Vas |-> ObjectsNone]
  /\ want = [v \in Vas |-> Unmapped] /\ objectsSeen = want /\ tlb = want
  /\ dirty = [p \in Pages |-> FALSE]
  /\ slot = 0 /\ objectsPc = <<"idle">> /\ gpu = FALSE /\ frees = 0 /\ frames = 0
  /\ map = 0 /\ mem = [p \in Pages |-> 9] /\ data = -1 /\ mark = FALSE
  /\ lock = [ap |-> "out", fw |-> "out", LOCK_AP |-> 0, LOCK_FW |-> 0, TURN |-> 0]
  /\ objectsAsk = ObjectsNoAsk

(* u.memalign hands out any page no object holds *)
Held == {obj[v] : v \in Vas} \ {ObjectsNone}
Idle == objectsPc = <<"idle">>

(* GPUAllocator.new: room, page, mapping in the host's copy of the tables, no flush *)
new(v) ==
  /\ part = "mem" /\ Idle /\ obj[v] = ObjectsNone
  /\ \E p \in Pages \ Held :
       /\ obj' = [obj EXCEPT ![v] = p]
       /\ want' = [want EXCEPT ![v] = To(p, AttrShared(v))]
  /\ UNCHANGED <<part, objectsSeen, tlb, dirty, slot, objectsPc, gpu, frees, frames, mem, lock, objectsAsk>>
KernelObject(v) == v # "user" /\ new(v) /\ UNCHANGED <<map, data, mark>>

(* create_bo: an object of the context that has never been pushed, over a fresh map *)
create_bo == new("user") /\ map' = 0 /\ data' = -1 /\ mark' = FALSE

(* UAT.flush_dirty: the tables as the host has them, and no older translation cached *)
objects_flush_dirty(w) == objectsSeen' = w /\ tlb' = [v \in Vas |-> Unmapped]

(* GPUAllocator.free takes the long way for what the firmware may hold in its cache *)
is_private(v) == ~AttrShared(v) /\ Above(v)

(* The buffers of the application are freed by an ioctl of their own, never during a frame *)
free_Starts(v) ==
  /\ part = "mem" /\ Idle /\ obj[v] # ObjectsNone /\ ~gpu /\ frees < MaxFrees
  /\ frees' = frees + 1
  /\ objectsPc' = IF is_private(v) THEN <<"remap", v>> ELSE <<"unmap", v>>
  /\ UNCHANGED <<part, obj, want, objectsSeen, tlb, dirty, slot, gpu, frames, map, mem, data, mark, lock, objectsAsk>>

(* The flush slot goes 0, 1 (asked), 2 (the firmware has flushed), 0; both ends are asserted. *)
prepare_cacheflush == slot = 0 /\ slot' = 1
complete_cacheflush == slot = 2 /\ slot' = 0

(* Remap shared, flush, and ask for the flush *)
free_Remaps_Not ==
  /\ part = "mem" /\ objectsPc[1] = "remap"
  /\ objects_flush_dirty(want)
  /\ prepare_cacheflush /\ objectsPc' = <<"inval", objectsPc[2]>>
  /\ UNCHANGED <<part, obj, want, dirty, gpu, frees, frames, map, mem, data, mark, lock, objectsAsk>>
free_Remaps ==
  /\ part = "mem" /\ objectsPc[1] = "remap"
  /\ want' = [want EXCEPT ![objectsPc[2]].shared = TRUE]
  /\ objects_flush_dirty(want')
  /\ prepare_cacheflush /\ objectsPc' = <<"inval", objectsPc[2]>>
  /\ UNCHANGED <<part, obj, dirty, gpu, frees, frames, map, mem, data, mark, lock, objectsAsk>>

(* fwctl.send_inval, then wait_cacheflush spins while the slot reads 1 *)
free_Waits ==
  /\ part = "mem" /\ objectsPc[1] = "inval" /\ slot # 1
  /\ objectsPc' = <<"unmap", objectsPc[2]>>
  /\ UNCHANGED <<part, obj, want, objectsSeen, tlb, dirty, slot, gpu, frees, frames, map, mem, data, mark, lock, objectsAsk>>

(* iomap_at(VALID=0); the long way flushes again and completes the slot; then the page goes back *)
free_Unmaps_Unflushed ==
  /\ part = "mem" /\ objectsPc[1] = "unmap"
  /\ want' = [want EXCEPT ![objectsPc[2]] = Unmapped]
  /\ IF is_private(objectsPc[2]) THEN slot' = 0 ELSE UNCHANGED slot
  /\ UNCHANGED <<objectsSeen, tlb>>
  /\ obj' = [obj EXCEPT ![objectsPc[2]] = ObjectsNone] /\ objectsPc' = <<"idle">>
  /\ UNCHANGED <<part, dirty, gpu, frees, frames, map, mem, data, mark, lock, objectsAsk>>
free_Unmaps ==
  /\ part = "mem" /\ objectsPc[1] = "unmap"
  /\ want' = [want EXCEPT ![objectsPc[2]] = Unmapped]
  /\ IF is_private(objectsPc[2])
     THEN complete_cacheflush /\ objects_flush_dirty(want')
     ELSE UNCHANGED <<slot, objectsSeen, tlb>>
  /\ obj' = [obj EXCEPT ![objectsPc[2]] = ObjectsNone] /\ objectsPc' = <<"idle">>
  /\ UNCHANGED <<part, dirty, gpu, frees, frames, map, mem, data, mark, lock, objectsAsk>>

(* The firmware reads or writes through a mapping of the kernel half.  A shared mapping goes   *)
(* to memory; any other leaves a dirty line, written back when the cache likes.                *)
FwTouches(v) ==
  /\ part = "mem" /\ Above(v)
  /\ \E t \in {objectsSeen[v], tlb[v]} :
       /\ t.page # 0
       /\ tlb' = [tlb EXCEPT ![v] = t]
       /\ dirty' = IF t.shared THEN dirty ELSE [dirty EXCEPT ![t.page] = TRUE]
  /\ UNCHANGED <<part, obj, want, objectsSeen, slot, objectsPc, gpu, frees, frames, map, mem, data, mark, lock, objectsAsk>>
FwEvicts ==
  /\ part = "mem"
  /\ \E p \in Pages : dirty[p] /\ dirty' = [dirty EXCEPT ![p] = FALSE]
  /\ UNCHANGED <<part, obj, want, objectsSeen, tlb, slot, objectsPc, gpu, frees, frames, map, mem, data, mark, lock, objectsAsk>>
FwFlushes ==
  /\ part = "mem" /\ slot = 1 /\ objectsPc[1] = "inval"
  /\ dirty' = [dirty EXCEPT ![obj[objectsPc[2]]] = FALSE] /\ slot' = 2
  /\ UNCHANGED <<part, obj, want, objectsSeen, tlb, objectsPc, gpu, frees, frames, map, mem, data, mark, lock, objectsAsk>>

(* ------------------------------ the shim ------------------------------- *)
(* The application stores into the buffer it maps (0 is what a new buffer holds). *)
AppWrites(x) ==
  /\ part = "mem" /\ Idle /\ obj["user"] # ObjectsNone /\ ~gpu /\ map # x
  /\ map' = x
  /\ UNCHANGED <<part, obj, want, objectsSeen, tlb, dirty, slot, objectsPc, gpu, frees, frames, mem, data, mark, lock, objectsAsk>>

(* GPUObject.push(if_needed): left out when the bytes are those last pushed *)
objects_push_Once(p) ==
  IF data # -1 THEN UNCHANGED <<mem, data, mark>>
  ELSE mem' = [mem EXCEPT ![p] = map] /\ data' = map /\ mark' = FALSE
objects_push(p) ==
  IF data = map THEN UNCHANGED <<mem, data, mark>>
  ELSE mem' = [mem EXCEPT ![p] = map] /\ data' = map /\ mark' = FALSE

(* submit: every buffer is pushed, then the work queue's submit flushes the tables *)
objects_submit_Unflushed ==
  /\ part = "mem" /\ Idle /\ ~gpu /\ obj["user"] # ObjectsNone /\ frames < ObjectsMaxFrames
  /\ objects_push(obj["user"])
  /\ UNCHANGED <<objectsSeen, tlb>>
  /\ gpu' = TRUE /\ frames' = frames + 1
  /\ UNCHANGED <<part, obj, want, dirty, slot, objectsPc, frees, map, lock, objectsAsk>>
objects_submit ==
  /\ part = "mem" /\ Idle /\ ~gpu /\ obj["user"] # ObjectsNone /\ frames < ObjectsMaxFrames
  /\ objects_push(obj["user"])
  /\ objects_flush_dirty(want)
  /\ gpu' = TRUE /\ frames' = frames + 1
  /\ UNCHANGED <<part, obj, want, dirty, slot, objectsPc, frees, map, lock, objectsAsk>>

(* The GPU translates and may draw into the buffer; mark says so *)
GpuDraws ==
  /\ part = "mem" /\ gpu
  /\ \E t \in {objectsSeen["user"], tlb["user"]} :
       /\ t.page # 0
       /\ tlb' = [tlb EXCEPT !["user"] = t]
       /\ mem' = [mem EXCEPT ![t.page] = 2]
  /\ mark' = TRUE
  /\ UNCHANGED <<part, obj, want, objectsSeen, dirty, slot, objectsPc, gpu, frees, frames, map, data, lock, objectsAsk>>

(* renderer.wait, and with ASAHI_SHIM_PULL the attachments are read back into the map *)
SubmitEnds(pull) ==
  /\ part = "mem" /\ gpu /\ gpu' = FALSE
  /\ map' = IF pull THEN mem[obj["user"]] ELSE map
  /\ UNCHANGED <<part, obj, want, objectsSeen, tlb, dirty, slot, objectsPc, frees, frames, mem, data, mark, lock, objectsAsk>>

(* ---------------------------- GFXHandoff.lock --------------------------- *)
(* Each register access is a step.  After contention the client's test of TURN compares the   *)
(* register object, not its value, so the inner loop has no way out.                          *)
ApLocks_Late ==
  /\ part = "lock"
  /\ \/ lock.ap = "out" /\ lock.LOCK_FW = 0 /\ lock' = [lock EXCEPT !.ap = "try"]
     \/ lock.ap = "try" /\ lock' = [lock EXCEPT !.ap = "in", !.LOCK_AP = 1]
     \/ lock.ap = "in" /\ lock' = [lock EXCEPT !.ap = "done", !.TURN = 1]
     \/ lock.ap = "done" /\ lock' = [lock EXCEPT !.ap = "out", !.LOCK_AP = 0]
  /\ UNCHANGED <<part, memVars, objectsAsk>>
ApLocks ==
  /\ part = "lock"
  /\ \/ lock.ap = "out" /\ lock' = [lock EXCEPT !.ap = "try", !.LOCK_AP = 1]
     \/ lock.ap = "try" /\ lock.LOCK_FW = 0 /\ lock' = [lock EXCEPT !.ap = "in"]
     \/ lock.ap = "try" /\ lock.LOCK_FW # 0 /\ lock' = [lock EXCEPT !.ap = "spin", !.LOCK_AP = 0]
     \/ lock.ap = "in" /\ lock' = [lock EXCEPT !.ap = "done", !.TURN = 1]
     \/ lock.ap = "done" /\ lock' = [lock EXCEPT !.ap = "out", !.LOCK_AP = 0]
  /\ UNCHANGED <<part, memVars, objectsAsk>>

(* The firmware's side, taken to be the mirror image with a working turn *)
FwLocks ==
  /\ part = "lock"
  /\ \/ lock.fw = "out" /\ lock' = [lock EXCEPT !.fw = "try", !.LOCK_FW = 1]
     \/ lock.fw = "try" /\ lock.LOCK_AP = 0 /\ lock' = [lock EXCEPT !.fw = "in"]
     \/ lock.fw = "try" /\ lock.LOCK_AP # 0 /\ lock.TURN # 1 /\ lock' = [lock EXCEPT !.fw = "turn", !.LOCK_FW = 0]
     \/ lock.fw = "turn" /\ lock.TURN = 1 /\ lock' = [lock EXCEPT !.fw = "try", !.LOCK_FW = 1]
     \/ lock.fw = "in" /\ lock' = [lock EXCEPT !.fw = "done", !.TURN = 0]
     \/ lock.fw = "done" /\ lock' = [lock EXCEPT !.fw = "out", !.LOCK_FW = 0]
  /\ UNCHANGED <<part, memVars, objectsAsk>>

(* ----------------------------- find_object ------------------------------ *)
(* all_objects is keyed by (context, address); keys compare in that order. *)
Keys == {0, 1} \X {0, 2, 4}
ObjectsBefore(a, b) == a[1] < b[1] \/ (a[1] = b[1] /\ a[2] < b[2])

(* The last key before (ctx, addr + 1) *)
find_object_Left(all, ctx, addr) ==
  LET below == {ks \in all : ObjectsBefore(ks, <<ctx, addr>>)}
  IN  IF below = {} THEN <<>> ELSE CHOOSE ks \in below : \A j \in below : j = ks \/ ObjectsBefore(j, ks)
find_object(all, ctx, addr) ==
  LET below == {ks \in all : ObjectsBefore(ks, <<ctx, addr + 1>>)}
  IN  IF below = {} THEN <<>> ELSE CHOOSE ks \in below : \A j \in below : j = ks \/ ObjectsBefore(j, ks)

AskFind ==
  /\ part = "find" /\ objectsAsk = ObjectsNoAsk
  /\ \E all \in SUBSET Keys, ctx \in {0, 1}, addr \in 0 .. 5 :
       objectsAsk' = [kind |-> "find", all |-> all, ctx |-> ctx, addr |-> addr, r |-> find_object(all, ctx, addr)]
  /\ UNCHANGED <<part, memVars, lock>>

(* new_at fills pages of a context at an address the caller chose; GPUBufferManager.populate fills *)
(* the page list with block i's pages, four to a block.                                           *)
PerBlock == 4
populate_Stride(base, n) == [i \in 0 .. PerBlock * n - 1 |-> base[i \div PerBlock] + (i % n)]
populate(base, n) == [i \in 0 .. PerBlock * n - 1 |-> base[i \div PerBlock] + (i % PerBlock)]
AskPopulate ==
  /\ part = "find" /\ objectsAsk = ObjectsNoAsk
  /\ \E n \in 1 .. 3 : \E base \in [0 .. n - 1 -> {0, 5, 10}] :
       /\ Cardinality({base[i] : i \in 0 .. n - 1}) = n
       /\ objectsAsk' = [kind |-> "bm", base |-> base, n |-> n, r |-> populate(base, n)]
  /\ UNCHANGED <<part, memVars, lock>>

ObjectsNext ==
  \/ \E v \in Vas : KernelObject(v) \/ free_Starts(v) \/ FwTouches(v)
  \/ free_Remaps \/ free_Waits \/ free_Unmaps \/ FwEvicts \/ FwFlushes
  \/ \E x \in {1, 2} : AppWrites(x)
  \/ create_bo \/ objects_submit \/ GpuDraws
  \/ \E pull \in BOOLEAN : SubmitEnds(pull)
  \/ ApLocks \/ FwLocks \/ AskFind \/ AskPopulate

ObjectsSpec == ObjectsInit /\ [][ObjectsNext]_objectsVars

-----------------------------------------------------------------------------
(* Type invariant. *)
ObjectsTypeOK ==
  /\ part \in {"mem", "lock", "find"}
  /\ obj \in [Vas -> Pages \cup {ObjectsNone}]
  /\ dirty \in [Pages -> BOOLEAN]
  /\ slot \in 0 .. 2 /\ gpu \in BOOLEAN /\ mark \in BOOLEAN
  /\ frees \in 0 .. MaxFrees /\ frames \in 0 .. ObjectsMaxFrames
  /\ map \in 0 .. 9 /\ data \in -1 .. 9

(* A line the firmware's cache will still write back lies in a page that the private object holds: *)
(* GPUAllocator.free remaps it shared and waits for the firmware's flush before the page goes back *)
(* to the heap, so the line cannot land in a later owner's data.                                   *)
NoLateWriteBack == \A p \in Pages : dirty[p] => obj["private"] = p

(* While a frame runs, every translation the GPU can use for the application's buffer, in the      *)
(* tables or cached, leads to the page that buffer holds now, however objects were freed and       *)
(* allocated before: the work queue flushes the tables before it moves its write pointer.          *)
FrameSeesBuffers == gpu => \A t \in {objectsSeen["user"], tlb["user"]} : t.page \in {0, obj["user"]}

(* A frame is drawn from what the application's map held when it was submitted, or over what the   *)
(* GPU itself drew there.  push(True) leaves an unchanged buffer out; the one case in which memory *)
(* then differs is that the GPU wrote it since and the application put the pushed bytes back.      *)
PushedOrDrawn == gpu => (mem[obj["user"]] = map \/ mark)

(* The firmware cannot reach a page of the kernel half that went back to the heap, unless it was   *)
(* freed without a flush: that is the shared objects only.                                         *)
FreedUnreached == \A t \in {objectsSeen["private"], tlb["private"]} : t.page \in {0, obj["private"]}

(* The client and the firmware are never both inside the lock of the handoff page. *)
HandoffExclusive == ~(lock.ap \in {"in", "done"} /\ lock.fw \in {"in", "done"})

(* find_object names the last object at or below a fault address in its context, when there is one. *)
(* Without one it names the highest object of a lower context, so the caller's offset is wrong.     *)
FaultNamed ==
  objectsAsk.kind = "find" =>
           LET own == {ks \in objectsAsk.all : ks[1] = objectsAsk.ctx /\ ks[2] <= objectsAsk.addr}
           IN  /\ own # {} => objectsAsk.r \in own /\ \A ks \in own : ks[2] <= objectsAsk.r[2]
               /\ own = {} => (objectsAsk.r = <<>> \/ objectsAsk.r[1] < objectsAsk.ctx)

(* The buffer manager's page list names each of the four pages of each block once, block by block. *)
PagesOfBlocks ==
  objectsAsk.kind = "bm" =>
           /\ \A b \in 0 .. objectsAsk.n - 1 : \A ks \in 0 .. PerBlock - 1 : objectsAsk.r[b * PerBlock + ks] = objectsAsk.base[b] + ks
           /\ Cardinality({objectsAsk.r[i] : i \in DOMAIN objectsAsk.r}) = PerBlock * objectsAsk.n

-----------------------------------------------------------------------------
(***************************************************************************)
(* The rings between the client and the GPU's firmware (agx/channels.py,   *)
(* agx/event.py, and AGX's start, polling, fault and recovery handlers in  *)
(* agx/__init__.py).  A channel is a ring with a read and a write pointer  *)
(* in shared memory, empty when they agree.  The firmware's events fire    *)
(* the event a submission waits for, or report a fault or a timeout after  *)
(* which the firmware halts until the client tells it to resume.           *)
(*                                                                         *)
(* Three machines that share nothing are explored apart: "layout", "rx"    *)
(* (the event channel and recovery) and "tx" (a command channel).          *)
(***************************************************************************)

CONSTANTS Size,     \* slots of a ring
          MaxMsgs,  \* messages the firmware posts, and the client sends
          Events    \* events allocated (0 .. 127 in the code)

VARIABLES channelsPart, channelsRing, channelsWptr, rptr, pos, posted, last, fw, processed, resumes, fired, fault, channelsBroken,
          sent, taken, queue, channelsAsk

channelsVars == <<channelsPart, channelsRing, channelsWptr, rptr, pos, posted, last, fw, processed, resumes, fired, fault, channelsBroken,
                  sent, taken, queue, channelsAsk>>

rxVars == <<posted, last, fw, processed, resumes, fired, fault>>
txVars == <<sent, taken, queue>>

Msg(n, ks, a) == [n |-> n, kind |-> ks, arg |-> a]
Junk == Msg(0, "junk", 0)
ChannelsNone == <<>>

ChannelsInit ==
  /\ channelsPart \in {"layout", "rx", "tx"}
  /\ channelsRing = [i \in 0 .. Size - 1 |-> Junk] /\ channelsWptr = 0 /\ rptr = 0 /\ pos = ChannelsNone
  /\ posted = 0 /\ last = [n |-> 0, ok |-> TRUE]
  /\ fw = [halted |-> 0, halt_count |-> 0, resume |-> 0] /\ processed = 0 /\ resumes = 0
  /\ fired = {} /\ fault = FALSE /\ channelsBroken = FALSE
  /\ sent = 0 /\ taken = [n |-> 0, ok |-> TRUE] /\ queue = [first_time |-> TRUE, told |-> 0, half |-> FALSE]
  /\ channelsAsk = <<>>

Full == (channelsWptr + 1) % Size = rptr

(* --------------------------- the event channel -------------------------- *)
(* The firmware posts only into a ring with room.  Each message of a halt carries the number *)
(* of halts before it; several timeouts, and a fault beside them, may come of one halt.      *)
Posts(ks, a) ==
  /\ posted < MaxMsgs /\ ~Full
  /\ posted' = posted + 1
  /\ channelsRing' = [channelsRing EXCEPT ![channelsWptr] = Msg(posted + 1, ks, a)]
  /\ channelsWptr' = (channelsWptr + 1) % Size
FwFires ==
  /\ channelsPart = "rx" /\ fw.halted = 0 /\ (Posts("other", 0) \/ \E e \in Events : Posts("flag", e))
  /\ UNCHANGED <<channelsPart, rptr, pos, last, fw, processed, resumes, fired, fault, channelsBroken, txVars, channelsAsk>>
FwHalts ==
  /\ channelsPart = "rx" /\ fw.halted = 0 /\ fw.resume = 0
  /\ \E ks \in {"timeout", "fault"} : Posts(ks, fw.halt_count)
  /\ fw' = [fw EXCEPT !.halted = 1, !.halt_count = @ + 1]
  /\ UNCHANGED <<channelsPart, rptr, pos, last, processed, resumes, fired, fault, channelsBroken, txVars, channelsAsk>>
FwRepeats ==
  /\ channelsPart = "rx" /\ fw.halted = 1
  /\ \E ks \in {"timeout", "fault"} : Posts(ks, fw.halt_count - 1)
  /\ UNCHANGED <<channelsPart, rptr, pos, last, fw, processed, resumes, fired, fault, channelsBroken, txVars, channelsAsk>>
FwResumes ==
  /\ channelsPart = "rx" /\ fw.resume = 1 /\ fw.halted = 0 /\ fw' = [fw EXCEPT !.resume = 0]
  /\ UNCHANGED <<channelsPart, channelsRing, channelsWptr, rptr, pos, posted, last, processed, resumes, fired, fault, channelsBroken, txVars, channelsAsk>>

(* FirmwareEP.event: poll_channels polls the logs, the traces and the event channel; a poll reads *)
(* both pointers once                                                                             *)
poll ==
  /\ channelsPart = "rx" /\ ~channelsBroken /\ pos = ChannelsNone /\ channelsWptr < Size
  /\ pos' = [r |-> rptr, w |-> channelsWptr]
  /\ UNCHANGED <<channelsPart, channelsRing, channelsWptr, rptr, rxVars, channelsBroken, txVars, channelsAsk>>

(* AGX.recover: only a halted firmware is resumed *)
recover_Blind(m) ==
  /\ processed' = fw.halt_count /\ resumes' = resumes + 1
  /\ fw' = [fw EXCEPT !.halted = 0, !.resume = 1]
  /\ UNCHANGED <<channelsBroken, fault>>
recover(m) ==
  IF fw.halted = 1
  THEN /\ processed' = fw.halt_count /\ resumes' = resumes + 1
       /\ fw' = [fw EXCEPT !.halted = 0, !.resume = 1]
       /\ UNCHANGED <<channelsBroken, fault>>
  ELSE channelsBroken' = TRUE /\ fault' = (m.kind = "fault") /\ UNCHANGED <<processed, resumes, fw>>

(* AGX.timeout skips what a recovery has dealt with; AGX.faulted has no such test *)
timeout_Always(m) == recover(m)
timeout(m) ==
  IF m.arg < processed THEN UNCHANGED <<processed, resumes, fw, channelsBroken, fault>> ELSE recover(m)
faulted(m) == recover(m)

(* GPUEventManager.fired *)
Fired(m) == fired' = fired \cup {m.arg} /\ UNCHANGED <<processed, resumes, fw, channelsBroken, fault>>

(* GPUEventChannel.handle_message on the next message of this poll.  An exception leaves READ_PTR *)
(* as it was.                                                                                     *)
handle_message ==
  /\ channelsPart = "rx" /\ ~channelsBroken /\ pos # ChannelsNone /\ pos.r # pos.w
  /\ LET m == channelsRing[pos.r]
     IN  /\ last' = [n |-> m.n, ok |-> last.ok /\ m.n = last.n + 1]
         /\ CASE m.kind = "flag" -> Fired(m)
              [] m.kind = "fault" -> faulted(m) /\ UNCHANGED fired
              [] m.kind = "timeout" -> timeout(m) /\ UNCHANGED fired
              [] OTHER -> UNCHANGED <<processed, resumes, fw, channelsBroken, fired, fault>>
  /\ pos' = [pos EXCEPT !.r = (@ + 1) % Size]
  /\ UNCHANGED <<channelsPart, channelsRing, channelsWptr, rptr, posted, txVars, channelsAsk>>

(* READ_PTR is written when the poll has caught up with the pointer it read *)
poll_Ends_Latest ==
  /\ channelsPart = "rx" /\ ~channelsBroken /\ pos # ChannelsNone /\ pos.r = pos.w
  /\ rptr' = channelsWptr /\ pos' = ChannelsNone
  /\ UNCHANGED <<channelsPart, channelsRing, channelsWptr, rxVars, channelsBroken, txVars, channelsAsk>>
poll_Ends ==
  /\ channelsPart = "rx" /\ ~channelsBroken /\ pos # ChannelsNone /\ pos.r = pos.w
  /\ rptr' = pos.r /\ pos' = ChannelsNone
  /\ UNCHANGED <<channelsPart, channelsRing, channelsWptr, rxVars, channelsBroken, txVars, channelsAsk>>

(* The submission that waits takes its events and rearms them *)
Rearms ==
  /\ channelsPart = "rx" /\ ~channelsBroken /\ fired # {} /\ fired' = {}
  /\ UNCHANGED <<channelsPart, channelsRing, channelsWptr, rptr, pos, posted, last, fw, processed, resumes, fault, channelsBroken, txVars, channelsAsk>>

(* ---------------------------- a command channel ------------------------- *)
(* send_message does not look at READ_PTR: the model stops where a message would overwrite one   *)
(* the firmware has not taken.                                                                   *)
(* GPUCmdQueueChannel.run: the first message of a queue says that the queue is new *)
channels_run_AlwaysNew ==
  /\ channelsPart = "tx" /\ ~queue.half /\ sent < MaxMsgs /\ ~Full
  /\ channelsRing' = [channelsRing EXCEPT ![channelsWptr] = Msg(sent + 1, "run", 1)]
  /\ queue' = [queue EXCEPT !.half = TRUE]
  /\ UNCHANGED <<channelsPart, channelsWptr, rptr, pos, rxVars, channelsBroken, sent, taken, channelsAsk>>
channels_run ==
  /\ channelsPart = "tx" /\ ~queue.half /\ sent < MaxMsgs /\ ~Full
  /\ channelsRing' = [channelsRing EXCEPT ![channelsWptr] = Msg(sent + 1, "run", IF queue.first_time THEN 1 ELSE 0)]
  /\ queue' = [queue EXCEPT !.half = TRUE, !.first_time = FALSE]
  /\ UNCHANGED <<channelsPart, channelsWptr, rptr, pos, rxVars, channelsBroken, sent, taken, channelsAsk>>
send_message_Ends ==
  /\ channelsPart = "tx" /\ queue.half
  /\ channelsWptr' = (channelsWptr + 1) % Size
  /\ queue' = [queue EXCEPT !.half = FALSE] /\ sent' = sent + 1
  /\ UNCHANGED <<channelsPart, channelsRing, rptr, pos, rxVars, channelsBroken, taken, channelsAsk>>

(* The link fails between the item and the pointer; the caller may submit again *)
LinkFails ==
  /\ channelsPart = "tx" /\ queue.half
  /\ queue' = [queue EXCEPT !.half = FALSE, !.told = IF channelsRing[channelsWptr].arg = 1 THEN -1 ELSE @]
  /\ UNCHANGED <<channelsPart, channelsRing, channelsWptr, rptr, pos, rxVars, channelsBroken, sent, taken, channelsAsk>>

(* The firmware takes what lies before WRITE_PTR, whichever doorbell woke it *)
ChannelsFwTakes ==
  /\ channelsPart = "tx" /\ rptr # channelsWptr
  /\ LET m == channelsRing[rptr]
     IN  /\ taken' = [n |-> m.n, ok |-> taken.ok /\ m.n = taken.n + 1]
         /\ queue' = [queue EXCEPT !.told = IF m.arg = 1 THEN (IF @ = 0 THEN 1 ELSE 2) ELSE IF @ = 0 THEN 2 ELSE @]
  /\ rptr' = (rptr + 1) % Size
  /\ UNCHANGED <<channelsPart, channelsRing, channelsWptr, pos, rxVars, channelsBroken, sent, channelsAsk>>

(* ------------------------------- layout --------------------------------- *)
(* The channels of one name: the client makes count of them, with items slots of size bytes, in *)
(* one state buffer and one ring buffer; the firmware's reader, fw/agx/channels.py, walks a list *)
(* of (size, slots) from the two addresses the initdata carries.                                *)
Kinds == [n : {"cmd", "devctrl", "event", "stats", "fwctl"}, size : {3}, items : {4}, count : {1}]
         \cup [n : {"ktrace"}, size : {5}, items : {8}, count : {1}]
         \cup [n : {"fwlog"}, size : {7}, items : {4}, count : {6}]
StateStride == 48

alloc_channels_Packed(ks) == [i \in 1 .. ks.count |-> [state |-> 32 * (i - 1), ring |-> ks.size * ks.items * (i - 1)]]
alloc_channels(ks) == [i \in 1 .. ks.count |-> [state |-> StateStride * (i - 1), ring |-> ks.size * ks.items * (i - 1)]]

channelRings(ks) == [i \in 1 .. ks.count |-> <<ks.size, ks.items>>]
Channel_init(defs) ==
  LET p[i \in 1 .. Len(defs)] == IF i = 1 THEN 0 ELSE p[i - 1] + defs[i - 1][1] * defs[i - 1][2]
  IN  [i \in 1 .. Len(defs) |-> [state |-> StateStride * (i - 1), ring |-> p[i]]]

(* init_channels gives each submission channel its doorbell number; device control has 0x11 *)
Types == <<"TA", "3D", "CL">>
channel_id_Three(index, typeid) == 3 * index + typeid
channel_id(index, typeid) == 4 * index + typeid
init_channels == [q \in (0 .. 3) \X (0 .. Len(Types) - 1) |-> channel_id(q[1], q[2])]

AskLayout ==
  /\ channelsPart = "layout" /\ channelsAsk = <<>>
  /\ \E ks \in Kinds : channelsAsk' = <<ks, alloc_channels(ks), Channel_init(channelRings(ks))>>
  /\ UNCHANGED <<channelsPart, channelsRing, channelsWptr, rptr, pos, rxVars, channelsBroken, txVars>>

ChannelsNext ==
  \/ FwFires \/ FwHalts \/ FwRepeats \/ FwResumes \/ poll \/ handle_message \/ poll_Ends \/ Rearms
  \/ channels_run \/ send_message_Ends \/ LinkFails \/ ChannelsFwTakes
  \/ AskLayout

ChannelsSpec == ChannelsInit /\ [][ChannelsNext]_channelsVars

-----------------------------------------------------------------------------
(* Type invariant. *)
ChannelsTypeOK ==
  /\ channelsPart \in {"layout", "rx", "tx"}
  /\ channelsWptr \in 0 .. Size - 1 /\ rptr \in 0 .. Size - 1
  /\ posted \in 0 .. MaxMsgs /\ sent \in 0 .. MaxMsgs
  /\ fw \in [halted : 0 .. 1, halt_count : 0 .. MaxMsgs, resume : 0 .. 1]
  /\ processed \in 0 .. MaxMsgs /\ fired \subseteq Events
  /\ fault \in BOOLEAN /\ channelsBroken \in BOOLEAN

(* Every event message is handled once and in the order the firmware posted it, although the       *)
(* firmware goes on posting while a poll runs: the poll ends at the write pointer it read and      *)
(* publishes that one.                                                                             *)
EventsInOrder == last.ok

(* Each halt is answered by one resume: halts and resumes differ by the halt in hand. *)
OneResumePerHalt == resumes + fw.halted = fw.halt_count

(* Timeouts queued behind the one that was served are recognised by their counter and skipped, so  *)
(* the client stops with "Cannot recover" only for a fault message of a halt it has recovered.     *)
StopsOnlyForFault == channelsBroken /\ channelsPart = "rx" => fault

(* The firmware takes a channel's messages whole and in order, and hears of a new queue with its   *)
(* first message and never again, unless the link failed while that first message was sent.        *)
SentInOrder == taken.ok /\ queue.told # 2

(* The firmware's reader finds the state words and the ring of every channel where the client put  *)
(* them, and no two channels of a name share a word: a state block takes 0x30 bytes, a ring all of *)
(* its slots.                                                                                      *)
LayoutsAgree ==
  channelsAsk # <<>> =>
            /\ channelsAsk[2] = channelsAsk[3]
            /\ \A i, j \in 1 .. channelsAsk[1].count : i < j =>
                 /\ channelsAsk[2][i].state + StateStride <= channelsAsk[2][j].state
                 /\ channelsAsk[2][i].ring + channelsAsk[1].size * channelsAsk[1].items <= channelsAsk[2][j].ring

(* No two channels ring the same doorbell, and none of the twelve rings device control's: the kick *)
(* of one queue cannot be taken for another's, and the low two bits tell the type.                 *)
DoorbellsApart ==
  LET ids == init_channels
  IN  /\ \A a, b \in DOMAIN ids : a # b => ids[a] # ids[b]
      /\ \A a \in DOMAIN ids : ids[a] # 17 /\ ids[a] % 4 = a[2]
=============================================================================
