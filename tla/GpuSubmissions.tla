------------------------------ MODULE GpuSubmissions ------------------------------
(***************************************************************************)
(* Submitting work to the command processor: the sessions that do          *)
(* (tools/a16gpu_p6p7.py and its relatives), the command streams they      *)
(* build, and the fake CP of tools/test-a16gpu-p6p7.py that carries them   *)
(* out.  Each section is a machine of its own.                             *)
(***************************************************************************)
EXTENDS Integers, Sequences, FiniteSets

-----------------------------------------------------------------------------
(***************************************************************************)
(* tools/a16gpu_p6p7.py and tools/a16gpu_render.py: blit, triangle, render   *)
(* on the CP that cp-fence left.  A submission is table pages, TLBI, IB,     *)
(* ring words, WPTR, host record, fence poll, verdict; the link may die      *)
(* between any two, and the GPU may be late, stall or fault.  D4 puts        *)
(* framebuffer pages in CB0's tables and must take them out again.           *)
(***************************************************************************)

CONSTANTS MaxCommands,  \* bound: commands, cp-fence included
          RingRoom      \* submissions the ring holds, cp-fence's own included

VARIABLES page,         \* CB0's tables in DRAM: L2 links, window L3, framebuffer L3 (0: empty)
          tlb,          \* framebuffer spans the TLB caches
          cb0,          \* CB0 translates (cp-fence done)
          host,         \* the host record: DRAM, and this run's copy
          ptr,          \* CP_RB_WPTR, CP_RB_RPTR
          mem,          \* ring, BV and IB fence in memptrs
          slot,         \* the stream in the IB slot
          job,          \* what the CP has: fence value, framebuffer span, stage; ghost: its stream ran to the end
          sticky,       \* an error interrupt or FSR is recorded
          todo,         \* steps of the command to come
          cleaning,     \* in framebuffer_step's finally
          why,          \* what ended the run: none, stop, bus, and ok
          reported,     \* ghost: the last submission reported done had run (none, ran, lied)
          owed,         \* ghost: a run was cut between its table writes and the TLBI
          nruns

hw == <<tlb, ptr, mem, job, sticky>>
subVars == <<page, tlb, cb0, host, ptr, mem, slot, job, sticky, todo, cleaning, why, reported, owed, nruns>>

Spans == 1 .. 2
Step(op, x) == [op |-> op, x |-> x]
Idle == job.stage \in {"none", "done"}

build_cb0_tables(win, span) == [l2 |-> {win} \cup (IF span = 0 THEN {} ELSE {"fb"}), w3 |-> win, f3 |-> span]
fb_mapped_now == "fb" \in page.l2
Reached == IF fb_mapped_now THEN page.f3 ELSE 0

-----------------------------------------------------------------------------
(* Plans.                                                                   *)

\* Only the pages that differ, the highest first, then TLBIASID.
install_tables_NoTlbi(want) ==
    (IF page.f3 = want.f3 THEN <<>> ELSE <<Step("f3", want)>>)
    \o (IF page.w3 = want.w3 THEN <<>> ELSE <<Step("w3", want)>>)
    \o (IF page.l2 = want.l2 THEN <<>> ELSE <<Step("l2", want)>>)
install_tables(want) == install_tables_NoTlbi(want) \o (IF page = want THEN <<>> ELSE <<Step("tlbi", want)>>) \o <<Step("verify", want)>>

submit(want) == <<Step("install", want), Step("ib", want), Step("kick", want), Step("save", want), Step("poll", want),
                  Step("idle", want), Step("judge", want), Step("compare", want)>>
p67_submit(win, span) == submit(build_cb0_tables(win, span))
\* R2 reads the tables back as R1 installed them.
render_submit == <<Step("verify", build_cb0_tables("render", 0))>> \o SelectSeq(submit(build_cb0_tables("render", 0)), LAMBDA t : t.op # "install")

prepare_window(win) == <<Step("install", build_cb0_tables(win, 0)), Step("save", build_cb0_tables(win, 0))>>

\* D4: the record names the span before the pages go in.
framebuffer_step_MapsFirst(span) == <<Step("enter", span)>> \o p67_submit("p6", span) \o <<Step("fbrec", span)>> \o p67_submit("p6", span) \o <<Step("leave", span)>>
framebuffer_step(span) == <<Step("fbrec", span), Step("enter", span)>> \o p67_submit("p6", span) \o p67_submit("p6", span) \o <<Step("leave", span)>>

\* Its finally; the record is cleared only once the tables show no framebuffer entry.
Unmap_RecordFirst == <<Step("fbclear", 0), Step("install", build_cb0_tables("p6", 0)), Step("unmapped", 0)>>
Unmap == <<Step("install", build_cb0_tables("p6", 0)), Step("fbgone", 0), Step("unmapped", 0)>>

cmd_blit(span, stop_after) ==
    LET arena == prepare_window("p6") \o p67_submit("p6", 0) \o p67_submit("p6", 0)
    IN  IF stop_after = "D1" THEN prepare_window("p6") ELSE IF span = 0 THEN arena ELSE arena \o framebuffer_step(span)
cmd_triangle == prepare_window("p6") \o p67_submit("p6", 0)
cmd_render == prepare_window("render") \o render_submit
Needs(kind, span) == IF kind = "blit" THEN (IF span = 0 THEN 2 ELSE 4) ELSE 1
Plan(kind, span, stop_after) == CASE kind = "blit" -> cmd_blit(span, stop_after) [] kind = "triangle" -> cmd_triangle [] kind = "render" -> cmd_render

-----------------------------------------------------------------------------
SubmitInit ==
    /\ page = [l2 |-> {}, w3 |-> "none", f3 |-> 0] /\ tlb = {} /\ cb0 = FALSE
    /\ host = [disk |-> [wptr |-> 0, seq |-> 0, fb |-> 0], run |-> [wptr |-> 0, seq |-> 0, fb |-> 0]]
    /\ ptr = [w |-> 0, r |-> 0] /\ mem = [ring |-> 0, bv |-> 0, ib |-> 0] /\ slot = 0
    /\ job = [val |-> 0, fb |-> 0, stage |-> "none", ran |-> FALSE] /\ sticky = FALSE
    /\ todo = <<>> /\ cleaning = FALSE /\ why = "none" /\ reported = "none" /\ owed = FALSE /\ nruns = 0

Resting == todo = <<>> /\ ~cleaning

\* cp-fence after a GMU boot: its own tables (the pages past them keep what they hold), zeroed ring and memptrs,
\* and its own fence, seen.
cp_fence ==
    /\ Resting /\ ~cb0 /\ nruns < MaxCommands
    /\ cb0' = TRUE /\ page' = [page EXCEPT !.l2 = {}] /\ tlb' = {} /\ owed' = FALSE
    /\ LET h == [host.disk EXCEPT !.wptr = 1, !.seq = @ + 1]
       IN  host' = [disk |-> h, run |-> h] /\ mem' = [ring |-> h.seq, bv |-> 0, ib |-> 0]
    /\ ptr' = [w |-> 1, r |-> 1] /\ job' = [val |-> 0, fb |-> 0, stage |-> "none", ran |-> FALSE] /\ sticky' = FALSE
    /\ nruns' = nruns + 1 /\ UNCHANGED <<slot, todo, cleaning, why, reported>>

\* quiesce: the streams fault, the CP is reset, the record is blank but for its sequence number.
cmd_quiesce ==
    /\ Resting /\ cb0
    /\ cb0' = FALSE /\ tlb' = {} /\ owed' = FALSE
    /\ LET h == [host.disk EXCEPT !.wptr = 0, !.fb = 0] IN host' = [disk |-> h, run |-> h]
    /\ ptr' = [w |-> 0, r |-> 0] /\ job' = [val |-> 0, fb |-> 0, stage |-> "none", ran |-> FALSE] /\ sticky' = FALSE
    /\ UNCHANGED <<page, mem, slot, todo, cleaning, why, reported, nruns>>

p67_ready_Record == cb0 /\ ptr.w = host.disk.wptr /\ ~sticky
p67_ready == cb0 /\ ptr.w = host.disk.wptr /\ ptr.r = host.disk.wptr /\ Idle /\ ~sticky
RoomFor(n) == host.disk.wptr + n <= RingRoom

Leftover == host.disk.fb # 0 \/ fb_mapped_now
p67_prologue ==
    IF Leftover THEN <<Step("install", build_cb0_tables("p6", 0)), Step("fbclear", 0), Step("fbcheck", 0)>> ELSE <<>>

Begin(kind, span, stop_after) ==
    /\ Resting /\ nruns < MaxCommands
    /\ nruns' = nruns + 1 /\ host' = [host EXCEPT !.run = host.disk]
    /\ IF p67_ready /\ RoomFor(Needs(kind, span))
       THEN todo' = p67_prologue \o Plan(kind, span, stop_after) \o <<Step("end", 0)>> /\ why' = "none"
       ELSE todo' = <<>> /\ why' = "stop"
    /\ UNCHANGED <<page, hw, cb0, slot, cleaning, reported, owed>>

-----------------------------------------------------------------------------
(* One step of the command at a time.                                       *)

Now(op) == todo # <<>> /\ Head(todo).op = op
Arg == Head(todo).x
Next1 == todo' = Tail(todo)
Rest == SelectSeq(todo, LAMBDA t : FALSE)

\* A Stop inside D4 still unmaps; anywhere else it ends the run.
Raise ==
    /\ why' = (IF why = "none" THEN "stop" ELSE why)
    /\ IF \E i \in 1 .. Len(todo) : todo[i].op = "leave"
       THEN IF \E i \in 1 .. Len(todo) : todo[i].op = "enter" THEN todo' = Rest /\ UNCHANGED cleaning ELSE todo' = Unmap /\ cleaning' = TRUE
       ELSE todo' = Rest /\ cleaning' = FALSE

install == Now("install") /\ todo' = install_tables(Arg) \o Tail(todo) /\ UNCHANGED <<page, hw, cb0, host, slot, cleaning, why, reported, owed, nruns>>

WritePage ==
    /\ todo # <<>> /\ Head(todo).op \in {"f3", "w3", "l2"}
    /\ page' = [page EXCEPT ![Head(todo).op] = Arg[Head(todo).op]]
    /\ Next1 /\ UNCHANGED <<hw, cb0, host, slot, cleaning, why, reported, owed, nruns>>

smmu_tlbi == Now("tlbi") /\ tlb' = {} /\ owed' = FALSE /\ Next1 /\ UNCHANGED <<page, cb0, host, ptr, mem, slot, job, sticky, cleaning, why, reported, nruns>>

\* Read back; verify_refs walks both ends of every reference through the image.
verify_refs(good) ==
    /\ Now("verify")
    /\ IF page = Arg /\ good THEN Next1 /\ UNCHANGED <<why, cleaning>> ELSE Raise
    /\ UNCHANGED <<page, hw, cb0, host, slot, reported, owed, nruns>>

WriteIb ==
    /\ Now("ib")
    /\ host' = [host EXCEPT !.run.seq = @ + 1] /\ slot' = host.run.seq + 1
    /\ Next1 /\ UNCHANGED <<page, hw, cb0, cleaning, why, reported, owed, nruns>>

ring_submit_AnyPointer ==
    /\ Now("kick")
    /\ ptr' = [ptr EXCEPT !.w = host.run.wptr + 1] /\ host' = [host EXCEPT !.run.wptr = @ + 1]
    /\ job' = [val |-> host.run.seq, fb |-> Arg.f3, stage |-> "queued", ran |-> FALSE] /\ Next1 /\ UNCHANGED <<why, cleaning>>
    /\ UNCHANGED <<page, tlb, cb0, mem, slot, sticky, reported, owed, nruns>>
ring_submit ==
    /\ Now("kick")
    /\ IF ptr.w = host.run.wptr /\ ptr.r = host.run.wptr /\ host.run.wptr < RingRoom
       THEN /\ ptr' = [ptr EXCEPT !.w = host.run.wptr + 1] /\ host' = [host EXCEPT !.run.wptr = @ + 1]
            /\ job' = [val |-> host.run.seq, fb |-> Arg.f3, stage |-> "queued", ran |-> FALSE] /\ Next1 /\ UNCHANGED <<why, cleaning>>
       ELSE Raise /\ UNCHANGED <<ptr, host, job>>
    /\ UNCHANGED <<page, tlb, cb0, mem, slot, sticky, reported, owed, nruns>>

\* write_host, alone or with the framebuffer field.
Save ==
    /\ todo # <<>> /\ Head(todo).op \in {"save", "fbrec", "fbclear"}
    /\ LET h == IF Head(todo).op = "save" THEN host.run ELSE [host.run EXCEPT !.fb = Arg]
       IN  host' = [disk |-> h, run |-> h]
    /\ Next1 /\ UNCHANGED <<page, hw, cb0, slot, cleaning, why, reported, owed, nruns>>

\* The fence is polled; out of reads or of time it is a Stop.
PollFence ==
    /\ Now("poll")
    /\ IF mem.ring = host.run.seq THEN Next1 /\ UNCHANGED <<why, cleaning>> ELSE Raise
    /\ UNCHANGED <<page, hw, cb0, host, slot, reported, owed, nruns>>

cp_idle ==
    /\ Now("idle")
    /\ IF ptr.r = host.run.wptr /\ Idle THEN Next1 /\ host' = [host EXCEPT !.disk = host.run] /\ UNCHANGED <<why, cleaning>> ELSE Raise /\ UNCHANGED host
    /\ UNCHANGED <<page, hw, cb0, slot, reported, owed, nruns>>

Judge_RingOnly == ~sticky
Judge == ~sticky /\ mem.bv = host.run.seq /\ mem.ib = host.run.seq
Verdict ==
    /\ Now("judge")
    /\ IF Judge THEN reported' = (IF job.ran THEN "ran" ELSE "lied") /\ Next1 /\ UNCHANGED <<why, cleaning>> ELSE Raise /\ UNCHANGED reported
    /\ UNCHANGED <<page, hw, cb0, host, slot, owed, nruns>>

\* The readback: pixels right, guard bands and everything outside untouched; or not.
check_region(good) ==
    /\ Now("compare")
    /\ IF good THEN Next1 /\ UNCHANGED <<why, cleaning>> ELSE Raise
    /\ UNCHANGED <<page, hw, cb0, host, slot, reported, owed, nruns>>

Enter == Now("enter") /\ Next1 /\ UNCHANGED <<page, hw, cb0, host, slot, cleaning, why, reported, owed, nruns>>
Leave_Mapped == Now("leave") /\ Next1 /\ UNCHANGED <<page, hw, cb0, host, slot, cleaning, why, reported, owed, nruns>>
Leave == Now("leave") /\ todo' = Unmap \o Tail(todo) /\ cleaning' = TRUE /\ UNCHANGED <<page, hw, cb0, host, slot, why, reported, owed, nruns>>

FbGone ==
    /\ Now("fbgone")
    /\ host' = IF fb_mapped_now THEN host ELSE [disk |-> [host.run EXCEPT !.fb = 0], run |-> [host.run EXCEPT !.fb = 0]]
    /\ Next1 /\ UNCHANGED <<page, hw, cb0, slot, cleaning, why, reported, owed, nruns>>
Unmapped ==
    /\ todo # <<>> /\ Head(todo).op \in {"unmapped", "fbcheck"}
    /\ IF fb_mapped_now THEN Raise ELSE Next1 /\ cleaning' = FALSE /\ UNCHANGED why
    /\ UNCHANGED <<page, hw, cb0, host, slot, reported, owed, nruns>>
End == Now("end") /\ todo' = <<>> /\ why' = "ok" /\ UNCHANGED <<page, hw, cb0, host, slot, cleaning, reported, owed, nruns>>

\* The link dies, or an access aborts: nothing more is sent, not even by the finally.
LinkDies ==
    /\ todo # <<>>
    /\ todo' = <<>> /\ cleaning' = FALSE /\ why' = "bus"
    /\ owed' = (owed \/ \E i \in 1 .. Len(todo) : /\ todo[i].op = "tlbi" /\ \A j \in 1 .. i : todo[j].op \notin {"install", "verify"})
    /\ UNCHANGED <<page, hw, cb0, host, slot, reported, nruns>>

-----------------------------------------------------------------------------
(* The GPU.                                                                  *)

GpuBv == job.stage = "queued" /\ job' = [job EXCEPT !.stage = "running"] /\ mem' = [mem EXCEPT !.bv = job.val] /\ UNCHANGED <<page, tlb, cb0, host, ptr, slot, sticky, todo, cleaning, why, reported, owed, nruns>>

\* A walk caches what it finds.
GpuTouches ==
    /\ job.stage = "running" /\ job.fb # 0 /\ Reached # 0 /\ Reached \notin tlb
    /\ tlb' = tlb \cup {Reached}
    /\ UNCHANGED <<page, cb0, host, ptr, mem, slot, job, sticky, todo, cleaning, why, reported, owed, nruns>>

\* The stream ends, is cut short, or faults (its framebuffer is gone, or an error of its own).
GpuIb(outcome) ==
    /\ job.stage = "running"
    /\ outcome = "fine" => (job.fb = 0 \/ job.fb \in tlb \/ Reached = job.fb)
    /\ job' = [job EXCEPT !.stage = "ended", !.ran = (outcome = "fine" /\ slot = job.val)]
    /\ mem' = [mem EXCEPT !.ib = IF outcome = "short" THEN @ ELSE job.val]
    /\ sticky' = (sticky \/ outcome = "fault")
    /\ UNCHANGED <<page, tlb, cb0, host, ptr, slot, todo, cleaning, why, reported, owed, nruns>>

\* BR waits for BV's fence, then commits the ring fence.
GpuFence ==
    /\ job.stage = "ended"
    /\ mem' = [mem EXCEPT !.ring = job.val] /\ job' = [job EXCEPT !.stage = "done"] /\ ptr' = [ptr EXCEPT !.r = ptr.w]
    /\ UNCHANGED <<page, tlb, cb0, host, slot, sticky, todo, cleaning, why, reported, owed, nruns>>

SubmitNext ==
    \/ cp_fence \/ cmd_quiesce
    \/ \E span \in {0} \cup Spans, s \in {"D1", "none"} : Begin("blit", span, s)
    \/ \E k \in {"triangle", "render"} : Begin(k, 0, "none")
    \/ install \/ WritePage \/ smmu_tlbi \/ (\E g \in BOOLEAN : verify_refs(g)) \/ WriteIb \/ ring_submit \/ Save \/ PollFence \/ cp_idle \/ Verdict
    \/ \E g \in BOOLEAN : check_region(g)
    \/ Enter \/ Leave \/ FbGone \/ Unmapped \/ End \/ LinkDies
    \/ GpuBv \/ GpuTouches \/ (\E o \in {"fine", "short", "fault"} : GpuIb(o)) \/ GpuFence

SubmitSpec == SubmitInit /\ [][SubmitNext]_subVars
-----------------------------------------------------------------------------
SubmitTypeOK ==
    /\ page.l2 \subseteq {"p6", "render", "fb"} /\ page.w3 \in {"none", "p6", "render"} /\ page.f3 \in {0} \cup Spans
    /\ tlb \subseteq Spans /\ why \in {"none", "stop", "bus", "ok"} /\ ptr.w \in 0 .. RingRoom /\ ptr.r \in 0 .. ptr.w
    /\ job.stage \in {"none", "queued", "running", "ended", "done"} /\ nruns \in 0 .. MaxCommands

\* A framebuffer page the GPU can reach is named by the record in DRAM, whatever was cut short (framebuffer_step
\* records the span before mapping it and forgets it only when the tables show it gone).
FbRecorded == cb0 /\ Reached # 0 => host.disk.fb = Reached

\* Nothing but D4 runs with framebuffer pages in CB0 or in its TLB: a submission of another kind finds none, unless a
\* run was cut between its table writes and the TLBI.
OnlyD4SeesPanel == ~Idle /\ job.fb = 0 => (Reached = 0 /\ (tlb = {} \/ owed))

\* A submission reported as done ran its own stream to the end without a fault: the ring fence alone does not show it.
ReportedRan == reported # "lied"

\* The stream of a job the CP still has is never overwritten, and a job is never queued behind another.
StreamStable == job.stage \in {"queued", "running"} => slot = job.val

\* A run that ended well left no framebuffer page in CB0 and none in the record.
CleanEnd == (why = "ok" /\ todo = <<>>) => (Reached = 0 /\ (cb0 => host.disk.fb = 0 /\ ~fb_mapped_now))

-----------------------------------------------------------------------------
(***************************************************************************)
(* The command streams of tools/a16gpu_p6p7.py and tools/a16gpu_render.py,   *)
(* run against the caches they must flush: the colour cache (CCU) in front   *)
(* of UCHE in front of DRAM, and the texture cache (CCHE) in front of UCHE.  *)
(* The CP runs ahead of the pipeline until CP_WAIT_FOR_IDLE; the CPU uploads *)
(* into DRAM behind the caches' back between two submissions.                *)
(* A packet is its effect: register packets only configure and are left out. *)
(***************************************************************************)

CONSTANTS MaxSubmissions,   \* bound: submissions
          Ahead             \* bound: packets the CP is ahead of the pipeline

VARIABLES dram,         \* target (inside and around the rectangle) and source in DRAM
          uche, ccu,    \* cached target: present, dirty, its bytes
          src,          \* cached source: in UCHE, in CCHE; 0 for none
          cs,           \* packets the CP has not issued
          pipe,         \* packets issued and not executed
          fences,       \* ring, BV, IB
          bv,           \* the BV thread has its fence to commit
          sub,          \* the submission's number and kind
          state,        \* host: upload, run, check
          draws,        \* the drawing packets executed in this submission
          saw           \* the source versions drawing packets read

streamVars == <<dram, uche, ccu, src, cs, pipe, fences, bv, sub, state, draws, saw>>

None == [has |-> FALSE, dirty |-> FALSE, t |-> [in |-> 0, out |-> 0]]

-----------------------------------------------------------------------------
(* The builders.                                                            *)

emit_flushes_InvalidateFirst(ccu_color, inv_ccu_color, cache, inv_cche, wfi) ==
    (IF inv_ccu_color THEN <<"CCU_INVALIDATE_COLOR">> ELSE <<>>) \o (IF ccu_color \/ inv_ccu_color THEN <<"CCU_CLEAN_COLOR">> ELSE <<>>)
    \o (IF cache THEN <<"CACHE_CLEAN">> ELSE <<>>)
    \o (IF inv_cche THEN <<"WFI", "CCHE_INVALIDATE">> ELSE <<>>) \o (IF wfi THEN <<"WFI">> ELSE <<>>)
emit_flushes(ccu_color, inv_ccu_color, cache, inv_cche, wfi) ==
    (IF ccu_color \/ inv_ccu_color THEN <<"CCU_CLEAN_COLOR">> ELSE <<>>) \o (IF inv_ccu_color THEN <<"CCU_INVALIDATE_COLOR">> ELSE <<>>)
    \o (IF cache THEN <<"CACHE_CLEAN">> ELSE <<>>)
    \o (IF inv_cche THEN <<"WFI", "CCHE_INVALIDATE">> ELSE <<>>) \o (IF wfi THEN <<"WFI">> ELSE <<>>)

emit_restore_KeepsUche == <<"CCU_INVALIDATE_COLOR", "CCHE_INVALIDATE", "WFI">>
emit_restore == <<"CCU_INVALIDATE_COLOR", "CCHE_INVALIDATE", "CACHE_INVALIDATE7", "WFI">>

emit_2d_clear == <<"CLEAR">>
emit_2d_copy == emit_flushes(TRUE, TRUE, FALSE, FALSE, FALSE) \o <<"COPY">> \o emit_flushes(TRUE, FALSE, TRUE, FALSE, TRUE)
emit_nondraw_batch(body) == emit_restore \o body \o emit_flushes(TRUE, TRUE, TRUE, TRUE, TRUE)
emit_ib_fence == <<"CACHE_FLUSH_TS">>

build_p6_clear_ib == emit_nondraw_batch(emit_flushes(TRUE, TRUE, FALSE, FALSE, FALSE) \o emit_2d_clear \o emit_flushes(TRUE, FALSE, TRUE, FALSE, TRUE)) \o emit_ib_fence
build_p6_copy_ib == emit_nondraw_batch(emit_2d_copy) \o emit_ib_fence
\* A full clear through the 2D engine, then the draw.
build_p7_ib ==
    emit_restore \o emit_flushes(TRUE, TRUE, FALSE, TRUE, TRUE) \o emit_2d_clear \o emit_flushes(TRUE, TRUE, FALSE, FALSE, FALSE)
    \o emit_flushes(TRUE, TRUE, FALSE, TRUE, TRUE) \o <<"DRAW">> \o emit_flushes(TRUE, TRUE, TRUE, TRUE, TRUE) \o <<"CACHE_CLEAN">> \o emit_ib_fence
\* No clear: every target starts from its uploaded contents.
build_ib == emit_restore \o <<"DRAW">> \o emit_flushes(TRUE, TRUE, TRUE, TRUE, TRUE) \o <<"CACHE_CLEAN">> \o emit_ib_fence

\* BV commits its fence, BR waits for it and commits the ring fence, both with CACHE_CLEAN.
ring_words_NoWait(ib) == ib \o <<"CCU_INVALIDATE_COLOR", "BV_FENCE", "RING_FENCE">>
ring_words(ib) == ib \o <<"CCU_INVALIDATE_COLOR", "BV_FENCE", "WAIT_BV", "RING_FENCE">>

Kinds == {"p6-clear", "p6-copy", "p7", "render"}
Stream(kind) == CASE kind = "p6-clear" -> build_p6_clear_ib [] kind = "p6-copy" -> build_p6_copy_ib [] kind = "p7" -> build_p7_ib [] kind = "render" -> build_ib

-----------------------------------------------------------------------------
(* The host: upload, submit, wait for the ring fence, read back.            *)

StreamInit ==
    /\ dram = [t |-> [in |-> 0, out |-> 0], s |-> 0] /\ uche = None /\ ccu = None /\ src = [uche |-> 0, cche |-> 0]
    /\ cs = <<>> /\ pipe = <<>> /\ fences = [ring |-> 0, bv |-> 0, ib |-> 0] /\ bv = FALSE /\ sub = [n |-> 0, kind |-> "p6-clear"]
    /\ state = "upload" /\ draws = 0 /\ saw = {}

\* Canary and source go to DRAM, then the wptr moves.
upload(kind) ==
    /\ state = "upload" /\ sub.n < MaxSubmissions
    /\ sub' = [n |-> sub.n + 1, kind |-> kind]
    /\ dram' = [t |-> [in |-> -sub.n - 1, out |-> -sub.n - 1], s |-> sub.n + 1]
    /\ cs' = ring_words(Stream(kind)) /\ draws' = 0 /\ saw' = {} /\ state' = "run"
    /\ UNCHANGED <<uche, ccu, src, pipe, fences, bv>>

FenceSeen == state = "run" /\ fences.ring = sub.n /\ state' = "check" /\ UNCHANGED <<dram, uche, ccu, src, cs, pipe, fences, bv, sub, draws, saw>>
Compared == state = "check" /\ state' = "upload" /\ UNCHANGED <<dram, uche, ccu, src, cs, pipe, fences, bv, sub, draws, saw>>

-----------------------------------------------------------------------------
(* The CP and the caches.                                                   *)

\* Packets the CP runs itself; the rest go down the pipeline.
CpPackets == {"WFI", "CCHE_INVALIDATE", "WAIT_BV", "BV_FENCE"}

Issue ==
    /\ cs # <<>> /\ Head(cs) \notin CpPackets /\ Len(pipe) < Ahead
    /\ pipe' = Append(pipe, Head(cs)) /\ cs' = Tail(cs)
    /\ UNCHANGED <<dram, uche, ccu, src, fences, bv, sub, state, draws, saw>>

RunCp ==
    /\ cs # <<>> /\ Head(cs) \in CpPackets
    /\ Head(cs) = "WFI" => pipe = <<>>
    /\ Head(cs) = "WAIT_BV" => fences.bv = sub.n
    /\ src' = IF Head(cs) = "CCHE_INVALIDATE" THEN [src EXCEPT !.cche = 0] ELSE src
    /\ bv' = (bv \/ Head(cs) = "BV_FENCE")
    /\ cs' = Tail(cs) /\ UNCHANGED <<dram, uche, ccu, pipe, fences, sub, state, draws, saw>>

BvCommits == bv /\ bv' = FALSE /\ fences' = [fences EXCEPT !.bv = sub.n] /\ UNCHANGED <<dram, uche, ccu, src, cs, pipe, sub, state, draws, saw>>

\* A dirty UCHE line reaches DRAM.
Cleaned == IF uche.dirty THEN [dram EXCEPT !.t = uche.t] ELSE dram
Fetched == IF ccu.has THEN ccu.t ELSE IF uche.has THEN uche.t ELSE dram.t
Sampled == IF src.cche # 0 THEN src.cche ELSE IF src.uche # 0 THEN src.uche ELSE dram.s

Drawing(p) ==
    /\ p \in {"CLEAR", "COPY", "DRAW"}
    /\ draws' = draws + 1
    /\ ccu' = [has |-> TRUE, dirty |-> TRUE, t |-> [in |-> 10 * sub.n + draws + 1, out |-> Fetched.out]]
    /\ IF p = "CLEAR" THEN UNCHANGED <<src, saw>> ELSE saw' = saw \cup {Sampled} /\ src' = [uche |-> IF src.cche # 0 THEN src.uche ELSE Sampled, cche |-> Sampled]
    /\ UNCHANGED <<dram, uche, fences>>

Flushing(p) ==
    /\ CASE p = "CCU_CLEAN_COLOR" ->
              /\ uche' = (IF ccu.dirty THEN ccu ELSE uche) /\ ccu' = [ccu EXCEPT !.dirty = FALSE] /\ UNCHANGED <<dram, src, fences>>
         [] p = "CCU_INVALIDATE_COLOR" -> ccu' = None /\ UNCHANGED <<dram, uche, src, fences>>
         [] p = "CACHE_CLEAN" -> dram' = Cleaned /\ uche' = [uche EXCEPT !.dirty = FALSE] /\ UNCHANGED <<ccu, src, fences>>
         [] p = "CACHE_INVALIDATE7" -> uche' = None /\ src' = [src EXCEPT !.uche = 0] /\ UNCHANGED <<dram, ccu, fences>>
         [] p = "CACHE_FLUSH_TS" -> dram' = Cleaned /\ uche' = [uche EXCEPT !.dirty = FALSE] /\ fences' = [fences EXCEPT !.ib = sub.n] /\ UNCHANGED <<ccu, src>>
         [] p = "RING_FENCE" -> dram' = Cleaned /\ uche' = [uche EXCEPT !.dirty = FALSE] /\ fences' = [fences EXCEPT !.ring = sub.n] /\ UNCHANGED <<ccu, src>>
         [] OTHER -> FALSE
    /\ UNCHANGED <<draws, saw>>

Execute ==
    /\ pipe # <<>> /\ pipe' = Tail(pipe)
    /\ Drawing(Head(pipe)) \/ Flushing(Head(pipe))
    /\ UNCHANGED <<cs, sub, state, bv>>

\* Lines leave a cache when it likes, dirty ones downwards.
EvictCcu == ccu.has /\ ccu' = None /\ uche' = (IF ccu.dirty THEN ccu ELSE uche) /\ UNCHANGED <<dram, src, cs, pipe, fences, bv, sub, state, draws, saw>>
EvictUche == uche.has /\ uche' = None /\ dram' = Cleaned /\ UNCHANGED <<ccu, src, cs, pipe, fences, bv, sub, state, draws, saw>>

StreamNext == (\E k \in Kinds : upload(k)) \/ FenceSeen \/ Compared \/ Issue \/ RunCp \/ BvCommits \/ Execute \/ EvictCcu \/ EvictUche

StreamSpec == StreamInit /\ [][StreamNext]_streamVars
-----------------------------------------------------------------------------
StreamTypeOK == sub.n \in 0 .. MaxSubmissions /\ Len(pipe) <= Ahead /\ draws \in 0 .. 2 /\ state \in {"upload", "run", "check"} /\ fences.ring <= sub.n

\* When the ring fence reads as this submission's, the last drawing packet's pixels are in DRAM and the bytes around them
\* are the ones the CPU uploaded: what cmd_blit, cmd_triangle and cmd_render then read and compare.
PixelsBeforeFence == state = "check" => (dram.t = [in |-> 10 * sub.n + draws, out |-> -sub.n] /\ draws > 0)

\* Every copy and draw read the source uploaded for this submission, not a line cached by an earlier one.
SamplesFresh == saw \subseteq {sub.n}

\* The IB's own fence and BV's come before the ring's: at the ring fence all three carry this submission's value.
FencesInOrder == fences.ring <= fences.bv /\ fences.ring <= fences.ib

-----------------------------------------------------------------------------
(***************************************************************************)
(* FakeP67 of tools/test-a16gpu-p6p7.py, the command processor the tests   *)
(* of the 2D and 3D commands run against: the packets of the ring and of   *)
(* an indirect buffer, render writes that stay in the CCU until an event   *)
(* cleans it, and the panel's rows that a test allows.  Beside it the      *)
(* tests' Walker, which reads the same streams for comparison.             *)
(*                                                                         *)
(* The stream is any sequence of packets.  The panel is Rows rows of two   *)
(* pixels; the test allows its last row.  Registers A and B stand for all. *)
(***************************************************************************)

CONSTANTS Rows, MaxPackets

VARIABLES part, packets, viols, me_init, stall,
          cpCcu, cpMem, drawn, fence, tangled, ran,              \* render writes
          marker_mode, loaded,                               \* what a blit and a draw need
          regs, wregs, groups                                \* registers: the fake's, the Walker's, its draw-state groups

paint == <<cpCcu, cpMem, drawn, fence, tangled, ran>>
cp_state == <<marker_mode, loaded>>
files == <<regs, wregs, groups>>
cpVars == <<part, packets, viols, me_init, stall, cpCcu, cpMem, drawn, fence, tangled, ran, marker_mode, loaded, regs, wregs, groups>>

Cells == 1 .. 2 * Rows
RowOf(c) == (c + 1) \div 2
Names == {"A", "B"}
Packet == packets < MaxPackets /\ ~stall /\ packets' = packets + 1
Report(v) == viols' = viols \cup {v}

CpInit ==
  /\ part \in {"paint", "walk"} /\ packets = 0 /\ viols = {} /\ me_init = FALSE /\ stall = FALSE
  /\ cpCcu = <<>> /\ cpMem = [c \in Cells |-> 0] /\ drawn = [c \in Cells |-> 0] /\ fence = 0 /\ tangled = FALSE /\ ran = FALSE
  /\ marker_mode = "none" /\ loaded = {}
  /\ regs = [r \in Names |-> 0] /\ wregs = [r \in Names |-> 0] /\ groups = <<>>

(* ------------------------------ the ring -------------------------------- *)
(* ring_packet: CP_ME_INIT, and a write or an indirect buffer before it *)
MeInit ==
  /\ Packet /\ ~me_init /\ \/ me_init' = TRUE /\ UNCHANGED viols
                           \/ Report("early") /\ UNCHANGED me_init
  /\ UNCHANGED <<part, stall, paint, cp_state, files>>
(* CP_WAIT_TIMESTAMP: the ring stands still for good while the memory is short of it *)
WaitTimestamp ==
  /\ part = "paint" /\ Packet /\ me_init /\ \E n \in 1 .. 2 : stall' = (fence < n)
  /\ UNCHANGED <<part, viols, me_init, paint, cp_state, files>>

(* --------------------------- render writes ------------------------------ *)
Covers(w) == w[1] .. w[1] + w[2] - 1
(* The CCU is keyed by address: a second write to one replaces the first in its place *)
Kept(w) ==
  IF \E i \in 1 .. Len(cpCcu) : cpCcu[i][1] = w[1]
  THEN [i \in 1 .. Len(cpCcu) |-> IF cpCcu[i][1] = w[1] THEN w ELSE cpCcu[i]]
  ELSE Append(cpCcu, w)
Tangles(w) ==
  \E i \in 1 .. Len(cpCcu) : cpCcu[i][1] = w[1]
     /\ (cpCcu[i][2] > w[2] \/ \E j \in i + 1 .. Len(cpCcu) : Covers(cpCcu[j]) \cap Covers(w) # {})
Outside_Unasked(c) == FALSE
Outside(c) == RowOf(c) # Rows
(* gpu_write: the row is that of the first byte *)
gpu_write(c, n) ==
  LET w == <<c, n, packets + 1>>
  IN  /\ cpCcu' = Kept(w) /\ tangled' = (tangled \/ Tangles(w))
      /\ drawn' = [k \in Cells |-> IF k \in Covers(w) THEN packets + 1 ELSE drawn[k]]
      /\ ran' = (ran \/ RowOf(c + n - 1) # RowOf(c))
      /\ viols' = viols \cup (IF Outside(c) THEN {"rows"} ELSE {})
      /\ UNCHANGED <<cpMem, fence>>
(* ccu_clean: in the order of the keys *)
Landed ==
  [c \in Cells |->
     LET on == {i \in 1 .. Len(cpCcu) : c \in Covers(cpCcu[i])}
     IN  IF on = {} THEN cpMem[c] ELSE cpCcu[CHOOSE i \in on : \A j \in on : j <= i][3]]
SetMarker ==
  /\ part = "paint" /\ Packet /\ me_init /\ \E m \in {"blit", "direct"} : marker_mode' = m
  /\ UNCHANGED <<part, viols, me_init, stall, paint, loaded, files>>
(* load_state: the constants' buffers, the texture, the sampler *)
load_state ==
  /\ part = "paint" /\ Packet /\ me_init /\ loaded' = {"ubo", "tex", "samp"}
  /\ UNCHANGED <<part, viols, me_init, stall, paint, marker_mode, files>>
(* blit: a row of pixels, outside its mode nothing *)
blit ==
  /\ part = "paint" /\ Packet /\ me_init
  /\ IF marker_mode # "blit" THEN Report("blit") /\ UNCHANGED paint
     ELSE \E c \in Cells, n \in 1 .. 2 : c + n - 1 \in Cells /\ gpu_write(c, n)
  /\ UNCHANGED <<part, me_init, stall, cp_state, files>>
(* draw: pixel by pixel, nothing without its mode and its state *)
draw ==
  /\ part = "paint" /\ Packet /\ me_init
  /\ IF marker_mode # "direct" \/ loaded # {"ubo", "tex", "samp"} THEN Report("draw") /\ UNCHANGED paint
     ELSE \E c \in Cells : gpu_write(c, 1)
  /\ UNCHANGED <<part, me_init, stall, cp_state, files>>
(* event: a clean first, then the value it carries *)
Cleans_NotFlush(name) == name = "CCU_CLEAN_COLOR"
Cleans(name) == name \in {"CCU_CLEAN_COLOR", "CACHE_FLUSH_TS"}
event ==
  /\ part = "paint" /\ Packet /\ me_init
  /\ \E name \in {"CCU_CLEAN_COLOR", "CACHE_FLUSH_TS", "CACHE_INVALIDATE"} :
       /\ IF Cleans(name) THEN cpMem' = Landed /\ cpCcu' = <<>> ELSE UNCHANGED <<cpMem, cpCcu>>
       /\ fence' = (IF name = "CACHE_FLUSH_TS" THEN packets ELSE fence)
  /\ UNCHANGED <<part, viols, me_init, stall, drawn, tangled, ran, cp_state, files>>

(* -------------------- registers, and the Walker ------------------------- *)
(* run_ib and ib_packet: PKT4 and the two bunches write registers; Walker.walk does the same *)
Body(kind, r, v) == IF kind = "ncrb" THEN <<<<"A", 0>>, <<r, v>>>> ELSE <<<<r, v>>>>   \* its header 1, 0 looks like a pair
Apply(file, ps) == [r \in Names |-> LET on == {i \in 1 .. Len(ps) : ps[i][1] = r}
                                    IN  IF on = {} THEN file[r] ELSE ps[CHOOSE i \in on : \A j \in on : j <= i][2]]
Walked_Header(kind, b) == b
Walked(kind, b) == IF kind = "ncrb" THEN Tail(b) ELSE b
WriteRegs ==
  /\ part = "walk" /\ Packet
  /\ \E v \in 1 .. 2, kind \in {"pkt4", "crb", "ncrb"}, r \in Names :
       LET b == Body(kind, r, v)
       IN  /\ regs' = Apply(regs, IF kind = "ncrb" THEN Tail(b) ELSE b)
           /\ wregs' = Apply(wregs, Walked(kind, b))
  /\ UNCHANGED <<part, viols, me_init, stall, paint, cp_state, groups>>
(* CP_SET_DRAW_STATE: the fake runs only the packet that drops every group *)
Complains_Never == viols
Complains == viols \cup {"group"}
SetDrawState ==
  /\ part = "walk" /\ Packet
  /\ \/ groups' = <<>> /\ UNCHANGED viols
     \/ \E r \in Names : groups' = <<r, 2>> /\ viols' = Complains
  /\ UNCHANGED <<part, me_init, stall, paint, cp_state, regs, wregs>>
(* CP_DRAW_INDX_OFFSET: the Walker applies the groups that are set, and remembers the registers *)
WalkDraw ==
  /\ part = "walk" /\ Packet
  /\ wregs' = IF groups = <<>> THEN wregs ELSE [wregs EXCEPT ![groups[1]] = groups[2]]
  /\ UNCHANGED <<part, viols, me_init, stall, paint, cp_state, regs, groups>>

CpNext ==
  \/ MeInit \/ WaitTimestamp \/ SetMarker \/ load_state \/ blit \/ draw \/ event
  \/ WriteRegs \/ SetDrawState \/ WalkDraw

CpSpec == CpInit /\ [][CpNext]_cpVars

-----------------------------------------------------------------------------
(* Type invariant. *)
CpTypeOK ==
  /\ packets \in 0 .. MaxPackets /\ cpMem \in [Cells -> 0 .. MaxPackets] /\ drawn \in [Cells -> 0 .. MaxPackets]
  /\ fence \in 0 .. MaxPackets /\ marker_mode \in {"none", "blit", "direct"} /\ Len(cpCcu) <= MaxPackets
  /\ regs \in [Names -> 0 .. 2] /\ wregs \in [Names -> 0 .. 2]

(* What was drawn before a fence of CACHE_FLUSH_TS is in memory when the fence is, unless the CCU's  *)
(* order was lost by a second write to an address with another write over it in between.             *)
FencedIsInMemory == ~tangled => \A c \in Cells : drawn[c] <= fence => cpMem[c] = drawn[c]

(* A pixel outside the rows the test allows reaches memory only with a violation put down, but for a *)
(* write that runs over the end of its row.                                                          *)
OutsideSeen == (\E c \in Cells : RowOf(c) # Rows /\ cpMem[c] # 0) => "rows" \in viols \/ ran

(* Where the fake runs a stream of registers without complaint, the Walker has seen the same         *)
(* registers at every draw: the two readings of the stream agree.                                    *)
WalkersAgree == part = "walk" => wregs = regs \/ "group" \in viols
=============================================================================
