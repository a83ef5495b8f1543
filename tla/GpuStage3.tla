--------------------------------- MODULE GpuStage3 ---------------------------------
(***************************************************************************)
(* What stage 3 of the GPU bring-up (tools/a16gpu_stage3.py) sets up: the  *)
(* stream routes of the SMMU, the order in which the GMU and the CP are    *)
(* started, and the tables and votes it computes.  Each section is a       *)
(* machine of its own.                                                     *)
(***************************************************************************)
EXTENDS Integers, Sequences, TLC, FiniteSetsExt, SequencesExt

-----------------------------------------------------------------------------
(***************************************************************************)
(* The SMMU half of tools/a16gpu_stage3.py: how gmu-smmu, cp-fence, quiesce *)
(* and arena --release route the streams of the GPU (SID 0 and 1) and of    *)
(* the GMU (SID 5).  A command reads the registers, decides, and becomes a  *)
(* sequence of register writes; each write is a step, and between any two   *)
(* the link may fail or a poll time out.  The next command starts from      *)
(* whatever the registers then hold.                                        *)
(***************************************************************************)

CONSTANTS Arenas,     \* addresses an arena may be claimed at
          Firmware,   \* what the firmware may leave in the stream table: sets of [id, mask, type]
          MaxRuns     \* bound: commands in one behaviour

VARIABLES smr,        \* SMMU_SMR: the stream a group matches
          s2cr,       \* SMMU_S2CR: what a match does: Fault, Bypass or the bank it goes through
          bank,       \* CB0 and CB1: SCTLR.M and the configuration written last
          usfcfg,     \* sCR0.USFCFG: unmatched streams fault
          gmuLive,    \* the CM3 is out of reset
          sqeOn,      \* CP_SQE_CNTL
          arena,      \* the arena gpu_call publishes, 0 without one
          noted,      \* the host record says the GPU uses the arena
          todo,       \* register writes of the running command that are still to come
          smmuRuns    \* commands so far

smmuVars == <<smr, s2cr, bank, usfcfg, gmuLive, sqeOn, arena, noted, todo, smmuRuns>>

Fault == -1
Bypass == -2
None == -3
Groups == 0 .. 3
Banks == 0 .. 1
Sids == {0, 1, 5}
MustFault == {2, 4, 7}
Off == [valid |-> FALSE, id |-> 0, mask |-> 0]
Exactly(sid) == [valid |-> TRUE, id |-> sid, mask |-> 0]
Bit(v, b) == (v \div 2^b) % 2

smr_matches(e, sid) == e.valid /\ \A b \in 0 .. 2 : Bit(e.mask, b) = 1 \/ Bit(e.id, b) = Bit(sid, b)

Hits(sid) == {n \in Groups : smr_matches(smr[n], sid)}

sids_reaching_memory(S) == {sid \in S : \/ \E n \in Hits(sid) : s2cr[n] # Fault
                                        \/ Hits(sid) = {} /\ ~usfcfg}

\* The configuration smmu_program writes for this arena; wide is the --va-wide T0SZ of CB0.
Expected(cb, wide) == [on |-> TRUE, cfg |-> <<arena, wide /\ cb = 0>>]

Verified(expect) ==
    /\ usfcfg
    /\ \A sid \in DOMAIN expect : \E n \in Groups : Hits(sid) = {n} /\ s2cr[n] = expect[sid]
    /\ \A sid \in MustFault : \A n \in Hits(sid) : s2cr[n] = Fault

-----------------------------------------------------------------------------
\* The register writes of each helper, in order; "stop" raises Stop.

Stop == <<<<"stop">>>>
Detach(n) == <<<<"s2cr", n, Fault>>, <<"smr", n, Off>>>>
Attach(n, sid, cb) == <<<<"s2cr", n, cb>>, <<"smr", n, Exactly(sid)>>>>
Tlbi(cb) == <<<<"tlbi", cb>>>>

smmu_program_RoutesFirst(cb, n, sid, wide) ==
    CASE bank[cb] = Expected(cb, wide) /\ smr[n] = Exactly(sid) /\ s2cr[n] = cb -> <<>>
      [] OTHER -> Attach(n, sid, cb) \o <<<<"on", cb, FALSE>>, <<"cfg", cb, wide>>, <<"on", cb, TRUE>>>> \o Tlbi(cb)

smmu_program(cb, n, sid, wide) ==
    CASE bank[cb] = Expected(cb, wide) /\ smr[n] = Exactly(sid) /\ s2cr[n] = cb -> <<>>
      [] bank[cb].on /\ bank[cb] # Expected(cb, wide) -> Stop
      [] smr[n].valid /\ smr[n] # Exactly(sid) -> Stop
      [] OTHER -> (IF smr[n].valid THEN Detach(n) \o Tlbi(cb) ELSE <<>>)
                  \o <<<<"on", cb, FALSE>>, <<"cfg", cb, wide>>, <<"on", cb, TRUE>>>> \o Tlbi(cb)
                  \o <<<<"readback", cb>>>> \o Attach(n, sid, cb)

smmu_disable(cb, n, sid) ==
    IF smr[n].valid /\ smr[n].id # sid THEN Stop ELSE Detach(n) \o <<<<"on", cb, FALSE>>>> \o Tlbi(cb)

smmu_route(n, sid, cb) ==
    CASE smr[n] = Exactly(sid) /\ s2cr[n] = cb -> <<>>
      [] smr[n].valid /\ smr[n] # Exactly(sid) -> Stop
      [] OTHER -> Attach(n, sid, cb)

smmu_unroute(n, sid) ==
    CASE ~smr[n].valid -> <<>>
      [] smr[n].id # sid -> Stop
      [] OTHER -> Detach(n)

ensure_usfcfg == IF usfcfg THEN <<>> ELSE <<<<"usfcfg">>>>

-----------------------------------------------------------------------------
\* The commands.

Begins == todo = <<>> /\ smmuRuns < MaxRuns /\ smmuRuns' = smmuRuns + 1
Plan(writes) == todo' = writes
Registers == <<smr, s2cr, bank, usfcfg>>

Claim ==
    /\ Begins /\ arena = 0 /\ arena' \in Arenas
    /\ UNCHANGED <<Registers, gmuLive, sqeOn, noted, todo>>

cmd_gmu_smmu(undo) ==
    /\ Begins /\ arena # 0
    /\ Plan(CASE undo /\ gmuLive -> Stop
              [] undo -> smmu_disable(1, 1, 5) \o <<<<"note", FALSE>>>>
              [] gmuLive -> (IF bank[1] = Expected(1, FALSE) THEN <<>> ELSE Stop) \o ensure_usfcfg
                            \o <<<<"verify", {5}>>, <<"note", TRUE>>>>
              [] OTHER -> smmu_program(1, 1, 5, FALSE) \o ensure_usfcfg \o <<<<"verify", {5}>>, <<"note", TRUE>>>>)
    /\ UNCHANGED <<Registers, gmuLive, sqeOn, arena, noted>>

\* gmu-boot starts the CM3 on a bank it has just read back; GX may have been powered off meanwhile.
gmu_smmu_proven ==
    /\ Begins /\ arena # 0 /\ ~gmuLive
    /\ bank[1] = Expected(1, FALSE) /\ Verified(5 :> 1)
    /\ gmuLive' = TRUE /\ sqeOn' \in {FALSE, sqeOn} /\ noted' = TRUE
    /\ UNCHANGED <<Registers, arena, todo>>

cmd_cp_fence(wide) ==
    /\ Begins /\ arena # 0 /\ gmuLive /\ ~sqeOn
    /\ bank[1] = Expected(1, FALSE) /\ Verified(5 :> 1)
    /\ Plan((IF bank[0] = Expected(0, wide) THEN <<>> ELSE smmu_unroute(2, 1))
            \o smmu_program(0, 0, 0, wide)
            \o (IF bank[0] = Expected(0, wide) THEN smmu_route(2, 1, 0)
                ELSE IF smr[2].valid /\ smr[2].id # 1 THEN Stop ELSE Attach(2, 1, 0))
            \o ensure_usfcfg \o <<<<"verify", Sids>>, <<"sqe">>>>)
    /\ UNCHANGED <<Registers, gmuLive, sqeOn, arena, noted>>

cmd_quiesce_KeepsLpac ==
    /\ Begins /\ arena # 0
    /\ Plan(<<<<"reset">>>>
            \o (IF smr[0].valid \/ bank[0].on THEN smmu_disable(0, 0, 0) ELSE <<>>)
            \o (IF smr[1].valid \/ bank[1].on THEN smmu_disable(1, 1, 5) ELSE <<>>)
            \o ensure_usfcfg \o <<<<"unreached">>, <<"note", FALSE>>>>)
    /\ UNCHANGED <<Registers, gmuLive, sqeOn, arena, noted>>

cmd_quiesce ==
    /\ Begins /\ arena # 0
    /\ Plan(<<<<"reset">>>> \o smmu_unroute(2, 1)
            \o (IF smr[0].valid \/ bank[0].on THEN smmu_disable(0, 0, 0) ELSE <<>>)
            \o (IF smr[1].valid \/ bank[1].on THEN smmu_disable(1, 1, 5) ELSE <<>>)
            \o ensure_usfcfg \o <<<<"unreached">>, <<"note", FALSE>>>>)
    /\ UNCHANGED <<Registers, gmuLive, sqeOn, arena, noted>>

release_proven_Recorded == TRUE
release_proven == ~gmuLive /\ ~bank[0].on /\ ~bank[1].on /\ sids_reaching_memory(Sids) = {}

cmd_arena_release ==
    /\ Begins /\ arena # 0 /\ ~noted /\ release_proven
    /\ arena' = 0
    /\ UNCHANGED <<Registers, gmuLive, sqeOn, noted, todo>>

-----------------------------------------------------------------------------
\* One register access of the running command.

Done == todo' = Tail(todo)
Raise == todo' = <<>>

Write ==
    /\ todo # <<>> /\ Head(todo)[1] \in {"s2cr", "smr", "on", "cfg", "usfcfg"}
    /\ LET w == Head(todo) IN
         /\ s2cr' = IF w[1] = "s2cr" THEN [s2cr EXCEPT ![w[2]] = w[3]] ELSE s2cr
         /\ smr' = IF w[1] = "smr" THEN [smr EXCEPT ![w[2]] = w[3]] ELSE smr
         /\ bank' = CASE w[1] = "on" -> [bank EXCEPT ![w[2]].on = w[3]]
                      [] w[1] = "cfg" -> [bank EXCEPT ![w[2]].cfg = <<arena, w[3] /\ w[2] = 0>>]
                      [] OTHER -> bank
         /\ usfcfg' = (usfcfg \/ w[1] = "usfcfg")
    /\ Done /\ UNCHANGED <<gmuLive, sqeOn, arena, noted, smmuRuns>>

\* smmu_tlbi polls, and smmu_program reads the bank back: both may raise instead of going on.
Poll ==
    /\ todo # <<>> /\ Head(todo)[1] \in {"tlbi", "readback"}
    /\ Done \/ Raise
    /\ UNCHANGED <<Registers, gmuLive, sqeOn, arena, noted, smmuRuns>>

smmu_verify ==
    /\ todo # <<>> /\ Head(todo)[1] = "verify"
    /\ IF Verified([sid \in Head(todo)[2] |-> IF sid = 5 THEN 1 ELSE 0]) THEN Done ELSE Raise
    /\ UNCHANGED <<Registers, gmuLive, sqeOn, arena, noted, smmuRuns>>

\* sqe_prestart verifies the stream table once more before the SQE is started.
StartSqe ==
    /\ todo # <<>> /\ Head(todo)[1] = "sqe"
    /\ sqeOn' = TRUE /\ noted' = TRUE /\ Done
    /\ UNCHANGED <<Registers, gmuLive, arena, smmuRuns>>

write_host ==
    /\ todo # <<>> /\ Head(todo)[1] = "note"
    /\ noted' = Head(todo)[2] /\ Done
    /\ UNCHANGED <<Registers, gmuLive, sqeOn, arena, smmuRuns>>

\* GMU_CM3_SYSRESET = 1 may not read back: quiesce then goes on and reports it at the end.
ResetCm3 ==
    /\ todo # <<>> /\ Head(todo)[1] = "reset"
    /\ gmuLive' \in {FALSE, gmuLive} /\ Done
    /\ UNCHANGED <<Registers, sqeOn, arena, noted, smmuRuns>>

Unreached ==
    /\ todo # <<>> /\ Head(todo)[1] = "unreached"
    /\ IF sids_reaching_memory(Sids \cup MustFault) = {} THEN Done ELSE Raise
    /\ UNCHANGED <<Registers, gmuLive, sqeOn, arena, noted, smmuRuns>>

StopRaised == todo # <<>> /\ Head(todo)[1] = "stop" /\ Raise /\ UNCHANGED <<Registers, gmuLive, sqeOn, arena, noted, smmuRuns>>

\* The link fails or an SError stops the run: the command ends where it is.
Interrupted == todo # <<>> /\ Raise /\ UNCHANGED <<Registers, gmuLive, sqeOn, arena, noted, smmuRuns>>

\* The machine restarts: the firmware's stream table, the banks off, no arena.
Reboot ==
    /\ Begins
    /\ \E f \in Firmware, u \in BOOLEAN :
         /\ smr' = [n \in Groups |-> IF n = 3 /\ f.type # None THEN [valid |-> TRUE, id |-> f.id, mask |-> f.mask] ELSE Off]
         /\ s2cr' = [n \in Groups |-> IF n = 3 /\ f.type # None THEN f.type ELSE Fault]
         /\ usfcfg' = u
    /\ bank' = [cb \in Banks |-> [on |-> FALSE, cfg |-> <<0, FALSE>>]]
    /\ gmuLive' = FALSE /\ sqeOn' = FALSE /\ arena' = 0 /\ noted' = FALSE /\ todo' = <<>>

SmmuInit ==
    /\ smr = [n \in Groups |-> Off] /\ s2cr = [n \in Groups |-> Fault] /\ usfcfg = FALSE
    /\ bank = [cb \in Banks |-> [on |-> FALSE, cfg |-> <<0, FALSE>>]]
    /\ gmuLive = FALSE /\ sqeOn = FALSE /\ arena = 0 /\ noted = FALSE
    /\ todo = <<>> /\ smmuRuns = 0

SmmuNext ==
    \/ Claim \/ gmu_smmu_proven \/ cmd_quiesce \/ cmd_arena_release \/ Reboot
    \/ \E b \in BOOLEAN : cmd_gmu_smmu(b) \/ cmd_cp_fence(b)
    \/ Write \/ Poll \/ smmu_verify \/ StartSqe \/ write_host \/ ResetCm3 \/ Unreached \/ StopRaised \/ Interrupted

-----------------------------------------------------------------------------
SmmuTypeOK ==
    /\ smr \in [Groups -> [valid : BOOLEAN, id : 0 .. 7, mask : 0 .. 7]]
    /\ s2cr \in [Groups -> {Fault, Bypass} \cup Banks]
    /\ bank \in [Banks -> [on : BOOLEAN, cfg : (Arenas \cup {0}) \X BOOLEAN]]
    /\ usfcfg \in BOOLEAN /\ gmuLive \in BOOLEAN /\ sqeOn \in BOOLEAN /\ noted \in BOOLEAN
    /\ arena \in Arenas \cup {0} /\ smmuRuns \in 0 .. MaxRuns

\* At every instant, between any two register writes and after any interruption, a stream group of
\* the tool that matches a stream either faults it or sends it through a bank that is on and written
\* for the present arena: an SMMUv2 bank that is off would pass addresses through untranslated.
NoStray ==
    \A n \in 0 .. 2 : smr[n].valid /\ s2cr[n] # Fault =>
        s2cr[n] \in Banks /\ bank[s2cr[n]].on /\ arena # 0 /\ bank[s2cr[n]].cfg[1] = arena

\* An arena is given up only when nothing can reach it: the CM3 is in reset, both banks are off and
\* no group of the tool matches a stream, whatever interrupted commands left in registers and record.
ArenaHeld ==
    arena = 0 => ~gmuLive /\ \A cb \in Banks : ~bank[cb].on

-----------------------------------------------------------------------------
(***************************************************************************)
(* The life of the GMU and the CP under tools/a16gpu_stage3.py: gmu-boot,   *)
(* hfi, oob, cp-fence and quiesce are separate runs of the tool that share  *)
(* a record in the arena.  A run reads the record once, works on its copy   *)
(* and writes it back at fixed points; the link may die between any two     *)
(* steps, and the next run starts from the record and the registers.        *)
(***************************************************************************)

CONSTANTS MaxCmds,      \* bound: runs of the tool
          MaxFaults,    \* bound: runs that the link or the hardware cuts short
          MaxBoots      \* bound: GMU boots that are recorded

VARIABLES cm3,          \* "reset", "dead" (no INIT_RESULT), "booted" (no HFI) or "up"
          started,      \* this GMU boot acknowledged HFI START
          vote, gx,     \* OOB GPU_SET is held; GX is powered
          sqe,          \* CP_SQE_CNTL
          ring,         \* CP_RB_WPTR, CP_RB_RPTR and the fence packets between them
          fenceMem,     \* the fence word in the memptrs page, and which submission wrote it
          meInits,      \* CP_ME_INIT packets submitted since the SQE started
          tzHw, smc,    \* the last SMC as TrustZone has it, and smc_status of gpu_state
          rsc,          \* the GPU RSC: "awake" or "asleep"
          rec, host,    \* the record in the arena, and the copy of the running command
          bpc,          \* where the running command is
          unrecorded,   \* a GMU was started and its boot_token is not in the record yet
          subs, boots, cmds, faults

record == <<rec, host>>
gmu == <<cm3, started, vote, unrecorded>>
cp == <<gx, sqe, ring, fenceMem, meInits>>
tz == <<tzHw, smc>>
counts == <<subs, boots, cmds, faults>>
bootVars == <<record, gmu, cp, tz, rsc, bpc, counts>>

Blank == [boot |-> 0, hfi |-> 0, oob |-> 0, cp |-> 0, hwinit |-> 0, probe |-> 0, wptr |-> 0, fence |-> 0, tz |-> "no", pdc |-> FALSE]
NoFence == [val |-> 0, id |-> 0]
InitLen == 10

At(p) == bpc = p
Go(p) == bpc' = p
BootStop == bpc' = "idle"
Begin(p) == bpc = "idle" /\ cmds < MaxCmds /\ cmds' = cmds + 1 /\ host' = rec /\ bpc' = p
Fails == faults < MaxFaults /\ faults' = faults + 1 /\ bpc' = "idle"
Save(h) == host' = h /\ rec' = h

-----------------------------------------------------------------------------
\* gmu-boot

cmd_gmu_boot ==
    /\ cm3 # "up" /\ Begin("B3") /\ UNCHANGED <<rec, gmu, cp, tz, rsc, subs, boots, faults>>

\* step_tz, up to the SMC; the answer is recorded in the next step.
Pending_RecordOnly == host.tz = "pending"
Pending == host.tz = "pending" \/ smc = "pending"

step_tz ==
    /\ At("B3")
    /\ \/ Pending /\ BootStop /\ UNCHANGED tz
       \/ ~Pending /\ (smc = "ok" \/ host.tz = "ok") /\ Go("B6") /\ UNCHANGED tz
       \/ /\ ~Pending /\ smc # "ok" /\ host.tz # "ok"
          /\ \/ tzHw' = "done" /\ smc' = "ok" /\ Go("B3w")
             \/ tzHw' = "pending" /\ smc' = "pending" /\ Go("B3p")
             \/ tzHw' = tzHw /\ smc' = "refused" /\ BootStop
    /\ UNCHANGED <<record, gmu, cp, rsc, counts>>

RecordTz ==
    /\ \/ At("B3w") /\ Save([host EXCEPT !.tz = "ok"]) /\ Go("B6")
       \/ At("B3p") /\ Save([host EXCEPT !.tz = "pending"]) /\ BootStop
    /\ UNCHANGED <<gmu, cp, tz, rsc, counts>>

MustWake_RecordOnly == host.pdc
MustWake == host.pdc \/ rsc = "asleep"

step_rpmh_start ==
    /\ At("B6")
    /\ IF MustWake THEN rsc' = "awake" /\ Go("B6w") ELSE Go("B7") /\ UNCHANGED rsc
    /\ UNCHANGED <<record, gmu, cp, tz, counts>>

RecordAwake == At("B6w") /\ Save([host EXCEPT !.pdc = FALSE]) /\ Go("B7") /\ UNCHANGED <<gmu, cp, tz, rsc, counts>>

step_fw_load ==
    /\ At("B7") /\ cm3' = "reset" /\ started' = FALSE /\ Go("B9")
    /\ UNCHANGED <<record, vote, unrecorded, cp, tz, rsc, counts>>

\* The CM3 starts: it may never report INIT_RESULT, or never start HFI.  GX may have lost power.
step_gmu_start ==
    /\ At("B9")
    /\ \/ cm3' = "up" /\ Go("B9w") /\ UNCHANGED faults
       \/ cm3' \in {"dead", "booted"} /\ Fails
    /\ gx' \in {FALSE, gx} /\ sqe' = (sqe /\ gx') /\ vote' = FALSE /\ unrecorded' = TRUE
    /\ UNCHANGED <<record, started, ring, fenceMem, meInits, tz, rsc, subs, boots, cmds>>

RecordBoot_KeepsTokens ==
    /\ At("B9w") /\ boots < MaxBoots /\ boots' = boots
    /\ Save([host EXCEPT !.boot = IF @ = 0 THEN 1 ELSE @])
    /\ unrecorded' = FALSE /\ BootStop
    /\ UNCHANGED <<cm3, started, vote, cp, tz, rsc, subs, cmds, faults>>

RecordBoot ==
    /\ At("B9w") /\ boots < MaxBoots /\ boots' = boots + 1
    /\ Save([host EXCEPT !.boot = boots', !.hfi = 0, !.oob = 0, !.cp = 0, !.hwinit = 0])
    /\ unrecorded' = FALSE /\ BootStop
    /\ UNCHANGED <<cm3, started, vote, cp, tz, rsc, subs, cmds, faults>>

-----------------------------------------------------------------------------
\* hfi and oob

gmu_running_proven == cm3 = "up" /\ rec.boot # 0

cmd_hfi ==
    /\ gmu_running_proven /\ rec.hfi # rec.boot
    /\ Begin("H4") /\ UNCHANGED <<rec, gmu, cp, tz, rsc, subs, boots, faults>>

\* The tables and START are sent; an acknowledgement that is not seen may still be a START that was.
SendStart ==
    /\ At("H4")
    /\ \/ started' = (cm3 = "up") /\ cm3 = "up" /\ Go("H4w") /\ UNCHANGED faults
       \/ started' \in {started, cm3 = "up"} /\ Fails
    /\ UNCHANGED <<record, cm3, vote, unrecorded, cp, tz, rsc, subs, boots, cmds>>

RecordStart == At("H4w") /\ Save([host EXCEPT !.hfi = host.boot]) /\ BootStop /\ UNCHANGED <<gmu, cp, tz, rsc, counts>>

cmd_oob ==
    /\ gmu_running_proven /\ rec.hfi = rec.boot /\ ~(rec.oob = rec.boot /\ gx)
    /\ Begin("O1") /\ UNCHANGED <<rec, gmu, cp, tz, rsc, subs, boots, faults>>

\* An OOB that is not acknowledged is taken back.
RequestOob ==
    /\ At("O1")
    /\ \/ cm3 = "up" /\ started /\ vote' = TRUE /\ gx' \in BOOLEAN /\ sqe' = (sqe /\ gx') /\ Go("O2") /\ UNCHANGED faults
       \/ vote' = FALSE /\ Fails /\ UNCHANGED <<gx, sqe>>
    /\ UNCHANGED <<record, cm3, started, unrecorded, ring, fenceMem, meInits, tz, rsc, subs, boots, cmds>>

gx_on_proven ==
    /\ At("O2")
    /\ IF gx THEN Save([host EXCEPT !.oob = host.boot]) /\ UNCHANGED vote ELSE vote' = FALSE /\ UNCHANGED record
    /\ BootStop /\ UNCHANGED <<cm3, started, unrecorded, cp, tz, rsc, counts>>

-----------------------------------------------------------------------------
\* cp-fence

Resume_Reinit ==
    CASE rec.cp = rec.boot /\ sqe -> "C6"
      [] sqe /\ rec.hwinit = rec.boot -> "C4"
      [] OTHER -> "C2"

Resume ==
    CASE rec.cp = rec.boot /\ sqe -> "C6"
      [] sqe /\ rec.probe = rec.boot -> "idle"
      [] sqe /\ rec.hwinit = rec.boot -> "C4"
      [] sqe -> "idle"
      [] OTHER -> "C2"

boot_cmd_cp_fence ==
    /\ gmu_running_proven /\ rec.oob = rec.boot /\ gx
    /\ Begin(Resume) /\ UNCHANGED <<rec, gmu, cp, tz, rsc, subs, boots, faults>>

\* C2: the SQE image, the ring and the memptrs page are written anew.
Buffers_KeepMemptrs ==
    /\ At("C2") /\ Save([host EXCEPT !.wptr = 0, !.cp = 0, !.hwinit = 0]) /\ Go("C3")
    /\ UNCHANGED <<gmu, gx, sqe, ring, fenceMem, meInits, tz, rsc, counts>>

Buffers ==
    /\ At("C2") /\ fenceMem' = NoFence /\ Save([host EXCEPT !.wptr = 0, !.cp = 0, !.hwinit = 0]) /\ Go("C3")
    /\ UNCHANGED <<gmu, gx, sqe, ring, meInits, tz, rsc, counts>>

\* C3: hw_init with the aperture SMC; the ring registers start at 0.
hw_init ==
    /\ At("C3")
    /\ \/ Pending /\ BootStop /\ UNCHANGED <<tz, ring>>
       \/ ~Pending /\ tzHw' = "pending" /\ smc' = "pending" /\ Go("B3p") /\ UNCHANGED ring
       \/ ~Pending /\ smc' = "ok" /\ UNCHANGED tzHw /\ ring' = [w |-> 0, r |-> 0, pkt |-> NoFence] /\ Go("C3P")
    /\ UNCHANGED <<record, gmu, gx, sqe, fenceMem, meInits, rsc, counts>>

\* C3P reads, then the record says that this boot has a started SQE before CP_SQE_CNTL is written.
sqe_prestart ==
    /\ At("C3P")
    /\ IF sqe \/ ~gx THEN BootStop /\ UNCHANGED record
       ELSE \E probe \in BOOLEAN :
              Save([host EXCEPT !.hwinit = host.boot, !.probe = IF probe THEN host.boot ELSE 0]) /\ Go("C3S")
    /\ UNCHANGED <<gmu, cp, tz, rsc, counts>>

sqe_start ==
    /\ At("C3S") /\ sqe' = TRUE /\ meInits' = 0
    /\ (IF host.probe = host.boot THEN BootStop ELSE Go("C4"))
    /\ UNCHANGED <<record, gmu, gx, ring, fenceMem, tz, rsc, counts>>

\* ring_submit: the CP's pointers must be the record's, and the fenced write may be dropped twice.
PointersAgree_Trusted == TRUE
PointersAgree == ring.w = host.wptr /\ ring.r = host.wptr

ring_submit(n, pkt, next) ==
    \/ ~PointersAgree /\ BootStop /\ UNCHANGED <<ring, host, faults>>
    \/ PointersAgree /\ ring' = [ring EXCEPT !.w = host.wptr + n, !.pkt = pkt] /\ host' = [host EXCEPT !.wptr = @ + n]
       /\ Go(next) /\ UNCHANGED faults
    \/ PointersAgree /\ Fails /\ UNCHANGED <<ring, host>>

CpInit ==
    /\ At("C4")
    /\ IF host.wptr # 0
       THEN (IF ring.w = host.wptr THEN Go("C4w") ELSE BootStop) /\ UNCHANGED <<ring, host, meInits, faults>>
       ELSE ring_submit(InitLen, NoFence, "C4r") /\ meInits' = meInits + (IF ring' = ring THEN 0 ELSE 1)
    /\ UNCHANGED <<rec, gmu, gx, sqe, fenceMem, tz, rsc, subs, boots, cmds>>

RecordRing == ((At("C4r") /\ Go("C4w")) \/ (At("C6r") /\ Go("C6w"))) /\ rec' = host /\ UNCHANGED <<host, gmu, cp, tz, rsc, counts>>

cp_idle ==
    /\ At("C4w")
    /\ \/ ring.r = host.wptr /\ Go("C5") /\ UNCHANGED faults
       \/ ring.r # host.wptr /\ Fails
    /\ UNCHANGED <<record, gmu, cp, tz, rsc, subs, boots, cmds>>

LeaveSecure == At("C5") /\ Save([host EXCEPT !.cp = host.boot]) /\ (Go("C6") \/ BootStop) /\ UNCHANGED <<gmu, cp, tz, rsc, counts>>

\* C6: a fence value that the record has counted up, and the poll of the fence word.
SubmitFence ==
    /\ At("C6") /\ subs' = subs + 1
    /\ LET h == [host EXCEPT !.fence = @ + 1]
       IN  IF PointersAgree
           THEN ring' = [ring EXCEPT !.w = host.wptr + 1, !.pkt = [val |-> h.fence, id |-> subs']]
                /\ host' = [h EXCEPT !.wptr = @ + 1] /\ Go("C6r")
           ELSE BootStop /\ host' = h /\ UNCHANGED ring
    /\ UNCHANGED <<rec, gmu, gx, sqe, fenceMem, meInits, tz, rsc, boots, cmds, faults>>

FenceSeen ==
    /\ At("C6w") /\ fenceMem.val = host.fence /\ Go("C7")
    /\ UNCHANGED <<record, gmu, cp, tz, rsc, counts>>

FenceDone == At("C7") /\ rec' = host /\ BootStop /\ UNCHANGED <<host, gmu, cp, tz, rsc, counts>>

-----------------------------------------------------------------------------
\* quiesce

boot_cmd_quiesce ==
    /\ Begin(IF cm3 = "reset" THEN "Q4" ELSE "Q2")
    /\ vote' = FALSE /\ gx' \in {FALSE, gx} /\ sqe' = (sqe /\ gx')
    /\ UNCHANGED <<rec, cm3, started, unrecorded, ring, fenceMem, meInits, tz, rsc, subs, boots, faults>>

\* The CM3 is put in reset (which may not read back) and the RSC is asked to sleep, then recorded.
ResetGmu ==
    /\ At("Q2") /\ started' = FALSE /\ Go("Q2w") /\ rsc' \in {rsc, "asleep"}
    /\ \/ cm3' = "reset" /\ UNCHANGED faults
       \/ faults < MaxFaults /\ faults' = faults + 1 /\ cm3' = "dead"
    /\ UNCHANGED <<record, vote, unrecorded, cp, tz, subs, boots, cmds>>

RecordAsleep == At("Q2w") /\ Save([host EXCEPT !.pdc = TRUE]) /\ Go("Q4") /\ UNCHANGED <<gmu, cp, tz, rsc, counts>>

RecordQuiet ==
    /\ At("Q4") /\ BootStop
    /\ Save([host EXCEPT !.boot = 0, !.hfi = 0, !.oob = 0, !.cp = 0, !.hwinit = 0, !.probe = 0, !.wptr = 0])
    /\ UNCHANGED <<gmu, cp, tz, rsc, counts>>

-----------------------------------------------------------------------------
\* The hardware, and what cuts a run short.

CpRuns ==
    /\ sqe /\ gx /\ ring.r # ring.w /\ rec.probe # rec.boot
    /\ ring' = [ring EXCEPT !.r = ring.w]
    /\ fenceMem' = IF ring.pkt.id # 0 THEN ring.pkt ELSE fenceMem
    /\ UNCHANGED <<record, gmu, gx, sqe, meInits, tz, rsc, bpc, counts>>

GmuPowersOff == gx /\ ~vote /\ cm3 = "up" /\ gx' = FALSE /\ sqe' = FALSE /\ UNCHANGED <<record, gmu, ring, fenceMem, meInits, tz, rsc, bpc, counts>>

BootInterrupted == ~At("idle") /\ Fails /\ UNCHANGED <<record, gmu, cp, tz, rsc, subs, boots, cmds>>

\* Another stage is loaded: its gpu_state starts at zero, the arena and its record stay.
Chainload ==
    /\ At("idle") /\ smc # "none" /\ smc' = "none" /\ faults < MaxFaults /\ faults' = faults + 1
    /\ tzHw' = IF tzHw = "pending" /\ rec.tz # "pending" THEN "lost" ELSE tzHw
    /\ UNCHANGED <<record, gmu, cp, rsc, bpc, subs, boots, cmds>>

BootInit ==
    /\ cm3 = "reset" /\ started = FALSE /\ vote = FALSE /\ gx = FALSE /\ sqe = FALSE
    /\ ring = [w |-> 0, r |-> 0, pkt |-> NoFence] /\ fenceMem = NoFence /\ meInits = 0
    /\ tzHw = "idle" /\ smc = "none" /\ rsc = "awake" /\ rec = Blank /\ host = Blank
    /\ bpc = "idle" /\ unrecorded = FALSE /\ subs = 0 /\ boots = 0 /\ cmds = 0 /\ faults = 0

BootNext ==
    \/ cmd_gmu_boot \/ step_tz \/ RecordTz \/ step_rpmh_start \/ RecordAwake \/ step_fw_load \/ step_gmu_start \/ RecordBoot
    \/ cmd_hfi \/ SendStart \/ RecordStart \/ cmd_oob \/ RequestOob \/ gx_on_proven
    \/ boot_cmd_cp_fence \/ Buffers \/ hw_init \/ sqe_prestart \/ sqe_start \/ CpInit \/ RecordRing \/ cp_idle \/ LeaveSecure
    \/ SubmitFence \/ FenceSeen \/ FenceDone
    \/ boot_cmd_quiesce \/ ResetGmu \/ RecordAsleep \/ RecordQuiet
    \/ CpRuns \/ GmuPowersOff \/ BootInterrupted \/ Chainload

-----------------------------------------------------------------------------
BootTypeOK ==
    /\ cm3 \in {"reset", "dead", "booted", "up"} /\ tzHw \in {"idle", "pending", "done", "lost"}
    /\ smc \in {"none", "ok", "pending", "refused"} /\ rsc \in {"awake", "asleep"}
    /\ {started, vote, gx, sqe, unrecorded, rec.pdc} \subseteq BOOLEAN
    /\ \A h \in {rec, host} : {h.boot, h.hfi, h.oob, h.cp, h.hwinit, h.probe} \subseteq 0 .. MaxBoots
    /\ ring.r <= ring.w /\ meInits \in Nat /\ cmds \in 0 .. MaxCmds /\ faults \in 0 .. MaxFaults

\* What the record claims of this GMU boot the hardware has done: hfi is skipped, and oob and cp-fence
\* go on, only when the GMU that runs acknowledged START.  (A GMU whose boot was cut off between its
\* start and the record is the one case the record cannot speak of.)
RecordHonest == cm3 = "up" /\ ~unrecorded /\ rec.boot # 0 /\ rec.hfi = rec.boot => started

\* A running SQE never has its image, its ring or the memptrs page written under it, and it is given
\* CP_ME_INIT once, although the run that started it may have died before, at or after any record.
NeverReinitialised == (bpc \in {"C2", "C3", "C3P", "C3S"} => ~sqe) /\ meInits <= 1

\* A fence that cp-fence accepts was written by the CP for this very submission.
FenceIsOurs == bpc = "C7" => fenceMem.id = subs

\* No SMC is made while TrustZone holds one that was never finished.  (A stage that is replaced before
\* the record of such an SMC was written takes the knowledge with it: "lost".)
TzNotReentered == smc' # smc /\ bpc \in {"B3", "C3"} => tzHw # "pending"

\* No CM3 is started on a GPU RSC that sleeps, also when the run that put it to sleep died before its record.
RscAwake == cm3' = "up" /\ cm3 # "up" => rsc = "awake"

-----------------------------------------------------------------------------
(***************************************************************************)
(* The pure half of tools/a16gpu_stage3.py: the page tables it builds in    *)
(* the arena (four entries a level here), how GMU firmware blocks are       *)
(* parsed and placed, and the vote tables HFI sends for the OPPs of a speed *)
(* bin.  Page tables grow one mapping at a time; the other inputs are       *)
(* chosen and judged whole.                                                 *)
(***************************************************************************)

CONSTANTS Fan,          \* entries of a table; an address is three indices, most significant first
          Pool,         \* tables that fit in the pool
          MaxPages,     \* bound: no new mapping once this many pages are mapped
          Levels,       \* lists a cmd-db entry may give for a rail
          Opps,         \* the GPU OPPs, lowest first: [level, bw]
          Images        \* GMU firmware images: sequences of words

VARIABLES tables,       \* table number -> entry: 0, or the number of a table, or a page + Page
          mapped,       \* ghost: what was asked for, address -> page
          rails, opps,  \* lists of gfx, gmxc and mx; how many OPPs the speed bin has
          image

tabVars == <<tables, mapped, rails, opps, image>>

Vas == 0 .. Fan ^ 3 - 1
Page == 100
Refused == <<>>

-----------------------------------------------------------------------------
\* PageTables: the root is table 1, allocated first.
Idx(va, level) == (va \div Fan ^ (3 - level)) % Fan
Empty == [i \in 0 .. Fan - 1 |-> 0]

\* _next: the table an entry names, allocated when the entry is empty; <<tables, child>> or Refused.
Into(t, table, i) ==
    CASE t[table][i] # 0 -> <<t, t[table][i]>>
      [] t[table][i] = 0 /\ Len(t) < Pool -> <<Append([t EXCEPT ![table][i] = Len(t) + 1], Empty), Len(t) + 1>>
      [] OTHER -> Refused

Put_Over(t, table, i, page) == [t EXCEPT ![table][i] = page + Page]
Put(t, table, i, page) == IF t[table][i] # 0 THEN Refused ELSE [t EXCEPT ![table][i] = page + Page]

MapPage(t, va, page) ==
    LET l2 == Into(t, 1, Idx(va, 1))
        l3 == IF l2 = Refused THEN Refused ELSE Into(l2[1], l2[2], Idx(va, 2))
    IN  IF l3 = Refused THEN Refused ELSE Put(l3[1], l3[2], Idx(va, 3), page)

\* map: page after page until one is refused; the pages before it stay.
map(va, page, n) ==
    /\ va + n <= Fan ^ 3 /\ Cardinality({v \in Vas : mapped[v] # -1}) < MaxPages
    /\ LET upto[k \in 0 .. n] == IF k = 0 THEN [t |-> tables, ok |-> 0]
                                 ELSE LET p == upto[k - 1] IN
                                      IF p.ok < k - 1 THEN p
                                      ELSE LET t == MapPage(p.t, va + k - 1, page + k - 1)
                                           IN  IF t = Refused THEN p ELSE [t |-> t, ok |-> k]
       IN  /\ tables' = upto[n].t
           /\ mapped' = [v \in Vas |-> IF mapped[v] = -1 /\ v \in va .. va + upto[n].ok - 1 THEN page + v - va ELSE mapped[v]]
    /\ UNCHANGED <<rails, opps, image>>

walk_OneLevel(t, va) == LET e == t[1][Idx(va, 1)] IN IF e = 0 THEN -1 ELSE t[e][Idx(va, 3)] - Page

walk(t, va) ==
    LET l2 == t[1][Idx(va, 1)]
        l3 == IF l2 = 0 THEN 0 ELSE t[l2][Idx(va, 2)]
        leaf == IF l3 = 0 THEN 0 ELSE t[l3][Idx(va, 3)]
    IN  IF leaf = 0 THEN -1 ELSE leaf - Page

-----------------------------------------------------------------------------
\* Rail votes.  A list is padded with zeros after its levels, as cmd-db gives it.
First(list, level) == LET ok == {j \in DOMAIN list : list[j] >= level} IN IF ok = {} THEN 0 ELSE Min(ok)

\* The secondary index Linux takes: the first that reaches the level, else the last that is not zero.
Secondary(list, level) ==
    IF First(list, level) # 0 THEN First(list, level)
    ELSE LET some == {j \in DOMAIN list : list[j] # 0} IN IF some = {} THEN 1 ELSE Max(some)

arc_vote(pri, sec, level, strict) ==
    IF First(pri, level) = 0 \/ (strict /\ level # 0 /\ First(sec, level) = 0) THEN Refused
    ELSE <<First(pri, level), Secondary(sec, level)>>

dep_vote(mx, level) == IF First(mx, level) = 0 THEN Refused ELSE <<First(mx, level)>>

opp_levels(n) == SubSeq(Opps, 1, Min({n, opps}))

SecRail == IF rails.gmxc # <<>> THEN rails.gmxc ELSE rails.mx
rail_refusal_Gx(level) == First(rails.gfx, level) = 0
rail_refusal(level) == \E list \in {rails.gfx, SecRail, rails.mx} : First(list, level) = 0

rail_safe_opps ==
    LET all == opp_levels(Len(Opps))
        bad == {k \in DOMAIN all : rail_refusal(all[k].level)}
    IN  IF bad = {} THEN all ELSE SubSeq(all, 1, Min(bad) - 1)

\* cmd_hfi's check of --max-opps, and the GPU rows of the table it then builds (row 1 is "off").
cmd_hfi_max(n) == n <= Len(rail_safe_opps)
perf_table(n) == [k \in 1 .. Len(opp_levels(n)) |->
    <<arc_vote(rails.gfx, rails.gmxc, opp_levels(n)[k].level, TRUE), dep_vote(rails.mx, opp_levels(n)[k].level)>>]

Bws(n) == SetToSortSeq({o.bw : o \in ToSet(opp_levels(n))} , <)
bw_table(n) == <<0>> \o Bws(n)
perf_vote_ByOpp(n, k) == [perf |-> k, bw |-> k]
perf_vote(n, k) == [perf |-> k, bw |-> (CHOOSE j \in DOMAIN bw_table(n) : bw_table(n)[j] = opp_levels(n)[k].bw) - 1]

-----------------------------------------------------------------------------
\* GMU firmware: a block is <<addr, size, type, value>> and then size words (bytes in the file).
parse_gmu_fw(data) ==
    LET at[k \in 0 .. Len(data)] ==
            IF k = 0 THEN [off |-> 0, blocks |-> <<>>, bad |-> FALSE]
            ELSE LET p == at[k - 1] IN
                 IF p.bad \/ p.off + 4 > Len(data) THEN p
                 ELSE LET n == data[p.off + 2] IN
                      IF p.off + 4 + n > Len(data) THEN [p EXCEPT !.bad = TRUE]
                      ELSE [p EXCEPT !.off = p.off + 4 + n,
                                     !.blocks = Append(p.blocks, [addr |-> data[p.off + 1], size |-> n, kind |-> data[p.off + 3],
                                                                  value |-> data[p.off + 4], data |-> SubSeq(data, p.off + 5, p.off + 4 + n)])]
        end == at[Len(data)]
    IN  IF end.bad \/ end.off # Len(data) THEN Refused ELSE end.blocks

\* Where a block may go: the two TCMs and the mapped buffers; first address and size.
Places == <<[base |-> 0, size |-> 4, name |-> "itcm"], [base |-> 8, size |-> 4, name |-> "dtcm"], [base |-> 12, size |-> 3, name |-> "memory"]>>

InPlace_StartOnly(b, p) == p.base <= b.addr /\ b.addr < p.base + p.size
InPlace(b, p) == p.base <= b.addr /\ b.addr + b.size <= p.base + p.size

plan_gmu_fw(blocks) ==
    LET loads == SelectSeq(blocks, LAMBDA b : b.size # 0)
        prealloc == SelectSeq(blocks, LAMBDA b : b.size = 0 /\ b.kind = 7)
        room(b) == {p \in DOMAIN Places : InPlace(b, Places[p])}
    IN  IF (\E b \in ToSet(loads) : room(b) = {})
           \/ (\E b \in ToSet(prealloc) : ~InPlace([addr |-> b.addr, size |-> b.value], Places[3]))
        THEN Refused
        ELSE [k \in DOMAIN loads |-> [name |-> Places[Min(room(loads[k]))].name, off |-> loads[k].addr - Places[Min(room(loads[k]))].base,
                                      data |-> loads[k].data]]

-----------------------------------------------------------------------------
Choose ==
    /\ mapped = [v \in Vas |-> -1] /\ opps = 0 /\ image = <<>>
    /\ \/ \E g, s, m \in Levels, n \in 0 .. Len(Opps) : rails' = [gfx |-> g, gmxc |-> s, mx |-> m] /\ opps' = n /\ UNCHANGED image
       \/ image' \in Images /\ UNCHANGED <<rails, opps>>
    /\ UNCHANGED <<tables, mapped>>

TablesInit ==
    /\ tables = <<Empty>> /\ mapped = [v \in Vas |-> -1]
    /\ rails = [gfx |-> <<1>>, gmxc |-> <<1>>, mx |-> <<1>>] /\ opps = 0 /\ image = <<>>

TablesNext == Choose \/ (opps = 0 /\ image = <<>> /\ \E va \in Vas, n \in 1 .. 3 : map(va, (3 * va) % 5, n))

-----------------------------------------------------------------------------
TablesTypeOK ==
    /\ Len(tables) \in 1 .. Pool /\ \A t \in DOMAIN tables : tables[t] \in [0 .. Fan - 1 -> 0 .. Page + 2 * Fan ^ 3]
    /\ mapped \in [Vas -> -1 .. Fan ^ 3] /\ opps \in 0 .. Len(Opps)

\* Walking the tables finds exactly the pages map was given, the first mapping of an address wins, and a
\* mapping refused half way (an address taken, the pool exhausted) leaves no page behind it did not map.
WalkExact == \A va \in Vas : walk(tables, va) = mapped[va]

\* Every table is entered from one entry only, so mapping one address never moves another.
TablesUnshared ==
    \A t \in 2 .. Len(tables) : Cardinality({e \in (1 .. Len(tables)) \X (0 .. Fan - 1) : tables[e[1]][e[2]] = t}) = 1

\* A table that cmd_hfi's check lets through is built without a refusal, and in it no rail is voted below
\* the level of its OPP.
NoUnderVote ==
    \A n \in 1 .. Len(Opps) : cmd_hfi_max(n) =>
        \A k \in 1 .. Len(perf_table(n)) :
            /\ perf_table(n)[k][1] # Refused /\ perf_table(n)[k][2] # Refused
            /\ rails.gmxc[perf_table(n)[k][1][2]] >= opp_levels(n)[k].level

\* The perf vote of an OPP names its row of the perf table and the row of the bandwidth table with its
\* bandwidth, although the rows of the latter are sorted and OPPs may share one.
VoteNamesRow ==
    \A n \in 1 .. opps : \A k \in 1 .. n : LET v == perf_vote(n, k) IN
        v.bw + 1 \in DOMAIN bw_table(n) /\ bw_table(n)[v.bw + 1] = Opps[k].bw /\ v.bw >= 1

\* What the plan loads is what the image holds: no byte of a block is placed outside its TCM or buffer, none
\* is dropped, and an image that does not parse to its last byte is refused whole.
FirmwarePlaced ==
    LET blocks == parse_gmu_fw(image)
        plan == IF blocks = Refused THEN Refused ELSE plan_gmu_fw(blocks)
    IN  /\ blocks # Refused => Len(image) = FoldSeq(LAMBDA b, n : n + 4 + b.size, 0, blocks)
        /\ plan # Refused => /\ \A k \in DOMAIN plan : \E p \in ToSet(Places) : p.name = plan[k].name /\ plan[k].off + Len(plan[k].data) <= p.size
                             /\ FoldSeq(LAMBDA b, n : n + Len(b.data), 0, plan) = FoldSeq(LAMBDA b, n : n + b.size, 0, blocks)
=============================================================================
