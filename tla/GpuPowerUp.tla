-------------------------------- MODULE GpuPowerUp --------------------------------
(***************************************************************************)
(* Power, clocks and rails of the GPU.  tools/a16gpu.py reads and turns    *)
(* them on, tools/a16gpu_stage3.py votes and switches them, and the fake   *)
(* hardware of tools/test-a16gpu.py answers for them.  Each section is a   *)
(* machine of its own with its own variables.                              *)
(***************************************************************************)
EXTENDS Integers, Sequences, FiniteSets, FiniteSetsExt

-----------------------------------------------------------------------------
(***************************************************************************)
(* tools/a16gpu.py: survey, cx-on, and the prologue of every later command. *)
(* A run is a fixed order of steps; each                                     *)
(* step reads or writes one block, and a block is touched only behind a gate *)
(* that earlier reads proved.  A posted write may raise its SError later,    *)
(* and under HW control the CX domain may collapse between any two steps.    *)
(***************************************************************************)

CONSTANT MaxSessions    \* bound: runs of the tool

VARIABLES cfgAhb,       \* GCC_GPU_CFG_AHB runs and the GPU is out of reset
          crit,         \* the critical GPUCC branches run
          gdsc,         \* CX GDSC: on, under HW control, SW_COLLAPSE
          ahb,          \* GPU_CC_AHB: running, and whether its enable bit latches on this machine
          clocks,       \* the other GMU clocks, and the SMMU vote clock
          posted,       \* the SError of a posted write: none, on its way, pending
          counted,      \* SErrors the guard counted since it was reset
          raised,       \* ghost: SErrors that were pending or taken in this run
          strict,       \* the guard's strict mode
          before,       \* strict mode when the run began
          proven,       \* gates
          freqClean,    \* FREQ_LIMIT was read in this run
          plan, kind,   \* steps to come; the command
          touched,      \* ghost: the block of the access just made
          exit,         \* the last run's exit status, -1 while running
          after,        \* the report holds the guard's counters as they were after the run
          sessions

domain == <<cfgAhb, crit, gdsc, ahb, clocks>>
guard == <<posted, counted, raised, strict, before>>
onVars == <<domain, guard, proven, freqClean, plan, kind, touched, exit, after, sessions>>

CxOn == gdsc.on /\ ~gdsc.hw
AhbLatched == ahb.run /\ ahb.latches

-----------------------------------------------------------------------------
\* Gates, from the values just read.

prove_critical == IF crit THEN {"gpucc_critical"} ELSE {}

prove_fuse_AnyPower(g) == IF "gpucc_critical" \in g THEN {"cx_fuse"} ELSE {}
prove_fuse(g) == IF "gpucc_critical" \in g /\ CxOn THEN {"cx_fuse"} ELSE {}

evaluate_gates_NoHwControl(g) ==
    LET gmu == IF gdsc.on /\ AhbLatched /\ clocks.gmu THEN {"cx_gmu", "cx_misc"} ELSE {}
        misc == IF gmu = {} /\ freqClean /\ gdsc.on /\ clocks.gmu THEN {"cx_misc"} ELSE {}
        smmu == IF gdsc.on /\ (AhbLatched \/ misc # {}) /\ clocks.smmu THEN {"cx_smmu"} ELSE {}
    IN  g \cup prove_fuse(g) \cup gmu \cup misc \cup smmu

evaluate_gates(g) ==
    LET gmu == IF CxOn /\ AhbLatched /\ clocks.gmu THEN {"cx_gmu", "cx_misc"} ELSE {}
        misc == IF gmu = {} /\ freqClean /\ CxOn /\ clocks.gmu THEN {"cx_misc"} ELSE {}
        smmu == IF CxOn /\ (AhbLatched \/ misc # {}) /\ clocks.smmu THEN {"cx_smmu"} ELSE {}
    IN  g \cup prove_fuse(g) \cup gmu \cup misc \cup smmu

step_gpucc == evaluate_gates({"always", "gpu_cfg_ahb"} \cup prove_critical)

\* Stage 3: cx_gmu also from the clean CX_MISC read.
prove_cx_gmu == IF "cx_misc" \in step_gpucc THEN step_gpucc \cup {"cx_gmu"} ELSE step_gpucc

-----------------------------------------------------------------------------
survey == <<"S0", "S1", "S2", "S3", "S4", "S5misc", "S5smmu">>
cx_on(take) ==
    <<"S0", "S1", "S2", "S3">> \o (IF take THEN <<>> ELSE <<"hwcheck">>) \o
    <<"P1", "P3", "P3check", "P5", "P4hw", "P4up", "P4poll", "P4check", "S4", "P6", "P7", "S3", "S5misc", "S5smmu">>
prologue == <<"S0", "S2", "S3", "S4", "gates", "need", "gmu", "S5smmu">>

\* arm_guard: strict mode on, counters reset.
run(cmd, take, stop_after) ==
    /\ exit # -1 /\ sessions < MaxSessions
    /\ sessions' = sessions + 1 /\ exit' = -1 /\ after' = FALSE
    /\ plan' = (CASE cmd = "survey" -> SubSeq(survey, 1, stop_after) [] cmd = "cx-on" -> cx_on(take) [] cmd = "stage3" -> prologue)
    /\ kind' = cmd
    /\ before' = strict /\ strict' = TRUE /\ counted' = 0 /\ raised' = 0
    /\ proven' = {"always"} /\ freqClean' = FALSE /\ touched' = "none"
    /\ UNCHANGED <<domain, posted>>

Ends_KeepsStrict(status) ==
    /\ plan' = <<>> /\ touched' = "none"
    /\ exit' = status /\ strict' = strict /\ after' = TRUE
    /\ UNCHANGED <<counted, posted>>

\* The running stage has no guard: nothing is touched.
GuardMissing ==
    /\ exit # -1 /\ sessions < MaxSessions /\ sessions' = sessions + 1 /\ exit' = 4 /\ after' = FALSE /\ touched' = "none"
    /\ UNCHANGED <<domain, guard, proven, freqClean, plan, kind>>

\* A Stop: nothing more is accessed, and strict mode is put back.
Ends(status) ==
    /\ plan' = <<>> /\ touched' = "none"
    /\ exit' = status /\ strict' = before /\ after' = TRUE
    /\ UNCHANGED <<counted, posted>>

Block(step) ==
    CASE step = "S0" -> "dram" [] step = "S1" -> "gic" [] step \in {"S2", "P1"} -> "gcc"
      [] step = "S4" -> "freq" [] step = "S5misc" -> "misc" [] step = "S5smmu" -> "smmu"
      [] step = "gmu" -> "gmu" [] OTHER -> "gpucc"

Gate(b) == CASE b = "freq" -> "cx_fuse" [] b = "misc" -> "cx_misc" [] b = "smmu" -> "cx_smmu" [] b = "gmu" -> "cx_gmu"
             [] b = "gpucc" -> "gpu_cfg_ahb" [] OTHER -> "always"

\* What the step leaves in the hardware; the writes of P1 to P7.
Wrote(step) ==
    /\ crit' = (crit \/ step = "P3")
    /\ gdsc' = CASE step = "P4hw" -> [gdsc EXCEPT !.hw = FALSE, !.on = (@ /\ ~gdsc.collapse)]
                 [] step = "P4up" -> [gdsc EXCEPT !.collapse = FALSE]
                 [] step = "P4poll" -> [gdsc EXCEPT !.on = TRUE]
                 [] OTHER -> gdsc
    /\ ahb' = IF step = "P6" THEN [ahb EXCEPT !.run = TRUE] ELSE ahb
    /\ clocks' = [gmu |-> clocks.gmu \/ step = "P6", smmu |-> clocks.smmu \/ step = "P7"]
    /\ UNCHANGED cfgAhb

Proves(step) ==
    /\ proven' = CASE step = "S2" -> proven \cup (IF cfgAhb THEN {"gpu_cfg_ahb"} ELSE {})
                   [] step = "S3" -> step_gpucc
                   [] step = "gates" -> prove_cx_gmu
                   [] step = "P1" -> proven \ {"cx_fuse", "cx_gmu", "cx_smmu"}
                   [] step = "P3check" -> (proven \ {"gpucc_critical"}) \cup prove_critical
                   [] step = "P5" -> proven \ {"cx_fuse"}
                   [] step = "P4check" -> proven \cup prove_fuse(proven)
                   [] OTHER -> proven
    /\ freqClean' = (freqClean \/ step = "S4")

\* The stops of the steps, judged on what they just read.
Stops(step) ==
    \/ step = "S2" /\ ~cfgAhb
    \/ step = "hwcheck" /\ gdsc.hw
    \/ step = "P3check" /\ ~crit
    \/ step = "P4check" /\ prove_fuse(proven) = {}
    \/ step = "need" /\ ~({"cx_gmu", "cx_smmu"} \subseteq proven)
    \/ kind = "cx-on" /\ step \in {"S5misc", "S5smmu"} /\ Gate(Block(step)) \notin proven

Skips(step) == (step = "S4" \/ (kind = "survey" /\ step \in {"S5misc", "S5smmu"})) /\ Gate(Block(step)) \notin proven

StepRuns ==
    /\ exit = -1 /\ plan # <<>>
    /\ LET step == Head(plan) IN
       CASE Skips(step) -> /\ plan' = Tail(plan) /\ touched' = "none"
                           /\ UNCHANGED <<domain, posted, counted, raised, strict, exit, after, proven, freqClean>>
         [] ~Skips(step) /\ Stops(step) -> Ends(2) /\ UNCHANGED <<domain, raised, proven, freqClean>>
         [] ~Skips(step) /\ ~Stops(step) /\ posted = "pending" ->
                /\ exit' = 3 /\ after' = TRUE /\ counted' = counted + 1 /\ posted' = "none" /\ plan' = <<>> /\ strict' = before /\ touched' = "none"
                /\ UNCHANGED <<domain, raised, proven, freqClean>>
         [] OTHER -> /\ Gate(Block(step)) \in proven
                     /\ ~(step = "S4" /\ ~ahb.run)
                     /\ touched' = Block(step) /\ plan' = Tail(plan) /\ Wrote(step) /\ Proves(step)
                     /\ posted' \in {posted, IF step \in {"P1", "P3", "P5", "P4up", "P6", "P7"} THEN "flight" ELSE posted}
                     /\ UNCHANGED <<raised, counted, strict, exit, after>>
    /\ UNCHANGED <<kind, before, sessions>>

\* An access that aborts or raises its SError at once, a poll that times out, a gate that is not proven.
StepFails ==
    /\ exit = -1 /\ plan # <<>>
    /\ LET step == Head(plan)
           serror == step = "S4" /\ ~ahb.run
           polls == step \in {"P1", "P4poll", "P5", "P6", "P7"}
       IN  /\ serror \/ polls \/ Gate(Block(step)) \notin proven
           /\ exit' = (CASE Gate(Block(step)) \notin proven -> 6 [] serror -> 3 [] OTHER -> 2)
           /\ counted' = counted + (IF serror THEN 1 ELSE 0) /\ raised' = raised + (IF serror THEN 1 ELSE 0)
    /\ ~Skips(Head(plan)) /\ ~Stops(Head(plan))
    /\ plan' = <<>> /\ touched' = "none" /\ strict' = before /\ after' = TRUE
    /\ UNCHANGED <<domain, posted, proven, freqClean, kind, before, sessions>>

\* The end of a clean run: one more bracketed access, the record, strict mode as it was.
Finish_NoLastRead ==
    /\ exit = -1 /\ plan = <<>> /\ touched' = "none" /\ plan' = <<>> /\ strict' = before /\ after' = TRUE
    /\ counted' = counted /\ posted' = posted /\ exit' = (IF counted # 0 THEN 3 ELSE 0)
    /\ UNCHANGED <<domain, raised, before, proven, freqClean, kind, sessions>>

Finish ==
    /\ exit = -1 /\ plan = <<>> /\ touched' = "none" /\ plan' = <<>> /\ strict' = before /\ after' = TRUE
    /\ counted' = counted + (IF posted = "pending" THEN 1 ELSE 0) /\ posted' = (IF posted = "pending" THEN "none" ELSE posted) /\ exit' = (IF counted' # 0 THEN 3 ELSE 0)
    /\ UNCHANGED <<domain, raised, before, proven, freqClean, kind, sessions>>

\* The link dies in the finally block: the status stays 0, the counters are not in the report.
FinishDies ==
    /\ exit = -1 /\ plan = <<>> /\ touched' = "none" /\ exit' = 0
    /\ UNCHANGED <<domain, posted, counted, raised, strict, before, proven, freqClean, plan, kind, after, sessions>>

\* The link dies: nothing more is sent, and strict mode stays.
LinkDies ==
    /\ exit = -1 /\ exit' = 5 /\ plan' = <<>> /\ touched' = "none"
    /\ UNCHANGED <<domain, posted, counted, raised, strict, before, proven, freqClean, kind, after, sessions>>

\* A posted write's error arrives.
Arrive ==
    /\ posted = "flight" /\ posted' = "pending" /\ raised' = raised + (IF exit = -1 THEN 1 ELSE 0) /\ touched' = "none"
    /\ UNCHANGED <<domain, counted, strict, before, proven, freqClean, plan, kind, exit, after, sessions>>

\* Under HW control the GMU or the RSC switches the domain.
Collapse ==
    /\ gdsc.hw /\ gdsc' = [gdsc EXCEPT !.on = ~@] /\ touched' = "none"
    /\ UNCHANGED <<cfgAhb, crit, ahb, clocks, guard, proven, freqClean, plan, kind, exit, after, sessions>>

\* What the firmware left: any of these may be on.
Reset ==
    /\ sessions = 0 /\ sessions' = sessions + 1
    /\ cfgAhb' \in BOOLEAN /\ crit' \in BOOLEAN /\ gdsc' \in [on : BOOLEAN, hw : BOOLEAN, collapse : BOOLEAN]
    /\ (gdsc'.on => crit' /\ (gdsc'.hw \/ ~gdsc'.collapse))
    /\ ahb' \in [run : {gdsc'.on}, latches : BOOLEAN] /\ clocks' \in [gmu : BOOLEAN, smmu : BOOLEAN]
    /\ (clocks'.smmu => clocks'.gmu) /\ (clocks'.gmu \/ crit' => cfgAhb') /\ (~gdsc'.on => gdsc'.collapse)
    /\ posted' = "none" /\ counted' = 0 /\ raised' = 0 /\ strict' = FALSE /\ before' = FALSE
    /\ touched' = "none" /\ exit' = 0 /\ after' = FALSE
    /\ UNCHANGED <<proven, freqClean, plan, kind>>

PowerOnInit ==
    /\ cfgAhb = TRUE /\ crit = FALSE /\ gdsc = [on |-> FALSE, hw |-> FALSE, collapse |-> TRUE]
    /\ ahb = [run |-> FALSE, latches |-> FALSE] /\ clocks = [gmu |-> FALSE, smmu |-> FALSE]
    /\ posted = "none" /\ counted = 0 /\ raised = 0 /\ strict = FALSE /\ before = FALSE /\ proven = {}
    /\ freqClean = FALSE /\ plan = <<>> /\ kind = "survey" /\ touched = "none" /\ exit = 0 /\ after = FALSE /\ sessions = 0

PowerOnNext ==
    \/ \E n \in {3, 4, 7} : run("survey", FALSE, n)
    \/ \E t \in BOOLEAN : run("cx-on", t, 7)
    \/ run("stage3", FALSE, 7)
    \/ GuardMissing \/ StepRuns \/ StepFails \/ Finish \/ FinishDies \/ LinkDies \/ Arrive \/ Collapse \/ Reset

-----------------------------------------------------------------------------
PowerOnTypeOK ==
    /\ {cfgAhb, crit, strict, before, freqClean, after} \subseteq BOOLEAN
    /\ posted \in {"none", "flight", "pending"} /\ gdsc \in [{"on", "hw", "collapse"} -> BOOLEAN] /\ exit \in {-1, 0, 2, 3, 4, 5, 6} /\ sessions \in 0 .. MaxSessions
    /\ proven \subseteq {"always", "gpu_cfg_ahb", "gpucc_critical", "cx_fuse", "cx_misc", "cx_gmu", "cx_smmu"}

\* No GPU block is touched unless it is powered and clocked at that very moment: not the registers of the
\* CX domain while it is off or may collapse by itself, not the SMMU without its vote clock, whatever the
\* firmware left on and whether or not GPU_CC_AHB's enable bit latches.
TouchesPowered ==
    /\ touched \in {"freq", "misc", "smmu", "gmu"} => CxOn /\ crit
    /\ touched \in {"misc", "gmu"} => clocks.gmu /\ ahb.run
    /\ touched = "smmu" => clocks.smmu /\ ahb.run

\* Exit status 0 with the guard's counters in the report means that no SError arrived during
\* the run, not even a posted write's that arrived after the last step.
CleanMeansClean == exit = 0 /\ after => raised = 0

\* Every run whose link lives to the end leaves the guard's strict mode as it found it.
StrictRestored == exit # -1 /\ after => strict = before

-----------------------------------------------------------------------------
(***************************************************************************)
(* B1, B2 and Q4 of tools/a16gpu_stage3.py: the RPMh votes of the apps RSC, *)
(* PLL0 and the root clocks of the GMU and the HUB.  A command is a         *)
(* sequence of register accesses; a poll may time out, and the link may die *)
(* between any two.                                                         *)
(***************************************************************************)

CONSTANTS Rails,        \* {"mx", "cx"}
          Floors,       \* vote indices --rail-level may ask for
          Wake,         \* what the wake TCSs may show: functions from rails to an index or None
          MaxPowerRuns  \* bound: runs of the tool

None == -1
Rcgs == {"gmu", "hub"}

VARIABLES live, wake, sleep,    \* votes of drv-2: in force, in the wake TCSs, in the sleep TCSs
          saved,                \* rsc_mx and rsc_cx of the record in the arena, 0 when nothing was sent
          lost,                 \* rails whose last vote is not in the record
          tcs,                  \* the active TCS: idle or armed
          pll,                  \* PLL0: running, locked, outputs on, calibrated
          root, cfg, mux,       \* the RCGs: forced on; source in CFG; source the last UPDATE latched
          torn,                 \* RCGs some run left between CFG and UPDATE
          steps, mine,          \* accesses still to come; the votes this run sends
          died,                 \* the link died in a run since the last one that ended by itself
          powerRuns

powerVars == <<live, wake, sleep, saved, lost, tcs, pll, root, cfg, mux, torn, steps, mine, died, powerRuns>>
votes == <<live, wake, sleep, saved, lost, tcs, mine>>
power_clocks == <<pll, root, cfg, mux>>

Highest(S) == IF S \ {None} = {} THEN None ELSE Max(S \ {None})

\* rsc_existing over the TCSs that are not skipped
Existing(r) == Highest({wake[r]})
Anywhere(r) == Highest({wake[r], sleep[r]})

VoteFor_Floor(r, floor) == floor
VoteFor(r, floor) == Max({floor, Anywhere(r), saved[r] - 1} \ {None})

Unseen == {r \in Rails : Existing(r) = None}

-----------------------------------------------------------------------------
\* The accesses of B2, in order; after a failed poll the code runs what "else" gives.

Step(what, undo) == [what |-> what, undo |-> undo]
PllOn == <<Step("run", <<>>), Step("lock", <<"standby">>), Step("out", <<>>)>>
PllOff == <<Step("noout", <<>>), Step("standby", <<>>)>>

pll0_enable ==
    IF pll.run /\ pll.out THEN <<Step("locked", <<>>)>>
    ELSE PllOff \o (IF pll.cal THEN <<>> ELSE PllOn \o PllOff) \o PllOn \o <<Step("locked", <<>>)>>

rcg_switch(r, to) ==
    IF cfg[r] = to THEN <<>>
    ELSE <<Step("force" \o r, <<>>), Step("on", <<"release" \o r>>), Step(to \o r, <<>>), Step("update" \o r, <<"release" \o r>>),
           Step("release" \o r, <<>>)>>

step_clocks_RcgFirst == rcg_switch("gmu", "pll") \o rcg_switch("hub", "pll") \o pll0_enable
step_clocks == pll0_enable \o rcg_switch("gmu", "pll") \o rcg_switch("hub", "pll")

\* Q4: the RCGs are parked on XO before PLL0 goes off.
Park_PllFirst == (IF pll.run THEN PllOff ELSE <<>>) \o rcg_switch("gmu", "xo") \o rcg_switch("hub", "xo")
Park == rcg_switch("gmu", "xo") \o rcg_switch("hub", "xo") \o (IF pll.run THEN PllOff ELSE <<>>)

-----------------------------------------------------------------------------
Begins == steps = <<>> /\ powerRuns < MaxPowerRuns /\ powerRuns' = powerRuns + 1

\* step_rpmh up to the send: a rail whose live vote no wake TCS shows needs --rail-vote-unseen.
step_rpmh(floor, unseenOk) ==
    /\ Begins
    /\ mine' = [r \in Rails |-> IF saved[r] = VoteFor(r, floor) + 1 THEN None ELSE VoteFor(r, floor)]
    /\ \A r \in Rails : mine'[r] # None => tcs = "idle" /\ (r \in Unseen => unseenOk)
    /\ steps' = (IF \A r \in Rails : mine'[r] = None THEN <<>> ELSE <<Step("arm", <<>>), Step("compl", <<"disarm">>), Step("disarm", <<>>)>>)
                \o step_clocks \o <<Step("save", <<>>)>>
    /\ UNCHANGED <<live, wake, sleep, saved, lost, tcs, power_clocks, torn, died>>

cmd_quiesce == Begins /\ steps' = Park /\ steps' # <<>> /\ UNCHANGED <<votes, power_clocks, torn, died>>

\* One access.  A vote takes effect once the TCS is triggered; a timeout runs the undo and stops.
Effect(w) ==
    /\ tcs' = CASE w = "arm" -> "armed" [] w = "disarm" -> "idle" [] OTHER -> tcs
    /\ live' = [r \in Rails |-> IF w = "arm" /\ mine[r] # None THEN mine[r] ELSE live[r]]
    /\ lost' = CASE w = "arm" -> lost \cup {r \in Rails : mine[r] # None} [] w = "save" -> {r \in lost : mine[r] = None} [] OTHER -> lost
    /\ saved' = IF w = "save" THEN [r \in Rails |-> IF mine[r] # None THEN mine[r] + 1 ELSE saved[r]] ELSE saved
    /\ pll' = CASE w = "run" -> [pll EXCEPT !.run = TRUE] [] w = "standby" -> [pll EXCEPT !.run = FALSE, !.lock = FALSE]
                [] w = "lock" -> [pll EXCEPT !.lock = TRUE, !.cal = TRUE]
                [] w = "out" -> [pll EXCEPT !.out = TRUE] [] w = "noout" -> [pll EXCEPT !.out = FALSE] [] OTHER -> pll
    /\ root' = [r \in Rcgs |-> CASE w = "force" \o r -> TRUE [] w = "release" \o r -> FALSE [] OTHER -> root[r]]
    /\ cfg' = [r \in Rcgs |-> CASE w = "pll" \o r -> "pll" [] w = "xo" \o r -> "xo" [] OTHER -> cfg[r]]
    /\ mux' = [r \in Rcgs |-> IF w = "update" \o r THEN cfg[r] ELSE mux[r]]

Polls == {"lock", "on", "compl", "locked"} \cup {"update" \o r : r \in Rcgs}

\* What the end of a run leaves behind.
Left == torn' = {r \in Rcgs : cfg'[r] # mux'[r]}

Access ==
    /\ steps # <<>>
    /\ Effect(Head(steps).what) /\ steps' = Tail(steps)
    /\ torn' = {r \in torn : cfg'[r] # mux'[r]} /\ UNCHANGED <<wake, sleep, mine, died, powerRuns>>

PollTimeout_NoUndo ==
    /\ steps # <<>> /\ Head(steps).what \in Polls
    /\ steps' = <<>> /\ UNCHANGED <<votes, power_clocks, died, powerRuns>> /\ Left

PollTimeout ==
    /\ steps # <<>> /\ Head(steps).what \in Polls
    /\ Effect(IF Head(steps).undo = <<>> THEN "none" ELSE Head(steps).undo[1]) /\ steps' = <<>> /\ Left
    /\ UNCHANGED <<wake, sleep, mine, died, powerRuns>>

PowerLinkDies == steps # <<>> /\ steps' = <<>> /\ died' = TRUE /\ UNCHANGED <<votes, power_clocks, powerRuns>> /\ Left

\* The machine restarts with the votes of its firmware; what the wake TCSs show is in force.
Restart ==
    /\ Begins /\ wake' \in Wake /\ sleep' \in Wake
    /\ live' = [r \in Rails |-> IF wake'[r] = None THEN 3 ELSE wake'[r]]
    /\ saved' = [r \in Rails |-> 0] /\ lost' = {} /\ tcs' = "idle" /\ mine' = [r \in Rails |-> None]
    /\ pll' = [run |-> FALSE, lock |-> FALSE, out |-> FALSE, cal |-> FALSE] /\ root' = [r \in Rcgs |-> FALSE]
    /\ cfg' = [r \in Rcgs |-> "xo"] /\ mux' = [r \in Rcgs |-> "xo"] /\ torn' = {} /\ died' = FALSE /\ UNCHANGED steps

PowerInit ==
    /\ wake = [r \in Rails |-> 1] /\ sleep = [r \in Rails |-> 0] /\ live = wake
    /\ saved = [r \in Rails |-> 0] /\ lost = {} /\ tcs = "idle" /\ mine = [r \in Rails |-> None]
    /\ pll = [run |-> FALSE, lock |-> FALSE, out |-> FALSE, cal |-> FALSE]
    /\ root = [r \in Rcgs |-> FALSE] /\ cfg = [r \in Rcgs |-> "xo"] /\ mux = cfg /\ torn = {}
    /\ steps = <<>> /\ died = FALSE /\ powerRuns = 0

PowerNext ==
    \/ \E f \in Floors, u \in BOOLEAN : step_rpmh(f, u)
    \/ cmd_quiesce \/ Access \/ PollTimeout \/ PowerLinkDies \/ Restart

-----------------------------------------------------------------------------
PowerTypeOK ==
    /\ live \in [Rails -> Int] /\ wake \in Wake \cup {[r \in Rails |-> 1]} /\ saved \in [Rails -> Nat] /\ lost \subseteq Rails
    /\ tcs \in {"idle", "armed"} /\ pll \in [{"run", "lock", "out", "cal"} -> BOOLEAN]
    /\ root \in [Rcgs -> BOOLEAN] /\ {cfg, mux} \subseteq [Rcgs -> {"xo", "pll"}] /\ torn \subseteq Rcgs /\ died \in BOOLEAN /\ powerRuns \in 0 .. MaxPowerRuns

\* B1 never lowers a rail's vote that a wake TCS shows or that the record has; only a vote whose run
\* failed before the record was written can be lowered by a later run that asks for less.
VotesKept == \A r \in Rails : powerRuns' = powerRuns /\ live'[r] < live[r] => r \in lost \/ (wake[r] = None /\ saved[r] = 0)

\* A root clock selects PLL0 only while PLL0 runs, is locked and has its outputs on: at every register
\* write, in either direction, and wherever a run stopped, except a run that stopped between the write
\* of CFG and the UPDATE of that clock (the next run then takes CFG for the source in use).
SourceLive == \A r \in Rcgs \ torn : mux[r] = "pll" => pll.run /\ pll.lock /\ pll.out

\* Until the link dies in a run, a run that ends, also after a timeout, leaves no PLL running unlocked, no root clock forced
\* on and no TCS armed.
NothingForced == steps = <<>> /\ ~died => (pll.run => pll.lock) /\ (\A r \in Rcgs : ~root[r]) /\ tcs = "idle"

-----------------------------------------------------------------------------
(***************************************************************************)
(* FakeA16 of tools/test-a16gpu.py, the machine the tests of the GPU's     *)
(* first stage run against: the CX GDSC, the clock branches and one of the *)
(* shared RCGs behind it, and the proxy's record of SErrors.               *)
(*                                                                         *)
(* The run is any sequence of the accesses a stage may make.  A violation  *)
(* of kind "hang" ends the run; the others are put down.                   *)
(***************************************************************************)

CONSTANTS Delay,    \* reads until a change of the GDSC, an RCG or a branch is seen
          MaxOps    \* writes, and SErrors

VARIABLES part, ops, viols,
          sw_collapse, hw, gdsc_on, gdsc_countdown, collapse_countdown,    \* the CX GDSC
          vote, clocksCfg, pending, upd, enabled, branch_reads,                  \* GPLL0's vote, the GMU's RCG and branch
          regret, moved, answered,                                         \* ghosts
          clocksStrict, late, still, clocksBefore, during, clocksRaised, served     \* SErrors

gdscVars == <<sw_collapse, hw, gdsc_on, gdsc_countdown, collapse_countdown>>
clockVars == <<vote, clocksCfg, pending, upd, enabled, branch_reads>>
ghosts == <<regret, moved, answered>>
serrVars == <<clocksStrict, late, still, clocksBefore, during, clocksRaised, served>>
clocksVars == <<part, ops, viols, sw_collapse, hw, gdsc_on, gdsc_countdown, collapse_countdown, vote, clocksCfg, pending, upd, enabled,
                branch_reads, regret, moved, answered, clocksStrict, late, still, clocksBefore, during, clocksRaised, served>>

Srcs == {0, 5}   \* XO and GPLL0
ClocksInit ==
  /\ part \in {"clocks", "serror"} /\ ops = 0 /\ viols = {}
  /\ hw \in BOOLEAN /\ gdsc_on \in BOOLEAN /\ sw_collapse \in BOOLEAN /\ (~gdsc_on => sw_collapse) /\ (sw_collapse /\ gdsc_on => hw)
  /\ (part = "serror" => gdsc_on /\ ~hw)
  /\ gdsc_countdown = -1 /\ collapse_countdown = -1
  /\ clocksCfg \in Srcs /\ vote = (clocksCfg = 5) /\ pending = -1 /\ upd = -1 /\ enabled = FALSE /\ branch_reads = 0
  /\ regret = FALSE /\ moved = FALSE /\ answered = <<>>
  /\ clocksStrict = FALSE /\ late = FALSE /\ still = FALSE /\ clocksBefore = 0 /\ during = 0 /\ clocksRaised = 0 /\ served = FALSE

source_running(src) == src = 0 \/ vote
branch_running == enabled /\ gdsc_on /\ source_running(clocksCfg) /\ branch_reads >= Delay
Clocks == part = "clocks" /\ "hang" \notin viols
Write == ops < MaxOps /\ ops' = ops + 1

(* ------------------------------- the CX GDSC ---------------------------- *)
Unparked_Never == FALSE
Unparked == clocksCfg # 0 /\ ~source_running(clocksCfg)
(* _write of CX_GDSCR: a collapse that software asks for takes some reads and may be called off; the *)
(* GDSC is not turned on with an RCG on a dead parent                                                *)
WriteGdscr ==
  /\ Clocks /\ Write
  /\ \E c \in BOOLEAN, h \in BOOLEAN :
       LET collapses == ~h /\ c /\ gdsc_on /\ collapse_countdown = -1
           calledOff == ~h /\ ~c /\ collapse_countdown # -1
           turnsOn == ~h /\ ~c /\ collapse_countdown = -1 /\ sw_collapse /\ ~gdsc_on
       IN  /\ sw_collapse' = c /\ hw' = h
           /\ collapse_countdown' = (IF collapses THEN Delay ELSE IF calledOff THEN -1 ELSE collapse_countdown)
           /\ gdsc_countdown' = (IF turnsOn /\ ~Unparked THEN Delay ELSE gdsc_countdown)
           /\ viols' = viols \cup (IF ~turnsOn THEN {} ELSE IF Unparked THEN {"wedge"} ELSE IF clocksCfg # 0 THEN {"order"} ELSE {})
           /\ regret' = (regret \/ (gdsc_countdown # -1 /\ c))
           /\ moved' = (moved /\ ~(turnsOn /\ gdsc_countdown = -1))
  /\ UNCHANGED <<part, gdsc_on, answered, clockVars, serrVars>>
(* _gpucc_read of CFG_GDSCR: each read brings a change nearer *)
ReadCfgGdscr ==
  LET off == collapse_countdown = 1
      on == gdsc_countdown = 1
      Less(n) == IF n <= 1 THEN -1 ELSE n - 1
  IN  /\ Clocks /\ (collapse_countdown # -1 \/ gdsc_countdown # -1)
      /\ gdsc_on' = (on \/ (gdsc_on /\ ~off))
      /\ collapse_countdown' = Less(collapse_countdown) /\ gdsc_countdown' = Less(gdsc_countdown)
      /\ UNCHANGED <<part, ops, viols, sw_collapse, hw, regret, moved, answered, clockVars, serrVars>>

(* ----------------------- the vote, the RCG, the branch ------------------ *)
WriteVote ==
  /\ Clocks /\ Write /\ vote' = ~vote /\ moved' = TRUE
  /\ UNCHANGED <<part, viols, regret, answered, clocksCfg, pending, upd, enabled, branch_reads, gdscVars, serrVars>>
WriteRcgCfg ==
  /\ Clocks /\ Write /\ \E s \in Srcs : pending' = s
  /\ UNCHANGED <<part, viols, vote, clocksCfg, upd, enabled, branch_reads, ghosts, gdscVars, serrVars>>
(* An update ends only if both its sources run when it is asked for; UPDATE without a new CFG is not made *)
WriteRcgUpdate ==
  /\ Clocks /\ Write /\ pending # -1 /\ upd = -1
  /\ upd' = (IF source_running(clocksCfg) /\ source_running(pending) THEN Delay ELSE -1)
  /\ UNCHANGED <<part, viols, vote, clocksCfg, pending, enabled, branch_reads, ghosts, gdscVars, serrVars>>
ReadRcgCmd ==
  /\ Clocks /\ upd # -1
  /\ IF upd = 1 THEN upd' = -1 /\ clocksCfg' = pending /\ pending' = -1 /\ moved' = TRUE
     ELSE upd' = upd - 1 /\ UNCHANGED <<clocksCfg, pending, moved>>
  /\ UNCHANGED <<part, ops, viols, regret, answered, vote, enabled, branch_reads, gdscVars, serrVars>>
WriteCbcr ==
  /\ Clocks /\ Write /\ ~enabled /\ enabled' = TRUE /\ branch_reads' = 0
  /\ UNCHANGED <<part, viols, vote, clocksCfg, pending, upd, ghosts, gdscVars, serrVars>>
ReadCbcr ==
  /\ Clocks /\ enabled /\ branch_reads < Delay /\ branch_reads' = branch_reads + 1
  /\ UNCHANGED <<part, ops, viols, vote, clocksCfg, pending, upd, enabled, ghosts, gdscVars, serrVars>>

(* ------------------------ accesses behind the GDSC ---------------------- *)
gdsc_steady_HwOnly == ~(gdsc_on /\ hw)
gdsc_steady == ~(gdsc_on /\ (hw \/ collapse_countdown # -1))
(* _read of CX_MISC and the SMMU: a hang where power may be going, an SError where there is none *)
ReadBehind ==
  /\ Clocks /\ answered = <<>>
  /\ viols' = viols \cup (IF ~gdsc_steady THEN {"hang"} ELSE IF ~(gdsc_on /\ branch_running) THEN {"serror"} ELSE {})
  /\ answered' = (IF gdsc_steady /\ gdsc_on /\ branch_running THEN <<sw_collapse, hw, collapse_countdown # -1, source_running(clocksCfg)>> ELSE <<>>)
  /\ UNCHANGED <<part, ops, regret, moved, gdscVars, clockVars, serrVars>>

(* -------------------------------- SErrors ------------------------------- *)
(* _before: an SError that is pending is counted and, in strict mode, refuses the request *)
Taken_Dropped == 0
Taken == IF late THEN 1 ELSE 0
Refuses_LateOnly == clocksStrict /\ late
Refuses == clocksStrict /\ (late \/ still)
(* read32 and write32: the request, which may raise an SError at once, later, or one that stays *)
ClocksAccess ==
  /\ part = "serror" /\ Write
  /\ served' = (clocksStrict /\ (late \/ still) /\ ~Refuses)
  /\ clocksBefore' = clocksBefore + (IF Refuses /\ still THEN 0 ELSE Taken)
  /\ IF Refuses
     THEN late' = (late /\ still) /\ UNCHANGED <<during, still, clocksRaised>>
     ELSE \E how \in {"none", "during", "late", "stays"} :
            /\ during' = during + (IF how = "during" THEN 1 ELSE 0)
            /\ late' = (how = "late") /\ still' = (still \/ how = "stays")
            /\ clocksRaised' = clocksRaised + (IF how \in {"during", "late"} THEN 1 ELSE 0)
  /\ UNCHANGED <<part, viols, clocksStrict, ghosts, gdscVars, clockVars>>
serror_reset ==
  /\ part = "serror" /\ clocksBefore' = 0 /\ during' = 0 /\ clocksRaised' = (IF late THEN 1 ELSE 0)
  /\ UNCHANGED <<part, ops, viols, clocksStrict, late, still, served, ghosts, gdscVars, clockVars>>
serror_strict ==
  /\ part = "serror" /\ clocksStrict' = ~clocksStrict
  /\ UNCHANGED <<part, ops, viols, late, still, clocksBefore, during, clocksRaised, served, ghosts, gdscVars, clockVars>>

ClocksNext ==
  \/ WriteGdscr \/ ReadCfgGdscr \/ WriteVote \/ WriteRcgCfg \/ WriteRcgUpdate \/ ReadRcgCmd \/ WriteCbcr \/ ReadCbcr
  \/ ReadBehind \/ ClocksAccess \/ serror_reset \/ serror_strict

ClocksSpec == ClocksInit /\ [][ClocksNext]_clocksVars

-----------------------------------------------------------------------------
(* Type invariant. *)
ClocksTypeOK ==
  /\ ops \in 0 .. MaxOps /\ viols \subseteq {"hang", "serror", "wedge", "order"}
  /\ gdsc_countdown \in -1 .. Delay /\ collapse_countdown \in -1 .. Delay /\ upd \in -1 .. Delay
  /\ clocksCfg \in Srcs /\ pending \in Srcs \cup {-1} /\ branch_reads \in 0 .. Delay

(* A read behind the CX GDSC that the fake answers was made with the GDSC on under software's control, *)
(* not asked to collapse and not collapsing, and with the GMU's clock running, however power came on;  *)
(* but for a collapse written while it was coming on, which the fake forgets.                          *)
PoweredWhenAnswered ==
  answered # <<>> => (~answered[1] \/ regret) /\ ~answered[2] /\ ~answered[3] /\ answered[4]

(* The fake's GDSC never comes on with an RCG on a dead parent, unless the RCG or its source was       *)
(* changed while the GDSC was coming on.                                                               *)
NeverWedged == gdsc_countdown # -1 => ~(clocksCfg # 0 /\ ~vote) \/ moved

(* No SError is lost: each one raised since the record was reset is counted in it or still pending.    *)
SErrorsKept == part = "serror" => clocksRaised = clocksBefore + during + (IF late THEN 1 ELSE 0)

(* In strict mode no request is carried out while an SError is pending, whether it came late or stays. *)
StrictStops == ~served
=============================================================================
