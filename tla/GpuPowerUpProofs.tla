-------------------------- MODULE GpuPowerUpProofs --------------------------
(***************************************************************************)
(* tools/a16gpu.py for any number of runs, whatever the firmware left on,  *)
(* wherever runs stop, fail or lose their link: no block of the GPU is     *)
(* touched while it is not powered and clocked, a clean exit means that no *)
(* SError came, and the guard's strict mode is put back.                   *)
(***************************************************************************)
EXTENDS GpuPowerUp, SequenceTheorems, TLAPS

PowerOnSpec == PowerOnInit /\ [][PowerOnNext]_onVars

Steps == {"S0", "S1", "S2", "S3", "S4", "S5misc", "S5smmu", "hwcheck", "P1", "P3", "P3check", "P5", "P4hw",
          "P4up", "P4poll", "P4check", "P6", "P7", "gates", "need", "gmu"}

(* The steps that may prove cx_fuse. *)
ProvesFuse == {"S3", "gates", "P4check"}

(* How a command orders its steps: the gates are read anew after the CX     *)
(* domain is taken over from hardware control, cx_fuse is withdrawn between *)
(* any proof of it and the takeover, and the clocked blocks come last.      *)
Ordered(p) ==
  /\ p \in Seq(Steps)
  /\ \A k \in 1 .. Len(p) : p[k] = "P4hw" => \E j \in k + 1 .. Len(p) : p[j] = "S3"
  /\ \A i, k \in 1 .. Len(p) : i < k /\ p[i] \in ProvesFuse /\ p[k] = "P4hw" =>
       \E j \in i + 1 .. k - 1 : p[j] = "P5"
  /\ \A i, j \in 1 .. Len(p) : p[i] \in {"S5misc", "S5smmu", "gmu"} /\ p[j] = "S3" => j < i

(* What is still to come before the steps that switch the domain: the       *)
(* critical branches, and the withdrawal of cx_fuse.                        *)
Due(p, critical, fuse) ==
  /\ \A k \in 1 .. Len(p) : p[k] \in {"P4hw", "P4poll"} => critical \/ \E j \in 1 .. k - 1 : p[j] = "P3"
  /\ \A k \in 1 .. Len(p) : p[k] = "P4hw" => ~fuse \/ \E j \in 1 .. k - 1 : p[j] = "P5"

Reread(p) == \E j \in 1 .. Len(p) : p[j] = "S3"

(* The gates of the clocked blocks vouch for the state they were read in. *)
Vouched ==
  /\ proven \cap {"cx_misc", "cx_gmu"} # {} => CxOn /\ clocks.gmu /\ ahb.run
  /\ "cx_smmu" \in proven => CxOn /\ clocks.smmu /\ ahb.run

Flags == /\ cfgAhb \in BOOLEAN /\ crit \in BOOLEAN /\ strict \in BOOLEAN
         /\ before \in BOOLEAN /\ freqClean \in BOOLEAN /\ after \in BOOLEAN

Values ==
  /\ gdsc \in [on : BOOLEAN, hw : BOOLEAN, collapse : BOOLEAN]
  /\ ahb \in [run : BOOLEAN, latches : BOOLEAN] /\ clocks \in [gmu : BOOLEAN, smmu : BOOLEAN]
  /\ posted \in {"none", "flight", "pending"} /\ counted \in Nat /\ raised \in Nat
  /\ sessions \in Nat /\ exit \in Int

OnTypes == Flags /\ Values

(* The domain is stable only with the critical branches running, cx_fuse    *)
(* means a stable domain, and FREQ_LIMIT was only read with GPU_CC_AHB      *)
(* running.                                                                 *)
Domain ==
  /\ CxOn => crit
  /\ "cx_fuse" \in proven => CxOn
  /\ freqClean => ahb.run

Running ==
  exit = -1 => /\ Ordered(plan)
               /\ Due(plan, crit, "cx_fuse" \in proven)
               /\ ~Reread(plan) => Vouched
               /\ ~after
               /\ raised <= counted + (IF posted = "pending" THEN 1 ELSE 0)

Fresh == sessions = 0 => exit # -1 /\ proven = {} /\ ~freqClean

PowerOnInv == OnTypes /\ Domain /\ Running /\ Fresh /\ TouchesPowered /\ CleanMeansClean /\ StrictRestored

-----------------------------------------------------------------------------
(* The step taken from a plan, and the plan it leaves. *)
LEMMA TailIs ==
  ASSUME NEW p \in Seq(Steps), p # <<>>
  PROVE  /\ Head(p) = p[1] /\ p[1] \in Steps /\ Tail(p) \in Seq(Steps) /\ Len(p) \in Nat /\ Len(p) > 0
         /\ Len(Tail(p)) = Len(p) - 1
         /\ \A k \in 1 .. Len(p) - 1 : Tail(p)[k] = p[k + 1]
  OBVIOUS

(* The rest of an ordered plan is ordered. *)
LEMMA TailOrdered == ASSUME NEW p, Ordered(p), p # <<>> PROVE Ordered(Tail(p))
<1> DEFINE t == Tail(p)
<1>1. p \in Seq(Steps)
  BY DEF Ordered
<1>2. /\ t \in Seq(Steps) /\ Len(p) \in Nat /\ Len(p) > 0 /\ Len(t) = Len(p) - 1
      /\ \A k \in 1 .. Len(p) - 1 : t[k] = p[k + 1]
  BY <1>1, TailIs
<1> HIDE DEF t
<1>3. ASSUME NEW k \in 1 .. Len(t), t[k] = "P4hw" PROVE \E j \in k + 1 .. Len(t) : t[j] = "S3"
  <2>1. k + 1 \in 1 .. Len(p) /\ p[k + 1] = "P4hw"
    BY <1>2, <1>3
  <2>2. PICK j \in (k + 1) + 1 .. Len(p) : p[j] = "S3"
    BY <2>1 DEF Ordered
  <2>3. j - 1 \in k + 1 .. Len(t) /\ t[j - 1] = "S3"
    BY <1>2, <2>2
  <2> QED BY <2>3
<1>4. ASSUME NEW i \in 1 .. Len(t), NEW k \in 1 .. Len(t), i < k, t[i] \in ProvesFuse, t[k] = "P4hw"
      PROVE  \E j \in i + 1 .. k - 1 : t[j] = "P5"
  <2>1. i + 1 \in 1 .. Len(p) /\ k + 1 \in 1 .. Len(p) /\ p[i + 1] \in ProvesFuse /\ p[k + 1] = "P4hw" /\ i + 1 < k + 1
    BY <1>2, <1>4
  <2>2. PICK j \in (i + 1) + 1 .. (k + 1) - 1 : p[j] = "P5"
    BY <2>1 DEF Ordered
  <2>3. j - 1 \in i + 1 .. k - 1 /\ t[j - 1] = "P5"
    BY <1>2, <2>2
  <2> QED BY <2>3
<1>5. ASSUME NEW i \in 1 .. Len(t), NEW j \in 1 .. Len(t), t[i] \in {"S5misc", "S5smmu", "gmu"}, t[j] = "S3" PROVE j < i
  <2>1. /\ i + 1 \in 1 .. Len(p) /\ p[i + 1] \in {"S5misc", "S5smmu", "gmu"}
        /\ j + 1 \in 1 .. Len(p) /\ p[j + 1] = "S3"
    BY <1>2, <1>5
  <2>2. j + 1 < i + 1
    BY <2>1 DEF Ordered
  <2> QED BY <2>2
<1>6. Ordered(t)
  BY <1>2, <1>3, <1>4, <1>5 DEF Ordered
<1> QED BY <1>6 DEF t

(* What was due stays due, unless the step at hand saw to it. *)
LEMMA TailDue ==
  ASSUME NEW p, Ordered(p), p # <<>>, NEW c \in BOOLEAN, NEW f \in BOOLEAN, NEW d \in BOOLEAN, NEW g \in BOOLEAN,
         Due(p, c, f), c \/ Head(p) = "P3" => d, g => (f /\ Head(p) # "P5") \/ Head(p) \in ProvesFuse
  PROVE  Due(Tail(p), d, g)
<1> DEFINE t == Tail(p)
<1>1. p \in Seq(Steps)
  BY DEF Ordered
<1>2. /\ t \in Seq(Steps) /\ Len(p) \in Nat /\ Len(p) > 0 /\ Len(t) = Len(p) - 1
      /\ \A k \in 1 .. Len(p) - 1 : t[k] = p[k + 1]
      /\ Head(p) = p[1]
  BY <1>1, TailIs
<1> HIDE DEF t
<1>3. ASSUME NEW k \in 1 .. Len(t), t[k] \in {"P4hw", "P4poll"}, ~d PROVE \E j \in 1 .. k - 1 : t[j] = "P3"
  <2>1. k + 1 \in 1 .. Len(p) /\ p[k + 1] \in {"P4hw", "P4poll"} /\ ~c /\ p[1] # "P3"
    BY <1>2, <1>3
  <2>2. PICK j \in 1 .. (k + 1) - 1 : p[j] = "P3"
    BY <2>1 DEF Due
  <2>3. j - 1 \in 1 .. k - 1 /\ t[j - 1] = "P3"
    BY <1>2, <2>1, <2>2
  <2> QED BY <2>3
<1>4. ASSUME NEW k \in 1 .. Len(t), t[k] = "P4hw", g PROVE \E j \in 1 .. k - 1 : t[j] = "P5"
  <2>1. k + 1 \in 1 .. Len(p) /\ 1 \in 1 .. Len(p) /\ 1 < k + 1 /\ p[k + 1] = "P4hw"
    BY <1>2, <1>4
  <2>2. CASE p[1] \in ProvesFuse
    <3>1. PICK j \in 1 + 1 .. (k + 1) - 1 : p[j] = "P5"
      BY <2>1, <2>2 DEF Ordered
    <3>2. j - 1 \in 1 .. k - 1 /\ t[j - 1] = "P5"
      BY <1>2, <3>1
    <3> QED BY <3>2
  <2>3. CASE f /\ p[1] # "P5"
    <3>1. PICK j \in 1 .. (k + 1) - 1 : p[j] = "P5"
      BY <2>1, <2>3 DEF Due
    <3>2. j - 1 \in 1 .. k - 1 /\ t[j - 1] = "P5"
      BY <1>2, <2>3, <3>1, SMTT(30)
    <3> QED BY <3>2
  <2> QED BY <1>2, <1>4, <2>2, <2>3
<1>5. Due(t, d, g)
  BY <1>3, <1>4 DEF Due
<1> QED BY <1>5 DEF t

(* A step that is not the reading of the gates, with none to come, was not  *)
(* the takeover of the domain either.                                      *)
LEMMA TailReread ==
  ASSUME NEW p, Ordered(p), p # <<>>, ~Reread(Tail(p)), Head(p) # "S3" PROVE ~Reread(p) /\ Head(p) # "P4hw"
<1>1. p \in Seq(Steps)
  BY DEF Ordered
<1>2. /\ Len(p) \in Nat /\ Len(p) > 0 /\ Len(Tail(p)) = Len(p) - 1
      /\ \A k \in 1 .. Len(p) - 1 : Tail(p)[k] = p[k + 1]
      /\ Head(p) = p[1]
  BY <1>1, TailIs
<1>3. \A j \in 2 .. Len(p) : p[j] # "S3"
  <2> SUFFICES ASSUME NEW j \in 2 .. Len(p), p[j] = "S3" PROVE FALSE
    OBVIOUS
  <2>1. j - 1 \in 1 .. Len(Tail(p)) /\ Tail(p)[j - 1] = "S3"
    BY <1>2
  <2> QED BY <2>1 DEF Reread
<1>4. ~Reread(p)
  BY <1>2, <1>3 DEF Reread
<1>5. ASSUME p[1] = "P4hw" PROVE FALSE
  <2>1. PICK j \in 1 + 1 .. Len(p) : p[j] = "S3"
    BY <1>2, <1>5 DEF Ordered
  <2> QED BY <1>3, <2>1
<1> QED BY <1>2, <1>4, <1>5

-----------------------------------------------------------------------------
(* The three commands order their steps so.  survey is cut short by          *)
(* --stop-after and never takes over the domain.                            *)
LEMMA SurveyOrdered ==
  ASSUME NEW n \in {3, 4, 7}, NEW b \in BOOLEAN
  PROVE  Ordered(SubSeq(survey, 1, n)) /\ Due(SubSeq(survey, 1, n), b, FALSE)
<1> DEFINE p == SubSeq(survey, 1, n)
<1>1. survey \in Seq(Steps) /\ Len(survey) = 7
      /\ \A k \in 1 .. 7 : survey[k] \in Steps /\ survey[k] \notin {"P4hw", "P4poll"}
  BY DEF survey, Steps
<1>2. p \in Seq(Steps) /\ Len(p) = n /\ \A k \in 1 .. n : p[k] = survey[k]
  <2>a. n \in Int /\ 1 \in Int /\ 1 .. n \subseteq 1 .. 7
    OBVIOUS
  <2>1. n \in Int /\ 1 \in Int /\ \A i \in 1 .. n : survey[i] \in Steps
    BY <1>1, <2>a
  <2>2. p \in Seq(Steps) /\ Len(p) = (IF 1 <= n THEN n - 1 + 1 ELSE 0) /\ \A i \in 1 .. n - 1 + 1 : p[i] = survey[1 + i - 1]
    BY <2>1, SubSeqProperties
  <2> HIDE DEF p
  <2> QED BY <2>1, <2>2
<1>3. \A k \in 1 .. Len(p) : p[k] \notin {"P4hw", "P4poll"}
  BY <1>1, <1>2
<1> HIDE DEF p
<1>a. \A i, j \in 1 .. Len(p) : p[i] \in {"S5misc", "S5smmu", "gmu"} /\ p[j] = "S3" => j < i
  <2>1. \A k \in 1 .. 7 : (survey[k] \in {"S5misc", "S5smmu", "gmu"} => k > 4) /\ (survey[k] = "S3" => k = 4)
    BY DEF survey
  <2> QED BY <1>2, <2>1 DEF p
<1>4. Ordered(p) /\ Due(p, b, FALSE)
  BY <1>a, <1>2, <1>3 DEF Ordered, Due
<1> QED BY <1>4, Zenon DEF p

(* The prologue of stage 3 never takes over the domain. *)
LEMMA PrologueOrdered == ASSUME NEW b \in BOOLEAN PROVE Ordered(prologue) /\ Due(prologue, b, FALSE)
<1>1. prologue \in Seq(Steps) /\ Len(prologue) = 8 /\ \A k \in 1 .. 8 : prologue[k] \notin {"P4hw", "P4poll"}
  BY DEF prologue, Steps
<1>2. \A k \in 1 .. 8 : (prologue[k] \in {"S5misc", "S5smmu", "gmu"} => k > 4) /\ (prologue[k] = "S3" => k = 3)
  BY DEF prologue
<1> QED BY <1>1, <1>2 DEF Ordered, Due

(* cx-on withdraws cx_fuse before the takeover and reads the gates after it. *)
LEMMA CxOnOrdered == ASSUME NEW take \in BOOLEAN, NEW b \in BOOLEAN PROVE Ordered(cx_on(take)) /\ Due(cx_on(take), b, FALSE)
<1> DEFINE o == IF take THEN 0 ELSE 1
<1> DEFINE c == cx_on(take)
<1>1. c \in Seq(Steps) /\ Len(c) = 18 + o
  <2> DEFINE s == <<"S0", "S1", "S2", "S3">>
             h == IF take THEN <<>> ELSE <<"hwcheck">>
             w == <<"P1", "P3", "P3check", "P5", "P4hw", "P4up", "P4poll", "P4check", "S4", "P6", "P7", "S3", "S5misc", "S5smmu">>
  <2>1. s \in Seq(Steps) /\ Len(s) = 4
    BY DEF Steps
  <2>2. h \in Seq(Steps) /\ Len(h) = o
    <3>1. CASE take BY <3>1
    <3>2. CASE ~take BY <3>2 DEF Steps
    <3> QED BY <3>1, <3>2
  <2>3. w \in Seq(Steps) /\ Len(w) = 14
    BY DEF Steps
  <2>4. c = s \o h \o w
    BY DEF cx_on
  <2> HIDE DEF s, h, w, c, o
  <2>5. s \o h \in Seq(Steps) /\ Len(s \o h) = Len(s) + Len(h)
    BY <2>1, <2>2, ConcatProperties, Zenon
  <2>6. s \o h \o w \in Seq(Steps) /\ Len(s \o h \o w) = Len(s \o h) + Len(w)
    BY <2>3, <2>5, ConcatProperties, Zenon
  <2>7. o \in {0, 1}
    BY DEF o
  <2> QED BY <2>1, <2>2, <2>3, <2>4, <2>5, <2>6, <2>7
<1>2. c[4 + o + 2] = "P3" /\ c[4 + o + 4] = "P5" /\ c[4 + o + 12] = "S3"
  BY DEF cx_on
<1>3. \A k \in 1 .. 18 + o : (c[k] = "P4hw" => k = o + 9) /\ (c[k] = "P4poll" => k = o + 11) /\
        (c[k] \in ProvesFuse => k <= 4 \/ k > o + 9) /\
        (c[k] \in {"S5misc", "S5smmu", "gmu"} => k > o + 16) /\ (c[k] = "S3" => k <= o + 16)
  BY SMTT(30) DEF cx_on, ProvesFuse
<1>a. o \in {0, 1}
  OBVIOUS
<1> HIDE DEF c, o
<1>4. Ordered(c) /\ Due(c, b, FALSE)
  BY <1>1, <1>2, <1>3, <1>a DEF Ordered, Due
<1> QED BY <1>4, Zenon DEF c

-----------------------------------------------------------------------------
(* What a step reads as proven: gates that are read anew vouch for the      *)
(* state, and cx_fuse comes only with a stable domain.                      *)
LEMMA GatesVouch ==
  ASSUME OnTypes, Domain, NEW g \in {step_gpucc, prove_cx_gmu}
  PROVE  /\ g \cap {"cx_misc", "cx_gmu"} # {} => CxOn /\ clocks.gmu /\ ahb.run
         /\ "cx_smmu" \in g => CxOn /\ clocks.smmu /\ ahb.run
         /\ "cx_fuse" \in g => CxOn
<1>1. /\ step_gpucc \cap {"cx_misc", "cx_gmu"} # {} => CxOn /\ clocks.gmu /\ ahb.run
      /\ "cx_smmu" \in step_gpucc => CxOn /\ clocks.smmu /\ ahb.run
      /\ "cx_fuse" \in step_gpucc => CxOn
  BY DEF step_gpucc, evaluate_gates, prove_fuse, prove_critical, AhbLatched, Domain
<1>2. prove_cx_gmu \subseteq step_gpucc \cup {"cx_gmu"} /\ ("cx_gmu" \in prove_cx_gmu => step_gpucc \cap {"cx_misc", "cx_gmu"} # {})
  BY SMTT(30) DEF prove_cx_gmu
<1> QED BY <1>1, <1>2

(* A step of step_* that is carried out: its gate is proven, no SError is    *)
(* pending.                                                                 *)
Carried ==
  /\ exit = -1 /\ plan # <<>> /\ posted # "pending"
  /\ Gate(Block(Head(plan))) \in proven /\ ~(Head(plan) = "S4" /\ ~ahb.run)
  /\ touched' = Block(Head(plan)) /\ plan' = Tail(plan) /\ Wrote(Head(plan)) /\ Proves(Head(plan))
  /\ posted' \in {posted, "flight"}
  /\ UNCHANGED <<raised, counted, strict, exit, after, kind, before, sessions>>

(* What a step's writes leave: the domain stays up but for the takeover,     *)
(* branches and clocks stay on.                                             *)
LEMMA WroteIs ==
  ASSUME OnTypes, Domain, NEW step \in Steps, Wrote(step), step \in {"P4hw", "P4poll"} => crit,
         step = "P4hw" => "cx_fuse" \notin proven
  PROVE  /\ crit' \in BOOLEAN /\ gdsc' \in [on : BOOLEAN, hw : BOOLEAN, collapse : BOOLEAN]
         /\ ahb' \in [run : BOOLEAN, latches : BOOLEAN] /\ clocks' \in [gmu : BOOLEAN, smmu : BOOLEAN] /\ cfgAhb' = cfgAhb
         /\ crit \/ step = "P3" => crit'
         /\ CxOn' => crit'
         /\ CxOn /\ step # "P4hw" => CxOn'
         /\ ahb.run => ahb'.run
         /\ clocks.gmu => clocks'.gmu
         /\ clocks.smmu => clocks'.smmu
         /\ step \in {"S4", "S5misc", "S5smmu", "gmu", "S3", "gates", "P4check"} => UNCHANGED domain
<1>1. CASE step = "P4hw"
  BY <1>1, Zenon DEF Wrote, OnTypes, Flags, Values, Domain, CxOn, domain
<1>2. CASE step = "P4up"
  BY <1>2, Zenon DEF Wrote, OnTypes, Flags, Values, Domain, CxOn, domain
<1>3. CASE step = "P4poll"
  BY <1>3, Zenon DEF Wrote, OnTypes, Flags, Values, Domain, CxOn, domain
<1>4. CASE step \notin {"P4hw", "P4up", "P4poll"}
  <2>1. gdsc' = gdsc
    BY <1>4 DEF Wrote
  <2>2. crit' = (crit \/ step = "P3") /\ ahb' \in [run : BOOLEAN, latches : BOOLEAN] /\ (ahb.run => ahb'.run)
        /\ clocks' = [gmu |-> clocks.gmu \/ step = "P6", smmu |-> clocks.smmu \/ step = "P7"] /\ cfgAhb' = cfgAhb
    BY Zenon DEF Wrote, OnTypes, Flags, Values
  <2>3. step \in {"S4", "S5misc", "S5smmu", "gmu", "S3", "gates", "P4check"} => UNCHANGED domain
    BY <2>1 DEF Wrote, domain, OnTypes, Flags, Values
  <2> QED BY <2>1, <2>2, <2>3, Zenon DEF OnTypes, Flags, Values, Domain, CxOn
<1> QED BY <1>1, <1>2, <1>3, <1>4

(* What a step proves: cx_fuse comes only from a reading of a stable domain, *)
(* the gates of the clocked blocks only from a reading of all of them.      *)
LEMMA ProvenIs ==
  ASSUME OnTypes, Domain, NEW step \in Steps, Proves(step)
  PROVE  /\ "cx_fuse" \in proven' => ("cx_fuse" \in proven /\ step # "P5") \/ (step \in ProvesFuse /\ CxOn)
         /\ step \in {"S3", "gates"} =>
              /\ proven' \cap {"cx_misc", "cx_gmu"} # {} => CxOn /\ clocks.gmu /\ ahb.run
              /\ "cx_smmu" \in proven' => CxOn /\ clocks.smmu /\ ahb.run
         /\ step \notin {"S3", "gates"} =>
              proven' \cap {"cx_misc", "cx_gmu", "cx_smmu"} \subseteq proven
         /\ freqClean' = (freqClean \/ step = "S4")
<1>1. CASE step \in {"S3", "gates"}
  <2>1. proven' \in {step_gpucc, prove_cx_gmu} /\ freqClean' = (freqClean \/ step = "S4")
    BY <1>1 DEF Proves
  <2> QED BY <1>1, <2>1, GatesVouch DEF ProvesFuse
<1>2. CASE step = "P4check"
  BY <1>2 DEF Proves, prove_fuse, ProvesFuse
<1>3. CASE step \in {"S2", "P1", "P3check", "P5"}
  BY <1>3 DEF Proves, prove_critical
<1>4. CASE step \notin {"S3", "gates", "P4check", "S2", "P1", "P3check", "P5"}
  BY <1>4 DEF Proves
<1> QED BY <1>1, <1>2, <1>3, <1>4

(* The block it touches is powered, and what it leaves is as the invariant   *)
(* says.                                                                    *)
LEMMA CarriedKeeps == ASSUME PowerOnInv, Carried PROVE PowerOnInv'
<1> DEFINE step == Head(plan)
<1>1. Ordered(plan) /\ plan # <<>> /\ Due(plan, crit, "cx_fuse" \in proven) /\ (~Reread(plan) => Vouched) /\ exit = -1 /\ exit' = -1
  BY DEF PowerOnInv, Running, Carried
<1>2. step = plan[1] /\ step \in Steps /\ Len(plan) \in Nat /\ Len(plan) > 0
  BY <1>1, TailIs DEF Ordered
<1>3. (step \in {"P4hw", "P4poll"} => crit) /\ (step = "P4hw" => "cx_fuse" \notin proven)
  BY <1>1, <1>2 DEF Due
<1>4. OnTypes /\ Domain /\ Wrote(step) /\ Proves(step)
  BY DEF PowerOnInv, Carried
<1> DEFINE fuse == "cx_fuse" \in proven
<1>5. Domain'
  <2>1. CxOn' => crit'
    BY <1>2, <1>3, <1>4, WroteIs, SMTT(30)
  <2>2. "cx_fuse" \in proven' => CxOn'
    <3>1. ASSUME step \in ProvesFuse PROVE CxOn' = CxOn
      BY <1>2, <1>3, <1>4, <3>1, WroteIs, SMTT(30) DEF ProvesFuse, domain, CxOn
    <3> QED BY <1>2, <1>3, <1>4, <3>1, WroteIs, ProvenIs, SMTT(30) DEF Domain
  <2>3. freqClean' => ahb'.run
    BY <1>2, <1>3, <1>4, WroteIs, ProvenIs, Zenon DEF Domain, Carried
  <2> QED BY <2>1, <2>2, <2>3 DEF Domain
<1>6. Ordered(plan') /\ Due(plan', crit', "cx_fuse" \in proven')
  <2>1. plan' = Tail(plan)
    BY DEF Carried
  <2>2. crit \in BOOLEAN /\ crit' \in BOOLEAN /\ (crit \/ step = "P3" => crit')
    BY <1>2, <1>3, <1>4, WroteIs DEF OnTypes, Flags, Values
  <2>3. "cx_fuse" \in proven' => ("cx_fuse" \in proven /\ step # "P5") \/ step \in ProvesFuse
    BY <1>2, <1>4, ProvenIs
  <2>4. Ordered(Tail(plan))
    BY <1>1, TailOrdered
  <2>5. ("cx_fuse" \in proven') \in BOOLEAN /\ ("cx_fuse" \in proven) \in BOOLEAN
    OBVIOUS
  <2>6. Due(Tail(plan), crit', "cx_fuse" \in proven')
    <3> DEFINE f == "cx_fuse" \in proven
               g == "cx_fuse" \in proven'
               d == crit'
    <3>1. Due(plan, crit, f) /\ f \in BOOLEAN /\ g \in BOOLEAN /\ d \in BOOLEAN
      BY <1>1, <2>2, <2>5
    <3>2. (crit \/ Head(plan) = "P3" => d) /\ (g => (f /\ Head(plan) # "P5") \/ Head(plan) \in ProvesFuse)
      BY <2>2, <2>3
    <3> HIDE DEF f, g, d
    <3>3. Due(Tail(plan), d, g)
      BY <1>1, <2>2, <3>1, <3>2, TailDue
    <3> QED BY <3>3 DEF d, g
  <2> QED BY <2>1, <2>4, <2>6
<1>7. ASSUME ~Reread(plan') PROVE Vouched'
  <2>1. plan' = Tail(plan)
    BY DEF Carried
  <2>2. CASE step \in {"S3", "gates"}
    <3>1. UNCHANGED domain
      BY <1>2, <1>3, <1>4, <2>2, WroteIs
    <3> QED BY <1>2, <1>4, <2>2, <3>1, ProvenIs DEF Vouched, CxOn, domain
  <2>3. CASE step \notin {"S3", "gates"}
    <3>1. Vouched /\ step # "P4hw"
      BY <1>1, <1>7, <2>1, <2>3, TailReread
    <3>2. proven' \cap {"cx_misc", "cx_gmu", "cx_smmu"} \subseteq proven
      BY <1>2, <1>4, <2>3, ProvenIs
    <3>3. (CxOn => CxOn') /\ (ahb.run => ahb'.run) /\ (clocks.gmu => clocks'.gmu) /\ (clocks.smmu => clocks'.smmu)
      BY <1>2, <1>3, <1>4, <3>1, WroteIs
    <3> QED BY <3>1, <3>2, <3>3 DEF Vouched
  <2> QED BY <2>2, <2>3
<1>8. TouchesPowered'
  <2>1. touched' = Block(step) /\ Gate(Block(step)) \in proven
    BY DEF Carried
  <2>2. CASE step = "S4"
    <3>1. touched' = "freq" /\ "cx_fuse" \in proven
      BY <2>1, <2>2 DEF Block, Gate
    <3>2. UNCHANGED domain
      BY <1>2, <1>3, <1>4, <2>2, WroteIs
    <3> QED BY <1>4, <3>1, <3>2 DEF TouchesPowered, Domain, CxOn, domain
  <2>3. CASE step \in {"S5misc", "S5smmu", "gmu"}
    <3>1. \/ step = "S5misc" /\ touched' = "misc" /\ "cx_misc" \in proven
          \/ step = "S5smmu" /\ touched' = "smmu" /\ "cx_smmu" \in proven
          \/ step = "gmu" /\ touched' = "gmu" /\ "cx_gmu" \in proven
      BY <2>1, <2>3 DEF Block, Gate
    <3>2. UNCHANGED domain
      BY <1>2, <1>3, <1>4, <2>3, WroteIs
    <3>3. ~Reread(plan)
      BY <1>1, <1>2, <2>3 DEF Ordered, Reread
    <3>4. Vouched /\ (CxOn => crit)
      BY <1>1, <1>4, <3>3 DEF Domain
    <3> QED BY <3>1, <3>2, <3>4 DEF TouchesPowered, Vouched, CxOn, domain
  <2>4. CASE step \notin {"S4", "S5misc", "S5smmu", "gmu"}
    <3>1. touched' \notin {"freq", "misc", "smmu", "gmu"}
      BY <2>1, <2>4, SMTT(30) DEF Block
    <3> QED BY <3>1 DEF TouchesPowered
  <2> QED BY <2>2, <2>3, <2>4
<1>9. OnTypes'
  <2>1. freqClean' \in BOOLEAN
    BY <1>2, <1>4, ProvenIs, Zenon DEF OnTypes, Flags, Values
  <2>2. posted' \in {"none", "flight", "pending"} /\ UNCHANGED <<strict, before, after, counted, raised, sessions, exit>>
    BY <1>4 DEF Carried, OnTypes, Flags, Values
  <2> QED BY <1>2, <1>3, <1>4, <2>1, <2>2, WroteIs, SMTT(30) DEF OnTypes, Flags, Values
<1>10. Running'
  <2>1. ~after' /\ raised' <= counted' + (IF posted' = "pending" THEN 1 ELSE 0)
    BY <1>1, <1>4 DEF PowerOnInv, Running, Carried, OnTypes, Flags, Values
  <2> QED BY <1>6, <1>7, <2>1 DEF Running
<1>11. Fresh' /\ CleanMeansClean' /\ StrictRestored'
  BY <1>1 DEF PowerOnInv, Fresh, Carried, CleanMeansClean, StrictRestored
<1> QED BY <1>5, <1>8, <1>9, <1>10, <1>11 DEF PowerOnInv

(* A step of the survey whose gate is closed is passed over. *)
Skipped ==
  /\ exit = -1 /\ plan # <<>> /\ Head(plan) \in {"S4", "S5misc", "S5smmu"} /\ plan' = Tail(plan) /\ touched' = "none"
  /\ UNCHANGED <<domain, guard, exit, after, proven, freqClean, kind, sessions>>

(* Passing a step over keeps the invariant. *)
LEMMA SkippedKeeps == ASSUME PowerOnInv, Skipped PROVE PowerOnInv'
<1>1. /\ Ordered(plan) /\ Due(plan, crit, "cx_fuse" \in proven) /\ (~Reread(plan) => Vouched) /\ ~after
      /\ raised <= counted + (IF posted = "pending" THEN 1 ELSE 0)
  BY DEF PowerOnInv, Running, Skipped
<1>2. plan # <<>> /\ plan' = Tail(plan) /\ Head(plan) \notin {"P3", "P5", "S3"} /\ crit \in BOOLEAN /\ UNCHANGED <<domain, guard, proven, after, exit>>
  BY DEF Skipped, PowerOnInv, OnTypes, Flags, Values
<1>3. Ordered(plan')
  BY <1>1, <1>2, TailOrdered
<1>4. Due(plan', crit, "cx_fuse" \in proven)
  <2> DEFINE f == "cx_fuse" \in proven
  <2>1. Due(plan, crit, f) /\ f \in BOOLEAN
    BY <1>1
  <2> HIDE DEF f
  <2>2. Due(plan', crit, f)
    BY <1>1, <1>2, <2>1, TailDue
  <2> QED BY <2>2 DEF f
<1>5. ~Reread(plan') => Vouched
  BY <1>1, <1>2, TailReread
<1>6. Vouched' = Vouched /\ crit' = crit /\ proven' = proven /\ CxOn' = CxOn
  BY <1>2 DEF Vouched, CxOn, domain
<1>7. Running'
  <2>1. ~after' /\ raised' <= counted' + (IF posted' = "pending" THEN 1 ELSE 0)
    BY <1>1, <1>2, SMTT(30) DEF guard
  <2> QED BY <1>3, <1>4, <1>5, <1>6, <2>1 DEF Running
<1>8. OnTypes' /\ Domain' /\ Fresh' /\ TouchesPowered' /\ CleanMeansClean' /\ StrictRestored'
  BY <1>6 DEF Skipped, PowerOnInv, OnTypes, Flags, Values, Domain, Fresh, TouchesPowered, CleanMeansClean, StrictRestored, domain, guard
<1> QED BY <1>7, <1>8 DEF PowerOnInv

(* A run that ends, for whatever reason: the hardware and the gates are left *)
(* as they were, strict mode is put back or the report has no counters, and *)
(* a zero status with counters means that none was counted nor is pending.  *)
Ended ==
  /\ exit = -1 /\ exit' \in {0, 2, 3, 5, 6} /\ touched' = "none"
  /\ after' \in BOOLEAN /\ (after' => strict' = before')
  /\ strict' \in BOOLEAN /\ counted' \in Nat /\ raised' \in Nat /\ posted' \in {"none", "flight", "pending"}
  /\ (exit' = 0 /\ after' => raised' = 0)
  /\ UNCHANGED <<domain, proven, freqClean, before, sessions>>

(* However a run ends, the invariant is kept. *)
LEMMA EndedKeeps == ASSUME PowerOnInv, Ended PROVE PowerOnInv'
<1>1. CxOn' = CxOn /\ crit' = crit /\ proven' = proven /\ ahb' = ahb /\ freqClean' = freqClean
  BY DEF Ended, CxOn, domain
<1>2. OnTypes'
  BY DEF PowerOnInv, OnTypes, Flags, Values, Ended, domain
<1>3. Domain'
  BY <1>1 DEF PowerOnInv, Domain
<1>4. Running' /\ Fresh'
  <2>1. exit' # -1
    BY DEF Ended
  <2>2. sessions' # 0
    BY DEF PowerOnInv, Ended, Fresh
  <2> QED BY <2>1, <2>2 DEF Running, Fresh
<1>5. TouchesPowered' /\ CleanMeansClean' /\ StrictRestored'
  BY DEF Ended, TouchesPowered, CleanMeansClean, StrictRestored
<1> QED BY <1>2, <1>3, <1>4, <1>5 DEF PowerOnInv

(* A step is carried out, is passed over, or ends the run. *)
LEMMA StepRunsIs == ASSUME PowerOnInv, StepRuns PROVE Carried \/ Skipped \/ Ended
<1> DEFINE step == Head(plan)
<1>1. exit = -1 /\ plan # <<>> /\ UNCHANGED <<kind, before, sessions>> /\ OnTypes
  BY DEF StepRuns, PowerOnInv
<1>2. CASE Skips(step)
  <2>1. step \in {"S4", "S5misc", "S5smmu"}
    BY <1>2 DEF Skips
  <2>2. plan' = Tail(plan) /\ touched' = "none"
        /\ UNCHANGED <<domain, posted, counted, raised, strict, exit, after, proven, freqClean>>
    BY <1>2 DEF StepRuns
  <2> QED BY <1>1, <2>1, <2>2 DEF Skipped, guard
<1>3. CASE ~Skips(step) /\ Stops(step)
  <2>1. Ends(2) /\ UNCHANGED <<domain, raised, proven, freqClean>>
    BY <1>3 DEF StepRuns
  <2> QED BY <1>1, <2>1 DEF Ended, Ends, OnTypes, Flags, Values
<1>4. CASE ~Skips(step) /\ ~Stops(step) /\ posted = "pending"
  <2>1. /\ exit' = 3 /\ after' = TRUE /\ counted' = counted + 1 /\ posted' = "none" /\ strict' = before /\ touched' = "none"
        /\ UNCHANGED <<domain, raised, proven, freqClean>>
    BY <1>4 DEF StepRuns
  <2> QED BY <1>1, <2>1 DEF Ended, OnTypes, Flags, Values
<1>5. CASE ~Skips(step) /\ ~Stops(step) /\ posted # "pending"
  <2>1. /\ Gate(Block(step)) \in proven /\ ~(step = "S4" /\ ~ahb.run)
        /\ touched' = Block(step) /\ plan' = Tail(plan) /\ Wrote(step) /\ Proves(step)
        /\ posted' \in {posted, IF step \in {"P1", "P3", "P5", "P4up", "P6", "P7"} THEN "flight" ELSE posted}
        /\ UNCHANGED <<raised, counted, strict, exit, after>>
    BY <1>5 DEF StepRuns
  <2> QED BY <1>1, <1>5, <2>1 DEF Carried
<1> QED BY <1>2, <1>3, <1>4, <1>5

(* A failing access, the end of a clean run and the death of the link end it. *)
LEMMA EndsAre == ASSUME PowerOnInv, StepFails \/ Finish \/ FinishDies \/ LinkDies PROVE Ended
<1>1. OnTypes /\ (exit = -1 => ~after /\ raised <= counted + (IF posted = "pending" THEN 1 ELSE 0))
  BY DEF PowerOnInv, Running
<1>2. CASE StepFails
  BY <1>1, <1>2, SMTT(30) DEF StepFails, Ended, OnTypes, Flags, Values
<1>3. CASE Finish
  BY <1>1, <1>3, SMTT(30) DEF Finish, Ended, OnTypes, Flags, Values
<1>4. CASE FinishDies
  BY <1>1, <1>4, SMTT(30) DEF FinishDies, Ended, OnTypes, Flags, Values
<1>5. CASE LinkDies
  BY <1>1, <1>5 DEF LinkDies, Ended, OnTypes, Flags, Values
<1> QED BY <1>2, <1>3, <1>4, <1>5

(* arm_guard and the choice of a command: an ordered plan, nothing proven. *)
LEMMA RunKeeps ==
  ASSUME PowerOnInv, NEW cmd, NEW take, NEW n, run(cmd, take, n), Ordered(plan'), Due(plan', crit, FALSE)
  PROVE  PowerOnInv'
<1>1. /\ sessions' = sessions + 1 /\ exit' = -1 /\ after' = FALSE
      /\ before' = strict /\ strict' = TRUE /\ counted' = 0 /\ raised' = 0
      /\ proven' = {"always"} /\ freqClean' = FALSE /\ touched' = "none"
      /\ UNCHANGED <<domain, posted>>
  BY DEF run
<1>2. OnTypes' /\ Fresh'
  <2>1. OnTypes'
    <3>1. Flags'
      BY <1>1, Zenon DEF PowerOnInv, OnTypes, Flags, domain
    <3>2. Values'
      BY <1>1 DEF PowerOnInv, OnTypes, Values, domain
    <3> QED BY <3>1, <3>2 DEF OnTypes
  <2>2. sessions' # 0
    BY <1>1 DEF PowerOnInv, OnTypes, Flags, Values
  <2> QED BY <2>1, <2>2 DEF Fresh
<1>3. CxOn' = CxOn /\ crit' = crit /\ "cx_fuse" \notin proven'
  BY <1>1 DEF CxOn, domain
<1>4. Domain'
  BY <1>1, <1>3 DEF PowerOnInv, Domain
<1>5. Due(plan', crit', "cx_fuse" \in proven')
  <2>1. ("cx_fuse" \in proven') = FALSE
    BY <1>3
  <2> QED BY <1>3, <2>1, Zenon
<1>6. Vouched' /\ raised' <= counted' + (IF posted' = "pending" THEN 1 ELSE 0)
  BY <1>1 DEF Vouched
<1>7. Running'
  BY <1>1, <1>5, <1>6 DEF Running
<1>8. TouchesPowered' /\ CleanMeansClean' /\ StrictRestored'
  BY <1>1 DEF TouchesPowered, CleanMeansClean, StrictRestored
<1> QED BY <1>2, <1>4, <1>7, <1>8 DEF PowerOnInv

(* The steps that are no step of a run: an error arrives, the domain moves   *)
(* under hardware control, a stage without a guard is refused, and what the *)
(* firmware leaves.                                                         *)
LEMMA OthersKeep ==
  ASSUME PowerOnInv, Arrive \/ Collapse \/ GuardMissing \/ Reset PROVE PowerOnInv'
<1>1. CASE Arrive
  <2>1. CxOn' = CxOn /\ Vouched' = Vouched /\ UNCHANGED <<domain, proven, plan, freqClean>>
    BY <1>1, SMTT(30) DEF Arrive, CxOn, Vouched, domain
  <2>2. OnTypes' /\ Domain' /\ Fresh' /\ TouchesPowered' /\ CleanMeansClean' /\ StrictRestored'
    BY <1>1, <2>1, SMTT(30) DEF PowerOnInv, Arrive, OnTypes, Flags, Values, Domain, Fresh, TouchesPowered, CleanMeansClean, StrictRestored, domain
  <2>3. exit' = -1 => ~after' /\ raised' <= counted' + (IF posted' = "pending" THEN 1 ELSE 0)
    BY <1>1 DEF PowerOnInv, Arrive, OnTypes, Flags, Values, Running
  <2>4. exit' = exit /\ crit' = crit
    BY <1>1 DEF Arrive, domain
  <2>5. Running'
    BY <2>1, <2>3, <2>4 DEF PowerOnInv, Running
  <2> QED BY <2>2, <2>5, SMTT(30) DEF PowerOnInv
<1>2. CASE Collapse
  <2>1. ~CxOn /\ ~CxOn' /\ UNCHANGED <<crit, ahb, clocks, proven, plan, freqClean, exit, after, raised, counted, posted>>
    BY <1>2 DEF PowerOnInv, OnTypes, Flags, Values, Collapse, CxOn, guard
  <2>2. Vouched' = Vouched
    BY <2>1 DEF Vouched
  <2>3. Running'
    BY <2>1, <2>2 DEF PowerOnInv, Running
  <2>a. Flags'
    BY <1>2, Zenon DEF PowerOnInv, Collapse, OnTypes, Flags, guard
  <2>b. Values'
    BY <1>2, Zenon DEF PowerOnInv, Collapse, OnTypes, Values, guard
  <2>4. OnTypes' /\ Fresh' /\ TouchesPowered' /\ CleanMeansClean' /\ StrictRestored'
    BY <1>2, <2>a, <2>b DEF PowerOnInv, Collapse, OnTypes, Fresh, TouchesPowered, CleanMeansClean, StrictRestored, guard
  <2>5. Domain'
    BY <2>1 DEF PowerOnInv, Domain
  <2> QED BY <2>3, <2>4, <2>5 DEF PowerOnInv
<1>3. CASE GuardMissing
  <2>1. CxOn' = CxOn
    BY <1>3 DEF GuardMissing, CxOn, domain
  <2>2. /\ exit' = 4 /\ after' = FALSE /\ touched' = "none" /\ sessions' = sessions + 1
        /\ UNCHANGED <<domain, guard, proven, freqClean>>
    BY <1>3 DEF GuardMissing
  <2>3. OnTypes'
    <3>1. Flags'
      BY <2>2, Zenon DEF PowerOnInv, OnTypes, Flags, domain, guard
    <3>2. Values'
      BY <2>2 DEF PowerOnInv, OnTypes, Values, domain, guard
    <3> QED BY <3>1, <3>2 DEF OnTypes
  <2>4. Domain'
    BY <2>1, <2>2 DEF PowerOnInv, Domain, domain
  <2>5. sessions' # 0
    BY <2>2 DEF PowerOnInv, OnTypes, Flags, Values
  <2>6. Running' /\ Fresh' /\ TouchesPowered' /\ CleanMeansClean' /\ StrictRestored'
    BY <2>2, <2>5 DEF Running, Fresh, TouchesPowered, CleanMeansClean, StrictRestored
  <2> QED BY <2>3, <2>4, <2>6 DEF PowerOnInv
<1>4. CASE Reset
  <2>1. proven' = {} /\ ~freqClean' /\ exit' = 0 /\ sessions' = sessions + 1 /\ after' = FALSE /\ touched' = "none"
    BY <1>4, SMTT(30) DEF PowerOnInv, Fresh, Reset
  <2>2. CxOn' => crit'
    BY <1>4 DEF Reset, CxOn
  <2>3. OnTypes'
    <3>1. ahb' \in [run : BOOLEAN, latches : BOOLEAN]
      <4>1. gdsc'.on \in BOOLEAN /\ ahb' \in [run : {gdsc'.on}, latches : BOOLEAN]
        BY <1>4 DEF Reset
      <4> QED BY <4>1, SMTT(30)
    <3>2. Flags'
      BY <1>4, Zenon DEF PowerOnInv, OnTypes, Flags, Reset
    <3>3. sessions' \in Nat /\ exit' \in Int
      BY <2>1, SMTT(30) DEF PowerOnInv, OnTypes, Values
    <3>4. Values'
      BY <1>4, <3>1, <3>3 DEF Values, Reset
    <3> QED BY <3>2, <3>4 DEF OnTypes
  <2>4. sessions' # 0
    BY <2>1, SMTT(30) DEF PowerOnInv, OnTypes, Flags, Values
  <2>5. Domain' /\ Running' /\ Fresh' /\ TouchesPowered' /\ CleanMeansClean' /\ StrictRestored'
    BY <2>1, <2>2, <2>4 DEF Domain, Running, Fresh, TouchesPowered, CleanMeansClean, StrictRestored
  <2> QED BY <2>3, <2>5, SMTT(30) DEF PowerOnInv
<1> QED BY <1>1, <1>2, <1>3, <1>4

(* Every step of the tool and of the hardware keeps the invariant. *)
LEMMA PowerOnStep == ASSUME PowerOnInv, [PowerOnNext]_onVars PROVE PowerOnInv'
<1>1. ASSUME NEW n \in {3, 4, 7}, run("survey", FALSE, n) PROVE PowerOnInv'
  <2>1. plan' = SubSeq(survey, 1, n) /\ crit \in BOOLEAN
    BY <1>1 DEF run, PowerOnInv, OnTypes, Flags, Values
  <2>2. Ordered(plan') /\ Due(plan', crit, FALSE)
    BY <2>1, SurveyOrdered, Zenon
  <2> QED BY <1>1, <2>2, RunKeeps, Zenon
<1>2. ASSUME NEW t \in BOOLEAN, run("cx-on", t, 7) PROVE PowerOnInv'
  <2>1. plan' = cx_on(t) /\ crit \in BOOLEAN
    BY <1>2 DEF run, PowerOnInv, OnTypes, Flags, Values
  <2>2. Ordered(plan') /\ Due(plan', crit, FALSE)
    BY <2>1, CxOnOrdered, Zenon
  <2> QED BY <1>2, <2>2, RunKeeps, Zenon
<1>3. CASE run("stage3", FALSE, 7)
  <2>1. plan' = prologue /\ crit \in BOOLEAN
    BY <1>3 DEF run, PowerOnInv, OnTypes, Flags, Values
  <2>2. Ordered(plan') /\ Due(plan', crit, FALSE)
    BY <2>1, PrologueOrdered, Zenon
  <2> QED BY <1>3, <2>2, RunKeeps, Zenon
<1>4. CASE StepRuns
  BY <1>4, StepRunsIs, CarriedKeeps, SkippedKeeps, EndedKeeps
<1>5. CASE StepFails \/ Finish \/ FinishDies \/ LinkDies
  BY <1>5, EndsAre, EndedKeeps
<1>6. CASE Arrive \/ Collapse \/ GuardMissing \/ Reset
  BY <1>6, OthersKeep
<1>7. CASE UNCHANGED onVars
  <2>1. CxOn' = CxOn /\ Vouched' = Vouched
    BY <1>7 DEF onVars, CxOn, Vouched, domain
  <2>a. Flags'
    BY <1>7, Zenon DEF onVars, domain, guard, PowerOnInv, OnTypes, Flags
  <2>b. Values'
    BY <1>7, Zenon DEF onVars, domain, guard, PowerOnInv, OnTypes, Values
  <2>2. OnTypes'
    BY <2>a, <2>b DEF OnTypes
  <2>3. Domain'
    BY <1>7, <2>1, Zenon DEF onVars, domain, PowerOnInv, Domain
  <2>4. Running'
    BY <1>7, <2>1, Zenon DEF onVars, domain, guard, PowerOnInv, Running
  <2>5. Fresh' /\ CleanMeansClean' /\ StrictRestored'
    BY <1>7, Zenon DEF onVars, guard, PowerOnInv, Fresh, CleanMeansClean, StrictRestored
  <2>6. TouchesPowered'
    BY <1>7, <2>1, Zenon DEF onVars, domain, PowerOnInv, TouchesPowered
  <2> QED BY <2>2, <2>3, <2>4, <2>5, <2>6, Zenon DEF PowerOnInv
<1> QED BY <1>1, <1>2, <1>3, <1>4, <1>5, <1>6, <1>7, Zenon DEF PowerOnNext

(* Before the first run nothing is proven. *)
LEMMA PowerOnStarts == ASSUME PowerOnInit PROVE PowerOnInv
<1>1. OnTypes
  <2>1. Flags
    BY Zenon DEF PowerOnInit, Flags
  <2>2. Values
    BY DEF PowerOnInit, Values
  <2> QED BY <2>1, <2>2 DEF OnTypes
<1>2. Domain
  BY DEF PowerOnInit, Domain, CxOn
<1>3. Running /\ Fresh /\ TouchesPowered /\ CleanMeansClean /\ StrictRestored
  <2>1. exit = 0 /\ touched = "none" /\ after = FALSE /\ proven = {} /\ freqClean = FALSE
    BY DEF PowerOnInit
  <2> QED BY <2>1, SMTT(30) DEF Running, Fresh, TouchesPowered, CleanMeansClean, StrictRestored
<1> QED BY <1>1, <1>2, <1>3 DEF PowerOnInv

(* No step of survey, cx-on or stage 3 touches a block of the GPU that is    *)
(* not powered and clocked at that moment, for any number of runs and any   *)
(* state the firmware or a failed run left.                                 *)
THEOREM TouchesOnlyPowered == PowerOnSpec => []TouchesPowered
<1>1. PowerOnInv => TouchesPowered
  BY DEF PowerOnInv
<1> QED BY <1>1, PowerOnStarts, PowerOnStep, PTL DEF PowerOnSpec

(* A run that reports success with the guard's counters had no SError, a     *)
(* posted write's included, and every run whose report has them put strict  *)
(* mode back.                                                               *)
THEOREM ReportsAreTrue == PowerOnSpec => [](CleanMeansClean /\ StrictRestored)
<1>1. PowerOnInv => CleanMeansClean /\ StrictRestored
  BY DEF PowerOnInv
<1> QED BY <1>1, PowerOnStarts, PowerOnStep, PTL DEF PowerOnSpec
=============================================================================
