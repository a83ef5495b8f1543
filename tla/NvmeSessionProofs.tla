------------------------- MODULE NvmeSessionProofs -------------------------
(***************************************************************************)
(* Proofs about the sessions of the NVMe tools and what they place in      *)
(* memory.                                                                 *)
(*                                                                         *)
(* NvmeSession: for any number of chunks and troubles, a tool that exits 0 *)
(* is clean, the DMA window is zeroed only under a controller that is off, *)
(* and nvme_hash_compare.py leaves no controller enabled on its queues.    *)
(*                                                                         *)
(* NativeHash: the helper is clear of the running image, and the driver    *)
(* and the helper agree on the queue they share.                           *)
(*                                                                         *)
(* DmaWindow: the DMA window is clear of q1n1.                             *)
(***************************************************************************)
EXTENDS NvmeSession, Integers, Sequences, TLAPS

(* The places of a session: before the tool's own queues are installed,     *)
(* between that and the clean-up, and in the clean-up.                      *)
Before == {"idle", "connect", "locate", "takeover", "enable"}
Working == {"identify", "features", "queues", "createSq", "place", "work"}
Closing == {"deleteSq", "deleteCq", "shutdown"}
Ending == {"guard", "exit"}

(* What the tool has set up at each place. *)
SetUp ==
  /\ spc \in Before => ctl.queues = "firmware"
  /\ spc \in Working => ctl.rdy /\ ctl.queues = "tool" /\ window = "zeroed"
  /\ spc \in {"place", "work"} => ioAt = {"cq", "sq"}
  /\ spc \notin Ending => link

(* What each tool has done when its clean-up or its exit is reached with a  *)
(* status of 0.                                                             *)
Compared == \A c \in Chunk : digests["new"][c] # "none" /\ digests["new"][c] = digests["replaced"][c]
Agreeing == \A c \in Chunk : digests["new"][c] # "none" => digests["new"][c] = digests["replaced"][c]
LeftBehind ==
  IF tool = "adopt"
  THEN ctl.rdy /\ ctl.queues = "tool" /\ ioAt = {"cq", "sq"} /\ window = "zeroed"
  ELSE ~ctl.en /\ ioAt = {}

Earned ==
  /\ spc \in Closing => tool # "adopt"
  /\ spc \in Before \cup Working => Agreeing
  /\ tool = "compare" /\ spc \in Closing \cup Ending /\ status = 0 => Compared
  /\ spc \in Ending /\ status = 0 => LeftBehind
  /\ spc = "exit" /\ status = 0 /\ link => strict = was /\ serrors = 0
  /\ spc \in Ending /\ tool = "compare" /\ link /\ ~stuck /\ ctl.queues = "tool" => ~ctl.en

SessionInv == TypeOK /\ SetUp /\ QuietWhileZeroed /\ Earned

-----------------------------------------------------------------------------
(* The invariant holds before a tool is started. *)
LEMMA SessionInit == Init => SessionInv
<1> SUFFICES ASSUME Init PROVE SessionInv
  BY Zenon
<1>1. TypeOK
  <2>1. digests \in [Helpers -> [Chunk -> {"none", "right", "wrong"}]]
    BY Zenon DEF Init
  <2>2. link \in BOOLEAN /\ stuck \in BOOLEAN /\ io \in BOOLEAN /\ strict \in BOOLEAN /\ was \in BOOLEAN
    BY Zenon DEF Init
  <2>3. ctl \in [en : BOOLEAN, rdy : BOOLEAN, cfs : BOOLEAN, queues : {"firmware", "tool"}]
    BY Zenon DEF Init
  <2>4. /\ tool \in {"none", "m3", "adopt", "compare"} /\ spc \in Acting \cup {"idle", "connect", "guard", "exit"}
        /\ serrors \in 0 .. 1 /\ window \in {"unset", "stale", "zeroed"} /\ ioAt \subseteq {"cq", "sq"}
        /\ status \in {0, 1, 2, 3, 5}
    BY DEF Init
  <2> QED BY Zenon, <2>1, <2>2, <2>3, <2>4 DEF TypeOK
<1>2. SetUp /\ QuietWhileZeroed
  BY Zenon DEF Init, SetUp, QuietWhileZeroed, Before, Working, Ending
<1>3. Earned
  BY Zenon DEF Init, Earned, Before, Working, Closing, Ending, Agreeing, Helpers
<1> QED BY Zenon, <1>1, <1>2, <1>3 DEF SessionInv

(* The tool is chosen, connects, looks at the machine and takes the         *)
(* controller over.                                                         *)
LEMMA BeforeKeeps ==
  ASSUME SessionInv, Start \/ Connect \/ Locate \/ Quiesce \/ Enable
  PROVE  SessionInv'
<1>0. TypeOK /\ SetUp /\ Earned
  BY Zenon DEF SessionInv
<1>1. /\ spc \in Before /\ spc' \in Before \cup {"identify"} /\ UNCHANGED <<io, ioAt, link, digests, status, stuck>>
  BY DEF Start, Connect, Locate, Quiesce, Enable, Before
<1>2. /\ ctl' \in [en : BOOLEAN, rdy : BOOLEAN, cfs : BOOLEAN, queues : {"firmware", "tool"}]
      /\ spc' \in Before => ctl'.queues = "firmware"
      /\ spc' = "enable" => ~ctl'.en
  <2>1. CASE Start
    <3>1. PICK e, r, f \in BOOLEAN : ctl' = [en |-> e, rdy |-> r, cfs |-> f, queues |-> "firmware"]
      BY <2>1 DEF Start
    <3>2. spc' = "connect"
      BY Zenon, <2>1 DEF Start
    <3> QED BY Zenon, <3>1, <3>2
  <2>2. CASE Connect \/ Locate
    BY Zenon, <1>0, <1>1, <2>2 DEF TypeOK, SetUp, Connect, Locate
  <2>3. CASE Quiesce
    BY Zenon, <1>0, <1>1, <2>3 DEF TypeOK, SetUp, Quiesce
  <2>4. CASE Enable
    <3>1. ctl' = [en |-> TRUE, rdy |-> TRUE, cfs |-> FALSE, queues |-> "tool"] /\ spc' = "identify"
      BY Zenon, <2>4 DEF Enable
    <3> QED BY Zenon, <3>1 DEF Before
  <2> QED BY Zenon, <2>1, <2>2, <2>3, <2>4
<1>3. TypeOK'
  <2>1. /\ tool' \in {"none", "m3", "adopt", "compare"} /\ window' \in {"unset", "stale", "zeroed"}
        /\ serrors' \in 0 .. 1
    BY <1>0 DEF TypeOK, Start, Connect, Locate, Quiesce, Enable
  <2>2. strict' \in BOOLEAN /\ was' \in BOOLEAN
    <3>0. strict \in BOOLEAN /\ was \in BOOLEAN
      BY Zenon, <1>0 DEF TypeOK
    <3>1. /\ strict' \in BOOLEAN \/ strict' = TRUE \/ strict' = strict
          /\ was' = was \/ was' = strict
      BY DEF Start, Connect, Locate, Quiesce, Enable
    <3> QED BY Zenon, <3>0, <3>1
  <2>4. spc' \in Acting \cup {"idle", "connect", "guard", "exit"}
    BY Zenon, <1>1 DEF Before, Acting
  <2> QED BY Zenon, <1>0, <1>1, <1>2, <2>1, <2>2, <2>4 DEF TypeOK
<1>4. SetUp' /\ QuietWhileZeroed'
  <2>1. link'
    BY Zenon, <1>0, <1>1 DEF SetUp, Before, Ending
  <2>3. spc' \in Working => ctl'.rdy /\ ctl'.queues = "tool" /\ window' = "zeroed"
    BY <1>0 DEF Working, Start, Connect, Locate, Quiesce, Enable
  <2> QED BY Zenon, <1>1, <1>2, <2>1, <2>3 DEF SetUp, QuietWhileZeroed, Before
<1>5. Earned'
  <2>1. Agreeing'
    BY Zenon, <1>0, <1>1 DEF Earned, Agreeing
  <2> QED BY Zenon, <1>1, <2>1 DEF Earned, Before, Closing, Ending
<1> QED BY Zenon, <1>3, <1>4, <1>5 DEF SessionInv

(* The tool identifies the SSD, creates its queues and places the helper.   *)
LEMMA PreparesKeeps ==
  ASSUME SessionInv, Identify \/ Features \/ CreateCq \/ CreateSq \/ PlaceHelper
  PROVE  SessionInv'
<1>0. TypeOK /\ SetUp /\ Earned
  BY Zenon DEF SessionInv
<1>1. /\ spc \in Working /\ spc' \in Working
      /\ UNCHANGED <<tool, ctl, window, link, strict, was, serrors, digests, status, stuck>>
  BY Zenon DEF Identify, Features, CreateCq, CreateSq, PlaceHelper, Working
<1>2. /\ io' \in BOOLEAN /\ ioAt' \subseteq {"cq", "sq"}
      /\ spc' \in {"place", "work"} => ioAt' = {"cq", "sq"}
  BY Zenon, <1>0 DEF TypeOK, SetUp, Identify, Features, CreateCq, CreateSq, PlaceHelper
<1>3. TypeOK'
  BY <1>0, <1>1, <1>2 DEF TypeOK, Working, Acting
<1>4. SetUp' /\ QuietWhileZeroed'
  BY Zenon, <1>0, <1>1, <1>2 DEF SetUp, QuietWhileZeroed, Before, Working, Ending
<1>5. Earned'
  <2>1. Agreeing'
    BY Zenon, <1>0, <1>1 DEF Earned, Agreeing
  <2> QED BY Zenon, <1>1, <2>1 DEF Earned, Working, Closing, Ending
<1> QED BY Zenon, <1>3, <1>4, <1>5 DEF SessionInv

(* The reads of nvme_m3.py, and the hand-over of a running controller. *)
LEMMA ReadsKeeps ==
  ASSUME SessionInv, ReadGpt \/ Arm
  PROVE  SessionInv'
<1>0. TypeOK /\ SetUp /\ Earned
  BY Zenon DEF SessionInv
<1>1. /\ spc = "work" /\ UNCHANGED <<tool, ctl, window, io, ioAt, link, strict, was, serrors, digests, stuck>>
      /\ \/ tool = "m3" /\ spc' = "deleteSq" /\ status' \in {0, 2}
         \/ tool = "adopt" /\ spc' = "guard" /\ status' = status
  BY Zenon DEF ReadGpt, Arm
<1>2. TypeOK'
  BY <1>0, <1>1 DEF TypeOK, Acting
<1>3. SetUp' /\ QuietWhileZeroed'
  BY Zenon, <1>0, <1>1 DEF SetUp, QuietWhileZeroed, Before, Working, Ending
<1>4. Earned'
  <2>1. tool' = "adopt" => LeftBehind'
    BY Zenon, <1>0, <1>1 DEF LeftBehind, SetUp, Working
  <2> QED BY Zenon, <1>1, <2>1 DEF Earned, Before, Working, Closing, Ending
<1> QED BY Zenon, <1>2, <1>3, <1>4 DEF SessionInv

(* One digest of one helper: the new one's is compared as soon as it is     *)
(* there, so as long as the work goes on those that are there agree.        *)
LEMMA HashKeeps ==
  ASSUME SessionInv, HashChunk
  PROVE  SessionInv'
<1>0. TypeOK /\ SetUp /\ Earned
  BY Zenon DEF SessionInv
<1>1. PICK h \in Helpers, c \in Chunk, d \in {"right", "wrong"} :
        /\ digests[h][c] = "none"
        /\ h = "new" => \A b \in Chunk : digests["replaced"][b] # "none"
        /\ digests' = [digests EXCEPT ![h][c] = d]
        /\ IF h = "new" /\ d # digests["replaced"][c] THEN status' = 1 /\ spc' = "deleteSq"
                                                      ELSE UNCHANGED <<status, spc>>
  BY Zenon DEF HashChunk
<1>2. /\ spc = "work" /\ tool = "compare"
      /\ UNCHANGED <<tool, ctl, window, io, ioAt, link, strict, was, serrors, stuck>>
  BY Zenon DEF HashChunk
<1>3. digests \in [Helpers -> [Chunk -> {"none", "right", "wrong"}]] /\ Agreeing
  BY Zenon, <1>0, <1>2 DEF TypeOK, Earned, Working
<1>4. /\ digests' \in [Helpers -> [Chunk -> {"none", "right", "wrong"}]]
      /\ digests'[h][c] = d
      /\ \A g \in Helpers, b \in Chunk : <<g, b>> # <<h, c>> => digests'[g][b] = digests[g][b]
  BY Zenon, <1>1, <1>3
<1>5. TypeOK'
  BY <1>0, <1>1, <1>2, <1>4 DEF TypeOK, Acting
<1>6. SetUp' /\ QuietWhileZeroed'
  BY Zenon, <1>0, <1>1, <1>2 DEF SetUp, QuietWhileZeroed, Before, Working, Ending
<1>7. Earned'
  <2>1. CASE h = "new" /\ d # digests["replaced"][c]
    BY <1>1, <1>2, <2>1 DEF Earned, Before, Working, Closing, Ending
  <2>2. CASE ~(h = "new" /\ d # digests["replaced"][c])
    <3>1. ASSUME NEW b \in Chunk, digests'["new"][b] # "none"
          PROVE  digests'["new"][b] = digests'["replaced"][b]
      <4>0. "new" \in Helpers /\ "replaced" \in Helpers /\ "new" # "replaced"
        BY Zenon DEF Helpers
      <4>1. CASE h = "new" /\ b = c
        BY Zenon, <1>4, <2>2, <4>0, <4>1
      <4>2. CASE h = "replaced" /\ b = c
        <5>1. digests'["new"][b] = digests["new"][b]
          BY Zenon, <1>4, <4>0, <4>2
        <5>2. digests["replaced"][b] = "none"
          BY Zenon, <1>1, <4>2
        <5> QED BY Zenon, <1>3, <3>1, <5>1, <5>2 DEF Agreeing
      <4>3. CASE b # c
        <5>1. digests'["new"][b] = digests["new"][b] /\ digests'["replaced"][b] = digests["replaced"][b]
          BY Zenon, <1>4, <4>0, <4>3
        <5> QED BY Zenon, <1>3, <3>1, <5>1 DEF Agreeing
      <4> QED BY Zenon, <4>1, <4>2, <4>3 DEF Helpers
    <3>2. Agreeing' /\ spc' = "work"
      BY Zenon, <1>1, <1>2, <2>2, <3>1 DEF Agreeing
    <3> QED BY Zenon, <3>2 DEF Earned, Before, Working, Closing, Ending
  <2> QED BY Zenon, <2>1, <2>2
<1> QED BY Zenon, <1>5, <1>6, <1>7 DEF SessionInv

(* Both passes are complete and agree. *)
LEMMA PassesKeeps ==
  ASSUME SessionInv, PassesDone
  PROVE  SessionInv'
<1>0. TypeOK /\ SetUp /\ Earned
  BY Zenon DEF SessionInv
<1>1. /\ spc = "work" /\ spc' = "deleteSq" /\ tool = "compare"
      /\ \A c \in Chunk : digests["new"][c] # "none"
      /\ UNCHANGED <<tool, ctl, window, io, ioAt, link, strict, was, serrors, digests, status, stuck>>
  BY Zenon DEF PassesDone, Helpers
<1>2. TypeOK'
  BY <1>0, <1>1 DEF TypeOK, Acting
<1>3. SetUp' /\ QuietWhileZeroed'
  BY Zenon, <1>0, <1>1 DEF SetUp, QuietWhileZeroed, Before, Working, Ending
<1>4. Earned'
  <2>1. Compared'
    BY Zenon, <1>0, <1>1 DEF Earned, Working, Agreeing, Compared
  <2> QED BY Zenon, <1>1, <2>1 DEF Earned, Before, Working, Closing, Ending
<1> QED BY Zenon, <1>2, <1>3, <1>4 DEF SessionInv

(* The clean-up: queues, controller, guard. *)
LEMMA ClosesKeeps ==
  ASSUME SessionInv, DeleteSq \/ DeleteCq \/ Shutdown
  PROVE  SessionInv'
<1>0. TypeOK /\ SetUp /\ Earned
  BY Zenon DEF SessionInv
<1>1. /\ spc \in Closing /\ UNCHANGED <<tool, window, link, strict, was, serrors, digests, status, stuck>>
      /\ \/ spc' \in Closing /\ ctl' = ctl
         \/ spc' = "guard" /\ ctl' = [ctl EXCEPT !.en = FALSE, !.rdy = FALSE] /\ ioAt' = {}
  BY Zenon DEF DeleteSq, DeleteCq, Shutdown, Closing
<1>2. ioAt' \subseteq {"cq", "sq"} /\ io' \in BOOLEAN
  BY Zenon, <1>0 DEF TypeOK, DeleteSq, DeleteCq, Shutdown
<1>3. /\ ctl' \in [en : BOOLEAN, rdy : BOOLEAN, cfs : BOOLEAN, queues : {"firmware", "tool"}]
      /\ spc' = "guard" => ~ctl'.en
  BY Zenon, <1>0, <1>1 DEF TypeOK, Closing
<1>4. TypeOK'
  BY <1>0, <1>1, <1>2, <1>3 DEF TypeOK, Acting, Closing
<1>5. SetUp' /\ QuietWhileZeroed'
  BY Zenon, <1>0, <1>1 DEF SetUp, QuietWhileZeroed, Before, Working, Closing, Ending
<1>6. Earned'
  <2>1. tool # "adopt"
    BY Zenon, <1>0, <1>1 DEF Earned
  <2>2. tool = "compare" /\ status = 0 => Compared'
    BY Zenon, <1>0, <1>1 DEF Earned, Compared
  <2>3. spc' = "guard" => LeftBehind'
    BY Zenon, <1>1, <1>3, <2>1 DEF LeftBehind, Closing
  <2> QED BY Zenon, <1>1, <1>3, <2>1, <2>2, <2>3 DEF Earned, Before, Working, Closing, Ending
<1> QED BY Zenon, <1>4, <1>5, <1>6 DEF SessionInv

(* main's finally counts SErrors before a status of 0 may stand. *)
LEMMA GuardKeeps ==
  ASSUME SessionInv, RestoreGuard
  PROVE  SessionInv'
<1>0. TypeOK /\ SetUp /\ Earned
  BY Zenon DEF SessionInv
<1>1. /\ spc = "guard" /\ spc' = "exit"
      /\ UNCHANGED <<tool, ctl, window, io, ioAt, link, was, serrors, digests, stuck>>
      /\ IF link THEN strict' = was /\ status' = (IF status = 0 /\ serrors > 0 THEN Failed ELSE status)
                 ELSE UNCHANGED <<strict, status>>
  BY Zenon DEF RestoreGuard
<1>2. Failed \in {1, 3}
  BY Zenon DEF Failed
<1>3. TypeOK'
  <2>1. strict' \in BOOLEAN
    BY Zenon, <1>0, <1>1 DEF TypeOK
  <2>2. status' \in {0, 1, 2, 3, 5}
    BY Zenon, <1>0, <1>1, <1>2 DEF TypeOK
  <2> QED BY <1>0, <1>1, <2>1, <2>2 DEF TypeOK
<1>4. SetUp' /\ QuietWhileZeroed'
  BY Zenon, <1>1 DEF SetUp, QuietWhileZeroed, Before, Working, Ending
<1>5. Earned'
  <2>1. status' = 0 => status = 0
    BY Zenon, <1>1, <1>2
  <2>2. status' = 0 /\ link => serrors' = 0 /\ strict' = was'
    BY <1>0, <1>1, <1>2 DEF TypeOK
  <2>3. status' = 0 => LeftBehind' /\ (tool = "compare" => Compared')
    BY Zenon, <1>0, <1>1, <2>1 DEF Earned, Ending, LeftBehind, Compared
  <2>4. tool = "compare" /\ link /\ ~stuck /\ ctl.queues = "tool" => ~ctl.en
    BY Zenon, <1>0, <1>1 DEF Earned, Ending
  <2> QED BY Zenon, <1>1, <2>2, <2>3, <2>4 DEF Earned, Before, Working, Closing, Ending
<1> QED BY Zenon, <1>3, <1>4, <1>5 DEF SessionInv

(* An exception: the status is no longer 0, and compare, whose try encloses *)
(* the takeover, reaches its shutdown from every step that may have enabled *)
(* the controller.                                                          *)
LEMMA StopKeeps ==
  ASSUME SessionInv, Stop
  PROVE  SessionInv'
<1>0. TypeOK /\ SetUp /\ QuietWhileZeroed /\ Earned
  BY Zenon DEF SessionInv
<1>1. /\ spc \in Acting \cup {"connect"} /\ spc' = Unwind
      /\ UNCHANGED <<tool, io, ioAt, link, strict, was, serrors, digests>>
      /\ status' = (IF status = 0 THEN Failed ELSE status) /\ stuck' = (stuck \/ spc = "shutdown")
      /\ \/ UNCHANGED <<ctl, window>>
         \/ /\ spc = "enable" /\ window' = "zeroed"
            /\ ctl' = [en |-> TRUE, rdy |-> FALSE, cfs |-> TRUE, queues |-> "tool"]
  BY Zenon DEF Stop
<1>2. status' \in {1, 2, 3, 5}
  BY Zenon, <1>0, <1>1 DEF TypeOK, Failed
<1>3. /\ spc' \in {"deleteSq", "shutdown"} \cup Ending
      /\ spc' \in {"deleteSq", "shutdown"} => tool # "adopt"
      /\ spc' \in Ending /\ tool = "compare" => spc \in {"connect", "locate", "shutdown"}
  BY Zenon, <1>0, <1>1 DEF Unwind, Earned, Closing, Ending, Acting, TypeOK
<1>4. TypeOK'
  <2>1. /\ ctl' \in [en : BOOLEAN, rdy : BOOLEAN, cfs : BOOLEAN, queues : {"firmware", "tool"}]
        /\ window' \in {"unset", "stale", "zeroed"}
    <3>1. CASE UNCHANGED <<ctl, window>>
      BY Zenon, <1>0, <3>1 DEF TypeOK
    <3>2. CASE window' = "zeroed" /\ ctl' = [en |-> TRUE, rdy |-> FALSE, cfs |-> TRUE, queues |-> "tool"]
      BY Zenon, <3>2
    <3> QED BY Zenon, <1>1, <3>1, <3>2
  <2>2. stuck' \in BOOLEAN
    BY Zenon, <1>0, <1>1 DEF TypeOK
  <2>3. spc' \in Acting \cup {"idle", "connect", "guard", "exit"}
    BY Zenon, <1>3 DEF Acting, Ending
  <2> QED BY Zenon, <1>0, <1>1, <1>2, <2>1, <2>2, <2>3 DEF TypeOK
<1>5. SetUp' /\ QuietWhileZeroed'
  <2>1. link'
    BY Zenon, <1>0, <1>1 DEF SetUp, Acting, Ending
  <2> QED BY Zenon, <1>3, <2>1 DEF SetUp, QuietWhileZeroed, Before, Working, Ending
<1>6. Earned'
  <2>1. spc' \in Ending /\ tool = "compare" /\ ~stuck' => ctl'.queues = "firmware"
    BY Zenon, <1>0, <1>1, <1>3 DEF SetUp, Before
  <2> QED BY <1>1, <1>2, <1>3, <2>1 DEF Earned, Before, Working, Closing, Ending
<1> QED BY Zenon, <1>4, <1>5, <1>6 DEF SessionInv

(* The link dies: nothing more reaches the target. *)
LEMMA LinkLostKeeps ==
  ASSUME SessionInv, LinkLost
  PROVE  SessionInv'
<1>0. TypeOK /\ Earned
  BY Zenon DEF SessionInv
<1>1. /\ link' = FALSE /\ spc' \in Ending
      /\ UNCHANGED <<tool, ctl, window, io, ioAt, strict, was, serrors, digests, stuck>>
      /\ status' = (IF spc = "guard" /\ tool # "compare" THEN status ELSE Lost)
  BY Zenon DEF LinkLost, Ending
<1>2. Lost \in {1, 5}
  BY Zenon DEF Lost
<1>3. TypeOK'
  <2>1. status' \in {0, 1, 2, 3, 5} /\ spc' \in Acting \cup {"idle", "connect", "guard", "exit"}
    BY Zenon, <1>0, <1>1, <1>2 DEF TypeOK, Ending
  <2>2. link' \in BOOLEAN
    BY Zenon, <1>1
  <2>3. /\ tool' = tool /\ digests' = digests /\ stuck' = stuck /\ serrors' = serrors /\ ctl' = ctl
        /\ window' = window /\ ioAt' = ioAt /\ io' = io /\ strict' = strict /\ was' = was
    BY Zenon, <1>1
  <2> QED BY <1>0, <2>1, <2>2, <2>3 DEF TypeOK
<1>4. SetUp' /\ QuietWhileZeroed'
  BY Zenon, <1>1 DEF SetUp, QuietWhileZeroed, Before, Working, Ending
<1>5. Earned'
  <2>1. status' = 0 => spc = "guard" /\ tool # "compare" /\ status = 0
    BY <1>1, <1>2
  <2>2. status' = 0 => LeftBehind'
    BY Zenon, <1>0, <1>1, <2>1 DEF Earned, Ending, LeftBehind
  <2> QED BY Zenon, <1>1, <2>1, <2>2 DEF Earned, Before, Working, Closing, Ending
<1> QED BY Zenon, <1>3, <1>4, <1>5 DEF SessionInv

(* An SError only moves the counter, before the guard reads it. *)
LEMMA SErrorKeeps ==
  ASSUME SessionInv, SError
  PROVE  SessionInv'
<1>0. TypeOK /\ SetUp /\ QuietWhileZeroed /\ Earned
  BY Zenon DEF SessionInv
<1>1. /\ spc \in Acting /\ serrors' = 1
      /\ UNCHANGED <<tool, spc, ctl, window, io, ioAt, link, strict, was, digests, status, stuck>>
  BY Zenon DEF SError
<1>2. TypeOK'
  BY <1>0, <1>1 DEF TypeOK
<1>3. SetUp' /\ QuietWhileZeroed'
  BY Zenon, <1>0, <1>1 DEF SetUp, QuietWhileZeroed
<1>4. Earned'
  <2>1. (Agreeing => Agreeing') /\ (Compared => Compared')
    BY Zenon, <1>1 DEF Agreeing, Compared
  <2>2. spc \notin Ending
    BY Zenon, <1>1 DEF Acting, Ending
  <2> QED BY Zenon, <1>0, <1>1, <2>1, <2>2 DEF Earned, Ending
<1> QED BY Zenon, <1>2, <1>3, <1>4 DEF SessionInv

(* Every step keeps the invariant. *)
LEMMA SessionInductive == SessionInv /\ [Next]_svars => SessionInv'
<1> SUFFICES ASSUME SessionInv, [Next]_svars PROVE SessionInv'
  BY Zenon
<1>1. CASE Next
  BY Zenon, <1>1, BeforeKeeps, PreparesKeeps, ReadsKeeps, HashKeeps, PassesKeeps, ClosesKeeps, GuardKeeps,
    StopKeeps, LinkLostKeeps, SErrorKeeps DEF Next
<1>2. CASE UNCHANGED svars
  BY <1>2 DEF svars, SessionInv, TypeOK, SetUp, QuietWhileZeroed, Earned, Agreeing, Compared, LeftBehind
<1> QED BY Zenon, <1>1, <1>2

-----------------------------------------------------------------------------
(* However steps fail, SErrors arrive and the link dies: a tool that exits  *)
(* 0 left what it promises, the DMA window is never zeroed under a live     *)
(* controller, and nvme_hash_compare.py's finally leaves none enabled.      *)
THEOREM SessionsEndClean == Spec => []NothingLeftOn
<1>1. SessionInv => NothingLeftOn
  <2> SUFFICES ASSUME SessionInv PROVE NothingLeftOn
    BY Zenon
  <2>1. SuccessIsClean
    BY Zenon DEF SessionInv, Earned, SuccessIsClean, LeftBehind, Compared, Ending
  <2>2. QuietWhileZeroed /\ NothingLeftEnabled
    BY Zenon DEF SessionInv, Earned, NothingLeftEnabled, Ending
  <2> QED BY Zenon, <2>1, <2>2 DEF NothingLeftOn
<1> QED BY <1>1, SessionInit, SessionInductive, PTL DEF Spec

(* The types of the session's state. *)
THEOREM SessionTypes == Spec => []TypeOK
<1>1. SessionInv => TypeOK
  BY Zenon DEF SessionInv
<1> QED BY <1>1, SessionInit, SessionInductive, PTL DEF Spec

-----------------------------------------------------------------------------
(***************************************************************************)
(* nvme_hash.py: the helper's place, its calls and its guard.              *)
(***************************************************************************)
CONSTANTS Builds, Slot, Room, Ring, Blocks, MaxUse
VARIABLES candidates, running, hpc, bound, excGuard, pyTail, hwTail, left, uses
H == INSTANCE NativeHash

Build == [text : Nat, at : Nat, end : Nat, bin : Nat]

(* What the helper's placement and its cursors rest on. *)
HashInv ==
  /\ hpc # "start" => running \in Build /\ \E n \in 1 .. 2 : candidates \in [1 .. n -> Build]
  /\ hpc \in {"place", "leaf", "ready", "failed"} =>
       bound \in Build /\ \A i \in H!Matched : candidates[i].end = bound.end
  /\ hpc \in {"leaf", "ready"} => bound.end <= H!Code
  /\ H!TypeOK
  /\ hpc # "failed" => pyTail = hwTail
  /\ hpc # "leaf" => excGuard = 0

(* What the theorem assumes of the constants: addresses and sizes are       *)
(* numbers, and the ring has an entry.                                      *)
HashConstants == Builds \subseteq Build /\ Slot \in Nat /\ Room \in Nat /\ Ring \in Nat \ {0} /\ Blocks \in Nat

(* Before the first chainload. *)
LEMMA HashStarts == ASSUME HashConstants PROVE H!Init => HashInv
  BY DEF HashConstants, HashInv, H!Init, H!TypeOK

(* The first of the candidates that match is one of them. *)
LEMMA FirstIs ==
  ASSUME NEW S, NEW n \in 1 .. 2, S \subseteq 1 .. n, S # {} PROVE H!First(S) \in S
<1>1. \E i \in S : \A j \in S : i <= j
  <2>1. CASE 1 \in S BY <2>1
  <2>2. CASE 1 \notin S
    <3>1. \A j \in S : j = 2
      BY <2>2
    <3>2. 2 \in S
      BY <3>1, Zenon
    <3> QED BY <3>1, <3>2
  <2> QED BY <2>1, <2>2
<1> QED BY <1>1, Zenon DEF H!First

(* bind_stage refuses builds that match and disagree, so the end it takes is *)
(* that of the running image.                                               *)
LEMMA BindKeeps == ASSUME HashConstants, HashInv, H!BindStage PROVE HashInv'
<1> USE DEF HashConstants
<1>1. PICK n \in 1 .. 2 : candidates \in [1 .. n -> Build]
  BY DEF HashInv, H!BindStage
<1>2. H!Matched' = H!Matched
  BY DEF H!BindStage, H!Matched
<1>3. CASE H!Matched # {} /\ H!Unambiguous
  <2>1. H!First(H!Matched) \in H!Matched /\ H!Matched \subseteq DOMAIN candidates
    BY <1>1, <1>3, FirstIs, SMTT(30) DEF H!Matched
  <2>2. bound' = candidates[H!First(H!Matched)] /\ hpc' = "place"
    BY <1>3 DEF H!BindStage
  <2>3. bound' \in Build
    BY <1>1, <2>1, <2>2, Zenon
  <2>4. \A i \in H!Matched : candidates[i].end = bound'.end
    BY <1>3, <2>1, <2>2 DEF H!Unambiguous
  <2> QED BY <1>1, <1>2, <2>2, <2>3, <2>4 DEF HashInv, H!BindStage, H!TypeOK
<1>4. CASE ~(H!Matched # {} /\ H!Unambiguous)
  BY <1>4 DEF HashInv, H!BindStage, H!TypeOK
<1> QED BY <1>3, <1>4

(* The helper is placed behind that end, and the guard is lowered for the    *)
(* leaf only.                                                               *)
LEMMA PlaceKeeps == ASSUME HashConstants, HashInv, H!Place \/ H!Leaf PROVE HashInv'
<1>1. H!Matched' = H!Matched
  BY DEF H!Place, H!Leaf, H!Matched
<1>2. CASE H!Place
  <2>1. bound \in Build /\ H!Code \in Int
    BY <1>2 DEF HashConstants, HashInv, H!Place, H!Code, Build
  <2> QED BY <1>1, <1>2, <2>1 DEF HashInv, H!Place, H!TypeOK, H!Code, Build
<1>3. CASE H!Leaf
  <2>1. H!Code' = H!Code /\ hpc' \in {"ready", "refused"} /\ hpc = "leaf" /\ excGuard' = 0
    BY <1>3 DEF H!Leaf, H!Code
  <2> QED BY <1>1, <1>3, <2>1 DEF HashInv, H!Leaf, H!TypeOK
<1> QED BY <1>2, <1>3

(* Python reads and helper calls move the two tails together; a helper that  *)
(* does not answer leaves the place where the driver is used.               *)
LEMMA UseKeeps ==
  ASSUME HashConstants, HashInv, H!PyRead \/ H!Begin \/ H!HelperCall \/ H!HelperSilent PROVE HashInv'
<1>1. H!Matched' = H!Matched /\ H!Code' = H!Code
  BY DEF H!PyRead, H!Begin, H!HelperCall, H!HelperSilent, H!Matched, H!Code
<1>2. \A x \in Nat : x % Ring \in 0 .. Ring - 1
  BY DEF HashConstants
<1>3. pyTail \in Nat /\ hwTail \in Nat /\ left \in 0 .. Blocks
  BY DEF HashInv, H!TypeOK, HashConstants
<1>4. CASE H!PyRead
  BY <1>1, <1>2, <1>3, <1>4 DEF HashInv, H!PyRead, H!TypeOK
<1>5. CASE H!Begin
  BY <1>1, <1>3, <1>5 DEF HashInv, H!Begin, H!TypeOK, HashConstants
<1>6. CASE H!HelperCall
  BY <1>1, <1>2, <1>3, <1>6 DEF HashInv, H!HelperCall, H!TakeBack, H!TypeOK, HashConstants
<1>7. CASE H!HelperSilent
  BY <1>1, <1>2, <1>3, <1>7 DEF HashInv, H!HelperSilent, H!TypeOK, HashConstants
<1> QED BY <1>4, <1>5, <1>6, <1>7

(* For any builds, ring and number of blocks: the helper lies behind the     *)
(* running image whichever matching build it is, the driver's tail is the   *)
(* controller's after any mix of Python reads and helper calls, and the     *)
(* helper is never run under the exception guard that would return past its *)
(* fault.                                                                   *)
THEOREM HelperIsSafe ==
  ASSUME HashConstants PROVE H!HashSpec => [](H!HelperClear /\ H!CursorsAgree /\ H!GuardLowered)
<1>1. HashInv /\ [H!Next]_(H!hvars) => HashInv'
  <2> SUFFICES ASSUME HashInv, [H!Next]_(H!hvars) PROVE HashInv'
    OBVIOUS
  <2>1. CASE H!Chainloaded
    BY <2>1 DEF HashConstants, HashInv, H!Chainloaded, H!TypeOK
  <2>2. CASE UNCHANGED H!hvars
    BY <2>2 DEF H!hvars, HashInv, H!TypeOK, H!Matched, H!Code
  <2> QED BY <2>1, <2>2, BindKeeps, PlaceKeeps, UseKeeps DEF H!Next
<1>2. HashInv => H!HelperClear /\ H!CursorsAgree /\ H!GuardLowered
  BY DEF HashInv, H!HelperClear, H!CursorsAgree, H!GuardLowered, H!Matched
<1> QED BY <1>1, <1>2, HashStarts, PTL DEF H!HashSpec

-----------------------------------------------------------------------------
(***************************************************************************)
(* nvme_m3.py: the DMA window that is given or picked.                     *)
(***************************************************************************)
CONSTANTS IpaBits, StartLevel, Window, Align, MaxTried, Memories, Descs
VARIABLES ste, tables, regions, own, picked, base
D == INSTANCE DmaWindow

MemRegion == [lo : Nat, hi : Nat, kind : Nat]
OwnRegion == [base : Nat, size : Nat]

(* What the theorem assumes of the constants: a memory map is a set of       *)
(* regions with page numbers.                                               *)
DmaConstants == Window \in Nat /\ Memories \subseteq [map : SUBSET MemRegion, own : SUBSET OwnRegion]

(* The invariant: what was read is a memory map, and the promise itself. *)
DmaInv ==
  /\ regions \subseteq MemRegion /\ own \subseteq OwnRegion
  /\ D!WindowPlaced

(* A window that overlaps no region of q1n1 holds no page of one: the        *)
(* comparison of the bounds is exact.                                       *)
LEMMA ClearOfOwn ==
  ASSUME DmaConstants, own \subseteq OwnRegion, NEW c \in Nat, ~ \E r \in D!Own : D!Overlaps(c, r)
  PROVE  \A p \in c .. c + Window - 1 : ~ \E r \in own : r.base > 0 /\ r.base <= p /\ p < r.base + r.size
<1> SUFFICES ASSUME NEW p \in c .. c + Window - 1, NEW r \in own,
                    r.base > 0 /\ r.base <= p /\ p < r.base + r.size
             PROVE  FALSE
  OBVIOUS
<1>1. r.base \in Nat /\ r.size \in Nat /\ p \in Int /\ c <= p /\ p < c + Window /\ Window \in Nat
  BY DEF DmaConstants, OwnRegion
<1>2. r.size > 0 /\ c < r.base + r.size /\ r.base < c + Window
  BY <1>1
<1>3. r \in D!Own /\ D!Overlaps(c, r)
  BY <1>2 DEF D!Own, D!Overlaps
<1> QED BY <1>3

(* Both the given window and the picked one are so. *)
LEMMA ChosenPlaced ==
  ASSUME DmaConstants, DmaInv, NEW c \in D!Pages, D!GivenOk(c) \/ D!PickOk(c)
  PROVE  /\ \E r \in regions : r.kind = 7 /\ r.lo <= c /\ c + Window <= r.hi
         /\ \A p \in c .. c + Window - 1 : ~ \E r \in own : r.base > 0 /\ r.base <= p /\ p < r.base + r.size
<1>1. c \in Nat
  BY DEF D!Pages
<1>2. (\E r \in regions : r.kind = 7 /\ r.lo <= c /\ c + Window <= r.hi) /\ ~ \E r \in D!Own : D!Overlaps(c, r)
  <2>1. CASE D!GivenOk(c)
    BY <2>1 DEF D!GivenOk
  <2>2. CASE D!PickOk(c)
    <3>1. PICK r \in regions : c \in D!Candidates(r)
      BY <2>2 DEF D!PickOk
    <3>2. r.lo \in Nat /\ r.kind = 7 /\ c >= r.lo /\ c + Window <= r.hi /\ ~ \E o \in D!Own : D!Overlaps(c, o)
      BY <3>1 DEF D!Candidates, DmaInv, MemRegion
    <3> QED BY <1>1, <3>2
  <2> QED BY <2>1, <2>2
<1> QED BY <1>1, <1>2, ClearOfOwn DEF DmaInv

(* For any memory map, alignment and window size: the window that is given   *)
(* or that the search picks lies in one Conventional region, and no page of *)
(* it is q1n1's.                                                            *)
THEOREM WindowIsPlaced == ASSUME DmaConstants PROVE D!DmaSpec => []D!WindowPlaced
<1>1. D!Init => DmaInv
  BY DEF D!Init, DmaInv, D!WindowPlaced
<1>2. DmaInv /\ [D!Next]_(D!dvars) => DmaInv'
  <2> SUFFICES ASSUME DmaInv, [D!Next]_(D!dvars) PROVE DmaInv'
    OBVIOUS
  <2>1. CASE D!ReadMachine
    <3>1. regions' \subseteq MemRegion /\ own' \subseteq OwnRegion /\ regions = {} /\ picked' = picked
      BY <2>1 DEF D!ReadMachine, DmaConstants
    <3> QED BY <3>1 DEF DmaInv, D!WindowPlaced
  <2>2. CASE D!Given
    BY <2>2, ChosenPlaced DEF DmaInv, D!Given, D!WindowPlaced
  <2>3. CASE D!Pick
    BY <2>3, ChosenPlaced DEF DmaInv, D!Pick, D!WindowPlaced
  <2>4. CASE UNCHANGED D!dvars
    BY <2>4 DEF D!dvars, DmaInv, D!WindowPlaced
  <2> QED BY <2>1, <2>2, <2>3, <2>4 DEF D!Next
<1>3. DmaInv => D!WindowPlaced
  BY DEF DmaInv
<1> QED BY <1>1, <1>2, <1>3, PTL DEF D!DmaSpec
=============================================================================
