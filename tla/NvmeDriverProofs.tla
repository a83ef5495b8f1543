-------------------------- MODULE NvmeDriverProofs --------------------------
(***************************************************************************)
(* The steps of the host's NVMe driver.                                    *)
(*                                                                         *)
(* The queue pair (NvmeQueues): for any ring size, batch size and number   *)
(* of commands, with any mix of torn and garbled live reads, time-outs and *)
(* late completions, _reap returns each command's own completion and       *)
(* _submit's outstanding commands are exactly those in flight.             *)
(*                                                                         *)
(* The window writer (NvmeWindow): for any number of extents, runs of the  *)
(* tool, failed or torn writes and power cuts, the container header on the *)
(* disk never vouches for a container of another version, a run that       *)
(* reports PASS has done what its mode promises, and nothing is written    *)
(* before a probe has passed.                                              *)
(***************************************************************************)
EXTENDS NvmeQueues, NvmeWindow, FiniteSetTheorems, TLAPS

Waiting == Between(dev.head, tail)
Posted == Between(head, dev.tail)

(* A serial number with the identifier it was issued with. *)
Genuine(s, c) == s \in 1 .. CmdCount /\ issued[s] = c

(* The rings: the phase bits tell the entries of this round from those of   *)
(* the last one, and the doorbell lies between what the controller fetched  *)
(* and what was written.                                                    *)
Rings ==
  /\ cqdb = head
  /\ (dev.phase = phase) <=> (head <= dev.tail)
  /\ \A i \in Slot : cq[i].hi.phase = IF i < dev.tail THEN dev.phase ELSE 1 - dev.phase
  /\ sqdb \in Waiting \cup {tail}

(* The identifiers of the last MaxCid commands count down from nextCid. *)
Counted ==
  \A d \in 1 .. MaxCid :
    d <= CmdCount =>
      issued[CmdCount + 1 - d] = IF nextCid > d THEN nextCid - d ELSE nextCid - d + MaxCid

(* Every record is that of a command that was issued. *)
Honest ==
  /\ \A i \in Waiting : Genuine(sq[i].ser, sq[i].cid)
  /\ \A c \in dev.active : Genuine(c.ser, c.cid)
  /\ \A i \in Posted : Genuine(cq[i].lo, cq[i].hi.cid)
  /\ \A d \in done : Genuine(d.ser, d.cid)

(* No command is at two places. *)
Once ==
  /\ \A i, j \in Waiting : sq[i].ser = sq[j].ser => i = j
  /\ \A c, d \in dev.active : c.ser = d.ser => c = d
  /\ \A i, j \in Posted : cq[i].lo = cq[j].lo => i = j
  /\ \A i \in Waiting, c \in dev.active : sq[i].ser # c.ser
  /\ \A i \in Waiting, j \in Posted : sq[i].ser # cq[j].lo
  /\ \A c \in dev.active, j \in Posted : c.ser # cq[j].lo
  /\ \A d \in done : d.ser \notin InFlight

(* The commands that may still matter are recent ones: those of the batch   *)
(* at hand, or after a failure those of the last batch and of the clean-up. *)
Live == InFlight \cup {d.ser : d \in done}
Batch(b) ==
  /\ CmdCount - b <= Slots
  /\ job = {issued[s] : s \in b + 1 .. CmdCount}
  /\ \A s \in Live : s > b
Recent ==
  /\ closing = 0 => \E b \in 0 .. CmdCount : Batch(b)
  /\ closing > 0 => \A s \in Live : CmdCount - s < Slots + closing - 1 + (IF job = {} THEN 0 ELSE 1)
  /\ closing = 3 => job = {}

(* The read in progress: an entry that shows the phase of this round was    *)
(* posted, and its second half with it, unless it was garbled; the halves   *)
(* of the read that confirms it are then those of the posted entry.         *)
Reading ==
  /\ qpc \in {"confirm", "halfAgain"} =>
       \/ entry.lo < 0 /\ entry.lo >= 0 - garbled
       \/ entry.lo >= 0 /\ (entry.hi.phase = phase => head \in Posted)
  /\ qpc = "halfAgain" /\ entry.lo >= 0 /\ entry.hi.phase = phase => lo = cq[head].lo
  /\ qpc \in {"confirm", "halfAgain"} => tries < CompletionReads

(* Where _reap stands. *)
Progress ==
  /\ qpc = "idle" => job = {} /\ done = {}
  /\ qpc = "reaped" => job \subseteq {d.cid : d \in done}
  /\ closing = 3 => qpc = "idle"
  /\ outstanding = {issued[s] : s \in InFlight}

QueueInv ==
  /\ QueueTypeOK /\ Rings /\ Counted /\ Honest /\ Once /\ Recent /\ Reading /\ Progress

-----------------------------------------------------------------------------
(* The rings' arithmetic. *)

(* What the next slot is. *)
LEMMA IncIs ==
  ASSUME NEW i \in Slot
  PROVE  /\ Inc(i) = IF i = Entries - 1 THEN 0 ELSE i + 1
         /\ Inc(i) \in Slot
<1>0. Entries \in Nat /\ Entries > 1 /\ i \in Int /\ 0 <= i /\ i < Entries
  BY QueueAssumption DEF Slot
<1>1. CASE i = Entries - 1
  <2>1. Entries % Entries = 0
    BY <1>0
  <2> QED BY <1>0, <1>1, <2>1 DEF Inc, Slot
<1>2. CASE i # Entries - 1
  <2>1. i + 1 \in Nat /\ i + 1 < Entries
    BY <1>0, <1>2
  <2>2. (i + 1) % Entries = i + 1
    BY <1>0, <2>1
  <2> QED BY <1>0, <1>2, <2>1, <2>2 DEF Inc, Slot
<1> QED BY Zenon, <1>1, <1>2

(* An arc of the ring grows at its end. *)
LEMMA ArcGrows ==
  ASSUME NEW a \in Slot, NEW b \in Slot, Inc(b) # a
  PROVE  Between(a, Inc(b)) = Between(a, b) \cup {b} /\ b \notin Between(a, b)
<1>0. Slot \subseteq Int /\ Entries \in Int /\ \A i \in Slot : 0 <= i /\ i < Entries
  BY QueueAssumption DEF Slot
<1>1. Inc(b) = (IF b = Entries - 1 THEN 0 ELSE b + 1) /\ Inc(b) \in Slot
  BY Zenon, IncIs
<1>2. b \notin Between(a, b)
  BY <1>0 DEF Between
<1>3. ASSUME NEW i \in Slot PROVE i \in Between(a, Inc(b)) <=> i \in Between(a, b) \/ i = b
  BY <1>0, <1>1 DEF Between
<1> QED BY Zenon, <1>2, <1>3 DEF Between

(* An arc of the ring shrinks at its start. *)
LEMMA ArcShrinks ==
  ASSUME NEW a \in Slot, NEW b \in Slot, a # b
  PROVE  Between(Inc(a), b) = Between(a, b) \ {a} /\ a \in Between(a, b)
<1>0. Slot \subseteq Int /\ Entries \in Int /\ \A i \in Slot : 0 <= i /\ i < Entries
  BY QueueAssumption DEF Slot
<1>1. Inc(a) = (IF a = Entries - 1 THEN 0 ELSE a + 1) /\ Inc(a) \in Slot
  BY Zenon, IncIs
<1>2. a \in Between(a, b)
  BY <1>0 DEF Between
<1>3. ASSUME NEW i \in Slot PROVE i \in Between(Inc(a), b) <=> i \in Between(a, b) /\ i # a
  BY <1>0, <1>1 DEF Between
<1> QED BY Zenon, <1>2, <1>3 DEF Between

-----------------------------------------------------------------------------
(* Identifiers. *)

(* What the identifier after this one is. *)
LEMMA NextCidIs ==
  ASSUME NEW c \in Cid
  PROVE  /\ (c % MaxCid) + 1 = IF c = MaxCid THEN 1 ELSE c + 1
         /\ (c % MaxCid) + 1 \in Cid
<1>0. MaxCid \in Nat /\ MaxCid > 2 /\ c \in Nat /\ 1 <= c /\ c <= MaxCid
  BY QueueAssumption DEF Cid
<1>1. CASE c = MaxCid
  <2>1. MaxCid % MaxCid = 0
    BY <1>0
  <2> QED BY <1>0, <1>1, <2>1 DEF Cid
<1>2. CASE c # MaxCid
  <2>1. c % MaxCid = c
    BY <1>0, <1>2
  <2> QED BY <1>0, <1>2, <2>1 DEF Cid
<1> QED BY Zenon, <1>1, <1>2

(* Counting down from any identifier, MaxCid steps meet each of them once.  *)
LEMMA CountsDown ==
  ASSUME NEW m \in Nat, NEW n \in Int, NEW d \in 1 .. m, NEW e \in 1 .. m,
         (IF n > d THEN n - d ELSE n - d + m) = (IF n > e THEN n - e ELSE n - e + m)
  PROVE  d = e
<1>1. CASE n > d /\ n > e
  BY <1>1
<1>2. CASE ~(n > d) /\ n > e
  BY <1>2
<1>3. CASE n > d /\ ~(n > e)
  BY <1>3
<1>4. CASE ~(n > d) /\ ~(n > e)
  BY <1>4
<1> QED BY Zenon, <1>1, <1>2, <1>3, <1>4

(* Only _submit issues identifiers. *)
LEMMA CountedKeeps == ASSUME Counted, UNCHANGED <<issued, nextCid>> PROVE Counted'
  BY Zenon DEF Counted, CmdCount

(* The last MaxCid commands have different identifiers. *)
LEMMA CidsApart ==
  ASSUME QueueTypeOK, Counted,
         NEW s \in 1 .. CmdCount, NEW t \in 1 .. CmdCount,
         CmdCount - s < MaxCid, CmdCount - t < MaxCid, issued[s] = issued[t]
  PROVE  s = t
<1>0. MaxCid \in Nat /\ nextCid \in Int /\ CmdCount \in Nat
  BY QueueAssumption DEF QueueTypeOK, Cid, CmdCount
<1> DEFINE d == CmdCount + 1 - s
           e == CmdCount + 1 - t
<1>1. d \in 1 .. MaxCid /\ d <= CmdCount /\ CmdCount + 1 - d = s
  BY <1>0
<1>2. e \in 1 .. MaxCid /\ e <= CmdCount /\ CmdCount + 1 - e = t
  BY <1>0
<1>3. issued[s] = IF nextCid > d THEN nextCid - d ELSE nextCid - d + MaxCid
  BY Zenon, <1>1 DEF Counted
<1>4. issued[t] = IF nextCid > e THEN nextCid - e ELSE nextCid - e + MaxCid
  BY Zenon, <1>2 DEF Counted
<1>5. d = e
  <2> HIDE DEF d, e
  <2> QED BY ZenonT(40), <1>0, <1>1, <1>2, <1>3, <1>4, CountsDown
<1> QED BY Zenon, <1>1, <1>2, <1>5

(* Every command that may still matter is recent enough for that. *)
LEMMA LiveRecent ==
  ASSUME QueueTypeOK, Recent, Honest, NEW s \in Live
  PROVE  s \in 1 .. CmdCount /\ CmdCount - s < MaxCid
<1>0. /\ MaxCid \in Nat /\ Slots \in Nat /\ Slots + 2 <= MaxCid /\ CmdCount \in Nat
      /\ closing \in 0 .. 3
  BY QueueAssumption DEF QueueTypeOK, CmdCount
<1>1. s \in 1 .. CmdCount
  BY Zenon DEF Live, InFlight, Honest, Genuine, Waiting, Posted
<1>2. CASE closing = 0
  <2>1. PICK b \in 0 .. CmdCount : Batch(b)
    BY Zenon, <1>2 DEF Recent
  <2> QED BY <1>0, <1>1, <2>1 DEF Batch
<1>3. CASE closing > 0
  <2>1. CmdCount - s < Slots + closing - 1 + (IF job = {} THEN 0 ELSE 1)
    BY Zenon, <1>3 DEF Recent
  <2>2. closing = 3 => job = {}
    BY Zenon DEF Recent
  <2> QED BY <1>0, <1>1, <1>3, <2>1, <2>2
<1> QED BY <1>0, <1>1, <1>2, <1>3

-----------------------------------------------------------------------------
(* The invariant holds when takeover has just set the queue up. *)
LEMMA QueueStarts == QueueInit => QueueInv
<1> SUFFICES ASSUME QueueInit PROVE QueueInv
  BY Zenon
<1>0. /\ Entries \in Nat /\ Entries > 1 /\ Slots \in Nat \ {0} /\ MaxCid \in Nat /\ MaxCid > 2
      /\ CompletionReads \in Nat /\ 0 \in Slot
  BY QueueAssumption DEF Slot
<1>1. QueueTypeOK
  <2>1. sq \in [Slot -> [cid : Cid \cup {0}, ser : Nat]]
    BY Zenon DEF QueueInit, Blank
  <2>2. cq \in [Slot -> [lo : Nat, hi : Half]]
    BY DEF QueueInit, Half, Status
  <2>3. dev \in [head : Slot, tail : Slot, phase : {0, 1}, active : SUBSET [cid : Cid \cup {0}, ser : Nat]]
    BY Zenon, <1>0 DEF QueueInit
  <2>4. entry \in [lo : Int, hi : Half]
    BY <1>0, <2>2 DEF QueueInit
  <2>5. issued \in Seq(Cid)
    BY DEF QueueInit
  <2>6. /\ tail \in Slot /\ head \in Slot /\ sqdb \in Slot /\ cqdb \in Slot /\ nextCid \in Cid
        /\ tries \in 0 .. CompletionReads
    BY <1>0 DEF QueueInit, Cid
  <2> QED BY <2>1, <2>2, <2>3, <2>4, <2>5, <2>6 DEF QueueInit, QueueTypeOK
<1>2. Waiting = {} /\ Posted = {} /\ InFlight = {} /\ Live = {}
  <2>1. Waiting = {} /\ Posted = {}
    BY <1>0 DEF QueueInit, Waiting, Posted, Between, Slot
  <2> QED BY Zenon, <2>1 DEF QueueInit, InFlight, Live, Waiting, Posted
<1>3. CmdCount = 0
  BY Zenon DEF QueueInit, CmdCount
<1>4. Rings
  <2>1. ASSUME NEW i \in Slot PROVE ~(i < 0) /\ cq[i].hi.phase = 0
    BY DEF QueueInit, Slot
  <2> QED BY <2>1 DEF QueueInit, Rings
<1>5. Counted
  BY <1>0, <1>3 DEF Counted
<1>6. Honest /\ Once
  BY Zenon, <1>2 DEF Honest, Once, QueueInit
<1>7. Recent
  <2>1. Batch(0)
    BY <1>0, <1>2, <1>3 DEF Batch, QueueInit
  <2> QED BY <1>3, <2>1 DEF Recent, QueueInit
<1>8. Reading /\ Progress
  BY Zenon, <1>2 DEF Reading, Progress, QueueInit
<1> QED BY Zenon, <1>1, <1>4, <1>5, <1>6, <1>7, <1>8 DEF QueueInv

-----------------------------------------------------------------------------
(* Steps that leave the rings alone. *)
Still == UNCHANGED <<sq, tail, nextCid, outstanding, head, phase, cqdb, cq, dev, issued>>

(* They keep all that is said of the rings and of the commands in them.     *)
LEMMA StillKeeps ==
  ASSUME QueueInv, Still, done' \subseteq done, sqdb' \in {sqdb, tail}
  PROVE  /\ Rings' /\ Counted' /\ Honest' /\ Once'
         /\ outstanding' = {issued'[s] : s \in InFlight'}
         /\ InFlight' = InFlight /\ Live' \subseteq Live /\ CmdCount' = CmdCount /\ Posted' = Posted
<1>1. Waiting' = Waiting /\ Posted' = Posted /\ CmdCount' = CmdCount
  BY Zenon DEF Still, Waiting, Posted, Between, CmdCount
<1>2. InFlight' = InFlight
  BY Zenon DEF Still, InFlight, Between
<1>3. Live' \subseteq Live
  BY Zenon, <1>2 DEF Live
<1>4. Rings'
  BY Zenon, <1>1 DEF QueueInv, Rings, Still
<1>5. Counted'
  BY Zenon, <1>1 DEF QueueInv, Counted, Still
<1>6. Honest'
  BY Zenon, <1>1 DEF QueueInv, Honest, Genuine, Still
<1>7. Once'
  BY <1>1, <1>2 DEF QueueInv, Once, Still
<1>8. outstanding' = {issued'[s] : s \in InFlight'}
  BY Zenon, <1>2 DEF QueueInv, Progress, Still
<1> QED BY Zenon, <1>1, <1>2, <1>3, <1>4, <1>5, <1>6, <1>7, <1>8

(* _ring, and the deadline of _reap. *)
LEMMA RingKeeps == ASSUME QueueInv, Ring \/ ReapTimeout PROVE QueueInv'
<1>1. Still /\ done' = done /\ sqdb' \in {sqdb, tail} /\ UNCHANGED <<job, lo, entry, tries, garbled, closing>>
  BY Zenon DEF Ring, ReapTimeout, Still
<1>2. qpc' \in {"reap", "stopped"}
  BY Zenon DEF Ring, ReapTimeout
<1>3. /\ Rings' /\ Counted' /\ Honest' /\ Once' /\ outstanding' = {issued'[s] : s \in InFlight'}
      /\ Live' \subseteq Live /\ CmdCount' = CmdCount
  BY Zenon, <1>1, StillKeeps
<1>4. QueueTypeOK'
  BY Zenon, <1>1, <1>2 DEF QueueInv, QueueTypeOK, Still
<1>5. Recent'
  BY Zenon, <1>1, <1>3 DEF QueueInv, Recent, Batch, Still
<1>6. Reading' /\ Progress'
  <2>1. qpc # "idle"
    BY Zenon DEF Ring, ReapTimeout
  <2> QED BY Zenon, <1>1, <1>2, <1>3, <2>1 DEF QueueInv, Reading, Progress
<1> QED BY Zenon, <1>3, <1>4, <1>5, <1>6 DEF QueueInv

(* The first half of a live read: if the entry to confirm was posted, it is *)
(* that entry's.                                                            *)
LEMMA ReadLowKeeps == ASSUME QueueInv, ReadLow PROVE QueueInv'
<1>1. Still /\ done' = done /\ sqdb' = sqdb /\ UNCHANGED <<job, entry, tries, garbled, closing>>
  BY Zenon DEF ReadLow, Still
<1>2. qpc' = (IF qpc = "reap" THEN "half" ELSE "halfAgain") /\ qpc \in {"reap", "confirm"} /\ lo' = cq[head].lo
  BY Zenon DEF ReadLow
<1>3. /\ Rings' /\ Counted' /\ Honest' /\ Once' /\ outstanding' = {issued'[s] : s \in InFlight'}
      /\ Live' \subseteq Live /\ CmdCount' = CmdCount /\ Posted' = Posted
  BY Zenon, <1>1, StillKeeps
<1>4. QueueTypeOK'
  <2>1. lo' \in Nat
    BY Zenon, <1>2 DEF QueueInv, QueueTypeOK
  <2> QED BY Zenon, <1>1, <1>2, <2>1 DEF QueueInv, QueueTypeOK, Still
<1>5. Recent'
  BY Zenon, <1>1, <1>3 DEF QueueInv, Recent, Batch, Still
<1>6. Reading' /\ Progress'
  BY Zenon, <1>1, <1>2, <1>3 DEF QueueInv, Reading, Progress, Still
<1> QED BY Zenon, <1>3, <1>4, <1>5, <1>6 DEF QueueInv

(* A failed run goes on with its clean-up. *)
LEMMA CloseKeeps == ASSUME QueueInv, CloseAfterStop PROVE QueueInv'
<1>1. Still /\ done' = {} /\ job' = {} /\ sqdb' = sqdb /\ closing = 0 /\ closing' = 1 /\ qpc' = "idle"
      /\ UNCHANGED <<lo, entry, tries, garbled>>
  BY Zenon DEF CloseAfterStop, Still
<1>3. /\ Rings' /\ Counted' /\ Honest' /\ Once' /\ outstanding' = {issued'[s] : s \in InFlight'}
      /\ Live' \subseteq Live /\ CmdCount' = CmdCount
  BY Zenon, <1>1, StillKeeps
<1>4. QueueTypeOK'
  <2>1. closing' \in 0 .. 3
    BY <1>1
  <2> QED BY Zenon, <1>1, <2>1 DEF QueueInv, QueueTypeOK, Still
<1>5. Recent'
  <2>0. CmdCount \in Nat /\ Slots \in Nat
    BY QueueAssumption DEF QueueInv, QueueTypeOK, CmdCount
  <2>1. PICK b \in 0 .. CmdCount : Batch(b)
    BY Zenon, <1>1 DEF QueueInv, Recent
  <2>2. ASSUME NEW s \in Live' PROVE CmdCount' - s < Slots
    <3>1. s \in Live /\ s \in 1 .. CmdCount
      BY Zenon, <1>3, LiveRecent DEF QueueInv
    <3> QED BY <1>3, <2>0, <2>1, <3>1 DEF Batch
  <2> QED BY <1>1, <1>3, <2>0, <2>2 DEF Recent
<1>6. Reading' /\ Progress'
  BY Zenon, <1>1, <1>3 DEF Reading, Progress
<1> QED BY Zenon, <1>3, <1>4, <1>5, <1>6 DEF QueueInv

(* A batch that was reaped left nothing in flight. *)
LEMMA BatchEmpty == ASSUME QueueInv, qpc = "reaped", closing = 0 PROVE InFlight = {}
<1> SUFFICES ASSUME NEW s \in InFlight PROVE FALSE
  BY Zenon
<1>0. QueueTypeOK /\ Counted /\ Honest /\ Once /\ Recent /\ Progress
  BY Zenon DEF QueueInv
<1>1. PICK b \in 0 .. CmdCount : Batch(b)
  BY Zenon, <1>0 DEF Recent
<1>2. s \in Live /\ s \in 1 .. CmdCount /\ CmdCount - s < MaxCid
  BY Zenon, <1>0, LiveRecent DEF Live
<1>3. issued[s] \in job
  BY <1>1, <1>2 DEF Batch
<1>4. PICK d \in done : d.cid = issued[s]
  BY Zenon, <1>0, <1>3 DEF Progress
<1>5. d.ser \in Live /\ issued[d.ser] = d.cid /\ d.ser \notin InFlight
  BY Zenon, <1>0 DEF Live, Honest, Genuine, Once
<1>6. d.ser \in 1 .. CmdCount /\ CmdCount - d.ser < MaxCid
  BY Zenon, <1>0, <1>5, LiveRecent
<1>7. d.ser = s
  BY Zenon, <1>0, <1>2, <1>4, <1>5, <1>6, CidsApart
<1> QED BY Zenon, <1>5, <1>7

(* _reap returns. *)
LEMMA ReapedKeeps == ASSUME QueueInv, Reaped PROVE QueueInv'
<1>1. /\ Still /\ done' = {} /\ job' = {} /\ sqdb' = sqdb /\ qpc = "reaped" /\ qpc' = "idle"
      /\ closing' = (IF closing > 0 THEN closing + 1 ELSE 0)
      /\ UNCHANGED <<lo, entry, tries, garbled>>
  BY Zenon DEF Reaped, Still
<1>2. closing \in 0 .. 3 /\ CmdCount \in Nat /\ Slots \in Nat
  BY QueueAssumption DEF QueueInv, QueueTypeOK, CmdCount
<1>3. /\ Rings' /\ Counted' /\ Honest' /\ Once' /\ outstanding' = {issued'[s] : s \in InFlight'}
      /\ Live' \subseteq Live /\ CmdCount' = CmdCount /\ InFlight' = InFlight
  BY Zenon, <1>1, StillKeeps
<1>4. QueueTypeOK'
  <2>1. closing' \in 0 .. 3
    BY <1>1, <1>2 DEF QueueInv, Progress
  <2> QED BY Zenon, <1>1, <2>1 DEF QueueInv, QueueTypeOK, Still
<1>5. Recent'
  <2>1. CASE closing = 0
    <3>1. Live' = {}
      BY Zenon, <1>1, <1>3, <2>1, BatchEmpty DEF Live
    <3>2. Batch(CmdCount)'
      BY <1>1, <1>2, <1>3, <3>1 DEF Batch
    <3> QED BY <1>1, <1>2, <1>3, <2>1, <3>2 DEF Recent
  <2>2. CASE closing > 0
    <3>1. ASSUME NEW s \in Live' PROVE CmdCount' - s < Slots + closing' - 1
      <4>1. s \in Live /\ s \in 1 .. CmdCount
        BY Zenon, <1>3, LiveRecent DEF QueueInv
      <4>2. CmdCount - s < Slots + closing - 1 + (IF job = {} THEN 0 ELSE 1)
        BY Zenon, <2>2, <4>1 DEF QueueInv, Recent
      <4> QED BY <1>1, <1>2, <1>3, <2>2, <4>1, <4>2
    <3> QED BY <1>1, <1>2, <1>3, <2>2, <3>1 DEF Recent
  <2> QED BY <1>2, <2>1, <2>2
<1>6. Reading' /\ Progress'
  BY Zenon, <1>1, <1>3 DEF Reading, Progress
<1> QED BY Zenon, <1>3, <1>4, <1>5, <1>6 DEF QueueInv

-----------------------------------------------------------------------------
(* The second half of a live read. *)

(* An entry that shows the phase of this round was posted. *)
LEMMA PhaseMeansPosted ==
  ASSUME QueueInv, cq[head].hi.phase = phase
  PROVE  head \in Posted /\ head # dev.tail
<1>0. /\ head \in Slot /\ dev.tail \in Slot /\ phase \in {0, 1} /\ dev.phase \in {0, 1}
      /\ Slot \subseteq Int
  BY DEF QueueInv, QueueTypeOK, Slot
<1>1. /\ (dev.phase = phase) <=> (head <= dev.tail)
      /\ cq[head].hi.phase = IF head < dev.tail THEN dev.phase ELSE 1 - dev.phase
  BY Zenon, <1>0 DEF QueueInv, Rings
<1>2. head # dev.tail
  BY <1>0, <1>1
<1> QED BY Zenon, <1>0, <1>2, ArcShrinks DEF Posted

(* What a live read returns. *)
LEMMA ReadableIs ==
  ASSUME QueueInv, NEW e \in Readable
  PROVE  /\ e \in [lo : Int, hi : Half]
         /\ \/ e.lo >= 0 /\ e = [lo |-> lo, hi |-> cq[head].hi]
            \/ e.lo < 0 /\ e.lo = 0 - (garbled + 1)
<1>0. lo \in Nat /\ garbled \in Nat /\ cq[head].hi \in Half /\ 1 \in Cid
  BY QueueAssumption DEF QueueInv, QueueTypeOK, Cid
<1>1. CASE e = [lo |-> lo, hi |-> cq[head].hi]
  BY <1>0, <1>1
<1>2. CASE e # [lo |-> lo, hi |-> cq[head].hi]
  <2>1. PICK p \in {0, 1} : e = [lo |-> 0 - (garbled + 1), hi |-> [cid |-> 1, phase |-> p, status |-> 0]]
    BY Zenon, <1>2 DEF Readable
  <2>2. [cid |-> 1, phase |-> p, status |-> 0] \in Half
    BY <1>0 DEF Half, Status
  <2> QED BY <1>0, <2>1, <2>2
<1> QED BY Zenon, <1>1, <1>2

(* A read that is kept for confirmation, or shows that nothing has come.    *)
LEMMA LookKeeps ==
  ASSUME QueueInv, NEW e \in Readable,
         garbled' = (IF e.lo < 0 THEN garbled + 1 ELSE garbled),
         UNCHANGED <<sq, tail, nextCid, sqdb, cq, dev, job, lo, issued, closing>>,
         UNCHANGED <<outstanding, done, head, phase, cqdb>>,
         qpc \in {"half", "halfAgain"}, tries' \in 0 .. CompletionReads,
         qpc' = "confirm" => tries' < CompletionReads,
         \/ entry' = e /\ qpc' \in {"confirm", "reap", "stopped"}
         \/ entry' = entry /\ qpc' = "reap"
  PROVE  QueueInv'
<1>1. Still /\ done' = done /\ sqdb' = sqdb
  BY Zenon DEF Still
<1>2. /\ e \in [lo : Int, hi : Half]
      /\ \/ e.lo >= 0 /\ e = [lo |-> lo, hi |-> cq[head].hi]
         \/ e.lo < 0 /\ e.lo = 0 - (garbled + 1)
  BY Zenon, ReadableIs
<1>3. /\ Rings' /\ Counted' /\ Honest' /\ Once' /\ outstanding' = {issued'[s] : s \in InFlight'}
      /\ Live' \subseteq Live /\ CmdCount' = CmdCount /\ Posted' = Posted
  BY Zenon, <1>1, StillKeeps
<1>4. QueueTypeOK'
  <2>1. garbled' \in Nat
    BY DEF QueueInv, QueueTypeOK
  <2>2. entry' \in [lo : Int, hi : Half]
    BY Zenon, <1>2 DEF QueueInv, QueueTypeOK
  <2> QED BY Zenon, <2>1, <2>2 DEF QueueInv, QueueTypeOK
<1>5. Recent'
  BY Zenon, <1>3 DEF QueueInv, Recent, Batch
<1>6. Reading'
  <2> SUFFICES ASSUME qpc' = "confirm"
               PROVE  \/ entry'.lo < 0 /\ entry'.lo >= 0 - garbled'
                      \/ entry'.lo >= 0 /\ (entry'.hi.phase = phase' => head' \in Posted')
    BY Zenon DEF Reading
  <2>1. entry' = e /\ garbled \in Nat
    BY Zenon DEF QueueInv, QueueTypeOK
  <2>2. CASE e.lo < 0 /\ e.lo = 0 - (garbled + 1)
    BY <2>1, <2>2
  <2>3. CASE e.lo >= 0 /\ e = [lo |-> lo, hi |-> cq[head].hi]
    BY Zenon, <1>3, <2>1, <2>3, PhaseMeansPosted
  <2> QED BY Zenon, <1>2, <2>2, <2>3
<1>7. Progress'
  BY ZenonT(40), <1>3 DEF QueueInv, Progress
<1> QED BY Zenon, <1>3, <1>4, <1>5, <1>6, <1>7 DEF QueueInv

(* Two reads that agree and show the phase of this round are the posted     *)
(* entry: the first showed it posted, so the second read both its halves.   *)
LEMMA AgreedIsPosted ==
  ASSUME QueueInv, NEW e \in Readable, qpc = "halfAgain", e = entry, e.hi.phase = phase
  PROVE  /\ head \in Posted /\ head # dev.tail
         /\ e.lo = cq[head].lo /\ e.hi = cq[head].hi /\ e.lo >= 0
<1>0. garbled \in Nat /\ Reading
  BY Zenon DEF QueueInv, QueueTypeOK
<1>1. /\ e \in [lo : Int, hi : Half]
      /\ \/ e.lo >= 0 /\ e = [lo |-> lo, hi |-> cq[head].hi]
         \/ e.lo < 0 /\ e.lo = 0 - (garbled + 1)
  BY Zenon, ReadableIs
<1>2. e.lo >= 0
  BY <1>0, <1>1 DEF Reading
<1>3. e = [lo |-> lo, hi |-> cq[head].hi]
  BY <1>1, <1>2
<1>4. head \in Posted /\ head # dev.tail
  BY <1>3, PhaseMeansPosted
<1>5. lo = cq[head].lo
  BY Zenon, <1>0, <1>2 DEF Reading
<1> QED BY <1>2, <1>3, <1>4, <1>5

(* _reap takes an entry. *)
LEMMA CompletedKeeps ==
  ASSUME QueueInv, NEW e \in Readable, qpc = "halfAgain", e = entry, e.hi.phase = phase,
         garbled' = (IF e.lo < 0 THEN garbled + 1 ELSE garbled),
         Completed(e), UNCHANGED <<entry, tries>>,
         UNCHANGED <<sq, tail, nextCid, sqdb, cq, dev, job, lo, issued, closing>>
  PROVE  QueueInv'
<1>0. QueueTypeOK /\ Rings /\ Counted /\ Honest /\ Once /\ Recent /\ Progress
  BY Zenon DEF QueueInv
<1>1. /\ head \in Posted /\ head # dev.tail
      /\ e.lo = cq[head].lo /\ e.hi = cq[head].hi /\ e.lo >= 0
  BY Zenon, AgreedIsPosted
<1>2. /\ head \in Slot /\ dev.tail \in Slot /\ dev.phase \in {0, 1} /\ phase \in {0, 1}
      /\ garbled' = garbled
  BY <1>0, <1>1 DEF QueueTypeOK
<1>3. /\ head' = Inc(head) /\ phase' = (IF head' = 0 THEN 1 - phase ELSE phase) /\ cqdb' = head'
      /\ outstanding' = outstanding \ {e.hi.cid}
      /\ done' = {d \in done : d.cid # e.hi.cid}
                    \cup {[cid |-> e.hi.cid, ser |-> e.lo, status |-> e.hi.status]}
      /\ qpc' \in {"reap", "stopped", "reaped"}
      /\ qpc' = "reaped" => job \subseteq {d.cid : d \in done'}
  BY Zenon DEF Completed
<1>4. Inc(head) = (IF head = Entries - 1 THEN 0 ELSE head + 1) /\ Inc(head) \in Slot
  BY Zenon, <1>2, IncIs
<1>5. Posted' = Posted \ {head} /\ Waiting' = Waiting
  <2>1. Between(Inc(head), dev.tail) = Between(head, dev.tail) \ {head}
    BY Zenon, <1>1, <1>2, ArcShrinks
  <2>2. dev' = dev /\ tail' = tail
    BY Zenon
  <2> QED BY Zenon, <1>3, <2>1, <2>2 DEF Posted, Waiting
<1>6. Genuine(e.lo, e.hi.cid) /\ e.lo \in InFlight
  <2>1. Genuine(cq[head].lo, cq[head].hi.cid)
    BY Zenon, <1>0, <1>1 DEF Honest
  <2>2. cq[head].lo \in InFlight
    BY Zenon, <1>1 DEF InFlight, Posted
  <2> QED BY Zenon, <1>1, <2>1, <2>2
<1>7. InFlight' = InFlight \ {e.lo}
  <2>1. InFlight = {sq[i].ser : i \in Waiting} \cup {c.ser : c \in dev.active} \cup {cq[i].lo : i \in Posted}
    BY Zenon DEF InFlight, Waiting, Posted
  <2>2. InFlight' = {sq[i].ser : i \in Waiting} \cup {c.ser : c \in dev.active}
                        \cup {cq[i].lo : i \in Posted \ {head}}
    BY Zenon, <1>5 DEF InFlight, Waiting, Posted
  <2>3. /\ \A i \in Waiting : sq[i].ser # e.lo
        /\ \A c \in dev.active : c.ser # e.lo
        /\ \A i \in Posted \ {head} : cq[i].lo # e.lo
    BY Zenon, <1>0, <1>1 DEF Once
  <2> QED BY Zenon, <1>1, <2>1, <2>2, <2>3
<1>8. CmdCount' = CmdCount
  BY Zenon DEF CmdCount
<1>9. Live' \subseteq Live
  BY <1>3, <1>6, <1>7 DEF Live
<1>10. QueueTypeOK'
  <2>1. phase' \in {0, 1}
    <3>1. phase \in {0, 1} /\ phase' \in {phase, 1 - phase}
      BY Zenon, <1>2, <1>3
    <3> QED BY ONLY <3>1
  <2>2. done' \subseteq [cid : Cid \cup {0}, ser : Int, status : Status]
    <3>1. e.hi \in Half /\ e.lo \in Int
      BY Zenon, ReadableIs
    <3>2. [cid |-> e.hi.cid, ser |-> e.lo, status |-> e.hi.status] \in [cid : Cid \cup {0}, ser : Int, status : Status]
      BY Zenon, <3>1 DEF Half
    <3> QED BY Zenon, <1>0, <1>3, <3>2 DEF QueueTypeOK
  <2>3. outstanding' \subseteq Cid
    BY Zenon, <1>0, <1>3 DEF QueueTypeOK
  <2> QED BY Zenon, <1>0, <1>2, <1>3, <1>4, <2>1, <2>2, <2>3 DEF QueueTypeOK
<1>11. Rings'
  <2>1. (dev.phase = phase') <=> (head' <= dev.tail)
    <3>1. (dev.phase = phase) <=> (head <= dev.tail)
      BY Zenon, <1>0 DEF Rings
    <3>2. /\ head \in Int /\ dev.tail \in Int /\ Entries \in Int /\ 0 <= dev.tail /\ dev.tail < Entries
          /\ 0 <= head /\ head < Entries
      BY <1>2, QueueAssumption DEF Slot
    <3> QED BY <1>1, <1>2, <1>3, <1>4, <3>1, <3>2
  <2> QED BY Zenon, <1>0, <1>3, <1>5, <2>1 DEF Rings
<1>12. Counted'
  BY Zenon, <1>0, CountedKeeps
<1>13. Honest'
  <2>1. CmdCount' = CmdCount /\ UNCHANGED <<sq, cq, dev, issued>>
    BY Zenon, <1>8
  <2>2. \A i \in Posted' : Genuine(cq[i].lo, cq[i].hi.cid)
    BY Zenon, <1>0, <1>5 DEF Honest
  <2>3. ASSUME NEW d \in done' PROVE Genuine(d.ser, d.cid)
    <3>1. CASE d \in done
      BY Zenon, <1>0, <3>1 DEF Honest
    <3>2. CASE d = [cid |-> e.hi.cid, ser |-> e.lo, status |-> e.hi.status]
      BY Zenon, <1>6, <3>2
    <3> QED BY Zenon, <1>3, <3>1, <3>2
  <2> QED BY Zenon, <1>0, <1>5, <2>1, <2>2, <2>3 DEF Honest, Genuine
<1>14. Once'
  BY <1>0, <1>3, <1>5, <1>7 DEF Once
<1>15. Recent'
  BY Zenon, <1>0, <1>8, <1>9 DEF Recent, Batch
<1>16. outstanding' = {issued'[s] : s \in InFlight'}
  <2>1. ASSUME NEW s \in InFlight, issued[s] = e.hi.cid PROVE s = e.lo
    <3>1. s \in 1 .. CmdCount /\ CmdCount - s < MaxCid
      BY Zenon, <1>0, LiveRecent DEF Live
    <3>2. e.lo \in 1 .. CmdCount /\ CmdCount - e.lo < MaxCid
      BY Zenon, <1>0, <1>6, LiveRecent DEF Live
    <3> QED BY Zenon, <1>0, <1>6, <2>1, <3>1, <3>2, CidsApart DEF Genuine
  <2>2. outstanding = {issued[s] : s \in InFlight} /\ issued[e.lo] = e.hi.cid
    BY Zenon, <1>0, <1>6 DEF Progress, Genuine
  <2> QED BY <1>3, <1>7, <2>1, <2>2
<1>17. Progress' /\ Reading'
  BY Zenon, <1>0, <1>3, <1>16 DEF Progress, Reading
<1> QED BY Zenon, <1>10, <1>11, <1>12, <1>13, <1>14, <1>15, <1>17 DEF QueueInv

(* The second half of a live read, first or confirming. *)
LEMMA ReadHighKeeps == ASSUME QueueInv, ReadHigh PROVE QueueInv'
<1>1. PICK e \in Readable :
        /\ garbled' = (IF e.lo < 0 THEN garbled + 1 ELSE garbled)
        /\ IF qpc = "half" THEN FirstRead(e) ELSE Confirm(e)
  BY Zenon DEF ReadHigh
<1>2. /\ qpc \in {"half", "halfAgain"}
      /\ UNCHANGED <<sq, tail, nextCid, sqdb, cq, dev, job, lo, issued, closing>>
  BY Zenon DEF ReadHigh
<1>3. tries \in 0 .. CompletionReads /\ CompletionReads \in Nat
  BY Zenon, QueueAssumption DEF QueueInv, QueueTypeOK
<1>4. CASE qpc = "half"
  <2>1. /\ entry' = e /\ UNCHANGED <<outstanding, done, head, phase, cqdb>>
        /\ \/ qpc' = "confirm" /\ tries' = 0
           \/ qpc' = "reap" /\ tries' = tries
    BY Zenon, <1>1, <1>4 DEF FirstRead
  <2>2. tries' \in 0 .. CompletionReads /\ (qpc' = "confirm" => tries' < CompletionReads)
    BY <1>3, <2>1, QueueAssumption
  <2> QED BY Zenon, <1>1, <1>2, <2>1, <2>2, LookKeeps
<1>5. CASE qpc = "halfAgain"
  <2>0. tries < CompletionReads /\ Confirm(e)
    BY Zenon, <1>1, <1>5 DEF QueueInv, Reading
  <2>1. CASE e = entry /\ e.hi.phase = phase
    <3>1. Completed(e) /\ UNCHANGED <<entry, tries>>
      BY Zenon, <2>0, <2>1 DEF Confirm
    <3> QED BY Zenon, <1>1, <1>2, <1>5, <2>1, <3>1, CompletedKeeps
  <2>2. CASE e = entry /\ e.hi.phase # phase
    <3>1. qpc' = "reap" /\ UNCHANGED <<entry, tries, outstanding, done, head, phase, cqdb>>
      BY Zenon, <2>0, <2>2 DEF Confirm
    <3> QED BY Zenon, <1>1, <1>2, <1>3, <3>1, LookKeeps
  <2>3. CASE e # entry
    <3>1. /\ entry' = e /\ tries' = tries + 1 /\ UNCHANGED <<outstanding, done, head, phase, cqdb>>
          /\ qpc' = IF tries' = CompletionReads THEN "stopped" ELSE "confirm"
      BY Zenon, <2>0, <2>3 DEF Confirm
    <3>2. tries' \in 0 .. CompletionReads /\ (qpc' = "confirm" => tries' < CompletionReads)
      BY <1>3, <2>0, <3>1
    <3> QED BY Zenon, <1>1, <1>2, <3>1, <3>2, LookKeeps
  <2> QED BY Zenon, <2>1, <2>2, <2>3
<1> QED BY Zenon, <1>2, <1>4, <1>5

-----------------------------------------------------------------------------
(* The submission. *)

(* What the sizes of the sets tell (NvmeQueuesProofs): with a free slot the  *)
(* tail does not run into the controller's head, and a batch holds as many    *)
(* identifiers as commands.                                                   *)
Counts ==
  /\ HasRoom => Inc(tail) # dev.head
  /\ closing = 0 => \A b \in 0 .. CmdCount : Batch(b) => Cardinality(job) = CmdCount - b
  /\ closing > 0 /\ Cardinality(job) < 1 => job = {}

(* A command is written at the tail. *)
LEMMA SubmitKeeps == ASSUME QueueInv, Counts, Submit PROVE QueueInv'
<1>0. QueueTypeOK /\ Rings /\ Counted /\ Honest /\ Once /\ Recent /\ Progress
  BY Zenon DEF QueueInv
<1>1. /\ qpc \in {"idle", "batch"} /\ closing < 3 /\ Cardinality(job) < (IF closing > 0 THEN 1 ELSE Slots)
      /\ UNCHANGED <<head, phase, sqdb, cqdb, cq, dev, done, lo, entry, tries, garbled, closing>>
  BY Zenon DEF Submit
<1>2. /\ CmdCount \in Nat /\ nextCid \in Cid /\ Slots \in Nat \ {0} /\ MaxCid \in Nat /\ Slots + 2 <= MaxCid
      /\ closing \in 0 .. 3 /\ tail \in Slot /\ dev.head \in Slot
  BY <1>0, QueueAssumption DEF QueueTypeOK, CmdCount
<1>3. CASE ~HasRoom
  <2>1. qpc' = "stopped" /\ UNCHANGED <<sq, issued, nextCid, tail, outstanding, job>>
    BY Zenon, <1>3 DEF Submit
  <2>2. Still /\ done' = done /\ sqdb' = sqdb
    BY Zenon, <1>1, <2>1 DEF Still
  <2>3. /\ Rings' /\ Counted' /\ Honest' /\ Once' /\ outstanding' = {issued'[s] : s \in InFlight'}
        /\ Live' \subseteq Live /\ CmdCount' = CmdCount
    BY Zenon, <2>2, StillKeeps
  <2>4. QueueTypeOK'
    BY Zenon, <1>0, <1>1, <2>1 DEF QueueTypeOK
  <2>5. Recent'
    BY Zenon, <1>0, <1>1, <2>1, <2>3 DEF Recent, Batch
  <2>6. Reading' /\ Progress'
    BY <1>1, <1>2, <2>1, <2>3 DEF Reading, Progress
  <2> QED BY Zenon, <2>3, <2>4, <2>5, <2>6 DEF QueueInv
<1>4. CASE HasRoom
  <2>1. /\ sq' = [sq EXCEPT ![tail] = [cid |-> nextCid, ser |-> CmdCount + 1]]
        /\ issued' = Append(issued, nextCid) /\ nextCid' = (nextCid % MaxCid) + 1 /\ tail' = Inc(tail)
        /\ outstanding' = outstanding \cup {nextCid} /\ job' = job \cup {nextCid} /\ qpc' = "batch"
    BY Zenon, <1>4 DEF Submit, Advanced, Inc
  <2>2. Inc(tail) # dev.head /\ Inc(tail) \in Slot
    BY Zenon, <1>2, <1>4, IncIs DEF Counts
  <2>3. Waiting' = Waiting \cup {tail} /\ tail \notin Waiting /\ Posted' = Posted
    BY <1>1, <1>2, <2>1, <2>2, ArcGrows DEF Waiting, Posted, Between
  <2>4. CmdCount' = CmdCount + 1 /\ issued' \in Seq(Cid)
    BY <1>0, <1>2, <2>1 DEF QueueTypeOK, CmdCount
  <2>5. (\A s \in 1 .. CmdCount : issued'[s] = issued[s]) /\ issued'[CmdCount + 1] = nextCid
    BY <1>0, <1>2, <2>1 DEF QueueTypeOK, CmdCount
  <2>6. /\ sq' \in [Slot -> [cid : Cid \cup {0}, ser : Nat]]
        /\ sq'[tail] = [cid |-> nextCid, ser |-> CmdCount + 1]
        /\ \A i \in Waiting : sq'[i] = sq[i]
    <3>1. sq \in [Slot -> [cid : Cid \cup {0}, ser : Nat]] /\ Waiting \subseteq Slot
      BY Zenon, <1>0 DEF QueueTypeOK, Waiting, Between
    <3>2. [cid |-> nextCid, ser |-> CmdCount + 1] \in [cid : Cid \cup {0}, ser : Nat]
      BY <1>2
    <3> QED BY Zenon, <1>2, <2>1, <2>3, <3>1, <3>2
  <2>7. /\ nextCid' = IF nextCid = MaxCid THEN 1 ELSE nextCid + 1
        /\ nextCid' \in Cid
    BY Zenon, <1>2, <2>1, NextCidIs
  <2>8. InFlight' = InFlight \cup {CmdCount + 1}
    <3>1. InFlight = {sq[i].ser : i \in Waiting} \cup {c.ser : c \in dev.active} \cup {cq[i].lo : i \in Posted}
      BY Zenon DEF InFlight, Waiting, Posted
    <3>2. InFlight' = {sq'[i].ser : i \in Waiting \cup {tail}} \cup {c.ser : c \in dev.active}
                          \cup {cq[i].lo : i \in Posted}
      BY Zenon, <1>1, <2>3 DEF InFlight, Waiting, Posted
    <3>3. {sq'[i].ser : i \in Waiting \cup {tail}} = {sq[i].ser : i \in Waiting} \cup {CmdCount + 1}
      BY <2>6
    <3> QED BY Zenon, <3>1, <3>2, <3>3
  <2>9. Live' = Live \cup {CmdCount + 1}
    BY Zenon, <1>1, <2>8 DEF Live
  <2>10. \A s \in Live : s \in 1 .. CmdCount
    BY Zenon, <1>0, LiveRecent
  <2>11. QueueTypeOK'
    BY Zenon, <1>0, <1>1, <1>2, <2>1, <2>2, <2>4, <2>6, <2>7 DEF QueueTypeOK
  <2>12. Rings'
    BY Zenon, <1>0, <1>1, <2>3 DEF Rings
  <2>13. Counted'
    <3> SUFFICES ASSUME NEW d \in 1 .. MaxCid, d <= CmdCount + 1
                 PROVE  issued'[(CmdCount + 1) + 1 - d] = IF nextCid' > d THEN nextCid' - d
                                                                           ELSE nextCid' - d + MaxCid
      BY Zenon, <2>4 DEF Counted
    <3>0. nextCid \in Int /\ 1 <= nextCid /\ nextCid <= MaxCid
      BY <1>2 DEF Cid
    <3>1. CASE d = 1
      <4>1. (CmdCount + 1) + 1 - d = CmdCount + 1
        BY <1>2, <3>1
      <4> QED BY <1>2, <2>5, <2>7, <3>0, <3>1, <4>1
    <3>2. CASE d # 1
      <4>1. d - 1 \in 1 .. MaxCid /\ d - 1 <= CmdCount /\ CmdCount + 1 - (d - 1) = (CmdCount + 1) + 1 - d
        BY <1>2, <3>2
      <4>2. issued[CmdCount + 1 - (d - 1)] = IF nextCid > d - 1 THEN nextCid - (d - 1) ELSE nextCid - (d - 1) + MaxCid
        BY Zenon, <1>0, <4>1 DEF Counted
      <4>3. issued'[(CmdCount + 1) + 1 - d] = issued[CmdCount + 1 - (d - 1)]
        BY <1>2, <2>5, <4>1
      <4> QED BY <1>2, <2>7, <3>0, <4>1, <4>2, <4>3
    <3> QED BY Zenon, <3>1, <3>2
  <2>14. Honest'
    <3>1. \A s, c : Genuine(s, c) => s \in 1 .. CmdCount' /\ issued'[s] = c
      BY <1>2, <2>4, <2>5 DEF Genuine
    <3>2. CmdCount + 1 \in 1 .. CmdCount' /\ issued'[CmdCount + 1] = nextCid
      BY <1>2, <2>4, <2>5
    <3>3. ASSUME NEW i \in Waiting' PROVE sq'[i].ser \in 1 .. CmdCount' /\ issued'[sq'[i].ser] = sq'[i].cid
      <4>1. CASE i = tail
        BY <2>6, <3>2, <4>1
      <4>2. CASE i \in Waiting
        BY <1>0, <2>6, <3>1, <4>2 DEF Honest
      <4> QED BY Zenon, <2>3, <4>1, <4>2
    <3>4. \A c \in dev'.active : c.ser \in 1 .. CmdCount' /\ issued'[c.ser] = c.cid
      BY ZenonT(40), <1>0, <1>1, <3>1 DEF Honest
    <3>5. \A i \in Posted' : cq'[i].lo \in 1 .. CmdCount' /\ issued'[cq'[i].lo] = cq'[i].hi.cid
      <4> TAKE i \in Posted'
      <4>1. Genuine(cq[i].lo, cq[i].hi.cid)
        BY Zenon, <1>0, <2>3 DEF Honest
      <4>2. cq' = cq
        BY Zenon, <1>1
      <4>3. cq[i].lo \in 1 .. CmdCount' /\ issued'[cq[i].lo] = cq[i].hi.cid
        BY <3>1, <4>1
      <4> QED BY Zenon, <4>2, <4>3
    <3>6. \A d \in done' : d.ser \in 1 .. CmdCount' /\ issued'[d.ser] = d.cid
      BY Zenon, <1>0, <1>1, <3>1 DEF Honest
    <3> QED BY ZenonT(40), <3>3, <3>4, <3>5, <3>6 DEF Honest, Genuine
  <2>15. Once'
    <3>1. CmdCount + 1 \notin Live
      BY <1>2, <2>10
    <3>2. /\ \A i \in Waiting : sq[i].ser # CmdCount + 1
          /\ \A c \in dev.active : c.ser # CmdCount + 1
          /\ \A i \in Posted : cq[i].lo # CmdCount + 1
          /\ \A d \in done : d.ser # CmdCount + 1
      BY Zenon, <3>1 DEF Live, InFlight, Waiting, Posted
    <3>3. /\ \A i, j \in Waiting : sq[i].ser = sq[j].ser => i = j
          /\ \A i \in Waiting, c \in dev.active : sq[i].ser # c.ser
          /\ \A i \in Waiting, j \in Posted : sq[i].ser # cq[j].lo
          /\ \A d \in done : d.ser \notin InFlight
      BY ZenonT(40), <1>0 DEF Once
    <3>4. sq'[tail].ser = CmdCount + 1 /\ \A i \in Waiting : sq'[i].ser = sq[i].ser
      BY <2>6
    <3>5. ASSUME NEW i \in Waiting', NEW j \in Waiting', sq'[i].ser = sq'[j].ser PROVE i = j
      <4>1. CASE i = tail
        BY Zenon, <2>3, <3>2, <3>4, <3>5, <4>1
      <4>2. CASE j = tail
        BY Zenon, <2>3, <3>2, <3>4, <3>5, <4>2
      <4>3. CASE i \in Waiting /\ j \in Waiting
        BY Zenon, <3>3, <3>4, <3>5, <4>3
      <4> QED BY Zenon, <2>3, <4>1, <4>2, <4>3
    <3>6. ASSUME NEW i \in Waiting' PROVE \A c \in dev.active : sq'[i].ser # c.ser
      <4>1. CASE i = tail
        BY Zenon, <3>2, <3>4, <4>1
      <4>2. CASE i \in Waiting
        BY <3>3, <3>4, <4>2
      <4> QED BY Zenon, <2>3, <4>1, <4>2
    <3>7. ASSUME NEW i \in Waiting' PROVE \A j \in Posted : sq'[i].ser # cq[j].lo
      <4>1. CASE i = tail
        BY Zenon, <3>2, <3>4, <4>1
      <4>2. CASE i \in Waiting
        BY <3>3, <3>4, <4>2
      <4> QED BY Zenon, <2>3, <4>1, <4>2
    <3>8. \A d \in done : d.ser \notin InFlight'
      BY Zenon, <2>8, <3>2, <3>3
    <3>9. /\ \A c, d \in dev'.active : c.ser = d.ser => c = d
          /\ \A i, j \in Posted' : cq'[i].lo = cq'[j].lo => i = j
          /\ \A c \in dev'.active, j \in Posted' : c.ser # cq'[j].lo
      BY ZenonT(40), <1>0, <1>1, <2>3 DEF Once
    <3> QED BY ZenonT(40), <1>1, <2>3, <3>5, <3>6, <3>7, <3>8, <3>9 DEF Once
  <2>16. Recent'
    <3>1. CASE closing = 0
      <4>1. PICK b \in 0 .. CmdCount : Batch(b)
        BY Zenon, <1>0, <3>1 DEF Recent
      <4>2. Cardinality(job) = CmdCount - b
        BY Zenon, <3>1, <4>1 DEF Counts
      <4>3. CmdCount' - b <= Slots /\ b \in 0 .. CmdCount'
        BY <1>1, <1>2, <2>4, <3>1, <4>2
      <4>4. job' = {issued'[s] : s \in b + 1 .. CmdCount'}
        <5>1. b + 1 .. CmdCount' = (b + 1 .. CmdCount) \cup {CmdCount + 1}
          BY <1>2, <2>4
        <5>2. \A s \in b + 1 .. CmdCount : issued'[s] = issued[s]
          BY <1>2, <2>5
        <5>3. {issued'[s] : s \in b + 1 .. CmdCount'} = {issued[s] : s \in b + 1 .. CmdCount} \cup {nextCid}
          <6>1. {issued'[s] : s \in b + 1 .. CmdCount'}
                  = {issued'[s] : s \in b + 1 .. CmdCount} \cup {issued'[CmdCount + 1]}
            BY ONLY <5>1
          <6>2. {issued'[s] : s \in b + 1 .. CmdCount} = {issued[s] : s \in b + 1 .. CmdCount}
            BY ONLY <5>2
          <6>3. issued'[CmdCount + 1] = nextCid
            BY Zenon, <2>5
          <6> QED BY Zenon, <6>1, <6>2, <6>3
        <5>4. job' = job \cup {nextCid} /\ job = {issued[s] : s \in b + 1 .. CmdCount}
          BY Zenon, <2>1, <4>1 DEF Batch
        <5> QED BY Zenon, <5>3, <5>4
      <4>5. \A s \in Live' : s > b
        BY <1>2, <2>9, <4>1 DEF Batch
      <4>6. Batch(b)'
        BY Zenon, <4>3, <4>4, <4>5 DEF Batch
      <4> QED BY <1>1, <3>1, <4>3, <4>6 DEF Recent
    <3>2. CASE closing > 0
      <4>1. job = {}
        BY Zenon, <1>1, <3>2 DEF Counts
      <4>2. ASSUME NEW s \in Live' PROVE CmdCount' - s < Slots + closing' - 1 + 1
        <5>1. CASE s = CmdCount + 1
          BY <1>1, <1>2, <2>4, <3>2, <5>1
        <5>2. CASE s \in Live
          <6>1. CmdCount - s < Slots + closing - 1 + 0 /\ s \in 1 .. CmdCount
            BY Zenon, <1>0, <2>10, <3>2, <4>1, <5>2 DEF Recent
          <6> QED BY <1>1, <1>2, <2>4, <6>1
        <5> QED BY Zenon, <2>9, <5>1, <5>2
      <4>3. job' # {}
        BY Zenon, <2>1
      <4> QED BY <1>1, <1>2, <3>2, <4>2, <4>3 DEF Recent
    <3> QED BY <1>2, <3>1, <3>2
  <2>17. Reading' /\ Progress'
    <3>1. outstanding' = {issued'[s] : s \in InFlight'}
      <4>1. \A s \in InFlight : issued'[s] = issued[s]
        BY Zenon, <2>5, <2>10 DEF Live
      <4> QED BY Zenon, <1>0, <2>1, <2>5, <2>8, <4>1 DEF Progress
    <3>2. Reading'
      BY Zenon, <2>1 DEF Reading
    <3>3. closing' # 3
      BY <1>1, <1>2
    <3> QED BY Zenon, <2>1, <3>1, <3>2, <3>3 DEF Progress
  <2> QED BY Zenon, <2>11, <2>12, <2>13, <2>14, <2>15, <2>16, <2>17 DEF QueueInv
<1> QED BY Zenon, <1>3, <1>4

-----------------------------------------------------------------------------
(* The controller. *)

(* What it does leaves the driver's own state alone.                        *)
Own == UNCHANGED <<sq, tail, nextCid, outstanding, head, phase, sqdb, cqdb, qpc, job, done, lo, entry,
                   tries, issued, garbled, closing>>

(* As long as the commands in flight stay the same, so do the driver's books. *)
LEMMA OwnKeeps ==
  ASSUME QueueInv, Own, InFlight' = InFlight
  PROVE  Counted' /\ Recent' /\ Progress' /\ CmdCount' = CmdCount
<1>0. Counted /\ Recent /\ Progress
  BY Zenon DEF QueueInv
<1>1. CmdCount' = CmdCount
  BY Zenon DEF Own, CmdCount
<1>2. Live' = Live
  BY Zenon DEF Own, Live
<1>3. Counted'
  BY Zenon, <1>0, <1>1 DEF Own, Counted
<1>4. Recent'
  BY Zenon, <1>0, <1>1, <1>2 DEF Own, Recent, Batch
<1>5. Progress'
  BY Zenon, <1>0 DEF Own, Progress
<1> QED BY Zenon, <1>1, <1>3, <1>4, <1>5

(* The controller fetches an announced command. *)
LEMMA FetchKeeps == ASSUME QueueInv, Fetch PROVE QueueInv'
<1>0. QueueTypeOK /\ Rings /\ Honest /\ Once /\ Reading
  BY Zenon DEF QueueInv
<1>1. /\ dev.head \in Slot /\ dev.tail \in Slot /\ dev.phase \in {0, 1} /\ tail \in Slot /\ Slot \subseteq Int
      /\ dev \in [head : Slot, tail : Slot, phase : {0, 1}, active : SUBSET [cid : Cid \cup {0}, ser : Nat]]
      /\ sq[dev.head] \in [cid : Cid \cup {0}, ser : Nat]
  BY <1>0 DEF QueueTypeOK, Slot
<1>2. /\ Own /\ cq' = cq /\ dev.head # sqdb
      /\ dev' = [dev EXCEPT !.head = Inc(dev.head), !.active = dev.active \cup {sq[dev.head]}]
  BY Zenon DEF Fetch, Own
<1>3. /\ dev'.head = Inc(dev.head) /\ dev'.active = dev.active \cup {sq[dev.head]}
      /\ dev'.tail = dev.tail /\ dev'.phase = dev.phase
  BY Zenon, <1>1, <1>2
<1>4. dev.head # tail
  <2> SUFFICES ASSUME dev.head = tail PROVE FALSE
    BY Zenon
  <2>1. Waiting = {}
    <3>1. ASSUME NEW i \in Slot PROVE ~(IF dev.head <= tail THEN dev.head <= i /\ i < tail ELSE dev.head <= i \/ i < tail)
      <4>1. dev.head = tail /\ tail \in Int /\ i \in Int
        BY Zenon, <1>1
      <4> QED BY ONLY <4>1
    <3> QED BY Zenon, <3>1 DEF Waiting, Between
  <2> QED BY Zenon, <1>0, <1>2, <2>1 DEF Rings
<1>5. Waiting' = Waiting \ {dev.head} /\ dev.head \in Waiting /\ Posted' = Posted
  BY <1>1, <1>2, <1>3, <1>4, ArcShrinks DEF Waiting, Posted, Own, Between
<1>6. InFlight' = InFlight
  <2>1. InFlight = {sq[i].ser : i \in Waiting} \cup {c.ser : c \in dev.active} \cup {cq[i].lo : i \in Posted}
    BY Zenon DEF InFlight, Waiting, Posted
  <2>2. InFlight' = {sq[i].ser : i \in Waiting \ {dev.head}} \cup {c.ser : c \in dev.active \cup {sq[dev.head]}}
                        \cup {cq[i].lo : i \in Posted}
    <3>1. InFlight' = {sq'[i].ser : i \in Waiting'} \cup {c.ser : c \in dev'.active} \cup {cq'[i].lo : i \in Posted'}
      BY Zenon DEF InFlight, Waiting, Posted
    <3>2. sq' = sq
      BY Zenon, <1>2 DEF Own
    <3> QED BY Zenon, <1>2, <1>3, <1>5, <3>1, <3>2
  <2> QED BY Zenon, <1>5, <2>1, <2>2
<1>7. Counted' /\ Recent' /\ Progress' /\ CmdCount' = CmdCount
  BY Zenon, <1>2, <1>6, OwnKeeps
<1>8. QueueTypeOK'
  <2>1. dev' \in [head : Slot, tail : Slot, phase : {0, 1}, active : SUBSET [cid : Cid \cup {0}, ser : Nat]]
    BY Zenon, <1>1, <1>2, IncIs
  <2> QED BY Zenon, <1>0, <1>2, <2>1 DEF QueueTypeOK, Own
<1>9. Rings'
  BY Zenon, <1>0, <1>2, <1>3, <1>5 DEF Rings, Own
<1>10. Honest'
  BY Zenon, <1>0, <1>2, <1>3, <1>5, <1>7 DEF Honest, Genuine, Own
<1>11. Once'
  <2>1. /\ sq' = sq /\ done' = done
    BY Zenon, <1>2 DEF Own
  <2>2. \A c, d \in dev'.active : c.ser = d.ser => c = d
    BY <1>0, <1>3, <1>5 DEF Once
  <2>3. \A i \in Waiting', c \in dev'.active : sq'[i].ser # c.ser
    BY <1>0, <1>3, <1>5, <2>1 DEF Once
  <2>4. \A c \in dev'.active, j \in Posted' : c.ser # cq'[j].lo
    BY <1>0, <1>2, <1>3, <1>5 DEF Once
  <2> QED BY <1>0, <1>2, <1>5, <1>6, <2>1, <2>2, <2>3, <2>4 DEF Once
<1>12. Reading'
  BY Zenon, <1>0, <1>2, <1>5 DEF Reading, Own
<1> QED BY Zenon, <1>7, <1>8, <1>9, <1>10, <1>11, <1>12 DEF QueueInv

(* The controller posts a completion. *)
LEMMA PostKeeps ==
  ASSUME QueueInv, NEW c \in dev.active, NEW status \in Status, Post(c, status)
  PROVE  QueueInv'
<1>0. QueueTypeOK /\ Rings /\ Honest /\ Once /\ Reading
  BY Zenon DEF QueueInv
<1> DEFINE new == [lo |-> c.ser, hi |-> [cid |-> c.cid, phase |-> dev.phase, status |-> status]]
<1>1. /\ dev.head \in Slot /\ dev.tail \in Slot /\ dev.phase \in {0, 1} /\ phase \in {0, 1} /\ head \in Slot
      /\ dev \in [head : Slot, tail : Slot, phase : {0, 1}, active : SUBSET [cid : Cid \cup {0}, ser : Nat]]
      /\ c \in [cid : Cid \cup {0}, ser : Nat] /\ cq \in [Slot -> [lo : Nat, hi : Half]]
  BY Zenon, <1>0 DEF QueueTypeOK
<1>2. Entries \in Int /\ Slot \subseteq Int /\ \A i \in Slot : 0 <= i /\ i < Entries
  BY QueueAssumption DEF Slot
<1>3. /\ Own /\ Inc(dev.tail) # head
      /\ cq' = [cq EXCEPT ![dev.tail] = new]
      /\ dev' = [dev EXCEPT !.active = dev.active \ {c}, !.tail = Inc(dev.tail),
                            !.phase = IF Inc(dev.tail) = 0 THEN 1 - dev.phase ELSE dev.phase]
  BY Zenon, <1>0 DEF Post, Own, Rings
<1>4. /\ dev'.head = dev.head /\ dev'.active = dev.active \ {c} /\ dev'.tail = Inc(dev.tail)
      /\ dev'.phase = IF Inc(dev.tail) = 0 THEN 1 - dev.phase ELSE dev.phase
  BY Zenon, <1>1, <1>3
<1>5. Inc(dev.tail) = (IF dev.tail = Entries - 1 THEN 0 ELSE dev.tail + 1) /\ Inc(dev.tail) \in Slot
  BY Zenon, <1>1, IncIs
<1>6. Posted' = Posted \cup {dev.tail} /\ dev.tail \notin Posted /\ Posted \subseteq Slot /\ Waiting' = Waiting
  BY <1>1, <1>3, <1>4, ArcGrows DEF Waiting, Posted, Own, Between
<1>7. /\ cq'[dev.tail].lo = c.ser /\ cq'[dev.tail].hi.cid = c.cid /\ cq'[dev.tail].hi.phase = dev.phase
      /\ \A i \in Slot : i # dev.tail => cq'[i] = cq[i]
      /\ \A i \in Posted : cq'[i] = cq[i]
  BY Zenon, <1>1, <1>3, <1>6
<1>8. InFlight' = InFlight
  <2>1. InFlight = {sq[i].ser : i \in Waiting} \cup {d.ser : d \in dev.active} \cup {cq[i].lo : i \in Posted}
    BY Zenon DEF InFlight, Waiting, Posted
  <2>2. InFlight' = {sq[i].ser : i \in Waiting} \cup {d.ser : d \in dev.active \ {c}}
                        \cup {cq'[i].lo : i \in Posted \cup {dev.tail}}
    <3>1. InFlight' = {sq'[i].ser : i \in Waiting'} \cup {d.ser : d \in dev'.active} \cup {cq'[i].lo : i \in Posted'}
      BY Zenon DEF InFlight, Waiting, Posted
    <3>2. sq' = sq
      BY Zenon, <1>3 DEF Own
    <3> QED BY Zenon, <1>4, <1>6, <3>1, <3>2
  <2>3. {cq'[i].lo : i \in Posted \cup {dev.tail}} = {cq[i].lo : i \in Posted} \cup {c.ser}
    BY <1>6, <1>7
  <2> QED BY ZenonT(40), <2>1, <2>2, <2>3
<1>9. Counted' /\ Recent' /\ Progress' /\ CmdCount' = CmdCount
  BY Zenon, <1>3, <1>8, OwnKeeps
<1>10. QueueTypeOK'
  <2>1. dev' \in [head : Slot, tail : Slot, phase : {0, 1}, active : SUBSET [cid : Cid \cup {0}, ser : Nat]]
    <3>1. (IF Inc(dev.tail) = 0 THEN 1 - dev.phase ELSE dev.phase) \in {0, 1}
      BY <1>1
    <3> QED BY ZenonT(40), <1>1, <1>3, <1>5, <3>1
  <2>2. cq' \in [Slot -> [lo : Nat, hi : Half]]
    <3>1. new \in [lo : Nat, hi : Half]
      BY Zenon, <1>1 DEF Half
    <3> HIDE DEF new
    <3> QED BY Zenon, <1>1, <1>3, <3>1
  <2> QED BY Zenon, <1>0, <1>3, <2>1, <2>2 DEF QueueTypeOK, Own
<1>11. Rings'
  <2>1. (dev'.phase = phase) <=> (head <= dev'.tail)
    <3>1. (dev.phase = phase) <=> (head <= dev.tail)
      BY Zenon, <1>0 DEF Rings
    <3>2. dev.phase \in {0, 1} /\ phase \in {0, 1} /\ dev.tail \in Int /\ head \in Int /\ Entries \in Int
      BY Zenon, <1>1, <1>2
    <3>3. 0 <= dev.tail /\ dev.tail < Entries /\ 0 <= head /\ head < Entries
      BY Zenon, <1>1, <1>2
    <3>4. CASE dev.tail = Entries - 1
      <4>1. dev'.tail = 0 /\ dev'.phase = 1 - dev.phase /\ head # 0
        BY Zenon, <1>3, <1>4, <1>5, <3>4
      <4> QED BY ONLY <3>1, <3>2, <3>3, <3>4, <4>1
    <3>5. CASE dev.tail # Entries - 1
      <4>1. dev'.tail = dev.tail + 1 /\ head # dev.tail + 1
        BY Zenon, <1>3, <1>4, <1>5, <3>5
      <4>2. dev'.phase = dev.phase
        BY <1>4, <3>2, <3>3, <4>1
      <4> QED BY ONLY <3>1, <3>2, <3>3, <3>5, <4>1, <4>2
    <3> QED BY Zenon, <3>4, <3>5
  <2>2. ASSUME NEW i \in Slot PROVE cq'[i].hi.phase = IF i < dev'.tail THEN dev'.phase ELSE 1 - dev'.phase
    <3>1. cq[i].hi.phase = IF i < dev.tail THEN dev.phase ELSE 1 - dev.phase
      BY Zenon, <1>0 DEF Rings
    <3>2. cq'[i].hi.phase = IF i = dev.tail THEN dev.phase ELSE cq[i].hi.phase
      BY Zenon, <1>7
    <3>3. dev.phase \in {0, 1} /\ dev.tail \in Int /\ i \in Int /\ Entries \in Int
      BY Zenon, <1>1, <1>2
    <3>4. 0 <= dev.tail /\ dev.tail < Entries /\ 0 <= i /\ i < Entries
      BY Zenon, <1>1, <1>2
    <3>5. CASE dev.tail = Entries - 1
      <4>1. dev'.tail = 0 /\ dev'.phase = 1 - dev.phase
        BY Zenon, <1>4, <1>5, <3>5
      <4> QED BY ONLY <3>1, <3>2, <3>3, <3>4, <3>5, <4>1
    <3>6. CASE dev.tail # Entries - 1
      <4>1. dev'.tail = dev.tail + 1
        BY Zenon, <1>4, <1>5, <3>6
      <4>2. dev'.phase = dev.phase
        BY <1>4, <3>3, <3>4, <4>1
      <4> QED BY ONLY <3>1, <3>2, <3>3, <3>4, <4>1, <4>2
    <3> QED BY Zenon, <3>5, <3>6
  <2>3. sqdb' \in Waiting' \cup {tail'} /\ cqdb' = head'
    BY Zenon, <1>0, <1>3, <1>6 DEF Rings, Own
  <2> QED BY Zenon, <1>3, <2>1, <2>2, <2>3 DEF Rings, Own
<1>12. Honest'
  <2>1. Genuine(c.ser, c.cid)
    BY Zenon, <1>0 DEF Honest
  <2>2. \A i \in Posted' : cq'[i].lo \in 1 .. CmdCount /\ issued[cq'[i].lo] = cq'[i].hi.cid
    <3>1. \A i \in Posted : cq[i].lo \in 1 .. CmdCount /\ issued[cq[i].lo] = cq[i].hi.cid
      BY Zenon, <1>0 DEF Honest, Genuine
    <3> QED BY ZenonT(40), <1>6, <1>7, <2>1, <3>1 DEF Genuine
  <2>3. /\ \A i \in Waiting : sq[i].ser \in 1 .. CmdCount /\ issued[sq[i].ser] = sq[i].cid
        /\ \A d \in dev'.active : d.ser \in 1 .. CmdCount /\ issued[d.ser] = d.cid
        /\ \A d \in done : d.ser \in 1 .. CmdCount /\ issued[d.ser] = d.cid
    BY Zenon, <1>0, <1>4 DEF Honest, Genuine
  <2>4. sq' = sq /\ done' = done /\ issued' = issued
    BY Zenon, <1>3 DEF Own
  <2> QED BY ZenonT(40), <1>6, <1>9, <2>2, <2>3, <2>4 DEF Honest, Genuine
<1>13. Once'
  <2>1. sq' = sq /\ done' = done
    BY Zenon, <1>3 DEF Own
  <2>2. /\ \A i, j \in Posted : cq[i].lo = cq[j].lo => i = j
        /\ \A d, e \in dev.active : d.ser = e.ser => d = e
        /\ \A d \in dev.active, j \in Posted : d.ser # cq[j].lo
        /\ \A i \in Waiting, d \in dev.active : sq[i].ser # d.ser
        /\ \A i \in Waiting, j \in Posted : sq[i].ser # cq[j].lo
    BY Zenon, <1>0 DEF Once
  <2>3. \A i \in Posted : cq'[i].lo = cq[i].lo
    BY ZenonT(40), <1>7
  <2>4. ASSUME NEW i \in Posted', NEW j \in Posted', cq'[i].lo = cq'[j].lo PROVE i = j
    <3>0. cq'[dev.tail].lo = c.ser
      BY Zenon, <1>7
    <3>1. CASE i = dev.tail /\ j \in Posted
      BY Zenon, <2>2, <2>3, <2>4, <3>0, <3>1
    <3>2. CASE j = dev.tail /\ i \in Posted
      BY Zenon, <2>2, <2>3, <2>4, <3>0, <3>2
    <3>3. CASE i \in Posted /\ j \in Posted
      BY Zenon, <2>2, <2>3, <2>4, <3>3
    <3> QED BY Zenon, <1>6, <3>1, <3>2, <3>3
  <2>5. ASSUME NEW j \in Posted' PROVE \A i \in Waiting : sq[i].ser # cq'[j].lo
    <3>1. CASE j = dev.tail
      BY <1>7, <2>2, <3>1
    <3>2. CASE j \in Posted
      BY Zenon, <2>2, <2>3, <3>2
    <3> QED BY Zenon, <1>6, <3>1, <3>2
  <2>6. ASSUME NEW j \in Posted' PROVE \A d \in dev'.active : d.ser # cq'[j].lo
    <3>1. CASE j = dev.tail
      BY Zenon, <1>4, <1>7, <2>2, <3>1
    <3>2. CASE j \in Posted
      BY <1>4, <2>2, <2>3, <3>2
    <3> QED BY Zenon, <1>6, <3>1, <3>2
  <2>7. /\ \A i, j \in Waiting : sq[i].ser = sq[j].ser => i = j
        /\ \A d \in done : d.ser \notin InFlight
    BY Zenon, <1>0 DEF Once
  <2>8. /\ \A d, e \in dev'.active : d.ser = e.ser => d = e
        /\ \A i \in Waiting, d \in dev'.active : sq[i].ser # d.ser
    BY ZenonT(40), <1>4, <2>2
  <2> QED BY ZenonT(40), <1>6, <1>8, <2>1, <2>4, <2>5, <2>6, <2>7, <2>8 DEF Once
<1>14. Reading'
  <2>1. \A i \in Posted : i \in Posted' /\ cq'[i] = cq[i]
    BY Zenon, <1>6, <1>7
  <2>2. entry.lo \in Int /\ garbled \in Nat
    BY Zenon, <1>0 DEF QueueTypeOK
  <2>3. UNCHANGED <<qpc, entry, garbled, lo, head, phase, tries>>
    BY Zenon, <1>3 DEF Own
  <2>4. qpc \in {"confirm", "halfAgain"} =>
          \/ entry.lo < 0 /\ entry.lo >= 0 - garbled
          \/ entry.lo >= 0 /\ (entry.hi.phase = phase => head \in Posted')
    BY Zenon, <1>0, <2>1 DEF Reading
  <2>5. ASSUME qpc = "halfAgain", entry.lo >= 0, entry.hi.phase = phase PROVE lo = cq'[head].lo
    <3>1. head \in Posted
      <4>1. entry.lo < 0 \/ (entry.hi.phase = phase => head \in Posted)
        BY ZenonT(40), <1>0, <2>5 DEF Reading
      <4>2. ~(entry.lo < 0)
        BY <2>2, <2>5
      <4> QED BY Zenon, <2>5, <4>1, <4>2
    <3> QED BY Zenon, <1>0, <2>1, <2>5, <3>1 DEF Reading
  <2>6. qpc \in {"confirm", "halfAgain"} => tries < CompletionReads
    BY Zenon, <1>0 DEF Reading
  <2> QED BY Zenon, <2>3, <2>4, <2>5, <2>6 DEF Reading
<1> QED BY Zenon, <1>9, <1>10, <1>11, <1>12, <1>13, <1>14 DEF QueueInv

-----------------------------------------------------------------------------

(* Every step of the driver and of the controller keeps the invariant.      *)
LEMMA QueueInductive == QueueInv /\ Counts /\ [QueueNext]_qvars => QueueInv'
<1> SUFFICES ASSUME QueueInv, Counts, [QueueNext]_qvars PROVE QueueInv'
  BY Zenon
<1>1. CASE UNCHANGED qvars
  <2>1. Still /\ done' = done /\ sqdb' = sqdb /\ UNCHANGED <<qpc, job, lo, entry, tries, garbled, closing>>
    BY Zenon, <1>1 DEF qvars, Still
  <2>2. /\ Rings' /\ Counted' /\ Honest' /\ Once' /\ outstanding' = {issued'[s] : s \in InFlight'}
        /\ Live' \subseteq Live /\ CmdCount' = CmdCount /\ Posted' = Posted
    BY Zenon, <2>1, StillKeeps
  <2>3. QueueTypeOK'
    BY Zenon, <2>1 DEF QueueInv, QueueTypeOK, Still
  <2>4. Recent'
    BY Zenon, <2>1, <2>2 DEF QueueInv, Recent, Batch, Still
  <2>5. Reading'
    BY Zenon, <2>1, <2>2 DEF QueueInv, Reading, Still
  <2>6. Progress'
    BY Zenon, <2>1, <2>2 DEF QueueInv, Progress
  <2> QED BY Zenon, <2>2, <2>3, <2>4, <2>5, <2>6 DEF QueueInv
<1>2. CASE Submit
  BY Zenon, <1>2, SubmitKeeps
<1>3. CASE Ring \/ ReapTimeout
  BY Zenon, <1>3, RingKeeps
<1>4. CASE ReadLow
  BY Zenon, <1>4, ReadLowKeeps
<1>5. CASE ReadHigh
  BY Zenon, <1>5, ReadHighKeeps
<1>6. CASE Reaped
  BY Zenon, <1>6, ReapedKeeps
<1>7. CASE CloseAfterStop
  BY Zenon, <1>7, CloseKeeps
<1>8. CASE Fetch
  BY Zenon, <1>8, FetchKeeps
<1>9. CASE \E c \in dev.active, status \in Status : Post(c, status)
  BY Zenon, <1>9, PostKeeps
<1> QED BY Zenon, <1>1, <1>2, <1>3, <1>4, <1>5, <1>6, <1>7, <1>8, <1>9 DEF QueueNext

-----------------------------------------------------------------------------
(* The window writer. *)

Version == {"before", "after"}
Writers == {"apply", "restore"}

(* What a run that is about to report PASS has left behind. *)
Done ==
  /\ mode = "probe" => scratch = original
  /\ mode = "check" => header = "before"
  /\ mode \in Writers => header = Wanted /\ \A e \in Extent : extents[e] = Wanted

(* The order of a run: the header is zero from before the first extent is   *)
(* written until after the last one was verified, only a probe writes the   *)
(* scratch range, and only a probed apply or restore gets to the container. *)
Order ==
  /\ wpc \in {"extent", "verify", "publish"} => header = "zero"
  /\ wpc = "publish" => \A e \in Extent : extents[e] = Wanted
  /\ wpc = "baseline" => mode # "probe" /\ (mode # "restore" => header = "before")
  /\ wpc \in {"invalidate", "extent", "verify", "publish"} => mode \in Writers
  /\ wpc \in {"saveScratch", "scratchWrite", "scratchRestore"} => mode = "probe"
  /\ wpc # "off" /\ mode \in Writers => probed
  /\ wpc = "finish" => Done
  /\ wpc \in {"cleanup", "end"} /\ result = "PASS" => Done

WindowInv == TypeOK /\ HeaderVouches /\ Order

-----------------------------------------------------------------------------
(* Where the two versions of the header and the extents come from. *)
LEMMA WantedIs == TypeOK => Wanted \in Version
  BY Zenon DEF Wanted, Version

(* A write to the scratch range leaves the container alone. *)
LEMMA PutScratch ==
  ASSUME WindowInv, NEW v, Put(v), wpc \in {"scratchWrite", "scratchRestore"}
  PROVE  scratch' = v /\ header' = header /\ extents' = extents
  BY Zenon DEF Put

(* A write to the header leaves the rest alone. *)
LEMMA PutHeader ==
  ASSUME WindowInv, NEW v, Put(v), wpc \in {"invalidate", "publish"}
  PROVE  header' = v /\ extents' = extents /\ scratch' = scratch
  BY Zenon DEF Put

(* A write to an extent leaves the other extents and the header alone.      *)
LEMMA PutExtent ==
  ASSUME WindowInv, NEW v, Put(v), wpc = "extent"
  PROVE  extents' = [extents EXCEPT ![at] = v] /\ header' = header /\ scratch' = scratch
  BY Zenon DEF Put

(* The disk after a write of the current step, finished or not: what it     *)
(* holds has its type, the header vouches, and only the steps of apply and  *)
(* restore have touched the container.                                      *)
Stored ==
  /\ header' \in {"before", "after", "zero", "torn"}
  /\ extents' \in [Extent -> {"before", "after", "torn"}]
  /\ scratch' \in {"first", "pattern", "torn"}
  /\ HeaderVouches'
  /\ wpc \notin {"invalidate", "extent", "publish"} => header' = header /\ extents' = extents
  /\ wpc \notin {"invalidate", "publish"} => header' = header
  /\ wpc # "extent" => extents' = extents

(* A write in hand stores what it was to write, what was there, or rubbish: *)
(* never a header over extents of another version.                          *)
LEMMA PutStores ==
  ASSUME WindowInv, wpc \in Writing, NEW v \in {Payload, Held, "torn"}, Put(v)
  PROVE  Stored
<1>0. /\ TypeOK /\ HeaderVouches /\ Order /\ Wanted \in Version
      /\ scratch \in {"first", "pattern", "torn"} /\ original \in {"first", "pattern", "torn"}
      /\ header \in {"before", "after", "zero", "torn"} /\ at \in Extent
      /\ extents \in [Extent -> {"before", "after", "torn"}]
  BY Zenon, WantedIs DEF WindowInv, TypeOK
<1>1. CASE wpc \in {"scratchWrite", "scratchRestore"}
  <2>1. v \in {"first", "pattern", "torn"}
    BY Zenon, <1>0, <1>1 DEF Payload, Held
  <2> QED BY Zenon, <1>0, <1>1, <2>1, PutScratch DEF Stored, HeaderVouches
<1>2. CASE wpc = "invalidate"
  <2>1. v \in {"zero", "torn", header}
    BY Zenon, <1>2 DEF Payload, Held
  <2> QED BY Zenon, <1>0, <1>2, <2>1, PutHeader DEF Stored, HeaderVouches
<1>3. CASE wpc = "publish"
  <2>1. v \in {Wanted, "torn", "zero"} /\ \A e \in Extent : extents[e] = Wanted
    BY Zenon, <1>0, <1>3 DEF Payload, Held, Order
  <2>2. header' = v /\ extents' = extents /\ scratch' = scratch
    BY Zenon, <1>3, PutHeader
  <2> QED BY Zenon, <1>0, <1>3, <2>1, <2>2 DEF Stored, HeaderVouches, Version
<1>4. CASE wpc = "extent"
  <2>1. v \in {"before", "after", "torn"} /\ header = "zero"
    BY Zenon, <1>0, <1>4 DEF Payload, Held, Order, Version
  <2>2. extents' = [extents EXCEPT ![at] = v] /\ header' = header /\ scratch' = scratch
    BY Zenon, <1>4, PutExtent
  <2>3. extents' \in [Extent -> {"before", "after", "torn"}]
    BY Zenon, <1>0, <2>1, <2>2
  <2> QED BY Zenon, <1>0, <1>4, <2>1, <2>2, <2>3 DEF Stored, HeaderVouches
<1> QED BY Zenon, <1>1, <1>2, <1>3, <1>4 DEF Writing

(* The write of a step that completes and reads back right. *)
LEMMA WriteKeeps == ASSUME WindowInv, Write PROVE WindowInv' /\ Stored
<1>1. PICK v \in {Payload} \cup (IF faults < MaxFaults THEN {"torn"} ELSE {}) :
        Put(v) /\ IF ReadBack(v) THEN Goto(AfterWrite) ELSE Refuse
  BY Zenon DEF Write
<1>2. /\ wpc \in Writing /\ at' = (IF wpc = "extent" /\ at < Extents THEN at + 1 ELSE at)
      /\ UNCHANGED <<original, mode, ranges, probed, guard, runs>>
  BY Zenon DEF Write
<1>3. v \in {Payload, "torn"}
  BY Zenon, <1>1
<1>4. Stored
  BY Zenon, <1>1, <1>2, <1>3, PutStores
<1>5. /\ TypeOK /\ Order /\ Wanted' = Wanted /\ Extents \in Nat /\ at \in Extent /\ at' \in Extent
  <2>1. TypeOK /\ Order /\ at \in Extent
    BY Zenon DEF WindowInv, TypeOK
  <2>2. at' \in Extent
    BY <1>2, <2>1, WindowAssumption DEF Extent
  <2> QED BY Zenon, <1>2, <2>1, <2>2, WindowAssumption DEF Wanted
<1>6. result' \in {"NONE", "RUNNING", "PASS", "FAIL"}
  BY Zenon, <1>1, <1>5 DEF Goto, Refuse, TypeOK
<1>7. TypeOK'
  <2>1. {scratch', original'} \subseteq {"first", "pattern", "torn"}
    BY Zenon, <1>2, <1>4, <1>5 DEF Stored, TypeOK
  <2> QED BY Zenon, <1>2, <1>4, <1>5, <1>6, <2>1 DEF Stored, TypeOK
<1>8. CASE ~ReadBack(v)
  <2>1. wpc' = "cleanup" /\ result' = "FAIL" /\ mode' = mode /\ probed' = probed /\ wpc # "off"
    BY Zenon, <1>1, <1>2, <1>8 DEF Refuse, Writing
  <2>2. Order'
    BY Zenon, <1>5, <2>1 DEF Order
  <2> QED BY Zenon, <1>4, <1>7, <2>2 DEF WindowInv, Stored
<1>9. CASE ReadBack(v)
  <2>0. /\ wpc' = AfterWrite /\ result' = result /\ v = Payload /\ mode' = mode /\ probed' = probed
        /\ wpc # "off"
    BY Zenon, <1>1, <1>2, <1>9 DEF Goto, ReadBack, Writing
  <2>p. mode' \in Writers => probed'
    BY Zenon, <1>5, <2>0 DEF Order
  <2>1. CASE wpc = "scratchWrite"
    <3>1. wpc' = "scratchRestore" /\ mode' = "probe"
      BY Zenon, <1>5, <2>0, <2>1 DEF AfterWrite, Order
    <3> QED BY Zenon, <1>4, <1>7, <3>1 DEF WindowInv, Stored, Order, Writers
  <2>2. CASE wpc = "scratchRestore"
    <3>1. wpc' = "finish" /\ mode' = "probe" /\ scratch' = original /\ original' = original
      BY Zenon, <1>1, <1>2, <1>5, <2>0, <2>2, PutScratch DEF AfterWrite, Order, Payload
    <3>2. Done'
      BY Zenon, <3>1 DEF Done, Writers
    <3> QED BY Zenon, <1>4, <1>7, <3>1, <3>2 DEF WindowInv, Stored, Order, Writers
  <2>3. CASE wpc = "invalidate"
    <3>1. wpc' = "extent" /\ mode' \in Writers /\ header' = "zero"
      BY Zenon, <1>1, <1>5, <2>0, <2>3, PutHeader DEF AfterWrite, Order, Payload
    <3> QED BY Zenon, <1>4, <1>7, <2>p, <3>1 DEF WindowInv, Stored, Order
  <2>4. CASE wpc = "extent"
    <3>1. wpc' \in {"extent", "verify"}
      <4>1. at < Extents \/ at = Extents
        BY <1>5 DEF Extent
      <4> QED BY Zenon, <2>0, <2>4, <4>1 DEF AfterWrite
    <3>2. mode' \in Writers /\ header' = "zero"
      BY Zenon, <1>1, <1>5, <2>0, <2>4, PutExtent DEF Order
    <3> QED BY Zenon, <1>4, <1>7, <2>p, <3>1, <3>2 DEF WindowInv, Stored, Order
  <2>5. CASE wpc = "publish"
    <3>1. /\ wpc' = "finish" /\ mode' \in Writers /\ header' = Wanted /\ extents' = extents
          /\ \A e \in Extent : extents[e] = Wanted
      BY Zenon, <1>1, <1>5, <2>0, <2>5, PutHeader DEF AfterWrite, Order, Payload
    <3>2. Done'
      BY Zenon, <1>5, <3>1 DEF Done, Writers
    <3> QED BY Zenon, <1>4, <1>7, <2>p, <3>1, <3>2 DEF WindowInv, Stored, Order
  <2> QED BY Zenon, <1>2, <2>1, <2>2, <2>3, <2>4, <2>5 DEF Writing
<1> QED BY Zenon, <1>4, <1>8, <1>9

(* A step that fails with a write in hand, or without one. *)
LEMMA UnfinishedStores == ASSUME WindowInv, Unfinished PROVE Stored
<1>1. CASE wpc \in Writing
  <2>1. PICK v \in {Held, Payload, "torn"} : Put(v)
    BY Zenon, <1>1 DEF Unfinished
  <2> QED BY Zenon, <1>1, <2>1, PutStores
<1>2. CASE wpc \notin Writing
  BY Zenon, <1>2 DEF Unfinished, disk, WindowInv, TypeOK, Stored, HeaderVouches
<1> QED BY Zenon, <1>1, <1>2

(* A failed command, a lost link or a power cut: the run ends where it is.  *)
LEMMA FailKeeps == ASSUME WindowInv, Fail \/ PowerCut PROVE WindowInv' /\ Stored
<1>1. Stored
  BY Zenon, UnfinishedStores DEF Fail, PowerCut
<1>2. /\ UNCHANGED <<original, mode, at, probed>>
      /\ wpc' = "off" \/ (wpc' = "cleanup" /\ result' = "FAIL" /\ wpc # "off")
  BY Zenon DEF Fail, PowerCut, Refuse, Writing
<1>3. TypeOK'
  <2>1. /\ result' \in {"NONE", "RUNNING", "PASS", "FAIL"} /\ guard' \in BOOLEAN
        /\ ranges' \subseteq {"header", "extents", "scratch"}
    BY Zenon DEF Fail, PowerCut, Refuse, WindowInv, TypeOK
  <2> QED BY Zenon, <1>1, <1>2, <2>1 DEF WindowInv, TypeOK, Stored
<1>4. Order'
  BY Zenon, <1>2 DEF WindowInv, Order
<1> QED BY Zenon, <1>1, <1>3, <1>4 DEF WindowInv, Stored

(* Every other step of a run leaves the disk alone. *)
LEMMA OthersKeep ==
  ASSUME WindowInv,
         \/ Start \/ BringUp \/ CheckHeader \/ SaveScratch \/ Baseline \/ Verify \/ Finish
         \/ Cleanup \/ Record
  PROVE  WindowInv' /\ UNCHANGED <<header, extents, scratch>>
<1>0. TypeOK /\ HeaderVouches /\ Order
  BY Zenon DEF WindowInv
<1>1. UNCHANGED <<header, extents, scratch>>
  BY Zenon DEF Start, BringUp, CheckHeader, SaveScratch, Baseline, Verify, Finish, Cleanup, Record, disk
<1>2. TypeOK'
  <2>0. mode \in Mode /\ at \in Extent /\ 1 \in Extent /\ scratch \in {"first", "pattern", "torn"}
        /\ original \in {"first", "pattern", "torn"} /\ ranges \subseteq {"header", "extents", "scratch"}
    BY <1>0, WindowAssumption DEF TypeOK, Extent
  <2>1. /\ mode' \in Mode /\ at' \in Extent /\ original' \in {"first", "pattern", "torn"}
        /\ ranges' \subseteq {"header", "extents", "scratch"}
    <3>1. CASE Start
      BY Zenon, <2>0, <3>1 DEF Start
    <3>2. CASE BringUp
      BY Zenon, <2>0, <3>2 DEF BringUp
    <3>3. CASE CheckHeader \/ Baseline \/ Verify
      BY Zenon, <2>0, <3>3 DEF CheckHeader, Baseline, Verify
    <3>4. CASE SaveScratch
      BY Zenon, <2>0, <3>4 DEF SaveScratch
    <3>5. CASE Finish \/ Cleanup \/ Record
      BY Zenon, <2>0, <3>5 DEF Finish, Cleanup, Record
    <3> QED BY Zenon, <3>1, <3>2, <3>3, <3>4, <3>5
  <2>2. result' \in {"NONE", "RUNNING", "PASS", "FAIL"} /\ probed' \in BOOLEAN /\ guard' \in BOOLEAN
    BY Zenon, <1>0 DEF TypeOK, Start, BringUp, CheckHeader, SaveScratch, Baseline, Verify,
      Finish, Cleanup, Record, Refuse, Goto, disk
  <2> QED BY Zenon, <1>0, <1>1, <2>1, <2>2 DEF TypeOK
<1>3. HeaderVouches'
  BY Zenon, <1>0, <1>1 DEF HeaderVouches
<1>4. Order'
  <2>1. CASE Start
    <3>1. wpc' = "bringup" /\ (mode' \in Writers => probed')
      BY Zenon, <2>1 DEF Start, ProbeRequired, Writers
    <3> QED BY Zenon, <3>1 DEF Order
  <2>2. CASE BringUp
    BY Zenon, <1>0, <2>2 DEF BringUp, Order
  <2>3. CASE CheckHeader
    <3>1. /\ UNCHANGED <<header, mode, probed>> /\ wpc = "header"
          /\ \/ wpc' = "saveScratch" /\ mode = "probe"
             \/ wpc' = "baseline" /\ mode # "probe" /\ header \in Accepted
             \/ wpc' = "cleanup" /\ result' = "FAIL"
      BY Zenon, <2>3 DEF CheckHeader, Goto, Refuse, disk
    <3> QED BY Zenon, <1>0, <3>1 DEF Order, Accepted
  <2>4. CASE SaveScratch
    BY Zenon, <1>0, <2>4 DEF SaveScratch, Goto, Order, Writers
  <2>5. CASE Baseline
    <3>1. /\ UNCHANGED <<header, extents, scratch, original, mode, probed>> /\ wpc = "baseline"
          /\ \/ wpc' = "finish" /\ mode = "check"
             \/ wpc' = "invalidate" /\ mode # "check"
             \/ wpc' = "cleanup" /\ result' = "FAIL"
      BY Zenon, <2>5 DEF Baseline, Goto, Refuse, disk
    <3>2. mode # "probe" /\ mode \in Mode /\ (mode = "check" => header = "before")
          /\ (mode \in Writers => probed)
      BY Zenon, <1>0, <3>1 DEF Order, TypeOK
    <3>3. mode = "check" => Done'
      BY Zenon, <3>1, <3>2 DEF Done, Writers
    <3> QED BY Zenon, <3>1, <3>2, <3>3 DEF Order, Mode, Writers
  <2>6. CASE Verify
    <3>1. /\ UNCHANGED <<header, extents, mode, probed>> /\ wpc = "verify"
          /\ \/ wpc' = "publish" /\ \A e \in Extent : extents[e] = Wanted
             \/ wpc' = "cleanup" /\ result' = "FAIL"
      BY Zenon, <2>6 DEF Verify, Goto, Refuse, disk
    <3> QED BY Zenon, <1>0, <3>1 DEF Order, Wanted
  <2>7. CASE Finish \/ Cleanup
    <3>1. /\ UNCHANGED <<header, extents, scratch, original, mode, probed>> /\ wpc # "off"
          /\ wpc' \in {"cleanup", "end"} /\ (result' = "PASS" => Done)
      BY Zenon, <1>0, <2>7 DEF Finish, Cleanup, Order, disk
    <3>2. Done => Done'
      BY Zenon, <3>1 DEF Done, Wanted
    <3> QED BY Zenon, <1>0, <3>1, <3>2 DEF Order
  <2>8. CASE Record
    BY Zenon, <2>8 DEF Record, Order
  <2> QED BY Zenon, <2>1, <2>2, <2>3, <2>4, <2>5, <2>6, <2>7, <2>8
<1> QED BY Zenon, <1>1, <1>2, <1>3, <1>4 DEF WindowInv

(* Nothing of a step touches the container before a probe has passed. *)
Qualified == <<header, extents>>' # <<header, extents>> => probed

(* Every step keeps the invariant, and writes only what it may. *)
LEMMA WindowInductive == WindowInv /\ [Next]_wvars => WindowInv' /\ [Qualified]_wvars
<1> SUFFICES ASSUME WindowInv, [Next]_wvars PROVE WindowInv' /\ [Qualified]_wvars
  BY Zenon
<1>1. Stored => Qualified
  BY Zenon DEF Stored, Qualified, WindowInv, Order
<1>2. CASE Write
  BY Zenon, <1>1, <1>2, WriteKeeps
<1>3. CASE Fail \/ PowerCut
  BY Zenon, <1>1, <1>3, FailKeeps
<1>4. CASE \/ Start \/ BringUp \/ CheckHeader \/ SaveScratch \/ Baseline \/ Verify \/ Finish
           \/ Cleanup \/ Record
  BY Zenon, <1>4, OthersKeep DEF Qualified
<1>5. CASE UNCHANGED wvars
  BY <1>5 DEF wvars, WindowInv, TypeOK, HeaderVouches, Order, Done, Wanted
<1> QED BY Zenon, <1>2, <1>3, <1>4, <1>5 DEF Next

(* The invariant holds before the first run. *)
LEMMA WindowInit == Init => WindowInv
<1> SUFFICES ASSUME Init PROVE WindowInv
  BY Zenon
<1>1. 1 \in Extent
  BY WindowAssumption DEF Extent
<1>2. TypeOK
  BY Zenon, <1>1 DEF Init, TypeOK, Mode
<1>3. HeaderVouches
  BY Zenon DEF Init, HeaderVouches
<1>4. Order
  BY Zenon DEF Init, Order
<1> QED BY Zenon, <1>2, <1>3, <1>4 DEF WindowInv

-----------------------------------------------------------------------------
(* Wherever writes fail or are torn and the power is cut, over any number   *)
(* of runs, nvme_window's zero, extents, verify, publish order never leaves *)
(* a header of one version with a block of another.                         *)
THEOREM HeaderAlwaysVouches == Spec => []HeaderVouches
<1>1. WindowInv => HeaderVouches
  BY Zenon DEF WindowInv
<1> QED BY <1>1, WindowInit, WindowInductive, PTL DEF Spec

(* A run recorded as PASS has left what its mode promises: the scratch      *)
(* bytes put back, the old header, or the wanted container and header.      *)
THEOREM PassIsDone == Spec => []PassMeansDone
<1>1. WindowInv => PassMeansDone
  <2> SUFFICES ASSUME WindowInv, wpc = "end", result = "PASS"
               PROVE  CASE mode = "probe" -> scratch = original
                        [] mode = "check" -> header = "before"
                        [] OTHER -> header = Wanted /\ \A e \in Extent : extents[e] = Wanted
    BY Zenon DEF PassMeansDone
  <2>1. Done /\ mode \in Mode
    BY Zenon DEF WindowInv, Order, TypeOK
  <2> QED BY Zenon, <2>1 DEF Done, Mode, Writers
<1> QED BY <1>1, WindowInit, WindowInductive, PTL DEF Spec

(* No step changes the container or its header before a probe has passed on *)
(* this SSD, although runs are cut and repeated at will.                    *)
THEOREM AlwaysProbedFirst == Spec => ProbedFirst
<1>1. [][Qualified]_wvars => ProbedFirst
  BY PTL DEF ProbedFirst, Qualified
<1> QED BY <1>1, WindowInit, WindowInductive, PTL DEF Spec

(* The types of the tool's state and of the disk. *)
THEOREM WindowTypes == Spec => []TypeOK
<1>1. WindowInv => TypeOK
  BY Zenon DEF WindowInv
<1> QED BY <1>1, WindowInit, WindowInductive, PTL DEF Spec

-----------------------------------------------------------------------------
(* The invariant is more than what is promised: identifiers of commands     *)
(* that still matter are apart, so serials and identifiers correspond.      *)
LEMMA QueueInvMatches == QueueInv => CompletionsMatch
<1> SUFFICES ASSUME QueueInv PROVE CompletionsMatch
  BY Zenon
<1>0. QueueTypeOK /\ Counted /\ Honest /\ Once /\ Recent /\ Progress
  BY Zenon DEF QueueInv
<1>1. CmdCount \in Nat /\ MaxCid \in Nat
  BY <1>0, QueueAssumption DEF QueueTypeOK, CmdCount
<1>2. OwnCompletion
  <2> SUFFICES ASSUME NEW d \in done
               PROVE  /\ d.ser \in 1 .. CmdCount /\ issued[d.ser] = d.cid
                      /\ \A s \in d.ser + 1 .. CmdCount : issued[s] # d.cid
    BY ZenonT(40) DEF OwnCompletion
  <2>1. d.ser \in 1 .. CmdCount /\ issued[d.ser] = d.cid
    BY Zenon, <1>0 DEF Honest, Genuine
  <2>2. CmdCount - d.ser < MaxCid
    BY Zenon, <1>0, LiveRecent DEF Live
  <2>3. ASSUME NEW s \in d.ser + 1 .. CmdCount, issued[s] = d.cid PROVE FALSE
    <3>1. s \in 1 .. CmdCount /\ CmdCount - s < MaxCid /\ s # d.ser
      BY <1>1, <2>1, <2>2
    <3> QED BY Zenon, <1>0, <2>1, <2>2, <2>3, <3>1, CidsApart
  <2> QED BY ZenonT(40), <2>1, <2>3
<1>3. Cardinality(InFlight) = Cardinality(outstanding)
  <2> DEFINE f == [s \in InFlight |-> issued[s]]
  <2>1. \A s \in InFlight : s \in 1 .. CmdCount /\ CmdCount - s < MaxCid
    BY Zenon, <1>0, LiveRecent DEF Live
  <2>2. IsFiniteSet(InFlight)
    <3>1. IsFiniteSet(1 .. CmdCount) /\ InFlight \subseteq 1 .. CmdCount
      BY <1>1, <2>1, FS_Interval
    <3> QED BY ZenonT(40), <3>1, FS_Subset
  <2>3. f \in Surjection(InFlight, outstanding)
    BY Zenon, <1>0 DEF Progress, Surjection
  <2>4. f \in Injection(InFlight, outstanding)
    <3>1. ASSUME NEW s \in InFlight, NEW t \in InFlight, f[s] = f[t] PROVE s = t
      BY Zenon, <1>0, <2>1, <3>1, CidsApart
    <3> QED BY Zenon, <2>3, <3>1 DEF Surjection, Injection, IsInjective
  <2> HIDE DEF f
  <2> QED BY Zenon, <2>2, <2>3, <2>4, FS_Surjection
<1> QED BY Zenon, <1>0, <1>2, <1>3 DEF CompletionsMatch, NothingLost, Progress

-----------------------------------------------------------------------------
(* _submit. *)

(* A ring that is full but for one slot holds Entries - 1 commands. *)
LEMMA ArcFull ==
  ASSUME NEW b \in Slot
  PROVE  IsFiniteSet(Between(Inc(b), b)) /\ Cardinality(Between(Inc(b), b)) = Entries - 1
<1>0. Slot \subseteq Int /\ Entries \in Nat /\ Entries > 1 /\ \A i \in Slot : 0 <= i /\ i < Entries
  BY QueueAssumption DEF Slot
<1>1. Inc(b) = (IF b = Entries - 1 THEN 0 ELSE b + 1) /\ Inc(b) \in Slot
  BY Zenon, IncIs
<1>2. Between(Inc(b), b) = Slot \ {b}
  <2>1. ASSUME NEW i \in Slot PROVE i \in Between(Inc(b), b) <=> i # b
    BY <1>0, <1>1 DEF Between
  <2> QED BY Zenon, <2>1 DEF Between
<1>3. IsFiniteSet(Slot) /\ Cardinality(Slot) = Entries
  BY <1>0, FS_Interval DEF Slot
<1> QED BY <1>0, <1>2, <1>3, FS_RemoveElement

(* The identifiers of the commands in a row are as many as the commands.    *)
LEMMA RowOfCids ==
  ASSUME QueueTypeOK, Counted, NEW b \in 0 .. CmdCount, CmdCount - b <= MaxCid
  PROVE  LET T == {issued[s] : s \in b + 1 .. CmdCount}
         IN  IsFiniteSet(T) /\ Cardinality(T) = CmdCount - b
<1> DEFINE S == b + 1 .. CmdCount
           T == {issued[s] : s \in S}
           f == [s \in S |-> issued[s]]
<1>0. CmdCount \in Nat /\ b \in Nat /\ MaxCid \in Nat
  BY QueueAssumption DEF QueueTypeOK, CmdCount
<1>1. IsFiniteSet(S) /\ Cardinality(S) = CmdCount - b
  <2>1. IsFiniteSet(S) /\ Cardinality(S) = IF b + 1 > CmdCount THEN 0 ELSE CmdCount - (b + 1) + 1
    <3>1. b + 1 \in Int /\ CmdCount \in Int
      BY <1>0
    <3> HIDE DEF CmdCount
    <3> QED BY ONLY <3>1, FS_Interval
  <2> QED BY <1>0, <2>1
<1>2. f \in Surjection(S, T)
  BY Zenon DEF Surjection
<1>3. f \in Injection(S, T)
  <2>1. ASSUME NEW s \in S, NEW t \in S, f[s] = f[t] PROVE s = t
    <3>1. s \in 1 .. CmdCount /\ t \in 1 .. CmdCount /\ CmdCount - s < MaxCid /\ CmdCount - t < MaxCid
      BY <1>0
    <3>2. issued[s] = issued[t]
      BY Zenon, <2>1
    <3> QED BY Zenon, <3>1, <3>2, CidsApart
  <2> QED BY Zenon, <1>2, <2>1 DEF Surjection, Injection, IsInjective
<1>4. IsFiniteSet(T) /\ Cardinality(T) = Cardinality(S)
  <2> HIDE DEF S, T, f
  <2> QED BY Zenon, <1>1, <1>2, <1>3, FS_Surjection
<1> QED BY Zenon, <1>1, <1>4

(* With a free slot left the tail does not run into the controller's head.  *)
LEMMA RoomIsFree == ASSUME QueueInv, HasRoom PROVE Inc(tail) # dev.head
<1> SUFFICES ASSUME Inc(tail) = dev.head PROVE FALSE
  BY Zenon
<1>0. QueueTypeOK /\ Counted /\ Honest /\ Once /\ Recent /\ Progress
  BY Zenon DEF QueueInv
<1> DEFINE f == [i \in Waiting |-> sq[i].cid]
<1>1. tail \in Slot /\ Entries \in Nat /\ outstanding \subseteq Cid /\ MaxCid \in Nat
  BY Zenon, <1>0, QueueAssumption DEF QueueTypeOK
<1>2. IsFiniteSet(Waiting) /\ Cardinality(Waiting) = Entries - 1
  BY Zenon, <1>1, ArcFull DEF Waiting
<1>3. IsFiniteSet(outstanding) /\ Cardinality(outstanding) \in Nat
  <2>1. IsFiniteSet(Cid)
    BY <1>1, FS_Interval DEF Cid
  <2> QED BY Zenon, <1>1, <2>1, FS_Subset, FS_CardinalityType
<1>4. ASSUME NEW i \in Waiting
      PROVE  sq[i].ser \in InFlight /\ issued[sq[i].ser] = sq[i].cid /\ sq[i].cid \in outstanding
  BY Zenon, <1>0 DEF Honest, Genuine, Progress, InFlight, Waiting
<1>5. ASSUME NEW i \in Waiting, NEW j \in Waiting, sq[i].cid = sq[j].cid PROVE i = j
  <2>1. /\ sq[i].ser \in 1 .. CmdCount /\ CmdCount - sq[i].ser < MaxCid
        /\ sq[j].ser \in 1 .. CmdCount /\ CmdCount - sq[j].ser < MaxCid
    BY Zenon, <1>0, <1>4, LiveRecent DEF Live
  <2>2. sq[i].ser = sq[j].ser
    BY Zenon, <1>0, <1>4, <1>5, <2>1, CidsApart
  <2> QED BY Zenon, <1>0, <2>2 DEF Once
<1>6. f \in Injection(Waiting, outstanding)
  BY Zenon, <1>4, <1>5 DEF Injection, IsInjective
<1>7. Cardinality(Waiting) <= Cardinality(outstanding)
  <2> HIDE DEF f
  <2> QED BY Zenon, <1>3, <1>6, FS_Injection
<1> QED BY <1>1, <1>2, <1>3, <1>7 DEF HasRoom

(* What SubmitKeeps asks of the sizes follows from the invariant. *)
LEMMA CountsHold == QueueInv => Counts
<1> SUFFICES ASSUME QueueInv PROVE Counts
  BY Zenon
<1>1. QueueTypeOK /\ Counted /\ Slots \in Nat /\ MaxCid \in Nat /\ Slots + 2 <= MaxCid /\ CmdCount \in Nat
  <2>1. QueueTypeOK /\ Counted
    BY Zenon DEF QueueInv
  <2>2. CmdCount \in Nat
    BY <2>1 DEF QueueTypeOK, CmdCount
  <2> QED BY Zenon, <2>1, <2>2, QueueAssumption
<1>2. HasRoom => Inc(tail) # dev.head
  BY Zenon, RoomIsFree
<1>3. ASSUME NEW b \in 0 .. CmdCount, Batch(b) PROVE Cardinality(job) = CmdCount - b
  <2>1. CmdCount - b <= MaxCid /\ job = {issued[s] : s \in b + 1 .. CmdCount}
    BY <1>1, <1>3 DEF Batch
  <2> QED BY Zenon, <1>1, <2>1, RowOfCids
<1>4. ASSUME Cardinality(job) < 1 PROVE job = {}
  <2>1. IsFiniteSet(Cid) /\ job \subseteq Cid
    BY <1>1, FS_Interval DEF QueueTypeOK, Cid
  <2>2. IsFiniteSet(job) /\ Cardinality(job) \in Nat
    BY Zenon, <2>1, FS_Subset, FS_CardinalityType
  <2>3. Cardinality(job) = 0
    BY <1>4, <2>2
  <2> QED BY Zenon, <2>2, <2>3, FS_EmptySet
<1> QED BY Zenon, <1>2, <1>3, <1>4 DEF Counts

(* Whatever the size of the rings and however reads are torn or garbled,    *)
(* _reap hands its caller the completion of the very command it waited for, *)
(* and the identifiers outstanding are exactly those of the commands in     *)
(* flight, one each.                                                        *)
THEOREM CompletionsAreOwn == QueueSpec => []CompletionsMatch
BY QueueStarts, CountsHold, QueueInductive, QueueInvMatches, PTL DEF QueueSpec

(* The driver's cursors stay inside the rings, an entry is read again at    *)
(* most COMPLETION_READS times, and the clean-up sends at most two commands. *)
THEOREM QueueTypes == QueueSpec => []QueueTypeOK
<1>1. QueueInv => QueueTypeOK
  BY Zenon DEF QueueInv
<1> QED BY <1>1, QueueStarts, CountsHold, QueueInductive, PTL DEF QueueSpec
=============================================================================
