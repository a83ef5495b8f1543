---------------------------- MODULE NvmeQueues ----------------------------
(***************************************************************************)
(* One submission/completion queue pair of tools/nvme_m3.py: commands are  *)
(* written to the ring by _submit, announced by _ring and collected by     *)
(* _reap, while the controller fetches and completes them in any order.    *)
(* The completion ring is read over the proxy with unchecked live reads,   *)
(* so one read can be torn (its halves taken at different moments) or      *)
(* garbled on the wire.                                                    *)
(***************************************************************************)
EXTENDS Integers, FiniteSets, Sequences

CONSTANTS Entries,          \* ADMIN_ENTRIES or IO_ENTRIES
          MaxCid,           \* command identifiers run 1..MaxCid (0xFFFF in the code)
          Slots,            \* commands in flight in one batch (Layout.slots)
          CompletionReads,  \* COMPLETION_READS
          MaxCmds,          \* bound: commands issued before the tool ends
          MaxGarbled        \* bound: live reads garbled on the wire

\* The code's values: rings of 32 and 64 entries, at most 8 slots, 65535 identifiers.  Two more
\* commands than a batch can be in flight, so that many identifiers must be apart.
ASSUME QueueAssumption ==
    /\ Entries \in Nat /\ Entries > 1 /\ Slots \in Nat \ {0}
    /\ MaxCid \in Nat /\ Slots + 2 <= MaxCid
    /\ CompletionReads \in Nat \ {0} /\ MaxCmds \in Nat /\ MaxGarbled \in Nat

VARIABLES sq, tail, nextCid, outstanding, head, phase,  \* class Queue
          sqdb, cqdb,        \* the two doorbells
          cq,                \* completion ring: lo is dw0..dw2, hi is dw3
          dev,               \* the controller's own cursors and its commands in progress
          qpc, job, done,    \* _reap: what is waited for and what has come
          lo, entry, tries,  \* the read in progress, the entry to confirm
          issued, garbled, closing

qvars == <<sq, tail, nextCid, outstanding, head, phase, sqdb, cqdb, cq, dev, qpc, job, done,
           lo, entry, tries, issued, garbled, closing>>

Slot == 0 .. Entries - 1
Cid == 1 .. MaxCid
Status == 0 .. 1
Blank == [cid |-> 0, ser |-> 0]
Inc(n) == (n + 1) % Entries

\* takeover zeroes the window, so a fresh ring holds phase 0 and the host expects phase 1.
QueueInit ==
    /\ sq = [i \in Slot |-> Blank]
    /\ cq = [i \in Slot |-> [lo |-> 0, hi |-> [cid |-> 0, phase |-> 0, status |-> 0]]]
    /\ tail = 0 /\ nextCid = 1 /\ outstanding = {} /\ head = 0 /\ phase = 1
    /\ sqdb = 0 /\ cqdb = 0
    /\ dev = [head |-> 0, tail |-> 0, phase |-> 1, active |-> {}]
    /\ qpc = "idle" /\ job = {} /\ done = {}
    /\ lo = 0 /\ entry = cq[0] /\ tries = 0
    /\ issued = <<>> /\ garbled = 0 /\ closing = 0

-----------------------------------------------------------------------------
(* The driver *)

CmdCount == Len(issued)

HasRoom_OffByOne == Cardinality(outstanding) < Entries

\* A free submission slot is required: one slot always stays empty.
HasRoom == Cardinality(outstanding) < Entries - 1

\* The tail that is not taken modulo the ring's size.
Advanced_NoWrap(n) == n + 1
Advanced(n) == (n + 1) % Entries

\* _submit: write the entry at the tail and record the identifier.  Up to Slots
\* commands form a batch (timed); every other caller sends one.
Submit ==
    /\ qpc \in {"idle", "batch"} /\ CmdCount < MaxCmds /\ closing < 3
    /\ Cardinality(job) < IF closing > 0 THEN 1 ELSE Slots
    /\ IF HasRoom
       THEN /\ sq' = [sq EXCEPT ![tail] = [cid |-> nextCid, ser |-> CmdCount + 1]]
            /\ issued' = Append(issued, nextCid)
            /\ nextCid' = (nextCid % MaxCid) + 1
            /\ tail' = Advanced(tail)
            /\ outstanding' = outstanding \cup {nextCid}
            /\ job' = job \cup {nextCid}
            /\ qpc' = "batch"
       ELSE /\ qpc' = "stopped"
            /\ UNCHANGED <<sq, issued, nextCid, tail, outstanding, job>>
    /\ UNCHANGED <<head, phase, sqdb, cqdb, cq, dev, done, lo, entry, tries, garbled, closing>>

\* _ring: one doorbell write for the whole batch.
Ring ==
    /\ qpc = "batch"
    /\ sqdb' = tail /\ qpc' = "reap"
    /\ UNCHANGED <<sq, tail, nextCid, outstanding, head, phase, cqdb, cq, dev, job, done, lo, entry,
                   tries, issued, garbled, closing>>

\* A live read of the entry at the head: the two halves are loaded one after the other.
ReadLow ==
    /\ qpc \in {"reap", "confirm"}
    /\ lo' = cq[head].lo
    /\ qpc' = IF qpc = "reap" THEN "half" ELSE "halfAgain"
    /\ UNCHANGED <<sq, tail, nextCid, outstanding, head, phase, sqdb, cqdb, cq, dev, job, done, entry,
                   tries, issued, garbled, closing>>

\* What a live read returns once its second half is loaded; a garbled read is like no other read.
Readable ==
    {[lo |-> lo, hi |-> cq[head].hi]}
        \cup {[lo |-> 0 - (garbled + 1), hi |-> [cid |-> 1, phase |-> p, status |-> 0]] :
                 p \in IF garbled < MaxGarbled THEN {0, 1} ELSE {}}

\* Accept the entry: what _reap does once an entry has the expected phase.
Completed(e) ==
    /\ outstanding' = outstanding \ {e.hi.cid}
    /\ done' = {d \in done : d.cid # e.hi.cid}
                  \cup {[cid |-> e.hi.cid, ser |-> e.lo, status |-> e.hi.status]}
    /\ head' = Inc(head)
    /\ phase' = IF head' = 0 THEN 1 - phase ELSE phase
    /\ cqdb' = head'
    /\ LET came == {d.cid : d \in done'}
           failed == \E d \in done' : d.cid \in job /\ d.status # 0
       IN  qpc' = IF ~(job \subseteq came) THEN "reap" ELSE IF failed THEN "stopped" ELSE "reaped"

\* The first read of an entry: without the expected phase nothing has arrived yet.
FirstRead(e) ==
    /\ IF e.hi.phase = phase THEN qpc' = "confirm" /\ tries' = 0
                             ELSE qpc' = "reap" /\ UNCHANGED tries
    /\ entry' = e
    /\ UNCHANGED <<outstanding, done, head, phase, cqdb>>

Confirm_NewestWins(e) ==
    /\ Completed(e)
    /\ UNCHANGED <<entry, tries>>

\* A confirming read: two reads that agree are used, otherwise the newer one is confirmed next.
Confirm(e) ==
    \/ /\ e = entry /\ e.hi.phase = phase
       /\ Completed(e)
       /\ UNCHANGED <<entry, tries>>
    \/ /\ e = entry /\ e.hi.phase # phase
       /\ qpc' = "reap"
       /\ UNCHANGED <<entry, tries, outstanding, done, head, phase, cqdb>>
    \/ /\ e # entry
       /\ entry' = e /\ tries' = tries + 1
       /\ qpc' = IF tries' = CompletionReads THEN "stopped" ELSE "confirm"
       /\ UNCHANGED <<outstanding, done, head, phase, cqdb>>

ReadHigh ==
    /\ qpc \in {"half", "halfAgain"}
    /\ \E e \in Readable :
         /\ garbled' = IF e.lo < 0 THEN garbled + 1 ELSE garbled
         /\ IF qpc = "half" THEN FirstRead(e) ELSE Confirm(e)
    /\ UNCHANGED <<sq, tail, nextCid, sqdb, cq, dev, job, lo, issued, closing>>

\* _reap returns: the caller goes on to its next command.
Reaped ==
    /\ qpc = "reaped"
    /\ qpc' = "idle" /\ job' = {} /\ done' = {}
    /\ closing' = IF closing > 0 THEN closing + 1 ELSE 0
    /\ UNCHANGED <<sq, tail, nextCid, outstanding, head, phase, sqdb, cqdb, cq, dev, lo, entry, tries,
                   issued, garbled>>

\* The deadline passes with a command still missing.
ReapTimeout ==
    /\ qpc = "reap"
    /\ qpc' = "stopped"
    /\ UNCHANGED <<sq, tail, nextCid, outstanding, head, phase, sqdb, cqdb, cq, dev, job, done, lo, entry,
                   tries, issued, garbled, closing>>

\* run's finally: after a failure delete_io_queues still sends up to two admin commands,
\* the second only when the first succeeded.
CloseAfterStop ==
    /\ qpc = "stopped" /\ closing = 0
    /\ closing' = 1 /\ qpc' = "idle" /\ job' = {} /\ done' = {}
    /\ UNCHANGED <<sq, tail, nextCid, outstanding, head, phase, sqdb, cqdb, cq, dev, lo, entry, tries,
                   issued, garbled>>

-----------------------------------------------------------------------------
(* The controller *)

Fetch ==
    /\ dev.head # sqdb
    /\ dev' = [dev EXCEPT !.head = Inc(@), !.active = @ \cup {sq[dev.head]}]
    /\ UNCHANGED <<sq, tail, nextCid, outstanding, head, phase, sqdb, cqdb, cq, qpc, job, done, lo, entry,
                   tries, issued, garbled, closing>>

Post(c, status) ==
    /\ Inc(dev.tail) # cqdb
    /\ cq' = [cq EXCEPT ![dev.tail] =
                [lo |-> c.ser, hi |-> [cid |-> c.cid, phase |-> dev.phase, status |-> status]]]
    /\ dev' = [dev EXCEPT !.active = @ \ {c}, !.tail = Inc(@),
                          !.phase = IF Inc(dev.tail) = 0 THEN 1 - @ ELSE @]
    /\ UNCHANGED <<sq, tail, nextCid, outstanding, head, phase, sqdb, cqdb, qpc, job, done, lo, entry,
                   tries, issued, garbled, closing>>

QueueNext ==
    \/ Submit \/ Ring \/ ReadLow \/ ReadHigh \/ Reaped \/ ReapTimeout \/ CloseAfterStop
    \/ Fetch
    \/ \E c \in dev.active, status \in Status : Post(c, status)

QueueSpec == QueueInit /\ [][QueueNext]_qvars

-----------------------------------------------------------------------------

Half == [cid : Cid \cup {0}, phase : {0, 1}, status : Status]

QueueTypeOK ==
    /\ sq \in [Slot -> [cid : Cid \cup {0}, ser : Nat]]
    /\ cq \in [Slot -> [lo : Nat, hi : Half]]
    /\ tail \in Slot /\ head \in Slot /\ sqdb \in Slot /\ cqdb \in Slot
    /\ dev \in [head : Slot, tail : Slot, phase : {0, 1}, active : SUBSET [cid : Cid \cup {0}, ser : Nat]]
    /\ nextCid \in Cid /\ outstanding \subseteq Cid /\ job \subseteq Cid
    /\ done \subseteq [cid : Cid \cup {0}, ser : Int, status : Status]
    /\ phase \in {0, 1} /\ tries \in 0 .. CompletionReads
    /\ lo \in Nat /\ entry \in [lo : Int, hi : Half]
    /\ issued \in Seq(Cid) /\ garbled \in Nat /\ closing \in 0 .. 3
    /\ qpc \in {"idle", "batch", "reap", "half", "confirm", "halfAgain", "reaped", "stopped"}

\* What _reap hands to its caller for a command is the completion the controller posted for that
\* very command: torn and garbled live reads and late completions of a command that timed out
\* never make one command's answer pass for another's.
OwnCompletion ==
    \A d \in done : /\ d.ser \in 1 .. CmdCount
                    /\ issued[d.ser] = d.cid
                    /\ ~ \E s \in d.ser + 1 .. CmdCount : issued[s] = d.cid

\* Serials still in the submission ring, with the controller, or posted and not yet reaped.
Between(a, b) == {i \in Slot : IF a <= b THEN a <= i /\ i < b ELSE a <= i \/ i < b}
InFlight == {sq[i].ser : i \in Between(dev.head, tail)} \cup {c.ser : c \in dev.active}
                \cup {cq[i].lo : i \in Between(head, dev.tail)}

\* No command is ever lost or sent twice: the identifiers _submit holds as outstanding are exactly
\* those of the commands in the rings or in the controller, however the rings wrap.
NothingLost ==
    /\ {issued[s] : s \in InFlight} = outstanding
    /\ Cardinality(InFlight) = Cardinality(outstanding)

\* Every command _submit sent is accounted for, and its caller is given its own completion.
CompletionsMatch == OwnCompletion /\ NothingLost

=============================================================================
