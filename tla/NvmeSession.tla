---------------------------- MODULE NvmeSession ----------------------------
(***************************************************************************)
(* A session of the host tools that drive the SSD read-only:               *)
(* nvme_m3.py's read check ("m3"), its hand-over of a running controller   *)
(* to the monitor ("adopt"), and nvme_hash_compare.py ("compare").  The    *)
(* controller starts as the firmware left it.  Any step may stop the tool; *)
(* the link itself may die.                                                *)
(***************************************************************************)
EXTENDS Naturals

CONSTANTS Chunks,      \* container chunks compared, 1..Chunks
          MaxTrouble   \* bound: steps that fail, SErrors and wrong digests

VARIABLES tool,        \* which tool runs
          spc,         \* where it is
          ctl,         \* the controller: en, rdy, cfs, and whose queues it uses
          window,      \* the DMA window: "unset", "stale" or "zeroed"
          io,          \* Nvme.io: the I/O queue pair exists for the driver
          ioAt,        \* which I/O queues the controller itself has
          link,        \* the proxy link still works
          strict, was, \* the target's strict SError flag, and its value before the run
          serrors,     \* SError counters
          digests,     \* compare: per chunk what each helper returned
          status,      \* 0, or the exit code so far
          stuck,       \* the final shutdown itself failed
          trouble

svars == <<tool, spc, ctl, window, io, ioAt, link, strict, was, serrors, digests, status, stuck, trouble>>

Chunk == 1 .. Chunks
Helpers == {"replaced", "new"}

Init ==
    /\ tool = "none" /\ spc = "idle"
    /\ ctl = [en |-> TRUE, rdy |-> TRUE, cfs |-> FALSE, queues |-> "firmware"]
    /\ window = "unset" /\ io = FALSE /\ ioAt = {} /\ link = TRUE
    /\ strict = FALSE /\ was = FALSE /\ serrors = 0
    /\ digests = [h \in Helpers |-> [c \in Chunk |-> "none"]]
    /\ status = 0 /\ stuck = FALSE /\ trouble = 0

\* One of the tools is started on a controller the firmware left on, off or failed.
Start ==
    /\ spc = "idle"
    /\ tool' \in {"m3", "adopt", "compare"}
    /\ ctl' \in {[en |-> e, rdy |-> r, cfs |-> f, queues |-> "firmware"] : e, r, f \in BOOLEAN}
    /\ ctl'.rdy => ctl'.en
    /\ ctl'.cfs => ctl'.en
    /\ strict' \in BOOLEAN
    /\ spc' = "connect"
    /\ UNCHANGED <<window, io, ioAt, link, was, serrors, digests, status, stuck, trouble>>

\* main: connect, remember the guard, clear the counters, arm strict mode.
Connect ==
    /\ spc = "connect"
    /\ was' = strict /\ strict' = TRUE /\ serrors' = 0
    /\ spc' = "locate"
    /\ UNCHANGED <<tool, ctl, window, io, ioAt, link, digests, status, trouble, stuck>>

\* locate, the SMMU and the window: all of it reads, and every mismatch stops the tool before the
\* SSD is touched.
Locate ==
    /\ spc = "locate"
    /\ spc' = "takeover"
    /\ UNCHANGED <<tool, ctl, window, io, ioAt, link, strict, was, serrors, digests, status, trouble, stuck>>

Quiesce_OnlyWhenReady ==
    /\ spc = "takeover"
    /\ ctl' = IF ctl.rdy THEN [ctl EXCEPT !.en = FALSE, !.rdy = FALSE] ELSE ctl
    /\ window' = "stale"
    /\ spc' = "enable"
    /\ UNCHANGED <<tool, io, ioAt, link, strict, was, serrors, digests, status, trouble, stuck>>

\* takeover, first half: a live controller is shut down and disabled.
Quiesce ==
    /\ spc = "takeover"
    /\ ctl' = [ctl EXCEPT !.en = FALSE, !.rdy = FALSE]
    /\ window' = "stale"
    /\ spc' = "enable"
    /\ UNCHANGED <<tool, io, ioAt, link, strict, was, serrors, digests, status, trouble, stuck>>

\* takeover, second half: zero the window, program the admin queue, enable, wait for ready.
Enable ==
    /\ spc = "enable"
    /\ window' = "zeroed"
    /\ ctl' = [en |-> TRUE, rdy |-> TRUE, cfs |-> FALSE, queues |-> "tool"]
    /\ spc' = "identify"
    /\ UNCHANGED <<tool, io, ioAt, link, strict, was, serrors, digests, status, trouble, stuck>>

\* identify: admin commands and identity checks.
Identify ==
    /\ spc = "identify"
    /\ spc' = IF tool = "m3" THEN "features" ELSE "queues"
    /\ UNCHANGED <<tool, ctl, window, io, ioAt, link, strict, was, serrors, digests, status, trouble, stuck>>

\* features: the tool that reads the GPT also records the features.
Features ==
    /\ spc = "features"
    /\ spc' = "queues"
    /\ UNCHANGED <<tool, ctl, window, io, ioAt, link, strict, was, serrors, digests, status, trouble, stuck>>

\* io_queues: completion queue, then submission queue, then the driver's own Queue.
CreateCq ==
    /\ spc = "queues"
    /\ ioAt' = {"cq"} /\ spc' = "createSq"
    /\ UNCHANGED <<tool, ctl, window, io, link, strict, was, serrors, digests, status, trouble, stuck>>

CreateSq ==
    /\ spc = "createSq"
    /\ ioAt' = {"cq", "sq"} /\ io' = TRUE /\ spc' = IF tool = "compare" THEN "place" ELSE "work"
    /\ UNCHANGED <<tool, ctl, window, link, strict, was, serrors, digests, status, trouble, stuck>>

\* m3: read_gpt, compare_gpt and the timed reads; status 2 when the survey differs.
ReadGpt ==
    /\ spc = "work" /\ tool = "m3"
    /\ status' \in {0, 2}
    /\ spc' = "deleteSq"
    /\ UNCHANGED <<tool, ctl, window, io, ioAt, link, strict, was, serrors, digests, trouble, stuck>>

\* adopt: arm_window, and the record that hands the running controller over.
Arm ==
    /\ spc = "work" /\ tool = "adopt"
    /\ spc' = "guard"
    /\ UNCHANGED <<tool, ctl, window, io, ioAt, link, strict, was, serrors, digests, status, trouble, stuck>>

\* compare: arm_window finds the container, the helper is placed and a sample read.
PlaceHelper ==
    /\ spc = "place"
    /\ spc' = "work"
    /\ UNCHANGED <<tool, ctl, window, io, ioAt, link, strict, was, serrors, digests, status, trouble, stuck>>

\* compare: one pass over the chunks per helper, the replaced one first.
\* A digest of the new helper is compared with the replaced one's as soon as it is there.
HashChunk ==
    /\ spc = "work" /\ tool = "compare"
    /\ \E h \in Helpers, c \in Chunk, d \in {"right", "wrong"} :
         /\ digests[h][c] = "none"
         /\ \A b \in Chunk : b < c => digests[h][b] # "none"
         /\ h = "new" => \A b \in Chunk : digests["replaced"][b] # "none"
         /\ d = "wrong" => trouble < MaxTrouble
         /\ trouble' = IF d = "wrong" THEN trouble + 1 ELSE trouble
         /\ digests' = [digests EXCEPT ![h][c] = d]
         /\ IF h = "new" /\ d # digests["replaced"][c] THEN status' = 1 /\ spc' = "deleteSq"
                                                       ELSE UNCHANGED <<status, spc>>
    /\ UNCHANGED <<tool, ctl, window, io, ioAt, link, strict, was, serrors, stuck>>

\* Both passes are complete; --stream hashes the whole container again with each helper.
PassesDone_OnlyReplaced ==
    /\ spc = "work" /\ tool = "compare"
    /\ \A c \in Chunk : digests["replaced"][c] # "none"
    /\ spc' = "deleteSq"
    /\ UNCHANGED <<tool, ctl, window, io, ioAt, link, strict, was, serrors, digests, status, trouble, stuck>>
PassesDone ==
    /\ spc = "work" /\ tool = "compare"
    /\ \A h \in Helpers, c \in Chunk : digests[h][c] # "none"
    /\ spc' = "deleteSq"
    /\ UNCHANGED <<tool, ctl, window, io, ioAt, link, strict, was, serrors, digests, status, trouble, stuck>>

-----------------------------------------------------------------------------
(* The finally blocks *)

\* delete_io_queues does nothing unless io_queues completed.
DeleteSq ==
    /\ spc = "deleteSq"
    /\ ioAt' = IF io THEN ioAt \ {"sq"} ELSE ioAt
    /\ spc' = IF io THEN "deleteCq" ELSE "shutdown"
    /\ UNCHANGED <<tool, ctl, window, io, link, strict, was, serrors, digests, status, trouble, stuck>>

DeleteCq ==
    /\ spc = "deleteCq"
    /\ ioAt' = ioAt \ {"cq"} /\ io' = FALSE /\ spc' = "shutdown"
    /\ UNCHANGED <<tool, ctl, window, link, strict, was, serrors, digests, status, trouble, stuck>>

\* shutdown: only an enabled controller is shut down; disabling it drops every queue.
Shutdown ==
    /\ spc = "shutdown"
    /\ ctl' = [ctl EXCEPT !.en = FALSE, !.rdy = FALSE]
    /\ ioAt' = {}
    /\ spc' = "guard"
    /\ UNCHANGED <<tool, window, io, link, strict, was, serrors, digests, status, trouble, stuck>>

RestoreGuard_NoCount ==
    /\ spc = "guard"
    /\ IF link THEN strict' = was ELSE UNCHANGED strict
    /\ spc' = "exit"
    /\ UNCHANGED <<tool, ctl, window, io, ioAt, link, was, serrors, digests, status, trouble, stuck>>

\* The exit code of a tool that stopped, and of one that lost the link.
Failed == IF tool = "compare" THEN 1 ELSE 3
Lost == IF tool = "compare" THEN 1 ELSE 5

\* main's finally: read the counters, put strict mode back; a run that succeeded fails on SErrors.
RestoreGuard ==
    /\ spc = "guard"
    /\ IF link THEN /\ strict' = was
                    /\ status' = IF status = 0 /\ serrors > 0 THEN Failed ELSE status
               ELSE UNCHANGED <<strict, status>>
    /\ spc' = "exit"
    /\ UNCHANGED <<tool, ctl, window, io, ioAt, link, was, serrors, digests, trouble, stuck>>

Acting == {"locate", "takeover", "enable", "identify", "features", "queues", "createSq", "place", "work", "deleteSq", "deleteCq",
           "shutdown"}

\* Where an exception leads: run of m3 calls takeover outside its try, adopt has no try at all,
\* compare has one around everything; an exception in the cleanup still runs the rest of it.
Unwind_TakeoverOutside ==
    CASE spc = "connect" -> "exit"
      [] spc \in {"deleteSq", "deleteCq"} -> "shutdown"
      [] spc = "shutdown" -> "guard"
      [] tool # "adopt" /\ spc \in {"identify", "features", "queues", "createSq", "place", "work"} -> "deleteSq"
      [] OTHER -> "guard"

Unwind ==
    CASE spc = "connect" -> "exit"
      [] spc \in {"deleteSq", "deleteCq"} -> "shutdown"
      [] spc = "shutdown" -> "guard"
      [] tool = "compare" /\ spc # "locate" -> "deleteSq"
      [] tool = "m3" /\ spc \in {"identify", "features", "queues", "createSq", "work"} -> "deleteSq"
      [] OTHER -> "guard"

\* A check fails, a command fails or a wait times out.  An enable that times out or ends in
\* fatal status leaves the controller enabled on the tool's queues.
Stop ==
    /\ spc \in Acting \cup {"connect"}
    /\ trouble < MaxTrouble /\ trouble' = trouble + 1
    /\ status' = IF status = 0 THEN Failed ELSE status
    /\ \/ UNCHANGED <<ctl, window>>
       \/ /\ spc = "enable" /\ window' = "zeroed"
          /\ ctl' = [en |-> TRUE, rdy |-> FALSE, cfs |-> TRUE, queues |-> "tool"]
    /\ stuck' = (stuck \/ spc = "shutdown")
    /\ spc' = Unwind
    /\ UNCHANGED <<tool, io, ioAt, link, strict, was, serrors, digests>>

\* The link dies: every later request fails as well, so nothing more reaches the target.  When it
\* dies under the finally of nvme_m3's main, the exit code stays what the run made it.
LinkLost ==
    /\ spc \in Acting \cup {"guard"} /\ link
    /\ trouble < MaxTrouble /\ trouble' = trouble + 1
    /\ link' = FALSE
    /\ status' = IF spc = "guard" /\ tool # "compare" THEN status ELSE Lost
    /\ spc' = IF spc = "guard" THEN "exit" ELSE "guard"
    /\ UNCHANGED <<tool, ctl, window, io, ioAt, strict, was, serrors, digests, stuck>>

\* The target consumes an SError while the tool works.
SError ==
    /\ spc \in Acting /\ serrors = 0
    /\ trouble < MaxTrouble /\ trouble' = trouble + 1
    /\ serrors' = 1
    /\ UNCHANGED <<tool, spc, ctl, window, io, ioAt, link, strict, was, digests, status, stuck>>

Next ==
    \/ Start \/ Connect \/ Locate \/ Quiesce \/ Enable \/ Identify \/ Features \/ CreateCq \/ CreateSq
    \/ ReadGpt \/ Arm \/ PlaceHelper \/ HashChunk \/ PassesDone
    \/ DeleteSq \/ DeleteCq \/ Shutdown \/ RestoreGuard
    \/ Stop \/ LinkLost \/ SError

Spec == Init /\ [][Next]_svars

-----------------------------------------------------------------------------

TypeOK ==
    /\ tool \in {"none", "m3", "adopt", "compare"} /\ spc \in Acting \cup {"idle", "connect", "guard", "exit"}
    /\ digests \in [Helpers -> [Chunk -> {"none", "right", "wrong"}]]
    /\ link \in BOOLEAN /\ stuck \in BOOLEAN /\ serrors \in 0 .. 1
    /\ ctl \in [en : BOOLEAN, rdy : BOOLEAN, cfs : BOOLEAN, queues : {"firmware", "tool"}]
    /\ window \in {"unset", "stale", "zeroed"} /\ ioAt \subseteq {"cq", "sq"} /\ io \in BOOLEAN
    /\ status \in {0, 1, 2, 3, 5} /\ strict \in BOOLEAN /\ was \in BOOLEAN

\* A tool that exits 0 has kept its promise: the read tools leave the controller off and without
\* queues, adopt leaves it running on queues in the zeroed window; unless the link died under the very
\* last requests strict mode is as it was before and no SError was counted; and compare has found
\* every chunk equal under both helpers.
SuccessIsClean ==
    spc = "exit" /\ status = 0 =>
        /\ link => strict = was /\ serrors = 0
        /\ IF tool = "adopt"
           THEN ctl.rdy /\ ctl.queues = "tool" /\ ioAt = {"cq", "sq"} /\ window = "zeroed"
           ELSE ~ctl.en /\ ioAt = {}
        /\ tool = "compare" =>
             \A c \in Chunk : digests["new"][c] # "none" /\ digests["new"][c] = digests["replaced"][c]

\* The window the controller was given is never zeroed or reused under a controller that may still
\* write into memory: from the moment it is set aside until the enable, the controller is off.
QuietWhileZeroed == spc = "enable" => ~ctl.en

\* compare's try encloses the takeover too: unless the link died or the final shutdown itself timed
\* out, it never ends with a controller that is enabled on the tool's queues.
NothingLeftEnabled ==
    spc = "exit" /\ tool = "compare" /\ link /\ ~stuck /\ ctl.queues = "tool" => ~ctl.en

\* No path of a session leaves the machine in a state only a successful step may leave.
NothingLeftOn == SuccessIsClean /\ QuietWhileZeroed /\ NothingLeftEnabled

=============================================================================
