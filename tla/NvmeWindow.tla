---------------------------- MODULE NvmeWindow ----------------------------
(***************************************************************************)
(* tools/nvme_window.py on the write interlock of tools/nvme_rw.py: runs   *)
(* that check, probe, apply or restore a delta of the APFS container on    *)
(* the SSD, with write errors, lost links and power cuts at any point.     *)
(* Disk contents are abstracted to which version of the bytes they hold.   *)
(***************************************************************************)
EXTENDS Naturals

CONSTANTS Extents,      \* the package's extents, 1..Extents
          MaxRuns,      \* bound: runs of the tool
          MaxFaults     \* bound: failed commands, miswrites and power cuts

ASSUME WindowAssumption == Extents \in Nat \ {0}

VARIABLES header,       \* "before", "after", "zero" or "torn"
          extents,      \* what each extent holds: "before", "after" or "torn"
          scratch,      \* the probe's scratch range: "first", "pattern" or "torn"
          original,     \* what the probe read there and saved to the host
          wpc, mode, at, ranges, result,   \* one run of the tool
          probed,       \* a probe record with result PASS exists
          guard,        \* strict SError guard armed by the run
          runs, faults

wvars == <<header, extents, scratch, original, wpc, mode, at, ranges, result, probed, guard, runs, faults>>
disk == <<header, extents, scratch>>

Extent == 1 .. Extents
Mode == {"check", "probe", "apply", "restore"}

Init ==
    /\ header = "before" /\ extents = [e \in Extent |-> "before"] /\ scratch = "first" /\ original = "first"
    /\ wpc = "off" /\ mode = "check" /\ at = 1 /\ ranges = {} /\ result = "NONE"
    /\ probed = FALSE /\ guard = FALSE /\ runs = 0 /\ faults = 0

\* The version of the container and of the header a run is to leave behind.
Wanted == IF mode = "restore" THEN "before" ELSE "after"
Accepted == IF mode = "restore" THEN {"before", "after", "zero"} ELSE {"before"}

-----------------------------------------------------------------------------

ProbeRequired_ApplyOnly(m) == m = "apply" => probed

\* package and the probe record are checked before the link is opened.
ProbeRequired(m) == m \in {"apply", "restore"} => probed

Start ==
    /\ wpc = "off" /\ runs < MaxRuns
    /\ \E m \in Mode :
         /\ ProbeRequired(m)
         /\ mode' = m
    /\ wpc' = "bringup" /\ at' = 1 /\ ranges' = {} /\ result' = "RUNNING"
    /\ guard' = TRUE /\ runs' = runs + 1
    /\ UNCHANGED <<disk, original, probed, faults>>

\* Guard, locate, SMMU, window, takeover, identify, queues, GPT identity and edge digests.
BringUp ==
    /\ wpc = "bringup"
    /\ wpc' = "header"
    /\ UNCHANGED <<disk, original, mode, at, ranges, result, probed, guard, runs, faults>>

Refuse == wpc' = "cleanup" /\ result' = "FAIL"
Goto(pc) == wpc' = pc /\ UNCHANGED result

\* The header must be a permitted baseline; then the native hash helper is placed and sampled.
CheckHeader ==
    /\ wpc = "header"
    /\ IF header \in Accepted THEN Goto(IF mode = "probe" THEN "saveScratch" ELSE "baseline") ELSE Refuse
    /\ UNCHANGED <<disk, original, mode, at, ranges, probed, guard, runs, faults>>

\* The scratch bytes are saved to the host before the probe may write.
SaveScratch ==
    /\ wpc = "saveScratch"
    /\ original' = scratch
    /\ ranges' = {"scratch"} /\ Goto("scratchWrite")
    /\ UNCHANGED <<disk, mode, at, probed, guard, runs, faults>>

\* A restore that keeps the published header while it rewrites the extents.
Baseline_KeepsHeader ==
    /\ wpc = "baseline"
    /\ IF mode = "restore" \/ \A e \in Extent : extents[e] = "before"
       THEN IF mode = "check" THEN Goto("finish") /\ UNCHANGED ranges
            ELSE Goto(IF mode = "restore" THEN "extent" ELSE "invalidate") /\ ranges' = {"header", "extents"}
       ELSE Refuse /\ UNCHANGED ranges
    /\ UNCHANGED <<disk, original, mode, at, probed, guard, runs, faults>>

\* The whole container is hashed; a restore hashes it with the package's old extents laid over it.
Baseline ==
    /\ wpc = "baseline"
    /\ IF mode = "restore" \/ \A e \in Extent : extents[e] = "before"
       THEN IF mode = "check" THEN Goto("finish") /\ UNCHANGED ranges
                              ELSE Goto("invalidate") /\ ranges' = {"header", "extents"}
       ELSE Refuse /\ UNCHANGED ranges
    /\ UNCHANGED <<disk, original, mode, at, probed, guard, runs, faults>>

\* The write of the current step puts value v on the disk.
Writing == {"scratchWrite", "scratchRestore", "invalidate", "extent", "publish"}
Put(v) ==
    CASE wpc \in {"scratchWrite", "scratchRestore"} -> scratch' = v /\ UNCHANGED <<header, extents>>
      [] wpc \in {"invalidate", "publish"} -> header' = v /\ UNCHANGED <<extents, scratch>>
      [] wpc = "extent" -> extents' = [extents EXCEPT ![at] = v] /\ UNCHANGED <<header, scratch>>

Payload == CASE wpc = "scratchWrite" -> "pattern"
             [] wpc = "scratchRestore" -> original
             [] wpc = "invalidate" -> "zero"
             [] OTHER -> Wanted

Held == CASE wpc \in {"scratchWrite", "scratchRestore"} -> scratch
          [] wpc = "extent" -> extents[at]
          [] OTHER -> header

AfterWrite == CASE wpc = "scratchWrite" -> "scratchRestore"
                [] wpc = "invalidate" -> "extent"
                [] wpc = "extent" /\ at < Extents -> "extent"
                [] wpc = "extent" /\ at = Extents -> "verify"
                [] OTHER -> "finish"

Target == IF wpc \in {"scratchWrite", "scratchRestore"} THEN "scratch"
          ELSE IF wpc = "extent" THEN "extents" ELSE "header"

ReadBack_SkippedForHeader(v) == v = Payload \/ wpc = "publish"

\* A FUA write and Flush complete; the bytes are read back, and a miswritten block is noticed there.
ReadBack(v) == v = Payload

\* The interlock of WritableNvme: a write command must lie in a range enable_writes was given.
Allowed == Target \in ranges

Write ==
    /\ wpc \in Writing /\ Allowed
    /\ \E v \in {Payload} \cup (IF faults < MaxFaults THEN {"torn"} ELSE {}) :
         /\ Put(v)
         /\ faults' = IF v = "torn" THEN faults + 1 ELSE faults
         /\ IF ReadBack(v) THEN Goto(AfterWrite) ELSE Refuse
    /\ at' = IF wpc = "extent" /\ at < Extents THEN at + 1 ELSE at
    /\ UNCHANGED <<original, mode, ranges, probed, guard, runs>>

\* Before the header is published the container, the ISC and the edges are hashed again.
Verify_NoHash == wpc = "verify" /\ Goto("publish")
              /\ UNCHANGED <<disk, original, mode, at, ranges, probed, guard, runs, faults>>
Verify ==
    /\ wpc = "verify"
    /\ IF \A e \in Extent : extents[e] = Wanted THEN Goto("publish") ELSE Refuse
    /\ UNCHANGED <<disk, original, mode, at, ranges, probed, guard, runs, faults>>

Finish ==
    /\ wpc = "finish"
    /\ ranges' = {} /\ wpc' = "cleanup" /\ result' = "PASS"
    /\ UNCHANGED <<disk, original, mode, at, probed, guard, runs, faults>>

\* run's finally: writes off, queues deleted, controller shut down, guard put back, link closed.
\* An error here fails a run that had not failed yet.
Cleanup ==
    /\ wpc = "cleanup"
    /\ ranges' = {} /\ guard' = FALSE /\ wpc' = "end"
    /\ \/ UNCHANGED <<result, faults>>
       \/ faults < MaxFaults /\ result' = "FAIL" /\ faults' = faults + 1
    /\ UNCHANGED <<disk, original, mode, at, probed, runs>>

\* main writes the final record.
Record ==
    /\ wpc = "end"
    /\ probed' = (probed \/ (mode = "probe" /\ result = "PASS"))
    /\ wpc' = "off"
    /\ UNCHANGED <<disk, original, mode, at, ranges, result, guard, runs, faults>>

\* An unfinished write has reached the disk, has not, or has in part.
Unfinished ==
    IF wpc \in Writing THEN \E v \in {Held, Payload, "torn"} : Put(v) ELSE UNCHANGED disk

\* A command fails, times out or the link is lost: the run goes to its cleanup.
Fail ==
    /\ wpc \in {"bringup", "header", "saveScratch", "baseline", "verify", "finish"} \cup Writing
    /\ faults < MaxFaults /\ faults' = faults + 1
    /\ Unfinished
    /\ Refuse
    /\ UNCHANGED <<original, mode, at, ranges, probed, guard, runs>>

\* The machine or the host loses power: nothing of the run is left but the disk and the records.
PowerCut ==
    /\ wpc # "off"
    /\ faults < MaxFaults /\ faults' = faults + 1
    /\ Unfinished
    /\ wpc' = "off" /\ ranges' = {} /\ guard' = FALSE /\ result' = "NONE"
    /\ UNCHANGED <<original, mode, at, probed, runs>>

Next ==
    \/ Start \/ BringUp \/ CheckHeader \/ SaveScratch \/ Baseline \/ Write \/ Verify \/ Finish
    \/ Cleanup \/ Record \/ Fail \/ PowerCut

Spec == Init /\ [][Next]_wvars

-----------------------------------------------------------------------------

TypeOK ==
    /\ header \in {"before", "after", "zero", "torn"}
    /\ extents \in [Extent -> {"before", "after", "torn"}]
    /\ {scratch, original} \subseteq {"first", "pattern", "torn"}
    /\ mode \in Mode /\ at \in Extent /\ ranges \subseteq {"header", "extents", "scratch"}
    /\ result \in {"NONE", "RUNNING", "PASS", "FAIL"} /\ probed \in BOOLEAN /\ guard \in BOOLEAN

\* The header vouches for the container: whatever fails and wherever the power is cut, in this run or
\* an earlier one, a header of one version is never on the disk with a block of another version.
HeaderVouches == header \in {"before", "after"} => \A e \in Extent : extents[e] = header

\* A run that reports PASS has left exactly what its mode promises.
PassMeansDone ==
    wpc = "end" /\ result = "PASS" =>
        CASE mode = "probe" -> scratch = original
          [] mode = "check" -> header = "before"
          [] OTHER -> header = Wanted /\ \A e \in Extent : extents[e] = Wanted

\* No step of any run changes the container or its header before a probe has passed on this SSD.
ProbedFirst == [][<<header, extents>>' # <<header, extents>> => probed]_wvars

=============================================================================
