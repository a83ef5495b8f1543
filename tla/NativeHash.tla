---------------------------- MODULE NativeHash ----------------------------
(***************************************************************************)
(* tools/nvme_hash.py: the running stage is bound to the local build it    *)
(* came from, the hash helper is placed in the unused tail of its slot,    *)
(* and the driver's queue cursors travel to the helper and back with every *)
(* call, while the Python driver also submits reads of its own.            *)
(***************************************************************************)
EXTENDS Naturals, Sequences

CONSTANTS Builds,      \* inputs: candidate stage builds
          Slot,        \* length of one stage slot
          Room,        \* room the helper needs at the end of the slot
          Ring,        \* entries of the I/O queue
          Blocks,      \* length of a hashed range, in helper calls
          MaxUse       \* bound: reads and digests

VARIABLES candidates,    \* candidate_builds, in order
          running,       \* the build whose stage really runs (one of the candidates or none)
          hpc, bound,    \* progress, and the build bind_stage returned
          excGuard,      \* exception guard mode on the target
          pyTail, hwTail,\* the driver's cursor and the controller's
          left, uses     \* calls left in the digest in progress; uses so far

hvars == <<candidates, running, hpc, bound, excGuard, pyTail, hwTail, left, uses>>

NoBuild == [text |-> 0, at |-> 0, end |-> 0, bin |-> 0]

Init ==
    /\ candidates = <<>> /\ running = NoBuild /\ hpc = "start" /\ bound = NoBuild
    /\ excGuard = 0 /\ pyTail = 0 /\ hwTail = 0 /\ left = 0 /\ uses = 0

\* The local build directories, and the stage that was chainloaded from one of them.
Chainloaded ==
    /\ hpc = "start"
    /\ \E s \in UNION {[1 .. n -> Builds] : n \in 1 .. 2}, b \in Builds :
         candidates' = s /\ running' = b
    /\ hpc' = "bind"
    /\ UNCHANGED <<bound, excGuard, pyTail, hwTail, left, uses>>

\* A build matches when it is linked where the running image is and its text is resident.
Matched == {i \in DOMAIN candidates : candidates[i].at = running.at /\ candidates[i].text = running.text}
First(S) == CHOOSE i \in S : \A j \in S : i <= j

Unambiguous_Never == TRUE

\* Two builds that match must be one image.
Unambiguous == \A i, j \in Matched : /\ candidates[i].bin = candidates[j].bin
                                     /\ candidates[i].end = candidates[j].end

\* bind_stage: the first matching build, or Refused.
BindStage ==
    /\ hpc = "bind"
    /\ IF Matched # {} /\ Unambiguous
       THEN bound' = candidates[First(Matched)] /\ hpc' = "place"
       ELSE UNCHANGED bound /\ hpc' = "refused"
    /\ UNCHANGED <<candidates, running, excGuard, pyTail, hwTail, left, uses>>

Code == bound.at + Slot - Room

\* NativeHash.__init__: the helper must clear the linked image; a two-instruction leaf is called
\* under the returning exception guard, which is lowered again whatever the call does.
Place ==
    /\ hpc = "place"
    /\ IF bound.end > Code THEN hpc' = "refused" ELSE hpc' = "leaf"
    /\ excGuard' = IF bound.end > Code THEN excGuard ELSE 3
    /\ UNCHANGED <<candidates, running, bound, pyTail, hwTail, left, uses>>

Leaf_KeepsGuard ==
    /\ hpc = "leaf"
    /\ hpc' \in {"ready", "refused"}
    /\ UNCHANGED <<candidates, running, bound, excGuard, pyTail, hwTail, left, uses>>

Leaf ==
    /\ hpc = "leaf"
    /\ hpc' \in {"ready", "refused"}
    /\ excGuard' = 0
    /\ UNCHANGED <<candidates, running, bound, pyTail, hwTail, left, uses>>

\* The driver reads by itself: it writes at its own tail, the controller takes what is there.
PyRead ==
    /\ hpc = "ready" /\ left = 0 /\ uses < MaxUse
    /\ pyTail' = (pyTail + 1) % Ring /\ hwTail' = (pyTail + 1) % Ring
    /\ uses' = uses + 1
    /\ UNCHANGED <<candidates, running, hpc, bound, excGuard, left>>

Begin ==
    /\ hpc = "ready" /\ left = 0 /\ uses < MaxUse
    /\ left' = Blocks /\ uses' = uses + 1
    /\ UNCHANGED <<candidates, running, hpc, bound, excGuard, pyTail, hwTail>>

TakeBack_OnlyAtEnd(t) == pyTail' = IF left = 1 THEN t ELSE pyTail

\* One call of the helper: it starts at the cursors in its header, issues some commands and leaves
\* its cursors in the header.  digest takes them back before it looks at the outcome.
TakeBack(t) == pyTail' = t

HelperCall ==
    /\ hpc = "ready" /\ left > 0
    /\ \E n \in 1 .. 2, ok \in BOOLEAN :
         /\ hwTail' = (pyTail + n) % Ring
         /\ TakeBack((pyTail + n) % Ring)
         /\ IF ok THEN left' = left - 1 /\ UNCHANGED hpc
                  ELSE left' = 0 /\ hpc' = "failed"
    /\ UNCHANGED <<candidates, running, bound, excGuard, uses>>

\* The call is not answered: the helper may still be running, nothing is taken back.
HelperSilent ==
    /\ hpc = "ready" /\ left > 0
    /\ \E n \in 0 .. 2 : hwTail' = (pyTail + n) % Ring
    /\ left' = 0 /\ hpc' = "failed"
    /\ UNCHANGED <<candidates, running, bound, excGuard, pyTail, uses>>

Next == \/ Chainloaded \/ BindStage \/ Place \/ Leaf \/ PyRead \/ Begin \/ HelperCall \/ HelperSilent

HashSpec == Init /\ [][Next]_hvars

-----------------------------------------------------------------------------

TypeOK ==
    /\ hpc \in {"start", "bind", "place", "leaf", "ready", "failed", "refused"}
    /\ {pyTail, hwTail} \subseteq 0 .. Ring - 1 /\ left \in 0 .. Blocks /\ excGuard \in {0, 3}

\* The helper is written only behind the image that really runs, its BSS and stack included,
\* whenever that image is one of the candidate builds: text alone never stands for a build with
\* another extent.
HelperClear ==
    hpc \in {"leaf", "ready"} /\ (\E i \in DOMAIN candidates : candidates[i] = running) =>
        running.end <= Code

\* Whenever the driver or the helper is about to submit, the cursor it will use is the controller's:
\* alternating Python reads, helper calls and short helper calls never desynchronise the ring.
CursorsAgree == hpc = "ready" => pyTail = hwTail

\* The helper itself never runs under the returning guard the leaf test needed: a fault in it stops.
GuardLowered == hpc \in {"ready", "failed", "refused"} => excGuard = 0

=============================================================================
