----------------------------- MODULE GptSurvey -----------------------------
(***************************************************************************)
(* tools/gpt_survey.py: decoding the GPT copies q1n1 recorded before       *)
(* ExitBootServices, the free extents, the comparison with a Windows       *)
(* layout, and the verdict over all recorded disks under the pins.         *)
(***************************************************************************)
EXTENDS Integers, Sequences, FiniteSets, SequencesExt

CONSTANTS Lba,        \* LBAs a partition entry may name
          FirstUsable, LastUsable,
          Guids,
          MaxParts,   \* bound: used entries of the first disk; the comparison with Windows is
                      \* explored for disks of at most one entry, damaged copies too
          Headers,    \* inputs: state of the two GPT copies of a disk
          Disks       \* bound: recorded disks

VARIABLES disks,      \* the record: per disk its entries, its headers and its identity
          windows,    \* the Windows layout: a set of [guid, first, last]
          pins,       \* which pins were given
          verdict     \* "none", "ok" or "failed"

gvars == <<disks, windows, pins, verdict>>

Entry == [first : Lba, last : Lba, guid : Guids]

\* The entries of the copy that is used, in the order of their first LBA.
Ordered(parts) == SetToSortSeq(parts, LAMBDA a, b : a.first < b.first \/ (a.first = b.first /\ a.last < b.last)
                                        \/ (a.first = b.first /\ a.last = b.last /\ a.guid < b.guid))

CopiesAgree_EitherGood(d) == (d.primary = "good" \/ d.backup = "good") /\ d.same

\* _header, _entries and the cross-checks of decode_gpt: each copy must be present with good CRCs
\* and the copies must agree.
CopiesAgree(d) == d.primary = "good" /\ d.backup = "good" /\ d.same

EntriesSound_TouchOk(parts) ==
    LET o == Ordered(parts)
    IN  /\ \A p \in parts : p.first <= p.last /\ FirstUsable <= p.first /\ p.last <= LastUsable
        /\ \A p, q \in parts : p.guid = q.guid => p = q
        /\ \A i \in 1 .. Len(o) - 1 : o[i].last <= o[i + 1].first

\* The per-entry checks of decode_gpt: range, bounds, and overlap between neighbours in the order.
EntriesSound(parts) ==
    LET o == Ordered(parts)
    IN  /\ \A p \in parts : p.first <= p.last /\ FirstUsable <= p.first /\ p.last <= LastUsable
        /\ \A p, q \in parts : p.guid = q.guid => p = q
        /\ \A i \in 1 .. Len(o) - 1 : o[i].last < o[i + 1].first

DecodeErrors(d) == ~CopiesAgree(d) \/ ~EntriesSound(d.parts)

\* unallocated: a cursor moves over the ordered entries and collects the gaps.
RECURSIVE Gaps(_, _)
Gaps(o, cursor) ==
    IF o = <<>> THEN IF cursor <= LastUsable THEN {<<cursor, LastUsable>>} ELSE {}
    ELSE LET p == Head(o)
             next == IF p.last + 1 > cursor THEN p.last + 1 ELSE cursor
         IN  (IF p.first > cursor THEN {<<cursor, p.first - 1>>} ELSE {}) \cup Gaps(Tail(o), next)

Unallocated_FromOne(parts) == Gaps(Ordered(parts), FirstUsable + 1)

Unallocated(parts) == Gaps(Ordered(parts), FirstUsable)

\* compare_windows: by partition GUID, both ways, then the largest free extent.
Largest(gaps) == LET sizes == {g[2] - g[1] + 1 : g \in gaps} \cup {0}
                 IN  CHOOSE n \in sizes : \A m \in sizes : m <= n
WindowsProblems_OursOnly(d) ==
    \/ ~({p.guid : p \in d.parts} \subseteq {w.guid : w \in windows.parts})
    \/ \E p \in d.parts, w \in windows.parts : p.guid = w.guid /\ (p.first # w.first \/ p.last # w.last)

WindowsProblems(d) ==
    \/ {p.guid : p \in d.parts} # {w.guid : w \in windows.parts}
    \/ \E p \in d.parts, w \in windows.parts : p.guid = w.guid /\ (p.first # w.first \/ p.last # w.last)
    \/ Largest(Unallocated(d.parts)) # windows.free

\* pinned_disk: with a pin given exactly one recorded disk must match it.
Hits == {n \in DOMAIN disks : disks[n].eui = "pinned"}
PinProblem == pins /\ Cardinality(Hits) # 1
Checked_FirstOnly(n) == ~pins \/ n = 1

Checked(n) == ~pins \/ PinProblem \/ n \in Hits

\* evaluate: the disks that are checked decide; any other is printed only.
Evaluate ==
    /\ verdict = "none" /\ disks # <<>>
    /\ verdict' = IF PinProblem \/ \E n \in DOMAIN disks : Checked(n) /\ (DecodeErrors(disks[n]) \/ WindowsProblems(disks[n]))
                  THEN "failed" ELSE "ok"
    /\ UNCHANGED <<disks, windows, pins>>

Init == disks = <<>> /\ windows = [parts |-> {}, free |-> 0] /\ pins = FALSE /\ verdict = "none"

Layouts(n) == UNION {{{e[i] : i \in 1 .. k} : e \in [1 .. k -> Entry]} : k \in 0 .. n}

\* fetch and parse_record: one more disk of the record.
RecordDisk ==
    /\ verdict = "none" /\ Len(disks) < Disks
    /\ \E ps \in Layouts(IF disks = <<>> THEN MaxParts ELSE 0),
         h \in Headers, eui \in {"pinned", "other"} :
         /\ Cardinality(ps) > 1 => h.primary = "good" /\ h.backup = "good" /\ h.same
         /\ disks' = Append(disks, [parts |-> ps, primary |-> h.primary, backup |-> h.backup,
                                   same |-> h.same, eui |-> eui])
    /\ UNCHANGED <<windows, pins, verdict>>

\* The Windows layout on file is that of a disk with the same entries, or with one changed.
Arguments ==
    /\ verdict = "none" /\ Len(disks) = Disks /\ ~pins /\ windows.parts = {}
    /\ \A n \in DOMAIN disks : Cardinality(disks[n].parts) <= 1
    /\ pins' \in BOOLEAN
    /\ \E n \in DOMAIN disks, e \in {f \in Entry : f.first = f.last /\ f.guid = 2} :
         LET ps == disks[n].parts
         IN  windows' \in {[parts |-> ps, free |-> Largest(Unallocated(ps))],
                           [parts |-> ps \cup {e}, free |-> Largest(Unallocated(ps \cup {e}))]}
    /\ UNCHANGED <<disks, verdict>>

Next == RecordDisk \/ Arguments \/ Evaluate

-----------------------------------------------------------------------------

TypeOK ==
    /\ \A n \in DOMAIN disks : disks[n].parts \subseteq Entry
    /\ windows.parts \subseteq Entry /\ pins \in BOOLEAN /\ verdict \in {"none", "ok", "failed"}

\* A layout without decode errors is a partition of the usable LBAs: no LBA belongs to two entries,
\* though only neighbours are compared, and the free extents are exactly the LBAs of no entry.
LayoutExact ==
    \A n \in DOMAIN disks : EntriesSound(disks[n].parts) =>
        \A lba \in FirstUsable .. LastUsable :
            /\ Cardinality({p \in disks[n].parts : p.first <= lba /\ lba <= p.last}) <= 1
            /\ (\E g \in Unallocated(disks[n].parts) : g[1] <= lba /\ lba <= g[2])
                 <=> ~ \E p \in disks[n].parts : p.first <= lba /\ lba <= p.last

\* A survey that passes with a pin has found the one pinned disk, both of its GPT copies good and
\* equal, and its layout the recorded Windows layout, whatever the other disks look like.
PassPinsDisk ==
    verdict = "ok" /\ pins =>
        \E n \in DOMAIN disks :
            /\ disks[n].eui = "pinned"
            /\ \A m \in DOMAIN disks : disks[m].eui = "pinned" => m = n
            /\ disks[n].primary = "good" /\ disks[n].backup = "good" /\ disks[n].same
            /\ disks[n].parts = windows.parts

=============================================================================
