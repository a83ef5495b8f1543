------------------------------ MODULE Preload ------------------------------
(***************************************************************************)
(* tools/preload.py: the table of files the UEFI stage left in memory is   *)
(* admitted entry by entry against the EFI memory map, and one cached file *)
(* is verified and copied to free memory in bounded requests.  Addresses   *)
(* and sizes are in pages.                                                 *)
(***************************************************************************)
EXTENDS Integers, Sequences, FiniteSets, SequencesExt

CONSTANTS Top,       \* pages 0..Top-1
          Limit,     \* LIMIT: pages all files may take together
          Request,   \* pages copied by one request
          Regions,   \* inputs: memory maps
          Tables,    \* inputs: preload tables
          MaxCopies  \* bound: copies attempted

VARIABLES map,       \* the EFI memory map: a set of [kind, lo, hi]
          table,     \* what the stage published: the address and the entries
          files,     \* what resident_cache returned
          ppc,       \* "start", "admitted", "refused", "copying"
          owner,     \* who wrote each page last: the file copied there, or 0
          fileNo, dest, offset, copies

pvars == <<map, table, files, ppc, owner, fileNo, dest, offset, copies>>

Page == 0 .. Top - 1
LoaderData == 2
Conventional == 7

\* _covered: one pass over the regions of the kind in address order.
RECURSIVE Advance(_, _, _)
Advance(rs, cursor, end) ==
    \/ cursor >= end
    \/ /\ rs # <<>>
       /\ LET r == Head(rs)
          IN  Advance(Tail(rs), IF r.lo <= cursor /\ cursor < r.hi THEN r.hi ELSE cursor, end)

Sorted(kind) ==
    SetToSortSeq({r \in map : r.kind = kind},
                 LAMBDA a, b : a.lo < b.lo \/ (a.lo = b.lo /\ a.hi < b.hi))

Covered_AnyOrder(kind, base, size) ==
    base > 0 /\ size > 0 /\ Advance(Reverse(Sorted(kind)), base, base + size)

Covered(kind, base, size) == base > 0 /\ size > 0 /\ Advance(Sorted(kind), base, base + size)

Overlap(a, an, b, bn) == a < b + bn /\ b < a + an

Admissible_Neighbour(i) ==
    LET e == table.entries[i]
        before == SubSeq(table.entries, 1, i - 1)
    IN  /\ e.size > 0
        /\ e.size <= Limit - FoldLeft(LAMBDA sum, f : sum + f.size, 0, before)
        /\ Covered(LoaderData, e.base, e.size)
        /\ ~Overlap(e.base, e.size, table.at, 1)
        /\ i > 1 => ~Overlap(e.base, e.size, before[i - 1].base, before[i - 1].size)

\* resident_cache: every entry in LoaderData, clear of the table and of the entries before it, no
\* path twice, the running total within LIMIT.
Admissible(i) ==
    LET e == table.entries[i]
        before == SubSeq(table.entries, 1, i - 1)
    IN  /\ e.size > 0
        /\ e.size <= Limit - FoldLeft(LAMBDA sum, f : sum + f.size, 0, before)
        /\ Covered(LoaderData, e.base, e.size)
        /\ ~Overlap(e.base, e.size, table.at, 1)
        /\ \A j \in 1 .. i - 1 : /\ ~Overlap(e.base, e.size, before[j].base, before[j].size)
                                 /\ e.path # before[j].path

Init ==
    /\ map = {} /\ table = [at |-> 0, entries |-> <<>>] /\ files = <<>> /\ ppc = "start"
    /\ owner = [p \in Page |-> 0] /\ fileNo = 0 /\ dest = 0 /\ offset = 0 /\ copies = 0

\* memory_regions and the published table, then resident_cache's verdict.
ResidentCache ==
    /\ ppc = "start"
    /\ \E m \in Regions, t \in Tables : map' = m /\ table' = t
    /\ ppc' = "read"
    /\ UNCHANGED <<files, owner, fileNo, dest, offset, copies>>

Admit ==
    /\ ppc = "read"
    /\ IF Covered(LoaderData, table.at, 1) /\ \A i \in DOMAIN table.entries : Admissible(i)
       THEN files' = table.entries /\ ppc' = "admitted"
       ELSE UNCHANGED files /\ ppc' = "refused"
    /\ UNCHANGED <<map, table, owner, fileNo, dest, offset, copies>>

\* copy_cached: destination in Conventional memory, the whole file verified, then the requests.
CopyCached ==
    /\ ppc = "admitted" /\ copies < MaxCopies
    /\ \E i \in DOMAIN files, d \in Page :
         /\ Covered(Conventional, d, files[i].size)
         /\ fileNo' = i /\ dest' = d
    /\ offset' = 0 /\ copies' = copies + 1 /\ ppc' = "copying"
    /\ UNCHANGED <<map, table, files, owner>>

Amount_Whole == Request

\* One memcpy8 of the loop; the last one is shorter.
Amount == IF files[fileNo].size - offset < Request THEN files[fileNo].size - offset ELSE Request

CopyChunk ==
    /\ ppc = "copying" /\ offset < files[fileNo].size
    /\ owner' = [p \in Page |-> IF dest + offset <= p /\ p < dest + offset + Amount THEN fileNo ELSE owner[p]]
    /\ offset' = offset + Request
    /\ UNCHANGED <<map, table, files, ppc, fileNo, dest, copies>>

CopyDone ==
    /\ ppc = "copying" /\ offset >= files[fileNo].size
    /\ ppc' = "admitted"
    /\ UNCHANGED <<map, table, files, owner, fileNo, dest, offset, copies>>

Next == ResidentCache \/ Admit \/ CopyCached \/ CopyChunk \/ CopyDone

-----------------------------------------------------------------------------

TypeOK ==
    /\ ppc \in {"start", "read", "admitted", "refused", "copying"}
    /\ owner \in [Page -> 0 .. 2] /\ dest \in Page /\ offset \in 0 .. 2 * Limit

Within(p, e) == e.base <= p /\ p < e.base + e.size

\* _covered is exact: it accepts a range iff each page of it lies in some region of the kind, however
\* the regions split, touch or overlap.
CoveredExact ==
    ppc = "read" =>
        \A k \in {LoaderData, Conventional}, b \in 1 .. Top - 1, n \in 1 .. 3 :
            Covered(k, b, n) <=> \A p \in b .. b + n - 1 : \E r \in map : r.kind = k /\ r.lo <= p /\ p < r.hi

\* The files of an admitted cache are disjoint from one another and from their table.
CacheDisjoint ==
    ppc \in {"admitted", "copying"} =>
        \A p \in Page : Cardinality({i \in DOMAIN files : Within(p, files[i])}) +
                        (IF p = table.at THEN 1 ELSE 0) <= 1

\* A copy writes Conventional memory only and exactly the file's length: no resident file, no table
\* and no page behind the destination is touched.
CopiesInBounds ==
    \A p \in Page : owner[p] # 0 =>
        /\ \E r \in map : r.kind = Conventional /\ r.lo <= p /\ p < r.hi
        /\ \A i \in DOMAIN files : ~Within(p, files[i])
        /\ (ppc = "copying" /\ copies = 1) => dest <= p /\ p < dest + files[fileNo].size

=============================================================================
