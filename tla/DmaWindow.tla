----------------------------- MODULE DmaWindow -----------------------------
(***************************************************************************)
(* How tools/nvme_m3.py chooses the memory the SSD may use for DMA: what   *)
(* the PCIe SMMU does with the SSD's stream, the walk of its stage 2       *)
(* tables, and the search for a window of Conventional memory that is free *)
(* of q1n1's own memory and reachable.  Addresses are in pages; a table    *)
(* level resolves one bit of the page number, the first level two.         *)
(***************************************************************************)
EXTENDS Naturals, FiniteSets

CONSTANTS IpaBits,     \* bits of page number the stage 2 input has
          StartLevel,  \* 2 - S2SL0
          Window,      \* Layout.size in pages
          Align,       \* candidates are multiples of this many pages
          MaxTried,    \* windows whose reach is tried (64)
          Memories,    \* inputs: EFI memory map and q1n1's own regions
          Descs        \* inputs: Descs[l] is the set of descriptors a level l table may hold

VARIABLES ste,           \* the stream: SMMU enable, global abort, stream table entry
          tables,        \* one table per level
          regions, own,
          picked, base   \* the outcome: "none", "stop" or "window" at base

dvars == <<ste, tables, regions, own, picked, base>>

Pages == 0 .. 2 ^ IpaBits - 1
None == [page |-> 0, span |-> 0, ap |-> 0, mapped |-> FALSE]
Config == 0 .. 7

-----------------------------------------------------------------------------
(* Smmu *)

\* Smmu.__init__: the mode of the stream, from CR0, GBPA and the stream table entry.
StreamMode(s) ==
    IF ~s.enabled THEN IF s.gbpaAbort THEN "abort" ELSE "bypass"
    ELSE IF ~s.l1 THEN "unconfigured"
    ELSE IF ~s.valid THEN "invalid"
    ELSE CASE s.config = 0 -> "abort" [] s.config = 4 -> "bypass" [] s.config = 5 -> "s1"
           [] s.config = 6 -> "s2" [] s.config = 7 -> "s1+s2" [] OTHER -> "config"

Shift(level) == 3 - level
Index(ipa, level) ==
    IF level = StartLevel THEN ipa \div 2 ^ Shift(level) ELSE (ipa \div 2 ^ Shift(level)) % 2

\* translate: the output page, the pages the descriptor still covers and S2AP.  Bit 1 of a
\* descriptor means a table above level 3 and is required at level 3.
Walk[ipa \in Pages, level \in 0 .. 3] ==
    LET d == tables[level][Index(ipa, level)]
        span == 2 ^ Shift(level)
    IN  IF ~d.valid THEN None
        ELSE IF level < 3 /\ d.bit1 THEN Walk[ipa, level + 1]
        ELSE IF level = 3 /\ ~d.bit1 THEN None
        ELSE [page |-> (d.out - (d.out % span)) + (ipa % span), span |-> span - (ipa % span),
              ap |-> d.ap, mapped |-> TRUE]

Translate(ipa) == IF ipa \in Pages THEN Walk[ipa, StartLevel] ELSE None

Identity_IgnoresAp(t, page) == t.mapped /\ t.page = page
Identity(t, page) == t.mapped /\ t.page = page /\ t.ap = 3

\* reaches: descriptor by descriptor over [first, first + size).
Covers[page \in Nat, end \in Nat] ==
    page >= end \/ LET t == Translate(page) IN Identity(t, page) /\ Covers[page + t.span, end]

\* A step of a whole block wherever the walk entered it.
CoversWhole[page \in Nat, end \in Nat] ==
    page >= end \/ (Identity(Translate(page), page) /\ CoversWhole[page + 2, end])

Reaches_WholeSpan(first, size) ==
    StreamMode(ste) = "bypass" \/ (StreamMode(ste) = "s2" /\ CoversWhole[first, first + size])

Reaches(first, size) ==
    CASE StreamMode(ste) = "bypass" -> TRUE
      [] StreamMode(ste) = "s2" -> Covers[first, first + size]
      [] OTHER -> FALSE

-----------------------------------------------------------------------------
(* The window *)

Overlaps(c, r) == c < r.base + r.size /\ r.base < c + Window

\* q1n1_regions drops the regions bootinfo does not give; preload.memory_regions reads the map.
Own == {r \in own : r.base > 0 /\ r.size > 0}

GivenOk_TwoRegions(c) ==
    /\ c % Align = 0
    /\ \A p \in c .. c + Window - 1 : \E r \in regions : r.lo <= p /\ p < r.hi
    /\ ~ \E r \in Own : Overlaps(c, r)
    /\ Reaches(c, Window)

\* given_window: the caller's window is checked and either used or refused.
GivenOk(c) ==
    /\ c % Align = 0
    /\ \E r \in regions : r.kind = 7 /\ r.lo <= c /\ c + Window <= r.hi
    /\ ~ \E r \in Own : Overlaps(c, r)
    /\ Reaches(c, Window)

\* pick_window: from the top of each Conventional region down, highest region first; at most
\* MaxTried candidates are walked.
Candidates(r) == {c \in 0 .. r.hi : r.kind = 7 /\ c >= r.lo /\ c + Window <= r.hi /\ c % Align = 0
                                      /\ ~ \E o \in Own : Overlaps(c, o)}
Above(c) == {d \in UNION {Candidates(r) : r \in regions} : d > c}
PickOk(c) == /\ \E r \in regions : c \in Candidates(r)
             /\ Cardinality(Above(c)) < MaxTried
             /\ Reaches(c, Window)
             /\ \A d \in Above(c) : ~Reaches(d, Window)

Level == StartLevel .. 3
Size(l) == IF l = StartLevel THEN 2 ^ (IpaBits - Shift(l)) ELSE 2
Unmapped == [valid |-> FALSE, bit1 |-> FALSE, out |-> 0, ap |-> 0]

Init ==
    /\ ste = [enabled |-> FALSE, gbpaAbort |-> TRUE, l1 |-> FALSE, valid |-> FALSE, config |-> 0]
    /\ tables = [l \in Level |-> [i \in 0 .. Size(l) - 1 |-> Unmapped]]
    /\ regions = {} /\ own = {} /\ picked = "none" /\ base = 0

\* The machine as the firmware left it: bootinfo, the memory map, the stream and its tables.
ReadMachine ==
    /\ regions = {}
    /\ \E m \in Memories : regions' = m.map /\ own' = m.own
    /\ \E s \in [enabled : BOOLEAN, gbpaAbort : BOOLEAN, l1 : BOOLEAN, valid : BOOLEAN, config : Config] :
         /\ s.enabled => s.gbpaAbort
         /\ (s.valid => s.l1) /\ (s.l1 => s.enabled)
         /\ ~s.valid => s.config = 0
         /\ ste' = s
    /\ IF StreamMode(ste') = "s2"
       THEN tables' \in {t \in [Level -> UNION {[0 .. Size(l) - 1 -> Descs[l]] : l \in Level}] :
                          \A l \in Level : t[l] \in [0 .. Size(l) - 1 -> Descs[l]]}
       ELSE UNCHANGED tables
    /\ UNCHANGED <<picked, base>>

\* run: the tool stops unless the stream is bypassed or has a stage 2 only.
Usable == StreamMode(ste) \in {"bypass", "s2"}

\* adopt calls given_window with the caller's address.
Given ==
    /\ regions # {} /\ picked = "none"
    /\ \E c \in Pages :
         \/ Usable /\ GivenOk(c) /\ picked' = "window" /\ base' = c
         \/ ~(Usable /\ GivenOk(c)) /\ picked' = "stop" /\ UNCHANGED base
    /\ UNCHANGED <<ste, tables, regions, own>>

\* run calls pick_window.
Pick ==
    /\ regions # {} /\ picked = "none"
    /\ \/ \E c \in Pages : Usable /\ PickOk(c) /\ picked' = "window" /\ base' = c
       \/ /\ ~ (Usable /\ \E c \in Pages : PickOk(c))
          /\ picked' = "stop" /\ UNCHANGED base
    /\ UNCHANGED <<ste, tables, regions, own>>

Next == ReadMachine \/ Given \/ Pick

DmaSpec == Init /\ [][Next]_dvars

-----------------------------------------------------------------------------

TypeOK ==
    /\ ste.config \in Config /\ base \in Pages /\ picked \in {"none", "stop", "window"}
    /\ \A l \in Level : tables[l] \in [0 .. Size(l) - 1 -> Descs[l] \cup {Unmapped}]

\* A window that was given or picked lies in one Conventional region, and no page of it is q1n1's.
WindowPlaced ==
    picked = "window" =>
        /\ \E r \in regions : r.kind = 7 /\ r.lo <= base /\ base + Window <= r.hi
        /\ \A p \in base .. base + Window - 1 :
             ~ \E r \in own : r.base > 0 /\ r.base <= p /\ p < r.base + r.size

\* Every page of a window that was given or picked is so placed, and is a page the SSD reads and
\* writes at its own address: the descriptor by descriptor walk of reaches answers for each page.
WindowUsable ==
    /\ WindowPlaced
    /\ picked = "window" => \A p \in base .. base + Window - 1 :
         \/ StreamMode(ste) = "bypass"
         \/ LET t == Translate(p) IN t.mapped /\ t.page = p /\ t.ap = 3

\* reaches is exact under a stage 2: it answers yes for a range iff each page of it is mapped to
\* itself for reading and writing, wherever the range starts and ends inside a block.
ReachExact ==
    regions # {} /\ StreamMode(ste) = "s2" =>
        \A c \in Pages, n \in 1 .. Window :
            Reaches(c, n) <=> \A p \in c .. c + n - 1 :
                                LET t == Translate(p) IN t.mapped /\ t.page = p /\ t.ap = 3

=============================================================================
