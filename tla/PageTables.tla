-------------------------------- MODULE PageTables --------------------------------
(***************************************************************************)
(* The page tables the client builds for devices: DARTs with two, three    *)
(* and four levels (hw/dart8020.py, hw/dart8110.py) and the GPU's own      *)
(* (hw/uat.py).  Each section is a machine of its own; the first holds     *)
(* what the DARTs share.                                                   *)
(***************************************************************************)
EXTENDS Integers, Sequences, FiniteSets

-----------------------------------------------------------------------------
(***************************************************************************)
(* What the address translation code of the client's DART and UAT classes  *)
(* has in common (proxyclient/m1n1/hw): the pages of a range are joined    *)
(* into pieces, and the entries of a table into blocks to print.           *)
(***************************************************************************)

None == -1      \* a page that is not mapped

\* The loop over pages: a page is joined to the piece before it when it follows
\* it, or when neither is mapped.  A piece is <<address, size>>.
Joins(last, page, PS) == \/ page = None /\ last[1] = None
                         \/ page # None /\ last[1] # None /\ last[1] = page - last[2]

Joined[i \in Nat, pages \in Seq(Int), PS \in Nat] ==
    IF i = 0 THEN <<>>
    ELSE LET r == Joined[i - 1, pages, PS]
         IN IF r # <<>> /\ Joins(r[Len(r)], pages[i], PS)
            THEN [r EXCEPT ![Len(r)] = <<@[1], @[2] + PS>>]
            ELSE Append(r, <<pages[i], PS>>)

\* The last piece is cut to the size, then the first to the offset; an address
\* of zero counts as not mapped.
CutLast(r, PS, esize) == [r EXCEPT ![Len(r)] = <<@[1], (@[2] - PS) + esize>>]
CutFirst(r, soff) == IF soff = 0 THEN r
                     ELSE [r EXCEPT ![1] = <<IF @[1] \notin {None, 0} THEN @[1] + soff ELSE None, @[2] - soff>>]

\* The bytes a list of pieces stands for, in order: the reference.
Bytes(r) == LET At[i \in 0 .. Len(r)] == IF i = 0 THEN <<>>
                        ELSE At[i - 1] \o [k \in 1 .. r[i][2] |-> IF r[i][1] = None THEN None ELSE (r[i][1] + k) - 1]
            IN At[Len(r)]

Blocks_NoLast(t) ==
    LET n == Len(t)
        St[i \in 0 .. n] ==
            IF i = 0 THEN [next |-> None, start |-> 1, out |-> {}]
            ELSE LET s == St[i - 1]
                     done == s.out \cup (IF s.next = None THEN {} ELSE {<<s.start, s.next - (i - s.start), i - s.start>>})
                 IN IF t[i] = None THEN [next |-> None, start |-> s.start, out |-> done]
                    ELSE IF t[i] # s.next THEN [next |-> t[i] + 1, start |-> i, out |-> done]
                    ELSE [s EXCEPT !.next = t[i] + 1]
        e == St[n]
    IN e.out

\* dump_table2: blocks <<first entry, page, entries>> printed for a table whose
\* entries are pages, None where they are not valid.
Blocks(t) ==
    LET n == Len(t)
        \* state after i entries: the entry expected next, and where its block began
        St[i \in 0 .. n] ==
            IF i = 0 THEN [next |-> None, start |-> 1, out |-> {}]
            ELSE LET s == St[i - 1]
                     done == s.out \cup (IF s.next = None THEN {} ELSE {<<s.start, s.next - (i - s.start), i - s.start>>})
                 IN IF t[i] = None THEN [next |-> None, start |-> s.start, out |-> done]
                    ELSE IF t[i] # s.next THEN [next |-> t[i] + 1, start |-> i, out |-> done]
                    ELSE [s EXCEPT !.next = t[i] + 1]
        e == St[n]
    IN e.out \cup (IF e.next = None THEN {} ELSE {<<e.start, e.next - ((n + 1) - e.start), (n + 1) - e.start>>})

\* The reference: maximal runs of pages that follow each other.
Runs(t) == {<<a, t[a], (b - a) + 1>> : <<a, b>> \in
    {p \in (1 .. Len(t)) \X (1 .. Len(t)) :
        /\ p[1] <= p[2] /\ \A k \in p[1] .. p[2] : t[k] # None /\ t[k] = t[p[1]] + (k - p[1])
        /\ (p[1] = 1 \/ t[p[1] - 1] = None \/ t[p[1] - 1] + 1 # t[p[1]])
        /\ (p[2] = Len(t) \/ t[p[2] + 1] # t[p[2]] + 1)}}

-----------------------------------------------------------------------------
(***************************************************************************)
(* Device address tables kept by the client (proxyclient/m1n1/hw/          *)
(* dart8020.py, dart.py).  A mapping is made in a cache of tables, and the *)
(* tables that changed are then written back whole; the register that      *)
(* names a stream's first table is written when the table is made.         *)
(* Somebody else (firmware, a guest) may add entries to the same tables.   *)
(***************************************************************************)

CONSTANTS Streams,   \* streams that translate; Bypass does not
          Fan,       \* entries of a table
          Frames,    \* pages of memory that are mapped
          MaxTabs,   \* bound on tables made
          MaxMaps    \* bound on calls

VARIABLES ttbr,      \* stream -> first table, 0 if none is valid
          mem,       \* table -> entries in memory
          cache,     \* table -> entries in pt_cache, <<>> if not there
          enabled,   \* streams enabled
          tabs,      \* tables made
          job,       \* tables still to be written back
          maps,      \* what has been asked for: <<stream, page, frame>>
          other,     \* entries somebody else added: [t, i, f, known]
          cut,       \* a call was broken off
          calls, ask

oldVars == <<ttbr, mem, cache, enabled, tabs, job, maps, other, cut, calls, ask>>

Bypass == 15
Idx == 0 .. Fan - 1
Pages == 0 .. (Fan * Fan) - 1
Junk == 99                     \* what lies in memory that was not cleared
Zero == [i \in Idx |-> 0]

OldInit ==
    /\ ttbr = [s \in Streams |-> 0] /\ mem = [t \in 1 .. MaxTabs |-> [i \in Idx |-> Junk]]
    /\ cache = [t \in 1 .. MaxTabs |-> <<>>] /\ enabled = {} /\ tabs = 0 /\ job = {} /\ maps = {}
    /\ other = {} /\ cut = FALSE /\ calls = 0 /\ ask = [kind |-> "none"]

-----------------------------------------------------------------------------
get_pt_Zero(c, t) == IF c[t] # <<>> THEN c[t] ELSE Zero
get_pt(c, t) == IF c[t] # <<>> THEN c[t] ELSE mem[t]

\* The walk the device does; table numbers and frames are apart.
HwL1(s, p) == IF ttbr[s] = 0 THEN 0 ELSE mem[ttbr[s]][p \div Fan]
HwWalk(s, p) == LET l2 == HwL1(s, p) IN IF l2 = 0 THEN 0 ELSE IF l2 = Junk THEN Junk ELSE mem[l2][p % Fan]

\* The tables of one page, made where they are missing.
Entered(st, s, p, f) ==
    LET new1 == st.ttbr[s] = 0
        n1 == IF new1 THEN st.tabs + 1 ELSE st.tabs
        t1 == IF new1 THEN n1 ELSE st.ttbr[s]
        c1 == IF new1 THEN [st.cache EXCEPT ![t1] = Zero] ELSE [st.cache EXCEPT ![t1] = get_pt(st.cache, t1)]
        new2 == c1[t1][p \div Fan] = 0
        n2 == IF new2 THEN n1 + 1 ELSE n1
        t2 == IF new2 THEN n2 ELSE c1[t1][p \div Fan]
        c2 == IF new2 THEN [c1 EXCEPT ![t1][p \div Fan] = t2, ![t2] = Zero] ELSE [c1 EXCEPT ![t2] = get_pt(c1, t2)]
    IN [ttbr |-> [st.ttbr EXCEPT ![s] = t1], tabs |-> n2, cache |-> [c2 EXCEPT ![t2][p % Fan] = f],
        dirty |-> st.dirty \cup {t2} \cup (IF new2 THEN {t1} ELSE {})]

MapPage_Uncleared(st, s, p, f) ==
    LET r == Entered(st, s, p, f)
        t == r.cache[r.ttbr[s]][p \div Fan]
    IN [r EXCEPT !.cache[t] = [i \in Idx |-> IF i = p % Fan THEN f ELSE IF st.cache[t] = <<>> THEN mem[t][i] ELSE @[i]]]

MapPage_NoParent(st, s, p, f) ==
    LET r == Entered(st, s, p, f)
    IN [r EXCEPT !.dirty = st.dirty \cup {r.cache[r.ttbr[s]][p \div Fan]}]

\* One page of iomap_at's loop, on [ttbr, cache, tabs, dirty].
MapPage(st, s, p, f) == Entered(st, s, p, f)

\* The loop itself, over one or two pages.
Loop(st, s, p, f, n) ==
    LET a == MapPage(st, s, p, f)
    IN IF n = 1 THEN a ELSE MapPage(a, s, p + 1, f + 1)

\* iomap_at: the stream is enabled, then the mode is looked at, then the pages
\* are entered; the register of a new first table is written at once.
iomap_at == \E s \in Streams \cup {Bypass}, n \in 1 .. 2, p \in Pages, f \in Frames :
    /\ job = {} /\ ~cut /\ calls < MaxMaps /\ calls' = calls + 1
    /\ p + n - 1 \in Pages /\ f + n - 1 \in Frames
    /\ enabled' = enabled \cup {s}
    /\ IF s = Bypass THEN UNCHANGED <<ttbr, cache, tabs, job, maps>>
       ELSE LET r == Loop([ttbr |-> ttbr, cache |-> cache, tabs |-> tabs, dirty |-> {}], s, p, f, n) IN
            /\ r.tabs <= MaxTabs
            /\ ttbr' = r.ttbr /\ cache' = r.cache /\ tabs' = r.tabs /\ job' = r.dirty
            /\ maps' = {m \in maps : m[1] # s \/ m[2] \notin p .. (p + n) - 1} \cup {<<s, p + k, f + k>> : k \in 0 .. n - 1}
    /\ UNCHANGED <<mem, other, cut, ask>>

\* flush_pt, for each table of the set in any order; the whole table is written.
flush_pt == \E t \in job :
    /\ job' = job \ {t} /\ mem' = [mem EXCEPT ![t] = cache[t]]
    /\ UNCHANGED <<ttbr, cache, enabled, tabs, maps, other, cut, calls, ask>>

\* The link fails, or the user breaks in, between two tables.
Broken == job # {} /\ cut' = TRUE /\ job' = {} /\ UNCHANGED <<ttbr, mem, cache, enabled, tabs, maps, other, calls, ask>>

invalidate_cache ==
    /\ job = {} /\ ~cut /\ \E t \in 1 .. MaxTabs : cache[t] # <<>>
    /\ cache' = [t \in 1 .. MaxTabs |-> <<>>]
    /\ UNCHANGED <<ttbr, mem, enabled, tabs, job, maps, other, cut, calls, ask>>

initialize_Register ==
    /\ job = {} /\ ~cut /\ calls < MaxMaps /\ calls' = calls + 1
    /\ enabled' = {} /\ maps' = {} /\ other' = {}
    /\ UNCHANGED <<ttbr, mem, cache, tabs, job, cut, ask>>

\* initialize: every register is made invalid, every stream disabled.
initialize ==
    /\ job = {} /\ ~cut /\ calls < MaxMaps /\ calls' = calls + 1
    /\ ttbr' = [s \in Streams |-> 0] /\ enabled' = {} /\ maps' = {} /\ other' = {}
    /\ UNCHANGED <<mem, cache, tabs, job, cut, ask>>

\* Somebody else enters a page in a second table that is in use.
OtherMaps == \E s \in Streams, p \in Pages :
    LET t == HwL1(s, p) IN
    /\ job = {} /\ ~cut /\ other = {} /\ t \notin {0, Junk} /\ mem[t][p % Fan] = 0
    /\ mem' = [mem EXCEPT ![t][p % Fan] = 50]
    /\ other' = {[s |-> s, p |-> p, t |-> t, known |-> cache[t] # <<>>]}
    /\ UNCHANGED <<ttbr, cache, enabled, tabs, job, maps, cut, calls, ask>>

-----------------------------------------------------------------------------
\* iotranslate's walk: an entry that is not valid in the cache is read again.
Again_Never(t, i) == get_pt(cache, t)[i]
Again(t, i) == IF get_pt(cache, t)[i] = 0 THEN mem[t][i] ELSE get_pt(cache, t)[i]
Translate(s, p) ==
    IF ttbr[s] = 0 THEN 0
    ELSE LET l2 == Again(ttbr[s], p \div Fan) IN IF l2 = 0 THEN 0 ELSE Again(l2, p % Fan)

\* iotranslate's pieces, over pages of two bytes: only which bytes matter.
PS == 2
iotranslate_Whole(pages, start, size) ==
    LET np == (start + size + PS - 1) \div PS
    IN CutFirst(Joined[np, SubSeq(pages, 1, np), PS], start)

iotranslate(pages, start, size) ==
    LET end == start + size
        np == (end + PS - 1) \div PS
    IN CutFirst(CutLast(Joined[np, SubSeq(pages, 1, np), PS], PS, end - ((np - 1) * PS)), start)

Fresh == ask.kind = "none" /\ calls = 0
AskPieces == \E pages \in [1 .. 3 -> {None, 2, 4, 6}], start \in 0 .. 1, size \in 1 .. 5 :
    /\ start + size <= 6
    /\ ask' = [kind |-> "pieces", pages |-> pages, start |-> start, size |-> size, r |-> iotranslate(pages, start, size)]
AskDump == \E t \in [1 .. 4 -> {None, 1, 2, 3}] :
    ask' = [kind |-> "dump", t |-> t, r |-> Blocks(t)]
AskStep == Fresh /\ (AskPieces \/ AskDump) /\ UNCHANGED <<ttbr, mem, cache, enabled, tabs, job, maps, other, cut, calls>>

OldNext == (ask.kind = "none" /\ (iomap_at \/ flush_pt \/ Broken \/ invalidate_cache \/ initialize \/ OtherMaps)) \/ AskStep

OldSpec == OldInit /\ [][OldNext]_oldVars

-----------------------------------------------------------------------------
OldTypeOK ==
    /\ ttbr \in [Streams -> 0 .. MaxTabs] /\ tabs \in 0 .. MaxTabs /\ job \subseteq 1 .. MaxTabs
    /\ enabled \subseteq Streams \cup {Bypass} /\ cut \in BOOLEAN

\* Once a call has returned, the device reaches every page that was mapped, as
\* it was mapped last, on a stream that is enabled.
MapsReached ==
    job = {} /\ ~cut => \A m \in maps : HwWalk(m[1], m[2]) = m[3] /\ m[1] \in enabled

\* The device reaches nothing else: no memory that was never cleared, and no
\* page of another stream.  While a call writes its tables back it may.
NothingElse ==
    job = {} /\ ~cut => \A s \in Streams, p \in Pages :
        HwWalk(s, p) # 0 => <<s, p, HwWalk(s, p)>> \in maps \/ \E o \in other : o.s = s /\ o.p = p

\* A page entered by somebody else stays, if the client had not read the table
\* before; a table it holds is written back as it was.
OthersKept ==
    job = {} /\ ~cut => \A o \in other : o.known \/ HwWalk(o.s, o.p) # 0

\* What the client translates is what the device reaches, even where somebody
\* else has entered a page in a table the client holds.
TranslateAgrees ==
    job = {} /\ ~cut => \A s \in Streams, p \in Pages : Translate(s, p) = HwWalk(s, p)

\* The pieces of a range are its bytes, in order, with nothing left out.
PiecesExact ==
    ask.kind = "pieces" =>
        LET all == [k \in 1 .. ask.start + ask.size |-> LET pg == ask.pages[((k - 1) \div PS) + 1] IN IF pg = None THEN None ELSE pg + ((k - 1) % PS)]
        IN Bytes(ask.r) = SubSeq(all, ask.start + 1, ask.start + ask.size)

\* The blocks a table is printed as are its runs.
DumpExact == ask.kind = "dump" => ask.r = Runs(ask.t)

-----------------------------------------------------------------------------
(***************************************************************************)
(* The second kind of device address tables (proxyclient/m1n1/hw/          *)
(* dart8110.py): one register names a stream's first table, and a stream   *)
(* may use one level more.  The mapping of a page in a four level stream   *)
(* whose first entry is there already uses a variable that has no value    *)
(* yet on the first page of a call, which ends the call.                   *)
(***************************************************************************)

CONSTANTS Four, Three,   \* streams with four levels, and with three
          NewMaxTabs, NewMaxMaps

VARIABLES newTtbr, newMem, newCache, on, newTabs, newJob, newMaps, newCalls

newVars == <<newTtbr, newMem, newCache, on, newTabs, newJob, newMaps, newCalls>>

NewStreams == Four \cup {Three}
NewIdx == 0 .. 1
NewPages == 0 .. 7
NewJunk == 99
NewZero == [i \in NewIdx |-> 0]

\* Indices of a page in the tables of a stream, from the first.
Path(s, p) == IF s \in Four THEN <<(p \div 4) % 2, (p \div 2) % 2, p % 2>> ELSE <<(p \div 2) % 2, p % 2>>

NewInit ==
    /\ newTtbr = [s \in NewStreams |-> 0] /\ newMem = [t \in 1 .. NewMaxTabs |-> [i \in NewIdx |-> NewJunk]]
    /\ newCache = [t \in 1 .. NewMaxTabs |-> <<>>] /\ on = {} /\ newTabs = 0 /\ newJob = {} /\ newMaps = {} /\ newCalls = 0

new_get_pt(c, t) == IF c[t] # <<>> THEN c[t] ELSE newMem[t]

NewHwWalk(s, p) ==
    LET w == Path(s, p)
        At[k \in 0 .. Len(w)] == IF k = 0 THEN newTtbr[s] ELSE IF At[k - 1] \in {0, NewJunk} THEN At[k - 1] ELSE newMem[At[k - 1]][w[k]]
    IN At[Len(w)]

Descend_ParentClean(st, t, i) ==
    LET c == [st.cache EXCEPT ![t] = new_get_pt(st.cache, t)]
        n == st.tabs + 1
    IN IF c[t][i] # 0 THEN [st EXCEPT !.cache = c, !.at = c[t][i]]
       ELSE [cache |-> [c EXCEPT ![t][i] = n, ![n] = NewZero], tabs |-> n, dirty |-> st.dirty, at |-> n]

\* A table is made where the entry for it is missing; the entry's table is dirty.
Descend(st, t, i) ==
    LET c == [st.cache EXCEPT ![t] = new_get_pt(st.cache, t)]
        n == st.tabs + 1
    IN IF c[t][i] # 0 THEN [st EXCEPT !.cache = c, !.at = c[t][i]]
       ELSE [cache |-> [c EXCEPT ![t][i] = n, ![n] = NewZero], tabs |-> n, dirty |-> st.dirty \cup {t}, at |-> n]

\* The page's own entry; the table it is in is always dirty.
Enter(st, i, f) == LET c == [st.cache EXCEPT ![st.at] = new_get_pt(st.cache, st.at)]
                   IN [st EXCEPT !.cache = [c EXCEPT ![st.at][i] = f], !.dirty = @ \cup {st.at}]

\* One page of iomap_at's loop, below the first table.
NewMapPage(st, s, p, f) ==
    LET w == Path(s, p)
        top == [st EXCEPT !.at = IF newTtbr[s] # 0 THEN newTtbr[s] ELSE newTabs + 1]
        l1 == IF s \in Four THEN Descend(top, top.at, w[1]) ELSE top
        l2 == Descend(l1, l1.at, w[Len(w) - 1])
    IN Enter(l2, w[Len(w)], f)

\* A call on a four level stream dies if the first entry of its first page is
\* there: l1pte is read before it is set.
Unbound(s, p) == s \in Four /\ newTtbr[s] # 0 /\ new_get_pt(newCache, newTtbr[s])[Path(s, p)[1]] # 0

Top(s) == IF newTtbr[s] # 0 THEN [cache |-> newCache, tabs |-> newTabs] ELSE [cache |-> [newCache EXCEPT ![newTabs + 1] = NewZero], tabs |-> newTabs + 1]

new_iomap_at == \E s \in NewStreams, n \in 1 .. 2, p \in NewPages :
        /\ newJob = {} /\ newCalls < NewMaxMaps /\ newCalls' = newCalls + 1
        /\ p + n - 1 \in NewPages /\ (s = Three => p + n - 1 < 4) /\ newTabs + 5 <= NewMaxTabs
        /\ on' = on \cup {s}
        /\ IF Unbound(s, p) THEN UNCHANGED <<newTtbr, newCache, newTabs, newJob, newMaps>>
           ELSE /\ newTtbr' = [newTtbr EXCEPT ![s] = IF @ = 0 THEN newTabs + 1 ELSE @]
                /\ LET t == Top(s)
                       a == NewMapPage([cache |-> t.cache, tabs |-> t.tabs, dirty |-> {}, at |-> 0], s, p, 31 + p)
                       b == IF n = 1 THEN a ELSE NewMapPage(a, s, p + 1, 32 + p)
                   IN newCache' = b.cache /\ newTabs' = b.tabs /\ newJob' = b.dirty
                /\ newMaps' = newMaps \cup {<<s, p + k, 31 + p + k>> : k \in 0 .. n - 1}
        /\ UNCHANGED newMem

\* The tables a call made dirty are written back one after another.
new_flush_pt ==
    /\ newJob # {} /\ newJob' = {} /\ newMem' = [t \in 1 .. NewMaxTabs |-> IF t \in newJob THEN newCache[t] ELSE newMem[t]]
    /\ UNCHANGED <<newTtbr, newCache, on, newTabs, newMaps, newCalls>>

\* initialize: registers of every stream; the cache of tables is kept.
new_initialize ==
    /\ newJob = {} /\ on # {} /\ newTtbr' = [s \in NewStreams |-> 0] /\ on' = {} /\ newMaps' = {}
    /\ UNCHANGED <<newMem, newCache, newTabs, newJob, newCalls>>

new_invalidate_cache ==
    /\ newJob = {} /\ \E t \in 1 .. NewMaxTabs : newCache[t] # <<>> /\ newCache' = [u \in 1 .. NewMaxTabs |-> <<>>]
    /\ UNCHANGED <<newTtbr, newMem, on, newTabs, newJob, newMaps, newCalls>>

NewNext == new_iomap_at \/ new_flush_pt \/ new_initialize \/ new_invalidate_cache

NewSpec == NewInit /\ [][NewNext]_newVars

\* iotranslate's walk; an entry missing from the cache is looked up again.
NewAgain(t, i) == IF new_get_pt(newCache, t)[i] = 0 THEN newMem[t][i] ELSE new_get_pt(newCache, t)[i]
new_iotranslate_Short(s, p) ==
    LET w == <<(p \div 2) % 2, p % 2>>
        At[k \in 0 .. Len(w)] == IF k = 0 THEN newTtbr[s] ELSE IF At[k - 1] = 0 THEN 0 ELSE NewAgain(At[k - 1], w[k])
    IN At[Len(w)]
new_iotranslate(s, p) ==
    LET w == Path(s, p)
        At[k \in 0 .. Len(w)] == IF k = 0 THEN newTtbr[s] ELSE IF At[k - 1] = 0 THEN 0 ELSE NewAgain(At[k - 1], w[k])
    IN At[Len(w)]

-----------------------------------------------------------------------------
NewTypeOK ==
    /\ newTtbr \in [NewStreams -> 0 .. NewMaxTabs] /\ newTabs \in 0 .. NewMaxTabs /\ on \subseteq NewStreams

\* Once a call has returned, the device reaches every page mapped, at either
\* depth, and nothing that was not mapped.
DepthsReached ==
    newJob = {} =>
           /\ \A m \in newMaps : NewHwWalk(m[1], m[2]) = m[3] /\ m[1] \in on
           /\ \A s \in Four, p \in NewPages : NewHwWalk(s, p) # 0 => <<s, p, NewHwWalk(s, p)>> \in newMaps

\* The client translates as the device does.
SameWalk == newJob = {} => \A s \in Four, p \in NewPages : new_iotranslate(s, p) = NewHwWalk(s, p)

-----------------------------------------------------------------------------
(***************************************************************************)
(* The GPU's address tables (proxyclient/m1n1/hw/uat.py): every context    *)
(* has a pair of first tables, the second shared with the firmware.  Table *)
(* changes are made in a cache on the client, the changed tables are       *)
(* written back as a whole, and an entry missing from the cache is looked  *)
(* for again in memory, after everything changed has been written.         *)
(*                                                                         *)
(* The client reads structures through a stream that reads ahead; the      *)
(* second machine is that stream.                                          *)
(***************************************************************************)

CONSTANTS UatMaxTabs, UatMaxMaps

VARIABLES part, uatMem, uatCache, dirty, uatTabs, ready, bound, uatMaps, uatCalls, fw, over,
          pos, ahead, bytes, got

uatVars == <<part, uatMem, uatCache, dirty, uatTabs, ready, bound, uatMaps, uatCalls, fw, over, pos, ahead, bytes, got>>

Ctx == 0 .. 1
UatIdx == 0 .. 1
Kern == 1                    \* the shared table, ttbr1_base
User == 2                    \* ttbr0_base of context 0
FwTab == 3                   \* a table of the firmware's own, under Kern[0]
FwPage == 77
Root(c) == 100 + c
Tables == 1 .. UatMaxTabs \cup {Root(c) : c \in Ctx}
UatZero == [i \in UatIdx |-> 0]
StaleTab == 4
UatNone == <<>>

Page == 0 .. 7               \* half of the space, middle table, last table
UatPath(p) == <<p \div 4, (p \div 2) % 2, p % 2>>

Starts == {1, 2, 5, 6}       \* first pages mapped

BytesAt == 0 .. 7
PageSize == 4
CACHE_SIZE == 2
Mapped == 0 .. 7             \* the stream's third page is not mapped
NoBytes == <<>>

UatInit ==
    /\ part = "none"
    /\ uatMem = [t \in Tables |-> IF t = Kern THEN [i \in UatIdx |-> IF i = 0 THEN FwTab ELSE StaleTab]
                              ELSE IF t \in {FwTab, StaleTab} THEN [i \in UatIdx |-> IF i = 0 THEN FwPage ELSE 0] ELSE UatZero]
    /\ uatCache = [t \in Tables |-> <<>>] /\ dirty = {} /\ uatTabs = StaleTab /\ ready = FALSE /\ bound = {} /\ uatMaps = {} /\ uatCalls = 0
    /\ fw = {<<4, FwPage>>} /\ over = FALSE
    /\ pos = 0 /\ ahead = NoBytes /\ bytes = [a \in BytesAt |-> a] /\ got = UatNone

-----------------------------------------------------------------------------
(* State threaded through a call: st.mem, st.cache, st.dirty, st.tabs. *)
Now == [mem |-> uatMem, cache |-> uatCache, dirty |-> dirty, tabs |-> uatTabs]

uat_get_pt(st, t) == IF st.cache[t] # <<>> THEN st ELSE [st EXCEPT !.cache[t] = st.mem[t]]

flush_dirty_FirstOnly(st) == IF st.dirty = {} THEN st ELSE LET t == CHOOSE u \in st.dirty : TRUE IN [st EXCEPT !.mem[t] = st.cache[t], !.dirty = {}]
flush_dirty(st) == [st EXCEPT !.mem = [t \in Tables |-> IF t \in st.dirty THEN st.cache[t] ELSE st.mem[t]], !.dirty = {}]

\* The entry read, and the state after reading it.
fetch_pte_NoFlush(st, t, i) ==
    LET a == uat_get_pt(st, t)
        b == [a EXCEPT !.cache[t] = a.mem[t]]
    IN IF a.cache[t][i] > 0 \/ st.cache[t] = <<>> THEN [st |-> a, pte |-> a.cache[t][i]] ELSE [st |-> b, pte |-> b.cache[t][i]]
fetch_pte(st, t, i) ==
    LET a == uat_get_pt(st, t)
        f == flush_dirty(a)
        b == [f EXCEPT !.cache[t] = f.mem[t]]
    IN IF a.cache[t][i] > 0 \/ st.cache[t] = <<>> THEN [st |-> a, pte |-> a.cache[t][i]] ELSE [st |-> b, pte |-> b.cache[t][i]]

write_pte(st, t, i, v) == LET a == uat_get_pt(st, t) IN [a EXCEPT !.cache[t][i] = v, !.dirty = @ \cup {t}]

\* A table is made for a missing entry.  The first level's entry gets the
\* table's place without being made valid: only binding a context does that.
Step(r, t, i, top) ==
    LET f == fetch_pte(r, t, i)
        n == f.st.tabs + 1
    IN IF f.pte > 0 THEN [st |-> f.st, at |-> f.pte]
       ELSE [st |-> write_pte([f.st EXCEPT !.tabs = n, !.mem[n] = UatZero], t, i, IF top THEN -n ELSE n), at |-> n]

UatMapPage(st, c, p, v) ==
    LET w == UatPath(p)
        l1 == Step(st, Root(c), w[1], TRUE)
        l2 == Step(l1.st, l1.at, w[2], FALSE)
    IN write_pte(l2.st, l2.at, w[3], v)

set_l0(st, c, i, base) == write_pte(st, Root(c), i, base)

\* init clears the stale half of the shared table, then binds context 0.
init_Keeps(st) ==
    LET d == flush_dirty(set_l0(set_l0(st, 0, 0, User), 0, 1, Kern))
    IN [d EXCEPT !.cache = [t \in Tables |-> <<>>]]
init(st) ==
    LET c == [st EXCEPT !.mem[Kern][1] = 0]
        d == flush_dirty(set_l0(set_l0(c, 0, 0, User), 0, 1, Kern))
    IN [d EXCEPT !.cache = [t \in Tables |-> <<>>]]

Settle(st) == uatMem' = st.mem /\ uatCache' = st.cache /\ dirty' = st.dirty /\ uatTabs' = st.tabs

Idle == UNCHANGED <<pos, ahead, bytes, got>>

uat_iomap_at == \E c \in Ctx, p \in Starts, n \in 1 .. 2, v \in {0, 30} :
        /\ part \in {"none", "tables"} /\ part' = "tables"
        /\ uatCalls < UatMaxMaps /\ uatCalls' = uatCalls + 1 /\ p + n - 1 \in Page /\ uatTabs + 4 <= UatMaxTabs
        /\ (c = 0) = (p >= 4) /\ (n = 2 => p \div 4 = (p + 1) \div 4) = TRUE
        /\ LET s == IF ready THEN Now ELSE init(Now)
               a == UatMapPage(s, c, p, IF v = 0 THEN 0 ELSE v + p)
               b == IF n = 1 THEN a ELSE UatMapPage(a, c, p + 1, IF v = 0 THEN 0 ELSE v + p + 1)
           IN Settle(b)
        /\ ready' = TRUE /\ bound' = bound \cup {0}
        /\ uatMaps' = {m \in uatMaps : m[1] # c \/ m[2] \notin p .. p + n - 1} \cup
                      (IF v = 0 \/ c \notin bound' THEN {} ELSE {<<c, p + k, v + p + k>> : k \in 0 .. n - 1})
        /\ fw' = {m \in fw : c # 0 \/ m[1] \notin p .. p + n - 1}
        /\ UNCHANGED over /\ Idle

flush == part = "tables" /\ dirty # {} /\ Settle(flush_dirty(Now)) /\ UNCHANGED <<part, ready, bound, uatMaps, uatCalls, fw, over>> /\ Idle

\* bind_context, for a table that was cleared; a context is bound once.
bind_context ==
    /\ part = "tables" /\ ready /\ 1 \notin bound /\ uatTabs + 5 <= UatMaxTabs /\ uatCalls < UatMaxMaps /\ uatCalls' = uatCalls + 1
    /\ LET n == uatTabs + 1
           d == flush_dirty(set_l0(set_l0([Now EXCEPT !.tabs = n], 1, 0, n), 1, 1, Kern))
       IN Settle([d EXCEPT !.cache = [t \in Tables |-> <<>>]])
    /\ bound' = bound \cup {1} /\ UNCHANGED <<part, ready, uatMaps, fw, over>> /\ Idle

\* The firmware fills an entry of its own table.  If the client holds a copy
\* and has changed it, writing it back drops the entry.
FwMaps ==
    /\ part = "tables" /\ uatMem[FwTab][1] = 0 /\ uatCalls < UatMaxMaps /\ uatCalls' = uatCalls + 1
    /\ uatMem' = [uatMem EXCEPT ![FwTab][1] = FwPage + 1] /\ fw' = fw \cup {<<5, FwPage + 1>>}
    /\ over' = (over \/ uatCache[FwTab] # <<>>)
    /\ UNCHANGED <<part, uatCache, dirty, uatTabs, ready, bound, uatMaps>> /\ Idle

translate(c, p) ==
    LET w == UatPath(p)
        a == fetch_pte(Now, Root(c), w[1])
        b == fetch_pte(a.st, a.pte, w[2])
        d == fetch_pte(b.st, b.pte, w[3])
    IN IF a.pte <= 0 THEN [st |-> a.st, pte |-> 0] ELSE IF b.pte <= 0 THEN [st |-> b.st, pte |-> 0] ELSE d

uat_iotranslate == \E c \in bound, p \in Page :
        part = "tables" /\ Settle(translate(c, p).st) /\ UNCHANGED <<part, ready, bound, uatMaps, uatCalls, fw, over>> /\ Idle

\* recurse_level, as foreach_page uses it: the pages below every valid entry.
Held(t) == IF uatCache[t] # <<>> THEN uatCache[t] ELSE uatMem[t]
foreach_page_Memory(c) ==
    LET Under(u, d) == IF uatMem[u][d] > 0 THEN uatMem[u][d] ELSE 0
    IN {p \in Page : LET a == Under(Root(c), UatPath(p)[1])
                         b == IF a = 0 THEN 0 ELSE Under(a, UatPath(p)[2])
                     IN b > 0 /\ Under(b, UatPath(p)[3]) > 0}
foreach_page(c) ==
    LET Under(u, d) == IF Held(u)[d] > 0 THEN Held(u)[d] ELSE 0
    IN {p \in Page : LET a == Under(Root(c), UatPath(p)[1])
                         b == IF a = 0 THEN 0 ELSE Under(a, UatPath(p)[2])
                     IN b > 0 /\ Under(b, UatPath(p)[3]) > 0}

-----------------------------------------------------------------------------
(* The stream. *)
Least(a, b) == IF a < b THEN a ELSE b
ToCache_Past(a) == CACHE_SIZE
ToCache(a) == Least(PageSize - (a % PageSize), CACHE_SIZE)
Cut(s, n) == SubSeq(s, n + 1, Len(s))

\* ioread: the bytes of a range all of which is mapped.
ioread(a, n) == [i \in 1 .. n |-> bytes[a + i - 1]]
CanRead(a, n) == n = 0 \/ (\A b \in a .. a + n - 1 : b \in Mapped)

\* iowrite, over a range all of which is mapped.
iowrite(a, n) == [b \in BytesAt |-> IF b \in a .. a + n - 1 THEN 50 + b ELSE bytes[b]]

Fill(a, n) == IF n > ToCache(a) THEN n ELSE ToCache(a)

read == \E n \in 1 .. 4 :
    LET cached == Len(ahead)
        more == n - cached
        at == pos + cached
        k == Fill(at, more)
    IN /\ part \in {"none", "stream"} /\ part' = "stream" /\ uatCalls < UatMaxMaps + 1 /\ uatCalls' = uatCalls + 1
       /\ IF cached >= n THEN got' = <<pos, SubSeq(ahead, 1, n)>> /\ pos' = pos + n /\ ahead' = Cut(ahead, n)
          ELSE IF CanRead(at, k) THEN got' = <<pos, ahead \o SubSeq(ioread(at, k), 1, more)>> /\ pos' = pos + n /\ ahead' = Cut(ioread(at, k), more)
          ELSE got' = <<pos, <<>>, n>> /\ pos' = at /\ ahead' = NoBytes
       /\ UNCHANGED <<uatMem, uatCache, dirty, uatTabs, ready, bound, uatMaps, fw, over, bytes>>

write_Keeps == \E n \in 1 .. 2 :
    /\ part = "stream" /\ uatCalls < UatMaxMaps + 1 /\ uatCalls' = uatCalls + 1 /\ CanRead(pos, n)
    /\ bytes' = iowrite(pos, n)
    /\ pos' = pos + n /\ got' = UatNone
    /\ UNCHANGED <<part, uatMem, uatCache, dirty, uatTabs, ready, bound, uatMaps, fw, over, ahead>>
write == \E n \in 1 .. 2 :
    /\ part = "stream" /\ uatCalls < UatMaxMaps + 1 /\ uatCalls' = uatCalls + 1 /\ CanRead(pos, n)
    /\ bytes' = iowrite(pos, n)
    /\ pos' = pos + n /\ ahead' = NoBytes /\ got' = UatNone
    /\ UNCHANGED <<part, uatMem, uatCache, dirty, uatTabs, ready, bound, uatMaps, fw, over>>

seek == \E a \in {0, 3, 4} :
    /\ part = "stream" /\ uatCalls < UatMaxMaps + 1 /\ uatCalls' = uatCalls + 1
    /\ pos' = a /\ ahead' = NoBytes /\ got' = UatNone
    /\ UNCHANGED <<part, uatMem, uatCache, dirty, uatTabs, ready, bound, uatMaps, fw, over, bytes>>

UatNext == uat_iomap_at \/ flush \/ bind_context \/ FwMaps \/ uat_iotranslate \/ read \/ write \/ seek

UatSpec == UatInit /\ [][UatNext]_uatVars

-----------------------------------------------------------------------------
UatTypeOK ==
    /\ uatTabs \in StaleTab .. UatMaxTabs /\ dirty \subseteq Tables /\ bound \subseteq Ctx /\ pos \in 0 .. 40 /\ uatCalls \in 0 .. UatMaxMaps + 1
    /\ \A t \in dirty : uatCache[t] # <<>>

\* The walk the GPU makes.
Valid(t) == IF t > 0 THEN t ELSE 0
UatHwWalk(c, p) ==
    LET w == UatPath(p)
        a == Valid(uatMem[Root(c)][w[1]])
        b == IF a = 0 THEN 0 ELSE Valid(uatMem[a][w[2]])
    IN IF b = 0 THEN 0 ELSE Valid(uatMem[b][w[3]])

\* With nothing left to write back, a bound context reaches exactly what is
\* mapped in it, and the firmware's own pages through the shared half,
\* unless the firmware changed a table the client held a copy of.
GpuReaches ==
    dirty = {} /\ ready /\ ~over =>
        \A c \in bound, p \in Page :
            LET v == UatHwWalk(c, p)
                o == IF p >= 4 THEN 0 ELSE c
            IN IF v = 0 THEN ~\E m \in uatMaps : m[1] = o /\ m[2] = p
               ELSE <<o, p, v>> \in uatMaps \/ (p >= 4 /\ <<p, v>> \in fw)

\* Translating gives what the GPU will reach once all is written back, also
\* for pages changed since.
TranslateSees ==
    part = "tables" /\ ~over =>
        \A c \in bound, p \in Page :
            LET o == IF p >= 4 THEN 0 ELSE c
                v == Valid(translate(c, p).pte)
            IN IF v = 0 THEN ~\E m \in uatMaps : m[1] = o /\ m[2] = p
               ELSE <<o, p, v>> \in uatMaps \/ (p >= 4 /\ <<p, v>> \in fw)

\* Listing a context's pages lists those the GPU will reach.
ListsAll ==
    part = "tables" /\ ~over =>
        \A c \in bound : foreach_page(c) = {p \in Page : Valid(translate(c, p).pte) # 0}

\* A read through the stream gives the bytes at its place, own writes
\* included, and fails only if a byte it was asked for is not mapped.
StreamExact ==
    got # UatNone =>
        IF Len(got) = 2 THEN got[2] = ioread(got[1], Len(got[2])) /\ pos = got[1] + Len(got[2])
        ELSE ~CanRead(got[1], got[3])
=============================================================================
