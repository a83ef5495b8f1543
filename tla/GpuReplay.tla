--------------------------------- MODULE GpuReplay ---------------------------------
(***************************************************************************)
(* Replaying captured bundles and rendering scenes: what is uploaded and   *)
(* compared (tools/a16gpu_replay.py), where everything is placed and in    *)
(* which order the scenes run (tools/a16gpu_render.py), and how shader     *)
(* interfaces are linked.  Each section is a machine of its own.           *)
(***************************************************************************)
EXTENDS Integers, Sequences, FiniteSets, SequencesExt, Folds, FiniteSetsExt

-----------------------------------------------------------------------------
(***************************************************************************)
(* The replay command (tools/a16gpu_replay.py): a bundle directory is      *)
(* validated, its files are uploaded into the render window, its captured  *)
(* indirect buffer is submitted and the readback regions are compared with *)
(* their seeds.  The arena keeps what an earlier, perhaps interrupted,     *)
(* replay left in it.  An address is a cell number; a cell holds the name  *)
(* of what was last stored there.                                          *)
(***************************************************************************)

CONSTANTS Uploads,      \* the spans an upload of a bundle may name
          Readbacks,    \* the spans a readback of a bundle may name
          References,   \* the declared references: spans with a write flag
          IbWords,      \* the addresses the dwords of an IB may look like
          MaxReplays    \* replays of one behaviour

VARIABLES bundle, cell, at, painted, verdict, nreplay

rvars == <<bundle, cell, at, painted, verdict, nreplay>>

\* The render window, the regions in address order, and the memory pointers page.
Region == [ib   |-> [lo |-> 1, hi |-> 2,  write |-> FALSE],
           data |-> [lo |-> 3, hi |-> 5,  write |-> FALSE],
           tex  |-> [lo |-> 6, hi |-> 7,  write |-> FALSE],
           rt   |-> [lo |-> 8, hi |-> 10, write |-> TRUE]]
Memptrs == [lo |-> 14, hi |-> 15]
Cells == 1 .. 10

Span(s) == s.va .. s.va + s.size - 1

region_of(s) ==
    {r \in DOMAIN Region : s.size > 0 /\ Region[r].lo <= s.va /\ s.va + s.size - 1 <= Region[r].hi}

in_memptrs(s) == s.size > 0 /\ Memptrs.lo <= s.va /\ s.va + s.size - 1 <= Memptrs.hi

Apart_EqualOnly(spans) == \A i, j \in 1 .. Len(spans) : i # j => spans[i].va # spans[j].va

\* The spans sorted by start, then by end, and no neighbour starting before its predecessor ends.
Apart(spans) ==
    LET sorted == SortSeq(spans, LAMBDA a, b : a.va < b.va \/ (a.va = b.va /\ a.size < b.size))
    IN  \A i \in 1 .. Len(sorted) - 1 : sorted[i + 1].va >= sorted[i].va + sorted[i].size

UploadOk(u) == region_of(u) # {} /\ region_of(u) # {"ib"}

ReferenceOk_AnyWrite(r) == in_memptrs(r) \/ region_of(r) # {}

ReferenceOk(r) ==
    \/ in_memptrs(r)
    \/ /\ region_of(r) # {}
       /\ r.write => \A g \in region_of(r) : Region[g].write

\* A dword that could be an address of the window has to lie in a declared reference.
Covered(w, refs) ==
    (Region.ib.lo <= w /\ w <= Region.rt.hi) => \E i \in 1 .. Len(refs) : w \in Span(refs[i])

load_bundle(b) ==
    /\ \A i \in 1 .. Len(b.uploads) : UploadOk(b.uploads[i])
    /\ \A i \in 1 .. Len(b.refs) : ReferenceOk(b.refs[i])
    /\ \A i \in 1 .. Len(b.readback) : region_of(b.readback[i]) # {}
    /\ Apart(b.uploads \o b.readback)
    /\ \A i \in 1 .. Len(b.words) : Covered(b.words[i], b.refs)

UpTo(S, n) == UNION {[1 .. k -> S] : k \in 0 .. n}
None == [uploads |-> <<>>, refs |-> <<>>, readback |-> <<>>, words |-> <<>>]
Bundles ==
    {[None EXCEPT !.uploads = u, !.readback = r, !.refs = <<[va |-> 9, size |-> 1, write |-> TRUE]>>] :
        u \in UpTo(Uploads, 2), r \in UpTo(Readbacks, 1)}
    \cup {[None EXCEPT !.refs = r, !.words = w, !.readback = <<[va |-> 8, size |-> 3]>>] :
        r \in UpTo(References, 2), w \in UpTo(IbWords, 1)}
Accepted == {b \in Bundles : load_bundle(b)}

BundleInit ==
    /\ bundle = None
    /\ cell = [c \in Cells |-> "blank"]
    /\ at = "idle"
    /\ painted = FALSE
    /\ verdict = "none"
    /\ nreplay = 0

-----------------------------------------------------------------------------

\* Step RP0: the bundle is refused as a whole before anything is touched.
cmd_replay ==
    /\ at = "idle"
    /\ nreplay < MaxReplays
    /\ nreplay' = nreplay + 1
    /\ \/ /\ bundle' \in Accepted
          /\ at' = "RP1"
          /\ verdict' = "none"
       \/ /\ Bundles # Accepted
          /\ bundle' = None
          /\ at' = "idle"
          /\ verdict' = "refused"
    /\ painted' = FALSE
    /\ UNCHANGED cell

\* What the i-th of a bundle's files leaves in the cells of its span.
Fill(c, spans, what) ==
    FoldSeq(LAMBDA i, acc : [x \in Cells |-> IF x \in Span(spans[i]) THEN what[i] ELSE acc[x]],
            c, [i \in 1 .. Len(spans) |-> i])
Up == <<"up1", "up2">>

Zeroed_Kept(c) == c

Zeroed(c) == [x \in Cells |-> IF x \in Region.data.lo .. Region.data.hi THEN "zero" ELSE c[x]]

\* Step RP1: install_tables, then the code and data regions are zeroed before the uploads and seeds.
Prepare ==
    /\ at = "RP1"
    /\ cell' = Zeroed(cell)
    /\ at' = "upload"
    /\ UNCHANGED <<bundle, painted, verdict, nreplay>>

upload ==
    /\ at = "upload"
    /\ cell' = Fill(cell, bundle.uploads, Up)
    /\ at' = "seed"
    /\ UNCHANGED <<bundle, painted, verdict, nreplay>>

SeedReadback ==
    /\ at = "seed"
    /\ cell' = Fill(cell, bundle.readback, <<"seed">>)
    /\ at' = "RP2"
    /\ UNCHANGED <<bundle, painted, verdict, nreplay>>

\* Step RP2: the IB into r_ib, the references walked, the ring words, the fences.
submit ==
    /\ at = "RP2"
    /\ cell' = Fill(cell, <<[va |-> 1, size |-> 1]>>, <<"ibuf">>)
    /\ at' = "draw"
    /\ UNCHANGED <<bundle, painted, verdict, nreplay>>

\* The stream runs through CB0: it can store wherever the window is writable, declared or not.
draw ==
    /\ at = "draw"
    /\ ~painted
    /\ \E c \in Cells :
          /\ \E r \in DOMAIN Region : c \in Region[r].lo .. Region[r].hi /\ Region[r].write
          /\ cell' = [cell EXCEPT ![c] = "paint"]
    /\ painted' = TRUE
    /\ UNCHANGED <<bundle, at, verdict, nreplay>>

Retire ==
    /\ at = "draw"
    /\ at' = "RP3"
    /\ UNCHANGED <<bundle, cell, painted, verdict, nreplay>>

Outside_AnyReference(b) ==
    {c \in Span(b) : cell[c] # "seed" /\ ~ \E i \in 1 .. Len(bundle.refs) : c \in Span(bundle.refs[i])}

\* The changed words of a readback that no GPU-written reference covers.
Outside(b) ==
    {c \in Span(b) : cell[c] # "seed"
        /\ ~ \E i \in 1 .. Len(bundle.refs) : bundle.refs[i].write /\ c \in Span(bundle.refs[i])}

\* Step RP3: a word changed outside every write stops the command.
ReadBack ==
    /\ at = "RP3"
    /\ at' = "idle"
    /\ verdict' = IF \E i \in 1 .. Len(bundle.readback) : Outside(bundle.readback[i]) # {}
                    THEN "stop" ELSE "done"
    /\ UNCHANGED <<bundle, cell, painted, nreplay>>

LinkDies ==
    /\ at # "idle"
    /\ at' = "idle"
    /\ verdict' = "none"
    /\ bundle' = None
    /\ UNCHANGED <<cell, painted, nreplay>>

BundleNext ==
    \/ cmd_replay \/ Prepare \/ upload \/ SeedReadback \/ submit
    \/ draw \/ Retire \/ ReadBack \/ LinkDies

BundleSpec == BundleInit /\ [][BundleNext]_rvars

-----------------------------------------------------------------------------

BundleTypeOK ==
    /\ cell \in [Cells -> {"blank", "zero", "up1", "up2", "seed", "ibuf", "paint"}]
    /\ at \in {"idle", "RP1", "upload", "seed", "RP2", "draw", "RP3"}
    /\ painted \in BOOLEAN
    /\ verdict \in {"none", "refused", "stop", "done"}
    /\ nreplay \in 0 .. MaxReplays

\* When the stream is submitted every uploaded cell holds what the bundle put there and every readback
\* cell its seed: no file of an accepted bundle overwrites another, the replayed IB is in nobody's cells,
\* although load_bundle compares only neighbours of the sorted spans.
UploadsIntact ==
    at = "draw" /\ ~painted =>
        /\ \A i \in 1 .. Len(bundle.uploads) : \A c \in Span(bundle.uploads[i]) : cell[c] = Up[i]
        /\ \A i \in 1 .. Len(bundle.readback) : \A c \in Span(bundle.readback[i]) : cell[c] = "seed"

\* The shader and descriptor cells a stream can read hold this bundle's bytes or zeros, never the code or
\* data that an earlier replay, finished or cut short, left in the arena.
CodeIsOurs ==
    at \in {"RP2", "draw", "RP3"} =>
        \A c \in Region.data.lo .. Region.data.hi :
            \/ cell[c] = "zero"
            \/ \E i \in 1 .. Len(bundle.uploads) : c \in Span(bundle.uploads[i]) /\ cell[c] = Up[i]
            \/ \E i \in 1 .. Len(bundle.readback) : c \in Span(bundle.readback[i]) /\ cell[c] = "seed"

\* A replay that reports success saw no store outside the references its bundle declares as written in
\* any cell it reads back, whatever the stream did.
StraysReported ==
    verdict = "done" =>
        \A i \in 1 .. Len(bundle.readback) : \A c \in Span(bundle.readback[i]) :
            cell[c] = "paint" =>
                \E j \in 1 .. Len(bundle.refs) : bundle.refs[j].write /\ c \in Span(bundle.refs[j])

\* Every declared write of an accepted bundle is to memory the window maps writable (or the memory
\* pointers page), and every address-like dword of its IB is inside memory that the command walks.
DeclaredReachable ==
    at # "idle" =>
        /\ \A i \in 1 .. Len(bundle.refs) : bundle.refs[i].write =>
              Span(bundle.refs[i]) \subseteq (8 .. 10) \cup (14 .. 15)
        /\ \A i \in 1 .. Len(bundle.words) : bundle.words[i] \in Cells =>
              \E j \in 1 .. Len(bundle.refs) : bundle.words[i] \in Span(bundle.refs[j])

-----------------------------------------------------------------------------
(***************************************************************************)
(* The render command (tools/a16gpu_render.py): which scenes are drawn and *)
(* in which order, where plan() puts every byte of every function in the   *)
(* render regions, and the run itself: uploads, one draw per function read *)
(* back and judged before the next, and the verdict.  Sizes are counted in *)
(* allocation units; a texture and a target are padded to a page of Page   *)
(* units.                                                                  *)
(***************************************************************************)

CONSTANTS Everything,   \* all_scenes(): the scene records, in order
          TexSize,      \* bytes of each texture
          Slot,         \* DATA_SLOT
          Functions,    \* function slots in the IB, code and data regions
          TexRoom,      \* r_tex
          RtRoom        \* r_rt

VARIABLES scenes, layout, target, drawn, stray, results, pos, outcome

pvars == <<scenes, layout, target, drawn, stray, results, pos, outcome>>

Page == 2
Guard == 2                                  \* RT_GUARD
PlanUp(n, align) == ((n + align - 1) \div align) * align

-----------------------------------------------------------------------------
(* Selection *)

out_of_envelope(s) == s.hi

out_of_envelope_last_Unsorted(seq) == seq

out_of_envelope_last(seq) ==
    SelectSeq(seq, LAMBDA s : ~out_of_envelope(s)) \o SelectSeq(seq, LAMBDA s : out_of_envelope(s))



\* args.names is the set of names given (empty: none).
select(args) ==
    CASE args.names # {} -> out_of_envelope_last(SelectSeq(Everything, LAMBDA s : s.name \in args.names))
      [] args.names = {} /\ args.probes ->
            out_of_envelope_last(SelectSeq(Everything, LAMBDA s : s.group = "probe"))
      [] OTHER -> SelectSeq(Everything, LAMBDA s : s.group = "gate" \/ (args.xr /\ s.group = "xr"))

Names == {Everything[i].name : i \in 1 .. Len(Everything)}
GATE == {Everything[i].name : i \in {j \in 1 .. Len(Everything) : Everything[j].group = "gate"}}
Args ==
    {[names |-> n, probes |-> FALSE, xr |-> FALSE] : n \in SUBSET Names}
    \cup {[names |-> {}, probes |-> p, xr |-> x] : p \in BOOLEAN, x \in BOOLEAN}

-----------------------------------------------------------------------------
(* The plan *)

take_Unaligned(acc, req) ==
    LET off == (acc.at \div req.align) * req.align
    IN  [at |-> off + req.n, spans |-> Append(acc.spans, [lo |-> off, n |-> req.n])]

\* take(n, align): the next aligned offset of the function's data slot.
take(acc, req) ==
    LET off == PlanUp(acc.at, req.align)
    IN  [at |-> off + req.n, spans |-> Append(acc.spans, [lo |-> off, n |-> req.n])]

\* The vertex buffer, each stage's buffers and driver table, T#, S# and the bindless set.
Requests(s) ==
    SelectSeq(<<[n |-> s.vbo, align |-> 1]>> \o [i \in 1 .. Len(s.bufs) |-> [n |-> s.bufs[i], align |-> 4]]
              \o <<[n |-> IF s.table THEN 2 ELSE 0, align |-> 4], [n |-> s.ntex, align |-> 1],
                   [n |-> s.nsamp, align |-> 1], [n |-> IF s.fetch THEN 2 ELSE 0, align |-> 1]>>,
              LAMBDA r : r.n > 0)

\* Offsets within a slot, moved to the slot of function k.
DataOf(s, k) ==
    LET got == FoldLeft(take, [at |-> 0, spans |-> <<>>], Requests(s))
    IN  [fits |-> got.at <= Slot,
         spans |-> [i \in 1 .. Len(got.spans) |-> [got.spans[i] EXCEPT !.lo = @ + k * Slot]]]

\* A texture seen before keeps its place; a new one goes after the last, the next on a page of its own.
PlaceTex(acc, t) ==
    IF t \in DOMAIN acc.tex THEN acc
    ELSE [acc EXCEPT !.tex = [x \in DOMAIN acc.tex \cup {t} |-> IF x = t THEN acc.texAt ELSE acc.tex[x]],
                     !.texAt = @ + PlanUp(TexSize[t], Page),
                     !.ok = @ /\ acc.texAt + TexSize[t] <= TexRoom]

PlaceRt_NoGuard(acc, h) ==
    [acc EXCEPT !.rts = Append(@, [slot |-> acc.rtAt, image |-> acc.rtAt + Guard, rows |-> h, size |-> Guard + PlanUp(h, Page)]),
                !.rtAt = @ + PlanUp(h, Page)]

\* Every target has a guard before it; the plan ends with one more.
PlaceRt(acc, h) ==
    [acc EXCEPT !.rts = Append(@, [slot |-> acc.rtAt, image |-> acc.rtAt + Guard, rows |-> h, size |-> Guard + PlanUp(h, Page)]),
                !.rtAt = @ + Guard + PlanUp(h, Page)]

PlanOne(acc, s) ==
    LET k == Len(acc.fns)
        tex == FoldLeft(PlaceTex, acc, s.tex)
        rts == FoldLeft(PlaceRt, [tex EXCEPT !.rts = <<>>], s.rts)
        data == DataOf(s, k)
    IN  [rts EXCEPT !.fns = Append(@, [data |-> data.spans, rts |-> rts.rts]),
                    !.ok = @ /\ k < Functions /\ data.fits /\ rts.rtAt + Guard <= RtRoom]

plan(seq) ==
    FoldLeft(PlanOne, [tex |-> <<>>, texAt |-> 0, rts |-> <<>>, rtAt |-> 0, fns |-> <<>>, ok |-> TRUE], seq)

NoPlan == plan(<<>>)

-----------------------------------------------------------------------------
(* The run *)

PlanInit ==
    /\ scenes = <<>>
    /\ layout = NoPlan
    /\ target = <<>>
    /\ drawn = 0
    /\ stray = FALSE
    /\ results = <<>>
    /\ pos = "idle"
    /\ outcome = [stop |-> "none", gate |-> FALSE]

Stop(why) == outcome' = [stop |-> why, gate |-> FALSE] /\ pos' = "end"

\* R0: scenes, goldens and variants are checked, the plan made and every stream built once.
cmd_render ==
    /\ pos = "idle"
    /\ \E args \in Args : scenes' = select(args)
    /\ \E ok \in BOOLEAN : LET p == plan(scenes') IN
          IF ok /\ p.ok THEN layout' = p /\ pos' = "R1" /\ UNCHANGED outcome
          ELSE UNCHANGED layout /\ Stop("R0")
    /\ UNCHANGED <<target, drawn, stray, results>>

\* The rows of an image, and what the upload leaves in r_rt: canary, except the rows.
Rows(rt) == rt.image .. rt.image + rt.rows - 1
rt_region_bytes ==
    [c \in 0 .. layout.rtAt + Guard - 1 |->
        IF \E f \in 1 .. Len(layout.fns) : \E j \in 1 .. Len(layout.fns[f].rts) : c \in Rows(layout.fns[f].rts[j])
          THEN "init" ELSE "canary"]

\* R1: textures, code, data and targets; the targets come last, over what an earlier run left.
Upload ==
    /\ pos = "R1"
    /\ target' = rt_region_bytes
    /\ pos' = "R2"
    /\ UNCHANGED <<scenes, layout, drawn, stray, results, outcome>>

\* The GPU draws the next function; a wrong address or pitch makes it store up to a guard's length past
\* one of its targets, at either end.
render_submit ==
    /\ pos = "R2"
    /\ drawn < Len(layout.fns)
    /\ LET rts == layout.fns[drawn + 1].rts
           own == UNION {Rows(rts[j]) : j \in 1 .. Len(rts)}
       IN  \E j \in 0 .. Len(rts), d \in {1 - Guard, 1} :
              LET extra == IF j = 0 THEN {}
                           ELSE {(IF d > 0 THEN rts[j].image + rts[j].rows - 1 + d ELSE rts[j].image - 1 + d)}
              IN  /\ target' = [c \in DOMAIN target |-> IF c \in own THEN "drawn"
                                                        ELSE IF c \in extra THEN "stray" ELSE target[c]]
                  /\ stray' = (extra # {})
    /\ pos' = "read"
    /\ UNCHANGED <<scenes, layout, drawn, results, outcome>>

ReadLength_SlotOnly(rt) == rt.size

\* The slot and the guard that follows it, against what was uploaded, the image's rows left out.
ReadLength(rt) == rt.size + Guard
GuardsIntact(rt) ==
    \A c \in (rt.slot .. rt.slot + ReadLength(rt) - 1) \ Rows(rt) : target[c] = rt_region_bytes[c]

\* The readback of every target of the function: guards first, then the comparison with the golden.
Judge ==
    /\ pos = "read"
    /\ LET rts == layout.fns[drawn + 1].rts IN
       IF \A j \in 1 .. Len(rts) : GuardsIntact(rts[j])
         THEN /\ \E fits \in BOOLEAN : results' = Append(results, fits)
              /\ drawn' = drawn + 1
              /\ pos' = "R2"
              /\ UNCHANGED outcome
         ELSE Stop("R2") /\ UNCHANGED <<results, drawn>>
    /\ UNCHANGED <<scenes, layout, target, stray>>

DrawnGate == {i \in 1 .. Len(results) : scenes[i].name \in GATE}
gate_drawn == {scenes[i].name : i \in DrawnGate} = GATE
gate_met_AnySubset == \A i \in DrawnGate : results[i]

gate_met == gate_drawn /\ \A i \in DrawnGate : results[i]

\* R3
Verdict ==
    /\ pos = "R2"
    /\ drawn = Len(layout.fns)
    /\ outcome' = [stop |-> IF \A i \in 1 .. Len(results) : results[i] THEN "ok" ELSE "R3", gate |-> gate_met]
    /\ pos' = "end"
    /\ UNCHANGED <<scenes, layout, target, drawn, stray, results>>

PlanNext == cmd_render \/ Upload \/ render_submit \/ Judge \/ Verdict

PlanSpec == PlanInit /\ [][PlanNext]_pvars

-----------------------------------------------------------------------------

PlanTypeOK ==
    /\ drawn \in 0 .. Functions
    /\ stray \in BOOLEAN
    /\ results \in Seq(BOOLEAN)
    /\ pos \in {"idle", "R1", "R2", "read", "end"}
    /\ outcome.stop \in {"none", "ok", "R0", "R2", "R3"} /\ outcome.gate \in BOOLEAN

Cover(x) == x.lo .. x.lo + x.n - 1
RtSpan(f, j) == layout.fns[f].rts[j].image - Guard .. layout.fns[f].rts[j].image + layout.fns[f].rts[j].rows - 1

\* An accepted plan gives no byte two owners: data of any two functions, textures, and targets with the
\* guard before each are pairwise disjoint and inside their regions, although textures are shared.
PlanDisjoint ==
    pos # "idle" /\ layout.ok =>
        LET F == 1 .. Len(layout.fns)
            D == {<<f, i>> \in F \X (1 .. 12) : i <= Len(layout.fns[f].data)}
            T == {<<f, j>> \in F \X (1 .. 4) : j <= Len(layout.fns[f].rts)}
        IN  /\ \A x, y \in D : x # y =>
                  Cover(layout.fns[x[1]].data[x[2]]) \cap Cover(layout.fns[y[1]].data[y[2]]) = {}
            /\ \A x \in D : Cover(layout.fns[x[1]].data[x[2]]) \subseteq ((x[1] - 1) * Slot .. x[1] * Slot - 1)
            /\ \A x, y \in T : x # y => RtSpan(x[1], x[2]) \cap RtSpan(y[1], y[2]) = {}
            /\ \A s, t \in DOMAIN layout.tex : s # t =>
                  (layout.tex[s] .. layout.tex[s] + TexSize[s] - 1) \cap (layout.tex[t] .. layout.tex[t] + TexSize[t] - 1) = {}
            /\ \A t \in DOMAIN layout.tex : layout.tex[t] + TexSize[t] <= TexRoom

\* A draw that stored outside its own targets, before or after any of them, is never counted as a result:
\* the command stops at that function, before anything else is drawn.
OverrunStops == pos \in {"R2", "end"} /\ stray => outcome.stop = "R2"

\* gate_met is claimed only when every gate scene was drawn by this command and every one matched; a
\* --functions subset, the XR set or the probes never decide it.
GateHonest ==
    outcome.gate => \A g \in GATE : \E i \in 1 .. Len(results) : scenes[i].name = g /\ results[i]

\* No function inside the envelope is drawn after one that programs state outside it.
EnvelopeLast ==
    \A i, j \in 1 .. Len(scenes) : i < j /\ out_of_envelope(scenes[i]) => out_of_envelope(scenes[j])

-----------------------------------------------------------------------------
(***************************************************************************)
(* What the render command derives from a compiled shader variant before   *)
(* it builds a command stream: descriptor counts and arrays, the UBO       *)
(* table, interpolation modes, varying linkage and colour outputs          *)
(* (tools/a16gpu_bindings.py, a16gpu_render.py, a16gpu_p6p7.py).  A mask   *)
(* is the set of its bits.  A variant is chosen, derived from, and kept    *)
(* when nothing refuses it.                                                *)
(***************************************************************************)

CONSTANTS MaxTex,     \* T# and S# of a stage (MAX_TEX)
          UboSlots,   \* UBO descriptors a8xx honours (UBO_SLOTS)
          Lanes       \* locations in one interpolation word

VARIABLES variant, derived

lvars == <<variant, derived>>

Refused == [kind |-> "refused"]
Highest(S) == IF S = {} THEN -1 ELSE Max(S)
Slots == 0 .. MaxTex

-----------------------------------------------------------------------------
(* Descriptors *)

sampler_slots(v) ==
    IF v.api \cap v.const # {} THEN {} ELSE v.api \cup v.const

texture_counts_NoBoundCheck(v) ==
    IF \/ ~(v.ntex <= MaxTex /\ v.nsamp <= MaxTex)
       \/ v.num < Max({v.ntex, v.nsamp}) \/ (v.num > Max({v.ntex, v.nsamp}) /\ ~v.fetch)
      THEN -1 ELSE Min({v.num, MaxTex})

texture_counts(v) ==
    IF \/ ~(v.ntex <= MaxTex /\ v.nsamp <= MaxTex)
       \/ v.ntex < 1 + Highest(v.tex) \/ v.nsamp < 1 + Highest(v.api \cup v.const)
       \/ v.num < Max({v.ntex, v.nsamp}) \/ (v.num > Max({v.ntex, v.nsamp}) /\ ~v.fetch)
      THEN -1 ELSE Min({v.num, MaxTex})

\* The T# and S# arrays the function uploads: a hole is zero, respectively the default sampler.
data_uploads(v, n) ==
    LET loads == v.tex # {} \/ v.api # {} \/ v.const # {} IN
    [t |-> IF n > 0 /\ loads THEN [i \in 0 .. n - 1 |-> IF i \in v.tex THEN "texture" ELSE "zero"] ELSE <<>>,
     s |-> IF n > 0 /\ loads
             THEN [i \in 0 .. n - 1 |-> IF i \in v.const THEN "const" ELSE IF i \in v.api THEN "api" ELSE "default"]
             ELSE <<>>]

Descriptors(v) ==
    LET n == texture_counts(v) IN
    IF n < 0 \/ (sampler_slots(v) = {} /\ v.api # {}) THEN Refused
    ELSE [kind |-> "desc", n |-> n, arrays |-> data_uploads(v, n)]

Textured ==
    {v \in [kind : {"desc"}, tex : SUBSET Slots, api : SUBSET {0, MaxTex}, const : SUBSET {0, 1},
            ntex : 0 .. MaxTex + 1, nsamp : 0 .. MaxTex + 1, num : 0 .. MaxTex + 1, fetch : BOOLEAN] :
        v.num >= v.ntex - 1}

-----------------------------------------------------------------------------
(* Uniform buffers *)

driver_table_ubo(v) == IF Cardinality(v.device) = 1 /\ v.stat \in {-1} \cup v.device THEN v.device ELSE {}

ubo_table_Collides(v) == [s \in v.ubo \cup driver_table_ubo(v) |-> IF s \in driver_table_ubo(v) THEN "table" ELSE "buffer"]

ubo_table(v) ==
    IF driver_table_ubo(v) \cap v.ubo # {} THEN <<>>
    ELSE [s \in v.ubo \cup driver_table_ubo(v) |-> IF s \in v.ubo THEN "buffer" ELSE "table"]

\* check_variant's limits on the slots and on the descriptor count.
check_variant(v) ==
    /\ v.count <= UboSlots
    /\ v.device # {} => driver_table_ubo(v) # {}
    /\ \A s \in v.device \cup v.ubo : s < UboSlots

Ubos(v) ==
    LET t == ubo_table(v) IN
    IF \/ ~check_variant(v)
       \/ (v.ubo # {} \/ v.device # {}) /\ t = <<>>
       \/ \E s \in DOMAIN t : s >= v.count
      THEN Refused
    ELSE [kind |-> "ubo", table |-> t]

Buffered ==
    [kind : {"ubo"}, ubo : SUBSET (0 .. UboSlots), device : SUBSET {0, UboSlots - 1}, stat : {-1, 0},
     count : 0 .. UboSlots + 1]

-----------------------------------------------------------------------------
(* Varyings *)

SlotLayer == 22
INTERP_FLAT == {0}      \* bits of the two-bit mode
INTERP_ZERO == {1}

\* The bits a mode sets in its word.
ModeBits(loc, mode) == {<<loc \div Lanes, (loc % Lanes) * 2 + b>> : b \in mode}

PackedAt_Sparse(inp, c) == inp.inloc + c

\* Location of component c of an input: only components of the mask take one.
PackedAt(inp, c) == inp.inloc + Cardinality({b \in inp.mask : b < c})

interp_one(inp, vsSlots) ==
    IF inp.mask = {} \/ ~inp.bary THEN {}
    ELSE IF inp.slot = SlotLayer
      THEN ModeBits(inp.inloc, IF inp.slot \notin vsSlots /\ 0 \in inp.mask THEN INTERP_ZERO ELSE INTERP_FLAT)
    ELSE IF inp.flat THEN UNION {ModeBits(PackedAt(inp, c), INTERP_FLAT) : c \in inp.mask}
    ELSE {}

interp_regs(v) == UNION {interp_one(v.inputs[i], v.vsSlots) : i \in 1 .. Len(v.inputs)}

\* link_vpc: position goes after the last linked location; the transfer mask is taken before it.
link_vpc_InPlace(v) == [position |-> v.maxLoc - 1, varmask |-> v.locs \cup (v.maxLoc - 1 .. v.maxLoc + 2), fs |-> v.locs,
                        maxLoc |-> v.maxLoc + 3]
link_vpc(v) ==
    IF ~v.writesPos THEN [position |-> 255, varmask |-> v.locs, fs |-> v.locs, maxLoc |-> v.maxLoc]
    ELSE [position |-> v.maxLoc, varmask |-> v.locs \cup (v.maxLoc .. v.maxLoc + 3), fs |-> v.locs, maxLoc |-> v.maxLoc + 4]

fs_outputs_RegistersOnly(v) ==
    LET used == {i \in DOMAIN v.outs : v.outs[i].reg} IN
    [count |-> 1 + Highest(used),
     alias |-> {<<i, c>> \in used \X (0 .. 3) : c \in v.outs[i].alias},
     mrt |-> used \X (0 .. 3)]

\* Colour outputs: an output counts with a register or with aliased (constant) components.
fs_outputs(v) ==
    LET used == {i \in DOMAIN v.outs : v.outs[i].reg \/ v.outs[i].alias # {}} IN
    [count |-> 1 + Highest(used),
     alias |-> {<<i, c>> \in used \X (0 .. 3) : c \in v.outs[i].alias},
     mrt |-> used \X (0 .. 3)]

program_linkage(v) == [kind |-> "link", interp |-> interp_regs(v), vpc |-> link_vpc(v), out |-> fs_outputs(v)]

\* Two inputs of a fragment shader, packed one after the other; the second may be gl_Layer.
Inputs ==
    {<<[slot |-> 32, mask |-> m1, bary |-> TRUE, flat |-> f1, inloc |-> 0],
       [slot |-> s2, mask |-> m2, bary |-> b2, flat |-> f2, inloc |-> Cardinality(m1)]>> :
        m1 \in (SUBSET (0 .. 2)) \ {{}}, f1 \in BOOLEAN, s2 \in {SlotLayer, 33}, m2 \in {{}, {0}, {0, 2}},
        b2 \in BOOLEAN, f2 \in BOOLEAN}

Linked ==
    {[kind |-> "link", inputs |-> i, vsSlots |-> vs, writesPos |-> p, maxLoc |-> Cardinality(i[1].mask) + 2,
      locs |-> 0 .. Cardinality(i[1].mask) - 1, outs |-> o] :
        i \in Inputs, vs \in {{32, 33}, {32, 33, SlotLayer}}, p \in BOOLEAN,
        o \in {[k \in 0 .. 1 |-> IF k = 0 THEN [reg |-> r, alias |-> {}] ELSE [reg |-> FALSE, alias |-> a]] :
                  r \in BOOLEAN, a \in {{}, {3}}}}

-----------------------------------------------------------------------------

LinkInit == variant = [kind |-> "none"] /\ derived = [kind |-> "none"]

Derive(v) ==
    CASE v.kind = "desc" -> Descriptors(v) [] v.kind = "ubo" -> Ubos(v) [] v.kind = "link" -> program_linkage(v)

Choose(S) ==
    /\ variant.kind = "none"
    /\ variant' \in S
    /\ derived' = Derive(variant')

LinkNext == Choose(Textured) \/ Choose(Buffered) \/ Choose(Linked)

LinkSpec == LinkInit /\ [][LinkNext]_lvars

-----------------------------------------------------------------------------

LinkTypeOK == derived.kind \in {"none", "refused", variant.kind}

\* Every T# and S# an accepted shader reads has its own descriptor, of the right kind, in an array no
\* longer than the hardware's slots, whatever counts the compiler reported.
DescriptorsCover ==
    derived.kind = "desc" =>
        /\ derived.n <= MaxTex
        /\ \A i \in variant.tex : i < derived.n /\ derived.arrays.t[i] = "texture"
        /\ \A i \in variant.api : i < derived.n /\ derived.arrays.s[i] = "api"
        /\ \A i \in variant.const : i < derived.n /\ derived.arrays.s[i] = "const"

\* Every constant buffer and the driver table keep a descriptor of their own, among those the code loads.
UbosKept ==
    derived.kind = "ubo" =>
        /\ \A s \in variant.ubo : derived.table[s] = "buffer" /\ s < variant.count
        /\ \A s \in variant.device : derived.table[s] = "table" /\ s < variant.count

\* The location that the k-th component an input keeps occupies, counting components in order.
ComponentAt(inp, loc) ==
    \E c \in inp.mask : loc = inp.inloc + Cardinality({b \in inp.mask : b < c})

\* Each location's interpolation mode is its own input's: flat where that input is flat, zero where a
\* layer nobody writes is read, smooth everywhere else; position and the transfer mask do not overlap
\* and every aliased output component is in the mask of written ones.
LinkExact ==
    derived.kind = "link" =>
        /\ \A loc \in 0 .. 7 :
              LET has == {b \in {0, 1} : <<loc \div Lanes, (loc % Lanes) * 2 + b>> \in derived.interp}
                  flat == \E i \in 1 .. Len(variant.inputs) : variant.inputs[i].flat /\ variant.inputs[i].bary
                              /\ variant.inputs[i].slot # SlotLayer /\ ComponentAt(variant.inputs[i], loc)
                  layer == \E i \in 1 .. Len(variant.inputs) : variant.inputs[i].slot = SlotLayer
                              /\ variant.inputs[i].bary /\ variant.inputs[i].mask # {} /\ loc = variant.inputs[i].inloc
              IN  has = IF flat THEN {0} ELSE IF ~layer THEN {}
                        ELSE IF SlotLayer \in variant.vsSlots THEN {0} ELSE {1}
        /\ derived.vpc.position # 255 =>
              (derived.vpc.position .. derived.vpc.position + 3) \cap (0 .. variant.maxLoc - 1) = {}
        /\ \A i \in DOMAIN variant.outs : \A c \in variant.outs[i].alias :
              <<i, c>> \in derived.out.alias /\ <<i, c>> \in derived.out.mrt /\ i < derived.out.count
=============================================================================
