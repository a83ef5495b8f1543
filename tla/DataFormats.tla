-------------------------------- MODULE DataFormats --------------------------------
(***************************************************************************)
(* The device tree (proxyclient/m1n1/adt.py) and the versioned structures  *)
(* of constructutils.py.  Each section is a machine of its own.            *)
(***************************************************************************)
EXTENDS Integers, Sequences, FiniteSets, SequencesExt

-----------------------------------------------------------------------------
(***************************************************************************)
(* The client's copy of Apple's device tree (m1n1/adt.py): how a property  *)
(* gets its type and is built back into bytes, how nodes are found, made,  *)
(* replaced and deleted by path, and how an address of a device is carried *)
(* through the "ranges" of its buses to an address of the CPU and back.    *)
(*                                                                         *)
(* Editing and the two pure parts are explored apart.                      *)
(***************************************************************************)

CONSTANTS Names,    \* names of nodes below the root
          MaxNodes, \* nodes made
          MaxOps    \* edits

VARIABLES kids, name, ppath, count, ops, renamed, made, ask

treeVars == <<kids, name, ppath, count, ops, renamed, made, ask>>

Root == 0
Ids == 0 .. MaxNodes
NoAsk == [kind |-> "none"]

TreeInit ==
  /\ kids = [i \in Ids |-> <<>>]
  /\ name = [i \in Ids |-> "device-tree"]
  /\ ppath = [i \in Ids |-> <<>>]
  /\ count = 0 /\ ops = 0 /\ renamed = FALSE /\ made = <<>> /\ ask = NoAsk

(* ------------------------------- editing -------------------------------- *)
(* ADTNode._path: the parent's path as it was when the node was made, and the node's own name *)
Path_Own(i) == <<name[Root], name[i]>>
Path(i) == Append(ppath[i], name[i])

(* __getitem__ with one name: the first child that has it, -1 when there is none *)
Child(i, n) ==
  LET at == {k \in 1 .. Len(kids[i]) : name[kids[i][k]] = n}
  IN  IF at = {} THEN -1 ELSE kids[i][CHOOSE k \in at : \A j \in at : k <= j]

(* __getitem__ with a path splits it at the first slash *)
getitem(i, p) ==
  LET G[k \in 0 .. Len(p)] == IF k = 0 THEN i ELSE IF G[k - 1] = -1 THEN -1 ELSE Child(G[k - 1], p[k])
  IN  G[Len(p)]

(* __setitem__: in the place of the first child of that name, or at the end *)
setitem_Appends(i, n, v) == Append(kids[i], v)
setitem(i, n, v) ==
  LET at == {k \in 1 .. Len(kids[i]) : name[kids[i][k]] = n}
  IN  IF at = {} THEN Append(kids[i], v)
      ELSE [kids[i] EXCEPT ![CHOOSE k \in at : \A j \in at : k <= j] = v]

(* __delitem__ *)
delitem(i, n) ==
  LET at == {k \in 1 .. Len(kids[i]) : name[kids[i][k]] = n}
  IN  IF at = {} THEN kids[i] ELSE RemoveAt(kids[i], CHOOSE k \in at : \A j \in at : k <= j)

RECURSIVE Below(_)
Below(i) == {i} \cup UNION {Below(kids[i][k]) : k \in 1 .. Len(kids[i])}
Reached == Below(Root)
RECURSIVE WhereIs(_, _)
WhereIs(i, j) ==
  IF i = j THEN {<<>>}
  ELSE UNION {{<<name[kids[i][k]]>> \o p : p \in WhereIs(kids[i][k], j)} : k \in 1 .. Len(kids[i])}

Paths == {<<>>} \cup {<<a>> : a \in Names} \cup (Names \X Names)
Edits == ask = NoAsk /\ ops < MaxOps

(* create_node("a/b/c"): found from the root down to the last name, whose node is new *)
create_node ==
  /\ Edits /\ count < MaxNodes
  /\ \E p \in Paths, n \in Names :
       LET at == getitem(Root, p)
           new == count + 1
       IN  /\ at # -1
           /\ count' = new /\ ops' = ops + 1
           /\ name' = [name EXCEPT ![new] = n]
           /\ ppath' = [ppath EXCEPT ![new] = Path(at)]
           /\ kids' = [kids EXCEPT ![at] = setitem(at, n, new)]
           /\ made' = <<Append(p, n), new>>
  /\ UNCHANGED <<renamed, ask>>

del ==
  /\ Edits
  /\ \E p \in Paths, n \in Names :
       LET at == getitem(Root, p)
       IN  /\ at # -1 /\ Child(at, n) # -1
           /\ kids' = [kids EXCEPT ![at] = delitem(at, n)]
  /\ ops' = ops + 1 /\ made' = <<>>
  /\ UNCHANGED <<name, ppath, count, renamed, ask>>

(* node.name = "..." changes the property and nothing else *)
rename ==
  /\ Edits
  /\ \E i \in Reached \ {Root}, n \in Names : n # name[i] /\ name' = [name EXCEPT ![i] = n]
  /\ ops' = ops + 1 /\ renamed' = TRUE /\ made' = <<>>
  /\ UNCHANGED <<kids, ppath, count, ask>>

(* --------------------------------- buses -------------------------------- *)
(* A bus is a list of ranges, from the device outwards; the walk ends at a node without any. *)
In(x, base, size) == base <= x /\ x < base + size

FirstBus(b, x) == LET at == {k \in 1 .. Len(b) : In(x, b[k].bus, b[k].size)}
                  IN  IF at = {} THEN 0 ELSE CHOOSE k \in at : \A j \in at : k <= j
FirstUp(b, x) == LET at == {k \in 1 .. Len(b) : In(x, b[k].up, b[k].size)}
                 IN  IF at = {} THEN 0 ELSE CHOOSE k \in at : \A j \in at : k <= j

translate(buses, x) ==
  LET T[k \in 0 .. Len(buses)] ==
        IF k = 0 THEN x
        ELSE LET i == FirstBus(buses[k], T[k - 1])
             IN  IF i = 0 THEN T[k - 1] ELSE T[k - 1] - buses[k][i].bus + buses[k][i].up
  IN  T[Len(buses)]

to_bus_addr_Inwards(buses, y) ==
  LET T[k \in 0 .. Len(buses)] ==
        IF k = 0 THEN y
        ELSE LET i == FirstUp(buses[k], T[k - 1])
             IN  IF i = 0 THEN T[k - 1] ELSE T[k - 1] - buses[k][i].up + buses[k][i].bus
  IN  T[Len(buses)]
to_bus_addr(buses, y) ==
  LET T[k \in 1 .. Len(buses) + 1] ==
        IF k = Len(buses) + 1 THEN y
        ELSE LET i == FirstUp(buses[k], T[k + 1])
             IN  IF i = 0 THEN T[k + 1] ELSE T[k + 1] - buses[k][i].up + buses[k][i].bus
  IN  T[1]

Ranges == [bus : {0, 4}, up : {0, 8, 16}, size : {4, 6}]
Buses == {<<r>> : r \in Ranges} \cup {<<r, s>> : r, s \in Ranges}
AskBus ==
  /\ count = 0 /\ ops = 0 /\ ask = NoAsk
  /\ \E inner \in Buses, outer \in {<<[bus |-> 8, up |-> 32, size |-> 16]>>, <<[bus |-> 0, up |-> 40, size |-> 24]>>}, x \in 0 .. 9 :
       LET buses == <<inner, outer>>
           y == translate(buses, x)
       IN  ask' = [kind |-> "bus", buses |-> buses, x |-> x, y |-> y, back |-> to_bus_addr(buses, y)]
  /\ UNCHANGED <<kids, name, ppath, count, ops, renamed, made>>

(* ------------------------------- properties ----------------------------- *)
(* A value is its length and what its bytes look like: "text" ends in a NUL after printable bytes, *)
(* "pair" has the four zero bytes of two small 64-bit numbers.                                    *)
Values == [len : 0 .. 16, look : {"text", "pair", "other"}]
Kinds == {"template", "table4", "function", "reg", "ranges", "interrupts", "dapf", "std4", "std8", "stdtext", "plain"}

(* The elements a type cuts a value into: whole says that an incomplete one at the end raises,     *)
(* otherwise SafeGreedyRange swallows it.  e = 0: the bytes are kept as they are.                  *)
As(e, whole) == [e |-> e, whole |-> whole]
Raw == As(0, TRUE)
Text == As(1, TRUE)

(* parse_prop, in the order of its tests: the device's own table, function-, reg with the parent's *)
(* cells (12 bytes here), ranges (12), the three DAPF layouts (5, 7 and 8 here for 52, 56 and 64), *)
(* interrupts, the standard names, and what the bytes look like                                    *)
Shape(v) ==
  IF v.look = "text" THEN Text
  ELSE IF v.len = 4 THEN As(4, TRUE)
  ELSE IF v.len = 8 \/ (v.len = 16 /\ v.look = "pair") THEN As(8, TRUE)
  ELSE Raw
Typed_AnyReg(k, v) ==
  CASE k = "reg" -> As(12, FALSE)
    [] k = "ranges" -> As(12, FALSE)
    [] k = "template" \/ k = "stdtext" -> Text
    [] OTHER -> Shape(v)
Typed(k, v) ==
  CASE k = "template" \/ k = "stdtext" -> Text
    [] k = "table4" -> As(4, TRUE)
    [] k = "function" -> IF v.len = 4 THEN As(4, TRUE) ELSE As(4, FALSE)
    [] k = "reg" -> IF v.len % 12 = 0 THEN As(12, FALSE) ELSE Shape(v)
    [] k = "ranges" -> As(12, FALSE)
    [] k = "dapf" -> IF v.len % 5 = 0 THEN As(5, TRUE) ELSE IF v.len % 7 = 0 THEN As(7, TRUE)
                     ELSE IF v.len % 8 = 0 THEN As(8, TRUE) ELSE Raw
    [] k = "interrupts" -> As(4, TRUE)
    [] k = "std4" -> As(4, FALSE)
    [] k = "std8" -> As(8, TRUE)
    [] OTHER -> Shape(v)

(* What is built back has as many whole elements as were parsed; -1: parsing raises *)
parse_prop(k, v) ==
  IF v.len = 0 THEN 0
  ELSE LET t == Typed(k, v)
       IN  IF t.e = 0 THEN v.len
           ELSE IF t.whole /\ v.len % t.e # 0 THEN -1
           ELSE (v.len \div t.e) * t.e

AskProp ==
  /\ count = 0 /\ ops = 0 /\ ask = NoAsk
  /\ \E k \in Kinds, v \in Values :
       /\ k \in {"template", "stdtext"} => v.look = "text"
       /\ ask' = [kind |-> "prop", k |-> k, v |-> v, r |-> parse_prop(k, v)]
  /\ UNCHANGED <<kids, name, ppath, count, ops, renamed, made>>

TreeNext == create_node \/ del \/ rename \/ AskBus \/ AskProp

TreeSpec == TreeInit /\ [][TreeNext]_treeVars

-----------------------------------------------------------------------------
(* Type invariant. *)
TreeTypeOK ==
  /\ count \in 0 .. MaxNodes /\ ops \in 0 .. MaxOps /\ renamed \in BOOLEAN
  /\ \A i \in Ids : name[i] \in Names \cup {"device-tree"} /\ \A k \in 1 .. Len(kids[i]) : kids[i][k] \in Ids

(* create_node leaves one node of that name under the parent, the new one, and the path it was      *)
(* given finds it; before any rename no two children of a node share a name.                        *)
PathsFind ==
  /\ made # <<>> /\ ~renamed => getitem(Root, made[1]) = made[2]
  /\ ~renamed => \A i \in Reached : IsInjective([k \in 1 .. Len(kids[i]) |-> name[kids[i][k]]])

(* A node of the tree says the path it is found under, however nodes were replaced and deleted, as  *)
(* long as no node above it was renamed (the parent's path is copied when a node is made).          *)
PathsTrue ==
  ~renamed => \A i \in Reached \ {Root} :
                 WhereIs(Root, i) = {SubSeq(Path(i), 2, Len(Path(i)))}

(* The way back: an address that every bus on the way translated, through parent windows that do    *)
(* not overlap, returns from to_bus_addr as it was.                                                 *)
BusAndBack ==
  ask.kind = "bus" =>
    LET b == ask.buses
        Apart(s) == \A j, k \in 1 .. Len(s) : j # k => s[j].up + s[j].size <= s[k].up \/ s[k].up + s[k].size <= s[j].up
        mid == translate(<<b[1]>>, ask.x)
    IN  (FirstBus(b[1], ask.x) # 0 /\ FirstBus(b[2], mid) # 0 /\ Apart(b[1]) /\ Apart(b[2])) => ask.back = ask.x

(* A property that parses is built back in its own length, so the tree can be written over the one  *)
(* it was read from, except where SafeGreedyRange swallows an incomplete element at the end.        *)
BuiltBack ==
  ask.kind = "prop" =>
    \/ ask.r \in {-1, ask.v.len}
    \/ ask.k \in {"function", "std4"} /\ ask.v.len % 4 # 0
    \/ ask.k = "ranges" /\ ask.v.len % 12 # 0

-----------------------------------------------------------------------------
(***************************************************************************)
(* Structures of a firmware whose layout depends on its version            *)
(* (m1n1/constructutils.py).  A class lists fields, some of them only for  *)
(* some versions; a field may be a number, a nested structure, or a        *)
(* pointer, which takes no room and goes with a number that holds the      *)
(* address.  Offsets are computed once, when the class is made; building,  *)
(* parsing and sizes follow the version that is set at the time.           *)
(***************************************************************************)

CONSTANT Versions  \* firmware versions

VARIABLES cls, ver, off, late, mem, sub, ptr, pc, back, structAsk

structVars == <<cls, ver, off, late, mem, sub, ptr, pc, back, structAsk>>

(* A field: its name, its cells, the versions that have it, and "num", "nest" or "ptr" *)
Field(n, s, vs, k) == [name |-> n, size |-> s, vers |-> vs, kind |-> k]
Active(f, v) == v \in f.vers
SizeOf(f, v) == IF Active(f, v) /\ f.kind # "ptr" THEN f.size ELSE 0

None == -1

(* The classes explored: a number of some versions, a nested structure that may differ between      *)
(* versions and come before or after its other form, a number, and a pointer with its address.      *)
Classes ==
  LET nums(n) == {Field(n, 2, vs, "num") : vs \in SUBSET Versions \ {{}}}
      nest(s, vs) == Field("n", s, vs, "nest")
      mids == {<<>>, <<nest(2, Versions)>>} \cup {<<nest(2, Versions \ {v}), nest(3, {v})>> : v \in Versions}
              \cup {<<nest(3, {v}), nest(2, Versions \ {v})>> : v \in Versions}
              \cup {<<nest(2, Versions \ {v}), Field("c", 1, Versions, "num"), nest(3, {v})>> : v \in Versions}
      ends == {<<>>, <<Field("p_addr", 1, Versions, "num"), Field("p", 0, Versions, "ptr")>>}
  IN  {<<a>> \o m \o <<b>> \o e : a \in nums("a"), m \in mids, b \in {Field("b", 1, vs, "num") : vs \in SUBSET Versions \ {{}}}, e \in ends}

StructInit ==
  /\ cls = <<>> /\ ver \in Versions /\ off = <<>> /\ late = FALSE
  /\ mem = <<>> /\ sub = None /\ ptr = [has |-> FALSE, addr |-> None] /\ pc = "none" /\ back = <<>>
  /\ structAsk = <<>>

(* Where field i starts when version v is built *)
Start(c, i, v) ==
  LET S[k \in 1 .. Len(c)] == IF k = 1 THEN 0 ELSE S[k - 1] + SizeOf(c[k - 1], v)
  IN  S[i]

(* ReloadableConstructMeta.__new__: the offset table, without the fields the version lacks *)
OffTable_All(c, v) ==
  LET S[k \in 1 .. Len(c)] == IF k = 1 THEN 0 ELSE S[k - 1] + c[k - 1].size
  IN  [n \in {c[i].name : i \in {j \in 1 .. Len(c) : Active(c[j], v)}} |->
        S[CHOOSE i \in 1 .. Len(c) : c[i].name = n /\ Active(c[i], v)]]
OffTable(c, v) ==
  [n \in {c[i].name : i \in {j \in 1 .. Len(c) : Active(c[j], v)}} |->
        Start(c, CHOOSE i \in 1 .. Len(c) : c[i].name = n /\ Active(c[i], v), v)]

Import ==
  /\ pc = "none" /\ structAsk = <<>>
  /\ \E c \in Classes : cls' = c /\ off' = OffTable(c, ver)
  /\ pc' = "class" /\ UNCHANGED <<ver, late, mem, sub, ptr, back, structAsk>>

(* Ver.set_version, before or after the classes are made *)
set_version ==
  /\ pc \in {"none", "class"} /\ structAsk = <<>>
  /\ \E v \in Versions : v # ver /\ ver' = v
  /\ late' = (pc = "class")
  /\ UNCHANGED <<cls, off, mem, sub, ptr, pc, back, structAsk>>

(* The pointed-to object has been pushed somewhere, or only its address was filled in by hand *)
Points ==
  /\ pc = "class" /\ ptr.addr = None
  /\ \E h \in BOOLEAN, a \in {40, 50} : ptr' = [has |-> h, addr |-> a]
  /\ UNCHANGED <<cls, ver, off, late, mem, sub, pc, back, structAsk>>

(* _build_prepare fills the address field from the object; without an object the field stays *)
build_prepare_Always == IF ptr.has THEN ptr.addr ELSE None
build_prepare == ptr.addr

(* _build: the active fields one after the other; cell k of field n holds <<n, k>> *)
Cells_NoVer(c, v) ==
  LET B[k \in 0 .. Len(c)] ==
        IF k = 0 THEN <<>>
        ELSE B[k - 1] \o [j \in 1 .. c[k].size |-> <<c[k].name, j>>]
  IN  B[Len(c)]
Cells(c, v) ==
  LET B[k \in 0 .. Len(c)] ==
        IF k = 0 THEN <<>>
        ELSE B[k - 1] \o [j \in 1 .. SizeOf(c[k], v) |-> <<c[k].name, j>>]
  IN  B[Len(c)]
HasPtr(c) == \E i \in 1 .. Len(c) : c[i].kind = "ptr"

(* _set_meta walks all the fields, the inactive ones as well, which take no room: a nested value is  *)
(* given the place of every field of its name in turn                                                *)
set_meta_First(c, v, n) ==
  LET at == {i \in 1 .. Len(c) : c[i].name = n}
  IN  Start(c, CHOOSE i \in at : \A j \in at : i <= j, v)
set_meta(c, v, n) ==
  LET at == {i \in 1 .. Len(c) : c[i].name = n}
  IN  Start(c, CHOOSE i \in at : \A j \in at : j <= i, v)

Nested(c, v) == {i \in 1 .. Len(c) : c[i].kind = "nest" /\ Active(c[i], v)}
push ==
  /\ pc = "class" /\ (HasPtr(cls) => ptr.addr # None)
  /\ mem' = Cells(cls, ver)
  /\ back' = IF HasPtr(cls) THEN <<build_prepare>> ELSE <<>>
  /\ sub' = IF Nested(cls, ver) = {} THEN None
            ELSE set_meta(cls, ver, cls[CHOOSE i \in Nested(cls, ver) : TRUE].name)
  /\ pc' = "pushed" /\ UNCHANGED <<cls, ver, off, late, ptr, structAsk>>

(* regmap().field.val = x, at the offset of the table; absent fields raise *)
poke ==
  /\ pc = "pushed"
  /\ \E i \in 1 .. Len(cls) :
       /\ cls[i].kind = "num" /\ cls[i].name \in DOMAIN off
       /\ off[cls[i].name] + 1 \in 1 .. Len(mem)
       /\ mem' = [mem EXCEPT ![off[cls[i].name] + 1] = <<cls[i].name, 0>>]
  /\ pc' = "poked" /\ UNCHANGED <<cls, ver, off, late, sub, ptr, back, structAsk>>

(* _parse reads the active fields in order *)
Parsed(c, v, m) == [i \in {j \in 1 .. Len(c) : SizeOf(c[j], v) > 0} |-> SubSeq(m, Start(c, i, v) + 1, Start(c, i, v) + SizeOf(c[i], v))]
pull ==
  /\ pc \in {"pushed", "poked"}
  /\ structAsk' = <<pc, Parsed(cls, ver, mem)>> /\ pc' = "pulled"
  /\ UNCHANGED <<cls, ver, off, late, mem, sub, ptr, back>>

StructNext == Import \/ set_version \/ Points \/ push \/ poke \/ pull

StructSpec == StructInit /\ [][StructNext]_structVars

-----------------------------------------------------------------------------
(* Type invariant. *)
StructTypeOK ==
  /\ ver \in Versions /\ late \in BOOLEAN
  /\ pc \in {"none", "class", "pushed", "poked", "pulled"}
  /\ sub \in -1 .. 20

(* A register written through regmap lands in its own field and in its first cell, whatever fields   *)
(* of other versions lie before it, when the version was set before the class was made.              *)
PokesOwn ==
  pc = "poked" /\ ~late =>
    \A k \in 1 .. Len(mem) : mem[k][2] = 0 =>
      \E i \in 1 .. Len(cls) : cls[i].name = mem[k][1] /\ Active(cls[i], ver) /\ k = Start(cls, i, ver) + 1

(* What was built parses back, field by field, under the version it was built with. *)
BuildsAndParses ==
  pc = "pulled" /\ structAsk[1] = "pushed" =>
    \A i \in DOMAIN structAsk[2] : structAsk[2][i] = [j \in 1 .. cls[i].size |-> <<cls[i].name, j>>]

Twin == \E i \in Nested(cls, ver) : \E j \in i + 1 .. Len(cls) : cls[j].name = cls[i].name

(* A nested structure is told the address its bytes lie at, unless a field of the same name for      *)
(* other versions follows it: set_addr is then called again with that field's place.                 *)
SubAddrTrue ==
  pc = "pushed" /\ sub # None /\ ~Twin =>
    \E i \in Nested(cls, ver) : sub = Start(cls, i, ver)

(* The number beside a pointer holds the address of the object the pointer was given, or the one     *)
(* filled in by hand when there was no object.                                                       *)
PointersFilled == back # <<>> => back = <<ptr.addr>>
=============================================================================
