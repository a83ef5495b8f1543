--------------------------- MODULE ProxyLoopProofs ---------------------------
(***************************************************************************)
(* The request loop answers every request where it came from, never mixes  *)
(* the streams of two hosts and carries a request out at most once, for    *)
(* every number of controllers, requests and stray bytes, with links that  *)
(* drop and calls that fault.                                              *)
(***************************************************************************)
EXTENDS ProxyLoop, SequenceTheorems, WellFoundedInduction, TLAPS

-----------------------------------------------------------------------------
(* The operators of the model. *)

(* io_read and io_write take the first port that qualifies: one of them.    *)
LEMMA LowestIn == \A S \in SUBSET Ports : S # {} => Lowest(S) \in S
<1> SUFFICES ASSUME NEW S \in SUBSET Ports, S # {} PROVE Lowest(S) \in S
  BY Zenon
<1>1. S \in SUBSET Nat
  BY LoopAssumption DEF Ports
<1>2. PICK n \in S : \A m \in S : ~(<<m, n>> \in OpToRel(<, Nat))
  BY Zenon, <1>1, WFMin, NatLessThanWellFounded
<1>3. \A m \in S : ~(m < n)
  BY Zenon, <1>1, <1>2 DEF OpToRel
<1>4. \A m \in S : n <= m
  BY <1>1, <1>3
<1> QED BY Zenon, <1>4 DEF Lowest

(* A pinned port is the only one that is read and written. *)
LEMMA PinnedSink ==
  ASSUME NEW p \in Ports, Allowed(p) # {}
  PROVE  Allowed(p) = {p} /\ Sink(p) = p
<1>1. Allowed(p) = {p}
  BY LoopAssumption DEF Allowed, NoPort, Ports
<1>2. Lowest({p}) \in {p}
  BY Zenon, LowestIn
<1> QED BY Zenon, <1>1, <1>2 DEF Sink

(* No request is the one of an idle host. *)
LEMMA NotARequest == NoRequest \notin Request
  BY LoopAssumption DEF NoRequest, Request, NoPort, Ports

(* The units of a frame. *)
LEMMA FrameUnits ==
  ASSUME NEW r
  PROVE  /\ Len(Frame(r)) = IF r.kind = "write" THEN 4 ELSE 3
         /\ Frame(r)[1] = "M" /\ Frame(r)[2] = "b1" /\ Frame(r)[3] = "b2"
         /\ r.kind = "write" => Frame(r)[4] = "d"
<1>1. CASE r.kind = "write"
  BY <1>1 DEF Frame
<1>2. CASE r.kind # "write"
  BY <1>2 DEF Frame
<1> QED BY Zenon, <1>1, <1>2

-----------------------------------------------------------------------------
(* What a step does to one stream and to the innermost activation. *)

(* The first unit of port i was read. *)
Taken(i) ==
  /\ rx' \in [Ports -> Seq(Unit)]
  /\ Len(rx[i]) \in Nat \ {0} /\ Len(rx'[i]) = Len(rx[i]) - 1
  /\ \A k \in 1 .. Len(rx'[i]) : rx'[i][k] = rx[i][k + 1]
  /\ \A j \in Ports \ {i} : rx'[j] = rx[j]

(* Unit u arrived on port i. *)
Arrived(i, u) ==
  /\ rx' \in [Ports -> Seq(Unit)]
  /\ Len(rx[i]) \in Nat /\ Len(rx'[i]) = Len(rx[i]) + 1
  /\ \A k \in 1 .. Len(rx[i]) : rx'[i][k] = rx[i][k]
  /\ rx'[i][Len(rx[i]) + 1] = u
  /\ \A j \in Ports \ {i} : rx'[j] = rx[j]

(* The innermost activation becomes a, the others stay. *)
TopIs(a) ==
  /\ session' \in Seq(Activation)
  /\ Len(session') = Len(session) /\ Len(session) \in Nat \ {0}
  /\ session[1] = Top /\ session'[1] = a /\ Top' = a
  /\ \A k \in 2 .. Len(session) : session'[k] = session[k]

(* Reading from a port with something to read. *)
LEMMA TakeTakes ==
  ASSUME TypeOK, NEW i \in Ports, rx[i] # <<>>, Take(i)
  PROVE  Taken(i) /\ Head(rx[i]) = rx[i][1] /\ Head(rx[i]) \in Unit
<1>1. rx[i] \in Seq(Unit)
  BY Zenon DEF TypeOK
<1>2. /\ Head(rx[i]) \in Unit /\ Tail(rx[i]) \in Seq(Unit)
      /\ Len(Tail(rx[i])) = Len(rx[i]) - 1
      /\ \A k \in 1 .. Len(Tail(rx[i])) : Tail(rx[i])[k] = rx[i][k + 1]
  BY Zenon, <1>1, HeadTailProperties
<1>3. Len(rx[i]) \in Nat \ {0}
  BY Zenon, <1>1, EmptySeq
<1>4. rx' \in [Ports -> Seq(Unit)] /\ rx'[i] = Tail(rx[i]) /\ \A j \in Ports \ {i} : rx'[j] = rx[j]
  BY Zenon, <1>2 DEF TypeOK, Take
<1>5. Head(rx[i]) = rx[i][1]
  BY <1>1, <1>3
<1> QED BY Zenon, <1>2, <1>3, <1>4, <1>5 DEF Taken

(* A unit put behind a stream. *)
LEMMA AppendArrives ==
  ASSUME TypeOK, NEW i \in Ports, NEW u \in Unit, rx' = [rx EXCEPT ![i] = Append(@, u)]
  PROVE  Arrived(i, u)
<1>1. rx[i] \in Seq(Unit)
  BY Zenon DEF TypeOK
<1>2. /\ Append(rx[i], u) \in Seq(Unit)
      /\ Len(Append(rx[i], u)) = Len(rx[i]) + 1
      /\ \A k \in 1 .. Len(rx[i]) : Append(rx[i], u)[k] = rx[i][k]
      /\ Append(rx[i], u)[Len(rx[i]) + 1] = u
  BY <1>1, AppendProperties
<1>3. Len(rx[i]) \in Nat
  BY Zenon, <1>1, LenProperties
<1>4. /\ rx' \in [Ports -> Seq(Unit)] /\ rx'[i] = Append(rx[i], u)
      /\ \A j \in Ports \ {i} : rx'[j] = rx[j]
  BY Zenon, <1>2 DEF TypeOK
<1> QED BY Zenon, <1>2, <1>3, <1>4 DEF Arrived

(* An activation put before a stack, and the stack without its first. *)
LEMMA Pushed ==
  ASSUME NEW a \in Activation, NEW s \in Seq(Activation)
  PROVE  /\ <<a>> \o s \in Seq(Activation)
         /\ Len(s) \in Nat /\ Len(<<a>> \o s) = Len(s) + 1
         /\ Head(<<a>> \o s) = a /\ (<<a>> \o s)[1] = a
         /\ \A k \in 1 .. Len(s) : (<<a>> \o s)[k + 1] = s[k]
<1>1. <<a>> \in Seq(Activation) /\ Len(<<a>>) = 1 /\ <<a>>[1] = a
  OBVIOUS
<1>2. Len(s) \in Nat
  BY Zenon, LenProperties
<1>3. /\ <<a>> \o s \in Seq(Activation) /\ Len(<<a>> \o s) = Len(<<a>>) + Len(s)
      /\ \A k \in 1 .. Len(<<a>>) + Len(s) :
           (<<a>> \o s)[k] = IF k <= Len(<<a>>) THEN <<a>>[k] ELSE s[k - Len(<<a>>)]
  BY Zenon, <1>1, ConcatProperties
<1>4. (<<a>> \o s)[1] = a /\ \A k \in 1 .. Len(s) : (<<a>> \o s)[k + 1] = s[k]
  BY <1>1, <1>2, <1>3
<1>5. Head(<<a>> \o s) = (<<a>> \o s)[1]
  BY <1>1, <1>2, <1>3
<1> QED BY <1>1, <1>2, <1>3, <1>4, <1>5

(* The stack is never empty; its first element is the activation that runs. *)
LEMMA TopType ==
  ASSUME TypeOK
  PROVE  /\ session \in Seq(Activation) /\ session # <<>>
         /\ Len(session) \in Nat \ {0} /\ Top = session[1] /\ Top \in Activation
         /\ Tail(session) \in Seq(Activation) /\ Len(Tail(session)) = Len(session) - 1
         /\ \A k \in 1 .. Len(Tail(session)) : Tail(session)[k] = session[k + 1]
<1>1. session \in Seq(Activation) /\ Len(session) \in Nat \ {0}
  BY LoopAssumption DEF TypeOK
<1>2. session # <<>>
  BY <1>1
<1>3. Top = session[1]
  BY <1>1, <1>2 DEF Top
<1> QED BY Zenon, <1>1, <1>2, <1>3, HeadTailProperties DEF Top

(* SetTop changes the innermost activation and nothing else of the stack.  *)
LEMMA SetTopSets ==
  ASSUME TypeOK, NEW a \in Activation, SetTop(a)
  PROVE  TopIs(a)
<1>1. session' = <<a>> \o Tail(session)
  BY Zenon DEF SetTop
<1>2. /\ session' \in Seq(Activation) /\ Len(session') = Len(Tail(session)) + 1
      /\ Head(session') = a /\ session'[1] = a
      /\ \A k \in 1 .. Len(Tail(session)) : session'[k + 1] = Tail(session)[k]
  BY <1>1, Pushed, TopType
<1>3. \A k \in 2 .. Len(session) : session'[k] = session[k]
  <2> SUFFICES ASSUME NEW k \in 2 .. Len(session) PROVE session'[k] = session[k]
    BY Zenon
  <2>1. k - 1 \in 1 .. Len(Tail(session)) /\ (k - 1) + 1 = k
    BY TopType
  <2> QED BY Zenon, <2>1, <1>2, TopType
<1> QED BY <1>2, <1>3, TopType DEF TopIs, Top

-----------------------------------------------------------------------------
(* Replies go where the request came from. *)

(* What a host has begun is a request of its own, in part or wholly sent.   *)
HostOk ==
  \A i \in Ports :
    \/ host[i].req = NoRequest /\ host[i].sent = 0
    \/ /\ host[i].req \in Request /\ host[i].req.port = i
       /\ host[i].sent \in 1 .. Len(Frame(host[i].req))

(* Every unit in a stream but a stray byte is of a request of that port.    *)
UnitsOk ==
  \A i \in Ports : \A k \in 1 .. Len(rx[i]) :
    rx[i][k].part # "0" => rx[i][k].req \in Request /\ rx[i][k].req.port = i

(* An interrupted activation is in the call that faulted. *)
Callers ==
  \A k \in 2 .. Len(session) :
    session[k].pc = "call" /\ session[k].req \in Request /\ session[k].req.kind = "call"

(* From its magic to its reply a request keeps its port pinned, except a    *)
(* call: an exception session may have released it.                         *)
Resumed == Top.pc \in {"call", "reply"} /\ Top.req.kind = "call"
Owner ==
  /\ Top.pc # "scan" => Top.req \in Request /\ (selected = Top.req.port \/ Resumed)
  /\ Top.pc = "call" => Top.req.kind = "call"

PinInv == TypeOK /\ HostOk /\ UnitsOk /\ Callers /\ Owner /\ PinnedUnlessResumed

(* A reader loses only the first unit: those left are as good as before. *)
LEMMA TakenUnits ==
  ASSUME TypeOK, UnitsOk, NEW i \in Ports, Taken(i)
  PROVE  UnitsOk'
<1> SUFFICES ASSUME NEW j \in Ports, NEW k \in 1 .. Len(rx'[j]), rx'[j][k].part # "0"
             PROVE  rx'[j][k].req \in Request /\ rx'[j][k].req.port = j
  BY Zenon DEF UnitsOk
<1>1. CASE j = i
  <2>1. rx'[i][k] = rx[i][k + 1] /\ k + 1 \in 1 .. Len(rx[i])
    BY <1>1 DEF Taken
  <2> QED BY <1>1, <2>1 DEF UnitsOk
<1>2. CASE j # i
  BY <1>2 DEF Taken, UnitsOk
<1> QED BY Zenon, <1>1, <1>2

(* The interrupted activations stay as they are. *)
LEMMA TopIsCallers ==
  ASSUME Callers, NEW a, TopIs(a) PROVE Callers'
  BY Zenon DEF Callers, TopIs

(* Nothing is sent, selected or pinned at the start. *)
LEMMA PinInitial == Init => PinInv
<1> SUFFICES ASSUME Init PROVE PinInv
  BY Zenon
<1>1. Fresh \in Activation
  BY Zenon DEF Fresh, Activation, Pc
<1>2. session \in Seq(Activation) /\ Len(session) = 1 /\ Top = Fresh
  BY <1>1 DEF Init, Top
<1>3. rx \in [Ports -> Seq(Unit)] /\ \A i \in Ports : Len(rx[i]) = 0
  BY DEF Init
<1>4. host \in [Ports -> [req : Request \cup {NoRequest}, sent : 0 .. 4, zeros : 0 .. MaxZero]]
  BY LoopAssumption DEF Init
<1>5. TypeOK
  BY <1>2, <1>3, <1>4, LoopAssumption DEF TypeOK, Init
<1> QED
  BY <1>2, <1>3, <1>5 DEF PinInv, HostOk, UnitsOk, Callers, Owner, PinnedUnlessResumed, Init, Fresh

(* One pass of the scan. *)
LEMMA ScanPins ==
  ASSUME PinInv, NEW timeout \in BOOLEAN, Scan(timeout) PROVE PinInv'
<1> DEFINE drop == ~io_ready(selected) \/ timeout
           sel == IF drop THEN NoPort ELSE selected
           partial == Top.partial /\ ~drop
<1>1. TypeOK /\ Top \in Activation /\ Top.pc = "scan"
  BY Zenon, TopType DEF PinInv, Scan
<1>2. sel \in Ports \cup {NoPort} /\ partial \in BOOLEAN
  BY Zenon, <1>1 DEF TypeOK, Activation
<1>3. CASE Readable(sel) = {}
  <2>1. /\ selected' = sel /\ SetTop([Top EXCEPT !.partial = partial])
        /\ UNCHANGED <<wire, executed, replies, mangled>>
    BY Zenon, <1>3 DEF Scan
  <2>2. [Top EXCEPT !.partial = partial] \in Activation /\ [Top EXCEPT !.partial = partial].pc = "scan"
    BY Zenon, <1>1, <1>2 DEF Activation
  <2>3. TopIs([Top EXCEPT !.partial = partial])
    BY Zenon, <1>1, <2>1, <2>2, SetTopSets
  <2>4. TypeOK'
    BY Zenon, <1>1, <1>2, <2>1, <2>3 DEF TypeOK, TopIs, wire, sending
  <2>5. Owner'
    BY Zenon, <2>2, <2>3 DEF Owner, TopIs
  <2>6. Callers'
    BY Zenon, <2>3, TopIsCallers DEF PinInv
  <2> QED BY Zenon, <2>1, <2>4, <2>5, <2>6 DEF PinInv, HostOk, UnitsOk, PinnedUnlessResumed, wire, sending
<1>4. CASE Readable(sel) # {}
  <2> DEFINE i == Source(sel)
             u == Head(rx[i])
             a == IF u.part = "M" THEN [Fresh EXCEPT !.pc = "b1", !.req = u.req]
                  ELSE [Top EXCEPT !.partial = TRUE]
  <2>1. i \in Ports /\ rx[i] # <<>>
    BY Zenon, <1>4, LowestIn DEF Source, Readable, Allowed
  <2>2. /\ selected' = i /\ Take(i) /\ SetTop(a)
        /\ UNCHANGED <<ready, sending, executed, replies, mangled>>
    BY Zenon, <1>4 DEF Scan
  <2> HIDE DEF i
  <2>3. Taken(i) /\ u = rx[i][1] /\ u \in Unit
    BY Zenon, <1>1, <2>1, <2>2, TakeTakes
  <2>4. u.part = "M" => u.req \in Request /\ u.req.port = i
    BY <2>1, <2>3 DEF Taken, PinInv, UnitsOk
  <2>5. a \in Activation
    BY Zenon, <1>1, <2>3 DEF Activation, Fresh, Pc, Unit
  <2>6. a.pc # "scan" => a.pc = "b1" /\ a.req \in Request /\ a.req.port = i
    BY Zenon, <1>1, <2>4 DEF Activation, Fresh
  <2>7. TopIs(a)
    BY Zenon, <1>1, <2>2, <2>5, SetTopSets
  <2> HIDE DEF a
  <2>8. TypeOK'
    BY Zenon, <1>1, <2>1, <2>2, <2>3, <2>7 DEF TypeOK, TopIs, Taken, sending
  <2>9. Owner'
    BY Zenon, <2>2, <2>6, <2>7 DEF Owner, TopIs
  <2>10. Callers' /\ UnitsOk'
    BY Zenon, <1>1, <2>1, <2>3, <2>7, TopIsCallers, TakenUnits DEF PinInv
  <2> QED BY Zenon, <2>2, <2>8, <2>9, <2>10 DEF PinInv, HostOk, PinnedUnlessResumed, sending
<1> QED BY Zenon, <1>3, <1>4

(* An activation that has begun a request and is not in or after a call     *)
(* reads from its own port only.                                            *)
LEMMA ReadsOwn ==
  ASSUME PinInv, Top.pc \in {"b1", "b2", "d"}, NEW i \in Ports, ReadFull(i)
  PROVE  /\ i = selected /\ i = Top.req.port /\ Top.req \in Request /\ selected' = i
         /\ Taken(i) /\ Head(rx[i]) = rx[i][1] /\ Head(rx[i]) \in Unit
<1>1. Top.req \in Request /\ selected = Top.req.port
  BY Zenon DEF PinInv, Owner, Resumed
<1>2. selected \in Ports /\ selected # NoPort
  BY <1>1, LoopAssumption DEF Request, Ports, NoPort
<1>3. i \in Allowed(selected) /\ rx[i] # <<>> /\ Take(i) /\ selected' = i
  BY Zenon DEF ReadFull, Readable
<1>4. i = selected
  BY Zenon, <1>2, <1>3 DEF Allowed
<1>5. Taken(i) /\ Head(rx[i]) = rx[i][1] /\ Head(rx[i]) \in Unit
  BY Zenon, <1>3, TakeTakes DEF PinInv
<1> QED BY Zenon, <1>1, <1>3, <1>4, <1>5

(* The body and the checksum. *)
LEMMA BodyPins == ASSUME PinInv, Body PROVE PinInv'
<1>1. TypeOK /\ Top \in Activation
  BY Zenon, TopType DEF PinInv
<1>2. PICK i \in Ports :
        /\ ReadFull(i)
        /\ LET whole == Top.whole /\ Own(i)
           IN  \/ /\ Top.pc = "b1"
                  /\ SetTop([Top EXCEPT !.pc = "b2", !.whole = whole])
                  /\ UNCHANGED mangled
               \/ /\ Top.pc = "b2"
                  /\ SetTop([Top EXCEPT !.pc = IF whole THEN "dispatch" ELSE "reply",
                                        !.whole = whole])
                  /\ mangled' = [mangled EXCEPT ![i] = @ \/ ~whole]
  BY Zenon DEF Body
<1>3. UNCHANGED <<ready, sending, executed, replies>>
  BY Zenon DEF Body
<1>4. Top.pc \in {"b1", "b2"}
  BY Zenon, <1>2
<1>5. i = Top.req.port /\ Top.req \in Request /\ selected' = i /\ Taken(i)
  BY Zenon, <1>2, <1>4, ReadsOwn
<1>6. PICK a \in Activation : SetTop(a) /\ a.req = Top.req /\ a.pc \in {"b2", "dispatch", "reply"}
  <2> DEFINE whole == Top.whole /\ Own(i)
  <2>1. whole \in BOOLEAN
    BY Zenon, <1>1 DEF Activation
  <2> HIDE DEF whole
  <2>2. CASE Top.pc = "b1"
    <3>1. SetTop([Top EXCEPT !.pc = "b2", !.whole = whole])
      BY Zenon, <1>2, <2>2 DEF whole
    <3>2. [Top EXCEPT !.pc = "b2", !.whole = whole] \in Activation
      BY Zenon, <1>1, <2>1 DEF Activation, Pc
    <3>3. /\ [Top EXCEPT !.pc = "b2", !.whole = whole].req = Top.req
          /\ [Top EXCEPT !.pc = "b2", !.whole = whole].pc = "b2"
      BY Zenon, <1>1 DEF Activation
    <3> QED BY Zenon, <3>1, <3>2, <3>3
  <2>3. CASE Top.pc = "b2"
    <3> DEFINE pc == IF whole THEN "dispatch" ELSE "reply"
    <3>1. SetTop([Top EXCEPT !.pc = pc, !.whole = whole])
      BY Zenon, <1>2, <2>3 DEF whole
    <3>2. [Top EXCEPT !.pc = pc, !.whole = whole] \in Activation
      BY Zenon, <1>1, <2>1 DEF Activation, Pc
    <3>3. /\ [Top EXCEPT !.pc = pc, !.whole = whole].req = Top.req
          /\ [Top EXCEPT !.pc = pc, !.whole = whole].pc = pc
      BY Zenon, <1>1 DEF Activation
    <3> QED BY Zenon, <3>1, <3>2, <3>3
  <2> QED BY Zenon, <1>4, <2>2, <2>3
<1>7. TopIs(a)
  BY Zenon, <1>1, <1>6, SetTopSets
<1>8. mangled' \in [Ports -> BOOLEAN]
  BY Zenon, <1>1, <1>2 DEF TypeOK
<1>9. TypeOK'
  BY Zenon, <1>1, <1>3, <1>5, <1>7, <1>8 DEF TypeOK, TopIs, Taken, sending
<1>10. Owner'
  BY Zenon, <1>5, <1>6, <1>7 DEF Owner, TopIs
<1>11. Callers' /\ UnitsOk'
  BY Zenon, <1>1, <1>5, <1>7, TopIsCallers, TakenUnits DEF PinInv
<1> QED BY Zenon, <1>3, <1>9, <1>10, <1>11 DEF PinInv, HostOk, PinnedUnlessResumed, sending

(* A request carried out is counted. *)
LEMMA ExecutesType ==
  ASSUME TypeOK, Top.req \in Request, Executes
  PROVE  executed' \in [Request -> Nat]
  BY DEF TypeOK, Executes

(* What is done at once, and the start of a call or of a write. *)
LEMMA DispatchPins == ASSUME PinInv, Dispatch PROVE PinInv'
<1>1. TypeOK /\ Top \in Activation /\ Top.pc = "dispatch" /\ UNCHANGED <<wire, selected, replies, mangled>>
  BY Zenon, TopType DEF PinInv, Dispatch
<1>2. Top.req \in Request /\ selected = Top.req.port
  BY Zenon, <1>1 DEF PinInv, Owner, Resumed
<1>3. PICK pc \in {"d", "call", "reply"} :
        SetTop([Top EXCEPT !.pc = pc]) /\ (pc = "call" => Top.req.kind = "call")
  BY Zenon DEF Dispatch
<1>4. /\ [Top EXCEPT !.pc = pc] \in Activation
      /\ [Top EXCEPT !.pc = pc].req = Top.req /\ [Top EXCEPT !.pc = pc].pc = pc
  BY Zenon, <1>1 DEF Activation, Pc
<1>5. TopIs([Top EXCEPT !.pc = pc])
  BY Zenon, <1>1, <1>3, <1>4, SetTopSets
<1>6. executed' \in [Request -> Nat]
  BY Zenon, <1>1, <1>2, ExecutesType DEF Dispatch, TypeOK
<1>7. TypeOK'
  BY Zenon, <1>1, <1>5, <1>6 DEF TypeOK, TopIs, wire, sending
<1>8. Owner'
  BY Zenon, <1>1, <1>2, <1>3, <1>4, <1>5 DEF Owner, TopIs
<1>9. Callers'
  BY Zenon, <1>5, TopIsCallers DEF PinInv
<1> QED BY Zenon, <1>1, <1>7, <1>8, <1>9 DEF PinInv, HostOk, UnitsOk, PinnedUnlessResumed, wire, sending

(* The data of a write. *)
LEMMA DataPins == ASSUME PinInv, Data PROVE PinInv'
<1>1. TypeOK /\ Top \in Activation /\ Top.pc = "d" /\ UNCHANGED <<ready, sending, replies, mangled>>
  BY Zenon, TopType DEF PinInv, Data
<1>2. PICK i \in Ports : ReadFull(i)
  BY Zenon DEF Data
<1>3. i = Top.req.port /\ Top.req \in Request /\ selected' = i /\ Taken(i)
  BY Zenon, <1>1, <1>2, ReadsOwn
<1>4. /\ [Top EXCEPT !.pc = "reply"] \in Activation
      /\ [Top EXCEPT !.pc = "reply"].req = Top.req /\ [Top EXCEPT !.pc = "reply"].pc = "reply"
  BY Zenon, <1>1 DEF Activation, Pc
<1>5. TopIs([Top EXCEPT !.pc = "reply"])
  BY Zenon, <1>1, <1>4, SetTopSets DEF Data
<1>6. executed' \in [Request -> Nat]
  BY Zenon, <1>1, <1>3, ExecutesType DEF Data
<1>7. TypeOK'
  BY Zenon, <1>1, <1>3, <1>5, <1>6 DEF TypeOK, TopIs, Taken, sending
<1>8. Owner'
  BY Zenon, <1>3, <1>4, <1>5 DEF Owner, TopIs
<1>9. Callers' /\ UnitsOk'
  BY Zenon, <1>1, <1>3, <1>5, TopIsCallers, TakenUnits DEF PinInv
<1> QED BY Zenon, <1>1, <1>7, <1>8, <1>9 DEF PinInv, HostOk, PinnedUnlessResumed, sending

(* A request given up. *)
LEMMA FailsPins == ASSUME PinInv, ReadFullFails PROVE PinInv'
<1>1. TypeOK /\ UNCHANGED <<wire, executed, replies, mangled>> /\ selected' = NoPort
  BY Zenon DEF PinInv, ReadFullFails, End
<1>2. Fresh \in Activation /\ Fresh.pc = "scan"
  BY Zenon DEF Fresh, Activation, Pc
<1>3. TopIs(Fresh)
  BY Zenon, <1>1, <1>2, SetTopSets DEF ReadFullFails, End
<1>4. TypeOK'
  BY Zenon, <1>1, <1>3 DEF TypeOK, TopIs, wire, sending
<1>5. Owner' /\ Callers'
  BY Zenon, <1>2, <1>3, TopIsCallers DEF PinInv, Owner, TopIs
<1> QED BY Zenon, <1>1, <1>4, <1>5 DEF PinInv, HostOk, UnitsOk, PinnedUnlessResumed, wire, sending

(* The payload of a call returns. *)
LEMMA ReturnPins == ASSUME PinInv, CallReturns PROVE PinInv'
<1>1. /\ TypeOK /\ Top \in Activation /\ Top.pc = "call"
      /\ UNCHANGED <<wire, selected, executed, replies, mangled>>
  BY Zenon, TopType DEF PinInv, CallReturns
<1>2. /\ [Top EXCEPT !.pc = "reply"] \in Activation
      /\ [Top EXCEPT !.pc = "reply"].req = Top.req /\ [Top EXCEPT !.pc = "reply"].pc = "reply"
  BY Zenon, <1>1 DEF Activation, Pc
<1>3. TopIs([Top EXCEPT !.pc = "reply"])
  BY Zenon, <1>1, <1>2, SetTopSets DEF CallReturns
<1>4. TypeOK'
  BY Zenon, <1>1, <1>3 DEF TypeOK, TopIs, wire, sending
<1>5. Owner' /\ Callers'
  BY Zenon, <1>1, <1>2, <1>3, TopIsCallers DEF PinInv, Owner, Resumed, TopIs
<1> QED BY Zenon, <1>1, <1>4, <1>5 DEF PinInv, HostOk, UnitsOk, PinnedUnlessResumed, wire, sending

(* An exception session starts over the call that faulted. *)
LEMMA FaultPins == ASSUME PinInv, CallFaults PROVE PinInv'
<1>1. /\ TypeOK /\ Top.pc = "call" /\ Len(session) <= Nested
      /\ session' = <<Fresh>> \o session /\ UNCHANGED <<wire, selected, executed, replies, mangled>>
  BY Zenon DEF PinInv, CallFaults
<1>2. Fresh \in Activation /\ Fresh.pc = "scan"
  BY Zenon DEF Fresh, Activation, Pc
<1>3. /\ session' \in Seq(Activation) /\ Len(session') = Len(session) + 1 /\ Top' = Fresh
      /\ \A k \in 1 .. Len(session) : session'[k + 1] = session[k]
  BY <1>1, <1>2, TopType, Pushed DEF Top
<1>4. TypeOK'
  BY <1>1, <1>3, TopType, LoopAssumption DEF TypeOK, wire, sending
<1>5. Owner'
  BY Zenon, <1>2, <1>3 DEF Owner
<1>6. Callers'
  <2> SUFFICES ASSUME NEW k \in 2 .. Len(session')
               PROVE  /\ session'[k].pc = "call" /\ session'[k].req \in Request
                      /\ session'[k].req.kind = "call"
    BY Zenon DEF Callers
  <2>1. k - 1 \in 1 .. Len(session) /\ session'[k] = session[k - 1]
    BY <1>1, <1>3, TopType
  <2>2. CASE k - 1 = 1
    BY Zenon, <1>1, <2>1, <2>2, TopType DEF PinInv, Owner
  <2>3. CASE k - 1 # 1
    BY <2>1, <2>3 DEF PinInv, Callers
  <2> QED BY Zenon, <2>2, <2>3
<1> QED BY Zenon, <1>1, <1>4, <1>5, <1>6 DEF PinInv, HostOk, UnitsOk, PinnedUnlessResumed, wire, sending

(* The reply, and the end of the request or of the session. *)
LEMMA ReplyPins == ASSUME PinInv, Reply PROVE PinInv'
<1>1. /\ TypeOK /\ Top \in Activation /\ Top.pc = "reply" /\ selected' = NoPort
      /\ UNCHANGED <<wire, executed, mangled>>
  BY Zenon, TopType DEF PinInv, Reply
<1>2. Top.req \in Request /\ (selected = Top.req.port \/ Top.req.kind = "call")
  BY Zenon, <1>1 DEF PinInv, Owner, Resumed
<1>3. replies' \subseteq Ports \X Request /\ PinnedUnlessResumed'
  <2>1. CASE ~io_ready(selected)
    BY Zenon, <1>1, <2>1 DEF Reply, PinInv, PinnedUnlessResumed, TypeOK
  <2>2. CASE io_ready(selected)
    <3>1. replies' = replies \cup {<<Sink(selected), Top.req>>}
      BY Zenon, <2>2 DEF Reply
    <3>2. Sink(selected) \in Ports
      BY Zenon, <2>2, LowestIn DEF io_ready, Sink, Allowed
    <3>3. selected = Top.req.port => Sink(selected) = Top.req.port
      BY Zenon, <1>2, <2>2, PinnedSink DEF io_ready, Request
    <3> QED BY <1>1, <1>2, <3>1, <3>2, <3>3 DEF PinInv, PinnedUnlessResumed, TypeOK
  <2> QED BY Zenon, <2>1, <2>2
<1>4. CASE Top.req.kind = "exit" /\ Top.whole /\ Len(session) > 1
  <2>1. session' = Tail(session)
    BY Zenon, <1>4 DEF Reply
  <2>2. /\ session' \in Seq(Activation) /\ Len(session') = Len(session) - 1
        /\ Len(session') \in Nat \ {0} /\ \A k \in 1 .. Len(session') : session'[k] = session[k + 1]
    BY <1>1, <1>4, <2>1, TopType
  <2>3. Top' = session[2]
    BY <2>2 DEF Top
  <2>4. Len(session') \in 1 .. 1 + Nested
    BY <1>1, <2>2, LoopAssumption DEF TypeOK
  <2>7. TypeOK'
    BY Zenon, <1>1, <1>3, <2>2, <2>4 DEF TypeOK, wire, sending
  <2>5. Owner'
    BY <1>4, <2>3, TopType DEF PinInv, Callers, Owner, Resumed
  <2>6. Callers'
    BY <1>1, <2>2, TopType DEF PinInv, Callers
  <2> QED BY Zenon, <1>1, <1>3, <2>5, <2>6, <2>7 DEF PinInv, HostOk, UnitsOk, wire, sending
<1>5. CASE ~(Top.req.kind = "exit" /\ Top.whole /\ Len(session) > 1)
  <2>1. SetTop(Fresh)
    BY Zenon, <1>5 DEF Reply, SetTop
  <2>2. Fresh \in Activation /\ Fresh.pc = "scan"
    BY Zenon DEF Fresh, Activation, Pc
  <2>3. TopIs(Fresh)
    BY Zenon, <1>1, <2>1, <2>2, SetTopSets
  <2>4. TypeOK'
    BY Zenon, <1>1, <1>3, <2>3 DEF TypeOK, TopIs, wire, sending
  <2>5. Owner' /\ Callers'
    BY Zenon, <2>2, <2>3, TopIsCallers DEF PinInv, Owner, TopIs
  <2> QED BY Zenon, <1>1, <1>3, <2>4, <2>5 DEF PinInv, HostOk, UnitsOk, wire, sending
<1> QED BY Zenon, <1>4, <1>5

-----------------------------------------------------------------------------
(* The hosts. *)

(* What arrives is a unit of the port's own request, or a stray byte. *)
LEMMA ArrivedUnits ==
  ASSUME TypeOK, UnitsOk, NEW i \in Ports, NEW u \in Unit, Arrived(i, u),
         u.part # "0" => u.req \in Request /\ u.req.port = i
  PROVE  UnitsOk'
<1> SUFFICES ASSUME NEW j \in Ports, NEW k \in 1 .. Len(rx'[j]), rx'[j][k].part # "0"
             PROVE  rx'[j][k].req \in Request /\ rx'[j][k].req.port = j
  BY Zenon DEF UnitsOk
<1>1. CASE j = i /\ k \in 1 .. Len(rx[i])
  BY <1>1 DEF Arrived, UnitsOk
<1>2. CASE j = i /\ k = Len(rx[i]) + 1
  BY Zenon, <1>2 DEF Arrived
<1>3. CASE j # i
  BY <1>3 DEF Arrived, UnitsOk
<1> QED BY <1>1, <1>2, <1>3 DEF Arrived

(* A unit of a request sent by its host. *)
LEMMA SendSends ==
  ASSUME TypeOK, NEW i \in Ports, NEW r \in Request, r.port = i,
         NEW k \in 1 .. Len(Frame(r)), Send(i, r, k)
  PROVE  /\ [req |-> r, part |-> Frame(r)[k]] \in Unit
         /\ Arrived(i, [req |-> r, part |-> Frame(r)[k]])
         /\ host' \in [Ports -> [req : Request \cup {NoRequest}, sent : 0 .. 4, zeros : 0 .. MaxZero]]
         /\ host'[i].req = r /\ host'[i].sent = k /\ \A j \in Ports \ {i} : host'[j] = host[j]
<1> DEFINE n == Len(Frame(r))
<1>8. n \in {3, 4} /\ (n = 4 => r.kind = "write")
  BY FrameUnits
<1>0. k \in 1 .. 4 /\ (k = 4 => r.kind = "write")
  <2> k \in 1 .. n
    BY Zenon
  <2> HIDE DEF n
  <2> QED BY <1>8
<1>1. k \in 1 .. 4 /\ Frame(r)[k] \in {"M", "b1", "b2", "d"}
  <2>1. k = 1 \/ k = 2 \/ k = 3 \/ k = 4
    BY <1>0
  <2> QED BY Zenon, <1>0, <2>1, FrameUnits
<1>2. [req |-> r, part |-> Frame(r)[k]] \in Unit
  BY Zenon, <1>1 DEF Unit
<1>3. Arrived(i, [req |-> r, part |-> Frame(r)[k]])
  BY Zenon, <1>2, AppendArrives DEF Send
<1> DEFINE A == Request \cup {NoRequest}
           B == 0 .. 4
           C == 0 .. MaxZero
           H == [req : A, sent : B, zeros : C]
           h == [host[i] EXCEPT !.req = r, !.sent = k]
<1>6. host[i] \in H /\ host \in [Ports -> H]
  BY Zenon DEF TypeOK
<1>4. host' = [host EXCEPT ![i] = h]
  BY Zenon DEF Send, TypeOK
<1>7. h \in H /\ h.req = r /\ h.sent = k
  <2>1. r \in A /\ k \in B
    BY <1>1
  <2> HIDE DEF A, B, C
  <2> QED BY Zenon, <1>6, <2>1
<1>5. /\ host' \in [Ports -> H]
      /\ host'[i].req = r /\ host'[i].sent = k /\ \A j \in Ports \ {i} : host'[j] = host[j]
  <2> HIDE DEF h, H
  <2> QED BY Zenon, <1>4, <1>6, <1>7
<1> QED BY Zenon, <1>2, <1>3, <1>5

(* A step of a host leaves the loop as it is. *)
LEMMA HostSteps ==
  ASSUME PinInv, UNCHANGED target, TypeOK', HostOk', UnitsOk'
  PROVE  PinInv'
<1>1. session' = session /\ selected' = selected /\ replies' = replies /\ Top' = Top
  BY Zenon DEF target, Top
<1>2. Callers' /\ Owner' /\ PinnedUnlessResumed'
  BY Zenon, <1>1 DEF PinInv, Callers, Owner, Resumed, PinnedUnlessResumed
<1> QED BY Zenon, <1>2 DEF PinInv

(* A unit sent keeps the streams and the hosts in order. *)
LEMMA SendPins ==
  ASSUME PinInv, NEW i \in Ports, NEW r \in Request, r.port = i,
         NEW k \in 1 .. Len(Frame(r)), Send(i, r, k), UNCHANGED <<ready, target>>,
         cut' \in [Ports -> BOOLEAN], abandoned' \subseteq Request
  PROVE  PinInv'
<1>1. TypeOK
  BY Zenon DEF PinInv
<1>2. /\ [req |-> r, part |-> Frame(r)[k]] \in Unit
      /\ Arrived(i, [req |-> r, part |-> Frame(r)[k]])
      /\ host' \in [Ports -> [req : Request \cup {NoRequest}, sent : 0 .. 4, zeros : 0 .. MaxZero]]
      /\ host'[i].req = r /\ host'[i].sent = k /\ \A j \in Ports \ {i} : host'[j] = host[j]
  BY Zenon, <1>1, SendSends
<1>3. TypeOK'
  BY Zenon, <1>1, <1>2 DEF TypeOK, target, Arrived
<1>4. HostOk'
  <2>1. r \in Request /\ r.port = i /\ k \in 1 .. Len(Frame(r))
    BY Zenon
  <2> QED BY Zenon, <1>2, <2>1 DEF PinInv, HostOk
<1>5. UnitsOk'
  BY Zenon, <1>1, <1>2, ArrivedUnits DEF PinInv
<1> QED BY Zenon, <1>3, <1>4, <1>5, HostSteps

(* The request a host starts is a new one of its own. *)
LEMMA NewRequest ==
  ASSUME PinInv, NEW i \in Ports, NEW kind \in Kinds, host[i].req.n < MaxReq
  PROVE  /\ [port |-> i, n |-> host[i].req.n + 1, kind |-> kind] \in Request
         /\ host[i].req.n \in Nat
         /\ host[i].sent \in {1, 2} => host[i].req \in Request
         /\ 1 \in 1 .. Len(Frame([port |-> i, n |-> host[i].req.n + 1, kind |-> kind]))
<1>1. host[i].req.n \in Nat
  BY LoopAssumption DEF PinInv, HostOk, Request, NoRequest
<1>2. [port |-> i, n |-> host[i].req.n + 1, kind |-> kind] \in Request
  BY <1>1, LoopAssumption DEF Request
<1>3. host[i].sent \in {1, 2} => host[i].req \in Request
  BY DEF PinInv, HostOk
<1> QED BY <1>1, <1>2, <1>3, FrameUnits

(* A new request. *)
LEMMA StartPins ==
  ASSUME PinInv, NEW i \in Ports, NEW kind \in Kinds, StartRequest(i, kind) PROVE PinInv'
<1> DEFINE r == [port |-> i, n |-> host[i].req.n + 1, kind |-> kind]
<1>1. /\ r \in Request /\ 1 \in 1 .. Len(Frame(r)) /\ (host[i].sent \in {1, 2} => host[i].req \in Request)
  BY Zenon, NewRequest DEF StartRequest
<1>2. r.port = i
  BY Zenon
<1>3. Send(i, r, 1) /\ UNCHANGED <<ready, target>>
  BY Zenon DEF StartRequest
<1>4. cut' \in [Ports -> BOOLEAN] /\ abandoned' \subseteq Request
  BY Zenon, <1>1 DEF StartRequest, PinInv, TypeOK
<1> HIDE DEF r
<1> QED BY Zenon, <1>1, <1>2, <1>3, <1>4, SendPins

(* An unfinished request has a next unit, which is not its magic. *)
LEMMA NextUnit ==
  ASSUME PinInv, NEW i \in Ports, ~Finished(host[i])
  PROVE  /\ host[i].req \in Request /\ host[i].req.port = i
         /\ host[i].sent \in {1, 2, 3}
         /\ host[i].sent + 1 \in 1 .. Len(Frame(host[i].req))
<1>1. /\ host[i].req \in Request /\ host[i].req.port = i
      /\ host[i].sent \in 1 .. Len(Frame(host[i].req)) /\ host[i].sent # Len(Frame(host[i].req))
  BY Zenon DEF PinInv, HostOk, Finished
<1>2. Len(Frame(host[i].req)) \in {3, 4}
  BY Zenon, FrameUnits
<1> DEFINE n == Len(Frame(host[i].req))
           k == host[i].sent
<1>3. n \in {3, 4} /\ k \in 1 .. n /\ k # n
  BY Zenon, <1>1, <1>2
<1>4. k \in {1, 2, 3} /\ k + 1 \in 1 .. n
  <2> HIDE DEF n, k
  <2> QED BY <1>3
<1> QED BY Zenon, <1>1, <1>4

(* The next unit of a request. *)
LEMMA SendUnitPins ==
  ASSUME PinInv, NEW i \in Ports, SendUnit(i) PROVE PinInv'
<1>1. /\ host[i].req \in Request /\ host[i].req.port = i
      /\ host[i].sent + 1 \in 1 .. Len(Frame(host[i].req))
  BY Zenon, NextUnit DEF SendUnit
<1>2. Send(i, host[i].req, host[i].sent + 1) /\ UNCHANGED <<ready, target>>
  BY Zenon DEF SendUnit
<1>3. cut' \in [Ports -> BOOLEAN] /\ abandoned' \subseteq Request
  BY Zenon DEF SendUnit, PinInv, TypeOK
<1> QED BY Zenon, <1>1, <1>2, <1>3, SendPins

(* A stray byte changes neither the request nor what was sent of it. *)
LEMMA ZeroSends ==
  ASSUME TypeOK, NEW i \in Ports, SendZero(i)
  PROVE  /\ Arrived(i, [req |-> NoRequest, part |-> "0"]) /\ [req |-> NoRequest, part |-> "0"] \in Unit
         /\ host' \in [Ports -> [req : Request \cup {NoRequest}, sent : 0 .. 4, zeros : 0 .. MaxZero]]
         /\ \A j \in Ports : host'[j].req = host[j].req /\ host'[j].sent = host[j].sent
<1>1. [req |-> NoRequest, part |-> "0"] \in Unit
  BY Zenon DEF Unit
<1>2. Arrived(i, [req |-> NoRequest, part |-> "0"])
  BY Zenon, <1>1, AppendArrives DEF SendZero
<1> DEFINE A == Request \cup {NoRequest}
           B == 0 .. 4
           C == 0 .. MaxZero
           H == [req : A, sent : B, zeros : C]
           z == host[i].zeros + 1
           h == [host[i] EXCEPT !.zeros = z]
<1>3. host[i] \in H /\ host \in [Ports -> H]
  BY Zenon DEF TypeOK
<1>4. host' = [host EXCEPT ![i] = h]
  BY Zenon DEF SendZero, TypeOK
<1>5. z \in C
  BY <1>3, LoopAssumption DEF SendZero
<1>6. h \in H /\ h.req = host[i].req /\ h.sent = host[i].sent
  <2> HIDE DEF A, B, C, z
  <2> QED BY Zenon, <1>3, <1>5
<1>7. /\ host' \in [Ports -> H]
      /\ \A j \in Ports : host'[j].req = host[j].req /\ host'[j].sent = host[j].sent
  <2> HIDE DEF h, H
  <2> QED BY Zenon, <1>3, <1>4, <1>6
<1> QED BY Zenon, <1>1, <1>2, <1>7

(* A stray byte. *)
LEMMA ZeroPins ==
  ASSUME PinInv, NEW i \in Ports, SendZero(i) PROVE PinInv'
<1>1. TypeOK /\ UNCHANGED <<ready, abandoned, cut, target>>
  BY Zenon DEF PinInv, SendZero
<1>2. /\ Arrived(i, [req |-> NoRequest, part |-> "0"]) /\ [req |-> NoRequest, part |-> "0"] \in Unit
      /\ host' \in [Ports -> [req : Request \cup {NoRequest}, sent : 0 .. 4, zeros : 0 .. MaxZero]]
      /\ \A j \in Ports : host'[j].req = host[j].req /\ host'[j].sent = host[j].sent
  BY Zenon, <1>1, ZeroSends
<1>3. TypeOK'
  BY Zenon, <1>1, <1>2 DEF TypeOK, target, Arrived
<1>4. HostOk'
  BY Zenon, <1>2 DEF PinInv, HostOk
<1>5. UnitsOk'
  BY Zenon, <1>1, <1>2, ArrivedUnits DEF PinInv
<1> QED BY Zenon, <1>1, <1>3, <1>4, <1>5, HostSteps

(* A stream that is flushed or left is as good as it was. *)
LEMMA DropPins ==
  ASSUME PinInv, NEW i \in Ports, NEW flush \in BOOLEAN, LinkDrops(i, flush) PROVE PinInv'
<1>1. TypeOK /\ UNCHANGED <<host, abandoned, target>>
  BY Zenon DEF PinInv, LinkDrops
<1>2. rx' \in [Ports -> Seq(Unit)] /\ \A j \in Ports : rx'[j] = rx[j] \/ rx'[j] = <<>>
  BY DEF LinkDrops, PinInv, TypeOK
<1>3. TypeOK'
  BY Zenon, <1>1, <1>2 DEF TypeOK, target, LinkDrops
<1>4. HostOk' /\ UnitsOk'
  BY <1>1, <1>2 DEF PinInv, HostOk, UnitsOk
<1> QED BY Zenon, <1>1, <1>3, <1>4, HostSteps

(* A link that comes back. *)
LEMMA ReturnsPins ==
  ASSUME PinInv, NEW i \in Ports, LinkReturns(i) PROVE PinInv'
<1>1. TypeOK /\ UNCHANGED <<rx, sending, target>>
  BY Zenon DEF PinInv, LinkReturns
<1>2. TypeOK'
  BY Zenon, <1>1 DEF TypeOK, target, sending, LinkReturns
<1>3. HostOk' /\ UnitsOk'
  BY Zenon, <1>1 DEF PinInv, HostOk, UnitsOk, sending
<1> QED BY Zenon, <1>1, <1>2, <1>3, HostSteps

(* Every step keeps the invariant. *)
LEMMA PinInductive == PinInv /\ [Next]_vars => PinInv'
<1> SUFFICES ASSUME PinInv, [Next]_vars PROVE PinInv'
  BY Zenon
<1>1. CASE Loop
  <2>1. \A timeout \in BOOLEAN : Scan(timeout) => PinInv'
    BY Zenon, ScanPins
  <2> QED BY Zenon, <1>1, <2>1, BodyPins, DispatchPins, DataPins, FailsPins, ReturnPins, ReplyPins DEF Loop
<1>2. CASE CallFaults
  BY Zenon, <1>2, FaultPins
<1>3. CASE Hosts
  BY Zenon, <1>3, StartPins, SendUnitPins, ZeroPins, DropPins, ReturnsPins DEF Hosts
<1>4. CASE UNCHANGED vars
  BY Zenon, <1>4 DEF vars, PinInv, TypeOK, HostOk, UnitsOk, Callers, Owner, Resumed, Top, PinnedUnlessResumed
<1> QED BY Zenon, <1>1, <1>2, <1>3, <1>4 DEF Next

(* q1n1_proxy_run answers every request on the controller it came from,     *)
(* except a call whose payload faulted: the exception session that resumed  *)
(* it has released the port.                                                *)
THEOREM RepliesPinned == Spec => []PinnedUnlessResumed
<1>1. PinInv => PinnedUnlessResumed
  BY Zenon DEF PinInv
<1> QED BY <1>1, PinInitial, PinInductive, PTL DEF Spec

-----------------------------------------------------------------------------
(* Two hosts never mix. *)

(* The k-th unit of port i is part p of request r, or it is what the host   *)
(* sends next.                                                              *)
Follows(i, k, r, p) ==
  IF k <= Len(rx[i])
  THEN rx[i][k].req = r /\ rx[i][k].part = p
  ELSE host[i].req = r /\ host[i].sent = IF p = "b1" THEN 1 ELSE 2

(* Behind a magic comes the rest of its request, in the stream of its port  *)
(* and for the activation that has read the magic.                          *)
StreamWhole(i) ==
  \A k \in 1 .. Len(rx[i]) :
    /\ rx[i][k].part = "M" => Follows(i, k + 1, rx[i][k].req, "b1")
    /\ rx[i][k].part = "b1" => Follows(i, k + 1, rx[i][k].req, "b2")
TopWhole(i) ==
  Top.pc \in {"b1", "b2"} /\ Top.req.port = i => Top.whole /\ Follows(i, 1, Top.req, Top.pc)
Unbroken(i) == StreamWhole(i) /\ TopWhole(i)

StreamInv == NoInterleaving /\ \A i \in Ports : ~cut[i] => Unbroken(i)

(* What follows in a stream moves one place to the front when it is read. *)
LEMMA TakenFollows ==
  ASSUME TypeOK, NEW i \in Ports, Taken(i), host' = host, NEW k \in Nat \ {0}, NEW r, NEW p,
         Follows(i, k + 1, r, p)
  PROVE  Follows(i, k, r, p)'
  BY DEF Taken, Follows

(* What is left of a stream when its first unit is read is as whole as before. *)
LEMMA TakenWhole ==
  ASSUME TypeOK, NEW i \in Ports, Taken(i), host' = host, NEW j \in Ports, StreamWhole(j)
  PROVE  StreamWhole(j)'
<1>1. CASE j # i
  BY <1>1 DEF Taken, StreamWhole, Follows
<1>2. CASE j = i
  <2> SUFFICES ASSUME NEW k \in 1 .. Len(rx'[i])
               PROVE  /\ rx'[i][k].part = "M" => Follows(i, k + 1, rx[i][k].req, "b1")'
                      /\ rx'[i][k].part = "b1" => Follows(i, k + 1, rx[i][k].req, "b2")'
    BY Zenon, <1>2 DEF StreamWhole
  <2>1. /\ rx'[i][k] = rx[i][k + 1] /\ k + 1 \in 1 .. Len(rx[i]) /\ k + 1 \in Nat \ {0}
    BY DEF Taken
  <2>2. /\ rx[i][k + 1].part = "M" => Follows(i, (k + 1) + 1, rx[i][k + 1].req, "b1")
        /\ rx[i][k + 1].part = "b1" => Follows(i, (k + 1) + 1, rx[i][k + 1].req, "b2")
    BY Zenon, <1>2, <2>1 DEF StreamWhole
  <2> QED BY <2>1, <2>2 DEF Taken, Follows
<1> QED BY Zenon, <1>1, <1>2

(* A stream that nobody touches. *)
LEMMA KeptWhole ==
  ASSUME NEW j \in Ports, rx'[j] = rx[j], host'[j].req = host[j].req, host'[j].sent = host[j].sent
  PROVE  /\ StreamWhole(j) => StreamWhole(j)'
         /\ Top' = Top /\ TopWhole(j) => TopWhole(j)'
  BY DEF StreamWhole, TopWhole, Follows

(* One pass of the scan: behind the magic it reads is the rest. *)
LEMMA ScanStreams ==
  ASSUME PinInv, StreamInv, NEW timeout \in BOOLEAN, Scan(timeout) PROVE StreamInv'
<1> DEFINE drop == ~io_ready(selected) \/ timeout
           sel == IF drop THEN NoPort ELSE selected
           partial == Top.partial /\ ~drop
<1>1. TypeOK /\ Top \in Activation /\ Top.pc = "scan"
  BY Zenon, TopType DEF PinInv, Scan
<1>2. sel \in Ports \cup {NoPort} /\ partial \in BOOLEAN
  BY Zenon, <1>1 DEF TypeOK, Activation
<1>3. CASE Readable(sel) = {}
  <2>1. SetTop([Top EXCEPT !.partial = partial]) /\ UNCHANGED <<wire, executed, replies, mangled>>
    BY Zenon, <1>3 DEF Scan
  <2>2. [Top EXCEPT !.partial = partial] \in Activation /\ [Top EXCEPT !.partial = partial].pc = "scan"
    BY Zenon, <1>1, <1>2 DEF Activation
  <2>3. Top'.pc = "scan"
    BY Zenon, <1>1, <2>1, <2>2, SetTopSets DEF TopIs
  <2>4. rx' = rx /\ host' = host /\ cut' = cut /\ mangled' = mangled
    BY Zenon, <2>1 DEF wire, sending
  <2> QED BY Zenon, <2>3, <2>4, KeptWhole DEF StreamInv, NoInterleaving, Unbroken, TopWhole
<1>4. CASE Readable(sel) # {}
  <2>1. PICK i \in Ports :
          /\ rx[i] # <<>> /\ Take(i)
          /\ SetTop(IF Head(rx[i]).part = "M"
                    THEN [Fresh EXCEPT !.pc = "b1", !.req = Head(rx[i]).req]
                    ELSE [Top EXCEPT !.partial = TRUE])
          /\ UNCHANGED <<ready, sending, executed, replies, mangled>>
    <3>1. Source(sel) \in Ports /\ rx[Source(sel)] # <<>>
      BY Zenon, <1>4, LowestIn DEF Source, Readable, Allowed
    <3> QED BY Zenon, <1>4, <3>1 DEF Scan
  <2> DEFINE u == Head(rx[i])
             a == IF u.part = "M" THEN [Fresh EXCEPT !.pc = "b1", !.req = u.req]
                  ELSE [Top EXCEPT !.partial = TRUE]
  <2>2. /\ Take(i) /\ SetTop(a)
        /\ UNCHANGED <<ready, sending, executed, replies, mangled>>
    BY Zenon, <2>1
  <2>3. Taken(i) /\ u = rx[i][1] /\ u \in Unit /\ 1 \in 1 .. Len(rx[i])
    BY <1>1, <2>1, <2>2, TakeTakes DEF Taken
  <2>4. u.part = "M" => u.req.port = i
    BY <2>1, <2>3 DEF PinInv, UnitsOk
  <2>5. a \in Activation
    BY Zenon, <1>1, <2>3 DEF Activation, Fresh, Pc, Unit
  <2>6. /\ u.part = "M" => a.pc = "b1" /\ a.req = u.req /\ a.whole
        /\ u.part # "M" => a.pc = "scan"
    BY Zenon, <1>1 DEF Activation, Fresh
  <2>7. Top' = a
    BY Zenon, <1>1, <2>2, <2>5, SetTopSets DEF TopIs
  <2>8. host' = host /\ cut' = cut /\ mangled' = mangled
    BY Zenon, <2>2 DEF sending
  <2> SUFFICES ASSUME NEW j \in Ports, ~cut[j] PROVE StreamWhole(j)' /\ TopWhole(j)'
    BY Zenon, <2>8 DEF StreamInv, NoInterleaving, Unbroken
  <2>9. StreamWhole(j)
    BY Zenon DEF StreamInv, Unbroken
  <2>10. StreamWhole(j)'
    BY Zenon, <1>1, <2>1, <2>3, <2>8, <2>9, TakenWhole
  <2>11. TopWhole(j)'
    <3> SUFFICES ASSUME u.part = "M", j = i
                 PROVE  Follows(i, 1, Top.req, Top.pc)'
      BY Zenon, <2>4, <2>6, <2>7 DEF TopWhole
    <3>1. PICK q : q = u.req /\ Follows(i, 1 + 1, q, "b1")
      BY Zenon, <2>3, <2>9 DEF StreamWhole
    <3>2. Follows(i, 1, q, "b1")'
      BY <1>1, <2>3, <2>8, <3>1, TakenFollows
    <3> QED BY Zenon, <2>6, <2>7, <3>1, <3>2 DEF Follows
  <2> QED BY Zenon, <2>10, <2>11
<1> QED BY Zenon, <1>3, <1>4

(* A unit is what its fields are. *)
LEMMA UnitIs ==
  ASSUME NEW u \in Unit, NEW r, NEW p, u.req = r, u.part = p PROVE u = [req |-> r, part |-> p]
  BY Zenon DEF Unit

(* The body: on a stream that was not interrupted every unit is its own. *)
LEMMA BodyStreams == ASSUME PinInv, StreamInv, Body PROVE StreamInv'
<1>1. TypeOK /\ Top \in Activation
  BY Zenon, TopType DEF PinInv
<1>2. PICK i \in Ports :
        /\ ReadFull(i)
        /\ LET whole == Top.whole /\ Own(i)
           IN  \/ /\ Top.pc = "b1"
                  /\ SetTop([Top EXCEPT !.pc = "b2", !.whole = whole])
                  /\ UNCHANGED mangled
               \/ /\ Top.pc = "b2"
                  /\ SetTop([Top EXCEPT !.pc = IF whole THEN "dispatch" ELSE "reply",
                                        !.whole = whole])
                  /\ mangled' = [mangled EXCEPT ![i] = @ \/ ~whole]
  BY Zenon DEF Body
<1> DEFINE whole == Top.whole /\ Own(i)
           u == Head(rx[i])
<1>3. host' = host /\ cut' = cut
  BY Zenon DEF Body, sending
<1>4. Top.pc \in {"b1", "b2"} /\ whole \in BOOLEAN
  BY Zenon, <1>1, <1>2 DEF Activation
<1>5. i = Top.req.port /\ Taken(i) /\ u = rx[i][1] /\ u \in Unit /\ 1 \in 1 .. Len(rx[i])
  BY <1>2, <1>4, ReadsOwn DEF Taken
<1>6. ~cut[i] => whole /\ u.req = Top.req /\ u.part = Top.pc
  <2> SUFFICES ASSUME ~cut[i] PROVE whole /\ u.req = Top.req /\ u.part = Top.pc
    BY Zenon
  <2>1. Top.whole /\ Follows(i, 1, Top.req, Top.pc)
    BY Zenon, <1>4, <1>5 DEF StreamInv, Unbroken, TopWhole
  <2>2. u.req = Top.req /\ u.part = Top.pc
    BY <1>5, <2>1 DEF Follows
  <2>3. Own(i)
    BY <1>5, <2>2, UnitIs DEF Own
  <2> QED BY Zenon, <2>1, <2>2, <2>3
<1>7. \A j \in Ports : ~cut[j] => StreamWhole(j)'
  BY Zenon, <1>1, <1>3, <1>5, TakenWhole DEF StreamInv, Unbroken
<1>8. CASE Top.pc = "b1"
  <2> DEFINE a == [Top EXCEPT !.pc = "b2", !.whole = whole]
  <2>1. SetTop(a) /\ mangled' = mangled
    BY Zenon, <1>2, <1>8
  <2> HIDE DEF whole
  <2>2. a \in Activation /\ a.pc = "b2" /\ a.req = Top.req /\ a.whole = whole
    BY Zenon, <1>1, <1>4 DEF Activation, Pc
  <2>3. Top' = a
    BY Zenon, <1>1, <2>1, <2>2, SetTopSets DEF TopIs
  <2>4. ASSUME NEW j \in Ports, ~cut[j] PROVE TopWhole(j)'
    <3> SUFFICES ASSUME j = i PROVE whole /\ Follows(i, 1, Top.req, Top.pc)'
      BY Zenon, <1>5, <2>2, <2>3 DEF TopWhole
    <3>1. PICK q : q = Top.req /\ Follows(i, 1 + 1, q, "b2")
      BY Zenon, <1>5, <1>6, <1>8, <2>4 DEF StreamInv, Unbroken, StreamWhole
    <3>2. Follows(i, 1, q, "b2")'
      <4>1. 1 \in Nat \ {0}
        BY ONLY TRUE
      <4> QED BY Zenon, <1>1, <1>3, <1>5, <3>1, <4>1, TakenFollows
    <3> QED BY Zenon, <1>6, <2>2, <2>3, <2>4, <3>1, <3>2 DEF Follows
  <2> QED BY Zenon, <1>3, <1>7, <2>1, <2>4 DEF StreamInv, NoInterleaving, Unbroken
<1>9. CASE Top.pc = "b2"
  <2> DEFINE pc == IF whole THEN "dispatch" ELSE "reply"
             a == [Top EXCEPT !.pc = pc, !.whole = whole]
  <2>1. SetTop(a) /\ mangled' = [mangled EXCEPT ![i] = @ \/ ~whole]
    BY Zenon, <1>2, <1>9
  <2> HIDE DEF whole
  <2>2. a \in Activation /\ a.pc \in {"dispatch", "reply"}
    BY Zenon, <1>1, <1>4 DEF Activation, Pc
  <2>3. Top' = a
    BY Zenon, <1>1, <2>1, <2>2, SetTopSets DEF TopIs
  <2>4. \A j \in Ports : TopWhole(j)'
    BY Zenon, <2>2, <2>3 DEF TopWhole
  <2>5. NoInterleaving'
    BY Zenon, <1>1, <1>3, <1>4, <1>6, <2>1 DEF StreamInv, NoInterleaving, TypeOK
  <2> QED BY Zenon, <1>3, <1>7, <2>4, <2>5 DEF StreamInv, Unbroken
<1> QED BY Zenon, <1>4, <1>8, <1>9

(* A step of the loop that does not leave a body to read. *)
LEMMA QuietStreams ==
  ASSUME PinInv, StreamInv, host' = host, cut' = cut, mangled' = mangled,
         Top'.pc \notin {"b1", "b2"}, rx' = rx \/ \E i \in Ports : Taken(i)
  PROVE  StreamInv'
<1>1. TypeOK
  BY Zenon DEF PinInv
<1>2. \A j \in Ports : StreamWhole(j) => StreamWhole(j)'
  BY Zenon, <1>1, KeptWhole, TakenWhole
<1> QED BY Zenon, <1>2 DEF StreamInv, NoInterleaving, Unbroken, TopWhole

(* Where the other steps of the loop leave the activation that runs. *)
LEMMA LeavesBody ==
  ASSUME PinInv, Dispatch \/ Data \/ ReadFullFails \/ CallReturns \/ CallFaults \/ Reply
  PROVE  /\ Top'.pc \notin {"b1", "b2", "dispatch"}
         /\ Top'.pc = "d" => Dispatch /\ Top'.req = Top.req
<1>1. TypeOK /\ Top \in Activation
  BY Zenon, TopType DEF PinInv
<1>2. ASSUME NEW pc \in {"d", "call", "reply"}, SetTop([Top EXCEPT !.pc = pc])
      PROVE  Top'.pc = pc /\ Top'.req = Top.req
  <2>1. /\ [Top EXCEPT !.pc = pc] \in Activation
        /\ [Top EXCEPT !.pc = pc].pc = pc /\ [Top EXCEPT !.pc = pc].req = Top.req
    BY Zenon, <1>1 DEF Activation, Pc
  <2> QED BY Zenon, <1>1, <1>2, <2>1, SetTopSets DEF TopIs
<1>3. Fresh \in Activation /\ Fresh.pc = "scan"
  BY Zenon DEF Fresh, Activation, Pc
<1>4. SetTop(Fresh) => Top'.pc = "scan"
  BY Zenon, <1>1, <1>3, SetTopSets DEF TopIs
<1>5. CASE Dispatch
  <2>1. PICK pc \in {"d", "call", "reply"} : SetTop([Top EXCEPT !.pc = pc])
    BY Zenon, <1>5 DEF Dispatch
  <2> QED BY Zenon, <1>2, <1>5, <2>1
<1>6. CASE Data \/ CallReturns
  <2>1. SetTop([Top EXCEPT !.pc = "reply"])
    BY Zenon, <1>6 DEF Data, CallReturns
  <2> QED BY Zenon, <1>2, <2>1
<1>7. CASE ReadFullFails
  BY Zenon, <1>4, <1>7 DEF ReadFullFails, End
<1>8. CASE CallFaults
  <2>1. Top' = Fresh
    BY Zenon, <1>1, <1>3, <1>8, TopType, Pushed DEF CallFaults, Top
  <2> QED BY Zenon, <1>3, <2>1
<1>9. CASE Reply
  <2>1. CASE session' = Tail(session) /\ Len(session) > 1
    <3>1. Top' = session[2]
      BY <1>1, <2>1, TopType DEF Top
    <3>2. session[2].pc = "call"
      BY <1>1, <2>1, TopType DEF PinInv, Callers
    <3> QED BY Zenon, <3>1, <3>2
  <2>2. CASE SetTop(Fresh)
    BY Zenon, <1>4, <2>2
  <2> QED BY Zenon, <1>9, <2>1, <2>2 DEF Reply, SetTop
<1> QED BY Zenon, <1>5, <1>6, <1>7, <1>8, <1>9

(* The other steps of the loop. *)
LEMMA LoopStreams ==
  ASSUME PinInv, StreamInv, Dispatch \/ Data \/ ReadFullFails \/ CallReturns \/ CallFaults \/ Reply
  PROVE  StreamInv'
<1>1. host' = host /\ cut' = cut /\ mangled' = mangled
  BY Zenon DEF Dispatch, Data, ReadFullFails, CallReturns, CallFaults, Reply, wire, sending
<1>2. rx' = rx \/ \E i \in Ports : Taken(i)
  <2>1. CASE Data
    <3>1. PICK i \in Ports : ReadFull(i)
      BY Zenon, <2>1 DEF Data
    <3> QED BY Zenon, <2>1, <3>1, ReadsOwn DEF Data
  <2>2. CASE ~Data
    BY Zenon, <2>2 DEF Dispatch, ReadFullFails, CallReturns, CallFaults, Reply, wire
  <2> QED BY Zenon, <2>1, <2>2
<1>3. Top'.pc \notin {"b1", "b2"}
  BY Zenon, LeavesBody
<1> QED BY Zenon, <1>1, <1>2, <1>3, QuietStreams

(* A unit that arrives is the one the streams before it await, and is       *)
(* followed by what its host will send next.                                *)
Fits(i, u) ==
  /\ host[i].sent = 1 => u.req = host[i].req /\ u.part = "b1"
  /\ host[i].sent = 2 => u.req = host[i].req /\ u.part = "b2"
  /\ u.part = "M" => host'[i].req = u.req /\ host'[i].sent = 1
  /\ u.part = "b1" => host'[i].req = u.req /\ host'[i].sent = 2

(* Such a unit leaves the stream and the activation that reads it whole. *)
LEMMA ArrivedWhole ==
  ASSUME NEW i \in Ports, NEW u, Arrived(i, u), Fits(i, u), Unbroken(i), Top' = Top
  PROVE  Unbroken(i)'
<1>1. StreamWhole(i)'
  <2> SUFFICES ASSUME NEW k \in 1 .. Len(rx'[i])
               PROVE  /\ rx'[i][k].part = "M" => Follows(i, k + 1, rx[i][k].req, "b1")'
                      /\ rx'[i][k].part = "b1" => Follows(i, k + 1, rx[i][k].req, "b2")'
    BY Zenon DEF StreamWhole
  <2>1. CASE k \in 1 .. Len(rx[i]) - 1
    <3>1. /\ k \in 1 .. Len(rx[i]) /\ k + 1 \in 1 .. Len(rx[i]) /\ k + 1 <= Len(rx[i]) /\ k + 1 <= Len(rx'[i])
      BY <2>1 DEF Arrived
    <3>2. rx'[i][k] = rx[i][k] /\ rx'[i][k + 1] = rx[i][k + 1]
      BY Zenon, <3>1 DEF Arrived
    <3> QED BY Zenon, <3>1, <3>2 DEF Unbroken, StreamWhole, Follows
  <2>2. CASE k = Len(rx[i])
    <3>1. /\ k \in 1 .. Len(rx[i]) /\ ~(k + 1 <= Len(rx[i])) /\ k + 1 <= Len(rx'[i])
          /\ rx'[i][k] = rx[i][k] /\ rx'[i][k + 1] = u
      BY <2>2 DEF Arrived
    <3>2. /\ rx[i][k].part = "M" => host[i].req = rx[i][k].req /\ host[i].sent = 1
          /\ rx[i][k].part = "b1" => host[i].req = rx[i][k].req /\ host[i].sent = 2
      BY Zenon, <3>1 DEF Unbroken, StreamWhole, Follows
    <3> QED BY Zenon, <3>1, <3>2 DEF Follows, Fits
  <2>3. CASE k = Len(rx[i]) + 1
    BY <2>3 DEF Arrived, Follows, Fits
  <2> QED BY <2>1, <2>2, <2>3 DEF Arrived
<1>2. TopWhole(i)'
  <2>1. CASE Len(rx[i]) = 0
    BY <2>1 DEF Arrived, Unbroken, TopWhole, Follows, Fits
  <2>2. CASE Len(rx[i]) # 0
    BY <2>2 DEF Arrived, Unbroken, TopWhole, Follows
  <2> QED BY Zenon, <2>1, <2>2
<1> QED BY Zenon, <1>1, <1>2 DEF Unbroken

(* A step of one host, seen by the streams. *)
LEMMA HostStreams ==
  ASSUME StreamInv, NEW i \in Ports, Top' = Top, mangled' = mangled,
         \A j \in Ports : cut[j] => cut'[j],
         \A j \in Ports \ {i} : /\ rx'[j] = rx[j] /\ host'[j].req = host[j].req
                                /\ host'[j].sent = host[j].sent /\ cut'[j] = cut[j],
         ~cut'[i] => Unbroken(i)'
  PROVE  StreamInv'
<1>1. \A j \in Ports \ {i} : ~cut'[j] => Unbroken(j)'
  BY Zenon, KeptWhole DEF StreamInv, Unbroken
<1> QED BY Zenon, <1>1 DEF StreamInv, NoInterleaving

(* A host that has finished is not in the middle of a frame. *)
LEMMA FinishedSent ==
  ASSUME PinInv, NEW i \in Ports, Finished(host[i]) PROVE host[i].sent \notin {1, 2}
  BY Zenon, NotARequest, FrameUnits DEF PinInv, HostOk, Finished

(* A new request. *)
LEMMA StartStreams ==
  ASSUME PinInv, StreamInv, NEW i \in Ports, NEW kind \in Kinds, StartRequest(i, kind)
  PROVE  StreamInv'
<1>1. TypeOK /\ mangled' = mangled /\ Top' = Top
  BY Zenon DEF PinInv, StartRequest, target, Top
<1>2. PICK r \in Request : r = [port |-> i, n |-> host[i].req.n + 1, kind |-> kind]
  BY Zenon, NewRequest DEF StartRequest
<1>3. Send(i, r, 1) /\ r.port = i /\ 1 \in 1 .. Len(Frame(r)) /\ Frame(r)[1] = "M"
  BY <1>2, FrameUnits DEF StartRequest
<1>4. PICK u \in Unit : u = [req |-> r, part |-> Frame(r)[1]]
  BY Zenon, <1>1, <1>3, SendSends
<1>5. /\ Arrived(i, u) /\ u.req = r /\ u.part = "M"
      /\ host'[i].req = r /\ host'[i].sent = 1 /\ \A j \in Ports \ {i} : host'[j] = host[j]
  BY <1>1, <1>3, <1>4, SendSends
<1>6. /\ \A j \in Ports : cut[j] => cut'[j]
      /\ \A j \in Ports \ {i} : cut'[j] = cut[j]
      /\ ~cut'[i] => ~cut[i] /\ Finished(host[i])
  BY Zenon, <1>1 DEF StartRequest, TypeOK
<1>7. ~cut'[i] => Unbroken(i)'
  <2> SUFFICES ASSUME ~cut'[i] PROVE Unbroken(i)'
    BY Zenon
  <2>1. Fits(i, u)
    BY Zenon, <1>5, <1>6, FinishedSent DEF Fits
  <2> QED BY Zenon, <1>1, <1>5, <1>6, <2>1, ArrivedWhole DEF StreamInv
<1> QED BY Zenon, <1>1, <1>5, <1>6, <1>7, HostStreams DEF Arrived

(* The units behind the magic. *)
LEMMA FrameRest ==
  ASSUME NEW r, NEW k \in {2, 3, 4}, k \in 1 .. Len(Frame(r))
  PROVE  Frame(r)[k] = IF k = 2 THEN "b1" ELSE IF k = 3 THEN "b2" ELSE "d"
<1> DEFINE n == Len(Frame(r))
<1>1. k \in 1 .. n /\ (r.kind # "write" => n = 3)
  BY Zenon, FrameUnits
<1>2. k = 4 => r.kind = "write"
  <2> HIDE DEF n
  <2> QED BY <1>1
<1>3. k = 2 \/ k = 3 \/ k = 4
  BY Zenon
<1> QED BY Zenon, <1>2, <1>3, FrameUnits

(* The next unit of a request. *)
LEMMA SendUnitStreams ==
  ASSUME PinInv, StreamInv, NEW i \in Ports, SendUnit(i) PROVE StreamInv'
<1>1. TypeOK /\ mangled' = mangled /\ Top' = Top /\ cut' = cut
  BY Zenon DEF PinInv, SendUnit, target, Top
<1>2. PICK r \in Request, k \in {2, 3, 4} : r = host[i].req /\ k = host[i].sent + 1
  BY NextUnit DEF SendUnit
<1>3. /\ Send(i, r, k) /\ r.port = i /\ k \in 1 .. Len(Frame(r))
      /\ Frame(r)[k] = IF k = 2 THEN "b1" ELSE IF k = 3 THEN "b2" ELSE "d"
  BY <1>2, NextUnit, FrameRest DEF SendUnit
<1>4. PICK u \in Unit : u = [req |-> r, part |-> Frame(r)[k]]
  BY Zenon, <1>1, <1>3, SendSends
<1>5. /\ Arrived(i, u) /\ u.req = r /\ u.part = IF k = 2 THEN "b1" ELSE IF k = 3 THEN "b2" ELSE "d"
      /\ host'[i].req = r /\ host'[i].sent = k /\ \A j \in Ports \ {i} : host'[j] = host[j]
  BY <1>1, <1>3, <1>4, SendSends
<1>6. host[i].sent = k - 1
  BY <1>2, NextUnit DEF SendUnit
<1>7. Fits(i, u)
  BY <1>2, <1>5, <1>6 DEF Fits
<1>8. ~cut'[i] => Unbroken(i)'
  BY Zenon, <1>1, <1>5, <1>7, ArrivedWhole DEF StreamInv
<1> QED BY Zenon, <1>1, <1>5, <1>8, HostStreams DEF Arrived

(* A stray byte. *)
LEMMA ZeroStreams ==
  ASSUME PinInv, StreamInv, NEW i \in Ports, SendZero(i) PROVE StreamInv'
<1>1. TypeOK /\ mangled' = mangled /\ Top' = Top /\ cut' = cut /\ Finished(host[i])
  BY Zenon DEF PinInv, SendZero, target, Top
<1>2. PICK u \in Unit : u = [req |-> NoRequest, part |-> "0"]
  BY Zenon, <1>1, ZeroSends
<1>3. /\ Arrived(i, u) /\ u.part = "0"
      /\ \A j \in Ports : host'[j].req = host[j].req /\ host'[j].sent = host[j].sent
  BY Zenon, <1>1, <1>2, ZeroSends
<1>4. Fits(i, u)
  BY Zenon, <1>1, <1>3, FinishedSent DEF Fits
<1>5. ~cut'[i] => Unbroken(i)'
  BY Zenon, <1>1, <1>3, <1>4, ArrivedWhole DEF StreamInv
<1> QED BY Zenon, <1>1, <1>3, <1>5, HostStreams DEF Arrived

(* A link that drops. *)
LEMMA DropStreams ==
  ASSUME PinInv, StreamInv, NEW i \in Ports, NEW flush \in BOOLEAN, LinkDrops(i, flush)
  PROVE  StreamInv'
<1>1. TypeOK /\ mangled' = mangled /\ Top' = Top /\ host' = host
  BY Zenon DEF PinInv, LinkDrops, target, Top
<1>2. cut'[i] /\ \A j \in Ports \ {i} : rx'[j] = rx[j] /\ cut'[j] = cut[j]
  BY Zenon, <1>1 DEF LinkDrops, TypeOK
<1> QED BY Zenon, <1>1, <1>2, HostStreams

(* A link that comes back. *)
LEMMA ReturnsStreams ==
  ASSUME PinInv, StreamInv, NEW i \in Ports, LinkReturns(i) PROVE StreamInv'
  BY DEF LinkReturns, sending, target, StreamInv, NoInterleaving, Unbroken, StreamWhole, TopWhole,
         Follows, Top

(* Every step keeps the streams whole. *)
LEMMA StreamInductive == PinInv /\ StreamInv /\ [Next]_vars => StreamInv'
<1> SUFFICES ASSUME PinInv, StreamInv, [Next]_vars PROVE StreamInv'
  BY Zenon
<1>1. CASE Loop \/ CallFaults
  <2>1. \A timeout \in BOOLEAN : Scan(timeout) => StreamInv'
    BY Zenon, ScanStreams
  <2> QED BY Zenon, <1>1, <2>1, BodyStreams, LoopStreams DEF Loop
<1>2. CASE Hosts
  BY Zenon, <1>2, StartStreams, SendUnitStreams, ZeroStreams, DropStreams, ReturnsStreams DEF Hosts
<1>3. CASE UNCHANGED vars
  BY <1>3 DEF vars, StreamInv, NoInterleaving, Unbroken, StreamWhole, TopWhole, Follows, Top
<1> QED BY Zenon, <1>1, <1>2, <1>3 DEF Next

(* Nothing was sent yet. *)
LEMMA StreamInitial == Init => StreamInv
<1> SUFFICES ASSUME Init PROVE StreamInv
  BY Zenon
<1>1. Top = Fresh /\ \A i \in Ports : Len(rx[i]) = 0 /\ ~mangled[i]
  BY DEF Init, Top
<1> QED BY <1>1 DEF StreamInv, NoInterleaving, Unbroken, StreamWhole, TopWhole, Fresh

(* Every state the loop and its hosts reach is well typed: its stack of     *)
(* q1n1_proxy_run activations is never empty nor deeper than the nesting    *)
(* that q1n1_exception allows.                                              *)
THEOREM LoopTypes == Spec => []TypeOK
<1>1. PinInv => TypeOK
  BY Zenon DEF PinInv
<1> QED BY <1>1, PinInitial, PinInductive, PTL DEF Spec

(* usb-ports.c keeps the streams apart: q1n1_proxy_run reads a request with *)
(* a wrong checksum only from a controller whose own stream was broken off. *)
THEOREM StreamsNeverMix == Spec => []NoInterleaving
<1>1. StreamInv => NoInterleaving
  BY Zenon DEF StreamInv
<1> QED BY <1>1, PinInitial, PinInductive, StreamInitial, StreamInductive, PTL DEF Spec
=============================================================================
