------------------------ MODULE ProxyLoopOnceProofs ------------------------
(***************************************************************************)
(* The request loop carries a request out at most once, and none that its  *)
(* host left unfinished, for every number of controllers, requests and     *)
(* stray bytes, with links that drop and calls that fault.                 *)
(***************************************************************************)
EXTENDS ProxyLoopProofs

-----------------------------------------------------------------------------
(* A request is carried out at most once. *)

(* The host of r has sent the whole frame of r. *)
Completed(r) ==
  /\ r \notin abandoned /\ r.n <= host[r.port].req.n
  /\ host[r.port].req = r => host[r.port].sent >= 3

(* Every magic still to be read from the port of r is of a later request.   *)
Ahead(r) ==
  \A k \in 1 .. Len(rx[r.port]) : rx[r.port][k].part = "M" => r.n < rx[r.port][k].req.n

(* The activation that runs has read a magic and not yet acted on it.       *)
Pending == Top.pc \in {"b1", "b2", "dispatch", "d"}

(* The requests of a host are numbered in the order it sends them, and they *)
(* arrive in that order.                                                    *)
Numbered ==
  /\ \A r \in abandoned : r.n < host[r.port].req.n
  /\ \A i \in Ports : \A k \in 1 .. Len(rx[i]) :
       /\ rx[i][k].part # "0" => rx[i][k].req.n <= host[i].req.n
       /\ rx[i][k].part = "b2" => Completed(rx[i][k].req)
  /\ \A i \in Ports : \A k, l \in 1 .. Len(rx[i]) :
       k < l /\ rx[i][k].part = "M" /\ rx[i][l].part = "M" => rx[i][k].req.n < rx[i][l].req.n

(* What was carried out is over: it was wholly sent, and what is being read *)
(* or still to be read from its port comes after it.                        *)
Done ==
  \A r \in Request : executed[r] > 0 =>
    /\ executed[r] = 1 /\ Completed(r) /\ Ahead(r)
    /\ Pending /\ Top.req.port = r.port => r.n < Top.req.n

InHand ==
  /\ Pending => Ahead(Top.req) /\ Top.req.n <= host[Top.req.port].req.n
  /\ Top.pc \in {"dispatch", "d"} => Completed(Top.req)

OnceInv == Numbered /\ Done /\ InHand

(* The number and the port of a request. *)
LEMMA RequestType ==
  \A r \in Request : r.n \in Nat /\ r.port \in Ports
  BY LoopAssumption DEF Request

(* The number of the last request of a host. *)
LEMMA HostNumber ==
  ASSUME PinInv, NEW i \in Ports PROVE host[i].req.n \in Nat
  BY LoopAssumption DEF PinInv, HostOk, Request, NoRequest

(* Reading keeps the order of what is left. *)
LEMMA TakenOnce ==
  ASSUME PinInv, Numbered, NEW i \in Ports, Taken(i), host' = host, abandoned' = abandoned
  PROVE  /\ Numbered'
         /\ \A r \in Request : (Completed(r) => Completed(r)') /\ (Ahead(r) => Ahead(r)')
<1>1. \A r : Completed(r)' <=> Completed(r)
  BY Zenon DEF Completed
<1>2. \A j \in Ports : \A k \in 1 .. Len(rx'[j]) :
        \E l \in 1 .. Len(rx[j]) : rx'[j][k] = rx[j][l] /\ l = IF j = i THEN k + 1 ELSE k
  BY DEF Taken
<1>3. \A r \in Request : Ahead(r) => Ahead(r)'
  BY <1>2, RequestType DEF Ahead
<1>4. Numbered'
  <2>1. \A r \in abandoned' : r.n < host'[r.port].req.n
    BY Zenon DEF Numbered
  <2>2. ASSUME NEW j \in Ports, NEW k \in 1 .. Len(rx'[j])
        PROVE  /\ rx'[j][k].part # "0" => rx'[j][k].req.n <= host'[j].req.n
               /\ rx'[j][k].part = "b2" => Completed(rx[j][k].req)'
    <3>1. PICK l \in 1 .. Len(rx[j]) : rx'[j][k] = rx[j][l]
      BY Zenon, <1>2
    <3> QED BY Zenon, <3>1 DEF Numbered, Completed
  <2>3. ASSUME NEW j \in Ports, NEW k \in 1 .. Len(rx'[j]), NEW l \in 1 .. Len(rx'[j]),
               k < l, rx'[j][k].part = "M", rx'[j][l].part = "M"
        PROVE  rx'[j][k].req.n < rx'[j][l].req.n
    <3>1. CASE j = i
      <4>1. /\ rx'[i][k] = rx[i][k + 1] /\ k + 1 \in 1 .. Len(rx[i])
            /\ rx'[i][l] = rx[i][l + 1] /\ l + 1 \in 1 .. Len(rx[i]) /\ k + 1 < l + 1
        BY <2>3, <3>1 DEF Taken
      <4> QED BY Zenon, <2>3, <3>1, <4>1 DEF Numbered
    <3>2. CASE j # i
      BY Zenon, <2>3, <3>2 DEF Numbered, Taken
    <3> QED BY Zenon, <3>1, <3>2
  <2> QED BY Zenon, <2>1, <2>2, <2>3 DEF Numbered
<1> QED BY Zenon, <1>1, <1>3, <1>4

(* Nothing sent and nothing read. *)
LEMMA KeptOnce ==
  ASSUME Numbered, UNCHANGED <<rx, host, abandoned>>
  PROVE  Numbered' /\ \A r : (Completed(r) => Completed(r)') /\ (Ahead(r) => Ahead(r)')
  BY Zenon DEF Numbered, Completed, Ahead

(* A step of the loop that reads no magic and carries nothing out. *)
LEMMA QuietOnce ==
  ASSUME PinInv, OnceInv, UNCHANGED <<host, abandoned, executed>>,
         rx' = rx \/ \E i \in Ports : Taken(i),
         Pending' => Pending /\ Top'.req = Top.req,
         Top'.pc \in {"dispatch", "d"} => Completed(Top.req)
  PROVE  OnceInv'
<1>1. Numbered' /\ \A r \in Request : (Completed(r) => Completed(r)') /\ (Ahead(r) => Ahead(r)')
  <2>1. CASE rx' = rx
    BY Zenon, <2>1, KeptOnce DEF OnceInv
  <2>2. CASE \E i \in Ports : Taken(i)
    BY Zenon, <2>2, TakenOnce DEF OnceInv
  <2> QED BY Zenon, <2>1, <2>2
<1>3. Pending => Top.req \in Request
  BY Zenon DEF PinInv, Owner, Pending
<1>4. Done'
  BY Zenon, <1>1 DEF OnceInv, Done
<1>5. Pending' => Ahead(Top.req)' /\ Top'.req.n <= host'[Top'.req.port].req.n
  <2> SUFFICES ASSUME Pending' PROVE Ahead(Top.req)' /\ Top'.req.n <= host'[Top'.req.port].req.n
    BY Zenon
  <2>1. PICK r \in Request : r = Top.req
    BY Zenon, <1>3
  <2>2. Ahead(r)' /\ r = Top'.req
    BY Zenon, <1>1, <2>1 DEF OnceInv, InHand
  <2>3. Ahead(Top.req)'
    BY Zenon, <2>2 DEF Ahead
  <2> QED BY Zenon, <2>3, <2>1 DEF OnceInv, InHand
<1>6. Top'.pc \in {"dispatch", "d"} => Completed(Top.req)'
  <2> SUFFICES ASSUME Top'.pc \in {"dispatch", "d"} PROVE Completed(Top.req)'
    BY Zenon
  <2>1. Pending' /\ Top'.req = Top.req
    BY Zenon DEF Pending
  <2> QED BY Zenon, <2>1 DEF Completed
<1> QED BY Zenon, <1>1, <1>4, <1>5, <1>6 DEF OnceInv, InHand

(* One pass of the scan: the magic it reads is the first of its port. *)
LEMMA ScanOnce ==
  ASSUME PinInv, OnceInv, NEW timeout \in BOOLEAN, Scan(timeout) PROVE OnceInv'
<1> DEFINE drop == ~io_ready(selected) \/ timeout
           sel == IF drop THEN NoPort ELSE selected
           partial == Top.partial /\ ~drop
<1>1. TypeOK /\ Top \in Activation /\ Top.pc = "scan"
  BY Zenon, TopType DEF PinInv, Scan
<1>2. sel \in Ports \cup {NoPort} /\ partial \in BOOLEAN
  BY Zenon, <1>1 DEF TypeOK, Activation
<1>3. CASE Readable(sel) = {}
  <2>1. SetTop([Top EXCEPT !.partial = partial]) /\ UNCHANGED <<wire, executed, replies, mangled>>
    BY Zenon, <1>3 DEF Scan
  <2>2. [Top EXCEPT !.partial = partial] \in Activation /\ [Top EXCEPT !.partial = partial].pc = "scan"
    BY Zenon, <1>1, <1>2 DEF Activation
  <2>3. Top'.pc = "scan"
    BY Zenon, <1>1, <2>1, <2>2, SetTopSets DEF TopIs
  <2> QED BY Zenon, <2>1, <2>3, QuietOnce DEF wire, sending, Pending
<1>4. CASE Readable(sel) # {}
  <2>1. PICK i \in Ports :
          /\ rx[i] # <<>> /\ Take(i)
          /\ SetTop(IF Head(rx[i]).part = "M"
                    THEN [Fresh EXCEPT !.pc = "b1", !.req = Head(rx[i]).req]
                    ELSE [Top EXCEPT !.partial = TRUE])
          /\ UNCHANGED <<ready, sending, executed, replies, mangled>>
    <3>1. Source(sel) \in Ports /\ rx[Source(sel)] # <<>>
      BY Zenon, <1>4, LowestIn DEF Source, Readable, Allowed
    <3> QED BY Zenon, <1>4, <3>1 DEF Scan
  <2>2. PICK u \in Unit : u = Head(rx[i]) /\ u = rx[i][1] /\ Taken(i) /\ 1 \in 1 .. Len(rx[i])
    BY <1>1, <2>1, TakeTakes DEF Taken
  <2> DEFINE a == IF u.part = "M" THEN [Fresh EXCEPT !.pc = "b1", !.req = u.req]
                  ELSE [Top EXCEPT !.partial = TRUE]
  <2>3. SetTop(a) /\ host' = host /\ abandoned' = abandoned /\ executed' = executed
    BY Zenon, <2>1, <2>2 DEF sending
  <2>4. u.part = "M" => u.req \in Request /\ u.req.port = i
    BY <2>2 DEF PinInv, UnitsOk
  <2>5. a \in Activation
    BY Zenon, <1>1 DEF Activation, Fresh, Pc, Unit
  <2>6. /\ u.part = "M" => a.pc = "b1" /\ a.req = u.req
        /\ u.part # "M" => a.pc = "scan"
    BY Zenon, <1>1 DEF Activation, Fresh
  <2>7. Top' = a
    BY Zenon, <1>1, <2>3, <2>5, SetTopSets DEF TopIs
  <2> HIDE DEF a
  <2>8. CASE u.part # "M"
    BY Zenon, <2>2, <2>3, <2>6, <2>7, <2>8, QuietOnce DEF Pending
  <2>9. CASE u.part = "M"
    <3>1. Top'.pc = "b1" /\ Top'.req = u.req
      BY Zenon, <2>6, <2>7, <2>9
    <3>2. Numbered' /\ \A r \in Request : (Completed(r) => Completed(r)') /\ (Ahead(r) => Ahead(r)')
      BY Zenon, <2>2, <2>3, TakenOnce DEF OnceInv
    <3>3. Done'
      <4> SUFFICES ASSUME NEW r \in Request, executed[r] > 0
                   PROVE  /\ executed[r] = 1 /\ Completed(r)' /\ Ahead(r)'
                          /\ Top'.req.port = r.port => r.n < Top'.req.n
        BY Zenon, <2>3 DEF Done
      <4>1. executed[r] = 1 /\ Completed(r) /\ Ahead(r)
        BY Zenon DEF OnceInv, Done
      <4>2. u.req.port = r.port => r.n < u.req.n
        BY Zenon, <2>2, <2>4, <2>9, <4>1 DEF Ahead
      <4> QED BY Zenon, <3>1, <3>2, <4>1, <4>2
    <3>4. Ahead(Top.req)'
      <4> SUFFICES ASSUME NEW k \in 1 .. Len(rx'[i]), rx'[i][k].part = "M"
                   PROVE  u.req.n < rx'[i][k].req.n
        BY Zenon, <2>4, <2>9, <3>1 DEF Ahead
      <4>1. k + 1 \in 1 .. Len(rx[i]) /\ rx'[i][k] = rx[i][k + 1] /\ 1 < k + 1
        BY <2>2 DEF Taken
      <4> QED BY Zenon, <2>2, <2>9, <4>1 DEF OnceInv, Numbered
    <3>5. Top'.req.n <= host'[Top'.req.port].req.n
      BY Zenon, <2>2, <2>3, <2>4, <2>9, <3>1 DEF OnceInv, Numbered
    <3> QED BY Zenon, <3>1, <3>2, <3>3, <3>4, <3>5 DEF OnceInv, InHand
  <2> QED BY Zenon, <2>8, <2>9
<1> QED BY Zenon, <1>3, <1>4

(* The body: its second half is there only when the host has sent it. *)
LEMMA BodyOnce == ASSUME PinInv, OnceInv, Body PROVE OnceInv'
<1>1. TypeOK /\ Top \in Activation
  BY Zenon, TopType DEF PinInv
<1>2. PICK i \in Ports :
        /\ ReadFull(i)
        /\ LET whole == Top.whole /\ Own(i)
           IN  \/ /\ Top.pc = "b1"
                  /\ SetTop([Top EXCEPT !.pc = "b2", !.whole = whole])
                  /\ UNCHANGED mangled
               \/ /\ Top.pc = "b2"
                  /\ SetTop([Top EXCEPT !.pc = IF whole THEN "dispatch" ELSE "reply",
                                        !.whole = whole])
                  /\ mangled' = [mangled EXCEPT ![i] = @ \/ ~whole]
  BY Zenon DEF Body
<1> DEFINE whole == Top.whole /\ Own(i)
<1>3. UNCHANGED <<host, abandoned, executed>>
  BY Zenon DEF Body, sending
<1>4. Top.pc \in {"b1", "b2"} /\ whole \in BOOLEAN
  BY Zenon, <1>1, <1>2 DEF Activation
<1>5. Taken(i) /\ Head(rx[i]) = rx[i][1] /\ 1 \in 1 .. Len(rx[i])
  BY <1>2, <1>4, ReadsOwn DEF Taken
<1>6. PICK pc \in {"b2", "dispatch", "reply"} :
        /\ SetTop([Top EXCEPT !.pc = pc, !.whole = whole])
        /\ pc = "dispatch" => Top.pc = "b2" /\ Own(i)
  BY Zenon, <1>2
<1>7. pc = "dispatch" => Completed(Top.req)
  <2> SUFFICES ASSUME pc = "dispatch" PROVE Completed(Top.req)
    BY Zenon
  <2>1. rx[i][1].part = "b2" /\ rx[i][1].req = Top.req
    BY <1>5, <1>6 DEF Own
  <2> QED BY Zenon, <1>5, <2>1 DEF OnceInv, Numbered
<1> HIDE DEF whole
<1> DEFINE a == [Top EXCEPT !.pc = pc, !.whole = whole]
<1>8. a \in Activation /\ a.pc = pc /\ a.req = Top.req
  BY Zenon, <1>1, <1>4 DEF Activation, Pc
<1>9. Top' = a
  BY Zenon, <1>1, <1>6, <1>8, SetTopSets DEF TopIs
<1>10. Pending' => Pending /\ Top'.req = Top.req
  BY Zenon, <1>4, <1>8, <1>9 DEF Pending
<1>11. Top'.pc \in {"dispatch", "d"} => Completed(Top.req)
  BY Zenon, <1>7, <1>8, <1>9
<1> HIDE DEF a
<1> QED BY Zenon, <1>3, <1>5, <1>10, <1>11, QuietOnce

(* A request is carried out when it is the next of its port, and never      *)
(* again.                                                                   *)
LEMMA CarriesOut ==
  ASSUME PinInv, OnceInv, Top.pc \in {"dispatch", "d"}, Executes, UNCHANGED <<host, abandoned>>,
         rx' = rx \/ \E i \in Ports : Taken(i), ~Pending'
  PROVE  OnceInv'
<1>1. Top.req \in Request /\ Completed(Top.req) /\ Ahead(Top.req) /\ Pending
  BY Zenon DEF PinInv, Owner, OnceInv, InHand, Pending
<1>2. PICK q \in Request : q = Top.req
  BY Zenon, <1>1
<1>3. Numbered' /\ \A r \in Request : (Completed(r) => Completed(r)') /\ (Ahead(r) => Ahead(r)')
  <2>1. CASE rx' = rx
    BY Zenon, <2>1, KeptOnce DEF OnceInv
  <2>2. CASE \E i \in Ports : Taken(i)
    BY Zenon, <2>2, TakenOnce DEF OnceInv
  <2> QED BY Zenon, <2>1, <2>2
<1>5. executed[q] = 0
  <2>1. ~(executed[q] > 0)
    BY <1>1, <1>2, RequestType DEF OnceInv, Done
  <2> QED BY <2>1 DEF PinInv, TypeOK
<1>6. executed' = [executed EXCEPT ![q] = @ + 1]
  BY Zenon, <1>2 DEF Executes
<1>7. executed'[q] = 1 /\ \A r \in Request \ {q} : executed'[r] = executed[r]
  BY <1>5, <1>6 DEF PinInv, TypeOK
<1>8. Done'
  <2> SUFFICES ASSUME NEW r \in Request, executed'[r] > 0
               PROVE  executed'[r] = 1 /\ Completed(r)' /\ Ahead(r)'
    BY Zenon DEF Done
  <2>1. CASE r = q
    BY Zenon, <1>1, <1>2, <1>3, <1>7, <2>1
  <2>2. CASE r # q
    BY Zenon, <1>3, <1>7, <2>2 DEF OnceInv, Done
  <2> QED BY Zenon, <2>1, <2>2
<1>9. InHand'
  BY Zenon DEF InHand, Pending
<1> QED BY Zenon, <1>3, <1>8, <1>9 DEF OnceInv

(* The other steps of the loop. *)
LEMMA LoopOnce ==
  ASSUME PinInv, OnceInv, Dispatch \/ Data \/ ReadFullFails \/ CallReturns \/ CallFaults \/ Reply
  PROVE  OnceInv'
<1>1. UNCHANGED <<host, abandoned>>
  BY Zenon DEF Dispatch, Data, ReadFullFails, CallReturns, CallFaults, Reply, wire, sending
<1>2. /\ Top'.pc \notin {"b1", "b2", "dispatch"}
      /\ Top'.pc = "d" => Dispatch /\ Top'.req = Top.req
  BY Zenon, LeavesBody
<1>3. CASE Dispatch
  <2>1. Top.pc = "dispatch" /\ rx' = rx
    BY Zenon, <1>3 DEF Dispatch, wire
  <2>2. CASE Top'.pc = "d" /\ UNCHANGED executed
    BY Zenon, <1>1, <1>2, <2>1, <2>2, QuietOnce DEF Pending, OnceInv, InHand
  <2>3. CASE Top'.pc # "d" /\ Executes
    BY Zenon, <1>1, <1>2, <2>1, <2>3, CarriesOut DEF Pending
  <2>4. (Top'.pc = "d" /\ UNCHANGED executed) \/ (Top'.pc # "d" /\ Executes)
    <3>1. PICK pc \in {"d", "call", "reply"} :
            /\ SetTop([Top EXCEPT !.pc = pc])
            /\ (pc = "d" /\ UNCHANGED executed) \/ (pc # "d" /\ Executes)
      BY Zenon, <1>3 DEF Dispatch
    <3>2. TypeOK /\ Top \in Activation
      BY Zenon, TopType DEF PinInv
    <3>3. [Top EXCEPT !.pc = pc] \in Activation /\ [Top EXCEPT !.pc = pc].pc = pc
      BY Zenon, <3>2 DEF Activation, Pc
    <3>4. Top'.pc = pc
      BY Zenon, <3>1, <3>2, <3>3, SetTopSets DEF TopIs
    <3> QED BY Zenon, <3>1, <3>4
  <2> QED BY Zenon, <2>2, <2>3, <2>4
<1>4. CASE Data
  <2>1. PICK i \in Ports : ReadFull(i)
    BY Zenon, <1>4 DEF Data
  <2>2. Taken(i) /\ Top.pc = "d" /\ Executes
    BY Zenon, <1>4, <2>1, ReadsOwn DEF Data
  <2>3. ~Pending'
    <3>1. TypeOK /\ Top \in Activation
      BY Zenon, TopType DEF PinInv
    <3>2. [Top EXCEPT !.pc = "reply"] \in Activation /\ [Top EXCEPT !.pc = "reply"].pc = "reply"
      BY Zenon, <3>1 DEF Activation, Pc
    <3>3. Top'.pc = "reply"
      BY Zenon, <1>4, <3>1, <3>2, SetTopSets DEF Data, TopIs
    <3> QED BY Zenon, <3>3 DEF Pending
  <2> QED BY Zenon, <1>1, <2>2, <2>3, CarriesOut
<1>5. CASE ~Dispatch /\ ~Data
  <2>1. UNCHANGED <<rx, executed>>
    BY Zenon, <1>5 DEF ReadFullFails, CallReturns, CallFaults, Reply, wire
  <2>2. ~Pending' /\ Top'.pc \notin {"dispatch", "d"}
    BY Zenon, <1>2, <1>5 DEF Pending
  <2> QED BY Zenon, <1>1, <2>1, <2>2, QuietOnce
<1> QED BY Zenon, <1>3, <1>4, <1>5

(* A step of a host: what was complete stays so, and what arrives comes     *)
(* after everything that was sent before.                                   *)
Grows ==
  /\ \A r \in abandoned' : r.n < host'[r.port].req.n
  /\ \A r \in Request : Completed(r) => Completed(r)'
  /\ \A j \in Ports : host'[j].req.n \in Nat /\ host[j].req.n <= host'[j].req.n
Comes(i, u) ==
  /\ u.part # "0" => u.req.n <= host'[i].req.n
  /\ u.part = "M" => u.req.n \in Nat /\ host[i].req.n < u.req.n
  /\ u.part = "b2" => u.req \in Request /\ Completed(u.req)'

(* What is in a stream after an arrival. *)
LEMMA ArrivedPlaces ==
  ASSUME NEW i \in Ports, NEW u, Arrived(i, u), NEW j \in Ports, NEW k \in 1 .. Len(rx'[j])
  PROVE  \/ k \in 1 .. Len(rx[j]) /\ rx'[j][k] = rx[j][k]
         \/ j = i /\ k = Len(rx[i]) + 1 /\ rx'[j][k] = u
<1>1. CASE j = i
  BY <1>1 DEF Arrived
<1>2. CASE j # i
  BY Zenon, <1>2 DEF Arrived
<1> QED BY Zenon, <1>1, <1>2

(* What is ahead of a request that was begun stays so. *)
LEMMA ArrivedAhead ==
  ASSUME PinInv, NEW i \in Ports, NEW u, Arrived(i, u), Comes(i, u),
         NEW r \in Request, r.n <= host[r.port].req.n, Ahead(r)
  PROVE  Ahead(r)'
<1> SUFFICES ASSUME NEW k \in 1 .. Len(rx'[r.port]), rx'[r.port][k].part = "M"
             PROVE  r.n < rx'[r.port][k].req.n
  BY Zenon DEF Ahead
<1>1. r.port \in Ports /\ r.n \in Nat /\ host[i].req.n \in Nat
  BY Zenon, RequestType, HostNumber
<1>2. CASE k \in 1 .. Len(rx[r.port]) /\ rx'[r.port][k] = rx[r.port][k]
  BY Zenon, <1>2 DEF Ahead
<1>3. CASE r.port = i /\ rx'[r.port][k] = u
  BY <1>1, <1>3 DEF Comes
<1> QED BY Zenon, <1>1, <1>2, <1>3, ArrivedPlaces

(* An arrival keeps the order of a stream. *)
LEMMA ArrivedNumbered ==
  ASSUME PinInv, Numbered, Grows, NEW i \in Ports, NEW u, Arrived(i, u), Comes(i, u)
  PROVE  Numbered'
<1>1. ASSUME NEW j \in Ports, NEW k \in 1 .. Len(rx[j]), rx[j][k].part # "0"
      PROVE  /\ rx[j][k].req \in Request /\ rx[j][k].req.n \in Nat
             /\ rx[j][k].req.n <= host[j].req.n /\ host[j].req.n \in Nat
  BY Zenon, <1>1, RequestType, HostNumber DEF PinInv, UnitsOk, Numbered
<1>2. ASSUME NEW j \in Ports, NEW k \in 1 .. Len(rx'[j]), rx'[j][k].part # "0"
      PROVE  rx'[j][k].req.n <= host'[j].req.n
  <2>1. CASE k \in 1 .. Len(rx[j]) /\ rx'[j][k] = rx[j][k]
    <3>1. host'[j].req.n \in Nat /\ host[j].req.n <= host'[j].req.n
      BY Zenon DEF Grows
    <3> QED BY <1>1, <1>2, <2>1, <3>1
  <2>2. CASE j = i /\ rx'[j][k] = u
    BY Zenon, <1>2, <2>2 DEF Comes
  <2> QED BY Zenon, <2>1, <2>2, ArrivedPlaces
<1>3. ASSUME NEW j \in Ports, NEW k \in 1 .. Len(rx'[j]), rx'[j][k].part = "b2"
      PROVE  Completed(rx[j][k].req)'
  <2>1. CASE k \in 1 .. Len(rx[j]) /\ rx'[j][k] = rx[j][k]
    <3>1. rx[j][k].part = "b2"
      BY Zenon, <1>3, <2>1
    <3>2. rx[j][k].req \in Request /\ Completed(rx[j][k].req)
      BY Zenon, <1>1, <2>1, <3>1 DEF Numbered
    <3>3. PICK q \in Request : q = rx[j][k].req /\ Completed(q)
      BY Zenon, <3>2
    <3>4. Completed(q)' /\ q = rx'[j][k].req
      BY Zenon, <2>1, <3>3 DEF Grows
    <3> QED BY Zenon, <3>4 DEF Completed
  <2>2. CASE j = i /\ rx'[j][k] = u
    <3>1. Completed(u.req)' /\ rx'[j][k].req = u.req
      BY Zenon, <1>3, <2>2 DEF Comes
    <3> QED BY Zenon, <3>1 DEF Completed
  <2> QED BY Zenon, <2>1, <2>2, ArrivedPlaces
<1>4. ASSUME NEW j \in Ports, NEW k \in 1 .. Len(rx'[j]), NEW l \in 1 .. Len(rx'[j]),
             k < l, rx'[j][k].part = "M", rx'[j][l].part = "M"
      PROVE  rx'[j][k].req.n < rx'[j][l].req.n
  <2>1. k \in 1 .. Len(rx[j]) /\ rx'[j][k] = rx[j][k]
    <3>1. CASE j = i
      BY <1>4, <3>1 DEF Arrived
    <3>2. CASE j # i
      BY Zenon, <3>2 DEF Arrived
    <3> QED BY Zenon, <3>1, <3>2
  <2>2. CASE l \in 1 .. Len(rx[j]) /\ rx'[j][l] = rx[j][l]
    BY Zenon, <1>4, <2>1, <2>2 DEF Numbered
  <2>3. CASE j = i /\ rx'[j][l] = u
    <3>1. rx[j][k].req.n \in Nat /\ rx[j][k].req.n <= host[i].req.n /\ host[i].req.n \in Nat
      BY Zenon, <1>1, <1>4, <2>1, <2>3
    <3>2. u.req.n \in Nat /\ host[i].req.n < u.req.n
      BY Zenon, <1>4, <2>3 DEF Comes
    <3> QED BY <2>1, <2>3, <3>1, <3>2
  <2> QED BY Zenon, <2>2, <2>3, ArrivedPlaces
<1>5. \A r \in abandoned' : r.n < host'[r.port].req.n
  BY Zenon DEF Grows
<1> QED BY Zenon, <1>2, <1>3, <1>4, <1>5 DEF Numbered

(* What was carried out and what is in hand stay as they are, when the      *)
(* numbers only grow and what is ahead of a request stays ahead of it.      *)
LEMMA GrowsKeeps ==
  ASSUME PinInv, OnceInv, Top' = Top, executed' = executed, Grows,
         \A r \in Request : r.n <= host[r.port].req.n /\ Ahead(r) => Ahead(r)'
  PROVE  Done' /\ InHand'
<1>1. Done'
  <2> SUFFICES ASSUME NEW r \in Request, executed[r] > 0
               PROVE  /\ executed[r] = 1 /\ Completed(r)' /\ Ahead(r)'
                      /\ Pending' /\ Top'.req.port = r.port => r.n < Top'.req.n
    BY Zenon DEF Done
  <2>1. /\ executed[r] = 1 /\ Completed(r) /\ Ahead(r)
        /\ Pending /\ Top.req.port = r.port => r.n < Top.req.n
    BY Zenon DEF OnceInv, Done
  <2>2. r.n <= host[r.port].req.n
    BY Zenon, <2>1 DEF Completed
  <2> QED BY Zenon, <2>1, <2>2 DEF Pending, Grows
<1>2. ASSUME Pending PROVE Ahead(Top.req)' /\ Top'.req.n <= host'[Top'.req.port].req.n
  <2>1. PICK q \in Request : q = Top.req /\ q.n <= host[q.port].req.n /\ Ahead(q)
    BY Zenon, <1>2 DEF PinInv, Owner, Pending, OnceInv, InHand
  <2>2. Ahead(q)' /\ q = Top'.req
    BY Zenon, <2>1
  <2>3. /\ q.n \in Nat /\ host[q.port].req.n \in Nat /\ host'[q.port].req.n \in Nat
        /\ host[q.port].req.n <= host'[q.port].req.n
    BY Zenon, RequestType, HostNumber DEF Grows
  <2>4. q.n <= host'[q.port].req.n
    BY <2>1, <2>3
  <2> QED BY Zenon, <2>2, <2>4 DEF Ahead
<1>3. ASSUME Top.pc \in {"dispatch", "d"} PROVE Completed(Top.req)'
  <2>1. PICK q \in Request : q = Top.req /\ Completed(q)
    BY Zenon, <1>3 DEF PinInv, Owner, OnceInv, InHand
  <2>2. Completed(q)' /\ q = Top'.req
    BY Zenon, <2>1 DEF Grows
  <2> QED BY Zenon, <2>2 DEF Completed
<1>4. InHand'
  BY Zenon, <1>2, <1>3 DEF InHand, Pending
<1> QED BY Zenon, <1>1, <1>4

(* A unit that a host sends. *)
LEMMA HostOnce ==
  ASSUME PinInv, OnceInv, Top' = Top, executed' = executed, Grows,
         NEW i \in Ports, NEW u, Arrived(i, u), Comes(i, u)
  PROVE  OnceInv'
  BY Zenon, GrowsKeeps, ArrivedAhead, ArrivedNumbered DEF OnceInv

(* A new request. *)
LEMMA StartOnce ==
  ASSUME PinInv, OnceInv, NEW i \in Ports, NEW kind \in Kinds, StartRequest(i, kind)
  PROVE  OnceInv'
<1>1. TypeOK /\ executed' = executed /\ Top' = Top
  BY Zenon DEF PinInv, StartRequest, target, Top
<1>2. PICK r \in Request : r = [port |-> i, n |-> host[i].req.n + 1, kind |-> kind]
  BY Zenon, NewRequest DEF StartRequest
<1>3. /\ Send(i, r, 1) /\ r.port = i /\ r.n = host[i].req.n + 1
      /\ 1 \in 1 .. Len(Frame(r)) /\ Frame(r)[1] = "M"
  BY <1>2, FrameUnits DEF StartRequest
<1>4. PICK u \in Unit : u = [req |-> r, part |-> Frame(r)[1]]
  BY Zenon, <1>1, <1>3, SendSends
<1>5. /\ Arrived(i, u) /\ u.req = r /\ u.part = "M"
      /\ host'[i].req = r /\ host'[i].sent = 1 /\ \A j \in Ports \ {i} : host'[j] = host[j]
  BY <1>1, <1>3, <1>4, SendSends
<1>6. \A j \in Ports : host[j].req.n \in Nat
  BY Zenon, HostNumber
<1>7. \A j \in Ports : host'[j].req.n \in Nat /\ host[j].req.n <= host'[j].req.n
  <2>1. r.n \in Nat
    BY Zenon, RequestType
  <2> QED BY <1>3, <1>5, <1>6, <2>1
<1>8. \A q \in abandoned' : q \in abandoned \/ (q = host[i].req /\ host[i].sent \in {1, 2})
  BY Zenon DEF StartRequest
<1>9. \A q \in abandoned' : q.n < host'[q.port].req.n
  <2> SUFFICES ASSUME NEW q \in abandoned' PROVE q.n < host'[q.port].req.n
    BY Zenon
  <2>1. CASE q \in abandoned
    <3>1. q \in Request /\ q.n < host[q.port].req.n
      BY Zenon, <1>1, <2>1 DEF TypeOK, OnceInv, Numbered
    <3> QED BY <1>6, <1>7, <3>1, RequestType
  <2>2. CASE q = host[i].req /\ host[i].sent \in {1, 2}
    <3>1. q.port = i /\ q.n \in Nat
      BY <1>6, <2>2 DEF PinInv, HostOk
    <3> QED BY <1>3, <1>5, <2>2, <3>1
  <2> QED BY Zenon, <1>8, <2>1, <2>2
<1>10. ASSUME NEW q \in Request, Completed(q) PROVE Completed(q)'
  <2>1. q.port \in Ports /\ q.n \in Nat
    BY Zenon, RequestType
  <2>2. q \notin abandoned'
    <3>1. q = host[i].req => q.port = i /\ ~(host[i].sent \in {1, 2})
      BY <1>10, NotARequest DEF PinInv, HostOk, Completed
    <3> QED BY Zenon, <1>8, <1>10, <3>1 DEF Completed
  <2>3. q.n <= host'[q.port].req.n
    BY <1>6, <1>7, <1>10, <2>1 DEF Completed
  <2>4. host'[q.port].req = q => host'[q.port].sent >= 3
    <3>1. CASE q.port = i
      <4>1. q.n <= host[i].req.n
        BY Zenon, <1>10, <3>1 DEF Completed
      <4> QED BY <1>3, <1>5, <1>6, <2>1, <3>1, <4>1
    <3>2. CASE q.port # i
      BY Zenon, <1>5, <1>10, <2>1, <3>2 DEF Completed
    <3> QED BY Zenon, <3>1, <3>2
  <2> QED BY Zenon, <2>2, <2>3, <2>4 DEF Completed
<1>11. u.req.n <= host'[i].req.n /\ u.req.n \in Nat /\ host[i].req.n < u.req.n
  BY <1>3, <1>5, <1>6, RequestType
<1>12. Grows /\ Comes(i, u)
  BY Zenon, <1>5, <1>7, <1>9, <1>10, <1>11 DEF Grows, Comes
<1> QED BY Zenon, <1>1, <1>5, <1>12, HostOnce

(* The next unit of a request. *)
LEMMA SendUnitOnce ==
  ASSUME PinInv, OnceInv, NEW i \in Ports, SendUnit(i) PROVE OnceInv'
<1>1. TypeOK /\ executed' = executed /\ Top' = Top /\ abandoned' = abandoned
  BY Zenon DEF PinInv, SendUnit, target, Top
<1>2. PICK r \in Request, k \in {2, 3, 4} : r = host[i].req /\ k = host[i].sent + 1
  BY NextUnit DEF SendUnit
<1>3. /\ Send(i, r, k) /\ r.port = i /\ k \in 1 .. Len(Frame(r)) /\ host[i].sent = k - 1
  BY <1>2, NextUnit DEF SendUnit
<1>4. PICK u \in Unit : u = [req |-> r, part |-> Frame(r)[k]]
  BY Zenon, <1>1, <1>3, SendSends
<1>5. /\ Arrived(i, u) /\ u.req = r /\ u.part = Frame(r)[k]
      /\ host'[i].req = r /\ host'[i].sent = k /\ \A j \in Ports \ {i} : host'[j] = host[j]
  BY <1>1, <1>3, <1>4, SendSends
<1>6. \A j \in Ports : host[j].req.n \in Nat /\ host'[j].req = host[j].req
  BY Zenon, <1>2, <1>5, HostNumber
<1>7. \A j \in Ports : host'[j].req.n \in Nat /\ host[j].req.n <= host'[j].req.n
  BY <1>6
<1>8. \A q \in abandoned' : q.n < host'[q.port].req.n
  <2>1. \A q \in abandoned : q.port \in Ports /\ q.n < host[q.port].req.n
    BY Zenon, <1>1, RequestType DEF TypeOK, OnceInv, Numbered
  <2> QED BY Zenon, <1>1, <1>6, <2>1
<1>9. ASSUME NEW q \in Request, Completed(q) PROVE Completed(q)'
  <2>1. q.port \in Ports
    BY Zenon, RequestType
  <2>2. host'[q.port].req = q => host'[q.port].sent >= 3
    <3>1. CASE q.port = i
      BY <1>3, <1>5, <1>6, <1>9, <3>1 DEF Completed
    <3>2. CASE q.port # i
      BY Zenon, <1>5, <1>9, <2>1, <3>2 DEF Completed
    <3> QED BY Zenon, <3>1, <3>2
  <2> QED BY Zenon, <1>1, <1>6, <1>9, <2>1, <2>2 DEF Completed
<1>10. k = 2 => u.part = "b1"
  BY Zenon, <1>5, FrameUnits
<1>11. k # 2 => Completed(r)'
  <2>1. r \notin abandoned
    <3> SUFFICES ASSUME r \in abandoned PROVE FALSE
      BY Zenon
    <3>1. r.n < host[r.port].req.n
      BY Zenon DEF OnceInv, Numbered
    <3> QED BY <1>2, <1>3, <3>1, RequestType
  <2>2. host'[r.port].req.n = r.n /\ r.n \in Nat /\ host'[r.port].sent = k
    BY Zenon, <1>3, <1>5, RequestType
  <2> QED BY <1>1, <2>1, <2>2 DEF Completed
<1>12. u.part # "M"
  BY Zenon, <1>5, <1>3, FrameRest
<1>13. u.req.n <= host'[i].req.n
  BY <1>5, RequestType
<1>14. u.part = "b2" => u.req \in Request /\ Completed(u.req)'
  <2> SUFFICES ASSUME u.part = "b2" PROVE Completed(u.req)'
    BY Zenon, <1>5
  <2> QED BY Zenon, <1>5, <1>10, <1>11 DEF Completed
<1>15. Grows /\ Comes(i, u)
  BY Zenon, <1>7, <1>8, <1>9, <1>12, <1>13, <1>14 DEF Grows, Comes
<1> QED BY Zenon, <1>1, <1>5, <1>15, HostOnce

(* A stray byte. *)
LEMMA ZeroOnce ==
  ASSUME PinInv, OnceInv, NEW i \in Ports, SendZero(i) PROVE OnceInv'
<1>1. TypeOK /\ executed' = executed /\ Top' = Top /\ abandoned' = abandoned
  BY Zenon DEF PinInv, SendZero, target, Top
<1>2. PICK u \in Unit : u = [req |-> NoRequest, part |-> "0"]
  BY Zenon, <1>1, ZeroSends
<1>3. /\ Arrived(i, u) /\ u.part = "0"
      /\ \A j \in Ports : host'[j].req = host[j].req /\ host'[j].sent = host[j].sent
  BY Zenon, <1>1, <1>2, ZeroSends
<1>4. \A j \in Ports : host'[j].req.n \in Nat /\ host[j].req.n <= host'[j].req.n
  BY <1>3, HostNumber
<1>5. \A q \in abandoned' : q.n < host'[q.port].req.n
  BY Zenon, <1>1, <1>3, RequestType DEF TypeOK, OnceInv, Numbered
<1>6. \A q \in Request : Completed(q) => Completed(q)'
  BY Zenon, <1>1, <1>3, RequestType DEF Completed
<1>7. Grows /\ Comes(i, u)
  BY Zenon, <1>3, <1>4, <1>5, <1>6 DEF Grows, Comes
<1> QED BY Zenon, <1>1, <1>3, <1>7, HostOnce

(* A link that drops or returns changes no number. *)
LEMMA LinkOnce ==
  ASSUME PinInv, OnceInv, NEW i \in Ports,
         (\E flush \in BOOLEAN : LinkDrops(i, flush)) \/ LinkReturns(i)
  PROVE  OnceInv'
<1>1. TypeOK /\ executed' = executed /\ Top' = Top /\ abandoned' = abandoned /\ host' = host
  BY Zenon DEF PinInv, LinkDrops, LinkReturns, target, sending, Top
<1>2. \A j \in Ports : rx'[j] = rx[j] \/ Len(rx'[j]) = 0
  BY <1>1 DEF LinkDrops, LinkReturns, TypeOK
<1>3. \A r \in Request : Ahead(r) => Ahead(r)'
  BY <1>2, RequestType DEF Ahead
<1>4. Grows
  BY <1>1, HostNumber DEF Grows, Completed, OnceInv, Numbered
<1>5. ASSUME NEW j \in Ports, NEW k \in 1 .. Len(rx'[j]) PROVE rx'[j] = rx[j]
  BY <1>2
<1>6. Numbered'
  <2>1. \A r \in abandoned' : r.n < host'[r.port].req.n
    BY Zenon, <1>4 DEF Grows
  <2>2. ASSUME NEW j \in Ports, NEW k \in 1 .. Len(rx'[j])
        PROVE  /\ rx'[j][k].part # "0" => rx'[j][k].req.n <= host'[j].req.n
               /\ rx'[j][k].part = "b2" => Completed(rx[j][k].req)'
    <3>1. rx'[j] = rx[j]
      BY Zenon, <1>5
    <3>2. /\ rx[j][k].part # "0" => rx[j][k].req.n <= host[j].req.n
          /\ rx[j][k].part = "b2" => Completed(rx[j][k].req)
      BY Zenon, <3>1 DEF OnceInv, Numbered
    <3> QED BY Zenon, <1>1, <3>1, <3>2 DEF Completed
  <2>3. ASSUME NEW j \in Ports, NEW k \in 1 .. Len(rx'[j]), NEW l \in 1 .. Len(rx'[j]),
               k < l, rx'[j][k].part = "M", rx'[j][l].part = "M"
        PROVE  rx'[j][k].req.n < rx'[j][l].req.n
    <3>1. rx'[j] = rx[j]
      BY Zenon, <1>5
    <3> QED BY Zenon, <2>3, <3>1 DEF OnceInv, Numbered
  <2> QED BY Zenon, <2>1, <2>2, <2>3 DEF Numbered
<1> QED BY Zenon, <1>1, <1>3, <1>4, <1>6, GrowsKeeps DEF OnceInv

(* Every step keeps the invariant. *)
LEMMA OnceInductive == PinInv /\ OnceInv /\ [Next]_vars => OnceInv'
<1> SUFFICES ASSUME PinInv, OnceInv, [Next]_vars PROVE OnceInv'
  BY Zenon
<1>1. CASE Loop \/ CallFaults
  <2>1. CASE Scan(FALSE) \/ Scan(TRUE)
    BY Zenon, <2>1, ScanOnce
  <2>2. CASE Body
    BY Zenon, <2>2, BodyOnce
  <2>3. CASE Dispatch \/ Data \/ ReadFullFails \/ CallReturns \/ CallFaults \/ Reply
    BY Zenon, <2>3, LoopOnce
  <2> QED BY Zenon, <1>1, <2>1, <2>2, <2>3 DEF Loop
<1>2. CASE Hosts
  BY Zenon, <1>2, StartOnce, SendUnitOnce, ZeroOnce, LinkOnce DEF Hosts
<1>3. CASE UNCHANGED vars
  <2>1. UNCHANGED <<rx, host, abandoned, executed>> /\ Top' = Top
    BY Zenon, <1>3 DEF vars, Top
  <2>2. Numbered' /\ \A r : (Completed(r) => Completed(r)') /\ (Ahead(r) => Ahead(r)')
    BY Zenon, <2>1, KeptOnce DEF OnceInv
  <2>3. Done'
    BY Zenon, <2>1, <2>2 DEF OnceInv, Done, Pending
  <2>4. InHand'
    BY Zenon, <2>1 DEF OnceInv, InHand, Pending, Ahead, Completed
  <2> QED BY Zenon, <2>2, <2>3, <2>4 DEF OnceInv
<1> QED BY Zenon, <1>1, <1>2, <1>3 DEF Next

(* Nothing was sent or carried out yet. *)
LEMMA OnceInitial == Init => OnceInv
<1> SUFFICES ASSUME Init PROVE OnceInv
  BY Zenon
<1>1. Top = Fresh /\ (\A i \in Ports : Len(rx[i]) = 0) /\ \A r \in Request : executed[r] = 0
  BY DEF Init, Top
<1>2. abandoned = {}
  BY Zenon DEF Init
<1> QED BY <1>1, <1>2 DEF OnceInv, Numbered, Done, InHand, Pending, Fresh

(* q1n1_proxy_run carries a request out at most once, and none whose frame  *)
(* its host left unfinished, whatever time-outs, lost links, stray bytes    *)
(* and exception sessions come between.                                     *)
THEOREM RequestsExecutedOnce == Spec => []ExecutedOnce
<1>1. OnceInv => ExecutedOnce
  BY Zenon DEF OnceInv, Done, ExecutedOnce, Completed
<1> QED BY <1>1, PinInitial, PinInductive, OnceInitial, OnceInductive, PTL DEF Spec
=============================================================================
