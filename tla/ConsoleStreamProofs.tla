------------------------- MODULE ConsoleStreamProofs -------------------------
(***************************************************************************)
(* The console stream is faithful in both directions, for every number of  *)
(* hosts, every amount of input and output, every ring and every room the  *)
(* payload offers, whatever datagrams are lost, repeated or reordered.     *)
(***************************************************************************)
EXTENDS ConsoleStream, SequenceTheorems, TLAPS

-----------------------------------------------------------------------------
(* Joining sequences of bytes is associative. *)
LEMMA SeqsJoin == \A x, y, z \in Seq(Byte) : (x \o y) \o z = x \o (y \o z)
  BY ConcatAssociative

(* Offsets modulo the width of the counters and the size of the ring. *)

(* An offset below the modulus is its own remainder. *)
LEMMA ModSmall == \A a, m \in Nat : a < m => a % m = a
  OBVIOUS

(* A remainder is an index. *)
LEMMA ModRange == \A a \in Nat, m \in Nat \ {0} : a % m \in 0 .. m - 1
  OBVIOUS

(* A positive multiple is at least its factor. *)
LEMMA Multiple == ASSUME NEW m \in Nat \ {0}, NEW d \in Int, m * d > 0 PROVE m * d >= m
<1>1. CASE d <= 0
  BY <1>1
<1>2. CASE d >= 1
  BY <1>2
<1> QED BY <1>1, <1>2

(* Two offsets less than the size of the ring apart have different places.  *)
LEMMA ModApart ==
  ASSUME NEW m \in Nat \ {0}, NEW a \in Nat, NEW b \in Nat, a < b, b - a < m
  PROVE  a % m # b % m
<1> SUFFICES ASSUME a % m = b % m PROVE FALSE
  BY Zenon
<1> DEFINE p == a \div m
           q == b \div m
<1>1. a = m * p + (a % m) /\ b = m * q + (b % m) /\ p \in Int /\ q \in Int
  OBVIOUS
<1>2. a % m \in Int
  BY ModRange
<1> HIDE DEF p, q
<1>3. b - a = m * q - m * p
  BY <1>1, <1>2
<1>4. m * q - m * p = m * (q - p)
  BY <1>1
<1>5. q - p \in Int
  BY <1>1
<1> QED BY <1>3, <1>4, <1>5, Multiple

-----------------------------------------------------------------------------
(* The inductive invariant: between polls nothing is staged, no more input  *)
(* is held than a host has, and the ring holds the last OutSize bytes.      *)

Drained == ~polling => staging = <<>>
Ring == \A k \in 0 .. out_produced - 1 : k >= out_produced - OutSize => ring[k % OutSize] = k
Held == in_held <= InLen

StreamInv == TypeOK /\ Drained /\ Held /\ InputInOrder /\ Ring /\ OutputFaithful

(* What a request may be answered with: offsets that exist and that the     *)
(* ring still holds, or a gap.                                              *)
LEMMA StartHeld ==
  ASSUME TypeOK, NEW r \in Request
  PROVE  /\ Start(r) \in 0 .. out_produced /\ Start(r) >= out_produced - OutSize
         /\ Start(r) > r.out_ack => Gap(r)
         /\ Gap(r) \in BOOLEAN
<1>1. r.out_ack \in Nat /\ out_produced \in Nat /\ OutSize \in Nat \ {0}
  BY StreamAssumption DEF Request, Offset, TypeOK
<1> QED BY <1>1 DEF Start, Gap, Least, Greatest

(* The bytes of a reply are those of the offsets it names. *)
LEMMA OutBytes ==
  ASSUME TypeOK, Ring, NEW r \in Request
  PROVE  /\ Out(r) \in Seq(Offset) /\ Len(Out(r)) <= OutMax
         /\ Start(r) + Len(Out(r)) <= out_produced
         /\ \A n \in 1 .. Len(Out(r)) : Out(r)[n] = Start(r) + n - 1
<1> DEFINE s == Start(r)
           len == Least(out_produced - s, OutMax)
<1>1. /\ out_produced \in Nat /\ OutSize \in Nat \ {0} /\ OutMax \in Nat /\ Word \in Nat
      /\ out_produced <= OutLen /\ OutLen < Word /\ OutLen \in Nat
  BY StreamAssumption DEF TypeOK
<1>2. s \in 0 .. out_produced /\ s >= out_produced - OutSize
  BY Zenon, StartHeld
<1> HIDE DEF s
<1>3. len \in Nat /\ len <= OutMax /\ s + len <= out_produced
  BY <1>1, <1>2 DEF Least
<1> HIDE DEF len
<1>4. ASSUME NEW n \in 1 .. len PROVE ring[(s + n - 1) % OutSize] = s + n - 1 /\ s + n - 1 \in Offset
  <2>1. s + n - 1 \in 0 .. out_produced - 1 /\ s + n - 1 >= out_produced - OutSize
    BY <1>1, <1>2, <1>3
  <2> QED BY <1>1, <2>1 DEF Ring, Offset
<1>5. Out(r) = [n \in 1 .. len |-> ring[(s + n - 1) % OutSize]]
  BY Zenon DEF Out, s, len
<1>6. Out(r) \in Seq(Offset) /\ Len(Out(r)) = len
  BY <1>3, <1>4, <1>5
<1>7. \A n \in 1 .. len : Out(r)[n] = s + n - 1
  BY Zenon, <1>4, <1>5
<1> QED BY Zenon, <1>3, <1>6, <1>7 DEF s

(* Of a request's input only the bytes that continue what is held are       *)
(* taken, each at its offset, as many as there is room for.                 *)
LEMMA TakenBytes ==
  ASSUME TypeOK, Held, NEW r \in Request, r \in Sendable(r.owner)
  PROVE  /\ Taken(r) \in Seq(Byte) /\ Len(Taken(r)) \in Nat
         /\ Len(staging) + Len(Taken(r)) <= in_room
         /\ in_held + Len(Taken(r)) <= InLen
         /\ \A n \in 1 .. Len(Taken(r)) :
              Taken(r)[n].at = in_held + n - 1 /\ Taken(r)[n].by = r.owner
         /\ Len(Taken(r)) > 0 => r.flag # "peek"
<1>1. /\ in_held \in Nat /\ in_held <= InLen /\ InLen \in Nat /\ Word \in Nat /\ InMax \in Nat
      /\ InLen + InMax < Word /\ in_room \in Nat /\ Len(staging) \in Nat /\ Len(staging) <= in_room
  BY StreamAssumption DEF TypeOK, Held, Offset
<1>2. /\ r.in_offset \in Nat /\ r.in_offset < Word /\ r.in_length \in Nat /\ r.in_length <= InMax
      /\ r.owner \in Owners
  BY <1>1 DEF Request, Offset
<1>3. CASE ~Continues(r)
  BY <1>1, <1>3 DEF Taken
<1>4. CASE Continues(r)
  <2> DEFINE o == r.in_offset
             l == r.in_length
             f == Len(staging)
             end == (o + l) % Word
             skip == in_held - o
             take == Least(l - skip, in_room - f)
  <2>1. l > 0 /\ end >= o /\ o <= in_held /\ end > in_held
    BY Zenon, <1>4 DEF Continues
  <2>2. o # Word - 1
    BY <1>1, <1>2, <2>1
  <2>3. o + l <= InLen /\ r.flag # "peek"
    BY <1>2, <2>1, <2>2 DEF Sendable
  <2>4. /\ o \in Nat /\ l \in Nat /\ f \in Nat /\ in_room \in Nat /\ f <= in_room
        /\ in_held \in Nat /\ InLen \in Nat /\ Word \in Nat /\ InLen < Word
    BY <1>1, <1>2
  <2>5. Taken(r) = SubSeq(Bytes(r), skip + 1, skip + take)
    BY Zenon, <1>4 DEF Taken
  <2>6. Bytes(r) = [n \in 1 .. l |-> [by |-> r.owner, at |-> (o + n - 1) % Word]]
    BY Zenon DEF Bytes
  <2> HIDE DEF o, l, f
  <2>7. end = o + l
    BY <2>3, <2>4, ModSmall
  <2>8. skip \in Nat /\ skip < l /\ o + skip = in_held
    BY <2>1, <2>4, <2>7
  <2> HIDE DEF skip, end
  <2>9. take \in Nat /\ skip + take <= l /\ f + take <= in_room
    BY <2>4, <2>8 DEF Least
  <2> HIDE DEF take
  <2>10. ASSUME NEW n \in 1 .. l
         PROVE  Bytes(r)[n] = [by |-> r.owner, at |-> o + n - 1] /\ Bytes(r)[n] \in Byte
    <3>1. o + n - 1 \in Nat /\ o + n - 1 < Word
      BY <2>3, <2>4
    <3>2. (o + n - 1) % Word = o + n - 1 /\ o + n - 1 \in Offset
      BY <2>4, <3>1, ModSmall DEF Offset
    <3> QED BY <1>2, <2>6, <3>2 DEF Byte
  <2>11. \A n \in skip + 1 .. skip + take : Bytes(r)[n] \in Byte
    <3>1. \A n \in skip + 1 .. skip + take : n \in 1 .. l
      BY <2>4, <2>8, <2>9
    <3> QED BY Zenon, <2>10, <3>1
  <2>12. /\ Taken(r) \in Seq(Byte) /\ Len(Taken(r)) = take
         /\ \A n \in 1 .. take : Taken(r)[n] = Bytes(r)[skip + n]
    <3>1. skip + 1 \in Int /\ skip + take \in Int /\ (skip + take) - (skip + 1) + 1 = take
          /\ (IF skip + 1 <= skip + take THEN (skip + take) - (skip + 1) + 1 ELSE 0) = take
      BY <2>8, <2>9
    <3>2. \A n \in 1 .. take : (skip + 1) + n - 1 = skip + n
      BY <2>8, <2>9
    <3> QED BY <2>5, <2>11, <3>1, <3>2, SubSeqProperties
  <2>13. \A n \in 1 .. take : Taken(r)[n].at = in_held + n - 1 /\ Taken(r)[n].by = r.owner
    <3> SUFFICES ASSUME NEW n \in 1 .. take
                 PROVE  Taken(r)[n].at = in_held + n - 1 /\ Taken(r)[n].by = r.owner
      BY Zenon
    <3>1. skip + n \in 1 .. l /\ o + (skip + n) - 1 = in_held + n - 1
      BY <2>4, <2>8, <2>9
    <3>2. Taken(r)[n] = [by |-> r.owner, at |-> in_held + n - 1]
      BY Zenon, <2>10, <2>12, <3>1
    <3> QED BY <3>2
  <2>14. in_held + take <= InLen
    BY <2>3, <2>4, <2>8, <2>9
  <2> QED BY Zenon, <2>3, <2>9, <2>12, <2>13, <2>14 DEF f
<1> QED BY Zenon, <1>3, <1>4
(* The invariant holds when the console starts. *)
LEMMA StreamInit == Init => StreamInv
<1> SUFFICES ASSUME Init PROVE StreamInv
  BY Zenon
<1>1. 0 \in Offset /\ 0 <= InLen /\ <<>> \in Seq(Byte) /\ <<>> \in Seq(Offset) /\ Len(<<>>) = 0
  BY StreamAssumption, EmptySeq DEF Offset
<1>2. reply \in Reply /\ reply.out = <<>> /\ reply.out_offset = 0 /\ reply.ack = 0
  BY Zenon, <1>1 DEF Init, Reply, NoReply
<1>3. TypeOK
  <2>1. OutMax \in Nat /\ OutLen \in Nat /\ Len(reply.out) = 0
    BY Zenon, <1>1, <1>2, StreamAssumption
  <2>2. Len(reply.out) <= OutMax /\ 0 \in 0 .. OutLen
    BY <2>1
  <2>3. ring \in [0 .. OutSize - 1 -> Offset]
    BY Zenon, <1>1 DEF Init
  <2>4. staging \in Seq(Byte) /\ drained \in Seq(Byte) /\ Len(staging) <= 0
    BY <1>1 DEF Init
  <2>5. learned \in [Owners -> Offset] /\ have \in [Owners -> Offset]
    BY Zenon, <1>1 DEF Init
  <2> QED BY Zenon, <1>1, <1>2, <2>2, <2>3, <2>4, <2>5 DEF Init, TypeOK
<1>4. <<>> \o <<>> = <<>>
  OBVIOUS
<1>5. InputInOrder
  BY <1>1, <1>4 DEF Init, InputInOrder
<1>6. OutputFaithful
  BY <1>1, <1>2 DEF Init, OutputFaithful
<1>7. Ring /\ Drained /\ Held
  BY <1>1, StreamAssumption DEF Init, Ring, Drained, Held
<1> QED BY Zenon, <1>3, <1>5, <1>6, <1>7 DEF StreamInv

(* A datagram: its input continues what is held, its reply is read from the *)
(* ring, and what it stages is its owner's.                                 *)
LEMMA DatagramKeeps ==
  ASSUME StreamInv, NEW r \in Request, Receives(r)
  PROVE  /\ StreamInv'
         /\ \A k \in Len(staging) + 1 .. Len(staging') : staging'[k].by = owner'
<1>1. TypeOK /\ Held /\ Ring /\ InputInOrder /\ r \in Sendable(r.owner)
  BY Zenon DEF StreamInv, Receives
<1>2. /\ polling /\ ~Refused(r) /\ owner' = (IF Binds(r) THEN r.owner ELSE owner)
      /\ staging' = staging \o Taken(r) /\ in_held' = in_held + Len(Taken(r))
      /\ reply' = [to |-> r.owner, ack |-> r.out_ack, in_held |-> in_held', out_offset |-> Start(r),
                    out |-> Out(r), gap |-> Gap(r)]
      /\ polling' = polling /\ in_room' = in_room /\ drained' = drained
      /\ out_produced' = out_produced /\ ring' = ring /\ learned' = learned /\ have' = have
  BY Zenon DEF Receives, q1n1_console_datagram, payload, hosts
<1> DEFINE t == Taken(r)
           b == Out(r)
           s == Start(r)
<1>3. /\ t \in Seq(Byte) /\ Len(t) \in Nat /\ Len(staging) + Len(t) <= in_room
      /\ in_held + Len(t) <= InLen
      /\ \A n \in 1 .. Len(t) : t[n].at = in_held + n - 1 /\ t[n].by = r.owner
      /\ Len(t) > 0 => r.flag # "peek"
  BY Zenon, <1>1, TakenBytes
<1>4. /\ b \in Seq(Offset) /\ Len(b) <= OutMax /\ s + Len(b) <= out_produced
      /\ \A n \in 1 .. Len(b) : b[n] = s + n - 1
  BY Zenon, <1>1, OutBytes
<1>5. s \in 0 .. out_produced /\ (s > r.out_ack => Gap(r)) /\ Gap(r) \in BOOLEAN
  BY Zenon, <1>1, StartHeld
<1>6. /\ staging \in Seq(Byte) /\ drained \in Seq(Byte) /\ in_held \in Nat /\ out_produced \in Nat
      /\ out_produced < Word /\ InLen < Word /\ Word \in Nat /\ InLen \in Nat
      /\ Len(staging) \in Nat /\ Len(drained) \in Nat
  BY <1>1, StreamAssumption DEF TypeOK, Offset
<1>7. r.owner \in Owners /\ r.out_ack \in Offset
  BY Zenon DEF Request
<1> HIDE DEF t, b, s
<1>8. /\ staging' = staging \o t /\ in_held' = in_held + Len(t)
      /\ reply' = [to |-> r.owner, ack |-> r.out_ack, in_held |-> in_held', out_offset |-> s,
                    out |-> b, gap |-> Gap(r)]
  BY Zenon, <1>2 DEF t, b, s
<1>9. /\ staging' \in Seq(Byte) /\ Len(staging') = Len(staging) + Len(t)
      /\ \A k \in 1 .. Len(staging') : staging'[k] = IF k <= Len(staging) THEN staging[k]
                                                     ELSE t[k - Len(staging)]
  BY <1>3, <1>6, <1>8, ConcatProperties
<1>10. in_held' \in Offset /\ in_held' <= InLen /\ s \in Offset
  BY <1>3, <1>5, <1>6, <1>8 DEF Offset
<1>11. reply' \in Reply /\ Len(reply'.out) <= OutMax
  BY Zenon, <1>4, <1>5, <1>7, <1>8, <1>10 DEF Reply
<1>12. owner' \in Owners \cup {NoOwner}
  BY Zenon, <1>1, <1>2, <1>7 DEF TypeOK
<1>13. TypeOK'
  BY Zenon, <1>1, <1>2, <1>3, <1>9, <1>10, <1>11, <1>12 DEF TypeOK
<1>14. Drained' /\ Held' /\ Ring'
  BY Zenon, <1>1, <1>2, <1>10 DEF Drained, Held, Ring
<1>15. InputInOrder'
  <2>1. drained \o staging \in Seq(Byte) /\ Len(drained \o staging) = Len(drained) + Len(staging)
    BY Zenon, <1>6, ConcatProperties
  <2>2. drained' \o staging' = (drained \o staging) \o t
    <3>1. drained \o (staging \o t) = (drained \o staging) \o t
      <4>1. drained \in Seq(Byte) /\ staging \in Seq(Byte) /\ t \in Seq(Byte)
        BY Zenon, <1>3, <1>6
      <4>2. (drained \o staging) \o t = drained \o (staging \o t)
        BY Zenon, <4>1, SeqsJoin
      <4> QED BY Zenon, <4>2
    <3> QED BY Zenon, <1>2, <1>8, <3>1
  <2> DEFINE i == drained \o staging
             j == drained' \o staging'
  <2>3. Len(i) = in_held /\ \A k \in 1 .. Len(i) : i[k].at = k - 1
    BY Zenon, <1>1 DEF InputInOrder
  <2>4. i \in Seq(Byte) /\ j = i \o t
    BY Zenon, <2>1, <2>2
  <2>5. in_held' = Len(j) /\ (\A k \in 1 .. Len(j) : j[k].at = k - 1) => InputInOrder'
    BY Zenon DEF InputInOrder
  <2> HIDE DEF i, j
  <2>6. Len(j) = Len(i) + Len(t)
        /\ \A k \in 1 .. Len(j) : j[k] = IF k <= Len(i) THEN i[k] ELSE t[k - Len(i)]
    BY <1>3, <2>4, ConcatProperties
  <2>7. ASSUME NEW k \in 1 .. Len(j) PROVE j[k].at = k - 1
    <3>1. CASE k <= Len(i)
      BY <1>6, <2>3, <2>6, <3>1
    <3>2. CASE ~(k <= Len(i))
      <4>1. k - Len(i) \in 1 .. Len(t) /\ in_held + (k - Len(i)) - 1 = k - 1
        BY <1>3, <1>6, <2>3, <2>6, <3>2
      <4>2. j[k] = t[k - Len(i)]
        BY Zenon, <2>6, <3>2
      <4>3. t[k - Len(i)].at = in_held + (k - Len(i)) - 1
        BY Zenon, <1>3, <4>1
      <4> QED BY Zenon, <4>1, <4>2, <4>3
    <3> QED BY Zenon, <3>1, <3>2
  <2>8. in_held' = Len(j)
    BY Zenon, <1>8, <2>3, <2>6
  <2> QED BY Zenon, <2>5, <2>7, <2>8
<1>16. OutputFaithful'
  <2>1. reply'.out = b /\ reply'.out_offset = s /\ reply'.ack = r.out_ack /\ reply'.gap = Gap(r)
    BY Zenon, <1>8
  <2> QED BY Zenon, <1>2, <1>4, <1>5, <2>1 DEF OutputFaithful
<1>17. \A k \in Len(staging) + 1 .. Len(staging') : staging'[k].by = owner'
  <2> SUFFICES ASSUME NEW k \in Len(staging) + 1 .. Len(staging') PROVE staging'[k].by = owner'
    BY Zenon
  <2>1. k \in 1 .. Len(staging') /\ ~(k <= Len(staging)) /\ k - Len(staging) \in 1 .. Len(t)
        /\ Len(t) > 0
    BY <1>3, <1>6, <1>9
  <2>2. staging'[k] = t[k - Len(staging)]
    BY Zenon, <1>9, <2>1
  <2>3. Binds(r)
    BY Zenon, <1>2, <1>3, <2>1 DEF Refused
  <2> QED BY Zenon, <1>2, <1>3, <2>1, <2>2, <2>3
<1> QED BY Zenon, <1>13, <1>14, <1>15, <1>16, <1>17 DEF StreamInv

(* A poll begins with nothing staged, so any room will do. *)
LEMMA PollBeginsKeeps ==
  ASSUME StreamInv, NEW room \in InRoom, PollBegins(room)
  PROVE  StreamInv' /\ staging' = staging
<1>1. /\ ~polling /\ polling' = TRUE /\ in_room' = room /\ staging = <<>>
      /\ UNCHANGED <<owner, staging, in_held, reply, drained, out_produced, ring, learned, have>>
  BY Zenon DEF PollBegins, view, hosts, StreamInv, Drained
<1>2. Len(staging) <= room
  BY <1>1, StreamAssumption, EmptySeq
<1>3. TypeOK'
  BY Zenon, <1>1, <1>2 DEF StreamInv, TypeOK
<1> QED BY Zenon, <1>1, <1>3 DEF StreamInv, Drained, Held, InputInOrder, Ring, OutputFaithful

(* A poll that ends moves what was staged to the payload, in order. *)
LEMMA PollEndsKeeps ==
  ASSUME StreamInv, PollEnds
  PROVE  StreamInv' /\ staging' = <<>>
<1>1. /\ polling' = FALSE /\ drained' = drained \o staging /\ staging' = <<>>
      /\ UNCHANGED <<owner, in_room, in_held, out_produced, ring, reply, learned, have>>
  BY Zenon DEF PollEnds, hosts
<1>2. staging \in Seq(Byte) /\ drained \in Seq(Byte) /\ in_room \in Nat
  BY StreamAssumption DEF StreamInv, TypeOK
<1>3. drained' \in Seq(Byte) /\ drained' \o staging' = drained \o staging
  BY Zenon, <1>1, <1>2, ConcatProperties, ConcatEmptySeq
<1>4. <<>> \in Seq(Byte) /\ Len(<<>>) <= in_room
  BY <1>2, EmptySeq
<1>5. TypeOK'
  BY Zenon, <1>1, <1>3, <1>4 DEF StreamInv, TypeOK
<1>6. InputInOrder'
  BY Zenon, <1>1, <1>3 DEF StreamInv, InputInOrder
<1> QED BY Zenon, <1>1, <1>5, <1>6 DEF StreamInv, Drained, Held, Ring, OutputFaithful

(* A byte printed goes over the oldest one in the ring and over no other. *)
LEMMA ProducesKeeps ==
  ASSUME StreamInv, Produces
  PROVE  StreamInv' /\ staging' = staging
<1> DEFINE p == out_produced
           z == OutSize
<1>1. /\ p < OutLen /\ ring' = [ring EXCEPT ![p % z] = p] /\ out_produced' = p + 1
      /\ UNCHANGED <<owner, staging, in_held, reply, polling, in_room, drained, learned, have>>
  BY Zenon DEF Produces, view, hosts
<1>2. /\ p \in Nat /\ z \in Nat \ {0} /\ OutLen \in Nat /\ Word \in Nat /\ OutLen < Word
      /\ ring \in [0 .. z - 1 -> Offset]
  BY StreamAssumption DEF StreamInv, TypeOK
<1>3. \A k \in 0 .. p - 1 : k >= p - z => ring[k % z] = k
  BY Zenon DEF StreamInv, Ring
<1>4. Ring' <=> \A k \in 0 .. (p + 1) - 1 : k >= (p + 1) - z => ring'[k % z] = k
  BY Zenon, <1>1 DEF Ring
<1> HIDE DEF p, z
<1>6. p % z \in 0 .. z - 1 /\ p \in Offset
  BY <1>1, <1>2, ModRange DEF Offset
<1>7. ASSUME NEW k \in 0 .. (p + 1) - 1, k >= (p + 1) - z PROVE ring'[k % z] = k
  <2>1. CASE k = p
    BY Zenon, <1>1, <1>2, <1>6, <2>1
  <2>2. CASE k # p
    <3>1. k \in Nat /\ k < p /\ p - k < z /\ k \in 0 .. p - 1 /\ k >= p - z
      BY <1>2, <1>7, <2>2
    <3>2. k % z # p % z /\ k % z \in 0 .. z - 1
      BY Zenon, <1>2, <3>1, ModApart, ModRange
    <3>3. ring[k % z] = k
      BY Zenon, <1>3, <3>1
    <3> QED BY Zenon, <1>1, <1>2, <3>2, <3>3
  <2> QED BY Zenon, <2>1, <2>2
<1>8. Ring'
  BY Zenon, <1>4, <1>7
<1>9. ring' \in [0 .. z - 1 -> Offset]
  BY Zenon, <1>1, <1>2, <1>6
<1>10. TypeOK'
  <2>1. out_produced' \in 0 .. OutLen
    BY <1>1, <1>2
  <2> QED BY Zenon, <1>1, <1>9, <2>1 DEF StreamInv, TypeOK, z
<1>11. OutputFaithful'
  <2>1. reply.out_offset \in Nat /\ Len(reply.out) \in Nat
    BY DEF StreamInv, TypeOK, Reply, Offset
  <2>2. reply.out_offset + Len(reply.out) <= p
    BY Zenon DEF StreamInv, OutputFaithful, p
  <2>3. reply.out_offset + Len(reply.out) <= out_produced'
    BY <1>1, <1>2, <2>1, <2>2
  <2> QED BY Zenon, <1>1, <2>3 DEF StreamInv, OutputFaithful
<1> QED BY Zenon, <1>1, <1>8, <1>10, <1>11 DEF StreamInv, Drained, Held, InputInOrder

(* What a host learns are offsets that exist. *)
LEMMA HostLearnsKeeps ==
  ASSUME StreamInv, NEW o \in Owners, HostLearns(o)
  PROVE  StreamInv' /\ staging' = staging
<1>1. /\ learned' = [learned EXCEPT ![o] = Least(InLen, Greatest(@, reply.in_held))]
      /\ have' = [have EXCEPT ![o] = Greatest(@, reply.out_offset + Len(reply.out))]
      /\ UNCHANGED <<owner, staging, in_held, reply, polling, in_room, drained, out_produced, ring>>
  BY Zenon DEF HostLearns, view, payload
<1>2. /\ InLen \in Nat /\ OutLen \in Nat /\ Word \in Nat /\ InLen < Word /\ OutLen < Word
      /\ learned \in [Owners -> Offset] /\ have \in [Owners -> Offset]
      /\ reply.in_held \in Offset /\ reply.out_offset \in Nat /\ Len(reply.out) \in Nat
      /\ out_produced \in 0 .. OutLen /\ reply.out_offset + Len(reply.out) <= out_produced
  <2>1. reply \in Reply /\ out_produced \in 0 .. OutLen
        /\ learned \in [Owners -> Offset] /\ have \in [Owners -> Offset]
    BY Zenon DEF StreamInv, TypeOK
  <2>2. InLen \in Nat /\ OutLen \in Nat /\ Word \in Nat /\ InLen < Word /\ OutLen < Word
    BY StreamAssumption
  <2>3. reply.in_held \in Offset /\ reply.out_offset \in Offset /\ reply.out \in Seq(Offset)
    BY Zenon, <2>1 DEF Reply
  <2>4. reply.out_offset + Len(reply.out) <= out_produced
    BY Zenon DEF StreamInv, OutputFaithful
  <2> QED BY <2>1, <2>2, <2>3, <2>4 DEF Offset
<1> DEFINE i == reply.in_held
           e == reply.out_offset + Len(reply.out)
           l == learned[o]
           h == have[o]
<1>3. i \in Offset /\ e \in Offset /\ l \in Offset /\ h \in Offset
  BY <1>2 DEF Offset
<1> HIDE DEF i, e, l, h
<1>4. Least(InLen, Greatest(l, i)) \in Offset /\ Greatest(h, e) \in Offset
  BY <1>2, <1>3 DEF Offset, Least, Greatest
<1>5. learned' \in [Owners -> Offset] /\ have' \in [Owners -> Offset]
  BY Zenon, <1>1, <1>2, <1>4 DEF i, e, l, h
<1>6. TypeOK'
  BY Zenon, <1>1, <1>5 DEF StreamInv, TypeOK
<1> QED BY Zenon, <1>1, <1>6 DEF StreamInv, Drained, Held, InputInOrder, Ring, OutputFaithful

Owned == \A k \in Len(staging) + 1 .. Len(staging') : staging'[k].by = owner'

(* Every step keeps the invariant and stages only the owner's bytes. *)
LEMMA StreamInductive == StreamInv /\ [Next]_vars => StreamInv' /\ [Owned]_vars
<1> SUFFICES ASSUME StreamInv, [Next]_vars PROVE StreamInv' /\ [Owned]_vars
  BY Zenon
<1>1. Len(staging) \in Nat /\ Len(<<>>) = 0
  BY EmptySeq DEF StreamInv, TypeOK
<1>2. staging' = staging \/ staging' = <<>> => Owned
  BY <1>1 DEF Owned
<1>3. ASSUME NEW r \in Request, Receives(r) PROVE StreamInv' /\ Owned
  BY Zenon, <1>3, DatagramKeeps DEF Owned
<1>4. ASSUME NEW room \in InRoom, PollBegins(room) PROVE StreamInv' /\ Owned
  BY Zenon, <1>2, <1>4, PollBeginsKeeps
<1>5. CASE PollEnds
  BY Zenon, <1>2, <1>5, PollEndsKeeps
<1>6. CASE Produces
  BY Zenon, <1>2, <1>6, ProducesKeeps
<1>7. ASSUME NEW o \in Owners, HostLearns(o) PROVE StreamInv' /\ Owned
  BY Zenon, <1>2, <1>7, HostLearnsKeeps
<1>8. CASE UNCHANGED vars
  <2>1. UNCHANGED <<owner, staging, in_held, reply, polling, in_room, drained, out_produced, ring,
                    learned, have>>
    BY Zenon, <1>8 DEF vars, view, payload, hosts
  <2> QED BY Zenon, <1>8, <2>1 DEF StreamInv, TypeOK, Drained, Held, InputInOrder, Ring, OutputFaithful
<1> QED BY Zenon, <1>3, <1>4, <1>5, <1>6, <1>7, <1>8 DEF Next

-----------------------------------------------------------------------------
(* Every state of the console stream satisfies the invariant: the types     *)
(* hold, the staging buffer stays within the room the payload offered, and  *)
(* the ring holds the last bytes printed.                                   *)
THEOREM StreamInvariant == Spec => []StreamInv
  BY StreamInit, StreamInductive, PTL DEF Spec

(* A reply of q1n1_console_datagram carries the console output of exactly   *)
(* the offsets it names and skips none without the gap flag, for every ring *)
(* and every acknowledgement a host may send.                               *)
THEOREM OutputIsFaithful == Spec => []OutputFaithful
<1>1. StreamInv => OutputFaithful
  BY Zenon DEF StreamInv
<1> QED BY <1>1, StreamInvariant, PTL

(* The payload drains the host input in order, each offset once and with    *)
(* nothing missing, however requests are lost, repeated or reordered.       *)
THEOREM InputIsInOrder == Spec => []InputInOrder
<1>1. StreamInv => InputInOrder
  BY Zenon DEF StreamInv
<1> QED BY <1>1, StreamInvariant, PTL

(* A request of a host that lost the console to a takeover stages nothing:  *)
(* the bytes staged by a step belong to the owner after it.                 *)
THEOREM OwnerTypes == Spec => OnlyOwnerTypes
<1>1. [][Owned]_vars => OnlyOwnerTypes
  BY PTL DEF OnlyOwnerTypes, Owned
<1> QED BY <1>1, StreamInit, StreamInductive, PTL DEF Spec
=============================================================================
