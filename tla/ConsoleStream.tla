---------------------------- MODULE ConsoleStream ----------------------------
(***************************************************************************)
(* The console stream a payload offers during its polls                    *)
(* (q1n1_console_datagram in call-service.c): host input is appended to a  *)
(* staging buffer, console output is served from a ring, both by absolute  *)
(* offset, over datagrams that may be lost, repeated and reordered.        *)
(*                                                                         *)
(* A byte of host input is the owner that sent it and its offset; a byte   *)
(* of output is its offset.                                                *)
(***************************************************************************)
EXTENDS Integers, Sequences, FiniteSets

CONSTANTS
  Owners,    \* hosts; each names itself with a nonzero owner
  InLen,     \* bytes of input a host has to send
  OutLen,    \* bytes of output the payload produces
  InMax,     \* Q1N1_CONSOLE_IN_MAX
  OutMax,    \* Q1N1_CONSOLE_OUT_MAX, or what the request's out_max leaves of it
  InRoom,    \* rooms the payload may offer in a poll
  OutSize,   \* view.out_size, the ring
  Flags,     \* the flags hosts use, a subset of Flag
  Word       \* offsets are modulo Word, 2^64 in the code

NoOwner == "none"
Flag == {"none", "takeover", "peek"}

ASSUME StreamAssumption ==
  /\ InLen \in Nat /\ OutLen \in Nat /\ InMax \in Nat /\ OutMax \in Nat \ {0}
  /\ InRoom \subseteq Nat /\ OutSize \in Nat \ {0}
  /\ Word \in Nat /\ InLen + InMax < Word /\ OutLen < Word
  /\ NoOwner \notin Owners /\ Flags \subseteq Flag

Offset == 0 .. Word - 1
Byte == [by : Owners, at : Offset]
Request ==
  [owner : Owners, flag : Flags, in_offset : Offset, in_length : 0 .. InMax, out_ack : Offset]

VARIABLES
  polling,      \* a POLL with this view is under way
  owner,        \* view.owner
  in_room,      \* view.in_room
  staging,      \* the in_fill bytes at view.in_base
  in_held,      \* view.in_held
  drained,      \* the input the payload has taken
  out_produced, \* view.out_produced
  ring,         \* the bytes at view.out_base
  reply,        \* the last reply sent, with the request's out_ack
  learned,      \* per host: the in_held it was last told
  have          \* per host: its out_ack

view == <<owner, staging, in_held, reply>>
payload == <<polling, in_room, drained, out_produced, ring>>
hosts == <<learned, have>>
vars == <<view, payload, hosts>>

Reply ==
  [to : Owners \cup {NoOwner}, ack : Offset, in_held : Offset, out_offset : Offset,
   out : Seq(Offset), gap : BOOLEAN]
NoReply ==
  [to |-> NoOwner, ack |-> 0, in_held |-> 0, out_offset |-> 0, out |-> <<>>, gap |-> FALSE]

(* The types of the state; the staging buffer never holds more than the     *)
(* room the payload offered, which is what console_view_ok relies on.       *)
TypeOK ==
  /\ polling \in BOOLEAN
  /\ owner \in Owners \cup {NoOwner}
  /\ in_room \in InRoom \cup {0}
  /\ staging \in Seq(Byte) /\ Len(staging) <= in_room
  /\ in_held \in Offset
  /\ drained \in Seq(Byte)
  /\ out_produced \in 0 .. OutLen
  /\ ring \in [0 .. OutSize - 1 -> Offset]
  /\ reply \in Reply /\ Len(reply.out) <= OutMax
  /\ learned \in [Owners -> Offset]
  /\ have \in [Owners -> Offset]

Least(a, b) == IF a <= b THEN a ELSE b
Greatest(a, b) == IF a <= b THEN b ELSE a

-----------------------------------------------------------------------------
(* q1n1_console_datagram, with a view.  A request it refuses changes        *)
(* nothing.                                                                 *)

(* Whose console it is after the request. *)
Binds(r) == r.flag # "peek" /\ (owner \in {NoOwner, r.owner} \/ r.flag = "takeover")
Refused_Never(r) == FALSE

Refused(r) == r.flag # "peek" /\ ~Binds(r)

Bytes(r) == [n \in 1 .. r.in_length |-> [by |-> r.owner, at |-> (r.in_offset + n - 1) % Word]]

(* Input: only the bytes that continue what is held, and only as many as    *)
(* there is room for.                                                       *)
Continues(r) ==
  LET end == (r.in_offset + r.in_length) % Word
  IN  r.in_length > 0 /\ end >= r.in_offset /\ r.in_offset <= in_held /\ end > in_held

Taken_NoRoom(r) ==
  LET skip == in_held - r.in_offset
  IN  IF Continues(r) THEN SubSeq(Bytes(r), skip + 1, r.in_length) ELSE <<>>

Taken_NoSkip(r) ==
  LET take == Least(r.in_length, in_room - Len(staging))
  IN  IF Continues(r) THEN SubSeq(Bytes(r), 1, take) ELSE <<>>

Taken_AllOrNothing(r) ==
  LET skip == in_held - r.in_offset
  IN  IF Continues(r) /\ r.in_length - skip <= in_room - Len(staging)
      THEN SubSeq(Bytes(r), skip + 1, r.in_length) ELSE <<>>

Taken(r) ==
  LET skip == in_held - r.in_offset
      take == Least(r.in_length - skip, in_room - Len(staging))
  IN  IF Continues(r) THEN SubSeq(Bytes(r), skip + 1, skip + take) ELSE <<>>

Start_IgnoresRing(r) == Least(r.out_ack, out_produced)

(* Output: from what the host has, never past what exists, never older than *)
(* the ring still holds.                                                    *)
Start(r) == Greatest(Least(r.out_ack, out_produced), out_produced - OutSize)
Gap(r) == out_produced - Least(r.out_ack, out_produced) > OutSize
Out_LastMissing(r) ==
  [n \in 1 .. Least(out_produced - Start(r) - 1, OutMax) |-> ring[(Start(r) + n - 1) % OutSize]]

Out(r) ==
  [n \in 1 .. Least(out_produced - Start(r), OutMax) |-> ring[(Start(r) + n - 1) % OutSize]]

q1n1_console_datagram(r) ==
  /\ polling
  /\ ~Refused(r)
  /\ owner' = IF Binds(r) THEN r.owner ELSE owner
  /\ staging' = staging \o Taken(r)
  /\ in_held' = in_held + Len(Taken(r))
  /\ reply' = [to |-> r.owner, ack |-> r.out_ack, in_held |-> in_held', out_offset |-> Start(r),
               out |-> Out(r), gap |-> Gap(r)]
  /\ UNCHANGED <<payload, hosts>>

-----------------------------------------------------------------------------
(* The payload: it offers room, drains what was staged, and prints. *)

PollBegins(room) ==
  /\ ~polling
  /\ polling' = TRUE
  /\ in_room' = room
  /\ UNCHANGED <<view, drained, out_produced, ring, hosts>>

PollEnds ==
  /\ polling
  /\ polling' = FALSE
  /\ drained' = drained \o staging
  /\ staging' = <<>>
  /\ UNCHANGED <<owner, in_room, in_held, out_produced, ring, reply, hosts>>

Produces ==
  /\ ~polling /\ out_produced < OutLen
  /\ ring' = [ring EXCEPT ![out_produced % OutSize] = out_produced]
  /\ out_produced' = out_produced + 1
  /\ UNCHANGED <<view, polling, in_room, drained, hosts>>

-----------------------------------------------------------------------------
(* The hosts.  A request carries what its host had learned when it was      *)
(* sent, so any pair of past values may arrive, and a confused host's       *)
(* offsets as well.                                                         *)

Sendable(o) ==
  {r \in Request :
     /\ r.owner = o
     /\ r.flag = "peek" => r.in_length = 0
     /\ r.in_offset <= learned[o] \/ r.in_offset = Word - 1
     /\ r.in_offset # Word - 1 => r.in_offset + r.in_length <= InLen
     /\ r.out_ack <= have[o] \/ r.out_ack = Word - 1}

(* What a host that keeps trying sends. *)
Fresh(o) ==
  [owner |-> o, flag |-> "none", in_offset |-> learned[o],
   in_length |-> Least(InMax, InLen - learned[o]), out_ack |-> have[o]]

Receives(r) == r \in Sendable(r.owner) /\ q1n1_console_datagram(r)

HostLearns(o) ==
  /\ reply.to = o
  /\ learned' = [learned EXCEPT ![o] = Least(InLen, Greatest(@, reply.in_held))]
  /\ have' = [have EXCEPT ![o] = Greatest(@, reply.out_offset + Len(reply.out))]
  /\ UNCHANGED <<view, payload>>

Init ==
  /\ polling = FALSE /\ owner = NoOwner /\ in_room = 0 /\ staging = <<>>
  /\ in_held = 0 /\ drained = <<>> /\ out_produced = 0
  /\ ring = [k \in 0 .. OutSize - 1 |-> 0]
  /\ reply = NoReply
  /\ learned = [o \in Owners |-> 0] /\ have = [o \in Owners |-> 0]

Next ==
  \/ \E r \in Request : Receives(r)
  \/ \E room \in InRoom : PollBegins(room)
  \/ PollEnds \/ Produces
  \/ \E o \in Owners : HostLearns(o)

Spec == Init /\ [][Next]_vars

(* The payload polls and drains again and again, sometimes with room, and a *)
(* host that keeps trying gets a request and a reply through now and then.  *)
FairSpec ==
  /\ Spec
  /\ WF_vars(PollEnds)
  /\ \A room \in InRoom : SF_vars(PollBegins(room))
  /\ \A o \in Owners :
       /\ SF_vars(q1n1_console_datagram(Fresh(o)))
       /\ SF_vars(HostLearns(o))

-----------------------------------------------------------------------------
(* Properties. *)

(* The payload gets the host input in order, each offset once, with nothing *)
(* missing, and in_held counts exactly that (call-service.h:112-113).       *)
InputInOrder ==
  LET input == drained \o staging
  IN  /\ Len(input) = in_held
      /\ \A k \in 1 .. Len(input) : input[k].at = k - 1

(* Bytes are only ever staged for the host that owns the console, also when *)
(* requests of a host that lost it to a takeover arrive late.               *)
OnlyOwnerTypes ==
  [][\A k \in Len(staging) + 1 .. Len(staging') : staging'[k].by = owner']_vars

(* A reply carries the console output of exactly the offsets it names, as   *)
(* far as the ring still holds them, and skips none without saying so.      *)
OutputFaithful ==
  /\ \A n \in 1 .. Len(reply.out) : reply.out[n] = reply.out_offset + n - 1
  /\ reply.out_offset + Len(reply.out) <= out_produced
  /\ reply.out_offset > reply.ack => reply.gap

(* A host that keeps sending gets all its input through. *)
InputArrives == \A o \in Owners : <>(in_held >= InLen)

(* A host that keeps asking catches up with the output. *)
OutputArrives == \A o \in Owners : (out_produced = OutLen) ~> (have[o] = OutLen)
=============================================================================
