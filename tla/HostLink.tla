------------------------------ MODULE HostLink ------------------------------
(***************************************************************************)
(* The host end of the proxy: connect, Link and Proxy of                   *)
(* tools/q1n1proxy.py, over a tty or the datagrams of udplink.py, with a   *)
(* target that answers late, announces itself, and faults inside calls.    *)
(*                                                                         *)
(* A message is one unit of the stream.  A unit may be delivered late, be  *)
(* corrupted or (UDP) be lost; the order of the stream is kept.            *)
(***************************************************************************)
EXTENDS Integers, Sequences, FiniteSets

CONSTANTS
  MaxReq,      \* requests the host sends
  MaxBad,      \* units corrupted or lost
  MaxNoise,    \* boot announcements, events and console bytes
  MaxOpen      \* times the link is opened

Attempts == 3  \* Link.readmem's attempts

(* One request on the wire: its command, and for REQ_PROXY its opcode. *)
Ops == {"nop0", "nop1", "pnop", "call", "read", "write", "exit"}
Command(op) == CASE op \in {"nop0", "nop1"} -> "NOP"
                 [] op = "read" -> "MEMREAD"
                 [] OTHER -> "PROXY"

(* DISABLE_DATA_CSUMS as REQ_NOP negotiates it. *)
Feature(op) == IF op = "nop1" THEN 1 ELSE 0
Unsaved == -1

VARIABLES
  h2t,       \* requests on their way to the target
  t2h,       \* units on their way to the host
  buffer,    \* units the host's transport holds
  up,        \* "closed", "connecting", "open" (a Proxy was returned) or "gone"
  stack,     \* requests the host waits for, the innermost first
  features,  \* Link.features
  saved,     \* Proxy._live_saved
  tfeatures, \* the features the target uses
  depth,     \* exception sessions the target is in
  faulted,   \* the call such a session interrupted
  sent, bad, noise, opens,  \* counted against the bounds
  asked,     \* what the innermost user operation is: "none", "call", "read", "live"
  answers,   \* <<id of the request, id of the reply taken for it>> on an open Proxy
  reads      \* <<operation, data intact>> of the reads returned

taken == <<answers, reads>>
vars == <<h2t, t2h, buffer, up, stack, features, saved, tfeatures, depth, faulted,
          sent, bad, noise, opens, asked, taken>>
wire == <<h2t, t2h, buffer, bad>>
target == <<tfeatures, depth, faulted, noise>>

(* A request in progress, what it waits for, and the requests after it. *)
Frame == [op : Ops, id : 1 .. MaxReq, at : {"reply", "data", "end"}, tries : 0 .. Attempts,
          todo : Seq(Ops), ok : BOOLEAN]
Unit == [kind : {"NOP", "PROXY", "MEMREAD", "data", "end", "boot", "fault", "event", "noise"},
         op : Ops, id : 0 .. MaxReq, ok : BOOLEAN]

TypeOK ==
  /\ h2t \in Seq([op : Ops, id : 1 .. MaxReq])
  /\ t2h \in Seq(Unit) /\ buffer \in Seq(Unit)
  /\ up \in {"closed", "connecting", "open", "gone"}
  /\ stack \in Seq(Frame) /\ Len(stack) <= 2
  /\ features \in {0, 1} /\ tfeatures \in {0, 1} /\ saved \in {Unsaved, 0, 1}
  /\ depth \in 0 .. 1 /\ faulted \in 0 .. MaxReq
  /\ sent \in 0 .. MaxReq /\ bad \in 0 .. MaxBad
  /\ noise \in 0 .. MaxNoise /\ opens \in 0 .. MaxOpen
  /\ asked \in {"none", "call", "read", "live"}
  /\ answers \subseteq (1 .. MaxReq) \X (0 .. MaxReq)
  /\ reads \subseteq {"read", "live"} \X BOOLEAN

-----------------------------------------------------------------------------
(* The host. *)

(* Link.cmd: begin the first request of a list, over the frames below it. *)
Issue(todo, below) ==
  /\ sent < MaxReq
  /\ sent' = sent + 1
  /\ h2t' = Append(h2t, [op |-> Head(todo), id |-> sent + 1])
  /\ stack' = <<[op |-> Head(todo), id |-> sent + 1, at |-> "reply", tries |-> 1,
                 todo |-> Tail(todo), ok |-> TRUE]>> \o below

Open_NoNop ==
  /\ up = "closed" /\ opens < MaxOpen
  /\ up' = "connecting"
  /\ opens' = opens + 1
  /\ buffer' = <<>>
  /\ saved' = Unsaved /\ features' = 0
  /\ Issue(<<"pnop">>, <<>>)
  /\ UNCHANGED <<t2h, bad, asked, taken, target>>

Open_NoProxyNop ==
  /\ up = "closed" /\ opens < MaxOpen
  /\ up' = "connecting"
  /\ opens' = opens + 1
  /\ buffer' = <<>>
  /\ saved' = Unsaved /\ features' = 0
  /\ Issue(<<"nop0">>, <<>>)
  /\ UNCHANGED <<t2h, bad, asked, taken, target>>

(* connect: a new transport starts empty (TCIOFLUSH, or a new socket), then *)
(* Link.nop(0) and Proxy.nop.  What is on its way arrives all the same.     *)
Open ==
  /\ up = "closed" /\ opens < MaxOpen
  /\ up' = "connecting"
  /\ opens' = opens + 1
  /\ buffer' = <<>>
  /\ saved' = Unsaved /\ features' = 0
  /\ Issue(<<"nop0", "pnop">>, <<>>)
  /\ UNCHANGED <<t2h, bad, asked, taken, target>>

GiveUp ==
  /\ up = "closed" /\ opens = MaxOpen
  /\ up' = "gone"
  /\ UNCHANGED <<wire, stack, features, saved, target, sent, opens, asked, taken>>

Call ==
  /\ up = "open" /\ stack = <<>>
  /\ asked' = "call"
  /\ Issue(<<"call">>, <<>>)
  /\ UNCHANGED <<t2h, buffer, bad, up, features, saved, target, opens, taken>>

ReadMem_KeepsLive ==
  /\ up = "open" /\ stack = <<>>
  /\ asked' = "read"
  /\ saved' = Unsaved
  /\ Issue(<<"read">>, <<>>)
  /\ UNCHANGED <<t2h, buffer, bad, up, features, target, opens, taken>>

(* Proxy.readmem: end_live restores the negotiation a live run replaced. *)
ReadMem ==
  /\ up = "open" /\ stack = <<>>
  /\ asked' = "read"
  /\ saved' = Unsaved
  /\ Issue(IF saved \notin {Unsaved, features}
           THEN <<IF saved = 1 THEN "nop1" ELSE "nop0", "read">> ELSE <<"read">>, <<>>)
  /\ UNCHANGED <<t2h, buffer, bad, up, features, target, opens, taken>>

(* Proxy.readmem(live=True): saved is set when the nop has been answered.   *)
ReadLive ==
  /\ up = "open" /\ stack = <<>>
  /\ asked' = "live"
  /\ saved' = IF saved = Unsaved /\ features = 1 THEN features ELSE saved
  /\ Issue(IF saved = Unsaved /\ features = 0 THEN <<"nop1", "read">> ELSE <<"read">>, <<>>)
  /\ UNCHANGED <<t2h, buffer, bad, up, features, target, opens, taken>>

-----------------------------------------------------------------------------
(* Link.reply and what its callers do with the answer. *)

Top == Head(stack)
Waiting == stack # <<>>

(* An exception reaches connect, which closes the link and tries again, or  *)
(* the tool, which ends.                                                    *)
Raise ==
  /\ up' = IF up = "connecting" THEN "closed" ELSE "gone"
  /\ stack' = <<>>
  /\ asked' = "none"
  /\ UNCHANGED <<h2t, sent, taken, features, saved>>

Timeout ==
  /\ Waiting /\ buffer = <<>>
  /\ Raise
  /\ UNCHANGED <<t2h, buffer, bad, target, opens>>

(* Bytes that are no reply (the payload of a read included), events, and    *)
(* the announcement of a boot.                                              *)
Skipped == {"noise", "event", "boot", "data", "end"}

Skip ==
  /\ Waiting /\ buffer # <<>> /\ Top.at = "reply"
  /\ Head(buffer).kind \in Skipped
  /\ buffer' = Tail(buffer)
  /\ UNCHANGED <<h2t, t2h, bad, up, stack, features, saved, target, sent, opens, asked, taken>>

(* handle_boot of an exception: Proxy.on_exception reads the frame, steps   *)
(* over the instruction and leaves the session, inside the wait for the     *)
(* call's reply.                                                            *)
OnException ==
  /\ Waiting /\ buffer # <<>> /\ Top.at = "reply"
  /\ Head(buffer).kind = "fault" /\ Head(buffer).ok
  /\ buffer' = Tail(buffer)
  /\ Issue(<<"read", "write", "exit">>, stack)
  /\ UNCHANGED <<t2h, bad, up, features, saved, target, opens, asked, taken>>

(* The request is over: the next one of its list, or back to the frame      *)
(* below, or to the caller.                                                 *)
Finish(below) ==
  \/ /\ Top.todo # <<>>
     /\ Issue(Top.todo, below)
     /\ UNCHANGED <<up, asked>>
  \/ /\ Top.todo = <<>>
     /\ stack' = below
     /\ up' = IF below = <<>> THEN "open" ELSE up
     /\ asked' = IF below = <<>> THEN "none" ELSE asked
     /\ UNCHANGED <<h2t, sent>>

Matches_AnyOpcode(u) ==
  u.kind = Command(Top.op)

(* The command, and in a REQ_PROXY reply the opcode echo, are the only      *)
(* things a reply is matched by.                                            *)
Matches(u) ==
  /\ u.kind = Command(Top.op)
  /\ u.kind = "PROXY" => u.op = Top.op

Reply ==
  /\ Waiting /\ buffer # <<>> /\ Top.at = "reply"
  /\ Head(buffer).kind \notin Skipped
  /\ ~(Head(buffer).kind = "fault" /\ Head(buffer).ok)
  /\ LET u == Head(buffer)
     IN  IF ~u.ok \/ ~Matches(u)
         THEN Raise
         ELSE /\ answers' = IF up = "open" THEN answers \cup {<<Top.id, u.id>>} ELSE answers
              /\ UNCHANGED reads
              /\ IF Command(Top.op) = "MEMREAD"
                 THEN /\ stack' = <<[Top EXCEPT !.at = "data"]>> \o Tail(stack)
                      /\ UNCHANGED <<h2t, sent, up, asked, features, saved>>
                 ELSE /\ Finish(Tail(stack))
                      /\ features' = IF u.kind = "NOP" THEN Feature(u.op) ELSE features
                      /\ saved' = IF Top.op = "nop1" /\ asked = "live" THEN features ELSE saved
  /\ buffer' = Tail(buffer)
  /\ UNCHANGED <<t2h, bad, target, opens>>

Intact(u) == u.kind = "data" /\ u.ok /\ u.id = Top.id

Returned(ok) ==
  /\ reads' = IF Len(stack) = 1 THEN reads \cup {<<asked, ok>>} ELSE reads
  /\ UNCHANGED answers

ReadData_Unverified ==
  /\ Waiting /\ buffer # <<>> /\ Top.at = "data"
  /\ buffer' = Tail(buffer)
  /\ Finish(Tail(stack))
  /\ Returned(Intact(Head(buffer)))
  /\ UNCHANGED <<t2h, bad, features, saved, target, opens>>

(* Link.readmem after its reply, with checksums: the payload is verified    *)
(* and a corrupted one is read again, three times in all.                   *)
ReadData ==
  /\ Waiting /\ buffer # <<>> /\ Top.at = "data" /\ features = 0
  /\ buffer' = Tail(buffer)
  /\ IF Intact(Head(buffer))
     THEN /\ Finish(Tail(stack))
          /\ Returned(TRUE)
          /\ UNCHANGED <<features, saved>>
     ELSE IF Top.tries = Attempts
          THEN Raise
          ELSE /\ sent < MaxReq
               /\ sent' = sent + 1
               /\ h2t' = Append(h2t, [op |-> "read", id |-> sent + 1])
               /\ stack' = <<[Top EXCEPT !.id = sent + 1, !.at = "reply", !.tries = @ + 1]>>
                             \o Tail(stack)
               /\ UNCHANGED <<up, asked, taken, features, saved>>
  /\ UNCHANGED <<t2h, bad, target, opens>>

(* Without checksums: the payload as it comes, then the end sentinel. *)
ReadUnchecked ==
  /\ Waiting /\ buffer # <<>> /\ Top.at \in {"data", "end"}
  /\ Top.at = "data" => features = 1
  /\ buffer' = Tail(buffer)
  /\ IF Top.at = "data"
     THEN /\ stack' = <<[Top EXCEPT !.at = "end", !.ok = Intact(Head(buffer))]>> \o Tail(stack)
          /\ UNCHANGED <<h2t, sent, up, asked, features, saved, taken>>
     ELSE IF Head(buffer).kind = "end" /\ Head(buffer).ok
     THEN /\ Finish(Tail(stack))
          /\ Returned(Top.ok)
          /\ UNCHANGED <<features, saved>>
     ELSE Raise
  /\ UNCHANGED <<t2h, bad, target, opens>>

-----------------------------------------------------------------------------
(* The target and the wire. *)

Answer(kind, op, id) == [kind |-> kind, op |-> op, id |-> id, ok |-> TRUE]

(* q1n1_proxy_run: one request, in order; a call may fault instead of       *)
(* returning, and is answered after the P_EXIT that resumes it.             *)
TargetStep(fault) ==
  /\ h2t # <<>>
  /\ h2t' = Tail(h2t)
  /\ LET r == Head(h2t)
         reply == <<Answer(Command(r.op), r.op, r.id)>>
     IN  /\ fault => r.op = "call" /\ depth = 0
         /\ tfeatures' = IF Command(r.op) = "NOP" THEN Feature(r.op) ELSE tfeatures
         /\ depth' = IF fault THEN 1 ELSE IF r.op = "exit" THEN 0 ELSE depth
         /\ faulted' = IF fault THEN r.id ELSE IF r.op = "exit" THEN 0 ELSE faulted
         /\ t2h' = t2h \o
              (IF fault THEN <<Answer("fault", "call", 0)>>
               ELSE reply \o
                 (IF r.op = "read"
                  THEN <<Answer("data", r.op, r.id)>>
                         \o (IF tfeatures = 1 THEN <<Answer("end", r.op, r.id)>> ELSE <<>>)
                  ELSE IF r.op = "exit" /\ faulted # 0
                  THEN <<Answer("PROXY", "call", faulted)>> ELSE <<>>))
  /\ UNCHANGED <<buffer, bad, up, stack, features, saved, noise, sent, opens, asked, taken>>

Announce(kind) ==
  /\ noise < MaxNoise
  /\ noise' = noise + 1
  /\ t2h' = Append(t2h, Answer(kind, "pnop", 0))
  /\ UNCHANGED <<h2t, buffer, bad, up, stack, features, saved, tfeatures, depth, faulted,
                 sent, opens, asked, taken>>

Deliver(corrupt) ==
  /\ t2h # <<>>
  /\ corrupt => bad < MaxBad /\ Head(t2h).kind \in {"NOP", "PROXY", "MEMREAD", "data", "end"}
  /\ bad' = IF corrupt THEN bad + 1 ELSE bad
  /\ buffer' = Append(buffer, [Head(t2h) EXCEPT !.ok = ~corrupt])
  /\ t2h' = Tail(t2h)
  /\ UNCHANGED <<h2t, up, stack, features, saved, target, sent, opens, asked, taken>>

(* A datagram that the socket buffer could not hold, or a request lost. *)
Lose(request) ==
  /\ bad < MaxBad
  /\ bad' = bad + 1
  /\ IF request
     THEN h2t # <<>> /\ h2t' = Tail(h2t) /\ UNCHANGED t2h
     ELSE t2h # <<>> /\ t2h' = Tail(t2h) /\ UNCHANGED h2t
  /\ UNCHANGED <<buffer, up, stack, features, saved, target, sent, opens, asked, taken>>

-----------------------------------------------------------------------------
Init ==
  /\ h2t = <<>> /\ t2h = <<>> /\ buffer = <<>>
  /\ up = "closed" /\ stack = <<>> /\ features = 0 /\ saved = Unsaved
  /\ tfeatures = 0 /\ depth = 0 /\ faulted = 0
  /\ sent = 0 /\ bad = 0 /\ noise = 0 /\ opens = 0
  /\ asked = "none" /\ answers = {} /\ reads = {}

(* A tool that ran before left the target without data checksums. *)
EarlierTool ==
  /\ opens = 0 /\ tfeatures = 0
  /\ tfeatures' = 1
  /\ UNCHANGED <<wire, up, stack, features, saved, depth, faulted, noise, sent, opens, asked, taken>>

Host ==
  \/ EarlierTool \/ Open \/ GiveUp \/ Call \/ ReadMem \/ ReadLive
  \/ Timeout \/ Skip \/ OnException \/ Reply \/ ReadData \/ ReadUnchecked

Next ==
  \/ Host
  \/ \E fault \in BOOLEAN : TargetStep(fault)
  \/ \E kind \in {"boot", "event", "noise"} : Announce(kind)
  \/ \E corrupt \in BOOLEAN : Deliver(corrupt)
  \/ \E request \in BOOLEAN : Lose(request)

Spec == Init /\ [][Next]_vars

-----------------------------------------------------------------------------
(* Properties. *)

(* connect returns a Proxy only when no reply is owed: nothing that a timed *)
(* out attempt left behind can be taken for the answer to a later request.  *)
(* That is so of the first and the second attempt on one tty, the bound     *)
(* MaxOpen of the run; a third can take the two late replies of the second  *)
(* for its own and return with its own still owed (connect's retry loop).   *)
ConnectedInSync ==
  up = "open" /\ stack = <<>> =>
    /\ h2t = <<>>
    /\ \A s \in {t2h, buffer} : \A k \in 1 .. Len(s) :
         s[k].kind \in {"boot", "event", "noise"}

(* Every answer taken on a returned Proxy is the one to the request that    *)
(* was waiting, also when an exception is handled inside the wait.          *)
OwnAnswer == \A a \in answers : a[1] = a[2]

(* A read is returned corrupted only to a caller that asked for a live one: *)
(* the switch to unchecked reads never outlives the run of live reads.      *)
OnlyLiveUnchecked == <<"read", FALSE>> \notin reads

(* Between operations the two ends agree on the checksum negotiation, and   *)
(* the target is not left inside an exception session.                      *)
EndsAgree ==
  up = "open" /\ stack = <<>> => features = tfeatures /\ depth = 0
=============================================================================
