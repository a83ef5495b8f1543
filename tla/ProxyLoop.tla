------------------------------ MODULE ProxyLoop ------------------------------
(***************************************************************************)
(* The request loop of the proxy (q1n1_proxy_run in q1n1-proxy.c) over the *)
(* port-selecting io of usb-ports.c, with the exception session that       *)
(* q1n1_exception (main.c) nests inside a faulting P_CALL.                 *)
(*                                                                         *)
(* The byte stream of a port is a sequence of units: a request is its      *)
(* magic "M" and the two halves "b1", "b2" of what read_full reads after   *)
(* it, a MEMWRITE is followed by its data "d", and "0" is any other byte.  *)
(* A request is well formed exactly when the units after its magic are its *)
(* own: the request checksum is taken to catch every other mixture.        *)
(***************************************************************************)
EXTENDS Integers, Sequences, FiniteSets

CONSTANTS
  NPorts,    \* Q1N1_USB_PORTS
  MaxReq,    \* requests each host sends
  Kinds,     \* of these kinds, a subset of Kind
  MaxZero,   \* stray bytes each host sends
  Nested,    \* the depth of exception sessions: 0, or 1 (in_exception)
  Drops      \* links go down and come back

Ports == 0 .. NPorts - 1
NoPort == -1

(* "plain" stands for every request that is executed and answered at once.  *)
Kind == {"plain", "call", "write", "exit"}

ASSUME LoopAssumption ==
  /\ NPorts \in Nat \ {0} /\ MaxReq \in Nat /\ MaxZero \in Nat
  /\ Kinds \subseteq Kind /\ Nested \in {0, 1} /\ Drops \in BOOLEAN

Request == [port : Ports, n : 1 .. MaxReq, kind : Kind]
NoRequest == [port |-> NoPort, n |-> 0, kind |-> "plain"]
Unit == [req : Request \cup {NoRequest}, part : {"M", "b1", "b2", "d", "0"}]
Pc == {"scan", "b1", "b2", "dispatch", "d", "call", "reply"}

VARIABLES
  rx,         \* units received on a port and not yet read
  ready,      \* port_ready of usb-ports.c: link up and a client attached
  selected,   \* the port that owns the current request, or NoPort
  session,    \* stack of q1n1_proxy_run activations, the innermost first
  host,       \* per port: its current request, the units of it sent, stray bytes
  executed,   \* how often each request was carried out
  replies,    \* <<port written to, request answered>>
  abandoned,  \* requests their host began and never finished
  cut,        \* ports whose stream lost the middle or the end of a request
  mangled     \* ports from which a request with a wrong checksum was read

vars == <<rx, ready, selected, session, host, executed, replies, abandoned, cut,
          mangled>>
sending == <<host, abandoned, cut>>
wire == <<rx, ready, sending>>
target == <<selected, session, executed, replies, mangled>>

(* One activation: where it is, its request, whether a byte of an           *)
(* unfinished magic was read (partial), and whether every unit read after   *)
(* the magic belongs to the request.                                        *)
Activation ==
  [pc : Pc, req : Request \cup {NoRequest}, partial : BOOLEAN, whole : BOOLEAN]
Fresh == [pc |-> "scan", req |-> NoRequest, partial |-> FALSE, whole |-> TRUE]

TypeOK ==
  /\ rx \in [Ports -> Seq(Unit)]
  /\ ready \in [Ports -> BOOLEAN]
  /\ selected \in Ports \cup {NoPort}
  /\ session \in Seq(Activation) /\ Len(session) \in 1 .. 1 + Nested
  /\ host \in [Ports -> [req : Request \cup {NoRequest}, sent : 0 .. 4, zeros : 0 .. MaxZero]]
  /\ executed \in [Request -> Nat]
  /\ replies \subseteq Ports \X Request
  /\ abandoned \subseteq Request
  /\ cut \in [Ports -> BOOLEAN]
  /\ mangled \in [Ports -> BOOLEAN]

-----------------------------------------------------------------------------
(* The io callbacks of usb-ports.c. *)

Lowest(S) == CHOOSE i \in S : \A j \in S : i <= j

Allowed(sel) == {i \in Ports : ready[i] /\ sel \in {NoPort, i}}

io_ready(sel) == Allowed(sel) # {}

Readable_AnyPort(sel) == {i \in Ports : ready[i] /\ rx[i] # <<>>}

(* The ports io_read would take a byte from, and the one it does: the first *)
(* in order that has one.                                                   *)
Readable(sel) == {i \in Allowed(sel) : rx[i] # <<>>}
Source(sel) == Lowest(Readable(sel))

(* io_write tries the first allowed port only. *)
Sink(sel) == Lowest(Allowed(sel))

Top == Head(session)
SetTop_Recurses(a) == session' = <<a>> \o session

SetTop(a) == session' = <<a>> \o Tail(session)

Take(i) == rx' = [rx EXCEPT ![i] = Tail(@)]

-----------------------------------------------------------------------------
(* One pass of the scan: an idle or timed-out prefix is dropped and the     *)
(* port released, even when the poll has just brought more of it, then one  *)
(* byte is read.  The read pins the port.                                   *)
Scan(timeout) ==
  /\ Top.pc = "scan"
  /\ timeout => Top.partial
  /\ LET drop == ~io_ready(selected) \/ timeout
         sel == IF drop THEN NoPort ELSE selected
         partial == Top.partial /\ ~drop
     IN  IF Readable(sel) = {}
         THEN /\ selected' = sel
              /\ SetTop([Top EXCEPT !.partial = partial])
              /\ UNCHANGED <<wire, executed, replies, mangled>>
         ELSE LET i == Source(sel)
                  u == Head(rx[i])
              IN  /\ selected' = i
                  /\ Take(i)
                  /\ SetTop(IF u.part = "M"
                            THEN [Fresh EXCEPT !.pc = "b1", !.req = u.req]
                            ELSE [Top EXCEPT !.partial = TRUE])
                  /\ UNCHANGED <<ready, sending, executed, replies, mangled>>

End_KeepsPort ==
  /\ SetTop(Fresh)
  /\ UNCHANGED selected

(* io->end: the request is over, whether it was answered or given up. *)
End ==
  /\ selected' = NoPort
  /\ SetTop(Fresh)

(* read_full: the next unit after the magic, whatever it is.  It fails when *)
(* the port goes down or nothing arrives for the time allowed; what was     *)
(* read is lost and the rest of the request is left to the scan.            *)
ReadFull(i) ==
  /\ i \in Readable(selected)
  /\ Take(i)
  /\ selected' = i

Own(i) == Head(rx[i]) = [req |-> Top.req, part |-> Top.pc]

ReadFullFails_NoTimeout ==
  /\ Top.pc \in {"b1", "b2", "d"}
  /\ ~io_ready(selected)
  /\ End
  /\ UNCHANGED <<wire, executed, replies, mangled>>

ReadFullFails ==
  /\ Top.pc \in {"b1", "b2", "d"}
  /\ Readable(selected) = {}
  /\ End
  /\ UNCHANGED <<wire, executed, replies, mangled>>

Body_NoChecksum ==
  /\ \E i \in Ports :
       /\ ReadFull(i)
       /\ \/ Top.pc = "b1" /\ SetTop([Top EXCEPT !.pc = "b2"])
          \/ Top.pc = "b2" /\ SetTop([Top EXCEPT !.pc = "dispatch"])
  /\ UNCHANGED <<ready, sending, executed, replies, mangled>>

(* The 60 bytes after the magic, then the checksum. *)
Body ==
  /\ \E i \in Ports :
       /\ ReadFull(i)
       /\ LET whole == Top.whole /\ Own(i)
          IN  \/ /\ Top.pc = "b1"
                 /\ SetTop([Top EXCEPT !.pc = "b2", !.whole = whole])
                 /\ UNCHANGED mangled
              \/ /\ Top.pc = "b2"
                 /\ SetTop([Top EXCEPT !.pc = IF whole THEN "dispatch" ELSE "reply",
                                       !.whole = whole])
                 /\ mangled' = [mangled EXCEPT ![i] = @ \/ ~whole]
  /\ UNCHANGED <<ready, sending, executed, replies>>

Executes == executed' = [executed EXCEPT ![Top.req] = @ + 1]

Dispatch_StoresEarly ==
  /\ Top.pc = "dispatch"
  /\ SetTop([Top EXCEPT !.pc = IF Top.req.kind = "write" THEN "d"
                               ELSE IF Top.req.kind = "call" THEN "call" ELSE "reply"])
  /\ Executes
  /\ UNCHANGED <<wire, selected, replies, mangled>>

(* proxy_request, memory_read and the other requests that need no more      *)
(* input; a P_CALL runs for as long as its payload does.                    *)
Dispatch ==
  /\ Top.pc = "dispatch"
  /\ IF Top.req.kind = "write"
     THEN SetTop([Top EXCEPT !.pc = "d"]) /\ UNCHANGED executed
     ELSE SetTop([Top EXCEPT !.pc = IF Top.req.kind = "call" THEN "call" ELSE "reply"])
          /\ Executes
  /\ UNCHANGED <<wire, selected, replies, mangled>>

(* memory_write stores what it reads, whatever it is, and answers with its  *)
(* sum; one unit stands for data of at most BOUNCE_BYTES.                   *)
Data ==
  /\ Top.pc = "d"
  /\ \E i \in Ports : ReadFull(i)
  /\ Executes
  /\ SetTop([Top EXCEPT !.pc = "reply"])
  /\ UNCHANGED <<ready, sending, replies, mangled>>

CallReturns ==
  /\ Top.pc = "call"
  /\ SetTop([Top EXCEPT !.pc = "reply"])
  /\ UNCHANGED <<wire, selected, executed, replies, mangled>>

(* q1n1_exception: an unguarded exception of the payload starts a session   *)
(* of its own over the same io.                                             *)
CallFaults ==
  /\ Top.pc = "call" /\ Len(session) <= Nested
  /\ session' = <<Fresh>> \o session
  /\ UNCHANGED <<wire, selected, executed, replies, mangled>>

Reply_EndsFirst ==
  /\ Top.pc = "reply"
  /\ replies' = IF io_ready(NoPort)
                THEN replies \cup {<<Sink(NoPort), Top.req>>} ELSE replies
  /\ selected' = NoPort
  /\ session' = IF Top.req.kind = "exit" /\ Top.whole /\ Len(session) > 1
                THEN Tail(session) ELSE <<Fresh>> \o Tail(session)
  /\ UNCHANGED <<wire, executed, mangled>>

(* send_reply, then io->end.  A P_EXIT leaves q1n1_proxy_run: the payload   *)
(* goes on, or proxy_main starts the loop anew.                             *)
Reply ==
  /\ Top.pc = "reply"
  /\ replies' = IF io_ready(selected)
                THEN replies \cup {<<Sink(selected), Top.req>>} ELSE replies
  /\ selected' = NoPort
  /\ session' = IF Top.req.kind = "exit" /\ Top.whole /\ Len(session) > 1
                THEN Tail(session) ELSE <<Fresh>> \o Tail(session)
  /\ UNCHANGED <<wire, executed, mangled>>

-----------------------------------------------------------------------------
(* The hosts.  A request is sent unit by unit and may be left unfinished;   *)
(* the next one then follows at once.                                       *)

Frame(req) == <<"M", "b1", "b2">> \o (IF req.kind = "write" THEN <<"d">> ELSE <<>>)
Finished(h) == h.req = NoRequest \/ h.sent = Len(Frame(h.req))

Send(i, req, k) ==
  /\ rx' = [rx EXCEPT ![i] = Append(@, [req |-> req, part |-> Frame(req)[k]])]
  /\ host' = [host EXCEPT ![i].req = req, ![i].sent = k]

StartRequest(i, kind) ==
  /\ ready[i] /\ host[i].req.n < MaxReq
  /\ Send(i, [port |-> i, n |-> host[i].req.n + 1, kind |-> kind], 1)
  /\ cut' = [cut EXCEPT ![i] = @ \/ ~Finished(host[i])]
  /\ abandoned' = IF host[i].sent \in {1, 2} THEN abandoned \cup {host[i].req} ELSE abandoned
  /\ UNCHANGED <<ready, target>>

SendUnit(i) ==
  /\ ready[i] /\ ~Finished(host[i])
  /\ Send(i, host[i].req, host[i].sent + 1)
  /\ UNCHANGED <<ready, abandoned, cut, target>>

SendZero(i) ==
  /\ ready[i] /\ Finished(host[i]) /\ host[i].zeros < MaxZero
  /\ rx' = [rx EXCEPT ![i] = Append(@, [req |-> NoRequest, part |-> "0"])]
  /\ host' = [host EXCEPT ![i].zeros = @ + 1]
  /\ UNCHANGED <<ready, abandoned, cut, target>>

(* A lost link takes what was received with it, or leaves it to be read     *)
(* when the link is back; either way the host starts over.                  *)
LinkDrops(i, flush) ==
  /\ Drops /\ ready[i]
  /\ ready' = [ready EXCEPT ![i] = FALSE]
  /\ rx' = IF flush THEN [rx EXCEPT ![i] = <<>>] ELSE rx
  /\ cut' = [cut EXCEPT ![i] = TRUE]
  /\ UNCHANGED <<host, abandoned, target>>

LinkReturns(i) ==
  /\ ~ready[i]
  /\ ready' = [ready EXCEPT ![i] = TRUE]
  /\ UNCHANGED <<rx, sending, target>>

-----------------------------------------------------------------------------
Init ==
  /\ rx = [i \in Ports |-> <<>>]
  /\ ready = [i \in Ports |-> TRUE]
  /\ selected = NoPort
  /\ session = <<Fresh>>
  /\ host = [i \in Ports |-> [req |-> NoRequest, sent |-> 0, zeros |-> 0]]
  /\ executed = [r \in Request |-> 0]
  /\ replies = {}
  /\ abandoned = {}
  /\ cut = [i \in Ports |-> FALSE]
  /\ mangled = [i \in Ports |-> FALSE]

Loop ==
  \/ Scan(FALSE) \/ Scan(TRUE) \/ Body \/ Dispatch \/ Data \/ ReadFullFails
  \/ CallReturns \/ Reply

Hosts ==
  \E i \in Ports :
    \/ \E kind \in Kinds : StartRequest(i, kind)
    \/ SendUnit(i) \/ SendZero(i)
    \/ (\E flush \in BOOLEAN : LinkDrops(i, flush)) \/ LinkReturns(i)

Next == Loop \/ CallFaults \/ Hosts

Spec == Init /\ [][Next]_vars

(* The loop goes on, its payloads return, and its time-outs expire. *)
FairSpec == Spec /\ WF_vars(Loop)

-----------------------------------------------------------------------------
(* Properties. *)

(* A reply reaches the controller its request came from, and no other,      *)
(* whatever the other controller's host sends and whichever links drop.     *)
Pinned == \A r \in replies : r[1] = r[2].port

(* Also with links that drop and calls that fault, only a call that was     *)
(* resumed by an exception session may be answered elsewhere.               *)
PinnedUnlessResumed == \A r \in replies : r[1] = r[2].port \/ r[2].kind = "call"

(* A request is carried out at most once, and never when its host left its  *)
(* frame unfinished: no time-out, lost link, stray byte or later request    *)
(* completes or repeats one.  (memory_write stores as it reads, so a write  *)
(* whose frame is whole and whose data is not may be carried out with the   *)
(* bytes that follow; its reply says so.)                                   *)
ExecutedOnce == \A r \in Request : executed[r] > 0 => executed[r] = 1 /\ r \notin abandoned

(* Two hosts never mix: a request is read with a wrong checksum only from a *)
(* port whose own stream was interrupted inside a request.                  *)
NoInterleaving == \A i \in Ports : mangled[i] => cut[i]

(* Every request, abandoned prefix and stray byte ends by releasing the     *)
(* controller it pinned.                                                    *)
PinReleased == (selected # NoPort) ~> (selected = NoPort)

(* A request that is wholly received on a link that was never interrupted   *)
(* is answered there, whatever stray bytes preceded it.                     *)
Answered ==
  \A i \in Ports, n \in 1 .. MaxReq :
    (host[i].req.n = n /\ Finished(host[i]) /\ ~cut[i]
       /\ \E k \in 1 .. Len(rx[i]) : rx[i][k].req.n = n /\ rx[i][k].part = "M")
      ~> (cut[i] \/ \E r \in replies : r[1] = i /\ r[2].port = i /\ r[2].n = n)
=============================================================================
