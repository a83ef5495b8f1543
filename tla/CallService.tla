----------------------------- MODULE CallService -----------------------------
(***************************************************************************)
(* The service a P_CALL payload polls for a stop request (call-service.c,  *)
(* q1n1_call_service in main.c), the call mode of the NCM proxy            *)
(* (ncm-proxy.c), and what undoes a poll that never returned               *)
(* (managed_usb_poll): one CPU that runs the proxy loop, a payload, and    *)
(* the exception session nested in either, interrupted by the EL2 tick.    *)
(*                                                                         *)
(* Datagrams may be lost, repeated and reordered: at any moment any host   *)
(* may have any request for any session pending.                           *)
(***************************************************************************)
EXTENDS Integers, FiniteSets

CONSTANTS
  Sessions,  \* what payloads call their runs; 0 is refused
  Nonces,    \* what hosts call their requests
  Clients,   \* hosts that talk to the proxy port
  Views,     \* the console views payloads pass, a subset of View
  Exits,     \* how hosts end an exception session, a subset of Exit
  Ticks      \* the payload leaves the EL2 timer to the proxy

(* A view the payload passes may be unreadable ("bad"), or lead to buffers  *)
(* that are ("poisoned").                                                   *)
View == {"none", "good", "poisoned", "bad"}
Exit == {"resume", "unwind"}
NoLatch == [session |-> 0, nonce |-> 0, delay |-> 0]

ASSUME CallAssumption ==
  /\ 0 \notin Sessions /\ Sessions # {} /\ Clients # {}
  /\ Views \subseteq View /\ Exits \subseteq Exit /\ Ticks \in BOOLEAN

DELAY_LIMIT == 1   \* of Delay, the last is over the limit
Delay == {0, 1, 2}
Request == [session : Sessions, nonce : Nonces, delay : Delay]
Latch == [session : Sessions, nonce : Nonces, delay : 0 .. DELAY_LIMIT]

VARIABLES
  armed, session, latched, taken, latch,   \* struct q1n1_call_state
  delivered,      \* latches the payload was given since it last armed
  pc,             \* a Place
  interrupted,    \* where the exception being served was taken (in_exception)
  busy,           \* q1n1_usb_ports.busy
  call_mode,      \* side.call_mode
  call_polling,   \* a call poll is under way, or never returned
  console_view,   \* the payload's view
  peer,           \* the client the proxy's replies go to
  queued          \* bytes of it wait in the ring

stopping == <<armed, session, latched, taken, latch, delivered>>
held == <<busy, call_mode, call_polling, console_view>>
control == <<pc, interrupted>>
proxy == <<peer, queued>>
vars == <<stopping, control, held, proxy>>

(* Of the proxy loop: before a poll, inside it, and after it, where a       *)
(* request is read.  Of the payload: its own code, and q1n1_call_service    *)
(* before and after its look at the view, and inside the call poll.         *)
Place == {"loop", "serve", "read", "call", "enter", "begin", "poll"}

(* The types of the state. *)
TypeOK ==
  /\ armed \in BOOLEAN /\ latched \in BOOLEAN /\ taken \in BOOLEAN
  /\ session \in Sessions \cup {0}
  /\ latch \in Latch \cup {NoLatch}
  /\ delivered \subseteq Latch
  /\ pc \in Place
  /\ interrupted \in Place \cup {"none"}
  /\ busy \in BOOLEAN /\ call_mode \in BOOLEAN /\ call_polling \in BOOLEAN
  /\ console_view \in View
  /\ peer \in Clients \cup {"none"}
  /\ queued \in BOOLEAN

-----------------------------------------------------------------------------
(* call-service.c. *)

q1n1_call_arm(s) ==
  IF s = 0 THEN UNCHANGED stopping
  ELSE /\ session' = s
       /\ latched' = FALSE /\ taken' = FALSE /\ latch' = NoLatch
       /\ armed' = TRUE
       /\ delivered' = {}

q1n1_call_disarm ==
  /\ armed' = FALSE
  /\ UNCHANGED <<session, latched, taken, latch, delivered>>

Supersedes_Any(d) == d.delay = 0 /\ d.nonce # latch.nonce

Supersedes(d) == d.delay = 0 /\ latch.delay # 0 /\ d.nonce # latch.nonce

q1n1_stop_datagram_NoLimit(d) ==
  IF armed /\ d.session = session /\ (latched => Supersedes(d))
  THEN /\ taken' = FALSE /\ latched' = TRUE /\ latch' = d
       /\ UNCHANGED <<armed, session, delivered>>
  ELSE UNCHANGED stopping

q1n1_stop_datagram_AnySession(d) ==
  IF armed /\ d.delay <= DELAY_LIMIT /\ (latched => Supersedes(d))
  THEN /\ taken' = FALSE /\ latched' = TRUE /\ latch' = d
       /\ UNCHANGED <<armed, session, delivered>>
  ELSE UNCHANGED stopping

q1n1_stop_datagram_KeepsTaken(d) ==
  IF armed /\ d.session = session /\ d.delay <= DELAY_LIMIT /\ (latched => Supersedes(d))
  THEN /\ latched' = TRUE /\ latch' = d
       /\ UNCHANGED <<armed, session, taken, delivered>>
  ELSE UNCHANGED stopping

(* A STOP of the armed session.  QUERY and malformed requests are answered  *)
(* and change nothing, like those refused here.                             *)
q1n1_stop_datagram(d) ==
  IF armed /\ d.session = session /\ d.delay <= DELAY_LIMIT /\ (latched => Supersedes(d))
  THEN /\ taken' = FALSE /\ latched' = TRUE /\ latch' = d
       /\ UNCHANGED <<armed, session, delivered>>
  ELSE UNCHANGED stopping

(* ok: the payload's buffer holds a latch. *)
q1n1_call_take(ok) ==
  IF armed /\ latched /\ ~taken /\ ok
  THEN /\ taken' = TRUE
       /\ delivered' = delivered \cup {latch}
       /\ UNCHANGED <<armed, session, latched, latch>>
  ELSE UNCHANGED stopping

-----------------------------------------------------------------------------
(* What a poll finds on the link: datagrams for the stop port, for the      *)
(* proxy port, and console requests.                                        *)

handle_side(d) == q1n1_stop_datagram(d) /\ UNCHANGED <<control, held, proxy>>

handle_udp(c) ==
  /\ IF call_mode THEN UNCHANGED proxy ELSE peer' = c /\ queued' = TRUE
  /\ UNCHANGED <<stopping, control, held>>

Receives == (\E d \in Request : handle_side(d)) \/ (\E c \in Clients : handle_udp(c))

Init ==
  /\ armed = FALSE /\ session = 0 /\ latched = FALSE /\ taken = FALSE
  /\ latch = NoLatch /\ delivered = {}
  /\ pc = "loop" /\ interrupted = "none"
  /\ busy = FALSE /\ call_mode = FALSE /\ call_polling = FALSE
  /\ console_view = "none"
  /\ peer = "none" /\ queued = FALSE

(* The machine restarts. *)
q1n1_fault ==
  /\ armed' = FALSE /\ session' = 0 /\ latched' = FALSE /\ taken' = FALSE
  /\ latch' = NoLatch /\ delivered' = {}
  /\ pc' = "loop" /\ interrupted' = "none"
  /\ busy' = FALSE /\ call_mode' = FALSE /\ call_polling' = FALSE
  /\ console_view' = "none"
  /\ peer' = "none" /\ queued' = FALSE

(* A nested proxy session, unless one is being served. *)
q1n1_exception ==
  IF interrupted = "none"
  THEN /\ interrupted' = pc /\ pc' = "loop"
       /\ UNCHANGED <<stopping, held, proxy>>
  ELSE q1n1_fault

(* A console request served from a view whose memory cannot be read.  From  *)
(* any other view it changes nothing here (see ConsoleStream).              *)
ConsoleFaults ==
  /\ console_view = "bad" \/ (console_view = "poisoned" /\ armed)
  /\ q1n1_exception

-----------------------------------------------------------------------------
(* The proxy loop, of the machine or of an exception session. *)

managed_usb_poll_NoRecovery ==
  /\ pc = "loop"
  /\ busy' = TRUE
  /\ pc' = IF busy THEN "read" ELSE "serve"
  /\ UNCHANGED <<stopping, interrupted, call_mode, call_polling, console_view, proxy>>

(* A call poll that never returned is undone, then the ports are polled.    *)
managed_usb_poll ==
  /\ pc = "loop"
  /\ IF call_polling THEN q1n1_call_disarm ELSE UNCHANGED stopping
  /\ call_polling' = FALSE
  /\ console_view' = IF call_polling THEN "none" ELSE console_view
  /\ call_mode' = (call_mode /\ ~call_polling)
  /\ busy' = TRUE
  /\ pc' = IF busy /\ ~call_polling THEN "read" ELSE "serve"
  /\ UNCHANGED <<interrupted, proxy>>

ServeReceives == pc = "serve" /\ Receives
ServeFaults == pc = "serve" /\ ConsoleFaults

ServeEnds ==
  /\ pc = "serve"
  /\ busy' = FALSE
  /\ pc' = "read"
  /\ UNCHANGED <<stopping, interrupted, call_mode, call_polling, console_view, proxy>>

Takes(place) ==
  /\ pc = "read" /\ queued
  /\ queued' = FALSE
  /\ pc' = place
  /\ UNCHANGED <<stopping, held, peer>>

NoRequest ==
  /\ pc = "read"
  /\ pc' = "loop"
  /\ UNCHANGED <<stopping, interrupted, held, proxy>>

OtherRequest == Takes("loop") /\ UNCHANGED interrupted

P_CALL == interrupted = "none" /\ Takes("call") /\ UNCHANGED interrupted

(* P_EXIT of an exception session with the registers to go on with: the     *)
(* next instruction, or the end of the call.                                *)
ExitResumes ==
  /\ "resume" \in Exits /\ interrupted # "none"
  /\ Takes(IF interrupted = "enter" THEN "begin" ELSE interrupted)
  /\ interrupted' = "none"

ExitUnwinds ==
  /\ "unwind" \in Exits /\ interrupted \in {"call", "enter", "poll"}
  /\ Takes("loop")
  /\ interrupted' = "none"

Loop ==
  \/ managed_usb_poll \/ ServeReceives \/ ServeFaults \/ ServeEnds
  \/ NoRequest \/ OtherRequest \/ P_CALL \/ ExitResumes \/ ExitUnwinds

-----------------------------------------------------------------------------
(* The payload. *)

Arms(s) == pc = "call" /\ q1n1_call_arm(s) /\ UNCHANGED <<control, held, proxy>>
Disarms == pc = "call" /\ q1n1_call_disarm /\ UNCHANGED <<control, held, proxy>>
CallFaults == pc = "call" /\ q1n1_exception

CallReturns ==
  /\ pc = "call"
  /\ pc' = "loop"
  /\ UNCHANGED <<stopping, interrupted, held, proxy>>

(* Q1N1_CALL_POLL, up to its look at the view. *)
PollEnters(v) ==
  /\ pc = "call"
  /\ console_view' = v
  /\ pc' = "enter"
  /\ UNCHANGED <<stopping, interrupted, busy, call_mode, call_polling, proxy>>

PollSeesView ==
  /\ pc = "enter"
  /\ IF console_view = "bad" THEN q1n1_exception
     ELSE pc' = "begin" /\ UNCHANGED <<stopping, interrupted, held, proxy>>

PollBegins_Unrecorded ==
  /\ pc = "begin" /\ ~busy
  /\ busy' = TRUE /\ call_mode' = TRUE
  /\ pc' = "poll"
  /\ UNCHANGED <<stopping, interrupted, call_polling, console_view, proxy>>

PollBegins_NoCallMode ==
  /\ pc = "begin" /\ ~busy
  /\ call_polling' = TRUE /\ busy' = TRUE
  /\ pc' = "poll"
  /\ UNCHANGED <<stopping, interrupted, call_mode, console_view, proxy>>

(* q1n1_usb_ports_call_poll and ncm_proxy_call_poll, of a link that is up.  *)
PollBegins ==
  /\ pc = "begin" /\ ~busy
  /\ call_polling' = TRUE /\ busy' = TRUE /\ call_mode' = TRUE
  /\ pc' = "poll"
  /\ UNCHANGED <<stopping, interrupted, console_view, proxy>>

PollReceives == pc = "poll" /\ Receives
PollFaults == pc = "poll" /\ ConsoleFaults

PollEnds_KeepsView(ok) ==
  /\ pc = "poll"
  /\ call_polling' = FALSE /\ busy' = FALSE /\ call_mode' = FALSE
  /\ q1n1_call_take(ok)
  /\ pc' = "call"
  /\ UNCHANGED <<interrupted, console_view, proxy>>

PollEnds(ok) ==
  /\ pc = "poll"
  /\ call_polling' = FALSE /\ busy' = FALSE /\ call_mode' = FALSE
  /\ console_view' = "none"
  /\ q1n1_call_take(ok)
  /\ pc' = "call"
  /\ UNCHANGED <<interrupted, proxy>>

Payload ==
  \/ \E s \in Sessions \cup {0} : Arms(s)
  \/ Disarms \/ CallFaults \/ CallReturns
  \/ \E v \in Views : PollEnters(v)
  \/ PollSeesView \/ PollBegins \/ PollReceives \/ PollFaults
  \/ \E ok \in BOOLEAN : PollEnds(ok)

(* The EL2 tick polls the links itself, unless a poll is under way.  An     *)
(* exception masks it, and a payload may take the timer for itself.         *)
Tick ==
  /\ interrupted = "none" /\ ~busy
  /\ pc \in {"call", "enter", "begin", "poll"} => Ticks
  /\ Receives

Next == Loop \/ Payload \/ Tick

Spec == Init /\ [][Next]_vars

(* The loop goes on; a payload that is called polls again and again, and    *)
(* its polls return with the latch.                                         *)
FairSpec ==
  /\ Spec
  /\ WF_vars(managed_usb_poll) /\ WF_vars(ServeEnds) /\ WF_vars(NoRequest)
  /\ WF_vars(\E v \in Views : PollEnters(v))
  /\ WF_vars(PollSeesView) /\ WF_vars(PollBegins)
  /\ SF_vars(PollEnds(TRUE))

-----------------------------------------------------------------------------
(* Properties. *)

(* The latch of the header, seen in the state of the service.               *)
Promise == INSTANCE StopLatch WITH
  Session <- Sessions, Stop <- Latch, NoSession <- 0, NoStop <- NoLatch,
  live <- IF armed THEN session ELSE 0,
  stop <- IF latched THEN latch ELSE NoLatch,
  given <- delivered

(* The service implements the latch that call-service.h:20-29 promises,     *)
(* whatever is lost, repeated or reordered, and whoever faults where.       *)
StopsAsPromised == Promise!Spec

(* What the payload is given while it is armed is of its own session: at    *)
(* most one delayed request and then one immediate one, each once.          *)
DeliveredInOrder == Promise!GivenInOrder

(* A faulted call poll leaves the ports held only with call_polling set, so *)
(* that managed_usb_poll releases them before the loop needs the link.      *)
HeldByPoll == busy /\ pc \in {"loop", "read"} => call_polling

(* During a POLL no proxy datagram is queued or re-points the peer          *)
(* (call-service.h:25-28), so the call's reply still reaches its client.    *)
PollKeepsPeer == [][pc = "poll" => UNCHANGED proxy]_vars

InPoll == {"enter", "begin", "poll"}

(* main.c:132: the payload's console view is kept "only for the duration of *)
(* its POLL", counting a poll that managed_usb_poll has yet to undo.        *)
ViewOnlyInPoll ==
  console_view # "none" => pc \in InPoll \/ interrupted \in InPoll \/ call_polling

(* docs/A16-Q1N1-PROXY.md:143-146: the session of an unguarded exception    *)
(* serves the link, so that the host can resume.                            *)
FaultServed == (interrupted # "none") ~> (pc = "serve" \/ interrupted = "none")

(* While its payload keeps polling, an accepted stop is delivered, also one *)
(* that superseded another after its delivery.                              *)
StopDelivered ==
  (armed /\ latched /\ latch \notin delivered /\ pc \in {"call"} \cup InPoll)
    ~> (latch \in delivered \/ ~armed \/ ~latched \/ pc \notin {"call"} \cup InPoll)
=============================================================================
