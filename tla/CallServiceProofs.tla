-------------------------- MODULE CallServiceProofs --------------------------
(***************************************************************************)
(* The stop service implements its promise for every set of sessions,      *)
(* nonces, clients and views, and what a faulted poll held is recorded.    *)
(***************************************************************************)
EXTENDS CallService, TLAPS

-----------------------------------------------------------------------------
(* What the steps of the whole system do to struct q1n1_call_state. *)

Restarted ==
  /\ armed' = FALSE /\ session' = 0 /\ latched' = FALSE /\ taken' = FALSE
  /\ latch' = NoLatch /\ delivered' = {}

StopStep ==
  \/ UNCHANGED stopping
  \/ \E s \in Sessions \cup {0} : q1n1_call_arm(s)
  \/ q1n1_call_disarm
  \/ \E d \in Request : q1n1_stop_datagram(d)
  \/ \E ok \in BOOLEAN : q1n1_call_take(ok)
  \/ Restarted

(* The exception vector leaves the stop state alone or restarts. *)
LEMMA ExceptionStops == q1n1_exception => UNCHANGED stopping \/ Restarted
  BY Zenon DEF q1n1_exception, q1n1_fault, Restarted

(* What a poll receives leaves the stop state alone or is a STOP. *)
LEMMA ReceivesStops ==
  Receives => UNCHANGED stopping \/ \E d \in Request : q1n1_stop_datagram(d)
  BY Zenon DEF Receives, handle_side, handle_udp

(* Every step of the loop, the payload or the tick touches the stop state   *)
(* in one of these ways.                                                    *)
LEMMA NextIsStopStep == [Next]_vars => StopStep
<1>1. ASSUME Loop PROVE StopStep
  <2>1. CASE managed_usb_poll
    BY Zenon, <2>1 DEF managed_usb_poll, StopStep
  <2>2. CASE ServeReceives
    BY Zenon, <2>2, ReceivesStops DEF ServeReceives, StopStep
  <2>3. CASE ServeFaults
    BY Zenon, <2>3, ExceptionStops DEF ServeFaults, ConsoleFaults, StopStep
  <2>4. CASE ServeEnds \/ NoRequest \/ OtherRequest \/ P_CALL \/ ExitResumes \/ ExitUnwinds
    BY Zenon, <2>4 DEF ServeEnds, NoRequest, OtherRequest, P_CALL, ExitResumes, ExitUnwinds,
                Takes, StopStep
  <2> QED BY Zenon, <1>1, <2>1, <2>2, <2>3, <2>4 DEF Loop
<1>2. ASSUME Payload PROVE StopStep
  <2>1. CASE \E s \in Sessions \cup {0} : Arms(s)
    BY Zenon, <2>1 DEF Arms, StopStep
  <2>2. CASE Disarms
    BY Zenon, <2>2 DEF Disarms, StopStep
  <2>3. CASE CallFaults \/ PollFaults \/ PollSeesView
    BY Zenon, <2>3, ExceptionStops DEF CallFaults, PollFaults, ConsoleFaults, PollSeesView, StopStep
  <2>4. CASE CallReturns \/ PollBegins \/ \E v \in Views : PollEnters(v)
    BY Zenon, <2>4 DEF CallReturns, PollBegins, PollEnters, StopStep
  <2>5. CASE PollReceives
    BY Zenon, <2>5, ReceivesStops DEF PollReceives, StopStep
  <2>6. CASE \E ok \in BOOLEAN : PollEnds(ok)
    BY Zenon, <2>6 DEF PollEnds, StopStep
  <2> QED BY Zenon, <1>2, <2>1, <2>2, <2>3, <2>4, <2>5, <2>6 DEF Payload
<1>3. ASSUME Tick PROVE StopStep
  BY Zenon, <1>3, ReceivesStops DEF Tick, StopStep
<1>4. ASSUME UNCHANGED vars PROVE StopStep
  BY Zenon, <1>4 DEF vars, StopStep
<1> QED BY Zenon, <1>1, <1>2, <1>3, <1>4 DEF Next

-----------------------------------------------------------------------------
(* The latch and what was delivered. *)

LatchTypes ==
  /\ armed \in BOOLEAN /\ latched \in BOOLEAN /\ taken \in BOOLEAN
  /\ session \in Sessions \cup {0}
  /\ armed => session \in Sessions
  /\ latched => latch \in Latch
  /\ delivered \subseteq Latch

(* taken says that the latch was delivered; only the latch and the delayed  *)
(* request it superseded ever are.                                          *)
LatchInv ==
  /\ LatchTypes
  /\ ~latched => delivered = {}
  /\ latched =>
       /\ taken <=> latch \in delivered
       /\ \A r \in delivered :
            r = latch \/ (latch.delay = 0 /\ r.delay # 0 /\ r.nonce # latch.nonce)
       /\ armed => latch.session = session /\ \A r \in delivered : r.session = session

(* An accepted request within the limit is a latch. *)
LEMMA RequestLatch == \A d \in Request : d.delay <= DELAY_LIMIT => d \in Latch
  BY DEF Request, Latch, Delay, DELAY_LIMIT

(* Nothing is latched when the proxy starts. *)
LEMMA LatchInitial == Init => LatchInv
  BY Zenon DEF Init, LatchInv, LatchTypes

(* The latch invariant is preserved by everything the system does. *)
LEMMA LatchInductive == LatchInv /\ StopStep => LatchInv'
<1> SUFFICES ASSUME LatchInv, StopStep PROVE LatchInv'
  BY Zenon
<1>1. CASE UNCHANGED stopping
  BY Zenon, <1>1 DEF LatchInv, LatchTypes, stopping
<1>2. CASE \E s \in Sessions \cup {0} : q1n1_call_arm(s)
  <2> PICK s \in Sessions \cup {0} : q1n1_call_arm(s)
    BY Zenon, <1>2
  <2>1. CASE UNCHANGED stopping
    BY Zenon, <2>1 DEF LatchInv, LatchTypes, stopping
  <2>2. CASE s # 0 /\ ~UNCHANGED stopping
    <3>1. /\ armed' = TRUE /\ session' = s /\ s \in Sessions
          /\ latched' = FALSE /\ taken' = FALSE /\ delivered' = {}
      BY Zenon, <2>2 DEF q1n1_call_arm
    <3> QED BY Zenon, <3>1 DEF LatchInv, LatchTypes
  <2> QED BY Zenon, <2>1, <2>2 DEF q1n1_call_arm
<1>3. CASE q1n1_call_disarm
  BY Zenon, <1>3 DEF LatchInv, LatchTypes, q1n1_call_disarm
<1>4. CASE \E d \in Request : q1n1_stop_datagram(d)
  <2> PICK d \in Request : q1n1_stop_datagram(d)
    BY Zenon, <1>4
  <2>1. CASE armed /\ d.session = session /\ d.delay <= DELAY_LIMIT /\ (latched => Supersedes(d))
    <3>1. /\ taken' = FALSE /\ latched' = TRUE /\ latch' = d
          /\ armed' = armed /\ session' = session /\ delivered' = delivered
      BY Zenon, <2>1 DEF q1n1_stop_datagram
    <3>2. d \in Latch
      BY Zenon, <2>1, RequestLatch
    <3>3. \A r \in delivered : /\ d.delay = 0 /\ r.delay # 0 /\ r.nonce # d.nonce
                               /\ r.session = session
      BY Zenon, <2>1 DEF LatchInv, Supersedes
    <3> QED BY Zenon, <2>1, <3>1, <3>2, <3>3 DEF LatchInv, LatchTypes
  <2>2. CASE UNCHANGED stopping
    BY Zenon, <2>2 DEF LatchInv, LatchTypes, stopping
  <2> QED BY Zenon, <2>1, <2>2 DEF q1n1_stop_datagram
<1>5. CASE \E ok \in BOOLEAN : q1n1_call_take(ok)
  <2> PICK ok \in BOOLEAN : q1n1_call_take(ok)
    BY Zenon, <1>5
  <2>1. CASE UNCHANGED stopping
    BY Zenon, <2>1 DEF LatchInv, LatchTypes, stopping
  <2>2. CASE armed /\ latched /\ ~taken /\ ok
    <3>1. /\ taken' = TRUE /\ delivered' = delivered \cup {latch}
          /\ armed' = armed /\ session' = session /\ latched' = latched /\ latch' = latch
      BY Zenon, <2>2 DEF q1n1_call_take
    <3> QED BY Zenon, <2>2, <3>1 DEF LatchInv, LatchTypes
  <2> QED BY Zenon, <2>1, <2>2 DEF q1n1_call_take
<1>6. CASE Restarted
  BY Zenon, <1>6 DEF LatchInv, LatchTypes, Restarted
<1> QED BY Zenon, <1>1, <1>2, <1>3, <1>4, <1>5, <1>6 DEF StopStep

(* The latch invariant holds throughout. *)
LEMMA LatchAlways == Spec => []LatchInv
<1>1. LatchInv /\ [Next]_vars => LatchInv'
  BY Zenon, LatchInductive, NextIsStopStep
<1> QED BY LatchInitial, <1>1, PTL DEF Spec

-----------------------------------------------------------------------------
(* The refinement. *)

(* The sentinels of the mapping are no session and no request. *)
LEMMA Sentinels == 0 \notin Sessions /\ NoLatch \notin Latch
  BY Zenon, CallAssumption DEF NoLatch, Latch

(* Each way of touching the stop state is an operation of the promise, or   *)
(* hidden by it.                                                            *)
LEMMA StopStepRefines ==
  LatchInv /\ StopStep => Promise!Next \/ UNCHANGED Promise!vars
<1> SUFFICES ASSUME LatchInv, StopStep PROVE Promise!Next \/ UNCHANGED Promise!vars
  BY Zenon
<1>1. CASE UNCHANGED stopping
  BY Zenon, <1>1 DEF stopping, Promise!vars
<1>2. CASE \E s \in Sessions \cup {0} : q1n1_call_arm(s)
  <2> PICK s \in Sessions \cup {0} : q1n1_call_arm(s)
    BY Zenon, <1>2
  <2>1. CASE s = 0
    BY Zenon, <2>1 DEF q1n1_call_arm, stopping, Promise!vars
  <2>2. CASE s # 0
    <3>1. s \in Sessions /\ Promise!Begin(s)
      BY Zenon, <2>2 DEF q1n1_call_arm, Promise!Begin
    <3> QED BY Zenon, <3>1 DEF Promise!Next
  <2> QED BY Zenon, <2>1, <2>2
<1>3. CASE q1n1_call_disarm
  BY Zenon, <1>3 DEF q1n1_call_disarm, Promise!Next, Promise!End
<1>4. CASE \E d \in Request : q1n1_stop_datagram(d)
  <2> PICK d \in Request : q1n1_stop_datagram(d)
    BY Zenon, <1>4
  <2>1. CASE armed /\ d.session = session /\ d.delay <= DELAY_LIMIT /\ (latched => Supersedes(d))
    <3>1. d \in Latch
      BY Zenon, <2>1, RequestLatch
    <3>2. latched => Promise!Supersedes(d, latch)
      BY Zenon, <2>1 DEF Supersedes, Promise!Supersedes
    <3>3. Promise!Ask(d)
      BY Zenon, <2>1, <3>2 DEF q1n1_stop_datagram, Promise!Ask
    <3> QED BY Zenon, <3>1, <3>3 DEF Promise!Next
  <2>2. CASE UNCHANGED stopping
    BY Zenon, <2>2 DEF stopping, Promise!vars
  <2> QED BY Zenon, <2>1, <2>2 DEF q1n1_stop_datagram
<1>5. CASE \E ok \in BOOLEAN : q1n1_call_take(ok)
  <2> PICK ok \in BOOLEAN : q1n1_call_take(ok)
    BY Zenon, <1>5
  <2>1. CASE armed /\ latched /\ ~taken /\ ok
    <3>1. session # 0 /\ latch # NoLatch /\ latch \notin delivered
      BY Zenon, <2>1, Sentinels DEF LatchInv, LatchTypes
    <3>2. Promise!Give
      BY Zenon, <2>1, <3>1 DEF q1n1_call_take, Promise!Give
    <3> QED BY Zenon, <3>2 DEF Promise!Next
  <2>2. CASE UNCHANGED stopping
    BY Zenon, <2>2 DEF stopping, Promise!vars
  <2> QED BY Zenon, <2>1, <2>2 DEF q1n1_call_take
<1>6. CASE Restarted
  BY Zenon, <1>6 DEF Restarted, Promise!Next, Promise!Restart
<1> QED BY Zenon, <1>1, <1>2, <1>3, <1>4, <1>5, <1>6 DEF StopStep

(* The stop service implements the promise of call-service.h: whatever is   *)
(* lost, repeated or reordered, whoever faults, resumes or unwinds, and for *)
(* any sessions, nonces, clients and views.                                 *)
THEOREM ServiceKeepsPromise == Spec => StopsAsPromised
<1>1. Init => Promise!Init
  BY Zenon DEF Init, Promise!Init
<1>2. LatchInv /\ [Next]_vars => [Promise!Next]_(Promise!vars)
  BY Zenon, NextIsStopStep, StopStepRefines
<1> QED BY <1>1, <1>2, LatchAlways, PTL DEF Spec, StopsAsPromised, Promise!Spec

(* While it is armed, a payload is given requests of its own session only:  *)
(* at most one delayed one, and then one immediate one.                     *)
THEOREM StopsInOrder == Spec => []DeliveredInOrder
<1>1. LatchInv => DeliveredInOrder
  BY Zenon, Sentinels
  DEF LatchInv, LatchTypes, DeliveredInOrder, Promise!GivenInOrder, Promise!Supersedes
<1> QED BY <1>1, LatchAlways, PTL

-----------------------------------------------------------------------------
(* What a call poll holds, when views can be read and a faulted payload is  *)
(* unwound, never resumed.                                                  *)

(* Whoever holds the ports in the loop is a poll that never returned, and   *)
(* only such a poll leaves a view behind.                                   *)
HeldInv ==
  /\ pc \in Place
  /\ console_view # "bad"
  /\ interrupted # "none" => pc \in {"loop", "serve", "read"}
  /\ pc = "loop" => (busy \/ console_view # "none" => call_polling = TRUE)
  /\ pc = "serve" => call_polling = FALSE /\ console_view = "none"
  /\ pc = "read" => ~busy /\ call_polling = FALSE /\ console_view = "none"
  /\ pc = "call" => ~busy /\ console_view = "none"
  /\ pc \in {"enter", "begin"} => ~busy
  /\ pc = "poll" => busy /\ call_polling = TRUE /\ call_mode

(* Nothing is held when the proxy starts. *)
LEMMA HeldInitial == Init => HeldInv
  BY Zenon DEF Init, HeldInv, Place

(* What arrives on the link takes nothing and releases nothing. *)
LEMMA ReceivesHolds == Receives => UNCHANGED <<control, held>>
  BY Zenon DEF Receives, handle_side, handle_udp

(* An exception in a poll or in the payload leaves what it held recorded. *)
LEMMA ExceptionHeld ==
  ASSUME HeldInv, q1n1_exception, pc \in {"call", "poll"}
  PROVE  HeldInv'
  BY Zenon DEF HeldInv, q1n1_exception, q1n1_fault, held, Place

(* The invariant is preserved by everything the system does. *)
LEMMA HeldInductive ==
  ASSUME "bad" \notin Views, "resume" \notin Exits, HeldInv, [Next]_vars
  PROVE  HeldInv'
<1>1. CASE UNCHANGED <<control, held>>
  BY Zenon, <1>1 DEF HeldInv, control, held
<1>2. ASSUME Loop PROVE HeldInv'
  <2>1. CASE managed_usb_poll
    BY Zenon, <2>1 DEF HeldInv, managed_usb_poll, Place
  <2>2. CASE ServeReceives
    BY Zenon, <2>2, <1>1, ReceivesHolds DEF ServeReceives
  <2>3. CASE ServeFaults
    BY Zenon, <2>3 DEF HeldInv, ServeFaults, ConsoleFaults
  <2>4. CASE ServeEnds
    BY Zenon, <2>4 DEF HeldInv, ServeEnds, Place
  <2>5. CASE NoRequest \/ OtherRequest \/ P_CALL
    BY <2>5 DEF HeldInv, NoRequest, OtherRequest, P_CALL, Takes, held, Place
  <2>6. CASE ExitResumes
    BY Zenon, <2>6 DEF ExitResumes
  <2>7. CASE ExitUnwinds
    BY Zenon, <2>7 DEF HeldInv, ExitUnwinds, Takes, held, Place
  <2> QED BY Zenon, <1>2, <2>1, <2>2, <2>3, <2>4, <2>5, <2>6, <2>7 DEF Loop
<1>3. ASSUME Payload PROVE HeldInv'
  <2>1. CASE \E s \in Sessions \cup {0} : Arms(s)
    BY Zenon, <2>1, <1>1 DEF Arms
  <2>2. CASE Disarms
    BY Zenon, <2>2, <1>1 DEF Disarms
  <2>3. CASE CallFaults
    BY Zenon, <2>3, ExceptionHeld DEF CallFaults
  <2>4. CASE CallReturns
    BY Zenon, <2>4 DEF HeldInv, CallReturns, held, Place
  <2>5. CASE \E v \in Views : PollEnters(v)
    BY <2>5 DEF HeldInv, PollEnters, Place
  <2>6. CASE PollSeesView
    BY Zenon, <2>6 DEF HeldInv, PollSeesView, held, Place
  <2>7. CASE PollBegins
    BY Zenon, <2>7 DEF HeldInv, PollBegins, Place
  <2>8. CASE PollReceives
    BY Zenon, <2>8, <1>1, ReceivesHolds DEF PollReceives
  <2>9. CASE PollFaults
    BY Zenon, <2>9, ExceptionHeld DEF PollFaults, ConsoleFaults
  <2>10. CASE \E ok \in BOOLEAN : PollEnds(ok)
    BY Zenon, <2>10 DEF HeldInv, PollEnds, Place
  <2> QED BY Zenon, <1>3, <2>1, <2>2, <2>3, <2>4, <2>5, <2>6, <2>7, <2>8, <2>9, <2>10 DEF Payload
<1>4. ASSUME Tick PROVE HeldInv'
  BY Zenon, <1>4, <1>1, ReceivesHolds DEF Tick
<1>5. ASSUME UNCHANGED vars PROVE HeldInv'
  BY Zenon, <1>5, <1>1 DEF vars
<1> QED BY Zenon, <1>2, <1>3, <1>4, <1>5 DEF Next

(* The proxy loop never waits for ports that a dead poll holds unrecorded:  *)
(* managed_usb_poll finds call_polling set and releases them.               *)
THEOREM HeldPortsRecorded ==
  ASSUME "bad" \notin Views, "resume" \notin Exits
  PROVE  Spec => []HeldByPoll
<1>1. HeldInv /\ [Next]_vars => HeldInv'
  BY Zenon, HeldInductive
<1>2. HeldInv => HeldByPoll
  BY Zenon DEF HeldInv, HeldByPoll
<1> QED BY HeldInitial, <1>1, <1>2, PTL DEF Spec

(* A payload's view is published only during its POLL, or until             *)
(* managed_usb_poll undoes the POLL that never returned.                    *)
THEOREM ViewsWithdrawn ==
  ASSUME "bad" \notin Views, "resume" \notin Exits
  PROVE  Spec => []ViewOnlyInPoll
<1>1. HeldInv /\ [Next]_vars => HeldInv'
  BY Zenon, HeldInductive
<1>2. HeldInv => ViewOnlyInPoll
  BY Zenon DEF HeldInv, ViewOnlyInPoll, InPoll, Place
<1> QED BY HeldInitial, <1>1, <1>2, PTL DEF Spec

(* No step taken during a POLL, the tick's included, queues a proxy         *)
(* datagram or re-points the peer that the call's reply goes to.            *)
THEOREM PollsKeepPeer ==
  ASSUME "bad" \notin Views, "resume" \notin Exits
  PROVE  Spec => PollKeepsPeer
<1>1. HeldInv /\ [Next]_vars => HeldInv'
  BY Zenon, HeldInductive
<1>2. HeldInv /\ [Next]_vars => [pc = "poll" => UNCHANGED proxy]_vars
  <2> SUFFICES ASSUME HeldInv, [Next]_vars, pc = "poll" PROVE UNCHANGED proxy
    BY Zenon
  <2>1. busy /\ call_mode /\ interrupted = "none"
    BY Zenon DEF HeldInv
  <2>2. CASE PollReceives
    BY Zenon, <2>1, <2>2 DEF PollReceives, Receives, handle_side, handle_udp
  <2>3. CASE PollFaults
    BY Zenon, <2>1, <2>3 DEF PollFaults, ConsoleFaults, q1n1_exception
  <2>4. CASE \E ok \in BOOLEAN : PollEnds(ok)
    BY Zenon, <2>4 DEF PollEnds
  <2>5. CASE UNCHANGED vars
    BY Zenon, <2>5 DEF vars
  <2>6. ~Tick
    BY Zenon, <2>1 DEF Tick
  <2>7. ~Loop
    BY Zenon DEF Loop, managed_usb_poll, ServeReceives, ServeFaults, ServeEnds, NoRequest,
           OtherRequest, P_CALL, ExitResumes, ExitUnwinds, Takes
  <2>8. Payload => PollReceives \/ PollFaults \/ \E ok \in BOOLEAN : PollEnds(ok)
    BY Zenon DEF Payload, Arms, Disarms, CallFaults, CallReturns, PollEnters, PollSeesView, PollBegins
  <2> QED BY Zenon, <2>2, <2>3, <2>4, <2>5, <2>6, <2>7, <2>8 DEF Next
<1> QED BY HeldInitial, <1>1, <1>2, PTL DEF Spec, PollKeepsPeer
=============================================================================
