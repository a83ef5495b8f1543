------------------------------ MODULE StopLatch ------------------------------
(***************************************************************************)
(* What the stop service of a long P_CALL promises (call-service.h): the   *)
(* payload opens a session, hosts ask it to stop, and the payload learns   *)
(* of a request at one of its polls.  Polls, ticks, faults, datagrams and  *)
(* their replies are hidden; CallService is shown to implement this.       *)
(***************************************************************************)
CONSTANTS
  Session,   \* what a payload may call a run
  Stop,      \* requests: records with a session, a nonce and a delay
  NoSession,
  NoStop

VARIABLES
  live,      \* the session that accepts requests, or none
  stop,      \* the request that holds the latch, or none
  given      \* the requests the payload has been given in this session

vars == <<live, stop, given>>

Supersedes(new, old) == new.delay = 0 /\ old.delay # 0 /\ new.nonce # old.nonce

Init == live = NoSession /\ stop = NoStop /\ given = {}

Begin(s) == live' = s /\ stop' = NoStop /\ given' = {}

End == live' = NoSession /\ UNCHANGED <<stop, given>>

(* The first request of the session is kept.  Only an immediate request may *)
(* take the place of a delayed one.                                         *)
Ask(r) ==
  /\ live = r.session
  /\ stop = NoStop \/ Supersedes(r, stop)
  /\ stop' = r
  /\ UNCHANGED <<live, given>>

Give ==
  /\ live # NoSession /\ stop # NoStop /\ stop \notin given
  /\ given' = given \cup {stop}
  /\ UNCHANGED <<live, stop>>

(* The machine restarts. *)
Restart == live' = NoSession /\ stop' = NoStop /\ given' = {}

Next ==
  \/ \E s \in Session : Begin(s)
  \/ End \/ Give \/ Restart
  \/ \E r \in Stop : Ask(r)

Spec == Init /\ [][Next]_vars

-----------------------------------------------------------------------------
(* While a session is live, what the payload was given belongs to it, is at *)
(* most one delayed and one immediate request, and an immediate one is the  *)
(* last: call-service.h:22-25.                                              *)
GivenInOrder ==
  live # NoSession =>
    /\ stop = NoStop => given = {}
    /\ \A r \in given :
         /\ r.session = live
         /\ r = stop \/ Supersedes(stop, r)
    /\ \A r, s \in given : r.delay = 0 /\ s.delay = 0 => r = s
=============================================================================
