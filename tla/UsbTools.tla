--------------------------------- MODULE UsbTools ---------------------------------
(***************************************************************************)
(* The host tools that drive USB themselves: the rings and the session of  *)
(* tools/a16xhci.py, the frames of tools/a16ncm.py, and the packet         *)
(* transports of tools/udplink.py and tools/ethlink.py.  Each section is a *)
(* machine of its own.                                                     *)
(***************************************************************************)
EXTENDS Integers, Sequences, FiniteSets

-----------------------------------------------------------------------------
(***************************************************************************)
(* The rings of the host-side xHCI driver (tools/a16xhci.py, class XHCI):  *)
(* the driver posts TRBs with its cycle bit and polls the event ring over  *)
(* the proxy, the controller runs on its own.  A ring's last slot is a     *)
(* Link TRB that the driver rewrites each lap; the event ring has none and *)
(* wraps at its size.  id numbers the transfers of a ring in the order in  *)
(* which they were posted (a ghost: the hardware carries only addresses).  *)
(***************************************************************************)

CONSTANTS Trbs,        \* Trbs[r]: slots of ring r, its Link TRB included
          Events,      \* slots of the event ring
          MaxPosted    \* transfers posted in one session

VARIABLES ring, event, erdp, producer, poller, wait, pending, posted, done, got, late, up

xvars == <<ring, event, erdp, producer, poller, wait, pending, posted, done, got, late, up>>

Rings == DOMAIN Trbs
Link == -1
Empty == [cyc |-> 0, id |-> 0, last |-> FALSE]
NoEvent == [cyc |-> 0, ring |-> "none", addr |-> 0, id |-> 0, seq |-> 0]
Idle == [ring |-> "none", addr |-> 0, id |-> 0]

\* build_rings, address_device and endpoint_ring: zeroed, closed by a Link TRB with the first cycle.
build_rings ==
    [r \in Rings |-> [trb |-> [i \in 0 .. Trbs[r] - 1 |-> IF i = Trbs[r] - 1 THEN [cyc |-> 1, id |-> Link, last |-> FALSE]
                                                          ELSE Empty],
                      idx |-> 0, cyc |-> 1, deq |-> 0, dcs |-> 1]]

XhciInit ==
    /\ ring = build_rings
    /\ event = [i \in 0 .. Events - 1 |-> NoEvent]
    /\ erdp = 0
    /\ producer = [idx |-> 0, cyc |-> 1, seq |-> 0]
    /\ poller = [idx |-> 0, cyc |-> 1, seq |-> 0]
    /\ wait = Idle
    /\ pending = Idle
    /\ posted = [r \in Rings |-> 0]
    /\ done = [r \in Rings |-> 0]
    /\ got = [ring |-> "none", want |-> 0, id |-> 0]
    /\ late = FALSE
    /\ up = TRUE

-----------------------------------------------------------------------------
(* The driver *)

\* One TRB at the index; before the Link TRB it is rewritten with this lap's cycle and the lap ends.
Put_KeepsLink(q, trb, n) ==
    LET filled == [q EXCEPT !.trb[q.idx] = [trb EXCEPT !.cyc = q.cyc]] IN
    IF q.idx + 1 = n - 1 THEN [filled EXCEPT !.idx = 0, !.cyc = 1 - q.cyc]
    ELSE [filled EXCEPT !.idx = q.idx + 1]

Put(q, trb, n) ==
    LET filled == [q EXCEPT !.trb[q.idx] = [trb EXCEPT !.cyc = q.cyc]] IN
    IF q.idx + 1 = n - 1 THEN [filled EXCEPT !.trb[n - 1].cyc = q.cyc, !.idx = 0, !.cyc = 1 - q.cyc]
    ELSE [filled EXCEPT !.idx = q.idx + 1]

Total == posted["cmd"] + posted["ep0"] + posted["in"] + posted["out"]

\* Post on ring r and wait for the completion; the address is that of the last TRB.
Post(r, n) ==
    LET id == posted[r] + 1
        one == Put(ring[r], [cyc |-> 0, id |-> id, last |-> n = 1], Trbs[r])
        all == IF n = 1 THEN one ELSE Put(one, [cyc |-> 0, id |-> id, last |-> TRUE], Trbs[r])
        at == IF n = 1 THEN ring[r].idx ELSE one.idx
    IN  /\ up
        /\ wait = Idle
        /\ Total < MaxPosted
        /\ n * (posted[r] - done[r] + 1) < Trbs[r]     \* the small ring is overrun as little as the real one
        /\ ring' = [ring EXCEPT ![r] = all]
        /\ posted' = [posted EXCEPT ![r] = id]
        /\ wait' = [ring |-> r, addr |-> at, id |-> id]

Kept == UNCHANGED <<event, erdp, producer, poller, done, late, up, got>>

command == Post("cmd", 1) /\ Kept /\ UNCHANGED pending
control_transfer == Post("ep0", 2) /\ Kept /\ UNCHANGED pending
send == Post("out", 1) /\ Kept /\ UNCHANGED pending

\* receive keeps at most one bulk IN TRB outstanding: after a timeout it waits for the same one again.
receive_Reposts == Post("in", 1) /\ pending' = wait' /\ Kept

receive ==
    \/ /\ pending = Idle
       /\ Post("in", 1)
       /\ pending' = wait'
       /\ Kept
    \/ /\ pending # Idle
       /\ up /\ wait = Idle
       /\ wait' = pending
       /\ Kept /\ UNCHANGED <<ring, posted, pending>>

LastSlot_LinkToo == Events - 1

\* The events whose cycle bit is the poller's, and where the poller stands after them.
LastSlot == Events
Step(c) ==
    IF c.idx + 1 = LastSlot THEN [idx |-> 0, cyc |-> 1 - c.cyc, seq |-> c.seq + 1]
    ELSE [idx |-> c.idx + 1, cyc |-> c.cyc, seq |-> c.seq + 1]

Consume[n \in 0 .. Events] ==
    IF n = 0 THEN [at |-> poller, seen |-> <<>>]
    ELSE LET c == Consume[n - 1] IN
         IF event[c.at.idx].cyc # c.at.cyc \/ Len(c.seen) < n - 1 THEN c
         ELSE [at |-> Step(c.at), seen |-> Append(c.seen, event[c.at.idx])]

Matches_AnyOfRing(e) == e.ring = wait.ring \/ (wait.ring = "out" /\ e.ring = "in")

\* command, await_transfer: the event of this TRB; control_transfer: any transfer event.
Matches(e) ==
    IF wait.ring = "ep0" THEN e.ring # "cmd" ELSE e.ring = wait.ring /\ e.addr = wait.addr

poll_events ==
    /\ up
    /\ wait # Idle
    /\ event[poller.idx].cyc = poller.cyc
    /\ LET c == Consume[Events]
           hits == {i \in 1 .. Len(c.seen) : Matches(c.seen[i])}
       IN  /\ poller' = c.at
           /\ erdp' = c.at.idx
           /\ IF hits = {} THEN UNCHANGED <<wait, got, pending>>
              ELSE LET e == c.seen[CHOOSE i \in hits : \A j \in hits : i <= j] IN
                   /\ got' = [ring |-> wait.ring, want |-> wait.id, id |-> IF e.ring = wait.ring THEN e.id ELSE 0]
                   /\ wait' = Idle
                   /\ pending' = IF wait.ring = "in" THEN Idle ELSE pending
    /\ UNCHANGED <<ring, event, producer, posted, done, late, up>>

\* A deadline: a command or a bulk OUT ends the session, bulk IN is waited for again later, and the
\* callers of some control transfers go on (get_string, packet filter, release).
Timeout ==
    /\ up
    /\ wait # Idle
    /\ wait' = Idle
    /\ up' = (wait.ring \in {"in", "ep0"})
    /\ late' = (late \/ wait.ring = "ep0")
    /\ ~(late /\ wait.ring = "ep0")
    /\ UNCHANGED <<ring, event, erdp, producer, poller, pending, posted, done, got>>

-----------------------------------------------------------------------------
(* The controller *)

Full == (producer.idx + 1) % Events = erdp

\* The TRB at the dequeue pointer, or the Link TRB, which toggles the consumer's cycle.
Fetch(r) ==
    LET q == ring[r] t == q.trb[q.deq] IN
    /\ t.cyc = q.dcs
    /\ IF t.id = Link
         THEN /\ ring' = [ring EXCEPT ![r].deq = 0, ![r].dcs = 1 - q.dcs]
              /\ UNCHANGED <<event, producer, done>>
         ELSE /\ ring' = [ring EXCEPT ![r].deq = q.deq + 1]
              /\ done' = [done EXCEPT ![r] = IF t.last THEN t.id ELSE @]
              /\ IF t.last
                   THEN /\ ~Full
                        /\ event' = [event EXCEPT ![producer.idx] =
                              [cyc |-> producer.cyc, ring |-> r, addr |-> q.deq, id |-> t.id, seq |-> producer.seq]]
                        /\ producer' = [idx |-> (producer.idx + 1) % Events, seq |-> producer.seq + 1,
                                        cyc |-> IF producer.idx + 1 = Events THEN 1 - producer.cyc ELSE producer.cyc]
                   ELSE UNCHANGED <<event, producer>>
    /\ UNCHANGED <<erdp, poller, wait, pending, posted, got, late, up>>

Controller == \E r \in Rings : Fetch(r)

XhciNext ==
    \/ command \/ control_transfer \/ send \/ receive \/ poll_events \/ Timeout \/ Controller

XhciSpec == XhciInit /\ [][XhciNext]_xvars

-----------------------------------------------------------------------------

XhciTypeOK ==
    /\ erdp \in 0 .. Events - 1
    /\ producer.idx \in 0 .. Events - 1 /\ poller.idx \in 0 .. Events - 1
    /\ \A r \in Rings : ring[r].idx \in 0 .. Trbs[r] - 2 /\ ring[r].deq \in 0 .. Trbs[r] - 1
    /\ posted \in [Rings -> 0 .. MaxPosted] /\ done \in [Rings -> 0 .. MaxPosted]
    /\ late \in BOOLEAN /\ up \in BOOLEAN

\* The controller runs every posted transfer once and in order, however often the ring wraps: what it
\* fetches next is the Link TRB or the oldest transfer not run, and never a TRB of the previous lap.
ControllerInStep ==
    \A r \in Rings :
        LET t == ring[r].trb[ring[r].deq] valid == t.cyc = ring[r].dcs IN
        IF done[r] < posted[r] THEN valid /\ t.id \in {Link, done[r] + 1} ELSE valid => t.id = Link

\* The driver reads each event once and in order, across wraps: its place is that of the next event
\* the controller wrote or will write.
PollerAligned ==
    IF poller.seq = producer.seq
      THEN poller.idx = producer.idx /\ poller.cyc = producer.cyc
      ELSE event[poller.idx].seq = poller.seq /\ event[poller.idx].cyc = poller.cyc

\* What a command or a bulk transfer takes for its completion is its own; a control transfer's is too,
\* unless an earlier one timed out or a bulk IN transfer was outstanding (it accepts any transfer event).
AnswerIsOurs ==
    got.ring # "none" /\ (got.ring = "ep0" => ~late /\ posted["in"] = 0) => got.id = got.want

-----------------------------------------------------------------------------
(***************************************************************************)
(* The commands of tools/a16xhci.py on the free USB controller: init,      *)
(* bringup, enumerate, ncm, link, watch and stop.  The controller, its     *)
(* port and the attached Mac outlive each run; a run can end at any step   *)
(* because the proxy link dies, and a command of the controller can fail   *)
(* or stay unanswered.                                                     *)
(***************************************************************************)

CONSTANTS Slots,       \* slot numbers the controller hands out
          Attempts,    \* of attach
          MaxRuns      \* runs of the tool

VARIABLES ctl, port, mac, slots, run, pc, tries, runs, unwound, silent

svars == <<ctl, port, mac, slots, run, pc, tries, runs, unwound, silent>>

SessionIdle == [cmd |-> "none", slot |-> 0]
Ports == [ccs : BOOLEAN, ped : BOOLEAN, change : BOOLEAN]
Commands == {"init", "bringup", "enumerate", "ncm", "link", "watch", "stop"}
Sessions == {"ncm", "link"}

SessionInit ==
    /\ ctl = "runs"
    /\ port = [ccs |-> TRUE, ped |-> FALSE, change |-> TRUE]
    /\ mac = "default"
    /\ slots = {}
    /\ run = SessionIdle
    /\ pc = "idle"
    /\ tries = 0
    /\ runs = 0
    /\ unwound = TRUE
    /\ silent = FALSE

Ends(orderly) ==
    /\ run' = SessionIdle
    /\ pc' = "idle"
    /\ tries' = 0
    /\ unwound' = (unwound /\ orderly)
Goes(next) == pc' = next /\ UNCHANGED <<run, tries, unwound>>

SessionStep(at) == pc = at /\ UNCHANGED runs

\* XHCI(...) refuses managed ports and an active device controller, init one that is not in host mode;
\* watch asks for init when the controller is halted.
Start(c) ==
    /\ pc = "idle"
    /\ runs < MaxRuns
    /\ runs' = runs + 1
    /\ \E refused \in BOOLEAN :
          IF refused \/ (c = "watch" /\ ctl = "halted") THEN UNCHANGED <<run, pc>>
          ELSE /\ run' = [cmd |-> c, slot |-> 0]
               /\ pc' = CASE c = "watch" -> "watch" [] c = "stop" -> "halt" [] OTHER -> "stop"
    /\ UNCHANGED <<ctl, port, mac, slots, tries, unwound, silent>>

cmd_init == Start("init")
cmd_bringup == Start("bringup")
cmd_enumerate == Start("enumerate")
cmd_ncm == Start("ncm")
cmd_link == Start("link")
cmd_watch == Start("watch")
cmd_stop == Start("stop")
main == cmd_init \/ cmd_bringup \/ cmd_enumerate \/ cmd_ncm \/ cmd_link \/ cmd_watch \/ cmd_stop

\* watch only looks at the ports and the event ring.
Watch == SessionStep("watch") /\ Ends(TRUE) /\ UNCHANGED <<ctl, port, mac, slots, silent>>

-----------------------------------------------------------------------------
(* init: stop, reset, rings, start *)

stop ==
    /\ SessionStep("stop")
    /\ ctl' = "halted"
    /\ Goes("reset")
    /\ UNCHANGED <<port, mac, slots, silent>>

\* HCRST drops the slots and the port; a device that was configured is left wedged until it is replugged.
reset ==
    /\ SessionStep("reset")
    /\ ctl' = "halted"
    /\ slots' = {}
    /\ silent' = FALSE
    /\ port' = [port EXCEPT !.ped = FALSE, !.change = port.ccs]
    /\ mac' = IF mac = "configured" THEN "wedged" ELSE IF mac = "addressed" THEN "default" ELSE mac
    /\ Goes("start")

\* build_rings, then Run/Stop; init proves the rings with a no-op before it looks at the ports.
start ==
    /\ SessionStep("start")
    /\ ctl' = "runs"
    /\ IF run.cmd = "init" THEN Ends(TRUE) ELSE Goes("wait")
    /\ UNCHANGED <<port, mac, slots, silent>>

-----------------------------------------------------------------------------
(* attach: the port, then the address *)

\* The first connected port within the deadline.
WaitDevice ==
    /\ SessionStep("wait")
    /\ IF port.ccs THEN Goes("ack") ELSE Ends(TRUE)
    /\ UNCHANGED <<ctl, port, mac, slots, silent>>

portsc_ack_Raw == port' = [port EXCEPT !.change = FALSE, !.ped = FALSE]

\* A read-modify-write with the write-1-to-clear bits and PED masked out.
portsc_ack == port' = [port EXCEPT !.change = FALSE]

Ack == SessionStep("ack") /\ portsc_ack /\ Goes("resetport") /\ UNCHANGED <<ctl, mac, slots, silent>>

\* The reset enables the port of a device that answers; its change bits are acknowledged afterwards.
reset_port ==
    /\ SessionStep("resetport")
    /\ \E ok \in {(port.ccs /\ mac # "wedged"), FALSE} :
          port' = [port EXCEPT !.ped = ok, !.change = TRUE]
    /\ mac' = IF mac \in {"addressed", "configured"} THEN "default" ELSE mac
    /\ Goes("ack2")
    /\ UNCHANGED <<ctl, slots, silent>>

AckReset ==
    /\ SessionStep("ack2")
    /\ portsc_ack
    /\ Goes("check")
    /\ UNCHANGED <<ctl, mac, slots, silent>>

\* The port after the acknowledgement: bringup reports it, enumerate and attach need it enabled.
Retry == IF run.cmd \in Sessions /\ tries + 1 < Attempts
           THEN pc' = "retry" /\ tries' = tries + 1 /\ UNCHANGED <<run, unwound>>
           ELSE Ends(TRUE)

CheckPort ==
    /\ SessionStep("check")
    /\ IF run.cmd = "bringup" THEN Ends(TRUE)
       ELSE IF port.ped THEN Goes("enable") ELSE Retry
    /\ UNCHANGED <<ctl, port, mac, slots, silent>>

\* From the third attempt on the port is disabled first, so that the device sees the link drop.
Escalate ==
    /\ SessionStep("retry")
    /\ port' = [port EXCEPT !.ped = IF tries >= 2 THEN FALSE ELSE @, !.change = (@ \/ tries >= 2)]
    /\ Goes("ack")
    /\ UNCHANGED <<ctl, mac, slots, silent>>

\* Enable Slot: the controller's answer, or none.
EnableSlot ==
    /\ SessionStep("enable")
    /\ \/ \E s \in Slots \ slots :
            /\ slots' = slots \union {s}
            /\ run' = [run EXCEPT !.slot = s]
            /\ pc' = "address"
            /\ UNCHANGED <<silent, tries, unwound>>
       \/ /\ UNCHANGED <<slots, silent>> /\ Retry
       \/ \E s \in Slots \ slots :
            /\ slots' = slots \union {s}
            /\ silent' = TRUE
            /\ Retry
    /\ UNCHANGED <<ctl, port, mac>>

Refused_KeepsSlot == Retry

\* Address Device: accepted, refused (the slot is disabled before the retry), or unanswered.
Refused == pc' = "undo" /\ UNCHANGED <<run, tries, unwound>>
address_device ==
    /\ SessionStep("address")
    /\ \/ /\ mac = "default" /\ port.ped
          /\ mac' = "addressed"
          /\ IF run.cmd = "enumerate" THEN Ends(TRUE) ELSE Goes("config")
          /\ UNCHANGED silent
       \/ Refused /\ UNCHANGED <<mac, silent>>
       \/ silent' = TRUE /\ Retry /\ UNCHANGED mac
    /\ UNCHANGED <<ctl, port, slots>>

DisableAndRetry ==
    /\ SessionStep("undo")
    /\ slots' = slots \ {run.slot}
    /\ Retry
    /\ UNCHANGED <<ctl, port, mac, silent>>

-----------------------------------------------------------------------------
(* ncm and link: configure, exchange traffic, hand the device back *)

\* SET_CONFIGURATION(1), Configure Endpoint, SET_INTERFACE: a failure leaves the run with an error.
Configure ==
    /\ SessionStep("config")
    /\ \/ mac = "addressed" /\ mac' = "configured" /\ Goes("traffic")
       \/ Ends(FALSE) /\ UNCHANGED mac
    /\ UNCHANGED <<ctl, port, slots, silent>>

\* The listening and the exchange; ncm can be told to keep the device, link gives up without a peer.
Traffic ==
    /\ SessionStep("traffic")
    /\ \/ Goes("release")
       \/ Ends(FALSE)
    /\ UNCHANGED <<ctl, port, mac, slots, silent>>

release_OnlyInterface == SessionStep("release") /\ Goes("disable") /\ UNCHANGED <<ctl, port, mac, slots, silent>>

\* release: SET_INTERFACE 0 and SET_CONFIGURATION 0 (an error is only logged), then Disable Slot, then stop.
release ==
    /\ SessionStep("release")
    /\ \/ /\ mac' = IF mac = "configured" THEN "addressed" ELSE mac
          /\ UNCHANGED unwound
       \/ /\ UNCHANGED mac
          /\ unwound' = FALSE
    /\ pc' = "disable"
    /\ UNCHANGED <<ctl, port, slots, silent, run, tries>>


disable_slot ==
    /\ SessionStep("disable")
    /\ \/ slots' = slots \ {run.slot} /\ UNCHANGED silent
       \/ UNCHANGED slots /\ silent' = TRUE
    /\ Goes("halt")
    /\ UNCHANGED <<ctl, port, mac>>

Halt ==
    /\ SessionStep("halt")
    /\ ctl' = "halted"
    /\ Ends(TRUE)
    /\ UNCHANGED <<port, mac, slots, silent>>

-----------------------------------------------------------------------------
(* The world *)

LinkDies ==
    /\ pc # "idle"
    /\ Ends(mac # "configured" /\ pc # "config")
    /\ UNCHANGED <<ctl, port, mac, slots, runs, silent>>

Replug ==
    /\ port.ccs
    /\ port' = [ccs |-> FALSE, ped |-> FALSE, change |-> TRUE]
    /\ mac' = "none"
    /\ UNCHANGED <<ctl, slots, run, pc, tries, runs, unwound, silent>>

Plug ==
    /\ ~port.ccs
    /\ port' = [ccs |-> TRUE, ped |-> FALSE, change |-> TRUE]
    /\ mac' = "default"
    /\ unwound' = TRUE
    /\ UNCHANGED <<ctl, slots, run, pc, tries, runs, silent>>

SessionNext ==
    \/ main \/ Watch \/ stop \/ reset \/ start \/ WaitDevice \/ Ack \/ reset_port \/ AckReset
    \/ CheckPort \/ Escalate \/ EnableSlot \/ address_device \/ DisableAndRetry
    \/ Configure \/ Traffic \/ release \/ disable_slot \/ Halt \/ LinkDies \/ Replug \/ Plug

SessionSpec == SessionInit /\ [][SessionNext]_svars

-----------------------------------------------------------------------------

SessionTypeOK ==
    /\ ctl \in {"runs", "halted"}
    /\ port \in Ports
    /\ mac \in {"none", "default", "addressed", "configured", "wedged"}
    /\ slots \subseteq Slots
    /\ run.cmd \in Commands \union {"none"}
    /\ tries \in 0 .. Attempts - 1 /\ runs \in 0 .. MaxRuns
    /\ unwound \in BOOLEAN /\ silent \in BOOLEAN

\* The Mac is wedged only when some run since it was plugged in ended without an orderly teardown: a
\* history of runs that all end normally can be continued without a replug.
WedgedMeansAbandoned == mac = "wedged" => ~unwound

\* All slots use the one device context at the free area, so at most one is ever enabled, unless a
\* command went unanswered (attach then retries with the old slot still enabled).
OneSlotPerContext == silent \/ Cardinality(slots) <= 1

\* Acknowledging change bits never disables the port: it is disabled by a reset that fails, by the
\* escalation, or by the cable.
AcksKeepPort ==
    port.ped /\ ~port'.ped => pc \in {"reset", "resetport", "retry"} \/ ~port'.ccs

-----------------------------------------------------------------------------
(***************************************************************************)
(* The NCM transfer blocks of tools/a16xhci.py: build_ntb lays Ethernet    *)
(* frames out behind a header and writes one datagram pointer table (NDP), *)
(* parse_ntb follows the chain of tables in whatever block the Mac sent,   *)
(* and icmpv6 fills in the one's complement checksum of a message.  A      *)
(* block is its length, the index of its first table and the tables.       *)
(***************************************************************************)

CONSTANTS Lengths,     \* frame lengths in bytes
          MaxFrames,   \* frames in one block
          Words        \* 16-bit words a message is made of

VARIABLES sent, block, ntbGot, sums

nvars == <<sent, block, ntbGot, sums>>

HEADER == 12
Align(n) == ((n + 3) \div 4) * 4
NoBlock == [len |-> 0, ndp |-> 0, tables |-> <<>>]
Nothing == [frames |-> <<>>, raised |-> FALSE, visits |-> 0]

-----------------------------------------------------------------------------

Place_Packed(ds) ==
    LET at[i \in 0 .. Len(ds)] == IF i = 0 THEN HEADER ELSE at[i - 1] + ds[i]
    IN  [i \in 1 .. Len(ds) |-> Align(at[i - 1])]

\* Where each frame starts: the end of the one before it, rounded up to four.
Place(ds) ==
    LET at[i \in 0 .. Len(ds)] == IF i = 0 THEN HEADER
                                  ELSE (IF i = 1 THEN HEADER ELSE Align(at[i - 1])) + ds[i]
    IN  [i \in 1 .. Len(ds) |-> at[i] - ds[i]]

\* The tables sit behind the frames and end with the entry (0, 0).
build_ntb(ds) ==
    LET starts == Place(ds)
        last == IF ds = <<>> THEN HEADER ELSE starts[Len(ds)] + ds[Len(ds)]
        ndp == Align(last)
        size == 8 + 4 * (Len(ds) + 1)
    IN  [len |-> ndp + size, ndp |-> ndp,
         tables |-> <<[at |-> ndp, length |-> size, next |-> 0,
                       entries |-> [i \in 1 .. Len(ds) + 1 |-> IF i <= Len(ds) THEN <<starts[i], ds[i]>> ELSE <<0, 0>>]]>>]

\* The frames of one table: entries that fit the table's own length, up to the terminator, of frames that
\* fit the block.  Reading an entry past the end of the block raises.
Entry(t, i) == IF i <= Len(t.entries) THEN t.entries[i] ELSE <<0, 0>>
Entries(t, len) ==
    LET n == (t.length - 8) \div 4
        stops == {i \in 1 .. n : Entry(t, i) = <<0, 0>> \/ t.at + 8 + 4 * i > len}
        upto == IF stops = {} THEN n ELSE (CHOOSE i \in stops : \A j \in stops : i <= j) - 1
        raised == stops # {} /\ t.at + 8 + 4 * (upto + 1) > len
    IN  [raised |-> raised,
         frames |-> SelectSeq([i \in 1 .. upto |-> Entry(t, i)], LAMBDA e : e[1] + e[2] <= len)]

Table(b, at) == CHOOSE t \in {b.tables[i] : i \in DOMAIN b.tables} : t.at = at
Known(b, at) == \E i \in DOMAIN b.tables : b.tables[i].at = at

Unseen_Always(seen, at) == TRUE

\* The chain of tables, each visited once.
Unseen(seen, at) == at \notin seen
parse_ntb(b) ==
    LET walk[n \in 0 .. 4] ==
          IF n = 0 THEN [at |-> b.ndp, seen |-> {}, frames |-> <<>>, raised |-> FALSE, visits |-> 0]
          ELSE LET w == walk[n - 1] IN
               IF w.raised \/ w.at = 0 \/ w.at + 8 > b.len \/ ~Unseen(w.seen, w.at) \/ ~Known(b, w.at) THEN w
               ELSE LET t == Table(b, w.at) e == Entries(t, b.len) IN
                    [at |-> t.next, seen |-> w.seen \union {w.at}, frames |-> w.frames \o e.frames,
                     raised |-> e.raised, visits |-> w.visits + 1]
        w == walk[4]
    IN  [frames |-> IF w.raised THEN <<>> ELSE w.frames, raised |-> w.raised, visits |-> w.visits]

-----------------------------------------------------------------------------

\* The sum of 16-bit words with the carries folded back in, complemented.
Fold[n \in 0 .. 8 * 65535] == IF n > 65535 THEN Fold[(n % 65536) + (n \div 65536)] ELSE n
NtbTotal(ws) ==
    LET t[i \in 0 .. Len(ws)] == IF i = 0 THEN 0 ELSE t[i - 1] + ws[i] IN t[Len(ws)]
checksum16(ws) == 65535 - Fold[NtbTotal(ws)]

icmpv6_Stale(ws) == [ws EXCEPT ![2] = checksum16(ws)]

\* icmpv6: the message's second word is taken as zero, and becomes the checksum.
icmpv6(ws) == [ws EXCEPT ![2] = checksum16([ws EXCEPT ![2] = 0])]

-----------------------------------------------------------------------------

NtbInit == sent = <<>> /\ block = NoBlock /\ ntbGot = Nothing /\ sums = <<>>

\* send_frames: what was built is what the other side parses.
send_frames ==
    \E n \in 0 .. MaxFrames : \E ds \in [1 .. n -> Lengths] :
        /\ sent' = ds
        /\ block' = build_ntb(ds)
        /\ ntbGot' = parse_ntb(block')
        /\ UNCHANGED sums

Chains ==
    {<<[at |-> 12, length |-> l1, next |-> n1, entries |-> <<e1>>],
       [at |-> 24, length |-> l2, next |-> n2, entries |-> <<e2, <<0, 0>>>>]>> :
       l1 \in {8, 12}, l2 \in {12, 16}, n1 \in {0, 12, 24, 60}, n2 \in {0, 12, 24},
       e1 \in {<<0, 0>>, <<40, 8>>}, e2 \in {<<40, 4>>, <<44, 8>>}}

\* frames_in: any block the Mac may send.
frames_in ==
    \E c \in Chains, len \in {28, 36, 48}, ndp \in {0, 12, 24} :
        /\ sent' = <<>>
        /\ block' = [len |-> len, ndp |-> ndp, tables |-> c]
        /\ ntbGot' = parse_ntb(block')
        /\ UNCHANGED sums

Message ==
    \E ws \in [1 .. 3 -> Words] :
        /\ sums' = icmpv6(ws)
        /\ UNCHANGED <<sent, block, ntbGot>>

Fresh == sent = <<>> /\ block = NoBlock /\ sums = <<>>
NtbNext == Fresh /\ (send_frames \/ frames_in \/ Message)

NtbSpec == NtbInit /\ [][NtbNext]_nvars

-----------------------------------------------------------------------------

NtbTypeOK ==
    /\ block.len \in 0 .. 200 /\ block.ndp \in 0 .. 200
    /\ ntbGot.raised \in BOOLEAN /\ ntbGot.visits \in 0 .. 4
    /\ \A i \in DOMAIN sums : sums[i] \in 0 .. 65535

\* What build_ntb lays out parses back as the frames that were sent, at aligned places that neither
\* overlap each other nor the table.
RoundTrip ==
    LET f == ntbGot.frames IN
    sent # <<>> =>
        /\ ~ntbGot.raised
        /\ [i \in DOMAIN f |-> f[i][2]] = sent
        /\ \A i \in DOMAIN f : f[i][1] % 4 = 0 /\ f[i][1] >= HEADER /\ f[i][1] + f[i][2] <= block.ndp
        /\ \A i, j \in DOMAIN f : i < j => f[i][1] + f[i][2] <= f[j][1]

\* Whatever block arrives, the walk visits each table at most once and every frame it returns lies
\* inside the block.
WalkEnds ==
    /\ ntbGot.visits <= Len(block.tables)
    /\ \A i \in DOMAIN ntbGot.frames : ntbGot.frames[i][1] + ntbGot.frames[i][2] <= block.len

\* A receiver that sums a finished message, checksum included, gets all ones.
ChecksumVerifies == sums # <<>> => Fold[NtbTotal(sums)] = 65535

-----------------------------------------------------------------------------
(***************************************************************************)
(* The byte pipes under the proxy link: udplink.UdpTransport (datagrams to *)
(* one link-local peer), ethlink.EthTransport (raw frames, padded to the   *)
(* Ethernet minimum).  Bytes are numbered  *)
(* in the order in which the target sent them; -1 is a byte of some other  *)
(* sender and 0 is frame padding.                                          *)
(***************************************************************************)

CONSTANTS Kind,       \* "udp" or "eth"
          Chunk,      \* bytes of one datagram or frame (1400)
          MinFrame,   \* payload bytes of the smallest frame
          Request,    \* bytes the host writes
          Limit,      \* bytes the receive buffer may hold
          PipeMaxFrames   \* frames the target and others send

VARIABLES wire, buffer, written, view, told, lost, frames, pipeUp

uvars == <<wire, buffer, written, view, told, lost, frames, pipeUp>>

Other == -1
Pad == 0
SeqMin(s, t) == IF s < t THEN s ELSE t

PipeInit ==
    /\ wire = <<>>           \* frames on their way to the host, with their sender
    /\ buffer = <<>>
    /\ written = <<>>        \* what left through the socket
    /\ view = <<>>           \* what write has still to send
    /\ told = 0              \* bytes the target sent so far
    /\ lost = 0
    /\ frames = 0
    /\ pipeUp = TRUE

-----------------------------------------------------------------------------
(* Writing *)

write ==
    /\ view = <<>> /\ written = <<>>
    /\ view' = [i \in 1 .. Request |-> i]
    /\ UNCHANGED <<wire, buffer, written, told, lost, frames, pipeUp>>

\* One datagram; a full interface queue (ENOBUFS) repeats the same chunk.
Sent == view' = SubSeq(view, SeqMin(Chunk, Len(view)) + 1, Len(view))
Busy_Skips == view' = SubSeq(view, SeqMin(Chunk, Len(view)) + 1, Len(view))

Busy == UNCHANGED view

sendto ==
    /\ view # <<>>
    /\ \/ /\ Sent
          /\ written' = written \o SubSeq(view, 1, SeqMin(Chunk, Len(view)))
       \/ /\ Kind = "udp"
          /\ Busy
          /\ UNCHANGED written
    /\ UNCHANGED <<wire, buffer, told, lost, frames, pipeUp>>

-----------------------------------------------------------------------------
(* The link *)

\* The target's frame of n bytes; a raw frame below the minimum is padded.
Target(n) ==
    /\ frames < PipeMaxFrames
    /\ frames' = frames + 1
    /\ told' = told + n
    /\ LET bytes == [i \in 1 .. n |-> told + i]
           pad == IF Kind = "eth" /\ n < MinFrame THEN [i \in 1 .. MinFrame - n |-> Pad] ELSE <<>>
       IN  wire' = Append(wire, [peer |-> TRUE, data |-> bytes \o pad])
    /\ UNCHANGED <<buffer, written, view, lost, pipeUp>>

Stranger ==
    /\ frames < PipeMaxFrames
    /\ frames' = frames + 1
    /\ wire' = Append(wire, [peer |-> FALSE, data |-> <<Other>>])
    /\ UNCHANGED <<buffer, written, view, told, lost, pipeUp>>

Loses ==
    /\ wire # <<>> /\ Kind = "udp"
    /\ lost' = lost + 1
    /\ wire' = SubSeq(wire, 2, Len(wire))
    /\ UNCHANGED <<buffer, written, view, told, frames, pipeUp>>

Ours_AnyPort(f) == TRUE

\* Everything the socket holds: frames of the peer (its address and port, or the ethertype) are appended
\* whole, and too many buffered bytes raise.
Ours(f) == f.peer
Accepted[n \in 0 .. PipeMaxFrames] ==
    IF n = 0 THEN <<>>
    ELSE IF n > Len(wire) THEN Accepted[n - 1]
    ELSE Accepted[n - 1] \o IF Ours(wire[n]) THEN wire[n].data ELSE <<>>
harvest ==
    /\ wire # <<>> /\ pipeUp
    /\ wire' = <<>>
    /\ LET all == buffer \o Accepted[PipeMaxFrames] IN
       IF Len(all) > Limit THEN pipeUp' = FALSE /\ UNCHANGED buffer ELSE buffer' = all /\ UNCHANGED pipeUp
    /\ UNCHANGED <<written, view, told, lost, frames>>

\* read(count) leaves what it did not ask for in the buffer.
read ==
    /\ pipeUp
    /\ \E n \in 1 .. Len(buffer) : buffer' = SubSeq(buffer, n + 1, Len(buffer))
    /\ UNCHANGED <<wire, written, view, told, lost, frames, pipeUp>>

PipeNext ==
    \/ write \/ sendto \/ (\E n \in 1 .. Chunk : Target(n)) \/ Stranger \/ Loses \/ harvest \/ read

PipeSpec == PipeInit /\ [][PipeNext]_uvars

-----------------------------------------------------------------------------

PipeTypeOK ==
    /\ Len(written) \in 0 .. Request /\ Len(view) \in 0 .. Request
    /\ told \in 0 .. PipeMaxFrames * Chunk /\ lost \in 0 .. PipeMaxFrames /\ frames \in 0 .. PipeMaxFrames
    /\ pipeUp \in BOOLEAN

\* However often the interface queue is full, what left so far and what is still to go are the request:
\* every byte once and in order.
WritesWhole == view # <<>> \/ written # <<>> => written \o view = [i \in 1 .. Request |-> i]

\* The buffer holds only the peer's bytes, in the order in which it sent them.
OnlyPeer ==
    LET real == SelectSeq(buffer, LAMBDA b : b # Pad) IN
    /\ \A i \in DOMAIN buffer : buffer[i] # Other
    /\ \A i \in 1 .. Len(real) - 1 : real[i] < real[i + 1]

\* Without loss nothing in the middle of the stream is missing (padding apart).
NoGaps ==
    LET real == SelectSeq(buffer, LAMBDA b : b # Pad) IN
    lost = 0 /\ real # <<>> =>
        /\ \A i \in 1 .. Len(real) - 1 : real[i + 1] = real[i] + 1
        /\ (pipeUp /\ wire = <<>> => real[Len(real)] = told)
=============================================================================
