------------------------------ MODULE UsbPorts ------------------------------
(***************************************************************************)
(* Per-controller USB role discovery (platform/uefi/usb-ports.c), with the *)
(* two DMA engines behind every port, the EL2 timer tick that interrupts   *)
(* the polled loop, the request pinning of the io callbacks, and the       *)
(* hand-over of the ports to a chainloaded stage (main.c, gicv3.c).        *)
(*                                                                         *)
(* Time is a state per timer: "off", "armed", or "due" once its interval   *)
(* has passed.  An armed timer may fall due at any moment, which covers    *)
(* every value of the dwell, debounce and back-off intervals.              *)
(***************************************************************************)
EXTENDS Integers

CONSTANTS
  NPorts,    \* Q1N1_USB_PORTS
  Absent,    \* ports whose controller does not identify itself to snapshot()
  Peers,     \* what may be plugged in
  Happens    \* what the instance's outside world does, a subset of Events

Ports == 0 .. NPorts - 1

ASSUME PortsAssumption == NPorts \in Nat \ {0} /\ Absent \subseteq Ports

(* "fault": engines refuse to halt, starts and enumerations fail; "cable" and *)
(* "link": cables and link states change; "refresh", "chainload" and "reset": *)
(* the host asks for them.                                                    *)
Events == {"fault", "cable", "link", "refresh", "chainload", "reset"}

ASSUME WorldAssumption == Peers \subseteq {"host", "gadget"} /\ Happens \subseteq Events

Faults == "fault" \in Happens

Role == {"OFF", "HOST", "DEVICE", "UNSUPPORTED"}
Direction == {"HOST", "DEVICE"}
Engine == {"halted", "running", "stuck"}   \* anything but halted may do DMA
Timers == {"retry", "dwell", "total", "down", "suspend"}
TimerState == {"off", "armed", "due"}

VARIABLES
  peer,        \* what the cable leads to: nothing, a USB host, an NCM gadget
  link,        \* DSTS.USBLNKST as the code tells its values apart
  portsc,      \* PORTSC.CCS and PED of the port the NCM function was found on
  xhci,        \* host engine: halted (USBSTS.HCH), running, or stuck: told to halt
  dev,         \* device engine, likewise (DCTL.RUN_STOP, DSTS.DEVCTRLHLT)
  gctl,        \* GCTL.PRTCAPDIR
  role,        \* status[i].role
  connected,   \* status[i].connected
  nextRole,    \* port[i].next_role
  timer,       \* retry_at, deadline, started, down_since, suspended_since
  configured,  \* device.stats.configured
  activity,    \* setups + resets differ from port[i].activity
  ncm,         \* ncm.x /\ ncm.stats.init_step = 9
  opened,      \* device.pipe[0].ready (DTR), or proxy.have_peer on a host port
  selected,    \* the port that owns the current request, or -1
  busy,        \* the single-owner flag of struct q1n1_usb_ports
  pc, cur,     \* where the polled loop is: "loop", "service" or "maintain" of cur
  quiet,       \* TRAFFIC_QUIET_US have passed since last_traffic_us
  stage,       \* "running"; "chainload" from handoff to the next init; "reset"
  gicReady,    \* gic.ready
  irq          \* the timer is programmed and IRQs are unmasked

wires == <<peer, link, portsc>>
engines == <<xhci, dev, gctl>>
discovery == <<role, connected, nextRole, timer>>
function == <<configured, activity, ncm, opened>>
loop == <<busy, pc, cur>>
system == <<stage, gicReady, irq>>
vars == <<wires, engines, discovery, function, selected, loop, quiet, system>>

PortTypes ==
  /\ peer \in [Ports -> {"none", "host", "gadget"}]
  /\ link \in [Ports -> {"up", "suspend", "down"}]
  /\ portsc \in [Ports -> BOOLEAN]
  /\ xhci \in [Ports -> Engine]
  /\ dev \in [Ports -> Engine]
  /\ gctl \in [Ports -> Direction]
  /\ role \in [Ports -> Role]
  /\ connected \in [Ports -> BOOLEAN]
  /\ nextRole \in [Ports -> Direction]
  /\ timer \in [Ports -> [Timers -> TimerState]]
  /\ configured \in [Ports -> BOOLEAN]
  /\ activity \in [Ports -> BOOLEAN]
  /\ ncm \in [Ports -> BOOLEAN]
  /\ opened \in [Ports -> BOOLEAN]

LoopTypes ==
  /\ selected \in Ports \cup {-1}
  /\ busy \in BOOLEAN
  /\ pc \in {"loop", "service", "maintain"}
  /\ cur \in Ports
  /\ quiet \in BOOLEAN
  /\ stage \in {"running", "chainload", "reset"}
  /\ gicReady \in BOOLEAN
  /\ irq \in BOOLEAN

(* The types of the state, of each port and of the loop that serves them. *)
TypeOK == PortTypes /\ LoopTypes

-----------------------------------------------------------------------------
(* Predicates the code computes from its state and the registers. *)

host_present(i) == ncm[i] /\ portsc[i]

port_ready(i) ==
  /\ opened[i]
  /\ \/ role[i] = "DEVICE" /\ link[i] # "down"
     \/ role[i] = "HOST" /\ host_present(i)

other_port_busy(i) == ~quiet /\ \E k \in Ports \ {i} : connected[k]

Other_Increments(r) == IF r = "HOST" THEN "DEVICE" ELSE "UNSUPPORTED"

Other(r) == IF r = "HOST" THEN "DEVICE" ELSE "HOST"

-----------------------------------------------------------------------------
(* stop_port on the ports of S: those of ok halt, the others time out.  An  *)
(* engine that is already halted always stops, and an OFF or UNSUPPORTED    *)
(* port has no engine of its own to stop.                                   *)
EngineOf(i, r) == IF r = "HOST" THEN xhci[i] ELSE dev[i]

StopEngines(S, ok) ==
  LET after(i) == IF i \in ok THEN "halted" ELSE "stuck"
  IN  /\ \A i \in S \ ok :
           Faults /\ role[i] \in Direction /\ EngineOf(i, role[i]) # "halted"
      /\ xhci' = [i \in Ports |->
                    IF i \in S /\ role[i] = "HOST" THEN after(i) ELSE xhci[i]]
      /\ dev' = [i \in Ports |->
                    IF i \in S /\ role[i] = "DEVICE" THEN after(i) ELSE dev[i]]
      /\ UNCHANGED gctl

Stopped(t, retry) ==
  [t EXCEPT !.down = "off", !.suspend = "off", !.retry = retry]

(* retry_at on return: backed off or cleared by the caller, or left alone. *)
RetryIs(state) == [i \in Ports |-> state]
RetryKept == [i \in Ports |-> timer[i].retry]

(* What a successful stop_port leaves behind on the ports of S. *)
Release(S, retry) ==
  /\ role' = [i \in Ports |-> IF i \in S THEN "OFF" ELSE role[i]]
  /\ connected' = [i \in Ports |-> connected[i] /\ i \notin S]
  /\ timer' = [i \in Ports |-> IF i \in S THEN Stopped(timer[i], retry[i]) ELSE timer[i]]
  /\ ncm' = [i \in Ports |-> ncm[i] /\ i \notin S]
  /\ opened' = [i \in Ports |-> opened[i] /\ i \notin S]
  /\ UNCHANGED <<configured, activity>>

Failed_ReusesDma(i) ==
  \E ok \in SUBSET {i} :
    StopEngines({i}, ok) /\ Release({i}, RetryIs("armed")) /\ UNCHANGED nextRole

Failed_AlwaysGivesUp(i) ==
  /\ \E ok \in SUBSET {i} : StopEngines({i}, ok)
  /\ role' = [role EXCEPT ![i] = "UNSUPPORTED"]
  /\ connected' = [connected EXCEPT ![i] = FALSE]
  /\ UNCHANGED <<nextRole, timer, function>>

(* failed(): stop the engine of the attempt and back off, or give the port  *)
(* up.  Its callers have already recomputed connected as 0.                 *)
Failed(i) ==
  \/ StopEngines({i}, {i}) /\ Release({i}, RetryIs("armed")) /\ UNCHANGED nextRole
  \/ /\ StopEngines({i}, {})
     /\ role' = [role EXCEPT ![i] = "UNSUPPORTED"]
     /\ connected' = [connected EXCEPT ![i] = FALSE]
     /\ UNCHANGED <<nextRole, timer, function>>

GiveUp_IgnoresStop(i, next) ==
  /\ \E ok \in SUBSET {i} : StopEngines({i}, ok)
  /\ Release({i}, RetryIs("armed"))
  /\ nextRole' = [nextRole EXCEPT ![i] = next]

(* The tail of maintain_port's give-up branches: a stop_port that times out *)
(* is tried once more by failed().                                          *)
GiveUp(i, next) ==
  \/ /\ StopEngines({i}, {i})
     /\ Release({i}, RetryIs("armed"))
     /\ nextRole' = [nextRole EXCEPT ![i] = next]
  \/ Faults /\ EngineOf(i, role[i]) # "halted" /\ Failed(i)

-----------------------------------------------------------------------------
(* start_port, from maintain_port on an OFF port. *)

Started(t) == [t EXCEPT !.dwell = "armed", !.total = "armed", !.down = "off"]

(* Results -10 and -11: the host engine does not halt, or the device engine *)
(* still runs.  The role is still OFF, so failed() only arms the back-off.  *)
StartRefused(i, r) ==
  /\ \/ Faults /\ xhci[i] # "halted"
     \/ r = "HOST" /\ dev[i] = "running"
  /\ xhci' = [xhci EXCEPT ![i] = IF @ = "halted" THEN @ ELSE "stuck"]
  /\ Release({i}, RetryIs("armed"))
  /\ UNCHANGED <<dev, gctl, wires>>

(* xhci_init and qdwc3_takeover reset their engine and forget what it had   *)
(* learned of the bus.                                                      *)
Forget(i, r) ==
  /\ gctl' = [gctl EXCEPT ![i] = r]
  /\ portsc' = [portsc EXCEPT ![i] = @ /\ r # "HOST"]
  /\ configured' = [configured EXCEPT ![i] = @ /\ r # "DEVICE"]
  /\ opened' = [opened EXCEPT ![i] = FALSE]
  /\ activity' = [activity EXCEPT ![i] = FALSE]
  /\ UNCHANGED <<peer, link, ncm>>

Engines_HostLeftRunning(i, r, state) ==
  /\ ~(r = "HOST" /\ dev[i] = "running")
  /\ xhci' = [xhci EXCEPT ![i] = IF r = "HOST" THEN state ELSE @]
  /\ dev' = [dev EXCEPT ![i] = IF r = "DEVICE" THEN state ELSE @]

Engines(i, r, state) ==
  /\ ~(r = "HOST" /\ dev[i] = "running")
  /\ xhci' = [xhci EXCEPT ![i] = IF r = "HOST" THEN state ELSE "halted"]
  /\ dev' = [dev EXCEPT ![i] = IF r = "DEVICE" THEN state ELSE @]

StartRuns(i, r) ==
  /\ Engines(i, r, "running")
  /\ Forget(i, r)
  /\ role' = [role EXCEPT ![i] = r]
  /\ timer' = [timer EXCEPT ![i] = Started(@)]
  /\ UNCHANGED connected

(* The engine's initialisation fails; failed() halts it, or cannot. *)
StartFails(i, r) ==
  /\ Faults
  /\ Forget(i, r)
  /\ \/ /\ Engines(i, r, "halted")
        /\ role' = role
        /\ timer' = [timer EXCEPT ![i] = Stopped(Started(@), "armed")]
     \/ /\ Engines(i, r, "stuck")
        /\ role' = [role EXCEPT ![i] = "UNSUPPORTED"]
        /\ timer' = [timer EXCEPT ![i] = Started(@)]
  /\ UNCHANGED connected

StartPort(i) ==
  /\ role[i] = "OFF"
  /\ timer[i].retry # "armed"
  /\ nextRole' = [nextRole EXCEPT ![i] = Other(@)]
  /\ \/ StartRefused(i, nextRole[i])
     \/ StartRuns(i, nextRole[i])
     \/ StartFails(i, nextRole[i])

-----------------------------------------------------------------------------
(* maintain_port: one action per branch, for the port the poll is at. *)

Suspended(i) == link[i] = "suspend" /\ configured[i]
Down(i) == link[i] = "down" \/ (Suspended(i) /\ timer[i].suspend = "due")

ArmOnce(state) == IF state = "off" THEN "armed" ELSE state

(* suspended_since, as recomputed on every pass over a DEVICE port. *)
SuspendTimer(i) == IF Suspended(i) THEN ArmOnce(timer[i].suspend) ELSE "off"

Skip(i) == UNCHANGED <<wires, engines, discovery, function>>

(* Nothing to do: the port is given up, or it waits for another's traffic,  *)
(* or for its back-off.                                                     *)
Wait(i) ==
  /\ \/ role[i] = "UNSUPPORTED"
     \/ ~connected[i] /\ other_port_busy(i)
     \/ role[i] = "OFF" /\ timer[i].retry = "armed"
  /\ Skip(i)

Proceeds_Always(i) == TRUE

Proceeds(i) == connected[i] \/ ~other_port_busy(i)

DeviceUp(i) ==
  /\ role[i] = "DEVICE"
  /\ configured[i] /\ ~Down(i)
  /\ connected' = [connected EXCEPT ![i] = TRUE]
  /\ timer' = [timer EXCEPT ![i].suspend = SuspendTimer(i), ![i].down = "off"]
  /\ UNCHANGED <<wires, engines, role, nextRole, function>>

DeviceDown(i) ==
  /\ role[i] = "DEVICE"
  /\ configured[i] /\ Down(i)
  /\ timer[i].down # "due"
  /\ connected' = [connected EXCEPT ![i] = FALSE]
  /\ timer' = [timer EXCEPT ![i].suspend = SuspendTimer(i), ![i].down = ArmOnce(@)]
  /\ UNCHANGED <<wires, engines, role, nextRole, function>>

(* Setup or reset activity earns an unconfigured port a longer deadline,    *)
(* bounded by the total time since the attempt started.                     *)
DwellState(i) == IF activity[i] THEN "armed" ELSE timer[i].dwell
Enumerating_Unbounded(i) == DwellState(i) # "due"

Enumerating(i) == DwellState(i) # "due" /\ timer[i].total # "due"

DeviceEnumerating(i) ==
  /\ role[i] = "DEVICE"
  /\ ~configured[i] /\ Enumerating(i)
  /\ connected' = [connected EXCEPT ![i] = FALSE]
  /\ timer' = [timer EXCEPT ![i].suspend = SuspendTimer(i), ![i].dwell = DwellState(i)]
  /\ activity' = [activity EXCEPT ![i] = FALSE]
  /\ UNCHANGED <<wires, engines, role, nextRole, configured, ncm, opened>>

DeviceGivesUp(i) ==
  /\ role[i] = "DEVICE"
  /\ IF configured[i] THEN Down(i) /\ timer[i].down = "due" ELSE ~Enumerating(i)
  /\ GiveUp(i, "HOST")
  /\ UNCHANGED wires

HostUp(i) ==
  /\ role[i] = "HOST"
  /\ ncm[i] /\ host_present(i)
  /\ connected' = [connected EXCEPT ![i] = TRUE]
  /\ timer' = [timer EXCEPT ![i].down = "off"]
  /\ UNCHANGED <<wires, engines, role, nextRole, function>>

HostDown(i) ==
  /\ role[i] = "HOST"
  /\ ncm[i] /\ ~host_present(i)
  /\ timer[i].down # "due"
  /\ connected' = [connected EXCEPT ![i] = FALSE]
  /\ timer' = [timer EXCEPT ![i].down = ArmOnce(@)]
  /\ UNCHANGED <<wires, engines, role, nextRole, function>>

HostGivesUp_RetriesHost(i) ==
  /\ role[i] = "HOST"
  /\ IF ncm[i]
     THEN ~host_present(i) /\ timer[i].down = "due" /\ GiveUp(i, "HOST")
     ELSE peer[i] # "gadget" /\ timer[i].dwell = "due" /\ GiveUp(i, "HOST")
  /\ UNCHANGED wires

HostGivesUp(i) ==
  /\ role[i] = "HOST"
  /\ IF ncm[i]
     THEN ~host_present(i) /\ timer[i].down = "due" /\ GiveUp(i, "HOST")
     ELSE peer[i] # "gadget" /\ timer[i].dwell = "due" /\ GiveUp(i, "DEVICE")
  /\ UNCHANGED wires

(* A host port without a function scans its root ports for a device. *)
HostScans(i) ==
  /\ role[i] = "HOST"
  /\ ~ncm[i] /\ peer[i] # "gadget" /\ timer[i].dwell # "due"
  /\ Skip(i)

NcmOpens(i) ==
  /\ role[i] = "HOST" /\ xhci[i] = "running"
  /\ ~ncm[i] /\ peer[i] = "gadget"
  /\ portsc' = [portsc EXCEPT ![i] = TRUE]
  /\ ncm' = [ncm EXCEPT ![i] = TRUE]
  /\ opened' = [opened EXCEPT ![i] = FALSE]
  /\ connected' = [connected EXCEPT ![i] = TRUE]
  /\ UNCHANGED <<peer, link, engines, role, nextRole, timer, configured, activity>>

NcmOpenFails(i) ==
  /\ role[i] = "HOST" /\ (Faults \/ xhci[i] # "running")
  /\ ~ncm[i] /\ peer[i] = "gadget"
  /\ Failed(i)
  /\ UNCHANGED wires

maintain_port(i) ==
  \/ Wait(i)
  \/ /\ Proceeds(i)
     /\ \/ StartPort(i)
        \/ DeviceUp(i) \/ DeviceDown(i) \/ DeviceEnumerating(i) \/ DeviceGivesUp(i)
        \/ HostUp(i) \/ HostDown(i) \/ HostScans(i) \/ HostGivesUp(i)
        \/ NcmOpens(i) \/ NcmOpenFails(i)

-----------------------------------------------------------------------------
(* service_port: the device events or datagrams one pass finds waiting. *)

DeviceEvent(i, isConfigured, isOpen, active) ==
  /\ configured' = [configured EXCEPT ![i] = isConfigured]
  /\ opened' = [opened EXCEPT ![i] = isOpen]
  /\ activity' = [activity EXCEPT ![i] = @ \/ active]
  /\ UNCHANGED ncm

DeviceRuns(i) == role[i] = "DEVICE" /\ dev[i] = "running"
Enumerates(i) == DeviceRuns(i) /\ peer[i] = "host"

(* A bus reset, or SET_CONFIGURATION 0. *)
UsbReset(i) == Enumerates(i) /\ DeviceEvent(i, FALSE, FALSE, TRUE)
SetConfiguration(i) == Enumerates(i) /\ DeviceEvent(i, TRUE, opened[i], TRUE)
OtherSetup(i) == Enumerates(i) /\ DeviceEvent(i, configured[i], opened[i], TRUE)
SetLineState(i) ==
  /\ Enumerates(i) /\ configured[i]
  /\ DeviceEvent(i, TRUE, ~opened[i], TRUE)
Disconnect(i) ==
  /\ DeviceRuns(i) /\ peer[i] # "host"
  /\ DeviceEvent(i, FALSE, FALSE, FALSE)

(* A proxy datagram on a live NCM link teaches the port its peer. *)
LearnPeer(i) ==
  /\ role[i] = "HOST" /\ host_present(i)
  /\ opened' = [opened EXCEPT ![i] = TRUE]
  /\ UNCHANGED <<configured, activity, ncm>>

service_port(i) ==
  /\ \/ UsbReset(i) \/ SetConfiguration(i) \/ OtherSetup(i)
     \/ SetLineState(i) \/ Disconnect(i)
     \/ LearnPeer(i)
     \/ UNCHANGED function
  /\ UNCHANGED <<wires, engines, discovery>>

-----------------------------------------------------------------------------
(* q1n1_usb_ports_poll: every port serviced, then maintained, with the flag *)
(* held throughout.                                                         *)

Idle == pc = "loop" /\ stage = "running"

PollBegins ==
  /\ Idle /\ ~busy
  /\ busy' = TRUE /\ pc' = "service" /\ cur' = 0
  /\ UNCHANGED <<wires, engines, discovery, function, selected, quiet, system>>

PollServices(i) ==
  /\ pc = "service" /\ cur = i
  /\ service_port(i)
  /\ pc' = "maintain"
  /\ UNCHANGED <<busy, cur, selected, quiet, system>>

PollMaintains(i) ==
  /\ pc = "maintain" /\ cur = i
  /\ maintain_port(i)
  /\ IF i + 1 \in Ports
     THEN pc' = "service" /\ cur' = i + 1 /\ busy' = busy
     ELSE pc' = "loop" /\ cur' = 0 /\ busy' = FALSE
  /\ UNCHANGED <<selected, quiet, system>>

Tick_IgnoresBusy(i) ==
  /\ irq
  /\ service_port(i)
  /\ UNCHANGED <<selected, loop, quiet, system>>

(* The EL2 timer interrupt (q1n1_exception, q1n1_usb_ports_tick) at any     *)
(* point of the polled loop.  It runs to completion before the loop goes on *)
(* and a port without events is left as it was, so a tick that finds events *)
(* on several ports is several of these steps in a row.                     *)
Tick(i) ==
  /\ irq /\ ~busy
  /\ service_port(i)
  /\ UNCHANGED <<selected, loop, quiet, system>>

(* The io callbacks: a read pins the request to the port it came from. *)
io_read(i) ==
  /\ Idle /\ ~busy
  /\ selected \in {-1, i} /\ port_ready(i)
  /\ selected' = i
  /\ quiet' = FALSE
  /\ UNCHANGED <<wires, engines, discovery, function, loop, system>>

io_write(i) ==
  /\ Idle /\ ~busy
  /\ selected \in {-1, i} /\ port_ready(i)
  /\ quiet' = FALSE
  /\ UNCHANGED <<wires, engines, discovery, function, selected, loop, system>>

io_end ==
  /\ Idle
  /\ selected' = -1
  /\ UNCHANGED <<wires, engines, discovery, function, loop, quiet, system>>

Refreshed_IgnoresConnected == {i \in Ports : selected # i /\ role[i] # "UNSUPPORTED"}

(* q1n1_usb_ports_refresh, called by a request of the selected port, stops  *)
(* every idle port in order, until one does not halt (port f; NPorts when   *)
(* all of them do).                                                         *)
Refreshed == {i \in Ports : selected # i /\ ~connected[i] /\ role[i] # "UNSUPPORTED"}

refresh(f) ==
  /\ Idle /\ ~busy
  /\ "refresh" \in Happens /\ selected # -1
  /\ f \in Refreshed \cup {NPorts}
  /\ LET ok == {i \in Refreshed : i < f}
     IN  /\ StopEngines(ok \cup (Refreshed \cap {f}), ok)
         /\ Release(ok, RetryIs("off"))
  /\ UNCHANGED <<wires, nextRole, selected, loop, quiet, system>>

-----------------------------------------------------------------------------
(* Chainloading: proxy_main stops the tick, then hands the ports over.  A   *)
(* device engine that does not halt refuses the hand-over, and the tick is  *)
(* restarted if the GIC is still ready.                                     *)
gic_stop == gicReady' = FALSE
gic_start(ready) == irq' = ready

handoff(ok) ==
  /\ Idle
  /\ "chainload" \in Happens
  /\ LET S == {i \in Ports : role[i] = "DEVICE"}
     IN  /\ ok \subseteq S
         /\ StopEngines(S, ok)
         /\ Release(ok, RetryKept)
         /\ stage' = IF ok = S THEN "chainload" ELSE "running"
         /\ gic_stop
         /\ IF ok = S THEN irq' = FALSE ELSE gic_start(gicReady')
  /\ selected' = -1
  /\ UNCHANGED <<wires, nextRole, loop, quiet>>

(* reset_now: q1n1_usb_ports_stop stops what it can before the machine      *)
(* restarts.                                                                *)
stop(ok) ==
  /\ Idle
  /\ "reset" \in Happens
  /\ StopEngines(Ports, ok)
  /\ Release(ok, RetryKept)
  /\ gic_stop
  /\ irq' = FALSE
  /\ stage' = "reset"
  /\ UNCHANGED <<wires, nextRole, selected, loop, quiet>>

Kept_WrongDirection(i) ==
  role[i] = "HOST" /\ host_present(i) /\ gctl[i] = "DEVICE" /\ xhci[i] # "halted"

(* q1n1_usb_ports_init in the new stage.  valid: the shared record has this *)
(* build's magic, version and size.  A live NCM link is kept; every other   *)
(* port is stopped (F: those that do not halt) and cleared.                 *)
Kept(i) == role[i] = "HOST" /\ host_present(i) /\ gctl[i] = "HOST" /\ xhci[i] # "halted"

Cleared == [t \in Timers |-> "off"]

init(valid, F) ==
  LET keep == {i \in Ports : valid /\ Kept(i)}
      halt == {i \in Ports \ keep : valid /\ role[i] # "UNSUPPORTED"}
      zero == Ports \ (keep \cup F)
  IN  /\ stage = "chainload"
      /\ F \subseteq halt
      /\ StopEngines(halt, halt \ F)
      /\ role' = [i \in Ports |-> IF i \in keep THEN "HOST"
                                  ELSE IF i \in F \cup Absent THEN "UNSUPPORTED" ELSE "OFF"]
      /\ connected' = [i \in Ports |-> connected[i] /\ i \notin zero]
      /\ nextRole' = [i \in Ports |-> IF i \in zero THEN gctl[i] ELSE nextRole[i]]
      /\ timer' = [i \in Ports |-> IF i \in zero THEN Cleared ELSE timer[i]]
      /\ configured' = [i \in Ports |-> configured[i] /\ i \notin zero]
      /\ activity' = [i \in Ports |-> activity[i] /\ i \notin zero]
      /\ ncm' = [i \in Ports |-> ncm[i] /\ i \notin zero]
      /\ opened' = [i \in Ports |-> opened[i] /\ i \notin zero]
      /\ selected' = -1 /\ busy' = FALSE /\ pc' = "loop" /\ cur' = 0
      /\ quiet' = TRUE
      /\ stage' = "running" /\ gicReady' = TRUE /\ irq' = TRUE
      /\ UNCHANGED wires

-----------------------------------------------------------------------------
(* The outside world: cables, link states, engines that halt late, time. *)

environment == <<engines, discovery, function, selected, loop, quiet, system>>

Plug(i, p) ==
  /\ "cable" \in Happens
  /\ peer[i] = "none"
  /\ peer' = [peer EXCEPT ![i] = p]
  /\ UNCHANGED <<link, portsc, environment>>

(* The session-valid override can leave a removed cable looking suspended. *)
Unplug(i, l) ==
  /\ "cable" \in Happens
  /\ peer[i] # "none"
  /\ peer' = [peer EXCEPT ![i] = "none"]
  /\ link' = [link EXCEPT ![i] = l]
  /\ portsc' = [portsc EXCEPT ![i] = FALSE]
  /\ UNCHANGED environment

LinkMoves(i, l) ==
  /\ "link" \in Happens
  /\ link[i] # l
  /\ l = "up" => peer[i] = "host"
  /\ link' = [link EXCEPT ![i] = l]
  /\ UNCHANGED <<peer, portsc, environment>>

HaltsLate(i) ==
  /\ xhci[i] = "stuck" \/ dev[i] = "stuck"
  /\ xhci' = [xhci EXCEPT ![i] = IF @ = "stuck" THEN "halted" ELSE @]
  /\ dev' = [dev EXCEPT ![i] = IF @ = "stuck" THEN "halted" ELSE @]
  /\ UNCHANGED <<wires, gctl, discovery, function, selected, loop, quiet, system>>

FallsDue(i, t) ==
  /\ timer[i][t] = "armed"
  /\ timer' = [timer EXCEPT ![i][t] = "due"]
  /\ UNCHANGED <<wires, engines, role, connected, nextRole, function, selected,
                 loop, quiet, system>>

TrafficPauses ==
  /\ ~quiet
  /\ quiet' = TRUE
  /\ UNCHANGED <<wires, engines, discovery, function, selected, loop, system>>

-----------------------------------------------------------------------------
Init ==
  /\ peer \in [Ports -> Peers \cup {"none"}]
  /\ link = [i \in Ports |-> IF peer[i] = "host" THEN "up" ELSE "down"]
  /\ portsc = [i \in Ports |-> FALSE]
  /\ xhci = [i \in Ports |-> "halted"]
  /\ dev = [i \in Ports |-> "halted"]
  /\ gctl \in [Ports -> Direction]
  /\ role = [i \in Ports |-> IF i \in Absent THEN "UNSUPPORTED" ELSE "OFF"]
  /\ connected = [i \in Ports |-> FALSE]
  /\ nextRole = [i \in Ports |-> gctl[i]]
  /\ timer = [i \in Ports |-> Cleared]
  /\ configured = [i \in Ports |-> FALSE]
  /\ activity = [i \in Ports |-> FALSE]
  /\ ncm = [i \in Ports |-> FALSE]
  /\ opened = [i \in Ports |-> FALSE]
  /\ selected = -1 /\ busy = FALSE /\ pc = "loop" /\ cur = 0
  /\ quiet = TRUE
  /\ stage = "running" /\ gicReady = TRUE /\ irq = TRUE

Poll == PollBegins \/ \E i \in Ports : PollServices(i) \/ PollMaintains(i)

Proxy ==
  \/ \E i \in Ports : io_read(i) \/ io_write(i)
  \/ io_end
  \/ \E f \in 0 .. NPorts : refresh(f)

Chainload ==
  \/ \E ok \in SUBSET Ports : handoff(ok) \/ stop(ok)
  \/ \E valid \in BOOLEAN, F \in SUBSET Ports : init(valid, F)

World ==
  \/ \E i \in Ports : \/ \E p \in Peers : Plug(i, p)
                      \/ \E l \in {"suspend", "down"} : Unplug(i, l)
                      \/ \E l \in {"up", "suspend", "down"} : LinkMoves(i, l)
                      \/ HaltsLate(i)
                      \/ \E t \in Timers : FallsDue(i, t)
  \/ TrafficPauses

Next == Poll \/ (\E i \in Ports : Tick(i)) \/ Proxy \/ Chainload \/ World

Spec == Init /\ [][Next]_vars

(* The proxy loop polls for ever, time passes, and the next stage comes up. *)
(* A peer that is offered an enumeration infinitely often completes one.    *)
Fairness ==
  /\ WF_vars(Poll)
  /\ WF_vars(TrafficPauses)
  /\ WF_vars(\E F \in SUBSET Ports : init(TRUE, F))
  /\ \A i \in Ports :
       /\ \A t \in Timers : WF_vars(FallsDue(i, t))
       /\ SF_vars(PollMaintains(i) /\ NcmOpens(i))
       /\ SF_vars(PollServices(i) /\ SetConfiguration(i))

FairSpec == Spec /\ Fairness

-----------------------------------------------------------------------------
(* Properties. *)

(* The two engines of a controller share its PHY and its bus master, and    *)
(* each owns a DMA arena: start_port never lets one run while the other may *)
(* still do DMA, whatever stopped, failed, or was inherited before.         *)
DmaExclusive == \A i \in Ports : xhci[i] = "halted" \/ dev[i] = "halted"

(* A DEVICE or HOST role always comes with the matching controller          *)
(* direction, and the opposite engine halted: what stop_port stops is what  *)
(* runs.                                                                    *)
RoleOwnsEngine ==
  \A i \in Ports :
    /\ role[i] = "HOST" => gctl[i] = "HOST" /\ dev[i] = "halted"
    /\ role[i] = "DEVICE" => gctl[i] = "DEVICE" /\ xhci[i] = "halted"

HostLive(i) == role[i] = "HOST" /\ host_present(i) /\ xhci[i] = "running"
DeviceLive(i) == role[i] = "DEVICE" /\ configured[i] /\ link[i] = "up"

(* A live NCM link survives everything but a reset of the machine and a     *)
(* chainload into an incompatible stage: no poll, refresh or compatible     *)
(* chainload, accepted or refused, takes its port out of the host role.     *)
(* maintain_port also spares a configured device port whose bus is active.  *)
KeepsLiveLinks ==
  [][/\ stage' # "reset" /\ ~(\E F \in SUBSET Ports : init(FALSE, F))
          => \A i \in Ports : HostLive(i) => role'[i] = "HOST"
     /\ pc = "maintain" => \A i \in Ports : DeviceLive(i) => role'[i] = "DEVICE"]_vars

(* A port is given up for good only because an engine of it did not halt,   *)
(* never because an enumeration failed or a cable was pulled.               *)
GivesUpOnlyForDma ==
  [][\A i \in Ports :
       role[i] # "UNSUPPORTED" /\ role'[i] = "UNSUPPORTED"
         => xhci'[i] # "halted" \/ dev'[i] # "halted"]_vars

(* A role attempt stalls the poll for 50 ms or more, so a port starts one   *)
(* only while no other connected port has carried a request lately.         *)
ProbesOnlyWhenQuiet ==
  [][\A i \in Ports :
       role[i] = "OFF" /\ role'[i] \in Direction
         => quiet \/ \A k \in Ports \ {i} : ~connected[k]]_vars

(* Between service_port and maintain_port of one poll, the tick cannot      *)
(* change what maintain_port decides on: the busy flag keeps it out.        *)
PollOwnsPorts == [][pc # "loop" /\ pc' = pc /\ cur' = cur => UNCHANGED function]_vars

(* What the properties above rest on, as an inductive invariant: a device   *)
(* engine that may still do DMA has kept the controller in device direction *)
(* and the host engine halted, and the next attempt on its port, if there   *)
(* is one, is a device takeover, which resets that engine.                  *)
EngineInv ==
  /\ pc # "loop" => stage = "running"
  /\ RoleOwnsEngine
  /\ \A i \in Ports :
       dev[i] # "halted" =>
         /\ gctl[i] = "DEVICE" /\ xhci[i] = "halted"
         /\ role[i] = "OFF" /\ stage # "reset" => nextRole[i] = "DEVICE"

(* What docs/A16-USB-PORT-INDEPENDENCE.md:33 asks of a hand-over: no device *)
(* engine may still do DMA when the next stage's code is entered.           *)
HandoffQuiesced == stage = "chainload" => \A i \in Ports : dev[i] = "halted"

(* A host that keeps starting to enumerate the port, and never configures   *)
(* it, cannot hold the port in the device role: its activity extends the    *)
(* deadline only up to the total bound.                                     *)
EnumerationEnds ==
  \A i \in Ports : (role[i] = "DEVICE") ~> (configured[i] \/ role[i] # "DEVICE")

(* A peer that stays plugged in is found in whichever role it needs, unless *)
(* the port had to be given up.                                             *)
FindsPeer ==
  \A i \in Ports :
    (<>[](peer[i] = "gadget") \/ <>[](peer[i] = "host" /\ link[i] = "up"))
      => []<>(connected[i] \/ role[i] = "UNSUPPORTED")
=============================================================================
