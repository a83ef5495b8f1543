--------------------------- MODULE UsbPortsProofs ---------------------------
(***************************************************************************)
(* For every number of ports, every set of absent controllers and every    *)
(* behaviour of the outside world: the types of the port state, and that   *)
(* the two DMA engines of a controller never run together.                 *)
(***************************************************************************)
EXTENDS UsbPorts, TLAPS

(* The poll starts at port 0. *)
LEMMA ZeroIsPort == 0 \in Ports
  BY PortsAssumption DEF Ports

(* Stopping a port leaves its timers timers. *)
LEMMA StoppedType ==
  ASSUME NEW t \in [Timers -> TimerState], NEW r \in TimerState
  PROVE  /\ Stopped(t, r) \in [Timers -> TimerState]
         /\ Started(t) \in [Timers -> TimerState]
  BY Zenon DEF Stopped, Started, TimerState

(* stop_port leaves every engine in a state of Engine. *)
LEMMA StopEnginesType ==
  ASSUME PortTypes, NEW S, NEW ok, StopEngines(S, ok)
  PROVE  xhci' \in [Ports -> Engine] /\ dev' \in [Ports -> Engine]
         /\ gctl' \in [Ports -> Direction]
  BY Zenon DEF PortTypes, StopEngines, Engine

(* Release keeps the types of the discovery and function variables. *)
LEMMA ReleaseType ==
  ASSUME PortTypes, NEW S, NEW retry \in [Ports -> TimerState], Release(S, retry)
  PROVE  /\ role' \in [Ports -> Role] /\ connected' \in [Ports -> BOOLEAN]
         /\ timer' \in [Ports -> [Timers -> TimerState]]
         /\ ncm' \in [Ports -> BOOLEAN] /\ opened' \in [Ports -> BOOLEAN]
         /\ configured' \in [Ports -> BOOLEAN] /\ activity' \in [Ports -> BOOLEAN]
<1>1. timer' \in [Ports -> [Timers -> TimerState]]
  BY Zenon, StoppedType DEF PortTypes, Release
<1> QED BY Zenon, <1>1 DEF PortTypes, Release, Role

(* What failed and the hand-over do to the retry timer leaves it a timer. *)
LEMMA RetryType ==
  ASSUME PortTypes
  PROVE  /\ RetryIs("armed") \in [Ports -> TimerState]
         /\ RetryIs("off") \in [Ports -> TimerState]
         /\ RetryKept \in [Ports -> TimerState]
<1>1. \A i \in Ports : timer[i].retry \in TimerState
  BY Zenon DEF PortTypes, Timers
<1> QED BY Zenon, <1>1 DEF RetryIs, RetryKept, TimerState

(* failed keeps the types: it stops the port and gives up or retries. *)
LEMMA FailedType ==
  ASSUME PortTypes, NEW i \in Ports, Failed(i), UNCHANGED wires
  PROVE  PortTypes'
<1>1. CASE StopEngines({i}, {i}) /\ Release({i}, RetryIs("armed")) /\ UNCHANGED nextRole
  BY Zenon, <1>1, StopEnginesType, ReleaseType, RetryType DEF PortTypes, wires
<1>2. CASE /\ StopEngines({i}, {})
           /\ role' = [role EXCEPT ![i] = "UNSUPPORTED"]
           /\ connected' = [connected EXCEPT ![i] = FALSE]
           /\ UNCHANGED <<nextRole, timer, function>>
  BY Zenon, <1>2, StopEnginesType DEF PortTypes, wires, function, Role
<1> QED BY Zenon, <1>1, <1>2 DEF Failed

(* maintain_port giving up an attempt keeps the types. *)
LEMMA GiveUpType ==
  ASSUME PortTypes, NEW i \in Ports, NEW next \in Direction, GiveUp(i, next), UNCHANGED wires
  PROVE  PortTypes'
<1>1. CASE /\ StopEngines({i}, {i})
           /\ Release({i}, RetryIs("armed"))
           /\ nextRole' = [nextRole EXCEPT ![i] = next]
  BY Zenon, <1>1, StopEnginesType, ReleaseType, RetryType DEF PortTypes, wires
<1>2. CASE Failed(i)
  BY Zenon, <1>2, FailedType
<1> QED BY Zenon, <1>1, <1>2 DEF GiveUp

(* start_port keeps the types, whether it is refused, runs or fails. *)
LEMMA StartType ==
  ASSUME PortTypes, NEW i \in Ports, StartPort(i)
  PROVE  PortTypes'
<1> DEFINE r == nextRole[i]
<1>0. r \in Direction /\ nextRole' \in [Ports -> Direction]
  BY Zenon DEF PortTypes, StartPort, Other, Direction
<1>1. CASE StartRefused(i, r)
  <2>1. xhci' \in [Ports -> Engine]
    BY Zenon, <1>1 DEF StartRefused, PortTypes, Engine
  <2> QED BY Zenon, <2>1, <1>0, <1>1, ReleaseType, RetryType DEF StartRefused, PortTypes, wires
<1>2. ASSUME Forget(i, r)
      PROVE  /\ gctl' \in [Ports -> Direction] /\ peer' = peer /\ link' = link /\ ncm' = ncm
             /\ portsc' \in [Ports -> BOOLEAN] /\ configured' \in [Ports -> BOOLEAN]
             /\ opened' \in [Ports -> BOOLEAN] /\ activity' \in [Ports -> BOOLEAN]
  BY Zenon, <1>2, <1>0 DEF Forget, PortTypes
<1>3. ASSUME NEW state \in Engine, Engines(i, r, state)
      PROVE  xhci' \in [Ports -> Engine] /\ dev' \in [Ports -> Engine]
  BY Zenon, <1>3 DEF Engines, PortTypes, Engine
<1>4. CASE StartRuns(i, r)
  <2>1. timer' \in [Ports -> [Timers -> TimerState]]
    BY Zenon, <1>4, StoppedType DEF StartRuns, PortTypes, TimerState
  <2>2. role' \in [Ports -> Role] /\ connected' = connected /\ Forget(i, r)
    BY Zenon, <1>4, <1>0 DEF StartRuns, PortTypes, Role, Direction
  <2>3. xhci' \in [Ports -> Engine] /\ dev' \in [Ports -> Engine]
    BY Zenon, <1>4, <1>3 DEF StartRuns, Engine
  <2> QED BY Zenon, <2>1, <2>2, <2>3, <1>0, <1>2 DEF PortTypes
<1>5. CASE StartFails(i, r)
  <2>a. timer[i] \in [Timers -> TimerState] /\ "armed" \in TimerState
    BY Zenon DEF PortTypes, TimerState
  <2>b. Started(timer[i]) \in [Timers -> TimerState]
    BY Zenon, <2>a, StoppedType
  <2>c. Stopped(Started(timer[i]), "armed") \in [Timers -> TimerState]
    BY Zenon, <2>a, <2>b, StoppedType
  <2>1. timer' \in [Ports -> [Timers -> TimerState]]
    BY Zenon, <1>5, <2>b, <2>c DEF StartFails, PortTypes
  <2>2. role' \in [Ports -> Role] /\ connected' = connected /\ Forget(i, r)
    BY ZenonT(40), <1>5, <1>0 DEF StartFails, PortTypes, Role, Direction
  <2>3. xhci' \in [Ports -> Engine] /\ dev' \in [Ports -> Engine]
    BY Zenon, <1>5, <1>3 DEF StartFails, Engine
  <2> QED BY Zenon, <2>1, <2>2, <2>3, <1>0, <1>2 DEF PortTypes
<1> QED BY Zenon, <1>1, <1>4, <1>5 DEF StartPort

(* maintain_port keeps the types on each of its paths. *)
LEMMA MaintainType ==
  ASSUME PortTypes, NEW i \in Ports, maintain_port(i)
  PROVE  PortTypes'
<1>t. /\ SuspendTimer(i) \in TimerState /\ DwellState(i) \in TimerState
      /\ ArmOnce(timer[i].down) \in TimerState
      /\ timer[i] \in [Timers -> TimerState] /\ "off" \in TimerState
  BY DEF PortTypes, SuspendTimer, DwellState, ArmOnce, TimerState, Timers
<1>1. CASE Skip(i)
  BY Zenon, <1>1 DEF Skip, PortTypes, wires, engines, discovery, function
<1>2. CASE StartPort(i)
  BY Zenon, <1>2, StartType
<1>3. CASE DeviceUp(i)
  BY Zenon, <1>3, <1>t DEF DeviceUp, PortTypes, wires, engines, function
<1>4. CASE DeviceDown(i)
  BY Zenon, <1>4, <1>t DEF DeviceDown, PortTypes, wires, engines, function
<1>5. CASE DeviceEnumerating(i)
  BY Zenon, <1>5, <1>t DEF DeviceEnumerating, PortTypes, wires, engines
<1>6. CASE DeviceGivesUp(i)
  BY Zenon, <1>6, GiveUpType DEF DeviceGivesUp, Direction
<1>7. CASE HostUp(i)
  BY Zenon, <1>7, <1>t DEF HostUp, PortTypes, wires, engines, function
<1>8. CASE HostDown(i)
  BY Zenon, <1>8, <1>t DEF HostDown, PortTypes, wires, engines, function
<1>9. CASE HostGivesUp(i)
  BY Zenon, <1>9, GiveUpType DEF HostGivesUp, Direction
<1>10. CASE NcmOpens(i)
  BY Zenon, <1>10 DEF NcmOpens, PortTypes, engines
<1>11. CASE NcmOpenFails(i)
  BY Zenon, <1>11, FailedType DEF NcmOpenFails
<1> QED
  BY Zenon, <1>1, <1>2, <1>3, <1>4, <1>5, <1>6, <1>7, <1>8, <1>9, <1>10, <1>11
  DEF maintain_port, Wait, HostScans

(* service_port keeps the types, whatever the device engine reports. *)
LEMMA ServiceType ==
  ASSUME PortTypes, NEW i \in Ports, service_port(i)
  PROVE  PortTypes'
<1>1. ASSUME NEW a \in BOOLEAN, NEW b \in BOOLEAN, NEW c \in BOOLEAN, DeviceEvent(i, a, b, c)
      PROVE  /\ configured' \in [Ports -> BOOLEAN] /\ opened' \in [Ports -> BOOLEAN]
             /\ activity' \in [Ports -> BOOLEAN] /\ ncm' = ncm
  BY Zenon, <1>1 DEF DeviceEvent, PortTypes
<1>2. /\ configured' \in [Ports -> BOOLEAN] /\ opened' \in [Ports -> BOOLEAN]
      /\ activity' \in [Ports -> BOOLEAN] /\ ncm' = ncm
  <2>0. configured[i] \in BOOLEAN /\ opened[i] \in BOOLEAN
    BY Zenon DEF PortTypes
  <2>1. CASE UsbReset(i) \/ Disconnect(i)
    BY Zenon, <2>1, <1>1 DEF UsbReset, Disconnect
  <2>2. CASE SetConfiguration(i) \/ OtherSetup(i) \/ SetLineState(i)
    BY Zenon, <2>0, <2>2, <1>1 DEF SetConfiguration, OtherSetup, SetLineState
  <2>3. CASE LearnPeer(i) \/ UNCHANGED function
    BY Zenon, <2>3 DEF LearnPeer, function, PortTypes
  <2> QED BY Zenon, <2>1, <2>2, <2>3 DEF service_port
<1> QED BY Zenon, <1>2 DEF service_port, PortTypes, wires, engines, discovery

(* Every step keeps the types. *)
LEMMA TypeInductive ==
  ASSUME TypeOK, [Next]_vars
  PROVE  TypeOK'
<1> USE DEF TypeOK
<1>1. CASE Poll
  <2>1. CASE PollBegins
    BY <2>1, PortsAssumption DEF PollBegins, PortTypes, LoopTypes, Ports, wires, engines,
      discovery, function, system
  <2>2. ASSUME NEW i \in Ports, PollServices(i)
        PROVE  TypeOK'
    BY Zenon, <2>2, ServiceType DEF PollServices, LoopTypes, system
  <2>3. ASSUME NEW i \in Ports, PollMaintains(i)
        PROVE  TypeOK'
    <3>1. PortTypes'
      BY Zenon, <2>3, MaintainType DEF PollMaintains
    <3>2. cur' \in Ports
      BY <2>3, PortsAssumption DEF PollMaintains, Ports
    <3> QED BY Zenon, <2>3, <3>1, <3>2 DEF PollMaintains, LoopTypes, system
  <2> QED BY Zenon, <1>1, <2>1, <2>2, <2>3 DEF Poll
<1>2. ASSUME NEW i \in Ports, Tick(i)
      PROVE  TypeOK'
  BY Zenon, <1>2, ServiceType DEF Tick, LoopTypes, loop, system
<1>3. CASE Proxy
  <2>1. ASSUME NEW i \in Ports, io_read(i) \/ io_write(i)
        PROVE  TypeOK'
    BY Zenon, <2>1 DEF io_read, io_write, PortTypes, LoopTypes, wires, engines, discovery, function,
      loop, system
  <2>2. CASE io_end
    BY Zenon, <2>2 DEF io_end, PortTypes, LoopTypes, wires, engines, discovery, function, loop, system
  <2>3. ASSUME NEW f \in 0 .. NPorts, refresh(f)
        PROVE  TypeOK'
    <3>1. PortTypes'
      BY Zenon, <2>3, StopEnginesType, ReleaseType, RetryType DEF refresh, PortTypes, wires
    <3> QED BY Zenon, <2>3, <3>1 DEF refresh, LoopTypes, loop, system
  <2> QED BY Zenon, <1>3, <2>1, <2>2, <2>3 DEF Proxy
<1>4. CASE Chainload
  <2>1. ASSUME NEW ok \in SUBSET Ports, handoff(ok)
        PROVE  TypeOK'
    <3>1. PortTypes'
      BY Zenon, <2>1, StopEnginesType, ReleaseType, RetryType DEF handoff, PortTypes, wires
    <3> QED BY Zenon, <2>1, <3>1 DEF handoff, LoopTypes, loop, gic_stop, gic_start
  <2>2. ASSUME NEW ok \in SUBSET Ports, stop(ok)
        PROVE  TypeOK'
    <3>1. PortTypes'
      BY Zenon, <2>2, StopEnginesType, ReleaseType, RetryType DEF stop, PortTypes, wires
    <3> QED BY Zenon, <2>2, <3>1 DEF stop, LoopTypes, loop, gic_stop
  <2>3. ASSUME NEW valid \in BOOLEAN, NEW F \in SUBSET Ports, init(valid, F)
        PROVE  TypeOK'
    <3>1. xhci' \in [Ports -> Engine] /\ dev' \in [Ports -> Engine] /\ gctl' \in [Ports -> Direction]
      BY Zenon, <2>3, StopEnginesType DEF init
    <3>2. role' \in [Ports -> Role]
      BY Zenon, <2>3 DEF init, PortTypes, Role
    <3>3. timer' \in [Ports -> [Timers -> TimerState]]
      BY Zenon, <2>3 DEF init, PortTypes, Cleared, TimerState
    <3>4. PortTypes'
      BY Zenon, <2>3, <3>1, <3>2, <3>3 DEF init, PortTypes, wires
    <3>5. LoopTypes'
      BY Zenon, <2>3, ZeroIsPort DEF init, LoopTypes
    <3> QED BY Zenon, <3>4, <3>5
  <2> QED BY Zenon, <1>4, <2>1, <2>2, <2>3 DEF Chainload
<1>5. CASE World
  <2>1. ASSUME NEW i \in Ports, NEW q \in Peers, Plug(i, q)
        PROVE  TypeOK'
    BY Zenon, <2>1, WorldAssumption DEF Plug, PortTypes, LoopTypes, environment, engines, discovery,
      function, loop, system
  <2>2. ASSUME NEW i \in Ports, NEW l \in {"suspend", "down"}, Unplug(i, l)
        PROVE  TypeOK'
    BY <2>2 DEF Unplug, PortTypes, LoopTypes, environment, engines, discovery, function, loop,
      system
  <2>3. ASSUME NEW i \in Ports, NEW l \in {"up", "suspend", "down"}, LinkMoves(i, l)
        PROVE  TypeOK'
    BY Zenon, <2>3 DEF LinkMoves, PortTypes, LoopTypes, environment, engines, discovery, function,
      loop, system
  <2>4. ASSUME NEW i \in Ports, HaltsLate(i)
        PROVE  TypeOK'
    BY <2>4 DEF HaltsLate, PortTypes, LoopTypes, wires, discovery, function, loop, system, Engine
  <2>5. ASSUME NEW i \in Ports, NEW t \in Timers, FallsDue(i, t)
        PROVE  TypeOK'
    BY Zenon, <2>5 DEF FallsDue, PortTypes, LoopTypes, wires, engines, function, loop, system, TimerState
  <2>6. CASE TrafficPauses
    BY Zenon, <2>6 DEF TrafficPauses, PortTypes, LoopTypes, wires, engines, discovery, function, loop,
      system
  <2> QED BY Zenon, <1>5, <2>1, <2>2, <2>3, <2>4, <2>5, <2>6 DEF World
<1>6. CASE UNCHANGED vars
  BY Zenon, <1>6 DEF vars, PortTypes, LoopTypes, wires, engines, discovery, function, loop, system
<1> QED BY Zenon, <1>1, <1>2, <1>3, <1>4, <1>5, <1>6 DEF Next

(* The port state keeps its types, whatever the instance. *)
THEOREM TypeCorrect == Spec => []TypeOK
<1>1. Init => TypeOK
  <2> SUFFICES ASSUME Init
               PROVE  TypeOK
    BY Zenon
  <2>1. timer \in [Ports -> [Timers -> TimerState]]
    BY Zenon DEF Init, Cleared, TimerState
  <2>2. peer \in [Ports -> {"none", "host", "gadget"}]
    BY Zenon, WorldAssumption DEF Init
  <2>3. PortTypes
    BY Zenon, <2>1, <2>2 DEF Init, PortTypes, Engine, Direction, Role
  <2>4. LoopTypes
    BY Zenon, ZeroIsPort DEF Init, LoopTypes
  <2> QED BY Zenon, <2>3, <2>4 DEF TypeOK
<1>2. TypeOK /\ [Next]_vars => TypeOK'
  BY Zenon, TypeInductive
<1> QED BY <1>1, <1>2, PTL DEF Spec
-----------------------------------------------------------------------------
(* stop_port never wakes an engine, and halts the device engine of every    *)
(* DEVICE port that it reports as stopped.                                  *)
LEMMA EnginesOnlyHalt ==
  ASSUME PortTypes, NEW S \in SUBSET Ports, NEW ok \in SUBSET S, StopEngines(S, ok)
  PROVE  /\ gctl' = gctl
         /\ \A i \in Ports : /\ dev'[i] # "halted" => dev[i] # "halted"
                             /\ xhci[i] = "halted" => xhci'[i] = "halted"
                             /\ i \in ok /\ role[i] = "DEVICE" => dev'[i] = "halted"
  BY Zenon DEF PortTypes, StopEngines, EngineOf, Direction

(* The step that matters for start_port: an attempt as HOST is made only    *)
(* when the device engine has halted, one as DEVICE halts the host engine.  *)
LEMMA StartKeepsEngines ==
  ASSUME PortTypes, EngineInv, NEW i \in Ports, stage = "running", stage' = stage,
         StartPort(i)
  PROVE  EngineInv'
<1> DEFINE r == nextRole[i]
<1>0. /\ r \in Direction /\ role[i] = "OFF"
      /\ nextRole' = [nextRole EXCEPT ![i] = Other(r)]
      /\ dev[i] # "halted" => r = "DEVICE" /\ xhci[i] = "halted" /\ gctl[i] = "DEVICE"
  BY Zenon DEF PortTypes, EngineInv, StartPort
<1>1. CASE StartRefused(i, r)
  <2>1. dev[i] = "halted" /\ dev' = dev /\ gctl' = gctl
    BY Zenon, <1>0, <1>1 DEF StartRefused
  <2>2. \A j \in Ports : (xhci[j] = "halted" => xhci'[j] = "halted")
    BY Zenon, <1>1 DEF StartRefused, PortTypes
  <2>3. role' = role
    BY Zenon, <1>0, <1>1 DEF StartRefused, Release, PortTypes
  <2> QED BY Zenon, <2>1, <2>2, <2>3, <1>0 DEF EngineInv, RoleOwnsEngine, PortTypes
<1>2. ASSUME NEW state \in Engine, Engines(i, r, state), Forget(i, r),
             role'[i] = r \/ role'[i] = "UNSUPPORTED" \/ (role'[i] = "OFF" /\ state = "halted"),
             \A j \in Ports \ {i} : role'[j] = role[j]
      PROVE  EngineInv'
  <2>1. ASSUME NEW j \in Ports \ {i}
        PROVE  dev'[j] = dev[j] /\ xhci'[j] = xhci[j] /\ gctl'[j] = gctl[j]
               /\ nextRole'[j] = nextRole[j] /\ role'[j] = role[j]
    BY Zenon, <1>0, <1>2 DEF Engines, Forget, PortTypes
  <2>2. CASE r = "HOST"
    <3>1. dev'[i] = "halted" /\ gctl'[i] = "HOST"
      BY Zenon, <1>0, <1>2, <2>2 DEF Engines, Forget, PortTypes
    <3> QED BY <1>0, <1>2, <2>1, <2>2, <3>1 DEF EngineInv, RoleOwnsEngine
  <2>3. CASE r = "DEVICE"
    <3>1. dev'[i] = state /\ gctl'[i] = "DEVICE" /\ xhci'[i] = "halted"
      BY Zenon, <1>0, <1>2, <2>3 DEF Engines, Forget, PortTypes
    <3> QED BY <1>0, <1>2, <2>1, <2>3, <3>1 DEF EngineInv, RoleOwnsEngine
  <2> QED BY Zenon, <1>0, <2>2, <2>3 DEF Direction
<1>3. CASE StartRuns(i, r)
  BY Zenon, <1>3, <1>2 DEF StartRuns, PortTypes, Engine
<1>4. CASE StartFails(i, r)
  <2>1. CASE Engines(i, r, "halted") /\ role' = role
    BY Zenon, <1>0, <1>4, <2>1, <1>2 DEF StartFails, PortTypes, Engine
  <2>2. CASE Engines(i, r, "stuck") /\ role' = [role EXCEPT ![i] = "UNSUPPORTED"]
    BY Zenon, <1>4, <2>2, <1>2 DEF StartFails, PortTypes, Engine
  <2> QED BY Zenon, <1>4, <2>1, <2>2 DEF StartFails
<1> QED BY Zenon, <1>1, <1>3, <1>4 DEF StartPort

(* A failed attempt or a given-up port, on a port with a role. *)
LEMMA GiveUpKeepsEngines ==
  ASSUME PortTypes, EngineInv, NEW i \in Ports, stage = "running", stage' = stage,
         role[i] \in Direction,
         Failed(i) \/ (\E next \in Direction : GiveUp(i, next))
  PROVE  EngineInv'
<1>1. ASSUME StopEngines({i}, {i}), Release({i}, RetryIs("armed")),
             \A j \in Ports \ {i} : nextRole'[j] = nextRole[j]
      PROVE  EngineInv'
  <2>1. /\ gctl' = gctl
        /\ \A j \in Ports : /\ dev'[j] # "halted" => dev[j] # "halted"
                            /\ xhci[j] = "halted" => xhci'[j] = "halted"
    BY Zenon, <1>1, EnginesOnlyHalt
  <2>2. dev'[i] = "halted"
    <3>1. role[i] = "DEVICE" => dev'[i] = "halted"
      BY Zenon, <1>1, EnginesOnlyHalt
    <3>2. role[i] = "HOST" => dev[i] = "halted"
      BY Zenon DEF EngineInv, RoleOwnsEngine
    <3> QED BY Zenon, <2>1, <3>1, <3>2 DEF Direction
  <2>3. role'[i] = "OFF" /\ \A j \in Ports \ {i} : role'[j] = role[j]
    BY Zenon, <1>1 DEF Release
  <2> QED BY <1>1, <2>1, <2>2, <2>3 DEF EngineInv, RoleOwnsEngine
<1>2. ASSUME StopEngines({i}, {}), role' = [role EXCEPT ![i] = "UNSUPPORTED"],
             nextRole' = nextRole
      PROVE  EngineInv'
  <2>1. /\ gctl' = gctl
        /\ \A j \in Ports : /\ dev'[j] # "halted" => dev[j] # "halted"
                            /\ xhci[j] = "halted" => xhci'[j] = "halted"
    BY Zenon, <1>2, EnginesOnlyHalt
  <2>2. role'[i] = "UNSUPPORTED" /\ \A j \in Ports \ {i} : role'[j] = role[j]
    BY Zenon, <1>2 DEF PortTypes
  <2> QED BY <1>2, <2>1, <2>2 DEF EngineInv, RoleOwnsEngine
<1>3. CASE Failed(i)
  BY Zenon, <1>1, <1>2, <1>3 DEF Failed
<1>4. ASSUME NEW next \in Direction, GiveUp(i, next)
      PROVE  EngineInv'
  <2>1. CASE Failed(i)
    BY Zenon, <2>1, <1>3
  <2>2. CASE /\ StopEngines({i}, {i})
             /\ Release({i}, RetryIs("armed"))
             /\ nextRole' = [nextRole EXCEPT ![i] = next]
    BY Zenon, <2>2, <1>1 DEF PortTypes
  <2> QED BY Zenon, <1>4, <2>1, <2>2 DEF GiveUp
<1> QED BY Zenon, <1>3, <1>4

(* Every step keeps the engine invariant. *)
LEMMA EngineInductive ==
  ASSUME TypeOK, EngineInv, [Next]_vars
  PROVE  EngineInv'
<1>t. PortTypes
  BY Zenon DEF TypeOK
<1>same. ASSUME UNCHANGED <<engines, role, nextRole>>, pc' # "loop" => stage' = "running",
                stage' = "reset" \/ stage # "reset"
         PROVE  EngineInv'
  BY Zenon, <1>same DEF EngineInv, RoleOwnsEngine, engines
<1>halt. ASSUME NEW S \in SUBSET Ports, NEW ok \in SUBSET S, StopEngines(S, ok),
                \A i \in Ports : IF i \in ok THEN role'[i] = "OFF" ELSE role'[i] = role[i],
                nextRole' = nextRole, pc' # "loop" => stage' = "running",
                stage' = "reset" \/ (stage # "reset" /\ \A i \in S : role[i] # "UNSUPPORTED")
         PROVE  EngineInv'
  <2>1. /\ gctl' = gctl
        /\ \A j \in Ports : /\ dev'[j] # "halted" => dev[j] # "halted"
                            /\ xhci[j] = "halted" => xhci'[j] = "halted"
                            /\ j \in ok /\ role[j] = "DEVICE" => dev'[j] = "halted"
    BY Zenon, <1>t, <1>halt, EnginesOnlyHalt
  <2>2. \A j \in ok : role[j] = "HOST" => dev'[j] = "halted"
    BY Zenon, <2>1 DEF EngineInv, RoleOwnsEngine
  <2>3. \A j \in ok : role[j] \in Role
    BY Zenon, <1>t DEF PortTypes
  <2>4. RoleOwnsEngine'
    BY Zenon, <1>halt, <2>1 DEF EngineInv, RoleOwnsEngine
  <2>5. \A i \in Ports : dev'[i] # "halted" => gctl'[i] = "DEVICE" /\ xhci'[i] = "halted"
    BY Zenon, <2>1 DEF EngineInv
  <2>6. ASSUME NEW i \in Ports, dev'[i] # "halted", role'[i] = "OFF", stage' # "reset"
        PROVE  nextRole'[i] = "DEVICE"
    BY Zenon, <1>halt, <2>1, <2>2, <2>3, <2>6 DEF EngineInv, Role
  <2> QED BY Zenon, <1>halt, <2>4, <2>5, <2>6 DEF EngineInv
<1>1. CASE Poll
  <2>1. CASE PollBegins
    BY Zenon, <2>1, <1>same DEF PollBegins, Idle, discovery, system
  <2>2. ASSUME NEW i \in Ports, PollServices(i)
        PROVE  EngineInv'
    BY Zenon, <2>2, <1>same DEF PollServices, service_port, discovery, system, EngineInv
  <2>3. ASSUME NEW i \in Ports, PollMaintains(i)
        PROVE  EngineInv'
    <3>0. stage = "running" /\ stage' = stage /\ maintain_port(i)
      BY Zenon, <2>3 DEF PollMaintains, EngineInv, system
    <3>1. CASE UNCHANGED <<engines, role, nextRole>>
      BY Zenon, <3>0, <3>1, <1>same
    <3>2. CASE StartPort(i)
      BY Zenon, <1>t, <3>0, <3>2, StartKeepsEngines
    <3>3. CASE DeviceGivesUp(i) \/ HostGivesUp(i) \/ NcmOpenFails(i)
      BY Zenon, <1>t, <3>0, <3>3, GiveUpKeepsEngines
      DEF DeviceGivesUp, HostGivesUp, NcmOpenFails, Direction
    <3>4. ASSUME DeviceUp(i) \/ DeviceDown(i) \/ DeviceEnumerating(i) \/ HostUp(i)
                   \/ HostDown(i) \/ HostScans(i) \/ NcmOpens(i) \/ Wait(i)
          PROVE  UNCHANGED <<engines, role, nextRole>>
      BY Zenon, <3>4 DEF DeviceUp, DeviceDown, DeviceEnumerating, HostUp, HostDown, HostScans,
        NcmOpens, Wait, Skip, discovery
    <3> QED BY Zenon, <3>0, <3>1, <3>2, <3>3, <3>4 DEF maintain_port
  <2> QED BY Zenon, <1>1, <2>1, <2>2, <2>3 DEF Poll
<1>2. ASSUME NEW i \in Ports, Tick(i)
      PROVE  EngineInv'
  BY Zenon, <1>2, <1>same DEF Tick, service_port, discovery, loop, system, EngineInv
<1>3. CASE Proxy
  <2>1. ASSUME NEW i \in Ports, io_read(i) \/ io_write(i)
        PROVE  EngineInv'
    BY Zenon, <2>1, <1>same DEF io_read, io_write, Idle, discovery, loop, system
  <2>2. CASE io_end
    BY Zenon, <2>2, <1>same DEF io_end, Idle, discovery, loop, system
  <2>3. ASSUME NEW f \in 0 .. NPorts, refresh(f)
        PROVE  EngineInv'
    <3> DEFINE ok == {i \in Refreshed : i < f}
               S == ok \cup (Refreshed \cap {f})
    <3>1. StopEngines(S, ok) /\ Release(ok, RetryIs("off")) /\ nextRole' = nextRole
          /\ stage = "running" /\ stage' = stage /\ pc' = "loop"
      BY Zenon, <2>3 DEF refresh, Idle, loop, system
    <3>2. S \in SUBSET Ports /\ ok \in SUBSET S /\ \A i \in S : role[i] # "UNSUPPORTED"
      BY Zenon DEF Refreshed
    <3> HIDE DEF ok, S
    <3> QED BY Zenon, <3>1, <3>2, <1>halt DEF Release
  <2> QED BY Zenon, <1>3, <2>1, <2>2, <2>3 DEF Proxy
<1>4. CASE Chainload
  <2>1. ASSUME NEW ok \in SUBSET Ports, handoff(ok)
        PROVE  EngineInv'
    <3> DEFINE S == {i \in Ports : role[i] = "DEVICE"}
    <3>1. /\ ok \in SUBSET S /\ StopEngines(S, ok) /\ Release(ok, RetryKept)
          /\ nextRole' = nextRole /\ stage = "running" /\ pc' = "loop"
      BY Zenon, <2>1 DEF handoff, Idle, loop
    <3>2. S \in SUBSET Ports /\ \A i \in S : role[i] # "UNSUPPORTED"
      BY Zenon
    <3> HIDE DEF S
    <3> QED BY Zenon, <3>1, <3>2, <1>halt DEF Release
  <2>2. ASSUME NEW ok \in SUBSET Ports, stop(ok)
        PROVE  EngineInv'
    <3>1. /\ StopEngines(Ports, ok) /\ Release(ok, RetryKept)
          /\ nextRole' = nextRole /\ stage' = "reset" /\ pc' = "loop"
      BY Zenon, <2>2 DEF stop, Idle, loop
    <3> QED BY Zenon, <3>1, <1>halt DEF Release
  <2>3. ASSUME NEW valid \in BOOLEAN, NEW F \in SUBSET Ports, init(valid, F)
        PROVE  EngineInv'
    <3> DEFINE keep == {i \in Ports : valid /\ Kept(i)}
               halt == {i \in Ports \ keep : valid /\ role[i] # "UNSUPPORTED"}
               zero == Ports \ (keep \cup F)
    <3>1. /\ F \subseteq halt /\ StopEngines(halt, halt \ F)
          /\ role' = [i \in Ports |-> IF i \in keep THEN "HOST"
                                   ELSE IF i \in F \cup Absent THEN "UNSUPPORTED" ELSE "OFF"]
          /\ nextRole' = [i \in Ports |-> IF i \in zero THEN gctl[i] ELSE nextRole[i]]
          /\ pc' = "loop"
      BY Zenon, <2>3 DEF init
    <3>2. /\ gctl' = gctl
          /\ \A j \in Ports : /\ dev'[j] # "halted" => dev[j] # "halted"
                              /\ xhci[j] = "halted" => xhci'[j] = "halted"
      <4>1. halt \in SUBSET Ports /\ halt \ F \in SUBSET halt
        BY Zenon
      <4> HIDE DEF halt
      <4> QED BY Zenon, <1>t, <3>1, <4>1, EnginesOnlyHalt
    <3>3. ASSUME NEW i \in Ports, role'[i] = "HOST"
          PROVE  gctl'[i] = "HOST" /\ dev'[i] = "halted"
      <4>1. i \in keep
        BY Zenon, <3>1, <3>3
      <4>2. role[i] = "HOST" /\ gctl[i] = "HOST"
        BY Zenon, <4>1 DEF Kept
      <4> QED BY Zenon, <3>2, <4>2 DEF EngineInv, RoleOwnsEngine
    <3>4. ASSUME NEW i \in Ports
          PROVE  role'[i] # "DEVICE" /\ (role'[i] = "OFF" => nextRole'[i] = gctl[i])
      BY Zenon, <3>1
    <3>5. ASSUME NEW i \in Ports, dev'[i] # "halted"
          PROVE  gctl[i] = "DEVICE" /\ gctl'[i] = "DEVICE" /\ xhci'[i] = "halted"
      BY Zenon, <3>2, <3>5 DEF EngineInv
    <3> QED BY Zenon, <3>1, <3>3, <3>4, <3>5 DEF EngineInv, RoleOwnsEngine
  <2> QED BY Zenon, <1>4, <2>1, <2>2, <2>3 DEF Chainload
<1>5. CASE World
  <2>1. ASSUME NEW i \in Ports, HaltsLate(i)
        PROVE  EngineInv'
    <3>1. /\ gctl' = gctl
          /\ \A j \in Ports : /\ dev'[j] # "halted" => dev[j] # "halted"
                              /\ xhci[j] = "halted" => xhci'[j] = "halted"
      BY Zenon, <1>t, <2>1 DEF HaltsLate, PortTypes
    <3>2. UNCHANGED <<role, nextRole, stage, pc>>
      BY Zenon, <2>1 DEF HaltsLate, discovery, loop, system
    <3>3. RoleOwnsEngine'
      BY Zenon, <3>1, <3>2 DEF EngineInv, RoleOwnsEngine
    <3>4. \A j \in Ports :
            dev'[j] # "halted" =>
              /\ gctl'[j] = "DEVICE" /\ xhci'[j] = "halted"
              /\ role'[j] = "OFF" /\ stage' # "reset" => nextRole'[j] = "DEVICE"
      BY Zenon, <3>1, <3>2 DEF EngineInv
    <3> QED BY Zenon, <3>2, <3>3, <3>4 DEF EngineInv
  <2>2. ASSUME ~\E i \in Ports : HaltsLate(i)
        PROVE  UNCHANGED <<engines, role, nextRole, stage, pc>>
    BY Zenon, <1>5, <2>2 DEF World, Plug, Unplug, LinkMoves, FallsDue, TrafficPauses,
      environment, discovery, loop, system
  <2> QED BY Zenon, <2>1, <2>2, <1>same DEF EngineInv
<1>6. CASE UNCHANGED vars
  BY Zenon, <1>6, <1>same DEF vars, discovery, loop, system, EngineInv
<1> QED BY Zenon, <1>1, <1>2, <1>3, <1>4, <1>5, <1>6 DEF Next

(* start_port, failed, refresh, the hand-over and the adoption of the ports *)
(* by a new stage keep EngineInv, for any number of ports and any failures. *)
THEOREM EnginesOwned == Spec => []EngineInv
<1>1. Init => EngineInv
  BY Zenon DEF Init, EngineInv, RoleOwnsEngine
<1>2. TypeOK /\ EngineInv /\ [Next]_vars => EngineInv'
  BY Zenon, EngineInductive
<1> QED BY <1>1, <1>2, TypeCorrect, PTL DEF Spec

(* The two engines of a controller never may both do DMA. *)
THEOREM DmaNeverShared == Spec => []DmaExclusive
<1>1. EngineInv => DmaExclusive
  BY Zenon DEF EngineInv, DmaExclusive
<1> QED BY <1>1, EnginesOwned, PTL
-----------------------------------------------------------------------------
(* What the action properties rest on: the poll holds the flag, only a host *)
(* port has an NCM function, a live one counts as connected, a port that is *)
(* off does not, and a controller that is absent never gets a role.         *)
PollInv == pc # "loop" => busy /\ stage = "running"
PortInv(i) ==
  /\ role[i] \in {"OFF", "DEVICE"} => ~ncm[i]
  /\ role[i] = "HOST" /\ host_present(i) => connected[i]
  /\ role[i] = "OFF" => ~connected[i]
  /\ i \in Absent /\ stage # "reset" => role[i] = "UNSUPPORTED"
PortsInv == PollInv /\ \A i \in Ports : PortInv(i)

(* A port whose role, function and link state stay keeps its invariant. *)
Still(i) ==
  /\ role'[i] = role[i] /\ ncm'[i] = ncm[i] /\ connected'[i] = connected[i]
  /\ portsc'[i] => portsc[i]
  /\ stage' = "reset" \/ stage # "reset"

(* What a step leaves alone, it leaves right. *)
LEMMA StillKeeps == ASSUME NEW i \in Ports, PortInv(i), Still(i) PROVE PortInv(i)'
  BY Zenon DEF PortInv, Still, host_present

(* A port that a stop_port released is off, without function and not        *)
(* connected; the others are as they were.                                  *)
LEMMA ReleaseKeeps ==
  ASSUME PortTypes, \A i \in Ports : PortInv(i), NEW S, NEW retry, Release(S, retry), portsc' = portsc,
         stage' = "reset" \/ (stage # "reset" /\ \A i \in S : role[i] # "UNSUPPORTED")
  PROVE  \A i \in Ports : PortInv(i)'
<1> SUFFICES ASSUME NEW i \in Ports PROVE PortInv(i)'
  BY Zenon
<1>1. CASE i \in S
  BY Zenon, <1>1 DEF Release, PortInv, host_present
<1>2. CASE i \notin S
  <2>1. role'[i] = role[i] /\ (ncm'[i] <=> ncm[i]) /\ (connected'[i] <=> connected[i])
    BY Zenon, <1>2 DEF Release, PortTypes
  <2> QED BY Zenon, <2>1 DEF PortInv, host_present
<1> QED BY Zenon, <1>1, <1>2

(* failed and the give-up branches, on a port that is not a live host.      *)
LEMMA GiveUpKeeps ==
  ASSUME PortTypes, \A i \in Ports : PortInv(i), NEW i \in Ports, role[i] \in Direction,
         Failed(i) \/ (\E next \in Direction : GiveUp(i, next)), UNCHANGED wires,
         stage' = stage, stage # "reset"
  PROVE  \A k \in Ports : PortInv(k)'
<1>1. CASE Release({i}, RetryIs("armed"))
  <2>1. \A k \in {i} : role[k] # "UNSUPPORTED"
    BY Zenon DEF Direction
  <2> QED BY Zenon, <1>1, <2>1, ReleaseKeeps DEF wires
<1>2. CASE /\ role' = [role EXCEPT ![i] = "UNSUPPORTED"]
           /\ connected' = [connected EXCEPT ![i] = FALSE]
           /\ UNCHANGED <<nextRole, timer, function>>
  <2> SUFFICES ASSUME NEW k \in Ports PROVE PortInv(k)'
    BY Zenon
  <2>1. CASE k = i
    BY Zenon, <1>2, <2>1 DEF PortInv, PortTypes
  <2>2. CASE k # i
    <3>1. Still(k)
      BY Zenon, <1>2, <2>2 DEF Still, wires, function, PortTypes
    <3> QED BY Zenon, <3>1, StillKeeps
  <2> QED BY Zenon, <2>1, <2>2
<1> QED BY Zenon, <1>1, <1>2 DEF Failed, GiveUp

(* A role attempt starts from a port that is off, so without a function. *)
LEMMA StartKeeps ==
  ASSUME PortTypes, \A i \in Ports : PortInv(i), NEW i \in Ports, StartPort(i),
         stage' = stage, stage # "reset"
  PROVE  \A k \in Ports : PortInv(k)'
<1> DEFINE r == nextRole[i]
<1>0. role[i] = "OFF" /\ ~ncm[i] /\ ~connected[i] /\ i \notin Absent
  BY Zenon DEF StartPort, PortInv
<1>1. CASE StartRefused(i, r)
  BY Zenon, <1>0, <1>1, ReleaseKeeps DEF StartRefused, wires
<1>2. ASSUME Forget(i, r), connected' = connected, \A k \in Ports \ {i} : role'[k] = role[k]
      PROVE  \A k \in Ports : PortInv(k)'
  <2> SUFFICES ASSUME NEW k \in Ports PROVE PortInv(k)'
    BY Zenon
  <2>1. CASE k = i
    BY Zenon, <1>0, <1>2, <2>1 DEF Forget, PortInv, host_present
  <2>2. CASE k # i
    <3>1. Still(k)
      BY Zenon, <1>2, <2>2 DEF Still, Forget, PortTypes
    <3> QED BY Zenon, <3>1, StillKeeps
  <2> QED BY Zenon, <2>1, <2>2
<1>3. CASE StartRuns(i, r)
  BY Zenon, <1>2, <1>3 DEF StartRuns, PortTypes
<1>4. CASE StartFails(i, r)
  BY Zenon, <1>2, <1>4 DEF StartFails, PortTypes
<1> QED BY Zenon, <1>1, <1>3, <1>4 DEF StartPort

(* maintain_port keeps the invariant of every port. *)
LEMMA MaintainKeeps ==
  ASSUME PortTypes, \A i \in Ports : PortInv(i), NEW i \in Ports, maintain_port(i),
         stage' = stage, stage # "reset"
  PROVE  \A k \in Ports : PortInv(k)'
<1>1. CASE StartPort(i)
  BY Zenon, <1>1, StartKeeps
<1>2. CASE DeviceGivesUp(i) \/ HostGivesUp(i) \/ NcmOpenFails(i)
  BY Zenon, <1>2, GiveUpKeeps DEF DeviceGivesUp, HostGivesUp, NcmOpenFails, Direction
<1>3. CASE Skip(i)
  <2>1. \A k \in Ports : Still(k)
    BY Zenon, <1>3 DEF Skip, Still, wires, discovery, function
  <2> QED BY Zenon, <2>1, StillKeeps
<1>4. CASE DeviceUp(i) \/ DeviceDown(i) \/ DeviceEnumerating(i) \/ HostUp(i) \/ HostDown(i) \/ NcmOpens(i)
  <2> SUFFICES ASSUME NEW k \in Ports PROVE PortInv(k)'
    BY Zenon
  <2>1. CASE k # i
    <3>1. Still(k)
      BY Zenon, <1>4, <2>1 DEF Still, DeviceUp, DeviceDown, DeviceEnumerating, HostUp, HostDown, NcmOpens,
        wires, function, PortTypes
    <3> QED BY Zenon, <3>1, StillKeeps
  <2>2. CASE k = i
    <3>1. CASE DeviceUp(i) \/ DeviceDown(i) \/ DeviceEnumerating(i)
      BY Zenon, <2>2, <3>1 DEF DeviceUp, DeviceDown, DeviceEnumerating, PortInv, function
    <3>2. CASE HostUp(i) \/ HostDown(i)
      BY Zenon, <2>2, <3>2 DEF HostUp, HostDown, PortInv, host_present, wires, function, PortTypes
    <3>3. CASE NcmOpens(i)
      BY Zenon, <2>2, <3>3 DEF NcmOpens, PortInv, PortTypes
    <3> QED BY Zenon, <1>4, <3>1, <3>2, <3>3
  <2> QED BY Zenon, <2>1, <2>2
<1> QED BY Zenon, <1>1, <1>2, <1>3, <1>4 DEF maintain_port, Wait, HostScans

(* A new stage keeps live links and clears or gives up the other ports. *)
LEMMA InitKeeps ==
  ASSUME PortTypes, \A i \in Ports : PortInv(i), NEW valid \in BOOLEAN, NEW F \in SUBSET Ports,
         init(valid, F)
  PROVE  \A k \in Ports : PortInv(k)'
<1> DEFINE keep == {i \in Ports : valid /\ Kept(i)}
           halt == {i \in Ports \ keep : valid /\ role[i] # "UNSUPPORTED"}
           zero == Ports \ (keep \cup F)
<1>1. /\ F \subseteq halt /\ stage = "chainload"
      /\ role' = [i \in Ports |-> IF i \in keep THEN "HOST"
                               ELSE IF i \in F \cup Absent THEN "UNSUPPORTED" ELSE "OFF"]
      /\ connected' = [i \in Ports |-> connected[i] /\ i \notin zero]
      /\ ncm' = [i \in Ports |-> ncm[i] /\ i \notin zero]
      /\ portsc' = portsc
  BY Zenon DEF init, wires
<1> SUFFICES ASSUME NEW k \in Ports PROVE PortInv(k)'
  BY Zenon
<1>2. CASE k \in keep
  <2>1. role[k] = "HOST" /\ role'[k] = "HOST" /\ k \notin zero
    BY Zenon, <1>1, <1>2 DEF Kept
  <2>2. (ncm'[k] <=> ncm[k]) /\ (connected'[k] <=> connected[k])
    BY Zenon, <1>1, <2>1
  <2> QED BY ZenonT(40), <1>1, <2>1, <2>2 DEF PortInv, host_present
<1>3. CASE k \notin keep /\ k \in F \cup Absent
  BY Zenon, <1>1, <1>3 DEF PortInv
<1>4. CASE k \in zero /\ k \notin Absent
  BY Zenon, <1>1, <1>4 DEF PortInv, host_present
<1> QED BY Zenon, <1>2, <1>3, <1>4

(* Every step keeps the invariant of the ports. *)
LEMMA PortsInductive ==
  ASSUME TypeOK, PortsInv, [Next]_vars
  PROVE  PortsInv'
<1>t. PortTypes /\ PollInv /\ \A i \in Ports : PortInv(i)
  BY Zenon DEF TypeOK, PortsInv
<1>still. ASSUME \A i \in Ports : Still(i), PollInv'
          PROVE  PortsInv'
  BY Zenon, <1>t, <1>still, StillKeeps DEF PortsInv
<1>1. CASE Poll
  <2>1. CASE PollBegins
    <3>1. \A i \in Ports : Still(i)
      BY Zenon, <2>1 DEF PollBegins, Idle, Still, wires, discovery, function, system
    <3>2. PollInv'
      BY Zenon, <2>1 DEF PollBegins, PollInv, Idle, system
    <3> QED BY Zenon, <3>1, <3>2, <1>still
  <2>2. ASSUME NEW i \in Ports, PollServices(i) PROVE PortsInv'
    <3>0. stage' = stage /\ stage = "running" /\ busy' = busy /\ busy
      BY Zenon, <1>t, <2>2 DEF PollServices, PollInv, system
    <3>1. \A k \in Ports : Still(k)
      BY Zenon, <2>2, <3>0 DEF PollServices, service_port, Still, wires, discovery, function, UsbReset,
        SetConfiguration, OtherSetup, SetLineState, Disconnect, LearnPeer, DeviceEvent
    <3> QED BY Zenon, <3>0, <3>1, <1>still DEF PollInv
  <2>3. ASSUME NEW i \in Ports, PollMaintains(i) PROVE PortsInv'
    <3>0. stage' = stage /\ stage = "running" /\ busy /\ maintain_port(i)
          /\ (pc' # "loop" => busy' = busy)
      BY Zenon, <1>t, <2>3 DEF PollMaintains, PollInv, system
    <3>1. \A k \in Ports : PortInv(k)'
      BY Zenon, <1>t, <3>0, MaintainKeeps
    <3> QED BY Zenon, <3>0, <3>1 DEF PortsInv, PollInv
  <2> QED BY Zenon, <1>1, <2>1, <2>2, <2>3 DEF Poll
<1>2. ASSUME NEW i \in Ports, Tick(i) PROVE PortsInv'
  <2>0. stage' = stage /\ pc' = pc /\ busy' = busy
    BY Zenon, <1>2 DEF Tick, loop, system
  <2>1. \A k \in Ports : Still(k)
    BY Zenon, <1>2, <2>0 DEF Tick, service_port, Still, wires, discovery, function, UsbReset,
      SetConfiguration, OtherSetup, SetLineState, Disconnect, LearnPeer, DeviceEvent
  <2> QED BY Zenon, <1>t, <2>0, <2>1, <1>still DEF PollInv
<1>3. CASE Proxy
  <2>1. ASSUME NEW i \in Ports, io_read(i) \/ io_write(i) \/ io_end PROVE PortsInv'
    <3>1. pc' = "loop" /\ \A k \in Ports : Still(k)
      BY Zenon, <2>1 DEF io_read, io_write, io_end, Idle, Still, wires, discovery, function, loop, system
    <3> QED BY Zenon, <3>1, <1>still DEF PollInv
  <2>2. ASSUME NEW f \in 0 .. NPorts, refresh(f) PROVE PortsInv'
    <3> DEFINE ok == {i \in Refreshed : i < f}
    <3>1. Release(ok, RetryIs("off")) /\ portsc' = portsc /\ stage = "running" /\ stage' = stage
          /\ pc' = "loop"
      BY Zenon, <2>2 DEF refresh, Idle, loop, system, wires
    <3>2. \A i \in ok : role[i] # "UNSUPPORTED"
      BY Zenon DEF Refreshed
    <3> HIDE DEF ok
    <3> QED BY Zenon, <1>t, <3>1, <3>2, ReleaseKeeps DEF PortsInv, PollInv
  <2> QED BY Zenon, <1>3, <2>1, <2>2, ZeroIsPort DEF Proxy
<1>4. CASE Chainload
  <2>1. ASSUME NEW ok \in SUBSET Ports, handoff(ok) PROVE PortsInv'
    <3>1. Release(ok, RetryKept) /\ portsc' = portsc /\ stage = "running" /\ pc' = "loop"
          /\ stage' # "reset" /\ \A i \in ok : role[i] = "DEVICE"
      BY Zenon, <2>1 DEF handoff, Idle, loop, wires
    <3> QED BY Zenon, <1>t, <3>1, ReleaseKeeps DEF PortsInv, PollInv
  <2>2. ASSUME NEW ok \in SUBSET Ports, stop(ok) PROVE PortsInv'
    <3>1. Release(ok, RetryKept) /\ portsc' = portsc /\ stage' = "reset" /\ pc' = "loop"
      BY Zenon, <2>2 DEF stop, Idle, loop, wires
    <3> QED BY Zenon, <1>t, <3>1, ReleaseKeeps DEF PortsInv, PollInv
  <2>3. ASSUME NEW valid \in BOOLEAN, NEW F \in SUBSET Ports, init(valid, F) PROVE PortsInv'
    <3>1. pc' = "loop"
      BY Zenon, <2>3 DEF init
    <3> QED BY Zenon, <1>t, <2>3, <3>1, InitKeeps DEF PortsInv, PollInv
  <2> QED BY Zenon, <1>4, <2>1, <2>2, <2>3 DEF Chainload
<1>5. CASE World
  <2>1. UNCHANGED <<role, ncm, connected, stage, pc, busy>>
    BY Zenon, <1>5 DEF World, Plug, Unplug, LinkMoves, HaltsLate, FallsDue, TrafficPauses, environment,
      discovery, function, loop, system
  <2>2. \A k \in Ports : portsc'[k] => portsc[k]
    BY Zenon, <1>5, <1>t DEF World, Plug, Unplug, LinkMoves, HaltsLate, FallsDue, TrafficPauses, wires, PortTypes
  <2>3. \A k \in Ports : Still(k)
    BY Zenon, <2>1, <2>2 DEF Still
  <2> QED BY Zenon, <1>t, <2>1, <2>3, <1>still DEF PollInv
<1>6. CASE UNCHANGED vars
  <2>1. UNCHANGED <<role, ncm, connected, stage, pc, busy, portsc>>
    BY Zenon, <1>6 DEF vars, wires, discovery, function, loop, system
  <2> QED BY Zenon, <1>t, <2>1, <1>still DEF PollInv, Still
<1> QED BY Zenon, <1>1, <1>2, <1>3, <1>4, <1>5, <1>6 DEF Next

(* The invariant of the ports holds in every state, whatever the instance. *)
THEOREM PortsConsistent == Spec => []PortsInv
<1>1. Init => PortsInv
  BY Zenon DEF Init, PortsInv, PollInv, PortInv, host_present
<1>2. TypeOK /\ PortsInv /\ [Next]_vars => PortsInv'
  BY Zenon, PortsInductive
<1> QED BY <1>1, <1>2, TypeCorrect, PTL DEF Spec
-----------------------------------------------------------------------------
(* The steps that change a port's role: maintain_port at that port, refresh *)
(* of a port that is not connected, the hand-over of a device port, the     *)
(* reset, and the next stage's init.                                        *)
Maintained(i) ==
  /\ pc = "maintain" /\ stage = "running" /\ Proceeds(i)
  /\ StartPort(i) \/ DeviceGivesUp(i) \/ HostGivesUp(i) \/ NcmOpenFails(i)
TurnedOff(i) ==
  /\ pc = "loop" /\ role'[i] = "OFF"
  /\ \/ ~connected[i] \/ role[i] = "DEVICE" \/ stage' = "reset"
Adopted == pc = "loop" /\ \E valid \in BOOLEAN, F \in SUBSET Ports : init(valid, F)

(* Nothing else changes a role. *)
LEMMA RoleChanges ==
  ASSUME TypeOK, PortsInv, Next, NEW i \in Ports, role'[i] # role[i]
  PROVE  Maintained(i) \/ TurnedOff(i) \/ Adopted
<1>t. PortTypes /\ PollInv
  BY Zenon DEF TypeOK, PortsInv
<1>1. CASE Poll
  <2>1. CASE PollBegins
    BY Zenon, <2>1 DEF PollBegins, discovery
  <2>2. ASSUME NEW k \in Ports, PollServices(k) PROVE FALSE
    BY Zenon, <2>2 DEF PollServices, service_port, discovery
  <2>3. ASSUME NEW k \in Ports, PollMaintains(k) PROVE Maintained(i)
    <3>0. pc = "maintain" /\ stage = "running" /\ maintain_port(k)
      BY Zenon, <1>t, <2>3 DEF PollMaintains, PollInv
    <3>1. Proceeds(k) /\ (StartPort(k) \/ DeviceGivesUp(k) \/ HostGivesUp(k) \/ NcmOpenFails(k))
      BY Zenon, <3>0 DEF maintain_port, Wait, Skip, HostScans, DeviceUp, DeviceDown, DeviceEnumerating, HostUp,
        HostDown, NcmOpens, discovery
    <3>2. \A j \in Ports \ {k} : role'[j] = role[j]
      <4>1. ASSUME NEW retry, Release({k}, retry) PROVE \A j \in Ports \ {k} : role'[j] = role[j]
        BY Zenon, <4>1 DEF Release
      <4>2. ASSUME NEW v, role' = [role EXCEPT ![k] = v] PROVE \A j \in Ports \ {k} : role'[j] = role[j]
        BY Zenon, <1>t, <4>2 DEF PortTypes
      <4>3. CASE StartPort(k)
        <5>1. \/ Release({k}, RetryIs("armed")) \/ role' = [role EXCEPT ![k] = nextRole[k]]
              \/ role' = role \/ role' = [role EXCEPT ![k] = "UNSUPPORTED"]
          BY Zenon, <4>3 DEF StartPort, StartRefused, StartRuns, StartFails
        <5> QED BY Zenon, <4>1, <4>2, <5>1
      <4>4. CASE DeviceGivesUp(k) \/ HostGivesUp(k) \/ NcmOpenFails(k)
        <5>1. Release({k}, RetryIs("armed")) \/ role' = [role EXCEPT ![k] = "UNSUPPORTED"]
          BY Zenon, <4>4 DEF DeviceGivesUp, HostGivesUp, NcmOpenFails, GiveUp, Failed
        <5> QED BY Zenon, <4>1, <4>2, <5>1
      <4> QED BY ZenonT(40), <3>1, <4>3, <4>4
    <3> QED BY Zenon, <3>0, <3>1, <3>2 DEF Maintained
  <2> QED BY Zenon, <1>1, <2>1, <2>2, <2>3 DEF Poll
<1>2. ASSUME NEW k \in Ports, Tick(k) PROVE FALSE
  BY Zenon, <1>2 DEF Tick, service_port, discovery
<1>3. CASE Proxy
  <2>1. CASE (\E k \in Ports : io_read(k) \/ io_write(k)) \/ io_end
    BY Zenon, <2>1 DEF io_read, io_write, io_end, discovery
  <2>2. ASSUME NEW f \in 0 .. NPorts, refresh(f) PROVE TurnedOff(i)
    <3> DEFINE ok == {j \in Refreshed : j < f}
    <3>1. Release(ok, RetryIs("off")) /\ pc = "loop"
      BY Zenon, <2>2 DEF refresh, Idle
    <3>2. i \in ok /\ role'[i] = "OFF"
      BY Zenon, <1>t, <3>1 DEF Release
    <3> QED BY Zenon, <3>1, <3>2 DEF TurnedOff, Refreshed
  <2> QED BY Zenon, <1>3, <2>1, <2>2 DEF Proxy
<1>4. CASE Chainload
  <2>1. ASSUME NEW ok \in SUBSET Ports, handoff(ok) PROVE TurnedOff(i)
    <3>1. Release(ok, RetryKept) /\ pc = "loop" /\ \A j \in ok : role[j] = "DEVICE"
      BY Zenon, <2>1 DEF handoff, Idle
    <3> QED BY Zenon, <3>1 DEF Release, TurnedOff
  <2>2. ASSUME NEW ok \in SUBSET Ports, stop(ok) PROVE TurnedOff(i)
    BY Zenon, <2>2 DEF stop, Idle, Release, TurnedOff
  <2>3. ASSUME NEW valid \in BOOLEAN, NEW F \in SUBSET Ports, init(valid, F) PROVE Adopted
    <3>1. pc = "loop"
      BY ZenonT(40), <1>t, <2>3 DEF init, PollInv
    <3> QED BY Zenon, <2>3, <3>1 DEF Adopted
  <2> QED BY Zenon, <1>4, <2>1, <2>2, <2>3 DEF Chainload
<1>5. CASE World
  BY Zenon, <1>5 DEF World, Plug, Unplug, LinkMoves, HaltsLate, FallsDue, TrafficPauses, environment, discovery
<1> QED BY ZenonT(40), <1>1, <1>2, <1>3, <1>4, <1>5 DEF Next

(* A new stage takes over only the ports that had a live link. *)
LEMMA AdoptedRole ==
  ASSUME NEW valid \in BOOLEAN, NEW F \in SUBSET Ports, init(valid, F), NEW i \in Ports
  PROVE  role'[i] = IF valid /\ Kept(i) THEN "HOST"
                    ELSE IF i \in F \cup Absent THEN "UNSUPPORTED" ELSE "OFF"
  BY Zenon DEF init

(* maintain_port never gives up a live link. *)
LEMMA LiveNotMaintained ==
  ASSUME NEW i \in Ports, Maintained(i)
  PROVE  ~HostLive(i) /\ ~DeviceLive(i)
  BY Zenon DEF Maintained, StartPort, DeviceGivesUp, HostGivesUp, NcmOpenFails, HostLive, DeviceLive,
    host_present, Down, Suspended

(* The steps of KeepsLiveLinks. *)
LiveKept ==
  /\ stage' # "reset" /\ ~(\E F \in SUBSET Ports : init(FALSE, F))
       => \A i \in Ports : HostLive(i) => role'[i] = "HOST"
  /\ pc = "maintain" => \A i \in Ports : DeviceLive(i) => role'[i] = "DEVICE"

(* No step takes a live link's port out of its role. *)
LEMMA LiveStep == TypeOK /\ EngineInv /\ PortsInv /\ [Next]_vars => [LiveKept]_vars
<1> SUFFICES ASSUME TypeOK, EngineInv, PortsInv, Next PROVE LiveKept
  BY Zenon
<1>1. ASSUME NEW i \in Ports, HostLive(i), role'[i] # "HOST", stage' # "reset",
             ~(\E F \in SUBSET Ports : init(FALSE, F))
      PROVE  FALSE
  <2>0. role[i] = "HOST" /\ connected[i] /\ gctl[i] = "HOST" /\ host_present(i) /\ xhci[i] = "running"
    BY Zenon, <1>1 DEF HostLive, PortsInv, PortInv, EngineInv, RoleOwnsEngine
  <2>1. Maintained(i) \/ TurnedOff(i) \/ Adopted
    BY Zenon, <1>1, <2>0, RoleChanges
  <2>2. ASSUME NEW valid \in BOOLEAN, NEW F \in SUBSET Ports, init(valid, F) PROVE FALSE
    <3>1. valid
      BY Zenon, <1>1, <2>2
    <3>2. Kept(i)
      BY Zenon, <2>0 DEF Kept
    <3> QED BY Zenon, <1>1, <2>2, <3>1, <3>2 DEF init
  <2> QED BY Zenon, <1>1, <2>0, <2>1, <2>2, LiveNotMaintained DEF TurnedOff, Adopted
<1>2. ASSUME NEW i \in Ports, DeviceLive(i), role'[i] # "DEVICE", pc = "maintain" PROVE FALSE
  <2>1. role[i] = "DEVICE"
    BY Zenon, <1>2 DEF DeviceLive
  <2>2. Maintained(i)
    BY Zenon, <1>2, <2>1, RoleChanges DEF TurnedOff, Adopted
  <2> QED BY Zenon, <1>2, <2>2, LiveNotMaintained
<1> QED BY Zenon, <1>1, <1>2 DEF LiveKept

(* A live NCM link survives polls, refreshes, refused and compatible        *)
(* chainloads, and maintain_port spares an active device link.              *)
THEOREM LiveLinksKept == Spec => KeepsLiveLinks
<1>1. [][LiveKept]_vars => KeepsLiveLinks
  BY PTL DEF KeepsLiveLinks, LiveKept
<1> QED BY <1>1, LiveStep, TypeCorrect, EnginesOwned, PortsConsistent, PTL DEF Spec

(* The steps of GivesUpOnlyForDma. *)
DmaGivenUp ==
  \A i \in Ports : role[i] # "UNSUPPORTED" /\ role'[i] = "UNSUPPORTED"
                     => xhci'[i] # "halted" \/ dev'[i] # "halted"

(* A stop_port that fails leaves the engine it could not halt. *)
LEMMA NotStopped ==
  ASSUME NEW S \in SUBSET Ports, NEW ok, StopEngines(S, ok), NEW i \in S \ ok
  PROVE  xhci'[i] # "halted" \/ dev'[i] # "halted"
  BY Zenon DEF StopEngines, Direction

(* Only an engine that did not halt makes a port unsupported. *)
LEMMA GivenUpStep == TypeOK /\ PortsInv /\ [Next]_vars => [DmaGivenUp]_vars
<1> SUFFICES ASSUME TypeOK, PortsInv, Next, NEW i \in Ports, role[i] # "UNSUPPORTED",
                    role'[i] = "UNSUPPORTED"
             PROVE  xhci'[i] # "halted" \/ dev'[i] # "halted"
  BY Zenon DEF DmaGivenUp
<1>t. PortTypes
  BY Zenon DEF TypeOK
<1>1. CASE StopEngines({i}, {})
  <2>1. {i} \in SUBSET Ports /\ i \in {i} \ {}
    BY Zenon
  <2> QED BY Zenon, <1>1, <2>1, NotStopped
<1>2. ASSUME Release({i}, RetryIs("armed")) PROVE FALSE
  BY Zenon, <1>2 DEF Release
<1>3. CASE Maintained(i)
  <2>1. CASE StartPort(i)
    <3>1. nextRole[i] \in Direction
      BY Zenon, <1>t DEF PortTypes
    <3>2. Engines(i, nextRole[i], "stuck")
      <4>1. CASE StartRefused(i, nextRole[i])
        BY Zenon, <1>2, <4>1 DEF StartRefused
      <4>2. CASE StartRuns(i, nextRole[i])
        BY Zenon, <1>t, <3>1, <4>2 DEF StartRuns, PortTypes, Direction
      <4>3. CASE StartFails(i, nextRole[i])
        BY Zenon, <4>3 DEF StartFails
      <4> QED BY Zenon, <2>1, <4>1, <4>2, <4>3 DEF StartPort
    <3> QED BY Zenon, <1>t, <3>1, <3>2 DEF Engines, PortTypes, Direction
  <2>2. CASE DeviceGivesUp(i) \/ HostGivesUp(i) \/ NcmOpenFails(i)
    BY ZenonT(40), <1>1, <1>2, <2>2 DEF DeviceGivesUp, HostGivesUp, NcmOpenFails, GiveUp, Failed
  <2> QED BY Zenon, <1>3, <2>1, <2>2 DEF Maintained
<1>4. ASSUME NEW valid \in BOOLEAN, NEW F \in SUBSET Ports, init(valid, F)
      PROVE  xhci'[i] # "halted" \/ dev'[i] # "halted"
  <2> DEFINE keep == {j \in Ports : valid /\ Kept(j)}
             halt == {j \in Ports \ keep : valid /\ role[j] # "UNSUPPORTED"}
  <2>1. F \subseteq halt /\ StopEngines(halt, halt \ F) /\ i \in F \cup Absent /\ stage = "chainload"
    BY Zenon, <1>4 DEF init
  <2>2. i \notin Absent
    BY Zenon, <2>1 DEF PortsInv, PortInv
  <2>3. halt \in SUBSET Ports /\ i \in halt \ (halt \ F)
    BY Zenon, <2>1, <2>2
  <2> HIDE DEF halt
  <2> QED BY Zenon, <2>1, <2>3, NotStopped
<1>5. Maintained(i) \/ TurnedOff(i) \/ Adopted
  BY Zenon, RoleChanges
<1> QED BY Zenon, <1>3, <1>4, <1>5 DEF TurnedOff, Adopted

(* A port is given up for good only because an engine of it did not halt:   *)
(* never for a failed enumeration, a pulled cable or a missing controller.  *)
THEOREM GivenUpOnlyForDma == Spec => GivesUpOnlyForDma
<1>1. [][DmaGivenUp]_vars => GivesUpOnlyForDma
  BY PTL DEF GivesUpOnlyForDma, DmaGivenUp
<1> QED BY <1>1, GivenUpStep, TypeCorrect, PortsConsistent, PTL DEF Spec

(* The steps of ProbesOnlyWhenQuiet. *)
QuietProbe ==
  \A i \in Ports : role[i] = "OFF" /\ role'[i] \in Direction
                     => quiet \/ \A k \in Ports \ {i} : ~connected[k]

(* A role attempt that starts is maintain_port's, past its traffic check. *)
LEMMA QuietStep == TypeOK /\ PortsInv /\ [Next]_vars => [QuietProbe]_vars
<1> SUFFICES ASSUME TypeOK, PortsInv, Next, NEW i \in Ports, role[i] = "OFF", role'[i] \in Direction
             PROVE  quiet \/ \A k \in Ports \ {i} : ~connected[k]
  BY Zenon DEF QuietProbe
<1>1. Maintained(i) \/ TurnedOff(i) \/ Adopted
  BY Zenon, RoleChanges DEF Direction
<1>2. ~connected[i]
  BY Zenon DEF PortsInv, PortInv
<1>3. CASE Maintained(i)
  BY Zenon, <1>2, <1>3 DEF Maintained, Proceeds, other_port_busy
<1>4. CASE TurnedOff(i)
  BY Zenon, <1>4 DEF TurnedOff, Direction
<1>5. CASE Adopted
  <2>1. PICK valid \in BOOLEAN, F \in SUBSET Ports : init(valid, F)
    BY Zenon, <1>5 DEF Adopted
  <2>2. ~Kept(i)
    BY Zenon DEF Kept
  <2> QED BY Zenon, <2>1, <2>2, AdoptedRole DEF Direction
<1> QED BY Zenon, <1>1, <1>3, <1>4, <1>5

(* A role attempt, which stalls the poll, starts only while no other        *)
(* connected port carried a request lately, for any number of ports.        *)
THEOREM ProbesQuietly == Spec => ProbesOnlyWhenQuiet
<1>1. [][QuietProbe]_vars => ProbesOnlyWhenQuiet
  BY PTL DEF ProbesOnlyWhenQuiet, QuietProbe
<1> QED BY <1>1, QuietStep, TypeCorrect, PortsConsistent, PTL DEF Spec

(* The steps of PollOwnsPorts. *)
PortsOwned == pc # "loop" /\ pc' = pc /\ cur' = cur => UNCHANGED function

(* Inside a poll only the poll itself touches the functions. *)
LEMMA OwnedStep == PortsInv /\ [Next]_vars => [PortsOwned]_vars
<1> SUFFICES ASSUME PortsInv, Next, pc # "loop", pc' = pc, cur' = cur PROVE UNCHANGED function
  BY Zenon DEF PortsOwned
<1>1. busy /\ stage = "running"
  BY Zenon DEF PortsInv, PollInv
<1>2. ~Poll
  BY Zenon DEF Poll, PollBegins, Idle, PollServices, PollMaintains
<1>3. ~(\E i \in Ports : Tick(i)) /\ ~Proxy
  BY Zenon, <1>1 DEF Tick, Proxy, io_read, io_write, io_end, refresh, Idle
<1>4. ~Chainload
  BY ZenonT(40), <1>1 DEF Chainload, handoff, stop, init, Idle
<1>5. CASE World
  BY Zenon, <1>5 DEF World, Plug, Unplug, LinkMoves, HaltsLate, FallsDue, TrafficPauses, environment
<1> QED BY Zenon, <1>2, <1>3, <1>4, <1>5 DEF Next

(* The tick cannot change what maintain_port decides on between service_port *)
(* and maintain_port of one poll: the busy flag keeps it out.                *)
THEOREM PollOwns == Spec => PollOwnsPorts
<1>1. [][PortsOwned]_vars => PollOwnsPorts
  BY PTL DEF PollOwnsPorts, PortsOwned
<1> QED BY <1>1, OwnedStep, PortsConsistent, PTL DEF Spec
=============================================================================
