-------------------------------- MODULE StageTools --------------------------------
(***************************************************************************)
(* The host tools that replace or restart the target: loading another      *)
(* stage (q1n1proxy.py), rebooting it and choosing what boots (a16ctl.py), *)
(* and the serial window of a16ucsi.py.  Each section is a machine of its  *)
(* own.                                                                    *)
(***************************************************************************)
EXTENDS Integers, FiniteSets, Sequences

-----------------------------------------------------------------------------
(***************************************************************************)
(* Chainloading from the host (tools/q1n1proxy.py: pick_stage, chainload,  *)
(* check_stage_transport, stage_features, write_chunk and the takeover     *)
(* check of main).  A stage is built for one of two slots; the running one *)
(* executes in place.  The host can lose the link between any two steps.   *)
(***************************************************************************)

CONSTANTS Builds,      \* builds to load: their USB contract and whether they have back-pressure
          MaxRuns      \* chainloads started

VARIABLES slot, running, generation, ncm, host, cache, verdict, runs, wrote, missed, late

lvars == <<slot, running, generation, ncm, host, cache, verdict, runs, wrote, missed, late>>

Slots == {"a", "b"}
OtherSlot(s) == IF s = "a" THEN "b" ELSE "a"
NoBuild == [name |-> "none", contract |-> 0, back |-> "no"]
Stored == [build : Builds \union {NoBuild}, whole : BOOLEAN, fetched : BOOLEAN]
Empty == [build |-> NoBuild, whole |-> FALSE, fetched |-> FALSE]
Idle == [at |-> "idle", build |-> NoBuild, slot |-> "a", before |-> 0]
First == CHOOSE b \in Builds : b.contract = 1 /\ b.back = "no"
Unknown == "unknown"

StageInit ==
    /\ slot = [s \in Slots |-> IF s = "a" THEN [build |-> First, whole |-> TRUE, fetched |-> TRUE] ELSE Empty]
    /\ running = "a"
    /\ generation = 0
    /\ ncm = "live"                \* the state of the Mac's NCM link
    /\ host = Idle
    /\ cache = Unknown             \* Proxy._features
    /\ verdict = "none"
    /\ runs = 0
    /\ wrote = "fits"              \* the last bulk write: whether the stage could hold it
    /\ late = FALSE                 \* the Mac was plugged in between a check and its jump
    /\ missed = FALSE              \* the reply to a jump was never seen

Run == slot[running].build

-----------------------------------------------------------------------------

Free_AnySlot(s) == TRUE

\* The sibling whose link address is not the one executing.
Free(s) == s # running
pick_stage ==
    /\ host.at = "idle"
    /\ runs < MaxRuns
    /\ runs' = runs + 1
    /\ \E b \in Builds, s \in Slots :
          /\ Free(s)
          /\ host' = [at |-> "check", build |-> b, slot |-> s, before |-> generation]
    /\ verdict' = "none"
    /\ UNCHANGED <<slot, running, generation, ncm, cache, wrote, missed, late>>

Compatible_Always(b) == TRUE

\* A stage with another USB state layout would reset a configured NCM link: it is refused while one is up.
Compatible(b) == ncm = "live" => b.contract = Run.contract
check_stage_transport ==
    /\ host.at = "check"
    /\ host' = IF Compatible(host.build) THEN [host EXCEPT !.at = "write"] ELSE Idle
    /\ UNCHANGED <<slot, running, generation, ncm, cache, verdict, runs, wrote, missed, late>>

\* stage_features: read once from the running image and kept until a jump.
stage_features == IF cache = Unknown THEN Run.back ELSE cache

\* Bulk writes in chunks the transport and the stage can take; a stage without back-pressure drops
\* what its ring cannot hold.
write_chunk == IF stage_features = "yes" THEN "large" ELSE "small"
writemem ==
    /\ host.at = "write"
    /\ cache' = stage_features
    /\ wrote' = IF write_chunk = "large" /\ Run.back = "no" THEN "dropped" ELSE "fits"
    /\ \E whole \in BOOLEAN :
          slot' = [slot EXCEPT ![host.slot] = [build |-> host.build, whole |-> whole, fetched |-> FALSE]]
    /\ host' = [host EXCEPT !.at = "verify"]
    /\ UNCHANGED <<running, generation, ncm, verdict, runs, missed, late>>

Verified_Skipped == TRUE

\* chainload reads the image back before it cleans and invalidates the caches and jumps.
Verified == slot[host.slot].whole
Verify ==
    /\ host.at = "verify"
    /\ host' = IF Verified THEN [host EXCEPT !.at = "flush"] ELSE Idle
    /\ UNCHANGED <<slot, running, generation, ncm, cache, verdict, runs, wrote, missed, late>>

flush_code ==
    /\ host.at = "flush"
    /\ slot' = [slot EXCEPT ![host.slot].fetched = TRUE]
    /\ host' = [host EXCEPT !.at = "jump"]
    /\ UNCHANGED <<running, generation, ncm, cache, verdict, runs, wrote, missed, late>>

\* P_VECTOR: the target answers, then jumps; the stage it enters bumps the generation, and a handoff that
\* fails returns to the old stage.
Entered(s) ==
    /\ running' = s
    /\ generation' = generation + 1
    /\ ncm' = IF ncm = "live" /\ slot[s].build.contract # Run.contract THEN "reset" ELSE ncm
Returned == UNCHANGED <<running, generation, ncm>>
Forgets_Never == UNCHANGED cache

Forgets == cache' = Unknown

chainload ==
    /\ host.at = "jump"
    /\ \/ Entered(host.slot)
       \/ Returned
    /\ \/ /\ Forgets
          /\ host' = [host EXCEPT !.at = "connect"]
          /\ UNCHANGED missed
       \/ /\ UNCHANGED cache
          /\ host' = Idle
          /\ missed' = TRUE
    /\ UNCHANGED <<slot, verdict, runs, wrote, late>>

\* main: a fresh connection must show the new image and a later generation.
Takeover ==
    /\ host.at = "connect"
    /\ verdict' = IF running = host.slot /\ generation > host.before THEN "took over" ELSE "refused"
    /\ host' = Idle
    /\ UNCHANGED <<slot, running, generation, ncm, cache, runs, wrote, missed, late>>

\* A program that keeps its Proxy writes more; a new process starts without a cache.
BulkWrite ==
    /\ host.at = "idle"
    /\ cache' = stage_features
    /\ wrote' = IF write_chunk = "large" /\ Run.back = "no" THEN "dropped" ELSE "fits"
    /\ UNCHANGED <<slot, running, generation, ncm, host, verdict, runs, missed, late>>

LinkDies ==
    /\ \/ host.at # "idle"
       \/ cache # Unknown
    /\ host' = Idle
    /\ cache' = Unknown
    /\ UNCHANGED <<slot, running, generation, ncm, verdict, runs, wrote, missed, late>>

MacUnplugs ==
    /\ ncm = "live"
    /\ ncm' = "down"
    /\ UNCHANGED <<slot, running, generation, host, cache, verdict, runs, wrote, missed, late>>

MacPlugs ==
    /\ ncm = "down"
    /\ ncm' = "live"
    /\ late' = (late \/ host.at \notin {"idle", "check"})
    /\ UNCHANGED <<slot, running, generation, host, cache, verdict, runs, wrote, missed>>

StageNext ==
    \/ pick_stage \/ check_stage_transport \/ writemem \/ Verify \/ flush_code \/ chainload
    \/ Takeover \/ BulkWrite \/ LinkDies \/ MacUnplugs \/ MacPlugs

StageSpec == StageInit /\ [][StageNext]_lvars

-----------------------------------------------------------------------------

StageTypeOK ==
    /\ slot \in [Slots -> Stored] /\ running \in Slots /\ generation \in 0 .. MaxRuns
    /\ ncm \in {"live", "down", "reset"} /\ cache \in {Unknown, "yes", "no"}
    /\ verdict \in {"none", "took over", "refused"} /\ wrote \in {"fits", "dropped"}

\* The code that executes is whole and was made visible to instruction fetch, whatever was cut short
\* before: no upload touches the running slot and no jump goes to a slot that did not verify.
RunsWholeCode == slot[running].whole /\ slot[running].fetched

\* A chainload never resets a live NCM link, unless it came up after the check and before the jump.
LinkNotReset == ncm = "reset" => late

\* A bulk write is never larger than the running stage can hold, unless a jump's reply was missed and
\* the program went on with the same Proxy.
WritesFit == wrote = "fits" \/ missed

-----------------------------------------------------------------------------
(***************************************************************************)
(* tools/a16ctl.py boot, claim and status: the host looks where the A16 is *)
(* (state), asks Windows or the EL2 proxy to reset it, and answers the     *)
(* boot window that comes up.  The machine moves on its own: the window    *)
(* times out into Windows, --auto may enter the proxy directly, cables are *)
(* pulled.  Every boot of the proxy has a number.                          *)
(***************************************************************************)

CONSTANTS Cables,      \* cables between the Mac and the A16
          MaxBoots,    \* resets
          ControlMaxRuns      \* commands

VARIABLES at, boot, armed, plugged, cmd, pc, asked, old, gone, claimed, chosen, controlRuns, pulled

bvars == <<at, boot, armed, plugged, cmd, pc, asked, old, gone, claimed, chosen, controlRuns, pulled>>

Targets == {"q1n1", "windows", "hold"}
choice(t) == IF t = "q1n1" THEN "proxy" ELSE t
Places == {"windows", "window", "held", "proxy", "off"}
None == "none"
NoClaim == [how |-> None, boot |-> 0]

ControlInit ==
    /\ at = "windows"
    /\ boot = 0
    /\ armed = TRUE               \* BootNext brings the next reset back to q1n1
    /\ plugged = Cables
    /\ cmd = None
    /\ pc = "idle"
    /\ asked = FALSE              \* a reset request is on its way
    /\ old = 0                    \* the boot that was asked to reset
    /\ gone = None                \* the cable whose endpoint must disappear
    /\ claimed = NoClaim
    /\ chosen = None              \* what the window was told
    /\ controlRuns = 0
    /\ pulled = FALSE

\* ports: the serial ports (or NCM interfaces) of each cable that is in and has someone behind it.
ports(place) == IF at \in place THEN plugged ELSE {}
Proxy == {"proxy"}
Window == {"window", "held"}

\* Where the A16 is right now: the proxy first, then the window, then ssh.
state ==
    CASE ports(Proxy) # {} -> "proxy"
      [] ports(Proxy) = {} /\ ports(Window) # {} -> "boot-window"
      [] at = "windows" -> "windows"
      [] OTHER -> "absent"

Goes(next) == pc' = next
Ends == pc' = "idle" /\ cmd' = None
Machine == <<at, boot, armed, plugged, asked, pulled>>

command_boot(t) ==
    /\ pc = "idle" /\ controlRuns < ControlMaxRuns
    /\ controlRuns' = controlRuns + 1
    /\ cmd' = t
    /\ pc' = CASE state = "windows" -> IF t = "windows" THEN "done" ELSE "restart"
               [] state = "proxy" -> "reset"
               [] OTHER -> "claim"
    /\ claimed' = NoClaim /\ chosen' = None /\ old' = 0 /\ gone' = None
    /\ UNCHANGED Machine

command_claim(t) ==
    /\ pc = "idle" /\ controlRuns < ControlMaxRuns
    /\ controlRuns' = controlRuns + 1
    /\ cmd' = t /\ Goes("claim")
    /\ claimed' = NoClaim /\ chosen' = None /\ old' = 0 /\ gone' = None
    /\ UNCHANGED Machine

\* Windows arms BootNext and restarts.
reboot_from_windows ==
    /\ pc = "restart"
    /\ at = "windows" /\ at' = "off" /\ armed' = TRUE /\ Goes("claim") /\ UNCHANGED cmd
    /\ UNCHANGED <<boot, plugged, asked, old, gone, claimed, chosen, controlRuns, pulled>>

\* The proxy is asked to reset over one endpoint; the request has no reply and may be lost.
reboot_from_proxy ==
    /\ pc = "reset"
    /\ IF ports(Proxy) = {} THEN Goes("claim") /\ UNCHANGED <<asked, old, gone, cmd>>
       ELSE \E c \in ports(Proxy), heard \in BOOLEAN :
              /\ gone' = c
              /\ old' = boot
              /\ asked' = heard
              /\ Goes("vanish")
              /\ UNCHANGED cmd
    /\ UNCHANGED <<at, boot, armed, plugged, claimed, chosen, controlRuns, pulled>>

Vanished_NotAwaited == TRUE

\* The endpoint that was asked must disappear before a window or a proxy is claimed.
Vanished == gone \notin ports(Proxy)
WaitVanish ==
    /\ pc = "vanish"
    /\ \/ Vanished /\ Goes("claim") /\ UNCHANGED cmd
       \/ ~Vanished /\ ~asked /\ Ends
    /\ UNCHANGED <<at, boot, armed, plugged, asked, old, gone, claimed, chosen, controlRuns, pulled>>

Direct_AnyChoice(c) == ports(Window) = {} /\ ports(Proxy) # {}

\* The window is answered; only the normal proxy choice accepts a proxy that --auto entered directly,
\* and then only at EL2 with the return armed.
Direct(c) == c = "proxy" /\ ports(Window) = {} /\ ports(Proxy) # {}
claim_window ==
    /\ pc = "claim"
    /\ \/ /\ ports(Window) # {}
          /\ chosen' = choice(cmd)
          /\ claimed' = [how |-> "window", boot |-> boot]
          /\ at' = CASE cmd = "q1n1" -> "proxy" [] cmd = "hold" -> "held" [] OTHER -> "windows"
          /\ Goes("done") /\ UNCHANGED cmd
       \/ /\ Direct(choice(cmd))
          /\ IF armed THEN claimed' = [how |-> "direct", boot |-> boot] /\ Goes("done") /\ UNCHANGED cmd
                      ELSE Ends /\ UNCHANGED claimed
          /\ UNCHANGED <<chosen, at>>
       \/ /\ ports(Window) = {} /\ Ends /\ UNCHANGED <<claimed, chosen, at>>
    /\ UNCHANGED <<boot, armed, plugged, asked, old, gone, controlRuns, pulled>>

\* The caller waits for the proxy port or for ssh and reports.
Report ==
    /\ pc = "done"
    /\ Ends
    /\ UNCHANGED <<at, boot, armed, plugged, asked, old, gone, claimed, chosen, controlRuns, pulled>>

-----------------------------------------------------------------------------
(* The machine and the cables *)

Resets ==
    /\ asked /\ at = "proxy"
    /\ asked' = FALSE
    /\ at' = "off"
    /\ UNCHANGED <<boot, armed, plugged, cmd, pc, old, gone, claimed, chosen, controlRuns, pulled>>

\* Power-on: with BootNext armed q1n1 starts, as a window or (no dock) directly as the proxy.
Boots ==
    /\ at = "off" /\ boot < MaxBoots
    /\ boot' = boot + 1
    /\ at' \in IF armed THEN {"window", "proxy"} ELSE {"windows"}
    /\ armed' \in {armed, FALSE}
    /\ asked' = FALSE
    /\ UNCHANGED <<plugged, cmd, pc, old, gone, claimed, chosen, controlRuns, pulled>>

WindowTimesOut ==
    /\ at = "window"
    /\ at' = "windows"
    /\ UNCHANGED <<boot, armed, plugged, cmd, pc, asked, old, gone, claimed, chosen, controlRuns, pulled>>

Pull ==
    /\ \E c \in plugged : plugged' = plugged \ {c}
    /\ pulled' = TRUE
    /\ UNCHANGED <<at, boot, armed, cmd, pc, asked, old, gone, claimed, chosen, controlRuns>>

ControlNext ==
    \/ (\E t \in Targets : command_boot(t) \/ command_claim(t))
    \/ reboot_from_windows \/ reboot_from_proxy \/ WaitVanish \/ claim_window \/ Report
    \/ Resets \/ Boots \/ WindowTimesOut \/ Pull

ControlSpec == ControlInit /\ [][ControlNext]_bvars

-----------------------------------------------------------------------------

ControlTypeOK ==
    /\ at \in Places /\ boot \in 0 .. MaxBoots /\ armed \in BOOLEAN /\ plugged \subseteq Cables
    /\ cmd \in Targets \union {None} /\ controlRuns \in 0 .. ControlMaxRuns /\ pulled \in BOOLEAN

\* After a reset was asked for, what is claimed is a later boot than the one that was asked: the old
\* proxy is never taken for the new one (unless a cable was pulled, which looks like the reset).
ClaimedIsNew == claimed.how # None /\ old > 0 => claimed.boot > old \/ pulled

\* A choice other than the proxy counts as made only when a boot window took it.
OthersNeedWindow == pc = "done" /\ cmd = "hold" => claimed.how = "window" /\ chosen = "hold"

-----------------------------------------------------------------------------
(***************************************************************************)
(* tools/a16ucsi.py: UCSI commands through the line protocol of the boot   *)
(* window.  The target answers its lines in order; a run that gives up, or *)
(* is killed, leaves commands queued and answers unread, and the next run  *)
(* shares the port.  The PPM raises Command Completed only once            *)
(* notifications are enabled, and a PPM_RESET disables them.               *)
(***************************************************************************)

CONSTANTS UcsiMaxRuns, MaxTimeouts

VARIABLES queue, lines, todo, wait, run, notify, role, ucsiRuns, timeouts, next, took, blind

wvars == <<queue, lines, todo, wait, run, notify, role, ucsiRuns, timeouts, next, took, blind>>

UcsiNone == "none"

connect_NoHold == <<"notify">>

\* connect: hold, ucsi init, SET_NOTIFICATION_ENABLE, before any other command.
connect == <<"hold", "init", "notify">>
handshake_NoNotify == <<"reset", "capability">>

handshake == <<"reset", "notify", "capability">>

\* The commands of each subcommand; an error status is asked for when the swap or mode was rejected.
command_status == connect \o <<"capability", "status">>
command_swap == connect \o handshake \o <<"status", "uor", "status">>
command_ccom == connect \o <<"status", "ccom", "status">>
command_leave == <<"leave">>
Runs == {command_status, command_swap, command_ccom, command_leave}

\* The reply each line is recognised by.
Prefix(c) ==
    CASE c = "hold" -> "OK hold" [] c = "leave" -> "OK proxy" [] c = "init" -> "UCSI init" [] OTHER -> "UCSI cci"
Expects(c, reply) == IF c = "leave" THEN reply \in {"OK hold", "OK proxy"} ELSE reply = Prefix(c)

UcsiInit ==
    /\ queue = <<>> /\ lines = <<>> /\ todo = <<>>
    /\ wait = [cmd |-> UcsiNone, id |-> 0]
    /\ run = "none"
    /\ notify = FALSE
    /\ role = "dfp"
    /\ ucsiRuns = 0 /\ timeouts = 0 /\ next = 1
    /\ took = [id |-> 0, want |-> 0, cmd |-> UcsiNone]
    /\ blind = FALSE

\* Opening the port flushes what it already received.
Start ==
    /\ run = "none" /\ ucsiRuns < UcsiMaxRuns
    /\ \E r \in Runs : todo' = r
    /\ run' = "open"
    /\ ucsiRuns' = ucsiRuns + 1
    /\ lines' = <<>>
    /\ UNCHANGED <<queue, wait, notify, role, timeouts, next, took, blind>>

\* Window.send: one line out, then the lines that come in.
send ==
    /\ run = "open" /\ wait.cmd = UcsiNone /\ todo # <<>>
    /\ queue' = Append(queue, [cmd |-> Head(todo), id |-> next])
    /\ wait' = [cmd |-> Head(todo), id |-> next]
    /\ next' = next + 1
    /\ todo' = Tail(todo)
    /\ UNCHANGED <<lines, run, notify, role, ucsiRuns, timeouts, took, blind>>

\* Window.lines: lines that are not the reply waited for are passed over; ERR ends the run.
Reads ==
    /\ wait.cmd # UcsiNone /\ lines # <<>>
    /\ lines' = Tail(lines)
    /\ LET l == Head(lines) IN
       IF Expects(wait.cmd, l.reply) /\ ~l.err
         THEN /\ took' = [id |-> l.id, want |-> wait.id, cmd |-> wait.cmd]
              /\ wait' = [cmd |-> UcsiNone, id |-> 0]
              /\ todo' = IF l.rejected THEN <<"error">> \o todo ELSE todo
              /\ UNCHANGED run
         ELSE IF l.err THEN /\ wait' = [cmd |-> UcsiNone, id |-> 0] /\ todo' = <<>> /\ run' = "none"
                                      /\ UNCHANGED took
              ELSE UNCHANGED <<wait, took, todo, run>>
    /\ UNCHANGED <<queue, notify, role, ucsiRuns, timeouts, next, blind>>

UcsiEnds ==
    /\ run = "open" /\ wait.cmd = UcsiNone /\ todo = <<>>
    /\ run' = "none"
    /\ UNCHANGED <<queue, lines, todo, wait, notify, role, ucsiRuns, timeouts, next, took, blind>>

\* No reply in time, or the process is killed: what is queued stays queued.
GivesUp ==
    /\ run = "open" /\ timeouts < MaxTimeouts
    /\ timeouts' = timeouts + 1
    /\ run' = "none" /\ todo' = <<>> /\ wait' = [cmd |-> UcsiNone, id |-> 0]
    /\ UNCHANGED <<queue, lines, notify, role, ucsiRuns, next, took, blind>>

\* The boot window: one line at a time, in order.
Answer(c, rejected, err) ==
    [id |-> c.id, rejected |-> rejected, err |-> err, reply |-> IF c.cmd = "leave" THEN "OK proxy" ELSE Prefix(c.cmd)]
Target ==
    /\ queue # <<>>
    /\ queue' = Tail(queue)
    /\ LET c == Head(queue) IN
       /\ notify' = CASE c.cmd = "notify" -> TRUE [] c.cmd = "reset" -> FALSE [] OTHER -> notify
       /\ blind' = (blind \/ (c.cmd \in {"capability", "status", "uor", "ccom", "error"} /\ ~notify))
       /\ \E no \in {(c.cmd \in {"uor", "ccom"}), FALSE} :
             /\ role' = IF c.cmd = "uor" /\ ~no THEN "ufp" ELSE role
             /\ \E err \in {(c.cmd = "init"), FALSE} : lines' = Append(lines, Answer(c, no, err))
    /\ UNCHANGED <<todo, wait, run, ucsiRuns, timeouts, next, took>>

UcsiNext == Start \/ send \/ Reads \/ UcsiEnds \/ GivesUp \/ Target

UcsiSpec == UcsiInit /\ [][UcsiNext]_wvars

-----------------------------------------------------------------------------

UcsiTypeOK ==
    /\ run \in {"none", "open"} /\ notify \in BOOLEAN /\ blind \in BOOLEAN /\ role \in {"dfp", "ufp"}
    /\ ucsiRuns \in 0 .. UcsiMaxRuns /\ timeouts \in 0 .. MaxTimeouts /\ Len(queue) <= next

\* Every UCSI answer a run takes is the one to its own command: what an abandoned run left behind is
\* passed over while the new run waits for its hold and init (MaxTimeouts abandoned runs in a row).
AnswersAreOurs == took.cmd \notin {UcsiNone, "leave", "hold", "init"} => took.id = took.want

\* The PPM is asked nothing whose completion it would not report: notifications are on whenever a query
\* or a role change runs, whatever an earlier run was cut in.
NeverBlind == ~blind
=============================================================================
