---------------------------------- MODULE HvShell ----------------------------------
(***************************************************************************)
(* What a person at the hypervisor's console uses: the gdb server, the     *)
(* shell with its register cache and monitors, and the address and symbol  *)
(* helpers.  Each section is a machine of its own.                         *)
(***************************************************************************)
EXTENDS Integers, Sequences, FiniteSets, SequencesExt, TLC, FiniteSetsExt

-----------------------------------------------------------------------------
(***************************************************************************)
(* The hypervisor's GDB server (proxyclient/m1n1/hv/gdbserver): a thread   *)
(* that serves one debugger at a time beside the main thread, which runs   *)
(* the guest's events and, when the guest stops, a console.  The server    *)
(* resumes the guest with a signal to the console and learns of the next   *)
(* stop through an event counter it drains before it waits.  Packets, the  *)
(* selected CPUs and the register writes are modelled next to the race     *)
(* between the two threads.                                                *)
(***************************************************************************)

CONSTANTS CPUs,
          MaxStops,     \* bound on the guest's stops
          MaxTokens     \* bound on the length of a packet stream

VARIABLES main,     \* main thread: guest, entering, shell, leaving, dead
          sig,      \* SIGUSR1 raised, the console has not seen it yet
          bang,     \* a "!" is on its way to the proxy
          efd,      \* the event counter is not zero
          gdb,      \* server thread: off, check, drain, wait, idle
          path,     \* why it waits: connect or cont
          brk,      \* a Ctrl-C byte of the debugger is unread
          ctx,      \* CPU the proxy context is of (0: none)
          hc, hg,   \* selected CPUs (0: none)
          reply,    \* [op, ok, cpu, want]: the last answer
          stops,
          unasked,  \* the guest was let go at the console, or by a session that is gone
          missed,   \* a stop was signalled between letting the guest go and the drain
          ask

gdbVars == <<main, sig, bang, efd, gdb, path, brk, ctx, hc, hg, reply, stops, unasked, missed, ask>>
threads == <<main, sig, bang, efd, gdb, path, brk, ctx, hc, hg, reply, stops, unasked, missed>>

None == "none"
NoReply == [op |-> None, ok |-> TRUE, cpu |-> 0, want |-> 0]

GdbInit ==
    /\ main = "guest" /\ sig = FALSE /\ bang = FALSE /\ efd = FALSE
    /\ gdb = "off" /\ path = None /\ brk = FALSE
    /\ ctx = 0 /\ hc = 0 /\ hg = 0 /\ reply = NoReply
    /\ stops = 0 /\ unasked = FALSE /\ missed = FALSE
    /\ ask = [kind |-> None]

-----------------------------------------------------------------------------
(***************************************************************************)
(* The main thread                                                         *)
(***************************************************************************)
\* The guest traps, or the proxy sees the "!": handle_exception.
GuestTraps(c) ==
    /\ main = "guest" /\ stops < MaxStops /\ stops' = stops + 1
    /\ main' = "entering" /\ ctx' = c /\ bang' = FALSE
    /\ UNCHANGED <<sig, efd, gdb, path, brk, hc, hg, unasked, missed>> /\ reply' = NoReply

EnterShell_Silent ==
    /\ main = "entering" /\ main' = "shell"
    /\ UNCHANGED <<sig, bang, efd, gdb, path, brk, ctx, hc, hg, stops, unasked, missed>> /\ reply' = NoReply

\* run_shell tells the server; an event handled in Python never gets there.
EnterShell ==
    /\ main = "entering" /\ main' = "shell" /\ efd' = TRUE
    /\ missed' = (missed \/ gdb = "drain")
    /\ UNCHANGED <<sig, bang, gdb, path, brk, ctx, hc, hg, stops, unasked>> /\ reply' = NoReply

HandledQuietly ==
    /\ main = "entering" /\ main' = "leaving"
    /\ UNCHANGED <<sig, bang, efd, gdb, path, brk, ctx, hc, hg, stops, unasked, missed>> /\ reply' = NoReply

\* handle_sigusr1 leaves the console.
SignalTaken ==
    /\ sig /\ main = "shell" /\ sig' = FALSE /\ main' = "leaving"
    /\ UNCHANGED <<bang, efd, gdb, path, brk, ctx, hc, hg, stops, unasked, missed>> /\ reply' = NoReply

\* The user continues at the console.
ConsoleContinues ==
    /\ main = "shell" /\ ~sig /\ main' = "leaving" /\ unasked' = TRUE
    /\ UNCHANGED <<sig, bang, efd, gdb, path, brk, ctx, hc, hg, stops, missed>> /\ reply' = NoReply

\* The end of handle_exception: the context is committed and gone.
GuestRuns ==
    /\ main = "leaving" /\ main' = "guest" /\ ctx' = 0
    /\ UNCHANGED <<sig, bang, efd, gdb, path, brk, hc, hg, stops, unasked, missed>> /\ reply' = NoReply

-----------------------------------------------------------------------------
(***************************************************************************)
(* The server thread                                                       *)
(***************************************************************************)
\* HV.interrupt does nothing while a handler runs.
Kick == bang' = (bang \/ main = "guest")

Connect ==
    /\ gdb = "off" /\ gdb' = "check"
    /\ UNCHANGED <<main, sig, bang, efd, path, brk, ctx, hc, hg, stops, unasked, missed>> /\ reply' = NoReply

Check_Skips ==
    /\ gdb = "check" /\ gdb' = "idle" /\ path' = None
    /\ UNCHANGED <<main, sig, bang, efd, brk, ctx, hc, hg, stops, unasked, missed>> /\ reply' = NoReply

\* __handle, up to the first packet.
Check ==
    /\ gdb = "check"
    /\ IF main = "shell" THEN gdb' = "idle" /\ path' = None /\ UNCHANGED bang
       ELSE gdb' = "drain" /\ path' = "connect" /\ Kick
    /\ UNCHANGED <<main, sig, efd, brk, ctx, hc, hg, stops, unasked, missed>> /\ reply' = NoReply

DrainStep_Keeps ==
    /\ gdb = "drain" /\ gdb' = "wait" /\ UNCHANGED efd
    /\ UNCHANGED <<main, sig, bang, path, brk, ctx, hc, hg, stops, unasked, missed>> /\ reply' = NoReply

\* __wait_shell: old notifications are thrown away, then the wait begins.
DrainStep ==
    /\ gdb = "drain" /\ gdb' = "wait" /\ efd' = FALSE
    /\ UNCHANGED <<main, sig, bang, path, brk, ctx, hc, hg, stops, unasked, missed>> /\ reply' = NoReply

Answer(op, ok, want) == reply' = [op |-> op, ok |-> ok, cpu |-> ctx, want |-> want]

\* __stop_reply forgets the selected CPUs; without a context it raises.
StopReply == hc' = 0 /\ hg' = 0 /\ Answer("stop", ctx # 0, ctx)

Wake ==
    /\ gdb = "wait" /\ efd /\ gdb' = "idle" /\ path' = None
    /\ missed' = FALSE
    /\ IF path = "cont" THEN StopReply ELSE UNCHANGED <<hc, hg>> /\ reply' = NoReply
    /\ UNCHANGED <<main, sig, bang, efd, brk, ctx, stops, unasked>>

\* The socket is watched only once the debugger has been let in.
Break ==
    /\ gdb = "wait" /\ path = "cont" /\ ~efd /\ brk /\ brk' = FALSE
    /\ Kick
    /\ UNCHANGED <<main, sig, efd, gdb, path, ctx, hc, hg, stops, unasked, missed>> /\ reply' = NoReply

DebuggerBreaks ==
    /\ gdb \in {"wait", "drain"} /\ path = "cont" /\ ~brk /\ brk' = TRUE /\ stops < MaxStops
    /\ UNCHANGED <<main, sig, bang, efd, gdb, path, ctx, hc, hg, stops, unasked, missed>> /\ reply' = NoReply

\* H: only started CPUs.
Select(c, which) ==
    /\ gdb = "idle"
    /\ hc' = IF which = "c" THEN c ELSE hc
    /\ hg' = IF which = "g" THEN c ELSE hg
    /\ Answer("H", TRUE, ctx)
    /\ UNCHANGED <<main, sig, bang, efd, gdb, path, brk, ctx, stops, unasked, missed>>

\* __cpu: the context moves to the selected CPU; without one it raises.
To(c) == IF c = 0 THEN ctx ELSE c

Registers_NoSelect(op, reg) ==
    /\ gdb = "idle"
    /\ reply' = [op |-> op, ok |-> ctx # 0, cpu |-> ctx, want |-> To(hg)]
    /\ UNCHANGED <<main, sig, bang, efd, gdb, path, brk, ctx, hc, hg, stops, unasked, missed>>

\* g, p and P: registers of the CPU selected with Hg.  P of x0 .. x30 and sp asks
\* the field for a method it does not have, so it fails and writes nothing.
Registers(op, reg) ==
    /\ gdb = "idle"
    /\ IF ctx = 0 THEN reply' = [op |-> op, ok |-> FALSE, cpu |-> 0, want |-> 0] /\ UNCHANGED ctx
       ELSE /\ ctx' = To(hg)
            /\ reply' = [op |-> op, ok |-> op # "P" \/ reg \notin {"x", "sp"}, cpu |-> ctx', want |-> To(hg)]
    /\ UNCHANGED <<main, sig, bang, efd, gdb, path, brk, hc, hg, stops, unasked, missed>>

\* G fails on the status register, after x, sp and pc of the CPU are written.
WriteAll ==
    /\ gdb = "idle"
    /\ ctx' = IF ctx = 0 THEN 0 ELSE To(hg)
    /\ reply' = [op |-> "G", ok |-> FALSE, cpu |-> ctx', want |-> ctx']
    /\ UNCHANGED <<main, sig, bang, efd, gdb, path, brk, hc, hg, stops, unasked, missed>>

\* M and X write guest memory; a short M answers with text where bytes are
\* expected, which ends the session.
WriteMemory(op, short) ==
    /\ gdb = "idle"
    /\ gdb' = IF op = "M" /\ short THEN "off" ELSE "idle"
    /\ Answer(op, ~short, ctx)
    /\ UNCHANGED <<main, sig, bang, efd, path, brk, ctx, hc, hg, stops, unasked, missed>>

\* qC: the selected CPU, or the one the context is of.
Query ==
    /\ gdb = "idle"
    /\ reply' = [op |-> "qC", ok |-> To(hg) # 0, cpu |-> To(hg), want |-> To(hg)]
    /\ UNCHANGED <<main, sig, bang, efd, gdb, path, brk, ctx, hc, hg, stops, unasked, missed>>

\* s: the step runs in the server's thread and ends with a stop reply.
StepGuest ==
    /\ gdb = "idle" /\ ~sig
    /\ IF ctx = 0 THEN Answer("s", FALSE, 0) /\ UNCHANGED <<ctx, hc, hg>>
       ELSE /\ ctx' = To(hc) /\ hc' = 0 /\ hg' = 0
            /\ reply' = [op |-> "s", ok |-> TRUE, cpu |-> ctx', want |-> To(hc)]
    /\ UNCHANGED <<main, sig, bang, efd, gdb, path, brk, stops, unasked, missed>>

\* c: outside the console SIGUSR1 has its default action, which ends the process.
Continue ==
    /\ gdb = "idle" /\ ~sig
    /\ IF main = "shell" THEN sig' = TRUE /\ UNCHANGED main ELSE main' = "dead" /\ UNCHANGED sig
    /\ gdb' = "drain" /\ path' = "cont" /\ missed' = FALSE
    /\ UNCHANGED <<bang, efd, brk, ctx, hc, hg, stops, unasked>> /\ reply' = NoReply

\* The debugger hangs up; noticed when the socket is read.
HangUp ==
    /\ gdb = "idle" \/ (gdb = "wait" /\ path = "cont")
    /\ gdb' = "off" /\ path' = None /\ brk' = FALSE /\ unasked' = (unasked \/ gdb = "wait")
    /\ UNCHANGED <<main, sig, bang, efd, ctx, hc, hg, stops, missed>> /\ reply' = NoReply

-----------------------------------------------------------------------------
(***************************************************************************)
(* Packets                                                                 *)
(***************************************************************************)
Tokens == {<<"$">>, <<"d">>, <<"#", "h", "h">>, <<"#", "g", "h">>, <<"#", "z", "h">>, <<"#">>}
Streams == {FlattenSeq(s) : s \in UNION {[1 .. n -> Tokens] : n \in 1 .. MaxTokens}}

Find(b, x, from) == LET S == {i \in from .. Len(b) : b[i] = x} IN IF S = {} THEN 0 ELSE CHOOSE i \in S : \A j \in S : i <= j

\* Checksum digits: "h" right, "g" a digit but wrong, anything else no digit.
Verdict(p) == IF p[1] \notin {"h", "g"} \/ p[2] \notin {"h", "g"} THEN <<>>
              ELSE IF p = <<"h", "h">> THEN <<"+">> ELSE <<"-">>

RECURSIVE Packets(_)

\* The inner loop of __handle: the answers, and the rest of the buffer.
Packets(b) ==
    LET d == Find(b, "$", 1)
        s == IF d = 0 THEN 0 ELSE Find(b, "#", d)
    IN IF d = 0 THEN [out |-> <<>>, rest |-> <<>>]
       ELSE IF s = 0 \/ Len(b) < s + 2 THEN [out |-> <<>>, rest |-> SubSeq(b, d, Len(b))]
       ELSE LET more == Packets(SubSeq(b, s + 3, Len(b))) IN
            [more EXCEPT !.out = <<<<SubSeq(b, d + 1, s - 1), Verdict(SubSeq(b, s + 1, s + 2))>>>> \o @]

Receive_Drops(x, y) == Packets(x).out \o Packets(y).out

\* Two reads of the socket.
Receive(x, y) == LET a == Packets(x) IN a.out \o Packets(a.rest \o y).out

AskPackets == \E s \in Streams : \E n \in 0 .. Len(s) :
    ask' = [kind |-> "packets", s |-> s, got |-> Receive(SubSeq(s, 1, n), SubSeq(s, n + 1, Len(s)))]

\* __send escapes the four characters of the framing by flipping bit 5.
Special == {"#", "$", "}", "*"}
Flip == ("#" :> "0x03" @@ "$" :> "0x04" @@ "}" :> "0x5d" @@ "*" :> "0x0a")
Body_HashOnly(data) == FlattenSeq([i \in DOMAIN data |-> IF data[i] \in {"#", "$"} THEN <<"}", Flip[data[i]]>> ELSE <<data[i]>>])

send(data) == FlattenSeq([i \in DOMAIN data |-> IF data[i] \in Special THEN <<"}", Flip[data[i]]>> ELSE <<data[i]>>])

RECURSIVE Unescape(_)
Unescape(b) == IF b = <<>> THEN <<>>
               ELSE IF b[1] = "}" /\ Len(b) > 1 THEN <<CHOOSE c \in Special : Flip[c] = b[2]>> \o Unescape(SubSeq(b, 3, Len(b)))
               ELSE <<b[1]>> \o Unescape(SubSeq(b, 2, Len(b)))

AskSend == \E d \in UNION {[1 .. n -> Special \cup {"x"}] : n \in 0 .. 3} :
    ask' = [kind |-> "send", d |-> d, body |-> send(d)]

\* Z2..Z4: a watchpoint inside one doubleword; the stop names its first byte.
add_wp_NoLimit(a, kind) == [addr |-> a - (a % 8), first |-> a % 8]

add_wp(a, kind) == IF (a % 8) + kind > 8 THEN [addr |-> -1, first |-> 0] ELSE [addr |-> a - (a % 8), first |-> a % 8]

AskWatch == \E a \in 0 .. 17, kind \in 1 .. 8 :
    ask' = [kind |-> "watch", a |-> a, n |-> kind, wp |-> add_wp(a, kind)]

-----------------------------------------------------------------------------
AskStep == stops = 0 /\ gdb = "off" /\ ask.kind = None /\ (AskPackets \/ AskSend \/ AskWatch) /\ UNCHANGED threads

ThreadStep ==
    /\ ask.kind = None /\ main # "dead" /\ UNCHANGED ask
    /\ \/ \E c \in CPUs : GuestTraps(c)
       \/ EnterShell \/ HandledQuietly \/ SignalTaken \/ ConsoleContinues \/ GuestRuns
       \/ Connect \/ Check \/ DrainStep \/ Wake \/ Break \/ DebuggerBreaks
       \/ \E c \in CPUs, w \in {"c", "g"} : Select(c, w)
       \/ \E op \in {"g", "P"}, reg \in {"x", "pc"} : Registers(op, reg)
       \/ WriteAll \/ Query \/ (\E op \in {"M", "X"}, short \in BOOLEAN : WriteMemory(op, short))
       \/ StepGuest \/ Continue \/ HangUp

GdbNext == AskStep \/ ThreadStep

GdbSpec == GdbInit /\ [][GdbNext]_gdbVars

-----------------------------------------------------------------------------
GdbTypeOK ==
    /\ main \in {"guest", "entering", "shell", "leaving", "dead"}
    /\ gdb \in {"off", "check", "drain", "wait", "idle"} /\ path \in {None, "connect", "cont"}
    /\ ctx \in CPUs \cup {0} /\ hc \in CPUs \cup {0} /\ hg \in CPUs \cup {0}
    /\ stops \in 0 .. MaxStops

\* A debugger is left waiting beside an open console only when the guest had
\* stopped again before the server drained the counter (__wait_shell reads the
\* counter after the guest has been let go).
NotLeftWaiting ==
    gdb = "wait" /\ main = "shell" /\ ~efd /\ ~sig => missed

\* A "c" is answered with a stop only when the guest really stopped: a context
\* is there, unless the console or an earlier session had let the guest go.
StopMeansStopped == reply.op = "stop" /\ ~reply.ok => unasked

\* Registers are those of the CPU selected with Hg, and a step is one of the CPU
\* selected with Hc; the answer is about that CPU.
SelectedCpu == reply.op \in {"g", "P", "s"} /\ reply.ok => reply.cpu = reply.want

\* Only a guest this session did not let go can turn "c" into the end of the
\* process (SIGUSR1 outside run_shell).
DiesUnaskedOnly == main = "dead" => unasked

\* How the socket cuts the stream into reads changes no answer.
CutsUnseen == ask.kind = "packets" => ask.got = Packets(ask.s).out

\* A reply is framed safely and reads back as what was sent.
ReadsBack ==
    ask.kind = "send" =>
        /\ \A i \in DOMAIN ask.body : ask.body[i] \notin {"#", "$", "*"}
        /\ Unescape(ask.body) = ask.d

\* A watchpoint that is accepted watches exactly the bytes asked for.
WatchesAll ==
    ask.kind = "watch" /\ ask.wp.addr >= 0 =>
        /\ ask.wp.addr + ask.wp.first = ask.a
        /\ ask.wp.first + ask.n <= 8

-----------------------------------------------------------------------------
(***************************************************************************)
(* What the interactive m1n1 client keeps between two lines typed          *)
(* (proxyclient/m1n1/shell.py, ishell_ext.py, proxyutils.py, utils.py):    *)
(* the SIMD registers, fetched at the first use and pushed back after the  *)
(* line; the register monitor's last picture of each range, printed as a   *)
(* difference; the baud rate found when the port is opened; and the dumps, *)
(* with repeated rows left out.  The four are explored apart.              *)
(***************************************************************************)

CONSTANTS ShellMaxStops,   \* bound on the stops of the guest
          MaxLines,   \* bound on lines typed and gdb packets
          MaxPolls    \* bound on polls and on changes of memory

VARIABLES part,                              \* which of the four
          stop, regs, cache, line, left, seen, lines,        \* SIMD registers
          mem, last, view, behind, at, polls,                \* monitor
          port,                              \* [dev, host, kind, st, timeout]
          shellAsk

simd == <<stop, regs, cache, line, left, seen, lines>>
mon == <<mem, last, view, behind, at, polls>>
shellVars == <<part, stop, regs, cache, line, left, seen, lines, mem, last, view, behind, at, polls, port, shellAsk>>

ShellNone == "none"
NoCache == [of |-> 0, val |-> ShellNone, gdb |-> FALSE]
Ranges == 1 .. 2
Words == {"0", "1"}
Blocks == {<<x, y>> : x, y \in Words}
Lost == <<>>

ShellInit ==
    /\ part = ShellNone
    /\ stop = 1 /\ regs = "guest" /\ cache = NoCache /\ line = ShellNone /\ left = FALSE
    /\ seen = [of |-> 1, at |-> 1, left |-> FALSE] /\ lines = 0
    /\ mem = [r \in Ranges |-> <<"0", "0">>] /\ last = [r \in Ranges |-> Lost]
    /\ view = [r \in Ranges |-> Lost] /\ behind = {} /\ at = 0 /\ polls = 0
    /\ port = [dev |-> "slow", host |-> "slow", kind |-> "uart", st |-> "closed", timeout |-> "usual"]
    /\ shellAsk = [kind |-> ShellNone]

In(p) == part \in {ShellNone, p} /\ part' = p

-----------------------------------------------------------------------------
(***************************************************************************)
(* SIMD registers                                                          *)
(***************************************************************************)
get_simd_Fresh == IF cache = NoCache THEN [of |-> stop, val |-> "guest", gdb |-> FALSE] ELSE cache

\* get_simd: what is cached, or else the registers of the CPU that stopped.
get_simd == IF cache = NoCache THEN [of |-> stop, val |-> regs, gdb |-> FALSE] ELSE cache
Sees(c) == seen' = [of |-> c.of, at |-> stop, left |-> left]

\* A line typed reads or changes registers, or leaves them alone; it may also
\* leave the console.
LineStarts(kind) ==
    /\ line = ShellNone /\ lines < MaxLines /\ lines' = lines + 1
    /\ line' = kind
    /\ IF kind = "plain" THEN UNCHANGED <<cache, seen>>
       ELSE /\ cache' = (IF kind = "edit" THEN [get_simd EXCEPT !.val = "edit"] ELSE get_simd)
            /\ Sees(get_simd)
    /\ UNCHANGED <<stop, regs, left>>

push_simd_Keeps == regs' = (IF cache = NoCache THEN regs ELSE cache.val) /\ UNCHANGED cache

\* push_simd: the cached registers go to the CPU now stopped, and are forgotten.
push_simd == regs' = (IF cache = NoCache THEN regs ELSE cache.val) /\ cache' = NoCache

\* runcode: the line returns or raises, the poll and the push follow.
runcode == line # ShellNone /\ line' = ShellNone /\ push_simd /\ UNCHANGED <<stop, left, seen, lines>>

Resumed == stop < ShellMaxStops /\ stop' = stop + 1 /\ regs' = "guest"

\* ExitConsole passes through runcode: nothing is pushed.
ExitConsole ==
    /\ line # ShellNone /\ line' = ShellNone /\ Resumed /\ left' = (left \/ line # "plain" \/ cache.gdb)
    /\ UNCHANGED <<cache, seen, lines>>

\* The debugger's g and p read through the cache, and P and G push; c resumes.
GdbReads ==
    /\ line = ShellNone /\ lines < MaxLines /\ lines' = lines + 1
    /\ cache' = [get_simd EXCEPT !.gdb = TRUE] /\ Sees(get_simd) /\ UNCHANGED <<stop, regs, line, left>>
GdbWrites ==
    /\ line = ShellNone /\ lines < MaxLines /\ lines' = lines + 1
    /\ Sees(get_simd) /\ regs' = "edit" /\ cache' = NoCache /\ UNCHANGED <<stop, line, left>>
GdbContinues ==
    /\ line = ShellNone /\ lines > 0 /\ Resumed /\ left' = (left \/ cache.gdb)
    /\ UNCHANGED <<cache, line, seen, lines>>

SimdStep ==
    /\ In("simd") /\ UNCHANGED <<mon, port, shellAsk>>
    /\ \/ \E k \in {"plain", "read", "edit"} : LineStarts(k)
       \/ runcode \/ ExitConsole \/ GdbReads \/ GdbWrites \/ GdbContinues

-----------------------------------------------------------------------------
(***************************************************************************)
(* Register monitor                                                        *)
(***************************************************************************)
Change(r, b) ==
    /\ at = 0 /\ polls < MaxPolls /\ mem[r] # b
    /\ polls' = polls + 1 /\ mem' = [mem EXCEPT ![r] = b] /\ UNCHANGED <<last, view, behind, at>>

\* The reader of chexdiff32's output: rows that differ from the last picture
\* are replaced; without a last picture the whole range is printed.
Printed(old, prev, new) == IF prev = Lost THEN new ELSE [i \in DOMAIN new |-> IF prev[i] # new[i] THEN new[i] ELSE old[i]]

\* poll(): the ranges in order; readmem of one may give nothing, or raise, and
\* then no picture of this poll is kept.
PollRange ==
    /\ at \in Ranges
    /\ \/ /\ view' = [view EXCEPT ![at] = Printed(view[at], last[at], mem[at])]
          /\ behind' = IF last[at] = Lost /\ mem[at] # Lost THEN behind \ {at} ELSE behind
          /\ at' = at + 1 /\ UNCHANGED <<mem, last, polls>>
       \/ /\ polls < MaxPolls /\ polls' = polls + 1 /\ mem[at] # Lost
          /\ mem' = [mem EXCEPT ![at] = Lost]
          /\ at' = at + 1 /\ UNCHANGED <<last, view, behind>>
       \/ /\ polls < MaxPolls /\ polls' = polls + 1 /\ at' = 0
          /\ behind' = behind \cup (1 .. at - 1) /\ UNCHANGED <<mem, last, view>>

PollEnds_Diff == at > 2 /\ at' = 0 /\ last' = [r \in Ranges |-> IF last[r] = Lost THEN mem[r] ELSE last[r]] /\ UNCHANGED <<mem, view, behind, polls>>
PollEnds == at > 2 /\ at' = 0 /\ last' = mem /\ UNCHANGED <<mem, view, behind, polls>>
PollStarts == at = 0 /\ polls < MaxPolls /\ polls' = polls + 1 /\ at' = 1 /\ UNCHANGED <<mem, last, view, behind>>

MonStep ==
    /\ In("mon") /\ UNCHANGED <<simd, port, shellAsk>>
    /\ \/ \E r \in Ranges, b \in Blocks : Change(r, b)
       \/ PollStarts \/ PollRange \/ PollEnds

-----------------------------------------------------------------------------
(***************************************************************************)
(* bootstrap_port                                                          *)
(***************************************************************************)
Hears == port.dev = port.host

\* iodev_whoami: an answer, an unknown command, or silence, after which the
\* target is taken to be fast already.
Whoami ==
    /\ port.st = "closed"
    /\ \E d \in {"slow", "fast"}, k \in {"uart", "usb", "old"} :
          LET p == [dev |-> (IF k = "usb" THEN "slow" ELSE d), host |-> "slow", kind |-> k, timeout |-> "short", st |-> ShellNone]
          IN port' = IF p.dev # p.host THEN [p EXCEPT !.host = "fast", !.st = "nop"]
                     ELSE [p EXCEPT !.st = IF k = "usb" THEN "nop" ELSE "baud"]

SetBaud_Trusts ==
    /\ port.st = "baud"
    /\ \E applied \in BOOLEAN : port' = [port EXCEPT !.dev = IF applied THEN "fast" ELSE "slow", !.host = "fast", !.st = "open", !.timeout = "usual"]

\* set_baud: the answer comes at the new rate, so the wait ends in a timeout
\* whether or not the rate was changed, and the host changes its own.
SetBaud ==
    /\ port.st = "baud"
    /\ \E applied \in BOOLEAN : port' = [port EXCEPT !.dev = IF applied THEN "fast" ELSE "slow", !.host = "fast", !.st = "nop"]

\* The last nop is answered, or its timeout ends the program.
LastNop ==
    /\ port.st = "nop"
    /\ port' = IF Hears THEN [port EXCEPT !.st = "open", !.timeout = "usual"] ELSE [port EXCEPT !.st = "failed"]

BootStep == In("boot") /\ UNCHANGED <<simd, mon, shellAsk>> /\ (Whoami \/ SetBaud \/ LastNop)

-----------------------------------------------------------------------------
(***************************************************************************)
(* Dumps                                                                   *)
(***************************************************************************)
Rows == UNION {[1 .. n -> 0 .. 2] : n \in 0 .. 4}

dump_Once(s) == [i \in DOMAIN s |-> IF i > 1 /\ s[i] = s[1] THEN -1 ELSE s[i]]

\* chexdump, ehexdump, chexdump32 and chexdiff32 without a last picture: a row
\* equal to the one before is a star (-1), and only the first star is printed.
dump(s) == [i \in DOMAIN s |-> IF i > 1 /\ s[i] = s[i - 1] THEN -1 ELSE s[i]]

\* chexundump: stars are passed over, a gap before a row is filled with zeros.
undump(d) == LET data == {i \in DOMAIN d : d[i] # -1}
                 end == IF data = {} THEN 0 ELSE CHOOSE i \in data : \A j \in data : j <= i
             IN [i \in 1 .. end |-> IF d[i] = -1 THEN 0 ELSE d[i]]

AskDump == part = ShellNone /\ shellAsk.kind = ShellNone /\ \E s \in Rows : shellAsk' = [kind |-> "dump", s |-> s, d |-> dump(s)]
ShellAskStep == AskDump /\ UNCHANGED <<part, simd, mon, port>>

ShellNext == ShellAskStep \/ (shellAsk.kind = ShellNone /\ (SimdStep \/ MonStep \/ BootStep))

ShellSpec == ShellInit /\ [][ShellNext]_shellVars

-----------------------------------------------------------------------------
ShellTypeOK ==
    /\ part \in {ShellNone, "simd", "mon", "boot"} /\ stop \in 1 .. ShellMaxStops /\ lines \in 0 .. MaxLines
    /\ at \in 0 .. 3 /\ polls \in 0 .. MaxPolls /\ port.timeout \in {"usual", "short"}

\* Registers shown to the user, or to the debugger, are those of the stop they
\* are shown at, unless an earlier line left the console with registers cached
\* or the debugger resumed after a read (runcode pushes, ExitConsole skips it).
SimdOfThisStop == seen.of = seen.at \/ seen.left

\* Between two lines nothing is cached, and an edit has reached the CPU, under
\* the same exemption and the debugger's reads.
PushedAfterLine == line = ShellNone /\ ~left => cache = NoCache \/ cache.val = regs

\* After a whole poll the reader of the printed differences knows every range,
\* but for one printed by a poll that then raised: its last picture was lost.
ViewIsMemory == part = "mon" /\ at > 2 => \A r \in Ranges \ behind : mem[r] = Lost \/ view[r] = mem[r]

\* A port that was opened is at one rate on both sides, with its usual timeout.
OpenMeansHeard == port.st = "open" => port.dev = port.host /\ port.timeout = "usual"

\* A dump can be read back, repeating the row before a star; chexundump, which
\* fills with zeros, agrees when only zero rows repeat and the last does not.
ReadsBackDump ==
    shellAsk.kind = "dump" =>
             LET s == shellAsk.s
                 Back[i \in 0 .. Len(s)] == IF i = 0 THEN -1 ELSE IF shellAsk.d[i] = -1 THEN Back[i - 1] ELSE shellAsk.d[i]
                 rep == {i \in 2 .. Len(s) : s[i] = s[i - 1]}
             IN /\ \A i \in DOMAIN s : Back[i] = s[i]
                /\ undump(shellAsk.d) = s <=> (\A i \in rep : s[i] = 0 /\ \E j \in i .. Len(s) : j \notin rep)

-----------------------------------------------------------------------------
(***************************************************************************)
(* The address arithmetic of the hypervisor class                          *)
(* (proxyclient/m1n1/hv/__init__.py): splitting a mapping into page-sized  *)
(* and odd pieces, walking guest memory page by page, finding the symbol   *)
(* at an address, taking the authentication bits off a pointer, and        *)
(* following frame pointers.  One action poses one question with inputs    *)
(* from small sets; the answers are compared with what was asked for.      *)
(***************************************************************************)

CONSTANTS Page,    \* page size
          Top      \* addresses are below Top

VARIABLES addressAsk,     \* the question
          ans      \* the answer

addressVars == <<addressAsk, ans>>

align_up(a) == ((a + Page - 1) \div Page) * Page
align_down(a) == (a \div Page) * Page
AddressNone == [kind |-> "none"]

-----------------------------------------------------------------------------
(***************************************************************************)
(* map_hw: [ipa, ipa + size) in pieces <<hardware?, start, pa, length>>     *)
(***************************************************************************)
Sw(ipa, pa, n) == <<FALSE, ipa, pa, n>>

map_hw_NoCap(ipa, pa, size) ==
    LET ap == align_up(ipa)
        rest == size - (ap - ipa)
        whole == align_down(rest)
    IN IF ipa % Page # pa % Page THEN {Sw(ipa, pa, size)}
       ELSE (IF ap = ipa THEN {} ELSE {Sw(ipa, pa, ap - ipa)})
            \cup (IF rest > 0 /\ whole > 0 THEN {<<TRUE, ap, pa + (ap - ipa), whole>>} ELSE {})
            \cup (IF rest > 0 /\ whole # rest THEN {Sw(ap + whole, pa + (ap - ipa) + whole, rest - whole)} ELSE {})

map_hw(ipa, pa, size) ==
    LET ap == align_up(ipa)
        rest == size - (ap - ipa)
        whole == align_down(rest)
    IN IF ipa % Page # pa % Page THEN {Sw(ipa, pa, size)}
       ELSE (IF ap = ipa THEN {} ELSE {Sw(ipa, pa, Min({ap - ipa, size}))})
            \cup (IF rest > 0 /\ whole > 0 THEN {<<TRUE, ap, pa + (ap - ipa), whole>>} ELSE {})
            \cup (IF rest > 0 /\ whole # rest THEN {Sw(ap + whole, pa + (ap - ipa) + whole, rest - whole)} ELSE {})

AskMap ==
    \E ipa \in 0 .. Page, pa \in Top .. Top + Page - 1, n \in 1 .. 2 * Page + 1 :
        /\ addressAsk' = [kind |-> "map", ipa |-> ipa, pa |-> pa, n |-> n]
        /\ ans' = map_hw(ipa, pa, n)

-----------------------------------------------------------------------------
(***************************************************************************)
(* readmem and writemem: the addresses reached of [va, va + size)           *)
(***************************************************************************)
Room(va) == Page - (va % Page)

Walk_Straddles(va, size, good) ==
    IF va \div Page \in good THEN va .. va + size - 1 ELSE {}

Walk[va \in 0 .. 2 * Top, size \in 0 .. Top, good \in SUBSET (0 .. Top \div Page)] ==
    IF size = 0 \/ va \div Page \notin good THEN {}
    ELSE IF size < Room(va) THEN va .. va + size - 1
    ELSE (va .. va + Room(va) - 1) \cup Walk[va + Room(va), size - Room(va), good]

readmem(va, size, good) == Walk[va, size, good]

AskRead ==
    \E va \in 0 .. Page + 1, n \in 0 .. 2 * Page + 1, good \in SUBSET (0 .. 2) :
        /\ addressAsk' = [kind |-> "read", va |-> va, n |-> n, good |-> good]
        /\ ans' = readmem(va, n, good)

-----------------------------------------------------------------------------
(***************************************************************************)
(* sym: the symbols are sorted; bisect_left on <<addr + 1, "">> minus one   *)
(***************************************************************************)
Sorted(S) == [i \in 1 .. Cardinality(S) |-> CHOOSE x \in S : Cardinality({y \in S : y < x}) = i - 1]

sym_Left(S, addr) ==
    LET i == Cardinality({x \in S : x < addr}) IN
    IF i = 0 THEN -1 ELSE Sorted(S)[i]

\* -1 stands for no symbol.
sym(S, addr) ==
    LET i == Cardinality({x \in S : x < addr + 1}) IN
    IF i = 0 THEN -1 ELSE Sorted(S)[i]

get_sym(S, addr) == IF sym(S, addr) = addr THEN addr ELSE -1

AskSym ==
    \E S \in SUBSET (1 .. 4), a \in 0 .. 5 :
        /\ addressAsk' = [kind |-> "sym", S |-> S, a |-> a]
        /\ ans' = <<sym(S, a), get_sym(S, a)>>

-----------------------------------------------------------------------------
(***************************************************************************)
(* Pointers of 8 bits here: bit 6 plays bit 55, T1SZ and T0SZ leave 4 or 5  *)
(* valid bits.                                                             *)
(***************************************************************************)
Bits == 8
Sign == 6
Bit(v, i) == (v \div 2^i) % 2

update_pac_mask(valid) == 2^Bits - 2^valid

unpac_OneMask(v, kvalid, uvalid) ==
    IF Bit(v, Sign) = 1 THEN (v % 2^kvalid) + update_pac_mask(kvalid) ELSE v % 2^kvalid

\* unpac sets the authentication bits of a kernel pointer and clears a user one's.
unpac(v, kvalid, uvalid) ==
    IF Bit(v, Sign) = 1 THEN (v % 2^kvalid) + update_pac_mask(kvalid) ELSE v % 2^uvalid


\* A signed pointer: any authentication bits over a canonical one.
Signed(low, kernel, valid, pac) == low + 2^valid * (pac - ((pac \div 2^(Sign - valid)) % 2) * 2^(Sign - valid))
                                   + (IF kernel THEN 2^Sign ELSE 0)

AskPac ==
    \E kernel \in BOOLEAN, kv \in {4, 5}, uv \in {4, 5} :
      LET valid == IF kernel THEN kv ELSE uv IN
      \E low \in {0, 5, 2^valid - 1}, pac \in 0 .. 2^(Bits - valid) - 1 :
        /\ addressAsk' = [kind |-> "pac", canon |-> low + (IF kernel THEN update_pac_mask(kv) ELSE 0)]
        /\ ans' = unpac(Signed(low, kernel, valid, pac), kv, uv)

-----------------------------------------------------------------------------
(***************************************************************************)
(* bt: frames visited when frame f is followed by link[f], 0 ending it      *)
(***************************************************************************)
Frames == 0 .. 3

bt_Unseen(link, f0) ==
    LET RECURSIVE Go(_, _)
        Go(f, seens) == IF f = 0 \/ Len(seens) > 4 THEN seens ELSE Go(link[f], Append(seens, f))
    IN Go(f0, <<>>)

bt(link, f0) ==
    LET RECURSIVE Go(_, _)
        Go(f, seens) == IF f = 0 \/ \E i \in DOMAIN seens : seens[i] = f THEN seens ELSE Go(link[f], Append(seens, f))
    IN Go(f0, <<>>)


AskBt ==
    \E link \in [1 .. 3 -> Frames], f \in 1 .. 3 :
        /\ addressAsk' = [kind |-> "bt", link |-> link, f |-> f]
        /\ ans' = bt(link, f)

AddressInit == addressAsk = AddressNone /\ ans = AddressNone
AddressNext == addressAsk = AddressNone /\ (AskMap \/ AskRead \/ AskSym \/ AskPac \/ AskBt)
AddressSpec == AddressInit /\ [][AddressNext]_addressVars

-----------------------------------------------------------------------------
AddressTypeOK == addressAsk.kind \in {"none", "map", "read", "sym", "pac", "bt"}

\* A mapping's pieces cover exactly what was asked for, once each and at one
\* offset, and only whole pages are given to the hardware (map_hw).
PiecesExact ==
    addressAsk.kind = "map" =>
               /\ \A a \in addressAsk.ipa - 1 .. addressAsk.ipa + 3 * Page :
                     Cardinality({p \in ans : a \in p[2] .. p[2] + p[4] - 1}) =
                        IF a \in addressAsk.ipa .. addressAsk.ipa + addressAsk.n - 1 THEN 1 ELSE 0
               /\ \A p \in ans : /\ p[3] - p[2] = addressAsk.pa - addressAsk.ipa
                                 /\ p[1] => (p[2] % Page = 0 /\ p[3] % Page = 0 /\ p[4] % Page = 0)

\* What is read or written of guest memory is the longest prefix whose pages all
\* translate (readmem, writemem).
PrefixRead ==
    addressAsk.kind = "read" =>
               \A a \in 0 .. Top : a \in ans <=>
                   (a \in addressAsk.va .. addressAsk.va + addressAsk.n - 1 /\ \A b \in addressAsk.va .. a : b \div Page \in addressAsk.good)

\* The symbol found is the nearest at or below the address, and an exact one only
\* for its own address (sym, get_sym).
NearestSymbol ==
    addressAsk.kind = "sym" =>
               /\ ans[1] = (IF \E x \in addressAsk.S : x <= addressAsk.a THEN Max({x \in addressAsk.S : x <= addressAsk.a}) ELSE -1)
               /\ ans[2] = (IF addressAsk.a \in addressAsk.S THEN addressAsk.a ELSE -1)

\* Whatever the authentication bits were, the pointer comes back canonical
\* (update_pac_mask, unpac).
PacUndone == addressAsk.kind = "pac" => ans = addressAsk.canon

\* A stack walk visits each frame once and ends, even where the frames form a loop.
WalkOnce ==
    addressAsk.kind = "bt" =>
               /\ Len(ans) = Cardinality({ans[i] : i \in DOMAIN ans})
               /\ \A i \in 1 .. Len(ans) - 1 : ans[i + 1] = addressAsk.link[ans[i]]
=============================================================================
