-------------------------------- MODULE ProxyClient --------------------------------
(***************************************************************************)
(* The client library proxyclient/m1n1: the request link of proxy.py, the  *)
(* heaps of malloc.py, code execution of proxyutils.py and loadobjs.py,    *)
(* and the register and range maps of utils.py.  Each section is a machine *)
(* of its own.                                                             *)
(***************************************************************************)
EXTENDS Integers, Sequences, FiniteSets, SequencesExt, TLC

-----------------------------------------------------------------------------
(***************************************************************************)
(* The m1n1 client's link (proxyclient/m1n1/proxy.py): one command at a    *)
(* time goes out, and the reply is looked for in a byte stream that also   *)
(* carries console text, trace events and calls of the proxy.  A command   *)
(* that timed out, or whose wait ended on a damaged event, leaves its      *)
(* reply in the stream; only the command word and the opcode tell it from  *)
(* the next one.  Arguments that are strings travel through the heap.      *)
(***************************************************************************)

CONSTANTS MaxReq,     \* bound on the commands sent
          MaxNoise    \* bound on console text, events, calls and damage

VARIABLES wire,     \* device to host: [k, cmd, op, tag]
          devq,     \* commands the device has not answered
          host,     \* [st, cmd, op, tag, arg]: what the host waits for
          got,      \* the answer last accepted: [op, tag, want]
          gone,     \* <<command, opcode>> of waits given up
          heap,     \* buffers of the proxy heap in use
          leaked,   \* buffers whose upload failed
          n, noise, ask

uartVars == <<wire, devq, host, got, gone, heap, leaked, n, noise, ask>>
link == <<wire, devq, host, got, gone, heap, leaked, n, noise>>

None == "none"
Ops == {"a", "b"}
Idle == [st |-> "idle", cmd |-> None, op |-> None, tag |-> 0, arg |-> None]
Item(k, cmd, op, tag) == [k |-> k, cmd |-> cmd, op |-> op, tag |-> tag]

UartInit ==
    /\ wire = <<>> /\ devq = <<>> /\ host = Idle
    /\ got = [op |-> None, tag |-> 0, want |-> 0] /\ gone = {}
    /\ heap = 0 /\ leaked = 0 /\ n = 0 /\ noise = 0
    /\ ask = [kind |-> None]

-----------------------------------------------------------------------------
(***************************************************************************)
(* Commands                                                                *)
(***************************************************************************)
\* cmd(): one frame; arg is the opcode still to be sent once an upload is done.
cmd(c, op, arg) ==
    /\ n < MaxReq /\ n' = n + 1
    /\ devq' = Append(devq, Item("req", c, op, n + 1))
    /\ host' = [st |-> "wait", cmd |-> c, op |-> op, tag |-> n + 1, arg |-> arg]

\* request() with numbers only, and readmem.
Request(op) ==
    /\ host.st = "idle" /\ cmd("proxy", op, None)
    /\ UNCHANGED <<wire, got, gone, heap, leaked, noise>>

readmem ==
    /\ host.st = "idle" /\ cmd("memread", None, None)
    /\ UNCHANGED <<wire, got, gone, heap, leaked, noise>>

\* request() with a string: a buffer, its upload, then the command.
RequestString(op) ==
    /\ host.st = "idle" /\ heap' = heap + 1 /\ cmd("memwrite", None, op)
    /\ UNCHANGED <<wire, got, gone, leaked, noise>>

\* A wait ends in an exception: the buffer of a command is freed, that of an
\* upload is not, for malloc and upload come before the try.
Raise ==
    /\ host' = Idle
    /\ gone' = gone \cup {<<host.cmd, host.op>>}
    /\ IF host.cmd = "memwrite" THEN leaked' = leaked + 1 /\ UNCHANGED heap
       ELSE heap' = leaked /\ UNCHANGED leaked

Accept_Keeps(x) ==
    /\ got' = [op |-> <<host.cmd, host.op>>, tag |-> x.tag, want |-> host.tag]
    /\ UNCHANGED <<gone, leaked, heap>>
    /\ IF host.cmd = "memwrite" THEN cmd("proxy", host.arg, None)
       ELSE host' = Idle /\ UNCHANGED <<devq, n>>

Accept(x) ==
    /\ got' = [op |-> <<host.cmd, host.op>>, tag |-> x.tag, want |-> host.tag]
    /\ UNCHANGED <<gone, leaked>>
    /\ IF host.cmd = "memwrite" THEN cmd("proxy", host.arg, None) /\ UNCHANGED heap
       ELSE host' = Idle /\ heap' = leaked /\ UNCHANGED <<devq, n>>

\* readfull times out with nothing to read.
Timeout ==
    /\ host.st \in {"wait", "data"} /\ wire = <<>> /\ Raise
    /\ UNCHANGED <<wire, devq, got, n, noise>>

Answers_Any(x) == x.k = "reply" /\ x.cmd = host.cmd

\* reply() and _request: the command word, then the opcode.
Answers(x) == x.k = "reply" /\ x.cmd = host.cmd /\ x.op = host.op

\* reply(): text is skipped, an event handled, a call of the proxy handled in
\* passing; a damaged frame or another answer raises.  readmem then takes the
\* bytes that follow as they come.
HostReads ==
    /\ wire # <<>> /\ wire' = Tail(wire)
    /\ LET x == Head(wire) IN
       \/ /\ host.st = "wait" /\ x.k \in {"passing", "data"}
          /\ UNCHANGED <<devq, host, got, gone, heap, leaked, n>>
       \/ /\ host.st = "wait" /\ Answers(x) /\ host.cmd = "memread"
          /\ host' = [host EXCEPT !.st = "data"]
          /\ UNCHANGED <<devq, got, gone, heap, leaked, n>>
       \/ /\ host.st = "wait" /\ Answers(x) /\ host.cmd # "memread" /\ Accept(x)
       \/ /\ host.st = "wait" /\ ~Answers(x) /\ x.k \in {"reply", "bad"} /\ Raise
          /\ UNCHANGED <<devq, got, n>>
       \/ /\ host.st = "data" /\ x.k = "data" /\ Accept(x)
       \/ /\ host.st = "data" /\ x.k # "data" /\ Raise /\ UNCHANGED <<devq, got, n>>
    /\ UNCHANGED noise

-----------------------------------------------------------------------------
\* The device answers in order; data follow the answer of a read at once.
DeviceAnswers(bad) ==
    /\ devq # <<>> /\ devq' = Tail(devq)
    /\ bad => noise < MaxNoise
    /\ noise' = IF bad THEN noise + 1 ELSE noise
    /\ LET q == Head(devq)
           r == Item(IF bad THEN "bad" ELSE "reply", q.cmd, q.op, q.tag)
       IN wire' = wire \o IF q.cmd = "memread" THEN <<r, Item("data", None, None, q.tag)>> ELSE <<r>>
    /\ UNCHANGED <<host, got, gone, heap, leaked, n>>

\* Console text, a whole event or a call of the proxy, handled in passing; or a
\* damaged event.
DeviceSpeaks(k) ==
    /\ noise < MaxNoise /\ noise' = noise + 1
    /\ wire' = Append(wire, Item(k, None, None, 0))
    /\ UNCHANGED <<devq, host, got, gone, heap, leaked, n>>

LinkStep ==
    /\ ask.kind = None /\ UNCHANGED ask
    /\ \/ \E op \in Ops : Request(op) \/ RequestString(op)
       \/ readmem \/ Timeout \/ HostReads
       \/ \E bad \in BOOLEAN : DeviceAnswers(bad)
       \/ \E k \in {"passing", "bad"} : DeviceSpeaks(k)

-----------------------------------------------------------------------------
(***************************************************************************)
(* The frame's start and the accesses' alignment                           *)
(***************************************************************************)
Bytes == {"ff", "55", "aa", "x"}
Magic == <<"ff", "55", "aa">>
Streams == UNION {[1 .. k -> Bytes] : k \in 0 .. 6}

scan_Restarts(s) ==
    LET RECURSIVE Go(_, _)
        Go(i, have) == IF have = Magic THEN i - 1
                       ELSE IF i > Len(s) THEN 0
                       ELSE IF Append(have, s[i]) = SubSeq(Magic, 1, Len(have) + 1)
                       THEN Go(i + 1, Append(have, s[i]))
                       ELSE Go(i + 1, <<>>)
    IN Go(1, <<>>)

\* reply(): the bytes so far are a prefix of the magic; after a mismatch they are
\* thrown away, but for a last byte that may begin another one.
scan(s) ==
    LET RECURSIVE Go(_, _)
        Go(i, have) == IF have = Magic THEN i - 1
                       ELSE IF i > Len(s) THEN 0
                       ELSE IF Append(have, s[i]) = SubSeq(Magic, 1, Len(have) + 1)
                       THEN Go(i + 1, Append(have, s[i]))
                       ELSE Go(i + 1, IF have # <<>> /\ s[i] = "ff" THEN <<"ff">> ELSE <<>>)
    IN Go(1, <<>>)

AskScan == \E s \in Streams : ask' = [kind |-> "scan", s |-> s, at |-> scan(s)]

Access == {"write", "read", "set", "clear", "mask", "writeread", "memset", "memcpy"}

MayAccess_DstOnly(op, w, src, dst) == op = "writeread" \/ dst % w = 0

\* The alignment checks of read .. memset; writeread has none.
MayAccess(op, w, src, dst) == op = "writeread" \/ (dst % w = 0 /\ (op = "memcpy" => src % w = 0))

AskAccess == \E op \in Access, w \in {1, 2, 4, 8}, src \in 0 .. 8, dst \in 0 .. 8 :
    ask' = [kind |-> "access", op |-> op, w |-> w, src |-> src, dst |-> dst, may |-> MayAccess(op, w, src, dst)]

CallOps == {"call", "el_call", "smp_call", "smp_call_el"}

ArgLimit_Six(op) == 6

\* The words before the arguments, and how many arguments each kind of call takes.
ArgLimit(op) == CASE op = "call" -> 5 [] op = "el_call" -> 4 [] op = "smp_call" -> 4 [] OTHER -> 3
Leading(op) == IF op \in {"call", "el_call"} THEN 1 ELSE 2

AskCall == \E op \in CallOps, k \in 0 .. 7 :
    ask' = [kind |-> "call", op |-> op, k |-> k, sent |-> IF k <= ArgLimit(op) THEN 1 + Leading(op) + k ELSE 0]

AskStep == n = 0 /\ noise = 0 /\ ask.kind = None /\ (AskScan \/ AskAccess \/ AskCall) /\ UNCHANGED link

UartNext == AskStep \/ LinkStep

UartSpec == UartInit /\ [][UartNext]_uartVars

-----------------------------------------------------------------------------
UartTypeOK ==
    /\ host.st \in {"idle", "wait", "data"} /\ n \in 0 .. MaxReq /\ noise \in 0 .. MaxNoise
    /\ heap \in 0 .. MaxReq /\ leaked \in 0 .. MaxReq /\ Len(devq) <= MaxReq

\* An answer, and the memory that comes with it, is that of the command it is
\* taken for, unless a wait for the same command and opcode was given up before
\* (reply compares the command word, _request the opcode, neither a number).
OwnAnswer == got.tag # got.want => got.op \in gone

\* Between commands no buffer is in use but those whose upload failed: the
\* arguments of a command are freed on every way out (request).
HeapBalanced == host.st = "idle" => heap = leaked

\* The frame found is the first one there is, whatever precedes it.
FirstMagic ==
    ask.kind = "scan" =>
        LET at == {i \in 3 .. Len(ask.s) : SubSeq(ask.s, i - 2, i) = Magic} IN
        IF at = {} THEN ask.at = 0 ELSE ask.at \in at /\ \A i \in at : ask.at <= i

\* A call that is let through fits the frame of an opcode and six words.
CallsFit == ask.kind = "call" => ask.sent <= 7

\* No access but writeread leaves the host misaligned, at either address.
AlignedOnly ==
    ask.kind = "access" /\ ask.may /\ ask.op # "writeread" =>
        ask.dst % ask.w = 0 /\ (ask.op = "memcpy" => ask.src % ask.w = 0)

-----------------------------------------------------------------------------
(***************************************************************************)
(* The heap the m1n1 client keeps on the target without telling it         *)
(* (proxyclient/m1n1/malloc.py, and its users in proxyutils.py): a list of *)
(* runs of 64-byte blocks, free or full, first fit, merged when freed.  It *)
(* lies above the target's own heap, whose limit the client sets when the  *)
(* target knows how.  Addresses and sizes are counted in blocks.           *)
(***************************************************************************)

CONSTANTS Offset,    \* where the heap starts
          Count,     \* blocks of the heap
          MaxOps     \* bound on the requests made

VARIABLES blocks,    \* sequence of [n, full]
          live,      \* what callers hold: set of [at, n, by]
          ptrs,      \* the addresses a GuardedHeap remembers
          zero,      \* some request was for no bytes at all
          put,       \* compressed_writemem: [st, at]
          timeout,   \* the serial port's timeout
          devtop,    \* end of the target's own heap
          limit,     \* the limit the target was told, or 0
          last,      \* outcome of the last request
          ops

heapVars == <<blocks, live, ptrs, zero, put, timeout, devtop, limit, last, ops>>

HeapNone == [kind |-> "none"]
HeapIdle == [st |-> "idle", at |-> 0]
Run(ns, full) == [n |-> ns, full |-> full]
\* The block at which run i begins, counted from the heap's start.
Pos(b, i) == FoldSeq(LAMBDA r, s : r.n + s, 0, SubSeq(b, 1, i - 1))
Held(b) == UNION {Pos(b, i) .. Pos(b, i) + b[i].n - 1 : i \in {j \in DOMAIN b : b[j].full}}

HeapInit ==
    /\ blocks = <<Run(Count, FALSE)>> /\ live = {} /\ ptrs = {} /\ zero = FALSE
    /\ put = HeapIdle /\ timeout = "set" /\ devtop = 0 /\ limit = 0 /\ last = HeapNone /\ ops = 0

-----------------------------------------------------------------------------
\* Distance from position pos of the heap to the next multiple of align.
Pad(align, pos) == (-(Offset + pos)) % align

\* Run i takes size blocks after skipping pad: up to three runs replace it.
Carve(b, i, pad, size) ==
    SubSeq(b, 1, i - 1)
    \o (IF pad > 0 THEN <<Run(pad, FALSE)>> ELSE <<>>)
    \o <<Run(size, TRUE)>>
    \o (IF b[i].n > size + pad THEN <<Run(b[i].n - size - pad, FALSE)>> ELSE <<>>)
    \o SubSeq(b, i + 1, Len(b))

Fits_NoPad(b, align, size) == {i \in DOMAIN b : ~b[i].full /\ b[i].n >= size}

Fits(b, align, size) == {i \in DOMAIN b : ~b[i].full /\ b[i].n >= size + Pad(align, Pos(b, i))}

\* malloc (align = 1) and memalign: the first free run that is long enough.
Place(b, align, size) ==
    IF Fits(b, align, size) = {} THEN [at |-> -1, b |-> b]
    ELSE LET i == CHOOSE j \in Fits(b, align, size) : \A k \in Fits(b, align, size) : j <= k
             pad == Pad(align, Pos(b, i))
         IN [at |-> Offset + Pos(b, i) + pad, b |-> Carve(b, i, pad, size)]

Merge_Left(b, i) ==
    LET l == IF i > 1 /\ ~b[i - 1].full THEN i - 1 ELSE i
    IN SubSeq(b, 1, l - 1) \o <<Run(b[i].n + (IF l < i THEN b[l].n ELSE 0), FALSE)>> \o SubSeq(b, i + 1, Len(b))

\* The freed run takes in its free neighbours.
Merge(b, i) ==
    LET l == IF i > 1 /\ ~b[i - 1].full THEN i - 1 ELSE i
        r == IF i < Len(b) /\ ~b[i + 1].full THEN i + 1 ELSE i
    IN SubSeq(b, 1, l - 1)
       \o <<Run(b[i].n + (IF l < i THEN b[l].n ELSE 0) + (IF r > i THEN b[r].n ELSE 0), FALSE)>>
       \o SubSeq(b, r + 1, Len(b))

Release_Twice(b, addr) ==
    LET at == {i \in DOMAIN b : Pos(b, i) = addr - Offset}
        i == CHOOSE j \in at : \A k \in at : j <= k
    IN IF addr < Offset \/ addr >= Offset + Count \/ at = {} THEN [ok |-> FALSE, b |-> b]
       ELSE [ok |-> TRUE, b |-> Merge(b, i)]

\* free(): the first run that begins at the address, if it is full.
Release(b, addr) ==
    LET at == {i \in DOMAIN b : Pos(b, i) = addr - Offset}
        i == CHOOSE j \in at : \A k \in at : j <= k
    IN IF addr < Offset \/ addr >= Offset + Count \/ at = {} THEN [ok |-> FALSE, b |-> b]
       ELSE IF ~b[i].full THEN [ok |-> FALSE, b |-> b]
       ELSE [ok |-> TRUE, b |-> Merge(b, i)]

-----------------------------------------------------------------------------
\* Requests are explored with the target's heap at rest.
Counted == limit > 0 /\ devtop = 0 /\ ops < MaxOps /\ ops' = ops + 1

\* A request of one caller; by is "plain" or the GuardedHeap.
Get(align, size, by) ==
    LET r == Place(blocks, align, size) IN
    /\ Counted /\ put = HeapIdle
    /\ blocks' = r.b
    /\ last' = [kind |-> "get", before |-> blocks, align |-> align, n |-> size, at |-> r.at]
    /\ live' = IF r.at < 0 THEN live ELSE live \cup {[at |-> r.at, n |-> size, by |-> by]}
    /\ ptrs' = IF r.at >= 0 /\ by = "guard" THEN ptrs \cup {r.at} ELSE ptrs
    /\ zero' = (zero \/ size = 0)
    /\ UNCHANGED <<put, timeout, devtop, limit>>

malloc(size) == Get(1, size, "plain")
memalign(align, size) == Get(align, size, "plain")
GuardedGet(align, size) == Get(align, size, "guard")

\* free() of an address somebody may or may not hold.
free(addr) ==
    LET r == Release(blocks, addr) IN
    /\ Counted /\ put = HeapIdle
    /\ blocks' = r.b
    /\ last' = [kind |-> "free", ok |-> r.ok, at |-> addr, held |-> \E x \in live : x.at = addr, same |-> r.b = blocks]
    /\ LET mine == {x \in live : x.at = addr} IN
       live' = IF r.ok /\ mine # {} THEN live \ {CHOOSE x \in mine : \A y \in mine : x.n >= y.n} ELSE live
    /\ ptrs \cap {addr} = {}
    /\ UNCHANGED <<ptrs, zero, put, timeout, devtop, limit>>

\* GuardedHeap.free: remove() first, then the heap's own free.
GuardedFree(addr) ==
    /\ Counted /\ put = HeapIdle /\ addr \in ptrs
    /\ LET r == Release(blocks, addr) IN
       /\ blocks' = r.b /\ ptrs' = ptrs \ {addr}
       /\ live' = IF r.ok THEN live \ {CHOOSE x \in live : x.at = addr /\ x.by = "guard"} ELSE live
    /\ last' = HeapNone
    /\ UNCHANGED <<zero, put, timeout, devtop, limit>>

FreeEach_KeepsOne(b, set) ==
    IF set = {} THEN b
    ELSE FoldSet(LAMBDA a, c : Release(c, a).b, b, set \ {CHOOSE a \in set : TRUE})

FreeEach(b, set) == FoldSet(LAMBDA a, c : Release(c, a).b, b, set)

\* __exit__ of a GuardedHeap, after the body ended or raised.
free_all ==
    /\ ptrs # {} /\ put = HeapIdle
    /\ blocks' = FreeEach(blocks, ptrs)
    /\ ptrs' = {}
    /\ live' = {x \in live : x.by # "guard"}
    /\ last' = [kind |-> "exit"]
    /\ UNCHANGED <<zero, put, timeout, devtop, limit, ops>>

-----------------------------------------------------------------------------
\* compressed_writemem: a guarded buffer, the upload, and gzdec with the port's
\* timeout off; either may raise.
PutStart(size) ==
    LET r == Place(blocks, 1, size) IN
    /\ Counted /\ put = HeapIdle /\ r.at >= 0
    /\ blocks' = r.b /\ put' = [st |-> "upload", at |-> r.at]
    /\ live' = live \cup {[at |-> r.at, n |-> size, by |-> "put"]}
    /\ last' = HeapNone /\ UNCHANGED <<ptrs, zero, timeout, devtop, limit>>

PutDecompress ==
    /\ put.st = "upload" /\ put' = [put EXCEPT !.st = "gzdec"] /\ timeout' = "off"
    /\ UNCHANGED <<blocks, live, ptrs, zero, devtop, limit, last, ops>>

PutEnd_Returns ==
    /\ put.st # "idle" /\ put' = HeapIdle /\ UNCHANGED timeout
    /\ blocks' = Release(blocks, put.at).b
    /\ live' = {x \in live : x.by # "put"}
    /\ UNCHANGED <<ptrs, zero, devtop, limit, last, ops>>

PutEnd ==
    /\ put.st # "idle" /\ put' = HeapIdle /\ timeout' = "set"
    /\ blocks' = Release(blocks, put.at).b
    /\ live' = {x \in live : x.by # "put"}
    /\ UNCHANGED <<ptrs, zero, devtop, limit, last, ops>>

-----------------------------------------------------------------------------
SetUp_NoLimit(knows) ==
    /\ limit = 0 /\ ops = 0
    /\ limit' = IF knows THEN Offset + Count ELSE -1
    /\ UNCHANGED <<blocks, live, ptrs, zero, put, timeout, devtop, last, ops>>

\* ProxyUtils.__init__: the client's heap begins m1n1_heap above the target's,
\* and the target is told so, if it knows heapblock_set_limit.
SetUp(knows) ==
    /\ limit = 0 /\ ops = 0
    /\ limit' = IF knows THEN Offset ELSE -1
    /\ UNCHANGED <<blocks, live, ptrs, zero, put, timeout, devtop, last, ops>>

\* The target's own heap grows up to the limit it knows.
DeviceAllocates ==
    /\ limit # 0 /\ ops = 0 /\ devtop < Offset + Count /\ (limit > 0 => devtop < limit)
    /\ devtop' = devtop + 1
    /\ UNCHANGED <<blocks, live, ptrs, zero, put, timeout, limit, last, ops>>

Sizes == 0 .. 2
HeapNext ==
    \/ \E k \in BOOLEAN : SetUp(k)
    \/ DeviceAllocates
    \/ \E ns \in Sizes : malloc(ns)
    \/ \E ns \in Sizes, a \in {4} : memalign(a, ns)
    \/ \E ns \in Sizes, a \in {2} : GuardedGet(a, ns)
    \/ \E a \in Offset - 1 .. Offset + Count : free(a) \/ GuardedFree(a)
    \/ free_all
    \/ PutStart(1) \/ PutDecompress \/ PutEnd

HeapSpec == HeapInit /\ [][HeapNext]_heapVars

-----------------------------------------------------------------------------
HeapTypeOK ==
    /\ \A i \in DOMAIN blocks : blocks[i].n \in 0 .. Count /\ blocks[i].full \in BOOLEAN
    /\ ptrs \subseteq Offset .. Offset + Count /\ timeout \in {"set", "off"} /\ ops \in 0 .. MaxOps

\* What a caller holds is one full run of exactly its length: nothing handed out
\* is handed out again before it is given back, and the runs cover the heap
\* (malloc, memalign, free).
HeldIsFull ==
    /\ Pos(blocks, Len(blocks) + 1) = Count
    /\ \A x \in live : x.n > 0 =>
          \E i \in DOMAIN blocks : blocks[i].full /\ Pos(blocks, i) = x.at - Offset /\ blocks[i].n = x.n

\* No two free runs lie side by side, so a request fails only when no such
\* place exists; it is given the lowest one (malloc, memalign, free).  A run of
\* no blocks, from a request for no bytes, may split a free run for good.
LowestFit ==
    /\ \A i \in 1 .. Len(blocks) - 1 : blocks[i].full \/ blocks[i + 1].full
    /\ last.kind = "get" /\ ~zero =>
          LET Good == {a \in Offset .. Offset + Count - last.n :
                          a % last.align = 0 /\ (a - Offset .. a - Offset + last.n - 1) \cap Held(last.before) = {}}
          IN IF Good = {} THEN last.at = -1 ELSE last.at \in Good /\ \A a \in Good : last.at <= a

\* free() accepts an address only if somebody holds it, and a refusal changes
\* nothing; a request for no bytes (malloc(0)) shares its address and voids this.
FreesOnlyHeld ==
    last.kind = "free" /\ ~zero => last.ok = last.held /\ (~last.ok => last.same)

\* After a guarded block nothing it was given is in use, whatever ended it:
\* GuardedHeap's buffers and the one of compressed_writemem.  Two requests for
\* no bytes get one address, so a request of that kind voids it.
GuardReleases ==
    ~zero => Cardinality(Held(blocks)) = FoldSet(LAMBDA x, s : x.n + s, 0, live)

\* The port's timeout is off only while the target decompresses.
TimeoutRestored == timeout = "off" => put.st = "gzdec"

\* The target's heap never grows into the client's, if it takes a limit.
HeapsApart == limit >= 0 => devtop <= Offset

-----------------------------------------------------------------------------
(***************************************************************************)
(* Code the m1n1 client runs on the target: single instructions through    *)
(* the one code buffer (ProxyUtils.exec, with mrs, msr and find_regs), and *)
(* objects linked against the running image and placed on the heap         *)
(* (LinkedProgram).  Code goes into memory, is cleaned to the point of     *)
(* unification, its lines are dropped from the instruction cache, and only *)
(* then is it called.  Faults are skipped and counted while the exception  *)
(* guard is up.  The link may fail between any two requests.               *)
(***************************************************************************)

CONSTANTS MaxJobs,    \* bound on the jobs started
          MaxFills    \* bound on the lines the caches move by themselves

VARIABLES mem, pou, icache,   \* what each place holds for data, below, for fetches
          guard,    \* exception guard: "off" or "skip"
          cnt,      \* exceptions counted by the target
          alive,    \* FALSE once an exception was taken with no guard
          job,      \* [todo, op, at, what]: requests still to be made
          objs,     \* [at, code, name] of loaded objects, in order
          attrs,    \* name -> place, for the calls by name
          base,     \* the image's own symbols are still known
          ran,      \* the last code run and what it was meant to be
          raised,   \* [by]: the last "Exception occurred", or none
          blame,    \* the access since the count was last cleared that faulted
          cut,      \* a job was cut by the link
          jobs, fills

execVars == <<mem, pou, icache, guard, cnt, alive, job, objs, attrs, base, ran, raised, blame, cut, jobs, fills>>

ExecNone == "none"
Places == {"buf", "h1", "h2"}
ExecOps == {"a", "b"}
NoJob == [todo |-> <<>>, op |-> ExecNone, at |-> ExecNone, what |-> ExecNone]

ExecInit ==
    /\ mem = [p \in Places |-> ExecNone] /\ pou = mem /\ icache = mem
    /\ guard = "off" /\ cnt = 0 /\ alive = TRUE /\ job = NoJob
    /\ objs = <<>> /\ attrs = [ns \in {"f"} |-> ExecNone] /\ base = TRUE
    /\ ran = [was |-> ExecNone, want |-> ExecNone] /\ raised = ExecNone /\ blame = {} /\ cut = FALSE
    /\ jobs = 0 /\ fills = 0

ExecIdle == job.todo = <<>> /\ alive
Starts == ExecIdle /\ jobs < MaxJobs /\ jobs' = jobs + 1 /\ raised' = ExecNone /\ ran' = [was |-> ExecNone, want |-> ExecNone]

-----------------------------------------------------------------------------
Upload_Reversed == <<"write", "ic", "dc">>
Upload == <<"write", "dc", "ic">>

ExecPlan_GuardUp(ign) == Upload \o <<"skip", "call">> \o (IF ign THEN <<>> ELSE <<"count">>)

ExecPlan_LateGuard(ign) == Upload \o <<"call">> \o (IF ign THEN <<"off">> ELSE <<"count", "off", "judge">>)

\* exec(): the guard is up around the call, and down again before the count is judged.
ExecPlan(ign) == Upload \o <<"skip", "call">> \o (IF ign THEN <<"off">> ELSE <<"count", "off", "judge">>)

exec(op, ign) ==
    /\ Starts
    /\ job' = [todo |-> ExecPlan(ign), op |-> op, at |-> "buf", what |-> "exec"]
    /\ UNCHANGED <<mem, pou, icache, guard, cnt, alive, objs, attrs, base, blame, cut, fills>>

\* read() and write(): one access, then the count.
AccessPlan == <<"access", "count", "judge">>
ExecAccess(w) ==
    /\ Starts
    /\ job' = [todo |-> AccessPlan, op |-> ExecNone, at |-> ExecNone, what |-> w]
    /\ UNCHANGED <<mem, pou, icache, guard, cnt, alive, objs, attrs, base, blame, cut, fills>>

\* A script puts the guard up or down around accesses of its own.
SetGuard(g) ==
    /\ Starts /\ guard' = g /\ cnt' = 0 /\ blame' = {}
    /\ UNCHANGED <<mem, pou, icache, alive, job, objs, attrs, base, cut, fills>>

\* A bare proxy access, whose exception nobody asks for.
RawAccess ==
    /\ Starts /\ job' = [NoJob EXCEPT !.todo = <<"access">>, !.what = "raw"]
    /\ UNCHANGED <<mem, pou, icache, guard, cnt, alive, objs, attrs, base, blame, cut, fills>>

-----------------------------------------------------------------------------
Taken == {objs[i].at : i \in DOMAIN objs}

\* load_obj: memory, the link against the known symbols, names that are new,
\* then the upload.
load_obj(code, name) ==
    /\ Starts /\ base
    /\ \E at \in {"h1", "h2"} \ Taken :
         /\ (at = "h2") => "h1" \in Taken
         /\ objs' = Append(objs, [at |-> at, code |-> code, name |-> name])
         /\ attrs' = IF attrs[name] = ExecNone THEN [attrs EXCEPT ![name] = at] ELSE attrs
         /\ job' = [todo |-> Upload, op |-> code, at |-> at, what |-> "load"]
    /\ UNCHANGED <<mem, pou, icache, guard, cnt, alive, base, blame, cut, fills>>

clear_objs_Frees ==
    /\ ExecIdle /\ objs # <<>> /\ objs' = <<>> /\ base' = FALSE /\ UNCHANGED attrs
    /\ UNCHANGED <<mem, pou, icache, guard, cnt, alive, job, ran, raised, blame, cut, jobs, fills>>

\* clear_objs: names, memory and symbols go; the image's symbols were recorded
\* under no object name, so the filter drops them too.
clear_objs ==
    /\ ExecIdle /\ objs # <<>> /\ objs' = <<>>
    /\ attrs' = [ns \in DOMAIN attrs |-> ExecNone] /\ base' = FALSE
    /\ UNCHANGED <<mem, pou, icache, guard, cnt, alive, job, ran, raised, blame, cut, jobs, fills>>

\* A new LinkedProgram over the same heap knows the image again.
NewProgram ==
    /\ ExecIdle /\ ~base /\ base' = TRUE
    /\ UNCHANGED <<mem, pou, icache, guard, cnt, alive, job, objs, attrs, ran, raised, blame, cut, jobs, fills>>

\* The object a name stands for: the first one loaded with it.
Meant(name) == LET own == {i \in DOMAIN objs : objs[i].name = name}
               IN IF own = {} THEN "gone" ELSE objs[CHOOSE i \in own : \A j \in own : i <= j].code

\* call_symbol: the arguments are copied, the place called, the copies freed.
call_symbol(name) ==
    /\ Starts /\ attrs[name] # ExecNone
    /\ job' = [todo |-> <<"call">>, op |-> Meant(name), at |-> attrs[name], what |-> "symbol"]
    /\ UNCHANGED <<mem, pou, icache, guard, cnt, alive, objs, attrs, base, blame, cut, fills>>

-----------------------------------------------------------------------------
\* One request of the running job is carried out.
Fetched(p) == IF icache[p] # ExecNone THEN icache[p] ELSE pou[p]

\* An exception, if there is one, is counted under the guard and fatal without.
Faults(x) ==
    \/ UNCHANGED <<cnt, alive, blame>>
    \/ IF guard = "skip" THEN cnt' = cnt + 1 /\ blame' = blame \cup {x} /\ UNCHANGED alive
       ELSE alive' = FALSE /\ UNCHANGED <<cnt, blame>>

Done == job' = [job EXCEPT !.todo = Tail(@)]
ReqStep ==
    /\ alive /\ job.todo # <<>> /\ Done
    /\ CASE Head(job.todo) = "write" -> mem' = [mem EXCEPT ![job.at] = job.op] /\ UNCHANGED <<pou, icache, guard, cnt, alive, ran, raised, blame>>
         [] Head(job.todo) = "dc" -> pou' = [pou EXCEPT ![job.at] = mem[job.at]] /\ UNCHANGED <<mem, icache, guard, cnt, alive, ran, raised, blame>>
         [] Head(job.todo) = "ic" -> icache' = [icache EXCEPT ![job.at] = ExecNone] /\ UNCHANGED <<mem, pou, guard, cnt, alive, ran, raised, blame>>
         [] Head(job.todo) \in {"skip", "off"} -> guard' = Head(job.todo) /\ cnt' = 0 /\ (IF Head(job.todo) = "skip" THEN blame' = {} ELSE UNCHANGED blame)
                /\ UNCHANGED <<mem, pou, icache, alive, ran, raised>>
         [] Head(job.todo) = "call" -> /\ ran' = [was |-> Fetched(job.at), want |-> job.op]
                /\ icache' = [icache EXCEPT ![job.at] = Fetched(job.at)]
                /\ Faults(job.what) /\ UNCHANGED <<mem, pou, guard, raised>>
         [] Head(job.todo) = "access" -> Faults(job.what) /\ UNCHANGED <<mem, pou, icache, guard, ran, raised>>
         [] Head(job.todo) = "count" -> /\ raised' = (IF cnt > 0 THEN "due" ELSE ExecNone) /\ cnt' = 0
                /\ UNCHANGED <<mem, pou, icache, guard, alive, ran, blame>>
         [] OTHER -> /\ raised' = (IF raised = "due" THEN (IF job.what \in blame THEN "own" ELSE "other") ELSE ExecNone)
                     /\ blame' = {} /\ UNCHANGED <<mem, pou, icache, guard, cnt, alive, ran>>
    /\ UNCHANGED <<objs, attrs, base, cut, jobs, fills>>

\* A request fails on the link: the rest of the job is not done.
LinkFails ==
    /\ alive /\ job.todo # <<>> /\ ~cut /\ cut' = TRUE /\ job' = NoJob
    /\ UNCHANGED <<mem, pou, icache, guard, cnt, alive, objs, attrs, base, ran, raised, blame, jobs, fills>>

\* The caches write back and prefetch as they please.
CacheMoves(p) ==
    /\ fills < MaxFills /\ fills' = fills + 1 /\ job.at = p /\ job.todo # <<>>
    /\ \/ pou' = [pou EXCEPT ![p] = mem[p]] /\ UNCHANGED icache
       \/ icache' = [icache EXCEPT ![p] = Fetched(p)] /\ UNCHANGED pou
    /\ UNCHANGED <<mem, guard, cnt, alive, job, objs, attrs, base, ran, raised, blame, cut, jobs>>

ExecNext ==
    \/ \E op \in ExecOps : exec(op, op = "b")
    \/ ExecAccess("read") \/ RawAccess
    \/ \E g \in {"off", "skip"} : SetGuard(g)
    \/ \E c \in {"o1", "o2"} : load_obj(c, "f")
    \/ clear_objs \/ NewProgram
    \/ call_symbol("f")
    \/ ReqStep \/ LinkFails
    \/ \E p \in Places : CacheMoves(p)

ExecSpec == ExecInit /\ [][ExecNext]_execVars

-----------------------------------------------------------------------------
ExecTypeOK ==
    /\ guard \in {"off", "skip"} /\ cnt \in 0 .. MaxJobs /\ alive \in BOOLEAN /\ jobs \in 0 .. MaxJobs
    /\ \A p \in Places : mem[p] \in ExecOps \cup {"o1", "o2", ExecNone}

\* The code that runs is the code that was asked for: no stale line of the
\* buffer or of reused heap memory is fetched, whenever the caches write back or
\* prefetch, and a name runs the first object loaded with it, as long as no
\* upload was cut by the link.
RunsWhatWasAsked == ran.was = ran.want \/ cut

\* An "Exception occurred" is about the access that raises it, except a read()
\* or write() after bare accesses under the guard (exec clears the count first).
OwnException == raised = "other" => job.what # "exec"

\* exec leaves the guard down, so a later fault is not skipped in silence; only
\* a link failure, or a script's own SetGuard, leaves it up.
GuardDown == job.what = "exec" /\ job'.todo = <<>> /\ job.todo # <<>> => (guard' = "off" \/ cut')

-----------------------------------------------------------------------------
(***************************************************************************)
(* Register descriptions and tracers of the client library                 *)
(* (proxyclient/m1n1/utils.py and trace/__init__.py).                      *)
(*                                                                         *)
(* A Register is an integer seen through bit fields; a RegMap names the    *)
(* offsets of a device, single ones and arrays of one or more dimensions   *)
(* (NdRange).  A tracer sees the guest's accesses: it remembers the last   *)
(* value of every register in a RegCache, finds the register by its        *)
(* address and calls the handler of that name.  A handler may look at      *)
(* other registers: through the device while the guest is stopped in a     *)
(* hook, from the cache while it runs.                                     *)
(***************************************************************************)

CONSTANTS Width,      \* bits of a register
          MaxWrites   \* bound on the guest's and the device's changes

VARIABLES dev,        \* the device: address -> value
          cache,      \* RegCache.cache of the tracer at hand
          stored,     \* hv.tracer_caches: what a tracer of this name left
          seen,       \* address -> last value that crossed the bus in the open
          ctx, started,
          called,     \* <<address, prefix, register>> of the last handler called
          writes, regsAsk

regsVars == <<dev, cache, stored, seen, ctx, started, called, writes, regsAsk>>

RegsNone == "none"
Unknown == -1

-----------------------------------------------------------------------------
(***************************************************************************)
(* Bit fields                                                              *)
(***************************************************************************)
Fields == {<<m, l>> \in (0 .. Width - 1) \X (0 .. Width - 1) : l <= m}    \* (msb, lsb)
Values == 0 .. 2 ^ Width - 1
Bit(v, i) == (v \div 2 ^ i) % 2

GetField(v, f) == (v \div 2 ^ f[2]) % 2 ^ (f[1] + 1 - f[2])

SetField_NoMask(v, f, x) ==
    v - GetField(v, f) * 2 ^ f[2] + x * 2 ^ f[2]

\* __setattr__: the field's bits are cleared and the value, cut to the field,
\* put in their place.
SetField(v, f, x) ==
    v - GetField(v, f) * 2 ^ f[2] + (x % 2 ^ (f[1] + 1 - f[2])) * 2 ^ f[2]

-----------------------------------------------------------------------------
(***************************************************************************)
(* Register arrays: a sequence of Python ranges <<start, stop, step>>      *)
(***************************************************************************)
MinStep == 2        \* a 16-bit register

RegsCount(r) == IF r[2] <= r[1] THEN 0 ELSE ((r[2] - r[1] - 1) \div r[3]) + 1
Elem(r, i) == r[1] + i * r[3]

\* A step of 1 stands for "one register after the other".
Stepped(nd) == [d \in DOMAIN nd |-> IF nd[d][3] = 1 THEN <<nd[d][1], nd[d][2], MinStep>> ELSE nd[d]]

LeastStep(nd) == CHOOSE s \in {nd[d][3] : d \in DOMAIN nd} : \A d \in DOMAIN nd : s <= nd[d][3]

Indices(nd) ==
    IF Len(nd) = 1 THEN {<<i>> : i \in 0 .. RegsCount(nd[1]) - 1}
    ELSE {<<i, j>> : i \in 0 .. RegsCount(nd[1]) - 1, j \in 0 .. RegsCount(nd[2]) - 1}

RegsOffset(nd, ix) == IF Len(nd) = 1 THEN Elem(nd[1], ix[1]) ELSE Elem(nd[1], ix[1]) + Elem(nd[2], ix[2])
Ends(nd) == [d \in DOMAIN nd |-> RegsCount(nd[d]) - 1]
Begins(nd) == [d \in DOMAIN nd |-> 0]

NdZone_Short(nd) == <<RegsOffset(nd, Begins(nd)), RegsOffset(nd, Ends(nd))>>

\* start and stop of the zone the class's range map files the array under.
NdZone(nd) == <<RegsOffset(nd, Begins(nd)), RegsOffset(nd, Ends(nd)) + LeastStep(nd)>>

\* rev: the index of an offset; the last of the product wins.
Index(nd, o) ==
    LET S == {ix \in Indices(nd) : RegsOffset(nd, ix) = o}
        Later(x, y) == \E d \in DOMAIN x : x[d] > y[d] /\ \A e \in 1 .. d - 1 : x[e] = y[e]
    IN CHOOSE ix \in S : \A y \in S : y # ix => Later(ix, y)

Nds == { <<r>> : r \in {<<2, 8, 1>>, <<0, 9, 4>>, <<4, 5, 2>>} }
       \cup { <<r, q>> : r \in {<<2, 18, 8>>}, q \in {<<0, 4, 1>>, <<0, 6, 4>>, <<0, 20, 8>>} }

\* _lookup_offset: single registers first, then the arrays whose zone holds the
\* offset and that have an element there; which of two is up to the set's order.
Lookup(layout, o) ==
    IF o \in layout.single THEN {<<"single", o, RegsNone>>}
    ELSE LET hit == {nd \in layout.arrays :
                        LET ns == Stepped(nd) IN
                        /\ NdZone(ns)[1] <= o /\ o < NdZone(ns)[2]
                        /\ \E ix \in Indices(ns) : RegsOffset(ns, ix) = o}
         IN {<<"array", nd, Index(Stepped(nd), o)>> : nd \in hit}

Layouts == {[single |-> S, arrays |-> A] : S \in {{}, {4}, {0, 6}}, A \in {{x, y} : x \in Nds, y \in Nds}}

AskField == \E v \in Values, f \in Fields, x \in Values :
    regsAsk' = [kind |-> "field", v |-> v, f |-> f, x |-> x, r |-> SetField(v, f, x)]

AskLookup == \E l \in Layouts, o \in 0 .. 20 :
    regsAsk' = [kind |-> "lookup", l |-> l, o |-> o, r |-> Lookup(l, o)]

-----------------------------------------------------------------------------
(***************************************************************************)
(* A tracer on two windows of a device                                     *)
(***************************************************************************)
\* dev.reg and REGMAPS: the second class is laid 2 below its window
\* (regmap_offset), a window without a class is not traced.
Windows == << [start |-> 0, size |-> 1, off |-> 0, regs |-> (0 :> "A"), prefix |-> RegsNone],
              [start |-> 4, size |-> 2, off |-> 2, regs |-> (0 :> "X" @@ 1 :> "Y" @@ 2 :> "A" @@ 3 :> "C"), prefix |-> "p"] >>
Addresses == {0, 4, 5}
Data == {0, 1}

Base(w) == Windows[w].start - Windows[w].off
WindowOf(a) == {w \in DOMAIN Windows : a \in Windows[w].start .. Windows[w].start + Windows[w].size - 1}

RegsInit ==
    /\ dev = [a \in Addresses |-> 0]
    /\ cache = [a \in Addresses |-> Unknown] /\ stored = [a \in Addresses |-> Unknown]
    /\ seen = [a \in Addresses |-> Unknown]
    /\ ctx = FALSE /\ started = FALSE
    /\ called = <<>> /\ writes = 0 /\ regsAsk = [kind |-> RegsNone]

tracerVars == <<dev, cache, stored, seen, ctx, started, called, writes>>

\* The guest runs from here on.
Start == started' = TRUE /\ ~started /\ UNCHANGED <<dev, cache, stored, seen, ctx, called, writes>>

\* The device changes a register by itself.
DeviceMoves(a) ==
    /\ writes < MaxWrites /\ writes' = writes + 1
    /\ dev' = [dev EXCEPT ![a] = 1 - @]
    /\ UNCHANGED <<cache, stored, seen, ctx, started, called>>

lookup_addr_NoOffset(w, a) == a - Windows[w].start

\* lookup_addr in the register map of a window.
lookup_addr(w, a) == a - Base(w)

\* evt_rw: the cache learns the value, and the handler of the register's name,
\* and of the window's prefix, is called.
evt_rw(a, v) ==
    /\ cache' = [cache EXCEPT ![a] = v] /\ stored' = [stored EXCEPT ![a] = v]
    /\ called' = IF WindowOf(a) = {} THEN called
                 ELSE LET w == CHOOSE w \in WindowOf(a) : TRUE
                          o == lookup_addr(w, a)
                      IN IF o \in DOMAIN Windows[w].regs
                         THEN <<a, Windows[w].prefix, Windows[w].regs[o]>> ELSE <<>>

\* A traced access of the guest: asynchronously (ctx not set) or in a hook.
GuestAccess(a, v, write, sync) ==
    /\ started /\ writes < MaxWrites /\ writes' = writes + 1
    /\ dev' = IF write THEN [dev EXCEPT ![a] = v] ELSE dev
    /\ write \/ v = dev[a]
    /\ WindowOf(a) # {}
    /\ evt_rw(a, v) /\ seen' = [seen EXCEPT ![a] = v]
    /\ ctx' = sync
    /\ UNCHANGED <<started>>

\* hook_w and hook_r carry the access out and tell the cache nothing.
GuestHooked(a, v, write) ==
    /\ started /\ writes < MaxWrites /\ writes' = writes + 1
    /\ dev' = IF write THEN [dev EXCEPT ![a] = v] ELSE dev
    /\ ctx' = TRUE
    /\ UNCHANGED <<cache, stored, seen, started, called>>

Resume == ctx /\ ctx' = FALSE /\ UNCHANGED <<dev, cache, stored, seen, started, called, writes>>

\* RegCache.read: the device when the guest stands still, else the cache.
Read(a) ==
    /\ IF ctx \/ ~started
       THEN /\ cache' = [cache EXCEPT ![a] = dev[a]] /\ stored' = [stored EXCEPT ![a] = dev[a]]
            /\ seen' = [seen EXCEPT ![a] = dev[a]]
       ELSE UNCHANGED <<cache, stored, seen>>
    /\ UNCHANGED <<dev, ctx, started, called, writes>>

\* RegCache.write: only with the guest stopped.
Write(a, v) ==
    /\ ctx /\ dev[a] # v
    /\ dev' = [dev EXCEPT ![a] = v]
    /\ cache' = [cache EXCEPT ![a] = v] /\ stored' = [stored EXCEPT ![a] = v]
    /\ seen' = [seen EXCEPT ![a] = v]
    /\ UNCHANGED <<ctx, started, called, writes>>

NewTracer_Empty ==
    /\ cache' = [a \in Addresses |-> Unknown]
    /\ stored' = cache'
    /\ UNCHANGED <<dev, seen, ctx, started, called, writes>>

\* A tracer of the same name is made again (a script reloaded in the shell): it
\* takes over the cache the one before left with the hypervisor.
NewTracer ==
    /\ cache' = stored
    /\ UNCHANGED <<dev, stored, seen, ctx, started, called, writes>>

TracerStep ==
    /\ \/ Start \/ Resume \/ NewTracer
       \/ \E a \in Addresses : DeviceMoves(a) \/ Read(a)
       \/ \E a \in Addresses, v \in Data : Write(a, v)
       \/ \E a \in Addresses, v \in Data, write, sync \in BOOLEAN : GuestAccess(a, v, write, sync)
       \/ \E a \in {0}, v \in Data, write \in BOOLEAN : GuestHooked(a, v, write)
    /\ regsAsk' = [kind |-> RegsNone]

RegsAskStep == regsAsk.kind = RegsNone /\ seen = [a \in Addresses |-> Unknown] /\ (AskField \/ AskLookup) /\ writes = 0 /\ ~started /\ UNCHANGED tracerVars

RegsNext == RegsAskStep \/ TracerStep

RegsSpec == RegsInit /\ [][RegsNext]_regsVars

-----------------------------------------------------------------------------
RegsTypeOK ==
    /\ dev \in [Addresses -> Data] /\ ctx \in BOOLEAN /\ started \in BOOLEAN
    /\ writes \in 0 .. MaxWrites /\ DOMAIN cache = Addresses /\ DOMAIN stored = Addresses

\* Writing a field changes the bits of the field, to the low bits of the value,
\* and no other bit of the register (Register.__setattr__).
FieldsApart ==
    regsAsk.kind = "field" =>
            \A i \in 0 .. Width : Bit(regsAsk.r, i) =
                IF regsAsk.f[2] <= i /\ i <= regsAsk.f[1] THEN Bit(regsAsk.x, i - regsAsk.f[2]) ELSE Bit(regsAsk.v, i)

\* An offset is named as a register exactly when one is described there, and as
\* the element that lies there, the last of an array included (_lookup_offset).
LookupExact ==
    regsAsk.kind = "lookup" =>
            LET here == {nd \in regsAsk.l.arrays : \E ix \in Indices(Stepped(nd)) : RegsOffset(Stepped(nd), ix) = regsAsk.o} IN
            IF regsAsk.o \in regsAsk.l.single THEN regsAsk.r = {<<"single", regsAsk.o, RegsNone>>}
            ELSE /\ {x[2] : x \in regsAsk.r} = here
                 /\ \A x \in regsAsk.r : RegsOffset(Stepped(x[2]), x[3]) = regsAsk.o

\* The handler called is the one of the register the guest touched, whatever the
\* offset at which the class was laid over the window, and a register of the
\* same name in another window is told apart by its prefix (evt_rw).
RightHandler == called \in {<<>>, <<0, RegsNone, "A">>, <<4, "p", "A">>, <<5, "p", "C">>}

\* The cache holds the last value seen on the bus, across tracers of one name;
\* only an access carried out by a hook passes it by (RegCache, tracer_caches).
CacheIsLastSeen == cache = seen

-----------------------------------------------------------------------------
(***************************************************************************)
(* The interval maps of the client library (proxyclient/m1n1/utils.py):    *)
(* three parallel lists, the starts, the ends and the values of disjoint   *)
(* ranges in address order, searched by bisection and split and merged in  *)
(* place.  The values here are sets of keys, as in SetRangeMap and         *)
(* DictRangeMap.  Next to the list runs what it stands for, one set per    *)
(* address; every operation of the classes is checked against it.          *)
(***************************************************************************)

CONSTANTS TopAddr,   \* addresses are 0 .. TopAddr
          Keys

VARIABLES list,   \* sequence of [s, e, v]
          ref,    \* address -> keys, what the list should hold
          compacted   \* the last operation was compact

rangesVars == <<list, ref, compacted>>

Addrs == 0 .. TopAddr
Zones == {<<a, b>> \in Addrs \X (1 .. TopAddr + 1) : a < b}    \* [start, stop)
Range3(s, e, v) == [s |-> s, e |-> e, v |-> v]

RangesInit == list = <<>> /\ ref = [a \in Addrs |-> {}] /\ compacted = FALSE

\* bisect_left over the ends: the first range that does not end before the address.
Bisect(l, a) == 1 + Cardinality({i \in DOMAIN l : l[i].e < a})
HoldsAddr(l, i, a) == i \in DOMAIN l /\ l[i].s <= a /\ a <= l[i].e

lookup(l, a) == LET i == Bisect(l, a) IN IF HoldsAddr(l, i, a) THEN l[i].v ELSE {}

split_KeepsEnd(l, i, a) ==
    SubSeq(l, 1, i) \o <<[l[i] EXCEPT !.s = a]>> \o SubSeq(l, i + 1, Len(l))

\* __split: range i becomes two, the second starting at the address.
split(l, i, a) ==
    SubSeq(l, 1, i - 1) \o <<[l[i] EXCEPT !.e = a - 1], [l[i] EXCEPT !.s = a]>>
        \o SubSeq(l, i + 1, Len(l))

SplitLeft(l, a) ==
    LET i == Bisect(l, a) IN IF HoldsAddr(l, i, a) /\ l[i].s # a THEN split(l, i, a) ELSE l

overlap_range_NoRight(l, z) ==
    LET m == SplitLeft(l, z[1]) IN
    [l |-> m, from |-> Bisect(m, z[1]), to |-> Cardinality({i \in DOMAIN m : m[i].s < z[2]})]

\* _overlap_range with split: the list with both ends of the zone cut, and the
\* positions of the ranges inside it.
overlap_range(l, z) ==
    LET m == SplitLeft(l, z[1])
        i == Bisect(m, z[2])
        ns == IF HoldsAddr(m, i, z[2]) /\ m[i].s < z[2] THEN split(m, i, z[2]) ELSE m
    IN [l |-> ns, from |-> Bisect(ns, z[1]), to |-> Cardinality({k \in DOMAIN ns : ns[k].s < z[2]})]

\* replace: the ranges inside the zone give way to one.
replace(l, z, v) ==
    LET o == overlap_range(l, z) IN
    SubSeq(o.l, 1, o.from - 1) \o <<Range3(z[1], z[2] - 1, v)>> \o SubSeq(o.l, o.to + 1, Len(o.l))

clear(l, z) ==
    LET o == overlap_range(l, z) IN
    SubSeq(o.l, 1, o.from - 1) \o SubSeq(o.l, o.to + 1, Len(o.l))

discard(l, z, k) ==
    LET o == overlap_range(l, z) IN
    [i \in DOMAIN o.l |-> IF i \in o.from .. o.to THEN [o.l[i] EXCEPT !.v = @ \ {k}] ELSE o.l[i]]

-----------------------------------------------------------------------------
(***************************************************************************)
(* populate: the walk along the zone                                       *)
(***************************************************************************)
RECURSIVE Populate(_, _, _, _, _)

\* From `start` at position i: append, insert a new range up to the next one,
\* or take the range that is there, cut at the end of the zone.
Populate(l, i, start, stop, k) ==
    IF start >= stop THEN l
    ELSE IF i > Len(l) THEN Append(l, Range3(start, stop - 1, {k}))
    ELSE IF l[i].s > start
    THEN LET b == IF l[i].s < stop THEN l[i].s ELSE stop IN
         Populate(InsertAt(l, i, Range3(start, b - 1, {k})), i + 1, b, stop, k)
    ELSE LET m == IF l[i].e > stop - 1 THEN split(l, i, stop) ELSE l IN
         Populate([m EXCEPT ![i].v = @ \cup {k}], i + 1, m[i].e + 1, stop, k)

add_NoLeft(l, z, k) == Populate(l, Bisect(l, z[1]), z[1], z[2], k)

add(l, z, k) == LET m == SplitLeft(l, z[1]) IN Populate(m, Bisect(m, z[1]), z[1], z[2], k)

-----------------------------------------------------------------------------
RangesMerge_Keeps(acc, x) == IF x.v = {} THEN acc ELSE Append(acc, x)

RangesMerge_Apart(acc, x) ==
    IF x.v = {} THEN acc
    ELSE IF acc # <<>> /\ acc[Len(acc)].v = x.v
    THEN [acc EXCEPT ![Len(acc)].e = x.e]
    ELSE Append(acc, x)

\* compact drops empty ranges and joins equal ones that touch.
RangesMerge(acc, x) ==
    IF x.v = {} THEN acc
    ELSE IF acc # <<>> /\ acc[Len(acc)].v = x.v /\ x.s = acc[Len(acc)].e + 1
    THEN [acc EXCEPT ![Len(acc)].e = x.e]
    ELSE Append(acc, x)

compact(l) == FoldLeft(RangesMerge, <<>>, l)

-----------------------------------------------------------------------------
In(a, z) == z[1] <= a /\ a < z[2]

DoAdd == \E z \in Zones, k \in Keys :
    /\ list' = add(list, z, k)
    /\ ref' = [a \in Addrs |-> IF In(a, z) THEN ref[a] \cup {k} ELSE ref[a]]
    /\ compacted' = FALSE

DoDiscard == \E z \in Zones, k \in Keys :
    /\ list' = discard(list, z, k)
    /\ ref' = [a \in Addrs |-> IF In(a, z) THEN ref[a] \ {k} ELSE ref[a]]
    /\ compacted' = FALSE

DoReplace == \E z \in Zones :
    /\ list' = replace(list, z, Keys)
    /\ ref' = [a \in Addrs |-> IF In(a, z) THEN Keys ELSE ref[a]]
    /\ compacted' = FALSE

DoClear == \E z \in Zones :
    /\ list' = clear(list, z)
    /\ ref' = [a \in Addrs |-> IF In(a, z) THEN {} ELSE ref[a]]
    /\ compacted' = FALSE

DoCompact == list' = compact(list) /\ compacted' = TRUE /\ UNCHANGED ref

RangesNext == DoAdd \/ DoDiscard \/ DoReplace \/ DoClear \/ DoCompact

RangesSpec == RangesInit /\ [][RangesNext]_rangesVars

-----------------------------------------------------------------------------
RangesTypeOK ==
    /\ \A i \in DOMAIN list : list[i].s \in Addrs /\ list[i].e \in Addrs /\ list[i].v \subseteq Keys
    /\ ref \in [Addrs -> SUBSET Keys]

\* Bisection stays sound: the ranges are never empty, never overlap and stay in
\* address order through every split, insertion and merge.
InOrder ==
    /\ \A i \in DOMAIN list : list[i].s <= list[i].e
    /\ \A i \in 1 .. Len(list) - 1 : list[i].e < list[i + 1].s

\* A lookup returns what was put there last, at every address, and at no other
\* (populate, overlaps, replace, clear, compact).
HoldsWhatWasPut == \A a \in Addrs : lookup(list, a) = ref[a]

\* After compact no range is empty and no two that touch could be one: the list
\* is the shortest that says the same.
Shortest ==
    compacted =>
        /\ \A i \in DOMAIN list : list[i].v # {}
        /\ \A i \in 1 .. Len(list) - 1 :
              list[i].e + 1 = list[i + 1].s => list[i].v # list[i + 1].v
=============================================================================
