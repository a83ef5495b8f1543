-------------------------------- MODULE GpuArenaHfi --------------------------------
(***************************************************************************)
(* The arena the GPU tools share with the GMU, and the HFI queues in it:   *)
(* picking and keeping the arena, stores of words that share a cache line, *)
(* the message rings, and the fake memory and SMMU of tools/test-a16gpu-   *)
(* stage3.py.  Each section is a machine of its own.                       *)
(***************************************************************************)
EXTENDS Integers, Sequences, FiniteSets

-----------------------------------------------------------------------------
(***************************************************************************)
(* The DMA arena of the GPU: picked and published by platform/uefi/          *)
(* gpu-el2.c, proven by arena_prove of tools/a16gpu_stage3.py before every   *)
(* command, released only when nothing can reach it.  Memory is counted in   *)
(* pages; an EFI descriptor is a maximal run of pages of one type.           *)
(***************************************************************************)

CONSTANTS Pages,        \* pages of memory, 1 .. Pages
          ArenaSize,    \* pages of the arena
          MaxArena      \* bound: commands

VARIABLES efi,          \* [page -> type] of the EFI memory map
          own,          \* q1n1's own ranges, <<first, length>>: image and preload
          state,        \* the payload's record: arena base (0: none), size, source
          record,       \* the host record kept in the arena: its arena base (0: blank), busy
          reach,        \* base of the arena a device can reach, 0 if none
          proven,       \* s.arena of the command just run, <<>> if it stopped
          arenaCmds

arenaVars == <<efi, own, state, record, reach, proven, arenaCmds>>

Types == {"Conventional", "LoaderData", "Reserved"}
NoArena == [base |-> 0, size |-> 0, source |-> "none"]

overlaps(a, n, b, k) == n > 0 /\ k > 0 /\ a < b + k /\ b < a + n

\* Descriptors of one type, as <<first, length>>.
Descriptors(t) ==
    {<<a, (CHOOSE n \in 1 .. Pages : /\ \A x \in a .. a + n - 1 : efi[x] = t
                                     /\ (a + n > Pages \/ efi[a + n] # t))>> :
        a \in {x \in 1 .. Pages : efi[x] = t /\ (x = 1 \/ efi[x - 1] # t)}}

Down(x, align) == x - (x % align)

-----------------------------------------------------------------------------
\* q1n1_gpu_pick walks each descriptor down from its top, stepping below a range it hits.

Walk_Once(start, end, align) ==
    LET f[c \in -Pages .. Pages] ==
          IF c < start \/ c + ArenaSize > end THEN 0
          ELSE LET hit == {r \in {own[1], own[2]} : overlaps(c, ArenaSize, r[1], r[2])}
                   clash == IF own[1] \in hit THEN own[1][1] ELSE IF hit # {} THEN own[2][1] ELSE 0
                   next == clash
               IN  IF clash = 0 THEN c ELSE IF next < c THEN next ELSE 0
    IN  f[Down(end - ArenaSize, align)]

Walk(start, end, align) ==
    LET f[c \in -Pages .. Pages] ==
          IF c < start \/ c + ArenaSize > end THEN 0
          ELSE LET hit == {r \in {own[1], own[2]} : overlaps(c, ArenaSize, r[1], r[2])}
                   clash == IF own[1] \in hit THEN own[1][1] ELSE IF hit # {} THEN own[2][1] ELSE 0
                   next == Down(clash - ArenaSize, align)
               IN  IF clash = 0 THEN c ELSE IF clash < ArenaSize \/ next >= c THEN 0 ELSE f[next]
    IN  f[Down(end - ArenaSize, align)]

q1n1_gpu_pick(limit, align) ==
    LET found == {Walk(d[1], IF d[1] + d[2] > limit THEN limit ELSE d[1] + d[2], align) :
                    d \in {x \in Descriptors("Conventional") :
                             (IF x[1] + x[2] > limit THEN limit ELSE x[1] + x[2]) - x[1] >= ArenaSize}}
    IN  IF found \subseteq {0} THEN 0 ELSE CHOOSE b \in found : \A c \in found : c <= b

\* Idempotent: an arena that is there already is kept.
claim(st, limit, align) ==
    LET base == q1n1_gpu_pick(limit, align) IN
    IF st.base # 0 \/ base = 0 THEN st ELSE [base |-> base, size |-> ArenaSize, source |-> "claimed"]

\* The arena is zeroed when it is claimed.
Zeroed(st) == IF st # state THEN [base |-> 0, busy |-> FALSE] ELSE record

-----------------------------------------------------------------------------
arena_prove_TypesOnly(st) ==
    LET hits == {d \in UNION {Descriptors(t) : t \in Types} : d[1] < st.base + st.size /\ st.base < d[1] + d[2]}
        kinds == {efi[d[1]] : d \in hits}
    IN  /\ st.base # 0 /\ st.size >= ArenaSize
        /\ kinds \subseteq {"Conventional", "LoaderData"}
        /\ ~(st.source = "claimed" /\ kinds # {"Conventional"})

\* What arena_prove requires of the published arena.
arena_prove(st) ==
    LET hits == {d \in UNION {Descriptors(t) : t \in Types} : d[1] < st.base + st.size /\ st.base < d[1] + d[2]}
        kinds == {efi[d[1]] : d \in hits}
        part(d) == (IF st.base + st.size < d[1] + d[2] THEN st.base + st.size ELSE d[1] + d[2])
                   - (IF st.base > d[1] THEN st.base ELSE d[1])
        covered[s \in SUBSET hits] == IF s = {} THEN 0 ELSE LET d == CHOOSE x \in s : TRUE IN part(d) + covered[s \ {d}]
    IN  /\ st.base # 0 /\ st.size >= ArenaSize
        /\ kinds \subseteq {"Conventional", "LoaderData"} /\ covered[hits] >= st.size
        /\ ~(st.source = "claimed" /\ kinds # {"Conventional"})
        /\ \A r \in {own[1], own[2]} : ~(r[1] # 0 /\ r[2] # 0 /\ r[1] < st.base + st.size /\ st.base < r[1] + r[2])

\* The host record counts only if it is this arena's.
read_host(st) == IF record.base = st.base THEN record ELSE [base |-> st.base, busy |-> FALSE]

Command == arenaCmds > 0 /\ arenaCmds < MaxArena /\ arenaCmds' = arenaCmds + 1

\* arena [--claim]
cmd_arena(c, limit, align) ==
    /\ Command
    /\ LET st == IF c THEN claim(state, limit, align) ELSE state IN
       /\ state' = st /\ record' = Zeroed(st)
       /\ proven' = IF arena_prove(st) THEN <<st.base, st.size, st.source>> ELSE <<>>
    /\ UNCHANGED <<efi, own, reach>>

\* gmu-smmu and the commands after it let the devices reach the arena and say so in the record; when the
\* link dies in between, the record does not say it.
Use(saved) ==
    /\ Command /\ arena_prove(state)
    /\ proven' = <<state.base, state.size, state.source>>
    /\ reach' = state.base
    /\ record' = IF saved THEN [base |-> state.base, busy |-> TRUE] ELSE record
    /\ UNCHANGED <<efi, own, state>>

cmd_quiesce ==
    /\ Command /\ arena_prove(state)
    /\ proven' = <<state.base, state.size, state.source>>
    /\ reach' = 0 /\ record' = [base |-> state.base, busy |-> FALSE]
    /\ UNCHANGED <<efi, own, state>>

\* The hardware itself must show that nothing reaches the arena.
release_proven_ByRecord == TRUE
release_proven == reach = 0

cmd_release ==
    /\ Command /\ arena_prove(state) /\ ~read_host(state).busy /\ release_proven
    /\ proven' = <<>>
    /\ state' = IF state.source = "claimed" THEN NoArena ELSE state
    /\ UNCHANGED <<efi, own, record, reach>>

\* q1n1_gpu_init in a chainloaded stage: the arena comes through bootinfo, and its source with it.
q1n1_gpu_init ==
    /\ Command /\ proven' = <<>>
    /\ UNCHANGED <<efi, own, state, record, reach>>

\* A boot: any memory map, any own ranges, perhaps an arena a payload on the ESP published.
Boot ==
    /\ arenaCmds = 0 /\ arenaCmds' = 1
    /\ efi' \in {[x \in 1 .. Pages |-> IF x \in i .. j THEN t ELSE "Conventional"] : i, j \in 1 .. Pages, t \in Types \ {"Conventional"}}
    /\ own' \in {<<<<a, n>>, <<b, 1>>>> : a \in {1, 3}, n \in {1, 2}, b \in {0, Pages}}
    /\ state' \in {NoArena} \cup {[base |-> b, size |-> n, source |-> "efi"] : b \in 1 .. Pages - 1, n \in {ArenaSize}}
    /\ UNCHANGED <<record, reach, proven>>

ArenaInit ==
    /\ efi = [x \in 1 .. Pages |-> "Conventional"] /\ own = <<<<1, 1>>, <<0, 1>>>> /\ state = NoArena
    /\ record = [base |-> 0, busy |-> FALSE] /\ reach = 0 /\ proven = <<>> /\ arenaCmds = 0

ArenaNext ==
    \/ Boot
    \/ cmd_arena(FALSE, Pages, 1)
    \/ \E l \in {Pages, Pages + 1}, a \in {1, 2} : cmd_arena(TRUE, l, a)
    \/ \E saved \in BOOLEAN : Use(saved)
    \/ cmd_quiesce \/ cmd_release \/ q1n1_gpu_init

-----------------------------------------------------------------------------
ArenaTypeOK ==
    /\ efi \in [1 .. Pages -> Types] /\ reach \in 0 .. Pages /\ arenaCmds \in 0 .. MaxArena
    /\ state.base \in 0 .. Pages /\ state.source \in {"none", "efi", "claimed"}

Taken == UNION {r[1] .. r[1] + r[2] - 1 : r \in {own[1], own[2]}} \ {0}

\* A command goes on only with an arena every page of which is described memory the firmware gave up,
\* none of it q1n1's own image or preload; an arena claimed at run time is Conventional memory only.
ArenaFree ==
    proven # <<>> =>
        \A x \in proven[1] .. proven[1] + proven[2] - 1 :
            /\ x \in 1 .. Pages /\ x \notin Taken
            /\ efi[x] \in (IF proven[3] = "claimed" THEN {"Conventional"} ELSE {"Conventional", "LoaderData"})

\* The pick takes the highest aligned window that fits, or says that there is none.
PickExact ==
    arenaCmds = 1 /\ state.base = 0 => \A limit \in {Pages, Pages + 1}, align \in {1, 2} :
        LET fits == {b \in 1 .. Pages : /\ b + ArenaSize <= limit /\ b % align = 0
                                        /\ \A x \in b .. b + ArenaSize - 1 : efi[x] = "Conventional" /\ x \notin Taken}
        IN  q1n1_gpu_pick(limit, align) = IF fits = {} THEN 0 ELSE CHOOSE b \in fits : \A c \in fits : c <= b

\* The payload never forgets or moves an arena that a device can still reach, even when the link died
\* before the host record said so.
ReachedIsKept == reach # 0 => state.base = reach

-----------------------------------------------------------------------------
(***************************************************************************)
(* One cache line of the arena that the host and the GMU share: an HFI queue *)
(* header with the index the host moves and the index the GMU moves          *)
(* (Session3.mem_write, mem_store32 and mem_read of tools/a16gpu_stage3.py). *)
(* The GMU's DMA goes past the core's cache, and the core may fetch or write *)
(* back a line at any time.  Every call is one proxy request after another.  *)
(***************************************************************************)

CONSTANT MaxIndex       \* bound: values of an index

VARIABLES dram,         \* the line in DRAM: the host's word and the GMU's
          cached,       \* the line in the core's cache: valid, dirty, the two words
          requests,     \* proxy requests of the call in progress
          gmu,          \* ghost: the index the GMU moved to last
          host,         \* ghost: the index the host stored last
          asked, got,   \* the GMU's index when a read was begun; what it returned (-1: none yet)
          inReset,      \* CM3_SYSRESET holds the GMU
          cut           \* the link died in a call; the next gmu-boot starts over

lineVars == <<dram, cached, requests, gmu, host, asked, got, inReset, cut>>

NoLine == [valid |-> FALSE, dirty |-> FALSE, h |-> 0, g |-> 0]
Back(d, c) == IF c.valid /\ c.dirty THEN [h |-> c.h, g |-> c.g] ELSE d
Filled == IF cached.valid THEN cached ELSE [valid |-> TRUE, dirty |-> FALSE, h |-> dram.h, g |-> dram.g]

Quiet == requests = <<>>

\* GPU_STORE32: clean+invalidate, store, clean+invalidate in one request on the target, interrupts masked.
mem_store32_TwoRequests == <<"writemem", "civac">>
mem_store32 == <<"store32">>

\* writemem, then a separate clean: only for lines no device writes.
mem_write == <<"writemem", "civac">>

mem_read_NoClean == <<"readmem">>
mem_read == <<"civac", "readmem">>

\* Publish: the host moves its index while the GMU runs.
Publish ==
    /\ Quiet /\ host < MaxIndex /\ host' = host + 1 /\ requests' = mem_store32
    /\ UNCHANGED <<dram, cached, gmu, asked, got, inReset, cut>>

\* _hfi_stop zeroes both indices, only with the CM3 held in reset.
hfi_stop_Running == TRUE
hfi_stop == inReset

Stop ==
    /\ Quiet /\ hfi_stop /\ host' = 0 /\ gmu' = 0 /\ requests' = mem_write
    /\ UNCHANGED <<dram, cached, asked, got, inReset, cut>>

Look ==
    /\ Quiet /\ requests' = mem_read /\ asked' = gmu /\ got' = -1
    /\ UNCHANGED <<dram, cached, gmu, host, inReset, cut>>

clean ==
    /\ dram' = Back(dram, cached) /\ cached' = NoLine /\ got' = got

Request ==
    /\ ~Quiet /\ requests' = Tail(requests)
    /\ CASE Head(requests) = "civac" -> clean /\ UNCHANGED <<host, inReset>>
         [] Head(requests) = "writemem" ->
              /\ cached' = [Filled EXCEPT !.dirty = TRUE, !.h = host, !.g = IF inReset THEN 0 ELSE @]
              /\ UNCHANGED <<dram, got, host, inReset>>
         [] Head(requests) = "store32" ->
              /\ dram' = [Back(dram, cached) EXCEPT !.h = host] /\ cached' = NoLine /\ UNCHANGED <<got, host, inReset>>
         [] Head(requests) = "readmem" -> got' = Filled.g /\ cached' = Filled /\ UNCHANGED <<dram, host, inReset>>
         [] Head(requests) = "release" -> inReset' = FALSE /\ UNCHANGED <<dram, cached, got, host>>
    /\ UNCHANGED <<gmu, asked, cut>>

\* The core fetches the line, or evicts it.
Fetch == /\ ~cached.valid /\ cached' = Filled /\ UNCHANGED <<dram, requests, gmu, host, asked, got, inReset, cut>>
Evict == /\ cached.valid /\ cached' = NoLine /\ dram' = Back(dram, cached) /\ UNCHANGED <<requests, gmu, host, asked, got, inReset, cut>>

\* The GMU moves its index in DRAM.
GmuMoves ==
    /\ ~inReset /\ gmu < MaxIndex /\ gmu' = gmu + 1 /\ dram' = [dram EXCEPT !.g = gmu + 1]
    /\ UNCHANGED <<cached, requests, host, asked, got, inReset, cut>>

\* gmu-boot writes the queue table anew, cleans it, and only then lets the CM3 go.
step_fw_load ==
    /\ Quiet /\ inReset /\ host' = 0 /\ gmu' = 0 /\ got' = -1 /\ cut' = FALSE
    /\ requests' = mem_write \o <<"release">>
    /\ UNCHANGED <<dram, cached, asked, inReset>>

\* quiesce resets the CM3 before anything else touches the queues.
line_cmd_quiesce ==
    /\ Quiet /\ ~inReset /\ inReset' = TRUE /\ got' = -1
    /\ UNCHANGED <<dram, cached, requests, gmu, host, asked, cut>>

\* The link dies between two requests of a call.
Interrupted ==
    /\ ~Quiet /\ requests' = <<>> /\ cut' = TRUE
    /\ UNCHANGED <<dram, cached, gmu, host, asked, got, inReset>>

LineInit ==
    /\ dram = [h |-> 0, g |-> 0] /\ cached = NoLine /\ requests = <<>> /\ gmu = 0 /\ host = 0
    /\ asked = 0 /\ got = -1 /\ inReset = TRUE /\ cut = FALSE

LineNext == Publish \/ Stop \/ Look \/ Request \/ Fetch \/ Evict \/ GmuMoves \/ step_fw_load \/ line_cmd_quiesce \/ Interrupted

-----------------------------------------------------------------------------
LineTypeOK ==
    /\ dram \in [h : 0 .. MaxIndex, g : 0 .. MaxIndex] /\ gmu \in 0 .. MaxIndex /\ host \in 0 .. MaxIndex
    /\ cached \in [valid : BOOLEAN, dirty : BOOLEAN, h : 0 .. MaxIndex, g : 0 .. MaxIndex]
    /\ asked \in 0 .. MaxIndex /\ got \in -1 .. MaxIndex /\ inReset \in BOOLEAN /\ cut \in BOOLEAN

\* The host never writes an older index of the GMU back over a newer one: whatever the core's cache
\* fetched or evicted meanwhile, DRAM holds the index the GMU stored last.
NoLostIndex == ~inReset => dram.g = gmu

\* What the host stored reaches DRAM by the end of a call that was not cut, for the GMU to see.
IndexReaches == Quiet /\ ~cut => dram.h = host

\* A read returns nothing older than the index the GMU had stored when the read began.
ReadFresh == got # -1 => got >= asked

-----------------------------------------------------------------------------
(***************************************************************************)
(* The HFI queues between tools/a16gpu_stage3.py and the GMU: two rings in  *)
(* the arena, one index of each written by either side.  The host writes    *)
(* over USB, one run of words at a time; the GMU reads and answers when it  *)
(* likes, posts messages nobody asked for, and may answer after the host    *)
(* gave up.  A run that stops leaves the rings as they are.                 *)
(***************************************************************************)

CONSTANTS Size,       \* dwords of a ring, a multiple of 4
          Commands,   \* records [id, n]: message id and dwords, header included
          SeqMod,     \* the sequence number wraps here
          Rounds,     \* MSGQ interrupts one hfi_wait_ack waits for
          MaxSends,   \* bound: commands sent
          MaxEvents   \* bound: unsolicited messages of the GMU

VARIABLES cmdq, cr, cw,       \* command ring and its read and write index
          rspq, rr, rw,       \* response ring
          msgq, bell,         \* interrupts: GMU to host, host to GMU
          taken, owed,        \* sends the GMU consumed, in order; acknowledgements it has not posted
          events,
          hseq, savedSeq,     \* hfi_seq in this run's record and in the arena
          sent,               \* ghost: the commands written so far, [id, n, seq, gaveUp]
          runs, hpc, round,   \* runs of words still to write; where the host is; MSGQ rounds left
          acked               \* ghost: <<send, send the accepted acknowledgement is for>>

hfiVars == <<cmdq, cr, cw, rspq, rr, rw, msgq, bell, taken, owed, events, hseq, savedSeq, sent, runs, hpc, round, acked>>
gmuSide == <<cr, taken, owed, events>>
hostSide == <<hseq, savedSeq, sent, runs, hpc, round, acked>>

Up4(i) == (4 * ((i + 3) \div 4)) % Size
Uid == Len(sent)
Pad == [uid |-> 0, at |-> 0]

\* hfi_send: the words of the message and its padding, from index write on, as contiguous runs.
Words(write, uid, n) ==
    LET padded == IF (write + n) % 4 = 0 THEN n ELSE n + 4 - ((write + n) % 4)
        word(k) == [to |-> (write + k - 1) % Size, w |-> IF k <= n THEN [uid |-> uid, at |-> k] ELSE Pad]
        all == [k \in 1 .. padded |-> word(k)]
        first == IF write + padded > Size THEN Size - write ELSE padded
    IN  IF first = padded THEN <<all>> ELSE <<SubSeq(all, 1, first), SubSeq(all, first + 1, padded)>>

Stored(ring, run) == [i \in 0 .. Size - 1 |->
    LET hit == {k \in 1 .. Len(run) : run[k].to = i} IN IF hit = {} THEN ring[i] ELSE run[CHOOSE k \in hit : TRUE].w]

-----------------------------------------------------------------------------
cmd_queue_drained == cr = cw

GiveUp == hpc' = "idle" /\ runs' = <<>> /\ hseq' = savedSeq /\ round' = 0
          /\ sent' = [sent EXCEPT ![Uid].gaveUp = TRUE]

\* hfi_send up to the first write: the queue must be drained and have room.
hfi_send_AnyRoom(c) ==
    /\ hpc = "idle" /\ Len(sent) < MaxSends /\ (cr - cw - 1) % Size >= c.n
    /\ hseq' = (savedSeq + 1) % SeqMod
    /\ sent' = Append(sent, [id |-> c.id, n |-> c.n, seq |-> hseq', gaveUp |-> FALSE])
    /\ runs' = Words(cw, Len(sent'), c.n) /\ hpc' = "write"
    /\ UNCHANGED <<cmdq, cw, rspq, rr, rw, msgq, bell, gmuSide, savedSeq, round, acked>>

hfi_send(c) ==
    /\ hpc = "idle" /\ Len(sent) < MaxSends /\ cmd_queue_drained /\ (cr - cw - 1) % Size >= c.n
    /\ hseq' = (savedSeq + 1) % SeqMod
    /\ sent' = Append(sent, [id |-> c.id, n |-> c.n, seq |-> hseq', gaveUp |-> FALSE])
    /\ runs' = Words(cw, Len(sent'), c.n) /\ hpc' = "write"
    /\ UNCHANGED <<cmdq, cw, rspq, rr, rw, msgq, bell, gmuSide, savedSeq, round, acked>>

WriteRun ==
    /\ hpc = "write" /\ runs # <<>>
    /\ cmdq' = Stored(cmdq, Head(runs)) /\ runs' = Tail(runs)
    /\ UNCHANGED <<cw, rspq, rr, rw, msgq, bell, gmuSide, hseq, savedSeq, sent, hpc, round, acked>>

\* write_index is stored once every word is in the ring.
HfiPublish_Early ==
    /\ hpc = "write" /\ Len(runs) = 1
    /\ cw' = Up4(cw + sent[Uid].n) /\ hpc' = "bell"
    /\ UNCHANGED <<cmdq, rspq, rr, rw, msgq, bell, gmuSide, hseq, savedSeq, sent, runs, round, acked>>

HfiPublish ==
    /\ hpc = "write" /\ runs = <<>>
    /\ cw' = Up4(cw + sent[Uid].n) /\ hpc' = "bell"
    /\ UNCHANGED <<cmdq, rspq, rr, rw, msgq, bell, gmuSide, hseq, savedSeq, sent, runs, round, acked>>

RingBell ==
    /\ hpc = "bell" /\ bell' = TRUE /\ hpc' = "wait" /\ round' = Rounds
    /\ UNCHANGED <<cmdq, cw, rspq, rr, rw, msgq, gmuSide, hseq, savedSeq, sent, runs, acked>>

\* hfi_wait_ack: one MSGQ round, then the response ring until it is empty.
ClearMsgq ==
    /\ hpc = "wait" /\ round > 0 /\ msgq
    /\ msgq' = FALSE /\ round' = round - 1 /\ hpc' = "read"
    /\ UNCHANGED <<cmdq, cw, rspq, rr, rw, bell, gmuSide, hseq, savedSeq, sent, runs, acked>>

RspEmpty ==
    /\ hpc = "read" /\ rr = rw /\ hpc' = "wait"
    /\ UNCHANGED <<cmdq, cw, rspq, rr, rw, msgq, bell, gmuSide, hseq, savedSeq, sent, runs, round, acked>>

Matches_AnyAck(m) == m.kind = "ack"
Matches(m) == m.kind = "ack" /\ m.seq = sent[Uid].seq /\ m.id = sent[Uid].id

Past_Exact(i, n) == (i + n) % Size
Past_NoWrap(i, n) == 4 * ((i + n + 3) \div 4)
Past(i, n) == Up4(i + n)

\* One message: the command queue must have drained, read_index moves past it, then it is judged.
hfi_wait_ack ==
    /\ hpc = "read" /\ rr # rw /\ cmd_queue_drained
    /\ rr' = Past(rr, rspq[rr].n)
    /\ IF ~Matches(rspq[rr]) THEN UNCHANGED hostSide
       ELSE IF rspq[rr].err THEN GiveUp /\ UNCHANGED <<savedSeq, acked>>
       ELSE /\ hpc' = "idle" /\ round' = 0 /\ savedSeq' = hseq /\ acked' = acked \cup {<<Uid, rspq[rr].uid>>}
            /\ UNCHANGED <<hseq, sent, runs>>
    /\ UNCHANGED <<cmdq, cw, rspq, rw, msgq, bell, gmuSide>>

\* Every Stop of these functions: an undrained or corrupt queue, no MSGQ, no acknowledgement; or the link dies.
HfiStop ==
    /\ hpc # "idle" /\ GiveUp
    /\ UNCHANGED <<cmdq, cw, rspq, rr, rw, msgq, bell, gmuSide, savedSeq, acked>>

-----------------------------------------------------------------------------
\* The GMU.
Take ==
    /\ bell /\ cr # cw
    /\ LET m == cmdq[cr] IN
       /\ m.uid # 0
       /\ taken' = Append(taken, m.uid)
       /\ cr' = Up4(cr + sent[m.uid].n)
       /\ \E err \in {FALSE, sent[m.uid].id = 1} : owed' = Append(owed, [uid |-> m.uid, err |-> err])
    /\ UNCHANGED <<cmdq, cw, rspq, rr, rw, msgq, bell, events, hostSide>>

Post(m) == /\ (rr - rw - 1) % Size >= 4
           /\ rspq' = [rspq EXCEPT ![rw] = m] /\ rw' = Up4(rw + m.n) /\ msgq' = TRUE

PostAck ==
    /\ owed # <<>>
    /\ LET o == Head(owed) IN Post([kind |-> "ack", uid |-> o.uid, seq |-> sent[o.uid].seq, id |-> sent[o.uid].id, err |-> o.err, n |-> 3])
    /\ owed' = Tail(owed) /\ UNCHANGED <<cmdq, cr, cw, rr, bell, taken, events, hostSide>>

PostEvent ==
    /\ events < MaxEvents /\ events' = events + 1
    /\ Post([kind |-> "event", uid |-> 0, seq |-> 0, id |-> 0, err |-> FALSE, n |-> 2])
    /\ UNCHANGED <<cmdq, cr, cw, rr, bell, taken, owed, hostSide>>

HfiInit ==
    /\ cmdq = [i \in 0 .. Size - 1 |-> Pad] /\ cr = 0 /\ cw = 0
    /\ rspq = [i \in 0 .. Size - 1 |-> [kind |-> "none", uid |-> 0, seq |-> 0, id |-> 0, err |-> FALSE, n |-> 0]] /\ rr = 0 /\ rw = 0
    /\ msgq = FALSE /\ bell = FALSE /\ taken = <<>> /\ owed = <<>> /\ events = 0 /\ hseq = 0 /\ savedSeq = 0
    /\ sent = <<>> /\ runs = <<>> /\ hpc = "idle" /\ round = 0 /\ acked = {}

HfiNext ==
    \/ \E c \in Commands : hfi_send(c)
    \/ WriteRun \/ HfiPublish \/ RingBell \/ ClearMsgq \/ RspEmpty \/ hfi_wait_ack \/ HfiStop
    \/ Take \/ PostAck \/ PostEvent

-----------------------------------------------------------------------------
HfiTypeOK ==
    /\ {cr, cw, rr, rw} \subseteq 0 .. Size - 1 /\ {msgq, bell} \subseteq BOOLEAN /\ {hseq, savedSeq} \subseteq 0 .. SeqMod - 1
    /\ hpc \in {"idle", "write", "bell", "wait", "read"} /\ round \in 0 .. Rounds /\ events \in 0 .. MaxEvents

\* Whatever run stopped between two writes, what the two indices delimit in the command ring is one whole
\* message, word after word, also where it wraps, and it is the last one published.
WholeMessage ==
    cr # cw => LET m == cmdq[cr] IN
        /\ m.uid # 0 /\ m.at = 1 /\ cw = Up4(cr + sent[m.uid].n)
        /\ \A k \in 1 .. sent[m.uid].n : cmdq[(cr + k - 1) % Size] = [uid |-> m.uid, at |-> k]

\* A command hfi_send reports as acknowledged was consumed by the GMU, and the acknowledgement is its own
\* or that of an abandoned earlier one with the same sequence number and id: the sequence number is saved
\* only after an acknowledgement, so the retry reuses it.
AckIsOurs ==
    \A a \in acked : /\ \E i \in 1 .. Len(taken) : taken[i] = a[2]
                     /\ a[1] = a[2] \/ (sent[a[2]].gaveUp /\ sent[a[2]].seq = sent[a[1]].seq /\ sent[a[2]].id = sent[a[1]].id)

\* The two readers never pass the writers: the response ring's read index stops at the message boundaries
\* the GMU wrote.
RspAligned == rr # rw => rspq[rr].n \in 1 .. 19

-----------------------------------------------------------------------------
(***************************************************************************)
(* FakeStage3 of tools/test-a16gpu-stage3.py, the machine the tests of the *)
(* GPU bring-up run against.  It answers the accesses of a run and keeps a *)
(* list of violations; the tests rely on it both for what the hardware     *)
(* would do and for noticing an access that should not have been made.     *)
(*                                                                         *)
(* The run is any sequence of the accesses.  Memory behind the cache, the  *)
(* SMMU and the chain from the rails to the command processor share        *)
(* nothing here and are explored apart.                                    *)
(***************************************************************************)

CONSTANTS MaxOps   \* accesses to memory, and changes of the SMMU

VARIABLES part, ops, viols,
          fakeDram, cache, pending, due, sameByte, lost,                        \* memory
          smr, s2cr, enabled, usfcfg, untranslated,                         \* SMMU
          rpmh, pll, tz, fw, asleep, reset, countdown, gmu_running, wholeBoot,
          hfi_state, oob_held, oob_since_boot, cleared, gx_on, cp_running, me_init, secvid

memVars == <<fakeDram, cache, pending, due, sameByte, lost>>
smmuVars == <<smr, s2cr, enabled, usfcfg, untranslated>>
chainVars == <<rpmh, pll, tz, fw, asleep, reset, countdown, gmu_running, wholeBoot,
               hfi_state, oob_held, oob_since_boot, cleared, gx_on, cp_running, me_init, secvid>>
fakeVars == <<part, ops, viols, fakeDram, cache, pending, due, sameByte, lost, smr, s2cr, enabled, usfcfg, untranslated,
              rpmh, pll, tz, fw, asleep, reset, countdown, gmu_running, wholeBoot,
              hfi_state, oob_held, oob_since_boot, cleared, gx_on, cp_running, me_init, secvid>>

Bytes == 1 .. 2   \* of the one line
Sids == 1 .. 2
Hit(v) == viols' = viols \cup {v}
Count == ops < MaxOps /\ ops' = ops + 1

FakeInit ==
  /\ part \in {"memory", "smmu", "chain"} /\ ops = 0 /\ viols = {}
  /\ fakeDram = [b \in Bytes |-> 0] /\ cache = <<>> /\ pending = <<>> /\ due = [b \in Bytes |-> -1]
  /\ sameByte = FALSE /\ lost = FALSE
  /\ smr = [i \in 1 .. 2 |-> 0] /\ s2cr = [i \in 1 .. 2 |-> "fault"] /\ enabled = FALSE /\ usfcfg = FALSE /\ untranslated = FALSE
  /\ rpmh = 0 /\ pll = "off" /\ tz = FALSE /\ fw = FALSE /\ asleep = FALSE /\ reset = TRUE /\ countdown = 0
  /\ gmu_running = FALSE /\ wholeBoot = FALSE /\ hfi_state = {} /\ oob_held = FALSE /\ oob_since_boot = FALSE
  /\ cleared = TRUE /\ gx_on = FALSE /\ cp_running = FALSE /\ me_init = FALSE /\ secvid = 1

(* -------------------------- memory behind the cache --------------------- *)
(* The cached line: its bytes, whether it is dirty, and the bytes the CPU wrote *)
FakeFilled == IF cache = <<>> THEN [d |-> fakeDram, dirty |-> FALSE, own |-> {}] ELSE cache[1]
Written(c, b, v) == [c EXCEPT !.d[b] = v, !.dirty = TRUE, !.own = @ \cup {b}]
cpu_read ==
  /\ part = "memory" /\ Count /\ cache' = <<FakeFilled>>
  /\ UNCHANGED <<part, viols, fakeDram, pending, due, sameByte, lost, smmuVars, chainVars>>
cpu_write ==
  /\ part = "memory" /\ Count
  /\ \E b \in Bytes, v \in 1 .. 2 : cache' = <<Written(FakeFilled, b, v)>> /\ due' = [due EXCEPT ![b] = -1]
  /\ UNCHANGED <<part, viols, fakeDram, pending, sameByte, lost, smmuVars, chainVars>>
(* P_MEMSET64: the whole line, dirty, whatever the cache held *)
memset ==
  /\ part = "memory" /\ Count
  /\ cache' = <<[d |-> [b \in Bytes |-> 2], dirty |-> TRUE, own |-> Bytes]>> /\ due' = [b \in Bytes |-> -1]
  /\ UNCHANGED <<part, viols, fakeDram, pending, sameByte, lost, smmuVars, chainVars>>
(* civac: the line goes back whole.  A byte the CPU did not write that differs from memory is one a *)
(* device wrote after the line was filled.                                                          *)
Overwrites_Dirty(c) == c.dirty
Overwrites(c) == c.dirty /\ \E b \in Bytes \ c.own : c.d[b] # fakeDram[b]
civac ==
  /\ part = "memory" /\ Count /\ cache # <<>> /\ cache' = <<>>
  /\ LET c == cache[1]
     IN  /\ fakeDram' = IF c.dirty THEN c.d ELSE fakeDram
         /\ viols' = viols \cup (IF Overwrites(c) THEN {"clobber"} ELSE {})
         /\ lost' = (lost \/ \E b \in Bytes : b \notin c.own /\ due[b] # -1 /\ due[b] # fakeDram'[b])
         /\ sameByte' = (sameByte \/ (c.dirty /\ \E b \in c.own : due[b] # -1))
  /\ UNCHANGED <<part, pending, due, smmuVars, chainVars>>
(* GPU_STORE32: the line cleaned, one byte written, the line cleaned again *)
store32 ==
  /\ part = "memory" /\ Count /\ cache' = <<>>
  /\ LET c == FakeFilled
         back == IF c.dirty THEN c.d ELSE fakeDram
     IN  /\ \E b \in Bytes : fakeDram' = [back EXCEPT ![b] = 1] /\ due' = [due EXCEPT ![b] = -1]
         /\ viols' = viols \cup (IF Overwrites(c) THEN {"clobber"} ELSE {})
         /\ lost' = (lost \/ \E b \in Bytes : b \notin c.own /\ due[b] # -1 /\ due[b] # back[b])
         /\ sameByte' = (sameByte \/ (c.dirty /\ \E b \in c.own : due[b] # -1))
  /\ UNCHANGED <<part, pending, smmuVars, chainVars>>
(* A write of the GMU that is in flight lands during a later request (_before) *)
GmuWrites ==
  /\ part = "memory" /\ Count /\ pending = <<>>
  /\ \E b \in Bytes, v \in 1 .. 2 : pending' = <<b, v>>
  /\ UNCHANGED <<part, viols, fakeDram, cache, due, sameByte, lost, smmuVars, chainVars>>
Lands ==
  /\ part = "memory" /\ pending # <<>> /\ pending' = <<>>
  /\ fakeDram' = [fakeDram EXCEPT ![pending[1]] = pending[2]] /\ due' = [due EXCEPT ![pending[1]] = pending[2]]
  /\ UNCHANGED <<part, ops, viols, cache, sameByte, lost, smmuVars, chainVars>>

(* --------------------------------- SMMU --------------------------------- *)
routed_to == {i \in 1 .. 2 : smr[i] # 0 /\ s2cr[i] = "translate"}
WriteSmr ==
  /\ part = "smmu" /\ Count /\ \E i \in 1 .. 2, s \in {0} \cup Sids : smr' = [smr EXCEPT ![i] = s]
  /\ UNCHANGED <<part, viols, s2cr, enabled, usfcfg, untranslated, memVars, chainVars>>
WriteS2cr ==
  /\ part = "smmu" /\ Count /\ \E i \in 1 .. 2, k \in {"translate", "bypass", "fault"} : s2cr' = [s2cr EXCEPT ![i] = k]
  /\ UNCHANGED <<part, viols, smr, enabled, usfcfg, untranslated, memVars, chainVars>>
WriteScr0 ==
  /\ part = "smmu" /\ Count /\ usfcfg' = ~usfcfg
  /\ UNCHANGED <<part, viols, smr, s2cr, enabled, untranslated, memVars, chainVars>>
(* Turning the context bank off while a stream is routed to it is noticed at once *)
WriteSctlr ==
  /\ part = "smmu" /\ Count /\ enabled' = ~enabled
  /\ viols' = viols \cup (IF enabled /\ routed_to # {} THEN {"bypass"} ELSE {})
  /\ UNCHANGED <<part, smr, s2cr, usfcfg, untranslated, memVars, chainVars>>
(* _translate: what becomes of a transaction, and whether it is a violation.  A stream that S2CR lets *)
(* by is only put down as a fault.                                                                    *)
translate_Quiet(sid) ==
  LET hits == {i \in 1 .. 2 : smr[i] = sid}
  IN  CASE hits = {} -> IF usfcfg THEN <<"fault", FALSE>> ELSE <<"untranslated", TRUE>>
        [] Cardinality(hits) = 2 -> <<"fault", FALSE>>
        [] OTHER -> LET kind == s2cr[CHOOSE i \in hits : TRUE]
                    IN  IF kind # "translate" THEN <<kind, FALSE>>
                        ELSE IF enabled THEN <<"translated", FALSE>> ELSE <<"untranslated", FALSE>>
translate(sid) ==
  LET hits == {i \in 1 .. 2 : smr[i] = sid}
  IN  CASE hits = {} -> IF usfcfg THEN <<"fault", FALSE>> ELSE <<"untranslated", TRUE>>
        [] Cardinality(hits) = 2 -> <<"fault", FALSE>>
        [] OTHER -> LET kind == s2cr[CHOOSE i \in hits : TRUE]
                    IN  IF kind # "translate" THEN <<kind, FALSE>>
                        ELSE IF enabled THEN <<"translated", FALSE>> ELSE <<"untranslated", TRUE>>
dma ==
  /\ part = "smmu" /\ ~untranslated
  /\ \E sid \in Sids : /\ untranslated' = (translate(sid)[1] = "untranslated")
                       /\ viols' = viols \cup (IF translate(sid)[2] THEN {"bypass"} ELSE {})
  /\ UNCHANGED <<part, ops, smr, s2cr, enabled, usfcfg, memVars, chainVars>>

(* --------------------- from the rails to the command processor ---------- *)
Chain == part = "chain" /\ viols = {}   \* one violation fails the test
(* _rsc_write: a vote, noticed when it lowers the rail *)
Vote ==
  /\ Chain /\ rpmh' = 1 - rpmh /\ viols' = viols \cup (IF rpmh = 1 THEN {"vote"} ELSE {})
  /\ UNCHANGED <<part, ops, memVars, smmuVars, pll, tz, fw, asleep, reset, countdown, gmu_running, wholeBoot,
                 hfi_state, oob_held, oob_since_boot, cleared, gx_on, cp_running, me_init, secvid>>
(* _pll_write: run, which locks only with the rails up; output on, noticed before the lock; stop *)
PllWrite ==
  /\ Chain
  /\ \/ pll = "off" /\ rpmh = 1 /\ pll' = "locking" /\ UNCHANGED viols
     \/ pll # "on" /\ pll' = (IF pll = "locked" THEN "on" ELSE pll) /\ viols' = viols \cup (IF pll = "locked" THEN {} ELSE {"order"})
     \/ pll # "off" /\ pll' = "off" /\ UNCHANGED viols
  /\ UNCHANGED <<part, ops, memVars, smmuVars, rpmh, tz, fw, asleep, reset, countdown, gmu_running, wholeBoot,
                 hfi_state, oob_held, oob_since_boot, cleared, gx_on, cp_running, me_init, secvid>>
(* _pll_read: the lock is seen after some reads *)
PllRead ==
  /\ Chain /\ pll = "locking" /\ pll' = "locked"
  /\ UNCHANGED <<part, ops, viols, memVars, smmuVars, rpmh, tz, fw, asleep, reset, countdown, gmu_running, wholeBoot,
                 hfi_state, oob_held, oob_since_boot, cleared, gx_on, cp_running, me_init, secvid>>
(* GPU_SMC with the GPU's initialisation *)
Smc ==
  /\ Chain /\ ~tz /\ tz' = TRUE
  /\ UNCHANGED <<part, ops, viols, memVars, smmuVars, rpmh, pll, fw, asleep, reset, countdown, gmu_running, wholeBoot,
                 hfi_state, oob_held, oob_since_boot, cleared, gx_on, cp_running, me_init, secvid>>
(* _gmu_write of the TCMs and the set-up registers: noticed while the CM3 runs *)
LoadFirmware ==
  /\ Chain /\ fw' = ~fw
  /\ viols' = viols \cup (IF reset THEN {} ELSE {"tcm"})
  /\ UNCHANGED <<part, ops, memVars, smmuVars, rpmh, pll, tz, asleep, reset, countdown, gmu_running, wholeBoot,
                 hfi_state, oob_held, oob_since_boot, cleared, gx_on, cp_running, me_init, secvid>>
(* GMU_RSCC_CONTROL_REQ: a6xx_rpmh_stop and a6xx_rpmh_start *)
RpmhStopStart ==
  /\ Chain /\ asleep' = ~asleep
  /\ UNCHANGED <<part, ops, viols, memVars, smmuVars, rpmh, pll, tz, fw, reset, countdown, gmu_running, wholeBoot,
                 hfi_state, oob_held, oob_since_boot, cleared, gx_on, cp_running, me_init, secvid>>

gx_collapse == gx_on' = FALSE /\ cp_running' = FALSE /\ me_init' = FALSE /\ secvid' = 1
(* GMU_CM3_SYSRESET: the reset stops everything; its end starts the GMU if all it needs is there *)
gmu_boot_Blind == fw /\ pll = "on" /\ cleared
gmu_boot == fw /\ pll = "on" /\ tz /\ cleared /\ ~asleep
Stopped_KeepsInit == countdown
Stopped == 0
SysReset ==
  /\ Chain /\ reset' = ~reset
  /\ IF ~reset
     THEN gmu_running' = FALSE /\ countdown' = Stopped /\ gx_collapse /\ hfi_state' = {} /\ UNCHANGED <<oob_since_boot, wholeBoot>>
     ELSE /\ wholeBoot' = (fw /\ pll = "on" /\ tz /\ ~asleep)
          /\ IF gmu_boot THEN countdown' = 2 /\ oob_since_boot' = FALSE /\ hfi_state' = {} ELSE UNCHANGED <<countdown, oob_since_boot, hfi_state>>
          /\ UNCHANGED <<gmu_running, gx_on, cp_running, me_init, secvid>>
  /\ UNCHANGED <<part, ops, viols, memVars, smmuVars, rpmh, pll, tz, fw, asleep, oob_held, cleared>>
(* GMU_CM3_FW_INIT_RESULT written back to 0 *)
ClearResult ==
  /\ Chain /\ ~cleared /\ cleared' = TRUE
  /\ UNCHANGED <<part, ops, viols, memVars, smmuVars, rpmh, pll, tz, fw, asleep, reset, countdown, gmu_running, wholeBoot,
                 hfi_state, oob_held, oob_since_boot, gx_on, cp_running, me_init, secvid>>
(* _gmu_read of the result: the GMU is up after some reads *)
ReadInitResult ==
  /\ Chain /\ countdown > 0 /\ countdown' = countdown - 1 /\ gmu_running' = (gmu_running \/ countdown = 1)
  /\ cleared' = (cleared /\ countdown # 1)
  /\ UNCHANGED <<part, ops, viols, memVars, smmuVars, rpmh, pll, tz, fw, asleep, reset, wholeBoot,
                 hfi_state, oob_held, oob_since_boot, gx_on, cp_running, me_init, secvid>>
(* _doorbell, _hfi_process, _hfi_message and _respond: a command in turn is taken, one out of turn is *)
(* answered with an error                                                                             *)
HfiOrder == <<"TABLE", "BW", "CORE", "START", "VOTE">>
InTurn_Any(i) == TRUE
InTurn(i) == \A j \in 1 .. i - 1 : HfiOrder[j] \in hfi_state
HfiCommand ==
  /\ Chain /\ gmu_running /\ \E i \in 1 .. 5 : InTurn(i) /\ hfi_state' = hfi_state \cup {HfiOrder[i]}
  /\ UNCHANGED <<part, ops, viols, memVars, smmuVars, rpmh, pll, tz, fw, asleep, reset, countdown, gmu_running, wholeBoot,
                 oob_held, oob_since_boot, cleared, gx_on, cp_running, me_init, secvid>>
PrepareSlumber ==
  /\ Chain /\ gmu_running /\ ~oob_held
  /\ \E counting \in BOOLEAN : viols' = viols \cup (IF oob_since_boot /\ ~counting THEN {} ELSE {"slumber"})
  /\ gx_collapse
  /\ UNCHANGED <<part, ops, memVars, smmuVars, rpmh, pll, tz, fw, asleep, reset, countdown, gmu_running, wholeBoot,
                 hfi_state, oob_held, oob_since_boot, cleared>>
OobGpuSet ==
  /\ Chain /\ gmu_running /\ {"START", "VOTE"} \subseteq hfi_state
  /\ gx_on' = TRUE /\ oob_held' = TRUE /\ oob_since_boot' = TRUE
  /\ UNCHANGED <<part, ops, viols, memVars, smmuVars, rpmh, pll, tz, fw, asleep, reset, countdown, gmu_running, wholeBoot,
                 hfi_state, cleared, cp_running, me_init, secvid>>
OobGpuClear ==
  /\ Chain /\ gmu_running /\ oob_held /\ oob_held' = FALSE
  /\ UNCHANGED <<part, ops, viols, memVars, smmuVars, rpmh, pll, tz, fw, asleep, reset, countdown, gmu_running, wholeBoot,
                 hfi_state, oob_since_boot, cleared, gx_on, cp_running, me_init, secvid>>
(* _gx_write of CP_SQE_CNTL: the SQE runs if it fetches the image; a wrong one is a violation *)
SqeStart ==
  /\ Chain /\ gx_on
  /\ \E image \in {"right", "wrong", "fault"} :
       /\ viols' = viols \cup (IF cp_running THEN {"cp"} ELSE {}) \cup (IF image = "wrong" THEN {"image"} ELSE {})
       /\ cp_running' = (image = "right")
  /\ UNCHANGED <<part, ops, memVars, smmuVars, rpmh, pll, tz, fw, asleep, reset, countdown, gmu_running, wholeBoot,
                 hfi_state, oob_held, oob_since_boot, cleared, gx_on, me_init, secvid>>
(* _cp_run: packets of the ring; CP_ME_INIT, a packet that is not one *)
CpRun ==
  /\ Chain /\ gx_on /\ cp_running
  /\ \/ me_init' = TRUE /\ UNCHANGED <<cp_running, viols>>
     \/ cp_running' = FALSE /\ Hit("packet") /\ UNCHANGED me_init
  /\ UNCHANGED <<part, ops, memVars, smmuVars, rpmh, pll, tz, fw, asleep, reset, countdown, gmu_running, wholeBoot,
                 hfi_state, oob_held, oob_since_boot, cleared, gx_on, secvid>>
(* _gx_write of RBBM_SECVID_TRUST_CNTL: blocked until the CP is initialised *)
Blocked_Never == FALSE
Blocked == ~me_init
LeaveSecure ==
  /\ Chain /\ gx_on /\ ~Blocked /\ secvid' = 0
  /\ UNCHANGED <<part, ops, viols, memVars, smmuVars, rpmh, pll, tz, fw, asleep, reset, countdown, gmu_running, wholeBoot,
                 hfi_state, oob_held, oob_since_boot, cleared, gx_on, cp_running, me_init>>

FakeNext ==
  \/ cpu_read \/ cpu_write \/ memset \/ civac \/ store32 \/ GmuWrites \/ Lands
  \/ WriteSmr \/ WriteS2cr \/ WriteScr0 \/ WriteSctlr \/ dma
  \/ Vote \/ PllWrite \/ PllRead \/ Smc \/ LoadFirmware \/ RpmhStopStart \/ SysReset \/ ClearResult \/ ReadInitResult
  \/ HfiCommand \/ PrepareSlumber \/ OobGpuSet \/ OobGpuClear \/ SqeStart \/ CpRun \/ LeaveSecure

FakeSpec == FakeInit /\ [][FakeNext]_fakeVars

-----------------------------------------------------------------------------
(* Type invariant. *)
FakeTypeOK ==
  /\ ops \in 0 .. MaxOps /\ fakeDram \in [Bytes -> 0 .. 2] /\ Len(cache) <= 1
  /\ smr \in [1 .. 2 -> {0} \cup Sids] /\ s2cr \in [1 .. 2 -> {"translate", "bypass", "fault"}]
  /\ rpmh \in 0 .. 1 /\ pll \in {"off", "locking", "locked", "on"} /\ countdown \in 0 .. 2
  /\ hfi_state \subseteq {HfiOrder[i] : i \in 1 .. 5} /\ secvid \in 0 .. 1

(* The fake reports a write of a device that a write-back of the cache destroyed, and reports none  *)
(* where none was destroyed, unless CPU and device wrote the same byte.                             *)
ClobberSeen == part = "memory" /\ ~sameByte => (("clobber" \in viols) <=> lost)

(* A transaction that reached memory untranslated was reported, whichever of the stream match, the  *)
(* bank and the global register let it through, but for a stream that S2CR lets by.                 *)
HoleSeen == part = "smmu" /\ untranslated => "bypass" \in viols

(* The fake's GPU is on only as the end of the whole chain: a GMU out of reset that was started with *)
(* firmware, clock, TrustZone and an awake RSC and has had its messages in order; its command        *)
(* processor runs only while GX is on, and leaves secure mode only once initialised.                 *)
WholeChain ==
  part = "chain" =>
    /\ gmu_running => ~reset /\ wholeBoot
    /\ gx_on => gmu_running /\ hfi_state = {HfiOrder[i] : i \in 1 .. 5}
    /\ (cp_running \/ me_init => gx_on) /\ (secvid = 0 => me_init)
=============================================================================
