------------------------------- MODULE StreamClients -------------------------------
(***************************************************************************)
(* The camera coprocessor (proxyclient/m1n1/fw/isp) and the audio DMA      *)
(* (hw/admac.py): commands, sessions and descriptor rings.  Each section   *)
(* is a machine of its own.                                                *)
(***************************************************************************)
EXTENDS Integers, Sequences, FiniteSets

-----------------------------------------------------------------------------
(***************************************************************************)
(* Commands to the camera coprocessor (proxyclient/m1n1/fw/isp/isp_cmd.py, *)
(* isp_vid.py).  Every command and every batch of buffers is passed in one *)
(* and the same piece of memory, so what an earlier message, or an answer  *)
(* to it, left there must not be read as part of the next.                 *)
(***************************************************************************)

CONSTANT MaxSends    \* bound on messages; two show what one leaves to the next

VARIABLES owner,     \* the message each sampled byte was written by
          busy,      \* the message the coprocessor has been given, or Idle
          seen,      \* owners of the bytes the coprocessor was told to read
          shown,     \* owners of the bytes the caller then printed
          sends

ispCmdVars == <<owner, busy, seen, shown, sends>>

Idle == -2

Cmd(o, b, i, u, r) == [op |-> o, built |-> b, insize |-> i, outsize |-> u, reads |-> r]

\* Opcode, size of the structure built, sizes announced, bytes printed after.
Cmds1 == {
    Cmd(4, 12, 12, 12, 0),        \* print_enable
    Cmd(29, 16, 12, 12, 0),       \* trace_enable
    Cmd(17, 16, 16, 16, 0),       \* set_isp_pmu_base
    Cmd(12804, 56, 56, 0, 0),     \* set_dsid_clr_req_base2
    Cmd(28, 56, 56, 0, 0),        \* pmp_ctrl_set
    Cmd(0, 16, 12, 12, 0)}        \* start
Cmds2 == {
    Cmd(3, 28, 28, 28, 32),       \* config_get
    Cmd(269, 28, 280, 280, 288),  \* ch_info_get
    Cmd(262, 28, 220, 220, 224),  \* ch_camera_config_get
    Cmd(263, 28, 16, 16, 0),      \* ch_camera_config_select
    Cmd(315, 16, 16, 16, 0)}      \* ch_sbs_enable
Cmds3 == {
    Cmd(270, 16, 16, 16, 0),      \* ch_buffer_recycle_mode_set
    Cmd(271, 12, 12, 12, 0),      \* ch_buffer_recycle_start
    Cmd(279, 152, 156, 156, 0),   \* ch_buffer_pool_config_set
    Cmd(272, 12, 12, 12, 0),      \* ch_buffer_recycle_stop
    Cmd(350, 16, 16, 16, 32),     \* ch_camera_agile_freq_array_current_get
    Cmd(2049, 32, 28, 28, 0)}     \* ch_crop_set
Cmds4 == {
    Cmd(2817, 60, 56, 56, 0),     \* ch_output_config_set
    Cmd(2829, 16, 16, 16, 0),     \* ch_preview_stream_set
    Cmd(2607, 16, 12, 12, 0),     \* ch_cnr_start
    Cmd(2618, 24, 24, 24, 0),     \* ch_mbnr_enable
    Cmd(49408, 24, 20, 20, 0)}    \* apple_ch_temporal_filter_start
Cmds5 == {
    Cmd(49410, 16, 12, 12, 0),    \* apple_ch_motion_history_start
    Cmd(49427, 16, 12, 12, 0),    \* apple_ch_temporal_filter_enable
    Cmd(33294, 44, 36, 36, 0),    \* apple_ch_ae_fd_scene_metering_config_set
    Cmd(33286, 16, 16, 16, 0),    \* apple_ch_ae_metering_mode_set
    Cmd(538, 16, 16, 16, 0),      \* ch_ae_stability_set
    Cmd(553, 16, 16, 16, 0)}      \* ch_ae_stability_to_stable_set
Cmds6 == {
    Cmd(277, 20, 20, 20, 0),      \* ch_sif_pixel_format_set
    Cmd(3330, 28, 28, 28, 32),    \* ch_face_detection_config_get
    Cmd(3331, 24, 24, 24, 0),     \* ch_face_detection_config_set
    Cmd(3333, 16, 16, 16, 0),     \* ch_face_detection_enable
    Cmd(3328, 12, 12, 12, 0)}     \* ch_face_detection_start
Cmds7 == {
    Cmd(261, 28, 220, 220, 224),  \* ch_camera_config_current_get
    Cmd(520, 16, 16, 16, 0),      \* ch_ae_frame_rate_max_set
    Cmd(522, 16, 16, 16, 0),      \* ch_ae_frame_rate_min_set
    Cmd(256, 12, 12, 12, 0),      \* ch_start
    Cmd(257, 12, 12, 12, 0),      \* ch_stop
    Cmd(1, 12, 12, 12, 0)}        \* stop
Cmds == Cmds1 \cup Cmds2 \cup Cmds3 \cup Cmds4 \cup Cmds5 \cup Cmds6 \cup Cmds7

\* ISPBufH2TPool: a header and ten buffers, of which 0x280 bytes are announced.
Pool == [op |-> -1, built |-> 16 + 10 * 64, insize |-> 640, outsize |-> 0, reads |-> 0]

\* The first byte after the end of anything that is written or read.
Bytes == {0} \cup {m.built : m \in Cmds} \cup {m.insize : m \in Cmds} \cup {m.outsize : m \in Cmds} \cup {400, 512, 640, 655}

IspCmdInit == owner = [b \in Bytes |-> "zero"] /\ busy = Idle /\ seen = {} /\ shown = {} /\ sends = 0

-----------------------------------------------------------------------------
Wrote(o, m, what) == [b \in Bytes |-> IF b < m THEN what ELSE o[b]]

CLEARED == 512

send_NoClear(m) ==
    /\ busy = Idle /\ sends < MaxSends /\ sends' = sends + 1
    /\ owner' = Wrote([b \in Bytes |-> IF owner[b] = "zero" THEN "zero" ELSE "old"], m.built, "mine")
    /\ busy' = m.op /\ seen' = {owner'[b] : b \in {x \in Bytes : x < m.insize}} /\ shown' = {}

\* ISPIOCommandDispatcher.send: the piece is cleared, then the arguments written.
send(m) ==
    /\ busy = Idle /\ sends < MaxSends /\ sends' = sends + 1
    /\ owner' = Wrote(Wrote([b \in Bytes |-> IF owner[b] = "zero" THEN "zero" ELSE "old"], CLEARED, "zero"), m.built, "mine")
    /\ busy' = m.op /\ seen' = {owner'[b] : b \in {x \in Bytes : x < m.insize}} /\ shown' = {}

\* ISPBufH2TPool.send: nothing is cleared; the batch is longer than any command.
SendPool ==
    /\ busy = Idle /\ sends < MaxSends /\ sends' = sends + 1
    /\ owner' = Wrote([b \in Bytes |-> IF owner[b] = "zero" THEN "zero" ELSE "old"], Pool.built, "mine")
    /\ busy' = Pool.op /\ seen' = {owner'[b] : b \in {x \in Bytes : x < Pool.insize}} /\ shown' = {}

Shown_All(m) == {owner'[b] : b \in {x \in Bytes : x < CLEARED + 256}}

\* The callback of a command that asks for something prints the piece.
Shown(m) == {owner'[b] : b \in {x \in Bytes : x < m.reads}}

\* The coprocessor answers in place, within the size it was given.
Answers(m) ==
    /\ busy = m.op /\ busy' = Idle
    /\ \E n \in {0, m.outsize} : owner' = Wrote(owner, n, "answer")
    /\ shown' = (IF m.reads = 0 THEN {} ELSE Shown(m))
    /\ UNCHANGED <<seen, sends>>

IspCmdNext == SendPool \/ Answers(Pool) \/ \E m \in Cmds : send(m) \/ Answers(m)

IspCmdSpec == IspCmdInit /\ [][IspCmdNext]_ispCmdVars

-----------------------------------------------------------------------------
IspCmdTypeOK ==
    /\ owner \in [Bytes -> {"zero", "old", "mine", "answer"}] /\ sends \in 0 .. MaxSends
          /\ busy \in {Idle, -1} \cup {m.op : m \in Cmds}

\* What the coprocessor reads of a message is that message, and zeroes where it
\* is shorter than announced: never what an earlier one, or its answer, left.
NothingStaleRead == "old" \notin seen /\ "answer" \notin seen

\* What is printed after a query is its answer, its own arguments or zeroes.
NothingStaleShown == "old" \notin shown

-----------------------------------------------------------------------------
(***************************************************************************)
(* The camera coprocessor (proxyclient/m1n1/fw/isp/isp_base.py, isp_chan.  *)
(* py, __init__.py, isp_vid.py): its power domains and firmware are        *)
(* brought up in three handshakes through mailbox registers; then requests *)
(* pass in both directions through ring channels whose entries carry an    *)
(* acknowledgement bit.  A request of the host waits, serving the          *)
(* firmware's memory requests meanwhile.                                   *)
(***************************************************************************)

CONSTANTS Num,        \* entries of a ring
          IspMaxSends,   \* bound on the host's requests
          MaxAsks     \* bound on the firmware's requests of each kind

VARIABLES pc,         \* where boot is, or "ready", "sending", "failed", "off"
          power,      \* domains switched on
          maps,       \* pieces mapped for the firmware
          ttbr,       \* pieces under the table the two other DARTs were given
          gpio,       \* the mailbox registers: [g0, g3, g7]
          fw,         \* "off", "wait1", "wait2", "wait3", "up"
          atx,        \* atexit has the shutdown
          ring,       \* channel -> entry -> [id, ack]
          cur, fcur,  \* cursors of the host and of the firmware
          done,       \* requests of the host the firmware has done
          sent,       \* requests the host has sent
          asks,       \* channel -> requests the firmware has made
          given,      \* addresses given to the firmware, with the request they answer
          frames      \* frames the host has taken

ispVars == <<pc, power, maps, ttbr, gpio, fw, atx, ring, cur, fcur, done, sent, asks, given, frames>>
chans == <<ring, cur, fcur, done, sent, asks, given, frames>>
hw == <<power, maps, ttbr, gpio, fw, atx>>

Channels == {"io", "sm", "bt"}
H2T == {"io"}
Domains == 0 .. 2      \* of the thirteen, low to high
Pieces == {"text", "data", "heap", "ipc", "extra"}
Magic == 6

IspInit ==
    /\ pc = "off" /\ power = {} /\ maps = {} /\ ttbr = {} /\ gpio = [g0 |-> 0, g3 |-> 0, g7 |-> 0] /\ fw = "off" /\ atx = FALSE
    /\ ring = [c \in Channels |-> [i \in 0 .. Num - 1 |-> [id |-> 0, ack |-> TRUE]]]
    /\ cur = [c \in Channels |-> 0] /\ fcur = [c \in Channels |-> 0]
    /\ done = 0 /\ sent = 0 /\ asks = [c \in Channels |-> 0] /\ given = <<>> /\ frames = 0

Boot(from, to) == pc = from /\ pc' = to

-----------------------------------------------------------------------------
(***************************************************************************)
(* Boot                                                                    *)
(***************************************************************************)
\* Domains go on from the lowest, one write each.
power_on == \E d \in Domains :
    /\ d \notin power /\ \A e \in Domains : e < d => e \in power
    /\ pc \in {"off", "powering"} /\ power' = power \cup {d}
    /\ pc' = IF power' = Domains THEN "tunables" ELSE "powering"
    /\ UNCHANGED <<maps, ttbr, gpio, fw, atx, chans>>

\* The DARTs' copy of the table base is taken before anything is mapped.
write_tunables == Boot("tunables", "reset") /\ ttbr' = maps /\ UNCHANGED <<power, maps, gpio, fw, atx, chans>>

\* reset, then is_ready: the coprocessor must be waiting.
reset == (Boot("reset", "stage0") \/ Boot("reset", "failed")) /\ UNCHANGED <<hw, chans>>

Stage0_Unsynced == Boot("stage0", "stage1") /\ maps' = {"text", "data", "heap"} /\ UNCHANGED <<power, ttbr, gpio, fw, atx, chans>>

\* Stage0: the firmware's own memory is mapped, and sync_ttbr copies the base,
\* which exists only now.
Stage0 == Boot("stage0", "stage1") /\ maps' = {"text", "data", "heap"} /\ ttbr' = maps' /\ UNCHANGED <<power, gpio, fw, atx, chans>>

\* Stage1: the mailbox is cleared, the coprocessor started, and the register it
\* answers in cleared once more.
Stage1 ==
    /\ \/ Boot("stage1", "signal") /\ gpio' = [gpio EXCEPT !.g7 = 0, !.g0 = 0] /\ fw' = "wait1"
       \/ Boot("signal", "await1") /\ gpio' = [gpio EXCEPT !.g7 = 0] /\ UNCHANGED fw
    /\ UNCHANGED <<power, maps, ttbr, atx, chans>>

Stage2_Early == Boot("stage2", "await2") /\ gpio' = [gpio EXCEPT !.g0 = 1, !.g7 = 9] /\ UNCHANGED <<power, maps, ttbr, fw, atx, chans>>

\* Stage2: the channel memory and the extra heap the firmware asked for are
\* mapped, the boot arguments written, and their address handed over.
Stage2 ==
    /\ Boot("stage2", "await2") /\ maps' = maps \cup {"ipc", "extra"} /\ ttbr' = maps'
    /\ gpio' = [gpio EXCEPT !.g0 = 1, !.g7 = 9] /\ UNCHANGED <<power, fw, atx, chans>>

\* Stage3: the table is read, every entry the host writes is marked acknowledged.
Stage3 ==
    /\ Boot("stage3", "await3") /\ gpio' = [gpio EXCEPT !.g3 = Magic]
    /\ ring' = [ring EXCEPT !["io"] = [i \in 0 .. Num - 1 |-> [id |-> 0, ack |-> TRUE]]]
    /\ UNCHANGED <<power, maps, ttbr, fw, atx, cur, fcur, done, sent, asks, given, frames>>

Await == [await1 |-> "stage2", await2 |-> "stage3", await3 |-> "enable"]
Reached == CASE pc = "await3" -> gpio.g3 = 0 [] OTHER -> gpio.g7 = Magic

\* The three waits: a hundred looks, then an assertion.
Awaits ==
    /\ pc \in DOMAIN Await
    /\ \/ Reached /\ pc' = Await[pc]
       \/ ~Reached /\ pc' = "failed"
    /\ UNCHANGED <<hw, chans>>

boot_NoAtexit == Boot("enable", "ready") /\ UNCHANGED <<power, maps, ttbr, gpio, fw, atx, chans>>

\* Interrupts on, and only then is the shutdown registered.
boot == Boot("enable", "ready") /\ atx' = TRUE /\ UNCHANGED <<power, maps, ttbr, gpio, fw, chans>>

shutdown_Lowest ==
    /\ pc \in {"ready", "stopping"} /\ atx
    /\ fw' = "off"
    /\ \E d \in power : /\ \A e \in power : e >= d
                        /\ power' = power \ {d} /\ pc' = (IF power' = {} THEN "end" ELSE "stopping")
    /\ UNCHANGED <<maps, ttbr, gpio, atx, chans>>

\* shutdown: interrupts and coprocessor off, then the domains from the highest.
shutdown ==
    /\ pc \in {"ready", "stopping"} /\ atx
    /\ fw' = "off"
    /\ \E d \in power : /\ \A e \in power : e <= d
                        /\ power' = power \ {d} /\ pc' = (IF power' = {} THEN "end" ELSE "stopping")
    /\ UNCHANGED <<maps, ttbr, gpio, atx, chans>>

FwBoots ==
    /\ \/ fw = "wait1" /\ gpio' = [gpio EXCEPT !.g7 = Magic] /\ fw' = "wait2"
       \/ fw = "wait2" /\ gpio.g7 = 9 /\ gpio' = [gpio EXCEPT !.g7 = Magic] /\ fw' = "wait3"
       \/ fw = "wait3" /\ gpio.g3 = Magic /\ gpio' = [gpio EXCEPT !.g3 = 0] /\ fw' = "up"
    /\ UNCHANGED <<pc, power, maps, ttbr, atx, chans>>

-----------------------------------------------------------------------------
(***************************************************************************)
(* Channels                                                                *)
(***************************************************************************)
update_cursor_Stays(i) == IF i >= Num - 1 THEN i ELSE i + 1
update_cursor(i) == IF i >= Num - 1 THEN 0 ELSE i + 1

isp_send_OverAck ==
    /\ pc = "ready" /\ sent < IspMaxSends /\ sent' = sent + 1 /\ pc' = "sending"
    /\ ring' = [ring EXCEPT !["io"][cur["io"]].id = sent + 1]
    /\ UNCHANGED <<hw, cur, fcur, done, asks, given, frames>>

\* send_once, up to its wait: the request goes into the entry at the cursor.
isp_send ==
    /\ pc = "ready" /\ sent < IspMaxSends /\ sent' = sent + 1 /\ pc' = "sending"
    /\ ring' = [ring EXCEPT !["io"][cur["io"]] = [id |-> sent + 1, ack |-> FALSE]]
    /\ UNCHANGED <<hw, cur, fcur, done, asks, given, frames>>

\* The entry carries the acknowledgement of this request; the cursor moves on.
Acked ==
    /\ pc = "sending" /\ ring["io"][cur["io"]].ack /\ ring["io"][cur["io"]].id = sent
    /\ pc' = "ready" /\ cur' = [cur EXCEPT !["io"] = update_cursor(@)]
    /\ UNCHANGED <<hw, ring, fcur, done, sent, asks, given, frames>>

\* handler of the memory channel, from send_once's wait: each request is given
\* a fresh piece (a request to free is only acknowledged).
SharedMalloc ==
    LET i == cur["sm"] IN
    /\ pc = "sending" /\ ~ring["sm"][i].ack
    /\ given' = Append(given, [id |-> ring["sm"][i].id, iova |-> Len(given) + 1])
    /\ ring' = [ring EXCEPT !["sm"][i].ack = TRUE]
    /\ cur' = [cur EXCEPT !["sm"] = update_cursor(@)]
    /\ UNCHANGED <<hw, pc, fcur, done, sent, asks, frames>>

\* handler of the frame channel, between two requests (work): a frame is read
\* and its buffer handed back.
BufT2H ==
    LET i == cur["bt"] IN
    /\ pc = "ready" /\ ~ring["bt"][i].ack
    /\ frames' = ring["bt"][i].id
    /\ ring' = [ring EXCEPT !["bt"][i].ack = TRUE]
    /\ cur' = [cur EXCEPT !["bt"] = update_cursor(@)]
    /\ UNCHANGED <<hw, pc, fcur, done, sent, asks, given>>

\* The firmware takes requests in ring order, asks for memory or delivers a frame
\* in the next entry whose last use has been acknowledged.
FwServes ==
    LET e == ring["io"][fcur["io"]] IN
    /\ fw = "up" /\ ~e.ack /\ e.id = done + 1
    /\ \A i \in 0 .. Num - 1 : ring["sm"][i].ack
    /\ done' = e.id /\ ring' = [ring EXCEPT !["io"][fcur["io"]].ack = TRUE]
    /\ fcur' = [fcur EXCEPT !["io"] = (@ + 1) % Num]
    /\ UNCHANGED <<hw, pc, cur, sent, asks, given, frames>>

FwAsks == \E c \in {"sm", "bt"} :
    LET i == fcur[c] IN
    /\ fw = "up" /\ asks[c] < MaxAsks /\ ring[c][i].ack
    /\ asks' = [asks EXCEPT ![c] = @ + 1]
    /\ ring' = [ring EXCEPT ![c][i] = [id |-> asks[c] + 1, ack |-> FALSE]]
    /\ fcur' = [fcur EXCEPT ![c] = (@ + 1) % Num]
    /\ UNCHANGED <<hw, pc, cur, done, sent, given, frames>>

IspNext ==
    \/ power_on \/ write_tunables \/ reset \/ Stage0 \/ Stage1 \/ Stage2 \/ Stage3 \/ Awaits \/ boot \/ shutdown
    \/ FwBoots \/ isp_send \/ Acked \/ SharedMalloc \/ BufT2H \/ FwServes \/ FwAsks

IspSpec == IspInit /\ [][IspNext]_ispVars

-----------------------------------------------------------------------------
IspTypeOK ==
    /\ power \subseteq Domains /\ maps \subseteq Pieces /\ ttbr \subseteq Pieces /\ atx \in BOOLEAN
    /\ cur \in [Channels -> 0 .. Num - 1] /\ fcur \in [Channels -> 0 .. Num - 1]
    /\ done \in 0 .. IspMaxSends /\ sent \in 0 .. IspMaxSends

\* The firmware runs only on memory that is mapped for it under the table its
\* DARTs use: its own from the start, the channels once it was told of them.
FirmwareMapped ==
    /\ fw # "off" => {"text", "data", "heap"} \subseteq ttbr
    /\ fw \in {"wait3", "up"} => ttbr = Pieces

\* The coprocessor never runs with a power domain off, and a domain is never on
\* above one that is off.
PoweredWhileRunning ==
    /\ fw # "off" => power = Domains
    /\ \A d \in power : \A e \in Domains : e < d => e \in power

\* Once boot has succeeded, an exit always finds the shutdown to run; a boot that
\* failed has registered none, and may leave the firmware running.
ExitShutsDown == (pc \in {"ready", "sending"} => atx) /\ (pc = "end" => fw = "off" /\ power = {})

\* A request that returns has been done by the firmware.
AckedMeansDone == pc = "ready" => done = sent

\* The firmware's requests are served once each, in order, each with its own piece.
ServedOnce ==
    /\ \A i \in DOMAIN given : given[i].id = i
    /\ \A i, j \in DOMAIN given : given[i].iova = given[j].iova => i = j
    /\ frames <= asks["bt"] /\ (pc = "ready" /\ ring["bt"][cur["bt"]].ack => frames = asks["bt"])

\* A host that waits for an answer is never waited for in turn.
NoDeadlock ==
    pc = "sending" => \/ ring["io"][cur["io"]].ack
                      \/ ~ring["sm"][cur["sm"]].ack
                      \/ (fcur["io"] = cur["io"] /\ \A i \in 0 .. Num - 1 : ring["sm"][i].ack)

-----------------------------------------------------------------------------
(***************************************************************************)
(* The client of Apple's audio DMA controller (hw/admac.py): one receive   *)
(* channel with a ring of descriptors and a ring of reports, both kept in  *)
(* the device and fed four pieces at a time through one register.  Buffers *)
(* are cut from a reserved area that is used round and round.              *)
(***************************************************************************)

CONSTANTS Depth,    \* slots of each ring (4 in the device)
          Ids,      \* descriptor numbers before they repeat (256 in the code)
          Area,     \* units of the reserved area
          MaxDescs, \* descriptors submitted
          W         \* bits of a piece (32 in the device)

VARIABLES on, pos, id, submitted, dring, rring, admacDone, mem, admacPc, n, rn, ok, reuse, lost, ask

admacVars == <<on, pos, id, submitted, dring, rring, admacDone, mem, admacPc, n, rn, ok, reuse, lost, ask>>

NoDesc == [addr |-> 0, len |-> 0, n |-> 0, id |-> -1]

AdmacInit ==
  /\ on = FALSE /\ pos = 0 /\ id = 0
  /\ submitted = [i \in 0 .. Ids - 1 |-> NoDesc]
  /\ dring = <<>> /\ rring = <<>> /\ admacDone = FALSE
  /\ mem = [a \in 0 .. Area - 1 |-> 0]
  /\ admacPc = "idle" /\ n = 0 /\ rn = 0 /\ ok = TRUE /\ reuse = FALSE /\ lost = FALSE
  /\ ask = <<>>

(* ADMAC.get_buffer: back to the start when the rest is too short *)
get_buffer(size) == IF pos + size > Area THEN 0 ELSE pos

(* What the device, or a report not read yet, still needs *)
Pending == {dring[i] : i \in 1 .. Len(dring)} \cup {submitted[rring[i].id] : i \in 1 .. Len(rring)}
Cells(d) == d.addr .. d.addr + d.len - 1

NextId_Short == (id + 1) % Depth
NextId == (id + 1) % Ids

(* ADMACChannel.submit and submit_desc, refused while the ring is full *)
can_submit_Always == Len(dring) <= Depth
can_submit == Len(dring) < Depth
submit ==
  /\ admacPc = "idle" /\ n < MaxDescs /\ ask = <<>> /\ ~lost
  /\ can_submit
  /\ \E size \in 1 .. 2 :
       LET a == get_buffer(size)
           d == [addr |-> a, len |-> size, n |-> n + 1, id |-> id]
       IN  /\ pos' = a + size
           /\ reuse' = (reuse \/ \E p \in Pending : Cells(p) \cap Cells(d) # {})
           /\ lost' = (Len(dring) >= Depth)
           /\ dring' = IF Len(dring) < Depth THEN Append(dring, d) ELSE dring
           /\ submitted' = [submitted EXCEPT ![id] = d]
  /\ id' = NextId /\ n' = n + 1
  /\ UNCHANGED <<on, rring, admacDone, mem, admacPc, rn, ok, ask>>

enable == ~on /\ ask = <<>> /\ on' = TRUE /\ UNCHANGED <<pos, id, submitted, dring, rring, admacDone, mem, admacPc, n, rn, ok, reuse, lost, ask>>
disable == on /\ admacPc = "idle" /\ on' = FALSE /\ UNCHANGED <<pos, id, submitted, dring, rring, admacDone, mem, admacPc, n, rn, ok, reuse, lost, ask>>

(* reset empties both rings; what was submitted stays in the client's table, and the numbers go on *)
admac_reset ==
  /\ admacPc = "idle" /\ ~on /\ (dring # <<>> \/ rring # <<>>)
  /\ dring' = <<>> /\ rring' = <<>> /\ rn' = n
  /\ UNCHANGED <<on, pos, id, submitted, admacDone, mem, admacPc, n, ok, reuse, lost, ask>>

(* The device fills the buffer at the head of the ring and reports it, while a report fits *)
Completes ==
  /\ on /\ dring # <<>> /\ Len(rring) < Depth
  /\ mem' = [a \in DOMAIN mem |-> IF a \in Cells(Head(dring)) THEN Head(dring).n ELSE mem[a]]
  /\ rring' = Append(rring, [id |-> Head(dring).id, n |-> Head(dring).n])
  /\ dring' = Tail(dring) /\ admacDone' = TRUE
  /\ UNCHANGED <<on, pos, id, submitted, admacPc, n, rn, ok, reuse, lost, ask>>

(* poll waits for DESC_DONE, clears it, and then reads reports until the ring is empty *)
poll_Starts ==
  /\ admacPc = "idle" /\ admacDone /\ admacPc' = "read" /\ admacDone' = FALSE
  /\ UNCHANGED <<on, pos, id, submitted, dring, rring, mem, n, rn, ok, reuse, lost, ask>>
read_reports_One ==
  /\ admacPc = "read" /\ rring # <<>>
  /\ LET r == Head(rring)
         d == submitted[r.id]
     IN  ok' = (ok /\ r.n = rn + 1 /\ d.n = r.n /\ (reuse \/ \A a \in Cells(d) : mem[a] = r.n))
  /\ rn' = Head(rring).n
  /\ rring' = Tail(rring) /\ admacPc' = "idle"
  /\ UNCHANGED <<on, pos, id, submitted, dring, admacDone, mem, n, reuse, lost, ask>>
read_reports ==
  /\ admacPc = "read" /\ rring # <<>>
  /\ LET r == Head(rring)
         d == submitted[r.id]
     IN  ok' = (ok /\ r.n = rn + 1 /\ d.n = r.n /\ (reuse \/ \A a \in Cells(d) : mem[a] = r.n))
  /\ rn' = Head(rring).n
  /\ rring' = Tail(rring)
  /\ UNCHANGED <<on, pos, id, submitted, dring, admacDone, mem, admacPc, n, reuse, lost, ask>>
poll_Ends ==
  /\ admacPc = "read" /\ rring = <<>> /\ admacPc' = "idle"
  /\ UNCHANGED <<on, pos, id, submitted, dring, rring, admacDone, mem, n, rn, ok, reuse, lost, ask>>

(* Not waiting: poll(wait=False) goes on to read whatever the status *)
poll_NoWait ==
  /\ admacPc = "idle" /\ ~admacDone /\ n > 0 /\ admacPc' = "read"
  /\ UNCHANGED <<on, pos, id, submitted, dring, rring, admacDone, mem, n, rn, ok, reuse, lost, ask>>

(* A descriptor goes out, and a report comes in, as four pieces of W bits *)
ser(addr, len, flags) == <<addr % 2 ^ W, (addr \div 2 ^ W) % 2 ^ W, len % 2 ^ W, flags>>
deser_Swapped(s) == <<s[2] + s[1] * 2 ^ W, s[3], s[4]>>
deser(s) == <<s[1] + s[2] * 2 ^ W, s[3], s[4]>>
AskPieces ==
  /\ n = 0 /\ ~on /\ ask = <<>>
  /\ \E addr \in 0 .. 2 ^ (2 * W) - 1, len \in 0 .. 2 ^ W - 1 :
       ask' = <<<<addr, len, 1>>, deser(ser(addr, len, 1))>>
  /\ UNCHANGED <<on, pos, id, submitted, dring, rring, admacDone, mem, admacPc, n, rn, ok, reuse, lost>>

AdmacNext == submit \/ enable \/ disable \/ admac_reset \/ Completes \/ poll_Starts \/ poll_NoWait \/ read_reports
             \/ poll_Ends \/ AskPieces

AdmacSpec == AdmacInit /\ [][AdmacNext]_admacVars

-----------------------------------------------------------------------------
(* Type invariant. *)
AdmacTypeOK ==
  /\ on \in BOOLEAN /\ admacDone \in BOOLEAN /\ ok \in BOOLEAN /\ reuse \in BOOLEAN /\ lost \in BOOLEAN
  /\ pos \in 0 .. Area /\ id \in 0 .. Ids - 1 /\ n \in 0 .. MaxDescs
  /\ Len(dring) <= Depth /\ Len(rring) <= Depth /\ admacPc \in {"idle", "read"}

(* Reports are taken in the order the descriptors were submitted, each is matched with its own      *)
(* descriptor although the numbers repeat, and the bytes read for it are those the device wrote     *)
(* there, unless the area came round to a buffer that was still in use (get_buffer does not ask).   *)
OwnBytes == ok

(* A report in the ring is announced or being read: poll clears DESC_DONE before it reads, so a     *)
(* client that waits for the next one cannot sleep beside a report.                                 *)
ReportAnnounced == rring # <<>> /\ on => admacDone \/ admacPc = "read"

(* The client writes a descriptor only into a ring with room: none is dropped by the device. *)
NoneDropped == ~lost

(* An address too wide for one piece comes back whole from the two it is sent in. *)
PiecesWhole == ask # <<>> => ask[1] = ask[2]
=============================================================================
