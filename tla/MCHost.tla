---------------------------------- MODULE MCHost ----------------------------------
(***************************************************************************)
(* The host side: the tools that bring up the machine over the proxy, and  *)
(* the client library, hypervisor console, device drivers and tracers they *)
(* come with.  The machines are independent, so they are checked side by   *)
(* side in one run: which names the machine this behaviour is about, and   *)
(* that machine keeps its variables in slot1, slot2 and so on; the session *)
(* of the SSD tools, which this module extends, keeps its own.  Every idea *)
(* below is the conjunction of the properties that state it, one or more   *)
(* of every machine it applies to; what each says is at its definition.    *)
(***************************************************************************)
EXTENDS Integers, Sequences, NvmeSession

VARIABLES which,
          slot1, slot2, slot3, slot4, slot5, slot6, slot7, slot8, slot9, slot10, slot11, slot12, slot13,
          slot14, slot15, slot16, slot17, slot18, slot19, slot20, slot21, slot22, slot23, slot24,
          slot25, slot26, slot27, slot28, slot29, slot30, slot31

PU == INSTANCE GpuPowerUp WITH
         Rails <- {"mx", "cx"},
         Floors <- {1, 2},
         MaxPowerRuns <- 3,
         Wake <- {[r \in {"mx", "cx"} |-> IF r = "mx" THEN a ELSE b] : a \in {-1, 2}, b \in {0, 3}},
         MaxSessions <- 2,
         Delay <- 2,
         MaxOps <- 4,
         live <- slot1, wake <- slot2, sleep <- slot3, saved <- slot4, lost <- slot5, tcs <-
         slot6, pll <- slot7, root <- slot8, cfg <- slot9, mux <- slot10, torn <- slot11, steps
         <- slot12, mine <- slot13, died <- slot14, powerRuns <- slot15, cfgAhb <- slot1, crit
         <- slot2, gdsc <- slot3, ahb <- slot4, clocks <- slot5, posted <- slot6, counted <-
         slot7, raised <- slot8, strict <- slot9, before <- slot10, proven <- slot11, freqClean
         <- slot12, plan <- slot13, kind <- slot14, touched <- slot15, exit <- slot16, after <-
         slot17, sessions <- slot18, part <- slot1, ops <- slot2, viols <- slot3, sw_collapse <-
         slot4, hw <- slot5, gdsc_on <- slot6, gdsc_countdown <- slot7, collapse_countdown <-
         slot8, vote <- slot9, clocksCfg <- slot10, pending <- slot11, upd <- slot12, enabled <-
         slot13, branch_reads <- slot14, regret <- slot15, moved <- slot16, answered <- slot17,
         clocksStrict <- slot18, late <- slot19, still <- slot20, clocksBefore <- slot21, during
         <- slot22, clocksRaised <- slot23, served <- slot24

S3 == INSTANCE GpuStage3 WITH
         Arenas <- {1, 2},
         MaxRuns <- 6,
         Firmware <- {[id |-> 0, mask |-> 0, type |-> -3], [id |-> 4, mask |-> 3, type |-> -1],
                      [id |-> 1, mask |-> 0, type |-> -2]},
         MaxCmds <- 8,
         MaxFaults <- 1,
         MaxBoots <- 2,
         Fan <- 2,
         Pool <- 5,
         MaxPages <- 3,
         Levels <- {<<0, 1, 0>>, <<0, 1, 2>>, <<0, 2, 3>>},
         Opps <- <<[level |-> 1, bw |-> 30], [level |-> 2, bw |-> 20], [level |-> 3, bw |-> 30]>>,
         Images <- {<<a, n, 2, v>> \o x : a \in {1, 3, 8, 12, 13}, n \in 0 .. 2, v \in {0, 2}, x \in {<<>>, <<5>>, <<5, 6>>, <<5, 8, 0, 7, 1>>, <<13, 0, 7, 2>>}},
         smr <- slot1, s2cr <- slot2, bank <- slot3, usfcfg <- slot4, gmuLive <- slot5, sqeOn <-
         slot6, arena <- slot7, noted <- slot8, todo <- slot9, smmuRuns <- slot10, cm3 <- slot1,
         started <- slot2, vote <- slot3, gx <- slot4, sqe <- slot5, ring <- slot6, fenceMem <-
         slot7, meInits <- slot8, tzHw <- slot9, smc <- slot10, rsc <- slot11, rec <- slot12,
         host <- slot13, bpc <- slot14, unrecorded <- slot15, subs <- slot16, boots <- slot17,
         cmds <- slot18, faults <- slot19, tables <- slot1, mapped <- slot2, rails <- slot3,
         opps <- slot4, image <- slot5

AH == INSTANCE GpuArenaHfi WITH
         Size <- 12,
         Commands <- {[id |-> 0, n |-> 6], [id |-> 1, n |-> 2]},
         SeqMod <- 3,
         Rounds <- 2,
         MaxSends <- 2,
         MaxEvents <- 1,
         Pages <- 5,
         ArenaSize <- 2,
         MaxArena <- 4,
         MaxIndex <- 3,
         MaxOps <- 4,
         cmdq <- slot1, cr <- slot2, cw <- slot3, rspq <- slot4, rr <- slot5, rw <- slot6, msgq
         <- slot7, bell <- slot8, taken <- slot9, owed <- slot10, events <- slot11, hseq <-
         slot12, savedSeq <- slot13, sent <- slot14, runs <- slot15, hpc <- slot16, round <-
         slot17, acked <- slot18, efi <- slot1, own <- slot2, state <- slot3, record <- slot4,
         reach <- slot5, proven <- slot6, arenaCmds <- slot7, dram <- slot1, cached <- slot2,
         requests <- slot3, gmu <- slot4, host <- slot5, asked <- slot6, got <- slot7, inReset
         <- slot8, cut <- slot9, part <- slot1, ops <- slot2, viols <- slot3, fakeDram <- slot4,
         cache <- slot5, pending <- slot6, due <- slot7, sameByte <- slot8, lost <- slot9, smr
         <- slot10, s2cr <- slot11, enabled <- slot12, usfcfg <- slot13, untranslated <- slot14,
         rpmh <- slot15, pll <- slot16, tz <- slot17, fw <- slot18, asleep <- slot19, reset <-
         slot20, countdown <- slot21, gmu_running <- slot22, wholeBoot <- slot23, hfi_state <-
         slot24, oob_held <- slot25, oob_since_boot <- slot26, cleared <- slot27, gx_on <-
         slot28, cp_running <- slot29, me_init <- slot30, secvid <- slot31

SB == INSTANCE GpuSubmissions WITH
         MaxCommands <- 3,
         RingRoom <- 6,
         MaxSubmissions <- 2,
         Ahead <- 3,
         Rows <- 2,
         MaxPackets <- 5,
         page <- slot1, tlb <- slot2, cb0 <- slot3, host <- slot4, ptr <- slot5, mem <- slot6,
         slot <- slot7, job <- slot8, sticky <- slot9, todo <- slot10, cleaning <- slot11, why
         <- slot12, reported <- slot13, owed <- slot14, nruns <- slot15, dram <- slot1, uche <-
         slot2, ccu <- slot3, src <- slot4, cs <- slot5, pipe <- slot6, fences <- slot7, bv <-
         slot8, sub <- slot9, state <- slot10, draws <- slot11, saw <- slot12, part <- slot1,
         packets <- slot2, viols <- slot3, me_init <- slot4, stall <- slot5, cpCcu <- slot6,
         cpMem <- slot7, drawn <- slot8, fence <- slot9, tangled <- slot10, ran <- slot11,
         marker_mode <- slot12, loaded <- slot13, regs <- slot14, wregs <- slot15, groups <-
         slot16

RP == INSTANCE GpuReplay WITH
         MaxReplays <- 2,
         IbWords <- {4, 12},
         Uploads <- {[va |-> 2, size |-> 1], [va |-> 3, size |-> 2], [va |-> 4, size |-> 1]},
         Readbacks <- {[va |-> 6, size |-> 1], [va |-> 8, size |-> 2]},
         References <- {[va |-> a, size |-> 1, write |-> w] : a \in {4, 9, 14}, w \in BOOLEAN},
         Slot <- 12,
         Functions <- 4,
         TexRoom <- 6,
         RtRoom <- 26,
         TexSize <- [a |-> 3, b |-> 2, c |-> 1],
         Everything <- <<[name |-> "g1", group |-> "gate", hi |-> FALSE, tex |-> <<"a">>, rts |-> <<2>>, vbo |-> 2, bufs |-> <<1>>, table |-> FALSE, ntex |-> 1, nsamp |-> 1, fetch |-> FALSE],
                         [name |-> "g2", group |-> "gate", hi |-> FALSE, tex |-> <<"b", "a">>, rts |-> <<1, 2>>, vbo |-> 1, bufs |-> <<1, 1>>, table |-> FALSE, ntex |-> 1, nsamp |-> 1, fetch |-> FALSE],
                         [name |-> "xr", group |-> "xr", hi |-> FALSE, tex |-> <<"c">>, rts |-> <<1>>, vbo |-> 1, bufs |-> <<2>>, table |-> FALSE, ntex |-> 0, nsamp |-> 0, fetch |-> TRUE],
                         [name |-> "hi", group |-> "probe", hi |-> TRUE, tex |-> <<>>, rts |-> <<1>>, vbo |-> 0, bufs |-> <<1, 3>>, table |-> TRUE, ntex |-> 0, nsamp |-> 0, fetch |-> FALSE],
                         [name |-> "pf", group |-> "probe", hi |-> FALSE, tex |-> <<>>, rts |-> <<2>>, vbo |-> 3, bufs |-> <<>>, table |-> FALSE, ntex |-> 0, nsamp |-> 0, fetch |-> TRUE]>>,
         MaxTex <- 2,
         UboSlots <- 2,
         Lanes <- 3,
         bundle <- slot1, cell <- slot2, at <- slot3, painted <- slot4, verdict <- slot5,
         nreplay <- slot6, scenes <- slot1, layout <- slot2, target <- slot3, drawn <- slot4,
         stray <- slot5, results <- slot6, pos <- slot7, outcome <- slot8, variant <- slot1,
         derived <- slot2

UT == INSTANCE UsbTools WITH
         Trbs <- [cmd |-> 4, ep0 |-> 6, in |-> 3, out |-> 3],
         Events <- 3,
         MaxPosted <- 4,
         Slots <- {1, 2},
         Attempts <- 4,
         MaxRuns <- 2,
         Lengths <- {0, 1, 4, 6},
         MaxFrames <- 3,
         Words <- {0, 1, 32768, 65534, 65535},
         Kind <- "udp",
         Chunk <- 2,
         MinFrame <- 2,
         Request <- 5,
         Limit <- 5,
         PipeMaxFrames <- 3,
         ring <- slot1, event <- slot2, erdp <- slot3, producer <- slot4, poller <- slot5, wait
         <- slot6, pending <- slot7, posted <- slot8, done <- slot9, got <- slot10, late <-
         slot11, up <- slot12, ctl <- slot1, port <- slot2, mac <- slot3, slots <- slot4, run <-
         slot5, pc <- slot6, tries <- slot7, runs <- slot8, unwound <- slot9, silent <- slot10,
         sent <- slot1, block <- slot2, ntbGot <- slot3, sums <- slot4, wire <- slot1, buffer <-
         slot2, written <- slot3, view <- slot4, told <- slot5, lost <- slot6, frames <- slot7,
         pipeUp <- slot8

UT2 == INSTANCE UsbTools WITH
         Trbs <- [cmd |-> 4, ep0 |-> 6, in |-> 3, out |-> 3],
         Events <- 3,
         MaxPosted <- 4,
         Slots <- {1, 2},
         Attempts <- 4,
         MaxRuns <- 2,
         Lengths <- {0, 1, 4, 6},
         MaxFrames <- 3,
         Words <- {0, 1, 32768, 65534, 65535},
         Kind <- "eth",
         Chunk <- 2,
         MinFrame <- 2,
         Request <- 5,
         Limit <- 5,
         PipeMaxFrames <- 3,
         ring <- slot1, event <- slot2, erdp <- slot3, producer <- slot4, poller <- slot5, wait
         <- slot6, pending <- slot7, posted <- slot8, done <- slot9, got <- slot10, late <-
         slot11, up <- slot12, ctl <- slot1, port <- slot2, mac <- slot3, slots <- slot4, run <-
         slot5, pc <- slot6, tries <- slot7, runs <- slot8, unwound <- slot9, silent <- slot10,
         sent <- slot1, block <- slot2, ntbGot <- slot3, sums <- slot4, wire <- slot1, buffer <-
         slot2, written <- slot3, view <- slot4, told <- slot5, lost <- slot6, frames <- slot7,
         pipeUp <- slot8

ST == INSTANCE StageTools WITH
         Builds <- {[name |-> "old", contract |-> 1, back |-> "no"], [name |-> "new", contract |-> 1, back |-> "yes"], [name |-> "other", contract |-> 2, back |-> "yes"]},
         MaxRuns <- 2,
         Cables <- {"usb0", "usb1"},
         MaxBoots <- 3,
         ControlMaxRuns <- 3,
         UcsiMaxRuns <- 2,
         MaxTimeouts <- 2,
         slot <- slot1, running <- slot2, generation <- slot3, ncm <- slot4, host <- slot5,
         cache <- slot6, verdict <- slot7, runs <- slot8, wrote <- slot9, missed <- slot10, late
         <- slot11, at <- slot1, boot <- slot2, armed <- slot3, plugged <- slot4, cmd <- slot5,
         pc <- slot6, asked <- slot7, old <- slot8, gone <- slot9, claimed <- slot10, chosen <-
         slot11, controlRuns <- slot12, pulled <- slot13, queue <- slot1, lines <- slot2, todo
         <- slot3, wait <- slot4, run <- slot5, notify <- slot6, role <- slot7, ucsiRuns <-
         slot8, timeouts <- slot9, next <- slot10, took <- slot11, blind <- slot12

HG == INSTANCE HvGuest WITH
         LastCell <- 2,
         MaxOps <- 2,
         MaxAcc <- 1,
         MaxRaises <- 1,
         MaxEdits <- 1,
         DebugMaxOps <- 2,
         MaxSigs <- 1,
         MaxTraps <- 2,
         MaxSets <- 2,
         VectorsMaxTraps <- 2,
         MaxPatches <- 2,
         RamTop <- 26,
         MonBase <- 4,
         HeapTop <- 6,
         maps <- slot1, dirty <- slot2, pt <- slot3, phase <- slot4, queue <- slot5, proc <-
         slot6, result <- slot7, ops <- slot8, accs <- slot9, raises <- slot10, ctx <- slot1,
         info <- slot2, want <- slot3, reg <- slot4, arm <- slot5, ss <- slot6, started <-
         slot7, late <- slot8, torn <- slot9, loop <- slot10, debugPhase <- slot11, inHandler <-
         slot12, sigint <- slot13, kicks <- slot14, barked <- slot15, edits <- slot16, debugOps
         <- slot17, sigs <- slot18, traps <- slot19, vbar <- slot1, mmu <- slot2, mapped <-
         slot3, mem <- slot4, vbar_el1 <- slot5, want_vbar <- slot6, vectors <- slot7, chosen <-
         slot8, stale <- slot9, again <- slot10, last <- slot11, sysreg <- slot12, dbg <-
         slot13, hw <- slot14, seen <- slot15, sets <- slot16, vectorsTraps <- slot17, sizes <-
         slot1, carve <- slot2, startStep <- slot3, place <- slot4, startMaps <- slot5, adt <-
         slot6, blob <- slot7, hooks <- slot8, usb <- slot9, startPt <- slot10

HS == INSTANCE HvShell WITH
         Page <- 4,
         Top <- 12,
         CPUs <- {1, 2},
         MaxStops <- 2,
         MaxTokens <- 3,
         ShellMaxStops <- 3,
         MaxLines <- 3,
         MaxPolls <- 5,
         addressAsk <- slot1, ans <- slot2, main <- slot1, sig <- slot2, bang <- slot3, efd <-
         slot4, gdb <- slot5, path <- slot6, brk <- slot7, ctx <- slot8, hc <- slot9, hg <-
         slot10, reply <- slot11, stops <- slot12, unasked <- slot13, missed <- slot14, ask <-
         slot15, part <- slot1, stop <- slot2, regs <- slot3, cache <- slot4, line <- slot5,
         left <- slot6, seen <- slot7, lines <- slot8, mem <- slot9, last <- slot10, view <-
         slot11, behind <- slot12, at <- slot13, polls <- slot14, port <- slot15, shellAsk <-
         slot16

PC == INSTANCE ProxyClient WITH
         TopAddr <- 3,
         Keys <- {1, 2},
         Width <- 3,
         MaxWrites <- 2,
         MaxReq <- 2,
         MaxNoise <- 1,
         Offset <- 1,
         Count <- 4,
         MaxOps <- 4,
         MaxJobs <- 2,
         MaxFills <- 1,
         list <- slot1, ref <- slot2, compacted <- slot3, dev <- slot1, cache <- slot2, stored
         <- slot3, seen <- slot4, ctx <- slot5, started <- slot6, called <- slot7, writes <-
         slot8, regsAsk <- slot9, wire <- slot1, devq <- slot2, host <- slot3, got <- slot4,
         gone <- slot5, heap <- slot6, leaked <- slot7, n <- slot8, noise <- slot9, ask <-
         slot10, blocks <- slot1, live <- slot2, ptrs <- slot3, zero <- slot4, put <- slot5,
         timeout <- slot6, devtop <- slot7, limit <- slot8, last <- slot9, ops <- slot10, mem <-
         slot1, pou <- slot2, icache <- slot3, guard <- slot4, cnt <- slot5, alive <- slot6, job
         <- slot7, objs <- slot8, attrs <- slot9, base <- slot10, ran <- slot11, raised <-
         slot12, blame <- slot13, cut <- slot14, jobs <- slot15, fills <- slot16

AC == INSTANCE AscClients WITH
         Step <- 2,
         Size <- 8,
         MaxMsgs <- 3,
         MaxDepth <- 2,
         MaxBoots <- 2,
         System <- {"crash", "syslog"},
         App <- "afk",
         BufSize <- 4,
         MaxCalls <- 3,
         MaxCbs <- 2,
         Services <- {"dptx", "hpd"},
         Chans <- {1, 2},
         MaxSeq <- 2,
         dir <- slot1, block <- slot2, ring <- slot3, cell <- slot4, wptr <- slot5, rptr <-
         slot6, far <- slot7, sent <- slot8, got <- slot9, brim <- slot10, over <- slot11, depth
         <- slot12, inbox <- slot1, outbox <- slot2, iop <- slot3, host <- slot4, iopp <- slot5,
         app <- slot6, eps <- slot7, objs <- slot8, started <- slot9, alive <- slot10, ascRing
         <- slot11, running <- slot12, early <- slot13, again <- slot14, boots <- slot15, stack
         <- slot1, pend <- slot2, off <- slot3, incb <- slot4, todcp <- slot5, fromdcp <- slot6,
         dstack <- slot7, shm <- slot8, dcpGot <- slot9, broken <- slot10, calls <- slot11, cbs
         <- slot12, asyncs <- slot13, ask <- slot14, chanmap <- slot1, srv <- slot2, wait <-
         slot3, todev <- slot4, fromdev <- slot5, devtx <- slot6, epicGot <- slot7, acked <-
         slot8, cut <- slot9, down <- slot10, n <- slot11, notes <- slot12

SC == INSTANCE StreamClients WITH
         MaxSends <- 3,
         Num <- 2,
         IspMaxSends <- 3,
         MaxAsks <- 3,
         Depth <- 2,
         Ids <- 5,
         Area <- 4,
         MaxDescs <- 4,
         W <- 2,
         owner <- slot1, busy <- slot2, seen <- slot3, shown <- slot4, sends <- slot5, pc <-
         slot1, power <- slot2, maps <- slot3, ttbr <- slot4, gpio <- slot5, fw <- slot6, atx <-
         slot7, ring <- slot8, cur <- slot9, fcur <- slot10, done <- slot11, sent <- slot12,
         asks <- slot13, given <- slot14, frames <- slot15, on <- slot1, pos <- slot2, id <-
         slot3, submitted <- slot4, dring <- slot5, rring <- slot6, admacDone <- slot7, mem <-
         slot8, admacPc <- slot9, n <- slot10, rn <- slot11, ok <- slot12, reuse <- slot13, lost
         <- slot14, ask <- slot15

PT == INSTANCE PageTables WITH
         Streams <- {0, 1},
         Fan <- 2,
         Frames <- {31, 32},
         MaxTabs <- 4,
         MaxMaps <- 2,
         Four <- {0},
         Three <- 1,
         NewMaxTabs <- 9,
         NewMaxMaps <- 2,
         UatMaxTabs <- 9,
         UatMaxMaps <- 2,
         ttbr <- slot1, mem <- slot2, cache <- slot3, enabled <- slot4, tabs <- slot5, job <-
         slot6, maps <- slot7, other <- slot8, cut <- slot9, calls <- slot10, ask <- slot11,
         newTtbr <- slot1, newMem <- slot2, newCache <- slot3, on <- slot4, newTabs <- slot5,
         newJob <- slot6, newMaps <- slot7, newCalls <- slot8, part <- slot1, uatMem <- slot2,
         uatCache <- slot3, dirty <- slot4, uatTabs <- slot5, ready <- slot6, bound <- slot7,
         uatMaps <- slot8, uatCalls <- slot9, fw <- slot10, over <- slot11, pos <- slot12, ahead
         <- slot13, bytes <- slot14, got <- slot15

AX == INSTANCE AgxClient WITH
         MaxFrames <- 2,
         RbSize <- 5,
         Registers <- TRUE,
         Hooks <- {<<>>, <<"Write64Cmd", "DoorbellCmd">>},
         Traced <- {<<c, e>> : c \in {"Store32Cmd", "Write32Cmd", "Store64Cmd", "Write64Cmd", "Read64Cmd", "ALUCmd", "Add16Cmd", "ProfileCaptureCmd", "TimestampCmd", "StartComputeCmd", "FinalizeComputeCmd", "StartBlitCmd", "FinalizeBlitCmd"}, e \in {"EndCmd", "CompleteCmd", "AbortCmd"}},
         Page <- 4,
         IoCalls <- {<<a, b>> : a \in (8 .. 11) \X {1, 4, 7}, b \in {20, 23} \X {2, 5}},
         Pages <- 1 .. 2,
         MaxFrees <- 1,
         ObjectsMaxFrames <- 2,
         Size <- 3,
         MaxMsgs <- 4,
         Events <- 1 .. 2,
         pc <- slot1, frame <- slot2, opt <- slot3, work <- slot4, held <- slot5, mapped <-
         slot6, ring <- slot7, wptr <- slot8, done <- slot9, known <- slot10, cur <- slot11,
         stamp <- slot12, count <- slot13, seen <- slot14, bm <- slot15, bmReady <- slot16,
         broken <- slot17, over <- slot18, ask <- slot19, gen <- slot1, ver <- slot2, hook <-
         slot3, waits <- slot4, first <- slot5, ready <- slot6, framesPc <- slot7, k <- slot8,
         given <- slot9, framesKnown <- slot10, rings <- slot11, lacking <- slot12, shown <-
         slot13, chip <- slot1, initDataVer <- slot2, initDataPc <- slot3, initDataK <- slot4,
         pushed <- slot5, why <- slot6, initDataAsk <- slot7, part <- slot1, obj <- slot2, want
         <- slot3, objectsSeen <- slot4, tlb <- slot5, dirty <- slot6, slot <- slot7, objectsPc
         <- slot8, gpu <- slot9, frees <- slot10, frames <- slot11, map <- slot12, mem <-
         slot13, data <- slot14, mark <- slot15, lock <- slot16, objectsAsk <- slot17,
         channelsPart <- slot1, channelsRing <- slot2, channelsWptr <- slot3, rptr <- slot4, pos
         <- slot5, posted <- slot6, last <- slot7, fw <- slot8, processed <- slot9, resumes <-
         slot10, fired <- slot11, fault <- slot12, channelsBroken <- slot13, sent <- slot14,
         taken <- slot15, queue <- slot16, channelsAsk <- slot17

ME == INSTANCE MediaEngines WITH
         Engine <- "scaler",
         MaxRuns <- 2,
         Sizes <- {16, 17, 40, 64},
         Scales <- {1, 2, 4, 8},
         Page <- 16,
         MaxSegments <- 3,
         JpegMaxRuns <- 2,
         run <- slot1, pc <- slot2, reset <- slot3, job <- slot4, irq <- slot5, regs <- slot6,
         mapped <- slot7, mem <- slot8, input <- slot9, said <- slot10, file <- slot11, stale <-
         slot12, slow <- slot13, mixed <- slot14, cut <- slot15, hung <- slot16, ask <- slot1,
         runs <- slot2, opts <- slot3, step <- slot4, jpegRegs <- slot5

ME2 == INSTANCE MediaEngines WITH
         Engine <- "jpeg",
         MaxRuns <- 2,
         Sizes <- {16, 17, 40, 64},
         Scales <- {1, 2, 4, 8},
         Page <- 16,
         MaxSegments <- 3,
         JpegMaxRuns <- 2,
         run <- slot1, pc <- slot2, reset <- slot3, job <- slot4, irq <- slot5, regs <- slot6,
         mapped <- slot7, mem <- slot8, input <- slot9, said <- slot10, file <- slot11, stale <-
         slot12, slow <- slot13, mixed <- slot14, cut <- slot15, hung <- slot16, ask <- slot1,
         runs <- slot2, opts <- slot3, step <- slot4, jpegRegs <- slot5

ME3 == INSTANCE MediaEngines WITH
         Engine <- "prores",
         MaxRuns <- 2,
         Sizes <- {16, 17, 40, 64},
         Scales <- {1, 2, 4, 8},
         Page <- 16,
         MaxSegments <- 3,
         JpegMaxRuns <- 2,
         run <- slot1, pc <- slot2, reset <- slot3, job <- slot4, irq <- slot5, regs <- slot6,
         mapped <- slot7, mem <- slot8, input <- slot9, said <- slot10, file <- slot11, stale <-
         slot12, slow <- slot13, mixed <- slot14, cut <- slot15, hung <- slot16, ask <- slot1,
         runs <- slot2, opts <- slot3, step <- slot4, jpegRegs <- slot5

DF == INSTANCE DataFormats WITH
         Names <- {"a", "b"},
         MaxNodes <- 4,
         MaxOps <- 5,
         Versions <- 1 .. 2,
         kids <- slot1, name <- slot2, ppath <- slot3, count <- slot4, ops <- slot5, renamed <-
         slot6, made <- slot7, ask <- slot8, cls <- slot1, ver <- slot2, off <- slot3, late <-
         slot4, mem <- slot5, sub <- slot6, ptr <- slot7, pc <- slot8, back <- slot9, structAsk
         <- slot10

HT == INSTANCE HvTracers WITH
         Count <- 3,
         MaxMsgs <- 4,
         MaxPauses <- 1,
         Tables <- 1 .. 3,
         Data <- {11},
         UatContexts <- 0 .. 1,
         Fan <- 2,
         MaxWrites <- 4,
         DcpSlots <- 3,
         DcpMaxMsgs <- 5,
         Chans <- {1},
         MaxCmds <- 3,
         Regs <- 1 .. 2,
         MaxTxns <- 3,
         Num <- 3,
         BusesMaxMsgs <- 5,
         part <- slot1, active <- slot2, pauses <- slot3, ring <- slot4, wptr <- slot5, rptr <-
         slot6, gw <- slot7, n <- slot8, taken <- slot9, tail <- slot10, seen <- slot11, pc <-
         slot12, raised <- slot13, ok <- slot14, head <- slot15, done <- slot16, uuid <- slot17,
         last_uuid <- slot18, fresh <- slot19, last <- slot20, cur <- slot21, ask <- slot22,
         ttbr <- slot1, mem <- slot2, watch <- slot3, vm <- slot4, va_to_pa <- slot5, early <-
         slot6, wrong <- slot7, uatActive <- slot8, regions <- slot9, writes <- slot10, dcpPart
         <- slot1, dcpRing <- slot2, dcpWptr <- slot3, dcpRptr <- slot4, dcpN <- slot5, mails <-
         slot6, busy <- slot7, state_rptr <- slot8, sniffed <- slot9, lapped <- slot10, dcpOk <-
         slot11, chan_map <- slot12, out <- slot13, handled <- slot14, count <- slot15, nest <-
         slot16, asyncs <- slot17, ch <- slot18, traced <- slot19, stale <- slot20, calls <-
         slot21, spmiPart <- slot1, cmds <- slot2, left <- slot3, exec <- slot4, rx <- slot5,
         sel <- slot6, spmiPc <- slot7, mine <- slot8, spmiRead <- slot9, late <- slot10, got <-
         slot11, spmiTraced <- slot12, midway <- slot13, swallowed <- slot14, cmd_pending <-
         slot15, cmd_info <- slot16, reply_pending <- slot17, reply_started <- slot18, sent_cmds
         <- slot19, spmiOk <- slot20, reg <- slot21, last_opcode <- slot22, data <- slot23,
         busesPart <- slot1, busesOk <- slot2, plan <- slot3, txns <- slot4, txn <- slot5, bus
         <- slot6, rxfifo <- slot7, ptr <- slot8, page <- slot9, acc <- slot10, told <- slot11,
         moved <- slot12, blurred <- slot13, busesRing <- slot14, put <- slot15, busesTaken <-
         slot16, busesN <- slot17, cursor <- slot18, busesSeen <- slot19, missed <- slot20, full
         <- slot21, buf <- slot22, size <- slot23, state_buf <- slot24, state_size <- slot25,
         known <- slot26, busesCount <- slot27, busesAsk <- slot28

\* The slots a machine leaves free hold 0 and stay so.
Free1 == <<slot1, slot2, slot3, slot4, slot5, slot6, slot7, slot8, slot9, slot10, slot11, slot12, slot13,
            slot14, slot15, slot16, slot17, slot18, slot19, slot20, slot21, slot22, slot23, slot24,
            slot25, slot26, slot27, slot28, slot29, slot30, slot31>>
Free3 == <<slot3, slot4, slot5, slot6, slot7, slot8, slot9, slot10, slot11, slot12, slot13, slot14, slot15,
            slot16, slot17, slot18, slot19, slot20, slot21, slot22, slot23, slot24, slot25, slot26,
            slot27, slot28, slot29, slot30, slot31>>
Free4 == <<slot4, slot5, slot6, slot7, slot8, slot9, slot10, slot11, slot12, slot13, slot14, slot15, slot16,
            slot17, slot18, slot19, slot20, slot21, slot22, slot23, slot24, slot25, slot26, slot27,
            slot28, slot29, slot30, slot31>>
Free5 == <<slot5, slot6, slot7, slot8, slot9, slot10, slot11, slot12, slot13, slot14, slot15, slot16, slot17,
            slot18, slot19, slot20, slot21, slot22, slot23, slot24, slot25, slot26, slot27, slot28,
            slot29, slot30, slot31>>
Free6 == <<slot6, slot7, slot8, slot9, slot10, slot11, slot12, slot13, slot14, slot15, slot16, slot17, slot18,
            slot19, slot20, slot21, slot22, slot23, slot24, slot25, slot26, slot27, slot28, slot29,
            slot30, slot31>>
Free7 == <<slot7, slot8, slot9, slot10, slot11, slot12, slot13, slot14, slot15, slot16, slot17, slot18, slot19,
            slot20, slot21, slot22, slot23, slot24, slot25, slot26, slot27, slot28, slot29, slot30,
            slot31>>
Free8 == <<slot8, slot9, slot10, slot11, slot12, slot13, slot14, slot15, slot16, slot17, slot18, slot19,
            slot20, slot21, slot22, slot23, slot24, slot25, slot26, slot27, slot28, slot29, slot30,
            slot31>>
Free9 == <<slot9, slot10, slot11, slot12, slot13, slot14, slot15, slot16, slot17, slot18, slot19, slot20,
            slot21, slot22, slot23, slot24, slot25, slot26, slot27, slot28, slot29, slot30, slot31>>
Free10 == <<slot10, slot11, slot12, slot13, slot14, slot15, slot16, slot17, slot18, slot19, slot20, slot21,
            slot22, slot23, slot24, slot25, slot26, slot27, slot28, slot29, slot30, slot31>>
Free11 == <<slot11, slot12, slot13, slot14, slot15, slot16, slot17, slot18, slot19, slot20, slot21, slot22,
            slot23, slot24, slot25, slot26, slot27, slot28, slot29, slot30, slot31>>
Free12 == <<slot12, slot13, slot14, slot15, slot16, slot17, slot18, slot19, slot20, slot21, slot22, slot23,
            slot24, slot25, slot26, slot27, slot28, slot29, slot30, slot31>>
Free13 == <<slot13, slot14, slot15, slot16, slot17, slot18, slot19, slot20, slot21, slot22, slot23, slot24,
            slot25, slot26, slot27, slot28, slot29, slot30, slot31>>
Free14 == <<slot14, slot15, slot16, slot17, slot18, slot19, slot20, slot21, slot22, slot23, slot24, slot25,
            slot26, slot27, slot28, slot29, slot30, slot31>>
Free15 == <<slot15, slot16, slot17, slot18, slot19, slot20, slot21, slot22, slot23, slot24, slot25, slot26,
            slot27, slot28, slot29, slot30, slot31>>
Free16 == <<slot16, slot17, slot18, slot19, slot20, slot21, slot22, slot23, slot24, slot25, slot26, slot27,
            slot28, slot29, slot30, slot31>>
Free17 == <<slot17, slot18, slot19, slot20, slot21, slot22, slot23, slot24, slot25, slot26, slot27, slot28,
            slot29, slot30, slot31>>
Free18 == <<slot18, slot19, slot20, slot21, slot22, slot23, slot24, slot25, slot26, slot27, slot28, slot29,
            slot30, slot31>>
Free19 == <<slot19, slot20, slot21, slot22, slot23, slot24, slot25, slot26, slot27, slot28, slot29, slot30,
            slot31>>
Free20 == <<slot20, slot21, slot22, slot23, slot24, slot25, slot26, slot27, slot28, slot29, slot30, slot31>>
Free22 == <<slot22, slot23, slot24, slot25, slot26, slot27, slot28, slot29, slot30, slot31>>
Free23 == <<slot23, slot24, slot25, slot26, slot27, slot28, slot29, slot30, slot31>>
Free24 == <<slot24, slot25, slot26, slot27, slot28, slot29, slot30, slot31>>
Free25 == <<slot25, slot26, slot27, slot28, slot29, slot30, slot31>>
Free29 == <<slot29, slot30, slot31>>
Idle29 == slot29 = 0 /\ slot30 = 0 /\ slot31 = 0
Idle25 == slot25 = 0 /\ slot26 = 0 /\ slot27 = 0 /\ slot28 = 0 /\ Idle29
Idle24 == slot24 = 0 /\ Idle25
Idle23 == slot23 = 0 /\ Idle24
Idle22 == slot22 = 0 /\ Idle23
Idle20 == slot20 = 0 /\ slot21 = 0 /\ Idle22
Idle19 == slot19 = 0 /\ Idle20
Idle18 == slot18 = 0 /\ Idle19
Idle17 == slot17 = 0 /\ Idle18
Idle16 == slot16 = 0 /\ Idle17
Idle15 == slot15 = 0 /\ Idle16
Idle14 == slot14 = 0 /\ Idle15
Idle13 == slot13 = 0 /\ Idle14
Idle12 == slot12 = 0 /\ Idle13
Idle11 == slot11 = 0 /\ Idle12
Idle10 == slot10 = 0 /\ Idle11
Idle9 == slot9 = 0 /\ Idle10
Idle8 == slot8 = 0 /\ Idle9
Idle7 == slot7 = 0 /\ Idle8
Idle6 == slot6 = 0 /\ Idle7
Idle5 == slot5 = 0 /\ Idle6
Idle4 == slot4 = 0 /\ Idle5
Idle3 == slot3 = 0 /\ Idle4
Idle1 == slot1 = 0 /\ slot2 = 0 /\ Idle3

HostStart ==
    \/ which = "session" /\ Idle1
    \/ which = "smmu" /\ S3!SmmuInit /\ Idle11
    \/ which = "boot" /\ S3!BootInit /\ Idle20
    \/ which = "power" /\ PU!PowerInit /\ Idle16
    \/ which = "hfi" /\ AH!HfiInit /\ Idle19
    \/ which = "tables" /\ S3!TablesInit /\ Idle6
    \/ which = "poweron" /\ PU!PowerOnInit /\ Idle19
    \/ which = "arena" /\ AH!ArenaInit /\ Idle8
    \/ which = "line" /\ AH!LineInit /\ Idle10
    \/ which = "submit" /\ SB!SubmitInit /\ Idle16
    \/ which = "stream" /\ SB!StreamInit /\ Idle13
    \/ which = "bundle" /\ RP!BundleInit /\ Idle7
    \/ which = "render" /\ RP!PlanInit /\ Idle9
    \/ which = "shader" /\ RP!LinkInit /\ Idle3
    \/ which = "xhci" /\ UT!XhciInit /\ Idle13
    \/ which = "xsession" /\ UT!SessionInit /\ Idle11
    \/ which = "ntb" /\ UT!NtbInit /\ Idle5
    \/ which = "udp" /\ UT!PipeInit /\ Idle9
    \/ which = "eth" /\ UT2!PipeInit /\ Idle9
    \/ which = "stage" /\ ST!StageInit /\ Idle12
    \/ which = "bootctl" /\ ST!ControlInit /\ Idle14
    \/ which = "ucsi" /\ ST!UcsiInit /\ Idle13
    \/ which = "hvmaps" /\ HG!MapsInit /\ Idle11
    \/ which = "hvdebug" /\ HG!DebugInit /\ Idle20
    \/ which = "hvvectors" /\ HG!VectorsInit /\ Idle18
    \/ which = "hvstart" /\ HG!StartInit /\ Idle11
    \/ which = "hvaddress" /\ HS!AddressInit /\ Idle3
    \/ which = "rangemap" /\ PC!RangesInit /\ Idle4
    \/ which = "regmaps" /\ PC!RegsInit /\ Idle10
    \/ which = "gdbserver" /\ HS!GdbInit /\ Idle16
    \/ which = "uartlink" /\ PC!UartInit /\ Idle11
    \/ which = "clientheap" /\ PC!HeapInit /\ Idle11
    \/ which = "proxyexec" /\ PC!ExecInit /\ Idle17
    \/ which = "shellstate" /\ HS!ShellInit /\ Idle17
    \/ which = "afkring" /\ AC!AfkInit /\ Idle13
    \/ which = "asc" /\ AC!AscInit /\ Idle16
    \/ which = "dcpcalls" /\ AC!DcpInit /\ Idle15
    \/ which = "epiccalls" /\ AC!EpicInit /\ Idle13
    \/ which = "ispcommands" /\ SC!IspCmdInit /\ Idle6
    \/ which = "ispsession" /\ SC!IspInit /\ Idle16
    \/ which = "dart8020" /\ PT!OldInit /\ Idle12
    \/ which = "dart8110" /\ PT!NewInit /\ Idle9
    \/ which = "uat" /\ PT!UatInit /\ Idle16
    \/ which = "agxrender" /\ AX!RenderInit /\ Idle20
    \/ which = "agxframes" /\ AX!FramesInit /\ Idle14
    \/ which = "scaler" /\ ME!ScriptInit /\ Idle17
    \/ which = "jpeg" /\ ME2!ScriptInit /\ Idle17
    \/ which = "prores" /\ ME3!ScriptInit /\ Idle17
    \/ which = "jpegregs" /\ ME!JpegInit /\ Idle6
    \/ which = "agxinit" /\ AX!InitDataInit /\ Idle8
    \/ which = "objects" /\ AX!ObjectsInit /\ Idle18
    \/ which = "channels" /\ AX!ChannelsInit /\ Idle18
    \/ which = "admac" /\ SC!AdmacInit /\ Idle16
    \/ which = "tree" /\ DF!TreeInit /\ Idle9
    \/ which = "structs" /\ DF!StructInit /\ Idle11
    \/ which = "agxtrace" /\ HT!AgxInit /\ Idle23
    \/ which = "uattrace" /\ HT!UatInit /\ Idle11
    \/ which = "dcptrace" /\ HT!DcpInit /\ Idle22
    \/ which = "spmibus" /\ HT!SpmiInit /\ Idle24
    \/ which = "bustrace" /\ HT!BusesInit /\ Idle29
    \/ which = "a16fake" /\ AH!FakeInit
    \/ which = "a16clocks" /\ PU!ClocksInit /\ Idle25
    \/ which = "a16cp" /\ SB!CpInit /\ Idle17

HostInit == Init /\ HostStart

SessionSteps == which = "session" /\ Next /\ UNCHANGED <<which, Free1>>
Smmu == which = "smmu" /\ S3!SmmuNext /\ UNCHANGED <<which, Free11, svars>>
Boot == which = "boot" /\ S3!BootNext /\ UNCHANGED <<which, Free20, svars>>
Power == which = "power" /\ PU!PowerNext /\ UNCHANGED <<which, Free16, svars>>
Hfi == which = "hfi" /\ AH!HfiNext /\ UNCHANGED <<which, Free19, svars>>
Tables == which = "tables" /\ S3!TablesNext /\ UNCHANGED <<which, Free6, svars>>
PowerOn == which = "poweron" /\ PU!PowerOnNext /\ UNCHANGED <<which, Free19, svars>>
Arena == which = "arena" /\ AH!ArenaNext /\ UNCHANGED <<which, Free8, svars>>
Line == which = "line" /\ AH!LineNext /\ UNCHANGED <<which, Free10, svars>>
Submit == which = "submit" /\ SB!SubmitNext /\ UNCHANGED <<which, Free16, svars>>
Stream == which = "stream" /\ SB!StreamNext /\ UNCHANGED <<which, Free13, svars>>
Bundle == which = "bundle" /\ RP!BundleNext /\ UNCHANGED <<which, Free7, svars>>
Render == which = "render" /\ RP!PlanNext /\ UNCHANGED <<which, Free9, svars>>
Link == which = "shader" /\ RP!LinkNext /\ UNCHANGED <<which, Free3, svars>>
Xhci == which = "xhci" /\ UT!XhciNext /\ UNCHANGED <<which, Free13, svars>>
XhciTool == which = "xsession" /\ UT!SessionNext /\ UNCHANGED <<which, Free11, svars>>
Ntb == which = "ntb" /\ UT!NtbNext /\ UNCHANGED <<which, Free5, svars>>
Udp == which = "udp" /\ UT!PipeNext /\ UNCHANGED <<which, Free9, svars>>
Eth == which = "eth" /\ UT2!PipeNext /\ UNCHANGED <<which, Free9, svars>>
Stage == which = "stage" /\ ST!StageNext /\ UNCHANGED <<which, Free12, svars>>
BootCtl == which = "bootctl" /\ ST!ControlNext /\ UNCHANGED <<which, Free14, svars>>
Ucsi == which = "ucsi" /\ ST!UcsiNext /\ UNCHANGED <<which, Free13, svars>>
MapSteps == which = "hvmaps" /\ HG!MapsNext /\ UNCHANGED <<which, Free11, svars>>
DebugSteps == which = "hvdebug" /\ HG!DebugNext /\ UNCHANGED <<which, Free20, svars>>
VectorSteps == which = "hvvectors" /\ HG!VectorsNext /\ UNCHANGED <<which, Free18, svars>>
StartSteps == which = "hvstart" /\ HG!StartNext /\ UNCHANGED <<which, Free11, svars>>
AddressSteps == which = "hvaddress" /\ HS!AddressNext /\ UNCHANGED <<which, Free3, svars>>
RangeSteps == which = "rangemap" /\ PC!RangesNext /\ UNCHANGED <<which, Free4, svars>>
RegSteps == which = "regmaps" /\ PC!RegsNext /\ UNCHANGED <<which, Free10, svars>>
GdbSteps == which = "gdbserver" /\ HS!GdbNext /\ UNCHANGED <<which, Free16, svars>>
UartSteps == which = "uartlink" /\ PC!UartNext /\ UNCHANGED <<which, Free11, svars>>
HeapSteps == which = "clientheap" /\ PC!HeapNext /\ UNCHANGED <<which, Free11, svars>>
ExecSteps == which = "proxyexec" /\ PC!ExecNext /\ UNCHANGED <<which, Free17, svars>>
ShellSteps == which = "shellstate" /\ HS!ShellNext /\ UNCHANGED <<which, Free17, svars>>
RingSteps == which = "afkring" /\ AC!AfkNext /\ UNCHANGED <<which, Free13, svars>>
AscSteps == which = "asc" /\ AC!AscNext /\ UNCHANGED <<which, Free16, svars>>
DcpSteps == which = "dcpcalls" /\ AC!DcpNext /\ UNCHANGED <<which, Free15, svars>>
EpicSteps == which = "epiccalls" /\ AC!EpicNext /\ UNCHANGED <<which, Free13, svars>>
IspCommandSteps == which = "ispcommands" /\ SC!IspCmdNext /\ UNCHANGED <<which, Free6, svars>>
IspSessionSteps == which = "ispsession" /\ SC!IspNext /\ UNCHANGED <<which, Free16, svars>>
Dart8020Steps == which = "dart8020" /\ PT!OldNext /\ UNCHANGED <<which, Free12, svars>>
Dart8110Steps == which = "dart8110" /\ PT!NewNext /\ UNCHANGED <<which, Free9, svars>>
UatSteps == which = "uat" /\ PT!UatNext /\ UNCHANGED <<which, Free16, svars>>
AgxRenderSteps == which = "agxrender" /\ AX!RenderNext /\ UNCHANGED <<which, Free20, svars>>
AgxFrameSteps == which = "agxframes" /\ AX!FramesNext /\ UNCHANGED <<which, Free14, svars>>
ScalerSteps == which = "scaler" /\ ME!ScriptNext /\ UNCHANGED <<which, Free17, svars>>
JpegSteps == which = "jpeg" /\ ME2!ScriptNext /\ UNCHANGED <<which, Free17, svars>>
ProresSteps == which = "prores" /\ ME3!ScriptNext /\ UNCHANGED <<which, Free17, svars>>
JpegRegSteps == which = "jpegregs" /\ ME!JpegNext /\ UNCHANGED <<which, Free6, svars>>
AgxInitSteps == which = "agxinit" /\ AX!InitDataNext /\ UNCHANGED <<which, Free8, svars>>
Objects == which = "objects" /\ AX!ObjectsNext /\ UNCHANGED <<which, Free18, svars>>
Channels == which = "channels" /\ AX!ChannelsNext /\ UNCHANGED <<which, Free18, svars>>
AdmacSteps == which = "admac" /\ SC!AdmacNext /\ UNCHANGED <<which, Free16, svars>>
TreeSteps == which = "tree" /\ DF!TreeNext /\ UNCHANGED <<which, Free9, svars>>
StructSteps == which = "structs" /\ DF!StructNext /\ UNCHANGED <<which, Free11, svars>>
AgxTraceSteps == which = "agxtrace" /\ HT!AgxNext /\ UNCHANGED <<which, Free23, svars>>
UatTraceSteps == which = "uattrace" /\ HT!UatNext /\ UNCHANGED <<which, Free11, svars>>
DcpTraceSteps == which = "dcptrace" /\ HT!DcpNext /\ UNCHANGED <<which, Free22, svars>>
SpmiBusSteps == which = "spmibus" /\ HT!SpmiNext /\ UNCHANGED <<which, Free24, svars>>
BusTraceSteps == which = "bustrace" /\ HT!BusesNext /\ UNCHANGED <<which, Free29, svars>>
A16FakeSteps == which = "a16fake" /\ AH!FakeNext /\ UNCHANGED <<which, svars>>
A16ClocksSteps == which = "a16clocks" /\ PU!ClocksNext /\ UNCHANGED <<which, Free25, svars>>
A16CpSteps == which = "a16cp" /\ SB!CpNext /\ UNCHANGED <<which, Free17, svars>>

HostNext ==
    \/ SessionSteps
    \/ Smmu
    \/ Boot
    \/ Power
    \/ Hfi
    \/ Tables
    \/ PowerOn
    \/ Arena
    \/ Line
    \/ Submit
    \/ Stream
    \/ Bundle
    \/ Render
    \/ Link
    \/ Xhci
    \/ XhciTool
    \/ Ntb
    \/ Udp
    \/ Eth
    \/ Stage
    \/ BootCtl
    \/ Ucsi
    \/ MapSteps
    \/ DebugSteps
    \/ VectorSteps
    \/ StartSteps
    \/ AddressSteps
    \/ RangeSteps
    \/ RegSteps
    \/ GdbSteps
    \/ UartSteps
    \/ HeapSteps
    \/ ExecSteps
    \/ ShellSteps
    \/ RingSteps
    \/ AscSteps
    \/ DcpSteps
    \/ EpicSteps
    \/ IspCommandSteps
    \/ IspSessionSteps
    \/ Dart8020Steps
    \/ Dart8110Steps
    \/ UatSteps
    \/ AgxRenderSteps
    \/ AgxFrameSteps
    \/ ScalerSteps
    \/ JpegSteps
    \/ ProresSteps
    \/ JpegRegSteps
    \/ AgxInitSteps
    \/ Objects
    \/ Channels
    \/ AdmacSteps
    \/ TreeSteps
    \/ StructSteps
    \/ AgxTraceSteps
    \/ UatTraceSteps
    \/ DcpTraceSteps
    \/ SpmiBusSteps
    \/ BusTraceSteps
    \/ A16FakeSteps
    \/ A16ClocksSteps
    \/ A16CpSteps

hostVars == <<which, svars, slot1, slot2, slot3, slot4, slot5, slot6, slot7, slot8, slot9, slot10, slot11, slot12,
          slot13, slot14, slot15, slot16, slot17, slot18, slot19, slot20, slot21, slot22, slot23,
          slot24, slot25, slot26, slot27, slot28, slot29, slot30, slot31>>
HostSpec == HostInit /\ [][HostNext]_hostVars

-----------------------------------------------------------------------------

\* The machines of each module
GpuStage3Machines == {"smmu", "boot", "tables"}
GpuPowerUpMachines == {"power", "poweron", "a16clocks"}
GpuArenaHfiMachines == {"hfi", "arena", "line", "a16fake"}
GpuSubmissionsMachines == {"submit", "stream", "a16cp"}
GpuReplayMachines == {"bundle", "render", "shader"}
UsbToolsMachines == {"xhci", "xsession", "ntb", "udp", "eth"}
StageToolsMachines == {"stage", "bootctl", "ucsi"}
HvGuestMachines == {"hvmaps", "hvdebug", "hvvectors", "hvstart"}
HvShellMachines == {"hvaddress", "gdbserver", "shellstate"}
ProxyClientMachines == {"rangemap", "regmaps", "uartlink", "clientheap", "proxyexec"}
AscClientsMachines == {"afkring", "asc", "dcpcalls", "epiccalls"}
StreamClientsMachines == {"ispcommands", "ispsession", "admac"}
PageTablesMachines == {"dart8020", "dart8110", "uat"}
AgxClientMachines == {"agxrender", "agxframes", "agxinit", "objects", "channels"}
MediaEnginesMachines == {"scaler", "jpeg", "prores", "jpegregs"}
DataFormatsMachines == {"tree", "structs"}
HvTracersMachines == {"agxtrace", "uattrace", "dcptrace", "spmibus", "bustrace"}

\* Every variable of the machine at hand stays in the set its module states.
HostTypeOK ==
    /\ TypeOK
    /\ which \in GpuStage3Machines =>
         /\ which = "smmu" => S3!SmmuTypeOK
         /\ which = "boot" => S3!BootTypeOK
         /\ which = "tables" => S3!TablesTypeOK
    /\ which \in GpuPowerUpMachines =>
         /\ which = "power" => PU!PowerTypeOK
         /\ which = "poweron" => PU!PowerOnTypeOK
         /\ which = "a16clocks" => PU!ClocksTypeOK
    /\ which \in GpuArenaHfiMachines =>
         /\ which = "hfi" => AH!HfiTypeOK
         /\ which = "arena" => AH!ArenaTypeOK
         /\ which = "line" => AH!LineTypeOK
         /\ which = "a16fake" => AH!FakeTypeOK
    /\ which \in GpuSubmissionsMachines =>
         /\ which = "submit" => SB!SubmitTypeOK
         /\ which = "stream" => SB!StreamTypeOK
         /\ which = "a16cp" => SB!CpTypeOK
    /\ which \in GpuReplayMachines =>
         /\ which = "bundle" => RP!BundleTypeOK
         /\ which = "render" => RP!PlanTypeOK
         /\ which = "shader" => RP!LinkTypeOK
    /\ which \in UsbToolsMachines =>
         /\ which = "xhci" => UT!XhciTypeOK
         /\ which = "xsession" => UT!SessionTypeOK
         /\ which = "ntb" => UT!NtbTypeOK
         /\ which = "udp" => UT!PipeTypeOK
         /\ which = "eth" => UT2!PipeTypeOK
    /\ which \in StageToolsMachines =>
         /\ which = "stage" => ST!StageTypeOK
         /\ which = "bootctl" => ST!ControlTypeOK
         /\ which = "ucsi" => ST!UcsiTypeOK
    /\ which \in HvGuestMachines =>
         /\ which = "hvmaps" => HG!MapsTypeOK
         /\ which = "hvdebug" => HG!DebugTypeOK
         /\ which = "hvvectors" => HG!VectorsTypeOK
         /\ which = "hvstart" => HG!StartTypeOK
    /\ which \in HvShellMachines =>
         /\ which = "hvaddress" => HS!AddressTypeOK
         /\ which = "gdbserver" => HS!GdbTypeOK
         /\ which = "shellstate" => HS!ShellTypeOK
    /\ which \in ProxyClientMachines =>
         /\ which = "rangemap" => PC!RangesTypeOK
         /\ which = "regmaps" => PC!RegsTypeOK
         /\ which = "uartlink" => PC!UartTypeOK
         /\ which = "clientheap" => PC!HeapTypeOK
         /\ which = "proxyexec" => PC!ExecTypeOK
    /\ which \in AscClientsMachines =>
         /\ which = "afkring" => AC!AfkTypeOK
         /\ which = "asc" => AC!AscTypeOK
         /\ which = "dcpcalls" => AC!DcpTypeOK
         /\ which = "epiccalls" => AC!EpicTypeOK
    /\ which \in StreamClientsMachines =>
         /\ which = "ispcommands" => SC!IspCmdTypeOK
         /\ which = "ispsession" => SC!IspTypeOK
         /\ which = "admac" => SC!AdmacTypeOK
    /\ which \in PageTablesMachines =>
         /\ which = "dart8020" => PT!OldTypeOK
         /\ which = "dart8110" => PT!NewTypeOK
         /\ which = "uat" => PT!UatTypeOK
    /\ which \in AgxClientMachines =>
         /\ which = "agxrender" => AX!RenderTypeOK
         /\ which = "agxframes" => AX!FramesTypeOK
         /\ which = "agxinit" => AX!InitDataTypeOK
         /\ which = "objects" => AX!ObjectsTypeOK
         /\ which = "channels" => AX!ChannelsTypeOK
    /\ which \in MediaEnginesMachines =>
         /\ which = "scaler" => ME!ScriptTypeOK
         /\ which = "jpeg" => ME2!ScriptTypeOK
         /\ which = "prores" => ME3!ScriptTypeOK
         /\ which = "jpegregs" => ME!JpegTypeOK
    /\ which \in DataFormatsMachines =>
         /\ which = "tree" => DF!TreeTypeOK
         /\ which = "structs" => DF!StructTypeOK
    /\ which \in HvTracersMachines =>
         /\ which = "agxtrace" => HT!AgxTypeOK
         /\ which = "uattrace" => HT!UatTypeOK
         /\ which = "dcptrace" => HT!DcpTypeOK
         /\ which = "spmibus" => HT!SpmiTypeOK
         /\ which = "bustrace" => HT!BusesTypeOK

\* Memory stays with its owner, whatever runs, links and firmware do: no live GPU stream reaches
\* memory that was given back, arenas, plans, heaps, buffers and contexts never share a page or a
\* block, a mapping reaches the memory it was made for and nothing else, and what is freed is no
\* longer reached (a16gpu_stage3.py, a16gpu_render.py, malloc.py, dart8020.py, dart8110.py,
\* uat.py, agx/).
MemoryApart ==
    /\ which \in AgxClientMachines =>
         /\ which = "channels" => /\ AX!LayoutsAgree
                                  /\ AX!DoorbellsApart
         /\ which = "objects" => /\ AX!NoLateWriteBack
                                 /\ AX!FrameSeesBuffers
                                 /\ AX!FreedUnreached
                                 /\ AX!PagesOfBlocks
         /\ which = "agxinit" => /\ AX!IoMapped
                                 /\ AX!ToldWhole
         /\ which = "agxrender" => /\ AX!RunsOnHeld
                                   /\ AX!NothingLeaked
    /\ which \in GpuStage3Machines =>
         /\ which = "smmu" => /\ S3!NoStray
                              /\ S3!ArenaHeld
         /\ which = "tables" => S3!TablesUnshared
    /\ which = "arena" => /\ AH!ArenaFree
                          /\ AH!ReachedIsKept
    /\ which = "submit" => /\ SB!FbRecorded
                           /\ SB!OnlyD4SeesPanel
    /\ which \in GpuReplayMachines =>
         /\ which = "render" => RP!PlanDisjoint
         /\ which = "bundle" => RP!DeclaredReachable
    /\ which = "xsession" => UT!OneSlotPerContext
    /\ which \in HvGuestMachines =>
         /\ which = "hvmaps" => HG!OwnKept
         /\ which = "hvstart" => /\ HG!GuestRam
                                 /\ HG!PartsWhole
    /\ which \in ProxyClientMachines =>
         /\ which = "uartlink" => PC!HeapBalanced
         /\ which = "clientheap" => /\ PC!HeldIsFull
                                    /\ PC!FreesOnlyHeld
                                    /\ PC!GuardReleases
                                    /\ PC!HeapsApart
    /\ which = "dcpcalls" => AC!BuffersStacked
    /\ which = "ispsession" => SC!FirmwareMapped
    /\ which \in PageTablesMachines =>
         /\ which = "dart8020" => /\ PT!MapsReached
                                  /\ PT!NothingElse
                                  /\ PT!OthersKept
         /\ which = "dart8110" => PT!DepthsReached
         /\ which = "uat" => /\ PT!GpuReaches
                             /\ PT!StreamExact
    /\ which \in MediaEnginesMachines =>
         /\ which = "scaler" => ME!NoOldWrites
         /\ which = "jpeg" => ME2!NoOldWrites
         /\ which = "prores" => ME3!NoOldWrites
         /\ which = "jpegregs" => /\ ME!PlanesFit
                                  /\ ME!UploadFits
    /\ which = "stage" => ST!WritesFit

\* What a tool reports or records is so: a recorded step really happened, a clean end left nothing
\* behind, a stray write, an overrun or a fault is reported, a debugger stop means the CPU
\* stopped, an acknowledged command was done, and a run claimed as new is the new one (a16gpu*.py,
\* a16ctl.py, a16xhci.py, hv/gdbserver, isp.py, the fakes of test-a16gpu*.py).
VerdictsHonest ==
    /\ which \in GpuSubmissionsMachines =>
         /\ which = "a16cp" => SB!OutsideSeen
         /\ which = "submit" => /\ SB!CleanEnd
                                /\ SB!ReportedRan
    /\ which \in GpuPowerUpMachines =>
         /\ which = "a16clocks" => /\ PU!PoweredWhenAnswered
                                   /\ PU!StrictStops
         /\ which = "poweron" => PU!CleanMeansClean
    /\ which = "a16fake" => /\ AH!ClobberSeen
                            /\ AH!HoleSeen
    /\ which \in AgxClientMachines =>
         /\ which = "channels" => AX!StopsOnlyForFault
         /\ which = "objects" => AX!FaultNamed
    /\ which = "boot" => S3!RecordHonest
    /\ which \in GpuReplayMachines =>
         /\ which = "bundle" => RP!StraysReported
         /\ which = "render" => /\ RP!OverrunStops
                                /\ RP!GateHonest
    /\ which \in StageToolsMachines =>
         /\ which = "bootctl" => /\ ST!ClaimedIsNew
                                 /\ ST!OthersNeedWindow
         /\ which = "ucsi" => ST!NeverBlind
    /\ which = "xsession" => UT!WedgedMeansAbandoned
    /\ which \in HvGuestMachines =>
         /\ which = "hvmaps" => HG!PtInStep
         /\ which = "hvdebug" => HG!ArmedEverywhere
    /\ which \in HvShellMachines =>
         /\ which = "gdbserver" => /\ HS!StopMeansStopped
                                   /\ HS!DiesUnaskedOnly
         /\ which = "shellstate" => HS!OpenMeansHeard
    /\ which = "proxyexec" => PC!OwnException
    /\ which = "asc" => AC!BootComplete
    /\ which = "ispsession" => SC!AckedMeansDone
    /\ which \in MediaEnginesMachines =>
         /\ which = "scaler" => ME!SavesOwn
         /\ which = "jpeg" => ME2!SavesOwn
         /\ which = "prores" => ME3!SavesOwn

\* No step takes back what was settled: a TrustZone call is never entered again while one is
\* pending, a sleeping RSC is woken before it is used, a rail vote is never lowered below what
\* stood, acknowledging a port change leaves the port as it was, and the exception guard is down
\* after a guarded call (a16gpu_stage3.py, a16xhci.py, proxyutils.py).
NothingUndone ==
  [][ /\ which = "boot" => /\ S3!TzNotReentered
                           /\ S3!RscAwake
      /\ which = "power" => PU!VotesKept
      /\ which = "xsession" => UT!AcksKeepPort
      /\ which = "proxyexec" => PC!GuardDown ]_hostVars

\* An answer is the answer to what was asked: replies, acknowledgements, fences, frames, events
\* and traced traffic that were late, repeated, of another peer or of another context are never
\* taken for the one awaited (hfi_wait_ack, ring_submit, transfer, udplink.py, a16ucsi.py,
\* proxy.py, dcp, epic, isp.py, the hv tracers).
RepliesMatch ==
    /\ which \in HvTracersMachines =>
         /\ which = "bustrace" => /\ HT!BusAsTold
                                  /\ HT!LogFromOwnBuffer
         /\ which = "spmibus" => /\ HT!WholeOwnReply
                                 /\ HT!TrafficPaired
         /\ which = "dcptrace" => /\ HT!OwnService
                                  /\ HT!AnswerOfCall
         /\ which = "agxtrace" => /\ HT!ReadsOwnContext
                                  /\ HT!KickPolls
    /\ which = "boot" => S3!FenceIsOurs
    /\ which = "hfi" => /\ AH!AckIsOurs
                        /\ AH!WholeMessage
                        /\ AH!RspAligned
    /\ which \in UsbToolsMachines =>
         /\ which = "xhci" => UT!AnswerIsOurs
         /\ which = "udp" => UT!OnlyPeer
         /\ which = "eth" => UT2!OnlyPeer
    /\ which = "ucsi" => ST!AnswersAreOurs
    /\ which \in ProxyClientMachines =>
         /\ which = "uartlink" => PC!OwnAnswer
         /\ which = "proxyexec" => PC!RunsWhatWasAsked
         /\ which = "regmaps" => PC!RightHandler
    /\ which = "gdbserver" => HS!SelectedCpu
    /\ which \in AscClientsMachines =>
         /\ which = "dcpcalls" => AC!ResultIsOwn
         /\ which = "epiccalls" => /\ AC!OneChannelEach
                                   /\ AC!ReplyIsOwn
                                   /\ AC!ParsedAsAsked
                                   /\ AC!BufferIsMessage
                                   /\ AC!AckedWhereSent
    /\ which = "bundle" => RP!CodeIsOurs
    /\ which = "hvvectors" => /\ HG!ReachesHandler
                              /\ HG!OnlyUnknownOpens
                              /\ HG!ShadowPrivate
    /\ which = "agxrender" => AX!BranchesToStart

\* Nothing that was handed over is lost, repeated, reordered or read stale: ring indices, shared
\* cache lines, pixels before their fence, edits of the stopped guest's registers, messages of
\* both directions, mapped reads and traced events (mem_store32, emit_flushes, xhci rings,
\* hv/__init__.py, afk, admac.py, agx/channels.py, the hv tracers).
NothingLost ==
    /\ which = "a16clocks" => PU!SErrorsKept
    /\ which \in HvTracersMachines =>
         /\ which = "bustrace" => HT!ShownOnce
         /\ which = "dcptrace" => HT!ReadsAlong
         /\ which = "uattrace" => /\ HT!TablesFollowed
                                  /\ HT!PagesTraced
         /\ which = "agxtrace" => /\ HT!TraceInOrder
                                  /\ HT!ItemsInOrder
    /\ which \in StreamClientsMachines =>
         /\ which = "admac" => /\ SC!OwnBytes
                               /\ SC!ReportAnnounced
                               /\ SC!NoneDropped
         /\ which = "ispcommands" => /\ SC!NothingStaleRead
                                     /\ SC!NothingStaleShown
         /\ which = "ispsession" => /\ SC!ServedOnce
                                    /\ SC!NoDeadlock
    /\ which \in AgxClientMachines =>
         /\ which = "channels" => /\ AX!EventsInOrder
                                  /\ AX!SentInOrder
         /\ which = "objects" => AX!PushedOrDrawn
         /\ which = "agxrender" => /\ AX!TilerFirst
                                   /\ AX!ManagerReady
    /\ which = "line" => /\ AH!NoLostIndex
                         /\ AH!IndexReaches
                         /\ AH!ReadFresh
    /\ which \in GpuSubmissionsMachines =>
         /\ which = "stream" => /\ SB!PixelsBeforeFence
                                /\ SB!SamplesFresh
                                /\ SB!FencesInOrder
         /\ which = "submit" => SB!StreamStable
    /\ which = "bundle" => RP!UploadsIntact
    /\ which \in UsbToolsMachines =>
         /\ which = "xhci" => /\ UT!ControllerInStep
                              /\ UT!PollerAligned
         /\ which = "udp" => /\ UT!WritesWhole
                             /\ UT!NoGaps
         /\ which = "eth" => /\ UT2!WritesWhole
                             /\ UT2!NoGaps
    /\ which \in HvGuestMachines =>
         /\ which = "hvdebug" => /\ HG!EditsKept
                                 /\ HG!InterruptKept
         /\ which = "hvmaps" => /\ HG!TrapsDoneOnce
                                /\ HG!SeenByAll
    /\ which \in HvShellMachines =>
         /\ which = "gdbserver" => HS!NotLeftWaiting
         /\ which = "shellstate" => /\ HS!SimdOfThisStop
                                    /\ HS!PushedAfterLine
                                    /\ HS!ViewIsMemory
    /\ which = "regmaps" => PC!CacheIsLastSeen
    /\ which \in AscClientsMachines =>
         /\ which = "afkring" => /\ AC!TxInOrder
                                 /\ AC!RxInOrder
         /\ which = "asc" => AC!NeverStuck
         /\ which = "dcpcalls" => AC!DcpNeverStuck
    /\ which = "jpegregs" => ME!AsAlone

\* Steps that hang or wedge the machine when taken out of order are taken in order, after failures
\* and restarts too: nothing unpowered or unclocked is touched, a running CP is never initialised
\* again, code runs only when all of it is loaded, engines are reset before they are used and shut
\* down before they lose power (a16gpu.py, a16gpu_stage3.py, a16ctl.py, asc, isp.py, the engine
\* scripts).
RightOrder ==
    /\ which \in AgxClientMachines =>
         /\ which = "agxframes" => AX!FrameEnds
         /\ which = "channels" => AX!OneResumePerHalt
         /\ which = "objects" => AX!HandoffExclusive
    /\ which = "a16cp" => SB!FencedIsInMemory
    /\ which \in GpuPowerUpMachines =>
         /\ which = "a16clocks" => PU!NeverWedged
         /\ which = "poweron" => /\ PU!TouchesPowered
                                 /\ PU!StrictRestored
         /\ which = "power" => /\ PU!SourceLive
                               /\ PU!NothingForced
    /\ which = "a16fake" => AH!WholeChain
    /\ which = "uattrace" => HT!PausedIsSilent
    /\ which = "boot" => S3!NeverReinitialised
    /\ which = "stage" => /\ ST!RunsWholeCode
                          /\ ST!LinkNotReset
    /\ which = "clientheap" => PC!TimeoutRestored
    /\ which = "asc" => /\ AC!DownInOrder
                        /\ AC!StartedOnce
    /\ which = "ispsession" => /\ SC!PoweredWhileRunning
                               /\ SC!ExitShutsDown
    /\ which \in MediaEnginesMachines =>
         /\ which = "scaler" => /\ ME!StartsWhole
                                /\ ME!NeverHangs
         /\ which = "jpeg" => /\ ME2!StartsWhole
                              /\ ME2!NeverHangs
         /\ which = "prores" => /\ ME3!StartsWhole
                                /\ ME3!NeverHangs
    /\ which = "render" => RP!EnvelopeLast

\* The pure algorithms agree with their reference definitions on every input of the instance:
\* page-table walks, rail votes, arena search, shader linking, NTB framing, symbol and range
\* lookup, register fields, packet escapes, heap placement, tile and plane layout, device-tree
\* paths and values, structure layout.
AlgorithmsExact ==
    /\ which \in AgxClientMachines =>
         /\ which = "agxframes" => AX!DumpShowsFrame
         /\ which = "agxinit" => AX!FailsAsKnown
         /\ which = "agxrender" => AX!TilesCovered
    /\ which = "a16cp" => SB!WalkersAgree
    /\ which = "bustrace" => HT!NearestHandler
    /\ which \in DataFormatsMachines =>
         /\ which = "structs" => /\ DF!PokesOwn
                                 /\ DF!BuildsAndParses
                                 /\ DF!SubAddrTrue
                                 /\ DF!PointersFilled
         /\ which = "tree" => /\ DF!PathsFind
                              /\ DF!PathsTrue
                              /\ DF!BusAndBack
                              /\ DF!BuiltBack
    /\ which = "admac" => SC!PiecesWhole
    /\ which = "tables" => /\ S3!WalkExact
                           /\ S3!NoUnderVote
                           /\ S3!VoteNamesRow
                           /\ S3!FirmwarePlaced
    /\ which = "arena" => AH!PickExact
    /\ which = "shader" => /\ RP!DescriptorsCover
                           /\ RP!UbosKept
                           /\ RP!LinkExact
    /\ which = "ntb" => /\ UT!RoundTrip
                        /\ UT!WalkEnds
                        /\ UT!ChecksumVerifies
    /\ which \in HvShellMachines =>
         /\ which = "hvaddress" => /\ HS!PiecesExact
                                   /\ HS!PrefixRead
                                   /\ HS!NearestSymbol
                                   /\ HS!PacUndone
                                   /\ HS!WalkOnce
         /\ which = "gdbserver" => /\ HS!CutsUnseen
                                   /\ HS!ReadsBack
                                   /\ HS!WatchesAll
         /\ which = "shellstate" => HS!ReadsBackDump
    /\ which \in PageTablesMachines =>
         /\ which = "dart8020" => /\ PT!PiecesExact
                                  /\ PT!TranslateAgrees
                                  /\ PT!DumpExact
         /\ which = "dart8110" => PT!SameWalk
         /\ which = "uat" => /\ PT!TranslateSees
                             /\ PT!ListsAll
    /\ which \in ProxyClientMachines =>
         /\ which = "rangemap" => /\ PC!InOrder
                                  /\ PC!HoldsWhatWasPut
                                  /\ PC!Shortest
         /\ which = "regmaps" => /\ PC!FieldsApart
                                 /\ PC!LookupExact
         /\ which = "uartlink" => /\ PC!FirstMagic
                                  /\ PC!AlignedOnly
                                  /\ PC!CallsFit
         /\ which = "clientheap" => PC!LowestFit
    /\ which = "dcpcalls" => AC!ArgsArrive
    /\ which = "jpegregs" => /\ ME!TilesCover
                             /\ ME!ChromaMatches
                             /\ ME!ReadsOwnChroma
                             /\ ME!ParsesOneFrame

=============================================================================
