---------------------------------- MODULE MCParts ----------------------------------
(***************************************************************************)
(* Independent parts that are checked for safety alone, side by side: two  *)
(* USB ports, the console stream, the host tools for the SSD and the host  *)
(* end of the proxy link: which says which of the independent machines     *)
(* this behaviour is about, the others stay as they start.                 *)
(***************************************************************************)
EXTENDS Integers, Sequences, NvmeQueues, NvmeWindow

VARIABLES which,
          peer2, link2, portsc2, xhci2, dev2, gctl2, role2, connected2, nextRole2, timer2, configured2,
          activity2, ncm2, opened2, selected2, busy2, pc2, cur2, quiet2, stage2, gicReady2, irq2,
          polling, nowner, in_room, staging, in_held, drained, out_produced, ring, reply, learned, have,
          ste, tables, regions, own, picked, base,
          candidates, running, hpc, bound, excGuard, pyTail, hwTail, left, uses,
          map, table, files, ppc, owner, fileNo, dest, offset, copies,
          disks, windows, pins, verdict,
          h2t, t2h, buffer, up, stack, features, saved, tfeatures, depth, faulted, sent, bad, noise, opens,
          asked, answers, reads

Leaf(bit1, out, ap) == [valid |-> TRUE, bit1 |-> bit1, out |-> out, ap |-> ap]
NoDesc == [valid |-> FALSE, bit1 |-> FALSE, out |-> 0, ap |-> 0]
Region(kind, lo0, hi0) == [kind |-> kind, lo |-> lo0, hi |-> hi0]
OwnAt(b, n) == [base |-> b, size |-> n]

V == INSTANCE UsbPorts WITH
         NPorts <- 2, Absent <- {}, Peers <- {"gadget"}, Happens <- {"fault", "refresh"},
         peer <- peer2, link <- link2, portsc <- portsc2, xhci <- xhci2, dev <- dev2, gctl <-
         gctl2, role <- role2, connected <- connected2, nextRole <- nextRole2, timer <-
         timer2, configured <- configured2, activity <- activity2, ncm <- ncm2, opened <-
         opened2, selected <- selected2, busy <- busy2, pc <- pc2, cur <- cur2, quiet <-
         quiet2, stage <- stage2, gicReady <- gicReady2, irq <- irq2

N == INSTANCE ConsoleStream WITH
         Owners <- {"a", "b"}, InLen <- 2, OutLen <- 0, InMax <- 2, OutMax <- 1, InRoom <- {0, 1, 2},
         OutSize <- 1, Flags <- {"none", "takeover", "peek"}, Word <- 8,
         owner <- nowner

D == INSTANCE DmaWindow WITH
         IpaBits <- 3, StartLevel <- 1, Window <- 3, Align <- 1, MaxTried <- 2,
         Descs <- [l \in 1 .. 3 |->
                     CASE l = 1 -> {NoDesc, Leaf(TRUE, 0, 0), Leaf(FALSE, 4, 3), Leaf(FALSE, 0, 3)}
                       [] l = 2 -> {Leaf(TRUE, 0, 0), Leaf(FALSE, 2, 3), Leaf(FALSE, 4, 1)}
                       [] l = 3 -> {Leaf(TRUE, 4, 3), Leaf(TRUE, 5, 3), Leaf(FALSE, 5, 3)}],
         Memories <- {[map |-> {Region(7, 0, 8)}, own |-> {OwnAt(0, 2)}],
                      [map |-> {Region(7, 0, 4), Region(7, 4, 7)}, own |-> {OwnAt(3, 1)}],
                      [map |-> {Region(2, 0, 2), Region(7, 2, 8)}, own |-> {OwnAt(7, 1)}]}

H == INSTANCE NativeHash WITH
         Slot <- 8, Room <- 2, Ring <- 3, Blocks <- 2, MaxUse <- 3,
         Builds <- {[text |-> 1, at |-> a, end |-> a + e, bin |-> b] : a \in {0, 8}, e \in {5, 7}, b \in 1 .. 2}

P == INSTANCE Preload WITH
         Top <- 8, Limit <- 4, Request <- 2, MaxCopies <- 2,
         Regions <- {{Region(2, 1, 3), Region(2, 3, 5), Region(7, 5, 8)},
                     {Region(2, 1, 4), Region(7, 4, 6), Region(2, 6, 7), Region(7, 7, 8)},
                     {Region(7, 1, 2), Region(2, 2, 4), Region(2, 3, 6), Region(7, 6, 8)}},
         Tables <- {[at |-> a, entries |-> s] : a \in 1 .. 2,
                      s \in [1 .. 2 -> [base : 2 .. 5, size : 1 .. 2, path : {"p", "q"}]] \cup
                            [1 .. 3 -> [base : 3 .. 5, size : {1}, path : {"p", "q"}]]}

G == INSTANCE GptSurvey WITH
         Lba <- 1 .. 4, FirstUsable <- 2, LastUsable <- 4, Guids <- 1 .. 2, MaxParts <- 2, Disks <- 2,
         Headers <- {[primary |-> "good", backup |-> "good", same |-> TRUE],
                     [primary |-> "good", backup |-> "good", same |-> FALSE],
                     [primary |-> "good", backup |-> "bad", same |-> TRUE]}

L == INSTANCE HostLink WITH
         MaxReq <- 6, MaxBad <- 2, MaxNoise <- 1, MaxOpen <- 2

Vvars == <<peer2, link2, portsc2, xhci2, dev2, gctl2, role2, connected2, nextRole2, timer2, configured2,
            activity2, ncm2, opened2, selected2, busy2, pc2, cur2, quiet2, stage2, gicReady2, irq2>>
Nvars == <<polling, nowner, in_room, staging, in_held, drained, out_produced, ring, reply, learned, have>>
Qvars == <<sq, tail, nextCid, outstanding, head, phase, sqdb, cqdb, cq, dev, qpc, job, done, lo, entry, tries,
            issued, garbled, closing>>
Wvars == <<header, extents, scratch, original, wpc, mode, at, ranges, result, probed, guard, runs, faults>>
Dvars == <<ste, tables, regions, own, picked, base>>
Hvars == <<candidates, running, hpc, bound, excGuard, pyTail, hwTail, left, uses>>
Pvars == <<map, table, files, ppc, owner, fileNo, dest, offset, copies>>
Gvars == <<disks, windows, pins, verdict>>
Lvars == <<h2t, t2h, buffer, up, stack, features, saved, tfeatures, depth, faulted, sent, bad, noise, opens,
            asked, answers, reads>>

PartsInit ==
    /\ which \in {"ports", "console", "queues", "window", "dma", "hash", "preload", "gpt", "link"}
    /\ V!Init /\ IF which = "ports" THEN TRUE ELSE peer2 = [i \in {0, 1} |-> "none"] /\ gctl2 = [i \in {0, 1} |-> "HOST"]
    /\ N!Init
    /\ QueueInit
    /\ Init
    /\ D!Init
    /\ H!Init
    /\ P!Init
    /\ G!Init
    /\ L!Init

Others ==
    /\ IF which = "ports" THEN TRUE ELSE UNCHANGED Vvars
    /\ IF which = "console" THEN TRUE ELSE UNCHANGED Nvars
    /\ IF which = "queues" THEN TRUE ELSE UNCHANGED Qvars
    /\ IF which = "window" THEN TRUE ELSE UNCHANGED Wvars
    /\ IF which = "dma" THEN TRUE ELSE UNCHANGED Dvars
    /\ IF which = "hash" THEN TRUE ELSE UNCHANGED Hvars
    /\ IF which = "preload" THEN TRUE ELSE UNCHANGED Pvars
    /\ IF which = "gpt" THEN TRUE ELSE UNCHANGED Gvars
    /\ IF which = "link" THEN TRUE ELSE UNCHANGED Lvars
    /\ UNCHANGED which

TwoPorts == which = "ports" /\ V!Next /\ Others
Console == which = "console" /\ N!Next /\ Others
Queues == which = "queues" /\ QueueNext /\ Others
WindowTool == which = "window" /\ Next /\ Others
Dma == which = "dma" /\ D!Next /\ Others
Hash == which = "hash" /\ H!Next /\ Others
PreloadTool == which = "preload" /\ P!Next /\ Others
Gpt == which = "gpt" /\ G!Next /\ Others
Link == which = "link" /\ L!Next /\ Others

PartsNext ==
    \/ TwoPorts
    \/ Console
    \/ Queues
    \/ WindowTool
    \/ Dma
    \/ Hash
    \/ PreloadTool
    \/ Gpt
    \/ Link

parts == <<which, Vvars, Nvars, Qvars, Wvars, Dvars, Hvars, Pvars, Gvars, Lvars>>
PartsSpec == PartsInit /\ [][PartsNext]_parts

-----------------------------------------------------------------------------

\* Every variable of every machine stays in the set its module states.
PartsTypeOK ==
    /\ V!TypeOK
    /\ N!TypeOK
    /\ QueueTypeOK
    /\ TypeOK
    /\ D!TypeOK
    /\ H!TypeOK
    /\ P!TypeOK
    /\ G!TypeOK
    /\ L!TypeOK

\* Of two ports, a role attempt, which stalls the poll for 50 ms or more, starts only while no
\* other connected port carried a request lately.
ProbesOnlyWhenQuiet ==
    /\ V!ProbesOnlyWhenQuiet

\* Bytes are only ever staged for the host that owns the console, also when requests of a host
\* that lost it to a takeover arrive late.
OnlyOwnerTypes ==
    /\ N!OnlyOwnerTypes

\* Every answer is taken for the request it answers: a reply the host link accepts is the reply to
\* the request that waits, also after timed out handshakes and inside an exception; a corrupted
\* read reaches only a caller that asked for a live one. Between operations both ends agree: the
\* driver's tail is the controller's after any mix of Python reads and helper calls, both ends of
\* the link hold the same checksum negotiation, and in_held counts the input bytes of two hosts
\* the payload got in order.
AnswersMatch ==
    /\ L!OwnAnswer
    /\ L!ConnectedInSync
    /\ L!OnlyLiveUnchecked
    /\ H!CursorsAgree
    /\ L!EndsAgree
    /\ N!InputInOrder

\* The tools' address ranges are right. What a tool places in memory is clear of everything that
\* lives there: the DMA window lies in one Conventional region outside q1n1 and reaches the SSD at
\* its own address, the helper lies behind the running image with its BSS and stack, the resident
\* files are disjoint, a copy writes its destination only, and the helper is never run under the
\* guard that would return past its fault. The searches answer exactly what a page by page
\* definition says: reaches under a stage 2, _covered over regions that split, touch or overlap,
\* decode_gpt with unallocated over the usable LBAs; a survey that passes has found the one pinned
\* disk with its recorded layout.
RangesExact ==
    /\ H!GuardLowered
    /\ D!WindowUsable
    /\ H!HelperClear
    /\ P!CacheDisjoint
    /\ P!CopiesInBounds
    /\ G!PassPinsDisk
    /\ D!ReachExact
    /\ P!CoveredExact
    /\ G!LayoutExact

=============================================================================
