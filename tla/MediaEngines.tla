------------------------------- MODULE MediaEngines -------------------------------
(***************************************************************************)
(* The scripts that run the scaler, JPEG and ProRes engines                *)
(* (proxyclient/tools and experiments) and the register values they        *)
(* compute.  Each section is a machine of its own.                         *)
(***************************************************************************)
EXTENDS Integers, Sequences, FiniteSets, FiniteSetsExt

-----------------------------------------------------------------------------
(***************************************************************************)
(* The one-shot scripts that drive a media engine through the proxy:       *)
(* experiments/scaler.py, experiments/jpeg.py and experiments/prores.py.   *)
(* A script powers the engine, takes its DART over, resets the engine (the *)
(* ProRes script has no reset), uploads and maps its buffers, writes the   *)
(* registers group by group, starts the job, waits, and saves what the     *)
(* output buffer then holds.  Nothing is undone at the end, so the next    *)
(* run meets the engine, and perhaps the job, of the one before; every run *)
(* starts a new client heap, so its buffers lie where the last run's lay.  *)
(*                                                                         *)
(* A script is its plan, a sequence of steps; it can be cut at any of them *)
(* and run again, MaxRuns times in all.  The engine is the environment.    *)
(***************************************************************************)

CONSTANTS Engine,      \* "scaler", "jpeg" or "prores"
          MaxRuns      \* bound: how often the script is started

VARIABLES run,         \* number of the current or latest run
          pc,          \* the step it is at; 0 when no script runs
          reset,       \* the engine is held in reset
          job,         \* the run whose job the engine works on; 0 when idle
          irq,         \* the engine's "done" status
          regs,        \* register groups written since the engine was reset
          mapped,      \* buffers the DART maps, of the latest run to map any
          mem,         \* contents of the output buffer: run of the job, 0 fill
          input,       \* this run's input is in its buffer
          said,        \* this run has printed TIMED OUT
          file,        \* what the latest run saved
          stale,       \* "done" was already up when this run started its job
          slow,        \* the job outlasted the script's fixed sleep
          mixed,       \* an earlier job wrote over this run's filled buffer
          cut,         \* a run was cut while the engine was held in reset
          hung         \* a register was read while the engine was in reset

scriptVars == <<run, pc, reset, job, irq, regs, mapped, mem, input, said, file,
                stale, slow, mixed, cut, hung>>
ghosts == <<stale, slow, mixed, cut, hung>>

Do(op) == [op |-> op, group |-> ""]
Set(group) == [op |-> "set", group |-> group]

----------------------------------------------------------------------------
(* experiments/scaler.py *)

ScalerPrologue_NoReset == <<Do("power"), Do("dart"), Do("id"), Do("id")>>

ScalerPrologue_ReadHeld == <<Do("power"), Do("dart"), Do("reset"), Do("id"),
                             Do("unreset"), Do("id")>>

\* Power, DART, and the reset between two reads of the version register.
ScalerPrologue == <<Do("power"), Do("dart"), Do("id"), Do("reset"),
                    Do("unreset"), Do("id")>>

ScalerImage == <<Do("image")>>

ScalerBuffers_InUnmapped == <<Do("fill"), Do("map_out"), Do("upload")>>

\* The output buffer is filled and mapped, then the input buffer.
ScalerBuffers == <<Do("fill"), Do("map_out"), Do("upload"), Do("map_in")>>

dpe_start == <<Set("dpe")>>

\* DMA controls, cache hints, tunables, plane addresses, strides and offsets.
ScalerPlanes == <<Set("rdma"), Set("hints"), Set("planes")>>

\* Sizes, swizzles, write DMA, enhancement and chroma, vertical ratios.
ScalerSizes == <<Set("sizes"), Set("wdma"), Set("ase"), Set("v_ratio")>>

ScalerTapsV1 == <<Set("v_taps1")>>
ScalerTapsV2 == <<Set("v_taps2")>>
ScalerTapsV3 == <<Set("v_taps3")>>
ScalerRatioH == <<Set("h_ratio")>>
ScalerTapsH1 == <<Set("h_taps1")>>
ScalerTapsH2 == <<Set("h_taps2")>>
ScalerTapsH3 == <<Set("h_taps3")>>
ScalerTapsH4 == <<Set("h_taps4")>>
ScalerTapsH5 == <<Set("h_taps5")>>

\* Prescaler, alpha, dither, conversions, transform tag.
ScalerTail == <<Set("convert")>>

ScalerStart == <<Do("start")>>
ScalerWait == <<Do("wait")>>
ScalerSave == <<Do("save")>>

\* A plan that forgets the reset.
\* A plan that reads the version while the engine is held in reset.

\* A plan that forgets to map the input buffer.

Scaler == ScalerPrologue \o ScalerImage \o ScalerBuffers \o dpe_start
          \o ScalerPlanes \o ScalerSizes \o ScalerTapsV1 \o ScalerTapsV2
          \o ScalerTapsV3 \o ScalerRatioH \o ScalerTapsH1 \o ScalerTapsH2
          \o ScalerTapsH3 \o ScalerTapsH4 \o ScalerTapsH5 \o ScalerTail
          \o ScalerStart \o ScalerWait \o ScalerSave

\* The taps of BLOCK0 a group writes: 96 registers a group, but the line that
\* should write vertical tap 217 names 218 again.
Taps(group) ==
  CASE group = "v_taps1" -> 0..95
    [] group = "v_taps2" -> 96..191
    [] group = "v_taps3" -> (192..287) \ {217}
    [] group = "h_taps1" -> 0..95
    [] group = "h_taps2" -> 96..191
    [] group = "h_taps3" -> 192..287
    [] group = "h_taps4" -> 288..383
    [] group = "h_taps5" -> 384..479

VGroups == {"v_taps1", "v_taps2", "v_taps3"}
HGroups == {"h_taps1", "h_taps2", "h_taps3", "h_taps4", "h_taps5"}
VTaps(set) == UNION {Taps(g) : g \in VGroups \cap set}
HTaps(set) == UNION {Taps(g) : g \in HGroups \cap set}

----------------------------------------------------------------------------
(* experiments/prores.py *)

ProresImage == <<Do("image")>>
ProresPower == <<Do("power"), Do("dart"), Do("id")>>
ProresTunables == <<Set("tunables")>>

\* The descriptor ring is allocated, mapped and announced empty.
ProresRing == <<Do("map_ring"), Set("ring"), Set("mode")>>

ProresQuantEhqHq == <<Set("quant_ehq"), Set("quant_hq")>>
ProresQuantNqLt == <<Set("quant_nq"), Set("quant_lt")>>
ProresQuantProxy == <<Set("quant_proxy")>>
ProresDcScale == <<Set("dc_scale")>>
ProresBuffers == <<Do("fill"), Do("map_out"), Do("upload"), Do("map_in")>>

\* The descriptor names the buffers and is written to the ring's memory.
ProresDescriptor == <<Set("descriptor")>>

\* Moving DR_HEAD past it starts the job.
ProresStart == <<Do("start")>>
ProresWait == <<Do("wait")>>
ProresAck == <<Do("ack")>>
ProresSave == <<Do("save")>>

Prores == ProresImage \o ProresPower \o ProresTunables \o ProresRing
          \o ProresQuantEhqHq \o ProresQuantNqLt \o ProresQuantProxy
          \o ProresDcScale \o ProresBuffers \o ProresDescriptor
          \o ProresStart \o ProresWait \o ProresAck \o ProresSave

----------------------------------------------------------------------------
(* experiments/jpeg.py; what its registers are given is JpegRegs' subject *)

\* Options and image are looked at before anything is touched.
JpegImage == <<Do("image")>>
JpegPower == <<Do("power"), Do("dart"), Do("id")>>
reset_block_NoWait == <<Do("defaults"), Do("rst_poll")>>

reset_block == <<Do("defaults"), Do("idle"), Do("rst_poll")>>
\* A reset that does not wait for the engine to be idle.

JpegBuffers == <<Do("map_in"), Do("map_out"), Do("fill")>>
JpegConfigure == <<Do("upload"), Set("codec"), Set("planes"), Set("tiling"),
                   Set("chroma"), Set("matrix"), Set("addresses")>>
JpegStart == <<Do("start")>>
JpegSleep == <<Do("sleep")>>
JpegSave == <<Do("save")>>

Jpeg == JpegImage \o JpegPower \o reset_block \o JpegBuffers
        \o JpegConfigure \o JpegStart \o JpegSleep \o JpegSave

Plan == CASE Engine = "scaler" -> Scaler
          [] Engine = "prores" -> Prores
          [] Engine = "jpeg" -> Jpeg

Buffers == IF Engine = "prores" THEN {"ring", "in", "out"} ELSE {"in", "out"}

NoFile == [run |-> 0, holds |-> 0, said |-> FALSE, stale |-> FALSE,
           slow |-> FALSE]

ScriptInit ==
  /\ run = 0 /\ pc = 0 /\ reset = FALSE /\ job = 0 /\ irq = FALSE
  /\ regs = {} /\ mapped = {} /\ mem = -1 /\ input = FALSE /\ said = FALSE
  /\ file = NoFile
  /\ stale = FALSE /\ slow = FALSE /\ mixed = FALSE /\ cut = FALSE
  /\ hung = FALSE

At(op) == pc > 0 /\ Plan[pc].op = op /\ ~hung
Next1 == pc' = IF pc = Len(Plan) THEN 0 ELSE pc + 1

Begin ==
  /\ pc = 0 /\ run < MaxRuns /\ ~hung
  /\ run' = run + 1 /\ pc' = 1
  /\ input' = FALSE /\ said' = FALSE /\ stale' = FALSE /\ slow' = FALSE
  /\ mixed' = FALSE
  /\ UNCHANGED <<reset, job, irq, regs, mapped, mem, file, cut, hung>>

\* The image file is missing or of another shape, or the script is called
\* without its two arguments.
ImageRefused ==
  /\ At("image")
  /\ pc' = 0
  /\ UNCHANGED <<run, reset, job, irq, regs, mapped, mem, input, said, file,
                 ghosts>>

Quiet ==
  /\ At("power") \/ At("image")
  /\ Next1
  /\ UNCHANGED <<run, reset, job, irq, regs, mapped, mem, input, said, file,
                 ghosts>>

\* dart.initialize: every stream loses its tables.
TakeDart ==
  /\ At("dart")
  /\ mapped' = {}
  /\ Next1
  /\ UNCHANGED <<run, reset, job, irq, regs, mem, input, said, file, ghosts>>

\* A register is read; "if things are reset here, reading all other regs will
\* *HANG*", says the register map.
ReadId ==
  /\ At("id")
  /\ hung' = reset
  /\ Next1
  /\ UNCHANGED <<run, reset, job, irq, regs, mapped, mem, input, said, file,
                 stale, slow, mixed, cut>>

\* RESET = 1 stops the engine, RESET = 0 lets it go.
HoldReset ==
  /\ At("reset")
  /\ reset' = TRUE /\ job' = 0 /\ irq' = FALSE /\ regs' = {}
  /\ Next1
  /\ UNCHANGED <<run, mapped, mem, input, said, file, ghosts>>

LeaveReset ==
  /\ At("unreset")
  /\ reset' = FALSE
  /\ Next1
  /\ UNCHANGED <<run, job, irq, regs, mapped, mem, input, said, file, ghosts>>

\* set_default_regs: the registers go back to their defaults.
Defaults ==
  /\ At("defaults")
  /\ regs' = {} /\ irq' = FALSE
  /\ Next1
  /\ UNCHANGED <<run, reset, job, mapped, mem, input, said, file, ghosts>>

\* The engine must report idle before the script goes on.
PollIdle ==
  /\ At("idle") /\ job = 0
  /\ Next1
  /\ UNCHANGED <<run, reset, job, irq, regs, mapped, mem, input, said, file,
                 ghosts>>

PollReset ==
  /\ At("rst_poll")
  /\ Next1
  /\ UNCHANGED <<run, reset, job, irq, regs, mapped, mem, input, said, file,
                 ghosts>>

\* "reset 1 failed!", "reset 2 failed!": the script asserts.
PollFails ==
  /\ At("idle") \/ At("rst_poll")
  /\ pc' = 0
  /\ UNCHANGED <<run, reset, job, irq, regs, mapped, mem, input, said, file,
                 ghosts>>

Fill ==
  /\ At("fill")
  /\ mem' = 0
  /\ Next1
  /\ UNCHANGED <<run, reset, job, irq, regs, mapped, input, said, file,
                 ghosts>>

Upload ==
  /\ At("upload")
  /\ input' = TRUE
  /\ Next1
  /\ UNCHANGED <<run, reset, job, irq, regs, mapped, mem, said, file, ghosts>>

MapBuffer ==
  /\ At("map_out") \/ At("map_in") \/ At("map_ring")
  /\ mapped' = mapped \cup {CASE Plan[pc].op = "map_out" -> "out"
                              [] Plan[pc].op = "map_in" -> "in"
                              [] Plan[pc].op = "map_ring" -> "ring"}
  /\ Next1
  /\ UNCHANGED <<run, reset, job, irq, regs, mem, input, said, file, ghosts>>

SetGroup ==
  /\ At("set")
  /\ regs' = regs \cup {Plan[pc].group}
  /\ Next1
  /\ UNCHANGED <<run, reset, job, irq, mapped, mem, input, said, file, ghosts>>

Start ==
  /\ At("start")
  /\ job' = run
  /\ stale' = irq
  /\ Next1
  /\ UNCHANGED <<run, reset, irq, regs, mapped, mem, input, said, file,
                 slow, mixed, cut, hung>>

\* A time-out that is not reported.
Wait_Silent ==
  /\ At("wait")
  /\ Next1
  /\ UNCHANGED <<run, reset, job, irq, regs, mapped, mem, input, said, file,
                 ghosts>>

\* The poll sees "done", or gives up after five seconds and says so.
Wait ==
  /\ At("wait")
  /\ \/ irq /\ said' = said
     \/ ~irq /\ said' = TRUE
  /\ Next1
  /\ UNCHANGED <<run, reset, job, irq, regs, mapped, mem, input, file, ghosts>>

\* "FIXME: we don't actually know when it's done": one second, whatever happens.
Sleep ==
  /\ At("sleep")
  /\ slow' = (job # 0)
  /\ Next1
  /\ UNCHANGED <<run, reset, job, irq, regs, mapped, mem, input, said, file,
                 stale, mixed, cut, hung>>

Ack ==
  /\ At("ack")
  /\ irq' = FALSE
  /\ Next1
  /\ UNCHANGED <<run, reset, job, regs, mapped, mem, input, said, file,
                 ghosts>>

Save ==
  /\ At("save")
  /\ file' = [run |-> run, holds |-> mem, said |-> said, stale |-> stale,
              slow |-> slow]
  /\ Next1
  /\ UNCHANGED <<run, reset, job, irq, regs, mapped, mem, input, said, ghosts>>

\* The link drops or the user interrupts the script between two accesses.
Interrupted ==
  /\ pc > 0 /\ ~hung
  /\ pc' = 0
  /\ cut' = (cut \/ reset)
  /\ UNCHANGED <<run, reset, job, irq, regs, mapped, mem, input, said, file,
                 stale, slow, mixed, hung>>

\* This run has filled its output buffer.
Filled == \E i \in 1..(pc - 1) : Plan[i].op = "fill"

\* The engine writes its output where the DART lets it, and reports.
EngineDone ==
  /\ job > 0 /\ ~hung
  /\ IF "out" \in mapped
     THEN /\ mem' = job
          /\ mixed' = (mixed \/ (job # run /\ Filled))
     ELSE UNCHANGED <<mem, mixed>>
  /\ job' = 0 /\ irq' = TRUE
  /\ UNCHANGED <<run, pc, reset, regs, mapped, input, said, file, stale, slow,
                 cut, hung>>

Step == \/ Begin \/ ImageRefused \/ Quiet \/ TakeDart \/ ReadId \/ HoldReset
        \/ LeaveReset \/ Defaults \/ PollIdle \/ PollReset \/ PollFails
        \/ Fill \/ Upload \/ MapBuffer \/ SetGroup \/ Start \/ Wait \/ Sleep
        \/ Ack \/ Save \/ Interrupted \/ EngineDone

ScriptNext == Step

ScriptSpec == ScriptInit /\ [][ScriptNext]_scriptVars

----------------------------------------------------------------------------
Groups == {Plan[i].group : i \in {j \in DOMAIN Plan : Plan[j].op = "set"}}

ScriptTypeOK ==
  /\ run \in 0..MaxRuns /\ pc \in 0..Len(Plan) /\ job \in 0..MaxRuns
  /\ {reset, irq, input, said, stale, slow, mixed, cut, hung} \subseteq BOOLEAN
  /\ regs \subseteq Groups /\ mapped \subseteq Buffers
  /\ mem \in -1..MaxRuns
  /\ file.run \in 0..MaxRuns

\* While the engine works on this run's job, every register group of the job
\* has been written since the engine's reset, all its buffers are mapped and
\* the input is in place; the scaler's filters are complete but for the
\* vertical tap that is never written.
StartsWhole ==
  (job > 0 /\ job = run /\ pc > 0) =>
    /\ regs = Groups /\ mapped = Buffers /\ input
    /\ Engine = "scaler" => /\ VTaps(regs) = (0..287) \ {217}
                            /\ HTaps(regs) = 0..479

\* What a run saves without having printed a time-out is its own job's output,
\* never the fill pattern nor an earlier run's picture; excepted are a ProRes
\* run that met the "done" status an abandoned run left (nothing clears it
\* before the start), and a JPEG job longer than the script's sleep.
SavesOwn ==
  (file.run > 0 /\ ~file.said) =>
     \/ file.holds = file.run
     \/ Engine = "prores" /\ file.stale
     \/ Engine = "jpeg" /\ file.slow

\* Once a run has filled its output buffer no earlier run's job writes into it
\* (the buffers of all runs lie at the same addresses): the engine is reset,
\* or found idle, before the buffers are mapped.  The ProRes script resets
\* nothing.
NoOldWrites == Engine # "prores" => ~mixed

\* The script never reads a register of an engine it holds in reset; the one
\* way to that is a run cut between RESET = 1 and RESET = 0, since the next
\* run first reads the version register.
NeverHangs == hung => cut

-----------------------------------------------------------------------------
(***************************************************************************)
(* What experiments/jpeg.py computes and writes: the walk over the JPEG's  *)
(* segments, the sizes of the surfaces, the tiling tables of the sixteen   *)
(* pixel formats, the chroma resampling flags, and the read-out of the     *)
(* decoded planes; and the register file those writes go to, which keeps   *)
(* what an earlier run of other options wrote until it is reset.           *)
(* EngineScript has the script's order and its interruptions.              *)
(***************************************************************************)

CONSTANTS Sizes,       \* bound: widths and heights of the pictures
          Scales,      \* values of --decode-scale
          Page,        \* unit the buffers are rounded up to
          MaxSegments, \* bound: segments of a JPEG file
          JpegMaxRuns      \* bound: runs of the script

VARIABLES ask,         \* a question about sizes or parsing, with its answer
          runs,        \* runs so far
          opts,        \* options of the current run
          step,        \* "none", "reset", "codec", "chroma", "matrix", "go"
          jpegRegs         \* the registers only some options write

jpegVars == <<ask, runs, opts, step, jpegRegs>>

DecodeFormats == {"RGBA", "BGRA", "RGB565", "CbYCrY", "YCbYCr",
                  "P422", "P420", "P444"}
EncodeFormats == {"RGB888", "RGB101010", "RGB565", "YUV10", "YUVlinear",
                  "P444", "P422", "P420"}
DecodeModes == {"444", "400", "422", "420", "411"}
EncodeModes == {"444", "400", "422", "420"}
Planar == {"P422", "P420", "P444"}

divroundup(a, b) == (a + b - 1) \div b
AlignUp(n) == divroundup(n, Page) * Page

\* Width and height of a macroblock in pixels.
Macroblock(mode) == CASE mode \in {"444", "400"} -> <<8, 8>>
                      [] mode = "422" -> <<16, 8>>
                      [] mode = "420" -> <<16, 16>>
                      [] mode = "411" -> <<32, 8>>

\* Bytes per pixel of plane 0, bytes per pixel of plane 1, its height divisor.
DecodeLayout(fmt) == CASE fmt \in {"RGBA", "BGRA"} -> <<4, 0, 1>>
                       [] fmt \in {"RGB565", "CbYCrY", "YCbYCr"} -> <<2, 0, 1>>
                       [] fmt = "P422" -> <<1, 1, 1>>
                       [] fmt = "P420" -> <<1, 1, 2>>
                       [] fmt = "P444" -> <<1, 2, 1>>

\* Strides, plane 1 offset and size of the surface a decode writes.
DecodeSurface(o) ==
  LET mb == Macroblock(o.mode)
      lay == DecodeLayout(o.fmt)
      w == divroundup(o.w \div o.scale, mb[1]) * mb[1]
      h == divroundup(o.h \div o.scale, mb[2]) * mb[2]
      p0 == w * lay[1] * h
      p1 == w * lay[2] * (h \div lay[3])
  IN [stride |-> w * lay[1], stride1 |-> w * lay[2], off |-> p0,
      size |-> p0 + p1, mem |-> AlignUp(p0 + p1)]

\* PX_PLANE0_TILING_H (in 8 bytes), _V, PX_PLANE1_TILING_H, _V before scaling.
DecodeTable(fmt, mode) ==
  LET i == CASE mode \in {"444", "400"} -> 1 [] mode = "422" -> 2
             [] mode = "420" -> 3 [] mode = "411" -> 4
      v == <<8, 8, 16, 8>>[i]
  IN CASE fmt \in {"RGBA", "BGRA"} -> <<<<4, 8, 8, 16>>[i], v, 0, 0>>
       [] fmt = "RGB565" -> <<<<2, 4, 4, 8>>[i], v, 0, 0>>
       [] fmt \in {"CbYCrY", "YCbYCr"} -> <<<<4, 4, 4, 8>>[i], v, 0, 0>>
       [] fmt = "P422" -> <<<<2, 2, 2, 4>>[i], v, <<2, 2, 2, 4>>[i], v>>
       [] fmt = "P420" -> <<<<2, 2, 2, 4>>[i], v, <<2, 2, 2, 4>>[i],
                            <<4, 4, 8, 4>>[i]>>
       [] fmt = "P444" -> <<<<1, 2, 2, 4>>[i], v, <<2, 4, 4, 8>>[i], v>>

\* Tile columns counted in macroblocks for every format.
DecodeTiles_NoMin16(o) ==
  LET mb == Macroblock(o.mode)
      lay == DecodeLayout(o.fmt)
      t == DecodeTable(o.fmt, o.mode)
      unit == IF o.fmt \in {"RGBA", "BGRA", "RGB565", "P444"} THEN mb[1]
              ELSE mb[1]
  IN [across |-> divroundup(o.w \div o.scale, unit),
      down |-> divroundup(o.h, mb[2]),
      th |-> t[1], tv |-> t[2] \div o.scale,
      th1 |-> t[3], tv1 |-> t[4] \div o.scale,
      pw |-> (o.w * lay[1]) \div o.scale, ph |-> o.h \div o.scale,
      pw1 |-> (o.w * lay[2]) \div o.scale, ph1 |-> (o.h \div lay[3]) \div o.scale]

\* Tile counts and planes, as the registers are given them.
DecodeTiles(o) ==
  LET mb == Macroblock(o.mode)
      lay == DecodeLayout(o.fmt)
      t == DecodeTable(o.fmt, o.mode)
      unit == IF o.fmt \in {"RGBA", "BGRA", "RGB565", "P444"} THEN mb[1]
              ELSE Max({mb[1], 16})
  IN [across |-> divroundup(o.w \div o.scale, unit),
      down |-> divroundup(o.h, mb[2]),
      th |-> t[1], tv |-> t[2] \div o.scale,
      th1 |-> t[3], tv1 |-> t[4] \div o.scale,
      pw |-> (o.w * lay[1]) \div o.scale, ph |-> o.h \div o.scale,
      pw1 |-> (o.w * lay[2]) \div o.scale, ph1 |-> (o.h \div lay[3]) \div o.scale]

EncodeLayout(fmt) == CASE fmt \in {"RGB888", "RGB101010", "YUV10"} -> <<4, 0, 1>>
                       [] fmt \in {"RGB565", "YUVlinear"} -> <<2, 0, 1>>
                       [] fmt = "P444" -> <<1, 2, 1>>
                       [] fmt = "P422" -> <<1, 1, 1>>
                       [] fmt = "P420" -> <<1, 1, 2>>

\* Chroma of every line of a 4:2:0 picture.
Pixels_EveryLine(o) ==
  LET lay == EncodeLayout(o.fmt)
  IN <<o.w * o.h * lay[1],
       IF o.fmt = "P420" THEN o.w * o.h ELSE o.w * o.h * lay[2]>>

\* Bytes of pixel data put together for plane 0 and for plane 1: of 4:2:0
\* every even line gives a chroma line.
Pixels(o) ==
  LET lay == EncodeLayout(o.fmt)
  IN <<o.w * o.h * lay[1],
       IF o.fmt = "P420" THEN o.w * divroundup(o.h, 2) ELSE o.w * o.h * lay[2]>>

\* A surface whose second plane is not counted.
EncodeSurface_OnePlane(o) ==
  LET lay == EncodeLayout(o.fmt)
      p0 == o.w * lay[1] * o.h
      p1 == (o.w * lay[2] * o.h) \div lay[3]
  IN [stride |-> o.w * lay[1], stride1 |-> o.w * lay[2], off |-> p0,
      size |-> p0 + p1, mem |-> AlignUp(p0)]

EncodeSurface(o) ==
  LET lay == EncodeLayout(o.fmt)
      p0 == o.w * lay[1] * o.h
      p1 == (o.w * lay[2] * o.h) \div lay[3]
  IN [stride |-> o.w * lay[1], stride1 |-> o.w * lay[2], off |-> p0,
      size |-> p0 + p1, mem |-> AlignUp(p0 + p1)]

EncodeTable(fmt, mode) ==
  LET i == CASE mode \in {"444", "400"} -> 1 [] mode = "422" -> 2
             [] mode = "420" -> 3
      v == <<8, 8, 16>>[i]
  IN CASE fmt \in {"RGB888", "RGB101010", "YUV10"} -> <<<<4, 8, 8>>[i], v, 0, 0>>
       [] fmt \in {"RGB565", "YUVlinear"} -> <<<<2, 4, 4>>[i], v, 0, 0>>
       [] fmt = "P444" -> <<<<1, 2, 2>>[i], v, <<2, 4, 4>>[i], v>>
       [] fmt = "P422" -> <<<<1, 2, 2>>[i], v, <<1, 2, 2>>[i], v>>
       [] fmt = "P420" -> <<<<1, 2, 2>>[i], v, <<1, 2, 2>>[i], <<4, 4, 8>>[i]>>

EncodeTiles(o) ==
  LET mb == Macroblock(o.mode)
      lay == EncodeLayout(o.fmt)
      t == EncodeTable(o.fmt, o.mode)
  IN [across |-> divroundup(o.w, mb[1]), down |-> divroundup(o.h, mb[2]),
      th |-> t[1], tv |-> t[2], th1 |-> t[3], tv1 |-> t[4],
      pw |-> o.w * lay[1], ph |-> o.h,
      pw1 |-> o.w * lay[2], ph1 |-> o.h \div lay[3]]

\* The chroma flags a decode sets.
DecodeChroma(fmt, mode) ==
  CASE fmt \in {"RGBA", "BGRA", "RGB565", "P444"} ->
         {f \in {"DOUBLE_H"} : mode \in {"422", "420"}}
         \cup {f \in {"QUADRUPLE_H"} : mode = "411"}
         \cup {f \in {"DOUBLE_V"} : mode = "420"}
    [] fmt \in {"CbYCrY", "YCbYCr", "P422"} ->
         {f \in {"HALVE_H"} : mode = "444"}
         \cup {f \in {"DOUBLE_H"} : mode = "411"}
         \cup {f \in {"DOUBLE_V"} : mode = "420"}
    [] fmt = "P420" ->
         {f \in {"HALVE_H"} : mode = "444"}
         \cup {f \in {"HALVE_V"} : mode \in {"444", "422", "411"}}
         \cup {f \in {"DOUBLE_H"} : mode = "411"}

\* Lines of chroma are not halved.
EncodeChroma_NoV(fmt, mode) ==
  CASE fmt \in {"RGB888", "RGB101010", "RGB565", "YUV10", "P444"} ->
         {f \in {"HALVE_H"} : mode \in {"422", "420"}}
    [] fmt \in {"YUVlinear", "P422"} -> {f \in {"HALVE_V"} : mode = "420"}
    [] fmt = "P420" -> {f \in {"DOUBLE_V"} : mode \in {"422", "444"}}

EncodeChroma(fmt, mode) ==
  CASE fmt \in {"RGB888", "RGB101010", "RGB565", "YUV10", "P444"} ->
         {f \in {"HALVE_H"} : mode \in {"422", "420"}}
         \cup {f \in {"HALVE_V"} : mode = "420"}
    [] fmt \in {"YUVlinear", "P422"} -> {f \in {"HALVE_V"} : mode = "420"}
    [] fmt = "P420" -> {f \in {"DOUBLE_V"} : mode \in {"422", "444"}}

\* "This combination does not appear to work!!!"
Warned(fmt, mode) == fmt \in {"YUVlinear", "P422", "P420"} /\ mode = "444"

\* Where the read-out looks for the two chroma bytes of a pixel: in the planar
\* formats the operator & takes the whole sum.
Even(n) == (n \div 2) * 2
\* 4:2:0 chroma looked up by the line of the picture.
ReadsChroma_EveryLine(o, x, y) ==
  LET s == DecodeSurface(o)
  IN CASE o.fmt = "P422" -> <<Even(s.off + y * s.stride1 + x),
                              s.off + y * s.stride1 + Even(x) + 1>>
       [] o.fmt = "P420" -> <<Even(s.off + y * s.stride1 + x),
                              s.off + y * s.stride1 + Even(x) + 1>>
       [] o.fmt = "P444" -> <<s.off + y * s.stride1 + x * 2,
                              s.off + y * s.stride1 + x * 2 + 1>>

ReadsChroma(o, x, y) ==
  LET s == DecodeSurface(o)
  IN CASE o.fmt = "P422" -> <<Even(s.off + y * s.stride1 + x),
                              s.off + y * s.stride1 + Even(x) + 1>>
       [] o.fmt = "P420" -> <<Even(s.off + (y \div 2) * s.stride1 + x),
                              s.off + (y \div 2) * s.stride1 + Even(x) + 1>>
       [] o.fmt = "P444" -> <<s.off + y * s.stride1 + x * 2,
                              s.off + y * s.stride1 + x * 2 + 1>>

\* The pre-parse: segments up to the start of scan, with exactly one frame
\* header of one or three components in a known sampling.
Refused == [mode |-> "refused"]
\* A walk that goes on behind the start of scan.
Walk_PastScan(segs) ==
  LET stop == {i \in DOMAIN segs : segs[i] = "SOS"}
      last == Len(segs)
      frames == {i \in 1..last : segs[i] \in {"SOF444", "SOF411", "SOFodd"}}
  IN CASE Cardinality(frames) # 1 -> Refused
       [] \E i \in frames : segs[i] = "SOFodd" -> Refused
       [] \E i \in frames : segs[i] = "SOF444" -> [mode |-> "444"]
       [] \E i \in frames : segs[i] = "SOF411" -> [mode |-> "411"]

Walk(segs) ==
  LET stop == {i \in DOMAIN segs : segs[i] = "SOS"}
      last == IF stop = {} THEN Len(segs) ELSE Min(stop) - 1
      frames == {i \in 1..last : segs[i] \in {"SOF444", "SOF411", "SOFodd"}}
  IN CASE Cardinality(frames) # 1 -> Refused
       [] \E i \in frames : segs[i] = "SOFodd" -> Refused
       [] \E i \in frames : segs[i] = "SOF444" -> [mode |-> "444"]
       [] \E i \in frames : segs[i] = "SOF411" -> [mode |-> "411"]

----------------------------------------------------------------------------
(* The registers that only some options write. *)

DefaultRegs == [codec |-> "444", chroma |-> {}, plane1 |-> FALSE,
                convert |-> FALSE, rst |-> FALSE, encode |-> "none"]

\* A reset that leaves the chroma flags alone.
set_default_regs_KeepsChroma(r) == [DefaultRegs EXCEPT !.chroma = r.chroma]
set_default_regs(r) == DefaultRegs

Codec(o, r) == [r EXCEPT !.codec = o.mode, !.plane1 = (o.fmt \in Planar)]
Chroma(o, r) ==
  [r EXCEPT !.chroma = @ \cup IF o.decode THEN DecodeChroma(o.fmt, o.mode)
                              ELSE EncodeChroma(o.fmt, o.mode)]
\* Colour conversion is only ever switched on, for the RGB inputs.
Matrix(o, r) ==
  [r EXCEPT !.convert = @ \/ (~o.decode /\ o.fmt \in {"RGB888", "RGB101010",
                                                      "RGB565"}),
            !.rst = IF o.decode THEN @ ELSE o.rst,
            !.encode = IF o.decode THEN @ ELSE o.fmt]

Options == {[decode |-> TRUE, fmt |-> f, mode |-> m, rst |-> FALSE] :
              f \in DecodeFormats, m \in DecodeModes}
           \cup {[decode |-> FALSE, fmt |-> f, mode |-> m, rst |-> b] :
              f \in EncodeFormats, m \in EncodeModes, b \in BOOLEAN}

\* The options a first run may have left its marks with.
Earlier == {[decode |-> TRUE, fmt |-> "RGBA", mode |-> "411", rst |-> FALSE],
            [decode |-> TRUE, fmt |-> "P420", mode |-> "444", rst |-> FALSE],
            [decode |-> FALSE, fmt |-> "RGB888", mode |-> "420", rst |-> TRUE],
            [decode |-> FALSE, fmt |-> "P420", mode |-> "422", rst |-> FALSE]}

NoOpts == [decode |-> TRUE, fmt |-> "RGBA", mode |-> "400", rst |-> FALSE]
NoAsk == [kind |-> "none"]

JpegInit == /\ ask = NoAsk /\ runs = 0 /\ opts = NoOpts /\ step = "none"
            /\ jpegRegs = DefaultRegs

JpegBegin == /\ step = "none" /\ runs < JpegMaxRuns /\ ask.kind = "none"
             /\ opts' \in IF runs = JpegMaxRuns - 1 THEN Options ELSE Earlier
             /\ runs' = runs + 1 /\ step' = "reset"
             /\ UNCHANGED <<ask, jpegRegs>>
Reset == /\ step = "reset" /\ jpegRegs' = set_default_regs(jpegRegs)
         /\ step' = "codec" /\ UNCHANGED <<ask, runs, opts>>
WriteCodec == /\ step = "codec" /\ jpegRegs' = Codec(opts, jpegRegs)
              /\ step' = "chroma" /\ UNCHANGED <<ask, runs, opts>>
WriteChroma == /\ step = "chroma" /\ jpegRegs' = Chroma(opts, jpegRegs)
               /\ step' = "matrix" /\ UNCHANGED <<ask, runs, opts>>
WriteMatrix == /\ step = "matrix" /\ jpegRegs' = Matrix(opts, jpegRegs)
               /\ step' = "go" /\ UNCHANGED <<ask, runs, opts>>
\* The job is over, or the script was cut wherever it was.
Ends == /\ step # "none" /\ runs < JpegMaxRuns
        /\ step' = "none" /\ opts' = NoOpts /\ UNCHANGED <<ask, runs, jpegRegs>>

Fresh == runs = 0 /\ ask.kind = "none"

AskDecode ==
  \E f \in DecodeFormats, m \in DecodeModes, w \in Sizes, h \in Sizes,
     s \in Scales :
    LET o == [fmt |-> f, mode |-> m, w |-> w, h |-> h, scale |-> s]
    IN ask' = [kind |-> "decode", o |-> o, s |-> DecodeSurface(o),
               t |-> DecodeTiles(o)]

AskEncode ==
  \E f \in EncodeFormats, m \in EncodeModes, w \in Sizes, h \in Sizes :
    LET o == [fmt |-> f, mode |-> m, w |-> w, h |-> h, scale |-> 1]
    IN ask' = [kind |-> "encode", o |-> o, s |-> EncodeSurface(o),
               t |-> EncodeTiles(o)]

AskParse ==
  \E n \in 0..MaxSegments :
    \E segs \in [1..n -> {"SOI", "APP", "SOF444", "SOF411", "SOFodd", "SOS"}] :
      ask' = [kind |-> "parse", segs |-> segs, got |-> Walk(segs)]

Ask == /\ Fresh
       /\ (AskDecode \/ AskEncode \/ AskParse)
       /\ UNCHANGED <<runs, opts, step, jpegRegs>>

JpegNext == JpegBegin \/ Reset \/ WriteCodec \/ WriteChroma \/ WriteMatrix \/ Ends \/ Ask

JpegSpec == JpegInit /\ [][JpegNext]_jpegVars

----------------------------------------------------------------------------
JpegTypeOK ==
  /\ ask.kind \in {"none", "decode", "encode", "parse"}
  /\ runs \in 0..JpegMaxRuns /\ opts \in Options
  /\ step \in {"none", "reset", "codec", "chroma", "matrix", "go"}
  /\ jpegRegs.codec \in DecodeModes /\ jpegRegs.plane1 \in BOOLEAN
  /\ jpegRegs.encode \in EncodeFormats \cup {"none"}

\* A job starts with the registers its own options ask for, whatever an earlier
\* run, of other options or cut half way, has left in the engine.
AsAlone ==
  step = "go" =>
    jpegRegs = Matrix(opts, Chroma(opts, Codec(opts, DefaultRegs)))

\* For widths the scale divides (otherwise the plane's width in bytes is not a
\* number of pixels: "FIXME: verify behavior on non-evenly-divisible sizes"),
\* the tiles the engine walks cover every byte and line of each plane, and the
\* last column of tiles is needed; excepted is 4:2:0 planar output at an eighth
\* of the size, where the height of a chroma tile comes out as nothing.
TilesCover ==
  (ask.kind \in {"decode", "encode"} /\ ask.o.w % ask.o.scale = 0) =>
    LET t == ask.t
        o == ask.o
    IN /\ t.across * t.th * 8 >= t.pw /\ t.down * t.tv >= t.ph
       /\ (t.across - 1) * t.th * 8 < t.pw
       /\ o.fmt \in Planar =>
            /\ t.across * t.th1 * 8 >= t.pw1
            /\ \/ t.down * t.tv1 >= t.ph1
               \/ o.fmt = "P420" /\ o.scale = 8 /\ o.mode # "420"

\* For the same widths both planes lie inside the buffer: every line fits its stride, plane 1 starts
\* after the last line of plane 0 and ends before the buffer does.
PlanesFit ==
  (ask.kind \in {"decode", "encode"} /\ ask.o.w % ask.o.scale = 0) =>
    LET t == ask.t
        s == ask.s
    IN /\ t.pw <= s.stride /\ t.pw1 <= s.stride1
       /\ t.ph * s.stride <= s.off
       /\ s.off + t.ph1 * s.stride1 <= s.mem

\* The pixels of an encode fill exactly the two planes announced; with an odd
\* height 4:2:0 data has half a chroma line more than was allotted.
UploadFits ==
  ask.kind = "encode" =>
    LET p == Pixels(ask.o)
    IN /\ p[1] = ask.s.off
       /\ \/ ask.s.off + p[2] = ask.s.size
          \/ ask.o.fmt = "P420" /\ ask.o.h % 2 = 1

\* Where the flags take the chroma of the JPEG to: shifts of both resolutions.
Shift(mode) == CASE mode = "444" -> <<0, 0>> [] mode = "422" -> <<1, 0>>
                 [] mode = "420" -> <<1, 1>> [] mode = "411" -> <<2, 0>>
FormatShift(fmt) == CASE fmt \in {"CbYCrY", "YCbYCr", "P422", "YUVlinear"} -> <<1, 0>>
                      [] fmt = "P420" -> <<1, 1>>
                      [] OTHER -> <<0, 0>>
Moved(c, flags) ==
  <<c[1] + (IF "HALVE_H" \in flags THEN 1 ELSE 0)
         - (IF "DOUBLE_H" \in flags THEN 1 ELSE 0)
         - (IF "QUADRUPLE_H" \in flags THEN 2 ELSE 0),
    c[2] + (IF "HALVE_V" \in flags THEN 1 ELSE 0)
         - (IF "DOUBLE_V" \in flags THEN 1 ELSE 0)>>

\* When a job with chroma starts, the flags in the registers turn the source's
\* chroma resolution into the target's: JPEG to pixel format when decoding,
\* pixel format to JPEG when encoding, but for the combinations warned of.
ChromaMatches ==
  (step = "go" /\ opts.mode # "400") =>
    IF opts.decode
    THEN Moved(Shift(opts.mode), jpegRegs.chroma) = FormatShift(opts.fmt)
    ELSE \/ Moved(FormatShift(opts.fmt), jpegRegs.chroma) = Shift(opts.mode)
         \/ Warned(opts.fmt, opts.mode)

\* The read-out looks at chroma bytes of its own pixel that the engine has been
\* told to write, for pictures of even size: the missing parentheses around
\* x & ~1 do no harm because plane 1 starts, and its lines are, at even offsets.
ReadsOwnChroma ==
  (ask.kind = "decode" /\ ask.o.fmt \in Planar
     /\ (ask.o.w \div ask.o.scale) % 2 = 0 /\ (ask.o.h \div ask.o.scale) % 2 = 0) =>
    \A x \in {0, ask.t.pw - 1, ask.t.pw - 2}, y \in {0, 1, ask.t.ph - 1} :
      LET per == IF ask.o.fmt = "P444" THEN 1 ELSE 2
          line == IF ask.o.fmt = "P420" THEN y \div 2 ELSE y
          c == (x \div per) * 2
      IN /\ ReadsChroma(ask.o, x, y) =
              <<ask.s.off + line * ask.s.stride1 + c,
                ask.s.off + line * ask.s.stride1 + c + 1>>
         /\ c + 1 < ask.t.pw1 /\ line < ask.t.ph1

\* A file is taken exactly when one frame header, of a sampling the engine
\* knows, precedes the first start of scan; its mode is that header's.
ParsesOneFrame ==
  ask.kind = "parse" =>
    \A m \in {"444", "411"} :
      (ask.got.mode = m) <=>
        \E i \in DOMAIN ask.segs :
          /\ ask.segs[i] = (IF m = "444" THEN "SOF444" ELSE "SOF411")
          /\ \A j \in 1..i : ask.segs[j] # "SOS"
          /\ \A j \in DOMAIN ask.segs :
               (j # i /\ ask.segs[j] \in {"SOF444", "SOF411", "SOFodd"}) =>
                 \E k \in 1..j : ask.segs[k] = "SOS"
=============================================================================
