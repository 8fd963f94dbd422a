--------------------------- MODULE EncoderSettings ---------------------------
(***************************************************************************)
(* The settings of MfxC2EncoderComponent: the parameters of the client     *)
(* (m_bitrate, m_profileLevel, ...), m_mfxVideoParamsConfig made from      *)
(* them, and those the hardware encoder was opened with.  A config carries *)
(* the first into the second, a query the second into the first, InitEncoder *)
(* the second into the third; a bitrate that comes while works may be      *)
(* under way travels through the working queue and takes the third back    *)
(* into the second before it changes both.                                 *)
(*                                                                         *)
(* The queue is in order, and one call of config has one parameter here.   *)
(* MfxC2Encoder has the steps of Drain, and the works.                     *)
(***************************************************************************)
EXTENDS EncoderLevels, FiniteSets

CONSTANTS Encoders,   \* which of the types below
          Sizes, Rates, Bitrates, Periods, LevelsAsked, Gops,   \* what the client asks for
          MayFail,    \* which of "getVideoParam", "reset", "init" may fail
          MaxConfigs, \* bound: calls of config and query
          MaxTasks    \* bound: tasks in the working queue

VARIABLES
  type,     \* m_encoderType
  c2,       \* the parameters: size, rate, bitrate (bit/s), mode, level, period (ms), refresh
  mfx,      \* m_mfxVideoParamsConfig: size, rate, kbps, method, level, gop, idr
  signal,   \* m_signalInfo: the colours, "none" if not described
  encoder,  \* what m_mfxEncoder works with, NoEncoder if there is none
  inside,   \* a work is in m_pendingWorks
  ctrl,     \* EncoderControl's m_ctrlOnce asks for a sync frame
  tasks,    \* the working queue
  run,      \* "stopped", "running", "released"
  configs,
  asked,    \* the bitrate the client asked for last (kbit/s), 0 if something came between
  chosen    \* the level is one the client set, and no bitrate came through the queue since
settingVars == <<type, c2, mfx, signal, encoder, inside, ctrl, tasks, run, configs, asked, chosen>>

-----------------------------------------------------------------------------
(* The encoder types and their defaults *)

\* getMaxMinResolutionSupported
MinMax == [AV1 |-> <<176, 4096>>, H264 |-> <<128, 4096>>, H265 |-> <<176, 8192>>, VP9 |-> <<128, 8192>>]

\* The parameters all types have, and m_profileLevel of each.
CommonParams(least, level) ==
    [size |-> <<least, least>>, rate |-> 1, bitrate |-> 64000, mode |-> "variable", level |-> level,
     period |-> 1000, refresh |-> 0]
DefaultLevel == [AV1 |-> Main(530), H264 |-> Main(520), H265 |-> Main(600), VP9 |-> Main(500)]
SetterLevel == [AV1 |-> Main(530), H264 |-> Main(520), H265 |-> Main(510), VP9 |-> Main(500)]

\* mfx_set_RateControlMethod: the method brings its own bitrate.
RateControlMethod(p, method) ==
    [p EXCEPT !.method = method,
              !.kbps = CASE method = "CQP" -> @
                         [] method # "CQP" /\ type = "H264" -> 2222
                         [] OTHER -> 3000]

\* mfx_set_defaults_mfxFrameInfo and mfx_set_defaults_mfxVideoParam_enc, on memory set to zero
FrameInfo == [size |-> <<320, 240>>, rate |-> 30]
DefaultParams ==
    RateControlMethod([size |-> FrameInfo.size, rate |-> FrameInfo.rate, kbps |-> 0, method |-> "none",
                       level |-> CASE type = "H264" -> Main(510) [] type = "H265" -> Main(600)
                                   [] OTHER -> Unknown,
                       gop |-> IF type = "H264" THEN 15 ELSE 16, idr |-> 0], "CBR")

NoEncoder == [opened |-> FALSE]

Init == /\ type \in Encoders
        /\ c2 = CommonParams(MinMax[type][1], DefaultLevel[type])
        /\ mfx = DefaultParams /\ signal = "none"
        /\ encoder = NoEncoder /\ inside = FALSE /\ ctrl = FALSE /\ tasks = <<>>
        /\ run = "stopped" /\ configs = 0 /\ asked = 0 /\ chosen = FALSE

-----------------------------------------------------------------------------
(* Setters *)

\* A width or height that is not supported leaves the old one; the frame is aligned.
Align16(n) == ((n + 15) \div 16) * 16
SizeSupported(n) == n >= MinMax[type][1] /\ n <= MinMax[type][2] /\ n % 2 = 0
SizeSetter(old, s) == [i \in {1, 2} |-> IF SizeSupported(s[i]) THEN s[i] ELSE old[i]]
BitrateSetter(b) == IF b <= 4096 THEN 4096 ELSE b
ProfileLevelSetter(l) == IF l \in Levels(type) THEN l ELSE SetterLevel[type]
IntraRefreshSetter(period) == IF period < 1 THEN 0 ELSE period

\* The first layer decides for each of them; at most one B frame.
GopSetter(layers) ==
    [i \in DOMAIN layers |->
       IF layers[1].type = "PB" /\ layers[1].count > 1 THEN [layers[i] EXCEPT !.count = 1] ELSE layers[i]]

\* ParseGop: the product of the layers; an infinite one sets it to zero for good.  No product
\* exceeds 32 bits here.
Infinite == 1000000  \* UINT32_MAX
SyncInterval(layers) ==
    LET f[k \in 0 .. Len(layers)] ==
          IF k = 0 THEN 1
          ELSE IF layers[k].count = Infinite THEN 0 ELSE f[k - 1] * (layers[k].count + 1)
    IN f[Len(layers)]

\* getSyncFramePeriod_l, to the nearest frame, at least one
SyncFramePeriod(period, rate) ==
    LET frames == (period * rate + 500) \div 1000 IN IF frames < 1 THEN 1 ELSE frames

-----------------------------------------------------------------------------
(* UpdateC2ParamToMfx *)

\* Slip: the level stays.
AdjustLevelNot(c, m) == [c2 |-> c, mfx |-> m]

\* AdjustLevel.  VP9 has no level on the other side.
AdjustLevel(c, m) ==
    LET least == GetMinLevel(type, Demand(type, m.size, m.rate, m.kbps))
    IN IF ~Below(c.level, least) THEN [c2 |-> c, mfx |-> m]
       ELSE IF type = "VP9" THEN [c2 |-> [c EXCEPT !.level = least], mfx |-> m]
       ELSE [c2 |-> c, mfx |-> [m EXCEPT !.level = LevelAndroidToMfx(type, least, @)]]

\* The end of DoUpdateMfxParam.
Config(c, m) ==
    /\ run # "released" /\ configs < MaxConfigs
    /\ configs' = configs + 1
    /\ LET adjusted == AdjustLevel(c, m) IN c2' = adjusted.c2 /\ mfx' = adjusted.mfx
    /\ UNCHANGED <<type, encoder, run>>

Quiet == UNCHANGED <<inside, ctrl, tasks>>

ConfigSize(s) ==
    /\ LET size == SizeSetter(c2.size, s)
       IN Config([c2 EXCEPT !.size = size], [mfx EXCEPT !.size = [i \in {1, 2} |-> Align16(size[i])]])
    /\ Quiet /\ UNCHANGED <<signal, asked, chosen>>

ConfigFrameRate(r) ==
    /\ LET most == CASE type = "H264" -> 172 [] type = "H265" -> 300 [] OTHER -> r
       IN Config([c2 EXCEPT !.rate = r], [mfx EXCEPT !.rate = IF r > most THEN most ELSE r])
    /\ Quiet /\ UNCHANGED <<signal, asked, chosen>>

\* Drain(nullptr) on the caller's thread, then the task; the encoder control may be used up by
\* the drain of a pending work.
ConfigBitrate(b) ==
    LET c == [c2 EXCEPT !.bitrate = BitrateSetter(b)]
        kbps == (c.bitrate \div 1000) % 65536  \* mfxU16
    IN /\ CASE mfx.method = "CQP" -> Config(c, mfx) /\ Quiet /\ asked' = 0
            [] mfx.method # "CQP" /\ run = "stopped" ->
                 Config(c, [mfx EXCEPT !.kbps = kbps]) /\ Quiet /\ asked' = kbps
            [] OTHER -> /\ Len(tasks) < MaxTasks
                        /\ Config(c, mfx)
                        /\ inside' = FALSE /\ ctrl' = (ctrl /\ ~inside)
                        /\ tasks' = Append(tasks, [op |-> "bitrate", kbps |-> kbps])
                        /\ asked' = kbps
       /\ UNCHANGED <<signal, chosen>>

Methods == [const |-> "CBR", variable |-> "VBR", ignore |-> "CQP"]
ConfigBitrateMode(mode) ==
    /\ Config([c2 EXCEPT !.mode = mode], RateControlMethod(mfx, Methods[mode]))
    /\ asked' = 0
    /\ Quiet /\ UNCHANGED <<signal, chosen>>

ConfigProfileLevel(l) ==
    /\ LET level == ProfileLevelSetter(l)
       IN Config([c2 EXCEPT !.level = level], [mfx EXCEPT !.level = LevelAndroidToMfx(type, level, @)])
    /\ chosen' = TRUE
    /\ Quiet /\ UNCHANGED <<signal, asked>>

\* Intra refresh is kept and not used.
ConfigGop(layers, refresh) ==
    /\ LET sync == SyncInterval(GopSetter(layers))
       IN Config([c2 EXCEPT !.refresh = IntraRefreshSetter(refresh)],
                 IF sync > 0 THEN [mfx EXCEPT !.idr = sync] ELSE mfx)
    /\ Quiet /\ UNCHANGED <<signal, asked, chosen>>

ConfigSyncPeriod(p) ==
    /\ Config([c2 EXCEPT !.period = p], [mfx EXCEPT !.gop = SyncFramePeriod(p, mfx.rate)])
    /\ Quiet /\ UNCHANGED <<signal, asked, chosen>>

\* A request for a sync frame goes through the queue.
ConfigRequestSync ==
    /\ Len(tasks) < MaxTasks
    /\ Config(c2, mfx)
    /\ tasks' = Append(tasks, [op |-> "sync", kbps |-> 0])
    /\ UNCHANGED <<signal, inside, ctrl, asked, chosen>>

\* ColorAspectsSetter, setColorAspects_l
ConfigColorAspects(colour) ==
    /\ Config(c2, mfx)
    /\ signal' = colour
    /\ Quiet /\ UNCHANGED <<asked, chosen>>

-----------------------------------------------------------------------------
(* UpdateMfxParamToC2; what is not listed is not copied. *)

Query(c) == /\ run # "released" /\ configs < MaxConfigs
            /\ configs' = configs + 1
            /\ c2' = c
            /\ UNCHANGED <<type, mfx, signal, encoder, inside, ctrl, tasks, run, asked, chosen>>

QueryFrameRate == Query([c2 EXCEPT !.rate = mfx.rate])
QueryBitrate == Query([c2 EXCEPT !.bitrate = mfx.kbps * 1000])
QueryProfileLevel == Query([c2 EXCEPT !.level = LevelMfxToAndroid(type, mfx.level, @)])

\* Frames, where the client gave a time.
QuerySyncFrameInterval == Query([c2 EXCEPT !.period = mfx.gop])

-----------------------------------------------------------------------------
(* DoStart, the working thread, DoStop *)

DoStart == /\ run = "stopped"
           /\ run' = "running"
           /\ UNCHANGED <<type, c2, mfx, signal, encoder, inside, ctrl, tasks, configs, asked, chosen>>

\* A frame, with a bitrate among its tunings or 0.
Queue(kbps) == /\ run = "running" /\ Len(tasks) < MaxTasks
               /\ tasks' = Append(tasks, [op |-> "frame", kbps |-> kbps])
               /\ asked' = IF kbps # 0 THEN kbps ELSE asked
               /\ UNCHANGED <<type, c2, mfx, signal, encoder, inside, ctrl, run, configs, chosen>>

\* AttachExtBuffer gives the colours to those that can code them.
Opened(colours) == [opened |-> TRUE, params |-> mfx,
                    colours |-> IF type = "VP9" THEN "none" ELSE colours]

\* Slip: the settings that are asked for.
ActualAsked(enc, params) == params

\* GetVideoParam: the settings the encoder really has.
Actual(enc, params) == IF enc.opened THEN enc.params ELSE params

\* The bitrate on them; Reset.
Update(enc, params, kbps, fail) ==
    LET now == [Actual(enc, params) EXCEPT !.kbps = kbps]
    IN IF enc.opened /\ fail = "getVideoParam" THEN [mfx |-> params, encoder |-> enc]
       ELSE [mfx |-> now, encoder |-> IF enc.opened /\ fail # "reset" THEN [enc EXCEPT !.params = now] ELSE enc]

Fails == {"none"} \cup MayFail

UpdateBitrate(fail) ==
    /\ run = "running" /\ tasks # <<>> /\ Head(tasks).op = "bitrate" /\ fail # "init"
    /\ LET u == Update(encoder, mfx, Head(tasks).kbps, fail) IN mfx' = u.mfx /\ encoder' = u.encoder
    /\ asked' = IF fail = "none" THEN asked ELSE 0
    /\ chosen' = FALSE
    /\ tasks' = Tail(tasks)
    /\ UNCHANGED <<type, c2, signal, inside, ctrl, run, configs>>

\* EncoderControl::Modify
Modify == /\ run = "running" /\ tasks # <<>> /\ Head(tasks).op = "sync"
          /\ ctrl' = TRUE /\ tasks' = Tail(tasks)
          /\ UNCHANGED <<type, c2, mfx, signal, encoder, inside, run, configs, asked, chosen>>

\* InitEncoder, ApplyWorkTunings (a config and the update at once), AcquireEncodeCtrl.
DoWork(fail, stays) ==
    /\ run = "running" /\ tasks # <<>> /\ Head(tasks).op = "frame"
    /\ LET enc == IF encoder.opened THEN encoder ELSE Opened(signal)
           tuned == Head(tasks).kbps # 0 /\ mfx.method # "CQP"
           c == [c2 EXCEPT !.bitrate = IF Head(tasks).kbps # 0 THEN Head(tasks).kbps * 1000 ELSE @]
           u == IF tuned THEN Update(enc, mfx, Head(tasks).kbps, fail) ELSE [mfx |-> mfx, encoder |-> enc]
       IN IF fail = "init" /\ ~encoder.opened
          THEN /\ stays = FALSE
               /\ asked' = IF Head(tasks).kbps # 0 THEN 0 ELSE asked
               /\ UNCHANGED <<c2, mfx, encoder, inside, ctrl, chosen>>
          ELSE /\ encoder' = u.encoder
               /\ IF Head(tasks).kbps # 0
                  THEN c2' = AdjustLevel(c, u.mfx).c2 /\ mfx' = AdjustLevel(c, u.mfx).mfx
                  ELSE c2' = c2 /\ mfx' = mfx
               /\ asked' = IF Head(tasks).kbps = 0 \/ (tuned /\ fail = "none") THEN asked ELSE 0
               /\ chosen' = (chosen /\ ~tuned)
               /\ inside' = stays /\ ctrl' = FALSE
    /\ tasks' = Tail(tasks)
    /\ UNCHANGED <<type, signal, run, configs>>

\* The working queue does what it has, or drops it; FreeEncoder.
DoStop(abort) ==
    /\ run = "running" /\ (tasks = <<>> \/ abort)
    /\ run' = "stopped" /\ tasks' = <<>> /\ encoder' = NoEncoder /\ inside' = FALSE
    /\ asked' = IF tasks = <<>> THEN asked ELSE 0
    /\ UNCHANGED <<type, c2, mfx, signal, ctrl, configs, chosen>>

Release == /\ run = "stopped" /\ run' = "released"
           /\ UNCHANGED <<type, c2, mfx, signal, encoder, inside, ctrl, tasks, configs, asked, chosen>>

Next == \/ \E s \in Sizes : ConfigSize(s)
        \/ \E r \in Rates : ConfigFrameRate(r)
        \/ \E b \in Bitrates : ConfigBitrate(b)
        \/ \E mode \in DOMAIN Methods : ConfigBitrateMode(mode)
        \/ \E l \in LevelsAsked : ConfigProfileLevel(l)
        \/ \E layers \in Gops, refresh \in {10} : ConfigGop(layers, refresh)
        \/ \E p \in Periods : ConfigSyncPeriod(p)
        \/ ConfigRequestSync
        \/ \E colour \in {"bt709"} : ConfigColorAspects(colour)
        \/ QueryFrameRate \/ QueryBitrate \/ QueryProfileLevel \/ QuerySyncFrameInterval
        \/ DoStart \/ Release
        \/ \E b \in Bitrates \cup {0} : Queue(b \div 1000)
        \/ \E fail \in Fails : UpdateBitrate(fail)
        \/ Modify
        \/ \E fail \in Fails, stays \in BOOLEAN : DoWork(fail, stays)
        \/ \E abort \in BOOLEAN : DoStop(abort)

Spec == Init /\ [][Next]_settingVars

-----------------------------------------------------------------------------
(* Properties *)

EncoderSettingsTypeOK ==
    /\ type \in Encoders /\ run \in {"stopped", "running", "released"}
    /\ c2.level \in Levels(type) /\ mfx.level \in Levels(type) \cup {Unknown}
    /\ c2.bitrate \in Nat /\ mfx.kbps \in Nat \ {0}
    /\ mfx.gop \in Nat \ {0}
    /\ encoder.opened \in BOOLEAN /\ {inside, ctrl, chosen} \subseteq BOOLEAN
    /\ Len(tasks) <= MaxTasks /\ configs <= MaxConfigs /\ asked \in Nat
    /\ encoder.opened => run = "running"

\* Once the client has set a level, the stream is given one that carries its size, rate and
\* bitrate, whatever is configured in whatever order, until a bitrate has come through the queue,
\* which no AdjustLevel follows.
LevelEnough ==
    chosen =>
        ~Below(IF type = "VP9" THEN c2.level ELSE mfx.level,
               GetMinLevel(type, Demand(type, mfx.size, mfx.rate, mfx.kbps)))

\* The bitrate the client asked for last is the one encoded with, now and after a stop and a
\* start, as soon as no change is under way (the update of DoUpdateMfxParam).
BitrateInForce ==
    (asked # 0 /\ \A k \in DOMAIN tasks : tasks[k].kbps = 0) =>
        mfx.kbps = asked /\ (encoder.opened => encoder.params.kbps = asked)

\* An open encoder changes its bitrate and nothing else, whatever the client configures meanwhile:
\* what has been configured waits for the next one ("retrieve the actual working parameters by
\* MFXVideoENCODE_GetVideoParam function before making any changes to bitrate settings").
OnlyBitrateChanges ==
    [][encoder.opened /\ encoder'.opened =>
         [encoder'.params EXCEPT !.kbps = 0] = [encoder.params EXCEPT !.kbps = 0]
         /\ encoder'.colours = encoder.colours]_settingVars
=============================================================================
