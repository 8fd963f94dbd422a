--------------------------- MODULE DecoderSettings ---------------------------
(***************************************************************************)
(* The settings of MfxC2DecoderComponent: what the client configures and   *)
(* queries, what the header of a stream says, and how the decoder is       *)
(* opened with both.  The C2 parameters (m_size, m_maxSize, ...) and       *)
(* m_mfxVideoParams are two copies: a query refreshes the first from the   *)
(* second, a config the second from the first, a finished frame both from  *)
(* its surface, and tells the client of a difference.                      *)
(*                                                                         *)
(* WaitWork is one step: the frames are done before the decoder is opened  *)
(* or closed (Drain, unless ten seconds pass), and what a client configures*)
(* between its lines it could have configured after them.                  *)
(*                                                                         *)
(* A picture is square here: the height follows the rules of the width.    *)
(* One colour aspect stands for primaries, transfer and matrix.            *)
(***************************************************************************)
EXTENDS Naturals, Sequences, FiniteSets

CONSTANTS Decoders,     \* which of the decoder types below
          ClientSizes,  \* sizes the client asks for
          Streams,      \* [size, tenBit, suggested, range, colour, format, described]
          MaxSessions,  \* bound: sessions opened
          MaxOpenings   \* bound: calls of InitDecoder

VARIABLES
  type,         \* m_decoderType
  size, told,   \* m_size, and what the client last configured, queried or was told of it
  maxSize, maxInput,          \* m_maxSize, m_maxInputSize
  frameSize, tenBit,          \* m_mfxVideoParams.mfx.FrameInfo: Width, FourCC is P010
  pattern,      \* IOPattern: "video" or "system" memory
  eightBit,     \* m_pixelFormat is YCBCR_420_888
  conversion, vpp, \* m_vppConversion, and the session m_vpp is made on, 0 if it is null
  surfaces,     \* Info.Width of the surfaces the decoder has
  default, out, \* m_defaultColorAspects, m_outColorAspects: [range, colour]
  updates,      \* m_updatingC2Configures
  known,        \* the colours in the last configUpdate the client has
  run,          \* "stopped", "running", "released"
  session, opened,            \* the session, 0 if none; sessions opened
  allocatorSet, allocatorOf, allocator,  \* m_bAllocatorSet, the session that has it, m_allocator # null
  initialized, once,          \* m_bInitialized, m_bInitialized_once
  openings,
  stream        \* what the last header said, <<>> before it
settingVars == <<type, size, told, maxSize, maxInput, frameSize, tenBit, pattern, eightBit, default,
                 conversion, vpp, surfaces, out, updates, known, run, session, opened, allocatorSet,
                 allocatorOf, allocator, initialized, once, openings, stream>>
frameVars == <<conversion, vpp, surfaces>>
clientVars == <<size, told, maxSize, maxInput, eightBit, default>>
sessionVars == <<run, session, opened, allocatorSet, allocatorOf, allocator>>

-----------------------------------------------------------------------------
(* The parameters of each codec: the largest picture, the frames that may be late (m_uOutputDelay),
   the profiles and the levels, and the defaults of both. *)

Params(max, dpb, profiles, profile, levels, level) ==
    [max |-> max, delay |-> dpb + 1 + 1, profiles |-> profiles, profile |-> profile,
     levels |-> levels, level |-> level]

AVC == Params(4096, 16, {"BASELINE", "CONSTRAINED_BASELINE", "MAIN", "CONSTRAINED_HIGH",
                         "PROGRESSIVE_HIGH", "HIGH"}, "CONSTRAINED_BASELINE",
              {"1", "1B", "1.1", "1.2", "1.3", "2", "2.1", "2.2", "3", "3.1", "3.2", "4", "4.1",
               "4.2", "5", "5.1", "5.2"}, "5.2")
HEVC == Params(8192, 16, {"MAIN", "MAIN_STILL", "MAIN_10"}, "MAIN",
               {"M1", "M2", "M2.1", "M3", "M3.1", "M4", "M4.1", "H4", "H4.1", "M5", "M5.1", "M5.2",
                "H5", "H5.1", "H5.2", "M6", "M6.1", "M6.2", "H6", "H6.1", "H6.2"}, "M5.1")
VP9 == Params(8192, 9, {"0", "1", "2", "3"}, "0",
              {"1", "1.1", "2", "2.1", "3", "3.1", "4", "4.1", "5", "5.1"}, "5")
VP8 == Params(4096, 8, {"0"}, "0", {"UNUSED"}, "UNUSED")
MPEG2 == Params(2048, 4, {"SIMPLE", "MAIN"}, "MAIN", {"LOW", "MAIN", "HIGH_1440"}, "MAIN")
AV1 == Params(8192, 18, {"0", "1"}, "0",
              {"2", "2.1", "2.2", "2.3", "3", "3.1", "3.2", "3.3", "4", "4.1", "4.2", "4.3", "5",
               "5.1", "5.2", "5.3", "6", "6.1", "6.2", "6.3"}, "2")
Codec == [H264 |-> AVC, H264_SECURE |-> AVC, H265 |-> HEVC, H265_SECURE |-> HEVC, VP9 |-> VP9,
          VP8 |-> VP8, MPEG2 |-> MPEG2, AV1 |-> AV1]

\* Which of them RegisterClass gives a component.
Registered == {"H264", "H265", "VP9", "VP8", "MPEG2", "AV1"} \union {"H264_SECURE", "H265_SECURE"}

\* InitFrameConstructor and ResetSettings know every type.
FrameConstructor == [H264 |-> "AVC", H264_SECURE |-> "AVC", H265 |-> "HEVC", H265_SECURE |-> "HEVC",
                     VP9 |-> "VP9", VP8 |-> "VP8", MPEG2 |-> "MP2", AV1 |-> "AV1"]

MinSize == 176
MinInput == 1024 * 1024
Larger(a, b) == IF a > b THEN a ELSE b
Smaller(a, b) == IF a < b THEN a ELSE b
Align16(n) == ((n + 15) \div 16) * 16

-----------------------------------------------------------------------------
(* Setters *)

\* A value the field does not support is answered BAD_VALUE and the old one stays.
SizeSetter(old, new) == IF new >= MinSize /\ new <= Codec[type].max /\ new % 2 = 0 THEN new ELSE old
MaxPictureSizeSetter(max, s) == Smaller(Larger(max, s), 8192)
MaxInputSizeSetter(max) == Larger(((max + 63) \div 64) * ((max + 63) \div 64) * 3072, MinInput)

\* The coded colours of a stream, and the client's default for what is not coded.
ColorAspectsSetter(def, coded) ==
    [f \in {"range", "colour"} |-> IF coded[f] = "unspecified" THEN def[f] ELSE coded[f]]

-----------------------------------------------------------------------------
Init == /\ type \in Decoders
        /\ size = MinSize /\ told = MinSize /\ maxSize = MinSize /\ maxInput = MinInput
        /\ frameSize = 320 /\ tenBit = FALSE /\ pattern = "video" /\ eightBit = TRUE
        /\ conversion = FALSE /\ vpp = 0 /\ surfaces = {}
        /\ default = [range |-> "unspecified", colour |-> "unspecified"] /\ out = default
        /\ updates = <<>> /\ known = default
        /\ run = "stopped" /\ session = 1 /\ opened = 1
        /\ allocatorSet = FALSE /\ allocatorOf = 0 /\ allocator = FALSE
        /\ initialized = FALSE /\ once = FALSE /\ openings = 0 /\ stream = <<>>

-----------------------------------------------------------------------------
(* config_vb and query_vb *)

\* m_size and what depends on it; then DoUpdateMfxParam.
ConfigSize(s) ==
    /\ run # "released"
    /\ size' = SizeSetter(size, s) /\ told' = size'
    /\ maxSize' = MaxPictureSizeSetter(maxSize, size')
    /\ maxInput' = MaxInputSizeSetter(maxSize')
    /\ frameSize' = size'
    /\ UNCHANGED <<type, tenBit, pattern, eightBit, default, out, updates, known, initialized, once,
                   openings, stream>>
    /\ UNCHANGED <<frameVars, sessionVars>>

\* The pattern follows the client's usage until the decoder is opened for the first time.
ConfigUsage(cpu) ==
    /\ run # "released"
    /\ pattern' = IF once THEN pattern ELSE IF cpu THEN "system" ELSE "video"
    /\ UNCHANGED <<type, frameSize, tenBit, out, updates, known, initialized, once, openings, stream>>
    /\ UNCHANGED <<clientVars, frameVars, sessionVars>>

\* m_inColorAspects, which no stream writes; nor does a client here (bound).
InColours == [range |-> "limited", colour |-> "unspecified"]

\* Parameters that only the C2 side keeps.  The output colours depend on the default ones: their
\* setter runs again when these change.
ConfigOther(eight, colour) ==
    /\ run # "released"
    /\ eightBit' = eight /\ default' = [default EXCEPT !.colour = colour]
    /\ out' = IF type = "VP8" \/ default' = default THEN out
              ELSE ColorAspectsSetter(default', InColours)
    /\ UNCHANGED <<type, size, told, maxSize, maxInput, frameSize, tenBit, pattern, updates,
                   known, initialized, once, openings, stream>>
    /\ UNCHANGED <<frameVars, sessionVars>>

\* UpdateC2Param, then the answer.  Only the size is copied, past its setter.
QuerySize ==
    /\ run # "released"
    /\ size' = frameSize /\ told' = frameSize
    /\ UNCHANGED <<type, maxSize, maxInput, eightBit, default, frameSize, tenBit, pattern, out,
                   updates, known, initialized, once, openings, stream>>
    /\ UNCHANGED <<frameVars, sessionVars>>

-----------------------------------------------------------------------------
(* DoStart, DoStop, Release *)

\* Slip: m_bAllocatorSet is left from the last run.
AllocatorSetKept == allocatorSet

\* The new session has no allocator.
AllocatorSetAnew == FALSE

\* MFXClose and InitSession; whatever fails, the answer is C2_OK, but no thread runs.
DoStart(fails) ==
    /\ run = "stopped" /\ opened < MaxSessions
    /\ allocatorSet' = AllocatorSetAnew
    /\ IF fails THEN run' = "halted" /\ session' = 0 /\ UNCHANGED opened
       ELSE run' = "running" /\ session' = opened + 1 /\ opened' = opened + 1
    /\ UNCHANGED <<type, frameSize, tenBit, pattern, out, updates, known, allocatorOf, allocator,
                   initialized, once, openings, stream>>
    /\ UNCHANGED <<clientVars, frameVars>>

\* m_vppConversion stays for the next stream, the filter does not.
FreeDecoder == /\ initialized' = FALSE /\ surfaces' = {}
               /\ vpp' = IF conversion' THEN 0 ELSE vpp

DoStop ==
    /\ run \in {"running", "halted"}
    /\ run' = "stopped" /\ UNCHANGED conversion /\ FreeDecoder
    /\ UNCHANGED <<type, frameSize, tenBit, pattern, out, updates, known, session, opened,
                   allocatorSet, allocatorOf, allocator, once, openings, stream>>
    /\ UNCHANGED clientVars

Release ==
    /\ run = "stopped"
    /\ run' = "released" /\ session' = 0 /\ allocator' = FALSE
    /\ UNCHANGED <<type, frameSize, tenBit, pattern, out, updates, known, opened, allocatorSet,
                   allocatorOf, initialized, once, openings, stream>>
    /\ UNCHANGED <<clientVars, frameVars>>

-----------------------------------------------------------------------------
(* InitDecoder, HandleFormatChange *)

\* VideoFormat 5, limited range and no description: nothing was coded.
Coded(s) == IF s.format = 5 /\ s.range = "limited" /\ ~s.described
            THEN [range |-> "unspecified", colour |-> "unspecified"]
            ELSE [range |-> s.range, colour |-> s.colour]

\* m_outColorAspects, and the update that waits for the next finished frame.
UpdateColorAspectsFromBitstream(s) ==
    IF type = "VP8" THEN UNCHANGED <<out, updates>>
    ELSE /\ out' = ColorAspectsSetter(default, Coded(s))
         /\ updates' = Append(updates, out')

\* Too few buffers for the stream: MFX_ERR_MORE_SURFACE.
DelayIsEnough(s) == Codec[type].delay >= s.suggested

\* DecodeHeader or QueryIOSurf fails; the size read so far stays, aligned.
InitDecoderNoHeader(s) ==
    /\ run = "running" /\ ~initialized /\ openings < MaxOpenings
    /\ frameSize' = IF DelayIsEnough(s) THEN Align16(frameSize) ELSE Align16(s.size)
    /\ tenBit' = IF DelayIsEnough(s) THEN tenBit ELSE s.tenBit
    /\ stream' = IF DelayIsEnough(s) THEN stream ELSE <<s>>
    /\ openings' = openings + 1
    /\ UNCHANGED conversion /\ FreeDecoder
    /\ UNCHANGED <<type, pattern, out, updates, known, once>>
    /\ UNCHANGED <<clientVars, sessionVars>>

\* InitVPP: 10-bit frames for a client that asks for 8 bits.
NeedsVPP(s) == eightBit /\ s.tenBit
Filter(s) == IF NeedsVPP(s) THEN session ELSE vpp

\* bq: the blocks of the client come from a surface; without one the frames stay in system memory.
InitDecoder(s, bq, fail) ==
    /\ run = "running" /\ ~initialized /\ openings < MaxOpenings /\ DelayIsEnough(s)
    /\ fail = "vpp" => NeedsVPP(s)
    /\ openings' = openings + 1 /\ stream' = <<s>>
    /\ frameSize' = Align16(s.size) /\ tenBit' = s.tenBit
    /\ UpdateColorAspectsFromBitstream(s)
    /\ pattern' = IF pattern = "video" /\ bq THEN "video" ELSE "system"
    /\ LET set == pattern' = "video" /\ ~allocatorSet
       IN /\ fail = "allocator" => set
          /\ allocator' = (set \/ allocator)
          /\ allocatorSet' = ((set /\ fail # "allocator") \/ allocatorSet)
          /\ allocatorOf' = IF set /\ fail # "allocator" THEN session ELSE allocatorOf
    /\ once' = (once \/ fail \in {"none", "vpp"})
    /\ conversion' = (conversion \/ (NeedsVPP(s) /\ fail \in {"none", "vpp"}))
    /\ IF fail = "none"
       THEN initialized' = TRUE /\ vpp' = Filter(s) /\ UNCHANGED surfaces
       ELSE FreeDecoder
    /\ UNCHANGED <<type, known, run, session, opened>>
    /\ UNCHANGED clientVars

\* Another header in the stream: the hardware decoder is closed, to be opened again, and with it
\* all else if that fails.
HandleFormatChange(s, closed) ==
    /\ run = "running" /\ initialized
    /\ frameSize' = s.size /\ tenBit' = s.tenBit
    /\ UNCHANGED conversion
    /\ IF closed THEN initialized' = FALSE /\ surfaces' = {} /\ UNCHANGED vpp ELSE FreeDecoder
    /\ UNCHANGED <<type, pattern, out, updates, known, once, openings, stream>>
    /\ UNCHANGED <<clientVars, sessionVars>>

\* A new surface is as large as the settings say by now.
AllocateFrame ==
    /\ run = "running" /\ initialized /\ frameSize \notin surfaces
    /\ surfaces' = surfaces \cup {frameSize}
    /\ UNCHANGED <<type, frameSize, tenBit, pattern, out, updates, known, initialized, once, openings,
                   stream, conversion, vpp>>
    /\ UNCHANGED <<clientVars, sessionVars>>

\* The end of WaitWork: a frame is done, and its surface says what is so; the client is told what
\* changed if there is a work of its timestamp.  A conversion without a filter ends the process.
WaitWork(width, found) ==
    /\ run = "running" /\ width \in surfaces /\ (conversion => vpp # 0)
    /\ frameSize' = width
    /\ IF found
       THEN /\ size' = width /\ told' = IF size # width THEN width ELSE told
            /\ known' = IF updates = <<>> THEN known ELSE updates[Len(updates)]
            /\ updates' = <<>>
       ELSE UNCHANGED <<size, told, known, updates>>
    /\ UNCHANGED <<type, maxSize, maxInput, eightBit, default, tenBit, pattern, out, initialized, once,
                   openings, stream>>
    /\ UNCHANGED <<frameVars, sessionVars>>

Next == \/ \E s \in ClientSizes : ConfigSize(s)
        \/ \E cpu \in BOOLEAN : ConfigUsage(cpu)
        \/ ConfigOther(FALSE, "client")  \* bound: the default format is not asked for again
        \/ QuerySize
        \/ \E fails \in BOOLEAN : DoStart(fails)
        \/ DoStop \/ Release
        \/ \E s \in Streams : InitDecoderNoHeader(s)
        \/ \E s \in Streams, closed \in BOOLEAN : HandleFormatChange(s, closed)
        \/ \E s \in Streams, bq \in BOOLEAN, fail \in {"none", "allocator", "init", "vpp"} :
             InitDecoder(s, bq, fail)
        \/ AllocateFrame
        \/ \E width \in surfaces, found \in BOOLEAN : WaitWork(width, found)
Spec == Init /\ [][Next]_settingVars

-----------------------------------------------------------------------------
(* Properties *)

\* The state has the shape of the code's members.
SettingsTypeOK ==
    /\ type \in Decoders /\ Decoders \subseteq Registered /\ Registered = DOMAIN FrameConstructor
    /\ pattern \in {"video", "system"} /\ {eightBit, tenBit, initialized, once, conversion} \subseteq BOOLEAN
    /\ run \in {"stopped", "running", "halted", "released"}
    /\ session \in 0 .. opened /\ opened <= MaxSessions /\ {allocatorOf, vpp} \subseteq 0 .. opened
    /\ Codec[type].profile \in Codec[type].profiles /\ Codec[type].level \in Codec[type].levels
    /\ size <= 8192 /\ maxSize \in MinSize .. 8192 /\ maxInput >= MinInput

\* A decoder whose frames are surfaces of the client works on a session that has the allocator,
\* over every restart, failure to open and change of format.
AllocatorOnSession ==
    initialized /\ pattern = "video" => allocator /\ allocatorSet /\ allocatorOf = session

\* "Google requires the component to decode to 8-bit color format by default": frames of 10 bits
\* are converted, on the session that is open, over every restart, failure and change of format.
EightBitsByDefault ==
    initialized /\ eightBit /\ stream[1].tenBit => conversion /\ vpp = session

\* The colours coded in the stream, and for the others the client's own defaults.
OfTheStream(colours) ==
    LET coded == Coded(stream[1])
    IN /\ \A f \in {"range", "colour"} : coded[f] # "unspecified" => colours[f] = coded[f]
       /\ coded.colour = "unspecified" => colours.colour \in {"unspecified", "client"}

\* What the client of an open decoder was or will be told last of the colours is what its stream
\* says, although earlier streams, failed openings and other runs left updates behind.
ColoursAreTold ==
    initialized /\ type # "VP8" =>
        OfTheStream(IF updates = <<>> THEN known ELSE updates[Len(updates)])

\* Once opened for surfaces or for system memory, the decoder is never moved from system memory
\* to surfaces.
PatternStays == [][once /\ pattern = "system" => pattern' = "system"]_settingVars
=============================================================================
