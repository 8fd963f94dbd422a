------------------------------ MODULE MCLibrary ------------------------------
(* The parts around the two codecs, which call none of the others' modelled  *)
(* code: a behaviour is one of a single part, the others stay as they begin. *)
(* The bounds of a part stand with its instance, or are constants.           *)
EXTENDS Naturals, Sequences, FiniteSets, TLC

CONSTANTS Buffers, VppBuffers, Stores, Items, PoolThreads, NoItem, Binders, ComponentNames, SharedObjects,
          NoModule, Responses, InputFailures,
          PoolSize, VppSurfaces, Keeps,  \* of EncoderInput
          NoRoom, Bytes,                 \* of MfxFrameConstructor and StartCode
          MaxLoads, MaxResets, MaxBytes, MaxPools, MaxSurfaces, MaxElements, MaxDepth, MaxMade,
          MaxFrames, MaxStarts, MaxObjects, MaxVaFrames, MaxSessions, MaxOpenings, MaxConfigs, MaxTasks

VARIABLES
  part,
  codec, fc, phase, loads, resets, owed, given, dropped, since, clean, seeking, newest,
  stream, hevc,
  pool, owners, free, home, fresh, out, deleted, caller, deleter,
  surfaces, bufferOf, locked, hidden, converts, lockedSurfaces, fetch, flushing, tried, work,
  decoded, waiting, waiter, vppWork, removed, client, shown,
  parsingStatus, section, sectionStack, codecMap, currentCodec, open, elements, listed,
  registry, built, monitor, handles, thread, objects, started, made,
  layout, state, device, inputSession, inputOpened, video, inputAllocator, determined, conversion,
  vpp, surfacePool, openEncoder, read, retainTasks, retained, frames, starts,
  vaObjects, vaMade, response, mapping, vaGiven, image, faulted,
  decoderType, size, told, maxSize, maxInput, frameSize, tenBit, pattern, eightBit, default,
  vppConversion, filter, infos, outColours, updates, known, decoderRun, session, opened,
  allocatorSet, allocatorOf, allocator,
  initialized, once, openings, header,
  type, c2, mfx, signal, encoder, inside, ctrl, tasks, run, configs, asked, chosen

streamVars == <<codec, fc, phase, loads, resets, owed, given, dropped, since, clean, seeking, newest>>
scanVars == <<stream, hevc>>
poolVars == <<pool, owners, free, home, fresh, out, deleted, caller, deleter>>
surfaceVars == <<surfaces, bufferOf, locked, hidden, converts, lockedSurfaces, fetch, flushing,
                 tried, work, decoded, waiting, waiter, vppWork, removed, client, shown>>
xmlVars == <<parsingStatus, section, sectionStack, codecMap, currentCodec, open, elements, listed>>
storeVars == <<registry, built, monitor, handles, thread, objects, started, made>>
inputVars == <<layout, state, device, inputSession, inputOpened, video, inputAllocator,
               determined, conversion, vpp, surfacePool, openEncoder, read, retainTasks, retained,
               frames, starts>>
vaVars == <<vaObjects, vaMade, response, mapping, vaGiven, image, faulted>>
decoderVars == <<decoderType, size, told, maxSize, maxInput, frameSize, tenBit, pattern, eightBit,
                 default, vppConversion, filter, infos, outColours, updates, known, decoderRun, session,
                 opened, allocatorSet, allocatorOf, allocator, initialized, once, openings, header>>
encoderVars == <<type, c2, mfx, signal, encoder, inside, ctrl, tasks, run, configs, asked,
                 chosen>>
vars == <<part, streamVars, scanVars, poolVars, surfaceVars, xmlVars, storeVars, inputVars,
          vaVars, decoderVars, encoderVars>>

\* Samples as players send them: the configuration in two parts or whole, data with and without
\* headers of its own, an SEI in front of a picture.
Config == [none |-> {<<"header">>},
           avc  |-> {<<"sps">>, <<"pps">>},
           hevc |-> {<<"vps", "sps", "pps", "sei">>}]
Data == [none |-> {<<"slice", "slice">>},
         avc  |-> {<<"slice">>, <<"sps", "slice">>},
         hevc |-> {<<"sei", "slice">>, <<"sps", "pps", "slice">>}]
Stream == INSTANCE MfxFrameConstructor
            WITH Codecs <- {"none", "avc", "hevc"}

Scan == INSTANCE StartCode

Pool == INSTANCE MfxPool WITH Threads <- PoolThreads

Surfaces == INSTANCE DecoderSurfaces WITH conversion <- converts

Xml == INSTANCE MfxXmlParser
         WITH Codecs <- {"c2.intel.avc.decoder", "c2.intel.avc.encoder"}

Store == INSTANCE MfxC2ComponentStore
           WITH Threads <- Binders, Names <- ComponentNames, Modules <- SharedObjects

Input == INSTANCE EncoderInput
           WITH MayFail <- InputFailures,
                session <- inputSession, opened <- inputOpened, allocatorSet <- inputAllocator,
                pool <- surfacePool, encoder <- openEncoder, locked <- read, tasks <- retainTasks

Va == INSTANCE MfxVaFrameAllocator
        WITH MaxFrames <- MaxVaFrames, objects <- vaObjects, made <- vaMade, given <- vaGiven

\* A stream that codes no colours, and one with all that another can differ in.
DecoderStreams == {[size |-> 200, tenBit |-> FALSE, suggested |-> 8, range |-> "limited",
                    colour |-> "unspecified", format |-> 5, described |-> FALSE],
                   [size |-> 320, tenBit |-> TRUE, suggested |-> 11, range |-> "full",
                    colour |-> "bt2020", format |-> 5, described |-> TRUE]}
DecoderTypes == {"H264", "VP8"}
DecoderSizes == {320, 5000}
DecoderParams == INSTANCE DecoderSettings
  WITH Decoders <- DecoderTypes, ClientSizes <- DecoderSizes, Streams <- DecoderStreams,
       type <- decoderType, conversion <- vppConversion, vpp <- filter, surfaces <- infos,
       out <- outColours, run <- decoderRun, stream <- header

\* A size and a level that is too low for it, a bitrate and settings other than the defaults.
EncoderTypes == {"H264", "H265", "VP9"}
EncoderSizes == {<<3840, 2176>>, <<3840, 9000>>}
EncoderRates == {60}
EncoderBitrates == {2500000}
EncoderPeriods == {500}
EncoderLevelsAsked == {[tier |-> "main", number |-> 200]}
EncoderGops == {<<[type |-> "PB", count |-> 3], [type |-> "P", count |-> 4]>>}
EncoderFailures == {"getVideoParam", "reset", "init"}
EncoderParams == INSTANCE EncoderSettings
  WITH Encoders <- EncoderTypes, Sizes <- EncoderSizes, Rates <- EncoderRates,
       Bitrates <- EncoderBitrates, Periods <- EncoderPeriods, LevelsAsked <- EncoderLevelsAsked,
       Gops <- EncoderGops, MayFail <- EncoderFailures

Parts == {"stream", "scan", "pool", "surfaces", "xml", "store", "input", "va", "decoder", "encoder"}

\* A part with several initial states has one of them when it is not the one that moves.
Init == /\ part \in Parts
        /\ Stream!Init /\ (part # "stream" => codec = "none")
        /\ Scan!Init /\ (part # "scan" => hevc)
        /\ Pool!Init /\ Xml!Init
        /\ Surfaces!Init /\ (part # "surfaces" => ~converts)
        /\ IF part = "store" THEN Store!Init
           ELSE /\ registry = [n \in ComponentNames |-> <<>>] /\ built = [d \in SharedObjects |-> {}]
                /\ monitor = [n \in ComponentNames |-> 0] /\ handles = [d \in SharedObjects |-> 0]
                /\ thread = [t \in Binders |-> Store!Idle]
                /\ objects = {} /\ started = {} /\ made = 0
        /\ Input!Init /\ (part # "input" => layout = "rgb")
        /\ Va!Init
        /\ DecoderParams!Init /\ (part # "decoder" => decoderType = "VP8")
        /\ EncoderParams!Init /\ (part # "encoder" => type = "H264")

Next == /\ UNCHANGED part
        /\ IF part = "stream" THEN Stream!Next ELSE UNCHANGED streamVars
        /\ IF part = "scan" THEN Scan!Next ELSE UNCHANGED scanVars
        /\ IF part = "pool" THEN Pool!Next ELSE UNCHANGED poolVars
        /\ IF part = "surfaces" THEN Surfaces!Next ELSE UNCHANGED surfaceVars
        /\ IF part = "xml" THEN Xml!Next ELSE UNCHANGED xmlVars
        /\ IF part = "store" THEN Store!Next ELSE UNCHANGED storeVars
        /\ IF part = "input" THEN Input!Next ELSE UNCHANGED inputVars
        /\ IF part = "va" THEN Va!Next ELSE UNCHANGED vaVars
        /\ IF part = "decoder" THEN DecoderParams!Next ELSE UNCHANGED decoderVars
        /\ IF part = "encoder" THEN EncoderParams!Next ELSE UNCHANGED encoderVars

Spec == Init /\ [][Next]_vars

Symmetry == Permutations(Buffers) \cup Permutations(Stores)

-----------------------------------------------------------------------------
(* Properties: of each part its type invariant and what it must keep. *)

\* The data between two seeks reaches the decoder in order and whole, but for what a change of the
\* format drops, behind a header after each; the last header is the one replayed, and the start
\* codes the headers are found by are the first 00 00 01 (MfxC2FrameConstructor::Load, LoadHeader,
\* Reset, BstBufSync; ReadStartCode).
StreamKept == /\ part = "stream" => /\ Stream!StreamTypeOK /\ Stream!NothingLost
                                    /\ Stream!HeaderAfterSeek /\ Stream!LatestHeaderSaved
              /\ part = "scan" => Scan!FindsFirstStartCode

\* The comments of DoWork: after a change of the format the same frame is decoded again.  It does
\* not hold, Reset drops it (HandleFormatChange).
FrameUsedAgain == part = "stream" => Stream!FrameUsedAgain

\* However deleters and Reset interleave, an item is in one place, and none enters a pool whose
\* destructor has returned (MfxPool, MfxVaFramePoolAllocator::Reset).
PoolItemsKept == part = "pool" => Pool!PoolTypeOK /\ Pool!PoolItemsKept

\* The memory the decoder writes to is nobody else's, and what it may still read or output is held
\* (AllocateFrame, DecodeFrame, WaitWork, HandleFormatChange, Flush).
SurfacesNotOverwritten ==
    part = "surfaces" =>
        Surfaces!SurfaceTypeOK /\ Surfaces!NotOverwritten /\ Surfaces!KeptWhileLocked

\* Through includes and errors the parser knows where it is, and its table says what the documents
\* say (MfxXmlParser).
TableIsTheDocument ==
    part = "xml" => Xml!XmlTypeOK /\ Xml!SectionFollowsElements /\ Xml!TableIsTheDocument

\* However several threads create, start and delete, no more components of a name run than the
\* configuration allows, the count does not drift, and the code of a component stays loaded
\* (MfxC2ComponentStore, MfxC2ComponentsMonitor).
RunningWithinLimit ==
    part = "store" => /\ Store!StoreTypeOK /\ Store!RunningWithinLimit /\ Store!CountIsExact
                      /\ Store!LoadedWhileAlive

\* Over restarts and whatever fails, the conversion and the encoder live in the open session, and
\* a frame is kept while the hardware reads it (MfxC2EncoderComponent, MfxC2VppWrapp).
FrameKeptWhileRead ==
    part = "input" => Input!InputTypeOK /\ Input!OnOpenSession /\ Input!FrameKeptWhileRead

\* Every object of libva in use is alive and, unless a call failed half way, every one alive is in
\* use (MfxVaFrameAllocator).
VaObjectsAccounted ==
    part = "va" => Va!VaTypeOK /\ Va!UsedIsAlive /\ Va!NothingLeft /\ Va!TablesAgree

\* The decoder is opened for surfaces only on a session that has the allocator, frames of 10 bits
\* are converted for a client that wants 8, and the client is told the colours of the stream
\* (MfxC2DecoderComponent::InitDecoder, InitVPP, WaitWork).
DecoderReady ==
    part = "decoder" => /\ DecoderParams!SettingsTypeOK /\ DecoderParams!AllocatorOnSession
                        /\ DecoderParams!EightBitsByDefault /\ DecoderParams!ColoursAreTold

\* The bitrate asked for last is in force, and the level carries the stream
\* (MfxC2EncoderComponent::UpdateC2ParamToMfx).
EncoderAsAsked ==
    part = "encoder" => /\ EncoderParams!EncoderSettingsTypeOK /\ EncoderParams!LevelEnough
                        /\ EncoderParams!BitrateInForce

\* What an open codec was opened with stays, the bitrate apart (m_bInitialized_once of the decoder,
\* the bitrate task of the encoder).
OpenedStays == DecoderParams!PatternStays /\ EncoderParams!OnlyBitrateChanges
=============================================================================
