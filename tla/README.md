# Verification of the Codec2 components of MediaSDK_C2

MediaSDK_C2 is a set of Android Codec2 video components (AVC, HEVC, VP8, VP9, AV1, MPEG-2 decoders; AVC,
HEVC, VP9, AV1 encoders) on top of the Intel Media SDK / oneVPL. This directory holds TLA+ models of the
two codecs, of what stands around them, the TLC configurations that check them, and TLAPS proofs about them.
Paths below are relative to the repository root.

## 1. The system

A client (the Codec2 framework) owns a component and calls it from any thread. A component has a state
machine (`MfxC2Component`), and a codec below it (decoder or encoder). Each codec owns two command queues,
each with its thread: the *working queue* feeds the hardware, the *waiting queue* waits for it and returns
finished works to the client's listener.

```
   client threads                         component
  start stop reset release  ──►  MfxC2Component: m_state, m_nextState, m_stateMutex, m_releaseMutex
  queue flush config query          │ DoStart DoStop Release   │ Queue Flush
                                    ▼                          ▼
                          codec (decoder / encoder): m_pendingWorks, m_flushedWorks, flags
                              │ Push                                       ▲ onWorkDone
                              ▼                                            │
                     m_workingQueue thread ── Push(WaitWork) ──► m_waitingQueue thread
                              │    ▲ m_uSyncedPointsCount, m_devBusyCond │
                              ▼    └─────────────────────────────────────┘
                       hardware codec (external)
```

### Inventory

| Component | State it keeps | Operations | What is hard | What makes it correct |
|---|---|---|---|---|
| **Command queue** `c2_utils/src/mfx_cmd_queue.cpp` | `m_data`, `m_bPaused`, the worker thread; `m_mutex`, `m_threadMutex`, two condition variables | Start, Stop, Abort, Pause, Resume, Push, WaitForEmpty, the worker's loop | lost wake-ups; a null command ends the worker, so one left over kills the next worker; join under a mutex; WaitForEmpty does not wait for the command in execution | each command executed once, in order, or discarded by Abort; Stop leaves nothing; every wait ends |
| **Component state machine** `c2_components/src/mfx_c2_component.cpp` | `m_state`, `m_nextState`, `m_condStateStable`, two mutexes | start, stop, reset, release, queue, flush, config, query, ConfigError, FatalError | a transition is open while no mutex is held; rollback of a failed call; release takes two mutexes in order; errors reported by internal threads | transitions exclude each other and all other use of the codec; the state follows the diagram in `mfx_c2_component.h`; a query never sees a freed session; each call returns |
| **Decoder** `c2_components/src/mfx_c2_decoder_component.cpp` | `m_pendingWorks`, `m_flushedWorks`, `m_duplicatedTimeStamp`, `m_bFlushing`, `m_bEosReceived`, `m_bInitialized`, `m_uSyncedPointsCount` | Queue, Flush, DoStart, DoStop; tasks DoWork, Drain, PushPending, reset, WaitWork, end of stream | two threads take the same work; frames find their work by timestamp; Flush does not stop the threads; resolution changes drain in the middle of a work; the working thread waits for the waiting thread | no work lost or returned twice; end of stream last; Flush and DoStop return and leave nothing |
| **Encoder** `c2_components/src/mfx_c2_encoder_component.cpp` | `m_pendingWorks` (FIFO), `m_lockedFrames`, `m_bHeaderSent`, `m_uSyncedPointsCount` | Queue, DoStart, DoStop, config of the bitrate; tasks DoWork, Drain, RetainLockedFrame, WaitWork, update | bitstreams are matched with works by order alone; tunings wait for a stable state on the working thread; config drains on the caller's thread | own bitstream for each work; header with the first bitstream; a locked input is kept; end of stream last |
| **Frame constructor** `c2_utils/src/mfx_frame_constructor.cpp`, bitstream-in `c2_buffers` | the buffered bytes, the sample in use, the saved headers, the header state | Load, Unload, Reset, LoadHeader, FindHeaders, SaveHeaders, ReadStartCode | bytes left over by one call are joined with a replayed header and the next sample; a seek in the middle; the scan for start codes goes by two bytes | no byte lost, repeated or overtaken; after a seek the last header comes first; the scan finds the first 00 00 01 |
| **Surfaces of the decoder** (`AllocateFrame`, `DecodeFrame`, `WaitWork`, `FreeSurfaces`) | `m_surfaces`, `m_lockedSurfaces` | the same, and Flush and HandleFormatChange | a block comes back from the pool while the decoder refers to it; Flush clears the lists on the caller's thread | nothing in use is decoded into |
| **Input of the encoder** (`InitVPP`, `DoWork`, `RetainLockedFrame`), VPP wrapper, `MfxDevVa` | session, VPP, surface pool, encoder, `m_lockedFrames` | DoStart, DoWork, DoStop, Release; Init, Close, ProcessFrameVpp | the conversion outlives the session it was made on; a surface goes from frame to frame | all of them live in the open session; a frame is kept while it is read |
| **Resource pool** `c2_utils/include/mfx_pool.h`, frame pool allocator | free list, items out, weak references | Append, Alloc, deleter, destruction, Reset | items that outlive the pool; deleters that race its destruction | an item is in one place; nothing enters a pool that is destroyed |
| **VA allocator** `c2_utils/src/mfx_va_allocator.cpp` | responses, map from gralloc buffer to VA surface, images | AllocFrames, FreeFrames, LockFrame, UnlockFrame, ConvertGrallocToVa, FreeGrallocToVaMapping, FreeAllMappings | failures half way | what is used is alive, what is alive is used |
| **Store, registry, instance monitor** `c2_store`, `mfx_c2_components_monitor.cpp` | registry, modules loaded, counts per name | createComponent, createInterface, the deleter, start's check; increase, decrease, get | the limit is tested in start against a count that other threads change | no more run than allowed, the count does not drift, the code stays loaded |
| **XML parser** `c2_utils/src/mfx_c2_xml_parser.cpp` | status, section and its stack, codec map | the callbacks of expat, Include | a file read within a handler | the table is what the documents say |
| **Parameters of the codecs** (`DoUpdateMfxParam`, `UpdateC2ParamToMfx`, setters), level choice `mfx_c2_enc_minlevel.cpp` | the C2 parameters and `m_mfxVideoParams`, two copies | config, query, InitDecoder, InitEncoder, bitrate update | the copies diverge; config in any order; the allocator can be set once in a session | the client is told what is used, and gets what it asked for |
| AVC and HEVC header parsers, colour tables, gralloc, tracing, fuzzer | tables and wrappers | – | – | – |

Interactions: the state machine calls the codec's virtual functions, with `m_stateMutex` held for Queue, Flush
and config, without it for DoStart, DoStop, Pause, Resume and Release. The codec pushes to its queues, and
the two threads share with the caller the lists and flags above. The listener is called by any of the threads.

## 2. Modules

| Module | Models | Kind |
|---|---|---|
| `CmdQueueSpec` | what a codec may assume of a command queue | abstract specification |
| `MfxCmdQueue` (`MCMfxCmdQueue`) | `MfxCmdQueue`, by critical sections | detailed specification, implements `CmdQueueSpec` |
| `MfxCmdQueueProofs` | | proofs |
| `MfxC2Component` (`MCMfxC2Component`) | `MfxC2Component`, by critical sections | specification |
| `MfxC2ComponentProofs` | | proofs |
| `MfxC2Decoder` (`MCMfxC2Decoder`) | the works of the decoder | composed of two `CmdQueueSpec` instances, the caller and the hardware |
| `MfxC2Encoder` | the works of the encoder | likewise |
| `MfxFrameConstructor`, `StartCode` | the bitstream in front of the decoder, and the scan for start codes | specification; algorithm against its definition |
| `DecoderSurfaces` | the memory the decoder writes to | specification |
| `DecoderSettings` | parameters and session of the decoder | specification |
| `EncoderInput` | frames, conversion and session of the encoder | specification |
| `EncoderSettings`, `EncoderLevels` | parameters of the encoder; the level choice as operators | specification; pure functions |
| `MfxPool` | `MfxPool` under `MfxVaFramePoolAllocator` | specification |
| `MfxPoolProofs` | | proofs |
| `MfxVaFrameAllocator` | `MfxVaFrameAllocator` over an external libva | specification |
| `MfxC2ComponentStore` | store, registry, monitor and the limit | specification |
| `MfxXmlParser` | the configuration parser, its documents as environment | specification |
| `MCLibrary` | one instance of each module from `MfxFrameConstructor` down | TLC instance |
| `MfxC2DecoderProofs`, `MfxC2EncoderProofs` | | proofs |
| `WorkLists` | lists of works, works spread over places, functions that recur downwards | lemmas the others share |
| `MfxFrameConstructorProofs` | | proofs |
| `MCLibraryProofs` | every part of `MCLibrary`, two of them through `MfxPoolProofs` and `MfxFrameConstructorProofs` | proofs, over `MCLibrary` |

The three layers fit together by their promises. `MfxCmdQueue` implements `CmdQueueSpec` (checked and proved),
and the codec models use `CmdQueueSpec`. `MfxC2Component!Exclusive` says that Queue, Flush, DoStart and DoStop
of a codec never overlap: the codec models have one caller, which is inside one call at a time.

### MfxCmdQueue

One action per critical section of `m_mutex`. `Start`; `ShutdownPost` (Stop or Abort pushes its null command),
`ShutdownLock` and `ShutdownJoin` (`m_threadMutex` and the join); `Pause`, `Resume`, `Push`; `WaitForEmpty` with
`WaiterRecheck` after every wake-up; the worker takes (`WorkerPop`), sleeps, wakes and finishes a command.
`notify_one` wakes one sleeper, and a sleeper may wake without it. Commands are numbers in the order of their
pushes and 0 is the null command. `done`, `dropped`, `pushed` and `asked` record what happened; no guard reads
them except for the bounds `MaxPushes` and `MaxNulls`.

### MfxC2Component

`state` and `next` are `m_state` and `m_nextState`; `pc[t]` says in which call, and where, thread `t` is. A
virtual call without the mutex begins in one action and ends in another, which is where the interleavings are.
`service` says what DoStart, DoStop and Release made of the codec. `MayFail` names the virtual calls that may
fail. `Reporters` are internal threads that call ConfigError and FatalError. Nothing in the repository calls
these two functions today. After a report `Exclusive`, `FollowsDiagram` and `StableIsSettled` need not hold: `ConfigError`
does not look whether a transition is open before it opens its own, so that a start that is still in DoStart can end in a component
that was released meanwhile. The three are therefore stated until the first report (`Unreported`), and the arrows to TRIPPED and
ERROR of the diagram are not exercised by `FollowsDiagram`; `QueryNeverFreed` and `CallReturns` are stated with reports at any time.

### MfxC2Decoder

`workq, worker, task` and `waitq, waiter, job` are the two queues. `at` is the place of the working thread inside
DoWork or Drain: every push to the waiting queue, wait, change of a shared list and hardware call is a step.
`found` does the same for WaitWork. `api` is the caller: running, inside Flush, inside DoStop or stopped. The
hardware (`fed`) answers as it likes: more data, a frame it holds, busy, an error, a resolution change. A work is
a number, its kind is chosen when it is queued, and `TimeStamp` gives its timestamp, so that two works may share
one. A frame is the number of the work it came from; its surface is in `DecoderSurfaces`.

### MfxC2Encoder

The same layout; `pending` is a sequence, `inside` the frames in the hardware encoder in order, `locked` the
frames whose surface it has locked, `kept` is `m_lockedFrames`. `Drain` is written for a thread `t`, because a bitrate change
runs it on the caller's thread (`Configure`) and, with tunings, on the working thread (`ApplyTunings`). Nothing guards `m_pendingWorks` then:
`std::move(front())` (`TakeFront`, which leaves a null work in the queue), `pop()` (`PopFront`) and the push of what was taken (`PushFront`) are
steps of their own on both threads, and so are the two of the loop that gives works back (`GiveBack`, `GiveBackPop`). `met` remembers that a drain of config ran
while the working thread had a task; no guard reads it. `back` is the sequence of
works given to the listener, with what each brings. The hardware unlocks surfaces at any time; the model lets
it do so at the points where the code reads `Data.Locked`, which is all the code can see. `front()` and `pop()` of an empty `m_pendingWorks` are undefined and a null work
is dereferenced: the model's thread stops there. `SendsHeader` says whether the codec has a stream header in `configUpdate`: AVC and HEVC have one, VP9
from `PLATFORM_SDK_VERSION` 35 on, AV1 none; "bare" is a bitstream that came without it because GetVideoParam failed.

### The library

Each of the following modules is a part with a state of its own, reached by the codecs through a few calls, and none of
them calls modelled code of another. `MCLibrary` therefore makes one behaviour of each: `part` is chosen at the
beginning, its instance moves and the others stay as they begin, so that the states add up instead of multiplying. The bounds that
a theorem generalises are constants of `MCLibrary`, given in its cfg; what a client may send is named beside its instance
(`DecoderStreams`, `EncoderSizes`, ...), as are the bounds of the other parts. That nothing is proved about a mixture is the price, and where two parts do share
state they are in one module (the surface lists and the waiting thread in `DecoderSurfaces`, session, device and VPP
in `EncoderInput`).

- `MfxFrameConstructor`: a bitstream is a sequence of NAL units, each with the number of the sample it came with. `fc` holds the
  members of the base class and of the AVC and HEVC classes. `AppendFrame` is Load as DoWork calls it, `Decode` what the
  hardware takes, `Unload` and `GiveUp` the two ways out, `Seek` and `FormatChange` the two resets.
  Every allocation may fail (`NoRoom`). `owed` is what was loaded since the last seek and `given` what left the constructor: the decoder took it, or a change
  of the format threw it away, at the positions `dropped`.
- `StartCode`: `ReadStartCode` for the two classes, over every string of up to six bytes.
- `DecoderSurfaces`: a block of the pool may be anyone's whom the code does not protect it from: `Available` is everything but
  what a live reference keeps. `fetch`, `work` and `tried` are AllocateFrame; `waiting` and `waiter` the frames on the way
  through the waiting thread, which allocates too when frames are converted to 8 bits (`ConvertFrame`, with its own `remove_if`); `flushing` is a Flush between its push of the reset task and its clearing of the lists, which
  may come before the reset has ended, because WaitForEmpty does not wait for it.
- `MfxPool`: `owners` are the strong references to a pool, `home` the weak reference in an item's deleter. The deleter locks,
  puts back, lets go and, if it was the last, destroys, each a step.
- `MfxVaFrameAllocator`: an object of libva is a number; each function is one step under its mutex, with the failures that
  leave something behind as actions of their own.
- `MfxC2ComponentStore`: the environment is a configuration, two binder threads and the modules. Constructor, Init, start's check
  and destructor are separate steps of a thread.
- `MfxXmlParser`: the environment opens and closes elements in any nesting the format allows; `listed` is what the documents
  say, kept beside the parser's own table.
- `DecoderSettings` and `EncoderSettings`: the C2 parameters and the Media SDK's are variables of both, and config, query and the tasks
  that change them are actions. In the encoder the bitrate is 16 bits wide. The tables of profiles, levels and
  defaults are constant operators, and `EncoderLevels` is the choice of the least level for the four codecs; for VP9 it has the code's
  32-bit product.
- `EncoderInput`: `locked` are the surfaces the hardware reads, with the frame each shows; `retained` is `m_lockedFrames`.
  DoStart may close the session and open another for the allocator, while `vpp`, `pool` and `encoder` remember
  theirs.

## 3. Runs

| Run | Bounds | Shows |
|---|---|---|
| `cmd_queue` | 2 controllers, 1 waiter, 3 pushes, any use | `NoLostWakeup`; `ExactlyOnceInOrder`: no command lost, repeated or overtaken; `EmptyMeansTaken`; refinement of `CmdQueueSpec` |
| `cmd_queue_owner` | 1 controller that stops only what it started, 1 waiter, fairness | `StopLeavesNothing`; `QueuedIsTaken` and `CallsReturn`: Stop, queued commands and WaitForEmpty come to an end |
| `component` | 2 callers with 3 calls each, a reporter with 2 reports, all failures, fairness | `Exclusive`, `StableIsSettled`, `FollowsDiagram` until the first report; `CallReturns` and `QueryNeverFreed` always |
| `decoder` | 3 works, two with one timestamp, AsyncDepth 2, every failure, that of DoStart included | `EveryWorkInOnePlace`; `FlushSeesAll`, what Flush may rely on; `QuietWhenStopped` |
| `decoder_live` | 3 works of four kinds, AsyncDepth 1, resolution changes, failures before the device is reached, fairness | `StopLeavesNothing`; `CountSeenIsRight`, the counter and the gate of AsyncDepth; `EosIsLast`, `EosComesBack`; `CallsReturn` for Flush and DoStop |
| `encoder` | 2 works of four kinds, 1 bitrate change by config, all failures but that of the device | `EveryWorkInOnePlace`, until a drain of config meets the working thread at a task; `FramesOutliveLocks`; `HeaderFirst`, failures of GetVideoParam included |
| `encoder_live` | 3 works, no failure, a codec without a header, fairness | `EachItsOwnInOrder`: own bitstream, end of stream last; `DrainBringsAllBack`; `StopLeavesNothing` |
| `library` | ten parts, bounds below | per part, what it must keep: next table |
| `decoder_flush`, `decoder_start`, `encoder_config` | 1 or 2 works | disagreements of comments and code, below |
| `library_change` | as `library` | likewise |

| Property of `library` | Bounds of the part | Shows |
|---|---|---|
| `StreamKept` | 3 samples, 1 reset, each allocation may fail; 6 bytes of 4 values | what is loaded between two seeks reaches the decoder in order and whole, but for the sample in hand at a change of the format, and behind a header; the last header is the one replayed (AVC, HEVC); the scan finds the first start code |
| `PoolItemsKept` | 2 items, 2 threads, 2 resets | an item is in one place; none enters a destroyed pool |
| `SurfacesNotOverwritten` | 3 blocks and one of the format converted to, 3 surfaces, a Flush or change of format at any time, one device reset at a time | the memory the decoder writes to is no reference, not waiting and not the client's, nor is what a conversion writes to; what it may output is held, the reset apart |
| `TableIsTheDocument` | 6 elements, depth 6, 2 codecs | the section is right after every include, and the table is what was read |
| `RunningWithinLimit` | 2 threads, 2 names, 3 components, limits 1 and 2 | the limit holds, the count is exact, the code is loaded |
| `FrameKeptWhileRead` | 4 frames, 3 starts, 2 pool and 2 VPP surfaces, all of which the hardware may keep, every failure, those of the conversion included | VPP and encoder on the open session; frames kept while the hardware reads them |
| `VaObjectsAccounted` | 1 response of 2 frames, 2 backing stores, 4 objects | what is used is alive; nothing else is, unless a call failed half way; the tables agree |
| `DecoderReady` | AVC and VP8, 2 sizes, 2 streams, 3 sessions, 2 openings | a decoder on surfaces has the allocator on its session; 10 bits are converted on the open session for a client that wants 8; the last colours told are those of the stream |
| `EncoderAsAsked` | AVC, HEVC, VP9, one value or two of each parameter, 2 configs, 1 task | the level carries the stream; the bitrate asked for last is in force |
| `OpenedStays` | the last two | an open codec changes its bitrate and nothing else; a decoder never goes from system memory to surfaces |

Why the bounds are enough. The races of the queue are between one worker, one waiter and one or two callers
over at most two commands and a null command; a third push lets one command be in execution, one queued and one
pushed late. In `component` two callers with three calls let one hold a transition open and
the other sleep on it, be refused or overtake it, and the reporter interferes; what takes a third caller is in the theorems, which hold for any number. In the codecs three
works are needed for two frames that overtake each other and an end of stream behind them, or a flush between;
AsyncDepth 2 lets the counter be between its limits, AsyncDepth 1 makes the gate close as often as possible. `CountMod`
stands for the range of the unsigned counter: it lets it wrap below zero, as it does.
In the library a part has the least of each that lets two of its hazards meet: two seeks' worth of samples around one reset, two resets of a
pool so that an item can be two pools behind, a block for the decoder, one for the client
and one to go wrong with, two includes in one another, a start after a session was given up and one more.

`CHECK_DEADLOCK FALSE` is set where the system may stop: bounded numbers of calls (`component`,
`library`), and the runs of the encoder and decoder whose threads may end by undefined behaviour, by the
tunings deadlock below, or were never started.

### Fairness

Weak fairness of the worker loops, of WaitWork and of a call in progress: an operating system thread that can run does run,
and the hardware ends each call (SyncOperation has an infinite timeout and nothing else ends it).
No fairness for beginning a call, for Push, or for any failure: nobody is obliged to call. In `cmd_queue_owner` the wake-up of a
notified thread is fair, a spurious wake-up is not. The drain's ten second timeout is not used in `decoder_live`: Flush and DoStop return
without its help. The library has safety properties only and no fairness.
Where the working thread of the decoder waits for a block (`decoder_live`) its fairness assumes that the block pool gives one in the end, because the client
returns the buffers it has shown.

### The environment

What is not in `src/` is modelled from its use. The hardware answers as it likes, with these exceptions: it ends its calls; it unlocks a
surface in the end of its own accord; a reset of the decoder succeeds and leaves no surface in use; the encoder keeps at
most `Keeps` surfaces locked, which may be all that the conversion or the pool has. The block pool may give any block that nobody refers to, one on
the screen included. libva may fail in any call. Expat delivers elements properly nested.

### Disagreements found

- `decoder_flush`: "Turn off flushing mode only after working/waiting queues did all the job": WaitForEmpty returns when
  the last command is taken, not when it is done. `FlushSeesAll` in the run `decoder` says what still holds.
- `decoder_start`: a start whose session cannot be opened returns C2_OK with no thread running; the works and null
  commands that are then queued are left for the next start, which the comment in DoStop calls bad.
  The run `decoder` goes on from there: no work is lost or returned twice even then. But a sync point left behind an
  old null command survives the next start, which sets the counter to zero, so `StopLeavesNothing`
  and `CountSeenIsRight` are checked in `decoder_live`, where DoStart succeeds.
- `encoder_config`: "This queue is accessed from working thread only": a bitrate change by config drains on the
  caller's thread. Both threads may then take the same front, one of them a null work, and pop twice, which loses the work behind it:
  without `~met` TLC refutes `EveryWorkInOnePlace` with two works.
- `library_change`: the work "which caused resolution change and should be used again": for H.264 and H.265 and MFX_WRN_VIDEO_PARAM_CHANGED
  HandleFormatChange resets the bitstream, and what the decoder has not taken of the sample is dropped.

Met while modelling, without a run of its own: the setter of the output colours promises "default values for all unspecified fields, and
coded values for specified ones" (`mfx_c2_decoder_component.cpp:156`), but takes the coded values from `m_inColorAspects`, which no stream
writes. When the client configures the default colours it puts them over the coded ones (`ConfigOther` in `DecoderSettings`), and a
query answers them. The colours told with the works are the stream's (`DecoderReady`).

Known and without a run of their own, because no comment or test promises otherwise: a work with tunings met after
DoStop has begun waits for ever for a stable state, and DoStop for it (`ApplyTunings`); after a failed drain the
encoder's bitstreams are one work behind (`EachItsOwnInOrder` with "alloc" in `MayFail`); an end of stream overtakes what
a failed drain gives back (likewise). The properties of `encoder_live` are therefore statements about drains that succeed.
In the decoder a work that follows the end of stream is parked in `m_flushedWorks` and not reported, where a comment calls it an error. In the
frame constructor of VP8, VP9, AV1 and MPEG-2 a header that arrives after Reset is not stored, so that the next seek replays the one
before; `LatestHeaderSaved` is stated for AVC and HEVC. `MfxVaFrameAllocator` leaves an object of libva behind in five places when a call
fails half way (`faulted`). A bitrate that comes through the queue is followed by no adjustment of the level, and what was configured since
the encoder was opened is overwritten by the bitrate update. The encoder does not look at the result of ProcessFrameVpp: a frame whose conversion fails, or finds
every surface locked, is sent with a null surface, which drains, and RetainLockedFrame then reads through the null pointer (`NoSurface` in
`EncoderInput`). `m_vppConversion` of the decoder is never reset, while FreeDecoder deletes the filter: a stream of 8 bits after one of 10 meets a null
pointer in WaitWork (`conversion`, `vpp` in `DecoderSettings`). With a conversion running, its `remove_if` on the waiting thread may drop the frame the decoder has just
output from `m_lockedSurfaces`, and DecodeFrame does not find it (`KeptWhileLocked` leaves that case out). GetMinLevelVP9 multiplies in 32 bits; `LevelEnough`
takes the level that function computes as the one needed, so it cannot tell.

## 4. Proofs

All theorems are of the specifications TLC checks, for every value of the constants that satisfies the module's
assumption (`ConstantsAssumption`, `PoolConstants`): any number of threads, commands, works, items and resets. Some have a
hypothesis on top of it, which is said with the theorem. Each invariant below was first an invariant of a TLC run.

`MfxCmdQueueProofs`:
- `TypeCorrect` by induction over the actions.
- `WorkerNeverMissesWork`: `NoLostWakeup` is inductive with the types: each action that can make the worker's predicate true notifies.
- `CommandsPassOnceInOrder` (from `EveryCommandOnce` and `CommandsInOrder`) and `WaitedForIsTaken` from one invariant, `Accounting`. The properties alone
  are not inductive: that a popped command was never executed before needs that what is queued is increasing and
  disjoint from what is done, in execution or dropped, and that every number up to `pushed` is somewhere.
- `StopFinishesTheQueue` and `WorkerDiesOnlyForShutdown`, for an owner that stops only what it started (`SoleOwner`), from
  `OwnerInv`: while the owner is between Stop's push and the end of its join, the queue holds a null command and all
  before it was pushed before; at rest it holds none.
- `Implementation`: every step of `MfxCmdQueue` is a step of `CmdQueueSpec` or leaves its variables alone, under the
  refinement mapping in `MfxCmdQueue`.

`MfxC2ComponentProofs`:
- `TypeCorrect`.
- `VirtualCallsExclude` and `StableStateIsSettled` from `SerialInv`, for any number of
  callers and reporters, until the first report; a thread that only calls cannot begin one. The inductive part is that at most one thread
  is inside a transition, that this thread is the reason why the state is not stable, and which `service` each place of it implies.
- `DiagramIsFollowed`, an action property, from the same invariant: the place of the thread that ends a transition says which arrow it
  is. That nobody comes back from RELEASED is `FreedIsReleased`: a freed component is in a stable state, since each
  thread that could keep it from one implies another `service`.
- `QueryBeforeRelease`, with reporters: transitions may then overlap, but `m_releaseMutex` is held by one thread (`OneReleaseHolder`), and
  once the session is freed `m_state` and `m_nextState` are RELEASED both, so that a transition that ends late, or is rolled back,
  leaves them so (`FreedStays`).

`MfxPoolProofs`:
- `PoolTypeCorrect`. That an item handed out has a home belongs to the types, because the deleter uses it as an index.
- `PoolKeepsItems`, which is the pool's part of `PoolItemsKept` in the run `library`. Two invariants. `Deleters` says who holds a pool: the owner only
  the present one, a thread only the one its deleter is at work on, and a pool that is left or gone has nothing but
  what the thread that left it last is about to destroy; `NoneComesBack` follows from it. `ItemInOnePlace` is inductive
  with the types and `Deleters`: each action takes an item from one place to another, and one lemma per kind of
  move (free lists, items returning) says that the others are not disturbed.

`MfxC2DecoderProofs`, for any number of works, any timestamps, any AsyncDepth and any set of failures:
- `TypeCorrect`. The types alone are not inductive: `TaskPlaces` says in which place of DoWork, Drain or WaitWork a thread is for each kind
  of task, and whether it has the work of the task in its hands there.
- `WorksInOnePlace`. `EveryWorkInOnePlace` names nine places; `OnePlace` adds that no work is twice in a queue and that
  the places hold just the works queued so far. Each step takes works from one place to another (`Moved`), adds a new one (`Placed`)
  or moves none; those facts are in `WorkLists`, and the step that matters gives the two places.
- `FlushCollectsAll`, from `FlushOrder`: how far the caller is in Flush, what the working queue then has left (the reset task is the last
  command in it), and that `m_flushedWorks` is filled only meanwhile.
- `StoppedIsQuiet`, an action property, from `Joined`: a thread that was joined has no task.
- `StopsClean` and `CountIsRight`, with the hypothesis that DoStart does not fail (`"start" \notin MayFail`). It cannot be dropped: the
  run `decoder_start` refutes both without it. `Ending` says where the null commands of DoStop are; `Counted`, that the counter plus the
  increments under way is the number of outstanding sync points, up to the one wrap below zero that the code
  allows (WaitWork decrements before DecodeFrame has incremented), and that the gate lets at most AsyncDepth through.
- `EosComesLast`, for distinct timestamps (`DistinctTimes`), no failure of DoStart and hardware that neither fails nor lacks a surface
  (`"alloc"` and `"device"` not in `MayFail`); it may be slow, change the resolution and refuse headers. Without the
  first or the last a work may stay pending while the end of stream goes ahead of it, and TLC finds the behaviour: a drain that fails
  pushes the end of stream all the same, and of two works with one timestamp one is given the other's frame. The
  second is for the proof, which builds on `Ending`: TLC finds no counterexample with three works and a DoStart that fails. The
  invariant is `EosOrder`. Frames overtake each other, so there is no order of the pending works to keep; instead `OnTheirWay` says of each of them where its frame is: in the hardware (`fed`), at its sync
  point in the waiting queue or in WaitWork (`Synced`), in DoWork's hands, or still to be fed because the work was queued behind an
  end of stream, whose Drain is then before it in the working queue. `Dry` is that a drain ends with the hardware empty; together they give that
  what is pending when the end of stream is pushed has its sync point ahead of it, and `EndsInOrder` carries that through
  the waiting queue. `InTurn`, `LaterLater`, `TasksKinds` are the order and kinds of the working queue, `Known` that the hardware
  has no frame of a work nobody queued, `Expected` that DoWork leaves a work pending only if its frame is expected, `Inited` that
  the hardware is called when it is initialized. A Flush is the hard case: between the reset task and the collection of the
  lists the hardware is empty and works are pending (`Cleared`, `ResetPlace`, `ResetTime`).

`MfxC2EncoderProofs`, likewise:
- `TypeCorrect`, `WorksInOnePlace` and `StopsClean` (the same hypothesis) from invariants of the same names; here Drain runs on
  two threads, so the places of `TaskPlaces` and `OnePlace` are those of both. While no drain of config has met the working thread at a task (`~met`), at most one
  thread is between `front()` and `pop()`, and a null work is in `m_pendingWorks` just then, at its front (`Slots`); the works pending are then the one that was taken
  and what is behind it (`Line`), and each step of the queue leaves that line as it is, or takes its head. The two theorems say nothing of the works after such a
  meeting, which `encoder_config` shows to go wrong; `StopsClean` still says that no task is left for the next start.
- `LockedFramesKept`: `FramesOutliveLocks` with `AbortEnds`, that the works an abort destroys are destroyed while the queues are being stopped.
- `HeaderComesFirst`: `HeaderKnown` ties `m_bHeaderSent` to what the works of this session have brought; a bitstream before the header is one for which
  GetVideoParam failed, and comes with that error.
- `OwnBitstreams`, with the hypotheses that no bitrate is set by config (`MaxConfigs = 0`) and that no drain fails. Each of them alone puts
  `m_pendingWorks` and the hardware out of step (section 3), so neither can be dropped. `InStep`: what is pending is what is inside,
  in the same order, the step between the two pushes apart.
- `OwnAndInOrder`, the above with the order. That the end of stream is last needs in addition that no work fails (a work that fails is given
  back at once, ahead of those pending: TLC refutes `EosIsLast` with `"work"` in `MayFail`) and, for the proof, that DoStart
  does not. `InOrder` says that along the way working queue, hands, `m_pendingWorks`, waiting queue, hands a work that is further was queued
  earlier.

`MfxFrameConstructorProofs`, for samples of any length and any number of them. `StreamConstants` says what players send: a configuration brings headers
and no picture, and a sample has its own headers before its pictures. A stream whose configuration has no header cannot be taken up again.
- `StreamTypeCorrect`, `StreamIsWhole`, `PicturesBehindHeaders`, `LatestIsSaved` from one invariant, `StreamInv`. `StreamIsWhole` runs over changes of the format: what they
  drop stays in the ledger, as left and not as taken. `HeaderIsComing` says where the
  headers are after a seek: saved for the next Load while no picture has been taken in, and from then on in front of the pictures in
  what the decoder is to get.
- `FindHeaders` is a recursive function over the positions of the sample. `HeadersFound`, that it finds a header of each type the sample has,
  rests on `DownRecursion` and `DownInduction` of `WorkLists`: a function that recurs on greater
  arguments up to a bound is defined, and what holds at an argument if it holds at all greater ones holds everywhere; that one is proved
  from the least number that is a counterexample's distance from the bound.

`MCLibraryProofs`, about all parts of the library. A step of `MCLibrary` is, for each part, a step of it or a stutter
(`PartSteps`), so an inductive invariant of a part is one of the whole.
- `SurfacesKept` (`MaxSurfaces` a number, the blocks of the two formats are different ones). `NotOverwritten` alone is not inductive: that the block the pool gives is nobody's surface needs
  `CurrentSurfaces` (a surface in use is the one its block has in `m_surfaces`), `OutputOnce` (a frame that waits to be returned is
  not hidden in the decoder any more), `WorkIsApart` (the two threads that allocate have no surface in common), `LockedIsHeld` and, for the lists that Flush clears on the caller's thread, `FlushIsApart`.
- `ComponentsCounted` (`MaxMade` a number). `Counted` has the number of handles of a module equal to the threads that have it open, `ComponentsHeld`
  that each component is one thread's: then a module in use has a handle, and a component in its destructor is still counted.
- `PoolItemsInOnePlace` carries `MfxPoolProofs` over to the instance.
- `FramesKept` (`InputConstants`: the bounds are numbers), for any set of failures. `ReadOnce`: a surface the hardware reads shows one frame; `SessionStays`: as long as the conversion lives the
  session has the allocator it needs, so that DoStart does not open another.
- `DecodersReady` (`MaxSessions` at least 1): `OpenSinceStart`: an open decoder was opened since the last start, and if the
  session's allocator is set it is the one of this session. `FilterOfSession`: the filter, if there is one, was made on the open session, and there is none while
  the decoder is stopped. `UpdatesWait`: the last update that waits carries the stream's colours, or the client has had it.
- `BitrateAndLevel` (`EncoderConstants`: the bounds are numbers). `BitrateInForce` needs `LastComing` (the last bitrate in the queue is the one
  asked for last), and that no bitrate is queued while the encoder is stopped. `LevelEnough` needs `LevelFollows` (the encoder's level is no
  lower than the client's): AdjustLevel compares the client's level with what is needed and changes the encoder's. The proof
  covers the tables of the three types in `EncoderTypes`. It showed that the property can say more than it did: a bitrate still in the queue
  does no harm, only one that came through it.
- `OpenedCodecsStay`, an action property of both codecs' settings.
- `ObjectsAccounted` (`VaConstants`: the bounds are numbers). `InUse` is the property; what makes it inductive is `OneUser`: an object is
  in one response, the surface of one mapping or the image of one locked frame, so that who destroys it takes it from nobody.
- `TableFollowsDocuments` (`XmlConstants`). `Nested` says how the open elements can stand in each other; then the section is a function of
  them, and `SectionKept` has the section that goes on after an Include on the stack between the end of the file and the end of
  the Include, and nothing there otherwise: the stack never needs more than one place. `CodecOpen` is what a Limit refers to.
- `StreamsKept` carries `MfxFrameConstructorProofs` over to the instance, with the samples `Config` and `Data` name, and adds
  `FirstStartCodeFound`, for data of any length and bytes: each turn of `ReadStartCode`'s loop goes on to a later byte, and
  `ScanTurnFinds` has it find the first start code of what is not passed yet, if the later turns do.
The bounds are free in these theorems; the values a client sends are those `MCLibrary` names.

No invariant and no action property of a passing run is only model-checked. Only model-checked are the liveness properties
(`CallsReturn`, `EosComesBack`, `QueuedIsTaken`, `CallReturns`, `DrainBringsAllBack`): fairness and ENABLED are beyond the
prover. Where a theorem has a hypothesis, TLC alone speaks for what is without it: `decoder` for failing starts and twins.
Induction as the prover's library has it needs an operator as a parameter, which no installed prover instantiates; the two
inductions over data above take a set in its place.

## 5. Not modelled

- Planes, pitches and offsets of frames, the filter parameters of VPP, the contents of `MfxC2BitstreamOut` and of the stream header: data
  that no property tells apart.
- Traits, `copyBuffer` and the registration of the service; `AllocFrames` of the pool allocator, which computes a number.
- The decoder's read views and its branch for the codec configuration of AV1 and VP9; two lists it shares between its
  threads without a lock (a data race on lists that hold no work).
- In `MfxC2Encoder`, the drain that a null surface from a failed conversion causes in the middle of DoWork; the surface itself is in `EncoderInput`.
- In `DecoderSurfaces`, what two threads at once do to the map `m_surfaces`, which has no mutex: find and emplace are one step.
- In `DecoderSettings`, the two reads of FrameInfo in AllocateFrame, one for the block and one for its surface, are one step.
- `SetListener` and the listener list: a call after the listener was replaced is a matter of the framework's contract.
- The AVC and HEVC header parsers: the components call one function of them, `GetSEI`, whose payload is kept but not read. They
  are the syntax tables of the standards.
- Gralloc and mapper access, the secure decoder's buffer flags, tracing, dumps, the fuzzer: wrappers or output.

## 6. Plan

The order was: the queue, because both codecs stand on it; the state machine, because it says which calls may overlap; the
codecs, where works can be lost; then the library, stream and surfaces first, because a frame is lost or
spoilt there. These are done. What is left:

1. The state machine after a report: which of its properties survive, and what ConfigError would have to look at. Nothing in the repository
   reports today.
2. An abstract specification of a codec (works in, works out once, end of stream last), implemented by decoder and
   encoder, and the state machine over it. The invariants it would follow from are proved.
3. Read views and the configuration branch of the decoder; the listener list.
