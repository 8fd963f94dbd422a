----------------------------- MODULE EncoderInput -----------------------------
(***************************************************************************)
(* What MfxC2EncoderComponent does to a frame before it is encoded, and    *)
(* what it needs for that: the device and its allocator (MfxDevVa), the    *)
(* session, which DoStart may close and open again, the colour conversion  *)
(* (MfxC2VppWrapp) and the pool of surfaces, both made when the first      *)
(* frame shows its layout and kept over stop and start, and the frames     *)
(* kept for as long as the hardware reads them (MfxC2FrameIn).             *)
(*                                                                         *)
(* MfxC2Encoder has the travel of the works; here a frame is one call of   *)
(* DoWork, and its surface is shared with earlier and later frames.  The   *)
(* device is that of the LIBVA build; all the frames have one layout.      *)
(***************************************************************************)
EXTENDS Naturals, Sequences, FiniteSets

CONSTANTS MaxFrames,    \* bound: calls of DoWork
          MaxStarts,    \* bound: calls of DoStart
          PoolSize,     \* m_encSrfNum
          VppSurfaces,  \* VPP_MAX_SRF_NUM
          Keeps,        \* how many surfaces the hardware encoder keeps locked, all of a pool or fewer
          MayFail       \* which of the calls below may fail

Layouts == {"rgb", "tiled", "yuvSurface", "yuvPlain"}

VARIABLES
  layout,    \* of the blocks the client sends
  state,     \* "stopped", "running", "halted" (DoStart failed and said OK), "stopping", "released"
  device,    \* MfxDevVa: "open" or "closed"
  session,   \* the open session, by its number, 0 if there is none
  opened,    \* sessions opened
  video,     \* m_mfxVideoParamsConfig.IOPattern is MFX_IOPATTERN_IN_VIDEO_MEMORY
  allocatorSet, determined, conversion,  \* m_bAllocatorSet, m_bVppDetermined, m_inputVppType
  vpp,       \* m_vpp: its session, 0 if closed, its surfaces, and whether it has the allocator
  pool,      \* m_encSrfPool is allocated
  encoder,   \* the session m_mfxEncoder is made on, 0 if none
  locked,    \* the surfaces with Data.Locked, and the frame each of them shows
  tasks,     \* the RetainLockedFrame tasks of the waiting queue
  retained,  \* m_lockedFrames
  frames, starts
inputVars == <<layout, state, device, session, opened, video, allocatorSet, determined,
               conversion, vpp, pool, encoder, locked, tasks, retained, frames, starts>>

NoVpp == [session |-> 0, surfaces |-> 0, allocator |-> FALSE]
NoSurface == <<"null", 0>>
Locked == { l.surface : l \in locked }

\* MfxDevVa::Init makes the display and the allocator; Close destroys them in the other order.
OpenDevice == device = "open"
CloseDevice == device' = "closed"

\* MfxDevVa::InitMfxSession gives a session its allocator, once, when the frames are surfaces.
SetAllocator == video

\* AllocateSurfacePool; calloc or the system memory of the pool may fail.
AllocateSurfacePool(fail) == fail # "vppInit"
FreeSurfacePool == pool' = FALSE

\* Init: MfxDev::Create, ResetSettings, InitSession.
Init == /\ layout \in Layouts
        /\ state = "stopped" /\ OpenDevice /\ session = 1 /\ opened = 1
        /\ video = TRUE /\ allocatorSet = FALSE /\ determined = FALSE /\ conversion = FALSE
        /\ vpp = NoVpp /\ pool = FALSE /\ encoder = 0
        /\ locked = {} /\ tasks = <<>> /\ retained = {} /\ frames = 0 /\ starts = 0

-----------------------------------------------------------------------------
(* DoStart *)

\* The allocator can be set only once in a session: another session is opened for it.
\* MFXClose, InitSession or SetFrameAllocator may fail.
Reopen(fail) ==
    CASE fail = "close" \/ session = 0 -> [session |-> session, opened |-> opened, set |-> allocatorSet]
      [] fail = "session" /\ session # 0 -> [session |-> 0, opened |-> opened, set |-> allocatorSet]
      [] fail = "allocator" /\ session # 0 ->
           [session |-> opened + 1, opened |-> opened + 1, set |-> allocatorSet]
      [] OTHER -> [session |-> opened + 1, opened |-> opened + 1, set |-> SetAllocator]

DoStart(fail) ==
    /\ state = "stopped" /\ starts < MaxStarts
    /\ LET reopen == video # allocatorSet
           r == Reopen(fail)
       IN IF reopen
          THEN /\ session' = r.session /\ opened' = r.opened /\ allocatorSet' = r.set
               /\ state' = IF r.set = video THEN "running" ELSE "halted"
          ELSE /\ fail = "none" /\ state' = "running"
               /\ UNCHANGED <<session, opened, allocatorSet>>
    /\ starts' = starts + 1
    /\ UNCHANGED <<layout, device, video, determined, conversion, vpp, pool, encoder, locked,
                   tasks, retained, frames>>

-----------------------------------------------------------------------------
(* DoWork *)

\* MfxC2VppWrapp::Init and AllocateOneSurface; a failure closes what was made.
VppInit(fail) == IF fail = "vppInit" THEN NoVpp
                 ELSE [session |-> session, surfaces |-> 1, allocator |-> TRUE]

\* InitVPP, as what it makes of the settings; it is done again for the next frame until it
\* succeeds.
InitVPP(fail) ==
    LET now == [video |-> video, set |-> allocatorSet, conversion |-> conversion, vpp |-> vpp,
                pool |-> pool, ok |-> TRUE]
    IN IF determined THEN now
       ELSE CASE layout = "rgb" -> [now EXCEPT !.vpp = VppInit(fail), !.conversion = TRUE,
                                               !.ok = fail # "vppInit"]
              [] layout = "tiled" -> [now EXCEPT !.video = TRUE, !.conversion = FALSE]
              [] layout = "yuvSurface" -> [now EXCEPT !.pool = AllocateSurfacePool(fail), !.conversion = FALSE,
                                                      !.ok = fail # "vppInit"]
              [] layout = "yuvPlain" -> [now EXCEPT !.video = FALSE, !.set = FALSE,
                                                    !.pool = AllocateSurfacePool(fail), !.conversion = FALSE,
                                                    !.ok = fail # "vppInit"]

Free(kind, n) == { i \in 1 .. n : <<kind, i>> \notin Locked }
First(set) == CHOOSE i \in set : \A j \in set : i <= j

\* ProcessFrameVpp: a surface that is not locked, or one more.
Target(v, fail) ==
    CASE Free("vpp", v.surfaces) # {} -> First(Free("vpp", v.surfaces))
      [] Free("vpp", v.surfaces) = {} /\ v.surfaces < VppSurfaces /\ fail # "vppSurface" -> v.surfaces + 1
      [] OTHER -> 0

\* The surface to encode.  What ProcessFrameVpp returns is not looked at: when it fails, or finds
\* every surface locked, the frame goes on without one, and the encoder takes it for a drain.
Surface(s, fail) ==
    LET t == Target(s.vpp, fail)
        free == Free("pool", PoolSize)
    IN IF s.video
       THEN IF ~s.conversion THEN <<"new", frames + 1>>
            ELSE IF t = 0 \/ fail = "vpp" THEN NoSurface ELSE <<"vpp", t>>
       ELSE IF free = {} THEN <<"pool", 0>> ELSE <<"pool", First(free)>>

\* The conversion to VA, the search for a free surface of the pool, MfxC2FrameIn, InitEncoder,
\* AllocateBitstream, ApplyWorkTunings, EncodeFrameAsync: the work fails and its frame is
\* released.  When all went well the hardware locks the surface, or is done with it.
DoWork(fail, keep) ==
    /\ state = "running" /\ frames < MaxFrames
    /\ fail = "vppInit" => ~determined
    /\ LET s == InitVPP(fail)
           surface == Surface(s, fail)
           fails == ~s.ok \/ fail \in {"convert", "encoder", "bitstream"} \/ surface = <<"pool", 0>>
           mapped == s.ok /\ fail # "convert"
           grown == s.conversion /\ s.video /\ mapped /\ Target(s.vpp, fail) > s.vpp.surfaces
       IN /\ video' = s.video /\ allocatorSet' = s.set /\ conversion' = s.conversion
          /\ pool' = s.pool /\ determined' = s.ok
          /\ vpp' = [s.vpp EXCEPT !.surfaces = IF grown THEN @ + 1 ELSE @]
          /\ encoder' = IF encoder # 0 THEN encoder
                        ELSE IF ~mapped \/ fail = "encoder" \/ surface = <<"pool", 0>> THEN 0 ELSE session
          /\ IF fails THEN keep = FALSE /\ UNCHANGED <<tasks, locked>>
             ELSE /\ tasks' = Append(tasks, [frame |-> frames + 1, surface |-> surface])
                  /\ keep => Cardinality(locked) < Keeps /\ surface # NoSurface
                  /\ locked' = IF keep THEN locked \cup {[surface |-> surface, frame |-> frames + 1]}
                               ELSE locked
    /\ frames' = frames + 1
    /\ UNCHANGED <<layout, state, device, session, opened, retained, starts>>

\* The hardware has read the surface.
Unlocks(l) == /\ l \in locked
              /\ locked' = locked \ {l}
              /\ UNCHANGED <<layout, state, device, session, opened, video, allocatorSet, determined,
                             conversion, vpp, pool, encoder, tasks, retained, frames, starts>>

-----------------------------------------------------------------------------
(* The waiting thread *)

\* Slip: the frame is taken for done.
KeptNot(task) == {}

Kept(task) == IF task.surface \in Locked THEN {task} ELSE {}

\* It reads the surface: a frame without one ends the thread, and the process with it.
RetainLockedFrame ==
    /\ state \in {"running", "stopping"} /\ tasks # <<>> /\ Head(tasks).surface # NoSurface
    /\ retained' = retained \cup Kept(Head(tasks))
    /\ tasks' = Tail(tasks)
    /\ UNCHANGED <<layout, state, device, session, opened, video, allocatorSet, determined,
                   conversion, vpp, pool, encoder, locked, frames, starts>>

\* The head of WaitWork.
WaitWork == /\ state \in {"running", "stopping"} /\ retained # {}
            /\ retained' = { r \in retained : r.surface \in Locked }
            /\ UNCHANGED <<layout, state, device, session, opened, video, allocatorSet, determined,
                           conversion, vpp, pool, encoder, locked, tasks, frames, starts>>

-----------------------------------------------------------------------------
(* DoStop, Release *)

\* The queues end, the working thread first: stop() lets the waiting thread finish.
StopQueues == /\ state = "running"
              /\ state' = "stopping"
              /\ UNCHANGED <<layout, device, session, opened, video, allocatorSet, determined,
                             conversion, vpp, pool, encoder, locked, tasks, retained, frames, starts>>

\* FreeEncoder; the hardware encoder is done with its surfaces when it is closed.  An Abort
\* has dropped the tasks.
FreeEncoder(abort) ==
    /\ state \in {"stopping", "halted"}
    /\ tasks = <<>> \/ abort
    /\ state' = "stopped" /\ encoder' = 0 /\ locked' = {} /\ tasks' = <<>>
    /\ UNCHANGED <<layout, device, session, opened, video, allocatorSet, determined, conversion, vpp,
                   pool, retained, frames, starts>>

\* m_vpp.Close, MFXClose and m_device->Close, in this order.
Release == /\ state = "stopped"
           /\ FreeSurfacePool /\ retained' = {}
           /\ vpp' = NoVpp /\ session' = 0 /\ CloseDevice
           /\ state' = "released"
           /\ UNCHANGED <<layout, opened, video, allocatorSet, determined, conversion, encoder, locked,
                          tasks, frames, starts>>

Failures == {"none"} \cup MayFail

Next == \/ \E fail \in Failures \cap {"none", "close", "session", "allocator"} : DoStart(fail)
        \/ \E fail \in Failures \ {"close", "session", "allocator"}, keep \in BOOLEAN : DoWork(fail, keep)
        \/ \E l \in locked : Unlocks(l)
        \/ RetainLockedFrame \/ WaitWork
        \/ StopQueues
        \/ \E abort \in BOOLEAN : FreeEncoder(abort)
        \/ Release

Spec == Init /\ [][Next]_inputVars

-----------------------------------------------------------------------------
(* Properties *)

InputTypeOK ==
    /\ layout \in Layouts /\ state \in {"stopped", "running", "halted", "stopping", "released"}
    /\ session \in 0 .. opened /\ encoder \in 0 .. opened /\ vpp.session \in 0 .. opened
    /\ vpp.surfaces \in 0 .. VppSurfaces
    /\ {video, allocatorSet, determined, conversion, pool} \subseteq BOOLEAN
    /\ Cardinality(Locked) = Cardinality(locked)  \* no frame is put in a surface that is read
    /\ frames <= MaxFrames /\ starts <= MaxStarts

\* The conversion and the encoder live in the session that is open, whatever starts opened and
\* closed it, and only as long as the device does: "If an allocator exists then some error in
\* resource release order" (mfx_dev_va.cpp:110).
OnOpenSession ==
    /\ vpp.session \in {0, session} /\ encoder \in {0, session}
    /\ device = "closed" => ~vpp.allocator
    /\ session # 0 => device = "open"

\* While the hardware reads a surface the frame it shows is kept, although the surface goes from
\* frame to frame (MFXGetFreeSurfaceIdx, ProcessFrameVpp, RetainLockedFrame, WaitWork).
FrameKeptWhileRead ==
    state # "stopping" =>
        \A l \in locked : \E task \in retained \cup { tasks[k] : k \in DOMAIN tasks } :
            task.frame = l.frame /\ task.surface = l.surface
=============================================================================
