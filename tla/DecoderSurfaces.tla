--------------------------- MODULE DecoderSurfaces ---------------------------
(***************************************************************************)
(* The surfaces of MfxC2DecoderComponent when it decodes into video        *)
(* memory: AllocateFrame, the surface part of DecodeFrame, WaitWork and    *)
(* HandleFormatChange, with MfxC2FrameOut (c2_buffers) as the pair of a    *)
(* graphic block and a surface.                                            *)
(*                                                                         *)
(* Two threads allocate frames: the working one for the decoder and, when  *)
(* frames are converted to 8 bits, the waiting one for the result.  Both   *)
(* use m_surfaces and no mutex; here find and emplace are one step, and    *)
(* what two at once do to the map is left out.                             *)
(*                                                                         *)
(* The block pool of the framework, the hardware decoder and the client    *)
(* are external.  The pool gives out a buffer again when nobody holds a    *)
(* block of it, and also when the client has shown it, whoever still holds *)
(* a block.  The decoder keeps a surface Locked until its frame is output  *)
(* and, as a reference, for some time after that.                          *)
(***************************************************************************)
EXTENDS Naturals, Sequences

CONSTANTS Buffers,      \* the backing stores of the format the decoder writes
          VppBuffers,   \* and of NV12, which the conversion writes
          MaxSurfaces   \* bound: surfaces made in a behaviour

VARIABLES
  surfaces,  \* m_surfaces: per buffer its surface, 0 if it is not in the map
  bufferOf,  \* the buffer of every surface made
  locked,    \* the surfaces with Data.Locked
  hidden,    \* the surfaces whose frame the decoder has still to output
  conversion,  \* m_vppConversion
  lockedSurfaces,  \* m_lockedSurfaces
  fetch,     \* the working thread: "idle", "searching" or "got" in AllocateFrame, "decoded"
             \* after DecodeFrameAsync, or "reset" in the reset of a flush
  flushing,  \* Flush has still to clear the lists
  tried,     \* the blocks it keeps while it searches
  work,      \* the surface it got
  decoded,   \* the surface DecodeFrameAsync has output, 0 if none
  waiting,   \* the frames of the WaitWork tasks, those in m_waitingQueue
  waiter,    \* the surface of the frame WaitWork has, 0 if none
  vppWork,   \* the surface its conversion got
  removed,   \* WaitWork has taken the frame out of m_lockedSurfaces
  client,    \* the buffers the client has
  shown      \* the buffers the client has shown since they were fetched
workingVars == <<fetch, tried, work, decoded>>
waitingVars == <<waiter, vppWork, removed>>
surfaceVars == <<surfaces, bufferOf, locked, hidden, conversion, lockedSurfaces, flushing, waiting,
                 client, shown, workingVars, waitingVars>>

Made == DOMAIN bufferOf
Waiting == { waiting[k] : k \in DOMAIN waiting }
BuffersOf(set) == { bufferOf[s] : s \in set }

Init == /\ surfaces = [b \in Buffers \cup VppBuffers |-> 0]
        /\ bufferOf = <<>>
        /\ locked = {} /\ hidden = {} /\ lockedSurfaces = {}
        /\ conversion \in BOOLEAN
        /\ fetch = "idle" /\ flushing = FALSE /\ tried = {} /\ work = 0 /\ decoded = 0
        /\ waiting = <<>> /\ waiter = 0 /\ vppWork = 0 /\ removed = FALSE
        /\ client = {} /\ shown = {}

-----------------------------------------------------------------------------
(* AllocateFrame *)

\* The blocks of the component, those in m_lockedSurfaces apart.
Held == tried \cup BuffersOf(Waiting \cup ({waiter, work} \ {0}))
Available == { b \in Buffers \ (Held \cup client) :
                  b \in shown \/ b \notin BuffersOf(lockedSurfaces) }

\* MfxC2FrameOut::Create: a surface for a buffer that has none.
Create(b) == /\ Len(bufferOf) < MaxSurfaces
             /\ bufferOf' = Append(bufferOf, b)
             /\ surfaces' = [surfaces EXCEPT ![b] = Len(bufferOf) + 1]

\* The search ends with surface s.
Got(s) == fetch' = "got" /\ tried' = {} /\ work' = s

\* AllocateC2Block gave b: a surface is made for it, its own is used, or, when that one is
\* locked, the block is kept and another one is asked for.
Use(b) ==
    /\ shown' = shown \ {b}
    /\ \/ surfaces[b] = 0 /\ Create(b) /\ Got(Len(bufferOf) + 1)
       \/ /\ surfaces[b] \in Made \ locked /\ Got(surfaces[b])
          /\ UNCHANGED <<bufferOf, surfaces>>
       \/ /\ surfaces[b] \in locked
          /\ fetch' = "searching" /\ tried' = tried \cup {b}
          /\ UNCHANGED <<bufferOf, surfaces, work>>
    /\ UNCHANGED <<locked, hidden, conversion, flushing, decoded, waiting, waitingVars, client>>

\* m_lockedSurfaces.remove_if(pred_unlocked), then a block.
AllocateFrame == /\ fetch = "idle" /\ ~flushing
                 /\ lockedSurfaces' = lockedSurfaces \cap locked
                 /\ \E b \in Available : Use(b)

SearchOn == /\ fetch = "searching"
            /\ \E b \in Available : Use(b)
            /\ UNCHANGED lockedSurfaces

\* The component is stopping, or there is no block, no handle, no backing store or no
\* surface to be had; the blocks kept so far are let go.
AllocateFails == /\ fetch = "searching" \/ (fetch = "idle" /\ ~flushing)
                 /\ lockedSurfaces' = IF fetch = "idle" THEN lockedSurfaces \cap locked
                                      ELSE lockedSurfaces
                 /\ fetch' = "idle" /\ tried' = {}
                 /\ UNCHANGED <<surfaces, bufferOf, locked, hidden, conversion, flushing, work,
                                decoded, waiting, waitingVars, client, shown>>

-----------------------------------------------------------------------------
(* DecodeFrame *)

\* DecodeFrameAsync fills the surface or leaves it, and may output a frame.
Filled(fill) == IF fill THEN {work} ELSE {}

DecodeFrameAsync(fill, out) ==
    /\ fetch = "got"
    /\ out \in hidden \cup Filled(fill) \cup {0}
    /\ locked' = locked \cup Filled(fill)
    /\ hidden' = (hidden \cup Filled(fill)) \ {out}
    /\ fetch' = "decoded" /\ decoded' = out
    /\ UNCHANGED <<surfaces, bufferOf, conversion, lockedSurfaces, flushing, tried, work, waiting,
                   waitingVars, client, shown>>

\* Under m_lockedSurfacesMutex; a frame that is not found there is not waited for.
DecodeFrame ==
    /\ fetch = "decoded"
    /\ lockedSurfaces' = lockedSurfaces \cup {work}
    /\ waiting' = IF decoded \in lockedSurfaces' THEN Append(waiting, decoded) ELSE waiting
    /\ fetch' = "idle" /\ work' = 0 /\ decoded' = 0
    /\ UNCHANGED <<surfaces, bufferOf, locked, hidden, conversion, flushing, tried, waitingVars,
                   client, shown>>

\* An error: the frame is dropped.
DecodeFails == /\ fetch = "got"
               /\ fetch' = "idle" /\ work' = 0
               /\ UNCHANGED <<surfaces, bufferOf, locked, hidden, conversion, lockedSurfaces,
                              flushing, tried, decoded, waiting, waitingVars, client, shown>>

\* A frame that was output is no reference any more.
Unlocks(s) == /\ s \in locked \ hidden
              /\ locked' = locked \ {s}
              /\ UNCHANGED <<surfaces, bufferOf, hidden, conversion, lockedSurfaces, flushing,
                             waiting, client, shown, workingVars, waitingVars>>

\* The task Flush pushes; the decoder lets go of every surface.
DecoderReset == /\ fetch = "idle" /\ ~flushing
                /\ fetch' = "reset" /\ flushing' = TRUE
                /\ UNCHANGED <<surfaces, bufferOf, locked, hidden, conversion, lockedSurfaces,
                               tried, work, decoded, waiting, waitingVars, client, shown>>
DecoderResetEnds == /\ fetch = "reset"
                    /\ fetch' = "idle" /\ locked' = {} /\ hidden' = {}
                    /\ UNCHANGED <<surfaces, bufferOf, conversion, lockedSurfaces, flushing, tried,
                                   work, decoded, waiting, waitingVars, client, shown>>

\* The end of Flush, on the caller's thread: the last tasks of both queues were taken, which
\* does not mean that they are done.
FlushClears == /\ flushing /\ waiting = <<>>
               /\ flushing' = FALSE
               /\ lockedSurfaces' = {}
               /\ surfaces' = [b \in Buffers \cup VppBuffers |-> 0]
               /\ UNCHANGED <<bufferOf, locked, hidden, conversion, waiting, client, shown,
                              workingVars, waitingVars>>

\* HandleFormatChange, FreeDecoder: the drain before may have timed out.  InitDecoder may then
\* find that the frames have to be converted, and that stays.
FormatChange == /\ fetch = "idle" /\ ~flushing
                /\ locked' = {} /\ hidden' = {} /\ lockedSurfaces' = {}
                /\ surfaces' = [b \in Buffers \cup VppBuffers |-> 0]
                /\ conversion' \in {conversion, TRUE}
                /\ UNCHANGED <<bufferOf, flushing, waiting, client, shown, workingVars, waitingVars>>

-----------------------------------------------------------------------------
(* WaitWork *)

\* The task is taken; what follows is done with its copy of the frame.
WaitWork == /\ waiter = 0 /\ waiting # <<>>
            /\ waiter' = Head(waiting) /\ waiting' = Tail(waiting)
            /\ UNCHANGED <<surfaces, bufferOf, locked, hidden, conversion, lockedSurfaces, flushing,
                           vppWork, removed, client, shown, workingVars>>

\* AllocateFrame(&frameOutVpp, true): its own remove_if, and a block of the other format, whose
\* surface the decoder never locks.
ConvertFrame(b) ==
    /\ waiter # 0 /\ ~removed /\ conversion /\ vppWork = 0
    /\ b \notin client
    /\ lockedSurfaces' = lockedSurfaces \cap locked
    /\ shown' = shown \ {b}
    /\ IF surfaces[b] = 0 THEN Create(b) /\ vppWork' = Len(bufferOf) + 1
       ELSE vppWork' = surfaces[b] /\ UNCHANGED <<bufferOf, surfaces>>
    /\ UNCHANGED <<locked, hidden, conversion, flushing, waiting, waiter, removed, client,
                   workingVars>>

\* The conversion has no surface for its result: the frame is dropped before
\* m_lockedSurfaces.remove.
WaitWorkFails == /\ waiter # 0 /\ ~removed /\ conversion /\ vppWork = 0
                 /\ lockedSurfaces' \in {lockedSurfaces, lockedSurfaces \cap locked}
                 /\ waiter' = 0
                 /\ UNCHANGED <<surfaces, bufferOf, locked, hidden, conversion, flushing, waiting,
                                vppWork, removed, client, shown, workingVars>>

\* m_lockedSurfaces.remove(frame_out)
RemoveFrame == /\ waiter # 0 /\ ~removed
               /\ vppWork = 0 => ~conversion
               /\ removed' = TRUE /\ lockedSurfaces' = lockedSurfaces \ {waiter}
               /\ UNCHANGED <<surfaces, bufferOf, locked, hidden, conversion, flushing, waiting,
                              waiter, vppWork, client, shown, workingVars>>

\* Slip: a frame that is still locked is not put back.
RelockedNot == {}

Relocked == {waiter} \cap locked

\* Data.Locked is read; the block, of the frame or of its conversion, goes to the client if the
\* work is still there.
Result == IF vppWork = 0 THEN waiter ELSE vppWork
WaitWorkEnds(found) ==
    /\ removed
    /\ lockedSurfaces' = lockedSurfaces \cup Relocked
    /\ client' = IF found THEN client \cup {bufferOf[Result]} ELSE client
    /\ waiter' = 0 /\ vppWork' = 0 /\ removed' = FALSE
    /\ UNCHANGED <<surfaces, bufferOf, locked, hidden, conversion, flushing, waiting, shown,
                   workingVars>>

\* The client lets go of the buffer, having shown it or not.
ClientReturns(b, seen) ==
    /\ b \in client
    /\ client' = client \ {b}
    /\ shown' = IF seen THEN shown \cup {b} ELSE shown
    /\ UNCHANGED <<surfaces, bufferOf, locked, hidden, conversion, lockedSurfaces, flushing, waiting,
                   workingVars, waitingVars>>

Next == \/ AllocateFrame \/ SearchOn \/ AllocateFails
        \/ \E fill \in BOOLEAN, out \in hidden \cup {work, 0} : DecodeFrameAsync(fill, out)
        \/ DecodeFrame
        \/ DecodeFails \/ DecoderReset \/ DecoderResetEnds \/ FlushClears \/ FormatChange
        \/ \E s \in locked : Unlocks(s)
        \/ WaitWork \/ WaitWorkFails \/ RemoveFrame
        \/ \E b \in VppBuffers : ConvertFrame(b)
        \/ \E found \in BOOLEAN : WaitWorkEnds(found)
        \/ \E b \in client, seen \in BOOLEAN : ClientReturns(b, seen)

Spec == Init /\ [][Next]_surfaceVars

-----------------------------------------------------------------------------
(* Properties *)

SurfaceTypeOK ==
    /\ bufferOf \in Seq(Buffers \cup VppBuffers) /\ Len(bufferOf) <= MaxSurfaces
    /\ surfaces \in [Buffers \cup VppBuffers -> {0} \cup Made]
    /\ hidden \subseteq locked
    /\ locked \cup lockedSurfaces \subseteq { s \in Made : bufferOf[s] \in Buffers }
    /\ fetch \in {"idle", "searching", "got", "decoded", "reset"}
    /\ {flushing, conversion, removed} \subseteq BOOLEAN
    /\ tried \subseteq Buffers
    /\ (fetch \in {"got", "decoded"}) <=> (work # 0)
    /\ Waiting \subseteq Made /\ {waiter, work, decoded, vppWork} \subseteq Made \cup {0}
    /\ vppWork # 0 => bufferOf[vppWork] \in VppBuffers
    /\ client \cup shown \subseteq Buffers \cup VppBuffers
    /\ \A b \in Buffers \cup VppBuffers : surfaces[b] # 0 => bufferOf[surfaces[b]] = b

\* The memory the decoder is given to write to is nobody else's: it is not a picture it
\* still refers to, not one that waits to be returned or converted and not one the client has;
\* nor has the client what a conversion writes to (AllocateFrame, WaitWork, HandleFormatChange).
NotOverwritten ==
    /\ fetch = "got" => bufferOf[work] \notin BuffersOf(locked \cup Waiting \cup ({waiter} \ {0}))
                                              \cup client
    /\ vppWork # 0 => bufferOf[vppWork] \notin client

\* The block of a surface that is locked is held, so that the pool does not give its memory away.
\* Flush may let go of the blocks while the decoder is still resetting, and only then.  DecodeFrame
\* finds the frame the decoder has output ("found != end()"), if no conversion has dropped it from
\* the list in between.
KeptWhileLocked ==
    fetch # "reset" =>
    /\ locked \subseteq lockedSurfaces \cup Waiting \cup {waiter, work}
    /\ hidden \subseteq lockedSurfaces \cup {work}
    /\ ~conversion => decoded \in lockedSurfaces \cup {work, 0}
=============================================================================
