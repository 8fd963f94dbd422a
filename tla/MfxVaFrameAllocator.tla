------------------------- MODULE MfxVaFrameAllocator -------------------------
(***************************************************************************)
(* MfxVaFrameAllocator: the surfaces and buffers of libva that stand       *)
(* behind the frames.  The hardware library asks for whole responses       *)
(* (AllocFrames, FreeFrames) and locks frames to read or write them with   *)
(* the processor; the components have the gralloc buffers of the client    *)
(* wrapped as surfaces, one surface for one backing store, for as long as  *)
(* the mapping is kept.                                                    *)
(*                                                                         *)
(* libva itself is external: an object of it is a number, every call may   *)
(* fail.  Each function runs under m_mutex, so each is one step.           *)
(***************************************************************************)
EXTENDS Naturals, Sequences, FiniteSets, SequencesExt

CONSTANTS Responses,  \* the responses the hardware library holds
          Stores,     \* the backing stores of the gralloc buffers
          MaxObjects, \* bound: objects of libva ever made
          MaxFrames   \* bound: frames of one response

VARIABLES
  objects,   \* the live objects of libva: surfaces, coded buffers, images
  made,      \* how many were made
  response,  \* the mids of each response: <<>> when mids is null
  mapping,   \* m_mappedVaSurfaces: set of [store, mid]
  given,     \* the mem ids ConvertGrallocToVa has answered and the component still uses
  image,     \* the frames that are locked: set of [surface, image], image 0 for a coded buffer
  faulted    \* a call of libva has failed on a path that keeps what it had made
vaVars == <<objects, made, response, mapping, given, image, faulted>>

-----------------------------------------------------------------------------
(* Formats *)

MfxFormats == {"NV12", "P010", "P8", "YV12", "RGB4"}
GrallocFormats == {"NV12_Y_TILED", "NV12_LINEAR_CAMERA", "P010", "RGBA", "RGBX", "BGRA", "YV12", "BLOB"}

\* ConvertMfxFourccToVAFormat; "none" is 0.
MfxToVa(f) == CASE f = "P8" -> "P208" [] f = "RGB4" -> "none" [] OTHER -> f

\* ConvertGrallocFourccToVAFormat
GrallocToVa(f) == CASE f \in {"NV12_Y_TILED", "NV12_LINEAR_CAMERA"} -> "NV12"
                    [] f = "BLOB" -> "none"
                    [] OTHER -> f

\* ConvertVAFourccToMfxFormat
VaToMfx(f) == CASE f \in {"RGBA", "BGRA", "RGBX"} -> "RGB4"
                [] f \in {"NV12", "P010", "YV12"} -> f
                [] OTHER -> "none"

\* ConvertVAFourccToVARTFormat and ConvertVAFourccToDrmFormat
VaToRt(f) == CASE f \in {"NV12", "YV12"} -> "YUV420"
               [] f \in {"RGBA", "BGRA", "RGBX"} -> "RGB32"
               [] f = "P010" -> "YUV420_10"
               [] OTHER -> "none"
VaToDrm(f) == IF f = "YV12" THEN "YVU420" ELSE IF f = "P208" THEN "none" ELSE f

\* The formats MapGrallocBufferToSurface accepts, and what the surface is made with.
Mappable == GrallocFormats \ {"BLOB"}
SurfaceOf(f) == [fourcc |-> VaToMfx(GrallocToVa(f)), rt |-> VaToRt(GrallocToVa(f)),
                 drm |-> VaToDrm(GrallocToVa(f)),
                 tiled |-> f \in {"NV12_Y_TILED", "P010"}]

\* Every buffer that is mapped has a format in each of the tables.
TablesAgree == \A f \in Mappable : "none" \notin {SurfaceOf(f).fourcc, SurfaceOf(f).rt, SurfaceOf(f).drm}

\* What a mid says of itself.  fourcc_ decides what destroys and what maps it.
Mid == [fourcc : MfxFormats, surface : Nat]

-----------------------------------------------------------------------------
Init == /\ objects = {} /\ made = 0
        /\ response = [r \in Responses |-> <<>>]
        /\ mapping = {} /\ given = {} /\ image = {} /\ faulted = FALSE

New(n) == made + 1 .. made + n
Surfaces(mids) == { mids[i].surface : i \in 1..Len(mids) }
Frames == (UNION { ToSet(response[r]) : r \in Responses }) \union { m.mid : m \in mapping }
LockedSurfaces == { l.surface : l \in image }

-----------------------------------------------------------------------------
(* AllocFrames and FreeFrames *)

AllocFrames(r, f, n) ==
    /\ response[r] = <<>> /\ made + n <= MaxObjects
    /\ MfxToVa(f) # "none" /\ n > 0
    /\ response' = [response EXCEPT ![r] = [i \in 1..n |-> [fourcc |-> f, surface |-> made + i]]]
    /\ objects' = objects \union New(n) /\ made' = made + n
    /\ UNCHANGED <<mapping, given, image, faulted>>

\* Slip: the first of them is forgotten (i > 0).
DestroyedTail(created) == created \ {made + 1}

Destroyed(created) == created

\* Coded buffers are made one at a time: those made before the failure are destroyed.
AllocFramesFails(f, n) ==
    /\ f = "P8" /\ made + n < MaxObjects
    /\ made' = made + n
    /\ objects' = (objects \union New(n)) \ Destroyed(New(n))
    /\ UNCHANGED <<response, mapping, given, image, faulted>>

\* The library frees a response when none of its frames is locked.
FreeFrames(r) ==
    /\ response[r] # <<>> /\ Surfaces(response[r]) \intersect LockedSurfaces = {}
    /\ objects' = objects \ Surfaces(response[r])
    /\ response' = [response EXCEPT ![r] = <<>>]
    /\ UNCHANGED <<made, mapping, given, image, faulted>>

-----------------------------------------------------------------------------
(* LockFrame and UnlockFrame: a frame is locked once at a time *)

\* A coded buffer is mapped; of a surface an image is derived, and the image is mapped.
\* Only an image of NV12 for an NV12 frame can be shown (InitMfxFrameData).
LockFrame(mid) ==
    /\ mid.surface \notin LockedSurfaces
    /\ \/ /\ mid.fourcc = "P8"
          /\ image' = image \union {[surface |-> mid.surface, image |-> 0]}
          /\ UNCHANGED <<objects, made>>
       \/ /\ mid.fourcc = "NV12" /\ made < MaxObjects
          /\ image' = image \union {[surface |-> mid.surface, image |-> made + 1]}
          /\ objects' = objects \union New(1) /\ made' = made + 1
    /\ UNCHANGED <<response, mapping, given, faulted>>

\* vaSyncSurface or vaMapBuffer fails, or the format cannot be shown: the derived image is left,
\* and its caller, told of the failure, unlocks nothing.
LockFrameFails(mid) ==
    /\ mid.surface \notin LockedSurfaces /\ mid.fourcc # "P8" /\ made < MaxObjects
    /\ objects' = objects \union New(1) /\ made' = made + 1
    /\ faulted' = TRUE
    /\ UNCHANGED <<response, mapping, given, image>>

UnlockFrame(l) ==
    /\ image' = image \ {l}
    /\ objects' = objects \ {l.image}
    /\ UNCHANGED <<made, response, mapping, given, faulted>>

\* vaUnmapBuffer or vaDestroyImage fails: early return, the image is left.
UnlockFrameFails(l) ==
    /\ image' = image \ {l} /\ l.image # 0
    /\ faulted' = TRUE
    /\ UNCHANGED <<objects, made, response, mapping, given>>

-----------------------------------------------------------------------------
(* The mappings of gralloc buffers *)

Mapped(s) == { m \in mapping : m.store = s }

ConvertGrallocToVa(s, f) ==
    IF Mapped(s) # {}
    THEN /\ given' = given \union { m.mid : m \in Mapped(s) }
         /\ UNCHANGED <<objects, made, response, mapping, image, faulted>>
    ELSE /\ f \in Mappable /\ made < MaxObjects
         /\ LET mid == [fourcc |-> SurfaceOf(f).fourcc, surface |-> made + 1]
            IN /\ mapping' = mapping \union {[store |-> s, mid |-> mid]}
               /\ given' = given \union {mid}
         /\ objects' = objects \union New(1) /\ made' = made + 1
         /\ UNCHANGED <<response, image, faulted>>

\* TouchSurface (large surfaces only) or the allocation of the mem id fails after vaCreateSurfaces;
\* the surface is left, and with it the image if vaUnmapBuffer was what failed.
MapGrallocBufferFails(s, images) ==
    /\ Mapped(s) = {} /\ made + 1 + images <= MaxObjects
    /\ objects' = objects \union New(1 + images) /\ made' = made + 1 + images
    /\ faulted' = TRUE
    /\ UNCHANGED <<response, mapping, given, image>>

\* The component that frees a mapping uses its mem id no more.
FreeGrallocToVaMapping(m) ==
    /\ m.mid.surface \notin LockedSurfaces
    /\ mapping' = mapping \ {m} /\ given' = given \ {m.mid}
    /\ objects' = objects \ {m.mid.surface}
    /\ UNCHANGED <<made, response, image, faulted>>

FreeAllMappings ==
    /\ mapping # {} /\ { m.mid.surface : m \in mapping } \intersect LockedSurfaces = {}
    /\ mapping' = {} /\ given' = {}
    /\ objects' = objects \ { m.mid.surface : m \in mapping }
    /\ UNCHANGED <<made, response, image, faulted>>

Next == \/ \E r \in Responses, f \in MfxFormats, n \in 0..MaxFrames : AllocFrames(r, f, n)
        \/ \E f \in MfxFormats, n \in 0..MaxFrames : AllocFramesFails(f, n)
        \/ \E r \in Responses : FreeFrames(r)
        \/ \E mid \in Frames : LockFrame(mid) \/ LockFrameFails(mid)
        \/ \E l \in image : UnlockFrame(l) \/ UnlockFrameFails(l)
        \/ \E s \in Stores, f \in GrallocFormats : ConvertGrallocToVa(s, f)
        \/ \E s \in Stores, images \in 0..1 : MapGrallocBufferFails(s, images)
        \/ \E m \in mapping : FreeGrallocToVaMapping(m)
        \/ FreeAllMappings
Spec == Init /\ [][Next]_vaVars

-----------------------------------------------------------------------------
(* Properties *)

\* The state has the shape of the code's members.
VaTypeOK ==
    /\ objects \subseteq 1..made /\ made \in 0..MaxObjects
    /\ \A r \in Responses : Len(response[r]) <= MaxFrames /\ ToSet(response[r]) \subseteq Mid
    /\ \A m \in mapping : m.store \in Stores /\ m.mid \in Mid
    /\ \A l \in image : l.surface \in 1..made /\ l.image \in 0..made

\* Whatever is still in use is alive: the frames of a response, the mem ids that
\* ConvertGrallocToVa has answered, the images of the locked frames; and a store has one surface.
UsedIsAlive ==
    /\ \A r \in Responses : Surfaces(response[r]) \subseteq objects
    /\ \A mid \in given : mid.surface \in objects
    /\ \A l \in image : {l.surface, l.image} \subseteq objects \union {0}
    /\ \A s \in Stores : Cardinality(Mapped(s)) <= 1

\* Unless a call of libva has failed half way, nothing is alive that no response, mapping or
\* locked frame will destroy.
NothingLeft ==
    faulted \/ objects = (UNION { Surfaces(response[r]) : r \in Responses })
                         \union { m.mid.surface : m \in mapping }
                         \union ({ l.image : l \in image } \ {0})
=============================================================================
