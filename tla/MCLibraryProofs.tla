---------------------------- MODULE MCLibraryProofs ----------------------------
(***************************************************************************)
(* Proofs about the parts around the two codecs, for any number of         *)
(* buffers, threads, names and items, and any bound.  A step of MCLibrary  *)
(* is a step of one part and leaves the others as they are, so an          *)
(* inductive invariant of a part is one of the whole.                      *)
(***************************************************************************)
EXTENDS MCLibrary, WorkLists, WellFoundedInduction

-----------------------------------------------------------------------------
(* DecoderSurfaces *)

SurfacesConstants == MaxSurfaces \in Nat /\ Buffers \cap VppBuffers = {}

\* Surfaces are asked for and written to only between two flushes; a flush that is not over has
\* reset the decoder or is about to.
FlushIsApart ==
    /\ flushing => fetch \in {"idle", "reset"}
    /\ flushing /\ fetch = "idle" => locked = {}

\* The surface that is being written to, and the surfaces the decoder refers to, are those of
\* their buffers in the map, so that a buffer has at most one of them.
CurrentSurfaces ==
    /\ fetch \in {"got", "decoded"} => surfaces[bufferOf[work]] = work
    /\ fetch # "reset" => \A s \in locked : surfaces[bufferOf[s]] = s

\* A frame is output once: the one that waits to be returned is no longer hidden, and the one just
\* output does not wait yet.
OutputOnce ==
    /\ waiting \in Seq(Nat)
    /\ hidden \cap (Surfaces!Waiting \cup {waiter, decoded}) = {}
    /\ decoded # 0 => fetch = "decoded" /\ decoded \notin Surfaces!Waiting \cup {waiter}

\* The thread that waits has one frame, and takes it out of m_lockedSurfaces after its conversion.
OneFrame ==
    /\ removed => waiter # 0
    /\ vppWork # 0 => waiter # 0

\* What the decoder refers to is held by m_lockedSurfaces, or just being looked at by WaitWork or
\* DecodeFrame.
LockedIsHeld ==
    fetch # "reset" =>
    /\ locked \subseteq lockedSurfaces \cup {waiter, work} /\ hidden \subseteq lockedSurfaces \cup {work}
    /\ removed \/ locked \subseteq lockedSurfaces \cup {work}
    /\ ~converts => decoded \in lockedSurfaces \cup {work, 0}

\* The working thread has no surface the waiting one has.
WorkIsApart ==
    fetch \in {"got", "decoded"} =>
        work \notin Surfaces!Waiting \cup {waiter, vppWork} /\ bufferOf[work] \in Buffers

SurfacesInv == /\ Surfaces!SurfaceTypeOK /\ FlushIsApart /\ CurrentSurfaces /\ OutputOnce
               /\ OneFrame /\ LockedIsHeld /\ WorkIsApart /\ Surfaces!NotOverwritten

\* The buffer of a surface made is a buffer, and 0 is no surface.
LEMMA MadeSurfaces ==
    ASSUME Surfaces!SurfaceTypeOK
    PROVE  /\ Surfaces!Made = 1 .. Len(bufferOf) /\ Len(bufferOf) \in Nat
           /\ 0 \notin Surfaces!Made
           /\ \A s \in Surfaces!Made : bufferOf[s] \in Buffers \cup VppBuffers
  BY DEF Surfaces!SurfaceTypeOK, Surfaces!Made

\* Another surface leaves those made as they are.
LEMMA OneMoreSurface ==
    ASSUME MaxSurfaces \in Nat, Surfaces!SurfaceTypeOK,
           NEW b \in Buffers \cup VppBuffers, Surfaces!Create(b)
    PROVE  /\ bufferOf' \in Seq(Buffers \cup VppBuffers) /\ Len(bufferOf') <= MaxSurfaces
           /\ Surfaces!Made' = Surfaces!Made \cup {Len(bufferOf) + 1}
           /\ Len(bufferOf) + 1 \in Nat \ {0} /\ Len(bufferOf) + 1 \notin Surfaces!Made
           /\ bufferOf'[Len(bufferOf) + 1] = b
           /\ \A s \in Surfaces!Made : bufferOf'[s] = bufferOf[s]
           /\ surfaces' = [surfaces EXCEPT ![b] = Len(bufferOf) + 1]
  BY DEF Surfaces!Create, Surfaces!SurfaceTypeOK, Surfaces!Made

LEMMA SurfacesInit == ASSUME MaxSurfaces \in Nat, Surfaces!Init PROVE SurfacesInv
  <1>1. /\ bufferOf \in Seq(Buffers \cup VppBuffers) /\ Len(bufferOf) = 0 /\ waiting \in Seq(Nat)
        /\ Surfaces!Waiting = {} /\ Surfaces!Made = {}
    <2>1. DOMAIN <<>> = {} /\ Len(<<>>) = 0
      OBVIOUS
    <2> QED
      BY <2>1 DEF Surfaces!Init, Surfaces!Waiting, Surfaces!Made
  <1>2. Surfaces!SurfaceTypeOK
    <2>1. /\ surfaces \in [Buffers \cup VppBuffers -> {0} \cup Surfaces!Made]
          /\ \A b \in Buffers \cup VppBuffers : surfaces[b] = 0
      BY DEF Surfaces!Init
    <2>2. fetch = "idle" /\ work = 0 /\ {flushing, converts, removed} \subseteq BOOLEAN
      BY DEF Surfaces!Init
    <2> QED
      BY <1>1, <2>1, <2>2 DEF Surfaces!Init, Surfaces!SurfaceTypeOK
  <1> QED
    BY <1>1, <1>2 DEF Surfaces!Init, SurfacesInv, FlushIsApart, CurrentSurfaces, OutputOnce, OneFrame,
                      LockedIsHeld, WorkIsApart, Surfaces!NotOverwritten

\* A block the pool gives is of a buffer that no frame in flight and no client has; with the
\* surface the search ends with, the decoder writes to nobody else's memory.
LEMMA UseKeeps ==
    ASSUME SurfacesConstants, SurfacesInv,
           fetch \in {"idle", "searching"}, fetch = "idle" => ~flushing,
           lockedSurfaces' \in {lockedSurfaces, lockedSurfaces \cap locked},
           NEW b \in Surfaces!Available, Surfaces!Use(b)
    PROVE  SurfacesInv'
  <1> USE DEF SurfacesConstants, Surfaces!workingVars, Surfaces!waitingVars
  <1>1. /\ b \in Buffers /\ b \notin client
        /\ \A s \in Surfaces!Waiting \cup ({waiter} \ {0}) : bufferOf[s] # b
    BY DEF Surfaces!Available, Surfaces!Held, Surfaces!BuffersOf
  <1>2. work = 0 /\ ~flushing /\ decoded = 0
    BY DEF SurfacesInv, Surfaces!SurfaceTypeOK, FlushIsApart, OutputOnce
  <1>3. /\ UNCHANGED <<locked, hidden, converts, flushing, decoded, waiting, waiter, vppWork,
                       removed, client, Surfaces!Waiting>>
        /\ shown' = shown \ {b}
    BY DEF Surfaces!Use, Surfaces!Waiting
  <1>4. fetch' # "reset" /\ fetch' # "decoded"
    BY DEF Surfaces!Use, Surfaces!Got
  <1>5. LockedIsHeld' /\ OutputOnce' /\ OneFrame'
    <2>1. 0 \notin locked /\ hidden \subseteq locked
      BY MadeSurfaces DEF SurfacesInv, Surfaces!SurfaceTypeOK
    <2> QED
      BY <1>2, <1>3, <1>4, <2>1 DEF SurfacesInv, LockedIsHeld, OutputOnce, OneFrame
  <1>6. b \notin VppBuffers /\ (vppWork # 0 => bufferOf[vppWork] # b)
    BY <1>1 DEF SurfacesInv, Surfaces!SurfaceTypeOK
  <1>7. CASE surfaces[b] = 0 /\ Surfaces!Create(b) /\ Surfaces!Got(Len(bufferOf) + 1)
    <2> DEFINE new == Len(bufferOf) + 1
    <2>1. /\ bufferOf' \in Seq(Buffers \cup VppBuffers) /\ Len(bufferOf') <= MaxSurfaces
          /\ Surfaces!Made' = Surfaces!Made \cup {new} /\ new \in Nat \ {0}
          /\ new \notin Surfaces!Made /\ bufferOf'[new] = b
          /\ \A s \in Surfaces!Made : bufferOf'[s] = bufferOf[s]
          /\ surfaces' = [surfaces EXCEPT ![b] = new]
      BY <1>1, <1>7, OneMoreSurface DEF SurfacesInv
    <2>2. fetch' = "got" /\ tried' = {} /\ work' = new
      BY <1>7 DEF Surfaces!Got
    <2> HIDE DEF new
    <2>3. Surfaces!SurfaceTypeOK'
      BY <1>1, <1>3, <2>1, <2>2 DEF SurfacesInv, Surfaces!SurfaceTypeOK
    <2>4. \A s \in locked : bufferOf[s] # b /\ s \in Surfaces!Made
      BY <1>2, <1>7, MadeSurfaces DEF SurfacesInv, CurrentSurfaces, Surfaces!SurfaceTypeOK
    <2>5. FlushIsApart' /\ CurrentSurfaces'
      BY <1>1, <1>2, <1>3, <2>1, <2>2, <2>4 DEF SurfacesInv, FlushIsApart, CurrentSurfaces,
                                                Surfaces!SurfaceTypeOK
    <2>6. Surfaces!NotOverwritten'
      BY <1>1, <1>3, <2>1, <2>2, <2>4 DEF SurfacesInv, Surfaces!NotOverwritten,
                                          Surfaces!BuffersOf, Surfaces!SurfaceTypeOK
    <2>7. WorkIsApart'
      BY <1>1, <1>3, <2>1, <2>2 DEF SurfacesInv, WorkIsApart, Surfaces!SurfaceTypeOK
    <2> QED
      BY <1>5, <2>3, <2>5, <2>6, <2>7 DEF SurfacesInv
  <1>8. CASE /\ surfaces[b] \in Surfaces!Made \ locked /\ Surfaces!Got(surfaces[b])
             /\ UNCHANGED <<bufferOf, surfaces>>
    <2>1. fetch' = "got" /\ tried' = {} /\ work' = surfaces[b] /\ UNCHANGED <<bufferOf, surfaces>>
      BY <1>8 DEF Surfaces!Got
    <2>2. surfaces[b] # 0 /\ bufferOf[surfaces[b]] = b
      BY <1>1, <1>8, MadeSurfaces DEF SurfacesInv, Surfaces!SurfaceTypeOK
    <2>3. Surfaces!SurfaceTypeOK'
      BY <1>1, <1>3, <1>8, <2>1, <2>2 DEF SurfacesInv, Surfaces!SurfaceTypeOK, Surfaces!Made
    <2>4. \A s \in locked : bufferOf[s] # b
      BY <1>8 DEF SurfacesInv, CurrentSurfaces
    <2>5. FlushIsApart' /\ CurrentSurfaces'
      BY <1>2, <1>3, <2>1, <2>2 DEF SurfacesInv, FlushIsApart, CurrentSurfaces
    <2>6. Surfaces!NotOverwritten'
      BY <1>1, <1>3, <2>1, <2>2, <2>4 DEF SurfacesInv, Surfaces!NotOverwritten, Surfaces!BuffersOf
    <2>7. WorkIsApart'
      BY <1>1, <1>3, <1>6, <2>1, <2>2 DEF SurfacesInv, WorkIsApart
    <2> QED
      BY <1>5, <2>3, <2>5, <2>6, <2>7 DEF SurfacesInv
  <1>9. CASE /\ surfaces[b] \in locked /\ fetch' = "searching" /\ tried' = tried \cup {b}
             /\ UNCHANGED <<bufferOf, surfaces, work>>
    <2>1. FlushIsApart' /\ CurrentSurfaces' /\ WorkIsApart' /\ Surfaces!NotOverwritten'
      BY <1>2, <1>3, <1>9 DEF SurfacesInv, FlushIsApart, CurrentSurfaces, WorkIsApart,
                              Surfaces!NotOverwritten
    <2>2. Surfaces!SurfaceTypeOK'
      BY <1>1, <1>2, <1>3, <1>9 DEF SurfacesInv, Surfaces!SurfaceTypeOK, Surfaces!Made
    <2> QED
      BY <1>5, <2>1, <2>2 DEF SurfacesInv
  <1> QED
    BY <1>7, <1>8, <1>9 DEF Surfaces!Use

\* DecodeFrameAsync and what follows it under the mutex.
LEMMA DecodeFrameAsyncKeeps ==
    ASSUME SurfacesInv, NEW fill \in BOOLEAN, NEW frame \in hidden \cup {work, 0},
           Surfaces!DecodeFrameAsync(fill, frame)
    PROVE  SurfacesInv'
  <1> DEFINE kept == Surfaces!Filled(fill)
  <1>1. /\ fetch = "got" /\ fetch' = "decoded" /\ decoded' = frame
        /\ kept \subseteq {work} /\ frame \in hidden \cup kept \cup {0}
        /\ locked' = locked \cup kept /\ hidden' = (hidden \cup kept) \ {frame}
        /\ UNCHANGED <<surfaces, bufferOf, converts, lockedSurfaces, flushing, tried, work, waiting,
                       waiter, vppWork, removed, client, shown, Surfaces!Waiting, Surfaces!Made>>
    BY DEF Surfaces!DecodeFrameAsync, Surfaces!Filled, Surfaces!waitingVars, Surfaces!Waiting,
           Surfaces!Made
  <1>2. /\ work \in Surfaces!Made /\ work # 0 /\ work \notin locked /\ ~flushing
        /\ work \notin Surfaces!Waiting \cup {waiter, vppWork} /\ bufferOf[work] \in Buffers
    BY <1>1, MadeSurfaces DEF SurfacesInv, Surfaces!SurfaceTypeOK, FlushIsApart, WorkIsApart,
                              Surfaces!NotOverwritten, Surfaces!BuffersOf
  <1> HIDE DEF kept
  <1>3. frame \in hidden \cup {work, 0} /\ hidden \subseteq locked /\ locked \subseteq Surfaces!Made
    BY <1>1 DEF SurfacesInv, Surfaces!SurfaceTypeOK
  <1>4. Surfaces!SurfaceTypeOK'
    BY <1>1, <1>2, <1>3 DEF SurfacesInv, Surfaces!SurfaceTypeOK
  <1>5. OutputOnce'
    BY <1>1, <1>2, <1>3, MadeSurfaces DEF SurfacesInv, OutputOnce
  <1>6. LockedIsHeld'
    BY <1>1, <1>2, <1>3 DEF SurfacesInv, LockedIsHeld
  <1>7. FlushIsApart' /\ CurrentSurfaces' /\ OneFrame' /\ WorkIsApart' /\ Surfaces!NotOverwritten'
    BY <1>1, <1>2 DEF SurfacesInv, FlushIsApart, CurrentSurfaces, OneFrame, WorkIsApart,
                      Surfaces!NotOverwritten
  <1> QED
    BY <1>4, <1>5, <1>6, <1>7 DEF SurfacesInv

LEMMA DecodeFrameKeeps == ASSUME SurfacesInv, Surfaces!DecodeFrame PROVE SurfacesInv'
  <1>1. /\ fetch = "decoded" /\ fetch' = "idle" /\ work' = 0 /\ decoded' = 0
        /\ lockedSurfaces' = lockedSurfaces \cup {work}
        /\ UNCHANGED <<surfaces, bufferOf, locked, hidden, converts, flushing, tried, waiter,
                       vppWork, removed, client, shown, Surfaces!Made>>
    BY DEF Surfaces!DecodeFrame, Surfaces!waitingVars, Surfaces!Made
  <1>2. /\ work \in Surfaces!Made /\ work # 0 /\ ~flushing /\ bufferOf[work] \in Buffers
        /\ decoded \in Surfaces!Made \cup {0} /\ 0 \notin Surfaces!Made
    BY <1>1, MadeSurfaces DEF SurfacesInv, Surfaces!SurfaceTypeOK, FlushIsApart, WorkIsApart
  <1>3. /\ waiting' \in Seq(Nat)
        /\ Listed(waiting') \subseteq Listed(waiting) \cup ({decoded} \ {0})
    <2>1. CASE decoded \in lockedSurfaces'
      <3>1. decoded \in Nat /\ decoded # 0 /\ waiting' = Append(waiting, decoded)
        BY <1>1, <1>2, <2>1, MadeSurfaces DEF Surfaces!DecodeFrame, SurfacesInv,
                                             Surfaces!SurfaceTypeOK
      <3> QED
        BY <3>1, ListedAppend DEF SurfacesInv, OutputOnce
    <2>2. CASE decoded \notin lockedSurfaces'
      BY <2>2 DEF Surfaces!DecodeFrame, SurfacesInv, OutputOnce
    <2> QED
      BY <2>1, <2>2
  <1>4. Surfaces!Waiting' \subseteq Surfaces!Waiting \cup ({decoded} \ {0})
    BY <1>3 DEF Surfaces!Waiting, Listed
  <1>5. Surfaces!SurfaceTypeOK'
    BY <1>1, <1>2, <1>4 DEF SurfacesInv, Surfaces!SurfaceTypeOK
  <1>6. OutputOnce'
    <2>1. 0 \notin hidden
      BY <1>2 DEF SurfacesInv, Surfaces!SurfaceTypeOK
    <2> QED
      BY <1>1, <1>3, <1>4, <2>1 DEF SurfacesInv, OutputOnce
  <1>7. LockedIsHeld'
    BY <1>1, <1>2 DEF SurfacesInv, LockedIsHeld
  <1>8. FlushIsApart' /\ CurrentSurfaces' /\ OneFrame' /\ WorkIsApart' /\ Surfaces!NotOverwritten'
    BY <1>1, <1>2 DEF SurfacesInv, FlushIsApart, CurrentSurfaces, OneFrame, WorkIsApart,
                      Surfaces!NotOverwritten
  <1> QED
    BY <1>5, <1>6, <1>7, <1>8 DEF SurfacesInv

\* The steps of WaitWork.
LEMMA WaitWorkTakes == ASSUME SurfacesInv, Surfaces!WaitWork PROVE SurfacesInv'
  <1>1. /\ waiter = 0 /\ waiting # <<>> /\ waiter' = Head(waiting) /\ waiting' = Tail(waiting)
        /\ UNCHANGED <<surfaces, bufferOf, locked, hidden, converts, lockedSurfaces, fetch, flushing,
                       tried, work, decoded, vppWork, removed, client, shown, Surfaces!Made>>
    BY DEF Surfaces!WaitWork, Surfaces!workingVars, Surfaces!Made
  <1>2. waiting' \in Seq(Nat) /\ Listed(waiting) = Listed(waiting') \cup {waiter'}
    BY <1>1, ListedTail DEF SurfacesInv, OutputOnce
  <1>3. Surfaces!Waiting = Surfaces!Waiting' \cup {waiter'}
    BY <1>2 DEF Surfaces!Waiting, Listed
  <1>4. waiter' # 0 /\ vppWork = 0 /\ ~removed
    BY <1>1, <1>3, MadeSurfaces DEF SurfacesInv, OneFrame, Surfaces!SurfaceTypeOK
  <1>5. Surfaces!SurfaceTypeOK'
    BY <1>1, <1>3 DEF SurfacesInv, Surfaces!SurfaceTypeOK
  <1>6. OutputOnce'
    BY <1>1, <1>2, <1>3 DEF SurfacesInv, OutputOnce
  <1>7. LockedIsHeld'
    BY <1>1, <1>4 DEF SurfacesInv, LockedIsHeld
  <1>8. Surfaces!NotOverwritten'
    BY <1>1, <1>3 DEF SurfacesInv, Surfaces!NotOverwritten, Surfaces!BuffersOf
  <1>9. FlushIsApart' /\ CurrentSurfaces' /\ OneFrame' /\ WorkIsApart'
    BY <1>1, <1>3, <1>4 DEF SurfacesInv, FlushIsApart, CurrentSurfaces, OneFrame, WorkIsApart
  <1> QED
    BY <1>5, <1>6, <1>7, <1>8, <1>9 DEF SurfacesInv

LEMMA ConvertFrameKeeps ==
    ASSUME SurfacesConstants, SurfacesInv, NEW b \in VppBuffers, Surfaces!ConvertFrame(b)
    PROVE  SurfacesInv'
  <1> USE DEF SurfacesConstants
  <1>1. /\ waiter # 0 /\ ~removed /\ converts /\ vppWork = 0 /\ b \notin client
        /\ lockedSurfaces' = lockedSurfaces \cap locked /\ shown' = shown \ {b}
        /\ UNCHANGED <<locked, hidden, converts, flushing, waiting, waiter, removed, client, fetch,
                       tried, work, decoded, Surfaces!Waiting>>
    BY DEF Surfaces!ConvertFrame, Surfaces!workingVars, Surfaces!Waiting
  <1>2. b \notin Buffers
    OBVIOUS
  <1>3. /\ bufferOf' \in Seq(Buffers \cup VppBuffers) /\ Len(bufferOf') <= MaxSurfaces
        /\ Surfaces!Made \subseteq Surfaces!Made' /\ 0 \notin Surfaces!Made
        /\ \A s \in Surfaces!Made : bufferOf'[s] = bufferOf[s]
        /\ surfaces' \in [Buffers \cup VppBuffers -> {0} \cup Surfaces!Made']
        /\ \A c \in Buffers : surfaces'[c] = surfaces[c]
        /\ \A c \in Buffers \cup VppBuffers : surfaces'[c] # 0 => bufferOf'[surfaces'[c]] = c
        /\ vppWork' \in Surfaces!Made' \ {0} /\ bufferOf'[vppWork'] = b
    <2>1. CASE surfaces[b] = 0
      <3>1. Surfaces!Create(b) /\ vppWork' = Len(bufferOf) + 1
        BY <2>1 DEF Surfaces!ConvertFrame
      <3> QED
        BY <3>1, OneMoreSurface, MadeSurfaces DEF SurfacesInv, Surfaces!SurfaceTypeOK
    <2>2. CASE surfaces[b] # 0
      <3>1. vppWork' = surfaces[b] /\ UNCHANGED <<bufferOf, surfaces, Surfaces!Made>>
        BY <2>2 DEF Surfaces!ConvertFrame, Surfaces!Made
      <3> QED
        BY <2>2, <3>1, MadeSurfaces DEF SurfacesInv, Surfaces!SurfaceTypeOK
    <2> QED
      BY <2>1, <2>2
  <1>4. /\ locked \cup Surfaces!Waiting \cup ({waiter, work} \ {0}) \subseteq Surfaces!Made
        /\ \A s \in locked : bufferOf[s] \in Buffers
    BY DEF SurfacesInv, Surfaces!SurfaceTypeOK
  <1>5. Surfaces!SurfaceTypeOK'
    BY <1>1, <1>3 DEF SurfacesInv, Surfaces!SurfaceTypeOK
  <1>6. CurrentSurfaces' /\ WorkIsApart'
    BY <1>1, <1>2, <1>3, <1>4 DEF SurfacesInv, CurrentSurfaces, WorkIsApart, Surfaces!SurfaceTypeOK
  <1>7. Surfaces!NotOverwritten'
    BY <1>1, <1>3, <1>4 DEF SurfacesInv, Surfaces!NotOverwritten, Surfaces!BuffersOf,
                            Surfaces!SurfaceTypeOK
  <1>8. FlushIsApart' /\ OutputOnce' /\ OneFrame' /\ LockedIsHeld'
    BY <1>1 DEF SurfacesInv, FlushIsApart, OutputOnce, OneFrame, LockedIsHeld, Surfaces!SurfaceTypeOK
  <1> QED
    BY <1>5, <1>6, <1>7, <1>8 DEF SurfacesInv

LEMMA WaitWorkGoesOn ==
    ASSUME SurfacesConstants, SurfacesInv,
           \/ Surfaces!WaitWorkFails \/ Surfaces!RemoveFrame
           \/ \E found \in BOOLEAN : Surfaces!WaitWorkEnds(found)
    PROVE  SurfacesInv'
  <1>1. /\ waiter # 0 /\ waiter \in Surfaces!Made
        /\ UNCHANGED <<surfaces, bufferOf, locked, hidden, converts, fetch, flushing, tried, work,
                       decoded, waiting, shown, Surfaces!Waiting, Surfaces!Made>>
    BY DEF Surfaces!WaitWorkFails, Surfaces!RemoveFrame, Surfaces!WaitWorkEnds, Surfaces!workingVars,
           Surfaces!Waiting, Surfaces!Made, SurfacesInv, OneFrame, Surfaces!SurfaceTypeOK
  <1>2. FlushIsApart' /\ CurrentSurfaces'
    BY <1>1 DEF SurfacesInv, FlushIsApart, CurrentSurfaces
  <1>3. 0 \notin Surfaces!Made /\ 0 \notin hidden /\ waiter \notin hidden /\ waiter # decoded
    BY <1>1, MadeSurfaces DEF SurfacesInv, OutputOnce, Surfaces!SurfaceTypeOK
  <1>4. CASE Surfaces!WaitWorkFails
    <2>1. /\ ~removed /\ converts /\ vppWork = 0 /\ waiter' = 0 /\ UNCHANGED <<vppWork, removed, client>>
          /\ lockedSurfaces' \in {lockedSurfaces, lockedSurfaces \cap locked}
      BY <1>4 DEF Surfaces!WaitWorkFails
    <2>2. Surfaces!SurfaceTypeOK' /\ OutputOnce' /\ OneFrame'
      BY <1>1, <1>3, <2>1, MadeSurfaces DEF SurfacesInv, OutputOnce, OneFrame, Surfaces!SurfaceTypeOK
    <2>3. LockedIsHeld'
      BY <1>1, <2>1 DEF SurfacesInv, LockedIsHeld, Surfaces!SurfaceTypeOK
    <2>4. WorkIsApart'
      BY <1>1, <2>1, MadeSurfaces DEF SurfacesInv, WorkIsApart, Surfaces!SurfaceTypeOK
    <2>5. Surfaces!NotOverwritten'
      BY <1>1, <2>1 DEF SurfacesInv, Surfaces!NotOverwritten, Surfaces!BuffersOf
    <2> QED
      BY <1>2, <2>2, <2>3, <2>4, <2>5 DEF SurfacesInv
  <1>5. CASE Surfaces!RemoveFrame
    <2>1. /\ ~removed /\ removed' = TRUE /\ lockedSurfaces' = lockedSurfaces \ {waiter}
          /\ UNCHANGED <<waiter, vppWork, client>>
      BY <1>5 DEF Surfaces!RemoveFrame
    <2>2. Surfaces!SurfaceTypeOK'
      <3>1. {flushing, converts, removed}' \subseteq BOOLEAN
        BY <1>1, <2>1 DEF SurfacesInv, Surfaces!SurfaceTypeOK
      <3> QED
        BY <1>1, <2>1, <3>1 DEF SurfacesInv, Surfaces!SurfaceTypeOK
    <2>3. LockedIsHeld'
      BY <1>1, <1>3, <2>1 DEF SurfacesInv, LockedIsHeld
    <2>4. OutputOnce' /\ OneFrame' /\ WorkIsApart'
      BY <1>1, <2>1 DEF SurfacesInv, OutputOnce, OneFrame, WorkIsApart
    <2>5. Surfaces!NotOverwritten'
      BY <1>1, <2>1 DEF SurfacesInv, Surfaces!NotOverwritten, Surfaces!BuffersOf
    <2> QED
      BY <1>2, <2>2, <2>3, <2>4, <2>5 DEF SurfacesInv
  <1>6. CASE \E found \in BOOLEAN : Surfaces!WaitWorkEnds(found)
    <2>1. /\ removed /\ removed' = FALSE /\ waiter' = 0 /\ vppWork' = 0
          /\ lockedSurfaces' = lockedSurfaces \cup ({waiter} \cap locked)
          /\ \/ client' = client \cup {bufferOf[Surfaces!Result]}
             \/ client' = client
      BY <1>6 DEF Surfaces!WaitWorkEnds, Surfaces!Relocked
    <2>2. /\ bufferOf[Surfaces!Result] \in Buffers \cup VppBuffers
          /\ Surfaces!Result \in {waiter, vppWork} \ {0}
      BY <1>1, <1>3, MadeSurfaces DEF SurfacesInv, Surfaces!SurfaceTypeOK, Surfaces!Result
    <2>3. Surfaces!SurfaceTypeOK'
      BY <1>1, <2>1, <2>2 DEF SurfacesInv, Surfaces!SurfaceTypeOK
    <2>4. OutputOnce' /\ OneFrame' /\ LockedIsHeld' /\ WorkIsApart'
      BY <1>1, <1>3, <2>1, MadeSurfaces
         DEF SurfacesInv, OutputOnce, OneFrame, LockedIsHeld, WorkIsApart, Surfaces!SurfaceTypeOK
    <2>5. fetch = "got" => bufferOf[work] # bufferOf[Surfaces!Result]
      BY <1>1, <1>3, <2>2 DEF SurfacesConstants, SurfacesInv, WorkIsApart, Surfaces!SurfaceTypeOK,
                             Surfaces!NotOverwritten, Surfaces!BuffersOf
    <2>6. Surfaces!NotOverwritten'
      BY <1>1, <2>1, <2>5 DEF SurfacesInv, Surfaces!NotOverwritten, Surfaces!BuffersOf
    <2> QED
      BY <1>2, <2>3, <2>4, <2>6 DEF SurfacesInv
  <1> QED
    BY <1>4, <1>5, <1>6

\* Every step of the surfaces keeps the invariant.
LEMMA SurfacesStep == ASSUME SurfacesConstants, SurfacesInv, Surfaces!Next PROVE SurfacesInv'
  <1>1. CASE Surfaces!AllocateFrame \/ Surfaces!SearchOn
    BY <1>1, UseKeeps DEF Surfaces!AllocateFrame, Surfaces!SearchOn
  <1>2. CASE \/ Surfaces!AllocateFails \/ Surfaces!DecodeFails
             \/ \E s \in locked : Surfaces!Unlocks(s)
    <2>1. /\ UNCHANGED <<surfaces, bufferOf, hidden, converts, flushing, decoded, waiting, waiter,
                         vppWork, removed, client, shown, Surfaces!Waiting, Surfaces!Made>>
          /\ \/ /\ fetch \in {"idle", "searching"} /\ fetch' = "idle" /\ tried' = {}
                /\ lockedSurfaces' \in {lockedSurfaces, lockedSurfaces \cap locked}
                /\ UNCHANGED <<work, locked>>
             \/ /\ fetch = "got" /\ fetch' = "idle" /\ work' = 0
                /\ UNCHANGED <<locked, lockedSurfaces, tried>>
             \/ /\ hidden \subseteq locked' /\ locked' \subseteq locked
                /\ UNCHANGED <<fetch, work, tried, lockedSurfaces>>
      BY <1>2 DEF Surfaces!AllocateFails, Surfaces!DecodeFails, Surfaces!Unlocks, Surfaces!Waiting,
                  Surfaces!Made, Surfaces!workingVars, Surfaces!waitingVars, SurfacesInv,
                  Surfaces!SurfaceTypeOK
    <2>2. fetch = "got" => work \notin locked
      BY DEF SurfacesInv, Surfaces!NotOverwritten, Surfaces!BuffersOf
    <2>3. Surfaces!SurfaceTypeOK'
      BY <2>1 DEF SurfacesInv, Surfaces!SurfaceTypeOK
    <2>4. FlushIsApart' /\ CurrentSurfaces' /\ OutputOnce' /\ OneFrame' /\ WorkIsApart'
      BY <2>1 DEF SurfacesInv, FlushIsApart, CurrentSurfaces, OutputOnce, OneFrame, WorkIsApart,
                  Surfaces!SurfaceTypeOK
    <2>5. LockedIsHeld'
      BY <2>1, <2>2 DEF SurfacesInv, LockedIsHeld, OutputOnce, Surfaces!SurfaceTypeOK
    <2>6. Surfaces!NotOverwritten'
      BY <2>1 DEF SurfacesInv, Surfaces!NotOverwritten, Surfaces!BuffersOf
    <2> QED
      BY <2>3, <2>4, <2>5, <2>6 DEF SurfacesInv
  <1>3. CASE \/ Surfaces!DecoderReset \/ Surfaces!DecoderResetEnds \/ Surfaces!FlushClears
             \/ Surfaces!FormatChange
    <2>1. /\ fetch \in {"idle", "reset"} /\ fetch' \in {"idle", "reset"}
          /\ UNCHANGED <<bufferOf, tried, work, decoded, waiting, waiter, vppWork, removed, client,
                         shown, Surfaces!Waiting, Surfaces!Made>>
          /\ flushing' \in BOOLEAN /\ converts' \in BOOLEAN
          /\ hidden' \subseteq hidden /\ locked' \subseteq locked /\ hidden' \subseteq locked'
          /\ lockedSurfaces' \subseteq lockedSurfaces
          /\ \A b \in Buffers \cup VppBuffers : surfaces'[b] \in {surfaces[b], 0}
          /\ surfaces' \in [Buffers \cup VppBuffers -> {0} \cup Surfaces!Made]
      BY <1>3 DEF Surfaces!DecoderReset, Surfaces!DecoderResetEnds, Surfaces!FlushClears,
                  Surfaces!FormatChange, Surfaces!Waiting, Surfaces!Made, Surfaces!workingVars,
                  Surfaces!waitingVars, SurfacesInv, Surfaces!SurfaceTypeOK, FlushIsApart
    <2>2. fetch' = "idle" => \/ locked' = {} /\ hidden' = {}
                             \/ UNCHANGED <<fetch, locked, hidden, surfaces, lockedSurfaces>>
      BY <1>3 DEF Surfaces!DecoderReset, Surfaces!DecoderResetEnds, Surfaces!FlushClears,
                  Surfaces!FormatChange, Surfaces!workingVars, FlushIsApart, SurfacesInv,
                  Surfaces!SurfaceTypeOK
    <2>3. flushing' /\ fetch' = "idle" => locked' = {}
      BY <1>3 DEF Surfaces!DecoderReset, Surfaces!DecoderResetEnds, Surfaces!FlushClears,
                  Surfaces!FormatChange, Surfaces!workingVars, FlushIsApart, SurfacesInv
    <2>4. Surfaces!SurfaceTypeOK'
      BY <2>1 DEF SurfacesInv, Surfaces!SurfaceTypeOK
    <2>5. decoded = 0
      BY <2>1 DEF SurfacesInv, OutputOnce
    <2> QED
      BY <2>1, <2>2, <2>3, <2>4, <2>5
         DEF SurfacesInv, FlushIsApart, CurrentSurfaces, OutputOnce, OneFrame, LockedIsHeld,
             WorkIsApart, Surfaces!NotOverwritten
  <1>4. ASSUME NEW b \in client, NEW seen \in BOOLEAN, Surfaces!ClientReturns(b, seen)
        PROVE  SurfacesInv'
    <2>1. /\ client' = client \ {b} /\ shown' \in {shown, shown \cup {b}}
          /\ UNCHANGED <<surfaces, bufferOf, locked, hidden, converts, lockedSurfaces, flushing,
                         waiting, fetch, tried, work, decoded, waiter, vppWork, removed,
                         Surfaces!Waiting, Surfaces!Made>>
      BY <1>4 DEF Surfaces!ClientReturns, Surfaces!workingVars, Surfaces!waitingVars,
                  Surfaces!Waiting, Surfaces!Made
    <2>2. Surfaces!SurfaceTypeOK'
      <3>1. client' \cup shown' \subseteq Buffers \cup VppBuffers
        BY <2>1 DEF SurfacesInv, Surfaces!SurfaceTypeOK
      <3> QED
        BY <2>1, <3>1 DEF SurfacesInv, Surfaces!SurfaceTypeOK
    <2>3. /\ FlushIsApart' /\ CurrentSurfaces' /\ OutputOnce' /\ OneFrame' /\ LockedIsHeld'
          /\ WorkIsApart'
      BY <2>1 DEF SurfacesInv, FlushIsApart, CurrentSurfaces, OutputOnce, OneFrame, LockedIsHeld,
                  WorkIsApart
    <2>4. Surfaces!NotOverwritten'
      BY <2>1 DEF SurfacesInv, Surfaces!NotOverwritten, Surfaces!BuffersOf
    <2> QED
      BY <2>2, <2>3, <2>4 DEF SurfacesInv
  <1>5. CASE \E fill \in BOOLEAN, frame \in hidden \cup {work, 0} : Surfaces!DecodeFrameAsync(fill, frame)
    BY <1>5, DecodeFrameAsyncKeeps
  <1>6. CASE \E b \in VppBuffers : Surfaces!ConvertFrame(b)
    BY <1>6, ConvertFrameKeeps
  <1> QED
    BY <1>1, <1>2, <1>3, <1>4, <1>5, <1>6, DecodeFrameKeeps, WaitWorkTakes, WaitWorkGoesOn
       DEF Surfaces!Next

-----------------------------------------------------------------------------
(* MfxC2ComponentStore *)

Component == [id : Nat, name : ComponentNames, dso : SharedObjects]

\* The limit of a configured name is a number; a thread is in one of its calls, or has a component.
StoreShape ==
    /\ \A n \in ComponentNames : registry[n] # <<>> => registry[n][1].limit \in Nat
    /\ thread \in [Binders -> {Store!Idle}
                              \cup [at : {"loaded"}, name : ComponentNames, dso : SharedObjects]
                              \cup [at : {"init", "owner"}, it : Component]
                              \cup [at : {"unload"}, dso : SharedObjects]]

\* The threads that have a component, and those that have a handle of a module to close.
Holders == { t \in Binders : thread[t].at \in {"init", "owner"} }
OpenedBy(d) == { t \in Binders : \/ thread[t].at \in {"loaded", "unload"} /\ thread[t].dso = d
                                 \/ thread[t].at \in {"init", "owner"} /\ thread[t].it.dso = d }

\* Every component is one thread's, which will delete it, and has a number of its own.
ComponentsHeld ==
    /\ objects = { thread[t].it : t \in Holders }
    /\ \A t, u \in Holders : thread[t].it = thread[u].it => t = u
    /\ \A o \in objects : o.id <= made

\* What is counted: the components of a name, and the handles of a module.
Counted ==
    /\ IsFiniteSet(objects) /\ Store!CountIsExact
    /\ \A d \in SharedObjects : IsFiniteSet(OpenedBy(d)) /\ handles[d] = Cardinality(OpenedBy(d))

StoreInv == Store!StoreTypeOK /\ StoreShape /\ ComponentsHeld /\ Counted /\ Store!RunningWithinLimit

\* The instance brings its own name for the number of elements.
LEMMA SameCardinality == \A S : Store!Cardinality(S) = Cardinality(S)
  BY DEF Store!Cardinality, Cardinality

\* What is counted of a set of components when one comes or goes.
LEMMA NamedMore ==
    ASSUME NEW S, IsFiniteSet(S), NEW o, o \notin S, NEW n
    PROVE  /\ IsFiniteSet(Store!Named(S, n)) /\ Cardinality(Store!Named(S, n)) \in Nat
           /\ Cardinality(Store!Named(S \cup {o}, n)) =
                IF o.name = n THEN Cardinality(Store!Named(S, n)) + 1
                ELSE Cardinality(Store!Named(S, n))
  <1>1. IsFiniteSet(Store!Named(S, n)) /\ Cardinality(Store!Named(S, n)) \in Nat
    BY FS_Subset, FS_CardinalityType DEF Store!Named
  <1>2. Store!Named(S \cup {o}, n) = IF o.name = n THEN Store!Named(S, n) \cup {o}
                                     ELSE Store!Named(S, n)
    BY DEF Store!Named
  <1>3. o \notin Store!Named(S, n)
    BY DEF Store!Named
  <1> QED
    BY <1>1, <1>2, <1>3, FS_AddElement

LEMMA NamedLess ==
    ASSUME NEW S, IsFiniteSet(S), NEW o \in S, NEW n
    PROVE  /\ IsFiniteSet(Store!Named(S, n)) /\ Cardinality(Store!Named(S, n)) \in Nat
           /\ Cardinality(Store!Named(S \ {o}, n)) \in Nat
           /\ Cardinality(Store!Named(S, n)) =
                IF o.name = n THEN Cardinality(Store!Named(S \ {o}, n)) + 1
                ELSE Cardinality(Store!Named(S \ {o}, n))
  <1>1. IsFiniteSet(S \ {o}) /\ o \notin S \ {o} /\ S = (S \ {o}) \cup {o}
    BY FS_RemoveElement
  <1>2. IsFiniteSet(Store!Named(S, n)) /\ Cardinality(Store!Named(S, n)) \in Nat
    BY FS_Subset, FS_CardinalityType DEF Store!Named
  <1> DEFINE T == S \ {o}
  <1> HIDE DEF T
  <1>3. /\ Cardinality(Store!Named(T, n)) \in Nat
        /\ Cardinality(Store!Named(T \cup {o}, n)) =
                IF o.name = n THEN Cardinality(Store!Named(T, n)) + 1
                ELSE Cardinality(Store!Named(T, n))
    BY <1>1, NamedMore DEF T
  <1> QED
    BY <1>1, <1>2, <1>3 DEF T

\* A part of the components of a name is no more than all of them.
LEMMA NamedPart ==
    ASSUME NEW S, IsFiniteSet(S), NEW T \in SUBSET S, NEW n
    PROVE  /\ Cardinality(Store!Named(T, n)) <= Cardinality(Store!Named(S, n))
           /\ Cardinality(Store!Named(T, n)) \in Nat /\ Cardinality(Store!Named(S, n)) \in Nat
  <1>1. IsFiniteSet(Store!Named(S, n)) /\ IsFiniteSet(Store!Named(T, n))
    BY FS_Subset DEF Store!Named
  <1>2. Store!Named(T, n) \in SUBSET Store!Named(S, n)
    BY DEF Store!Named
  <1> QED
    BY <1>1, <1>2, FS_Subset, FS_CardinalityType

\* The limits: what the configuration says, or none in a part that does not move.
LEMMA StoreInit ==
    ASSUME MaxMade \in Nat,
           \/ Store!Init
           \/ /\ registry = [n \in ComponentNames |-> <<>>]
              /\ monitor = [n \in ComponentNames |-> 0] /\ handles = [d \in SharedObjects |-> 0]
              /\ thread = [t \in Binders |-> Store!Idle]
              /\ objects = {} /\ started = {} /\ made = 0
    PROVE  StoreInv
  <1>1. /\ monitor = [n \in ComponentNames |-> 0] /\ handles = [d \in SharedObjects |-> 0]
        /\ thread = [t \in Binders |-> Store!Idle]
        /\ objects = {} /\ started = {} /\ made = 0
    BY DEF Store!Init
  <1>2. ASSUME NEW n \in ComponentNames, registry[n] # <<>>
        PROVE  registry[n][1].limit \in Nat
    <2>1. registry \in Store!Configurations
      BY <1>2 DEF Store!Init
    <2>2. \E lines, limit : /\ limit \in [ComponentNames -> 1 .. 2]
                            /\ registry = Store!ReadConfig(lines, limit)
      BY <2>1 DEF Store!Configurations
    <2>3. PICK lines, limit : /\ limit \in [ComponentNames -> 1 .. 2]
                              /\ registry = Store!ReadConfig(lines, limit)
      BY <2>2
    <2>4. \E dso : registry[n] = << [dso |-> dso, limit |-> limit[n]] >>
      BY <1>2, <2>3 DEF Store!ReadConfig
    <2> QED
      BY <2>3, <2>4
  <1>3. \A t \in Binders : thread[t].at = "idle"
    BY <1>1 DEF Store!Idle
  <1>4. /\ Holders = {} /\ \A d \in SharedObjects : OpenedBy(d) = {}
    BY <1>3 DEF Holders, OpenedBy
  <1>5. \A n \in ComponentNames : Store!Named(objects, n) = {}
    BY <1>1 DEF Store!Named
  <1>6. Store!StoreTypeOK
    BY <1>1, <1>3 DEF Store!StoreTypeOK, Store!Steps
  <1>7. StoreShape
    BY <1>1, <1>2 DEF StoreShape
  <1>8. ComponentsHeld /\ Counted
    <2>1. ComponentsHeld
      BY <1>1, <1>4 DEF ComponentsHeld
    <2>2. Cardinality({}) = 0 /\ IsFiniteSet({})
      BY FS_EmptySet
    <2>3. Store!CountIsExact
      <3> SUFFICES ASSUME NEW n \in ComponentNames
                   PROVE  monitor[n] = Cardinality(Store!Named(objects, n))
        BY SameCardinality DEF Store!CountIsExact
      <3>1. monitor[n] = 0
        BY <1>1
      <3> QED
        BY <1>5, <2>2, <3>1
    <2> QED
      BY <1>1, <1>4, <2>1, <2>2, <2>3 DEF Counted
  <1>9. Store!RunningWithinLimit
    BY <1>1 DEF Store!RunningWithinLimit
  <1> QED
    BY <1>6, <1>7, <1>8, <1>9 DEF StoreInv

\* Thread t goes from one step to the next: who holds a component, and who has opened a module.
LEMMA ThreadMoves ==
    ASSUME NEW t \in Binders, \A u \in Binders : u # t => thread'[u] = thread[u]
    PROVE  /\ Holders' = (Holders \ {t})
                           \cup (IF thread'[t].at \in {"init", "owner"} THEN {t} ELSE {})
           /\ \A d \in SharedObjects :
                OpenedBy(d)' = (OpenedBy(d) \ {t})
                   \cup (IF \/ thread'[t].at \in {"loaded", "unload"} /\ thread'[t].dso = d
                            \/ thread'[t].at \in {"init", "owner"} /\ thread'[t].it.dso = d
                         THEN {t} ELSE {})
  BY DEF Holders, OpenedBy

\* The components that run are fewer than those counted: a smaller set stays within the limit.
LEMMA FewerRun ==
    ASSUME StoreInv, started' \subseteq started, UNCHANGED registry
    PROVE  Store!RunningWithinLimit'
  <1> SUFFICES ASSUME NEW n \in ComponentNames, started' # {}, registry[n] # <<>>
               PROVE  Cardinality(Store!Named(started', n)) <= Store!Limit(n)'
    BY SameCardinality DEF Store!RunningWithinLimit
  <1>1. IsFiniteSet(started)
    BY FS_Subset DEF StoreInv, Store!StoreTypeOK, Counted
  <1>2. /\ Cardinality(Store!Named(started', n)) <= Cardinality(Store!Named(started, n))
        /\ Cardinality(Store!Named(started', n)) \in Nat
        /\ Cardinality(Store!Named(started, n)) \in Nat
    BY <1>1, NamedPart
  <1>3. Cardinality(Store!Named(started, n)) <= Store!Limit(n)
    BY SameCardinality DEF StoreInv, Store!RunningWithinLimit
  <1>4. Store!Limit(n) \in Nat /\ Store!Limit(n)' = Store!Limit(n)
    BY DEF StoreInv, StoreShape, Store!Limit
  <1> QED
    BY <1>2, <1>3, <1>4

\* A thread is in one of its steps; the component it holds, or the module it has opened.
LEMMA ThreadShape ==
    ASSUME StoreInv, NEW t \in Binders
    PROVE  /\ thread[t].at \in Store!Steps
           /\ thread[t].at = "loaded" => /\ thread[t].name \in ComponentNames
                                         /\ thread[t].dso \in SharedObjects
                                         /\ t \in OpenedBy(thread[t].dso) /\ t \notin Holders
           /\ thread[t].at \in {"init", "owner"} =>
                /\ thread[t].it \in Component /\ thread[t].it \in objects
                /\ t \in Holders /\ t \in OpenedBy(thread[t].it.dso)
                /\ thread[t] = [at |-> thread[t].at, it |-> thread[t].it]
           /\ thread[t].at = "unload" => /\ thread[t].dso \in SharedObjects
                                         /\ t \in OpenedBy(thread[t].dso) /\ t \notin Holders
           /\ thread[t].at = "idle" => t \notin Holders /\ \A d \in SharedObjects : t \notin OpenedBy(d)
  BY DEF StoreInv, Store!StoreTypeOK, StoreShape, ComponentsHeld, Holders, OpenedBy, Store!Idle

\* The steps that move neither a component nor a count.
LEMMA StoreStays ==
    ASSUME StoreInv, UNCHANGED <<registry, monitor, handles, objects, made>>,
           StoreShape', \A t \in Binders : thread'[t].at \in Store!Steps,
           Holders' = Holders, \A t \in Holders : thread'[t].it = thread[t].it,
           \A d \in SharedObjects : OpenedBy(d)' = OpenedBy(d),
           started' \subseteq objects, Store!RunningWithinLimit'
    PROVE  StoreInv'
  <1>1. Store!StoreTypeOK'
    BY DEF StoreInv, Store!StoreTypeOK
  <1>2. ComponentsHeld'
    BY DEF StoreInv, ComponentsHeld
  <1>3. Counted'
    BY DEF StoreInv, Counted, Store!CountIsExact
  <1> QED
    BY <1>1, <1>2, <1>3 DEF StoreInv

LEMMA CreateComponentStep ==
    ASSUME StoreInv, NEW t \in Binders, NEW name \in ComponentNames, Store!CreateComponent(t, name)
    PROVE  StoreInv'
  <1> DEFINE dso == registry[name][1].dso
             r == [at |-> "loaded", name |-> name, dso |-> dso]
  <1>1. /\ thread[t].at = "idle" /\ dso \in SharedObjects
        /\ handles' = [handles EXCEPT ![dso] = @ + 1]
        /\ thread' = [thread EXCEPT ![t] = r]
        /\ UNCHANGED <<registry, built, monitor, objects, started, made>>
    BY DEF Store!CreateComponent, Store!At
  <1> HIDE DEF dso
  <1>2. t \notin Holders /\ \A d \in SharedObjects : t \notin OpenedBy(d)
    BY <1>1, ThreadShape
  <1>3. /\ thread'[t] = r /\ \A u \in Binders : u # t => thread'[u] = thread[u]
        /\ Holders' = Holders
        /\ \A d \in SharedObjects : OpenedBy(d)' = OpenedBy(d) \cup (IF d = dso THEN {t} ELSE {})
    <2>1. /\ thread'[t] = r /\ \A u \in Binders : u # t => thread'[u] = thread[u]
          /\ thread'[t].at = "loaded" /\ thread'[t].dso = dso
      BY <1>1 DEF StoreInv, StoreShape
    <2> HIDE DEF r
    <2>2. Holders' = Holders
      BY <1>2, <2>1 DEF Holders
    <2>3. ASSUME NEW d \in SharedObjects
          PROVE  OpenedBy(d)' = OpenedBy(d) \cup (IF d = dso THEN {t} ELSE {})
      BY <1>2, <2>1, ThreadMoves
    <2> QED
      BY <2>1, <2>2, <2>3
  <1>4. Store!StoreTypeOK'
    BY <1>1, <1>3 DEF StoreInv, Store!StoreTypeOK, Store!Steps
  <1>5. StoreShape'
    BY <1>1 DEF StoreInv, StoreShape
  <1>6. ComponentsHeld'
    BY <1>1, <1>2, <1>3 DEF StoreInv, ComponentsHeld
  <1>7. ASSUME NEW d \in SharedObjects
        PROVE  IsFiniteSet(OpenedBy(d)') /\ handles'[d] = Cardinality(OpenedBy(d)')
    <2>1. IsFiniteSet(OpenedBy(d)) /\ handles[d] = Cardinality(OpenedBy(d)) /\ t \notin OpenedBy(d)
      BY <1>2 DEF StoreInv, Counted
    <2>2. handles'[d] = IF d = dso THEN handles[d] + 1 ELSE handles[d]
      BY <1>1 DEF StoreInv, Store!StoreTypeOK
    <2>3. OpenedBy(d)' = IF d = dso THEN OpenedBy(d) \cup {t} ELSE OpenedBy(d)
      BY <1>3
    <2> QED
      BY <1>3, <2>1, <2>2, <2>3, FS_AddElement
  <1>8. Counted'
    BY <1>1, <1>7 DEF StoreInv, Counted, Store!CountIsExact
  <1>9. Store!RunningWithinLimit'
    BY <1>1, FewerRun
  <1> QED
    BY <1>4, <1>5, <1>6, <1>8, <1>9 DEF StoreInv

LEMMA ConstructStep ==
    ASSUME MaxMade \in Nat, StoreInv, NEW t \in Binders, Store!Construct(t)
    PROVE  StoreInv'
  <1> DEFINE name == thread[t].name
             new == [id |-> made + 1, name |-> name, dso |-> thread[t].dso]
             r == [at |-> "init", it |-> new]
  <1>1. /\ thread[t].at = "loaded" /\ name \in ComponentNames /\ made < MaxMade /\ made' = made + 1
        /\ thread[t].dso \in SharedObjects
        /\ objects' = objects \cup {new} /\ monitor' = [monitor EXCEPT ![name] = @ + 1]
        /\ thread' = [thread EXCEPT ![t] = r]
        /\ UNCHANGED <<registry, built, handles, started>>
    BY ThreadShape DEF Store!Construct, Store!At
  <1>2. made \in Nat /\ new \in Component /\ new.name = name /\ new.id = made + 1 /\ new.dso = thread[t].dso
    BY <1>1 DEF StoreInv, Store!StoreTypeOK, Component
  <1>3. new \notin objects
    BY <1>2 DEF StoreInv, ComponentsHeld, Component
  <1>4. t \in OpenedBy(thread[t].dso) /\ t \notin Holders
        /\ \A d \in SharedObjects : t \in OpenedBy(d) => d = thread[t].dso
    BY <1>1, ThreadShape DEF OpenedBy
  <1> HIDE DEF new, name
  <1>5. /\ thread'[t] = r /\ \A u \in Binders : u # t => thread'[u] = thread[u]
        /\ Holders' = Holders \cup {t}
        /\ \A d \in SharedObjects : OpenedBy(d)' = OpenedBy(d)
    <2>1. /\ thread'[t] = r /\ \A u \in Binders : u # t => thread'[u] = thread[u]
          /\ thread'[t].at = "init" /\ thread'[t].it = new
      BY <1>1 DEF StoreInv, StoreShape
    <2> HIDE DEF r
    <2>2. Holders' = Holders \cup {t}
      BY <1>4, <2>1, ThreadMoves
    <2>3. ASSUME NEW d \in SharedObjects
          PROVE  OpenedBy(d)' = OpenedBy(d)
      BY <1>2, <1>4, <2>1, ThreadMoves
    <2> QED
      BY <2>1, <2>2, <2>3
  <1>6. Store!StoreTypeOK'
    BY <1>1, <1>2, <1>5 DEF StoreInv, Store!StoreTypeOK, Store!Steps
  <1>7. StoreShape'
    BY <1>1, <1>2 DEF StoreInv, StoreShape
  <1>8. ComponentsHeld'
    <2>1. /\ thread'[t].it = new /\ \A u \in Holders : thread'[u].it = thread[u].it
      BY <1>4, <1>5 DEF Holders
    <2>2. objects' = { thread'[u].it : u \in Holders' }
      BY <1>1, <1>5, <2>1 DEF StoreInv, ComponentsHeld
    <2>3. \A u \in Holders : thread[u].it \in objects
      BY DEF StoreInv, ComponentsHeld
    <2>4. \A u, v \in Holders' : thread'[u].it = thread'[v].it => u = v
      BY <1>3, <1>5, <2>1, <2>3 DEF StoreInv, ComponentsHeld
    <2>5. \A o \in objects' : o.id <= made'
      <3>1. \A o \in objects : o.id \in Nat /\ o.id <= made
        <4>1. \A u \in Holders : thread[u].it \in Component
          BY ThreadShape DEF Holders
        <4> QED
          BY <4>1 DEF StoreInv, ComponentsHeld, Component
      <3> QED
        BY <1>1, <1>2, <3>1
    <2> QED
      BY <2>2, <2>4, <2>5 DEF ComponentsHeld
  <1>9. Store!CountIsExact'
    <2> SUFFICES ASSUME NEW n \in ComponentNames
                 PROVE  monitor'[n] = Cardinality(Store!Named(objects', n))
      BY SameCardinality DEF Store!CountIsExact
    <2>1. monitor[n] = Cardinality(Store!Named(objects, n)) /\ IsFiniteSet(objects)
      BY SameCardinality DEF StoreInv, Counted, Store!CountIsExact
    <2>2. monitor'[n] = IF n = name THEN monitor[n] + 1 ELSE monitor[n]
      BY <1>1 DEF StoreInv, Store!StoreTypeOK
    <2> QED
      BY <1>1, <1>2, <1>3, <2>1, <2>2, NamedMore
  <1>10. IsFiniteSet(objects')
    BY <1>1, FS_AddElement DEF StoreInv, Counted
  <1>11. Counted'
    BY <1>1, <1>5, <1>9, <1>10 DEF StoreInv, Counted
  <1>12. Store!RunningWithinLimit'
    BY <1>1, FewerRun
  <1> QED
    BY <1>6, <1>7, <1>8, <1>11, <1>12 DEF StoreInv

\* InitOK, NotFound, and start() and stop() of a component: nothing is counted.
LEMMA InitOKStep == ASSUME StoreInv, NEW t \in Binders, Store!InitOK(t) PROVE StoreInv'
  <1> DEFINE r == [at |-> "owner", it |-> thread[t].it]
  <1>1. /\ thread[t].at = "init" /\ thread' = [thread EXCEPT ![t] = r]
        /\ UNCHANGED <<registry, built, monitor, handles, objects, started, made>>
    <2>1. /\ thread[t].at = "init" /\ thread' = [thread EXCEPT ![t].at = "owner"]
          /\ UNCHANGED <<registry, built, monitor, handles, objects, started, made>>
      BY DEF Store!InitOK, Store!At
    <2>2. thread[t] = [at |-> "init", it |-> thread[t].it]
      BY <2>1, ThreadShape
    <2>3. [thread[t] EXCEPT !.at = "owner"] = r
      BY <2>2
    <2> QED
      BY <2>1, <2>3
  <1>2. /\ thread[t].it \in Component
        /\ thread'[t] = r /\ \A u \in Binders : u # t => thread'[u] = thread[u]
    BY <1>1, ThreadShape DEF StoreInv, StoreShape
  <1>3. StoreShape' /\ \A u \in Binders : thread'[u].at \in Store!Steps
    BY <1>1, <1>2 DEF StoreInv, StoreShape, Store!StoreTypeOK, Store!Steps
  <1>4. /\ Holders' = Holders /\ \A u \in Holders : thread'[u].it = thread[u].it
        /\ \A d \in SharedObjects : OpenedBy(d)' = OpenedBy(d)
    BY <1>1, <1>2 DEF Holders, OpenedBy
  <1>5. Store!RunningWithinLimit' /\ started' \subseteq objects
    BY <1>1, FewerRun DEF StoreInv, Store!StoreTypeOK
  <1> QED
    BY <1>1, <1>3, <1>4, <1>5, StoreStays

LEMMA NotFoundStep == ASSUME StoreInv, NEW t \in Binders, Store!NotFound(t) PROVE StoreInv'
  <1> DEFINE r == [at |-> "unload", dso |-> thread[t].dso]
  <1>1. /\ thread[t].at = "loaded" /\ thread' = [thread EXCEPT ![t] = r]
        /\ UNCHANGED <<registry, built, monitor, handles, objects, started, made>>
    BY DEF Store!NotFound, Store!At
  <1>2. /\ thread[t].dso \in SharedObjects
        /\ thread'[t] = r /\ \A u \in Binders : u # t => thread'[u] = thread[u]
    BY <1>1, ThreadShape DEF StoreInv, StoreShape
  <1>3. StoreShape' /\ \A u \in Binders : thread'[u].at \in Store!Steps
    BY <1>1, <1>2 DEF StoreInv, StoreShape, Store!StoreTypeOK, Store!Steps
  <1>4. /\ Holders' = Holders /\ \A u \in Holders : thread'[u].it = thread[u].it
        /\ \A d \in SharedObjects : OpenedBy(d)' = OpenedBy(d)
    BY <1>1, <1>2 DEF Holders, OpenedBy
  <1>5. Store!RunningWithinLimit' /\ started' \subseteq objects
    BY <1>1, FewerRun DEF StoreInv, Store!StoreTypeOK
  <1> QED
    BY <1>1, <1>3, <1>4, <1>5, StoreStays

\* The check of start() sees the count of all the components of the name, those that run included.
LEMMA StartChecksStep == ASSUME StoreInv, NEW t \in Binders, Store!StartChecks(t) PROVE StoreInv'
  <1> DEFINE it == thread[t].it
  <1>1. /\ thread[t].at = "owner" /\ started' = started \cup {it} /\ Store!MayStart(it.name)
        /\ UNCHANGED <<registry, built, monitor, handles, thread, objects, made>>
    BY DEF Store!StartChecks, Store!At
  <1>2. it \in objects /\ it.name \in ComponentNames
    BY <1>1, ThreadShape DEF Component
  <1> HIDE DEF it
  <1>3. started' \subseteq objects
    BY <1>1, <1>2 DEF StoreInv, Store!StoreTypeOK
  <1>4. Store!RunningWithinLimit'
    <2> SUFFICES ASSUME NEW n \in ComponentNames, registry[n] # <<>>
                 PROVE  Cardinality(Store!Named(started', n)) <= Store!Limit(n)
      BY <1>1, SameCardinality DEF Store!RunningWithinLimit, Store!Limit
    <2>1. Store!Limit(n) \in Nat
      BY DEF StoreInv, StoreShape, Store!Limit
    <2>2. CASE n = it.name
      <3>1. /\ Cardinality(Store!Named(started', n)) <= Cardinality(Store!Named(objects, n))
            /\ Cardinality(Store!Named(started', n)) \in Nat
            /\ Cardinality(Store!Named(objects, n)) \in Nat
        BY <1>3, NamedPart DEF StoreInv, Counted
      <3>2. Cardinality(Store!Named(objects, n)) <= Store!Limit(n)
        BY <1>1, <2>2, SameCardinality DEF StoreInv, Counted, Store!CountIsExact, Store!MayStart
      <3> QED
        BY <2>1, <3>1, <3>2
    <2>3. CASE n # it.name
      <3>1. Store!Named(started', n) = Store!Named(started, n)
        BY <1>1, <2>3 DEF Store!Named
      <3>2. CASE started = {}
        <4>1. Store!Named(started, n) = {}
          BY <3>2 DEF Store!Named
        <4> QED
          BY <2>1, <3>1, <4>1, FS_EmptySet
      <3>3. CASE started # {}
        BY <3>1, <3>3, SameCardinality DEF StoreInv, Store!RunningWithinLimit
      <3> QED
        BY <3>2, <3>3
    <2> QED
      BY <2>2, <2>3
  <1>5. StoreShape' /\ Holders' = Holders /\ \A d \in SharedObjects : OpenedBy(d)' = OpenedBy(d)
    BY <1>1 DEF StoreInv, StoreShape, Holders, OpenedBy
  <1> QED
    BY <1>1, <1>3, <1>4, <1>5, StoreStays DEF StoreInv, Store!StoreTypeOK

LEMMA StoppedStep == ASSUME StoreInv, NEW t \in Binders, Store!Stopped(t) PROVE StoreInv'
  <1>1. /\ started' \subseteq started
        /\ UNCHANGED <<registry, built, monitor, handles, thread, objects, made>>
    BY DEF Store!Stopped
  <1>2. StoreShape' /\ Holders' = Holders /\ \A d \in SharedObjects : OpenedBy(d)' = OpenedBy(d)
    BY <1>1 DEF StoreInv, StoreShape, Holders, OpenedBy
  <1>3. Store!RunningWithinLimit' /\ started' \subseteq objects
    BY <1>1, FewerRun DEF StoreInv, Store!StoreTypeOK
  <1> QED
    BY <1>1, <1>2, <1>3, StoreStays DEF StoreInv, Store!StoreTypeOK

LEMMA DeleteStep ==
    ASSUME StoreInv, NEW t \in Binders, thread[t].at \in {"init", "owner"}, Store!Delete(t)
    PROVE  StoreInv'
  <1> DEFINE it == thread[t].it
             r == [at |-> "unload", dso |-> it.dso]
  <1>1. /\ objects' = objects \ {it} /\ started' = started \ {it}
        /\ monitor' = [monitor EXCEPT ![it.name] = IF @ = 0 THEN 0 ELSE @ - 1]
        /\ thread' = [thread EXCEPT ![t] = r]
        /\ UNCHANGED <<registry, built, handles, made>>
    BY DEF Store!Delete, Store!Decrease
  <1>2. /\ it \in Component /\ it \in objects /\ t \in Holders
        /\ it.name \in ComponentNames /\ it.dso \in SharedObjects
    BY ThreadShape DEF Component
  <1>3. thread'[t] = r /\ \A u \in Binders : u # t => thread'[u] = thread[u]
    BY <1>1 DEF StoreInv, StoreShape
  <1>4. Holders' = Holders \ {t} /\ \A d \in SharedObjects : OpenedBy(d)' = OpenedBy(d)
    BY <1>3 DEF Holders, OpenedBy
  <1>5. StoreShape' /\ \A u \in Binders : thread'[u].at \in Store!Steps
    BY <1>1, <1>2, <1>3 DEF StoreInv, StoreShape, Store!StoreTypeOK, Store!Steps
  <1> HIDE DEF it
  <1>6. ComponentsHeld'
    <2>1. \A u \in Holders' : thread'[u].it = thread[u].it /\ thread[u].it # it
      BY <1>2, <1>3, <1>4 DEF StoreInv, ComponentsHeld, Holders, it
    <2>2. objects = { thread[u].it : u \in Holders }
      BY DEF StoreInv, ComponentsHeld
    <2>3. objects' = { thread'[u].it : u \in Holders' }
      BY <1>1, <1>4, <2>1, <2>2 DEF it
    <2> QED
      BY <1>1, <1>4, <2>1, <2>3 DEF StoreInv, ComponentsHeld
  <1>7. ASSUME NEW n \in ComponentNames
        PROVE  /\ monitor'[n] = Cardinality(Store!Named(objects', n)) /\ monitor'[n] \in Nat
    <2>1. monitor[n] = Cardinality(Store!Named(objects, n)) /\ IsFiniteSet(objects)
      BY SameCardinality DEF StoreInv, Counted, Store!CountIsExact
    <2>2. monitor'[n] = IF n = it.name THEN (IF monitor[n] = 0 THEN 0 ELSE monitor[n] - 1)
                        ELSE monitor[n]
      BY <1>1 DEF StoreInv, Store!StoreTypeOK
    <2>3. /\ Cardinality(Store!Named(objects \ {it}, n)) \in Nat
          /\ Cardinality(Store!Named(objects, n)) =
               IF it.name = n THEN Cardinality(Store!Named(objects \ {it}, n)) + 1
               ELSE Cardinality(Store!Named(objects \ {it}, n))
      BY <1>2, <2>1, NamedLess
    <2> QED
      BY <1>1, <2>1, <2>2, <2>3
  <1>8. Counted'
    <2>1. IsFiniteSet(objects')
      BY <1>1, FS_RemoveElement DEF StoreInv, Counted
    <2> QED
      BY <1>1, <1>4, <1>7, <2>1, SameCardinality DEF StoreInv, Counted, Store!CountIsExact
  <1>9. Store!StoreTypeOK'
    <2>1. monitor' \in [ComponentNames -> Nat]
      BY <1>1, <1>7 DEF StoreInv, Store!StoreTypeOK
    <2> QED
      BY <1>1, <1>5, <2>1 DEF StoreInv, Store!StoreTypeOK
  <1>10. Store!RunningWithinLimit'
    BY <1>1, FewerRun
  <1> QED
    BY <1>5, <1>6, <1>8, <1>9, <1>10 DEF StoreInv

LEMMA UnloadStep == ASSUME StoreInv, NEW t \in Binders, Store!Unload(t) PROVE StoreInv'
  <1> DEFINE dso == thread[t].dso
  <1>1. /\ thread[t].at = "unload" /\ handles' = [handles EXCEPT ![dso] = @ - 1]
        /\ thread' = [thread EXCEPT ![t] = Store!Idle]
        /\ UNCHANGED <<registry, built, monitor, objects, started, made>>
    BY DEF Store!Unload, Store!At
  <1>2. dso \in SharedObjects /\ t \in OpenedBy(dso) /\ t \notin Holders
    BY <1>1, ThreadShape
  <1>3. /\ thread'[t] = Store!Idle /\ thread'[t].at = "idle"
        /\ \A u \in Binders : u # t => thread'[u] = thread[u]
    BY <1>1 DEF StoreInv, StoreShape, Store!Idle
  <1>4. Holders' = Holders /\ \A u \in Holders : thread'[u].it = thread[u].it
    BY <1>1, <1>3 DEF Holders
  <1>5. \A d \in SharedObjects : OpenedBy(d)' = IF d = dso THEN OpenedBy(d) \ {t} ELSE OpenedBy(d)
    BY <1>1, <1>3 DEF OpenedBy
  <1> HIDE DEF dso
  <1>6. StoreShape' /\ \A u \in Binders : thread'[u].at \in Store!Steps
    BY <1>1, <1>3 DEF StoreInv, StoreShape, Store!StoreTypeOK, Store!Steps
  <1>7. ASSUME NEW d \in SharedObjects
        PROVE  /\ IsFiniteSet(OpenedBy(d)') /\ handles'[d] = Cardinality(OpenedBy(d)')
               /\ handles'[d] \in Nat
    <2>1. IsFiniteSet(OpenedBy(d)) /\ handles[d] = Cardinality(OpenedBy(d))
      BY DEF StoreInv, Counted
    <2>2. handles'[d] = IF d = dso THEN handles[d] - 1 ELSE handles[d]
      BY <1>1 DEF StoreInv, Store!StoreTypeOK
    <2>3. /\ IsFiniteSet(OpenedBy(d) \ {t}) /\ Cardinality(OpenedBy(d) \ {t}) \in Nat
          /\ t \in OpenedBy(d) => Cardinality(OpenedBy(d) \ {t}) = Cardinality(OpenedBy(d)) - 1
          /\ Cardinality(OpenedBy(d)) \in Nat
      BY <2>1, FS_RemoveElement, FS_CardinalityType
    <2> QED
      BY <1>2, <1>5, <2>1, <2>2, <2>3
  <1>8. Counted'
    BY <1>1, <1>7 DEF StoreInv, Counted, Store!CountIsExact
  <1>9. Store!StoreTypeOK'
    <2>1. handles' \in [SharedObjects -> Nat]
      BY <1>1, <1>7 DEF StoreInv, Store!StoreTypeOK
    <2> QED
      BY <1>1, <1>6, <2>1 DEF StoreInv, Store!StoreTypeOK
  <1>10. ComponentsHeld'
    BY <1>1, <1>4 DEF StoreInv, ComponentsHeld
  <1>11. Store!RunningWithinLimit'
    BY <1>1, FewerRun
  <1> QED
    BY <1>6, <1>8, <1>9, <1>10, <1>11 DEF StoreInv

LEMMA StoreStep == ASSUME MaxMade \in Nat, StoreInv, Store!Next PROVE StoreInv'
  <1>1. PICK t \in Binders :
             \/ \E name \in ComponentNames : Store!CreateComponent(t, name)
             \/ Store!Construct(t) \/ Store!InitOK(t) \/ Store!InitFails(t) \/ Store!NotFound(t)
             \/ Store!Unload(t) \/ Store!StartChecks(t) \/ Store!Stopped(t)
             \/ Store!LastReference(t)
    BY DEF Store!Next
  <1>2. CASE Store!InitFails(t) \/ Store!LastReference(t)
    BY <1>2, DeleteStep DEF Store!InitFails, Store!LastReference, Store!At
  <1> QED
    BY <1>1, <1>2, CreateComponentStep, ConstructStep, InitOKStep, NotFoundStep, UnloadStep,
       StartChecksStep, StoppedStep

\* The components of a module are held by threads that have opened it, each by its own.
LEMMA HoldersHaveOpened == ASSUME StoreInv PROVE Store!LoadedWhileAlive
  <1> SUFFICES ASSUME NEW d \in SharedObjects
               PROVE  handles[d] >= Cardinality({ o \in objects : o.dso = d })
    BY SameCardinality DEF Store!LoadedWhileAlive
  <1> DEFINE S == { o \in objects : o.dso = d }
             holder == [o \in S |-> CHOOSE t \in Holders : thread[t].it = o]
  <1>1. \A o \in S : holder[o] \in Holders /\ thread[holder[o]].it = o
    BY DEF StoreInv, ComponentsHeld
  <1>2. \A o \in S : holder[o] \in OpenedBy(d)
    BY <1>1 DEF Holders, OpenedBy
  <1>3. holder \in Injection(S, OpenedBy(d))
    <2>1. holder \in [S -> OpenedBy(d)]
      BY <1>2
    <2>2. \A o, p \in S : holder[o] = holder[p] => o = p
      BY <1>1
    <2> HIDE DEF S, holder
    <2> QED
      BY <2>1, <2>2, Fun_IsInj
  <1>4. IsFiniteSet(OpenedBy(d)) /\ handles[d] = Cardinality(OpenedBy(d))
    BY DEF StoreInv, Counted
  <1>5. IsFiniteSet(S) /\ Cardinality(S) <= Cardinality(OpenedBy(d))
    BY <1>3, <1>4, FS_Injection
  <1> QED
    BY <1>4, <1>5, FS_CardinalityType


-----------------------------------------------------------------------------
(* EncoderInput *)

\* What the constants have to be: the conversion begins with a surface.
InputConstants ==
    /\ MaxFrames \in Nat /\ MaxStarts \in Nat /\ PoolSize \in Nat
    /\ VppSurfaces \in Nat \ {0} /\ Keeps \in Nat

\* A surface is a block of the client, one of the conversion or one of the pool.
SurfaceNames == {"new", "vpp", "pool", "null"} \X Nat

InputShape ==
    /\ inputOpened \in Nat /\ frames \in Nat /\ starts \in Nat
    /\ vpp \in [session : Nat, surfaces : Nat, allocator : BOOLEAN]
    /\ read \subseteq [surface : SurfaceNames, frame : Nat]
    /\ retainTasks \in Seq([frame : Nat, surface : SurfaceNames])

\* The hardware reads at most so many surfaces as it keeps, each of them for one frame, and of
\* the conversion only those that were made.
ReadOnce ==
    /\ IsFiniteSet(read) /\ Cardinality(read) <= Keeps
    /\ \A l, m \in read : l.surface = m.surface => l = m
    /\ \A l \in read : /\ l.surface[1] = "new" => l.surface[2] <= frames
                       /\ l.surface[1] = "vpp" => l.surface[2] \in 1 .. vpp.surfaces

\* A session that has what lives in it is not opened again: its allocator is what the frames need,
\* and the encoder is closed.
SessionStays ==
    /\ state \in {"running", "stopping"} \/ vpp.session # 0 => video = inputAllocator
    /\ layout # "yuvPlain" => video = TRUE
    /\ ~determined => vpp = Input!NoVpp
    /\ state \in {"stopped", "halted", "released"} =>
         openEncoder = 0 /\ read = {} /\ retainTasks = <<>>
    /\ state = "released" => inputSession = 0 /\ vpp = Input!NoVpp /\ device = "closed"
    /\ state # "released" => device = "open"

InputInv == /\ Input!InputTypeOK /\ InputShape /\ ReadOnce /\ SessionStays /\ Input!OnOpenSession
            /\ Input!FrameKeptWhileRead

LEMMA SameCardinalityOfInput == \A S : Input!Cardinality(S) = Cardinality(S)
  BY DEF Input!Cardinality, Cardinality

LEMMA InputInit == ASSUME InputConstants, Input!Init PROVE InputInv
  <1>1. /\ state = "stopped" /\ device = "open" /\ inputSession = 1 /\ inputOpened = 1
        /\ video = TRUE /\ inputAllocator = FALSE /\ determined = FALSE /\ conversion = FALSE
        /\ vpp = Input!NoVpp /\ surfacePool = FALSE /\ openEncoder = 0 /\ layout \in Input!Layouts
        /\ read = {} /\ retainTasks = <<>> /\ retained = {} /\ frames = 0 /\ starts = 0
    BY DEF Input!Init, Input!OpenDevice
  <1>2. /\ vpp.session = 0 /\ vpp.surfaces = 0 /\ vpp.allocator = FALSE
        /\ vpp \in [session : Nat, surfaces : Nat, allocator : BOOLEAN]
    BY <1>1 DEF Input!NoVpp
  <1>3. Input!Locked = {} /\ Cardinality({}) = 0 /\ IsFiniteSet({})
    BY <1>1, FS_EmptySet DEF Input!Locked
  <1>4. Input!InputTypeOK
    <2>1. layout \in Input!Layouts /\ state = "stopped"
      BY <1>1
    <2>2. inputSession \in 0 .. inputOpened /\ openEncoder \in 0 .. inputOpened
      BY <1>1
    <2>3. vpp.session \in 0 .. inputOpened /\ vpp.surfaces \in 0 .. VppSurfaces
      BY <1>1, <1>2 DEF InputConstants
    <2>4. {video, inputAllocator, determined, conversion, surfacePool} \subseteq BOOLEAN
      BY <1>1
    <2>5. Input!Cardinality(Input!Locked) = Input!Cardinality(read)
      BY <1>1, <1>3
    <2>6. frames <= MaxFrames /\ starts <= MaxStarts
      BY <1>1 DEF InputConstants
    <2> QED
      BY <2>1, <2>2, <2>3, <2>4, <2>5, <2>6 DEF Input!InputTypeOK
  <1>5. InputShape
    BY <1>1, <1>2 DEF InputShape
  <1>6. ReadOnce
    BY <1>1, <1>3 DEF ReadOnce, InputConstants
  <1>7. SessionStays /\ Input!OnOpenSession /\ Input!FrameKeptWhileRead
    BY <1>1, <1>2 DEF SessionStays, Input!OnOpenSession, Input!FrameKeptWhileRead
  <1> QED
    BY <1>4, <1>5, <1>6, <1>7 DEF InputInv

\* Surfaces that are each read once are as many as the frames they show.
LEMMA SurfacesRead ==
    ASSUME NEW R, IsFiniteSet(R), \A l, m \in R : l.surface = m.surface => l = m
    PROVE  LET S == { l.surface : l \in R } IN IsFiniteSet(S) /\ Cardinality(S) = Cardinality(R)
  <1> DEFINE S == { l.surface : l \in R }
             surfaceOf == [l \in R |-> l.surface]
  <1>1. surfaceOf \in [R -> S]
    OBVIOUS
  <1>2. \A l, m \in R : surfaceOf[l] = surfaceOf[m] => l = m
    OBVIOUS
  <1>3. \A s \in S : \E l \in R : surfaceOf[l] = s
    OBVIOUS
  <1> HIDE DEF surfaceOf, S
  <1>4. ExistsBijection(R, S)
    <2>1. surfaceOf \in Bijection(R, S)
      BY <1>1, <1>2, <1>3, Fun_IsBij
    <2> QED
      BY <2>1 DEF ExistsBijection
  <1>5. IsFiniteSet(S) /\ Cardinality(S) = Cardinality(R)
    BY <1>4, FS_Bijection
  <1> QED
    BY <1>5 DEF S

\* The first of some numbers is one of them.
LEMMA FirstIsOne == ASSUME NEW S \in SUBSET Nat, S # {} PROVE Input!First(S) \in S
  <1> DEFINE Less == { p \in Nat \X Nat : p[1] < p[2] }
  <1>1. IsWellFoundedOn(Less, Nat)
    BY NatLessThanWellFounded DEF OpToRel
  <1>2. \A m, n \in Nat : <<m, n>> \in Less <=> m < n
    OBVIOUS
  <1> HIDE DEF Less
  <1>3. PICK i \in S : \A j \in S : ~(<<j, i>> \in Less)
    BY <1>1, WFMin
  <1>4. ASSUME NEW j \in S
        PROVE  i <= j
    <2>1. i \in Nat /\ j \in Nat /\ ~(<<j, i>> \in Less)
      BY <1>3
    <2>2. ~(j < i)
      BY <1>2, <2>1
    <2> QED
      BY <2>1, <2>2
  <1> QED
    BY <1>4 DEF Input!First

\* What the first frame makes of the settings: nothing that would open another session, and a
\* conversion only in this one.
SettingsMade(s) ==
    /\ s.video = s.set /\ s.video \in BOOLEAN /\ s.set \in BOOLEAN
    /\ s.conversion \in BOOLEAN /\ s.pool \in BOOLEAN /\ s.ok \in BOOLEAN
    /\ layout # "yuvPlain" => s.video = TRUE

VppMade(s) ==
    /\ s.vpp \in [session : Nat, surfaces : Nat, allocator : BOOLEAN]
    /\ s.vpp.session \in {0, inputSession}
    /\ s.vpp.surfaces \in 0 .. VppSurfaces /\ vpp.surfaces <= s.vpp.surfaces
    /\ s.ok = FALSE => s.vpp = Input!NoVpp

LEMMA InitVPPKeeps ==
    ASSUME InputConstants, InputInv, state = "running", NEW fail, NEW s, s = Input!InitVPP(fail)
    PROVE  SettingsMade(s) /\ VppMade(s)
  <1>1. /\ video = inputAllocator
        /\ layout # "yuvPlain" => video = TRUE
        /\ ~determined => vpp = Input!NoVpp
        /\ layout \in Input!Layouts
        /\ vpp.session \in {0, inputSession} /\ inputSession \in Nat
        /\ vpp.surfaces \in 0 .. VppSurfaces
        /\ vpp \in [session : Nat, surfaces : Nat, allocator : BOOLEAN]
    BY DEF InputInv, SessionStays, Input!InputTypeOK, Input!OnOpenSession, InputShape
  <1>2. /\ video \in BOOLEAN /\ inputAllocator \in BOOLEAN /\ conversion \in BOOLEAN
        /\ surfacePool \in BOOLEAN
    BY DEF InputInv, Input!InputTypeOK
  <1>3. /\ Input!NoVpp.session = 0 /\ Input!NoVpp.surfaces = 0
        /\ Input!NoVpp \in [session : Nat, surfaces : Nat, allocator : BOOLEAN]
    BY DEF Input!NoVpp
  <1>4. VppSurfaces \in Nat /\ 1 <= VppSurfaces
    BY DEF InputConstants
  <1> DEFINE now == [video |-> video, set |-> inputAllocator, conversion |-> conversion,
                     vpp |-> vpp, pool |-> surfacePool, ok |-> TRUE]
  <1>5. CASE determined
    <2>1. s = now
      BY <1>5 DEF Input!InitVPP
    <2> QED
      BY <1>1, <1>2, <1>5, <2>1 DEF SettingsMade, VppMade
  <1>6. CASE ~determined /\ layout = "rgb"
    <2>1. s = [now EXCEPT !.vpp = Input!VppInit(fail), !.conversion = TRUE, !.ok = fail # "vppInit"]
      BY <1>6 DEF Input!InitVPP
    <2>2. /\ s.video = video /\ s.set = inputAllocator /\ s.conversion = TRUE
          /\ s.pool = surfacePool /\ s.ok = (fail # "vppInit") /\ s.vpp = Input!VppInit(fail)
      BY <2>1
    <2>3. SettingsMade(s)
      BY <1>1, <1>2, <2>2 DEF SettingsMade
    <2>4. CASE fail = "vppInit"
      <3>1. s.vpp = Input!NoVpp
        BY <2>2, <2>4 DEF Input!VppInit
      <3> QED
        BY <1>1, <1>3, <1>4, <1>6, <2>3, <3>1 DEF VppMade
    <2>5. CASE fail # "vppInit"
      <3>1. s.vpp = [session |-> inputSession, surfaces |-> 1, allocator |-> TRUE]
        BY <2>2, <2>5 DEF Input!VppInit
      <3>2. s.ok = TRUE /\ vpp.surfaces = 0
        BY <1>1, <1>3, <1>6, <2>2, <2>5
      <3>3. VppMade(s)
        BY <1>1, <1>4, <3>1, <3>2 DEF VppMade
      <3> QED
        BY <2>3, <3>3
    <2> QED
      BY <2>4, <2>5
  <1>7. CASE ~determined /\ layout = "tiled"
    <2>1. s = [now EXCEPT !.video = TRUE, !.conversion = FALSE]
      BY <1>7 DEF Input!InitVPP
    <2>2. /\ s.video = video /\ s.set = inputAllocator /\ s.conversion = FALSE
          /\ s.pool = surfacePool /\ s.ok = TRUE /\ s.vpp = vpp
      BY <1>1, <1>2, <1>7, <2>1
    <2>3. SettingsMade(s)
      BY <1>1, <1>2, <1>7, <2>2 DEF SettingsMade
    <2>4. s.vpp = vpp /\ vpp = Input!NoVpp
      BY <1>1, <1>7, <2>2
    <2>5. VppMade(s)
      BY <1>1, <1>3, <1>4, <2>4 DEF VppMade
    <2> QED
      BY <2>3, <2>5
  <1>8. CASE ~determined /\ layout = "yuvSurface"
    <2>1. s = [now EXCEPT !.pool = Input!AllocateSurfacePool(fail), !.conversion = FALSE,
                          !.ok = fail # "vppInit"]
      BY <1>8 DEF Input!InitVPP
    <2>2. /\ s.video = video /\ s.set = inputAllocator /\ s.conversion = FALSE
          /\ s.pool = (fail # "vppInit") /\ s.ok = (fail # "vppInit") /\ s.vpp = vpp
      BY <2>1 DEF Input!AllocateSurfacePool
    <2>3. SettingsMade(s)
      BY <1>1, <1>2, <1>8, <2>2 DEF SettingsMade
    <2>4. s.vpp = vpp /\ vpp = Input!NoVpp
      BY <1>1, <1>8, <2>2
    <2>5. VppMade(s)
      BY <1>1, <1>3, <1>4, <2>4 DEF VppMade
    <2> QED
      BY <2>3, <2>5
  <1>9. CASE ~determined /\ layout = "yuvPlain"
    <2>1. s = [now EXCEPT !.video = FALSE, !.set = FALSE, !.pool = Input!AllocateSurfacePool(fail),
                          !.conversion = FALSE, !.ok = fail # "vppInit"]
      BY <1>9 DEF Input!InitVPP
    <2>2. /\ s.video = FALSE /\ s.set = FALSE /\ s.conversion = FALSE
          /\ s.pool = (fail # "vppInit") /\ s.ok = (fail # "vppInit") /\ s.vpp = vpp
      BY <2>1 DEF Input!AllocateSurfacePool
    <2>3. SettingsMade(s)
      BY <1>1, <1>2, <1>9, <2>2 DEF SettingsMade
    <2>4. s.vpp = vpp /\ vpp = Input!NoVpp
      BY <1>1, <1>9, <2>2
    <2>5. VppMade(s)
      BY <1>1, <1>3, <1>4, <2>4 DEF VppMade
    <2> QED
      BY <2>3, <2>5
  <1> QED
    BY <1>1, <1>5, <1>6, <1>7, <1>8, <1>9 DEF Input!Layouts

\* With less read, and no surface gone that is read, every surface is still read once.
LEMMA LessRead ==
    ASSUME InputConstants, InputInv, read' \subseteq read, frames' = frames,
           read' = {} \/ vpp' = vpp
    PROVE  /\ ReadOnce' /\ read' \subseteq [surface : SurfaceNames, frame : Nat]
           /\ (Input!Cardinality(Input!Locked) = Input!Cardinality(read))'
  <1>1. /\ IsFiniteSet(read) /\ Cardinality(read) <= Keeps
        /\ \A l, m \in read : l.surface = m.surface => l = m
        /\ \A l \in read : /\ l.surface[1] = "new" => l.surface[2] <= frames
                           /\ l.surface[1] = "vpp" => l.surface[2] \in 1 .. vpp.surfaces
    BY DEF InputInv, ReadOnce
  <1>2. IsFiniteSet(read') /\ Cardinality(read') <= Cardinality(read)
    BY <1>1, FS_Subset
  <1>3. Cardinality(read) \in Nat /\ Cardinality(read') \in Nat /\ Keeps \in Nat
    BY <1>1, <1>2, FS_CardinalityType DEF InputConstants
  <1>4. Cardinality(read') <= Keeps
    BY <1>1, <1>2, <1>3
  <1>5. \A l, m \in read' : l.surface = m.surface => l = m
    BY <1>1
  <1>6. ReadOnce'
    BY <1>1, <1>2, <1>4 DEF ReadOnce
  <1>7. (Input!Cardinality(Input!Locked) = Input!Cardinality(read))'
    BY <1>2, <1>5, SurfacesRead, SameCardinalityOfInput DEF Input!Locked
  <1>8. read' \subseteq [surface : SurfaceNames, frame : Nat]
    BY DEF InputInv, InputShape
  <1> QED
    BY <1>6, <1>7, <1>8

LEMMA UnlocksStep == ASSUME InputConstants, InputInv, NEW l, Input!Unlocks(l) PROVE InputInv'
  <1>1. /\ read' = read \ {l}
        /\ UNCHANGED <<layout, state, device, inputSession, inputOpened, video, inputAllocator,
                       determined, conversion, vpp, surfacePool, openEncoder, retainTasks,
                       retained, frames, starts>>
    BY DEF Input!Unlocks
  <1>2. /\ ReadOnce' /\ read' \subseteq [surface : SurfaceNames, frame : Nat]
        /\ (Input!Cardinality(Input!Locked) = Input!Cardinality(read))'
    BY <1>1, LessRead
  <1>3. Input!InputTypeOK' /\ InputShape'
    BY <1>1, <1>2 DEF InputInv, Input!InputTypeOK, InputShape
  <1>4. SessionStays' /\ Input!OnOpenSession'
    BY <1>1 DEF InputInv, SessionStays, Input!OnOpenSession
  <1>5. Input!FrameKeptWhileRead'
    BY <1>1 DEF InputInv, Input!FrameKeptWhileRead
  <1> QED
    BY <1>2, <1>3, <1>4, <1>5 DEF InputInv

LEMMA RetainLockedFrameStep ==
    ASSUME InputConstants, InputInv, Input!RetainLockedFrame PROVE InputInv'
  <1>1. /\ state \in {"running", "stopping"} /\ retainTasks # <<>>
        /\ retained' = retained \cup Input!Kept(Head(retainTasks))
        /\ retainTasks' = Tail(retainTasks)
        /\ UNCHANGED <<layout, state, device, inputSession, inputOpened, video, inputAllocator,
                       determined, conversion, vpp, surfacePool, openEncoder, read, frames, starts>>
    BY DEF Input!RetainLockedFrame
  <1>2. retainTasks \in Seq([frame : Nat, surface : SurfaceNames])
    BY DEF InputInv, InputShape
  <1>3. /\ retainTasks' \in Seq([frame : Nat, surface : SurfaceNames])
        /\ Listed(retainTasks) = Listed(retainTasks') \cup {Head(retainTasks)}
    BY <1>1, <1>2, ListedTail
  <1>4. Input!InputTypeOK' /\ InputShape' /\ ReadOnce'
    BY <1>1, <1>3 DEF InputInv, Input!InputTypeOK, Input!Locked, InputShape, ReadOnce
  <1>5. SessionStays' /\ Input!OnOpenSession'
    BY <1>1 DEF InputInv, SessionStays, Input!OnOpenSession
  <1>6. Input!FrameKeptWhileRead'
    <2> SUFFICES ASSUME state # "stopping", NEW l \in read
                 PROVE  \E task \in retained' \cup Listed(retainTasks') :
                            task.frame = l.frame /\ task.surface = l.surface
      BY <1>1 DEF Input!FrameKeptWhileRead, Listed
    <2>1. PICK task \in retained \cup Listed(retainTasks) :
                   task.frame = l.frame /\ task.surface = l.surface
      BY DEF InputInv, Input!FrameKeptWhileRead, Listed
    <2>2. CASE task \in retained \cup Listed(retainTasks')
      BY <1>1, <2>1, <2>2
    <2>3. CASE task = Head(retainTasks)
      <3>1. task.surface \in Input!Locked
        BY <2>1 DEF Input!Locked
      <3>2. task \in retained'
        BY <1>1, <2>3, <3>1 DEF Input!Kept
      <3> QED
        BY <2>1, <3>2
    <2> QED
      BY <1>3, <2>1, <2>2, <2>3
  <1> QED
    BY <1>4, <1>5, <1>6 DEF InputInv

LEMMA WaitWorkOfInputStep ==
    ASSUME InputConstants, InputInv, Input!WaitWork PROVE InputInv'
  <1>1. /\ retained' = { r \in retained : r.surface \in Input!Locked }
        /\ UNCHANGED <<layout, state, device, inputSession, inputOpened, video, inputAllocator,
                       determined, conversion, vpp, surfacePool, openEncoder, read, retainTasks,
                       frames, starts>>
    BY DEF Input!WaitWork
  <1>2. Input!InputTypeOK' /\ InputShape' /\ ReadOnce'
    BY <1>1 DEF InputInv, Input!InputTypeOK, Input!Locked, InputShape, ReadOnce
  <1>3. SessionStays' /\ Input!OnOpenSession'
    BY <1>1 DEF InputInv, SessionStays, Input!OnOpenSession
  <1>4. Input!FrameKeptWhileRead'
    BY <1>1 DEF InputInv, Input!FrameKeptWhileRead, Input!Locked
  <1> QED
    BY <1>2, <1>3, <1>4 DEF InputInv

LEMMA EndOfInputStep ==
    ASSUME InputConstants, InputInv,
           Input!StopQueues \/ (\E abort \in BOOLEAN : Input!FreeEncoder(abort)) \/ Input!Release
    PROVE  InputInv'
  <1>1. CASE Input!StopQueues
    <2>1. /\ state = "running" /\ state' = "stopping"
          /\ UNCHANGED <<layout, device, inputSession, inputOpened, video, inputAllocator,
                         determined, conversion, vpp, surfacePool, openEncoder, read, retainTasks,
                         retained, frames, starts>>
      BY <1>1 DEF Input!StopQueues
    <2>2. Input!InputTypeOK' /\ InputShape' /\ ReadOnce'
      BY <2>1 DEF InputInv, Input!InputTypeOK, Input!Locked, InputShape, ReadOnce
    <2>3. SessionStays' /\ Input!OnOpenSession'
      BY <2>1 DEF InputInv, SessionStays, Input!OnOpenSession
    <2>4. Input!FrameKeptWhileRead'
      BY <2>1 DEF Input!FrameKeptWhileRead
    <2> QED
      BY <2>2, <2>3, <2>4 DEF InputInv
  <1>2. ASSUME NEW abort \in BOOLEAN, Input!FreeEncoder(abort)
        PROVE  InputInv'
    <2>1. /\ state \in {"stopping", "halted"} /\ state' = "stopped" /\ openEncoder' = 0
          /\ read' = {} /\ retainTasks' = <<>>
          /\ UNCHANGED <<layout, device, inputSession, inputOpened, video, inputAllocator,
                         determined, conversion, vpp, surfacePool, retained, frames, starts>>
      BY <1>2 DEF Input!FreeEncoder
    <2>2. /\ ReadOnce' /\ read' \subseteq [surface : SurfaceNames, frame : Nat]
          /\ (Input!Cardinality(Input!Locked) = Input!Cardinality(read))'
      BY <2>1, LessRead
    <2>3. Input!InputTypeOK' /\ InputShape'
      BY <2>1, <2>2 DEF InputInv, Input!InputTypeOK, InputShape
    <2>4. SessionStays' /\ Input!OnOpenSession'
      BY <2>1 DEF InputInv, SessionStays, Input!OnOpenSession
    <2>5. Input!FrameKeptWhileRead'
      BY <2>1 DEF Input!FrameKeptWhileRead
    <2> QED
      BY <2>2, <2>3, <2>4, <2>5 DEF InputInv
  <1>3. CASE Input!Release
    <2>1. /\ state = "stopped" /\ state' = "released" /\ vpp' = Input!NoVpp
          /\ surfacePool' = FALSE /\ inputSession' = 0 /\ device' = "closed"
          /\ UNCHANGED <<layout, inputOpened, video, inputAllocator, determined, conversion,
                         openEncoder, read, retainTasks, frames, starts>>
      BY <1>3 DEF Input!Release, Input!FreeSurfacePool, Input!CloseDevice
    <2>2. openEncoder = 0 /\ read = {} /\ retainTasks = <<>>
      BY <2>1 DEF InputInv, SessionStays
    <2>3. /\ ReadOnce' /\ read' \subseteq [surface : SurfaceNames, frame : Nat]
          /\ (Input!Cardinality(Input!Locked) = Input!Cardinality(read))'
      BY <2>1, <2>2, LessRead
    <2>4. /\ vpp'.session = 0 /\ vpp'.surfaces = 0 /\ vpp'.allocator = FALSE
          /\ vpp' \in [session : Nat, surfaces : Nat, allocator : BOOLEAN]
      BY <2>1 DEF Input!NoVpp
    <2>5. Input!InputTypeOK'
      <3>1. 0 \in 0 .. inputOpened /\ 0 \in 0 .. VppSurfaces
        BY DEF InputInv, InputShape, InputConstants
      <3> QED
        BY <2>1, <2>2, <2>3, <2>4, <3>1 DEF InputInv, Input!InputTypeOK
    <2>6. InputShape'
      BY <2>1, <2>3, <2>4 DEF InputInv, InputShape
    <2>7. SessionStays' /\ Input!OnOpenSession'
      BY <2>1, <2>2, <2>4 DEF InputInv, SessionStays, Input!OnOpenSession
    <2>8. Input!FrameKeptWhileRead'
      BY <2>1, <2>2 DEF Input!FrameKeptWhileRead
    <2> QED
      BY <2>3, <2>5, <2>6, <2>7, <2>8 DEF InputInv
  <1> QED
    BY <1>1, <1>2, <1>3

\* Another session is opened only when nothing lives in the one that is closed.
LEMMA DoStartStep ==
    ASSUME InputConstants, InputInv, NEW fail, Input!DoStart(fail) PROVE InputInv'
  <1>1. /\ state = "stopped" /\ starts < MaxStarts /\ starts' = starts + 1
        /\ UNCHANGED <<layout, device, video, determined, conversion, vpp, surfacePool, openEncoder,
                       read, retainTasks, retained, frames>>
    BY DEF Input!DoStart
  <1>2. /\ device = "open" /\ openEncoder = 0 /\ read = {} /\ retainTasks = <<>>
        /\ inputOpened \in Nat /\ inputSession \in 0 .. inputOpened /\ starts \in Nat
        /\ video \in BOOLEAN /\ inputAllocator \in BOOLEAN /\ MaxStarts \in Nat
    BY <1>1 DEF InputInv, SessionStays, InputShape, Input!InputTypeOK, InputConstants
  <1>3. /\ inputOpened' \in Nat /\ inputOpened <= inputOpened'
        /\ inputSession' \in 0 .. inputOpened'
        /\ inputAllocator' \in BOOLEAN
        /\ state' \in {"running", "halted"}
        /\ state' = "running" => video' = inputAllocator'
        /\ vpp.session # 0 => inputSession' = inputSession /\ video' = inputAllocator'
    <2>1. CASE video # inputAllocator
      <3>1. /\ inputSession' = Input!Reopen(fail).session /\ inputOpened' = Input!Reopen(fail).opened
            /\ inputAllocator' = Input!Reopen(fail).set
            /\ state' = IF Input!Reopen(fail).set = video THEN "running" ELSE "halted"
        BY <2>1 DEF Input!DoStart
      <3>2. Input!SetAllocator \in BOOLEAN
        BY <1>2 DEF Input!SetAllocator
      <3>3. vpp.session = 0
        BY <2>1 DEF InputInv, SessionStays
      <3>4. CASE fail = "close" \/ inputSession = 0
        <4>1. Input!Reopen(fail) =
                [session |-> inputSession, opened |-> inputOpened, set |-> inputAllocator]
          BY <3>4 DEF Input!Reopen
        <4> QED
          BY <1>1, <1>2, <3>1, <3>3, <4>1
      <3>5. CASE fail = "session" /\ inputSession # 0
        <4>1. Input!Reopen(fail) =
                [session |-> 0, opened |-> inputOpened, set |-> inputAllocator]
          BY <3>5 DEF Input!Reopen
        <4> QED
          BY <1>1, <1>2, <3>1, <3>3, <4>1
      <3>6. CASE fail = "allocator" /\ inputSession # 0
        <4>1. Input!Reopen(fail) = [session |-> inputOpened + 1, opened |-> inputOpened + 1,
                                    set |-> inputAllocator]
          BY <3>6 DEF Input!Reopen
        <4> QED
          BY <1>1, <1>2, <3>1, <3>3, <4>1
      <3>7. CASE fail \notin {"close", "session", "allocator"} /\ inputSession # 0
        <4>1. Input!Reopen(fail) = [session |-> inputOpened + 1, opened |-> inputOpened + 1,
                                    set |-> Input!SetAllocator]
          BY <3>7 DEF Input!Reopen
        <4> QED
          BY <1>1, <1>2, <3>1, <3>2, <3>3, <4>1
      <3> QED
        BY <3>4, <3>5, <3>6, <3>7
    <2>2. CASE video = inputAllocator
      <3>1. state' = "running" /\ UNCHANGED <<inputSession, inputOpened, inputAllocator>>
        BY <2>2 DEF Input!DoStart
      <3> QED
        BY <1>1, <1>2, <2>2, <3>1
    <2> QED
      BY <2>1, <2>2
  <1>4. /\ ReadOnce' /\ read' \subseteq [surface : SurfaceNames, frame : Nat]
        /\ (Input!Cardinality(Input!Locked) = Input!Cardinality(read))'
    BY <1>1, LessRead
  <1>5. /\ openEncoder \in 0 .. inputOpened' /\ vpp.session \in 0 .. inputOpened'
        /\ starts' <= MaxStarts
    BY <1>1, <1>2, <1>3 DEF InputInv, Input!InputTypeOK
  <1>6. Input!InputTypeOK'
    BY <1>1, <1>2, <1>3, <1>4, <1>5 DEF InputInv, Input!InputTypeOK
  <1>7. InputShape'
    BY <1>1, <1>2, <1>3, <1>4 DEF InputInv, InputShape
  <1>8. SessionStays'
    BY <1>1, <1>2, <1>3 DEF InputInv, SessionStays
  <1>9. Input!OnOpenSession'
    BY <1>1, <1>2, <1>3 DEF InputInv, Input!OnOpenSession
  <1>10. Input!FrameKeptWhileRead'
    BY <1>1, <1>2 DEF InputInv, Input!FrameKeptWhileRead
  <1> QED
    BY <1>4, <1>6, <1>7, <1>8, <1>9, <1>10 DEF InputInv

\* A surface that is converted to is not read, if there is one.
LEMMA TargetIsFree ==
    ASSUME InputConstants, InputInv, NEW v, NEW fail, v.surfaces \in 0 .. VppSurfaces,
           vpp.surfaces <= v.surfaces
    PROVE  LET t == Input!Target(v, fail)
           IN \/ t = 0
              \/ /\ t \in 1 .. VppSurfaces /\ t <= v.surfaces + 1
                 /\ <<"vpp", t>> \notin Input!Locked
  <1> DEFINE F == Input!Free("vpp", v.surfaces)
             t == Input!Target(v, fail)
  <1>1. VppSurfaces \in Nat /\ v.surfaces \in Nat /\ v.surfaces <= VppSurfaces
    BY DEF InputConstants
  <1>2. \A l \in read : l.surface[1] = "vpp" => l.surface[2] \in 1 .. vpp.surfaces
    BY DEF InputInv, ReadOnce
  <1>3. vpp.surfaces \in Nat
    BY DEF InputInv, InputShape
  <1>4. CASE F # {}
    <2>1. F \subseteq Nat
      BY <1>1 DEF Input!Free
    <2>2. t = Input!First(F)
      BY <1>4 DEF Input!Target
    <2>3. t \in F
      BY <1>4, <2>1, <2>2, FirstIsOne
    <2>4. t \in 1 .. v.surfaces /\ <<"vpp", t>> \notin Input!Locked
      BY <2>3 DEF Input!Free
    <2> HIDE DEF t, F
    <2>5. t \in 1 .. VppSurfaces /\ t <= v.surfaces + 1
      BY <1>1, <2>4
    <2> QED
      BY <2>4, <2>5 DEF t
  <1>5. CASE F = {} /\ v.surfaces < VppSurfaces /\ fail # "vppSurface"
    <2>1. t = v.surfaces + 1
      BY <1>5 DEF Input!Target
    <2>2. \A l \in read : l.surface # <<"vpp", v.surfaces + 1>>
      BY <1>1, <1>2, <1>3
    <2>3. <<"vpp", t>> \notin Input!Locked
      BY <2>1, <2>2 DEF Input!Locked
    <2> HIDE DEF t, F
    <2>4. t \in 1 .. VppSurfaces /\ t <= v.surfaces + 1
      BY <1>1, <1>5, <2>1
    <2> QED
      BY <2>3, <2>4 DEF t
  <1>6. CASE F = {} /\ ~(v.surfaces < VppSurfaces /\ fail # "vppSurface")
    <2>1. t = 0
      BY <1>6 DEF Input!Target
    <2> QED
      BY <2>1
  <1> QED
    BY <1>4, <1>5, <1>6

LEMMA DoWorkStep ==
    ASSUME InputConstants, InputInv, NEW fail, NEW keep \in BOOLEAN, Input!DoWork(fail, keep)
    PROVE  InputInv'
  <1> DEFINE s == Input!InitVPP(fail)
             t == Input!Target(s.vpp, fail)
             surface == Input!Surface(s, fail)
             fails == ~s.ok \/ fail \in {"convert", "encoder", "bitstream"} \/ surface = <<"pool", 0>>
             mapped == s.ok /\ fail # "convert"
             grown == s.conversion /\ s.video /\ mapped /\ t > s.vpp.surfaces
             lock == [surface |-> surface, frame |-> frames + 1]
             task == [frame |-> frames + 1, surface |-> surface]
  <1>1. /\ state = "running" /\ frames < MaxFrames /\ frames' = frames + 1
        /\ UNCHANGED <<layout, state, device, inputSession, inputOpened, retained, starts>>
    BY DEF Input!DoWork
  <1>2. /\ video' = s.video /\ inputAllocator' = s.set /\ conversion' = s.conversion
        /\ surfacePool' = s.pool /\ determined' = s.ok
        /\ vpp' = [s.vpp EXCEPT !.surfaces = IF grown THEN @ + 1 ELSE @]
    BY DEF Input!DoWork
  <1>3. openEncoder' \in {openEncoder, 0, inputSession}
    BY DEF Input!DoWork
  <1>4. IF fails THEN UNCHANGED <<retainTasks, read>>
        ELSE /\ retainTasks' = Append(retainTasks, task)
             /\ keep => Cardinality(read) < Keeps /\ surface # Input!NoSurface
             /\ read' = IF keep THEN read \cup {lock} ELSE read
    BY SameCardinalityOfInput DEF Input!DoWork
  <1>5. SettingsMade(s) /\ VppMade(s)
    BY <1>1, InitVPPKeeps
  <1>6. \/ t = 0
        \/ t \in 1 .. VppSurfaces /\ t <= s.vpp.surfaces + 1 /\ <<"vpp", t>> \notin Input!Locked
    BY <1>5, TargetIsFree DEF VppMade
  <1>7. frames \in Nat /\ MaxFrames \in Nat /\ VppSurfaces \in Nat /\ PoolSize \in Nat
    BY DEF InputInv, InputShape, InputConstants
  <1>8. ~fails => /\ surface \in SurfaceNames
                  /\ surface # Input!NoSurface => surface \notin Input!Locked
                  /\ surface[1] = "new" => surface[2] = frames + 1
                  /\ surface[1] = "vpp" => surface[2] = t /\ t # 0 /\ s.conversion /\ s.video
    <2>1. CASE s.video /\ ~s.conversion
      <3>1. surface = <<"new", frames + 1>>
        BY <2>1 DEF Input!Surface
      <3>2. \A l \in read : l.surface # <<"new", frames + 1>>
        BY <1>7 DEF InputInv, ReadOnce
      <3> QED
        BY <1>7, <3>1, <3>2 DEF SurfaceNames, Input!Locked, Input!NoSurface
    <2>2. CASE s.video /\ s.conversion
      <3>1. surface = IF t = 0 \/ fail = "vpp" THEN Input!NoSurface ELSE <<"vpp", t>>
        BY <2>2 DEF Input!Surface
      <3> HIDE DEF t
      <3>2. t \in Nat
        BY <1>6, <1>7
      <3> QED
        BY <1>6, <2>2, <3>1, <3>2 DEF SurfaceNames, Input!NoSurface
    <2>3. CASE ~s.video
      <3> DEFINE unread == Input!Free("pool", PoolSize)
      <3>1. surface = IF unread = {} THEN <<"pool", 0>> ELSE <<"pool", Input!First(unread)>>
        BY <2>3 DEF Input!Surface
      <3>2. CASE unread = {}
        BY <3>1, <3>2
      <3>3. CASE unread # {}
        <4>1. unread \subseteq Nat /\ \A i \in unread : <<"pool", i>> \notin Input!Locked
          BY <1>7 DEF Input!Free
        <4>2. Input!First(unread) \in unread
          BY <3>3, <4>1, FirstIsOne
        <4> QED
          BY <3>1, <3>3, <4>1, <4>2 DEF SurfaceNames, Input!NoSurface
      <3> QED
        BY <3>2, <3>3
    <2> QED
      BY <2>1, <2>2, <2>3
  <1>9. /\ ~fails => s.ok /\ mapped
    OBVIOUS
  <1>10. grown => s.ok
    OBVIOUS
  <1>11. /\ grown => t > s.vpp.surfaces
         /\ s.conversion /\ s.video /\ mapped /\ t > s.vpp.surfaces => grown
    OBVIOUS
  <1> HIDE DEF s, t, surface, fails, mapped, grown
  <1>12. /\ vpp' \in [session : Nat, surfaces : Nat, allocator : BOOLEAN]
         /\ vpp'.session \in {0, inputSession}
         /\ vpp'.surfaces \in 0 .. VppSurfaces /\ vpp.surfaces <= vpp'.surfaces
         /\ grown => vpp'.surfaces = s.vpp.surfaces + 1
         /\ ~grown => vpp' = s.vpp
    <2>1. CASE grown
      <3>1. /\ vpp'.session = s.vpp.session /\ vpp'.allocator = s.vpp.allocator
            /\ vpp'.surfaces = s.vpp.surfaces + 1
            /\ vpp' \in [session : Nat, surfaces : Nat, allocator : BOOLEAN]
        BY <1>2, <1>5, <2>1 DEF VppMade
      <3>2. vpp.surfaces \in Nat /\ s.vpp.surfaces \in Nat /\ vpp.surfaces <= s.vpp.surfaces
        BY <1>5 DEF VppMade, InputInv, InputShape
      <3>3. s.vpp.surfaces + 1 <= VppSurfaces
        BY <1>6, <1>7, <1>11, <2>1, <3>2
      <3> QED
        BY <1>5, <1>7, <2>1, <3>1, <3>2, <3>3 DEF VppMade
    <2>2. CASE ~grown
      <3>1. vpp' = s.vpp
        BY <1>2, <1>5, <2>2 DEF VppMade
      <3> QED
        BY <1>5, <2>2, <3>1 DEF VppMade
    <2> QED
      BY <2>1, <2>2
  <1>13. ~fails /\ surface[1] = "vpp" => surface[2] \in 1 .. vpp'.surfaces
    <2> SUFFICES ASSUME ~fails, surface[1] = "vpp"
                 PROVE  t \in 1 .. vpp'.surfaces
      BY <1>8
    <2>1. s.vpp.surfaces \in Nat /\ t # 0
      BY <1>5, <1>8 DEF VppMade
    <2>2. CASE t > s.vpp.surfaces
      <3>1. grown
        BY <1>8, <1>9, <1>11, <2>2
      <3> QED
        BY <1>6, <1>12, <2>1, <3>1
    <2>3. CASE ~(t > s.vpp.surfaces)
      <3>1. vpp' = s.vpp
        BY <1>11, <1>12, <2>3
      <3> QED
        BY <1>6, <1>7, <2>1, <2>3, <3>1
    <2> QED
      BY <2>2, <2>3
  <1>14. ReadOnce' /\ read' \subseteq [surface : SurfaceNames, frame : Nat]
    <2>1. /\ IsFiniteSet(read) /\ Cardinality(read) <= Keeps /\ Cardinality(read) \in Nat
          /\ Keeps \in Nat
          /\ \A l, m \in read : l.surface = m.surface => l = m
          /\ read \subseteq [surface : SurfaceNames, frame : Nat]
      BY FS_CardinalityType DEF InputInv, ReadOnce, InputShape, InputConstants
    <2>2. \A l \in read : /\ l.surface[1] = "new" => l.surface[2] <= frames'
                          /\ l.surface[1] = "vpp" => l.surface[2] \in 1 .. vpp'.surfaces
      <3> SUFFICES ASSUME NEW l \in read
                   PROVE  /\ l.surface[1] = "new" => l.surface[2] <= frames'
                          /\ l.surface[1] = "vpp" => l.surface[2] \in 1 .. vpp'.surfaces
        OBVIOUS
      <3>1. l.surface[2] \in Nat
        BY <2>1 DEF SurfaceNames
      <3>2. /\ l.surface[1] = "new" => l.surface[2] <= frames
            /\ l.surface[1] = "vpp" => l.surface[2] \in 1 .. vpp.surfaces
        BY DEF InputInv, ReadOnce
      <3>3. vpp.surfaces \in Nat /\ vpp'.surfaces \in Nat
        BY <1>7, <1>12 DEF InputInv, InputShape
      <3> QED
        BY <1>1, <1>7, <1>12, <3>1, <3>2, <3>3
    <2>3. CASE read' = read
      BY <2>1, <2>2, <2>3 DEF ReadOnce
    <2>4. CASE ~fails /\ keep
      <3>1. read' = read \cup {lock} /\ Cardinality(read) < Keeps /\ surface # Input!NoSurface
        BY <1>4, <2>4
      <3>2. lock.surface = surface /\ lock \in [surface : SurfaceNames, frame : Nat]
        BY <1>7, <1>8, <2>4
      <3>3. \A l \in read : l.surface # surface
        BY <1>8, <2>4, <3>1 DEF Input!Locked
      <3> HIDE DEF lock
      <3>4. \A l, m \in read' : l.surface = m.surface => l = m
        BY <2>1, <3>1, <3>2, <3>3
      <3>5. IsFiniteSet(read') /\ Cardinality(read') <= Keeps
        <4>1. lock \notin read
          BY <3>2, <3>3
        <4>2. IsFiniteSet(read') /\ Cardinality(read') = Cardinality(read) + 1
          BY <2>1, <3>1, <4>1, FS_AddElement
        <4> QED
          BY <2>1, <3>1, <4>2
      <3>6. \A l \in read' : /\ l.surface[1] = "new" => l.surface[2] <= frames'
                             /\ l.surface[1] = "vpp" => l.surface[2] \in 1 .. vpp'.surfaces
        <4>1. /\ surface[1] = "new" => surface[2] <= frames'
              /\ surface[1] = "vpp" => surface[2] \in 1 .. vpp'.surfaces
          BY <1>1, <1>7, <1>8, <1>13, <2>4
        <4> QED
          BY <2>2, <3>1, <3>2, <4>1
      <3>7. read' \subseteq [surface : SurfaceNames, frame : Nat]
        BY <2>1, <3>1, <3>2
      <3> QED
        BY <3>4, <3>5, <3>6, <3>7 DEF ReadOnce
    <2> QED
      BY <1>4, <2>3, <2>4
  <1>15. (Input!Cardinality(Input!Locked) = Input!Cardinality(read))'
    BY <1>14, SurfacesRead, SameCardinalityOfInput DEF ReadOnce, Input!Locked
  <1>16. /\ openEncoder' \in {0, inputSession}
         /\ inputSession \in 0 .. inputOpened /\ inputOpened \in Nat
    BY <1>3 DEF InputInv, Input!OnOpenSession, Input!InputTypeOK, InputShape
  <1>17. Input!InputTypeOK'
    <2>1. openEncoder' \in 0 .. inputOpened /\ vpp'.session \in 0 .. inputOpened
      BY <1>12, <1>16
    <2>2. {video, inputAllocator, determined, conversion, surfacePool}' \subseteq BOOLEAN
      BY <1>2, <1>5 DEF SettingsMade
    <2>3. frames' <= MaxFrames
      BY <1>1, <1>7
    <2> QED
      BY <1>1, <1>12, <1>15, <2>1, <2>2, <2>3 DEF InputInv, Input!InputTypeOK
  <1>18. retainTasks' \in Seq([frame : Nat, surface : SurfaceNames])
         /\ Listed(retainTasks') = IF fails THEN Listed(retainTasks) ELSE Listed(retainTasks) \cup {task}
    <2>1. retainTasks \in Seq([frame : Nat, surface : SurfaceNames])
      BY DEF InputInv, InputShape
    <2>2. ~fails => task \in [frame : Nat, surface : SurfaceNames]
      BY <1>7, <1>8
    <2> HIDE DEF task
    <2> QED
      <3>1. CASE fails
        BY <1>4, <2>1, <3>1
      <3>2. CASE ~fails
        <4>1. retainTasks' = Append(retainTasks, task)
          BY <1>4, <3>2
        <4>2. task \in [frame : Nat, surface : SurfaceNames]
          BY <2>2, <3>2
        <4> DEFINE Tasks == [frame : Nat, surface : SurfaceNames]
        <4> HIDE DEF Tasks
        <4>3. \A q \in Seq(Tasks), k \in Tasks :
                 Append(q, k) \in Seq(Tasks) /\ Listed(Append(q, k)) = Listed(q) \cup {k}
          BY ListedAppend
        <4>4. Append(retainTasks, task) \in Seq([frame : Nat, surface : SurfaceNames])
              /\ Listed(Append(retainTasks, task)) = Listed(retainTasks) \cup {task}
          BY <2>1, <4>2, <4>3 DEF Tasks
        <4> QED
          BY <3>2, <4>1, <4>4
      <3> QED
        BY <3>1, <3>2
  <1>19. InputShape'
    BY <1>1, <1>7, <1>12, <1>14, <1>18 DEF InputInv, InputShape
  <1>20. SessionStays'
    <2>1. video' = inputAllocator' /\ layout' = layout /\ (layout # "yuvPlain" => video' = TRUE)
      BY <1>1, <1>2, <1>5 DEF SettingsMade
    <2>2. ~determined' => vpp' = Input!NoVpp
      BY <1>2, <1>5, <1>10, <1>12 DEF SettingsMade, VppMade
    <2>3. device' = "open" /\ state' = "running"
      BY <1>1 DEF InputInv, SessionStays
    <2> QED
      BY <2>1, <2>2, <2>3 DEF SessionStays
  <1>21. Input!OnOpenSession'
    <2>1. device' = "open"
      BY <1>1 DEF InputInv, SessionStays
    <2> QED
      BY <1>1, <1>12, <1>16, <2>1 DEF Input!OnOpenSession
  <1>22. Input!FrameKeptWhileRead'
    <2> SUFFICES ASSUME NEW l \in read'
                 PROVE  \E k \in retained \cup Listed(retainTasks') :
                            k.frame = l.frame /\ k.surface = l.surface
      BY <1>1 DEF Input!FrameKeptWhileRead, Listed
    <2>1. CASE l \in read
      <3>1. PICK k \in retained \cup Listed(retainTasks) : k.frame = l.frame /\ k.surface = l.surface
        BY <1>1, <2>1 DEF InputInv, Input!FrameKeptWhileRead, Listed
      <3> QED
        BY <1>18, <3>1
    <2>2. CASE l \notin read
      <3>1. ~fails /\ l = lock
        BY <1>4, <2>2
      <3> QED
        BY <1>18, <3>1
    <2> QED
      BY <2>1, <2>2
  <1> QED
    BY <1>14, <1>17, <1>19, <1>20, <1>21, <1>22 DEF InputInv

LEMMA InputStep == ASSUME InputConstants, InputInv, Input!Next PROVE InputInv'
  <1>1. CASE \E fail \in Input!Failures : Input!DoStart(fail)
    BY <1>1, DoStartStep
  <1>2. CASE \E fail \in Input!Failures, keep \in BOOLEAN : Input!DoWork(fail, keep)
    BY <1>2, DoWorkStep
  <1>3. CASE \E l \in read : Input!Unlocks(l)
    BY <1>3, UnlocksStep
  <1> QED
    BY <1>1, <1>2, <1>3, RetainLockedFrameStep, WaitWorkOfInputStep, EndOfInputStep DEF Input!Next


-----------------------------------------------------------------------------
(* DecoderSettings *)

\* The members of the decoder, one by one.
DecoderShape ==
    /\ decoderType \in {"H264", "VP8"} /\ pattern \in {"video", "system"}
    /\ eightBit \in BOOLEAN /\ tenBit \in BOOLEAN /\ initialized \in BOOLEAN /\ once \in BOOLEAN
    /\ vppConversion \in BOOLEAN
    /\ decoderRun \in {"stopped", "running", "halted", "released"}
    /\ opened \in Nat /\ opened <= MaxSessions /\ session \in Nat /\ session <= opened
    /\ allocatorOf \in Nat /\ allocatorOf <= opened
    /\ maxSize \in Nat /\ 176 <= maxSize /\ maxSize <= 8192 /\ maxInput >= DecoderParams!MinInput

\* The sizes are numbers a codec can have.
SizesKnown ==
    /\ frameSize \in Nat /\ frameSize <= 8192 /\ size \in Nat /\ size <= 8192
    /\ \A n \in infos : n \in Nat /\ n <= 8192

\* An open decoder was opened once, and since the last start: so its pattern stays, and the
\* allocator that is set is that of its session.
OpenSinceStart ==
    /\ initialized => decoderRun = "running" /\ once
    /\ initialized /\ pattern = "video" => allocatorSet
    /\ decoderRun = "running" /\ allocatorSet => allocator /\ allocatorOf = session

\* The filter is of the open session, and there is none before a frame was to be converted.
FilterOfSession ==
    /\ filter \in {0, session}
    /\ vppConversion \/ filter = 0
    /\ decoderRun = "running" \/ filter = 0
    /\ DecoderParams!EightBitsByDefault

\* The updates that wait are colours, the last of them those of the stream.
Colours == [{"range", "colour"} -> {"unspecified", "client", "limited", "full", "bt2020"}]
UpdatesWait == updates \in Seq(Colours) /\ DecoderParams!ColoursAreTold

\* Only the client changes its default.
DefaultIsClients ==
    default.range = "unspecified" /\ default.colour \in {"unspecified", "client"}
    /\ DOMAIN default = {"range", "colour"}

DecoderInv == /\ DecoderShape /\ SizesKnown /\ OpenSinceStart /\ DefaultIsClients
              /\ FilterOfSession /\ UpdatesWait

\* The types an instance has are registered, and their parameters are in their ranges.
LEMMA DecoderTypeRanges ==
    /\ {"H264", "VP8"} \subseteq DecoderParams!Registered
    /\ DecoderParams!Registered = DOMAIN DecoderParams!FrameConstructor
    /\ \A t \in {"H264", "VP8"} :
         /\ DecoderParams!Codec[t].profile \in DecoderParams!Codec[t].profiles
         /\ DecoderParams!Codec[t].level \in DecoderParams!Codec[t].levels
         /\ DecoderParams!Codec[t].max = 4096
  <1>1. /\ {"H264", "VP8"} \subseteq DecoderParams!Registered
        /\ DecoderParams!Registered = DOMAIN DecoderParams!FrameConstructor
    BY DEF DecoderParams!Registered, DecoderParams!FrameConstructor
  <1>2. DecoderParams!Codec["H264"] = DecoderParams!AVC /\ DecoderParams!Codec["VP8"] = DecoderParams!VP8
    BY DEF DecoderParams!Codec
  <1>3. /\ DecoderParams!AVC.profile \in DecoderParams!AVC.profiles
        /\ DecoderParams!AVC.level \in DecoderParams!AVC.levels /\ DecoderParams!AVC.max = 4096
    BY DEF DecoderParams!AVC, DecoderParams!Params
  <1>4. /\ DecoderParams!VP8.profile \in DecoderParams!VP8.profiles
        /\ DecoderParams!VP8.level \in DecoderParams!VP8.levels /\ DecoderParams!VP8.max = 4096
    BY DEF DecoderParams!VP8, DecoderParams!Params
  <1> QED
    BY <1>1, <1>2, <1>3, <1>4

LEMMA AlignedSizes ==
    ASSUME NEW n \in Nat, n <= 8192
    PROVE  DecoderParams!Align16(n) \in Nat /\ DecoderParams!Align16(n) <= 8192
  BY DEF DecoderParams!Align16

LEMMA InputSizes ==
    ASSUME NEW m \in Nat
    PROVE  DecoderParams!MaxInputSizeSetter(m) >= DecoderParams!MinInput
  <1> DEFINE n == (m + 63) \div 64
  <1>1. n \in Nat
    OBVIOUS
  <1>2. DecoderParams!MaxInputSizeSetter(m) = DecoderParams!Larger(n * n * 3072, 1024 * 1024)
    BY DEF DecoderParams!MaxInputSizeSetter, DecoderParams!MinInput
  <1> HIDE DEF n
  <1>3. n * n * 3072 \in Nat
    BY <1>1
  <1> QED
    BY <1>2, <1>3 DEF DecoderParams!Larger, DecoderParams!MinInput

LEMMA DecoderInit == ASSUME MaxSessions \in Nat \ {0}, DecoderParams!Init PROVE DecoderInv
  <1>1. /\ decoderType \in {"H264", "VP8"}
        /\ size = 176 /\ told = 176 /\ maxSize = 176 /\ maxInput = 1024 * 1024
        /\ frameSize = 320 /\ tenBit = FALSE /\ pattern = "video" /\ eightBit = TRUE
        /\ vppConversion = FALSE /\ filter = 0 /\ infos = {} /\ updates = <<>>
        /\ default = [range |-> "unspecified", colour |-> "unspecified"]
        /\ decoderRun = "stopped" /\ session = 1 /\ opened = 1
        /\ allocatorSet = FALSE /\ allocatorOf = 0 /\ allocator = FALSE
        /\ initialized = FALSE /\ once = FALSE
    BY DEF DecoderParams!Init, DecoderParams!MinSize, DecoderParams!MinInput, DecoderTypes
  <1>2. DecoderShape
    <2>1. /\ maxInput >= DecoderParams!MinInput /\ opened <= MaxSessions
          /\ opened \in Nat /\ session \in Nat /\ allocatorOf \in Nat /\ maxSize \in Nat
      BY <1>1 DEF DecoderParams!MinInput
    <2>2. /\ eightBit \in BOOLEAN /\ tenBit \in BOOLEAN /\ initialized \in BOOLEAN
          /\ once \in BOOLEAN /\ vppConversion \in BOOLEAN
      BY <1>1, Zenon
    <2> QED
      BY <1>1, <2>1, <2>2 DEF DecoderShape
  <1>3. SizesKnown /\ OpenSinceStart /\ DefaultIsClients
    BY <1>1 DEF SizesKnown, OpenSinceStart, DefaultIsClients
  <1>4. FilterOfSession /\ UpdatesWait
    BY <1>1 DEF FilterOfSession, UpdatesWait, DecoderParams!EightBitsByDefault,
                DecoderParams!ColoursAreTold
  <1> QED
    BY <1>2, <1>3, <1>4 DEF DecoderInv

\* What the client is told of the colours depends on these members only.
LEMMA ColoursStayTold ==
    ASSUME UpdatesWait, UNCHANGED <<decoderType, updates, known, initialized, header>>
    PROVE  UpdatesWait'
  BY DEF UpdatesWait, DecoderParams!ColoursAreTold, DecoderParams!OfTheStream, DecoderParams!Coded

\* The decoder is closed, and the filter with it if frames are converted.
LEMMA FilterIsFreed ==
    ASSUME FilterOfSession, vppConversion' \in BOOLEAN, DecoderParams!FreeDecoder,
           vppConversion => vppConversion'
    PROVE  filter' = 0 /\ ~initialized' /\ infos' = {}
  BY DEF FilterOfSession, DecoderParams!FreeDecoder

LEMMA ConfigSizeStep ==
    ASSUME DecoderInv, NEW s \in DecoderSizes, DecoderParams!ConfigSize(s) PROVE DecoderInv'
  <1>1. /\ size' = DecoderParams!SizeSetter(size, s) /\ told' = size' /\ frameSize' = size'
        /\ maxSize' = DecoderParams!MaxPictureSizeSetter(maxSize, size')
        /\ maxInput' = DecoderParams!MaxInputSizeSetter(maxSize')
        /\ UNCHANGED <<decoderType, tenBit, pattern, eightBit, default, vppConversion, filter, infos,
                       updates, known, initialized, once, header, decoderRun, session, opened,
                       allocatorSet, allocatorOf, allocator>>
    BY DEF DecoderParams!ConfigSize, DecoderParams!sessionVars, DecoderParams!frameVars
  <1>2. size \in Nat /\ size <= 8192 /\ maxSize \in Nat /\ 176 <= maxSize /\ maxSize <= 8192
    BY DEF DecoderInv, DecoderShape, SizesKnown
  <1>3. size' \in Nat /\ size' <= 8192
    BY <1>1, <1>2 DEF DecoderParams!SizeSetter, DecoderSizes
  <1>4. maxSize' \in Nat /\ 176 <= maxSize' /\ maxSize' <= 8192
    <2>1. maxSize' = DecoderParams!Smaller(DecoderParams!Larger(maxSize, size'), 8192)
      BY <1>1 DEF DecoderParams!MaxPictureSizeSetter
    <2> DEFINE larger == DecoderParams!Larger(maxSize, size')
    <2>2. larger \in Nat /\ 176 <= larger
      BY <1>2, <1>3 DEF DecoderParams!Larger
    <2> HIDE DEF larger
    <2>3. maxSize' = IF larger < 8192 THEN larger ELSE 8192
      BY <2>1 DEF larger, DecoderParams!Smaller
    <2> QED
      BY <2>2, <2>3
  <1>5. maxInput' >= DecoderParams!MinInput
    BY <1>1, <1>4, InputSizes
  <1>6. DecoderShape' /\ SizesKnown'
    BY <1>1, <1>3, <1>4, <1>5 DEF DecoderInv, DecoderShape, SizesKnown
  <1>7. OpenSinceStart' /\ DefaultIsClients' /\ FilterOfSession'
    BY <1>1 DEF DecoderInv, OpenSinceStart, DefaultIsClients, FilterOfSession,
                DecoderParams!EightBitsByDefault
  <1> QED
    BY <1>1, <1>6, <1>7, ColoursStayTold DEF DecoderInv

LEMMA ConfigUsageStep ==
    ASSUME DecoderInv, NEW cpu \in BOOLEAN, DecoderParams!ConfigUsage(cpu) PROVE DecoderInv'
  <1>1. /\ pattern' = IF once THEN pattern ELSE IF cpu THEN "system" ELSE "video"
        /\ UNCHANGED <<decoderType, size, told, maxSize, maxInput, frameSize, tenBit, eightBit,
                       default, vppConversion, filter, infos, updates, known, initialized, once,
                       header, decoderRun, session, opened, allocatorSet, allocatorOf, allocator>>
    BY DEF DecoderParams!ConfigUsage, DecoderParams!clientVars, DecoderParams!sessionVars,
           DecoderParams!frameVars
  <1>2. pattern' \in {"system", "video"}
    BY <1>1 DEF DecoderInv, DecoderShape
  <1>3. DecoderShape' /\ SizesKnown'
    BY <1>1, <1>2 DEF DecoderInv, DecoderShape, SizesKnown
  <1>4. OpenSinceStart' /\ DefaultIsClients' /\ FilterOfSession'
    BY <1>1 DEF DecoderInv, OpenSinceStart, DefaultIsClients, FilterOfSession,
                DecoderParams!EightBitsByDefault
  <1> QED
    BY <1>1, <1>3, <1>4, ColoursStayTold DEF DecoderInv

LEMMA ConfigOtherStep ==
    ASSUME DecoderInv, DecoderParams!ConfigOther(FALSE, "client") PROVE DecoderInv'
  <1>1. /\ eightBit' = FALSE /\ default' = [default EXCEPT !.colour = "client"]
        /\ UNCHANGED <<decoderType, size, told, maxSize, maxInput, frameSize, tenBit, pattern,
                       vppConversion, filter, infos, updates, known, initialized, once, header,
                       decoderRun, session, opened, allocatorSet, allocatorOf, allocator>>
    BY DEF DecoderParams!ConfigOther, DecoderParams!sessionVars, DecoderParams!frameVars
  <1>2. DefaultIsClients'
    BY <1>1 DEF DecoderInv, DefaultIsClients
  <1>3. DecoderShape' /\ SizesKnown'
    <2>1. eightBit' \in BOOLEAN
      BY <1>1, Zenon
    <2> QED
      BY <1>1, <2>1 DEF DecoderInv, DecoderShape, SizesKnown
  <1>4. OpenSinceStart' /\ FilterOfSession'
    BY <1>1 DEF DecoderInv, OpenSinceStart, FilterOfSession, DecoderParams!EightBitsByDefault
  <1> QED
    BY <1>1, <1>2, <1>3, <1>4, ColoursStayTold DEF DecoderInv

LEMMA QuerySizeStep == ASSUME DecoderInv, DecoderParams!QuerySize PROVE DecoderInv'
  <1>1. /\ size' = frameSize
        /\ UNCHANGED <<decoderType, maxSize, maxInput, eightBit, default, frameSize, tenBit,
                       pattern, vppConversion, filter, infos, updates, known, initialized, once,
                       header, decoderRun, session, opened, allocatorSet, allocatorOf, allocator>>
    BY DEF DecoderParams!QuerySize, DecoderParams!sessionVars, DecoderParams!frameVars
  <1>2. DecoderShape' /\ SizesKnown'
    BY <1>1 DEF DecoderInv, DecoderShape, SizesKnown
  <1>3. OpenSinceStart' /\ DefaultIsClients' /\ FilterOfSession'
    BY <1>1 DEF DecoderInv, OpenSinceStart, DefaultIsClients, FilterOfSession,
                DecoderParams!EightBitsByDefault
  <1> QED
    BY <1>1, <1>2, <1>3, ColoursStayTold DEF DecoderInv

\* A surface is made with the size of now, and the frame in it brings that size back.
LEMMA AllocateFrameStep == ASSUME DecoderInv, DecoderParams!AllocateFrame PROVE DecoderInv'
  <1>1. /\ infos' = infos \cup {frameSize}
        /\ UNCHANGED <<decoderType, size, told, maxSize, maxInput, eightBit, default, frameSize,
                       tenBit, pattern, vppConversion, filter, updates, known, initialized, once,
                       header, decoderRun, session, opened, allocatorSet, allocatorOf, allocator>>
    BY DEF DecoderParams!AllocateFrame, DecoderParams!sessionVars, DecoderParams!clientVars
  <1>2. DecoderShape' /\ SizesKnown'
    BY <1>1 DEF DecoderInv, DecoderShape, SizesKnown
  <1>3. OpenSinceStart' /\ DefaultIsClients' /\ FilterOfSession'
    BY <1>1 DEF DecoderInv, OpenSinceStart, DefaultIsClients, FilterOfSession,
                DecoderParams!EightBitsByDefault
  <1> QED
    BY <1>1, <1>2, <1>3, ColoursStayTold DEF DecoderInv

LEMMA WaitWorkOfSettingsStep ==
    ASSUME DecoderInv, NEW width \in infos, NEW found \in BOOLEAN,
           DecoderParams!WaitWork(width, found)
    PROVE  DecoderInv'
  <1>1. /\ frameSize' = width /\ size' \in {size, width}
        /\ UNCHANGED <<decoderType, maxSize, maxInput, eightBit, default, tenBit, pattern,
                       vppConversion, filter, infos, initialized, once, header, decoderRun, session,
                       opened, allocatorSet, allocatorOf, allocator>>
    BY DEF DecoderParams!WaitWork, DecoderParams!sessionVars, DecoderParams!frameVars
  <1>2. \/ UNCHANGED <<updates, known>>
        \/ /\ known' = IF updates = <<>> THEN known ELSE updates[Len(updates)]
           /\ updates' = <<>>
    BY DEF DecoderParams!WaitWork
  <1>3. DecoderShape' /\ SizesKnown'
    BY <1>1 DEF DecoderInv, DecoderShape, SizesKnown
  <1>4. OpenSinceStart' /\ DefaultIsClients' /\ FilterOfSession'
    BY <1>1 DEF DecoderInv, OpenSinceStart, DefaultIsClients, FilterOfSession,
                DecoderParams!EightBitsByDefault
  <1>5. UpdatesWait'
    <2>1. CASE UNCHANGED <<updates, known>>
      BY <1>1, <2>1, ColoursStayTold DEF DecoderInv
    <2>2. CASE /\ known' = IF updates = <<>> THEN known ELSE updates[Len(updates)]
               /\ updates' = <<>>
      <3>1. DecoderParams!ColoursAreTold
        BY DEF DecoderInv, UpdatesWait
      <3>2. DecoderParams!ColoursAreTold'
        BY <1>1, <2>2, <3>1 DEF DecoderParams!ColoursAreTold, DecoderParams!OfTheStream,
                                DecoderParams!Coded
      <3>3. updates' \in Seq(Colours)
        BY <2>2
      <3> QED
        BY <3>2, <3>3 DEF UpdatesWait
    <2> QED
      BY <1>2, <2>1, <2>2
  <1> QED
    BY <1>3, <1>4, <1>5 DEF DecoderInv

\* A start opens a session without an allocator or a filter.
LEMMA DoStartOfSettingsStep ==
    ASSUME MaxSessions \in Nat \ {0}, DecoderInv, NEW fails \in BOOLEAN, DecoderParams!DoStart(fails)
    PROVE  DecoderInv'
  <1>1. /\ decoderRun = "stopped" /\ opened < MaxSessions /\ allocatorSet' = FALSE
        /\ \/ decoderRun' = "halted" /\ session' = 0 /\ opened' = opened
           \/ decoderRun' = "running" /\ session' = opened + 1 /\ opened' = opened + 1
        /\ UNCHANGED <<decoderType, size, told, maxSize, maxInput, frameSize, tenBit, pattern,
                       eightBit, default, vppConversion, filter, infos, updates, known, initialized,
                       once, header, allocatorOf, allocator>>
    BY DEF DecoderParams!DoStart, DecoderParams!AllocatorSetAnew, DecoderParams!clientVars,
           DecoderParams!frameVars
  <1>2. ~initialized /\ filter = 0
    BY <1>1 DEF DecoderInv, OpenSinceStart, FilterOfSession
  <1>3. DecoderShape' /\ SizesKnown'
    <2>1. /\ opened' \in Nat /\ opened' <= MaxSessions /\ session' \in Nat /\ session' <= opened'
          /\ allocatorOf' \in Nat /\ allocatorOf' <= opened'
      BY <1>1 DEF DecoderInv, DecoderShape
    <2> QED
      BY <1>1, <2>1 DEF DecoderInv, DecoderShape, SizesKnown
  <1>4. OpenSinceStart' /\ DefaultIsClients' /\ FilterOfSession'
    BY <1>1, <1>2 DEF DecoderInv, OpenSinceStart, DefaultIsClients, FilterOfSession,
                      DecoderParams!EightBitsByDefault
  <1> QED
    BY <1>1, <1>3, <1>4, ColoursStayTold DEF DecoderInv

\* A stop and the end close the decoder, and the filter before the session.
LEMMA DoStopOfSettingsStep ==
    ASSUME DecoderInv, DecoderParams!DoStop \/ DecoderParams!Release PROVE DecoderInv'
  <1>1. /\ decoderRun' \in {"stopped", "released"} /\ session' \in {0, session}
        /\ UNCHANGED <<decoderType, size, told, maxSize, maxInput, frameSize, tenBit, pattern,
                       eightBit, default, vppConversion, updates, known, once, header, opened,
                       allocatorSet, allocatorOf>>
    BY DEF DecoderParams!DoStop, DecoderParams!Release, DecoderParams!clientVars,
           DecoderParams!frameVars
  <1>2. filter' = 0 /\ ~initialized' /\ infos' \subseteq infos /\ initialized' \in BOOLEAN
    <2>1. CASE DecoderParams!DoStop
      <3>1. DecoderParams!FreeDecoder /\ initialized' = FALSE
        BY <2>1 DEF DecoderParams!DoStop, DecoderParams!FreeDecoder
      <3>2. vppConversion' \in BOOLEAN /\ FilterOfSession /\ vppConversion' = vppConversion
        BY <1>1 DEF DecoderInv, DecoderShape
      <3>3. initialized' \in BOOLEAN
        BY <3>1, Zenon
      <3>4. filter' = 0 /\ ~initialized' /\ infos' = {}
        BY <3>1, <3>2, FilterIsFreed
      <3> QED
        BY <3>3, <3>4
    <2>2. CASE DecoderParams!Release
      BY <2>2 DEF DecoderParams!Release, DecoderParams!frameVars, DecoderInv, OpenSinceStart,
                  FilterOfSession, DecoderShape
    <2> QED
      BY <2>1, <2>2
  <1>3. DecoderShape' /\ SizesKnown'
    BY <1>1, <1>2 DEF DecoderInv, DecoderShape, SizesKnown
  <1>4. OpenSinceStart' /\ DefaultIsClients' /\ FilterOfSession' /\ UpdatesWait'
    BY <1>1, <1>2 DEF DecoderInv, OpenSinceStart, DefaultIsClients, FilterOfSession, UpdatesWait,
                      DecoderParams!EightBitsByDefault, DecoderParams!ColoursAreTold
  <1> QED
    BY <1>3, <1>4 DEF DecoderInv

LEMMA StreamSizes ==
    ASSUME NEW s \in DecoderStreams
    PROVE  s.size \in Nat /\ s.size <= 8192 /\ s.tenBit \in BOOLEAN
  <1>1. s.size \in {200, 320} /\ (s.tenBit = FALSE \/ s.tenBit = TRUE)
    BY DEF DecoderStreams
  <1>2. s.tenBit \in BOOLEAN
    BY <1>1, Zenon
  <1> QED
    BY <1>1, <1>2

LEMMA StreamColours ==
    ASSUME NEW s \in DecoderStreams
    PROVE  /\ DecoderParams!Coded(s).range \in {"unspecified", "limited", "full"}
           /\ DecoderParams!Coded(s).colour \in {"unspecified", "bt2020"}
           /\ DOMAIN DecoderParams!Coded(s) = {"range", "colour"}
  BY DEF DecoderStreams, DecoderParams!Coded

\* The header of a stream is read: the decoder is not open after it.
LEMMA HeaderSteps ==
    ASSUME DecoderInv, NEW s \in DecoderStreams,
           \/ DecoderParams!InitDecoderNoHeader(s)
           \/ \E closed \in BOOLEAN : DecoderParams!HandleFormatChange(s, closed)
    PROVE  DecoderInv'
  <1>1. /\ initialized' = FALSE /\ infos' = {}
        /\ frameSize' \in {DecoderParams!Align16(frameSize), DecoderParams!Align16(s.size), s.size}
        /\ tenBit' \in {tenBit, s.tenBit}
        /\ filter' = (IF vppConversion THEN 0 ELSE filter) \/ filter' = filter
        /\ UNCHANGED <<decoderType, size, told, maxSize, maxInput, pattern, eightBit, default,
                       vppConversion, updates, known, once, decoderRun, session, opened,
                       allocatorSet, allocatorOf, allocator>>
    BY DEF DecoderParams!InitDecoderNoHeader, DecoderParams!HandleFormatChange,
           DecoderParams!FreeDecoder, DecoderParams!clientVars, DecoderParams!sessionVars
  <1>2. frameSize \in Nat /\ frameSize <= 8192 /\ tenBit \in BOOLEAN
    BY DEF DecoderInv, SizesKnown, DecoderShape
  <1>3. frameSize' \in Nat /\ frameSize' <= 8192 /\ tenBit' \in BOOLEAN
    BY <1>1, <1>2, StreamSizes, AlignedSizes
  <1>4. initialized' \in BOOLEAN
    BY <1>1, Zenon
  <1>5. DecoderShape' /\ SizesKnown'
    BY <1>1, <1>3, <1>4 DEF DecoderInv, DecoderShape, SizesKnown
  <1>6. OpenSinceStart' /\ DefaultIsClients' /\ FilterOfSession' /\ UpdatesWait'
    BY <1>1 DEF DecoderInv, OpenSinceStart, DefaultIsClients, FilterOfSession, UpdatesWait,
                DecoderParams!EightBitsByDefault, DecoderParams!ColoursAreTold
  <1> QED
    BY <1>5, <1>6 DEF DecoderInv

\* The decoder is opened: on a session that has the allocator, with a filter of it for frames that
\* are to be converted, and with the colours of the stream on their way to the client.
LEMMA InitDecoderStep ==
    ASSUME DecoderInv, NEW s \in DecoderStreams, NEW bq \in BOOLEAN, NEW fail,
           DecoderParams!InitDecoder(s, bq, fail)
    PROVE  DecoderInv'
  <1> DEFINE set == pattern' = "video" /\ ~allocatorSet
             coded == DecoderParams!Coded(s)
             needs == DecoderParams!NeedsVPP(s)
  <1>1. /\ decoderRun = "running" /\ ~initialized
        /\ header' = <<s>> /\ frameSize' = DecoderParams!Align16(s.size) /\ tenBit' = s.tenBit
        /\ UNCHANGED <<decoderType, size, told, maxSize, maxInput, eightBit, default, known, decoderRun,
                       session, opened>>
    BY DEF DecoderParams!InitDecoder, DecoderParams!clientVars
  <1>2. pattern' \in {"video", "system"}
    BY DEF DecoderParams!InitDecoder
  <1>3. /\ allocator' = (set \/ allocator)
        /\ allocatorSet' = ((set /\ fail # "allocator") \/ allocatorSet)
        /\ allocatorOf' = IF set /\ fail # "allocator" THEN session ELSE allocatorOf
    BY DEF DecoderParams!InitDecoder
  <1>4. /\ once' = (once \/ fail \in {"none", "vpp"})
        /\ initialized' = (fail = "none")
        /\ vppConversion' = (vppConversion \/ (needs /\ fail \in {"none", "vpp"}))
    BY DEF DecoderParams!InitDecoder, DecoderParams!FreeDecoder
  <1>5. /\ eightBit \in BOOLEAN /\ s.tenBit \in BOOLEAN /\ vppConversion \in BOOLEAN /\ once \in BOOLEAN
        /\ session \in Nat /\ allocatorOf \in Nat /\ session <= opened /\ allocatorOf <= opened
    BY StreamSizes DEF DecoderInv, DecoderShape
  <1>6. frameSize' \in Nat /\ frameSize' <= 8192 /\ tenBit' \in BOOLEAN
    BY <1>1, StreamSizes, AlignedSizes
  <1>7. /\ vppConversion' \in BOOLEAN /\ initialized' \in BOOLEAN /\ once' \in BOOLEAN
        /\ allocatorOf' \in Nat /\ allocatorOf' <= opened
    BY <1>3, <1>4, <1>5
  <1>8. DecoderShape'
    BY <1>1, <1>2, <1>6, <1>7 DEF DecoderInv, DecoderShape
  <1>9. infos' \subseteq infos
    BY DEF DecoderParams!InitDecoder, DecoderParams!FreeDecoder
  <1>10. SizesKnown' /\ DefaultIsClients'
    BY <1>1, <1>6, <1>9 DEF DecoderInv, SizesKnown, DefaultIsClients
  <1>11. OpenSinceStart'
    BY <1>1, <1>3, <1>4 DEF DecoderInv, OpenSinceStart
  <1>12. FilterOfSession'
    <2>1. CASE fail = "none"
      <3>1. filter' = IF needs THEN session ELSE filter
        BY <2>1 DEF DecoderParams!InitDecoder, DecoderParams!Filter
      <3>2. header'[1] = s
        BY <1>1
      <3>3. initialized' /\ eightBit' /\ header'[1].tenBit => needs
        BY <1>1, <3>2 DEF DecoderParams!NeedsVPP
      <3> HIDE DEF needs
      <3> QED
        BY <1>1, <1>4, <2>1, <3>1, <3>3
           DEF DecoderInv, FilterOfSession, DecoderParams!EightBitsByDefault
    <2>2. CASE fail # "none"
      <3>1. DecoderParams!FreeDecoder
        BY <2>2 DEF DecoderParams!InitDecoder
      <3>2. filter' = 0 /\ ~initialized'
        BY <1>4, <1>7, <3>1, FilterIsFreed DEF DecoderInv
      <3> QED
        BY <3>2 DEF FilterOfSession, DecoderParams!EightBitsByDefault
    <2> QED
      BY <2>1, <2>2
  <1>13. UpdatesWait'
    <2>1. CASE decoderType = "VP8"
      BY <1>1, <2>1 DEF DecoderParams!InitDecoder, DecoderParams!UpdateColorAspectsFromBitstream,
                        DecoderInv, UpdatesWait, DecoderParams!ColoursAreTold
    <2>2. CASE decoderType # "VP8"
      <3>1. /\ outColours' = [f \in {"range", "colour"} |->
                                IF coded[f] = "unspecified" THEN default[f] ELSE coded[f]]
            /\ updates' = Append(updates, outColours')
        BY <2>2 DEF DecoderParams!InitDecoder, DecoderParams!UpdateColorAspectsFromBitstream,
                    DecoderParams!ColorAspectsSetter
      <3>2. /\ coded.range \in {"unspecified", "limited", "full"}
            /\ coded.colour \in {"unspecified", "bt2020"}
        BY StreamColours
      <3>3. default.range = "unspecified" /\ default.colour \in {"unspecified", "client"}
        BY DEF DecoderInv, DefaultIsClients
      <3> HIDE DEF coded
      <3>4. outColours' \in Colours
        BY <3>1, <3>2, <3>3 DEF Colours
      <3>5. updates' \in Seq(Colours) /\ updates' # <<>> /\ updates'[Len(updates')] = outColours'
        BY <3>1, <3>4 DEF DecoderInv, UpdatesWait
      <3>6. /\ \A f \in {"range", "colour"} :
                 coded[f] # "unspecified" => outColours'[f] = coded[f]
            /\ coded.colour = "unspecified" => outColours'.colour \in {"unspecified", "client"}
        BY <3>1, <3>3
      <3>7. DecoderParams!Coded(header'[1]) = coded
        BY <1>1 DEF coded
      <3>8. DecoderParams!ColoursAreTold'
        BY <3>5, <3>6, <3>7 DEF DecoderParams!ColoursAreTold, DecoderParams!OfTheStream,
                                DecoderParams!Coded
      <3> QED
        BY <3>5, <3>8 DEF UpdatesWait
    <2> QED
      BY <2>1, <2>2
  <1> QED
    BY <1>8, <1>10, <1>11, <1>12, <1>13 DEF DecoderInv

LEMMA DecoderStep ==
    ASSUME MaxSessions \in Nat \ {0}, DecoderInv, DecoderParams!Next PROVE DecoderInv'
  <1>1. CASE \E s \in DecoderSizes : DecoderParams!ConfigSize(s)
    BY <1>1, ConfigSizeStep
  <1>2. CASE \E cpu \in BOOLEAN : DecoderParams!ConfigUsage(cpu)
    BY <1>2, ConfigUsageStep
  <1>3. CASE \E fails \in BOOLEAN : DecoderParams!DoStart(fails)
    BY <1>3, DoStartOfSettingsStep
  <1>4. CASE \/ \E s \in DecoderStreams : DecoderParams!InitDecoderNoHeader(s)
             \/ \E s \in DecoderStreams, closed \in BOOLEAN :
                  DecoderParams!HandleFormatChange(s, closed)
    BY <1>4, HeaderSteps
  <1>5. CASE \E s \in DecoderStreams, bq \in BOOLEAN, fail \in {"none", "allocator", "init", "vpp"} :
               DecoderParams!InitDecoder(s, bq, fail)
    BY <1>5, InitDecoderStep
  <1>6. CASE \E width \in infos, found \in BOOLEAN : DecoderParams!WaitWork(width, found)
    BY <1>6, WaitWorkOfSettingsStep
  <1> QED
    BY <1>1, <1>2, <1>3, <1>4, <1>5, <1>6, ConfigOtherStep, QuerySizeStep, AllocateFrameStep,
       DoStopOfSettingsStep DEF DecoderParams!Next

\* The invariant is what a run checks, and more.
LEMMA DecoderIsReady == ASSUME DecoderInv PROVE DecoderReady
  <1>1. DecoderParams!SettingsTypeOK
    <2>1. /\ maxSize \in DecoderParams!MinSize .. 8192 /\ session \in 0 .. opened
          /\ {allocatorOf, filter} \subseteq 0 .. opened
      BY DEF DecoderInv, DecoderShape, FilterOfSession, DecoderParams!MinSize
    <2>2. {eightBit, tenBit, initialized, once, vppConversion} \subseteq BOOLEAN
      BY DEF DecoderInv, DecoderShape
    <2> QED
      BY <2>1, <2>2, DecoderTypeRanges
         DEF DecoderInv, DecoderShape, SizesKnown, DecoderParams!SettingsTypeOK, DecoderTypes
  <1>2. DecoderParams!AllocatorOnSession
    BY DEF DecoderInv, OpenSinceStart, DecoderParams!AllocatorOnSession
  <1> QED
    BY <1>1, <1>2 DEF DecoderInv, FilterOfSession, UpdatesWait, DecoderReady

\* The pattern follows the client only until the decoder is opened, and never from system memory.
LEMMA PatternStep ==
    ASSUME DecoderParams!Next, once, pattern = "system" PROVE pattern' = "system"
  <1>1. ASSUME NEW cpu, DecoderParams!ConfigUsage(cpu) PROVE pattern' = pattern
    BY <1>1 DEF DecoderParams!ConfigUsage
  <1>2. ASSUME NEW s, NEW bq, NEW fail, DecoderParams!InitDecoder(s, bq, fail)
        PROVE  pattern' = "system"
    BY <1>2 DEF DecoderParams!InitDecoder
  <1>3. ASSUME NEW s, NEW f,
               \/ DecoderParams!ConfigSize(s) \/ DecoderParams!DoStart(s)
               \/ DecoderParams!InitDecoderNoHeader(s) \/ DecoderParams!HandleFormatChange(s, f)
               \/ DecoderParams!WaitWork(s, f)
        PROVE  pattern' = pattern
    BY <1>3 DEF DecoderParams!ConfigSize, DecoderParams!DoStart, DecoderParams!InitDecoderNoHeader,
                DecoderParams!HandleFormatChange, DecoderParams!WaitWork
  <1>4. ASSUME \/ DecoderParams!ConfigOther(FALSE, "client") \/ DecoderParams!QuerySize
               \/ DecoderParams!DoStop \/ DecoderParams!Release \/ DecoderParams!AllocateFrame
        PROVE  pattern' = pattern
    BY <1>4 DEF DecoderParams!ConfigOther, DecoderParams!QuerySize, DecoderParams!DoStop,
                DecoderParams!Release, DecoderParams!AllocateFrame
  <1> QED
    BY <1>1, <1>2, <1>3, <1>4 DEF DecoderParams!Next


-----------------------------------------------------------------------------
(* EncoderSettings *)

LevelShape == [tier : {"main", "high"}, number : Nat]

\* The levels of a type: those of its limits, with the defaults and the highest among them.
LEMMA AvcLevels ==
    /\ DOMAIN EncoderParams!AvcLimits = 1 .. 17
    /\ \A k \in 1 .. 17 : EncoderParams!AvcLimits[k].level \in LevelShape
    /\ EncoderParams!AvcLimits[16].level = EncoderParams!Main(510)
    /\ EncoderParams!AvcLimits[17].level = EncoderParams!Main(520)
  BY DEF EncoderParams!AvcLimits, EncoderParams!Limit, EncoderParams!Main, EncoderParams!Level, LevelShape

LEMMA HevcLevels ==
    /\ DOMAIN EncoderParams!HevcLimits = 1 .. 21
    /\ \A k \in 1 .. 21 : EncoderParams!HevcLimits[k].level \in LevelShape
    /\ EncoderParams!HevcLimits[12].level = EncoderParams!Main(510)
    /\ EncoderParams!HevcLimits[16].level = EncoderParams!Main(600)
    /\ EncoderParams!HevcLimits[21].level = EncoderParams!High(620)
  <1>1. /\ DOMAIN EncoderParams!HevcLimits = 1 .. 21
        /\ \A k \in 1 .. 21 : EncoderParams!HevcLimits[k].level \in LevelShape
    BY DEF EncoderParams!HevcLimits, EncoderParams!Limit, EncoderParams!Main, EncoderParams!High,
           EncoderParams!Level, LevelShape
  <1>2. /\ EncoderParams!HevcLimits[12].level = EncoderParams!Main(510)
        /\ EncoderParams!HevcLimits[16].level = EncoderParams!Main(600)
        /\ EncoderParams!HevcLimits[21].level = EncoderParams!High(620)
    BY DEF EncoderParams!HevcLimits, EncoderParams!Limit, EncoderParams!Main, EncoderParams!High
  <1> QED
    BY <1>1, <1>2

LEMMA Vp9Levels ==
    /\ DOMAIN EncoderParams!Vp9Limits = 1 .. 10
    /\ \A k \in 1 .. 10 : EncoderParams!Vp9Limits[k].level \in LevelShape
    /\ EncoderParams!Vp9Limits[9].level = EncoderParams!Main(500)
    /\ EncoderParams!Vp9Limits[10].level = EncoderParams!Main(510)
  BY DEF EncoderParams!Vp9Limits, EncoderParams!Limit, EncoderParams!Main, EncoderParams!Level, LevelShape

LEMMA LevelsKnown ==
    ASSUME NEW t \in EncoderTypes
    PROVE  /\ DOMAIN EncoderParams!Limits(t) \subseteq Nat
           /\ EncoderParams!Levels(t) =
                { EncoderParams!Limits(t)[k].level : k \in DOMAIN EncoderParams!Limits(t) }
           /\ EncoderParams!Levels(t) \subseteq LevelShape
           /\ {EncoderParams!Highest[t], EncoderParams!SetterLevel[t],
               EncoderParams!DefaultLevel[t]} \subseteq EncoderParams!Levels(t)
           /\ t = "H264" => EncoderParams!Main(510) \in EncoderParams!Levels(t)
           /\ t = "H265" => EncoderParams!Main(600) \in EncoderParams!Levels(t)
  <1>1. EncoderParams!Levels(t) =
          { EncoderParams!Limits(t)[k].level : k \in DOMAIN EncoderParams!Limits(t) }
    BY DEF EncoderTypes, EncoderParams!Levels
  <1>2. CASE t = "H264"
    <2>1. EncoderParams!Limits(t) = EncoderParams!AvcLimits
      BY <1>2 DEF EncoderParams!Limits
    <2>2. /\ EncoderParams!Highest[t] = EncoderParams!Main(520)
          /\ EncoderParams!SetterLevel[t] = EncoderParams!Main(520)
          /\ EncoderParams!DefaultLevel[t] = EncoderParams!Main(520)
      BY <1>2 DEF EncoderParams!Highest, EncoderParams!SetterLevel, EncoderParams!DefaultLevel
    <2>3. 16 \in 1 .. 17 /\ 17 \in 1 .. 17 /\ 1 .. 17 \subseteq Nat
      OBVIOUS
    <2> QED
      BY <1>1, <1>2, <2>1, <2>2, <2>3, AvcLevels
  <1>3. CASE t = "H265"
    <2>1. EncoderParams!Limits(t) = EncoderParams!HevcLimits
      BY <1>3 DEF EncoderParams!Limits
    <2>2. /\ EncoderParams!Highest[t] = EncoderParams!High(620)
          /\ EncoderParams!SetterLevel[t] = EncoderParams!Main(510)
          /\ EncoderParams!DefaultLevel[t] = EncoderParams!Main(600)
      BY <1>3 DEF EncoderParams!Highest, EncoderParams!SetterLevel, EncoderParams!DefaultLevel
    <2>3. 12 \in 1 .. 21 /\ 16 \in 1 .. 21 /\ 21 \in 1 .. 21 /\ 1 .. 21 \subseteq Nat
      OBVIOUS
    <2> QED
      BY <1>1, <1>3, <2>1, <2>2, <2>3, HevcLevels
  <1>4. CASE t = "VP9"
    <2>1. EncoderParams!Limits(t) = EncoderParams!Vp9Limits
      BY <1>4 DEF EncoderParams!Limits
    <2>2. /\ EncoderParams!Highest[t] = EncoderParams!Main(510)
          /\ EncoderParams!SetterLevel[t] = EncoderParams!Main(500)
          /\ EncoderParams!DefaultLevel[t] = EncoderParams!Main(500)
      BY <1>4 DEF EncoderParams!Highest, EncoderParams!SetterLevel, EncoderParams!DefaultLevel
    <2>3. 9 \in 1 .. 10 /\ 10 \in 1 .. 10 /\ 1 .. 10 \subseteq Nat
      OBVIOUS
    <2> QED
      BY <1>1, <1>4, <2>1, <2>2, <2>3, Vp9Levels
  <1> QED
    BY <1>2, <1>3, <1>4 DEF EncoderTypes

\* The level found is one of the type, whatever is demanded of it.
LEMMA MinLevelKnown ==
    ASSUME NEW t \in EncoderTypes, NEW d
    PROVE  EncoderParams!GetMinLevel(t, d) \in EncoderParams!Levels(t)
  <1> DEFINE limits == EncoderParams!Limits(t)
             fitting == { k \in DOMAIN limits : EncoderParams!Fits(d, limits[k]) }
             least == CHOOSE k \in fitting : \A j \in fitting : k <= j
  <1>1. EncoderParams!GetMinLevel(t, d) =
          IF fitting = {} THEN EncoderParams!Highest[t] ELSE limits[least].level
    BY DEF EncoderParams!GetMinLevel
  <1>2. CASE fitting = {}
    BY <1>1, <1>2, LevelsKnown
  <1>3. CASE fitting # {}
    <2>1. fitting \subseteq Nat
      BY LevelsKnown
    <2>2. Input!First(fitting) \in fitting
      BY <1>3, <2>1, FirstIsOne
    <2>3. least \in fitting
      BY <2>2 DEF Input!First
    <2>4. least \in DOMAIN limits
      BY <2>3
    <2> QED
      BY <1>1, <1>3, <2>4, LevelsKnown
  <1> QED
    BY <1>2, <1>3

\* Below is a strict order.
LEMMA BelowIsOrder ==
    ASSUME NEW l \in LevelShape, NEW m \in LevelShape, NEW n \in LevelShape
    PROVE  /\ ~EncoderParams!Below(l, l)
           /\ EncoderParams!Below(l, m) => ~EncoderParams!Below(m, l)
           /\ ~EncoderParams!Below(l, m) /\ ~EncoderParams!Below(m, n) => ~EncoderParams!Below(l, n)
  <1>1. /\ l.tier \in {"main", "high"} /\ m.tier \in {"main", "high"} /\ n.tier \in {"main", "high"}
        /\ l.number \in Nat /\ m.number \in Nat /\ n.number \in Nat
    BY DEF LevelShape
  <1> QED
    BY <1>1 DEF EncoderParams!Below

MfxFields == {"size", "rate", "kbps", "method", "level", "gop", "idr"}
C2Fields == {"size", "rate", "bitrate", "mode", "level", "period", "refresh"}

\* What both sides of the settings are: records, with numbers where the setters compute, and levels
\* of the type.
SettingsShape(c, m) ==
    /\ DOMAIN c = C2Fields /\ DOMAIN m = MfxFields
    /\ c.bitrate \in Nat /\ c.period \in Nat /\ m.rate \in Nat
    /\ m.kbps \in Nat \ {0} /\ m.gop \in Nat \ {0}
    /\ c.level \in EncoderParams!Levels(type)
    /\ m.level \in EncoderParams!Levels(type) \cup {EncoderParams!Unknown}

Demanded(m) ==
    EncoderParams!GetMinLevel(type, EncoderParams!Demand(type, m.size, m.rate, m.kbps))

\* The encoder's level is not below the client's; and no less than the stream needs.
LevelFollows(c, m) == type # "VP9" => ~EncoderParams!Below(m.level, c.level)
LevelFits(c, m) ==
    ~EncoderParams!Below(IF type = "VP9" THEN c.level ELSE m.level, Demanded(m))

LEMMA LevelShapes ==
    ASSUME type \in EncoderTypes, NEW c, NEW m, SettingsShape(c, m)
    PROVE  c.level \in LevelShape /\ m.level \in LevelShape /\ Demanded(m) \in LevelShape
  <1>1. EncoderParams!Unknown \in LevelShape
    BY DEF EncoderParams!Unknown, EncoderParams!Main, EncoderParams!Level, LevelShape
  <1> QED
    BY <1>1, LevelsKnown, MinLevelKnown DEF SettingsShape, Demanded

\* AdjustLevel changes only levels, and after it the level is enough.
LEMMA AdjustLevelFits ==
    ASSUME type \in EncoderTypes, NEW c, NEW m, SettingsShape(c, m)
    PROVE  LET a == EncoderParams!AdjustLevel(c, m)
           IN /\ SettingsShape(a.c2, a.mfx) /\ a.mfx.kbps = m.kbps
              /\ LevelFollows(c, m) => LevelFits(a.c2, a.mfx) /\ LevelFollows(a.c2, a.mfx)
  <1> DEFINE a == EncoderParams!AdjustLevel(c, m)
             least == Demanded(m)
  <1>1. c.level \in LevelShape /\ m.level \in LevelShape /\ least \in LevelShape
    BY LevelShapes
  <1>2. least \in EncoderParams!Levels(type)
    BY MinLevelKnown DEF Demanded
  <1>3. CASE ~EncoderParams!Below(c.level, least)
    <2>1. a = [c2 |-> c, mfx |-> m]
      BY <1>3 DEF EncoderParams!AdjustLevel, Demanded
    <2>2. LevelFollows(c, m) => LevelFits(c, m)
      BY <1>1, <1>3, BelowIsOrder DEF LevelFollows, LevelFits
    <2> QED
      BY <2>1, <2>2
  <1>4. CASE EncoderParams!Below(c.level, least) /\ type = "VP9"
    <2>1. a = [c2 |-> [c EXCEPT !.level = least], mfx |-> m]
      BY <1>4 DEF EncoderParams!AdjustLevel, Demanded
    <2>2. a.mfx = m /\ a.c2 = [c EXCEPT !.level = least]
      BY <2>1
    <2>3. /\ DOMAIN a.c2 = C2Fields /\ a.c2.level = least /\ a.c2.bitrate = c.bitrate
          /\ a.c2.period = c.period
      BY <2>2 DEF SettingsShape, C2Fields
    <2>4. SettingsShape(a.c2, a.mfx)
      BY <1>2, <2>2, <2>3 DEF SettingsShape
    <2>5. LevelFits(a.c2, a.mfx) /\ LevelFollows(a.c2, a.mfx)
      BY <1>1, <1>4, <2>2, <2>3, BelowIsOrder DEF LevelFits, LevelFollows
    <2> QED
      BY <2>2, <2>4, <2>5
  <1>5. CASE EncoderParams!Below(c.level, least) /\ type # "VP9"
    <2>1. EncoderParams!LevelAndroidToMfx(type, least, m.level) = least
      BY <1>2, <1>5 DEF EncoderParams!LevelAndroidToMfx
    <2>2. a = [c2 |-> c, mfx |-> [m EXCEPT !.level = EncoderParams!LevelAndroidToMfx(type, least, @)]]
      BY <1>5 DEF EncoderParams!AdjustLevel, Demanded
    <2>3. a.c2 = c /\ a.mfx = [m EXCEPT !.level = least]
      BY <2>1, <2>2
    <2>4. /\ DOMAIN a.mfx = MfxFields /\ a.mfx.level = least /\ a.mfx.size = m.size
          /\ a.mfx.rate = m.rate /\ a.mfx.kbps = m.kbps /\ a.mfx.gop = m.gop
      BY <2>3 DEF SettingsShape, MfxFields
    <2>5. SettingsShape(a.c2, a.mfx)
      BY <1>2, <2>3, <2>4 DEF SettingsShape
    <2>6. Demanded(a.mfx) = least
      BY <2>4 DEF Demanded
    <2>7. LevelFits(a.c2, a.mfx) /\ LevelFollows(a.c2, a.mfx)
      BY <1>1, <1>5, <2>3, <2>4, <2>6, BelowIsOrder DEF LevelFits, LevelFollows
    <2> QED
      BY <2>4, <2>5, <2>7
  <1> QED
    BY <1>3, <1>4, <1>5

EncoderConstants == MaxConfigs \in Nat /\ MaxTasks \in Nat

\* A bitrate task has one, a sync task has none, a frame may have one.
TaskShape ==
    { t \in [op : {"bitrate", "sync", "frame"}, kbps : Nat] :
        (t.op = "bitrate" => t.kbps # 0) /\ (t.op = "sync" => t.kbps = 0) }

SettingsInv ==
    /\ SettingsShape(c2, mfx)
    /\ chosen => LevelFits(c2, mfx) /\ LevelFollows(c2, mfx)

MfxShape(m) ==
    /\ DOMAIN m = MfxFields /\ m.rate \in Nat /\ m.kbps \in Nat \ {0} /\ m.gop \in Nat \ {0}
    /\ m.level \in EncoderParams!Levels(type) \cup {EncoderParams!Unknown}

OpenShape(enc) ==
    \/ enc.opened = FALSE
    \/ enc.opened = TRUE /\ DOMAIN enc = {"opened", "params", "colours"} /\ MfxShape(enc.params)

\* An encoder is open only while it runs, and bitrates are queued only then.
OpenInv ==
    /\ OpenShape(encoder)
    /\ run # "running" => encoder.opened = FALSE /\ \A k \in DOMAIN tasks : tasks[k].kbps = 0

QueueInv == tasks \in Seq(TaskShape) /\ Len(tasks) <= MaxTasks

\* The last bitrate in the queue is the one asked for.
LastComing(list) ==
    \A k \in DOMAIN list :
        list[k].kbps # 0 /\ (\A j \in DOMAIN list : k < j => list[j].kbps = 0) => list[k].kbps = asked

BitrateInv == asked \in Nat /\ (asked # 0 => LastComing(tasks)) /\ EncoderParams!BitrateInForce

SimpleShape ==
    /\ type \in EncoderTypes /\ run \in {"stopped", "running", "released"}
    /\ inside \in BOOLEAN /\ ctrl \in BOOLEAN /\ chosen \in BOOLEAN
    /\ configs \in Nat /\ configs <= MaxConfigs

EncoderInv == SimpleShape /\ SettingsInv /\ OpenInv /\ QueueInv /\ BitrateInv

LEMMA RateControlMethods ==
    ASSUME NEW m, DOMAIN m = MfxFields, NEW method, m.kbps \in Nat \ {0} \/ method # "CQP"
    PROVE  LET n == EncoderParams!RateControlMethod(m, method)
           IN /\ DOMAIN n = MfxFields /\ n.size = m.size /\ n.rate = m.rate /\ n.level = m.level
              /\ n.gop = m.gop /\ n.idr = m.idr /\ n.method = method
              /\ n.kbps \in Nat \ {0}
  <1> DEFINE kbps == CASE method = "CQP" -> m.kbps
                       [] method # "CQP" /\ type = "H264" -> 2222
                       [] OTHER -> 3000
  <1>1. EncoderParams!RateControlMethod(m, method) = [m EXCEPT !.method = method, !.kbps = kbps]
    BY DEF EncoderParams!RateControlMethod
  <1>2. kbps \in Nat \ {0}
    OBVIOUS
  <1> HIDE DEF kbps
  <1> QED
    BY <1>1, <1>2 DEF MfxFields

LEMMA EncoderInit == ASSUME EncoderConstants, EncoderParams!Init PROVE EncoderInv
  <1>1. /\ type \in EncoderTypes /\ mfx = EncoderParams!DefaultParams
        /\ c2 = EncoderParams!CommonParams(EncoderParams!MinMax[type][1], EncoderParams!DefaultLevel[type])
        /\ encoder = EncoderParams!NoEncoder /\ inside = FALSE /\ ctrl = FALSE /\ tasks = <<>>
        /\ run = "stopped" /\ configs = 0 /\ asked = 0 /\ chosen = FALSE
    BY DEF EncoderParams!Init
  <1>2. /\ DOMAIN c2 = C2Fields /\ c2.bitrate = 64000 /\ c2.period = 1000
        /\ c2.level = EncoderParams!DefaultLevel[type]
    BY <1>1 DEF EncoderParams!CommonParams, C2Fields
  <1> DEFINE first == [size |-> EncoderParams!FrameInfo.size, rate |-> EncoderParams!FrameInfo.rate,
                       kbps |-> 0, method |-> "none",
                       level |-> CASE type = "H264" -> EncoderParams!Main(510)
                                   [] type = "H265" -> EncoderParams!Main(600)
                                   [] OTHER -> EncoderParams!Unknown,
                       gop |-> IF type = "H264" THEN 15 ELSE 16, idr |-> 0]
  <1>3. mfx = EncoderParams!RateControlMethod(first, "CBR")
    BY <1>1 DEF EncoderParams!DefaultParams
  <1>4. /\ DOMAIN first = MfxFields /\ first.rate = 30 /\ first.gop \in Nat \ {0}
        /\ first.level \in EncoderParams!Levels(type) \cup {EncoderParams!Unknown}
    <2>1. EncoderParams!FrameInfo.rate = 30
      BY DEF EncoderParams!FrameInfo
    <2>2. type = "H264" \/ type = "H265" \/ type = "VP9"
      BY <1>1 DEF EncoderTypes
    <2>3. first.level \in EncoderParams!Levels(type) \cup {EncoderParams!Unknown}
      BY <1>1, <2>2, LevelsKnown
    <2> QED
      BY <2>1, <2>3 DEF MfxFields
  <1> HIDE DEF first
  <1>5. SettingsShape(c2, mfx)
    <2>1. /\ DOMAIN mfx = MfxFields /\ mfx.rate = 30 /\ mfx.gop \in Nat \ {0}
          /\ mfx.level \in EncoderParams!Levels(type) \cup {EncoderParams!Unknown}
          /\ mfx.kbps \in Nat \ {0}
      BY <1>3, <1>4, RateControlMethods
    <2>2. c2.level \in EncoderParams!Levels(type)
      BY <1>1, <1>2, LevelsKnown
    <2> QED
      BY <1>2, <2>1, <2>2 DEF SettingsShape
  <1>6. encoder.opened = FALSE
    BY <1>1 DEF EncoderParams!NoEncoder
  <1>7. /\ tasks \in Seq(TaskShape) /\ Len(tasks) = 0 /\ DOMAIN tasks = {}
    BY <1>1
  <1>8. SimpleShape
    <2>1. inside \in BOOLEAN /\ ctrl \in BOOLEAN /\ chosen \in BOOLEAN
      BY <1>1
    <2>2. configs \in Nat /\ configs <= MaxConfigs
      BY <1>1 DEF EncoderConstants
    <2> QED
      BY <1>1, <2>1, <2>2 DEF SimpleShape
  <1>9. OpenInv /\ QueueInv
    BY <1>1, <1>6, <1>7 DEF EncoderConstants, OpenInv, OpenShape, MfxShape, QueueInv
  <1> QED
    BY <1>1, <1>5, <1>8, <1>9 DEF EncoderInv, SettingsInv, BitrateInv, EncoderParams!BitrateInForce

\* A call of config: the settings as the setter made them, and AdjustLevel after it.
LEMMA ConfigKeeps ==
    ASSUME EncoderConstants, EncoderInv, NEW c, NEW m, EncoderParams!Config(c, m), SettingsShape(c, m),
           chosen' => LevelFollows(c, m)
    PROVE  /\ SettingsInv' /\ mfx'.kbps = m.kbps
           /\ UNCHANGED <<type, encoder, run>> /\ configs' \in Nat /\ configs' <= MaxConfigs
  <1> DEFINE a == EncoderParams!AdjustLevel(c, m)
  <1>1. /\ c2' = a.c2 /\ mfx' = a.mfx /\ configs < MaxConfigs /\ configs' = configs + 1
        /\ UNCHANGED <<type, encoder, run>>
    BY DEF EncoderParams!Config
  <1>2. /\ SettingsShape(a.c2, a.mfx) /\ a.mfx.kbps = m.kbps
        /\ LevelFollows(c, m) => LevelFits(a.c2, a.mfx) /\ LevelFollows(a.c2, a.mfx)
    BY AdjustLevelFits DEF EncoderInv, SimpleShape
  <1>3. configs' \in Nat /\ configs' <= MaxConfigs
    BY <1>1 DEF EncoderInv, SimpleShape, EncoderConstants
  <1> HIDE DEF a
  <1>4. SettingsShape(c2, mfx)'
    BY <1>1, <1>2 DEF SettingsShape
  <1>5. chosen' => LevelFits(c2, mfx)' /\ LevelFollows(c2, mfx)'
    BY <1>1, <1>2 DEF LevelFits, LevelFollows, Demanded
  <1> QED
    BY <1>1, <1>2, <1>3, <1>4, <1>5 DEF SettingsInv

\* A call of config that sends nothing to the queue.
LEMMA QuietConfigStep ==
    ASSUME EncoderConstants, EncoderInv, NEW c, NEW m, EncoderParams!Config(c, m), SettingsShape(c, m),
           EncoderParams!Quiet, chosen' => LevelFollows(c, m), chosen' \in BOOLEAN,
           asked' = 0 \/ (asked' = asked /\ m.kbps = mfx.kbps)
    PROVE  EncoderInv'
  <1>1. /\ SettingsInv' /\ mfx'.kbps = m.kbps /\ configs' \in Nat /\ configs' <= MaxConfigs
        /\ UNCHANGED <<type, encoder, run>>
    BY ConfigKeeps
  <1>2. UNCHANGED <<inside, ctrl, tasks>>
    BY DEF EncoderParams!Quiet
  <1>3. SimpleShape' /\ OpenInv' /\ QueueInv'
    BY <1>1, <1>2 DEF EncoderInv, SimpleShape, OpenInv, OpenShape, MfxShape, QueueInv
  <1>4. BitrateInv'
    BY <1>1, <1>2 DEF EncoderInv, BitrateInv, LastComing, EncoderParams!BitrateInForce
  <1> QED
    BY <1>1, <1>3, <1>4 DEF EncoderInv

LEMMA EncoderSizeStep ==
    ASSUME EncoderConstants, EncoderInv, NEW s \in EncoderSizes, EncoderParams!ConfigSize(s)
    PROVE  EncoderInv'
  <1> DEFINE supported == EncoderParams!SizeSetter(c2.size, s)
             aligned == [i \in {1, 2} |-> EncoderParams!Align16(supported[i])]
             c == [c2 EXCEPT !.size = supported]
             m == [mfx EXCEPT !.size = aligned]
  <1>1. EncoderParams!Config(c, m) /\ EncoderParams!Quiet /\ UNCHANGED <<asked, chosen>>
    BY DEF EncoderParams!ConfigSize
  <1> HIDE DEF supported, aligned
  <1>2. SettingsShape(c, m) /\ m.kbps = mfx.kbps /\ c.level = c2.level /\ m.level = mfx.level
    BY DEF EncoderInv, SettingsInv, SettingsShape, C2Fields, MfxFields
  <1> HIDE DEF c, m
  <1>3. chosen' \in BOOLEAN /\ (chosen' => LevelFollows(c, m))
    BY <1>1, <1>2 DEF EncoderInv, SimpleShape, SettingsInv, LevelFollows
  <1> QED
    BY <1>1, <1>2, <1>3, QuietConfigStep

LEMMA EncoderFrameRateStep ==
    ASSUME EncoderConstants, EncoderInv, NEW r \in EncoderRates, EncoderParams!ConfigFrameRate(r)
    PROVE  EncoderInv'
  <1> DEFINE most == CASE type = "H264" -> 172 [] type = "H265" -> 300 [] OTHER -> r
             rate == IF r > most THEN most ELSE r
             c == [c2 EXCEPT !.rate = r]
             m == [mfx EXCEPT !.rate = rate]
  <1>1. EncoderParams!Config(c, m) /\ EncoderParams!Quiet /\ UNCHANGED <<asked, chosen>>
    BY DEF EncoderParams!ConfigFrameRate
  <1>2. rate \in Nat
    BY DEF EncoderRates
  <1> HIDE DEF rate
  <1>3. SettingsShape(c, m) /\ m.kbps = mfx.kbps /\ c.level = c2.level /\ m.level = mfx.level
    BY <1>2 DEF EncoderInv, SettingsInv, SettingsShape, C2Fields, MfxFields
  <1> HIDE DEF c, m
  <1>4. chosen' \in BOOLEAN /\ (chosen' => LevelFollows(c, m))
    BY <1>1, <1>3 DEF EncoderInv, SimpleShape, SettingsInv, LevelFollows
  <1> QED
    BY <1>1, <1>3, <1>4, QuietConfigStep

LEMMA EncoderBitrateModeStep ==
    ASSUME EncoderConstants, EncoderInv, NEW mode \in DOMAIN EncoderParams!Methods,
           EncoderParams!ConfigBitrateMode(mode)
    PROVE  EncoderInv'
  <1> DEFINE c == [c2 EXCEPT !.mode = mode]
             method == EncoderParams!Methods[mode]
             m == EncoderParams!RateControlMethod(mfx, method)
  <1>1. EncoderParams!Config(c, m) /\ EncoderParams!Quiet /\ asked' = 0 /\ chosen' = chosen
    BY DEF EncoderParams!ConfigBitrateMode
  <1>2. DOMAIN mfx = MfxFields /\ mfx.kbps \in Nat \ {0} /\ mfx.rate \in Nat /\ mfx.gop \in Nat \ {0}
    BY DEF EncoderInv, SettingsInv, SettingsShape
  <1> HIDE DEF method
  <1>3. /\ DOMAIN m = MfxFields /\ m.rate = mfx.rate /\ m.level = mfx.level /\ m.gop = mfx.gop
        /\ m.kbps \in Nat \ {0}
    BY <1>2, RateControlMethods
  <1> HIDE DEF m
  <1>4. SettingsShape(c, m) /\ c.level = c2.level
    BY <1>3 DEF EncoderInv, SettingsInv, SettingsShape, C2Fields
  <1> HIDE DEF c
  <1>5. chosen' \in BOOLEAN /\ (chosen' => LevelFollows(c, m))
    BY <1>1, <1>3, <1>4 DEF EncoderInv, SimpleShape, SettingsInv, LevelFollows
  <1> QED
    BY <1>1, <1>4, <1>5, QuietConfigStep

\* A level the client sets is taken over on the other side, by all but VP9.
LEMMA EncoderProfileLevelStep ==
    ASSUME EncoderConstants, EncoderInv, NEW l \in EncoderLevelsAsked,
           EncoderParams!ConfigProfileLevel(l)
    PROVE  EncoderInv'
  <1> DEFINE level == EncoderParams!ProfileLevelSetter(l)
             theirs == EncoderParams!LevelAndroidToMfx(type, level, mfx.level)
             c == [c2 EXCEPT !.level = level]
             m == [mfx EXCEPT !.level = theirs]
  <1>1. EncoderParams!Config(c, m) /\ EncoderParams!Quiet /\ asked' = asked /\ chosen' = TRUE
    BY DEF EncoderParams!ConfigProfileLevel
  <1>2. type \in EncoderTypes
    BY DEF EncoderInv, SimpleShape
  <1>3. level \in EncoderParams!Levels(type)
    BY <1>2, LevelsKnown DEF EncoderParams!ProfileLevelSetter
  <1>4. /\ type # "VP9" => theirs = level
        /\ theirs \in EncoderParams!Levels(type) \cup {EncoderParams!Unknown}
    BY <1>3 DEF EncoderParams!LevelAndroidToMfx, EncoderInv, SettingsInv, SettingsShape
  <1> HIDE DEF level, theirs
  <1>5. SettingsShape(c, m) /\ m.kbps = mfx.kbps /\ c.level = level /\ m.level = theirs
    BY <1>3, <1>4 DEF EncoderInv, SettingsInv, SettingsShape, C2Fields, MfxFields
  <1> HIDE DEF c, m
  <1>6. level \in LevelShape
    BY <1>2, <1>3, LevelsKnown
  <1>7. LevelFollows(c, m)
    BY <1>4, <1>5, <1>6, BelowIsOrder DEF LevelFollows
  <1> QED
    BY <1>1, <1>5, <1>7, QuietConfigStep

LEMMA EncoderGopStep ==
    ASSUME EncoderConstants, EncoderInv, NEW layers, NEW refresh,
           EncoderParams!ConfigGop(layers, refresh)
    PROVE  EncoderInv'
  <1> DEFINE sync == EncoderParams!SyncInterval(EncoderParams!GopSetter(layers))
             used == EncoderParams!IntraRefreshSetter(refresh)
             c == [c2 EXCEPT !.refresh = used]
             m == IF sync > 0 THEN [mfx EXCEPT !.idr = sync] ELSE mfx
  <1>1. EncoderParams!Config(c, m) /\ EncoderParams!Quiet /\ UNCHANGED <<asked, chosen>>
    BY DEF EncoderParams!ConfigGop
  <1> HIDE DEF sync, used
  <1>2. SettingsShape(c, m) /\ m.kbps = mfx.kbps /\ c.level = c2.level /\ m.level = mfx.level
    BY DEF EncoderInv, SettingsInv, SettingsShape, C2Fields, MfxFields
  <1> HIDE DEF c, m
  <1>3. chosen' \in BOOLEAN /\ (chosen' => LevelFollows(c, m))
    BY <1>1, <1>2 DEF EncoderInv, SimpleShape, SettingsInv, LevelFollows
  <1> QED
    BY <1>1, <1>2, <1>3, QuietConfigStep

LEMMA EncoderSyncPeriodStep ==
    ASSUME EncoderConstants, EncoderInv, NEW p \in EncoderPeriods, EncoderParams!ConfigSyncPeriod(p)
    PROVE  EncoderInv'
  <1> DEFINE gop == EncoderParams!SyncFramePeriod(p, mfx.rate)
             c == [c2 EXCEPT !.period = p]
             m == [mfx EXCEPT !.gop = gop]
  <1>1. EncoderParams!Config(c, m) /\ EncoderParams!Quiet /\ UNCHANGED <<asked, chosen>>
    BY DEF EncoderParams!ConfigSyncPeriod
  <1>2. p = 500 /\ mfx.rate \in Nat
    BY DEF EncoderPeriods, EncoderInv, SettingsInv, SettingsShape
  <1>3. gop \in Nat \ {0}
    BY <1>2 DEF EncoderParams!SyncFramePeriod
  <1> HIDE DEF gop
  <1>4. SettingsShape(c, m) /\ m.kbps = mfx.kbps /\ c.level = c2.level /\ m.level = mfx.level
    BY <1>2, <1>3 DEF EncoderInv, SettingsInv, SettingsShape, C2Fields, MfxFields
  <1> HIDE DEF c, m
  <1>5. chosen' \in BOOLEAN /\ (chosen' => LevelFollows(c, m))
    BY <1>1, <1>4 DEF EncoderInv, SimpleShape, SettingsInv, LevelFollows
  <1> QED
    BY <1>1, <1>4, <1>5, QuietConfigStep

LEMMA EncoderColorAspectsStep ==
    ASSUME EncoderConstants, EncoderInv, NEW colour, EncoderParams!ConfigColorAspects(colour)
    PROVE  EncoderInv'
  <1>1. EncoderParams!Config(c2, mfx) /\ EncoderParams!Quiet /\ UNCHANGED <<asked, chosen>>
    BY DEF EncoderParams!ConfigColorAspects
  <1>2. SettingsShape(c2, mfx) /\ chosen' \in BOOLEAN /\ (chosen' => LevelFollows(c2, mfx))
    BY <1>1 DEF EncoderInv, SimpleShape, SettingsInv
  <1> QED
    BY <1>1, <1>2, QuietConfigStep

\* A task at the end of the queue: if it has a bitrate, that is the last one now.
LEMMA QueueGrows ==
    ASSUME EncoderConstants, QueueInv, NEW e \in TaskShape, Len(tasks) < MaxTasks, tasks' = Append(tasks, e)
    PROVE  /\ QueueInv'
           /\ (\A k \in DOMAIN tasks' : tasks'[k].kbps = 0) <=>
                e.kbps = 0 /\ \A k \in DOMAIN tasks : tasks[k].kbps = 0
           /\ e.kbps # 0 /\ asked' = e.kbps => LastComing(tasks)'
           /\ e.kbps = 0 /\ asked' = asked /\ LastComing(tasks) => LastComing(tasks)'
  <1> DEFINE new == Len(tasks) + 1
  <1>1. /\ tasks \in Seq(TaskShape) /\ Len(tasks) \in Nat /\ DOMAIN tasks = 1 .. Len(tasks)
    BY DEF QueueInv
  <1>2. /\ tasks' \in Seq(TaskShape) /\ Len(tasks') = new /\ DOMAIN tasks' = 1 .. new
        /\ tasks'[new] = e /\ \A k \in 1 .. Len(tasks) : tasks'[k] = tasks[k]
    BY <1>1
  <1>3. /\ \A k \in 1 .. new : k = new \/ k \in 1 .. Len(tasks)
        /\ \A k \in 1 .. Len(tasks) : k < new /\ k \in 1 .. new
        /\ new \in 1 .. new /\ new <= MaxTasks /\ ~(new < new)
    BY <1>1 DEF EncoderConstants
  <1>4. \A k \in 1 .. new : ~(new < k)
    BY <1>1
  <1> HIDE DEF new
  <1>5. QueueInv'
    BY <1>1, <1>2, <1>3 DEF QueueInv
  <1>6. (\A k \in DOMAIN tasks' : tasks'[k].kbps = 0) <=>
          e.kbps = 0 /\ \A k \in DOMAIN tasks : tasks[k].kbps = 0
    BY <1>1, <1>2, <1>3
  <1>7. ASSUME e.kbps # 0, asked' = e.kbps PROVE LastComing(tasks)'
    BY <1>1, <1>2, <1>3, <1>7 DEF LastComing
  <1>8. ASSUME e.kbps = 0, asked' = asked, LastComing(tasks) PROVE LastComing(tasks)'
    BY <1>1, <1>2, <1>3, <1>8 DEF LastComing
  <1> QED
    BY <1>5, <1>6, <1>7, <1>8

\* The first task leaves the queue: if no bitrate comes after its own, that was the last one.
LEMMA QueueShrinks ==
    ASSUME EncoderConstants, QueueInv, tasks # <<>>, tasks' = Tail(tasks)
    PROVE  /\ QueueInv' /\ Head(tasks) \in TaskShape
           /\ (\A k \in DOMAIN tasks : tasks[k].kbps = 0) =>
                Head(tasks).kbps = 0 /\ \A k \in DOMAIN tasks' : tasks'[k].kbps = 0
           /\ asked' = asked /\ LastComing(tasks) => LastComing(tasks)'
           /\ (\A k \in DOMAIN tasks' : tasks'[k].kbps = 0) /\ LastComing(tasks) =>
                IF Head(tasks).kbps = 0 THEN \A k \in DOMAIN tasks : tasks[k].kbps = 0
                ELSE Head(tasks).kbps = asked
  <1>1. /\ tasks \in Seq(TaskShape) /\ Len(tasks) \in Nat /\ DOMAIN tasks = 1 .. Len(tasks)
        /\ Len(tasks) # 0 /\ Len(tasks) <= MaxTasks
    BY DEF QueueInv
  <1>2. /\ tasks' \in Seq(TaskShape) /\ Len(tasks') = Len(tasks) - 1 /\ DOMAIN tasks' = 1 .. Len(tasks) - 1
        /\ Head(tasks) = tasks[1] /\ \A k \in 1 .. Len(tasks) - 1 : tasks'[k] = tasks[k + 1]
    BY <1>1
  <1>3. /\ \A k \in 1 .. Len(tasks) : k # 1 => k - 1 \in 1 .. Len(tasks) - 1 /\ tasks[k] = tasks'[k - 1]
        /\ 1 \in 1 .. Len(tasks) /\ Head(tasks) \in TaskShape
    BY <1>1, <1>2
  <1>4. QueueInv'
    <2>1. Len(tasks) - 1 <= MaxTasks
      BY <1>1 DEF EncoderConstants
    <2> QED
      BY <1>2, <2>1 DEF QueueInv
  <1>5. ASSUME \A k \in DOMAIN tasks : tasks[k].kbps = 0
        PROVE  Head(tasks).kbps = 0 /\ \A k \in DOMAIN tasks' : tasks'[k].kbps = 0
    BY <1>1, <1>2, <1>3, <1>5
  <1>6. ASSUME asked' = asked, LastComing(tasks) PROVE LastComing(tasks)'
    <2>1. SUFFICES ASSUME NEW k \in DOMAIN tasks', tasks'[k].kbps # 0,
                          \A j \in DOMAIN tasks' : k < j => tasks'[j].kbps = 0
                   PROVE  tasks'[k].kbps = asked
      BY <1>6 DEF LastComing
    <2>2. /\ k \in Nat /\ k + 1 \in DOMAIN tasks /\ tasks[k + 1] = tasks'[k]
      BY <1>1, <1>2, <2>1
    <2>3. ASSUME NEW j \in DOMAIN tasks, k + 1 < j PROVE tasks[j].kbps = 0
      <3>1. j # 1 /\ j - 1 \in DOMAIN tasks' /\ k < j - 1
        BY <1>1, <1>2, <2>2, <2>3
      <3> QED
        BY <1>1, <1>3, <2>1, <3>1
    <2> QED
      BY <1>6, <2>1, <2>2, <2>3 DEF LastComing
  <1>7. ASSUME \A k \in DOMAIN tasks' : tasks'[k].kbps = 0, LastComing(tasks)
        PROVE  IF Head(tasks).kbps = 0 THEN \A k \in DOMAIN tasks : tasks[k].kbps = 0
               ELSE Head(tasks).kbps = asked
    <2>1. ASSUME NEW k \in DOMAIN tasks, k # 1 PROVE tasks[k].kbps = 0
      <3>1. k - 1 \in DOMAIN tasks' /\ tasks[k] = tasks'[k - 1]
        BY <1>1, <1>2, <1>3, <2>1
      <3> QED
        BY <1>7, <3>1
    <2>2. \A k \in DOMAIN tasks : 1 < k => k # 1
      BY <1>1
    <2> QED
      BY <1>1, <1>2, <1>3, <1>7, <2>1, <2>2 DEF LastComing
  <1> QED
    BY <1>3, <1>4, <1>5, <1>6, <1>7

\* Without an encoder a bitrate is set at once, else it is queued.
LEMMA EncoderBitrateStep ==
    ASSUME EncoderConstants, EncoderInv, NEW b \in EncoderBitrates, EncoderParams!ConfigBitrate(b)
    PROVE  EncoderInv'
  <1> DEFINE rate == EncoderParams!BitrateSetter(b)
             c == [c2 EXCEPT !.bitrate = rate]
             kbps == (c.bitrate \div 1000) % 65536
             task == [op |-> "bitrate", kbps |-> kbps]
  <1>1. /\ \/ EncoderParams!Config(c, mfx) /\ EncoderParams!Quiet /\ asked' = 0
           \/ /\ run = "stopped" /\ EncoderParams!Config(c, [mfx EXCEPT !.kbps = kbps])
              /\ EncoderParams!Quiet /\ asked' = kbps
           \/ /\ ~(mfx.method # "CQP" /\ run = "stopped") /\ mfx.method # "CQP"
              /\ Len(tasks) < MaxTasks /\ EncoderParams!Config(c, mfx)
              /\ inside' = FALSE /\ ctrl' = (ctrl /\ ~inside)
              /\ tasks' = Append(tasks, task)
              /\ asked' = kbps
        /\ chosen' = chosen
    BY DEF EncoderParams!ConfigBitrate
  <1>2. rate = 2500000
    BY DEF EncoderBitrates, EncoderParams!BitrateSetter
  <1> HIDE DEF rate
  <1>3. c.bitrate = rate /\ c.level = c2.level /\ SettingsShape(c, mfx)
    BY <1>2 DEF EncoderInv, SettingsInv, SettingsShape, C2Fields
  <1>4. kbps = 2500
    BY <1>2, <1>3
  <1> HIDE DEF c, kbps
  <1>5. chosen' \in BOOLEAN /\ (chosen' => LevelFollows(c, mfx))
    BY <1>1, <1>3 DEF EncoderInv, SimpleShape, SettingsInv, LevelFollows
  <1>6. CASE EncoderParams!Config(c, mfx) /\ EncoderParams!Quiet /\ asked' = 0
    BY <1>3, <1>5, <1>6, QuietConfigStep
  <1>7. CASE /\ run = "stopped" /\ EncoderParams!Config(c, [mfx EXCEPT !.kbps = kbps])
             /\ EncoderParams!Quiet /\ asked' = kbps
    <2> DEFINE m == [mfx EXCEPT !.kbps = kbps]
    <2>1. SettingsShape(c, m) /\ m.level = mfx.level /\ m.kbps = kbps
      BY <1>3, <1>4 DEF SettingsShape, MfxFields
    <2>2. EncoderParams!Config(c, m)
      BY <1>7
    <2> HIDE DEF m
    <2>3. chosen' => LevelFollows(c, m)
      BY <1>5, <2>1 DEF LevelFollows
    <2>4. /\ SettingsInv' /\ mfx'.kbps = kbps /\ configs' \in Nat /\ configs' <= MaxConfigs
          /\ UNCHANGED <<type, encoder, run>>
      BY <2>1, <2>2, <2>3, ConfigKeeps
    <2>5. UNCHANGED <<inside, ctrl, tasks>>
      BY <1>7 DEF EncoderParams!Quiet
    <2>6. SimpleShape' /\ OpenInv' /\ QueueInv'
      BY <1>5, <2>4, <2>5 DEF EncoderInv, SimpleShape, OpenInv, OpenShape, MfxShape, QueueInv
    <2>7. encoder'.opened = FALSE /\ \A k \in DOMAIN tasks' : tasks'[k].kbps = 0
      BY <1>7, <2>4, <2>5 DEF EncoderInv, OpenInv, OpenShape, MfxShape
    <2>8. BitrateInv'
      BY <1>4, <1>7, <2>4, <2>7 DEF BitrateInv, LastComing, EncoderParams!BitrateInForce
    <2> QED
      BY <2>4, <2>6, <2>8 DEF EncoderInv
  <1>8. CASE /\ ~(mfx.method # "CQP" /\ run = "stopped") /\ mfx.method # "CQP"
             /\ Len(tasks) < MaxTasks /\ EncoderParams!Config(c, mfx)
             /\ inside' = FALSE /\ ctrl' = (ctrl /\ ~inside)
             /\ tasks' = Append(tasks, task)
             /\ asked' = kbps
    <2>1. /\ SettingsInv' /\ configs' \in Nat /\ configs' <= MaxConfigs
          /\ UNCHANGED <<type, encoder, run>>
      BY <1>3, <1>5, <1>8, ConfigKeeps
    <2>2. run = "running"
      BY <1>8 DEF EncoderParams!Config, EncoderInv, SimpleShape
    <2>3. task \in TaskShape /\ task.kbps = 2500
      BY <1>4 DEF TaskShape
    <2> HIDE DEF task
    <2>4. /\ QueueInv' /\ LastComing(tasks)'
          /\ ~(\A k \in DOMAIN tasks' : tasks'[k].kbps = 0)
      BY <1>4, <1>8, <2>3, QueueGrows DEF EncoderInv
    <2>5. inside' \in BOOLEAN /\ ctrl' \in BOOLEAN
      BY <1>8
    <2>6. SimpleShape' /\ OpenInv'
      BY <1>5, <2>1, <2>2, <2>5 DEF EncoderInv, SimpleShape, OpenInv, OpenShape, MfxShape
    <2>7. BitrateInv'
      BY <1>4, <1>8, <2>4 DEF BitrateInv, EncoderParams!BitrateInForce
    <2> QED
      BY <2>1, <2>4, <2>6, <2>7 DEF EncoderInv
  <1> QED
    BY <1>1, <1>6, <1>7, <1>8

\* A task without a bitrate enters the queue.
LEMMA EncoderRequestSyncStep ==
    ASSUME EncoderConstants, EncoderInv, EncoderParams!ConfigRequestSync
    PROVE  EncoderInv'
  <1> DEFINE task == [op |-> "sync", kbps |-> 0]
  <1>1. /\ Len(tasks) < MaxTasks /\ EncoderParams!Config(c2, mfx) /\ tasks' = Append(tasks, task)
        /\ UNCHANGED <<inside, ctrl, asked, chosen>>
    BY DEF EncoderParams!ConfigRequestSync
  <1>2. SettingsShape(c2, mfx) /\ chosen' \in BOOLEAN /\ (chosen' => LevelFollows(c2, mfx))
    BY <1>1 DEF EncoderInv, SimpleShape, SettingsInv
  <1>3. /\ SettingsInv' /\ mfx'.kbps = mfx.kbps /\ configs' \in Nat /\ configs' <= MaxConfigs
        /\ UNCHANGED <<type, encoder, run>>
    BY <1>1, <1>2, ConfigKeeps
  <1>4. task \in TaskShape /\ task.kbps = 0
    BY DEF TaskShape
  <1> HIDE DEF task
  <1>5. /\ QueueInv' /\ (LastComing(tasks) => LastComing(tasks)')
        /\ (\A k \in DOMAIN tasks' : tasks'[k].kbps = 0) <=> (\A k \in DOMAIN tasks : tasks[k].kbps = 0)
    BY <1>1, <1>4, QueueGrows DEF EncoderInv
  <1>6. SimpleShape' /\ OpenInv'
    BY <1>1, <1>3, <1>5 DEF EncoderInv, SimpleShape, OpenInv, OpenShape, MfxShape
  <1>7. BitrateInv'
    BY <1>1, <1>3, <1>5 DEF EncoderInv, BitrateInv, EncoderParams!BitrateInForce
  <1> QED
    BY <1>3, <1>5, <1>6, <1>7 DEF EncoderInv

\* A query changes the client's side only, and the level only to the encoder's.
LEMMA QueryStep ==
    ASSUME EncoderConstants, EncoderInv, NEW c, EncoderParams!Query(c), SettingsShape(c, mfx),
           chosen => LevelFits(c, mfx) /\ LevelFollows(c, mfx)
    PROVE  EncoderInv'
  <1>1. /\ c2' = c /\ configs < MaxConfigs /\ configs' = configs + 1
        /\ UNCHANGED <<type, mfx, encoder, inside, ctrl, tasks, run, asked, chosen>>
    BY DEF EncoderParams!Query
  <1>2. configs' \in Nat /\ configs' <= MaxConfigs
    BY <1>1 DEF EncoderConstants, EncoderInv, SimpleShape
  <1>3. SettingsInv'
    BY <1>1 DEF SettingsInv, SettingsShape, LevelFits, LevelFollows, Demanded
  <1>4. SimpleShape' /\ OpenInv' /\ QueueInv' /\ BitrateInv'
    BY <1>1, <1>2 DEF EncoderInv, SimpleShape, OpenInv, OpenShape, MfxShape, QueueInv, BitrateInv, LastComing,
                      EncoderParams!BitrateInForce
  <1> QED
    BY <1>3, <1>4 DEF EncoderInv

LEMMA EncoderQueriesStep ==
    ASSUME EncoderConstants, EncoderInv,
           \/ EncoderParams!QueryFrameRate \/ EncoderParams!QueryBitrate
           \/ EncoderParams!QueryProfileLevel \/ EncoderParams!QuerySyncFrameInterval
    PROVE  EncoderInv'
  <1>1. /\ DOMAIN c2 = C2Fields /\ SettingsShape(c2, mfx)
        /\ mfx.kbps \in Nat /\ mfx.gop \in Nat
        /\ (chosen => LevelFits(c2, mfx) /\ LevelFollows(c2, mfx))
    BY DEF EncoderInv, SettingsInv, SettingsShape
  <1>2. CASE EncoderParams!QueryFrameRate
    <2> DEFINE c == [c2 EXCEPT !.rate = mfx.rate]
    <2>1. EncoderParams!Query(c)
      BY <1>2 DEF EncoderParams!QueryFrameRate
    <2>2. SettingsShape(c, mfx) /\ c.level = c2.level
      BY <1>1 DEF SettingsShape, C2Fields
    <2> HIDE DEF c
    <2> QED
      BY <1>1, <2>1, <2>2, QueryStep DEF LevelFits, LevelFollows
  <1>3. CASE EncoderParams!QueryBitrate
    <2> DEFINE bitrate == mfx.kbps * 1000
               c == [c2 EXCEPT !.bitrate = bitrate]
    <2>1. EncoderParams!Query(c) /\ bitrate \in Nat
      BY <1>1, <1>3 DEF EncoderParams!QueryBitrate
    <2> HIDE DEF bitrate
    <2>2. SettingsShape(c, mfx) /\ c.level = c2.level
      BY <1>1, <2>1 DEF SettingsShape, C2Fields
    <2> HIDE DEF c
    <2> QED
      BY <1>1, <2>1, <2>2, QueryStep DEF LevelFits, LevelFollows
  <1>4. CASE EncoderParams!QueryProfileLevel
    <2> DEFINE level == EncoderParams!LevelMfxToAndroid(type, mfx.level, c2.level)
               c == [c2 EXCEPT !.level = level]
    <2>1. EncoderParams!Query(c)
      BY <1>4 DEF EncoderParams!QueryProfileLevel
    <2>2. /\ level \in EncoderParams!Levels(type)
          /\ type = "VP9" => level = c2.level
          /\ level = c2.level \/ level = mfx.level
      BY <1>1 DEF EncoderParams!LevelMfxToAndroid, SettingsShape
    <2> HIDE DEF level
    <2>3. SettingsShape(c, mfx) /\ c.level = level
      BY <1>1, <2>2 DEF SettingsShape, C2Fields
    <2> HIDE DEF c
    <2>4. mfx.level \in LevelShape
      BY <1>1, LevelShapes DEF EncoderInv, SimpleShape
    <2>5. chosen => LevelFits(c, mfx) /\ LevelFollows(c, mfx)
      BY <1>1, <2>2, <2>3, <2>4, BelowIsOrder DEF LevelFits, LevelFollows
    <2> QED
      BY <2>1, <2>3, <2>5, QueryStep
  <1>5. CASE EncoderParams!QuerySyncFrameInterval
    <2> DEFINE c == [c2 EXCEPT !.period = mfx.gop]
    <2>1. EncoderParams!Query(c)
      BY <1>5 DEF EncoderParams!QuerySyncFrameInterval
    <2>2. SettingsShape(c, mfx) /\ c.level = c2.level
      BY <1>1 DEF SettingsShape, C2Fields
    <2> HIDE DEF c
    <2> QED
      BY <1>1, <2>1, <2>2, QueryStep DEF LevelFits, LevelFollows
  <1> QED
    BY <1>2, <1>3, <1>4, <1>5

\* The bitrate on the settings the encoder really has.
LEMMA UpdateKeeps ==
    ASSUME NEW enc, OpenShape(enc), MfxShape(mfx), NEW kbps \in Nat \ {0}, NEW fail,
           NEW u, u = EncoderParams!Update(enc, mfx, kbps, fail)
    PROVE  /\ MfxShape(u.mfx) /\ OpenShape(u.encoder) /\ u.encoder.opened = enc.opened
           /\ fail \notin {"getVideoParam", "reset"} =>
                u.mfx.kbps = kbps /\ (enc.opened => u.encoder.params.kbps = kbps)
  <1> DEFINE params == EncoderParams!Actual(enc, mfx)
             now == [params EXCEPT !.kbps = kbps]
             reset == [enc EXCEPT !.params = now]
  <1>1. u = IF enc.opened /\ fail = "getVideoParam" THEN [mfx |-> mfx, encoder |-> enc]
            ELSE [mfx |-> now, encoder |-> IF enc.opened /\ fail # "reset" THEN reset ELSE enc]
    BY DEF EncoderParams!Update
  <1>2. MfxShape(params)
    BY DEF EncoderParams!Actual, OpenShape
  <1> HIDE DEF params
  <1>3. MfxShape(now) /\ now.kbps = kbps
    BY <1>2 DEF MfxShape, MfxFields
  <1> HIDE DEF now
  <1>4. ASSUME enc.opened
        PROVE  /\ enc.opened = TRUE /\ reset.opened = TRUE /\ reset.params = now
               /\ OpenShape(reset)
    BY <1>3, <1>4 DEF OpenShape
  <1> HIDE DEF reset
  <1>5. CASE enc.opened /\ fail = "getVideoParam"
    <2>1. u.mfx = mfx /\ u.encoder = enc
      BY <1>1, <1>5
    <2> QED
      BY <1>5, <2>1
  <1>6. CASE enc.opened /\ fail \notin {"getVideoParam", "reset"}
    <2>1. u.mfx = now /\ u.encoder = reset
      BY <1>1, <1>6
    <2> QED
      BY <1>3, <1>4, <1>6, <2>1
  <1>7. CASE (enc.opened /\ fail = "reset") \/ ~enc.opened
    <2>1. u.mfx = now /\ u.encoder = enc
      BY <1>1, <1>7
    <2> QED
      BY <1>3, <1>7, <2>1
  <1> QED
    BY <1>5, <1>6, <1>7

\* Nothing else of an open encoder changes.
LEMMA UpdateOnlyBitrate ==
    ASSUME NEW enc, OpenShape(enc), enc.opened, NEW kbps, NEW fail,
           NEW u, u = EncoderParams!Update(enc, mfx, kbps, fail)
    PROVE  /\ [u.encoder.params EXCEPT !.kbps = 0] = [enc.params EXCEPT !.kbps = 0]
           /\ u.encoder.colours = enc.colours
  <1> DEFINE params == enc.params
             now == [params EXCEPT !.kbps = kbps]
             reset == [enc EXCEPT !.params = now]
             p == [now EXCEPT !.kbps = 0]
             q == [params EXCEPT !.kbps = 0]
  <1>1. DOMAIN enc = {"opened", "params", "colours"} /\ DOMAIN params = MfxFields
    BY DEF OpenShape, MfxShape
  <1>2. u.encoder \in {enc, reset}
    BY DEF EncoderParams!Update, EncoderParams!Actual
  <1>3. p = q
    <2>1. p = [i \in MfxFields |-> p[i]] /\ q = [i \in MfxFields |-> q[i]]
      BY <1>1
    <2>2. \A i \in MfxFields : p[i] = q[i]
      BY <1>1 DEF MfxFields
    <2> HIDE DEF p, q
    <2> QED
      BY <2>1, <2>2
  <1>4. reset.params = now /\ reset.colours = enc.colours
    BY <1>1
  <1> QED
    BY <1>2, <1>3, <1>4

\* Steps that change neither settings nor the encoder.
LEMMA EncoderRunStep ==
    ASSUME EncoderConstants, EncoderInv,
           EncoderParams!DoStart \/ EncoderParams!Release \/ EncoderParams!Modify
    PROVE  EncoderInv'
  <1>1. /\ run' \in {"stopped", "running", "released"} /\ ctrl' \in BOOLEAN
        /\ run' # "running" => run # "running"
        /\ UNCHANGED <<type, c2, mfx, encoder, inside, configs, asked, chosen>>
        /\ \/ tasks' = tasks
           \/ tasks # <<>> /\ tasks' = Tail(tasks) /\ Head(tasks).op = "sync" /\ run' = run
    BY DEF EncoderInv, SimpleShape, EncoderParams!DoStart, EncoderParams!Release,
           EncoderParams!Modify
  <1>2. SimpleShape' /\ SettingsInv'
    BY <1>1 DEF EncoderInv, SimpleShape, SettingsInv, SettingsShape, LevelFits, LevelFollows, Demanded
  <1>3. CASE tasks' = tasks
    <2>1. OpenInv' /\ QueueInv' /\ BitrateInv'
      BY <1>1, <1>3 DEF EncoderInv, OpenInv, OpenShape, MfxShape, QueueInv, BitrateInv, LastComing,
                        EncoderParams!BitrateInForce
    <2> QED
      BY <1>2, <2>1 DEF EncoderInv
  <1>4. CASE tasks # <<>> /\ tasks' = Tail(tasks) /\ Head(tasks).op = "sync" /\ run' = run
    <2>1. /\ QueueInv' /\ Head(tasks) \in TaskShape /\ Head(tasks).op = "sync"
          /\ (\A k \in DOMAIN tasks : tasks[k].kbps = 0) => \A k \in DOMAIN tasks' : tasks'[k].kbps = 0
          /\ LastComing(tasks) => LastComing(tasks)'
          /\ (\A k \in DOMAIN tasks' : tasks'[k].kbps = 0) /\ LastComing(tasks) /\ Head(tasks).kbps = 0
               => \A k \in DOMAIN tasks : tasks[k].kbps = 0
      BY <1>1, <1>4, QueueShrinks DEF EncoderInv
    <2>2. Head(tasks).kbps = 0
      BY <2>1 DEF TaskShape
    <2>3. OpenInv'
      BY <1>1, <1>4, <2>1 DEF EncoderInv, OpenInv, OpenShape, MfxShape
    <2>4. BitrateInv'
      BY <1>1, <2>1, <2>2 DEF EncoderInv, BitrateInv, EncoderParams!BitrateInForce
    <2> QED
      BY <1>2, <2>1, <2>3, <2>4 DEF EncoderInv
  <1> QED
    BY <1>1, <1>3, <1>4

LEMMA EncoderQueueStep ==
    ASSUME EncoderConstants, EncoderInv, NEW b \in EncoderBitrates \cup {0},
           EncoderParams!Queue(b \div 1000)
    PROVE  EncoderInv'
  <1> DEFINE kbps == b \div 1000
             task == [op |-> "frame", kbps |-> kbps]
  <1>1. kbps \in Nat
    BY DEF EncoderBitrates
  <1>2. /\ run = "running" /\ Len(tasks) < MaxTasks /\ tasks' = Append(tasks, task)
        /\ asked' = IF kbps # 0 THEN kbps ELSE asked
        /\ UNCHANGED <<type, c2, mfx, encoder, inside, ctrl, run, configs, chosen>>
    BY DEF EncoderParams!Queue
  <1> HIDE DEF kbps
  <1>3. task \in TaskShape /\ task.kbps = kbps
    BY <1>1 DEF TaskShape
  <1> HIDE DEF task
  <1>4. /\ QueueInv'
        /\ (\A k \in DOMAIN tasks' : tasks'[k].kbps = 0) <=>
             kbps = 0 /\ \A k \in DOMAIN tasks : tasks[k].kbps = 0
        /\ kbps # 0 => LastComing(tasks)'
        /\ kbps = 0 /\ LastComing(tasks) => LastComing(tasks)'
    BY <1>2, <1>3, QueueGrows DEF EncoderInv
  <1>5. SimpleShape' /\ SettingsInv'
    BY <1>2 DEF EncoderInv, SimpleShape, SettingsInv, SettingsShape, LevelFits, LevelFollows, Demanded
  <1>6. OpenInv'
    BY <1>2 DEF EncoderInv, OpenInv, OpenShape, MfxShape
  <1>7. BitrateInv'
    BY <1>1, <1>2, <1>4 DEF EncoderInv, BitrateInv, EncoderParams!BitrateInForce
  <1> QED
    BY <1>4, <1>5, <1>6, <1>7 DEF EncoderInv

\* A queued bitrate is put on the settings of the encoder.
LEMMA EncoderUpdateStep ==
    ASSUME EncoderConstants, EncoderInv, NEW fail, EncoderParams!UpdateBitrate(fail)
    PROVE  EncoderInv'
  <1> DEFINE kbps == Head(tasks).kbps
             u == EncoderParams!Update(encoder, mfx, kbps, fail)
  <1>1. /\ run = "running" /\ tasks # <<>> /\ Head(tasks).op = "bitrate"
        /\ mfx' = u.mfx /\ encoder' = u.encoder
        /\ asked' = IF fail = "none" THEN asked ELSE 0
        /\ chosen' = FALSE /\ tasks' = Tail(tasks)
        /\ UNCHANGED <<type, c2, inside, ctrl, run, configs>>
    BY DEF EncoderParams!UpdateBitrate
  <1>2. /\ QueueInv' /\ Head(tasks) \in TaskShape
        /\ asked' = asked /\ LastComing(tasks) => LastComing(tasks)'
        /\ (\A k \in DOMAIN tasks' : tasks'[k].kbps = 0) /\ LastComing(tasks) /\ kbps # 0
             => kbps = asked
    BY <1>1, QueueShrinks DEF EncoderInv
  <1>3. kbps \in Nat \ {0}
    BY <1>1, <1>2 DEF TaskShape
  <1> HIDE DEF kbps
  <1>4. OpenShape(encoder) /\ MfxShape(mfx)
    BY DEF EncoderInv, OpenInv, SettingsInv, SettingsShape, MfxShape
  <1>5. /\ MfxShape(u.mfx) /\ OpenShape(u.encoder) /\ u.encoder.opened = encoder.opened
        /\ fail \notin {"getVideoParam", "reset"} =>
             u.mfx.kbps = kbps /\ (encoder.opened => u.encoder.params.kbps = kbps)
    BY <1>3, <1>4, UpdateKeeps
  <1> HIDE DEF u
  <1>6. SimpleShape'
    BY <1>1 DEF EncoderInv, SimpleShape
  <1>7. SettingsInv'
    BY <1>1, <1>5 DEF EncoderInv, SettingsInv, SettingsShape, MfxShape
  <1>8. OpenInv'
    BY <1>1, <1>5 DEF EncoderInv, OpenInv, OpenShape, MfxShape
  <1>9. BitrateInv'
    BY <1>1, <1>2, <1>3, <1>5 DEF EncoderInv, BitrateInv, EncoderParams!BitrateInForce
  <1> QED
    BY <1>2, <1>6, <1>7, <1>8, <1>9 DEF EncoderInv

LEMMA EncoderStopStep ==
    ASSUME EncoderConstants, EncoderInv, NEW abort, EncoderParams!DoStop(abort)
    PROVE  EncoderInv'
  <1>1. /\ run' = "stopped" /\ tasks' = <<>> /\ encoder' = EncoderParams!NoEncoder
        /\ inside' = FALSE /\ asked' = IF tasks = <<>> THEN asked ELSE 0
        /\ UNCHANGED <<type, c2, mfx, ctrl, configs, chosen>>
    BY DEF EncoderParams!DoStop
  <1>2. encoder'.opened = FALSE
    BY <1>1 DEF EncoderParams!NoEncoder
  <1>3. tasks' \in Seq(TaskShape) /\ Len(tasks') = 0 /\ DOMAIN tasks' = {}
    BY <1>1
  <1>4. SimpleShape' /\ SettingsInv'
    BY <1>1 DEF EncoderInv, SimpleShape, SettingsInv, SettingsShape, LevelFits, LevelFollows, Demanded
  <1>5. OpenInv'
    BY <1>2, <1>3 DEF OpenInv, OpenShape
  <1>6. QueueInv'
    BY <1>3 DEF EncoderConstants, QueueInv
  <1>7. CASE tasks = <<>>
    <2>1. \A k \in DOMAIN tasks : tasks[k].kbps = 0
      BY <1>7
    <2>2. BitrateInv'
      BY <1>1, <1>2, <1>3, <1>7, <2>1 DEF EncoderInv, BitrateInv, LastComing, EncoderParams!BitrateInForce
    <2> QED
      BY <1>4, <1>5, <1>6, <2>2 DEF EncoderInv
  <1>8. CASE tasks # <<>>
    BY <1>1, <1>4, <1>5, <1>6, <1>8 DEF EncoderInv, BitrateInv, EncoderParams!BitrateInForce
  <1> QED
    BY <1>7, <1>8

\* A frame opens the encoder, if none is open, and puts its bitrate on it.
LEMMA EncoderWorkStep ==
    ASSUME EncoderConstants, EncoderInv, NEW fail, NEW stays \in BOOLEAN,
           EncoderParams!DoWork(fail, stays)
    PROVE  EncoderInv'
  <1> DEFINE kbps == Head(tasks).kbps
             tuned == kbps # 0 /\ mfx.method # "CQP"
             enc == IF encoder.opened THEN encoder ELSE EncoderParams!Opened(signal)
             rate == IF kbps # 0 THEN kbps * 1000 ELSE c2.bitrate
             c == [c2 EXCEPT !.bitrate = rate]
             u == EncoderParams!Update(enc, mfx, kbps, fail)
             a == EncoderParams!AdjustLevel(c, u.mfx)
             b == EncoderParams!AdjustLevel(c, mfx)
  <1>1. /\ run = "running" /\ tasks # <<>> /\ tasks' = Tail(tasks) /\ UNCHANGED <<type, run, configs>>
        /\ \/ /\ fail = "init" /\ ~encoder.opened
              /\ asked' = IF kbps # 0 THEN 0 ELSE asked
              /\ UNCHANGED <<c2, mfx, encoder, inside, ctrl, chosen>>
           \/ /\ ~(fail = "init" /\ ~encoder.opened) /\ kbps = 0
              /\ encoder' = enc /\ c2' = c2 /\ mfx' = mfx /\ asked' = asked
              /\ chosen' = (chosen /\ ~tuned) /\ inside' = stays /\ ctrl' = FALSE
           \/ /\ ~(fail = "init" /\ ~encoder.opened) /\ tuned
              /\ encoder' = u.encoder /\ c2' = a.c2 /\ mfx' = a.mfx
              /\ asked' = IF fail = "none" THEN asked ELSE 0
              /\ chosen' = (chosen /\ ~tuned) /\ inside' = stays /\ ctrl' = FALSE
           \/ /\ ~(fail = "init" /\ ~encoder.opened) /\ kbps # 0 /\ ~tuned
              /\ encoder' = enc /\ c2' = b.c2 /\ mfx' = b.mfx /\ asked' = 0
              /\ chosen' = (chosen /\ ~tuned) /\ inside' = stays /\ ctrl' = FALSE
    BY DEF EncoderParams!DoWork
  <1>2. /\ QueueInv' /\ Head(tasks) \in TaskShape
        /\ asked' = asked /\ LastComing(tasks) => LastComing(tasks)'
        /\ (\A k \in DOMAIN tasks' : tasks'[k].kbps = 0) /\ LastComing(tasks) =>
             IF kbps = 0 THEN \A k \in DOMAIN tasks : tasks[k].kbps = 0 ELSE kbps = asked
    BY <1>1, QueueShrinks DEF EncoderInv
  <1>3. kbps \in Nat
    BY <1>2 DEF TaskShape
  <1> HIDE DEF kbps
  <1>4. OpenShape(enc) /\ (~encoder.opened => enc.params = mfx) /\ (encoder.opened => enc = encoder)
    BY DEF EncoderInv, OpenInv, OpenShape, SettingsInv, SettingsShape, MfxShape, EncoderParams!Opened
  <1> HIDE DEF enc
  <1>5. rate \in Nat
    BY <1>3 DEF EncoderInv, SettingsInv, SettingsShape
  <1> HIDE DEF rate
  <1>6. /\ SettingsShape(c, mfx) /\ c.level = c2.level /\ mfx.kbps \in Nat \ {0}
        /\ type \in EncoderTypes
    BY <1>5 DEF EncoderInv, SimpleShape, SettingsInv, SettingsShape, C2Fields
  <1> HIDE DEF c
  <1>7. chosen \in BOOLEAN /\ (chosen => LevelFits(c2, mfx) /\ LevelFollows(c2, mfx))
    BY DEF EncoderInv, SimpleShape, SettingsInv
  <1>8. inside' \in BOOLEAN /\ ctrl' \in BOOLEAN /\ chosen' \in BOOLEAN /\ asked' \in {0, asked}
    <2>1. inside \in BOOLEAN /\ ctrl \in BOOLEAN
      BY DEF EncoderInv, SimpleShape
    <2> HIDE DEF tuned, u, a, b
    <2> QED
      BY <1>1, <1>7, <2>1
  <1>9. SimpleShape'
    BY <1>1, <1>8 DEF EncoderInv, SimpleShape
  <1>10. CASE /\ fail = "init" /\ ~encoder.opened
              /\ asked' = IF kbps # 0 THEN 0 ELSE asked
              /\ UNCHANGED <<c2, mfx, encoder, inside, ctrl, chosen>>
    <2> HIDE DEF tuned, u, a, b
    <2>1. SettingsInv' /\ OpenInv'
      BY <1>1, <1>10 DEF EncoderInv, SettingsInv, SettingsShape, LevelFits, LevelFollows, Demanded,
                         OpenInv, OpenShape, MfxShape
    <2>2. BitrateInv'
      BY <1>2, <1>10 DEF EncoderInv, BitrateInv, EncoderParams!BitrateInForce
    <2> QED
      BY <1>2, <1>9, <2>1, <2>2 DEF EncoderInv
  <1>11. CASE /\ kbps = 0
              /\ encoder' = enc /\ c2' = c2 /\ mfx' = mfx /\ asked' = asked
              /\ chosen' = (chosen /\ ~tuned)
    <2> HIDE DEF tuned, u, a, b
    <2>1. SettingsInv'
      BY <1>1, <1>11 DEF EncoderInv, SettingsInv, SettingsShape, LevelFits, LevelFollows, Demanded
    <2>2. OpenInv'
      BY <1>1, <1>4, <1>11 DEF OpenInv, OpenShape, MfxShape
    <2>3. BitrateInv'
      BY <1>2, <1>4, <1>11 DEF EncoderInv, BitrateInv, EncoderParams!BitrateInForce
    <2> QED
      BY <1>2, <1>9, <2>1, <2>2, <2>3 DEF EncoderInv
  <1>12. CASE /\ tuned
              /\ encoder' = u.encoder /\ c2' = a.c2 /\ mfx' = a.mfx
              /\ asked' = IF fail = "none" THEN asked ELSE 0
              /\ chosen' = (chosen /\ ~tuned)
    <2>1. kbps \in Nat \ {0} /\ ~chosen' /\ MfxShape(mfx)
      BY <1>3, <1>12 DEF EncoderInv, SettingsInv, SettingsShape, MfxShape
    <2> HIDE DEF tuned, b
    <2>2. /\ MfxShape(u.mfx) /\ OpenShape(u.encoder)
          /\ fail \notin {"getVideoParam", "reset"} =>
               u.mfx.kbps = kbps /\ (enc.opened => u.encoder.params.kbps = kbps)
          /\ u.encoder.opened = enc.opened
      BY <1>4, <2>1, UpdateKeeps
    <2> HIDE DEF u
    <2>3. SettingsShape(c, u.mfx)
      BY <1>6, <2>2 DEF SettingsShape, MfxShape
    <2>4. SettingsShape(a.c2, a.mfx) /\ a.mfx.kbps = u.mfx.kbps
      BY <1>6, <2>3, AdjustLevelFits
    <2> HIDE DEF a
    <2>5. SettingsInv'
      BY <1>1, <1>12, <2>1, <2>4 DEF SettingsInv, SettingsShape
    <2>6. OpenInv'
      BY <1>1, <1>12, <2>2 DEF OpenInv, OpenShape, MfxShape
    <2>7. fail = "none" => /\ mfx'.kbps = kbps
                           /\ encoder'.opened => encoder'.params.kbps = kbps
      BY <1>12, <2>2, <2>4
    <2>8. BitrateInv'
      BY <1>2, <1>12, <2>1, <2>7 DEF EncoderInv, BitrateInv, EncoderParams!BitrateInForce
    <2> QED
      BY <1>2, <1>9, <2>5, <2>6, <2>8 DEF EncoderInv
  <1>13. CASE /\ encoder' = enc /\ c2' = b.c2 /\ mfx' = b.mfx /\ asked' = 0
              /\ chosen' = (chosen /\ ~tuned)
    <2> HIDE DEF tuned, u, a
    <2>1. /\ SettingsShape(b.c2, b.mfx)
          /\ LevelFollows(c, mfx) => LevelFits(b.c2, b.mfx) /\ LevelFollows(b.c2, b.mfx)
      BY <1>6, AdjustLevelFits
    <2> HIDE DEF b
    <2>2. chosen' => LevelFollows(c, mfx)
      BY <1>6, <1>7, <1>13 DEF LevelFollows
    <2>3. SettingsInv'
      BY <1>1, <1>13, <2>1, <2>2 DEF SettingsInv, SettingsShape, LevelFits, LevelFollows, Demanded
    <2>4. OpenInv'
      BY <1>1, <1>4, <1>13 DEF OpenInv, OpenShape, MfxShape
    <2>5. BitrateInv'
      BY <1>13 DEF BitrateInv, EncoderParams!BitrateInForce
    <2> QED
      BY <1>2, <1>9, <2>3, <2>4, <2>5 DEF EncoderInv
  <1> HIDE DEF tuned, u, a, b
  <1> QED
    BY <1>1, <1>10, <1>11, <1>12, <1>13

LEMMA EncoderStep == ASSUME EncoderConstants, EncoderInv, EncoderParams!Next PROVE EncoderInv'
  BY EncoderSizeStep, EncoderFrameRateStep, EncoderBitrateStep, EncoderBitrateModeStep,
     EncoderProfileLevelStep, EncoderGopStep, EncoderSyncPeriodStep, EncoderRequestSyncStep,
     EncoderColorAspectsStep, EncoderQueriesStep, EncoderRunStep, EncoderQueueStep,
     EncoderUpdateStep, EncoderWorkStep, EncoderStopStep
  DEF EncoderParams!Next

\* While an encoder is open a step changes its bitrate and nothing else of it.
LEMMA OnlyBitrateStep ==
    ASSUME EncoderInv, EncoderParams!Next, encoder.opened, encoder'.opened
    PROVE  /\ [encoder'.params EXCEPT !.kbps = 0] = [encoder.params EXCEPT !.kbps = 0]
           /\ encoder'.colours = encoder.colours
  <1>1. OpenShape(encoder) /\ MfxShape(mfx)
    BY DEF EncoderInv, OpenInv, SettingsInv, SettingsShape, MfxShape
  <1>2. tasks # <<>> => Head(tasks) \in TaskShape
    BY DEF EncoderInv, QueueInv
  <1>3. ASSUME NEW fail, EncoderParams!UpdateBitrate(fail)
        PROVE  /\ [encoder'.params EXCEPT !.kbps = 0] = [encoder.params EXCEPT !.kbps = 0]
               /\ encoder'.colours = encoder.colours
    <2> DEFINE kbps == Head(tasks).kbps
    <2>1. /\ kbps \in Nat \ {0}
          /\ encoder' = EncoderParams!Update(encoder, mfx, kbps, fail).encoder
      BY <1>2, <1>3 DEF TaskShape, EncoderParams!UpdateBitrate
    <2> HIDE DEF kbps
    <2> QED
      BY <1>1, <2>1, UpdateOnlyBitrate
  <1>4. ASSUME NEW fail, NEW stays, EncoderParams!DoWork(fail, stays)
        PROVE  /\ [encoder'.params EXCEPT !.kbps = 0] = [encoder.params EXCEPT !.kbps = 0]
               /\ encoder'.colours = encoder.colours
    <2> DEFINE kbps == Head(tasks).kbps
    <2>1. /\ kbps \in Nat
          /\ \/ encoder' = encoder
             \/ kbps # 0 /\ encoder' = EncoderParams!Update(encoder, mfx, kbps, fail).encoder
      BY <1>2, <1>4 DEF TaskShape, EncoderParams!DoWork
    <2> HIDE DEF kbps
    <2> QED
      BY <1>1, <2>1, UpdateOnlyBitrate
  <1>5. ASSUME NEW abort, EncoderParams!DoStop(abort) PROVE FALSE
    BY <1>5 DEF EncoderParams!DoStop, EncoderParams!NoEncoder
  <1>6. \/ UNCHANGED encoder
        \/ \E fail : EncoderParams!UpdateBitrate(fail)
        \/ \E fail, stays : EncoderParams!DoWork(fail, stays)
        \/ \E abort : EncoderParams!DoStop(abort)
    <2>1. ASSUME NEW c, NEW m, EncoderParams!Config(c, m) PROVE UNCHANGED encoder
      BY <2>1 DEF EncoderParams!Config
    <2>2. ASSUME NEW c, EncoderParams!Query(c) PROVE UNCHANGED encoder
      BY <2>2 DEF EncoderParams!Query
    <2>3. \A b : EncoderParams!ConfigBitrate(b) => UNCHANGED encoder
      BY <2>1 DEF EncoderParams!ConfigBitrate
    <2>4. /\ \A s : EncoderParams!ConfigSize(s) => UNCHANGED encoder
          /\ \A r : EncoderParams!ConfigFrameRate(r) => UNCHANGED encoder
      BY <2>1 DEF EncoderParams!ConfigSize, EncoderParams!ConfigFrameRate
    <2>5. /\ \A mode : EncoderParams!ConfigBitrateMode(mode) => UNCHANGED encoder
          /\ \A l : EncoderParams!ConfigProfileLevel(l) => UNCHANGED encoder
      BY <2>1 DEF EncoderParams!ConfigBitrateMode, EncoderParams!ConfigProfileLevel
    <2>6. /\ \A layers, refresh : EncoderParams!ConfigGop(layers, refresh) => UNCHANGED encoder
          /\ \A t : EncoderParams!ConfigSyncPeriod(t) => UNCHANGED encoder
      BY <2>1 DEF EncoderParams!ConfigGop, EncoderParams!ConfigSyncPeriod
    <2>7. /\ \A colour : EncoderParams!ConfigColorAspects(colour) => UNCHANGED encoder
          /\ EncoderParams!ConfigRequestSync => UNCHANGED encoder
      BY <2>1 DEF EncoderParams!ConfigColorAspects, EncoderParams!ConfigRequestSync
    <2>8. \/ EncoderParams!QueryFrameRate \/ EncoderParams!QueryBitrate
          \/ EncoderParams!QueryProfileLevel \/ EncoderParams!QuerySyncFrameInterval
          => UNCHANGED encoder
      BY <2>2 DEF EncoderParams!QueryFrameRate, EncoderParams!QueryBitrate,
                  EncoderParams!QueryProfileLevel, EncoderParams!QuerySyncFrameInterval
    <2>9. /\ \A kbps : EncoderParams!Queue(kbps) => UNCHANGED encoder
          /\ EncoderParams!DoStart \/ EncoderParams!Release \/ EncoderParams!Modify => UNCHANGED encoder
      BY DEF EncoderParams!Queue, EncoderParams!DoStart, EncoderParams!Release, EncoderParams!Modify
    <2> QED
      BY <2>3, <2>4, <2>5, <2>6, <2>7, <2>8, <2>9 DEF EncoderParams!Next
  <1> QED
    BY <1>3, <1>4, <1>5, <1>6

-----------------------------------------------------------------------------
(* MfxVaFrameAllocator *)

VaConstants == MaxObjects \in Nat /\ MaxVaFrames \in Nat

\* The objects of libva that somebody will destroy: the frames of a response, the surface of a
\* mapping, the image derived from a locked frame.
FramesOf(r) == Va!Surfaces(response[r])
ResponseSurfaces == UNION { FramesOf(r) : r \in Responses }
MappedSurfaces == { m.mid.surface : m \in mapping }
Images == { l.image : l \in image } \ {0}

VaShape ==
    /\ vaMade \in 0..MaxObjects /\ vaObjects \subseteq 1..vaMade /\ faulted \in BOOLEAN
    /\ response \in [Responses -> Seq(Va!Mid)]
    /\ \A r \in Responses : Len(response[r]) <= MaxVaFrames
    /\ mapping \subseteq [store : Stores, mid : Va!Mid]
    /\ image \subseteq [surface : Nat, image : Nat]

\* Each object has one user, so that who destroys it takes it from nobody else.
OneUser ==
    /\ \A r, q \in Responses : r # q => FramesOf(r) \cap FramesOf(q) = {}
    /\ \A m, n \in mapping : m.mid.surface = n.mid.surface \/ m.store = n.store => m = n
    /\ \A l, k \in image : l.image = k.image /\ l.image # 0 => l = k
    /\ ResponseSurfaces \cap MappedSurfaces = {}
    /\ Images \cap (ResponseSurfaces \cup MappedSurfaces) = {}

\* What is in use is alive, and unless a call has failed half way nothing else is; a mem id in use
\* is that of a mapping, a locked frame one of a response or a mapping.
InUse ==
    /\ ResponseSurfaces \cup MappedSurfaces \cup Images \subseteq vaObjects
    /\ faulted \/ vaObjects = ResponseSurfaces \cup MappedSurfaces \cup Images
    /\ vaGiven \subseteq { m.mid : m \in mapping }
    /\ Va!LockedSurfaces \subseteq ResponseSurfaces \cup MappedSurfaces

VaInv == VaShape /\ OneUser /\ InUse

LEMMA VaInit == ASSUME VaConstants, Va!Init PROVE VaInv
  <1>1. /\ \A r \in Responses : response[r] = <<>> /\ FramesOf(r) = {}
        /\ mapping = {} /\ image = {} /\ vaGiven = {} /\ vaObjects = {} /\ vaMade = 0
        /\ response \in [Responses -> Seq(Va!Mid)] /\ faulted = FALSE
    BY DEF Va!Init, Va!Surfaces, FramesOf
  <1>2. ResponseSurfaces = {} /\ MappedSurfaces = {} /\ Images = {} /\ Va!LockedSurfaces = {}
    BY <1>1 DEF ResponseSurfaces, MappedSurfaces, Images, Va!LockedSurfaces
  <1>3. VaShape
    <2>1. \A r \in Responses : Len(response[r]) = 0
      BY <1>1
    <2>2. faulted \in BOOLEAN
      BY <1>1
    <2>5. vaMade \in 0..MaxObjects
      BY <1>1 DEF VaConstants
    <2>3. vaObjects \subseteq 1..vaMade /\ mapping \subseteq [store : Stores, mid : Va!Mid]
          /\ image \subseteq [surface : Nat, image : Nat]
      BY <1>1
    <2>4. \A r \in Responses : Len(response[r]) <= MaxVaFrames
      BY <2>1 DEF VaConstants
    <2> QED
      BY <1>1, <2>2, <2>3, <2>4, <2>5 DEF VaShape
  <1>4. OneUser /\ InUse
    BY <1>1, <1>2 DEF OneUser, InUse
  <1> QED
    BY <1>3, <1>4 DEF VaInv

\* The objects libva makes are new.
LEMMA NewObjects ==
    ASSUME VaInv, NEW n \in Nat
    PROVE  /\ vaMade \in Nat /\ vaObjects \subseteq 1..vaMade
           /\ Va!New(n) = vaMade + 1 .. vaMade + n /\ Va!New(n) \cap vaObjects = {}
           /\ Va!New(n) \subseteq 1 .. vaMade + n
           /\ vaObjects \subseteq 1 .. vaMade + n
  BY DEF VaInv, VaShape, Va!New

\* What does not change of the three users leaves the objects it uses.
LEMMA UsersOf ==
    /\ UNCHANGED response => /\ ResponseSurfaces' = ResponseSurfaces
                             /\ \A r \in Responses : FramesOf(r)' = FramesOf(r)
    /\ UNCHANGED mapping => MappedSurfaces' = MappedSurfaces
    /\ UNCHANGED image => Images' = Images /\ (Va!LockedSurfaces)' = Va!LockedSurfaces
  BY DEF ResponseSurfaces, MappedSurfaces, Images, Va!LockedSurfaces, Va!Surfaces, FramesOf

\* A call that fails half way leaves objects that nobody destroys, and is remembered.
LEMMA VaFails ==
    ASSUME VaInv, NEW n \in Nat, vaMade + n <= MaxObjects, VaConstants,
           vaMade' = vaMade + n, vaObjects' = vaObjects \cup Va!New(n), faulted' = TRUE,
           UNCHANGED <<response, mapping, vaGiven, image>>
    PROVE  VaInv'
  <1>1. VaShape'
    <2>1. vaMade + n \in 0..MaxObjects
      BY NewObjects DEF VaConstants
    <2>2. vaObjects \cup Va!New(n) \subseteq 1 .. vaMade + n
      BY NewObjects
    <2> QED
      BY <2>1, <2>2 DEF VaInv, VaShape
  <1>2. OneUser'
    BY UsersOf DEF VaInv, OneUser
  <1>3. InUse'
    BY UsersOf DEF VaInv, InUse
  <1> QED
    BY <1>1, <1>2, <1>3 DEF VaInv

LEMMA VaAllocFrames ==
    ASSUME VaInv, VaConstants, NEW r \in Responses, NEW f \in Va!MfxFormats,
           NEW n \in 0..MaxVaFrames, Va!AllocFrames(r, f, n)
    PROVE  VaInv'
  <1>0. n \in Nat /\ n <= MaxVaFrames /\ vaMade \in Nat /\ vaMade + n \in 0..MaxObjects
    BY DEF VaInv, VaShape, Va!AllocFrames, VaConstants
  <1>9. /\ Va!New(n) \cap vaObjects = {} /\ vaObjects \cup Va!New(n) \subseteq 1 .. vaMade + n
    BY NewObjects, <1>0
  <1> DEFINE mids == [i \in 1..n |-> [fourcc |-> f, surface |-> vaMade + i]]
  <1>1. /\ mids \in Seq(Va!Mid) /\ Len(mids) = n /\ Va!Surfaces(mids) = Va!New(n)
    <2>1. \A i \in 1..n : [fourcc |-> f, surface |-> vaMade + i] \in Va!Mid
      BY <1>0 DEF Va!Mid
    <2>2. mids \in Seq(Va!Mid) /\ Len(mids) = n
      BY <1>0, <2>1
    <2>3. \A i \in 1..n : mids[i].surface = vaMade + i
      OBVIOUS
    <2>4. \A x \in vaMade + 1 .. vaMade + n : x - vaMade \in 1..n /\ x = vaMade + (x - vaMade)
      BY <1>0
    <2>5. \A i \in 1..n : vaMade + i \in vaMade + 1 .. vaMade + n
      BY <1>0
    <2> HIDE DEF mids
    <2>6. Va!Surfaces(mids) = { mids[i].surface : i \in 1..n }
      BY <2>2 DEF Va!Surfaces
    <2>7. \A x \in vaMade + 1 .. vaMade + n : x = mids[x - vaMade].surface
      BY <2>3, <2>4
    <2>8. vaMade + 1 .. vaMade + n \subseteq Va!Surfaces(mids)
      BY <2>4, <2>6, <2>7
    <2>9. Va!Surfaces(mids) \subseteq vaMade + 1 .. vaMade + n
      BY <2>3, <2>5, <2>6
    <2> QED
      BY <2>2, <2>8, <2>9 DEF Va!New
  <1>2. /\ response' = [response EXCEPT ![r] = mids] /\ response[r] = <<>>
        /\ vaObjects' = vaObjects \cup Va!New(n) /\ vaMade' = vaMade + n
        /\ UNCHANGED <<mapping, vaGiven, image, faulted>>
    BY DEF Va!AllocFrames
  <1> HIDE DEF mids
  <1>3. /\ response'[r] = mids /\ \A q \in Responses : q # r => response'[q] = response[q]
        /\ response' \in [Responses -> Seq(Va!Mid)]
    BY <1>1, <1>2 DEF VaInv, VaShape
  <1>4. /\ FramesOf(r) = {} /\ FramesOf(r)' = Va!New(n)
        /\ \A q \in Responses : q # r => FramesOf(q)' = FramesOf(q)
    <2>1. FramesOf(r) = {}
      BY <1>2 DEF FramesOf, Va!Surfaces
    <2>2. FramesOf(r)' = Va!New(n)
      BY <1>1, <1>3 DEF FramesOf, Va!Surfaces
    <2>3. \A q \in Responses : q # r => FramesOf(q)' = FramesOf(q)
      BY <1>3 DEF FramesOf, Va!Surfaces
    <2> QED
      BY <2>1, <2>2, <2>3
  <1>5. ResponseSurfaces' = ResponseSurfaces \cup Va!New(n)
    BY <1>4 DEF ResponseSurfaces
  <1>6. VaShape'
    <2>1. \A q \in Responses : Len(response'[q]) <= MaxVaFrames
      BY <1>0, <1>1, <1>3 DEF VaInv, VaShape
    <2> QED
      BY <1>0, <1>2, <1>3, <1>9, <2>1 DEF VaInv, VaShape
  <1>7. OneUser'
    <2>1. \A q \in Responses : FramesOf(q) \subseteq vaObjects
      BY DEF VaInv, InUse, ResponseSurfaces
    <2>2. \A q, p \in Responses : q # p => FramesOf(q)' \cap FramesOf(p)' = {}
      BY <1>4, <1>9, <2>1 DEF VaInv, OneUser
    <2>3. /\ ResponseSurfaces' \cap MappedSurfaces' = {}
          /\ Images' \cap (ResponseSurfaces' \cup MappedSurfaces') = {}
      BY <1>2, <1>5, <1>9, UsersOf DEF VaInv, OneUser, InUse
    <2> QED
      BY <1>2, <2>2, <2>3 DEF VaInv, OneUser
  <1>8. InUse'
    BY <1>2, <1>5, UsersOf DEF VaInv, InUse
  <1> QED
    BY <1>6, <1>7, <1>8 DEF VaInv

LEMMA VaAllocFramesFails ==
    ASSUME VaInv, VaConstants, NEW f \in Va!MfxFormats, NEW n \in 0..MaxVaFrames,
           Va!AllocFramesFails(f, n)
    PROVE  VaInv'
  <1>0. n \in Nat /\ vaMade \in Nat /\ vaMade + n \in 0..MaxObjects
    BY DEF VaInv, VaShape, Va!AllocFramesFails, VaConstants
  <1>1. /\ Va!New(n) \cap vaObjects = {} /\ vaObjects \subseteq 1 .. vaMade + n
    BY NewObjects, <1>0
  <1>2. /\ vaObjects' = vaObjects /\ vaMade' = vaMade + n
        /\ UNCHANGED <<response, mapping, vaGiven, image, faulted>>
    BY <1>1 DEF Va!AllocFramesFails, Va!Destroyed
  <1> QED
    BY <1>0, <1>1, <1>2, UsersOf DEF VaInv, VaShape, OneUser, InUse

\* An object that is destroyed with its user is nobody else's.
LEMMA VaFreeFrames ==
    ASSUME VaInv, VaConstants, NEW r \in Responses, Va!FreeFrames(r) PROVE VaInv'
  <1>1. /\ response' = [response EXCEPT ![r] = <<>>] /\ vaObjects' = vaObjects \ FramesOf(r)
        /\ FramesOf(r) \cap Va!LockedSurfaces = {}
        /\ UNCHANGED <<vaMade, mapping, vaGiven, image, faulted>>
    BY DEF Va!FreeFrames, FramesOf
  <1>2. /\ response'[r] = <<>> /\ \A q \in Responses : q # r => response'[q] = response[q]
        /\ response' \in [Responses -> Seq(Va!Mid)] /\ Len(<<>>) = 0
    BY <1>1 DEF VaInv, VaShape
  <1>3. FramesOf(r)' = {} /\ \A q \in Responses : q # r => FramesOf(q)' = FramesOf(q)
    <2>1. FramesOf(r)' = {}
      BY <1>2 DEF FramesOf, Va!Surfaces
    <2>2. \A q \in Responses : q # r => FramesOf(q)' = FramesOf(q)
      BY <1>2 DEF FramesOf, Va!Surfaces
    <2> QED
      BY <2>1, <2>2
  <1>4. ResponseSurfaces' = ResponseSurfaces \ FramesOf(r)
    BY <1>3 DEF ResponseSurfaces, VaInv, OneUser
  <1>5. FramesOf(r) \subseteq ResponseSurfaces
    BY DEF ResponseSurfaces
  <1>6. VaShape'
    <2>1. \A q \in Responses : Len(response'[q]) <= MaxVaFrames
      <3> TAKE q \in Responses
      <3>1. Len(response[q]) \in Nat /\ Len(response[q]) <= MaxVaFrames /\ Len(response[r]) \in Nat
            /\ Len(response[r]) <= MaxVaFrames
        BY DEF VaInv, VaShape
      <3>2. CASE q = r
        <4>1. Len(response'[q]) = 0 /\ 0 <= MaxVaFrames
          BY <1>2, <3>2 DEF VaConstants
        <4> QED
          BY <4>1
      <3>3. CASE q # r
        BY <1>2, <3>1, <3>3
      <3> QED
        BY <3>2, <3>3
    <2> QED
      BY <1>1, <1>2, <2>1 DEF VaInv, VaShape
  <1>7. OneUser'
    <2>1. \A q, p \in Responses : q # p => FramesOf(q)' \cap FramesOf(p)' = {}
      BY <1>3 DEF VaInv, OneUser
    <2> QED
      BY <1>1, <1>4, <2>1, UsersOf DEF VaInv, OneUser
  <1>8. InUse'
    BY <1>1, <1>4, <1>5, UsersOf DEF VaInv, InUse, OneUser
  <1> QED
    BY <1>6, <1>7, <1>8 DEF VaInv

\* The frames of the allocator are the mids whose surface is in use.
LEMMA FrameSurface ==
    ASSUME VaInv, NEW mid \in Va!Frames
    PROVE  mid \in Va!Mid /\ mid.surface \in ResponseSurfaces \cup MappedSurfaces
  <1>1. CASE \E r \in Responses : mid \in Va!ToSet(response[r])
    <2>1. PICK r \in Responses : mid \in Va!ToSet(response[r])
      BY <1>1
    <2>2. PICK i \in 1..Len(response[r]) : mid = response[r][i]
      BY <2>1 DEF Va!ToSet, VaInv, VaShape
    <2>3. mid \in Va!Mid
      BY <2>2 DEF VaInv, VaShape
    <2>4. mid.surface \in FramesOf(r)
      BY <2>2 DEF FramesOf, Va!Surfaces
    <2> QED
      BY <2>3, <2>4 DEF ResponseSurfaces
  <1>2. CASE mid \in { m.mid : m \in mapping }
    BY <1>2 DEF VaInv, VaShape, MappedSurfaces
  <1>3. mid \in (UNION { Va!ToSet(response[r]) : r \in Responses }) \/ mid \in { m.mid : m \in mapping }
    BY DEF Va!Frames
  <1> QED
    BY <1>1, <1>2, <1>3

\* An object made for the one that maps a frame.
LEMMA VaLockFrame ==
    ASSUME VaInv, VaConstants, NEW mid \in Va!Frames, Va!LockFrame(mid) PROVE VaInv'
  <1>0. mid.surface \in Nat /\ mid.surface \in ResponseSurfaces \cup MappedSurfaces
    BY FrameSurface DEF Va!Mid
  <1>1. UNCHANGED <<response, mapping, vaGiven, faulted>>
    BY DEF Va!LockFrame
  <1>2. CASE image' = image \cup {[surface |-> mid.surface, image |-> 0]}
             /\ UNCHANGED <<vaObjects, vaMade>>
    <2>1. Images' = Images /\ (Va!LockedSurfaces)' = Va!LockedSurfaces \cup {mid.surface}
      <3> DEFINE lock == [surface |-> mid.surface, image |-> 0]
      <3>1. image' = image \cup {lock} /\ lock.surface = mid.surface /\ lock.image = 0
        BY <1>2
      <3> HIDE DEF lock
      <3> QED
        BY <3>1 DEF Images, Va!LockedSurfaces
    <2>2. VaShape' /\ OneUser'
      BY <1>0, <1>1, <1>2, <2>1, UsersOf DEF VaInv, VaShape, OneUser
    <2>3. InUse'
      BY <1>0, <1>1, <1>2, <2>1, UsersOf DEF VaInv, InUse
    <2> QED
      BY <2>2, <2>3 DEF VaInv
  <1>3. CASE /\ image' = image \cup {[surface |-> mid.surface, image |-> vaMade + 1]}
             /\ vaObjects' = vaObjects \cup Va!New(1) /\ vaMade' = vaMade + 1
             /\ vaMade < MaxObjects
    <2>0. /\ vaMade + 1 \in 1..MaxObjects /\ Va!New(1) = {vaMade + 1} /\ vaMade + 1 \notin vaObjects
          /\ vaObjects \cup Va!New(1) \subseteq 1 .. vaMade + 1 /\ vaMade + 1 # 0
          /\ vaMade + 1 \in Nat /\ vaMade + 1 \in 0..MaxObjects
      BY <1>3, NewObjects DEF VaConstants
    <2>1. /\ Images' = Images \cup {vaMade + 1}
          /\ (Va!LockedSurfaces)' = Va!LockedSurfaces \cup {mid.surface}
      <3> DEFINE lock == [surface |-> mid.surface, image |-> vaMade + 1]
      <3>1. image' = image \cup {lock} /\ lock.surface = mid.surface /\ lock.image = vaMade + 1
        BY <1>3
      <3> HIDE DEF lock
      <3> QED
        BY <2>0, <3>1 DEF Images, Va!LockedSurfaces
    <2>2. VaShape'
      BY <1>0, <1>1, <1>3, <2>0 DEF VaInv, VaShape
    <2>3. OneUser'
      <3>1. \A l \in image : l.image # vaMade + 1
        BY <2>0 DEF VaInv, InUse, Images
      <3>2. \A l, k \in image' : l.image = k.image /\ l.image # 0 => l = k
        BY <1>3, <3>1 DEF VaInv, OneUser
      <3>3. Images' \cap (ResponseSurfaces \cup MappedSurfaces) = {}
        BY <2>0, <2>1 DEF VaInv, OneUser, InUse
      <3> QED
        BY <1>1, <3>2, <3>3, UsersOf DEF VaInv, OneUser
    <2>4. InUse'
      BY <1>0, <1>1, <1>3, <2>0, <2>1, UsersOf DEF VaInv, InUse
    <2> QED
      BY <2>2, <2>3, <2>4 DEF VaInv
  <1> QED
    BY <1>2, <1>3 DEF Va!LockFrame

LEMMA VaUnlockFrame ==
    ASSUME VaInv, NEW l \in image, Va!UnlockFrame(l) \/ Va!UnlockFrameFails(l) PROVE VaInv'
  <1>1. image' = image \ {l} /\ UNCHANGED <<vaMade, response, mapping, vaGiven>>
    BY DEF Va!UnlockFrame, Va!UnlockFrameFails
  <1>2. /\ Images' = Images \ {l.image} /\ (Va!LockedSurfaces)' \subseteq Va!LockedSurfaces
        /\ l.image # 0 => l.image \in Images
    BY <1>1 DEF Images, Va!LockedSurfaces, VaInv, OneUser
  <1>3. 0 \notin vaObjects /\ l.image \notin ResponseSurfaces \cup MappedSurfaces
    <2>1. 0 \notin vaObjects
      BY DEF VaInv, VaShape
    <2> QED
      BY <1>2, <2>1 DEF VaInv, OneUser, InUse
  <1>4. OneUser'
    BY <1>1, <1>2, UsersOf DEF VaInv, OneUser
  <1>5. CASE Va!UnlockFrame(l)
    <2>1. vaObjects' = vaObjects \ {l.image} /\ UNCHANGED faulted
      BY <1>5 DEF Va!UnlockFrame
    <2>2. VaShape'
      BY <1>1, <2>1 DEF VaInv, VaShape
    <2>3. InUse'
      BY <1>1, <1>2, <1>3, <2>1, UsersOf DEF VaInv, InUse
    <2> QED
      BY <1>4, <2>2, <2>3 DEF VaInv
  <1>6. CASE Va!UnlockFrameFails(l)
    <2>1. vaObjects' = vaObjects /\ faulted' = TRUE
      BY <1>6 DEF Va!UnlockFrameFails
    <2>2. VaShape'
      BY <1>1, <2>1 DEF VaInv, VaShape
    <2>3. InUse'
      BY <1>1, <1>2, <2>1, UsersOf DEF VaInv, InUse
    <2> QED
      BY <1>4, <2>2, <2>3 DEF VaInv
  <1> QED
    BY <1>5, <1>6

LEMMA VaConvert ==
    ASSUME VaInv, VaConstants, NEW s \in Stores, NEW f \in Va!GrallocFormats,
           Va!ConvertGrallocToVa(s, f)
    PROVE  VaInv'
  <1>1. UNCHANGED <<response, image, faulted>>
    BY DEF Va!ConvertGrallocToVa
  <1>2. CASE Va!Mapped(s) # {}
    <2>1. /\ vaGiven' = vaGiven \cup { m.mid : m \in Va!Mapped(s) }
          /\ UNCHANGED <<vaObjects, vaMade, mapping>>
      BY <1>2 DEF Va!ConvertGrallocToVa
    <2>2. vaGiven' \subseteq { m.mid : m \in mapping' }
      BY <2>1 DEF Va!Mapped, VaInv, InUse
    <2>3. VaShape' /\ OneUser'
      BY <1>1, <2>1, UsersOf DEF VaInv, VaShape, OneUser
    <2>4. InUse'
      BY <1>1, <2>1, <2>2, UsersOf DEF VaInv, InUse
    <2> QED
      BY <2>3, <2>4 DEF VaInv
  <1>3. CASE Va!Mapped(s) = {}
    <2> DEFINE mid == [fourcc |-> Va!SurfaceOf(f).fourcc, surface |-> vaMade + 1]
               m == [store |-> s, mid |-> mid]
    <2>1. /\ mapping' = mapping \cup {m} /\ vaGiven' = vaGiven \cup {mid}
          /\ vaObjects' = vaObjects \cup Va!New(1) /\ vaMade' = vaMade + 1
          /\ vaMade < MaxObjects /\ f \in Va!Mappable
      BY <1>3 DEF Va!ConvertGrallocToVa
    <2>2. /\ vaMade + 1 \in 1..MaxObjects /\ Va!New(1) = {vaMade + 1} /\ vaMade + 1 \notin vaObjects
          /\ vaObjects \cup Va!New(1) \subseteq 1 .. vaMade + 1
          /\ vaMade + 1 \in Nat /\ vaMade + 1 \in 0..MaxObjects
      BY <2>1, NewObjects DEF VaConstants
    <2>3. mid.surface = vaMade + 1 /\ m.mid = mid /\ m.store = s /\ m \in [store : Stores, mid : Va!Mid]
      <3>1. Va!SurfaceOf(f).fourcc \in Va!MfxFormats
        BY <2>1 DEF Va!Mappable, Va!GrallocFormats, Va!SurfaceOf, Va!GrallocToVa, Va!VaToMfx,
                    Va!MfxFormats
      <3>2. mid \in Va!Mid
        BY <2>2, <3>1 DEF Va!Mid
      <3> QED
        BY <3>2
    <2> HIDE DEF mid, m
    <2>4. MappedSurfaces' = MappedSurfaces \cup {vaMade + 1}
      BY <2>1, <2>3 DEF MappedSurfaces
    <2>5. VaShape'
      BY <1>1, <2>1, <2>2, <2>3 DEF VaInv, VaShape
    <2>6. OneUser'
      <3>1. \A n \in mapping : n.mid.surface # vaMade + 1 /\ n.store # s
        BY <1>3, <2>2 DEF Va!Mapped, VaInv, InUse, MappedSurfaces
      <3>2. \A n, k \in mapping' : n.mid.surface = k.mid.surface \/ n.store = k.store => n = k
        BY <2>1, <2>3, <3>1 DEF VaInv, OneUser
      <3>3. /\ ResponseSurfaces \cap MappedSurfaces' = {}
            /\ Images \cap (ResponseSurfaces \cup MappedSurfaces') = {}
        BY <2>2, <2>4 DEF VaInv, OneUser, InUse
      <3> QED
        BY <1>1, <3>2, <3>3, UsersOf DEF VaInv, OneUser
    <2>7. InUse'
      <3>1. vaGiven' \subseteq { k.mid : k \in mapping' }
        BY <2>1, <2>3 DEF VaInv, InUse
      <3> QED
        BY <1>1, <2>1, <2>2, <2>4, <3>1, UsersOf DEF VaInv, InUse
    <2> QED
      BY <2>5, <2>6, <2>7 DEF VaInv
  <1> QED
    BY <1>2, <1>3

\* Mappings that go take their surfaces and mem ids with them.
LEMMA VaFreeMappings ==
    ASSUME VaInv, NEW gone \in SUBSET mapping,
           { m.mid.surface : m \in gone } \cap Va!LockedSurfaces = {},
           mapping' = mapping \ gone, vaGiven' = vaGiven \ { m.mid : m \in gone },
           vaObjects' = vaObjects \ { m.mid.surface : m \in gone },
           UNCHANGED <<vaMade, response, image, faulted>>
    PROVE  VaInv'
  <1>1. /\ MappedSurfaces' = MappedSurfaces \ { m.mid.surface : m \in gone }
        /\ { m.mid.surface : m \in gone } \subseteq MappedSurfaces
    BY DEF MappedSurfaces, VaInv, OneUser
  <1>2. VaShape'
    BY DEF VaInv, VaShape
  <1>3. OneUser'
    BY <1>1, UsersOf DEF VaInv, OneUser
  <1>4. vaGiven' \subseteq { m.mid : m \in mapping' }
    BY DEF VaInv, InUse
  <1>5. InUse'
    BY <1>1, <1>4, UsersOf DEF VaInv, InUse, OneUser
  <1> QED
    BY <1>2, <1>3, <1>5 DEF VaInv

LEMMA VaStep == ASSUME VaInv, VaConstants, Va!Next PROVE VaInv'
  <1>1. CASE \E r \in Responses, f \in Va!MfxFormats, n \in 0..MaxVaFrames : Va!AllocFrames(r, f, n)
    BY <1>1, VaAllocFrames
  <1>2. CASE \E f \in Va!MfxFormats, n \in 0..MaxVaFrames : Va!AllocFramesFails(f, n)
    BY <1>2, VaAllocFramesFails
  <1>3. CASE \E r \in Responses : Va!FreeFrames(r)
    BY <1>3, VaFreeFrames
  <1>4. CASE \E mid \in Va!Frames : Va!LockFrame(mid)
    BY <1>4, VaLockFrame
  <1>5. CASE \E mid \in Va!Frames : Va!LockFrameFails(mid)
    <2>1. vaMade + 1 <= MaxObjects
      BY <1>5 DEF Va!LockFrameFails, VaInv, VaShape, VaConstants
    <2> QED
      BY <1>5, <2>1, VaFails DEF Va!LockFrameFails
  <1>6. CASE \E l \in image : Va!UnlockFrame(l) \/ Va!UnlockFrameFails(l)
    BY <1>6, VaUnlockFrame
  <1>7. CASE \E s \in Stores, f \in Va!GrallocFormats : Va!ConvertGrallocToVa(s, f)
    BY <1>7, VaConvert
  <1>8. CASE \E s \in Stores, images \in 0..1 : Va!MapGrallocBufferFails(s, images)
    <2>1. PICK s \in Stores, images \in 0..1 : Va!MapGrallocBufferFails(s, images)
      BY <1>8
    <2> DEFINE n == 1 + images
    <2>2. n \in Nat /\ vaMade + n <= MaxObjects /\ vaMade' = vaMade + n
      BY <2>1 DEF Va!MapGrallocBufferFails, VaInv, VaShape
    <2>3. /\ vaObjects' = vaObjects \cup Va!New(n) /\ faulted' = TRUE
          /\ UNCHANGED <<response, mapping, vaGiven, image>>
      BY <2>1 DEF Va!MapGrallocBufferFails
    <2> HIDE DEF n
    <2> QED
      BY <2>2, <2>3, VaFails
  <1>9. CASE \E m \in mapping : Va!FreeGrallocToVaMapping(m)
    <2>1. PICK m \in mapping : Va!FreeGrallocToVaMapping(m)
      BY <1>9
    <2> DEFINE gone == {m}
    <2>2. /\ { n.mid.surface : n \in gone } = {m.mid.surface} /\ { n.mid : n \in gone } = {m.mid}
          /\ gone \in SUBSET mapping
      OBVIOUS
    <2>3. /\ mapping' = mapping \ gone /\ vaGiven' = vaGiven \ {m.mid}
          /\ vaObjects' = vaObjects \ {m.mid.surface} /\ {m.mid.surface} \cap Va!LockedSurfaces = {}
          /\ UNCHANGED <<vaMade, response, image, faulted>>
      BY <2>1 DEF Va!FreeGrallocToVaMapping
    <2> HIDE DEF gone
    <2> QED
      BY <2>2, <2>3, VaFreeMappings
  <1>10. CASE Va!FreeAllMappings
    <2>1. /\ mapping \ mapping = {} /\ mapping \in SUBSET mapping
          /\ vaGiven \ { m.mid : m \in mapping } = {}
      BY DEF VaInv, InUse
    <2> QED
      BY <1>10, <2>1, VaFreeMappings DEF Va!FreeAllMappings
  <1> QED
    BY <1>1, <1>2, <1>3, <1>4, <1>5, <1>6, <1>7, <1>8, <1>9, <1>10 DEF Va!Next

LEMMA SameCardinalityOfVa == \A S : Va!Cardinality(S) = Cardinality(S)
  BY DEF Va!Cardinality, Cardinality

\* A store has one surface, and the buffers that are mapped have a format in each table.
LEMMA VaSound == ASSUME VaInv PROVE VaObjectsAccounted
  <1>1. Va!VaTypeOK
    <2>1. \A r \in Responses : Len(response[r]) <= MaxVaFrames /\ Va!ToSet(response[r]) \subseteq Va!Mid
      BY DEF VaInv, VaShape, Va!ToSet
    <2>2. \A m \in mapping : m.store \in Stores /\ m.mid \in Va!Mid
      BY DEF VaInv, VaShape
    <2>3. \A l \in image : l.surface \in 1..vaMade /\ l.image \in 0..vaMade
      <3> TAKE l \in image
      <3>1. l.surface \in Va!LockedSurfaces /\ (l.image # 0 => l.image \in Images)
        BY DEF Va!LockedSurfaces, Images
      <3>2. l.surface \in 1..vaMade /\ (l.image # 0 => l.image \in 1..vaMade) /\ vaMade \in Nat
        BY <3>1 DEF VaInv, InUse, VaShape
      <3> QED
        BY <3>2
    <2> QED
      BY <2>1, <2>2, <2>3 DEF VaInv, VaShape, Va!VaTypeOK
  <1>2. Va!UsedIsAlive
    <2>1. \A r \in Responses : Va!Surfaces(response[r]) \subseteq vaObjects
      BY DEF VaInv, InUse, ResponseSurfaces, FramesOf
    <2>2. \A mid \in vaGiven : mid.surface \in vaObjects
      BY DEF VaInv, InUse, MappedSurfaces
    <2>3. \A l \in image : {l.surface, l.image} \subseteq vaObjects \cup {0}
      BY DEF VaInv, InUse, Va!LockedSurfaces, Images
    <2>4. \A s \in Stores : Va!Cardinality(Va!Mapped(s)) <= 1
      <3> TAKE s \in Stores
      <3>1. CASE Va!Mapped(s) = {}
        BY <3>1, FS_EmptySet, SameCardinalityOfVa
      <3>2. CASE Va!Mapped(s) # {}
        <4>1. PICK m : Va!Mapped(s) = {m}
          BY <3>2 DEF Va!Mapped, VaInv, OneUser
        <4> QED
          BY <4>1, FS_Singleton, SameCardinalityOfVa
      <3> QED
        BY <3>1, <3>2
    <2> QED
      BY <2>1, <2>2, <2>3, <2>4 DEF Va!UsedIsAlive
  <1>3. Va!NothingLeft
    <2>1. faulted \/ vaObjects = ResponseSurfaces \cup MappedSurfaces \cup Images
      BY DEF VaInv, InUse
    <2> QED
      BY <2>1, Zenon DEF Va!NothingLeft, ResponseSurfaces, FramesOf, MappedSurfaces, Images
  <1>4. Va!TablesAgree
    BY DEF Va!TablesAgree, Va!Mappable, Va!GrallocFormats, Va!SurfaceOf, Va!GrallocToVa, Va!VaToMfx,
           Va!VaToRt, Va!VaToDrm
  <1> QED
    BY <1>1, <1>2, <1>3, <1>4 DEF VaObjectsAccounted

-----------------------------------------------------------------------------
(* MfxXmlParser *)

ElementNames == {"file", "Include", "Decoders", "Encoders", "Other", "MediaCodec", "Limit"}
CodecNames == {"c2.intel.avc.decoder", "c2.intel.avc.encoder"}
CodecProperties == [encoder : BOOLEAN, instances : Nat, lowPower : BOOLEAN]
Groups == {"Decoders", "Encoders"}
Within(s, marks) == \E i \in 1..Len(s) : s[i] \in marks

\* The elements open nest as the format has it: a file is open in an Include and only there, and one
\* group and one codec, in the group, are open at a time.
Nested(s) ==
    /\ \A i \in 1..Len(s) : s[i] = "file" <=> i > 1 /\ s[i - 1] = "Include"
    /\ \A i, j \in 1..Len(s) : s[i] \in Groups /\ s[j] \in Groups => i = j
    /\ \A i, j \in 1..Len(s) : s[i] = "MediaCodec" /\ s[j] = "MediaCodec" => i = j
    /\ \A j \in 1..Len(s) : s[j] = "MediaCodec" => \E i \in 1..Len(s) : i < j /\ s[i] \in Groups

EndsWithInclude(s) == s # <<>> /\ s[Len(s)] = "Include"

\* The section of the elements open, an Include that is about to end apart.
SectionOf(s) ==
    IF ~Within(s, Groups) THEN "toplevel"
    ELSE IF Within(s, {"MediaCodec"}) THEN IF Within(s, {"Encoders"}) THEN "encoder" ELSE "decoder"
    ELSE IF Within(s, {"Encoders"}) THEN "encoders" ELSE "decoders"

XmlConstants == MaxElements \in Nat /\ MaxDepth \in Nat

XmlShape ==
    /\ XmlConstants /\ parsingStatus \in {"ok", "bad", "notfound"}
    /\ section \in {"toplevel", "decoders", "decoder", "encoders", "encoder", "include"}
    /\ elements \in 0 .. MaxElements /\ open \in Seq(ElementNames) /\ Len(open) <= MaxDepth
    /\ codecMap \in [CodecNames -> Seq(CodecProperties)]
    /\ \A c \in CodecNames : Len(codecMap[c]) <= 1

\* Between the end of a file and the end of its Include the stack holds the section that goes on;
\* otherwise it is empty, at whatever depth of inclusion.
SectionKept ==
    IF EndsWithInclude(open)
    THEN section = "include" /\ sectionStack = <<SectionOf(open)>>
    ELSE section = SectionOf(open) /\ sectionStack = <<>>

\* m_currentCodec is the codec that is open, and in the table.
CodecOpen ==
    Within(open, {"MediaCodec"}) =>
      \E c \in CodecNames : currentCodec = <<c>> /\ codecMap[c] # <<>>

XmlInv == /\ XmlShape
          /\ parsingStatus = "ok" => Nested(open) /\ SectionKept /\ CodecOpen /\ codecMap = listed

LEMMA XmlInit == ASSUME XmlConstants, Xml!Init PROVE XmlInv
  <1>1. /\ parsingStatus = "ok" /\ section = "toplevel" /\ sectionStack = <<>> /\ open = <<>>
        /\ elements = 0 /\ codecMap = [c \in CodecNames |-> <<>>] /\ codecMap = listed
    BY DEF Xml!Init, CodecNames
  <1>2. Len(open) = 0 /\ open \in Seq(ElementNames)
    BY <1>1
  <1>3. /\ codecMap \in [CodecNames -> Seq(CodecProperties)]
        /\ \A c \in CodecNames : Len(codecMap[c]) <= 1
    <2>1. Len(<<>>) = 0 /\ <<>> \in Seq(CodecProperties)
      OBVIOUS
    <2> QED
      BY <1>1, <2>1
  <1>4. \A marks : ~Within(open, marks)
    BY <1>2 DEF Within
  <1>5. Nested(open)
    BY <1>2 DEF Nested
  <1>6. SectionKept
    BY <1>1, <1>4 DEF SectionKept, SectionOf, EndsWithInclude
  <1>7. CodecOpen
    BY <1>4 DEF CodecOpen
  <1>8. XmlShape
    BY <1>1, <1>2, <1>3 DEF XmlShape, XmlConstants
  <1> QED
    BY <1>1, <1>5, <1>6, <1>7, <1>8 DEF XmlInv

LEMMA XmlNames ==
    ASSUME open \in Seq(ElementNames)
    PROVE  /\ DOMAIN Xml!Group = Groups /\ Xml!Group["Decoders"] = "decoders"
           /\ Xml!Group["Encoders"] = "encoders"
           /\ \A marks : Xml!Inside(marks) <=> Within(open, marks)
           /\ Xml!Encoder <=> Within(open, {"Encoders"})
           /\ Xml!Last(open) = open[Len(open)]
  BY DEF Xml!Group, Groups, Xml!Inside, Within, Xml!Encoder, Xml!Last

\* An element that opens.
LEMMA Opens ==
    ASSUME NEW s \in Seq(ElementNames), NEW e \in ElementNames
    PROVE  /\ Append(s, e) \in Seq(ElementNames) /\ Len(Append(s, e)) = Len(s) + 1
           /\ \A marks : Within(Append(s, e), marks) <=> Within(s, marks) \/ e \in marks
           /\ EndsWithInclude(Append(s, e)) <=> e = "Include"
           /\ (/\ Nested(s) /\ (e = "file" <=> EndsWithInclude(s))
               /\ e \in Groups => ~Within(s, Groups)
               /\ e = "MediaCodec" => Within(s, Groups) /\ ~Within(s, {"MediaCodec"}))
              => Nested(Append(s, e))
  <1> DEFINE t == Append(s, e)
  <1>1. /\ t \in Seq(ElementNames) /\ Len(t) = Len(s) + 1 /\ Len(s) \in Nat
        /\ t[Len(s) + 1] = e /\ \A i \in 1..Len(s) : t[i] = s[i]
        /\ t # <<>> /\ (s = <<>> <=> Len(s) = 0)
    OBVIOUS
  <1> HIDE DEF t
  <1>2. 1..Len(t) = 1..Len(s) \cup {Len(s) + 1} /\ Len(s) + 1 \notin 1..Len(s)
    BY <1>1
  <1>3. \A marks : Within(t, marks) <=> Within(s, marks) \/ e \in marks
    BY <1>1, <1>2 DEF Within
  <1>4. EndsWithInclude(t) <=> e = "Include"
    BY <1>1 DEF EndsWithInclude
  <1>5. ASSUME Nested(s), e = "file" <=> EndsWithInclude(s), e \in Groups => ~Within(s, Groups),
               e = "MediaCodec" => Within(s, Groups) /\ ~Within(s, {"MediaCodec"})
        PROVE  Nested(t)
    <2>1. \A i \in 1..Len(t) : t[i] = "file" <=> i > 1 /\ t[i - 1] = "Include"
      <3> TAKE i \in 1..Len(t)
      <3>1. CASE i = Len(s) + 1
        <4>1. i > 1 => i - 1 = Len(s) /\ Len(s) \in 1..Len(s)
          BY <1>1, <3>1
        <4> QED
          BY <1>1, <1>5, <3>1, <4>1 DEF EndsWithInclude
      <3>2. CASE i \in 1..Len(s)
        <4>1. i > 1 => i - 1 \in 1..Len(s)
          BY <1>1, <3>2
        <4> QED
          BY <1>1, <1>5, <3>2, <4>1 DEF Nested
      <3> QED
        BY <1>2, <3>1, <3>2
    <2>2. \A i, j \in 1..Len(t) : t[i] \in Groups /\ t[j] \in Groups => i = j
      BY <1>1, <1>2, <1>5 DEF Nested, Within
    <2>3. \A i, j \in 1..Len(t) : t[i] = "MediaCodec" /\ t[j] = "MediaCodec" => i = j
      BY <1>1, <1>2, <1>5 DEF Nested, Within
    <2>4. \A j \in 1..Len(t) : t[j] = "MediaCodec" => \E i \in 1..Len(t) : i < j /\ t[i] \in Groups
      <3> SUFFICES ASSUME NEW j \in 1..Len(t), t[j] = "MediaCodec"
                   PROVE  \E i \in 1..Len(t) : i < j /\ t[i] \in Groups
        OBVIOUS
      <3>1. \E i \in 1..Len(s) : i < j /\ s[i] \in Groups
        BY <1>1, <1>2, <1>5 DEF Nested, Within
      <3> QED
        BY <1>1, <1>2, <3>1
    <2> QED
      BY <2>1, <2>2, <2>3, <2>4 DEF Nested
  <1> QED
    BY <1>1, <1>3, <1>4, <1>5 DEF t

\* The element that ends is the innermost.
LEMMA Ends ==
    ASSUME NEW s \in Seq(ElementNames), s # <<>>, Nested(s)
    PROVE  LET t == Xml!Front(s)
               e == s[Len(s)]
           IN /\ t \in Seq(ElementNames) /\ Len(t) <= Len(s) /\ e \in ElementNames /\ Nested(t)
              /\ EndsWithInclude(t) <=> e = "file"
              /\ \A marks : e \notin marks => (Within(t, marks) <=> Within(s, marks))
              /\ e = "MediaCodec" => /\ ~Within(t, {"MediaCodec"}) /\ Within(t, Groups)
                                     /\ Within(s, {"MediaCodec"}) /\ Within(s, Groups)
              /\ e \in Groups => /\ ~Within(t, {"MediaCodec"}) /\ ~Within(t, Groups)
                                 /\ ~Within(s, {"MediaCodec"}) /\ Within(s, Groups)
                                 /\ Within(s, {"Encoders"}) <=> e = "Encoders"
  <1> DEFINE t == Xml!Front(s)
             e == s[Len(s)]
  <1>1. /\ t \in Seq(ElementNames) /\ Len(t) = Len(s) - 1 /\ Len(s) \in Nat \ {0}
        /\ \A i \in 1..Len(t) : t[i] = s[i] /\ i \in 1..Len(s)
        /\ e \in ElementNames /\ (t = <<>> <=> Len(t) = 0) /\ Len(s) \in 1..Len(s)
    <2>1. Len(s) \in Nat \ {0} /\ Len(s) \in 1..Len(s) /\ Len(s) - 1 \in Nat
      OBVIOUS
    <2>2. t = SubSeq(s, 1, Len(s) - 1)
      BY DEF Xml!Front
    <2>3. /\ t \in Seq(ElementNames) /\ Len(t) = Len(s) - 1
          /\ \A i \in 1..Len(s) - 1 : t[i] = s[i]
      <3>1. SubSeq(s, 1, Len(s) - 1) \in Seq(ElementNames)
        BY <2>1
      <3>2. Len(SubSeq(s, 1, Len(s) - 1)) = Len(s) - 1
        BY <2>1
      <3>3. \A i \in 1..Len(s) - 1 : SubSeq(s, 1, Len(s) - 1)[i] = s[i]
        BY <2>1
      <3> QED
        BY <2>2, <3>1, <3>2, <3>3
    <2>4. \A i \in 1..Len(s) - 1 : i \in 1..Len(s)
      BY <2>1
    <2> HIDE DEF t
    <2>5. t = <<>> <=> Len(t) = 0
      BY <2>3
    <2> QED
      BY <2>1, <2>3, <2>4, <2>5
  <1> HIDE DEF t
  <1>2. 1..Len(s) = 1..Len(t) \cup {Len(s)} /\ Len(s) \notin 1..Len(t) /\ Len(t) \in Nat
    BY <1>1
  <1>3. Nested(t)
    <2>1. \A i \in 1..Len(t) : t[i] = "file" <=> i > 1 /\ t[i - 1] = "Include"
      <3> TAKE i \in 1..Len(t)
      <3>1. i > 1 => i - 1 \in 1..Len(t)
        BY <1>2
      <3> QED
        BY <1>1, <3>1 DEF Nested
    <2>2. \A i, j \in 1..Len(t) : t[i] \in Groups /\ t[j] \in Groups => i = j
      BY <1>1 DEF Nested
    <2>3. \A i, j \in 1..Len(t) : t[i] = "MediaCodec" /\ t[j] = "MediaCodec" => i = j
      BY <1>1 DEF Nested
    <2>4. \A j \in 1..Len(t) : t[j] = "MediaCodec" => \E i \in 1..Len(t) : i < j /\ t[i] \in Groups
      <3> SUFFICES ASSUME NEW j \in 1..Len(t), t[j] = "MediaCodec"
                   PROVE  \E i \in 1..Len(t) : i < j /\ t[i] \in Groups
        OBVIOUS
      <3>1. PICK i \in 1..Len(s) : i < j /\ s[i] \in Groups
        BY <1>1 DEF Nested
      <3>2. i \in 1..Len(t)
        BY <1>1, <1>2, <3>1
      <3> QED
        BY <1>1, <3>1, <3>2
    <2> QED
      BY <2>1, <2>2, <2>3, <2>4 DEF Nested
  <1>4. EndsWithInclude(t) <=> e = "file"
    <2>1. e = "file" <=> Len(s) > 1 /\ s[Len(s) - 1] = "Include"
      BY <1>1 DEF Nested
    <2>2. Len(s) > 1 <=> t # <<>>
      BY <1>1
    <2>3. t # <<>> => Len(t) \in 1..Len(t) /\ Len(t) = Len(s) - 1
      BY <1>1, <1>2
    <2> QED
      BY <1>1, <2>1, <2>2, <2>3 DEF EndsWithInclude
  <1>5. \A marks : e \notin marks => (Within(t, marks) <=> Within(s, marks))
    BY <1>1, <1>2 DEF Within
  <1>6. ASSUME e = "MediaCodec"
        PROVE  /\ ~Within(t, {"MediaCodec"}) /\ Within(t, Groups)
               /\ Within(s, {"MediaCodec"}) /\ Within(s, Groups)
    <2>1. PICK i \in 1..Len(s) : i < Len(s) /\ s[i] \in Groups
      BY <1>1, <1>6 DEF Nested
    <2>2. i \in 1..Len(t)
      BY <1>1, <1>2, <2>1
    <2>3. Within(t, Groups) /\ Within(s, Groups) /\ Within(s, {"MediaCodec"})
      BY <1>1, <1>6, <2>1, <2>2 DEF Within
    <2>4. ~Within(t, {"MediaCodec"})
      BY <1>1, <1>2, <1>6 DEF Within, Nested
    <2> QED
      BY <2>3, <2>4
  <1>7. ASSUME e \in Groups
        PROVE  /\ ~Within(t, {"MediaCodec"}) /\ ~Within(t, Groups)
               /\ ~Within(s, {"MediaCodec"}) /\ Within(s, Groups)
               /\ Within(s, {"Encoders"}) <=> e = "Encoders"
    <2>1. \A i \in 1..Len(s) : s[i] \in Groups => i = Len(s)
      BY <1>1, <1>7 DEF Nested
    <2>2. \A j \in 1..Len(s) : s[j] # "MediaCodec"
      <3> SUFFICES ASSUME NEW j \in 1..Len(s), s[j] = "MediaCodec" PROVE FALSE
        OBVIOUS
      <3>1. PICK i \in 1..Len(s) : i < j /\ s[i] \in Groups
        BY DEF Nested
      <3> QED
        BY <1>1, <2>1, <3>1
    <2>3. ~Within(t, {"MediaCodec"}) /\ ~Within(s, {"MediaCodec"})
      BY <1>1, <2>2 DEF Within
    <2>4. ~Within(t, Groups) /\ Within(s, Groups)
      BY <1>1, <1>2, <1>7, <2>1 DEF Within
    <2>5. Within(s, {"Encoders"}) <=> e = "Encoders"
      BY <1>1, <2>1 DEF Within, Groups
    <2> QED
      BY <2>3, <2>4, <2>5
  <1> QED
    BY <1>1, <1>3, <1>4, <1>5, <1>6, <1>7 DEF t

\* The elements that a new one may stand in.
LEMMA XmlParent ==
    ASSUME XmlInv, parsingStatus = "ok", NEW names \in SUBSET (ElementNames \ {"Include"}),
           Xml!Parent \in names
    PROVE  /\ ~EndsWithInclude(open)
           /\ Xml!Parent # "file" => open # <<>> /\ Xml!Parent = open[Len(open)]
           /\ section = SectionOf(open) /\ sectionStack = <<>>
  <1>1. open \in Seq(ElementNames)
    BY DEF XmlInv, XmlShape, XmlConstants
  <1>2. open # <<>> => Xml!Parent = open[Len(open)]
    BY <1>1, XmlNames DEF Xml!Parent
  <1>3. open = <<>> => Xml!Parent = "file"
    BY DEF Xml!Parent
  <1>4. ~EndsWithInclude(open)
    BY <1>2 DEF EndsWithInclude
  <1> QED
    BY <1>2, <1>3, <1>4 DEF XmlInv, SectionKept

LEMMA XmlStartGroup ==
    ASSUME XmlInv, NEW element \in {"Decoders", "Encoders", "Other"}, Xml!StartGroup(element)
    PROVE  XmlInv'
  <1>1. /\ parsingStatus = "ok" /\ Xml!Parent \in {"file", "Other"}
        /\ elements' = elements + 1 /\ elements < MaxElements
        /\ open' = Append(open, element) /\ Len(open) < MaxDepth
        /\ element = "Other" \/ ~Within(open, Groups)
        /\ section' = IF section = "toplevel" /\ element \in Groups THEN Xml!Group[element] ELSE section
        /\ UNCHANGED <<parsingStatus, sectionStack, codecMap, currentCodec, listed>>
        /\ open \in Seq(ElementNames) /\ element \in ElementNames /\ element # "MediaCodec"
        /\ element \in Groups \/ element = "Other"
    BY XmlNames DEF Xml!StartGroup, Xml!Starts, XmlInv, XmlShape, XmlConstants, ElementNames, Groups
  <1>2. ~EndsWithInclude(open) /\ section = SectionOf(open) /\ sectionStack = <<>>
    BY <1>1, XmlParent DEF ElementNames
  <1>3. Nested(open) /\ CodecOpen /\ codecMap = listed
    BY <1>1 DEF XmlInv
  <1>4. /\ open' \in Seq(ElementNames) /\ Len(open') = Len(open) + 1 /\ ~EndsWithInclude(open')
        /\ \A marks : Within(open', marks) <=> Within(open, marks) \/ element \in marks
        /\ Nested(open')
    BY <1>1, <1>2, <1>3, Opens DEF Groups
  <1>5. section' = SectionOf(open')
    <2>1. CASE element = "Other"
      BY <1>1, <1>2, <1>4, <2>1 DEF SectionOf, Groups
    <2>2. CASE element \in Groups
      <3>1. /\ ~Within(open, Groups) /\ ~Within(open, {"Encoders"}) /\ ~Within(open, {"MediaCodec"})
        BY <1>1, <1>3, <2>2 DEF Within, Nested, Groups
      <3>2. section' = Xml!Group[element]
        BY <1>1, <1>2, <2>2, <3>1 DEF SectionOf
      <3>3. SectionOf(open') = IF element = "Encoders" THEN "encoders" ELSE "decoders"
        BY <1>4, <2>2, <3>1 DEF SectionOf, Groups
      <3> QED
        BY <1>1, <2>2, <3>2, <3>3, XmlNames DEF Groups
    <2> QED
      BY <1>1, <2>1, <2>2
  <1>6. SectionKept' /\ CodecOpen'
    BY <1>1, <1>2, <1>3, <1>4, <1>5 DEF SectionKept, CodecOpen
  <1>7. XmlShape'
    <2>1. section' \in {"toplevel", "decoders", "decoder", "encoders", "encoder", "include"}
      BY <1>5 DEF SectionOf
    <2> QED
      BY <1>1, <1>4, <2>1 DEF XmlInv, XmlShape, XmlConstants
  <1> QED
    BY <1>1, <1>3, <1>4, <1>6, <1>7 DEF XmlInv

LEMMA XmlStartMediaCodec ==
    ASSUME XmlInv, NEW name \in CodecNames, NEW attributes \in {"good", "bad"},
           Xml!StartMediaCodec(name, attributes)
    PROVE  XmlInv'
  <1> DEFINE added == attributes = "good" /\ codecMap[name] = <<>>
             kind == Xml!Properties(section = "encoders")
  <1>1. /\ parsingStatus = "ok" /\ elements' = elements + 1 /\ elements < MaxElements
        /\ open' = Append(open, "MediaCodec") /\ Len(open) < MaxDepth /\ UNCHANGED sectionStack
        /\ ~Within(open, {"MediaCodec"}) /\ open \in Seq(ElementNames) /\ "MediaCodec" \in ElementNames
        /\ \/ Xml!Parent \in Groups
           \/ Xml!Parent \in {"file", "Other"} /\ Within(open, Groups)
        /\ listed' = IF attributes = "good"
                     THEN [listed EXCEPT ![name] = <<Xml!Properties(Within(open, {"Encoders"}))>>]
                     ELSE listed
    <2>1. open \in Seq(ElementNames) /\ "MediaCodec" \in ElementNames
      BY DEF XmlInv, XmlShape, XmlConstants, ElementNames
    <2>2. /\ parsingStatus = "ok" /\ elements' = elements + 1 /\ elements < MaxElements
          /\ open' = Append(open, "MediaCodec") /\ Len(open) < MaxDepth /\ UNCHANGED sectionStack
      BY DEF Xml!StartMediaCodec, Xml!Starts
    <2>3. /\ ~Within(open, {"MediaCodec"})
          /\ \/ Xml!Parent \in Groups
             \/ Xml!Parent \in {"file", "Other"} /\ Within(open, Groups)
      BY <2>1, XmlNames DEF Xml!StartMediaCodec, Groups
    <2>4. listed' = IF attributes = "good"
                    THEN [listed EXCEPT ![name] = <<Xml!Properties(Xml!Encoder)>>] ELSE listed
      BY DEF Xml!StartMediaCodec
    <2>5. Xml!Properties(Xml!Encoder) = Xml!Properties(Within(open, {"Encoders"}))
      <3>1. Xml!Encoder \in BOOLEAN /\ Within(open, {"Encoders"}) \in BOOLEAN
        BY DEF Xml!Encoder, Xml!Inside, Within
      <3>3. Xml!Encoder <=> Within(open, {"Encoders"})
        BY <2>1, XmlNames
      <3>2. Xml!Encoder = Within(open, {"Encoders"})
        BY <3>1, <3>3
      <3> QED
        BY <3>2
    <2> QED
      BY <2>1, <2>2, <2>3, <2>4, <2>5
  <1>2. /\ ~EndsWithInclude(open) /\ section = SectionOf(open) /\ sectionStack = <<>>
        /\ Within(open, Groups)
    <2>1. /\ ~EndsWithInclude(open) /\ section = SectionOf(open) /\ sectionStack = <<>>
          /\ Xml!Parent # "file" => open # <<>> /\ Xml!Parent = open[Len(open)]
      BY <1>1, XmlParent DEF ElementNames, Groups
    <2>2. open # <<>> => Len(open) \in 1..Len(open)
      BY <1>1
    <2> QED
      BY <1>1, <2>1, <2>2 DEF Within, Groups
  <1>3. Nested(open) /\ codecMap = listed /\ codecMap \in [CodecNames -> Seq(CodecProperties)]
    BY <1>1 DEF XmlInv, XmlShape, XmlConstants
  <1>4. /\ open' \in Seq(ElementNames) /\ Len(open') = Len(open) + 1 /\ ~EndsWithInclude(open')
        /\ \A marks : Within(open', marks) <=> Within(open, marks) \/ "MediaCodec" \in marks
        /\ Nested(open')
    BY <1>1, <1>2, <1>3, Opens DEF Groups
  <1>5. /\ section \in {"decoders", "encoders"}
        /\ section = "encoders" <=> Within(open, {"Encoders"})
    BY <1>1, <1>2 DEF SectionOf
  <1>6. /\ parsingStatus' = IF added THEN "ok" ELSE "bad"
        /\ section' = IF section = "encoders" THEN "encoder" ELSE "decoder"
        /\ codecMap' = IF added THEN [codecMap EXCEPT ![name] = <<kind>>] ELSE codecMap
        /\ currentCodec' = IF added THEN <<name>> ELSE currentCodec
    BY <1>5 DEF Xml!StartMediaCodec
  <1>7. kind \in CodecProperties
    BY DEF Xml!Properties, CodecProperties
  <1>8. XmlShape'
    <2>1. <<kind>> \in Seq(CodecProperties) /\ Len(<<kind>>) = 1
      BY <1>7
    <2>2. /\ codecMap' \in [CodecNames -> Seq(CodecProperties)]
          /\ \A c \in CodecNames : Len(codecMap'[c]) <= 1
      <3>1. CASE added
        BY <1>3, <1>6, <2>1, <3>1 DEF XmlInv, XmlShape, XmlConstants
      <3>2. CASE ~added
        BY <1>3, <1>6, <3>2 DEF XmlInv, XmlShape, XmlConstants
      <3> QED
        BY <3>1, <3>2
    <2>3. elements' \in 0 .. MaxElements /\ Len(open') <= MaxDepth
      BY <1>1, <1>4 DEF XmlInv, XmlShape, XmlConstants
    <2>4. parsingStatus' \in {"ok", "bad", "notfound"} /\ section' \in {"encoder", "decoder"}
      BY <1>6
    <2> QED
      <3>1. XmlConstants
        BY DEF XmlInv, XmlShape
      <3> QED
        BY <1>4, <2>2, <2>3, <2>4, <3>1 DEF XmlShape, XmlConstants
  <1>9. CASE added
    <2>1. codecMap' = listed'
      <3>1. Xml!Properties(section = "encoders") = Xml!Properties(Within(open, {"Encoders"}))
        <4>1. (section = "encoders") = Within(open, {"Encoders"})
          BY <1>5, Zenon DEF Within
        <4> QED
          BY <4>1
      <3> QED
        BY <1>1, <1>3, <1>6, <1>9, <3>1
    <2>2. section' = SectionOf(open')
      BY <1>2, <1>4, <1>5, <1>6 DEF SectionOf
    <2>3. codecMap'[name] = <<kind>> /\ <<kind>> # <<>>
      BY <1>3, <1>6, <1>9
    <2>4. CodecOpen'
      BY <1>6, <1>9, <2>3 DEF CodecOpen
    <2>5. SectionKept'
      BY <1>1, <1>2, <1>4, <2>2 DEF SectionKept
    <2> QED
      BY <1>4, <1>8, <2>1, <2>4, <2>5 DEF XmlInv
  <1>10. CASE ~added
    BY <1>6, <1>8, <1>10 DEF XmlInv
  <1> QED
    BY <1>9, <1>10

\* A limit goes to the codec that is open, in the table as in the document.
LEMMA XmlStartLimit ==
    ASSUME XmlInv, NEW field, NEW value, Xml!StartLimit(field, value),
           \A p \in CodecProperties : [p EXCEPT ![field] = value] \in CodecProperties
    PROVE  XmlInv'
  <1>1. /\ parsingStatus = "ok" /\ elements' = elements + 1 /\ elements < MaxElements
        /\ Xml!Parent \in {"MediaCodec"}
        /\ open' = Append(open, "Limit") /\ Len(open) < MaxDepth /\ open \in Seq(ElementNames)
        /\ "Limit" \in ElementNames
        /\ UNCHANGED <<parsingStatus, section, sectionStack, currentCodec>>
    BY DEF Xml!StartLimit, Xml!Starts, XmlInv, XmlShape, XmlConstants, ElementNames
  <1>2. /\ ~EndsWithInclude(open) /\ section = SectionOf(open) /\ sectionStack = <<>>
        /\ open # <<>> /\ open[Len(open)] = "MediaCodec"
    BY <1>1, XmlParent DEF ElementNames
  <1>3. Nested(open) /\ CodecOpen /\ codecMap = listed
        /\ codecMap \in [CodecNames -> Seq(CodecProperties)]
    BY <1>1 DEF XmlInv, XmlShape, XmlConstants
  <1>4. Within(open, Groups) /\ Within(open, {"MediaCodec"})
    BY <1>1, <1>2, <1>3, Ends
  <1>5. section \in {"decoder", "encoder"}
    BY <1>2, <1>4 DEF SectionOf
  <1>6. PICK c \in CodecNames : currentCodec = <<c>> /\ codecMap[c] # <<>>
    BY <1>3, <1>4 DEF CodecOpen
  <1>7. /\ codecMap' = [codecMap EXCEPT ![c] =
                          [codecMap[c] EXCEPT ![1] = [codecMap[c][1] EXCEPT ![field] = value]]]
        /\ listed' = codecMap'
    <2>1. currentCodec[1] = c
      BY <1>6
    <2> QED
      BY <1>3, <1>5, <2>1 DEF Xml!StartLimit
  <1> DEFINE new == [codecMap[c] EXCEPT ![1] = [codecMap[c][1] EXCEPT ![field] = value]]
  <1>8. new \in Seq(CodecProperties) /\ Len(new) = 1 /\ new # <<>>
    <2>1. Len(codecMap[c]) = 1 /\ codecMap[c][1] \in CodecProperties /\ codecMap[c] \in Seq(CodecProperties)
      BY <1>3, <1>6 DEF XmlInv, XmlShape, XmlConstants
    <2>2. [codecMap[c][1] EXCEPT ![field] = value] \in CodecProperties
      BY <2>1
    <2> QED
      BY <2>1, <2>2
  <1> HIDE DEF new
  <1>9. /\ codecMap' \in [CodecNames -> Seq(CodecProperties)] /\ codecMap'[c] = new
        /\ \A d \in CodecNames : Len(codecMap'[d]) <= 1
    BY <1>3, <1>7, <1>8 DEF new, XmlInv, XmlShape, XmlConstants
  <1>10. /\ open' \in Seq(ElementNames) /\ Len(open') = Len(open) + 1 /\ ~EndsWithInclude(open')
         /\ \A marks : Within(open', marks) <=> Within(open, marks) \/ "Limit" \in marks
         /\ Nested(open')
    BY <1>1, <1>2, <1>3, Opens DEF Groups
  <1>11. XmlShape'
    BY <1>1, <1>9, <1>10 DEF XmlInv, XmlShape, XmlConstants
  <1>12. SectionOf(open') = SectionOf(open)
    BY <1>10 DEF SectionOf, Groups
  <1>13. SectionKept' /\ CodecOpen'
    BY <1>1, <1>2, <1>6, <1>8, <1>9, <1>10, <1>12 DEF SectionKept, CodecOpen
  <1> QED
    BY <1>7, <1>10, <1>11, <1>13 DEF XmlInv

LEMMA XmlStartInclude ==
    ASSUME XmlInv, NEW file \in {"read", "missing", "refused"}, Xml!StartInclude(file)
    PROVE  XmlInv'
  <1> DEFINE s == Append(open, "Include")
  <1>1. /\ parsingStatus = "ok" /\ elements' = elements + 1
        /\ elements < MaxElements /\ Len(open) + 1 < MaxDepth
        /\ Xml!Parent \in {"file", "Other", "Decoders", "Encoders"} /\ open \in Seq(ElementNames)
        /\ parsingStatus' \in {"ok", "bad", "notfound"}
        /\ UNCHANGED <<section, sectionStack, codecMap, currentCodec, listed>>
        /\ {"Include", "file"} \subseteq ElementNames
    BY DEF Xml!StartInclude, XmlInv, XmlShape, XmlConstants, ElementNames
  <1>2. open' = Append(s, "file")
    BY <1>1 DEF Xml!StartInclude
  <1> HIDE DEF s
  <1>3. ~EndsWithInclude(open) /\ section = SectionOf(open) /\ sectionStack = <<>>
    BY <1>1, XmlParent DEF ElementNames
  <1>4. Nested(open) /\ CodecOpen /\ codecMap = listed
    BY <1>1 DEF XmlInv
  <1>5. /\ s \in Seq(ElementNames) /\ Len(s) = Len(open) + 1 /\ EndsWithInclude(s) /\ Nested(s)
        /\ \A marks : Within(s, marks) <=> Within(open, marks) \/ "Include" \in marks
    BY <1>1, <1>3, <1>4, Opens DEF s, Groups
  <1>6. /\ open' \in Seq(ElementNames) /\ Len(open') = Len(s) + 1 /\ ~EndsWithInclude(open')
        /\ Nested(open')
        /\ \A marks : Within(open', marks) <=> Within(s, marks) \/ "file" \in marks
    BY <1>1, <1>2, <1>5, Opens DEF Groups
  <1>7. SectionOf(open') = SectionOf(open) /\ (Within(open', {"MediaCodec"}) <=> Within(open, {"MediaCodec"}))
    BY <1>5, <1>6 DEF SectionOf, Groups
  <1>8. SectionKept' /\ CodecOpen'
    BY <1>1, <1>3, <1>4, <1>6, <1>7 DEF SectionKept, CodecOpen
  <1>9. XmlShape'
    BY <1>1, <1>5, <1>6 DEF XmlInv, XmlShape, XmlConstants
  <1> QED
    BY <1>1, <1>4, <1>6, <1>8, <1>9 DEF XmlInv

LEMMA XmlEndOfFile == ASSUME XmlInv, Xml!EndOfFile PROVE XmlInv'
  <1>1. /\ parsingStatus = "ok" /\ open # <<>> /\ open[Len(open)] = "file" /\ open' = Xml!Front(open)
        /\ sectionStack' = Append(sectionStack, section) /\ section' = "include"
        /\ UNCHANGED <<parsingStatus, codecMap, currentCodec, elements, listed>>
        /\ open \in Seq(ElementNames)
    BY XmlNames DEF Xml!EndOfFile, Xml!Kept, XmlInv, XmlShape, XmlConstants
  <1>2. Nested(open) /\ SectionKept /\ CodecOpen /\ codecMap = listed
    BY <1>1 DEF XmlInv
  <1>3. section = SectionOf(open) /\ sectionStack = <<>>
    BY <1>1, <1>2 DEF SectionKept, EndsWithInclude
  <1>4. /\ open' \in Seq(ElementNames) /\ Len(open') <= Len(open) /\ Nested(open')
        /\ EndsWithInclude(open')
        /\ \A marks : "file" \notin marks => (Within(open', marks) <=> Within(open, marks))
    BY <1>1, <1>2, Ends
  <1>5. SectionOf(open') = SectionOf(open) /\ (Within(open', {"MediaCodec"}) <=> Within(open, {"MediaCodec"}))
    BY <1>4 DEF SectionOf, Groups
  <1>6. SectionKept' /\ CodecOpen'
    BY <1>1, <1>2, <1>3, <1>4, <1>5 DEF SectionKept, CodecOpen
  <1>7. XmlShape'
    BY <1>1, <1>4 DEF XmlInv, XmlShape, XmlConstants
  <1> QED
    BY <1>1, <1>2, <1>4, <1>6, <1>7 DEF XmlInv

LEMMA XmlEndElement == ASSUME XmlInv, Xml!EndElement PROVE XmlInv'
  <1> DEFINE name == open[Len(open)]
             back == name = "Include" /\ section = "include" /\ sectionStack # <<>>
             leaves == \/ name \in Groups /\ section = Xml!Group[name]
                       \/ name = "MediaCodec" /\ section \in {"decoder", "encoder"}
  <1>1. /\ parsingStatus = "ok" /\ open # <<>> /\ name # "file" /\ open' = Xml!Front(open)
        /\ UNCHANGED <<parsingStatus, codecMap, currentCodec, elements, listed>>
        /\ open \in Seq(ElementNames)
        /\ section' = CASE back -> sectionStack[Len(sectionStack)]
                        [] leaves /\ name # "MediaCodec" -> "toplevel"
                        [] leaves /\ section = "decoder" -> "decoders"
                        [] leaves /\ section = "encoder" -> "encoders"
                        [] OTHER -> section
        /\ sectionStack' = IF back THEN SubSeq(sectionStack, 1, Len(sectionStack) - 1) ELSE sectionStack
    <2>1. open \in Seq(ElementNames)
      BY DEF XmlInv, XmlShape, XmlConstants
    <2> QED
      BY <2>1, XmlNames DEF Xml!EndElement, Xml!Last, Xml!Front
  <1>2. Nested(open) /\ SectionKept /\ CodecOpen /\ codecMap = listed
    BY <1>1 DEF XmlInv
  <1>3. /\ open' \in Seq(ElementNames) /\ Len(open') <= Len(open) /\ Nested(open')
        /\ ~EndsWithInclude(open') /\ name \in ElementNames
        /\ \A marks : name \notin marks => (Within(open', marks) <=> Within(open, marks))
        /\ name = "MediaCodec" => /\ ~Within(open', {"MediaCodec"}) /\ Within(open', Groups)
                                  /\ Within(open, {"MediaCodec"}) /\ Within(open, Groups)
        /\ name \in Groups => /\ ~Within(open', {"MediaCodec"}) /\ ~Within(open', Groups)
                              /\ ~Within(open, {"MediaCodec"}) /\ Within(open, Groups)
                              /\ Within(open, {"Encoders"}) <=> name = "Encoders"
    BY <1>1, <1>2, Ends
  <1> HIDE DEF name
  <1>4. section' = SectionOf(open') /\ sectionStack' = <<>>
    <2>1. CASE name = "Include"
      <3>1. section = "include" /\ sectionStack = <<SectionOf(open)>>
        BY <1>1, <1>2, <2>1 DEF SectionKept, EndsWithInclude, name
      <3>2. back /\ sectionStack[Len(sectionStack)] = SectionOf(open)
            /\ SubSeq(sectionStack, 1, Len(sectionStack) - 1) = <<>>
        BY <2>1, <3>1
      <3>3. SectionOf(open') = SectionOf(open)
        BY <1>3, <2>1 DEF SectionOf, Groups
      <3>4. ~leaves
        BY <2>1 DEF Groups
      <3> QED
        BY <1>1, <3>2, <3>3, <3>4
    <2>2. CASE name # "Include"
      <3>1. section = SectionOf(open) /\ sectionStack = <<>> /\ ~back
        BY <1>1, <1>2, <2>2 DEF SectionKept, EndsWithInclude, name
      <3>2. CASE name \in Groups
        <4>1. /\ name = "Decoders" => section = "decoders"
              /\ name = "Encoders" => section = "encoders"
              /\ name \in {"Decoders", "Encoders"} /\ SectionOf(open') = "toplevel"
          BY <1>3, <3>1, <3>2 DEF SectionOf, Groups
        <4>2. leaves /\ name # "MediaCodec"
          BY <1>1, <4>1, XmlNames DEF Groups
        <4> QED
          BY <1>1, <3>1, <4>1, <4>2
      <3>3. CASE name = "MediaCodec"
        <4>1. /\ section = IF Within(open, {"Encoders"}) THEN "encoder" ELSE "decoder"
              /\ SectionOf(open') = IF Within(open, {"Encoders"}) THEN "encoders" ELSE "decoders"
          BY <1>3, <3>1, <3>3 DEF SectionOf, Groups
        <4>2. leaves
          BY <3>3, <4>1
        <4> QED
          BY <1>1, <3>1, <3>3, <4>1, <4>2
      <3>4. CASE name \notin Groups \cup {"MediaCodec"}
        <4>1. SectionOf(open') = SectionOf(open) /\ ~leaves
          BY <1>3, <3>4 DEF SectionOf, Groups
        <4> QED
          BY <1>1, <3>1, <4>1
      <3> QED
        BY <3>2, <3>3, <3>4
    <2> QED
      BY <2>1, <2>2
  <1>5. Within(open', {"MediaCodec"}) => Within(open, {"MediaCodec"})
    BY <1>3
  <1>6. SectionKept' /\ CodecOpen'
    BY <1>1, <1>2, <1>3, <1>4, <1>5 DEF SectionKept, CodecOpen
  <1>7. XmlShape'
    <2>1. section' \in {"toplevel", "decoders", "decoder", "encoders", "encoder", "include"}
      BY <1>4 DEF SectionOf
    <2> QED
      BY <1>1, <1>3, <2>1 DEF XmlInv, XmlShape, XmlConstants
  <1> QED
    BY <1>1, <1>2, <1>3, <1>6, <1>7 DEF XmlInv

LEMMA XmlStep == ASSUME XmlInv, Xml!Next PROVE XmlInv'
  <1>1. CASE \E element \in {"Decoders", "Encoders", "Other"} : Xml!StartGroup(element)
    BY <1>1, XmlStartGroup
  <1>2. CASE \E name \in CodecNames, attributes \in {"good", "bad"} : Xml!StartMediaCodec(name, attributes)
    BY <1>2, XmlStartMediaCodec
  <1>3. CASE Xml!StartLimit("instances", 2)
    <2>1. \A p \in CodecProperties : [p EXCEPT !["instances"] = 2] \in CodecProperties
      BY DEF CodecProperties
    <2> QED
      BY <1>3, <2>1, XmlStartLimit
  <1>4. CASE Xml!StartLimit("lowPower", TRUE)
    <2>1. \A p \in CodecProperties : [p EXCEPT !["lowPower"] = TRUE] \in CodecProperties
      BY DEF CodecProperties
    <2> QED
      BY <1>4, <2>1, XmlStartLimit
  <1>5. CASE \E file \in {"read", "missing", "refused"} : Xml!StartInclude(file)
    BY <1>5, XmlStartInclude
  <1>6. CASE Xml!EndOfFile
    BY <1>6, XmlEndOfFile
  <1>7. CASE Xml!EndElement
    BY <1>7, XmlEndElement
  <1>8. CASE Xml!Malformed
    BY <1>8 DEF Xml!Malformed, XmlInv, XmlShape, XmlConstants
  <1> QED
    BY <1>1, <1>2, <1>3, <1>4, <1>5, <1>6, <1>7, <1>8 DEF Xml!Next, CodecNames

LEMMA XmlSound == ASSUME XmlInv PROVE TableIsTheDocument
  <1>1. open \in Seq(ElementNames)
    BY DEF XmlInv, XmlShape, XmlConstants
  <1>2. Xml!XmlTypeOK
    BY DEF XmlInv, XmlShape, XmlConstants, Xml!XmlTypeOK, CodecNames
  <1>3. Xml!SectionFollowsElements
    <2> SUFFICES ASSUME parsingStatus = "ok"
                 PROVE  section = IF open # <<>> /\ Xml!Last(open) = "Include" THEN "include"
                                  ELSE SectionOf(open)
      BY <1>1, XmlNames DEF Xml!SectionFollowsElements, SectionOf
    <2> QED
      BY <1>1, XmlNames DEF XmlInv, SectionKept, EndsWithInclude
  <1>4. Xml!TableIsTheDocument
    BY DEF XmlInv, Xml!TableIsTheDocument
  <1> QED
    BY <1>2, <1>3, <1>4 DEF TableIsTheDocument

-----------------------------------------------------------------------------
(* StartCode *)

Starts(i) == { k \in i + 1 .. Len(stream) - 2 : Scan!StartsAt(k) }

\* What is to be found with i bytes passed.
FirstFrom(i, r) ==
    \/ Starts(i) = {} /\ r = Scan!Code(-1, 0, Scan!Least(Scan!Trailing(i), 3))
    \/ \E k \in Starts(i) :
          /\ \A l \in Starts(i) : k <= l
          /\ r = Scan!Found(IF k > i + 1 /\ stream[k - 1] = 0 THEN 3 ELSE 2, Len(stream) - (k + 2))

\* Zeros at the end, of the bytes from i on.
IsTrailing(i, k) ==
    /\ k \in 0 .. Len(stream) - i
    /\ \A j \in Len(stream) - k + 1 .. Len(stream) : stream[j] = 0
    /\ k < Len(stream) - i => stream[Len(stream) - k] # 0

LEMMA TrailingZeros ==
    ASSUME Len(stream) \in Nat, NEW i \in 0 .. Len(stream)
    PROVE  /\ IsTrailing(i, Scan!Trailing(i))
           /\ \A k : IsTrailing(i, k) => k = Scan!Trailing(i)
  <1> DEFINE n == Len(stream) - i
             S == { k \in 0 .. n : k = n \/ stream[Len(stream) - k] # 0 }
  <1>1. n \in Nat /\ n \in S /\ S \in SUBSET Nat
    OBVIOUS
  <1>2. PICK k \in S : \A j \in S : k <= j
    BY <1>1, LeastOf
  <1>3. IsTrailing(i, k)
    <2>1. k \in 0 .. n /\ (k < n => stream[Len(stream) - k] # 0)
      BY <1>2
    <2>2. ASSUME NEW j \in Len(stream) - k + 1 .. Len(stream)
          PROVE  stream[j] = 0
      <3>1. Len(stream) - j \in 0 .. n /\ Len(stream) - j < k /\ Len(stream) - (Len(stream) - j) = j
        BY <1>1, <2>1
      <3>2. Len(stream) - j \notin S
        BY <1>1, <1>2, <3>1
      <3> QED
        BY <3>1, <3>2
    <2> QED
      BY <2>1, <2>2 DEF IsTrailing
  <1>4. IsTrailing(i, Scan!Trailing(i))
    <2>1. \E t \in 0 .. Len(stream) - i :
             /\ \A j \in Len(stream) - t + 1 .. Len(stream) : stream[j] = 0
             /\ t < Len(stream) - i => stream[Len(stream) - t] # 0
      BY <1>3 DEF IsTrailing
    <2> QED
      BY <2>1 DEF IsTrailing, Scan!Trailing
  <1>5. ASSUME NEW a, NEW b, IsTrailing(i, a), IsTrailing(i, b), a < b PROVE FALSE
    <2>1. /\ a \in 0 .. n /\ b \in 0 .. n /\ stream[Len(stream) - a] # 0
          /\ \A j \in Len(stream) - b + 1 .. Len(stream) : stream[j] = 0
      BY <1>1, <1>5 DEF IsTrailing
    <2>2. Len(stream) - a \in Len(stream) - b + 1 .. Len(stream)
      BY <1>1, <1>5, <2>1
    <2> QED
      BY <2>1, <2>2
  <1>6. ASSUME NEW t, IsTrailing(i, t) PROVE t = Scan!Trailing(i)
    <2>1. t \in Int /\ Scan!Trailing(i) \in Int
      BY <1>1, <1>4, <1>6 DEF IsTrailing
    <2>2. ~(t < Scan!Trailing(i)) /\ ~(Scan!Trailing(i) < t)
      BY <1>4, <1>5, <1>6
    <2> QED
      BY <2>1, <2>2
  <1> QED
    BY <1>4, <1>6

LEMMA PassedZeros ==
    ASSUME Len(stream) \in Nat, NEW i \in 0 .. Len(stream) - 3, Scan!Byte(i + 1) = 0
    PROVE  /\ Scan!Passed(i) \in 2 .. Len(stream) - i
           /\ \A l \in 1 .. Scan!Passed(i) - 1 : stream[i + l + 1] = 0
           /\ i + Scan!Passed(i) < Len(stream) => stream[i + Scan!Passed(i) + 1] # 0
  <1> DEFINE n == Len(stream) - i
             S == { k \in 1 .. n : k = n \/ stream[i + k + 1] # 0 }
  <1>1. n \in Nat /\ n >= 3 /\ n \in S /\ S \in SUBSET Nat
    OBVIOUS
  <1>2. PICK j \in S : \A k \in S : j <= k
    BY <1>1, LeastOf
  <1>3. /\ j \in 1 .. n /\ (i + j < Len(stream) => stream[i + j + 1] # 0)
        /\ \A l \in 1 .. j - 1 : stream[i + l + 1] = 0
    <2>1. j \in 1 .. n /\ (i + j < Len(stream) => stream[i + j + 1] # 0)
      BY <1>1, <1>2
    <2>2. ASSUME NEW l \in 1 .. j - 1 PROVE stream[i + l + 1] = 0
      <3>1. l \in 1 .. n /\ l < j
        BY <1>1, <2>1
      <3>2. l \notin S
        BY <1>1, <1>2, <3>1
      <3> QED
        BY <3>1, <3>2
    <2> QED
      BY <2>1, <2>2
  <1> DEFINE p == Scan!Passed(i)
  <1>4. /\ p \in 1 .. Len(stream) - i
        /\ \A l \in 1 .. p - 1 : Scan!Byte(i + l) = 0
        /\ i + p < Len(stream) => Scan!Byte(i + p) # 0
    <2>1. \E k \in 1 .. Len(stream) - i :
             /\ \A l \in 1 .. k - 1 : Scan!Byte(i + l) = 0
             /\ i + k < Len(stream) => Scan!Byte(i + k) # 0
      BY <1>3 DEF Scan!Byte
    <2> QED
      BY <2>1 DEF Scan!Passed
  <1> HIDE DEF p
  <1>5. p # 1
    BY <1>1, <1>4
  <1>6. p \in 2 .. Len(stream) - i
    BY <1>4, <1>5
  <1>7. \A l \in 1 .. p - 1 : stream[i + l + 1] = 0
    BY <1>4 DEF Scan!Byte
  <1>8. i + p < Len(stream) => stream[i + p + 1] # 0
    BY <1>4 DEF Scan!Byte
  <1> QED
    BY <1>6, <1>7, <1>8 DEF p

\* What is found further on is what is found here, when no start code begins on the way and the
\* byte there, or the one before, is not zero.
LEMMA FoundFurtherOn ==
    ASSUME Len(stream) \in Nat, NEW i \in 0 .. Len(stream), NEW m \in 0 .. Len(stream), i < m,
           Starts(i) = Starts(m),
           stream[m] # 0 \/ (m < Len(stream) /\ stream[m + 1] # 0), NEW r, FirstFrom(m, r)
    PROVE  FirstFrom(i, r)
  <1>1. IsTrailing(m, Scan!Trailing(m))
    BY TrailingZeros
  <1>2. IsTrailing(i, Scan!Trailing(m))
    <2> DEFINE k == Scan!Trailing(m)
    <2>1. /\ k \in 0 .. Len(stream) - m
          /\ \A j \in Len(stream) - k + 1 .. Len(stream) : stream[j] = 0
          /\ k < Len(stream) - m => stream[Len(stream) - k] # 0
      BY <1>1 DEF IsTrailing
    <2> HIDE DEF k
    <2>2. k \in 0 .. Len(stream) - i
      BY <2>1
    <2>3. CASE k < Len(stream) - m
      BY <2>1, <2>2, <2>3 DEF IsTrailing, k
    <2>4. CASE k = Len(stream) - m
      <3>1. Len(stream) - k = m
        BY <2>4
      <3>2. \A j \in m + 1 .. Len(stream) : stream[j] = 0
        BY <2>1, <3>1
      <3>3. stream[m] # 0
        BY <3>2
      <3> QED
        BY <2>1, <2>2, <3>1, <3>3 DEF IsTrailing, k
    <2> QED
      BY <2>1, <2>3, <2>4
  <1>3. Scan!Trailing(m) = Scan!Trailing(i)
    BY <1>2, TrailingZeros
  <1>4. CASE Starts(m) = {} /\ r = Scan!Code(-1, 0, Scan!Least(Scan!Trailing(m), 3))
    BY <1>3, <1>4 DEF FirstFrom
  <1>5. ASSUME NEW k \in Starts(m), \A l \in Starts(m) : k <= l,
               r = Scan!Found(IF k > m + 1 /\ stream[k - 1] = 0 THEN 3 ELSE 2, Len(stream) - (k + 2))
        PROVE  FirstFrom(i, r)
    <2>1. k \in m + 1 .. Len(stream) - 2 /\ stream[k] = 0
      BY <1>5 DEF Starts, Scan!StartsAt
    <2>2. k > i + 1
      BY <2>1
    <2>3. k = m + 1 => k - 1 = m /\ stream[m] # 0
      BY <2>1
    <2>4. (k > m + 1 /\ stream[k - 1] = 0) <=> (k > i + 1 /\ stream[k - 1] = 0)
      BY <2>1, <2>2, <2>3
    <2>5. r = Scan!Found(IF k > i + 1 /\ stream[k - 1] = 0 THEN 3 ELSE 2, Len(stream) - (k + 2))
      BY <1>5, <2>4
    <2> QED
      BY <1>5, <2>5 DEF FirstFrom
  <1> QED
    BY <1>4, <1>5 DEF FirstFrom

\* A turn of the loop, with f found further on.
ScanTurn(i, f) ==
    IF i >= Len(stream) - 2 THEN Scan!Code(-1, 0, Scan!Least(Scan!Trailing(i), 3))
    ELSE IF Scan!Byte(i + 1) # 0 THEN f[i + 2]
    ELSE IF i + Scan!Passed(i) = Len(stream) THEN Scan!Code(-1, 0, Scan!Least(Scan!Zeros(i), 3))
    ELSE IF Scan!Zeros(i) >= 2 /\ Scan!Byte(i + Scan!Passed(i)) = 1
         THEN Scan!Found(Scan!Zeros(i), Len(stream) - (i + Scan!Passed(i) + 1))
    ELSE f[i + Scan!Passed(i)]

\* A turn finds the first start code if it is there, and passes over none.
LEMMA ScanTurnFinds ==
    ASSUME Len(stream) \in Nat, NEW i \in 0 .. Len(stream), NEW f,
           \A m \in i + 1 .. Len(stream) : FirstFrom(m, f[m])
    PROVE  FirstFrom(i, ScanTurn(i, f))
  <1>1. CASE i >= Len(stream) - 2
    <2>1. Starts(i) = {}
      BY <1>1 DEF Starts
    <2> QED
      BY <1>1, <2>1 DEF FirstFrom, ScanTurn
  <1>2. CASE i < Len(stream) - 2 /\ Scan!Byte(i + 1) # 0
    <2>1. ScanTurn(i, f) = f[i + 2]
      BY <1>2 DEF ScanTurn
    <2>2. i + 2 \in i + 1 .. Len(stream) /\ i + 2 \in 0 .. Len(stream) /\ i < i + 2
      BY <1>2
    <2>3. stream[i + 2] # 0
      BY <1>2 DEF Scan!Byte
    <2>4. Starts(i) = Starts(i + 2)
      <3>1. ASSUME NEW k \in Starts(i) PROVE k \in Starts(i + 2)
        <4>1. k \in i + 1 .. Len(stream) - 2 /\ stream[k] = 0 /\ stream[k + 1] = 0
          BY <3>1 DEF Starts, Scan!StartsAt
        <4>2. k # i + 1 /\ k # i + 2
          BY <2>3, <4>1
        <4>3. k \in (i + 2) + 1 .. Len(stream) - 2
          BY <4>1, <4>2
        <4> QED
          BY <3>1, <4>3 DEF Starts
      <3>2. ASSUME NEW k \in Starts(i + 2) PROVE k \in Starts(i)
        <4>1. k \in i + 1 .. Len(stream) - 2
          BY <3>2 DEF Starts
        <4> QED
          BY <3>2, <4>1 DEF Starts
      <3> QED
        BY <3>1, <3>2
    <2> QED
      BY <2>1, <2>2, <2>3, <2>4, FoundFurtherOn
  <1>3. CASE i < Len(stream) - 2 /\ Scan!Byte(i + 1) = 0
    <2> DEFINE p == Scan!Passed(i)
               z == Scan!Zeros(i)
    <2>1. i \in 0 .. Len(stream) - 3
      BY <1>3
    <2>2. /\ p \in 2 .. Len(stream) - i
          /\ \A l \in 1 .. p - 1 : stream[i + l + 1] = 0
          /\ i + p < Len(stream) => stream[i + p + 1] # 0
      BY <1>3, <2>1, PassedZeros
    <2>3. z = IF stream[i + 1] = 0 THEN p ELSE p - 1
      BY DEF Scan!Zeros, Scan!Byte
    <2>4. ScanTurn(i, f) = IF i + p = Len(stream) THEN Scan!Code(-1, 0, Scan!Least(z, 3))
                           ELSE IF z >= 2 /\ stream[i + p + 1] = 1
                                THEN Scan!Found(z, Len(stream) - (i + p + 1))
                           ELSE f[i + p]
      <3>1. ~(i >= Len(stream) - 2)
        BY <1>3
      <3> QED
        BY <1>3, <3>1 DEF ScanTurn, Scan!Byte
    <2> HIDE DEF p, z
    \* the bytes passed are zeros
    <2>5. \A k \in i + 2 .. i + p : stream[k] = 0
      <3> TAKE k \in i + 2 .. i + p
      <3>1. k - i - 1 \in 1 .. p - 1 /\ i + (k - i - 1) + 1 = k
        BY <2>2
      <3> QED
        BY <2>2, <3>1
    <2>6. \A k \in Starts(i) : /\ k \in i + 1 .. Len(stream) - 2 /\ k >= i + p - 1
                               /\ stream[k] = 0 /\ stream[k + 1] = 0 /\ stream[k + 2] = 1
      <3> TAKE k \in Starts(i)
      <3>1. /\ k \in i + 1 .. Len(stream) - 2
            /\ stream[k] = 0 /\ stream[k + 1] = 0 /\ stream[k + 2] = 1
        BY DEF Starts, Scan!StartsAt
      <3>2. ~(k + 2 \in i + 2 .. i + p)
        BY <2>5, <3>1
      <3> QED
        BY <2>2, <3>1, <3>2
    <2>7. CASE i + p = Len(stream)
      <3>1. Starts(i) = {}
        BY <2>2, <2>6, <2>7
      <3>2. IsTrailing(i, z)
        <4>1. CASE stream[i + 1] = 0
          <5>1. z = p /\ p \in 0 .. Len(stream) - i /\ ~(z < Len(stream) - i)
            BY <2>2, <2>3, <2>7, <4>1
          <5>2. \A j \in Len(stream) - z + 1 .. Len(stream) : stream[j] = 0
            <6> TAKE j \in Len(stream) - z + 1 .. Len(stream)
            <6>1. j = i + 1 \/ j \in i + 2 .. i + p
              BY <2>7, <5>1
            <6> QED
              BY <2>5, <4>1, <6>1
          <5> QED
            BY <5>1, <5>2 DEF IsTrailing
        <4>2. CASE stream[i + 1] # 0
          <5>1. z = p - 1 /\ z \in 0 .. Len(stream) - i /\ Len(stream) - z = i + 1
            BY <2>2, <2>3, <2>7, <4>2
          <5>2. \A j \in Len(stream) - z + 1 .. Len(stream) : stream[j] = 0
            <6> TAKE j \in Len(stream) - z + 1 .. Len(stream)
            <6>1. j \in i + 2 .. i + p
              BY <2>7, <5>1
            <6> QED
              BY <2>5, <6>1
          <5> QED
            BY <4>2, <5>1, <5>2 DEF IsTrailing
        <4> QED
          BY <4>1, <4>2
      <3>3. z = Scan!Trailing(i)
        BY <3>2, TrailingZeros
      <3> QED
        BY <2>4, <2>7, <3>1, <3>3 DEF FirstFrom
    <2>8. CASE i + p # Len(stream) /\ z >= 2 /\ stream[i + p + 1] = 1
      <3> DEFINE k == i + p - 1
      <3>1. /\ k \in i + 1 .. Len(stream) - 2 /\ k + 1 = i + p /\ k + 2 = i + p + 1 /\ k - 1 = i + p - 2
            /\ p \in Nat
        BY <2>2, <2>8
      <3>2. stream[k + 1] = 0
        BY <2>2, <2>5, <3>1
      <3>3. stream[k] = 0
        <4>1. CASE p = 2
          BY <2>3, <2>8, <4>1
        <4>2. CASE p # 2
          <5>1. k \in i + 2 .. i + p
            BY <2>2, <4>2
          <5> QED
            BY <2>5, <5>1
        <4> QED
          BY <4>1, <4>2
      <3>4. k \in Starts(i) /\ \A l \in Starts(i) : k <= l
        BY <2>6, <2>8, <3>1, <3>2, <3>3 DEF Starts, Scan!StartsAt
      <3>5. Scan!Found(z, Len(stream) - (k + 2)) =
              Scan!Found(IF k > i + 1 /\ stream[k - 1] = 0 THEN 3 ELSE 2, Len(stream) - (k + 2))
        <4>1. (k > i + 1 /\ stream[k - 1] = 0) <=> z >= 3
          <5>1. CASE p = 2
            BY <2>3, <3>1, <5>1
          <5>2. CASE p = 3
            <6>1. k = i + 2 /\ k - 1 = i + 1
              BY <5>2
            <6> QED
              BY <2>3, <3>1, <5>2, <6>1
          <5>3. CASE p > 3
            <6>1. k - 1 \in i + 2 .. i + p
              BY <3>1, <5>3
            <6> QED
              BY <2>3, <2>5, <3>1, <5>3, <6>1
          <5> QED
            BY <2>2, <3>1, <5>1, <5>2, <5>3
        <4>2. z \in Nat
          BY <2>2, <2>3
        <4> HIDE DEF k
        <4>3. CASE z >= 3
          BY <4>1, <4>2, <4>3 DEF Scan!Found, Scan!Least
        <4>4. CASE z = 2
          BY <4>1, <4>2, <4>4
        <4> QED
          BY <2>8, <4>2, <4>3, <4>4
      <3>6. ScanTurn(i, f) = Scan!Found(z, Len(stream) - (k + 2))
        BY <2>4, <2>8, <3>1
      <3> HIDE DEF k
      <3> QED
        BY <3>4, <3>5, <3>6 DEF FirstFrom
    <2>9. CASE i + p # Len(stream) /\ ~(z >= 2 /\ stream[i + p + 1] = 1)
      <3> DEFINE m == i + p
      <3>1. m \in i + 1 .. Len(stream) /\ m \in 0 .. Len(stream) /\ i < m /\ m < Len(stream)
        BY <2>2, <2>9
      <3>2. stream[m + 1] # 0
        BY <2>2, <3>1
      <3>3. ScanTurn(i, f) = f[m]
        BY <2>4, <2>9
      <3>4. Starts(i) = Starts(m)
        <4>1. ASSUME NEW k \in Starts(i) PROVE k \in Starts(m)
          <5>1. /\ k \in i + 1 .. Len(stream) - 2 /\ k >= i + p - 1
                /\ stream[k] = 0 /\ stream[k + 1] = 0 /\ stream[k + 2] = 1
            <6>1. k \in Starts(i)
              OBVIOUS
            <6> QED
              BY <2>6, <6>1, Zenon
          <5>2. k # m
            BY <3>2, <5>1
          <5>3. k # m - 1
            <6> SUFFICES ASSUME k = m - 1 PROVE FALSE
              OBVIOUS
            <6>1. k + 2 = i + p + 1
              BY <2>2
            <6>2. z < 2
              BY <2>2, <2>3, <2>9, <5>1, <6>1
            <6>3. p = 2 /\ stream[i + 1] # 0
              BY <2>2, <2>3, <6>2
            <6>4. k = i + 1
              BY <6>3
            <6> QED
              BY <5>1, <6>3, <6>4
          <5>4. k \in m + 1 .. Len(stream) - 2
            BY <2>2, <5>1, <5>2, <5>3
          <5> QED
            BY <4>1, <5>4 DEF Starts
        <4>2. ASSUME NEW k \in Starts(m) PROVE k \in Starts(i)
          <5>1. k \in i + 1 .. Len(stream) - 2
            BY <2>2, <4>2 DEF Starts
          <5> QED
            BY <4>2, <5>1 DEF Starts
        <4> QED
          BY <4>1, <4>2
      <3> HIDE DEF m
      <3>5. FirstFrom(m, f[m])
        BY <3>1
      <3> QED
        BY <3>1, <3>2, <3>3, <3>4, <3>5, FoundFurtherOn
    <2> QED
      BY <2>7, <2>8, <2>9
  <1> QED
    BY <1>1, <1>2, <1>3

\* One thing is to be found from each place.
LEMMA OneFirst ==
    ASSUME Len(stream) \in Nat, NEW i \in 0 .. Len(stream)
    PROVE  /\ \E r : FirstFrom(i, r)
           /\ \A r, s : FirstFrom(i, r) /\ FirstFrom(i, s) => r = s
  <1>1. Starts(i) \in SUBSET Nat
    BY DEF Starts
  <1>2. \E r : FirstFrom(i, r)
    <2>1. CASE Starts(i) = {}
      BY <2>1 DEF FirstFrom
    <2>2. CASE Starts(i) # {}
      <3>1. \E k \in Starts(i) : \A l \in Starts(i) : k <= l
        BY <1>1, <2>2, LeastOf
      <3> QED
        BY <3>1 DEF FirstFrom
    <2> QED
      BY <2>1, <2>2
  <1>3. \A k, l \in Starts(i) : k <= l /\ l <= k => k = l
    BY <1>1
  <1>4. ASSUME NEW r, NEW s, FirstFrom(i, r), FirstFrom(i, s) PROVE r = s
    BY <1>3, <1>4 DEF FirstFrom
  <1> QED
    BY <1>2, <1>4

\* ReadStartCode finds the first start code of any data.
THEOREM FirstStartCodeFound ==
    ASSUME Len(stream) \in Nat PROVE Scan!FindsFirstStartCode
  <1> DEFINE n == Len(stream)
             Loop(f) == f = [i \in 0 .. n |-> ScanTurn(i, f)]
  <1>1. \E f : Loop(f)
    <2> DEFINE f == [i \in 0 .. n |-> CHOOSE r : FirstFrom(i, r)]
    <2>1. \A i \in 0 .. n : FirstFrom(i, f[i])
      BY OneFirst
    <2>2. \A i \in 0 .. n : f[i] = ScanTurn(i, f)
      <3> TAKE i \in 0 .. n
      <3>1. \A m \in i + 1 .. n : FirstFrom(m, f[m])
        <4> TAKE m \in i + 1 .. n
        <4>1. m \in 0 .. n
          OBVIOUS
        <4> HIDE DEF f
        <4> QED
          BY <2>1, <4>1
      <3> HIDE DEF f
      <3>2. FirstFrom(i, ScanTurn(i, f))
        BY <3>1, ScanTurnFinds
      <3> QED
        BY <2>1, <3>2, OneFirst
    <2>3. f = [i \in 0 .. n |-> f[i]]
      OBVIOUS
    <2> HIDE DEF f
    <2>4. f = [i \in 0 .. n |-> ScanTurn(i, f)]
      BY <2>2, <2>3
    <2> QED
      BY <2>4
  <1> DEFINE from == CHOOSE f : Loop(f)
  <1>2. Loop(from)
    <2> HIDE DEF Loop
    <2> QED
      BY <1>1
  <1>3. Scan!ReadStartCode = from[0]
    BY DEF Scan!ReadStartCode, ScanTurn
  <1> HIDE DEF from
  <1>4. \A i \in 0 .. n : from[i] = ScanTurn(i, from)
    BY <1>2
  <1> DEFINE G == { i \in 0 .. n : FirstFrom(i, from[i]) }
  <1>5. ASSUME NEW i \in 0 .. n, i + 1 .. n \subseteq G
        PROVE  i \in G
    <2>1. \A m \in i + 1 .. n : FirstFrom(m, from[m])
      BY <1>5
    <2> QED
      BY <1>4, <2>1, ScanTurnFinds
  <1>6. 0 .. n \subseteq G
    <2> HIDE DEF n, G
    <2>1. 0 \in Nat /\ n \in Nat
      BY DEF n
    <2> QED
      BY <1>5, <2>1, DownInduction
  <1>7. FirstFrom(0, from[0])
    <2>1. 0 \in 0 .. n
      OBVIOUS
    <2> QED
      BY <1>6, <2>1
  <1>8. Starts(0) = { k \in 1 .. Len(stream) - 2 : Scan!StartsAt(k) } /\ Starts(0) \in SUBSET Nat
    BY DEF Starts
  <1>9. CASE Starts(0) = {} /\ from[0] = Scan!Code(-1, 0, Scan!Least(Scan!Trailing(0), 3))
    <2>1. Scan!FirstStart = 0
      BY <1>8, <1>9 DEF Scan!FirstStart
    <2> QED
      BY <1>3, <1>9, <2>1 DEF Scan!FindsFirstStartCode
  <1>10. ASSUME NEW k \in Starts(0), \A l \in Starts(0) : k <= l,
                from[0] = Scan!Found(IF k > 0 + 1 /\ stream[k - 1] = 0 THEN 3 ELSE 2, Len(stream) - (k + 2))
         PROVE  Scan!FindsFirstStartCode
    <2>1. Scan!FirstStart \in Starts(0) /\ \A l \in Starts(0) : Scan!FirstStart <= l
      BY <1>8, <1>10 DEF Scan!FirstStart
    <2>2. Scan!FirstStart = k /\ k # 0
      <3>1. k \in Nat /\ k # 0 /\ Scan!FirstStart \in Nat
        BY <1>8, <2>1
      <3>2. k <= Scan!FirstStart /\ Scan!FirstStart <= k
        BY <1>10, <2>1
      <3> QED
        BY <3>1, <3>2
    <2> QED
      BY <1>3, <1>10, <2>2 DEF Scan!FindsFirstStartCode
  <1> QED
    BY <1>7, <1>9, <1>10 DEF FirstFrom

-----------------------------------------------------------------------------
(* MfxFrameConstructor: what is proved of it in MfxFrameConstructorProofs is of this instance *)

StreamProofs == INSTANCE MfxFrameConstructorProofs WITH Codecs <- {"none", "avc", "hevc"}

LEMMA SameTurns ==
    /\ \A nals, k : Stream!AfterSEI(nals, k) = StreamProofs!AfterSEI(nals, k)
    /\ \A nals, k : Stream!NextTurn(nals, k) = StreamProofs!NextTurn(nals, k)
    /\ \A nals, k, later : Stream!Turn(nals, k, later) = StreamProofs!Turn(nals, k, later)
    /\ Stream!Nothing = StreamProofs!Nothing
  <1>1. \A nals, k : Stream!AfterSEI(nals, k) = StreamProofs!AfterSEI(nals, k)
    BY DEF Stream!AfterSEI, StreamProofs!AfterSEI, Stream!AfterPPS, StreamProofs!AfterPPS, Stream!Passed,
           StreamProofs!Passed, Stream!Type, StreamProofs!Type, Stream!isSEI, StreamProofs!isSEI
  <1>2. \A nals, k : Stream!NextTurn(nals, k) = StreamProofs!NextTurn(nals, k)
    BY <1>1 DEF Stream!NextTurn, StreamProofs!NextTurn
  <1>3. \A nals, k, later : Stream!Turn(nals, k, later) = StreamProofs!Turn(nals, k, later)
    BY <1>1 DEF Stream!Turn, StreamProofs!Turn, Stream!AfterPPS, StreamProofs!AfterPPS, Stream!Passed,
           StreamProofs!Passed, Stream!Type, StreamProofs!Type, Stream!needWaitSEI, StreamProofs!needWaitSEI
  <1>4. Stream!Nothing = StreamProofs!Nothing
    BY DEF Stream!Nothing, StreamProofs!Nothing, Stream!needWaitSEI, StreamProofs!needWaitSEI
  <1> QED
    BY <1>1, <1>2, <1>3, <1>4

LEMMA SameHeaders == \A nals : Stream!FindHeaders(nals) = StreamProofs!FindHeaders(nals)
    BY SameTurns DEF Stream!FindHeaders, StreamProofs!FindHeaders

LEMMA SameLoads ==
    /\ \A nals, flagged, room :
          Stream!LoadHeader(nals, flagged, room) = StreamProofs!LoadHeader(nals, flagged, room)
    /\ \A h, nals, room : Stream!LoadNone(h, nals, room) = StreamProofs!LoadNone(h, nals, room)
  <1>1. \A nals, flagged, room :
           Stream!LoadHeaderBase(nals, flagged, room) = StreamProofs!LoadHeaderBase(nals, flagged, room)
    BY DEF Stream!LoadHeaderBase, StreamProofs!LoadHeaderBase, Stream!Replay, StreamProofs!Replay,
           Stream!Fine, StreamProofs!Fine
  <1>2. \A found, flagged, room :
           Stream!LoadFoundAVC(found, flagged, room) = StreamProofs!LoadFoundAVC(found, flagged, room)
    BY DEF Stream!LoadFoundAVC, StreamProofs!LoadFoundAVC, Stream!LoadHeaderAVC,
           StreamProofs!LoadHeaderAVC, Stream!SaveHeaders, StreamProofs!SaveHeaders, Stream!SaveSEI,
           StreamProofs!SaveSEI, Stream!Both, StreamProofs!Both, Stream!AfterHeaders,
           StreamProofs!AfterHeaders, Stream!Replay, StreamProofs!Replay, Stream!Fine,
           StreamProofs!Fine
  <1>3. \A h, nals, room : Stream!LoadNone(h, nals, room) = StreamProofs!LoadNone(h, nals, room)
    BY DEF Stream!LoadNone, StreamProofs!LoadNone, Stream!LoadBehind, StreamProofs!LoadBehind,
           Stream!Fine, StreamProofs!Fine
  <1> QED
    BY <1>1, <1>2, <1>3, SameHeaders DEF Stream!LoadHeader, StreamProofs!LoadHeader

LEMMA SameStream == (Stream!Init <=> StreamProofs!Init) /\ (Stream!Next <=> StreamProofs!Next)
  <1>1. Stream!Init <=> StreamProofs!Init
    BY DEF Stream!Init, StreamProofs!Init, Stream!Fresh, StreamProofs!Fresh
  <1>2. \A types, flagged, room :
           Stream!AppendFrame(types, flagged, room) <=> StreamProofs!AppendFrame(types, flagged, room)
    BY SameLoads DEF Stream!AppendFrame, StreamProofs!AppendFrame, Stream!Sample, StreamProofs!Sample,
           Stream!ledgerVars, StreamProofs!ledgerVars
  <1>3. \A n : Stream!Decode(n) <=> StreamProofs!Decode(n)
    BY DEF Stream!Decode, StreamProofs!Decode, Stream!Bitstream, StreamProofs!Bitstream,
           Stream!ledgerVars, StreamProofs!ledgerVars
  <1>4. \A room : Stream!Unload(room) <=> StreamProofs!Unload(room)
    BY DEF Stream!Unload, StreamProofs!Unload, Stream!BstBufSync, StreamProofs!BstBufSync,
           Stream!ledgerVars, StreamProofs!ledgerVars
  <1>5. Stream!Reset <=> StreamProofs!Reset
    BY DEF Stream!Reset, StreamProofs!Reset, Stream!ResetConstructor, StreamProofs!ResetConstructor,
           Stream!Complete, StreamProofs!Complete, Stream!Header, StreamProofs!Header
  <1>6. Stream!Next <=> StreamProofs!Next
    BY <1>2, <1>3, <1>4, <1>5
    DEF Stream!Next, StreamProofs!Next, Stream!Load, StreamProofs!Load, Stream!Rooms,
        StreamProofs!Rooms, Stream!KeepRoom, StreamProofs!KeepRoom, Stream!Bitstream,
        StreamProofs!Bitstream, Stream!GiveUp, StreamProofs!GiveUp, Stream!Seek, StreamProofs!Seek,
        Stream!FormatChange, StreamProofs!FormatChange, Stream!Complete, StreamProofs!Complete,
        Stream!ledgerVars, StreamProofs!ledgerVars
  <1> QED
    BY <1>1, <1>6

LEMMA ShortSequences ==
    ASSUME NEW S
    PROVE  \A a, b, c, d \in S : /\ <<a>> \in Seq(S) /\ <<a, b>> \in Seq(S)
                                 /\ <<a, b, c>> \in Seq(S) /\ <<a, b, c, d>> \in Seq(S)
  OBVIOUS

\* Players send the headers in the configuration and in front of the pictures.
LEMMA SamplesAsSent ==
    ASSUME MaxLoads \in Nat, MaxResets \in Nat PROVE StreamProofs!StreamConstants
  <1>0. {"header", "vps", "sps", "pps", "sei", "slice"} \subseteq StreamProofs!UnitTypes
    BY DEF StreamProofs!UnitTypes
  <1>1. ASSUME NEW c \in {"none", "avc", "hevc"}, NEW types \in Config[c]
        PROVE  StreamProofs!IsConfig(c, types)
    <2>1. CASE c = "none"
      <3>1. types = <<"header">>
        BY <2>1 DEF Config
      <3>2. types \in Seq(StreamProofs!UnitTypes)
        BY <1>0, <3>1, ShortSequences
      <3>3. DOMAIN types = {1} /\ types[1] = "header"
        BY <3>1
      <3>4. 1 .. 1 - 1 = {}
        OBVIOUS
      <3> QED
        BY <2>1, <3>2, <3>3, <3>4 DEF StreamProofs!IsConfig, StreamProofs!HeaderTypes
    <2>2. CASE c = "avc"
      <3>1. types \in {<<"sps">>, <<"pps">>}
        BY <2>2 DEF Config
      <3>2. types \in Seq(StreamProofs!UnitTypes)
        BY <1>0, <3>1, ShortSequences
      <3>3. DOMAIN types = {1} /\ types[1] \in {"sps", "pps"}
        BY <3>1
      <3>4. 1 .. 1 - 1 = {}
        OBVIOUS
      <3> QED
        BY <2>2, <3>2, <3>3, <3>4 DEF StreamProofs!IsConfig, StreamProofs!HeaderTypes
    <2>3. CASE c = "hevc"
      <3>1. types = <<"vps", "sps", "pps", "sei">>
        BY <2>3 DEF Config
      <3>2. types \in Seq(StreamProofs!UnitTypes)
        BY <1>0, <3>1, ShortSequences
      <3>3. DOMAIN types = {1, 2, 3, 4}
        BY <3>1
      <3>4. types[1] = "vps" /\ types[2] = "sps" /\ types[3] = "pps" /\ types[4] = "sei"
        BY <3>1
      <3>5. 1 .. 2 - 1 = {1}
        OBVIOUS
      <3>6. \A i \in DOMAIN types : types[i] # "slice"
        BY <3>3, <3>4
      <3>7. types[2] \in {"sps", "pps"} /\ \A i \in 1 .. 2 - 1 : types[i] \notin {"sps", "pps", "sei"}
        BY <3>4, <3>5
      <3> QED
        BY <2>3, <3>2, <3>3, <3>6, <3>7 DEF StreamProofs!IsConfig, StreamProofs!HeaderTypes
    <2> QED
      BY <2>1, <2>2, <2>3
  <1>2. ASSUME NEW c \in {"none", "avc", "hevc"}, NEW types \in Data[c]
        PROVE  StreamProofs!IsData(c, types)
    <2>1. types \in {<<"slice", "slice">>, <<"slice">>, <<"sps", "slice">>, <<"sei", "slice">>,
                     <<"sps", "pps", "slice">>}
      BY DEF Data
    <2>2. types \in Seq(StreamProofs!UnitTypes)
      BY <1>0, <2>1, ShortSequences
    <2>3. c # "none" => types # <<"slice", "slice">>
      BY DEF Data
    <2>4. types # <<"slice", "slice">> => \A i, j \in DOMAIN types : i < j => types[i] # "slice"
      BY <2>1
    <2> QED
      BY <2>2, <2>3, <2>4 DEF StreamProofs!IsData
  <1> QED
    BY <1>1, <1>2 DEF StreamProofs!StreamConstants

-----------------------------------------------------------------------------
(* The theorems *)

PoolProofs == INSTANCE MfxPoolProofs WITH Threads <- PoolThreads

\* A step of the whole is, for each part, a step of it or none.
LEMMA PartSteps ==
    ASSUME [Next]_vars
    PROVE  /\ [Pool!Next]_poolVars
           /\ [Surfaces!Next]_surfaceVars
           /\ [Store!Next]_storeVars
           /\ [Input!Next]_inputVars
           /\ [DecoderParams!Next]_decoderVars
           /\ [EncoderParams!Next]_encoderVars
           /\ [Stream!Next]_streamVars
           /\ [Scan!Next]_scanVars
           /\ [Va!Next]_vaVars
           /\ [Xml!Next]_xmlVars
           /\ UNCHANGED part
  BY DEF Next, vars

\* The memory the decoder writes to is nobody else's, and what it may still read or output is
\* held: AllocateFrame, DecodeFrame, WaitWork, HandleFormatChange and Flush, however they
\* interleave with the decoder and the client.
THEOREM SurfacesKept == ASSUME SurfacesConstants PROVE Spec => []SurfacesNotOverwritten
  <1>1. Init => SurfacesInv
    BY SurfacesInit DEF Init, SurfacesConstants
  <1>2. ASSUME SurfacesInv, [Next]_vars PROVE SurfacesInv'
    <2>1. CASE Surfaces!Next
      BY <1>2, <2>1, SurfacesStep
    <2>2. CASE UNCHANGED surfaceVars
      <3>1. UNCHANGED <<surfaceVars, Surfaces!Waiting, Surfaces!Made>>
        BY <2>2 DEF surfaceVars, Surfaces!Waiting, Surfaces!Made
      <3>2. Surfaces!SurfaceTypeOK' /\ Surfaces!NotOverwritten'
        BY <1>2, <3>1 DEF surfaceVars, SurfacesInv, Surfaces!SurfaceTypeOK,
                          Surfaces!NotOverwritten, Surfaces!BuffersOf
      <3> QED
        BY <1>2, <3>1, <3>2 DEF surfaceVars, SurfacesInv, FlushIsApart, CurrentSurfaces,
                                OutputOnce, OneFrame, LockedIsHeld, WorkIsApart
    <2> QED
      BY <1>2, <2>1, <2>2, PartSteps
  <1>3. SurfacesInv => SurfacesNotOverwritten
    <2> SUFFICES ASSUME SurfacesInv, part = "surfaces" PROVE Surfaces!KeptWhileLocked
      BY DEF SurfacesInv, SurfacesNotOverwritten
    <2> QED
      BY DEF SurfacesInv, LockedIsHeld, Surfaces!KeptWhileLocked
  <1> QED
    BY <1>1, <1>2, <1>3, PTL DEF Spec

\* No more components of a name run than its limit, the count is the number of components, and
\* the code of a component stays loaded, whatever threads create, start, stop and delete.
THEOREM ComponentsCounted == ASSUME MaxMade \in Nat PROVE Spec => []RunningWithinLimit
  <1>1. Init => StoreInv
    BY StoreInit DEF Init
  <1>2. ASSUME StoreInv, [Next]_vars PROVE StoreInv'
    <2>1. CASE Store!Next
      BY <1>2, <2>1, StoreStep
    <2>2. CASE UNCHANGED storeVars
      BY <1>2, <2>2 DEF storeVars, StoreInv, Store!StoreTypeOK, StoreShape, ComponentsHeld, Counted,
                        Store!CountIsExact, Store!RunningWithinLimit, Store!Limit, Holders, OpenedBy
    <2> QED
      BY <1>2, <2>1, <2>2, PartSteps
  <1>3. StoreInv => RunningWithinLimit
    BY HoldersHaveOpened DEF StoreInv, Counted, RunningWithinLimit
  <1> QED
    BY <1>1, <1>2, <1>3, PTL DEF Spec

\* An item of a pool is in one place, and none enters a pool whose destructor has returned: what
\* MfxPoolProofs proves of any pool.
THEOREM PoolItemsInOnePlace ==
    ASSUME PoolProofs!PoolConstants PROVE Spec => []PoolItemsKept
  <1>1. Init => PoolProofs!Init
    BY DEF Init, Pool!Init, PoolProofs!Init, Pool!Pools, PoolProofs!Pools, Pool!Idle,
           PoolProofs!Idle, Pool!Owner, PoolProofs!Owner
  <1>2. Pool!Next <=> PoolProofs!Next
    BY DEF Pool!Next, PoolProofs!Next, Pool!Caller, PoolProofs!Caller, Pool!AppendItem,
           PoolProofs!AppendItem, Pool!Alloc, PoolProofs!Alloc, Pool!AllocWaits,
           PoolProofs!AllocWaits, Pool!AllocWakes, PoolProofs!AllocWakes, Pool!AllocTimesOut,
           PoolProofs!AllocTimesOut, Pool!Take, PoolProofs!Take, Pool!Reset, PoolProofs!Reset,
           Pool!ResetEnds, PoolProofs!ResetEnds, Pool!Release, PoolProofs!Release, Pool!PutBack,
           PoolProofs!PutBack, Pool!LetGo, PoolProofs!LetGo, Pool!Destroy, PoolProofs!Destroy,
           Pool!Pools, PoolProofs!Pools, Pool!Owner, PoolProofs!Owner, Pool!Idle, PoolProofs!Idle,
           Pool!Alive, PoolProofs!Alive, Pool!Held, PoolProofs!Held
  <1>3. [Next]_vars => [PoolProofs!Next]_PoolProofs!poolVars
    BY <1>2, PartSteps DEF poolVars, PoolProofs!poolVars
  <1>4. PoolProofs!Spec => []PoolProofs!PoolTypeOK /\ []PoolProofs!PoolItemsKept
    BY PoolProofs!PoolTypeCorrect, PoolProofs!PoolKeepsItems
  <1>5. PoolProofs!PoolTypeOK /\ PoolProofs!PoolItemsKept => PoolItemsKept
    BY DEF PoolItemsKept, Pool!PoolTypeOK, PoolProofs!PoolTypeOK, Pool!PoolItemsKept, PoolProofs!PoolItemsKept,
           Pool!ItemInOnePlace, PoolProofs!ItemInOnePlace, Pool!NoneComesBack,
           PoolProofs!NoneComesBack, Pool!Returning, PoolProofs!Returning, Pool!Entering,
           PoolProofs!Entering, Pool!Stored, PoolProofs!Stored, Pool!Gone, PoolProofs!Gone,
           Pool!Once, PoolProofs!Once, Pool!Pools, PoolProofs!Pools, Pool!Owner, PoolProofs!Owner,
           Pool!Idle, PoolProofs!Idle, Pool!Alive, PoolProofs!Alive, Pool!Held, PoolProofs!Held
  <1> QED
    BY <1>1, <1>3, <1>4, <1>5, PTL DEF Spec, PoolProofs!Spec

\* Over restarts and whatever fails, surfaces running out among it, the conversion and the encoder
\* live in the open session, no frame is put in a surface that is read, and one that is read is
\* kept (MFXGetFreeSurfaceIdx, ProcessFrameVpp, RetainLockedFrame).
THEOREM FramesKept == ASSUME InputConstants PROVE Spec => []FrameKeptWhileRead
  <1>1. Init => InputInv
    BY InputInit DEF Init
  <1>2. ASSUME InputInv, [Next]_vars PROVE InputInv'
    <2>1. CASE Input!Next
      BY <1>2, <2>1, InputStep
    <2>2. CASE UNCHANGED inputVars
      BY <1>2, <2>2 DEF inputVars, InputInv, Input!InputTypeOK, InputShape, ReadOnce, SessionStays,
                        Input!OnOpenSession, Input!FrameKeptWhileRead, Input!Locked
    <2> QED
      BY <1>2, <2>1, <2>2, PartSteps
  <1>3. InputInv => FrameKeptWhileRead
    BY DEF InputInv, FrameKeptWhileRead
  <1> QED
    BY <1>1, <1>2, <1>3, PTL DEF Spec

\* A decoder is opened for surfaces only on the session that has the allocator, converts frames of
\* 10 bits on the session that is open, and has told or will tell the client the colours of its
\* stream (InitDecoder, InitVPP, HandleFormatChange, WaitWork and the client's config and query).
THEOREM DecodersReady == ASSUME MaxSessions \in Nat \ {0} PROVE Spec => []DecoderReady
  <1>1. Init => DecoderInv
    BY DecoderInit DEF Init
  <1>2. ASSUME DecoderInv, [Next]_vars PROVE DecoderInv'
    <2>1. CASE DecoderParams!Next
      BY <1>2, <2>1, DecoderStep
    <2>2. CASE UNCHANGED decoderVars
      <3>1. DecoderShape' /\ SizesKnown' /\ OpenSinceStart' /\ DefaultIsClients' /\ FilterOfSession'
        BY <2>2, <1>2 DEF decoderVars, DecoderInv, DecoderShape, SizesKnown, OpenSinceStart,
                    DefaultIsClients, FilterOfSession, DecoderParams!EightBitsByDefault
      <3> QED
        BY <1>2, <2>2, <3>1, ColoursStayTold DEF decoderVars, DecoderInv
    <2> QED
      BY <1>2, <2>1, <2>2, PartSteps
  <1>3. DecoderInv => DecoderReady
    BY DecoderIsReady
  <1> QED
    BY <1>1, <1>2, <1>3, PTL DEF Spec

LEMMA EncoderInvariant == ASSUME EncoderConstants PROVE Spec => []EncoderInv
  <1>1. Init => EncoderInv
    BY EncoderInit DEF Init
  <1>2. ASSUME EncoderInv, [Next]_vars PROVE EncoderInv'
    <2>1. CASE EncoderParams!Next
      BY <1>2, <2>1, EncoderStep
    <2>2. CASE UNCHANGED encoderVars
      BY <1>2, <2>2 DEF encoderVars, EncoderInv, SimpleShape, SettingsInv, SettingsShape,
                        LevelFits, LevelFollows, Demanded, OpenInv, OpenShape, MfxShape, QueueInv,
                        BitrateInv, LastComing, EncoderParams!BitrateInForce
    <2> QED
      BY <1>2, <2>1, <2>2, PartSteps
  <1> QED
    BY <1>1, <1>2, PTL DEF Spec

\* The bitrate asked for last is in force as soon as no change is under way, and a level the client
\* has set carries the stream (UpdateC2ParamToMfx, AdjustLevel, the bitrate task, ApplyWorkTunings).
THEOREM BitrateAndLevel == ASSUME EncoderConstants PROVE Spec => []EncoderAsAsked
  <1>1. EncoderInv => EncoderParams!EncoderSettingsTypeOK
    <2> SUFFICES ASSUME EncoderInv PROVE EncoderParams!EncoderSettingsTypeOK
      OBVIOUS
    <2>1. {inside, ctrl, chosen} \subseteq BOOLEAN
      BY DEF EncoderInv, SimpleShape
    <2>2. encoder.opened \in BOOLEAN /\ (encoder.opened => run = "running")
      BY DEF EncoderInv, OpenInv, OpenShape
    <2> QED
      BY <2>1, <2>2 DEF EncoderInv, SimpleShape, SettingsInv, SettingsShape, QueueInv, BitrateInv,
                        EncoderParams!EncoderSettingsTypeOK
  <1>2. EncoderInv => EncoderParams!LevelEnough
    BY DEF EncoderInv, SettingsInv, LevelFits, Demanded, EncoderParams!LevelEnough
  <1>3. EncoderInv => EncoderAsAsked
    BY <1>1, <1>2 DEF EncoderInv, BitrateInv, EncoderAsAsked
  <1> QED
    BY <1>3, EncoderInvariant, PTL

\* A step never moves an opened decoder from system memory to surfaces, and never changes an open
\* encoder but for its bitrate (m_bInitialized_once; the bitrate task, Update).
THEOREM OpenedCodecsStay == ASSUME EncoderConstants PROVE Spec => OpenedStays
  <1>1. [Next]_vars => [once /\ pattern = "system" => pattern' = "system"]_(DecoderParams!settingVars)
    BY PartSteps, PatternStep DEF decoderVars, DecoderParams!settingVars
  <1>2. EncoderInv /\ [Next]_vars =>
          [encoder.opened /\ encoder'.opened =>
             [encoder'.params EXCEPT !.kbps = 0] = [encoder.params EXCEPT !.kbps = 0]
             /\ encoder'.colours = encoder.colours]_(EncoderParams!settingVars)
    BY PartSteps, OnlyBitrateStep DEF encoderVars, EncoderParams!settingVars
  <1> QED
    BY <1>1, <1>2, EncoderInvariant, PTL
    DEF Spec, OpenedStays, DecoderParams!PatternStays, EncoderParams!OnlyBitrateChanges

\* Every object of libva in use is alive, and unless a call of libva failed half way every object
\* alive is in use, whatever order responses, locks and mappings come and go in.
THEOREM ObjectsAccounted == ASSUME VaConstants PROVE Spec => []VaObjectsAccounted
  <1>1. Init => VaInv
    BY VaInit DEF Init
  <1>2. ASSUME VaInv, [Next]_vars PROVE VaInv'
    <2>1. CASE Va!Next
      BY <1>2, <2>1, VaStep
    <2>2. CASE UNCHANGED vaVars
      BY <1>2, <2>2, UsersOf DEF vaVars, VaInv, VaShape, OneUser, InUse
    <2> QED
      BY <1>2, <2>1, <2>2, PartSteps
  <1>3. VaInv => VaObjectsAccounted
    BY VaSound
  <1> QED
    BY <1>1, <1>2, <1>3, PTL DEF Spec

\* Through includes and errors the parser knows which section it is in, and while nothing has gone
\* wrong its table says of every codec what the documents say.
THEOREM TableFollowsDocuments == ASSUME XmlConstants PROVE Spec => []TableIsTheDocument
  <1>1. Init => XmlInv
    BY XmlInit DEF Init
  <1>2. ASSUME XmlInv, [Next]_vars PROVE XmlInv'
    <2>1. CASE Xml!Next
      BY <1>2, <2>1, XmlStep
    <2>2. CASE UNCHANGED xmlVars
      BY <1>2, <2>2 DEF xmlVars, XmlInv, XmlShape, XmlConstants, SectionKept, CodecOpen
    <2> QED
      BY <1>2, <2>1, <2>2, PartSteps
  <1>3. XmlInv => TableIsTheDocument
    BY XmlSound
  <1> QED
    BY <1>1, <1>2, <1>3, PTL DEF Spec

\* The data a decoder is given is in order and, but for what a change of the format drops, whole; it
\* is behind a header after a seek and after such a change, and the header saved is the last one,
\* whatever is loaded, taken, lost for want of room and sought; and the start codes that headers are
\* found by are the first ones, for data of any length.
THEOREM StreamsKept ==
    ASSUME MaxLoads \in Nat, MaxResets \in Nat PROVE Spec => []StreamKept
  <1>1. Init => StreamProofs!Init
    BY SameStream DEF Init
  <1>2. [Next]_vars => [StreamProofs!Next]_StreamProofs!streamVars
    BY SameStream, PartSteps DEF streamVars, StreamProofs!streamVars
  <1>3. StreamProofs!Spec => /\ []StreamProofs!StreamTypeOK /\ []StreamProofs!NothingLost
                             /\ []StreamProofs!HeaderAfterSeek /\ []StreamProofs!LatestHeaderSaved
    BY SamplesAsSent, StreamProofs!StreamTypeCorrect, StreamProofs!StreamIsWhole,
       StreamProofs!PicturesBehindHeaders, StreamProofs!LatestIsSaved
  <1>4. /\ StreamProofs!StreamTypeOK /\ StreamProofs!NothingLost
        /\ StreamProofs!HeaderAfterSeek /\ StreamProofs!LatestHeaderSaved
        => Stream!StreamTypeOK /\ Stream!NothingLost /\ Stream!HeaderAfterSeek /\ Stream!LatestHeaderSaved
    BY DEF Stream!StreamTypeOK, StreamProofs!StreamTypeOK, Stream!States, StreamProofs!States,
           Stream!IsStream, StreamProofs!IsStream, Stream!NothingLost, StreamProofs!NothingLost,
           Stream!Bitstream, StreamProofs!Bitstream, Stream!HeaderAfterSeek,
           StreamProofs!HeaderAfterSeek, Stream!Complete, StreamProofs!Complete,
           Stream!LatestHeaderSaved, StreamProofs!LatestHeaderSaved, Stream!Header,
           StreamProofs!Header
  <1> DEFINE Read == Len(stream) \in Nat /\ stream \in Seq(Bytes)
  <1>5. Init => Read
    BY DEF Init, Scan!Init
  <1>6. Read /\ [Next]_vars => Read'
    BY PartSteps DEF scanVars, Scan!Next, Scan!Grow
  <1>7. Read => Scan!FindsFirstStartCode
    BY FirstStartCodeFound
  <1>8. /\ StreamProofs!StreamTypeOK /\ StreamProofs!NothingLost
        /\ StreamProofs!HeaderAfterSeek /\ StreamProofs!LatestHeaderSaved /\ Read
        => StreamKept
    BY <1>4, <1>7 DEF StreamKept
  <1> HIDE DEF Read
  <1> QED
    BY <1>1, <1>2, <1>3, <1>5, <1>6, <1>8, PTL DEF Spec, StreamProofs!Spec
=============================================================================
