------------------------- MODULE MfxC2ComponentProofs -------------------------
(***************************************************************************)
(* Proofs about MfxC2Component, for any number of calling and reporting    *)
(* threads.                                                                *)
(***************************************************************************)
EXTENDS MfxC2Component, TLAPS

(* Every step of every operation, by the place the thread leaves. *)
LEMMA Steps ==
    ASSUME NEW t \in Threads, Step(t)
    PROVE  \/ StartLimited(t) \/ StartRefused(t) \/ StartCheck(t) \/ StartDone(t)
           \/ StartRolledBack(t)
           \/ ResetCheck(t) \/ StopRefused(t) \/ StopSleep(t) \/ StopCheck(t) \/ StopDone(t)
           \/ ReleaseLock(t) \/ ReleaseSleep(t) \/ ReleaseRefused(t) \/ ReleaseCheck(t)
           \/ ReleaseStopDone(t) \/ ReleaseRolledBack(t) \/ ReleaseHalfDone(t)
           \/ ReleaseDone(t)
           \/ WorkSleep(t) \/ WorkRefused(t) \/ WorkBegin(t)
           \/ ConfigSleep(t) \/ ConfigRefused(t) \/ ConfigBegin(t)
           \/ QueryRefused(t) \/ QueryBegin(t)
           \/ LockedCallDone(t)
           \/ ReportIgnored(t) \/ ReportCheck(t) \/ ReportDone(t)
  BY DEF Step, Start, Stop, Release, Work, Params, Report

(* A step inside an operation begins none. *)
LEMMA StepsAreInside ==
    ASSUME NEW t \in Threads, Step(t)
    PROVE  UNCHANGED calls
  BY Steps DEF StartLimited, StartRefused, StartCheck, StartDone, StartRolledBack,
        ResetCheck, StopRefused, StopSleep, StopCheck, StopDone,
        ReleaseLock, ReleaseSleep, ReleaseRefused, ReleaseCheck, ReleaseStopDone,
        ReleaseRolledBack, ReleaseHalfDone, ReleaseDone, WorkSleep, WorkRefused, WorkBegin,
        ConfigSleep, ConfigRefused, ConfigBegin, QueryRefused, QueryBegin, LockedCallDone,
        ReportIgnored, ReportCheck, ReportDone, SleepUntilStable

-----------------------------------------------------------------------------
(* Type correctness *)

LEMMA TypeStep ==
    ASSUME TypeOK, NEW t \in Threads, Step(t)
    PROVE  TypeOK'
  <1> USE DEF TypeOK, States, Goto
  <1>1. UNCHANGED calls
    BY StepsAreInside
  <1>2. /\ state' \in States
        /\ next' \in States
        /\ service' \in {"down", "up", "freed"}
    BY Steps DEF StartLimited, StartRefused, StartCheck, StartDone, StartRolledBack,
        ResetCheck, StopRefused, StopSleep, StopCheck, StopDone,
        ReleaseLock, ReleaseSleep, ReleaseRefused, ReleaseCheck, ReleaseStopDone,
        ReleaseRolledBack, ReleaseHalfDone, ReleaseDone, WorkSleep, WorkRefused, WorkBegin,
        ConfigSleep, ConfigRefused, ConfigBegin, QueryRefused, QueryBegin, LockedCallDone,
        ReportIgnored, ReportCheck, ReportDone, SleepUntilStable
  <1>3. pc' \in [Threads -> Places]
    <2>1. \/ UNCHANGED pc
          \/ \E place \in Places : pc' = [pc EXCEPT ![t] = place]
      BY Steps DEF Places, Operations, Reports, InAction, HoldsState,
        StartLimited, StartRefused, StartCheck, StartDone, StartRolledBack,
        ResetCheck, StopRefused, StopSleep, StopCheck, StopDone,
        ReleaseLock, ReleaseSleep, ReleaseRefused, ReleaseCheck, ReleaseStopDone,
        ReleaseRolledBack, ReleaseHalfDone, ReleaseDone, WorkSleep, WorkRefused, WorkBegin,
        ConfigSleep, ConfigRefused, ConfigBegin, QueryRefused, QueryBegin, LockedCallDone,
        ReportIgnored, ReportCheck, ReportDone, SleepUntilStable
    <2> QED
      BY <2>1
  <1>4. /\ waiting' \subseteq Threads
        /\ \A u \in waiting' : pc'[u] \in Sleeping
    <2>1. CASE waiting' = {}
      BY <2>1
    <2>2. CASE SleepUntilStable(t) /\ pc[t] \in Sleeping
      BY <2>2 DEF SleepUntilStable
    <2>3. CASE StopSleep(t)
      BY <2>3 DEF StopSleep, Sleeping
    <2>4. CASE UNCHANGED waiting /\ (t \in waiting => UNCHANGED pc) /\
               \A u \in Threads : u # t => pc'[u] = pc[u]
      BY <2>4
    <2>5. CASE StartDone(t) \/ StartRolledBack(t) \/ StopDone(t) \/ ReleaseRolledBack(t)
               \/ ReleaseHalfDone(t) \/ ReleaseDone(t) \/ ReportDone(t)
      BY <2>1, <2>5 DEF StartDone, StartRolledBack, StopDone, ReleaseRolledBack,
          ReleaseHalfDone, ReleaseDone, ReportDone, NotifyAll
    <2>6. CASE ReleaseSleep(t) \/ WorkSleep(t) \/ ConfigSleep(t)
      BY <2>2, <2>6 DEF ReleaseSleep, WorkSleep, ConfigSleep, Sleeping
    <2>7. CASE StartLimited(t) \/ StartRefused(t) \/ StartCheck(t) \/ ResetCheck(t)
               \/ ReleaseLock(t) \/ ReleaseStopDone(t) \/ QueryRefused(t) \/ QueryBegin(t)
               \/ ReportIgnored(t) \/ ReportCheck(t) \/ LockedCallDone(t)
      BY <2>4, <2>7 DEF StartLimited, StartRefused, StartCheck, ResetCheck, ReleaseLock,
          ReleaseStopDone, QueryRefused, QueryBegin, ReportIgnored, ReportCheck,
          LockedCallDone, Sleeping, Reports, HoldsState
    <2>8. CASE StopRefused(t) \/ StopCheck(t) \/ ReleaseRefused(t) \/ ReleaseCheck(t)
               \/ WorkRefused(t) \/ WorkBegin(t) \/ ConfigRefused(t) \/ ConfigBegin(t)
      BY <2>4, <2>8 DEF StopRefused, StopCheck, ReleaseRefused, ReleaseCheck, WorkRefused,
          WorkBegin, ConfigRefused, ConfigBegin, Awake, AtStop, Sleeping
    <2> QED
      BY Steps, <2>3, <2>5, <2>6, <2>7, <2>8
  <1> QED
    BY <1>1, <1>2, <1>3, <1>4

\* Type correctness of the state machine's variables; a thread blocked on
\* m_condStateStable is inside an operation that waits there.
THEOREM TypeCorrect == Spec => []TypeOK
<1>1. Init => TypeOK
  BY ConstantsAssumption DEF Init, TypeOK, States, Places
<1>2. TypeOK /\ [Next]_vars => TypeOK'
  <2> SUFFICES ASSUME TypeOK, [Next]_vars
               PROVE  TypeOK'
    OBVIOUS
  <2>1. ASSUME NEW t \in Threads, NEW op \in Operations \cup Reports, Call(t, op)
        PROVE  TypeOK'
    <3>1. /\ pc' \in [Threads -> Places]
          /\ calls' \in [Threads -> 0 .. MaxCalls]
      BY <2>1, ConstantsAssumption DEF TypeOK, Call, Goto, Places
    <3>2. t \notin waiting
      BY <2>1 DEF TypeOK, Call, Sleeping
    <3> QED
      BY <2>1, <3>1, <3>2 DEF TypeOK, Call, Goto
  <2>2. ASSUME NEW t \in Threads, SpuriousWakeup(t)
        PROVE  TypeOK'
    BY <2>2 DEF TypeOK, SpuriousWakeup
  <2>3. CASE UNCHANGED vars
    BY <2>3 DEF TypeOK, vars
  <2> QED
    BY <2>1, <2>2, <2>3, TypeStep DEF Next, Threads
<1> QED
  BY <1>1, <1>2, PTL DEF Spec

-----------------------------------------------------------------------------
(* The virtual calls exclude each other *)

(* Until the first report a transition belongs to the one thread that announced *)
(* it in m_nextState; what that thread is doing determines m_state, m_nextState *)
(* and the component's threads.                                                 *)
OwnerKnows ==
    \A t \in Threads :
       /\ pc[t] = "DoStart" => state = "STOPPED" /\ next = "RUNNING" /\ service = "down"
       /\ pc[t] = "Resume" => state = "TRIPPED" /\ next = "RUNNING" /\ service = "up"
       /\ pc[t] \in {"DoStop", "DoAbort"} =>
             state \in RunningStates /\ next = "STOPPED" /\ service = "up"
       /\ pc[t] = "ReleaseStop" =>
             state \in RunningStates /\ next = "RELEASED" /\ service = "up"
       /\ pc[t] = "ReleaseStopped" =>
             state \in RunningStates /\ next = "RELEASED" /\ service = "down"
       /\ pc[t] = "Releasing" =>
             state = "STOPPED" /\ next = "RELEASED" /\ service = "down"

NoReport == \A t \in Threads : pc[t] \notin Reports \cup {"Pause"}

OneOwner == \A t, u \in Threads : pc[t] \in InAction /\ pc[u] \in InAction => t = u

OneLockHolder ==
    /\ \A t, u \in Threads : pc[t] \in HoldsState /\ pc[u] \in HoldsState => t = u
    /\ \A t, u \in Threads : pc[t] \in HoldsRelease /\ pc[u] \in HoldsRelease => t = u

TransitionHasOwner == ~Stable => \E t \in Threads : pc[t] \in InAction

LockedMeansStable == (\E t \in Threads : pc[t] \in HoldsState) => Stable

QueryAlive == (\E t \in Threads : pc[t] = "UpdateMfxParamToC2") => service # "freed"

SerialInv == /\ NoReport
             /\ OwnerKnows
             /\ OneOwner
             /\ OneLockHolder
             /\ TransitionHasOwner
             /\ LockedMeansStable
             /\ ServiceMatchesState
             /\ WorkOnlyWhenUp
             /\ QueryAlive

LEMMA SerialInit == Init => SerialInv
  BY DEF Init, SerialInv, NoReport, OwnerKnows, OneOwner, OneLockHolder, TransitionHasOwner,
         LockedMeansStable, ServiceMatchesState, WorkOnlyWhenUp, QueryAlive, Stable,
         InAction, HoldsState, HoldsRelease, Reports, RunningStates

(* Steps that only move a thread between places outside every action and lock, *)
(* or out of a lock.                                                            *)
LEMMA SerialQuiet ==
    ASSUME TypeOK, SerialInv, NEW t \in Threads, NEW place \in Places,
           pc' = [pc EXCEPT ![t] = place],
           pc[t] \notin InAction,
           place \notin InAction \cup HoldsState \cup HoldsRelease \cup Reports,
           UNCHANGED <<state, next, service>>
    PROVE  SerialInv'
  BY DEF TypeOK, SerialInv, NoReport, OwnerKnows, OneOwner, OneLockHolder,
         TransitionHasOwner, LockedMeansStable, ServiceMatchesState, WorkOnlyWhenUp,
         QueryAlive, Stable, InAction, HoldsState, HoldsRelease, Reports, RunningStates

(* A transition begins: the state mutex is free and the state is stable. *)
LEMMA SerialBegin ==
    ASSUME TypeOK, SerialInv, NEW t \in Threads,
           StartCheck(t) \/ StopCheck(t) \/ ReleaseCheck(t)
    PROVE  SerialInv'
  <1> USE DEF TypeOK, SerialInv, NoReport, OwnerKnows, OneOwner, OneLockHolder,
         TransitionHasOwner, LockedMeansStable, ServiceMatchesState, WorkOnlyWhenUp,
         QueryAlive, Stable, InAction, HoldsState, HoldsRelease, Reports, RunningStates,
         StateMutexFree, Goto, States
  <1>1. \A u \in Threads : pc[u] \notin InAction
    BY DEF StartCheck, StopCheck, ReleaseCheck
  <1>2. CASE StartCheck(t)
    BY <1>1, <1>2 DEF StartCheck
  <1>3. CASE StopCheck(t)
    BY <1>1, <1>3 DEF StopCheck, AtStop
  <1>4. CASE ReleaseCheck(t)
    BY <1>1, <1>4 DEF ReleaseCheck
  <1> QED
    BY <1>2, <1>3, <1>4

(* A transition ends, or the stop that is a part of a release does. *)
LEMMA SerialEnd ==
    ASSUME TypeOK, SerialInv, NEW t \in Threads,
           \/ StartDone(t) \/ StartRolledBack(t) \/ StopDone(t)
           \/ ReleaseStopDone(t) \/ ReleaseRolledBack(t) \/ ReleaseHalfDone(t)
           \/ ReleaseDone(t)
    PROVE  SerialInv'
  <1> USE DEF TypeOK, SerialInv, NoReport, OwnerKnows, OneOwner, OneLockHolder,
         TransitionHasOwner, LockedMeansStable, ServiceMatchesState, WorkOnlyWhenUp,
         QueryAlive, Stable, InAction, HoldsState, HoldsRelease, Reports, RunningStates,
         StateMutexFree, Goto, States
  <1>1. CASE StartDone(t)
    BY <1>1 DEF StartDone
  <1>2. CASE StartRolledBack(t)
    BY <1>2 DEF StartRolledBack
  <1>3. CASE StopDone(t)
    BY <1>3 DEF StopDone
  <1>4. CASE ReleaseStopDone(t)
    BY <1>4 DEF ReleaseStopDone
  <1>5. CASE ReleaseRolledBack(t)
    BY <1>5 DEF ReleaseRolledBack
  <1>6. CASE ReleaseHalfDone(t)
    BY <1>6 DEF ReleaseHalfDone
  <1>7. CASE ReleaseDone(t)
    BY <1>7 DEF ReleaseDone
  <1> QED
    BY <1>1, <1>2, <1>3, <1>4, <1>5, <1>6, <1>7

(* A lock is taken. *)
LEMMA SerialLock ==
    ASSUME TypeOK, SerialInv, NEW t \in Threads,
           ReleaseLock(t) \/ WorkBegin(t) \/ ConfigBegin(t) \/ QueryBegin(t)
    PROVE  SerialInv'
  <1> USE DEF TypeOK, SerialInv, NoReport, OwnerKnows, OneOwner, OneLockHolder,
         TransitionHasOwner, LockedMeansStable, ServiceMatchesState, WorkOnlyWhenUp,
         QueryAlive, Stable, InAction, HoldsState, HoldsRelease, Reports, RunningStates,
         StateMutexFree, ReleaseMutexFree, Goto, States
  <1>1. CASE ReleaseLock(t)
    BY <1>1 DEF ReleaseLock
  <1>2. CASE WorkBegin(t)
    BY <1>2 DEF WorkBegin
  <1>3. CASE ConfigBegin(t)
    BY <1>3 DEF ConfigBegin
  <1>4. CASE QueryBegin(t)
    BY <1>4 DEF QueryBegin
  <1> QED
    BY <1>1, <1>2, <1>3, <1>4

LEMMA SerialStep ==
    ASSUME TypeOK, SerialInv, NEW t \in Threads, Step(t)
    PROVE  SerialInv'
  <1>1. CASE SleepUntilStable(t)
    BY <1>1 DEF SleepUntilStable, SerialInv, NoReport, OwnerKnows, OneOwner, OneLockHolder,
         TransitionHasOwner, LockedMeansStable, ServiceMatchesState, WorkOnlyWhenUp,
         QueryAlive, Stable
  <1>2. CASE ReleaseSleep(t) \/ WorkSleep(t) \/ ConfigSleep(t)
    BY <1>1, <1>2 DEF ReleaseSleep, WorkSleep, ConfigSleep
  <1>3. CASE \/ StartLimited(t) \/ StartRefused(t) \/ ResetCheck(t) \/ StopRefused(t)
             \/ StopSleep(t) \/ ReleaseRefused(t) \/ WorkRefused(t) \/ ConfigRefused(t)
             \/ QueryRefused(t) \/ LockedCallDone(t)
    <2>1. \E place \in {"idle", "stopAfterReset", "stopWait"} :
             /\ pc' = [pc EXCEPT ![t] = place]
             /\ pc[t] \notin InAction
             /\ UNCHANGED <<state, next, service>>
      BY <1>3 DEF StartLimited, StartRefused, ResetCheck, StopRefused, StopSleep,
          ReleaseRefused, WorkRefused, ConfigRefused, QueryRefused, LockedCallDone, AtStop,
          Goto, InAction, HoldsState
    <2>2. \A place \in {"idle", "stopAfterReset", "stopWait"} :
             /\ place \in Places
             /\ place \notin InAction \cup HoldsState \cup HoldsRelease \cup Reports
      BY DEF Places, InAction, HoldsState, HoldsRelease, Reports
    <2> QED
      BY <2>1, <2>2, SerialQuiet
  <1>4. ~ (ReportIgnored(t) \/ ReportCheck(t) \/ ReportDone(t))
    BY DEF SerialInv, NoReport, ReportIgnored, ReportCheck, ReportDone
  <1> QED
    BY Steps, <1>2, <1>3, <1>4, SerialBegin, SerialEnd, SerialLock

(* A report that begins ends what is promised; no other step brings it back. *)
LEMMA SerialInvariant == Spec => [](Unreported => SerialInv)
<1>1. TypeOK /\ (Unreported => SerialInv) /\ [Next]_vars => (Unreported => SerialInv)'
  <2> SUFFICES ASSUME TypeOK, Unreported => SerialInv, [Next]_vars, Unreported'
               PROVE  SerialInv'
    OBVIOUS
  <2>1. ASSUME NEW t \in Callers, NEW op \in Operations, Call(t, op)
        PROVE  SerialInv'
    <3>1. /\ op \in Places
          /\ op \notin InAction \cup HoldsState \cup HoldsRelease \cup Reports
      BY DEF Operations, Places, InAction, HoldsState, HoldsRelease, Reports
    <3>2. pc[t] \notin InAction
      BY <2>1 DEF Call, InAction
    <3>3. \A r \in Reporters : calls'[r] = calls[r]
      BY <2>1, ConstantsAssumption DEF Call, TypeOK, Threads
    <3>4. SerialInv
      BY <3>3 DEF Unreported
    <3> QED
      BY <2>1, <3>1, <3>2, <3>4, SerialQuiet DEF Call, Goto, Threads
  <2>2. ASSUME NEW t \in Reporters, NEW report \in Reports, Call(t, report)
        PROVE  FALSE
    <3>1. calls'[t] = calls[t] + 1 /\ calls[t] \in Nat
      BY <2>2, ConstantsAssumption DEF Call, TypeOK, Threads
    <3> QED
      BY <3>1 DEF Unreported
  <2>3. ASSUME NEW t \in Threads, Step(t)
        PROVE  SerialInv'
    <3>1. SerialInv
      BY <2>3, StepsAreInside DEF Unreported
    <3> QED
      BY <2>3, <3>1, SerialStep
  <2>4. CASE UNCHANGED <<state, next, pc, service, calls>>
    BY <2>4 DEF Unreported, SerialInv, NoReport, OwnerKnows, OneOwner, OneLockHolder,
         TransitionHasOwner, LockedMeansStable, ServiceMatchesState, WorkOnlyWhenUp,
         QueryAlive, Stable
  <2>5. ASSUME NEW t \in Threads, SpuriousWakeup(t)
        PROVE  SerialInv'
    BY <2>4, <2>5 DEF SpuriousWakeup
  <2>6. CASE UNCHANGED vars
    BY <2>4, <2>6 DEF vars
  <2> QED
    BY <2>1, <2>2, <2>3, <2>5, <2>6 DEF Next
<1> QED
  BY <1>1, SerialInit, TypeCorrect, PTL DEF Spec

\* Until something reports an error, at most one thread is inside a virtual call that changes
\* the component, however many threads call it.
THEOREM VirtualCallsExclude == Spec => []Exclusive
  <1>1. (Unreported => SerialInv) => Exclusive
    BY DEF SerialInv, OwnerKnows, OneOwner, OneLockHolder, LockedMeansStable, NoReport,
           Exclusive, Stable, InAction, HoldsState, RunningStates
  <1> QED
    BY <1>1, SerialInvariant, PTL

\* Until something reports an error, equal m_state and m_nextState mean that no transition is
\* going on, that the component's threads and session are what the state says, and that works
\* reach only a component that is up.
THEOREM StableStateIsSettled == Spec => []StableIsSettled
  <1>1. SerialInv => StableMeansDone
    BY DEF SerialInv, OwnerKnows, NoReport, StableMeansDone, Stable, InAction, RunningStates
  <1>2. SerialInv => ServiceMatchesState /\ WorkOnlyWhenUp
    BY DEF SerialInv
  <1>3. (Unreported => SerialInv) => StableIsSettled
    BY <1>1, <1>2 DEF StableIsSettled
  <1> QED
    BY <1>3, SerialInvariant, PTL

-----------------------------------------------------------------------------
(* Queries and release, whatever is reported *)

OneReleaseHolder ==
    \A t, u \in Threads : pc[t] \in HoldsRelease /\ pc[u] \in HoldsRelease => t = u

(* Once the session is freed m_state and m_nextState are RELEASED, which no call, and no report, *)
(* leaves: whatever ends then makes one of the two equal to the other.                           *)
FreedStays ==
    service = "freed" =>
        /\ state = "RELEASED" /\ next = "RELEASED"
        /\ \A t \in Threads : pc[t] \notin {"ReleaseStop", "ReleaseStopped", "Releasing"}

QueryInv == OneReleaseHolder /\ FreedStays /\ QueryAlive

(* Outside ReleaseLock and QueryBegin no thread comes to hold m_releaseMutex. *)
LEMMA ReleaseHolders ==
    ASSUME TypeOK, NEW t \in Threads, Step(t), ~ReleaseLock(t), ~QueryBegin(t)
    PROVE  \A u \in Threads : /\ pc'[u] \in HoldsRelease => pc[u] \in HoldsRelease
                              /\ u # t => pc'[u] = pc[u]
                              /\ pc'[u] = "UpdateMfxParamToC2" => pc[u] = "UpdateMfxParamToC2"
  <1>1. \A u \in Threads : u # t => pc'[u] = pc[u]
    BY Steps DEF TypeOK, Goto, StartLimited, StartRefused, StartCheck, StartDone, StartRolledBack,
        ResetCheck, StopRefused, StopSleep, StopCheck, StopDone, ReleaseSleep, ReleaseRefused,
        ReleaseCheck, ReleaseStopDone, ReleaseRolledBack, ReleaseHalfDone, ReleaseDone, WorkSleep,
        WorkRefused, WorkBegin, ConfigSleep, ConfigRefused, ConfigBegin, QueryRefused,
        LockedCallDone, ReportIgnored, ReportCheck, ReportDone, SleepUntilStable
  <1>2. /\ pc'[t] \in HoldsRelease => pc[t] \in HoldsRelease
        /\ pc'[t] = "UpdateMfxParamToC2" => pc[t] = "UpdateMfxParamToC2"
    BY Steps DEF TypeOK, Goto, HoldsRelease, StartLimited, StartRefused, StartCheck, StartDone,
        StartRolledBack, ResetCheck, StopRefused, StopSleep, StopCheck, StopDone, ReleaseSleep,
        ReleaseRefused, ReleaseCheck, ReleaseStopDone, ReleaseRolledBack, ReleaseHalfDone,
        ReleaseDone, WorkSleep, WorkRefused, WorkBegin, ConfigSleep, ConfigRefused, ConfigBegin,
        QueryRefused, LockedCallDone, ReportIgnored, ReportCheck, ReportDone, SleepUntilStable
  <1> QED
    BY <1>1, <1>2

LEMMA FreedStep ==
    ASSUME TypeOK, QueryInv, NEW t \in Threads, Step(t)
    PROVE  FreedStays'
  <1> DEFINE Freeing == {"ReleaseStop", "ReleaseStopped", "Releasing"}
  <1>1. CASE ReleaseDone(t)
    <2>1. \A u \in Threads : pc'[u] \notin Freeing
      BY <1>1 DEF ReleaseDone, Goto, TypeOK, QueryInv, OneReleaseHolder, HoldsRelease
    <2> QED
      BY <1>1, <2>1 DEF ReleaseDone, FreedStays
  <1>2. ASSUME ~ReleaseDone(t), service' = "freed"
        PROVE  FreedStays'
    <2>1. service = "freed"
      BY <1>2, Steps DEF StartLimited, StartRefused, StartCheck, StartDone, StartRolledBack,
          ResetCheck, StopRefused, StopSleep, StopCheck, StopDone, ReleaseLock, ReleaseSleep,
          ReleaseRefused, ReleaseCheck, ReleaseStopDone, ReleaseRolledBack, ReleaseHalfDone,
          WorkSleep, WorkRefused, WorkBegin, ConfigSleep, ConfigRefused, ConfigBegin,
          QueryRefused, QueryBegin, LockedCallDone, ReportIgnored, ReportCheck, ReportDone,
          SleepUntilStable
    <2>2. /\ state = "RELEASED" /\ next = "RELEASED"
          /\ \A u \in Threads : pc[u] \notin Freeing
      BY <2>1 DEF QueryInv, FreedStays
    <2>3. ~ (StartCheck(t) \/ StopCheck(t) \/ ReleaseCheck(t) \/ ReportCheck(t)
             \/ ReleaseStopDone(t) \/ ReleaseRolledBack(t) \/ ReleaseHalfDone(t))
      BY <2>2 DEF StartCheck, StopCheck, ReleaseCheck, ReportCheck, RunningStates, LessCritical,
                  ReleaseStopDone, ReleaseRolledBack, ReleaseHalfDone
    <2>4. state' = "RELEASED" /\ next' = "RELEASED"
      BY <1>2, <2>2, <2>3, Steps DEF StartLimited, StartRefused, StartDone, StartRolledBack,
          ResetCheck, StopRefused, StopSleep, StopDone, ReleaseLock, ReleaseSleep,
          ReleaseRefused, WorkSleep, WorkRefused, WorkBegin, ConfigSleep, ConfigRefused,
          ConfigBegin, QueryRefused, QueryBegin, LockedCallDone, ReportIgnored, ReportDone,
          SleepUntilStable
    <2>5. UNCHANGED pc \/ \E place \in Places \ Freeing : pc' = [pc EXCEPT ![t] = place]
      BY <1>2, <2>3, Steps DEF Goto, Places, Operations, Reports, InAction, HoldsState,
          StartLimited, StartRefused, StartDone, StartRolledBack, ResetCheck, StopRefused,
          StopSleep, StopDone, ReleaseLock, ReleaseSleep, ReleaseRefused, WorkSleep, WorkRefused,
          WorkBegin, ConfigSleep, ConfigRefused, ConfigBegin, QueryRefused, QueryBegin,
          LockedCallDone, ReportIgnored, ReportDone, SleepUntilStable
    <2> QED
      BY <2>2, <2>4, <2>5 DEF FreedStays, TypeOK
  <1> QED
    BY <1>1, <1>2 DEF FreedStays

LEMMA QueryInvStep ==
    ASSUME TypeOK, QueryInv, NEW t \in Threads, Step(t)
    PROVE  QueryInv'
  <1>1. CASE ReleaseLock(t) \/ QueryBegin(t)
    <2>1. OneReleaseHolder'
      BY <1>1 DEF ReleaseLock, QueryBegin, ReleaseMutexFree, Goto, TypeOK, OneReleaseHolder,
                  HoldsRelease
    <2>2. QueryAlive'
      BY <1>1 DEF ReleaseLock, QueryBegin, Goto, TypeOK, QueryInv, QueryAlive, FreedStays
    <2> QED
      BY <2>1, <2>2, FreedStep DEF QueryInv
  <1>2. CASE ~ReleaseLock(t) /\ ~QueryBegin(t)
    <2>0. \A u \in Threads : /\ pc'[u] \in HoldsRelease => pc[u] \in HoldsRelease
                             /\ pc'[u] = "UpdateMfxParamToC2" => pc[u] = "UpdateMfxParamToC2"
      <3>1. ~ReleaseLock(t) /\ ~QueryBegin(t)
        BY <1>2
      <3> QED
        BY <3>1, ReleaseHolders
    <2>1. OneReleaseHolder'
      BY <2>0 DEF QueryInv, OneReleaseHolder
    <2>2. QueryAlive'
      <3>1. CASE ReleaseDone(t)
        <4>1. pc[t] \in HoldsRelease /\ pc[t] # "UpdateMfxParamToC2"
          BY <3>1 DEF ReleaseDone, HoldsRelease
        <4>2. \A u \in Threads : pc[u] # "UpdateMfxParamToC2"
          BY <4>1 DEF QueryInv, OneReleaseHolder, HoldsRelease
        <4> QED
          BY <2>0, <4>2 DEF QueryAlive
      <3>2. CASE ~ReleaseDone(t)
        <4>1. service' = "freed" => service = "freed"
          BY <3>2, Steps DEF StartLimited, StartRefused, StartCheck, StartDone, StartRolledBack,
              ResetCheck, StopRefused, StopSleep, StopCheck, StopDone, ReleaseLock, ReleaseSleep,
              ReleaseRefused, ReleaseCheck, ReleaseStopDone, ReleaseRolledBack, ReleaseHalfDone,
              WorkSleep, WorkRefused, WorkBegin, ConfigSleep, ConfigRefused, ConfigBegin,
              QueryRefused, QueryBegin, LockedCallDone, ReportIgnored, ReportCheck, ReportDone,
              SleepUntilStable
        <4> QED
          BY <2>0, <4>1 DEF QueryInv, QueryAlive
      <3> QED
        BY <3>1, <3>2
    <2> QED
      BY <2>1, <2>2, FreedStep DEF QueryInv
  <1> QED
    BY <1>1, <1>2

\* No query overlaps a release or follows it, whatever is called and reported meanwhile: it holds
\* m_releaseMutex, and it reads m_state, without m_stateMutex, after it has that lock.
THEOREM QueryBeforeRelease == Spec => []QueryNeverFreed
  <1>1. Init => QueryInv
    BY DEF Init, QueryInv, OneReleaseHolder, FreedStays, QueryAlive, HoldsRelease
  <1>2. TypeOK /\ QueryInv /\ [Next]_vars => QueryInv'
    <2> SUFFICES ASSUME TypeOK, QueryInv, [Next]_vars
                 PROVE  QueryInv'
      OBVIOUS
    <2>1. ASSUME NEW t \in Threads, NEW op \in Operations \cup Reports, Call(t, op)
          PROVE  QueryInv'
      <3>1. op \notin HoldsRelease /\ op \notin {"ReleaseStop", "ReleaseStopped", "Releasing"}
        BY DEF Operations, Reports, HoldsRelease
      <3>2. \A u \in Threads : pc'[u] = IF u = t THEN op ELSE pc[u]
        BY <2>1 DEF Call, Goto, TypeOK
      <3>3. UNCHANGED <<state, next, service>>
        BY <2>1 DEF Call
      <3> QED
        BY <3>1, <3>2, <3>3 DEF QueryInv, OneReleaseHolder, FreedStays, QueryAlive, HoldsRelease
    <2>2. CASE UNCHANGED <<state, next, pc, service>>
      BY <2>2 DEF QueryInv, OneReleaseHolder, FreedStays, QueryAlive
    <2>3. ASSUME NEW t \in Threads, SpuriousWakeup(t)
          PROVE  QueryInv'
      BY <2>2, <2>3 DEF SpuriousWakeup
    <2>4. CASE UNCHANGED vars
      BY <2>2, <2>4 DEF vars
    <2> QED
      BY <2>1, <2>3, <2>4, QueryInvStep DEF Next, Threads
  <1>3. QueryInv => QueryNeverFreed
    BY DEF QueryInv, OneReleaseHolder, QueryAlive, QueryNeverFreed, HoldsRelease
  <1> QED
    BY <1>1, <1>2, <1>3, TypeCorrect, PTL DEF Spec

-----------------------------------------------------------------------------
(* The state diagram *)

(* What was freed is released, and no transition out of there is open. *)
LEMMA FreedIsReleased ==
    ASSUME TypeOK, SerialInv, service = "freed"
    PROVE  state = "RELEASED" /\ next = "RELEASED"
  <1>1. Stable
    BY DEF SerialInv, TransitionHasOwner, OwnerKnows, NoReport, InAction
  <1> QED
    BY <1>1 DEF TypeOK, SerialInv, ServiceMatchesState, Stable, States, RunningStates

LEMMA ArrowFollowed ==
    ASSUME TypeOK, SerialInv, NEW t \in Threads, Step(t), state' # state
    PROVE  <<state, state'>> \in Arrows
  <1>1. \/ StartDone(t) \/ StopDone(t) \/ ReleaseHalfDone(t) \/ ReleaseDone(t) \/ ReportDone(t)
    BY Steps DEF StartLimited, StartRefused, StartCheck, StartRolledBack,
        ResetCheck, StopRefused, StopSleep, StopCheck,
        ReleaseLock, ReleaseSleep, ReleaseRefused, ReleaseCheck, ReleaseStopDone,
        ReleaseRolledBack, WorkSleep, WorkRefused, WorkBegin,
        ConfigSleep, ConfigRefused, ConfigBegin, QueryRefused, QueryBegin, LockedCallDone,
        ReportIgnored, ReportCheck, SleepUntilStable
  <1>2. CASE StartDone(t)
    BY <1>2 DEF StartDone, SerialInv, OwnerKnows, Arrows
  <1>3. CASE StopDone(t)
    BY <1>3 DEF StopDone, SerialInv, OwnerKnows, Arrows, RunningStates
  <1>4. CASE ReleaseHalfDone(t)
    BY <1>4 DEF ReleaseHalfDone, SerialInv, OwnerKnows, Arrows, RunningStates
  <1>5. CASE ReleaseDone(t)
    BY <1>5 DEF ReleaseDone, TypeOK, Arrows
  <1>6. ~ReportDone(t)
    BY DEF ReportDone, SerialInv, NoReport
  <1> QED
    BY <1>1, <1>2, <1>3, <1>4, <1>5, <1>6

(* Only the thread that is inside a transition changes the service, and only a transition out of *)
(* a stable state other than RELEASED begins.                                                    *)
LEMMA ReleasedForGood ==
    ASSUME TypeOK, SerialInv, NEW t \in Threads, Step(t), service = "freed"
    PROVE  service' = "freed" /\ next' = "RELEASED"
  <1>1. state = "RELEASED" /\ next = "RELEASED"
    BY FreedIsReleased
  <1>2. ~ (StartDone(t) \/ StartRolledBack(t) \/ StopDone(t) \/ ReleaseStopDone(t)
           \/ ReleaseRolledBack(t) \/ ReleaseHalfDone(t) \/ ReleaseDone(t) \/ ReportDone(t))
    BY DEF SerialInv, OwnerKnows, NoReport, StartDone, StartRolledBack, StopDone, ReleaseStopDone,
           ReleaseRolledBack, ReleaseHalfDone, ReleaseDone, ReportDone
  <1>3. ~ (StartCheck(t) \/ StopCheck(t) \/ ReleaseCheck(t) \/ ReportCheck(t))
    BY <1>1 DEF StartCheck, StopCheck, ReleaseCheck, ReportCheck, RunningStates, LessCritical
  <1>4. UNCHANGED <<service, next>>
    BY Steps, <1>2, <1>3 DEF StartLimited, StartRefused, ResetCheck, StopRefused, StopSleep,
        ReleaseLock, ReleaseSleep, ReleaseRefused, WorkSleep, WorkRefused, WorkBegin,
        ConfigSleep, ConfigRefused, ConfigBegin, QueryRefused, QueryBegin, LockedCallDone,
        ReportIgnored, SleepUntilStable
  <1> QED
    BY <1>1, <1>4

\* Until something reports an error, m_state moves along the arrows of the diagram in
\* mfx_c2_component.h only, and no call starts or brings back a component that was released.
THEOREM DiagramIsFollowed == Spec => FollowsDiagram
  <1>1. TypeOK /\ (Unreported => SerialInv) /\ [Next]_vars =>
          [Unreported => /\ state' # state => <<state, state'>> \in Arrows
                         /\ service = "freed" => service' = "freed" /\ next' = "RELEASED"]_vars
    <2> SUFFICES ASSUME TypeOK, SerialInv, Next
                 PROVE  /\ state' # state => <<state, state'>> \in Arrows
                        /\ service = "freed" => service' = "freed" /\ next' = "RELEASED"
      OBVIOUS
    <2>1. CASE UNCHANGED <<state, next, service>>
      BY <2>1, FreedIsReleased
    <2>2. CASE \E t \in Threads : Step(t)
      BY <2>2, ArrowFollowed, ReleasedForGood
    <2> QED
      BY <2>1, <2>2 DEF Next, Call, SpuriousWakeup
  <1> QED
    BY <1>1, TypeCorrect, SerialInvariant, PTL DEF Spec, FollowsDiagram
=============================================================================
