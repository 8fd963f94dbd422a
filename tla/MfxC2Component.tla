--------------------------- MODULE MfxC2Component ---------------------------
(***************************************************************************)
(* MfxC2Component: the state machine every codec component inherits        *)
(* (c2_components/src/mfx_c2_component.cpp).  Any number of threads call   *)
(* the Codec2 operations; internal threads may report errors.              *)
(*                                                                         *)
(* A critical section of m_stateMutex is one action unless the mutex is    *)
(* kept over a virtual call (Queue, Flush, UpdateC2ParamToMfx); the        *)
(* virtual calls made without it (DoStart, DoStop, Pause, Resume, Release) *)
(* take time: they begin in one action and end in a later one.             *)
(***************************************************************************)
EXTENDS Naturals, FiniteSets

CONSTANTS Callers,     \* threads of the framework
          Reporters,   \* internal threads that report ConfigError / FatalError
          MaxCalls,    \* bound: operations called by each thread
          MaxReports,  \* bound: reports by each internal thread
          MayFail      \* virtual calls that may fail, a subset of Fallible

Fallible == {"limit", "DoStart", "DoStop", "Release"}

ASSUME ConstantsAssumption ==
          /\ MaxCalls \in Nat
          /\ MaxReports \in Nat
          /\ MayFail \subseteq Fallible
          /\ Callers \cap Reporters = {}

VARIABLES state,      \* m_state
          next,       \* m_nextState
          pc,         \* where each thread is
          waiting,    \* threads blocked in m_condStateStable.wait
          service,    \* what DoStart, DoStop and Release made of the component's threads
                      \* and session: "down", "up" or "freed"
          calls       \* operations called so far by each thread

vars == <<state, next, pc, waiting, service, calls>>

Threads == Callers \cup Reporters
States == {"STOPPED", "RUNNING", "TRIPPED", "ERROR", "RELEASED"}
RunningStates == {"RUNNING", "TRIPPED", "ERROR"}

Operations == {"start", "stop", "reset", "release", "queue", "flush", "config", "query"}
Reports == {"configError", "fatalError"}

(* A thread that called an operation and has not passed its first critical *)
(* section is at the operation's name.  Further on:                        *)
InAction == {"DoStart", "Resume", "DoStop", "DoAbort", "ReleaseStop", "ReleaseStopped",
             "Releasing", "Pause"}
HoldsState == {"Queue", "Flush", "UpdateC2ParamToMfx"}
HoldsRelease == {"releaseLocked", "ReleaseStop", "ReleaseStopped", "Releasing",
                 "UpdateMfxParamToC2"}
Sleeping == {"stopWait", "releaseLocked", "queue", "flush", "config"}
Places == {"idle", "stopWait", "stopAfterReset", "releaseLocked", "UpdateMfxParamToC2"}
             \cup Operations \cup Reports \cup InAction \cup HoldsState

StateMutexFree == \A t \in Threads : pc[t] \notin HoldsState
ReleaseMutexFree == \A t \in Threads : pc[t] \notin HoldsRelease

\* "If next_state_ != state_ then it is a transition state."
Stable == next = state

Init == /\ state = "STOPPED"
        /\ next = "STOPPED"
        /\ pc = [t \in Threads |-> "idle"]
        /\ waiting = {}
        /\ service = "down"
        /\ calls = [t \in Threads |-> 0]

Goto(t, place) == pc' = [pc EXCEPT ![t] = place]
Awake(t) == t \notin waiting

Call(t, op) == /\ pc[t] = "idle"
               /\ calls[t] < MaxCalls
               /\ calls' = [calls EXCEPT ![t] = @ + 1]
               /\ Goto(t, op)
               /\ UNCHANGED <<state, next, waiting, service>>

\* m_condStateStable.notify_all()
NotifyAll == waiting' = {}

\* m_condStateStable.wait: sleeps unless the state is stable
SleepUntilStable(t) == /\ ~Stable
                       /\ waiting' = waiting \cup {t}
                       /\ UNCHANGED <<state, next, pc, service, calls>>

SpuriousWakeup(t) == /\ t \in waiting
                     /\ waiting' = waiting \ {t}
                     /\ UNCHANGED <<state, next, pc, service, calls>>

-----------------------------------------------------------------------------
(* start() *)

\* C2_NO_MEMORY: more instances than configured (MfxC2ComponentsMonitor)
StartLimited(t) ==
    /\ pc[t] = "start"
    /\ "limit" \in MayFail
    /\ Goto(t, "idle")
    /\ UNCHANGED <<state, next, waiting, service, calls>>

\* C2_DUPLICATE or C2_BAD_STATE
StartRefused(t) ==
    /\ pc[t] = "start"
    /\ StateMutexFree
    /\ ~Stable \/ state \notin {"STOPPED", "TRIPPED"}
    /\ Goto(t, "idle")
    /\ UNCHANGED <<state, next, waiting, service, calls>>

\* Slip: a released component is started again.
StartFromReleased(t) ==
    /\ pc[t] = "start"
    /\ StateMutexFree
    /\ Stable
    /\ state \in {"STOPPED", "TRIPPED", "RELEASED"}
    /\ next' = "RUNNING"
    /\ Goto(t, IF state = "TRIPPED" THEN "Resume" ELSE "DoStart")
    /\ UNCHANGED <<state, waiting, service, calls>>

StartCheck(t) ==
    /\ pc[t] = "start"
    /\ StateMutexFree
    /\ Stable
    /\ state \in {"STOPPED", "TRIPPED"}
    /\ next' = "RUNNING"
    /\ Goto(t, IF state = "STOPPED" THEN "DoStart" ELSE "Resume")
    /\ UNCHANGED <<state, waiting, service, calls>>

\* next may have become TRIPPED or ERROR meanwhile
StartDone(t) ==
    /\ pc[t] \in {"DoStart", "Resume"}
    /\ StateMutexFree
    /\ state' = next
    /\ service' = "up"
    /\ NotifyAll
    /\ Goto(t, "idle")
    /\ UNCHANGED <<next, calls>>

\* Slip: the result of DoStart is ignored.
StartFailedUnnoticed(t) ==
    /\ pc[t] = "DoStart"
    /\ "DoStart" \in MayFail
    /\ StateMutexFree
    /\ state' = next
    /\ NotifyAll
    /\ Goto(t, "idle")
    /\ UNCHANGED <<next, service, calls>>

StartRolledBack(t) ==
    /\ pc[t] = "DoStart"
    /\ "DoStart" \in MayFail
    /\ StateMutexFree
    /\ next' = state
    /\ NotifyAll
    /\ Goto(t, "idle")
    /\ UNCHANGED <<state, service, calls>>

-----------------------------------------------------------------------------
(* stop() and reset() *)

\* reset() reads m_state without m_stateMutex
ResetCheck(t) ==
    /\ pc[t] = "reset"
    /\ Goto(t, IF state = "STOPPED" THEN "idle" ELSE "stopAfterReset")
    /\ UNCHANGED <<state, next, waiting, service, calls>>

AtStop(t) == pc[t] \in {"stop", "stopAfterReset"}

StopRefused(t) ==
    /\ \/ AtStop(t) /\ ~Stable /\ next \notin {"ERROR", "TRIPPED"}
       \/ AtStop(t) /\ Stable /\ state \notin RunningStates
       \/ pc[t] = "stopWait" /\ Awake(t) /\ Stable /\ state \notin RunningStates
    /\ StateMutexFree
    /\ Goto(t, "idle")
    /\ UNCHANGED <<state, next, waiting, service, calls>>

\* A transition to ERROR or TRIPPED is the component's own: wait for its end.
StopSleep(t) ==
    /\ \/ AtStop(t) /\ next \in {"ERROR", "TRIPPED"}
       \/ pc[t] = "stopWait" /\ Awake(t)
    /\ StateMutexFree
    /\ ~Stable
    /\ waiting' = waiting \cup {t}
    /\ Goto(t, "stopWait")
    /\ UNCHANGED <<state, next, service, calls>>

StopCheck(t) ==
    /\ AtStop(t) \/ (pc[t] = "stopWait" /\ Awake(t))
    /\ StateMutexFree
    /\ Stable
    /\ state \in RunningStates
    /\ next' = "STOPPED"
    /\ Goto(t, IF state = "ERROR" THEN "DoAbort" ELSE "DoStop")
    /\ UNCHANGED <<state, waiting, service, calls>>

\* the result of DoStop is not looked at
StopDone(t) ==
    /\ pc[t] \in {"DoStop", "DoAbort"}
    /\ StateMutexFree
    /\ state' = next
    /\ service' = "down"
    /\ NotifyAll
    /\ Goto(t, "idle")
    /\ UNCHANGED <<next, calls>>

-----------------------------------------------------------------------------
(* release() keeps m_releaseMutex from beginning to end *)

ReleaseLock(t) ==
    /\ pc[t] = "release"
    /\ ReleaseMutexFree
    /\ Goto(t, "releaseLocked")
    /\ UNCHANGED <<state, next, waiting, service, calls>>

ReleaseSleep(t) == /\ pc[t] = "releaseLocked"
                   /\ Awake(t)
                   /\ StateMutexFree
                   /\ SleepUntilStable(t)

ReleaseRefused(t) ==
    /\ pc[t] = "releaseLocked"
    /\ Awake(t)
    /\ StateMutexFree
    /\ Stable
    /\ state = "RELEASED"
    /\ Goto(t, "idle")
    /\ UNCHANGED <<state, next, waiting, service, calls>>

ReleaseCheck(t) ==
    /\ pc[t] = "releaseLocked"
    /\ Awake(t)
    /\ StateMutexFree
    /\ Stable
    /\ state # "RELEASED"
    /\ next' = "RELEASED"
    /\ Goto(t, IF state = "STOPPED" THEN "Releasing" ELSE "ReleaseStop")
    /\ UNCHANGED <<state, waiting, service, calls>>

\* DoStop(true) succeeded, Release() follows
ReleaseStopDone(t) ==
    /\ pc[t] = "ReleaseStop"
    /\ service' = "down"
    /\ Goto(t, "ReleaseStopped")
    /\ UNCHANGED <<state, next, waiting, calls>>

\* Slip: a failed release leaves the transition open.
ReleaseNotRolledBack(t) ==
    /\ \/ pc[t] = "ReleaseStop" /\ "DoStop" \in MayFail
       \/ pc[t] = "Releasing" /\ "Release" \in MayFail
    /\ StateMutexFree
    /\ NotifyAll
    /\ Goto(t, "idle")
    /\ UNCHANGED <<state, next, service, calls>>

\* "no operations succeeded"
ReleaseRolledBack(t) ==
    /\ \/ pc[t] = "ReleaseStop" /\ "DoStop" \in MayFail
       \/ pc[t] = "Releasing" /\ "Release" \in MayFail
    /\ StateMutexFree
    /\ next' = state
    /\ NotifyAll
    /\ Goto(t, "idle")
    /\ UNCHANGED <<state, service, calls>>

\* "DoStop succeeded, Release failed"
ReleaseHalfDone(t) ==
    /\ pc[t] = "ReleaseStopped"
    /\ "Release" \in MayFail
    /\ StateMutexFree
    /\ state' = "STOPPED"
    /\ next' = "STOPPED"
    /\ NotifyAll
    /\ Goto(t, "idle")
    /\ UNCHANGED <<service, calls>>

ReleaseDone(t) ==
    /\ pc[t] \in {"ReleaseStopped", "Releasing"}
    /\ StateMutexFree
    /\ state' = "RELEASED"
    /\ next' = "RELEASED"
    /\ service' = "freed"
    /\ NotifyAll
    /\ Goto(t, "idle")
    /\ UNCHANGED calls

-----------------------------------------------------------------------------
(* queue_nb() and flush_sm(): AcquireRunningStateLock(true), and the lock is *)
(* kept while Queue or Flush runs                                            *)

WorkSleep(t) == /\ pc[t] \in {"queue", "flush"}
                /\ Awake(t)
                /\ StateMutexFree
                /\ SleepUntilStable(t)

WorkRefused(t) ==
    /\ pc[t] \in {"queue", "flush"}
    /\ Awake(t)
    /\ StateMutexFree
    /\ Stable
    /\ state \notin RunningStates
    /\ Goto(t, "idle")
    /\ UNCHANGED <<state, next, waiting, service, calls>>

\* Slip: works are taken during a transition.
WorkInTransition(t) ==
    /\ pc[t] \in {"queue", "flush"}
    /\ Awake(t)
    /\ StateMutexFree
    /\ state \in RunningStates
    /\ Goto(t, IF pc[t] = "queue" THEN "Queue" ELSE "Flush")
    /\ UNCHANGED <<state, next, waiting, service, calls>>

WorkBegin(t) ==
    /\ pc[t] \in {"queue", "flush"}
    /\ Awake(t)
    /\ StateMutexFree
    /\ Stable
    /\ state \in RunningStates
    /\ Goto(t, IF pc[t] = "queue" THEN "Queue" ELSE "Flush")
    /\ UNCHANGED <<state, next, waiting, service, calls>>

-----------------------------------------------------------------------------
(* config_vb(): AcquireStableStateLock(mayBlock), in any state but RELEASED *)

\* C2_MAY_BLOCK: wait for a stable state
ConfigSleep(t) == /\ pc[t] = "config"
                  /\ Awake(t)
                  /\ StateMutexFree
                  /\ SleepUntilStable(t)

\* Slip: a thread leaves the wait as if it had never begun it.
ConfigRefusedAsleep(t) ==
    /\ pc[t] = "config"
    /\ ~StateMutexFree \/ ~Stable \/ state = "RELEASED"
    /\ Goto(t, "idle")
    /\ UNCHANGED <<state, next, waiting, service, calls>>

\* C2_BLOCKING if the call may not block, C2_BAD_STATE after a release
ConfigRefused(t) ==
    /\ pc[t] = "config"
    /\ Awake(t)
    /\ ~StateMutexFree \/ ~Stable \/ state = "RELEASED"
    /\ Goto(t, "idle")
    /\ UNCHANGED <<state, next, waiting, service, calls>>

ConfigBegin(t) ==
    /\ pc[t] = "config"
    /\ Awake(t)
    /\ StateMutexFree
    /\ Stable
    /\ state # "RELEASED"
    /\ Goto(t, "UpdateC2ParamToMfx")
    /\ UNCHANGED <<state, next, waiting, service, calls>>

(* query_vb(): m_releaseMutex only; m_state is read without m_stateMutex *)

QueryRefused(t) ==
    /\ pc[t] = "query"
    /\ ~ReleaseMutexFree \/ state = "RELEASED"
    /\ Goto(t, "idle")
    /\ UNCHANGED <<state, next, waiting, service, calls>>

\* Slip: m_releaseMutex is not taken into account.
QueryUnlocked(t) ==
    /\ pc[t] = "query"
    /\ state # "RELEASED"
    /\ Goto(t, "UpdateMfxParamToC2")
    /\ UNCHANGED <<state, next, waiting, service, calls>>

QueryBegin(t) ==
    /\ pc[t] = "query"
    /\ ReleaseMutexFree
    /\ state # "RELEASED"
    /\ Goto(t, "UpdateMfxParamToC2")
    /\ UNCHANGED <<state, next, waiting, service, calls>>

\* Queue, Flush, UpdateC2ParamToMfx, UpdateMfxParamToC2 return and drop their lock
LockedCallDone(t) ==
    /\ pc[t] \in HoldsState \cup {"UpdateMfxParamToC2"}
    /\ Goto(t, "idle")
    /\ UNCHANGED <<state, next, waiting, service, calls>>

-----------------------------------------------------------------------------
(* ConfigError() and FatalError() *)

LessCritical(report) == IF report = "configError" THEN {"RUNNING"} ELSE {"RUNNING", "TRIPPED"}

ReportIgnored(t) ==
    /\ pc[t] \in Reports
    /\ StateMutexFree
    /\ next \notin LessCritical(pc[t])
    /\ Goto(t, "idle")
    /\ UNCHANGED <<state, next, waiting, service, calls>>

ReportCheck(t) ==
    /\ pc[t] \in Reports
    /\ StateMutexFree
    /\ next \in LessCritical(pc[t])
    /\ next' = IF pc[t] = "configError" THEN "TRIPPED" ELSE "ERROR"
    /\ Goto(t, "Pause")
    /\ UNCHANGED <<state, waiting, service, calls>>

ReportDone(t) ==
    /\ pc[t] = "Pause"
    /\ StateMutexFree
    /\ state' = next
    /\ NotifyAll
    /\ Goto(t, "idle")
    /\ UNCHANGED <<next, service, calls>>

-----------------------------------------------------------------------------
Start(t) == \/ StartLimited(t) \/ StartRefused(t) \/ StartCheck(t) \/ StartDone(t)
            \/ StartRolledBack(t)
Stop(t) == ResetCheck(t) \/ StopRefused(t) \/ StopSleep(t) \/ StopCheck(t) \/ StopDone(t)
Release(t) == \/ ReleaseLock(t) \/ ReleaseSleep(t) \/ ReleaseRefused(t) \/ ReleaseCheck(t)
              \/ ReleaseStopDone(t) \/ ReleaseRolledBack(t) \/ ReleaseHalfDone(t)
              \/ ReleaseDone(t)
Work(t) == WorkSleep(t) \/ WorkRefused(t) \/ WorkBegin(t)
Params(t) == \/ ConfigSleep(t) \/ ConfigRefused(t) \/ ConfigBegin(t)
             \/ QueryRefused(t) \/ QueryBegin(t)
Report(t) == ReportIgnored(t) \/ ReportCheck(t) \/ ReportDone(t)

\* a step of a thread inside an operation
Step(t) == \/ Start(t) \/ Stop(t) \/ Release(t) \/ Work(t) \/ Params(t) \/ Report(t)
           \/ LockedCallDone(t)

Next == \/ \E t \in Callers, op \in Operations : Call(t, op)
        \/ \E t \in Reporters, report \in Reports : calls[t] < MaxReports /\ Call(t, report)
        \/ \E t \in Threads : Step(t) \/ SpuriousWakeup(t)

Spec == Init /\ [][Next]_vars

\* A thread inside an operation goes on; the virtual calls return.
Fairness == \A t \in Threads : WF_vars(Step(t))

FairSpec == Spec /\ Fairness

-----------------------------------------------------------------------------
(* Properties *)

TypeOK == /\ state \in States
          /\ next \in States
          /\ pc \in [Threads -> Places]
          /\ waiting \subseteq Threads
          /\ \A t \in waiting : pc[t] \in Sleeping
          /\ service \in {"down", "up", "freed"}
          /\ calls \in [Threads -> 0 .. MaxCalls]

\* ConfigError and FatalError move m_nextState without a look at a transition in progress, so
\* what transitions owe to m_nextState is promised until the first report.
Unreported == \A t \in Reporters : calls[t] = 0

\* "If they are equal it is a stable state" (mfx_c2_component.h): no thread is still
\* inside DoStart, DoStop, Release, Pause or Resume when m_state = m_nextState.
StableMeansDone == Stable => \A t \in Threads : pc[t] \notin InAction

\* The virtual calls that change the component exclude each other: at most one thread
\* is inside DoStart, DoStop, Release, Pause, Resume, Queue, Flush or a config update,
\* until something reports an error.  The pipelines of the codecs rely on it.
Exclusive ==
    Unreported => \A t, u \in Threads : /\ pc[t] \in InAction \cup HoldsState
                                       /\ pc[u] \in InAction \cup HoldsState
                                       => t = u

\* In a stable state the component's threads and session are what the state says.
ServiceMatchesState ==
    Stable => service = CASE state \in RunningStates -> "up"
                          [] state = "STOPPED" -> "down"
                          [] state = "RELEASED" -> "freed"

\* Works are queued to, and flushed from, a component that is up.
WorkOnlyWhenUp == \A t \in Threads : pc[t] \in {"Queue", "Flush"} => service = "up"

\* What a client may conclude from a stable state: no transition is going on any more, and
\* the threads and the session are in the state it was told, in which alone works travel.
\* A report may end this.
StableIsSettled == Unreported => StableMeansDone /\ ServiceMatchesState /\ WorkOnlyWhenUp

\* A query never looks at a component whose session is being or has been released,
\* although it does not take the state mutex.
QueryNeverFreed ==
    (\E t \in Threads : pc[t] = "UpdateMfxParamToC2") =>
        /\ service # "freed"
        /\ \A t \in Threads : pc[t] \notin {"ReleaseStop", "ReleaseStopped", "Releasing"}

\* m_state moves along the arrows of the state diagram in mfx_c2_component.h, and nothing
\* brings a released component back, or starts it again, in whatever order the calls come,
\* until an error is reported.
Arrows == { <<"STOPPED", "RUNNING">>, <<"RUNNING", "STOPPED">>, <<"TRIPPED", "STOPPED">>,
            <<"ERROR", "STOPPED">>, <<"RUNNING", "TRIPPED">>, <<"TRIPPED", "RUNNING">>,
            <<"RUNNING", "ERROR">> }
             \cup (States \X {"RELEASED"})
FollowsDiagram ==
    [][Unreported => /\ state' # state => <<state, state'>> \in Arrows
                     /\ service = "freed" => service' = "freed" /\ next' = "RELEASED"]_vars

\* Every operation returns, whatever the other threads call.
CallReturns == \A t \in Threads : pc[t] # "idle" ~> pc[t] = "idle"
=============================================================================
