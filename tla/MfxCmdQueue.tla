----------------------------- MODULE MfxCmdQueue -----------------------------
(***************************************************************************)
(* MfxCmdQueue: a queue of commands executed by a dedicated thread         *)
(* (c2_utils/include/mfx_cmd_queue.h, c2_utils/src/mfx_cmd_queue.cpp).     *)
(*                                                                         *)
(* Every critical section of m_mutex is one action.  m_threadMutex is held *)
(* across a join, so its holder is a variable.  A thread blocked on a      *)
(* condition variable is "asleep"; notify_one makes one sleeper "woken",   *)
(* and a woken thread tests its predicate again.  C++ lets a sleeper wake  *)
(* without a notification.                                                 *)
(*                                                                         *)
(* Commands are numbered in the order of their pushes: 1, 2, ...           *)
(***************************************************************************)
EXTENDS Naturals, Sequences

CONSTANTS Controllers,   \* threads that call Start, Stop, Abort, Pause, Resume
          Waiters,       \* threads that call WaitForEmpty
          MaxPushes,     \* bound: commands pushed in a behaviour
          MaxNulls,      \* bound: length of m_data when a Shutdown posts its null
          StopUnstarted  \* may Stop/Abort be called when no thread was started?

ASSUME ConstantsAssumption ==
          /\ MaxPushes \in Nat
          /\ MaxNulls \in Nat
          /\ StopUnstarted \in BOOLEAN
          /\ Controllers \cap Waiters = {}

VARIABLES data,      \* m_data
          paused,    \* m_bPaused
          wpc,       \* the worker: "none" (m_workingThread not joinable), "lock" (about to
                     \* lock m_mutex in WaitingPop), "asleep" / "woken" (m_condition),
                     \* "run" (executing cur), "exited" (Process returned, to be joined)
          cur,       \* the command being executed
          cpc,       \* per controller: "idle", "posted" (null pushed, m_threadMutex not
                     \* taken), "join" (m_threadMutex taken, in join())
          epc,       \* per waiter: "idle", "asleep" / "woken" (m_conditionEmpty),
                     \* "returned" (WaitForEmpty has returned, its caller goes on)
          pushed,    \* number of commands pushed so far
          asked,     \* value of pushed at a client's last call of WaitForEmpty, Stop or Abort
          done,      \* commands executed to the end
          dropped    \* commands discarded by Abort

vars == <<data, paused, wpc, cur, cpc, epc, pushed, asked, done, dropped>>

NullCmd == 0
Queued == { data[i] : i \in DOMAIN data } \ {NullCmd}
ThreadMutexFree == \A c \in Controllers : cpc[c] # "join"

Init == /\ data = <<>>
        /\ paused = FALSE
        /\ wpc = "none"
        /\ cur = NullCmd
        /\ cpc = [c \in Controllers |-> "idle"]
        /\ epc = [w \in Waiters |-> "idle"]
        /\ pushed = 0
        /\ asked = [t \in Waiters \cup Controllers |-> 0]
        /\ done = {}
        /\ dropped = {}

\* Slip: the notification is forgotten.
NotifyNobody == UNCHANGED wpc

\* m_condition.notify_one(): the worker is the only thread that waits on it
NotifyWorker == wpc' = IF wpc = "asleep" THEN "woken" ELSE wpc

\* m_conditionEmpty.notify_one()
NotifyEmpty == \/ \E w \in Waiters : /\ epc[w] = "asleep"
                                     /\ epc' = [epc EXCEPT ![w] = "woken"]
               \/ /\ \A w \in Waiters : epc[w] # "asleep"
                  /\ UNCHANGED epc

-----------------------------------------------------------------------------
(* Controllers *)

\* Slip: an ended thread that is not joined yet is taken for no thread.
StartOverEnded(c) == /\ cpc[c] = "idle"
                     /\ ThreadMutexFree
                     /\ wpc \in {"none", "exited"}
                     /\ wpc' = "lock"
                     /\ UNCHANGED <<data, paused, cur, cpc, epc, pushed, asked, done, dropped>>

Start(c) == /\ cpc[c] = "idle"
            /\ ThreadMutexFree
            /\ wpc = "none"
            /\ wpc' = "lock"
            /\ UNCHANGED <<data, paused, cur, cpc, epc, pushed, asked, done, dropped>>

Pause(c) == /\ cpc[c] = "idle"
            /\ paused' = TRUE
            /\ UNCHANGED <<data, wpc, cur, cpc, epc, pushed, asked, done, dropped>>

\* Slip: Resume does not notify the worker.
ResumeSilently(c) == /\ cpc[c] = "idle"
                     /\ paused' = FALSE
                     /\ UNCHANGED <<data, wpc, cur, cpc, epc, pushed, asked, done, dropped>>

Resume(c) == /\ cpc[c] = "idle"
             /\ paused' = FALSE
             /\ NotifyWorker
             /\ UNCHANGED <<data, cur, cpc, epc, pushed, asked, done, dropped>>

\* Slip: the null command overtakes what is queued.
ShutdownFirst(c, abort) ==
    /\ cpc[c] = "idle"
    /\ StopUnstarted \/ wpc # "none"
    /\ Len(data) <= MaxNulls
    /\ data' = <<NullCmd>> \o (IF abort THEN <<>> ELSE data)
    /\ dropped' = dropped \cup (IF abort THEN Queued ELSE {})
    /\ paused' = FALSE
    /\ NotifyWorker
    /\ cpc' = [cpc EXCEPT ![c] = "posted"]
    /\ asked' = [asked EXCEPT ![c] = pushed]
    /\ UNCHANGED <<cur, epc, pushed, done>>

\* Slip: a paused queue stays paused.
ShutdownPaused(c, abort) ==
    /\ cpc[c] = "idle"
    /\ StopUnstarted \/ wpc # "none"
    /\ Len(data) <= MaxNulls
    /\ data' = (IF abort THEN <<>> ELSE data) \o <<NullCmd>>
    /\ dropped' = dropped \cup (IF abort THEN Queued ELSE {})
    /\ NotifyWorker
    /\ cpc' = [cpc EXCEPT ![c] = "posted"]
    /\ asked' = [asked EXCEPT ![c] = pushed]
    /\ UNCHANGED <<paused, cur, epc, pushed, done>>

\* first critical section of Shutdown
ShutdownPost(c, abort) ==
    /\ cpc[c] = "idle"
    /\ StopUnstarted \/ wpc # "none"
    /\ Len(data) <= MaxNulls
    /\ IF abort
       THEN /\ data' = <<NullCmd>>
            /\ dropped' = dropped \cup Queued
       ELSE /\ data' = Append(data, NullCmd)
            /\ UNCHANGED dropped
    /\ paused' = FALSE
    /\ NotifyWorker
    /\ cpc' = [cpc EXCEPT ![c] = "posted"]
    /\ asked' = [asked EXCEPT ![c] = pushed]
    /\ UNCHANGED <<cur, epc, pushed, done>>

\* second one: nothing to join, or the join begins
ShutdownLock(c) ==
    /\ cpc[c] = "posted"
    /\ ThreadMutexFree
    /\ cpc' = [cpc EXCEPT ![c] = IF wpc = "none" THEN "idle" ELSE "join"]
    /\ UNCHANGED <<data, paused, wpc, cur, epc, pushed, asked, done, dropped>>

ShutdownJoin(c) ==
    /\ cpc[c] = "join"
    /\ wpc = "exited"
    /\ wpc' = "none"
    /\ cpc' = [cpc EXCEPT ![c] = "idle"]
    /\ UNCHANGED <<data, paused, cur, epc, pushed, asked, done, dropped>>

-----------------------------------------------------------------------------
(* Producers: Push has one critical section and keeps nothing of its caller *)

\* Slip: the new command goes to the front.
PushFront == /\ pushed < MaxPushes
             /\ pushed' = pushed + 1
             /\ data' = <<pushed + 1>> \o data
             /\ NotifyWorker
             /\ UNCHANGED <<paused, cur, cpc, epc, asked, done, dropped>>

Push == /\ pushed < MaxPushes
        /\ pushed' = pushed + 1
        /\ data' = Append(data, pushed + 1)
        /\ NotifyWorker
        /\ UNCHANGED <<paused, cur, cpc, epc, asked, done, dropped>>

-----------------------------------------------------------------------------
(* Waiters *)

WaitForEmpty(w) ==
    /\ epc[w] = "idle"
    /\ epc' = [epc EXCEPT ![w] = IF data = <<>> THEN "returned" ELSE "asleep"]
    /\ asked' = [asked EXCEPT ![w] = pushed]
    /\ UNCHANGED <<data, paused, wpc, cur, cpc, pushed, done, dropped>>

\* Slip: a wait without its predicate.
WaiterNoRecheck(w) ==
    /\ epc[w] = "woken"
    /\ epc' = [epc EXCEPT ![w] = "returned"]
    /\ UNCHANGED <<data, paused, wpc, cur, cpc, pushed, asked, done, dropped>>

WaiterRecheck(w) ==
    /\ epc[w] = "woken"
    /\ epc' = [epc EXCEPT ![w] = IF data = <<>> THEN "returned" ELSE "asleep"]
    /\ UNCHANGED <<data, paused, wpc, cur, cpc, pushed, asked, done, dropped>>

WaiterSpurious(w) ==
    /\ epc[w] = "asleep"
    /\ epc' = [epc EXCEPT ![w] = "woken"]
    /\ UNCHANGED <<data, paused, wpc, cur, cpc, pushed, asked, done, dropped>>

WaiterLeave(w) ==
    /\ epc[w] = "returned"
    /\ epc' = [epc EXCEPT ![w] = "idle"]
    /\ UNCHANGED <<data, paused, wpc, cur, cpc, pushed, asked, done, dropped>>

-----------------------------------------------------------------------------
(* The worker: Process() and WaitingPop() *)

\* the predicate of m_condition.wait
MayPop == ~paused /\ data # <<>>

\* first look at m_data; an empty queue is announced before the wait
WorkerSleep ==
    /\ wpc = "lock"
    /\ ~MayPop
    /\ wpc' = "asleep"
    /\ IF data = <<>> THEN NotifyEmpty ELSE UNCHANGED epc
    /\ UNCHANGED <<data, paused, cur, cpc, pushed, asked, done, dropped>>

WorkerSpurious ==
    /\ wpc = "asleep"
    /\ wpc' = "woken"
    /\ UNCHANGED <<data, paused, cur, cpc, epc, pushed, asked, done, dropped>>

WorkerSleepAgain ==
    /\ wpc = "woken"
    /\ ~MayPop
    /\ wpc' = "asleep"
    /\ UNCHANGED <<data, paused, cur, cpc, epc, pushed, asked, done, dropped>>

\* the null command breaks the loop of Process()
WorkerPop ==
    /\ wpc \in {"lock", "woken"}
    /\ MayPop
    /\ data' = Tail(data)
    /\ cur' = Head(data)
    /\ wpc' = IF Head(data) = NullCmd THEN "exited" ELSE "run"
    /\ UNCHANGED <<paused, cpc, epc, pushed, asked, done, dropped>>

\* Slip: the executed command is kept.
WorkerRanKept ==
    /\ wpc = "run"
    /\ done' = done \cup {cur}
    /\ wpc' = "lock"
    /\ UNCHANGED <<data, paused, cur, cpc, epc, pushed, asked, dropped>>

WorkerRan ==
    /\ wpc = "run"
    /\ done' = done \cup {cur}
    /\ cur' = NullCmd
    /\ wpc' = "lock"
    /\ UNCHANGED <<data, paused, cpc, epc, pushed, asked, dropped>>

-----------------------------------------------------------------------------
Controller(c) == \/ Start(c)
                 \/ Pause(c)
                 \/ Resume(c)
                 \/ \E abort \in BOOLEAN : ShutdownPost(c, abort)
                 \/ ShutdownLock(c)
                 \/ ShutdownJoin(c)

Waiter(w) == \/ WaitForEmpty(w)
             \/ WaiterRecheck(w)
             \/ WaiterSpurious(w)
             \/ WaiterLeave(w)

Worker == \/ WorkerSleep
          \/ WorkerSpurious
          \/ WorkerSleepAgain
          \/ WorkerPop
          \/ WorkerRan

Next == \/ \E c \in Controllers : Controller(c)
        \/ Push
        \/ \E w \in Waiters : Waiter(w)
        \/ Worker

Spec == Init /\ [][Next]_vars

\* A runnable thread runs and a command ends.  Nothing obliges a client to call an operation.
Fairness == /\ WF_vars(WorkerSleep \/ WorkerSleepAgain \/ WorkerPop \/ WorkerRan)
            /\ \A c \in Controllers : /\ WF_vars(ShutdownLock(c))
                                      /\ WF_vars(ShutdownJoin(c))
            /\ \A w \in Waiters : WF_vars(WaiterRecheck(w))

FairSpec == Spec /\ Fairness

-----------------------------------------------------------------------------
(* Properties *)

TypeOK == /\ data \in Seq(0 .. MaxPushes)
          /\ paused \in BOOLEAN
          /\ wpc \in {"none", "lock", "asleep", "woken", "run", "exited"}
          /\ cur \in 0 .. MaxPushes
          /\ (wpc = "run") <=> (cur # NullCmd)
          /\ cpc \in [Controllers -> {"idle", "posted", "join"}]
          /\ epc \in [Waiters -> {"idle", "asleep", "woken", "returned"}]
          /\ pushed \in 0 .. MaxPushes
          /\ asked \in [Waiters \cup Controllers -> 0 .. MaxPushes]
          /\ done \subseteq 1 .. MaxPushes
          /\ dropped \subseteq 1 .. MaxPushes

\* The worker never sleeps on m_condition while it could pop a command: every
\* Push, Resume and Shutdown that makes the predicate true also notifies.
NoLostWakeup == wpc = "asleep" => ~MayPop

\* Every pushed command is in exactly one place: executed, being executed, in
\* m_data (once), or discarded by an Abort.  None is lost or executed twice, not
\* even across Stop, Abort and a later Start.
ExactlyOnce ==
    /\ done \cup dropped \cup Queued \cup ({cur} \ {NullCmd}) = 1 .. pushed
    /\ done \cap dropped = {}
    /\ (done \cup dropped) \cap (Queued \cup {cur}) = {}
    /\ cur # NullCmd => cur \notin Queued
    /\ \A i, j \in DOMAIN data : i # j /\ data[i] # NullCmd => data[i] # data[j]

\* Commands are executed in the order of their pushes, one at a time: what was
\* executed precedes what is being executed, which precedes what is queued.
Fifo == /\ \A i, j \in DOMAIN data :
              i < j /\ data[i] # NullCmd /\ data[j] # NullCmd => data[i] < data[j]
        /\ \A n \in done, q \in Queued : n < q
        /\ cur # NullCmd => /\ \A n \in done : n < cur
                            /\ \A q \in Queued : cur < q

\* Together: the commands go through the queue as through a list, whoever starts, pauses,
\* stops or aborts it meanwhile.
ExactlyOnceInOrder == ExactlyOnce /\ Fifo

\* When WaitForEmpty returns, every command pushed before the call has been taken:
\* it is executed, discarded or the one being executed.
EmptyMeansTaken ==
    \A w \in Waiters : epc[w] = "returned" =>
        \A n \in 1 .. asked[w] : n \in done \cup dropped \cup {cur}

\* When the thread that Stop or Abort joins has ended, every command pushed before
\* the call has been executed or discarded: nothing is left for the next Start.
StopLeavesNothing ==
    \A c \in Controllers : cpc[c] = "join" /\ wpc = "exited" =>
        \A n \in 1 .. asked[c] : n \in done \cup dropped

\* A started worker ends only for a Stop or Abort that is still in progress: no null
\* command is left behind to kill a thread nobody is stopping.
DiesOnlyForShutdown ==
    wpc = "exited" => \E c \in Controllers : cpc[c] # "idle"

\* The queue implements its abstract specification.
Abstract == INSTANCE CmdQueueSpec WITH
              Commands <- 1 .. MaxPushes,
              queue <- data,
              held <- paused,
              worker <- CASE wpc = "none" -> "none"
                          [] wpc = "exited" -> "ended"
                          [] OTHER -> "up",
              current <- cur

ImplementsQueue == Abstract!Spec

\* Stop and Abort return: the join ends.
ShutdownReturns ==
    \A c \in Controllers : cpc[c] # "idle" ~> cpc[c] = "idle"

\* A queued command of a started worker is eventually taken or discarded, unless
\* the queue is paused or the worker ended before its turn came.
QueuedIsTaken ==
    \A n \in 1 .. MaxPushes :
        n \in Queued /\ wpc # "none" ~> n \notin Queued \/ paused \/ wpc = "none"

\* WaitForEmpty of a single waiter returns, unless the queue is paused or shut down
\* meanwhile: the notification at the end of the last command is not missed.
WaitForEmptyReturns ==
    \A w \in Waiters :
        epc[w] = "asleep" /\ wpc # "none"
            ~> epc[w] = "returned" \/ paused \/ wpc \in {"none", "exited"}

\* The calls that wait for the worker come to an end: Stop, Abort and WaitForEmpty.
CallsReturn == ShutdownReturns /\ WaitForEmptyReturns
=============================================================================
