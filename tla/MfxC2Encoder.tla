---------------------------- MODULE MfxC2Encoder ----------------------------
(***************************************************************************)
(* MfxC2EncoderComponent: how works travel through the encoder             *)
(* (c2_components/src/mfx_c2_encoder_component.cpp).                       *)
(*                                                                         *)
(* As in the decoder a working thread and a waiting thread execute two     *)
(* command queues (CmdQueueSpec).  The caller joins them in one place: a   *)
(* change of the bitrate drains the encoder, on the working thread when    *)
(* it comes with a work, on the caller's thread when it comes by config.   *)
(* No lock guards m_pendingWorks then: each operation of the std::queue is *)
(* a step of its own, and the other thread may come between two of them.   *)
(*                                                                         *)
(* The hardware encoder is external: it takes frames and gives their       *)
(* bitstreams in the same order (GopRefDist is 1), some of them only when  *)
(* it is drained, and keeps a frame's surface locked for as long as it     *)
(* likes.                                                                  *)
(***************************************************************************)
EXTENDS Naturals, Sequences, FiniteSets

CONSTANTS MaxWorks,    \* bound: works queued in a behaviour
          Kinds,       \* the kinds of works that are queued
          CountMod,    \* m_uSyncedPointsCount is unsigned: it counts modulo this
          MaxConfigs,  \* bound: bitrate changes by config
          SendsHeader, \* the codec's stream header goes into configUpdate: AVC, HEVC, and VP9
                       \* from PLATFORM_SDK_VERSION 35 on; AV1 never sends one
          MayFail      \* what may go wrong, a subset of Fallible

(* "frame": a picture; "frameEos": with FLAG_END_OF_STREAM; "tuned": with a bitrate *)
(* in its tunings; "eos": FLAG_END_OF_STREAM, no buffer; "empty": neither           *)
AllKinds == {"frame", "frameEos", "tuned", "eos", "empty"}
Fallible == {"start", "work", "alloc", "device", "sync", "header", "timeout"}

ASSUME ConstantsAssumption ==
          /\ MaxWorks \in Nat
          /\ Kinds \subseteq AllKinds
          /\ CountMod \in Nat /\ CountMod > MaxWorks + 1
          /\ MaxConfigs \in Nat
          /\ SendsHeader \in BOOLEAN
          /\ MayFail \subseteq Fallible

VARIABLES
  api,       \* "stopped", "running" or inside DoStop: "stopWork", "stopWait", "stopPending"
  aborting,  \* DoStop(true)
  kinds,     \* the kind of each work queued so far
  configs,   \* bitrate changes by config so far
  met,       \* history: config's drain ran while the working thread had a task
  workq, worker, task,   \* m_workingQueue and the state of its worker
  at,        \* where the working thread is in its task, and the caller in config
  out,       \* the frame whose sync point each of them got from EncodeFrameAsync, 0 if none
  hold,      \* the work in the task's own unique_ptr, 0 if none
  front,     \* the work each of them moved out of m_pendingWorks.front(), 0 if none
  waitq, waiter, job,    \* m_waitingQueue and the state of its worker
  found,     \* where WaitWork is: "sync" or "count"; "idle" outside of it
  count,     \* m_uSyncedPointsCount
  header,    \* m_bHeaderSent
  pending,   \* m_pendingWorks; 0 is a unique_ptr that was moved from
  inside,    \* frames in the hardware encoder, their bitstreams not given yet
  locked,    \* frames whose surface the hardware encoder has locked
  kept,      \* m_lockedFrames
  back,      \* onWorkDone, in order: the work and what it brings
  mark,      \* Len(back) at the last start
  dropped    \* works destroyed by Abort

apiVars == <<api, aborting, kinds, configs, met>>
workQueue == <<workq, worker, task>>
waitVars == <<waitq, waiter, job, found>>
hwVars == <<inside, locked>>
clientVars == <<back, mark, dropped>>
vars == <<apiVars, workQueue, at, out, hold, front, waitVars, count, header, pending, hwVars,
          kept, clientVars>>

Works == 1 .. MaxWorks
Threads == {"worker", "caller"}
\* a WaitWork command carries the work and the frame of its sync point
Cmd(op, w, f) == [op |-> op, work |-> w, frame |-> f]
NoCmd == Cmd("stop", 0, 0)
WorkCmds == { Cmd(op, w, 0) : op \in {"work", "drain"}, w \in Works }
              \cup { Cmd("drain", 0, 0), Cmd("update", 0, 0) }
WaitCmds == { Cmd("wait", w, f) : w \in 0 .. MaxWorks, f \in Works }
              \cup { Cmd("retain", 0, f) : f \in Works } \cup { Cmd("eos", w, 0) : w \in Works }

W == INSTANCE CmdQueueSpec WITH Commands <- WorkCmds, NullCmd <- NoCmd, queue <- workq,
                                held <- FALSE, worker <- worker, current <- task
V == INSTANCE CmdQueueSpec WITH Commands <- WaitCmds, NullCmd <- NoCmd, queue <- waitq,
                                held <- FALSE, worker <- waiter, current <- job

Stopping == api \in {"stopWork", "stopWait", "stopPending"}

\* inside Drain(), or in what follows it when the bitrate changes
DrainPlaces == {"drain", "drainCall", "drainFront", "drainPop", "drainPush", "drainCount",
                "drainEos", "drainFailed", "giveBack", "giveBackPop", "update"}

CallerDrains == at["caller"] \in DrainPlaces \ {"update"}

\* ApplyWorkTunings holds the state mutex: no call of the caller gets through
Tuning == task.op = "work" /\ at["worker"] \in DrainPlaces
CallerFree == at["caller"] = "idle" /\ ~Tuning

Init == /\ api = "stopped" /\ aborting = FALSE /\ kinds = <<>> /\ configs = 0 /\ met = FALSE
        /\ W!Init /\ V!Init
        /\ at = [t \in Threads |-> "idle"] /\ hold = 0
        /\ out = [t \in Threads |-> 0] /\ front = [t \in Threads |-> 0]
        /\ found = "idle"
        /\ count = 0 /\ header = FALSE
        /\ pending = <<>> /\ inside = <<>> /\ locked = {} /\ kept = {}
        /\ back = <<>> /\ mark = 0 /\ dropped = {}

Goto(t, place) == at' = [at EXCEPT ![t] = place]
Return(w, what) == back' = Append(back, [work |-> w, what |-> what])

-----------------------------------------------------------------------------
(* DoStart *)

\* Slip: the header of the last session counts for this one.
StartKeepsHeader ==
    /\ api = "stopped"
    /\ W!Start /\ V!Start
    /\ api' = "running"
    /\ count' = 0 /\ mark' = Len(back)
    /\ UNCHANGED <<aborting, kinds, configs, met, at, out, hold, front, found, header, pending,
                   hwVars, kept, back, dropped>>

Start ==
    /\ api = "stopped"
    /\ W!Start /\ V!Start
    /\ api' = "running"
    /\ count' = 0 /\ header' = FALSE /\ mark' = Len(back)
    /\ UNCHANGED <<aborting, kinds, configs, met, at, out, hold, front, found, pending, hwVars,
                   kept, back, dropped>>

\* The session could not be opened: no queue is started, and DoStart returns C2_OK.
\* Bound: nothing is left in the queue by an earlier failure.
StartFails ==
    /\ api = "stopped"
    /\ "start" \in MayFail
    /\ workq = <<>>
    /\ api' = "running"
    /\ count' = 0 /\ header' = FALSE /\ mark' = Len(back)
    /\ UNCHANGED <<aborting, kinds, configs, met, workQueue, at, out, hold, front, waitVars,
                   pending, hwVars, kept, back, dropped>>

-----------------------------------------------------------------------------
(* Queue: one work of the list *)

\* Slip: a picture with the end of stream is not followed by a drain.
QueueNoDrain(kind) ==
    LET w == Len(kinds) + 1
    IN /\ api = "running" /\ CallerFree
       /\ w <= MaxWorks
       /\ kinds' = Append(kinds, kind)
       /\ \/ /\ kind = "empty"
             /\ Return(w, "nothing")
             /\ UNCHANGED workQueue
          \/ /\ kind = "eos"
             /\ W!Push(Cmd("drain", w, 0))
             /\ UNCHANGED back
          \/ /\ kind \in {"frame", "tuned", "frameEos"}
             /\ W!Push(Cmd("work", w, 0))
             /\ UNCHANGED back
       /\ UNCHANGED <<api, aborting, configs, met, at, out, hold, front, waitVars, count,
                      header, pending, hwVars, kept, mark, dropped>>

QueueWork(kind) ==
    LET w == Len(kinds) + 1
    IN /\ api = "running" /\ CallerFree
       /\ w <= MaxWorks
       /\ kinds' = Append(kinds, kind)
       /\ \/ /\ kind = "empty"
             /\ Return(w, "nothing")
             /\ UNCHANGED workQueue
          \/ /\ kind = "eos"
             /\ W!Push(Cmd("drain", w, 0))
             /\ UNCHANGED back
          \/ /\ kind \in {"frame", "tuned"}
             /\ W!Push(Cmd("work", w, 0))
             /\ UNCHANGED back
          \/ /\ kind = "frameEos"
             /\ workq' = workq \o <<Cmd("work", w, 0), Cmd("drain", 0, 0)>>
             /\ UNCHANGED <<worker, task, back>>
       /\ UNCHANGED <<api, aborting, configs, met, at, out, hold, front, waitVars, count,
                      header, pending, hwVars, kept, mark, dropped>>

-----------------------------------------------------------------------------
(* UpdateC2ParamToMfx with a bitrate: Drain(nullptr) on the caller's thread, then *)
(* the update is pushed to the working queue.  The state mutex is held throughout. *)

Configure ==
    /\ api = "running" /\ CallerFree
    /\ configs < MaxConfigs
    /\ configs' = configs + 1
    /\ Goto("caller", "drain")
    /\ met' = (met \/ task # NoCmd)
    /\ UNCHANGED <<api, aborting, kinds, workQueue, out, hold, front, waitVars, count, header,
                   pending, hwVars, kept, clientVars>>

ConfigureEnds ==
    /\ at["caller"] = "update"
    /\ W!Push(Cmd("update", 0, 0))
    /\ Goto("caller", "idle")
    /\ UNCHANGED <<apiVars, out, hold, front, waitVars, count, header, pending, hwVars, kept,
                   clientVars>>

-----------------------------------------------------------------------------
(* DoStop: the working queue ends first, then the waiting queue *)

\* the works of commands that are destroyed; a "retain" command has a frame only
WorksOf(queue) == { queue[i].work : i \in DOMAIN queue } \ {0}
Destroyed(queue, abort) == IF abort THEN WorksOf(queue) ELSE {}

StopWorking(abort) ==
    /\ api = "running" /\ CallerFree
    /\ api' = "stopWork"
    /\ aborting' = abort
    /\ W!Shutdown(abort)
    /\ dropped' = dropped \cup Destroyed(workq, abort)
    /\ UNCHANGED <<kinds, configs, met, at, out, hold, front, waitVars, count, header, pending,
                   hwVars, kept, back, mark>>

\* the join of the working thread, if there is one, and the next Stop or Abort
StopWaiting ==
    /\ api = "stopWork"
    /\ W!Join \/ (worker = "none" /\ UNCHANGED workQueue)
    /\ api' = "stopWait"
    /\ V!Shutdown(aborting)
    /\ dropped' = dropped \cup Destroyed(waitq, aborting)
    /\ UNCHANGED <<aborting, kinds, configs, met, at, out, hold, front, found, count, header,
                   pending, hwVars, kept, back, mark>>

StopJoined ==
    /\ api = "stopWait"
    /\ V!Join \/ (waiter = "none" /\ UNCHANGED <<waitq, waiter, job>>)
    /\ api' = "stopPending"
    /\ UNCHANGED <<aborting, kinds, configs, met, workQueue, at, out, hold, front, found, count,
                   header, pending, hwVars, kept, clientVars>>

\* Slip: what is pending is forgotten.
StopForgets ==
    /\ api = "stopPending"
    /\ api' = "stopped" /\ aborting' = FALSE
    /\ pending' = <<>>
    /\ inside' = <<>> /\ locked' = {}
    /\ UNCHANGED <<kinds, configs, met, workQueue, at, out, hold, front, waitVars, count,
                   header, kept, clientVars>>

\* C2_NOT_FOUND for every pending work (a null one is dereferenced: it goes no further);
\* FreeEncoder closes the hardware encoder
StopPending ==
    /\ api = "stopPending"
    /\ 0 \notin { pending[i] : i \in DOMAIN pending }
    /\ api' = "stopped" /\ aborting' = FALSE
    /\ back' = back \o [i \in DOMAIN pending |-> [work |-> pending[i], what |-> "nothing"]]
    /\ pending' = <<>>
    /\ inside' = <<>> /\ locked' = {}
    /\ UNCHANGED <<kinds, configs, met, workQueue, at, out, hold, front, waitVars, count,
                   header, kept, mark, dropped>>

-----------------------------------------------------------------------------
(* The working thread: DoWork *)

Begin(op) == CASE op = "stop" -> "idle" [] op = "work" -> "begin" [] OTHER -> op

\* Slip: the null command is executed like any other.
TakeNull ==
    /\ W!Take
    /\ Goto("worker", IF task'.op = "work" THEN "begin" ELSE task'.op)
    /\ hold' = task'.work
    /\ met' = (met \/ (CallerDrains /\ task' # NoCmd))
    /\ UNCHANGED <<api, aborting, kinds, configs, out, front, waitVars, count, header, pending,
                   hwVars, kept, clientVars>>

TakeTask ==
    /\ W!Take
    /\ Goto("worker", Begin(task'.op))
    /\ hold' = task'.work
    /\ met' = (met \/ (CallerDrains /\ task' # NoCmd))
    /\ UNCHANGED <<api, aborting, kinds, configs, out, front, waitVars, count, header, pending,
                   hwVars, kept, clientVars>>

EndTask == W!Finish /\ Goto("worker", "idle")

\* Slip: the work that failed is not returned.
WorkFailsSilently ==
    /\ \/ at["worker"] = "begin" /\ "work" \in MayFail
       \/ at["worker"] = "call" /\ "device" \in MayFail
    /\ hold' = 0
    /\ EndTask
    /\ UNCHANGED <<apiVars, out, front, waitVars, count, header, pending, hwVars, kept,
                   clientVars>>

\* The block pool, VPP, the conversion, InitEncoder, AllocateBitstream, the tunings or
\* EncodeFrameAsync failed.
WorkFails ==
    /\ \/ at["worker"] = "begin" /\ "work" \in MayFail
       \/ at["worker"] = "call" /\ "device" \in MayFail
    /\ Return(hold, "nothing")
    /\ hold' = 0
    /\ EndTask
    /\ UNCHANGED <<apiVars, out, front, waitVars, count, header, pending, hwVars, kept, mark,
                   dropped>>

WorkReady ==
    /\ at["worker"] = "begin"
    /\ Goto("worker", IF kinds[hold] = "tuned" THEN "tune" ELSE "call")
    /\ UNCHANGED <<apiVars, workQueue, out, hold, front, waitVars, count, header, pending,
                   hwVars, kept, clientVars>>

\* AcquireStableStateLock(true), then Drain(nullptr) on this thread
ApplyTunings ==
    /\ at["worker"] = "tune"
    /\ ~Stopping /\ at["caller"] = "idle"
    /\ Goto("worker", "drain")
    /\ UNCHANGED <<apiVars, workQueue, out, hold, front, waitVars, count, header, pending,
                   hwVars, kept, clientVars>>

\* EncodeFrameAsync took the frame, and gave a sync point (MFX_ERR_NONE) or not
\* (MFX_ERR_MORE_DATA); the frame goes to RetainLockedFrame.
CallEncode(outputs) ==
    LET frames == Append(inside, hold)
    IN /\ at["worker"] = "call"
       /\ inside' = IF outputs THEN Tail(frames) ELSE frames
       /\ out' = [out EXCEPT !["worker"] = IF outputs THEN Head(frames) ELSE 0]
       /\ locked' = locked \cup {hold}
       /\ V!Push(Cmd("retain", 0, hold))
       /\ Goto("worker", "pend")
       /\ UNCHANGED <<apiVars, workQueue, hold, front, found, count, header, pending, kept,
                      clientVars>>

AddPending ==
    /\ at["worker"] = "pend"
    /\ pending' = Append(pending, hold)
    /\ hold' = 0
    /\ IF out["worker"] = 0 THEN EndTask ELSE Goto("worker", "front") /\ UNCHANGED workQueue
    /\ UNCHANGED <<apiVars, out, front, waitVars, count, header, hwVars, kept, clientVars>>

-----------------------------------------------------------------------------
(* Drain(), on thread t.  front() and pop() of an empty queue are undefined, a null work is *)
(* dereferenced: the thread goes no further.  It cannot happen while one thread alone is *)
(* at the queue. *)

\* the work at the front of m_pendingWorks, 0 if there is none
PendingHead == IF pending = <<>> THEN 0 ELSE Head(pending)

DrainBegin(t) ==
    /\ at[t] = "drain"
    /\ Goto(t, IF pending = <<>> THEN "drainEos" ELSE "drainCall")
    /\ UNCHANGED <<apiVars, workQueue, out, hold, front, waitVars, count, header, pending,
                   hwVars, kept, clientVars>>

\* AllocateBitstream or EncodeFrameAsync failed; MFX_ERR_MORE_DATA "is an error here too"
DrainFails(t) ==
    /\ at[t] = "drainCall"
    /\ PendingHead # 0
    /\ inside = <<>> \/ MayFail \cap {"alloc", "device"} # {}
    /\ Goto(t, "drainFailed")
    /\ UNCHANGED <<apiVars, workQueue, out, hold, front, waitVars, count, header, pending,
                   hwVars, kept, clientVars>>

DrainOutputs(t) ==
    /\ at[t] = "drainCall"
    /\ PendingHead # 0
    /\ inside # <<>>
    /\ inside' = Tail(inside)
    /\ out' = [out EXCEPT ![t] = Head(inside)]
    /\ Goto(t, "drainFront")
    /\ UNCHANGED <<apiVars, workQueue, hold, front, waitVars, count, header, pending, locked,
                   kept, clientVars>>

\* Slip: the work pushed last is taken, not the one pushed first: back() for front().
TakeBack(t) ==
    /\ at[t] \in {"front", "drainFront"}
    /\ pending # <<>>
    /\ front' = [front EXCEPT ![t] = pending[Len(pending)]]
    /\ pending' = [pending EXCEPT ![Len(pending)] = 0]
    /\ Goto(t, IF at[t] = "front" THEN "pop" ELSE "drainPop")
    /\ UNCHANGED <<apiVars, workQueue, out, hold, waitVars, count, header, hwVars, kept,
                   clientVars>>

\* std::move(m_pendingWorks.front()) leaves a null unique_ptr in the queue.
TakeFront(t) ==
    /\ at[t] \in {"front", "drainFront"}
    /\ pending # <<>>
    /\ front' = [front EXCEPT ![t] = Head(pending)]
    /\ pending' = [pending EXCEPT ![1] = 0]
    /\ Goto(t, IF at[t] = "front" THEN "pop" ELSE "drainPop")
    /\ UNCHANGED <<apiVars, workQueue, out, hold, waitVars, count, header, hwVars, kept,
                   clientVars>>

PopFront(t) ==
    /\ at[t] \in {"pop", "drainPop"}
    /\ pending # <<>>
    /\ pending' = Tail(pending)
    /\ Goto(t, IF at[t] = "pop" THEN "push" ELSE "drainPush")
    /\ UNCHANGED <<apiVars, workQueue, out, hold, front, waitVars, count, header, hwVars, kept,
                   clientVars>>

\* the work that was taken, null perhaps, goes to WaitWork
PushFront(t) ==
    /\ at[t] \in {"push", "drainPush"}
    /\ V!Push(Cmd("wait", front[t], out[t]))
    /\ front' = [front EXCEPT ![t] = 0]
    /\ out' = [out EXCEPT ![t] = 0]
    /\ Goto(t, IF at[t] = "push" THEN "count" ELSE "drainCount")
    /\ UNCHANGED <<apiVars, workQueue, hold, found, count, header, pending, hwVars, kept,
                   clientVars>>

\* ++m_uSyncedPointsCount, after the push of WaitWork
Count(t) ==
    /\ at[t] \in {"count", "drainCount"}
    /\ count' = (count + 1) % CountMod
    /\ IF at[t] = "count" THEN EndTask ELSE Goto(t, "drain") /\ UNCHANGED workQueue
    /\ UNCHANGED <<apiVars, out, hold, front, waitVars, header, pending, hwVars, kept,
                   clientVars>>

\* where Drain returns to
AfterDrain(t) == IF t = "worker" /\ task.op = "drain" THEN EndTask
                 ELSE Goto(t, "update") /\ UNCHANGED workQueue

\* the work of an "eos" task goes to the waiting queue; when the drain failed the pending
\* works are still to be given back
DrainEos(t) ==
    /\ at[t] \in {"drainEos", "drainFailed"}
    /\ IF task.op = "drain" /\ t = "worker" /\ hold # 0
       THEN V!Push(Cmd("eos", hold, 0)) /\ hold' = 0 /\ UNCHANGED found
       ELSE UNCHANGED <<hold, waitVars>>
    /\ IF at[t] = "drainEos" THEN AfterDrain(t)
                             ELSE Goto(t, "giveBack") /\ UNCHANGED workQueue
    /\ UNCHANGED <<apiVars, out, front, count, header, pending, hwVars, kept, clientVars>>

\* one of the pending works after a failure, or the end of Drain
GiveBack(t) ==
    /\ at[t] = "giveBack"
    /\ \/ /\ PendingHead # 0
          /\ Return(Head(pending), "nothing")
          /\ pending' = [pending EXCEPT ![1] = 0]
          /\ Goto(t, "giveBackPop")
          /\ UNCHANGED workQueue
       \/ /\ pending = <<>>
          /\ AfterDrain(t)
          /\ UNCHANGED <<pending, back>>
    /\ UNCHANGED <<apiVars, out, hold, front, waitVars, count, header, hwVars, kept, mark,
                   dropped>>

GiveBackPop(t) ==
    /\ at[t] = "giveBackPop"
    /\ pending # <<>>
    /\ pending' = Tail(pending)
    /\ Goto(t, "giveBack")
    /\ UNCHANGED <<apiVars, workQueue, out, hold, front, waitVars, count, header, hwVars, kept,
                   clientVars>>

\* update_bitrate_value: wait until all that was encoded is out, at most a second, and
\* Reset, which leaves no frame in the hardware encoder
Update ==
    /\ at["worker"] = "update"
    /\ count = 0 \/ "timeout" \in MayFail
    /\ inside' = <<>>
    /\ IF task.op = "update" THEN EndTask ELSE Goto("worker", "call") /\ UNCHANGED workQueue
    /\ UNCHANGED <<apiVars, out, hold, front, waitVars, count, header, pending, locked, kept,
                   clientVars>>

-----------------------------------------------------------------------------
(* The waiting thread *)

\* SyncOperation begins, or one of the short tasks
TakeJob ==
    /\ V!Take
    /\ found' = IF job'.op = "wait" THEN "sync" ELSE "idle"
    /\ UNCHANGED <<apiVars, workQueue, at, out, hold, front, count, header, pending, hwVars,
                   kept, clientVars>>

\* The hardware unlocks a surface when it likes; the code sees it when it reads Data.Locked.
Unlock == locked' \in SUBSET locked

RetainLockedFrame ==
    /\ job.op = "retain"
    /\ Unlock
    /\ kept' = kept \cup ({job.frame} \cap locked')
    /\ V!Finish
    /\ UNCHANGED <<apiVars, workQueue, at, out, hold, front, found, count, header, pending,
                   inside, clientVars>>

EosReturned ==
    /\ job.op = "eos"
    /\ Return(job.work, "nothing")
    /\ V!Finish
    /\ UNCHANGED <<apiVars, workQueue, at, out, hold, front, found, count, header, pending,
                   hwVars, kept, mark, dropped>>

\* What comes with the bitstream: the stream header the first time.  When GetVideoParam
\* fails the bitstream goes out without it, with an error, and the next one tries again.
Given == IF header \/ ~SendsHeader THEN {"data"}
         ELSE {"header"} \cup (IF "header" \in MayFail THEN {"bare"} ELSE {})

\* Slip: a finished work is taken as the end of the use of every frame.
WaitWorkDropsFrames ==
    /\ found = "sync"
    /\ Unlock
    /\ kept' = {}
    /\ job.work # 0
    /\ \E what \in Given : Return(job.work, what) /\ header' = (header \/ what = "header")
    /\ found' = "count"
    /\ UNCHANGED <<apiVars, workQueue, at, out, hold, front, waitq, waiter, job, count, pending,
                   inside, mark, dropped>>

\* The bitstream is ready, or SyncOperation failed.  (A null work is dereferenced.)
WaitWork ==
    /\ found = "sync"
    /\ Unlock
    /\ kept' = kept \cap locked'
    /\ job.work # 0
    /\ \/ \E what \in Given : Return(job.work, what) /\ header' = (header \/ what = "header")
       \/ /\ "sync" \in MayFail
          /\ Return(job.work, "nothing")
          /\ UNCHANGED header
    /\ found' = "count"
    /\ UNCHANGED <<apiVars, workQueue, at, out, hold, front, waitq, waiter, job, count, pending,
                   inside, mark, dropped>>

\* --m_uSyncedPointsCount, then m_devBusyCond.notify_one()
WaitWorkCounts ==
    /\ found = "count"
    /\ count' = (count + CountMod - 1) % CountMod
    /\ found' = "idle"
    /\ V!Finish
    /\ UNCHANGED <<apiVars, workQueue, at, out, hold, front, header, pending, hwVars, kept,
                   clientVars>>

-----------------------------------------------------------------------------
Stop == (\E abort \in BOOLEAN : StopWorking(abort)) \/ StopWaiting \/ StopJoined \/ StopPending

Drain(t) == \/ DrainBegin(t) \/ DrainFails(t) \/ DrainOutputs(t) \/ DrainEos(t)
            \/ TakeFront(t) \/ PopFront(t) \/ PushFront(t) \/ Count(t)
            \/ GiveBack(t) \/ GiveBackPop(t)

DoWork == \/ WorkFails \/ WorkReady \/ ApplyTunings
          \/ (\E outputs \in BOOLEAN : CallEncode(outputs)) \/ AddPending

Working == TakeTask \/ DoWork \/ Drain("worker") \/ Update
Waiting == TakeJob \/ RetainLockedFrame \/ EosReturned \/ WaitWork \/ WaitWorkCounts

Next == \/ Start \/ StartFails
        \/ \E kind \in Kinds : QueueWork(kind)
        \/ Configure \/ Drain("caller") \/ ConfigureEnds
        \/ Stop
        \/ Working \/ Waiting

Spec == Init /\ [][Next]_vars

\* The two threads and a call in progress go on; nobody is obliged to begin a call.
Fairness ==
    /\ WF_vars(Working) /\ WF_vars(Waiting)
    /\ WF_vars(StopWaiting \/ StopJoined \/ StopPending)
    /\ WF_vars(Drain("caller") \/ ConfigureEnds)

FairSpec == Spec /\ Fairness

-----------------------------------------------------------------------------
(* Properties *)

Places == {"idle", "begin", "tune", "call", "pend", "front", "pop", "push", "count"}
            \cup DrainPlaces

CallTypes ==
    /\ api \in {"stopped", "running", "stopWork", "stopWait", "stopPending"}
    /\ aborting \in BOOLEAN
    /\ kinds \in Seq(Kinds) /\ Len(kinds) <= MaxWorks /\ configs \in 0 .. MaxConfigs
    /\ met \in BOOLEAN

WorkTypes ==
    /\ workq \in Seq(WorkCmds \cup {NoCmd}) /\ worker \in {"none", "up", "ended"}
    /\ task \in WorkCmds \cup {NoCmd}
    /\ at \in [Threads -> Places]
    /\ at["worker"] = "idle" <=> task = NoCmd
    /\ at["caller"] \in {"idle"} \cup DrainPlaces
    /\ out \in [Threads -> 0 .. MaxWorks] /\ hold \in 0 .. MaxWorks
    /\ front \in [Threads -> 0 .. MaxWorks]

WaitTypes ==
    /\ waitq \in Seq(WaitCmds \cup {NoCmd}) /\ waiter \in {"none", "up", "ended"}
    /\ job \in WaitCmds \cup {NoCmd}
    /\ found \in {"idle", "sync", "count"}
    /\ found # "idle" <=> job.op = "wait"

DataTypes ==
    /\ count \in 0 .. CountMod - 1 /\ header \in BOOLEAN
    /\ pending \in Seq(0 .. MaxWorks) /\ inside \in Seq(Works)
    /\ locked \subseteq Works /\ kept \subseteq Works

ClientTypes ==
    /\ back \in Seq([work : Works, what : {"header", "data", "bare", "nothing"}])
    /\ mark \in 0 .. Len(back) /\ dropped \subseteq Works

TypeOK == CallTypes /\ WorkTypes /\ WaitTypes /\ DataTypes /\ ClientTypes

Queued == 1 .. Len(kinds)
Ids(seq) == { seq[i] : i \in DOMAIN seq }
Back == { back[i].work : i \in DOMAIN back }
InTask == {hold} \ {0}
InPending == (Ids(pending) \cup { front[t] : t \in Threads }) \ {0}
InJob == (IF job.op = "eos" \/ found = "sync" THEN {job.work} ELSE {}) \ {0}

\* every place where a queued work can be
WorkPlaces == <<WorksOf(workq), InTask, InPending, WorksOf(waitq), InJob, Back, dropped>>

\* A queued work is in exactly one place and comes back at most once, as long as a drain of
\* config has not met the working thread at a task.
EveryWorkInOnePlace ==
    ~met =>
    /\ UNION { WorkPlaces[i] : i \in DOMAIN WorkPlaces } = Queued
    /\ \A i, j \in DOMAIN WorkPlaces : i # j => WorkPlaces[i] \cap WorkPlaces[j] = {}
    /\ Len(back) = Cardinality(Back)

\* The input of a frame whose surface the hardware has locked is not released: it is on its
\* way to RetainLockedFrame or in m_lockedFrames.  (An Abort destroys the frames on their
\* way before FreeEncoder closes the hardware encoder.)
FramesOutliveLocks ==
    \/ Stopping /\ aborting
    \/ locked \subseteq kept \cup { waitq[i].frame : i \in { j \in DOMAIN waitq :
                                                               waitq[j].op = "retain" } }
                             \cup (IF job.op = "retain" THEN {job.frame} ELSE {})

\* In every session of a codec with a stream header, the header comes once, before or with
\* the first bitstream that is given without an error; the other codecs send none.
HeaderFirst ==
    \A i \in mark + 1 .. Len(back) :
        back[i].what # "nothing" =>
            (back[i].what = "data" <=> \/ ~SendsHeader
                                       \/ \E j \in mark + 1 .. i - 1 : back[j].what = "header")

\* DoStop leaves no task for the threads of the next start, and every work was given back
\* or discarded by an Abort, as long as no drain of config met the working thread at a task.
StopLeavesNothing ==
    api = "stopped" => /\ workq = <<>> /\ waitq = <<>>
                       /\ met \/ Queued = Back \cup dropped

\* A work is given the bitstream of its own frame: m_pendingWorks and the frames inside the
\* hardware encoder stay in step.
OwnBitstream ==
    \A i \in DOMAIN waitq : waitq[i].op = "wait" => waitq[i].frame = waitq[i].work

\* "eos work, should be sent after last work returned": when a work with the end of stream
\* comes back, every work queued before it is back already, or was destroyed by an Abort.
EosIsLast ==
    \A i \in DOMAIN back :
        kinds[back[i].work] \in {"eos", "frameEos"} =>
            1 .. back[i].work - 1 \subseteq { back[j].work : j \in 1 .. i } \cup dropped

\* Works and bitstreams stay in step to the end: no work gets the bitstream of another, and
\* none comes back behind the end of stream it was queued before.
EachItsOwnInOrder == OwnBitstream /\ EosIsLast

\* Once the end of stream is queued, every work up to it comes back, or was destroyed by an
\* Abort: a drain leaves nothing behind in the hardware encoder.
DrainBringsAllBack ==
    \A w \in Works :
        (w <= Len(kinds) /\ kinds[w] \in {"eos", "frameEos"}) ~> 1 .. w \subseteq Back \cup dropped

\* "This queue is accessed from working thread only": a thread that has a sync point finds
\* the work it belongs to in m_pendingWorks.
PendingIsThere == \A t \in Threads : at[t] \in {"front", "drainFront"} => PendingHead # 0
=============================================================================
