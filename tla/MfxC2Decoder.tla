---------------------------- MODULE MfxC2Decoder ----------------------------
(***************************************************************************)
(* MfxC2DecoderComponent: how works travel through the decoder             *)
(* (c2_components/src/mfx_c2_decoder_component.cpp).                       *)
(*                                                                         *)
(* Three threads share the component: the caller of Queue, Flush, DoStart  *)
(* and DoStop (one call at a time: MfxC2Component!Exclusive), the worker   *)
(* of m_workingQueue (DoWork, Drain, PushPending, the reset task) and the  *)
(* worker of m_waitingQueue (WaitWork, the end-of-stream task).  The two   *)
(* queues are instances of CmdQueueSpec, which MfxCmdQueue implements.     *)
(*                                                                         *)
(* The hardware decoder is external: it holds the frames it was fed, and   *)
(* answers a call with a frame it holds, with "more data", with "busy",    *)
(* with a resolution change or with an error.  A frame carries the         *)
(* timestamp of its work, and the component finds the work again by it.    *)
(***************************************************************************)
EXTENDS Naturals, Sequences, FiniteSets

CONSTANTS MaxWorks,    \* bound: works queued in a behaviour
          TimeStamp,   \* input.ordinal.timestamp of each work
          Kinds,       \* the kinds of works that are queued
          AsyncDepth,  \* m_mfxVideoParams.AsyncDepth
          CountMod,    \* m_uSyncedPointsCount is unsigned: it counts modulo this
          MayFail      \* what may go wrong, a subset of Fallible

(* "frame": a picture; "frameEos": a picture with FLAG_END_OF_STREAM;       *)
(* "eos": FLAG_END_OF_STREAM and no buffer; "part": FLAG_INCOMPLETE or      *)
(* FLAG_CODEC_CONFIG; "invalid": refused by ValidateWork.  "append": a work     *)
(* without a buffer, or one whose buffer cannot be appended                     *)
AllKinds == {"frame", "frameEos", "eos", "part", "invalid"}
Fallible == {"start", "append", "init", "alloc", "device", "change", "timeout"}

ASSUME ConstantsAssumption ==
          /\ MaxWorks \in Nat
          /\ TimeStamp \in [1 .. MaxWorks -> Nat]
          /\ Kinds \subseteq AllKinds
          /\ AsyncDepth \in Nat \ {0}
          /\ CountMod \in Nat /\ CountMod > AsyncDepth + 1
          /\ MayFail \subseteq Fallible

VARIABLES
  \* the caller: "stopped", "running", inside Flush ("flushWork", "flushWait", "flushEnd",
  \* "flushCollect") or inside DoStop ("stopWork", "stopWait", "stopPending")
  api,
  aborting,     \* DoStop(true)
  kinds,        \* the kind of each work queued so far
  eos,          \* m_bEosReceived
  flushing,     \* m_bFlushing
  \* m_workingQueue and the state of its worker
  workq, worker, task,
  at,           \* where the worker is in its task
  hold,         \* the work in the task's own unique_ptr, 0 if none
  draining,     \* inside Drain()
  outcome,      \* of the decode loop: "none" (no output expected), "expect", "error", "flushing"
  changed,      \* encounterResolutionChanged
  \* m_waitingQueue and the state of its worker
  waitq, waiter, job,
  found,        \* where WaitWork is: "sync", "notify", "count"; "idle" outside of it
  match,        \* the work WaitWork took from m_pendingWorks, 0 if none
  count,        \* m_uSyncedPointsCount
  pending,      \* m_pendingWorks
  duplicated,   \* the works recorded in m_duplicatedTimeStamp
  flushed,      \* m_flushedWorks
  initialized,  \* m_bInitialized
  fed,          \* frames inside the hardware decoder
  back,         \* works given back: onWorkDone, or the list filled by Flush
  dropped       \* works destroyed by Abort

apiVars == <<api, aborting, kinds, eos>>
workVars == <<at, hold, draining, outcome, changed>>
waitVars == <<waitq, waiter, job, found, match>>
workQueue == <<workq, worker, task>>
listVars == <<pending, duplicated, flushed>>
hwVars == <<initialized, fed>>
clientVars == <<back, dropped>>
vars == <<apiVars, flushing, workQueue, workVars, waitVars, count, listVars, hwVars,
          clientVars>>

Works == 1 .. MaxWorks
Cmd(op, w) == [op |-> op, work |-> w]
NoCmd == Cmd("stop", 0)
WorkCmds == { Cmd(op, w) : op \in {"work", "drain", "pending"}, w \in Works }
              \cup { Cmd("drain", 0), Cmd("reset", 0) }
WaitCmds == { Cmd(op, w) : op \in {"wait", "eos"}, w \in Works }

W == INSTANCE CmdQueueSpec WITH Commands <- WorkCmds, NullCmd <- NoCmd, queue <- workq,
                                held <- FALSE, worker <- worker, current <- task
V == INSTANCE CmdQueueSpec WITH Commands <- WaitCmds, NullCmd <- NoCmd, queue <- waitq,
                                held <- FALSE, worker <- waiter, current <- job

Stopping == api \in {"stopWork", "stopWait", "stopPending"}
HasFrame(w) == kinds[w] \in {"frame", "frameEos"}

Init == /\ api = "stopped" /\ aborting = FALSE /\ kinds = <<>> /\ eos = FALSE
        /\ flushing = FALSE
        /\ W!Init /\ V!Init
        /\ at = "idle" /\ hold = 0 /\ draining = FALSE /\ outcome = "none" /\ changed = FALSE
        /\ found = "idle" /\ match = 0
        /\ count = 0
        /\ pending = {} /\ duplicated = {} /\ flushed = {}
        /\ initialized = FALSE /\ fed = {}
        /\ back = {} /\ dropped = {}

-----------------------------------------------------------------------------
(* DoStart *)

\* Slip: sync points discarded by an Abort are still counted.
StartCounted ==
    /\ api = "stopped"
    /\ W!Start /\ V!Start
    /\ api' = "running"
    /\ eos' = FALSE
    /\ UNCHANGED <<aborting, kinds, flushing, workVars, found, match, count, listVars, hwVars,
                   clientVars>>

Start ==
    /\ api = "stopped"
    /\ W!Start /\ V!Start
    /\ api' = "running"
    /\ eos' = FALSE
    /\ count' = 0
    /\ UNCHANGED <<aborting, kinds, flushing, workVars, found, match, listVars, hwVars,
                   clientVars>>

\* MFXClose or InitSession failed: no queue is started, and DoStart returns C2_OK.
\* Bound: nothing is left in the queue by an earlier failure.
StartFails ==
    /\ api = "stopped"
    /\ "start" \in MayFail
    /\ workq = <<>>
    /\ api' = "running"
    /\ eos' = FALSE
    /\ count' = 0
    /\ UNCHANGED <<aborting, kinds, flushing, workQueue, workVars, waitVars, listVars, hwVars,
                   clientVars>>

-----------------------------------------------------------------------------
(* Queue: one work of the list *)

QueueWork(kind) ==
    LET w == Len(kinds) + 1
    IN /\ api = "running"
       /\ w <= MaxWorks
       /\ kinds' = Append(kinds, kind)
       /\ \/ /\ kind = "invalid"
             /\ back' = back \cup {w}
             /\ UNCHANGED <<workQueue, eos>>
          \/ /\ kind # "invalid" /\ eos
             /\ W!Push(Cmd("pending", w))
             /\ UNCHANGED <<back, eos>>
          \/ /\ kind = "eos" /\ ~eos
             /\ W!Push(Cmd("drain", w))
             /\ eos' = TRUE
             /\ UNCHANGED back
          \/ /\ kind = "frameEos" /\ ~eos
             /\ workq' = workq \o <<Cmd("work", w), Cmd("drain", 0)>>
             /\ eos' = TRUE
             /\ UNCHANGED <<worker, task, back>>
          \/ /\ kind \in {"frame", "part"} /\ ~eos
             /\ W!Push(Cmd("work", w))
             /\ UNCHANGED <<back, eos>>
       /\ UNCHANGED <<api, aborting, flushing, workVars, waitVars, count, listVars, hwVars,
                      dropped>>

-----------------------------------------------------------------------------
(* Flush *)

FlushBegin ==
    /\ api = "running"
    /\ api' = "flushWork"
    /\ flushing' = TRUE
    /\ W!Push(Cmd("reset", 0))
    /\ UNCHANGED <<aborting, kinds, eos, workVars, waitVars, count, listVars, hwVars, clientVars>>

\* Slip: the working queue is not waited for.
FlushNotWaited ==
    /\ api = "flushWork"
    /\ api' = "flushWait"
    /\ UNCHANGED <<aborting, kinds, eos, flushing, workQueue, workVars, waitVars, count, listVars,
                   hwVars, clientVars>>

\* m_workingQueue.WaitForEmpty()
FlushWorking ==
    /\ api = "flushWork"
    /\ workq = <<>>
    /\ api' = "flushWait"
    /\ UNCHANGED <<aborting, kinds, eos, flushing, workQueue, workVars, waitVars, count, listVars,
                   hwVars, clientVars>>

\* m_waitingQueue.WaitForEmpty()
FlushWaiting ==
    /\ api = "flushWait"
    /\ waitq = <<>>
    /\ api' = "flushEnd"
    /\ UNCHANGED <<aborting, kinds, eos, flushing, workQueue, workVars, waitVars, count, listVars,
                   hwVars, clientVars>>

FlushEnd ==
    /\ api = "flushEnd"
    /\ api' = "flushCollect"
    /\ flushing' = FALSE
    /\ UNCHANGED <<aborting, kinds, eos, workQueue, workVars, waitVars, count, listVars, hwVars,
                   clientVars>>

FlushCollect ==
    /\ api = "flushCollect"
    /\ api' = "running"
    /\ back' = back \cup flushed \cup pending
    /\ pending' = {} /\ duplicated' = {} /\ flushed' = {}
    /\ eos' = FALSE
    /\ UNCHANGED <<aborting, kinds, flushing, workQueue, workVars, waitVars, count, hwVars,
                   dropped>>

-----------------------------------------------------------------------------
(* DoStop: the working queue ends first, then the waiting queue *)

WorksOf(queue) == { queue[i].work : i \in { j \in DOMAIN queue : queue[j].op # "wait" } } \ {0}

\* Slip: both queues are ended at once.
StopBoth(abort) ==
    /\ api = "running"
    /\ api' = "stopWork"
    /\ aborting' = abort
    /\ W!Shutdown(abort) /\ V!Shutdown(abort)
    /\ dropped' = dropped \cup (IF abort THEN WorksOf(workq) \cup WorksOf(waitq) ELSE {})
    /\ UNCHANGED <<kinds, eos, flushing, workVars, found, match, count, listVars, hwVars, back>>

StopWorking(abort) ==
    /\ api = "running"
    /\ api' = "stopWork"
    /\ aborting' = abort
    /\ W!Shutdown(abort)
    /\ dropped' = dropped \cup (IF abort THEN WorksOf(workq) ELSE {})
    /\ UNCHANGED <<kinds, eos, flushing, workVars, waitVars, count, listVars, hwVars, back>>

\* the join of the working thread, if there is one, and the next Stop or Abort
StopWaiting ==
    /\ api = "stopWork"
    /\ W!Join \/ (worker = "none" /\ UNCHANGED workQueue)
    /\ api' = "stopWait"
    /\ V!Shutdown(aborting)
    /\ dropped' = dropped \cup (IF aborting THEN WorksOf(waitq) ELSE {})
    /\ UNCHANGED <<aborting, kinds, eos, flushing, workVars, found, match, count, listVars, hwVars,
                   back>>

\* Slip: DoStop does not wait for the end of the waiting thread.
StopNotJoined ==
    /\ api = "stopWait"
    /\ waiter' = IF waiter = "ended" THEN "none" ELSE waiter
    /\ api' = "stopPending"
    /\ UNCHANGED <<aborting, kinds, eos, flushing, workQueue, workVars, waitq, job, found, match,
                   count, listVars, hwVars, clientVars>>

StopJoined ==
    /\ api = "stopWait"
    /\ V!Join \/ (waiter = "none" /\ UNCHANGED <<waitq, waiter, job>>)
    /\ api' = "stopPending"
    /\ UNCHANGED <<aborting, kinds, eos, flushing, workQueue, workVars, found, match, count,
                   listVars, hwVars, clientVars>>

\* Slip: what is pending is forgotten.
StopForgets ==
    /\ api = "stopPending"
    /\ api' = "stopped" /\ aborting' = FALSE
    /\ pending' = {} /\ duplicated' = {}
    /\ initialized' = FALSE /\ fed' = {}
    /\ UNCHANGED <<kinds, eos, flushing, workQueue, workVars, waitVars, count, flushed,
                   back, dropped>>

\* C2_NOT_FOUND for every pending work; FreeDecoder
StopPending ==
    /\ api = "stopPending"
    /\ api' = "stopped" /\ aborting' = FALSE
    /\ back' = back \cup pending
    /\ pending' = {} /\ duplicated' = {}
    /\ initialized' = FALSE /\ fed' = {}
    /\ UNCHANGED <<kinds, eos, flushing, workQueue, workVars, waitVars, count, flushed,
                   dropped>>

-----------------------------------------------------------------------------
(* The working thread.  Its steps leave the caller's and, but for a push, the *)
(* waiting thread's state alone.                                              *)

Goto(place) == at' = place

\* Slip: the null command is executed like any other.
TakeNull ==
    /\ W!Take
    /\ Goto(task'.op)
    /\ hold' = task'.work
    /\ draining' = (task'.op = "drain")
    /\ UNCHANGED <<apiVars, flushing, outcome, changed, waitVars, count, listVars, hwVars,
                   clientVars>>

TakeTask ==
    /\ W!Take
    /\ Goto(IF task' = NoCmd THEN "idle" ELSE task'.op)
    /\ hold' = task'.work
    /\ draining' = (task'.op = "drain")
    /\ UNCHANGED <<apiVars, flushing, outcome, changed, waitVars, count, listVars, hwVars,
                   clientVars>>

EndTask == /\ W!Finish
           /\ Goto("idle")
           /\ draining' = FALSE /\ outcome' = "none" /\ changed' = FALSE

Holding == IF hold = 0 THEN {} ELSE {hold}

\* DoWork and Drain see m_bFlushing before anything else
WorkFlushed ==
    /\ at = "work" /\ flushing
    /\ flushed' = flushed \cup Holding
    /\ hold' = 0
    /\ EndTask
    /\ UNCHANGED <<apiVars, flushing, waitVars, count, pending,
                   duplicated, hwVars, clientVars>>

WorkBegin ==
    /\ at = "work" /\ ~flushing
    /\ Goto("append")
    /\ UNCHANGED <<apiVars, flushing, workQueue, hold, draining, outcome, changed, waitVars, count,
                   listVars, hwVars, clientVars>>

\* AppendFrame failed, or there is no buffer: the work is returned as it is
AppendOnly ==
    /\ at = "append"
    /\ "append" \in MayFail
    /\ back' = back \cup Holding
    /\ hold' = 0
    /\ EndTask
    /\ UNCHANGED <<apiVars, flushing, waitVars, count, listVars, hwVars,
                   dropped>>

\* PushPending; timestamp 0 is no timestamp
AddPending ==
    LET twins == { p \in pending : TimeStamp[p] = TimeStamp[hold] /\ TimeStamp[hold] # 0 }
    IN /\ duplicated' = duplicated \cup twins \cup (IF twins = {} THEN {} ELSE {hold})
       /\ pending' = pending \cup {hold}
       /\ hold' = 0

AppendPending ==
    /\ at = "append"
    /\ AddPending
    /\ Goto("decode")
    /\ UNCHANGED <<apiVars, flushing, workQueue, draining, outcome, changed, waitVars, count,
                   flushed, hwVars, clientVars>>

\* the task queued for a work that follows the end of stream
PendingTask ==
    /\ at = "pending"
    /\ AddPending
    /\ EndTask
    /\ UNCHANGED <<apiVars, flushing, waitVars, count, flushed, hwVars,
                   clientVars>>

\* InitDecoder or the block pool failed, or the header is not complete yet
InitFails ==
    /\ at = "decode" /\ ~initialized
    /\ "init" \in MayFail
    /\ outcome' \in {"none", "error"}
    /\ Goto("settle")
    /\ UNCHANGED <<apiVars, flushing, workQueue, hold, draining, changed, waitVars, count, listVars,
                   hwVars, clientVars>>

InitDone ==
    /\ at = "decode"
    /\ initialized' = TRUE
    /\ Goto("alloc")
    /\ UNCHANGED <<apiVars, flushing, workQueue, hold, draining, outcome, changed, waitVars, count,
                   listVars, fed, clientVars>>

\* Slip: without a frame to drain into, the end of stream is given up.
AllocFailsDropsEos ==
    /\ at = "alloc"
    /\ Stopping \/ "alloc" \in MayFail
    /\ IF draining THEN Goto("drainWait") /\ UNCHANGED outcome
                   ELSE Goto("settle") /\ outcome' = "error"
    /\ UNCHANGED <<apiVars, flushing, workQueue, hold, draining, changed, waitVars, count, listVars,
                   hwVars, clientVars>>

\* AllocateFrame; C2_CANCELED once DoStop has begun
AllocFails ==
    /\ at = "alloc"
    /\ Stopping \/ "alloc" \in MayFail
    /\ IF draining THEN Goto("drainEos") /\ UNCHANGED outcome
                   ELSE Goto("settle") /\ outcome' = "error"
    /\ UNCHANGED <<apiVars, flushing, workQueue, hold, draining, changed, waitVars, count, listVars,
                   hwVars, clientVars>>

AllocDone ==
    /\ at = "alloc"
    /\ ~Stopping
    /\ Goto("gate")
    /\ UNCHANGED <<apiVars, flushing, workQueue, hold, draining, outcome, changed, waitVars, count,
                   listVars, hwVars, clientVars>>

\* m_devBusyCond.wait: "Prevent msdk decoder from overfeeding"
Gate ==
    /\ at = "gate"
    /\ count < AsyncDepth
    /\ Goto("call")
    /\ UNCHANGED <<apiVars, flushing, workQueue, hold, draining, outcome, changed, waitVars, count,
                   listVars, hwVars, clientVars>>

(* m_mfxDecoder->DecodeFrameAsync *)

\* the frames the hardware may have after reading the bitstream of the current work
Fed(w) == IF HasFrame(w) THEN fed \cup {w} ELSE fed

\* MFX_ERR_MORE_DATA: the bitstream is read, no frame comes out.  Of two works with
\* the same timestamp the second may complete the frame of the first.
CallBuffers ==
    /\ at = "call" /\ ~draining
    /\ fed' = Fed(task.work) \/ (task.work \in duplicated /\ fed' = fed)
    /\ outcome' = "expect"
    /\ Goto("settle")
    /\ UNCHANGED <<apiVars, flushing, workQueue, hold, draining, changed, waitVars, count, listVars,
                   initialized, clientVars>>

\* MFX_ERR_NONE: a frame comes out, before or after the bitstream is read
CallOutputs(f, reads) ==
    /\ at = "call"
    /\ draining => ~reads
    /\ f \in (IF reads THEN Fed(task.work) ELSE fed)
    /\ fed' = (IF reads THEN Fed(task.work) ELSE fed) \ {f}
    /\ V!Push(Cmd("wait", f))
    /\ outcome' = "expect"
    /\ Goto(IF reads THEN "countLast" ELSE "count")
    /\ UNCHANGED <<apiVars, flushing, workQueue, hold, draining, changed, found, match, count,
                   listVars, initialized, clientVars>>

\* MFX_ERR_MORE_DATA from a drained decoder
CallDrained ==
    /\ at = "call" /\ draining
    /\ fed = {}
    /\ Goto("drainEos")
    /\ UNCHANGED <<apiVars, flushing, workQueue, hold, draining, outcome, changed, waitVars, count,
                   listVars, hwVars, clientVars>>

\* MFX_WRN_DEVICE_BUSY; without a flush the call is made again
CallBusy ==
    /\ at = "call" /\ flushing
    /\ IF draining THEN /\ flushed' = flushed \cup Holding
                        /\ hold' = 0
                        /\ Goto("drainWait")
                        /\ UNCHANGED outcome
                   ELSE /\ outcome' = "flushing"
                        /\ Goto("settle")
                        /\ UNCHANGED <<flushed, hold>>
    /\ UNCHANGED <<apiVars, flushing, workQueue, draining, changed, waitVars, count, pending,
                   duplicated, hwVars, clientVars>>

\* an error, or busy for too long
CallFails ==
    /\ at = "call"
    /\ "device" \in MayFail
    /\ IF draining THEN Goto("drainEos") /\ UNCHANGED outcome
                   ELSE Goto("settle") /\ outcome' = "error"
    /\ UNCHANGED <<apiVars, flushing, workQueue, hold, draining, changed, waitVars, count, listVars,
                   hwVars, clientVars>>

\* MFX_ERR_INCOMPATIBLE_VIDEO_PARAM: drain, then begin again with the same bitstream.
\* Bound: once in a work.
CallChanges ==
    /\ at = "call" /\ ~draining /\ ~changed
    /\ "change" \in MayFail
    /\ changed' = TRUE
    /\ draining' = TRUE
    /\ outcome' = "none"
    /\ Goto("drain")
    /\ UNCHANGED <<apiVars, flushing, workQueue, hold, waitVars, count, listVars, hwVars,
                   clientVars>>

\* ++m_uSyncedPointsCount, after the push of WaitWork
Count ==
    /\ at \in {"count", "countLast"}
    /\ count' = (count + 1) % CountMod
    /\ Goto(CASE at = "countLast" -> "settle"
              [] at = "count" /\ draining -> "drain"
              [] at = "count" /\ ~draining -> "alloc")
    /\ UNCHANGED <<apiVars, flushing, workQueue, hold, draining, outcome, changed, waitVars,
                   listVars, hwVars, clientVars>>

\* Slip: the work is returned and left in m_pendingWorks.
SettleCopies ==
    LET w == task.work
        partial == kinds[w] = "part" \/ (~changed /\ w \in duplicated)
    IN /\ at = "settle"
       /\ IF (outcome = "expect" /\ ~partial) \/ w \notin pending
          THEN UNCHANGED <<flushed, back>>
          ELSE IF outcome = "flushing"
          THEN flushed' = flushed \cup {w} /\ UNCHANGED back
          ELSE back' = back \cup {w} /\ UNCHANGED flushed
       /\ EndTask
       /\ UNCHANGED <<apiVars, flushing, hold, waitVars, count, pending,
                      duplicated, hwVars, dropped>>

\* the end of DoWork: a work that will have no frame of its own is returned now,
\* unless WaitWork has returned it already
Settle ==
    LET w == task.work
        partial == kinds[w] = "part" \/ (~changed /\ w \in duplicated)
    IN /\ at = "settle"
       /\ IF (outcome = "expect" /\ ~partial) \/ w \notin pending
          THEN UNCHANGED <<pending, flushed, back>>
          ELSE /\ pending' = pending \ {w}
               /\ IF outcome = "flushing"
                  THEN flushed' = flushed \cup {w} /\ UNCHANGED back
                  ELSE back' = back \cup {w} /\ UNCHANGED flushed
       /\ EndTask
       /\ UNCHANGED <<apiVars, flushing, hold, waitVars, count,
                      duplicated, hwVars, dropped>>

-----------------------------------------------------------------------------
(* Drain(), as a task or inside DoWork *)

\* not initialized: the end of stream is returned at once
DrainNothing ==
    /\ at = "drain" /\ ~initialized
    /\ back' = back \cup Holding
    /\ hold' = 0
    /\ EndTask
    /\ UNCHANGED <<apiVars, flushing, waitVars, count, listVars, hwVars,
                   dropped>>

DrainFlushed ==
    /\ at = "drain" /\ initialized /\ flushing
    /\ flushed' = flushed \cup Holding
    /\ hold' = 0
    /\ Goto("drainWait")
    /\ UNCHANGED <<apiVars, flushing, workQueue, draining, outcome, changed, waitVars, count,
                   pending, duplicated, hwVars, clientVars>>

\* Slip: the end of stream is queued before the frames that remain.
DrainEosFirst ==
    /\ at = "drain" /\ initialized /\ ~flushing
    /\ IF hold = 0 THEN UNCHANGED waitVars
                   ELSE V!Push(Cmd("eos", hold)) /\ UNCHANGED <<found, match>>
    /\ hold' = 0
    /\ Goto("alloc")
    /\ UNCHANGED <<apiVars, flushing, workQueue, draining, outcome, changed, count, listVars,
                   hwVars, clientVars>>

DrainBegin ==
    /\ at = "drain" /\ initialized /\ ~flushing
    /\ Goto("alloc")
    /\ UNCHANGED <<apiVars, flushing, workQueue, hold, draining, outcome, changed, waitVars, count,
                   listVars, hwVars, clientVars>>

\* "eos work, should be sent after last work returned"
DrainEos ==
    /\ at = "drainEos"
    /\ IF hold = 0 THEN UNCHANGED waitVars
                   ELSE V!Push(Cmd("eos", hold)) /\ UNCHANGED <<found, match>>
    /\ hold' = 0
    /\ Goto("drainWait")
    /\ UNCHANGED <<apiVars, flushing, workQueue, draining, outcome, changed, count, listVars,
                   hwVars, clientVars>>

\* m_devBusyCond.wait_for
DrainWait ==
    /\ at = "drainWait"
    /\ count = 0 \/ "timeout" \in MayFail
    /\ IF task.op = "work" THEN /\ Goto("reinit")
                                /\ UNCHANGED <<workQueue, draining, outcome, changed>>
                           ELSE EndTask
    /\ UNCHANGED <<apiVars, flushing, hold, waitVars, count, listVars, hwVars, clientVars>>

\* after a resolution change only the current work stays pending; HandleFormatChange
Reinit ==
    /\ at = "reinit"
    /\ back' = back \cup (pending \ {task.work})
    /\ pending' = pending \cap {task.work}
    /\ initialized' = FALSE /\ fed' = {}
    /\ draining' = FALSE
    /\ Goto("decode")
    /\ UNCHANGED <<apiVars, flushing, workQueue, hold, outcome, changed, waitVars, count,
                   duplicated, flushed, dropped>>

\* the task pushed by Flush
Reset ==
    /\ at = "reset"
    /\ fed' = {}
    /\ EndTask
    /\ UNCHANGED <<apiVars, flushing, hold, waitVars, count, listVars,
                   initialized, clientVars>>

-----------------------------------------------------------------------------
(* The waiting thread.  Its steps leave the working thread's state alone. *)

\* SyncOperation begins, or the end-of-stream task
TakeJob ==
    /\ V!Take
    /\ found' = IF job'.op = "wait" THEN "sync" ELSE "idle"
    /\ UNCHANGED <<apiVars, flushing, workQueue, workVars, match, count, listVars, hwVars,
                   clientVars>>

EosReturned ==
    /\ job.op = "eos"
    /\ back' = back \cup {job.work}
    /\ V!Finish
    /\ UNCHANGED <<apiVars, flushing, workQueue, workVars, found, match, count, listVars, hwVars,
                   dropped>>

\* The frame is ready: the first pending work with its timestamp is taken.
WaitWorkFinds ==
    LET same == { p \in pending : TimeStamp[p] = TimeStamp[job.work] }
    IN /\ found = "sync"
       /\ match' = IF same = {} THEN 0 ELSE CHOOSE p \in same : \A q \in same : p <= q
       /\ pending' = pending \ {match'}
       /\ found' = IF same = {} THEN "count" ELSE "notify"
       /\ UNCHANGED <<apiVars, flushing, workQueue, workVars, waitq, waiter, job, count, duplicated,
                      flushed, hwVars, clientVars>>

WaitWorkNotifies ==
    /\ found = "notify"
    /\ back' = back \cup {match}
    /\ match' = 0
    /\ found' = "count"
    /\ UNCHANGED <<apiVars, flushing, workQueue, workVars, waitq, waiter, job, count, listVars,
                   hwVars, dropped>>

\* --m_uSyncedPointsCount, then m_devBusyCond.notify_one()
WaitWorkCounts ==
    /\ found = "count"
    /\ count' = (count + CountMod - 1) % CountMod
    /\ found' = "idle"
    /\ V!Finish
    /\ UNCHANGED <<apiVars, flushing, workQueue, workVars, match, listVars, hwVars, clientVars>>

-----------------------------------------------------------------------------
Flush == FlushBegin \/ FlushWorking \/ FlushWaiting \/ FlushEnd \/ FlushCollect
Stop == (\E abort \in BOOLEAN : StopWorking(abort)) \/ StopWaiting \/ StopJoined \/ StopPending

DoWork == \/ WorkFlushed \/ WorkBegin \/ AppendOnly \/ AppendPending \/ InitFails \/ InitDone
          \/ Settle
DecodeFrame == \/ AllocFails \/ AllocDone \/ Gate \/ CallBuffers
               \/ \E f \in Works, reads \in BOOLEAN : CallOutputs(f, reads)
               \/ CallDrained \/ CallBusy \/ CallFails \/ CallChanges \/ Count
Drain == \/ DrainNothing \/ DrainFlushed \/ DrainBegin \/ DrainEos \/ DrainWait \/ Reinit
Working == TakeTask \/ DoWork \/ DecodeFrame \/ Drain \/ PendingTask \/ Reset

Waiting == TakeJob \/ EosReturned \/ WaitWorkFinds \/ WaitWorkNotifies \/ WaitWorkCounts

Next == \/ Start \/ StartFails
        \/ \E kind \in Kinds : QueueWork(kind)
        \/ Flush \/ Stop
        \/ Working \/ Waiting

Spec == Init /\ [][Next]_vars

\* The two threads and a call in progress go on; nobody is obliged to begin a call.
Fairness ==
    /\ WF_vars(Working) /\ WF_vars(Waiting)
    /\ WF_vars(FlushWorking \/ FlushWaiting \/ FlushEnd \/ FlushCollect)
    /\ WF_vars(StopWaiting \/ StopJoined \/ StopPending)

FairSpec == Spec /\ Fairness

-----------------------------------------------------------------------------
(* Properties *)

Places == {"idle", "work", "append", "pending", "decode", "alloc", "gate", "call", "count",
           "countLast", "settle", "drain", "drainEos", "drainWait", "reinit", "reset"}

CallTypes ==
    /\ api \in {"stopped", "running", "flushWork", "flushWait", "flushEnd", "flushCollect",
                "stopWork", "stopWait", "stopPending"}
    /\ aborting \in BOOLEAN /\ eos \in BOOLEAN /\ flushing \in BOOLEAN
    /\ kinds \in Seq(Kinds) /\ Len(kinds) <= MaxWorks

WorkTypes ==
    /\ workq \in Seq(WorkCmds \cup {NoCmd}) /\ task \in WorkCmds \cup {NoCmd}
    /\ worker \in {"none", "up", "ended"}
    /\ at \in Places
    /\ at = "idle" <=> task = NoCmd
    /\ hold \in 0 .. MaxWorks
    /\ draining \in BOOLEAN /\ changed \in BOOLEAN
    /\ outcome \in {"none", "expect", "error", "flushing"}

WaitTypes ==
    /\ waitq \in Seq(WaitCmds \cup {NoCmd}) /\ job \in WaitCmds \cup {NoCmd}
    /\ waiter \in {"none", "up", "ended"}
    /\ found \in {"idle", "sync", "notify", "count"}
    /\ found # "idle" <=> job.op = "wait"
    /\ match \in 0 .. MaxWorks

DataTypes ==
    /\ count \in 0 .. CountMod - 1
    /\ initialized \in BOOLEAN
    /\ pending \subseteq Works /\ duplicated \subseteq Works /\ flushed \subseteq Works
    /\ fed \subseteq Works

ClientTypes == back \subseteq Works /\ dropped \subseteq Works

TypeOK == CallTypes /\ WorkTypes /\ WaitTypes /\ DataTypes /\ ClientTypes

Queued == 1 .. Len(kinds)
EosInHand == IF job.op = "eos" THEN {job.work} ELSE {}
Matched == {match} \ {0}

\* every place where a queued work can be
WorkPlaces == <<WorksOf(workq), Holding, pending, WorksOf(waitq), EosInHand, Matched,
                flushed, back, dropped>>

\* A queued work is in exactly one place, whatever the two threads and Flush or Stop do
\* at the same time: it is neither lost nor given back twice.
EveryWorkInOnePlace ==
    /\ UNION { WorkPlaces[i] : i \in DOMAIN WorkPlaces } = Queued
    /\ \A i, j \in DOMAIN WorkPlaces : i # j => WorkPlaces[i] \cap WorkPlaces[j] = {}

\* DoStop leaves nothing behind: no task for the threads of the next start ("as a result,
\* such tasks will be processed after next start which is bad"), and every work was given
\* back or discarded by an Abort.
StopLeavesNothing ==
    api = "stopped" => /\ workq = <<>> /\ waitq = <<>>
                       /\ Queued = back \cup dropped

\* Sync points handed to the waiting queue and not yet counted down.
Outstanding == Cardinality({ i \in DOMAIN waitq : waitq[i].op = "wait" })
                 + (IF job.op = "wait" THEN 1 ELSE 0)

\* m_uSyncedPointsCount wraps below zero when WaitWork ends before DecodeFrame counts
\* its push, but no condition is ever evaluated on such a value: where the working thread
\* looks at it, it is the number of outstanding sync points, and so the decoder is never fed
\* beyond AsyncDepth of them.
CountSeenIsRight == /\ at \in {"gate", "drainWait"} => count = Outstanding
                    /\ Outstanding <= AsyncDepth

\* "eos work, should be sent after last work returned": when the waiting thread takes the
\* end of stream, every work queued before it has come back, except to a Flush or a DoStop
\* in progress, which give back the rest themselves.
EosIsLast ==
    job.op = "eos" => \/ Stopping
                      \/ 1 .. job.work - 1 \subseteq back \cup dropped \cup flushed

\* When Flush takes m_flushedWorks and m_pendingWorks, no task can add to them any more:
\* the works still on their way are in the hands of WaitWork or the end-of-stream task.
FlushSeesAll ==
    api = "flushCollect" =>
        /\ at \in {"idle", "reset"} /\ workq = <<>> /\ waitq = <<>>
        /\ Queued = flushed \cup pending \cup back \cup dropped \cup Matched \cup EosInHand

\* "Turn off flushing mode only after working/waiting queues did all the job"
FlushAfterAllJobs == api = "flushCollect" => task = NoCmd /\ job = NoCmd

\* Nothing is given back to the listener of a stopped component.
QuietWhenStopped == [][api = "stopped" => back' = back]_vars

\* Flush returns.
FlushReturns == api \in {"flushWork", "flushWait", "flushEnd", "flushCollect"} ~> api = "running"

\* DoStop returns: the working thread is never left waiting for a sync point that the
\* waiting thread, already ended, would have to count down.
StopReturns == Stopping ~> api = "stopped"

\* Both threads keep going while Flush or DoStop waits for them, so both calls return.
CallsReturn == FlushReturns /\ StopReturns

\* An end of stream that waits for its Drain comes back, or is discarded by an Abort.
EosComesBack ==
    \A w \in Works :
        (\E i \in DOMAIN workq : workq[i] = Cmd("drain", w)) ~> w \in back \cup dropped
=============================================================================
