-------------------------- MODULE MfxC2DecoderProofs --------------------------
(***************************************************************************)
(* Proofs about MfxC2Decoder, for any number of works, any timestamps, any *)
(* AsyncDepth and everything that may fail; the last sections, about the   *)
(* end of stream, for distinct timestamps and for hardware that does not   *)
(* fail.                                                                   *)
(***************************************************************************)
EXTENDS MfxC2Decoder, WorkLists, WellFoundedInduction

-----------------------------------------------------------------------------
(* Type correctness, and where the work of a task is *)

\* Where Drain() can be when it is a task of its own.
DrainPlaces == {"drain", "alloc", "gate", "call", "count", "drainEos", "drainWait"}

\* The working thread has the work of its task in its hands until it is pending, given back,
\* flushed or sent to the waiting thread; the waiting thread has a matched work between taking
\* it from m_pendingWorks and giving it back.
HoldsWork ==
    /\ task.op = "stop" => hold = 0 /\ outcome = "none"
    /\ task.op = "work" => /\ at \notin {"idle", "pending", "reset"}
                           /\ hold = IF at \in {"work", "append"} THEN task.work ELSE 0
    /\ task.op = "pending" => at = "pending" /\ hold = task.work
    /\ task.op = "reset" => at = "reset" /\ hold = 0
    /\ task.op = "drain" => /\ at \in DrainPlaces /\ draining = TRUE
                            /\ hold \in {0, task.work}
                            /\ at = "drainWait" => hold = 0
    /\ at \in {"idle", "work", "append", "pending", "decode", "settle", "countLast", "reset"}
           => draining = FALSE

HoldsMatch == match # 0 <=> found = "notify"

TaskPlaces == HoldsWork /\ HoldsMatch

LEMMA CommandFields ==
    /\ NoCmd.op = "stop" /\ NoCmd.work = 0
    /\ \A c \in WorkCmds : /\ c.op \in {"work", "drain", "pending", "reset"}
                           /\ c.work \in 0 .. MaxWorks
                           /\ c.op \in {"work", "pending"} => c.work \in Works
                           /\ c.op = "reset" => c.work = 0
                           /\ c # NoCmd
    /\ \A c \in WaitCmds : /\ c.op \in {"wait", "eos"} /\ c.work \in Works
                           /\ c # NoCmd
    /\ \A w \in Works : w \in Nat /\ w # 0 /\ w \in 0 .. MaxWorks
  BY ConstantsAssumption DEF WorkCmds, WaitCmds, Cmd, NoCmd, Works

LEMMA CommandMade ==
    ASSUME NEW op, NEW w
    PROVE  Cmd(op, w).op = op /\ Cmd(op, w).work = w
  BY DEF Cmd

LEMMA CommandsMade ==
    /\ \A w \in Works : /\ Cmd("work", w) \in WorkCmds /\ Cmd("drain", w) \in WorkCmds
                        /\ Cmd("pending", w) \in WorkCmds
    /\ Cmd("drain", 0) \in WorkCmds /\ Cmd("reset", 0) \in WorkCmds
    /\ \A w \in Works : Cmd("wait", w) \in WaitCmds /\ Cmd("eos", w) \in WaitCmds
  BY DEF WorkCmds, WaitCmds

\* Cmd makes a command stand for its fields: two commands differ when a field does.
LEMMA ResetIsReset ==
    \A c \in WorkCmds \cup {NoCmd} : c = Cmd("reset", 0) <=> c.op = "reset"
  BY DEF WorkCmds, NoCmd, Cmd

LEMMA TypeInit == ASSUME Init PROVE TypeOK /\ TaskPlaces
  <1>1. task = NoCmd /\ job = NoCmd /\ workq = <<>> /\ waitq = <<>> /\ worker = "none"
        /\ waiter = "none"
    BY DEF Init, W!Init, V!Init
  <1>2. aborting \in BOOLEAN /\ eos \in BOOLEAN /\ flushing \in BOOLEAN /\ draining \in BOOLEAN
        /\ changed \in BOOLEAN /\ initialized \in BOOLEAN
    BY Zenon DEF Init
  <1>3. WorkTypes
    BY <1>1, <1>2, ConstantsAssumption DEF Init, WorkTypes, Places
  <1>4. WaitTypes
    BY <1>1, CommandFields, ConstantsAssumption DEF Init, WaitTypes
  <1>5. CallTypes
    <2>1. <<>> \in Seq(Kinds) /\ Len(<<>>) = 0
      OBVIOUS
    <2> QED
      BY <1>2, <2>1, ConstantsAssumption DEF Init, CallTypes
  <1>6. DataTypes
    <2>1. 0 \in 0 .. CountMod - 1
      BY ConstantsAssumption
    <2> QED
      BY <1>2, <2>1 DEF Init, DataTypes
  <1>7. ClientTypes
    BY DEF Init, ClientTypes
  <1>8. TaskPlaces
    BY <1>1, CommandFields DEF Init, TaskPlaces, HoldsWork, HoldsMatch
  <1> QED
    BY <1>3, <1>4, <1>5, <1>6, <1>7, <1>8 DEF TypeOK

\* What a step leaves alone keeps its type.
LEMMA TypeFrame ==
    ASSUME TypeOK, TaskPlaces
    PROVE  /\ UNCHANGED <<apiVars, flushing>> => CallTypes'
           /\ UNCHANGED <<workQueue, workVars>> => WorkTypes' /\ HoldsWork'
           /\ UNCHANGED waitVars => WaitTypes' /\ HoldsMatch'
           /\ UNCHANGED <<count, listVars, hwVars>> => DataTypes'
           /\ UNCHANGED clientVars => ClientTypes'
  <1> USE DEF TypeOK
  <1>1. UNCHANGED <<apiVars, flushing>> => CallTypes'
    BY DEF CallTypes, apiVars
  <1>2. UNCHANGED <<workQueue, workVars>> => WorkTypes' /\ HoldsWork'
    BY DEF WorkTypes, TaskPlaces, HoldsWork, workQueue, workVars
  <1>3. UNCHANGED waitVars => WaitTypes' /\ HoldsMatch'
    BY DEF WaitTypes, TaskPlaces, HoldsMatch, waitVars
  <1>4. UNCHANGED <<count, listVars, hwVars>> => DataTypes'
    BY DEF DataTypes, listVars, hwVars
  <1>5. UNCHANGED clientVars => ClientTypes'
    BY DEF ClientTypes, clientVars
  <1> QED
    BY <1>1, <1>2, <1>3, <1>4, <1>5

\* What the queues do to their lists.
LEMMA ListTypes ==
    ASSUME TypeOK
    PROVE  /\ \A c \in WorkCmds \cup {NoCmd} : Append(workq, c) \in Seq(WorkCmds \cup {NoCmd})
           /\ \A c \in WaitCmds \cup {NoCmd} : Append(waitq, c) \in Seq(WaitCmds \cup {NoCmd})
           /\ <<NoCmd>> \in Seq(WorkCmds \cup {NoCmd})
           /\ <<NoCmd>> \in Seq(WaitCmds \cup {NoCmd})
           /\ workq # <<>> => /\ Tail(workq) \in Seq(WorkCmds \cup {NoCmd})
                              /\ Head(workq) \in WorkCmds \cup {NoCmd}
           /\ waitq # <<>> => /\ Tail(waitq) \in Seq(WaitCmds \cup {NoCmd})
                              /\ Head(waitq) \in WaitCmds \cup {NoCmd}
  BY DEF TypeOK, WorkTypes, WaitTypes

\* The task and the work in hand, by the place the working thread is in.
LEMMA InHand ==
    ASSUME TypeOK, TaskPlaces
    PROVE  /\ at = "idle" => task = NoCmd /\ hold = 0 /\ outcome = "none"
           /\ at # "idle" => task \in WorkCmds
           /\ hold # 0 => hold \in Works /\ hold = task.work
           /\ Holding \subseteq Works
           /\ at \in {"work", "append"} => task.op = "work" /\ hold \in Works
           /\ at = "pending" => task.op = "pending" /\ hold \in Works
           /\ at = "reset" => task.op = "reset" /\ hold = 0
           /\ at \in {"decode", "settle", "countLast", "reinit"} =>
                task.op = "work" /\ task.work \in Works /\ hold = 0
           /\ at \in {"alloc", "gate", "call", "count"} /\ ~draining =>
                task.op = "work" /\ task.work \in Works /\ hold = 0
           /\ at \in DrainPlaces => \/ task.op = "work" /\ task.work \in Works /\ hold = 0
                                    \/ task.op = "drain" /\ draining = TRUE
           /\ at = "drainWait" => hold = 0
  <1> USE CommandFields, ConstantsAssumption DEF TypeOK, WorkTypes, TaskPlaces, HoldsWork
  <1>1. task \in WorkCmds \/ task = NoCmd
    OBVIOUS
  <1>2. hold # 0 => hold \in Works /\ hold = task.work
    <2>1. hold # 0 => hold = task.work
      BY <1>1
    <2>2. hold # 0 => hold \in Works
      BY DEF Works
    <2> QED
      BY <2>1, <2>2
  <1>3. Holding \subseteq Works
    BY <1>2 DEF Holding
  <1>4. at # "idle" => task \in WorkCmds /\ task.op \in {"work", "drain", "pending", "reset"}
    BY <1>1
  <1>5. at = "idle" => task = NoCmd /\ hold = 0 /\ outcome = "none"
    OBVIOUS
  <1>6. task.op = "work" => task.work \in Works
    BY <1>1
  <1>7. at \in {"work", "append", "decode", "settle", "countLast", "reinit"} => task.op = "work"
    BY <1>4 DEF DrainPlaces
  <1>8. at \in DrainPlaces => task.op \in {"work", "drain"}
    BY <1>4 DEF DrainPlaces
  <1>9. at \in {"alloc", "gate", "call", "count"} /\ ~draining => task.op = "work"
    BY <1>8 DEF DrainPlaces
  <1>10. at = "pending" => task.op = "pending" /\ hold \in Works
    BY <1>4 DEF DrainPlaces
  <1>11. at = "reset" => task.op = "reset" /\ hold = 0
    BY <1>4 DEF DrainPlaces
  <1> QED
    BY <1>1, <1>2, <1>3, <1>4, <1>5, <1>6, <1>7, <1>8, <1>9, <1>10, <1>11 DEF DrainPlaces

\* Only the queue of the working thread changes.
LEMMA WorkQueueTypes ==
    ASSUME TypeOK, TaskPlaces, UNCHANGED <<task, workVars>>,
           workq' \in Seq(WorkCmds \cup {NoCmd}), worker' \in {"none", "up", "ended"}
    PROVE  WorkTypes' /\ HoldsWork'
  BY DEF TypeOK, WorkTypes, TaskPlaces, HoldsWork, workVars

\* Only the queue of the waiting thread changes.
LEMMA WaitQueueTypes ==
    ASSUME TypeOK, TaskPlaces, UNCHANGED <<job, found, match>>,
           waitq' \in Seq(WaitCmds \cup {NoCmd}), waiter' \in {"none", "up", "ended"}
    PROVE  WaitTypes' /\ HoldsMatch'
  BY DEF TypeOK, WaitTypes, TaskPlaces, HoldsMatch

\* The steps of DoStart, Queue and Flush.
LEMMA TypeCalls ==
    ASSUME TypeOK, TaskPlaces,
           \/ Start \/ StartFails \/ Flush
           \/ \E kind \in Kinds : QueueWork(kind)
    PROVE  TypeOK' /\ TaskPlaces'
  <1> USE DEF TypeOK, TaskPlaces
  <1>1. CASE Start \/ StartFails
    <2>1. UNCHANGED <<task, workVars>> /\ workq' = workq /\ worker' \in {"up", worker}
      BY <1>1 DEF Start, StartFails, W!Start, workQueue
    <2>2. WorkTypes' /\ HoldsWork'
      BY <2>1, WorkQueueTypes DEF WorkTypes
    <2>3. UNCHANGED <<job, found, match>> /\ waitq' = waitq /\ waiter' \in {"up", waiter}
      BY <1>1 DEF Start, StartFails, V!Start, waitVars
    <2>4. WaitTypes' /\ HoldsMatch'
      BY <2>3, WaitQueueTypes DEF WaitTypes
    <2>5. eos' \in BOOLEAN
      BY <1>1, Zenon DEF Start, StartFails
    <2>6. CallTypes'
      BY <1>1, <2>5 DEF Start, StartFails, CallTypes
    <2>7. DataTypes' /\ ClientTypes'
      BY <1>1, ConstantsAssumption
      DEF Start, StartFails, listVars, hwVars, clientVars, DataTypes, ClientTypes
    <2> QED
      BY <2>2, <2>4, <2>6, <2>7
  <1>2. ASSUME NEW kind \in Kinds, QueueWork(kind)
        PROVE  TypeOK' /\ TaskPlaces'
    <2> DEFINE w == Len(kinds) + 1
    <2>1. w \in Works
      BY <1>2 DEF QueueWork, Works, CallTypes
    <2>2. UNCHANGED <<worker, task, workVars, waitVars, count, listVars, hwVars, dropped>>
      BY <1>2 DEF QueueWork, W!Push, workQueue
    <2>3. eos' \in BOOLEAN
      <3>1. eos' = TRUE \/ eos' = eos
        BY <1>2 DEF QueueWork
      <3> QED
        BY <3>1 DEF CallTypes
    <2>4. CallTypes'
      BY <1>2, <2>3 DEF QueueWork, CallTypes
    <2>5. workq' \in Seq(WorkCmds \cup {NoCmd})
      <3>1. CASE workq' = workq \o <<Cmd("work", w), Cmd("drain", 0)>>
        <4>1. Cmd("work", w) \in WorkCmds /\ Cmd("drain", 0) \in WorkCmds
          BY <2>1, CommandsMade
        <4> HIDE DEF w
        <4> QED
          BY <3>1, <4>1 DEF WorkTypes
      <3>2. CASE \E op \in {"pending", "drain", "work"} : workq' = Append(workq, Cmd(op, w))
        BY <2>1, <3>2, CommandsMade, ListTypes
      <3>3. CASE workq' = workq
        BY <3>3 DEF WorkTypes
      <3> QED
        BY <1>2, <3>1, <3>2, <3>3 DEF QueueWork, W!Push, workQueue
    <2>6. WorkTypes' /\ HoldsWork'
      BY <2>2, <2>5, WorkQueueTypes DEF WorkTypes
    <2>7. ClientTypes'
      BY <1>2, <2>1, <2>2 DEF QueueWork, ClientTypes
    <2> QED
      BY <2>2, <2>4, <2>6, <2>7, TypeFrame
  <1>3. CASE FlushBegin
    <2>1. UNCHANGED <<worker, task, workVars>> /\ workq' = Append(workq, Cmd("reset", 0))
      BY <1>3 DEF FlushBegin, W!Push
    <2>2. WorkTypes' /\ HoldsWork'
      BY <2>1, ListTypes, CommandsMade, WorkQueueTypes DEF WorkTypes
    <2>3. flushing' \in BOOLEAN
      BY <1>3, Zenon DEF FlushBegin
    <2>4. CallTypes'
      BY <1>3, <2>3 DEF FlushBegin, CallTypes
    <2> QED
      BY <1>3, <2>2, <2>4, TypeFrame DEF FlushBegin
  <1>4. CASE FlushWorking \/ FlushWaiting
    <2>1. CallTypes'
      BY <1>4 DEF FlushWorking, FlushWaiting, CallTypes
    <2> QED
      BY <1>4, <2>1, TypeFrame DEF FlushWorking, FlushWaiting
  <1>5. CASE FlushEnd
    <2>1. flushing' \in BOOLEAN
      BY <1>5, Zenon DEF FlushEnd
    <2>2. CallTypes'
      BY <1>5, <2>1 DEF FlushEnd, CallTypes
    <2> QED
      BY <1>5, <2>2, TypeFrame DEF FlushEnd
  <1>6. CASE FlushCollect
    <2>1. eos' \in BOOLEAN
      BY <1>6, Zenon DEF FlushCollect
    <2>2. CallTypes'
      BY <1>6, <2>1 DEF FlushCollect, CallTypes
    <2>3. DataTypes' /\ ClientTypes'
      BY <1>6 DEF FlushCollect, hwVars, DataTypes, ClientTypes
    <2> QED
      BY <1>6, <2>2, <2>3, TypeFrame DEF FlushCollect
  <1> QED
    BY <1>1, <1>2, <1>3, <1>4, <1>5, <1>6 DEF Flush

LEMMA TypeStop ==
    ASSUME TypeOK, TaskPlaces, Stop
    PROVE  TypeOK' /\ TaskPlaces'
  <1> USE DEF TypeOK, TaskPlaces
  <1>0. WorksOf(workq) \subseteq Works /\ WorksOf(waitq) \subseteq Works
    <2>1. WorksOf(workq) \subseteq 0 .. MaxWorks /\ WorksOf(waitq) \subseteq 0 .. MaxWorks
      BY CommandFields, ConstantsAssumption DEF WorksOf, WorkTypes, WaitTypes
    <2>2. 0 \notin WorksOf(workq) /\ 0 \notin WorksOf(waitq)
      BY DEF WorksOf
    <2> QED
      BY <2>1, <2>2, ConstantsAssumption DEF Works
  <1>1. ASSUME NEW abort \in BOOLEAN, StopWorking(abort)
        PROVE  TypeOK' /\ TaskPlaces'
    <2>1. UNCHANGED <<worker, task, workVars>> /\ workq' \in Seq(WorkCmds \cup {NoCmd})
      BY <1>1, ListTypes DEF StopWorking, W!Shutdown
    <2>2. WorkTypes' /\ HoldsWork'
      BY <2>1, WorkQueueTypes DEF WorkTypes
    <2>3. CallTypes' /\ ClientTypes'
      BY <1>0, <1>1 DEF StopWorking, CallTypes, ClientTypes
    <2> QED
      BY <1>1, <2>2, <2>3, TypeFrame DEF StopWorking
  <1>2. CASE StopWaiting
    <2>1. UNCHANGED <<workq, task, workVars>> /\ worker' \in {"none", worker}
      BY <1>2 DEF StopWaiting, W!Join, workQueue
    <2>2. WorkTypes' /\ HoldsWork'
      BY <2>1, WorkQueueTypes DEF WorkTypes
    <2>3. UNCHANGED <<waiter, job, found, match>> /\ waitq' \in Seq(WaitCmds \cup {NoCmd})
      BY <1>2, ListTypes DEF StopWaiting, V!Shutdown
    <2>4. WaitTypes' /\ HoldsMatch'
      BY <2>3, WaitQueueTypes DEF WaitTypes
    <2>5. CallTypes' /\ ClientTypes'
      BY <1>0, <1>2 DEF StopWaiting, CallTypes, ClientTypes
    <2> QED
      BY <1>2, <2>2, <2>4, <2>5, TypeFrame DEF StopWaiting
  <1>3. CASE StopJoined
    <2>1. UNCHANGED <<waitq, job, found, match>> /\ waiter' \in {"none", waiter}
      BY <1>3 DEF StopJoined, V!Join
    <2>2. WaitTypes' /\ HoldsMatch'
      BY <2>1, WaitQueueTypes DEF WaitTypes
    <2>3. CallTypes'
      BY <1>3 DEF StopJoined, CallTypes
    <2> QED
      BY <1>3, <2>2, <2>3, TypeFrame DEF StopJoined
  <1>4. CASE StopPending
    <2>1. aborting' \in BOOLEAN /\ initialized' \in BOOLEAN
      BY <1>4, Zenon DEF StopPending
    <2>2. CallTypes' /\ DataTypes' /\ ClientTypes'
      BY <1>4, <2>1 DEF StopPending, CallTypes, DataTypes, ClientTypes
    <2> QED
      BY <1>4, <2>2, TypeFrame DEF StopPending
  <1> QED
    BY <1>1, <1>2, <1>3, <1>4 DEF Stop

\* A task that ends has no work left in its hands.
LEMMA TaskEnds ==
    ASSUME TypeOK, TaskPlaces, EndTask, hold' = 0
    PROVE  WorkTypes' /\ HoldsWork'
  <1>1. task' = NoCmd /\ at' = "idle" /\ workq' = workq /\ worker' = worker /\ outcome' = "none"
        /\ draining' = FALSE
    BY DEF EndTask, Goto, W!Finish
  <1>2. draining' \in BOOLEAN /\ changed' \in BOOLEAN
    BY Zenon DEF EndTask
  <1>3. WorkTypes'
    BY <1>1, <1>2, ConstantsAssumption DEF TypeOK, WorkTypes, Places
  <1>4. HoldsWork'
    BY <1>1, CommandFields DEF HoldsWork
  <1> QED
    BY <1>3, <1>4

\* A work that goes to m_pendingWorks.
LEMMA PendingTypes ==
    ASSUME TypeOK, hold \in Works, AddPending, UNCHANGED <<flushed, hwVars, count>>
    PROVE  DataTypes'
  BY DEF TypeOK, DataTypes, AddPending, hwVars

LEMMA TypeDoWork ==
    ASSUME TypeOK, TaskPlaces, TakeTask \/ DoWork \/ PendingTask \/ Reset
    PROVE  TypeOK' /\ TaskPlaces'
  <1> USE DEF TypeOK, TaskPlaces
  <1>1. CASE TakeTask
    <2>1. /\ task' \in WorkCmds \cup {NoCmd} /\ workq' \in Seq(WorkCmds \cup {NoCmd})
          /\ worker' \in {"up", "ended"} /\ hold' = task'.work
          /\ at' = IF task' = NoCmd THEN "idle" ELSE task'.op
          /\ UNCHANGED <<outcome, changed>> /\ draining' = (task'.op = "drain")
          /\ task = NoCmd
      BY <1>1, ListTypes DEF TakeTask, W!Take, Goto
    <2>2. draining' \in BOOLEAN
      <3>1. (task'.op = "drain") \in BOOLEAN
        OBVIOUS
      <3> QED
        BY <2>1, <3>1, Zenon
    <2>3. at' \in Places /\ (at' = "idle" <=> task' = NoCmd)
      BY <2>1, CommandFields DEF Places
    <2>4. hold' \in 0 .. MaxWorks
      BY <2>1, CommandFields, ConstantsAssumption
    <2>5. WorkTypes'
      BY <2>1, <2>2, <2>3, <2>4 DEF WorkTypes
    <2>6. draining' = TRUE <=> task'.op = "drain"
      BY <2>1
    <2>7. outcome' = "none"
      BY <2>1, InHand DEF WorkTypes
    <2>8. HoldsWork'
      BY <2>1, <2>2, <2>6, <2>7, CommandFields, Zenon DEF HoldsWork, DrainPlaces
    <2> QED
      BY <1>1, <2>5, <2>8, TypeFrame DEF TakeTask
  <1>2. CASE WorkFlushed
    <2>1. WorkTypes' /\ HoldsWork'
      BY <1>2, TaskEnds DEF WorkFlushed
    <2>2. DataTypes'
      BY <1>2, InHand DEF WorkFlushed, hwVars, DataTypes
    <2> QED
      BY <1>2, <2>1, <2>2, TypeFrame DEF WorkFlushed
  <1>3. CASE WorkBegin
    <2>1. WorkTypes' /\ HoldsWork'
      BY <1>3, InHand DEF WorkBegin, Goto, WorkTypes, HoldsWork, Places, workQueue
    <2> QED
      BY <1>3, <2>1, TypeFrame DEF WorkBegin
  <1>4. CASE AppendOnly
    <2>1. WorkTypes' /\ HoldsWork'
      BY <1>4, TaskEnds DEF AppendOnly
    <2>2. ClientTypes'
      BY <1>4, InHand DEF AppendOnly, ClientTypes
    <2> QED
      BY <1>4, <2>1, <2>2, TypeFrame DEF AppendOnly
  <1>5. CASE AppendPending
    <2>1. WorkTypes' /\ HoldsWork'
      BY <1>5, InHand, ConstantsAssumption
      DEF AppendPending, AddPending, Goto, WorkTypes, HoldsWork, Places, workQueue
    <2>2. DataTypes'
      BY <1>5, InHand, PendingTypes DEF AppendPending
    <2> QED
      BY <1>5, <2>1, <2>2, TypeFrame DEF AppendPending
  <1>6. CASE PendingTask
    <2>1. WorkTypes' /\ HoldsWork'
      BY <1>6, TaskEnds DEF PendingTask, AddPending
    <2>2. DataTypes'
      BY <1>6, InHand, PendingTypes DEF PendingTask
    <2> QED
      BY <1>6, <2>1, <2>2, TypeFrame DEF PendingTask
  <1>7. CASE InitFails
    <2>1. WorkTypes' /\ HoldsWork'
      BY <1>7, InHand DEF InitFails, Goto, WorkTypes, HoldsWork, Places, workQueue
    <2> QED
      BY <1>7, <2>1, TypeFrame DEF InitFails
  <1>8. CASE InitDone
    <2>1. WorkTypes' /\ HoldsWork'
      BY <1>8, InHand DEF InitDone, Goto, WorkTypes, HoldsWork, Places, workQueue
    <2>2. initialized' \in BOOLEAN
      BY <1>8, Zenon DEF InitDone
    <2>3. DataTypes'
      BY <1>8, <2>2 DEF InitDone, listVars, DataTypes
    <2> QED
      BY <1>8, <2>1, <2>3, TypeFrame DEF InitDone
  <1>9. CASE Settle
    <2>1. hold = 0 /\ task.work \in Works
      BY <1>9, InHand DEF Settle
    <2>2. WorkTypes' /\ HoldsWork'
      BY <1>9, <2>1, TaskEnds DEF Settle
    <2>3. DataTypes' /\ ClientTypes'
      BY <1>9, <2>1 DEF Settle, hwVars, DataTypes, ClientTypes
    <2> QED
      BY <1>9, <2>2, <2>3, TypeFrame DEF Settle
  <1>10. CASE Reset
    <2>1. WorkTypes' /\ HoldsWork'
      BY <1>10, InHand, TaskEnds DEF Reset
    <2>2. DataTypes'
      BY <1>10 DEF Reset, listVars, DataTypes
    <2> QED
      BY <1>10, <2>1, <2>2, TypeFrame DEF Reset
  <1> QED
    BY <1>1, <1>2, <1>3, <1>4, <1>5, <1>6, <1>7, <1>8, <1>9, <1>10 DEF DoWork

\* A frame that comes out goes to the waiting queue, and what the hardware holds are works.
LEMMA FedTypes ==
    ASSUME TypeOK, NEW w \in Works
    PROVE  Fed(w) \subseteq Works
  BY DEF Fed, TypeOK, DataTypes

LEMMA TypeDecode ==
    ASSUME TypeOK, TaskPlaces, DecodeFrame
    PROVE  TypeOK' /\ TaskPlaces'
  <1> USE DEF TypeOK, TaskPlaces
  <1>1. CASE AllocFails
    <2>1. WorkTypes' /\ HoldsWork'
      BY <1>1, InHand DEF AllocFails, Goto, WorkTypes, HoldsWork, DrainPlaces, Places, workQueue
    <2> QED
      BY <1>1, <2>1, TypeFrame DEF AllocFails
  <1>2. CASE AllocDone
    <2>1. WorkTypes' /\ HoldsWork'
      BY <1>2, InHand DEF AllocDone, Goto, WorkTypes, HoldsWork, DrainPlaces, Places, workQueue
    <2> QED
      BY <1>2, <2>1, TypeFrame DEF AllocDone
  <1>3. CASE Gate
    <2>1. WorkTypes' /\ HoldsWork'
      BY <1>3, InHand DEF Gate, Goto, WorkTypes, HoldsWork, DrainPlaces, Places, workQueue
    <2> QED
      BY <1>3, <2>1, TypeFrame DEF Gate
  <1>4. CASE CallBuffers
    <2>1. task.op = "work" /\ task.work \in Works
      BY <1>4, InHand DEF CallBuffers
    <2>2. WorkTypes' /\ HoldsWork'
      BY <1>4, InHand DEF CallBuffers, Goto, WorkTypes, HoldsWork, DrainPlaces, Places, workQueue
    <2>3. DataTypes'
      BY <1>4, <2>1, FedTypes DEF CallBuffers, listVars, DataTypes
    <2> QED
      BY <1>4, <2>2, <2>3, TypeFrame DEF CallBuffers
  <1>5. ASSUME NEW f \in Works, NEW reads \in BOOLEAN, CallOutputs(f, reads)
        PROVE  TypeOK' /\ TaskPlaces'
    <2>1. reads => task.op = "work" /\ task.work \in Works /\ ~draining
      BY <1>5, InHand DEF CallOutputs
    <2>2. at' = (IF reads THEN "countLast" ELSE "count") /\ at = "call"
          /\ outcome' = "expect" /\ UNCHANGED <<workQueue, hold, draining, changed>>
      BY <1>5 DEF CallOutputs, Goto
    <2>3. WorkTypes'
      BY <2>2, CommandFields DEF WorkTypes, Places, workQueue
    <2>4. HoldsWork'
      <3>1. CASE reads
        BY <2>1, <2>2, <3>1, InHand DEF HoldsWork, DrainPlaces, workQueue, WorkTypes
      <3>2. CASE ~reads
        BY <2>2, <3>2, InHand, CommandFields DEF HoldsWork, DrainPlaces, workQueue
      <3> QED
        BY <3>1, <3>2
    <2>5. waitq' = Append(waitq, Cmd("wait", f)) /\ UNCHANGED <<waiter, job, found, match>>
      BY <1>5 DEF CallOutputs, V!Push
    <2>6. WaitTypes' /\ HoldsMatch'
      BY <2>5, ListTypes, CommandsMade, WaitQueueTypes DEF WaitTypes
    <2>7. fed' \subseteq Works
      BY <1>5, <2>1, FedTypes DEF CallOutputs, DataTypes
    <2>8. DataTypes'
      BY <1>5, <2>7 DEF CallOutputs, listVars, DataTypes
    <2> QED
      BY <1>5, <2>3, <2>4, <2>6, <2>8, TypeFrame DEF CallOutputs
  <1>6. CASE CallDrained
    <2>1. WorkTypes' /\ HoldsWork'
      BY <1>6, InHand DEF CallDrained, Goto, WorkTypes, HoldsWork, DrainPlaces, Places, workQueue
    <2> QED
      BY <1>6, <2>1, TypeFrame DEF CallDrained
  <1>7. CASE CallBusy
    <2>1. CASE draining
      <3>1. WorkTypes' /\ HoldsWork'
        BY <1>7, <2>1, InHand, ConstantsAssumption
        DEF CallBusy, Goto, WorkTypes, HoldsWork, DrainPlaces, Places, workQueue
      <3>2. DataTypes'
        BY <1>7, <2>1, InHand DEF CallBusy, hwVars, DataTypes
      <3> QED
        BY <1>7, <3>1, <3>2, TypeFrame DEF CallBusy
    <2>2. CASE ~draining
      <3>1. WorkTypes' /\ HoldsWork'
        BY <1>7, <2>2, InHand DEF CallBusy, Goto, WorkTypes, HoldsWork, DrainPlaces, Places, workQueue
      <3>2. DataTypes'
        BY <1>7, <2>2 DEF CallBusy, hwVars, DataTypes
      <3> QED
        BY <1>7, <3>1, <3>2, TypeFrame DEF CallBusy
    <2> QED
      BY <2>1, <2>2
  <1>8. CASE CallFails
    <2>1. WorkTypes' /\ HoldsWork'
      BY <1>8, InHand DEF CallFails, Goto, WorkTypes, HoldsWork, DrainPlaces, Places, workQueue
    <2> QED
      BY <1>8, <2>1, TypeFrame DEF CallFails
  <1>9. CASE CallChanges
    <2>1. changed' \in BOOLEAN /\ draining' \in BOOLEAN
      BY <1>9, Zenon DEF CallChanges
    <2>2. WorkTypes' /\ HoldsWork'
      BY <1>9, <2>1, InHand
      DEF CallChanges, Goto, WorkTypes, HoldsWork, DrainPlaces, Places, workQueue
    <2> QED
      BY <1>9, <2>2, TypeFrame DEF CallChanges
  <1>10. CASE Count
    <2>1. at' \in {"settle", "drain", "alloc"} /\ (at' = "settle" <=> at = "countLast")
          /\ (at = "count" => (at' = "drain" <=> draining))
      BY <1>10 DEF Count, Goto
    <2>2. /\ UNCHANGED <<workQueue, hold, draining, outcome, changed>> /\ at \in {"count", "countLast"}
      BY <1>10 DEF Count
    <2>3. WorkTypes'
      BY <2>1, <2>2, CommandFields DEF WorkTypes, Places, workQueue
    <2>4. HoldsWork'
      BY <2>1, <2>2, InHand, CommandFields DEF HoldsWork, DrainPlaces, workQueue, WorkTypes
    <2>5. count' \in 0 .. CountMod - 1
      BY <1>10, ConstantsAssumption DEF Count, DataTypes
    <2>6. DataTypes'
      BY <1>10, <2>5 DEF Count, listVars, hwVars, DataTypes
    <2> QED
      BY <1>10, <2>3, <2>4, <2>6, TypeFrame DEF Count
  <1> QED
    BY <1>1, <1>2, <1>3, <1>4, <1>5, <1>6, <1>7, <1>8, <1>9, <1>10 DEF DecodeFrame

LEMMA TypeDrain ==
    ASSUME TypeOK, TaskPlaces, Drain
    PROVE  TypeOK' /\ TaskPlaces'
  <1> USE DEF TypeOK, TaskPlaces
  <1>1. CASE DrainNothing
    <2>1. WorkTypes' /\ HoldsWork'
      BY <1>1, TaskEnds DEF DrainNothing
    <2>2. ClientTypes'
      BY <1>1, InHand DEF DrainNothing, ClientTypes
    <2> QED
      BY <1>1, <2>1, <2>2, TypeFrame DEF DrainNothing
  <1>2. CASE DrainFlushed
    <2>1. WorkTypes' /\ HoldsWork'
      BY <1>2, InHand, ConstantsAssumption
      DEF DrainFlushed, Goto, WorkTypes, HoldsWork, DrainPlaces, Places, workQueue
    <2>2. DataTypes'
      BY <1>2, InHand DEF DrainFlushed, hwVars, DataTypes
    <2> QED
      BY <1>2, <2>1, <2>2, TypeFrame DEF DrainFlushed
  <1>3. CASE DrainBegin
    <2>1. WorkTypes' /\ HoldsWork'
      BY <1>3, InHand DEF DrainBegin, Goto, WorkTypes, HoldsWork, DrainPlaces, Places, workQueue
    <2> QED
      BY <1>3, <2>1, TypeFrame DEF DrainBegin
  <1>4. CASE DrainEos
    <2>1. WorkTypes' /\ HoldsWork'
      BY <1>4, InHand, ConstantsAssumption
      DEF DrainEos, Goto, WorkTypes, HoldsWork, DrainPlaces, Places, workQueue
    <2>2. WaitTypes' /\ HoldsMatch'
      <3>1. CASE hold = 0
        BY <1>4, <3>1, TypeFrame DEF DrainEos
      <3>2. CASE hold # 0
        <4>1. hold \in Works /\ waitq' = Append(waitq, Cmd("eos", hold))
              /\ UNCHANGED <<waiter, job, found, match>>
          BY <1>4, <3>2, InHand DEF DrainEos, V!Push
        <4> QED
          BY <4>1, ListTypes, CommandsMade, WaitQueueTypes DEF WaitTypes
      <3> QED
        BY <3>1, <3>2
    <2> QED
      BY <1>4, <2>1, <2>2, TypeFrame DEF DrainEos
  <1>5. CASE DrainWait
    <2>1. hold = 0
      BY <1>5, InHand DEF DrainWait
    <2>2. CASE task.op = "work"
      <3>1. WorkTypes' /\ HoldsWork'
        BY <1>5, <2>1, <2>2, InHand DEF DrainWait, Goto, WorkTypes, HoldsWork, Places, workQueue
      <3> QED
        BY <1>5, <3>1, TypeFrame DEF DrainWait
    <2>3. CASE task.op # "work"
      <3>1. WorkTypes' /\ HoldsWork'
        BY <1>5, <2>1, <2>3, TaskEnds DEF DrainWait
      <3> QED
        BY <1>5, <3>1, TypeFrame DEF DrainWait
    <2> QED
      BY <2>2, <2>3
  <1>6. CASE Reinit
    <2>1. draining' \in BOOLEAN /\ initialized' \in BOOLEAN
      BY <1>6, Zenon DEF Reinit
    <2>2. WorkTypes' /\ HoldsWork'
      BY <1>6, <2>1, InHand DEF Reinit, Goto, WorkTypes, HoldsWork, Places, workQueue
    <2>3. DataTypes' /\ ClientTypes'
      BY <1>6, <2>1 DEF Reinit, DataTypes, ClientTypes
    <2> QED
      BY <1>6, <2>2, <2>3, TypeFrame DEF Reinit
  <1> QED
    BY <1>1, <1>2, <1>3, <1>4, <1>5, <1>6 DEF Drain

\* The pending work WaitWork chooses is one of those with the timestamp of its frame.
LEMMA FirstOfSame ==
    ASSUME TypeOK, NEW same \in SUBSET pending, same # {}
    PROVE  (CHOOSE p \in same : \A q \in same : p <= q) \in same
  <1>1. same \subseteq Nat
    BY CommandFields DEF TypeOK, DataTypes
  <1>2. \E p \in same : \A q \in same : p <= q
    <2> DEFINE Less == { ss \in Nat \X Nat : ss[1] < ss[2] }
    <2>1. IsWellFoundedOn(Less, Nat)
      BY NatLessThanWellFounded DEF OpToRel
    <2> HIDE DEF Less
    <2>2. \E p \in same : \A q \in same : ~(<<q, p>> \in Less)
      BY <1>1, <2>1, WFMin
    <2>3. PICK p \in same : \A q \in same : ~(<<q, p>> \in Less)
      BY <2>2
    <2>4. \A m, n \in Nat : <<m, n>> \in Less <=> m < n
      BY DEF Less
    <2>5. ASSUME NEW q \in same
          PROVE  p <= q
      <3>1. p \in Nat /\ q \in Nat /\ ~(<<q, p>> \in Less)
        BY <1>1, <2>3
      <3>2. ~(q < p)
        BY <2>4, <3>1
      <3> QED
        BY <3>1, <3>2
    <2> QED
      BY <2>5
  <1> QED
    BY <1>2

LEMMA TypeWaiting ==
    ASSUME TypeOK, TaskPlaces, Waiting
    PROVE  TypeOK' /\ TaskPlaces'
  <1> USE DEF TypeOK, TaskPlaces
  <1>1. CASE TakeJob
    <2>1. /\ job' \in WaitCmds \cup {NoCmd} /\ waitq' \in Seq(WaitCmds \cup {NoCmd})
          /\ waiter' \in {"up", "ended"} /\ UNCHANGED match /\ job = NoCmd
          /\ found' = IF job'.op = "wait" THEN "sync" ELSE "idle"
      BY <1>1, ListTypes DEF TakeJob, V!Take
    <2>2. WaitTypes' /\ HoldsMatch'
      BY <2>1, CommandFields DEF WaitTypes, HoldsMatch
    <2> QED
      BY <1>1, <2>2, TypeFrame DEF TakeJob
  <1>2. CASE EosReturned
    <2>1. job' = NoCmd /\ UNCHANGED <<waitq, waiter, found, match>> /\ found = "idle"
      BY <1>2 DEF EosReturned, V!Finish, WaitTypes
    <2>2. WaitTypes' /\ HoldsMatch'
      BY <2>1, CommandFields DEF WaitTypes, HoldsMatch
    <2>3. ClientTypes'
      BY <1>2, CommandFields DEF EosReturned, WaitTypes, ClientTypes
    <2> QED
      BY <1>2, <2>2, <2>3, TypeFrame DEF EosReturned
  <1>3. CASE WaitWorkFinds
    <2> DEFINE same == { p \in pending : TimeStamp[p] = TimeStamp[job.work] }
    <2>1. same \subseteq pending /\ pending \subseteq Works
      BY DEF DataTypes
    <2>2. /\ found = "sync" /\ found' = IF same = {} THEN "count" ELSE "notify"
          /\ match' = IF same = {} THEN 0 ELSE CHOOSE p \in same : \A q \in same : p <= q
          /\ pending' = pending \ {match'}
          /\ UNCHANGED <<waitq, waiter, job>>
      BY <1>3 DEF WaitWorkFinds
    <2> HIDE DEF same
    <2>3. same # {} => match' \in Works
      BY <2>1, <2>2, FirstOfSame
    <2>4. WaitTypes' /\ HoldsMatch'
      BY <2>2, <2>3, CommandFields, ConstantsAssumption DEF WaitTypes, HoldsMatch
    <2>5. DataTypes'
      BY <1>3, <2>2 DEF WaitWorkFinds, hwVars, DataTypes
    <2> QED
      BY <1>3, <2>4, <2>5, TypeFrame DEF WaitWorkFinds
  <1>4. CASE WaitWorkNotifies
    <2>1. match \in Works
      BY <1>4, ConstantsAssumption DEF WaitWorkNotifies, HoldsMatch, WaitTypes, Works
    <2>2. WaitTypes' /\ HoldsMatch' /\ ClientTypes'
      BY <1>4, <2>1, ConstantsAssumption
      DEF WaitWorkNotifies, WaitTypes, HoldsMatch, ClientTypes
    <2> QED
      BY <1>4, <2>2, TypeFrame DEF WaitWorkNotifies
  <1>5. CASE WaitWorkCounts
    <2>1. job' = NoCmd /\ UNCHANGED <<waitq, waiter, match>> /\ found = "count" /\ found' = "idle"
      BY <1>5 DEF WaitWorkCounts, V!Finish
    <2>2. WaitTypes' /\ HoldsMatch'
      BY <2>1, CommandFields DEF WaitTypes, HoldsMatch
    <2>3. count' \in 0 .. CountMod - 1
      BY <1>5, ConstantsAssumption DEF WaitWorkCounts, DataTypes
    <2>4. DataTypes'
      BY <1>5, <2>3 DEF WaitWorkCounts, listVars, hwVars, DataTypes
    <2> QED
      BY <1>5, <2>2, <2>4, TypeFrame DEF WaitWorkCounts
  <1> QED
    BY <1>1, <1>2, <1>3, <1>4, <1>5 DEF Waiting

LEMMA TypeStep == ASSUME TypeOK, TaskPlaces, Next PROVE TypeOK' /\ TaskPlaces'
  BY TypeCalls, TypeStop, TypeDoWork, TypeDecode, TypeDrain, TypeWaiting DEF Next, Working

LEMMA TypeStutter == ASSUME TypeOK, TaskPlaces, UNCHANGED vars PROVE TypeOK' /\ TaskPlaces'
  BY TypeFrame DEF TypeOK, TaskPlaces, vars

\* Every variable of the decoder keeps its range, and the working thread is in a place of
\* DoWork or Drain, the waiting thread in one of WaitWork, exactly when their queue gave
\* them a task.
THEOREM TypeCorrect == Spec => []TypeOK
  <1>1. Init => TypeOK /\ TaskPlaces
    BY TypeInit
  <1>2. TypeOK /\ TaskPlaces /\ [Next]_vars => (TypeOK /\ TaskPlaces)'
    BY TypeStep, TypeStutter
  <1> QED
    BY <1>1, <1>2, PTL DEF Spec

-----------------------------------------------------------------------------
(* Every work is in one place *)

\* No command queue has a work twice (the work of a sync point is one that is waited for).
WorksOnce(queue) ==
    \A i, j \in DOMAIN queue :
        /\ queue[i].op # "wait" /\ queue[j].op # "wait"
        /\ queue[i].work = queue[j].work /\ queue[i].work # 0
        => i = j

OnceEach == WorksOnce(workq) /\ WorksOnce(waitq)

\* The works in all places are the queued ones, and no work is in two places.
InPlaces == Everywhere(WorkPlaces) = Queued /\ Apart(WorkPlaces)

OnePlace == InPlaces /\ OnceEach

\* The places, by their numbers.
Named == /\ DOMAIN WorkPlaces = 1 .. 9
         /\ WorkPlaces[1] = WorksOf(workq) /\ WorkPlaces[2] = Holding
         /\ WorkPlaces[3] = pending /\ WorkPlaces[4] = WorksOf(waitq)
         /\ WorkPlaces[5] = EosInHand /\ WorkPlaces[6] = Matched
         /\ WorkPlaces[7] = flushed /\ WorkPlaces[8] = back /\ WorkPlaces[9] = dropped

LEMMA PlacesNamed == Named /\ Named'
  <1>1. Named
    BY DEF Named, WorkPlaces
  <1>2. Named'
    BY DEF Named, WorkPlaces
  <1> QED
    BY <1>1, <1>2

LEMMA OnePlaceImplies == ASSUME OnePlace PROVE EveryWorkInOnePlace
  BY DEF OnePlace, InPlaces, Everywhere, Apart, EveryWorkInOnePlace

\* Two different places have no work in common.
LEMMA Disjoint ==
    ASSUME OnePlace
    PROVE  \A i, j \in 1 .. 9 : i # j => WorkPlaces[i] \cap WorkPlaces[j] = {}
  BY PlacesNamed DEF Named, OnePlace, InPlaces, Apart

\* A step that takes works from place a to place b.
Travels(a, b) == /\ a \in 1 .. 9 /\ b \in 1 .. 9 /\ a # b
                 /\ WorkPlaces'[a] \subseteq WorkPlaces[a]
                 /\ WorkPlaces'[b] = WorkPlaces[b] \cup (WorkPlaces[a] \ WorkPlaces'[a])
                 /\ \A i \in 1 .. 9 : i # a /\ i # b => WorkPlaces'[i] = WorkPlaces[i]

LEMMA Travel ==
    ASSUME OnePlace, kinds' = kinds, OnceEach', NEW a, NEW b, Travels(a, b)
    PROVE  OnePlace'
  <1>1. DOMAIN WorkPlaces = 1 .. 9 /\ DOMAIN WorkPlaces' = 1 .. 9
    BY PlacesNamed DEF Named
  <1>2. Everywhere(WorkPlaces) = Queued /\ Apart(WorkPlaces)
    BY DEF OnePlace, InPlaces
  <1>3. Everywhere(WorkPlaces') = Everywhere(WorkPlaces) /\ Apart(WorkPlaces')
    BY <1>1, <1>2, Moved DEF Travels
  <1>4. Queued' = Queued
    BY DEF Queued
  <1>5. InPlaces'
    BY <1>2, <1>3, <1>4 DEF InPlaces, Everywhere, Apart
  <1> QED
    BY <1>5 DEF OnePlace

\* A step that leaves every place alone.
LEMMA Settled ==
    ASSUME OnePlace, kinds' = kinds, OnceEach',
           \A i \in 1 .. 9 : WorkPlaces'[i] = WorkPlaces[i]
    PROVE  OnePlace'
  <1>1. DOMAIN WorkPlaces = 1 .. 9 /\ DOMAIN WorkPlaces' = 1 .. 9
    BY PlacesNamed DEF Named
  <1>2. InPlaces'
    BY <1>1 DEF OnePlace, InPlaces, Everywhere, Apart, Queued
  <1> QED
    BY <1>2 DEF OnePlace

LEMMA PlacesFrame ==
    ASSUME OnePlace, EosInHand' = EosInHand,
           UNCHANGED <<kinds, workq, hold, pending, waitq, match, flushed, back, dropped>>
    PROVE  OnePlace'
  <1>1. OnceEach'
    BY DEF OnePlace, OnceEach, WorksOnce
  <1>2. /\ WorksOf(workq') = WorksOf(workq) /\ WorksOf(waitq') = WorksOf(waitq)
        /\ Holding' = Holding /\ Matched' = Matched
    BY DEF Holding, Matched
  <1>3. \A i \in 1 .. 9 : WorkPlaces'[i] = WorkPlaces[i]
    BY <1>2, PlacesNamed DEF Named
  <1> QED
    BY <1>1, <1>3, Settled

\* A work that is queued is in one place from then on.
LEMMA Arrive ==
    ASSUME OnePlace, OnceEach', NEW a \in 1 .. 9, kinds \in Seq(Kinds),
           Len(kinds') = Len(kinds) + 1,
           WorkPlaces'[a] = WorkPlaces[a] \cup {Len(kinds) + 1},
           \A i \in 1 .. 9 : i # a => WorkPlaces'[i] = WorkPlaces[i]
    PROVE  OnePlace'
  <1> DEFINE w == Len(kinds) + 1
  <1>1. DOMAIN WorkPlaces = 1 .. 9 /\ DOMAIN WorkPlaces' = 1 .. 9
    BY PlacesNamed DEF Named
  <1>2. Queued' = Queued \cup {w} /\ w \notin Queued
    BY DEF Queued
  <1>3. Everywhere(WorkPlaces) = Queued /\ Apart(WorkPlaces)
    BY DEF OnePlace, InPlaces
  <1> HIDE DEF w
  <1>4. WorkPlaces'[a] = WorkPlaces[a] \cup {w} /\ w \notin Everywhere(WorkPlaces)
    BY <1>2, <1>3 DEF w
  <1>5. Everywhere(WorkPlaces') = Everywhere(WorkPlaces) \cup {w} /\ Apart(WorkPlaces')
    BY <1>1, <1>3, <1>4, Placed
  <1>6. InPlaces'
    BY <1>2, <1>3, <1>5 DEF InPlaces, Everywhere, Apart
  <1> QED
    BY <1>6 DEF OnePlace

\* Pushing a command adds its work, unless it is a sync point.
LEMMA WorksAppend ==
    ASSUME NEW S, NEW q \in Seq(S), NEW c \in S
    PROVE  /\ WorksOf(Append(q, c)) =
                WorksOf(q) \cup (IF c.op = "wait" THEN {} ELSE {c.work} \ {0})
           /\ WorksOnce(q) /\ (c.op = "wait" \/ c.work \notin WorksOf(q))
                => WorksOnce(Append(q, c))
  <1>1. /\ DOMAIN Append(q, c) = DOMAIN q \cup {Len(q) + 1}
        /\ Append(q, c)[Len(q) + 1] = c
        /\ \A k \in DOMAIN q : Append(q, c)[k] = q[k]
    OBVIOUS
  <1>2. WorksOf(Append(q, c)) = WorksOf(q) \cup (IF c.op = "wait" THEN {} ELSE {c.work} \ {0})
    <2>1. CASE c.op = "wait"
      BY <1>1, <2>1 DEF WorksOf
    <2>2. CASE c.op # "wait"
      BY <1>1, <2>2 DEF WorksOf
    <2> QED
      BY <2>1, <2>2
  <1>3. ASSUME WorksOnce(q), c.op = "wait" \/ c.work \notin WorksOf(q)
        PROVE  WorksOnce(Append(q, c))
    BY <1>1, <1>3 DEF WorksOnce, WorksOf
  <1> QED
    BY <1>2, <1>3

\* Popping the head takes its work out.
LEMMA WorksTail ==
    ASSUME NEW S, NEW q \in Seq(S), q # <<>>
    PROVE  /\ WorksOf(q) = WorksOf(Tail(q))
                \cup (IF Head(q).op = "wait" THEN {} ELSE {Head(q).work} \ {0})
           /\ WorksOnce(q) => /\ WorksOnce(Tail(q))
                              /\ Head(q).op = "wait" \/ Head(q).work \notin WorksOf(Tail(q))
  <1>1. /\ Len(q) \in Nat /\ Len(q) > 0
        /\ DOMAIN q = 1 .. Len(q)
        /\ DOMAIN Tail(q) = 1 .. Len(q) - 1
        /\ Head(q) = q[1]
        /\ \A k \in DOMAIN Tail(q) : Tail(q)[k] = q[k + 1] /\ k + 1 \in DOMAIN q
    OBVIOUS
  <1>2. \A k \in DOMAIN q : k # 1 => k - 1 \in DOMAIN Tail(q) /\ Tail(q)[k - 1] = q[k]
    BY <1>1
  <1> DEFINE mine == IF Head(q).op = "wait" THEN {} ELSE {Head(q).work} \ {0}
  <1>3. WorksOf(q) \subseteq WorksOf(Tail(q)) \cup mine
    <2> SUFFICES ASSUME NEW k \in DOMAIN q, q[k].op # "wait", q[k].work # 0
                 PROVE  q[k].work \in WorksOf(Tail(q)) \cup mine
      BY DEF WorksOf
    <2>1. CASE k = 1
      BY <1>1, <2>1
    <2>2. CASE k # 1
      BY <1>2, <2>2 DEF WorksOf
    <2> QED
      BY <2>1, <2>2
  <1>4. WorksOf(Tail(q)) \cup mine \subseteq WorksOf(q)
    <2>1. WorksOf(Tail(q)) \subseteq WorksOf(q)
      BY <1>1 DEF WorksOf
    <2>2. mine \subseteq WorksOf(q)
      BY <1>1 DEF WorksOf
    <2> QED
      BY <2>1, <2>2
  <1>5. ASSUME WorksOnce(q)
        PROVE  /\ WorksOnce(Tail(q))
               /\ Head(q).op = "wait" \/ Head(q).work \notin WorksOf(Tail(q))
    <2>1. WorksOnce(Tail(q))
      BY <1>1, <1>5 DEF WorksOnce
    <2>2. ASSUME Head(q).op # "wait", Head(q).work \in WorksOf(Tail(q))
          PROVE  FALSE
      <3>1. PICK k \in DOMAIN Tail(q) : /\ Tail(q)[k].op # "wait" /\ Tail(q)[k].work = Head(q).work
                                        /\ Head(q).work # 0
        BY <2>2 DEF WorksOf
      <3>2. k + 1 \in DOMAIN q /\ 1 \in DOMAIN q /\ q[k + 1].work = q[1].work /\ q[k + 1].op # "wait"
            /\ k + 1 # 1
        BY <1>1, <3>1
      <3> QED
        BY <1>1, <1>5, <2>2, <3>1, <3>2 DEF WorksOnce
    <2> QED
      BY <2>1, <2>2
  <1> QED
    BY <1>3, <1>4, <1>5

\* The commands of the two queues, with the works they carry.
LEMMA QueueLists ==
    ASSUME TypeOK
    PROVE  /\ \A c \in WorkCmds \cup {NoCmd} :
                /\ WorksOf(Append(workq, c)) = WorksOf(workq) \cup ({c.work} \ {0})
                /\ WorksOnce(workq) /\ c.work \notin WorksOf(workq)
                        => WorksOnce(Append(workq, c))
           /\ \A c \in WaitCmds \cup {NoCmd} :
                /\ WorksOf(Append(waitq, c)) =
                        WorksOf(waitq) \cup (IF c.op = "wait" THEN {} ELSE {c.work} \ {0})
                /\ WorksOnce(waitq) /\ (c.op = "wait" \/ c.work \notin WorksOf(waitq))
                        => WorksOnce(Append(waitq, c))
           /\ workq # <<>> =>
                /\ WorksOf(workq) = WorksOf(Tail(workq)) \cup ({Head(workq).work} \ {0})
                /\ WorksOnce(workq) => /\ WorksOnce(Tail(workq))
                                       /\ Head(workq).work \notin WorksOf(Tail(workq))
           /\ waitq # <<>> =>
                /\ WorksOf(waitq) = WorksOf(Tail(waitq))
                        \cup (IF Head(waitq).op = "wait" THEN {} ELSE {Head(waitq).work} \ {0})
                /\ WorksOnce(waitq) =>
                        /\ WorksOnce(Tail(waitq))
                        /\ Head(waitq).op = "wait" \/ Head(waitq).work \notin WorksOf(Tail(waitq))
           /\ 0 \notin WorksOf(workq) /\ 0 \notin WorksOf(waitq)
  <1>1. workq \in Seq(WorkCmds \cup {NoCmd}) /\ waitq \in Seq(WaitCmds \cup {NoCmd})
    BY DEF TypeOK, WorkTypes, WaitTypes
  <1>2. \A c \in WorkCmds \cup {NoCmd} : c.op # "wait"
    BY CommandFields
  <1>3. workq # <<>> => Head(workq).op # "wait"
    BY <1>2, ListTypes
  <1>4. \A c \in WorkCmds \cup {NoCmd} :
          /\ WorksOf(Append(workq, c)) = WorksOf(workq) \cup ({c.work} \ {0})
          /\ WorksOnce(workq) /\ c.work \notin WorksOf(workq) => WorksOnce(Append(workq, c))
    BY <1>1, <1>2, WorksAppend
  <1>5. \A c \in WaitCmds \cup {NoCmd} :
          /\ WorksOf(Append(waitq, c)) =
               WorksOf(waitq) \cup (IF c.op = "wait" THEN {} ELSE {c.work} \ {0})
          /\ WorksOnce(waitq) /\ (c.op = "wait" \/ c.work \notin WorksOf(waitq))
               => WorksOnce(Append(waitq, c))
    BY <1>1, WorksAppend
  <1>6. workq # <<>> =>
          /\ WorksOf(workq) = WorksOf(Tail(workq)) \cup ({Head(workq).work} \ {0})
          /\ WorksOnce(workq) => /\ WorksOnce(Tail(workq))
                                 /\ Head(workq).work \notin WorksOf(Tail(workq))
    BY <1>1, <1>3, WorksTail
  <1>7. 0 \notin WorksOf(workq) /\ 0 \notin WorksOf(waitq)
    BY DEF WorksOf
  <1> QED
    BY <1>1, <1>4, <1>5, <1>6, <1>7, WorksTail

LEMMA OnePlaceInit == ASSUME Init PROVE OnePlace
  <1>1. workq = <<>> /\ waitq = <<>> /\ pending = {} /\ flushed = {} /\ back = {} /\ dropped = {}
        /\ hold = 0 /\ job.op = "stop" /\ match = 0 /\ kinds = <<>>
    BY CommandFields DEF Init, W!Init, V!Init
  <1>2. OnceEach
    BY <1>1 DEF OnceEach, WorksOnce
  <1>3. \A i \in 1 .. 9 : WorkPlaces[i] = {}
    BY <1>1, PlacesNamed DEF Named, WorksOf, Holding, EosInHand, Matched
  <1>4. Queued = {}
    BY <1>1 DEF Queued
  <1> QED
    BY <1>2, <1>3, <1>4, PlacesNamed DEF OnePlace, InPlaces, Everywhere, Apart, Named

\* The steps that touch no work.
LEMMA OnePlaceIdle ==
    ASSUME TypeOK, OnePlace,
           \/ Start \/ StartFails \/ FlushWorking \/ FlushWaiting \/ FlushEnd \/ StopJoined
           \/ WorkBegin \/ InitFails \/ InitDone \/ AllocFails \/ AllocDone \/ Gate \/ CallBuffers
           \/ CallDrained \/ CallFails \/ CallChanges \/ Count \/ DrainBegin \/ DrainWait \/ Reset
           \/ WaitWorkCounts
    PROVE  OnePlace'
  <1>1. CASE WaitWorkCounts
    <2>1. /\ UNCHANGED <<kinds, workq, hold, pending, waitq, match, flushed, back, dropped>>
          /\ job' = NoCmd /\ found = "count"
      BY <1>1 DEF WaitWorkCounts, V!Finish, apiVars, workQueue, workVars, listVars, clientVars
    <2>2. job.op = "wait" /\ job'.op = "stop"
      BY <2>1, CommandFields DEF TypeOK, WaitTypes
    <2>3. EosInHand' = EosInHand
      BY <2>2 DEF EosInHand
    <2> QED
      BY <2>1, <2>3, PlacesFrame
  <1>2. CASE Start \/ StartFails \/ FlushWorking \/ FlushWaiting \/ FlushEnd \/ StopJoined
    <2>1. UNCHANGED <<kinds, workq, hold, pending, waitq, job, match, flushed, back, dropped>>
      BY <1>2 DEF Start, StartFails, FlushWorking, FlushWaiting, FlushEnd, StopJoined, W!Start,
                  V!Start, V!Join, workQueue, workVars, waitVars, listVars, clientVars
    <2> QED
      BY <2>1, PlacesFrame DEF EosInHand
  <1>3. CASE \/ WorkBegin \/ InitFails \/ InitDone \/ AllocFails \/ AllocDone \/ Gate \/ CallBuffers
             \/ CallDrained \/ CallFails \/ CallChanges \/ Count \/ DrainBegin
    <2>1. UNCHANGED <<kinds, workq, hold, pending, waitq, job, match, flushed, back, dropped>>
      BY <1>3 DEF WorkBegin, InitFails, InitDone, AllocFails, AllocDone, Gate, CallBuffers,
                  CallDrained, CallFails, CallChanges, Count, DrainBegin,
                  apiVars, workQueue, waitVars, listVars, clientVars
    <2> QED
      BY <2>1, PlacesFrame DEF EosInHand
  <1>4. CASE DrainWait \/ Reset
    <2>1. UNCHANGED <<kinds, workq, hold, pending, waitq, job, match, flushed, back, dropped>>
      BY <1>4 DEF DrainWait, Reset, EndTask, W!Finish, apiVars, workQueue, waitVars, listVars,
                  clientVars
    <2> QED
      BY <2>1, PlacesFrame DEF EosInHand
  <1> QED
    BY <1>1, <1>2, <1>3, <1>4

\* The commands that are pushed without a work: the reset task and a sync point.
LEMMA OnePlaceNoWork ==
    ASSUME TypeOK, OnePlace,
           FlushBegin \/ (\E f \in Works, reads \in BOOLEAN : CallOutputs(f, reads))
    PROVE  OnePlace'
  <1>1. CASE FlushBegin
    <2> DEFINE reset == Cmd("reset", 0)
    <2>1. /\ UNCHANGED <<kinds, hold, pending, waitq, job, match, flushed, back, dropped>>
          /\ workq' = Append(workq, reset)
      BY <1>1 DEF FlushBegin, W!Push, workVars, waitVars, listVars, clientVars
    <2>2. reset \in WorkCmds /\ reset.work = 0
      BY CommandsMade, CommandMade
    <2> HIDE DEF reset
    <2>3. WorksOf(workq') = WorksOf(workq) \cup ({0} \ {0}) /\ WorksOnce(workq')
      BY <2>1, <2>2, QueueLists DEF OnePlace, OnceEach
    <2>4. WorksOf(workq') = WorksOf(workq) /\ OnceEach'
      BY <2>1, <2>3 DEF OnePlace, OnceEach, WorksOnce
    <2>5. \A i \in 1 .. 9 : WorkPlaces'[i] = WorkPlaces[i]
      <3>1. WorksOf(waitq') = WorksOf(waitq) /\ Holding' = Holding /\ Matched' = Matched
            /\ EosInHand' = EosInHand
        BY <2>1 DEF Holding, Matched, EosInHand
      <3> QED
        BY <2>1, <2>4, <3>1, PlacesNamed DEF Named
    <2> QED
      BY <2>1, <2>4, <2>5, Settled
  <1>2. ASSUME NEW f \in Works, NEW reads \in BOOLEAN, CallOutputs(f, reads)
        PROVE  OnePlace'
    <2> DEFINE wait == Cmd("wait", f)
    <2>1. /\ UNCHANGED <<kinds, workq, hold, pending, job, match, flushed, back, dropped>>
          /\ waitq' = Append(waitq, wait)
      BY <1>2 DEF CallOutputs, V!Push, apiVars, workQueue, listVars, clientVars
    <2>2. wait \in WaitCmds /\ wait.op = "wait"
      BY CommandsMade, CommandMade
    <2> HIDE DEF wait
    <2>3. WorksOf(waitq') = WorksOf(waitq) /\ WorksOnce(waitq')
      BY <2>1, <2>2, QueueLists DEF OnePlace, OnceEach
    <2>4. OnceEach'
      BY <2>1, <2>3 DEF OnePlace, OnceEach, WorksOnce
    <2>5. \A i \in 1 .. 9 : WorkPlaces'[i] = WorkPlaces[i]
      <3>1. WorksOf(workq') = WorksOf(workq) /\ Holding' = Holding /\ Matched' = Matched
            /\ EosInHand' = EosInHand
        BY <2>1 DEF Holding, Matched, EosInHand
      <3> QED
        BY <2>1, <2>3, <3>1, PlacesNamed DEF Named
    <2> QED
      BY <2>1, <2>4, <2>5, Settled
  <1> QED
    BY <1>1, <1>2

LEMMA OnePlaceQueue ==
    ASSUME TypeOK, OnePlace, NEW kind \in Kinds, QueueWork(kind)
    PROVE  OnePlace'
  <1> DEFINE w == Len(kinds) + 1
  <1>1. kinds \in Seq(Kinds) /\ Len(kinds') = Len(kinds) + 1 /\ w \in Works /\ w # 0
    BY DEF QueueWork, TypeOK, CallTypes, Works
  <1>2. /\ UNCHANGED <<hold, pending, waitq, job, match, flushed, dropped>>
        /\ Holding' = Holding /\ EosInHand' = EosInHand /\ Matched' = Matched
        /\ WorksOf(waitq') = WorksOf(waitq)
    BY DEF QueueWork, workVars, waitVars, listVars, Holding, EosInHand, Matched
  <1>3. w \notin WorksOf(workq)
    <2>1. w \notin Queued
      BY <1>1 DEF Queued
    <2> HIDE DEF w
    <2> QED
      BY <2>1, PlacesNamed DEF OnePlace, InPlaces, Everywhere, Named
  <1> HIDE DEF w
  <1>4. CASE kind = "invalid"
    <2>1. back' = back \cup {w} /\ workq' = workq
      BY <1>4 DEF QueueWork, workQueue, w
    <2>2. OnceEach'
      BY <1>2, <2>1 DEF OnePlace, OnceEach, WorksOnce
    <2>3. /\ WorkPlaces'[8] = WorkPlaces[8] \cup {w}
          /\ \A i \in 1 .. 9 : i # 8 => WorkPlaces'[i] = WorkPlaces[i]
      BY <1>2, <2>1, PlacesNamed DEF Named
    <2> QED
      BY <1>1, <2>2, <2>3, Arrive DEF w
  <1>5. ASSUME back' = back, WorksOf(workq') = WorksOf(workq) \cup {w}, WorksOnce(workq')
        PROVE  OnePlace'
    <2>1. OnceEach'
      BY <1>2, <1>5 DEF OnePlace, OnceEach, WorksOnce
    <2>2. /\ WorkPlaces'[1] = WorkPlaces[1] \cup {w}
          /\ \A i \in 1 .. 9 : i # 1 => WorkPlaces'[i] = WorkPlaces[i]
      BY <1>2, <1>5, PlacesNamed DEF Named
    <2> QED
      BY <1>1, <2>1, <2>2, Arrive DEF w
  <1>6. ASSUME NEW c \in WorkCmds, c.work = w
        PROVE  /\ WorksOf(Append(workq, c)) = WorksOf(workq) \cup {w}
               /\ WorksOnce(Append(workq, c))
    BY <1>1, <1>3, <1>6, QueueLists DEF OnePlace, OnceEach
  <1>7. ASSUME NEW op \in {"pending", "drain", "work"}, W!Push(Cmd(op, w)), back' = back
        PROVE  OnePlace'
    <2>1. workq' = Append(workq, Cmd(op, w)) /\ Cmd(op, w) \in WorkCmds /\ Cmd(op, w).work = w
      BY <1>1, <1>7, CommandsMade, CommandMade DEF W!Push
    <2> QED
      BY <1>5, <1>6, <1>7, <2>1
  <1>8. CASE kind = "frameEos" /\ ~eos
    <2> DEFINE first == Cmd("work", w)
               second == Cmd("drain", 0)
               longer == Append(workq, first)
    <2>1. back' = back /\ workq' = workq \o <<first, second>>
      BY <1>8 DEF QueueWork, w
    <2>2. /\ first \in WorkCmds /\ first.work = w /\ second \in WorkCmds /\ second.work = 0
          /\ workq \in Seq(WorkCmds \cup {NoCmd}) /\ second.op # "wait"
      BY <1>1, CommandsMade, CommandMade DEF TypeOK, WorkTypes
    <2> HIDE DEF first, second
    <2>3. workq' = Append(longer, second) /\ longer \in Seq(WorkCmds \cup {NoCmd})
      BY <2>1, <2>2
    <2>4. WorksOf(longer) = WorksOf(workq) \cup {w} /\ WorksOnce(longer)
      BY <1>6, <2>2
    <2> HIDE DEF longer
    <2>5. second.work \notin WorksOf(longer)
      BY <2>2 DEF WorksOf
    <2>6. WorksOf(workq') = WorksOf(longer) \cup ({second.work} \ {0}) /\ WorksOnce(workq')
      BY <2>2, <2>3, <2>4, <2>5, WorksAppend
    <2>7. {second.work} \ {0} = {}
      BY <2>2
    <2> QED
      BY <1>5, <2>1, <2>4, <2>6, <2>7
  <1>9. CASE kind # "invalid" /\ (kind # "frameEos" \/ eos)
    <2>1. \E op \in {"pending", "drain", "work"} : W!Push(Cmd(op, w)) /\ back' = back
      BY <1>9 DEF QueueWork, w
    <2> QED
      BY <1>7, <2>1
  <1> QED
    BY <1>4, <1>8, <1>9

\* The places that follow from a variable each.
LEMMA PlacesKept ==
    /\ workq' = workq => WorksOf(workq') = WorksOf(workq) /\ (WorksOnce(workq) => WorksOnce(workq'))
    /\ waitq' = waitq => WorksOf(waitq') = WorksOf(waitq) /\ (WorksOnce(waitq) => WorksOnce(waitq'))
    /\ hold' = hold => Holding' = Holding
    /\ hold' = 0 => Holding' = {}
    /\ job' = job => EosInHand' = EosInHand
    /\ match' = match => Matched' = Matched
  BY DEF Holding, EosInHand, Matched, WorksOnce

\* The last step of Flush takes the works of both lists.
LEMMA OnePlaceCollect == ASSUME OnePlace, FlushCollect PROVE OnePlace'
  <1>1. /\ UNCHANGED <<kinds, workq, hold, waitq, job, match, dropped>>
        /\ back' = back \cup flushed \cup pending /\ pending' = {} /\ flushed' = {}
    BY DEF FlushCollect, workQueue, workVars, waitVars
  <1> DEFINE Between == [WorkPlaces EXCEPT ![3] = {}, ![8] = back \cup pending]
  <1>2. /\ DOMAIN WorkPlaces = 1 .. 9 /\ DOMAIN WorkPlaces' = 1 .. 9 /\ DOMAIN Between = 1 .. 9
        /\ Between[3] = {} /\ Between[8] = back \cup pending
        /\ \A i \in 1 .. 9 : i # 3 /\ i # 8 => Between[i] = WorkPlaces[i]
    BY PlacesNamed DEF Named
  <1> HIDE DEF Between
  <1>3. Everywhere(WorkPlaces) = Queued /\ Apart(WorkPlaces)
    BY DEF OnePlace, InPlaces
  <1>4. Everywhere(Between) = Everywhere(WorkPlaces) /\ Apart(Between)
    <2>1. 3 \in DOMAIN WorkPlaces /\ 8 \in DOMAIN WorkPlaces
      BY <1>2
    <2>2. Between[3] \subseteq WorkPlaces[3]
          /\ Between[8] = WorkPlaces[8] \cup (WorkPlaces[3] \ Between[3])
      BY <1>2, PlacesNamed DEF Named
    <2>3. /\ \A i \in DOMAIN WorkPlaces : i # 3 /\ i # 8 => Between[i] = WorkPlaces[i]
          /\ DOMAIN Between = DOMAIN WorkPlaces /\ 3 # 8
      BY <1>2
    <2> QED
      BY <1>3, <2>1, <2>2, <2>3, Moved
  <1>5. Everywhere(WorkPlaces') = Everywhere(Between) /\ Apart(WorkPlaces')
    <2>1. 7 \in DOMAIN Between /\ 8 \in DOMAIN Between
      BY <1>2
    <2>2. WorkPlaces'[7] \subseteq Between[7]
          /\ WorkPlaces'[8] = Between[8] \cup (Between[7] \ WorkPlaces'[7])
      BY <1>1, <1>2, PlacesNamed DEF Named
    <2>3. \A i \in 1 .. 9 : i # 7 /\ i # 8 => WorkPlaces'[i] = Between[i]
      BY <1>1, <1>2, PlacesNamed, PlacesKept DEF Named
    <2>4. /\ \A i \in DOMAIN Between : i # 7 /\ i # 8 => WorkPlaces'[i] = Between[i]
          /\ DOMAIN WorkPlaces' = DOMAIN Between /\ 7 # 8
      BY <1>2, <2>3
    <2> QED
      BY <1>4, <2>1, <2>2, <2>4, Moved
  <1>6. InPlaces'
    BY <1>1, <1>3, <1>4, <1>5 DEF InPlaces, Everywhere, Apart, Queued
  <1>7. OnceEach'
    BY <1>1, PlacesKept DEF OnePlace, OnceEach
  <1> QED
    BY <1>6, <1>7 DEF OnePlace

LEMMA OnePlaceStop ==
    ASSUME TypeOK, OnePlace,
           (\E abort \in BOOLEAN : StopWorking(abort)) \/ StopWaiting \/ StopPending
    PROVE  OnePlace'
  <1>0. /\ NoCmd \in WorkCmds \cup {NoCmd} /\ NoCmd \in WaitCmds \cup {NoCmd}
        /\ NoCmd.work = 0 /\ NoCmd.op = "stop" /\ {NoCmd.work} \ {0} = {}
        /\ WorksOf(<<NoCmd>>) = {} /\ WorksOnce(<<NoCmd>>)
    BY CommandFields DEF WorksOf, WorksOnce
  <1>1. ASSUME NEW abort \in BOOLEAN, StopWorking(abort)
        PROVE  OnePlace'
    <2>1. UNCHANGED <<kinds, hold, pending, waitq, job, match, flushed, back>>
      BY <1>1 DEF StopWorking, workVars, waitVars, listVars
    <2>2. CASE abort
      <3>1. workq' = <<NoCmd>> /\ dropped' = dropped \cup WorksOf(workq)
        BY <1>1, <2>2 DEF StopWorking, W!Shutdown
      <3>2. WorksOf(workq') = {} /\ OnceEach'
        BY <1>0, <2>1, <3>1, PlacesKept DEF OnePlace, OnceEach
      <3>3. Travels(1, 9)
        BY <2>1, <3>1, <3>2, PlacesNamed, PlacesKept DEF Travels, Named
      <3> QED
        BY <2>1, <3>2, <3>3, Travel
    <2>3. CASE ~abort
      <3>1. workq' = Append(workq, NoCmd) /\ dropped' = dropped
        BY <1>1, <2>3 DEF StopWorking, W!Shutdown
      <3>2. WorksOf(workq') = WorksOf(workq) /\ WorksOnce(workq')
        <4>1. NoCmd.work \notin WorksOf(workq) /\ WorksOnce(workq) /\ NoCmd.op # "wait"
          BY <1>0, QueueLists DEF OnePlace, OnceEach
        <4>2. WorksOf(Append(workq, NoCmd)) = WorksOf(workq) \cup ({NoCmd.work} \ {0})
              /\ WorksOnce(Append(workq, NoCmd))
          BY <1>0, <4>1, QueueLists
        <4> QED
          BY <1>0, <3>1, <4>2
      <3>3. OnceEach'
        BY <2>1, <3>2, PlacesKept DEF OnePlace, OnceEach
      <3>4. \A i \in 1 .. 9 : WorkPlaces'[i] = WorkPlaces[i]
        BY <2>1, <3>1, <3>2, PlacesNamed, PlacesKept DEF Named
      <3> QED
        BY <2>1, <3>3, <3>4, Settled
    <2> QED
      BY <2>2, <2>3
  <1>2. CASE StopWaiting
    <2>1. UNCHANGED <<kinds, workq, hold, pending, job, match, flushed, back>>
      BY <1>2 DEF StopWaiting, W!Join, V!Shutdown, workQueue, workVars, listVars
    <2>2. CASE aborting
      <3>1. waitq' = <<NoCmd>> /\ dropped' = dropped \cup WorksOf(waitq)
        BY <1>2, <2>2 DEF StopWaiting, V!Shutdown
      <3>2. WorksOf(waitq') = {} /\ OnceEach'
        BY <1>0, <2>1, <3>1, PlacesKept DEF OnePlace, OnceEach
      <3>3. Travels(4, 9)
        BY <2>1, <3>1, <3>2, PlacesNamed, PlacesKept DEF Travels, Named
      <3> QED
        BY <2>1, <3>2, <3>3, Travel
    <2>3. CASE ~aborting
      <3>1. waitq' = Append(waitq, NoCmd) /\ dropped' = dropped
        BY <1>2, <2>3 DEF StopWaiting, V!Shutdown
      <3>2. WorksOf(waitq') = WorksOf(waitq) /\ WorksOnce(waitq')
        <4>1. NoCmd.work \notin WorksOf(waitq) /\ WorksOnce(waitq) /\ NoCmd.op # "wait"
          BY <1>0, QueueLists DEF OnePlace, OnceEach
        <4>2. WorksOf(Append(waitq, NoCmd)) = WorksOf(waitq) \cup ({NoCmd.work} \ {0})
              /\ WorksOnce(Append(waitq, NoCmd))
          BY <1>0, <4>1, QueueLists
        <4> QED
          BY <1>0, <3>1, <4>2
      <3>3. OnceEach'
        BY <2>1, <3>2, PlacesKept DEF OnePlace, OnceEach
      <3>4. \A i \in 1 .. 9 : WorkPlaces'[i] = WorkPlaces[i]
        BY <2>1, <3>1, <3>2, PlacesNamed, PlacesKept DEF Named
      <3> QED
        BY <2>1, <3>3, <3>4, Settled
    <2> QED
      BY <2>2, <2>3
  <1>3. CASE StopPending
    <2>1. /\ UNCHANGED <<kinds, workq, hold, waitq, job, match, flushed, dropped>>
          /\ pending' = {} /\ back' = back \cup pending
      BY <1>3 DEF StopPending, workQueue, workVars, waitVars
    <2>2. OnceEach'
      BY <2>1, PlacesKept DEF OnePlace, OnceEach
    <2>3. Travels(3, 8)
      BY <2>1, PlacesNamed, PlacesKept DEF Travels, Named
    <2> QED
      BY <2>1, <2>2, <2>3, Travel
  <1> QED
    BY <1>1, <1>2, <1>3

\* The work in hand goes to m_flushedWorks, to m_pendingWorks or back to the client.
LEMMA HandedOver ==
    ASSUME OnePlace, hold' = 0,
           UNCHANGED <<kinds, workq, waitq, job, match, dropped>>,
           \/ flushed' = flushed \cup Holding /\ UNCHANGED <<pending, back>>
           \/ pending' = pending \cup Holding /\ UNCHANGED <<flushed, back>>
           \/ back' = back \cup Holding /\ UNCHANGED <<pending, flushed>>
    PROVE  OnePlace'
  <1>1. OnceEach'
    BY PlacesKept DEF OnePlace, OnceEach
  <1>2. CASE flushed' = flushed \cup Holding /\ UNCHANGED <<pending, back>>
    <2>1. Travels(2, 7)
      BY <1>2, PlacesNamed, PlacesKept DEF Travels, Named
    <2> QED
      BY <1>1, <2>1, Travel
  <1>3. CASE pending' = pending \cup Holding /\ UNCHANGED <<flushed, back>>
    <2>1. Travels(2, 3)
      BY <1>3, PlacesNamed, PlacesKept DEF Travels, Named
    <2> QED
      BY <1>1, <2>1, Travel
  <1>4. CASE back' = back \cup Holding /\ UNCHANGED <<pending, flushed>>
    <2>1. Travels(2, 8)
      BY <1>4, PlacesNamed, PlacesKept DEF Travels, Named
    <2> QED
      BY <1>1, <2>1, Travel
  <1> QED
    BY <1>2, <1>3, <1>4

LEMMA OnePlaceHands ==
    ASSUME TypeOK, TaskPlaces, OnePlace,
           \/ WorkFlushed \/ AppendOnly \/ AppendPending \/ PendingTask \/ CallBusy
           \/ DrainNothing \/ DrainFlushed
    PROVE  OnePlace'
  <1>1. CASE WorkFlushed
    BY <1>1, HandedOver
    DEF WorkFlushed, EndTask, W!Finish, apiVars, waitVars, clientVars
  <1>2. CASE AppendOnly \/ DrainNothing
    BY <1>2, HandedOver
    DEF AppendOnly, DrainNothing, EndTask, W!Finish, apiVars, waitVars, listVars
  <1>3. CASE AppendPending \/ PendingTask
    <2>1. Holding = {hold}
      BY <1>3, InHand, CommandFields DEF AppendPending, PendingTask, Holding
    <2> QED
      BY <1>3, <2>1, HandedOver
      DEF AppendPending, PendingTask, AddPending, EndTask, W!Finish, apiVars, workQueue, waitVars,
          clientVars
  <1>4. CASE CallBusy
    <2>1. CASE draining
      BY <1>4, <2>1, HandedOver DEF CallBusy, apiVars, workQueue, waitVars, clientVars
    <2>2. CASE ~draining
      <3>1. UNCHANGED <<kinds, workq, hold, pending, waitq, job, match, flushed, back, dropped>>
        BY <1>4, <2>2 DEF CallBusy, apiVars, workQueue, waitVars, clientVars
      <3> QED
        BY <3>1, PlacesKept, PlacesFrame
    <2> QED
      BY <2>1, <2>2
  <1>5. CASE DrainFlushed
    BY <1>5, HandedOver DEF DrainFlushed, apiVars, workQueue, waitVars, clientVars
  <1> QED
    BY <1>1, <1>2, <1>3, <1>4, <1>5

LEMMA OnePlaceWorking ==
    ASSUME TypeOK, TaskPlaces, OnePlace, TakeTask \/ Settle \/ DrainEos \/ Reinit
    PROVE  OnePlace'
  <1>1. CASE TakeTask
    <2>1. /\ UNCHANGED <<kinds, pending, waitq, job, match, flushed, back, dropped>>
          /\ workq # <<>> /\ workq' = Tail(workq) /\ hold' = Head(workq).work /\ task = NoCmd
      BY <1>1 DEF TakeTask, W!Take, apiVars, waitVars, listVars, clientVars
    <2>2. Holding = {}
      BY <2>1, InHand DEF Holding, TypeOK, WorkTypes
    <2>3. Holding' = {Head(workq).work} \ {0}
      BY <2>1 DEF Holding
    <2>4. /\ WorksOf(workq) = WorksOf(workq') \cup ({Head(workq).work} \ {0})
          /\ WorksOnce(workq') /\ Head(workq).work \notin WorksOf(workq')
      BY <2>1, QueueLists DEF OnePlace, OnceEach
    <2>5. OnceEach'
      BY <2>1, <2>4, PlacesKept DEF OnePlace, OnceEach
    <2>6. Travels(1, 2)
      BY <2>1, <2>2, <2>3, <2>4, PlacesNamed, PlacesKept DEF Travels, Named
    <2> QED
      BY <2>1, <2>5, <2>6, Travel
  <1>2. CASE Settle
    <2>1. UNCHANGED <<kinds, workq, hold, waitq, job, match, dropped>>
      BY <1>2 DEF Settle, EndTask, W!Finish, apiVars, waitVars
    <2>2. OnceEach'
      BY <2>1, PlacesKept DEF OnePlace, OnceEach
    <2>3. CASE UNCHANGED <<pending, flushed, back>>
      BY <2>1, <2>3, PlacesKept, PlacesFrame
    <2>4. CASE /\ task.work \in pending /\ pending' = pending \ {task.work}
               /\ flushed' = flushed \cup {task.work} /\ UNCHANGED back
      <3>1. Travels(3, 7)
        BY <2>1, <2>4, PlacesNamed, PlacesKept DEF Travels, Named
      <3> QED
        BY <2>1, <2>2, <3>1, Travel
    <2>5. CASE /\ task.work \in pending /\ pending' = pending \ {task.work}
               /\ back' = back \cup {task.work} /\ UNCHANGED flushed
      <3>1. Travels(3, 8)
        BY <2>1, <2>5, PlacesNamed, PlacesKept DEF Travels, Named
      <3> QED
        BY <2>1, <2>2, <3>1, Travel
    <2> QED
      BY <1>2, <2>3, <2>4, <2>5 DEF Settle
  <1>3. CASE DrainEos
    <2>1. UNCHANGED <<kinds, workq, pending, job, match, flushed, back, dropped>> /\ hold' = 0
      BY <1>3 DEF DrainEos, V!Push, apiVars, workQueue, waitVars, listVars, clientVars
    <2>2. CASE hold = 0
      <3>1. waitq' = waitq
        BY <1>3, <2>2 DEF DrainEos, waitVars
      <3> QED
        BY <2>1, <2>2, <3>1, PlacesKept, PlacesFrame
    <2>3. CASE hold # 0
      <3> DEFINE end == Cmd("eos", hold)
      <3>1. /\ waitq' = Append(waitq, end) /\ hold \in Works /\ Holding = {hold}
            /\ end \in WaitCmds /\ end.op = "eos" /\ end.work = hold
        BY <1>3, <2>3, InHand, CommandsMade, CommandMade DEF DrainEos, V!Push, Holding
      <3> HIDE DEF end
      <3>2. end.work \notin WorksOf(waitq)
        <4>1. WorkPlaces[2] \cap WorkPlaces[4] = {}
          BY Disjoint
        <4> QED
          BY <3>1, <4>1, PlacesNamed DEF Named
      <3>3. WorksOf(waitq') = WorksOf(waitq) \cup {hold} /\ WorksOnce(waitq')
        BY <2>3, <3>1, <3>2, QueueLists DEF OnePlace, OnceEach
      <3>4. OnceEach'
        BY <2>1, <3>3, PlacesKept DEF OnePlace, OnceEach
      <3>5. Travels(2, 4)
        BY <2>1, <3>1, <3>3, PlacesNamed, PlacesKept DEF Travels, Named
      <3> QED
        BY <2>1, <3>4, <3>5, Travel
    <2> QED
      BY <2>2, <2>3
  <1>4. CASE Reinit
    <2>1. /\ UNCHANGED <<kinds, workq, hold, waitq, job, match, flushed, dropped>>
          /\ back' = back \cup (pending \ {task.work}) /\ pending' = pending \cap {task.work}
      BY <1>4 DEF Reinit, apiVars, workQueue, waitVars
    <2>2. OnceEach'
      BY <2>1, PlacesKept DEF OnePlace, OnceEach
    <2>3. Travels(3, 8)
      BY <2>1, PlacesNamed, PlacesKept DEF Travels, Named
    <2> QED
      BY <2>1, <2>2, <2>3, Travel
  <1> QED
    BY <1>1, <1>2, <1>3, <1>4

LEMMA OnePlaceWaiting ==
    ASSUME TypeOK, TaskPlaces, OnePlace,
           TakeJob \/ EosReturned \/ WaitWorkFinds \/ WaitWorkNotifies
    PROVE  OnePlace'
  <1>1. CASE TakeJob
    <2>1. /\ UNCHANGED <<kinds, workq, hold, pending, match, flushed, back, dropped>>
          /\ waitq # <<>> /\ waitq' = Tail(waitq) /\ job' = Head(waitq) /\ job = NoCmd
          /\ Head(waitq) \in WaitCmds \cup {NoCmd}
      BY <1>1, ListTypes
      DEF TakeJob, V!Take, apiVars, workQueue, workVars, listVars, clientVars
    <2>2. EosInHand = {} /\ EosInHand' = IF Head(waitq).op = "wait" THEN {} ELSE {Head(waitq).work} \ {0}
      BY <2>1, CommandFields DEF EosInHand
    <2>3. /\ WorksOf(waitq) = WorksOf(waitq') \cup EosInHand'
          /\ WorksOnce(waitq')
          /\ Head(waitq).op = "wait" \/ Head(waitq).work \notin WorksOf(waitq')
      BY <2>1, <2>2, QueueLists DEF OnePlace, OnceEach
    <2>4. EosInHand' \cap WorksOf(waitq') = {}
      BY <2>2, <2>3
    <2>5. OnceEach'
      BY <2>1, <2>3, PlacesKept DEF OnePlace, OnceEach
    <2>6. Travels(4, 5)
      BY <2>1, <2>2, <2>3, <2>4, PlacesNamed, PlacesKept DEF Travels, Named
    <2> QED
      BY <2>1, <2>5, <2>6, Travel
  <1>2. CASE EosReturned
    <2>1. /\ UNCHANGED <<kinds, workq, hold, pending, waitq, match, flushed, dropped>>
          /\ back' = back \cup {job.work} /\ job.op = "eos" /\ job' = NoCmd
      BY <1>2 DEF EosReturned, V!Finish, apiVars, workQueue, workVars, listVars
    <2>2. EosInHand = {job.work} /\ EosInHand' = {}
      BY <2>1, CommandFields DEF EosInHand
    <2>3. OnceEach'
      BY <2>1, PlacesKept DEF OnePlace, OnceEach
    <2>4. Travels(5, 8)
      BY <2>1, <2>2, PlacesNamed, PlacesKept DEF Travels, Named
    <2> QED
      BY <2>1, <2>3, <2>4, Travel
  <1>3. CASE WaitWorkFinds
    <2> DEFINE same == { p \in pending : TimeStamp[p] = TimeStamp[job.work] }
    <2>1. /\ UNCHANGED <<kinds, workq, hold, waitq, job, flushed, back, dropped>>
          /\ match' = IF same = {} THEN 0 ELSE CHOOSE p \in same : \A q \in same : p <= q
          /\ pending' = pending \ {match'} /\ found = "sync"
      BY <1>3 DEF WaitWorkFinds, apiVars, workQueue, workVars, clientVars
    <2>2. match = 0
      BY <2>1 DEF TaskPlaces, HoldsMatch
    <2>3. same \subseteq pending /\ pending \subseteq Works
      BY DEF TypeOK, DataTypes
    <2> HIDE DEF same
    <2>4. (match' = 0 /\ pending' = pending) \/ (match' \in pending /\ match' # 0)
      <3>1. CASE same = {}
        BY <2>1, <2>3, <3>1, CommandFields
      <3>2. CASE same # {}
        <4>1. match' \in same
          BY <2>1, <2>3, <3>2, FirstOfSame
        <4> QED
          BY <2>3, <4>1, CommandFields
      <3> QED
        BY <3>1, <3>2
    <2>5. Matched = {} /\ Matched' = {match'} \ {0}
      BY <2>2 DEF Matched
    <2>6. OnceEach'
      BY <2>1, PlacesKept DEF OnePlace, OnceEach
    <2>7. Matched' = pending \ pending' /\ pending' \subseteq pending
      BY <2>1, <2>4, <2>5
    <2>8. Travels(3, 6)
      BY <2>1, <2>5, <2>7, PlacesNamed, PlacesKept DEF Travels, Named
    <2> QED
      BY <2>1, <2>6, <2>8, Travel
  <1>4. CASE WaitWorkNotifies
    <2>1. /\ UNCHANGED <<kinds, workq, hold, pending, waitq, job, flushed, dropped>>
          /\ back' = back \cup {match} /\ match' = 0 /\ found = "notify"
      BY <1>4 DEF WaitWorkNotifies, apiVars, workQueue, workVars, listVars
    <2>2. Matched = {match} /\ Matched' = {}
      BY <2>1 DEF Matched, TaskPlaces, HoldsMatch
    <2>3. OnceEach'
      BY <2>1, PlacesKept DEF OnePlace, OnceEach
    <2>4. Travels(6, 8)
      BY <2>1, <2>2, PlacesNamed, PlacesKept DEF Travels, Named
    <2> QED
      BY <2>1, <2>3, <2>4, Travel
  <1> QED
    BY <1>1, <1>2, <1>3, <1>4

LEMMA OnePlaceStep == ASSUME TypeOK, TaskPlaces, OnePlace, Next PROVE OnePlace'
  <1>1. CASE Start \/ StartFails \/ Stop \/ \E kind \in Kinds : QueueWork(kind)
    BY <1>1, OnePlaceIdle, OnePlaceStop, OnePlaceQueue DEF Stop
  <1>2. CASE Flush
    BY <1>2, OnePlaceIdle, OnePlaceNoWork, OnePlaceCollect DEF Flush
  <1>3. CASE DecodeFrame
    BY <1>3, OnePlaceIdle, OnePlaceNoWork, OnePlaceHands DEF DecodeFrame
  <1>4. CASE TakeTask \/ DoWork \/ Drain \/ PendingTask \/ Reset
    BY <1>4, OnePlaceIdle, OnePlaceHands, OnePlaceWorking DEF DoWork, Drain
  <1>5. CASE Waiting
    BY <1>5, OnePlaceIdle, OnePlaceWaiting DEF Waiting
  <1> QED
    BY <1>1, <1>2, <1>3, <1>4, <1>5 DEF Next, Working

LEMMA OnePlaceStutter == ASSUME OnePlace, UNCHANGED vars PROVE OnePlace'
  <1>1. UNCHANGED <<kinds, workq, hold, pending, waitq, job, match, flushed, back, dropped>>
    BY DEF vars, apiVars, workQueue, workVars, waitVars, listVars, clientVars
  <1> QED
    BY <1>1, PlacesKept, PlacesFrame

\* A queued work is in exactly one place, whatever the caller and the two threads of the
\* component do at the same time, and whatever fails: no work is lost in a hand-over between
\* the queues, m_pendingWorks, m_flushedWorks and the listener, and none is given back twice.
THEOREM WorksInOnePlace == Spec => []EveryWorkInOnePlace
  <1>1. Init => TypeOK /\ TaskPlaces /\ OnePlace
    BY TypeInit, OnePlaceInit
  <1>2. TypeOK /\ TaskPlaces /\ OnePlace /\ [Next]_vars => (TypeOK /\ TaskPlaces /\ OnePlace)'
    BY TypeStep, TypeStutter, OnePlaceStep, OnePlaceStutter
  <1>3. OnePlace => EveryWorkInOnePlace
    BY OnePlaceImplies
  <1> QED
    BY <1>1, <1>2, <1>3, PTL DEF Spec

-----------------------------------------------------------------------------
(* What Flush collects *)

\* The reset task is the last of the working queue while Flush waits for it, and after it the
\* working thread does nothing before Flush ends; m_bFlushing is set meanwhile, and only then a
\* work is put in m_flushedWorks.
FlushOrder ==
    /\ api = "flushWork" => IF workq = <<>> THEN at \in {"idle", "reset"}
                                            ELSE workq[Len(workq)].op = "reset"
    /\ api \in {"flushWait", "flushEnd", "flushCollect"} => workq = <<>> /\ at \in {"idle", "reset"}
    /\ api \in {"flushEnd", "flushCollect"} => waitq = <<>>
    /\ flushing = TRUE <=> api \in {"flushWork", "flushWait", "flushEnd"}
    /\ flushed # {} => flushing = TRUE \/ api = "flushCollect"
    /\ outcome = "flushing" => flushing = TRUE /\ at = "settle"

\* The working thread goes on with a task: it is not waiting for one and not at the reset task,
\* only a work that was flushed goes to m_flushedWorks, and the waiting queue gets a command at
\* most.
OnTask == /\ at \notin {"idle", "reset"}
          /\ UNCHANGED <<api, flushing, workq, worker, job, waiter>>
          /\ task' = task \/ task' = NoCmd
          /\ waitq' = waitq \/ \E c \in WaitCmds : waitq' = Append(waitq, c)
          /\ flushed' = flushed \/ flushing = TRUE
          /\ outcome' = "flushing" => \/ flushing = TRUE /\ at' = "settle"
                                      \/ outcome = "flushing" /\ at # "settle"

LEMMA OnTaskSteps ==
    ASSUME TypeOK, TaskPlaces, FlushOrder, DoWork \/ DecodeFrame \/ Drain \/ PendingTask
    PROVE  OnTask
  <1> USE DEF OnTask
  <1>0. flushing => flushing = TRUE
    BY DEF TypeOK, CallTypes
  <1>1. CASE DoWork
    <2>1. CASE WorkFlushed
      BY <1>0, <2>1 DEF WorkFlushed, EndTask, W!Finish, apiVars, waitVars
    <2>2. CASE WorkBegin \/ AppendPending \/ InitFails \/ InitDone
      BY <2>2 DEF WorkBegin, AppendPending, AddPending, InitFails, InitDone, Goto, apiVars,
                  workQueue, waitVars, listVars
    <2>3. CASE AppendOnly
      BY <2>3 DEF AppendOnly, EndTask, W!Finish, apiVars, waitVars, listVars
    <2>4. CASE Settle
      BY <2>4 DEF Settle, EndTask, W!Finish, FlushOrder, apiVars, waitVars
    <2> QED
      BY <1>1, <2>1, <2>2, <2>3, <2>4 DEF DoWork
  <1>2. CASE DecodeFrame
    <2>1. CASE AllocFails \/ AllocDone \/ Gate \/ CallBuffers \/ CallDrained \/ CallFails \/ CallChanges
      BY <2>1 DEF AllocFails, AllocDone, Gate, CallBuffers, CallDrained, CallFails, CallChanges,
                  Goto, apiVars, workQueue, waitVars, listVars
    <2>2. CASE \E f \in Works, reads \in BOOLEAN : CallOutputs(f, reads)
      BY <2>2, CommandsMade DEF CallOutputs, V!Push, apiVars, workQueue, listVars
    <2>3. CASE CallBusy
      BY <1>0, <2>3 DEF CallBusy, Goto, apiVars, workQueue, waitVars
    <2>4. CASE Count
      BY <2>4 DEF Count, Goto, apiVars, workQueue, waitVars, listVars
    <2> QED
      BY <1>2, <2>1, <2>2, <2>3, <2>4 DEF DecodeFrame
  <1>3. CASE Drain
    <2>1. CASE DrainNothing
      BY <2>1 DEF DrainNothing, EndTask, W!Finish, apiVars, waitVars, listVars
    <2>2. CASE DrainFlushed
      BY <1>0, <2>2 DEF DrainFlushed, Goto, apiVars, workQueue, waitVars
    <2>3. CASE DrainBegin \/ Reinit
      BY <2>3 DEF DrainBegin, Reinit, Goto, apiVars, workQueue, waitVars, listVars
    <2>4. CASE DrainEos
      BY <2>4, InHand, CommandsMade DEF DrainEos, V!Push, Goto, apiVars, workQueue, waitVars, listVars
    <2>5. CASE DrainWait
      BY <2>5 DEF DrainWait, EndTask, W!Finish, Goto, apiVars, workQueue, waitVars, listVars
    <2> QED
      BY <1>3, <2>1, <2>2, <2>3, <2>4, <2>5 DEF Drain
  <1>4. CASE PendingTask
    BY <1>4 DEF PendingTask, AddPending, EndTask, W!Finish, apiVars, waitVars
  <1> QED
    BY <1>1, <1>2, <1>3, <1>4

LEMMA FlushInit == ASSUME Init PROVE FlushOrder
  BY DEF Init, FlushOrder

LEMMA FlushStutter ==
    ASSUME FlushOrder, UNCHANGED <<api, flushing, workq, at, waitq, flushed, outcome>>
    PROVE  FlushOrder'
  BY DEF FlushOrder

LEMMA FlushStep == ASSUME TypeOK, TaskPlaces, FlushOrder, Next PROVE FlushOrder'
  <1> USE DEF FlushOrder
  <1>0. /\ at = "idle" => outcome = "none"
        /\ at \in {"idle", "reset"} => outcome # "flushing"
    BY InHand
  <1>1. CASE Start \/ StartFails
    BY <1>1 DEF Start, StartFails, W!Start, V!Start, workQueue, workVars, waitVars, listVars
  <1>2. ASSUME NEW kind \in Kinds, QueueWork(kind)
        PROVE  FlushOrder'
    BY <1>2 DEF QueueWork, workVars, waitVars, listVars
  <1>3. CASE FlushBegin
    <2>1. /\ workq' = Append(workq, Cmd("reset", 0)) /\ api' = "flushWork" /\ flushing' = TRUE
          /\ UNCHANGED <<at, outcome, flushed>>
      BY <1>3 DEF FlushBegin, W!Push, workVars, listVars
    <2>2. workq' # <<>> /\ workq'[Len(workq')].op = "reset"
      BY <2>1, CommandMade DEF TypeOK, WorkTypes
    <2>3. api = "running" /\ (outcome = "flushing" => flushing = TRUE)
      BY <1>3 DEF FlushBegin
    <2> QED
      BY <2>1, <2>2, <2>3
  <1>4. CASE FlushWorking \/ FlushWaiting
    BY <1>4 DEF FlushWorking, FlushWaiting, workQueue, workVars, waitVars, listVars
  <1>5. CASE FlushEnd
    BY <1>0, <1>5 DEF FlushEnd, workQueue, workVars, waitVars, listVars
  <1>6. CASE FlushCollect
    BY <1>6 DEF FlushCollect, workQueue, workVars, waitVars
  <1>7. CASE Stop
    BY <1>7 DEF Stop, StopWorking, StopWaiting, StopJoined, StopPending, W!Shutdown, W!Join,
                V!Shutdown, V!Join, workQueue, workVars, waitVars, listVars
  <1>8. CASE TakeTask
    <2>1. /\ workq # <<>> /\ workq' = Tail(workq) /\ task' = Head(workq) /\ task = NoCmd
          /\ at' = IF task' = NoCmd THEN "idle" ELSE task'.op
          /\ UNCHANGED <<api, flushing, outcome, waitq, flushed>>
      BY <1>8 DEF TakeTask, W!Take, Goto, apiVars, waitVars, listVars
    <2>2. /\ Len(workq) \in Nat /\ Len(workq) > 0
          /\ workq' = <<>> => Head(workq) = workq[Len(workq)]
          /\ workq' # <<>> => workq'[Len(workq')] = workq[Len(workq)]
      BY <2>1, LastOfTail DEF TypeOK, WorkTypes
    <2>3. task' = NoCmd => task'.op = "stop"
      BY CommandFields
    <2>4. outcome = "none"
      BY <1>0, <2>1 DEF TypeOK, WorkTypes
    <2> QED
      BY <2>1, <2>2, <2>3, <2>4
  <1>9. CASE DoWork \/ DecodeFrame \/ Drain \/ PendingTask
    <2>1. OnTask
      BY <1>9, OnTaskSteps
    <2>2. outcome' = "flushing" => flushing = TRUE /\ at' = "settle"
      BY <2>1 DEF OnTask
    <2> QED
      BY <2>1, <2>2 DEF OnTask
  <1>10. CASE Reset
    BY <1>10 DEF Reset, EndTask, W!Finish, Goto, apiVars, waitVars, listVars
  <1>11. CASE TakeJob
    BY <1>11 DEF TakeJob, V!Take, apiVars, workQueue, workVars, listVars
  <1>12. CASE EosReturned \/ WaitWorkFinds \/ WaitWorkNotifies \/ WaitWorkCounts
    BY <1>12 DEF EosReturned, WaitWorkFinds, WaitWorkNotifies, WaitWorkCounts, V!Finish, apiVars,
                 workQueue, workVars, listVars
  <1> QED
    BY <1>1, <1>2, <1>3, <1>4, <1>5, <1>6, <1>7, <1>8, <1>9, <1>10, <1>11, <1>12
    DEF Next, Flush, Working, Waiting

LEMMA FlushImplies ==
    ASSUME TypeOK, TaskPlaces, OnePlace, FlushOrder
    PROVE  FlushSeesAll
  <1> SUFFICES ASSUME api = "flushCollect"
               PROVE  /\ at \in {"idle", "reset"} /\ workq = <<>> /\ waitq = <<>>
                      /\ Queued = flushed \cup pending \cup back \cup dropped \cup Matched
                                    \cup EosInHand
    BY DEF FlushSeesAll
  <1>1. at \in {"idle", "reset"} /\ workq = <<>> /\ waitq = <<>>
    BY DEF FlushOrder
  <1>2. Holding = {} /\ WorksOf(workq) = {} /\ WorksOf(waitq) = {}
    BY <1>1, InHand DEF Holding, WorksOf
  <1>3. \A w : w \in Queued <=> \E i \in 1 .. 9 : w \in WorkPlaces[i]
    BY PlacesNamed DEF OnePlace, InPlaces, Everywhere, Named
  <1>4. \A w : w \in Queued <=> w \in flushed \cup pending \cup back \cup dropped \cup Matched
                                       \cup EosInHand
    BY <1>2, <1>3, PlacesNamed DEF Named
  <1> QED
    BY <1>1, <1>4

\* When Flush collects the two lists no task can add to them: both queues are empty and the
\* working thread has at most the reset task, so that every work that was not given back before
\* is in one of the lists or in the hands of the waiting thread.
THEOREM FlushCollectsAll == Spec => []FlushSeesAll
  <1>1. Init => TypeOK /\ TaskPlaces /\ OnePlace /\ FlushOrder
    BY TypeInit, OnePlaceInit, FlushInit
  <1>2. TypeOK /\ TaskPlaces /\ OnePlace /\ FlushOrder /\ [Next]_vars
          => (TypeOK /\ TaskPlaces /\ OnePlace /\ FlushOrder)'
    <2>1. ASSUME FlushOrder, UNCHANGED vars
          PROVE  FlushOrder'
      BY <2>1, FlushStutter DEF vars, apiVars, workQueue, workVars, waitVars, listVars
    <2> QED
      BY <2>1, TypeStep, TypeStutter, OnePlaceStep, OnePlaceStutter, FlushStep
  <1>3. TypeOK /\ TaskPlaces /\ OnePlace /\ FlushOrder => FlushSeesAll
    BY FlushImplies
  <1> QED
    BY <1>1, <1>2, <1>3, PTL DEF Spec

-----------------------------------------------------------------------------
(* A stopped component *)

\* A thread that does not run has no task; DoStop has joined the working thread, then the
\* waiting one.
Joined == /\ worker # "up" => task = NoCmd
          /\ waiter # "up" => job = NoCmd
          /\ api \in {"stopWait", "stopPending", "stopped"} => worker = "none"
          /\ api \in {"stopPending", "stopped"} => waiter = "none"

LEMMA JoinedFrame == ASSUME Joined, UNCHANGED <<api, worker, task, waiter, job>> PROVE Joined'
  BY DEF Joined

LEMMA JoinedInit == ASSUME Init PROVE Joined
  BY DEF Init, W!Init, V!Init, Joined

LEMMA JoinedStep == ASSUME TypeOK, TaskPlaces, FlushOrder, Joined, Next PROVE Joined'
  <1>1. CASE Start \/ StartFails
    BY <1>1 DEF Joined, Start, StartFails, W!Start, V!Start, workQueue, waitVars
  <1>2. ASSUME NEW kind \in Kinds, QueueWork(kind)
        PROVE  Joined'
    BY <1>2, JoinedFrame DEF QueueWork, W!Push, workQueue, waitVars
  <1>3. CASE Flush
    BY <1>3 DEF Joined, Flush, FlushBegin, FlushWorking, FlushWaiting, FlushEnd, FlushCollect,
                W!Push, workQueue, waitVars
  <1>4. CASE Stop
    <2>1. CASE \E abort \in BOOLEAN : StopWorking(abort)
      BY <2>1 DEF Joined, StopWorking, W!Shutdown, waitVars
    <2>2. CASE StopWaiting
      BY <2>2 DEF Joined, StopWaiting, W!Join, V!Shutdown, workQueue
    <2>3. CASE StopJoined
      BY <2>3 DEF Joined, StopJoined, V!Join, workQueue
    <2>4. CASE StopPending
      BY <2>4 DEF Joined, StopPending, workQueue, waitVars
    <2> QED
      BY <1>4, <2>1, <2>2, <2>3, <2>4 DEF Stop
  <1>5. CASE TakeTask
    BY <1>5 DEF Joined, TakeTask, W!Take, apiVars, waitVars
  <1>6. CASE DoWork \/ DecodeFrame \/ Drain \/ PendingTask
    BY <1>6, OnTaskSteps DEF Joined, OnTask
  <1>7. CASE Reset
    BY <1>7 DEF Joined, Reset, EndTask, W!Finish, apiVars, waitVars
  <1>8. CASE TakeJob
    BY <1>8 DEF Joined, TakeJob, V!Take, apiVars, workQueue
  <1>9. CASE EosReturned \/ WaitWorkFinds \/ WaitWorkNotifies \/ WaitWorkCounts
    BY <1>9 DEF Joined, EosReturned, WaitWorkFinds, WaitWorkNotifies, WaitWorkCounts, V!Finish,
                apiVars, workQueue
  <1> QED
    BY <1>1, <1>2, <1>3, <1>4, <1>5, <1>6, <1>7, <1>8, <1>9 DEF Next, Working, Waiting

\* In a stopped component neither thread is anywhere.
LEMMA StoppedIdle ==
    ASSUME TypeOK, TaskPlaces, Joined, api = "stopped"
    PROVE  /\ at = "idle" /\ task = NoCmd /\ job = NoCmd /\ found = "idle"
           /\ Holding = {} /\ EosInHand = {} /\ Matched = {}
  <1>1. task = NoCmd /\ job = NoCmd
    BY DEF Joined
  <1>2. at = "idle" /\ found = "idle" /\ job.op = "stop"
    BY <1>1, CommandFields DEF TypeOK, WorkTypes, WaitTypes
  <1>3. hold = 0 /\ match = 0
    BY <1>2, InHand DEF TaskPlaces, HoldsMatch
  <1> QED
    BY <1>1, <1>2, <1>3 DEF Holding, EosInHand, Matched

LEMMA StoppedGivesNothing ==
    ASSUME TypeOK, TaskPlaces, Joined, Next, api = "stopped"
    PROVE  back' = back /\ pending' = pending
  <1>1. CASE Start \/ StartFails
    BY <1>1 DEF Start, StartFails, clientVars, listVars
  <1>2. CASE Flush \/ Stop \/ \E kind \in Kinds : QueueWork(kind)
    BY <1>2 DEF Flush, FlushBegin, FlushWorking, FlushWaiting, FlushEnd, FlushCollect, Stop,
                StopWorking, StopWaiting, StopJoined, StopPending, QueueWork
  <1>3. CASE TakeTask
    BY <1>3 DEF TakeTask, clientVars, listVars
  <1>4. CASE DoWork \/ PendingTask \/ Reset
    BY <1>4, StoppedIdle DEF DoWork, WorkFlushed, WorkBegin, AppendOnly, AppendPending, InitFails,
                             InitDone, Settle, PendingTask, Reset
  <1>5. CASE DecodeFrame
    BY <1>5, StoppedIdle DEF DecodeFrame, AllocFails, AllocDone, Gate, CallBuffers, CallOutputs,
                             CallDrained, CallBusy, CallFails, CallChanges, Count
  <1>6. CASE Drain
    BY <1>6, StoppedIdle DEF Drain, DrainNothing, DrainFlushed, DrainBegin, DrainEos, DrainWait,
                             Reinit
  <1>7. CASE TakeJob
    BY <1>7 DEF TakeJob, clientVars, listVars
  <1>8. CASE EosReturned
    BY <1>8, StoppedIdle, CommandFields DEF EosReturned
  <1>9. CASE WaitWorkFinds \/ WaitWorkNotifies \/ WaitWorkCounts
    BY <1>9, StoppedIdle DEF WaitWorkFinds, WaitWorkNotifies, WaitWorkCounts
  <1> QED
    BY <1>1, <1>2, <1>3, <1>4, <1>5, <1>6, <1>7, <1>8, <1>9 DEF Next, Working, Waiting

\* The steps of all invariants so far.
Base == TypeOK /\ TaskPlaces /\ OnePlace /\ FlushOrder /\ Joined

LEMMA BaseInit == ASSUME Init PROVE Base
  BY TypeInit, OnePlaceInit, FlushInit, JoinedInit DEF Base

LEMMA BaseStep == ASSUME Base, [Next]_vars PROVE Base'
  <1>1. CASE Next
    BY <1>1, TypeStep, OnePlaceStep, FlushStep, JoinedStep DEF Base
  <1>2. CASE UNCHANGED vars
    <2>1. UNCHANGED <<api, flushing, workq, worker, task, at, waitq, waiter, job, flushed, outcome>>
      BY <1>2 DEF vars, apiVars, workQueue, workVars, waitVars, listVars
    <2> QED
      BY <1>2, <2>1, TypeStutter, OnePlaceStutter, FlushStutter, JoinedFrame DEF Base
  <1> QED
    BY <1>1, <1>2

\* After DoStop no thread of the component calls the listener: both threads were joined, and the
\* works that were pending were given back before.
THEOREM StoppedIsQuiet == Spec => QuietWhenStopped
  <1>1. Init => Base
    BY BaseInit
  <1>2. Base /\ [Next]_vars => Base'
    BY BaseStep
  <1>3. Base /\ [Next]_vars => [api = "stopped" => back' = back]_vars
    <2> SUFFICES ASSUME Base, Next, api = "stopped"
                 PROVE  back' = back
      BY DEF vars
    <2> QED
      BY StoppedGivesNothing DEF Base
  <1> QED
    BY <1>1, <1>2, <1>3, PTL DEF Spec, QuietWhenStopped

-----------------------------------------------------------------------------
(* What DoStop leaves behind, when DoStart never failed *)

\* A component that runs has both threads and no null command in a queue; a thread that is being
\* stopped takes its null command last of all, and leaves an empty queue.
Ending ==
    /\ api \in {"running", "flushWork", "flushWait", "flushEnd", "flushCollect"} =>
         worker = "up" /\ Never(NoCmd, workq)
    /\ api = "stopWork" => \/ worker = "up" /\ OnlyLast(NoCmd, workq)
                           \/ worker = "ended" /\ workq = <<>>
    /\ api \in {"stopWait", "stopPending", "stopped"} => workq = <<>>
    /\ api \notin {"stopWait", "stopPending", "stopped"} => waiter = "up" /\ Never(NoCmd, waitq)
    /\ api = "stopWait" => \/ waiter = "up" /\ OnlyLast(NoCmd, waitq)
                           \/ waiter = "ended" /\ waitq = <<>>
    /\ api \in {"stopPending", "stopped"} => waitq = <<>>
    /\ api = "stopped" => pending = {}

LEMMA EndingFrame ==
    ASSUME Ending, UNCHANGED <<api, workq, worker, waitq, waiter>>,
           pending' = pending \/ api # "stopped"
    PROVE  Ending'
  BY DEF Ending, Never, OnlyLast

LEMMA EndingInit == ASSUME Init PROVE Ending
  BY DEF Init, W!Init, V!Init, Ending

\* What the two queues look like after a push or a null command.
LEMMA QueueNulls ==
    ASSUME TypeOK
    PROVE  /\ \A c \in WorkCmds : Never(NoCmd, workq) => Never(NoCmd, Append(workq, c))
           /\ \A c \in WaitCmds : Never(NoCmd, waitq) => Never(NoCmd, Append(waitq, c))
           /\ Never(NoCmd, workq) => OnlyLast(NoCmd, Append(workq, NoCmd))
           /\ Never(NoCmd, waitq) => OnlyLast(NoCmd, Append(waitq, NoCmd))
           /\ Never(NoCmd, <<>>) /\ OnlyLast(NoCmd, <<NoCmd>>)
           /\ workq # <<>> =>
                /\ Never(NoCmd, workq) => Head(workq) # NoCmd /\ Never(NoCmd, Tail(workq))
                /\ OnlyLast(NoCmd, workq) => \/ Head(workq) = NoCmd /\ Tail(workq) = <<>>
                                             \/ Head(workq) # NoCmd /\ OnlyLast(NoCmd, Tail(workq))
           /\ waitq # <<>> =>
                /\ Never(NoCmd, waitq) => Head(waitq) # NoCmd /\ Never(NoCmd, Tail(waitq))
                /\ OnlyLast(NoCmd, waitq) => \/ Head(waitq) = NoCmd /\ Tail(waitq) = <<>>
                                             \/ Head(waitq) # NoCmd /\ OnlyLast(NoCmd, Tail(waitq))
  <1>1. workq \in Seq(WorkCmds \cup {NoCmd}) /\ waitq \in Seq(WaitCmds \cup {NoCmd})
    BY DEF TypeOK, WorkTypes, WaitTypes
  <1>2. (\A c \in WorkCmds : c # NoCmd) /\ (\A c \in WaitCmds : c # NoCmd)
    BY CommandFields
  <1>3. /\ \A c \in WorkCmds : Never(NoCmd, workq) => Never(NoCmd, Append(workq, c))
        /\ Never(NoCmd, workq) => OnlyLast(NoCmd, Append(workq, NoCmd))
    BY <1>1, <1>2, NeverAppend
  <1>4. /\ \A c \in WaitCmds : Never(NoCmd, waitq) => Never(NoCmd, Append(waitq, c))
        /\ Never(NoCmd, waitq) => OnlyLast(NoCmd, Append(waitq, NoCmd))
        /\ Never(NoCmd, <<>>) /\ OnlyLast(NoCmd, <<NoCmd>>)
    BY <1>1, <1>2, NeverAppend
  <1> QED
    BY <1>1, <1>3, <1>4, NeverTail

LEMMA EndingStep ==
    ASSUME "start" \notin MayFail, Base, Ending, Next
    PROVE  Ending'
  <1> USE DEF Base
  <1>1. CASE Start
    <2>1. /\ api = "stopped" /\ api' = "running" /\ worker' = "up" /\ waiter' = "up"
          /\ UNCHANGED <<workq, waitq>>
      BY <1>1 DEF Start, W!Start, V!Start
    <2>2. workq = <<>> /\ waitq = <<>>
      BY <2>1 DEF Ending
    <2> QED
      BY <2>1, <2>2, QueueNulls DEF Ending
  <1>2. CASE StartFails
    BY <1>2 DEF StartFails
  <1>3. ASSUME NEW kind \in Kinds, QueueWork(kind)
        PROVE  Ending'
    <2> DEFINE w == Len(kinds) + 1
    <2>1. /\ api = "running" /\ UNCHANGED <<api, worker, waitq, waiter, pending>>
          /\ w \in Works
      BY <1>3 DEF QueueWork, W!Push, workQueue, waitVars, listVars, TypeOK, CallTypes, Works
    <2>2. Never(NoCmd, workq')
      <3>1. Never(NoCmd, workq)
        BY <2>1 DEF Ending
      <3>2. CASE workq' = workq \o <<Cmd("work", w), Cmd("drain", 0)>>
        <4> DEFINE first == Cmd("work", w)
                   second == Cmd("drain", 0)
                   longer == Append(workq, first)
        <4>1. first \in WorkCmds /\ second \in WorkCmds /\ workq \in Seq(WorkCmds \cup {NoCmd})
          BY <2>1, CommandsMade DEF TypeOK, WorkTypes
        <4>2. first # NoCmd /\ second # NoCmd
          BY <4>1, CommandFields
        <4> HIDE DEF w, first, second
        <4>3. workq' = Append(longer, second) /\ longer \in Seq(WorkCmds \cup {NoCmd})
          BY <3>2, <4>1 DEF first, second
        <4>4. Never(NoCmd, longer)
          BY <3>1, <4>1, QueueNulls
        <4> HIDE DEF longer
        <4> QED
          BY <4>1, <4>2, <4>3, <4>4, NeverAppend
      <3>3. CASE \E op \in {"pending", "drain", "work"} : workq' = Append(workq, Cmd(op, w))
        <4>1. \E c \in WorkCmds : workq' = Append(workq, c)
          BY <2>1, <3>3, CommandsMade
        <4> QED
          BY <3>1, <4>1, QueueNulls
      <3>4. CASE workq' = workq
        BY <3>1, <3>4
      <3> QED
        BY <1>3, <3>2, <3>3, <3>4 DEF QueueWork, W!Push, workQueue
    <2> QED
      BY <2>1, <2>2 DEF Ending
  <1>4. CASE FlushBegin
    <2>1. /\ api = "running" /\ api' = "flushWork" /\ workq' = Append(workq, Cmd("reset", 0))
          /\ UNCHANGED <<worker, waitq, waiter, pending>>
      BY <1>4 DEF FlushBegin, W!Push, waitVars, listVars
    <2>2. Never(NoCmd, workq')
      BY <2>1, CommandsMade, QueueNulls DEF Ending
    <2> QED
      BY <2>1, <2>2 DEF Ending
  <1>5. CASE FlushWorking \/ FlushWaiting \/ FlushEnd \/ FlushCollect
    <2>1. /\ api \in {"flushWork", "flushWait", "flushEnd", "flushCollect"}
          /\ api' \in {"running", "flushWait", "flushEnd", "flushCollect"}
          /\ UNCHANGED <<workq, worker, waitq, waiter>>
      BY <1>5 DEF FlushWorking, FlushWaiting, FlushEnd, FlushCollect, workQueue, waitVars
    <2> QED
      BY <2>1 DEF Ending, Never
  <1>6. ASSUME NEW abort \in BOOLEAN, StopWorking(abort)
        PROVE  Ending'
    <2>1. /\ api = "running" /\ api' = "stopWork"
          /\ workq' = IF abort THEN <<NoCmd>> ELSE Append(workq, NoCmd)
          /\ UNCHANGED <<worker, waitq, waiter, pending>>
      BY <1>6 DEF StopWorking, W!Shutdown, waitVars, listVars
    <2>2. OnlyLast(NoCmd, workq')
      BY <2>1, QueueNulls DEF Ending
    <2> QED
      BY <2>1, <2>2 DEF Ending, Never
  <1>7. CASE StopWaiting
    <2>1. /\ api = "stopWork" /\ api' = "stopWait" /\ worker # "up"
          /\ waitq' = IF aborting THEN <<NoCmd>> ELSE Append(waitq, NoCmd)
          /\ UNCHANGED <<workq, waiter, pending>>
      BY <1>7 DEF StopWaiting, W!Join, V!Shutdown, workQueue, listVars
    <2>2. OnlyLast(NoCmd, waitq') /\ workq = <<>>
      BY <2>1, QueueNulls DEF Ending
    <2> QED
      BY <2>1, <2>2 DEF Ending
  <1>8. CASE StopJoined
    <2>1. /\ api = "stopWait" /\ api' = "stopPending" /\ waiter # "up"
          /\ UNCHANGED <<workq, waitq, pending>>
      BY <1>8 DEF StopJoined, V!Join, workQueue, listVars
    <2> QED
      BY <2>1 DEF Ending
  <1>9. CASE StopPending
    BY <1>9 DEF StopPending, Ending, workQueue, waitVars
  <1>10. CASE TakeTask
    <2>1. /\ UNCHANGED <<api, waitq, waiter, pending>>
          /\ worker = "up" /\ workq # <<>> /\ workq' = Tail(workq)
          /\ worker' = IF Head(workq) = NoCmd THEN "ended" ELSE "up"
      BY <1>10 DEF TakeTask, W!Take, apiVars, waitVars, listVars
    <2>2. /\ api \notin {"stopWait", "stopPending", "stopped"}
          /\ Never(NoCmd, waitq) /\ Never(NoCmd, waitq')
      BY <2>1 DEF Joined, Ending
    <2>3. CASE Never(NoCmd, workq)
      BY <2>1, <2>2, <2>3, QueueNulls DEF Ending, OnlyLast, Never
    <2>4. CASE api = "stopWork" /\ OnlyLast(NoCmd, workq)
      BY <2>1, <2>2, <2>4, QueueNulls DEF Ending
    <2> QED
      BY <2>1, <2>2, <2>3, <2>4, CommandFields DEF Ending, TypeOK, CallTypes
  <1>11. CASE DoWork \/ DecodeFrame \/ Drain \/ PendingTask
    <2>1. OnTask /\ task # NoCmd
      BY <1>11, OnTaskSteps DEF OnTask, TypeOK, WorkTypes
    <2>2. worker = "up" /\ api \notin {"stopWait", "stopPending", "stopped"}
      BY <2>1 DEF Joined
    <2>3. Never(NoCmd, waitq')
      BY <2>1, <2>2, QueueNulls DEF OnTask, Ending
    <2> QED
      BY <2>1, <2>2, <2>3 DEF OnTask, Ending, Never, OnlyLast
  <1>12. CASE Reset
    BY <1>12, EndingFrame DEF Reset, EndTask, W!Finish, apiVars, waitVars, listVars
  <1>13. CASE TakeJob
    <2>1. /\ UNCHANGED <<api, workq, worker, pending>>
          /\ waiter = "up" /\ waitq # <<>> /\ waitq' = Tail(waitq)
          /\ waiter' = IF Head(waitq) = NoCmd THEN "ended" ELSE "up"
      BY <1>13 DEF TakeJob, V!Take, apiVars, workQueue, listVars
    <2>2. api \notin {"stopPending", "stopped"}
      BY <2>1 DEF Ending
    <2>3. CASE api # "stopWait"
      BY <2>1, <2>2, <2>3, QueueNulls DEF Ending, OnlyLast, Never
    <2>4. CASE api = "stopWait"
      BY <2>1, <2>4, QueueNulls DEF Ending
    <2> QED
      BY <2>3, <2>4
  <1>14. CASE EosReturned \/ WaitWorkFinds \/ WaitWorkNotifies \/ WaitWorkCounts
    <2>1. UNCHANGED <<api, workq, worker, waitq, waiter>>
      BY <1>14 DEF EosReturned, WaitWorkFinds, WaitWorkNotifies, WaitWorkCounts, V!Finish, apiVars,
                   workQueue
    <2>2. api = "stopped" => pending' = pending
      BY <1>14, StoppedGivesNothing DEF Next, Waiting
    <2> QED
      BY <2>1, <2>2, EndingFrame
  <1> QED
    BY <1>1, <1>2, <1>3, <1>4, <1>5, <1>6, <1>7, <1>8, <1>9, <1>10, <1>11, <1>12, <1>13, <1>14
    DEF Next, Flush, Stop, Working, Waiting

\* The works of a stopped component were given back or destroyed.
LEMMA StoppedPlaces ==
    ASSUME Base, Ending
    PROVE  StopLeavesNothing
  <1> USE DEF Base
  <1> SUFFICES ASSUME api = "stopped"
               PROVE  workq = <<>> /\ waitq = <<>> /\ Queued = back \cup dropped
    BY DEF StopLeavesNothing
  <1>1. workq = <<>> /\ waitq = <<>> /\ pending = {} /\ flushed = {}
    BY DEF Ending, FlushOrder
  <1>2. WorksOf(workq) = {} /\ WorksOf(waitq) = {} /\ Holding = {} /\ EosInHand = {} /\ Matched = {}
    BY <1>1, StoppedIdle DEF WorksOf
  <1>3. \A w : w \in Queued <=> \E i \in 1 .. 9 : w \in WorkPlaces[i]
    BY PlacesNamed DEF OnePlace, InPlaces, Everywhere, Named
  <1>4. \A w : w \in Queued <=> w \in back \cup dropped
    BY <1>1, <1>2, <1>3, PlacesNamed DEF Named
  <1> QED
    BY <1>1, <1>4

\* Unless a DoStart failed (then the property is false: that is one of the disagreements), DoStop
\* leaves no task for the threads of the next start, and every work was given back, or discarded
\* by an Abort.
THEOREM StopsClean ==
    ASSUME "start" \notin MayFail
    PROVE  Spec => []StopLeavesNothing
  <1>1. Init => Base /\ Ending
    BY BaseInit, EndingInit
  <1>2. Base /\ Ending /\ [Next]_vars => (Base /\ Ending)'
    <2> SUFFICES ASSUME Base, Ending, [Next]_vars
                 PROVE  Base' /\ Ending'
      OBVIOUS
    <2>1. Base'
      BY BaseStep
    <2>2. CASE Next
      BY <2>1, <2>2, EndingStep
    <2>3. CASE UNCHANGED vars
      <3>1. UNCHANGED <<api, workq, worker, waitq, waiter, pending>>
        BY <2>3 DEF vars, apiVars, workQueue, waitVars, listVars
      <3> QED
        BY <2>1, <3>1, EndingFrame
    <2> QED
      BY <2>2, <2>3
  <1>3. Base /\ Ending => StopLeavesNothing
    BY StoppedPlaces
  <1> QED
    BY <1>1, <1>2, <1>3, PTL DEF Spec

-----------------------------------------------------------------------------
(* m_uSyncedPointsCount *)

\* The sync points in the waiting queue.
Waits(queue) == { i \in DOMAIN queue : queue[i].op = "wait" }

LEMMA WaitsAppend ==
    ASSUME NEW S, NEW q \in Seq(S), NEW c \in S, IsFiniteSet(Waits(q))
    PROVE  /\ IsFiniteSet(Waits(Append(q, c)))
           /\ Cardinality(Waits(Append(q, c))) =
                Cardinality(Waits(q)) + (IF c.op = "wait" THEN 1 ELSE 0)
  <1>1. /\ DOMAIN Append(q, c) = DOMAIN q \cup {Len(q) + 1}
        /\ Append(q, c)[Len(q) + 1] = c /\ Len(q) + 1 \notin DOMAIN q
        /\ \A k \in DOMAIN q : Append(q, c)[k] = q[k]
    OBVIOUS
  <1>2. Cardinality(Waits(q)) \in Nat
    BY FS_CardinalityType
  <1>3. CASE c.op = "wait"
    <2>1. Waits(Append(q, c)) = Waits(q) \cup {Len(q) + 1} /\ Len(q) + 1 \notin Waits(q)
      BY <1>1, <1>3 DEF Waits
    <2>2. IsFiniteSet(Waits(q) \cup {Len(q) + 1})
          /\ Cardinality(Waits(q) \cup {Len(q) + 1}) = Cardinality(Waits(q)) + 1
      BY <2>1, FS_AddElement
    <2> QED
      BY <1>3, <2>1, <2>2
  <1>4. CASE c.op # "wait"
    <2>1. Waits(Append(q, c)) = Waits(q)
      BY <1>1, <1>4 DEF Waits
    <2> QED
      BY <1>2, <1>4, <2>1
  <1> QED
    BY <1>3, <1>4

LEMMA WaitsTail ==
    ASSUME NEW S, NEW q \in Seq(S), q # <<>>, IsFiniteSet(Waits(q))
    PROVE  /\ IsFiniteSet(Waits(Tail(q)))
           /\ Cardinality(Waits(q)) =
                Cardinality(Waits(Tail(q))) + (IF Head(q).op = "wait" THEN 1 ELSE 0)
  <1>1. /\ Len(q) \in Nat /\ Len(q) > 0 /\ DOMAIN q = 1 .. Len(q)
        /\ DOMAIN Tail(q) = 1 .. Len(q) - 1 /\ Head(q) = q[1]
        /\ \A k \in DOMAIN Tail(q) : Tail(q)[k] = q[k + 1]
    OBVIOUS
  <1> DEFINE rest == Waits(q) \ {1}
             next == [k \in Waits(Tail(q)) |-> k + 1]
  <1>2. IsFiniteSet(rest)
        /\ Cardinality(rest) = (IF 1 \in Waits(q) THEN Cardinality(Waits(q)) - 1
                                                  ELSE Cardinality(Waits(q)))
    BY FS_RemoveElement
  <1>3. next \in Bijection(Waits(Tail(q)), rest)
    <2>1. \A k \in Waits(Tail(q)) : k \in Nat /\ k + 1 \in rest
      BY <1>1 DEF Waits
    <2>2. next \in [Waits(Tail(q)) -> rest]
      BY <2>1
    <2>3. \A k, l \in Waits(Tail(q)) : next[k] = next[l] => k = l
      BY <2>1
    <2>4. \A n \in rest : \E k \in Waits(Tail(q)) : next[k] = n
      <3> SUFFICES ASSUME NEW n \in rest
                   PROVE  n - 1 \in Waits(Tail(q)) /\ next[n - 1] = n
        OBVIOUS
      <3>1. n \in DOMAIN q /\ n # 1 /\ q[n].op = "wait"
        BY DEF Waits
      <3>2. n - 1 \in DOMAIN Tail(q) /\ Tail(q)[n - 1] = q[n] /\ n - 1 + 1 = n
        BY <1>1, <3>1
      <3>3. n - 1 \in Waits(Tail(q))
        BY <3>1, <3>2 DEF Waits
      <3> QED
        BY <3>2, <3>3
    <2> HIDE DEF next
    <2> QED
      BY <2>2, <2>3, <2>4 DEF Bijection, Injection, Surjection, IsInjective
  <1>4. ExistsBijection(Waits(Tail(q)), rest)
    BY <1>3 DEF ExistsBijection
  <1> HIDE DEF rest, next
  <1>5. ExistsBijection(rest, Waits(Tail(q)))
    BY <1>4, Fun_ExistsBijSymmetric
  <1>6. IsFiniteSet(Waits(Tail(q))) /\ Cardinality(Waits(Tail(q))) = Cardinality(rest)
    BY <1>2, <1>5, FS_Bijection
  <1>7. 1 \in Waits(q) <=> Head(q).op = "wait"
    BY <1>1 DEF Waits
  <1>8. Cardinality(Waits(q)) \in Nat
    BY FS_CardinalityType
  <1> QED
    BY <1>2, <1>6, <1>7, <1>8

LEMMA WaitsEmpty ==
    /\ IsFiniteSet(Waits(<<>>)) /\ Cardinality(Waits(<<>>)) = 0
    /\ IsFiniteSet(Waits(<<NoCmd>>)) /\ Cardinality(Waits(<<NoCmd>>)) = 0
  <1>1. Waits(<<>>) = {} /\ Waits(<<NoCmd>>) = {}
    BY CommandFields DEF Waits
  <1> QED
    BY <1>1, FS_EmptySet

LEMMA ModularCount ==
    ASSUME NEW n \in 0 .. CountMod - 1
    PROVE  /\ n + 1 < CountMod => (n + 1) % CountMod = n + 1
           /\ n + 1 = CountMod => (n + 1) % CountMod = 0
           /\ n > 0 => (n + CountMod - 1) % CountMod = n - 1
           /\ n = 0 => (n + CountMod - 1) % CountMod = CountMod - 1
  <1>1. CountMod \in Nat /\ CountMod > 0
    BY ConstantsAssumption
  <1>2. \A a \in 0 .. CountMod - 1 : a % CountMod = a /\ (a + CountMod) % CountMod = a
    BY <1>1
  <1>3. CountMod % CountMod = 0
    BY <1>1
  <1>4. n > 0 => (n + CountMod - 1) % CountMod = n - 1
    <2>1. n > 0 => n - 1 \in 0 .. CountMod - 1 /\ (n - 1) + CountMod = n + CountMod - 1
      BY <1>1
    <2> QED
      BY <1>2, <2>1
  <1>5. n = 0 => (n + CountMod - 1) % CountMod = CountMod - 1
    <2>1. CountMod - 1 \in 0 .. CountMod - 1
      BY <1>1
    <2>2. n = 0 => n + CountMod - 1 = CountMod - 1
      BY <1>1
    <2> QED
      BY <1>2, <2>1, <2>2
  <1>6. n + 1 < CountMod => (n + 1) % CountMod = n + 1
    <2>1. n + 1 < CountMod => n + 1 \in 0 .. CountMod - 1
      BY <1>1
    <2> QED
      BY <1>2, <2>1
  <1> QED
    BY <1>3, <1>4, <1>5, <1>6

\* DecodeFrame counts a sync point after it pushed it.
Uncounted == IF at \in {"count", "countLast"} THEN 1 ELSE 0

\* The counter is the number of outstanding sync points but for the one that is pushed and not
\* counted yet, and wraps when WaitWork was faster; from the gate to the push there is room.
\* DoStop ends the working thread before it discards sync points: the counter is wrong from then
\* on, and DoStart resets it.
Counted ==
    /\ \/ api \in {"stopWait", "stopPending", "stopped"}
       \/ count + Uncounted = Outstanding
       \/ Outstanding = 0 /\ Uncounted = 1 /\ count = CountMod - 1
    /\ Outstanding <= AsyncDepth
    /\ at = "call" => Outstanding < AsyncDepth
    /\ IsFiniteSet(Waits(waitq))

LEMMA OutstandingIs ==
    /\ Outstanding = Cardinality(Waits(waitq)) + (IF job.op = "wait" THEN 1 ELSE 0)
    /\ Outstanding' = Cardinality(Waits(waitq')) + (IF job'.op = "wait" THEN 1 ELSE 0)
  <1>1. Outstanding = Cardinality(Waits(waitq)) + (IF job.op = "wait" THEN 1 ELSE 0)
    BY DEF Outstanding, Waits
  <1>2. Outstanding' = Cardinality(Waits(waitq')) + (IF job'.op = "wait" THEN 1 ELSE 0)
    BY DEF Outstanding, Waits
  <1> QED
    BY <1>1, <1>2

LEMMA OutstandingType == ASSUME Counted PROVE Outstanding \in Nat /\ Cardinality(Waits(waitq)) \in Nat
  BY FS_CardinalityType, OutstandingIs DEF Counted

\* A step of the caller or of the working thread that leaves the sync points and the counter.
LEMMA CountedFrame ==
    ASSUME Counted, UNCHANGED <<count, waitq, job>>,
           api' = api \/ api' \in {"stopWait", "stopPending", "stopped"}
              \/ api \notin {"stopWait", "stopPending", "stopped"},
           Uncounted' = Uncounted,
           at' = "call" => at = "call"
    PROVE  Counted'
  <1>1. Outstanding' = Outstanding
    BY OutstandingIs
  <1> QED
    BY <1>1 DEF Counted

LEMMA CountedInit == ASSUME Init PROVE Counted
  <1>1. waitq = <<>> /\ job = NoCmd /\ at = "idle" /\ api = "stopped"
    BY DEF Init, V!Init
  <1>2. Outstanding = 0 /\ IsFiniteSet(Waits(waitq))
    BY <1>1, WaitsEmpty, OutstandingIs, CommandFields
  <1> QED
    BY <1>1, <1>2, ConstantsAssumption DEF Counted

\* A command that is no sync point, pushed to the waiting queue, and discarded sync points.
LEMMA CountedPush ==
    ASSUME TypeOK, Counted, NEW c \in WaitCmds \cup {NoCmd}, c.op # "wait",
           waitq' = Append(waitq, c), job' = job
    PROVE  Outstanding' = Outstanding /\ IsFiniteSet(Waits(waitq'))
  <1>1. waitq \in Seq(WaitCmds \cup {NoCmd})
    BY DEF TypeOK, WaitTypes
  <1>2. IsFiniteSet(Waits(waitq')) /\ Cardinality(Waits(waitq')) = Cardinality(Waits(waitq)) + 0
    BY <1>1, WaitsAppend DEF Counted
  <1> QED
    BY <1>2, OutstandingIs, OutstandingType

\* The steps of the working thread that neither call the hardware decoder nor count.
LEMMA CountedWorking ==
    ASSUME TypeOK, Counted,
           \/ TakeTask \/ DoWork \/ PendingTask \/ Reset \/ AllocFails \/ AllocDone \/ CallBuffers
           \/ CallDrained \/ CallBusy \/ CallFails \/ CallChanges
           \/ DrainNothing \/ DrainFlushed \/ DrainBegin \/ DrainWait \/ Reinit
    PROVE  Counted'
  <1>1. UNCHANGED <<api, count, waitq, job>>
    <2>1. CASE TakeTask \/ PendingTask \/ Reset
      BY <2>1 DEF TakeTask, PendingTask, Reset, apiVars, waitVars
    <2>2. CASE DoWork
      BY <2>2 DEF DoWork, WorkFlushed, WorkBegin, AppendOnly, AppendPending, InitFails, InitDone,
                  Settle, apiVars, waitVars
    <2>3. CASE \/ AllocFails \/ AllocDone \/ CallBuffers \/ CallDrained \/ CallBusy \/ CallFails
               \/ CallChanges
      BY <2>3 DEF AllocFails, AllocDone, CallBuffers, CallDrained, CallBusy, CallFails, CallChanges,
                  apiVars, waitVars
    <2>4. CASE DrainNothing \/ DrainFlushed \/ DrainBegin \/ DrainWait \/ Reinit
      BY <2>4 DEF DrainNothing, DrainFlushed, DrainBegin, DrainWait, Reinit, apiVars, waitVars
    <2> QED
      BY <2>1, <2>2, <2>3, <2>4
  <1>2. at \notin {"count", "countLast"} /\ at' \notin {"count", "countLast", "call"}
    <2>1. CASE TakeTask
      <3>1. task = NoCmd /\ task' \in WorkCmds \cup {NoCmd}
            /\ at' = IF task' = NoCmd THEN "idle" ELSE task'.op
        BY <2>1, ListTypes DEF TakeTask, W!Take, Goto
      <3> QED
        BY <3>1, CommandFields DEF TypeOK, WorkTypes
    <2>2. CASE PendingTask \/ Reset
      BY <2>2 DEF PendingTask, Reset, EndTask, Goto
    <2>3. CASE DoWork
      BY <2>3 DEF DoWork, WorkFlushed, WorkBegin, AppendOnly, AppendPending, InitFails, InitDone,
                  Settle, EndTask, Goto
    <2>4. CASE \/ AllocFails \/ AllocDone \/ CallBuffers \/ CallDrained \/ CallBusy \/ CallFails
               \/ CallChanges
      BY <2>4 DEF AllocFails, AllocDone, CallBuffers, CallDrained, CallBusy, CallFails, CallChanges,
                  Goto
    <2>5. CASE DrainNothing \/ DrainFlushed \/ DrainBegin \/ DrainWait \/ Reinit
      BY <2>5 DEF DrainNothing, DrainFlushed, DrainBegin, DrainWait, Reinit, EndTask, Goto
    <2> QED
      BY <2>1, <2>2, <2>3, <2>4, <2>5
  <1>3. Uncounted' = Uncounted
    BY <1>2 DEF Uncounted
  <1> QED
    BY <1>1, <1>2, <1>3, CountedFrame

LEMMA CountedStep ==
    ASSUME "start" \notin MayFail, Base, Ending, Counted, Next
    PROVE  Counted'
  <1> USE DEF Base
  <1>0. /\ AsyncDepth \in Nat /\ AsyncDepth > 0 /\ CountMod \in Nat /\ CountMod > AsyncDepth + 1
        /\ count \in 0 .. CountMod - 1 /\ Outstanding \in Nat /\ Uncounted \in {0, 1}
        /\ at = "idle" => Uncounted = 0
    BY ConstantsAssumption, OutstandingType DEF TypeOK, DataTypes, Uncounted
  <1>1. CASE Start
    <2>1. /\ api = "stopped" /\ count' = 0 /\ UNCHANGED <<waitq, job, at>>
      BY <1>1 DEF Start, V!Start, workVars
    <2>2. waitq = <<>> /\ job = NoCmd /\ at = "idle"
      BY <2>1, StoppedIdle DEF Ending
    <2>3. Outstanding' = 0 /\ IsFiniteSet(Waits(waitq')) /\ Uncounted' = 0
      BY <2>1, <2>2, WaitsEmpty, OutstandingIs, CommandFields DEF Uncounted
    <2> QED
      BY <1>0, <2>1, <2>2, <2>3 DEF Counted
  <1>2. CASE StartFails
    BY <1>2 DEF StartFails
  <1>3. CASE Flush \/ \E kind \in Kinds : QueueWork(kind)
    <2>1. /\ UNCHANGED <<count, waitq, job, at>>
          /\ api \notin {"stopWait", "stopPending", "stopped"}
      BY <1>3 DEF Flush, FlushBegin, FlushWorking, FlushWaiting, FlushEnd, FlushCollect, QueueWork,
                  workVars, waitVars
    <2> QED
      BY <2>1, CountedFrame DEF Uncounted
  <1>4. CASE (\E abort \in BOOLEAN : StopWorking(abort)) \/ StopJoined \/ StopPending
    <2>1. UNCHANGED <<count, waitq, job, at>>
          /\ (api = "running" \/ api' \in {"stopPending", "stopped"})
      BY <1>4 DEF StopWorking, StopJoined, StopPending, V!Join, workVars, waitVars
    <2> QED
      BY <2>1, CountedFrame DEF Uncounted
  <1>5. CASE StopWaiting
    <2>1. /\ api' = "stopWait" /\ UNCHANGED <<job, at>>
          /\ waitq' = IF aborting THEN <<NoCmd>> ELSE Append(waitq, NoCmd)
      BY <1>5 DEF StopWaiting, V!Shutdown, workVars
    <2>2. Outstanding' <= Outstanding /\ Outstanding' \in Nat /\ IsFiniteSet(Waits(waitq'))
      <3>1. CASE aborting
        BY <1>0, <2>1, <3>1, WaitsEmpty, OutstandingIs, OutstandingType
      <3>2. CASE ~aborting
        BY <1>0, <2>1, <3>2, CountedPush, CommandFields
      <3> QED
        BY <3>1, <3>2
    <2> QED
      BY <1>0, <2>1, <2>2 DEF Counted
  <1>6. CASE \/ TakeTask \/ DoWork \/ PendingTask \/ Reset \/ AllocFails \/ AllocDone \/ CallBuffers
             \/ CallDrained \/ CallBusy \/ CallFails \/ CallChanges
             \/ DrainNothing \/ DrainFlushed \/ DrainBegin \/ DrainWait \/ Reinit
    BY <1>6, CountedWorking
  <1>7. at # "idle" => api \notin {"stopWait", "stopPending", "stopped"}
    BY DEF Joined, TypeOK, WorkTypes
  <1>8. CASE Gate
    <2>1. /\ UNCHANGED <<api, count, waitq, job>> /\ count < AsyncDepth
          /\ at = "gate" /\ at' = "call"
      BY <1>8 DEF Gate, Goto, apiVars, waitVars
    <2>2. Uncounted = 0 /\ Uncounted' = 0 /\ Outstanding' = Outstanding
      BY <2>1, OutstandingIs DEF Uncounted
    <2> QED
      BY <1>0, <1>7, <2>1, <2>2 DEF Counted
  <1>9. ASSUME NEW f \in Works, NEW reads \in BOOLEAN, CallOutputs(f, reads)
        PROVE  Counted'
    <2>1. /\ UNCHANGED <<api, count, job>> /\ waitq' = Append(waitq, Cmd("wait", f))
          /\ at = "call" /\ at' \in {"count", "countLast"}
      BY <1>9 DEF CallOutputs, V!Push, Goto, apiVars
    <2>2. IsFiniteSet(Waits(waitq')) /\ Cardinality(Waits(waitq')) = Cardinality(Waits(waitq)) + 1
      <3>1. /\ waitq \in Seq(WaitCmds \cup {NoCmd}) /\ Cmd("wait", f) \in WaitCmds
            /\ Cmd("wait", f).op = "wait"
        BY CommandsMade, CommandMade DEF TypeOK, WaitTypes
      <3> QED
        BY <2>1, <3>1, WaitsAppend DEF Counted
    <2>3. Outstanding' = Outstanding + 1
      BY <2>1, <2>2, OutstandingIs, OutstandingType
    <2>4. Uncounted = 0 /\ Uncounted' = 1
      BY <2>1 DEF Uncounted
    <2> QED
      BY <1>0, <1>7, <2>1, <2>2, <2>3, <2>4 DEF Counted
  <1>10. CASE Count
    <2>1. /\ UNCHANGED <<api, waitq, job>> /\ count' = (count + 1) % CountMod
          /\ at \in {"count", "countLast"} /\ at' \in {"settle", "drain", "alloc"}
      BY <1>10 DEF Count, Goto, apiVars, waitVars
    <2>2. Uncounted = 1 /\ Uncounted' = 0 /\ Outstanding' = Outstanding
      BY <2>1, OutstandingIs DEF Uncounted
    <2>3. count' = Outstanding
      <3>1. CASE count + Uncounted = Outstanding
        BY <1>0, <2>1, <2>2, <3>1, ModularCount DEF Counted
      <3>2. CASE Outstanding = 0 /\ count = CountMod - 1
        BY <1>0, <2>1, <3>2, ModularCount
      <3> QED
        BY <1>7, <2>1, <3>1, <3>2 DEF Counted
    <2> QED
      BY <1>0, <2>1, <2>2, <2>3 DEF Counted
  <1>11. CASE DrainEos
    <2>1. /\ UNCHANGED <<api, count, job>> /\ at = "drainEos" /\ at' = "drainWait"
          /\ waitq' = waitq \/ (hold # 0 /\ waitq' = Append(waitq, Cmd("eos", hold)))
      BY <1>11 DEF DrainEos, V!Push, Goto, apiVars, waitVars
    <2>2. Outstanding' = Outstanding /\ IsFiniteSet(Waits(waitq'))
      <3>1. CASE waitq' = waitq
        BY <2>1, <3>1, OutstandingIs DEF Counted
      <3>2. CASE hold # 0 /\ waitq' = Append(waitq, Cmd("eos", hold))
        <4>1. Cmd("eos", hold) \in WaitCmds /\ Cmd("eos", hold).op # "wait"
          BY <3>2, InHand, CommandsMade, CommandMade
        <4> QED
          BY <2>1, <3>2, <4>1, CountedPush
      <3> QED
        BY <2>1, <3>1, <3>2
    <2> QED
      BY <2>1, <2>2 DEF Counted, Uncounted
  <1>12. CASE TakeJob
    <2>1. /\ UNCHANGED <<api, count, at>> /\ waitq # <<>> /\ waitq' = Tail(waitq)
          /\ job = NoCmd /\ job' = Head(waitq)
      BY <1>12 DEF TakeJob, V!Take, apiVars, workVars
    <2>2. waitq \in Seq(WaitCmds \cup {NoCmd})
      BY DEF TypeOK, WaitTypes
    <2>3. /\ IsFiniteSet(Waits(Tail(waitq)))
          /\ Cardinality(Waits(waitq)) =
               Cardinality(Waits(Tail(waitq))) + (IF Head(waitq).op = "wait" THEN 1 ELSE 0)
      BY <2>1, <2>2, WaitsTail DEF Counted
    <2>4. Cardinality(Waits(Tail(waitq))) \in Nat
      BY <2>3, FS_CardinalityType
    <2>5. Outstanding' = Outstanding
      BY <2>1, <2>3, <2>4, OutstandingIs, CommandFields
    <2> QED
      BY <2>1, <2>3, <2>5 DEF Counted, Uncounted
  <1>13. CASE WaitWorkFinds \/ WaitWorkNotifies
    <2>1. UNCHANGED <<api, count, waitq, job, at>>
      BY <1>13 DEF WaitWorkFinds, WaitWorkNotifies, apiVars, workVars
    <2> QED
      BY <2>1, CountedFrame DEF Uncounted
  <1>14. CASE EosReturned
    <2>1. UNCHANGED <<api, count, waitq, at>> /\ job.op = "eos" /\ job' = NoCmd
      BY <1>14 DEF EosReturned, V!Finish, apiVars, workVars
    <2>2. Outstanding' = Outstanding
      BY <2>1, OutstandingIs, CommandFields
    <2> QED
      BY <2>1, <2>2 DEF Counted, Uncounted
  <1>15. CASE WaitWorkCounts
    <2>1. /\ UNCHANGED <<api, waitq, at>> /\ found = "count" /\ job' = NoCmd
          /\ count' = (count + CountMod - 1) % CountMod
      BY <1>15 DEF WaitWorkCounts, V!Finish, apiVars, workVars
    <2>2. job.op = "wait" /\ job'.op = "stop" /\ Uncounted' = Uncounted
      BY <2>1, CommandFields DEF TypeOK, WaitTypes, Uncounted
    <2>3. Outstanding' = Outstanding - 1 /\ Outstanding > 0
      BY <2>1, <2>2, OutstandingIs, OutstandingType
    <2>4. \/ api \in {"stopWait", "stopPending", "stopped"}
          \/ count' + Uncounted = Outstanding - 1
          \/ Outstanding - 1 = 0 /\ Uncounted = 1 /\ count' = CountMod - 1
      <3>1. CASE count + Uncounted = Outstanding /\ count > 0
        <4>1. (count + CountMod - 1) % CountMod = count - 1
          BY <1>0, <3>1, ModularCount
        <4> QED
          BY <1>0, <2>1, <3>1, <4>1
      <3>2. CASE count + Uncounted = Outstanding /\ count = 0
        <4>1. (count + CountMod - 1) % CountMod = CountMod - 1
          BY <1>0, <3>2, ModularCount
        <4> QED
          BY <1>0, <2>1, <2>3, <3>2, <4>1
      <3> QED
        BY <1>0, <2>3, <3>1, <3>2 DEF Counted
    <2> QED
      BY <1>0, <2>1, <2>2, <2>3, <2>4 DEF Counted
  <1> QED
    BY <1>1, <1>2, <1>3, <1>4, <1>5, <1>6, <1>8, <1>9, <1>10, <1>11, <1>12, <1>13, <1>14, <1>15
    DEF Next, Stop, Working, DecodeFrame, Drain, Waiting

LEMMA CountedImplies == ASSUME Base, Counted PROVE CountSeenIsRight
  <1>1. count \in 0 .. CountMod - 1 /\ CountMod \in Nat /\ Outstanding \in Nat
    BY OutstandingType, ConstantsAssumption DEF Base, TypeOK, DataTypes
  <1>2. at \in {"gate", "drainWait"} => api \notin {"stopWait", "stopPending", "stopped"}
    BY DEF Base, Joined, TypeOK, WorkTypes
  <1>3. at \in {"gate", "drainWait"} => Uncounted = 0
    BY DEF Uncounted
  <1> QED
    BY <1>1, <1>2, <1>3 DEF Counted, CountSeenIsRight

\* Unless a DoStart failed, m_uSyncedPointsCount is the number of outstanding sync points wherever
\* the working thread evaluates a condition on it, although it wraps below zero when WaitWork ends
\* before DecodeFrame counts its push; and there are never more than AsyncDepth of them.
THEOREM CountIsRight ==
    ASSUME "start" \notin MayFail
    PROVE  Spec => []CountSeenIsRight
  <1>1. Init => Base /\ Ending /\ Counted
    BY BaseInit, EndingInit, CountedInit
  <1>2. Base /\ Ending /\ Counted /\ [Next]_vars => (Base /\ Ending /\ Counted)'
    <2> SUFFICES ASSUME Base, Ending, Counted, [Next]_vars
                 PROVE  Base' /\ Ending' /\ Counted'
      OBVIOUS
    <2>1. Base'
      BY BaseStep
    <2>2. CASE Next
      BY <2>1, <2>2, EndingStep, CountedStep
    <2>3. CASE UNCHANGED vars
      <3>1. UNCHANGED <<api, workq, worker, waitq, waiter, pending, count, job, at>>
        BY <2>3 DEF vars, apiVars, workQueue, workVars, waitVars, listVars
      <3>2. Uncounted' = Uncounted
        BY <3>1 DEF Uncounted
      <3> QED
        BY <2>1, <3>1, <3>2, EndingFrame, CountedFrame
    <2> QED
      BY <2>2, <2>3
  <1>3. Base /\ Counted => CountSeenIsRight
    BY CountedImplies
  <1> QED
    BY <1>1, <1>2, <1>3, PTL DEF Spec

-----------------------------------------------------------------------------
(* The end of stream comes last *)

\* The works of the commands of one kind, in a queue or in the hands of the working thread.
Ops(queue, op) == { queue[i].work : i \in { j \in DOMAIN queue : queue[j].op = op } }
Hand(op) == IF task.op = op THEN Holding ELSE {}

\* The ends of stream that wait for their Drain, and the works queued after an end of stream.
Ends == (Ops(workq, "drain") \cup Hand("drain")) \ {0}
Later == Ops(workq, "pending") \cup Hand("pending")

\* The works whose frame came out of the hardware and that WaitWork has not looked up yet, and
\* the work DoWork is at.
Synced == Ops(waitq, "wait") \cup (IF found = "sync" THEN {job.work} ELSE {})
InWork == IF task.op = "work" THEN {task.work} ELSE {}

LEMMA OpsAppend ==
    ASSUME NEW S, NEW q \in Seq(S), NEW c \in S, NEW op
    PROVE  /\ Ops(Append(q, c), op) = Ops(q, op) \cup (IF c.op = op THEN {c.work} ELSE {})
           /\ c.op # op => Ops(Append(q, c), op) = Ops(q, op)
  <1>1. /\ DOMAIN Append(q, c) = DOMAIN q \cup {Len(q) + 1}
        /\ Append(q, c)[Len(q) + 1] = c
        /\ \A k \in DOMAIN q : Append(q, c)[k] = q[k]
    OBVIOUS
  <1> DEFINE r == Append(q, c)
  <1> HIDE DEF r
  <1>2. CASE c.op = op
    BY <1>1, <1>2 DEF Ops, r
  <1>3. CASE c.op # op
    BY <1>1, <1>3 DEF Ops, r
  <1> QED
    BY <1>2, <1>3

LEMMA OpsTail ==
    ASSUME NEW S, NEW q \in Seq(S), q # <<>>, NEW op
    PROVE  Ops(q, op) = Ops(Tail(q), op) \cup (IF Head(q).op = op THEN {Head(q).work} ELSE {})
  <1>1. /\ Len(q) \in Nat /\ Len(q) > 0
        /\ DOMAIN q = 1 .. Len(q) /\ DOMAIN Tail(q) = 1 .. Len(q) - 1
        /\ Head(q) = q[1]
        /\ \A k \in DOMAIN Tail(q) : Tail(q)[k] = q[k + 1] /\ k + 1 \in DOMAIN q
    OBVIOUS
  <1>2. \A k \in DOMAIN q : k # 1 => k - 1 \in DOMAIN Tail(q) /\ Tail(q)[k - 1] = q[k]
    BY <1>1
  <1> DEFINE mine == IF Head(q).op = op THEN {Head(q).work} ELSE {}
  <1>3. Ops(q, op) \subseteq Ops(Tail(q), op) \cup mine
    <2> SUFFICES ASSUME NEW k \in DOMAIN q, q[k].op = op
                 PROVE  q[k].work \in Ops(Tail(q), op) \cup mine
      BY DEF Ops
    <2>1. CASE k = 1
      BY <1>1, <2>1
    <2>2. CASE k # 1
      BY <1>2, <2>2 DEF Ops
    <2> QED
      BY <2>1, <2>2
  <1>4. Ops(Tail(q), op) \subseteq Ops(q, op) /\ mine \subseteq Ops(q, op)
    BY <1>1 DEF Ops
  <1> QED
    BY <1>3, <1>4

\* The working queue: what a push, a null command and a pop change.
LEMMA WorkOps ==
    ASSUME TypeOK
    PROVE  /\ \A c \in WorkCmds \cup {NoCmd}, op \in {"work", "drain", "pending", "reset"} :
                Ops(Append(workq, c), op) =
                    Ops(workq, op) \cup (IF c.op = op THEN {c.work} ELSE {})
           /\ \A op \in {"work", "drain", "pending", "reset"} : Ops(<<NoCmd>>, op) = {}
           /\ workq # <<>> => \A op \in {"work", "drain", "pending", "reset"} :
                Ops(workq, op) =
                    Ops(Tail(workq), op) \cup (IF Head(workq).op = op THEN {Head(workq).work} ELSE {})
           /\ workq = <<>> => \A op \in {"work", "drain", "pending", "reset"} : Ops(workq, op) = {}
           /\ WorksOf(workq) = Carried(workq)
           /\ \A op \in {"work", "drain", "pending", "reset"} : Ops(workq, op) \ {0} \subseteq WorksOf(workq)
           /\ 0 \notin Ops(workq, "work") /\ 0 \notin Ops(workq, "pending")
  <1>1. workq \in Seq(WorkCmds \cup {NoCmd})
    BY DEF TypeOK, WorkTypes
  <1>2. \A i \in DOMAIN workq : workq[i] \in WorkCmds \cup {NoCmd} /\ workq[i].op # "wait"
    BY <1>1, CommandFields
  <1>3. /\ \A c \in WorkCmds \cup {NoCmd}, op \in {"work", "drain", "pending", "reset"} :
             Ops(Append(workq, c), op) = Ops(workq, op) \cup (IF c.op = op THEN {c.work} ELSE {})
        /\ workq # <<>> => \A op \in {"work", "drain", "pending", "reset"} :
             Ops(workq, op) =
                 Ops(Tail(workq), op) \cup (IF Head(workq).op = op THEN {Head(workq).work} ELSE {})
    BY <1>1, OpsAppend, OpsTail
  <1>4. \A op \in {"work", "drain", "pending", "reset"} : Ops(<<NoCmd>>, op) = {}
    <2>1. DOMAIN <<NoCmd>> = {1} /\ <<NoCmd>>[1] = NoCmd
      OBVIOUS
    <2> QED
      BY <2>1, CommandFields DEF Ops
  <1>5. workq = <<>> => \A op \in {"work", "drain", "pending", "reset"} : Ops(workq, op) = {}
    BY DEF Ops
  <1>6. WorksOf(workq) = Carried(workq)
    BY <1>2 DEF WorksOf, Carried
  <1>7. \A op \in {"work", "drain", "pending", "reset"} : Ops(workq, op) \ {0} \subseteq WorksOf(workq)
    BY DEF Ops, WorksOf
  <1>8. 0 \notin Ops(workq, "work") /\ 0 \notin Ops(workq, "pending")
    BY <1>2, CommandFields DEF Ops
  <1> QED
    BY <1>3, <1>4, <1>5, <1>6, <1>7, <1>8

\* A work that has a place was queued.
LEMMA PlacedIsQueued ==
    ASSUME TypeOK, OnePlace
    PROVE  /\ \A i \in 1 .. 9 : \A w \in WorkPlaces[i] : w \in 1 .. Len(kinds) /\ w \in Nat
           /\ Len(kinds) \in Nat
           /\ \A w \in 1 .. Len(kinds) : \E i \in 1 .. 9 : w \in WorkPlaces[i]
  <1>1. Len(kinds) \in Nat
    BY DEF TypeOK, CallTypes
  <1>2. DOMAIN WorkPlaces = 1 .. 9
    BY PlacesNamed DEF Named
  <1> QED
    BY <1>1, <1>2 DEF OnePlace, InPlaces, Everywhere, Queued

\* The steps of the working thread but for those between two tasks.
LEMMA GoesOn ==
    ASSUME TypeOK, TaskPlaces, DoWork \/ DecodeFrame \/ Drain \/ PendingTask
    PROVE  /\ UNCHANGED <<api, kinds, eos, workq, job, found, match, dropped>>
           /\ hold' = hold \/ hold' = 0
           /\ \/ task' = task
              \/ task' = NoCmd /\ at' = "idle"
           /\ at # "idle" /\ at # "reset" /\ at' # "reset"
  <1>1. CASE DoWork
    BY <1>1 DEF DoWork, WorkFlushed, WorkBegin, AppendOnly, AppendPending, AddPending, InitFails,
                InitDone, Settle, EndTask, W!Finish, Goto, apiVars, workQueue, waitVars, clientVars
  <1>2. CASE DecodeFrame
    <2>1. CASE AllocFails \/ AllocDone \/ Gate \/ CallBuffers \/ CallDrained \/ CallBusy \/ CallFails
               \/ CallChanges \/ Count
      BY <2>1 DEF AllocFails, AllocDone, Gate, CallBuffers, CallDrained, CallBusy, CallFails,
                  CallChanges, Count, Goto, apiVars, workQueue, waitVars, clientVars
    <2>2. CASE \E f \in Works, reads \in BOOLEAN : CallOutputs(f, reads)
      BY <2>2 DEF CallOutputs, V!Push, Goto, apiVars, workQueue, clientVars
    <2> QED
      BY <1>2, <2>1, <2>2 DEF DecodeFrame
  <1>3. CASE Drain
    BY <1>3 DEF Drain, DrainNothing, DrainFlushed, DrainBegin, DrainEos, DrainWait, Reinit, V!Push,
                EndTask, W!Finish, Goto, apiVars, workQueue, waitVars, clientVars
  <1>4. CASE PendingTask
    BY <1>4 DEF PendingTask, AddPending, EndTask, W!Finish, Goto, apiVars, waitVars, clientVars
  <1> QED
    BY <1>1, <1>2, <1>3, <1>4

\* The steps of the waiting thread leave the working thread alone.
LEMMA WaitingLeaves ==
    ASSUME Waiting
    PROVE  UNCHANGED <<apiVars, flushing, workQueue, workVars, duplicated, flushed, hwVars, dropped>>
  BY DEF Waiting, TakeJob, EosReturned, WaitWorkFinds, WaitWorkNotifies, WaitWorkCounts, listVars,
         clientVars, waitVars

\* The steps of a call leave the task and the job alone.
LEMMA CallsLeave ==
    ASSUME Start \/ StartFails \/ Flush \/ Stop \/ \E kind \in Kinds : QueueWork(kind)
    PROVE  /\ UNCHANGED <<task, workVars, job, found, match>>
           /\ duplicated' = duplicated \/ duplicated' = {}
           /\ pending' = pending \/ pending' = {}
           /\ fed' = fed \/ fed' = {}
  <1>1. CASE Start \/ StartFails
    BY <1>1 DEF Start, StartFails, W!Start, V!Start, workQueue, waitVars, listVars, hwVars
  <1>2. CASE Flush
    BY <1>2 DEF Flush, FlushBegin, FlushWorking, FlushWaiting, FlushEnd, FlushCollect, W!Push,
                workQueue, waitVars, listVars, hwVars
  <1>3. CASE Stop
    BY <1>3 DEF Stop, StopWorking, StopWaiting, StopJoined, StopPending, W!Shutdown, V!Shutdown,
                W!Join, V!Join, workQueue, waitVars, listVars, hwVars
  <1>4. CASE \E kind \in Kinds : QueueWork(kind)
    BY <1>4 DEF QueueWork, W!Push, workQueue, waitVars, listVars, hwVars
  <1> QED
    BY <1>1, <1>2, <1>3, <1>4

\* What the caller's steps do to the working queue.
LEMMA CallsPush ==
    ASSUME Start \/ StartFails \/ Flush \/ Stop \/ \E kind \in Kinds : QueueWork(kind)
    PROVE  \/ UNCHANGED <<workq, kinds>>
           \/ kinds' = kinds /\ FlushBegin /\ workq' = Append(workq, Cmd("reset", 0))
           \/ kinds' = kinds /\ workq' \in {<<NoCmd>>, Append(workq, NoCmd)} /\ api' = "stopWork"
           \/ \E kind \in Kinds : QueueWork(kind)
  <1>1. CASE Start \/ StartFails
    BY <1>1 DEF Start, StartFails, W!Start, workQueue
  <1>2. CASE Flush
    BY <1>2 DEF Flush, FlushBegin, FlushWorking, FlushWaiting, FlushEnd, FlushCollect, W!Push,
                workQueue
  <1>3. CASE Stop
    BY <1>3 DEF Stop, StopWorking, StopWaiting, StopJoined, StopPending, W!Shutdown, W!Join, workQueue
  <1> QED
    BY <1>1, <1>2, <1>3

-----------------------------------------------------------------------------
\* The working queue holds the works in the order they were queued, behind the one in hand; a
\* DoWork task is for a buffer; what was queued after an end of stream is pushed behind it, and
\* only while m_bEosReceived is set; no two pending works have one timestamp; the hardware decoder
\* is initialized when it is called.
InTurn == Rising(workq) /\ \A v \in Holding, w \in WorksOf(workq) : v < w
TasksKinds == \A w \in Ops(workq, "work") \cup InWork :
                  w \in 1 .. Len(kinds) /\ kinds[w] \in {"frame", "frameEos", "part"}
LaterLater == (Later # {} => eos = TRUE) /\ \A v \in Later, e \in Ends : e < v
NoTwins == duplicated = {}
Called == \/ at \in {"alloc", "gate", "call", "count", "countLast", "drainEos", "drainWait", "reinit"}
          \/ at = "drain" /\ task.op = "work"
Inited == Called => initialized = TRUE

\* A work that is queued comes after all the others.
LEMMA Newest ==
    ASSUME TypeOK, OnePlace, NEW kind \in Kinds, QueueWork(kind), NEW w, w = Len(kinds) + 1
    PROVE  /\ w \in Works /\ w \in Nat /\ w # 0
           /\ \A i \in 1 .. 9 : \A v \in WorkPlaces[i] : v < w
           /\ \A v \in 1 .. Len(kinds) : kinds'[v] = kinds[v]
           /\ kinds'[w] = kind
           /\ UNCHANGED <<api, pending>> /\ api = "running"
           /\ \/ UNCHANGED <<workq, eos>>
              \/ eos = TRUE /\ eos' = TRUE /\ workq' = Append(workq, Cmd("pending", w))
              \/ eos = FALSE /\ eos' = TRUE /\ workq' = Append(workq, Cmd("drain", w))
              \/ /\ eos = FALSE /\ eos' = TRUE /\ kind = "frameEos"
                 /\ workq' = Append(Append(workq, Cmd("work", w)), Cmd("drain", 0))
              \/ /\ eos = FALSE /\ eos' = eos /\ kind \in {"frame", "part"}
                 /\ workq' = Append(workq, Cmd("work", w))
  <1>1. w \in Works /\ kinds' = Append(kinds, kind) /\ kinds \in Seq(Kinds) /\ eos \in BOOLEAN
        /\ workq \in Seq(WorkCmds \cup {NoCmd})
    BY DEF QueueWork, TypeOK, CallTypes, WorkTypes, Works
  <1>2. w \in Nat /\ w # 0 /\ kinds'[w] = kind /\ \A v \in 1 .. Len(kinds) : kinds'[v] = kinds[v]
    BY <1>1, CommandFields
  <1>3. \A i \in 1 .. 9 : \A v \in WorkPlaces[i] : v < w
    BY PlacedIsQueued
  <1>4. UNCHANGED <<api, pending>> /\ api = "running"
    BY DEF QueueWork, listVars
  <1>5. \/ UNCHANGED <<workq, eos>>
        \/ eos = TRUE /\ eos' = TRUE /\ workq' = Append(workq, Cmd("pending", w))
        \/ eos = FALSE /\ eos' = TRUE /\ workq' = Append(workq, Cmd("drain", w))
        \/ eos = FALSE /\ eos' = TRUE /\ kind = "frameEos"
             /\ workq' = workq \o <<Cmd("work", w), Cmd("drain", 0)>>
        \/ eos = FALSE /\ eos' = eos /\ kind \in {"frame", "part"}
             /\ workq' = Append(workq, Cmd("work", w))
    BY <1>1 DEF QueueWork, W!Push, workQueue
  <1>6. workq \o <<Cmd("work", w), Cmd("drain", 0)>> =
            Append(Append(workq, Cmd("work", w)), Cmd("drain", 0))
    <2> DEFINE first == Cmd("work", w)
               second == Cmd("drain", 0)
    <2>1. first \in WorkCmds /\ second \in WorkCmds
      BY <1>1, CommandsMade
    <2> HIDE DEF first, second
    <2>2. workq \o <<first, second>> = Append(Append(workq, first), second)
      BY <1>1, <2>1
    <2> QED
      BY <2>2 DEF first, second
  <1> QED
    BY <1>1, <1>2, <1>3, <1>4, <1>5, <1>6

LEMMA InTurnFrame ==
    ASSUME InTurn, workq' = workq, hold' = hold \/ hold' = 0
    PROVE  InTurn'
  BY DEF InTurn, Holding

LEMMA InTurnStep ==
    ASSUME TypeOK, TaskPlaces, OnePlace, InTurn, Next
    PROVE  InTurn'
  <1> DEFINE Cmds == WorkCmds \cup {NoCmd}
  <1>0. /\ workq \in Seq(Cmds) /\ WorksOf(workq) = Carried(workq)
        /\ \A c \in Cmds : WorksOf(Append(workq, c)) = WorksOf(workq) \cup ({c.work} \ {0})
        /\ Holding = WorkPlaces[2] /\ WorksOf(workq) = WorkPlaces[1]
    BY WorkOps, QueueLists, PlacesNamed DEF TypeOK, WorkTypes, Named
  <1>1. ASSUME UNCHANGED hold, NEW c \in Cmds, c.work = 0, workq' = Append(workq, c)
        PROVE  InTurn'
    <2>1. Rising(workq')
      BY <1>0, <1>1, RisingAppendNothing DEF InTurn
    <2>2. WorksOf(workq') = WorksOf(workq) /\ Holding' = Holding
      BY <1>0, <1>1 DEF Holding
    <2> QED
      BY <2>1, <2>2 DEF InTurn
  <1>2. CASE Start \/ StartFails \/ Flush \/ Stop \/ \E kind \in Kinds : QueueWork(kind)
    <2>1. hold' = hold
      BY <1>2, CallsLeave DEF workVars
    <2>2. CASE workq' = workq
      BY <2>1, <2>2, InTurnFrame
    <2>3. CASE workq' \in {Append(workq, Cmd("reset", 0)), Append(workq, NoCmd)}
      BY <1>1, <2>1, <2>3, CommandsMade, CommandMade, CommandFields
    <2>4. CASE workq' = <<NoCmd>>
      <3>1. DOMAIN <<NoCmd>> = {1} /\ <<NoCmd>>[1] = NoCmd
        OBVIOUS
      <3>2. Rising(workq') /\ WorksOf(workq') = {}
        BY <2>4, <3>1, CommandFields DEF Rising, WorksOf
      <3> QED
        BY <3>2 DEF InTurn
    <2>5. ASSUME NEW kind \in Kinds, QueueWork(kind)
          PROVE  InTurn'
      <3>1. PICK w \in Nat : w = Len(kinds) + 1
        BY PlacedIsQueued
      <3>2. /\ w \in Works /\ w # 0 /\ \A v \in Holding \cup WorksOf(workq) : v < w
        <4>1. w \in Works /\ w # 0 /\ \A i \in 1 .. 9 : \A v \in WorkPlaces[i] : v < w
          BY <2>5, <3>1, Newest
        <4>2. (\A v \in WorkPlaces[1] : v < w) /\ (\A v \in WorkPlaces[2] : v < w)
          BY <4>1
        <4> QED
          BY <1>0, <4>1, <4>2
      <3>3. Holding' = Holding
        BY <2>1 DEF Holding
      <3>4. ASSUME NEW c \in Cmds, c.work = w
            PROVE  /\ Rising(Append(workq, c)) /\ Append(workq, c) \in Seq(Cmds)
                   /\ WorksOf(Append(workq, c)) = WorksOf(workq) \cup {w}
        <4>1. Rising(workq) /\ \A v \in Carried(workq) : v < c.work
          BY <1>0, <3>2, <3>4 DEF InTurn
        <4>2. Rising(Append(workq, c))
          BY <1>0, <4>1, RisingAppend
        <4> QED
          BY <1>0, <3>2, <3>4, <4>2
      <3>5. CASE \E op \in {"pending", "drain", "work"} : workq' = Append(workq, Cmd(op, w))
        <4>1. \E c \in Cmds : c.work = w /\ workq' = Append(workq, c)
          BY <3>2, <3>5, CommandsMade, CommandMade
        <4>2. Rising(workq') /\ WorksOf(workq') = WorksOf(workq) \cup {w}
          BY <3>4, <4>1
        <4> QED
          BY <3>2, <3>3, <4>2 DEF InTurn
      <3>6. CASE workq' = Append(Append(workq, Cmd("work", w)), Cmd("drain", 0))
        <4> DEFINE first == Cmd("work", w)
                   second == Cmd("drain", 0)
                   longer == Append(workq, first)
        <4>1. first \in Cmds /\ second \in Cmds /\ first.work = w /\ second.work = 0
          BY <3>2, CommandsMade, CommandMade
        <4> HIDE DEF first, second
        <4>2. Rising(longer) /\ longer \in Seq(Cmds) /\ WorksOf(longer) = WorksOf(workq) \cup {w}
          BY <3>4, <4>1
        <4>3. workq' = Append(longer, second)
          BY <3>6 DEF first, second
        <4> HIDE DEF longer
        <4>4. Rising(workq') /\ WorksOf(workq') \subseteq WorksOf(longer) \cup ({second.work} \ {0})
          BY <4>1, <4>2, <4>3, RisingAppendNothing, WorksAppend
        <4>5. WorksOf(workq') \subseteq WorksOf(workq) \cup {w}
          BY <4>1, <4>2, <4>4
        <4> QED
          BY <3>2, <3>3, <4>4, <4>5 DEF InTurn
      <3> QED
        BY <2>1, <2>5, <3>1, <3>5, <3>6, Newest, InTurnFrame
    <2> QED
      BY <1>2, <2>2, <2>3, <2>4, <2>5, CallsPush
  <1>3. CASE TakeTask
    <2>1. /\ workq # <<>> /\ workq' = Tail(workq) /\ task' = Head(workq) /\ hold' = task'.work
      BY <1>3 DEF TakeTask, W!Take
    <2>2. /\ Rising(Tail(workq))
          /\ Head(workq).work # 0 => \A w \in Carried(Tail(workq)) : Head(workq).work < w
      BY <1>0, <2>1, RisingTail DEF InTurn
    <2>3. WorksOf(Tail(workq)) \subseteq Carried(Tail(workq))
      BY DEF WorksOf, Carried
    <2> QED
      BY <2>1, <2>2, <2>3 DEF InTurn, Holding
  <1>4. CASE DoWork \/ DecodeFrame \/ Drain \/ PendingTask
    BY <1>4, GoesOn, InTurnFrame
  <1>5. CASE Reset
    BY <1>5, InTurnFrame DEF Reset, EndTask, W!Finish
  <1>6. CASE Waiting
    BY <1>6, WaitingLeaves, InTurnFrame DEF workQueue, workVars
  <1> QED
    BY <1>2, <1>3, <1>4, <1>5, <1>6 DEF Next, Working

\* What the commands of the working queue and of its task become when a call pushes to it.
LEMMA CommandsPushed ==
    ASSUME TypeOK, UNCHANGED <<task, hold>>, NEW c \in WorkCmds \cup {NoCmd},
           workq' = Append(workq, c)
    PROVE  /\ Ops(workq', "work") = Ops(workq, "work") \cup (IF c.op = "work" THEN {c.work} ELSE {})
           /\ Ends' = Ends \cup (IF c.op = "drain" THEN {c.work} \ {0} ELSE {})
           /\ Later' = Later \cup (IF c.op = "pending" THEN {c.work} ELSE {})
           /\ InWork' = InWork
  <1>1. /\ Ops(workq', "work") = Ops(workq, "work") \cup (IF c.op = "work" THEN {c.work} ELSE {})
        /\ Ops(workq', "drain") = Ops(workq, "drain") \cup (IF c.op = "drain" THEN {c.work} ELSE {})
        /\ Ops(workq', "pending") =
             Ops(workq, "pending") \cup (IF c.op = "pending" THEN {c.work} ELSE {})
    BY WorkOps
  <1>2. Hand("drain")' = Hand("drain") /\ Hand("pending")' = Hand("pending") /\ InWork' = InWork
    BY DEF Hand, Holding, InWork
  <1>3. Ends' = (Ops(workq', "drain") \cup Hand("drain")') \ {0}
        /\ Later' = Ops(workq', "pending") \cup Hand("pending")'
    BY DEF Ends, Later
  <1>4. Ends' = Ends \cup (IF c.op = "drain" THEN {c.work} \ {0} ELSE {})
    <2>1. CASE c.op = "drain"
      BY <1>1, <1>2, <1>3, <2>1 DEF Ends
    <2>2. CASE c.op # "drain"
      BY <1>1, <1>2, <1>3, <2>2 DEF Ends
    <2> QED
      BY <2>1, <2>2
  <1>5. Later' = Later \cup (IF c.op = "pending" THEN {c.work} ELSE {})
    BY <1>1, <1>2, <1>3 DEF Later
  <1> QED
    BY <1>1, <1>2, <1>4, <1>5

\* When the queue is cleared by an Abort.
LEMMA CommandsCleared ==
    ASSUME TypeOK, UNCHANGED <<task, hold>>, workq' = <<NoCmd>>
    PROVE  Ops(workq', "work") = {} /\ Ends' \subseteq Ends /\ Later' \subseteq Later /\ InWork' = InWork
  <1>1. Ops(workq', "work") = {} /\ Ops(workq', "drain") = {} /\ Ops(workq', "pending") = {}
    BY WorkOps
  <1> QED
    BY <1>1 DEF Ends, Later, Hand, Holding, InWork

\* When the working thread takes a task.
LEMMA CommandsTaken ==
    ASSUME TypeOK, TaskPlaces, TakeTask
    PROVE  /\ Ends' = Ends /\ Later' = Later /\ InWork = {} /\ task' = Head(workq) /\ workq # <<>>
           /\ task' \in WorkCmds \cup {NoCmd} /\ at' = IF task' = NoCmd THEN "idle" ELSE task'.op
           /\ Ops(workq', "work") \cup InWork' = Ops(workq, "work")
  <1>1. /\ workq # <<>> /\ workq' = Tail(workq) /\ task' = Head(workq) /\ hold' = task'.work
        /\ task = NoCmd /\ task' \in WorkCmds \cup {NoCmd}
        /\ at' = IF task' = NoCmd THEN "idle" ELSE task'.op
    BY ListTypes DEF TakeTask, W!Take, Goto
  <1>2. Hand("drain") = {} /\ Hand("pending") = {} /\ InWork = {}
    BY <1>1, CommandFields DEF Hand, InWork
  <1>3. /\ Ops(workq, "work") = Ops(workq', "work") \cup (IF task'.op = "work" THEN {task'.work} ELSE {})
        /\ Ops(workq, "drain") =
             Ops(workq', "drain") \cup (IF task'.op = "drain" THEN {task'.work} ELSE {})
        /\ Ops(workq, "pending") =
             Ops(workq', "pending") \cup (IF task'.op = "pending" THEN {task'.work} ELSE {})
    BY <1>1, WorkOps
  <1>4. InWork' = (IF task'.op = "work" THEN {task'.work} ELSE {})
    BY DEF InWork
  <1>5. /\ Hand("drain")' = (IF task'.op = "drain" THEN {task'.work} \ {0} ELSE {})
        /\ Hand("pending")' = (IF task'.op = "pending" THEN {task'.work} \ {0} ELSE {})
    BY <1>1 DEF Hand, Holding
  <1>6. task'.op = "pending" => task'.work # 0
    BY <1>1, CommandFields
  <1>7. Ends' = (Ops(workq', "drain") \cup Hand("drain")') \ {0}
        /\ Later' = Ops(workq', "pending") \cup Hand("pending")'
    BY DEF Ends, Later
  <1>8. Ends' = Ends
    BY <1>2, <1>3, <1>5, <1>7 DEF Ends
  <1>9. Later' = Later
    BY <1>2, <1>3, <1>5, <1>6, <1>7 DEF Later
  <1> QED
    BY <1>1, <1>2, <1>3, <1>4, <1>8, <1>9

\* When its task goes on or ends.
LEMMA CommandsKept ==
    ASSUME TypeOK, TaskPlaces, workq' = workq, hold' = hold \/ hold' = 0,
           task' = task \/ task' = NoCmd
    PROVE  /\ Ends' \subseteq Ends /\ Later' \subseteq Later /\ InWork' \subseteq InWork
           /\ Ops(workq', "work") = Ops(workq, "work")
           /\ task' = task => InWork' = InWork
           /\ task' = NoCmd => InWork' = {}
           /\ task' = task /\ hold' = hold => Ends' = Ends /\ Later' = Later
  BY CommandFields DEF Ends, Later, Hand, Holding, InWork

LEMMA TasksKindsFrame ==
    ASSUME TasksKinds, UNCHANGED kinds,
           Ops(workq', "work") \cup InWork' \subseteq Ops(workq, "work") \cup InWork
    PROVE  TasksKinds'
  BY DEF TasksKinds

LEMMA TasksKindsStep ==
    ASSUME TypeOK, TaskPlaces, OnePlace, TasksKinds, Next
    PROVE  TasksKinds'
  <1>0. \A c \in WorkCmds \cup {NoCmd} : c \in {NoCmd, Cmd("reset", 0)} => c.op # "work"
    BY CommandFields, CommandMade
  <1>1. CASE Start \/ StartFails \/ Flush \/ Stop \/ \E kind \in Kinds : QueueWork(kind)
    <2>1. UNCHANGED <<task, hold>>
      BY <1>1, CallsLeave DEF workVars
    <2>2. CASE workq' = workq /\ kinds' = kinds
      BY <2>1, <2>2, CommandsKept, TasksKindsFrame
    <2>3. CASE kinds' = kinds /\ workq' \in {Append(workq, Cmd("reset", 0)), Append(workq, NoCmd)}
      <3>1. \E c \in WorkCmds \cup {NoCmd} : workq' = Append(workq, c) /\ c.op # "work"
        BY <1>0, <2>3, CommandsMade
      <3>2. Ops(workq', "work") = Ops(workq, "work") /\ InWork' = InWork
        BY <2>1, <3>1, CommandsPushed
      <3> QED
        BY <2>3, <3>2, TasksKindsFrame
    <2>4. CASE kinds' = kinds /\ workq' = <<NoCmd>>
      BY <2>1, <2>4, CommandsCleared, TasksKindsFrame
    <2>5. ASSUME NEW kind \in Kinds, QueueWork(kind)
          PROVE  TasksKinds'
      <3>1. PICK w \in Nat : w = Len(kinds) + 1
        BY PlacedIsQueued
      <3>2. /\ w \in Works /\ kinds'[w] = kind /\ \A v \in 1 .. Len(kinds) : kinds'[v] = kinds[v]
        BY <2>5, <3>1, Newest
      <3>3. Len(kinds') = w /\ 1 .. Len(kinds) \subseteq 1 .. Len(kinds') /\ w \in 1 .. Len(kinds')
        BY <2>5, <3>1 DEF QueueWork, TypeOK, CallTypes
      <3>4. /\ InWork' = InWork
            /\ \/ Ops(workq', "work") = Ops(workq, "work")
               \/ /\ Ops(workq', "work") = Ops(workq, "work") \cup {w}
                  /\ kind \in {"frame", "frameEos", "part"}
        <4>1. CASE UNCHANGED workq
          BY <2>1, <4>1, CommandsKept
        <4>2. CASE workq' = Append(workq, Cmd("pending", w)) \/ workq' = Append(workq, Cmd("drain", w))
          <5>1. \E c \in WorkCmds \cup {NoCmd} : workq' = Append(workq, c) /\ c.op # "work"
            BY <3>2, <4>2, CommandsMade, CommandMade
          <5> QED
            BY <2>1, <5>1, CommandsPushed
        <4>3. CASE kind \in {"frame", "part"} /\ workq' = Append(workq, Cmd("work", w))
          <5>1. \E c \in WorkCmds \cup {NoCmd} : workq' = Append(workq, c) /\ c.op = "work" /\ c.work = w
            BY <3>2, <4>3, CommandsMade, CommandMade
          <5> QED
            BY <2>1, <4>3, <5>1, CommandsPushed
        <4>4. CASE kind = "frameEos" /\ workq' = Append(Append(workq, Cmd("work", w)), Cmd("drain", 0))
          <5> DEFINE Cmds == WorkCmds \cup {NoCmd}
                     first == Cmd("work", w)
                     second == Cmd("drain", 0)
                     longer == Append(workq, first)
          <5>1. /\ first \in Cmds /\ second \in Cmds /\ first.op = "work" /\ first.work = w
                /\ second.op = "drain" /\ workq \in Seq(Cmds)
            BY <3>2, CommandsMade, CommandMade DEF TypeOK, WorkTypes
          <5> HIDE DEF first, second, Cmds
          <5>2. Ops(longer, "work") = Ops(workq, "work") \cup {w} /\ longer \in Seq(Cmds)
            BY <5>1, OpsAppend
          <5> HIDE DEF longer
          <5>3. Ops(Append(longer, second), "work") = Ops(longer, "work")
            BY <5>1, <5>2, OpsAppend
          <5>4. InWork' = InWork
            BY <2>1 DEF InWork
          <5> QED
            BY <4>4, <5>2, <5>3, <5>4 DEF longer, first, second
        <4> QED
          BY <2>5, <3>1, <4>1, <4>2, <4>3, <4>4, Newest
      <3>5. \A v \in Ops(workq', "work") \cup InWork' :
              v \in 1 .. Len(kinds') /\ kinds'[v] \in {"frame", "frameEos", "part"}
        BY <3>2, <3>3, <3>4 DEF TasksKinds
      <3> QED
        BY <3>5 DEF TasksKinds
    <2> QED
      BY <1>1, <2>2, <2>3, <2>4, <2>5, CallsPush
  <1>2. CASE TakeTask
    <2>1. kinds' = kinds
      BY <1>2 DEF TakeTask, apiVars
    <2> QED
      BY <1>2, <2>1, CommandsTaken, TasksKindsFrame
  <1>3. CASE DoWork \/ DecodeFrame \/ Drain \/ PendingTask
    BY <1>3, GoesOn, CommandsKept, TasksKindsFrame
  <1>4. CASE Reset
    <2>1. UNCHANGED <<kinds, workq, hold>> /\ task' = NoCmd
      BY <1>4 DEF Reset, EndTask, W!Finish, apiVars
    <2> QED
      BY <2>1, CommandsKept, TasksKindsFrame
  <1>5. CASE Waiting
    <2>1. UNCHANGED <<kinds, workq, hold, task>>
      BY <1>5, WaitingLeaves DEF workQueue, workVars, apiVars
    <2> QED
      BY <2>1, CommandsKept, TasksKindsFrame
  <1> QED
    BY <1>1, <1>2, <1>3, <1>4, <1>5 DEF Next, Working

LEMMA LaterFrame ==
    ASSUME LaterLater, Ends' \subseteq Ends, Later' \subseteq Later, eos' = eos \/ Later' = {}
    PROVE  LaterLater'
  BY DEF LaterLater

LEMMA LaterStep ==
    ASSUME "start" \notin MayFail, Base, Ending, LaterLater, Next
    PROVE  LaterLater'
  <1> USE DEF Base
  <1>1. CASE Start \/ FlushCollect
    <2>1. /\ UNCHANGED <<task, hold, workq>> /\ api \in {"stopped", "flushCollect"}
      BY <1>1 DEF Start, FlushCollect, W!Start, workQueue, workVars
    <2>2. workq = <<>> /\ at \in {"idle", "reset"}
      BY <2>1, StoppedIdle DEF Ending, FlushOrder
    <2>3. Later = {}
      BY <2>2, InHand, CommandFields, WorkOps DEF Later, Hand
    <2> QED
      BY <2>1, <2>3, CommandsKept, LaterFrame
  <1>2. CASE StartFails
    BY <1>2 DEF StartFails
  <1>3. CASE FlushBegin \/ FlushWorking \/ FlushWaiting \/ FlushEnd \/ Stop
    <2>1. UNCHANGED <<task, hold>>
      BY <1>3, CallsLeave DEF workVars, Flush
    <2>2. eos' = eos
      BY <1>3 DEF FlushBegin, FlushWorking, FlushWaiting, FlushEnd, Stop, StopWorking, StopWaiting,
                  StopJoined, StopPending
    <2>3. CASE workq' = workq
      BY <2>1, <2>2, <2>3, CommandsKept, LaterFrame
    <2>4. CASE workq' \in {Append(workq, Cmd("reset", 0)), Append(workq, NoCmd)}
      <3>1. \E c \in WorkCmds \cup {NoCmd} : workq' = Append(workq, c) /\ c.op \in {"reset", "stop"}
        BY <2>4, CommandsMade, CommandMade, CommandFields
      <3> QED
        BY <2>1, <2>2, <3>1, CommandsPushed, LaterFrame
    <2>5. CASE workq' = <<NoCmd>>
      BY <2>1, <2>2, <2>5, CommandsCleared, LaterFrame
    <2>6. ~ \E kind \in Kinds : QueueWork(kind) /\ workq' # workq /\ workq' # Append(workq, NoCmd)
            /\ workq' # <<NoCmd>> /\ workq' # Append(workq, Cmd("reset", 0))
      <3>1. ASSUME NEW kind \in Kinds, QueueWork(kind) PROVE kinds' # kinds
        BY <3>1 DEF QueueWork, TypeOK, CallTypes
      <3>2. kinds' = kinds
        BY <1>3 DEF FlushBegin, FlushWorking, FlushWaiting, FlushEnd, Stop, StopWorking, StopWaiting,
                    StopJoined, StopPending
      <3> QED
        BY <3>1, <3>2
    <2> QED
      BY <1>3, <2>3, <2>4, <2>5, <2>6, CallsPush DEF Flush
  <1>4. ASSUME NEW kind \in Kinds, QueueWork(kind)
        PROVE  LaterLater'
    <2>1. UNCHANGED <<task, hold>>
      BY <1>4, CallsLeave DEF workVars
    <2>2. PICK w \in Nat : w = Len(kinds) + 1
      BY PlacedIsQueued
    <2>3. w \in Works /\ w # 0
      BY <1>4, <2>2, Newest
    <2>4. \A e \in Ends : e < w
      <3>1. Ends \subseteq WorkPlaces[1] \cup WorkPlaces[2]
        BY WorkOps, PlacesNamed DEF Named, Ends, Hand
      <3>2. \A v \in WorkPlaces[1] \cup WorkPlaces[2] : v < w
        <4>1. \A i \in 1 .. 9 : \A v \in WorkPlaces[i] : v < w
          BY <1>4, <2>2, Newest
        <4> QED
          BY <4>1
      <3> QED
        BY <3>1, <3>2
    <2>5. CASE UNCHANGED <<workq, eos>>
      BY <2>1, <2>5, CommandsKept, LaterFrame
    <2>6. CASE eos = TRUE /\ eos' = TRUE /\ workq' = Append(workq, Cmd("pending", w))
      <3>1. Ends' = Ends /\ Later' = Later \cup {w}
        <4>1. \E c \in WorkCmds \cup {NoCmd} : workq' = Append(workq, c) /\ c.op = "pending" /\ c.work = w
          BY <2>3, <2>6, CommandsMade, CommandMade
        <4> QED
          BY <2>1, <4>1, CommandsPushed
      <3> QED
        BY <2>4, <2>6, <3>1 DEF LaterLater
    <2>7. CASE eos = FALSE /\ Later' \subseteq Later
      BY <2>7 DEF LaterLater
    <2>8. CASE eos = FALSE /\ \E op \in {"drain", "work"} : workq' = Append(workq, Cmd(op, w))
      <3>1. \E c \in WorkCmds \cup {NoCmd} : workq' = Append(workq, c) /\ c.op # "pending"
        BY <2>3, <2>8, CommandsMade, CommandMade
      <3>2. Later' \subseteq Later
        BY <2>1, <3>1, CommandsPushed
      <3> QED
        BY <2>7, <2>8, <3>2
    <2>9. CASE eos = FALSE /\ workq' = Append(Append(workq, Cmd("work", w)), Cmd("drain", 0))
      <3> DEFINE Cmds == WorkCmds \cup {NoCmd}
                 first == Cmd("work", w)
                 second == Cmd("drain", 0)
                 longer == Append(workq, first)
      <3>1. /\ first \in Cmds /\ second \in Cmds /\ first.op = "work"
            /\ second.op = "drain" /\ workq \in Seq(Cmds)
        BY <2>3, CommandsMade, CommandMade DEF TypeOK, WorkTypes
      <3> HIDE DEF first, second, Cmds
      <3>2. Ops(longer, "pending") = Ops(workq, "pending") /\ longer \in Seq(Cmds)
        BY <3>1, OpsAppend
      <3> HIDE DEF longer
      <3>3. Ops(Append(longer, second), "pending") = Ops(longer, "pending")
        BY <3>1, <3>2, OpsAppend
      <3>4. Hand("pending")' = Hand("pending")
        BY <2>1 DEF Hand, Holding
      <3>5. Later' = Later
        BY <2>9, <3>2, <3>3, <3>4 DEF Later, longer, first, second
      <3> QED
        BY <2>7, <2>9, <3>5
    <2> QED
      BY <1>4, <2>2, <2>5, <2>6, <2>8, <2>9, Newest
  <1>5. CASE TakeTask
    <2>1. eos' = eos
      BY <1>5 DEF TakeTask, apiVars
    <2> QED
      BY <1>5, <2>1, CommandsTaken, LaterFrame
  <1>6. CASE DoWork \/ DecodeFrame \/ Drain \/ PendingTask
    BY <1>6, GoesOn, CommandsKept, LaterFrame
  <1>7. CASE Reset
    <2>1. UNCHANGED <<eos, workq, hold>> /\ task' = NoCmd
      BY <1>7 DEF Reset, EndTask, W!Finish, apiVars
    <2> QED
      BY <2>1, CommandsKept, LaterFrame
  <1>8. CASE Waiting
    <2>1. UNCHANGED <<eos, workq, hold, task>>
      BY <1>8, WaitingLeaves DEF workQueue, workVars, apiVars
    <2> QED
      BY <2>1, CommandsKept, LaterFrame
  <1> QED
    BY <1>1, <1>2, <1>3, <1>4, <1>5, <1>6, <1>7, <1>8 DEF Next, Working, Flush

\* Every work at a time of its own.
DistinctTimes == \A v, w \in Works : TimeStamp[v] = TimeStamp[w] => v = w

LEMMA NoTwinsStep ==
    ASSUME DistinctTimes, Base, NoTwins, Next
    PROVE  NoTwins'
  <1> USE DEF Base
  <1>1. ASSUME AddPending, hold \in Works
        PROVE  NoTwins'
    <2>1. hold \notin pending
      <3>1. WorkPlaces[2] \cap WorkPlaces[3] = {}
        BY Disjoint
      <3> QED
        BY <1>1, <3>1, PlacesNamed, CommandFields DEF Named, Holding
    <2>2. { p \in pending : TimeStamp[p] = TimeStamp[hold] /\ TimeStamp[hold] # 0 } = {}
      BY <1>1, <2>1 DEF DistinctTimes, TypeOK, DataTypes
    <2> QED
      BY <1>1, <2>2 DEF AddPending, NoTwins
  <1>2. CASE duplicated' = duplicated \/ duplicated' = {}
    BY <1>2 DEF NoTwins
  <1>3. CASE AppendPending \/ PendingTask
    BY <1>1, <1>3, InHand DEF AppendPending, PendingTask
  <1>4. CASE Start \/ StartFails \/ Flush \/ Stop \/ \E kind \in Kinds : QueueWork(kind)
    BY <1>2, <1>4, CallsLeave
  <1>5. CASE TakeTask \/ Reset \/ (DoWork /\ ~AppendPending)
    BY <1>2, <1>5 DEF TakeTask, Reset, DoWork, WorkFlushed, WorkBegin, AppendOnly, InitFails, InitDone,
                      Settle, listVars
  <1>6. CASE DecodeFrame \/ Drain
    BY <1>2, <1>6 DEF DecodeFrame, AllocFails, AllocDone, Gate, CallBuffers, CallOutputs, CallDrained,
                      CallBusy, CallFails, CallChanges, Count, Drain, DrainNothing, DrainFlushed,
                      DrainBegin, DrainEos, DrainWait, Reinit, listVars
  <1>7. CASE Waiting
    BY <1>2, <1>7, WaitingLeaves
  <1> QED
    BY <1>3, <1>4, <1>5, <1>6, <1>7 DEF Next, Working

LEMMA InitedStep ==
    ASSUME Base, Inited, Next
    PROVE  Inited'
  <1> USE DEF Base
  <1>0. initialized \in BOOLEAN
    BY DEF TypeOK, DataTypes
  <1>1. CASE UNCHANGED <<at, task, initialized>>
    BY <1>1 DEF Inited, Called
  <1>2. CASE Start \/ StartFails \/ Flush \/ (Stop /\ ~StopPending) \/ \E kind \in Kinds : QueueWork(kind)
    <2>1. initialized' = initialized
      BY <1>2 DEF Start, StartFails, Flush, FlushBegin, FlushWorking, FlushWaiting, FlushEnd,
                  FlushCollect, Stop, StopWorking, StopWaiting, StopJoined, QueueWork, hwVars
    <2> QED
      BY <1>1, <1>2, <2>1, CallsLeave DEF workVars
  <1>3. CASE StopPending
    <2>1. UNCHANGED <<at, task>> /\ task = NoCmd
      BY <1>3, CallsLeave DEF StopPending, Stop, workVars, Joined
    <2>2. at = "idle"
      BY <2>1 DEF TypeOK, WorkTypes
    <2> QED
      BY <2>1, <2>2 DEF Inited, Called
  <1>4. CASE TakeTask
    <2>1. at' = (IF task' = NoCmd THEN "idle" ELSE task'.op) /\ task' \in WorkCmds \cup {NoCmd}
      BY <1>4, CommandsTaken
    <2> QED
      BY <2>1, CommandFields DEF Inited, Called
  <1>5. CASE DoWork \/ PendingTask \/ Reset
    <2>1. CASE InitDone
      BY <2>1 DEF InitDone, Inited
    <2>2. CASE WorkFlushed \/ WorkBegin \/ AppendOnly \/ AppendPending \/ InitFails \/ Settle
               \/ PendingTask \/ Reset
      BY <2>2 DEF WorkFlushed, WorkBegin, AppendOnly, AppendPending, InitFails, Settle, PendingTask,
                  Reset, EndTask, Goto, Inited, Called
    <2> QED
      BY <1>5, <2>1, <2>2 DEF DoWork
  <1>6. CASE DecodeFrame
    <2>1. Called /\ initialized' = initialized
      BY <1>6 DEF DecodeFrame, AllocFails, AllocDone, Gate, CallBuffers, CallOutputs, CallDrained,
                  CallBusy, CallFails, CallChanges, Count, hwVars, Called
    <2> QED
      BY <2>1 DEF Inited
  <1>7. CASE Drain
    <2>1. CASE DrainNothing \/ Reinit
      BY <2>1 DEF DrainNothing, Reinit, EndTask, Goto, Inited, Called
    <2>2. CASE DrainFlushed \/ DrainBegin
      BY <1>0, <2>2 DEF DrainFlushed, DrainBegin, hwVars, Inited
    <2>3. CASE DrainEos \/ DrainWait
      BY <2>3 DEF DrainEos, DrainWait, hwVars, Inited, Called
    <2> QED
      BY <1>7, <2>1, <2>2, <2>3 DEF Drain
  <1>8. CASE Waiting
    BY <1>1, <1>8, WaitingLeaves DEF workQueue, workVars, hwVars
  <1> QED
    BY <1>2, <1>3, <1>4, <1>5, <1>6, <1>7, <1>8 DEF Next, Working

-----------------------------------------------------------------------------
\* A work that was pending is pending, or in the hands of WaitWork, or has come back; a work the
\* hardware has was pending, and so was one the working thread has appended.
Seen == pending \cup back \cup dropped \cup flushed \cup Matched
Known == /\ fed \cup Synced \subseteq Seen
         /\ at \notin {"work", "append"} => InWork \subseteq Seen

LEMMA SyncedKept ==
    ASSUME UNCHANGED <<waitq, job, found>>
    PROVE  Synced' = Synced
  BY DEF Synced

\* A frame that comes out, an end of stream or a null command is pushed.
LEMMA SyncedPushed ==
    ASSUME TypeOK, UNCHANGED <<job, found>>, NEW c \in WaitCmds \cup {NoCmd},
           waitq' = Append(waitq, c)
    PROVE  /\ c.op = "wait" => Synced' = Synced \cup {c.work}
           /\ c.op # "wait" => Synced' = Synced
  <1>1. waitq \in Seq(WaitCmds \cup {NoCmd})
    BY DEF TypeOK, WaitTypes
  <1>2. /\ Ops(waitq', "wait") = Ops(waitq, "wait") \cup (IF c.op = "wait" THEN {c.work} ELSE {})
        /\ c.op # "wait" => Ops(waitq', "wait") = Ops(waitq, "wait")
    BY <1>1, OpsAppend
  <1>3. Synced' = Ops(waitq', "wait") \cup (IF found = "sync" THEN {job.work} ELSE {})
    BY DEF Synced
  <1> QED
    BY <1>2, <1>3 DEF Synced

\* WaitWork takes a sync point from its queue and looks it up later.
LEMMA SyncedTaken ==
    ASSUME TypeOK, TakeJob
    PROVE  Synced' = Synced
  <1>1. /\ waitq # <<>> /\ waitq' = Tail(waitq) /\ job' = Head(waitq) /\ job = NoCmd
        /\ waitq \in Seq(WaitCmds \cup {NoCmd})
        /\ found' = IF job'.op = "wait" THEN "sync" ELSE "idle"
    BY DEF TakeJob, V!Take, TypeOK, WaitTypes
  <1>2. found # "sync"
    BY <1>1, CommandFields DEF TypeOK, WaitTypes
  <1>3. Ops(waitq, "wait") = Ops(waitq', "wait") \cup (IF job'.op = "wait" THEN {job'.work} ELSE {})
    BY <1>1, OpsTail
  <1>4. Synced' = Ops(waitq', "wait") \cup (IF found' = "sync" THEN {job'.work} ELSE {})
    BY DEF Synced
  <1> QED
    BY <1>1, <1>2, <1>3, <1>4 DEF Synced

\* The calls and the waiting thread bring no new frame.
LEMMA SyncedShrinks ==
    ASSUME TypeOK, \/ Start \/ StartFails \/ Flush \/ Stop \/ \E kind \in Kinds : QueueWork(kind)
                   \/ Waiting
    PROVE  /\ Synced' \subseteq Synced
           /\ Synced' = Synced \/ (StopWaiting /\ aborting) \/ WaitWorkFinds
  <1>1. CASE \/ Start \/ StartFails \/ Flush \/ (Stop /\ ~StopWaiting)
             \/ \E kind \in Kinds : QueueWork(kind)
    <2>1. UNCHANGED <<waitq, job, found>>
      BY <1>1 DEF Start, StartFails, Flush, FlushBegin, FlushWorking, FlushWaiting, FlushEnd,
                  FlushCollect, Stop, StopWorking, StopJoined, StopPending, QueueWork, V!Start, V!Join,
                  waitVars
    <2> QED
      BY <2>1, SyncedKept
  <1>2. CASE StopWaiting
    <2>1. /\ UNCHANGED <<job, found>>
          /\ waitq' = IF aborting THEN <<NoCmd>> ELSE Append(waitq, NoCmd)
      BY <1>2 DEF StopWaiting, V!Shutdown
    <2>2. CASE ~aborting
      <3>1. waitq' = Append(waitq, NoCmd) /\ NoCmd.op # "wait"
        BY <2>1, <2>2, CommandFields
      <3> QED
        BY <2>1, <3>1, SyncedPushed
    <2>3. CASE aborting
      <3>1. DOMAIN <<NoCmd>> = {1} /\ <<NoCmd>>[1] = NoCmd
        OBVIOUS
      <3>2. Ops(<<NoCmd>>, "wait") = {}
        BY <3>1, CommandFields DEF Ops
      <3>3. Synced' = Ops(waitq', "wait") \cup (IF found = "sync" THEN {job.work} ELSE {})
        BY <2>1 DEF Synced
      <3>4. Synced' \subseteq Synced
        BY <2>1, <2>3, <3>2, <3>3 DEF Synced
      <3> QED
        BY <1>2, <2>3, <3>4
    <2> QED
      BY <2>2, <2>3
  <1>3. CASE TakeJob
    BY <1>3, SyncedTaken
  <1>4. CASE EosReturned \/ WaitWorkNotifies \/ WaitWorkCounts
    <2>1. UNCHANGED waitq /\ found # "sync" /\ found' # "sync"
      BY <1>4 DEF EosReturned, WaitWorkNotifies, WaitWorkCounts, V!Finish, TypeOK, WaitTypes
    <2> QED
      BY <2>1 DEF Synced
  <1>5. CASE WaitWorkFinds
    <2>1. UNCHANGED waitq /\ found' # "sync"
      BY <1>5 DEF WaitWorkFinds
    <2> QED
      BY <1>5, <2>1 DEF Synced
  <1> QED
    BY <1>1, <1>2, <1>3, <1>4, <1>5 DEF Waiting

\* The hardware decoder has what it was fed until WaitWork is given the frame; only a call of it
\* feeds it, with the work DoWork is at.
LEMMA FedOrSynced ==
    ASSUME TypeOK, TaskPlaces, DoWork \/ DecodeFrame \/ Drain \/ PendingTask
    PROVE  /\ fed' \cup Synced' \subseteq fed \cup Synced \cup (IF at = "call" THEN InWork ELSE {})
           /\ fed \cup Synced \subseteq fed' \cup Synced' \/ Reinit
  <1>1. CASE UNCHANGED <<fed, waitq, job, found>>
    BY <1>1, SyncedKept
  <1>2. CASE DoWork \/ PendingTask
    BY <1>1, <1>2 DEF DoWork, WorkFlushed, WorkBegin, AppendOnly, AppendPending, InitFails, InitDone,
                      Settle, PendingTask, waitVars, hwVars
  <1>3. CASE AllocFails \/ AllocDone \/ Gate \/ CallDrained \/ CallBusy \/ CallFails \/ CallChanges
             \/ Count
    BY <1>1, <1>3 DEF AllocFails, AllocDone, Gate, CallDrained, CallBusy, CallFails, CallChanges,
                      Count, waitVars, hwVars
  <1>4. \A w : at = "call" /\ ~draining /\ w = task.work => InWork = {w} /\ Fed(w) \subseteq fed \cup {w}
                /\ fed \subseteq Fed(w)
    BY InHand DEF InWork, Fed
  <1>5. CASE CallBuffers
    <2>1. UNCHANGED <<waitq, job, found>> /\ at = "call" /\ ~draining
          /\ (fed' = Fed(task.work) \/ fed' = fed)
      BY <1>5 DEF CallBuffers, waitVars
    <2> QED
      BY <1>4, <2>1, SyncedKept
  <1>6. ASSUME NEW f \in Works, NEW reads \in BOOLEAN, CallOutputs(f, reads)
        PROVE  /\ fed' \cup Synced' \subseteq fed \cup Synced \cup (IF at = "call" THEN InWork ELSE {})
               /\ fed \cup Synced \subseteq fed' \cup Synced'
    <2> DEFINE all == IF reads THEN Fed(task.work) ELSE fed
    <2>1. /\ UNCHANGED <<job, found>> /\ at = "call" /\ (reads => ~draining)
          /\ f \in all /\ fed' = all \ {f} /\ waitq' = Append(waitq, Cmd("wait", f))
      BY <1>6 DEF CallOutputs, V!Push
    <2>2. fed \subseteq all /\ all \subseteq fed \cup InWork
      BY <1>4, <2>1
    <2> HIDE DEF all
    <2>3. Synced' = Synced \cup {f}
      BY <2>1, SyncedPushed, CommandsMade, CommandMade
    <2> QED
      BY <2>1, <2>2, <2>3
  <1>7. CASE DrainNothing \/ DrainFlushed \/ DrainBegin \/ DrainWait
    BY <1>1, <1>7 DEF DrainNothing, DrainFlushed, DrainBegin, DrainWait, waitVars, hwVars
  <1>8. CASE DrainEos
    <2>1. UNCHANGED <<fed, job, found>>
          /\ (waitq' = waitq \/ (hold # 0 /\ waitq' = Append(waitq, Cmd("eos", hold))))
      BY <1>8 DEF DrainEos, V!Push, waitVars, hwVars
    <2>2. CASE hold # 0 /\ waitq' = Append(waitq, Cmd("eos", hold))
      <3>1. Cmd("eos", hold) \in WaitCmds /\ Cmd("eos", hold).op # "wait"
        BY <2>2, InHand, CommandsMade, CommandMade
      <3>2. Synced' = Synced
        BY <2>1, <2>2, <3>1, SyncedPushed
      <3> QED
        BY <2>1, <3>2
    <2> QED
      BY <1>1, <2>1, <2>2
  <1>9. CASE Reinit
    <2>1. fed' = {} /\ UNCHANGED <<waitq, job, found>>
      BY <1>9 DEF Reinit, waitVars
    <2> QED
      BY <1>9, <2>1, SyncedKept
  <1> QED
    BY <1>2, <1>3, <1>5, <1>6, <1>7, <1>8, <1>9 DEF DecodeFrame, Drain

\* Only DoWork and PushPending make a work pending, the one in hand; what is given back stays so.
LEMMA SeenGrows ==
    ASSUME Base, Next
    PROVE  /\ Seen \subseteq Seen'
           /\ back \cup dropped \cup flushed \subseteq (back \cup dropped \cup flushed)'
           /\ pending' \subseteq pending \/ AppendPending \/ PendingTask
  <1> USE DEF Base
  <1>1. CASE /\ pending' = pending \/ \E w : pending' = pending \cup {w}
             /\ back \subseteq back' /\ dropped \subseteq dropped' /\ flushed \subseteq flushed'
             /\ match' = match
             /\ pending' \subseteq pending \/ AppendPending \/ PendingTask
    BY <1>1 DEF Seen, Matched
  <1>2. CASE Start \/ StartFails \/ FlushBegin \/ FlushWorking \/ FlushWaiting \/ FlushEnd
             \/ StopWaiting \/ StopJoined \/ (\E abort \in BOOLEAN : StopWorking(abort))
             \/ \E kind \in Kinds : QueueWork(kind)
    BY <1>1, <1>2 DEF Start, StartFails, FlushBegin, FlushWorking, FlushWaiting, FlushEnd, StopWaiting,
                      StopJoined, StopWorking, QueueWork, waitVars, listVars, clientVars
  <1>3. CASE FlushCollect \/ StopPending \/ Reinit
    BY <1>3 DEF FlushCollect, StopPending, Reinit, waitVars, Seen, Matched
  <1>4. CASE Settle
    BY <1>4 DEF Settle, waitVars, Seen, Matched
  <1>5. CASE TakeTask \/ Reset \/ PendingTask \/ (DoWork /\ ~Settle)
    BY <1>1, <1>5 DEF TakeTask, Reset, PendingTask, DoWork, WorkFlushed, WorkBegin, AppendOnly,
                      AppendPending, AddPending, InitFails, InitDone, waitVars, listVars, clientVars
  <1>6. CASE AllocFails \/ AllocDone \/ Gate \/ CallBuffers \/ CallDrained \/ CallBusy \/ CallFails
             \/ CallChanges \/ Count
    BY <1>1, <1>6 DEF AllocFails, AllocDone, Gate, CallBuffers, CallDrained, CallBusy, CallFails,
                      CallChanges, Count, waitVars, listVars, clientVars
  <1>7. CASE \E f \in Works, reads \in BOOLEAN : CallOutputs(f, reads)
    BY <1>1, <1>7 DEF CallOutputs, listVars, clientVars
  <1>8. CASE Drain /\ ~Reinit
    BY <1>1, <1>8 DEF Drain, DrainNothing, DrainFlushed, DrainBegin, DrainEos, DrainWait, waitVars,
                      listVars, clientVars
  <1>9. CASE TakeJob \/ EosReturned \/ WaitWorkCounts
    BY <1>1, <1>9 DEF TakeJob, EosReturned, WaitWorkCounts, listVars, clientVars
  <1>10. CASE WaitWorkFinds
    <2>1. match = 0 /\ pending' = pending \ {match'} /\ UNCHANGED <<back, dropped, flushed>>
      BY <1>10, InHand DEF WaitWorkFinds, TaskPlaces, HoldsMatch, clientVars, TypeOK, WaitTypes
    <2>2. 0 \notin pending
      BY CommandFields DEF TypeOK, DataTypes
    <2> QED
      BY <2>1, <2>2 DEF Seen, Matched
  <1>11. CASE WaitWorkNotifies
    BY <1>11 DEF WaitWorkNotifies, listVars, Seen, Matched
  <1> QED
    BY <1>2, <1>3, <1>4, <1>5, <1>6, <1>7, <1>8, <1>9, <1>10, <1>11
    DEF Next, Flush, Stop, Working, DecodeFrame, Waiting

LEMMA KnownStep ==
    ASSUME Base, Known, Next
    PROVE  Known'
  <1> USE DEF Base
  <1>0. Seen \subseteq Seen'
    BY SeenGrows
  <1>1. CASE Start \/ StartFails \/ Flush \/ Stop \/ \E kind \in Kinds : QueueWork(kind)
    <2>1. (fed' = fed \/ fed' = {}) /\ UNCHANGED <<task, at>> /\ Synced' \subseteq Synced
      BY <1>1, CallsLeave, SyncedShrinks DEF workVars
    <2>2. InWork' = InWork
      BY <2>1 DEF InWork
    <2> QED
      BY <1>0, <2>1, <2>2 DEF Known
  <1>2. CASE TakeTask
    <2>1. /\ at' = (IF task' = NoCmd THEN "idle" ELSE task'.op) /\ task' \in WorkCmds \cup {NoCmd}
          /\ fed' = fed /\ Synced' = Synced
      BY <1>2, CommandsTaken, SyncedKept DEF TakeTask, hwVars, waitVars
    <2>2. at' \notin {"work", "append"} => InWork' = {}
      BY <2>1, CommandFields DEF InWork
    <2> QED
      BY <1>0, <2>1, <2>2 DEF Known
  <1>3. CASE DoWork \/ DecodeFrame \/ Drain \/ PendingTask
    <2>1. fed' \cup Synced' \subseteq fed \cup Synced \cup (IF at = "call" THEN InWork ELSE {})
      BY <1>3, FedOrSynced
    <2>2. fed' \cup Synced' \subseteq Seen
      BY <2>1 DEF Known
    <2>3. InWork' \subseteq InWork /\ (task' = NoCmd => InWork' = {})
      BY <1>3, GoesOn, CommandsKept
    <2>4. CASE at \notin {"work", "append"}
      BY <1>0, <2>2, <2>3, <2>4 DEF Known
    <2>5. CASE WorkFlushed \/ AppendOnly
      <3>1. task' = NoCmd
        BY <2>5 DEF WorkFlushed, AppendOnly, EndTask, W!Finish
      <3> QED
        BY <1>0, <2>2, <2>3, <3>1 DEF Known
    <2>6. CASE WorkBegin
      BY <1>0, <2>2, <2>6 DEF WorkBegin, Goto, Known
    <2>7. CASE AppendPending
      <3>1. hold \in pending' /\ hold = task.work /\ at = "append"
        BY <2>7, InHand, CommandFields DEF AppendPending, AddPending
      <3>2. InWork \subseteq {hold}
        BY <3>1 DEF InWork
      <3>3. InWork' \subseteq Seen'
        BY <2>3, <3>1, <3>2 DEF Seen
      <3> QED
        BY <1>0, <2>2, <3>3 DEF Known
    <2>8. at \in {"work", "append"} => WorkFlushed \/ AppendOnly \/ WorkBegin \/ AppendPending
      BY <1>3 DEF DoWork, InitFails, InitDone, Settle, DecodeFrame, AllocFails, AllocDone, Gate,
                  CallBuffers, CallOutputs, CallDrained, CallBusy, CallFails, CallChanges, Count, Drain,
                  DrainNothing, DrainFlushed, DrainBegin, DrainEos, DrainWait, Reinit, PendingTask
    <2> QED
      BY <2>4, <2>5, <2>6, <2>7, <2>8
  <1>4. CASE Reset
    <2>1. task' = NoCmd /\ fed' = {} /\ Synced' = Synced
      BY <1>4, SyncedKept DEF Reset, EndTask, W!Finish, waitVars
    <2>2. InWork' = {}
      BY <2>1, CommandFields DEF InWork
    <2> QED
      BY <1>0, <2>1, <2>2 DEF Known
  <1>5. CASE Waiting
    <2>1. UNCHANGED <<fed, task, at>> /\ Synced' \subseteq Synced
      BY <1>5, WaitingLeaves, SyncedShrinks DEF workQueue, workVars, hwVars
    <2>2. InWork' = InWork
      BY <2>1 DEF InWork
    <2> QED
      BY <1>0, <2>1, <2>2 DEF Known
  <1> QED
    BY <1>1, <1>2, <1>3, <1>4, <1>5 DEF Next, Working

-----------------------------------------------------------------------------
\* The frame of a pending work is on its way: in the hardware or in the waiting queue, or DoWork is
\* at the work, or the work was queued after the end of stream.  This is so but for a DoStop in
\* progress and, in a Flush, between the reset task and FlushCollect.
FlushApis == {"flushWork", "flushWait", "flushEnd", "flushCollect"}
Cleared == api \in FlushApis /\ workq = <<>> /\ at = "idle"
OnTheirWay == \/ Stopping \/ Cleared
              \/ \A w \in pending : \/ w \in fed \cup Synced \cup InWork
                                    \/ eos = TRUE /\ \A e \in Ends : e < w

\* DoWork keeps a work pending at its end only when its frame is expected; the hardware is empty
\* when a Drain that was not stopped ends; only Flush resets the hardware.
Expected == at \in {"settle", "countLast"} /\ outcome = "expect" /\ HasFrame(task.work) =>
                (task.work \in pending => task.work \in fed \cup Synced)
Dry == at = "drainEos" => Stopping \/ fed = {}
ResetPlace == \A i \in DOMAIN workq :
                workq[i].op = "reset" => Stopping \/ (api = "flushWork" /\ i = Len(workq))
ResetTime == at = "reset" => Stopping \/ pending = {} \/ (api \in FlushApis /\ workq = <<>>)

\* A work that stays pending stays on its way, whatever the caller and the waiting thread do.
LEMMA StaysOnWay ==
    ASSUME DistinctTimes, Base,
           \/ Start \/ StartFails \/ Flush \/ Stop \/ \E kind \in Kinds : QueueWork(kind)
           \/ Waiting
    PROVE  /\ pending' \subseteq pending
           /\ \/ StopWaiting
              \/ \A w \in pending' : w \in fed \cup Synced => w \in fed' \cup Synced'
  <1> USE DEF Base
  <1>1. CASE Start \/ StartFails \/ Flush \/ Stop \/ \E kind \in Kinds : QueueWork(kind)
    <2>1. (pending' = pending \/ pending' = {}) /\ (fed' = fed \/ fed' = {})
      BY <1>1, CallsLeave
    <2>2. fed' = fed \/ pending' = {}
      BY <1>1 DEF Start, StartFails, Flush, FlushBegin, FlushWorking, FlushWaiting, FlushEnd,
                  FlushCollect, Stop, StopWorking, StopWaiting, StopJoined, StopPending, QueueWork,
                  hwVars
    <2>3. StopWaiting \/ Synced' = Synced
      <3>1. ~WaitWorkFinds
        <4>1. found' = found
          BY <1>1, CallsLeave
        <4> QED
          BY <4>1 DEF WaitWorkFinds
      <3> QED
        BY <1>1, <3>1, SyncedShrinks
    <2> QED
      BY <2>1, <2>2, <2>3
  <1>2. CASE Waiting
    <2>1. fed' = fed /\ api' = api /\ workq' = workq /\ aborting' = aborting
      BY <1>2, WaitingLeaves DEF hwVars, apiVars, workQueue
    <2>2. ~StopWaiting
      BY <2>1 DEF StopWaiting
    <2>3. CASE WaitWorkFinds
      <3> DEFINE same == { p \in pending : TimeStamp[p] = TimeStamp[job.work] }
      <3>1. /\ found = "sync" /\ pending' = pending \ {match'} /\ waitq' = waitq
            /\ match' = IF same = {} THEN 0 ELSE CHOOSE p \in same : \A q \in same : p <= q
        BY <2>3 DEF WaitWorkFinds
      <3>2. job.work \in Works /\ pending \subseteq Works
        BY <3>1, CommandFields DEF TypeOK, WaitTypes, DataTypes
      <3>3. \A p \in same : p = job.work
        BY <3>2 DEF DistinctTimes
      <3>4. job.work \in pending => job.work \in same
        OBVIOUS
      <3>5. same # {} => match' \in same
        <4>1. same \in SUBSET pending
          OBVIOUS
        <4> HIDE DEF same
        <4> QED
          BY <3>1, <4>1, FirstOfSame
      <3>6. job.work \notin pending'
        BY <3>1, <3>3, <3>4, <3>5
      <3>7. Synced \ {job.work} \subseteq Synced'
        BY <3>1 DEF Synced
      <3> QED
        BY <2>1, <3>1, <3>6, <3>7
    <2>4. CASE ~WaitWorkFinds
      <3>1. Synced' = Synced
        BY <1>2, <2>2, <2>4, SyncedShrinks
      <3>2. pending' = pending
        BY <1>2, <2>4 DEF Waiting, TakeJob, EosReturned, WaitWorkNotifies, WaitWorkCounts, listVars
      <3> QED
        BY <2>1, <3>1, <3>2
    <2> QED
      BY <2>3, <2>4
  <1> QED
    BY <1>1, <1>2

\* While the working thread is at a task, DoStop has not joined it.
LEMMA AtTask ==
    ASSUME Base, at # "idle"
    PROVE  api \notin {"stopWait", "stopPending", "stopped"} /\ ~StopWaiting /\ ~Start /\ ~StopPending
  <1>1. worker = "up"
    BY DEF Base, Joined, TypeOK, WorkTypes
  <1> QED
    BY <1>1 DEF Base, Joined, StopWaiting, W!Join, Start, StopPending

LEMMA ExpectedStep ==
    ASSUME DistinctTimes, Base, NoTwins, Expected, Next
    PROVE  Expected'
  <1> USE DEF Base
  <1> SUFFICES ASSUME at' \in {"settle", "countLast"}, outcome' = "expect",
                      HasFrame(task.work)', task'.work \in pending'
               PROVE  task'.work \in fed' \cup Synced'
    BY DEF Expected
  <1>0. kinds'[task'.work] \in {"frame", "frameEos"}
    BY DEF HasFrame
  <1>1. CASE \/ Start \/ StartFails \/ Flush \/ Stop \/ \E kind \in Kinds : QueueWork(kind)
             \/ Waiting
    <2>1. UNCHANGED <<at, outcome, task>>
      BY <1>1, CallsLeave, WaitingLeaves DEF workQueue, workVars
    <2>2. pending' \subseteq pending /\ \A w \in pending' : w \in fed \cup Synced => w \in fed' \cup Synced'
      <3>1. ~StopWaiting
        BY <2>1, AtTask
      <3> QED
        BY <1>1, <3>1, StaysOnWay
    <2>3. HasFrame(task.work)
      <3>1. CASE kinds' = kinds
        BY <1>0, <2>1, <3>1 DEF HasFrame
      <3>2. ASSUME NEW kind \in Kinds, QueueWork(kind)
            PROVE  HasFrame(task.work)
        <4>1. task.work \in WorkPlaces[3]
          BY <2>1, <2>2, PlacesNamed DEF Named
        <4>2. task.work \in 1 .. Len(kinds)
          BY <4>1, PlacedIsQueued
        <4>3. kinds'[task.work] = kinds[task.work]
          BY <3>2, <4>2, Newest
        <4> QED
          BY <1>0, <2>1, <4>3 DEF HasFrame
      <3>3. kinds' = kinds \/ \E kind \in Kinds : QueueWork(kind)
        BY <1>1, CallsPush, WaitingLeaves DEF apiVars
      <3> QED
        BY <3>1, <3>2, <3>3
    <2> QED
      BY <2>1, <2>2, <2>3 DEF Expected
  <1>2. CASE TakeTask
    <2>1. at' = (IF task' = NoCmd THEN "idle" ELSE task'.op) /\ task' \in WorkCmds \cup {NoCmd}
      BY <1>2, CommandsTaken
    <2> QED
      BY <2>1, CommandFields
  <1>3. CASE DoWork \/ Drain \/ PendingTask \/ Reset
    BY <1>3 DEF DoWork, WorkFlushed, WorkBegin, AppendOnly, AppendPending, InitFails, InitDone, Settle,
                Drain, DrainNothing, DrainFlushed, DrainBegin, DrainEos, DrainWait, Reinit, PendingTask,
                Reset, EndTask, Goto
  <1>4. CASE AllocFails \/ AllocDone \/ Gate \/ CallDrained \/ CallBusy \/ CallFails \/ CallChanges
    BY <1>4 DEF AllocFails, AllocDone, Gate, CallDrained, CallBusy, CallFails, CallChanges, Goto
  <1>5. CASE Count
    <2>1. /\ at = "countLast" /\ UNCHANGED <<outcome, task, pending, kinds, fed, waitq, job, found>>
      BY <1>5 DEF Count, Goto, apiVars, workQueue, waitVars, listVars, hwVars
    <2> QED
      BY <1>0, <2>1, SyncedKept DEF Expected, HasFrame
  <1>6. CASE CallBuffers
    <2>1. /\ fed' = Fed(task.work) /\ UNCHANGED <<task, kinds>>
      BY <1>6 DEF CallBuffers, NoTwins, apiVars, workQueue
    <2> QED
      BY <1>0, <2>1 DEF Fed, HasFrame
  <1>7. ASSUME NEW f \in Works, NEW reads \in BOOLEAN, CallOutputs(f, reads)
        PROVE  task'.work \in fed' \cup Synced'
    <2>1. /\ reads /\ UNCHANGED <<task, kinds, job, found>> /\ fed' = Fed(task.work) \ {f}
          /\ waitq' = Append(waitq, Cmd("wait", f))
      BY <1>7 DEF CallOutputs, V!Push, Goto, apiVars, workQueue
    <2>2. f \in Synced'
      BY <2>1, SyncedPushed, CommandsMade, CommandMade
    <2> QED
      BY <1>0, <2>1, <2>2 DEF Fed, HasFrame
  <1> QED
    BY <1>1, <1>2, <1>3, <1>4, <1>5, <1>6, <1>7 DEF Next, Working, DecodeFrame

LEMMA DryStep ==
    ASSUME "alloc" \notin MayFail, "device" \notin MayFail, Base, Dry, Next
    PROVE  Dry'
  <1> USE DEF Base
  <1>1. CASE Start \/ StartFails \/ Flush \/ Stop \/ \E kind \in Kinds : QueueWork(kind)
    <2>1. at' = at /\ (fed' = fed \/ fed' = {})
      BY <1>1, CallsLeave DEF workVars
    <2>2. Stopping => Stopping' \/ fed' = {}
      BY <1>1 DEF Start, StartFails, Flush, FlushBegin, FlushWorking, FlushWaiting, FlushEnd,
                  FlushCollect, Stop, StopWorking, StopWaiting, StopJoined, StopPending, QueueWork,
                  Stopping
    <2> QED
      BY <2>1, <2>2 DEF Dry
  <1>2. CASE TakeTask
    <2>1. at' = (IF task' = NoCmd THEN "idle" ELSE task'.op) /\ task' \in WorkCmds \cup {NoCmd}
      BY <1>2, CommandsTaken
    <2> QED
      BY <2>1, CommandFields DEF Dry
  <1>3. CASE DoWork \/ Drain \/ PendingTask \/ Reset
    <2>1. at' # "drainEos"
      BY <1>3 DEF DoWork, WorkFlushed, WorkBegin, AppendOnly, AppendPending, InitFails, InitDone,
                  Settle, Drain, DrainNothing, DrainFlushed, DrainBegin, DrainEos, DrainWait, Reinit,
                  PendingTask, Reset, EndTask, Goto
    <2> QED
      BY <2>1 DEF Dry
  <1>4. CASE AllocFails
    BY <1>4 DEF AllocFails, Dry, Stopping, apiVars
  <1>5. CASE CallDrained
    BY <1>5 DEF CallDrained, Dry, hwVars
  <1>6. CASE CallFails
    BY <1>6 DEF CallFails
  <1>7. CASE AllocDone \/ Gate \/ CallBuffers \/ CallBusy \/ CallChanges \/ Count
    <2>1. at' # "drainEos"
      BY <1>7 DEF AllocDone, Gate, CallBuffers, CallBusy, CallChanges, Count, Goto
    <2> QED
      BY <2>1 DEF Dry
  <1>8. CASE \E f \in Works, reads \in BOOLEAN : CallOutputs(f, reads)
    <2>1. at' # "drainEos"
      BY <1>8 DEF CallOutputs, Goto
    <2> QED
      BY <2>1 DEF Dry
  <1>9. CASE Waiting
    <2>1. UNCHANGED <<at, api, fed>>
      BY <1>9, WaitingLeaves DEF apiVars, workVars, hwVars
    <2> QED
      BY <2>1 DEF Dry, Stopping
  <1> QED
    BY <1>1, <1>2, <1>3, <1>4, <1>5, <1>6, <1>7, <1>8, <1>9 DEF Next, Working, DecodeFrame

LEMMA ResetPlaceStep ==
    ASSUME "start" \notin MayFail, Base, Ending, ResetPlace, Next
    PROVE  ResetPlace'
  <1> USE DEF Base
  <1>0. workq \in Seq(WorkCmds \cup {NoCmd})
    BY DEF TypeOK, WorkTypes
  <1>1. CASE workq' = <<>>
    BY <1>1 DEF ResetPlace
  <1>2. CASE workq' = workq /\ (Stopping => Stopping') /\ (api = "flushWork" => api' = "flushWork")
    BY <1>2 DEF ResetPlace
  <1>3. CASE Start \/ FlushWorking \/ FlushWaiting \/ FlushEnd \/ FlushCollect \/ StopPending
    <2>1. workq' = workq /\ (api \in {"stopped", "flushWait", "flushEnd", "flushCollect", "stopPending"}
                              \/ workq = <<>>)
      BY <1>3 DEF Start, W!Start, FlushWorking, FlushWaiting, FlushEnd, FlushCollect, StopPending,
                  workQueue
    <2>2. workq' = <<>>
      BY <2>1 DEF FlushOrder, Ending
    <2> QED
      BY <1>1, <2>2
  <1>4. CASE StartFails
    BY <1>4 DEF StartFails
  <1>5. CASE StopJoined \/ StopWaiting \/ \E abort \in BOOLEAN : StopWorking(abort)
    <2>1. Stopping'
      BY <1>5 DEF StopJoined, StopWaiting, StopWorking, Stopping
    <2> QED
      BY <2>1 DEF ResetPlace
  <1>6. api = "running" => \A i \in DOMAIN workq : workq[i].op # "reset"
    BY DEF ResetPlace, Stopping
  <1>7. CASE FlushBegin
    <2>1. /\ api = "running" /\ api' = "flushWork" /\ workq' = Append(workq, Cmd("reset", 0))
      BY <1>7 DEF FlushBegin, W!Push
    <2>2. /\ Len(workq') = Len(workq) + 1 /\ DOMAIN workq' = DOMAIN workq \cup {Len(workq) + 1}
          /\ \A i \in DOMAIN workq : workq'[i] = workq[i]
      BY <1>0, <2>1
    <2> QED
      BY <1>6, <2>1, <2>2 DEF ResetPlace
  <1>8. ASSUME NEW kind \in Kinds, QueueWork(kind)
        PROVE  ResetPlace'
    <2>0. PICK w \in Nat : w = Len(kinds) + 1
      BY PlacedIsQueued
    <2>1. api = "running" /\ api' = api
      BY <1>8, <2>0, Newest
    <2>2. ASSUME NEW q \in Seq(WorkCmds \cup {NoCmd}), NEW c \in WorkCmds, c.op # "reset",
                 \A i \in DOMAIN q : q[i].op # "reset"
          PROVE  \A i \in DOMAIN Append(q, c) : Append(q, c)[i].op # "reset"
      <3>1. /\ DOMAIN Append(q, c) = DOMAIN q \cup {Len(q) + 1} /\ Append(q, c)[Len(q) + 1] = c
            /\ \A i \in DOMAIN q : Append(q, c)[i] = q[i]
        BY <2>2
      <3> QED
        BY <2>2, <3>1
    <2>3. \A op \in {"work", "drain", "pending"} :
            Cmd(op, w) \in WorkCmds /\ Cmd(op, w).op # "reset"
      BY <1>8, <2>0, Newest, CommandsMade, CommandMade
    <2>4. CASE \E op \in {"work", "drain", "pending"} : workq' = Append(workq, Cmd(op, w))
      BY <1>0, <1>6, <2>1, <2>2, <2>3, <2>4 DEF ResetPlace
    <2>5. CASE workq' = Append(Append(workq, Cmd("work", w)), Cmd("drain", 0))
      <3> DEFINE first == Cmd("work", w)
                 second == Cmd("drain", 0)
                 longer == Append(workq, first)
      <3>1. first \in WorkCmds /\ first.op # "reset" /\ second \in WorkCmds /\ second.op # "reset"
        BY <2>3, CommandsMade, CommandMade
      <3> HIDE DEF first, second
      <3>2. longer \in Seq(WorkCmds \cup {NoCmd})
        BY <1>0, <3>1
      <3>3. \A i \in DOMAIN longer : longer[i].op # "reset"
        BY <1>0, <1>6, <2>1, <2>2, <3>1
      <3> HIDE DEF longer
      <3>4. \A i \in DOMAIN Append(longer, second) : Append(longer, second)[i].op # "reset"
        BY <2>2, <3>1, <3>2, <3>3
      <3>5. workq' = Append(longer, second)
        BY <2>5 DEF first, second, longer
      <3> QED
        BY <3>4, <3>5 DEF ResetPlace
    <2>6. CASE workq' = workq
      BY <1>6, <2>1, <2>6 DEF ResetPlace
    <2> QED
      BY <1>8, <2>0, <2>4, <2>5, <2>6, Newest
  <1>9. CASE TakeTask
    <2>1. /\ workq # <<>> /\ workq' = Tail(workq) /\ api' = api
      BY <1>9 DEF TakeTask, W!Take, apiVars
    <2>2. /\ Len(workq) \in Nat /\ DOMAIN workq = 1 .. Len(workq) /\ DOMAIN workq' = 1 .. Len(workq) - 1
          /\ Len(workq') = Len(workq) - 1
          /\ \A i \in DOMAIN workq' : workq'[i] = workq[i + 1] /\ i + 1 \in DOMAIN workq
      BY <1>0, <2>1
    <2>3. ASSUME NEW i \in DOMAIN workq', workq'[i].op = "reset"
          PROVE  Stopping \/ (api = "flushWork" /\ i = Len(workq'))
      <3>1. Stopping \/ (api = "flushWork" /\ i + 1 = Len(workq))
        BY <2>2, <2>3 DEF ResetPlace
      <3> QED
        BY <2>2, <2>3, <3>1
    <2> QED
      BY <2>1, <2>3 DEF ResetPlace, Stopping
  <1>10. CASE DoWork \/ DecodeFrame \/ Drain \/ PendingTask
    BY <1>2, <1>10, GoesOn DEF Stopping
  <1>11. CASE Reset \/ Waiting
    <2>1. UNCHANGED <<api, workq>>
      BY <1>11, WaitingLeaves DEF Reset, EndTask, W!Finish, apiVars, workQueue
    <2> QED
      BY <1>2, <2>1 DEF Stopping
  <1> QED
    BY <1>3, <1>4, <1>5, <1>7, <1>8, <1>9, <1>10, <1>11 DEF Next, Working, Flush, Stop

LEMMA ResetTimeStep ==
    ASSUME "start" \notin MayFail, DistinctTimes, Base, Ending, ResetPlace, ResetTime, Next
    PROVE  ResetTime'
  <1> USE DEF Base
  <1>1. CASE at' # "reset"
    BY <1>1 DEF ResetTime
  <1>2. CASE at = "reset" /\ pending' \subseteq pending /\ UNCHANGED <<at, workq, api>>
    BY <1>2 DEF ResetTime, Stopping
  <1>3. CASE Start \/ StopPending \/ StopWaiting
    BY <1>1, <1>3, AtTask, CallsLeave DEF workVars, Stop
  <1>4. CASE StartFails
    BY <1>4 DEF StartFails
  <1>5. CASE FlushBegin
    <2>1. api = "running" /\ UNCHANGED <<at, pending>>
      BY <1>5 DEF FlushBegin, workVars, listVars
    <2> QED
      BY <2>1 DEF ResetTime, Stopping, FlushApis
  <1>6. CASE FlushWorking \/ FlushWaiting \/ FlushEnd
    BY <1>6 DEF FlushWorking, FlushWaiting, FlushEnd, ResetTime, Stopping, FlushApis, workQueue,
                workVars, listVars
  <1>7. CASE FlushCollect
    BY <1>7 DEF FlushCollect, ResetTime
  <1>8. CASE StopJoined \/ \E abort \in BOOLEAN : StopWorking(abort)
    <2>1. Stopping'
      BY <1>8 DEF StopJoined, StopWorking, Stopping
    <2> QED
      BY <2>1 DEF ResetTime
  <1>9. CASE \E kind \in Kinds : QueueWork(kind)
    <2>1. api = "running" /\ UNCHANGED <<api, at, pending>>
      BY <1>9 DEF QueueWork, workVars, listVars
    <2> QED
      BY <2>1 DEF ResetTime, Stopping, FlushApis
  <1>10. CASE TakeTask
    <2>1. /\ workq # <<>> /\ workq' = Tail(workq) /\ api' = api /\ task' = Head(workq)
          /\ workq \in Seq(WorkCmds \cup {NoCmd}) /\ task' \in WorkCmds \cup {NoCmd}
          /\ at' = (IF task' = NoCmd THEN "idle" ELSE task'.op)
      BY <1>10, CommandsTaken DEF TakeTask, W!Take, apiVars, TypeOK, WorkTypes
    <2>2. CASE task'.op = "reset"
      <3>1. /\ 1 \in DOMAIN workq /\ workq[1].op = "reset" /\ (Len(workq) = 1 => workq' = <<>>)
        BY <2>1, <2>2
      <3>2. Stopping \/ (api = "flushWork" /\ workq' = <<>>)
        BY <3>1 DEF ResetPlace
      <3> QED
        BY <2>1, <3>2 DEF ResetTime, Stopping, FlushApis
    <2>3. CASE task'.op # "reset"
      BY <1>1, <2>1, <2>3, CommandFields
    <2> QED
      BY <2>2, <2>3
  <1>11. CASE DoWork \/ DecodeFrame \/ Drain \/ PendingTask
    BY <1>1, <1>11, GoesOn
  <1>12. CASE Reset
    BY <1>1, <1>12 DEF Reset, EndTask, Goto
  <1>13. CASE Waiting
    BY <1>1, <1>2, <1>13, WaitingLeaves, StaysOnWay DEF apiVars, workQueue, workVars
  <1> QED
    BY <1>3, <1>4, <1>5, <1>6, <1>7, <1>8, <1>9, <1>10, <1>11, <1>12, <1>13
    DEF Next, Working, Flush, Stop

LEMMA OnTheirWayFrame ==
    ASSUME OnTheirWay, ~Stopping, ~Cleared, pending' \subseteq pending, eos' = eos,
           \A w \in pending' : w \in fed \cup Synced => w \in fed' \cup Synced',
           InWork \cap pending' \subseteq fed' \cup Synced' \cup InWork', Ends' \subseteq Ends
    PROVE  OnTheirWay'
  BY DEF OnTheirWay

LEMMA OnTheirWayCalls ==
    ASSUME "start" \notin MayFail, DistinctTimes, Base, Ending, OnTheirWay,
           Start \/ StartFails \/ Flush \/ Stop \/ \E kind \in Kinds : QueueWork(kind)
    PROVE  OnTheirWay'
  <1> USE DEF Base
  <1>0. UNCHANGED <<task, hold, at>>
    BY CallsLeave DEF workVars
  <1>1. CASE pending' = {}
    BY <1>1 DEF OnTheirWay
  <1>2. CASE Start
    <2>1. pending' = pending /\ api = "stopped"
      BY <1>2 DEF Start, listVars
    <2> QED
      BY <1>1, <2>1 DEF Ending
  <1>3. CASE StartFails
    BY <1>3 DEF StartFails
  <1>4. CASE FlushCollect \/ StopPending
    BY <1>1, <1>4 DEF FlushCollect, StopPending
  <1>5. CASE StopJoined \/ StopWaiting \/ \E abort \in BOOLEAN : StopWorking(abort)
    <2>1. Stopping'
      BY <1>5 DEF StopJoined, StopWaiting, StopWorking, Stopping
    <2> QED
      BY <2>1 DEF OnTheirWay
  <1>6. ~StopWaiting => /\ pending' \subseteq pending
                        /\ \A w \in pending' : w \in fed \cup Synced => w \in fed' \cup Synced'
    BY StaysOnWay
  <1>7. CASE FlushWorking \/ FlushWaiting \/ FlushEnd
    <2>1. /\ api \in FlushApis /\ api' \in FlushApis /\ UNCHANGED <<workq, eos>>
      BY <1>7 DEF FlushWorking, FlushWaiting, FlushEnd, FlushApis, workQueue
    <2>2. ~Stopping /\ ~StopWaiting
      BY <2>1 DEF Stopping, StopWaiting, FlushApis
    <2>3. CASE Cleared
      BY <1>0, <2>1, <2>3 DEF Cleared, OnTheirWay
    <2>4. CASE ~Cleared
      <3>1. Ends' \subseteq Ends /\ InWork' = InWork
        BY <1>0, <2>1, CommandsKept
      <3> QED
        BY <1>6, <2>1, <2>2, <2>4, <3>1, OnTheirWayFrame
    <2> QED
      BY <2>3, <2>4
  <1>8. CASE FlushBegin
    <2>1. /\ api = "running" /\ eos' = eos /\ workq' = Append(workq, Cmd("reset", 0))
      BY <1>8 DEF FlushBegin, W!Push
    <2>2. ~Stopping /\ ~StopWaiting /\ ~Cleared
      BY <2>1 DEF Stopping, StopWaiting, FlushApis, Cleared
    <2>3. Cmd("reset", 0) \in WorkCmds /\ Cmd("reset", 0).op = "reset"
      BY CommandsMade, CommandMade
    <2>4. Ends' \subseteq Ends /\ InWork' = InWork
      BY <1>0, <2>1, <2>3, CommandsPushed
    <2> QED
      BY <1>6, <2>1, <2>2, <2>4, OnTheirWayFrame
  <1>9. ASSUME NEW kind \in Kinds, QueueWork(kind)
        PROVE  OnTheirWay'
    <2>1. PICK w \in Nat : w = Len(kinds) + 1
      BY PlacedIsQueued
    <2>2. /\ w \in Works /\ api = "running" /\ pending' = pending
      BY <1>9, <2>1, Newest
    <2>3. ~Stopping /\ ~StopWaiting /\ ~Cleared
      BY <2>2 DEF Stopping, StopWaiting, FlushApis, Cleared
    <2>4. InWork' = InWork
      BY <1>0 DEF InWork
    <2>5. CASE eos = FALSE
      <3>1. \A v \in pending : v \in fed \cup Synced \cup InWork
        BY <2>3, <2>5 DEF OnTheirWay
      <3> QED
        BY <1>6, <2>2, <2>3, <2>4, <3>1 DEF OnTheirWay
    <2>6. CASE eos = TRUE
      <3>1. \/ UNCHANGED <<workq, eos>>
            \/ eos' = eos /\ workq' = Append(workq, Cmd("pending", w))
        BY <1>9, <2>1, <2>6, Newest
      <3>2. Cmd("pending", w) \in WorkCmds /\ Cmd("pending", w).op = "pending"
        BY <2>2, CommandsMade, CommandMade
      <3>3. Ends' \subseteq Ends /\ eos' = eos
        BY <1>0, <3>1, <3>2, CommandsKept, CommandsPushed
      <3> QED
        BY <1>6, <2>2, <2>3, <2>4, <3>3, OnTheirWayFrame
    <2> QED
      BY <2>5, <2>6 DEF TypeOK, CallTypes
  <1> QED
    BY <1>2, <1>3, <1>4, <1>5, <1>7, <1>8, <1>9 DEF Flush, Stop

\* When DoWork ends, the frame of its work is expected, or the work is no longer pending.
LEMMA TaskDone ==
    ASSUME Base, TasksKinds, NoTwins, Inited, Expected, task' = NoCmd,
           DoWork \/ DecodeFrame \/ Drain \/ PendingTask
    PROVE  InWork \cap pending' \subseteq fed' \cup Synced'
  <1> USE DEF Base
  <1>1. InWork \subseteq {task.work} /\ (task.op # "work" => InWork = {})
    BY DEF InWork
  <1>2. task # NoCmd
    <2>1. at # "idle"
      BY GoesOn
    <2> QED
      BY <2>1 DEF TypeOK, WorkTypes
  <1>3. CASE WorkFlushed \/ AppendOnly
    <2>1. hold \in Works /\ hold = task.work /\ pending' = pending
      BY <1>3, InHand, CommandFields DEF WorkFlushed, AppendOnly, listVars
    <2>2. hold \notin pending
      <3>1. WorkPlaces[2] \cap WorkPlaces[3] = {}
        BY Disjoint
      <3> QED
        BY <2>1, <3>1, PlacesNamed, CommandFields DEF Named, Holding
    <2> QED
      BY <1>1, <2>1, <2>2
  <1>4. CASE Settle
    <2>1. /\ at = "settle" /\ task.op = "work" /\ UNCHANGED <<fed, waitq, job, found>>
      BY <1>4, InHand DEF Settle, waitVars, hwVars
    <2>2. kinds[task.work] \in {"frame", "frameEos", "part"}
      BY <2>1 DEF TasksKinds, InWork
    <2>3. CASE task.work \in pending'
      <3>1. /\ outcome = "expect" /\ kinds[task.work] # "part" /\ task.work \in pending
        BY <1>4, <2>3 DEF Settle
      <3>2. HasFrame(task.work)
        BY <2>2, <3>1 DEF HasFrame
      <3>3. task.work \in fed \cup Synced
        BY <2>1, <3>1, <3>2 DEF Expected
      <3> QED
        BY <1>1, <2>1, <3>3, SyncedKept
    <2> QED
      BY <1>1, <2>3
  <1>5. CASE PendingTask
    BY <1>1, <1>5, InHand DEF PendingTask
  <1>6. CASE DrainNothing
    <2>1. task.op # "work"
      BY <1>6 DEF DrainNothing, Inited, Called
    <2> QED
      BY <1>1, <2>1
  <1>7. CASE DrainWait
    <2>1. task.op # "work"
      BY <1>2, <1>7 DEF DrainWait, workQueue
    <2> QED
      BY <1>1, <2>1
  <1>8. CASE WorkBegin \/ AppendPending \/ InitFails \/ InitDone
    BY <1>2, <1>8 DEF WorkBegin, AppendPending, InitFails, InitDone, workQueue
  <1>9. CASE DecodeFrame
    BY <1>2, <1>9 DEF DecodeFrame, AllocFails, AllocDone, Gate, CallBuffers, CallOutputs, CallDrained,
                      CallBusy, CallFails, CallChanges, Count, workQueue
  <1>10. CASE DrainFlushed \/ DrainBegin \/ DrainEos \/ Reinit
    BY <1>2, <1>10 DEF DrainFlushed, DrainBegin, DrainEos, Reinit, workQueue
  <1> QED
    BY <1>3, <1>4, <1>5, <1>6, <1>7, <1>8, <1>9, <1>10 DEF DoWork, Drain

LEMMA OnTheirWayStep ==
    ASSUME "start" \notin MayFail, DistinctTimes, Base, Ending, TasksKinds, LaterLater, NoTwins, Inited,
           Expected, ResetTime, OnTheirWay, Next
    PROVE  OnTheirWay'
  <1> USE DEF Base
  <1>1. CASE Start \/ StartFails \/ Flush \/ Stop \/ \E kind \in Kinds : QueueWork(kind)
    BY <1>1, OnTheirWayCalls
  <1>2. CASE TakeTask
    <2>1. /\ Ends' = Ends /\ InWork = {} /\ workq # <<>>
          /\ UNCHANGED <<eos, pending, fed, waitq, job, found, api>>
      BY <1>2, CommandsTaken DEF TakeTask, apiVars, listVars, hwVars, waitVars
    <2>2. Stopping' = Stopping /\ ~Cleared /\ Synced' = Synced
      BY <2>1, SyncedKept DEF Stopping, Cleared
    <2>3. CASE Stopping
      BY <2>2, <2>3 DEF OnTheirWay
    <2>4. CASE ~Stopping
      BY <2>1, <2>2, <2>4, OnTheirWayFrame
    <2> QED
      BY <2>3, <2>4
  <1>3. CASE DoWork \/ DecodeFrame \/ Drain \/ PendingTask
    <2>1. /\ UNCHANGED <<api, eos, workq>> /\ at # "idle" /\ (hold' = hold \/ hold' = 0)
          /\ (task' = task \/ task' = NoCmd)
      BY <1>3, GoesOn
    <2>2. Stopping' = Stopping /\ ~Cleared
      BY <2>1 DEF Stopping, Cleared
    <2>3. Ends' \subseteq Ends /\ (task' = task => InWork' = InWork)
      BY <2>1, CommandsKept
    <2>4. CASE Stopping
      BY <2>2, <2>4 DEF OnTheirWay
    <2>5. CASE ~Stopping /\ Reinit
      <3>1. pending' \subseteq {task.work} /\ task' = task /\ task.op = "work"
        BY <2>5, InHand DEF Reinit, workQueue
      <3>2. pending' \subseteq InWork'
        BY <2>3, <3>1 DEF InWork
      <3> QED
        BY <3>2 DEF OnTheirWay
    <2>6. CASE ~Stopping /\ ~Reinit
      <3>1. fed \cup Synced \subseteq fed' \cup Synced'
        BY <1>3, <2>6, FedOrSynced
      <3>2. InWork \cap pending' \subseteq fed' \cup Synced' \cup InWork'
        <4>1. CASE task' = task
          BY <2>3, <4>1
        <4>2. CASE task' = NoCmd
          BY <1>3, <4>2, TaskDone
        <4> QED
          BY <2>1, <4>1, <4>2
      <3>3. CASE pending' \subseteq pending
        BY <2>1, <2>2, <2>3, <2>6, <3>1, <3>2, <3>3, OnTheirWayFrame
      <3>4. CASE AppendPending
        <4>1. /\ pending' = pending \cup {hold} /\ task' = task /\ hold = task.work
              /\ task.op = "work"
          BY <3>4, InHand, CommandFields DEF AppendPending, AddPending, workQueue
        <4>2. hold \in InWork'
          BY <2>3, <4>1 DEF InWork
        <4> QED
          BY <2>1, <2>2, <2>3, <2>6, <3>1, <3>2, <4>1, <4>2 DEF OnTheirWay
      <3>5. CASE PendingTask
        <4>1. /\ pending' = pending \cup {hold} /\ hold \in Works /\ task.op = "pending"
          BY <3>5, InHand DEF PendingTask, AddPending
        <4>2. hold \in Later
          BY <4>1, CommandFields DEF Later, Hand, Holding
        <4>3. eos = TRUE /\ \A e \in Ends : e < hold
          BY <4>2 DEF LaterLater
        <4> QED
          BY <2>1, <2>2, <2>3, <2>6, <3>1, <3>2, <4>1, <4>3 DEF OnTheirWay
      <3> QED
        BY <1>3, <3>3, <3>4, <3>5, SeenGrows DEF Next, Working
    <2> QED
      BY <2>4, <2>5, <2>6
  <1>4. CASE Reset
    <2>1. /\ at = "reset" /\ at' = "idle" /\ UNCHANGED <<api, workq, pending>>
      BY <1>4 DEF Reset, EndTask, W!Finish, Goto, apiVars, listVars
    <2> QED
      BY <2>1 DEF ResetTime, OnTheirWay, Stopping, Cleared
  <1>5. CASE Waiting
    <2>1. UNCHANGED <<api, eos, workq, task, hold, at>>
      BY <1>5, WaitingLeaves DEF workQueue, workVars, apiVars
    <2>2. /\ Ends' \subseteq Ends /\ InWork' = InWork /\ Stopping' = Stopping
      BY <2>1, CommandsKept DEF Stopping
    <2>3. CASE Stopping \/ Cleared
      BY <2>1, <2>3 DEF Stopping, Cleared, OnTheirWay
    <2>4. CASE ~Stopping /\ ~Cleared
      <3>1. /\ pending' \subseteq pending
            /\ \A w \in pending' : w \in fed \cup Synced => w \in fed' \cup Synced'
        <4>1. ~StopWaiting
          BY <2>4 DEF StopWaiting, Stopping
        <4> QED
          BY <1>5, <4>1, StaysOnWay
      <3> QED
        BY <2>1, <2>2, <2>4, <3>1, OnTheirWayFrame
    <2> QED
      BY <2>3, <2>4
  <1> QED
    BY <1>1, <1>2, <1>3, <1>4, <1>5 DEF Next, Working

-----------------------------------------------------------------------------
\* What has come back or is on its last steps in the waiting thread; the works before an end of
\* stream in the waiting queue are among them, or in the queue before it.
Done == back \cup dropped \cup flushed
Gone == Done \cup Matched \cup EosInHand \cup (IF found = "sync" THEN {job.work} ELSE {})
Behind(q, i, w) == \E k \in 1 .. i - 1 : q[k].work = w
EndsInOrder == \/ Stopping
               \/ \A i \in DOMAIN waitq : waitq[i].op = "eos" =>
                    \A w \in 1 .. waitq[i].work - 1 : w \in Gone \/ Behind(waitq, i, w)

LEMMA GoneGrows ==
    ASSUME DistinctTimes, Base, Known, Next
    PROVE  Gone \subseteq Gone'
  <1> USE DEF Base
  <1>0. Done \subseteq Done'
    BY SeenGrows DEF Done
  <1>1. CASE UNCHANGED <<job, found, match>>
    BY <1>0, <1>1 DEF Gone, Matched, EosInHand
  <1>2. CASE \/ Start \/ StartFails \/ Flush \/ Stop \/ \E kind \in Kinds : QueueWork(kind)
             \/ Working
    BY <1>1, <1>2, CallsLeave, GoesOn DEF Working, TakeTask, Reset, waitVars
  <1>3. CASE TakeJob
    <2>1. job = NoCmd /\ match' = match
      BY <1>3 DEF TakeJob, V!Take
    <2>2. EosInHand = {} /\ found # "sync"
      BY <2>1, CommandFields DEF EosInHand, TypeOK, WaitTypes
    <2> QED
      BY <1>0, <2>1, <2>2 DEF Gone, Matched
  <1>4. CASE EosReturned
    <2>1. job.work \in back' /\ UNCHANGED <<found, match>> /\ found # "sync"
      BY <1>4 DEF EosReturned, TypeOK, WaitTypes
    <2> QED
      BY <1>0, <2>1 DEF Gone, Done, Matched, EosInHand
  <1>5. CASE WaitWorkFinds
    <2> DEFINE same == { p \in pending : TimeStamp[p] = TimeStamp[job.work] }
    <2>1. /\ found = "sync" /\ job' = job /\ match = 0 /\ UNCHANGED <<back, dropped, flushed>>
          /\ match' = IF same = {} THEN 0 ELSE CHOOSE p \in same : \A q \in same : p <= q
      BY <1>5 DEF WaitWorkFinds, TaskPlaces, HoldsMatch, TypeOK, WaitTypes, listVars, clientVars
    <2>2. job.op = "wait" /\ job.work \in Works /\ pending \subseteq Works
      BY <2>1, CommandFields DEF TypeOK, WaitTypes, DataTypes
    <2>3. \A p \in same : p = job.work
      BY <2>2 DEF DistinctTimes
    <2>4. same # {} => match' \in same
      <3>1. same \in SUBSET pending
        OBVIOUS
      <3> HIDE DEF same
      <3> QED
        BY <2>1, <3>1, FirstOfSame
    <2>5. job.work \in pending => match' = job.work
      BY <2>2, <2>3, <2>4
    <2>6. job.work \in pending \cup Done
      <3>1. job.work \in Seen
        BY <2>1 DEF Known, Synced
      <3> QED
        BY <2>1, <2>2, <3>1, CommandFields DEF Seen, Done, Matched
    <2>7. job.work \in Matched' \cup Done'
      BY <1>0, <2>2, <2>5, <2>6, CommandFields DEF Matched
    <2>8. Gone \subseteq Done \cup {job.work}
      BY <2>1, <2>2 DEF Gone, Matched, EosInHand
    <2>9. Matched' \cup Done' \subseteq Gone'
      BY DEF Gone
    <2> QED
      BY <1>0, <2>7, <2>8, <2>9
  <1>6. CASE WaitWorkNotifies
    <2>1. /\ back' = back \cup {match} /\ found = "notify" /\ job' = job /\ found' = "count"
      BY <1>6 DEF WaitWorkNotifies
    <2>2. job.op = "wait"
      BY <2>1 DEF TypeOK, WaitTypes
    <2> QED
      BY <1>0, <2>1, <2>2 DEF Gone, Done, Matched, EosInHand
  <1>7. CASE WaitWorkCounts
    <2>1. /\ found = "count" /\ match' = match
      BY <1>7 DEF WaitWorkCounts
    <2>2. job.op = "wait"
      BY <2>1 DEF TypeOK, WaitTypes
    <2> QED
      BY <1>0, <2>1, <2>2 DEF Gone, Matched, EosInHand
  <1> QED
    BY <1>2, <1>3, <1>4, <1>5, <1>6, <1>7 DEF Next, Waiting

\* When a Drain pushes its end of stream, the works before it have come back or are in the waiting
\* queue: the hardware has no frame left.
LEMMA EosBehindAll ==
    ASSUME Base, InTurn, OnTheirWay, Dry, ~Stopping, at = "drainEos", hold # 0,
           NEW w \in 1 .. hold - 1
    PROVE  w \in Gone \/ \E k \in DOMAIN waitq : waitq[k].work = w
  <1> USE DEF Base
  <1>1. hold \in Works /\ hold \in Nat /\ task.op = "drain" /\ Holding = {hold}
    BY InHand, CommandFields DEF DrainPlaces, Holding
  <1>2. w \in Nat /\ w < hold
    BY <1>1
  <1>3. PICK i \in 1 .. 9 : w \in WorkPlaces[i]
    <2>1. hold \in WorkPlaces[2]
      BY <1>1, PlacesNamed DEF Named
    <2>2. hold \in 1 .. Len(kinds) /\ Len(kinds) \in Nat
      BY <2>1, PlacedIsQueued
    <2>3. w \in 1 .. Len(kinds)
      BY <1>1, <2>2
    <2> QED
      BY <2>3, PlacedIsQueued
  <1>4. i # 1
    <2>1. ASSUME w \in WorksOf(workq)
          PROVE  FALSE
      <3>1. hold < w
        BY <1>1, <2>1 DEF InTurn
      <3> QED
        BY <1>1, <1>2, <3>1
    <2> QED
      BY <1>3, <2>1, PlacesNamed DEF Named
  <1>5. i # 2
    BY <1>1, <1>2, <1>3, PlacesNamed DEF Named
  <1>6. CASE i = 3
    <2>1. w \in pending
      BY <1>3, <1>6, PlacesNamed DEF Named
    <2>2. hold \in Ends
      BY <1>1 DEF Ends, Hand
    <2>3. fed = {} /\ InWork = {} /\ ~Cleared
      BY <1>1 DEF Dry, InWork, Cleared
    <2>4. \/ w \in fed \cup Synced \cup InWork
          \/ \A e \in Ends : e < w
      BY <2>1, <2>3 DEF OnTheirWay
    <2>5. w \in Synced
      <3>1. ~(\A e \in Ends : e < w)
        <4>1. ~(hold < w)
          BY <1>1, <1>2
        <4> QED
          BY <2>2, <4>1
      <3> QED
        BY <2>3, <2>4, <3>1
    <2> QED
      BY <2>5 DEF Synced, Ops, Gone
  <1>7. CASE i = 4
    <2>1. w \in WorksOf(waitq)
      BY <1>3, <1>7, PlacesNamed DEF Named
    <2> QED
      BY <2>1 DEF WorksOf
  <1>8. CASE i \in {5, 6, 7, 8, 9}
    <2>1. w \in EosInHand \cup Matched \cup flushed \cup back \cup dropped
      BY <1>3, <1>8, PlacesNamed DEF Named
    <2> QED
      BY <2>1 DEF Gone, Done
  <1> QED
    BY <1>4, <1>5, <1>6, <1>7, <1>8

LEMMA EndsInOrderStep ==
    ASSUME "start" \notin MayFail, DistinctTimes, Base, Ending, InTurn, Known, Dry, OnTheirWay,
           EndsInOrder, Next
    PROVE  EndsInOrder'
  <1> USE DEF Base
  <1>0. Gone \subseteq Gone' /\ waitq \in Seq(WaitCmds \cup {NoCmd})
    BY GoneGrows DEF TypeOK, WaitTypes
  <1>1. CASE waitq' = waitq /\ (Stopping => Stopping')
    BY <1>0, <1>1 DEF EndsInOrder, Behind
  <1>2. ASSUME Stopping \/ (Stopping' <=> Stopping), NEW c \in WaitCmds,
               waitq' = Append(waitq, c), Stopping => Stopping',
               c.op = "eos" => Stopping \/ \A w \in 1 .. c.work - 1 :
                    w \in Gone \/ \E k \in DOMAIN waitq : waitq[k].work = w
        PROVE  EndsInOrder'
    <2> SUFFICES ASSUME ~Stopping, NEW i \in DOMAIN waitq', waitq'[i].op = "eos",
                        NEW w \in 1 .. waitq'[i].work - 1
                 PROVE  w \in Gone' \/ Behind(waitq', i, w)
      BY <1>2 DEF EndsInOrder
    <2>1. /\ Len(waitq) \in Nat /\ DOMAIN waitq = 1 .. Len(waitq)
          /\ DOMAIN waitq' = 1 .. Len(waitq) + 1 /\ waitq'[Len(waitq) + 1] = c
          /\ \A k \in DOMAIN waitq : waitq'[k] = waitq[k]
      BY <1>0, <1>2
    <2>2. CASE i \in DOMAIN waitq
      <3>1. w \in Gone \/ Behind(waitq, i, w)
        BY <2>1, <2>2 DEF EndsInOrder
      <3>2. \A k \in 1 .. i - 1 : k \in DOMAIN waitq
        BY <2>1, <2>2
      <3> QED
        BY <1>0, <2>1, <3>1, <3>2 DEF Behind
    <2>3. CASE i = Len(waitq) + 1
      <3>1. w \in Gone \/ \E k \in DOMAIN waitq : waitq[k].work = w
        BY <1>2, <2>1, <2>3
      <3>2. \A k \in DOMAIN waitq : k \in 1 .. i - 1
        BY <2>1, <2>3
      <3> QED
        BY <1>0, <2>1, <3>1, <3>2 DEF Behind
    <2> QED
      BY <2>1, <2>2, <2>3
  <1>3. CASE Start \/ Flush \/ \E kind \in Kinds : QueueWork(kind)
    <2>1. waitq' = waitq /\ ~Stopping
      BY <1>3 DEF Start, Flush, FlushBegin, FlushWorking, FlushWaiting, FlushEnd, FlushCollect,
                  QueueWork, V!Start, waitVars, Stopping
    <2> QED
      BY <1>1, <2>1
  <1>4. CASE StartFails
    BY <1>4 DEF StartFails
  <1>5. CASE StopJoined \/ StopWaiting \/ \E abort \in BOOLEAN : StopWorking(abort)
    <2>1. Stopping'
      BY <1>5 DEF StopJoined, StopWaiting, StopWorking, Stopping
    <2> QED
      BY <2>1 DEF EndsInOrder
  <1>6. CASE StopPending
    <2>1. waitq' = <<>>
      BY <1>6 DEF StopPending, Ending, waitVars
    <2> QED
      BY <2>1 DEF EndsInOrder
  <1>7. CASE TakeTask \/ Reset \/ WaitWorkFinds \/ WaitWorkNotifies \/ WaitWorkCounts \/ EosReturned
    <2>1. waitq' = waitq /\ api' = api
      BY <1>7 DEF TakeTask, Reset, WaitWorkFinds, WaitWorkNotifies, WaitWorkCounts, EosReturned,
                  V!Finish, waitVars, apiVars
    <2> QED
      BY <1>1, <2>1 DEF Stopping
  <1>8. CASE DoWork \/ DecodeFrame \/ Drain \/ PendingTask
    <2>1. api' = api
      BY <1>8, GoesOn
    <2>2. Stopping' = Stopping
      BY <2>1 DEF Stopping
    <2>3. CASE waitq' = waitq
      BY <1>1, <2>2, <2>3
    <2>4. ASSUME NEW f \in Works, NEW reads \in BOOLEAN, CallOutputs(f, reads)
          PROVE  EndsInOrder'
      <3>1. waitq' = Append(waitq, Cmd("wait", f))
        BY <2>4 DEF CallOutputs, V!Push
      <3>2. Cmd("wait", f) \in WaitCmds /\ Cmd("wait", f).op = "wait"
        BY CommandsMade, CommandMade
      <3> QED
        BY <1>2, <2>2, <3>1, <3>2
    <2>5. CASE DrainEos
      <3>1. at = "drainEos" /\ (hold # 0 => waitq' = Append(waitq, Cmd("eos", hold)))
            /\ (hold = 0 => waitq' = waitq)
        BY <2>5 DEF DrainEos, V!Push, waitVars
      <3>2. CASE hold # 0
        <4> DEFINE c == Cmd("eos", hold)
        <4>1. c \in WaitCmds /\ c.work = hold /\ waitq' = Append(waitq, c)
          BY <3>1, <3>2, InHand, CommandsMade, CommandMade
        <4> HIDE DEF c
        <4>2. Stopping \/ \A w \in 1 .. hold - 1 :
                            w \in Gone \/ \E k \in DOMAIN waitq : waitq[k].work = w
          BY <3>1, <3>2, EosBehindAll
        <4> QED
          BY <1>2, <2>2, <4>1, <4>2
      <3> QED
        BY <2>3, <3>1, <3>2
    <2>6. CASE DoWork \/ PendingTask \/ (Drain /\ ~DrainEos)
      BY <2>3, <2>6 DEF DoWork, WorkFlushed, WorkBegin, AppendOnly, AppendPending, InitFails, InitDone,
                        Settle, PendingTask, Drain, DrainNothing, DrainFlushed, DrainBegin, DrainWait,
                        Reinit, waitVars
    <2>7. CASE AllocFails \/ AllocDone \/ Gate \/ CallBuffers \/ CallDrained \/ CallBusy \/ CallFails
               \/ CallChanges \/ Count
      BY <2>3, <2>7 DEF AllocFails, AllocDone, Gate, CallBuffers, CallDrained, CallBusy, CallFails,
                        CallChanges, Count, waitVars
    <2> QED
      BY <1>8, <2>4, <2>5, <2>6, <2>7 DEF DecodeFrame
  <1>9. CASE TakeJob
    <2>1. /\ waitq # <<>> /\ waitq' = Tail(waitq) /\ api' = api /\ job' = Head(waitq)
          /\ found' = (IF job'.op = "wait" THEN "sync" ELSE "idle")
          /\ job' \in WaitCmds \cup {NoCmd}
      BY <1>9, ListTypes DEF TakeJob, V!Take, apiVars
    <2>2. /\ Len(waitq) \in Nat /\ DOMAIN waitq = 1 .. Len(waitq) /\ DOMAIN waitq' = 1 .. Len(waitq) - 1
          /\ waitq[1] = job'
          /\ \A k \in DOMAIN waitq' : waitq'[k] = waitq[k + 1]
      BY <1>0, <2>1
    <2>3. job'.work # 0 => job'.work \in Gone'
      <3>1. job'.work # 0 => job'.op \in {"wait", "eos"}
        BY <2>1, CommandFields
      <3>2. /\ EosInHand' = (IF job'.op = "eos" THEN {job'.work} ELSE {})
            /\ Gone' = Done' \cup Matched' \cup EosInHand'
                          \cup (IF found' = "sync" THEN {job'.work} ELSE {})
        BY DEF Gone, EosInHand
      <3> QED
        BY <2>1, <3>1, <3>2
    <2> SUFFICES ASSUME ~Stopping, NEW i \in DOMAIN waitq', waitq'[i].op = "eos",
                        NEW w \in 1 .. waitq'[i].work - 1
                 PROVE  w \in Gone' \/ Behind(waitq', i, w)
      BY <2>1 DEF EndsInOrder, Stopping
    <2>4. i \in Nat /\ i + 1 \in DOMAIN waitq /\ waitq'[i] = waitq[i + 1] /\ (i + 1) - 1 = i
      BY <2>2
    <2>5. w \in Gone \/ \E k \in 1 .. i : waitq[k].work = w
      BY <2>4 DEF EndsInOrder, Behind
    <2>6. ASSUME NEW k \in 1 .. i, waitq[k].work = w
          PROVE  w \in Gone' \/ Behind(waitq', i, w)
      <3>1. w # 0
        BY <2>4
      <3>2. CASE k = 1
        BY <2>2, <2>3, <2>6, <3>1, <3>2
      <3>3. CASE k # 1
        <4>1. k - 1 \in 1 .. i - 1 /\ k - 1 \in DOMAIN waitq' /\ (k - 1) + 1 = k
          BY <2>2, <2>4, <3>3
        <4> QED
          BY <2>2, <2>6, <4>1 DEF Behind
      <3> QED
        BY <3>2, <3>3
    <2> QED
      BY <1>0, <2>5, <2>6
  <1> QED
    BY <1>3, <1>4, <1>5, <1>6, <1>7, <1>8, <1>9 DEF Next, Stop, Working, Waiting

LEMMA EosIsLastStep ==
    ASSUME Base, EndsInOrder, EosIsLast, Next
    PROVE  EosIsLast'
  <1> USE DEF Base
  <1>0. Done \subseteq Done'
    BY SeenGrows DEF Done
  <1>1. CASE job' = job /\ (Stopping => Stopping')
    BY <1>0, <1>1 DEF EosIsLast, Done
  <1>2. CASE job'.op # "eos"
    BY <1>2 DEF EosIsLast
  <1>3. CASE Start \/ StartFails \/ Flush \/ (Stop /\ ~StopPending) \/ \E kind \in Kinds : QueueWork(kind)
    <2>1. Stopping => Stopping'
      BY <1>3 DEF Start, StartFails, Flush, FlushBegin, FlushWorking, FlushWaiting, FlushEnd,
                  FlushCollect, Stop, StopWorking, StopWaiting, StopJoined, QueueWork, Stopping
    <2> QED
      BY <1>1, <1>3, <2>1, CallsLeave
  <1>4. CASE StopPending
    <2>1. job' = job /\ job = NoCmd
      BY <1>4 DEF StopPending, Joined, waitVars
    <2> QED
      BY <1>2, <2>1, CommandFields
  <1>5. CASE Working
    <2>1. UNCHANGED <<api, job>>
      BY <1>5, GoesOn DEF Working, TakeTask, Reset, apiVars, waitVars
    <2> QED
      BY <1>1, <2>1 DEF Stopping
  <1>6. CASE TakeJob
    <2>1. /\ waitq # <<>> /\ job' = Head(waitq) /\ job = NoCmd /\ api' = api
          /\ waitq \in Seq(WaitCmds \cup {NoCmd})
      BY <1>6 DEF TakeJob, V!Take, apiVars, TypeOK, WaitTypes
    <2>2. Gone = Done
      <3>1. job.op = "stop" /\ found = "idle"
        BY <2>1, CommandFields DEF TypeOK, WaitTypes
      <3>2. match = 0
        BY <3>1 DEF TaskPlaces, HoldsMatch
      <3> QED
        BY <3>1, <3>2 DEF Gone, EosInHand, Matched
    <2>3. 1 \in DOMAIN waitq /\ waitq[1] = job' /\ 1 .. 1 - 1 = {}
      BY <2>1
    <2>4. job'.op = "eos" => Stopping \/ \A w \in 1 .. job'.work - 1 : w \in Gone
      BY <2>3 DEF EndsInOrder, Behind
    <2>5. job'.op = "eos" => Stopping' \/ 1 .. job'.work - 1 \subseteq Done'
      BY <1>0, <2>1, <2>2, <2>4 DEF Stopping
    <2> QED
      BY <2>5 DEF EosIsLast, Done
  <1>7. CASE EosReturned \/ WaitWorkCounts
    BY <1>2, <1>7, CommandFields DEF EosReturned, WaitWorkCounts, V!Finish
  <1>8. CASE WaitWorkFinds \/ WaitWorkNotifies
    <2>1. job' = job /\ job.op = "wait"
      BY <1>8 DEF WaitWorkFinds, WaitWorkNotifies, TypeOK, WaitTypes
    <2> QED
      BY <1>2, <2>1
  <1> QED
    BY <1>3, <1>4, <1>5, <1>6, <1>7, <1>8 DEF Next, Waiting

-----------------------------------------------------------------------------
EosOrder == /\ InTurn /\ TasksKinds /\ LaterLater /\ NoTwins /\ Inited /\ Known
            /\ Expected /\ Dry /\ ResetPlace /\ ResetTime /\ OnTheirWay
            /\ EndsInOrder /\ EosIsLast

LEMMA EosOrderInit == ASSUME Init PROVE EosOrder
  <1>1. /\ workq = <<>> /\ waitq = <<>> /\ task = NoCmd /\ job = NoCmd /\ pending = {} /\ at = "idle"
        /\ hold = 0 /\ duplicated = {} /\ fed = {} /\ found = "idle"
    BY DEF Init, W!Init, V!Init
  <1>2. /\ Holding = {} /\ InWork = {} /\ Synced = {} /\ Later = {}
        /\ \A op : Ops(workq, op) = {}
    BY <1>1, CommandFields DEF Holding, InWork, Synced, Later, Hand, Ops
  <1>3. InTurn /\ TasksKinds /\ LaterLater /\ NoTwins
    BY <1>1, <1>2 DEF InTurn, Rising, TasksKinds, LaterLater, NoTwins
  <1>4. Inited /\ Known /\ Expected /\ Dry
    BY <1>1, <1>2 DEF Inited, Called, Known, Expected, Dry
  <1>5. ResetPlace /\ ResetTime /\ OnTheirWay /\ EndsInOrder
    BY <1>1 DEF ResetPlace, ResetTime, OnTheirWay, EndsInOrder
  <1>6. EosIsLast
    BY <1>1, CommandFields DEF EosIsLast
  <1> QED
    BY <1>3, <1>4, <1>5, <1>6 DEF EosOrder

LEMMA EosOrderStutter ==
    ASSUME TypeOK, TaskPlaces, EosOrder, UNCHANGED vars
    PROVE  EosOrder'
  <1>1. /\ UNCHANGED <<api, kinds, eos, workq, task, at, hold, outcome, waitq, job, found, match>>
        /\ UNCHANGED <<pending, duplicated, flushed, initialized, fed, back, dropped>>
    BY DEF vars, apiVars, workQueue, workVars, waitVars, listVars, hwVars, clientVars
  <1>2. /\ Ends' = Ends /\ Later' = Later /\ InWork' = InWork /\ Synced' = Synced
        /\ Ops(workq', "work") = Ops(workq, "work")
    BY <1>1, CommandsKept, SyncedKept
  <1>3. Stopping' = Stopping /\ Cleared' = Cleared /\ Gone' = Gone /\ Seen' = Seen /\ Called' = Called
    BY <1>1 DEF Stopping, Cleared, Gone, Done, Matched, EosInHand, Seen, Called
  <1>4. InTurn' /\ TasksKinds' /\ LaterLater' /\ NoTwins' /\ Inited'
    BY <1>1, <1>2, <1>3, InTurnFrame, TasksKindsFrame, LaterFrame DEF EosOrder, NoTwins, Inited
  <1>5. Known' /\ Dry' /\ ResetPlace' /\ ResetTime'
    BY <1>1, <1>2, <1>3 DEF EosOrder, Known, Dry, ResetPlace, ResetTime
  <1>6. Expected'
    BY <1>1, <1>2 DEF EosOrder, Expected, HasFrame
  <1>7. OnTheirWay' /\ EndsInOrder' /\ EosIsLast'
    BY <1>1, <1>2, <1>3 DEF EosOrder, OnTheirWay, EndsInOrder, Behind, EosIsLast
  <1> QED
    BY <1>4, <1>5, <1>6, <1>7 DEF EosOrder

LEMMA EosOrderStep ==
    ASSUME "start" \notin MayFail, "alloc" \notin MayFail, "device" \notin MayFail, DistinctTimes,
           Base, Ending, EosOrder, Next
    PROVE  EosOrder'
  <1> USE DEF EosOrder, Base
  <1>1. InTurn' /\ TasksKinds' /\ LaterLater' /\ NoTwins' /\ Inited'
    BY InTurnStep, TasksKindsStep, LaterStep, NoTwinsStep, InitedStep
  <1>2. Known' /\ Expected' /\ Dry' /\ ResetPlace' /\ ResetTime'
    BY KnownStep, ExpectedStep, DryStep, ResetPlaceStep, ResetTimeStep
  <1>3. OnTheirWay' /\ EndsInOrder' /\ EosIsLast'
    BY OnTheirWayStep, EndsInOrderStep, EosIsLastStep
  <1> QED
    BY <1>1, <1>2, <1>3

\* "eos work, should be sent after last work returned": when works have timestamps of their own, no
\* DoStart failed, and the hardware neither fails nor is without a surface (it may be slow, change
\* the resolution and refuse headers), the waiting thread takes an end of stream only when every
\* work queued before it has come back, except during a DoStop.
THEOREM EosComesLast ==
    ASSUME "start" \notin MayFail, "alloc" \notin MayFail, "device" \notin MayFail, DistinctTimes
    PROVE  Spec => []EosIsLast
  <1>1. Init => Base /\ Ending /\ EosOrder
    BY BaseInit, EndingInit, EosOrderInit
  <1>2. Base /\ Ending /\ EosOrder /\ [Next]_vars => (Base /\ Ending /\ EosOrder)'
    <2> SUFFICES ASSUME Base, Ending, EosOrder, [Next]_vars
                 PROVE  Base' /\ Ending' /\ EosOrder'
      OBVIOUS
    <2>1. Base'
      BY BaseStep
    <2>2. CASE Next
      BY <2>1, <2>2, EndingStep, EosOrderStep
    <2>3. CASE UNCHANGED vars
      <3>1. UNCHANGED <<api, workq, worker, waitq, waiter, pending>>
        BY <2>3 DEF vars, apiVars, workQueue, waitVars, listVars
      <3> QED
        BY <2>1, <2>3, <3>1, EndingFrame, EosOrderStutter DEF Base
    <2> QED
      BY <2>2, <2>3
  <1>3. EosOrder => EosIsLast
    BY DEF EosOrder
  <1> QED
    BY <1>1, <1>2, <1>3, PTL DEF Spec

=============================================================================
