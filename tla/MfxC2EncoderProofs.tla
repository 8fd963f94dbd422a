-------------------------- MODULE MfxC2EncoderProofs --------------------------
(***************************************************************************)
(* Proofs about MfxC2Encoder, for any number of works and of bitrate       *)
(* changes, and for everything that may fail.                              *)
(***************************************************************************)
EXTENDS MfxC2Encoder, WorkLists

-----------------------------------------------------------------------------
(* Type correctness, and where the work of a task is *)

\* The working thread has the work of its task in its hands until it is pending, given back
\* or sent to the waiting thread; a thread that is to pop a work has a frame for it.
OutPlaces == {"front", "pop", "push", "drainFront", "drainPop", "drainPush"}
FrontPlaces == {"pop", "push", "drainPop", "drainPush"}

ThreadPlaces ==
    \A t \in Threads : /\ at[t] \in OutPlaces => out[t] # 0
                       /\ at[t] \notin FrontPlaces => front[t] = 0

TaskPlaces ==
    /\ ThreadPlaces
    /\ task.op = "stop" => hold = 0
    /\ task.op = "update" => hold = 0 /\ at["worker"] = "update"
    /\ task.op = "work" => hold = IF at["worker"] \in {"front", "pop", "push", "count"} THEN 0
                                      ELSE task.work
    /\ task.op = "drain" => /\ at["worker"] \in DrainPlaces \ {"update"}
                            /\ hold \in {0, task.work}
                            /\ at["worker"] \in {"giveBack", "giveBackPop"} => hold = 0

LEMMA CommandFields ==
    /\ NoCmd.op = "stop" /\ NoCmd.work = 0 /\ NoCmd.frame = 0
    /\ \A c \in WorkCmds : /\ c.op \in {"work", "drain", "update"} /\ c.work \in 0 .. MaxWorks
                           /\ c.op = "work" => c.work \in Works
                           /\ c.op = "update" => c.work = 0
                           /\ c # NoCmd
    /\ \A c \in WaitCmds : /\ c.op \in {"wait", "retain", "eos"} /\ c.work \in 0 .. MaxWorks
                           /\ c.op = "eos" => c.work \in Works
                           /\ c.op = "retain" => c.work = 0
                           /\ c.op # "eos" => c.frame \in Works
                           /\ c # NoCmd
  BY ConstantsAssumption DEF WorkCmds, WaitCmds, Cmd, NoCmd, Works

LEMMA CommandMade ==
    ASSUME NEW op, NEW w, NEW f
    PROVE  Cmd(op, w, f).op = op /\ Cmd(op, w, f).work = w /\ Cmd(op, w, f).frame = f
  BY DEF Cmd

LEMMA CommandsMade ==
    /\ \A w \in Works : Cmd("work", w, 0) \in WorkCmds /\ Cmd("drain", w, 0) \in WorkCmds
    /\ Cmd("drain", 0, 0) \in WorkCmds /\ Cmd("update", 0, 0) \in WorkCmds
    /\ \A w \in 0 .. MaxWorks, f \in Works : Cmd("wait", w, f) \in WaitCmds
    /\ \A f \in Works : Cmd("retain", 0, f) \in WaitCmds /\ Cmd("eos", f, 0) \in WaitCmds
  BY DEF WorkCmds, WaitCmds

\* The places a thread can be in.
LEMMA PlaceNames ==
    /\ DrainPlaces \subseteq Places
    /\ {"idle", "begin", "tune", "call", "pend", "front", "pop", "push", "count"} \subseteq Places
    /\ "worker" \in Threads /\ "caller" \in Threads
    /\ \A t \in Threads : t \in {"worker", "caller"}
  BY DEF Places, Threads

LEMMA TypeInit == ASSUME Init PROVE TypeOK /\ TaskPlaces
  <1>1. task = NoCmd /\ job = NoCmd /\ workq = <<>> /\ waitq = <<>> /\ worker = "none"
        /\ waiter = "none" /\ at = [t \in Threads |-> "idle"]
    BY DEF Init, W!Init, V!Init
  <1>2. WorkTypes
    BY <1>1, CommandFields, ConstantsAssumption, PlaceNames DEF Init, WorkTypes
  <1>3. WaitTypes
    BY <1>1, CommandFields DEF Init, WaitTypes
  <1>4. CallTypes
    <2>1. aborting \in BOOLEAN /\ met \in BOOLEAN
      BY Zenon DEF Init
    <2>2. <<>> \in Seq(Kinds) /\ Len(<<>>) = 0
      OBVIOUS
    <2> QED
      BY <2>1, <2>2, ConstantsAssumption DEF Init, CallTypes
  <1>6. DataTypes
    <2>1. header \in BOOLEAN
      BY Zenon DEF Init
    <2>2. 0 \in 0 .. CountMod - 1 /\ <<>> \in Seq(Works)
      BY ConstantsAssumption
    <2> QED
      BY <2>1, <2>2 DEF Init, DataTypes
  <1>7. ClientTypes
    BY DEF Init, ClientTypes
  <1>5. TaskPlaces
    <2>1. \A t \in Threads : at[t] = "idle" /\ front[t] = 0
      BY <1>1 DEF Init
    <2>2. ThreadPlaces
      BY <2>1 DEF ThreadPlaces, OutPlaces
    <2> QED
      BY <1>1, <2>2, CommandFields DEF Init, TaskPlaces
  <1> QED
    BY <1>2, <1>3, <1>4, <1>5, <1>6, <1>7 DEF TypeOK

\* What a step leaves alone keeps its type.
LEMMA TypeFrame ==
    ASSUME TypeOK, TaskPlaces
    PROVE  /\ UNCHANGED apiVars => CallTypes'
           /\ UNCHANGED <<workQueue, at, out, hold, front>> => WorkTypes' /\ TaskPlaces'
           /\ UNCHANGED waitVars => WaitTypes'
           /\ UNCHANGED <<count, header, pending, hwVars, kept>> => DataTypes'
           /\ UNCHANGED clientVars => ClientTypes'
  <1> USE DEF TypeOK
  <1>1. UNCHANGED apiVars => CallTypes'
    BY DEF CallTypes, apiVars
  <1>2. UNCHANGED <<workQueue, at, out, hold, front>> => WorkTypes' /\ TaskPlaces'
    BY DEF WorkTypes, TaskPlaces, ThreadPlaces, workQueue
  <1>3. UNCHANGED waitVars => WaitTypes'
    BY DEF WaitTypes, waitVars
  <1>4. UNCHANGED <<count, header, pending, hwVars, kept>> => DataTypes'
    BY DEF DataTypes, hwVars
  <1>5. UNCHANGED clientVars => ClientTypes'
    BY DEF ClientTypes, clientVars
  <1> QED
    BY <1>1, <1>2, <1>3, <1>4, <1>5

\* What the queues, m_pendingWorks and the hardware encoder do to their lists.
LEMMA ListTypes ==
    ASSUME TypeOK
    PROVE  /\ \A c \in WorkCmds \cup {NoCmd} : Append(workq, c) \in Seq(WorkCmds \cup {NoCmd})
           /\ \A c \in WaitCmds \cup {NoCmd} : Append(waitq, c) \in Seq(WaitCmds \cup {NoCmd})
           /\ <<NoCmd>> \in Seq(WorkCmds \cup {NoCmd})
           /\ <<NoCmd>> \in Seq(WaitCmds \cup {NoCmd})
           /\ workq # <<>> => /\ Tail(workq) \in Seq(WorkCmds \cup {NoCmd})
                              /\ Head(workq) \in WorkCmds \cup {NoCmd}
           /\ waitq # <<>> => /\ Tail(waitq) \in Seq(WaitCmds \cup {NoCmd})
                              /\ Head(waitq) \in WaitCmds \cup {NoCmd}
           /\ pending # <<>> => /\ Tail(pending) \in Seq(0 .. MaxWorks)
                                /\ [pending EXCEPT ![1] = 0] \in Seq(0 .. MaxWorks)
                                /\ Head(pending) = pending[1] /\ Head(pending) \in 0 .. MaxWorks
           /\ inside # <<>> => Tail(inside) \in Seq(Works) /\ Head(inside) \in Works
           /\ \A w \in Works : /\ Append(pending, w) \in Seq(0 .. MaxWorks)
                                /\ Append(inside, w) \in Seq(Works)
  <1>1. /\ workq \in Seq(WorkCmds \cup {NoCmd}) /\ waitq \in Seq(WaitCmds \cup {NoCmd})
        /\ pending \in Seq(0 .. MaxWorks) /\ inside \in Seq(Works) /\ 0 \in 0 .. MaxWorks
        /\ Works \subseteq 0 .. MaxWorks
    BY ConstantsAssumption DEF TypeOK, WorkTypes, WaitTypes, DataTypes, Works
  <1>2. ASSUME pending # <<>>
        PROVE  [pending EXCEPT ![1] = 0] \in Seq(0 .. MaxWorks)
    <2> DEFINE S == 0 .. MaxWorks
               emptied == [pending EXCEPT ![1] = 0]
    <2>1. pending \in Seq(S) /\ 0 \in S
      BY <1>1
    <2> HIDE DEF S
    <2>2. /\ Len(pending) \in Nat /\ DOMAIN emptied = 1 .. Len(pending)
          /\ \A i \in 1 .. Len(pending) : emptied[i] \in S
      BY <2>1
    <2>3. emptied = [i \in 1 .. Len(pending) |-> emptied[i]]
      BY <2>1, <2>2
    <2> HIDE DEF emptied
    <2>4. emptied \in Seq(S)
      BY <2>2, <2>3
    <2> QED
      BY <2>4 DEF emptied, S
  <1>3. \A c \in WorkCmds \cup {NoCmd} : Append(workq, c) \in Seq(WorkCmds \cup {NoCmd})
    BY <1>1
  <1>4. \A c \in WaitCmds \cup {NoCmd} : Append(waitq, c) \in Seq(WaitCmds \cup {NoCmd})
    BY <1>1
  <1>5. /\ workq # <<>> => /\ Tail(workq) \in Seq(WorkCmds \cup {NoCmd})
                           /\ Head(workq) \in WorkCmds \cup {NoCmd}
        /\ waitq # <<>> => /\ Tail(waitq) \in Seq(WaitCmds \cup {NoCmd})
                           /\ Head(waitq) \in WaitCmds \cup {NoCmd}
    BY <1>1
  <1>6. /\ pending # <<>> => /\ Tail(pending) \in Seq(0 .. MaxWorks)
                             /\ Head(pending) = pending[1] /\ Head(pending) \in 0 .. MaxWorks
        /\ inside # <<>> => Tail(inside) \in Seq(Works) /\ Head(inside) \in Works
    <2> DEFINE S == 0 .. MaxWorks
    <2>1. pending \in Seq(S) /\ inside \in Seq(Works)
      BY <1>1
    <2> HIDE DEF S
    <2>2. pending # <<>> => Tail(pending) \in Seq(S) /\ Head(pending) = pending[1] /\ Head(pending) \in S
      BY <2>1
    <2>3. inside # <<>> => Tail(inside) \in Seq(Works) /\ Head(inside) \in Works
      BY <2>1
    <2> QED
      BY <2>2, <2>3 DEF S
  <1>7. \A w \in Works : Append(pending, w) \in Seq(0 .. MaxWorks) /\ Append(inside, w) \in Seq(Works)
    BY <1>1
  <1>8. <<NoCmd>> \in Seq(WorkCmds \cup {NoCmd}) /\ <<NoCmd>> \in Seq(WaitCmds \cup {NoCmd})
    OBVIOUS
  <1> QED
    BY <1>2, <1>3, <1>4, <1>5, <1>6, <1>7, <1>8

\* A thread goes on to another place.
LEMMA PlaceMoves ==
    ASSUME TypeOK, TaskPlaces, NEW t \in Threads, NEW place \in Places,
           at' = [at EXCEPT ![t] = place],
           out' = out \/ \E f \in 0 .. MaxWorks : out' = [out EXCEPT ![t] = f],
           front' = front \/ \E w \in 0 .. MaxWorks : front' = [front EXCEPT ![t] = w],
           place \in OutPlaces => out'[t] # 0,
           place \notin FrontPlaces => front'[t] = 0
    PROVE  /\ at' \in [Threads -> Places] /\ at'[t] = place
           /\ out' \in [Threads -> 0 .. MaxWorks] /\ front' \in [Threads -> 0 .. MaxWorks]
           /\ \A u \in Threads : u # t => at'[u] = at[u]
           /\ ThreadPlaces'
  <1>1. /\ at \in [Threads -> Places] /\ out \in [Threads -> 0 .. MaxWorks]
        /\ front \in [Threads -> 0 .. MaxWorks] /\ ThreadPlaces
    BY DEF TypeOK, WorkTypes, TaskPlaces
  <1>2. at' \in [Threads -> Places] /\ at'[t] = place
        /\ \A u \in Threads : u # t => at'[u] = at[u]
    BY <1>1
  <1>3. out' \in [Threads -> 0 .. MaxWorks] /\ \A u \in Threads : u # t => out'[u] = out[u]
    BY <1>1
  <1>4. front' \in [Threads -> 0 .. MaxWorks] /\ \A u \in Threads : u # t => front'[u] = front[u]
    BY <1>1
  <1>5. ThreadPlaces'
    BY <1>1, <1>2, <1>3, <1>4 DEF ThreadPlaces
  <1> QED
    BY <1>2, <1>3, <1>4, <1>5

LEMMA ReturnType ==
    ASSUME TypeOK, NEW w \in Works, NEW what \in {"header", "data", "bare", "nothing"}, Return(w, what),
           UNCHANGED <<mark, dropped>>
    PROVE  ClientTypes'
  <1>1. [work |-> w, what |-> what] \in [work : Works, what : {"header", "data", "bare", "nothing"}]
    OBVIOUS
  <1>2. Len(back') = Len(back) + 1 /\ Len(back) \in Nat
    BY DEF Return, TypeOK, ClientTypes
  <1> QED
    BY <1>1, <1>2 DEF Return, TypeOK, ClientTypes

\* The work in hand when the working thread is in a place of DoWork.
LEMMA InHand ==
    ASSUME TypeOK, TaskPlaces
    PROVE  /\ at["worker"] \in {"begin", "tune", "call", "pend"} =>
                task.op = "work" /\ hold = task.work /\ hold \in Works
           /\ at["worker"] \in {"front", "pop", "push", "count"} => task.op = "work" /\ hold = 0
           /\ hold # 0 => hold \in Works /\ hold = task.work
           /\ at["worker"] = "idle" => task = NoCmd /\ hold = 0
           /\ at["worker"] # "idle" => task \in WorkCmds
           /\ \A t \in Threads : at[t] \in OutPlaces => out[t] \in Works
  <1> USE CommandFields, ConstantsAssumption DEF TypeOK, WorkTypes, TaskPlaces, ThreadPlaces
  <1>1. task \in WorkCmds \/ task = NoCmd
    OBVIOUS
  <1>2. at["worker"] \notin DrainPlaces \cup {"idle"} => task.op = "work"
    BY <1>1 DEF DrainPlaces
  <1>3. \A t \in Threads : at[t] \in OutPlaces => out[t] \in Works
    BY DEF Works
  <1>4. hold # 0 => hold \in Works /\ hold = task.work
    <2>1. hold # 0 => hold = task.work
      BY <1>1
    <2>2. hold # 0 => hold \in Works
      BY DEF Works
    <2> QED
      BY <2>1, <2>2
  <1>5. at["worker"] \in {"begin", "tune", "call", "pend", "front", "pop", "push", "count"} =>
            task.op = "work"
    BY <1>2 DEF DrainPlaces
  <1>6. at["worker"] \in {"begin", "tune", "call", "pend"} => hold = task.work /\ hold \in Works
    BY <1>1, <1>5
  <1>7. at["worker"] \in {"front", "pop", "push", "count"} => hold = 0
    BY <1>5
  <1> QED
    BY <1>1, <1>3, <1>4, <1>5, <1>6, <1>7

\* The steps of the calls.
LEMMA TypeCalls ==
    ASSUME TypeOK, TaskPlaces,
           \/ Start \/ StartFails \/ Configure \/ ConfigureEnds
           \/ \E kind \in Kinds : QueueWork(kind)
    PROVE  TypeOK' /\ TaskPlaces'
  <1> USE DEF TypeOK, OutPlaces, FrontPlaces, ThreadPlaces
  <1>1. CASE Start \/ StartFails
    <2>1. WorkTypes' /\ TaskPlaces'
      BY <1>1 DEF Start, StartFails, W!Start, workQueue, WorkTypes, TaskPlaces
    <2>2. WaitTypes'
      BY <1>1 DEF Start, StartFails, V!Start, waitVars, WaitTypes
    <2>3. header' \in BOOLEAN
      BY <1>1, Zenon DEF Start, StartFails
    <2>4. DataTypes'
      BY <1>1, <2>3, ConstantsAssumption DEF Start, StartFails, hwVars, DataTypes
    <2>5. CallTypes' /\ ClientTypes'
      BY <1>1 DEF Start, StartFails, CallTypes, ClientTypes
    <2> QED
      BY <2>1, <2>2, <2>4, <2>5
  <1>2. ASSUME NEW kind \in Kinds, QueueWork(kind)
        PROVE  TypeOK' /\ TaskPlaces'
    <2> DEFINE w == Len(kinds) + 1
    <2>1. w \in Works
      BY <1>2 DEF QueueWork, Works, CallTypes
    <2>2. CallTypes'
      BY <1>2 DEF QueueWork, CallTypes
    <2>3. /\ UNCHANGED <<worker, task, at, out, hold, front, waitVars>>
          /\ UNCHANGED <<count, header, pending, hwVars, kept, mark, dropped>>
      BY <1>2 DEF QueueWork, W!Push, workQueue
    <2>4. workq' \in Seq(WorkCmds \cup {NoCmd})
      <3>1. CASE kind = "frameEos"
        <4>1. workq' = workq \o <<Cmd("work", w, 0), Cmd("drain", 0, 0)>>
          BY <1>2, <3>1 DEF QueueWork
        <4>2. Cmd("work", w, 0) \in WorkCmds /\ Cmd("drain", 0, 0) \in WorkCmds
          BY <2>1, CommandsMade
        <4> HIDE DEF w
        <4> QED
          BY <4>1, <4>2 DEF WorkTypes
      <3>2. CASE kind # "frameEos"
        BY <1>2, <2>1, <3>2, CommandsMade, ListTypes DEF QueueWork, WorkTypes, W!Push, workQueue
      <3> QED
        BY <3>1, <3>2
    <2>5. WorkTypes' /\ TaskPlaces'
      BY <2>3, <2>4 DEF WorkTypes, TaskPlaces
    <2>6. ClientTypes'
      <3>1. CASE Return(w, "nothing")
        BY <2>1, <2>3, <3>1, ReturnType
      <3>2. CASE UNCHANGED back
        BY <2>3, <3>2 DEF ClientTypes
      <3> QED
        BY <1>2, <3>1, <3>2 DEF QueueWork
    <2> QED
      BY <2>2, <2>3, <2>5, <2>6, TypeFrame
  <1>3. CASE Configure
    <2>1. /\ at["caller"] = "idle" /\ at' = [at EXCEPT !["caller"] = "drain"]
          /\ UNCHANGED <<workQueue, out, hold, front>>
      BY <1>3 DEF Configure, CallerFree, Goto
    <2>4. ThreadPlaces' /\ at' \in [Threads -> Places] /\ at'["caller"] = "drain"
          /\ at'["worker"] = at["worker"]
      <3>1. front["caller"] = 0
        BY <2>1, PlaceNames DEF TaskPlaces
      <3> QED
        BY <2>1, <3>1, PlaceMoves, PlaceNames DEF DrainPlaces
    <2>5. WorkTypes' /\ TaskPlaces'
      BY <2>1, <2>4 DEF WorkTypes, TaskPlaces, DrainPlaces, workQueue
    <2>2. met' \in BOOLEAN
      BY <1>3, Zenon DEF Configure
    <2>3. CallTypes'
      BY <1>3, <2>2, ConstantsAssumption DEF Configure, CallTypes
    <2> QED
      BY <1>3, <2>3, <2>5, TypeFrame DEF Configure
  <1>4. CASE ConfigureEnds
    <2>1. WorkTypes' /\ TaskPlaces'
      BY <1>4, PlaceNames, ListTypes, CommandsMade
      DEF ConfigureEnds, Goto, W!Push, WorkTypes, TaskPlaces
    <2> QED
      BY <1>4, <2>1, TypeFrame DEF ConfigureEnds
  <1> QED
    BY <1>1, <1>2, <1>3, <1>4

LEMMA TypeStop ==
    ASSUME TypeOK, TaskPlaces, Stop
    PROVE  TypeOK' /\ TaskPlaces'
  <1> USE DEF TypeOK, OutPlaces, FrontPlaces, ThreadPlaces
  <1>0. ASSUME NEW abort \in BOOLEAN
        PROVE  Destroyed(workq, abort) \subseteq Works /\ Destroyed(waitq, abort) \subseteq Works
    <2>1. WorksOf(workq) \subseteq 0 .. MaxWorks /\ WorksOf(waitq) \subseteq 0 .. MaxWorks
      BY CommandFields, ConstantsAssumption DEF WorksOf, WorkTypes, WaitTypes
    <2>2. \A w \in 0 .. MaxWorks : w # 0 => w \in Works
      BY ConstantsAssumption DEF Works
    <2>3. 0 \notin WorksOf(workq) /\ 0 \notin WorksOf(waitq)
      BY DEF WorksOf
    <2>4. WorksOf(workq) \subseteq Works /\ WorksOf(waitq) \subseteq Works
      BY <2>1, <2>2, <2>3
    <2> QED
      BY <2>4 DEF Destroyed
  <1>1. ASSUME NEW abort \in BOOLEAN, StopWorking(abort)
        PROVE  TypeOK' /\ TaskPlaces'
    <2>1. WorkTypes' /\ TaskPlaces'
      BY <1>1, ListTypes DEF StopWorking, W!Shutdown, WorkTypes, TaskPlaces
    <2>2. CallTypes' /\ ClientTypes'
      BY <1>0, <1>1 DEF StopWorking, CallTypes, ClientTypes
    <2> QED
      BY <1>1, <2>1, <2>2, TypeFrame DEF StopWorking
  <1>2. CASE StopWaiting
    <2>1. WorkTypes' /\ TaskPlaces'
      BY <1>2 DEF StopWaiting, W!Join, workQueue, WorkTypes, TaskPlaces
    <2>2. WaitTypes'
      BY <1>2, ListTypes DEF StopWaiting, V!Shutdown, WaitTypes, CallTypes
    <2>3. CallTypes' /\ ClientTypes'
      BY <1>0, <1>2 DEF StopWaiting, CallTypes, ClientTypes
    <2> QED
      BY <1>2, <2>1, <2>2, <2>3, TypeFrame DEF StopWaiting
  <1>3. CASE StopJoined
    <2>1. WaitTypes'
      BY <1>3 DEF StopJoined, V!Join, WaitTypes
    <2>2. CallTypes'
      BY <1>3 DEF StopJoined, CallTypes
    <2> QED
      BY <1>3, <2>1, <2>2, TypeFrame DEF StopJoined
  <1>4. CASE StopPending
    <2> DEFINE returned == [i \in DOMAIN pending |-> [work |-> pending[i], what |-> "nothing"]]
               Returned == [work : Works, what : {"header", "data", "bare", "nothing"}]
    <2>1. returned \in Seq(Returned)
      <3>1. /\ DOMAIN pending = 1 .. Len(pending) /\ Len(pending) \in Nat
            /\ \A i \in DOMAIN pending : pending[i] \in Works
        BY <1>4, ConstantsAssumption DEF StopPending, DataTypes, Works
      <3>2. \A i \in 1 .. Len(pending) : [work |-> pending[i], what |-> "nothing"] \in Returned
        BY <3>1
      <3> HIDE DEF Returned
      <3> QED
        BY <3>1, <3>2
    <2> HIDE DEF returned
    <2>2. back' = back \o returned
      BY <1>4 DEF StopPending, returned
    <2>3. back \in Seq(Returned) /\ mark \in 0 .. Len(back)
      BY DEF ClientTypes
    <2> HIDE DEF Returned
    <2>4. back' \in Seq(Returned) /\ Len(back') = Len(back) + Len(returned)
          /\ Len(back) \in Nat /\ Len(returned) \in Nat
      BY <2>1, <2>2, <2>3
    <2>5. mark' \in 0 .. Len(back') /\ dropped' \subseteq Works
      BY <1>4, <2>3, <2>4 DEF StopPending, ClientTypes
    <2>6. ClientTypes'
      BY <2>4, <2>5 DEF ClientTypes, Returned
    <2>7. aborting' \in BOOLEAN
      BY <1>4, Zenon DEF StopPending
    <2>8. CallTypes'
      BY <1>4, <2>7 DEF StopPending, CallTypes
    <2>9. DataTypes'
      BY <1>4 DEF StopPending, DataTypes
    <2> QED
      BY <1>4, <2>6, <2>8, <2>9, TypeFrame DEF StopPending
  <1> QED
    BY <1>1, <1>2, <1>3, <1>4 DEF Stop

LEMMA TypeDoWork ==
    ASSUME TypeOK, TaskPlaces, TakeTask \/ DoWork \/ Update
    PROVE  TypeOK' /\ TaskPlaces'
  <1> USE DEF TypeOK, OutPlaces, FrontPlaces, ThreadPlaces
  <1>1. CASE TakeTask
    <2>1. /\ task' \in WorkCmds \cup {NoCmd} /\ workq' \in Seq(WorkCmds \cup {NoCmd})
          /\ worker' \in {"up", "ended"} /\ hold' = task'.work /\ out' = out
          /\ front' = front /\ at' = [at EXCEPT !["worker"] = Begin(task'.op)]
      BY <1>1, ListTypes DEF TakeTask, W!Take, Goto
    <2>2. Begin(task'.op) \in Places /\ (Begin(task'.op) = "idle" <=> task' = NoCmd)
      BY <2>1, CommandFields DEF Begin, Places, DrainPlaces
    <2>3. hold' \in 0 .. MaxWorks
      BY <2>1, CommandFields, ConstantsAssumption
    <2>4. WorkTypes'
      BY <2>1, <2>2, <2>3, PlaceNames DEF WorkTypes
    <2>5. at' \in [Threads -> Places] /\ at'["worker"] = Begin(task'.op) /\ at'["caller"] = at["caller"]
      BY <2>1, <2>2, PlaceNames DEF WorkTypes
    <2>6. Begin(task'.op) \notin OutPlaces \cup FrontPlaces
      BY <2>1, CommandFields DEF Begin, OutPlaces, FrontPlaces
    <2>7. at["worker"] = "idle"
      BY <1>1 DEF TakeTask, W!Take, WorkTypes
    <2>8. \A t \in Threads : /\ at'[t] \in OutPlaces => out'[t] # 0
                           /\ at'[t] \notin FrontPlaces => front'[t] = 0
      BY <2>1, <2>5, <2>6, <2>7, PlaceNames DEF TaskPlaces, FrontPlaces
    <2>9. TaskPlaces'
      BY <2>1, <2>5, <2>8, CommandFields DEF TaskPlaces, Begin, DrainPlaces
    <2>10. CallTypes'
      <3>1. met' \in BOOLEAN
        BY <1>1, Zenon DEF TakeTask
      <3> QED
        BY <1>1, <3>1 DEF TakeTask, CallTypes
    <2> QED
      BY <1>1, <2>4, <2>9, <2>10, TypeFrame DEF TakeTask
  <1>2. CASE WorkFails
    <2>1. hold \in Works /\ Return(hold, "nothing") /\ hold' = 0 /\ task' = NoCmd
          /\ workq' = workq /\ worker' = worker /\ at' = [at EXCEPT !["worker"] = "idle"]
          /\ out' = out /\ front' = front /\ at["worker"] \in {"begin", "call"}
      BY <1>2, InHand DEF WorkFails, EndTask, W!Finish, Goto
    <2>2. WorkTypes' /\ TaskPlaces'
      BY <2>1, CommandFields, PlaceNames, ConstantsAssumption DEF WorkTypes, TaskPlaces
    <2>3. ClientTypes'
      BY <1>2, <2>1, ReturnType DEF WorkFails
    <2> QED
      BY <1>2, <2>2, <2>3, TypeFrame DEF WorkFails
  <1>3. CASE WorkReady \/ ApplyTunings
    <2>1. PICK place \in {"tune", "call", "drain"} : at' = [at EXCEPT !["worker"] = place]
      BY <1>3 DEF WorkReady, ApplyTunings, Goto
    <2>2. UNCHANGED <<workQueue, out, hold, front>> /\ task.op = "work" /\ hold = task.work
          /\ at["worker"] \in {"begin", "tune"}
      BY <1>3, InHand DEF WorkReady, ApplyTunings
    <2>3. WorkTypes' /\ TaskPlaces'
      BY <2>1, <2>2, PlaceNames, CommandFields DEF WorkTypes, TaskPlaces, workQueue, DrainPlaces
    <2> QED
      BY <1>3, <2>3, TypeFrame DEF WorkReady, ApplyTunings
  <1>4. ASSUME NEW outputs \in BOOLEAN, CallEncode(outputs)
        PROVE  TypeOK' /\ TaskPlaces'
    <2> DEFINE frames == Append(inside, hold)
    <2>1. hold \in Works /\ task.op = "work" /\ hold = task.work
      BY <1>4, InHand DEF CallEncode
    <2>2. frames \in Seq(Works) /\ frames # <<>>
      <3>1. inside \in Seq(Works)
        BY DEF DataTypes
      <3>2. frames \in Seq(Works) /\ Len(frames) = Len(inside) + 1 /\ Len(inside) \in Nat
        BY <2>1, <3>1
      <3> QED
        BY <3>2
    <2>3. Head(frames) \in Works /\ Tail(frames) \in Seq(Works)
      BY <2>2
    <2> HIDE DEF frames
    <2>4. /\ inside' = IF outputs THEN Tail(frames) ELSE frames
          /\ out' = [out EXCEPT !["worker"] = IF outputs THEN Head(frames) ELSE 0]
          /\ locked' = locked \cup {hold} /\ at' = [at EXCEPT !["worker"] = "pend"]
          /\ V!Push(Cmd("retain", 0, hold))
          /\ UNCHANGED <<apiVars, workQueue, hold, front, found, count, header, pending>>
          /\ UNCHANGED <<kept, clientVars>> /\ at["worker"] = "call"
      BY <1>4 DEF CallEncode, Goto, frames
    <2>5. DataTypes'
      BY <2>1, <2>2, <2>3, <2>4 DEF DataTypes
    <2>6. waitq' \in Seq(WaitCmds \cup {NoCmd}) /\ UNCHANGED <<waiter, job>>
      BY <2>1, <2>4, ListTypes, CommandsMade DEF V!Push
    <2>7. WaitTypes'
      BY <2>4, <2>6 DEF WaitTypes
    <2>8. out' \in [Threads -> 0 .. MaxWorks] /\ out'["caller"] = out["caller"]
      BY <2>3, <2>4, PlaceNames, ConstantsAssumption DEF WorkTypes, Works
    <2>9. WorkTypes' /\ TaskPlaces'
      BY <2>1, <2>4, <2>8, PlaceNames, CommandFields DEF WorkTypes, TaskPlaces, workQueue
    <2> QED
      BY <2>4, <2>5, <2>7, <2>9, TypeFrame
  <1>5. CASE AddPending
    <2>1. /\ hold \in Works /\ pending' \in Seq(0 .. MaxWorks) /\ task.op = "work" /\ hold' = 0
          /\ out' = out /\ front' = front /\ at["worker"] = "pend"
      BY <1>5, InHand, ListTypes DEF AddPending
    <2>2. \/ out["worker"] # 0 /\ UNCHANGED workQueue /\ at' = [at EXCEPT !["worker"] = "front"]
          \/ /\ workq' = workq /\ worker' = worker /\ task' = NoCmd
             /\ at' = [at EXCEPT !["worker"] = "idle"]
      BY <1>5 DEF AddPending, EndTask, W!Finish, Goto
    <2>3. WorkTypes' /\ TaskPlaces'
      <3>1. CASE at' = [at EXCEPT !["worker"] = "front"] /\ UNCHANGED workQueue /\ out["worker"] # 0
        <4>1. WorkTypes'
          <5>1. UNCHANGED <<workq, worker, task>> /\ hold' \in 0 .. MaxWorks /\ task # NoCmd
            BY <2>1, <3>1, CommandFields, ConstantsAssumption DEF workQueue
          <5> QED
            BY <2>1, <3>1, <5>1, PlaceNames DEF WorkTypes
        <4>2. at'["worker"] = "front" /\ at'["caller"] = at["caller"]
          BY <3>1 DEF WorkTypes, Threads
        <4> QED
          BY <2>1, <3>1, <4>1, <4>2, PlaceNames DEF TaskPlaces, workQueue
      <3>2. CASE task' = NoCmd /\ at' = [at EXCEPT !["worker"] = "idle"]
        BY <2>1, <2>2, <3>2, CommandFields, PlaceNames, ConstantsAssumption
        DEF WorkTypes, TaskPlaces, workQueue
      <3> QED
        BY <2>2, <3>1, <3>2
    <2>4. DataTypes'
      BY <1>5, <2>1 DEF AddPending, DataTypes, hwVars
    <2> QED
      BY <1>5, <2>3, <2>4, TypeFrame DEF AddPending
  <1>6. CASE Update
    <2>1. task.op \in {"update", "work"} /\ at["worker"] = "update"
          /\ (task.op = "update" => hold = 0) /\ (task.op = "work" => hold = task.work)
      BY <1>6, InHand, CommandFields DEF Update, TaskPlaces
    <2>2. /\ UNCHANGED <<out, hold, front>>
          /\ \/ task.op = "work" /\ UNCHANGED workQueue /\ at' = [at EXCEPT !["worker"] = "call"]
             \/ /\ task.op = "update" /\ workq' = workq /\ worker' = worker /\ task' = NoCmd
                /\ at' = [at EXCEPT !["worker"] = "idle"]
      BY <1>6, <2>1 DEF Update, EndTask, W!Finish, Goto
    <2>3. WorkTypes' /\ TaskPlaces'
      <3>1. PICK place \in {"call", "idle"} : at' = [at EXCEPT !["worker"] = place]
        BY <2>2
      <3>2. front["worker"] = 0
        BY <2>1, PlaceNames DEF TaskPlaces
      <3>3. ThreadPlaces' /\ at' \in [Threads -> Places] /\ at'["worker"] = place
            /\ at'["caller"] = at["caller"]
        BY <2>2, <3>1, <3>2, PlaceMoves, PlaceNames
      <3>4. place = "call" => task' = task /\ task.op = "work"
        BY <2>2, <3>1, <3>3, CommandFields DEF workQueue, WorkTypes
      <3>5. place = "idle" => task' = NoCmd /\ task.op = "update"
        BY <2>2, <3>1, <3>3 DEF workQueue, WorkTypes
      <3>6. WorkTypes'
        BY <2>2, <3>1, <3>3, <3>4, <3>5, CommandFields DEF WorkTypes, workQueue
      <3> HIDE DEF ThreadPlaces
      <3> QED
        BY <2>1, <2>2, <3>1, <3>3, <3>4, <3>5, <3>6, CommandFields DEF TaskPlaces
    <2>4. DataTypes'
      BY <1>6 DEF Update, DataTypes
    <2> QED
      BY <1>6, <2>3, <2>4, TypeFrame DEF Update
  <1> QED
    BY <1>1, <1>2, <1>3, <1>4, <1>5, <1>6 DEF DoWork

LEMMA TypeWaiting ==
    ASSUME TypeOK, TaskPlaces, Waiting
    PROVE  TypeOK' /\ TaskPlaces'
  <1> USE DEF TypeOK, OutPlaces, FrontPlaces, ThreadPlaces
  <1>1. CASE TakeJob
    <2>1. WaitTypes'
      BY <1>1, ListTypes, CommandFields DEF TakeJob, V!Take, WaitTypes
    <2> QED
      BY <1>1, <2>1, TypeFrame DEF TakeJob
  <1>2. CASE RetainLockedFrame
    <2>1. WaitTypes'
      BY <1>2, CommandFields DEF RetainLockedFrame, V!Finish, WaitTypes
    <2>2. job.frame \in Works
      BY <1>2, CommandFields DEF RetainLockedFrame, WaitTypes
    <2>3. DataTypes'
      BY <1>2, <2>2 DEF RetainLockedFrame, Unlock, DataTypes
    <2> QED
      BY <1>2, <2>1, <2>3, TypeFrame DEF RetainLockedFrame
  <1>3. CASE EosReturned
    <2>1. job.work \in Works
      BY <1>3, CommandFields DEF EosReturned, WaitTypes
    <2>2. ClientTypes'
      BY <1>3, <2>1, ReturnType DEF EosReturned
    <2>3. WaitTypes'
      BY <1>3, CommandFields DEF EosReturned, V!Finish, WaitTypes
    <2> QED
      BY <1>3, <2>2, <2>3, TypeFrame DEF EosReturned
  <1>4. CASE WaitWork
    <2>1. job.work \in Works
      BY <1>4, CommandFields, ConstantsAssumption DEF WaitWork, WaitTypes, Works
    <2>2. \E what \in {"header", "data", "bare", "nothing"} : Return(job.work, what)
      BY <1>4 DEF WaitWork, Given
    <2>3. ClientTypes'
      BY <1>4, <2>1, <2>2, ReturnType DEF WaitWork
    <2>4. header' \in BOOLEAN
      <3>1. header' = header \/ \E what \in Given : header' = (header \/ what = "header")
        BY <1>4 DEF WaitWork
      <3> QED
        BY <3>1, Zenon DEF DataTypes
    <2>5. DataTypes'
      BY <1>4, <2>4 DEF WaitWork, Unlock, DataTypes
    <2>6. WaitTypes'
      BY <1>4 DEF WaitWork, WaitTypes
    <2> QED
      BY <1>4, <2>3, <2>5, <2>6, TypeFrame DEF WaitWork
  <1>5. CASE WaitWorkCounts
    <2>1. count' \in 0 .. CountMod - 1
      BY <1>5, ConstantsAssumption DEF WaitWorkCounts, DataTypes
    <2>2. DataTypes'
      BY <1>5, <2>1 DEF WaitWorkCounts, DataTypes, hwVars
    <2>3. WaitTypes'
      BY <1>5, CommandFields DEF WaitWorkCounts, V!Finish, WaitTypes
    <2> QED
      BY <1>5, <2>2, <2>3, TypeFrame DEF WaitWorkCounts
  <1> QED
    BY <1>1, <1>2, <1>3, <1>4, <1>5 DEF Waiting

\* Where Drain returns to: the end of the task, or the update of the bitrate.
LEMMA DrainReturns ==
    ASSUME TypeOK, TaskPlaces, NEW t \in Threads, AfterDrain(t)
    PROVE  /\ workq' = workq /\ worker' = worker
           /\ \/ /\ t = "worker" /\ task.op = "drain" /\ task' = NoCmd
                 /\ at' = [at EXCEPT !["worker"] = "idle"]
              \/ /\ t # "worker" \/ task.op # "drain"
                 /\ task' = task
                 /\ at' = [at EXCEPT ![t] = "update"]
  BY DEF AfterDrain, EndTask, W!Finish, Goto, workQueue

LEMMA TypeDrain ==
    ASSUME TypeOK, TaskPlaces, NEW t \in Threads, Drain(t)
    PROVE  TypeOK' /\ TaskPlaces'
  <1> USE DEF TypeOK, OutPlaces, FrontPlaces, ThreadPlaces
  <1>0. t = "worker" \/ t = "caller"
    BY PlaceNames
  <1>1. CASE DrainBegin(t) \/ DrainFails(t)
    <2>1. PICK place \in {"drainEos", "drainCall", "drainFailed"} : at' = [at EXCEPT ![t] = place]
      BY <1>1 DEF DrainBegin, DrainFails, Goto
    <2>2. at[t] \in {"drain", "drainCall"} /\ UNCHANGED <<workQueue, out, hold, front>>
      BY <1>1 DEF DrainBegin, DrainFails
    <2>3. WorkTypes' /\ TaskPlaces'
      BY <1>0, <2>1, <2>2, CommandFields, PlaceNames
      DEF WorkTypes, TaskPlaces, workQueue, DrainPlaces
    <2> QED
      BY <1>1, <2>3, TypeFrame DEF DrainBegin, DrainFails
  <1>2. CASE DrainOutputs(t)
    <2>1. Head(inside) \in Works /\ inside' \in Seq(Works)
      BY <1>2, ListTypes DEF DrainOutputs
    <2>2. /\ at[t] = "drainCall" /\ UNCHANGED <<workQueue, hold, front>>
          /\ at' = [at EXCEPT ![t] = "drainFront"] /\ out' = [out EXCEPT ![t] = Head(inside)]
      BY <1>2 DEF DrainOutputs, Goto
    <2>3. Head(inside) \in 0 .. MaxWorks /\ Head(inside) # 0
      BY <2>1, ConstantsAssumption DEF Works
    <2>4. WorkTypes' /\ TaskPlaces'
      BY <1>0, <2>2, <2>3, CommandFields, PlaceNames
      DEF WorkTypes, TaskPlaces, workQueue, DrainPlaces
    <2>5. DataTypes'
      BY <1>2, <2>1 DEF DrainOutputs, DataTypes
    <2> QED
      BY <1>2, <2>4, <2>5, TypeFrame DEF DrainOutputs
  <1>3. CASE TakeFront(t)
    <2>1. Head(pending) \in 0 .. MaxWorks /\ pending' \in Seq(0 .. MaxWorks)
      BY <1>3, ListTypes DEF TakeFront
    <2>2. /\ UNCHANGED <<workQueue, out, hold>> /\ front' = [front EXCEPT ![t] = Head(pending)]
          /\ \/ at[t] = "front" /\ t = "worker" /\ at' = [at EXCEPT ![t] = "pop"]
             \/ at[t] = "drainFront" /\ at' = [at EXCEPT ![t] = "drainPop"]
      BY <1>0, <1>3 DEF TakeFront, Goto, DrainPlaces, WorkTypes
    <2> DEFINE w == Head(pending)
    <2>3. w \in 0 .. MaxWorks /\ front' = [front EXCEPT ![t] = w]
      BY <2>1, <2>2
    <2> HIDE DEF w
    <2>4. WorkTypes' /\ TaskPlaces'
      <3>1. PICK place \in {"pop", "drainPop"} : at' = [at EXCEPT ![t] = place]
        BY <2>2
      <3>2. out[t] # 0 /\ (place = "pop" => t = "worker" /\ at[t] = "front")
            /\ (place = "drainPop" => at[t] = "drainFront")
        BY <2>2, <3>1, PlaceNames DEF TaskPlaces, WorkTypes
      <3>3. /\ ThreadPlaces' /\ at' \in [Threads -> Places] /\ at'[t] = place
            /\ front' \in [Threads -> 0 .. MaxWorks] /\ \A u \in Threads : u # t => at'[u] = at[u]
        BY <2>2, <2>3, <3>1, <3>2, PlaceMoves, PlaceNames DEF DrainPlaces
      <3> HIDE DEF ThreadPlaces
      <3>4. WorkTypes'
        BY <1>0, <2>2, <3>1, <3>2, <3>3, PlaceNames DEF WorkTypes, workQueue, DrainPlaces
      <3> QED
        BY <1>0, <2>2, <3>1, <3>2, <3>3, <3>4, PlaceNames DEF TaskPlaces, workQueue, DrainPlaces
    <2>5. DataTypes'
      BY <1>3, <2>1 DEF TakeFront, DataTypes, hwVars
    <2> QED
      BY <1>3, <2>4, <2>5, TypeFrame DEF TakeFront
  <1>7. CASE PopFront(t)
    <2>1. pending' \in Seq(0 .. MaxWorks)
      BY <1>7, ListTypes DEF PopFront
    <2>2. /\ UNCHANGED <<workQueue, out, hold, front>>
          /\ \/ at[t] = "pop" /\ t = "worker" /\ at' = [at EXCEPT ![t] = "push"]
             \/ at[t] = "drainPop" /\ at' = [at EXCEPT ![t] = "drainPush"]
      BY <1>0, <1>7 DEF PopFront, Goto, DrainPlaces, WorkTypes
    <2>3. WorkTypes' /\ TaskPlaces'
      <3>1. PICK place \in {"push", "drainPush"} : at' = [at EXCEPT ![t] = place]
        BY <2>2
      <3>2. out[t] # 0 /\ (place = "push" => t = "worker" /\ at[t] = "pop")
            /\ (place = "drainPush" => at[t] = "drainPop")
        BY <2>2, <3>1, PlaceNames DEF TaskPlaces, WorkTypes
      <3>3. /\ ThreadPlaces' /\ at' \in [Threads -> Places] /\ at'[t] = place
            /\ \A u \in Threads : u # t => at'[u] = at[u]
        BY <2>2, <3>1, <3>2, PlaceMoves, PlaceNames DEF DrainPlaces
      <3> HIDE DEF ThreadPlaces
      <3>4. WorkTypes'
        BY <1>0, <2>2, <3>1, <3>2, <3>3, PlaceNames DEF WorkTypes, workQueue, DrainPlaces
      <3> QED
        BY <1>0, <2>2, <3>1, <3>2, <3>3, <3>4, PlaceNames DEF TaskPlaces, workQueue, DrainPlaces
    <2>4. DataTypes'
      BY <1>7, <2>1 DEF PopFront, DataTypes, hwVars
    <2> QED
      BY <1>7, <2>3, <2>4, TypeFrame DEF PopFront
  <1>8. CASE PushFront(t)
    <2>1. out[t] \in Works /\ front[t] \in 0 .. MaxWorks
      BY <1>8, InHand DEF PushFront, WorkTypes
    <2>2. waitq' \in Seq(WaitCmds \cup {NoCmd}) /\ UNCHANGED <<waiter, job, found>>
      BY <1>8, <2>1, ListTypes, CommandsMade DEF PushFront, V!Push
    <2>3. /\ UNCHANGED <<workQueue, hold>> /\ out' = [out EXCEPT ![t] = 0]
          /\ front' = [front EXCEPT ![t] = 0]
          /\ \/ at[t] = "push" /\ t = "worker" /\ at' = [at EXCEPT ![t] = "count"]
             \/ at[t] = "drainPush" /\ at' = [at EXCEPT ![t] = "drainCount"]
      BY <1>0, <1>8 DEF PushFront, Goto, DrainPlaces, WorkTypes
    <2>4. WorkTypes' /\ TaskPlaces'
      <3>1. PICK place \in {"count", "drainCount"} : at' = [at EXCEPT ![t] = place]
        BY <2>3
      <3>2. /\ place = "count" => t = "worker" /\ at[t] = "push"
            /\ place = "drainCount" => at[t] = "drainPush"
        BY <2>3, <3>1, PlaceNames DEF WorkTypes
      <3>3. 0 \in 0 .. MaxWorks /\ front'[t] = 0
        BY <2>3, ConstantsAssumption DEF WorkTypes
      <3>4. /\ ThreadPlaces' /\ at' \in [Threads -> Places] /\ at'[t] = place
            /\ out' \in [Threads -> 0 .. MaxWorks] /\ front' \in [Threads -> 0 .. MaxWorks]
            /\ \A u \in Threads : u # t => at'[u] = at[u]
        BY <2>3, <3>1, <3>3, PlaceMoves, PlaceNames DEF DrainPlaces
      <3> HIDE DEF ThreadPlaces
      <3>5. WorkTypes'
        BY <1>0, <2>3, <3>1, <3>2, <3>4, PlaceNames DEF WorkTypes, workQueue, DrainPlaces
      <3> QED
        BY <1>0, <2>3, <3>1, <3>2, <3>4, <3>5, PlaceNames DEF TaskPlaces, workQueue, DrainPlaces
    <2>5. WaitTypes'
      BY <2>2 DEF WaitTypes
    <2> QED
      BY <1>8, <2>4, <2>5, TypeFrame DEF PushFront
  <1>4. CASE Count(t)
    <2>1. count' \in 0 .. CountMod - 1
      BY <1>4, ConstantsAssumption DEF Count, DataTypes
    <2>2. /\ UNCHANGED <<out, hold, front>>
          /\ \/ /\ at[t] = "count" /\ t = "worker" /\ at' = [at EXCEPT ![t] = "idle"]
                /\ task' = NoCmd /\ workq' = workq /\ worker' = worker /\ hold = 0
             \/ at[t] = "drainCount" /\ at' = [at EXCEPT ![t] = "drain"] /\ UNCHANGED workQueue
      BY <1>0, <1>4, InHand DEF Count, Goto, DrainPlaces, EndTask, W!Finish, WorkTypes
    <2>3. WorkTypes' /\ TaskPlaces'
      <3>1. PICK place \in {"idle", "drain"} : at' = [at EXCEPT ![t] = place]
        BY <2>2
      <3>2. /\ front[t] = 0
            /\ place = "idle" => t = "worker" /\ task' = NoCmd /\ hold = 0
            /\ place = "drain" => at[t] = "drainCount" /\ task' = task
        BY <2>2, <3>1, PlaceNames DEF TaskPlaces, WorkTypes, workQueue
      <3>3. /\ ThreadPlaces' /\ at' \in [Threads -> Places] /\ at'[t] = place
            /\ \A u \in Threads : u # t => at'[u] = at[u]
        BY <2>2, <3>1, <3>2, PlaceMoves, PlaceNames DEF DrainPlaces
      <3> HIDE DEF ThreadPlaces
      <3>4. WorkTypes'
        BY <1>0, <2>2, <3>1, <3>2, <3>3, CommandFields, PlaceNames
        DEF WorkTypes, workQueue, DrainPlaces
      <3> QED
        BY <1>0, <2>2, <3>1, <3>2, <3>3, <3>4, CommandFields, PlaceNames
        DEF TaskPlaces, workQueue, DrainPlaces
    <2>4. DataTypes'
      BY <1>4, <2>1 DEF Count, DataTypes, hwVars
    <2> QED
      BY <1>4, <2>3, <2>4, TypeFrame DEF Count
  <1>5. CASE DrainEos(t)
    <2>1. at[t] \in {"drainEos", "drainFailed"} /\ out' = out /\ front' = front
          /\ UNCHANGED <<apiVars, count, header, pending, hwVars, kept, clientVars>>
      BY <1>5 DEF DrainEos
    <2>2. /\ hold' = IF task.op = "drain" /\ t = "worker" THEN 0 ELSE hold
          /\ waitq' \in Seq(WaitCmds \cup {NoCmd}) /\ UNCHANGED <<waiter, job, found>>
      <3>1. CASE task.op = "drain" /\ t = "worker" /\ hold # 0
        <4>1. hold \in Works
          BY <3>1, InHand
        <4> QED
          BY <1>5, <3>1, <4>1, ListTypes, CommandsMade DEF DrainEos, V!Push
      <3>2. CASE ~(task.op = "drain" /\ t = "worker" /\ hold # 0)
        BY <1>5, <3>2 DEF DrainEos, waitVars, WaitTypes
      <3> QED
        BY <3>1, <3>2
    <2>3. /\ workq' = workq /\ worker' = worker
          /\ \/ /\ t = "worker" /\ task.op = "drain" /\ task' = NoCmd
                /\ at' = [at EXCEPT !["worker"] = "idle"]
             \/ /\ t # "worker" \/ task.op # "drain"
                /\ task' = task
                /\ at' = [at EXCEPT ![t] = "update"]
             \/ task' = task /\ at' = [at EXCEPT ![t] = "giveBack"]
      BY <1>5, DrainReturns DEF DrainEos, Goto, workQueue
    <2>4. WorkTypes' /\ TaskPlaces'
      <3>1. CASE t = "worker" /\ at' = [at EXCEPT !["worker"] = "idle"] /\ task' = NoCmd
                 /\ task.op = "drain"
        BY <2>1, <2>2, <2>3, <3>1, CommandFields, PlaceNames, ConstantsAssumption
        DEF WorkTypes, TaskPlaces, DrainPlaces
      <3>2. CASE at' = [at EXCEPT ![t] = "update"] /\ task' = task
                 /\ (t # "worker" \/ task.op # "drain")
        BY <1>0, <2>1, <2>2, <2>3, <3>2, CommandFields, PlaceNames
        DEF WorkTypes, TaskPlaces, DrainPlaces
      <3>3. CASE at' = [at EXCEPT ![t] = "giveBack"] /\ task' = task
        BY <1>0, <2>1, <2>2, <2>3, <3>3, CommandFields, PlaceNames, ConstantsAssumption
        DEF WorkTypes, TaskPlaces, DrainPlaces
      <3> QED
        BY <2>3, <3>1, <3>2, <3>3
    <2>5. WaitTypes'
      BY <2>2 DEF WaitTypes
    <2> QED
      BY <2>1, <2>4, <2>5, TypeFrame
  <1>6. CASE GiveBack(t)
    <2>1. CASE pending # <<>>
      <3>1. /\ Head(pending) \in Works /\ Return(Head(pending), "nothing")
            /\ pending' \in Seq(0 .. MaxWorks)
            /\ at[t] = "giveBack" /\ at' = [at EXCEPT ![t] = "giveBackPop"]
            /\ UNCHANGED <<workQueue, out, hold, front>>
        BY <1>6, <2>1, ListTypes, ConstantsAssumption DEF GiveBack, PendingHead, Goto, Works
      <3>2. ClientTypes'
        BY <1>6, <3>1, ReturnType DEF GiveBack
      <3>3. DataTypes'
        BY <1>6, <3>1 DEF GiveBack, DataTypes, hwVars
      <3>4. WorkTypes' /\ TaskPlaces'
        BY <1>0, <3>1, CommandFields, PlaceNames DEF WorkTypes, TaskPlaces, workQueue, DrainPlaces
      <3> QED
        BY <1>6, <3>2, <3>3, <3>4, TypeFrame DEF GiveBack
    <2>2. CASE pending = <<>>
      <3>1. at[t] = "giveBack" /\ AfterDrain(t) /\ UNCHANGED <<pending, back>>
            /\ UNCHANGED <<apiVars, out, hold, front, waitVars, count, header, hwVars, kept>>
            /\ UNCHANGED <<mark, dropped>>
        BY <1>6, <2>2 DEF GiveBack, PendingHead
      <3>2. WorkTypes' /\ TaskPlaces'
        <4>1. PICK place \in {"idle", "update"} : at' = [at EXCEPT ![t] = place]
          BY <3>1, DrainReturns
        <4>2. /\ front[t] = 0 /\ workq' = workq /\ worker' = worker
              /\ place = "idle" => t = "worker" /\ task' = NoCmd /\ task.op = "drain"
              /\ place = "update" => task' = task /\ (t # "worker" \/ task.op # "drain")
          BY <3>1, <4>1, DrainReturns, PlaceNames DEF TaskPlaces, WorkTypes
        <4>3. /\ ThreadPlaces' /\ at' \in [Threads -> Places] /\ at'[t] = place
              /\ \A u \in Threads : u # t => at'[u] = at[u]
          BY <3>1, <4>1, <4>2, PlaceMoves, PlaceNames DEF DrainPlaces
        <4> HIDE DEF ThreadPlaces
        <4>4. WorkTypes'
          BY <1>0, <3>1, <4>1, <4>2, <4>3, CommandFields, PlaceNames DEF WorkTypes, DrainPlaces
        <4> QED
          BY <1>0, <3>1, <4>1, <4>2, <4>3, <4>4, CommandFields, PlaceNames
          DEF TaskPlaces, DrainPlaces
      <3> QED
        BY <3>1, <3>2, TypeFrame DEF clientVars
    <2> QED
      BY <2>1, <2>2
  <1>9. CASE GiveBackPop(t)
    <2>1. pending' \in Seq(0 .. MaxWorks)
      BY <1>9, ListTypes DEF GiveBackPop
    <2>2. /\ UNCHANGED <<workQueue, out, hold, front>> /\ at[t] = "giveBackPop"
          /\ at' = [at EXCEPT ![t] = "giveBack"]
      BY <1>9 DEF GiveBackPop, Goto
    <2>3. WorkTypes' /\ TaskPlaces'
      BY <1>0, <2>2, CommandFields, PlaceNames DEF WorkTypes, TaskPlaces, workQueue, DrainPlaces
    <2>4. DataTypes'
      BY <1>9, <2>1 DEF GiveBackPop, DataTypes, hwVars
    <2> QED
      BY <1>9, <2>3, <2>4, TypeFrame DEF GiveBackPop
  <1> QED
    BY <1>1, <1>2, <1>3, <1>4, <1>5, <1>6, <1>7, <1>8, <1>9 DEF Drain

LEMMA TypeStep == ASSUME TypeOK, TaskPlaces, Next PROVE TypeOK' /\ TaskPlaces'
  BY PlaceNames, TypeCalls, TypeStop, TypeDoWork, TypeWaiting, TypeDrain DEF Next, Working

LEMMA TypeStutter == ASSUME TypeOK, TaskPlaces, UNCHANGED vars PROVE TypeOK' /\ TaskPlaces'
  BY TypeFrame DEF TypeOK, vars

\* Every variable of the encoder keeps its range, and the working and the waiting thread are in
\* a task of DoWork, Drain or WaitWork exactly when their queue gave them one.
THEOREM TypeCorrect == Spec => []TypeOK
  <1>1. Init => TypeOK /\ TaskPlaces
    BY TypeInit
  <1>2. TypeOK /\ TaskPlaces /\ [Next]_vars => (TypeOK /\ TaskPlaces)'
    BY TypeStep, TypeStutter
  <1> QED
    BY <1>1, <1>2, PTL DEF Spec

-----------------------------------------------------------------------------
(* The two threads and the calls *)

\* A thread that does not run has no task; DoStop has joined the working thread, then the
\* waiting one, and no call is inside config.
Joined == /\ worker # "up" => task = NoCmd
          /\ waiter # "up" => job = NoCmd
          /\ api \in {"stopWait", "stopPending", "stopped"} => worker = "none"
          /\ api \in {"stopPending", "stopped"} => waiter = "none"
          /\ at["caller"] # "idle" => api = "running"

\* What the steps of a task, and of Drain on either thread, have in common.
ThreadStep(t) ==
    /\ UNCHANGED <<api, aborting, kinds, configs, met, workq, worker, waiter, job, found, mark, dropped>>
    /\ task' = task \/ (t = "worker" /\ task' = NoCmd)
    /\ at[t] # "idle" /\ (t = "caller" => at[t] # "update")
    /\ \A u \in Threads : u # t => at'[u] = at[u]
    /\ waitq' = waitq \/ \E c \in WaitCmds : waitq' = Append(waitq, c)

LEMMA ThreadSteps ==
    ASSUME TypeOK, TaskPlaces, NEW t \in Threads,
           Drain(t) \/ (t = "worker" /\ (DoWork \/ Update))
    PROVE  ThreadStep(t)
  <1>0. /\ at \in [Threads -> Places] /\ "worker" \in Threads
        /\ at["caller"] \in {"idle"} \cup DrainPlaces /\ t \in {"worker", "caller"}
    BY PlaceNames DEF TypeOK, WorkTypes
  <1>1. \A place : Goto(t, place) => \A u \in Threads : u # t => at'[u] = at[u]
    BY <1>0 DEF Goto
  <1>2. t = "worker" => (EndTask => \A u \in Threads : u # t => at'[u] = at[u])
    BY <1>0 DEF EndTask, Goto
  <1>3. AfterDrain(t) => /\ task' = task \/ (t = "worker" /\ task' = NoCmd)
                         /\ UNCHANGED <<workq, worker>>
                         /\ \A u \in Threads : u # t => at'[u] = at[u]
    BY <1>1, <1>2 DEF AfterDrain, EndTask, W!Finish, workQueue
  <1>4. CASE DrainBegin(t) \/ DrainFails(t) \/ DrainOutputs(t)
    BY <1>1, <1>4 DEF ThreadStep, DrainBegin, DrainFails, DrainOutputs, apiVars, workQueue,
                      waitVars, clientVars
  <1>11. CASE TakeFront(t) \/ PopFront(t) \/ GiveBackPop(t)
    BY <1>1, <1>11 DEF ThreadStep, TakeFront, PopFront, GiveBackPop, apiVars, workQueue, waitVars,
                       clientVars
  <1>5. CASE PushFront(t)
    <2>1. front[t] \in 0 .. MaxWorks /\ out[t] \in Works
      BY <1>5, InHand DEF PushFront, OutPlaces, TypeOK, WorkTypes
    <2>2. Cmd("wait", front[t], out[t]) \in WaitCmds
      BY <2>1, CommandsMade
    <2>3. /\ at[t] # "idle" /\ (t = "caller" => at[t] # "update")
          /\ \A u \in Threads : u # t => at'[u] = at[u]
      BY <1>1, <1>5 DEF PushFront
    <2> QED
      BY <1>5, <2>2, <2>3 DEF ThreadStep, PushFront, V!Push, apiVars, workQueue, clientVars
  <1>6. CASE Count(t)
    <2>1. at[t] = "count" => t = "worker"
      BY <1>0 DEF DrainPlaces
    <2> QED
      BY <1>1, <1>2, <1>6, <2>1 DEF ThreadStep, Count, EndTask, W!Finish, apiVars, workQueue,
                                    waitVars, clientVars
  <1>7. CASE DrainEos(t)
    <2>1. waitq' = waitq \/ \E c \in WaitCmds : waitq' = Append(waitq, c)
      BY <1>7, InHand, CommandsMade DEF DrainEos, V!Push, waitVars
    <2>2. /\ task' = task \/ (t = "worker" /\ task' = NoCmd)
          /\ UNCHANGED <<workq, worker>>
          /\ \A u \in Threads : u # t => at'[u] = at[u]
      BY <1>1, <1>3, <1>7 DEF DrainEos, workQueue
    <2> QED
      BY <1>7, <2>1, <2>2 DEF ThreadStep, DrainEos, V!Push, apiVars, waitVars, clientVars
  <1>8. CASE GiveBack(t)
    <2>1. /\ task' = task \/ (t = "worker" /\ task' = NoCmd)
          /\ UNCHANGED <<workq, worker>>
          /\ \A u \in Threads : u # t => at'[u] = at[u]
      <3>1. CASE AfterDrain(t)
        BY <1>3, <3>1
      <3>2. CASE Goto(t, "giveBackPop") /\ UNCHANGED workQueue
        BY <1>1, <3>2 DEF workQueue
      <3> QED
        BY <1>8, <3>1, <3>2 DEF GiveBack
    <2> QED
      BY <1>8, <2>1 DEF ThreadStep, GiveBack, apiVars, waitVars
  <1>9. CASE t = "worker" /\ (WorkFails \/ WorkReady \/ ApplyTunings \/ AddPending \/ Update)
    BY <1>1, <1>2, <1>9 DEF ThreadStep, WorkFails, WorkReady, ApplyTunings, AddPending, Update,
         EndTask, W!Finish, apiVars, workQueue, waitVars, clientVars
  <1>10. ASSUME t = "worker", NEW outputs \in BOOLEAN, CallEncode(outputs)
         PROVE  ThreadStep(t)
    <2>1. Cmd("retain", 0, hold) \in WaitCmds
      BY <1>10, InHand, CommandsMade DEF CallEncode
    <2> QED
      BY <1>1, <1>10, <2>1 DEF ThreadStep, CallEncode, V!Push, apiVars, workQueue, clientVars
  <1> QED
    BY <1>4, <1>5, <1>6, <1>7, <1>8, <1>9, <1>10, <1>11 DEF Drain, DoWork

LEMMA JoinedFrame ==
    ASSUME Joined, UNCHANGED <<api, worker, task, waiter, job, at>>
    PROVE  Joined'
  BY DEF Joined

LEMMA JoinedInit == ASSUME Init PROVE Joined
  BY PlaceNames DEF Init, W!Init, V!Init, Joined

LEMMA JoinedStep == ASSUME TypeOK, TaskPlaces, Joined, Next PROVE Joined'
  <1>0. at \in [Threads -> Places] /\ "worker" \in Threads /\ "caller" \in Threads
    BY PlaceNames DEF TypeOK, WorkTypes
  <1>1. CASE Start \/ StartFails
    BY <1>1 DEF Joined, Start, StartFails, W!Start, V!Start, workQueue, waitVars
  <1>2. ASSUME NEW kind \in Kinds, QueueWork(kind)
        PROVE  Joined'
    BY <1>2, JoinedFrame DEF QueueWork, W!Push, workQueue, waitVars
  <1>3. CASE Configure \/ ConfigureEnds
    BY <1>0, <1>3 DEF Joined, Configure, ConfigureEnds, Goto, W!Push, apiVars, workQueue, waitVars
  <1>4. CASE Stop
    <2>1. CASE \E abort \in BOOLEAN : StopWorking(abort)
      BY <2>1 DEF Joined, StopWorking, CallerFree, W!Shutdown, waitVars
    <2>2. CASE StopWaiting
      BY <2>2 DEF Joined, StopWaiting, W!Join, V!Shutdown, workQueue
    <2>3. CASE StopJoined
      BY <2>3 DEF Joined, StopJoined, V!Join, workQueue
    <2>4. CASE StopPending
      BY <2>4 DEF Joined, StopPending, workQueue, waitVars
    <2> QED
      BY <1>4, <2>1, <2>2, <2>3, <2>4 DEF Stop
  <1>5. CASE TakeTask
    BY <1>0, <1>5 DEF Joined, TakeTask, W!Take, Goto, apiVars, waitVars
  <1>6. ASSUME NEW t \in Threads, ThreadStep(t)
        PROVE  Joined'
    <2>1. CASE t = "worker"
      <3>1. task # NoCmd
        BY <1>6, <2>1 DEF ThreadStep, TypeOK, WorkTypes
      <3>2. at'["caller"] = at["caller"]
        BY <1>0, <1>6, <2>1 DEF ThreadStep
      <3> QED
        BY <1>6, <3>1, <3>2 DEF ThreadStep, Joined
    <2>2. CASE t = "caller"
      BY <1>6, <2>2 DEF ThreadStep, Joined
    <2> QED
      BY <2>1, <2>2, PlaceNames
  <1>7. CASE TakeJob
    BY <1>7 DEF Joined, TakeJob, V!Take, apiVars, workQueue
  <1>8. CASE RetainLockedFrame \/ EosReturned \/ WaitWork \/ WaitWorkCounts
    BY <1>8 DEF Joined, RetainLockedFrame, EosReturned, WaitWork, WaitWorkCounts, V!Finish,
                apiVars, workQueue
  <1> QED
    BY <1>0, <1>1, <1>2, <1>3, <1>4, <1>5, <1>6, <1>7, <1>8, ThreadSteps DEF Next, Working, Waiting

-----------------------------------------------------------------------------
(* m_pendingWorks while one thread at a time is at it *)

\* A front() or the return of a work was executed, and its pop() was not.
PopPlaces == {"pop", "drainPop", "giveBackPop"}

\* The works that are pending, first to last, when the threads are at the places a, have taken
\* the works f, and the queue is p.
Taken(f) == IF f["caller"] # 0 THEN f["caller"] ELSE f["worker"]
Remaining(a, p) == IF \E t \in Threads : a[t] \in PopPlaces THEN Tail(p) ELSE p
Lined(a, f, p) == IF Taken(f) # 0 THEN <<Taken(f)>> \o Remaining(a, p) ELSE Remaining(a, p)

Rest == Remaining(at, pending)
Line == Lined(at, front, pending)

\* Config's drain has not met the working thread at a task; a null work is in m_pendingWorks
\* only between the two operations of one thread.
Separate == CallerDrains => task = NoCmd
Slots ==
    /\ Separate
    /\ Rest \in Seq(Works)
    /\ \A t \in Threads : /\ at[t] \in PopPlaces => pending # <<>> /\ pending[1] = 0
                          /\ at[t] \in FrontPlaces => front[t] # 0

LEMMA HeadAndTail ==
    ASSUME NEW S, NEW q \in Seq(S), q # <<>>, NEW x
    PROVE  /\ <<Head(q)>> \o Tail(q) = q
           /\ Tail([q EXCEPT ![1] = x]) = Tail(q)
           /\ [q EXCEPT ![1] = x] # <<>> /\ [q EXCEPT ![1] = x][1] = x
  <1>1. /\ Len(q) \in Nat /\ Len(q) > 0 /\ DOMAIN q = 1 .. Len(q)
        /\ Head(q) = q[1] /\ Head(q) \in S /\ Tail(q) \in Seq(S) /\ Len(Tail(q)) = Len(q) - 1
        /\ \A k \in 1 .. Len(q) - 1 : Tail(q)[k] = q[k + 1]
    OBVIOUS
  <1>2. <<Head(q)>> \o Tail(q) = q
    <2> DEFINE r == <<Head(q)>> \o Tail(q)
    <2>1. r \in Seq(S) /\ Len(r) = Len(q) /\ r[1] = q[1]
          /\ \A k \in 2 .. Len(q) : r[k] = Tail(q)[k - 1]
      BY <1>1
    <2> HIDE DEF r
    <2>2. \A k \in 1 .. Len(q) : r[k] = q[k]
      <3> SUFFICES ASSUME NEW k \in 1 .. Len(q), k # 1 PROVE r[k] = q[k]
        BY <2>1
      <3>1. k \in 2 .. Len(q) /\ k - 1 \in 1 .. Len(q) - 1 /\ k - 1 + 1 = k
        BY <1>1
      <3> QED
        BY <1>1, <2>1, <3>1
    <2>3. r = q
      BY <2>1, <2>2
    <2> QED
      BY <2>3 DEF r
  <1>3. /\ Tail([q EXCEPT ![1] = x]) = Tail(q)
        /\ [q EXCEPT ![1] = x] # <<>> /\ [q EXCEPT ![1] = x][1] = x
    <2> DEFINE r == [q EXCEPT ![1] = x]
    <2>1. /\ DOMAIN r = 1 .. Len(q) /\ r[1] = x
          /\ \A k \in 1 .. Len(q) : k # 1 => r[k] = q[k]
          /\ r = [k \in 1 .. Len(q) |-> r[k]]
      <3>1. 1 \in DOMAIN q /\ DOMAIN r = DOMAIN q
        BY <1>1
      <3>2. r[1] = x /\ \A k \in DOMAIN q : k # 1 => r[k] = q[k]
        BY <3>1
      <3>3. r = [k \in DOMAIN q |-> r[k]]
        BY <3>1
      <3> QED
        BY <1>1, <3>1, <3>2, <3>3
    <2> HIDE DEF r
    <2>2. r \in Seq(S \cup {x})
      <3>1. \A k \in 1 .. Len(q) : r[k] \in S \cup {x}
        BY <1>1, <2>1
      <3> QED
        BY <1>1, <2>1, <3>1
    <2>3. Len(r) = Len(q) /\ r # <<>>
      BY <1>1, <2>1, <2>2
    <2>4. /\ Tail(r) \in Seq(S \cup {x}) /\ Len(Tail(r)) = Len(q) - 1
          /\ \A k \in 1 .. Len(q) - 1 : Tail(r)[k] = r[k + 1]
      BY <2>2, <2>3
    <2>5. \A k \in 1 .. Len(q) - 1 : Tail(r)[k] = Tail(q)[k]
      <3> SUFFICES ASSUME NEW k \in 1 .. Len(q) - 1 PROVE Tail(r)[k] = Tail(q)[k]
        OBVIOUS
      <3>1. k + 1 \in 1 .. Len(q) /\ k + 1 # 1
        BY <1>1
      <3> QED
        BY <1>1, <2>1, <2>4, <3>1
    <2>6. Tail(q) \in Seq(S \cup {x})
      BY <1>1
    <2>7. Tail(r) = Tail(q)
      BY <1>1, <2>4, <2>5, <2>6
    <2> QED
      BY <2>1, <2>3, <2>7 DEF r
  <1> QED
    BY <1>2, <1>3

LEMMA FirstOf ==
    ASSUME NEW S, NEW q \in Seq(S), NEW w \in S
    PROVE  /\ <<w>> \o q \in Seq(S) /\ <<w>> \o q # <<>>
           /\ Head(<<w>> \o q) = w /\ Tail(<<w>> \o q) = q
           /\ Listed(<<w>> \o q) = {w} \cup Listed(q)
  <1> DEFINE r == <<w>> \o q
  <1>1. /\ r \in Seq(S) /\ Len(q) \in Nat /\ Len(r) = Len(q) + 1 /\ r[1] = w
        /\ \A k \in 1 .. Len(q) : r[k + 1] = q[k]
    OBVIOUS
  <1> HIDE DEF r
  <1>2. r # <<>> /\ Head(r) = w
    BY <1>1
  <1>3. Tail(r) = q
    <2>1. Tail(r) \in Seq(S) /\ Len(Tail(r)) = Len(q)
          /\ \A k \in 1 .. Len(q) : Tail(r)[k] = r[k + 1]
      BY <1>1, <1>2
    <2> QED
      BY <1>1, <2>1
  <1>4. Listed(r) = Listed(Tail(r)) \cup {Head(r)}
    BY <1>1, <1>2, ListedTail
  <1> QED
    BY <1>1, <1>2, <1>3, <1>4 DEF r

\* A thread that is at the queue is there alone.
LEMMA Solo ==
    ASSUME TypeOK, Separate, NEW t \in Threads, at[t] \notin {"idle", "update"}
    PROVE  \A u \in Threads : u # t => at[u] \in {"idle", "update"}
  <1>1. /\ at["worker"] = "idle" <=> task = NoCmd
        /\ at["caller"] \in {"idle"} \cup DrainPlaces
    BY DEF TypeOK, WorkTypes
  <1>2. CASE t = "worker"
    BY <1>1, <1>2, PlaceNames DEF Separate, CallerDrains
  <1>3. CASE t = "caller"
    BY <1>1, <1>3, PlaceNames DEF Separate, CallerDrains
  <1> QED
    BY <1>2, <1>3, PlaceNames

\* The pending works, as that thread knows them.
LEMMA LineFor ==
    ASSUME TypeOK, TaskPlaces, Slots, NEW t \in Threads, at[t] \notin {"idle", "update"}
    PROVE  /\ Rest = IF at[t] \in PopPlaces THEN Tail(pending) ELSE pending
           /\ Line = IF front[t] # 0 THEN <<front[t]>> \o Rest ELSE Rest
           /\ at[t] \in FrontPlaces <=> front[t] # 0
           /\ (\A u \in Threads : u # t => at'[u] = at[u] /\ front'[u] = front[u]) =>
                /\ Rest' = IF at'[t] \in PopPlaces THEN Tail(pending') ELSE pending'
                /\ Line' = IF front'[t] # 0 THEN <<front'[t]>> \o Rest' ELSE Rest'
                /\ (/\ Separate' /\ Rest' \in Seq(Works)
                    /\ at'[t] \in PopPlaces => pending' # <<>> /\ pending'[1] = 0
                    /\ at'[t] \in FrontPlaces => front'[t] # 0) => Slots'
  <1>1. \A u \in Threads : u # t => at[u] \notin PopPlaces \cup FrontPlaces /\ front[u] = 0
    BY Solo DEF PopPlaces, FrontPlaces, TaskPlaces, ThreadPlaces, Slots
  <1>2. at[t] \in FrontPlaces <=> front[t] # 0
    BY DEF Slots, TaskPlaces, ThreadPlaces
  <1>3. /\ Rest = IF at[t] \in PopPlaces THEN Tail(pending) ELSE pending
        /\ Line = IF front[t] # 0 THEN <<front[t]>> \o Rest ELSE Rest
    <2>1. \A u \in Threads : u # t => at[u] \notin PopPlaces /\ front[u] = 0
      BY <1>1
    <2> QED
      BY <2>1, PlaceNames DEF Rest, Line, Lined, Remaining, Taken
  <1>4. ASSUME \A u \in Threads : u # t => at'[u] = at[u] /\ front'[u] = front[u]
        PROVE  /\ Rest' = IF at'[t] \in PopPlaces THEN Tail(pending') ELSE pending'
               /\ Line' = IF front'[t] # 0 THEN <<front'[t]>> \o Rest' ELSE Rest'
               /\ \A u \in Threads : u # t => at'[u] \notin PopPlaces \cup FrontPlaces
    <2>1. \A u \in Threads : u # t => at'[u] \notin PopPlaces /\ front'[u] = 0
      BY <1>1, <1>4
    <2>2. \A u \in Threads : u # t => at'[u] \notin PopPlaces \cup FrontPlaces
      BY <1>1, <1>4
    <2>3. Rest' = IF at'[t] \in PopPlaces THEN Tail(pending') ELSE pending'
      BY <2>1 DEF Rest, Remaining
    <2>4. Taken(front') = front'[t]
      BY <2>1, PlaceNames DEF Taken
    <2> QED
      BY <2>2, <2>3, <2>4 DEF Rest, Line, Lined
  <1> QED
    BY <1>2, <1>3, <1>4 DEF Slots

\* A step that leaves the queue, and the threads that are at it, alone.
LEMMA LineFrame ==
    ASSUME Slots, Separate', UNCHANGED <<pending, front>>,
           \A t \in Threads : /\ at'[t] \in PopPlaces <=> at[t] \in PopPlaces
                              /\ at'[t] \in FrontPlaces => at[t] \in FrontPlaces
    PROVE  Slots' /\ Line' = Line
  <1>1. Rest' = Rest
    BY DEF Rest, Remaining
  <1>2. Line' = Line
    BY DEF Line, Lined, Taken, Remaining
  <1> QED
    BY <1>1, <1>2 DEF Slots

LEMMA SlotsInit == ASSUME Init PROVE Slots /\ Line = <<>>
  <1>1. /\ task = NoCmd /\ pending = <<>> /\ \A t \in Threads : at[t] = "idle" /\ front[t] = 0
    BY DEF Init, W!Init
  <1>2. \A t \in Threads : at[t] \notin PopPlaces /\ at[t] \notin FrontPlaces
    BY <1>1 DEF PopPlaces, FrontPlaces
  <1>3. Rest = <<>> /\ Line = <<>>
    BY <1>1, <1>2, PlaceNames DEF Rest, Remaining, Line, Lined, Taken
  <1> QED
    BY <1>1, <1>2, <1>3 DEF Slots, Separate

\* The thread and the caller do not meet in a step that does not say so.
LEMMA SeparateStep ==
    ASSUME TypeOK, TaskPlaces, Next, ~met', ~met => Separate
    PROVE  ~met /\ Separate /\ Separate'
  <1>1. /\ at \in [Threads -> Places] /\ "worker" \in Threads /\ "caller" \in Threads
        /\ at["worker"] = "idle" <=> task = NoCmd
        /\ at["caller"] \in {"idle"} \cup DrainPlaces /\ met \in BOOLEAN
    BY PlaceNames DEF TypeOK, WorkTypes, CallTypes
  <1>2. CASE Configure
    BY <1>1, <1>2 DEF Configure, workQueue, Separate
  <1>3. CASE ConfigureEnds
    <2>1. at'["caller"] = "idle" /\ met' = met
      BY <1>1, <1>3 DEF ConfigureEnds, Goto, apiVars
    <2> QED
      BY <2>1 DEF Separate, CallerDrains, DrainPlaces
  <1>4. CASE TakeTask
    <2>1. at'["caller"] = at["caller"] /\ (met' <=> met \/ (CallerDrains /\ task' # NoCmd))
      BY <1>1, <1>4 DEF TakeTask, Goto
    <2> QED
      BY <2>1 DEF Separate, CallerDrains
  <1>5. ASSUME NEW t \in Threads, ThreadStep(t)
        PROVE  ~met /\ Separate /\ Separate'
    <2>1. CASE t = "worker"
      BY <1>1, <1>5, <2>1 DEF ThreadStep, Separate, CallerDrains
    <2>2. CASE t = "caller"
      <3>1. CallerDrains
        BY <1>1, <1>5, <2>2 DEF ThreadStep, CallerDrains
      <3> QED
        BY <1>5, <2>2, <3>1 DEF ThreadStep, Separate
    <2> QED
      BY <2>1, <2>2, PlaceNames
  <1>6. CASE \/ Start \/ StartFails \/ Stop \/ Waiting \/ \E kind \in Kinds : QueueWork(kind)
    <2>1. UNCHANGED <<met, task, at>>
      BY <1>6 DEF Start, StartFails, Stop, StopWorking, StopWaiting, StopJoined, StopPending, Waiting,
         TakeJob, RetainLockedFrame, EosReturned, WaitWork, WaitWorkCounts, QueueWork, W!Start,
         W!Shutdown, W!Join, W!Push, apiVars, workQueue
    <2> QED
      BY <2>1 DEF Separate, CallerDrains
  <1> QED
    BY <1>1, <1>2, <1>3, <1>4, <1>5, <1>6, ThreadSteps DEF Next, Working

\* Most steps leave the pending works alone.
LEMMA LineStays ==
    ASSUME TypeOK, TaskPlaces, Slots, Separate',
           \/ Start \/ StartFails \/ Configure \/ ConfigureEnds \/ Waiting
           \/ \E kind \in Kinds : QueueWork(kind)
           \/ (\E abort \in BOOLEAN : StopWorking(abort)) \/ StopWaiting \/ StopJoined
           \/ TakeTask \/ WorkFails \/ WorkReady \/ ApplyTunings \/ Update
           \/ \E outputs \in BOOLEAN : CallEncode(outputs)
           \/ \E t \in Threads : \/ DrainBegin(t) \/ DrainFails(t) \/ DrainOutputs(t) \/ Count(t)
                                 \/ DrainEos(t) \/ (GiveBack(t) /\ pending = <<>>)
    PROVE  Slots' /\ Line' = Line
  <1>1. UNCHANGED <<pending, front>>
    BY DEF Start, StartFails, Configure, ConfigureEnds, Waiting, TakeJob, RetainLockedFrame,
       EosReturned, WaitWork, WaitWorkCounts, QueueWork, StopWorking, StopWaiting, StopJoined,
       TakeTask, WorkFails, WorkReady, ApplyTunings, Update, CallEncode, DrainBegin, DrainFails,
       DrainOutputs, Count, DrainEos, GiveBack, PendingHead
  <1>2. at \in [Threads -> Places]
    BY DEF TypeOK, WorkTypes
  <1>3. ASSUME NEW t \in Threads, NEW place \in Places, Goto(t, place),
               at[t] \notin PopPlaces, place \notin PopPlaces,
               place \notin FrontPlaces \/ at[t] \in FrontPlaces
        PROVE  Slots' /\ Line' = Line
    <2>1. /\ at'[t] = place /\ \A u \in Threads : u # t => at'[u] = at[u]
      BY <1>2, <1>3 DEF Goto
    <2>2. \A u \in Threads : /\ at'[u] \in PopPlaces <=> at[u] \in PopPlaces
                             /\ at'[u] \in FrontPlaces => at[u] \in FrontPlaces
      BY <1>3, <2>1
    <2> QED
      BY <1>1, <2>2, LineFrame
  <1>4. CASE at' = at
    BY <1>1, <1>4, LineFrame
  <1>5. /\ {"idle", "begin", "tune", "call", "pend", "front", "drain", "drainCall", "drainFront",
            "drainEos", "drainFailed", "giveBack", "update"} \subseteq Places \ (PopPlaces \cup FrontPlaces)
        /\ PopPlaces \cap {"drain", "count", "drainCount"} = {}
    BY DEF Places, DrainPlaces, PopPlaces, FrontPlaces
  <1>6. \A t \in Threads : AfterDrain(t) => Goto(t, "idle") \/ Goto(t, "update")
    BY DEF AfterDrain, EndTask
  <1>7. CASE \/ Start \/ StartFails \/ Waiting \/ \E kind \in Kinds : QueueWork(kind)
             \/ (\E abort \in BOOLEAN : StopWorking(abort)) \/ StopWaiting \/ StopJoined
    <2>1. at' = at
      BY <1>7 DEF Start, StartFails, Waiting, TakeJob, RetainLockedFrame, EosReturned, WaitWork,
         WaitWorkCounts, QueueWork, StopWorking, StopWaiting, StopJoined
    <2> QED
      BY <1>4, <2>1
  <1>8. CASE Configure \/ ConfigureEnds
    <2>1. /\ at["caller"] \in {"idle", "update"}
          /\ Goto("caller", "drain") \/ Goto("caller", "idle")
      BY <1>8 DEF Configure, ConfigureEnds, CallerFree
    <2> QED
      BY <1>3, <1>5, <2>1, PlaceNames DEF PopPlaces
  <1>9. CASE TakeTask
    <2>1. at["worker"] = "idle" /\ Goto("worker", Begin(task'.op))
      BY <1>9 DEF TakeTask, W!Take, TypeOK, WorkTypes
    <2>2. Begin(task'.op) \in {"idle", "begin", "drain", "update"}
      <3>1. task' = NoCmd \/ task' \in WorkCmds
        BY <1>9, ListTypes DEF TakeTask, W!Take
      <3> QED
        BY <3>1, CommandFields DEF Begin
    <2> QED
      BY <1>3, <1>5, <2>1, <2>2, PlaceNames DEF PopPlaces
  <1>10. CASE \/ WorkFails \/ WorkReady \/ ApplyTunings \/ Update
              \/ \E outputs \in BOOLEAN : CallEncode(outputs)
    <2>1. /\ at["worker"] \notin PopPlaces
          /\ \E place \in {"idle", "tune", "call", "drain", "pend"} : Goto("worker", place)
      BY <1>10 DEF WorkFails, WorkReady, ApplyTunings, Update, CallEncode, EndTask, PopPlaces
    <2> QED
      BY <1>3, <1>5, <2>1, PlaceNames
  <1>11. ASSUME NEW t \in Threads,
                \/ DrainBegin(t) \/ DrainFails(t) \/ DrainOutputs(t) \/ Count(t)
                \/ DrainEos(t) \/ (GiveBack(t) /\ pending = <<>>)
         PROVE  Slots' /\ Line' = Line
    <2>1. at[t] \notin PopPlaces
      BY <1>11 DEF DrainBegin, DrainFails, DrainOutputs, Count, DrainEos, GiveBack, PopPlaces
    <2>2. \E place \in {"idle", "update", "drain", "drainEos", "drainCall", "drainFailed",
                        "drainFront", "giveBack"} : Goto(t, place)
      <3>1. CASE DrainBegin(t) \/ DrainFails(t) \/ DrainOutputs(t)
        BY <3>1 DEF DrainBegin, DrainFails, DrainOutputs
      <3>2. CASE Count(t)
        <4>1. at[t] = "count" => t = "worker"
          BY PlaceNames DEF TypeOK, WorkTypes, DrainPlaces
        <4> QED
          BY <3>2, <4>1 DEF Count, EndTask
      <3>3. CASE DrainEos(t) \/ (GiveBack(t) /\ pending = <<>>)
        BY <1>6, <3>3 DEF DrainEos, GiveBack, PendingHead
      <3> QED
        BY <1>11, <3>1, <3>2, <3>3
    <2> QED
      BY <1>3, <1>5, <2>1, <2>2
  <1> QED
    BY <1>7, <1>8, <1>9, <1>10, <1>11

\* A work in the middle of being taken is still pending.
LEMMA LineTaken ==
    ASSUME TypeOK, TypeOK', TaskPlaces, Slots, Separate', NEW t \in Threads,
           TakeFront(t) \/ PopFront(t) \/ GiveBackPop(t)
    PROVE  Slots' /\ Line' = Line
  <1>1. /\ at \in [Threads -> Places] /\ front \in [Threads -> 0 .. MaxWorks]
        /\ pending \in Seq(0 .. MaxWorks) /\ pending # <<>>
        /\ at[t] \notin {"idle", "update"}
    <2>1. pending # <<>> /\ at[t] \notin {"idle", "update"}
      BY DEF TakeFront, PopFront, GiveBackPop
    <2> QED
      BY <2>1 DEF TypeOK, WorkTypes, DataTypes
  <1>2. \A u \in Threads : u # t => at'[u] = at[u] /\ front'[u] = front[u]
    BY <1>1 DEF TakeFront, PopFront, GiveBackPop, Goto
  <1>3. CASE TakeFront(t)
    <2>1. /\ at[t] \notin PopPlaces \cup FrontPlaces
          /\ at'[t] \in PopPlaces \cap FrontPlaces
          /\ front'[t] = Head(pending) /\ pending' = [pending EXCEPT ![1] = 0]
      BY <1>1, <1>3 DEF TakeFront, Goto, PopPlaces, FrontPlaces
    <2>2. Rest = pending /\ Line = pending
      BY <1>1, <2>1, LineFor
    <2>3. /\ <<Head(pending)>> \o Tail(pending) = pending /\ Tail(pending') = Tail(pending)
          /\ pending' # <<>> /\ pending'[1] = 0
      BY <1>1, <2>1, HeadAndTail
    <2>4. Head(pending) \in Works /\ Tail(pending) \in Seq(Works) /\ Head(pending) # 0
      <3>1. pending \in Seq(Works)
        BY <2>2 DEF Slots
      <3> QED
        BY <1>1, <3>1, ConstantsAssumption DEF Works
    <2>5. Rest' = Tail(pending) /\ Line' = <<Head(pending)>> \o Rest'
      BY <1>1, <1>2, <2>1, <2>3, <2>4, LineFor
    <2>6. Rest' \in Seq(Works) /\ pending' # <<>> /\ pending'[1] = 0 /\ front'[t] # 0
      BY <2>1, <2>3, <2>4, <2>5
    <2>7. Slots'
      BY <1>1, <1>2, <2>6, LineFor
    <2>8. Line' = Line
      BY <2>2, <2>3, <2>5
    <2> QED
      BY <2>7, <2>8
  <1>4. CASE PopFront(t) \/ GiveBackPop(t)
    <2>1. /\ at[t] \in PopPlaces /\ at'[t] \notin PopPlaces
          /\ at'[t] \in FrontPlaces => at[t] \in FrontPlaces
          /\ front' = front /\ pending' = Tail(pending)
      BY <1>1, <1>4 DEF PopFront, GiveBackPop, Goto, PopPlaces, FrontPlaces
    <2>2. Rest' = Rest
      BY <1>1, <1>2, <2>1, LineFor
    <2>3. Line' = Line
      <3>1. Line = IF front[t] # 0 THEN <<front[t]>> \o Rest ELSE Rest
        BY <1>1, LineFor
      <3>2. Line' = IF front'[t] # 0 THEN <<front'[t]>> \o Rest' ELSE Rest'
        BY <1>1, <1>2, LineFor
      <3>3. front'[t] = front[t]
        BY <2>1
      <3> QED
        BY <2>2, <3>1, <3>2, <3>3
    <2>4. at'[t] \in FrontPlaces => front'[t] # 0
      BY <1>1, <2>1, LineFor
    <2>5. Rest' \in Seq(Works)
      BY <2>2 DEF Slots
    <2> QED
      BY <1>1, <1>2, <2>1, <2>3, <2>4, <2>5, LineFor
  <1> QED
    BY <1>3, <1>4

\* The work pushed last is the last one pending.
LEMMA LineAdds ==
    ASSUME TypeOK, TaskPlaces, Slots, Separate', AddPending
    PROVE  Slots' /\ Line' = Append(Line, hold)
  <1>1. /\ "worker" \in Threads /\ at["worker"] = "pend" /\ hold \in Works
        /\ at'["worker"] \in {"idle", "front"} /\ front' = front
        /\ \A u \in Threads : u # "worker" => at'[u] = at[u]
        /\ pending' = Append(pending, hold)
    BY PlaceNames, InHand DEF AddPending, EndTask, Goto, TypeOK, WorkTypes
  <1>2. /\ at["worker"] \notin PopPlaces \cup FrontPlaces /\ at["worker"] \notin {"idle", "update"}
        /\ at'["worker"] \notin PopPlaces \cup FrontPlaces
    BY <1>1 DEF PopPlaces, FrontPlaces
  <1>3. Rest = pending /\ Line = pending /\ front["worker"] = 0
    BY <1>1, <1>2, LineFor
  <1>4. Rest' = pending' /\ Line' = pending'
    BY <1>1, <1>2, <1>3, LineFor
  <1>5. pending' \in Seq(Works)
    <2>1. pending \in Seq(Works)
      BY <1>3 DEF Slots
    <2> QED
      BY <1>1, <2>1
  <1> QED
    BY <1>1, <1>2, <1>3, <1>4, <1>5, LineFor

\* The first of the works is sent to the waiting thread, or given back.
LEMMA LinePasses ==
    ASSUME TypeOK, TaskPlaces, Slots, Separate', NEW t \in Threads,
           PushFront(t) \/ (GiveBack(t) /\ pending # <<>>)
    PROVE  /\ Slots' /\ Line # <<>> /\ Line' = Tail(Line) /\ Head(Line) \in Works
           /\ PushFront(t) => Head(Line) = front[t]
           /\ GiveBack(t) => Head(Line) = Head(pending)
  <1>1. /\ at \in [Threads -> Places] /\ front \in [Threads -> 0 .. MaxWorks]
        /\ pending \in Seq(0 .. MaxWorks) /\ at[t] \notin {"idle", "update"}
    BY DEF TypeOK, WorkTypes, DataTypes, PushFront, GiveBack
  <1>2. \A u \in Threads : u # t => at'[u] = at[u] /\ front'[u] = front[u]
    BY <1>1 DEF PushFront, GiveBack, Goto, PendingHead
  <1>3. CASE PushFront(t)
    <2>1. /\ at[t] \in FrontPlaces \ PopPlaces /\ at'[t] \notin PopPlaces \cup FrontPlaces
          /\ front'[t] = 0 /\ pending' = pending /\ ~GiveBack(t)
      BY <1>1, <1>3 DEF PushFront, GiveBack, Goto, PopPlaces, FrontPlaces
    <2>2. front[t] \in Works /\ front[t] # 0
      <3>1. front[t] # 0
        BY <1>1, <2>1, LineFor
      <3> QED
        BY <1>1, <3>1 DEF Works
    <2>3. Rest = pending /\ Line = <<front[t]>> \o pending
      BY <1>1, <2>1, <2>2, LineFor
    <2>4. pending \in Seq(Works)
      BY <2>3 DEF Slots
    <2>5. Line # <<>> /\ Head(Line) = front[t] /\ Tail(Line) = pending
      BY <2>2, <2>3, <2>4, FirstOf
    <2>6. Rest' = pending /\ Line' = pending
      BY <1>1, <1>2, <2>1, LineFor
    <2>7. Slots'
      BY <1>1, <1>2, <2>1, <2>4, <2>6, LineFor
    <2> QED
      BY <2>1, <2>2, <2>5, <2>6, <2>7
  <1>4. CASE GiveBack(t) /\ pending # <<>>
    <2>1. /\ at[t] \notin PopPlaces \cup FrontPlaces /\ at'[t] \in PopPlaces \ FrontPlaces
          /\ front' = front /\ pending' = [pending EXCEPT ![1] = 0] /\ ~PushFront(t)
      BY <1>1, <1>4 DEF PushFront, GiveBack, Goto, PopPlaces, FrontPlaces, PendingHead
    <2>2. Rest = pending /\ Line = pending /\ front[t] = 0
      BY <1>1, <2>1, LineFor
    <2>3. Tail(pending') = Tail(pending) /\ pending' # <<>> /\ pending'[1] = 0
      BY <1>1, <1>4, <2>1, HeadAndTail
    <2>4. pending \in Seq(Works) /\ Tail(pending) \in Seq(Works) /\ Head(pending) \in Works
      <3>1. pending \in Seq(Works)
        BY <2>2 DEF Slots
      <3> QED
        BY <1>4, <3>1
    <2>5. Rest' = Tail(pending) /\ Line' = Tail(pending)
      BY <1>1, <1>2, <2>1, <2>2, <2>3, LineFor
    <2>6. Slots'
      BY <1>1, <1>2, <2>1, <2>3, <2>4, <2>5, LineFor
    <2> QED
      BY <1>4, <2>1, <2>2, <2>4, <2>5, <2>6
  <1> QED
    BY <1>3, <1>4

\* When no call and no task is in progress, all that is pending is in the queue.
LEMMA LineAtRest ==
    ASSUME TypeOK, TaskPlaces, Slots, at["caller"] = "idle", task = NoCmd
    PROVE  Line = pending /\ Rest = pending /\ \A t \in Threads : front[t] = 0
  <1>1. \A t \in Threads : at[t] = "idle"
    BY PlaceNames DEF TypeOK, WorkTypes
  <1>2. \A t \in Threads : at[t] \notin PopPlaces /\ front[t] = 0
    BY <1>1 DEF PopPlaces, FrontPlaces, TaskPlaces, ThreadPlaces
  <1> QED
    BY <1>2, PlaceNames DEF Line, Lined, Rest, Remaining, Taken

LEMMA LineStops ==
    ASSUME TypeOK, TaskPlaces, Slots, Separate', Joined, StopPending
    PROVE  /\ Slots' /\ Line = pending /\ Line' = <<>> /\ pending \in Seq(Works)
           /\ \A t \in Threads : front[t] = 0
  <1>1. /\ at["caller"] = "idle" /\ task = NoCmd /\ UNCHANGED <<at, front>> /\ pending' = <<>>
    BY DEF StopPending, Joined
  <1>2. Line = pending /\ Rest = pending /\ \A t \in Threads : front[t] = 0
    BY <1>1, LineAtRest
  <1>3. \A t \in Threads : at[t] \notin PopPlaces \cup FrontPlaces
    <2>1. \A t \in Threads : at[t] = "idle"
      BY <1>1, PlaceNames DEF TypeOK, WorkTypes
    <2> QED
      BY <2>1 DEF PopPlaces, FrontPlaces
  <1>4. Rest' = <<>> /\ Line' = <<>>
    BY <1>1, <1>2, <1>3, PlaceNames DEF Line, Lined, Rest, Remaining, Taken
  <1>5. pending \in Seq(Works)
    BY <1>2 DEF Slots
  <1> QED
    BY <1>1, <1>2, <1>3, <1>4, <1>5 DEF Slots

LEMMA SlotsStep ==
    ASSUME TypeOK, TypeOK', TaskPlaces, Slots, Separate', Joined, Next
    PROVE  Slots'
  BY PlaceNames, LineStays, LineTaken, LineAdds, LinePasses, LineStops
  DEF Next, Stop, Working, DoWork, Drain

\* The works that are pending are those of the queue and those the threads have taken.
LEMMA PendingLined == ASSUME TypeOK, TaskPlaces, Slots PROVE InPending = Listed(Line)
  <1>1. /\ pending \in Seq(0 .. MaxWorks) /\ front \in [Threads -> 0 .. MaxWorks]
    BY DEF TypeOK, WorkTypes, DataTypes
  <1>2. Ids(pending) \ {0} = Listed(Rest)
    <2>1. 0 \notin Listed(Rest)
      <3>1. Rest \in Seq(Works) /\ 0 \notin Works
        BY ConstantsAssumption DEF Slots, Works
      <3> QED
        BY <3>1 DEF Listed
    <2>2. Ids(pending) = Listed(pending)
      BY DEF Ids, Listed
    <2>3. CASE Rest = pending
      BY <2>1, <2>2, <2>3
    <2>4. CASE Rest # pending
      <3>1. pending # <<>> /\ pending[1] = 0 /\ Rest = Tail(pending)
        BY <2>4 DEF Rest, Remaining, Slots
      <3>2. Listed(pending) = Listed(Tail(pending)) \cup {Head(pending)} /\ Head(pending) = pending[1]
        BY <1>1, <3>1, ListedTail
      <3> QED
        BY <2>1, <2>2, <3>1, <3>2
    <2> QED
      BY <2>3, <2>4
  <1>3. { front[t] : t \in Threads } \ {0} = {Taken(front)} \ {0}
    <2>1. front["caller"] = 0 \/ front["worker"] = 0
      <3>1. front["caller"] # 0 /\ front["worker"] # 0 =>
                at["caller"] \in FrontPlaces /\ at["worker"] \in FrontPlaces
        BY PlaceNames DEF TaskPlaces, ThreadPlaces
      <3> QED
        BY <3>1, Solo, PlaceNames DEF Slots, FrontPlaces
    <2> QED
      BY <2>1, PlaceNames DEF Taken, Threads
  <1>4. Listed(Line) = Listed(Rest) \cup ({Taken(front)} \ {0})
    <2>1. CASE Taken(front) = 0
      BY <2>1 DEF Line, Lined, Rest
    <2>2. CASE Taken(front) # 0
      <3>1. Taken(front) \in Works /\ Rest \in Seq(Works)
        <4>1. Taken(front) \in 0 .. MaxWorks
          BY <1>1, PlaceNames DEF Taken
        <4> QED
          BY <2>2, <4>1 DEF Slots, Works
      <3>2. Line = <<Taken(front)>> \o Rest
        BY <2>2 DEF Line, Lined, Rest
      <3> QED
        BY <2>2, <3>1, <3>2, FirstOf
    <2> QED
      BY <2>1, <2>2
  <1>5. InPending = (Ids(pending) \ {0}) \cup ({ front[t] : t \in Threads } \ {0})
    BY DEF InPending
  <1> QED
    BY <1>2, <1>3, <1>4, <1>5

LEMMA LineType == ASSUME TypeOK, TaskPlaces, Slots PROVE Line \in Seq(Works)
  <1>1. CASE Taken(front) = 0
    BY <1>1 DEF Line, Lined, Rest, Slots
  <1>2. CASE Taken(front) # 0
    <2>1. Taken(front) \in Works /\ Rest \in Seq(Works)
      <3>1. Taken(front) \in 0 .. MaxWorks
        BY PlaceNames DEF Taken, TypeOK, WorkTypes
      <3> QED
        BY <1>2, <3>1 DEF Slots, Works
    <2> QED
      BY <1>2, <2>1, FirstOf DEF Line, Lined, Rest
  <1> QED
    BY <1>1, <1>2

LEMMA PendingLinedAlways == TypeOK /\ TaskPlaces /\ Slots => InPending = Listed(Line)
  BY PendingLined

LEMMA PendingLinedNext == ASSUME TypeOK', TaskPlaces', Slots' PROVE InPending' = Listed(Line)'
  <1>1. (TypeOK /\ TaskPlaces /\ Slots => InPending = Listed(Line))'
    BY PendingLinedAlways, PTL
  <1> QED
    BY <1>1

-----------------------------------------------------------------------------
(* Every work is in one place *)

\* No list has a work twice.
OnceEach == /\ CarriedOnce(workq) /\ CarriedOnce(waitq) /\ CarriedOnce(back)
            /\ ListedOnce(Line)

\* The works in all places are the queued ones, and no work is in two places.
InPlaces == Everywhere(WorkPlaces) = Queued /\ Apart(WorkPlaces)

OnePlace == InPlaces /\ OnceEach

\* The places, by their numbers.
Named == /\ DOMAIN WorkPlaces = 1 .. 7
         /\ WorkPlaces[1] = Carried(workq) /\ WorkPlaces[2] = InTask
         /\ WorkPlaces[3] = InPending /\ WorkPlaces[4] = Carried(waitq)
         /\ WorkPlaces[5] = InJob /\ WorkPlaces[6] = Back /\ WorkPlaces[7] = dropped

LEMMA PlacesNamed == Named /\ Named'
  <1>1. Named
    BY DEF Named, WorkPlaces, WorksOf, Carried
  <1>2. Named'
    BY DEF Named, WorkPlaces, WorksOf, Carried
  <1> QED
    BY <1>1, <1>2

\* The pending works are taken one thread at a time.
Orderly == TypeOK /\ TaskPlaces /\ Slots

LEMMA PendingPlace ==
    ASSUME Orderly, Orderly'
    PROVE  WorkPlaces[3] = Listed(Line) /\ WorkPlaces'[3] = Listed(Line')
  BY PendingLined, PendingLinedNext, PlacesNamed DEF Orderly, Named

LEMMA LineKept == ASSUME Orderly, Orderly', Line' = Line PROVE InPending' = InPending
  BY PendingLined, PendingLinedNext DEF Orderly

LEMMA ReturnedWorks ==
    ASSUME NEW list \in Seq([work : Works, what : {"header", "data", "bare", "nothing"}])
    PROVE  /\ \A i \in DOMAIN list : list[i].work \in Works /\ list[i].work # 0
           /\ { list[i].work : i \in DOMAIN list } = Carried(list)
  <1> DEFINE Record == [work : Works, what : {"header", "data", "bare", "nothing"}]
  <1>1. \A r \in Record : r.work \in Works
    OBVIOUS
  <1>2. list \in Seq(Record)
    OBVIOUS
  <1> HIDE DEF Record
  <1>3. \A i \in DOMAIN list : list[i] \in Record
    BY <1>2
  <1>4. \A w \in Works : w # 0
    BY ConstantsAssumption DEF Works
  <1>5. \A i \in DOMAIN list : list[i].work \in Works /\ list[i].work # 0
    BY <1>1, <1>3, <1>4
  <1> QED
    BY <1>5 DEF Carried

LEMMA BackCarried == ASSUME TypeOK PROVE Back = Carried(back)
  BY ReturnedWorks DEF TypeOK, ClientTypes, Back

LEMMA BackCarriedNext == ASSUME TypeOK' PROVE Back' = Carried(back')
  BY ReturnedWorks DEF TypeOK, ClientTypes, Back

\* The list of the works given back is as long as it has works.
LEMMA OnePlaceImplies == ASSUME TypeOK, OnePlace PROVE EveryWorkInOnePlace
  <1> DEFINE Record == [work : Works, what : {"header", "data", "bare", "nothing"}]
  <1>1. back \in Seq(Record)
    BY DEF TypeOK, ClientTypes
  <1>2. \A i \in DOMAIN back : back[i].work # 0
    BY <1>1, ReturnedWorks
  <1> HIDE DEF Record
  <1>3. Cardinality(Carried(back)) = Len(back)
    BY <1>1, <1>2, CarriedCount DEF OnePlace, OnceEach
  <1>4. /\ UNION { WorkPlaces[i] : i \in DOMAIN WorkPlaces } = Queued
        /\ \A i, j \in DOMAIN WorkPlaces : i # j => WorkPlaces[i] \cap WorkPlaces[j] = {}
    BY DEF OnePlace, InPlaces, Everywhere, Apart
  <1> QED
    BY <1>3, <1>4, BackCarried DEF EveryWorkInOnePlace

\* Two different places have no work in common.
LEMMA Disjoint ==
    ASSUME OnePlace
    PROVE  \A i, j \in 1 .. 7 : i # j => WorkPlaces[i] \cap WorkPlaces[j] = {}
  BY PlacesNamed DEF Named, OnePlace, InPlaces, Apart

\* A step that takes works from place a to place b.
Travels(a, b) == /\ a \in 1 .. 7 /\ b \in 1 .. 7 /\ a # b
                 /\ WorkPlaces'[a] \subseteq WorkPlaces[a]
                 /\ WorkPlaces'[b] = WorkPlaces[b] \cup (WorkPlaces[a] \ WorkPlaces'[a])
                 /\ \A i \in 1 .. 7 : i # a /\ i # b => WorkPlaces'[i] = WorkPlaces[i]

LEMMA Travel ==
    ASSUME OnePlace, kinds' = kinds, OnceEach', NEW a, NEW b, Travels(a, b)
    PROVE  OnePlace'
  <1>1. DOMAIN WorkPlaces = 1 .. 7 /\ DOMAIN WorkPlaces' = 1 .. 7
    BY PlacesNamed DEF Named
  <1>2. Everywhere(WorkPlaces) = Queued /\ Apart(WorkPlaces)
    BY DEF OnePlace, InPlaces
  <1>3. Everywhere(WorkPlaces') = Everywhere(WorkPlaces) /\ Apart(WorkPlaces')
    BY <1>1, <1>2, Moved DEF Travels
  <1>4. Queued' = Queued
    BY DEF Queued
  <1>5. InPlaces'
    BY <1>2, <1>3, <1>4 DEF InPlaces, Everywhere, Apart
  <1> QED
    BY <1>5 DEF OnePlace

\* A step that leaves every place alone.
LEMMA Settled ==
    ASSUME OnePlace, kinds' = kinds, OnceEach',
           \A i \in 1 .. 7 : WorkPlaces'[i] = WorkPlaces[i]
    PROVE  OnePlace'
  <1>1. DOMAIN WorkPlaces = 1 .. 7 /\ DOMAIN WorkPlaces' = 1 .. 7
    BY PlacesNamed DEF Named
  <1>2. InPlaces'
    BY <1>1 DEF OnePlace, InPlaces, Everywhere, Apart, Queued
  <1> QED
    BY <1>2 DEF OnePlace

LEMMA PlacesFrame ==
    ASSUME Orderly, Orderly', OnePlace, Line' = Line,
           UNCHANGED <<kinds, workq, hold, waitq, job, found, back, dropped>>
    PROVE  OnePlace'
  <1>1. OnceEach'
    BY DEF OnePlace, OnceEach, CarriedOnce, ListedOnce
  <1>2. \A i \in 1 .. 7 : WorkPlaces'[i] = WorkPlaces[i]
    <2>1. InTask' = InTask /\ InJob' = InJob /\ Back' = Back /\ InPending' = InPending
      BY LineKept DEF InTask, InJob, Back
    <2> QED
      BY <2>1, PlacesNamed DEF Named
  <1> QED
    BY <1>1, <1>2, Settled

LEMMA OnePlaceInit == ASSUME Init PROVE OnePlace
  <1>1. workq = <<>> /\ waitq = <<>> /\ back = <<>> /\ dropped = {} /\ hold = 0
        /\ job.op = "stop" /\ found = "idle" /\ kinds = <<>>
    BY CommandFields DEF Init, W!Init, V!Init
  <1>2. OnceEach
    BY <1>1, SlotsInit DEF OnceEach, CarriedOnce, ListedOnce
  <1>5. InPending = {}
    BY TypeInit, SlotsInit, PendingLined DEF Listed
  <1>3. \A i \in 1 .. 7 : WorkPlaces[i] = {}
    BY <1>1, <1>5, PlacesNamed DEF Named, Carried, InTask, InJob, Back
  <1>4. Queued = {}
    BY <1>1 DEF Queued
  <1> QED
    BY <1>2, <1>3, <1>4, PlacesNamed DEF OnePlace, InPlaces, Everywhere, Apart, Named

\* A work that is given back was in one place, and is now in the list.
LEMMA Returned ==
    ASSUME TypeOK, TypeOK', OnceEach, NEW w \in Works, NEW what \in {"header", "data", "bare", "nothing"},
           Return(w, what), w \notin Back
    PROVE  Back' = Back \cup {w} /\ CarriedOnce(back')
  <1> DEFINE Record == [work : Works, what : {"header", "data", "bare", "nothing"}]
             record == [work |-> w, what |-> what]
  <1>1. record \in Record /\ record.work = w
    OBVIOUS
  <1>2. back' = Append(back, record) /\ back \in Seq(Record)
    BY DEF Return, TypeOK, ClientTypes
  <1>3. w # 0
    BY ConstantsAssumption DEF Works
  <1> HIDE DEF record, Record
  <1>4. Carried(back') = Carried(back) \cup {w} /\ CarriedOnce(back')
    BY <1>1, <1>2, <1>3, BackCarried, CarriedAppend DEF OnceEach
  <1> QED
    BY <1>4, BackCarried, BackCarriedNext

\* Commands that are pushed or popped, with the works they carry.
LEMMA QueueLists ==
    ASSUME TypeOK
    PROVE  /\ \A c \in WorkCmds \cup {NoCmd} :
                /\ Carried(Append(workq, c)) = Carried(workq) \cup ({c.work} \ {0})
                /\ CarriedOnce(workq) /\ c.work \notin Carried(workq)
                        => CarriedOnce(Append(workq, c))
           /\ \A c \in WaitCmds \cup {NoCmd} :
                /\ Carried(Append(waitq, c)) = Carried(waitq) \cup ({c.work} \ {0})
                /\ CarriedOnce(waitq) /\ c.work \notin Carried(waitq)
                        => CarriedOnce(Append(waitq, c))
           /\ workq # <<>> =>
                /\ Carried(workq) = Carried(Tail(workq)) \cup ({Head(workq).work} \ {0})
                /\ CarriedOnce(workq) => /\ CarriedOnce(Tail(workq))
                                         /\ Head(workq).work \notin Carried(Tail(workq))
           /\ waitq # <<>> =>
                /\ Carried(waitq) = Carried(Tail(waitq)) \cup ({Head(waitq).work} \ {0})
                /\ CarriedOnce(waitq) => /\ CarriedOnce(Tail(waitq))
                                         /\ Head(waitq).work \notin Carried(Tail(waitq))
  <1>1. workq \in Seq(WorkCmds \cup {NoCmd}) /\ waitq \in Seq(WaitCmds \cup {NoCmd})
    BY DEF TypeOK, WorkTypes, WaitTypes
  <1> QED
    BY <1>1, CarriedAppend, CarriedTail

LEMMA LineLists ==
    ASSUME TypeOK, TaskPlaces, Slots
    PROVE  /\ Line # <<>> =>
                /\ Listed(Line) = Listed(Tail(Line)) \cup {Head(Line)}
                /\ ListedOnce(Line) => /\ ListedOnce(Tail(Line))
                                       /\ Head(Line) \notin Listed(Tail(Line))
           /\ \A w \in Works :
                /\ Listed(Append(Line, w)) = Listed(Line) \cup {w}
                /\ ListedOnce(Line) /\ w \notin Listed(Line) => ListedOnce(Append(Line, w))
  BY LineType, ListedAppend, ListedTail

LEMMA NoWorkCarried == 0 \notin Carried(workq) /\ 0 \notin Carried(waitq)
  BY DEF Carried

\* A command without a work adds none.
LEMMA PushesNoWork ==
    ASSUME TypeOK, OnceEach, NEW c, c.work = 0
    PROVE  /\ c \in WorkCmds \cup {NoCmd} =>
                Carried(Append(workq, c)) = Carried(workq) /\ CarriedOnce(Append(workq, c))
           /\ c \in WaitCmds \cup {NoCmd} =>
                Carried(Append(waitq, c)) = Carried(waitq) /\ CarriedOnce(Append(waitq, c))
  <1>1. {c.work} \ {0} = {}
    OBVIOUS
  <1>2. ASSUME c \in WorkCmds \cup {NoCmd}
        PROVE  Carried(Append(workq, c)) = Carried(workq) /\ CarriedOnce(Append(workq, c))
    <2>1. Carried(Append(workq, c)) = Carried(workq) \cup ({c.work} \ {0})
      BY <1>2, QueueLists
    <2>2. CarriedOnce(Append(workq, c))
      BY <1>2, QueueLists, NoWorkCarried DEF OnceEach
    <2> QED
      BY <1>1, <2>1, <2>2
  <1>3. ASSUME c \in WaitCmds \cup {NoCmd}
        PROVE  Carried(Append(waitq, c)) = Carried(waitq) /\ CarriedOnce(Append(waitq, c))
    <2>1. Carried(Append(waitq, c)) = Carried(waitq) \cup ({c.work} \ {0})
      BY <1>3, QueueLists
    <2>2. CarriedOnce(Append(waitq, c))
      BY <1>3, QueueLists, NoWorkCarried DEF OnceEach
    <2> QED
      BY <1>1, <2>1, <2>2
  <1> QED
    BY <1>2, <1>3

\* Start, stop and the steps that touch no work.
LEMMA OnePlaceIdle ==
    ASSUME Orderly, Orderly', OnePlace,
           \/ Start \/ StartFails \/ Configure \/ StopJoined \/ WorkReady \/ ApplyTunings \/ Update
           \/ \E t \in Threads : \/ DrainBegin(t) \/ DrainFails(t) \/ DrainOutputs(t) \/ Count(t)
                                 \/ TakeFront(t) \/ PopFront(t) \/ GiveBackPop(t)
    PROVE  OnePlace'
  <1>1. UNCHANGED <<kinds, hold, waitq, job, found, back, dropped>>
    BY DEF Start, StartFails, Configure, StopJoined, WorkReady, ApplyTunings, Update, DrainBegin,
           DrainFails, DrainOutputs, Count, TakeFront, PopFront, GiveBackPop, V!Start, V!Join,
           apiVars, waitVars, clientVars
  <1>2. workq' = workq
    BY DEF Start, StartFails, Configure, StopJoined, WorkReady, ApplyTunings, Update, DrainBegin,
           DrainFails, DrainOutputs, Count, TakeFront, PopFront, GiveBackPop, W!Start, workQueue,
           EndTask, W!Finish
  <1>3. Line' = Line
    BY LineStays, LineTaken DEF Orderly, Slots
  <1> QED
    BY <1>1, <1>2, <1>3, PlacesFrame

\* Commands without a work, and tasks that end without one.
LEMMA OnePlaceNoWork ==
    ASSUME Orderly, Orderly', OnePlace,
           \/ ConfigureEnds \/ (\E outputs \in BOOLEAN : CallEncode(outputs))
           \/ RetainLockedFrame \/ WaitWorkCounts
    PROVE  OnePlace'
  <1> USE DEF Orderly
  <1>8. Line' = Line /\ InPending' = InPending
    BY LineStays, LineKept DEF Slots, Waiting
  <1>1. UNCHANGED <<kinds, hold, back, dropped>>
    BY DEF ConfigureEnds, CallEncode, RetainLockedFrame, WaitWorkCounts, apiVars, clientVars
  <1>2. Carried(workq') = Carried(workq) /\ CarriedOnce(workq')
    <2>1. CASE ConfigureEnds
      <3> DEFINE update == Cmd("update", 0, 0)
      <3>1. workq' = Append(workq, update) /\ update \in WorkCmds /\ update.work = 0
        BY <2>1, CommandsMade, CommandMade DEF ConfigureEnds, W!Push
      <3> HIDE DEF update
      <3> QED
        BY <3>1, PushesNoWork DEF OnePlace
    <2>2. CASE workq' = workq
      BY <2>2 DEF OnePlace, OnceEach
    <2> QED
      BY <2>1, <2>2 DEF CallEncode, RetainLockedFrame, WaitWorkCounts, workQueue
  <1>3. Carried(waitq') = Carried(waitq) /\ CarriedOnce(waitq')
    <2>1. ASSUME NEW outputs \in BOOLEAN, CallEncode(outputs)
          PROVE  Carried(waitq') = Carried(waitq) /\ CarriedOnce(waitq')
      <3>1. hold \in Works
        BY <2>1, InHand DEF CallEncode
      <3>2. waitq' = Append(waitq, Cmd("retain", 0, hold)) /\ Cmd("retain", 0, hold) \in WaitCmds
            /\ Cmd("retain", 0, hold).work = 0
        BY <2>1, <3>1, CommandsMade, CommandMade DEF CallEncode, V!Push
      <3> QED
        BY <3>2, PushesNoWork DEF OnePlace
    <2>2. CASE waitq' = waitq
      BY <2>2 DEF OnePlace, OnceEach
    <2> QED
      BY <2>1, <2>2 DEF ConfigureEnds, RetainLockedFrame, WaitWorkCounts, V!Finish, waitVars
  <1>4. InJob' = InJob
    <2>1. CASE UNCHANGED <<job, found>>
      BY <2>1 DEF InJob
    <2>2. CASE RetainLockedFrame \/ WaitWorkCounts
      <3>1. job' = NoCmd /\ found' = "idle" /\ job.op \in {"retain", "wait"} /\ found # "sync"
        <4>1. found # "idle" <=> job.op = "wait"
          BY DEF TypeOK, WaitTypes
        <4>2. CASE RetainLockedFrame
          BY <4>1, <4>2 DEF RetainLockedFrame, V!Finish
        <4>3. CASE WaitWorkCounts
          BY <4>1, <4>3 DEF WaitWorkCounts, V!Finish
        <4> QED
          BY <2>2, <4>2, <4>3
      <3> QED
        BY <3>1, CommandFields DEF InJob
    <2> QED
      BY <2>1, <2>2 DEF ConfigureEnds, CallEncode, V!Push, waitVars
  <1>5. OnceEach'
    BY <1>1, <1>2, <1>3, <1>8 DEF OnePlace, OnceEach, ListedOnce, CarriedOnce
  <1>6. InTask' = InTask /\ Back' = Back /\ InPending' = InPending
    BY <1>1, <1>8 DEF InTask, Back
  <1>7. \A i \in 1 .. 7 : WorkPlaces'[i] = WorkPlaces[i]
    BY <1>1, <1>2, <1>3, <1>4, <1>6, PlacesNamed DEF Named
  <1> QED
    BY <1>1, <1>5, <1>7, Settled

\* A work that is queued is in one place from then on.
LEMMA Arrive ==
    ASSUME OnePlace, OnceEach', NEW a \in 1 .. 7, kinds \in Seq(Kinds),
           Len(kinds') = Len(kinds) + 1,
           WorkPlaces'[a] = WorkPlaces[a] \cup {Len(kinds) + 1},
           \A i \in 1 .. 7 : i # a => WorkPlaces'[i] = WorkPlaces[i]
    PROVE  OnePlace'
  <1> DEFINE w == Len(kinds) + 1
  <1>1. DOMAIN WorkPlaces = 1 .. 7 /\ DOMAIN WorkPlaces' = 1 .. 7
    BY PlacesNamed DEF Named
  <1>2. Queued' = Queued \cup {w} /\ w \notin Queued
    BY DEF Queued
  <1>3. Everywhere(WorkPlaces) = Queued /\ Apart(WorkPlaces)
    BY DEF OnePlace, InPlaces
  <1> HIDE DEF w
  <1>4. Everywhere(WorkPlaces') = Everywhere(WorkPlaces) \cup {w} /\ Apart(WorkPlaces')
    BY <1>1, <1>2, <1>3, Placed DEF w
  <1>5. InPlaces'
    BY <1>2, <1>3, <1>4 DEF InPlaces, Everywhere, Apart
  <1> QED
    BY <1>5 DEF OnePlace

LEMMA OnePlaceQueue ==
    ASSUME Orderly, Orderly', OnePlace, NEW kind \in Kinds, QueueWork(kind)
    PROVE  OnePlace'
  <1> USE DEF Orderly
  <1> DEFINE w == Len(kinds) + 1
  <1>1. /\ kinds \in Seq(Kinds) /\ Len(kinds') = Len(kinds) + 1 /\ w \in Works /\ w # 0
    BY DEF QueueWork, TypeOK, CallTypes, Works
  <1>2. /\ UNCHANGED <<hold, waitq, job, found, dropped>> /\ Line' = Line
        /\ InTask' = InTask /\ InJob' = InJob /\ InPending' = InPending
        /\ Carried(waitq') = Carried(waitq)
    BY LineStays, LineKept DEF QueueWork, waitVars, InTask, InJob, Slots
  <1>3. \A i \in 1 .. 7 : w \notin WorkPlaces[i]
    <2>1. w \notin Queued
      BY <1>1 DEF Queued
    <2> HIDE DEF w
    <2> QED
      BY <2>1, PlacesNamed DEF OnePlace, InPlaces, Everywhere, Named
  <1> HIDE DEF w
  <1>4. CASE kind = "empty"
    <2>1. Return(w, "nothing") /\ workq' = workq
      BY <1>4 DEF QueueWork, workQueue, w
    <2>2. w \notin Back
      BY <1>3, PlacesNamed DEF Named
    <2>3. Back' = Back \cup {w} /\ CarriedOnce(back')
      BY <1>1, <2>1, <2>2, Returned DEF OnePlace
    <2>4. OnceEach'
      BY <1>2, <2>1, <2>3 DEF OnePlace, OnceEach, CarriedOnce, ListedOnce
    <2>5. /\ WorkPlaces'[6] = WorkPlaces[6] \cup {w}
          /\ \A i \in 1 .. 7 : i # 6 => WorkPlaces'[i] = WorkPlaces[i]
      BY <1>2, <2>1, <2>3, PlacesNamed DEF Named
    <2> QED
      BY <1>1, <2>4, <2>5, Arrive DEF w
  <1>5. ASSUME back' = back, Carried(workq') = Carried(workq) \cup {w}, CarriedOnce(workq')
        PROVE  OnePlace'
    <2>1. OnceEach' /\ Back' = Back
      BY <1>2, <1>5 DEF OnePlace, OnceEach, CarriedOnce, ListedOnce, Back
    <2>2. /\ WorkPlaces'[1] = WorkPlaces[1] \cup {w}
          /\ \A i \in 1 .. 7 : i # 1 => WorkPlaces'[i] = WorkPlaces[i]
      BY <1>2, <1>5, <2>1, PlacesNamed DEF Named
    <2> QED
      BY <1>1, <2>1, <2>2, Arrive DEF w
  <1>6. w \notin Carried(workq) /\ CarriedOnce(workq)
    BY <1>3, PlacesNamed DEF Named, OnePlace, OnceEach
  <1>7. ASSUME NEW c \in WorkCmds, c.work = w
        PROVE  /\ Carried(Append(workq, c)) = Carried(workq) \cup {w}
               /\ CarriedOnce(Append(workq, c))
    BY <1>1, <1>6, <1>7, QueueLists
  <1>8. CASE kind = "eos"
    <2>1. back' = back /\ workq' = Append(workq, Cmd("drain", w, 0))
          /\ Cmd("drain", w, 0) \in WorkCmds /\ Cmd("drain", w, 0).work = w
      BY <1>1, <1>8, CommandsMade, CommandMade DEF QueueWork, W!Push, w
    <2> QED
      BY <1>5, <1>7, <2>1
  <1>9. CASE kind \in {"frame", "tuned"}
    <2>1. back' = back /\ workq' = Append(workq, Cmd("work", w, 0))
          /\ Cmd("work", w, 0) \in WorkCmds /\ Cmd("work", w, 0).work = w
      BY <1>1, <1>9, CommandsMade, CommandMade DEF QueueWork, W!Push, w
    <2> QED
      BY <1>5, <1>7, <2>1
  <1>10. CASE kind = "frameEos"
    <2> DEFINE first == Cmd("work", w, 0)
               second == Cmd("drain", 0, 0)
               longer == Append(workq, first)
    <2>1. back' = back /\ workq' = workq \o <<first, second>>
      BY <1>10 DEF QueueWork, w
    <2>2. /\ first \in WorkCmds /\ first.work = w /\ second \in WorkCmds /\ second.work = 0
          /\ workq \in Seq(WorkCmds \cup {NoCmd})
      BY <1>1, CommandsMade, CommandMade DEF TypeOK, WorkTypes
    <2> HIDE DEF first, second
    <2>3. workq' = Append(longer, second) /\ longer \in Seq(WorkCmds \cup {NoCmd})
      BY <2>1, <2>2
    <2>4. Carried(longer) = Carried(workq) \cup {w} /\ CarriedOnce(longer)
      BY <1>7, <2>2
    <2> HIDE DEF longer
    <2>5. Carried(workq') = Carried(longer) \cup ({second.work} \ {0})
          /\ (second.work \notin Carried(longer) => CarriedOnce(workq'))
      BY <2>2, <2>3, <2>4, CarriedAppend
    <2>6. {second.work} \ {0} = {} /\ second.work \notin Carried(longer)
      BY <2>2 DEF Carried
    <2> QED
      BY <1>5, <2>1, <2>4, <2>5, <2>6
  <1> QED
    BY <1>4, <1>8, <1>9, <1>10 DEF QueueWork

LEMMA OnePlaceStop ==
    ASSUME Orderly, Orderly', Joined, OnePlace,
           (\E abort \in BOOLEAN : StopWorking(abort)) \/ StopWaiting \/ StopPending
    PROVE  OnePlace'
  <1> USE DEF Orderly
  <1>0. OnceEach /\ <<NoCmd>> \in Seq(WorkCmds \cup {NoCmd})
        /\ Carried(<<NoCmd>>) = {} /\ CarriedOnce(<<NoCmd>>)
    BY CommandFields DEF OnePlace, Carried, CarriedOnce
  <1>1. ASSUME NEW abort \in BOOLEAN, StopWorking(abort)
        PROVE  OnePlace'
    <2>1. /\ UNCHANGED <<kinds, hold, waitq, job, found, back>> /\ Line' = Line
          /\ Carried(waitq') = Carried(waitq) /\ InPending' = InPending
          /\ InTask' = InTask /\ InJob' = InJob /\ Back' = Back
      BY <1>1, LineStays, LineKept DEF StopWorking, waitVars, InTask, InJob, Back, Slots
    <2>2. CASE abort
      <3>1. workq' = <<NoCmd>> /\ dropped' = dropped \cup Carried(workq)
        BY <1>1, <2>2 DEF StopWorking, W!Shutdown, Destroyed, WorksOf, Carried
      <3>2. OnceEach'
        BY <1>0, <2>1, <3>1 DEF OnceEach, CarriedOnce, ListedOnce
      <3>3. Travels(1, 7)
        BY <1>0, <2>1, <3>1, PlacesNamed DEF Travels, Named
      <3> QED
        BY <2>1, <3>2, <3>3, Travel
    <2>3. CASE ~abort
      <3>1. workq' = Append(workq, NoCmd) /\ dropped' = dropped
        BY <1>1, <2>3 DEF StopWorking, W!Shutdown, Destroyed
      <3>2. Carried(workq') = Carried(workq) /\ CarriedOnce(workq')
        BY <1>0, <3>1, PushesNoWork, CommandFields
      <3>3. OnceEach'
        BY <1>0, <2>1, <3>2 DEF OnceEach, CarriedOnce, ListedOnce
      <3>4. \A i \in 1 .. 7 : WorkPlaces'[i] = WorkPlaces[i]
        BY <2>1, <3>1, <3>2, PlacesNamed DEF Named
      <3> QED
        BY <2>1, <3>3, <3>4, Settled
    <2> QED
      BY <2>2, <2>3
  <1>2. CASE StopWaiting
    <2>1. /\ UNCHANGED <<kinds, workq, hold, job, found, back>> /\ Line' = Line
          /\ Carried(workq') = Carried(workq) /\ InPending' = InPending
          /\ InTask' = InTask /\ InJob' = InJob /\ Back' = Back
      BY <1>2, LineStays, LineKept
      DEF StopWaiting, W!Join, V!Shutdown, workQueue, InTask, InJob, Back, Slots
    <2>2. CASE aborting
      <3>1. waitq' = <<NoCmd>> /\ dropped' = dropped \cup Carried(waitq)
        BY <1>2, <2>2 DEF StopWaiting, V!Shutdown, Destroyed, WorksOf, Carried
      <3>2. OnceEach'
        BY <1>0, <2>1, <3>1 DEF OnceEach, CarriedOnce, ListedOnce
      <3>3. Travels(4, 7)
        BY <1>0, <2>1, <3>1, PlacesNamed DEF Travels, Named
      <3> QED
        BY <2>1, <3>2, <3>3, Travel
    <2>3. CASE ~aborting
      <3>1. waitq' = Append(waitq, NoCmd) /\ dropped' = dropped
        BY <1>2, <2>3 DEF StopWaiting, V!Shutdown, Destroyed
      <3>2. Carried(waitq') = Carried(waitq) /\ CarriedOnce(waitq')
        BY <1>0, <3>1, PushesNoWork, CommandFields
      <3>3. OnceEach'
        BY <1>0, <2>1, <3>2 DEF OnceEach, CarriedOnce, ListedOnce
      <3>4. \A i \in 1 .. 7 : WorkPlaces'[i] = WorkPlaces[i]
        BY <2>1, <3>1, <3>2, PlacesNamed DEF Named
      <3> QED
        BY <2>1, <3>3, <3>4, Settled
    <2> QED
      BY <2>2, <2>3
  <1>3. CASE StopPending
    <2> DEFINE Record == [work : Works, what : {"header", "data", "bare", "nothing"}]
               returned == [i \in DOMAIN pending |-> [work |-> pending[i], what |-> "nothing"]]
    <2>1. /\ UNCHANGED <<kinds, workq, hold, waitq, job, found, dropped>>
          /\ Carried(workq') = Carried(workq) /\ Carried(waitq') = Carried(waitq)
          /\ InTask' = InTask /\ InJob' = InJob
      BY <1>3 DEF StopPending, workQueue, waitVars, InTask, InJob
    <2>2. /\ Line = pending /\ Line' = <<>> /\ back' = back \o returned
      BY <1>3, LineStops DEF StopPending, Slots
    <2>3. /\ pending \in Seq(Works) /\ back \in Seq(Record)
      BY <1>3, LineStops DEF TypeOK, DataTypes, ClientTypes, Slots
    <2>4. /\ DOMAIN pending = 1 .. Len(pending) /\ Len(pending) \in Nat
          /\ \A i \in DOMAIN pending : pending[i] \in Works /\ pending[i] # 0
      BY <2>3, ConstantsAssumption DEF Works
    <2>5. \A i \in DOMAIN pending : [work |-> pending[i], what |-> "nothing"] \in Record
      BY <2>4
    <2> HIDE DEF Record
    <2>6. returned \in Seq(Record) /\ DOMAIN returned = DOMAIN pending
          /\ \A i \in DOMAIN pending : returned[i].work = pending[i]
      BY <2>4, <2>5
    <2> HIDE DEF returned
    <2>7. Carried(returned) = Listed(pending) /\ CarriedOnce(returned)
      <3>1. \A i, j \in DOMAIN pending : pending[i] = pending[j] => i = j
        BY <1>0, <2>2 DEF OnceEach, ListedOnce
      <3> QED
        BY <2>4, <2>6, <3>1 DEF Carried, Listed, CarriedOnce
    <2>8. Listed(pending) \cap Carried(back) = {}
      BY <2>2, Disjoint, PlacesNamed, PendingPlace, BackCarried DEF Named
    <2>9. Carried(back') = Carried(back) \cup Listed(pending) /\ CarriedOnce(back')
      BY <1>0, <2>2, <2>3, <2>6, <2>7, <2>8, CarriedConcat DEF OnceEach
    <2>10. OnceEach'
      BY <1>0, <2>1, <2>2, <2>9 DEF OnceEach, CarriedOnce, ListedOnce
    <2>11. Listed(Line') = {} /\ Back' = Back \cup Listed(Line)
      BY <2>2, <2>9, BackCarried, BackCarriedNext DEF Listed
    <2>12. Travels(3, 6)
      BY <2>1, <2>11, PlacesNamed, PendingPlace DEF Travels, Named
    <2> QED
      BY <2>1, <2>10, <2>12, Travel
  <1> QED
    BY <1>1, <1>2, <1>3

\* A work that is returned and leaves place a.
LEMMA GivenBack ==
    ASSUME Orderly, Orderly', OnePlace, NEW a \in 1 .. 5,
           NEW w \in Works, NEW what \in {"header", "data", "bare", "nothing"}, Return(w, what),
           w \in WorkPlaces[a], WorkPlaces'[a] = WorkPlaces[a] \ {w},
           \A i \in 1 .. 7 : i # a /\ i # 6 => WorkPlaces'[i] = WorkPlaces[i],
           kinds' = kinds,
           CarriedOnce(workq'), CarriedOnce(waitq'), ListedOnce(Line')
    PROVE  OnePlace'
  <1> USE DEF Orderly
  <1>1. w \notin Back
    BY Disjoint, PlacesNamed DEF Named
  <1>2. Back' = Back \cup {w} /\ CarriedOnce(back')
    BY <1>1, Returned DEF OnePlace
  <1>3. OnceEach'
    BY <1>2 DEF OnceEach, CarriedOnce, ListedOnce
  <1>4. Travels(a, 6)
    BY <1>2, PlacesNamed DEF Travels, Named
  <1> QED
    BY <1>3, <1>4, Travel

LEMMA OnePlaceWorking ==
    ASSUME Orderly, Orderly', OnePlace, TakeTask \/ WorkFails \/ AddPending
    PROVE  OnePlace'
  <1> USE DEF Orderly
  <1>0. CarriedOnce(workq) /\ CarriedOnce(waitq) /\ CarriedOnce(back) /\ ListedOnce(Line)
    BY DEF OnePlace, OnceEach
  <1>1. CASE TakeTask
    <2>1. /\ UNCHANGED <<kinds, waitq, job, found, back, dropped>> /\ Line' = Line
          /\ InPending' = InPending /\ Carried(waitq') = Carried(waitq)
          /\ InJob' = InJob /\ Back' = Back
      BY <1>1, LineStays, LineKept DEF TakeTask, waitVars, clientVars, InJob, Back, Slots
    <2>2. workq # <<>> /\ workq' = Tail(workq) /\ hold' = Head(workq).work /\ hold = 0
      BY <1>1, CommandFields DEF TakeTask, W!Take, TaskPlaces
    <2>3. /\ Carried(workq) = Carried(workq') \cup InTask' /\ CarriedOnce(workq')
          /\ Carried(workq') \cap InTask' = {} /\ InTask = {}
      BY <1>0, <2>2, QueueLists DEF InTask
    <2>4. OnceEach'
      BY <1>0, <2>1, <2>3 DEF OnceEach, CarriedOnce, ListedOnce
    <2>5. Travels(1, 2)
      BY <2>1, <2>3, PlacesNamed DEF Travels, Named
    <2> QED
      BY <2>1, <2>4, <2>5, Travel
  <1>2. CASE WorkFails
    <2>1. hold \in Works /\ hold # 0 /\ hold' = 0 /\ Return(hold, "nothing")
          /\ UNCHANGED <<kinds, workq, waitq, job, found, dropped>>
      BY <1>2, InHand, ConstantsAssumption
      DEF WorkFails, EndTask, W!Finish, apiVars, waitVars, Works
    <2>5. Line' = Line /\ InPending' = InPending
      BY <1>2, LineStays, LineKept DEF Slots
    <2>2. InTask = {hold} /\ InTask' = {} /\ InJob' = InJob
      BY <2>1 DEF InTask, InJob
    <2>3. hold \in WorkPlaces[2] /\ WorkPlaces'[2] = WorkPlaces[2] \ {hold}
          /\ \A i \in 1 .. 7 : i # 2 /\ i # 6 => WorkPlaces'[i] = WorkPlaces[i]
      BY <2>1, <2>2, <2>5, PlacesNamed DEF Named
    <2>4. CarriedOnce(workq') /\ CarriedOnce(waitq') /\ ListedOnce(Line')
      BY <1>0, <2>1, <2>5
    <2> QED
      BY <2>1, <2>3, <2>4, GivenBack
  <1>3. CASE AddPending
    <2>1. hold \in Works /\ hold # 0 /\ hold' = 0
          /\ UNCHANGED <<kinds, workq, waitq, job, found, back, dropped>>
      BY <1>3, InHand, ConstantsAssumption
      DEF AddPending, EndTask, W!Finish, workQueue, apiVars, waitVars, clientVars, Works
    <2>7. Line' = Append(Line, hold)
      BY <1>3, LineAdds DEF Slots
    <2>2. InTask = {hold} /\ InTask' = {} /\ InJob' = InJob /\ Back' = Back
          /\ Carried(workq') = Carried(workq) /\ Carried(waitq') = Carried(waitq)
      BY <2>1 DEF InTask, InJob, Back
    <2>3. hold \notin Listed(Line)
      BY <2>2, Disjoint, PlacesNamed, PendingPlace DEF Named
    <2>4. Listed(Line') = Listed(Line) \cup {hold} /\ ListedOnce(Line')
      BY <1>0, <2>1, <2>3, <2>7, LineLists
    <2>5. OnceEach'
      BY <1>0, <2>1, <2>4 DEF OnceEach, CarriedOnce, ListedOnce
    <2>6. Travels(2, 3)
      BY <2>1, <2>2, <2>4, PlacesNamed, PendingPlace DEF Travels, Named
    <2> QED
      BY <2>1, <2>5, <2>6, Travel
  <1> QED
    BY <1>1, <1>2, <1>3

LEMMA OnePlaceDrain ==
    ASSUME Orderly, Orderly', OnePlace, NEW t \in Threads,
           PushFront(t) \/ DrainEos(t) \/ GiveBack(t)
    PROVE  OnePlace'
  <1> USE DEF Orderly
  <1>0. CarriedOnce(workq) /\ CarriedOnce(waitq) /\ CarriedOnce(back) /\ ListedOnce(Line)
    BY DEF OnePlace, OnceEach
  <1>1. CASE PushFront(t)
    <2> DEFINE w == Head(Line)
               c == Cmd("wait", w, out[t])
    <2>1. /\ UNCHANGED <<kinds, workq, hold, job, found, back, dropped>>
          /\ Carried(workq') = Carried(workq) /\ InTask' = InTask /\ InJob' = InJob /\ Back' = Back
      BY <1>1 DEF PushFront, V!Push, apiVars, workQueue, clientVars, InTask, InJob, Back
    <2>2. /\ Line # <<>> /\ Line' = Tail(Line) /\ waitq' = Append(waitq, c)
          /\ w \in Works /\ w # 0 /\ out[t] \in Works
      <3>1. Line # <<>> /\ Line' = Tail(Line) /\ w \in Works /\ w = front[t]
        BY <1>1, LinePasses DEF Slots
      <3>2. waitq' = Append(waitq, Cmd("wait", front[t], out[t])) /\ at[t] \in OutPlaces
        BY <1>1 DEF PushFront, V!Push, OutPlaces
      <3> QED
        BY <3>1, <3>2, InHand, ConstantsAssumption DEF Works
    <2>3. c \in WaitCmds /\ c.work = w
      <3>1. w \in 0 .. MaxWorks
        BY <2>2, ConstantsAssumption DEF Works
      <3> QED
        BY <2>2, <3>1, CommandsMade, CommandMade
    <2> HIDE DEF w, c
    <2>4. /\ Listed(Line) = Listed(Line') \cup {w} /\ w \notin Listed(Line')
          /\ ListedOnce(Line')
      BY <1>0, <2>2, LineLists DEF w
    <2>5. w \notin Carried(waitq)
      BY <2>4, Disjoint, PlacesNamed, PendingPlace DEF Named
    <2>6. Carried(waitq') = Carried(waitq) \cup {w} /\ CarriedOnce(waitq')
      BY <1>0, <2>2, <2>3, <2>5, QueueLists
    <2>7. OnceEach'
      BY <1>0, <2>1, <2>4, <2>6 DEF OnceEach, CarriedOnce, ListedOnce
    <2>8. Travels(3, 4)
      BY <2>1, <2>4, <2>6, PlacesNamed, PendingPlace DEF Travels, Named
    <2> QED
      BY <2>1, <2>7, <2>8, Travel
  <1>2. CASE DrainEos(t)
    <2>1. /\ UNCHANGED <<kinds, workq, job, found, back, dropped>>
          /\ Carried(workq') = Carried(workq) /\ InJob' = InJob /\ Back' = Back
      BY <1>2 DEF DrainEos, AfterDrain, EndTask, W!Finish, V!Push, apiVars, workQueue, waitVars,
                  clientVars, InJob, Back
    <2>4. Line' = Line /\ InPending' = InPending
      BY <1>2, LineStays, LineKept DEF Slots
    <2>2. CASE task.op = "drain" /\ t = "worker" /\ hold # 0
      <3> DEFINE c == Cmd("eos", hold, 0)
      <3>1. hold \in Works /\ hold' = 0 /\ waitq' = Append(waitq, c) /\ c \in WaitCmds
            /\ c.work = hold
        BY <1>2, <2>2, InHand, CommandsMade, CommandMade DEF DrainEos, V!Push
      <3> HIDE DEF c
      <3>2. InTask = {hold} /\ InTask' = {}
        BY <2>2, <3>1 DEF InTask
      <3>3. hold \notin Carried(waitq)
        BY <3>2, Disjoint, PlacesNamed DEF Named
      <3>4. Carried(waitq') = Carried(waitq) \cup {hold} /\ CarriedOnce(waitq')
        BY <1>0, <2>2, <3>1, <3>3, QueueLists
      <3>5. OnceEach'
        BY <1>0, <2>1, <2>4, <3>4 DEF OnceEach, CarriedOnce, ListedOnce
      <3>6. Travels(2, 4)
        BY <2>1, <2>4, <3>2, <3>4, PlacesNamed DEF Travels, Named
      <3> QED
        BY <2>1, <3>5, <3>6, Travel
    <2>3. CASE ~(task.op = "drain" /\ t = "worker" /\ hold # 0)
      <3>1. UNCHANGED <<hold, waitq>>
        BY <1>2, <2>3 DEF DrainEos, waitVars
      <3> QED
        BY <2>1, <2>4, <3>1, PlacesFrame
    <2> QED
      BY <2>2, <2>3
  <1>3. CASE GiveBack(t)
    <2>1. UNCHANGED <<kinds, workq, hold, waitq, job, found, dropped>>
      BY <1>3 DEF GiveBack, AfterDrain, EndTask, W!Finish, apiVars, workQueue, waitVars
    <2>2. CASE pending # <<>>
      <3> DEFINE w == Head(pending)
      <3>1. /\ Return(w, "nothing") /\ Line # <<>> /\ w = Head(Line) /\ w \in Works
            /\ Line' = Tail(Line)
        BY <1>3, <2>2, LinePasses DEF GiveBack, Slots
      <3>2. /\ Listed(Line) = Listed(Line') \cup {w} /\ w \notin Listed(Line')
            /\ ListedOnce(Line')
        BY <1>0, <3>1, LineLists
      <3>3. InTask' = InTask /\ InJob' = InJob
        BY <2>1 DEF InTask, InJob
      <3> HIDE DEF w
      <3>4. w \in WorkPlaces[3] /\ WorkPlaces'[3] = WorkPlaces[3] \ {w}
            /\ \A i \in 1 .. 7 : i # 3 /\ i # 6 => WorkPlaces'[i] = WorkPlaces[i]
        BY <2>1, <3>2, <3>3, PlacesNamed, PendingPlace DEF Named
      <3>5. CarriedOnce(workq') /\ CarriedOnce(waitq')
        BY <1>0, <2>1
      <3> QED
        BY <2>1, <3>1, <3>2, <3>4, <3>5, GivenBack
    <2>3. CASE pending = <<>>
      <3>1. back' = back /\ Line' = Line
        BY <1>3, <2>3, LineStays DEF GiveBack, PendingHead, Slots
      <3> QED
        BY <2>1, <3>1, PlacesFrame
    <2> QED
      BY <2>2, <2>3
  <1> QED
    BY <1>1, <1>2, <1>3

LEMMA OnePlaceWaiting ==
    ASSUME Orderly, Orderly', OnePlace, TakeJob \/ EosReturned \/ WaitWork
    PROVE  OnePlace'
  <1> USE DEF Orderly
  <1>0. CarriedOnce(workq) /\ CarriedOnce(waitq) /\ CarriedOnce(back) /\ ListedOnce(Line)
    BY DEF OnePlace, OnceEach
  <1>1. UNCHANGED <<kinds, workq, hold, dropped>> /\ InTask' = InTask
    BY DEF TakeJob, EosReturned, WaitWork, apiVars, workQueue, clientVars, InTask
  <1>4. Line' = Line /\ InPending' = InPending
    BY LineStays, LineKept DEF Slots, Waiting
  <1>2. CASE TakeJob
    <2>1. /\ waitq # <<>> /\ waitq' = Tail(waitq) /\ job' = Head(waitq) /\ job = NoCmd
          /\ job' \in WaitCmds \cup {NoCmd} /\ found' = IF job'.op = "wait" THEN "sync" ELSE "idle"
          /\ back' = back /\ Back' = Back
      BY <1>2, ListTypes DEF TakeJob, V!Take, clientVars, Back
    <2>2. InJob = {}
      BY <2>1, CommandFields DEF InJob, TypeOK, WaitTypes
    <2>3. InJob' = {Head(waitq).work} \ {0}
      BY <2>1, CommandFields, ConstantsAssumption DEF InJob, Works
    <2>4. /\ Carried(waitq) = Carried(waitq') \cup InJob' /\ CarriedOnce(waitq')
          /\ Carried(waitq') \cap InJob' = {}
      BY <1>0, <2>1, <2>3, QueueLists
    <2>5. OnceEach'
      BY <1>0, <1>1, <1>4, <2>1, <2>4 DEF OnceEach, CarriedOnce, ListedOnce
    <2>6. Travels(4, 5)
      BY <1>1, <1>4, <2>1, <2>2, <2>4, PlacesNamed DEF Travels, Named
    <2> QED
      BY <1>1, <2>5, <2>6, Travel
  <1>3. CASE EosReturned \/ WaitWork
    <2>1. /\ waitq' = waitq /\ (job.op = "eos" \/ found = "sync") /\ InJob' = {}
          /\ \E what \in {"header", "data", "bare", "nothing"} : Return(job.work, what)
          /\ job.work \in Works
      <3>1. CASE EosReturned
        <4>1. job.op = "eos" /\ found = "idle" /\ job \in WaitCmds
          BY <3>1, CommandFields DEF EosReturned, TypeOK, WaitTypes
        <4> QED
          BY <3>1, <4>1, CommandFields DEF EosReturned, V!Finish, InJob
      <3>2. CASE WaitWork
        <4>1. job.op = "wait" /\ job.work \in Works
          <5>1. job.op = "wait" /\ job \in WaitCmds /\ job.work # 0
            BY <3>2, CommandFields DEF WaitWork, TypeOK, WaitTypes
          <5> QED
            BY <5>1, CommandFields DEF Works
        <4>2. Given \subseteq {"header", "data", "bare"}
          BY DEF Given
        <4>3. \E what \in {"header", "data", "bare", "nothing"} : Return(job.work, what)
          BY <3>2, <4>2, Zenon DEF WaitWork
        <4> QED
          BY <3>2, <4>1, <4>3 DEF WaitWork, InJob
      <3> QED
        BY <1>3, <3>1, <3>2
    <2>3. InJob = {job.work}
      BY <2>1, ConstantsAssumption DEF InJob, Works
    <2>4. job.work \in WorkPlaces[5] /\ WorkPlaces'[5] = WorkPlaces[5] \ {job.work}
          /\ \A i \in 1 .. 7 : i # 5 /\ i # 6 => WorkPlaces'[i] = WorkPlaces[i]
      BY <1>1, <1>4, <2>1, <2>3, PlacesNamed DEF Named
    <2>5. CarriedOnce(workq') /\ CarriedOnce(waitq') /\ ListedOnce(Line')
      BY <1>0, <1>1, <1>4, <2>1
    <2> QED
      BY <1>1, <2>1, <2>3, <2>4, <2>5, GivenBack
  <1> QED
    BY <1>2, <1>3

LEMMA OnePlaceStep ==
    ASSUME Orderly, Orderly', Joined, OnePlace, Next
    PROVE  OnePlace'
  <1>1. ASSUME NEW t \in Threads, Drain(t)
        PROVE  OnePlace'
    BY <1>1, OnePlaceIdle, OnePlaceDrain DEF Drain
  <1>2. CASE Stop
    BY <1>2, OnePlaceIdle, OnePlaceStop DEF Stop
  <1>3. CASE Working
    BY <1>1, <1>3, OnePlaceIdle, OnePlaceNoWork, OnePlaceWorking, PlaceNames DEF Working, DoWork
  <1>4. CASE Waiting
    BY <1>4, OnePlaceNoWork, OnePlaceWaiting DEF Waiting
  <1>5. CASE Start \/ StartFails \/ Configure \/ ConfigureEnds
    BY <1>5, OnePlaceIdle, OnePlaceNoWork
  <1> QED
    BY <1>1, <1>2, <1>3, <1>4, <1>5, OnePlaceQueue, PlaceNames DEF Next

LEMMA OnePlaceStutter ==
    ASSUME TypeOK, TaskPlaces, Slots, OnePlace, UNCHANGED vars PROVE Slots' /\ OnePlace'
  <1>1. /\ UNCHANGED <<kinds, workq, hold, waitq, job, found, back, dropped>>
        /\ UNCHANGED <<pending, front, at, task>>
    BY DEF vars, apiVars, workQueue, waitVars, clientVars
  <1>2. Slots' /\ Line' = Line
    <2>1. Separate'
      BY <1>1 DEF Slots, Separate, CallerDrains
    <2> QED
      BY <1>1, <2>1, LineFrame
  <1>3. Orderly /\ Orderly'
    BY <1>2, TypeStutter DEF Orderly
  <1> QED
    BY <1>1, <1>2, <1>3, PlacesFrame

\* The invariants that the rest needs: the last two hold as long as config's drain has not met
\* the working thread at a task.
Base == TypeOK /\ TaskPlaces /\ Joined /\ (~met => Slots /\ OnePlace)

LEMMA BaseInit == ASSUME Init PROVE Base
  BY TypeInit, OnePlaceInit, SlotsInit, JoinedInit DEF Base

LEMMA BaseStep == ASSUME Base, [Next]_vars PROVE Base'
  <1> USE DEF Base
  <1>1. CASE Next
    <2>1. TypeOK' /\ TaskPlaces' /\ Joined'
      BY <1>1, TypeStep, JoinedStep
    <2>2. ASSUME ~met'
          PROVE  Slots' /\ OnePlace'
      <3>1. ~met /\ Separate'
        BY <1>1, <2>2, SeparateStep DEF Slots
      <3>2. Slots'
        BY <1>1, <2>1, <3>1, SlotsStep
      <3> QED
        BY <1>1, <2>1, <3>1, <3>2, OnePlaceStep DEF Orderly
    <2> QED
      BY <2>1, <2>2
  <1>2. CASE UNCHANGED vars
    <2>1. UNCHANGED <<api, worker, task, waiter, job, at, met>>
      BY <1>2 DEF vars, apiVars, workQueue, waitVars
    <2>2. Joined'
      BY <2>1, JoinedFrame
    <2> QED
      BY <1>2, <2>1, <2>2, TypeStutter, OnePlaceStutter
  <1> QED
    BY <1>1, <1>2

\* A queued work is in exactly one of the queues, hands and lists of the encoder, or back, or
\* destroyed by an Abort, whatever fails, as long as config's drain on the caller's thread has
\* not met the working thread at a task; it comes back at most once.
THEOREM WorksInOnePlace == Spec => []EveryWorkInOnePlace
  <1>1. Init => Base
    BY BaseInit
  <1>2. Base /\ [Next]_vars => Base'
    BY BaseStep
  <1>3. Base => EveryWorkInOnePlace
    BY OnePlaceImplies DEF Base, EveryWorkInOnePlace
  <1> QED
    BY <1>1, <1>2, <1>3, PTL DEF Spec

-----------------------------------------------------------------------------
(* Locked frames are kept *)

\* The frames on their way to RetainLockedFrame in a list of commands.
Retained(list) == { list[i].frame : i \in { j \in DOMAIN list : list[j].op = "retain" } }

\* Only a stop is an abort.
AbortEnds == aborting => Stopping

LEMMA RetainedAppend ==
    ASSUME NEW S, NEW q \in Seq(S), NEW c \in S
    PROVE  Retained(Append(q, c)) = Retained(q) \cup (IF c.op = "retain" THEN {c.frame} ELSE {})
  <1>1. /\ DOMAIN Append(q, c) = DOMAIN q \cup {Len(q) + 1}
        /\ Append(q, c)[Len(q) + 1] = c
        /\ \A k \in DOMAIN q : Append(q, c)[k] = q[k]
    OBVIOUS
  <1> QED
    BY <1>1 DEF Retained

LEMMA RetainedTail ==
    ASSUME NEW S, NEW q \in Seq(S), q # <<>>
    PROVE  Retained(q) = Retained(Tail(q))
                           \cup (IF Head(q).op = "retain" THEN {Head(q).frame} ELSE {})
  <1>1. /\ Len(q) \in Nat /\ Len(q) > 0
        /\ DOMAIN q = 1 .. Len(q)
        /\ DOMAIN Tail(q) = 1 .. Len(q) - 1
        /\ Head(q) = q[1]
        /\ \A k \in DOMAIN Tail(q) : Tail(q)[k] = q[k + 1]
    OBVIOUS
  <1>2. \A k \in DOMAIN q : k # 1 => k - 1 \in DOMAIN Tail(q) /\ Tail(q)[k - 1] = q[k]
    BY <1>1
  <1>3. \A k \in DOMAIN Tail(q) : k + 1 \in DOMAIN q
    BY <1>1
  <1>4. \A k \in DOMAIN q : q[k].op = "retain" =>
            q[k].frame \in Retained(Tail(q))
                             \cup (IF Head(q).op = "retain" THEN {Head(q).frame} ELSE {})
    BY <1>1, <1>2 DEF Retained
  <1>5. Retained(Tail(q)) \subseteq Retained(q)
    BY <1>1, <1>3 DEF Retained
  <1>6. Head(q).op = "retain" => Head(q).frame \in Retained(q)
    BY <1>1 DEF Retained
  <1> QED
    BY <1>4, <1>5, <1>6 DEF Retained

\* The same property, with the frames on their way named.
LEMMA OutliveMeans ==
    FramesOutliveLocks <=>
        \/ Stopping /\ aborting
        \/ locked \subseteq kept \cup Retained(waitq)
                                 \cup (IF job.op = "retain" THEN {job.frame} ELSE {})
  BY DEF FramesOutliveLocks, Retained

LEMMA OutliveMeansNext ==
    FramesOutliveLocks' <=>
        \/ Stopping' /\ aborting'
        \/ locked' \subseteq kept' \cup Retained(waitq')
                                   \cup (IF job'.op = "retain" THEN {job'.frame} ELSE {})
  BY DEF FramesOutliveLocks, Retained

LEMMA OutliveFrame ==
    ASSUME FramesOutliveLocks, AbortEnds, UNCHANGED <<api, aborting, waitq, job, locked, kept>>
    PROVE  FramesOutliveLocks' /\ AbortEnds'
  BY DEF FramesOutliveLocks, AbortEnds, Stopping

LEMMA OutliveInit == ASSUME Init PROVE FramesOutliveLocks /\ AbortEnds
  BY Zenon DEF Init, FramesOutliveLocks, AbortEnds

\* A command that is pushed in a step that leaves the state of the calls alone.
LEMMA OutlivePush ==
    ASSUME TypeOK, FramesOutliveLocks, AbortEnds, UNCHANGED <<api, aborting, job, kept>>,
           NEW c \in WaitCmds \cup {NoCmd}, waitq' = Append(waitq, c),
           locked' \subseteq locked \cup (IF c.op = "retain" THEN {c.frame} ELSE {})
    PROVE  FramesOutliveLocks' /\ AbortEnds'
  <1>1. Retained(waitq') = Retained(waitq) \cup (IF c.op = "retain" THEN {c.frame} ELSE {})
    BY RetainedAppend DEF TypeOK, WaitTypes
  <1>2. AbortEnds' /\ (Stopping' <=> Stopping)
    BY DEF AbortEnds, Stopping
  <1>3. CASE Stopping /\ aborting
    BY <1>2, <1>3, OutliveMeansNext
  <1>4. CASE ~(Stopping /\ aborting)
    BY <1>1, <1>2, <1>4, OutliveMeans, OutliveMeansNext
  <1> QED
    BY <1>3, <1>4, <1>2

LEMMA OutliveStep ==
    ASSUME TypeOK, TaskPlaces, FramesOutliveLocks, AbortEnds, Next
    PROVE  FramesOutliveLocks' /\ AbortEnds'
  <1>1. CASE Start \/ StartFails
    <2>1. ~Stopping /\ ~aborting /\ UNCHANGED <<aborting, waitq, job, locked, kept>>
          /\ api' = "running"
      BY <1>1 DEF Start, StartFails, V!Start, waitVars, hwVars, Stopping, AbortEnds
    <2> QED
      BY <2>1, OutliveMeans, OutliveMeansNext DEF AbortEnds
  <1>2. CASE \/ \E kind \in Kinds : QueueWork(kind)
             \/ Configure \/ ConfigureEnds \/ Update
             \/ TakeTask \/ WorkFails \/ WorkReady \/ ApplyTunings \/ AddPending
             \/ \E t \in Threads : DrainBegin(t) \/ DrainFails(t) \/ DrainOutputs(t) \/ Count(t)
                                   \/ TakeFront(t) \/ PopFront(t) \/ GiveBack(t) \/ GiveBackPop(t)
             \/ EosReturned \/ WaitWorkCounts
    <2>1. UNCHANGED <<api, aborting, waitq, locked, kept>>
      BY <1>2 DEF QueueWork, Configure, ConfigureEnds, Update, TakeTask, WorkFails, WorkReady,
           ApplyTunings, AddPending, DrainBegin, DrainFails, DrainOutputs, Count, GiveBack,
           TakeFront, PopFront, GiveBackPop, EosReturned, WaitWorkCounts, V!Finish, apiVars, waitVars, hwVars
    <2>2. CASE job' = job
      BY <2>1, <2>2, OutliveFrame
    <2>3. CASE job' = NoCmd /\ job.op # "retain"
      BY <2>1, <2>3, OutliveMeans, OutliveMeansNext, CommandFields DEF AbortEnds, Stopping
    <2>4. EosReturned \/ WaitWorkCounts => job.op # "retain"
      BY DEF EosReturned, WaitWorkCounts, TypeOK, WaitTypes
    <2> QED
      BY <1>2, <2>2, <2>3, <2>4 DEF QueueWork, Configure, ConfigureEnds, Update, TakeTask,
         WorkFails, WorkReady, ApplyTunings, AddPending, DrainBegin, DrainFails, DrainOutputs,
         Count, GiveBack, TakeFront, PopFront, GiveBackPop, EosReturned, WaitWorkCounts, V!Finish, waitVars
  <1>3. ASSUME NEW abort \in BOOLEAN, StopWorking(abort)
        PROVE  FramesOutliveLocks' /\ AbortEnds'
    <2>1. Stopping' /\ ~Stopping /\ ~aborting /\ UNCHANGED <<waitq, job, locked, kept>>
      BY <1>3 DEF StopWorking, Stopping, AbortEnds, waitVars, hwVars
    <2> QED
      BY <2>1, OutliveMeans, OutliveMeansNext DEF AbortEnds
  <1>4. CASE StopWaiting
    <2>1. Stopping' /\ aborting' = aborting /\ UNCHANGED <<job, locked, kept>>
          /\ waitq' = IF aborting THEN <<NoCmd>> ELSE Append(waitq, NoCmd)
      BY <1>4 DEF StopWaiting, V!Shutdown, Stopping, hwVars
    <2>2. CASE aborting
      BY <2>1, <2>2, OutliveMeansNext DEF AbortEnds
    <2>3. CASE ~aborting
      <3>1. Retained(waitq') = Retained(waitq)
        <4>1. Retained(Append(waitq, NoCmd)) = Retained(waitq) \cup {}
          BY RetainedAppend, CommandFields DEF TypeOK, WaitTypes
        <4> QED
          BY <2>1, <2>3, <4>1
      <3> QED
        BY <2>1, <2>3, <3>1, OutliveMeans, OutliveMeansNext DEF AbortEnds
    <2> QED
      BY <2>2, <2>3
  <1>5. CASE StopJoined
    BY <1>5, OutliveMeans, OutliveMeansNext
    DEF StopJoined, V!Join, AbortEnds, Stopping, hwVars
  <1>6. CASE StopPending
    BY <1>6, OutliveMeansNext DEF StopPending, AbortEnds
  <1>7. ASSUME NEW outputs \in BOOLEAN, CallEncode(outputs)
        PROVE  FramesOutliveLocks' /\ AbortEnds'
    <2> DEFINE c == Cmd("retain", 0, hold)
    <2>1. c \in WaitCmds /\ c.op = "retain" /\ c.frame = hold
      BY <1>7, InHand, CommandsMade, CommandMade DEF CallEncode
    <2>2. UNCHANGED <<api, aborting, job, kept>> /\ waitq' = Append(waitq, c)
          /\ locked' = locked \cup {hold}
      BY <1>7 DEF CallEncode, V!Push, apiVars
    <2> HIDE DEF c
    <2> QED
      BY <2>1, <2>2, OutlivePush
  <1>8. ASSUME NEW t \in Threads, PushFront(t) \/ DrainEos(t)
        PROVE  FramesOutliveLocks' /\ AbortEnds'
    <2>1. UNCHANGED <<api, aborting, job, kept, locked>>
      BY <1>8 DEF PushFront, DrainEos, V!Push, apiVars, waitVars, hwVars
    <2>2. \/ waitq' = waitq
          \/ \E c \in WaitCmds : waitq' = Append(waitq, c)
      <3>1. CASE PushFront(t)
        <4>1. front[t] \in 0 .. MaxWorks /\ out[t] \in Works
          BY <3>1, InHand DEF PushFront, OutPlaces, TypeOK, WorkTypes
        <4> QED
          BY <3>1, <4>1, CommandsMade DEF PushFront, V!Push
      <3>2. CASE DrainEos(t)
        <4>1. hold # 0 => hold \in Works
          BY InHand
        <4> QED
          BY <3>2, <4>1, CommandsMade DEF DrainEos, V!Push, waitVars
      <3> QED
        BY <1>8, <3>1, <3>2
    <2> QED
      BY <2>1, <2>2, OutlivePush, OutliveFrame
  <1>9. CASE TakeJob
    <2>1. UNCHANGED <<api, aborting, locked, kept>> /\ waitq # <<>> /\ waitq' = Tail(waitq)
          /\ job' = Head(waitq) /\ job = NoCmd
      BY <1>9 DEF TakeJob, V!Take, apiVars, hwVars, clientVars
    <2>2. Retained(waitq) = Retained(waitq')
                              \cup (IF job'.op = "retain" THEN {job'.frame} ELSE {})
      BY <2>1, RetainedTail DEF TypeOK, WaitTypes
    <2> QED
      BY <2>1, <2>2, OutliveMeans, OutliveMeansNext, CommandFields DEF AbortEnds, Stopping
  <1>10. CASE RetainLockedFrame
    <2>1. UNCHANGED <<api, aborting, waitq>> /\ job.op = "retain" /\ job' = NoCmd
          /\ locked' \subseteq locked /\ kept' = kept \cup ({job.frame} \cap locked')
      BY <1>10 DEF RetainLockedFrame, Unlock, V!Finish, apiVars
    <2> QED
      BY <2>1, OutliveMeans, OutliveMeansNext, CommandFields DEF AbortEnds, Stopping
  <1>11. CASE WaitWork
    <2>1. UNCHANGED <<api, aborting, waitq, job>> /\ locked' \subseteq locked
          /\ kept' = kept \cap locked'
      BY <1>11 DEF WaitWork, Unlock, apiVars
    <2> QED
      BY <2>1, OutliveMeans, OutliveMeansNext DEF AbortEnds, Stopping
  <1> QED
    BY <1>1, <1>2, <1>3, <1>4, <1>5, <1>6, <1>7, <1>8, <1>9, <1>10, <1>11, PlaceNames
    DEF Next, Stop, Working, Waiting, DoWork, Drain

\* The input of a frame is released only when the hardware has unlocked its surface.
THEOREM LockedFramesKept == Spec => []FramesOutliveLocks
  <1> DEFINE IInv == TypeOK /\ TaskPlaces /\ FramesOutliveLocks /\ AbortEnds
  <1>1. Init => IInv
    BY TypeInit, OutliveInit
  <1>2. IInv /\ UNCHANGED vars => IInv'
    BY TypeStutter, OutliveFrame DEF vars, apiVars, waitVars, hwVars
  <1>3. IInv /\ [Next]_vars => IInv'
    BY <1>2, TypeStep, OutliveStep
  <1> QED
    BY <1>1, <1>3, PTL DEF Spec

-----------------------------------------------------------------------------
(* The stream header comes first *)

\* m_bHeaderSent says whether a work of this session brought the header.
HeaderKnown == header = TRUE <=> \E i \in mark + 1 .. Len(back) : back[i].what = "header"

Sessions == HeaderFirst /\ HeaderKnown

LEMMA SessionsInit == ASSUME Init PROVE Sessions
  <1>1. mark = 0 /\ Len(back) = 0 /\ header = FALSE
    BY DEF Init
  <1>2. mark + 1 .. Len(back) = {}
    BY <1>1
  <1> QED
    BY <1>1, <1>2 DEF Sessions, HeaderFirst, HeaderKnown

LEMMA SessionsFrame == ASSUME Sessions, UNCHANGED <<back, mark, header>> PROVE Sessions'
  BY DEF Sessions, HeaderFirst, HeaderKnown

\* The works of a session so far are not changed by those that follow.
LEMMA SessionGrows ==
    ASSUME TypeOK, Sessions, mark' = mark, NEW w, NEW what \in {"header", "data", "bare", "nothing"},
           Return(w, what),
           what = "header" => header' = TRUE,
           what # "header" => header' = header,
           what # "nothing" => (what = "data" <=> ~SendsHeader \/ header = TRUE)
    PROVE  Sessions'
  <1>1. /\ Len(back) \in Nat /\ mark \in Nat /\ mark <= Len(back)
        /\ Len(back') = Len(back) + 1 /\ back'[Len(back) + 1] = [work |-> w, what |-> what]
        /\ \A i \in 1 .. Len(back) : back'[i] = back[i]
    BY DEF Return, TypeOK, ClientTypes
  <1>2. back'[Len(back) + 1].what = what
    BY <1>1
  <1>3. \A i \in mark + 1 .. Len(back) : back'[i] = back[i]
    BY <1>1
  <1>4. \A i \in mark + 1 .. Len(back') : i = Len(back) + 1 \/ i \in mark + 1 .. Len(back)
    BY <1>1
  <1>5. Len(back) + 1 \in mark + 1 .. Len(back') /\ Len(back) + 1 - 1 = Len(back)
        /\ mark + 1 .. Len(back) \subseteq mark + 1 .. Len(back')
    BY <1>1
  <1>6. HeaderKnown'
    BY <1>1, <1>2, <1>3, <1>4, <1>5 DEF Sessions, HeaderKnown
  <1>7. ASSUME NEW i \in mark + 1 .. Len(back')
        PROVE  back'[i].what # "nothing" =>
                   (back'[i].what = "data" <=>
                      \/ ~SendsHeader
                      \/ \E j \in mark + 1 .. i - 1 : back'[j].what = "header")
    <2>1. CASE i \in mark + 1 .. Len(back)
      <3>1. \A j \in mark + 1 .. i - 1 : back'[j] = back[j]
        BY <1>1, <1>3, <2>1
      <3> QED
        BY <1>3, <2>1, <3>1 DEF Sessions, HeaderFirst
    <2>2. CASE i = Len(back) + 1
      <3>1. i - 1 = Len(back)
        BY <1>1, <2>2
      <3>2. header = TRUE <=> \E j \in mark + 1 .. i - 1 : back'[j].what = "header"
        BY <1>3, <3>1 DEF Sessions, HeaderKnown
      <3> QED
        BY <1>2, <2>2, <3>2
    <2> QED
      BY <1>4, <2>1, <2>2
  <1>8. HeaderFirst'
    BY <1>7 DEF HeaderFirst
  <1> QED
    BY <1>6, <1>8 DEF Sessions

\* DoStop gives the pending works back, with nothing.
LEMMA SessionEnds == ASSUME TypeOK, Sessions, StopPending PROVE Sessions'
  <1> DEFINE Record == [work : Works, what : {"header", "data", "bare", "nothing"}]
             returned == [i \in DOMAIN pending |-> [work |-> pending[i], what |-> "nothing"]]
  <1>1. back' = back \o returned /\ UNCHANGED <<mark, header>>
    BY DEF StopPending
  <1>2. /\ Len(pending) \in Nat /\ DOMAIN pending = 1 .. Len(pending)
        /\ \A i \in DOMAIN pending : pending[i] \in Works
        /\ back \in Seq(Record)
        /\ Len(back) \in Nat /\ mark \in Nat /\ mark <= Len(back)
    <2>1. pending \in Seq(0 .. MaxWorks)
      BY DEF TypeOK, DataTypes
    <2>2. \A i \in DOMAIN pending : pending[i] # 0
      <3>1. 0 \notin { pending[i] : i \in DOMAIN pending }
        BY DEF StopPending
      <3> QED
        BY <3>1
    <2>3. \A i \in DOMAIN pending : pending[i] \in 0 .. MaxWorks
      <3> DEFINE S == 0 .. MaxWorks
      <3>1. pending \in Seq(S)
        BY <2>1
      <3> HIDE DEF S
      <3>2. \A i \in DOMAIN pending : pending[i] \in S
        BY <3>1
      <3> QED
        BY <3>2 DEF S
    <2>4. \A i \in DOMAIN pending : pending[i] \in Works
      BY <2>2, <2>3, ConstantsAssumption DEF Works
    <2> QED
      BY <2>1, <2>4 DEF TypeOK, ClientTypes
  <1>3. /\ \A i \in DOMAIN pending : [work |-> pending[i], what |-> "nothing"] \in Record
        /\ \A i \in DOMAIN pending : returned[i].what = "nothing"
    BY <1>2
  <1> HIDE DEF Record
  <1>4. returned \in Seq(Record) /\ Len(returned) = Len(pending)
    BY <1>2, <1>3
  <1> HIDE DEF returned
  <1>5. /\ Len(back') = Len(back) + Len(returned)
        /\ \A i \in 1 .. Len(back) : back'[i] = back[i]
        /\ \A i \in 1 .. Len(returned) : back'[Len(back) + i] = returned[i]
    BY <1>1, <1>2, <1>4
  <1>6. \A i \in Len(back) + 1 .. Len(back') : back'[i].what = "nothing"
    <2> SUFFICES ASSUME NEW i \in Len(back) + 1 .. Len(back')
                 PROVE  back'[i].what = "nothing"
      OBVIOUS
    <2>1. i - Len(back) \in 1 .. Len(returned) /\ Len(back) + (i - Len(back)) = i
      BY <1>2, <1>4, <1>5
    <2>2. back'[i] = returned[i - Len(back)]
      BY <1>5, <2>1
    <2>3. i - Len(back) \in DOMAIN pending
      BY <1>2, <1>4, <2>1
    <2> QED
      BY <1>3, <2>2, <2>3
  <1>7. \A i \in mark + 1 .. Len(back') : i \in mark + 1 .. Len(back) \/ i \in Len(back) + 1 .. Len(back')
    BY <1>2, <1>4, <1>5
  <1>8. \A i \in mark + 1 .. Len(back) : back'[i] = back[i] /\ i \in mark + 1 .. Len(back')
    BY <1>2, <1>4, <1>5
  <1>9. HeaderKnown'
    <2>1. (\E i \in mark + 1 .. Len(back') : back'[i].what = "header")
            <=> \E i \in mark + 1 .. Len(back) : back[i].what = "header"
      BY <1>6, <1>7, <1>8
    <2> QED
      BY <1>1, <2>1 DEF Sessions, HeaderKnown
  <1>10. ASSUME NEW i \in mark + 1 .. Len(back')
        PROVE  back'[i].what # "nothing" =>
                   (back'[i].what = "data" <=>
                      \/ ~SendsHeader
                      \/ \E j \in mark + 1 .. i - 1 : back'[j].what = "header")
    <2>1. CASE i \in mark + 1 .. Len(back)
      <3>1. \A j \in mark + 1 .. i - 1 : back'[j] = back[j]
        BY <1>2, <1>8, <2>1
      <3>2. back[i].what # "nothing" =>
                (back[i].what = "data" <=>
                   \/ ~SendsHeader
                   \/ \E j \in mark + 1 .. i - 1 : back[j].what = "header")
        BY <2>1 DEF Sessions, HeaderFirst
      <3> QED
        BY <1>8, <2>1, <3>1, <3>2
    <2>2. CASE i \in Len(back) + 1 .. Len(back')
      BY <1>6, <2>2
    <2> QED
      BY <1>7, <2>1, <2>2
  <1>11. HeaderFirst'
    BY <1>1, <1>10 DEF HeaderFirst
  <1> QED
    BY <1>9, <1>11 DEF Sessions

LEMMA SessionsStep ==
    ASSUME TypeOK, TaskPlaces, Sessions, Next
    PROVE  Sessions'
  <1>1. CASE Start \/ StartFails
    <2>1. mark' = Len(back) /\ back' = back /\ header' = FALSE
      BY <1>1 DEF Start, StartFails
    <2>2. mark' + 1 .. Len(back') = {}
      <3>1. Len(back) \in Nat
        BY DEF TypeOK, ClientTypes
      <3> QED
        BY <2>1, <3>1
    <2> QED
      BY <2>1, <2>2 DEF Sessions, HeaderFirst, HeaderKnown
  <1>2. ASSUME NEW kind \in Kinds, QueueWork(kind)
        PROVE  Sessions'
    <2>1. mark' = mark /\ header' = header
          /\ (back' = back \/ Return(Len(kinds) + 1, "nothing"))
      BY <1>2 DEF QueueWork
    <2> QED
      BY <2>1, SessionsFrame, SessionGrows
  <1>3. CASE WorkFails \/ EosReturned \/ \E t \in Threads : GiveBack(t)
    <2>1. /\ mark' = mark /\ header' = header
          /\ \/ back' = back
             \/ Return(hold, "nothing") \/ Return(job.work, "nothing")
             \/ Return(Head(pending), "nothing")
      BY <1>3 DEF WorkFails, EosReturned, GiveBack
    <2> QED
      BY <2>1, SessionsFrame, SessionGrows
  <1>4. CASE WaitWork
    <2>1. mark' = mark
      BY <1>4 DEF WaitWork
    <2>2. ASSUME NEW what \in Given, Return(job.work, what), header' = (header \/ what = "header")
          PROVE  Sessions'
      <3>1. header \in BOOLEAN /\ SendsHeader \in BOOLEAN
        BY ConstantsAssumption DEF TypeOK, DataTypes
      <3>2. /\ what \in {"header", "data", "bare"}
            /\ what = "data" <=> ~SendsHeader \/ header = TRUE
        BY <3>1 DEF Given
      <3>3. (what = "header" => header' = TRUE) /\ (what # "header" => header' = header)
        BY <2>2, <3>1, Zenon
      <3> QED
        BY <2>1, <2>2, <3>2, <3>3, SessionGrows
    <2>3. CASE Return(job.work, "nothing") /\ header' = header
      BY <2>1, <2>3, SessionGrows
    <2> QED
      BY <1>4, <2>2, <2>3 DEF WaitWork
  <1>5. CASE \/ Configure \/ ConfigureEnds \/ Update
             \/ (\E abort \in BOOLEAN : StopWorking(abort)) \/ StopWaiting \/ StopJoined
             \/ TakeTask \/ WorkReady \/ ApplyTunings \/ AddPending
             \/ (\E outputs \in BOOLEAN : CallEncode(outputs))
             \/ \E t \in Threads : \/ DrainBegin(t) \/ DrainFails(t) \/ DrainOutputs(t) \/ Count(t)
                                   \/ DrainEos(t) \/ TakeFront(t) \/ PopFront(t) \/ PushFront(t)
                                   \/ GiveBackPop(t)
             \/ TakeJob \/ RetainLockedFrame \/ WaitWorkCounts
    <2>1. UNCHANGED <<back, mark, header>>
      BY <1>5 DEF Configure, ConfigureEnds, Update, StopWorking, StopWaiting, StopJoined, TakeTask,
           WorkReady, ApplyTunings, AddPending, CallEncode, DrainBegin, DrainFails, DrainOutputs,
           Count, TakeFront, PopFront, PushFront, GiveBackPop, DrainEos, TakeJob, RetainLockedFrame,
           WaitWorkCounts, clientVars
    <2> QED
      BY <2>1, SessionsFrame
  <1> QED
    BY <1>1, <1>2, <1>3, <1>4, <1>5, SessionEnds, PlaceNames
    DEF Next, Stop, Working, Waiting, DoWork, Drain

\* In every session of a codec with a stream header, the header comes once, and a bitstream
\* that comes before it comes with an error: GetVideoParam failed for it.  The other codecs
\* send none.
THEOREM HeaderComesFirst == Spec => []HeaderFirst
  <1> DEFINE IInv == TypeOK /\ TaskPlaces /\ Sessions
  <1>1. Init => IInv
    BY TypeInit, SessionsInit
  <1>2. IInv /\ UNCHANGED vars => IInv'
    BY TypeStutter, SessionsFrame DEF vars, clientVars
  <1>3. IInv /\ [Next]_vars => IInv'
    BY <1>2, TypeStep, SessionsStep
  <1>4. IInv => HeaderFirst
    BY DEF Sessions
  <1> QED
    BY <1>1, <1>3, <1>4, PTL DEF Spec

-----------------------------------------------------------------------------
(* What DoStop leaves behind, when DoStart never failed *)

\* A component that runs has both threads and no null command in a queue; a thread that is being
\* stopped takes its null command last of all, and leaves an empty queue.
Ending ==
    /\ api = "running" => worker = "up" /\ Never(NoCmd, workq)
    /\ api = "stopWork" => \/ worker = "up" /\ OnlyLast(NoCmd, workq)
                           \/ worker = "ended" /\ workq = <<>>
    /\ api \in {"stopWait", "stopPending", "stopped"} => workq = <<>>
    /\ api \notin {"stopWait", "stopPending", "stopped"} => waiter = "up" /\ Never(NoCmd, waitq)
    /\ api = "stopWait" => \/ waiter = "up" /\ OnlyLast(NoCmd, waitq)
                           \/ waiter = "ended" /\ waitq = <<>>
    /\ api \in {"stopPending", "stopped"} => waitq = <<>>
    /\ api = "stopped" => pending = <<>>

LEMMA EndingFrame ==
    ASSUME Ending, UNCHANGED <<api, workq, worker, waitq, waiter, pending>>
    PROVE  Ending'
  BY DEF Ending, Never, OnlyLast

LEMMA EndingInit == ASSUME Init PROVE Ending
  BY DEF Init, W!Init, V!Init, Ending

\* What the two queues look like after a push or a null command.
LEMMA QueueNulls ==
    ASSUME TypeOK
    PROVE  /\ \A c \in WorkCmds : Never(NoCmd, workq) => Never(NoCmd, Append(workq, c))
           /\ \A c \in WaitCmds : Never(NoCmd, waitq) => Never(NoCmd, Append(waitq, c))
           /\ Never(NoCmd, workq) => OnlyLast(NoCmd, Append(workq, NoCmd))
           /\ Never(NoCmd, waitq) => OnlyLast(NoCmd, Append(waitq, NoCmd))
           /\ Never(NoCmd, <<>>) /\ OnlyLast(NoCmd, <<NoCmd>>)
           /\ workq # <<>> =>
                /\ Never(NoCmd, workq) => Head(workq) # NoCmd /\ Never(NoCmd, Tail(workq))
                /\ OnlyLast(NoCmd, workq) => \/ Head(workq) = NoCmd /\ Tail(workq) = <<>>
                                             \/ Head(workq) # NoCmd /\ OnlyLast(NoCmd, Tail(workq))
           /\ waitq # <<>> =>
                /\ Never(NoCmd, waitq) => Head(waitq) # NoCmd /\ Never(NoCmd, Tail(waitq))
                /\ OnlyLast(NoCmd, waitq) => \/ Head(waitq) = NoCmd /\ Tail(waitq) = <<>>
                                             \/ Head(waitq) # NoCmd /\ OnlyLast(NoCmd, Tail(waitq))
  <1>1. workq \in Seq(WorkCmds \cup {NoCmd}) /\ waitq \in Seq(WaitCmds \cup {NoCmd})
    BY DEF TypeOK, WorkTypes, WaitTypes
  <1>2. (\A c \in WorkCmds : c # NoCmd) /\ (\A c \in WaitCmds : c # NoCmd)
    BY CommandFields
  <1>3. /\ \A c \in WorkCmds : Never(NoCmd, workq) => Never(NoCmd, Append(workq, c))
        /\ Never(NoCmd, workq) => OnlyLast(NoCmd, Append(workq, NoCmd))
    BY <1>1, <1>2, NeverAppend
  <1>4. /\ \A c \in WaitCmds : Never(NoCmd, waitq) => Never(NoCmd, Append(waitq, c))
        /\ Never(NoCmd, waitq) => OnlyLast(NoCmd, Append(waitq, NoCmd))
        /\ Never(NoCmd, <<>>) /\ OnlyLast(NoCmd, <<NoCmd>>)
    BY <1>1, <1>2, NeverAppend
  <1> QED
    BY <1>1, <1>3, <1>4, NeverTail

\* What a call adds to the working queue, in two pushes for a picture with the end of stream.
LEMMA Enqueued ==
    ASSUME TypeOK, NEW kind \in Kinds, QueueWork(kind)
    PROVE  \/ workq' = workq
           \/ \E c \in WorkCmds : /\ c.work = Len(kinds) + 1 /\ c.op \in {"work", "drain"}
                                  /\ workq' = Append(workq, c)
           \/ \E c, d \in WorkCmds : /\ c.work = Len(kinds) + 1 /\ d.work = 0
                                     /\ c.op = "work" /\ d.op = "drain"
                                     /\ workq' = Append(Append(workq, c), d)
  <1> DEFINE w == Len(kinds) + 1
  <1>1. w \in Works
    BY DEF QueueWork, TypeOK, CallTypes, Works
  <1> HIDE DEF w
  <1>2. CASE kind = "frameEos"
    <2> DEFINE first == Cmd("work", w, 0)
               second == Cmd("drain", 0, 0)
    <2>1. first \in WorkCmds /\ second \in WorkCmds /\ workq \in Seq(WorkCmds \cup {NoCmd})
      BY <1>1, CommandsMade DEF TypeOK, WorkTypes
    <2>2. first.work = w /\ second.work = 0 /\ first.op = "work" /\ second.op = "drain"
      BY CommandMade
    <2>3. workq' = workq \o <<first, second>>
      BY <1>2 DEF QueueWork, w
    <2> HIDE DEF first, second
    <2>4. workq' = Append(Append(workq, first), second)
      BY <2>1, <2>3
    <2> QED
      BY <2>1, <2>2, <2>4 DEF w
  <1>3. CASE kind # "frameEos"
    <2>1. workq' = workq \/ workq' = Append(workq, Cmd("drain", w, 0))
            \/ workq' = Append(workq, Cmd("work", w, 0))
      BY <1>3 DEF QueueWork, W!Push, workQueue, w
    <2>2. \A op \in {"work", "drain"} :
            Cmd(op, w, 0) \in WorkCmds /\ Cmd(op, w, 0).work = w /\ Cmd(op, w, 0).op = op
      BY <1>1, CommandsMade, CommandMade
    <2> QED
      BY <2>1, <2>2 DEF w
  <1> QED
    BY <1>2, <1>3

LEMMA EndingStep ==
    ASSUME "start" \notin MayFail, Base, Ending, Next
    PROVE  Ending'
  <1> USE DEF Base
  <1>0. workq \in Seq(WorkCmds \cup {NoCmd}) /\ \A c \in WorkCmds : c # NoCmd
    BY CommandFields DEF TypeOK, WorkTypes
  <1>1. CASE Start
    <2>1. /\ api = "stopped" /\ api' = "running" /\ worker' = "up" /\ waiter' = "up"
          /\ UNCHANGED <<workq, waitq>>
      BY <1>1 DEF Start, W!Start, V!Start
    <2>2. workq = <<>> /\ waitq = <<>>
      BY <2>1 DEF Ending
    <2> QED
      BY <2>1, <2>2, QueueNulls DEF Ending
  <1>2. CASE StartFails
    BY <1>2 DEF StartFails
  <1>3. ASSUME NEW kind \in Kinds, QueueWork(kind)
        PROVE  Ending'
    <2>1. api = "running" /\ UNCHANGED <<api, worker, waitq, waiter, pending>>
      BY <1>3 DEF QueueWork, W!Push, workQueue, waitVars
    <2>2. Never(NoCmd, workq)
      BY <2>1 DEF Ending
    <2>3. Never(NoCmd, workq')
      <3>1. ASSUME NEW c \in WorkCmds, NEW d \in WorkCmds, workq' = Append(Append(workq, c), d)
            PROVE  Never(NoCmd, workq')
        <4> DEFINE longer == Append(workq, c)
        <4>1. longer \in Seq(WorkCmds \cup {NoCmd}) /\ Never(NoCmd, longer)
          BY <1>0, <2>2, QueueNulls
        <4>2. workq' = Append(longer, d)
          BY <3>1
        <4> HIDE DEF longer
        <4> QED
          BY <1>0, <4>1, <4>2, NeverAppend
      <3> QED
        BY <1>3, <2>2, <3>1, Enqueued, QueueNulls
    <2> QED
      BY <2>1, <2>3 DEF Ending
  <1>4. CASE Configure
    BY <1>4, EndingFrame DEF Configure, workQueue, waitVars
  <1>5. CASE ConfigureEnds
    <2>1. api = "running" /\ UNCHANGED <<api, worker, waitq, waiter, pending>>
      BY <1>5 DEF ConfigureEnds, W!Push, Joined, apiVars, waitVars
    <2>2. Never(NoCmd, workq')
      BY <1>5, <2>1, CommandsMade, QueueNulls DEF ConfigureEnds, W!Push, Ending
    <2> QED
      BY <2>1, <2>2 DEF Ending
  <1>6. ASSUME NEW abort \in BOOLEAN, StopWorking(abort)
        PROVE  Ending'
    <2>1. /\ api = "running" /\ api' = "stopWork"
          /\ workq' = IF abort THEN <<NoCmd>> ELSE Append(workq, NoCmd)
          /\ UNCHANGED <<worker, waitq, waiter, pending>>
      BY <1>6 DEF StopWorking, W!Shutdown, waitVars
    <2>2. OnlyLast(NoCmd, workq')
      BY <2>1, QueueNulls DEF Ending
    <2> QED
      BY <2>1, <2>2 DEF Ending, Never
  <1>7. CASE StopWaiting
    <2>1. /\ api = "stopWork" /\ api' = "stopWait" /\ worker # "up"
          /\ waitq' = IF aborting THEN <<NoCmd>> ELSE Append(waitq, NoCmd)
          /\ UNCHANGED <<workq, waiter, pending>>
      BY <1>7 DEF StopWaiting, W!Join, V!Shutdown, workQueue
    <2>2. OnlyLast(NoCmd, waitq') /\ workq = <<>>
      BY <2>1, QueueNulls DEF Ending
    <2> QED
      BY <2>1, <2>2 DEF Ending
  <1>8. CASE StopJoined
    <2>1. /\ api = "stopWait" /\ api' = "stopPending" /\ waiter # "up"
          /\ UNCHANGED <<workq, waitq, pending>>
      BY <1>8 DEF StopJoined, V!Join, workQueue
    <2> QED
      BY <2>1 DEF Ending
  <1>9. CASE StopPending
    BY <1>9 DEF StopPending, Ending, workQueue, waitVars
  <1>10. CASE TakeTask
    <2>1. /\ UNCHANGED <<api, waitq, waiter, pending>>
          /\ worker = "up" /\ workq # <<>> /\ workq' = Tail(workq)
          /\ worker' = IF Head(workq) = NoCmd THEN "ended" ELSE "up"
      BY <1>10 DEF TakeTask, W!Take, apiVars, waitVars
    <2>2. /\ api \notin {"stopWait", "stopPending", "stopped"}
          /\ Never(NoCmd, waitq) /\ Never(NoCmd, waitq')
      BY <2>1 DEF Joined, Ending
    <2>3. CASE Never(NoCmd, workq)
      BY <2>1, <2>2, <2>3, QueueNulls DEF Ending, OnlyLast, Never
    <2>4. CASE api = "stopWork" /\ OnlyLast(NoCmd, workq)
      BY <2>1, <2>2, <2>4, QueueNulls DEF Ending
    <2> QED
      BY <2>1, <2>2, <2>3, <2>4 DEF Ending, TypeOK, CallTypes
  <1>11. ASSUME NEW t \in Threads, ThreadStep(t)
         PROVE  Ending'
    <2>1. UNCHANGED <<api, workq, worker, waiter>> /\ at[t] # "idle"
          /\ (waitq' = waitq \/ \E c \in WaitCmds : waitq' = Append(waitq, c))
      BY <1>11 DEF ThreadStep
    <2>2. api \notin {"stopWait", "stopPending", "stopped"}
      <3>1. t = "worker" => task # NoCmd
        BY <2>1 DEF TypeOK, WorkTypes
      <3> QED
        BY <2>1, <3>1, PlaceNames DEF Joined
    <2>3. Never(NoCmd, waitq')
      BY <2>1, <2>2, QueueNulls DEF Ending
    <2> QED
      BY <2>1, <2>2, <2>3 DEF Ending, Never, OnlyLast
  <1>12. CASE TakeJob
    <2>1. /\ UNCHANGED <<api, workq, worker, pending>>
          /\ waiter = "up" /\ waitq # <<>> /\ waitq' = Tail(waitq)
          /\ waiter' = IF Head(waitq) = NoCmd THEN "ended" ELSE "up"
      BY <1>12 DEF TakeJob, V!Take, apiVars, workQueue
    <2>2. api \notin {"stopPending", "stopped"}
      BY <2>1 DEF Ending
    <2>3. CASE api # "stopWait"
      BY <2>1, <2>2, <2>3, QueueNulls DEF Ending, OnlyLast, Never
    <2>4. CASE api = "stopWait"
      BY <2>1, <2>4, QueueNulls DEF Ending
    <2> QED
      BY <2>3, <2>4
  <1>13. CASE RetainLockedFrame \/ EosReturned \/ WaitWork \/ WaitWorkCounts
    BY <1>13, EndingFrame DEF RetainLockedFrame, EosReturned, WaitWork, WaitWorkCounts, V!Finish,
                              apiVars, workQueue
  <1> QED
    BY <1>1, <1>2, <1>3, <1>4, <1>5, <1>6, <1>7, <1>8, <1>9, <1>10, <1>11, <1>12, <1>13,
       ThreadSteps, PlaceNames
    DEF Next, Stop, Working, Waiting

\* In a component that is stopped, or about to give its pending works back, no work is on its way.
LEMMA StoppedPlaces ==
    ASSUME Base, Ending, api \in {"stopPending", "stopped"}
    PROVE  /\ workq = <<>> /\ waitq = <<>> /\ (api = "stopped" => pending = <<>>)
           /\ Carried(workq) = {} /\ Carried(waitq) = {} /\ InTask = {} /\ InJob = {}
           /\ met \/ /\ Line = pending /\ pending \in Seq(Works)
                     /\ Queued = Listed(pending) \cup Back \cup dropped
  <1> USE DEF Base
  <1>1. workq = <<>> /\ waitq = <<>> /\ (api = "stopped" => pending = <<>>)
    BY DEF Ending
  <1>2. task = NoCmd /\ job = NoCmd
    BY DEF Joined
  <1>3. hold = 0 /\ found = "idle" /\ job.op = "stop"
    BY <1>2, CommandFields DEF TaskPlaces, TypeOK, WaitTypes
  <1>4. Carried(workq) = {} /\ Carried(waitq) = {} /\ InTask = {} /\ InJob = {}
    BY <1>1, <1>3 DEF Carried, InTask, InJob
  <1>5. ASSUME ~met
        PROVE  /\ Line = pending /\ pending \in Seq(Works)
               /\ Queued = Listed(pending) \cup Back \cup dropped
    <2>1. at["caller"] = "idle"
      BY DEF Joined
    <2>2. Line = pending
      BY <1>2, <1>5, <2>1, LineAtRest
    <2>3. InPending = Listed(pending) /\ pending \in Seq(Works)
      BY <1>5, <2>2, PendingLined, LineType
    <2>4. \A w : w \in Queued <=> \E i \in 1 .. 7 : w \in WorkPlaces[i]
      BY <1>5, PlacesNamed DEF OnePlace, InPlaces, Everywhere, Named
    <2>5. \A w : w \in Queued <=> w \in Listed(pending) \cup Back \cup dropped
      BY <1>4, <2>3, <2>4, PlacesNamed DEF Named
    <2> QED
      BY <2>2, <2>3, <2>5
  <1> QED
    BY <1>1, <1>4, <1>5

\* Unless a DoStart failed (as in the decoder), DoStop leaves no task for the threads of the next
\* start, whatever else happened; and every work was given back, or discarded by an Abort, as long
\* as no drain of config met the working thread at a task.
THEOREM StopsClean ==
    ASSUME "start" \notin MayFail
    PROVE  Spec => []StopLeavesNothing
  <1>1. Init => Base /\ Ending
    BY BaseInit, EndingInit
  <1>2. Base /\ Ending /\ [Next]_vars => (Base /\ Ending)'
    <2> SUFFICES ASSUME Base, Ending, [Next]_vars
                 PROVE  Base' /\ Ending'
      OBVIOUS
    <2>1. CASE Next
      BY <2>1, BaseStep, EndingStep
    <2>2. CASE UNCHANGED vars
      BY <2>2, BaseStep, EndingFrame DEF vars, apiVars, workQueue, waitVars
    <2> QED
      BY <2>1, <2>2
  <1>3. Base /\ Ending => StopLeavesNothing
    <2> SUFFICES ASSUME Base, Ending, api = "stopped"
                 PROVE  /\ workq = <<>> /\ waitq = <<>>
                        /\ met \/ Queued = Back \cup dropped
      BY DEF StopLeavesNothing
    <2>1. Listed(pending) = {}
      BY StoppedPlaces DEF Listed
    <2> QED
      BY <2>1, StoppedPlaces
  <1> QED
    BY <1>1, <1>2, <1>3, PTL DEF Spec

-----------------------------------------------------------------------------
(* m_pendingWorks and the frames inside the hardware encoder stay in step, when no bitrate is *)
(* set by config and no drain fails                                                           *)

\* The caller never drains the encoder.
Calm == configs = 0 /\ at["caller"] = "idle" /\ met = FALSE

LEMMA CalmInit == ASSUME Init PROVE Calm
  BY PlaceNames DEF Init, Calm

LEMMA CalmStep ==
    ASSUME MaxConfigs = 0, Base, Calm, Next
    PROVE  /\ Calm' /\ configs' = configs /\ at'["caller"] = at["caller"]
           /\ ~Configure /\ ~ConfigureEnds /\ ~Drain("caller")
  <1> USE DEF Base
  <1>0. /\ at \in [Threads -> Places] /\ "worker" \in Threads /\ "caller" \in Threads
        /\ ~CallerDrains
    BY PlaceNames DEF TypeOK, WorkTypes, Calm, CallerDrains, DrainPlaces
  <1>1. ~Configure /\ ~ConfigureEnds
    BY DEF Configure, ConfigureEnds, Calm
  <1>2. ~Drain("caller")
    BY <1>0, ThreadSteps DEF ThreadStep, Calm
  <1>3. CASE TakeTask
    BY <1>0, <1>1, <1>2, <1>3 DEF TakeTask, Goto, Calm
  <1>4. CASE Drain("worker") \/ DoWork \/ Update
    <2>1. ThreadStep("worker")
      BY <1>0, <1>4, ThreadSteps
    <2> QED
      BY <1>0, <1>1, <1>2, <2>1 DEF ThreadStep, Calm
  <1>5. CASE \/ Start \/ StartFails \/ Stop \/ Waiting \/ \E kind \in Kinds : QueueWork(kind)
    <2>1. UNCHANGED <<configs, met, at>>
      BY <1>5 DEF Start, StartFails, Stop, StopWorking, StopWaiting, StopJoined, StopPending,
         Waiting, TakeJob, RetainLockedFrame, EosReturned, WaitWork, WaitWorkCounts, QueueWork,
         apiVars
    <2> QED
      BY <1>1, <1>2, <2>1 DEF Calm
  <1> QED
    BY <1>1, <1>2, <1>3, <1>4, <1>5 DEF Next, Working

\* Then one thread is at m_pendingWorks.
LEMMA CalmLine ==
    ASSUME Base, Base', Calm, Calm'
    PROVE  Orderly /\ Orderly' /\ OnePlace /\ OnePlace' /\ Line \in Seq(Works)
  BY LineType DEF Base, Calm, Orderly

\* A drain that does not fail gives nothing back, and goes on until nothing is pending.
Alone ==
    /\ \A c \in Listed(workq) : c.op # "update"
    /\ at["worker"] \notin {"drainFailed", "giveBack", "giveBackPop"}
    /\ at["worker"] \in {"drainEos", "update"} => Line = <<>>
    /\ at["worker"] = "drainCall" => Line # <<>>

\* The works whose frames were given to the hardware encoder and whose sync points are not in the
\* waiting queue.
Sunk == IF at["worker"] = "pend" THEN Append(Line, hold) ELSE Line

\* They are the frames inside, behind the one whose sync point the working thread has got.
InStep ==
    /\ out["worker"] = 0 => Sunk = inside
    /\ out["worker"] # 0 =>
          /\ at["worker"] \in {"pend", "front", "pop", "push", "drainFront", "drainPop", "drainPush"}
          /\ Sunk # <<>> /\ Head(Sunk) = out["worker"] /\ Tail(Sunk) = inside

OwnCommands == \A c \in Listed(waitq) : c.op = "wait" => c.frame = c.work

Steady == Alone /\ InStep /\ OwnCommands

LEMMA SteadyFrame ==
    ASSUME Steady, Line' = Line, UNCHANGED <<workq, at, out, hold, inside, waitq>>
    PROVE  Steady'
  BY DEF Steady, Alone, InStep, Sunk, OwnCommands, Listed

LEMMA SteadyInit == ASSUME Init PROVE Steady
  <1>1. /\ workq = <<>> /\ waitq = <<>> /\ Line = <<>> /\ inside = <<>>
        /\ at = [t \in Threads |-> "idle"] /\ out = [t \in Threads |-> 0]
    BY SlotsInit DEF Init, W!Init, V!Init
  <1>2. at["worker"] = "idle" /\ out["worker"] = 0
    BY <1>1, PlaceNames
  <1> QED
    BY <1>1, <1>2 DEF Steady, Alone, InStep, Sunk, OwnCommands, Listed

\* The commands in the two queues after a push or a pop.
LEMMA QueueCommands ==
    ASSUME TypeOK
    PROVE  /\ \A c \in WorkCmds \cup {NoCmd} : Listed(Append(workq, c)) = Listed(workq) \cup {c}
           /\ \A c \in WaitCmds \cup {NoCmd} : Listed(Append(waitq, c)) = Listed(waitq) \cup {c}
           /\ \A c, d \in WorkCmds : Listed(Append(Append(workq, c), d)) = Listed(workq) \cup {c, d}
           /\ workq # <<>> => Listed(workq) = Listed(Tail(workq)) \cup {Head(workq)}
           /\ waitq # <<>> => Listed(waitq) = Listed(Tail(waitq)) \cup {Head(waitq)}
           /\ Listed(<<NoCmd>>) = {NoCmd}
  <1>1. workq \in Seq(WorkCmds \cup {NoCmd}) /\ waitq \in Seq(WaitCmds \cup {NoCmd})
    BY DEF TypeOK, WorkTypes, WaitTypes
  <1>2. ASSUME NEW c \in WorkCmds, NEW d \in WorkCmds
        PROVE  Listed(Append(Append(workq, c), d)) = Listed(workq) \cup {c, d}
    <2> DEFINE longer == Append(workq, c)
    <2>1. longer \in Seq(WorkCmds \cup {NoCmd}) /\ Listed(longer) = Listed(workq) \cup {c}
      BY <1>1, ListedAppend
    <2> HIDE DEF longer
    <2>2. Listed(Append(longer, d)) = Listed(longer) \cup {d}
      BY <2>1, ListedAppend
    <2> QED
      BY <2>1, <2>2 DEF longer
  <1>3. Listed(<<NoCmd>>) = {NoCmd}
    BY DEF Listed
  <1> QED
    BY <1>1, <1>2, <1>3, ListedAppend, ListedTail

LEMMA SteadyCalls ==
    ASSUME Orderly, Orderly', Joined, Steady,
           Start \/ StartFails \/ Stop \/ \E kind \in Kinds : QueueWork(kind)
    PROVE  Steady'
  <1> USE DEF Orderly
  <1>0. UNCHANGED <<at, out, hold>>
    BY DEF Start, StartFails, Stop, StopWorking, StopWaiting, StopJoined, StopPending, QueueWork
  <1>2. CASE Start \/ StartFails
    <2>1. UNCHANGED <<workq, inside, waitq>> /\ Line' = Line
      <3>1. UNCHANGED <<workq, inside, waitq>>
        BY <1>2 DEF Start, StartFails, W!Start, V!Start, workQueue, waitVars, hwVars
      <3> QED
        BY <1>2, <3>1, LineStays DEF Slots
    <2> QED
      BY <1>0, <2>1, SteadyFrame
  <1>4. ASSUME Listed(workq') \subseteq Listed(workq) \cup {NoCmd}
                  \cup { c \in WorkCmds : c.op \in {"work", "drain"} },
               Listed(waitq') \subseteq Listed(waitq) \cup {NoCmd},
               inside' = inside, Line' = Line
        PROVE  Steady'
    <2>1. InStep' /\ Alone'
      BY <1>0, <1>4, CommandFields DEF Steady, InStep, Sunk, Alone
    <2>2. OwnCommands'
      BY <1>4, CommandFields DEF Steady, OwnCommands
    <2> QED
      BY <2>1, <2>2 DEF Steady
  <1>5. ASSUME NEW kind \in Kinds, QueueWork(kind)
        PROVE  Steady'
    <2>1. UNCHANGED <<inside, waitq>> /\ Line' = Line
      <3>1. UNCHANGED <<inside, waitq>>
        BY <1>5 DEF QueueWork, waitVars, hwVars
      <3> QED
        BY <1>5, <3>1, LineStays DEF Slots
    <2>2. Listed(workq') \subseteq Listed(workq)
              \cup { c \in WorkCmds : c.op \in {"work", "drain"} }
      <3>1. CASE workq' = workq
        BY <3>1
      <3>2. ASSUME NEW c \in WorkCmds, c.op \in {"work", "drain"}, workq' = Append(workq, c)
            PROVE  Listed(workq') = Listed(workq) \cup {c}
        BY <3>2, QueueCommands
      <3>3. ASSUME NEW c \in WorkCmds, NEW d \in WorkCmds, workq' = Append(Append(workq, c), d)
            PROVE  Listed(workq') = Listed(workq) \cup {c, d}
        BY <3>3, QueueCommands
      <3> QED
        BY <1>5, <3>1, <3>2, <3>3, Enqueued
    <2> QED
      BY <1>4, <2>1, <2>2
  <1>6. ASSUME NEW abort \in BOOLEAN, StopWorking(abort)
        PROVE  Steady'
    <2>1. workq' = <<NoCmd>> \/ workq' = Append(workq, NoCmd)
      BY <1>6 DEF StopWorking, W!Shutdown
    <2>2. Listed(workq') \subseteq Listed(workq) \cup {NoCmd}
      BY <2>1, QueueCommands
    <2>3. UNCHANGED <<inside, waitq>>
      BY <1>6 DEF StopWorking, waitVars, hwVars
    <2>4. Line' = Line
      BY <1>6, LineStays DEF Slots
    <2> QED
      BY <1>4, <2>2, <2>3, <2>4
  <1>7. CASE StopWaiting
    <2>1. waitq' = <<NoCmd>> \/ waitq' = Append(waitq, NoCmd)
      BY <1>7 DEF StopWaiting, V!Shutdown
    <2>2. Listed(waitq') \subseteq Listed(waitq) \cup {NoCmd}
      BY <2>1, QueueCommands
    <2>3. UNCHANGED <<inside, workq>>
      BY <1>7 DEF StopWaiting, W!Join, workQueue, hwVars
    <2>4. Line' = Line
      BY <1>7, LineStays DEF Slots
    <2> QED
      BY <1>4, <2>2, <2>3, <2>4
  <1>8. CASE StopJoined
    <2>1. UNCHANGED <<workq, inside, waitq>>
      BY <1>8 DEF StopJoined, V!Join, workQueue, hwVars
    <2>2. Line' = Line
      BY <1>8, LineStays DEF Slots
    <2> QED
      BY <1>0, <2>1, <2>2, SteadyFrame
  <1>9. CASE StopPending
    <2>1. inside' = <<>> /\ UNCHANGED <<workq, waitq>> /\ api = "stopPending"
      BY <1>9 DEF StopPending, workQueue, waitVars
    <2>2. at["worker"] = "idle"
      BY <2>1 DEF Joined, TypeOK, WorkTypes
    <2>3. out["worker"] = 0
      BY <2>2 DEF Steady, InStep
    <2>4. Line' = <<>>
      BY <1>9, LineStops DEF Slots
    <2> QED
      BY <1>0, <2>1, <2>2, <2>3, <2>4 DEF Steady, Alone, InStep, Sunk, OwnCommands, Listed
  <1> QED
    BY <1>2, <1>5, <1>6, <1>7, <1>8, <1>9 DEF Stop

\* The steps of DoWork.
LEMMA SteadyDoWork ==
    ASSUME Orderly, Orderly', Steady, TakeTask \/ DoWork \/ Update
    PROVE  Steady'
  <1> USE DEF Orderly
  <1>0. /\ at \in [Threads -> Places] /\ out \in [Threads -> 0 .. MaxWorks]
        /\ "worker" \in Threads
        /\ Line \in Seq(Works) /\ inside \in Seq(Works) /\ \A w \in Works : w # 0
    <2>1. \A w \in Works : w # 0
      BY ConstantsAssumption DEF Works
    <2>2. Line \in Seq(Works) /\ inside \in Seq(Works)
      BY LineType DEF TypeOK, DataTypes
    <2> QED
      BY <2>1, <2>2, PlaceNames DEF TypeOK, WorkTypes
  <1>2. CASE TakeTask
    <2>0. Line' = Line
      BY <1>2, LineStays DEF Slots
    <2>1. /\ UNCHANGED <<out, inside, waitq>> /\ at'["worker"] = Begin(task'.op)
          /\ workq # <<>> /\ workq' = Tail(workq) /\ task' = Head(workq) /\ task = NoCmd
      BY <1>0, <1>2 DEF TakeTask, W!Take, Goto, waitVars, hwVars
    <2>2. at["worker"] = "idle" /\ out["worker"] = 0
      BY <2>1 DEF TypeOK, WorkTypes, Steady, InStep
    <2>3. Listed(workq') \subseteq Listed(workq) /\ task' \in Listed(workq)
      BY <2>1, QueueCommands
    <2>4. task' \in WorkCmds \cup {NoCmd} /\ task'.op # "update"
      BY <2>1, <2>3, ListTypes DEF Steady, Alone
    <2>5. at'["worker"] \in {"idle", "begin", "drain"}
      BY <2>1, <2>4, CommandFields DEF Begin
    <2>6. Sunk' = Sunk
      BY <2>0, <2>2, <2>5 DEF Sunk
    <2> QED
      BY <2>0, <2>1, <2>2, <2>3, <2>5, <2>6 DEF Steady, Alone, InStep, OwnCommands, Listed
  <1>3. CASE WorkFails \/ WorkReady \/ ApplyTunings
    <2>0. Line' = Line
      BY <1>3, LineStays DEF Slots
    <2>1. /\ UNCHANGED <<workq, out, inside, waitq>>
          /\ at["worker"] \in {"begin", "tune", "call"}
          /\ at'["worker"] \in {"idle", "begin", "tune", "call", "drain"}
      BY <1>0, <1>3 DEF WorkFails, WorkReady, ApplyTunings, EndTask, W!Finish, Goto, workQueue,
                        waitVars, hwVars
    <2>2. Sunk' = Sunk
      BY <2>0, <2>1 DEF Sunk
    <2> QED
      BY <2>0, <2>1, <2>2 DEF Steady, Alone, InStep, OwnCommands, Listed
  <1>4. ASSUME NEW outputs \in BOOLEAN, CallEncode(outputs)
        PROVE  Steady'
    <2> DEFINE frames == Append(inside, hold)
               c == Cmd("retain", 0, hold)
    <2>0. Line' = Line
      BY <1>4, LineStays DEF Slots
    <2>1. /\ UNCHANGED <<workq, hold>> /\ at["worker"] = "call"
          /\ at'["worker"] = "pend" /\ waitq' = Append(waitq, c)
          /\ inside' = IF outputs THEN Tail(frames) ELSE frames
          /\ out'["worker"] = IF outputs THEN Head(frames) ELSE 0
      BY <1>0, <1>4 DEF CallEncode, V!Push, Goto, workQueue
    <2>2. hold \in Works /\ out["worker"] = 0 /\ Line = inside
      BY <2>1, InHand DEF Steady, InStep, Sunk
    <2>3. c \in WaitCmds /\ c.op = "retain"
      BY <2>2, CommandsMade, CommandMade
    <2> HIDE DEF c
    <2>4. Sunk' = frames /\ frames # <<>> /\ Head(frames) \in Works
      <3>1. frames \in Seq(Works) /\ frames # <<>>
        <4>1. inside \in Seq(Works) /\ hold \in Works
          BY <1>0, <2>2
        <4> QED
          BY <4>1
      <3>2. Head(frames) \in Works
        BY <3>1
      <3>3. Sunk' = frames
        BY <2>0, <2>1, <2>2 DEF Sunk
      <3> QED
        BY <3>1, <3>2, <3>3
    <2> HIDE DEF frames
    <2>5. InStep'
      BY <1>0, <2>1, <2>4 DEF InStep
    <2>6. OwnCommands'
      BY <2>1, <2>3, QueueCommands DEF Steady, OwnCommands
    <2> QED
      BY <2>1, <2>5, <2>6 DEF Steady, Alone, Listed
  <1>5. CASE AddPending
    <2>0. Line' = Append(Line, hold)
      BY <1>5, LineAdds DEF Slots
    <2>1. /\ UNCHANGED <<workq, out, inside, waitq>> /\ at["worker"] = "pend"
          /\ at'["worker"] = IF out["worker"] = 0 THEN "idle" ELSE "front"
      BY <1>0, <1>5 DEF AddPending, EndTask, W!Finish, Goto, workQueue, waitVars, hwVars
    <2>2. Sunk' = Sunk
      BY <2>0, <2>1 DEF Sunk
    <2> QED
      BY <2>0, <2>1, <2>2 DEF Steady, Alone, InStep, OwnCommands, Listed
  <1>6. CASE Update
    <2>0. Line' = Line
      BY <1>6, LineStays DEF Slots
    <2>1. /\ UNCHANGED <<workq, out, waitq>> /\ at["worker"] = "update" /\ inside' = <<>>
          /\ at'["worker"] \in {"idle", "call"}
      BY <1>0, <1>6 DEF Update, EndTask, W!Finish, Goto, workQueue, waitVars
    <2>2. Sunk' = Sunk /\ Sunk = <<>> /\ out["worker"] = 0
      BY <2>0, <2>1 DEF Sunk, Steady, Alone, InStep
    <2> QED
      BY <2>0, <2>1, <2>2 DEF Steady, Alone, InStep, OwnCommands, Listed
  <1> QED
    BY <1>2, <1>3, <1>4, <1>5, <1>6 DEF DoWork

\* The steps of Drain.
LEMMA SteadyDrain ==
    ASSUME MayFail \cap {"alloc", "device"} = {}, Orderly, Orderly', Steady, Drain("worker")
    PROVE  Steady'
  <1> USE DEF Orderly
  <1>0. /\ at \in [Threads -> Places] /\ out \in [Threads -> 0 .. MaxWorks]
        /\ "worker" \in Threads
        /\ Line \in Seq(Works) /\ inside \in Seq(Works) /\ \A w \in Works : w # 0
    <2>1. \A w \in Works : w # 0
      BY ConstantsAssumption DEF Works
    <2>2. Line \in Seq(Works) /\ inside \in Seq(Works)
      BY LineType DEF TypeOK, DataTypes
    <2> QED
      BY <2>1, <2>2, PlaceNames DEF TypeOK, WorkTypes
  <1>1. workq' = workq
    BY <1>0, ThreadSteps DEF ThreadStep
  <1>2. CASE DrainBegin("worker")
    <2>1. /\ UNCHANGED <<out, inside, waitq>> /\ at["worker"] = "drain"
          /\ at'["worker"] = IF pending = <<>> THEN "drainEos" ELSE "drainCall"
      BY <1>0, <1>2 DEF DrainBegin, Goto, waitVars, hwVars
    <2>2. Line' = Line
      BY <1>0, <1>2, LineStays DEF Slots
    <2>3. Line = pending
      BY <1>0, <2>1, LineFor DEF PopPlaces, FrontPlaces
    <2>4. Sunk' = Sunk
      BY <2>1, <2>2 DEF Sunk
    <2> QED
      BY <1>1, <2>1, <2>2, <2>3, <2>4 DEF Steady, Alone, InStep, OwnCommands, Listed
  <1>3. CASE DrainFails("worker")
    <2>1. at["worker"] = "drainCall" /\ inside = <<>>
      BY <1>3 DEF DrainFails
    <2> QED
      BY <2>1 DEF Steady, Alone, InStep, Sunk
  <1>4. CASE DrainOutputs("worker")
    <2>0. Line' = Line
      BY <1>0, <1>4, LineStays DEF Slots
    <2>1. /\ waitq' = waitq /\ at["worker"] = "drainCall" /\ inside # <<>>
          /\ at'["worker"] = "drainFront" /\ inside' = Tail(inside)
          /\ out'["worker"] = Head(inside)
      BY <1>0, <1>4 DEF DrainOutputs, Goto, waitVars
    <2>2. Sunk' = inside /\ Head(inside) # 0
      BY <1>0, <2>0, <2>1 DEF Steady, InStep, Sunk
    <2> QED
      BY <1>1, <2>0, <2>1, <2>2 DEF Steady, Alone, InStep, OwnCommands, Listed
  <1>5. CASE TakeFront("worker") \/ PopFront("worker")
    <2>0. Line' = Line
      BY <1>0, <1>5, LineTaken DEF Slots
    <2>1. /\ UNCHANGED <<out, inside, waitq>>
          /\ at["worker"] \in {"front", "pop", "drainFront", "drainPop"}
          /\ at'["worker"] \in {"pop", "push", "drainPop", "drainPush"}
      BY <1>0, <1>5 DEF TakeFront, PopFront, Goto, waitVars, hwVars
    <2>2. Sunk' = Sunk
      BY <2>0, <2>1 DEF Sunk
    <2> QED
      BY <1>1, <2>0, <2>1, <2>2 DEF Steady, Alone, InStep, OwnCommands, Listed
  <1>6. CASE PushFront("worker")
    <2> DEFINE c == Cmd("wait", front["worker"], out["worker"])
    <2>0. /\ Line # <<>> /\ Line' = Tail(Line)
          /\ Head(Line) = front["worker"] /\ front["worker"] \in Works
      BY <1>0, <1>6, LinePasses DEF Slots
    <2>1. /\ inside' = inside /\ at["worker"] \in {"push", "drainPush"}
          /\ at'["worker"] \in {"count", "drainCount"}
          /\ out'["worker"] = 0 /\ waitq' = Append(waitq, c)
      BY <1>0, <1>6 DEF PushFront, V!Push, Goto, hwVars
    <2>2. out["worker"] \in Works /\ Sunk = Line
      BY <1>0, <2>1, InHand DEF Sunk, OutPlaces
    <2>3. front["worker"] = out["worker"] /\ Tail(Line) = inside
      BY <1>0, <2>0, <2>2 DEF Steady, InStep
    <2>4. c \in WaitCmds /\ c.frame = c.work
      <3>1. front["worker"] \in 0 .. MaxWorks
        BY <1>0 DEF TypeOK, WorkTypes
      <3> QED
        BY <2>2, <2>3, <3>1, CommandsMade, CommandMade
    <2> HIDE DEF c
    <2>5. Sunk' = inside
      BY <2>0, <2>1, <2>3 DEF Sunk
    <2>6. OwnCommands'
      BY <2>1, <2>4, QueueCommands DEF Steady, OwnCommands
    <2>7. InStep'
      BY <2>1, <2>5 DEF InStep
    <2>8. Alone'
      BY <1>1, <2>1 DEF Steady, Alone, Listed
    <2> QED
      BY <2>6, <2>7, <2>8 DEF Steady
  <1>7. CASE Count("worker")
    <2>0. Line' = Line
      BY <1>0, <1>7, LineStays DEF Slots
    <2>1. /\ UNCHANGED <<out, inside, waitq>> /\ at["worker"] \in {"count", "drainCount"}
          /\ at'["worker"] \in {"idle", "drain"}
      BY <1>0, <1>7 DEF Count, EndTask, Goto, waitVars, hwVars
    <2>2. Sunk' = Sunk
      BY <2>0, <2>1 DEF Sunk
    <2> QED
      BY <1>1, <2>0, <2>1, <2>2 DEF Steady, Alone, InStep, OwnCommands, Listed
  <1>8. CASE DrainEos("worker")
    <2>0. Line' = Line
      BY <1>0, <1>8, LineStays DEF Slots
    <2>1. at["worker"] = "drainEos"
      BY <1>8 DEF DrainEos, Steady, Alone
    <2>2. /\ UNCHANGED <<out, inside>> /\ at'["worker"] \in {"idle", "update"}
      BY <1>0, <1>8, <2>1 DEF DrainEos, AfterDrain, EndTask, Goto, hwVars
    <2>3. waitq' = waitq \/ \E c \in WaitCmds : c.op = "eos" /\ waitq' = Append(waitq, c)
      BY <1>8, InHand, CommandsMade, CommandMade DEF DrainEos, V!Push, waitVars
    <2>4. OwnCommands'
      <3>1. ASSUME NEW c \in WaitCmds, c.op = "eos", waitq' = Append(waitq, c)
            PROVE  Listed(waitq') = Listed(waitq) \cup {c}
        BY <3>1, QueueCommands
      <3> QED
        BY <2>3, <3>1 DEF Steady, OwnCommands, Listed
    <2>5. Sunk' = Sunk /\ Line = <<>> /\ out["worker"] = 0
      BY <2>0, <2>1, <2>2 DEF Sunk, Steady, Alone, InStep
    <2> QED
      BY <1>1, <2>0, <2>2, <2>4, <2>5 DEF Steady, Alone, InStep, Listed
  <1>9. CASE GiveBack("worker") \/ GiveBackPop("worker")
    BY <1>9 DEF GiveBack, GiveBackPop, Steady, Alone
  <1> QED
    BY <1>2, <1>3, <1>4, <1>5, <1>6, <1>7, <1>8, <1>9 DEF Drain

LEMMA SteadyStep ==
    ASSUME MaxConfigs = 0, MayFail \cap {"alloc", "device"} = {}, Base, Base', Calm, Steady, Next
    PROVE  Steady'
  <1>0. Orderly /\ Orderly' /\ Joined
    BY CalmStep, CalmLine DEF Base
  <1>1. CASE Waiting
    <2>1. Line' = Line
      BY <1>0, <1>1, LineStays DEF Orderly, Slots
    <2>2. UNCHANGED <<workq, at, out, hold, inside>>
      BY <1>1 DEF Waiting, TakeJob, RetainLockedFrame, EosReturned, WaitWork, WaitWorkCounts,
                  apiVars, workQueue, hwVars
    <2>3. Listed(waitq') \subseteq Listed(waitq)
      <3>1. CASE TakeJob
        BY <1>0, <3>1, QueueCommands DEF TakeJob, V!Take, Orderly
      <3>2. CASE RetainLockedFrame \/ EosReturned \/ WaitWork \/ WaitWorkCounts
        BY <3>2 DEF RetainLockedFrame, EosReturned, WaitWork, WaitWorkCounts, V!Finish, Listed
      <3> QED
        BY <1>1, <3>1, <3>2 DEF Waiting
    <2> QED
      BY <2>1, <2>2, <2>3 DEF Steady, Alone, InStep, Sunk, OwnCommands, Listed
  <1> QED
    BY <1>0, <1>1, CalmStep, SteadyCalls, SteadyDoWork, SteadyDrain DEF Next, Working

LEMMA Stutters ==
    ASSUME Calm, Steady, UNCHANGED vars
    PROVE  Calm' /\ Steady' /\ Line' = Line
  <1>1. Line' = Line
    BY DEF vars, Line, Lined, Taken, Remaining
  <1>2. UNCHANGED <<configs, met, workq, at, out, hold, inside, waitq>>
    BY DEF vars, apiVars, workQueue, waitVars, hwVars
  <1> QED
    BY <1>1, <1>2, SteadyFrame DEF Calm

\* A work is given the bitstream of its own frame, as long as the bitrate is not set by config and
\* no drain fails (each of them leaves m_pendingWorks and the hardware encoder out of step, and a
\* work gets the bitstream of another): what is pending is what is inside, in the same order.
THEOREM OwnBitstreams ==
    ASSUME MaxConfigs = 0, MayFail \cap {"alloc", "device"} = {}
    PROVE  Spec => []OwnBitstream
  <1>1. Init => Base /\ Calm /\ Steady
    BY BaseInit, CalmInit, SteadyInit
  <1>2. Base /\ Calm /\ Steady /\ [Next]_vars => (Base /\ Calm /\ Steady)'
    <2> SUFFICES ASSUME Base, Calm, Steady, [Next]_vars
                 PROVE  Base' /\ Calm' /\ Steady'
      OBVIOUS
    <2>1. CASE Next
      BY <2>1, BaseStep, CalmStep, SteadyStep
    <2>2. CASE UNCHANGED vars
      BY <2>2, BaseStep, Stutters
    <2> QED
      BY <2>1, <2>2
  <1>3. Base /\ Calm /\ Steady => OwnBitstream
    BY DEF Steady, OwnCommands, Listed, OwnBitstream
  <1> QED
    BY <1>1, <1>2, <1>3, PTL DEF Spec

-----------------------------------------------------------------------------
(* The end of stream comes last *)

\* Works overtake no other: in a queue they are in the order they were queued in, and all that
\* are in a later place were queued before.
InOrder == /\ Ordered(WorkPlaces, 5)
           /\ Rising(workq) /\ ListRising(Line) /\ Rising(waitq)

\* Works that leave the passage, or stay.
LEMMA OrderLess ==
    ASSUME InOrder, Rising(workq'), ListRising(Line'), Rising(waitq'),
           \A i \in 1 .. 5 : WorkPlaces'[i] \subseteq WorkPlaces[i]
    PROVE  InOrder'
  <1>1. Ordered(WorkPlaces', 5)
    BY OrderedLess DEF InOrder
  <1> QED
    BY <1>1 DEF InOrder, Ordered

\* The first work of a place goes on to a later one.
LEMMA OrderPass ==
    ASSUME InOrder, Rising(workq'), ListRising(Line'), Rising(waitq'),
           NEW a \in 1 .. 5, NEW b \in 1 .. 5, a < b, NEW w \in WorkPlaces[a],
           \A v \in WorkPlaces'[a] : v \in WorkPlaces[a] /\ w < v,
           \A v \in WorkPlaces'[b] : v \in WorkPlaces[b] \/ v = w,
           \A i \in 1 .. 5 : a < i /\ i < b => WorkPlaces[i] = {},
           \A i \in 1 .. 5 : i # a /\ i # b => WorkPlaces'[i] \subseteq WorkPlaces[i]
    PROVE  InOrder'
  <1>1. Ordered(WorkPlaces', 5)
    BY OrderedPass DEF InOrder
  <1> QED
    BY <1>1 DEF InOrder, Ordered

LEMMA OrderFrame ==
    ASSUME Orderly, Orderly', InOrder, Line' = Line, UNCHANGED <<workq, hold, waitq, job, found>>
    PROVE  InOrder'
  <1>1. \A i \in 1 .. 5 : WorkPlaces'[i] \subseteq WorkPlaces[i]
    BY PlacesNamed, LineKept DEF Named, InTask, InJob
  <1> QED
    BY <1>1, OrderLess DEF InOrder, Rising, ListRising

LEMMA OrderInit == ASSUME Init PROVE InOrder
  <1>1. workq = <<>> /\ waitq = <<>> /\ Line = <<>> /\ hold = 0
        /\ job.op = "stop" /\ found = "idle"
    BY CommandFields, SlotsInit DEF Init, W!Init, V!Init
  <1>2. InPending = {}
    BY <1>1, TypeInit, SlotsInit, PendingLined DEF Listed
  <1>3. \A i \in 1 .. 5 : WorkPlaces[i] = {}
    BY <1>1, <1>2, PlacesNamed DEF Named, Carried, InTask, InJob
  <1> QED
    BY <1>1, <1>3 DEF InOrder, Ordered, Rising, ListRising

LEMMA OrderTypes ==
    ASSUME Orderly, OnePlace
    PROVE  /\ workq \in Seq(WorkCmds \cup {NoCmd}) /\ waitq \in Seq(WaitCmds \cup {NoCmd})
           /\ Line \in Seq(Works) /\ 0 \notin Works /\ NoCmd.work = 0
           /\ Len(kinds) \in Nat
           /\ \A i \in 1 .. 7 : WorkPlaces[i] \subseteq 1 .. Len(kinds)
           /\ Rising(<<NoCmd>>) /\ ListRising(<<>>)
           /\ Carried(<<NoCmd>>) = {}
  <1>1. \A i \in 1 .. 7 : WorkPlaces[i] \subseteq 1 .. Len(kinds)
    BY PlacesNamed DEF Named, OnePlace, InPlaces, Everywhere, Queued
  <1>2. Rising(<<NoCmd>>) /\ ListRising(<<>>) /\ Carried(<<NoCmd>>) = {} /\ NoCmd.work = 0
    BY CommandFields DEF Rising, ListRising, Carried
  <1>3. /\ workq \in Seq(WorkCmds \cup {NoCmd}) /\ waitq \in Seq(WaitCmds \cup {NoCmd})
        /\ Line \in Seq(Works) /\ Len(kinds) \in Nat
    BY LineType DEF Orderly, TypeOK, CallTypes, WorkTypes, WaitTypes
  <1>4. 0 \notin Works
    BY ConstantsAssumption DEF Works
  <1> QED
    BY <1>1, <1>2, <1>3, <1>4

LEMMA OrderQueue ==
    ASSUME Orderly, Orderly', OnePlace, InOrder, NEW kind \in Kinds, QueueWork(kind)
    PROVE  InOrder'
  <1> USE DEF Orderly
  <1> DEFINE w == Len(kinds) + 1
  <1>1. \A i \in 1 .. 5 : \A v \in WorkPlaces[i] : v < w
    BY OrderTypes
  <1>2. UNCHANGED <<hold, waitq, job, found>> /\ Line' = Line
    <2>1. UNCHANGED <<hold, waitq, job, found>>
      BY DEF QueueWork, waitVars
    <2> QED
      BY <2>1, LineStays DEF Slots
  <1>3. \A i \in 2 .. 5 : WorkPlaces'[i] = WorkPlaces[i]
    BY <1>2, PlacesNamed, LineKept DEF Named, InTask, InJob
  <1>4. WorkPlaces[1] = Carried(workq) /\ WorkPlaces'[1] = Carried(workq')
    BY PlacesNamed DEF Named
  <1>5. ListRising(Line') /\ Rising(waitq')
    BY <1>2 DEF InOrder
  <1>6. ASSUME Rising(workq'), Carried(workq') \subseteq Carried(workq) \cup {w}
        PROVE  InOrder'
    <2>1. \A v \in WorkPlaces'[1] : v \in WorkPlaces[1] \/ v = w
      BY <1>4, <1>6
    <2>2. \A i \in 1 .. 5 : i # 1 => WorkPlaces'[i] \subseteq WorkPlaces[i]
      BY <1>3
    <2> HIDE DEF w
    <2>3. Ordered(WorkPlaces', 5)
      BY <1>1, <2>1, <2>2, OrderedEnter DEF InOrder
    <2> QED
      BY <1>5, <1>6, <2>3 DEF InOrder, Ordered
  <1>7. \A v \in Carried(workq) : v < w
    BY <1>1, <1>4
  <1>8. workq \in Seq(WorkCmds \cup {NoCmd}) /\ w # 0 /\ Rising(workq)
    BY OrderTypes DEF InOrder
  <1> HIDE DEF w
  <1>9. CASE workq' = workq
    BY <1>6, <1>8, <1>9
  <1>10. ASSUME NEW c \in WorkCmds, c.work = w
         PROVE  /\ Append(workq, c) \in Seq(WorkCmds \cup {NoCmd})
                /\ Rising(Append(workq, c))
                /\ Carried(Append(workq, c)) = Carried(workq) \cup {w}
    BY <1>7, <1>8, <1>10, CarriedAppend, RisingAppend
  <1>11. ASSUME NEW c \in WorkCmds, c.work = w, workq' = Append(workq, c)
         PROVE  InOrder'
    BY <1>6, <1>10, <1>11
  <1>12. ASSUME NEW c \in WorkCmds, NEW d \in WorkCmds, c.work = w, d.work = 0,
                workq' = Append(Append(workq, c), d)
         PROVE  InOrder'
    <2> DEFINE longer == Append(workq, c)
    <2>1. /\ longer \in Seq(WorkCmds \cup {NoCmd}) /\ Rising(longer)
          /\ Carried(longer) = Carried(workq) \cup {w}
      BY <1>10, <1>12
    <2>2. workq' = Append(longer, d)
      BY <1>12
    <2> HIDE DEF longer
    <2>3. Rising(Append(longer, d))
      BY <1>12, <2>1, RisingAppendNothing
    <2>4. Carried(Append(longer, d)) = Carried(longer) \cup ({d.work} \ {0})
      BY <2>1, CarriedAppend
    <2> QED
      BY <1>6, <1>12, <2>1, <2>2, <2>3, <2>4
  <1> QED
    BY <1>9, <1>11, <1>12, Enqueued DEF w

LEMMA OrderStop ==
    ASSUME Orderly, Orderly', Joined, OnePlace, InOrder,
           (\E abort \in BOOLEAN : StopWorking(abort)) \/ StopWaiting \/ StopPending
    PROVE  InOrder'
  <1> USE DEF Orderly
  <1>1. UNCHANGED <<hold, job, found>> /\ InTask' = InTask /\ InJob' = InJob
    BY DEF StopWorking, StopWaiting, StopPending, V!Shutdown, waitVars, InTask, InJob
  <1>2. ASSUME Rising(workq'), ListRising(Line'), Rising(waitq'),
               Carried(workq') \subseteq Carried(workq), Listed(Line') \subseteq Listed(Line),
               Carried(waitq') \subseteq Carried(waitq)
        PROVE  InOrder'
    <2>1. \A i \in 1 .. 5 : WorkPlaces'[i] \subseteq WorkPlaces[i]
      BY <1>1, <1>2, PlacesNamed, PendingPlace DEF Named
    <2> QED
      BY <1>2, <2>1, OrderLess
  <1>3. /\ Rising(Append(workq, NoCmd)) /\ Carried(Append(workq, NoCmd)) = Carried(workq)
        /\ Rising(Append(waitq, NoCmd)) /\ Carried(Append(waitq, NoCmd)) = Carried(waitq)
    BY OrderTypes, RisingAppendNothing, PushesNoWork DEF InOrder, OnePlace
  <1>4. ASSUME NEW abort \in BOOLEAN, StopWorking(abort)
        PROVE  InOrder'
    <2>0. Line' = Line
      BY <1>4, LineStays DEF Slots
    <2>1. waitq' = waitq /\ Line' = Line /\ (workq' = <<NoCmd>> \/ workq' = Append(workq, NoCmd))
      BY <1>4, <2>0 DEF StopWorking, W!Shutdown, waitVars
    <2> QED
      BY <1>2, <1>3, <2>1, OrderTypes DEF InOrder
  <1>5. CASE StopWaiting
    <2>0. Line' = Line
      BY <1>5, LineStays DEF Slots
    <2>1. workq' = workq /\ Line' = Line /\ (waitq' = <<NoCmd>> \/ waitq' = Append(waitq, NoCmd))
      BY <1>5, <2>0 DEF StopWaiting, W!Join, V!Shutdown, workQueue
    <2> QED
      BY <1>2, <1>3, <2>1, OrderTypes DEF InOrder
  <1>6. CASE StopPending
    <2>0. Line' = <<>>
      BY <1>6, LineStops DEF Slots
    <2>1. UNCHANGED <<workq, waitq>> /\ Line' = <<>>
      BY <1>6, <2>0 DEF StopPending, workQueue, waitVars
    <2>2. Listed(Line') = {}
      BY <2>1 DEF Listed
    <2> QED
      BY <1>2, <2>1, <2>2, OrderTypes DEF InOrder
  <1> QED
    BY <1>4, <1>5, <1>6

\* The steps of DoWork.
LEMMA OrderDoWork ==
    ASSUME Orderly, Orderly', OnePlace, InOrder, TakeTask \/ DoWork \/ Update
    PROVE  InOrder'
  <1> USE PlacesNamed, PendingPlace DEF Named, Orderly
  <1>0. Rising(workq) /\ ListRising(Line) /\ Rising(waitq) /\ 0 \notin Works
    BY OrderTypes DEF InOrder
  <1>1. CASE TakeTask
    <2>0. Line' = Line
      BY <1>1, LineStays DEF Slots
    <2>1. /\ UNCHANGED <<waitq, job, found>> /\ hold = 0 /\ Line' = Line
          /\ workq # <<>> /\ workq' = Tail(workq) /\ hold' = Head(workq).work
      BY <1>1, <2>0, CommandFields DEF TakeTask, W!Take, TaskPlaces, waitVars
    <2>2. /\ Rising(workq') /\ Carried(workq') \subseteq Carried(workq)
          /\ Head(workq).work # 0 =>
                /\ Head(workq).work \in Carried(workq)
                /\ \A v \in Carried(workq') : Head(workq).work < v
      <3>1. Rising(workq') /\ (Head(workq).work # 0 =>
                                 \A v \in Carried(workq') : Head(workq).work < v)
        BY <1>0, <2>1, OrderTypes, RisingTail
      <3>2. Carried(workq) = Carried(workq') \cup ({Head(workq).work} \ {0})
        BY <2>1, OrderTypes, CarriedTail
      <3> QED
        BY <3>1, <3>2
    <2>3. InTask' = {hold'} \ {0} /\ InTask = {} /\ InJob' = InJob
      BY <2>1 DEF InTask, InJob
    <2>4. CASE Head(workq).work = 0
      <3>1. \A i \in 1 .. 5 : WorkPlaces'[i] \subseteq WorkPlaces[i]
        BY <2>1, <2>2, <2>3, <2>4
      <3> QED
        BY <1>0, <2>1, <2>2, <3>1, OrderLess
    <2>5. CASE Head(workq).work # 0
      <3> DEFINE w == Head(workq).work
      <3>1. /\ w \in WorkPlaces[1]
            /\ \A v \in WorkPlaces'[1] : v \in WorkPlaces[1] /\ w < v
            /\ \A v \in WorkPlaces'[2] : v \in WorkPlaces[2] \/ v = w
            /\ \A i \in 1 .. 5 : i # 1 /\ i # 2 => WorkPlaces'[i] \subseteq WorkPlaces[i]
        BY <2>1, <2>2, <2>3, <2>5
      <3> HIDE DEF w
      <3>2. \A i \in 1 .. 5 : 1 < i /\ i < 2 => WorkPlaces[i] = {}
        OBVIOUS
      <3> QED
        BY <1>0, <2>1, <2>2, <3>1, <3>2, OrderPass
    <2> QED
      BY <2>4, <2>5
  <1>2. CASE WorkFails \/ WorkReady \/ ApplyTunings \/ Update
    <2>0. Line' = Line
      BY <1>2, LineStays DEF Slots
    <2>1. UNCHANGED <<workq, waitq, job, found>> /\ Line' = Line /\ (hold' = 0 \/ hold' = hold)
      BY <1>2, <2>0 DEF WorkFails, WorkReady, ApplyTunings, Update, EndTask, W!Finish, workQueue, waitVars
    <2>2. InTask' \subseteq InTask /\ InJob' = InJob
      BY <2>1 DEF InTask, InJob
    <2>3. \A i \in 1 .. 5 : WorkPlaces'[i] \subseteq WorkPlaces[i]
      BY <2>1, <2>2
    <2> QED
      BY <1>0, <2>1, <2>3, OrderLess
  <1>3. ASSUME NEW outputs \in BOOLEAN, CallEncode(outputs)
        PROVE  InOrder'
    <2> DEFINE c == Cmd("retain", 0, hold)
    <2>0. Line' = Line
      BY <1>3, LineStays DEF Slots
    <2>1. UNCHANGED <<workq, hold, job, found>> /\ Line' = Line /\ waitq' = Append(waitq, c)
      BY <1>3, <2>0 DEF CallEncode, V!Push, workQueue
    <2>2. c \in WaitCmds /\ c.work = 0
      BY <1>3, InHand, CommandsMade, CommandMade DEF CallEncode
    <2> HIDE DEF c
    <2>3. Carried(waitq') = Carried(waitq) /\ Rising(waitq')
      BY <1>0, <2>1, <2>2, OrderTypes, RisingAppendNothing, PushesNoWork DEF OnePlace
    <2>4. InTask' = InTask /\ InJob' = InJob
      BY <2>1 DEF InTask, InJob
    <2>5. \A i \in 1 .. 5 : WorkPlaces'[i] \subseteq WorkPlaces[i]
      BY <2>1, <2>3, <2>4
    <2> QED
      BY <1>0, <2>1, <2>3, <2>5, OrderLess
  <1>4. CASE AddPending
    <2>0. Line' = Append(Line, hold)
      BY <1>4, LineAdds DEF Slots
    <2>1. hold \in Works /\ hold # 0 /\ hold' = 0 /\ Line' = Append(Line, hold)
          /\ UNCHANGED <<workq, waitq, job, found>>
      BY <1>4, <2>0, InHand, OrderTypes DEF AddPending, EndTask, W!Finish, workQueue, waitVars
    <2>2. InTask = {hold} /\ InTask' = {} /\ InJob' = InJob
      BY <2>1 DEF InTask, InJob
    <2>3. \A v \in Listed(Line) : v < hold
      BY <2>2 DEF InOrder, Ordered
    <2>4. Listed(Line') = Listed(Line) \cup {hold} /\ ListRising(Line')
      BY <1>0, <2>1, <2>3, OrderTypes, ListedAppend, ListRisingAppend
    <2>5. /\ hold \in WorkPlaces[2]
          /\ \A v \in WorkPlaces'[2] : v \in WorkPlaces[2] /\ hold < v
          /\ \A v \in WorkPlaces'[3] : v \in WorkPlaces[3] \/ v = hold
          /\ \A i \in 1 .. 5 : i # 2 /\ i # 3 => WorkPlaces'[i] \subseteq WorkPlaces[i]
      BY <2>1, <2>2, <2>4
    <2>6. \A i \in 1 .. 5 : 2 < i /\ i < 3 => WorkPlaces[i] = {}
      OBVIOUS
    <2> QED
      BY <1>0, <2>1, <2>4, <2>5, <2>6, OrderPass
  <1> QED
    BY <1>1, <1>2, <1>3, <1>4 DEF DoWork

\* The steps of Drain, on the working thread.
LEMMA OrderDrain ==
    ASSUME Orderly, Orderly', OnePlace, Alone, InOrder, Drain("worker")
    PROVE  InOrder'
  <1> USE PlacesNamed, PendingPlace, PlaceNames DEF Named, Orderly
  <1>0. Rising(workq) /\ ListRising(Line) /\ Rising(waitq) /\ 0 \notin Works
    BY OrderTypes DEF InOrder
  <1>1. CASE \/ DrainBegin("worker") \/ DrainFails("worker") \/ DrainOutputs("worker")
             \/ Count("worker") \/ TakeFront("worker") \/ PopFront("worker")
    <2>1. UNCHANGED <<workq, hold, waitq, job, found>>
      BY <1>1 DEF DrainBegin, DrainFails, DrainOutputs, Count, TakeFront, PopFront, EndTask,
                  W!Finish, workQueue, waitVars
    <2>2. Line' = Line
      BY <1>1, LineStays, LineTaken DEF Slots
    <2> QED
      BY <2>1, <2>2, OrderFrame
  <1>2. CASE PushFront("worker")
    <2> DEFINE w == Head(Line)
               c == Cmd("wait", w, out["worker"])
    <2>1. UNCHANGED <<workq, hold, job, found>> /\ InTask' = InTask /\ InJob' = InJob
      BY <1>2 DEF PushFront, V!Push, workQueue, InTask, InJob
    <2>2. /\ Line # <<>> /\ Line' = Tail(Line) /\ waitq' = Append(waitq, c)
          /\ w \in Works /\ out["worker"] \in Works
      <3>1. Line # <<>> /\ Line' = Tail(Line) /\ w \in Works /\ w = front["worker"]
        BY <1>2, LinePasses DEF Slots
      <3>2. waitq' = Append(waitq, Cmd("wait", front["worker"], out["worker"]))
            /\ at["worker"] \in OutPlaces
        BY <1>2 DEF PushFront, V!Push, OutPlaces
      <3> QED
        BY <3>1, <3>2, InHand
    <2>3. c \in WaitCmds /\ c.work = w
      <3>1. w \in 0 .. MaxWorks
        BY <2>2, ConstantsAssumption DEF Works
      <3> QED
        BY <2>2, <3>1, CommandsMade, CommandMade
    <2> HIDE DEF w, c
    <2>4. Listed(Line) = Listed(Line') \cup {w}
      BY <2>2, LineLists DEF w
    <2>5. ListRising(Line') /\ \A v \in Listed(Line') : w < v
      BY <1>0, <2>2, OrderTypes, ListRisingTail DEF w
    <2>6. \A v \in Carried(waitq) : v < w
      BY <2>4 DEF InOrder, Ordered
    <2>7. Rising(waitq')
      BY <1>0, <2>2, <2>3, <2>6, OrderTypes, RisingAppend
    <2>8. Carried(waitq') \subseteq Carried(waitq) \cup {w}
      <3>1. Carried(waitq') = Carried(waitq) \cup ({c.work} \ {0})
        BY <2>2, <2>3, QueueLists
      <3> QED
        BY <2>3, <3>1
    <2>9. /\ w \in WorkPlaces[3]
          /\ \A v \in WorkPlaces'[3] : v \in WorkPlaces[3] /\ w < v
          /\ \A v \in WorkPlaces'[4] : v \in WorkPlaces[4] \/ v = w
          /\ \A i \in 1 .. 5 : i # 3 /\ i # 4 => WorkPlaces'[i] \subseteq WorkPlaces[i]
      BY <2>1, <2>4, <2>5, <2>8
    <2>10. \A i \in 1 .. 5 : 3 < i /\ i < 4 => WorkPlaces[i] = {}
      OBVIOUS
    <2> QED
      BY <1>0, <2>1, <2>5, <2>7, <2>9, <2>10, OrderPass
  <1>3. CASE DrainEos("worker")
    <2>0. Line' = Line
      BY <1>3, LineStays DEF Slots
    <2>1. UNCHANGED <<workq, job, found>> /\ Line' = Line /\ Line = <<>> /\ InJob' = InJob
      BY <1>3, <2>0 DEF DrainEos, AfterDrain, EndTask, W!Finish, V!Push, workQueue, waitVars, Alone, InJob
    <2>2. CASE hold' = hold /\ waitq' = waitq
      BY <2>1, <2>2, OrderFrame
    <2>3. CASE task.op = "drain" /\ hold # 0
      <3> DEFINE c == Cmd("eos", hold, 0)
      <3>1. hold \in Works /\ hold' = 0 /\ waitq' = Append(waitq, c) /\ c \in WaitCmds
            /\ c.work = hold
        BY <1>3, <2>3, InHand, CommandsMade, CommandMade DEF DrainEos, V!Push
      <3> HIDE DEF c
      <3>2. InTask = {hold} /\ InTask' = {} /\ Listed(Line) = {}
        BY <2>1, <2>3, <3>1 DEF InTask, Listed
      <3>3. \A v \in Carried(waitq) : v < hold
        BY <3>2 DEF InOrder, Ordered
      <3>4. Rising(waitq')
        BY <1>0, <3>1, <3>3, OrderTypes, RisingAppend
      <3>5. Carried(waitq') \subseteq Carried(waitq) \cup {hold}
        <4>1. Carried(waitq') = Carried(waitq) \cup ({c.work} \ {0})
          BY <3>1, QueueLists
        <4> QED
          BY <3>1, <4>1
      <3>6. /\ hold \in WorkPlaces[2]
            /\ \A v \in WorkPlaces'[2] : v \in WorkPlaces[2] /\ hold < v
            /\ \A v \in WorkPlaces'[4] : v \in WorkPlaces[4] \/ v = hold
            /\ \A i \in 1 .. 5 : i # 2 /\ i # 4 => WorkPlaces'[i] \subseteq WorkPlaces[i]
        BY <2>1, <3>2, <3>5
      <3>7. \A i \in 1 .. 5 : 2 < i /\ i < 4 => WorkPlaces[i] = {}
        BY <3>2
      <3> QED
        BY <1>0, <2>1, <3>4, <3>6, <3>7, OrderPass
    <2> QED
      BY <1>3, <2>2, <2>3 DEF DrainEos, waitVars
  <1>4. CASE GiveBack("worker") \/ GiveBackPop("worker")
    BY <1>4 DEF GiveBack, GiveBackPop, Alone
  <1> QED
    BY <1>1, <1>2, <1>3, <1>4 DEF Drain

LEMMA OrderWaiting ==
    ASSUME Orderly, Orderly', OnePlace, InOrder, Waiting
    PROVE  InOrder'
  <1> USE PlacesNamed, PendingPlace DEF Named, Orderly
  <1>0. Rising(workq) /\ ListRising(Line) /\ Rising(waitq) /\ 0 \notin Works
    BY OrderTypes DEF InOrder
  <1>1. UNCHANGED <<workq, hold>> /\ Line' = Line /\ InTask' = InTask
    <2>1. UNCHANGED <<workq, hold>> /\ InTask' = InTask
      BY DEF Waiting, TakeJob, RetainLockedFrame, EosReturned, WaitWork, WaitWorkCounts, workQueue,
             InTask
    <2> QED
      BY <2>1, LineStays DEF Slots
  <1>2. CASE TakeJob
    <2>1. /\ waitq # <<>> /\ waitq' = Tail(waitq) /\ job' = Head(waitq) /\ job = NoCmd
          /\ job' \in WaitCmds \cup {NoCmd} /\ found' = IF job'.op = "wait" THEN "sync" ELSE "idle"
      BY <1>2, ListTypes DEF TakeJob, V!Take
    <2>2. InJob' = {Head(waitq).work} \ {0}
      BY <2>1, CommandFields DEF InJob
    <2>3. Rising(waitq') /\ Carried(waitq) = Carried(waitq') \cup ({Head(waitq).work} \ {0})
      BY <1>0, <2>1, OrderTypes, RisingTail, CarriedTail
    <2>4. CASE Head(waitq).work = 0
      <3>1. \A i \in 1 .. 5 : WorkPlaces'[i] \subseteq WorkPlaces[i]
        BY <1>1, <2>2, <2>3, <2>4
      <3> QED
        BY <1>0, <1>1, <2>3, <3>1, OrderLess
    <2>5. CASE Head(waitq).work # 0
      <3> DEFINE w == Head(waitq).work
      <3>1. \A v \in Carried(waitq') : w < v
        BY <1>0, <2>1, <2>5, OrderTypes, RisingTail
      <3>2. /\ w \in WorkPlaces[4]
            /\ \A v \in WorkPlaces'[4] : v \in WorkPlaces[4] /\ w < v
            /\ \A v \in WorkPlaces'[5] : v \in WorkPlaces[5] \/ v = w
            /\ \A i \in 1 .. 5 : i # 4 /\ i # 5 => WorkPlaces'[i] \subseteq WorkPlaces[i]
        BY <1>1, <2>2, <2>3, <2>5, <3>1
      <3> HIDE DEF w
      <3>3. \A i \in 1 .. 5 : 4 < i /\ i < 5 => WorkPlaces[i] = {}
        OBVIOUS
      <3> QED
        BY <1>0, <1>1, <2>3, <3>2, <3>3, OrderPass
    <2> QED
      BY <2>4, <2>5
  <1>3. CASE RetainLockedFrame \/ EosReturned \/ WaitWork \/ WaitWorkCounts
    <2>1. waitq' = waitq /\ InJob' \subseteq InJob
      <3>1. CASE RetainLockedFrame \/ EosReturned \/ WaitWorkCounts
        <4>1. waitq' = waitq /\ job' = NoCmd
          BY <3>1 DEF RetainLockedFrame, EosReturned, WaitWorkCounts, V!Finish
        <4>2. CASE RetainLockedFrame \/ EosReturned
          <5>1. job.op # "wait" /\ found' = found
            BY <4>2 DEF RetainLockedFrame, EosReturned
          <5>2. found' = "idle"
            BY <5>1 DEF TypeOK, WaitTypes
          <5> QED
            BY <4>1, <5>2, CommandFields DEF InJob
        <4>3. CASE WaitWorkCounts
          <5>1. found' = "idle"
            BY <4>3 DEF WaitWorkCounts
          <5> QED
            BY <4>1, <5>1, CommandFields DEF InJob
        <4> QED
          BY <3>1, <4>1, <4>2, <4>3
      <3>2. CASE WaitWork
        BY <3>2 DEF WaitWork, InJob
      <3> QED
        BY <1>3, <3>1, <3>2
    <2>2. \A i \in 1 .. 5 : WorkPlaces'[i] \subseteq WorkPlaces[i]
      BY <1>1, <2>1
    <2> QED
      BY <1>0, <1>1, <2>1, <2>2, OrderLess
  <1> QED
    BY <1>2, <1>3 DEF Waiting

LEMMA OrderStep ==
    ASSUME MaxConfigs = 0, Base, Base', Calm, Steady, InOrder, Next
    PROVE  InOrder'
  <1>0. Orderly /\ Orderly' /\ OnePlace /\ Joined /\ Alone
    BY CalmStep, CalmLine DEF Base, Steady
  <1>1. CASE Start \/ StartFails \/ StopJoined
    <2>1. UNCHANGED <<workq, hold, waitq, job, found>>
      BY <1>1 DEF Start, StartFails, StopJoined, W!Start, V!Start, V!Join, workQueue, waitVars
    <2>2. Line' = Line
      BY <1>0, <1>1, LineStays DEF Orderly, Slots
    <2> QED
      BY <1>0, <2>1, <2>2, OrderFrame
  <1> QED
    BY <1>0, <1>1, CalmStep, OrderQueue, OrderStop, OrderDoWork, OrderDrain, OrderWaiting
    DEF Next, Stop, Working

\* What was given back stays given back: a step that gives nothing.
LEMMA EosSame ==
    ASSUME TypeOK, OnePlace, EosIsLast, back' = back, dropped \subseteq dropped',
           kinds' = kinds \/ \E kind : kinds' = Append(kinds, kind)
    PROVE  EosIsLast'
  <1>1. \A i \in DOMAIN back : back[i].work \in 1 .. Len(kinds)
    BY PlacesNamed DEF Named, OnePlace, InPlaces, Everywhere, Queued, Back
  <1>2. \A w \in 1 .. Len(kinds) : kinds'[w] = kinds[w]
    BY DEF TypeOK, CallTypes
  <1> QED
    BY <1>1, <1>2 DEF EosIsLast

\* A step that gives back one work.
LEMMA EosGrows ==
    ASSUME TypeOK, OnePlace, EosIsLast, NEW w \in Works, NEW what \in {"header", "data", "bare", "nothing"},
           Return(w, what), dropped' = dropped,
           kinds' = kinds \/ \E kind : kinds' = Append(kinds, kind),
           kinds'[w] \in {"eos", "frameEos"} => 1 .. w - 1 \subseteq Back \cup dropped
    PROVE  EosIsLast'
  <1> DEFINE record == [work |-> w, what |-> what]
             n == Len(back) + 1
  <1>1. /\ Len(back) \in Nat /\ DOMAIN back = 1 .. Len(back) /\ DOMAIN back' = 1 .. n
        /\ back'[n] = record /\ record.work = w
        /\ \A i \in 1 .. Len(back) : back'[i] = back[i]
    BY DEF Return, TypeOK, ClientTypes
  <1>2. \A i \in DOMAIN back : back[i].work \in 1 .. Len(kinds)
    BY PlacesNamed DEF Named, OnePlace, InPlaces, Everywhere, Queued, Back
  <1>3. \A v \in 1 .. Len(kinds) : kinds'[v] = kinds[v]
    BY DEF TypeOK, CallTypes
  <1> HIDE DEF record
  <1> SUFFICES ASSUME NEW i \in DOMAIN back', kinds'[back'[i].work] \in {"eos", "frameEos"},
                      NEW v \in 1 .. back'[i].work - 1
               PROVE  v \in { back'[j].work : j \in 1 .. i } \cup dropped'
    BY DEF EosIsLast
  <1>4. CASE i = n
    <2>1. v \in Back \cup dropped
      BY <1>1, <1>4
    <2>2. \A j \in 1 .. Len(back) : j \in 1 .. i /\ back'[j] = back[j]
      BY <1>1, <1>4
    <2> QED
      BY <1>1, <2>1, <2>2 DEF Back
  <1>5. CASE i # n
    <2>1. i \in DOMAIN back /\ back'[i] = back[i] /\ \A j \in 1 .. i : back'[j] = back[j]
      BY <1>1, <1>5
    <2>2. kinds[back[i].work] \in {"eos", "frameEos"}
      BY <1>2, <1>3, <2>1
    <2>3. v \in { back[j].work : j \in 1 .. i } \cup dropped
      BY <2>1, <2>2 DEF EosIsLast
    <2> QED
      BY <2>1, <2>3
  <1> QED
    BY <1>4, <1>5

\* Nothing that was queued before the work in the hands of the waiting thread is on its way.
LEMMA AllBefore ==
    ASSUME Orderly, OnePlace, InOrder, NEW w \in InJob
    PROVE  1 .. w - 1 \subseteq Back \cup dropped
  <1> SUFFICES ASSUME NEW v \in 1 .. w - 1
               PROVE  v \in Back \cup dropped
    OBVIOUS
  <1>1. w \in 1 .. Len(kinds) /\ InJob = {w} /\ Len(kinds) \in Nat
    <2>1. w \in WorkPlaces[5]
      BY PlacesNamed DEF Named
    <2>2. InJob = {w}
      BY DEF InJob
    <2>3. w \in 1 .. Len(kinds) /\ Len(kinds) \in Nat
      <3>1. WorkPlaces[5] \subseteq 1 .. Len(kinds) /\ Len(kinds) \in Nat
        BY OrderTypes
      <3> QED
        BY <2>1, <3>1
    <2> QED
      BY <2>2, <2>3
  <1>2. v \in Queued /\ v < w
    BY <1>1 DEF Queued
  <1>3. PICK i \in 1 .. 7 : v \in WorkPlaces[i]
    BY <1>2, PlacesNamed DEF Named, OnePlace, InPlaces, Everywhere
  <1>4. i \notin 1 .. 4
    <2> SUFFICES ASSUME i \in 1 .. 4
                 PROVE  FALSE
      OBVIOUS
    <2>1. i \in 1 .. 5 /\ i < 5 /\ 5 \in 1 .. 5
      OBVIOUS
    <2>2. w \in WorkPlaces[5]
      BY PlacesNamed DEF Named
    <2>3. w < v
      BY <1>3, <2>1, <2>2 DEF InOrder, Ordered
    <2> QED
      BY <1>1, <1>2, <2>3 DEF Queued
  <1>5. i # 5
    BY <1>1, <1>2, <1>3, PlacesNamed DEF Named
  <1> QED
    BY <1>3, <1>4, <1>5, PlacesNamed DEF Named

\* DoStop gives the pending works back in their order, when nothing else is on its way.
LEMMA EosStops ==
    ASSUME Base, ~met, Ending, InOrder, EosIsLast, StopPending
    PROVE  EosIsLast'
  <1> USE DEF Base
  <1> DEFINE Record == [work : Works, what : {"header", "data", "bare", "nothing"}]
             returned == [i \in DOMAIN pending |-> [work |-> pending[i], what |-> "nothing"]]
             n == Len(back)
  <1>1. /\ back' = back \o returned /\ kinds' = kinds /\ dropped' = dropped /\ api = "stopPending"
    BY DEF StopPending
  <1>0. /\ pending \in Seq(Works) /\ Queued = Listed(pending) \cup Back \cup dropped
        /\ ListRising(pending)
    <2>1. /\ Line = pending /\ pending \in Seq(Works)
          /\ Queued = Listed(pending) \cup Back \cup dropped
      BY <1>1, StoppedPlaces
    <2> QED
      BY <2>1 DEF InOrder
  <1>2. /\ pending \in Seq(Works) /\ back \in Seq(Record)
        /\ Len(pending) \in Nat /\ DOMAIN pending = 1 .. Len(pending)
        /\ n \in Nat /\ DOMAIN back = 1 .. n
        /\ \A i \in DOMAIN pending : pending[i] \in Works
    BY <1>0 DEF TypeOK, ClientTypes
  <1>3. /\ \A i \in DOMAIN pending : [work |-> pending[i], what |-> "nothing"] \in Record
        /\ \A i \in DOMAIN pending : returned[i].work = pending[i]
    BY <1>2
  <1> HIDE DEF Record
  <1>4. returned \in Seq(Record) /\ Len(returned) = Len(pending)
    BY <1>2, <1>3
  <1> HIDE DEF returned
  <1>5. /\ DOMAIN back' = 1 .. n + Len(pending)
        /\ \A i \in 1 .. n : back'[i] = back[i]
        /\ \A k \in DOMAIN pending : back'[n + k].work = pending[k]
    <2>1. /\ Len(back') = n + Len(returned) /\ DOMAIN back' = 1 .. Len(back')
          /\ \A i \in 1 .. n : back'[i] = back[i]
          /\ \A k \in 1 .. Len(returned) : back'[n + k] = returned[k]
      BY <1>1, <1>2, <1>4
    <2> QED
      BY <1>2, <1>3, <1>4, <2>1
  <1>6. Queued = Listed(pending) \cup Back \cup dropped
    BY <1>0
  <1> SUFFICES ASSUME NEW i \in DOMAIN back', kinds[back'[i].work] \in {"eos", "frameEos"},
                      NEW v \in 1 .. back'[i].work - 1
               PROVE  v \in { back'[j].work : j \in 1 .. i } \cup dropped
    BY <1>1 DEF EosIsLast
  <1>7. CASE i \in 1 .. n
    <2>1. back'[i] = back[i] /\ \A j \in 1 .. i : back'[j] = back[j]
      BY <1>2, <1>5, <1>7
    <2>2. v \in { back[j].work : j \in 1 .. i } \cup dropped
      BY <1>2, <1>7, <2>1 DEF EosIsLast
    <2> QED
      BY <2>1, <2>2
  <1>8. CASE i \notin 1 .. n
    <2>1. PICK k \in DOMAIN pending : i = n + k
      <3>1. i - n \in DOMAIN pending /\ i = n + (i - n)
        BY <1>2, <1>5, <1>8
      <3> QED
        BY <3>1
    <2>2. back'[i].work = pending[k] /\ pending[k] \in 1 .. Len(kinds) /\ Len(kinds) \in Nat
      <3>1. pending[k] \in Listed(pending)
        BY DEF Listed
      <3> QED
        BY <1>5, <1>6, <2>1, <3>1 DEF Queued, TypeOK, CallTypes
    <2>3. v \in Queued /\ v < pending[k]
      BY <2>2 DEF Queued
    <2>4. CASE v \in Back \cup dropped
      <3>1. \A j \in 1 .. n : j \in 1 .. i /\ back'[j] = back[j]
        BY <1>2, <1>5, <2>1
      <3> QED
        BY <1>2, <2>4, <3>1 DEF Back
    <2>5. CASE v \in Listed(pending)
      <3>1. PICK l \in DOMAIN pending : v = pending[l]
        BY <2>5 DEF Listed
      <3>2. ~(k < l) /\ k # l
        BY <1>0, <1>2, <2>2, <2>3, <3>1 DEF ListRising
      <3>3. n + l \in 1 .. i
        BY <1>2, <2>1, <3>1, <3>2
      <3> QED
        BY <1>5, <3>1, <3>3
    <2> QED
      BY <1>6, <2>3, <2>4, <2>5
  <1> QED
    BY <1>7, <1>8

LEMMA EosStep ==
    ASSUME MaxConfigs = 0, MayFail \cap {"start", "work", "alloc", "device"} = {},
           Base, Base', Calm, Ending, Steady, InOrder, EosIsLast, Next
    PROVE  EosIsLast'
  <1> USE DEF Base, Steady
  <1>0. Orderly /\ OnePlace /\ ~met
    BY CalmStep, CalmLine DEF Calm
  <1>1. ASSUME NEW kind \in Kinds, QueueWork(kind)
        PROVE  EosIsLast'
    <2>1. /\ kinds' = Append(kinds, kind) /\ dropped' = dropped
          /\ Len(kinds) + 1 \in Works /\ kinds'[Len(kinds) + 1] = kind
      BY <1>1 DEF QueueWork, TypeOK, CallTypes, Works
    <2>2. CASE kind = "empty"
      <3>1. Return(Len(kinds) + 1, "nothing")
        BY <1>1, <2>2 DEF QueueWork
      <3> QED
        BY <1>0, <2>1, <2>2, <3>1, EosGrows
    <2>3. CASE kind # "empty"
      <3>1. back' = back
        BY <1>1, <2>3 DEF QueueWork
      <3> QED
        BY <1>0, <2>1, <3>1, EosSame
    <2> QED
      BY <2>2, <2>3
  <1>2. CASE EosReturned \/ WaitWork
    <2>1. /\ kinds' = kinds /\ dropped' = dropped
          /\ job.op = "eos" \/ found = "sync"
          /\ \E what \in {"header", "data", "bare", "nothing"} : Return(job.work, what)
      <3>1. Given \subseteq {"header", "data", "bare"}
        BY DEF Given
      <3>2. WaitWork => \E what \in {"header", "data", "bare", "nothing"} : Return(job.work, what)
        BY <3>1, Zenon DEF WaitWork
      <3> QED
        BY <1>2, <3>2 DEF EosReturned, WaitWork, apiVars
    <2>2. job.work \in Works /\ job.work \in InJob
      <3>1. CASE EosReturned
        <4>1. job.op = "eos" /\ job \in WaitCmds \cup {NoCmd}
          BY <3>1 DEF EosReturned, TypeOK, WaitTypes
        <4>2. job.work \in Works /\ job.work # 0
          BY <4>1, CommandFields, ConstantsAssumption DEF Works
        <4> QED
          BY <4>1, <4>2 DEF InJob
      <3>2. CASE WaitWork
        <4>1. found = "sync" /\ job.op = "wait" /\ job.work # 0 /\ job \in WaitCmds \cup {NoCmd}
          BY <3>2 DEF WaitWork, TypeOK, WaitTypes
        <4>2. job.work \in Works
          BY <4>1, CommandFields DEF Works
        <4> QED
          BY <4>1, <4>2 DEF InJob
      <3> QED
        BY <1>2, <3>1, <3>2
    <2>4. 1 .. job.work - 1 \subseteq Back \cup dropped
      BY <1>0, <2>2, AllBefore
    <2> QED
      BY <1>0, <2>1, <2>2, <2>4, EosGrows
  <1>3. CASE WorkFails \/ \E t \in Threads : GiveBack(t)
    <2>1. at["worker"] # "giveBack" /\ at["caller"] = "idle"
      BY DEF Alone, Calm
    <2> QED
      BY <1>3, <2>1, PlaceNames DEF WorkFails, GiveBack
  <1>4. CASE \/ Start \/ StartFails \/ Configure \/ ConfigureEnds \/ Update
             \/ (\E abort \in BOOLEAN : StopWorking(abort)) \/ StopWaiting \/ StopJoined
             \/ TakeTask \/ WorkReady \/ ApplyTunings \/ AddPending
             \/ (\E outputs \in BOOLEAN : CallEncode(outputs))
             \/ \E t \in Threads : \/ DrainBegin(t) \/ DrainFails(t) \/ DrainOutputs(t) \/ Count(t)
                                   \/ DrainEos(t) \/ TakeFront(t) \/ PopFront(t) \/ PushFront(t)
                                   \/ GiveBackPop(t)
             \/ TakeJob \/ RetainLockedFrame \/ WaitWorkCounts
    <2>1. back' = back /\ kinds' = kinds /\ dropped \subseteq dropped'
      BY <1>4 DEF Start, StartFails, Configure, ConfigureEnds, Update, StopWorking, StopWaiting,
           StopJoined, TakeTask, WorkReady, ApplyTunings, AddPending, CallEncode, DrainBegin,
           DrainFails, DrainOutputs, Count, TakeFront, PopFront, PushFront, GiveBackPop, DrainEos,
           TakeJob, RetainLockedFrame, WaitWorkCounts, apiVars, clientVars
    <2> QED
      BY <1>0, <2>1, EosSame
  <1> QED
    BY <1>0, <1>1, <1>2, <1>3, <1>4, EosStops, PlaceNames
    DEF Next, Stop, Working, Waiting, DoWork, Drain

\* When nothing fails but the synchronization of a frame or the wait for a quiet encoder, and the
\* bitrate is not set by config, every work gets its own bitstream, and the end of stream comes
\* back behind all works queued before it: works overtake no other on their way through the
\* queues, m_pendingWorks and the two threads.  (A work that fails is given back at once, ahead of
\* those that are pending.)
THEOREM OwnAndInOrder ==
    ASSUME MaxConfigs = 0, MayFail \cap {"start", "work", "alloc", "device"} = {}
    PROVE  Spec => []EachItsOwnInOrder
  <1> DEFINE IInv == Base /\ Calm /\ Ending /\ Steady /\ InOrder /\ EosIsLast
  <1>1. Init => IInv
    <2>1. Init => EosIsLast
      BY DEF Init, EosIsLast
    <2> QED
      BY <2>1, BaseInit, CalmInit, EndingInit, SteadyInit, OrderInit
  <1>2. IInv /\ [Next]_vars => IInv'
    <2> SUFFICES ASSUME IInv, [Next]_vars
                 PROVE  IInv'
      OBVIOUS
    <2>1. CASE Next
      BY <2>1, BaseStep, CalmStep, EndingStep, SteadyStep, OrderStep, EosStep
    <2>2. CASE UNCHANGED vars
      <3>1. Base' /\ Calm' /\ Steady' /\ Line' = Line
        BY <2>2, BaseStep, Stutters
      <3>2. Orderly /\ Orderly' /\ OnePlace
        BY <3>1, CalmLine
      <3>3. UNCHANGED <<api, kinds, workq, worker, hold, waitq, waiter, job, found, pending, back,
                        dropped>>
        BY <2>2 DEF vars, apiVars, workQueue, waitVars, clientVars
      <3> QED
        BY <3>1, <3>2, <3>3, EndingFrame, OrderFrame, EosSame DEF Orderly
    <2> QED
      BY <2>1, <2>2
  <1>3. IInv => EachItsOwnInOrder
    BY DEF Steady, OwnCommands, Listed, OwnBitstream, EachItsOwnInOrder
  <1> QED
    BY <1>1, <1>2, <1>3, PTL DEF Spec
=============================================================================
