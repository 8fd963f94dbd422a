-------------------------- MODULE MfxCmdQueueProofs --------------------------
(***************************************************************************)
(* Proofs about MfxCmdQueue, for every set of threads and every bound.     *)
(***************************************************************************)
EXTENDS MfxCmdQueue, TLAPS

\* The actions change m_data in three ways: it is replaced by a lone null command,
\* extended at its end, or loses its head.
LEMMA AppendFacts ==
    ASSUME NEW S, NEW s \in Seq(S), NEW x \in S
    PROVE  /\ Append(s, x) \in Seq(S)
           /\ DOMAIN Append(s, x) = DOMAIN s \cup {Len(s) + 1}
           /\ Len(s) + 1 \notin DOMAIN s
           /\ DOMAIN s \subseteq Nat
           /\ \A i \in DOMAIN s : i < Len(s) + 1 /\ Append(s, x)[i] = s[i]
           /\ Append(s, x)[Len(s) + 1] = x
           /\ Append(s, x) # <<>>
  OBVIOUS

LEMMA TailFacts ==
    ASSUME NEW S, NEW s \in Seq(S), s # <<>>
    PROVE  /\ Tail(s) \in Seq(S)
           /\ Head(s) = s[1]
           /\ Head(s) \in S
           /\ 1 \in DOMAIN s
           /\ DOMAIN s \subseteq Nat
           /\ \A i \in DOMAIN Tail(s) : /\ i \in Nat
                                        /\ i + 1 \in DOMAIN s
                                        /\ i + 1 > 1
                                        /\ Tail(s)[i] = s[i + 1]
           /\ \A i \in DOMAIN s : i # 1 => /\ i - 1 \in DOMAIN Tail(s)
                                           /\ Tail(s)[i - 1] = s[i]
  OBVIOUS

-----------------------------------------------------------------------------
(* Type correctness *)

\* Type correctness of the queue's state, and the worker executes a command exactly
\* when it has taken one.
THEOREM TypeCorrect == Spec => []TypeOK
<1>1. Init => TypeOK
  <2> SUFFICES ASSUME Init
               PROVE  TypeOK
    OBVIOUS
  <2> USE ConstantsAssumption DEF Init, NullCmd
  <2>1. data \in Seq(0 .. MaxPushes)
    OBVIOUS
  <2>2. /\ cpc \in [Controllers -> {"idle", "posted", "join"}]
        /\ epc \in [Waiters -> {"idle", "asleep", "woken", "returned"}]
    OBVIOUS
  <2>3. 0 \in 0 .. MaxPushes
    OBVIOUS
  <2>4. asked \in [Waiters \cup Controllers -> 0 .. MaxPushes]
    BY <2>3
  <2> QED
    BY <2>1, <2>2, <2>3, <2>4 DEF TypeOK
<1>2. TypeOK /\ [Next]_vars => TypeOK'
  <2> SUFFICES ASSUME TypeOK, [Next]_vars
               PROVE  TypeOK'
    OBVIOUS
  <2> USE ConstantsAssumption DEF TypeOK, NullCmd
  <2>1. ASSUME NEW c \in Controllers, Controller(c)
        PROVE  TypeOK'
    <3>1. CASE Start(c)
      BY <3>1 DEF Start
    <3>2. CASE Pause(c)
      BY <3>2 DEF Pause
    <3>3. CASE Resume(c)
      BY <3>3 DEF Resume, NotifyWorker
    <3>4. ASSUME NEW abort \in BOOLEAN, ShutdownPost(c, abort)
          PROVE  TypeOK'
      <4>1. Append(data, 0) \in Seq(0 .. MaxPushes) /\ <<0>> \in Seq(0 .. MaxPushes)
        BY AppendFacts
      <4>2. Queued \subseteq 1 .. MaxPushes
        BY DEF Queued
      <4>3. data' \in Seq(0 .. MaxPushes) /\ dropped' \subseteq 1 .. MaxPushes
        BY <3>4, <4>1, <4>2 DEF ShutdownPost
      <4>4. /\ wpc' \in {"none", "lock", "asleep", "woken", "run", "exited"}
            /\ (wpc' = "run") <=> (cur' # 0)
            /\ cur' = cur
        BY <3>4 DEF ShutdownPost, NotifyWorker
      <4>5. /\ cpc' \in [Controllers -> {"idle", "posted", "join"}]
            /\ asked' \in [Waiters \cup Controllers -> 0 .. MaxPushes]
        BY <3>4 DEF ShutdownPost
      <4> QED
        BY <3>4, <4>3, <4>4, <4>5 DEF ShutdownPost
    <3>5. CASE ShutdownLock(c)
      BY <3>5 DEF ShutdownLock
    <3>6. CASE ShutdownJoin(c)
      BY <3>6 DEF ShutdownJoin
    <3> QED
      BY <2>1, <3>1, <3>2, <3>3, <3>4, <3>5, <3>6 DEF Controller
  <2>2. CASE Push
    <3>1. data' \in Seq(0 .. MaxPushes)
      BY <2>2, AppendFacts DEF Push
    <3> QED
      BY <2>2, <3>1 DEF Push, NotifyWorker
  <2>3. ASSUME NEW w \in Waiters, Waiter(w)
        PROVE  TypeOK'
    BY <2>3 DEF Waiter, WaitForEmpty, WaiterRecheck, WaiterSpurious, WaiterLeave
  <2>4. CASE Worker
    <3>1. CASE WorkerSleep
      BY <3>1 DEF WorkerSleep, NotifyEmpty
    <3>2. CASE WorkerSpurious
      BY <3>2 DEF WorkerSpurious
    <3>3. CASE WorkerSleepAgain
      BY <3>3 DEF WorkerSleepAgain
    <3>4. CASE WorkerPop
      <4>1. /\ Tail(data) \in Seq(0 .. MaxPushes)
            /\ Head(data) \in 0 .. MaxPushes
        BY <3>4, TailFacts DEF WorkerPop, MayPop
      <4> QED
        BY <3>4, <4>1 DEF WorkerPop
    <3>5. CASE WorkerRan
      <4>1. cur \in 1 .. MaxPushes
        BY <3>5 DEF WorkerRan
      <4> QED
        BY <3>5, <4>1 DEF WorkerRan
    <3> QED
      BY <2>4, <3>1, <3>2, <3>3, <3>4, <3>5 DEF Worker
  <2>5. CASE UNCHANGED vars
    BY <2>5 DEF vars
  <2> QED
    BY <2>1, <2>2, <2>3, <2>4, <2>5 DEF Next
<1> QED
  BY <1>1, <1>2, PTL DEF Spec

-----------------------------------------------------------------------------
(* The commands in m_data after each kind of change *)

LEMMA QueuedAfterPush ==
    ASSUME TypeOK, Push
    PROVE  /\ Queued' = Queued \cup {pushed + 1}
           /\ data' # <<>>
  <1> USE DEF TypeOK, Push, NullCmd
  <1>1. /\ data' = Append(data, pushed + 1)
        /\ pushed + 1 # 0
        /\ pushed + 1 \in 0 .. MaxPushes
    BY ConstantsAssumption
  <1>2. DOMAIN data' = DOMAIN data \cup {Len(data) + 1}
    BY <1>1, AppendFacts
  <1>3. /\ \A i \in DOMAIN data : data'[i] = data[i]
        /\ data'[Len(data) + 1] = pushed + 1
    BY <1>1, AppendFacts
  <1> QED
    BY <1>1, <1>2, <1>3, AppendFacts DEF Queued

LEMMA QueuedAfterPost ==
    ASSUME TypeOK, NEW c \in Controllers, NEW abort \in BOOLEAN, ShutdownPost(c, abort)
    PROVE  /\ Queued' = IF abort THEN {} ELSE Queued
           /\ data' # <<>>
  <1> USE DEF TypeOK, ShutdownPost, NullCmd
  <1>1. CASE abort
    <2>1. data' = <<0>>
      BY <1>1
    <2> QED
      BY <1>1, <2>1 DEF Queued
  <1>2. CASE ~abort
    <2>1. data' = Append(data, 0) /\ 0 \in 0 .. MaxPushes
      BY <1>2, ConstantsAssumption
    <2>2. DOMAIN data' = DOMAIN data \cup {Len(data) + 1}
      BY <2>1, AppendFacts
    <2>3. /\ \A i \in DOMAIN data : data'[i] = data[i]
          /\ data'[Len(data) + 1] = 0
      BY <2>1, AppendFacts
    <2> QED
      BY <1>2, <2>1, <2>2, <2>3, AppendFacts DEF Queued
  <1> QED
    BY <1>1, <1>2

LEMMA QueuedAfterPop ==
    ASSUME TypeOK, ExactlyOnce, WorkerPop
    PROVE  /\ Queued' \cup ({cur'} \ {NullCmd}) = Queued
           /\ cur' # NullCmd => cur' \notin Queued'
           /\ cur' = data[1]
           /\ 1 \in DOMAIN data
  <1> USE DEF TypeOK, NullCmd
  <1>1. /\ data # <<>>
        /\ data' = Tail(data)
        /\ cur' = Head(data)
    BY DEF WorkerPop, MayPop
  <1>2. /\ cur' = data[1]
        /\ 1 \in DOMAIN data
        /\ \A i \in DOMAIN data' : /\ i + 1 \in DOMAIN data
                                   /\ i + 1 > 1
                                   /\ data'[i] = data[i + 1]
        /\ \A i \in DOMAIN data : i # 1 => i - 1 \in DOMAIN data' /\ data'[i - 1] = data[i]
    BY <1>1, TailFacts
  <1>3. Queued' \cup ({cur'} \ {0}) = Queued
    BY <1>2 DEF Queued
  <1>4. cur' # 0 => cur' \notin Queued'
    <2> SUFFICES ASSUME cur' # 0, NEW i \in DOMAIN data', data'[i] = cur'
                 PROVE  FALSE
      BY DEF Queued
    <2>1. /\ i + 1 \in DOMAIN data
          /\ i + 1 # 1
          /\ data[i + 1] = data[1]
          /\ data[1] # 0
      BY <1>2
    <2> QED
      BY <1>2, <2>1 DEF ExactlyOnce
  <1> QED
    BY <1>2, <1>3, <1>4

-----------------------------------------------------------------------------
(* No lost wakeup *)

\* A sleeping worker never misses a command it could pop, whatever the clients do and
\* in whatever order.
THEOREM WorkerNeverMissesWork == Spec => []NoLostWakeup
<1>1. Init => NoLostWakeup
  BY DEF Init, NoLostWakeup
<1>2. TypeOK /\ NoLostWakeup /\ [Next]_vars => NoLostWakeup'
  <2> SUFFICES ASSUME TypeOK, NoLostWakeup, [Next]_vars
               PROVE  NoLostWakeup'
    OBVIOUS
  <2> USE DEF NoLostWakeup, MayPop
  <2>1. ASSUME NEW c \in Controllers, Controller(c)
        PROVE  NoLostWakeup'
    BY <2>1 DEF Controller, Start, Pause, Resume, ShutdownPost, ShutdownLock, ShutdownJoin,
                NotifyWorker
  <2>2. CASE Push
    BY <2>2 DEF Push, NotifyWorker
  <2>3. ASSUME NEW w \in Waiters, Waiter(w)
        PROVE  NoLostWakeup'
    BY <2>3 DEF Waiter, WaitForEmpty, WaiterRecheck, WaiterSpurious, WaiterLeave
  <2>4. CASE Worker
    BY <2>4 DEF Worker, WorkerSleep, WorkerSpurious, WorkerSleepAgain, WorkerPop, WorkerRan
  <2>5. CASE UNCHANGED vars
    BY <2>5 DEF vars
  <2> QED
    BY <2>1, <2>2, <2>3, <2>4, <2>5 DEF Next
<1> QED
  BY <1>1, <1>2, TypeCorrect, PTL DEF Spec

-----------------------------------------------------------------------------
(* Every command once and in order *)

\* ExactlyOnce and Fifo are inductive together; a client cannot have asked for
\* commands that were not pushed yet.
Accounting == /\ ExactlyOnce
              /\ Fifo
              /\ \A t \in Waiters \cup Controllers : asked[t] <= pushed
              /\ EmptyMeansTaken

LEMMA AccountingInit == Init => Accounting
  <1> SUFFICES ASSUME Init
               PROVE  Accounting
    OBVIOUS
  <1> USE DEF Init, NullCmd
  <1>1. DOMAIN data = {} /\ Queued = {}
    BY DEF Queued
  <1>2. ExactlyOnce
    BY <1>1 DEF ExactlyOnce
  <1>3. Fifo
    BY <1>1 DEF Fifo
  <1>4. /\ \A t \in Waiters \cup Controllers : asked[t] = 0
        /\ \A w \in Waiters : epc[w] # "returned"
    OBVIOUS
  <1> QED
    BY <1>2, <1>3, <1>4 DEF Accounting, EmptyMeansTaken

LEMMA AccountingPush == ASSUME TypeOK, Accounting, Push PROVE Accounting'
  <1> USE DEF TypeOK, NullCmd
  <1>1. /\ Queued' = Queued \cup {pushed + 1}
        /\ UNCHANGED <<cur, done, dropped, asked, epc>>
        /\ pushed' = pushed + 1
    BY QueuedAfterPush DEF Push
  <1>2. \A q \in Queued \cup done \cup dropped : q \in Nat /\ q < pushed + 1
    BY DEF Accounting, ExactlyOnce
  <1>3. cur < pushed + 1 /\ cur \in Nat
    BY DEF Accounting, ExactlyOnce
  <1>4. /\ DOMAIN data' = DOMAIN data \cup {Len(data) + 1}
        /\ DOMAIN data \subseteq Nat
        /\ \A i \in DOMAIN data : i < Len(data) + 1 /\ data'[i] = data[i]
        /\ data'[Len(data) + 1] = pushed + 1
    BY AppendFacts DEF Push
  <1>5. \A i \in DOMAIN data : data[i] # 0 => data[i] \in Queued
    BY DEF Queued
  <1>6. ExactlyOnce'
    <2>1. (done \cup dropped \cup Queued \cup ({cur} \ {0}) = 1 .. pushed)'
      BY <1>1 DEF Accounting, ExactlyOnce
    <2>2. (done \cap dropped = {})'
      BY <1>1 DEF Accounting, ExactlyOnce
    <2>3. ((done \cup dropped) \cap (Queued \cup {cur}) = {})'
      BY <1>1, <1>2 DEF Accounting, ExactlyOnce
    <2>4. (cur # 0 => cur \notin Queued)'
      BY <1>1, <1>3 DEF Accounting, ExactlyOnce
    <2>5. (\A i, j \in DOMAIN data : i # j /\ data[i] # 0 => data[i] # data[j])'
      BY <1>2, <1>4, <1>5 DEF Accounting, ExactlyOnce
    <2> QED
      BY <2>1, <2>2, <2>3, <2>4, <2>5 DEF ExactlyOnce
  <1>7. Fifo'
    <2>1. (\A i, j \in DOMAIN data :
              i < j /\ data[i] # 0 /\ data[j] # 0 => data[i] < data[j])'
      BY <1>2, <1>4, <1>5 DEF Accounting, Fifo
    <2>2. (\A n \in done, q \in Queued : n < q)'
      BY <1>1, <1>2 DEF Accounting, Fifo
    <2>3. (cur # 0 => /\ \A n \in done : n < cur
                      /\ \A q \in Queued : cur < q)'
      BY <1>1, <1>3 DEF Accounting, Fifo
    <2> QED
      BY <2>1, <2>2, <2>3 DEF Fifo
  <1>8. (\A t \in Waiters \cup Controllers : asked[t] <= pushed)' /\ EmptyMeansTaken'
    BY <1>1 DEF Accounting, EmptyMeansTaken
  <1> QED
    BY <1>6, <1>7, <1>8 DEF Accounting

LEMMA AccountingPost ==
    ASSUME TypeOK, Accounting, NEW c \in Controllers, NEW abort \in BOOLEAN,
           ShutdownPost(c, abort)
    PROVE  Accounting'
  <1> USE DEF TypeOK, NullCmd
  <1>1. /\ Queued' = IF abort THEN {} ELSE Queued
        /\ dropped' = IF abort THEN dropped \cup Queued ELSE dropped
        /\ UNCHANGED <<cur, done, epc, pushed>>
    BY QueuedAfterPost DEF ShutdownPost
  <1>2. /\ \A w \in Waiters : asked'[w] = asked[w]
        /\ \A t \in Waiters \cup Controllers : asked'[t] \in {asked[t], pushed}
    BY ConstantsAssumption DEF ShutdownPost
  <1>3. /\ abort => data' = <<0>>
        /\ ~abort => data' = Append(data, 0) /\ 0 \in 0 .. MaxPushes
    BY ConstantsAssumption DEF ShutdownPost
  <1>4. CASE abort
    <2>1. DOMAIN data' = {1} /\ data'[1] = 0
      BY <1>3, <1>4
    <2>2. ExactlyOnce'
      BY <1>1, <1>4, <2>1 DEF Accounting, ExactlyOnce
    <2>3. Fifo'
      BY <1>1, <1>4, <2>1 DEF Accounting, Fifo
    <2> QED
      BY <1>1, <1>2, <2>2, <2>3 DEF Accounting, EmptyMeansTaken
  <1>5. CASE ~abort
    <2>1. /\ DOMAIN data' = DOMAIN data \cup {Len(data) + 1}
          /\ DOMAIN data \subseteq Nat
          /\ \A i \in DOMAIN data : i < Len(data) + 1 /\ data'[i] = data[i]
          /\ data'[Len(data) + 1] = 0
      BY <1>3, <1>5, AppendFacts
    <2>2. ExactlyOnce'
      BY <1>1, <1>5, <2>1 DEF Accounting, ExactlyOnce
    <2>3. Fifo'
      BY <1>1, <1>5, <2>1 DEF Accounting, Fifo
    <2> QED
      BY <1>1, <1>2, <1>5, <2>2, <2>3 DEF Accounting, EmptyMeansTaken
  <1> QED
    BY <1>4, <1>5

LEMMA AccountingPop == ASSUME TypeOK, Accounting, WorkerPop PROVE Accounting'
  <1> USE DEF TypeOK, NullCmd
  <1>1. /\ Queued' \cup ({cur'} \ {0}) = Queued
        /\ cur' # 0 => cur' \notin Queued'
        /\ cur' = data[1]
        /\ UNCHANGED <<done, dropped, epc, asked, pushed>>
        /\ cur = 0
        /\ data # <<>>
    BY QueuedAfterPop DEF Accounting, WorkerPop, MayPop
  <1>2. /\ 1 \in DOMAIN data
        /\ DOMAIN data \subseteq Nat
        /\ \A i \in DOMAIN data' : /\ i \in Nat
                                   /\ i + 1 \in DOMAIN data
                                   /\ i + 1 > 1
                                   /\ data'[i] = data[i + 1]
    BY <1>1, TailFacts DEF WorkerPop
  <1>3. ExactlyOnce'
    <2>1. (done \cup dropped \cup Queued \cup ({cur} \ {0}) = 1 .. pushed)'
      BY <1>1 DEF Accounting, ExactlyOnce
    <2>2. (done \cap dropped = {})'
      BY <1>1 DEF Accounting, ExactlyOnce
    <2>3. ((done \cup dropped) \cap (Queued \cup {cur}) = {})'
      <3>1. (done \cup dropped) \cap Queued = {}
        BY DEF Accounting, ExactlyOnce
      <3>2. 0 \notin done \cup dropped
        OBVIOUS
      <3> QED
        BY <1>1, <3>1, <3>2
    <2>4. (\A i, j \in DOMAIN data : i # j /\ data[i] # 0 => data[i] # data[j])'
      <3> SUFFICES ASSUME NEW i \in DOMAIN data', NEW j \in DOMAIN data',
                          i # j, data'[i] # 0
                   PROVE  data'[i] # data'[j]
        OBVIOUS
      <3>1. i + 1 # j + 1
        BY <1>2
      <3> QED
        BY <1>2, <3>1 DEF Accounting, ExactlyOnce
    <2> QED
      BY <1>1, <2>1, <2>2, <2>3, <2>4 DEF ExactlyOnce
  <1>4. Fifo'
    <2>1. (\A i, j \in DOMAIN data :
              i < j /\ data[i] # 0 /\ data[j] # 0 => data[i] < data[j])'
      <3> SUFFICES ASSUME NEW i \in DOMAIN data', NEW j \in DOMAIN data',
                          i < j, data'[i] # 0, data'[j] # 0
                   PROVE  data'[i] < data'[j]
        OBVIOUS
      <3>1. i + 1 < j + 1
        BY <1>2
      <3> QED
        BY <1>2, <3>1 DEF Accounting, Fifo
    <2>2. (\A n \in done, q \in Queued : n < q)'
      BY <1>1 DEF Accounting, Fifo
    <2>3. (cur # 0 => \A n \in done : n < cur)'
      BY <1>1 DEF Accounting, Fifo
    <2>4. (cur # 0 => \A q \in Queued : cur < q)'
      <3> SUFFICES ASSUME cur' # 0, NEW i \in DOMAIN data', data'[i] # 0
                   PROVE  cur' < data'[i]
        BY DEF Queued
      <3>1. /\ 1 < i + 1
            /\ i + 1 \in DOMAIN data
            /\ data[i + 1] = data'[i]
        BY <1>2
      <3> QED
        BY <1>1, <1>2, <3>1 DEF Accounting, Fifo
    <2> QED
      BY <2>1, <2>2, <2>3, <2>4 DEF Fifo
  <1>5. EmptyMeansTaken'
    BY <1>1 DEF Accounting, EmptyMeansTaken
  <1> QED
    BY <1>1, <1>3, <1>4, <1>5 DEF Accounting

LEMMA AccountingStep == TypeOK /\ Accounting /\ [Next]_vars => Accounting'
  <1> SUFFICES ASSUME TypeOK, Accounting, [Next]_vars
               PROVE  Accounting'
    OBVIOUS
  <1> USE DEF TypeOK, NullCmd
  <1>1. ASSUME UNCHANGED <<data, cur, pushed, done, dropped>>,
               \A t \in Waiters \cup Controllers : asked'[t] <= pushed,
               EmptyMeansTaken'
        PROVE  Accounting'
    <2>1. Queued' = Queued
      BY <1>1 DEF Queued
    <2>2. ExactlyOnce'
      BY <1>1, <2>1 DEF Accounting, ExactlyOnce
    <2>3. Fifo'
      BY <1>1, <2>1 DEF Accounting, Fifo
    <2> QED
      BY <1>1, <2>2, <2>3 DEF Accounting
  <1>2. ASSUME NEW c \in Controllers, Controller(c)
        PROVE  Accounting'
    <2>1. CASE \E abort \in BOOLEAN : ShutdownPost(c, abort)
      BY <2>1, AccountingPost
    <2>2. CASE Start(c) \/ Pause(c) \/ Resume(c) \/ ShutdownLock(c) \/ ShutdownJoin(c)
      <3>1. UNCHANGED <<data, cur, epc, pushed, asked, done, dropped>>
        BY <2>2 DEF Start, Pause, Resume, ShutdownLock, ShutdownJoin
      <3> QED
        BY <1>1, <3>1 DEF Accounting, EmptyMeansTaken
    <2> QED
      BY <1>2, <2>1, <2>2 DEF Controller
  <1>3. CASE Push
    BY <1>3, AccountingPush
  <1>4. ASSUME NEW w \in Waiters, Waiter(w)
        PROVE  Accounting'
    <2>1. UNCHANGED <<data, cur, pushed, done, dropped>>
      BY <1>4 DEF Waiter, WaitForEmpty, WaiterRecheck, WaiterSpurious, WaiterLeave
    <2>2. data = <<>> => \A n \in 1 .. pushed : n \in done \cup dropped \cup {cur}
      BY DEF Accounting, ExactlyOnce, Queued
    <2>3. \A t \in Waiters \cup Controllers : asked'[t] <= pushed
      BY <1>4 DEF Accounting, Waiter, WaitForEmpty, WaiterRecheck, WaiterSpurious, WaiterLeave
    <2>4. ASSUME NEW v \in Waiters, epc'[v] = "returned"
          PROVE  \A n \in 1 .. asked'[v] : n \in done \cup dropped \cup {cur}
      <3>1. CASE WaitForEmpty(w) \/ WaiterRecheck(w)
        <4>1. CASE v = w
          <5>1. data = <<>>
            BY <2>4, <3>1, <4>1 DEF WaitForEmpty, WaiterRecheck
          <5>2. asked'[v] \in Nat /\ asked'[v] <= pushed
            BY <1>4, <2>3 DEF Waiter, WaitForEmpty, WaiterRecheck, WaiterSpurious, WaiterLeave
          <5> QED
            BY <2>2, <5>1, <5>2
        <4>2. CASE v # w
          BY <2>4, <3>1, <4>2 DEF WaitForEmpty, WaiterRecheck, Accounting, EmptyMeansTaken
        <4> QED
          BY <4>1, <4>2
      <3>2. CASE WaiterSpurious(w) \/ WaiterLeave(w)
        BY <2>4, <3>2 DEF WaiterSpurious, WaiterLeave, Accounting, EmptyMeansTaken
      <3> QED
        BY <1>4, <3>1, <3>2 DEF Waiter
    <2> QED
      BY <1>1, <2>1, <2>3, <2>4 DEF EmptyMeansTaken
  <1>5. CASE Worker
    <2>1. CASE WorkerPop
      BY <2>1, AccountingPop
    <2>2. CASE WorkerSpurious \/ WorkerSleepAgain
      <3>1. UNCHANGED <<data, cur, epc, pushed, asked, done, dropped>>
        BY <2>2 DEF WorkerSpurious, WorkerSleepAgain
      <3> QED
        BY <1>1, <3>1 DEF Accounting, EmptyMeansTaken
    <2>3. CASE WorkerSleep
      <3>1. /\ UNCHANGED <<data, cur, pushed, asked, done, dropped>>
            /\ \A w \in Waiters : epc'[w] = "returned" => epc[w] = "returned"
        BY <2>3 DEF WorkerSleep, NotifyEmpty
      <3> QED
        BY <1>1, <3>1 DEF Accounting, EmptyMeansTaken
    <2>4. CASE WorkerRan
      <3>1. /\ UNCHANGED <<data, epc, pushed, asked, dropped>>
            /\ cur # 0
            /\ cur' = 0
            /\ done' = done \cup {cur}
            /\ Queued' = Queued
        BY <2>4 DEF WorkerRan, Queued
      <3>2. ExactlyOnce'
        BY <3>1 DEF Accounting, ExactlyOnce
      <3>3. Fifo'
        BY <3>1 DEF Accounting, Fifo
      <3> QED
        BY <3>1, <3>2, <3>3 DEF Accounting, EmptyMeansTaken
    <2> QED
      BY <1>5, <2>1, <2>2, <2>3, <2>4 DEF Worker
  <1>6. CASE UNCHANGED vars
    <2>1. UNCHANGED <<data, cur, epc, pushed, asked, done, dropped>>
      BY <1>6 DEF vars
    <2> QED
      BY <1>1, <2>1 DEF Accounting, EmptyMeansTaken
  <1> QED
    BY <1>2, <1>3, <1>4, <1>5, <1>6 DEF Next

LEMMA AccountingInvariant == Spec => []Accounting
  BY AccountingInit, AccountingStep, TypeCorrect, PTL DEF Spec

\* No command is lost, duplicated or executed twice.
THEOREM EveryCommandOnce == Spec => []ExactlyOnce
  <1>1. Accounting => ExactlyOnce
    BY DEF Accounting
  <1> QED
    BY <1>1, AccountingInvariant, PTL

\* Commands are executed in the order of their pushes.
THEOREM CommandsInOrder == Spec => []Fifo
  <1>1. Accounting => Fifo
    BY DEF Accounting
  <1> QED
    BY <1>1, AccountingInvariant, PTL

\* Both at once: the commands pass the queue as they would pass a list.
THEOREM CommandsPassOnceInOrder == Spec => []ExactlyOnceInOrder
  <1>1. Accounting => ExactlyOnceInOrder
    BY DEF Accounting, ExactlyOnceInOrder
  <1> QED
    BY <1>1, AccountingInvariant, PTL

\* WaitForEmpty returns only when everything pushed before the call has been taken,
\* for any number of waiters and spurious wakeups.
THEOREM WaitedForIsTaken == Spec => []EmptyMeansTaken
  <1>1. Accounting => EmptyMeansTaken
    BY DEF Accounting
  <1> QED
    BY <1>1, AccountingInvariant, PTL

-----------------------------------------------------------------------------
(* One owner that stops what it started *)

NoNull == \A i \in DOMAIN data : data[i] # NullCmd

\* While the owner is not shutting the queue down there is no null command in m_data;
\* while it is, there is exactly one, behind everything it asked for, until the worker
\* takes it and ends.
OwnerInv ==
    \A c \in Controllers :
       /\ cpc[c] = "idle" => wpc # "exited" /\ NoNull
       /\ cpc[c] # "idle" /\ wpc = "exited" =>
             \A i \in DOMAIN data : data[i] > asked[c]
       /\ cpc[c] # "idle" /\ wpc # "exited" =>
             /\ wpc # "none"
             /\ \E i \in DOMAIN data :
                   /\ data[i] = NullCmd
                   /\ \A j \in DOMAIN data : /\ j < i => data[j] # NullCmd
                                             /\ j > i => data[j] > asked[c]

WorkerHasOwner == wpc # "none" => Controllers # {}

SoleOwner == /\ ~StopUnstarted
             /\ \A c, d \in Controllers : c = d

LEMMA OwnerInvInit == Init => OwnerInv /\ WorkerHasOwner
  BY DEF Init, OwnerInv, WorkerHasOwner, NoNull

LEMMA OwnerInvController ==
    ASSUME TypeOK, Accounting, OwnerInv, SoleOwner, NEW c \in Controllers, Controller(c)
    PROVE  OwnerInv'
  <1> USE DEF TypeOK, NullCmd, SoleOwner
  <1>1. \A d \in Controllers : d = c
    OBVIOUS
  <1>2. CASE Start(c) \/ Pause(c) \/ Resume(c)
    BY <1>1, <1>2 DEF Start, Pause, Resume, NotifyWorker, OwnerInv, NoNull
  <1>3. ASSUME NEW abort \in BOOLEAN, ShutdownPost(c, abort)
        PROVE  OwnerInv'
    <2>1. /\ NoNull
          /\ wpc # "exited"
          /\ wpc # "none"
          /\ cpc' = [cpc EXCEPT ![c] = "posted"]
          /\ wpc' \notin {"none", "exited"}
      BY <1>3 DEF ShutdownPost, OwnerInv, NotifyWorker
    <2>2. CASE abort
      <3>1. DOMAIN data' = {1} /\ data'[1] = 0
        BY <1>3, <2>2 DEF ShutdownPost
      <3> QED
        BY <1>1, <2>1, <3>1 DEF OwnerInv
    <2>3. CASE ~abort
      <3>1. data' = Append(data, 0) /\ 0 \in 0 .. MaxPushes
        BY <1>3, <2>3, ConstantsAssumption DEF ShutdownPost
      <3>2. /\ DOMAIN data' = DOMAIN data \cup {Len(data) + 1}
            /\ DOMAIN data \subseteq Nat
            /\ Len(data) + 1 \in Nat
            /\ \A i \in DOMAIN data : i < Len(data) + 1 /\ data'[i] = data[i]
            /\ data'[Len(data) + 1] = 0
        BY <3>1, AppendFacts
      <3>3. \A j \in DOMAIN data' : /\ j < Len(data) + 1 => data'[j] # 0
                                    /\ ~(j > Len(data) + 1)
        BY <2>1, <3>2 DEF NoNull
      <3>4. cpc'[c] # "idle"
        BY <2>1
      <3> QED
        BY <1>1, <2>1, <3>2, <3>3, <3>4 DEF OwnerInv
    <2> QED
      BY <2>2, <2>3
  <1>4. CASE ShutdownLock(c)
    BY <1>1, <1>4 DEF ShutdownLock, OwnerInv, NoNull
  <1>5. CASE ShutdownJoin(c)
    <2>1. \A i \in DOMAIN data : data[i] > asked[c]
      BY <1>5 DEF ShutdownJoin, OwnerInv
    <2>2. NoNull
      BY <2>1 DEF NoNull
    <2> QED
      BY <1>1, <1>5, <2>2 DEF ShutdownJoin, OwnerInv, NoNull
  <1> QED
    BY <1>2, <1>3, <1>4, <1>5 DEF Controller

LEMMA OwnerInvPush ==
    ASSUME TypeOK, Accounting, OwnerInv, Push
    PROVE  OwnerInv'
  <1> USE DEF TypeOK, NullCmd
  <1>1. /\ DOMAIN data' = DOMAIN data \cup {Len(data) + 1}
        /\ DOMAIN data \subseteq Nat
        /\ \A i \in DOMAIN data : i < Len(data) + 1 /\ data'[i] = data[i]
        /\ data'[Len(data) + 1] = pushed + 1
    BY AppendFacts DEF Push
  <1>2. /\ UNCHANGED <<cpc, asked>>
        /\ (wpc' = "exited") <=> (wpc = "exited")
        /\ (wpc' = "none") <=> (wpc = "none")
    BY DEF Push, NotifyWorker
  <1>3. \A c \in Controllers : pushed + 1 > asked[c] /\ pushed + 1 # 0
    BY DEF Accounting
  <1> SUFFICES ASSUME NEW c \in Controllers
               PROVE  /\ cpc[c] = "idle" => wpc # "exited" /\ NoNull'
                      /\ cpc[c] # "idle" /\ wpc = "exited" =>
                           \A i \in DOMAIN data' : data'[i] > asked[c]
                      /\ cpc[c] # "idle" /\ wpc # "exited" =>
                           /\ wpc # "none"
                           /\ \E i \in DOMAIN data' :
                                 /\ data'[i] = 0
                                 /\ \A j \in DOMAIN data' :
                                       /\ j < i => data'[j] # 0
                                       /\ j > i => data'[j] > asked[c]
    BY <1>2 DEF OwnerInv
  <1>4. cpc[c] = "idle" => wpc # "exited" /\ NoNull'
    BY <1>1, <1>3 DEF OwnerInv, NoNull
  <1>5. cpc[c] # "idle" /\ wpc = "exited" => \A i \in DOMAIN data' : data'[i] > asked[c]
    BY <1>1, <1>3 DEF OwnerInv
  <1>6. ASSUME cpc[c] # "idle", wpc # "exited"
        PROVE  /\ wpc # "none"
               /\ \E i \in DOMAIN data' :
                     /\ data'[i] = 0
                     /\ \A j \in DOMAIN data' : /\ j < i => data'[j] # 0
                                                /\ j > i => data'[j] > asked[c]
    <2>1. wpc # "none"
      BY <1>6 DEF OwnerInv
    <2>2. PICK i \in DOMAIN data :
                  /\ data[i] = 0
                  /\ \A j \in DOMAIN data : /\ j < i => data[j] # 0
                                            /\ j > i => data[j] > asked[c]
      BY <1>6 DEF OwnerInv
    <2>3. i \in DOMAIN data' /\ data'[i] = 0
      BY <1>1, <2>2
    <2>4. \A j \in DOMAIN data' : /\ j < i => data'[j] # 0
                                  /\ j > i => data'[j] > asked[c]
      BY <1>1, <1>3, <2>2
    <2> QED
      BY <2>1, <2>3, <2>4
  <1> QED
    BY <1>4, <1>5, <1>6

LEMMA OwnerInvPop ==
    ASSUME TypeOK, Accounting, OwnerInv, WorkerPop
    PROVE  OwnerInv'
  <1> USE DEF TypeOK, NullCmd
  <1>1. /\ 1 \in DOMAIN data
        /\ DOMAIN data \subseteq Nat
        /\ \A i \in DOMAIN data' : /\ i \in Nat
                                   /\ i + 1 \in DOMAIN data
                                   /\ i + 1 > 1
                                   /\ data'[i] = data[i + 1]
        /\ \A i \in DOMAIN data : i # 1 => i - 1 \in DOMAIN data' /\ data'[i - 1] = data[i]
        /\ \A i \in DOMAIN data : i >= 1
        /\ Head(data) = data[1]
    BY TailFacts DEF WorkerPop, MayPop
  <1>2. /\ UNCHANGED <<cpc, asked>>
        /\ wpc \notin {"none", "exited"}
        /\ wpc' = IF data[1] = 0 THEN "exited" ELSE "run"
    BY <1>1 DEF WorkerPop
  <1> SUFFICES ASSUME NEW c \in Controllers
               PROVE  /\ cpc[c] = "idle" => wpc' # "exited" /\ NoNull'
                      /\ cpc[c] # "idle" /\ wpc' = "exited" =>
                           \A i \in DOMAIN data' : data'[i] > asked[c]
                      /\ cpc[c] # "idle" /\ wpc' # "exited" =>
                           \E i \in DOMAIN data' :
                                 /\ data'[i] = 0
                                 /\ \A j \in DOMAIN data' :
                                       /\ j < i => data'[j] # 0
                                       /\ j > i => data'[j] > asked[c]
    BY <1>2 DEF OwnerInv
  <1>3. CASE cpc[c] = "idle"
    BY <1>1, <1>2, <1>3 DEF OwnerInv, NoNull
  <1>4. CASE cpc[c] # "idle"
    <2>1. PICK i \in DOMAIN data :
                  /\ data[i] = 0
                  /\ \A j \in DOMAIN data : /\ j < i => data[j] # 0
                                            /\ j > i => data[j] > asked[c]
      BY <1>2, <1>4 DEF OwnerInv
    <2>2. CASE i = 1
      BY <1>1, <1>2, <1>4, <2>1, <2>2
    <2>3. CASE i # 1
      <3>1. /\ i - 1 \in DOMAIN data'
            /\ data'[i - 1] = 0
            /\ data[1] # 0
        BY <1>1, <2>1, <2>3
      <3>2. \A j \in DOMAIN data' : /\ j < i - 1 => data'[j] # 0
                                    /\ j > i - 1 => data'[j] > asked[c]
        BY <1>1, <2>1
      <3> QED
        BY <1>2, <1>4, <3>1, <3>2
    <2> QED
      BY <2>2, <2>3
  <1> QED
    BY <1>3, <1>4

LEMMA OwnerInvStep ==
    ASSUME SoleOwner
    PROVE  TypeOK /\ Accounting /\ OwnerInv /\ WorkerHasOwner /\ [Next]_vars
              => OwnerInv' /\ WorkerHasOwner'
  <1> SUFFICES ASSUME TypeOK, Accounting, OwnerInv, WorkerHasOwner, [Next]_vars
               PROVE  OwnerInv' /\ WorkerHasOwner'
    OBVIOUS
  <1>1. ASSUME /\ UNCHANGED <<data, cpc>>
               /\ \A c \in Controllers : asked'[c] = asked[c]
               /\ (wpc' = "exited") <=> (wpc = "exited")
               /\ (wpc' = "none") <=> (wpc = "none")
        PROVE  OwnerInv' /\ WorkerHasOwner'
    BY <1>1 DEF OwnerInv, WorkerHasOwner, NoNull
  <1>2. ASSUME NEW c \in Controllers, Controller(c)
        PROVE  OwnerInv' /\ WorkerHasOwner'
    BY <1>2, OwnerInvController DEF WorkerHasOwner
  <1>3. CASE Push
    BY <1>3, OwnerInvPush DEF WorkerHasOwner, Push, NotifyWorker
  <1>4. ASSUME NEW w \in Waiters, Waiter(w)
        PROVE  OwnerInv' /\ WorkerHasOwner'
    BY <1>1, <1>4, ConstantsAssumption
       DEF TypeOK, Waiter, WaitForEmpty, WaiterRecheck, WaiterSpurious, WaiterLeave
  <1>5. CASE Worker
    <2>1. CASE WorkerPop
      BY <2>1, OwnerInvPop DEF WorkerHasOwner, WorkerPop
    <2>2. CASE WorkerSleep \/ WorkerSpurious \/ WorkerSleepAgain \/ WorkerRan
      BY <1>1, <2>2 DEF WorkerSleep, WorkerSpurious, WorkerSleepAgain, WorkerRan
    <2> QED
      BY <1>5, <2>1, <2>2 DEF Worker
  <1>6. CASE UNCHANGED vars
    BY <1>1, <1>6 DEF vars
  <1> QED
    BY <1>2, <1>3, <1>4, <1>5, <1>6 DEF Next

LEMMA OwnerInvariant ==
    ASSUME SoleOwner
    PROVE  Spec => [](TypeOK /\ Accounting /\ OwnerInv /\ WorkerHasOwner)
  <1>1. TypeOK /\ Accounting /\ OwnerInv /\ WorkerHasOwner /\ [Next]_vars
           => OwnerInv' /\ WorkerHasOwner'
    BY OwnerInvStep
  <1> QED
    BY <1>1, OwnerInvInit, TypeCorrect, AccountingInvariant, PTL DEF Spec

\* With one owner that never stops an unstarted queue, Stop and Abort join a thread
\* only after everything pushed before them was executed or discarded.
THEOREM StopFinishesTheQueue ==
    ASSUME SoleOwner
    PROVE  Spec => []StopLeavesNothing
  <1>1. TypeOK /\ Accounting /\ OwnerInv => StopLeavesNothing
    <2> SUFFICES ASSUME TypeOK, Accounting, OwnerInv,
                        NEW c \in Controllers, cpc[c] = "join", wpc = "exited",
                        NEW n \in 1 .. asked[c]
                 PROVE  n \in done \cup dropped
      BY DEF StopLeavesNothing
    <2>1. \A i \in DOMAIN data : data[i] > asked[c]
      BY DEF OwnerInv
    <2>2. n \notin Queued
      <3>1. asked[c] \in Nat /\ \A i \in DOMAIN data : data[i] \in Nat
        BY ConstantsAssumption DEF TypeOK
      <3> QED
        BY <2>1, <3>1 DEF Queued
    <2>3. n \in 1 .. pushed
      BY DEF Accounting, TypeOK
    <2>4. cur = NullCmd
      BY DEF TypeOK
    <2> QED
      BY <2>2, <2>3, <2>4 DEF Accounting, ExactlyOnce, NullCmd
  <1> QED
    BY <1>1, OwnerInvariant, PTL

\* Under the same assumption a started worker ends only for a shutdown in progress.
THEOREM WorkerDiesOnlyForShutdown ==
    ASSUME SoleOwner
    PROVE  Spec => []DiesOnlyForShutdown
  <1>1. OwnerInv /\ WorkerHasOwner => DiesOnlyForShutdown
    BY DEF OwnerInv, WorkerHasOwner, DiesOnlyForShutdown
  <1> QED
    BY <1>1, OwnerInvariant, PTL

-----------------------------------------------------------------------------
(* Refinement *)

\* The class implements CmdQueueSpec, which the pipeline models are built on: the
\* mutexes, the condition variables and the steps of a shutdown cannot be told from
\* an atomic queue.
THEOREM Implementation == Spec => ImplementsQueue
<1>1. Init => Abstract!Init
  BY DEF Init, Abstract!Init, NullCmd
<1>2. TypeOK /\ [Next]_vars => [Abstract!Next]_(Abstract!specVars)
  <2> SUFFICES ASSUME TypeOK, [Next]_vars
               PROVE  [Abstract!Next]_(Abstract!specVars)
    OBVIOUS
  <2> USE DEF NullCmd, Abstract!specVars
  <2>1. ASSUME NEW c \in Controllers, Controller(c)
        PROVE  [Abstract!Next]_(Abstract!specVars)
    <3>1. CASE Start(c)
      BY <3>1 DEF Start, Abstract!Start, Abstract!Next
    <3>2. CASE Pause(c)
      BY <3>2 DEF Pause, Abstract!Pause, Abstract!Next
    <3>3. CASE Resume(c)
      BY <3>3 DEF Resume, NotifyWorker, Abstract!Resume, Abstract!Next
    <3>4. ASSUME NEW abort \in BOOLEAN, ShutdownPost(c, abort)
          PROVE  [Abstract!Next]_(Abstract!specVars)
      <4>1. Abstract!Shutdown(abort)
        BY <3>4 DEF ShutdownPost, NotifyWorker, Abstract!Shutdown
      <4> QED
        BY <4>1 DEF Abstract!Next
    <3>5. CASE ShutdownLock(c)
      BY <3>5 DEF ShutdownLock
    <3>6. CASE ShutdownJoin(c)
      BY <3>6 DEF ShutdownJoin, Abstract!Join, Abstract!Next
    <3> QED
      BY <2>1, <3>1, <3>2, <3>3, <3>4, <3>5, <3>6 DEF Controller
  <2>2. CASE Push
    <3>1. pushed + 1 \in 1 .. MaxPushes
      BY <2>2, ConstantsAssumption DEF Push, TypeOK
    <3>2. Abstract!Push(pushed + 1)
      BY <2>2 DEF Push, NotifyWorker, Abstract!Push
    <3> QED
      BY <3>1, <3>2 DEF Abstract!Next
  <2>3. ASSUME NEW w \in Waiters, Waiter(w)
        PROVE  [Abstract!Next]_(Abstract!specVars)
    BY <2>3 DEF Waiter, WaitForEmpty, WaiterRecheck, WaiterSpurious, WaiterLeave
  <2>4. CASE Worker
    <3>1. CASE WorkerSleep \/ WorkerSpurious \/ WorkerSleepAgain
      BY <3>1 DEF WorkerSleep, WorkerSpurious, WorkerSleepAgain
    <3>2. CASE WorkerPop
      <4>1. Abstract!Take
        BY <3>2 DEF WorkerPop, MayPop, TypeOK, Abstract!Take
      <4> QED
        BY <4>1 DEF Abstract!Next
    <3>3. CASE WorkerRan
      BY <3>3 DEF WorkerRan, TypeOK, Abstract!Finish, Abstract!Next
    <3> QED
      BY <2>4, <3>1, <3>2, <3>3 DEF Worker
  <2>5. CASE UNCHANGED vars
    BY <2>5 DEF vars
  <2> QED
    BY <2>1, <2>2, <2>3, <2>4, <2>5 DEF Next
<1> QED
  BY <1>1, <1>2, TypeCorrect, PTL DEF Spec, ImplementsQueue, Abstract!Spec
=============================================================================
