----------------------------- MODULE MfxPoolProofs -----------------------------
(***************************************************************************)
(* Proofs about MfxPool, for any number of items, threads and resets.      *)
(***************************************************************************)
EXTENDS MfxPool, TLAPS

\* What the constants have to be: there is a first pool, and its owner is none of the threads
\* that release items.
PoolConstants == MaxPools \in Nat \ {0} /\ Owner \notin Threads

-----------------------------------------------------------------------------
(* The list of free items *)

LEMMA AppendHeld ==
    ASSUME NEW S, NEW q \in Seq(S), NEW i \in S
    PROVE  /\ Append(q, i) \in Seq(S)
           /\ Held(Append(q, i)) = Held(q) \cup {i}
           /\ Once(q) /\ i \notin Held(q) => Once(Append(q, i))
  <1>1. /\ Append(q, i) \in Seq(S)
        /\ DOMAIN Append(q, i) = DOMAIN q \cup {Len(q) + 1}
        /\ Append(q, i)[Len(q) + 1] = i
        /\ \A k \in DOMAIN q : Append(q, i)[k] = q[k]
    OBVIOUS
  <1>2. Held(Append(q, i)) = Held(q) \cup {i}
    BY <1>1 DEF Held
  <1>3. ASSUME Once(q), i \notin Held(q)
        PROVE  Once(Append(q, i))
    BY <1>1, <1>3 DEF Once, Held
  <1> QED
    BY <1>1, <1>2, <1>3

LEMMA TailHeld ==
    ASSUME NEW S, NEW q \in Seq(S), q # <<>>
    PROVE  /\ Tail(q) \in Seq(S)
           /\ Head(q) \in S
           /\ Held(q) = Held(Tail(q)) \cup {Head(q)}
           /\ Once(q) => Once(Tail(q)) /\ Head(q) \notin Held(Tail(q))
  <1>1. /\ Tail(q) \in Seq(S) /\ Head(q) \in S
        /\ Len(q) \in Nat /\ Len(q) > 0
        /\ DOMAIN q = 1 .. Len(q)
        /\ DOMAIN Tail(q) = 1 .. Len(q) - 1
        /\ Head(q) = q[1]
        /\ \A k \in DOMAIN Tail(q) : Tail(q)[k] = q[k + 1]
    OBVIOUS
  <1>2. Held(q) \subseteq Held(Tail(q)) \cup {Head(q)}
    <2> SUFFICES ASSUME NEW k \in DOMAIN q
                 PROVE  q[k] \in Held(Tail(q)) \cup {Head(q)}
      BY DEF Held
    <2>1. CASE k = 1
      BY <1>1, <2>1
    <2>2. CASE k # 1
      <3>1. k - 1 \in DOMAIN Tail(q) /\ Tail(q)[k - 1] = q[k]
        BY <1>1, <2>2
      <3> QED
        BY <3>1 DEF Held
    <2> QED
      BY <2>1, <2>2
  <1>3. Held(Tail(q)) \cup {Head(q)} \subseteq Held(q)
    BY <1>1 DEF Held
  <1>4. ASSUME Once(q)
        PROVE  Once(Tail(q)) /\ Head(q) \notin Held(Tail(q))
    BY <1>1, <1>4 DEF Once, Held
  <1> QED
    BY <1>1, <1>2, <1>3, <1>4

-----------------------------------------------------------------------------
(* Type correctness *)

LEMMA TypeInit == ASSUME PoolConstants, Init PROVE PoolTypeOK
  BY DEF PoolConstants, Init, PoolTypeOK, Pools, Idle

LEMMA TypeStep == ASSUME PoolConstants, PoolTypeOK, Next PROVE PoolTypeOK'
  <1> USE DEF PoolConstants, PoolTypeOK
  <1>0. \A p \in Pools : Held(free[p]) \subseteq Items
    BY DEF Held
  <1>1. ASSUME NEW i \in Items, AppendItem(i)
        PROVE  PoolTypeOK'
    <2>1. Append(free[pool], i) \in Seq(Items)
      BY AppendHeld
    <2> QED
      BY <1>1, <2>1 DEF AppendItem
  <1>2. ASSUME Take
        PROVE  PoolTypeOK'
    <2>1. Tail(free[pool]) \in Seq(Items) /\ Head(free[pool]) \in Items
      BY <1>2, TailHeld DEF Take
    <2>2. pool \in 0 .. MaxPools /\ pool # 0
      BY DEF Pools
    <2> QED
      BY <1>2, <2>1, <2>2 DEF Take
  <1>3. ASSUME Reset
        PROVE  PoolTypeOK'
    <2>1. pool + 1 \in Pools
      BY <1>3 DEF Reset, Pools
    <2>2. owners' \in [Pools -> SUBSET ({Owner} \cup Threads)]
      BY <1>3 DEF Reset
    <2>3. <<>> \in Seq(Items)
      OBVIOUS
    <2>4. free' \in [Pools -> Seq(Items)] /\ deleted' \subseteq Items
      BY <1>0, <1>3, <2>3 DEF Reset
    <2> QED
      BY <1>3, <2>1, <2>2, <2>4 DEF Reset
  <1>4. ASSUME NEW t \in Threads, NEW i \in Items, Release(t, i)
        PROVE  PoolTypeOK'
    <2>1. home[i] \in Pools
      BY <1>4 DEF Release, Pools
    <2>2. owners' \in [Pools -> SUBSET ({Owner} \cup Threads)]
      <3>1. owners[home[i]] \cup {t} \in SUBSET ({Owner} \cup Threads)
        BY <2>1
      <3>2. \/ owners' = owners
            \/ owners' = [owners EXCEPT ![home[i]] = owners[home[i]] \cup {t}]
        BY <1>4 DEF Release
      <3> QED
        BY <3>1, <3>2
    <2>3. [at |-> "append", item |-> i, from |-> home[i]]
            \in [at : {"append", "drop", "destroy"}, item : Items, from : Pools]
      BY <2>1
    <2>4. \/ deleter' = deleter
          \/ deleter' = [deleter EXCEPT ![t] = [at |-> "append", item |-> i, from |-> home[i]]]
      BY <1>4 DEF Release
    <2>5. deleter' \in [Threads -> {Idle} \cup [at : {"append", "drop", "destroy"},
                                                item : Items, from : Pools]]
      BY <2>3, <2>4
    <2>6. /\ out' \subseteq Items /\ deleted' \subseteq Items
          /\ \A k \in out' : home'[k] # 0
          /\ UNCHANGED <<pool, free, home, fresh, caller>>
      BY <1>4 DEF Release
    <2> QED
      BY <2>2, <2>5, <2>6
  <1>5. ASSUME NEW t \in Threads, deleter[t].at # "idle"
        PROVE  deleter[t] \in [at : {"append", "drop", "destroy"}, item : Items, from : Pools]
    BY <1>5 DEF Idle
  <1>6. ASSUME NEW t \in Threads, PutBack(t)
        PROVE  PoolTypeOK'
    <2>1. /\ deleter[t] \in [at : {"append", "drop", "destroy"}, item : Items, from : Pools]
      BY <1>5, <1>6 DEF PutBack
    <2>2. Append(free[deleter[t].from], deleter[t].item) \in Seq(Items)
      BY <2>1, AppendHeld
    <2> QED
      BY <1>6, <2>1, <2>2 DEF PutBack
  <1>7. ASSUME NEW t \in Threads, LetGo(t)
        PROVE  PoolTypeOK'
    <2>1. deleter[t] \in [at : {"append", "drop", "destroy"}, item : Items, from : Pools]
      BY <1>5, <1>7 DEF LetGo
    <2> QED
      BY <1>7, <2>1 DEF LetGo
  <1>8. ASSUME NEW t \in Threads, Destroy(t)
        PROVE  PoolTypeOK'
    <2>1. deleter[t].from \in Pools
      BY <1>5, <1>8 DEF Destroy
    <2>2. <<>> \in Seq(Items)
      OBVIOUS
    <2> QED
      BY <1>0, <1>8, <2>1, <2>2 DEF Destroy
  <1>9. ASSUME AllocWaits \/ AllocTimesOut \/ ResetEnds
        PROVE  PoolTypeOK'
    BY <1>9 DEF AllocWaits, AllocTimesOut, ResetEnds
  <1> QED
    BY <1>1, <1>2, <1>3, <1>4, <1>6, <1>7, <1>8, <1>9 DEF Next, Caller, Alloc, AllocWakes

LEMMA Busy ==
    ASSUME PoolTypeOK, NEW t \in Threads
    PROVE  /\ deleter[t].at # "idle" =>
                deleter[t] \in [at : {"append", "drop", "destroy"}, item : Items, from : Pools]
           /\ deleter[t].at = "idle" => deleter[t].from \notin Pools
           /\ deleter[t].at \in {"idle", "append", "drop", "destroy"}
  BY DEF PoolTypeOK, Idle, Pools

-----------------------------------------------------------------------------
(* Who holds a pool, and who destroys its items *)

\* m_pool holds the pool in use and no other.
OwnerHasPool == \A p \in Pools : Owner \in owners[p] <=> p = pool

\* The threads that hold a pool are those in the middle of a deleter that refers to it.
HoldersAreAtWork ==
    \A t \in Threads, p \in Pools :
        t \in owners[p] <=> deleter[t].at \in {"append", "drop"} /\ deleter[t].from = p

\* A thread that destroys the items of a pool was the last to hold it, after its owner.
DestroyedIsLeft == \A t \in Threads : deleter[t].at = "destroy" =>
                      owners[deleter[t].from] = {} /\ deleter[t].from < pool

\* Nobody holds a pool whose destructor has returned, or one still to be made.
GoneIsLeft == \A p \in Pools : Gone(p) \/ p > pool => owners[p] = {}

\* Items that are left in a pool nobody holds are being destroyed.
LeftIsEmptied ==
    \A p \in Pools : p # pool /\ owners[p] = {} /\ free[p] # <<>> =>
        \E t \in Threads : deleter[t].at = "destroy" /\ deleter[t].from = p

Deleters == /\ OwnerHasPool /\ HoldersAreAtWork /\ DestroyedIsLeft /\ GoneIsLeft
            /\ LeftIsEmptied

LEMMA DeletersInit == ASSUME PoolConstants, Init PROVE Deleters
  BY DEF PoolConstants, Init, Deleters, OwnerHasPool, HoldersAreAtWork, DestroyedIsLeft,
         GoneIsLeft, LeftIsEmptied, Gone, Pools, Idle

LEMMA DeletersStep ==
    ASSUME PoolConstants, PoolTypeOK, PoolTypeOK', Deleters, Next
    PROVE  Deleters'
  <1> USE DEF PoolConstants, Deleters
  <1>0. pool \in Nat /\ \A p \in Pools : p \in Nat
    BY DEF PoolTypeOK, Pools
  <1>1. ASSUME UNCHANGED <<pool, owners, deleter>>, caller' = caller \/ caller # "reset",
               caller' # "reset" \/ caller = "reset",
               \A p \in Pools : p # pool => free'[p] = free[p]
        PROVE  Deleters'
    BY <1>1 DEF OwnerHasPool, HoldersAreAtWork, DestroyedIsLeft, GoneIsLeft, LeftIsEmptied, Gone
  <1>2. ASSUME NEW i \in Items, AppendItem(i)
        PROVE  Deleters'
    BY <1>1, <1>2 DEF AppendItem, PoolTypeOK
  <1>3. ASSUME Take \/ AllocWaits \/ AllocTimesOut, caller # "reset"
        PROVE  Deleters'
    BY <1>1, <1>3 DEF Take, AllocWaits, AllocTimesOut, PoolTypeOK
  <1>4. ASSUME ResetEnds
        PROVE  Deleters'
    <2>1. UNCHANGED <<pool, owners, deleter, free>> /\ caller' = "idle" /\ owners[pool - 1] = {}
      BY <1>4 DEF ResetEnds, Alive
    <2>2. GoneIsLeft'
      BY <1>0, <2>1 DEF GoneIsLeft, Gone
    <2> QED
      BY <2>1, <2>2 DEF OwnerHasPool, HoldersAreAtWork, DestroyedIsLeft, LeftIsEmptied
  <1>5. ASSUME Reset
        PROVE  Deleters'
    <2>1. /\ pool \in Pools /\ pool + 1 \in Pools /\ pool' = pool + 1 /\ pool # pool + 1
          /\ caller = "idle" /\ caller' = "reset" /\ deleter' = deleter
          /\ owners'[pool] = owners[pool] \ {Owner}
          /\ owners'[pool + 1] = {Owner}
          /\ \A p \in Pools : p \notin {pool, pool + 1} => owners'[p] = owners[p]
          /\ \A p \in Pools : p # pool => free'[p] = free[p]
          /\ owners[pool] = {Owner} => free'[pool] = <<>>
      <3>1. pool \in Pools /\ pool + 1 \in Pools /\ pool # pool + 1
        BY <1>5 DEF Reset, PoolTypeOK, Pools
      <3> QED
        BY <1>5, <3>1 DEF Reset, PoolTypeOK
    <2>2. owners[pool + 1] = {}
      BY <1>0, <2>1 DEF GoneIsLeft
    <2>3. OwnerHasPool'
      BY <2>1 DEF OwnerHasPool
    <2>4. HoldersAreAtWork'
      BY <2>1, <2>2 DEF HoldersAreAtWork
    <2>5. DestroyedIsLeft'
      <3>1. \A t \in Threads : deleter[t].at = "destroy" => deleter[t].from \in Pools
        BY Busy
      <3> SUFFICES ASSUME NEW t \in Threads, deleter[t].at = "destroy"
                   PROVE  owners'[deleter[t].from] = {} /\ deleter[t].from < pool'
        BY <2>1 DEF DestroyedIsLeft
      <3>2. owners[deleter[t].from] = {} /\ deleter[t].from < pool
        BY DEF DestroyedIsLeft
      <3>3. deleter[t].from \notin {pool, pool + 1} /\ deleter[t].from < pool + 1
        BY <1>0, <3>1, <3>2
      <3> QED
        BY <2>1, <3>1, <3>2, <3>3
    <2>6. GoneIsLeft'
      BY <1>0, <2>1 DEF GoneIsLeft, Gone
    <2>7. LeftIsEmptied'
      <3>1. Owner \in owners[pool] /\ (owners'[pool] = {} => owners[pool] = {Owner})
        BY <2>1 DEF OwnerHasPool
      <3> QED
        BY <2>1, <3>1 DEF LeftIsEmptied
    <2> QED
      BY <2>3, <2>4, <2>5, <2>6, <2>7

  <1>6. ASSUME NEW t \in Threads, NEW i \in Items, Release(t, i)
        PROVE  Deleters'
    <2>1. /\ UNCHANGED <<pool, free, caller>> /\ home[i] \in Pools
          /\ deleter[t].at = "idle" /\ deleter[t].from \notin Pools
      BY <1>6 DEF Release, PoolTypeOK, Idle, Pools
    <2>2. CASE UNCHANGED <<owners, deleter>>
      BY <2>1, <2>2 DEF OwnerHasPool, HoldersAreAtWork, DestroyedIsLeft, GoneIsLeft,
                        LeftIsEmptied, Gone
    <2>3. CASE owners[home[i]] # {}
      <3>1. /\ owners'[home[i]] = owners[home[i]] \cup {t}
            /\ \A p \in Pools : p # home[i] => owners'[p] = owners[p]
            /\ deleter'[t] = [at |-> "append", item |-> i, from |-> home[i]]
            /\ \A u \in Threads : u # t => deleter'[u] = deleter[u]
        BY <1>6, <2>1, <2>3 DEF Release, Alive, PoolTypeOK
      <3>2. OwnerHasPool'
        BY <2>1, <3>1 DEF OwnerHasPool
      <3>3. HoldersAreAtWork'
        BY <2>1, <3>1 DEF HoldersAreAtWork
      <3>4. DestroyedIsLeft'
        <4> SUFFICES ASSUME NEW u \in Threads, deleter'[u].at = "destroy"
                     PROVE  owners'[deleter'[u].from] = {} /\ deleter'[u].from < pool
          BY <2>1 DEF DestroyedIsLeft
        <4>1. u # t /\ deleter'[u] = deleter[u] /\ deleter[u].from \in Pools
          BY <3>1, Busy
        <4> QED
          BY <2>3, <3>1, <4>1 DEF DestroyedIsLeft
      <3>5. GoneIsLeft'
        BY <2>1, <2>3, <3>1 DEF GoneIsLeft, Gone
      <3>6. LeftIsEmptied'
        <4> SUFFICES ASSUME NEW p \in Pools, p # pool, owners'[p] = {}, free[p] # <<>>
                     PROVE  \E u \in Threads : deleter'[u].at = "destroy" /\ deleter'[u].from = p
          BY <2>1 DEF LeftIsEmptied
        <4>1. owners[p] = {}
          BY <3>1
        <4>2. PICK u \in Threads : deleter[u].at = "destroy" /\ deleter[u].from = p
          BY <4>1 DEF LeftIsEmptied
        <4> QED
          BY <2>1, <3>1, <4>2
      <3> QED
        BY <3>2, <3>3, <3>4, <3>5, <3>6
    <2> QED
      BY <1>6, <2>2, <2>3 DEF Release, Alive
  <1>7. ASSUME NEW t \in Threads, PutBack(t)
        PROVE  Deleters'
    <2>1. /\ UNCHANGED <<pool, owners, caller>>
          /\ deleter[t].at = "append" /\ deleter[t].from \in Pools
          /\ deleter'[t].at = "drop" /\ deleter'[t].from = deleter[t].from
          /\ \A u \in Threads : u # t => deleter'[u] = deleter[u]
          /\ \A p \in Pools : p # deleter[t].from => free'[p] = free[p]
      BY <1>7, Busy DEF PutBack, PoolTypeOK
    <2>2. t \in owners[deleter[t].from]
      BY <2>1 DEF HoldersAreAtWork
    <2>3. OwnerHasPool' /\ HoldersAreAtWork' /\ DestroyedIsLeft' /\ GoneIsLeft'
      BY <2>1 DEF OwnerHasPool, HoldersAreAtWork, DestroyedIsLeft, GoneIsLeft, Gone
    <2>4. LeftIsEmptied'
      <3> SUFFICES ASSUME NEW p \in Pools, p # pool, owners[p] = {}, free'[p] # <<>>
                   PROVE  \E u \in Threads : deleter'[u].at = "destroy" /\ deleter'[u].from = p
        BY <2>1 DEF LeftIsEmptied
      <3>1. free[p] # <<>>
        BY <2>1, <2>2
      <3>2. PICK u \in Threads : deleter[u].at = "destroy" /\ deleter[u].from = p
        BY <3>1 DEF LeftIsEmptied
      <3> QED
        BY <2>1, <3>2
    <2> QED
      BY <2>3, <2>4
  <1>8. ASSUME NEW t \in Threads, LetGo(t)
        PROVE  Deleters'
    <2>1. /\ UNCHANGED <<pool, free, caller>>
          /\ deleter[t].at = "drop" /\ deleter[t].from \in Pools
          /\ owners'[deleter[t].from] = owners[deleter[t].from] \ {t}
          /\ \A p \in Pools : p # deleter[t].from => owners'[p] = owners[p]
          /\ \A u \in Threads : u # t => deleter'[u] = deleter[u]
      BY <1>8, Busy DEF LetGo, PoolTypeOK
    <2>2. t \in owners[deleter[t].from] /\ t # Owner
      BY <2>1 DEF HoldersAreAtWork
    <2>3. IF owners[deleter[t].from] = {t}
          THEN deleter'[t].at = "destroy" /\ deleter'[t].from = deleter[t].from
          ELSE deleter'[t].at = "idle" /\ deleter'[t].from \notin Pools
      BY <1>8, Busy DEF LetGo, PoolTypeOK, Idle, Pools
    <2>4. deleter[t].from <= pool
      BY <1>0, <2>1, <2>2 DEF GoneIsLeft
    <2>5. OwnerHasPool'
      BY <2>1, <2>2 DEF OwnerHasPool
    <2>6. HoldersAreAtWork'
      BY <2>1, <2>3 DEF HoldersAreAtWork
    <2>7. DestroyedIsLeft'
      <3>1. ASSUME deleter'[t].at = "destroy"
            PROVE  owners'[deleter'[t].from] = {} /\ deleter'[t].from < pool
        <4>1. owners[deleter[t].from] = {t} /\ deleter'[t].from = deleter[t].from
          BY <2>3, <3>1
        <4>2. deleter[t].from # pool
          BY <2>1, <2>2, <4>1 DEF OwnerHasPool
        <4> QED
          BY <1>0, <2>1, <2>4, <4>1, <4>2
      <3>2. ASSUME NEW u \in Threads, u # t, deleter[u].at = "destroy"
            PROVE  owners'[deleter[u].from] = {} /\ deleter[u].from < pool
        <4>1. deleter[u].from \in Pools
          BY <3>2, Busy
        <4> QED
          BY <2>1, <3>2, <4>1 DEF DestroyedIsLeft
      <3> QED
        BY <2>1, <3>1, <3>2 DEF DestroyedIsLeft
    <2>8. GoneIsLeft'
      BY <2>1 DEF GoneIsLeft, Gone
    <2>9. LeftIsEmptied'
      <3> SUFFICES ASSUME NEW p \in Pools, p # pool, owners'[p] = {}, free[p] # <<>>
                   PROVE  \E u \in Threads : deleter'[u].at = "destroy" /\ deleter'[u].from = p
        BY <2>1 DEF LeftIsEmptied
      <3>1. CASE p = deleter[t].from
        BY <2>1, <2>2, <2>3, <3>1
      <3>2. CASE p # deleter[t].from
        <4>1. PICK u \in Threads : deleter[u].at = "destroy" /\ deleter[u].from = p
          BY <2>1, <3>2 DEF LeftIsEmptied
        <4> QED
          BY <2>1, <4>1
      <3> QED
        BY <3>1, <3>2
    <2> QED
      BY <2>5, <2>6, <2>7, <2>8, <2>9
  <1>9. ASSUME NEW t \in Threads, Destroy(t)
        PROVE  Deleters'
    <2>1. /\ UNCHANGED <<pool, owners, caller>>
          /\ deleter[t].at = "destroy" /\ deleter[t].from \in Pools
          /\ deleter'[t].at = "idle" /\ deleter'[t].from \notin Pools
          /\ \A u \in Threads : u # t => deleter'[u] = deleter[u]
          /\ free'[deleter[t].from] = <<>>
          /\ \A p \in Pools : p # deleter[t].from => free'[p] = free[p]
      BY <1>9, Busy DEF Destroy, PoolTypeOK, Idle, Pools
    <2>2. OwnerHasPool' /\ HoldersAreAtWork' /\ DestroyedIsLeft' /\ GoneIsLeft'
      BY <2>1 DEF OwnerHasPool, HoldersAreAtWork, DestroyedIsLeft, GoneIsLeft, Gone
    <2>3. LeftIsEmptied'
      <3> SUFFICES ASSUME NEW p \in Pools, p # pool, owners[p] = {}, free'[p] # <<>>
                   PROVE  \E u \in Threads : deleter'[u].at = "destroy" /\ deleter'[u].from = p
        BY <2>1 DEF LeftIsEmptied
      <3>1. p # deleter[t].from /\ free[p] # <<>>
        BY <2>1
      <3>2. PICK u \in Threads : deleter[u].at = "destroy" /\ deleter[u].from = p
        BY <3>1 DEF LeftIsEmptied
      <3> QED
        BY <2>1, <3>1, <3>2
    <2> QED
      BY <2>2, <2>3
  <1> QED
    BY <1>2, <1>3, <1>4, <1>5, <1>6, <1>7, <1>8, <1>9
       DEF Next, Caller, Alloc, AllocWakes, AllocWaits, AllocTimesOut

-----------------------------------------------------------------------------
(* Where the items are *)

LEMMA PlaceInit == ASSUME PoolConstants, Init PROVE ItemInOnePlace
  <1>1. Stored = {} /\ Entering = {}
    BY DEF Init, Stored, Entering, Returning, Held, Idle
  <1>2. \A p \in Pools : Once(free[p]) /\ Held(free[p]) = {}
    BY DEF Init, Once, Held
  <1>3. \A t \in Threads : ~Returning(t)
    BY DEF Init, Returning, Idle
  <1> QED
    BY <1>1, <1>2, <1>3 DEF Init, ItemInOnePlace

(* What the pools and the deleters have is told by what each of them has. *)
LEMMA StoredIs ==
    ASSUME NEW i
    PROVE  /\ i \in Stored <=> \E p \in Pools : i \in Held(free[p])
           /\ i \in Entering <=> \E t \in Threads : Returning(t) /\ deleter[t].item = i
  BY DEF Stored, Entering

(* An item put into one pool, and in none before, leaves the pools apart. *)
LEMMA StayApart ==
    ASSUME NEW x, NEW p \in Pools, ItemInOnePlace,
           \A q \in Pools : x \notin Held(free[q]),
           Held(free'[p]) = Held(free[p]) \cup {x},
           \A q \in Pools : q # p => free'[q] = free[q]
    PROVE  \A q, r \in Pools : q # r => Held(free'[q]) \cap Held(free'[r]) = {}
  <1>1. \A q \in Pools : q # p => Held(free'[q]) = Held(free[q])
    OBVIOUS
  <1> SUFFICES ASSUME NEW q \in Pools, NEW r \in Pools, q # r
               PROVE  Held(free'[q]) \cap Held(free'[r]) = {}
    OBVIOUS
  <1>2. Held(free[q]) \cap Held(free[r]) = {}
    BY DEF ItemInOnePlace
  <1> QED
    BY <1>1, <1>2

(* The items move, and what is said of each pool alone stays. *)
LEMMA PlaceStep ==
    ASSUME PoolConstants, PoolTypeOK, Deleters, ItemInOnePlace, Next
    PROVE  ItemInOnePlace'
  <1> USE DEF PoolConstants
  <1>1. ASSUME NEW i \in Items, AppendItem(i)
        PROVE  ItemInOnePlace'
    <2>1. /\ pool \in Pools /\ i \in fresh /\ fresh' = fresh \ {i}
          /\ UNCHANGED <<out, deleted, deleter>>
          /\ free'[pool] = Append(free[pool], i)
          /\ \A p \in Pools : p # pool => free'[p] = free[p]
      BY <1>1 DEF AppendItem, PoolTypeOK
    <2>2. i \notin Stored /\ \A q \in Pools : i \notin Held(free[q])
      BY <2>1, StoredIs DEF ItemInOnePlace
    <2>3. Held(free'[pool]) = Held(free[pool]) \cup {i} /\ Once(free'[pool])
      BY <2>1, <2>2, AppendHeld DEF PoolTypeOK, ItemInOnePlace
    <2>4. Stored' = Stored \cup {i} /\ Entering' = Entering
      BY <2>1, <2>3 DEF Stored, Entering, Returning
    <2>5. \A p, q \in Pools : p # q => Held(free'[p]) \cap Held(free'[q]) = {}
      BY <2>1, <2>2, <2>3, StayApart
    <2>6. \A p \in Pools : Once(free'[p])
      BY <2>1, <2>3 DEF ItemInOnePlace
    <2> QED
      BY <2>1, <2>2, <2>4, <2>5, <2>6 DEF ItemInOnePlace, Returning
  <1>2. ASSUME Take
        PROVE  ItemInOnePlace'
    <2> DEFINE i == Head(free[pool])
    <2>1. /\ pool \in Pools /\ free[pool] # <<>>
          /\ out' = out \cup {i}
          /\ UNCHANGED <<fresh, deleted, deleter>>
          /\ free'[pool] = Tail(free[pool])
          /\ \A p \in Pools : p # pool => free'[p] = free[p]
      BY <1>2 DEF Take, PoolTypeOK
    <2>2. /\ Held(free[pool]) = Held(free'[pool]) \cup {i} /\ i \notin Held(free'[pool])
          /\ Once(free'[pool]) /\ i \in Items
      BY <2>1, TailHeld DEF PoolTypeOK, ItemInOnePlace
    <2> HIDE DEF i
    <2>3. i \in Stored /\ \A p \in Pools : i \notin Held(free'[p])
      BY <2>1, <2>2, StoredIs DEF ItemInOnePlace
    <2>4. Stored' = Stored \ {i} /\ Entering' = Entering
      BY <2>1, <2>2, <2>3 DEF Stored, Entering, Returning
    <2>5. \A p, q \in Pools : p # q => Held(free'[p]) \cap Held(free'[q]) = {}
      BY <2>1, <2>2 DEF ItemInOnePlace
    <2>6. \A p \in Pools : Once(free'[p])
      BY <2>1, <2>2 DEF ItemInOnePlace
    <2> QED
      BY <2>1, <2>2, <2>3, <2>4, <2>5, <2>6 DEF ItemInOnePlace, Returning
  <1>3. ASSUME NEW p \in Pools, UNCHANGED <<fresh, out>>, free'[p] = <<>>,
               \A q \in Pools : q # p => free'[q] = free[q],
               deleted' = deleted \cup Held(free[p]),
               \A t \in Threads : Returning(t)' = Returning(t)
                                  /\ (Returning(t) => deleter'[t].item = deleter[t].item)
        PROVE  ItemInOnePlace'
    <2>1. Held(free'[p]) = {} /\ Once(free'[p])
      BY <1>3 DEF Held, Once
    <2>2. Stored' = Stored \ Held(free[p]) /\ Held(free[p]) \subseteq Stored
      BY <1>3, <2>1 DEF Stored, ItemInOnePlace
    <2>3. Entering' = Entering
      BY <1>3 DEF Entering
    <2>4. \A q, r \in Pools : q # r => Held(free'[q]) \cap Held(free'[r]) = {}
      BY <1>3, <2>1 DEF ItemInOnePlace
    <2>5. \A q \in Pools : Once(free'[q])
      BY <1>3, <2>1 DEF ItemInOnePlace
    <2> QED
      BY <1>3, <2>2, <2>3, <2>4, <2>5 DEF ItemInOnePlace

  <1>4. ASSUME UNCHANGED <<free, fresh, out, deleted>>,
               \A t \in Threads : Returning(t)' = Returning(t)
                                  /\ (Returning(t) => deleter'[t].item = deleter[t].item)
        PROVE  ItemInOnePlace'
    <2>1. Stored' = Stored /\ Entering' = Entering
      BY <1>4 DEF Stored, Entering
    <2> QED
      BY <1>4, <2>1 DEF ItemInOnePlace
  <1>5. ASSUME AllocWaits \/ AllocTimesOut \/ ResetEnds
        PROVE  ItemInOnePlace'
    <2>1. UNCHANGED <<free, fresh, out, deleted, deleter>>
      BY <1>5 DEF AllocWaits, AllocTimesOut, ResetEnds
    <2> QED
      BY <1>4, <2>1 DEF Returning
  <1>6. ASSUME Reset
        PROVE  ItemInOnePlace'
    <2>1. pool \in Pools /\ UNCHANGED <<fresh, out, deleter>>
      BY <1>6 DEF Reset, PoolTypeOK
    <2>2. CASE owners[pool] = {Owner}
      <3>1. /\ free'[pool] = <<>> /\ deleted' = deleted \cup Held(free[pool])
            /\ \A q \in Pools : q # pool => free'[q] = free[q]
        BY <1>6, <2>1, <2>2 DEF Reset, PoolTypeOK
      <3> QED
        BY <1>3, <2>1, <3>1 DEF Returning
    <2>3. CASE owners[pool] # {Owner}
      <3>1. UNCHANGED <<free, deleted>>
        BY <1>6, <2>3 DEF Reset
      <3> QED
        BY <1>4, <2>1, <3>1 DEF Returning
    <2> QED
      BY <2>2, <2>3
  <1>7. ASSUME NEW t \in Threads, NEW i \in Items, Release(t, i)
        PROVE  ItemInOnePlace'
    <2>1. /\ i \in out /\ out' = out \ {i} /\ ~Returning(t)
          /\ UNCHANGED <<free, fresh>> /\ Stored' = Stored
      BY <1>7 DEF Release, Returning, Idle, Stored
    <2>2. i \notin Stored \cup Entering \cup fresh \cup deleted
      BY <2>1 DEF ItemInOnePlace
    <2>3. CASE deleted' = deleted \cup {i} /\ deleter' = deleter
      <3>1. Entering' = Entering
        BY <2>3 DEF Entering, Returning
      <3> QED
        BY <2>1, <2>2, <2>3, <3>1 DEF ItemInOnePlace, Returning
    <2>4. CASE /\ deleted' = deleted
               /\ deleter' = [deleter EXCEPT ![t] = [at |-> "append", item |-> i,
                                                     from |-> home[i]]]
      <3>1. /\ Returning(t)' /\ deleter'[t].item = i
            /\ \A u \in Threads : u # t => deleter'[u] = deleter[u]
        BY <2>4 DEF Returning, PoolTypeOK
      <3>2. Entering' = Entering \cup {i}
        BY <2>1, <3>1 DEF Entering, Returning
      <3>3. \A u \in Threads : Returning(u) => deleter[u].item # i
        BY <2>2, StoredIs
      <3>4. \A u, v \in Threads : u # v /\ Returning(u)' /\ Returning(v)'
                                    => deleter'[u].item # deleter'[v].item
        BY <3>1, <3>3 DEF ItemInOnePlace, Returning
      <3> QED
        BY <2>1, <2>2, <2>4, <3>2, <3>4 DEF ItemInOnePlace
    <2> QED
      BY <1>7, <2>3, <2>4 DEF Release
  <1>8. ASSUME NEW t \in Threads, PutBack(t)
        PROVE  ItemInOnePlace'
    <2> DEFINE i == deleter[t].item
               p == deleter[t].from
    <2>1. /\ UNCHANGED <<fresh, out, deleted>> /\ Returning(t) /\ ~Returning(t)'
          /\ i \in Items /\ p \in Pools
          /\ free'[p] = Append(free[p], i)
          /\ \A q \in Pools : q # p => free'[q] = free[q]
          /\ \A u \in Threads : u # t => deleter'[u] = deleter[u]
      BY <1>8, Busy DEF PutBack, PoolTypeOK, Returning
    <2>2. i \in Entering /\ i \notin Stored
      BY <2>1 DEF Entering, ItemInOnePlace
    <2>3. \A u \in Threads : u # t /\ Returning(u) => deleter[u].item # i
      BY <2>1 DEF ItemInOnePlace
    <2> HIDE DEF i, p
    <2>4. \A q \in Pools : i \notin Held(free[q])
      BY <2>2, StoredIs
    <2>5. Held(free'[p]) = Held(free[p]) \cup {i} /\ Once(free'[p])
      BY <2>1, <2>4, AppendHeld DEF PoolTypeOK, ItemInOnePlace
    <2>6. Stored' = Stored \cup {i}
      BY <2>1, <2>5 DEF Stored
    <2>7. Entering' = Entering \ {i}
      <3>1. \A u \in Threads : Returning(u)' <=> Returning(u) /\ u # t
        BY <2>1 DEF Returning
      <3>2. \A u \in Threads : u # t => deleter'[u].item = deleter[u].item
        BY <2>1
      <3>3. deleter[t].item = i
        BY DEF i
      <3> QED
        BY <2>3, <3>1, <3>2, <3>3 DEF Entering
    <2>8. \A q, r \in Pools : q # r => Held(free'[q]) \cap Held(free'[r]) = {}
      BY <2>1, <2>4, <2>5, StayApart
    <2>9. \A q \in Pools : Once(free'[q])
      BY <2>1, <2>5 DEF ItemInOnePlace
    <2>10. \A u, v \in Threads : u # v /\ Returning(u)' /\ Returning(v)'
                                   => deleter'[u].item # deleter'[v].item
      BY <2>1 DEF ItemInOnePlace, Returning
    <2>11. /\ Items = fresh' \cup Stored' \cup out' \cup Entering' \cup deleted'
           /\ fresh' \cap (Stored' \cup out' \cup Entering' \cup deleted') = {}
           /\ Stored' \cap (out' \cup Entering' \cup deleted') = {}
           /\ out' \cap (Entering' \cup deleted') = {}
           /\ Entering' \cap deleted' = {}
      BY <2>1, <2>2, <2>6, <2>7 DEF ItemInOnePlace
    <2> QED
      BY <2>8, <2>9, <2>10, <2>11 DEF ItemInOnePlace
  <1>9. ASSUME NEW t \in Threads, LetGo(t)
        PROVE  ItemInOnePlace'
    <2>1. /\ UNCHANGED <<free, fresh, out, deleted>> /\ ~Returning(t) /\ ~Returning(t)'
          /\ \A u \in Threads : u # t => deleter'[u] = deleter[u]
      BY <1>9, Busy DEF LetGo, PoolTypeOK, Returning, Idle
    <2> QED
      BY <1>4, <2>1 DEF Returning
  <1>10. ASSUME NEW t \in Threads, Destroy(t)
         PROVE  ItemInOnePlace'
    <2>1. /\ UNCHANGED <<fresh, out>> /\ ~Returning(t) /\ ~Returning(t)'
          /\ deleter[t].from \in Pools
          /\ deleted' = deleted \cup Held(free[deleter[t].from])
          /\ free'[deleter[t].from] = <<>>
          /\ \A q \in Pools : q # deleter[t].from => free'[q] = free[q]
          /\ \A u \in Threads : u # t => deleter'[u] = deleter[u]
      BY <1>10, Busy DEF Destroy, PoolTypeOK, Returning, Idle
    <2> QED
      BY <1>3, <2>1 DEF Returning
  <1> QED
    BY <1>1, <1>2, <1>5, <1>6, <1>7, <1>8, <1>9, <1>10 DEF Next, Caller, Alloc, AllocWakes

-----------------------------------------------------------------------------
(* Theorems *)

\* What the deleters and the owner hold implies that none comes back.
LEMMA GoneForGood ==
    ASSUME PoolTypeOK, Deleters
    PROVE  NoneComesBack
  <1> SUFFICES ASSUME NEW p \in Pools, Gone(p)
               PROVE  /\ owners[p] = {}
                      /\ \A t \in Threads : deleter[t].from = p => deleter[t].at = "destroy"
                      /\ free[p] # <<>> => \E t \in Threads : deleter[t].from = p
    BY DEF NoneComesBack
  <1>1. owners[p] = {} /\ p # pool
    BY DEF Deleters, GoneIsLeft, OwnerHasPool
  <1>2. ASSUME NEW t \in Threads, deleter[t].from = p
        PROVE  deleter[t].at = "destroy"
    BY <1>1, <1>2, Busy DEF Deleters, HoldersAreAtWork
  <1> QED
    BY <1>1, <1>2 DEF Deleters, LeftIsEmptied

\* The variables of a pool have their types, and an item handed out knows its pool (MfxPool).
THEOREM PoolTypeCorrect == ASSUME PoolConstants PROVE Spec => []PoolTypeOK
  <1>1. ASSUME PoolTypeOK, [Next]_poolVars PROVE PoolTypeOK'
    BY <1>1, TypeStep DEF poolVars, PoolTypeOK
  <1> QED
    BY TypeInit, <1>1, PTL DEF Spec

\* However the threads that release items interleave with the destruction of pools by Reset, an
\* item is in one place, none is lost, and none enters a pool whose destructor has returned.
THEOREM PoolKeepsItems == ASSUME PoolConstants PROVE Spec => []PoolItemsKept
  <1> DEFINE Inv == PoolTypeOK /\ Deleters /\ ItemInOnePlace
  <1>1. Init => Inv
    BY TypeInit, DeletersInit, PlaceInit
  <1>2. ASSUME Inv, [Next]_poolVars PROVE Inv'
    <2>1. CASE Next
      BY <1>2, <2>1, TypeStep, DeletersStep, PlaceStep
    <2>2. CASE UNCHANGED poolVars
      <3>1. PoolTypeOK'
        BY <1>2, <2>2 DEF poolVars, PoolTypeOK
      <3>2. Deleters'
        BY <1>2, <2>2 DEF poolVars, Deleters, OwnerHasPool, HoldersAreAtWork, DestroyedIsLeft,
                          GoneIsLeft, LeftIsEmptied, Gone
      <3>3. ItemInOnePlace'
        BY <1>2, <2>2 DEF poolVars, ItemInOnePlace, Stored, Entering, Returning
      <3> QED
        BY <3>1, <3>2, <3>3
    <2> QED
      BY <1>2, <2>1, <2>2
  <1>3. Inv => PoolItemsKept
    BY GoneForGood DEF PoolItemsKept
  <1> QED
    BY <1>1, <1>2, <1>3, PTL DEF Spec

=============================================================================
