------------------------------- MODULE MfxPool -------------------------------
(***************************************************************************)
(* MfxPool (c2_utils/include/mfx_pool.h) as MfxVaFramePoolAllocator        *)
(* (c2_utils/src/mfx_va_frame_pool_allocator.cpp) uses it.                 *)
(*                                                                         *)
(* One thread, the decoder's working thread, calls Append, Alloc and Reset *)
(* (Reset makes a new pool and destroys the old one); the items Alloc gave *)
(* away are released by any thread, at any time.  The deleter of an item   *)
(* holds the pool only weakly: it puts the item back if the pool is still  *)
(* there and deletes it if not.  The pool itself is reference counted, by  *)
(* its owner and by the deleters at work, and the body of its destructor   *)
(* fulfils the promise that ~MfxPool waits for.                            *)
(***************************************************************************)
EXTENDS Naturals, Sequences

CONSTANTS Items,     \* the resources
          Threads,   \* the threads that release them
          NoItem,    \* no item
          MaxPools   \* bound: pools made, one and one more for each Reset

VARIABLES
  pool,     \* the pool m_pool owns; the older ones are gone or going
  owners,   \* per pool, who holds a shared_ptr to its MfxPoolImpl
  free,     \* per pool, m_free
  home,     \* per item, the pool its deleter refers to (weak_this), 0 if it has none
  fresh,    \* items not yet appended
  out,      \* items that were handed out
  deleted,  \* items that were destroyed
  caller,   \* the working thread: "idle", "alloc" (waiting for an item), "reset"
  deleter   \* per thread, the item its deleter holds and where it is in it
poolVars == <<pool, owners, free, home, fresh, out, deleted, caller, deleter>>

Pools == 1 .. MaxPools
Owner == "owner"
Idle == [at |-> "idle", item |-> NoItem, from |-> 0]
Alive(p) == owners[p] # {}

Init == /\ pool = 1
        /\ owners = [p \in Pools |-> IF p = 1 THEN {Owner} ELSE {}]
        /\ free = [p \in Pools |-> <<>>]
        /\ home = [i \in Items |-> 0]
        /\ fresh = Items /\ out = {} /\ deleted = {}
        /\ caller = "idle"
        /\ deleter = [t \in Threads |-> Idle]

Held(q) == { q[k] : k \in DOMAIN q }
Once(q) == \A j, k \in DOMAIN q : q[j] = q[k] => j = k

-----------------------------------------------------------------------------
(* The working thread *)

AppendItem(i) == /\ caller = "idle" /\ i \in fresh
                 /\ fresh' = fresh \ {i}
                 /\ free' = [free EXCEPT ![pool] = Append(@, i)]
                 /\ UNCHANGED <<pool, owners, home, out, deleted, caller, deleter>>

\* Take the first free item and give it a deleter.
Take == /\ free[pool] # <<>>
        /\ out' = out \cup {Head(free[pool])}
        /\ home' = [home EXCEPT ![Head(free[pool])] = pool]
        /\ free' = [free EXCEPT ![pool] = Tail(@)]
        /\ caller' = "idle"
        /\ UNCHANGED <<pool, owners, fresh, deleted, deleter>>

Alloc == caller = "idle" /\ Take

\* wait_for on m_condition: woken with an item, or one second has passed without.
AllocWaits == /\ caller = "idle" /\ free[pool] = <<>>
              /\ caller' = "alloc"
              /\ UNCHANGED <<pool, owners, free, home, fresh, out, deleted, deleter>>
AllocWakes == caller = "alloc" /\ Take
AllocTimesOut == /\ caller = "alloc" /\ free[pool] = <<>>
                 /\ caller' = "idle"
                 /\ UNCHANGED <<pool, owners, free, home, fresh, out, deleted, deleter>>

\* MfxVaFramePoolAllocator::Reset: m_pool becomes a new pool, and ~MfxPool of the old one
\* lets go of it and waits for its destruction.
Reset == /\ caller = "idle" /\ pool < MaxPools
         /\ pool' = pool + 1
         /\ owners' = [owners EXCEPT ![pool] = @ \ {Owner}, ![pool + 1] = {Owner}]
         /\ IF owners[pool] = {Owner}
            THEN /\ deleted' = deleted \cup Held(free[pool])
                 /\ free' = [free EXCEPT ![pool] = <<>>]
            ELSE UNCHANGED <<deleted, free>>
         /\ caller' = "reset"
         /\ UNCHANGED <<home, fresh, out, deleter>>

\* Slip: the destructor does not wait.
ResetEndsEarly == /\ caller = "reset"
                  /\ caller' = "idle"
                  /\ UNCHANGED <<pool, owners, free, home, fresh, out, deleted, deleter>>

ResetEnds == /\ caller = "reset"
             /\ ~Alive(pool - 1)
             /\ caller' = "idle"
             /\ UNCHANGED <<pool, owners, free, home, fresh, out, deleted, deleter>>

-----------------------------------------------------------------------------
(* The deleter of an item, on the thread that drops the last reference to it *)

\* weak_this.lock()
Release(t, i) ==
    /\ deleter[t] = Idle /\ i \in out
    /\ out' = out \ {i}
    /\ IF Alive(home[i])
       THEN /\ owners' = [owners EXCEPT ![home[i]] = @ \cup {t}]
            /\ deleter' = [deleter EXCEPT ![t] = [at |-> "append", item |-> i,
                                                        from |-> home[i]]]
            /\ UNCHANGED deleted
       ELSE /\ deleted' = deleted \cup {i}
            /\ UNCHANGED <<owners, deleter>>
    /\ UNCHANGED <<pool, free, home, fresh, caller>>

PutBack(t) == /\ deleter[t].at = "append"
              /\ free' = [free EXCEPT ![deleter[t].from] = Append(@, deleter[t].item)]
              /\ deleter' = [deleter EXCEPT ![t].at = "drop"]
              /\ UNCHANGED <<pool, owners, home, fresh, out, deleted, caller>>

\* The deleter drops its reference; if it is the last one, ~MfxPoolImpl begins here, by
\* fulfilling the promise.
LetGo(t) ==
    /\ deleter[t].at = "drop"
    /\ owners' = [owners EXCEPT ![deleter[t].from] = @ \ {t}]
    /\ deleter' = [deleter EXCEPT ![t] = IF owners[deleter[t].from] = {t}
                                        THEN [@ EXCEPT !.at = "destroy"] ELSE Idle]
    /\ UNCHANGED <<pool, free, home, fresh, out, deleted, caller>>

\* The members are destroyed after the body of ~MfxPoolImpl, the free items among them.
Destroy(t) ==
    /\ deleter[t].at = "destroy"
    /\ deleted' = deleted \cup Held(free[deleter[t].from])
    /\ free' = [free EXCEPT ![deleter[t].from] = <<>>]
    /\ deleter' = [deleter EXCEPT ![t] = Idle]
    /\ UNCHANGED <<pool, owners, home, fresh, out, caller>>

-----------------------------------------------------------------------------

Caller == \/ \E i \in Items : AppendItem(i)
          \/ Alloc \/ AllocWaits \/ AllocWakes \/ AllocTimesOut
          \/ Reset \/ ResetEnds
Next == \/ Caller
        \/ \E t \in Threads : (\E i \in Items : Release(t, i)) \/ PutBack(t) \/ LetGo(t) \/ Destroy(t)

Spec == Init /\ [][Next]_poolVars

-----------------------------------------------------------------------------
(* Properties *)

\* The items a pool has, or is about to have.
Returning(t) == deleter[t].at = "append"
Entering == { deleter[t].item : t \in { u \in Threads : Returning(u) } }
Stored == UNION { Held(free[p]) : p \in Pools }

PoolTypeOK ==
    /\ pool \in Pools /\ caller \in {"idle", "alloc", "reset"}
    /\ owners \in [Pools -> SUBSET ({Owner} \cup Threads)]
    /\ free \in [Pools -> Seq(Items)]
    /\ home \in [Items -> 0 .. MaxPools] /\ \A i \in out : home[i] # 0
    /\ fresh \subseteq Items /\ out \subseteq Items /\ deleted \subseteq Items
    /\ deleter \in [Threads -> {Idle} \cup [at : {"append", "drop", "destroy"},
                                            item : Items, from : Pools]]

\* An item is in one place only: not yet appended, free in one pool, handed out, on its
\* way back, or deleted (Alloc, the deleter, ~MfxPoolImpl).  None is lost.
ItemInOnePlace ==
    /\ Items = fresh \cup Stored \cup out \cup Entering \cup deleted
    /\ fresh \cap (Stored \cup out \cup Entering \cup deleted) = {}
    /\ Stored \cap (out \cup Entering \cup deleted) = {}
    /\ out \cap (Entering \cup deleted) = {}
    /\ Entering \cap deleted = {}
    /\ \A p, q \in Pools : p # q => Held(free[p]) \cap Held(free[q]) = {}
    /\ \A p \in Pools : Once(free[p])
    /\ \A t, u \in Threads : t # u /\ Returning(t) /\ Returning(u)
                                => deleter[t].item # deleter[u].item

Gone(p) == p < pool /\ ~(caller = "reset" /\ p = pool - 1)

\* When the destructor of a pool has returned no deleter will put an item into it any more,
\* and the items it had are deleted, or being deleted by the thread that let go of it last
\* (~MfxPool, weak_this.lock()).
NoneComesBack ==
    \A p \in Pools : Gone(p) =>
        /\ owners[p] = {}
        /\ \A t \in Threads : deleter[t].from = p => deleter[t].at = "destroy"
        /\ free[p] # <<>> => \E t \in Threads : deleter[t].from = p

\* However deleters and Reset interleave, an item is in one place, and none enters a pool whose
\* destructor has returned (MfxPool, MfxVaFramePoolAllocator::Reset).
PoolItemsKept == ItemInOnePlace /\ NoneComesBack
=============================================================================
