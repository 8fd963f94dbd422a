------------------------------ MODULE WorkLists ------------------------------
(***************************************************************************)
(* Facts about lists of records that carry a work, and about works that    *)
(* are spread over places: what the proofs about the decoder and the       *)
(* encoder share.  A list is a command queue or the list of the works      *)
(* given back; work 0 is no work.  And facts about numbers, for what the   *)
(* loops over a stream compute.                                            *)
(***************************************************************************)
EXTENDS Integers, Sequences, FiniteSets, FunctionTheorems, FiniteSetTheorems,
        WellFoundedInduction, TLAPS

\* The works a list carries, and that none is in it twice.
Carried(list) == { list[i].work : i \in DOMAIN list } \ {0}
CarriedOnce(list) ==
    \A i, j \in DOMAIN list : list[i].work = list[j].work /\ list[i].work # 0 => i = j

\* Pushing a record adds its work.
LEMMA CarriedAppend ==
    ASSUME NEW S, NEW q \in Seq(S), NEW c \in S
    PROVE  /\ Append(q, c) \in Seq(S)
           /\ Carried(Append(q, c)) = Carried(q) \cup ({c.work} \ {0})
           /\ CarriedOnce(q) /\ c.work \notin Carried(q) => CarriedOnce(Append(q, c))
  <1>1. /\ Append(q, c) \in Seq(S)
        /\ DOMAIN Append(q, c) = DOMAIN q \cup {Len(q) + 1}
        /\ Append(q, c)[Len(q) + 1] = c
        /\ \A k \in DOMAIN q : Append(q, c)[k] = q[k]
    OBVIOUS
  <1>2. Carried(Append(q, c)) = Carried(q) \cup ({c.work} \ {0})
    BY <1>1 DEF Carried
  <1>3. ASSUME CarriedOnce(q), c.work \notin Carried(q)
        PROVE  CarriedOnce(Append(q, c))
    BY <1>1, <1>3 DEF CarriedOnce, Carried
  <1> QED
    BY <1>1, <1>2, <1>3

\* Popping the head takes its work out.
LEMMA CarriedTail ==
    ASSUME NEW S, NEW q \in Seq(S), q # <<>>
    PROVE  /\ Tail(q) \in Seq(S)
           /\ Head(q) \in S
           /\ Carried(q) = Carried(Tail(q)) \cup ({Head(q).work} \ {0})
           /\ CarriedOnce(q) => CarriedOnce(Tail(q)) /\ Head(q).work \notin Carried(Tail(q))
  <1>1. /\ Tail(q) \in Seq(S) /\ Head(q) \in S
        /\ Len(q) \in Nat /\ Len(q) > 0
        /\ DOMAIN q = 1 .. Len(q)
        /\ DOMAIN Tail(q) = 1 .. Len(q) - 1
        /\ Head(q) = q[1]
        /\ \A k \in DOMAIN Tail(q) : Tail(q)[k] = q[k + 1]
    OBVIOUS
  <1>2. Carried(q) \subseteq Carried(Tail(q)) \cup ({Head(q).work} \ {0})
    <2> SUFFICES ASSUME NEW k \in DOMAIN q, q[k].work # 0
                 PROVE  q[k].work \in Carried(Tail(q)) \cup ({Head(q).work} \ {0})
      BY DEF Carried
    <2>1. CASE k = 1
      BY <1>1, <2>1
    <2>2. CASE k # 1
      <3>1. k - 1 \in DOMAIN Tail(q) /\ Tail(q)[k - 1] = q[k]
        BY <1>1, <2>2
      <3> QED
        BY <3>1 DEF Carried
    <2> QED
      BY <2>1, <2>2
  <1>3. Carried(Tail(q)) \cup ({Head(q).work} \ {0}) \subseteq Carried(q)
    BY <1>1 DEF Carried
  <1>4. ASSUME CarriedOnce(q)
        PROVE  CarriedOnce(Tail(q)) /\ Head(q).work \notin Carried(Tail(q))
    BY <1>1, <1>4 DEF CarriedOnce, Carried
  <1> QED
    BY <1>1, <1>2, <1>3, <1>4

\* Popping the head leaves the last one, unless the head is the last.
LEMMA LastOfTail ==
    ASSUME NEW S, NEW q \in Seq(S), q # <<>>
    PROVE  /\ Len(q) \in Nat /\ Len(q) > 0
           /\ Tail(q) = <<>> => Len(q) = 1 /\ Head(q) = q[Len(q)]
           /\ Tail(q) # <<>> => Len(Tail(q)) > 0 /\ Tail(q)[Len(Tail(q))] = q[Len(q)]
  <1>1. /\ Tail(q) \in Seq(S)
        /\ Len(q) \in Nat /\ Len(q) > 0 /\ Head(q) = q[1]
        /\ Len(Tail(q)) = Len(q) - 1
        /\ \A k \in 1 .. Len(q) - 1 : Tail(q)[k] = q[k + 1]
    OBVIOUS
  <1>2. CASE Tail(q) = <<>>
    <2>1. Len(<<>>) = 0
      OBVIOUS
    <2>2. Len(q) = 1
      BY <1>1, <1>2, <2>1
    <2> QED
      BY <1>1, <1>2, <2>2
  <1>3. CASE Tail(q) # <<>>
    <2>1. Len(q) > 1
      BY <1>1, <1>3
    <2>2. Len(q) - 1 \in 1 .. Len(q) - 1
      BY <1>1, <2>1
    <2> QED
      BY <1>1, <1>3, <2>1, <2>2
  <1> QED
    BY <1>1, <1>2, <1>3

\* Two lists joined carry the works of both.
LEMMA CarriedConcat ==
    ASSUME NEW S, NEW q \in Seq(S), NEW r \in Seq(S)
    PROVE  /\ q \o r \in Seq(S)
           /\ Carried(q \o r) = Carried(q) \cup Carried(r)
           /\ CarriedOnce(q) /\ CarriedOnce(r) /\ Carried(q) \cap Carried(r) = {}
                => CarriedOnce(q \o r)
  <1> DEFINE s == q \o r
  <1>1. /\ s \in Seq(S) /\ Len(s) = Len(q) + Len(r)
        /\ Len(q) \in Nat /\ Len(r) \in Nat
        /\ DOMAIN q = 1 .. Len(q) /\ DOMAIN r = 1 .. Len(r) /\ DOMAIN s = 1 .. Len(s)
        /\ \A k \in DOMAIN q : s[k] = q[k]
        /\ \A k \in DOMAIN r : s[k + Len(q)] = r[k]
    OBVIOUS
  <1>2. \A k \in DOMAIN s : k \notin DOMAIN q => k - Len(q) \in DOMAIN r /\ s[k] = r[k - Len(q)]
    BY <1>1
  <1>3. \A k \in DOMAIN q : k \in DOMAIN s
    BY <1>1
  <1>4. \A k \in DOMAIN r : k + Len(q) \in DOMAIN s
    BY <1>1
  <1> HIDE DEF s
  <1>5. Carried(s) \subseteq Carried(q) \cup Carried(r)
    BY <1>1, <1>2 DEF Carried
  <1>6. Carried(q) \cup Carried(r) \subseteq Carried(s)
    BY <1>1, <1>3, <1>4 DEF Carried
  <1>7. ASSUME CarriedOnce(q), CarriedOnce(r), Carried(q) \cap Carried(r) = {},
               NEW i \in DOMAIN s, NEW j \in DOMAIN s, s[i].work = s[j].work, s[i].work # 0
        PROVE  i = j
    <2>1. CASE i \in DOMAIN q /\ j \in DOMAIN q
      BY <1>1, <1>7, <2>1 DEF CarriedOnce
    <2>2. CASE i \notin DOMAIN q /\ j \notin DOMAIN q
      <3>1. i - Len(q) = j - Len(q)
        BY <1>2, <1>7, <2>2 DEF CarriedOnce
      <3> QED
        BY <1>1, <3>1
    <2>3. CASE i \in DOMAIN q /\ j \notin DOMAIN q
      BY <1>1, <1>2, <1>7, <2>3 DEF Carried
    <2>4. CASE i \notin DOMAIN q /\ j \in DOMAIN q
      BY <1>1, <1>2, <1>7, <2>4 DEF Carried
    <2> QED
      BY <2>1, <2>2, <2>3, <2>4
  <1>8. CarriedOnce(q) /\ CarriedOnce(r) /\ Carried(q) \cap Carried(r) = {} => CarriedOnce(s)
    BY <1>7 DEF CarriedOnce
  <1> QED
    BY <1>1, <1>5, <1>6, <1>8 DEF s

\* A list without repetition and without the work 0 is as long as it has works.
LEMMA CarriedCount ==
    ASSUME NEW S, NEW q \in Seq(S), CarriedOnce(q), \A i \in DOMAIN q : q[i].work # 0
    PROVE  /\ IsFiniteSet(Carried(q))
           /\ Cardinality(Carried(q)) = Len(q)
  <1> DEFINE f == [i \in 1 .. Len(q) |-> q[i].work]
  <1>1. Len(q) \in Nat /\ DOMAIN q = 1 .. Len(q)
    OBVIOUS
  <1>2. f \in Bijection(1 .. Len(q), Carried(q))
    <2>1. f \in [1 .. Len(q) -> Carried(q)]
      BY <1>1 DEF Carried
    <2>2. \A i, j \in 1 .. Len(q) : f[i] = f[j] => i = j
      BY <1>1 DEF CarriedOnce
    <2>3. \A w \in Carried(q) : \E i \in 1 .. Len(q) : f[i] = w
      BY <1>1 DEF Carried
    <2> QED
      BY <2>1, <2>2, <2>3 DEF Bijection, Injection, Surjection, IsInjective
  <1>3. ExistsBijection(1 .. Len(q), Carried(q))
    BY <1>2 DEF ExistsBijection
  <1>4. IsFiniteSet(1 .. Len(q)) /\ Cardinality(1 .. Len(q)) = Len(q)
    <2>1. 1 \in Int /\ Len(q) \in Int
      BY <1>1
    <2>2. IsFiniteSet(1 .. Len(q))
          /\ Cardinality(1 .. Len(q)) = IF 1 > Len(q) THEN 0 ELSE Len(q) - 1 + 1
      BY <2>1, FS_Interval
    <2> QED
      BY <1>1, <2>2
  <1> QED
    BY <1>3, <1>4, FS_Bijection

-----------------------------------------------------------------------------
(* Lists of works *)

\* The works of a list, and that none is in it twice.
Listed(list) == { list[i] : i \in DOMAIN list }
ListedOnce(list) == \A i, j \in DOMAIN list : list[i] = list[j] => i = j

LEMMA ListedAppend ==
    ASSUME NEW S, NEW q \in Seq(S), NEW w \in S
    PROVE  /\ Append(q, w) \in Seq(S)
           /\ Listed(Append(q, w)) = Listed(q) \cup {w}
           /\ ListedOnce(q) /\ w \notin Listed(q) => ListedOnce(Append(q, w))
  <1>1. /\ Append(q, w) \in Seq(S)
        /\ DOMAIN Append(q, w) = DOMAIN q \cup {Len(q) + 1}
        /\ Append(q, w)[Len(q) + 1] = w
        /\ \A k \in DOMAIN q : Append(q, w)[k] = q[k]
    OBVIOUS
  <1>2. Listed(Append(q, w)) = Listed(q) \cup {w}
    BY <1>1 DEF Listed
  <1>3. ASSUME ListedOnce(q), w \notin Listed(q)
        PROVE  ListedOnce(Append(q, w))
    BY <1>1, <1>3 DEF ListedOnce, Listed
  <1> QED
    BY <1>1, <1>2, <1>3

LEMMA ListedTail ==
    ASSUME NEW S, NEW q \in Seq(S), q # <<>>
    PROVE  /\ Tail(q) \in Seq(S)
           /\ Head(q) \in S
           /\ Listed(q) = Listed(Tail(q)) \cup {Head(q)}
           /\ ListedOnce(q) => ListedOnce(Tail(q)) /\ Head(q) \notin Listed(Tail(q))
  <1>1. /\ Tail(q) \in Seq(S) /\ Head(q) \in S
        /\ Len(q) \in Nat /\ Len(q) > 0
        /\ DOMAIN q = 1 .. Len(q)
        /\ DOMAIN Tail(q) = 1 .. Len(q) - 1
        /\ Head(q) = q[1]
        /\ \A k \in DOMAIN Tail(q) : Tail(q)[k] = q[k + 1]
    OBVIOUS
  <1>2. \A k \in DOMAIN q : k # 1 => k - 1 \in DOMAIN Tail(q) /\ Tail(q)[k - 1] = q[k]
    BY <1>1
  <1>3. \A k \in DOMAIN Tail(q) : k + 1 \in DOMAIN q
    BY <1>1
  <1>4. Listed(q) = Listed(Tail(q)) \cup {Head(q)}
    <2>1. \A k \in DOMAIN q : q[k] \in Listed(Tail(q)) \cup {Head(q)}
      BY <1>1, <1>2 DEF Listed
    <2>2. Listed(Tail(q)) \cup {Head(q)} \subseteq Listed(q)
      BY <1>1, <1>3 DEF Listed
    <2> QED
      BY <2>1, <2>2 DEF Listed
  <1>5. ASSUME ListedOnce(q)
        PROVE  ListedOnce(Tail(q)) /\ Head(q) \notin Listed(Tail(q))
    BY <1>1, <1>3, <1>5 DEF ListedOnce, Listed
  <1> QED
    BY <1>1, <1>4, <1>5

-----------------------------------------------------------------------------
(* Places: a sequence of sets of works *)

\* The works that are anywhere, and that no work is in two places.
Everywhere(P) == UNION { P[i] : i \in DOMAIN P }
Apart(P) == \A i, j \in DOMAIN P : i # j => P[i] \cap P[j] = {}

\* Works that go from one place to another are still in one place.
LEMMA Moved ==
    ASSUME NEW P, NEW Q, DOMAIN Q = DOMAIN P, Apart(P),
           NEW a \in DOMAIN P, NEW b \in DOMAIN P, a # b,
           Q[a] \subseteq P[a], Q[b] = P[b] \cup (P[a] \ Q[a]),
           \A i \in DOMAIN P : i # a /\ i # b => Q[i] = P[i]
    PROVE  Everywhere(Q) = Everywhere(P) /\ Apart(Q)
  <1>1. Everywhere(Q) \subseteq Everywhere(P)
    <2> SUFFICES ASSUME NEW i \in DOMAIN P, NEW w \in Q[i]
                 PROVE  \E j \in DOMAIN P : w \in P[j]
      BY DEF Everywhere
    <2> QED
      OBVIOUS
  <1>2. Everywhere(P) \subseteq Everywhere(Q)
    <2> SUFFICES ASSUME NEW i \in DOMAIN P, NEW w \in P[i]
                 PROVE  \E j \in DOMAIN P : w \in Q[j]
      BY DEF Everywhere
    <2> QED
      OBVIOUS
  <1>3. Apart(Q)
    <2> SUFFICES ASSUME NEW i \in DOMAIN P, NEW j \in DOMAIN P, i # j,
                        NEW w, w \in Q[i], w \in Q[j]
                 PROVE  FALSE
      BY DEF Apart
    <2>1. \A k, l \in DOMAIN P : w \in P[k] /\ w \in P[l] => k = l
      BY DEF Apart
    <2> QED
      BY <2>1
  <1> QED
    BY <1>1, <1>2, <1>3

\* A new work is in the place it is put in.
LEMMA Placed ==
    ASSUME NEW P, NEW Q, DOMAIN Q = DOMAIN P, Apart(P),
           NEW a \in DOMAIN P, NEW w, w \notin Everywhere(P),
           Q[a] = P[a] \cup {w},
           \A i \in DOMAIN P : i # a => Q[i] = P[i]
    PROVE  Everywhere(Q) = Everywhere(P) \cup {w} /\ Apart(Q)
  <1>1. \A i \in DOMAIN P : w \notin P[i]
    BY DEF Everywhere
  <1>2. Everywhere(Q) = Everywhere(P) \cup {w}
    BY DEF Everywhere
  <1>3. Apart(Q)
    <2> SUFFICES ASSUME NEW i \in DOMAIN P, NEW j \in DOMAIN P, i # j,
                        NEW v, v \in Q[i], v \in Q[j]
                 PROVE  FALSE
      BY DEF Apart
    <2>1. \A k, l \in DOMAIN P : v \in P[k] /\ v \in P[l] => k = l
      BY DEF Apart
    <2> QED
      BY <1>1, <2>1
  <1> QED
    BY <1>2, <1>3

-----------------------------------------------------------------------------
(* Null commands: n is in a list nowhere, or only as the last of it *)

Never(n, list) == \A i \in DOMAIN list : list[i] # n
OnlyLast(n, list) == list # <<>> /\ \A i \in DOMAIN list : list[i] = n <=> i = Len(list)

LEMMA NeverAppend ==
    ASSUME NEW S, NEW n, NEW q \in Seq(S \cup {n})
    PROVE  /\ \A c \in S : Never(n, q) /\ c # n => Never(n, Append(q, c))
           /\ Never(n, q) => OnlyLast(n, Append(q, n))
           /\ Never(n, <<>>) /\ OnlyLast(n, <<n>>)
  <1>1. ASSUME NEW c \in S \cup {n}
        PROVE  /\ DOMAIN Append(q, c) = DOMAIN q \cup {Len(q) + 1}
               /\ Len(Append(q, c)) = Len(q) + 1 /\ Append(q, c) # <<>>
               /\ Append(q, c)[Len(q) + 1] = c
               /\ \A k \in DOMAIN q : Append(q, c)[k] = q[k] /\ k # Len(q) + 1
    OBVIOUS
  <1>2. \A c \in S : Never(n, q) /\ c # n => Never(n, Append(q, c))
    BY <1>1 DEF Never
  <1>3. Never(n, q) => OnlyLast(n, Append(q, n))
    BY <1>1 DEF Never, OnlyLast
  <1>4. Never(n, <<>>)
    BY DEF Never
  <1>5. OnlyLast(n, <<n>>)
    <2>1. DOMAIN <<n>> = {1} /\ Len(<<n>>) = 1 /\ <<n>>[1] = n /\ <<n>> # <<>>
      OBVIOUS
    <2> QED
      BY <2>1 DEF OnlyLast
  <1> QED
    BY <1>2, <1>3, <1>4, <1>5

LEMMA NeverTail ==
    ASSUME NEW S, NEW n, NEW q \in Seq(S), q # <<>>
    PROVE  /\ Never(n, q) => Head(q) # n /\ Never(n, Tail(q))
           /\ OnlyLast(n, q) => \/ Head(q) = n /\ Tail(q) = <<>>
                                \/ Head(q) # n /\ OnlyLast(n, Tail(q))
  <1>1. /\ Len(q) \in Nat /\ Len(q) > 0 /\ DOMAIN q = 1 .. Len(q)
        /\ Tail(q) \in Seq(S) /\ Len(Tail(q)) = Len(q) - 1 /\ DOMAIN Tail(q) = 1 .. Len(q) - 1
        /\ Head(q) = q[1] /\ 1 \in DOMAIN q
        /\ \A k \in DOMAIN Tail(q) : Tail(q)[k] = q[k + 1] /\ k + 1 \in DOMAIN q
    OBVIOUS
  <1>2. Never(n, q) => Head(q) # n /\ Never(n, Tail(q))
    BY <1>1 DEF Never
  <1>3. ASSUME OnlyLast(n, q), Len(q) = 1
        PROVE  Head(q) = n /\ Tail(q) = <<>>
    <2>1. Head(q) = n
      BY <1>1, <1>3 DEF OnlyLast
    <2>2. Len(Tail(q)) = 0
      BY <1>1, <1>3
    <2>3. \A s \in Seq(S) : Len(s) = 0 => s = <<>>
      OBVIOUS
    <2> QED
      BY <1>1, <2>1, <2>2, <2>3
  <1>4. ASSUME OnlyLast(n, q), Len(q) # 1
        PROVE  Head(q) # n /\ OnlyLast(n, Tail(q))
    <2>1. Head(q) # n
      BY <1>1, <1>4 DEF OnlyLast
    <2>2. Tail(q) # <<>>
      <3>1. Len(Tail(q)) # 0
        BY <1>1, <1>4
      <3>2. Len(<<>>) = 0
        OBVIOUS
      <3> QED
        BY <3>1, <3>2
    <2>3. ASSUME NEW k \in DOMAIN Tail(q)
          PROVE  Tail(q)[k] = n <=> k = Len(Tail(q))
      <3>1. q[k + 1] = n <=> k + 1 = Len(q)
        BY <1>1, <1>4 DEF OnlyLast
      <3>2. k + 1 = Len(q) <=> k = Len(Tail(q))
        BY <1>1
      <3> QED
        BY <1>1, <3>1, <3>2
    <2> QED
      BY <2>1, <2>2, <2>3 DEF OnlyLast
  <1>5. OnlyLast(n, q) => \/ Head(q) = n /\ Tail(q) = <<>>
                          \/ Head(q) # n /\ OnlyLast(n, Tail(q))
    <2>1. CASE Len(q) = 1
      BY <1>3, <2>1, Zenon
    <2>2. CASE Len(q) # 1
      BY <1>4, <2>2, Zenon
    <2> QED
      BY <2>1, <2>2
  <1> QED
    BY <1>2, <1>5, Zenon

-----------------------------------------------------------------------------
(* Order: works that follow each other *)

\* The works of a list get larger from its head to its end.
Rising(list) ==
    \A i, j \in DOMAIN list :
        i < j /\ list[i].work # 0 /\ list[j].work # 0 => list[i].work < list[j].work
ListRising(list) == \A i, j \in DOMAIN list : i < j => list[i] < list[j]

LEMMA RisingAppend ==
    ASSUME NEW S, NEW q \in Seq(S), NEW c \in S, Rising(q), \A w \in Carried(q) : w < c.work
    PROVE  Rising(Append(q, c))
  <1>1. /\ DOMAIN Append(q, c) = 1 .. Len(q) + 1 /\ DOMAIN q = 1 .. Len(q) /\ Len(q) \in Nat
        /\ Append(q, c)[Len(q) + 1] = c
        /\ \A k \in DOMAIN q : Append(q, c)[k] = q[k]
    OBVIOUS
  <1> DEFINE r == Append(q, c)
  <1> SUFFICES ASSUME NEW i \in DOMAIN r, NEW j \in DOMAIN r, i < j, r[i].work # 0, r[j].work # 0
               PROVE  r[i].work < r[j].work
    BY DEF Rising
  <1>2. i \in DOMAIN q /\ r[i] = q[i]
    BY <1>1
  <1>3. CASE j \in DOMAIN q
    <2>1. r[j] = q[j]
      BY <1>1, <1>3
    <2> QED
      BY <1>2, <1>3, <2>1 DEF Rising
  <1>4. CASE j = Len(q) + 1
    <2>1. q[i].work \in Carried(q)
      BY <1>2 DEF Carried
    <2> QED
      BY <1>1, <1>2, <1>4, <2>1
  <1> QED
    BY <1>1, <1>3, <1>4

\* A record without a work can be anywhere.
LEMMA RisingAppendNothing ==
    ASSUME NEW S, NEW q \in Seq(S), NEW c \in S, Rising(q), c.work = 0
    PROVE  Rising(Append(q, c))
  <1>1. /\ DOMAIN Append(q, c) = 1 .. Len(q) + 1 /\ DOMAIN q = 1 .. Len(q) /\ Len(q) \in Nat
        /\ Append(q, c)[Len(q) + 1] = c
        /\ \A k \in DOMAIN q : Append(q, c)[k] = q[k]
    OBVIOUS
  <1> DEFINE r == Append(q, c)
  <1> SUFFICES ASSUME NEW i \in DOMAIN r, NEW j \in DOMAIN r, i < j, r[i].work # 0, r[j].work # 0
               PROVE  r[i].work < r[j].work
    BY DEF Rising
  <1>2. i \in DOMAIN q /\ j \in DOMAIN q /\ r[i] = q[i] /\ r[j] = q[j]
    BY <1>1
  <1> QED
    BY <1>2 DEF Rising

\* The head is the smallest.
LEMMA RisingTail ==
    ASSUME NEW S, NEW q \in Seq(S), q # <<>>, Rising(q)
    PROVE  /\ Rising(Tail(q))
           /\ Head(q).work # 0 => \A w \in Carried(Tail(q)) : Head(q).work < w
  <1>1. /\ Len(q) \in Nat /\ Len(q) > 0 /\ DOMAIN q = 1 .. Len(q) /\ DOMAIN Tail(q) = 1 .. Len(q) - 1
        /\ Head(q) = q[1]
        /\ \A k \in DOMAIN Tail(q) : Tail(q)[k] = q[k + 1]
    OBVIOUS
  <1>2. \A k \in DOMAIN Tail(q) : k \in Nat /\ k > 0 /\ k + 1 \in DOMAIN q
    BY <1>1
  <1>3. Rising(Tail(q))
    <2> SUFFICES ASSUME NEW i \in DOMAIN Tail(q), NEW j \in DOMAIN Tail(q), i < j,
                        Tail(q)[i].work # 0, Tail(q)[j].work # 0
                 PROVE  Tail(q)[i].work < Tail(q)[j].work
      BY DEF Rising
    <2>1. i + 1 < j + 1 /\ Tail(q)[i] = q[i + 1] /\ Tail(q)[j] = q[j + 1]
      BY <1>1, <1>2
    <2> QED
      BY <1>2, <2>1 DEF Rising
  <1>4. ASSUME Head(q).work # 0, NEW k \in DOMAIN Tail(q), Tail(q)[k].work # 0
        PROVE  Head(q).work < Tail(q)[k].work
    <2>1. 1 < k + 1 /\ 1 \in DOMAIN q /\ Tail(q)[k] = q[k + 1]
      BY <1>1, <1>2
    <2> QED
      BY <1>1, <1>2, <1>4, <2>1 DEF Rising
  <1> QED
    BY <1>3, <1>4 DEF Carried

LEMMA ListRisingAppend ==
    ASSUME NEW S, NEW q \in Seq(S), NEW w \in S, ListRising(q), \A v \in Listed(q) : v < w
    PROVE  ListRising(Append(q, w))
  <1>1. /\ DOMAIN Append(q, w) = 1 .. Len(q) + 1 /\ DOMAIN q = 1 .. Len(q) /\ Len(q) \in Nat
        /\ Append(q, w)[Len(q) + 1] = w
        /\ \A k \in DOMAIN q : Append(q, w)[k] = q[k]
    OBVIOUS
  <1> DEFINE r == Append(q, w)
  <1> SUFFICES ASSUME NEW i \in DOMAIN r, NEW j \in DOMAIN r, i < j
               PROVE  r[i] < r[j]
    BY DEF ListRising
  <1>2. i \in DOMAIN q /\ r[i] = q[i]
    BY <1>1
  <1>3. CASE j \in DOMAIN q
    <2>1. r[j] = q[j]
      BY <1>1, <1>3
    <2> QED
      BY <1>2, <1>3, <2>1 DEF ListRising
  <1>4. CASE j = Len(q) + 1
    <2>1. q[i] \in Listed(q)
      BY <1>2 DEF Listed
    <2> QED
      BY <1>1, <1>2, <1>4, <2>1
  <1> QED
    BY <1>1, <1>3, <1>4

LEMMA ListRisingTail ==
    ASSUME NEW S, NEW q \in Seq(S), q # <<>>, ListRising(q)
    PROVE  ListRising(Tail(q)) /\ \A w \in Listed(Tail(q)) : Head(q) < w
  <1>1. /\ Len(q) \in Nat /\ Len(q) > 0 /\ DOMAIN q = 1 .. Len(q) /\ DOMAIN Tail(q) = 1 .. Len(q) - 1
        /\ Head(q) = q[1]
        /\ \A k \in DOMAIN Tail(q) : Tail(q)[k] = q[k + 1]
    OBVIOUS
  <1>2. \A k \in DOMAIN Tail(q) : k \in Nat /\ k > 0 /\ k + 1 \in DOMAIN q
    BY <1>1
  <1>3. ListRising(Tail(q))
    <2> SUFFICES ASSUME NEW i \in DOMAIN Tail(q), NEW j \in DOMAIN Tail(q), i < j
                 PROVE  Tail(q)[i] < Tail(q)[j]
      BY DEF ListRising
    <2>1. i + 1 < j + 1 /\ Tail(q)[i] = q[i + 1] /\ Tail(q)[j] = q[j + 1]
      BY <1>1, <1>2
    <2> QED
      BY <1>2, <2>1 DEF ListRising
  <1>4. ASSUME NEW k \in DOMAIN Tail(q)
        PROVE  Head(q) < Tail(q)[k]
    <2>1. 1 < k + 1 /\ 1 \in DOMAIN q /\ Tail(q)[k] = q[k + 1]
      BY <1>1, <1>2
    <2> QED
      BY <1>1, <1>2, <2>1 DEF ListRising
  <1> QED
    BY <1>3, <1>4 DEF Listed

\* Places are passed from the first to the last: what is in a later place is smaller.
Ordered(P, n) == \A i, j \in 1 .. n : i < j => \A v \in P[i], w \in P[j] : w < v

\* Works that only leave stay in order.
LEMMA OrderedLess ==
    ASSUME NEW P, NEW Q, NEW n \in Nat, Ordered(P, n), \A i \in 1 .. n : Q[i] \subseteq P[i]
    PROVE  Ordered(Q, n)
  BY DEF Ordered

\* The smallest work of a place goes to a later one, past places that are empty.
LEMMA OrderedPass ==
    ASSUME NEW P, NEW Q, NEW n \in Nat, Ordered(P, n),
           NEW a \in 1 .. n, NEW b \in 1 .. n, a < b, NEW w \in P[a],
           \A v \in Q[a] : v \in P[a] /\ w < v,
           \A v \in Q[b] : v \in P[b] \/ v = w,
           \A i \in 1 .. n : a < i /\ i < b => P[i] = {},
           \A i \in 1 .. n : i # a /\ i # b => Q[i] \subseteq P[i]
    PROVE  Ordered(Q, n)
  <1> SUFFICES ASSUME NEW i \in 1 .. n, NEW j \in 1 .. n, i < j, NEW v \in Q[i], NEW u \in Q[j]
               PROVE  u < v
    BY DEF Ordered
  <1>1. CASE j = b /\ u = w
    <2>1. CASE i = a
      BY <1>1, <2>1
    <2>2. CASE i # a
      <3>1. v \in P[i] /\ i < a
        BY <1>1, <2>2
      <3> QED
        BY <1>1, <3>1 DEF Ordered
    <2> QED
      BY <2>1, <2>2
  <1>2. CASE i = b /\ v = w
    <2>1. u \in P[j] /\ a < j
      BY <1>2
    <2> QED
      BY <1>2, <2>1 DEF Ordered
  <1>3. CASE ~(j = b /\ u = w) /\ ~(i = b /\ v = w)
    <2>1. u \in P[j] /\ v \in P[i]
      BY <1>3
    <2> QED
      BY <2>1 DEF Ordered
  <1> QED
    BY <1>1, <1>2, <1>3

\* A work larger than all enters at the first place.
LEMMA OrderedEnter ==
    ASSUME NEW P, NEW Q, NEW n \in Nat, Ordered(P, n), NEW w,
           \A i \in 1 .. n : \A v \in P[i] : v < w,
           \A v \in Q[1] : v \in P[1] \/ v = w,
           \A i \in 1 .. n : i # 1 => Q[i] \subseteq P[i]
    PROVE  Ordered(Q, n)
  <1> SUFFICES ASSUME NEW i \in 1 .. n, NEW j \in 1 .. n, i < j, NEW v \in Q[i], NEW u \in Q[j]
               PROVE  u < v
    BY DEF Ordered
  <1>1. u \in P[j]
    OBVIOUS
  <1>2. CASE i = 1 /\ v = w
    BY <1>1, <1>2
  <1>3. CASE v \in P[i]
    BY <1>1, <1>3 DEF Ordered
  <1> QED
    BY <1>2, <1>3

-----------------------------------------------------------------------------
(* Recursion down to a number: what the loops over a stream compute *)

\* Of some numbers one is the least.
LEMMA LeastOf ==
    ASSUME NEW S \in SUBSET Nat, S # {} PROVE \E i \in S : \A j \in S : i <= j
  <1> DEFINE Less == { p \in Nat \X Nat : p[1] < p[2] }
  <1>1. IsWellFoundedOn(Less, Nat)
    BY NatLessThanWellFounded DEF OpToRel
  <1>2. \A m, n \in Nat : <<m, n>> \in Less <=> m < n
    OBVIOUS
  <1> HIDE DEF Less
  <1>3. PICK i \in S : \A j \in S : ~(<<j, i>> \in Less)
    BY <1>1, WFMin
  <1>4. ASSUME NEW j \in S
        PROVE  i <= j
    <2>1. i \in Nat /\ j \in Nat /\ ~(<<j, i>> \in Less)
      BY <1>3
    <2>2. ~(j < i)
      BY <1>2, <2>1
    <2> QED
      BY <2>1, <2>2
  <1> QED
    BY <1>4

\* What holds at the end, and at each number if it holds at all later ones, holds at all.
LEMMA DownInduction ==
    ASSUME NEW m \in Nat, NEW n \in Nat, NEW G,
           \A k \in m..n : k + 1 .. n \subseteq G => k \in G
    PROVE  m..n \subseteq G
  <1> SUFFICES ASSUME ~(m..n \subseteq G) PROVE FALSE
    OBVIOUS
  <1> DEFINE B == { d \in Nat : \E k \in m..n : k \notin G /\ d = n - k }
  <1>1. PICK k \in m..n : k \notin G
    OBVIOUS
  <1>2. n - k \in B
    BY <1>1
  <1>3. PICK d \in B : \A e \in B : d <= e
    BY <1>2, LeastOf
  <1>4. PICK l \in m..n : l \notin G /\ d = n - l
    BY <1>3
  <1>5. l + 1 .. n \subseteq G
    <2> SUFFICES ASSUME NEW i \in l + 1 .. n, i \notin G PROVE FALSE
      OBVIOUS
    <2>1. i \in m..n /\ n - i \in Nat /\ n - i < n - l
      OBVIOUS
    <2>2. n - i \in B
      BY <2>1
    <2> HIDE DEF B
    <2>3. d <= n - i
      BY <1>3, <2>2
    <2> QED
      BY <1>4, <2>1, <2>3
  <1> QED
    BY <1>4, <1>5

\* A function that is defined at each number from its value at a later one exists.
Recurs(m, n, R, last, next, step) ==
    /\ m \in Nat /\ n \in Nat /\ m <= n /\ last \in R
    /\ next \in [m .. n - 1 -> m..n] /\ \A k \in m .. n - 1 : k < next[k]
    /\ step \in [m .. n - 1 -> [R -> R]]
Solves(f, m, n, last, next, step) ==
    \A k \in m..n : f[k] = IF k = n THEN last ELSE step[k][f[next[k]]]

LEMMA DownRecursion ==
    ASSUME NEW m, NEW n, NEW R, NEW last, NEW next, NEW step, Recurs(m, n, R, last, next, step)
    PROVE  \E f \in [m..n -> R] : Solves(f, m, n, last, next, step)
  <1> USE DEF Recurs, Solves
  <1> DEFINE G == { l \in m..n : \E f \in [l..n -> R] :
                      \A k \in l..n : f[k] = IF k = n THEN last ELSE step[k][f[next[k]]] }
  <1>1. ASSUME NEW l \in m..n, l + 1 .. n \subseteq G
        PROVE  l \in G
    <2>1. CASE l = n
      <3> DEFINE f == [k \in l..n |-> last]
      <3>1. f \in [l..n -> R] /\ \A k \in l..n : k = n /\ f[k] = last
        BY <2>1
      <3> HIDE DEF f
      <3> QED
        BY <3>1
    <2>2. CASE l # n
      <3>1. l + 1 \in l + 1 .. n /\ l \in m .. n - 1 /\ l + 1 \in m..n
        BY <2>2
      <3>2. PICK g \in [l + 1 .. n -> R] :
              \A k \in l + 1 .. n : g[k] = IF k = n THEN last ELSE step[k][g[next[k]]]
        BY <1>1, <3>1
      <3>3. next[l] \in l + 1 .. n
        BY <3>1
      <3> DEFINE f == [k \in l..n |-> IF k = l THEN step[l][g[next[l]]] ELSE g[k]]
      <3>4. g[next[l]] \in R /\ step[l][g[next[l]]] \in R
        BY <3>1, <3>3
      <3>5. /\ f \in [l..n -> R] /\ f[l] = step[l][g[next[l]]]
            /\ \A k \in l + 1 .. n : f[k] = g[k]
        <4>1. \A k \in l..n : k = l \/ k \in l + 1 .. n
          OBVIOUS
        <4>2. \A k \in l + 1 .. n : k \in l..n /\ k # l
          OBVIOUS
        <4> QED
          BY <3>4, <4>1, <4>2
      <3> HIDE DEF f
      <3>6. \A k \in l + 1 .. n : k # n => next[k] \in l + 1 .. n
        <4> SUFFICES ASSUME NEW k \in l + 1 .. n, k # n PROVE next[k] \in l + 1 .. n
          OBVIOUS
        <4>1. k \in m .. n - 1
          OBVIOUS
        <4> QED
          BY <4>1
      <3>7. \A k \in l..n : f[k] = IF k = n THEN last ELSE step[k][f[next[k]]]
        <4> TAKE k \in l..n
        <4>1. CASE k = l
          BY <2>2, <3>3, <3>5, <4>1
        <4>2. CASE k # l
          <5>1. k \in l + 1 .. n
            BY <4>2
          <5> QED
            BY <3>2, <3>5, <3>6, <5>1
        <4> QED
          BY <4>1, <4>2
      <3> QED
        BY <3>5, <3>7
    <2> QED
      BY <2>1, <2>2
  <1>2. m..n \subseteq G
    <2>1. m \in Nat /\ n \in Nat
      OBVIOUS
    <2> HIDE DEF G, Recurs
    <2> QED
      BY <1>1, <2>1, DownInduction
  <1>3. m \in G
    <2> HIDE DEF G
    <2>1. m \in m..n
      OBVIOUS
    <2> QED
      BY <1>2, <2>1
  <1> QED
    BY <1>3
=============================================================================
