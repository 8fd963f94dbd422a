---------------------- MODULE MfxFrameConstructorProofs ----------------------
(***************************************************************************)
(* Proofs about the frame constructor, for samples of any length: nothing  *)
(* of the stream is lost, and a header is in front of the pictures after a *)
(* seek.  The samples are as players send them (StreamConstants): without  *)
(* a header in its configuration a stream cannot be taken up again.        *)
(***************************************************************************)
EXTENDS MfxFrameConstructor, WorkLists, SequenceTheorems

-----------------------------------------------------------------------------
(* Samples *)

UnitTypes == {"header", "vps", "sps", "pps", "sei", "slice", "other"}
Unit == [type : UnitTypes, load : 1 .. MaxLoads]

\* What the class for plain streams, and the one for H.264 and H.265, know a header by.
HeaderTypes(c) == IF c = "none" THEN {"header"} ELSE {"sps", "pps"}

\* A configuration brings headers and no picture, not only behind an SEI.
IsConfig(c, types) ==
    /\ types \in Seq(UnitTypes)
    /\ \A i \in DOMAIN types : types[i] # "slice" /\ (c = "none" => types[i] = "header")
    /\ \E k \in DOMAIN types : /\ types[k] \in HeaderTypes(c)
                               /\ \A i \in 1 .. k - 1 : types[i] \notin {"sps", "pps", "sei"}

\* The headers of other samples are in front of their pictures.
IsData(c, types) ==
    /\ types \in Seq(UnitTypes)
    /\ c # "none" => \A i, j \in DOMAIN types : i < j /\ types[j] \in HeaderTypes(c) => types[i] # "slice"

StreamConstants ==
    /\ MaxLoads \in Nat /\ MaxResets \in Nat
    /\ Codecs \subseteq {"none", "avc", "hevc"}
    /\ \A c \in Codecs : /\ \A types \in Config[c] : IsConfig(c, types)
                         /\ \A types \in Data[c] : IsData(c, types)

\* A sample has a unit of each type, and they carry its number.
LEMMA SampleUnits ==
    ASSUME NEW types \in Seq(UnitTypes), NEW n \in 1 .. MaxLoads
    PROVE  /\ Sample(types, n) \in Seq(Unit) /\ DOMAIN Sample(types, n) = DOMAIN types
           /\ \A i \in DOMAIN types : Sample(types, n)[i] = [type |-> types[i], load |-> n]
  <1>1. DOMAIN types = 1 .. Len(types) /\ Len(types) \in Nat
    OBVIOUS
  <1>2. \A i \in 1 .. Len(types) : [type |-> types[i], load |-> n] \in Unit
    BY DEF Unit
  <1>3. Sample(types, n) \in [1 .. Len(types) -> Unit]
    BY <1>1, <1>2 DEF Sample
  <1> QED
    BY <1>1, <1>3 DEF Sample

-----------------------------------------------------------------------------
(* FindHeaders *)

\* At most one unit, of a type.
Picked(nals, type) ==
    {<<>>} \cup { <<nals[i]>> : i \in { k \in DOMAIN nals : nals[k].type = type } }
Finds(nals) == [sps : Picked(nals, "sps"), pps : Picked(nals, "pps"), sei : Picked(nals, "sei"),
                foundSei : BOOLEAN]

\* A turn of the loop moves on, and stays within the data.
LEMMA TurnsAhead ==
    ASSUME NEW nals \in Seq(Unit), NEW k \in 1 .. Len(nals)
    PROVE  /\ AfterPPS(nals, k) \in k .. Len(nals) + 1
           /\ AfterSEI(nals, k) \in AfterPPS(nals, k) .. Len(nals) + 1
           /\ ~isSEI(Type(nals, AfterSEI(nals, k)))
           /\ \A i \in AfterPPS(nals, k) .. AfterSEI(nals, k) - 1 : isSEI(Type(nals, i))
           /\ NextTurn(nals, k) \in k + 1 .. Len(nals) + 1
  <1>1. Len(nals) \in Nat
    OBVIOUS
  <1>2. Type(nals, Len(nals) + 1) = "end"
    BY <1>1 DEF Type
  <1>3. Passed(nals, k, "sps") \in k .. Len(nals) + 1
    BY <1>1 DEF Passed
  <1> DEFINE p == Passed(nals, k, "sps")
  <1>4. AfterPPS(nals, k) \in k .. Len(nals) + 1
    <2>1. Passed(nals, p, "pps") \in p .. Len(nals) + 1
      <3>1. p \in 1 .. Len(nals) + 1
        BY <1>1, <1>3
      <3> HIDE DEF p
      <3>2. CASE Type(nals, p) = "pps"
        <4>1. p # Len(nals) + 1
          BY <1>2, <3>2
        <4> QED
          BY <1>1, <3>1, <3>2, <4>1 DEF Passed
      <3>3. CASE Type(nals, p) # "pps"
        BY <1>1, <3>1, <3>3 DEF Passed
      <3> QED
        BY <3>2, <3>3
    <2> QED
      BY <1>1, <1>3, <2>1 DEF AfterPPS
  <1> DEFINE s == AfterPPS(nals, k)
             S == { j \in s .. Len(nals) + 1 : ~isSEI(Type(nals, j)) }
  <1>5. \E j \in s .. Len(nals) + 1 : /\ ~isSEI(Type(nals, j))
                                      /\ \A i \in s .. j - 1 : isSEI(Type(nals, i))
    <2>1. Len(nals) + 1 \in S /\ S \in SUBSET Nat
      BY <1>1, <1>2, <1>4 DEF isSEI
    <2>2. PICK j \in S : \A i \in S : j <= i
      BY <2>1, LeastOf
    <2>3. j \in s .. Len(nals) + 1 /\ ~isSEI(Type(nals, j))
      BY <2>2
    <2>4. ASSUME NEW i \in s .. j - 1
          PROVE  isSEI(Type(nals, i))
      <3>1. i \notin S /\ i \in s .. Len(nals) + 1
        BY <1>1, <1>4, <2>2, <2>3
      <3> QED
        BY <3>1
    <2> QED
      BY <2>3, <2>4
  <1>6. /\ AfterSEI(nals, k) \in s .. Len(nals) + 1
        /\ ~isSEI(Type(nals, AfterSEI(nals, k)))
        /\ \A i \in s .. AfterSEI(nals, k) - 1 : isSEI(Type(nals, i))
    <2> HIDE DEF s
    <2> QED
      BY <1>5 DEF AfterSEI, s
  <1>7. NextTurn(nals, k) \in k + 1 .. Len(nals) + 1
    BY <1>1, <1>4, <1>6 DEF NextTurn
  <1> QED
    BY <1>4, <1>6, <1>7

\* A turn adds at most what it looks at, and takes an SPS or a PPS it begins with.
LEMMA TurnFinds ==
    ASSUME NEW nals \in Seq(Unit), NEW k \in 1 .. Len(nals), NEW later \in Finds(nals)
    PROVE  /\ Turn(nals, k, later) \in Finds(nals)
           /\ later.sps # <<>> => Turn(nals, k, later).sps # <<>>
           /\ later.pps # <<>> => Turn(nals, k, later).pps # <<>>
           /\ nals[k].type = "sps" => Turn(nals, k, later).sps # <<>>
           /\ nals[k].type = "pps" => Turn(nals, k, later).pps # <<>>
  <1> DEFINE p == Passed(nals, k, "sps")
             s == AfterPPS(nals, k)
             e == AfterSEI(nals, k)
             t == Turn(nals, k, later)
  <1>1. /\ Len(nals) \in Nat /\ DOMAIN nals = 1 .. Len(nals)
        /\ later.sps \in Picked(nals, "sps") /\ later.pps \in Picked(nals, "pps")
        /\ later.sei \in Picked(nals, "sei") /\ later.foundSei \in BOOLEAN
    BY DEF Finds
  <1>2. s \in k .. Len(nals) + 1 /\ e \in s .. Len(nals) + 1
    BY TurnsAhead
  <1>3. /\ p = IF Type(nals, k) = "sps" THEN k + 1 ELSE k
        /\ s = IF Type(nals, p) = "pps" THEN p + 1 ELSE p
        /\ Type(nals, k) = nals[k].type
    BY DEF Passed, AfterPPS, Type
  <1>4. /\ t.sps = IF p > k /\ later.sps = <<>> THEN <<nals[k]>> ELSE later.sps
        /\ t.pps = IF s > p /\ later.pps = <<>> THEN <<nals[p]>> ELSE later.pps
        /\ t.sei = IF e > s /\ later.sei = <<>> THEN <<nals[e - 1]>> ELSE later.sei
        /\ t.foundSei \in BOOLEAN
        /\ t = [sps |-> t.sps, pps |-> t.pps, sei |-> t.sei, foundSei |-> t.foundSei]
    BY DEF Turn
  <1>5. ASSUME s > p PROVE p \in 1 .. Len(nals) /\ nals[p].type = "pps"
    <2>1. Type(nals, p) = "pps" /\ p \in 1 .. Len(nals) + 1
      BY <1>1, <1>2, <1>3, <1>5
    <2> HIDE DEF p
    <2> QED
      BY <1>1, <2>1 DEF Type
  <1>6. ASSUME e > s PROVE e - 1 \in 1 .. Len(nals) /\ nals[e - 1].type = "sei"
    <2>1. isSEI(Type(nals, e - 1)) /\ e - 1 \in 1 .. Len(nals)
      <3>1. e - 1 \in s .. e - 1
        BY <1>1, <1>2, <1>6
      <3> QED
        BY <1>1, <1>2, <3>1, TurnsAhead
    <2> HIDE DEF e, s
    <2> QED
      BY <1>1, <2>1 DEF Type, isSEI
  <1>7. p > k => nals[k].type = "sps"
    BY <1>1, <1>3
  <1>8. nals[k].type = "pps" => p = k /\ s > p
    BY <1>1, <1>3
  <1>9. nals[k].type = "sps" => p > k
    BY <1>1, <1>3
  <1> HIDE DEF p, s, e, t
  <1>10. ASSUME NEW type, NEW i \in 1 .. Len(nals), nals[i].type = type
         PROVE  <<nals[i]>> \in Picked(nals, type)
    BY <1>1, <1>10 DEF Picked
  <1>11. t.sps \in Picked(nals, "sps")
    BY <1>1, <1>4, <1>7, <1>10
  <1>12. t.pps \in Picked(nals, "pps")
    BY <1>1, <1>4, <1>5, <1>10
  <1>13. t.sei \in Picked(nals, "sei")
    BY <1>1, <1>4, <1>6, <1>10
  <1>14. t \in Finds(nals)
    BY <1>4, <1>11, <1>12, <1>13 DEF Finds
  <1>15. \A u : <<u>> # <<>>
    OBVIOUS
  <1>16. /\ later.sps # <<>> => t.sps # <<>>
         /\ later.pps # <<>> => t.pps # <<>>
         /\ nals[k].type = "sps" => t.sps # <<>>
         /\ nals[k].type = "pps" => t.pps # <<>>
    BY <1>4, <1>8, <1>9, <1>15
  <1> QED
    BY <1>14, <1>16 DEF t

\* The loop ends, and what it finds is what one of its turns found.
Search(nals, from) ==
    \A k \in 1 .. Len(nals) + 1 :
        from[k] = IF k = Len(nals) + 1 THEN Nothing ELSE Turn(nals, k, from[NextTurn(nals, k)])

LEMMA SearchEnds ==
    ASSUME NEW nals \in Seq(Unit)
    PROVE  \E from \in [1 .. Len(nals) + 1 -> Finds(nals)] :
              Search(nals, from) /\ FindHeaders(nals) = from[1]
  <1> DEFINE n == Len(nals) + 1
             R == Finds(nals)
             next == [k \in 1 .. n - 1 |-> NextTurn(nals, k)]
             step == [k \in 1 .. n - 1 |-> [r \in R |-> Turn(nals, k, r)]]
             Loop(f) == f = [k \in 1 .. Len(nals) + 1 |->
                               IF k = Len(nals) + 1 THEN Nothing
                               ELSE Turn(nals, k, f[NextTurn(nals, k)])]
  <1>1. Len(nals) \in Nat /\ n \in Nat /\ 1 <= n /\ 1 .. n - 1 = 1 .. Len(nals)
    OBVIOUS
  <1>2. Nothing \in R
    BY DEF Nothing, Finds, Picked, needWaitSEI
  <1>3. /\ next \in [1 .. n - 1 -> 1 .. n]
        /\ \A k \in 1 .. n - 1 : next[k] = NextTurn(nals, k) /\ k < next[k]
    <2>1. \A k \in 1 .. n - 1 : NextTurn(nals, k) \in 1 .. n /\ k < NextTurn(nals, k)
      <3> TAKE k \in 1 .. n - 1
      <3>1. k \in 1 .. Len(nals)
        BY <1>1
      <3>2. NextTurn(nals, k) \in k + 1 .. n
        BY <3>1, TurnsAhead
      <3> QED
        BY <1>1, <3>1, <3>2
    <2> HIDE DEF n
    <2> QED
      BY <2>1
  <1>4. /\ step \in [1 .. n - 1 -> [R -> R]]
        /\ \A k \in 1 .. n - 1 : \A r \in R : step[k][r] = Turn(nals, k, r)
    <2>1. \A k \in 1 .. n - 1 : \A r \in R : Turn(nals, k, r) \in R
      BY <1>1, TurnFinds
    <2> HIDE DEF n, R
    <2> QED
      BY <2>1
  <1>5. ASSUME NEW f \in [1 .. n -> R],
               \A k \in 1 .. n : f[k] = IF k = n THEN Nothing ELSE step[k][f[next[k]]]
        PROVE  Loop(f)
    <2>1. ASSUME NEW k \in 1 .. n, k # n
          PROVE  f[k] = Turn(nals, k, f[NextTurn(nals, k)])
      <3>1. k \in 1 .. n - 1
        BY <1>1, <2>1
      <3>2. next[k] = NextTurn(nals, k) /\ f[next[k]] \in R
        BY <1>3, <3>1
      <3> QED
        BY <1>4, <1>5, <2>1, <3>1, <3>2
    <2>2. \A k \in 1 .. n : f[k] = IF k = n THEN Nothing ELSE Turn(nals, k, f[NextTurn(nals, k)])
      BY <1>5, <2>1
    <2> HIDE DEF R
    <2> QED
      BY <2>2
  <1>6. \E f : Loop(f)
    <2>1. Recurs(1, n, R, Nothing, next, step)
      <3>1. \A k \in 1 .. n - 1 : k < next[k]
        BY <1>3
      <3> HIDE DEF n, R, next, step
      <3> QED
        BY <1>1, <1>2, <1>3, <1>4, <3>1 DEF Recurs
    <2>2. PICK f \in [1 .. n -> R] : Solves(f, 1, n, Nothing, next, step)
      <3> HIDE DEF n, R, next, step
      <3> QED
        BY <2>1, DownRecursion
    <2>3. \A k \in 1 .. n : f[k] = IF k = n THEN Nothing ELSE step[k][f[next[k]]]
      <3> HIDE DEF n, R, next, step
      <3> QED
        BY <2>2 DEF Solves
    <2> HIDE DEF Loop
    <2> QED
      BY <1>5, <2>3
  <1> DEFINE from == CHOOSE f : Loop(f)
  <1>7. Loop(from)
    <2> HIDE DEF Loop
    <2> QED
      BY <1>6
  <1>8. FindHeaders(nals) = from[1]
    BY DEF FindHeaders
  <1> HIDE DEF from
  <1>9. Search(nals, from) /\ DOMAIN from = 1 .. n
    BY <1>7 DEF Search
  <1> DEFINE G == { k \in 1 .. n : from[k] \in R }
  <1>10. ASSUME NEW k \in 1 .. n, k + 1 .. n \subseteq G
         PROVE  k \in G
    <2>1. CASE k = n
      BY <1>2, <1>9, <2>1 DEF Search
    <2>2. CASE k # n
      <3>1. k \in 1 .. Len(nals)
        BY <1>1, <2>2
      <3>2. NextTurn(nals, k) \in k + 1 .. n
        BY <3>1, TurnsAhead
      <3>3. from[NextTurn(nals, k)] \in R
        BY <1>10, <3>2
      <3>4. from[k] = Turn(nals, k, from[NextTurn(nals, k)])
        BY <1>9, <2>2 DEF Search
      <3> QED
        BY <3>1, <3>3, <3>4, TurnFinds
    <2> QED
      BY <2>1, <2>2
  <1>11. 1 .. n \subseteq G
    <2> HIDE DEF n, G
    <2> QED
      BY <1>1, <1>10, DownInduction
  <1>12. from \in [1 .. n -> R]
    <2>1. from = [k \in 1 .. n |-> from[k]]
      BY <1>7
    <2> HIDE DEF n, R, Loop
    <2> QED
      BY <1>11, <2>1
  <1> QED
    BY <1>8, <1>9, <1>12

\* An SPS or a PPS is found unless every one is behind an SPS, a PPS or an SEI.
LEMMA HeadersFound ==
    ASSUME NEW nals \in Seq(Unit)
    PROVE  /\ FindHeaders(nals) \in Finds(nals)
           /\ \A h \in DOMAIN nals :
                 /\ nals[h].type \in {"sps", "pps"}
                 /\ \A i \in 1 .. h - 1 : nals[i].type \notin {"sps", "pps", "sei"}
                 => FindHeaders(nals).sps # <<>> \/ FindHeaders(nals).pps # <<>>
  <1>1. Len(nals) \in Nat /\ DOMAIN nals = 1 .. Len(nals)
    OBVIOUS
  <1>2. PICK from \in [1 .. Len(nals) + 1 -> Finds(nals)] :
          Search(nals, from) /\ FindHeaders(nals) = from[1]
    BY SearchEnds
  <1>3. 1 \in 1 .. Len(nals) + 1
    BY <1>1
  <1>4. ASSUME NEW h \in DOMAIN nals, nals[h].type \in {"sps", "pps"},
               \A i \in 1 .. h - 1 : nals[i].type \notin {"sps", "pps", "sei"}
        PROVE  FindHeaders(nals).sps # <<>> \/ FindHeaders(nals).pps # <<>>
    <2> DEFINE G == { k \in 1 .. h : from[k].sps # <<>> \/ from[k].pps # <<>> }
    <2>1. ASSUME NEW k \in 1 .. h, k + 1 .. h \subseteq G
          PROVE  k \in G
      <3>1. k \in 1 .. Len(nals) /\ h \in Nat
        BY <1>1
      <3>2. from[k] = Turn(nals, k, from[NextTurn(nals, k)])
        BY <1>1, <1>2, <3>1 DEF Search
      <3>3. from[NextTurn(nals, k)] \in Finds(nals)
        <4>1. NextTurn(nals, k) \in 1 .. Len(nals) + 1
          BY <1>1, <3>1, TurnsAhead
        <4> QED
          BY <4>1
      <3>4. CASE k = h
        BY <1>4, <3>1, <3>2, <3>3, <3>4, TurnFinds
      <3>5. CASE k # h
        <4>1. k \in 1 .. h - 1 /\ nals[k].type \notin {"sps", "pps", "sei"}
          BY <1>1, <1>4, <3>1, <3>5
        <4>2. Type(nals, k) = nals[k].type
          BY <3>1 DEF Type
        <4>3. AfterPPS(nals, k) = k
          BY <4>1, <4>2 DEF AfterPPS, Passed
        <4>4. AfterSEI(nals, k) = k
          <5> DEFINE e == AfterSEI(nals, k)
          <5>1. e \in k .. Len(nals) + 1 /\ \A i \in k .. e - 1 : isSEI(Type(nals, i))
            BY <3>1, <4>3, TurnsAhead
          <5>2. ~isSEI(Type(nals, k))
            BY <4>1, <4>2 DEF isSEI
          <5> HIDE DEF e
          <5>3. e = k
            BY <1>1, <5>1, <5>2
          <5> QED
            BY <5>3 DEF e
        <4>5. NextTurn(nals, k) = k + 1
          BY <1>1, <4>4 DEF NextTurn
        <4>6. k + 1 \in G
          BY <1>1, <2>1, <3>1, <4>1
        <4> QED
          BY <3>1, <3>2, <3>3, <4>5, <4>6, TurnFinds
      <3> QED
        BY <3>4, <3>5
    <2>2. 1 .. h \subseteq G
      <3>1. h \in Nat
        BY <1>1
      <3> HIDE DEF G
      <3> QED
        BY <2>1, <3>1, DownInduction
    <2>3. 1 \in G
      <3>1. 1 \in 1 .. h
        BY <1>1
      <3> HIDE DEF G
      <3> QED
        BY <2>2, <3>1
    <2> QED
      BY <1>2, <2>3
  <1> QED
    BY <1>2, <1>3, <1>4

-----------------------------------------------------------------------------
(* The invariant *)

\* A saved SPS or PPS is at most one unit, of its type.
Singles(type) == {<<>>} \cup { <<u>> : u \in { v \in Unit : v.type = type } }

Constructor ==
    [state : States, header : Seq(Unit), sps : Singles("sps"), pps : Singles("pps"),
     sei : Seq(Unit), buf : Seq(Unit), in : Seq(Unit), current : {"null", "buf", "in"},
     inReset : BOOLEAN]

OnlyHeaders(s) == \A i \in DOMAIN s : s[i].type = "header"

StreamShape ==
    /\ codec \in Codecs /\ phase \in {"idle", "loaded"}
    /\ fc \in Constructor /\ (codec = "none" => OnlyHeaders(fc.header))
    /\ owed \in Seq(Unit) /\ given \in Seq(Unit)
    /\ loads \in 0 .. MaxLoads /\ resets \in 0 .. MaxResets /\ newest \in 0 .. loads
    /\ clean \in BOOLEAN /\ seeking \in BOOLEAN
    /\ since \in 0 .. Len(given) /\ dropped \subseteq 1 .. since

\* The caller's data are in use alone, and no longer than the sample is loaded.
InUseAlone ==
    /\ fc.current = "in" => fc.buf = <<>>
    /\ clean /\ fc.in # <<>> => phase = "loaded" /\ fc.current = "in"

\* The headers a codec needs are in a stream, and in front of each of its pictures.
HasHeaders(c, s) == \A type \in HeaderTypes(c) : \E i \in DOMAIN s : s[i].type = type
Headed(c, s) == \A i \in DOMAIN s : s[i].type = "slice" =>
                    \A type \in HeaderTypes(c) : \E j \in 1 .. i - 1 : s[j].type = type
NoPicture(s) == \A i \in DOMAIN s : s[i].type # "slice"

\* What was loaded since the last reset.
Recent == SubSeq(owed, since + 1, Len(owed))

\* While the constructor waits for the first sample behind a reset it has a header to put in front
\* of it, and afterwards the stream has one.
HeaderIsComing ==
    clean /\ seeking =>
        IF fc.state = "resetting" THEN HasHeaders(codec, Header(fc)) /\ NoPicture(Recent)
        ELSE HasHeaders(codec, Recent) /\ Headed(codec, Recent)

StreamInv == StreamShape /\ InUseAlone /\ NothingLost /\ HeaderIsComing /\ LatestHeaderSaved

-----------------------------------------------------------------------------
(* Streams and headers *)

LEMMA Concatenated ==
    ASSUME NEW s \in Seq(Unit), NEW t \in Seq(Unit)
    PROVE  /\ s \o t \in Seq(Unit)
           /\ \A i \in DOMAIN s : i \in DOMAIN (s \o t) /\ (s \o t)[i] = s[i]
           /\ \A i \in DOMAIN t : Len(s) + i \in DOMAIN (s \o t) /\ (s \o t)[Len(s) + i] = t[i]
           /\ \A i \in DOMAIN (s \o t) :
                 i \in DOMAIN s \/ (i \in Nat /\ i > Len(s) /\ i - Len(s) \in DOMAIN t)
           /\ Len(s) \in Nat /\ Len(t) \in Nat
           /\ DOMAIN s = 1 .. Len(s) /\ DOMAIN t = 1 .. Len(t)
  <1>1. Len(s) \in Nat /\ Len(t) \in Nat /\ DOMAIN s = 1 .. Len(s) /\ DOMAIN t = 1 .. Len(t)
    OBVIOUS
  <1>2. /\ s \o t \in Seq(Unit) /\ Len(s \o t) = Len(s) + Len(t)
        /\ \A i \in 1 .. Len(s) + Len(t) :
              (s \o t)[i] = IF i <= Len(s) THEN s[i] ELSE t[i - Len(s)]
    BY ConcatProperties
  <1>3. DOMAIN (s \o t) = 1 .. Len(s) + Len(t)
    BY <1>1, <1>2
  <1> QED
    BY <1>1, <1>2, <1>3

LEMMA HasHeadersConcat ==
    ASSUME NEW c, NEW s \in Seq(Unit), NEW t \in Seq(Unit), HasHeaders(c, s) \/ HasHeaders(c, t)
    PROVE  HasHeaders(c, s \o t)
  <1> SUFFICES ASSUME NEW type \in HeaderTypes(c)
               PROVE  \E i \in DOMAIN (s \o t) : (s \o t)[i].type = type
    BY DEF HasHeaders
  <1>1. CASE \E i \in DOMAIN s : s[i].type = type
    BY <1>1, Concatenated
  <1>2. CASE \E i \in DOMAIN t : t[i].type = type
    <2>1. PICK i \in DOMAIN t : t[i].type = type
      BY <1>2
    <2>2. Len(s) + i \in DOMAIN (s \o t) /\ (s \o t)[Len(s) + i] = t[i]
      BY Concatenated
    <2> QED
      BY <2>1, <2>2
  <1> QED
    BY <1>1, <1>2 DEF HasHeaders

LEMMA HeadedConcat ==
    ASSUME NEW c, NEW s \in Seq(Unit), NEW t \in Seq(Unit), Headed(c, s),
           HasHeaders(c, s) \/ Headed(c, t)
    PROVE  Headed(c, s \o t)
  <1> SUFFICES ASSUME NEW i \in DOMAIN (s \o t), (s \o t)[i].type = "slice",
                      NEW type \in HeaderTypes(c)
               PROVE  \E j \in 1 .. i - 1 : (s \o t)[j].type = type
    BY DEF Headed
  <1>1. CASE i \in DOMAIN s
    <2>1. PICK j \in 1 .. i - 1 : s[j].type = type
      BY <1>1, Concatenated DEF Headed
    <2>2. j \in DOMAIN s
      BY <1>1, Concatenated
    <2> QED
      BY <2>1, <2>2, Concatenated
  <1>2. CASE i \in Nat /\ i > Len(s) /\ i - Len(s) \in DOMAIN t
    <2>1. (s \o t)[i] = t[i - Len(s)]
      <3>1. (s \o t)[Len(s) + (i - Len(s))] = t[i - Len(s)] /\ Len(s) \in Nat
        BY <1>2, Concatenated
      <3>2. Len(s) + (i - Len(s)) = i
        BY <1>2, <3>1
      <3> QED
        BY <3>1, <3>2
    <2>2. CASE HasHeaders(c, s)
      <3>1. PICK j \in DOMAIN s : s[j].type = type
        BY <2>2 DEF HasHeaders
      <3>2. j \in 1 .. i - 1
        BY <1>2, Concatenated
      <3> QED
        BY <3>1, <3>2, Concatenated
    <2>3. CASE Headed(c, t)
      <3>1. PICK j \in 1 .. (i - Len(s)) - 1 : t[j].type = type
        BY <1>2, <2>1, <2>3 DEF Headed
      <3>2. j \in DOMAIN t /\ Len(s) + j \in 1 .. i - 1
        BY <1>2, Concatenated
      <3> QED
        BY <3>1, <3>2, Concatenated
    <2> QED
      BY <2>2, <2>3
  <1> QED
    BY <1>1, <1>2, Concatenated

LEMMA NoPictureConcat ==
    ASSUME NEW s \in Seq(Unit), NEW t \in Seq(Unit), NoPicture(s), NoPicture(t)
    PROVE  NoPicture(s \o t)
  <1> SUFFICES ASSUME NEW i \in DOMAIN (s \o t) PROVE (s \o t)[i].type # "slice"
    BY DEF NoPicture
  <1>1. CASE i \in DOMAIN s
    BY <1>1, Concatenated DEF NoPicture
  <1>2. CASE i \in Nat /\ i > Len(s) /\ i - Len(s) \in DOMAIN t
    <2>1. (s \o t)[Len(s) + (i - Len(s))] = t[i - Len(s)] /\ Len(s) \in Nat
      BY <1>2, Concatenated
    <2>2. Len(s) + (i - Len(s)) = i
      BY <1>2, <2>1
    <2> QED
      BY <1>2, <2>1, <2>2 DEF NoPicture
  <1> QED
    BY <1>1, <1>2, Concatenated

LEMMA NoPictureHeaded == \A c, s : NoPicture(s) => Headed(c, s)
  BY DEF NoPicture, Headed

LEMMA SinglesAreUnits ==
    /\ \A type : Singles(type) \subseteq Seq(Unit)
    /\ \A type : \A s \in Singles(type) : s # <<>> => DOMAIN s = {1} /\ Len(s) = 1 /\ s[1].type = type
  <1>1. \A u \in Unit : <<u>> \in Seq(Unit) /\ DOMAIN <<u>> = {1} /\ Len(<<u>>) = 1 /\ <<u>>[1] = u
    OBVIOUS
  <1>2. <<>> \in Seq(Unit)
    OBVIOUS
  <1>3. ASSUME NEW type, NEW s \in Singles(type)
        PROVE  /\ s \in Seq(Unit)
               /\ s # <<>> => DOMAIN s = {1} /\ Len(s) = 1 /\ s[1].type = type
    <2>1. CASE s = <<>>
      BY <1>2, <2>1
    <2>2. CASE \E u \in Unit : u.type = type /\ s = <<u>>
      BY <1>1, <2>2
    <2> QED
      BY <2>1, <2>2 DEF Singles
  <1> QED
    BY <1>3

\* The saved headers of the class for H.264 and H.265 are no pictures, and are what it needs when
\* both are there.
LEMMA SavedHeader ==
    ASSUME NEW sps \in Singles("sps"), NEW pps \in Singles("pps")
    PROVE  /\ sps \o pps \in Seq(Unit) /\ NoPicture(sps \o pps)
           /\ \A c : c # "none" => (HasHeaders(c, sps \o pps) <=> sps # <<>> /\ pps # <<>>)
  <1>1. sps \in Seq(Unit) /\ pps \in Seq(Unit)
    BY SinglesAreUnits
  <1>2. NoPicture(sps) /\ NoPicture(pps)
    <2>1. \A s \in Singles("sps") \cup Singles("pps") : s = <<>> \/ (DOMAIN s = {1} /\ s[1].type # "slice")
      BY SinglesAreUnits
    <2>2. DOMAIN <<>> = {}
      OBVIOUS
    <2> QED
      BY <2>1, <2>2 DEF NoPicture
  <1>3. NoPicture(sps \o pps)
    BY <1>1, <1>2, NoPictureConcat
  <1>4. ASSUME NEW c, c # "none", sps # <<>>, pps # <<>>
        PROVE  HasHeaders(c, sps \o pps)
    <2>1. \E i \in DOMAIN sps : sps[i].type = "sps"
      BY <1>4, SinglesAreUnits
    <2>2. \E i \in DOMAIN pps : pps[i].type = "pps"
      BY <1>4, SinglesAreUnits
    <2>3. \E i \in DOMAIN (sps \o pps) : (sps \o pps)[i].type = "sps"
      BY <1>1, <2>1, Concatenated
    <2>4. \E i \in DOMAIN (sps \o pps) : (sps \o pps)[i].type = "pps"
      <3>1. PICK i \in DOMAIN pps : pps[i].type = "pps"
        BY <2>2
      <3>2. Len(sps) + i \in DOMAIN (sps \o pps) /\ (sps \o pps)[Len(sps) + i] = pps[i]
        BY <1>1, Concatenated
      <3> QED
        BY <3>1, <3>2
    <2> QED
      BY <1>4, <2>3, <2>4 DEF HasHeaders, HeaderTypes
  <1>5. ASSUME NEW c, c # "none", HasHeaders(c, sps \o pps)
        PROVE  sps # <<>> /\ pps # <<>>
    <2>1. /\ \E i \in DOMAIN (sps \o pps) : (sps \o pps)[i].type = "sps"
          /\ \E i \in DOMAIN (sps \o pps) : (sps \o pps)[i].type = "pps"
      BY <1>5 DEF HasHeaders, HeaderTypes
    <2>2. ASSUME sps = <<>> PROVE FALSE
      <3>1. sps \o pps = pps
        BY <1>1, <2>2, ConcatEmptySeq
      <3>2. \A i \in DOMAIN pps : pps[i].type = "pps"
        BY <1>1, SinglesAreUnits
      <3> QED
        BY <2>1, <3>1, <3>2
    <2>3. ASSUME pps = <<>> PROVE FALSE
      <3>1. sps \o pps = sps
        BY <1>1, <2>3, ConcatEmptySeq
      <3>2. \A i \in DOMAIN sps : sps[i].type = "sps"
        BY <1>1, SinglesAreUnits
      <3> QED
        BY <2>1, <3>1, <3>2
    <2> QED
      BY <2>2, <2>3
  <1> QED
    BY <1>1, <1>3, <1>4, <1>5, Concatenated

LEMMA FoundAreSingles ==
    ASSUME NEW nals \in Seq(Unit), NEW found \in Finds(nals)
    PROVE  /\ found.sps \in Singles("sps") /\ found.pps \in Singles("pps") /\ found.sei \in Seq(Unit)
           /\ \A s \in {found.sps, found.pps} : s # <<>> => \E i \in DOMAIN nals : s = <<nals[i]>>
           /\ found.sps # <<>> => \E i \in DOMAIN nals : nals[i].type = "sps"
           /\ found.pps # <<>> => \E i \in DOMAIN nals : nals[i].type = "pps"
  <1>1. \A i \in DOMAIN nals : nals[i] \in Unit /\ <<nals[i]>> \in Seq(Unit)
    OBVIOUS
  <1>2. /\ found.sps \in Picked(nals, "sps") /\ found.pps \in Picked(nals, "pps")
        /\ found.sei \in Picked(nals, "sei")
    BY DEF Finds
  <1>3. \A type : Picked(nals, type) \subseteq Singles(type)
    BY <1>1 DEF Picked, Singles
  <1>4. \A type : \A s \in Picked(nals, type) :
           s # <<>> => \E i \in DOMAIN nals : s = <<nals[i]>> /\ nals[i].type = type
    BY DEF Picked
  <1> QED
    BY <1>2, <1>3, <1>4, SinglesAreUnits

-----------------------------------------------------------------------------
(* LoadHeader *)

\* What a sample is for the codec that plays.
Fits(nals, flagged) ==
    /\ nals \in Seq(Unit) /\ flagged \in BOOLEAN
    /\ flagged =>
         /\ NoPicture(nals)
         /\ codec = "none" => OnlyHeaders(nals) /\ HasHeaders(codec, nals)
         /\ codec # "none" => \E k \in DOMAIN nals :
              /\ nals[k].type \in {"sps", "pps"}
              /\ \A i \in 1 .. k - 1 : nals[i].type \notin {"sps", "pps", "sei"}
    /\ ~flagged /\ codec # "none" /\ HasHeaders(codec, nals) => Headed(codec, nals)

\* What is in front of a sample, and what is saved of it.
InFront(h, put, nals) ==
    /\ h.fc.buf = fc.buf \o put
    /\ fc.state # "resetting" => put = <<>> /\ h.fc.state # "resetting"
    /\ fc.state = "resetting" /\ h.ok =>
         IF h.fc.state = "resetting" THEN put = <<>> /\ NoPicture(nals)
         ELSE put = Header(h.fc) \/ (put = <<>> /\ HasHeaders(codec, nals) /\ Headed(codec, nals))

TakenFrom(s, old, nals) == s = old \/ \E i \in DOMAIN nals : s = <<nals[i]>>

HeaderLoaded(h, nals, flagged) ==
    /\ h.fc \in Constructor /\ h.ok \in BOOLEAN
    /\ codec = "none" => OnlyHeaders(h.fc.header)
    /\ h.fc.in = fc.in /\ h.fc.current = fc.current
    /\ \E put \in {<<>>, Header(h.fc)} : InFront(h, put, nals)
    /\ HasHeaders(codec, Header(fc)) => HasHeaders(codec, Header(h.fc))
    /\ TakenFrom(h.fc.sps, fc.sps, nals) /\ TakenFrom(h.fc.pps, fc.pps, nals)
    /\ flagged /\ codec # "none" =>
         \E s \in {h.fc.sps, h.fc.pps} : \E i \in DOMAIN nals : s = <<nals[i]>>

LEMMA ConstructorFields ==
    ASSUME NEW f \in Constructor
    PROVE  /\ f.state \in States /\ f.header \in Seq(Unit) /\ f.sps \in Singles("sps")
           /\ f.pps \in Singles("pps") /\ f.sei \in Seq(Unit) /\ f.buf \in Seq(Unit)
           /\ f.in \in Seq(Unit) /\ f.current \in {"null", "buf", "in"} /\ f.inReset \in BOOLEAN
           /\ f.buf \o <<>> = f.buf
           /\ f.sps \in Seq(Unit) /\ f.pps \in Seq(Unit) /\ f.sps \o f.pps \in Seq(Unit)
  <1>1. /\ f.state \in States /\ f.header \in Seq(Unit) /\ f.sps \in Singles("sps")
        /\ f.pps \in Singles("pps") /\ f.sei \in Seq(Unit) /\ f.buf \in Seq(Unit)
        /\ f.in \in Seq(Unit) /\ f.current \in {"null", "buf", "in"} /\ f.inReset \in BOOLEAN
    BY DEF Constructor
  <1>2. f.buf \o <<>> = f.buf
    BY <1>1, ConcatEmptySeq
  <1> QED
    BY <1>1, <1>2, SinglesAreUnits, SavedHeader

\* The class for plain streams.
LEMMA BaseLoads ==
    ASSUME StreamShape, codec = "none", NEW nals, NEW flagged, Fits(nals, flagged), NEW room
    PROVE  HeaderLoaded(LoadHeaderBase(nals, flagged, room), nals, flagged)
  <1> DEFINE h == LoadHeaderBase(nals, flagged, room)
  <1>1. fc \in Constructor /\ OnlyHeaders(fc.header) /\ nals \in Seq(Unit) /\ flagged \in BOOLEAN
    BY DEF StreamShape, Fits
  <1>2. /\ fc.header \in Seq(Unit) /\ fc.buf \in Seq(Unit) /\ fc.state \in States
        /\ fc.buf \o <<>> = fc.buf
    BY <1>1, ConstructorFields
  <1>3. \A f : Header(f) = f.header
    BY DEF Header
  <1>4. CASE flagged /\ fc.state = "resetting"
    <2>1. h = [fc |-> [fc EXCEPT !.state = "obtained"], ok |-> TRUE]
      BY <1>4 DEF LoadHeaderBase, Fine
    <2> HIDE DEF h
    <2>2. /\ h.fc \in Constructor /\ h.ok /\ h.fc.buf = fc.buf \o <<>> /\ h.fc.in = fc.in
          /\ h.fc.current = fc.current /\ h.fc.header = fc.header /\ h.fc.state = "obtained"
          /\ h.fc.sps = fc.sps /\ h.fc.pps = fc.pps
      <3>1. h.fc = [fc EXCEPT !.state = "obtained"] /\ h.ok
        BY <2>1
      <3>2. h.fc \in Constructor
        BY <1>1, <3>1 DEF Constructor, States
      <3>3. /\ h.fc.buf = fc.buf /\ h.fc.in = fc.in
            /\ h.fc.current = fc.current /\ h.fc.header = fc.header /\ h.fc.state = "obtained"
            /\ h.fc.sps = fc.sps /\ h.fc.pps = fc.pps
        BY <1>1, <3>1 DEF Constructor
      <3> QED
        BY <1>2, <3>1, <3>2, <3>3
    <2>3. HasHeaders(codec, nals) /\ Headed(codec, nals)
      BY <1>4, NoPictureHeaded DEF Fits
    <2>4. InFront(h, <<>>, nals)
      BY <1>4, <2>2, <2>3 DEF InFront
    <2> QED
      BY <1>1, <1>3, <2>2, <2>4 DEF HeaderLoaded, TakenFrom, h
  <1>5. CASE flagged /\ fc.state # "resetting"
    <2>1. h = [fc |-> [fc EXCEPT !.header = IF "header" \in room THEN @ \o nals ELSE @,
                                 !.state = IF @ = "awaiting" THEN "collecting" ELSE @],
               ok |-> "header" \in room]
      BY <1>5 DEF LoadHeaderBase
    <2>2. fc.header \o nals \in Seq(Unit)
      BY <1>1, <1>2, Concatenated
    <2> HIDE DEF h
    <2>3. /\ h.fc \in Constructor /\ h.ok \in BOOLEAN /\ h.fc.buf = fc.buf \o <<>>
          /\ h.fc.in = fc.in /\ h.fc.current = fc.current
          /\ h.fc.header \in {fc.header, fc.header \o nals} /\ h.fc.state # "resetting"
          /\ h.fc.sps = fc.sps /\ h.fc.pps = fc.pps
      <3>1. /\ h.fc = [fc EXCEPT !.header = IF "header" \in room THEN @ \o nals ELSE @,
                                 !.state = IF @ = "awaiting" THEN "collecting" ELSE @]
            /\ h.ok = ("header" \in room)
        BY <2>1
      <3>2. h.fc.state = IF fc.state = "awaiting" THEN "collecting" ELSE fc.state
        BY <1>1, <3>1 DEF Constructor
      <3>3. h.ok \in BOOLEAN
        BY <3>1
      <3>4. /\ h.fc.buf = fc.buf \o <<>> /\ h.fc.in = fc.in /\ h.fc.current = fc.current
            /\ h.fc.header \in {fc.header, fc.header \o nals}
            /\ h.fc.sps = fc.sps /\ h.fc.pps = fc.pps
        BY <1>1, <1>2, <3>1 DEF Constructor
      <3>5. h.fc \in Constructor
        BY <1>1, <1>2, <2>2, <3>1 DEF Constructor, States
      <3> QED
        BY <1>2, <1>5, <3>2, <3>3, <3>4, <3>5
    <2>4. OnlyHeaders(fc.header \o nals)
      <3>1. OnlyHeaders(nals)
        BY <1>5 DEF Fits
      <3> SUFFICES ASSUME NEW i \in DOMAIN (fc.header \o nals)
                   PROVE  (fc.header \o nals)[i].type = "header"
        BY DEF OnlyHeaders
      <3>2. CASE i \in DOMAIN fc.header
        BY <1>1, <1>2, <3>2, Concatenated DEF OnlyHeaders
      <3>3. CASE i \in Nat /\ i > Len(fc.header) /\ i - Len(fc.header) \in DOMAIN nals
        <4>1. /\ Len(fc.header) \in Nat
              /\ (fc.header \o nals)[Len(fc.header) + (i - Len(fc.header))] = nals[i - Len(fc.header)]
          BY <1>1, <1>2, <3>3, Concatenated
        <4>2. Len(fc.header) + (i - Len(fc.header)) = i
          BY <3>3, <4>1
        <4> QED
          BY <3>1, <3>3, <4>1, <4>2 DEF OnlyHeaders
      <3> QED
        BY <1>1, <1>2, <3>2, <3>3, Concatenated
    <2>5. HasHeaders(codec, fc.header) => HasHeaders(codec, fc.header \o nals)
      BY <1>1, <1>2, HasHeadersConcat
    <2>6. InFront(h, <<>>, nals)
      BY <1>5, <2>3 DEF InFront
    <2> QED
      BY <1>1, <1>3, <2>3, <2>4, <2>5, <2>6 DEF HeaderLoaded, TakenFrom, h
  <1>6. CASE ~flagged /\ fc.state = "resetting"
    <2>1. h = [fc |-> [fc EXCEPT !.buf = IF "header" \in room THEN @ \o fc.header ELSE @,
                                 !.state = "obtained"],
               ok |-> fc.header = <<>> \/ "header" \in room]
      BY <1>6 DEF LoadHeaderBase, Replay
    <2>2. fc.buf \o fc.header \in Seq(Unit)
      BY <1>2, Concatenated
    <2> DEFINE put == IF "header" \in room THEN fc.header ELSE <<>>
    <2>3. /\ h.fc \in Constructor /\ h.ok = (fc.header = <<>> \/ "header" \in room)
          /\ h.fc.buf = fc.buf \o put
          /\ h.fc.in = fc.in /\ h.fc.current = fc.current /\ h.fc.header = fc.header
          /\ h.fc.state = "obtained" /\ h.fc.sps = fc.sps /\ h.fc.pps = fc.pps
      <3> HIDE DEF h
      <3>1. /\ h.fc = [fc EXCEPT !.buf = IF "header" \in room THEN @ \o fc.header ELSE @,
                                 !.state = "obtained"]
            /\ h.ok = (fc.header = <<>> \/ "header" \in room)
        BY <2>1
      <3>2. h.fc.buf = fc.buf \o put
        BY <1>1, <1>2, <3>1 DEF Constructor
      <3>3. h.fc.buf \in Seq(Unit)
        BY <1>2, <2>2, <3>2
      <3> QED
        BY <1>1, <1>2, <3>1, <3>2, <3>3 DEF Constructor, States
    <2> HIDE DEF h
    <2>4. Header(h.fc) = fc.header /\ put \in {<<>>, Header(h.fc)}
      BY <1>3, <2>3
    <2>5. h.ok => put = fc.header
      BY <2>3
    <2>6. InFront(h, put, nals)
      BY <1>6, <2>3, <2>4, <2>5 DEF InFront
    <2> QED
      BY <1>1, <1>3, <1>6, <2>3, <2>4, <2>6 DEF HeaderLoaded, TakenFrom, h
  <1>7. CASE ~flagged /\ fc.state # "resetting"
    <2>1. h = [fc |-> [fc EXCEPT !.state = "obtained"], ok |-> TRUE] \/ h = [fc |-> fc, ok |-> TRUE]
      BY <1>7 DEF LoadHeaderBase, Fine
    <2>2. /\ h.fc \in Constructor /\ h.ok /\ h.fc.buf = fc.buf \o <<>> /\ h.fc.in = fc.in
          /\ h.fc.current = fc.current /\ h.fc.header = fc.header /\ h.fc.state # "resetting"
          /\ h.fc.sps = fc.sps /\ h.fc.pps = fc.pps
      BY <1>1, <1>2, <1>7, <2>1 DEF Constructor, States
    <2> HIDE DEF h
    <2>3. InFront(h, <<>>, nals)
      BY <1>7, <2>2 DEF InFront
    <2> QED
      BY <1>1, <1>3, <1>7, <2>2, <2>3 DEF HeaderLoaded, TakenFrom, h
  <1> QED
    BY <1>1, <1>4, <1>5, <1>6, <1>7

\* SaveHeaders changes nothing but what was found.
LEMMA HeadersSaved ==
    ASSUME StreamShape, codec # "none", NEW nals, NEW flagged, Fits(nals, flagged),
           NEW found \in Finds(nals), NEW saved, saved = SaveHeaders(fc, found)
    PROVE  /\ saved \in Constructor
           /\ saved = [fc EXCEPT !.sps = saved.sps, !.pps = saved.pps, !.sei = saved.sei]
           /\ saved.sps = (IF found.sps = <<>> THEN fc.sps ELSE found.sps)
           /\ saved.pps = (IF found.pps = <<>> THEN fc.pps ELSE found.pps)
           /\ saved.buf = fc.buf /\ saved.in = fc.in /\ saved.current = fc.current
           /\ saved.state = fc.state
           /\ TakenFrom(saved.sps, fc.sps, nals) /\ TakenFrom(saved.pps, fc.pps, nals)
           /\ HasHeaders(codec, fc.sps \o fc.pps) => HasHeaders(codec, saved.sps \o saved.pps)
           /\ Both(found) => HasHeaders(codec, nals)
  <1>1. fc \in Constructor /\ nals \in Seq(Unit)
    BY DEF StreamShape, Fits
  <1>2. /\ found.sps \in Singles("sps") /\ found.pps \in Singles("pps") /\ found.sei \in Seq(Unit)
        /\ found.sps # <<>> => \E i \in DOMAIN nals : found.sps = <<nals[i]>>
        /\ found.pps # <<>> => \E i \in DOMAIN nals : found.pps = <<nals[i]>>
        /\ found.sps # <<>> => \E i \in DOMAIN nals : nals[i].type = "sps"
        /\ found.pps # <<>> => \E i \in DOMAIN nals : nals[i].type = "pps"
    BY <1>1, FoundAreSingles
  <1>3. saved = [fc EXCEPT !.sei = IF found.sei = <<>> THEN @ ELSE found.sei,
                           !.sps = IF found.sps = <<>> THEN @ ELSE found.sps,
                           !.pps = IF found.pps = <<>> THEN @ ELSE found.pps]
    BY <1>1 DEF SaveHeaders, SaveSEI, Constructor
  <1>4. /\ saved \in Constructor
        /\ saved = [fc EXCEPT !.sps = saved.sps, !.pps = saved.pps, !.sei = saved.sei]
        /\ saved.sps = (IF found.sps = <<>> THEN fc.sps ELSE found.sps)
        /\ saved.pps = (IF found.pps = <<>> THEN fc.pps ELSE found.pps)
        /\ saved.buf = fc.buf /\ saved.in = fc.in /\ saved.current = fc.current
        /\ saved.state = fc.state
    BY <1>1, <1>2, <1>3 DEF Constructor
  <1>5. TakenFrom(saved.sps, fc.sps, nals) /\ TakenFrom(saved.pps, fc.pps, nals)
    BY <1>2, <1>4 DEF TakenFrom
  <1>6. ASSUME HasHeaders(codec, fc.sps \o fc.pps) PROVE HasHeaders(codec, saved.sps \o saved.pps)
    <2>1. fc.sps # <<>> /\ fc.pps # <<>>
      BY <1>1, <1>6, ConstructorFields, SavedHeader
    <2>2. saved.sps # <<>> /\ saved.pps # <<>> /\ saved.sps \in Singles("sps") /\ saved.pps \in Singles("pps")
      BY <1>4, <2>1, ConstructorFields
    <2> QED
      BY <2>2, SavedHeader
  <1>7. Both(found) => HasHeaders(codec, nals)
    BY <1>2 DEF Both, HasHeaders, HeaderTypes
  <1> QED
    BY <1>4, <1>5, <1>6, <1>7

LEMMA StateMoved ==
    ASSUME NEW f \in Constructor, NEW st \in States, NEW g, g = [f EXCEPT !.state = st]
    PROVE  /\ g \in Constructor /\ g.state = st /\ g.buf = f.buf /\ g.in = f.in
           /\ g.current = f.current /\ g.sps = f.sps /\ g.pps = f.pps /\ g.header = f.header
  <1>1. g \in Constructor
    BY DEF Constructor
  <1>2. /\ g.state = st /\ g.buf = f.buf /\ g.in = f.in
        /\ g.current = f.current /\ g.sps = f.sps /\ g.pps = f.pps /\ g.header = f.header
    BY DEF Constructor
  <1> QED
    BY <1>1, <1>2

\* The class for H.264 and H.265.
LEMMA AVCLoads ==
    ASSUME StreamShape, codec # "none", NEW nals, NEW flagged, Fits(nals, flagged), NEW room
    PROVE  HeaderLoaded(LoadFoundAVC(FindHeaders(nals), flagged, room), nals, flagged)
  <1>1. fc \in Constructor /\ nals \in Seq(Unit) /\ flagged \in BOOLEAN
    BY DEF StreamShape, Fits
  <1>2. PICK found \in Finds(nals) : found = FindHeaders(nals)
    BY <1>1, HeadersFound
  <1>3. PICK saved : saved = SaveHeaders(fc, found)
    OBVIOUS
  <1>4. /\ saved \in Constructor
        /\ saved.sps = (IF found.sps = <<>> THEN fc.sps ELSE found.sps)
        /\ saved.pps = (IF found.pps = <<>> THEN fc.pps ELSE found.pps)
        /\ saved.buf = fc.buf /\ saved.in = fc.in /\ saved.current = fc.current
        /\ saved.state = fc.state
        /\ TakenFrom(saved.sps, fc.sps, nals) /\ TakenFrom(saved.pps, fc.pps, nals)
        /\ HasHeaders(codec, fc.sps \o fc.pps) => HasHeaders(codec, saved.sps \o saved.pps)
        /\ Both(found) => HasHeaders(codec, nals)
    BY <1>3, HeadersSaved
  <1>5. TakenFrom(fc.sps, fc.sps, nals) /\ TakenFrom(fc.pps, fc.pps, nals)
    BY DEF TakenFrom
  <1>6. \A f : Header(f) = f.sps \o f.pps
    BY DEF Header
  <1>7. flagged => \E s \in {saved.sps, saved.pps} : \E i \in DOMAIN nals : s = <<nals[i]>>
    <2>1. flagged => found.sps # <<>> \/ found.pps # <<>>
      BY <1>1, <1>2, HeadersFound DEF Fits
    <2>2. \A s \in {found.sps, found.pps} : s # <<>> => \E i \in DOMAIN nals : s = <<nals[i]>>
      BY <1>1, FoundAreSingles
    <2> QED
      BY <1>4, <2>1, <2>2
  <1>8. Both(found) => HasHeaders(codec, nals) /\ Headed(codec, nals)
    <2>1. flagged => Headed(codec, nals)
      BY NoPictureHeaded DEF Fits
    <2> QED
      BY <1>1, <1>4, <2>1 DEF Fits
  <1>9. fc.buf \o <<>> = fc.buf /\ fc.state \in States
    BY <1>1, ConstructorFields
  <1> DEFINE h == LoadFoundAVC(FindHeaders(nals), flagged, room)
  <1>10. h = LoadHeaderAVC(found, saved, flagged, room)
    BY <1>2, <1>3 DEF LoadFoundAVC
  <1>11. CASE flagged
    <2> DEFINE st == IF Both(found) THEN AfterHeaders(found)
                     ELSE IF fc.state = "awaiting" THEN "collecting" ELSE fc.state
    <2>1. h.fc = [saved EXCEPT !.state = st] /\ h.ok
      <3>1. h = Fine([saved EXCEPT !.state = IF Both(found) THEN AfterHeaders(found)
                                             ELSE IF @ = "awaiting" THEN "collecting" ELSE @])
        BY <1>10, <1>11 DEF LoadHeaderAVC
      <3>2. h.fc = [saved EXCEPT !.state = IF Both(found) THEN AfterHeaders(found)
                                           ELSE IF @ = "awaiting" THEN "collecting" ELSE @] /\ h.ok
        BY <3>1 DEF Fine
      <3> HIDE DEF h
      <3> QED
        BY <1>4, <3>2 DEF Constructor
    <2>2. /\ st \in States
          /\ fc.state # "resetting" => st # "resetting"
          /\ st = "resetting" <=> ~Both(found) /\ fc.state = "resetting"
      BY <1>9 DEF AfterHeaders, States
    <2> HIDE DEF h, st
    <2>3. /\ h.fc \in Constructor /\ h.fc.state = st /\ h.fc.buf = saved.buf /\ h.fc.in = saved.in
          /\ h.fc.current = saved.current /\ h.fc.sps = saved.sps /\ h.fc.pps = saved.pps
      BY <1>4, <2>1, <2>2, StateMoved
    <2>4. NoPicture(nals)
      BY <1>11 DEF Fits
    <2>5. InFront(h, <<>>, nals)
      BY <1>4, <1>8, <1>9, <2>2, <2>3, <2>4 DEF InFront
    <2> QED
      BY <1>4, <1>6, <1>7, <2>1, <2>3, <2>5 DEF HeaderLoaded, h
  <1>12. CASE ~flagged /\ fc.state = "resetting" /\ Both(found)
    <2>1. h.fc = [saved EXCEPT !.state = "obtained"] /\ h.ok
      <3>1. h = Fine([saved EXCEPT !.state = "obtained"])
        BY <1>10, <1>12 DEF LoadHeaderAVC
      <3> QED
        BY <3>1 DEF Fine
    <2> HIDE DEF h
    <2>2. /\ h.fc \in Constructor /\ h.fc.state = "obtained" /\ h.fc.buf = saved.buf /\ h.fc.in = saved.in
          /\ h.fc.current = saved.current /\ h.fc.sps = saved.sps /\ h.fc.pps = saved.pps
      <3>1. "obtained" \in States
        BY DEF States
      <3> QED
        BY <1>4, <2>1, <3>1, StateMoved
    <2>3. InFront(h, <<>>, nals)
      BY <1>4, <1>8, <1>9, <1>12, <2>2 DEF InFront
    <2> QED
      BY <1>4, <1>6, <1>12, <2>1, <2>2, <2>3 DEF HeaderLoaded, h
  <1>13. CASE ~flagged /\ fc.state = "resetting" /\ ~Both(found)
    <2> DEFINE header == saved.sps \o saved.pps
               put == IF "header" \in room THEN header ELSE <<>>
    <2>1. header \in Seq(Unit) /\ saved.buf \o <<>> = saved.buf /\ saved.buf \in Seq(Unit)
      BY <1>4, ConstructorFields
    <2>2. /\ h.fc = [saved EXCEPT !.buf = IF "header" \in room THEN @ \o header ELSE @,
                                  !.state = "obtained"]
          /\ h.ok = (header = <<>> \/ "header" \in room)
      <3>1. h = Replay(saved, header, room)
        BY <1>10, <1>13 DEF LoadHeaderAVC
      <3> HIDE DEF header
      <3> QED
        BY <3>1 DEF Replay
    <2> HIDE DEF h, header
    <2>3. h.fc.buf = saved.buf \o put
      BY <1>4, <2>1, <2>2 DEF Constructor
    <2>4. saved.buf \o put \in Seq(Unit)
      BY <2>1, Concatenated
    <2>5. h.fc \in Constructor
      BY <1>4, <2>1, <2>2, <2>3, <2>4 DEF Constructor, States
    <2>6. /\ h.fc.state = "obtained" /\ h.fc.in = saved.in
          /\ h.fc.current = saved.current /\ h.fc.sps = saved.sps /\ h.fc.pps = saved.pps
      BY <1>4, <2>2 DEF Constructor
    <2>7. h.ok \in BOOLEAN /\ (h.ok => put = header)
      BY <2>2
    <2>8. Header(h.fc) = header /\ put \in {<<>>, Header(h.fc)}
      BY <1>6, <2>6 DEF header
    <2> HIDE DEF put
    <2>9. InFront(h, put, nals)
      BY <1>4, <1>13, <2>3, <2>6, <2>7, <2>8 DEF InFront
    <2> QED
      BY <1>4, <1>6, <1>13, <2>5, <2>6, <2>7, <2>8, <2>9 DEF HeaderLoaded, h
  <1>14. CASE ~flagged /\ fc.state # "resetting"
    <2>1. \/ h.fc = [fc EXCEPT !.state = "obtained"] /\ h.ok
          \/ \E st \in States : h.fc = [saved EXCEPT !.state = st] /\ h.ok /\ st # "resetting"
          \/ h.fc = fc /\ h.ok
      <3>1. \/ h = Fine([fc EXCEPT !.state = "obtained"])
            \/ h = Fine([saved EXCEPT !.state = IF Both(found) THEN AfterHeaders(found) ELSE @])
            \/ h = Fine(fc)
        BY <1>10, <1>14 DEF LoadHeaderAVC
      <3>2. [saved EXCEPT !.state = IF Both(found) THEN AfterHeaders(found) ELSE @] =
              [saved EXCEPT !.state = IF Both(found) THEN AfterHeaders(found) ELSE fc.state]
        BY <1>4 DEF Constructor
      <3>3. (IF Both(found) THEN AfterHeaders(found) ELSE fc.state) \in States \ {"resetting"}
        BY <1>9, <1>14 DEF AfterHeaders, States
      <3> HIDE DEF h
      <3>4. \A f : Fine(f).fc = f /\ Fine(f).ok
        BY DEF Fine
      <3> QED
        BY <3>1, <3>2, <3>3, <3>4
    <2> HIDE DEF h
    <2>2. \E f \in {fc, saved} :
             /\ h.fc \in Constructor /\ h.ok /\ h.fc.state # "resetting" /\ h.fc.buf = f.buf
             /\ h.fc.in = f.in /\ h.fc.current = f.current /\ h.fc.sps = f.sps /\ h.fc.pps = f.pps
      <3>1. "obtained" \in States
        BY DEF States
      <3>2. CASE h.fc = [fc EXCEPT !.state = "obtained"] /\ h.ok
        BY <1>1, <3>1, <3>2, StateMoved
      <3>3. CASE \E st \in States : h.fc = [saved EXCEPT !.state = st] /\ h.ok /\ st # "resetting"
        BY <1>4, <3>3, StateMoved
      <3>4. CASE h.fc = fc /\ h.ok
        BY <1>1, <1>14, <3>4
      <3> QED
        BY <2>1, <3>2, <3>3, <3>4
    <2>3. InFront(h, <<>>, nals)
      BY <1>4, <1>9, <1>14, <2>2 DEF InFront
    <2> QED
      BY <1>4, <1>5, <1>6, <1>14, <2>2, <2>3 DEF HeaderLoaded, h
  <1> QED
    BY <1>1, <1>11, <1>12, <1>13, <1>14

LEMMA HeaderLoads ==
    ASSUME StreamShape, NEW nals, NEW flagged, Fits(nals, flagged), NEW room
    PROVE  HeaderLoaded(LoadHeader(nals, flagged, room), nals, flagged)
  BY BaseLoads, AVCLoads DEF LoadHeader

\* Load_None puts the sample behind what is there, or uses it in place.
LEMMA SampleLoads ==
    ASSUME NEW h, h.fc \in Constructor, h.ok \in BOOLEAN, NEW nals \in Seq(Unit), NEW room,
           NEW l, l = LoadNone(h, nals, room)
    PROVE  /\ l.fc \in Constructor /\ l.ok \in BOOLEAN /\ l.fc.state = h.fc.state
           /\ l.fc.header = h.fc.header /\ l.fc.sps = h.fc.sps /\ l.fc.pps = h.fc.pps
           /\ ~l.ok => l.fc.current = "null"
           /\ l.ok => /\ h.ok
                      /\ \/ /\ h.fc.buf # <<>> /\ l.fc.buf = h.fc.buf \o nals
                            /\ l.fc.current = "buf" /\ l.fc.in = h.fc.in
                         \/ /\ h.fc.buf = <<>> /\ l.fc.buf = <<>>
                            /\ l.fc.current = "in" /\ l.fc.in = nals
  <1>1. h.fc.buf \in Seq(Unit) /\ h.fc.buf \o nals \in Seq(Unit)
    BY ConstructorFields, Concatenated
  <1>2. \A f : Fine(f).fc = f /\ Fine(f).ok = TRUE
    BY DEF Fine
  <1>3. CASE ~h.ok \/ (h.fc.buf # <<>> /\ "sample" \notin room)
    <2>1. l.fc = [h.fc EXCEPT !.current = "null"] /\ l.ok = FALSE
      BY <1>3 DEF LoadNone, LoadBehind
    <2>2. l.fc \in Constructor
      BY <2>1 DEF Constructor
    <2>3. /\ l.fc.state = h.fc.state /\ l.fc.header = h.fc.header /\ l.fc.sps = h.fc.sps
          /\ l.fc.pps = h.fc.pps /\ l.fc.current = "null"
      BY <2>1 DEF Constructor
    <2> QED
      BY <2>1, <2>2, <2>3
  <1>4. CASE h.ok /\ h.fc.buf # <<>> /\ "sample" \in room
    <2>1. l.fc = [h.fc EXCEPT !.buf = @ \o nals, !.current = "buf"] /\ l.ok = TRUE
      BY <1>2, <1>4 DEF LoadNone, LoadBehind
    <2>2. l.fc \in Constructor
      BY <1>1, <2>1 DEF Constructor
    <2>3. /\ l.fc.state = h.fc.state /\ l.fc.header = h.fc.header /\ l.fc.sps = h.fc.sps
          /\ l.fc.pps = h.fc.pps /\ l.fc.current = "buf" /\ l.fc.buf = h.fc.buf \o nals
          /\ l.fc.in = h.fc.in
      BY <2>1 DEF Constructor
    <2> QED
      BY <1>4, <2>1, <2>2, <2>3
  <1>5. CASE h.ok /\ h.fc.buf = <<>>
    <2>1. l.fc = [h.fc EXCEPT !.in = nals, !.current = "in"] /\ l.ok = TRUE
      BY <1>2, <1>5 DEF LoadNone, LoadBehind
    <2>2. l.fc \in Constructor
      BY <2>1 DEF Constructor
    <2>3. /\ l.fc.state = h.fc.state /\ l.fc.header = h.fc.header /\ l.fc.sps = h.fc.sps
          /\ l.fc.pps = h.fc.pps /\ l.fc.current = "in" /\ l.fc.buf = h.fc.buf
          /\ l.fc.in = nals
      BY <2>1 DEF Constructor
    <2> QED
      BY <1>5, <2>1, <2>2, <2>3
  <1> QED
    BY <1>3, <1>4, <1>5

-----------------------------------------------------------------------------
(* The operations keep the invariant *)

LEMMA UnitsAsSent ==
    ASSUME NEW types \in Seq(UnitTypes), NEW n \in 1 .. MaxLoads
    PROVE  /\ Sample(types, n) \in Seq(Unit) /\ DOMAIN Sample(types, n) = DOMAIN types
           /\ \A i \in DOMAIN types : /\ Sample(types, n)[i].type = types[i]
                                      /\ Sample(types, n)[i].load = n
  <1>1. /\ Sample(types, n) \in Seq(Unit) /\ DOMAIN Sample(types, n) = DOMAIN types
        /\ \A i \in DOMAIN types : Sample(types, n)[i] = [type |-> types[i], load |-> n]
    BY SampleUnits
  <1> HIDE DEF Sample
  <1>2. \A t : [type |-> t, load |-> n].type = t /\ [type |-> t, load |-> n].load = n
    OBVIOUS
  <1> QED
    BY <1>1, <1>2

LEMMA Associative ==
    ASSUME NEW s \in Seq(Unit), NEW t \in Seq(Unit), NEW u \in Seq(Unit)
    PROVE  (s \o t) \o u = s \o (t \o u)
  BY ConcatAssociative

LEMMA ConfigFits ==
    ASSUME StreamConstants, codec \in Codecs, NEW types \in Config[codec], NEW n \in 1 .. MaxLoads
    PROVE  Fits(Sample(types, n), TRUE)
  <1>1. IsConfig(codec, types) /\ codec \in {"none", "avc", "hevc"}
    BY DEF StreamConstants
  <1>2. /\ types \in Seq(UnitTypes)
        /\ \A i \in DOMAIN types : types[i] # "slice" /\ (codec = "none" => types[i] = "header")
    BY <1>1 DEF IsConfig
  <1>3. PICK k \in DOMAIN types : /\ types[k] \in HeaderTypes(codec)
                                  /\ \A i \in 1 .. k - 1 : types[i] \notin {"sps", "pps", "sei"}
    BY <1>1 DEF IsConfig
  <1>4. /\ Sample(types, n) \in Seq(Unit) /\ DOMAIN Sample(types, n) = DOMAIN types
        /\ \A i \in DOMAIN types : Sample(types, n)[i].type = types[i]
    BY <1>2, UnitsAsSent
  <1>5. \A i \in 1 .. k - 1 : i \in DOMAIN types
    BY <1>2, <1>3
  <1>6. NoPicture(Sample(types, n)) /\ (codec = "none" => OnlyHeaders(Sample(types, n)))
    BY <1>2, <1>4 DEF NoPicture, OnlyHeaders
  <1>7. codec = "none" => HasHeaders(codec, Sample(types, n))
    BY <1>3, <1>4 DEF HasHeaders, HeaderTypes
  <1>8. ASSUME codec # "none"
        PROVE  \E j \in DOMAIN Sample(types, n) :
                 /\ Sample(types, n)[j].type \in {"sps", "pps"}
                 /\ \A i \in 1 .. j - 1 : Sample(types, n)[i].type \notin {"sps", "pps", "sei"}
    BY <1>3, <1>4, <1>5, <1>8 DEF HeaderTypes
  <1> QED
    BY <1>4, <1>6, <1>7, <1>8 DEF Fits

LEMMA DataFits ==
    ASSUME StreamConstants, codec \in Codecs, NEW types \in Data[codec], NEW n \in 1 .. MaxLoads
    PROVE  Fits(Sample(types, n), FALSE)
  <1>1. IsData(codec, types)
    BY DEF StreamConstants
  <1>2. types \in Seq(UnitTypes)
    BY <1>1 DEF IsData
  <1>3. /\ Sample(types, n) \in Seq(Unit) /\ DOMAIN Sample(types, n) = DOMAIN types
        /\ \A i \in DOMAIN types : Sample(types, n)[i].type = types[i]
    BY <1>2, UnitsAsSent
  <1>4. ASSUME codec # "none", HasHeaders(codec, Sample(types, n))
        PROVE  Headed(codec, Sample(types, n))
    <2> SUFFICES ASSUME NEW i \in DOMAIN types, types[i] = "slice", NEW type \in HeaderTypes(codec)
                 PROVE  \E j \in 1 .. i - 1 : Sample(types, n)[j].type = type
      BY <1>3 DEF Headed
    <2>1. PICK j \in DOMAIN types : types[j] = type
      BY <1>3, <1>4 DEF HasHeaders
    <2>2. ~(i < j)
      BY <1>1, <1>4, <2>1 DEF IsData
    <2>3. i # j
      BY <1>4, <2>1 DEF HeaderTypes
    <2>4. j \in 1 .. i - 1
      BY <1>2, <2>1, <2>2, <2>3
    <2> QED
      BY <1>3, <2>1, <2>4
  <1> QED
    BY <1>3, <1>4 DEF Fits

LEMMA Behind ==
    ASSUME NEW s \in Seq(Unit), NEW t \in Seq(Unit)
    PROVE  SubSeq(s \o t, Len(s) + 1, Len(s \o t)) = t
  <1>1. /\ s \o t \in Seq(Unit) /\ Len(s \o t) = Len(s) + Len(t)
        /\ Len(s) \in Nat /\ Len(t) \in Nat
        /\ \A i \in 1 .. Len(s) + Len(t) :
              (s \o t)[i] = IF i <= Len(s) THEN s[i] ELSE t[i - Len(s)]
    BY ConcatProperties
  <1> DEFINE u == s \o t
             v == SubSeq(u, Len(s) + 1, Len(u))
  <1>2. \A i \in Len(s) + 1 .. Len(u) : u[i] \in Unit
    BY <1>1
  <1>3. /\ v \in Seq(Unit)
        /\ Len(v) = IF Len(s) + 1 <= Len(u) THEN Len(u) - (Len(s) + 1) + 1 ELSE 0
        /\ \A i \in 1 .. Len(u) - (Len(s) + 1) + 1 : v[i] = u[Len(s) + 1 + i - 1]
    <2>1. Len(s) + 1 \in Int /\ Len(u) \in Int
      BY <1>1
    <2> HIDE DEF u
    <2> QED
      BY <1>2, <2>1, SubSeqProperties
  <1>4. Len(v) = Len(t)
    BY <1>1, <1>3
  <1>5. \A i \in 1 .. Len(v) : v[i] = t[i]
    <2> TAKE i \in 1 .. Len(v)
    <2>1. v[i] = u[Len(s) + i]
      BY <1>1, <1>3, <1>4
    <2>2. u[Len(s) + i] = t[i]
      <3>1. Len(s) + i \in 1 .. Len(s) + Len(t) /\ ~(Len(s) + i <= Len(s)) /\ Len(s) + i - Len(s) = i
        BY <1>1, <1>4
      <3> QED
        BY <1>1, <3>1
    <2> QED
      BY <2>1, <2>2
  <1> HIDE DEF v
  <1> QED
    BY <1>3, <1>4, <1>5, SeqEqual DEF v

LEMMA Split ==
    ASSUME NEW s \in Seq(Unit), NEW n \in 1 .. Len(s)
    PROVE  /\ SubSeq(s, 1, n) \in Seq(Unit) /\ SubSeq(s, n + 1, Len(s)) \in Seq(Unit)
           /\ SubSeq(s, 1, n) \o SubSeq(s, n + 1, Len(s)) = s
  <1>1. Len(s) \in Nat /\ 1 \in 1 .. Len(s) + 1 /\ n \in 1 - 1 .. Len(s) /\ Len(s) \in n .. Len(s)
    OBVIOUS
  <1>2. SubSeq(s, 1, n) \o SubSeq(s, n + 1, Len(s)) = SubSeq(s, 1, Len(s))
    BY <1>1, ConcatAdjacentSubSeq
  <1>3. SubSeq(s, 1, n) \in Seq(Unit) /\ SubSeq(s, n + 1, Len(s)) \in Seq(Unit)
    <2>1. \A i \in 1 .. Len(s) : s[i] \in Unit
      OBVIOUS
    <2>2. \A i \in 1 .. n : s[i] \in Unit
      BY <1>1, <2>1
    <2>3. \A i \in n + 1 .. Len(s) : s[i] \in Unit
      BY <1>1, <2>1
    <2> QED
      BY <1>1, <2>2, <2>3, SubSeqProperties
  <1> QED
    BY <1>2, <1>3, SubSeqFull

\* The end of a stream that grows.
LEMMA TailGrows ==
    ASSUME NEW s \in Seq(Unit), NEW t \in Seq(Unit), NEW k \in 0 .. Len(s)
    PROVE  /\ SubSeq(s, k + 1, Len(s)) \in Seq(Unit)
           /\ SubSeq(s \o t, k + 1, Len(s \o t)) = SubSeq(s, k + 1, Len(s)) \o t
           /\ Len(SubSeq(s, k + 1, Len(s))) = Len(s) - k
           /\ \A i \in 1 .. Len(s) - k : SubSeq(s, k + 1, Len(s))[i] = s[k + i]
  <1>1. /\ Len(s) \in Nat /\ Len(t) \in Nat /\ k \in Nat /\ k <= Len(s)
        /\ \A i \in 1 .. Len(s) : s[i] \in Unit
    OBVIOUS
  <1>2. /\ s \o t \in Seq(Unit) /\ Len(s \o t) = Len(s) + Len(t)
        /\ \A i \in 1 .. Len(s) + Len(t) :
              (s \o t)[i] = IF i <= Len(s) THEN s[i] ELSE t[i - Len(s)]
    BY ConcatProperties
  <1> DEFINE old == SubSeq(s, k + 1, Len(s))
             new == SubSeq(s \o t, k + 1, Len(s \o t))
  <1>3. /\ old \in Seq(Unit) /\ Len(old) = Len(s) - k
        /\ \A i \in 1 .. Len(s) - k : old[i] = s[k + i]
    <2>1. /\ old \in Seq(Unit)
          /\ Len(old) = IF k + 1 <= Len(s) THEN Len(s) - (k + 1) + 1 ELSE 0
          /\ \A i \in 1 .. Len(s) - (k + 1) + 1 : old[i] = s[k + 1 + i - 1]
      <3>1. k + 1 \in Int /\ Len(s) \in Int /\ \A i \in k + 1 .. Len(s) : s[i] \in Unit
        BY <1>1
      <3> QED
        BY <3>1, SubSeqProperties
    <2>2. \A i \in 1 .. Len(s) - k : i \in 1 .. Len(s) - (k + 1) + 1 /\ k + 1 + i - 1 = k + i
      BY <1>1
    <2>3. Len(old) = Len(s) - k
      BY <1>1, <2>1
    <2> QED
      BY <2>1, <2>2, <2>3
  <1>4. /\ new \in Seq(Unit) /\ Len(new) = Len(s) + Len(t) - k
        /\ \A i \in 1 .. Len(s) + Len(t) - k : new[i] = (s \o t)[k + i]
    <2>1. /\ new \in Seq(Unit)
          /\ Len(new) = IF k + 1 <= Len(s \o t) THEN Len(s \o t) - (k + 1) + 1 ELSE 0
          /\ \A i \in 1 .. Len(s \o t) - (k + 1) + 1 : new[i] = (s \o t)[k + 1 + i - 1]
      <3>1. k + 1 \in Int /\ Len(s \o t) \in Int /\ \A i \in k + 1 .. Len(s \o t) : (s \o t)[i] \in Unit
        BY <1>1, <1>2
      <3> QED
        BY <3>1, SubSeqProperties
    <2>2. \A i \in 1 .. Len(s) + Len(t) - k :
              i \in 1 .. Len(s \o t) - (k + 1) + 1 /\ k + 1 + i - 1 = k + i
      BY <1>1, <1>2
    <2>3. Len(new) = Len(s) + Len(t) - k
      BY <1>1, <1>2, <2>1
    <2> QED
      BY <2>1, <2>2, <2>3
  <1> HIDE DEF old, new
  <1>5. /\ old \o t \in Seq(Unit) /\ Len(old \o t) = Len(s) - k + Len(t)
        /\ \A i \in 1 .. Len(s) - k + Len(t) :
              (old \o t)[i] = IF i <= Len(s) - k THEN old[i] ELSE t[i - (Len(s) - k)]
    <2>1. old \in Seq(Unit) /\ Len(old) = Len(s) - k
      BY <1>3
    <2>2. /\ old \o t \in Seq(Unit) /\ Len(old \o t) = Len(old) + Len(t)
          /\ \A i \in 1 .. Len(old) + Len(t) :
                (old \o t)[i] = IF i <= Len(old) THEN old[i] ELSE t[i - Len(old)]
      BY <2>1, ConcatProperties
    <2> QED
      BY <2>1, <2>2
  <1>6. Len(new) = Len(old \o t)
    BY <1>1, <1>4, <1>5
  <1>7. \A i \in 1 .. Len(new) : new[i] = (old \o t)[i]
    <2> TAKE i \in 1 .. Len(new)
    <2>1. /\ i \in 1 .. Len(s) + Len(t) - k /\ i \in 1 .. Len(s) - k + Len(t)
          /\ k + i \in 1 .. Len(s) + Len(t) /\ k + i - Len(s) = i - (Len(s) - k)
          /\ (k + i <= Len(s)) <=> (i <= Len(s) - k)
      BY <1>1, <1>4
    <2>2. CASE i <= Len(s) - k
      <3>1. i \in 1 .. Len(s) - k
        BY <2>1, <2>2, <1>1
      <3>2. new[i] = s[k + i] /\ (old \o t)[i] = old[i] /\ old[i] = s[k + i]
        BY <1>2, <1>3, <1>4, <1>5, <2>1, <2>2, <3>1
      <3> QED
        BY <3>2
    <2>3. CASE ~(i <= Len(s) - k)
      <3>1. ~(k + i <= Len(s))
        BY <2>1, <2>3
      <3>2. new[i] = t[k + i - Len(s)]
        <4>1. new[i] = (s \o t)[k + i]
          BY <1>4, <2>1
        <4> QED
          BY <1>2, <2>1, <3>1, <4>1
      <3>3. (old \o t)[i] = t[i - (Len(s) - k)]
        BY <1>5, <2>1, <2>3
      <3> QED
        BY <2>1, <3>2, <3>3
    <2> QED
      BY <2>2, <2>3
  <1>8. new = old \o t
    BY <1>4, <1>5, <1>6, <1>7, SeqEqual
  <1> QED
    BY <1>3, <1>8 DEF old, new

\* The number of a saved header.
LEMMA LatestInHeader ==
    ASSUME NEW sps \in Singles("sps"), NEW pps \in Singles("pps"), NEW n
    PROVE  (\E i \in DOMAIN (sps \o pps) : (sps \o pps)[i].load >= n) <=>
             \E s \in {sps, pps} : s # <<>> /\ s[1].load >= n
  <1>1. sps \in Seq(Unit) /\ pps \in Seq(Unit)
    BY SinglesAreUnits
  <1>2. \A s \in {sps, pps} : s # <<>> => DOMAIN s = {1} /\ Len(s) = 1
    BY SinglesAreUnits
  <1>3. Len(<<>>) = 0 /\ DOMAIN <<>> = {}
    OBVIOUS
  <1>4. ASSUME NEW i \in DOMAIN (sps \o pps), (sps \o pps)[i].load >= n
        PROVE  \E s \in {sps, pps} : s # <<>> /\ s[1].load >= n
    <2>1. CASE i \in DOMAIN sps
      <3>1. (sps \o pps)[i] = sps[i] /\ sps # <<>> /\ i = 1
        BY <1>1, <1>2, <1>3, <2>1, Concatenated
      <3> QED
        BY <1>4, <3>1
    <2>2. CASE i \in Nat /\ i > Len(sps) /\ i - Len(sps) \in DOMAIN pps
      <3>1. (sps \o pps)[Len(sps) + (i - Len(sps))] = pps[i - Len(sps)] /\ Len(sps) \in Nat
        BY <1>1, <2>2, Concatenated
      <3>2. Len(sps) + (i - Len(sps)) = i
        BY <2>2, <3>1
      <3>3. pps # <<>> /\ i - Len(sps) = 1
        BY <1>2, <1>3, <2>2
      <3> QED
        BY <1>4, <3>1, <3>2, <3>3
    <2> QED
      BY <1>1, <2>1, <2>2, Concatenated
  <1>5. ASSUME sps # <<>>, sps[1].load >= n
        PROVE  \E i \in DOMAIN (sps \o pps) : (sps \o pps)[i].load >= n
    <2>1. 1 \in DOMAIN (sps \o pps) /\ (sps \o pps)[1] = sps[1]
      BY <1>1, <1>2, <1>5, Concatenated
    <2> QED
      BY <1>5, <2>1
  <1>6. ASSUME pps # <<>>, pps[1].load >= n
        PROVE  \E i \in DOMAIN (sps \o pps) : (sps \o pps)[i].load >= n
    <2>1. Len(sps) + 1 \in DOMAIN (sps \o pps) /\ (sps \o pps)[Len(sps) + 1] = pps[1]
      BY <1>1, <1>2, <1>6, Concatenated
    <2> QED
      BY <1>6, <2>1
  <1> QED
    BY <1>4, <1>5, <1>6

\* Everything before a step.
LEMMA InvFacts ==
    ASSUME StreamInv
    PROVE  /\ fc \in Constructor /\ fc.buf \in Seq(Unit) /\ fc.in \in Seq(Unit)
           /\ owed \in Seq(Unit) /\ given \in Seq(Unit) /\ Bitstream \in Seq(Unit)
           /\ clean => Bitstream = IF fc.in # <<>> THEN fc.in ELSE fc.buf
           /\ loads \in Nat /\ newest \in Nat /\ newest <= loads
           /\ since \in 0 .. Len(given) /\ (clean => since \in 0 .. Len(owed))
  <1>1. fc \in Constructor /\ loads \in Nat /\ newest \in Nat /\ newest <= loads
    BY DEF StreamInv, StreamShape
  <1>2. fc.buf \in Seq(Unit) /\ fc.in \in Seq(Unit)
    BY <1>1, ConstructorFields
  <1>3. /\ owed \in Seq(Unit) /\ given \in Seq(Unit) /\ Bitstream \in Seq(Unit)
        /\ clean => Bitstream = IF fc.in # <<>> THEN fc.in ELSE fc.buf
    BY <1>1, <1>2 DEF StreamInv, StreamShape, InUseAlone, Bitstream
  <1>4. since \in 0 .. Len(given)
    BY DEF StreamInv, StreamShape
  <1>5. ASSUME clean PROVE since \in 0 .. Len(owed)
    <2>1. owed = given \o Bitstream
      BY <1>5 DEF StreamInv, NothingLost
    <2>2. Len(owed) = Len(given) + Len(Bitstream) /\ Len(given) \in Nat /\ Len(Bitstream) \in Nat
      BY <1>3, <2>1, ConcatProperties
    <2> QED
      BY <1>4, <2>2
  <1> QED
    BY <1>1, <1>2, <1>3, <1>4, <1>5

LEMMA AppendFrameKeeps ==
    ASSUME StreamConstants, StreamInv, NEW types, NEW flagged,
           Fits(Sample(types, loads + 1), flagged),
           \A i \in DOMAIN Sample(types, loads + 1) : Sample(types, loads + 1)[i].load = loads + 1,
           NEW room, AppendFrame(types, flagged, room)
    PROVE  StreamInv'
  <1> DEFINE nals == Sample(types, loads + 1)
  <1>1. PICK h : h = LoadHeader(nals, flagged, room)
    OBVIOUS
  <1>2. PICK l : l = LoadNone(h, nals, room)
    OBVIOUS
  <1> DEFINE more == IF l.fc.current = "in" THEN nals
                     ELSE SubSeq(l.fc.buf, Len(fc.buf) + 1, Len(l.fc.buf))
  <1>3. /\ phase = "idle" /\ loads < MaxLoads /\ fc' = l.fc
        /\ phase' = (IF l.ok THEN "loaded" ELSE "idle") /\ owed' = owed \o more
        /\ clean' = (clean /\ l.ok) /\ loads' = loads + 1
        /\ newest' = (IF flagged THEN loads + 1 ELSE newest)
        /\ codec' = codec /\ resets' = resets /\ given' = given /\ seeking' = seeking
        /\ dropped' = dropped /\ since' = since
    BY <1>1, <1>2 DEF AppendFrame, ledgerVars
  <1>4. \A i \in DOMAIN nals : nals[i].load = loads + 1
    OBVIOUS
  <1> HIDE DEF nals
  <1>5. Fits(nals, flagged) /\ nals \in Seq(Unit) /\ flagged \in BOOLEAN
    BY DEF Fits, nals
  <1>6. /\ fc \in Constructor /\ fc.buf \in Seq(Unit) /\ fc.in \in Seq(Unit)
        /\ owed \in Seq(Unit) /\ given \in Seq(Unit) /\ Bitstream \in Seq(Unit)
        /\ clean => Bitstream = IF fc.in # <<>> THEN fc.in ELSE fc.buf
        /\ loads \in Nat /\ newest \in Nat /\ newest <= loads
        /\ clean => since \in 0 .. Len(owed)
    BY InvFacts
  <1>7. StreamShape /\ InUseAlone /\ NothingLost /\ HeaderIsComing /\ LatestHeaderSaved
    BY DEF StreamInv
  <1>8. HeaderLoaded(h, nals, flagged)
    BY <1>1, <1>5, <1>7, HeaderLoads
  <1>9. /\ h.fc \in Constructor /\ h.ok \in BOOLEAN
        /\ codec = "none" => OnlyHeaders(h.fc.header)
        /\ h.fc.in = fc.in /\ h.fc.current = fc.current
        /\ HasHeaders(codec, Header(fc)) => HasHeaders(codec, Header(h.fc))
        /\ TakenFrom(h.fc.sps, fc.sps, nals) /\ TakenFrom(h.fc.pps, fc.pps, nals)
        /\ flagged /\ codec # "none" =>
             \E s \in {h.fc.sps, h.fc.pps} : \E i \in DOMAIN nals : s = <<nals[i]>>
    BY <1>8 DEF HeaderLoaded
  <1>10. PICK put \in {<<>>, Header(h.fc)} : InFront(h, put, nals)
    BY <1>8 DEF HeaderLoaded
  <1>11. /\ l.fc \in Constructor /\ l.ok \in BOOLEAN /\ l.fc.state = h.fc.state
         /\ l.fc.header = h.fc.header /\ l.fc.sps = h.fc.sps /\ l.fc.pps = h.fc.pps
         /\ ~l.ok => l.fc.current = "null"
         /\ l.ok => /\ h.ok
                    /\ \/ /\ h.fc.buf # <<>> /\ l.fc.buf = h.fc.buf \o nals
                          /\ l.fc.current = "buf" /\ l.fc.in = h.fc.in
                       \/ /\ h.fc.buf = <<>> /\ l.fc.buf = <<>>
                          /\ l.fc.current = "in" /\ l.fc.in = nals
    BY <1>2, <1>5, <1>9, SampleLoads
  <1>12. Header(l.fc) = Header(h.fc)
    BY <1>11 DEF Header
  <1>13. /\ Header(h.fc) \in Seq(Unit) /\ NoPicture(Header(h.fc))
    <2>1. CASE codec = "none"
      <3>1. Header(h.fc) = h.fc.header /\ h.fc.header \in Seq(Unit)
        BY <1>9, <2>1, ConstructorFields DEF Header
      <3> QED
        BY <1>9, <2>1, <3>1 DEF OnlyHeaders, NoPicture
    <2>2. CASE codec # "none"
      <3>1. Header(h.fc) = h.fc.sps \o h.fc.pps /\ h.fc.sps \in Singles("sps") /\ h.fc.pps \in Singles("pps")
        BY <1>9, <2>2, ConstructorFields DEF Header
      <3> QED
        BY <3>1, SavedHeader
    <2> QED
      BY <2>1, <2>2
  <1>14. put \in Seq(Unit) /\ NoPicture(put)
    <2>1. <<>> \in Seq(Unit) /\ NoPicture(<<>>)
      BY DEF NoPicture
    <2> QED
      BY <1>10, <1>13, <2>1
  <1>15. l.fc.buf \in Seq(Unit) /\ more \in Seq(Unit)
    <2>1. l.fc.buf \in Seq(Unit)
      BY <1>11, ConstructorFields
    <2>2. Len(fc.buf) + 1 \in Int /\ Len(l.fc.buf) \in Int
      BY <1>6, <2>1
    <2>3. \A i \in Len(fc.buf) + 1 .. Len(l.fc.buf) : l.fc.buf[i] \in Unit
      BY <1>6, <2>1
    <2>4. SubSeq(l.fc.buf, Len(fc.buf) + 1, Len(l.fc.buf)) \in Seq(Unit)
      BY <2>2, <2>3, SubSeqProperties
    <2> QED
      BY <1>5, <2>1, <2>4
  <1>16. owed' \in Seq(Unit)
    BY <1>3, <1>6, <1>15, Concatenated
  <1>17. StreamShape'
    <2>1. OnlyHeaders(fc.header)' <=> OnlyHeaders(fc'.header)
      BY DEF OnlyHeaders
    <2>2. phase' \in {"idle", "loaded"} /\ clean' \in BOOLEAN /\ loads' \in 0 .. MaxLoads
      BY <1>3, <1>6, <1>7, <1>11 DEF StreamConstants, StreamShape
    <2>3. newest' \in 0 .. loads'
      BY <1>3, <1>5, <1>6
    <2> QED
      BY <1>3, <1>7, <1>9, <1>11, <1>16, <2>1, <2>2, <2>3 DEF StreamShape
  <1>18. /\ h.fc.buf = fc.buf \o put
         /\ h.fc.buf = <<>> => fc.buf = <<>> /\ put = <<>>
         /\ h.fc.buf \o nals = fc.buf \o (put \o nals)
    <2>1. h.fc.buf = fc.buf \o put
      BY <1>10 DEF InFront
    <2>2. fc.buf \in Seq(Unit)
      BY <1>6
    <2>3. fc.buf \o put = <<>> <=> fc.buf = <<>> /\ put = <<>>
      BY <1>14, <2>2, ConcatEqualIffEmpty
    <2>4. (fc.buf \o put) \o nals = fc.buf \o (put \o nals)
      BY <1>5, <1>14, <2>2, Associative
    <2> QED
      BY <2>1, <2>3, <2>4
  <1>19. ASSUME l.ok PROVE more = put \o nals
    <2>1. CASE h.fc.buf # <<>> /\ l.fc.buf = h.fc.buf \o nals /\ l.fc.current = "buf"
      <3>1. l.fc.buf = fc.buf \o (put \o nals)
        BY <1>18, <2>1
      <3>2. put \o nals \in Seq(Unit)
        BY <1>5, <1>14, Concatenated
      <3>3. more = SubSeq(fc.buf \o (put \o nals), Len(fc.buf) + 1, Len(fc.buf \o (put \o nals)))
        BY <2>1, <3>1
      <3> QED
        BY <1>6, <3>2, <3>3, Behind
    <2>2. CASE h.fc.buf = <<>> /\ l.fc.current = "in"
      <3>1. put = <<>>
        BY <1>18, <2>2
      <3>2. <<>> \o nals = nals
        BY <1>5, ConcatEmptySeq
      <3> QED
        BY <2>2, <3>1, <3>2
    <2> QED
      BY <1>11, <1>19, <2>1, <2>2
  <1>20. clean => fc.in = <<>>
    BY <1>3, <1>7 DEF InUseAlone
  <1>21. InUseAlone'
    <2>1. l.fc.current = "in" => l.fc.buf = <<>>
      BY <1>11
    <2>2. clean' => l.ok /\ clean
      BY <1>3
    <2>3. clean' /\ l.fc.in # <<>> => phase' = "loaded" /\ l.fc.current = "in"
      BY <1>3, <1>9, <1>11, <1>20, <2>2
    <2> QED
      BY <1>3, <2>1, <2>3 DEF InUseAlone
  <1>22. NothingLost'
    <2> SUFFICES ASSUME clean, l.ok PROVE owed' = given \o Bitstream'
      BY <1>3 DEF NothingLost
    <2>1. Bitstream = fc.buf /\ owed = given \o fc.buf
      BY <1>6, <1>7, <1>20 DEF NothingLost
    <2>2. Bitstream' = fc.buf \o (put \o nals)
      <3>1. Bitstream' = IF l.fc.buf = <<>> /\ l.fc.in # <<>> THEN l.fc.in ELSE l.fc.buf
        BY <1>3 DEF Bitstream
      <3>2. CASE h.fc.buf # <<>> /\ l.fc.buf = h.fc.buf \o nals
        <4>1. l.fc.buf = fc.buf \o (put \o nals)
          BY <1>18, <3>2
        <4>2. h.fc.buf \in Seq(Unit)
          BY <1>9, ConstructorFields
        <4>3. l.fc.buf # <<>>
          BY <1>5, <3>2, <4>2, ConcatEqualIffEmpty
        <4> QED
          BY <3>1, <4>1, <4>3
      <3>3. CASE h.fc.buf = <<>> /\ l.fc.buf = <<>> /\ l.fc.in = nals
        <4>1. put = <<>> /\ fc.buf = <<>>
          BY <1>18, <3>3
        <4>2. <<>> \o nals = nals
          BY <1>5, ConcatEmptySeq
        <4> QED
          BY <3>1, <3>3, <4>1, <4>2
      <3> QED
        BY <1>11, <3>2, <3>3
    <2>3. put \o nals \in Seq(Unit)
      BY <1>5, <1>14, Concatenated
    <2>4. (given \o fc.buf) \o (put \o nals) = given \o (fc.buf \o (put \o nals))
      <3>1. given \in Seq(Unit) /\ fc.buf \in Seq(Unit)
        BY <1>6
      <3> QED
        BY <2>3, <3>1, Associative
    <2> QED
      BY <1>3, <1>19, <2>1, <2>2, <2>4
  <1>23. HeaderIsComing'
    <2>0. /\ HasHeaders(codec, Header(fc))' <=> HasHeaders(codec, Header(l.fc))
          /\ HasHeaders(codec, Recent)' <=> HasHeaders(codec, Recent')
          /\ Headed(codec, Recent)' <=> Headed(codec, Recent')
          /\ NoPicture(Recent)' <=> NoPicture(Recent')
      <3>1. Header(fc)' = Header(l.fc)
        BY <1>3 DEF Header
      <3>2. HasHeaders(codec, Header(fc))' <=> HasHeaders(codec, Header(fc)')
        BY <1>3 DEF HasHeaders, HeaderTypes
      <3>3. HasHeaders(codec, Recent)' <=> HasHeaders(codec, Recent')
        BY <1>3 DEF HasHeaders, HeaderTypes
      <3>4. Headed(codec, Recent)' <=> Headed(codec, Recent')
        BY <1>3 DEF Headed, HeaderTypes
      <3>5. NoPicture(Recent)' <=> NoPicture(Recent')
        BY DEF NoPicture
      <3> QED
        BY <3>1, <3>2, <3>3, <3>4, <3>5
    <2> SUFFICES ASSUME clean, l.ok, seeking
                 PROVE  IF l.fc.state = "resetting"
                        THEN HasHeaders(codec, Header(l.fc)) /\ NoPicture(Recent')
                        ELSE HasHeaders(codec, Recent') /\ Headed(codec, Recent')
      BY <1>3, <2>0 DEF HeaderIsComing
    <2>1. /\ Recent' = Recent \o (put \o nals) /\ put \o nals \in Seq(Unit) /\ h.ok
          /\ Recent \in Seq(Unit)
      <3>1. owed' = owed \o (put \o nals) /\ put \o nals \in Seq(Unit) /\ h.ok
        BY <1>3, <1>5, <1>11, <1>14, <1>19, Concatenated
      <3>2. owed \in Seq(Unit) /\ since \in 0 .. Len(owed) /\ since' = since
        BY <1>3, <1>6
      <3> QED
        BY <3>1, <3>2, TailGrows DEF Recent
    <2>2. /\ fc.state # "resetting" => put = <<>> /\ h.fc.state # "resetting"
          /\ fc.state = "resetting" =>
               IF h.fc.state = "resetting" THEN put = <<>> /\ NoPicture(nals)
               ELSE put = Header(h.fc) \/ (put = <<>> /\ HasHeaders(codec, nals) /\ Headed(codec, nals))
      BY <1>10, <2>1 DEF InFront
    <2>3. <<>> \o nals = nals
      BY <1>5, ConcatEmptySeq
    <2>4. CASE fc.state # "resetting"
      <3>1. HasHeaders(codec, Recent) /\ Headed(codec, Recent)
        BY <1>7, <2>4 DEF HeaderIsComing
      <3> QED
        BY <1>6, <1>11, <2>1, <2>2, <2>4, <3>1, HasHeadersConcat, HeadedConcat
    <2>5. CASE fc.state = "resetting"
      <3>1. HasHeaders(codec, Header(fc)) /\ NoPicture(Recent)
        BY <1>7, <2>5 DEF HeaderIsComing
      <3>2. HasHeaders(codec, Header(h.fc)) /\ Headed(codec, Recent)
        BY <1>9, <3>1, NoPictureHeaded
      <3>3. CASE h.fc.state = "resetting"
        <4>1. put \o nals = nals /\ NoPicture(nals)
          BY <2>2, <2>3, <2>5, <3>3
        <4>2. NoPicture(Recent')
          BY <1>5, <1>6, <2>1, <3>1, <4>1, NoPictureConcat
        <4> QED
          BY <1>11, <1>12, <3>2, <3>3, <4>2
      <3>4. CASE h.fc.state # "resetting"
        <4>1. HasHeaders(codec, put \o nals) /\ Headed(codec, put \o nals)
          <5>1. CASE put = Header(h.fc)
            <6>1. HasHeaders(codec, put) /\ Headed(codec, put)
              BY <1>14, <3>2, <5>1, NoPictureHeaded
            <6> QED
              BY <1>5, <1>14, <6>1, HasHeadersConcat, HeadedConcat
          <5>2. CASE put = <<>> /\ HasHeaders(codec, nals) /\ Headed(codec, nals)
            BY <2>3, <5>2
          <5> QED
            BY <2>2, <2>5, <3>4, <5>1, <5>2
        <4>2. HasHeaders(codec, Recent') /\ Headed(codec, Recent')
          BY <1>6, <2>1, <3>2, <4>1, HasHeadersConcat, HeadedConcat
        <4> QED
          BY <1>11, <3>4, <4>2
      <3> QED
        BY <3>3, <3>4
    <2> QED
      BY <2>4, <2>5
  <1>24. LatestHeaderSaved'
    <2> SUFFICES ASSUME codec # "none", newest' # 0
                 PROVE  \E i \in DOMAIN (l.fc.sps \o l.fc.pps) : (l.fc.sps \o l.fc.pps)[i].load >= newest'
      BY <1>3 DEF LatestHeaderSaved, Header
    <2>1. /\ h.fc.sps \in Singles("sps") /\ h.fc.pps \in Singles("pps")
          /\ fc.sps \in Singles("sps") /\ fc.pps \in Singles("pps")
      BY <1>6, <1>9, ConstructorFields
    <2>2. \A i \in DOMAIN nals : <<nals[i]>> # <<>> /\ <<nals[i]>>[1].load = loads + 1
      BY <1>4
    <2>3. newest' <= loads + 1 /\ loads + 1 >= newest'
      BY <1>3, <1>6
    <2>4. \E s \in {h.fc.sps, h.fc.pps} : s # <<>> /\ s[1].load >= newest'
      <3>1. CASE flagged
        <4>1. PICK s \in {h.fc.sps, h.fc.pps} : \E i \in DOMAIN nals : s = <<nals[i]>>
          BY <1>9, <3>1
        <4> QED
          BY <2>2, <2>3, <4>1
      <3>2. CASE ~flagged
        <4>1. newest' = newest /\ newest # 0
          BY <1>3, <3>2
        <4>2. \E i \in DOMAIN (fc.sps \o fc.pps) : (fc.sps \o fc.pps)[i].load >= newest
          BY <1>7, <4>1 DEF LatestHeaderSaved, Header
        <4>3. PICK s \in {fc.sps, fc.pps} : s # <<>> /\ s[1].load >= newest
          BY <2>1, <4>2, LatestInHeader
        <4>4. ASSUME NEW t, TakenFrom(t, s, nals)
              PROVE  t # <<>> /\ t[1].load >= newest'
          BY <2>2, <2>3, <4>1, <4>3, <4>4 DEF TakenFrom
        <4> QED
          BY <1>9, <4>3, <4>4
      <3> QED
        BY <3>1, <3>2
    <2>5. \E i \in DOMAIN (h.fc.sps \o h.fc.pps) : (h.fc.sps \o h.fc.pps)[i].load >= newest'
      BY <2>1, <2>4, LatestInHeader
    <2> QED
      BY <1>11, <2>5
  <1> QED
    BY <1>17, <1>21, <1>22, <1>23, <1>24 DEF StreamInv

\* What a step that changes neither the state, the saved headers nor what was loaded keeps.
LEMMA HeadersStay ==
    ASSUME StreamInv, codec' = codec, owed' = owed, fc'.state = fc.state, fc'.header = fc.header,
           fc'.sps = fc.sps, fc'.pps = fc.pps, clean' => clean, seeking' = seeking,
           newest' = newest, since' = since
    PROVE  HeaderIsComing' /\ LatestHeaderSaved'
  <1>1. Header(fc)' = Header(fc)
    BY DEF Header
  <1>0. Recent' = Recent
    BY DEF Recent
  <1>2. /\ HasHeaders(codec, Header(fc))' <=> HasHeaders(codec, Header(fc))
        /\ HasHeaders(codec, Recent)' <=> HasHeaders(codec, Recent)
        /\ Headed(codec, Recent)' <=> Headed(codec, Recent)
        /\ NoPicture(Recent)' <=> NoPicture(Recent)
    <2>1. HasHeaders(codec, Header(fc))' <=> HasHeaders(codec, Header(fc))
      BY <1>1 DEF HasHeaders, HeaderTypes
    <2>2. HasHeaders(codec, Recent)' <=> HasHeaders(codec, Recent)
      BY <1>0 DEF HasHeaders, HeaderTypes
    <2>3. Headed(codec, Recent)' <=> Headed(codec, Recent)
      BY <1>0 DEF Headed, HeaderTypes
    <2>4. NoPicture(Recent)' <=> NoPicture(Recent)
      BY <1>0 DEF NoPicture
    <2> QED
      BY <2>1, <2>2, <2>3, <2>4
  <1>3. HeaderIsComing'
    BY <1>2 DEF StreamInv, HeaderIsComing
  <1>4. LatestHeaderSaved'
    BY <1>1 DEF StreamInv, LatestHeaderSaved
  <1> QED
    BY <1>3, <1>4

\* OnlyHeaders of the next state.
LEMMA HeaderStays ==
    ASSUME StreamShape, codec' = codec, fc'.header = fc.header
    PROVE  (codec = "none" => OnlyHeaders(fc.header))'
  BY DEF StreamShape, OnlyHeaders

LEMMA DecodeKeeps ==
    ASSUME StreamInv, NEW n, Decode(n) PROVE StreamInv'
  <1> DEFINE rest == SubSeq(Bitstream, n + 1, Len(Bitstream))
             first == SubSeq(Bitstream, 1, n)
  <1>1. /\ phase = "loaded" /\ n \in 1 .. Len(Bitstream) /\ given' = given \o first
        /\ fc' = IF Bitstream = fc.buf THEN [fc EXCEPT !.buf = rest] ELSE [fc EXCEPT !.in = rest]
        /\ codec' = codec /\ phase' = phase /\ loads' = loads /\ resets' = resets /\ owed' = owed
        /\ clean' = clean /\ seeking' = seeking /\ newest' = newest
        /\ dropped' = dropped /\ since' = since
    BY DEF Decode, ledgerVars
  <1>2. /\ fc \in Constructor /\ fc.buf \in Seq(Unit) /\ fc.in \in Seq(Unit)
        /\ owed \in Seq(Unit) /\ given \in Seq(Unit) /\ Bitstream \in Seq(Unit)
        /\ clean => Bitstream = IF fc.in # <<>> THEN fc.in ELSE fc.buf
    BY InvFacts
  <1>3. StreamShape /\ InUseAlone /\ NothingLost
    BY DEF StreamInv
  <1>4. first \in Seq(Unit) /\ rest \in Seq(Unit) /\ first \o rest = Bitstream
    BY <1>1, <1>2, Split
  <1>5. Bitstream # <<>>
    <2>1. Len(Bitstream) # 0
      BY <1>1
    <2> QED
      BY <2>1
  <1> HIDE DEF first, rest
  <1>6. /\ fc' \in Constructor /\ fc'.state = fc.state /\ fc'.header = fc.header
        /\ fc'.sps = fc.sps /\ fc'.pps = fc.pps /\ fc'.current = fc.current
        /\ \/ Bitstream = fc.buf /\ fc'.buf = rest /\ fc'.in = fc.in
           \/ Bitstream # fc.buf /\ fc'.buf = fc.buf /\ fc'.in = rest
    <2>1. CASE Bitstream = fc.buf
      <3>1. fc' = [fc EXCEPT !.buf = rest]
        BY <1>1, <2>1
      <3>2. fc' \in Constructor
        BY <1>2, <1>4, <3>1 DEF Constructor
      <3>3. /\ fc'.state = fc.state /\ fc'.header = fc.header /\ fc'.sps = fc.sps
            /\ fc'.pps = fc.pps /\ fc'.current = fc.current /\ fc'.buf = rest /\ fc'.in = fc.in
        BY <1>2, <3>1 DEF Constructor
      <3> QED
        BY <2>1, <3>2, <3>3
    <2>2. CASE Bitstream # fc.buf
      <3>1. fc' = [fc EXCEPT !.in = rest]
        BY <1>1, <2>2
      <3>2. fc' \in Constructor
        BY <1>2, <1>4, <3>1 DEF Constructor
      <3>3. /\ fc'.state = fc.state /\ fc'.header = fc.header /\ fc'.sps = fc.sps
            /\ fc'.pps = fc.pps /\ fc'.current = fc.current /\ fc'.buf = fc.buf /\ fc'.in = rest
        BY <1>2, <3>1 DEF Constructor
      <3> QED
        BY <2>2, <3>2, <3>3
    <2> QED
      BY <2>1, <2>2
  <1>7. Bitstream # fc.buf => Bitstream = fc.in /\ fc.buf = <<>>
    BY DEF Bitstream
  <1>8. StreamShape'
    <2>1. given' \in Seq(Unit) /\ since' \in 0 .. Len(given')
      <3>1. given' \in Seq(Unit) /\ Len(given') = Len(given) + Len(first)
        BY <1>1, <1>2, <1>4, ConcatProperties
      <3>2. Len(given) \in Nat /\ Len(first) \in Nat /\ since \in 0 .. Len(given)
        BY <1>2, <1>3, <1>4 DEF StreamShape
      <3> QED
        BY <1>1, <3>1, <3>2
    <2>2. (codec = "none" => OnlyHeaders(fc.header))'
      BY <1>1, <1>3, <1>6, HeaderStays
    <2> QED
      BY <1>1, <1>3, <1>6, <2>1, <2>2 DEF StreamShape
  <1>9. clean => (fc.in # <<>> => fc.current = "in" /\ fc.buf = <<>>)
    BY <1>3 DEF InUseAlone
  <1>10. InUseAlone'
    <2>1. fc.current = "in" => fc.buf = <<>>
      BY <1>3 DEF InUseAlone
    <2>2. fc'.current = "in" => fc'.buf = <<>>
      BY <1>5, <1>6, <2>1
    <2>3. clean /\ fc'.in # <<>> => phase = "loaded" /\ fc.current = "in"
      <3>1. fc.in # <<>> \/ fc'.in = <<>> \/ Bitstream # fc.buf
        BY <1>6
      <3> QED
        BY <1>1, <1>5, <1>7, <1>9, <3>1
    <2> QED
      BY <1>1, <1>6, <2>2, <2>3 DEF InUseAlone
  <1>11. NothingLost'
    <2> SUFFICES ASSUME clean PROVE owed = given' \o Bitstream'
      BY <1>1 DEF NothingLost
    <2>1. Bitstream' = rest
      <3>1. Bitstream' = IF fc'.buf = <<>> /\ fc'.in # <<>> THEN fc'.in ELSE fc'.buf
        BY DEF Bitstream
      <3>2. CASE Bitstream = fc.buf /\ fc'.buf = rest /\ fc'.in = fc.in
        <4>1. fc.in = <<>>
          BY <1>5, <1>9, <3>2
        <4> QED
          BY <3>1, <3>2, <4>1
      <3>3. CASE Bitstream # fc.buf /\ fc'.buf = fc.buf /\ fc'.in = rest
        BY <1>7, <3>1, <3>3
      <3> QED
        BY <1>6, <3>2, <3>3
    <2>2. owed = given \o (first \o rest)
      BY <1>3, <1>4 DEF NothingLost
    <2> QED
      <3>1. (given \o first) \o rest = given \o (first \o rest)
        BY <1>2, <1>4, Associative
      <3> QED
        BY <1>1, <2>1, <2>2, <3>1
  <1> QED
    BY <1>1, <1>6, <1>8, <1>10, <1>11, HeadersStay DEF StreamInv

LEMMA UnloadKeeps ==
    ASSUME StreamInv, NEW room \in BOOLEAN, Unload(room) PROVE StreamInv'
  <1>1. /\ phase = "loaded" /\ fc' = [BstBufSync(room) EXCEPT !.inReset = FALSE]
        /\ clean' = (clean /\ (room \/ fc.current # "in" \/ fc.in = <<>>)) /\ phase' = "idle"
        /\ codec' = codec /\ loads' = loads /\ resets' = resets /\ owed' = owed
        /\ given' = given /\ seeking' = seeking /\ newest' = newest
        /\ dropped' = dropped /\ since' = since
    BY DEF Unload, ledgerVars
  <1>2. /\ fc \in Constructor /\ fc.buf \in Seq(Unit) /\ fc.in \in Seq(Unit)
        /\ clean => Bitstream = IF fc.in # <<>> THEN fc.in ELSE fc.buf
    BY InvFacts
  <1>3. StreamShape /\ InUseAlone /\ NothingLost
    BY DEF StreamInv
  <1>4. /\ fc' \in Constructor /\ fc'.state = fc.state /\ fc'.header = fc.header
        /\ fc'.sps = fc.sps /\ fc'.pps = fc.pps /\ fc'.current = "null"
        /\ IF fc.current = "in" /\ fc.in # <<>>
           THEN fc'.buf = (IF room THEN fc.in ELSE fc.buf) /\ fc'.in = <<>>
           ELSE fc'.buf = fc.buf /\ fc'.in = fc.in
    <2>1. CASE fc.current = "in" /\ fc.in # <<>>
      <3>1. PICK kept \in Seq(Unit) : kept = IF room THEN fc.in ELSE fc.buf
        BY <1>2
      <3>2. fc' = [fc EXCEPT !.buf = kept, !.in = <<>>, !.current = "null", !.inReset = FALSE]
        <4>1. BstBufSync(room) = [fc EXCEPT !.buf = kept, !.in = <<>>, !.current = "null"]
          BY <1>2, <2>1, <3>1 DEF BstBufSync, Constructor
        <4> QED
          BY <1>1, <1>2, <4>1 DEF Constructor
      <3>3. <<>> \in Seq(Unit)
        OBVIOUS
      <3>4. fc' \in Constructor
        BY <1>2, <3>1, <3>2, <3>3 DEF Constructor
      <3>5. /\ fc'.state = fc.state /\ fc'.header = fc.header /\ fc'.sps = fc.sps
            /\ fc'.pps = fc.pps /\ fc'.current = "null" /\ fc'.buf = kept /\ fc'.in = <<>>
        BY <1>2, <3>2 DEF Constructor
      <3> QED
        BY <2>1, <3>1, <3>4, <3>5
    <2>2. CASE ~(fc.current = "in" /\ fc.in # <<>>)
      <3>1. fc' = [fc EXCEPT !.current = "null", !.inReset = FALSE]
        <4>1. BstBufSync(room) = [fc EXCEPT !.current = "null"]
          BY <2>2 DEF BstBufSync
        <4> QED
          BY <1>1, <1>2, <4>1 DEF Constructor
      <3>2. fc' \in Constructor
        BY <1>2, <3>1 DEF Constructor
      <3>3. /\ fc'.state = fc.state /\ fc'.header = fc.header /\ fc'.sps = fc.sps
            /\ fc'.pps = fc.pps /\ fc'.current = "null" /\ fc'.buf = fc.buf /\ fc'.in = fc.in
        BY <1>2, <3>1 DEF Constructor
      <3> QED
        BY <2>2, <3>2, <3>3
    <2> QED
      BY <2>1, <2>2
  <1>5. StreamShape'
    <2>1. (codec = "none" => OnlyHeaders(fc.header))'
      BY <1>1, <1>3, <1>4, HeaderStays
    <2>2. clean' \in BOOLEAN /\ phase' \in {"idle", "loaded"}
      BY <1>1, <1>3 DEF StreamShape
    <2> QED
      BY <1>1, <1>3, <1>4, <2>1, <2>2 DEF StreamShape
  <1>6. clean' => clean
    BY <1>1
  <1>7. clean => (fc.in # <<>> => fc.current = "in" /\ fc.buf = <<>>)
    BY <1>3 DEF InUseAlone
  <1>8. InUseAlone'
    <2>1. clean' => fc'.in = <<>>
      BY <1>4, <1>6, <1>7
    <2> QED
      BY <1>4, <2>1 DEF InUseAlone
  <1>9. NothingLost'
    <2> SUFFICES ASSUME clean' PROVE Bitstream' = Bitstream
      BY <1>1, <1>3, <1>6 DEF NothingLost
    <2>1. Bitstream' = fc'.buf
      BY <1>4, <1>6, <1>7 DEF Bitstream
    <2>2. fc.current = "in" /\ fc.in # <<>> => room
      BY <1>1
    <2> QED
      BY <1>2, <1>4, <1>6, <1>7, <2>1, <2>2
  <1> QED
    BY <1>1, <1>4, <1>5, <1>6, <1>8, <1>9, HeadersStay DEF StreamInv

LEMMA GiveUpKeeps == ASSUME StreamInv, GiveUp PROVE StreamInv'
  <1>1. /\ phase' = "idle" /\ clean' = FALSE /\ codec' = codec /\ fc' = fc /\ loads' = loads
        /\ resets' = resets /\ owed' = owed /\ given' = given /\ seeking' = seeking /\ newest' = newest
        /\ dropped' = dropped /\ since' = since
    BY DEF GiveUp, ledgerVars
  <1>2. StreamShape'
    BY <1>1 DEF StreamInv, StreamShape, OnlyHeaders
  <1>3. InUseAlone' /\ NothingLost'
    BY <1>1 DEF StreamInv, InUseAlone, NothingLost
  <1> QED
    BY <1>1, <1>2, <1>3, HeadersStay DEF StreamInv

\* What both kinds of reset keep; where the ledger goes on is the caller's.
LEMMA ResetKeeps ==
    ASSUME StreamConstants, StreamInv, Reset,
           owed' \in Seq(Unit), given' \in Seq(Unit), clean' \in BOOLEAN,
           since' \in 0 .. Len(given'), dropped' \subseteq 1 .. since',
           clean' => owed' = given' /\ Recent' = <<>>
    PROVE  StreamInv'
  <1>1. /\ resets < MaxResets /\ fc' = ResetConstructor /\ resets' = resets + 1
        /\ seeking' = (fc.state # "awaiting" /\ Complete(Header(fc)))
        /\ codec' = codec /\ phase' = phase /\ loads' = loads /\ newest' = newest
    BY DEF Reset
  <1>2. fc \in Constructor /\ StreamShape
    BY InvFacts DEF StreamInv
  <1>3. <<>> \in Seq(Unit) /\ DOMAIN <<>> = {}
    OBVIOUS
  <1> DEFINE st == IF fc.state = "awaiting" THEN fc.state ELSE "resetting"
  <1>4. fc' = [fc EXCEPT !.buf = <<>>, !.in = <<>>, !.current = "null", !.inReset = TRUE, !.state = st]
    BY <1>1, <1>2 DEF ResetConstructor, Constructor
  <1>5. st \in States
    BY <1>2, ConstructorFields DEF States
  <1>6. fc.state # "awaiting" => st = "resetting"
    OBVIOUS
  <1> HIDE DEF st
  <1>8. fc' \in Constructor
    BY <1>2, <1>3, <1>4, <1>5 DEF Constructor
  <1>9. /\ fc'.state = st /\ fc'.buf = <<>> /\ fc'.in = <<>> /\ fc'.current = "null"
        /\ fc'.header = fc.header /\ fc'.sps = fc.sps /\ fc'.pps = fc.pps
    BY <1>2, <1>4 DEF Constructor
  <1>10. Header(fc)' = Header(fc)
    BY <1>1, <1>9 DEF Header
  <1>11. StreamShape'
    <2>1. (codec = "none" => OnlyHeaders(fc.header))'
      BY <1>1, <1>2, <1>9, HeaderStays
    <2>2. resets' \in 0 .. MaxResets /\ seeking' \in BOOLEAN
      BY <1>1, <1>2 DEF StreamConstants, StreamShape
    <2> QED
      BY <1>1, <1>2, <1>8, <2>1, <2>2 DEF StreamShape
  <1>12. InUseAlone'
    BY <1>9 DEF InUseAlone
  <1>13. NothingLost'
    <2> SUFFICES ASSUME clean' PROVE owed' = given' \o Bitstream'
      BY DEF NothingLost
    <2>1. Bitstream' = <<>>
      BY <1>9 DEF Bitstream
    <2>2. given' \o <<>> = given'
      BY ConcatEmptySeq
    <2> QED
      BY <2>1, <2>2
  <1>14. HeaderIsComing'
    <2> SUFFICES ASSUME clean', seeking'
                 PROVE  fc'.state = "resetting" /\ HasHeaders(codec, Header(fc))' /\ NoPicture(Recent)'
      BY DEF HeaderIsComing
    <2>1. NoPicture(Recent)'
      BY <1>3 DEF NoPicture
    <2>2. HasHeaders(codec, Header(fc))' <=> Complete(Header(fc))
      BY <1>1, <1>10 DEF HasHeaders, HeaderTypes, Complete
    <2>3. fc'.state = "resetting" /\ Complete(Header(fc))
      BY <1>1, <1>6, <1>9
    <2> QED
      BY <2>1, <2>2, <2>3
  <1>15. LatestHeaderSaved'
    BY <1>1, <1>10 DEF StreamInv, LatestHeaderSaved
  <1> QED
    BY <1>11, <1>12, <1>13, <1>14, <1>15 DEF StreamInv

\* From a given position to the end of a stream that is no longer.
LEMMA NothingBehind ==
    ASSUME NEW s \in Seq(Unit) PROVE SubSeq(s, Len(s) + 1, Len(s)) = <<>>
  <1>1. Len(s) \in Nat
    OBVIOUS
  <1> QED
    BY <1>1, SubSeqEmpty

LEMMA SeekKeeps == ASSUME StreamConstants, StreamInv, Seek PROVE StreamInv'
  <1>1. /\ Reset /\ owed' = <<>> /\ given' = <<>> /\ dropped' = {} /\ since' = 0 /\ clean' = TRUE
    BY DEF Seek
  <1>2. <<>> \in Seq(Unit) /\ Len(<<>>) = 0
    OBVIOUS
  <1>3. Recent' = <<>>
    <2>1. SubSeq(<<>>, Len(<<>>) + 1, Len(<<>>)) = <<>>
      BY <1>2, NothingBehind
    <2> QED
      BY <1>1, <1>2, <2>1 DEF Recent
  <1> QED
    BY <1>1, <1>2, <1>3, ResetKeeps

LEMMA FormatChangeKeeps == ASSUME StreamConstants, StreamInv, FormatChange PROVE StreamInv'
  <1> DEFINE hand == Len(given) + 1 .. Len(given) + Len(Bitstream)
  <1>1. /\ Reset /\ given' = given \o Bitstream /\ dropped' = dropped \cup hand
        /\ since' = Len(given) + Len(Bitstream) /\ owed' = owed /\ clean' = clean
    BY DEF FormatChange
  <1>2. /\ owed \in Seq(Unit) /\ given \in Seq(Unit) /\ Bitstream \in Seq(Unit)
        /\ since \in 0 .. Len(given)
    BY InvFacts
  <1>3. /\ given' \in Seq(Unit) /\ Len(given') = Len(given) + Len(Bitstream)
        /\ Len(given) \in Nat /\ Len(Bitstream) \in Nat
    BY <1>1, <1>2, ConcatProperties
  <1>4. clean \in BOOLEAN /\ dropped \subseteq 1 .. since
    BY DEF StreamInv, StreamShape
  <1>5. since' \in 0 .. Len(given')
    BY <1>1, <1>3
  <1>6. dropped' \subseteq 1 .. since'
    <2>1. \A n \in 1 .. since : n \in 1 .. Len(given) + Len(Bitstream)
      BY <1>2, <1>3
    <2>2. \A n \in hand : n \in 1 .. Len(given) + Len(Bitstream)
      BY <1>3
    <2> QED
      BY <1>1, <1>4, <2>1, <2>2
  <1>7. ASSUME clean' PROVE owed' = given' /\ Recent' = <<>>
    <2>1. owed' = given'
      BY <1>1, <1>7 DEF StreamInv, NothingLost
    <2>2. Recent' = SubSeq(owed', Len(owed') + 1, Len(owed'))
      BY <1>1, <1>3, <2>1 DEF Recent
    <2> QED
      BY <1>3, <2>1, <2>2, NothingBehind
  <1> QED
    BY <1>1, <1>2, <1>3, <1>4, <1>5, <1>6, <1>7, ResetKeeps

LEMMA StreamStarts == ASSUME StreamConstants, Init PROVE StreamInv
  <1>1. /\ codec \in Codecs /\ fc = Fresh /\ phase = "idle" /\ loads = 0 /\ resets = 0
        /\ owed = <<>> /\ given = <<>> /\ clean = TRUE /\ seeking = FALSE /\ newest = 0
        /\ dropped = {} /\ since = 0
    BY DEF Init
  <1>2. <<>> \in Seq(Unit) /\ <<>> \o <<>> = <<>> /\ DOMAIN <<>> = {}
    <2>1. <<>> \in Seq(Unit) /\ DOMAIN <<>> = {}
      OBVIOUS
    <2> QED
      BY <2>1, ConcatEmptySeq
  <1>3. Fresh \in Constructor
    BY <1>2 DEF Fresh, Constructor, States, Singles
  <1>4. /\ Fresh.header = <<>> /\ Fresh.buf = <<>> /\ Fresh.in = <<>> /\ Fresh.current = "null"
    BY DEF Fresh
  <1>5. StreamShape
    <2>1. OnlyHeaders(fc.header)
      BY <1>1, <1>2, <1>4 DEF OnlyHeaders
    <2>2. /\ loads \in 0 .. MaxLoads /\ resets \in 0 .. MaxResets /\ newest \in 0 .. loads
          /\ clean \in BOOLEAN /\ seeking \in BOOLEAN
          /\ since \in 0 .. Len(given) /\ dropped \subseteq 1 .. since
      <3>1. MaxLoads \in Nat /\ MaxResets \in Nat
        BY DEF StreamConstants
      <3>2. clean \in BOOLEAN /\ seeking \in BOOLEAN
        BY <1>1
      <3>3. loads = 0 /\ resets = 0 /\ newest = 0
        BY <1>1
      <3>4. Len(given) = 0 /\ since = 0 /\ dropped = {}
        BY <1>1
      <3> QED
        BY <3>1, <3>2, <3>3, <3>4
    <2> QED
      BY <1>1, <1>2, <1>3, <2>1, <2>2 DEF StreamShape
  <1> QED
    BY <1>1, <1>2, <1>4, <1>5 DEF StreamInv, InUseAlone, NothingLost, Bitstream, HeaderIsComing,
                                  LatestHeaderSaved

LEMMA StreamStep == ASSUME StreamConstants, StreamInv, [Next]_streamVars PROVE StreamInv'
  <1>1. codec \in Codecs /\ loads \in Nat
    BY InvFacts DEF StreamInv, StreamShape
  <1>2. ASSUME NEW types, NEW flagged \in BOOLEAN, NEW room, AppendFrame(types, flagged, room),
               types \in IF flagged THEN Config[codec] ELSE Data[codec]
        PROVE  StreamInv'
    <2>1. loads + 1 \in 1 .. MaxLoads
      BY <1>1, <1>2 DEF AppendFrame, StreamConstants
    <2>2. types \in Seq(UnitTypes)
      BY <1>1, <1>2 DEF StreamConstants, IsConfig, IsData
    <2>3. Fits(Sample(types, loads + 1), flagged)
      <3>1. CASE flagged
        <4>1. Fits(Sample(types, loads + 1), TRUE) /\ flagged = TRUE
          BY <1>1, <1>2, <2>1, <3>1, ConfigFits
        <4> QED
          BY <4>1
      <3>2. CASE ~flagged
        <4>1. Fits(Sample(types, loads + 1), FALSE) /\ flagged = FALSE
          BY <1>1, <1>2, <2>1, <3>2, DataFits
        <4> QED
          BY <4>1
      <3> QED
        BY <3>1, <3>2
    <2>4. \A i \in DOMAIN Sample(types, loads + 1) : Sample(types, loads + 1)[i].load = loads + 1
      BY <2>1, <2>2, UnitsAsSent
    <2> QED
      BY <1>2, <2>3, <2>4, AppendFrameKeeps
  <1>3. CASE \E room \in Rooms : Load(room)
    <2>1. PICK room \in Rooms : Load(room)
      BY <1>3
    <2>2. CASE \E types \in Config[codec] : AppendFrame(types, TRUE, room)
      BY <1>2, <2>2
    <2>3. CASE \E types \in Data[codec] : AppendFrame(types, FALSE, room)
      BY <1>2, <2>3
    <2> QED
      BY <2>1, <2>2, <2>3 DEF Load
  <1>4. CASE \E n \in 1 .. Len(Bitstream) : Decode(n)
    BY <1>4, DecodeKeeps
  <1>5. CASE \E room \in KeepRoom : Unload(room)
    BY <1>5, UnloadKeeps DEF KeepRoom
  <1>6. CASE GiveUp
    BY <1>6, GiveUpKeeps
  <1>7. CASE Seek \/ FormatChange
    BY <1>7, SeekKeeps, FormatChangeKeeps
  <1>8. CASE UNCHANGED streamVars
    <2>1. /\ codec' = codec /\ phase' = phase /\ clean' = clean /\ fc' = fc /\ loads' = loads
          /\ resets' = resets /\ owed' = owed /\ given' = given /\ seeking' = seeking
          /\ newest' = newest /\ dropped' = dropped /\ since' = since
      BY <1>8 DEF streamVars
    <2>2. StreamShape'
      BY <2>1 DEF StreamInv, StreamShape, OnlyHeaders
    <2>3. InUseAlone' /\ NothingLost'
      BY <2>1 DEF StreamInv, InUseAlone, NothingLost, Bitstream
    <2> QED
      BY <2>1, <2>2, <2>3, HeadersStay DEF StreamInv
  <1> QED
    BY <1>3, <1>4, <1>5, <1>6, <1>7, <1>8 DEF Next

-----------------------------------------------------------------------------
(* The theorems *)

LEMMA StreamInvariant == ASSUME StreamConstants PROVE Spec => []StreamInv
  <1>1. Init => StreamInv
    BY StreamStarts
  <1>2. StreamInv /\ [Next]_streamVars => StreamInv'
    BY StreamStep
  <1> QED
    BY <1>1, <1>2, PTL DEF Spec

\* The members of the classes have their types, and while the caller's data are in use nothing is
\* buffered (Load_None, BstBufSync).
THEOREM StreamTypeCorrect == ASSUME StreamConstants PROVE Spec => []StreamTypeOK
  <1>1. StreamInv => StreamTypeOK
    <2> SUFFICES ASSUME StreamInv PROVE StreamTypeOK
      OBVIOUS
    <2>1. fc \in Constructor /\ owed \in Seq(Unit) /\ given \in Seq(Unit)
      BY InvFacts
    <2>2. /\ fc.state \in States /\ fc.current \in {"null", "buf", "in"} /\ fc.inReset \in BOOLEAN
          /\ {fc.header, fc.sps, fc.pps, fc.sei, fc.buf, fc.in, owed, given} \subseteq Seq(Unit)
      BY <2>1, ConstructorFields
    <2>3. \A s \in Seq(Unit) : IsStream(s)
      <3> SUFFICES ASSUME NEW s \in Seq(Unit), NEW i \in DOMAIN s PROVE s[i].load \in 1 .. MaxLoads
        BY DEF IsStream
      <3>1. s[i] \in Unit
        OBVIOUS
      <3> QED
        BY <3>1 DEF Unit
    <2>4. since \in 0 .. Len(given) /\ dropped \subseteq 1 .. since
      BY DEF StreamInv, StreamShape
    <2> QED
      BY <2>2, <2>3, <2>4 DEF StreamInv, StreamShape, InUseAlone, StreamTypeOK
  <1> QED
    BY <1>1, StreamInvariant, PTL

\* Between two seeks what was loaded, with the headers put in front of it, leaves the constructor in
\* order and without a gap, whatever the decoder leaves over from call to call: a unit the decoder
\* does not get was in hand at a change of the format (Load_None, BstBufSync, GetMfxBitstream,
\* HandleFormatChange).
THEOREM StreamIsWhole == ASSUME StreamConstants PROVE Spec => []NothingLost
  <1>1. StreamInv => NothingLost
    BY DEF StreamInv
  <1> QED
    BY <1>1, StreamInvariant, PTL

\* After a seek, and after a change of the format, no picture reaches the decoder before a header
\* (LoadHeader in the Resetting state).
THEOREM PicturesBehindHeaders == ASSUME StreamConstants PROVE Spec => []HeaderAfterSeek
  <1>1. StreamInv => HeaderAfterSeek
    <2> SUFFICES ASSUME StreamInv, clean, seeking, NEW i \in since + 1 .. Len(given),
                        given[i].type = "slice", NEW type \in HeaderTypes(codec)
                 PROVE  \E j \in DOMAIN SubSeq(given, since + 1, i - 1) :
                            SubSeq(given, since + 1, i - 1)[j].type = type
      BY DEF HeaderAfterSeek, Complete, HeaderTypes
    <2>1. /\ given \in Seq(Unit) /\ Bitstream \in Seq(Unit) /\ owed = given \o Bitstream
          /\ owed \in Seq(Unit) /\ since \in 0 .. Len(given) /\ since \in 0 .. Len(owed)
      BY InvFacts DEF StreamInv, NothingLost
    <2>2. /\ Len(given) \in Nat /\ Len(Bitstream) \in Nat /\ Len(owed) = Len(given) + Len(Bitstream)
          /\ \A k \in 1 .. Len(given) : owed[k] = given[k]
      BY <2>1, ConcatProperties
    <2>3. /\ Recent \in Seq(Unit) /\ Len(Recent) = Len(owed) - since
          /\ \A k \in 1 .. Len(owed) - since : Recent[k] = owed[since + k]
      BY <2>1, TailGrows DEF Recent
    <2> DEFINE place == i - since
    <2>4. /\ place \in DOMAIN Recent /\ place \in 1 .. Len(owed) - since /\ since + place = i
          /\ i \in 1 .. Len(given)
      BY <2>1, <2>2, <2>3
    <2>5. Recent[place].type = "slice"
      BY <2>2, <2>3, <2>4
    <2>6. Headed(codec, Recent)
      BY <2>4, <2>5 DEF StreamInv, HeaderIsComing, NoPicture
    <2>7. PICK j \in 1 .. place - 1 : Recent[j].type = type
      BY <2>4, <2>5, <2>6 DEF Headed
    <2>8. /\ j \in 1 .. Len(owed) - since /\ since + j \in 1 .. Len(given)
          /\ j \in 1 .. i - 1 - (since + 1) + 1 /\ since + 1 + j - 1 = since + j
      BY <2>1, <2>2, <2>4
    <2>9. given[since + j].type = type
      BY <2>2, <2>3, <2>7, <2>8
    <2>10. \A k \in since + 1 .. i - 1 : given[k] \in Unit
      BY <2>1, <2>2, <2>4
    <2>11. /\ SubSeq(given, since + 1, i - 1) \in Seq(Unit)
           /\ Len(SubSeq(given, since + 1, i - 1)) =
                 IF since + 1 <= i - 1 THEN i - 1 - (since + 1) + 1 ELSE 0
           /\ \A k \in 1 .. i - 1 - (since + 1) + 1 :
                 SubSeq(given, since + 1, i - 1)[k] = given[since + 1 + k - 1]
      <3>1. since + 1 \in Int /\ i - 1 \in Int
        BY <2>1, <2>2, <2>4
      <3> QED
        BY <2>10, <3>1, SubSeqProperties
    <2>12. j \in 1 .. Len(SubSeq(given, since + 1, i - 1))
      BY <2>1, <2>2, <2>4, <2>8, <2>11
    <2>13. j \in DOMAIN SubSeq(given, since + 1, i - 1)
      BY <2>11, <2>12
    <2>14. SubSeq(given, since + 1, i - 1)[j] = given[since + j]
      BY <2>8, <2>11
    <2> QED
      BY <2>9, <2>13, <2>14
  <1> QED
    BY <1>1, StreamInvariant, PTL

\* The header that arrived last is among those a reset puts aside (SaveHeaders).
THEOREM LatestIsSaved == ASSUME StreamConstants PROVE Spec => []LatestHeaderSaved
  <1>1. StreamInv => LatestHeaderSaved
    BY DEF StreamInv
  <1> QED
    BY <1>1, StreamInvariant, PTL
==============================================================================
