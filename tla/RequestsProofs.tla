--------------------------- MODULE RequestsProofs ----------------------------
(***************************************************************************)
(* What the parts that serve a request promise, for every size of their    *)
(* tables and any number of threads, requests, connections and nodes.  The *)
(* parts share no variable, so each has an inductive invariant of its own, *)
(* and a step of another part leaves that invariant's variables alone.     *)
(***************************************************************************)
EXTENDS MCRequests, Counting, SequenceTheorems, WellFoundedInduction

requestsVars == <<part, parserVars, treeVars, connVars, cacheVars, sessVars, limitVars,
                  userVars, timerVars>>

-----------------------------------------------------------------------------
(* The rate limiter *)

Windows == 1..MaxWindow

LimitTypes ==
  /\ window \in Windows
  /\ entries \in [Key -> SUBSET [window : Windows, count : Nat]]
  /\ \A k \in Key : \A d, e \in entries[k] : d = e
  /\ th \in [Thread -> [stage : {"idle", "locking", "next", "rejected", "answered"},
                        key : SUBSET Key, win : 0..MaxWindow, retryAfter : BOOLEAN]]
  /\ \A t \in Thread : th[t].stage = "locking" => th[t].win \in Windows
  /\ passed \in [Windows -> [Key -> Nat]]
  /\ newest \in Windows
  /\ late \in [Key -> Nat]

\* The table is as new as its newest request, and no count passes the limit.
EntriesOld ==
  \A k \in Key : \A e \in entries[k] : e.window <= newest /\ e.count <= Limit

\* What more than the late requests of a key can account for in window w: the
\* count of its entry; when the entry is gone, nothing in the newest window,
\* and one limit in an older one, where only another late request comes.
Allowed(k, w) ==
  IF \E e \in entries[k] : e.window = w THEN (CHOOSE e \in entries[k] : TRUE).count
  ELSE IF w < newest THEN Limit ELSE 0

Accounted ==
  \A k \in Key, w \in Windows :
    /\ passed[w][k] <= Limit * late[k] + Allowed(k, w)
    /\ w > newest => passed[w][k] = 0

TableBounded == IsFiniteSet(Lim!Used) /\ Cardinality(Lim!Used) <= MaxKeys

LimitInv == LimitTypes /\ EntriesOld /\ Accounted /\ TableBounded

LEMMA LimitInitially == Lim!Init => LimitInv
<1> SUFFICES ASSUME Lim!Init PROVE LimitInv
  OBVIOUS
<1> USE DEF Lim!Init
<1>1. LimitTypes
  BY LimitNumbers DEF LimitTypes, Windows, Lim!NoCall
<1>2. EntriesOld
  BY DEF EntriesOld
<1>3. Accounted
  <2> SUFFICES ASSUME NEW k \in Key, NEW w \in Windows
               PROVE  passed[w][k] <= Limit * late[k] + Allowed(k, w) /\ passed[w][k] = 0
    BY DEF Accounted
  <2>1. passed[w][k] = 0 /\ late[k] = 0
    BY DEF Windows
  <2>2. Allowed(k, w) \in Nat
    BY LimitNumbers DEF Allowed
  <2>3. Limit * late[k] = 0
    BY <2>1, LimitNumbers
  <2> QED  BY <2>1, <2>2, <2>3
<1>4. TableBounded
  <2>1. Lim!Used = {}
    BY DEF Lim!Used
  <2> QED  BY <2>1, FS_EmptySet, LimitNumbers DEF TableBounded
<1> QED  BY <1>1, <1>2, <1>3, <1>4 DEF LimitInv

\* One more late request is worth one more limit.
LEMMA OneLimitMore ==
  ASSUME NEW l \in Nat
  PROVE  Limit * l \in Nat /\ Limit * (l + 1) = Limit * l + Limit
BY LimitNumbers

LEMMA AllowedIsNumber ==
  ASSUME LimitTypes, NEW k \in Key, NEW w \in Windows
  PROVE  /\ Allowed(k, w) \in Nat
         /\ \A e \in entries[k] : e.window = w => Allowed(k, w) = e.count
         /\ (\A e \in entries[k] : e.window # w)
              => Allowed(k, w) = IF w < newest THEN Limit ELSE 0
<1>1. \A e \in entries[k] : e.count \in Nat
  BY DEF LimitTypes
<1>2. \A e \in entries[k] : (CHOOSE x \in entries[k] : TRUE) = e
  BY DEF LimitTypes
<1> QED  BY <1>1, <1>2, LimitNumbers DEF Allowed

\* The table after old windows were thrown out for a request of window w.
LEMMA CleanedKeeps ==
  ASSUME LimitTypes, NEW k \in Key, NEW w \in Windows
  PROVE  LET es == Lim!Cleaned(k, w)
         IN  /\ es \in [Key -> SUBSET [window : Windows, count : Nat]]
             /\ es[k] = entries[k]
             /\ \A j \in Key : /\ es[j] \subseteq entries[j]
                               /\ \A e \in entries[j] : e \notin es[j] => e.window < w
<1> DEFINE es == Lim!Cleaned(k, w)
<1>1. CASE entries[k] = {} /\ Lim!Cardinality(Lim!Used) >= MaxKeys
  <2>1. es = [j \in Key |-> {e \in entries[j] : e.window >= w}]
    BY <1>1 DEF Lim!Cleaned
  <2>2. \A j \in Key : \A e \in entries[j] : e.window \in Windows
    BY DEF LimitTypes
  <2>3. \A j \in Key : \A e \in entries[j] : ~(e.window >= w) => e.window < w
    BY <2>2 DEF Windows
  <2> QED  BY <1>1, <2>1, <2>3 DEF LimitTypes
<1>2. CASE ~(entries[k] = {} /\ Lim!Cardinality(Lim!Used) >= MaxKeys)
  <2>1. es = entries
    BY <1>2 DEF Lim!Cleaned
  <2> QED  BY <2>1 DEF LimitTypes
<1> QED  BY <1>1, <1>2

\* The instance counts as this module does.
LEMMA LimitCardinality == \A S : Lim!Cardinality(S) = Cardinality(S)
BY DEF Lim!Cardinality, Cardinality

\* A request of window w for key k meets the entry e of that window, or a new
\* one, and leaves the entry n with or without one more count.
LEMMA CountKeeps ==
  ASSUME LimitInv, NEW k \in Key, NEW w \in Windows,
         NEW full \in BOOLEAN, NEW ok \in BOOLEAN,
         NEW es, es = Lim!Cleaned(k, w),
         NEW e, e = Lim!Current(es, k, w),
         ok => ~full /\ e.count < Limit, full => entries[k] = {},
         entries' = IF full THEN es
                    ELSE [es EXCEPT ![k] = {IF ok THEN [e EXCEPT !.count = @ + 1] ELSE e}],
         passed' = IF ok THEN [passed EXCEPT ![w][k] = @ + 1] ELSE passed,
         newest' = IF w > newest THEN w ELSE newest,
         late' = IF w < newest THEN [late EXCEPT ![k] = @ + 1] ELSE late,
         LimitTypes'
  PROVE  EntriesOld' /\ Accounted'
<1> DEFINE n == IF ok THEN [e EXCEPT !.count = @ + 1] ELSE e
<1> USE DEF LimitInv
<1>1. /\ es \in [Key -> SUBSET [window : Windows, count : Nat]]
      /\ es[k] = entries[k]
      /\ \A j \in Key : /\ es[j] \subseteq entries[j]
                        /\ \A x \in entries[j] : x \notin es[j] => x.window < w
  BY CleanedKeeps
<1>2. /\ e \in [window : Windows, count : Nat]
      /\ e.window = w /\ e.count <= Limit
      /\ e \in entries[k] \/ (e.count = 0 /\ \A x \in entries[k] : x.window # w)
  <2>1. CASE \E x \in es[k] : x.window = w
    <3>1. PICK x \in es[k] : x.window = w
      BY <2>1
    <3>2. e = x
      BY <1>1, <2>1, <3>1 DEF Lim!Current, LimitTypes
    <3> QED  BY <1>1, <3>1, <3>2 DEF EntriesOld
  <2>2. CASE ~\E x \in es[k] : x.window = w
    <3>1. e = [window |-> w, count |-> 0]
      BY <2>2 DEF Lim!Current
    <3> QED  BY <1>1, <2>2, <3>1, LimitNumbers
  <2> QED  BY <2>1, <2>2
<1>3. /\ n \in [window : Windows, count : Nat]
      /\ n.window = w /\ n.count <= Limit
      /\ n.count = e.count + IF ok THEN 1 ELSE 0
  BY <1>2, LimitNumbers
<1> HIDE DEF n
<1>4. /\ \A j \in Key : j # k \/ full => entries'[j] = es[j]
      /\ ~full => entries'[k] = {n}
  BY <1>1 DEF n
<1>5. /\ newest \in Nat /\ newest' \in Nat /\ w \in Nat
      /\ newest <= newest' /\ w <= newest'
      /\ w < newest \/ w = newest' 
      /\ \A v \in Windows : v \in Nat
  BY SMTT(60) DEF LimitTypes, Windows
<1>6. EntriesOld'
  <2> SUFFICES ASSUME NEW j \in Key, NEW x \in entries'[j]
               PROVE  x.window <= newest' /\ x.count <= Limit
    BY DEF EntriesOld
  <2>1. CASE j # k \/ full
    <3>1. x \in entries[j] /\ x.window \in Windows
      BY <1>1, <1>4, <2>1 DEF LimitTypes
    <3>2. x.window <= newest /\ x.count <= Limit
      BY <3>1 DEF EntriesOld
    <3> QED  BY <1>5, <3>1, <3>2
  <2>2. CASE j = k /\ ~full
    BY <1>3, <1>4, <1>5, <2>2
  <2> QED  BY <2>1, <2>2
<1>7. ASSUME NEW j \in Key, NEW v \in Windows
      PROVE  /\ passed'[v][j] <= Limit * late'[j] + Allowed(j, v)'
             /\ v > newest' => passed'[v][j] = 0
  <2>1. /\ passed[v][j] \in Nat /\ late[j] \in Nat
        /\ passed[v][j] <= Limit * late[j] + Allowed(j, v)
        /\ v > newest => passed[v][j] = 0
        /\ Allowed(j, v) \in Nat
    BY AllowedIsNumber DEF LimitTypes, Accounted
  <2>2. Limit * late[j] \in Nat /\ Limit * (late[j] + 1) = Limit * late[j] + Limit
    BY <2>1, OneLimitMore
  <2>3. /\ \A x \in entries[j] : x.window = v => Allowed(j, v) = x.count
        /\ (\A x \in entries[j] : x.window # v) => Allowed(j, v) = IF v < newest THEN Limit ELSE 0
    BY AllowedIsNumber
  <2>4. /\ Allowed(j, v)' \in Nat
        /\ \A x \in entries'[j] : x.window = v => Allowed(j, v)' = x.count
        /\ (\A x \in entries'[j] : x.window # v) => Allowed(j, v)' = IF v < newest' THEN Limit ELSE 0
    <3>1. \A x \in entries'[j] : x.count \in Nat
      BY DEF LimitTypes
    <3>2. \A x \in entries'[j] : (CHOOSE y \in entries'[j] : TRUE) = x
      BY DEF LimitTypes
    <3> QED  BY <3>1, <3>2, LimitNumbers DEF Allowed
  <2>5. /\ passed'[v][j] = passed[v][j] + IF ok /\ v = w /\ j = k THEN 1 ELSE 0
        /\ late'[j] = late[j] + IF w < newest /\ j = k THEN 1 ELSE 0
    BY <2>1 DEF LimitTypes
  <2>6. v > newest' => passed'[v][j] = 0
    BY <1>5, <2>1, <2>5
  <2>7. CASE j # k \/ full
    <3>1. passed'[v][j] = passed[v][j] /\ Limit * late'[j] >= Limit * late[j]
      BY <2>1, <2>2, <2>5, <2>7, LimitNumbers
    <3>2. Allowed(j, v)' >= Allowed(j, v)
      <4>1. CASE \E x \in entries[j] : x.window = v
        <5>1. PICK x \in entries[j] : x.window = v
          BY <4>1
        <5>2. Allowed(j, v) = x.count /\ x.count <= Limit
          BY <2>3, <5>1 DEF EntriesOld
        <5>3. CASE x \in es[j]
          BY <1>4, <2>1, <2>4, <2>7, <5>1, <5>2, <5>3
        <5>4. CASE x \notin es[j]
          <6>1. v < w /\ v < newest'
            BY <1>1, <1>5, <5>1, <5>4
          <6>2. \A y \in entries'[j] : y.window # v
            BY <1>1, <1>4, <2>7, <5>1, <5>4 DEF LimitTypes
          <6> QED  BY <2>1, <2>4, <5>2, <6>1, <6>2, LimitNumbers
        <5> QED  BY <5>3, <5>4
      <4>2. CASE \A x \in entries[j] : x.window # v
        <5>1. \A x \in entries'[j] : x.window # v
          BY <1>1, <1>4, <2>7, <4>2
        <5> QED  BY <1>5, <2>3, <2>4, <4>2, <5>1, LimitNumbers
      <4> QED  BY <4>1, <4>2
    <3>3. Limit * late'[j] \in Nat
      BY OneLimitMore DEF LimitTypes
    <3> QED  BY <2>1, <2>2, <2>4, <2>6, <3>1, <3>2, <3>3
  <2>8. CASE j = k /\ ~full /\ v = w
    <3>1. Allowed(j, v)' = n.count
      BY <1>3, <1>4, <2>4, <2>8
    <3>2. passed[v][j] <= Limit * late'[j] + e.count
      <4>1. CASE e \in entries[k]
        <5>1. Allowed(j, v) = e.count
          BY <1>2, <2>3, <2>8, <4>1
        <5>2. Limit * late'[j] >= Limit * late[j] /\ Limit * late'[j] \in Nat
          BY <2>1, <2>2, <2>5, LimitNumbers
        <5> QED  BY <1>2, <2>1, <2>2, <5>1, <5>2
      <4>2. CASE e.count = 0 /\ \A x \in entries[k] : x.window # w
        <5>1. Allowed(j, v) = IF w < newest THEN Limit ELSE 0
          BY <2>3, <2>8, <4>2
        <5> QED  BY <2>1, <2>2, <2>5, <2>8, <4>2, <5>1, LimitNumbers
      <4> QED  BY <1>2, <4>1, <4>2
    <3>3. Limit * late'[j] \in Nat
      BY OneLimitMore DEF LimitTypes
    <3> QED  BY <1>2, <1>3, <2>1, <2>5, <2>6, <2>8, <3>1, <3>2, <3>3
  <2>9. CASE j = k /\ ~full /\ v # w
    <3>1. Allowed(j, v)' = IF v < newest' THEN Limit ELSE 0
      BY <1>3, <1>4, <2>4, <2>9
    <3>2. passed'[v][j] = passed[v][j]
      BY <2>1, <2>5, <2>9
    <3>3. Allowed(j, v) <= Limit
      <4>1. CASE \E x \in entries[j] : x.window = v
        BY <2>3, <4>1 DEF EntriesOld
      <4>2. CASE \A x \in entries[j] : x.window # v
        BY <2>3, <4>2, LimitNumbers
      <4> QED  BY <4>1, <4>2
    <3>4. CASE v < newest'
      <4>1. Limit * late'[j] >= Limit * late[j] /\ Limit * late'[j] \in Nat
        BY <2>1, <2>2, <2>5, LimitNumbers
      <4> QED  BY <2>1, <2>2, <2>6, <3>1, <3>2, <3>3, <3>4, <4>1, LimitNumbers
    <3>5. CASE v > newest
      <4>1. Limit * late'[j] \in Nat
        BY OneLimitMore DEF LimitTypes
      <4> QED  BY <2>1, <2>4, <2>6, <3>2, <3>5, <4>1
    <3>6. CASE v = newest /\ v = newest'
      <4>1. w < newest
        BY <1>5, <2>9, <3>6
      <4>2. Limit * late'[j] = Limit * late[j] + Limit
        BY <2>1, <2>2, <2>5, <2>9, <4>1
      <4> QED  BY <2>1, <2>2, <2>6, <3>1, <3>2, <3>3, <3>6, <4>2, LimitNumbers
    <3> QED  BY <1>5, <3>4, <3>5, <3>6
  <2> QED  BY <2>7, <2>8, <2>9
<1> QED  BY <1>6, <1>7 DEF Accounted

\* Allow: the count of one request, and the table it leaves.
LEMMA AllowKeeps ==
  ASSUME LimitInv, NEW t \in Thread, Lim!Allow(t)
  PROVE  LimitInv'
<1> USE DEF LimitInv
<1>1. PICK k \in th[t].key :
        LET w  == th[t].win
            es == Lim!Cleaned(k, w)
            e  == Lim!Current(es, k, w)
            ok == ~Lim!Full(es, k) /\ Lim!BelowLimit(e.count)
        IN  /\ entries' = IF Lim!Full(es, k) THEN es
                          ELSE [es EXCEPT ![k] = {IF ok THEN [e EXCEPT !.count = @ + 1] ELSE e}]
            /\ th' = [th EXCEPT ![t].stage = IF ok THEN "next" ELSE "rejected"]
            /\ passed' = IF ok THEN [passed EXCEPT ![w][k] = @ + 1] ELSE passed
            /\ newest' = IF w > newest THEN w ELSE newest
            /\ late' = IF w < newest THEN [late EXCEPT ![k] = @ + 1] ELSE late
  BY DEF Lim!Allow
<1> DEFINE w == th[t].win
           es == Lim!Cleaned(k, w)
           e == Lim!Current(es, k, w)
           full == Lim!Full(es, k)
           ok == ~full /\ Lim!BelowLimit(e.count)
           n == IF ok THEN [e EXCEPT !.count = @ + 1] ELSE e
<1>2. k \in Key /\ w \in Windows /\ window' = window
  BY DEF Lim!Allow, LimitTypes
<1>3. /\ entries' = IF full THEN es ELSE [es EXCEPT ![k] = {n}]
      /\ th' = [th EXCEPT ![t].stage = IF ok THEN "next" ELSE "rejected"]
      /\ passed' = IF ok THEN [passed EXCEPT ![w][k] = @ + 1] ELSE passed
      /\ newest' = IF w > newest THEN w ELSE newest
      /\ late' = IF w < newest THEN [late EXCEPT ![k] = @ + 1] ELSE late
  BY <1>1
<1>4. /\ es \in [Key -> SUBSET [window : Windows, count : Nat]]
      /\ es[k] = entries[k]
      /\ \A j \in Key : es[j] \subseteq entries[j]
  BY <1>2, CleanedKeeps
<1>5. e \in [window : Windows, count : Nat]
  <2>1. CASE \E x \in es[k] : x.window = w
    <3>1. e \in es[k]
      BY <2>1 DEF Lim!Current
    <3> QED  BY <1>2, <1>4, <3>1
  <2>2. CASE ~\E x \in es[k] : x.window = w
    BY <1>2, <2>2 DEF Lim!Current
  <2> QED  BY <2>1, <2>2
<1>6. full <=> es[k] = {} /\ Cardinality({j \in Key : es[j] # {}}) >= MaxKeys
  BY LimitCardinality DEF Lim!Full
<1>7. ok => ~full /\ e.count < Limit
  BY DEF Lim!BelowLimit
<1>8. full \in BOOLEAN /\ ok \in BOOLEAN
  BY DEF Lim!Full, Lim!BelowLimit
<1> HIDE DEF e, es, full, ok
<1>9. n \in [window : Windows, count : Nat]
  BY <1>5
<1>10. LimitTypes'
  <2>1. /\ entries' \in [Key -> SUBSET [window : Windows, count : Nat]]
        /\ \A j \in Key : \A x, y \in entries'[j] : x = y
    <3> HIDE DEF n
    <3>1. CASE full
      BY <1>3, <1>4, <3>1 DEF LimitTypes
    <3>2. CASE ~full
      BY <1>3, <1>4, <1>9, <3>2 DEF LimitTypes
    <3> QED  BY <3>1, <3>2
  <2>2. /\ th' \in [Thread -> [stage : {"idle", "locking", "next", "rejected", "answered"},
                               key : SUBSET Key, win : 0..MaxWindow, retryAfter : BOOLEAN]]
        /\ \A u \in Thread : th'[u].stage = "locking" => th'[u].win \in Windows
    BY <1>3, SMTT(60) DEF LimitTypes
  <2>3. passed' \in [Windows -> [Key -> Nat]]
    BY <1>2, <1>3 DEF LimitTypes
  <2>4. late' \in [Key -> Nat] /\ newest' \in Windows /\ window' \in Windows
    BY <1>2, <1>3 DEF LimitTypes
  <2> QED  BY <2>1, <2>2, <2>3, <2>4 DEF LimitTypes
<1>11. EntriesOld' /\ Accounted'
  <2>1. es = Lim!Cleaned(k, w) /\ e = Lim!Current(es, k, w) /\ (full => entries[k] = {})
    BY <1>4, <1>6 DEF es, e
  <2> HIDE DEF w
  <2>2. entries' = IF full THEN es
                   ELSE [es EXCEPT ![k] = {IF ok THEN [e EXCEPT !.count = @ + 1] ELSE e}]
    BY <1>3
  <2> QED  BY <1>2, <1>3, <1>7, <1>8, <1>10, <2>1, <2>2, CountKeeps
<1>12. TableBounded'
  <2> DEFINE U == {j \in Key : es[j] # {}}
             V == {j \in Key : entries'[j] # {}}
  <2>1. IsFiniteSet(U) /\ Cardinality(U) <= Cardinality(Lim!Used)
    <3>1. U \subseteq Lim!Used /\ IsFiniteSet(Lim!Used)
      BY <1>4 DEF Lim!Used, TableBounded
    <3> QED  BY <3>1, FS_Subset
  <2>2. Cardinality(U) <= MaxKeys /\ Cardinality(U) \in Nat
    <3>1. Cardinality(U) \in Nat /\ Cardinality(Lim!Used) \in Nat
      BY <2>1, FS_CardinalityType DEF TableBounded
    <3> QED  BY <2>1, <3>1, LimitNumbers DEF TableBounded
  <2>3. V = Lim!Used'
    BY DEF Lim!Used
  <2>4. CASE full
    <3>1. V = U
      BY <1>3, <1>4, <2>4
    <3> QED  BY <2>1, <2>2, <2>3, <3>1 DEF TableBounded
  <2>5. CASE ~full
    <3>1. V = U \cup {k}
      BY <1>2, <1>3, <1>4, <2>5
    <3> HIDE DEF U, V
    <3>2. CASE k \in U
      <4>1. V = U
        BY <3>1, <3>2
      <4> QED  BY <2>1, <2>2, <2>3, <4>1 DEF TableBounded
    <3>3. CASE k \notin U
      <4>1. Cardinality(U) < MaxKeys
        BY <1>2, <1>6, <2>2, <2>5, <3>3, LimitNumbers DEF U
      <4>2. IsFiniteSet(V) /\ Cardinality(V) = Cardinality(U) + 1
        BY <2>1, <3>1, <3>3, FS_AddElement
      <4> QED  BY <2>2, <2>3, <4>1, <4>2, LimitNumbers DEF TableBounded
    <3> QED  BY <3>2, <3>3
  <2> QED  BY <2>4, <2>5
<1> QED  BY <1>10, <1>11, <1>12

\* Steps that leave the table alone.
LEMMA LimitFrame ==
  ASSUME LimitInv, LimitTypes', UNCHANGED <<entries, passed, newest, late>>
  PROVE  LimitInv'
<1>1. /\ EntriesOld'
      /\ \A k \in Key, w \in Windows : Allowed(k, w)' = Allowed(k, w)
      /\ Lim!Used' = Lim!Used
  BY DEF LimitInv, EntriesOld, Allowed, Lim!Used
<1>2. Accounted'
  BY <1>1 DEF LimitInv, Accounted
<1> QED  BY <1>1, <1>2 DEF LimitInv, TableBounded

LEMMA LimitKept == LimitInv /\ Lim!Next => LimitInv'
<1> SUFFICES ASSUME LimitInv, Lim!Next PROVE LimitInv'
  OBVIOUS
<1> DEFINE Call == [stage : {"idle", "locking", "next", "rejected", "answered"},
                    key : SUBSET Key, win : 0..MaxWindow, retryAfter : BOOLEAN]
<1>1. window \in Windows /\ 0 \in 0..MaxWindow /\ window \in 0..MaxWindow
  BY LimitNumbers DEF LimitInv, LimitTypes, Windows
<1>2. CASE Lim!Tick
  <2>1. window' \in Windows
    BY <1>1, <1>2, LimitNumbers DEF Lim!Tick, Windows
  <2>2. LimitTypes'
    BY <1>2, <2>1 DEF Lim!Tick, LimitInv, LimitTypes
  <2> QED  BY <1>2, <2>2, LimitFrame DEF Lim!Tick
<1>3. ASSUME NEW t \in Thread, NEW r \in Call, th' = [th EXCEPT ![t] = r],
             r.stage = "locking" => r.win \in Windows,
             UNCHANGED <<window, entries, passed, newest, late>>
      PROVE  LimitInv'
  <2>1. th' \in [Thread -> Call] /\ \A u \in Thread : th'[u] = IF u = t THEN r ELSE th[u]
    BY <1>3 DEF LimitInv, LimitTypes
  <2>2. LimitTypes'
    BY <1>3, <2>1 DEF LimitInv, LimitTypes
  <2> QED  BY <1>3, <2>2, LimitFrame
<1>4. /\ [Lim!NoCall EXCEPT !.stage = "next"] \in Call
      /\ \A k \in Key : [Lim!NoCall EXCEPT !.stage = "locking", !.key = {k}, !.win = window] \in Call
      /\ \A b \in BOOLEAN : [Lim!NoCall EXCEPT !.stage = "answered", !.retryAfter = b] \in Call
      /\ Lim!NoCall \in Call
  BY <1>1 DEF Lim!NoCall
<1>5. ASSUME NEW t \in Thread, Lim!KeyGetter(t) PROVE LimitInv'
  <2>1. UNCHANGED <<window, entries, passed, newest, late>>
    BY <1>5 DEF Lim!KeyGetter
  <2>2. ASSUME NEW k \in Key,
               th' = [th EXCEPT ![t] = [Lim!NoCall EXCEPT !.stage = "locking", !.key = {k}, !.win = window]]
        PROVE  LimitInv'
    <3>1. [Lim!NoCall EXCEPT !.stage = "locking", !.key = {k}, !.win = window].win = window
      BY DEF Lim!NoCall
    <3> HIDE DEF Call
    <3> QED  BY <1>1, <1>3, <1>4, <2>1, <2>2, <3>1
  <2>3. CASE th' = [th EXCEPT ![t] = [Lim!NoCall EXCEPT !.stage = "next"]]
    <3>1. [Lim!NoCall EXCEPT !.stage = "next"].stage # "locking"
      BY DEF Lim!NoCall
    <3> HIDE DEF Call
    <3> QED  BY <1>3, <1>4, <2>1, <2>3, <3>1
  <2> QED  BY <1>5, <2>2, <2>3 DEF Lim!KeyGetter
<1>6. ASSUME NEW t \in Thread, Lim!Rejected(t) \/ Lim!ChainEnds(t) PROVE LimitInv'
  <2>1. PICK b \in BOOLEAN :
          th' = [th EXCEPT ![t] = [Lim!NoCall EXCEPT !.stage = "answered", !.retryAfter = b]]
    BY <1>6 DEF Lim!Rejected, Lim!ChainEnds
  <2>2. UNCHANGED <<window, entries, passed, newest, late>>
    BY <1>6 DEF Lim!Rejected, Lim!ChainEnds
  <2>3. [Lim!NoCall EXCEPT !.stage = "answered", !.retryAfter = b].stage # "locking"
    BY DEF Lim!NoCall
  <2> HIDE DEF Call
  <2> QED  BY <1>3, <1>4, <2>1, <2>2, <2>3
<1>7. ASSUME NEW t \in Thread, Lim!Answered(t) PROVE LimitInv'
  <2>1. Lim!NoCall.stage # "locking"
    BY DEF Lim!NoCall
  <2> HIDE DEF Call
  <2> QED  BY <1>3, <1>4, <1>7, <2>1 DEF Lim!Answered
<1> QED  BY <1>2, <1>5, <1>6, <1>7, AllowKeeps DEF Lim!Next

\* The bound of a window follows: an entry holds at most one limit.
LEMMA LimitBounded == LimitInv => WindowBounded
<1> SUFFICES ASSUME LimitInv PROVE WindowBounded
  OBVIOUS
<1> USE DEF LimitInv
<1>1. ASSUME NEW k \in Key, NEW w \in Windows PROVE passed[w][k] <= Limit * (1 + late[k])
  <2>1. late[k] \in Nat /\ passed[w][k] \in Nat
    BY DEF LimitTypes
  <2>2. Limit * late[k] \in Nat /\ Limit * (1 + late[k]) = Limit * late[k] + Limit
    BY <2>1, OneLimitMore
  <2>3. Allowed(k, w) <= Limit /\ Allowed(k, w) \in Nat
    <3>1. CASE \E e \in entries[k] : e.window = w
      BY <3>1, AllowedIsNumber DEF EntriesOld
    <3>2. CASE \A e \in entries[k] : e.window # w
      BY <3>2, AllowedIsNumber, LimitNumbers
    <3> QED  BY <3>1, <3>2
  <2>4. passed[w][k] <= Limit * late[k] + Allowed(k, w)
    BY DEF Accounted
  <2> QED  BY <2>1, <2>2, <2>3, <2>4, LimitNumbers
<1>2. Lim!Cardinality(Lim!Used) <= MaxKeys
  BY LimitCardinality DEF TableBounded
<1> QED  BY <1>1, <1>2 DEF WindowBounded, Lim!WindowBounded, Windows

(* http/ratelimit.cpp: however threads that read the clock before they take *)
(* the mutex overtake each other, a key gets through at most its limit in a *)
(* window, plus one limit for every request of an older window that came    *)
(* late, and the table never outgrows kMaxKeys.                             *)
THEOREM LimitKeptPerWindow == RequestsSpec => []WindowBounded
<1>1. RequestsInit => LimitInv
  BY LimitInitially DEF RequestsInit
<1>2. LimitInv /\ [RequestsNext]_requestsVars => LimitInv'
  <2> SUFFICES ASSUME LimitInv, [RequestsNext]_requestsVars PROVE LimitInv'
    OBVIOUS
  <2>1. CASE LimiterPart
    BY <2>1, LimitKept DEF LimiterPart
  <2>2. CASE UNCHANGED limitVars
    <3>1. LimitTypes'
      BY <2>2 DEF LimitInv, LimitTypes, limitVars
    <3> QED  BY <2>2, <3>1, LimitFrame DEF limitVars
  <2> QED  BY <2>1, <2>2 DEF RequestsNext, ParserPart, RoutesPart, ConnectionPart,
             ResourcesPart, SessionPart, UsersPart, TimersPart, requestsVars
<1> QED  BY <1>1, <1>2, LimitBounded, PTL DEF RequestsSpec, requestsVars

-----------------------------------------------------------------------------
(* The timer heap *)

Child(p, c) == c = 2 * p \/ c = 2 * p + 1

\* The order of an array f of n deadlines while the entry i is on its way:
\* up, it may be earlier than its parent; down, later than its children.  What
\* is above it is in order with what is below it.
HeapBut(f, n, dir, i) ==
  \A p, c \in 1..n : Child(p, c) =>
    /\ \/ dir \in {"up", "downUp"} /\ c = i
       \/ dir \in {"down", "downUp"} /\ p = i
       \/ f[p] <= f[c]
    /\ dir # "none" /\ p = i =>
         \A g \in 1..n : Child(g, p) => f[g] <= f[c]

Due == [i \in 1..Len(heap) |-> Tmr!D(i)]

TimerTypes ==
  /\ heap \in Seq(Node)
  /\ nodeIdx \in [Node -> Nat]
  /\ dl \in [Node -> 1..MaxDl]
  /\ inHeap \in [Node -> BOOLEAN]
  /\ sift \in [dir : {"none", "up", "down", "downUp"}, i : Nat]
  /\ firing \subseteq 1..MaxDl
  /\ \A x, y \in firing : x = y

Placed == \A i \in 1..Len(heap) : nodeIdx[heap[i]] = i

Marked == \A n \in Node : inHeap[n] <=> \E i \in 1..Len(heap) : heap[i] = n

\* An entry on its way is one of the array, but for the loop after the last
\* entry was popped, which finds nothing.
SiftAt ==
  /\ sift.dir = "none" => sift = Tmr!AtRest
  /\ sift.dir \in {"up", "downUp"} => sift.i \in 1..Len(heap)
  /\ sift.dir = "down" => sift.i \in 1..Len(heap) \/ (sift.i = 1 /\ Len(heap) = 0)

TimerInv == TimerTypes /\ Placed /\ Marked /\ SiftAt /\ HeapBut(Due, Len(heap), sift.dir, sift.i)

LEMMA Parent ==
  ASSUME NEW i \in Nat, i > 1
  PROVE  /\ i \div 2 \in Nat /\ 1 <= i \div 2 /\ i \div 2 < i
         /\ Child(i \div 2, i)
         /\ \A p \in Nat : Child(p, i) <=> p = i \div 2
BY DEF Child

\* The entry i changes places with its later parent.
LEMMA HeapSwapUp ==
  ASSUME NEW n \in Nat, NEW f \in [1..n -> Nat], NEW i \in 1..n, NEW g \in 1..n,
         Child(g, i), f[g] > f[i], HeapBut(f, n, "up", i),
         NEW h \in [1..n -> Nat],
         \A j \in 1..n : h[j] = IF j = g THEN f[i] ELSE IF j = i THEN f[g] ELSE f[j]
  PROVE  HeapBut(h, n, "up", g)
<1> SUFFICES ASSUME NEW p \in 1..n, NEW c \in 1..n, Child(p, c)
             PROVE  /\ c = g \/ h[p] <= h[c]
                    /\ p = g => \A q \in 1..n : Child(q, p) => h[q] <= h[c]
  BY DEF HeapBut
<1>1. /\ c = i \/ f[p] <= f[c]
      /\ p = i => f[g] <= f[c]
      /\ c = i => p = g
      /\ p # c /\ g # i
  BY SMTT(60) DEF HeapBut, Child
<1>2. c = g \/ h[p] <= h[c]
  BY <1>1
<1>3. ASSUME p = g, NEW q \in 1..n, Child(q, p) PROVE h[q] <= h[c]
  <2>1. q # i /\ q # g /\ c # g
    BY <1>3 DEF Child
  <2>2. f[q] <= f[g]
    BY <1>3, <2>1 DEF HeapBut, Child
  <2> QED  BY <1>1, <1>3, <2>1, <2>2
<1> QED  BY <1>2, <1>3

\* The entry i changes places with the earlier of its children.
LEMMA HeapSwapDown ==
  ASSUME NEW n \in Nat, NEW f \in [1..n -> Nat], NEW i \in 1..n, NEW b \in 1..n,
         NEW dir \in {"down", "downUp"},
         Child(i, b), f[b] < f[i], HeapBut(f, n, dir, i),
         \A c \in 1..n : Child(i, c) => f[b] <= f[c],
         NEW h \in [1..n -> Nat],
         \A j \in 1..n : h[j] = IF j = b THEN f[i] ELSE IF j = i THEN f[b] ELSE f[j]
  PROVE  HeapBut(h, n, dir, b)
<1> SUFFICES ASSUME NEW p \in 1..n, NEW c \in 1..n, Child(p, c)
             PROVE  /\ p = b \/ h[p] <= h[c]
                    /\ p = b => \A q \in 1..n : Child(q, p) => h[q] <= h[c]
  BY DEF HeapBut
<1>1. /\ p = i \/ c = i \/ f[p] <= f[c]
      /\ p = i => f[b] <= f[c]
      /\ p # c /\ b # i
      /\ c = b => p = i
      /\ p = b => f[b] <= f[c]
      /\ c = i => f[p] <= f[b]
  <2>1. /\ p # c /\ b # i
        /\ c = b => p = i
        /\ p = b => c # i
    BY DEF Child
  <2>2. p = i \/ c = i \/ f[p] <= f[c]
    BY DEF HeapBut
  <2>3. c = i => f[p] <= f[b]
    BY DEF HeapBut
  <2> QED  BY <2>1, <2>2, <2>3
<1>2. p = b \/ h[p] <= h[c]
  BY <1>1
<1>3. ASSUME p = b, NEW q \in 1..n, Child(q, p) PROVE h[q] <= h[c]
  <2>1. q = i /\ c # i /\ c # b
    BY <1>3 DEF Child
  <2> QED  BY <1>1, <1>3, <2>1
<1> QED  BY <1>2, <1>3

\* One entry more at the end of an array in order.
LEMMA HeapPush ==
  ASSUME NEW n \in Nat, NEW f \in [1..n -> Nat], HeapBut(f, n, "none", 0),
         NEW h \in [1..(n + 1) -> Nat], \A j \in 1..n : h[j] = f[j]
  PROVE  HeapBut(h, n + 1, "up", n + 1)
<1> SUFFICES ASSUME NEW p \in 1..(n + 1), NEW c \in 1..(n + 1), Child(p, c)
             PROVE  /\ c = n + 1 \/ h[p] <= h[c]
                    /\ p # n + 1
  BY DEF HeapBut
<1>1. p \in 1..n /\ p < c
  BY DEF Child
<1> QED  BY <1>1 DEF HeapBut

\* The last entry takes the place of entry i.
LEMMA HeapReplace ==
  ASSUME NEW n \in Nat \ {0}, NEW f \in [1..n -> Nat], HeapBut(f, n, "none", 0),
         NEW i \in 1..n, NEW m \in Nat, m = n - 1, NEW dir, NEW k,
         \/ dir = "downUp" /\ k = i
         \/ dir = "down" /\ k = i /\ i = 1
         \/ dir = "none" /\ i = n,
         NEW h \in [1..m -> Nat],
         \A j \in 1..m : h[j] = IF j = i THEN f[n] ELSE f[j]
  PROVE  HeapBut(h, m, dir, k)
<1>0. /\ dir \in {"none", "down", "downUp"}
      /\ dir # "none" => k = i
  OBVIOUS
<1> SUFFICES ASSUME NEW p \in 1..m, NEW c \in 1..m, Child(p, c)
             PROVE  /\ \/ dir = "downUp" /\ c = i
                       \/ dir \in {"down", "downUp"} /\ p = i
                       \/ h[p] <= h[c]
                    /\ dir # "none" /\ p = i =>
                         \A g \in 1..m : Child(g, p) => h[g] <= h[c]
  BY <1>0 DEF HeapBut
<1>1. \A q, d \in 1..n : Child(q, d) => f[q] <= f[d]
  BY DEF HeapBut
<1>2. p \in 1..n /\ c \in 1..n /\ p < c /\ 1 < c /\ m < n
  BY DEF Child
<1>3. f[p] <= f[c]
  BY <1>1, <1>2
<1>4. \/ dir = "downUp" /\ c = i
      \/ dir \in {"down", "downUp"} /\ p = i
      \/ h[p] <= h[c]
  BY <1>2, <1>3
<1>5. ASSUME p = i, NEW g \in 1..m, Child(g, p) PROVE h[g] <= h[c]
  <2>1. g # i /\ c # i /\ g \in 1..n
    BY <1>2, <1>5 DEF Child
  <2>2. f[g] <= f[p]
    BY <1>1, <1>2, <1>5, <2>1
  <2> QED  BY <1>3, <1>5, <2>1, <2>2, <1>2
<1> QED  BY <1>4, <1>5

\* The loops end where the order is restored.
LEMMA HeapUpStops ==
  ASSUME NEW n \in Nat, NEW f \in [1..n -> Nat], NEW i \in 1..n,
         HeapBut(f, n, "up", i), i = 1 \/ f[i \div 2] <= f[i]
  PROVE  HeapBut(f, n, "none", 0)
<1> SUFFICES ASSUME NEW p \in 1..n, NEW c \in 1..n, Child(p, c) PROVE f[p] <= f[c]
  BY DEF HeapBut
<1>1. CASE c = i
  <2>1. c > 1
    BY DEF Child
  <2>2. i \in Nat /\ i > 1 /\ p \in Nat /\ Child(p, i)
    BY <1>1, <2>1
  <2>3. p = i \div 2
    BY <2>2, Parent
  <2> QED  BY <1>1, <2>1, <2>3
<1>2. CASE c # i
  BY <1>2 DEF HeapBut
<1> QED  BY <1>1, <1>2

LEMMA HeapDownStops ==
  ASSUME NEW n \in Nat, NEW f \in [1..n -> Nat], NEW i,
         NEW dir \in {"down", "downUp"}, HeapBut(f, n, dir, i),
         \A c \in 1..n : Child(i, c) => f[i] <= f[c]
  PROVE  IF dir = "down" THEN HeapBut(f, n, "none", 0) ELSE HeapBut(f, n, "up", i)
<1>1. CASE dir = "down"
  BY <1>1 DEF HeapBut
<1>2. CASE dir = "downUp"
  BY <1>2 DEF HeapBut
<1> QED  BY <1>1, <1>2

LEMMA DueType ==
  ASSUME TimerTypes
  PROVE  /\ Len(heap) \in Nat
         /\ Due \in [1..Len(heap) -> Nat]
         /\ \A i \in 1..Len(heap) : heap[i] \in Node /\ Due[i] = Tmr!D(i) /\ Due[i] = dl[heap[i]]
<1>1. Len(heap) \in Nat /\ \A i \in 1..Len(heap) : heap[i] \in Node
  BY DEF TimerTypes
<1>2. \A n \in Node : dl[n] \in Nat
  BY DEF TimerTypes
<1> QED  BY <1>1, <1>2 DEF Due, Tmr!D

LEMMA TimersInitially == Tmr!Init => TimerInv
<1> SUFFICES ASSUME Tmr!Init PROVE TimerInv
  OBVIOUS
<1> USE DEF Tmr!Init, Tmr!AtRest
<1>1. TimerTypes
  BY DeadlineNumbers DEF TimerTypes
<1>2. Len(heap) = 0
  OBVIOUS
<1> QED  BY <1>1, <1>2 DEF TimerInv, Placed, Marked, SiftAt, HeapBut

LEMMA SeqPut ==
  ASSUME NEW S, NEW s \in Seq(S), NEW i \in 1..Len(s), NEW a \in S
  PROVE  LET t == [s EXCEPT ![i] = a]
         IN  t \in Seq(S) /\ Len(t) = Len(s) /\ \A k \in 1..Len(s) : t[k] = IF k = i THEN a ELSE s[k]
OBVIOUS

LEMMA FunctionPut ==
  ASSUME NEW S, NEW T, NEW f \in [S -> T], NEW x \in S, NEW a \in T
  PROVE  LET t == [f EXCEPT ![x] = a]
         IN  t \in [S -> T] /\ \A k \in S : t[k] = IF k = x THEN a ELSE f[k]
OBVIOUS

LEMMA SeqFront ==
  ASSUME NEW S, NEW s \in Seq(S), Len(s) > 0
  PROVE  LET t == SubSeq(s, 1, Len(s) - 1)
         IN  t \in Seq(S) /\ Len(t) = Len(s) - 1 /\ \A k \in 1..(Len(s) - 1) : t[k] = s[k]
<1>1. Len(s) - 1 \in Int /\ 1 \in Int /\ \A k \in 1..(Len(s) - 1) : s[k] \in S
  OBVIOUS
<1> DEFINE m == Len(s) - 1
           t == SubSeq(s, 1, m)
<1>2. m \in Nat
  OBVIOUS
<1> HIDE DEF m
<1>3. /\ t \in Seq(S) /\ Len(t) = IF 1 <= m THEN m - 1 + 1 ELSE 0
      /\ \A k \in 1..(m - 1 + 1) : t[k] = s[1 + k - 1]
  BY <1>1, <1>2, SubSeqProperties DEF m
<1> HIDE DEF t
<1>4. t \in Seq(S) /\ Len(t) = m /\ \A k \in 1..m : t[k] = s[k]
  BY <1>2, <1>3
<1> QED  BY <1>4 DEF m, t

\* Two entries change places.
LEMMA SwapKeeps ==
  ASSUME TimerTypes, Placed, Marked, NEW i \in 1..Len(heap), NEW j \in 1..Len(heap), i # j,
         Tmr!Swap(i, j), sift' \in [dir : {"none", "up", "down", "downUp"}, i : Nat]
  PROVE  /\ TimerTypes' /\ Placed' /\ Marked'
         /\ Len(heap') = Len(heap)
         /\ \A k \in 1..Len(heap) : Due'[k] = IF k = i THEN Due[j] ELSE IF k = j THEN Due[i] ELSE Due[k]
<1> DEFINE n == Len(heap)
<1>1. n \in Nat /\ \A k \in 1..n : heap[k] \in Node /\ Due[k] = dl[heap[k]]
  BY DueType
<1>2. /\ heap' \in Seq(Node) /\ Len(heap') = n
      /\ \A k \in 1..n : heap'[k] = IF k = i THEN heap[j] ELSE IF k = j THEN heap[i] ELSE heap[k]
  <2> DEFINE g == [heap EXCEPT ![i] = heap[j]]
             h == [g EXCEPT ![j] = heap[i]]
  <2>1. heap' = h
    BY DEF Tmr!Swap
  <2>2. heap \in Seq(Node) /\ heap[i] \in Node /\ heap[j] \in Node
    BY <1>1 DEF TimerTypes
  <2>3. g \in Seq(Node) /\ Len(g) = n /\ \A k \in 1..n : g[k] = IF k = i THEN heap[j] ELSE heap[k]
    BY <2>2, SeqPut
  <2> HIDE DEF g
  <2>4. h \in Seq(Node) /\ Len(h) = n /\ \A k \in 1..n : h[k] = IF k = j THEN heap[i] ELSE g[k]
    BY <2>2, <2>3, SeqPut
  <2> HIDE DEF h
  <2> QED  BY <2>1, <2>3, <2>4
<1>3. /\ nodeIdx' \in [Node -> Nat]
      /\ \A x \in Node : nodeIdx'[x] = IF x = heap[j] THEN i ELSE IF x = heap[i] THEN j ELSE nodeIdx[x]
  <2> DEFINE g == [nodeIdx EXCEPT ![heap[i]] = j]
             h == [g EXCEPT ![heap[j]] = i]
  <2>1. nodeIdx' = h
    BY DEF Tmr!Swap
  <2>2. nodeIdx \in [Node -> Nat] /\ heap[i] \in Node /\ heap[j] \in Node /\ i \in Nat /\ j \in Nat
    BY <1>1 DEF TimerTypes
  <2>3. g \in [Node -> Nat] /\ \A x \in Node : g[x] = IF x = heap[i] THEN j ELSE nodeIdx[x]
    BY <2>2, FunctionPut
  <2> HIDE DEF g
  <2>4. h \in [Node -> Nat] /\ \A x \in Node : h[x] = IF x = heap[j] THEN i ELSE g[x]
    BY <2>2, <2>3, FunctionPut
  <2> HIDE DEF h
  <2> QED  BY <2>1, <2>3, <2>4
<1>4. UNCHANGED <<dl, inHeap, firing>>
  BY DEF Tmr!Swap
<1>5. \A k, l \in 1..n : heap[k] = heap[l] => k = l
  BY DEF Placed
<1>6. TimerTypes'
  BY <1>2, <1>3, <1>4 DEF TimerTypes
<1> HIDE DEF n
<1>7. Placed'
  <2> SUFFICES ASSUME NEW k \in 1..n PROVE nodeIdx'[heap'[k]] = k
    BY <1>2 DEF Placed
  <2>1. nodeIdx[heap[k]] = k
    BY DEF Placed, n
  <2>2. i \in 1..n /\ j \in 1..n
    BY DEF n
  <2> QED  BY <1>1, <1>2, <1>3, <1>5, <2>1, <2>2, ZenonT(60)
<1>8. Marked'
  <2>1. i \in 1..n /\ j \in 1..n
    BY DEF n
  <2>2. ASSUME NEW x \in Node
        PROVE  (\E k \in 1..n : heap[k] = x) <=> (\E k \in 1..n : heap'[k] = x)
    BY <1>2, <2>1
  <2> QED  BY <1>2, <1>4, <2>2, ZenonT(60) DEF Marked, n
<1>9. ASSUME NEW k \in 1..n PROVE Due'[k] = IF k = i THEN Due[j] ELSE IF k = j THEN Due[i] ELSE Due[k]
  <2>1. Due'[k] = dl[heap'[k]]
    BY <1>2, <1>4 DEF Due, Tmr!D
  <2>2. i \in 1..n /\ j \in 1..n
    BY DEF n
  <2> QED  BY <1>1, <1>2, <2>1, <2>2
<1> QED  BY <1>2, <1>6, <1>7, <1>8, <1>9 DEF n

\* The last entry takes the place of entry i.
LEMMA ReplaceKeeps ==
  ASSUME TimerTypes, Placed, Marked, NEW i \in 1..Len(heap),
         Tmr!Replace(i), UNCHANGED <<dl, firing>>,
         sift' \in [dir : {"none", "up", "down", "downUp"}, i : Nat]
  PROVE  /\ TimerTypes' /\ Placed' /\ Marked'
         /\ Len(heap') = Len(heap) - 1
         /\ inHeap' = [inHeap EXCEPT ![heap[i]] = FALSE]
         /\ \A k \in 1..Len(heap') : Due'[k] = IF k = i THEN Due[Len(heap)] ELSE Due[k]
<1> DEFINE n == Len(heap)
<1>1. n \in Nat /\ n > 0 /\ \A k \in 1..n : heap[k] \in Node /\ Due[k] = dl[heap[k]]
  BY DueType
<1>2. /\ heap' \in Seq(Node) /\ Len(heap') = n - 1
      /\ \A k \in 1..(n - 1) : heap'[k] = IF k = i THEN heap[n] ELSE heap[k]
  <2> DEFINE g == [heap EXCEPT ![i] = heap[n]]
  <2>1. heap' = SubSeq(g, 1, n - 1)
    BY DEF Tmr!Replace
  <2>2. heap \in Seq(Node) /\ heap[n] \in Node
    BY <1>1 DEF TimerTypes
  <2>3. g \in Seq(Node) /\ Len(g) = n /\ \A k \in 1..n : g[k] = IF k = i THEN heap[n] ELSE heap[k]
    BY <2>2, SeqPut
  <2> HIDE DEF g
  <2>4. heap' \in Seq(Node) /\ Len(heap') = n - 1 /\ \A k \in 1..(n - 1) : heap'[k] = g[k]
    BY <1>1, <2>1, <2>3, SeqFront
  <2> QED  BY <1>1, <2>3, <2>4
<1>3. /\ nodeIdx' \in [Node -> Nat]
      /\ \A x \in Node : nodeIdx'[x] = IF x = heap[n] THEN i ELSE nodeIdx[x]
  BY <1>1 DEF Tmr!Replace, TimerTypes
<1>4. /\ inHeap' \in [Node -> BOOLEAN]
      /\ inHeap' = [inHeap EXCEPT ![heap[i]] = FALSE]
      /\ \A x \in Node : inHeap'[x] <=> x # heap[i] /\ inHeap[x]
  BY <1>1 DEF Tmr!Replace, TimerTypes
<1>5. \A k, l \in 1..n : heap[k] = heap[l] => k = l
  BY DEF Placed
<1>6. TimerTypes'
  BY <1>2, <1>3, <1>4 DEF TimerTypes
<1>7. i \in 1..n /\ n \in 1..n /\ \A k \in 1..(n - 1) : k \in 1..n /\ k # n
  BY <1>1
<1> HIDE DEF n
<1>8. Placed'
  <2> SUFFICES ASSUME NEW k \in 1..(n - 1) PROVE nodeIdx'[heap'[k]] = k
    BY <1>2 DEF Placed
  <2>1. nodeIdx[heap[k]] = k
    BY <1>7 DEF Placed, n
  <2> QED  BY <1>1, <1>2, <1>3, <1>5, <1>7, <2>1
<1>9. Marked'
  <2> SUFFICES ASSUME NEW x \in Node
               PROVE  inHeap'[x] <=> \E k \in 1..(n - 1) : heap'[k] = x
    BY <1>2 DEF Marked
  <2>1. inHeap[x] <=> \E k \in 1..n : heap[k] = x
    BY DEF Marked, n
  <2>2. ASSUME inHeap'[x] PROVE \E k \in 1..(n - 1) : heap'[k] = x
    <3>1. PICK k \in 1..n : heap[k] = x /\ k # i
      BY <1>4, <2>1, <2>2
    <3>2. CASE k = n
      BY <1>1, <1>2, <1>7, <3>1, <3>2
    <3>3. CASE k # n
      BY <1>1, <1>2, <3>1, <3>3
    <3> QED  BY <3>2, <3>3
  <2>3. ASSUME NEW k \in 1..(n - 1), heap'[k] = x PROVE inHeap'[x]
    BY <1>1, <1>2, <1>4, <1>5, <1>7, <2>1, <2>3
  <2> QED  BY <2>2, <2>3
<1>10. ASSUME NEW k \in 1..(n - 1) PROVE Due'[k] = IF k = i THEN Due[n] ELSE Due[k]
  <2>1. Due'[k] = dl[heap'[k]]
    BY <1>2 DEF Due, Tmr!D
  <2> QED  BY <1>1, <1>2, <1>7, <2>1
<1> QED  BY <1>2, <1>4, <1>6, <1>8, <1>9, <1>10 DEF n

\* The earliest of an entry and its children.
LEMMA BestIsLeast ==
  ASSUME TimerTypes, NEW i \in 1..Len(heap)
  PROVE  LET b == Tmr!Best(i)
         IN  /\ b = i \/ (b \in 1..Len(heap) /\ Child(i, b) /\ Due[b] < Due[i])
             /\ \A c \in 1..Len(heap) : Child(i, c) => Due[b] <= Due[c]
<1> DEFINE n == Len(heap)
           l == IF 2 * i <= n /\ Tmr!D(2 * i) < Tmr!D(i) THEN 2 * i ELSE i
           b == IF 2 * i + 1 <= n /\ Tmr!D(2 * i + 1) < Tmr!D(l) THEN 2 * i + 1 ELSE l
<1>1. b = Tmr!Best(i)
  BY DEF Tmr!Best
<1>2. n \in Nat /\ \A k \in 1..n : Due[k] = Tmr!D(k) /\ Due[k] \in Nat
  BY DueType
<1>3. /\ 2 * i <= n => 2 * i \in 1..n
      /\ 2 * i + 1 <= n => 2 * i + 1 \in 1..n
      /\ \A c \in 1..n : Child(i, c) => (c = 2 * i /\ 2 * i <= n) \/ (c = 2 * i + 1 /\ 2 * i + 1 <= n)
  BY <1>2 DEF Child
<1>4. /\ l = i \/ (l = 2 * i /\ l \in 1..n /\ Due[l] < Due[i])
      /\ l \in 1..n /\ Due[l] <= Due[i]
      /\ 2 * i <= n => Due[l] <= Due[2 * i]
  BY <1>2, <1>3
<1> HIDE DEF l, n
<1>5. /\ b = l \/ (b = 2 * i + 1 /\ b \in 1..n /\ Due[b] < Due[l])
      /\ Due[b] <= Due[l]
      /\ 2 * i + 1 <= n => Due[b] <= Due[2 * i + 1]
  BY <1>2, <1>3, <1>4
<1> HIDE DEF b
<1>6. b = i \/ (b \in 1..n /\ Child(i, b) /\ Due[b] < Due[i])
  BY <1>2, <1>4, <1>5 DEF Child, n
<1>7. ASSUME NEW c \in 1..n, Child(i, c) PROVE Due[b] <= Due[c]
  BY <1>2, <1>3, <1>4, <1>5, <1>6, <1>7, SMTT(60) DEF n
<1> QED  BY <1>1, <1>6, <1>7 DEF n

\* A loop that ends moves nothing.
LEMMA StopsKeeps ==
  ASSUME TimerInv, NEW s \in [dir : {"none", "up", "down", "downUp"}, i : Nat], Tmr!Stops(s)
  PROVE  /\ TimerTypes' /\ Placed' /\ Marked' /\ heap' = heap /\ Due' = Due /\ sift' = s
         /\ UNCHANGED <<dl, inHeap, firing>>
BY DEF TimerInv, TimerTypes, Placed, Marked, Due, Tmr!D, Tmr!Stops

LEMMA SiftUpKeeps == TimerInv /\ Tmr!SiftUp => TimerInv'
<1> SUFFICES ASSUME TimerInv, Tmr!SiftUp PROVE TimerInv'
  OBVIOUS
<1> DEFINE i == sift.i
           n == Len(heap)
           parent == i \div 2
<1>1. /\ sift.dir = "up" /\ i \in 1..n /\ n \in Nat /\ i \in Nat
      /\ Due \in [1..n -> Nat] /\ \A k \in 1..n : Due[k] = Tmr!D(k)
      /\ HeapBut(Due, n, sift.dir, i)
  BY DueType DEF TimerInv, SiftAt, Tmr!SiftUp
<1>2. CASE i = 1 \/ Tmr!D(parent) <= Tmr!D(i)
  <2>1. Tmr!Stops(Tmr!AtRest)
    BY <1>2 DEF Tmr!SiftUp
  <2>2. Tmr!AtRest \in [dir : {"none", "up", "down", "downUp"}, i : Nat]
    BY DEF Tmr!AtRest
  <2>3. /\ TimerTypes' /\ Placed' /\ Marked' /\ heap' = heap /\ Due' = Due
        /\ sift' = Tmr!AtRest
    BY <2>1, <2>2, StopsKeeps
  <2>4. i = 1 \/ Due[parent] <= Due[i]
    BY <1>1, <1>2, Parent
  <2>5. HeapBut(Due, n, "none", 0)
    BY <1>1, <2>4, HeapUpStops
  <2>6. HeapBut(Due', n, "none", 0)
    BY <2>3, <2>5
  <2> QED  BY <2>3, <2>6 DEF TimerInv, SiftAt, Tmr!AtRest
<1>3. CASE ~(i = 1 \/ Tmr!D(parent) <= Tmr!D(i))
  <2>1. Tmr!Swap(parent, i) /\ sift' = [sift EXCEPT !.i = parent]
    BY <1>3 DEF Tmr!SiftUp
  <2>2. parent \in 1..n /\ parent # i /\ Child(parent, i) /\ parent \in Nat
    BY <1>1, <1>3, Parent
  <2>3. sift' \in [dir : {"none", "up", "down", "downUp"}, i : Nat] /\ sift'.dir = "up" /\ sift'.i = parent
    BY <1>1, <2>1, <2>2 DEF TimerInv, TimerTypes
  <2>4. Due[parent] > Due[i]
    BY <1>1, <1>3, <2>2
  <2> HIDE DEF parent
  <2>5. /\ TimerTypes' /\ Placed' /\ Marked' /\ Len(heap') = n
        /\ \A k \in 1..n : Due'[k] = IF k = parent THEN Due[i] ELSE IF k = i THEN Due[parent] ELSE Due[k]
    BY <1>1, <2>1, <2>2, <2>3, SwapKeeps DEF TimerInv
  <2>6. Due' \in [1..n -> Nat]
    <3>1. \A k \in 1..n : Due'[k] \in Nat
      BY <1>1, <2>2, <2>5
    <3> QED  BY <2>5, <3>1 DEF Due
  <2>7. HeapBut(Due', n, "up", parent)
    BY <1>1, <2>2, <2>4, <2>5, <2>6, HeapSwapUp, ZenonT(60)
  <2> QED  BY <2>2, <2>3, <2>5, <2>7 DEF TimerInv, SiftAt
<1> QED  BY <1>2, <1>3

LEMMA SiftDownKeeps == TimerInv /\ Tmr!SiftDown => TimerInv'
<1> SUFFICES ASSUME TimerInv, Tmr!SiftDown PROVE TimerInv'
  OBVIOUS
<1> DEFINE i == sift.i
           n == Len(heap)
           best == Tmr!Best(i)
<1>1. /\ sift.dir \in {"down", "downUp"} /\ n \in Nat /\ i \in Nat
      /\ Due \in [1..n -> Nat] /\ HeapBut(Due, n, sift.dir, i)
      /\ i \in 1..n \/ (sift.dir = "down" /\ i = 1 /\ n = 0)
  BY DueType DEF TimerInv, SiftAt, Tmr!SiftDown, TimerTypes
<1>2. /\ best = i \/ (i \in 1..n /\ best \in 1..n /\ Child(i, best) /\ Due[best] < Due[i])
      /\ \A c \in 1..n : Child(i, c) => Due[best] <= Due[c]
  <2>1. CASE i \in 1..n
    BY <2>1, BestIsLeast DEF TimerInv
  <2>2. CASE i = 1 /\ n = 0
    BY <2>2 DEF Tmr!Best
  <2> QED  BY <1>1, <2>1, <2>2
<1>3. IF best = i
      THEN Tmr!Stops(IF sift.dir = "down" THEN Tmr!AtRest ELSE [sift EXCEPT !.dir = "up"])
      ELSE Tmr!Swap(best, i) /\ sift' = [sift EXCEPT !.i = best]
  BY DEF Tmr!SiftDown
<1> HIDE DEF best
<1>4. CASE best = i
  <2> DEFINE s == IF sift.dir = "down" THEN Tmr!AtRest ELSE [sift EXCEPT !.dir = "up"]
  <2>1. /\ s \in [dir : {"none", "up", "down", "downUp"}, i : Nat]
        /\ (sift.dir = "down" /\ s = Tmr!AtRest) \/ (sift.dir = "downUp" /\ s.dir = "up" /\ s.i = i)
    BY <1>1 DEF TimerInv, TimerTypes, Tmr!AtRest
  <2>2. Tmr!Stops(s)
    BY <1>3, <1>4
  <2> HIDE DEF s
  <2>3. /\ TimerTypes' /\ Placed' /\ Marked' /\ heap' = heap /\ Due' = Due /\ sift' = s
    BY <2>1, <2>2, StopsKeeps
  <2>4. HeapBut(Due, n, s.dir, s.i)
    BY <1>1, <1>2, <1>4, <2>1, HeapDownStops DEF Tmr!AtRest
  <2>5. HeapBut(Due', n, sift'.dir, sift'.i)
    BY <2>3, <2>4
  <2> QED  BY <1>1, <2>1, <2>3, <2>5 DEF TimerInv, SiftAt, Tmr!AtRest
<1>5. CASE best # i
  <2>1. Tmr!Swap(best, i) /\ sift' = [sift EXCEPT !.i = best]
    BY <1>3, <1>5
  <2>2. i \in 1..n /\ best \in 1..n /\ Child(i, best) /\ Due[best] < Due[i] /\ best \in Nat
    BY <1>2, <1>5
  <2>3. /\ sift' \in [dir : {"none", "up", "down", "downUp"}, i : Nat]
        /\ sift'.dir = sift.dir /\ sift'.i = best
    BY <1>1, <2>1, <2>2 DEF TimerInv, TimerTypes
  <2>4. /\ TimerTypes' /\ Placed' /\ Marked' /\ Len(heap') = n
        /\ \A k \in 1..n : Due'[k] = IF k = best THEN Due[i] ELSE IF k = i THEN Due[best] ELSE Due[k]
    BY <1>5, <2>1, <2>2, <2>3, SwapKeeps DEF TimerInv
  <2>5. Due' \in [1..n -> Nat]
    <3>1. \A k \in 1..n : Due'[k] \in Nat
      BY <1>1, <2>2, <2>4
    <3> QED  BY <2>4, <3>1 DEF Due
  <2>6. HeapBut(Due', n, sift.dir, best)
    BY <1>1, <1>2, <2>2, <2>4, <2>5, HeapSwapDown
  <2> QED  BY <1>1, <2>2, <2>3, <2>4, <2>6 DEF TimerInv, SiftAt
<1> QED  BY <1>4, <1>5

LEMMA PushKeeps ==
  ASSUME TimerInv, NEW x \in Node, NEW d \in 1..MaxDl, Tmr!timer_push(x, d)
  PROVE  TimerInv'
<1> DEFINE n == Len(heap)
<1>1. /\ n \in Nat /\ Due \in [1..n -> Nat]
      /\ \A k \in 1..n : heap[k] \in Node /\ Due[k] = dl[heap[k]]
      /\ HeapBut(Due, n, "none", 0)
      /\ heap \in Seq(Node)
  BY DueType DEF TimerInv, TimerTypes, Tmr!timer_push, Tmr!AtRest
<1>2. \A k \in 1..n : heap[k] # x
  BY DEF TimerInv, Marked, Tmr!timer_push
<1>3. /\ heap' \in Seq(Node) /\ Len(heap') = n + 1 /\ heap'[n + 1] = x
      /\ \A k \in 1..n : heap'[k] = heap[k]
  BY <1>1 DEF Tmr!timer_push
<1>4. /\ nodeIdx' \in [Node -> Nat] /\ \A y \in Node : nodeIdx'[y] = IF y = x THEN n + 1 ELSE nodeIdx[y]
      /\ dl' \in [Node -> 1..MaxDl] /\ \A y \in Node : dl'[y] = IF y = x THEN d ELSE dl[y]
      /\ inHeap' \in [Node -> BOOLEAN] /\ \A y \in Node : inHeap'[y] <=> y = x \/ inHeap[y]
  BY <1>1 DEF TimerInv, TimerTypes, Tmr!timer_push
<1>5. /\ sift' = [dir |-> "up", i |-> n + 1] /\ firing' = firing
      /\ sift' \in [dir : {"none", "up", "down", "downUp"}, i : Nat]
  BY <1>1 DEF Tmr!timer_push
<1>6. TimerTypes'
  BY <1>3, <1>4, <1>5 DEF TimerInv, TimerTypes
<1>7. \A k \in 1..(n + 1) : k \in 1..n \/ k = n + 1
  BY <1>1
<1> HIDE DEF n
<1>8. Placed'
  <2> SUFFICES ASSUME NEW k \in 1..(n + 1) PROVE nodeIdx'[heap'[k]] = k
    BY <1>3 DEF Placed
  <2>1. CASE k \in 1..n
    <3>1. nodeIdx[heap[k]] = k
      BY <2>1 DEF TimerInv, Placed, n
    <3>2. heap'[k] = heap[k] /\ heap[k] \in Node /\ heap[k] # x
      BY <1>1, <1>2, <1>3, <2>1
    <3> QED  BY <1>4, <3>1, <3>2
  <2>2. CASE k = n + 1
    BY <1>3, <1>4, <2>2
  <2> QED  BY <1>7, <2>1, <2>2
<1>9. Marked'
  <2> SUFFICES ASSUME NEW y \in Node
               PROVE  inHeap'[y] <=> \E k \in 1..(n + 1) : heap'[k] = y
    BY <1>3 DEF Marked
  <2>1. inHeap[y] <=> \E k \in 1..n : heap[k] = y
    BY DEF TimerInv, Marked, n
  <2>2. n + 1 \in 1..(n + 1) /\ \A k \in 1..n : k \in 1..(n + 1)
    BY <1>1
  <2> QED  BY <1>3, <1>4, <1>7, <2>1, <2>2
<1>10. SiftAt'
  BY <1>1, <1>3, <1>5 DEF SiftAt
<1>11. HeapBut(Due', n + 1, "up", n + 1)
  <2>1. \A k \in 1..(n + 1) : Due'[k] = dl'[heap'[k]]
    BY <1>3 DEF Due, Tmr!D
  <2>2. ASSUME NEW k \in 1..n PROVE Due'[k] = Due[k]
    <3>1. heap'[k] = heap[k] /\ heap[k] \in Node /\ heap[k] # x /\ k \in 1..(n + 1)
      BY <1>1, <1>2, <1>3
    <3>2. Due[k] = dl[heap[k]]
      BY <1>1
    <3> QED  BY <1>4, <2>1, <3>1, <3>2
  <2>3. Due' \in [1..(n + 1) -> Nat]
    <3>1. \A k \in 1..(n + 1) : dl'[heap'[k]] \in Nat
      BY <1>3, <1>4
    <3> QED  BY <1>3, <2>1, <3>1 DEF Due
  <2> QED  BY <1>1, <2>2, <2>3, HeapPush
<1> QED  BY <1>3, <1>5, <1>6, <1>8, <1>9, <1>10, <1>11 DEF TimerInv

\* timer_remove, and a round of timer_on_fire.
LEMMA TakeKeeps ==
  ASSUME TimerInv, sift = Tmr!AtRest, NEW i \in 1..Len(heap), Tmr!Replace(i), UNCHANGED <<dl, firing>>,
         \/ sift' = [dir |-> "downUp", i |-> i] /\ i < Len(heap)
         \/ sift' = [dir |-> "down", i |-> i] /\ i = 1
         \/ sift' = Tmr!AtRest /\ i = Len(heap)
  PROVE  TimerInv'
<1> DEFINE n == Len(heap)
           m == n - 1
<1>1. /\ n \in Nat \ {0} /\ m \in Nat /\ Due \in [1..n -> Nat]
      /\ HeapBut(Due, n, "none", 0)
  BY DueType DEF TimerInv, TimerTypes, Tmr!AtRest
<1>2. sift' \in [dir : {"none", "up", "down", "downUp"}, i : Nat]
  BY DEF Tmr!AtRest
<1>3. /\ TimerTypes' /\ Placed' /\ Marked' /\ Len(heap') = m
      /\ \A k \in 1..m : Due'[k] = IF k = i THEN Due[n] ELSE Due[k]
  BY <1>2, ReplaceKeeps DEF TimerInv
<1>4. Due' \in [1..m -> Nat]
  <2>1. \A k \in 1..m : Due'[k] \in Nat
    BY <1>1, <1>3
  <2> QED  BY <1>3, <2>1 DEF Due
<1>5. /\ \/ sift'.dir = "downUp" /\ sift'.i = i
         \/ sift'.dir = "down" /\ sift'.i = i /\ i = 1
         \/ sift'.dir = "none" /\ i = n
  BY DEF Tmr!AtRest
<1>6. SiftAt'
  BY <1>1, <1>3 DEF SiftAt, Tmr!AtRest
<1>7. HeapBut(Due', m, sift'.dir, sift'.i)
  <2> HIDE DEF n, m
  <2>1. i \in 1..n /\ m = n - 1
    BY DEF n, m
  <2> QED  BY <1>1, <1>3, <1>4, <1>5, <2>1, HeapReplace
<1> QED  BY <1>3, <1>6, <1>7 DEF TimerInv

LEMMA TimersKept == TimerInv /\ [Tmr!Next]_timerVars => TimerInv'
<1> SUFFICES ASSUME TimerInv, [Tmr!Next]_timerVars PROVE TimerInv'
  OBVIOUS
<1>1. CASE UNCHANGED <<heap, nodeIdx, dl, inHeap, sift>> /\ firing' \subseteq 1..MaxDl
           /\ \A x, y \in firing' : x = y
  <2>1. TimerTypes' /\ Due' = Due
    BY <1>1 DEF TimerInv, TimerTypes, Due, Tmr!D
  <2> QED  BY <1>1, <2>1 DEF TimerInv, Placed, Marked, SiftAt
<1>2. CASE Tmr!SiftUp
  BY <1>2, SiftUpKeeps
<1>3. CASE Tmr!SiftDown
  BY <1>3, SiftDownKeeps
<1>4. CASE Tmr!FirePops
  <2>1. 1 \in 1..Len(heap)
    BY <1>4 DEF Tmr!FirePops, TimerInv, TimerTypes
  <2> QED  BY <1>4, <2>1, TakeKeeps DEF Tmr!FirePops
<1>5. CASE Tmr!FireEnds
  BY <1>1, <1>5 DEF Tmr!FireEnds
<1>6. ASSUME NEW x \in Node, Tmr!timer_remove(x) PROVE TimerInv'
  <2>1. nodeIdx[x] \in 1..Len(heap) /\ Len(heap) \in Nat
    BY <1>6 DEF Tmr!timer_remove, TimerInv, TimerTypes, Marked, Placed
  <2>2. \/ sift' = [dir |-> "downUp", i |-> nodeIdx[x]] /\ nodeIdx[x] < Len(heap)
        \/ sift' = Tmr!AtRest /\ nodeIdx[x] = Len(heap)
    BY <1>6, <2>1 DEF Tmr!timer_remove
  <2> QED  BY <1>6, <2>1, <2>2, TakeKeeps DEF Tmr!timer_remove
<1>7. ASSUME NEW x \in Node, NEW d \in 1..MaxDl, Tmr!timer_push(x, d) PROVE TimerInv'
  BY <1>7, PushKeeps
<1>8. ASSUME NEW now \in 1..MaxDl, Tmr!timer_on_fire(now) PROVE TimerInv'
  BY <1>1, <1>8 DEF Tmr!timer_on_fire
<1>9. CASE UNCHANGED timerVars
  BY <1>1, <1>9 DEF timerVars, TimerInv, TimerTypes
<1> QED  BY <1>2, <1>3, <1>4, <1>5, <1>6, <1>7, <1>8, <1>9 DEF Tmr!Next

LEMMA TimersWellFormed == TimerInv => WellFormed
<1> SUFFICES ASSUME TimerInv PROVE WellFormed
  OBVIOUS
<1>1. ASSUME sift = Tmr!AtRest, NEW i \in 2..Len(heap) PROVE Tmr!D(i \div 2) <= Tmr!D(i)
  <2>1. Len(heap) \in Nat /\ i \in Nat /\ i > 1 /\ i \in 1..Len(heap)
    BY DueType DEF TimerInv
  <2>2. i \div 2 \in 1..Len(heap) /\ Child(i \div 2, i)
    BY <2>1, Parent
  <2>3. HeapBut(Due, Len(heap), "none", 0)
    BY <1>1 DEF TimerInv, Tmr!AtRest
  <2>4. Due[i \div 2] <= Due[i]
    BY <2>1, <2>2, <2>3 DEF HeapBut
  <2> QED  BY <2>1, <2>2, <2>4, DueType DEF TimerInv
<1> QED  BY <1>1 DEF WellFormed, Tmr!WellFormed, TimerInv, Placed, Marked

LEMMA TimersInvariant == RequestsSpec => []TimerInv
<1>1. RequestsInit => TimerInv
  BY TimersInitially DEF RequestsInit
<1>2. TimerInv /\ [RequestsNext]_requestsVars => TimerInv'
  BY TimersKept DEF RequestsNext, ParserPart, RoutesPart, ConnectionPart, ResourcesPart,
     SessionPart, LimiterPart, UsersPart, TimersPart, requestsVars
<1> QED  BY <1>1, <1>2, PTL DEF RequestsSpec, requestsVars

(* core/uco.cpp, the timer heap: after every push, removal from the middle  *)
(* and firing, with any number of nodes, parents are not later than their   *)
(* children, and every node knows its index even while entries move, so     *)
(* timer_remove always takes out the node it was asked to.                  *)
THEOREM HeapStaysWellFormed == RequestsSpec => []WellFormed
<1> QED  BY TimersInvariant, TimersWellFormed, PTL

\* A set of numbers that is not empty has a least element.
LEMMA Smallest ==
  ASSUME NEW S, S \subseteq Nat, S # {}
  PROVE  \E m \in S : \A k \in S : m <= k
<1>1. PICK m \in S : \A k \in S : ~(<<k, m>> \in OpToRel(<, Nat))
  BY WFMin, NatLessThanWellFounded
<1>2. \A k \in S : ~(k < m)
  BY <1>1 DEF OpToRel
<1> QED  BY <1>2

\* The front is the earliest of the array.
LEMMA FirstLeast ==
  ASSUME TimerInv, sift = Tmr!AtRest, NEW i \in 1..Len(heap)
  PROVE  Tmr!D(1) <= Tmr!D(i)
<1> DEFINE n == Len(heap)
           S == {k \in 1..n : Due[k] < Due[1]}
<1>1. /\ n \in Nat /\ Due \in [1..n -> Nat] /\ 1 \in 1..n /\ i \in 1..n
      /\ \A k \in 1..n : Due[k] = Tmr!D(k)
      /\ HeapBut(Due, n, "none", 0)
  BY DueType DEF TimerInv, Tmr!AtRest
<1> HIDE DEF n
<1>2. S = {}
  <2> SUFFICES ASSUME S # {} PROVE FALSE
    OBVIOUS
  <2>1. PICK m \in S : \A k \in S : m <= k
    <3>1. S \subseteq Nat
      BY <1>1
    <3> HIDE DEF S
    <3> QED  BY <3>1, Smallest
  <2>2. m \in 1..n /\ Due[m] < Due[1] /\ m # 1 /\ m \in Nat /\ m > 1
    BY <1>1, <2>1
  <2>3. m \div 2 \in 1..n /\ Child(m \div 2, m) /\ m \div 2 < m
    BY <1>1, <2>2, Parent
  <2>4. Due[m \div 2] <= Due[m]
    BY <2>2, <2>3, <1>1 DEF HeapBut
  <2>5. m \div 2 \in S
    BY <1>1, <2>2, <2>3, <2>4
  <2> QED  BY <2>1, <2>2, <2>3, <2>5
<1> QED  BY <1>1, <1>2

-----------------------------------------------------------------------------
(* The heap implements the set: asleep is who is in the heap and not about  *)
(* to be taken by the firing under way.                                     *)

setVars == <<Tmr!Asleep, dl>>
SetStep == [Tmr!Abs!Next]_setVars

\* Nothing changes for the set.
LEMMA SetStutters ==
  ASSUME Tmr!Asleep' = Tmr!Asleep, dl' = dl
  PROVE  SetStep
BY DEF SetStep, setVars

LEMMA SetSteps == TimerInv /\ TimerInv' /\ [Tmr!Next]_timerVars => SetStep
<1> SUFFICES ASSUME TimerInv, TimerInv', [Tmr!Next]_timerVars PROVE SetStep
  OBVIOUS
<1>1. CASE UNCHANGED <<dl, inHeap, firing>>
  BY <1>1, SetStutters DEF Tmr!Asleep
<1>2. CASE Tmr!SiftUp \/ Tmr!SiftDown
  BY <1>1, <1>2 DEF Tmr!SiftUp, Tmr!SiftDown, Tmr!Stops, Tmr!Swap
<1>3. CASE Tmr!FirePops
  <2>1. PICK now \in firing : heap # <<>> /\ Tmr!D(1) <= now
    BY <1>3 DEF Tmr!FirePops
  <2>2. heap[1] \in Node /\ dl[heap[1]] <= now
    BY <2>1 DEF TimerInv, TimerTypes, Tmr!D
  <2>3. ~(dl[heap[1]] > now)
    BY <2>1, <2>2 DEF TimerInv, TimerTypes
  <2>4. inHeap' = [inHeap EXCEPT ![heap[1]] = FALSE] /\ UNCHANGED <<dl, firing>>
    BY <1>3 DEF Tmr!FirePops, Tmr!Replace
  <2>5. \A x \in Node : x # heap[1] => inHeap'[x] = inHeap[x]
    BY <2>4 DEF TimerInv, TimerTypes
  <2>6. Tmr!Asleep' = Tmr!Asleep
    BY <2>1, <2>3, <2>4, <2>5 DEF Tmr!Asleep
  <2> QED  BY <2>4, <2>6, SetStutters
<1>4. CASE Tmr!FireEnds
  <2>1. PICK now \in firing : heap # <<>> => Tmr!D(1) > now
    BY <1>4 DEF Tmr!FireEnds
  <2>2. ASSUME NEW x \in Node, inHeap[x] PROVE dl[x] > now
    <3>1. PICK i \in 1..Len(heap) : heap[i] = x
      BY <2>2 DEF TimerInv, Marked
    <3>2. Tmr!D(1) <= Tmr!D(i)
      BY <1>4, FirstLeast DEF Tmr!FireEnds
    <3>3. Tmr!D(1) > now /\ 1 \in 1..Len(heap)
      BY <2>1 DEF TimerInv, TimerTypes
    <3>4. Tmr!D(1) \in Nat /\ Tmr!D(i) \in Nat
      BY <3>3, DueType DEF TimerInv
    <3>5. now \in Nat
      BY DEF TimerInv, TimerTypes
    <3> QED  BY <3>1, <3>2, <3>3, <3>4, <3>5 DEF Tmr!D
  <2>3. firing = {now}
    BY DEF TimerInv, TimerTypes
  <2>4. UNCHANGED <<dl, inHeap>> /\ firing' = {}
    BY <1>4 DEF Tmr!FireEnds
  <2>5. Tmr!Asleep' = Tmr!Asleep
    BY <2>2, <2>3, <2>4 DEF Tmr!Asleep
  <2> QED  BY <2>4, <2>5, SetStutters
<1>5. ASSUME NEW x \in Node, Tmr!timer_remove(x) PROVE SetStep
  <2>1. inHeap[x] /\ firing = {} /\ UNCHANGED <<dl, firing>>
    BY <1>5 DEF Tmr!timer_remove
  <2>2. heap[nodeIdx[x]] = x
    BY <2>1 DEF TimerInv, Marked, Placed
  <2>3. inHeap' = [inHeap EXCEPT ![x] = FALSE]
    BY <1>5, <2>2 DEF Tmr!timer_remove, Tmr!Replace
  <2>4. x \in Tmr!Asleep /\ Tmr!Asleep' = Tmr!Asleep \ {x}
    BY <2>1, <2>3 DEF Tmr!Asleep, TimerInv, TimerTypes
  <2>5. Tmr!Abs!Delete(x)
    BY <2>1, <2>4 DEF Tmr!Abs!Delete
  <2> QED  BY <2>5 DEF SetStep, Tmr!Abs!Next
<1>6. ASSUME NEW x \in Node, NEW d \in 1..MaxDl, Tmr!timer_push(x, d) PROVE SetStep
  <2>1. /\ ~inHeap[x] /\ \A now \in firing : d > now
        /\ inHeap' = [inHeap EXCEPT ![x] = TRUE] /\ dl' = [dl EXCEPT ![x] = d]
        /\ firing' = firing
    BY <1>6 DEF Tmr!timer_push
  <2>2. /\ \A y \in Node : inHeap'[y] = IF y = x THEN TRUE ELSE inHeap[y]
        /\ \A y \in Node : dl'[y] = IF y = x THEN d ELSE dl[y]
    BY <2>1 DEF TimerInv, TimerTypes
  <2>3. x \notin Tmr!Asleep /\ Tmr!Asleep' = Tmr!Asleep \cup {x}
    BY <2>1, <2>2, ZenonT(60) DEF Tmr!Asleep
  <2>4. Tmr!Abs!Add(x)
    BY <2>1, <2>3 DEF Tmr!Abs!Add
  <2> QED  BY <2>4 DEF SetStep, Tmr!Abs!Next
<1>7. ASSUME NEW now \in 1..MaxDl, Tmr!timer_on_fire(now) PROVE SetStep
  <2>1. firing = {} /\ firing' = {now} /\ UNCHANGED <<dl, inHeap>>
    BY <1>7 DEF Tmr!timer_on_fire
  <2>2. Tmr!Asleep' = {x \in Tmr!Asleep : dl[x] > now}
    BY <2>1 DEF Tmr!Asleep
  <2>3. Tmr!Abs!TakeDue(now)
    BY <2>1, <2>2 DEF Tmr!Abs!TakeDue
  <2> QED  BY <2>3 DEF SetStep, Tmr!Abs!Next
<1>8. CASE UNCHANGED timerVars
  BY <1>1, <1>8 DEF timerVars
<1> QED  BY <1>2, <1>3, <1>4, <1>5, <1>6, <1>7, <1>8 DEF Tmr!Next

LEMMA SetInitially == Tmr!Init => Tmr!Abs!Init
BY DeadlineNumbers DEF Tmr!Init, Tmr!Abs!Init, Tmr!Asleep

(* core/uco.cpp: with any number of timer nodes and deadlines, the heap is  *)
(* the set of deadlines that usleeper relies on.  A push adds one node, a   *)
(* removal takes one, and a firing takes all that are due and no other,     *)
(* while coroutines it has resumed go back to sleep.                        *)
THEOREM HeapImplementsSet == RequestsSpec => ImplementsTimerSet
<1>1. RequestsInit => Tmr!Abs!Init
  BY SetInitially DEF RequestsInit
<1>2. TimerInv /\ TimerInv' /\ [RequestsNext]_requestsVars => [Tmr!Abs!Next]_setVars
  <2>1. [RequestsNext]_requestsVars => [Tmr!Next]_timerVars
    BY DEF RequestsNext, ParserPart, RoutesPart, ConnectionPart, ResourcesPart,
       SessionPart, LimiterPart, UsersPart, TimersPart, requestsVars
  <2> QED  BY <2>1, SetSteps DEF SetStep
<1>3. RequestsSpec => Tmr!Abs!Init /\ [][Tmr!Abs!Next]_setVars
  BY <1>1, <1>2, TimersInvariant, PTL DEF RequestsSpec, requestsVars
<1> QED  BY <1>3 DEF ImplementsTimerSet, Tmr!ImplementsTimerSet, Tmr!Abs!Spec, Tmr!Abs!setVars, setVars

-----------------------------------------------------------------------------
(* The file cache *)

Leading == {"open", "stat", "close", "put", "done", "erase"}

CacheResult == [fd : SUBSET Fd, status : {0, 200, 403, 404}]

CacheStage == Leading \cup {"idle", "wait", "woken", "holds"}

CacheCall == [stage : CacheStage, path : SUBSET FilePath, call : SUBSET FileCaller,
              res : CacheResult, raw : SUBSET Fd]

CacheTypes ==
  /\ lru \in Seq(FilePath \X Fd)
  /\ inFlight \in [FilePath -> SUBSET FileCaller]
  /\ file \in [Fd -> SUBSET FilePath]
  /\ cs \in [FileCaller -> CacheCall]

\* A call is about one path, and nothing is left of it at its end.
OnePath ==
  \A c \in FileCaller : IF cs[c].stage = "idle" THEN cs[c] = Res!Idle
                        ELSE \E p \in FilePath : cs[c].path = {p}

\* The opener of a path, and nobody else, is registered for it.
Registered ==
  /\ \A c \in FileCaller : cs[c].stage \in Leading => \A p \in cs[c].path : inFlight[p] = {c}
  /\ \A p \in FilePath : \A c \in inFlight[p] : cs[c].stage \in Leading /\ p \in cs[c].path

\* A path is not cached from the miss to the put.
Missing ==
  \A c \in FileCaller : cs[c].stage \in {"open", "stat", "put"} =>
    \A k \in 1..Len(lru) : lru[k][1] \notin cs[c].path

\* Who waits does so on an opener of its path that has yet to set done.
Awaited ==
  \A c \in FileCaller : cs[c].stage = "wait" =>
    \E o \in FileCaller : /\ cs[c].call = {o}
                          /\ cs[o].stage \in Leading \ {"erase"} /\ cs[o].path = cs[c].path

\* Everything that refers to a descriptor finds it open on its own path.
RightFile ==
  /\ \A k \in 1..Len(lru) : file[lru[k][2]] = {lru[k][1]}
  /\ \A c \in FileCaller : \A f \in cs[c].res.fd \cup cs[c].raw : file[f] = cs[c].path

CacheInv == CacheTypes /\ OnePath /\ Registered /\ Missing /\ Awaited /\ RightFile

LEMMA CacheInitially == Res!Init => CacheInv
<1> SUFFICES ASSUME Res!Init PROVE CacheInv
  OBVIOUS
<1> USE DEF Res!Init
<1>1. /\ Res!Idle \in CacheCall /\ Res!Idle.stage = "idle"
      /\ Res!Idle.res.fd = {} /\ Res!Idle.raw = {}
  BY DEF Res!Idle, Res!Nothing, CacheCall, CacheStage, CacheResult
<1>2. lru \in Seq(FilePath \X Fd) /\ Len(lru) = 0
  OBVIOUS
<1>3. CacheTypes
  BY <1>1, <1>2 DEF CacheTypes
<1> QED  BY <1>1, <1>2, <1>3 DEF CacheInv, OnePath, Registered, Missing, Awaited, RightFile, Leading

\* What is still referred to is not closed.
LEMMA ReapedKeeps ==
  ASSUME CacheTypes, NEW q \in Seq(FilePath \X Fd), NEW s \in [FileCaller -> CacheCall]
  PROVE  LET g == Res!Reaped(file, q, s)
         IN  /\ g \in [Fd -> SUBSET FilePath]
             /\ \A k \in 1..Len(q) : q[k] \in FilePath \X Fd /\ q[k][2] \in Fd
                                     /\ g[q[k][2]] = file[q[k][2]]
             /\ \A c \in FileCaller : \A f \in s[c].res.fd \cup s[c].raw : f \in Fd /\ g[f] = file[f]
<1> DEFINE g == Res!Reaped(file, q, s)
<1>1. g \in [Fd -> SUBSET FilePath]
  BY DEF Res!Reaped, CacheTypes
<1>2. ASSUME NEW k \in 1..Len(q)
      PROVE  q[k] \in FilePath \X Fd /\ q[k][2] \in Fd /\ g[q[k][2]] = file[q[k][2]]
  <2>1. q[k] \in FilePath \X Fd /\ q[k][2] \in Fd /\ k \in DOMAIN q
    OBVIOUS
  <2> QED  BY <2>1 DEF Res!Reaped
<1>3. ASSUME NEW c \in FileCaller, NEW f \in s[c].res.fd \cup s[c].raw
      PROVE  f \in Fd /\ g[f] = file[f]
  <2>1. f \in Fd
    BY DEF CacheCall, CacheResult
  <2> QED  BY <2>1 DEF Res!Reaped
<1> QED  BY <1>1, <1>2, <1>3

\* The cache after a step that opens nothing.
LEMMA RightFileKept ==
  ASSUME CacheInv, lru' \in Seq(FilePath \X Fd), inFlight' \in [FilePath -> SUBSET FileCaller],
         cs' \in [FileCaller -> CacheCall], file' = Res!Reaped(file, lru', cs'),
         \A k \in 1..Len(lru') : file[lru'[k][2]] = {lru'[k][1]},
         \A c \in FileCaller : \A f \in cs'[c].res.fd \cup cs'[c].raw : file[f] = cs'[c].path
  PROVE  CacheTypes' /\ RightFile'
<1>1. CacheTypes
  BY DEF CacheInv
<1>2. /\ file' \in [Fd -> SUBSET FilePath]
      /\ \A k \in 1..Len(lru') : file'[lru'[k][2]] = file[lru'[k][2]]
      /\ \A c \in FileCaller : \A f \in cs'[c].res.fd \cup cs'[c].raw : file'[f] = file[f]
  BY <1>1, ReapedKeeps, SMTT(60)
<1>3. CacheTypes'
  BY <1>2 DEF CacheTypes
<1>4. RightFile'
  BY <1>2 DEF RightFile
<1> QED  BY <1>3, <1>4

\* The entries of the list after an entry moved to the front.
LEMMA FrontKeeps ==
  ASSUME lru \in Seq(FilePath \X Fd), NEW i \in 1..Len(lru)
  PROVE  /\ Res!Front(i) \in Seq(FilePath \X Fd)
         /\ \A k \in 1..Len(Res!Front(i)) : \E j \in 1..Len(lru) : Res!Front(i)[k] = lru[j]
<1> DEFINE E == {lru[j] : j \in 1..Len(lru)}
           a == <<lru[i]>>
           b == SubSeq(lru, 1, i - 1)
           c == SubSeq(lru, i + 1, Len(lru))
<1>1. Len(lru) \in Nat /\ i \in Int /\ i - 1 \in Int /\ i + 1 \in Int /\ Len(lru) \in Int
  OBVIOUS
<1>2. a \in Seq(E)
  OBVIOUS
<1>3. b \in Seq(E)
  <2>1. \A j \in 1..(i - 1) : lru[j] \in E
    BY <1>1
  <2> HIDE DEF E
  <2> QED  BY <1>1, <2>1, SubSeqProperties
<1>4. c \in Seq(E)
  <2>1. \A j \in (i + 1)..Len(lru) : lru[j] \in E
    BY <1>1
  <2> HIDE DEF E
  <2> QED  BY <1>1, <2>1, SubSeqProperties
<1>5. Res!Front(i) = a \o b \o c
  BY DEF Res!Front
<1>6. E \subseteq FilePath \X Fd /\ \A e \in E : \E j \in 1..Len(lru) : e = lru[j]
  OBVIOUS
<1> HIDE DEF E, a, b, c
<1>7. Res!Front(i) \in Seq(E)
  BY <1>2, <1>3, <1>4, <1>5
<1> HIDE DEF Res!Front
<1>8. Res!Front(i) \in Seq(FilePath \X Fd)
  BY <1>6, <1>7
<1>9. \A k \in 1..Len(Res!Front(i)) : Res!Front(i)[k] \in E
  BY <1>7
<1> QED  BY <1>6, <1>8, <1>9

\* What one caller's step leaves of the others.
LEMMA OneCaller ==
  ASSUME CacheInv, NEW c \in FileCaller, NEW r \in CacheCall, cs' = [cs EXCEPT ![c] = r]
  PROVE  /\ cs' \in [FileCaller -> CacheCall]
         /\ cs'[c] = r /\ \A x \in FileCaller : x # c => cs'[x] = cs[x]
BY DEF CacheInv, CacheTypes

\* The opener of a path takes its next step, before it sets done.
LEMMA OpenerSteps ==
  ASSUME CacheInv, NEW c \in FileCaller, NEW r \in CacheCall, cs' = [cs EXCEPT ![c] = r],
         cs[c].stage \in Leading \ {"erase"}, r.stage \in Leading \ {"erase"}, r.path = cs[c].path,
         r.stage \in {"stat", "put"} => lru' = lru /\ cs[c].stage \in {"open", "stat"},
         r.stage # "open", UNCHANGED inFlight,
         \A k \in 1..Len(lru') : \/ \E j \in 1..Len(lru) : lru'[k] = lru[j]
                                 \/ lru'[k][1] \in cs[c].path,
         CacheTypes', RightFile'
  PROVE  CacheInv'
<1>1. /\ cs'[c] = r /\ \A x \in FileCaller : x # c => cs'[x] = cs[x]
  BY OneCaller
<1>2. OnePath'
  BY <1>1 DEF OnePath, CacheInv, Leading
<1>3. Registered'
  <2>1. \A x \in FileCaller : /\ cs'[x].stage \in Leading => cs[x].stage \in Leading /\ cs'[x].path = cs[x].path
                              /\ cs[x].stage \in Leading => cs'[x].stage \in Leading /\ cs'[x].path = cs[x].path
    BY <1>1
  <2> QED  BY <2>1 DEF Registered, CacheInv, CacheTypes
<1>4. Missing'
  <2> SUFFICES ASSUME NEW x \in FileCaller, cs'[x].stage \in {"open", "stat", "put"},
                      NEW k \in 1..Len(lru')
               PROVE  lru'[k][1] \notin cs'[x].path
    BY DEF Missing
  <2>1. CASE x = c
    BY <1>1, <2>1 DEF Missing, CacheInv
  <2>2. CASE x # c
    <3>1. cs'[x] = cs[x] /\ cs[x].stage \in Leading
      BY <1>1, <2>2 DEF Leading
    <3>2. \A p \in FilePath : p \notin cs[x].path \/ p \notin cs[c].path
      BY <2>2, <3>1 DEF CacheInv, Registered
    <3>3. CASE \E j \in 1..Len(lru) : lru'[k] = lru[j]
      BY <3>1, <3>3 DEF CacheInv, Missing
    <3>4. CASE lru'[k][1] \in cs[c].path
      BY <3>1, <3>2, <3>4 DEF CacheInv, CacheTypes, CacheCall
    <3> QED  BY <3>3, <3>4
  <2> QED  BY <2>1, <2>2
<1>5. Awaited'
  <2> SUFFICES ASSUME NEW x \in FileCaller, cs'[x].stage = "wait"
               PROVE  \E o \in FileCaller : /\ cs'[x].call = {o}
                        /\ cs'[o].stage \in Leading \ {"erase"} /\ cs'[o].path = cs'[x].path
    BY DEF Awaited
  <2>1. x # c /\ cs'[x] = cs[x]
    BY <1>1 DEF Leading
  <2>2. PICK o \in FileCaller : /\ cs[x].call = {o}
                                /\ cs[o].stage \in Leading \ {"erase"} /\ cs[o].path = cs[x].path
    BY <2>1 DEF CacheInv, Awaited
  <2> QED  BY <1>1, <2>1, <2>2
<1> QED  BY <1>2, <1>3, <1>4, <1>5 DEF CacheInv

\* A caller that opens nothing takes a step.
LEMMA OtherSteps ==
  ASSUME CacheInv, NEW c \in FileCaller, NEW r \in CacheCall, cs' = [cs EXCEPT ![c] = r],
         cs[c].stage \notin Leading, r.stage \notin Leading,
         IF r.stage = "idle" THEN r = Res!Idle ELSE \E p \in FilePath : r.path = {p},
         r.stage = "wait" =>
           \E o \in FileCaller : /\ r.call = {o}
                                 /\ cs[o].stage \in Leading \ {"erase"} /\ cs[o].path = r.path,
         UNCHANGED inFlight,
         \A k \in 1..Len(lru') : \E j \in 1..Len(lru) : lru'[k] = lru[j],
         CacheTypes', RightFile'
  PROVE  CacheInv'
<1>1. cs'[c] = r /\ \A x \in FileCaller : x # c => cs'[x] = cs[x]
  BY OneCaller
<1>2. OnePath'
  BY <1>1 DEF OnePath, CacheInv
<1>3. Registered'
  BY <1>1 DEF Registered, CacheInv, CacheTypes
<1>4. Missing'
  <2> SUFFICES ASSUME NEW x \in FileCaller, cs'[x].stage \in {"open", "stat", "put"},
                      NEW k \in 1..Len(lru')
               PROVE  lru'[k][1] \notin cs'[x].path
    BY DEF Missing
  <2>1. x # c /\ cs'[x] = cs[x]
    BY <1>1 DEF Leading
  <2> QED  BY <2>1 DEF CacheInv, Missing
<1>5. Awaited'
  <2> SUFFICES ASSUME NEW x \in FileCaller, cs'[x].stage = "wait"
               PROVE  \E o \in FileCaller : /\ cs'[x].call = {o}
                        /\ cs'[o].stage \in Leading \ {"erase"} /\ cs'[o].path = cs'[x].path
    BY DEF Awaited
  <2>1. PICK o \in FileCaller : /\ cs'[x].call = {o}
                                /\ cs[o].stage \in Leading \ {"erase"} /\ cs[o].path = cs'[x].path
    BY <1>1 DEF CacheInv, Awaited
  <2> QED  BY <1>1, <2>1
<1> QED  BY <1>2, <1>3, <1>4, <1>5 DEF CacheInv

\* What Become does, for a record whose descriptors are open on its path.
LEMMA BecomeKeeps ==
  ASSUME CacheInv, NEW c \in FileCaller, NEW r \in CacheCall, Res!Become(c, r),
         lru' \in Seq(FilePath \X Fd), inFlight' \in [FilePath -> SUBSET FileCaller],
         \A k \in 1..Len(lru') : file[lru'[k][2]] = {lru'[k][1]},
         \A f \in r.res.fd \cup r.raw : file[f] = r.path
  PROVE  cs' = [cs EXCEPT ![c] = r] /\ CacheTypes' /\ RightFile'
<1>1. cs' = [cs EXCEPT ![c] = r] /\ file' = Res!Reaped(file, lru', cs')
  BY DEF Res!Become
<1>2. /\ cs' \in [FileCaller -> CacheCall]
      /\ cs'[c] = r /\ \A x \in FileCaller : x # c => cs'[x] = cs[x]
  BY <1>1, OneCaller
<1>3. \A x \in FileCaller : \A f \in cs'[x].res.fd \cup cs'[x].raw : file[f] = cs'[x].path
  BY <1>2 DEF CacheInv, RightFile
<1> QED  BY <1>1, <1>2, <1>3, RightFileKept

LEMMA IdleCall ==
  /\ Res!Idle \in CacheCall /\ Res!Idle.raw = {} /\ Res!Idle.res = Res!Nothing
  /\ Res!Nothing.fd = {} /\ Res!Idle.stage = "idle"
BY DEF Res!Idle, Res!Nothing, CacheCall, CacheStage, CacheResult

LEMMA HitKeeps ==
  ASSUME CacheInv, NEW c \in FileCaller, NEW p \in FilePath, cs[c].stage = "idle", Res!Hit(c, p)
  PROVE  CacheInv'
<1>1. PICK i \in Res!Found(p) :
         /\ lru' = Res!Front(i)
         /\ Res!Become(c, [Res!Idle EXCEPT !.stage = "holds", !.path = {p},
                                           !.res = [fd |-> {lru[i][2]}, status |-> 200]])
         /\ UNCHANGED inFlight
  BY DEF Res!Hit
<1> DEFINE r == [Res!Idle EXCEPT !.stage = "holds", !.path = {p},
                                 !.res = [fd |-> {lru[i][2]}, status |-> 200]]
<1>2. lru \in Seq(FilePath \X Fd) /\ i \in 1..Len(lru) /\ lru[i][1] = p /\ lru[i] \in FilePath \X Fd
  BY DEF CacheInv, CacheTypes, Res!Found
<1>3. /\ r \in CacheCall /\ r.stage = "holds" /\ r.path = {p} /\ r.raw = {} /\ r.res.fd = {lru[i][2]}
  <2> DEFINE res == [fd |-> {lru[i][2]}, status |-> 200]
  <2>1. res \in CacheResult /\ res.fd = {lru[i][2]} /\ "holds" \in CacheStage
    BY <1>2 DEF CacheResult, CacheStage
  <2> HIDE DEF res
  <2>2. r = [Res!Idle EXCEPT !.stage = "holds", !.path = {p}, !.res = res]
    BY DEF res
  <2> HIDE DEF r
  <2>3. r \in CacheCall /\ r.stage = "holds" /\ r.path = {p} /\ r.raw = {} /\ r.res = res
    BY <2>1, <2>2, IdleCall DEF CacheCall
  <2> QED  BY <2>1, <2>3
<1>4. /\ lru' \in Seq(FilePath \X Fd)
      /\ \A k \in 1..Len(lru') : \E j \in 1..Len(lru) : lru'[k] = lru[j]
  BY <1>1, <1>2, FrontKeeps
<1>5. \A k \in 1..Len(lru') : file[lru'[k][2]] = {lru'[k][1]}
  BY <1>4, ZenonT(60) DEF CacheInv, RightFile
<1>6. \A f \in r.res.fd \cup r.raw : file[f] = r.path
  BY <1>2, <1>3 DEF CacheInv, RightFile
<1>7. Res!Become(c, r) /\ inFlight' = inFlight /\ inFlight' \in [FilePath -> SUBSET FileCaller]
  BY <1>1 DEF CacheInv, CacheTypes
<1> HIDE DEF r
<1>8. cs' = [cs EXCEPT ![c] = r] /\ CacheTypes' /\ RightFile'
  BY <1>3, <1>4, <1>5, <1>6, <1>7, BecomeKeeps
<1>9. cs[c].stage \notin Leading /\ r.stage \notin Leading /\ r.stage # "idle" /\ r.stage # "wait"
  BY <1>3 DEF Leading
<1> QED  BY <1>3, <1>4, <1>7, <1>8, <1>9, OtherSteps

\* A caller takes what another holds, or waits, or gives back; the cache and
\* the calls in flight stay.
LEMMA CallerKeeps ==
  ASSUME CacheInv, NEW c \in FileCaller, NEW r \in CacheCall, Res!Become(c, r),
         UNCHANGED <<lru, inFlight>>,
         cs[c].stage \notin Leading, r.stage \notin Leading,
         IF r.stage = "idle" THEN r = Res!Idle ELSE \E p \in FilePath : r.path = {p},
         r.stage = "wait" =>
           \E o \in FileCaller : /\ r.call = {o}
                                 /\ cs[o].stage \in Leading \ {"erase"} /\ cs[o].path = r.path,
         \A f \in r.res.fd \cup r.raw : file[f] = r.path
  PROVE  CacheInv'
<1>1. /\ lru' \in Seq(FilePath \X Fd) /\ inFlight' \in [FilePath -> SUBSET FileCaller]
      /\ \A k \in 1..Len(lru') : file[lru'[k][2]] = {lru'[k][1]}
  BY DEF CacheInv, CacheTypes, RightFile
<1>2. cs' = [cs EXCEPT ![c] = r] /\ CacheTypes' /\ RightFile'
  BY <1>1, BecomeKeeps
<1>3. \A k \in 1..Len(lru') : \E j \in 1..Len(lru) : lru'[k] = lru[j]
  OBVIOUS
<1> QED  BY <1>2, <1>3, OtherSteps

LEMMA JoinKeeps ==
  ASSUME CacheInv, NEW c \in FileCaller, NEW p \in FilePath, cs[c].stage = "idle", Res!Join(c, p)
  PROVE  CacheInv'
<1>1. PICK o \in inFlight[p] :
          /\ UNCHANGED <<lru, inFlight>>
          /\ Res!Become(c, IF cs[o].stage = "erase"
                       THEN [Res!Idle EXCEPT !.stage = "woken", !.path = {p}, !.res = cs[o].res]
                       ELSE [Res!Idle EXCEPT !.stage = "wait", !.path = {p}, !.call = {o}])
  BY DEF Res!Join
<1>2. o \in FileCaller /\ cs[o].stage \in Leading /\ cs[o].path = {p} /\ cs[o] \in CacheCall
  <2>1. o \in FileCaller /\ cs[o].stage \in Leading /\ p \in cs[o].path /\ cs[o] \in CacheCall
    BY DEF CacheInv, Registered, CacheTypes
  <2>2. cs[o].stage # "idle"
    BY <2>1 DEF Leading
  <2> QED  BY <2>1, <2>2 DEF CacheInv, OnePath
<1>3. cs[c].stage \notin Leading
  BY DEF Leading
<1>4. CASE cs[o].stage = "erase"
  <2> DEFINE r == [Res!Idle EXCEPT !.stage = "woken", !.path = {p}, !.res = cs[o].res]
  <2>1. r \in CacheCall /\ r.stage = "woken" /\ r.path = {p} /\ r.raw = {} /\ r.res = cs[o].res
    <3>1. "woken" \in CacheStage /\ cs[o].res \in CacheResult
      BY <1>2 DEF CacheStage, CacheCall
    <3> QED  BY <3>1, IdleCall DEF CacheCall
  <2>2. Res!Become(c, r)
    BY <1>1, <1>4
  <2> HIDE DEF r
  <2>3. \A f \in r.res.fd \cup r.raw : file[f] = r.path
    BY <1>2, <2>1 DEF CacheInv, RightFile
  <2>4. r.stage \notin Leading
    BY <2>1 DEF Leading
  <2> QED  BY <1>1, <1>3, <2>1, <2>2, <2>3, <2>4, CallerKeeps
<1>5. CASE cs[o].stage # "erase"
  <2> DEFINE r == [Res!Idle EXCEPT !.stage = "wait", !.path = {p}, !.call = {o}]
  <2>1. r \in CacheCall /\ r.stage = "wait" /\ r.path = {p} /\ r.raw = {} /\ r.call = {o} /\ r.res.fd = {}
    <3>1. "wait" \in CacheStage /\ {o} \in SUBSET FileCaller
      BY <1>2 DEF CacheStage
    <3> QED  BY <3>1, IdleCall DEF CacheCall
  <2>2. Res!Become(c, r)
    BY <1>1, <1>5
  <2> HIDE DEF r
  <2>3. \A f \in r.res.fd \cup r.raw : file[f] = r.path
    BY <2>1
  <2>4. r.stage \notin Leading
    BY <2>1 DEF Leading
  <2>5. cs[o].stage \in Leading \ {"erase"} /\ cs[o].path = r.path
    BY <1>2, <1>5, <2>1
  <2> QED  BY <1>1, <1>2, <1>3, <2>1, <2>2, <2>3, <2>4, <2>5, CallerKeeps
<1> QED  BY <1>4, <1>5

LEMMA LeadKeeps ==
  ASSUME CacheInv, NEW c \in FileCaller, NEW p \in FilePath, cs[c].stage = "idle", Res!Lead(c, p)
  PROVE  CacheInv'
<1> DEFINE r == [Res!Idle EXCEPT !.stage = "open", !.path = {p}]
<1>1. r \in CacheCall /\ r.stage = "open" /\ r.path = {p} /\ r.raw = {} /\ r.res.fd = {}
  <2>1. "open" \in CacheStage
    BY DEF CacheStage, Leading
  <2> QED  BY <2>1, IdleCall DEF CacheCall
<1>2. /\ Res!Become(c, r) /\ lru' = lru
      /\ inFlight[p] = {} /\ inFlight' = [inFlight EXCEPT ![p] = {c}]
      /\ \A k \in 1..Len(lru) : lru[k][1] # p
  <2>1. DOMAIN lru = 1..Len(lru)
    BY DEF CacheInv, CacheTypes
  <2> QED  BY <2>1 DEF Res!Lead, Res!Found
<1> HIDE DEF r
<1>3. /\ lru' \in Seq(FilePath \X Fd) /\ inFlight' \in [FilePath -> SUBSET FileCaller]
      /\ \A k \in 1..Len(lru') : file[lru'[k][2]] = {lru'[k][1]}
      /\ \A f \in r.res.fd \cup r.raw : file[f] = r.path
      /\ \A q \in FilePath : inFlight'[q] = IF q = p THEN {c} ELSE inFlight[q]
  BY <1>1, <1>2 DEF CacheInv, CacheTypes, RightFile
<1>4. cs' = [cs EXCEPT ![c] = r] /\ CacheTypes' /\ RightFile'
  BY <1>1, <1>2, <1>3, BecomeKeeps
<1>5. cs'[c] = r /\ \A x \in FileCaller : x # c => cs'[x] = cs[x]
  BY <1>1, <1>4, OneCaller
<1>6. OnePath'
  BY <1>1, <1>5 DEF OnePath, CacheInv
<1>7. Registered'
  <2>1. ASSUME NEW x \in FileCaller, cs'[x].stage \in Leading, NEW q \in cs'[x].path
        PROVE  inFlight'[q] = {x}
    <3>1. CASE x = c
      BY <1>1, <1>3, <1>5, <2>1, <3>1
    <3>2. CASE x # c
      <4>1. inFlight[q] = {x} /\ q \in FilePath
        BY <1>5, <2>1, <3>2 DEF CacheInv, Registered, CacheTypes, CacheCall
      <4> QED  BY <1>2, <1>3, <4>1
    <3> QED  BY <3>1, <3>2
  <2>2. ASSUME NEW q \in FilePath, NEW x \in inFlight'[q]
        PROVE  cs'[x].stage \in Leading /\ q \in cs'[x].path
    <3>1. CASE q = p
      BY <1>1, <1>3, <1>5, <3>1 DEF Leading
    <3>2. CASE q # p
      <4>1. x \in FileCaller /\ cs[x].stage \in Leading /\ q \in cs[x].path
        BY <1>3, <3>2 DEF CacheInv, Registered, CacheTypes
      <4> QED  BY <1>5, <4>1 DEF Leading
    <3> QED  BY <3>1, <3>2
  <2> QED  BY <2>1, <2>2 DEF Registered
<1>8. Missing'
  BY <1>1, <1>2, <1>5 DEF Missing, CacheInv
<1>9. Awaited'
  <2> SUFFICES ASSUME NEW x \in FileCaller, cs'[x].stage = "wait"
               PROVE  \E o \in FileCaller : /\ cs'[x].call = {o}
                        /\ cs'[o].stage \in Leading \ {"erase"} /\ cs'[o].path = cs'[x].path
    BY DEF Awaited
  <2>1. x # c
    BY <1>1, <1>5
  <2>2. PICK o \in FileCaller : /\ cs[x].call = {o}
                                /\ cs[o].stage \in Leading \ {"erase"} /\ cs[o].path = cs[x].path
    BY <1>5, <2>1 DEF CacheInv, Awaited
  <2>3. o # c
    BY <2>2 DEF Leading
  <2> QED  BY <1>5, <2>1, <2>2, <2>3
<1> QED  BY <1>4, <1>6, <1>7, <1>8, <1>9 DEF CacheInv

\* The opener's steps that open nothing and leave the cache.
LEMMA OpenerKeeps ==
  ASSUME CacheInv, NEW c \in FileCaller, NEW r \in CacheCall, Res!Become(c, r),
         UNCHANGED <<lru, inFlight>>,
         cs[c].stage \in Leading \ {"erase"}, r.stage \in Leading \ {"erase", "open"},
         r.path = cs[c].path,
         r.stage \in {"stat", "put"} => cs[c].stage \in {"open", "stat"},
         \A f \in r.res.fd \cup r.raw : f \in cs[c].res.fd \cup cs[c].raw
  PROVE  CacheInv'
<1>1. /\ lru' \in Seq(FilePath \X Fd) /\ inFlight' \in [FilePath -> SUBSET FileCaller]
      /\ \A k \in 1..Len(lru') : file[lru'[k][2]] = {lru'[k][1]}
      /\ \A f \in r.res.fd \cup r.raw : file[f] = r.path
  BY DEF CacheInv, CacheTypes, RightFile
<1>2. cs' = [cs EXCEPT ![c] = r] /\ CacheTypes' /\ RightFile'
  BY <1>1, BecomeKeeps
<1>3. \A k \in 1..Len(lru') : \E j \in 1..Len(lru) : lru'[k] = lru[j]
  OBVIOUS
<1> QED  BY <1>2, <1>3, OpenerSteps

LEMMA OpenKeeps ==
  ASSUME CacheInv, NEW c \in FileCaller, Res!Open(c)
  PROVE  CacheInv'
<1>1. cs[c] \in CacheCall /\ cs[c].stage = "open" /\ UNCHANGED <<lru, inFlight>>
  BY DEF Res!Open, CacheInv, CacheTypes
<1>2. CASE Res!Become(c, [cs[c] EXCEPT !.stage = "done", !.res.status = 404])
  <2> DEFINE r == [cs[c] EXCEPT !.stage = "done", !.res.status = 404]
  <2>1. r \in CacheCall /\ r.stage = "done" /\ r.path = cs[c].path /\ r.res.fd = cs[c].res.fd /\ r.raw = cs[c].raw
    <3> DEFINE q == cs[c]
               res == [q.res EXCEPT !.status = 404]
    <3>1. q \in CacheCall /\ "done" \in CacheStage
      BY <1>1 DEF CacheStage, Leading
    <3>2. r = [q EXCEPT !.stage = "done", !.res = res]
      OBVIOUS
    <3> HIDE DEF q, r
    <3>3. res \in CacheResult /\ res.fd = q.res.fd
      BY <3>1 DEF CacheCall, CacheResult
    <3> HIDE DEF res
    <3>4. r \in CacheCall /\ r.stage = "done" /\ r.path = q.path /\ r.res = res /\ r.raw = q.raw
      BY <3>1, <3>2, <3>3 DEF CacheCall
    <3> QED  BY <3>3, <3>4 DEF q
  <2>2. Res!Become(c, r)
    BY <1>2
  <2> HIDE DEF r
  <2>3. cs[c].stage \in Leading \ {"erase"} /\ r.stage \in Leading \ {"erase", "open"}
    BY <1>1, <2>1 DEF Leading
  <2> QED  BY <1>1, <2>1, <2>2, <2>3, OpenerKeeps
<1>3. ASSUME NEW f \in Fd, file[f] = {}, cs' = [cs EXCEPT ![c].stage = "stat", ![c].raw = {f}],
             file' = [file EXCEPT ![f] = cs[c].path]
      PROVE  CacheInv'
  <2> DEFINE r == [cs[c] EXCEPT !.stage = "stat", !.raw = {f}]
  <2>1. /\ r \in CacheCall /\ r.stage = "stat" /\ r.path = cs[c].path
        /\ r.res = cs[c].res /\ r.raw = {f}
    <3>1. "stat" \in CacheStage /\ {f} \in SUBSET Fd
      BY DEF CacheStage, Leading
    <3> QED  BY <1>1, <3>1 DEF CacheCall
  <2>2. cs' = [cs EXCEPT ![c] = r]
    BY <1>1, <1>3 DEF CacheInv, CacheTypes
  <2> HIDE DEF r
  <2>3. /\ cs' \in [FileCaller -> CacheCall]
        /\ cs'[c] = r /\ \A x \in FileCaller : x # c => cs'[x] = cs[x]
    BY <2>1, <2>2, OneCaller
  <2>4. file' \in [Fd -> SUBSET FilePath] /\ \A d \in Fd : file'[d] = IF d = f THEN cs[c].path ELSE file[d]
    BY <1>1, <1>3 DEF CacheInv, CacheTypes, CacheCall
  <2>5. CacheTypes'
    BY <1>1, <2>3, <2>4 DEF CacheInv, CacheTypes
  <2>6. ASSUME NEW k \in 1..Len(lru) PROVE lru[k][2] \in Fd /\ lru[k][2] # f
    <3>1. lru[k] \in FilePath \X Fd
      BY DEF CacheInv, CacheTypes
    <3>2. file[lru[k][2]] = {lru[k][1]}
      BY DEF CacheInv, RightFile
    <3> QED  BY <1>3, <3>1, <3>2
  <2>7. ASSUME NEW x \in FileCaller, NEW d \in cs[x].res.fd \cup cs[x].raw PROVE d \in Fd /\ d # f
    <3>1. cs[x] \in CacheCall /\ file[d] = cs[x].path
      BY DEF CacheInv, CacheTypes, RightFile
    <3>2. d \in Fd
      BY <3>1 DEF CacheCall, CacheResult
    <3>3. cs[x].path # {}
      <4>1. CASE cs[x].stage = "idle"
        BY <4>1 DEF CacheInv, OnePath, Res!Idle, Res!Nothing
      <4>2. CASE cs[x].stage # "idle"
        BY <4>2 DEF CacheInv, OnePath
      <4> QED  BY <4>1, <4>2
    <3> QED  BY <1>3, <3>1, <3>2, <3>3
  <2>8. RightFile'
    <3>1. \A k \in 1..Len(lru') : file'[lru'[k][2]] = {lru'[k][1]}
      BY <1>1, <2>4, <2>6 DEF CacheInv, RightFile
    <3>2. ASSUME NEW x \in FileCaller, NEW d \in cs'[x].res.fd \cup cs'[x].raw
          PROVE  file'[d] = cs'[x].path
      <4>1. CASE x = c /\ d = f
        BY <2>1, <2>3, <2>4, <4>1
      <4>2. CASE ~(x = c /\ d = f)
        <5>1. d \in cs[x].res.fd \cup cs[x].raw /\ cs'[x].path = cs[x].path
          BY <2>1, <2>3, <3>2, <4>2
        <5>2. file[d] = cs[x].path
          BY <5>1 DEF CacheInv, RightFile
        <5> QED  BY <2>4, <2>7, <5>1, <5>2
      <4> QED  BY <4>1, <4>2
    <3> QED  BY <3>1, <3>2 DEF RightFile
  <2>9. cs[c].stage \in Leading \ {"erase"} /\ r.stage \in Leading \ {"erase", "open"}
    BY <1>1, <2>1 DEF Leading
  <2>10. \A k \in 1..Len(lru') : \E j \in 1..Len(lru) : lru'[k] = lru[j]
    BY <1>1
  <2> QED  BY <1>1, <2>1, <2>2, <2>5, <2>8, <2>9, <2>10, OpenerSteps
<1> QED  BY <1>2, <1>3 DEF Res!Open

LEMMA StatKeeps ==
  ASSUME CacheInv, NEW c \in FileCaller, Res!Stat(c)
  PROVE  CacheInv'
<1>1. /\ cs[c] \in CacheCall /\ cs[c].stage = "stat" /\ UNCHANGED <<lru, inFlight>>
      /\ cs[c].stage \in Leading \ {"erase"}
  BY DEF Res!Stat, CacheInv, CacheTypes, Leading
<1>2. CASE Res!Become(c, [cs[c] EXCEPT !.stage = "put", !.raw = {},
                                      !.res = [fd |-> cs[c].raw, status |-> 200]])
  <2> DEFINE res == [fd |-> cs[c].raw, status |-> 200]
             r == [cs[c] EXCEPT !.stage = "put", !.raw = {}, !.res = res]
  <2>1. res \in CacheResult /\ res.fd = cs[c].raw /\ "put" \in CacheStage /\ {} \in SUBSET Fd
    BY <1>1 DEF CacheCall, CacheResult, CacheStage, Leading
  <2>2. Res!Become(c, r)
    BY <1>2
  <2> HIDE DEF res
  <2>3. r \in CacheCall /\ r.stage = "put" /\ r.path = cs[c].path /\ r.res = res /\ r.raw = {}
    BY <1>1, <2>1 DEF CacheCall
  <2> HIDE DEF r
  <2>4. r.stage \in Leading \ {"erase", "open"}
    BY <2>3 DEF Leading
  <2> QED  BY <1>1, <2>1, <2>2, <2>3, <2>4, OpenerKeeps
<1>3. ASSUME NEW s \in {404, 403}, Res!Become(c, [cs[c] EXCEPT !.stage = "close", !.res.status = s])
      PROVE  CacheInv'
  <2> DEFINE r == [cs[c] EXCEPT !.stage = "close", !.res.status = s]
  <2>1. r \in CacheCall /\ r.stage = "close" /\ r.path = cs[c].path /\ r.res.fd = cs[c].res.fd /\ r.raw = cs[c].raw
    <3> DEFINE q == cs[c]
               res == [q.res EXCEPT !.status = s]
    <3>1. q \in CacheCall /\ "close" \in CacheStage
      BY <1>1 DEF CacheStage, Leading
    <3>2. r = [q EXCEPT !.stage = "close", !.res = res]
      OBVIOUS
    <3> HIDE DEF q, r
    <3>3. res \in CacheResult /\ res.fd = q.res.fd
      BY <3>1 DEF CacheCall, CacheResult
    <3> HIDE DEF res
    <3>4. r \in CacheCall /\ r.stage = "close" /\ r.path = q.path /\ r.res = res /\ r.raw = q.raw
      BY <3>1, <3>2, <3>3 DEF CacheCall
    <3> QED  BY <3>3, <3>4 DEF q
  <2>2. Res!Become(c, r)
    BY <1>3
  <2> HIDE DEF r
  <2>3. r.stage \in Leading \ {"erase", "open"}
    BY <2>1 DEF Leading
  <2> QED  BY <1>1, <2>1, <2>2, <2>3, OpenerKeeps
<1> QED  BY <1>2, <1>3 DEF Res!Stat

LEMMA CloseKeeps ==
  ASSUME CacheInv, NEW c \in FileCaller, Res!Close(c)
  PROVE  CacheInv'
<1>1. /\ cs[c] \in CacheCall /\ cs[c].stage = "close" /\ UNCHANGED <<lru, inFlight>>
      /\ cs[c].stage \in Leading \ {"erase"}
  BY DEF Res!Close, CacheInv, CacheTypes, Leading
<1> DEFINE r == [cs[c] EXCEPT !.stage = "done", !.raw = {}]
<1>2. r \in CacheCall /\ r.stage = "done" /\ r.path = cs[c].path /\ r.res = cs[c].res /\ r.raw = {}
  <2>1. "done" \in CacheStage /\ {} \in SUBSET Fd
    BY DEF CacheStage, Leading
  <2> QED  BY <1>1, <2>1 DEF CacheCall
<1>3. Res!Become(c, r)
  BY DEF Res!Close
<1> HIDE DEF r
<1>4. r.stage \in Leading \ {"erase", "open"}
  BY <1>2 DEF Leading
<1> QED  BY <1>1, <1>2, <1>3, <1>4, OpenerKeeps

LEMMA PutKeeps ==
  ASSUME CacheInv, NEW c \in FileCaller, Res!Put(c)
  PROVE  CacheInv'
<1>1. /\ cs[c] \in CacheCall /\ cs[c].stage = "put" /\ inFlight' = inFlight
      /\ cs[c].stage \in Leading \ {"erase"}
      /\ lru \in Seq(FilePath \X Fd) /\ DOMAIN lru = 1..Len(lru)
      /\ inFlight' \in [FilePath -> SUBSET FileCaller]
  <2>1. cs[c] \in CacheCall /\ lru \in Seq(FilePath \X Fd) /\ inFlight \in [FilePath -> SUBSET FileCaller]
    BY DEF CacheInv, CacheTypes
  <2>2. cs[c].stage = "put" /\ inFlight' = inFlight
    BY DEF Res!Put
  <2>3. DOMAIN lru = 1..Len(lru)
    BY <2>1
  <2> QED  BY <2>1, <2>2, <2>3 DEF Leading
<1>2. PICK p \in cs[c].path :
          IF Res!Found(p) = {}
          THEN /\ \E f \in cs[c].res.fd : lru' = <<<<p, f>>>> \o Res!Evicted
               /\ Res!Become(c, [cs[c] EXCEPT !.stage = "done"])
          ELSE \E i \in Res!Found(p) :
                  /\ lru' = Res!Front(i)
                  /\ Res!Become(c, [cs[c] EXCEPT !.stage = "done", !.res.fd = {lru[i][2]}])
  BY DEF Res!Put
<1>3. Res!Found(p) = {}
  BY <1>1 DEF Res!Found, CacheInv, Missing
<1>4. PICK f \in cs[c].res.fd : lru' = <<<<p, f>>>> \o Res!Evicted
  BY <1>2, <1>3
<1> DEFINE r == [cs[c] EXCEPT !.stage = "done"]
<1>5. /\ r \in CacheCall /\ r.stage = "done" /\ r.path = cs[c].path /\ r.res = cs[c].res
      /\ r.raw = cs[c].raw
  <2>1. "done" \in CacheStage
    BY DEF CacheStage, Leading
  <2> QED  BY <1>1, <2>1 DEF CacheCall
<1>6. Res!Become(c, r)
  BY <1>2, <1>3
<1> HIDE DEF r
<1>7. p \in FilePath /\ f \in Fd /\ file[f] = cs[c].path /\ cs[c].path = {p}
  <2>1. p \in FilePath /\ f \in Fd
    BY <1>1 DEF CacheCall, CacheResult
  <2>2. file[f] = cs[c].path
    BY DEF CacheInv, RightFile
  <2> QED  BY <1>1, <2>1, <2>2 DEF CacheInv, OnePath
<1>8. /\ Res!Evicted \in Seq(FilePath \X Fd)
      /\ \A k \in 1..Len(Res!Evicted) : \E j \in 1..Len(lru) : Res!Evicted[k] = lru[j]
  <2>1. CASE Len(lru) = Cap /\ Len(lru) > 0
    <3>1. /\ SubSeq(lru, 1, Len(lru) - 1) \in Seq(FilePath \X Fd)
          /\ Len(SubSeq(lru, 1, Len(lru) - 1)) = Len(lru) - 1
          /\ \A k \in 1..(Len(lru) - 1) : SubSeq(lru, 1, Len(lru) - 1)[k] = lru[k]
      BY <1>1, <2>1, SeqFront
    <3>2. Res!Evicted = SubSeq(lru, 1, Len(lru) - 1)
      BY <2>1 DEF Res!Evicted
    <3>3. \A k \in 1..(Len(lru) - 1) : k \in 1..Len(lru)
      BY <1>1
    <3> QED  BY <3>1, <3>2, <3>3
  <2>2. CASE Len(lru) = 0
    <3>1. lru = <<>>
      BY <1>1, <2>2
    <3>2. Res!Evicted = <<>>
      BY <1>1, <2>2, <3>1, SubSeqEmpty DEF Res!Evicted
    <3> QED  BY <3>2
  <2>3. CASE Len(lru) # Cap
    <3>1. Res!Evicted = lru
      BY <2>3 DEF Res!Evicted
    <3> QED  BY <1>1, <3>1
  <2>4. Len(lru) \in Nat
    BY <1>1
  <2> QED  BY <2>1, <2>2, <2>3, <2>4
<1>9. /\ lru' \in Seq(FilePath \X Fd)
      /\ \A k \in 1..Len(lru') : lru'[k] = <<p, f>> \/ \E j \in 1..Len(lru) : lru'[k] = lru[j]
  <2> DEFINE e == <<<<p, f>>>>
             v == Res!Evicted
  <2>1. e \in Seq(FilePath \X Fd) /\ Len(e) = 1 /\ e[1] = <<p, f>>
    BY <1>7
  <2>2. v \in Seq(FilePath \X Fd) /\ \A k \in 1..Len(v) : \E j \in 1..Len(lru) : v[k] = lru[j]
    BY <1>8
  <2>3. lru' = e \o v
    BY <1>4
  <2> HIDE DEF e, v
  <2> DEFINE E == FilePath \X Fd
  <2>4. e \in Seq(E) /\ v \in Seq(E)
    BY <2>1, <2>2
  <2> HIDE DEF E
  <2>5. /\ e \o v \in Seq(E) /\ Len(e \o v) = 1 + Len(v)
        /\ \A k \in 1..(1 + Len(v)) : (e \o v)[k] = IF k <= 1 THEN e[k] ELSE v[k - 1]
    BY <2>1, <2>4, ConcatProperties
  <2>6. ASSUME NEW k \in 1..Len(lru')
        PROVE  lru'[k] = <<p, f>> \/ \E j \in 1..Len(lru) : lru'[k] = lru[j]
    <3>1. k = 1 \/ (k > 1 /\ k - 1 \in 1..Len(v))
      BY <2>3, <2>4, <2>5
    <3>2. lru'[k] = IF k <= 1 THEN e[k] ELSE v[k - 1]
      BY <2>3, <2>5
    <3>3. CASE k = 1
      BY <2>1, <3>2, <3>3
    <3>4. CASE k > 1 /\ k - 1 \in 1..Len(v)
      BY <2>2, <3>2, <3>4
    <3> QED  BY <3>1, <3>3, <3>4
  <2> QED  BY <2>3, <2>5, <2>6 DEF E
<1>10. ASSUME NEW k \in 1..Len(lru') PROVE file[lru'[k][2]] = {lru'[k][1]}
  <2>1. CASE lru'[k] = <<p, f>>
    BY <1>7, <2>1
  <2>2. CASE \E j \in 1..Len(lru) : lru'[k] = lru[j]
    BY <2>2 DEF CacheInv, RightFile
  <2> QED  BY <1>9, <2>1, <2>2
<1>11. \A g \in r.res.fd \cup r.raw : file[g] = r.path
  BY <1>5 DEF CacheInv, RightFile
<1>12. cs' = [cs EXCEPT ![c] = r] /\ CacheTypes' /\ RightFile'
  BY <1>1, <1>5, <1>6, <1>9, <1>10, <1>11, BecomeKeeps
<1>13. \A k \in 1..Len(lru') : \/ \E j \in 1..Len(lru) : lru'[k] = lru[j]
                               \/ lru'[k][1] \in cs[c].path
  BY <1>7, <1>9
<1>14. r.stage \in Leading \ {"erase"}
  BY <1>5 DEF Leading
<1> QED  BY <1>1, <1>5, <1>12, <1>13, <1>14, OpenerSteps

LEMMA DoneKeeps ==
  ASSUME CacheInv, NEW c \in FileCaller, Res!Done(c)
  PROVE  CacheInv'
<1> DEFINE waits(x) == cs[x].stage = "wait" /\ c \in cs[x].call
<1>1. /\ cs[c] \in CacheCall /\ cs[c].stage = "done" /\ UNCHANGED <<lru, inFlight, file>>
      /\ \A x \in FileCaller : cs[x] \in CacheCall
      /\ "erase" \in CacheStage /\ "woken" \in CacheStage
      /\ DOMAIN cs' = FileCaller
  BY DEF Res!Done, CacheInv, CacheTypes, Leading, CacheStage
<1>2. ASSUME NEW x \in FileCaller
      PROVE  /\ cs'[x] \in CacheCall /\ cs'[x].path = cs[x].path /\ cs'[x].raw = cs[x].raw
             /\ x = c => cs'[x].stage = "erase" /\ cs'[x].res = cs[c].res
             /\ x # c /\ waits(x) => cs'[x].stage = "woken" /\ cs'[x].res = cs[c].res
             /\ x # c /\ ~waits(x) => cs'[x] = cs[x]
  <2> DEFINE q == cs[x]
             res == cs[c].res
  <2>1. q \in CacheCall /\ res \in CacheResult
    BY <1>1 DEF CacheCall
  <2>2. /\ x = c => cs'[x] = [q EXCEPT !.stage = "erase"]
        /\ x # c /\ waits(x) => cs'[x] = [q EXCEPT !.stage = "woken", !.call = {}, !.res = res]
        /\ x # c /\ ~waits(x) => cs'[x] = q
    BY DEF Res!Done
  <2> HIDE DEF res
  <2>3. CASE x = c
    <3>1. q.res = res
      BY <2>3 DEF res
    <3>2. cs'[x] = [q EXCEPT !.stage = "erase"]
      BY <2>2, <2>3
    <3> HIDE DEF q
    <3>3. /\ cs'[x] \in CacheCall /\ cs'[x].path = q.path /\ cs'[x].raw = q.raw
          /\ cs'[x].stage = "erase" /\ cs'[x].res = q.res
      BY <1>1, <2>1, <3>2 DEF CacheCall
    <3> QED  BY <2>3, <3>1, <3>3 DEF q, res
  <2>4. CASE x # c /\ waits(x)
    <3>1. cs'[x] = [q EXCEPT !.stage = "woken", !.call = {}, !.res = res]
      BY <2>2, <2>4
    <3> HIDE DEF q
    <3>2. {} \in SUBSET FileCaller
      OBVIOUS
    <3>3. /\ cs'[x] \in CacheCall /\ cs'[x].path = q.path /\ cs'[x].raw = q.raw
          /\ cs'[x].stage = "woken" /\ cs'[x].res = res
      BY <1>1, <2>1, <3>1, <3>2 DEF CacheCall
    <3> QED  BY <2>4, <3>3 DEF q, res
  <2>5. CASE x # c /\ ~waits(x)
    BY <2>1, <2>2, <2>5
  <2> QED  BY <2>3, <2>4, <2>5
<1>3. \A x \in FileCaller : waits(x) => cs[x].path = cs[c].path /\ x # c
  BY <1>1 DEF CacheInv, Awaited
<1>4. CacheTypes'
  <2>1. cs' = [x \in FileCaller |-> cs'[x]]
    BY DEF Res!Done
  <2>2. cs' \in [FileCaller -> CacheCall]
    BY <1>2, <2>1
  <2> QED  BY <1>1, <2>2 DEF CacheInv, CacheTypes
<1>5. OnePath'
  <2> SUFFICES ASSUME NEW x \in FileCaller
               PROVE  IF cs'[x].stage = "idle" THEN cs'[x] = Res!Idle
                      ELSE \E p \in FilePath : cs'[x].path = {p}
    BY DEF OnePath
  <2>1. CASE x # c /\ ~waits(x)
    BY <1>2, <2>1 DEF CacheInv, OnePath
  <2>2. CASE x = c \/ waits(x)
    <3>1. cs[x].stage # "idle" /\ cs'[x].stage # "idle" /\ cs'[x].path = cs[x].path
      BY <1>1, <1>2, <2>2
    <3> QED  BY <3>1 DEF CacheInv, OnePath
  <2> QED  BY <2>1, <2>2
<1>6. \A x \in FileCaller : cs'[x].stage \in Leading <=> cs[x].stage \in Leading
  BY <1>1, <1>2 DEF Leading
<1>7. Registered'
  <2>1. inFlight \in [FilePath -> SUBSET FileCaller] /\ inFlight' = inFlight
    BY <1>1 DEF CacheInv, CacheTypes
  <2> QED  BY <1>2, <1>6, <2>1 DEF CacheInv, Registered
<1>8. Missing'
  <2>1. ASSUME NEW x \in FileCaller, cs'[x].stage \in {"open", "stat", "put"}
        PROVE  cs[x] = cs'[x]
    BY <1>2, <2>1
  <2> QED  BY <1>1, <2>1 DEF CacheInv, Missing
<1>9. Awaited'
  <2> SUFFICES ASSUME NEW x \in FileCaller, cs'[x].stage = "wait"
               PROVE  \E o \in FileCaller : /\ cs'[x].call = {o}
                        /\ cs'[o].stage \in Leading \ {"erase"} /\ cs'[o].path = cs'[x].path
    BY DEF Awaited
  <2>1. x # c /\ ~waits(x) /\ cs'[x] = cs[x]
    BY <1>2
  <2>2. PICK o \in FileCaller : /\ cs[x].call = {o}
                                /\ cs[o].stage \in Leading \ {"erase"} /\ cs[o].path = cs[x].path
    BY <2>1 DEF CacheInv, Awaited
  <2>3. o # c /\ ~waits(o)
    BY <2>1, <2>2 DEF Leading
  <2> QED  BY <1>2, <2>1, <2>2, <2>3
<1>10. RightFile'
  <2>1. ASSUME NEW x \in FileCaller, NEW f \in cs'[x].res.fd \cup cs'[x].raw
        PROVE  file'[f] = cs'[x].path
    <3>1. CASE f \in cs[x].res.fd \cup cs[x].raw
      BY <1>1, <1>2, <3>1 DEF CacheInv, RightFile
    <3>2. CASE waits(x) /\ f \in cs[c].res.fd
      BY <1>1, <1>2, <1>3, <3>2 DEF CacheInv, RightFile
    <3>3. f \in cs[x].res.fd \cup cs[x].raw \/ (waits(x) /\ f \in cs[c].res.fd)
      BY <1>2
    <3> QED  BY <3>1, <3>2, <3>3
  <2> QED  BY <1>1, <2>1 DEF CacheInv, RightFile
<1> QED  BY <1>4, <1>5, <1>7, <1>8, <1>9, <1>10 DEF CacheInv

LEMMA EraseKeeps ==
  ASSUME CacheInv, NEW c \in FileCaller, Res!Erase(c)
  PROVE  CacheInv'
<1>1. cs[c] \in CacheCall /\ cs[c].stage = "erase" /\ lru' = lru
  BY DEF Res!Erase, CacheInv, CacheTypes
<1>2. PICK p \in FilePath : cs[c].path = {p}
  BY <1>1 DEF CacheInv, OnePath
<1> DEFINE r == [cs[c] EXCEPT !.stage = "holds"]
<1>3. /\ r \in CacheCall /\ r.stage = "holds" /\ r.path = {p} /\ r.res = cs[c].res
      /\ r.raw = cs[c].raw
  <2>1. "holds" \in CacheStage
    BY DEF CacheStage
  <2> QED  BY <1>1, <1>2, <2>1 DEF CacheCall
<1>4. Res!Become(c, r) /\ inFlight' = [inFlight EXCEPT ![p] = {}]
  <2>1. (CHOOSE q \in FilePath : q \in cs[c].path) = p
    BY <1>2
  <2> QED  BY <2>1 DEF Res!Erase
<1> HIDE DEF r
<1>5. /\ inFlight' \in [FilePath -> SUBSET FileCaller]
      /\ \A q \in FilePath : inFlight'[q] = IF q = p THEN {} ELSE inFlight[q]
      /\ lru' \in Seq(FilePath \X Fd)
      /\ \A k \in 1..Len(lru') : file[lru'[k][2]] = {lru'[k][1]}
      /\ \A f \in r.res.fd \cup r.raw : file[f] = r.path
  BY <1>1, <1>2, <1>3, <1>4 DEF CacheInv, CacheTypes, RightFile
<1>6. cs' = [cs EXCEPT ![c] = r] /\ CacheTypes' /\ RightFile'
  BY <1>3, <1>4, <1>5, BecomeKeeps
<1>7. cs'[c] = r /\ \A x \in FileCaller : x # c => cs'[x] = cs[x]
  BY <1>3, <1>6, OneCaller
<1>8. OnePath'
  BY <1>3, <1>7 DEF CacheInv, OnePath
<1>9. inFlight[p] = {c} /\ "holds" \notin Leading
  BY <1>1, <1>2 DEF CacheInv, Registered, Leading
<1>10. Registered'
  <2>1. ASSUME NEW x \in FileCaller, cs'[x].stage \in Leading, NEW q \in cs'[x].path
        PROVE  inFlight'[q] = {x}
    <3>1. x # c
      BY <1>3, <1>7, <1>9, <2>1
    <3>2. inFlight[q] = {x} /\ q \in FilePath
      BY <1>7, <2>1, <3>1 DEF CacheInv, Registered, CacheTypes, CacheCall
    <3> QED  BY <1>5, <1>9, <3>1, <3>2
  <2>2. ASSUME NEW q \in FilePath, NEW x \in inFlight'[q]
        PROVE  cs'[x].stage \in Leading /\ q \in cs'[x].path
    <3>1. q # p /\ x \in inFlight[q]
      BY <1>5
    <3>2. x \in FileCaller /\ cs[x].stage \in Leading /\ q \in cs[x].path
      BY <3>1 DEF CacheInv, Registered, CacheTypes
    <3>3. x # c
      BY <1>2, <3>1, <3>2
    <3> QED  BY <1>7, <3>2, <3>3
  <2> QED  BY <2>1, <2>2 DEF Registered
<1>11. Missing'
  BY <1>1, <1>3, <1>7 DEF CacheInv, Missing
<1>12. Awaited'
  <2> SUFFICES ASSUME NEW x \in FileCaller, cs'[x].stage = "wait"
               PROVE  \E o \in FileCaller : /\ cs'[x].call = {o}
                        /\ cs'[o].stage \in Leading \ {"erase"} /\ cs'[o].path = cs'[x].path
    BY DEF Awaited
  <2>1. x # c
    BY <1>3, <1>7
  <2>2. PICK o \in FileCaller : /\ cs[x].call = {o}
                                /\ cs[o].stage \in Leading \ {"erase"} /\ cs[o].path = cs[x].path
    BY <1>7, <2>1 DEF CacheInv, Awaited
  <2>3. o # c
    BY <1>1, <2>2
  <2> QED  BY <1>7, <2>1, <2>2, <2>3
<1> QED  BY <1>6, <1>8, <1>10, <1>11, <1>12 DEF CacheInv

LEMMA WakeKeeps ==
  ASSUME CacheInv, NEW c \in FileCaller, Res!Wake(c) \/ Res!Release(c)
  PROVE  CacheInv'
<1>1. cs[c] \in CacheCall /\ cs[c].stage \in {"woken", "holds"} /\ UNCHANGED <<lru, inFlight>>
  BY DEF Res!Wake, Res!Release, CacheInv, CacheTypes
<1>2. cs[c].stage \notin Leading
  BY <1>1 DEF Leading
<1>3. CASE Res!Wake(c)
  <2> DEFINE r == [cs[c] EXCEPT !.stage = "holds"]
  <2>1. /\ r \in CacheCall /\ r.stage = "holds" /\ r.path = cs[c].path /\ r.res = cs[c].res
        /\ r.raw = cs[c].raw
    <3>1. "holds" \in CacheStage
      BY DEF CacheStage
    <3> QED  BY <1>1, <3>1 DEF CacheCall
  <2>2. Res!Become(c, r)
    BY <1>3 DEF Res!Wake
  <2> HIDE DEF r
  <2>3. \E p \in FilePath : r.path = {p}
    BY <1>1, <2>1 DEF CacheInv, OnePath
  <2>4. \A f \in r.res.fd \cup r.raw : file[f] = r.path
    BY <2>1 DEF CacheInv, RightFile
  <2>5. r.stage \notin Leading
    BY <2>1 DEF Leading
  <2> QED  BY <1>1, <1>2, <2>1, <2>2, <2>3, <2>4, <2>5, CallerKeeps
<1>4. CASE Res!Release(c)
  <2>1. Res!Become(c, Res!Idle)
    BY <1>4 DEF Res!Release
  <2>2. Res!Idle.stage \notin Leading /\ Res!Idle.res.fd = {} /\ Res!Idle.raw = {}
    BY IdleCall DEF Leading
  <2> QED  BY <1>1, <1>2, <2>1, <2>2, IdleCall, CallerKeeps
<1> QED  BY <1>3, <1>4

LEMMA CacheKept == CacheInv /\ [Res!Next]_cacheVars => CacheInv'
<1> SUFFICES ASSUME CacheInv, [Res!Next]_cacheVars PROVE CacheInv'
  OBVIOUS
<1>1. CASE Res!Next
  BY <1>1, HitKeeps, JoinKeeps, LeadKeeps, OpenKeeps, StatKeeps, CloseKeeps, PutKeeps,
     DoneKeeps, EraseKeeps, WakeKeeps DEF Res!Next, Res!Step, Res!GetResource
<1>2. CASE UNCHANGED cacheVars
  BY <1>2 DEF cacheVars, CacheInv, CacheTypes, OnePath, Registered, Missing, Awaited, RightFile
<1> QED  BY <1>1, <1>2

LEMMA CacheShared == CacheInv => ResourcesShared
<1> SUFFICES ASSUME CacheInv PROVE ResourcesShared
  OBVIOUS
<1>1. DOMAIN lru = 1..Len(lru)
  BY DEF CacheInv, CacheTypes
<1>2. Res!ServesRightFile
  BY <1>1 DEF Res!ServesRightFile, CacheInv, RightFile
<1>3. ASSUME NEW c \in FileCaller, cs[c].stage \in {"open", "stat", "put"}, NEW p \in cs[c].path
      PROVE  /\ Res!Found(p) = {}
             /\ \A d \in FileCaller \ {c} :
                  cs[d].stage \in {"open", "stat", "put"} => p \notin cs[d].path
  <2>1. Res!Found(p) = {}
    BY <1>1, <1>3 DEF Res!Found, CacheInv, Missing
  <2>2. \A d \in FileCaller : cs[d].stage \in {"open", "stat", "put"} /\ p \in cs[d].path => inFlight[p] = {d}
    BY DEF CacheInv, Registered, Leading
  <2> QED  BY <1>3, <2>1, <2>2
<1>4. ASSUME NEW c \in FileCaller, cs[c].stage = "wait"
      PROVE  \E o \in cs[c].call : /\ cs[o].stage \in {"open", "stat", "close", "put", "done"}
                                   /\ cs[o].path = cs[c].path
  BY <1>4 DEF CacheInv, Awaited, Leading
<1> QED  BY <1>2, <1>3, <1>4 DEF ResourcesShared, Res!ResourcesShared, Res!SingleFlight

(* http/httpresponce.cpp, StaticResourcePool: for any number of callers,    *)
(* paths, descriptors and any capacity, whoever holds a resource has a      *)
(* descriptor open on its own path whatever is evicted meanwhile, one       *)
(* caller opens a path that is not cached, and nobody waits on a Call that  *)
(* has already been completed.                                              *)
THEOREM OpenFilesShared == RequestsSpec => []ResourcesShared
<1>1. RequestsInit => CacheInv
  BY CacheInitially DEF RequestsInit
<1>2. CacheInv /\ [RequestsNext]_requestsVars => CacheInv'
  BY CacheKept DEF RequestsNext, ParserPart, RoutesPart, ConnectionPart, ResourcesPart,
     SessionPart, LimiterPart, UsersPart, TimersPart, requestsVars
<1> QED  BY <1>1, <1>2, CacheShared, PTL DEF RequestsSpec, requestsVars

-----------------------------------------------------------------------------
(* Accounts *)

AccountRow == [user : User, vid : Vid, pw : Password]

Connection == [errno : {"none", "server", "client"}, unread : BOOLEAN, tx : BOOLEAN,
               pend : SUBSET AccountRow]

AccountCall ==
  [op : {"none", "register", "login", "txn"},
   pc : {"idle", "acquire", "query", "begin", "stmt", "commit", "rollback", "release", "verify", "done"},
   row : SUBSET AccountRow, found : SUBSET AccountRow, conn : Connection,
   ret : {"none", "ok", "failed", "taken", "invalid", "weak", "nouser", "wrong"}]

\* The connections a fault of the library has not spoilt.
InStep(k) == ~k.unread /\ ~k.tx /\ k.pend = {}

\* What is known of the call q of a client when the table is T.  A connection
\* with an answer outstanding has a client error, so that Release destroys it.
CallOk(q, T) ==
  /\ q.pc = "idle" => q.row = {} /\ q.op = "none"
  /\ q.pc # "idle" => \E r \in AccountRow : q.row = {r}
  /\ q.pc \in {"begin", "stmt", "commit", "rollback"} => q.op = "txn"
  /\ q.pc = "verify" => q.op = "login"
  /\ q.pc \in {"idle", "acquire", "query", "begin", "verify", "done"} =>
       InStep(q.conn) /\ q.conn.errno = "none"
  /\ q.pc \notin {"release", "done"} => q.ret # "ok"
  /\ q.pc = "stmt" => ~q.conn.unread /\ q.conn.pend = {}
  /\ q.pc = "commit" => ~q.conn.unread /\ q.conn.pend = q.row
  /\ q.pc = "rollback" => (q.conn.unread => q.conn.errno = "client") /\ q.conn.pend \subseteq q.row
  /\ q.pc = "release" => q.conn.pend = {} /\ (q.conn.errno = "client" \/ InStep(q.conn))
  /\ q.op # "login" /\ q.ret = "ok" => q.row \subseteq T
  /\ q.op = "login" => \A x \in q.found : x \in T /\ \A r \in q.row : x.user = r.user
  /\ q.op = "login" /\ q.ret = "ok" => \E x \in T : \A r \in q.row : x.user = r.user /\ x.pw = r.pw

AccountTypes ==
  /\ rows \subseteq AccountRow
  /\ cl \in [Client -> AccountCall]
  /\ told \subseteq rows
  /\ \A k \in idle : k = Usr!Clean

CallsOk == \A c \in Client : CallOk(cl[c], rows)

\* No two rows share a name or a vid, those of open transactions included.
Distinct(S, T) == \A x \in S, y \in T : x.user # y.user /\ x.vid # y.vid

RowsDistinct ==
  /\ \A x, y \in rows : x.user = y.user \/ x.vid = y.vid => x = y
  /\ \A c \in Client : Distinct(cl[c].conn.pend, rows)
  /\ \A c, d \in Client : c # d => Distinct(cl[c].conn.pend, cl[d].conn.pend)

AccountInv == AccountTypes /\ CallsOk /\ RowsDistinct

LEMMA AccountsInitially == Usr!Init => AccountInv
<1> SUFFICES ASSUME Usr!Init PROVE AccountInv
  OBVIOUS
<1> DEFINE q == Usr!NoCall
<1>1. Usr!Clean \in Connection /\ InStep(Usr!Clean) /\ Usr!Clean.errno = "none" /\ Usr!Clean.pend = {}
  BY DEF Usr!Clean, Connection, InStep
<1>2. /\ q \in AccountCall /\ q.op = "none" /\ q.pc = "idle" /\ q.row = {}
      /\ q.conn = Usr!Clean /\ q.ret = "none"
  BY <1>1 DEF Usr!NoCall, AccountCall
<1>3. rows = {} /\ idle = {} /\ told = {} /\ cl = [c \in Client |-> q]
  BY DEF Usr!Init
<1> HIDE DEF q
<1>4. AccountTypes
  BY <1>2, <1>3 DEF AccountTypes
<1>5. CallOk(q, rows)
  BY <1>1, <1>2 DEF CallOk
<1>6. CallsOk
  BY <1>3, <1>5 DEF CallsOk
<1>7. RowsDistinct
  BY <1>1, <1>2, <1>3 DEF RowsDistinct, Distinct
<1> QED  BY <1>4, <1>6, <1>7 DEF AccountInv

\* The table only grows, and what is known of a call stays true.
LEMMA CallStaysOk ==
  ASSUME NEW q, NEW S, NEW T, S \subseteq T, CallOk(q, S)
  PROVE  CallOk(q, T)
BY DEF CallOk

\* A step of one client, with what it does to the table.
LEMMA ClientSteps ==
  ASSUME AccountInv, NEW c \in Client, NEW r \in AccountCall, cl' = [cl EXCEPT ![c] = r],
         rows \subseteq rows', rows' \subseteq AccountRow, CallOk(r, rows'),
         \A x, y \in rows' : x.user = y.user \/ x.vid = y.vid => x = y,
         Distinct(r.conn.pend, rows'),
         \A d \in Client : d # c => /\ Distinct(cl[d].conn.pend, rows')
                                    /\ Distinct(cl[d].conn.pend, r.conn.pend),
         told' \subseteq rows', \A k \in idle' : k = Usr!Clean
  PROVE  AccountInv'
<1>1. /\ cl' \in [Client -> AccountCall]
      /\ \A d \in Client : cl'[d] = IF d = c THEN r ELSE cl[d]
  BY DEF AccountInv, AccountTypes
<1>2. AccountTypes'
  BY <1>1 DEF AccountTypes
<1>3. CallsOk'
  <2> SUFFICES ASSUME NEW d \in Client PROVE CallOk(cl'[d], rows')
    BY DEF CallsOk
  <2>1. CASE d = c
    BY <1>1, <2>1
  <2>2. CASE d # c
    <3>1. CallOk(cl[d], rows) /\ cl'[d] = cl[d]
      BY <1>1, <2>2 DEF AccountInv, CallsOk
    <3> QED  BY <3>1, CallStaysOk
  <2> QED  BY <2>1, <2>2
<1>4. \A d \in Client : Distinct(cl'[d].conn.pend, rows')
  BY <1>1
<1>5. ASSUME NEW d \in Client, NEW e \in Client, d # e
      PROVE  Distinct(cl'[d].conn.pend, cl'[e].conn.pend)
  <2>1. CASE d # c /\ e # c
    BY <1>1, <1>5, <2>1 DEF AccountInv, RowsDistinct
  <2>2. CASE d # c /\ e = c
    BY <1>1, <2>2
  <2>3. CASE d = c /\ e # c
    <3>1. Distinct(cl[e].conn.pend, r.conn.pend) /\ cl'[d] = r /\ cl'[e] = cl[e]
      BY <1>1, <2>3
    <3> QED  BY <3>1 DEF Distinct
  <2> QED  BY <1>5, <2>1, <2>2, <2>3
<1> QED  BY <1>2, <1>3, <1>4, <1>5 DEF AccountInv, RowsDistinct

\* A step that leaves the table and writes nothing into a transaction.
LEMMA QuietStep ==
  ASSUME AccountInv, NEW c \in Client, NEW r \in AccountCall, cl' = [cl EXCEPT ![c] = r],
         rows' = rows, told' = told, CallOk(r, rows), r.conn.pend \subseteq cl[c].conn.pend,
         \A k \in idle' : k = Usr!Clean
  PROVE  AccountInv'
<1>1. /\ Distinct(r.conn.pend, rows)
      /\ \A d \in Client : d # c => /\ Distinct(cl[d].conn.pend, rows)
                                    /\ Distinct(cl[d].conn.pend, r.conn.pend)
  BY DEF AccountInv, RowsDistinct, Distinct
<1>2. /\ rows \subseteq AccountRow /\ told' \subseteq rows
      /\ \A x, y \in rows : x.user = y.user \/ x.vid = y.vid => x = y
  BY DEF AccountInv, AccountTypes, RowsDistinct
<1> QED  BY <1>1, <1>2, ClientSteps

\* What a call of the library leaves of the connection.
LEMMA CallLeaves ==
  ASSUME NEW k \in Connection, ~k.unread, NEW o \in {"ok", "error", "lost", "timeout"},
         NEW l, l = Usr!AfterCall(k, o)
  PROVE  /\ l \in Connection
         /\ o = "ok" => l.errno = "none"
         /\ o = "error" => l.errno = "server"
         /\ o \in {"lost", "timeout"} => l.errno = "client"
         /\ o = "lost" => l.pend = {} /\ ~l.tx
         /\ o # "lost" => l.pend = k.pend /\ l.tx = k.tx
         /\ l.unread => o = "timeout"
<1>1. CASE o = "ok"
  <2>1. l = [k EXCEPT !.errno = "none"]
    BY <1>1 DEF Usr!AfterCall
  <2> QED  BY <1>1, <2>1 DEF Connection
<1>2. CASE o = "error"
  <2>1. l = [k EXCEPT !.errno = "server"]
    BY <1>2 DEF Usr!AfterCall
  <2> QED  BY <1>2, <2>1 DEF Connection
<1>3. CASE o = "lost"
  <2>1. l = [k EXCEPT !.errno = "client", !.pend = {}, !.tx = FALSE]
    BY <1>3 DEF Usr!AfterCall
  <2> QED  BY <1>3, <2>1 DEF Connection
<1>4. CASE o = "timeout"
  <2>1. l = [k EXCEPT !.errno = "client", !.unread = TRUE]
    BY <1>4 DEF Usr!AfterCall
  <2> QED  BY <1>4, <2>1 DEF Connection
<1> QED  BY <1>1, <1>2, <1>3, <1>4

LEMMA OutcomesInStep ==
  ASSUME SqlFaults \subseteq {"error", "lost", "timeout"}, NEW k, ~k.unread
  PROVE  Usr!Outcomes(k) \subseteq {"ok", "error", "lost", "timeout"}
BY DEF Usr!Outcomes, Usr!WaitFd

LEMMA AppliedIs ==
  ASSUME NEW o \in {"ok", "error", "lost", "timeout"}, NEW a \in Usr!Applied(o)
  PROVE  a \in BOOLEAN /\ (o = "ok" => a) /\ (o = "error" => ~a)
BY DEF Usr!Applied

\* What is known of a client.
LEMMA ClientKnown ==
  ASSUME AccountInv, NEW c \in Client
  PROVE  /\ cl[c] \in AccountCall /\ CallOk(cl[c], rows) /\ cl[c].conn \in Connection
         /\ \A r \in AccountRow : cl[c].row = {r} => Usr!Row(c) = r
         /\ \A k \in idle : k = Usr!Clean
<1>1. cl[c] \in AccountCall /\ CallOk(cl[c], rows) /\ \A k \in idle : k = Usr!Clean
  BY DEF AccountInv, AccountTypes, CallsOk
<1>2. cl[c].conn \in Connection
  BY <1>1 DEF AccountCall
<1>3. \A r \in AccountRow : cl[c].row = {r} => Usr!Row(c) = r
  BY DEF Usr!Row
<1> QED  BY <1>1, <1>2, <1>3

LEMMA CleanIs ==
  /\ Usr!Clean \in Connection /\ InStep(Usr!Clean) /\ Usr!Clean.errno = "none"
  /\ \A k \in Connection : InStep(k) => [k EXCEPT !.errno = "none"] = Usr!Clean
<1>1. Usr!Clean \in Connection /\ InStep(Usr!Clean) /\ Usr!Clean.errno = "none"
  BY DEF Usr!Clean, Connection, InStep
<1>2. ASSUME NEW k \in Connection, InStep(k)
      PROVE  [k EXCEPT !.errno = "none"] = Usr!Clean
  <2>1. k.unread = FALSE /\ k.tx = FALSE /\ k.pend = {}
    BY <1>2 DEF InStep, Connection
  <2>2. k = [errno |-> k.errno, unread |-> k.unread, tx |-> k.tx, pend |-> k.pend]
    BY DEF Connection
  <2>3. [k EXCEPT !.errno = "none"] =
          [errno |-> "none", unread |-> k.unread, tx |-> k.tx, pend |-> k.pend]
    BY <2>2
  <2> QED  BY <2>1, <2>3 DEF Usr!Clean
<1> QED  BY <1>1, <1>2

LEMMA NoCallIs ==
  /\ Usr!NoCall \in AccountCall /\ Usr!NoCall.op = "none" /\ Usr!NoCall.pc = "idle"
  /\ Usr!NoCall.row = {} /\ Usr!NoCall.found = {} /\ Usr!NoCall.conn = Usr!Clean
  /\ Usr!NoCall.ret = "none"
BY CleanIs DEF Usr!NoCall, AccountCall

LEMMA BeginKeeps ==
  ASSUME AccountInv, NEW c \in Client, NEW op \in {"register", "login", "txn"}, Usr!Begin(c, op)
  PROVE  AccountInv'
<1>1. rows' = rows /\ told' = told /\ idle' = idle /\ cl[c].pc = "idle"
  BY DEF Usr!Begin, Usr!At
<1>2. PICK u \in User, p \in Password, v \in Vid :
        LET r == [Usr!NoCall EXCEPT !.op = op, !.row = {[user |-> u, vid |-> v, pw |-> p]}]
        IN  \/ Usr!Goes(c, [r EXCEPT !.pc = "acquire"])
            \/ /\ op = "register"
               /\ \E e \in Usr!ParamErrors \cup Usr!HashErrors :
                    Usr!Goes(c, [r EXCEPT !.pc = "done", !.ret = e])
  BY DEF Usr!Begin
<1> DEFINE w == [user |-> u, vid |-> v, pw |-> p]
           r == [Usr!NoCall EXCEPT !.op = op, !.row = {w}]
<1>3. w \in AccountRow
  BY DEF AccountRow
<1> HIDE DEF w
<1>4. /\ r \in AccountCall /\ r.op = op /\ r.row = {w} /\ r.found = {} /\ r.conn = Usr!Clean
      /\ r.ret = "none"
  BY <1>3, NoCallIs DEF AccountCall
<1>5. \/ cl' = [cl EXCEPT ![c] = [r EXCEPT !.pc = "acquire"]]
      \/ \E e \in {"invalid", "weak", "failed"} : cl' = [cl EXCEPT ![c] = [r EXCEPT !.pc = "done", !.ret = e]]
  BY <1>2 DEF Usr!Goes, Usr!ParamErrors, Usr!HashErrors, w
<1> HIDE DEF r
<1>6. ASSUME NEW s \in AccountCall, cl' = [cl EXCEPT ![c] = s], s.pc \in {"acquire", "done"},
             s.ret # "ok", s.op = op, s.row = {w}, s.found = {}, s.conn = Usr!Clean
      PROVE  AccountInv'
  <2>1. CallOk(s, rows)
    BY <1>3, <1>6, CleanIs DEF CallOk
  <2>2. s.conn.pend \subseteq cl[c].conn.pend
    BY <1>6, CleanIs DEF InStep
  <2> QED  BY <1>1, <1>6, <2>1, <2>2, QuietStep, ClientKnown
<1>7. CASE cl' = [cl EXCEPT ![c] = [r EXCEPT !.pc = "acquire"]]
  <2> DEFINE s == [r EXCEPT !.pc = "acquire"]
  <2>1. /\ s \in AccountCall /\ s.pc = "acquire" /\ s.ret = "none" /\ s.op = op /\ s.row = {w}
        /\ s.found = {} /\ s.conn = Usr!Clean
    BY <1>4 DEF AccountCall
  <2> HIDE DEF s
  <2>2. cl' = [cl EXCEPT ![c] = s]
    BY <1>7 DEF s
  <2> QED  BY <1>6, <2>1, <2>2
<1>8. ASSUME NEW e \in {"invalid", "weak", "failed"},
             cl' = [cl EXCEPT ![c] = [r EXCEPT !.pc = "done", !.ret = e]]
      PROVE  AccountInv'
  <2> DEFINE s == [r EXCEPT !.pc = "done", !.ret = e]
  <2>1. /\ s \in AccountCall /\ s.pc = "done" /\ s.ret = e /\ s.op = op /\ s.row = {w}
        /\ s.found = {} /\ s.conn = Usr!Clean
    BY <1>4 DEF AccountCall
  <2> HIDE DEF s
  <2>2. cl' = [cl EXCEPT ![c] = s]
    BY <1>8 DEF s
  <2> QED  BY <1>6, <2>1, <2>2
<1> QED  BY <1>5, <1>7, <1>8

LEMMA AcquireKeeps ==
  ASSUME AccountInv, NEW c \in Client, Usr!Acquire(c)
  PROVE  AccountInv'
<1> DEFINE q == cl[c]
<1>1. rows' = rows /\ told' = told /\ idle' = idle /\ q.pc = "acquire"
  BY DEF Usr!Acquire, Usr!At
<1>2. q \in AccountCall /\ CallOk(q, rows) /\ \A k \in idle : k = Usr!Clean
  BY ClientKnown
<1>3. /\ \E r \in AccountRow : q.row = {r}
      /\ InStep(q.conn) /\ q.conn.errno = "none" /\ q.ret # "ok"
  BY <1>1, <1>2 DEF CallOk
<1> DEFINE nextPc == IF q.op = "txn" THEN "begin" ELSE "query"
<1>4. \/ cl' = [cl EXCEPT ![c] = [q EXCEPT !.conn = Usr!Clean, !.pc = nextPc]]
      \/ cl' = [cl EXCEPT ![c] = [q EXCEPT !.pc = "done", !.ret = "failed"]]
  BY <1>2 DEF Usr!Acquire, Usr!Goes
<1>5. nextPc \in {"begin", "query"} /\ (nextPc = "begin" => q.op = "txn")
  OBVIOUS
<1> HIDE DEF q, nextPc
<1>6. CASE cl' = [cl EXCEPT ![c] = [q EXCEPT !.conn = Usr!Clean, !.pc = nextPc]]
  <2> DEFINE s == [q EXCEPT !.conn = Usr!Clean, !.pc = nextPc]
  <2>1. /\ s \in AccountCall /\ s.pc = nextPc /\ s.ret = q.ret /\ s.op = q.op /\ s.row = q.row
        /\ s.found = q.found /\ s.conn = Usr!Clean
    BY <1>2, <1>5, CleanIs DEF AccountCall
  <2>2. cl' = [cl EXCEPT ![c] = s]
    BY <1>6
  <2> HIDE DEF s
  <2>3. CallOk(s, rows)
    BY <1>1, <1>2, <1>3, <1>5, <2>1, CleanIs DEF CallOk
  <2>4. s.conn.pend \subseteq cl[c].conn.pend
    BY <2>1, CleanIs DEF InStep
  <2> QED  BY <1>1, <1>2, <2>1, <2>2, <2>3, <2>4, QuietStep
<1>7. CASE cl' = [cl EXCEPT ![c] = [q EXCEPT !.pc = "done", !.ret = "failed"]]
  <2> DEFINE s == [q EXCEPT !.pc = "done", !.ret = "failed"]
  <2>1. /\ s \in AccountCall /\ s.pc = "done" /\ s.ret = "failed" /\ s.op = q.op /\ s.row = q.row
        /\ s.found = q.found /\ s.conn = q.conn
    BY <1>2 DEF AccountCall
  <2>2. cl' = [cl EXCEPT ![c] = s]
    BY <1>7
  <2> HIDE DEF s
  <2>3. CallOk(s, rows)
    BY <1>1, <1>2, <1>3, <2>1 DEF CallOk
  <2>4. s.conn.pend \subseteq cl[c].conn.pend
    BY <2>1 DEF q
  <2> QED  BY <1>1, <1>2, <2>1, <2>2, <2>3, <2>4, QuietStep
<1> QED  BY <1>4, <1>6, <1>7

\* The statement of a call ended: the connection l goes back, nothing else
\* happened, and no success is reported.
LEMMA FailsToRelease ==
  ASSUME AccountInv, NEW c \in Client, cl[c].pc \in {"query", "begin"},
         NEW s \in AccountCall, s.pc = "release", s.op = cl[c].op, s.row = cl[c].row,
         s.conn.pend = {}, s.conn.errno = "client" \/ InStep(s.conn), s.ret # "ok",
         s.op = "login" => \A x \in s.found : x \in rows /\ \A w \in s.row : x.user = w.user,
         cl' = [cl EXCEPT ![c] = s], UNCHANGED <<rows, told, idle>>
  PROVE  AccountInv'
<1>1. CallOk(cl[c], rows) /\ \A k \in idle : k = Usr!Clean
  BY ClientKnown
<1>2. CallOk(s, rows)
  BY <1>1 DEF CallOk
<1> QED  BY <1>1, <1>2, QuietStep

LEMMA InsertUserKeeps ==
  ASSUME SqlFaults \subseteq {"error", "lost", "timeout"},
         AccountInv, NEW c \in Client, Usr!InsertUser(c)
  PROVE  AccountInv'
<1> DEFINE q == cl[c]
           k == q.conn
           f == q.found
<1>1. told' = told /\ idle' = idle /\ q.pc = "query" /\ q.op = "register"
  BY DEF Usr!InsertUser, Usr!At
<1>2. /\ q \in AccountCall /\ CallOk(q, rows) /\ k \in Connection /\ f \in SUBSET AccountRow
      /\ \A x \in idle : x = Usr!Clean
  BY ClientKnown DEF AccountCall
<1>3. InStep(k) /\ k.errno = "none" /\ ~k.unread /\ ~k.tx /\ k.pend = {}
  BY <1>1, <1>2 DEF CallOk, InStep
<1>4. PICK w \in AccountRow : q.row = {w} /\ Usr!Row(c) = w
  BY <1>1, <1>2, ClientKnown DEF CallOk
<1>5. ASSUME NEW e \in {"taken", "failed"}, rows' = rows,
             cl' = [cl EXCEPT ![c] = [q EXCEPT !.pc = "release", !.ret = e,
                                               !.conn = Usr!AfterCall(k, "error")]]
      PROVE  AccountInv'
  <2> DEFINE l == Usr!AfterCall(k, "error")
  <2>1. l \in Connection /\ l.pend = {} /\ InStep(l)
    BY <1>2, <1>3, CallLeaves DEF InStep
  <2> DEFINE s == [q EXCEPT !.pc = "release", !.ret = e, !.conn = l]
  <2>2. cl' = [cl EXCEPT ![c] = s]
    BY <1>5
  <2> HIDE DEF l
  <2>3. /\ s \in AccountCall /\ s.pc = "release" /\ s.ret = e /\ s.op = "register" /\ s.row = q.row
        /\ s.conn = l
    <3> HIDE DEF k, f
    <3>1. q \in AccountCall /\ q.op = "register"
      BY <1>1, <1>2
    <3> HIDE DEF q
    <3> QED  BY <2>1, <3>1 DEF AccountCall
  <2> HIDE DEF s
  <2>4. /\ cl[c].pc \in {"query", "begin"} /\ s.op = cl[c].op /\ s.row = cl[c].row
        /\ UNCHANGED <<rows, told, idle>>
    BY <1>1, <1>5, <2>3
  <2>5. /\ s.conn.pend = {} /\ InStep(s.conn) /\ s.ret # "ok" /\ s.op # "login"
    BY <2>1, <2>3
  <2> QED  BY <2>2, <2>3, <2>4, <2>5, FailsToRelease
<1>6. CASE ~Usr!Unique(w, rows \cup k.pend)
  BY <1>4, <1>5, <1>6 DEF Usr!InsertUser, Usr!Goes
<1>7. CASE Usr!Unique(w, rows \cup k.pend) /\ Usr!Locked(c, w)
  BY <1>4, <1>5, <1>7 DEF Usr!InsertUser, Usr!Goes
<1>8. CASE Usr!Unique(w, rows \cup k.pend) /\ ~Usr!Locked(c, w)
  <2>0. PICK o \in Usr!Outcomes(k) : \E a \in Usr!Applied(o) :
          LET k2 == Usr!AfterCall(k, o)
          IN  /\ rows' = IF a /\ ~k.tx THEN rows \cup {w} ELSE rows
              /\ cl' = [cl EXCEPT ![c] = [q EXCEPT !.pc = "release",
                   !.conn = IF a /\ k.tx /\ o # "lost" THEN [k2 EXCEPT !.pend = @ \cup {w}] ELSE k2,
                   !.ret = IF Usr!RetCodeZero(k2) THEN "ok" ELSE "failed"]]
    BY <1>4, <1>8, ZenonT(60) DEF Usr!InsertUser, Usr!Goes
  <2>1. PICK a \in Usr!Applied(o) :
          LET k2 == Usr!AfterCall(k, o)
          IN  /\ rows' = IF a /\ ~k.tx THEN rows \cup {w} ELSE rows
              /\ cl' = [cl EXCEPT ![c] = [q EXCEPT !.pc = "release",
                   !.conn = IF a /\ k.tx /\ o # "lost" THEN [k2 EXCEPT !.pend = @ \cup {w}] ELSE k2,
                   !.ret = IF Usr!RetCodeZero(k2) THEN "ok" ELSE "failed"]]
    BY <2>0
  <2>2. o \in {"ok", "error", "lost", "timeout"}
    BY <1>3, OutcomesInStep
  <2>3. a \in BOOLEAN /\ (o = "ok" => a)
    BY <2>2, AppliedIs
  <2> DEFINE l == Usr!AfterCall(k, o)
             e == IF Usr!RetCodeZero(l) THEN "ok" ELSE "failed"
             s == [q EXCEPT !.pc = "release", !.conn = l, !.ret = e]
  <2>4. /\ l \in Connection /\ l.pend = {}
        /\ l.errno = "client" \/ InStep(l)
        /\ l.errno = "none" => o = "ok"
    BY <1>2, <1>3, <2>2, CallLeaves DEF InStep
  <2>5. rows' = IF a THEN rows \cup {w} ELSE rows
    BY <1>3, <2>1
  <2>6. cl' = [cl EXCEPT ![c] = s]
    BY <1>3, <2>1
  <2>7. e \in {"ok", "failed"} /\ (e = "ok" => a)
    BY <2>3, <2>4 DEF Usr!RetCodeZero
  <2> HIDE DEF l, e
  <2>8. /\ s \in AccountCall /\ s.pc = "release" /\ s.ret = e /\ s.op = "register" /\ s.row = {w}
        /\ s.conn = l
    <3> HIDE DEF k, f
    <3>1. q \in AccountCall /\ q.op = "register" /\ q.row = {w}
      BY <1>1, <1>2, <1>4
    <3> HIDE DEF q
    <3> QED  BY <2>4, <2>7, <3>1 DEF AccountCall
  <2> HIDE DEF s
  <2>9. CallOk(s, rows')
    BY <2>4, <2>5, <2>7, <2>8 DEF CallOk
  <2>10. /\ rows \subseteq AccountRow /\ told \subseteq rows
         /\ \A x, y \in rows : x.user = y.user \/ x.vid = y.vid => x = y
         /\ \A d \in Client : Distinct(cl[d].conn.pend, rows)
    BY DEF AccountInv, AccountTypes, RowsDistinct
  <2>11. \A x \in rows : x.user # w.user /\ x.vid # w.vid
    BY <1>8 DEF Usr!Unique
  <2>12. \A d \in Client : d # c => \A x \in cl[d].conn.pend : x.user # w.user /\ x.vid # w.vid
    BY <1>8 DEF Usr!Locked, Usr!Unique
  <2>13. \A x, y \in rows' : x.user = y.user \/ x.vid = y.vid => x = y
    BY <2>5, <2>10, <2>11
  <2>14. Distinct(s.conn.pend, rows')
    BY <2>4, <2>8 DEF Distinct
  <2>15. \A d \in Client : d # c => /\ Distinct(cl[d].conn.pend, rows')
                                    /\ Distinct(cl[d].conn.pend, s.conn.pend)
    BY <2>4, <2>5, <2>8, <2>10, <2>12 DEF Distinct
  <2>16. rows \subseteq rows' /\ rows' \subseteq AccountRow /\ told' \subseteq rows'
    BY <1>1, <2>5, <2>10
  <2>17. \A x \in idle' : x = Usr!Clean
    BY <1>1, <1>2
  <2> QED  BY <2>6, <2>8, <2>9, <2>13, <2>14, <2>15, <2>16, <2>17, ClientSteps
<1> QED  BY <1>6, <1>7, <1>8

LEMMA QueryByUsernameKeeps ==
  ASSUME SqlFaults \subseteq {"error", "lost", "timeout"},
         AccountInv, NEW c \in Client, Usr!QueryByUsername(c)
  PROVE  AccountInv'
<1> DEFINE q == cl[c]
           k == q.conn
<1>1. rows' = rows /\ told' = told /\ idle' = idle /\ q.pc = "query" /\ q.op = "login"
  BY DEF Usr!QueryByUsername, Usr!At
<1>2. q \in AccountCall /\ CallOk(q, rows) /\ k \in Connection
  BY ClientKnown
<1>3. InStep(k) /\ k.errno = "none" /\ ~k.unread /\ ~k.tx /\ k.pend = {}
  BY <1>1, <1>2 DEF CallOk, InStep
<1>4. PICK w \in AccountRow : q.row = {w} /\ Usr!Row(c) = w
  BY <1>1, <1>2, ClientKnown DEF CallOk
<1>5. PICK o \in Usr!Outcomes(k) :
        LET l == Usr!AfterCall(k, o)
        IN  cl' = [cl EXCEPT ![c] = [q EXCEPT !.pc = "release", !.conn = l, !.found = Usr!Uselect(c, o),
                                              !.ret = IF Usr!RetCodeZero(l) THEN "none" ELSE "failed"]]
  BY DEF Usr!QueryByUsername, Usr!Goes
<1> DEFINE l == Usr!AfterCall(k, o)
           f == Usr!Uselect(c, o)
           e == IF Usr!RetCodeZero(l) THEN "none" ELSE "failed"
           s == [q EXCEPT !.pc = "release", !.conn = l, !.found = f, !.ret = e]
<1>6. o \in {"ok", "error", "lost", "timeout"}
  BY <1>3, OutcomesInStep
<1>7. l \in Connection /\ l.pend = {} /\ (l.errno = "client" \/ InStep(l))
  BY <1>2, <1>3, <1>6, CallLeaves DEF InStep
<1>8. f \subseteq rows /\ \A x \in f : x.user = w.user
  BY <1>3, <1>4 DEF Usr!Uselect
<1>9. rows \subseteq AccountRow
  BY DEF AccountInv, AccountTypes
<1>10. cl' = [cl EXCEPT ![c] = s]
  BY <1>5
<1>11. e \in {"none", "taken", "failed"}
  OBVIOUS
<1> HIDE DEF l, f, e
<1>12. /\ s \in AccountCall /\ s.pc = "release" /\ s.ret = e /\ s.op = "login" /\ s.row = {w}
       /\ s.conn = l /\ s.found = f
  <2> HIDE DEF k
  <2>1. q \in AccountCall /\ q.op = "login" /\ q.row = {w} /\ f \in SUBSET AccountRow
    BY <1>1, <1>2, <1>4, <1>8, <1>9
  <2> HIDE DEF q
  <2> QED  BY <1>7, <1>11, <2>1 DEF AccountCall
<1> HIDE DEF s
<1> QED  BY <1>1, <1>4, <1>7, <1>8, <1>10, <1>11, <1>12, FailsToRelease

LEMMA TxnBeginKeeps ==
  ASSUME SqlFaults \subseteq {"error", "lost", "timeout"},
         AccountInv, NEW c \in Client, Usr!TxnBegin(c)
  PROVE  AccountInv'
<1> DEFINE q == cl[c]
           k == q.conn
<1>1. UNCHANGED <<rows, told, idle>> /\ q.pc = "begin"
  BY DEF Usr!TxnBegin, Usr!At
<1>2. /\ q \in AccountCall /\ CallOk(q, rows) /\ k \in Connection
      /\ \A x \in idle : x = Usr!Clean
  BY ClientKnown
<1>3. /\ InStep(k) /\ ~k.unread /\ k.pend = {} /\ q.op = "txn"
      /\ q.ret # "ok" /\ \E w \in AccountRow : q.row = {w}
  BY <1>1, <1>2 DEF CallOk, InStep
<1>4. PICK o \in Usr!Outcomes(k) :
        LET l == Usr!AfterCall(k, o)
        IN  IF o \in {"ok", "stale"}
            THEN cl' = [cl EXCEPT ![c] = [q EXCEPT !.pc = "stmt", !.conn = [l EXCEPT !.tx = TRUE]]]
            ELSE cl' = [cl EXCEPT ![c] = [q EXCEPT !.pc = "release", !.conn = l, !.ret = "failed"]]
  BY DEF Usr!TxnBegin, Usr!Goes
<1>5. o \in {"ok", "error", "lost", "timeout"}
  BY <1>3, OutcomesInStep
<1> DEFINE l == Usr!AfterCall(k, o)
<1>6. /\ l \in Connection /\ l.pend = {}
      /\ l.errno = "client" \/ InStep(l)
      /\ o = "ok" => ~l.unread
  BY <1>2, <1>3, <1>5, CallLeaves DEF InStep
<1>7. CASE o = "ok"
  <2> DEFINE m == [l EXCEPT !.tx = TRUE]
             s == [q EXCEPT !.pc = "stmt", !.conn = m]
  <2>1. cl' = [cl EXCEPT ![c] = s]
    BY <1>4, <1>7
  <2> HIDE DEF l
  <2>2. m \in Connection /\ m.pend = {} /\ ~m.unread
    BY <1>6, <1>7 DEF Connection
  <2> HIDE DEF m
  <2>3. /\ s \in AccountCall /\ s.pc = "stmt" /\ s.ret = q.ret /\ s.op = q.op /\ s.row = q.row
        /\ s.conn = m
    <3> HIDE DEF k
    <3>1. q \in AccountCall
      BY <1>2
    <3> HIDE DEF q
    <3> QED  BY <2>2, <3>1 DEF AccountCall
  <2> HIDE DEF s
  <2>4. CallOk(s, rows)
    BY <1>3, <2>2, <2>3 DEF CallOk
  <2>5. s.conn.pend \subseteq cl[c].conn.pend
    BY <2>2, <2>3
  <2> QED  BY <1>1, <1>2, <2>1, <2>3, <2>4, <2>5, QuietStep
<1>8. CASE o # "ok"
  <2> DEFINE s == [q EXCEPT !.pc = "release", !.conn = l, !.ret = "failed"]
  <2>1. cl' = [cl EXCEPT ![c] = s]
    BY <1>4, <1>5, <1>8
  <2> HIDE DEF l
  <2>2. /\ s \in AccountCall /\ s.pc = "release" /\ s.ret = "failed" /\ s.op = q.op /\ s.row = q.row
        /\ s.conn = l
    <3> HIDE DEF k
    <3>1. q \in AccountCall
      BY <1>2
    <3> HIDE DEF q
    <3> QED  BY <1>6, <3>1 DEF AccountCall
  <2> HIDE DEF s
  <2>3. /\ cl[c].pc \in {"query", "begin"} /\ s.op = cl[c].op /\ s.row = cl[c].row
        /\ s.op # "login" /\ s.ret # "ok"
    BY <1>1, <1>3, <2>2
  <2>4. s.conn.pend = {} /\ (s.conn.errno = "client" \/ InStep(s.conn))
    BY <1>6, <2>2
  <2> QED  BY <1>1, <2>1, <2>2, <2>3, <2>4, FailsToRelease
<1> QED  BY <1>7, <1>8

LEMMA TxnStmtKeeps ==
  ASSUME SqlFaults \subseteq {"error", "lost", "timeout"},
         AccountInv, NEW c \in Client, Usr!TxnStmt(c)
  PROVE  AccountInv'
<1> DEFINE q == cl[c]
           k == q.conn
<1>1. UNCHANGED <<rows, told, idle>> /\ q.pc = "stmt"
  BY DEF Usr!TxnStmt, Usr!At
<1>2. /\ q \in AccountCall /\ CallOk(q, rows) /\ k \in Connection
      /\ \A x \in idle : x = Usr!Clean
  BY ClientKnown
<1>3. ~k.unread /\ k.pend = {} /\ q.op = "txn" /\ q.ret # "ok"
  BY <1>1, <1>2 DEF CallOk
<1>4. PICK w \in AccountRow : q.row = {w} /\ Usr!Row(c) = w
  BY <1>1, <1>2, ClientKnown DEF CallOk
<1> DEFINE free == Usr!Unique(w, rows \cup k.pend) /\ ~Usr!Locked(c, w)
<1>5. PICK o \in IF free THEN Usr!Outcomes(k) ELSE {"error"} :
        LET l == Usr!AfterCall(k, o)
        IN  IF o \in {"ok", "stale"}
            THEN cl' = [cl EXCEPT ![c] = [q EXCEPT !.pc = "commit",
                          !.conn = IF o = "ok" THEN [l EXCEPT !.pend = @ \cup {w}] ELSE l]]
            ELSE cl' = [cl EXCEPT ![c] = [q EXCEPT !.pc = "rollback", !.conn = l, !.ret = "failed"]]
  BY <1>4 DEF Usr!TxnStmt, Usr!Goes
<1>6. o \in {"ok", "error", "lost", "timeout"} /\ (o = "ok" => free)
  BY <1>3, <1>5, OutcomesInStep
<1> HIDE DEF free
<1> DEFINE l == Usr!AfterCall(k, o)
<1>7. /\ l \in Connection /\ l.pend = {}
      /\ l.unread => l.errno = "client"
      /\ o = "ok" => ~l.unread
  BY <1>2, <1>3, <1>6, CallLeaves
<1>8. CASE o = "ok"
  <2> DEFINE m == [l EXCEPT !.pend = @ \cup {w}]
             s == [q EXCEPT !.pc = "commit", !.conn = m]
  <2>1. cl' = [cl EXCEPT ![c] = s]
    BY <1>5, <1>8
  <2> HIDE DEF l
  <2>2. m \in Connection /\ m.pend = {w} /\ ~m.unread
    BY <1>7, <1>8 DEF Connection
  <2> HIDE DEF m
  <2>3. /\ s \in AccountCall /\ s.pc = "commit" /\ s.ret = q.ret /\ s.op = q.op /\ s.row = q.row
        /\ s.conn = m
    <3> HIDE DEF k
    <3>1. q \in AccountCall
      BY <1>2
    <3> HIDE DEF q
    <3> QED  BY <2>2, <3>1 DEF AccountCall
  <2> HIDE DEF s
  <2>4. CallOk(s, rows)
    BY <1>3, <1>4, <2>2, <2>3 DEF CallOk
  <2>5. \A x \in rows : x.user # w.user /\ x.vid # w.vid
    BY <1>6, <1>8 DEF free, Usr!Unique
  <2>6. \A d \in Client : d # c => \A x \in cl[d].conn.pend : x.user # w.user /\ x.vid # w.vid
    BY <1>6, <1>8 DEF free, Usr!Locked, Usr!Unique
  <2>7. Distinct(s.conn.pend, rows)
    BY <2>2, <2>3, <2>5 DEF Distinct
  <2>8. /\ rows \subseteq AccountRow /\ told \subseteq rows
        /\ \A x, y \in rows : x.user = y.user \/ x.vid = y.vid => x = y
        /\ \A d \in Client : Distinct(cl[d].conn.pend, rows)
    BY DEF AccountInv, AccountTypes, RowsDistinct
  <2>9. \A d \in Client : d # c => Distinct(cl[d].conn.pend, s.conn.pend)
    BY <2>2, <2>3, <2>6 DEF Distinct
  <2>10. rows' = rows /\ told' = told /\ idle' = idle
    BY <1>1
  <2> QED  BY <1>2, <2>1, <2>3, <2>4, <2>7, <2>8, <2>9, <2>10, ClientSteps
<1>9. CASE o # "ok"
  <2> DEFINE s == [q EXCEPT !.pc = "rollback", !.conn = l, !.ret = "failed"]
  <2>1. cl' = [cl EXCEPT ![c] = s]
    BY <1>5, <1>6, <1>9
  <2> HIDE DEF l
  <2>2. /\ s \in AccountCall /\ s.pc = "rollback" /\ s.ret = "failed" /\ s.op = q.op /\ s.row = q.row
        /\ s.conn = l
    <3> HIDE DEF k
    <3>1. q \in AccountCall
      BY <1>2
    <3> HIDE DEF q
    <3> QED  BY <1>7, <3>1 DEF AccountCall
  <2> HIDE DEF s
  <2>3. CallOk(s, rows)
    BY <1>3, <1>4, <1>7, <2>2 DEF CallOk
  <2>4. s.conn.pend \subseteq cl[c].conn.pend
    BY <1>7, <2>2
  <2> QED  BY <1>1, <1>2, <2>1, <2>2, <2>3, <2>4, QuietStep
<1> QED  BY <1>8, <1>9

\* A COMMIT without an answer may have been carried out: the row is in the
\* table, though no success is reported.
LEMMA TxnCommitKeeps ==
  ASSUME SqlFaults \subseteq {"error", "lost", "timeout"},
         AccountInv, NEW c \in Client, Usr!TxnCommit(c)
  PROVE  AccountInv'
<1> DEFINE q == cl[c]
           k == q.conn
<1>1. told' = told /\ idle' = idle /\ q.pc = "commit"
  BY DEF Usr!TxnCommit, Usr!At
<1>2. /\ q \in AccountCall /\ CallOk(q, rows) /\ k \in Connection
      /\ \A x \in idle : x = Usr!Clean
  BY ClientKnown
<1>3. ~k.unread /\ k.pend = q.row /\ q.op = "txn" /\ q.ret # "ok"
  BY <1>1, <1>2 DEF CallOk
<1>4. PICK w \in AccountRow : q.row = {w}
  BY <1>1, <1>2 DEF CallOk
<1>5. PICK o \in Usr!Outcomes(k) : \E a \in Usr!Applied(o) :
        LET ok == o \in {"ok", "stale"}
            l == [Usr!AfterCall(k, o) EXCEPT !.tx = IF a THEN FALSE ELSE @,
                                             !.pend = IF a THEN {} ELSE @]
        IN  /\ rows' = IF a THEN rows \cup k.pend ELSE rows
            /\ cl' = [cl EXCEPT ![c] = [q EXCEPT !.conn = l, !.pc = IF ok THEN "release" ELSE "rollback",
                                                 !.ret = IF ok THEN "ok" ELSE "failed"]]
  BY DEF Usr!TxnCommit, Usr!Goes
<1>6. PICK a \in Usr!Applied(o) :
        LET ok == o \in {"ok", "stale"}
            l == [Usr!AfterCall(k, o) EXCEPT !.tx = IF a THEN FALSE ELSE @,
                                             !.pend = IF a THEN {} ELSE @]
        IN  /\ rows' = IF a THEN rows \cup k.pend ELSE rows
            /\ cl' = [cl EXCEPT ![c] = [q EXCEPT !.conn = l, !.pc = IF ok THEN "release" ELSE "rollback",
                                                 !.ret = IF ok THEN "ok" ELSE "failed"]]
  BY <1>5
<1>7. o \in {"ok", "error", "lost", "timeout"}
  BY <1>3, OutcomesInStep
<1>8. a \in BOOLEAN /\ (o = "ok" => a)
  BY <1>7, AppliedIs
<1> DEFINE j == Usr!AfterCall(k, o)
           l == [j EXCEPT !.tx = IF a THEN FALSE ELSE @, !.pend = IF a THEN {} ELSE @]
           nextPc == IF o = "ok" THEN "release" ELSE "rollback"
           e == IF o = "ok" THEN "ok" ELSE "failed"
           s == [q EXCEPT !.conn = l, !.pc = nextPc, !.ret = e]
<1>9. /\ j \in Connection /\ j.pend \subseteq q.row
      /\ j.unread => j.errno = "client" /\ o = "timeout"
  BY <1>2, <1>3, <1>7, CallLeaves
<1>10. rows' = IF a THEN rows \cup {w} ELSE rows
  BY <1>3, <1>4, <1>6
<1>11. cl' = [cl EXCEPT ![c] = s]
  BY <1>6, <1>7
<1> HIDE DEF j
<1>12. /\ l \in Connection /\ l.pend \subseteq q.row /\ (a => l.pend = {} /\ ~l.tx)
       /\ l.unread => l.errno = "client" /\ o = "timeout"
  BY <1>8, <1>9 DEF Connection
<1> HIDE DEF l
<1>13. /\ nextPc \in {"release", "rollback"} /\ e \in {"ok", "failed"}
       /\ nextPc = "release" <=> o = "ok"
       /\ e = "ok" <=> o = "ok"
  OBVIOUS
<1> HIDE DEF nextPc, e
<1>14. /\ s \in AccountCall /\ s.pc = nextPc /\ s.ret = e /\ s.op = "txn" /\ s.row = {w}
       /\ s.conn = l
  <2> HIDE DEF k
  <2>1. q \in AccountCall /\ q.op = "txn" /\ q.row = {w}
    BY <1>2, <1>3, <1>4
  <2> HIDE DEF q
  <2> QED  BY <1>12, <1>13, <2>1 DEF AccountCall
<1> HIDE DEF s
<1>15. CallOk(s, rows')
  BY <1>3, <1>4, <1>8, <1>10, <1>12, <1>13, <1>14 DEF CallOk, InStep
<1>16. /\ rows \subseteq AccountRow /\ told \subseteq rows
       /\ \A x, y \in rows : x.user = y.user \/ x.vid = y.vid => x = y
       /\ \A d \in Client : Distinct(cl[d].conn.pend, rows)
       /\ \A d \in Client : d # c => Distinct(cl[d].conn.pend, k.pend)
  BY DEF AccountInv, AccountTypes, RowsDistinct
<1>17. \A x \in rows : x.user # w.user /\ x.vid # w.vid
  BY <1>3, <1>4, <1>16 DEF Distinct
<1>18. \A d \in Client : d # c => \A x \in cl[d].conn.pend : x.user # w.user /\ x.vid # w.vid
  BY <1>3, <1>4, <1>16 DEF Distinct
<1>19. \A x, y \in rows' : x.user = y.user \/ x.vid = y.vid => x = y
  BY <1>10, <1>16, <1>17
<1>20. s.conn.pend \subseteq {w} /\ (a => s.conn.pend = {})
  BY <1>4, <1>12, <1>14
<1>21. Distinct(s.conn.pend, rows')
  BY <1>10, <1>17, <1>20 DEF Distinct
<1>22. \A d \in Client : d # c => /\ Distinct(cl[d].conn.pend, rows')
                                  /\ Distinct(cl[d].conn.pend, s.conn.pend)
  BY <1>10, <1>16, <1>18, <1>20 DEF Distinct
<1>23. rows \subseteq rows' /\ rows' \subseteq AccountRow /\ told' \subseteq rows'
  BY <1>1, <1>10, <1>16
<1>24. \A x \in idle' : x = Usr!Clean
  BY <1>1, <1>2
<1> QED  BY <1>11, <1>14, <1>15, <1>19, <1>21, <1>22, <1>23, <1>24, ClientSteps

LEMMA TxnRollbackKeeps ==
  ASSUME SqlFaults \subseteq {"error", "lost", "timeout"},
         AccountInv, NEW c \in Client, Usr!TxnRollback(c)
  PROVE  AccountInv'
<1> DEFINE q == cl[c]
           k == q.conn
           done == [k EXCEPT !.tx = FALSE, !.pend = {}]
           l == IF k.errno = "client" THEN done ELSE [done EXCEPT !.errno = "none"]
           s == [q EXCEPT !.pc = "release", !.conn = l]
<1>1. UNCHANGED <<rows, told, idle>> /\ q.pc = "rollback"
  BY DEF Usr!TxnRollback, Usr!At
<1>2. /\ q \in AccountCall /\ CallOk(q, rows) /\ k \in Connection
      /\ \A x \in idle : x = Usr!Clean
  BY ClientKnown
<1>3. /\ k.unread => k.errno = "client"
      /\ q.op = "txn" /\ q.ret # "ok" /\ \E w \in AccountRow : q.row = {w}
  BY <1>1, <1>2 DEF CallOk
<1>4. cl' = [cl EXCEPT ![c] = s]
  BY DEF Usr!TxnRollback, Usr!Goes
<1>5. done \in Connection /\ done.pend = {} /\ ~done.tx /\ done.unread = k.unread /\ done.errno = k.errno
  <2>1. k \in Connection
    BY <1>2
  <2> HIDE DEF k
  <2> QED  BY <2>1 DEF Connection
<1> HIDE DEF done
<1>6. l \in Connection /\ l.pend = {} /\ (l.errno = "client" \/ InStep(l))
  BY <1>3, <1>5 DEF Connection, InStep
<1> HIDE DEF l
<1>7. /\ s \in AccountCall /\ s.pc = "release" /\ s.ret = q.ret /\ s.op = q.op /\ s.row = q.row
      /\ s.conn = l
  <2> HIDE DEF k
  <2>1. q \in AccountCall
    BY <1>2
  <2> HIDE DEF q
  <2> QED  BY <1>6, <2>1 DEF AccountCall
<1> HIDE DEF s
<1>8. CallOk(s, rows)
  BY <1>3, <1>6, <1>7 DEF CallOk
<1>9. s.conn.pend \subseteq cl[c].conn.pend
  BY <1>6, <1>7
<1> QED  BY <1>1, <1>2, <1>4, <1>7, <1>8, <1>9, QuietStep

\* A connection that goes back has no client error: it is clean.
LEMMA ReleaseKeeps ==
  ASSUME AccountInv, NEW c \in Client, Usr!Release(c)
  PROVE  AccountInv'
<1> DEFINE q == cl[c]
           k == q.conn
           nextPc == IF q.op = "login" /\ q.ret = "none" THEN "verify" ELSE "done"
           s == [q EXCEPT !.conn = Usr!Clean, !.pc = nextPc]
<1>1. /\ rows' = rows /\ told' = told /\ q.pc = "release"
      /\ idle' = IF k.errno = "client" THEN idle ELSE idle \cup {[k EXCEPT !.errno = "none"]}
      /\ cl' = [cl EXCEPT ![c] = s]
  BY DEF Usr!Release, Usr!At, Usr!Goes
<1>2. /\ q \in AccountCall /\ CallOk(q, rows) /\ k \in Connection
      /\ \A x \in idle : x = Usr!Clean
  BY ClientKnown
<1>3. k.pend = {} /\ (k.errno = "client" \/ InStep(k)) /\ \E w \in AccountRow : q.row = {w}
  BY <1>1, <1>2 DEF CallOk
<1>4. \A x \in idle' : x = Usr!Clean
  <2>1. k.errno # "client" => [k EXCEPT !.errno = "none"] = Usr!Clean
    BY <1>2, <1>3, CleanIs
  <2> QED  BY <1>1, <1>2, <2>1
<1>5. nextPc \in {"verify", "done"} /\ (nextPc = "verify" => q.ret = "none" /\ q.op = "login")
  OBVIOUS
<1> HIDE DEF nextPc, k
<1>6. /\ s \in AccountCall /\ s.pc = nextPc /\ s.ret = q.ret /\ s.op = q.op /\ s.row = q.row
      /\ s.conn = Usr!Clean /\ s.found = q.found
  <2>1. q \in AccountCall
    BY <1>2
  <2> HIDE DEF q
  <2> QED  BY <1>5, <2>1, CleanIs DEF AccountCall
<1> HIDE DEF s
<1>7. CallOk(s, rows)
  BY <1>1, <1>2, <1>3, <1>5, <1>6, CleanIs DEF CallOk
<1>8. s.conn.pend \subseteq cl[c].conn.pend
  BY <1>6, CleanIs DEF InStep
<1> QED  BY <1>1, <1>4, <1>6, <1>7, <1>8, QuietStep

\* The rows found belong to the name of the call and stay in the table.
LEMMA VerifyKeeps ==
  ASSUME AccountInv, NEW c \in Client, Usr!Verify(c)
  PROVE  AccountInv'
<1> DEFINE q == cl[c]
           k == q.conn
<1>1. UNCHANGED <<rows, told, idle>> /\ q.pc = "verify"
  BY DEF Usr!Verify, Usr!At
<1>2. /\ q \in AccountCall /\ CallOk(q, rows) /\ k \in Connection
      /\ \A x \in idle : x = Usr!Clean
  BY ClientKnown
<1>3. InStep(k) /\ k.errno = "none"
  BY <1>1, <1>2 DEF CallOk
<1>4. PICK w \in AccountRow : q.row = {w} /\ Usr!Row(c) = w
  BY <1>1, <1>2, ClientKnown DEF CallOk
<1>5. PICK e \in {"failed", "nouser", "ok", "wrong"} :
        /\ cl' = [cl EXCEPT ![c] = [q EXCEPT !.pc = "done", !.ret = e]]
        /\ e = "ok" => q.found # {} /\ \A x \in q.found : x.pw = w.pw
  BY <1>4 DEF Usr!Verify, Usr!Goes
<1>6. q.pc # "idle" /\ (q.op = "login" => \A x \in q.found : x \in rows /\ x.user = w.user)
  BY <1>1, <1>2, <1>4 DEF CallOk
<1>7. q.op = "login"
  BY <1>1, <1>2 DEF CallOk
<1> DEFINE s == [q EXCEPT !.pc = "done", !.ret = e]
<1>8. cl' = [cl EXCEPT ![c] = s]
  BY <1>5
<1>9. /\ s \in AccountCall /\ s.pc = "done" /\ s.ret = e /\ s.op = q.op /\ s.row = {w}
      /\ s.conn = k /\ s.found = q.found
  <2>1. q \in AccountCall /\ q.row = {w}
    BY <1>2, <1>4
  <2> HIDE DEF q
  <2> QED  BY <1>5, <2>1 DEF AccountCall
<1> HIDE DEF s
<1>10. CallOk(s, rows)
  BY <1>3, <1>4, <1>5, <1>6, <1>7, <1>9 DEF CallOk
<1>11. s.conn.pend \subseteq cl[c].conn.pend
  BY <1>9
<1> QED  BY <1>1, <1>2, <1>8, <1>9, <1>10, <1>11, QuietStep

LEMMA ReturnKeeps ==
  ASSUME AccountInv, NEW c \in Client, Usr!Return(c)
  PROVE  AccountInv'
<1> DEFINE q == cl[c]
           s == Usr!NoCall
<1>1. /\ rows' = rows /\ idle' = idle /\ q.pc = "done" /\ cl' = [cl EXCEPT ![c] = s]
      /\ told' = IF q.ret = "ok" /\ q.op # "login" THEN told \cup q.row ELSE told
  BY DEF Usr!Return, Usr!At, Usr!Goes
<1>2. CallOk(q, rows) /\ \A x \in idle : x = Usr!Clean
  BY ClientKnown
<1>3. /\ rows \subseteq AccountRow /\ told \subseteq rows
      /\ \A x, y \in rows : x.user = y.user \/ x.vid = y.vid => x = y
      /\ \A d \in Client : Distinct(cl[d].conn.pend, rows)
  BY DEF AccountInv, AccountTypes, RowsDistinct
<1>4. q.ret = "ok" /\ q.op # "login" => q.row \subseteq rows
  BY <1>2 DEF CallOk
<1>5. told' \subseteq rows'
  BY <1>1, <1>3, <1>4
<1>6. /\ s \in AccountCall /\ s.op = "none" /\ s.pc = "idle" /\ s.row = {} /\ s.conn = Usr!Clean
      /\ s.ret = "none" /\ s.conn.pend = {}
  BY NoCallIs, CleanIs DEF InStep
<1> HIDE DEF s
<1>7. CallOk(s, rows)
  BY <1>6, CleanIs DEF CallOk
<1>8. /\ Distinct(s.conn.pend, rows)
      /\ \A d \in Client : d # c => Distinct(cl[d].conn.pend, s.conn.pend)
  BY <1>6 DEF Distinct
<1> QED  BY <1>1, <1>2, <1>3, <1>5, <1>6, <1>7, <1>8, ClientSteps

LEMMA AccountsKept ==
  ASSUME SqlFaults \subseteq {"error", "lost", "timeout"}, AccountInv, [Usr!Next]_userVars
  PROVE  AccountInv'
<1>1. CASE Usr!Next
  BY <1>1, AcquireKeeps, InsertUserKeeps, QueryByUsernameKeeps, TxnBeginKeeps, TxnStmtKeeps,
     TxnCommitKeeps, TxnRollbackKeeps, ReleaseKeeps, VerifyKeeps, ReturnKeeps, BeginKeeps
     DEF Usr!Next, Usr!Step
<1>2. CASE UNCHANGED userVars
  BY <1>2 DEF userVars, AccountInv, AccountTypes, CallsOk, RowsDistinct
<1> QED  BY <1>1, <1>2

LEMMA AccountsAreSafe == AccountInv => AccountsSafe
<1> SUFFICES ASSUME AccountInv PROVE Usr!AccountsSafe
  BY DEF AccountsSafe
<1>1. Usr!ConnectionsInStep
  BY DEF AccountInv, AccountTypes, RowsDistinct, Usr!ConnectionsInStep
<1>2. told \subseteq rows
  BY DEF AccountInv, AccountTypes
<1>3. ASSUME NEW c \in Client, cl[c].op = "login", cl[c].ret = "ok"
      PROVE  \E x \in rows : x.user = Usr!Row(c).user /\ x.pw = Usr!Row(c).pw
  <2>1. CallOk(cl[c], rows)
    BY ClientKnown
  <2>2. PICK w \in AccountRow : cl[c].row = {w}
    BY <1>3, <2>1 DEF CallOk
  <2>3. Usr!Row(c) = w
    BY <2>2, ClientKnown
  <2> QED  BY <1>3, <2>1, <2>2, <2>3 DEF CallOk
<1> QED  BY <1>1, <1>2, <1>3 DEF Usr!AccountsSafe, Usr!SuccessIsReal

\* For every set of clients, names, vids and passwords, and whatever calls of
\* the library fail in a way it reports (an error of the server, a lost
\* connection, a timeout): a pooled connection is clean, no name and no vid
\* has two rows, what InsertUser and utransaction report as inserted is in
\* the table, and a login that succeeds found the password of its account.
\* The faults the library does not report (a failed poll, a timeout of
\* ROLLBACK) are excluded: the run of SuccessIsReal shows what they do.
THEOREM AccountsStaySafe ==
  ASSUME SqlFaults \subseteq {"error", "lost", "timeout"}
  PROVE  RequestsSpec => []AccountsSafe
<1>1. RequestsInit => AccountInv
  BY AccountsInitially DEF RequestsInit
<1>2. AccountInv /\ [RequestsNext]_requestsVars => AccountInv'
  BY AccountsKept DEF RequestsNext, ParserPart, RoutesPart, ConnectionPart, ResourcesPart,
     SessionPart, LimiterPart, UsersPart, TimersPart, requestsVars
<1> QED  BY <1>1, <1>2, AccountsAreSafe, PTL DEF RequestsSpec, requestsVars

-----------------------------------------------------------------------------
(* Sessions *)

SessionData == [tok : Nat, in : BOOLEAN]
StoredData == [tok : Nat, in : BOOLEAN, ttl : {"short", "default"}]

SessionReq ==
  [op : {"none", "issue", "login", "register", "logout", "page"},
   pc : {"idle", "load", "touch", "chain", "rotate", "unlink", "save", "respond"},
   id : Nat, vals : SessionData, new : BOOLEAN, loadOK : BOOLEAN, written : BOOLEAN,
   destroy : BOOLEAN, age : {"unset", "short"}, err : BOOLEAN, old : Nat,
   cookie : SUBSET Nat, tok : Nat]

\* The logins that a request which could load its session must not take away.
Kept == alive \ blind

\* What is known of a request s when A are the kept logins, U the sessions
\* whose Rotate() failed and n numbers were generated.  A session that was
\* loaded carries the login of its id; one that was not found has no login to
\* lose; what will be written has the age of its kind.
RequestOk(s, A, U, n) ==
  /\ s.id <= n /\ s.old <= n /\ \A x \in s.cookie : x <= n
  /\ s.pc = "load" => s.id # 0
  /\ s.pc \in {"idle", "load"} => ~s.loadOK /\ ~s.err /\ s.new
  /\ s.pc \in {"idle", "load", "touch", "chain", "rotate", "unlink"} =>
       ~s.destroy /\ s.age = "unset" /\ ~s.written
  /\ s.pc = "touch" => s.loadOK
  /\ s.pc \in {"touch", "chain"} => s.new = ~s.loadOK
  /\ s.pc \in {"idle", "load", "chain"} /\ ~s.loadOK => s.vals = Ses!Empty
  /\ s.loadOK => ~s.err /\ s.id # 0 /\ s.vals.tok # 0 /\ (s.id \in A => s.vals.in)
  /\ ~s.loadOK /\ ~s.err /\ s.pc \notin {"idle", "load"} => s.id \notin A
  /\ s.pc \in {"rotate", "unlink"} => s.loadOK /\ s.vals.in /\ s.old # s.id /\ s.old # 0
  /\ s.pc = "rotate" /\ s.op = "register" => s.old \notin A
  /\ s.pc = "unlink" => s.old \notin A
  /\ s.destroy => s.id \notin A
  /\ s.pc = "save" /\ s.written /\ ~s.destroy =>
       IF s.vals.in THEN s.loadOK /\ s.id \in U /\ s.age = "unset"
       ELSE s.vals.tok # 0 /\ s.age = "short"

SessionTypes ==
  /\ store \in [Ses!Id -> SUBSET StoredData]
  /\ rs \in [Req -> SessionReq]
  /\ jar.cookie \in Nat /\ jar.tok \in Nat /\ jar.cookie <= fresh
  /\ fresh \in 0..MaxFresh
  /\ sliding \in BOOLEAN /\ \A r \in Req : rs[r].pc = "touch" => sliding
  /\ alive \subseteq 1..fresh

StoredOk ==
  \A i \in Ses!Id : \A v \in store[i] :
     /\ v.tok # 0
     /\ v.in => i \in made \cup unrotated
     /\ ~sliding => (v.ttl = "short" <=> ~v.in)

RequestsOk == \A r \in Req : RequestOk(rs[r], Kept, unrotated, fresh)

\* The id a Rotate() in progress made is known to nobody else.
Secret(i, r) ==
  /\ i \notin alive /\ i \in made /\ jar.cookie # i
  /\ \A q \in Req : q # r => rs[q].id # i /\ rs[q].old # i /\ i \notin rs[q].cookie

RotatingSecret == \A r \in Req : rs[r].pc = "rotate" => Secret(rs[r].id, r)

SessionInv == SessionTypes /\ StoredOk /\ RequestsOk /\ RotatingSecret /\ Ses!SessionKept

LEMMA NumbersSmall == Ses!Id = 1..MaxFresh /\ MaxFresh \in Nat
BY FreshNumber DEF Ses!Id

LEMMA SessionsInitially == Ses!Init => SessionInv
<1> SUFFICES ASSUME Ses!Init PROVE SessionInv
  OBVIOUS
<1> DEFINE q == Ses!NoReq
<1>1. Ses!Empty \in SessionData
  BY DEF Ses!Empty, SessionData
<1>2. /\ q \in SessionReq /\ q.pc = "idle" /\ q.id = 0 /\ q.old = 0 /\ q.cookie = {}
      /\ q.vals = Ses!Empty /\ q.new /\ ~q.loadOK /\ ~q.written /\ ~q.destroy /\ q.age = "unset"
      /\ ~q.err
  BY <1>1 DEF Ses!NoReq, SessionReq
<1>3. /\ store = [i \in Ses!Id |-> {}] /\ jar = [cookie |-> 0, tok |-> 0] /\ fresh = 0
      /\ sliding \in BOOLEAN /\ rs = [r \in Req |-> q] /\ alive = {} /\ blind = {}
  BY DEF Ses!Init
<1> HIDE DEF q
<1>4. SessionTypes
  BY <1>2, <1>3, NumbersSmall DEF SessionTypes
<1>5. StoredOk /\ RotatingSecret /\ Ses!SessionKept
  BY <1>2, <1>3 DEF StoredOk, RotatingSecret, Ses!SessionKept
<1>6. RequestsOk
  BY <1>2, <1>3 DEF RequestsOk, RequestOk, Kept
<1> QED  BY <1>4, <1>5, <1>6 DEF SessionInv

\* What is known of a request stays true while more numbers are generated
\* and no login of its ids is added.
LEMMA RequestStaysOk ==
  ASSUME NEW s \in SessionReq, NEW A, NEW B, NEW U, NEW V, NEW n \in Nat, NEW m \in Nat,
         n <= m, U \subseteq V, \A x \in B : x \in A \/ (x # s.id /\ x # s.old),
         RequestOk(s, A, U, n)
  PROVE  RequestOk(s, B, V, m)
<1>1. s.id \in Nat /\ s.old \in Nat /\ s.cookie \subseteq Nat
  BY DEF SessionReq
<1>2. s.id <= m /\ s.old <= m /\ \A x \in s.cookie : x <= m
  BY <1>1 DEF RequestOk
<1>3. (s.id \in B => s.id \in A) /\ (s.old \in B => s.old \in A)
  OBVIOUS
<1> QED  BY <1>2, <1>3 DEF RequestOk

\* A step of one request: the ids it knows afterwards it knew before, or
\* they are new, and the only login it adds is the one its Rotate() made.
LEMMA RequestSteps ==
  ASSUME SessionInv, NEW r \in Req, NEW s \in SessionReq, rs' = [rs EXCEPT ![r] = s],
         fresh <= fresh', fresh' \in 0..MaxFresh, sliding' = sliding, s.pc = "touch" => sliding,
         unrotated \subseteq unrotated', made \subseteq made', blind \subseteq blind',
         store' \in [Ses!Id -> SUBSET StoredData], StoredOk', Ses!SessionKept',
         jar'.cookie \in Nat, jar'.tok \in Nat, jar'.cookie <= fresh',
         \A x \in alive' : x \in alive \/ (rs[r].pc = "rotate" /\ x = rs[r].id),
         RequestOk(s, Kept', unrotated', fresh'),
         \A x \in {jar'.cookie, s.id, s.old} \cup s.cookie :
            x = 0 \/ x = jar.cookie \/ x = rs[r].id \/ x = rs[r].old \/ x \in rs[r].cookie \/ x > fresh,
         s.pc = "rotate" => s.id > fresh /\ s.id \in made' /\ jar' = jar
  PROVE  SessionInv'
<1>1. /\ rs' \in [Req -> SessionReq]
      /\ \A q \in Req : rs'[q] = IF q = r THEN s ELSE rs[q]
      /\ \A q \in Req : rs[q] \in SessionReq
      /\ \A q \in Req : rs[q].pc = "touch" => sliding
  BY DEF SessionInv, SessionTypes
<1>2. /\ fresh \in Nat /\ fresh' \in Nat /\ alive \subseteq 1..fresh /\ jar.cookie \in Nat
      /\ jar.cookie <= fresh /\ sliding \in BOOLEAN
  BY NumbersSmall DEF SessionInv, SessionTypes
<1>3. \A q \in Req : /\ RequestOk(rs[q], Kept, unrotated, fresh)
                     /\ rs[q].pc = "rotate" => Secret(rs[q].id, q)
  BY DEF SessionInv, RequestsOk, RotatingSecret
<1>4. \A q \in Req : /\ rs[q].id \in Nat /\ rs[q].id <= fresh /\ rs[q].old \in Nat
                     /\ rs[q].old <= fresh /\ \A x \in rs[q].cookie : x <= fresh
                     /\ rs[q].pc = "rotate" => rs[q].id # 0
  <2> SUFFICES ASSUME NEW q \in Req
               PROVE  /\ rs[q].id \in Nat /\ rs[q].id <= fresh /\ rs[q].old \in Nat
                      /\ rs[q].old <= fresh /\ \A x \in rs[q].cookie : x <= fresh
                      /\ rs[q].pc = "rotate" => rs[q].id # 0
    OBVIOUS
  <2>1. rs[q].id \in Nat /\ rs[q].old \in Nat
    BY <1>1 DEF SessionReq
  <2> QED  BY <1>3, <2>1 DEF RequestOk
<1>5. SessionTypes'
  <2>1. ASSUME NEW x \in alive' PROVE x \in 1..fresh'
    <3>1. x \in Nat /\ x <= fresh /\ x # 0
      <4>1. CASE x \in alive
        BY <1>2, <4>1
      <4>2. CASE rs[r].pc = "rotate" /\ x = rs[r].id
        BY <1>4, <4>2
      <4> QED  BY <2>1, <4>1, <4>2
    <3> QED  BY <1>2, <3>1
  <2>2. \A q \in Req : rs'[q].pc = "touch" => sliding'
    BY <1>1
  <2> QED  BY <1>1, <1>2, <2>1, <2>2 DEF SessionTypes
<1>6. RequestsOk'
  <2> SUFFICES ASSUME NEW q \in Req PROVE RequestOk(rs'[q], Kept', unrotated', fresh')
    BY DEF RequestsOk
  <2>1. CASE q = r
    BY <1>1, <2>1
  <2>2. CASE q # r
    <3>1. \A x \in Kept' : x \in Kept \/ (x # rs[q].id /\ x # rs[q].old)
      BY <1>3, <2>2 DEF Kept, Secret
    <3>2. rs'[q] = rs[q] /\ rs[q] \in SessionReq /\ RequestOk(rs[q], Kept, unrotated, fresh)
      BY <1>1, <1>3, <2>2
    <3> HIDE DEF Kept
    <3> QED  BY <1>2, <3>1, <3>2, RequestStaysOk
  <2> QED  BY <2>1, <2>2
<1>7. RotatingSecret'
  <2> SUFFICES ASSUME NEW q \in Req, rs'[q].pc = "rotate" 
               PROVE  LET i == rs'[q].id
                      IN  /\ i \notin alive' /\ i \in made' /\ jar'.cookie # i
                          /\ \A p \in Req : p # q => /\ rs'[p].id # i /\ rs'[p].old # i
                                                    /\ i \notin rs'[p].cookie
    BY DEF RotatingSecret, Secret
  <2> DEFINE i == rs'[q].id
  <2>1. CASE q = r
    <3>1. i = s.id /\ i > fresh /\ i \in made' /\ jar' = jar /\ i \in Nat
      BY <1>1, <2>1 DEF SessionReq
    <3>2. i \notin alive'
      BY <1>2, <1>4, <3>1
    <3>3. \A p \in Req : p # q => rs'[p].id # i /\ rs'[p].old # i /\ i \notin rs'[p].cookie
      BY <1>1, <1>2, <1>4, <2>1, <3>1
    <3>4. jar'.cookie # i
      BY <1>2, <3>1
    <3> QED  BY <3>1, <3>2, <3>3, <3>4
  <2>2. CASE q # r
    <3>1. i = rs[q].id /\ Secret(i, q) /\ i \in Nat /\ i # 0 /\ i <= fresh
      BY <1>1, <1>3, <1>4, <2>2
    <3> HIDE DEF i
    <3>2. rs[r].id # i /\ rs[r].old # i /\ i \notin rs[r].cookie /\ jar.cookie # i /\ i \notin alive /\ i \in made
      BY <2>2, <3>1 DEF Secret
    <3>3. \A x \in {jar'.cookie, s.id, s.old} \cup s.cookie : x # i
      BY <1>2, <3>1, <3>2
    <3>4. i \notin alive' /\ i \in made'
      BY <3>2
    <3>5. \A p \in Req : p # q => rs'[p].id # i /\ rs'[p].old # i /\ i \notin rs'[p].cookie
      BY <1>1, <3>1, <3>3 DEF Secret
    <3> QED  BY <3>3, <3>4, <3>5 DEF i
  <2> QED  BY <2>1, <2>2
<1> QED  BY <1>5, <1>6, <1>7 DEF SessionInv

\* What is known of one request.
LEMMA RequestKnown ==
  ASSUME SessionInv, NEW r \in Req
  PROVE  /\ rs[r] \in SessionReq /\ RequestOk(rs[r], Kept, unrotated, fresh)
         /\ rs[r].id \in Nat /\ rs[r].old \in Nat /\ rs[r].vals \in SessionData
         /\ rs[r].vals.tok \in Nat /\ rs[r].vals.in \in BOOLEAN /\ rs[r].cookie \subseteq Nat
         /\ fresh \in Nat /\ fresh <= MaxFresh /\ jar.cookie \in Nat /\ jar.tok \in Nat /\ jar.cookie <= fresh
<1>1. rs[r] \in SessionReq /\ RequestOk(rs[r], Kept, unrotated, fresh)
  BY DEF SessionInv, SessionTypes, RequestsOk
<1>2. /\ rs[r].id \in Nat /\ rs[r].old \in Nat /\ rs[r].vals \in SessionData
      /\ rs[r].cookie \subseteq Nat
  BY <1>1 DEF SessionReq
<1>3. rs[r].vals.tok \in Nat /\ rs[r].vals.in \in BOOLEAN
  BY <1>2 DEF SessionData
<1>4. /\ fresh \in Nat /\ fresh <= MaxFresh /\ jar.cookie \in Nat /\ jar.tok \in Nat /\ jar.cookie <= fresh
  BY NumbersSmall DEF SessionInv, SessionTypes
<1> QED  BY <1>1, <1>2, <1>3, <1>4

\* A step that changes one request only.
LEMMA QuietRequest ==
  ASSUME SessionInv, NEW r \in Req, NEW s \in SessionReq, rs' = [rs EXCEPT ![r] = s],
         UNCHANGED <<store, jar, fresh, sliding, alive, made, unrotated, blind>>,
         s.pc # "rotate", s.pc = "touch" => sliding, RequestOk(s, Kept, unrotated, fresh),
         \A x \in {s.id, s.old} \cup s.cookie :
            x = 0 \/ x = jar.cookie \/ x = rs[r].id \/ x = rs[r].old \/ x \in rs[r].cookie
  PROVE  SessionInv'
<1>1. StoredOk' /\ Ses!SessionKept' /\ store' \in [Ses!Id -> SUBSET StoredData]
  BY DEF SessionInv, SessionTypes, StoredOk, Ses!SessionKept
<1>2. /\ fresh' \in 0..MaxFresh /\ fresh <= fresh'
      /\ jar'.cookie \in Nat /\ jar'.tok \in Nat /\ jar'.cookie <= fresh'
  BY RequestKnown DEF SessionInv, SessionTypes
<1>3. RequestOk(s, Kept', unrotated', fresh')
  BY DEF Kept
<1>4. \A x \in {jar'.cookie, s.id, s.old} \cup s.cookie :
        x = 0 \/ x = jar.cookie \/ x = rs[r].id \/ x = rs[r].old \/ x \in rs[r].cookie \/ x > fresh
  OBVIOUS
<1> QED  BY <1>1, <1>2, <1>3, <1>4, RequestSteps

Moved(r, p) == [rs EXCEPT ![r] = [rs[r] EXCEPT !.pc = p]]

\* A request goes on with its session as it is.
LEMMA Advances ==
  ASSUME SessionInv, NEW r \in Req, NEW p \in {"save", "respond"}, rs' = Moved(r, p),
         rs[r].pc = "chain" \/ (rs[r].pc = "save" /\ p = "respond"),
         UNCHANGED <<store, jar, fresh, sliding, alive, made, unrotated, blind>>
  PROVE  SessionInv'
<1> DEFINE q == rs[r]
           s == [q EXCEPT !.pc = p]
<1>1. q \in SessionReq /\ RequestOk(q, Kept, unrotated, fresh)
  BY RequestKnown
<1>2. rs' = [rs EXCEPT ![r] = s]
  BY DEF Moved
<1>3. q.pc = "chain" \/ (q.pc = "save" /\ p = "respond")
  OBVIOUS
<1>4. /\ s \in SessionReq /\ s.pc = p /\ s.op = q.op /\ s.id = q.id /\ s.vals = q.vals /\ s.new = q.new
      /\ s.loadOK = q.loadOK /\ s.written = q.written /\ s.destroy = q.destroy
      /\ s.age = q.age /\ s.err = q.err /\ s.old = q.old /\ s.cookie = q.cookie
  <2> HIDE DEF q
  <2> QED  BY <1>1 DEF SessionReq
<1> HIDE DEF s
<1>5. RequestOk(s, Kept, unrotated, fresh)
  BY <1>1, <1>3, <1>4 DEF RequestOk
<1> QED  BY <1>2, <1>4, <1>5, QuietRequest

LEMMA ChainKeeps ==
  ASSUME SessionInv, NEW r \in Req,
         \/ Ses!Aborts(r) \/ Ses!Page(r) \/ Ses!LoginRefused(r) \/ Ses!RegisterRefused(r)
         \/ Ses!SaveSkips(r)
  PROVE  SessionInv'
<1>1. UNCHANGED <<store, jar, fresh, sliding, alive, made, unrotated, blind>>
  BY DEF Ses!Aborts, Ses!Page, Ses!LoginRefused, Ses!RegisterRefused, Ses!Reads, Ses!SaveSkips, Ses!history
<1>2. \/ rs[r].pc = "chain" /\ rs' = Moved(r, "respond")
      \/ rs[r].pc = "chain" /\ rs' = Moved(r, "save")
      \/ rs[r].pc = "save" /\ rs' = Moved(r, "respond")
  BY DEF Ses!Aborts, Ses!Page, Ses!LoginRefused, Ses!RegisterRefused, Ses!Reads, Ses!SaveSkips,
         Ses!At, Ses!Goes, Moved
<1> QED  BY <1>1, <1>2, Advances

LEMMA BeginSessionKeeps ==
  ASSUME SessionInv, NEW r \in Req, NEW op \in {"issue", "login", "register", "logout", "page"},
         Ses!Begin(r, op)
  PROVE  SessionInv'
<1>1. /\ UNCHANGED <<store, jar, fresh, sliding, alive, made, unrotated, blind>>
  BY DEF Ses!Begin, Ses!history
<1>2. PICK i \in {jar.cookie, 0} :
         rs' = [rs EXCEPT ![r] = [Ses!NoReq EXCEPT !.op = op, !.id = i, !.tok = jar.tok,
                                                   !.pc = IF i = 0 THEN "chain" ELSE "load"]]
  BY DEF Ses!Begin, Ses!Goes
<1> DEFINE p == IF i = 0 THEN "chain" ELSE "load"
           s == [Ses!NoReq EXCEPT !.op = op, !.id = i, !.tok = jar.tok, !.pc = p]
<1>3. rs' = [rs EXCEPT ![r] = s]
  BY <1>2
<1>4. i \in Nat /\ i <= fresh /\ jar.tok \in Nat /\ fresh \in Nat
  BY RequestKnown
<1>5. p \in {"chain", "load"} /\ (p = "chain" <=> i = 0)
  OBVIOUS
<1> HIDE DEF p
<1>6. Ses!Empty \in SessionData
  BY DEF Ses!Empty, SessionData
<1>7. /\ s \in SessionReq /\ s.pc = p /\ s.id = i /\ s.old = 0 /\ s.cookie = {}
      /\ s.vals = Ses!Empty /\ s.new = TRUE /\ s.loadOK = FALSE /\ ~s.written /\ ~s.destroy /\ s.age = "unset"
      /\ ~s.err
  BY <1>4, <1>5, <1>6 DEF Ses!NoReq, SessionReq
<1> HIDE DEF s
<1>8. 0 \notin Kept
  BY <1>4 DEF SessionInv, SessionTypes, Kept
<1>9. RequestOk(s, Kept, unrotated, fresh)
  <2>1. CASE i = 0
    <3>1. s.pc = "chain" /\ s.id = 0 /\ s.id \notin Kept
      BY <1>5, <1>7, <1>8, <2>1
    <3> QED  BY <1>4, <1>7, <3>1 DEF RequestOk
  <2>2. CASE i # 0
    <3>1. s.pc = "load" /\ s.id # 0 /\ s.id <= fresh
      BY <1>4, <1>5, <1>7, <2>2
    <3> QED  BY <1>4, <1>7, <3>1 DEF RequestOk
  <2> QED  BY <2>1, <2>2
<1> QED  BY <1>1, <1>2, <1>3, <1>5, <1>7, <1>9, QuietRequest

\* A kept login is found by a GET that answers, and is a login.
LEMMA InitLoadKeeps ==
  ASSUME SessionInv, NEW r \in Req, Ses!InitLoad(r)
  PROVE  SessionInv'
<1> DEFINE q == rs[r]
<1>1. q.pc = "load" /\ UNCHANGED <<store, jar, fresh, sliding, alive, made, unrotated, blind>>
  BY DEF Ses!InitLoad, Ses!history, Ses!At
<1>2. PICK o \in Ses!Outcome("get") :
        IF o # "ok" \/ store[q.id] = {}
        THEN rs' = [rs EXCEPT ![r] = [q EXCEPT !.pc = "chain", !.err = o # "ok"]]
        ELSE \E v \in store[q.id] :
               rs' = [rs EXCEPT ![r] = [q EXCEPT !.vals = [tok |-> v.tok, in |-> v.in],
                                                 !.new = FALSE, !.loadOK = TRUE,
                                                 !.pc = IF sliding THEN "touch" ELSE "chain"]]
  BY DEF Ses!InitLoad, Ses!Goes
<1>3. /\ q \in SessionReq /\ RequestOk(q, Kept, unrotated, fresh)
      /\ q.id \in Nat /\ q.old \in Nat /\ fresh \in Nat /\ fresh <= MaxFresh
  BY RequestKnown
<1>4. q.id # 0 /\ q.id <= fresh /\ q.id \in Ses!Id
  BY <1>1, <1>3, NumbersSmall DEF RequestOk
<1>5. /\ q.id \in Kept => store[q.id] # {} /\ \A v \in store[q.id] : v.in
      /\ store[q.id] \subseteq StoredData /\ \A v \in store[q.id] : v.tok # 0
      /\ sliding \in BOOLEAN
  BY <1>4 DEF SessionInv, SessionTypes, StoredOk, Ses!SessionKept, Kept
<1>6. CASE o # "ok" \/ store[q.id] = {}
  <2> DEFINE e == o # "ok"
             s == [q EXCEPT !.pc = "chain", !.err = e]
  <2>1. rs' = [rs EXCEPT ![r] = s]
    BY <1>2, <1>6
  <2>2. e \in BOOLEAN /\ (~e => q.id \notin Kept)
    BY <1>5, <1>6
  <2> HIDE DEF e
  <2>3. /\ s \in SessionReq /\ s.pc = "chain" /\ s.op = q.op /\ s.id = q.id /\ s.vals = q.vals /\ s.new = q.new
        /\ s.loadOK = q.loadOK /\ s.written = q.written /\ s.destroy = q.destroy
        /\ s.age = q.age /\ s.err = e /\ s.old = q.old /\ s.cookie = q.cookie
    <3>1. q \in SessionReq
      BY <1>3
    <3> HIDE DEF q
    <3> QED  BY <2>2, <3>1 DEF SessionReq
  <2>4. q.new \in BOOLEAN /\ q.loadOK \in BOOLEAN
    BY <1>3 DEF SessionReq
  <2> HIDE DEF s
  <2>5. RequestOk(s, Kept, unrotated, fresh)
    BY <1>1, <1>3, <2>2, <2>3, <2>4 DEF RequestOk
  <2> QED  BY <1>1, <2>1, <2>3, <2>5, QuietRequest
<1>7. CASE ~(o # "ok" \/ store[q.id] = {})
  <2>1. PICK v \in store[q.id] :
          rs' = [rs EXCEPT ![r] = [q EXCEPT !.vals = [tok |-> v.tok, in |-> v.in],
                                            !.new = FALSE, !.loadOK = TRUE,
                                            !.pc = IF sliding THEN "touch" ELSE "chain"]]
    BY <1>2, <1>7
  <2> DEFINE w == [tok |-> v.tok, in |-> v.in]
             p == IF sliding THEN "touch" ELSE "chain"
             s == [q EXCEPT !.vals = w, !.new = FALSE, !.loadOK = TRUE, !.pc = p]
  <2>2. rs' = [rs EXCEPT ![r] = s]
    BY <2>1
  <2>3. w \in SessionData /\ w.tok # 0 /\ (q.id \in Kept => w.in)
    BY <1>5 DEF SessionData, StoredData
  <2>4. p \in {"touch", "chain"} /\ (p = "touch" => sliding)
    OBVIOUS
  <2> HIDE DEF w, p
  <2>5. /\ s \in SessionReq /\ s.pc = p /\ s.op = q.op /\ s.id = q.id /\ s.vals = w /\ s.new = FALSE
        /\ s.loadOK = TRUE /\ s.written = q.written /\ s.destroy = q.destroy
        /\ s.age = q.age /\ s.err = q.err /\ s.old = q.old /\ s.cookie = q.cookie
    <3>1. q \in SessionReq
      BY <1>3
    <3> HIDE DEF q
    <3> QED  BY <2>3, <2>4, <3>1 DEF SessionReq
  <2> HIDE DEF s
  <2>6. RequestOk(s, Kept, unrotated, fresh)
    BY <1>1, <1>3, <1>4, <2>3, <2>4, <2>5 DEF RequestOk
  <2> QED  BY <1>1, <2>2, <2>4, <2>5, <2>6, QuietRequest
<1> QED  BY <1>6, <1>7

\* EXPIRE changes the age of what is stored, in a store that renews ages.
LEMMA TouchTTLKeeps ==
  ASSUME SessionInv, NEW r \in Req, Ses!TouchTTL(r)
  PROVE  SessionInv'
<1> DEFINE q == rs[r]
           s == [q EXCEPT !.pc = "chain"]
           Touched(v) == [v EXCEPT !.ttl = "default"]
<1>1. /\ q.pc = "touch" /\ rs' = [rs EXCEPT ![r] = s]
      /\ UNCHANGED <<jar, fresh, sliding, alive, made, unrotated, blind>>
  BY DEF Ses!TouchTTL, Ses!history, Ses!At, Ses!Goes
<1>2. /\ q \in SessionReq /\ RequestOk(q, Kept, unrotated, fresh)
      /\ fresh \in Nat /\ fresh <= MaxFresh /\ jar.cookie \in Nat /\ jar.tok \in Nat /\ jar.cookie <= fresh
  BY RequestKnown
<1>3. q.loadOK /\ q.age = "unset"
  BY <1>1, <1>2 DEF RequestOk
<1>4. /\ sliding /\ store \in [Ses!Id -> SUBSET StoredData] /\ fresh \in 0..MaxFresh
  BY <1>1 DEF SessionInv, SessionTypes
<1>5. store' = [store EXCEPT ![q.id] = {Touched(v) : v \in @}]
  BY <1>3 DEF Ses!TouchTTL, Ses!EffectiveMaxAge
<1>6. \A v \in StoredData : Touched(v) \in StoredData /\ Touched(v).in = v.in /\ Touched(v).tok = v.tok
  BY DEF StoredData
<1> HIDE DEF Touched
<1>7. \A i \in Ses!Id : store'[i] = IF i = q.id THEN {Touched(v) : v \in store[i]} ELSE store[i]
  BY <1>4, <1>5
<1>8. store' \in [Ses!Id -> SUBSET StoredData]
  <2>1. {Touched(v) : v \in store[q.id]} \subseteq StoredData \/ q.id \notin Ses!Id
    BY <1>4, <1>6
  <2> QED  BY <1>4, <1>5, <2>1
<1>9. \A i \in Ses!Id : /\ \A v \in store'[i] : \E u \in store[i] : v.in = u.in /\ v.tok = u.tok
                        /\ store[i] # {} => store'[i] # {}
  <2> SUFFICES ASSUME NEW i \in Ses!Id
               PROVE  /\ \A v \in store'[i] : \E u \in store[i] : v.in = u.in /\ v.tok = u.tok
                      /\ store[i] # {} => store'[i] # {}
    OBVIOUS
  <2>1. store[i] \subseteq StoredData
    BY <1>4
  <2>2. CASE i = q.id
    <3>1. store'[i] = {Touched(v) : v \in store[i]}
      BY <1>7, <2>2
    <3> HIDE DEF q
    <3> QED  BY <1>6, <2>1, <3>1
  <2>3. CASE i # q.id
    BY <1>7, <2>3
  <2> QED  BY <2>2, <2>3
<1>10. StoredOk'
  BY <1>1, <1>4, <1>9 DEF SessionInv, StoredOk
<1>11. alive \subseteq Ses!Id
  BY <1>2, NumbersSmall DEF SessionInv, SessionTypes
<1>12. Ses!SessionKept'
  BY <1>1, <1>9, <1>11 DEF SessionInv, Ses!SessionKept
<1>13. /\ s \in SessionReq /\ s.pc = "chain" /\ s.op = q.op /\ s.id = q.id /\ s.vals = q.vals /\ s.new = q.new
       /\ s.loadOK = q.loadOK /\ s.written = q.written /\ s.destroy = q.destroy
       /\ s.age = q.age /\ s.err = q.err /\ s.old = q.old /\ s.cookie = q.cookie
  <2>1. q \in SessionReq
    BY <1>2
  <2> HIDE DEF q
  <2> QED  BY <2>1 DEF SessionReq
<1>14. q.new = ~q.loadOK
  BY <1>1, <1>2 DEF RequestOk
<1> HIDE DEF s
<1>15. RequestOk(s, Kept', unrotated', fresh')
  BY <1>1, <1>2, <1>13, <1>14 DEF RequestOk, Kept
<1>16. \A x \in {jar'.cookie, s.id, s.old} \cup s.cookie :
        x = 0 \/ x = jar.cookie \/ x = rs[r].id \/ x = rs[r].old \/ x \in rs[r].cookie \/ x > fresh
  BY <1>1, <1>13
<1>17. /\ fresh' = fresh /\ sliding' = sliding /\ alive' = alive /\ made' = made
       /\ unrotated' = unrotated /\ blind' = blind /\ jar' = jar
       /\ fresh <= fresh' /\ fresh' \in 0..MaxFresh /\ jar'.cookie <= fresh' /\ \A x \in alive' : x \in alive
  BY <1>1, <1>2, <1>4
<1> QED  BY <1>1, <1>2, <1>4, <1>8, <1>10, <1>12, <1>13, <1>15, <1>16, <1>17, RequestSteps

\* A token is made only for a session without data: it was not loaded.
LEMMA SessionIssueKeeps ==
  ASSUME SessionInv, NEW r \in Req, Ses!SessionIssue(r)
  PROVE  SessionInv'
<1> DEFINE q == rs[r]
<1>1. q.pc = "chain" /\ UNCHANGED <<store, jar, sliding, alive, made, unrotated, blind>>
  BY DEF Ses!SessionIssue, Ses!history, Ses!At
<1>2. /\ q \in SessionReq /\ RequestOk(q, Kept, unrotated, fresh) /\ q.vals \in SessionData
      /\ fresh \in Nat /\ fresh <= MaxFresh /\ jar.cookie \in Nat /\ jar.tok \in Nat /\ jar.cookie <= fresh
      /\ q.id \in Nat /\ q.old \in Nat /\ q.cookie \subseteq Nat
  BY RequestKnown
<1>3. CASE q.vals.tok # 0
  <2>1. rs' = Moved(r, "save") /\ fresh' = fresh
    BY <1>3 DEF Ses!SessionIssue, Ses!Goes, Moved
  <2> QED  BY <1>1, <2>1, Advances
<1>4. CASE q.vals.tok = 0
  <2>1. ~q.loadOK /\ q.vals = Ses!Empty /\ q.new
    BY <1>1, <1>2, <1>4 DEF RequestOk
  <2> DEFINE w == [q.vals EXCEPT !.tok = fresh + 1]
             s == [q EXCEPT !.pc = "save", !.vals = w, !.written = TRUE, !.age = "short"]
  <2>2. fresh < MaxFresh /\ fresh' = fresh + 1
    BY <1>4 DEF Ses!SessionIssue
  <2>3. rs' = [rs EXCEPT ![r] = [q EXCEPT !.pc = "save", !.vals.tok = fresh', !.written = TRUE,
                                          !.age = IF q.new THEN "short" ELSE @]]
    BY <1>4 DEF Ses!SessionIssue, Ses!Goes
  <2>4. rs' = [rs EXCEPT ![r] = s]
    BY <2>1, <2>2, <2>3
  <2>5. w \in SessionData /\ w.tok # 0 /\ w.in = FALSE
    <3>1. q.vals \in SessionData /\ q.vals.in = FALSE /\ fresh + 1 \in Nat /\ fresh + 1 # 0
      BY <1>2, <2>1 DEF Ses!Empty
    <3> HIDE DEF q
    <3> QED  BY <3>1 DEF SessionData
  <2> HIDE DEF w
  <2>6. /\ s \in SessionReq /\ s.pc = "save" /\ s.op = q.op /\ s.id = q.id /\ s.vals = w /\ s.new = q.new
        /\ s.loadOK = q.loadOK /\ s.written = TRUE /\ s.destroy = q.destroy
        /\ s.age = "short" /\ s.err = q.err /\ s.old = q.old /\ s.cookie = q.cookie
    <3>1. q \in SessionReq
      BY <1>2
    <3> HIDE DEF q
    <3> QED  BY <2>5, <3>1 DEF SessionReq
  <2> HIDE DEF s
  <2>7. RequestOk(s, Kept, unrotated, fresh)
    BY <1>1, <1>2, <2>1, <2>5, <2>6 DEF RequestOk
  <2>8. Kept' = Kept /\ unrotated' = unrotated
    BY <1>1 DEF Kept
  <2>9. RequestOk(s, Kept', unrotated', fresh')
    BY <1>2, <2>2, <2>6, <2>7, <2>8, RequestStaysOk
  <2>10. StoredOk' /\ Ses!SessionKept' /\ store' \in [Ses!Id -> SUBSET StoredData]
    BY <1>1 DEF SessionInv, SessionTypes, StoredOk, Ses!SessionKept
  <2>11. \A x \in {jar'.cookie, s.id, s.old} \cup s.cookie :
          x = 0 \/ x = jar.cookie \/ x = rs[r].id \/ x = rs[r].old \/ x \in rs[r].cookie \/ x > fresh
    BY <1>1, <2>6
  <2>12. /\ sliding' = sliding /\ alive' = alive /\ made' = made
         /\ unrotated' = unrotated /\ blind' = blind /\ jar' = jar
    BY <1>1
  <2>13. fresh <= fresh' /\ fresh' \in 0..MaxFresh /\ jar.cookie <= fresh'
    BY <1>2, <2>2, NumbersSmall
  <2> QED  BY <1>2, <2>4, <2>6, <2>9, <2>10, <2>11, <2>12, <2>13, RequestSteps
<1> QED  BY <1>3, <1>4

LEMMA LogoutKeeps ==
  ASSUME SessionInv, NEW r \in Req, Ses!Logout(r)
  PROVE  SessionInv'
<1> DEFINE q == rs[r]
           s == [q EXCEPT !.pc = "save", !.destroy = TRUE, !.written = TRUE]
<1>1. /\ q.pc = "chain" /\ UNCHANGED <<store, jar, fresh, sliding, made, unrotated, blind>>
      /\ alive' = alive \ {q.id} /\ q.vals.tok # 0
  BY DEF Ses!Logout, Ses!At, Ses!SessionCheck
<1>2. /\ q \in SessionReq /\ RequestOk(q, Kept, unrotated, fresh)
      /\ fresh \in Nat /\ fresh <= MaxFresh /\ jar.cookie \in Nat /\ jar.tok \in Nat /\ jar.cookie <= fresh
      /\ q.id \in Nat /\ q.old \in Nat /\ q.cookie \subseteq Nat
  BY RequestKnown
<1>3. q.loadOK
  BY <1>1, <1>2 DEF RequestOk, Ses!Empty
<1>4. rs' = [rs EXCEPT ![r] = s]
  BY DEF Ses!Logout, Ses!Goes, Ses!Destroyed
<1>5. /\ s \in SessionReq /\ s.pc = "save" /\ s.op = q.op /\ s.id = q.id /\ s.vals = q.vals /\ s.new = q.new
      /\ s.loadOK = q.loadOK /\ s.written = TRUE /\ s.destroy = TRUE
      /\ s.age = q.age /\ s.err = q.err /\ s.old = q.old /\ s.cookie = q.cookie
  <2>1. q \in SessionReq
    BY <1>2
  <2> HIDE DEF q
  <2> QED  BY <2>1 DEF SessionReq
<1> HIDE DEF s
<1>6. Kept' = Kept \ {q.id} /\ q.id \notin Kept'
  BY <1>1 DEF Kept
<1>7. RequestOk(s, Kept', unrotated', fresh')
  BY <1>1, <1>2, <1>3, <1>5, <1>6 DEF RequestOk
<1>8. StoredOk' /\ Ses!SessionKept' /\ store' \in [Ses!Id -> SUBSET StoredData]
  BY <1>1 DEF SessionInv, SessionTypes, StoredOk, Ses!SessionKept
<1>9. \A x \in {jar'.cookie, s.id, s.old} \cup s.cookie :
        x = 0 \/ x = jar.cookie \/ x = rs[r].id \/ x = rs[r].old \/ x \in rs[r].cookie \/ x > fresh
  BY <1>1, <1>5
<1>10. /\ sliding' = sliding /\ made' = made /\ fresh' = fresh /\ fresh' \in 0..MaxFresh
       /\ unrotated' = unrotated /\ blind' = blind /\ jar' = jar
       /\ fresh <= fresh' /\ jar'.cookie <= fresh' /\ \A x \in alive' : x \in alive
  BY <1>1, <1>2, NumbersSmall
<1> QED  BY <1>2, <1>4, <1>5, <1>7, <1>8, <1>9, <1>10, RequestSteps

\* The new id is a number nobody has seen.
LEMMA EstablishLoginSessionKeeps ==
  ASSUME SessionInv, NEW r \in Req, Ses!EstablishLoginSession(r)
  PROVE  SessionInv'
<1> DEFINE q == rs[r]
           w == [tok |-> fresh + 1, in |-> TRUE]
           s == [q EXCEPT !.pc = "rotate", !.vals = w, !.old = q.id, !.id = fresh + 2]
<1>1. /\ q.pc = "chain" /\ UNCHANGED <<store, jar, sliding, alive, unrotated, blind>>
      /\ q.op = "register" => ~q.vals.in
      /\ q.vals.tok # 0 /\ fresh + 1 < MaxFresh /\ fresh' = fresh + 2
      /\ rs' = [rs EXCEPT ![r] = s] /\ made' = made \cup {fresh + 2}
  BY DEF Ses!EstablishLoginSession, Ses!At, Ses!Goes, Ses!SessionCheck, Ses!RequireAnonymous
<1>2. /\ q \in SessionReq /\ RequestOk(q, Kept, unrotated, fresh)
      /\ fresh \in Nat /\ fresh <= MaxFresh /\ jar.cookie \in Nat /\ jar.tok \in Nat /\ jar.cookie <= fresh
      /\ q.id \in Nat /\ q.old \in Nat /\ q.cookie \subseteq Nat
  BY RequestKnown
<1>3. q.loadOK
  BY <1>1, <1>2 DEF RequestOk, Ses!Empty
<1>4. w \in SessionData /\ w.in /\ w.tok # 0 /\ fresh + 2 \in Nat
  BY <1>2 DEF SessionData
<1> HIDE DEF w
<1>5. /\ s \in SessionReq /\ s.pc = "rotate" /\ s.op = q.op /\ s.id = fresh + 2 /\ s.vals = w /\ s.new = q.new
      /\ s.loadOK = q.loadOK /\ s.written = q.written /\ s.destroy = q.destroy
      /\ s.age = q.age /\ s.err = q.err /\ s.old = q.id /\ s.cookie = q.cookie
  <2>1. q \in SessionReq /\ q.id \in Nat
    BY <1>2
  <2> HIDE DEF q
  <2> QED  BY <1>4, <2>1 DEF SessionReq
<1> HIDE DEF s
<1>6. Kept' = Kept /\ unrotated' = unrotated
  BY <1>1 DEF Kept
<1>7. q.id <= fresh /\ q.id # 0 /\ \A x \in q.cookie : x <= fresh
  BY <1>2, <1>3 DEF RequestOk
<1>8. s.id <= fresh' /\ s.old <= fresh' /\ s.old # s.id /\ s.old # 0 /\ \A x \in s.cookie : x <= fresh'
  BY <1>1, <1>2, <1>5, <1>7
<1>9. s.op = "register" => s.old \notin Kept
  BY <1>1, <1>2, <1>3, <1>5 DEF RequestOk
<1>10. s.id # 0
  BY <1>2, <1>5
<1>11. RequestOk(s, Kept', unrotated', fresh')
  BY <1>1, <1>2, <1>3, <1>4, <1>5, <1>6, <1>8, <1>9, <1>10 DEF RequestOk
<1>12. Ses!SessionKept' /\ store' \in [Ses!Id -> SUBSET StoredData]
  BY <1>1 DEF SessionInv, SessionTypes, Ses!SessionKept
<1>13. StoredOk'
  BY <1>1 DEF SessionInv, StoredOk
<1>14. \A x \in {jar'.cookie, s.id, s.old} \cup s.cookie :
        x = 0 \/ x = jar.cookie \/ x = rs[r].id \/ x = rs[r].old \/ x \in rs[r].cookie \/ x > fresh
  BY <1>1, <1>2, <1>5
<1>15. /\ sliding' = sliding /\ made \subseteq made' /\ fresh' \in 0..MaxFresh
       /\ unrotated' = unrotated /\ blind' = blind /\ jar' = jar
       /\ fresh <= fresh' /\ jar'.cookie <= fresh' /\ \A x \in alive' : x \in alive
       /\ s.id > fresh /\ s.id \in made'
  BY <1>1, <1>2, <1>5, NumbersSmall
<1> QED  BY <1>1, <1>2, <1>5, <1>11, <1>12, <1>13, <1>14, <1>15, RequestSteps

\* At most the key i changed, and holds v with the age a.
Stores(i, v, a) ==
  \A j \in Ses!Id : store'[j] = store[j] \/
     (j = i /\ \E d \in StoredData : store'[j] = {d} /\ d.tok = v.tok /\ d.in = v.in /\ d.ttl = a)

\* What SET leaves in the store.
LEMMA WrittenIs ==
  ASSUME SessionInv, NEW o, NEW i, NEW v \in SessionData, NEW a \in {"short", "default"},
         store' = Ses!Written(o, i, v, a)
  PROVE  /\ store' \in [Ses!Id -> SUBSET StoredData]
         /\ Stores(i, v, a)
         /\ o # "fail" /\ i \in Ses!Id => \E d \in StoredData : store'[i] = {d} /\ d.in = v.in
<1> DEFINE d == [tok |-> v.tok, in |-> v.in, ttl |-> a]
<1>1. store \in [Ses!Id -> SUBSET StoredData]
  BY DEF SessionInv, SessionTypes
<1>2. d \in StoredData /\ d.tok = v.tok /\ d.in = v.in /\ d.ttl = a
  BY DEF StoredData, SessionData
<1>3. store' = [store EXCEPT ![i] = IF o = "fail" THEN @ ELSE {d}]
  BY DEF Ses!Written
<1> HIDE DEF d
<1>4. \A j \in Ses!Id : store'[j] = store[j] \/ (j = i /\ store'[j] = {d})
  BY <1>1, <1>3
<1>5. store' \in [Ses!Id -> SUBSET StoredData]
  BY <1>1, <1>2, <1>3
<1>6. o # "fail" /\ i \in Ses!Id => store'[i] = {d}
  BY <1>1, <1>3
<1> QED  BY <1>2, <1>4, <1>5, <1>6 DEF Stores

\* Data of the right kind under a key that may hold it keeps what is stored.
LEMMA WriteKeeps ==
  ASSUME SessionInv, NEW i, NEW v \in SessionData, NEW a \in {"short", "default"},
         Stores(i, v, a),
         made \subseteq made', unrotated \subseteq unrotated', sliding' = sliding,
         v.tok # 0, v.in => i \in made' \cup unrotated', a = "short" <=> ~v.in,
         \A x \in alive' \ blind' : x \in Kept \/ \E d \in StoredData : store'[x] = {d} /\ d.in,
         i \in alive' \ blind' => v.in,
         alive' \subseteq Ses!Id
  PROVE  StoredOk' /\ Ses!SessionKept'
<1>1. StoredOk'
  <2> SUFFICES ASSUME NEW j \in Ses!Id, NEW d \in store'[j]
               PROVE  /\ d.tok # 0 /\ (d.in => j \in made' \cup unrotated')
                      /\ ~sliding => (d.ttl = "short" <=> ~d.in)
    BY DEF StoredOk
  <2>1. CASE store'[j] = store[j]
    BY <2>1 DEF SessionInv, StoredOk
  <2>2. CASE store'[j] # store[j]
    BY <2>2 DEF Stores
  <2> QED  BY <2>1, <2>2
<1>2. Ses!SessionKept'
  <2> SUFFICES ASSUME NEW j \in alive' \ blind' PROVE store'[j] # {} /\ \A d \in store'[j] : d.in
    BY DEF Ses!SessionKept
  <2>1. CASE j \in Kept /\ store'[j] = store[j]
    BY <2>1 DEF SessionInv, Ses!SessionKept, Kept
  <2>2. CASE store'[j] # store[j]
    BY <2>2 DEF Stores
  <2>3. CASE j \notin Kept
    BY <2>3
  <2> QED  BY <2>1, <2>2, <2>3
<1> QED  BY <1>1, <1>2

\* A Rotate() that succeeds starts the login its SET stored; after one that
\* fails the login is written under the old id, or the session is destroyed.
LEMMA RotateKeeps ==
  ASSUME SessionInv, NEW r \in Req, Ses!Rotate(r)
  PROVE  SessionInv'
<1> DEFINE q == rs[r]
<1>1. q.pc = "rotate" /\ UNCHANGED <<jar, fresh, sliding, made, blind>>
  BY DEF Ses!Rotate, Ses!At
<1>2. /\ q \in SessionReq /\ RequestOk(q, Kept, unrotated, fresh) /\ q.vals \in SessionData
      /\ fresh \in Nat /\ fresh <= MaxFresh /\ jar.cookie \in Nat /\ jar.tok \in Nat /\ jar.cookie <= fresh
      /\ q.id \in Nat /\ q.old \in Nat /\ q.cookie \subseteq Nat
  BY RequestKnown
<1>3. /\ q.loadOK /\ q.vals.in /\ q.vals.tok # 0 /\ q.old # q.id /\ q.old # 0 /\ q.id # 0 /\ ~q.destroy
      /\ q.age = "unset" /\ q.id <= fresh /\ q.old <= fresh /\ ~q.err
      /\ q.op = "register" => q.old \notin Kept
      /\ \A x \in q.cookie : x <= fresh
  BY <1>1, <1>2 DEF RequestOk
<1>4. q.id \in made /\ q.id \notin alive
  BY <1>1 DEF SessionInv, RotatingSecret, Secret
<1>5. q.id \in Ses!Id /\ alive \subseteq Ses!Id
  BY <1>2, <1>3, NumbersSmall DEF SessionInv, SessionTypes
<1>6. PICK o \in Ses!Outcome("set") :
        /\ store' = Ses!Written(o, q.id, q.vals, "default")
        /\ IF o = "ok"
           THEN /\ rs' = [rs EXCEPT ![r] = [q EXCEPT !.pc = "unlink", !.cookie = {q.id}, !.age = "unset",
                                                     !.new = TRUE, !.written = FALSE]]
                /\ alive' = (alive \ {q.old}) \cup {q.id}
                /\ unrotated' = unrotated
           ELSE /\ LET s == [q EXCEPT !.pc = "save", !.id = q.old, !.written = TRUE]
                   IN  rs' = [rs EXCEPT ![r] = IF s.op = "register" THEN Ses!Destroyed(s) ELSE s]
                /\ unrotated' = unrotated \cup {q.old}
                /\ alive' = alive
  BY DEF Ses!Rotate, Ses!Goes
<1>7. o = "ok" => o # "fail"
  OBVIOUS
<1>8. /\ store' \in [Ses!Id -> SUBSET StoredData]
      /\ Stores(q.id, q.vals, "default")
      /\ o = "ok" => \E d \in StoredData : store'[q.id] = {d} /\ d.in
  <2>1. store' = Ses!Written(o, q.id, q.vals, "default")
    BY <1>6
  <2>2. q.vals \in SessionData /\ q.vals.in = TRUE
    BY <1>2, <1>3 DEF SessionData
  <2> HIDE DEF q
  <2> QED  BY <1>5, <1>7, <2>1, <2>2, WrittenIs
<1>9. CASE o = "ok"
  <2> DEFINE s == [q EXCEPT !.pc = "unlink", !.cookie = {q.id}, !.age = "unset", !.new = TRUE, !.written = FALSE]
  <2>1. rs' = [rs EXCEPT ![r] = s] /\ alive' = (alive \ {q.old}) \cup {q.id} /\ unrotated' = unrotated
    BY <1>6, <1>9
  <2>2. /\ s \in SessionReq /\ s.pc = "unlink" /\ s.op = q.op /\ s.id = q.id /\ s.vals = q.vals /\ s.new = TRUE
        /\ s.loadOK = q.loadOK /\ s.written = FALSE /\ s.destroy = q.destroy
        /\ s.age = "unset" /\ s.err = q.err /\ s.old = q.old /\ s.cookie = {q.id}
    <3>1. q \in SessionReq /\ q.id \in Nat
      BY <1>2
    <3> HIDE DEF q
    <3> QED  BY <3>1 DEF SessionReq
  <2> HIDE DEF s
  <2>3. q.old \notin Kept' /\ \A x \in alive' \ blind' : x \in Kept \/ x = q.id
    BY <1>1, <1>3, <2>1 DEF Kept
  <2>4. RequestOk(s, Kept', unrotated', fresh')
    BY <1>1, <1>3, <2>2, <2>3 DEF RequestOk
  <2>5. alive' \subseteq Ses!Id
    BY <1>5, <2>1
  <2>6. \A x \in alive' \ blind' : x \in Kept \/ \E d \in StoredData : store'[x] = {d} /\ d.in
    BY <1>8, <1>9, <2>3
  <2>7. StoredOk' /\ Ses!SessionKept'
    <3>1. made \subseteq made' /\ unrotated \subseteq unrotated' /\ sliding' = sliding /\ q.id \in made'
      BY <1>1, <1>4, <2>1
    <3> DEFINE a == "default"
    <3>2. q.vals \in SessionData /\ q.vals.in /\ q.vals.tok # 0 /\ q.id \in made'
      BY <1>2, <1>3, <3>1
    <3>3. a \in {"short", "default"} /\ a # "short" /\ Stores(q.id, q.vals, a)
      BY <1>8
    <3> HIDE DEF q, a
    <3> QED  BY <2>5, <2>6, <3>1, <3>2, <3>3, WriteKeeps
  <2>8. \A x \in {jar'.cookie, s.id, s.old} \cup s.cookie :
          x = 0 \/ x = jar.cookie \/ x = rs[r].id \/ x = rs[r].old \/ x \in rs[r].cookie \/ x > fresh
    BY <1>1, <2>2
  <2>9. /\ sliding' = sliding /\ made' = made /\ fresh' \in 0..MaxFresh
        /\ unrotated' = unrotated /\ blind' = blind /\ jar' = jar
        /\ fresh <= fresh' /\ jar'.cookie <= fresh'
        /\ \A x \in alive' : x \in alive \/ (rs[r].pc = "rotate" /\ x = rs[r].id)
    BY <1>1, <1>2, <2>1, NumbersSmall
  <2> QED  BY <1>2, <1>8, <2>1, <2>2, <2>4, <2>7, <2>8, <2>9, RequestSteps
<1>10. CASE o # "ok"
  <2> DEFINE b == q.op = "register"
             s == [q EXCEPT !.pc = "save", !.id = q.old, !.written = TRUE, !.destroy = b]
  <2>1. rs' = [rs EXCEPT ![r] = s] /\ alive' = alive /\ unrotated' = unrotated \cup {q.old}
    <3>1. q.destroy = FALSE /\ q \in SessionReq
      BY <1>2, <1>3 DEF SessionReq
    <3>2. alive' = alive /\ unrotated' = unrotated \cup {q.old}
      BY <1>6, <1>10
    <3> DEFINE t == [q EXCEPT !.pc = "save", !.id = q.old, !.written = TRUE]
    <3>3. rs' = [rs EXCEPT ![r] = IF t.op = "register" THEN [t EXCEPT !.destroy = TRUE, !.written = TRUE] ELSE t]
      BY <1>6, <1>10 DEF Ses!Destroyed
    <3> HIDE DEF q
    <3>4. (IF t.op = "register" THEN [t EXCEPT !.destroy = TRUE, !.written = TRUE] ELSE t) = s
      BY <3>1 DEF SessionReq
    <3> QED  BY <3>2, <3>3, <3>4
  <2>2. b \in BOOLEAN /\ (b => q.old \notin Kept)
    BY <1>3
  <2> HIDE DEF b
  <2>3. /\ s \in SessionReq /\ s.pc = "save" /\ s.op = q.op /\ s.id = q.old /\ s.vals = q.vals /\ s.new = q.new
        /\ s.loadOK = q.loadOK /\ s.written = TRUE /\ s.destroy = b
        /\ s.age = q.age /\ s.err = q.err /\ s.old = q.old /\ s.cookie = q.cookie
    <3>1. q \in SessionReq /\ q.old \in Nat
      BY <1>2
    <3> HIDE DEF q
    <3> QED  BY <2>2, <3>1 DEF SessionReq
  <2> HIDE DEF s
  <2>4. Kept' = Kept
    BY <1>1, <2>1 DEF Kept
  <2>5. RequestOk(s, Kept', unrotated', fresh')
    BY <1>1, <1>3, <2>1, <2>2, <2>3, <2>4 DEF RequestOk
  <2>6. \A x \in alive' \ blind' : x \in Kept
    BY <2>4 DEF Kept
  <2>7. StoredOk' /\ Ses!SessionKept'
    <3>1. made \subseteq made' /\ unrotated \subseteq unrotated' /\ sliding' = sliding /\ q.id \in made'
      BY <1>1, <1>4, <2>1
    <3> DEFINE a == "default"
    <3>2. q.vals \in SessionData /\ q.vals.in /\ q.vals.tok # 0 /\ q.id \in made'
      BY <1>2, <1>3, <3>1
    <3>3. a \in {"short", "default"} /\ a # "short" /\ Stores(q.id, q.vals, a)
      BY <1>8
    <3>4. alive' \subseteq Ses!Id
      BY <1>5, <2>1
    <3> HIDE DEF q, a
    <3> QED  BY <2>6, <3>1, <3>2, <3>3, <3>4, WriteKeeps
  <2>8. \A x \in {jar'.cookie, s.id, s.old} \cup s.cookie :
          x = 0 \/ x = jar.cookie \/ x = rs[r].id \/ x = rs[r].old \/ x \in rs[r].cookie \/ x > fresh
    BY <1>1, <2>3
  <2>9. /\ sliding' = sliding /\ made' = made /\ fresh' \in 0..MaxFresh
        /\ unrotated \subseteq unrotated' /\ blind' = blind /\ jar' = jar
        /\ fresh <= fresh' /\ jar'.cookie <= fresh' /\ \A x \in alive' : x \in alive
    BY <1>1, <1>2, <2>1, NumbersSmall
  <2> QED  BY <1>2, <1>8, <2>1, <2>3, <2>5, <2>7, <2>8, <2>9, RequestSteps
<1> QED  BY <1>9, <1>10

\* A key that holds no kept login may be deleted.
LEMMA DeleteKeeps ==
  ASSUME SessionInv, NEW i, store' \in [Ses!Id -> SUBSET StoredData],
         \A j \in Ses!Id : store'[j] = store[j] \/ (j = i /\ store'[j] = {}),
         UNCHANGED <<made, unrotated, sliding>>, alive' \ blind' \subseteq Kept, i \notin alive' \ blind'
  PROVE  StoredOk' /\ Ses!SessionKept'
<1>1. StoredOk'
  BY DEF SessionInv, StoredOk
<1>2. alive \subseteq Ses!Id
  BY NumbersSmall DEF SessionInv, SessionTypes
<1>3. Ses!SessionKept'
  BY <1>2 DEF SessionInv, Ses!SessionKept, Kept
<1> QED  BY <1>1, <1>3

LEMMA RotateUnlinksKeeps ==
  ASSUME SessionInv, NEW r \in Req, Ses!RotateUnlinks(r)
  PROVE  SessionInv'
<1> DEFINE q == rs[r]
           s == [q EXCEPT !.pc = "save"]
<1>1. /\ q.pc = "unlink" /\ UNCHANGED <<jar, fresh, sliding, alive, made, unrotated, blind>>
      /\ rs' = [rs EXCEPT ![r] = s]
      /\ \E o \in Ses!Outcome("del") : store' = [store EXCEPT ![q.old] = IF o = "fail" THEN @ ELSE {}]
  BY DEF Ses!RotateUnlinks, Ses!At, Ses!Goes, Ses!history
<1>2. /\ q \in SessionReq /\ RequestOk(q, Kept, unrotated, fresh)
      /\ fresh \in Nat /\ fresh <= MaxFresh /\ jar.cookie \in Nat /\ jar.tok \in Nat /\ jar.cookie <= fresh
  BY RequestKnown
<1>3. q.old \notin Kept
  BY <1>1, <1>2 DEF RequestOk
<1>4. store \in [Ses!Id -> SUBSET StoredData]
  BY DEF SessionInv, SessionTypes
<1>5. /\ store' \in [Ses!Id -> SUBSET StoredData]
      /\ \A j \in Ses!Id : store'[j] = store[j] \/ (j = q.old /\ store'[j] = {})
  BY <1>1, <1>4
<1>6. /\ s \in SessionReq /\ s.pc = "save" /\ s.op = q.op /\ s.id = q.id /\ s.vals = q.vals /\ s.new = q.new
      /\ s.loadOK = q.loadOK /\ s.written = q.written /\ s.destroy = q.destroy
      /\ s.age = q.age /\ s.err = q.err /\ s.old = q.old /\ s.cookie = q.cookie
  <2>1. q \in SessionReq
    BY <1>2
  <2> HIDE DEF q
  <2> QED  BY <2>1 DEF SessionReq
<1> HIDE DEF s
<1>7. Kept' = Kept /\ unrotated' = unrotated /\ fresh' = fresh /\ alive' \ blind' = Kept
  BY <1>1 DEF Kept
<1>8. RequestOk(s, Kept', unrotated', fresh')
  BY <1>1, <1>2, <1>6, <1>7 DEF RequestOk
<1>9. StoredOk' /\ Ses!SessionKept'
  <2>1. UNCHANGED <<made, unrotated, sliding>>
    BY <1>1
  <2> HIDE DEF q
  <2> QED  BY <1>3, <1>5, <1>7, <2>1, DeleteKeeps
<1>10. \A x \in {jar'.cookie, s.id, s.old} \cup s.cookie :
        x = 0 \/ x = jar.cookie \/ x = rs[r].id \/ x = rs[r].old \/ x \in rs[r].cookie \/ x > fresh
  BY <1>1, <1>6
<1>11. /\ sliding' = sliding /\ made' = made /\ fresh' \in 0..MaxFresh
       /\ unrotated' = unrotated /\ blind' = blind /\ jar' = jar
       /\ fresh <= fresh' /\ jar'.cookie <= fresh' /\ \A x \in alive' : x \in alive
  BY <1>1, <1>2, NumbersSmall
<1> QED  BY <1>1, <1>2, <1>5, <1>6, <1>8, <1>9, <1>10, <1>11, RequestSteps

\* Only a session that was destroyed is deleted.
LEMMA SaveDeletesKeeps ==
  ASSUME SessionInv, NEW r \in Req, Ses!SaveDeletes(r)
  PROVE  SessionInv'
<1> DEFINE q == rs[r]
<1>1. /\ q.pc = "save" /\ q.written /\ (q.destroy \/ q.vals = Ses!Empty)
      /\ UNCHANGED <<jar, fresh, sliding, alive, made, unrotated, blind>>
  BY DEF Ses!SaveDeletes, Ses!Saves, Ses!At, Ses!history
<1>2. PICK o \in IF q.id = 0 THEN {"ok"} ELSE Ses!Outcome("del") :
        /\ store' = [i \in Ses!Id |-> IF i = q.id /\ o # "fail" THEN {} ELSE store[i]]
        /\ rs' = [rs EXCEPT ![r] = [q EXCEPT !.pc = "respond", !.cookie = IF o = "ok" THEN {0} ELSE @]]
  BY DEF Ses!SaveDeletes, Ses!Goes
<1>3. /\ q \in SessionReq /\ RequestOk(q, Kept, unrotated, fresh) /\ q.cookie \subseteq Nat
      /\ fresh \in Nat /\ fresh <= MaxFresh /\ jar.cookie \in Nat /\ jar.tok \in Nat /\ jar.cookie <= fresh
  BY RequestKnown
<1>4. q.destroy
  <2>1. ~Ses!Empty.in /\ Ses!Empty.tok = 0
    BY DEF Ses!Empty
  <2> QED  BY <1>1, <1>3, <2>1 DEF RequestOk
<1>5. q.id \notin Kept
  BY <1>3, <1>4 DEF RequestOk
<1>6. store \in [Ses!Id -> SUBSET StoredData]
  BY DEF SessionInv, SessionTypes
<1>7. /\ store' \in [Ses!Id -> SUBSET StoredData]
      /\ \A j \in Ses!Id : store'[j] = store[j] \/ (j = q.id /\ store'[j] = {})
  BY <1>2, <1>6
<1> DEFINE k == IF o = "ok" THEN {0} ELSE q.cookie
           s == [q EXCEPT !.pc = "respond", !.cookie = k]
<1>8. rs' = [rs EXCEPT ![r] = s]
  BY <1>2
<1>9. k \subseteq Nat /\ (\A x \in k : x = 0 \/ x \in q.cookie) /\ \A x \in k : x <= fresh
  BY <1>3 DEF RequestOk
<1> HIDE DEF k
<1>10. /\ s \in SessionReq /\ s.pc = "respond" /\ s.op = q.op /\ s.id = q.id /\ s.vals = q.vals /\ s.new = q.new
       /\ s.loadOK = q.loadOK /\ s.written = q.written /\ s.destroy = q.destroy
       /\ s.age = q.age /\ s.err = q.err /\ s.old = q.old /\ s.cookie = k
  <2>1. q \in SessionReq
    BY <1>3
  <2> HIDE DEF q
  <2> QED  BY <1>9, <2>1 DEF SessionReq
<1> HIDE DEF s
<1>11. Kept' = Kept /\ unrotated' = unrotated /\ fresh' = fresh /\ alive' \ blind' = Kept
  BY <1>1 DEF Kept
<1>12. RequestOk(s, Kept', unrotated', fresh')
  BY <1>1, <1>3, <1>5, <1>9, <1>10, <1>11 DEF RequestOk
<1>13. StoredOk' /\ Ses!SessionKept'
  <2>1. UNCHANGED <<made, unrotated, sliding>>
    BY <1>1
  <2> HIDE DEF q
  <2> QED  BY <1>5, <1>7, <1>11, <2>1, DeleteKeeps
<1>14. \A x \in {jar'.cookie, s.id, s.old} \cup s.cookie :
        x = 0 \/ x = jar.cookie \/ x = rs[r].id \/ x = rs[r].old \/ x \in rs[r].cookie \/ x > fresh
  BY <1>1, <1>9, <1>10
<1>15. /\ sliding' = sliding /\ made' = made /\ fresh' \in 0..MaxFresh
       /\ unrotated' = unrotated /\ blind' = blind /\ jar' = jar
       /\ fresh <= fresh' /\ jar'.cookie <= fresh' /\ \A x \in alive' : x \in alive
  BY <1>1, <1>3, NumbersSmall
<1> QED  BY <1>3, <1>7, <1>8, <1>10, <1>12, <1>13, <1>14, <1>15, RequestSteps

\* What is saved under a kept login is a login, unless the request could not
\* load it, and then it is blind.
LEMMA SaveWritesKeeps ==
  ASSUME SessionInv, NEW r \in Req, Ses!SaveWrites(r)
  PROVE  SessionInv'
<1> DEFINE q == rs[r]
           i == IF q.id = 0 THEN fresh' ELSE q.id
           a == Ses!EffectiveMaxAge(q)
<1>1. /\ q.pc = "save" /\ q.written /\ ~q.destroy
      /\ UNCHANGED <<jar, sliding, alive, made, unrotated>>
      /\ q.id = 0 => fresh < MaxFresh
      /\ fresh' = IF q.id = 0 THEN fresh + 1 ELSE fresh
  BY DEF Ses!SaveWrites, Ses!Saves, Ses!At
<1>2. PICK o \in Ses!Outcome("set") :
        /\ store' = Ses!Written(o, i, q.vals, a)
        /\ rs' = [rs EXCEPT ![r] = [q EXCEPT !.pc = "respond", !.id = i,
                                             !.cookie = IF o = "ok" THEN {i} ELSE @]]
        /\ blind' = IF q.err THEN blind \cup {i} ELSE blind
  BY DEF Ses!SaveWrites, Ses!Goes
<1>3. /\ q \in SessionReq /\ RequestOk(q, Kept, unrotated, fresh) /\ q.cookie \subseteq Nat
      /\ q.vals \in SessionData /\ q.vals.in \in BOOLEAN /\ q.id \in Nat /\ q.old \in Nat
      /\ fresh \in Nat /\ fresh <= MaxFresh /\ jar.cookie \in Nat /\ jar.tok \in Nat /\ jar.cookie <= fresh
  BY RequestKnown
<1>4. /\ q.vals.tok # 0 /\ q.id <= fresh /\ q.old <= fresh /\ (\A x \in q.cookie : x <= fresh)
      /\ q.vals.in => q.loadOK /\ q.id \in unrotated /\ q.age = "unset" /\ q.id # 0
      /\ ~q.vals.in => q.age = "short"
      /\ q.loadOK => q.id # 0 /\ ~q.err /\ (q.id \in Kept => q.vals.in)
      /\ ~q.loadOK /\ ~q.err => q.id \notin Kept
  BY <1>1, <1>3 DEF RequestOk
<1>5. a \in {"short", "default"} /\ (a = "short" <=> ~q.vals.in)
  BY <1>4 DEF Ses!EffectiveMaxAge
<1>6. /\ fresh' \in 0..MaxFresh /\ fresh <= fresh' /\ i \in Nat /\ i <= fresh' /\ i # 0
      /\ i = q.id \/ i > fresh
      /\ q.id # 0 => i = q.id
  BY <1>1, <1>3, <1>4, NumbersSmall
<1>7. alive \subseteq 1..fresh /\ alive \subseteq Ses!Id
  BY <1>3, NumbersSmall DEF SessionInv, SessionTypes
<1> HIDE DEF i, a
<1>8. store' \in [Ses!Id -> SUBSET StoredData] /\ Stores(i, q.vals, a)
  <2>1. store' = Ses!Written(o, i, q.vals, a) /\ q.vals \in SessionData
    BY <1>2, <1>3
  <2> HIDE DEF q
  <2> QED  BY <1>5, <2>1, WrittenIs
<1>9. /\ Kept' \subseteq Kept /\ alive' \ blind' = Kept'
      /\ q.err => i \notin Kept'
      /\ \A x \in Kept : x <= fresh
  BY <1>1, <1>2, <1>3, <1>7 DEF Kept
<1>10. i \in Kept' => q.vals.in
  <2>1. CASE q.err
    BY <1>9, <2>1
  <2>2. CASE ~q.err /\ i > fresh
    BY <1>3, <1>6, <1>9, <2>2
  <2>3. CASE ~q.err /\ i = q.id
    BY <1>4, <1>9, <2>3
  <2> QED  BY <1>6, <2>1, <2>2, <2>3
<1>11. StoredOk' /\ Ses!SessionKept'
  <2>1. made' = made /\ unrotated' = unrotated /\ sliding' = sliding /\ alive' \subseteq Ses!Id
    BY <1>1, <1>7
  <2>2. \A x \in alive' \ blind' : x \in Kept
    BY <1>9
  <2>3. q.vals.tok # 0 /\ (q.vals.in => i \in made' \cup unrotated') /\ q.vals \in SessionData
    BY <1>3, <1>4, <1>6, <2>1
  <2>4. i \in alive' \ blind' => q.vals.in
    BY <1>9, <1>10
  <2> HIDE DEF q
  <2> QED  BY <1>5, <1>8, <2>1, <2>2, <2>3, <2>4, WriteKeeps
<1> DEFINE k == IF o = "ok" THEN {i} ELSE q.cookie
           s == [q EXCEPT !.pc = "respond", !.id = i, !.cookie = k]
<1>12. rs' = [rs EXCEPT ![r] = s]
  BY <1>2
<1>13. k \subseteq Nat /\ (\A x \in k : x = i \/ x \in q.cookie) /\ \A x \in k : x <= fresh'
  BY <1>3, <1>4, <1>6
<1> HIDE DEF k
<1>14. /\ s \in SessionReq /\ s.pc = "respond" /\ s.op = q.op /\ s.id = i /\ s.vals = q.vals /\ s.new = q.new
       /\ s.loadOK = q.loadOK /\ s.written = q.written /\ s.destroy = q.destroy
       /\ s.age = q.age /\ s.err = q.err /\ s.old = q.old /\ s.cookie = k
  <2>1. q \in SessionReq
    BY <1>3
  <2> HIDE DEF q
  <2> QED  BY <1>6, <1>13, <2>1 DEF SessionReq
<1> HIDE DEF s
<1>15. /\ s.id <= fresh' /\ s.old <= fresh' /\ (\A x \in s.cookie : x <= fresh')
       /\ s.loadOK => ~s.err /\ s.id # 0 /\ s.vals.tok # 0 /\ (s.id \in Kept' => s.vals.in)
       /\ ~s.destroy
  <2>1. q.old <= fresh'
    BY <1>3, <1>4, <1>6, NumbersSmall
  <2>2. s.id <= fresh' /\ s.old <= fresh' /\ (\A x \in s.cookie : x <= fresh')
    BY <1>6, <1>13, <1>14, <2>1
  <2>3. s.loadOK => ~s.err /\ s.id # 0 /\ s.vals.tok # 0 /\ (s.id \in Kept' => s.vals.in)
    BY <1>4, <1>6, <1>10, <1>14
  <2> QED  BY <1>1, <1>14, <2>2, <2>3
<1>16. ~s.loadOK /\ ~s.err => s.id \notin Kept'
  BY <1>4, <1>10, <1>14
<1>17. RequestOk(s, Kept', unrotated', fresh')
  BY <1>14, <1>15, <1>16 DEF RequestOk
<1>18. \A x \in {jar'.cookie, s.id, s.old} \cup s.cookie :
        x = 0 \/ x = jar.cookie \/ x = rs[r].id \/ x = rs[r].old \/ x \in rs[r].cookie \/ x > fresh
  BY <1>1, <1>6, <1>13, <1>14
<1>19. /\ sliding' = sliding /\ made' = made
       /\ unrotated' = unrotated /\ blind \subseteq blind' /\ jar' = jar
       /\ jar'.cookie <= fresh' /\ \A x \in alive' : x \in alive
  BY <1>1, <1>2, <1>3, <1>6, NumbersSmall
<1> QED  BY <1>3, <1>6, <1>8, <1>11, <1>12, <1>14, <1>17, <1>18, <1>19, RequestSteps

LEMMA RespondKeeps ==
  ASSUME SessionInv, NEW r \in Req, Ses!Respond(r)
  PROVE  SessionInv'
<1> DEFINE q == rs[r]
           s == Ses!NoReq
           k == IF q.cookie = {} THEN jar.cookie ELSE CHOOSE i \in q.cookie : TRUE
           t == IF q.op = "issue" THEN q.vals.tok ELSE jar.tok
<1>1. /\ UNCHANGED <<store, fresh, sliding, alive, made, unrotated, blind>>
      /\ jar' = [cookie |-> k, tok |-> t] /\ rs' = [rs EXCEPT ![r] = s]
  BY DEF Ses!Respond, Ses!Goes, Ses!history
<1>2. /\ q \in SessionReq /\ RequestOk(q, Kept, unrotated, fresh) /\ q.cookie \subseteq Nat
      /\ q.vals.tok \in Nat
      /\ fresh \in Nat /\ fresh <= MaxFresh /\ jar.cookie \in Nat /\ jar.tok \in Nat /\ jar.cookie <= fresh
  BY RequestKnown
<1>3. k = jar.cookie \/ k \in q.cookie
  OBVIOUS
<1>4. k \in Nat /\ k <= fresh /\ t \in Nat
  BY <1>2, <1>3 DEF RequestOk
<1> HIDE DEF k, t
<1>5. Ses!Empty \in SessionData
  BY DEF Ses!Empty, SessionData
<1>6. /\ s \in SessionReq /\ s.pc = "idle" /\ s.id = 0 /\ s.old = 0 /\ s.cookie = {}
      /\ s.vals = Ses!Empty /\ s.new = TRUE /\ s.loadOK = FALSE /\ ~s.written /\ ~s.destroy /\ s.age = "unset"
      /\ ~s.err
  BY <1>5 DEF Ses!NoReq, SessionReq
<1> HIDE DEF s
<1>7. Kept' = Kept /\ unrotated' = unrotated /\ fresh' = fresh
  BY <1>1 DEF Kept
<1>8. RequestOk(s, Kept', unrotated', fresh')
  BY <1>2, <1>6, <1>7 DEF RequestOk
<1>9. StoredOk' /\ Ses!SessionKept' /\ store' \in [Ses!Id -> SUBSET StoredData]
  BY <1>1 DEF SessionInv, SessionTypes, StoredOk, Ses!SessionKept
<1>10. jar'.cookie = k /\ jar'.tok = t
  BY <1>1
<1>11. \A x \in {jar'.cookie, s.id, s.old} \cup s.cookie :
        x = 0 \/ x = jar.cookie \/ x = rs[r].id \/ x = rs[r].old \/ x \in rs[r].cookie \/ x > fresh
  BY <1>3, <1>6, <1>10
<1>12. /\ sliding' = sliding /\ made' = made /\ fresh' \in 0..MaxFresh
       /\ unrotated' = unrotated /\ blind' = blind
       /\ fresh <= fresh' /\ jar'.cookie <= fresh' /\ jar'.cookie \in Nat /\ jar'.tok \in Nat
       /\ \A x \in alive' : x \in alive
  BY <1>1, <1>2, <1>4, <1>10, NumbersSmall
<1> QED  BY <1>1, <1>6, <1>8, <1>9, <1>11, <1>12, RequestSteps

LEMMA ExpireKeeps ==
  ASSUME SessionInv, NEW i \in Ses!Id, Ses!Expire(i)
  PROVE  SessionInv'
<1>1. /\ UNCHANGED <<jar, fresh, sliding, rs, unrotated, made, blind>>
      /\ store' = [store EXCEPT ![i] = {}] /\ alive' = alive \ {i}
  BY DEF Ses!Expire
<1>2. store \in [Ses!Id -> SUBSET StoredData] /\ rs \in [Req -> SessionReq] /\ fresh \in Nat
  BY NumbersSmall DEF SessionInv, SessionTypes
<1>3. /\ store' \in [Ses!Id -> SUBSET StoredData]
      /\ \A j \in Ses!Id : store'[j] = store[j] \/ (j = i /\ store'[j] = {})
  BY <1>1, <1>2
<1>4. Kept' \subseteq Kept /\ alive' \ blind' = Kept' /\ i \notin Kept'
  BY <1>1 DEF Kept
<1>5. StoredOk' /\ Ses!SessionKept'
  BY <1>1, <1>3, <1>4, DeleteKeeps
<1>6. SessionTypes'
  BY <1>1, <1>3 DEF SessionInv, SessionTypes
<1>7. RequestsOk'
  <2> SUFFICES ASSUME NEW q \in Req PROVE RequestOk(rs[q], Kept', unrotated', fresh')
    BY <1>1 DEF RequestsOk
  <2>1. RequestOk(rs[q], Kept, unrotated, fresh) /\ rs[q] \in SessionReq
    BY RequestKnown
  <2>2. \A x \in Kept' : x \in Kept
    BY <1>4
  <2> QED  BY <1>1, <1>2, <2>1, <2>2, RequestStaysOk
<1>8. RotatingSecret'
  BY <1>1 DEF SessionInv, RotatingSecret, Secret
<1> QED  BY <1>5, <1>6, <1>7, <1>8 DEF SessionInv

LEMMA SessionsKept == ASSUME SessionInv, [Ses!Next]_sessVars PROVE SessionInv'
<1>1. CASE Ses!Next
  <2>1. ASSUME NEW r \in Req, Ses!Step(r) PROVE SessionInv'
    BY <2>1, InitLoadKeeps, TouchTTLKeeps, ChainKeeps, SessionIssueKeeps, LogoutKeeps,
       EstablishLoginSessionKeeps, RotateKeeps, RotateUnlinksKeeps, SaveDeletesKeeps,
       SaveWritesKeeps, RespondKeeps DEF Ses!Step
  <2> QED  BY <1>1, <2>1, BeginSessionKeeps, ExpireKeeps DEF Ses!Next
<1>2. CASE UNCHANGED sessVars
  BY <1>2 DEF sessVars, SessionInv, SessionTypes, StoredOk, RequestsOk, Kept, RotatingSecret, Secret,
     Ses!SessionKept
<1> QED  BY <1>1, <1>2

LEMMA SessionAlways == RequestsSpec => []SessionInv
<1>1. RequestsInit => SessionInv
  BY SessionsInitially DEF RequestsInit
<1>2. SessionInv /\ [RequestsNext]_requestsVars => SessionInv'
  BY SessionsKept DEF RequestsNext, ParserPart, RoutesPart, ConnectionPart, ResourcesPart,
     SessionPart, LimiterPart, UsersPart, TimersPart, requestsVars
<1> QED  BY <1>1, <1>2, PTL DEF RequestsSpec, requestsVars

\* For any number of requests of a browser in flight and in all, and
\* whichever GET, SET and DEL fail, before or after Redis applied them: a
\* login that was answered with success is stored, as a login, until a
\* logout, a later login or its age ends it, unless a request that could not
\* load the session saved over it.
THEOREM LoginSurvives == RequestsSpec => []SessionKept
<1>1. SessionInv => SessionKept
  BY DEF SessionInv, SessionKept
<1> QED  BY <1>1, SessionAlways, PTL

\* Under the same conditions: login state is under a key Rotate() made, or
\* one whose Rotate() failed; and without sliding renewal a key has the short
\* age exactly when it holds no login.
THEOREM LoginUnderItsKey == RequestsSpec => []LoginKeyed
<1>1. SessionInv => LoginKeyed
  BY DEF SessionInv, StoredOk, LoginKeyed, Ses!LoginKeyed
<1> QED  BY <1>1, SessionAlways, PTL

-----------------------------------------------------------------------------
(* A connection *)

Response == [code : Nat, path : {"", "template", "file"}, tag : Nat, body : Nat,
             file : {Con!NoFile, FileSize}, from : Nat, to : Nat, err : BOOLEAN]

ConnectionTypes ==
  /\ req \in Request
  /\ rsp \in Response
  /\ sets \in Nat /\ reqCount \in Nat
  /\ last \in {"none", "body", "template", "file", "error", "redirect"}

\* Every handler entered is behind m_iCurHandleIndex.
InOrder ==
  /\ idx \in Nat /\ entered \in Seq(Nat)
  /\ \A i \in 1..Len(entered) : entered[i] <= idx
  /\ \A i, j \in 1..Len(entered) : i < j => entered[i] < entered[j]

\* What a response s that is ready to go out owes to the last content set.
ContentOf(s) ==
  /\ s.file = Con!NoFile \/ s.body = 0
  /\ last = "body" => s.body = sets
  /\ last = "file" /\ s.code < 400 => s.file = FileSize
  /\ last = "template" /\ s.code < 400 => s.body = sets
  /\ last \in {"none", "redirect"} /\ s.code < 400 => s.body = 0 /\ s.file = Con!NoFile
  /\ last = "error" => s.body \in {0, Con!ErrorPage}

IsRange(s) == s.from # 0 \/ s.to # 0
RangeOk(s) == IsRange(s) => s.file = FileSize /\ s.from <= s.to /\ s.to < FileSize

\* While handlers run the response is what the last of them set, and nothing
\* of an earlier one.
ContentInv ==
  /\ pc = "read" => sets = 0 /\ last = "none"
  /\ pc \in {"chain", "resource"} =>
       /\ rsp.file = Con!NoFile /\ ~IsRange(rsp)
       /\ rsp.path = IF last \in {"template", "file"} THEN last ELSE ""
       /\ rsp.err <=> last = "error"
       /\ rsp.body = IF last = "body" THEN sets ELSE 0
       /\ last = "template" => rsp.tag = sets
       /\ pc = "chain" /\ sets = 0 => last = "none"
  /\ pc = "header" => ContentOf(rsp)
  /\ rsp.file = Con!NoFile \/ rsp.body = 0

ContentLength(s) == IF s.file = Con!NoFile THEN IF s.body = 0 THEN 0 ELSE 1
                    ELSE IF IsRange(s) THEN s.to - s.from + 1 ELSE s.file

ToEnd(s) == s.file = Con!NoFile \/ ~IsRange(s) \/ s.to = FileSize - 1

\* usendfile() has sent what lies between the start of the range and offset,
\* which never passes the end of the file, in however many parts.
SendInv ==
  /\ pc \in {"header", "write", "splice"} => RangeOk(rsp)
  /\ pc \in {"write", "splice"} => length = ContentLength(rsp)
  /\ pc = "splice" => /\ ~req.head /\ rsp.file = FileSize
                      /\ offset \in rsp.from..FileSize /\ sent = offset - rsp.from
  /\ pc = "written" => IF req.head THEN sent = 0
                       ELSE sent >= length /\ (ToEnd(rsp) => sent = length)

ReuseInv ==
  /\ pc = "read" => reqCount < KeepAliveCount
  /\ pc \in {"chain", "resource"} => req.good /\ req.path = "routed"
  /\ pc \in {"header", "write", "splice", "written"} /\ (~req.good \/ req.path = "unsafe") => ~keepAlive

ConnectionInv == ConnectionTypes /\ InOrder /\ ContentInv /\ SendInv /\ ReuseInv

LEMMA ConnectionConstants ==
  /\ FileSize \in Nat /\ SizeMod \in Nat /\ Pipe \in Nat /\ Chunk \in Nat /\ KeepAliveCount \in Nat
  /\ FileSize < SizeMod /\ Pipe > 0 /\ Chunk > 0 /\ KeepAliveCount > 0
  /\ Con!NoFile = -1 /\ Con!NoFile # FileSize /\ Con!ErrorPage = 100
BY ConnectionNumbers DEF Con!NoFile, Con!ErrorPage

LEMMA BlankIs ==
  /\ Con!Blank \in Response /\ Con!Blank.code = 0 /\ Con!Blank.path = "" /\ Con!Blank.body = 0
  /\ Con!Blank.file = Con!NoFile /\ Con!Blank.from = 0 /\ Con!Blank.to = 0 /\ Con!Blank.err = FALSE
BY ConnectionConstants DEF Con!Blank, Response

LEMMA ConnectionInitially == Con!Init => ConnectionInv
<1> SUFFICES ASSUME Con!Init PROVE ConnectionInv
  OBVIOUS
<1>1. /\ pc = "read" /\ req \in Request /\ rsp = Con!Blank /\ keepAlive = FALSE /\ reqCount = 0
      /\ idx = 0 /\ entered = <<>> /\ sets = 0 /\ last = "none"
  BY DEF Con!Init
<1>2. ConnectionTypes
  BY <1>1, BlankIs DEF ConnectionTypes
<1>3. InOrder
  BY <1>1 DEF InOrder
<1>4. ContentInv /\ SendInv /\ ReuseInv
  BY <1>1, BlankIs, ConnectionConstants DEF ContentInv, SendInv, ReuseInv
<1> QED  BY <1>2, <1>3, <1>4 DEF ConnectionInv

\* A response is ready to go out.
LEMMA HeaderReady ==
  ASSUME ConnectionInv, NEW s \in Response, rsp' = s, pc' = "header",
         UNCHANGED <<req, reqCount, idx, entered, sets, last>>,
         ContentOf(s), RangeOk(s),
         (~req.good \/ req.path = "unsafe") => ~keepAlive'
  PROVE  ConnectionInv'
<1>1. ConnectionTypes'
  BY DEF ConnectionInv, ConnectionTypes
<1>2. InOrder'
  BY DEF ConnectionInv, InOrder
<1>3. ContentInv'
  BY DEF ContentInv, ContentOf
<1>4. SendInv'
  BY DEF SendInv, RangeOk, IsRange
<1>5. ReuseInv'
  BY DEF ReuseInv
<1> QED  BY <1>1, <1>2, <1>3, <1>4, <1>5 DEF ConnectionInv

\* An error page is a file or a page of its own, never both.
LEMMA ErrorPagesAre ==
  ASSUME NEW code \in Nat, NEW s \in Con!ErrorPages(code)
  PROVE  /\ s \in Response /\ s.code = code /\ ~IsRange(s) /\ RangeOk(s)
         /\ s.body \in {0, Con!ErrorPage} /\ (s.file = Con!NoFile \/ s.body = 0)
<1> DEFINE b == Con!Blank
<1>1. /\ b \in Response /\ b.body = 0 /\ b.file = Con!NoFile /\ b.from = 0 /\ b.to = 0
  BY BlankIs
<1>2. \/ s = [b EXCEPT !.code = code, !.file = FileSize]
      \/ s = [b EXCEPT !.code = code, !.body = Con!ErrorPage]
      \/ s = [b EXCEPT !.code = code]
  BY DEF Con!ErrorPages
<1> HIDE DEF b
<1>3. /\ s \in Response /\ s.code = code /\ s.from = 0 /\ s.to = 0
      /\ s.body \in {0, Con!ErrorPage} /\ (s.file = Con!NoFile \/ s.body = 0)
  <2>1. CASE s = [b EXCEPT !.code = code, !.file = FileSize]
    BY <1>1, <2>1 DEF Response
  <2>2. CASE s = [b EXCEPT !.code = code, !.body = Con!ErrorPage]
    <3>1. Con!ErrorPage \in Nat
      BY ConnectionConstants
    <3> QED  BY <1>1, <2>2, <3>1 DEF Response
  <2>3. CASE s = [b EXCEPT !.code = code]
    BY <1>1, <2>3 DEF Response
  <2> QED  BY <1>2, <2>1, <2>2, <2>3
<1> QED  BY <1>3 DEF IsRange, RangeOk

LEMMA AnswersKeep ==
  ASSUME ConnectionInv, Con!BadRequest \/ Con!SlashRedirect \/ Con!NoRoute
  PROVE  ConnectionInv'
<1>1. pc = "read" /\ last = "none" /\ sets = 0 /\ pc' = "header"
  BY DEF ConnectionInv, ContentInv, Con!BadRequest, Con!SlashRedirect, Con!NoRoute, Con!Answer
<1>2. UNCHANGED <<req, reqCount, idx, entered, sets, last>>
  BY DEF Con!BadRequest, Con!SlashRedirect, Con!NoRoute, Con!Answer, Con!chainVars
<1>3. CASE Con!BadRequest
  <2>1. PICK s \in Con!ErrorPages(400) : rsp' = s /\ keepAlive' = FALSE
    BY <1>3 DEF Con!BadRequest, Con!Answer
  <2>2. s \in Response /\ s.code = 400 /\ RangeOk(s) /\ (s.file = Con!NoFile \/ s.body = 0)
    BY ErrorPagesAre
  <2>3. ContentOf(s)
    BY <1>1, <2>2 DEF ContentOf
  <2> QED  BY <1>1, <1>2, <2>1, <2>2, <2>3, HeaderReady
<1>4. CASE Con!SlashRedirect
  <2> DEFINE s == [Con!Blank EXCEPT !.code = 301]
  <2>1. rsp' = s /\ req.good /\ req.path = "slash"
    BY <1>4 DEF Con!SlashRedirect, Con!Answer
  <2>2. /\ s \in Response /\ s.body = 0 /\ s.file = Con!NoFile /\ s.from = 0 /\ s.to = 0
    <3> DEFINE b == Con!Blank
    <3>1. /\ b \in Response /\ b.body = 0 /\ b.file = Con!NoFile /\ b.from = 0 /\ b.to = 0
      BY BlankIs
    <3> HIDE DEF b
    <3>2. ASSUME NEW n \in Nat, s = [b EXCEPT !.code = n]
          PROVE  /\ s \in Response /\ s.body = 0 /\ s.file = Con!NoFile /\ s.from = 0 /\ s.to = 0
      <4> HIDE DEF s
      <4> QED  BY <3>1, <3>2 DEF Response
    <3> QED  BY <3>2 DEF b
  <2> HIDE DEF s
  <2>3. ContentOf(s) /\ RangeOk(s)
    BY <1>1, <2>2 DEF ContentOf, RangeOk, IsRange
  <2> QED  BY <1>1, <1>2, <2>1, <2>2, <2>3, HeaderReady
<1>5. CASE Con!NoRoute
  <2>1. PICK s \in Con!ErrorPages(404) : rsp' = s
    BY <1>5 DEF Con!NoRoute, Con!Answer
  <2>2. s \in Response /\ s.code = 404 /\ RangeOk(s) /\ (s.file = Con!NoFile \/ s.body = 0)
    BY ErrorPagesAre
  <2>3. ContentOf(s) /\ req.good /\ req.path = "unknown"
    BY <1>1, <1>5, <2>2 DEF ContentOf, Con!NoRoute
  <2> QED  BY <1>1, <1>2, <2>1, <2>2, <2>3, HeaderReady
<1> QED  BY <1>3, <1>4, <1>5

LEMMA ChainStartKeeps ==
  ASSUME ConnectionInv, Con!ChainStart
  PROVE  ConnectionInv'
<1> DEFINE n == 200
           s == [Con!Blank EXCEPT !.code = n]
<1>1. /\ pc = "read" /\ last = "none" /\ sets = 0 /\ pc' = "chain" /\ rsp' = s
      /\ req.good /\ req.path = "routed" /\ idx' = 1 /\ entered' = <<1>>
      /\ UNCHANGED <<req, reqCount, sets, last>>
  BY DEF ConnectionInv, ContentInv, Con!ChainStart
<1>0. n \in Nat
  OBVIOUS
<1> HIDE DEF n
<1>2. /\ s \in Response /\ s.body = 0 /\ s.file = Con!NoFile /\ s.from = 0 /\ s.to = 0
      /\ s.path = "" /\ s.err = FALSE
  <2> DEFINE b == Con!Blank
  <2>1. /\ b \in Response /\ b.body = 0 /\ b.file = Con!NoFile /\ b.from = 0 /\ b.to = 0
        /\ b.path = "" /\ b.err = FALSE
    BY BlankIs
  <2> HIDE DEF b
  <2>2. s = [b EXCEPT !.code = n]
    BY DEF b
  <2> HIDE DEF s
  <2> QED  BY <1>0, <2>1, <2>2 DEF Response
<1> HIDE DEF s
<1>3. ConnectionTypes' /\ ReuseInv'
  BY <1>1, <1>2 DEF ConnectionInv, ConnectionTypes, ReuseInv
<1>4. InOrder'
  BY <1>1 DEF InOrder
<1>5. ContentInv' /\ SendInv'
  BY <1>1, <1>2 DEF ContentInv, SendInv, IsRange
<1> QED  BY <1>3, <1>4, <1>5 DEF ConnectionInv

\* Before the next content is set nothing of the last one is left.
LEMMA ClearedIs ==
  ASSUME ConnectionInv, pc = "chain", NEW s, s = Con!Cleared
  PROVE  /\ s \in Response /\ s.file = Con!NoFile /\ s.path = "" /\ s.body = 0 /\ s.err = FALSE
         /\ s.from = 0 /\ s.to = 0
<1>1. rsp \in Response /\ rsp.from = 0 /\ rsp.to = 0
  BY DEF ConnectionInv, ConnectionTypes, ContentInv, IsRange
<1>2. CASE sets = 0
  <2>1. s = rsp /\ last = "none"
    BY <1>2 DEF Con!Cleared, ConnectionInv, ContentInv
  <2>2. rsp.err \in BOOLEAN
    BY <1>1 DEF Response
  <2> QED  BY <1>1, <2>1, <2>2 DEF ConnectionInv, ContentInv
<1>3. CASE sets # 0
  <2>1. s = [rsp EXCEPT !.err = FALSE, !.file = Con!NoFile, !.path = "", !.body = 0]
    BY <1>3 DEF Con!Cleared
  <2> QED  BY <1>1, <2>1 DEF Response
<1> QED  BY <1>2, <1>3

LEMMA SuccessorIs ==
  ASSUME NEW m \in Nat, NEW k, k = m + 1
  PROVE  k \in Nat /\ k # 0
OBVIOUS

\* A handler sets content of a kind.
LEMMA SetsKeep ==
  ASSUME ConnectionInv, NEW s \in Response, NEW kind \in {"body", "template", "file", "error", "redirect"},
         Con!Sets(s, kind), s.file = Con!NoFile, s.from = 0, s.to = 0,
         s.path = IF kind \in {"template", "file"} THEN kind ELSE "",
         s.err = (kind = "error"), s.body = IF kind = "body" THEN sets + 1 ELSE 0,
         kind = "template" => s.tag = sets + 1
  PROVE  ConnectionInv'
<1>1. /\ pc = "chain" /\ sets' = sets + 1 /\ rsp' = s /\ last' = kind
      /\ UNCHANGED <<pc, req, keepAlive, reqCount, idx, entered>>
  BY DEF Con!Sets, Con!chainVars
<1>2. sets \in Nat /\ sets' \in Nat /\ sets' # 0
  <2>1. sets \in Nat
    BY DEF ConnectionInv, ConnectionTypes
  <2>2. sets' = sets + 1
    BY <1>1
  <2> QED  BY <2>1, <2>2, SuccessorIs, Zenon
<1>3. InOrder' /\ ReuseInv' /\ SendInv'
  BY <1>1 DEF ConnectionInv, InOrder, ReuseInv, SendInv
<1>4. ConnectionTypes'
  <2>1. kind \in {"none", "body", "template", "file", "error", "redirect"}
    OBVIOUS
  <2> QED  BY <1>1, <1>2, <2>1 DEF ConnectionInv, ConnectionTypes
<1>5. ContentInv'
  <2>1. s.body = IF kind = "body" THEN sets' ELSE 0
    BY <1>1
  <2>2. kind = "template" => s.tag = sets'
    BY <1>1
  <2>3. /\ pc' = "chain" /\ ~IsRange(s)
        /\ s.file = Con!NoFile
    BY <1>1 DEF IsRange
  <2> QED  BY <1>1, <1>2, <2>1, <2>2, <2>3 DEF ContentInv, IsRange
<1> QED  BY <1>3, <1>4, <1>5 DEF ConnectionInv

LEMMA ContentsKeep ==
  ASSUME ConnectionInv,
         Con!SetBody \/ Con!SetTemplate \/ Con!SetFile \/ Con!SetError \/ Con!SetRedirect
  PROVE  ConnectionInv'
<1> DEFINE c == Con!Cleared
<1>1. pc = "chain" /\ sets \in Nat /\ sets + 1 \in Nat
  BY DEF Con!SetBody, Con!SetTemplate, Con!SetFile, Con!SetError, Con!SetRedirect, Con!Sets,
         ConnectionInv, ConnectionTypes
<1>2. /\ c \in Response /\ c.file = Con!NoFile /\ c.path = "" /\ c.body = 0 /\ c.err = FALSE
      /\ c.from = 0 /\ c.to = 0
  BY <1>1, ClearedIs
<1>3. CASE Con!SetBody
  <2> DEFINE n == 200
             s == [c EXCEPT !.body = sets + 1, !.code = n]
  <2>1. Con!Sets(s, "body") /\ n \in Nat
    BY <1>3 DEF Con!SetBody
  <2> HIDE DEF c, n
  <2>2. /\ s \in Response /\ s.file = Con!NoFile /\ s.path = "" /\ s.body = sets + 1 /\ s.err = FALSE
        /\ s.from = 0 /\ s.to = 0
    BY <1>1, <1>2, <2>1 DEF Response
  <2> HIDE DEF s
  <2> QED  BY <2>1, <2>2, SetsKeep
<1>4. CASE Con!SetTemplate
  <2> DEFINE n == 200
             s == [c EXCEPT !.path = "template", !.tag = sets + 1, !.code = n]
  <2>1. Con!Sets(s, "template") /\ n \in Nat
    BY <1>4 DEF Con!SetTemplate
  <2> HIDE DEF c, n
  <2>2. /\ s \in Response /\ s.file = Con!NoFile /\ s.path = "template" /\ s.body = 0 /\ s.err = FALSE
        /\ s.from = 0 /\ s.to = 0 /\ s.tag = sets + 1
    BY <1>1, <1>2, <2>1 DEF Response
  <2> HIDE DEF s
  <2> QED  BY <2>1, <2>2, SetsKeep
<1>5. CASE Con!SetFile
  <2> DEFINE s == [c EXCEPT !.path = "file", !.tag = sets + 1]
  <2>1. Con!Sets(s, "file")
    BY <1>5 DEF Con!SetFile
  <2> HIDE DEF c
  <2>2. /\ s \in Response /\ s.file = Con!NoFile /\ s.path = "file" /\ s.body = 0 /\ s.err = FALSE
        /\ s.from = 0 /\ s.to = 0
    BY <1>1, <1>2 DEF Response
  <2> HIDE DEF s
  <2> QED  BY <2>1, <2>2, SetsKeep
<1>6. CASE Con!SetError
  <2> DEFINE b == Con!Blank
             n == 500
             s == [b EXCEPT !.code = n, !.err = TRUE]
  <2>1. Con!Sets(s, "error") /\ n \in Nat
    BY <1>6 DEF Con!SetError, Con!ShouldGenErrorPage
  <2>2. /\ b \in Response /\ b.path = "" /\ b.body = 0 /\ b.file = Con!NoFile /\ b.from = 0 /\ b.to = 0
    BY BlankIs
  <2> HIDE DEF b, n
  <2>3. /\ s \in Response /\ s.file = Con!NoFile /\ s.path = "" /\ s.body = 0 /\ s.err = TRUE
        /\ s.from = 0 /\ s.to = 0
    BY <2>1, <2>2 DEF Response
  <2> HIDE DEF s
  <2> QED  BY <2>1, <2>3, SetsKeep
<1>7. CASE Con!SetRedirect
  <2> DEFINE n == 302
             s == [c EXCEPT !.code = n]
  <2>1. Con!Sets(s, "redirect") /\ n \in Nat
    BY <1>7 DEF Con!SetRedirect
  <2> HIDE DEF c, n
  <2>2. /\ s \in Response /\ s.file = Con!NoFile /\ s.path = "" /\ s.body = 0 /\ s.err = FALSE
        /\ s.from = 0 /\ s.to = 0
    BY <1>2, <2>1 DEF Response
  <2> HIDE DEF s
  <2> QED  BY <2>1, <2>2, SetsKeep
<1> QED  BY <1>3, <1>4, <1>5, <1>6, <1>7

\* The handler that is entered next comes after all that were.
LEMMA EntersNext ==
  ASSUME InOrder, idx' = idx + 1, entered' = Append(entered, idx')
  PROVE  InOrder'
<1>1. /\ idx \in Nat /\ entered \in Seq(Nat) /\ idx' \in Nat /\ idx < idx'
      /\ \A i \in 1..Len(entered) : entered[i] <= idx
      /\ \A i, j \in 1..Len(entered) : i < j => entered[i] < entered[j]
  BY DEF InOrder
<1> DEFINE n == Len(entered)
<1>2. /\ entered' \in Seq(Nat) /\ n \in Nat /\ Len(entered') = n + 1
      /\ \A i \in 1..n : entered'[i] = entered[i]
      /\ entered'[n + 1] = idx'
  BY <1>1
<1>3. \A i \in 1..n : entered[i] \in Nat
  BY <1>1
<1> HIDE DEF n
<1>4. \A i \in 1..(n + 1) : entered'[i] <= idx'
  BY <1>1, <1>2, <1>3 DEF n
<1>5. ASSUME NEW i \in 1..(n + 1), NEW j \in 1..(n + 1), i < j PROVE entered'[i] < entered'[j]
  <2>1. i \in 1..n
    BY <1>2, <1>5
  <2>2. CASE j \in 1..n
    BY <1>1, <1>2, <1>5, <2>1, <2>2 DEF n
  <2>3. CASE j = n + 1
    <3>1. entered'[i] = entered[i] /\ entered'[j] = idx' /\ entered[i] <= idx /\ entered[i] \in Nat
      BY <1>1, <1>2, <1>3, <2>1, <2>3 DEF n
    <3>2. idx \in Nat /\ idx' \in Nat /\ idx < idx'
      BY <1>1
    <3>3. entered[i] < idx'
      BY <3>1, <3>2
    <3> QED  BY <3>1, <3>3
  <2> QED  BY <1>2, <2>2, <2>3
<1> QED  BY <1>1, <1>2, <1>4, <1>5 DEF InOrder

\* The index moves on without a handler.
LEMMA MovesOn ==
  ASSUME InOrder, idx' = idx \/ idx' = idx + 1, entered' = entered
  PROVE  InOrder'
<1>1. /\ idx \in Nat /\ entered \in Seq(Nat) /\ idx' \in Nat /\ idx <= idx'
      /\ \A i \in 1..Len(entered) : entered[i] <= idx /\ entered[i] \in Nat
  BY DEF InOrder
<1>2. \A i \in 1..Len(entered) : entered[i] <= idx'
  BY <1>1
<1> QED  BY <1>1, <1>2 DEF InOrder

LEMMA HandlersKeep ==
  ASSUME ConnectionInv, Con!CallNext \/ Con!HandlerReturns \/ Con!Abort
  PROVE  ConnectionInv'
<1>1. /\ pc = "chain" /\ pc' \in {"chain", "resource"}
      /\ UNCHANGED <<req, rsp, keepAlive, reqCount, sets, last>>
  BY DEF Con!CallNext, Con!HandlerReturns, Con!Abort
<1>2. ConnectionTypes' /\ ReuseInv' /\ SendInv'
  BY <1>1 DEF ConnectionInv, ConnectionTypes, ReuseInv, SendInv
<1>3. ContentInv'
  BY <1>1 DEF ConnectionInv, ContentInv, IsRange
<1>4. InOrder'
  <2>1. InOrder
    BY DEF ConnectionInv
  <2>2. CASE Con!CallNext
    BY <2>1, <2>2, EntersNext, MovesOn DEF Con!CallNext
  <2>3. CASE Con!HandlerReturns
    <3>1. \/ idx' = idx + 1 /\ entered' = Append(entered, idx')
          \/ (idx' = idx \/ idx' = idx + 1) /\ entered' = entered
      BY <2>3 DEF Con!HandlerReturns
    <3> QED  BY <2>1, <3>1, EntersNext, MovesOn
  <2>4. CASE Con!Abort
    BY <2>1, <2>4, MovesOn DEF Con!Abort
  <2> QED  BY <2>2, <2>3, <2>4
<1> QED  BY <1>2, <1>3, <1>4 DEF ConnectionInv

LEMMA ThrowKeeps ==
  ASSUME ConnectionInv, Con!Throw
  PROVE  ConnectionInv'
<1> DEFINE b == Con!Blank
           n == 500
           s == [b EXCEPT !.code = n, !.err = TRUE]
<1>1. /\ pc = "chain" /\ pc' = "resource" /\ rsp' = s /\ last' = "error"
      /\ UNCHANGED <<req, reqCount, idx, entered, sets>> /\ n \in Nat
  BY DEF Con!Throw, Con!ShouldGenErrorPage
<1>2. /\ b \in Response /\ b.path = "" /\ b.body = 0 /\ b.file = Con!NoFile /\ b.from = 0 /\ b.to = 0
  BY BlankIs
<1> HIDE DEF b, n
<1>3. /\ s \in Response /\ s.file = Con!NoFile /\ s.path = "" /\ s.body = 0 /\ s.err = TRUE
      /\ s.from = 0 /\ s.to = 0
  BY <1>1, <1>2 DEF Response
<1> HIDE DEF s
<1>4. ConnectionTypes' /\ ReuseInv' /\ SendInv'
  BY <1>1, <1>3 DEF ConnectionInv, ConnectionTypes, ReuseInv, SendInv
<1>5. ContentInv' /\ InOrder'
  BY <1>1, <1>3 DEF ConnectionInv, ContentInv, InOrder, IsRange
<1> QED  BY <1>4, <1>5 DEF ConnectionInv

LEMMA NoResourceKeeps ==
  ASSUME ConnectionInv, Con!NoResource
  PROVE  ConnectionInv'
<1>1. /\ pc = "resource" /\ rsp.path = "" /\ pc' = "header" /\ keepAlive' = keepAlive
      /\ UNCHANGED <<req, reqCount, idx, entered, sets, last>>
  BY DEF Con!NoResource, Con!Ends, Con!chainVars
<1>2. /\ rsp \in Response /\ rsp.file = Con!NoFile /\ ~IsRange(rsp) /\ last \notin {"template", "file"}
      /\ rsp.err <=> last = "error"
      /\ rsp.body = IF last = "body" THEN sets ELSE 0
      /\ req.good /\ req.path = "routed"
  BY <1>1 DEF ConnectionInv, ConnectionTypes, ContentInv, ReuseInv
<1>3. rsp.code \in Nat
  BY <1>2 DEF Response
<1>4. CASE rsp.err
  <2>1. PICK s \in Con!ErrorPages(rsp.code) : rsp' = s
    BY <1>4 DEF Con!NoResource, Con!Ends
  <2>2. s \in Response /\ RangeOk(s) /\ s.body \in {0, Con!ErrorPage} /\ (s.file = Con!NoFile \/ s.body = 0)
    BY <1>3, ErrorPagesAre
  <2>3. ContentOf(s)
    BY <1>2, <1>4, <2>2 DEF ContentOf
  <2> QED  BY <1>1, <1>2, <2>1, <2>2, <2>3, HeaderReady
<1>5. CASE ~rsp.err
  <2>1. rsp' = rsp
    BY <1>5 DEF Con!NoResource, Con!Ends
  <2>2. ContentOf(rsp) /\ RangeOk(rsp)
    BY <1>2, <1>5 DEF ContentOf, RangeOk
  <2> QED  BY <1>1, <1>2, <2>1, <2>2, HeaderReady
<1> QED  BY <1>4, <1>5

\* A response that failed replaces the file or the template.
LEMMA FailedPage ==
  ASSUME ConnectionInv, pc = "resource", rsp.path # "", NEW code \in Nat, ~(code < 400),
         NEW s \in Con!ErrorPages(code), rsp' = s, pc' = "header", keepAlive' = keepAlive,
         UNCHANGED <<req, reqCount, idx, entered, sets, last>>
  PROVE  ConnectionInv'
<1>1. last \in {"template", "file"} /\ req.good /\ req.path = "routed"
  BY DEF ConnectionInv, ContentInv, ReuseInv
<1>2. s \in Response /\ s.code = code /\ RangeOk(s) /\ (s.file = Con!NoFile \/ s.body = 0)
  BY ErrorPagesAre
<1>3. ~(s.code < 400)
  BY <1>2
<1>4. ContentOf(s)
  BY <1>1, <1>2, <1>3 DEF ContentOf
<1> QED  BY <1>1, <1>2, <1>4, HeaderReady

LEMMA ErrorCodes == \A code \in {403, 404} : code \in Nat /\ ~(code < 400)
OBVIOUS

LEMMA ResourceMissingKeeps ==
  ASSUME ConnectionInv, Con!ResourceMissing
  PROVE  ConnectionInv'
<1> DEFINE Codes == {403, 404}
<1>1. /\ pc = "resource" /\ rsp.path # "" /\ pc' = "header" /\ keepAlive' = keepAlive
      /\ UNCHANGED <<req, reqCount, idx, entered, sets, last>>
  BY DEF Con!ResourceMissing, Con!Ends, Con!chainVars
<1>2. \A code \in Codes : code \in Nat /\ ~(code < 400)
  BY ErrorCodes
<1>3. \E code \in Codes : \E s \in Con!ErrorPages(code) : rsp' = s
  <2>1. \E code \in Codes : \E s \in Con!ErrorPages(code) : Con!Ends(s)
    BY DEF Con!ResourceMissing
  <2>2. \A s : Con!Ends(s) => rsp' = s
    BY DEF Con!Ends
  <2> HIDE DEF Codes
  <2> QED  BY <2>1, <2>2, Zenon
<1> HIDE DEF Codes
<1>4. PICK code \in Codes : \E s \in Con!ErrorPages(code) : rsp' = s
  BY <1>3
<1>5. PICK s \in Con!ErrorPages(code) : rsp' = s
  BY <1>4
<1>6. code \in Nat /\ ~(code < 400)
  BY <1>2
<1> QED  BY <1>1, <1>5, <1>6, FailedPage

\* What parse_range() accepts lies in the file.
LEMMA ParsedRange ==
  ASSUME NEW g, g.lo \in Nat \cup {-1}, g.hi \in Nat \cup {-1}, NEW r \in Con!ParseRange(g)
  PROVE  r[1] \in Nat /\ r[2] \in Nat /\ r[1] <= r[2] /\ r[2] < FileSize
<1> DEFINE from == IF g.lo = -1 THEN IF g.hi > FileSize THEN 0 ELSE FileSize - g.hi ELSE g.lo
           to == IF g.lo = -1 \/ g.hi = -1 THEN FileSize - 1 ELSE g.hi
           end == IF to >= FileSize THEN FileSize - 1 ELSE to
<1>1. from <= to /\ ~(from >= FileSize) /\ r = <<from, end>>
  <2>1. r \in IF ~g.ok \/ from > to \/ from >= FileSize THEN {} ELSE {<<from, end>>}
    BY DEF Con!ParseRange
  <2>2. from \in Int /\ to \in Int
    BY ConnectionConstants
  <2> HIDE DEF from, to, end
  <2>3. ~(from > to) /\ ~(from >= FileSize) /\ r = <<from, end>>
    BY <2>1
  <2> QED  BY <2>2, <2>3
<1>2. from \in Nat
  <2>1. CASE g.lo = -1
    <3>1. CASE g.hi > FileSize
      BY <2>1, <3>1
    <3>2. CASE ~(g.hi > FileSize)
      BY <2>1, <3>2, ConnectionConstants
    <3> QED  BY <3>1, <3>2
  <2>2. CASE g.lo # -1
    BY <2>2
  <2> QED  BY <2>1, <2>2
<1>3. to \in Int
  BY ConnectionConstants
<1> HIDE DEF from, to
<1>4. end \in Int /\ from <= end /\ end < FileSize
  BY <1>1, <1>2, <1>3, ConnectionConstants
<1> HIDE DEF end
<1>5. end \in Nat
  BY <1>2, <1>4
<1> QED  BY <1>1, <1>2, <1>4, <1>5

LEMMA FileFoundKeeps ==
  ASSUME ConnectionInv, Con!FileFound
  PROVE  ConnectionInv'
<1>1. /\ pc = "resource" /\ rsp.path = "file" /\ pc' = "header" /\ keepAlive' = keepAlive
      /\ UNCHANGED <<req, reqCount, idx, entered, sets, last>>
  BY DEF Con!FileFound, Con!Ends, Con!chainVars
<1>2. /\ rsp \in Response /\ rsp.file = Con!NoFile /\ rsp.from = 0 /\ rsp.to = 0 /\ last = "file"
      /\ rsp.body = 0 /\ req.good /\ req.path = "routed" /\ req \in Request
  BY <1>1 DEF ConnectionInv, ConnectionTypes, ContentInv, ReuseInv, IsRange
<1> DEFINE g == req.range
<1>3. g.lo \in Nat \cup {-1} /\ g.hi \in Nat \cup {-1}
  BY <1>2, ConnectionNumbers
<1>4. CASE ~g.given
  <2> DEFINE s == [rsp EXCEPT !.file = FileSize]
  <2>1. rsp' = s
    BY <1>4 DEF Con!FileFound, Con!Ends
  <2>2. s \in Response /\ s.file = FileSize /\ s.body = 0 /\ s.from = 0 /\ s.to = 0
    BY <1>2 DEF Response
  <2> HIDE DEF s
  <2>3. ContentOf(s) /\ RangeOk(s)
    BY <1>2, <2>2 DEF ContentOf, RangeOk, IsRange
  <2> QED  BY <1>1, <1>2, <2>1, <2>2, <2>3, HeaderReady
<1>5. CASE g.given /\ Con!ParseRange(g) = {}
  <2>1. PICK s \in Con!ErrorPages(400) : rsp' = s
    BY <1>5 DEF Con!FileFound, Con!Ends
  <2>2. 400 \in Nat /\ ~(400 < 400) /\ rsp.path # ""
    BY <1>1
  <2> QED  BY <1>1, <2>1, <2>2, FailedPage
<1>6. CASE g.given /\ Con!ParseRange(g) # {}
  <2>1. PICK r \in Con!ParseRange(g) : rsp' = Con!Partial(r)
    BY <1>6 DEF Con!FileFound, Con!Ends
  <2>2. r[1] \in Nat /\ r[2] \in Nat /\ r[1] <= r[2] /\ r[2] < FileSize
    <3> HIDE DEF g
    <3> QED  BY <1>3, ParsedRange
  <2> DEFINE a == r[1]
             to == IF r[2] > r[1] + Chunk - 1 THEN r[1] + Chunk - 1 ELSE r[2]
             n == 206
             s == [rsp EXCEPT !.file = FileSize, !.code = n, !.from = a, !.to = to]
  <2>3. rsp' = s /\ n \in Nat
    BY <2>1 DEF Con!Partial
  <2>4. a \in Nat /\ to \in Nat /\ a <= to /\ to < FileSize
    BY <2>2, ConnectionConstants
  <2> HIDE DEF a, to, n
  <2>5. s \in Response /\ s.file = FileSize /\ s.body = 0 /\ s.from = a /\ s.to = to
    BY <1>2, <2>3, <2>4 DEF Response
  <2> HIDE DEF s
  <2>6. ContentOf(s) /\ RangeOk(s)
    BY <1>2, <2>4, <2>5 DEF ContentOf, RangeOk, IsRange
  <2> QED  BY <1>1, <1>2, <2>3, <2>5, <2>6, HeaderReady
<1> QED  BY <1>4, <1>5, <1>6

LEMMA TemplateFoundKeeps ==
  ASSUME ConnectionInv, Con!TemplateFound
  PROVE  ConnectionInv'
<1>1. /\ pc = "resource" /\ rsp.path = "template" /\ pc' = "header" /\ keepAlive' = keepAlive
      /\ UNCHANGED <<req, reqCount, idx, entered, sets, last>>
  BY DEF Con!TemplateFound, Con!Ends, Con!chainVars
<1>2. /\ rsp \in Response /\ rsp.file = Con!NoFile /\ rsp.from = 0 /\ rsp.to = 0 /\ last = "template"
      /\ rsp.tag = sets /\ req.good /\ req.path = "routed" /\ sets \in Nat
  BY <1>1 DEF ConnectionInv, ConnectionTypes, ContentInv, ReuseInv, IsRange
<1> DEFINE s == [rsp EXCEPT !.body = rsp.tag]
<1>3. CASE rsp' = s
  <2>1. s \in Response /\ s.file = Con!NoFile /\ s.body = sets /\ s.from = 0 /\ s.to = 0
    BY <1>2 DEF Response
  <2> HIDE DEF s
  <2>2. ContentOf(s) /\ RangeOk(s)
    BY <1>2, <2>1 DEF ContentOf, RangeOk, IsRange
  <2> QED  BY <1>1, <1>2, <1>3, <2>1, <2>2, HeaderReady
<1>4. CASE \E r \in Con!ErrorPages(500) : rsp' = r
  <2>1. PICK r \in Con!ErrorPages(500) : rsp' = r
    BY <1>4
  <2>2. 500 \in Nat /\ ~(500 < 400) /\ rsp.path # ""
    BY <1>1
  <2> QED  BY <1>1, <2>1, <2>2, FailedPage
<1> QED  BY <1>3, <1>4 DEF Con!TemplateFound, Con!Ends

\* After the header is generated only the sending variables matter.
LEMMA SendingKeeps ==
  ASSUME ConnectionInv, pc \in {"header", "write", "splice"}, pc' \in {"write", "splice", "written", "closed"},
         UNCHANGED <<req, rsp, keepAlive, reqCount, idx, entered, sets, last>>, SendInv'
  PROVE  ConnectionInv'
<1>1. ConnectionTypes' /\ InOrder' /\ ReuseInv'
  BY DEF ConnectionInv, ConnectionTypes, InOrder, ReuseInv
<1>2. ContentInv'
  BY DEF ConnectionInv, ContentInv
<1> QED  BY <1>1, <1>2 DEF ConnectionInv

LEMMA GenHttpHeaderKeeps ==
  ASSUME ConnectionInv, Con!GenHttpHeader
  PROVE  ConnectionInv'
<1>1. /\ pc = "header" /\ pc' = "write"
      /\ UNCHANGED <<req, rsp, keepAlive, reqCount, idx, entered, sets, last>>
      /\ length' = ContentLength(rsp)
  BY DEF Con!GenHttpHeader, Con!chainVars, Con!IsPartial, ContentLength, IsRange
<1>2. RangeOk(rsp)
  BY <1>1 DEF ConnectionInv, SendInv
<1>3. SendInv'
  BY <1>1, <1>2 DEF SendInv, RangeOk, IsRange, ContentLength
<1> QED  BY <1>1, <1>3, SendingKeeps

\* The numbers of a response that goes out.
LEMMA LengthIs ==
  ASSUME ConnectionInv, pc \in {"write", "splice"}
  PROVE  /\ rsp.file \in {Con!NoFile, FileSize} /\ rsp.from \in Nat /\ rsp.to \in Nat
         /\ RangeOk(rsp) /\ length = ContentLength(rsp)
         /\ IsRange(rsp) => /\ rsp.file = FileSize /\ length = rsp.to - rsp.from + 1
                            /\ rsp.from <= rsp.to /\ rsp.to < FileSize
         /\ ~IsRange(rsp) => rsp.from = 0 /\ rsp.to = 0
         /\ ~IsRange(rsp) /\ rsp.file = FileSize => length = FileSize
<1>1. rsp \in Response /\ RangeOk(rsp) /\ length = ContentLength(rsp)
  BY DEF ConnectionInv, ConnectionTypes, SendInv
<1>2. rsp.file \in {Con!NoFile, FileSize} /\ rsp.from \in Nat /\ rsp.to \in Nat
  BY <1>1 DEF Response
<1>3. IsRange(rsp) => rsp.file = FileSize /\ rsp.from <= rsp.to /\ rsp.to < FileSize
  BY <1>1 DEF RangeOk
<1>4. IsRange(rsp) => length = rsp.to - rsp.from + 1
  BY <1>1, <1>3, ConnectionConstants DEF ContentLength
<1>5. ~IsRange(rsp) => rsp.from = 0 /\ rsp.to = 0
  BY DEF IsRange
<1>6. ~IsRange(rsp) /\ rsp.file = FileSize => length = FileSize
  BY <1>1, ConnectionConstants DEF ContentLength
<1> QED  BY <1>1, <1>2, <1>3, <1>4, <1>5, <1>6

LEMMA WriteHeadKeeps ==
  ASSUME ConnectionInv, Con!WriteHead
  PROVE  ConnectionInv'
<1>1. /\ pc = "write" /\ UNCHANGED <<req, rsp, keepAlive, reqCount, idx, entered, sets, last, length>>
  BY DEF Con!WriteHead, Con!chainVars
<1>2. /\ rsp.file \in {Con!NoFile, FileSize} /\ rsp.from \in Nat /\ rsp.to \in Nat
      /\ RangeOk(rsp) /\ length = ContentLength(rsp)
      /\ IsRange(rsp) => rsp.from <= rsp.to /\ rsp.to < FileSize
      /\ ~IsRange(rsp) => rsp.from = 0
  BY <1>1, LengthIs
<1>3. CASE Con!SendFile
  <2>1. ~req.head /\ rsp.file = FileSize
    BY <1>2, <1>3 DEF Con!SendFile
  <2>2. sent' = 0 /\ offset' = rsp.from /\ pc' = "splice"
    BY <1>3, <2>1, ConnectionConstants DEF Con!WriteHead
  <2>3. offset' \in rsp.from..FileSize /\ sent' = offset' - rsp.from
    BY <1>2, <2>2, ConnectionConstants
  <2>4. SendInv'
    BY <1>1, <1>2, <2>1, <2>2, <2>3 DEF SendInv, RangeOk, IsRange, ContentLength
  <2> QED  BY <1>1, <2>2, <2>4, SendingKeeps
<1>4. CASE ~Con!SendFile
  <2>1. pc' = "written"
    BY <1>4 DEF Con!WriteHead
  <2>2. sent' \in Nat /\ sent' = IF req.head THEN 0 ELSE length
    <3>1. CASE req.head
      BY <3>1 DEF Con!WriteHead
    <3>2. CASE ~req.head
      <4>1. rsp.file = Con!NoFile
        BY <1>4, <3>2 DEF Con!SendFile
      <4>2. length = IF rsp.body = 0 THEN 0 ELSE 1
        BY <1>2, <4>1 DEF ContentLength
      <4> QED  BY <3>2, <4>1, <4>2 DEF Con!WriteHead
    <3> QED  BY <3>1, <3>2
  <2>3. IF req.head THEN sent' = 0 ELSE sent' >= length /\ sent' = length
    BY <2>2
  <2>4. SendInv'
    BY <1>1, <2>1, <2>3 DEF SendInv
  <2> QED  BY <1>1, <2>1, <2>4, SendingKeeps
<1> QED  BY <1>3, <1>4

LEMMA SpliceKeeps ==
  ASSUME ConnectionInv, Con!Splice
  PROVE  ConnectionInv'
<1>1. /\ pc = "splice" /\ pc' = "splice"
      /\ UNCHANGED <<req, rsp, keepAlive, reqCount, idx, entered, sets, last, length>>
      /\ \E m \in 0..(FileSize - offset) : offset' = offset + m /\ sent' = sent + m
  BY DEF Con!Splice, Con!chainVars
<1>2. /\ rsp.from \in Nat /\ RangeOk(rsp) /\ length = ContentLength(rsp)
  BY <1>1, LengthIs
<1>3. /\ ~req.head /\ rsp.file = FileSize
      /\ offset \in rsp.from..FileSize /\ sent = offset - rsp.from
  BY <1>1 DEF ConnectionInv, SendInv
<1>4. offset' \in rsp.from..FileSize /\ sent' = offset' - rsp.from
  BY <1>1, <1>2, <1>3, ConnectionConstants
<1>5. SendInv'
  BY <1>1, <1>2, <1>3, <1>4 DEF SendInv, RangeOk, IsRange, ContentLength
<1> QED  BY <1>1, <1>5, SendingKeeps

\* usendfile() is done at the end point of the range or behind it, and when
\* the end point is the end of the file there is nothing behind it.
LEMMA SendfileReturnsKeeps ==
  ASSUME ConnectionInv, Con!SendfileReturns
  PROVE  ConnectionInv'
<1> DEFINE endpoint == IF IsRange(rsp) THEN rsp.to + 1 ELSE rsp.file
<1>1. /\ pc = "splice"
      /\ UNCHANGED <<req, rsp, keepAlive, reqCount, idx, entered, sets, last, length, sent, offset>>
      /\ IF offset < endpoint THEN pc' = "splice" ELSE pc' = "written"
  BY DEF Con!SendfileReturns, Con!IsPartial, IsRange, Con!chainVars
<1>2. /\ rsp.from \in Nat /\ rsp.to \in Nat
      /\ RangeOk(rsp) /\ length = ContentLength(rsp)
      /\ IsRange(rsp) => /\ length = rsp.to - rsp.from + 1
                         /\ rsp.from <= rsp.to /\ rsp.to < FileSize
      /\ ~IsRange(rsp) => rsp.from = 0
      /\ ~IsRange(rsp) /\ rsp.file = FileSize => length = FileSize
  BY <1>1, LengthIs
<1>3. /\ ~req.head /\ rsp.file = FileSize
      /\ offset \in rsp.from..FileSize /\ sent = offset - rsp.from
  BY <1>1 DEF ConnectionInv, SendInv
<1>4. endpoint \in Nat /\ endpoint = rsp.from + length
  BY <1>2, <1>3, ConnectionConstants
<1>5. ToEnd(rsp) => endpoint = FileSize
  BY <1>2, <1>3, ConnectionConstants DEF ToEnd
<1> HIDE DEF endpoint
<1>6. CASE offset < endpoint
  <2>1. SendInv'
    BY <1>1, <1>2, <1>3, <1>6 DEF SendInv, RangeOk, IsRange, ContentLength
  <2> QED  BY <1>1, <1>6, <2>1, SendingKeeps
<1>7. CASE ~(offset < endpoint)
  <2>1. length \in Int
    BY <1>2, <1>3, ConnectionConstants
  <2>2. sent >= length
    BY <1>2, <1>3, <1>4, <1>7, <2>1, ConnectionConstants
  <2>3. ToEnd(rsp) => sent = length
    BY <1>2, <1>3, <1>4, <1>5, <1>7, <2>1, ConnectionConstants
  <2>4. SendInv'
    BY <1>1, <1>3, <1>7, <2>2, <2>3 DEF SendInv, ToEnd, IsRange
  <2> QED  BY <1>1, <1>7, <2>4, SendingKeeps
<1> QED  BY <1>6, <1>7

LEMMA ClosingKeeps ==
  ASSUME ConnectionInv, Con!WriteFails \/ Con!ReadFails
  PROVE  ConnectionInv'
<1>1. /\ pc \in {"read", "write", "splice"} /\ pc' = "closed"
      /\ UNCHANGED <<req, rsp, keepAlive, reqCount, idx, entered, sets, last>>
  BY DEF Con!WriteFails, Con!ReadFails, Con!chainVars
<1>2. SendInv' /\ ReuseInv'
  BY <1>1 DEF SendInv, ReuseInv
<1>3. ConnectionTypes' /\ InOrder' /\ ContentInv'
  BY <1>1 DEF ConnectionInv, ConnectionTypes, InOrder, ContentInv
<1> QED  BY <1>2, <1>3 DEF ConnectionInv

LEMMA WrittenKeeps ==
  ASSUME ConnectionInv, Con!Written
  PROVE  ConnectionInv'
<1>1. pc = "written" /\ idx' = 0 /\ entered' = <<>> /\ sets' = 0 /\ last' = "none"
  BY DEF Con!Written
<1>2. InOrder'
  BY <1>1 DEF InOrder
<1>3. CASE keepAlive /\ reqCount + 1 < KeepAliveCount
  <2>1. pc' = "read" /\ reqCount' = reqCount + 1 /\ req' \in Request /\ rsp' = Con!Blank
    BY <1>3 DEF Con!Written
  <2>2. reqCount' \in Nat /\ reqCount' < KeepAliveCount
    BY <1>3, <2>1 DEF ConnectionInv, ConnectionTypes
  <2>3. ConnectionTypes'
    BY <1>1, <2>1, <2>2, BlankIs DEF ConnectionTypes
  <2>4. ContentInv' /\ SendInv' /\ ReuseInv'
    BY <1>1, <2>1, <2>2, BlankIs DEF ContentInv, SendInv, ReuseInv
  <2> QED  BY <1>2, <2>3, <2>4 DEF ConnectionInv
<1>4. CASE ~(keepAlive /\ reqCount + 1 < KeepAliveCount)
  <2>1. pc' = "closed" /\ UNCHANGED <<reqCount, req, rsp>>
    BY <1>4 DEF Con!Written
  <2>2. ConnectionTypes'
    BY <1>1, <2>1 DEF ConnectionInv, ConnectionTypes
  <2>3. ContentInv' /\ SendInv' /\ ReuseInv'
    BY <1>1, <2>1 DEF ConnectionInv, ContentInv, SendInv, ReuseInv
  <2> QED  BY <1>2, <2>2, <2>3 DEF ConnectionInv
<1> QED  BY <1>3, <1>4

LEMMA ConnectionKept ==
  ASSUME ConnectionInv, [Con!Next]_connVars
  PROVE  ConnectionInv'
<1>1. CASE Con!BadRequest \/ Con!SlashRedirect \/ Con!NoRoute
  BY <1>1, AnswersKeep
<1>2. CASE Con!ChainStart \/ Con!Throw
  BY <1>2, ChainStartKeeps, ThrowKeeps
<1>3. CASE Con!SetBody \/ Con!SetTemplate \/ Con!SetFile \/ Con!SetError \/ Con!SetRedirect
  BY <1>3, ContentsKeep
<1>4. CASE Con!CallNext \/ Con!HandlerReturns \/ Con!Abort
  BY <1>4, HandlersKeep
<1>5. CASE Con!NoResource \/ Con!ResourceMissing \/ Con!FileFound \/ Con!TemplateFound
  BY <1>5, NoResourceKeeps, ResourceMissingKeeps, FileFoundKeeps, TemplateFoundKeeps
<1>6. CASE Con!GenHttpHeader \/ Con!WriteHead \/ Con!Splice \/ Con!SendfileReturns
  BY <1>6, GenHttpHeaderKeeps, WriteHeadKeeps, SpliceKeeps, SendfileReturnsKeeps
<1>7. CASE Con!WriteFails \/ Con!Written \/ Con!ReadFails
  BY <1>7, ClosingKeeps, WrittenKeeps
<1>8. CASE UNCHANGED connVars
  <2>1. UNCHANGED <<pc, req, rsp, keepAlive, reqCount, idx, entered, sets, last, length, sent, offset, total, remain>>
    BY <1>8 DEF connVars
  <2>2. ConnectionTypes' /\ InOrder' /\ ReuseInv'
    BY <2>1 DEF ConnectionInv, ConnectionTypes, InOrder, ReuseInv
  <2>3. ContentInv'
    <3>1. ContentOf(rsp)' <=> ContentOf(rsp)
      BY <2>1 DEF ContentOf
    <3>2. IsRange(rsp)' <=> IsRange(rsp)
      BY <2>1 DEF IsRange
    <3> QED  BY <2>1, <3>1, <3>2 DEF ConnectionInv, ContentInv
  <2>4. SendInv'
    BY <2>1 DEF ConnectionInv, SendInv, RangeOk, IsRange, ContentLength
  <2> QED  BY <2>2, <2>3, <2>4 DEF ConnectionInv
<1> QED  BY <1>1, <1>2, <1>3, <1>4, <1>5, <1>6, <1>7, <1>8 DEF Con!Next

LEMMA ConnectionExact == ConnectionInv => ResponseExact
<1> SUFFICES ASSUME ConnectionInv PROVE ResponseExact
  OBVIOUS
<1>1. DOMAIN entered = 1..Len(entered)
  BY DEF ConnectionInv, InOrder
<1>2. Con!LastContentWins
  BY <1>1 DEF ConnectionInv, InOrder, ContentInv, ContentOf, Con!LastContentWins
<1>3. Con!FramingExact
  BY DEF ConnectionInv, SendInv, ReuseInv, IsRange, ToEnd, Con!IsPartial, Con!ToEnd, Con!FramingExact
<1> QED  BY <1>2, <1>3 DEF ResponseExact

\* For every chain of handlers, whatever they set, however often they call
\* Next(), every file smaller than size_t wraps at and however few bytes each
\* splice moves: the response is the last content that was set and nothing of
\* an earlier one; of a body, a whole file or a range to the end of its file
\* exactly the bytes go out that Content-length said, of another range at least
\* those; and a connection is not reused after a refused request.
THEOREM ResponsesExact == RequestsSpec => []ResponseExact
<1>1. RequestsInit => ConnectionInv
  BY ConnectionInitially DEF RequestsInit
<1>2. ConnectionInv /\ [RequestsNext]_requestsVars => ConnectionInv'
  BY ConnectionKept DEF RequestsNext, ParserPart, RoutesPart, ConnectionPart, ResourcesPart,
     SessionPart, LimiterPart, UsersPart, TimersPart, requestsVars
<1> QED  BY <1>1, <1>2, ConnectionExact, PTL DEF RequestsSpec, requestsVars

==============================================================================
