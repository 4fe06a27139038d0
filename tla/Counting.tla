------------------------------- MODULE Counting ------------------------------
(***************************************************************************)
(* Facts for proofs that count processes by where they are and follow them *)
(* through queues: what the step of one process does to the size of a set  *)
(* of processes, what a push or a pop does to the elements of a queue.     *)
(***************************************************************************)
EXTENDS Integers, Sequences, FiniteSets, Functions, FiniteSetTheorems, TLAPS

\* Adding one element.
LEMMA OneMore ==
  ASSUME NEW S, IsFiniteSet(S), NEW c, c \notin S
  PROVE  Cardinality(S \cup {c}) = Cardinality(S) + 1
BY FS_AddElement

\* Taking one element away.
LEMMA OneLess ==
  ASSUME NEW S, IsFiniteSet(S), NEW c \in S
  PROVE  Cardinality(S \ {c}) = Cardinality(S) - 1 /\ Cardinality(S) > 0
<1>1. Cardinality(S) # 0 /\ Cardinality(S) \in Nat
  BY FS_EmptySet, FS_CardinalityType
<1>2. Cardinality(S \ {c}) = Cardinality(S) - 1
  BY FS_RemoveElement
<1> QED  BY <1>1, <1>2

\* A set without two different elements.
LEMMA AtMostOne ==
  ASSUME NEW S, \A x, y \in S : x = y
  PROVE  IsFiniteSet(S) /\ Cardinality(S) <= 1
<1>1. CASE S = {}
  BY <1>1, FS_EmptySet
<1>2. CASE S # {}
  <2>1. PICK x : S = {x}
    BY <1>2
  <2>2. IsFiniteSet({x}) /\ Cardinality({x}) = 1
    BY FS_Singleton
  <2> QED  BY <2>1, <2>2
<1> QED  BY <1>1, <1>2

\* Whether c counts in S.
Mem(c, S) == IF c \in S THEN 1 ELSE 0

\* 1 when a coroutine is at l, 0 when it is elsewhere.
Is(p, l) == IF p = l THEN 1 ELSE 0

\* Two sets that differ at most in c.
LEMMA OneMoves ==
  ASSUME NEW S, IsFiniteSet(S), NEW T, NEW c, T \ {c} = S \ {c}
  PROVE  /\ IsFiniteSet(T)
         /\ Cardinality(S) \in Nat /\ Cardinality(T) \in Nat
         /\ Cardinality(T) = Cardinality(S) + Mem(c, T) - Mem(c, S)
         /\ Cardinality(S) >= Mem(c, S) /\ Cardinality(T) >= Mem(c, T)
<1> DEFINE R == S \ {c}
<1>1. IsFiniteSet(R) /\ c \notin R
  BY FS_RemoveElement
<1>2. /\ c \in S => S = R \cup {c}
      /\ c \notin S => S = R
      /\ c \in T => T = R \cup {c}
      /\ c \notin T => T = R
  OBVIOUS
<1> HIDE DEF R
<1>3. IsFiniteSet(R \cup {c}) /\ Cardinality(R \cup {c}) = Cardinality(R) + 1
  BY <1>1, OneMore, FS_AddElement
<1>4. Cardinality(R) \in Nat
  BY <1>1, FS_CardinalityType
<1>5. IsFiniteSet(T)
  BY <1>1, <1>2, <1>3
<1>6. /\ Cardinality(S) = Cardinality(R) + Mem(c, S)
      /\ Cardinality(T) = Cardinality(R) + Mem(c, T)
  BY <1>2, <1>3, <1>4 DEF Mem
<1>7. Mem(c, S) \in Nat /\ Mem(c, T) \in Nat
  BY DEF Mem
<1> QED  BY <1>4, <1>5, <1>6, <1>7
----------------------------------------------------------------------------
(* Queues without repetition *)

NoDup(q) == \A i, j \in 1..Len(q) : q[i] = q[j] => i = j

\* push at the tail adds its coroutine to the queue and nothing else.
LEMMA RangeAppend ==
  ASSUME NEW S, NEW q \in Seq(S), NEW w \in S
  PROVE  /\ Append(q, w) \in Seq(S)
         /\ Range(Append(q, w)) = Range(q) \cup {w}
         /\ NoDup(q) /\ w \notin Range(q) => NoDup(Append(q, w))
         /\ Len(Append(q, w)) = Len(q) + 1
<1> DEFINE p == Append(q, w)
<1>1. /\ p \in Seq(S)
      /\ Len(p) = Len(q) + 1 /\ Len(q) \in Nat
      /\ DOMAIN p = 1..Len(p) /\ DOMAIN q = 1..Len(q)
      /\ \A i \in 1..Len(q) : p[i] = q[i]
      /\ p[Len(q) + 1] = w
  OBVIOUS
<1> HIDE DEF p
<1>2. 1..(Len(q) + 1) = (1..Len(q)) \cup {Len(q) + 1}
  BY <1>1
<1>3. Range(p) = Range(q) \cup {w}
  BY <1>1, <1>2 DEF Range
<1>4. NoDup(q) /\ w \notin Range(q) => NoDup(p)
  BY <1>1, <1>2 DEF Range, NoDup
<1> QED  BY <1>1, <1>3, <1>4 DEF p

\* push at the head does so too.
LEMMA RangeCons ==
  ASSUME NEW S, NEW q \in Seq(S), NEW w \in S
  PROVE  /\ <<w>> \o q \in Seq(S)
         /\ Range(<<w>> \o q) = Range(q) \cup {w}
         /\ NoDup(q) /\ w \notin Range(q) => NoDup(<<w>> \o q)
         /\ Len(<<w>> \o q) = Len(q) + 1
<1> DEFINE p == <<w>> \o q
<1>1. /\ p \in Seq(S)
      /\ Len(p) = Len(q) + 1 /\ Len(q) \in Nat
      /\ DOMAIN p = 1..Len(p) /\ DOMAIN q = 1..Len(q)
      /\ p[1] = w
      /\ \A j \in 1..Len(p) : j # 1 => p[j] = q[j - 1]
  OBVIOUS
<1> HIDE DEF p
<1>2. \A j \in 1..Len(p) : j # 1 => j - 1 \in 1..Len(q)
  BY <1>1
<1>3. \A i \in 1..Len(q) : i + 1 \in 1..Len(p) /\ p[i + 1] = q[i]
  <2> TAKE i \in 1..Len(q)
  <2>1. i + 1 \in 1..Len(p) /\ i + 1 # 1 /\ (i + 1) - 1 = i
    BY <1>1
  <2> QED  BY <1>1, <2>1
<1>4. Range(p) = Range(q) \cup {w}
  <2>1. ASSUME NEW x \in Range(p) PROVE x \in Range(q) \cup {w}
    BY <1>1, <1>2 DEF Range
  <2>2. ASSUME NEW x \in Range(q) PROVE x \in Range(p)
    <3>1. PICK i \in 1..Len(q) : q[i] = x
      BY <1>1 DEF Range
    <3>2. i + 1 \in DOMAIN p /\ p[i + 1] = x
      BY <1>1, <1>3, <3>1
    <3> QED  BY <3>2 DEF Range
  <2>3. w \in Range(p)
    BY <1>1 DEF Range
  <2> QED  BY <2>1, <2>2, <2>3
<1>5. ASSUME NoDup(q), w \notin Range(q) PROVE NoDup(p)
  <2> SUFFICES ASSUME NEW i \in 1..Len(p), NEW j \in 1..Len(p), p[i] = p[j]
               PROVE  i = j
    BY DEF NoDup
  <2>1. CASE i = 1 /\ j = 1
    BY <2>1
  <2>2. CASE i = 1 /\ j # 1
    BY <1>1, <1>2, <1>5, <2>2 DEF Range
  <2>3. CASE i # 1 /\ j = 1
    BY <1>1, <1>2, <1>5, <2>3 DEF Range
  <2>4. CASE i # 1 /\ j # 1
    <3>1. q[i - 1] = q[j - 1] /\ i - 1 \in 1..Len(q) /\ j - 1 \in 1..Len(q)
      BY <1>1, <1>2, <2>4
    <3>2. i - 1 = j - 1
      BY <1>5, <3>1 DEF NoDup
    <3> QED  BY <3>2
  <2> QED  BY <2>1, <2>2, <2>3, <2>4
<1> QED  BY <1>1, <1>4, <1>5 DEF p

\* pop takes exactly the head out of a queue without repetition.
LEMMA RangeTail ==
  ASSUME NEW S, NEW q \in Seq(S), q # <<>>, NoDup(q)
  PROVE  /\ Tail(q) \in Seq(S)
         /\ Head(q) \in Range(q) /\ Head(q) \in S
         /\ Range(Tail(q)) = Range(q) \ {Head(q)}
         /\ NoDup(Tail(q))
         /\ Len(q) > 0 /\ Len(Tail(q)) = Len(q) - 1
<1> DEFINE t == Tail(q)
<1>1. /\ t \in Seq(S)
      /\ Len(q) > 0 /\ Len(q) \in Nat /\ Len(t) = Len(q) - 1
      /\ Head(q) = q[1] /\ Head(q) \in S
      /\ DOMAIN t = 1..Len(t) /\ DOMAIN q = 1..Len(q)
      /\ \A i \in 1..Len(t) : t[i] = q[i + 1]
  OBVIOUS
<1> HIDE DEF t
<1>2. \A i \in 1..Len(t) : i + 1 \in 1..Len(q) /\ i + 1 # 1
  BY <1>1
<1>3. \A j \in 1..Len(q) : j # 1 => j - 1 \in 1..Len(t) /\ t[j - 1] = q[j]
  <2> TAKE j \in 1..Len(q)
  <2> HAVE j # 1
  <2>1. j - 1 \in 1..Len(t) /\ (j - 1) + 1 = j
    BY <1>1
  <2> QED  BY <1>1, <2>1
<1>4. 1 \in 1..Len(q)
  BY <1>1
<1>5. Head(q) \in Range(q)
  BY <1>1, <1>4 DEF Range
<1>6. Range(t) = Range(q) \ {Head(q)}
  <2>1. ASSUME NEW x \in Range(t) PROVE x \in Range(q) \ {Head(q)}
    <3>1. PICK i \in 1..Len(t) : x = t[i]
      BY <1>1 DEF Range
    <3>2. x = q[i + 1] /\ i + 1 \in 1..Len(q) /\ i + 1 # 1
      BY <1>1, <1>2, <3>1
    <3> QED  BY <1>1, <1>4, <3>2 DEF Range, NoDup
  <2>2. ASSUME NEW x \in Range(q) \ {Head(q)} PROVE x \in Range(t)
    <3>1. PICK j \in 1..Len(q) : x = q[j]
      BY <1>1 DEF Range
    <3>2. j - 1 \in 1..Len(t) /\ t[j - 1] = x
      BY <1>1, <1>3, <3>1
    <3> QED  BY <1>1, <3>2 DEF Range
  <2> QED  BY <2>1, <2>2
<1>7. NoDup(t)
  <2> SUFFICES ASSUME NEW i \in 1..Len(t), NEW j \in 1..Len(t), t[i] = t[j]
               PROVE  i = j
    BY DEF NoDup
  <2>1. q[i + 1] = q[j + 1] /\ i + 1 \in 1..Len(q) /\ j + 1 \in 1..Len(q)
    BY <1>1, <1>2
  <2>2. i + 1 = j + 1
    BY <2>1 DEF NoDup
  <2> QED  BY <2>2
<1> QED  BY <1>1, <1>5, <1>6, <1>7 DEF t

\* Taking the head off loses nothing but the head.
LEMMA HeadOrTail ==
  ASSUME NEW S, NEW q \in Seq(S), q # <<>>
  PROVE  /\ Tail(q) \in Seq(S) /\ Head(q) \in S
         /\ Range(q) \subseteq Range(Tail(q)) \cup {Head(q)}
         /\ Len(q) > 0 /\ Len(Tail(q)) = Len(q) - 1
<1> DEFINE t == Tail(q)
<1>1. /\ t \in Seq(S)
      /\ Len(q) > 0 /\ Len(q) \in Nat /\ Len(t) = Len(q) - 1
      /\ Head(q) = q[1] /\ Head(q) \in S
      /\ DOMAIN t = 1..Len(t) /\ DOMAIN q = 1..Len(q)
      /\ \A i \in 1..Len(t) : t[i] = q[i + 1]
  OBVIOUS
<1> HIDE DEF t
<1>2. ASSUME NEW j \in 1..Len(q), j # 1 PROVE q[j] \in Range(t)
  <2>1. j - 1 \in 1..Len(t) /\ (j - 1) + 1 = j
    BY <1>1, <1>2
  <2>2. t[j - 1] = q[j]
    BY <1>1, <2>1
  <2> QED  BY <1>1, <2>1, <2>2 DEF Range
<1>3. Range(q) \subseteq Range(t) \cup {Head(q)}
  BY <1>1, <1>2 DEF Range
<1> QED  BY <1>1, <1>3 DEF t

\* A queue is empty exactly when nobody is in it.
LEMMA RangeEmpty ==
  ASSUME NEW S, NEW q \in Seq(S)
  PROVE  /\ Range(q) \subseteq S
         /\ q = <<>> <=> Range(q) = {}
         /\ Len(q) \in Nat /\ (Len(q) = 0 <=> q = <<>>)
<1>1. /\ Len(q) \in Nat /\ DOMAIN q = 1..Len(q)
      /\ \A i \in 1..Len(q) : q[i] \in S
      /\ Len(q) = 0 <=> q = <<>>
  OBVIOUS
<1>2. Range(q) \subseteq S
  BY <1>1 DEF Range
<1>3. ASSUME q # <<>> PROVE Range(q) # {}
  <2>1. 1 \in DOMAIN q
    BY <1>1, <1>3
  <2> QED  BY <2>1 DEF Range
<1>4. ASSUME q = <<>> PROVE Range(q) = {}
  <2>1. DOMAIN q = {}
    BY <1>1, <1>4
  <2> QED  BY <2>1 DEF Range
<1> QED  BY <1>1, <1>2, <1>3, <1>4
==============================================================================
