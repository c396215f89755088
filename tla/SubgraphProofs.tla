--------------------------- MODULE SubgraphProofs ---------------------------
(***************************************************************************)
(* Theorems about the subgraph: for any number of events in a block, in    *)
(* any order in which the pool and its tokens emit them, the entities say  *)
(* what the chain says.  The events that wait in the block are accounted   *)
(* for by what handling them would leave.                                  *)
(***************************************************************************)
EXTENDS SubgraphProperties, TranchedPoolProofs, SequenceTheorems

-----------------------------------------------------------------------------
(* Sequences of events.                                                    *)

\* The equation that the concatenations of the first members of b solve.
Flattens(b, g) ==
    g = [i \in 1..Len(b) |-> IF i = 1 THEN b[i] ELSE g[i - 1] \o b[i]]

LEMMA FlattenUnfolds ==
    ASSUME NEW b, Len(b) # 0
    PROVE  FlattenSeq(b) = (CHOOSE g : Flattens(b, g))[Len(b)]
BY DEF FlattenSeq, Flattens

\* A recursive function on 1..n exists.
LEMMA FlattensExists ==
    ASSUME NEW E, NEW b \in Seq(Seq(E))
    PROVE  \E g : Flattens(b, g)
<1> DEFINE
      n == Len(b)
      step(g, i) == IF i = 1 THEN b[i] ELSE g[i - 1] \o b[i]
      G == {k \in Nat : \E g : \A i \in 1..n : i <= k => g[i] = step(g, i)}
<1>0. n \in Nat
  OBVIOUS
<1>1. 0 \in G
  <2> DEFINE g == [i \in 1..n |-> 0]
  <2>1. \A i \in 1..n : i <= 0 => g[i] = step(g, i)
    BY <1>0
  <2> QED BY <2>1
<1>2. ASSUME NEW k \in G PROVE k + 1 \in G
  <2>1. k \in Nat /\ k + 1 \in Nat
    OBVIOUS
  <2>2. PICK g : \A i \in 1..n : i <= k => g[i] = step(g, i)
    OBVIOUS
  <2> DEFINE h == [i \in 1..n |-> IF i <= k THEN g[i] ELSE step(g, i)]
  <2>3. ASSUME NEW i \in 1..n, i <= k + 1 PROVE h[i] = step(h, i)
    <3>1. h[i] = step(g, i)
      BY <2>2
    <3>2. CASE i = 1
      BY <3>1, <3>2
    <3>3. CASE i # 1
      <4>1. i - 1 \in 1..n /\ i - 1 <= k
        BY <1>0, <2>1, <2>3, <3>3
      <4>2. h[i - 1] = g[i - 1]
        BY <4>1
      <4> QED BY <3>1, <3>3, <4>2
    <3> QED BY <3>2, <3>3
  <2> HIDE DEF h
  <2> QED BY <2>1, <2>3
<1> HIDE DEF G
<1>3. G = Nat
  <2>1. G \subseteq Nat
    BY DEF G
  <2> QED BY <1>1, <1>2, <2>1, NaturalsFromZero
<1>4. PICK g : \A i \in 1..n : i <= n => g[i] = step(g, i)
  BY <1>0, <1>3 DEF G
<1> DEFINE h == [i \in 1..n |-> g[i]]
<1>5. ASSUME NEW i \in 1..n PROVE h[i] = step(h, i)
  <2>1. h[i] = step(g, i)
    BY <1>0, <1>4
  <2>2. i # 1 => i - 1 \in 1..n
    BY <1>0
  <2> QED BY <2>1, <2>2
<1>6. Flattens(b, h)
  <2>1. h = [i \in 1..n |-> step(h, i)]
    BY <1>5
  <2> QED BY <2>1 DEF Flattens
<1> QED BY <1>6

Flattening(b) == CHOOSE g : Flattens(b, g)

LEMMA FlatteningEquation ==
    ASSUME NEW E, NEW b \in Seq(Seq(E)), NEW i \in 1..Len(b)
    PROVE  Flattening(b)[i] = IF i = 1 THEN b[i] ELSE Flattening(b)[i - 1] \o b[i]
<1>1. Flattens(b, Flattening(b))
  BY FlattensExists DEF Flattening
<1> QED BY <1>1 DEF Flattens

LEMMA FlattenEmpty == FlattenSeq(<<>>) = <<>>
BY DEF FlattenSeq

\* What a flattened prefix is does not depend on what follows.
LEMMA FlatteningPrefix ==
    ASSUME NEW E, NEW b \in Seq(Seq(E)), NEW c \in Seq(Seq(E)),
           Len(b) <= Len(c), \A i \in 1..Len(b) : b[i] = c[i]
    PROVE  \A i \in 1..Len(b) : Flattening(b)[i] = Flattening(c)[i] /\ Flattening(b)[i] \in Seq(E)
<1> DEFINE
      n == Len(b)
      Same(i) == Flattening(b)[i] = Flattening(c)[i] /\ Flattening(b)[i] \in Seq(E)
      G == {k \in Nat : \A i \in 1..n : i <= k => Same(i)}
<1>0. n \in Nat /\ Len(c) \in Nat /\ 1..n \subseteq 1..Len(c)
  OBVIOUS
<1>1. 0 \in G
  BY <1>0
<1>2. ASSUME NEW k \in G PROVE k + 1 \in G
  <2>1. k \in Nat /\ k + 1 \in Nat
    OBVIOUS
  <2>2. ASSUME NEW i \in 1..n, i <= k + 1 PROVE Same(i)
    <3>1. /\ Flattening(b)[i] = IF i = 1 THEN b[i] ELSE Flattening(b)[i - 1] \o b[i]
          /\ Flattening(c)[i] = IF i = 1 THEN c[i] ELSE Flattening(c)[i - 1] \o c[i]
      BY <1>0, FlatteningEquation
    <3>2. b[i] \in Seq(E) /\ b[i] = c[i]
      OBVIOUS
    <3>3. CASE i = 1
      BY <3>1, <3>2, <3>3
    <3>4. CASE i # 1
      <4>1. i - 1 \in 1..n /\ i - 1 <= k
        BY <1>0, <2>1, <2>2, <3>4
      <4>2. Same(i - 1)
        BY <4>1
      <4> QED BY <3>1, <3>2, <3>4, <4>2, ConcatProperties
    <3> QED BY <3>3, <3>4
  <2> QED BY <2>1, <2>2
<1> HIDE DEF G
<1>3. G = Nat
  <2>1. G \subseteq Nat
    BY DEF G
  <2> QED BY <1>1, <1>2, <2>1, NaturalsFromZero
<1>4. \A i \in 1..n : i <= n => Same(i)
  BY <1>0, <1>3 DEF G
<1> HIDE DEF Same
<1>5. \A i \in 1..Len(b) : Same(i)
  BY <1>0, <1>4
<1> QED BY <1>5 DEF Same

LEMMA FlattenType ==
    ASSUME NEW E, NEW b \in Seq(Seq(E))
    PROVE  FlattenSeq(b) \in Seq(E)
<1>1. CASE Len(b) = 0
  <2>1. FlattenSeq(b) = b /\ b = <<>>
    BY <1>1, EmptySeq DEF FlattenSeq
  <2> QED BY <2>1
<1>2. CASE Len(b) # 0
  <2>1. Len(b) \in 1..Len(b)
    BY <1>2, LenProperties
  <2>2. Flattening(b)[Len(b)] \in Seq(E)
    BY <2>1, FlatteningPrefix
  <2> QED BY <1>2, <2>2, FlattenUnfolds DEF Flattening
<1> QED BY <1>1, <1>2

\* The events of another transaction come after those of the ones before.
LEMMA FlattenAppend ==
    ASSUME NEW E, NEW b \in Seq(Seq(E)), NEW last \in Seq(E)
    PROVE  FlattenSeq(Append(b, last)) = FlattenSeq(b) \o last
<1> DEFINE c == Append(b, last)
<1>1. /\ c \in Seq(Seq(E)) /\ Len(b) \in Nat /\ Len(c) = Len(b) + 1 /\ c[Len(c)] = last
      /\ \A i \in 1..Len(b) : b[i] = c[i]
  BY AppendProperties, LenProperties
<1> HIDE DEF c
<1>2. FlattenSeq(c) = Flattening(c)[Len(c)]
  BY <1>1, FlattenUnfolds DEF Flattening
<1>3. CASE Len(b) = 0
  <2>1. FlattenSeq(b) = <<>>
    BY <1>3, EmptySeq DEF FlattenSeq
  <2>2. Flattening(c)[1] = last
    BY <1>1, <1>3, FlatteningEquation
  <2> QED BY <1>1, <1>2, <1>3, <2>1, <2>2, ConcatEmptySeq DEF c
<1>4. CASE Len(b) # 0
  <2>1. FlattenSeq(b) = Flattening(b)[Len(b)]
    BY <1>4, FlattenUnfolds DEF Flattening
  <2>2. Flattening(b)[Len(b)] = Flattening(c)[Len(b)]
    <3>1. Len(b) \in 1..Len(b) /\ Len(b) <= Len(c)
      BY <1>1, <1>4
    <3> QED BY <1>1, <3>1, FlatteningPrefix
  <2>3. Flattening(c)[Len(c)] = Flattening(c)[Len(c) - 1] \o c[Len(c)]
    <3>1. Len(c) \in 1..Len(c) /\ Len(c) # 1
      BY <1>1, <1>4
    <3> QED BY <1>1, <3>1, FlatteningEquation
  <2>4. Len(c) - 1 = Len(b)
    BY <1>1
  <2> QED BY <1>1, <1>2, <2>1, <2>2, <2>3, <2>4 DEF c
<1> QED BY <1>3, <1>4

-----------------------------------------------------------------------------
(* Handling a sequence of events, one after the other.                     *)

\* The equation by which FoldLeft is defined, for the handlers.
Handles(base, F, g) ==
    g = [s \in SUBSET (DOMAIN F) |->
            IF s = {} THEN base ELSE Handle(g[s \ {Max(s)}], F[Max(s)])]

LEMMA FoldUnfolds ==
    ASSUME NEW base, NEW F
    PROVE  FoldLeft(Handle, base, F) = (CHOOSE g : Handles(base, F, g))[DOMAIN F]
BY DEF FoldLeft, MapThenFoldSet, Handles

LEMMA LargestOfPrefix ==
    ASSUME NEW k \in Nat, NEW s \in SUBSET (1..(k + 1)), k + 1 \in s
    PROVE  Max(s) = k + 1 /\ s \ {Max(s)} \subseteq 1..k
<1>1. \A y \in s : k + 1 >= y
  OBVIOUS
<1>2. ASSUME NEW x \in s, \A y \in s : x >= y PROVE x = k + 1
  <2>1. x >= k + 1 /\ x \in 1..(k + 1)
    BY <1>2
  <2> QED BY <2>1
<1>3. Max(s) = k + 1
  BY <1>1, <1>2 DEF Max
<1>4. s \ {k + 1} \subseteq 1..k
  OBVIOUS
<1> QED BY <1>3, <1>4

LEMMA HandlesExists ==
    ASSUME NEW base, NEW F, NEW n \in Nat, DOMAIN F = 1..n
    PROVE  \E g : Handles(base, F, g)
<1> DEFINE
      step(g, s) == IF s = {} THEN base ELSE Handle(g[s \ {Max(s)}], F[Max(s)])
      Upto(k) == {s \in SUBSET (1..n) : s \subseteq 1..k}
      G == {k \in Nat : \E g : \A s \in Upto(k) : g[s] = step(g, s)}
<1>1. 0 \in G
  <2> DEFINE g == [s \in SUBSET (1..n) |-> base]
  <2>1. ASSUME NEW s \in Upto(0) PROVE g[s] = step(g, s)
    <3>1. s = {}
      OBVIOUS
    <3> QED BY <3>1
  <2> HIDE DEF g
  <2> QED BY <2>1
<1>2. ASSUME NEW k \in G PROVE k + 1 \in G
  <2>1. k \in Nat /\ k + 1 \in Nat
    OBVIOUS
  <2>2. PICK g : \A s \in Upto(k) : g[s] = step(g, s)
    OBVIOUS
  <2> DEFINE h == [s \in SUBSET (1..n) |-> IF s \subseteq 1..k THEN g[s] ELSE step(g, s)]
  <2>3. ASSUME NEW s \in Upto(k) PROVE h[s] = g[s]
    BY <2>3
  <2>4. ASSUME NEW s \in Upto(k + 1) PROVE h[s] = step(h, s)
    <3>1. CASE s = {}
      BY <2>2, <3>1
    <3>2. h[s] = step(g, s)
      BY <2>2
    <3>3. ASSUME s # {} PROVE s \ {Max(s)} \in Upto(k)
      <4>1. CASE k + 1 \in s
        BY <2>1, <4>1, LargestOfPrefix
      <4>2. CASE ~ (k + 1 \in s)
        <5>1. s \subseteq 1..k
          BY <2>1, <4>2
        <5> QED BY <5>1
      <4> QED BY <4>1, <4>2
    <3>4. s # {} => h[s \ {Max(s)}] = g[s \ {Max(s)}]
      BY <2>3, <3>3
    <3> QED BY <3>1, <3>2, <3>4
  <2> HIDE DEF h
  <2> QED BY <2>1, <2>4
<1> HIDE DEF G
<1>3. G = Nat
  <2>1. G \subseteq Nat
    BY DEF G
  <2> QED BY <1>1, <1>2, <2>1, NaturalsFromZero
<1>4. PICK g : \A s \in Upto(n) : g[s] = step(g, s)
  BY <1>3 DEF G
<1> DEFINE h == [s \in SUBSET (1..n) |-> g[s]]
<1>5. ASSUME NEW s \in SUBSET (1..n) PROVE h[s] = step(h, s)
  <2>1. h[s] = step(g, s)
    BY <1>4
  <2>2. s \ {Max(s)} \in SUBSET (1..n)
    OBVIOUS
  <2>3. h[s \ {Max(s)}] = g[s \ {Max(s)}]
    BY <2>2
  <2> QED BY <2>1, <2>3
<1>6. h = [s \in SUBSET (1..n) |-> step(h, s)]
  BY <1>5
<1> HIDE DEF h
<1>7. Handles(base, F, h)
  BY <1>6 DEF Handles
<1> QED BY <1>7

\* What is left after each of the events.
Handled(q, base, F) ==
    /\ q[0] = base
    /\ \A i \in 1..Len(F) : q[i] = Handle(q[i - 1], F[i])

LEMMA FoldIsHandled ==
    ASSUME NEW E, NEW F \in Seq(E), NEW base
    PROVE  \E q : Handled(q, base, F) /\ q[Len(F)] = FoldLeft(Handle, base, F)
<1> DEFINE g == CHOOSE h : Handles(base, F, h)
           n == Len(F)
<1>1. n \in Nat /\ DOMAIN F = 1..n
  OBVIOUS
<1>2. Handles(base, F, g)
  BY <1>1, HandlesExists
<1>3. g[1..n] = FoldLeft(Handle, base, F)
  BY <1>1, FoldUnfolds
<1> HIDE DEF g, n
<1>4. ASSUME NEW s \in SUBSET (1..n)
      PROVE  g[s] = IF s = {} THEN base ELSE Handle(g[s \ {Max(s)}], F[Max(s)])
  BY <1>1, <1>2 DEF Handles
<1> DEFINE q == [i \in 0..n |-> g[1..i]]
<1>5. q[0] = base
  <2>1. 1..0 = {} /\ 0 \in 0..n
    BY <1>1
  <2>2. q[0] = g[{}]
    BY <2>1
  <2> HIDE DEF q
  <2> QED BY <1>4, <2>2
<1>6. ASSUME NEW i \in 1..n PROVE q[i] = Handle(q[i - 1], F[i])
  <2>1. i - 1 \in Nat /\ i - 1 \in 0..n /\ i \in 0..n /\ (i - 1) + 1 = i
    BY <1>1
  <2>2. 1..i \in SUBSET (1..n) /\ i \in 1..i
    BY <1>1
  <2>3. Max(1..i) = i
    BY <2>1, <2>2, LargestOfPrefix
  <2>4. (1..i) \ {i} = 1..(i - 1)
    BY <1>1
  <2> QED BY <1>4, <2>1, <2>2, <2>3, <2>4
<1>7. q[n] = FoldLeft(Handle, base, F)
  BY <1>1, <1>3
<1> HIDE DEF q
<1> QED BY <1>5, <1>6, <1>7 DEF Handled, n

-----------------------------------------------------------------------------
(* Lists of tokens.                                                        *)

\* A list of the tokens in a set, each once.
Lists(q, ids) == q \in Seq(Nat) /\ IsInjective(q) /\ ToSet(q) = ids

LEMMA AppendLists ==
    ASSUME NEW q, NEW ids, Lists(q, ids), NEW id \in Nat, id \notin ids
    PROVE  Lists(Append(q, id), ids \cup {id})
<1> DEFINE r == Append(q, id)
<1>1. /\ r \in Seq(Nat) /\ Len(q) \in Nat /\ DOMAIN q = 1..Len(q)
      /\ DOMAIN r = 1..(Len(q) + 1) /\ r[Len(q) + 1] = id
      /\ \A i \in 1..Len(q) : r[i] = q[i]
  BY DEF Lists
<1> HIDE DEF r
<1>2. \A i \in DOMAIN r : i \in DOMAIN q \/ i = Len(q) + 1
  BY <1>1
<1>3. \A i \in DOMAIN q : i \in DOMAIN r /\ q[i] \in ids
  BY <1>1 DEF Lists, ToSet
<1>4. IsInjective(r)
  BY <1>1, <1>2, <1>3 DEF Lists, IsInjective
<1>5. ToSet(r) = ids \cup {id}
  <2>1. Len(q) + 1 \in DOMAIN r
    BY <1>1
  <2>2. \A x \in ids : \E i \in DOMAIN q : x = q[i]
    BY DEF Lists, ToSet
  <2> QED BY <1>1, <1>2, <1>3, <2>1, <2>2 DEF ToSet
<1> QED BY <1>1, <1>4, <1>5 DEF Lists, r

LEMMA AppendKeeps ==
    ASSUME NEW q \in Seq(Nat), NEW id \in Nat
    PROVE  Append(q, id) \in Seq(Nat) /\ \A x \in ToSet(q) : x \in ToSet(Append(q, id))
<1>1. /\ Append(q, id) \in Seq(Nat) /\ DOMAIN q \subseteq DOMAIN Append(q, id)
      /\ \A i \in DOMAIN q : Append(q, id)[i] = q[i]
  OBVIOUS
<1> QED BY <1>1 DEF ToSet

LEMMA LeastOf ==
    ASSUME NEW n \in Nat, NEW I \in SUBSET (1..n), I # {}
    PROVE  Min(I) \in I
<1> DEFINE G == {m \in Nat : \A j \in 1..m : j \notin I}
<1>1. ASSUME ~ \E k \in I : \A j \in I : k <= j PROVE FALSE
  <2>1. 0 \in G
    OBVIOUS
  <2>2. ASSUME NEW m \in G PROVE m + 1 \in G
    <3>1. m + 1 \notin I
      <4>1. SUFFICES ASSUME m + 1 \in I PROVE FALSE
        OBVIOUS
      <4>2. \A j \in I : m + 1 <= j
        OBVIOUS
      <4> QED BY <1>1, <4>1, <4>2
    <3> QED BY <3>1
  <2>3. G \subseteq Nat
    OBVIOUS
  <2> HIDE DEF G
  <2>4. G = Nat
    BY <2>1, <2>2, <2>3, NaturalsFromZero
  <2> QED BY <2>4 DEF G
<1>2. PICK k \in I : \A j \in I : k <= j
  BY <1>1
<1> QED BY <1>2 DEF Min

\* A sequence without one of its elements.
LEMMA RemoveAtFacts ==
    ASSUME NEW q \in Seq(Nat), NEW k \in 1..Len(q)
    PROVE  /\ RemoveAt(q, k) \in Seq(Nat) /\ DOMAIN RemoveAt(q, k) = 1..(Len(q) - 1)
           /\ \A i \in 1..(Len(q) - 1) :
                 RemoveAt(q, k)[i] = IF i < k THEN q[i] ELSE q[i + 1]
<1> DEFINE n == Len(q)
           r == RemoveAt(q, k)
<1>1. n \in Nat /\ DOMAIN q = 1..n /\ \A i \in 1..n : q[i] \in Nat
  OBVIOUS
<1>4. r = SubSeq(q, 1, k - 1) \o SubSeq(q, k + 1, n)
  BY DEF RemoveAt
<1> DEFINE a == SubSeq(q, 1, k - 1)
           b == SubSeq(q, k + 1, n)
<1>5. a \in Seq(Nat) /\ Len(a) = k - 1 /\ \A i \in 1..(k - 1) : a[i] = q[i]
  BY <1>1
<1>6. b \in Seq(Nat) /\ Len(b) = n - k /\ \A i \in 1..(n - k) : b[i] = q[i + k]
  <2>1. n \in Nat /\ k \in Nat /\ k <= n
    BY <1>1
  <2>2. \A i \in 1..(n - k) : (k + 1) + i - 1 = i + k
    BY <1>1
  <2> HIDE DEF b
  <2>3. b \in Seq(Nat) /\ Len(b) = IF k + 1 <= n THEN n - (k + 1) + 1 ELSE 0
    BY <1>1, <2>1, SubSeqProperties DEF b
  <2>4. \A i \in 1..(n - k) : b[i] = q[(k + 1) + i - 1]
    BY <1>1, <2>1, SubSeqProperties DEF b
  <2>5. \A i \in 1..(n - k) : b[i] = q[i + k]
    BY <2>2, <2>4
  <2>6. Len(b) = n - k
    <3> HIDE DEF n
    <3>1. (IF k + 1 <= n THEN n - (k + 1) + 1 ELSE 0) = n - k
      BY <2>1
    <3> QED BY <2>3, <3>1
  <2> QED BY <2>3, <2>5, <2>6
<1> HIDE DEF a, b
<1>7. /\ a \o b \in Seq(Nat) /\ Len(a \o b) = n - 1 /\ DOMAIN (a \o b) = 1..(n - 1)
      /\ \A i \in 1..(n - 1) : (a \o b)[i] = IF i <= k - 1 THEN a[i] ELSE b[i - (k - 1)]
  <2>1. (k - 1) + (n - k) = n - 1
    BY <1>1
  <2>2. a \o b \in Seq(Nat) /\ Len(a \o b) = Len(a) + Len(b)
    BY <1>5, <1>6, ConcatProperties
  <2>3. \A i \in 1..(Len(a) + Len(b)) :
           (a \o b)[i] = IF i <= Len(a) THEN a[i] ELSE b[i - Len(a)]
    BY <1>5, <1>6, ConcatProperties
  <2> QED BY <1>5, <1>6, <2>1, <2>2, <2>3, LenProperties
<1>8. r = a \o b
  BY <1>4 DEF a, b
<1> HIDE DEF r, n
<1>9. ASSUME NEW i \in 1..(n - 1) PROVE r[i] = IF i < k THEN q[i] ELSE q[i + 1]
  <2>1. CASE i < k
    BY <1>1, <1>5, <1>7, <1>8, <2>1
  <2>2. CASE ~ (i < k)
    <3>1. i - (k - 1) \in 1..(n - k) /\ (i - (k - 1)) + k = i + 1 /\ ~ (i <= k - 1)
      BY <1>1, <2>2
    <3> QED BY <1>6, <1>7, <1>8, <2>2, <3>1
  <2> QED BY <2>1, <2>2
<1>10. r \in Seq(Nat) /\ DOMAIN r = 1..(n - 1)
  BY <1>7, <1>8
<1> QED BY <1>9, <1>10 DEF n, r

\* The first of an element's occurrences is removed.
LEMMA RemoveFirstFacts ==
    ASSUME NEW q \in Seq(Nat), NEW id
    PROVE  \/ id \notin ToSet(q) /\ RemoveFirst(q, id) = q
           \/ \E k \in 1..Len(q) : q[k] = id /\ RemoveFirst(q, id) = RemoveAt(q, k)
<1> DEFINE I == {i \in 1..Len(q) : q[i] = id}
<1>1. Len(q) \in Nat /\ DOMAIN q = 1..Len(q)
  OBVIOUS
<1>2. CASE I = {}
  BY <1>1, <1>2 DEF RemoveFirst, ToSet
<1>3. CASE I # {}
  <2>1. SelectInSeq(q, LAMBDA v : v = id) = Min(I)
    BY <1>3 DEF SelectInSeq
  <2>2. Min(I) \in I
    <3> HIDE DEF I
    <3>1. I \in SUBSET (1..Len(q))
      BY DEF I
    <3> QED BY <1>1, <1>3, <3>1, LeastOf
  <2>3. RemoveFirst(q, id) = RemoveAt(q, Min(I))
    BY <1>3, <2>1 DEF RemoveFirst
  <2> QED BY <2>2, <2>3
<1> QED BY <1>2, <1>3

LEMMA RemoveFirstKeeps ==
    ASSUME NEW q \in Seq(Nat), NEW id
    PROVE  /\ RemoveFirst(q, id) \in Seq(Nat)
           /\ \A x \in ToSet(q) : x # id => x \in ToSet(RemoveFirst(q, id))
<1> DEFINE r == RemoveFirst(q, id)
           n == Len(q)
<1>1. CASE r = q
  BY <1>1
<1>2. ASSUME NEW k \in 1..n, q[k] = id, r = RemoveAt(q, k)
      PROVE  r \in Seq(Nat) /\ \A x \in ToSet(q) : x # id => x \in ToSet(r)
  <2> HIDE DEF r
  <2>1. /\ r \in Seq(Nat) /\ DOMAIN r = 1..(n - 1) /\ n \in Nat /\ DOMAIN q = 1..n
        /\ \A i \in 1..(n - 1) : r[i] = IF i < k THEN q[i] ELSE q[i + 1]
    <3>1. k \in 1..Len(q) /\ n = Len(q) /\ n \in Nat /\ DOMAIN q = 1..n
      OBVIOUS
    <3> HIDE DEF n
    <3> QED BY <1>2, <3>1, RemoveAtFacts
  <2> HIDE DEF n
  <2>2. ASSUME NEW x \in ToSet(q), x # id PROVE x \in ToSet(r)
    <3>1. PICK j \in 1..n : x = q[j]
      BY <2>1 DEF ToSet
    <3>2. j # k
      BY <1>2, <2>2, <3>1
    <3> DEFINE i == IF j < k THEN j ELSE j - 1
    <3>3. i \in 1..(n - 1) /\ j = IF i < k THEN i ELSE i + 1
      BY <1>2, <2>1, <3>2
    <3>4. r[i] = x
      BY <2>1, <3>1, <3>3
    <3> QED BY <2>1, <3>3, <3>4 DEF ToSet
  <2> QED BY <2>1, <2>2
<1> QED BY <1>1, <1>2, RemoveFirstFacts

LEMMA RemoveFirstLists ==
    ASSUME NEW q, NEW ids, Lists(q, ids), NEW id \in ids
    PROVE  Lists(RemoveFirst(q, id), ids \ {id})
<1> DEFINE n == Len(q)
           r == RemoveFirst(q, id)
<1>1. /\ q \in Seq(Nat) /\ n \in Nat /\ DOMAIN q = 1..n /\ \A i \in 1..n : q[i] \in Nat
      /\ \A i, j \in 1..n : q[i] = q[j] => i = j
  BY DEF Lists, IsInjective
<1>2. PICK k \in 1..n : q[k] = id /\ r = RemoveAt(q, k)
  BY <1>1, RemoveFirstFacts DEF Lists
<1> HIDE DEF r
<1>10. /\ r \in Seq(Nat) /\ DOMAIN r = 1..(n - 1)
       /\ \A i \in 1..(n - 1) : r[i] = IF i < k THEN q[i] ELSE q[i + 1]
  <2>1. k \in 1..Len(q) /\ n = Len(q)
    OBVIOUS
  <2> HIDE DEF n
  <2> QED BY <1>1, <1>2, <2>1, RemoveAtFacts
<1> HIDE DEF n
<1>9. ASSUME NEW i \in 1..(n - 1) PROVE r[i] = IF i < k THEN q[i] ELSE q[i + 1]
  BY <1>10
<1>11. IsInjective(r)
  <2> SUFFICES ASSUME NEW i \in 1..(n - 1), NEW j \in 1..(n - 1), r[i] = r[j] PROVE i = j
    BY <1>10 DEF IsInjective
  <2> DEFINE up(x) == IF x < k THEN x ELSE x + 1
  <2>1. up(i) \in 1..n /\ up(j) \in 1..n /\ r[i] = q[up(i)] /\ r[j] = q[up(j)]
    BY <1>1, <1>9
  <2>2. up(i) = up(j)
    BY <1>1, <2>1
  <2> QED BY <1>1, <2>2
<1>12. ToSet(r) = ids \ {id}
  <2>1. ASSUME NEW x \in ToSet(r) PROVE x \in ids /\ x # id
    <3>1. PICK i \in 1..(n - 1) : x = r[i]
      BY <1>10 DEF ToSet
    <3> DEFINE j == IF i < k THEN i ELSE i + 1
    <3>2. j \in 1..n /\ j # k /\ x = q[j]
      BY <1>1, <1>9, <3>1
    <3>3. q[j] \in ids
      BY <1>1, <3>2 DEF Lists, ToSet
    <3> QED BY <1>1, <1>2, <3>2, <3>3
  <2>2. ASSUME NEW x \in ids, x # id PROVE x \in ToSet(r)
    <3>1. PICK j \in 1..n : x = q[j]
      BY <1>1 DEF Lists, ToSet
    <3>2. j # k
      BY <1>2, <2>2, <3>1
    <3> DEFINE i == IF j < k THEN j ELSE j - 1
    <3>3. i \in 1..(n - 1) /\ j = IF i < k THEN i ELSE i + 1
      BY <1>1, <3>2
    <3>4. r[i] = x
      BY <1>9, <3>1, <3>3
    <3> QED BY <1>10, <3>3, <3>4 DEF ToSet
  <2> QED BY <2>1, <2>2
<1> QED BY <1>10, <1>11, <1>12 DEF Lists, r

-----------------------------------------------------------------------------
(* What a handler leaves, whatever it reads of the contracts.              *)

Everyone == Wallets \cup {Nobody}

IsStore(s) ==
    /\ DOMAIN s = {"tokens", "users", "poolTokens", "backers", "tranches", "juniorDeposited",
                   "lineBalance", "drawn", "principalAmountRepaid", "failed"}
    /\ s.failed \in BOOLEAN

TokenEvents == OfToken \cup {"TokenMinted"}

AfterTokenEvent(s, e) ==
    CASE e.name = "Transfer"                -> handleTransfer(s, e)
      [] e.name = "TokenMinted"             -> handleTokenMinted(s, e)
      [] e.name = "TokenBurned"             -> handleTokenBurned(s, e)
      [] e.name = "TokenRedeemed"           -> handleTokenRedeemed(s, e)
      [] e.name = "TokenPrincipalWithdrawn" -> handleTokenPrincipalWithdrawn(s, e)

\* The store in which handleTokenPrincipalWithdrawn looks at the other tokens.
AfterWithdrawal(s, e) == [s EXCEPT !.tokens[e.id].principalAmount = @ - e.amount]

\* Whether an assertion fails: of the handlers of tokens, one makes any.
CannotHandle(s, e) ==
    /\ e.name = "TokenPrincipalWithdrawn"
    /\ AssertsMissing(AfterWithdrawal(s, e), e.from)

SameTokens(s, t) == t.tokens = s.tokens /\ t.users = s.users

\* What t may be, with regard to tokens, backers and the loan, when e was handled in s.
Follows(s, t, e) ==
    /\ IsStore(s) /\ IsStore(t) /\ (s.failed => t.failed)
    /\ PassedOver(s, e) => t = s
    /\ ~PassedOver(s, e) =>
          /\ e.name \in TokenEvents /\ ~CannotHandle(s, e) =>
                SameTokens(AfterTokenEvent(s, e), t) /\ t.backers = AfterTokenEvent(s, e).backers
          /\ e.name \notin TokenEvents => SameTokens(s, t) /\ s.backers \subseteq t.backers
          /\ ~t.failed =>
                /\ t.drawn = IF e.name = "DrawdownMade" THEN s.drawn + e.amount ELSE s.drawn
                /\ t.principalAmountRepaid =
                      IF e.name = "PaymentApplied" THEN s.principalAmountRepaid + e.principal
                      ELSE s.principalAmountRepaid

LEMMA RefreshFacts ==
    ASSUME NEW s, IsStore(s)
    PROVE  /\ DOMAIN Refresh(s) = DOMAIN s /\ DOMAIN initOrUpdateTranchedPool(s) = DOMAIN s
           /\ \A x \in {"tokens", "users", "poolTokens", "backers", "drawn",
                        "principalAmountRepaid", "failed"} :
                 Refresh(s)[x] = s[x] /\ initOrUpdateTranchedPool(s)[x] = s[x]
           /\ Refresh(s).tranches = TrancheInfos
           /\ Refresh(s).juniorDeposited = JuniorDeposited
           /\ Refresh(s).lineBalance = balance
           /\ initOrUpdateTranchedPool(s).tranches = TrancheInfos
           /\ initOrUpdateTranchedPool(s).juniorDeposited = JuniorDeposited
           /\ initOrUpdateTranchedPool(s).lineBalance = s.lineBalance
BY DEF IsStore, Refresh, updatePoolCreditLine, initOrUpdateTranchedPool

LEMMA UpdateTokensFacts ==
    ASSUME NEW s, IsStore(s)
    PROVE  /\ DOMAIN UpdateTokens(s) = DOMAIN s
           /\ \A x \in DOMAIN s : x # "failed" => UpdateTokens(s)[x] = s[x]
           /\ UpdateTokens(s).failed \in {s.failed, TRUE}
BY DEF IsStore, UpdateTokens


\* The entities other than some.
SameBut(s, t, changed) ==
    DOMAIN t = DOMAIN s /\ \A x \in DOMAIN s : x \in changed \/ t[x] = s[x]

LEMMA TransferFields ==
    ASSUME NEW s, IsStore(s), NEW e
    PROVE  LET t == handleTransfer(s, e)
           IN  /\ SameBut(s, t, {"users", "tokens"})
               /\ t.users = [s.users EXCEPT ![e.from] = RemoveFirst(s.users[e.from], e.id),
                                            ![e.to] = Append(s.users[e.to], e.id)]
               /\ t.tokens = [s.tokens EXCEPT ![e.id].user = e.to]
BY DEF handleTransfer, IsStore, SameBut

LEMMA MintedFields ==
    ASSUME NEW s, IsStore(s), NEW e
    PROVE  LET t == handleTokenMinted(s, e)
           IN  /\ SameBut(s, t, {"users", "tokens", "poolTokens"})
               /\ t.users = [s.users EXCEPT ![e.to] = Append(@, e.id)]
               /\ t.tokens = Added(s.tokens, e.id, TokenEntity(e.to, e.amount))
               /\ t.poolTokens = s.poolTokens \cup {e.id}
<1> DEFINE t == handleTokenMinted(s, e)
           a == Added(s.tokens, e.id, TokenEntity(e.to, e.amount))
           b == s.poolTokens \cup {e.id}
           c == Append(s.users[e.to], e.id)
<1>1. t = [s EXCEPT !.tokens = a, !.poolTokens = b, !.users[e.to] = c]
  BY DEF handleTokenMinted
<1> HIDE DEF t, a, b, c
<1>2. /\ SameBut(s, t, {"users", "tokens", "poolTokens"})
      /\ t.tokens = a /\ t.poolTokens = b /\ t.users = [s.users EXCEPT ![e.to] = c]
  BY <1>1 DEF IsStore, SameBut
<1> QED BY <1>2 DEF t, a, b, c

LEMMA BurnedFields ==
    ASSUME NEW s, IsStore(s), NEW e
    PROVE  LET t == handleTokenBurned(s, e)
           IN  /\ SameBut(s, t, {"tokens"})
               /\ t.tokens = Restrict(s.tokens, DOMAIN s.tokens \ {e.id})
BY DEF handleTokenBurned, IsStore, SameBut

LEMMA RedeemedFields ==
    ASSUME NEW s, IsStore(s), NEW e
    PROVE  LET t == handleTokenRedeemed(s, e)
           IN  /\ SameBut(s, t, {"tokens"})
               /\ t.tokens = [s.tokens EXCEPT ![e.id].principalRedeemed = @ + e.principal,
                                              ![e.id].interestRedeemed = @ + e.interest]
BY DEF handleTokenRedeemed, IsStore, SameBut

WithdrawnBackers(s, e) ==
    IF ~ (AfterWithdrawal(s, e).tokens[e.id].principalAmount > 0)
         /\ isUserFullyWithdrawnFromPool(AfterWithdrawal(s, e), e.from)
    THEN s.backers \ {e.from} ELSE s.backers

LEMMA AfterWithdrawalFields ==
    ASSUME NEW s, IsStore(s), NEW e
    PROVE  /\ SameBut(s, AfterWithdrawal(s, e), {"tokens"})
           /\ AfterWithdrawal(s, e).tokens =
                 [s.tokens EXCEPT ![e.id].principalAmount = @ - e.amount]
BY DEF AfterWithdrawal, IsStore, SameBut

LEMMA WithdrawnFields ==
    ASSUME NEW s, IsStore(s), NEW e, ~AssertsMissing(AfterWithdrawal(s, e), e.from)
    PROVE  LET t == handleTokenPrincipalWithdrawn(s, e)
           IN  /\ SameBut(s, t, {"tokens", "backers"})
               /\ t.tokens = AfterWithdrawal(s, e).tokens
               /\ t.backers = WithdrawnBackers(s, e)
<1> DEFINE w == AfterWithdrawal(s, e)
           t == handleTokenPrincipalWithdrawn(s, e)
<1>1. t = IF w.tokens[e.id].principalAmount > 0 THEN w
          ELSE IF isUserFullyWithdrawnFromPool(w, e.from)
               THEN [w EXCEPT !.backers = @ \ {e.from}]
          ELSE w
  BY DEF handleTokenPrincipalWithdrawn, AfterWithdrawal
<1>2. SameBut(s, w, {"tokens"})
  BY AfterWithdrawalFields
<1> HIDE DEF w, t
<1>3. WithdrawnBackers(s, e) =
         IF ~ (w.tokens[e.id].principalAmount > 0) /\ isUserFullyWithdrawnFromPool(w, e.from)
         THEN s.backers \ {e.from} ELSE s.backers
  BY DEF WithdrawnBackers, w
<1>4. w.backers = s.backers /\ "backers" \in DOMAIN w
  BY <1>2 DEF SameBut, IsStore
<1>5. CASE ~ (w.tokens[e.id].principalAmount > 0) /\ isUserFullyWithdrawnFromPool(w, e.from)
  <2>1. t = [w EXCEPT !.backers = w.backers \ {e.from}]
    BY <1>1, <1>5
  <2>2. SameBut(w, t, {"backers"}) /\ t.backers = s.backers \ {e.from} /\ t.tokens = w.tokens
    BY <1>2, <1>4, <2>1 DEF SameBut, IsStore
  <2> QED BY <1>2, <1>3, <1>5, <2>2 DEF SameBut, t, w
<1>6. CASE ~ (~ (w.tokens[e.id].principalAmount > 0) /\ isUserFullyWithdrawnFromPool(w, e.from))
  <2>1. t = w
    BY <1>1, <1>6
  <2> QED BY <1>2, <1>3, <1>4, <1>6, <2>1 DEF SameBut, t, w
<1> QED BY <1>5, <1>6

\* What was handled before a failure, and whether any has failed, does not matter to
\* the handlers.
Reset(s) == [s EXCEPT !.failed = FALSE]

LEMMA ResetFields ==
    ASSUME NEW s, IsStore(s)
    PROVE  IsStore(Reset(s)) /\ SameBut(s, Reset(s), {"failed"}) /\ Reset(s).failed = FALSE
BY DEF Reset, IsStore, SameBut


LEMMA RefreshFields ==
    ASSUME NEW s, IsStore(s)
    PROVE  /\ SameBut(s, Refresh(s), {"tranches", "juniorDeposited", "lineBalance"})
           /\ SameBut(s, initOrUpdateTranchedPool(s), {"tranches", "juniorDeposited"})
           /\ IsStore(Refresh(s))
BY RefreshFacts DEF SameBut, IsStore

LEMMA DepositFields ==
    ASSUME NEW s, IsStore(s), NEW e
    PROVE  LET t == handleDepositMade(s, e)
           IN  /\ SameBut(s, t, {"backers", "tranches", "juniorDeposited", "lineBalance"})
               /\ t.backers = s.backers \cup {e.to}
               /\ t.lineBalance = balance
<1> DEFINE t == handleDepositMade(s, e)
           a == s.backers \cup {e.to}
           b == s.juniorDeposited + e.amount
           c == DepositCounted(s.tranches, e)
           u == [s EXCEPT !.backers = a, !.juniorDeposited = b, !.tranches = c]
<1>0. handleDepositMade(s, e) = updatePoolCreditLine(u)
  BY DEF handleDepositMade
<1>1. t = [[s EXCEPT !.backers = a, !.juniorDeposited = b, !.tranches = c]
              EXCEPT !.lineBalance = balance]
  BY <1>0 DEF updatePoolCreditLine
<1> HIDE DEF t, a, b
<1> HIDE DEF c
<1>2. /\ SameBut(s, t, {"backers", "tranches", "juniorDeposited", "lineBalance"})
      /\ t.backers = a /\ t.lineBalance = balance
  BY <1>1 DEF IsStore, SameBut
<1> QED BY <1>2 DEF t, a, b, c

LEMMA DrawdownFields ==
    ASSUME NEW s, IsStore(s), NEW e
    PROVE  LET t == handleDrawdownMade(s, e)
           IN  /\ SameBut(s, t, {"tranches", "juniorDeposited", "lineBalance", "drawn", "failed"})
               /\ t.drawn = s.drawn + e.amount
               /\ t.lineBalance = balance /\ t.failed \in {s.failed, TRUE}
               /\ t.tranches = TrancheInfos /\ t.juniorDeposited = JuniorDeposited
<1> DEFINE t == handleDrawdownMade(s, e)
           r == Refresh(s)
           u == UpdateTokens(r)
           a == u.drawn + e.amount
<1>1. IsStore(r) /\ SameBut(s, r, {"tranches", "juniorDeposited", "lineBalance"})
  BY RefreshFields
<1>2. /\ r.tranches = TrancheInfos /\ r.juniorDeposited = JuniorDeposited
      /\ r.lineBalance = balance
  BY RefreshFacts
<1> HIDE DEF r
<1>3. SameBut(r, u, {"failed"}) /\ u.failed \in {r.failed, TRUE}
  BY <1>1, UpdateTokensFacts DEF SameBut
<1>4. t = [u EXCEPT !.drawn = a]
  BY DEF handleDrawdownMade, r
<1>5. a = s.drawn + e.amount /\ DOMAIN u = DOMAIN s /\ r.failed = s.failed
  BY <1>1, <1>3 DEF SameBut, IsStore
<1> HIDE DEF t, u, a
<1>6. SameBut(u, t, {"drawn"}) /\ t.drawn = a
  BY <1>4, <1>5 DEF SameBut, IsStore
<1>7. SameBut(s, t, {"tranches", "juniorDeposited", "lineBalance", "drawn", "failed"})
  BY <1>1, <1>3, <1>6 DEF SameBut
<1>8. /\ t.lineBalance = r.lineBalance /\ t.failed = u.failed
      /\ t.tranches = r.tranches /\ t.juniorDeposited = r.juniorDeposited
  BY <1>1, <1>3, <1>6 DEF SameBut, IsStore
<1> QED BY <1>2, <1>3, <1>5, <1>6, <1>7, <1>8 DEF t

LEMMA PaymentFields ==
    ASSUME NEW s, IsStore(s), NEW e
    PROVE  LET t == handlePaymentApplied(s, e)
           IN  /\ SameBut(s, t, {"tranches", "juniorDeposited", "lineBalance",
                                 "principalAmountRepaid", "failed"})
               /\ t.principalAmountRepaid = s.principalAmountRepaid + e.principal
               /\ t.lineBalance = balance /\ t.failed \in {s.failed, TRUE}
               /\ t.tranches = TrancheInfos /\ t.juniorDeposited = JuniorDeposited
<1> DEFINE t == handlePaymentApplied(s, e)
           r == Refresh(s)
           a == r.principalAmountRepaid + e.principal
           u == [r EXCEPT !.principalAmountRepaid = a]
<1>1. IsStore(r) /\ SameBut(s, r, {"tranches", "juniorDeposited", "lineBalance"})
  BY RefreshFields
<1>2. /\ r.tranches = TrancheInfos /\ r.juniorDeposited = JuniorDeposited
      /\ r.lineBalance = balance
  BY RefreshFacts
<1>3. t = UpdateTokens(u)
  BY DEF handlePaymentApplied
<1> HIDE DEF r
<1>4. a = s.principalAmountRepaid + e.principal
  BY <1>1 DEF SameBut, IsStore
<1> HIDE DEF a
<1>5. SameBut(r, u, {"principalAmountRepaid"}) /\ u.principalAmountRepaid = a
  BY <1>1 DEF SameBut, IsStore
<1> HIDE DEF u
<1>6. IsStore(u) /\ u.failed = s.failed
  BY <1>1, <1>5 DEF SameBut, IsStore
<1>7. SameBut(u, t, {"failed"}) /\ t.failed \in {u.failed, TRUE}
  BY <1>3, <1>6, UpdateTokensFacts DEF SameBut
<1> HIDE DEF t
<1>8. SameBut(s, t, {"tranches", "juniorDeposited", "lineBalance",
                     "principalAmountRepaid", "failed"})
  BY <1>1, <1>5, <1>7 DEF SameBut
<1>9. /\ t.lineBalance = r.lineBalance /\ t.principalAmountRepaid = a
      /\ t.tranches = r.tranches /\ t.juniorDeposited = r.juniorDeposited
  BY <1>1, <1>5, <1>6, <1>7 DEF SameBut, IsStore
<1> QED BY <1>2, <1>4, <1>6, <1>7, <1>8, <1>9 DEF t

\* The handlers of the pool's events, and what they read of the contracts.
PoolFields == {"backers", "tranches", "juniorDeposited", "lineBalance",
               "drawn", "principalAmountRepaid", "failed"}

LEMMA PoolHandlerFacts ==
    ASSUME NEW s, IsStore(s), NEW e, e.name \notin TokenEvents
    PROVE  LET t == Handler(s, e)
           IN  /\ SameBut(s, t, PoolFields)
               /\ s.backers \subseteq t.backers /\ t.failed \in {s.failed, TRUE}
               /\ t.drawn = IF e.name = "DrawdownMade" THEN s.drawn + e.amount ELSE s.drawn
               /\ t.principalAmountRepaid =
                     IF e.name = "PaymentApplied" THEN s.principalAmountRepaid + e.principal
                     ELSE s.principalAmountRepaid
               /\ t.lineBalance \in {s.lineBalance, balance}
               /\ e.name \in {"DrawdownMade", "PaymentApplied"} => t.lineBalance = balance
               /\ e.name # "DepositMade" =>
                     t.tranches = TrancheInfos /\ t.juniorDeposited = JuniorDeposited
<1>1. /\ e.name # "Transfer" /\ e.name # "TokenMinted" /\ e.name # "TokenBurned"
      /\ e.name # "TokenRedeemed" /\ e.name # "TokenPrincipalWithdrawn"
  BY DEF TokenEvents, OfToken
<1> DEFINE t == Handler(s, e)
<1>2. CASE e.name = "DepositMade"
  <2>1. t = handleDepositMade(s, e)
    BY <1>2 DEF Handler
  <2> HIDE DEF t
  <2>2. /\ SameBut(s, t, {"backers", "tranches", "juniorDeposited", "lineBalance"})
        /\ t.backers = s.backers \cup {e.to}
        /\ t.lineBalance = balance
    BY <2>1, DepositFields
  <2>3. /\ SameBut(s, t, PoolFields) /\ t.failed = s.failed /\ t.drawn = s.drawn
        /\ t.principalAmountRepaid = s.principalAmountRepaid
    BY <2>2 DEF SameBut, PoolFields, IsStore
  <2> QED BY <1>2, <2>2, <2>3 DEF t
<1>3. CASE e.name = "DrawdownMade"
  <2>1. t = handleDrawdownMade(s, e)
    BY <1>3 DEF Handler
  <2> HIDE DEF t
  <2>2. /\ SameBut(s, t, {"tranches", "juniorDeposited", "lineBalance", "drawn", "failed"})
        /\ t.drawn = s.drawn + e.amount
        /\ t.lineBalance = balance /\ t.failed \in {s.failed, TRUE}
        /\ t.tranches = TrancheInfos /\ t.juniorDeposited = JuniorDeposited
    BY <2>1, DrawdownFields
  <2>3. /\ SameBut(s, t, PoolFields) /\ t.backers = s.backers
        /\ t.principalAmountRepaid = s.principalAmountRepaid
    BY <2>2 DEF SameBut, PoolFields, IsStore
  <2> QED BY <1>3, <2>2, <2>3 DEF t
<1>4. CASE e.name = "PaymentApplied"
  <2>1. t = handlePaymentApplied(s, e)
    BY <1>4 DEF Handler
  <2> HIDE DEF t
  <2>2. /\ SameBut(s, t, {"tranches", "juniorDeposited", "lineBalance",
                          "principalAmountRepaid", "failed"})
        /\ t.principalAmountRepaid = s.principalAmountRepaid + e.principal
        /\ t.lineBalance = balance /\ t.failed \in {s.failed, TRUE}
        /\ t.tranches = TrancheInfos /\ t.juniorDeposited = JuniorDeposited
    BY <2>1, PaymentFields
  <2>3. /\ SameBut(s, t, PoolFields) /\ t.backers = s.backers /\ t.drawn = s.drawn
    BY <2>2 DEF SameBut, PoolFields, IsStore
  <2> QED BY <1>4, <2>2, <2>3 DEF t
<1>5. CASE ~ (e.name \in {"DepositMade", "DrawdownMade", "PaymentApplied"})
  <2>1. t = initOrUpdateTranchedPool(s) \/ t = Refresh(s)
    BY <1>1, <1>5 DEF Handler
  <2> HIDE DEF t
  <2>2. /\ SameBut(s, t, {"tranches", "juniorDeposited", "lineBalance"})
        /\ t.tranches = TrancheInfos /\ t.juniorDeposited = JuniorDeposited
        /\ t.lineBalance \in {s.lineBalance, balance}
    <3>1. CASE t = initOrUpdateTranchedPool(s)
      BY <3>1, RefreshFields, RefreshFacts DEF SameBut
    <3>2. CASE t = Refresh(s)
      BY <3>2, RefreshFields, RefreshFacts
    <3> QED BY <2>1, <3>1, <3>2
  <2>3. /\ SameBut(s, t, PoolFields) /\ t.failed = s.failed /\ t.drawn = s.drawn
        /\ t.principalAmountRepaid = s.principalAmountRepaid /\ t.backers = s.backers
    BY <2>2 DEF SameBut, PoolFields, IsStore
  <2> QED BY <1>5, <2>2, <2>3 DEF t
<1> QED BY <1>2, <1>3, <1>4, <1>5

\* The handlers of the tokens' events.
TokenFields == {"tokens", "users", "poolTokens", "backers", "failed"}

LEMMA WithdrawnSame ==
    ASSUME NEW s, IsStore(s), NEW e
    PROVE  SameBut(s, handleTokenPrincipalWithdrawn(s, e), {"tokens", "backers", "failed"})
<1> DEFINE w == AfterWithdrawal(s, e)
           t == handleTokenPrincipalWithdrawn(s, e)
<1>1. t \in {w, [w EXCEPT !.failed = TRUE], [w EXCEPT !.backers = w.backers \ {e.from}]}
  BY DEF handleTokenPrincipalWithdrawn, AfterWithdrawal
<1>2. SameBut(s, w, {"tokens"})
  BY AfterWithdrawalFields
<1> HIDE DEF w, t
<1>3. SameBut(w, t, {"failed", "backers"})
  BY <1>1, <1>2 DEF SameBut, IsStore
<1> QED BY <1>2, <1>3 DEF SameBut, t

\* handleTokenPrincipalWithdrawn does not look at whether a handler has failed.
LEMMA AfterWithdrawalReset ==
    ASSUME NEW s, IsStore(s), NEW e
    PROVE  /\ AssertsMissing(AfterWithdrawal(Reset(s), e), e.from)
                 <=> AssertsMissing(AfterWithdrawal(s, e), e.from)
           /\ AfterWithdrawal(Reset(s), e).tokens = AfterWithdrawal(s, e).tokens
           /\ WithdrawnBackers(Reset(s), e) = WithdrawnBackers(s, e)
<1> DEFINE r == Reset(s)
           v == AfterWithdrawal(r, e)
           w == AfterWithdrawal(s, e)
<1>1. IsStore(r) /\ SameBut(s, r, {"failed"})
  BY ResetFields
<1> HIDE DEF r
<1>2. /\ SameBut(r, v, {"tokens"}) /\ SameBut(s, w, {"tokens"})
      /\ v.tokens = [r.tokens EXCEPT ![e.id].principalAmount = @ - e.amount]
      /\ w.tokens = [s.tokens EXCEPT ![e.id].principalAmount = @ - e.amount]
  BY <1>1, AfterWithdrawalFields
<1>3. r.tokens = s.tokens /\ r.users = s.users /\ r.backers = s.backers
  BY <1>1 DEF SameBut, IsStore
<1>4. v.tokens = w.tokens
  BY <1>2, <1>3
<1>5. v.users = w.users
  BY <1>1, <1>2, <1>3 DEF SameBut, IsStore
<1> HIDE DEF v, w
<1>6. AssertsMissing(v, e.from) <=> AssertsMissing(w, e.from)
  BY <1>4, <1>5 DEF AssertsMissing, HasPrincipal
<1>7. isUserFullyWithdrawnFromPool(v, e.from) <=> isUserFullyWithdrawnFromPool(w, e.from)
  BY <1>4, <1>5 DEF isUserFullyWithdrawnFromPool, HasPrincipal
<1>8. WithdrawnBackers(r, e) = WithdrawnBackers(s, e)
  BY <1>3, <1>4, <1>7 DEF WithdrawnBackers, v, w
<1> QED BY <1>4, <1>6, <1>8 DEF v, w, r

LEMMA TokenHandlerFacts ==
    ASSUME NEW s, IsStore(s), NEW e, e.name \in TokenEvents
    PROVE  LET t == Handler(Reset(s), e)
               h == AfterTokenEvent(s, e)
           IN  /\ SameBut(s, t, TokenFields)
               /\ ~CannotHandle(s, e) =>
                     /\ t.failed = FALSE
                     /\ t.tokens = h.tokens /\ t.users = h.users /\ t.backers = h.backers
<1> DEFINE r == Reset(s)
           t == Handler(r, e)
           h == AfterTokenEvent(s, e)
<1>0. IsStore(r) /\ SameBut(s, r, {"failed"}) /\ r.failed = FALSE
  BY ResetFields
<1>1. r.tokens = s.tokens /\ r.users = s.users /\ r.backers = s.backers
  BY <1>0 DEF SameBut, IsStore
<1> HIDE DEF r
<1>2. CASE e.name = "Transfer"
  <2>1. t = handleTransfer(r, e) /\ h = handleTransfer(s, e)
    BY <1>2 DEF Handler, AfterTokenEvent
  <2> HIDE DEF t, h
  <2>2. /\ SameBut(r, t, {"users", "tokens"}) /\ SameBut(s, h, {"users", "tokens"})
        /\ t.users = h.users /\ t.tokens = h.tokens
    <3>1. /\ SameBut(r, t, {"users", "tokens"})
          /\ t.users = [r.users EXCEPT ![e.from] = RemoveFirst(r.users[e.from], e.id),
                                   ![e.to] = Append(r.users[e.to], e.id)]
          /\ t.tokens = [r.tokens EXCEPT ![e.id].user = e.to]
      BY <1>0, <2>1, TransferFields
    <3>2. /\ SameBut(s, h, {"users", "tokens"})
          /\ h.users = [s.users EXCEPT ![e.from] = RemoveFirst(s.users[e.from], e.id),
                                   ![e.to] = Append(s.users[e.to], e.id)]
          /\ h.tokens = [s.tokens EXCEPT ![e.id].user = e.to]
      BY <1>0, <2>1, TransferFields
    <3> QED BY <1>1, <3>1, <3>2
  <2>3. SameBut(s, t, TokenFields) /\ t.failed = FALSE /\ t.backers = h.backers
    BY <1>0, <1>1, <2>2 DEF SameBut, TokenFields, IsStore
  <2> QED BY <2>2, <2>3 DEF t, h, r
<1>3. CASE e.name = "TokenMinted"
  <2>1. t = handleTokenMinted(r, e) /\ h = handleTokenMinted(s, e)
    BY <1>3 DEF Handler, AfterTokenEvent
  <2> HIDE DEF t, h
  <2>2. /\ SameBut(r, t, {"users", "tokens", "poolTokens"})
        /\ SameBut(s, h, {"users", "tokens", "poolTokens"})
        /\ t.users = h.users /\ t.tokens = h.tokens
    <3>1. /\ SameBut(r, t, {"users", "tokens", "poolTokens"})
          /\ t.users = [r.users EXCEPT ![e.to] = Append(@, e.id)]
          /\ t.tokens = Added(r.tokens, e.id, TokenEntity(e.to, e.amount))
      BY <1>0, <2>1, MintedFields
    <3>2. /\ SameBut(s, h, {"users", "tokens", "poolTokens"})
          /\ h.users = [s.users EXCEPT ![e.to] = Append(@, e.id)]
          /\ h.tokens = Added(s.tokens, e.id, TokenEntity(e.to, e.amount))
      BY <1>0, <2>1, MintedFields
    <3> QED BY <1>1, <3>1, <3>2
  <2>3. SameBut(s, t, TokenFields) /\ t.failed = FALSE /\ t.backers = h.backers
    BY <1>0, <1>1, <2>2 DEF SameBut, TokenFields, IsStore
  <2> QED BY <2>2, <2>3 DEF t, h, r
<1>4. CASE e.name = "TokenBurned"
  <2>1. t = handleTokenBurned(r, e) /\ h = handleTokenBurned(s, e)
    BY <1>4 DEF Handler, AfterTokenEvent
  <2> HIDE DEF t, h
  <2>2. /\ SameBut(r, t, {"tokens"}) /\ SameBut(s, h, {"tokens"})
        /\ t.tokens = h.tokens
    BY <1>0, <1>1, <2>1, BurnedFields
  <2>3. /\ SameBut(s, t, TokenFields) /\ t.failed = FALSE
        /\ t.backers = h.backers /\ t.users = h.users
    BY <1>0, <1>1, <2>2 DEF SameBut, TokenFields, IsStore
  <2> QED BY <2>2, <2>3 DEF t, h, r
<1>5. CASE e.name = "TokenRedeemed"
  <2>1. t = handleTokenRedeemed(r, e) /\ h = handleTokenRedeemed(s, e)
    BY <1>5 DEF Handler, AfterTokenEvent
  <2> HIDE DEF t, h
  <2>2. /\ SameBut(r, t, {"tokens"}) /\ SameBut(s, h, {"tokens"})
        /\ t.tokens = h.tokens
    <3>1. /\ SameBut(r, t, {"tokens"})
          /\ t.tokens = [r.tokens EXCEPT ![e.id].principalRedeemed = @ + e.principal,
                                    ![e.id].interestRedeemed = @ + e.interest]
      BY <1>0, <2>1, RedeemedFields
    <3>2. /\ SameBut(s, h, {"tokens"})
          /\ h.tokens = [s.tokens EXCEPT ![e.id].principalRedeemed = @ + e.principal,
                                    ![e.id].interestRedeemed = @ + e.interest]
      BY <1>0, <2>1, RedeemedFields
    <3> QED BY <1>1, <3>1, <3>2
  <2>3. /\ SameBut(s, t, TokenFields) /\ t.failed = FALSE
        /\ t.backers = h.backers /\ t.users = h.users
    BY <1>0, <1>1, <2>2 DEF SameBut, TokenFields, IsStore
  <2> QED BY <2>2, <2>3 DEF t, h, r
<1>6. CASE e.name = "TokenPrincipalWithdrawn"
  <2>1. t = handleTokenPrincipalWithdrawn(r, e) /\ h = handleTokenPrincipalWithdrawn(s, e)
    BY <1>6 DEF Handler, AfterTokenEvent
  <2> HIDE DEF t, h
  <2>2. SameBut(r, t, {"tokens", "backers", "failed"})
    BY <1>0, <2>1, WithdrawnSame
  <2>3. SameBut(s, t, TokenFields)
    BY <1>0, <2>2 DEF SameBut, TokenFields
  <2>4. ASSUME ~CannotHandle(s, e)
        PROVE  /\ t.failed = FALSE
               /\ t.tokens = h.tokens /\ t.users = h.users /\ t.backers = h.backers
    <3>1. /\ ~AssertsMissing(AfterWithdrawal(s, e), e.from)
          /\ ~AssertsMissing(AfterWithdrawal(r, e), e.from)
      BY <1>6, <2>4, AfterWithdrawalReset DEF CannotHandle, r
    <3>2. /\ SameBut(r, t, {"tokens", "backers"}) /\ SameBut(s, h, {"tokens", "backers"})
          /\ t.tokens = AfterWithdrawal(r, e).tokens /\ h.tokens = AfterWithdrawal(s, e).tokens
          /\ t.backers = WithdrawnBackers(r, e) /\ h.backers = WithdrawnBackers(s, e)
      BY <1>0, <2>1, <3>1, WithdrawnFields
    <3>3. t.tokens = h.tokens /\ t.backers = h.backers
      BY <3>2, AfterWithdrawalReset DEF r
    <3>4. t.failed = FALSE /\ t.users = h.users
      BY <1>0, <1>1, <3>2 DEF SameBut, IsStore
    <3> QED BY <3>3, <3>4
  <2> QED BY <2>3, <2>4 DEF t, h, r
<1> QED BY <1>2, <1>3, <1>4, <1>5, <1>6 DEF TokenEvents, OfToken

\* What t has of the contracts as they are, when e was handled in s.
Reads(s, t, e) ==
    ~t.failed =>
        /\ e.name \in TokenEvents =>
              /\ t.lineBalance = s.lineBalance
              /\ t.tranches = s.tranches /\ t.juniorDeposited = s.juniorDeposited
        /\ e.name \notin TokenEvents => t.lineBalance \in {s.lineBalance, balance}
        /\ e.name \in {"DrawdownMade", "PaymentApplied"} => t.lineBalance = balance
        /\ e.name \notin TokenEvents \cup {"DepositMade"} =>
              t.tranches = TrancheInfos /\ t.juniorDeposited = JuniorDeposited

LEMMA HandleFollows ==
    ASSUME NEW s, IsStore(s), NEW e
    PROVE  Follows(s, Handle(s, e), e) /\ Reads(s, Handle(s, e), e)
<1> DEFINE r == Reset(s)
           t == Handler(r, e)
           h == Handle(s, e)
<1>0. IsStore(r) /\ SameBut(s, r, {"failed"}) /\ r.failed = FALSE
  BY ResetFields
<1>1. h = IF PassedOver(s, e) THEN s
          ELSE IF t.failed THEN [s EXCEPT !.failed = TRUE]
          ELSE [t EXCEPT !.failed = s.failed]
  BY DEF Handle, Reset
<1>2. e.name \in {"DrawdownMade", "PaymentApplied"} => e.name \notin TokenEvents
  BY DEF TokenEvents, OfToken
<1>3. CASE PassedOver(s, e)
  <2>1. h = s
    BY <1>1, <1>3
  <2>2. ~s.failed => e.name \in TokenEvents
    BY <1>3 DEF PassedOver, Stopped, TokenEvents
  <2> HIDE DEF h
  <2>3. Follows(s, h, e)
    BY <1>3, <2>1 DEF Follows
  <2>4. Reads(s, h, e)
    BY <1>2, <2>1, <2>2 DEF Reads
  <2> QED BY <2>3, <2>4 DEF h
<1>4. CASE ~PassedOver(s, e) /\ e.name \in TokenEvents
  <2> DEFINE a == AfterTokenEvent(s, e)
  <2>1. /\ SameBut(s, t, TokenFields)
        /\ ~CannotHandle(s, e) =>
              /\ t.failed = FALSE
              /\ t.tokens = a.tokens /\ t.users = a.users /\ t.backers = a.backers
    BY <1>4, TokenHandlerFacts
  <2> HIDE DEF t, h, a, r
  <2>2. /\ SameBut(s, h, TokenFields) /\ h.failed \in {s.failed, TRUE}
        /\ t.failed = FALSE =>
              h.tokens = t.tokens /\ h.users = t.users /\ h.backers = t.backers
    BY <1>1, <1>4, <2>1 DEF SameBut, IsStore, TokenFields
  <2>3. /\ IsStore(h) /\ (s.failed => h.failed)
        /\ h.drawn = s.drawn /\ h.principalAmountRepaid = s.principalAmountRepaid
        /\ h.lineBalance = s.lineBalance /\ h.tranches = s.tranches
        /\ h.juniorDeposited = s.juniorDeposited
    BY <2>2 DEF SameBut, IsStore, TokenFields
  <2>4. Follows(s, h, e)
    BY <1>2, <1>4, <2>1, <2>2, <2>3 DEF Follows, SameTokens, a
  <2>5. Reads(s, h, e)
    BY <1>2, <1>4, <2>3 DEF Reads
  <2> QED BY <2>4, <2>5 DEF h
<1>5. CASE ~PassedOver(s, e) /\ ~ (e.name \in TokenEvents)
  <2>1. /\ SameBut(r, t, PoolFields)
        /\ r.backers \subseteq t.backers /\ t.failed \in {r.failed, TRUE}
        /\ t.drawn = IF e.name = "DrawdownMade" THEN r.drawn + e.amount ELSE r.drawn
        /\ t.principalAmountRepaid =
              IF e.name = "PaymentApplied" THEN r.principalAmountRepaid + e.principal
              ELSE r.principalAmountRepaid
        /\ t.lineBalance \in {r.lineBalance, balance}
        /\ e.name \in {"DrawdownMade", "PaymentApplied"} => t.lineBalance = balance
        /\ e.name # "DepositMade" =>
              t.tranches = TrancheInfos /\ t.juniorDeposited = JuniorDeposited
    BY <1>0, <1>5, PoolHandlerFacts
  <2>2. /\ r.backers = s.backers /\ r.drawn = s.drawn /\ r.lineBalance = s.lineBalance
        /\ r.principalAmountRepaid = s.principalAmountRepaid
        /\ SameBut(s, t, PoolFields)
    BY <1>0, <2>1 DEF SameBut, IsStore, PoolFields
  <2> HIDE DEF t, h, r
  <2>3. CASE t.failed
    <3>1. h = [s EXCEPT !.failed = TRUE]
      BY <1>1, <1>5, <2>3
    <3>2. SameBut(s, h, {"failed"}) /\ h.failed = TRUE /\ IsStore(h)
      BY <3>1 DEF SameBut, IsStore
    <3>3. h.tokens = s.tokens /\ h.users = s.users /\ h.backers = s.backers
      BY <3>2 DEF SameBut, IsStore
    <3>4. Follows(s, h, e)
      BY <1>5, <3>2, <3>3 DEF Follows, SameTokens
    <3>5. Reads(s, h, e)
      BY <3>2 DEF Reads
    <3> QED BY <3>4, <3>5 DEF h
  <2>4. CASE ~t.failed
    <3>1. h = [t EXCEPT !.failed = s.failed]
      BY <1>1, <1>5, <2>4
    <3>2. SameBut(t, h, {"failed"}) /\ h.failed = s.failed /\ IsStore(h)
      BY <2>2, <3>1 DEF SameBut, IsStore
    <3>3. /\ h.tokens = s.tokens /\ h.users = s.users /\ h.backers = t.backers
          /\ h.drawn = t.drawn /\ h.principalAmountRepaid = t.principalAmountRepaid
          /\ h.lineBalance = t.lineBalance /\ h.tranches = t.tranches
          /\ h.juniorDeposited = t.juniorDeposited
      BY <2>2, <3>2 DEF SameBut, IsStore, PoolFields
    <3>4. Follows(s, h, e)
      BY <1>5, <2>1, <2>2, <3>2, <3>3 DEF Follows, SameTokens
    <3>5. Reads(s, h, e)
      BY <1>5, <2>1, <2>2, <3>3 DEF Reads
    <3> QED BY <3>4, <3>5 DEF h
  <2> QED BY <2>3, <2>4
<1> QED BY <1>3, <1>4, <1>5

-----------------------------------------------------------------------------
(* The entities after each of a sequence of events, when each may have     *)
(* found the contracts in a state of its own.                              *)

Chain(p, s, F) ==
    /\ p[0] = s
    /\ \A i \in 1..Len(F) : Follows(p[i - 1], p[i], F[i])

LEMMA RangeInduction ==
    ASSUME NEW a \in Nat, NEW n \in Nat, NEW S, a \in S,
           \A i \in Nat : a <= i /\ i < n /\ i \in S => i + 1 \in S
    PROVE  \A i \in a..n : i \in S
<1> DEFINE G == {k \in Nat : k < a \/ k > n \/ k \in S}
<1>1. 0 \in G
  OBVIOUS
<1>2. ASSUME NEW k \in G PROVE k + 1 \in G
  OBVIOUS
<1>3. G \subseteq Nat
  OBVIOUS
<1> HIDE DEF G
<1>4. G = Nat
  BY <1>1, <1>2, <1>3, NaturalsFromZero
<1> QED BY <1>4 DEF G

LEMMA ChainSplit ==
    ASSUME NEW E, NEW F \in Seq(E), NEW G \in Seq(E), NEW p, NEW s, Chain(p, s, F \o G)
    PROVE  /\ Chain(p, s, F) /\ Len(F \o G) = Len(F) + Len(G)
           /\ \A j \in 1..Len(G) : Follows(p[Len(F) + j - 1], p[Len(F) + j], G[j])
<1>1. /\ Len(F) \in Nat /\ Len(G) \in Nat /\ Len(F \o G) = Len(F) + Len(G)
      /\ \A i \in 1..(Len(F) + Len(G)) :
            (F \o G)[i] = IF i <= Len(F) THEN F[i] ELSE G[i - Len(F)]
  BY ConcatProperties, LenProperties
<1> DEFINE m == Len(F)
           n == Len(G)
           H == F \o G
<1>2. p[0] = s /\ \A i \in 1..(m + n) : Follows(p[i - 1], p[i], H[i])
  BY <1>1 DEF Chain
<1> HIDE DEF H
<1>3. ASSUME NEW i \in 1..m PROVE Follows(p[i - 1], p[i], F[i])
  <2>1. i \in 1..(m + n) /\ i <= m
    BY <1>1
  <2> QED BY <1>1, <1>2, <2>1 DEF H
<1>4. ASSUME NEW j \in 1..n PROVE Follows(p[m + j - 1], p[m + j], G[j])
  <2>1. m + j \in 1..(m + n) /\ ~ (m + j <= m) /\ (m + j) - m = j
    BY <1>1
  <2> QED BY <1>1, <1>2, <2>1 DEF H
<1> QED BY <1>1, <1>2, <1>3, <1>4 DEF Chain

LEMMA FailedStays ==
    ASSUME NEW p, NEW s, NEW E, NEW F \in Seq(E), Chain(p, s, F)
    PROVE  \A i \in 0..Len(F) : (s.failed => p[i].failed) /\ (p[i].failed => p[Len(F)].failed)
<1> DEFINE n == Len(F)
<1>1. n \in Nat /\ \A i \in 1..n : p[i - 1].failed => p[i].failed
  BY DEF Chain, Follows
<1>2. ASSUME NEW a \in 0..n, p[a].failed PROVE \A i \in a..n : p[i].failed
  <2> DEFINE S == {i \in Nat : p[i].failed}
  <2>1. \A i \in Nat : a <= i /\ i < n /\ i \in S => i + 1 \in S
    <3> SUFFICES ASSUME NEW i \in Nat, i < n, p[i].failed PROVE p[i + 1].failed
      BY <1>1
    <3>1. i + 1 \in 1..n /\ (i + 1) - 1 = i
      BY <1>1
    <3> QED BY <1>1, <3>1
  <2>2. a \in S
    BY <1>1, <1>2
  <2>3. \A i \in S : p[i].failed
    OBVIOUS
  <2> HIDE DEF S, n
  <2>4. \A i \in a..n : i \in S
    <3>1. a \in Nat
      OBVIOUS
    <3> QED BY <1>1, <2>1, <2>2, <3>1, RangeInduction
  <2> QED BY <2>3, <2>4
<1>3. p[0] = s
  BY DEF Chain
<1> HIDE DEF n
<1>4. ASSUME NEW i \in 0..n PROVE (s.failed => p[i].failed) /\ (p[i].failed => p[n].failed)
  <2>1. 0 \in 0..n /\ n \in i..n
    BY <1>1
  <2> QED BY <1>2, <1>3, <2>1
<1> QED BY <1>4 DEF n

LEMMA HandledIsChain ==
    ASSUME NEW q, NEW base, IsStore(base), NEW E, NEW F \in Seq(E), Handled(q, base, F)
    PROVE  /\ Chain(q, base, F)
           /\ \A i \in 0..Len(F) : IsStore(q[i])
           /\ \A i \in 1..Len(F) : Reads(q[i - 1], q[i], F[i])
<1> DEFINE n == Len(F)
           S == {i \in Nat : IsStore(q[i])}
<1>1. n \in Nat /\ q[0] = base /\ \A i \in 1..n : q[i] = Handle(q[i - 1], F[i])
  BY DEF Handled
<1>2. ASSUME NEW i \in Nat, i < n, i \in S PROVE i + 1 \in S
  <2>1. i + 1 \in 1..n /\ (i + 1) - 1 = i /\ IsStore(q[i])
    BY <1>1, <1>2
  <2> HIDE DEF n, S
  <2>2. Follows(q[i], Handle(q[i], F[i + 1]), F[i + 1])
    BY <2>1, HandleFollows
  <2>3. q[i + 1] = Handle(q[i], F[i + 1])
    BY <1>1, <2>1
  <2>4. IsStore(q[i + 1])
    BY <2>2, <2>3 DEF Follows
  <2> QED BY <2>4 DEF S
<1>3. 0 \in S
  BY <1>1
<1>4. \A i \in S : IsStore(q[i])
  OBVIOUS
<1> HIDE DEF S, n
<1>5. \A i \in 0..n : i \in S
  BY <1>1, <1>2, <1>3, RangeInduction
<1>6. \A i \in 0..n : IsStore(q[i])
  BY <1>4, <1>5
<1>7. ASSUME NEW i \in 1..n
      PROVE  Follows(q[i - 1], q[i], F[i]) /\ Reads(q[i - 1], q[i], F[i])
  <2>1. i - 1 \in 0..n
    BY <1>1
  <2> QED BY <1>1, <1>6, <2>1, HandleFollows
<1> QED BY <1>1, <1>6, <1>7 DEF Chain, n

-----------------------------------------------------------------------------
(* The token entities and the lists of the wallets.                        *)

Entity(holder, live, id) ==
    [user |-> holder[id],
     principalAmount |-> live[id].principalAmount,
     principalRedeemed |-> live[id].principalRedeemed,
     interestRedeemed |-> live[id].interestRedeemed]

HeldBy(holder, user) == {id \in DOMAIN holder : holder[id] = user}

\* The entities say that `live` are the tokens and `holder` who has them; a token
\* that is being burned is held by Nobody.
Mirrors(s, live, holder) ==
    /\ DOMAIN live \subseteq Nat
    /\ DOMAIN holder = DOMAIN live /\ DOMAIN s.tokens = DOMAIN live
    /\ \A id \in DOMAIN live : s.tokens[id] = Entity(holder, live, id)
    /\ DOMAIN s.users = Everyone
    /\ \A user \in Wallets : Lists(s.users[user], HeldBy(holder, user))

LEMMA PlainMirrors ==
    ASSUME NEW s, NEW t, NEW e, Follows(s, t, e), e.name \notin TokenEvents,
           NEW live, NEW holder, Mirrors(s, live, holder)
    PROVE  Mirrors(t, live, holder)
BY DEF Follows, SameTokens, Mirrors

\* The Transfer of a mint comes before TokenMinted: the token is not stored yet.
LEMMA UnknownMirrors ==
    ASSUME NEW s, NEW t, NEW e, Follows(s, t, e), e.name \in OfToken,
           NEW live, NEW holder, Mirrors(s, live, holder), e.id \notin DOMAIN live
    PROVE  Mirrors(t, live, holder)
BY DEF Follows, PassedOver, Mirrors

\* Such an event of a stored token is handled.
LEMMA EventHandled ==
    ASSUME NEW s, NEW t, NEW e, Follows(s, t, e), ~Stopped(s),
           e.name \in OfToken => e.id \in DOMAIN s.tokens,
           e.name \in TokenEvents, ~CannotHandle(s, e)
    PROVE  /\ IsStore(s) /\ t.tokens = AfterTokenEvent(s, e).tokens
           /\ t.users = AfterTokenEvent(s, e).users
           /\ t.backers = AfterTokenEvent(s, e).backers
BY DEF Follows, PassedOver, SameTokens

\* What the event of a token says became of the tokens and of who holds them.
Sends(e, holder, after) ==
    /\ DOMAIN after = DOMAIN holder
    /\ \A id \in DOMAIN holder : after[id] = IF id = e.id THEN e.to ELSE holder[id]

Mints(e, tranche, live, holder, live2, after) ==
    /\ DOMAIN live2 = DOMAIN live \cup {e.id}
    /\ live2[e.id] = TokenInfo(tranche, e.amount)
    /\ \A id \in DOMAIN live : live2[id] = live[id]
    /\ DOMAIN after = DOMAIN holder \cup {e.id} /\ after[e.id] = e.to
    /\ \A id \in DOMAIN holder : after[id] = holder[id]

Burns(e, live, holder, live2, after) ==
    /\ live2 = Restrict(live, DOMAIN live \ {e.id})
    /\ after = Restrict(holder, DOMAIN holder \ {e.id})

Redeems(e, live, live2) ==
    live2 = [live EXCEPT ![e.id].principalRedeemed = @ + e.principal,
                         ![e.id].interestRedeemed = @ + e.interest]

Withdraws(e, live, live2) == live2 = [live EXCEPT ![e.id].principalAmount = @ - e.amount]

LEMMA TransferMirrors ==
    ASSUME NEW s, NEW t, NEW e, Follows(s, t, e), ~Stopped(s), e.name = "Transfer",
           NEW live, NEW holder, Mirrors(s, live, holder), e.id \in DOMAIN live,
           e.from = holder[e.id], e.from \in Wallets, e.to \in Everyone, e.to # e.from,
           NEW after, Sends(e, holder, after)
    PROVE  Mirrors(t, live, after)
<1> DEFINE h == handleTransfer(s, e)
<1>1. DOMAIN live \subseteq Nat /\ DOMAIN holder = DOMAIN live /\ DOMAIN s.tokens = DOMAIN live
  BY DEF Mirrors
<1>2. e.name \in TokenEvents /\ ~CannotHandle(s, e)
  BY DEF TokenEvents, OfToken, CannotHandle
<1>3. h = AfterTokenEvent(s, e)
  BY DEF AfterTokenEvent
<1> HIDE DEF h
<1>4. t.tokens = h.tokens /\ t.users = h.users /\ IsStore(s)
  BY <1>1, <1>2, <1>3, EventHandled
<1>5. /\ t.users = [s.users EXCEPT ![e.from] = RemoveFirst(s.users[e.from], e.id),
                                   ![e.to] = Append(s.users[e.to], e.id)]
      /\ t.tokens = [s.tokens EXCEPT ![e.id].user = e.to]
  BY <1>4, TransferFields DEF h
<1>6. /\ DOMAIN after = DOMAIN live /\ DOMAIN t.tokens = DOMAIN live
      /\ \A id \in DOMAIN live : after[id] = IF id = e.id THEN e.to ELSE holder[id]
  BY <1>1, <1>5 DEF Sends
<1>7. ASSUME NEW id \in DOMAIN live PROVE t.tokens[id] = Entity(after, live, id)
  <2>1. s.tokens[id] = Entity(holder, live, id)
    BY DEF Mirrors
  <2> QED BY <1>1, <1>5, <1>6, <2>1 DEF Entity
<1>8. DOMAIN t.users = Everyone /\ Wallets \subseteq Everyone /\ DOMAIN s.users = Everyone
  BY <1>5 DEF Mirrors, Everyone
<1>9. ASSUME NEW user \in Wallets PROVE Lists(t.users[user], HeldBy(after, user))
  <2>1. Lists(s.users[user], HeldBy(holder, user))
    BY DEF Mirrors
  <2>2. CASE user = e.from
    <3>1. t.users[user] = RemoveFirst(s.users[user], e.id)
      BY <1>5, <1>8, <2>2
    <3>2. e.id \in HeldBy(holder, user) /\ HeldBy(after, user) = HeldBy(holder, user) \ {e.id}
      BY <1>1, <1>6, <2>2 DEF HeldBy
    <3> QED BY <2>1, <3>1, <3>2, RemoveFirstLists
  <2>3. CASE user = e.to
    <3>1. t.users[user] = Append(s.users[user], e.id)
      BY <1>5, <1>8, <2>3
    <3>2. /\ e.id \notin HeldBy(holder, user) /\ e.id \in Nat
          /\ HeldBy(after, user) = HeldBy(holder, user) \cup {e.id}
      BY <1>1, <1>6, <2>3 DEF HeldBy
    <3> QED BY <2>1, <3>1, <3>2, AppendLists
  <2>4. CASE user # e.from /\ user # e.to
    <3>1. t.users[user] = s.users[user]
      BY <1>5, <1>8, <2>4
    <3>2. HeldBy(after, user) = HeldBy(holder, user)
      BY <1>1, <1>6, <2>4 DEF HeldBy
    <3> QED BY <2>1, <3>1, <3>2
  <2> QED BY <2>2, <2>3, <2>4
<1> QED BY <1>1, <1>7, <1>8, <1>9, <1>6 DEF Mirrors

LEMMA MintedMirrors ==
    ASSUME NEW s, NEW t, NEW e, Follows(s, t, e), ~Stopped(s), e.name = "TokenMinted",
           NEW live, NEW holder, Mirrors(s, live, holder),
           e.id \in Nat, e.id \notin DOMAIN live, e.to \in Wallets, NEW tranche,
           NEW live2, NEW after, Mints(e, tranche, live, holder, live2, after)
    PROVE  Mirrors(t, live2, after)
<1> DEFINE h == handleTokenMinted(s, e)
<1>1. DOMAIN live \subseteq Nat /\ DOMAIN holder = DOMAIN live /\ DOMAIN s.tokens = DOMAIN live
  BY DEF Mirrors
<1>2. e.name \in TokenEvents /\ ~CannotHandle(s, e) /\ e.name \notin OfToken
  BY DEF TokenEvents, OfToken, CannotHandle
<1>3. h = AfterTokenEvent(s, e)
  BY DEF AfterTokenEvent
<1> HIDE DEF h
<1>4. t.tokens = h.tokens /\ t.users = h.users /\ IsStore(s)
  BY <1>2, <1>3, EventHandled
<1>5. /\ t.users = [s.users EXCEPT ![e.to] = Append(s.users[e.to], e.id)]
      /\ t.tokens = Added(s.tokens, e.id, TokenEntity(e.to, e.amount))
  BY <1>4, MintedFields DEF h
<1>6. t.tokens = [id \in DOMAIN live \cup {e.id} |->
                     IF id = e.id THEN TokenEntity(e.to, e.amount) ELSE s.tokens[id]]
  BY <1>1, <1>5 DEF Added
<1>7. /\ DOMAIN live2 = DOMAIN live \cup {e.id} /\ DOMAIN after = DOMAIN live2
      /\ DOMAIN t.tokens = DOMAIN live2 /\ DOMAIN live2 \subseteq Nat
      /\ after[e.id] = e.to /\ \A id \in DOMAIN live : after[id] = holder[id]
      /\ live2[e.id] = TokenInfo(tranche, e.amount)
      /\ \A id \in DOMAIN live : live2[id] = live[id]
  BY <1>1, <1>6 DEF Mints
<1>8. ASSUME NEW id \in DOMAIN live2 PROVE t.tokens[id] = Entity(after, live2, id)
  <2>1. CASE id = e.id
    BY <1>6, <1>7, <2>1 DEF Entity, TokenEntity, TokenInfo
  <2>2. CASE id \in DOMAIN live
    <3>1. s.tokens[id] = Entity(holder, live, id) /\ id # e.id
      BY <2>2 DEF Mirrors
    <3>2. t.tokens[id] = s.tokens[id] /\ after[id] = holder[id] /\ live2[id] = live[id]
      BY <1>6, <1>7, <2>2, <3>1
    <3> QED BY <3>1, <3>2 DEF Entity
  <2> QED BY <1>7, <2>1, <2>2
<1>9. DOMAIN t.users = Everyone /\ Wallets \subseteq Everyone /\ DOMAIN s.users = Everyone
  BY <1>5 DEF Mirrors, Everyone
<1>10. ASSUME NEW user \in Wallets PROVE Lists(t.users[user], HeldBy(after, user))
  <2>1. Lists(s.users[user], HeldBy(holder, user))
    BY DEF Mirrors
  <2>2. CASE user = e.to
    <3>1. t.users[user] = Append(s.users[user], e.id)
      BY <1>5, <1>9, <2>2
    <3>2. /\ e.id \notin HeldBy(holder, user)
          /\ HeldBy(after, user) = HeldBy(holder, user) \cup {e.id}
      BY <1>1, <1>7, <2>2 DEF HeldBy
    <3> QED BY <2>1, <3>1, <3>2, AppendLists
  <2>3. CASE user # e.to
    <3>1. t.users[user] = s.users[user]
      BY <1>5, <1>9, <2>3
    <3>2. HeldBy(after, user) = HeldBy(holder, user)
      BY <1>1, <1>7, <2>3 DEF HeldBy
    <3> QED BY <2>1, <3>1, <3>2
  <2> QED BY <2>2, <2>3
<1> QED BY <1>7, <1>8, <1>9, <1>10 DEF Mirrors

LEMMA BurnedMirrors ==
    ASSUME NEW s, NEW t, NEW e, Follows(s, t, e), ~Stopped(s), e.name = "TokenBurned",
           NEW live, NEW holder, Mirrors(s, live, holder), e.id \in DOMAIN live,
           holder[e.id] \notin Wallets,
           NEW live2, NEW after, Burns(e, live, holder, live2, after)
    PROVE  Mirrors(t, live2, after)
<1> DEFINE h == handleTokenBurned(s, e)
           D == DOMAIN live \ {e.id}
<1>1. DOMAIN live \subseteq Nat /\ DOMAIN holder = DOMAIN live /\ DOMAIN s.tokens = DOMAIN live
  BY DEF Mirrors
<1>2. e.name \in TokenEvents /\ ~CannotHandle(s, e)
  BY DEF TokenEvents, OfToken, CannotHandle
<1>3. h = AfterTokenEvent(s, e)
  BY DEF AfterTokenEvent
<1>4. h.users = s.users /\ h.tokens = Restrict(s.tokens, D)
  <2>1. IsStore(s)
    BY DEF Follows
  <2> HIDE DEF h
  <2>2. SameBut(s, h, {"tokens"}) /\ h.tokens = Restrict(s.tokens, DOMAIN s.tokens \ {e.id})
    BY <2>1, BurnedFields DEF h
  <2> QED BY <1>1, <2>1, <2>2 DEF SameBut, IsStore
<1> HIDE DEF h
<1>5. t.tokens = Restrict(s.tokens, D) /\ t.users = s.users
  BY <1>1, <1>2, <1>3, <1>4, EventHandled
<1>6. /\ t.tokens = [id \in D |-> s.tokens[id]]
      /\ live2 = [id \in D |-> live[id]] /\ after = [id \in D |-> holder[id]]
  BY <1>1, <1>5 DEF Burns, Restrict
<1>7. ASSUME NEW id \in D PROVE t.tokens[id] = Entity(after, live2, id)
  <2>1. s.tokens[id] = Entity(holder, live, id)
    BY DEF Mirrors
  <2> QED BY <1>6, <2>1 DEF Entity
<1>8. ASSUME NEW user \in Wallets PROVE Lists(t.users[user], HeldBy(after, user))
  <2>1. Lists(s.users[user], HeldBy(holder, user))
    BY DEF Mirrors
  <2>2. HeldBy(after, user) = HeldBy(holder, user)
    BY <1>1, <1>6 DEF HeldBy
  <2> QED BY <1>5, <2>1, <2>2
<1>9. DOMAIN t.users = Everyone
  BY <1>5 DEF Mirrors
<1>10. DOMAIN live2 = D /\ DOMAIN after = D /\ DOMAIN t.tokens = D /\ D \subseteq Nat
  BY <1>1, <1>6
<1> QED BY <1>7, <1>8, <1>9, <1>10 DEF Mirrors

LEMMA RedeemedMirrors ==
    ASSUME NEW s, NEW t, NEW e, Follows(s, t, e), ~Stopped(s), e.name = "TokenRedeemed",
           NEW live, NEW holder, Mirrors(s, live, holder), e.id \in DOMAIN live,
           live[e.id] \in TokenType,
           NEW live2, Redeems(e, live, live2)
    PROVE  Mirrors(t, live2, holder)
<1> DEFINE h == handleTokenRedeemed(s, e)
<1>1. DOMAIN live \subseteq Nat /\ DOMAIN holder = DOMAIN live /\ DOMAIN s.tokens = DOMAIN live
  BY DEF Mirrors
<1>2. e.name \in TokenEvents /\ ~CannotHandle(s, e)
  BY DEF TokenEvents, OfToken, CannotHandle
<1>3. h = AfterTokenEvent(s, e)
  BY DEF AfterTokenEvent
<1>4. /\ h.users = s.users
      /\ h.tokens = [s.tokens EXCEPT ![e.id].principalRedeemed = @ + e.principal,
                                     ![e.id].interestRedeemed = @ + e.interest]
  <2>1. IsStore(s)
    BY DEF Follows
  <2> HIDE DEF h
  <2>2. /\ SameBut(s, h, {"tokens"})
        /\ h.tokens = [s.tokens EXCEPT ![e.id].principalRedeemed = @ + e.principal,
                                       ![e.id].interestRedeemed = @ + e.interest]
    BY <2>1, RedeemedFields DEF h
  <2> QED BY <2>1, <2>2 DEF SameBut, IsStore
<1> HIDE DEF h
<1>5. t.tokens = h.tokens /\ t.users = s.users
  BY <1>1, <1>2, <1>3, <1>4, EventHandled
<1>6. ASSUME NEW id \in DOMAIN live PROVE t.tokens[id] = Entity(holder, live2, id)
  <2>1. s.tokens[id] = Entity(holder, live, id)
    BY DEF Mirrors
  <2>2. CASE id = e.id
    <3> DEFINE r == live[id].principalRedeemed + e.principal
               n == live[id].interestRedeemed + e.interest
    <3>1. /\ live2[id].principalRedeemed = r /\ live2[id].interestRedeemed = n
          /\ live2[id].principalAmount = live[id].principalAmount
      BY <2>2 DEF TokenType, Redeems
    <3>2. s.tokens[id].principalRedeemed + e.principal = r
            /\ s.tokens[id].interestRedeemed + e.interest = n
      BY <2>1 DEF Entity
    <3>3. t.tokens[id] = [s.tokens[id] EXCEPT !.principalRedeemed = r, !.interestRedeemed = n]
      <4>1. t.tokens[id] = [s.tokens[id] EXCEPT
                              !.principalRedeemed = s.tokens[id].principalRedeemed + e.principal,
                              !.interestRedeemed = s.tokens[id].interestRedeemed + e.interest]
        <5> HIDE DEF r, n
        <5>1. id \in DOMAIN s.tokens /\ DOMAIN s.tokens[id] =
                 {"user", "principalAmount", "principalRedeemed", "interestRedeemed"}
          BY <1>1, <2>1 DEF Entity
        <5> QED BY <1>4, <1>5, <2>2, <5>1
      <4> QED BY <3>2, <4>1
    <3> HIDE DEF r, n
    <3>4. t.tokens[id] = [user |-> holder[id], principalAmount |-> live[id].principalAmount,
                          principalRedeemed |-> r, interestRedeemed |-> n]
      <4>1. s.tokens[id] =
               [user |-> holder[id], principalAmount |-> live[id].principalAmount,
                principalRedeemed |-> live[id].principalRedeemed,
                interestRedeemed |-> live[id].interestRedeemed]
        BY <2>1 DEF Entity
      <4> DEFINE v == [s.tokens[id] EXCEPT !.principalRedeemed = r, !.interestRedeemed = n]
      <4>2. /\ DOMAIN v = {"user", "principalAmount", "principalRedeemed", "interestRedeemed"}
            /\ v = [x \in DOMAIN v |-> v[x]]
        BY <4>1
      <4>3. /\ v.user = holder[id] /\ v.principalAmount = live[id].principalAmount
            /\ v.principalRedeemed = r /\ v.interestRedeemed = n
        BY <4>1
      <4> HIDE DEF v
      <4>4. v = [user |-> holder[id], principalAmount |-> live[id].principalAmount,
                 principalRedeemed |-> r, interestRedeemed |-> n]
        BY <4>2, <4>3
      <4> QED BY <3>3, <4>4 DEF v
    <3>5. Entity(holder, live2, id) =
             [user |-> holder[id], principalAmount |-> live[id].principalAmount,
              principalRedeemed |-> r, interestRedeemed |-> n]
      BY <3>1 DEF Entity
    <3> QED BY <3>4, <3>5
  <2>3. CASE id # e.id
    BY <1>1, <1>4, <1>5, <2>1, <2>3 DEF Entity, Redeems
  <2> QED BY <2>2, <2>3
<1>7. DOMAIN live2 = DOMAIN live /\ DOMAIN t.tokens = DOMAIN live
  BY <1>1, <1>4, <1>5 DEF Redeems
<1> QED BY <1>1, <1>5, <1>6, <1>7 DEF Mirrors

\* The token a wallet withdraws from is stored, and so are its other tokens.
LEMMA WithdrawalHandled ==
    ASSUME NEW s, IsStore(s), NEW e, e.from \in Wallets,
           NEW live, NEW holder, Mirrors(s, live, holder)
    PROVE  ~CannotHandle(s, e) /\ ~AssertsMissing(AfterWithdrawal(s, e), e.from)
<1> DEFINE w == AfterWithdrawal(s, e)
<1>1. w.users = s.users /\ DOMAIN w.tokens = DOMAIN s.tokens
  <2>1. /\ SameBut(s, w, {"tokens"})
        /\ w.tokens = [s.tokens EXCEPT ![e.id].principalAmount = @ - e.amount]
    BY AfterWithdrawalFields
  <2> HIDE DEF w
  <2> QED BY <2>1 DEF SameBut, IsStore
<1>2. /\ Lists(s.users[e.from], HeldBy(holder, e.from))
      /\ HeldBy(holder, e.from) \subseteq DOMAIN s.tokens
  BY DEF Mirrors, HeldBy
<1>3. \A i \in DOMAIN w.users[e.from] : w.users[e.from][i] \in DOMAIN w.tokens
  BY <1>1, <1>2 DEF Lists, ToSet
<1> QED BY <1>3 DEF CannotHandle, AssertsMissing

LEMMA WithdrawnMirrors ==
    ASSUME NEW s, NEW t, NEW e, Follows(s, t, e), ~Stopped(s),
           e.name = "TokenPrincipalWithdrawn",
           NEW live, NEW holder, Mirrors(s, live, holder), e.id \in DOMAIN live,
           live[e.id] \in TokenType, e.from \in Wallets,
           NEW live2, Withdraws(e, live, live2)
    PROVE  /\ Mirrors(t, live2, holder)
           /\ t.backers = WithdrawnBackers(s, e) /\ t.users = s.users
           /\ t.tokens = AfterWithdrawal(s, e).tokens
<1> DEFINE h == handleTokenPrincipalWithdrawn(s, e)
<1>1. DOMAIN live \subseteq Nat /\ DOMAIN holder = DOMAIN live /\ DOMAIN s.tokens = DOMAIN live
  BY DEF Mirrors
<1>2. IsStore(s) /\ ~CannotHandle(s, e) /\ ~AssertsMissing(AfterWithdrawal(s, e), e.from)
  <2>1. IsStore(s)
    BY DEF Follows
  <2> QED BY <2>1, WithdrawalHandled
<1>3. h = AfterTokenEvent(s, e) /\ e.name \in TokenEvents
  BY DEF AfterTokenEvent, TokenEvents, OfToken
<1>4. /\ h.users = s.users /\ h.backers = WithdrawnBackers(s, e)
      /\ h.tokens = AfterWithdrawal(s, e).tokens
      /\ h.tokens = [s.tokens EXCEPT ![e.id].principalAmount = @ - e.amount]
  <2> HIDE DEF h
  <2>1. /\ SameBut(s, h, {"tokens", "backers"})
        /\ h.tokens = AfterWithdrawal(s, e).tokens
        /\ h.backers = WithdrawnBackers(s, e)
    BY <1>2, WithdrawnFields DEF h
  <2> QED BY <1>2, <2>1, AfterWithdrawalFields DEF SameBut, IsStore
<1> HIDE DEF h
<1>5. t.tokens = h.tokens /\ t.users = s.users /\ t.backers = h.backers
  BY <1>1, <1>2, <1>3, <1>4, EventHandled
<1>6. ASSUME NEW id \in DOMAIN live PROVE t.tokens[id] = Entity(holder, live2, id)
  <2>1. s.tokens[id] = Entity(holder, live, id)
    BY DEF Mirrors
  <2>2. CASE id = e.id
    BY <1>1, <1>4, <1>5, <2>1, <2>2 DEF Entity, TokenType, Withdraws
  <2>3. CASE id # e.id
    BY <1>1, <1>4, <1>5, <2>1, <2>3 DEF Entity, Withdraws
  <2> QED BY <2>2, <2>3
<1>7. DOMAIN live2 = DOMAIN live /\ DOMAIN t.tokens = DOMAIN live
  BY <1>1, <1>4, <1>5 DEF Withdraws
<1>8. Mirrors(t, live2, holder)
  BY <1>1, <1>5, <1>6, <1>7 DEF Mirrors
<1> QED BY <1>4, <1>5, <1>8

-----------------------------------------------------------------------------
(* The pool under the subgraph.                                            *)

\* A step of the subgraph's specification is one of the pool's, none of it, or a
\* migration that keeps the limit.
KeptLimitMigration == (\E newTerms \in Terms : Migrate(newTerms, maxLimit)) /\ UNCHANGED poolVars

LEMMA PoolPart ==
    ASSUME [SubgraphNext]_<<clVars, poolVars, subgraphVars>>
    PROVE  [PoolNext]_<<clVars, poolVars>> \/ KeptLimitMigration
<1>1. ASSUME NEW amount \in DepositAmounts,
             \/ \E user \in Backers : DepositBy(user, "junior", amount)
             \/ DepositBy(SeniorFund, "senior", amount)
      PROVE  PoolNext
  <2>1. Deposit("junior", amount) \/ Deposit("senior", amount)
    BY <1>1 DEF DepositBy
  <2> QED BY <2>1 DEF PoolNext, Kinds
<1>2. ASSUME NEW id \in DOMAIN tokens,
             \/ \E amount \in DepositAmounts \cup {Redeemable(id)} : WithdrawFrom(id, amount)
             \/ BurnToken(id)
      PROVE  PoolNext
  BY <1>2 DEF WithdrawFrom, BurnToken, PoolNext
<1>3. ASSUME NEW id \in DOMAIN tokens, NEW to \in Backers, TransferToken(id, to)
      PROVE  UNCHANGED <<clVars, poolVars>>
  BY <1>3 DEF TransferToken
<1>4. ASSUME NEW amount \in DrawAmounts, DrawAndEmit(amount) PROVE PoolNext
  BY <1>4 DEF DrawAndEmit, PoolNext
<1>5. ASSUME PoolAssess \/ \E amount \in Amounts : PoolPay(amount) PROVE PoolNext
  BY <1>5 DEF PoolNext
<1>6. ASSUME PoolEvent PROVE PoolNext \/ KeptLimitMigration
  BY <1>6 DEF PoolEvent, PoolNext, KeptLimitMigration
<1>7. ASSUME Unheard PROVE PoolNext
  BY <1>7 DEF Unheard, PoolNext, CreditLineOnly
<1>8. ASSUME NextTimestamp PROVE PoolNext
  BY <1>8 DEF NextTimestamp, PoolNext, CreditLineOnly
<1>9. ASSUME IndexBlock \/ UNCHANGED <<clVars, poolVars, subgraphVars>>
      PROVE  UNCHANGED <<clVars, poolVars>>
  BY <1>9 DEF IndexBlock
<1> QED BY <1>1, <1>2, <1>3, <1>4, <1>5, <1>6, <1>7, <1>8, <1>9 DEF SubgraphNext

LEMMA MigrationKeeps ==
    ASSUME AccountsInv, ScheduleInv, KeptLimitMigration
    PROVE  AccountsInv' /\ ScheduleInv' /\ LocksKept
<1>1. PICK newTerms \in Terms : Migrate(newTerms, maxLimit)
  BY DEF KeptLimitMigration
<1>2. maxLimit \in Limits /\ SwitchesOk /\ cash \in Nat /\ redeemed \in Nat /\ swept \in Nat
  BY PoolFacts DEF AccountsInv, PoolInv, PoolTypeOK
<1>3. ScheduleInv'
  BY <1>1, <1>2, ScheduleStep DEF Next
<1>4. UNCHANGED <<slices, totalDeployed, cash, redeemed, swept, fundableAt>>
        /\ UNCHANGED switches /\ UNCHANGED tokenVars
  BY DEF KeptLimitMigration, poolVars, ledger
<1>5. balance' = balance /\ maxLimit' = maxLimit
  BY <1>1 DEF Migrate, accounting
<1>6. SwitchesOk'
  BY <1>2, <1>4 DEF SwitchesOk, switches
<1> QED BY <1>2, <1>3, <1>4, <1>5, <1>6, OnlySwitched

LEMMA PoolPartKeeps ==
    ASSUME AccountsInv, ScheduleInv, [SubgraphNext]_<<clVars, poolVars, subgraphVars>>
    PROVE  AccountsInv' /\ ScheduleInv' /\ LocksKept
BY PoolPart, MigrationKeeps, AccountsStep

-----------------------------------------------------------------------------
(* What the entities will be once the block is indexed.                    *)

\* The loan, unless an event of it was lost to a handler that failed.
AddsUp(s, loan) ==
    \/ s.failed
    \/ /\ s.drawn \in Int /\ s.principalAmountRepaid \in Int
       /\ s.drawn - s.principalAmountRepaid = loan

\* A token that is sent to who has it is listed twice: then the tokens are not told of.
Tells(s, live, holder, loan) ==
    \/ Stopped(s)
    \/ (SelfTransfers \/ Mirrors(s, live, holder)) /\ AddsUp(s, loan)

LEMMA StoppedStays ==
    ASSUME NEW s, NEW t, NEW e, Follows(s, t, e), Stopped(s)
    PROVE  Stopped(t)
BY DEF Follows, Stopped

LEMMA LoanKept ==
    ASSUME NEW s, NEW t, NEW e, Follows(s, t, e), NEW loan, AddsUp(s, loan),
           e.name \notin {"DrawdownMade", "PaymentApplied"}
    PROVE  AddsUp(t, loan)
<1>1. s.failed => t.failed
  BY DEF Follows
<1>2. ~t.failed => t.drawn = s.drawn /\ t.principalAmountRepaid = s.principalAmountRepaid
  BY DEF Follows
<1> QED BY <1>1, <1>2 DEF AddsUp

LEMMA LoanDrawn ==
    ASSUME NEW s, NEW t, NEW e, Follows(s, t, e), NEW loan \in Int, AddsUp(s, loan),
           e.name = "DrawdownMade", e.amount \in Int
    PROVE  AddsUp(t, loan + e.amount)
<1>1. s.failed => t.failed
  BY DEF Follows
<1>2. ~t.failed =>
         t.drawn = s.drawn + e.amount /\ t.principalAmountRepaid = s.principalAmountRepaid
  BY <1>1 DEF Follows, PassedOver, Stopped, OfToken
<1> QED BY <1>1, <1>2 DEF AddsUp

LEMMA LoanRepaid ==
    ASSUME NEW s, NEW t, NEW e, Follows(s, t, e), NEW loan \in Int, AddsUp(s, loan),
           e.name = "PaymentApplied", e.principal \in Int
    PROVE  AddsUp(t, loan - e.principal)
<1>1. s.failed => t.failed
  BY DEF Follows
<1>2. ~t.failed => /\ t.drawn = s.drawn
                   /\ t.principalAmountRepaid = s.principalAmountRepaid + e.principal
  BY <1>1 DEF Follows, PassedOver, Stopped, OfToken
<1> QED BY <1>1, <1>2 DEF AddsUp

\* An event of the pool says nothing of tokens, and of the loan only two do.
LEMMA PlainTells ==
    ASSUME NEW s, NEW t, NEW e, Follows(s, t, e),
           NEW live, NEW holder, NEW loan, Tells(s, live, holder, loan),
           e.name \notin TokenEvents \cup {"DrawdownMade", "PaymentApplied"}
    PROVE  Tells(t, live, holder, loan)
BY StoppedStays, PlainMirrors, LoanKept DEF Tells

\* A token's event, as TransferMirrors and the lemmas after it say what it leaves.
LEMMA TokenTells ==
    ASSUME NEW s, NEW t, NEW e, Follows(s, t, e), e.name \in TokenEvents,
           NEW live, NEW holder, NEW loan, Tells(s, live, holder, loan),
           NEW live2, NEW holder2,
           ~SelfTransfers /\ ~Stopped(s) /\ Mirrors(s, live, holder)
              => Mirrors(t, live2, holder2)
    PROVE  Tells(t, live2, holder2, loan)
<1>1. e.name \notin {"DrawdownMade", "PaymentApplied"}
  BY DEF TokenEvents, OfToken
<1> QED BY <1>1, StoppedStays, LoanKept DEF Tells

PlainNames == {"WithdrawalMade", "TrancheLocked", "SliceCreated", "EmergencyShutdown",
               "CreditLineMigrated", "DrawdownsPaused"}

EventSet ==
    [name : {"Transfer"}, id : Nat, from : Everyone, to : Everyone]
    \cup [name : {"TokenMinted"}, id : Nat, to : Wallets, amount : Nat]
    \cup [name : {"TokenBurned"}, id : Nat]
    \cup [name : {"TokenRedeemed"}, id : Nat, interest : Nat, principal : Nat]
    \cup [name : {"TokenPrincipalWithdrawn"}, id : Nat, from : Wallets, amount : Nat]
    \cup [name : {"DepositMade"}, to : Wallets, tranche : Nat \X Kinds, amount : Nat]
    \cup [name : {"DrawdownMade"}, amount : Nat]
    \cup [name : {"PaymentApplied"}, principal : Nat]
    \cup [name : PlainNames]

Pending == FlattenSeq(block)

\* The inductive invariant: whatever the handlers of the events that wait in the
\* block read, the tokens and the loan are told of as they are now, unless a handler's
\* failure stops the subgraph.
Ahead ==
    ~Stopped(store) =>
        \A p : Chain(p, store, Pending) => Tells(p[Len(Pending)], tokens, owner, balance)

\* The events of a transaction tell what it did.
Leads(events) ==
    \A r : /\ \A j \in 1..Len(events) : Follows(r[j - 1], r[j], events[j])
           /\ Tells(r[0], tokens, owner, balance)
           => Tells(r[Len(events)], tokens', owner', balance')

LEMMA EmitAhead ==
    ASSUME Ahead, block \in Seq(Seq(EventSet)), NEW events \in Seq(EventSet),
           Emit(events), Leads(events)
    PROVE  Ahead' /\ block' \in Seq(Seq(EventSet))
<1>1. block' = Append(block, events) /\ store' = store
  BY DEF Emit
<1>2. Pending \in Seq(EventSet) /\ Pending' = Pending \o events
  BY <1>1, FlattenType, FlattenAppend DEF Pending
<1> DEFINE F == Pending
<1> HIDE DEF F
<1>3. Len(F) \in Nat /\ Len(events) \in Nat
  BY <1>2 DEF F
<1>4. ASSUME ~Stopped(store), NEW p, Chain(p, store, F \o events)
      PROVE  Tells(p[Len(F \o events)], tokens', owner', balance')
  <2>1. /\ Chain(p, store, F) /\ Len(F \o events) = Len(F) + Len(events)
        /\ \A j \in 1..Len(events) : Follows(p[Len(F) + j - 1], p[Len(F) + j], events[j])
    BY <1>2, <1>4, ChainSplit DEF F
  <2>2. Tells(p[Len(F)], tokens, owner, balance)
    BY <1>4, <2>1 DEF Ahead, F
  <2> DEFINE r == [j \in 0..Len(events) |-> p[Len(F) + j]]
  <2>3. r[0] = p[Len(F)] /\ r[Len(events)] = p[Len(F) + Len(events)]
    BY <1>3
  <2>4. ASSUME NEW j \in 1..Len(events) PROVE Follows(r[j - 1], r[j], events[j])
    <3>1. r[j] = p[Len(F) + j] /\ r[j - 1] = p[Len(F) + j - 1]
      BY <1>3
    <3> QED BY <2>1, <3>1
  <2> HIDE DEF r
  <2>5. Tells(r[Len(events)], tokens', owner', balance')
    BY <2>2, <2>3, <2>4 DEF Leads
  <2> QED BY <2>1, <2>3, <2>5
<1>5. Ahead'
  BY <1>1, <1>2, <1>4 DEF Ahead, F
<1> QED BY <1>1, <1>5

\* What the handlers that read the contracts are called for: the line's balance, and
\* the slices once the current one is locked.
Has(events, names) == \E i \in 1..Len(events) : events[i].name \in names
OfLoan == {"DrawdownMade", "PaymentApplied"}
Counting == {"DepositMade"}
Refreshing(events, i) ==
    /\ events[i].name \notin TokenEvents \cup Counting
    /\ \A j \in i..Len(events) : events[j].name \notin Counting
Refreshed(events) == \E i \in 1..Len(events) : Refreshing(events, i)

SlicesKept ==
    Locked' => Locked /\ TrancheInfos' = TrancheInfos /\ JuniorDeposited' = JuniorDeposited

Calls(events) ==
    /\ balance' # balance => Has(events, OfLoan)
    /\ Refreshed(events) \/ (~Has(events, Counting) /\ SlicesKept) \/ ~Locked'

LineBehind ==
    ~store.failed /\ store.lineBalance # balance => Has(Pending, OfLoan)

SlicesBehind ==
    ~store.failed /\ Locked =>
        \/ Refreshed(Pending)
        \/ /\ ~Has(Pending, Counting)
           /\ store.tranches = TrancheInfos /\ store.juniorDeposited = JuniorDeposited

\* Every transaction is told of, or there is nothing to tell.
Heard ==
    \/ \E events \in Seq(EventSet) : Emit(events) /\ Leads(events) /\ Calls(events)
    \/ UNCHANGED <<tokens, balance>> /\ UNCHANGED subgraphVars /\ SlicesKept

LEMMA CalledFor ==
    ASSUME NEW events \in Seq(EventSet), block \in Seq(Seq(EventSet)), Emit(events),
           Calls(events), LineBehind, SlicesBehind
    PROVE  LineBehind' /\ SlicesBehind'
<1>1. block' = Append(block, events) /\ store' = store
  BY DEF Emit
<1>2. Pending \in Seq(EventSet) /\ Pending' = Pending \o events
  BY <1>1, FlattenType, FlattenAppend DEF Pending
<1> DEFINE F == Pending
           H == F \o events
           m == Len(F)
           n == Len(events)
<1>3. /\ m \in Nat /\ n \in Nat /\ Len(H) = m + n
      /\ \A i \in 1..m : H[i] = F[i]
      /\ \A i \in 1..n : H[m + i] = events[i]
      /\ \A i \in 1..(m + n) : i \in 1..m \/ i - m \in 1..n
  <2>1. F \in Seq(EventSet)
    BY <1>2
  <2> HIDE DEF F
  <2> QED BY <2>1
<1>4. Pending' = H
  BY <1>2
<1> HIDE DEF F, H
<1>5. ASSUME NEW names PROVE Has(H, names) <=> Has(F, names) \/ Has(events, names)
  <2>1. ASSUME Has(F, names) PROVE Has(H, names)
    <3>1. PICK i \in 1..m : F[i].name \in names
      BY <2>1 DEF Has
    <3> QED BY <1>3, <3>1 DEF Has
  <2>2. ASSUME Has(events, names) PROVE Has(H, names)
    <3>1. PICK i \in 1..n : events[i].name \in names
      BY <2>2 DEF Has
    <3>2. m + i \in 1..(m + n) /\ H[m + i] = events[i]
      BY <1>3
    <3> QED BY <1>3, <3>1, <3>2 DEF Has
  <2>3. ASSUME Has(H, names) PROVE Has(F, names) \/ Has(events, names)
    <3>1. PICK i \in 1..(m + n) : H[i].name \in names
      BY <1>3, <2>3 DEF Has
    <3>2. CASE i \in 1..m
      BY <1>3, <3>1, <3>2 DEF Has
    <3>3. CASE i - m \in 1..n
      <4>1. H[i] = events[i - m]
        <5>1. m + (i - m) = i
          BY <1>3
        <5> QED BY <1>3, <3>3, <5>1
      <4> QED BY <3>1, <3>3, <4>1 DEF Has
    <3> QED BY <1>3, <3>2, <3>3
  <2> QED BY <2>1, <2>2, <2>3
<1>6. Refreshed(events) => Refreshed(H)
  <2> SUFFICES ASSUME NEW i \in 1..n, Refreshing(events, i) PROVE Refreshed(H)
    BY DEF Refreshed
  <2>1. m + i \in 1..(m + n) /\ H[m + i] = events[i]
    BY <1>3
  <2>2. ASSUME NEW j \in (m + i)..(m + n) PROVE H[j].name \notin Counting
    <3>1. j - m \in i..n /\ j - m \in 1..n /\ m + (j - m) = j
      BY <1>3
    <3> QED BY <1>3, <3>1 DEF Refreshing
  <2> QED BY <1>3, <2>1, <2>2 DEF Refreshed, Refreshing
<1>7. Refreshed(F) /\ ~Has(events, Counting) => Refreshed(H)
  <2> SUFFICES ASSUME NEW i \in 1..m, Refreshing(F, i), ~Has(events, Counting)
               PROVE  Refreshed(H)
    BY DEF Refreshed
  <2>1. i \in 1..(m + n) /\ H[i] = F[i]
    BY <1>3
  <2>2. ASSUME NEW j \in i..(m + n) PROVE H[j].name \notin Counting
    <3>1. CASE j \in 1..m
      BY <1>3, <3>1 DEF Refreshing
    <3>2. CASE j - m \in 1..n
      <4>1. m + (j - m) = j
        BY <1>3
      <4> QED BY <1>3, <3>2, <4>1 DEF Has
    <3>3. j \in 1..(m + n)
      BY <1>3
    <3> QED BY <1>3, <3>1, <3>2, <3>3
  <2> QED BY <1>3, <2>1, <2>2 DEF Refreshed, Refreshing
<1>8. LineBehind'
  BY <1>1, <1>4, <1>5 DEF LineBehind, Calls, F
<1>9. SlicesBehind'
  <2> SUFFICES ASSUME ~store.failed, Locked'
               PROVE  \/ Refreshed(H)
                      \/ /\ ~Has(H, Counting)
                         /\ store.tranches = TrancheInfos'
                         /\ store.juniorDeposited = JuniorDeposited'
    BY <1>1, <1>4 DEF SlicesBehind
  <2>1. CASE Refreshed(events)
    BY <1>6, <2>1
  <2>2. CASE ~Has(events, Counting) /\ SlicesKept
    <3>1. Locked /\ TrancheInfos' = TrancheInfos /\ JuniorDeposited' = JuniorDeposited
      BY <2>2 DEF SlicesKept
    <3>2. \/ Refreshed(F)
          \/ /\ ~Has(F, Counting)
             /\ store.tranches = TrancheInfos /\ store.juniorDeposited = JuniorDeposited
      BY <3>1 DEF SlicesBehind, F
    <3> QED BY <1>5, <1>7, <2>2, <3>1, <3>2
  <2> QED BY <2>1, <2>2 DEF Calls
<1> QED BY <1>8, <1>9

LEMMA HeardAhead ==
    ASSUME Ahead, LineBehind, SlicesBehind, block \in Seq(Seq(EventSet)), Heard
    PROVE  Ahead' /\ LineBehind' /\ SlicesBehind' /\ block' \in Seq(Seq(EventSet))
<1>1. CASE \E events \in Seq(EventSet) : Emit(events) /\ Leads(events) /\ Calls(events)
  BY <1>1, EmitAhead, CalledFor
<1>2. CASE UNCHANGED <<tokens, balance>> /\ UNCHANGED subgraphVars /\ SlicesKept
  <2>1. UNCHANGED <<tokens, balance, owner, block, store>>
    BY <1>2 DEF subgraphVars
  <2> QED BY <1>2, <2>1 DEF Ahead, LineBehind, SlicesBehind, SlicesKept, Pending
<1> QED BY <1>1, <1>2 DEF Heard

OwnersOk == owner \in [DOMAIN tokens -> Wallets]

\* Ways to show what the events of a transaction call handlers for.
LEMMA SameSlicesKept ==
    ASSUME slices' = slices
    PROVE  SlicesKept
BY DEF SlicesKept, Locked, Current, isLocked, TrancheInfos, JuniorDeposited, SumOfSlices

LEMMA CallsByLast ==
    ASSUME NEW events, Len(events) \in Nat \ {0}, NEW e, events[Len(events)] = e,
           e.name \notin TokenEvents \cup Counting, balance' = balance \/ e.name \in OfLoan
    PROVE  Calls(events)
<1> DEFINE n == Len(events)
<1>1. n \in 1..n /\ \A j \in n..n : j = n
  OBVIOUS
<1>2. Refreshing(events, n)
  BY <1>1 DEF Refreshing
<1>3. balance' # balance => Has(events, OfLoan)
  BY <1>1 DEF Has
<1> QED BY <1>1, <1>2, <1>3 DEF Calls, Refreshed

LEMMA CallsForNothing ==
    ASSUME NEW events, ~Has(events, Counting), slices' = slices, balance' = balance
    PROVE  Calls(events)
BY SameSlicesKept DEF Calls

\* What is deposited is deposited in an open slice.
LEMMA DepositOpen ==
    ASSUME PoolInv, NEW kind \in Kinds, NEW amount \in Nat, Deposit(kind, amount)
    PROVE  ~Locked'
<1> DEFINE c == Current
           n == slices[c][kind].principalDeposited + amount
           slice == WithDeposit(slices[c], kind, n)
<1>1. /\ c \in DOMAIN slices /\ c = Len(slices) /\ slices[c] \in SliceType
      /\ slices \in Seq(SliceType)
  BY PoolFacts
<1>2. slices[c][kind].lockedUntil = 0
  BY DEF Deposit
<1>3. ~isLocked(slices[c]) /\ AtPar(slices[c])
  BY <1>1, <1>2, OpenTranche
<1>4. n \in Nat
  BY <1>1, KindFacts
<1>5. slices' = [slices EXCEPT ![c] = slice]
  BY DEF Deposit, WithDeposit
<1> HIDE DEF c, n, slice
<1>6. slice.senior.lockedUntil = slices[c].senior.lockedUntil
  <2>1. DepositSet(slices[c], slice, kind, n)
    BY <1>1, <1>3, <1>4, DepositChanged DEF slice
  <2> QED BY <2>1 DEF DepositSet, Kinds
<1>7. Len(slices') = Len(slices) /\ slices'[c] = slice
  BY <1>1, <1>5
<1> QED BY <1>1, <1>3, <1>6, <1>7 DEF Locked, Current, isLocked

LEMMA DepositHeard ==
    ASSUME PoolInv, OwnersOk, NEW user \in Wallets, NEW kind \in Kinds, NEW amount \in Nat,
           DepositBy(user, kind, amount)
    PROVE  Heard /\ OwnersOk'
<1> DEFINE id == lastTokenId + 1
           a == Transferred(id, Nobody, user)
           b == [name |-> "TokenMinted", id |-> id, to |-> user, amount |-> amount]
           c == [name |-> "DepositMade", to |-> user, tranche |-> <<Current, kind>>,
                 amount |-> amount]
           G == <<a, b, c>>
<1>1. /\ lastTokenId' = id /\ id \in Nat /\ id \notin DOMAIN tokens
      /\ tokens' = [x \in DOMAIN tokens \cup {id} |->
                       IF x = id THEN TokenInfo(<<Current, kind>>, amount) ELSE tokens[x]]
      /\ balance' = balance /\ owner' = Added(owner, id, user)
  BY TokenFacts DEF DepositBy, Deposit, mint, clVars, accounting
<1>2. Emit(G)
  BY <1>1 DEF DepositBy
<1>3. a \in EventSet /\ b \in EventSet /\ c \in EventSet
  <2>1. Current \in Nat
    BY PoolFacts
  <2> QED BY <1>1, <2>1 DEF EventSet, Everyone, Transferred
<1>4. /\ a.name = "Transfer" /\ a.id = id
      /\ b.name = "TokenMinted" /\ b.id = id /\ b.to = user /\ b.amount = amount
      /\ c.name = "DepositMade"
  BY DEF Transferred
<1> HIDE DEF id, a, b, c
<1>5. Leads(G)
  <2> SUFFICES ASSUME NEW r, \A j \in 1..Len(G) : Follows(r[j - 1], r[j], G[j]),
                      Tells(r[0], tokens, owner, balance)
               PROVE  Tells(r[Len(G)], tokens', owner', balance')
    BY DEF Leads
  <2>1. Follows(r[0], r[1], a) /\ Follows(r[1], r[2], b) /\ Follows(r[2], r[3], c)
    OBVIOUS
  <2>2. Tells(r[1], tokens, owner, balance)
    BY <1>1, <1>4, <2>1, UnknownMirrors, TokenTells DEF TokenEvents, OfToken
  <2>3. ~Stopped(r[1]) /\ Mirrors(r[1], tokens, owner) => Mirrors(r[2], tokens', owner')
    <3> SUFFICES ASSUME ~Stopped(r[1]), Mirrors(r[1], tokens, owner)
                 PROVE  Mirrors(r[2], tokens', owner')
      OBVIOUS
    <3> DEFINE tranche == <<Current, kind>>
    <3> HIDE DEF tranche
    <3>1. /\ DOMAIN tokens' = DOMAIN tokens \cup {b.id}
          /\ tokens'[b.id] = TokenInfo(tranche, b.amount)
          /\ \A x \in DOMAIN tokens : tokens'[x] = tokens[x]
      BY <1>1, <1>4 DEF tranche
    <3>2. /\ DOMAIN owner' = DOMAIN owner \cup {b.id} /\ owner'[b.id] = b.to
          /\ \A x \in DOMAIN owner : owner'[x] = owner[x]
      BY <1>1, <1>4 DEF Added, OwnersOk
    <3>3. Mints(b, tranche, tokens, owner, tokens', owner')
      BY <3>1, <3>2 DEF Mints
    <3>4. b.id \in Nat /\ b.id \notin DOMAIN tokens /\ b.to \in Wallets
      BY <1>1, <1>4
    <3> QED BY <1>4, <2>1, <3>3, <3>4, MintedMirrors
  <2>4. Tells(r[2], tokens', owner', balance)
    BY <1>4, <2>1, <2>2, <2>3, TokenTells DEF TokenEvents
  <2>5. Tells(r[3], tokens', owner', balance)
    BY <1>4, <2>1, <2>4, PlainTells DEF TokenEvents, OfToken
  <2> QED BY <1>1, <2>5
<1>6. OwnersOk'
  BY <1>1 DEF OwnersOk, Added
<1>7. G \in Seq(EventSet)
  BY <1>3
<1> HIDE DEF G
<1>8. Calls(G)
  <2>1. ~Locked'
    BY DepositOpen DEF DepositBy
  <2> QED BY <1>1, <2>1 DEF Calls
<1> QED BY <1>2, <1>5, <1>6, <1>7, <1>8 DEF Heard

LEMMA WithdrawalHeard ==
    ASSUME PoolInv, OwnersOk, NEW id \in DOMAIN tokens, NEW amount \in Nat,
           WithdrawFrom(id, amount)
    PROVE  Heard /\ OwnersOk'
<1> DEFINE a == TokenEvent(id, amount)
           b == Event("WithdrawalMade")
           G == <<a, b>>
           Told == /\ a \in EventSet /\ DOMAIN tokens' = DOMAIN tokens
                   /\ \A s, t : Follows(s, t, a) /\ Tells(s, tokens, owner, balance)
                                  => Tells(t, tokens', owner, balance)
<1>1. /\ balance' = balance /\ owner' = owner /\ Emit(G) /\ CanCompute(id)
      /\ WithdrawDeposit(id, amount) \/ RedeemToken(id, amount)
  BY DEF WithdrawFrom, Withdraw, clVars, accounting
<1>2. /\ DOMAIN tokens \subseteq Nat /\ tokens[id] \in TokenType /\ DOMAIN owner = DOMAIN tokens
      /\ owner[id] \in Wallets
  BY TokenFacts DEF OwnersOk
<1>3. PrincipalRedeemable(id) \in Nat /\ InterestRedeemable(id) \in Nat
  BY <1>1, RedeemableFacts
<1>4. ASSUME TrancheOf(id).lockedUntil = 0 PROVE Told
  <2>1. a = [name |-> "TokenPrincipalWithdrawn", id |-> id, from |-> owner[id],
             amount |-> amount]
    BY <1>4 DEF TokenEvent
  <2>2. /\ a \in EventSet /\ a.name = "TokenPrincipalWithdrawn" /\ a.id = id
        /\ a.from = owner[id] /\ a.amount = amount
    BY <1>2, <2>1 DEF EventSet
  <2>3. withdrawPrincipal(id, amount)
    BY <1>1, <1>4 DEF WithdrawDeposit, RedeemToken
  <2>4. tokens' = [tokens EXCEPT ![id].principalAmount = @ - amount]
    BY <2>3 DEF withdrawPrincipal
  <2>5. Withdraws(a, tokens, tokens') /\ DOMAIN tokens' = DOMAIN tokens
    BY <2>2, <2>4 DEF Withdraws
  <2> HIDE DEF a
  <2>6. ASSUME NEW s, NEW t, Follows(s, t, a), Tells(s, tokens, owner, balance)
        PROVE  Tells(t, tokens', owner, balance)
    <3>1. ~Stopped(s) /\ Mirrors(s, tokens, owner) => Mirrors(t, tokens', owner)
      BY <1>2, <2>2, <2>5, <2>6, WithdrawnMirrors
    <3>2. a.name \in TokenEvents
      BY <2>2 DEF TokenEvents, OfToken
    <3> QED BY <2>6, <3>1, <3>2, TokenTells
  <2> QED BY <2>2, <2>5, <2>6
<1>5. ASSUME TrancheOf(id).lockedUntil # 0 PROVE Told
  <2> DEFINE interest == Smaller(InterestRedeemable(id), amount)
             principal == Smaller(PrincipalRedeemable(id), amount - interest)
  <2>1. a = [name |-> "TokenRedeemed", id |-> id, interest |-> interest,
             principal |-> principal]
    BY <1>5 DEF TokenEvent
  <2>2. redeem(id, principal, interest)
    BY <1>1, <1>5 DEF WithdrawDeposit, RedeemToken
  <2>3. interest \in Nat /\ principal \in Nat
    BY <1>3 DEF Smaller
  <2> HIDE DEF interest, principal
  <2>4. /\ a \in EventSet /\ a.name = "TokenRedeemed" /\ a.id = id
        /\ a.interest = interest /\ a.principal = principal
    BY <1>2, <2>1, <2>3 DEF EventSet
  <2>5. tokens' = [tokens EXCEPT ![id].principalRedeemed = @ + principal,
                                 ![id].interestRedeemed = @ + interest]
    BY <2>2 DEF redeem
  <2> HIDE DEF a
  <2>6. Redeems(a, tokens, tokens') /\ DOMAIN tokens' = DOMAIN tokens
    BY <2>4, <2>5 DEF Redeems
  <2>7. ASSUME NEW s, NEW t, Follows(s, t, a), Tells(s, tokens, owner, balance)
        PROVE  Tells(t, tokens', owner, balance)
    <3>1. ~Stopped(s) /\ Mirrors(s, tokens, owner) => Mirrors(t, tokens', owner)
      BY <1>2, <2>4, <2>6, <2>7, RedeemedMirrors
    <3>2. a.name \in TokenEvents
      BY <2>4 DEF TokenEvents, OfToken
    <3> QED BY <2>7, <3>1, <3>2, TokenTells
  <2> QED BY <2>4, <2>6, <2>7
<1>6. Told
  BY <1>4, <1>5
<1>7. b.name = "WithdrawalMade" /\ b \in EventSet
  BY DEF Event, EventSet, PlainNames
<1> HIDE DEF a, b
<1>8. Leads(G)
  <2> SUFFICES ASSUME NEW r, \A j \in 1..Len(G) : Follows(r[j - 1], r[j], G[j]),
                      Tells(r[0], tokens, owner, balance)
               PROVE  Tells(r[Len(G)], tokens', owner', balance')
    BY DEF Leads
  <2>1. Follows(r[0], r[1], a) /\ Follows(r[1], r[2], b)
    OBVIOUS
  <2>2. Tells(r[1], tokens', owner, balance)
    BY <1>6, <2>1
  <2>3. Tells(r[2], tokens', owner, balance)
    BY <1>7, <2>1, <2>2, PlainTells DEF TokenEvents, OfToken
  <2> QED BY <1>1, <2>3
<1>9. OwnersOk'
  BY <1>1, <1>6 DEF OwnersOk
<1>10. G \in Seq(EventSet)
  BY <1>6, <1>7
<1>11. Calls(G)
  <2>1. Len(G) \in Nat \ {0} /\ G[Len(G)] = b
    OBVIOUS
  <2>2. b.name \notin TokenEvents \cup Counting
    BY <1>7 DEF TokenEvents, OfToken, Counting
  <2> HIDE DEF G
  <2> QED BY <1>1, <2>1, <2>2, CallsByLast
<1> HIDE DEF G
<1> QED BY <1>1, <1>8, <1>9, <1>10, <1>11 DEF Heard

LEMMA TransferHeard ==
    ASSUME PoolInv, OwnersOk, NEW id \in DOMAIN tokens, NEW to \in Backers,
           TransferToken(id, to)
    PROVE  Heard /\ OwnersOk'
<1> DEFINE a == Transferred(id, owner[id], to)
           G == <<a>>
<1>1. /\ balance' = balance /\ tokens' = tokens /\ slices' = slices
      /\ SelfTransfers \/ to # owner[id]
      /\ owner' = [owner EXCEPT ![id] = to] /\ Emit(G)
  BY DEF TransferToken, clVars, accounting, poolVars, ledger, tokenVars
<1>2. /\ DOMAIN owner = DOMAIN tokens /\ owner[id] \in Wallets /\ to \in Wallets /\ id \in Nat
      /\ Wallets \subseteq Everyone
  BY TokenFacts DEF OwnersOk, Wallets, Everyone
<1>3. /\ a \in EventSet /\ a.name = "Transfer" /\ a.id = id /\ a.from = owner[id]
      /\ a.to = to /\ a.name \in TokenEvents
  BY <1>2 DEF Transferred, EventSet, TokenEvents, OfToken
<1> HIDE DEF a
<1>4. Sends(a, owner, owner')
  BY <1>1, <1>3 DEF Sends
<1>5. Leads(G)
  <2> SUFFICES ASSUME NEW r, \A j \in 1..Len(G) : Follows(r[j - 1], r[j], G[j]),
                      Tells(r[0], tokens, owner, balance)
               PROVE  Tells(r[Len(G)], tokens', owner', balance')
    BY DEF Leads
  <2>1. Follows(r[0], r[1], a)
    OBVIOUS
  <2>2. ~SelfTransfers /\ ~Stopped(r[0]) /\ Mirrors(r[0], tokens, owner)
           => Mirrors(r[1], tokens, owner')
    BY <1>1, <1>2, <1>3, <1>4, <2>1, TransferMirrors
  <2>3. Tells(r[1], tokens, owner', balance)
    BY <1>3, <2>1, <2>2, TokenTells
  <2> QED BY <1>1, <2>3
<1>6. OwnersOk'
  BY <1>1, <1>2 DEF OwnersOk
<1>7. G \in Seq(EventSet)
  BY <1>3
<1>8. Calls(G)
  <2>1. ~Has(G, Counting)
    BY <1>3 DEF Has, Counting
  <2> QED BY <1>1, <2>1, CallsForNothing
<1> HIDE DEF G
<1> QED BY <1>1, <1>5, <1>6, <1>7, <1>8 DEF Heard

LEMMA BurnHeard ==
    ASSUME PoolInv, OwnersOk, NEW id \in DOMAIN tokens, BurnToken(id)
    PROVE  Heard /\ OwnersOk'
<1> DEFINE a == Transferred(id, owner[id], Nobody)
           b == [name |-> "TokenBurned", id |-> id]
           G == <<a, b>>
           between == [owner EXCEPT ![id] = Nobody]
<1>1. /\ balance' = balance /\ slices' = slices
      /\ tokens' = Restrict(tokens, DOMAIN tokens \ {id})
      /\ owner' = Restrict(owner, DOMAIN owner \ {id}) /\ Emit(G)
  BY DEF BurnToken, Burn, burn, clVars, accounting, ledger
<1>2. /\ DOMAIN owner = DOMAIN tokens /\ owner[id] \in Wallets /\ Nobody \notin Wallets
      /\ id \in Nat /\ Wallets \subseteq Everyone /\ Nobody \in Everyone
  BY TokenFacts, SubgraphAssumption DEF OwnersOk, Wallets, Everyone
<1>3. /\ a \in EventSet /\ a.name = "Transfer" /\ a.id = id /\ a.from = owner[id]
      /\ a.to = Nobody /\ a.name \in TokenEvents
      /\ b \in EventSet /\ b.name = "TokenBurned" /\ b.id = id /\ b.name \in TokenEvents
  BY <1>2 DEF Transferred, EventSet, TokenEvents, OfToken
<1> HIDE DEF a, b
<1>4. Sends(a, owner, between) /\ DOMAIN between = DOMAIN owner /\ between[id] = Nobody
  BY <1>2, <1>3 DEF Sends
<1>5. Burns(b, tokens, between, tokens', owner')
  BY <1>1, <1>2, <1>3, <1>4 DEF Burns, Restrict
<1> HIDE DEF between
<1>6. Leads(G)
  <2> SUFFICES ASSUME NEW r, \A j \in 1..Len(G) : Follows(r[j - 1], r[j], G[j]),
                      Tells(r[0], tokens, owner, balance)
               PROVE  Tells(r[Len(G)], tokens', owner', balance')
    BY DEF Leads
  <2>1. Follows(r[0], r[1], a) /\ Follows(r[1], r[2], b)
    OBVIOUS
  <2>2. ~Stopped(r[0]) /\ Mirrors(r[0], tokens, owner) => Mirrors(r[1], tokens, between)
    BY <1>2, <1>3, <1>4, <2>1, TransferMirrors
  <2>3. Tells(r[1], tokens, between, balance)
    BY <1>3, <2>1, <2>2, TokenTells
  <2>4. ~Stopped(r[1]) /\ Mirrors(r[1], tokens, between) => Mirrors(r[2], tokens', owner')
    BY <1>2, <1>3, <1>4, <1>5, <2>1, BurnedMirrors
  <2>5. Tells(r[2], tokens', owner', balance)
    BY <1>3, <2>1, <2>3, <2>4, TokenTells
  <2> QED BY <1>1, <2>5
<1>7. OwnersOk'
  BY <1>1, <1>2 DEF OwnersOk, Restrict
<1>8. G \in Seq(EventSet)
  BY <1>3
<1>9. Calls(G)
  <2>1. ~Has(G, Counting)
    BY <1>3 DEF Has, Counting
  <2> QED BY <1>1, <2>1, CallsForNothing
<1> HIDE DEF G
<1> QED BY <1>1, <1>6, <1>7, <1>8, <1>9 DEF Heard

\* One event of the pool, which leaves the tokens and the loan alone.
LEMMA PlainHeard ==
    ASSUME UNCHANGED <<tokens, balance, owner>>, NEW name \in PlainNames, Emit(<<Event(name)>>)
    PROVE  Heard
<1> DEFINE a == Event(name)
           G == <<a>>
<1>1. /\ a \in EventSet /\ a.name \notin TokenEvents \cup {"DrawdownMade", "PaymentApplied"}
  BY DEF Event, EventSet, PlainNames, TokenEvents, OfToken
<1> HIDE DEF a
<1>2. Leads(G)
  <2> SUFFICES ASSUME NEW r, \A j \in 1..Len(G) : Follows(r[j - 1], r[j], G[j]),
                      Tells(r[0], tokens, owner, balance)
               PROVE  Tells(r[Len(G)], tokens', owner', balance')
    BY DEF Leads
  <2>1. Follows(r[0], r[1], a)
    OBVIOUS
  <2>2. Tells(r[1], tokens, owner, balance)
    BY <1>1, <2>1, PlainTells
  <2> QED BY <2>2
<1>3. Emit(G) /\ G \in Seq(EventSet)
  BY <1>1 DEF a
<1>4. Calls(G)
  <2>1. Len(G) \in Nat \ {0} /\ G[Len(G)] = a /\ a.name \notin Counting
    BY DEF a, Event, PlainNames, Counting
  <2> HIDE DEF G
  <2> QED BY <1>1, <2>1, CallsByLast
<1> HIDE DEF G
<1> QED BY <1>2, <1>3, <1>4 DEF Heard

LEMMA PairOfSequences ==
    ASSUME NEW a, NEW b
    PROVE  <<a>> \o <<b>> = <<a, b>>
<1> DEFINE c == <<a>> \o <<b>>
<1>1. <<a>> \in Seq({a, b}) /\ <<b>> \in Seq({a, b})
  OBVIOUS
<1>2. Len(c) = 2 /\ c[1] = a /\ c[2] = b /\ c \in Seq({a, b})
  BY <1>1
<1> HIDE DEF c
<1>3. c = <<a, b>>
  BY <1>2
<1> QED BY <1>3 DEF c

LEMMA DrawHeard ==
    ASSUME PoolInv, ScheduleInv, NEW amount \in DrawAmounts, DrawAndEmit(amount), owner' = owner
    PROVE  Heard
<1> DEFINE a == Event("TrancheLocked")
           b == [name |-> "DrawdownMade", amount |-> amount]
           G == (IF Locked THEN <<>> ELSE <<a>>) \o <<b>>
<1>1. Emit(G) /\ PoolDrawdown(amount)
  BY DEF DrawAndEmit
<1>2. amount \in Nat /\ balance' = balance + amount /\ tokens' = tokens /\ balance \in Int
  BY <1>1, PoolDrawdownFacts DEF tokenVars, ScheduleInv, TypeOK
<1>3. /\ a \in EventSet /\ a.name \notin TokenEvents \cup {"DrawdownMade", "PaymentApplied"}
      /\ b \in EventSet /\ b.name = "DrawdownMade" /\ b.amount = amount
  BY <1>2 DEF Event, EventSet, PlainNames, TokenEvents, OfToken
<1> HIDE DEF a, b
<1>4. ASSUME NEW s, NEW t, Follows(s, t, b), Tells(s, tokens, owner, balance)
      PROVE  Tells(t, tokens', owner', balance')
  <2>1. CASE Stopped(s)
    BY <1>4, <2>1, StoppedStays DEF Tells
  <2>2. CASE ~Stopped(s)
    <3>1. (SelfTransfers \/ Mirrors(s, tokens, owner)) /\ AddsUp(s, balance)
      BY <1>4, <2>2 DEF Tells
    <3>2. SelfTransfers \/ Mirrors(t, tokens, owner)
      BY <1>3, <1>4, <3>1, PlainMirrors DEF TokenEvents, OfToken
    <3>3. AddsUp(t, balance + amount)
      BY <1>2, <1>3, <1>4, <3>1, LoanDrawn
    <3> QED BY <1>2, <3>2, <3>3 DEF Tells
  <2> QED BY <2>1, <2>2
<1>5. CASE Locked
  <2>1. G = <<b>>
    BY <1>3, <1>5
  <2> HIDE DEF G
  <2>2. Leads(<<b>>)
    BY <1>4 DEF Leads
  <2>3. <<b>> \in Seq(EventSet)
    BY <1>3
  <2>4. Calls(<<b>>)
    <3> DEFINE H == <<b>>
    <3>1. Len(H) \in Nat \ {0} /\ H[Len(H)] = b
      OBVIOUS
    <3> HIDE DEF H
    <3>2. b.name \notin TokenEvents \cup Counting /\ b.name \in OfLoan
      BY <1>3 DEF TokenEvents, OfToken, Counting, OfLoan
    <3>3. Calls(H)
      BY <3>1, <3>2, CallsByLast
    <3> QED BY <3>3 DEF H
  <2> QED BY <1>1, <2>1, <2>2, <2>3, <2>4 DEF Heard
<1>6. CASE ~Locked
  <2>1. G = <<a, b>>
    <3>1. G = <<a>> \o <<b>>
      BY <1>6
    <3>2. <<a>> \o <<b>> = <<a, b>>
      BY PairOfSequences
    <3> QED BY <3>1, <3>2
  <2> HIDE DEF G
  <2> DEFINE H == <<a, b>>
  <2>2. Leads(H)
    <3> SUFFICES ASSUME NEW r, \A j \in 1..Len(H) : Follows(r[j - 1], r[j], H[j]),
                        Tells(r[0], tokens, owner, balance)
                 PROVE  Tells(r[Len(H)], tokens', owner', balance')
      BY DEF Leads
    <3>1. Follows(r[0], r[1], a) /\ Follows(r[1], r[2], b)
      OBVIOUS
    <3>2. Tells(r[1], tokens, owner, balance)
      BY <1>3, <3>1, PlainTells
    <3> QED BY <1>4, <3>1, <3>2
  <2>3. H \in Seq(EventSet)
    BY <1>3
  <2>4. Calls(H)
    <3>1. Len(H) \in Nat \ {0} /\ H[Len(H)] = b
      OBVIOUS
    <3>2. b.name \notin TokenEvents \cup Counting /\ b.name \in OfLoan
      BY <1>3 DEF TokenEvents, OfToken, Counting, OfLoan
    <3> HIDE DEF H
    <3> QED BY <3>1, <3>2, CallsByLast
  <2> QED BY <1>1, <2>1, <2>2, <2>3, <2>4 DEF Heard
<1> QED BY <1>5, <1>6

LEMMA PaymentHeard ==
    ASSUME PoolInv, ScheduleInv, NEW payment \in Nat, PoolPayment(payment), ApplyAndEmit(payment),
           owner' = owner
    PROVE  Heard
<1>1. /\ PrincipalPayment(payment) \in Nat /\ balance' = balance - PrincipalPayment(payment)
      /\ Collected(payment) = 0 => PrincipalPayment(payment) = 0
      /\ tokens' = tokens /\ balance \in Int /\ Collected(payment) \in Nat
  BY PaymentFacts DEF PoolPayment, tokenVars, ScheduleInv, TypeOK
<1> DEFINE b == [name |-> "PaymentApplied", principal |-> PrincipalPayment(payment)]
           G == <<b>>
<1>2. b \in EventSet /\ b.name = "PaymentApplied" /\ b.principal = PrincipalPayment(payment)
  BY <1>1 DEF EventSet
<1>3. CASE Collected(payment) > 0
  <2>1. Emit(G)
    BY <1>3 DEF ApplyAndEmit
  <2> HIDE DEF b
  <2>2. ASSUME NEW s, NEW t, Follows(s, t, b), Tells(s, tokens, owner, balance)
        PROVE  Tells(t, tokens', owner', balance')
    <3>1. CASE Stopped(s)
      BY <2>2, <3>1, StoppedStays DEF Tells
    <3>2. CASE ~Stopped(s)
      <4>1. (SelfTransfers \/ Mirrors(s, tokens, owner)) /\ AddsUp(s, balance)
        BY <2>2, <3>2 DEF Tells
      <4>2. SelfTransfers \/ Mirrors(t, tokens, owner)
        BY <1>2, <2>2, <4>1, PlainMirrors DEF TokenEvents, OfToken
      <4>3. AddsUp(t, balance - PrincipalPayment(payment))
        BY <1>1, <1>2, <2>2, <4>1, LoanRepaid
      <4> QED BY <1>1, <4>2, <4>3 DEF Tells
    <3> QED BY <3>1, <3>2
  <2>3. Leads(G)
    BY <2>2 DEF Leads
  <2>4. G \in Seq(EventSet)
    BY <1>2
  <2>5. Calls(G)
    <3>1. Len(G) \in Nat \ {0} /\ G[Len(G)] = b
      OBVIOUS
    <3>2. b.name \notin TokenEvents \cup Counting /\ b.name \in OfLoan
      BY <1>2 DEF TokenEvents, OfToken, Counting, OfLoan
    <3> HIDE DEF G
    <3> QED BY <3>1, <3>2, CallsByLast
  <2> QED BY <2>1, <2>3, <2>4, <2>5 DEF Heard
<1>4. CASE ~(Collected(payment) > 0)
  <2>1. balance' = balance /\ UNCHANGED <<block, store>>
    BY <1>1, <1>4 DEF ApplyAndEmit
  <2>2. /\ DOMAIN slices' = DOMAIN slices /\ Len(slices') = Len(slices)
        /\ \A i \in DOMAIN slices, kind \in Kinds : slices'[i][kind] = slices[i][kind]
        /\ Len(slices) \in DOMAIN slices
    <3>1. Collected(payment) = 0
      BY <1>1, <1>4
    <3>2. Settled(payment, 0, 0)
      BY <3>1, NotCollected
    <3> QED BY <3>1, <3>2, PoolFacts DEF Settled
  <2>3. SlicesKept
    <3>1. Locked' = Locked
      BY <2>2 DEF Locked, Current, isLocked, Kinds
    <3>2. TrancheInfos' = TrancheInfos
      BY <2>2 DEF TrancheInfos
    <3>3. [i \in DOMAIN slices' |-> slices'[i].junior.principalDeposited]
             = [i \in DOMAIN slices |-> slices[i].junior.principalDeposited]
      BY <2>2 DEF Kinds
    <3>4. JuniorDeposited' = JuniorDeposited
      BY <2>2, <3>3 DEF JuniorDeposited, SumOfSlices
    <3> QED BY <3>1, <3>2, <3>4 DEF SlicesKept
  <2> QED BY <1>1, <2>1, <2>3 DEF Heard, subgraphVars
<1> QED BY <1>3, <1>4

LEMMA EventHeard ==
    ASSUME PoolEvent, owner' = owner
    PROVE  Heard /\ tokens' = tokens
<1>1. UNCHANGED <<tokens, balance>>
  <2>1. CASE LockJuniorCapital \/ LockPool
    BY <2>1 DEF LockJuniorCapital, LockPool, SetLimit, clVars, accounting, tokenVars
  <2>2. CASE \E time \in FundableTimes : InitializeNextSlice(time)
    BY <2>2 DEF InitializeNextSlice, clVars, accounting, tokenVars
  <2>3. CASE EmergencyShutdown
    BY <2>3 DEF EmergencyShutdown, Sweep, clVars, accounting, tokenVars
  <2>4. CASE \E value \in PauseValues : SetDrawdownsPaused(value)
    BY <2>4 DEF SetDrawdownsPaused, clVars, accounting, tokenVars
  <2>5. CASE KeptLimitMigration
    BY <2>5 DEF KeptLimitMigration, Migrate, accounting, poolVars, tokenVars
  <2> QED BY <2>1, <2>2, <2>3, <2>4, <2>5 DEF PoolEvent, KeptLimitMigration
<1>2. \E name \in PlainNames : Emit(<<Event(name)>>)
  BY DEF PoolEvent, PlainNames
<1>3. UNCHANGED <<tokens, balance, owner>>
  BY <1>1
<1> QED BY <1>1, <1>2, <1>3, PlainHeard

LEMMA UnheardHeard ==
    ASSUME Unheard, owner' = owner
    PROVE  Heard /\ tokens' = tokens
<1>1. UNCHANGED <<tokens, balance, slices>>
  <2>1. CASE \E value \in PauseValues : SetPaused(value)
    BY <2>1 DEF SetPaused, clVars, accounting, ledger, tokenVars
  <2>2. CASE \E time \in FundableTimes : SetFundableAt(time)
    BY <2>2 DEF SetFundableAt, clVars, accounting, ledger, tokenVars
  <2>3. ASSUME \/ \E amount \in Donations : Receive(amount)
               \/ \E limit \in AdminLimits : SetLimit(limit) \/ SetMaxLimit(limit),
               UNCHANGED poolVars
        PROVE  UNCHANGED <<tokens, balance, slices>>
    BY <2>3 DEF Receive, SetLimit, SetMaxLimit, accounting, poolVars, ledger, tokenVars
  <2> QED BY <2>1, <2>2, <2>3 DEF Unheard
<1> QED BY <1>1, SameSlicesKept DEF Unheard, Heard, subgraphVars

\* Whatever happens on the chain is told of.
LEMMA ChainHeard ==
    ASSUME AccountsInv, ScheduleInv, OwnersOk,
           [SubgraphNext]_<<clVars, poolVars, subgraphVars>>, ~IndexBlock
    PROVE  Heard /\ OwnersOk'
<1>1. PoolInv /\ DepositAmounts \subseteq Nat
  BY TranchedPoolAssumption DEF AccountsInv
<1>2. ASSUME NEW amount \in DepositAmounts, NEW user \in Backers,
             DepositBy(user, "junior", amount)
      PROVE  Heard /\ OwnersOk'
  BY <1>1, <1>2, DepositHeard DEF Wallets, Kinds
<1>3. ASSUME NEW amount \in DepositAmounts, DepositBy(SeniorFund, "senior", amount)
      PROVE  Heard /\ OwnersOk'
  BY <1>1, <1>3, DepositHeard DEF Wallets, Kinds
<1>4. ASSUME NEW id \in DOMAIN tokens, NEW amount \in DepositAmounts \cup {Redeemable(id)},
             WithdrawFrom(id, amount)
      PROVE  Heard /\ OwnersOk'
  <2>1. CanCompute(id)
    BY <1>4 DEF WithdrawFrom, Withdraw
  <2>2. amount \in Nat
    BY <1>1, <2>1, RedeemableFacts DEF Redeemable
  <2> QED BY <1>1, <1>4, <2>2, WithdrawalHeard
<1>5. ASSUME NEW id \in DOMAIN tokens, NEW to \in Backers, TransferToken(id, to)
      PROVE  Heard /\ OwnersOk'
  BY <1>1, <1>5, TransferHeard
<1>6. ASSUME NEW id \in DOMAIN tokens, BurnToken(id)
      PROVE  Heard /\ OwnersOk'
  BY <1>1, <1>6, BurnHeard
<1>7. ASSUME UNCHANGED owner,
             \/ \E amount \in DrawAmounts : DrawAndEmit(amount)
             \/ PoolAssess /\ ApplyAndEmit(usdc)
             \/ \E amount \in Amounts : PoolPay(amount) /\ ApplyAndEmit(usdc + amount)
             \/ PoolEvent
             \/ Unheard
      PROVE  Heard /\ DOMAIN tokens' = DOMAIN tokens
  <2>1. CASE \E amount \in DrawAmounts : DrawAndEmit(amount)
    BY <1>1, <1>7, <2>1, DrawHeard, PoolDrawdownFacts DEF DrawAndEmit, tokenVars
  <2>2. CASE PoolAssess /\ ApplyAndEmit(usdc)
    <3>1. usdc \in Nat
      BY DEF ScheduleInv, TypeOK
    <3>2. PoolPayment(usdc)
      BY <2>2 DEF PoolAssess, PoolPayment, Assess
    <3> QED BY <1>1, <1>7, <2>2, <3>1, <3>2, PaymentHeard DEF PoolPayment, tokenVars
  <2>3. ASSUME NEW amount \in Amounts, PoolPay(amount), ApplyAndEmit(usdc + amount)
        PROVE  Heard /\ DOMAIN tokens' = DOMAIN tokens
    <3>1. usdc + amount \in Nat
      BY CreditLineAssumption DEF ScheduleInv, TypeOK
    <3>2. PoolPayment(usdc + amount)
      BY <2>3 DEF PoolPay, PoolPayment, Pay
    <3> QED BY <1>1, <1>7, <2>3, <3>1, <3>2, PaymentHeard DEF PoolPayment, tokenVars
  <2>4. CASE PoolEvent
    BY <1>7, <2>4, EventHeard
  <2>5. CASE Unheard
    BY <1>7, <2>5, UnheardHeard
  <2> QED BY <1>7, <2>1, <2>2, <2>3, <2>4, <2>5
<1>8. CASE NextTimestamp \/ UNCHANGED <<clVars, poolVars, subgraphVars>>
  <2>1. UNCHANGED <<tokens, balance, slices>> /\ UNCHANGED subgraphVars
    BY <1>8 DEF NextTimestamp, Tick, clVars, accounting, poolVars, ledger, tokenVars
  <2> QED BY <2>1, SameSlicesKept DEF Heard, OwnersOk, subgraphVars
<1>9. UNCHANGED owner /\ DOMAIN tokens' = DOMAIN tokens => OwnersOk'
  BY DEF OwnersOk
<1> QED BY <1>2, <1>3, <1>4, <1>5, <1>6, <1>7, <1>8, <1>9 DEF SubgraphNext

-----------------------------------------------------------------------------
(* A block is indexed.                                                     *)

\* What was read of the contracts before the block's end is read again, or was right.
LEMMA ReadAtTheEnd ==
    ASSUME NEW q, NEW F \in Seq(EventSet), NEW s, q[0] = s,
           \A i \in 0..Len(F) : ~q[i].failed,
           \A i \in 1..Len(F) : Reads(q[i - 1], q[i], F[i])
    PROVE  /\ s.lineBalance = balance \/ Has(F, OfLoan) => q[Len(F)].lineBalance = balance
           /\ \/ Refreshed(F)
              \/ /\ ~Has(F, Counting)
                 /\ s.tranches = TrancheInfos /\ s.juniorDeposited = JuniorDeposited
              => q[Len(F)].tranches = TrancheInfos /\ q[Len(F)].juniorDeposited = JuniorDeposited
<1> DEFINE n == Len(F)
           Right(t) == t.tranches = TrancheInfos /\ t.juniorDeposited = JuniorDeposited
           InLine == {i \in Nat : q[i].lineBalance = balance}
           T == {i \in Nat : Right(q[i])}
<1>1. n \in Nat
  OBVIOUS
<1>2. ASSUME NEW i \in Nat, i < n
      PROVE  /\ q[i].lineBalance = balance \/ F[i + 1].name \in OfLoan
                  => q[i + 1].lineBalance = balance
             /\ \/ F[i + 1].name \notin TokenEvents \cup Counting
                \/ Right(q[i]) /\ F[i + 1].name \notin Counting
                => Right(q[i + 1])
  <2>1. i + 1 \in 1..n /\ (i + 1) - 1 = i /\ i + 1 \in 0..n
    BY <1>1, <1>2
  <2>2. Reads(q[i], q[i + 1], F[i + 1]) /\ ~q[i + 1].failed
    BY <2>1
  <2> QED BY <2>2 DEF Reads, OfLoan, Counting
<1>3. ASSUME NEW a \in 0..n, q[a].lineBalance = balance PROVE q[n].lineBalance = balance
  <2>1. \A i \in Nat : a <= i /\ i < n /\ i \in InLine => i + 1 \in InLine
    BY <1>2
  <2>2. a \in Nat /\ a \in InLine /\ n \in a..n
    BY <1>1, <1>3
  <2>3. \A i \in InLine : q[i].lineBalance = balance
    OBVIOUS
  <2> HIDE DEF InLine, n
  <2>4. \A i \in a..n : i \in InLine
    BY <1>1, <2>1, <2>2, RangeInduction
  <2> QED BY <2>2, <2>3, <2>4
<1>4. ASSUME NEW a \in 0..n, Right(q[a]),
             \A j \in (a + 1)..n : F[j].name \notin Counting
      PROVE  Right(q[n])
  <2>1. \A i \in Nat : a <= i /\ i < n /\ i \in T => i + 1 \in T
    <3> SUFFICES ASSUME NEW i \in Nat, a <= i, i < n, Right(q[i]) PROVE Right(q[i + 1])
      OBVIOUS
    <3>1. i + 1 \in (a + 1)..n
      BY <1>1
    <3> QED BY <1>2, <1>4, <3>1
  <2>2. a \in Nat /\ a \in T /\ n \in a..n
    BY <1>1, <1>4
  <2>3. \A i \in T : Right(q[i])
    OBVIOUS
  <2> HIDE DEF T, n, Right
  <2>4. \A i \in a..n : i \in T
    BY <1>1, <2>1, <2>2, RangeInduction
  <2> QED BY <2>2, <2>3, <2>4
<1>5. ASSUME s.lineBalance = balance \/ Has(F, OfLoan) PROVE q[n].lineBalance = balance
  <2>1. CASE s.lineBalance = balance
    BY <1>1, <1>3, <2>1
  <2>2. CASE Has(F, OfLoan)
    <3>1. PICK i \in 1..n : F[i].name \in OfLoan
      BY <2>2 DEF Has
    <3>2. i - 1 \in Nat /\ i - 1 < n /\ (i - 1) + 1 = i /\ i \in 0..n
      BY <1>1
    <3>3. q[i].lineBalance = balance
      BY <1>2, <3>1, <3>2
    <3> QED BY <1>3, <3>2, <3>3
  <2> QED BY <1>5, <2>1, <2>2
<1>6. ASSUME Refreshed(F) PROVE Right(q[n])
  <2>1. PICK i \in 1..n : Refreshing(F, i)
    BY <1>6 DEF Refreshed
  <2>2. i - 1 \in Nat /\ i - 1 < n /\ (i - 1) + 1 = i /\ i \in 0..n
    BY <1>1
  <2>3. F[i].name \notin TokenEvents \cup Counting /\ \A j \in i..n : F[j].name \notin Counting
    BY <2>1 DEF Refreshing
  <2>4. Right(q[i])
    <3> HIDE DEF Right
    <3> QED BY <1>2, <2>2, <2>3
  <2>5. \A j \in (i + 1)..n : F[j].name \notin Counting
    BY <1>1, <2>3
  <2> HIDE DEF Right
  <2> QED BY <1>4, <2>2, <2>4, <2>5
<1>7. ASSUME ~Has(F, Counting), Right(s) PROVE Right(q[n])
  <2>1. \A j \in (0 + 1)..n : F[j].name \notin Counting
    BY <1>7 DEF Has
  <2>2. 0 \in 0..n /\ Right(q[0])
    BY <1>1, <1>7
  <2> HIDE DEF Right
  <2> QED BY <1>4, <2>1, <2>2
<1> QED BY <1>5, <1>6, <1>7

LEMMA IndexKeeps ==
    ASSUME IsStore(store), block \in Seq(Seq(EventSet)), Ahead, LineBehind, SlicesBehind,
           IndexBlock
    PROVE  /\ IsStore(store') /\ block' \in Seq(Seq(EventSet))
           /\ Ahead' /\ LineBehind' /\ SlicesBehind'
<1> DEFINE F == Pending
           n == Len(F)
           indexed == FoldLeft(Handle, store, F)
<1>1. /\ block' = <<>> /\ UNCHANGED <<tokens, balance, owner, slices>>
      /\ store' = IF Stopped(indexed) THEN [store EXCEPT !.failed = TRUE] ELSE indexed
  BY DEF IndexBlock, Pending, clVars, accounting, poolVars, ledger, tokenVars
<1>2. F \in Seq(EventSet) /\ n \in Nat
  BY FlattenType DEF Pending
<1>3. Pending' = <<>> /\ Len(<<>>) = 0
  BY <1>1, FlattenEmpty DEF Pending
<1> HIDE DEF F, indexed
<1>4. PICK q : Handled(q, store, F) /\ q[n] = indexed
  BY <1>2, FoldIsHandled DEF indexed
<1>5. /\ Chain(q, store, F) /\ q[0] = store
      /\ \A i \in 0..n : IsStore(q[i])
      /\ \A i \in 1..n : Reads(q[i - 1], q[i], F[i])
  BY <1>2, <1>4, HandledIsChain DEF Handled
<1>6. \A i \in 0..n : (store.failed => q[i].failed) /\ (q[i].failed => q[n].failed)
  BY <1>2, <1>5, FailedStays
<1>7. CASE Stopped(indexed)
  <2>1. store' = [store EXCEPT !.failed = TRUE]
    BY <1>1, <1>7
  <2>2. IsStore(store') /\ store'.failed
    BY <2>1 DEF IsStore
  <2>3. Stopped(store')
    BY <1>7, <2>2 DEF Stopped
  <2>4. Ahead' /\ LineBehind' /\ SlicesBehind'
    BY <2>2, <2>3 DEF Ahead, LineBehind, SlicesBehind
  <2> QED BY <1>1, <2>2, <2>4
<1>8. CASE ~Stopped(indexed)
  <2>1. store' = q[n] /\ IsStore(store')
    BY <1>1, <1>2, <1>4, <1>5, <1>8
  <2>2. ~Stopped(store)
    BY <1>2, <1>4, <1>6, <1>8 DEF Stopped
  <2>3. Tells(q[n], tokens, owner, balance)
    BY <1>5, <2>2 DEF Ahead, F
  <2>4. Ahead'
    <3> SUFFICES ASSUME NEW p, Chain(p, store', <<>>)
                 PROVE  Tells(p[0], tokens', owner', balance')
      BY <1>3 DEF Ahead
    <3>1. p[0] = q[n]
      BY <2>1 DEF Chain
    <3> QED BY <1>1, <2>3, <3>1
  <2>5. ASSUME ~store'.failed
        PROVE  /\ store'.lineBalance = balance
               /\ Locked => /\ store'.tranches = TrancheInfos
                            /\ store'.juniorDeposited = JuniorDeposited
    <3>1. (\A i \in 0..n : ~q[i].failed) /\ ~store.failed
      BY <1>2, <1>6, <2>1, <2>5
    <3>2. store.lineBalance = balance \/ Has(F, OfLoan)
      BY <3>1 DEF LineBehind, F
    <3>3. Locked => \/ Refreshed(F)
                    \/ /\ ~Has(F, Counting)
                       /\ store.tranches = TrancheInfos
                       /\ store.juniorDeposited = JuniorDeposited
      BY <3>1 DEF SlicesBehind, F
    <3> QED BY <1>2, <1>5, <2>1, <3>1, <3>2, <3>3, ReadAtTheEnd
  <2>6. LineBehind'
    BY <1>1, <2>5 DEF LineBehind
  <2>7. SlicesBehind'
    <3>1. SlicesKept
      BY <1>1, SameSlicesKept
    <3>2. ~Has(<<>>, Counting)
      BY <1>3 DEF Has
    <3> QED BY <1>3, <2>5, <3>1, <3>2 DEF SlicesBehind, SlicesKept
  <2> QED BY <1>1, <2>1, <2>4, <2>6, <2>7
<1> QED BY <1>7, <1>8

-----------------------------------------------------------------------------
(* Who is no backer any more.                                              *)

Typed(s) ==
    /\ IsStore(s)
    /\ s.users \in [Everyone -> Seq(Nat)]
    /\ \A id \in DOMAIN s.tokens :
          "principalAmount" \in DOMAIN s.tokens[id] /\ s.tokens[id].principalAmount \in Int

NoPrincipal(s, id) == id \in DOMAIN s.tokens => s.tokens[id].principalAmount <= 0

\* The event e leaves a token on its wallet's list, and a token without principal
\* without; and a wallet that stops being a backer has no principal left.
Keeps(s, t, e) ==
    /\ \A user \in Everyone : \A id \in ToSet(s.users[user]) :
          (e.name = "Transfer" => e.id # id) => id \in ToSet(t.users[user])
    /\ \A id : NoPrincipal(s, id) /\ (e.name = "TokenMinted" => e.id # id) => NoPrincipal(t, id)
    /\ \A user \in s.backers \ t.backers :
          user \in Everyone /\ \A id \in ToSet(s.users[user]) : NoPrincipal(t, id)

\* What handleTokenPrincipalWithdrawn may leave.
LEMMA WithdrawalOutcome ==
    ASSUME NEW s, IsStore(s), NEW e, e.name = "TokenPrincipalWithdrawn", ~PassedOver(s, e)
    PROVE  LET t == Handle(s, e)
               w == AfterWithdrawal(s, e)
           IN  /\ t.users = s.users /\ t.tokens \in {s.tokens, w.tokens}
               /\ \/ t.backers = s.backers
                  \/ /\ t.backers = s.backers \ {e.from} /\ t.tokens = w.tokens
                     /\ isUserFullyWithdrawnFromPool(w, e.from)
<1> DEFINE r == Reset(s)
           v == AfterWithdrawal(r, e)
           w == AfterWithdrawal(s, e)
           u == handleTokenPrincipalWithdrawn(r, e)
           t == Handle(s, e)
<1>1. /\ u \in {v, [v EXCEPT !.failed = TRUE], [v EXCEPT !.backers = v.backers \ {e.from}]}
      /\ u \in {v, [v EXCEPT !.failed = TRUE]} \/ isUserFullyWithdrawnFromPool(v, e.from)
  BY DEF handleTokenPrincipalWithdrawn, AfterWithdrawal
<1>2. t = IF u.failed THEN [s EXCEPT !.failed = TRUE] ELSE [u EXCEPT !.failed = s.failed]
  BY DEF Handle, Handler, Reset
<1>3. IsStore(r) /\ SameBut(s, r, {"failed"})
  BY ResetFields
<1> HIDE DEF r
<1>4. SameBut(r, v, {"tokens"}) /\ SameBut(s, w, {"tokens"})
  BY <1>3, AfterWithdrawalFields
<1>5. v.tokens = w.tokens
  BY AfterWithdrawalReset DEF r
<1> HIDE DEF v, w, u, t
<1>6. /\ v.users = s.users /\ w.users = s.users /\ v.backers = s.backers
      /\ DOMAIN v = DOMAIN s /\ {"tokens", "users", "backers", "failed"} \subseteq DOMAIN s
  BY <1>3, <1>4 DEF SameBut, IsStore
<1>7. isUserFullyWithdrawnFromPool(v, e.from) <=> isUserFullyWithdrawnFromPool(w, e.from)
  BY <1>5, <1>6 DEF isUserFullyWithdrawnFromPool, HasPrincipal
<1>8. CASE u.failed
  <2>1. t = [s EXCEPT !.failed = TRUE]
    BY <1>2, <1>8
  <2>2. t.users = s.users /\ t.tokens = s.tokens /\ t.backers = s.backers
    BY <1>6, <2>1
  <2> QED BY <2>2 DEF t, w
<1>9. CASE ~u.failed
  <2>1. /\ u.users = v.users /\ u.tokens = v.tokens /\ DOMAIN u = DOMAIN s
        /\ u.backers \in {v.backers, v.backers \ {e.from}}
        /\ u.backers = v.backers \/ isUserFullyWithdrawnFromPool(v, e.from)
    BY <1>1, <1>6
  <2>2. t = [u EXCEPT !.failed = s.failed]
    BY <1>2, <1>9
  <2>3. t.users = u.users /\ t.tokens = u.tokens /\ t.backers = u.backers
    BY <1>6, <2>1, <2>2
  <2> QED BY <1>5, <1>6, <1>7, <2>1, <2>3 DEF t, w
<1> QED BY <1>8, <1>9

\* Tokens that keep what they have of principal, or were less it.
LEMMA PrincipalKept ==
    ASSUME NEW s, NEW t, Typed(s), IsStore(t), t.users \in [Everyone -> Seq(Nat)],
           DOMAIN t.tokens \subseteq DOMAIN s.tokens,
           \A id \in DOMAIN t.tokens :
              /\ "principalAmount" \in DOMAIN t.tokens[id]
              /\ t.tokens[id].principalAmount \in Int
              /\ t.tokens[id].principalAmount <= s.tokens[id].principalAmount
    PROVE  Typed(t) /\ \A id : NoPrincipal(s, id) => NoPrincipal(t, id)
BY DEF Typed, NoPrincipal

LEMMA WithdrawalKeeps ==
    ASSUME NEW s, Typed(s), NEW e \in EventSet, e.name = "TokenPrincipalWithdrawn",
           ~PassedOver(s, e)
    PROVE  Typed(Handle(s, e)) /\ Keeps(s, Handle(s, e), e)
<1> DEFINE t == Handle(s, e)
           w == AfterWithdrawal(s, e)
<1>1. e.from \in Wallets /\ e.amount \in Nat
  BY DEF EventSet, PlainNames
<1>2. e.id \in DOMAIN s.tokens /\ IsStore(s)
  BY DEF PassedOver, OfToken, Typed
<1>3. /\ t.users = s.users /\ t.tokens \in {s.tokens, w.tokens}
      /\ \/ t.backers = s.backers
         \/ /\ t.backers = s.backers \ {e.from} /\ t.tokens = w.tokens
            /\ isUserFullyWithdrawnFromPool(w, e.from)
  BY <1>2, WithdrawalOutcome
<1>4. IsStore(t)
  BY <1>2, HandleFollows DEF Follows
<1>5. w.tokens = [s.tokens EXCEPT ![e.id].principalAmount = @ - e.amount]
  BY <1>2, AfterWithdrawalFields
<1>6. w.users = s.users
  <2>1. SameBut(s, w, {"tokens"})
    BY <1>2, AfterWithdrawalFields
  <2>2. "users" \in DOMAIN s
    BY <1>2 DEF IsStore
  <2> HIDE DEF w
  <2> QED BY <2>1, <2>2 DEF SameBut
<1> HIDE DEF t, w
<1>7. /\ DOMAIN w.tokens = DOMAIN s.tokens
      /\ \A id \in DOMAIN w.tokens :
            /\ "principalAmount" \in DOMAIN w.tokens[id]
            /\ w.tokens[id].principalAmount \in Int
            /\ w.tokens[id].principalAmount <= s.tokens[id].principalAmount
  BY <1>1, <1>2, <1>5 DEF Typed
<1>8. /\ DOMAIN t.tokens = DOMAIN s.tokens
      /\ \A id \in DOMAIN t.tokens :
            /\ "principalAmount" \in DOMAIN t.tokens[id]
            /\ t.tokens[id].principalAmount \in Int
            /\ t.tokens[id].principalAmount <= s.tokens[id].principalAmount
  BY <1>3, <1>7 DEF Typed
<1>9. Typed(t) /\ \A id : NoPrincipal(s, id) => NoPrincipal(t, id)
  <2>1. t.users \in [Everyone -> Seq(Nat)]
    BY <1>3 DEF Typed
  <2> QED BY <1>4, <1>8, <2>1, PrincipalKept
<1>10. ASSUME NEW user \in s.backers \ t.backers
       PROVE  user \in Everyone /\ \A id \in ToSet(s.users[user]) : NoPrincipal(t, id)
  <2>1. user = e.from /\ t.tokens = w.tokens /\ isUserFullyWithdrawnFromPool(w, user)
    BY <1>3, <1>10
  <2>2. ASSUME NEW id \in ToSet(s.users[user]) PROVE NoPrincipal(t, id)
    <3>1. ~HasPrincipal(w, id)
      BY <1>6, <2>1, <2>2 DEF isUserFullyWithdrawnFromPool, Range, ToSet
    <3> QED BY <1>7, <2>1, <3>1 DEF HasPrincipal, NoPrincipal
  <2> QED BY <1>1, <2>1, <2>2 DEF Everyone
<1>11. Keeps(s, t, e)
  BY <1>3, <1>9, <1>10 DEF Keeps
<1> QED BY <1>9, <1>11 DEF t

\* The other events of tokens, of which none is about a backer.
LEMMA TokenEventKeeps ==
    ASSUME NEW s, Typed(s), NEW e \in EventSet, ~PassedOver(s, e), e.name \in TokenEvents,
           e.name # "TokenPrincipalWithdrawn"
    PROVE  Typed(Handle(s, e)) /\ Keeps(s, Handle(s, e), e)
<1> DEFINE t == Handle(s, e)
           a == AfterTokenEvent(s, e)
<1>1. IsStore(s) /\ s.users \in [Everyone -> Seq(Nat)]
  BY DEF Typed
<1>2. Follows(s, t, e)
  BY <1>1, HandleFollows
<1>3. t.tokens = a.tokens /\ t.users = a.users /\ t.backers = a.backers /\ IsStore(t)
  BY <1>2 DEF Follows, SameTokens, CannotHandle
<1> HIDE DEF t, a
<1>4. e.name \in OfToken => e.id \in DOMAIN s.tokens
  BY DEF PassedOver
<1>5. {"tokens", "users", "backers"} \subseteq DOMAIN s
  BY <1>1 DEF IsStore
<1>6. ASSUME a.backers = s.backers, a.users \in [Everyone -> Seq(Nat)],
             \A user \in Everyone : \A id \in ToSet(s.users[user]) :
                (e.name = "Transfer" => e.id # id) => id \in ToSet(a.users[user]),
             \A id \in DOMAIN a.tokens :
                /\ "principalAmount" \in DOMAIN a.tokens[id]
                /\ a.tokens[id].principalAmount \in Int
                /\ \/ e.name = "TokenMinted" /\ id = e.id
                   \/ /\ id \in DOMAIN s.tokens
                      /\ a.tokens[id].principalAmount = s.tokens[id].principalAmount
      PROVE  Typed(t) /\ Keeps(s, t, e)
  <2>1. Typed(t)
    BY <1>3, <1>6 DEF Typed
  <2>2. \A id : NoPrincipal(s, id) /\ (e.name = "TokenMinted" => e.id # id)
                   => NoPrincipal(t, id)
    BY <1>3, <1>6 DEF NoPrincipal
  <2> QED BY <1>3, <1>6, <2>1, <2>2 DEF Keeps
<1>7. CASE e.name = "Transfer"
  <2>1. e.id \in Nat /\ e.from \in Everyone /\ e.to \in Everyone
    BY <1>7 DEF EventSet, PlainNames
  <2>2. a = handleTransfer(s, e)
    BY <1>7 DEF a, AfterTokenEvent
  <2>3. /\ SameBut(s, a, {"users", "tokens"})
        /\ a.users = [s.users EXCEPT ![e.from] = RemoveFirst(s.users[e.from], e.id),
                                     ![e.to] = Append(s.users[e.to], e.id)]
        /\ a.tokens = [s.tokens EXCEPT ![e.id].user = e.to]
    BY <1>1, <2>2, TransferFields
  <2>4. a.backers = s.backers
    BY <1>5, <2>3 DEF SameBut
  <2>5. \A id \in DOMAIN a.tokens :
           /\ "principalAmount" \in DOMAIN a.tokens[id]
           /\ a.tokens[id].principalAmount \in Int
           /\ id \in DOMAIN s.tokens
           /\ a.tokens[id].principalAmount = s.tokens[id].principalAmount
    BY <2>3 DEF Typed
  <2> DEFINE r == RemoveFirst(s.users[e.from], e.id)
             b == Append(s.users[e.to], e.id)
  <2>6. /\ r \in Seq(Nat)
        /\ \A x \in ToSet(s.users[e.from]) : x # e.id => x \in ToSet(r)
    <3>1. s.users[e.from] \in Seq(Nat)
      BY <1>1, <2>1
    <3> QED BY <3>1, RemoveFirstKeeps
  <2>7. b \in Seq(Nat) /\ \A x \in ToSet(s.users[e.to]) : x \in ToSet(b)
    <3>1. s.users[e.to] \in Seq(Nat)
      BY <1>1, <2>1
    <3> QED BY <2>1, <3>1, AppendKeeps
  <2> HIDE DEF r, b
  <2>8. \A user \in Everyone :
           a.users[user] = IF user = e.to THEN b ELSE IF user = e.from THEN r ELSE s.users[user]
    BY <1>1, <2>1, <2>3 DEF r, b
  <2>9. a.users \in [Everyone -> Seq(Nat)]
    BY <1>1, <2>1, <2>3, <2>6, <2>7 DEF r, b
  <2>10. \A user \in Everyone : \A id \in ToSet(s.users[user]) :
            e.id # id => id \in ToSet(a.users[user])
    BY <2>6, <2>7, <2>8
  <2> QED BY <1>6, <1>7, <2>4, <2>5, <2>9, <2>10 DEF t
<1>8. CASE e.name = "TokenMinted"
  <2>1. e.id \in Nat /\ e.to \in Everyone /\ e.amount \in Nat
    BY <1>8 DEF EventSet, PlainNames, Everyone
  <2>2. a = handleTokenMinted(s, e)
    BY <1>8 DEF a, AfterTokenEvent
  <2>3. /\ SameBut(s, a, {"users", "tokens", "poolTokens"})
        /\ a.users = [s.users EXCEPT ![e.to] = Append(@, e.id)]
        /\ a.tokens = Added(s.tokens, e.id, TokenEntity(e.to, e.amount))
    BY <1>1, <2>2, MintedFields
  <2>4. a.backers = s.backers
    BY <1>5, <2>3 DEF SameBut
  <2>5. \A id \in DOMAIN a.tokens :
           /\ "principalAmount" \in DOMAIN a.tokens[id]
           /\ a.tokens[id].principalAmount \in Int
           /\ \/ id = e.id
              \/ /\ id \in DOMAIN s.tokens
                 /\ a.tokens[id].principalAmount = s.tokens[id].principalAmount
    BY <2>1, <2>3 DEF Typed, Added, TokenEntity
  <2> DEFINE b == Append(s.users[e.to], e.id)
  <2>7. b \in Seq(Nat) /\ \A x \in ToSet(s.users[e.to]) : x \in ToSet(b)
    <3>1. s.users[e.to] \in Seq(Nat)
      BY <1>1, <2>1
    <3> QED BY <2>1, <3>1, AppendKeeps
  <2>8. a.users = [s.users EXCEPT ![e.to] = b]
    BY <2>3 DEF b
  <2> HIDE DEF b
  <2>9. a.users \in [Everyone -> Seq(Nat)]
    BY <1>1, <2>7, <2>8
  <2>10. \A user \in Everyone : \A id \in ToSet(s.users[user]) : id \in ToSet(a.users[user])
    BY <1>1, <2>7, <2>8
  <2> QED BY <1>6, <1>8, <2>4, <2>5, <2>9, <2>10 DEF t
<1>9. CASE e.name = "TokenBurned"
  <2>1. a = handleTokenBurned(s, e)
    BY <1>9 DEF a, AfterTokenEvent
  <2>2. /\ SameBut(s, a, {"tokens"})
        /\ a.tokens = Restrict(s.tokens, DOMAIN s.tokens \ {e.id})
    BY <1>1, <2>1, BurnedFields
  <2>3. a.backers = s.backers /\ a.users = s.users
    BY <1>5, <2>2 DEF SameBut
  <2>4. \A id \in DOMAIN a.tokens :
           /\ "principalAmount" \in DOMAIN a.tokens[id]
           /\ a.tokens[id].principalAmount \in Int
           /\ id \in DOMAIN s.tokens
           /\ a.tokens[id].principalAmount = s.tokens[id].principalAmount
    BY <2>2 DEF Typed, Restrict
  <2> QED BY <1>1, <1>6, <2>3, <2>4 DEF t
<1>10. CASE e.name = "TokenRedeemed"
  <2>1. a = handleTokenRedeemed(s, e)
    BY <1>10 DEF a, AfterTokenEvent
  <2>2. /\ SameBut(s, a, {"tokens"})
        /\ a.tokens = [s.tokens EXCEPT ![e.id].principalRedeemed = @ + e.principal,
                                       ![e.id].interestRedeemed = @ + e.interest]
    BY <1>1, <2>1, RedeemedFields
  <2>3. a.backers = s.backers /\ a.users = s.users
    BY <1>5, <2>2 DEF SameBut
  <2>4. \A id \in DOMAIN a.tokens :
           /\ "principalAmount" \in DOMAIN a.tokens[id]
           /\ a.tokens[id].principalAmount \in Int
           /\ id \in DOMAIN s.tokens
           /\ a.tokens[id].principalAmount = s.tokens[id].principalAmount
    BY <2>2 DEF Typed
  <2> QED BY <1>1, <1>6, <2>3, <2>4 DEF t
<1> QED BY <1>7, <1>8, <1>9, <1>10 DEF TokenEvents, OfToken, t

LEMMA HandleKeeps ==
    ASSUME NEW s, Typed(s), NEW e \in EventSet
    PROVE  Typed(Handle(s, e)) /\ Keeps(s, Handle(s, e), e)
<1> DEFINE t == Handle(s, e)
<1>1. Follows(s, t, e)
  BY HandleFollows DEF Typed
<1>2. CASE PassedOver(s, e)
  <2>1. t = s
    BY <1>1, <1>2 DEF Follows
  <2> HIDE DEF t
  <2>2. Keeps(s, t, e)
    BY <2>1 DEF Keeps
  <2> QED BY <2>1, <2>2 DEF t
<1>3. CASE ~PassedOver(s, e) /\ e.name \notin TokenEvents
  <2> HIDE DEF t
  <2>1. t.tokens = s.tokens /\ t.users = s.users /\ s.backers \subseteq t.backers /\ IsStore(t)
    BY <1>1, <1>3 DEF Follows, SameTokens
  <2>2. Typed(t) /\ Keeps(s, t, e)
    BY <2>1 DEF Typed, Keeps, NoPrincipal
  <2> QED BY <2>2 DEF t
<1>4. CASE ~PassedOver(s, e) /\ e.name \in TokenEvents
  BY <1>4, WithdrawalKeeps, TokenEventKeeps
<1> QED BY <1>2, <1>3, <1>4

\* A wallet that is no backer any more after a sequence of events has no principal left
\* in what it had before them and was not sent or minted in them.
LEMMA NoBackerByEnd ==
    ASSUME NEW q, NEW base, Typed(base), NEW F \in Seq(EventSet), Handled(q, base, F)
    PROVE  /\ Typed(q[Len(F)])
           /\ \A user \in base.backers \ q[Len(F)].backers : \A id \in ToSet(base.users[user]) :
                 \/ \E i \in 1..Len(F) : F[i].name \in {"TokenMinted", "Transfer"} /\ F[i].id = id
                 \/ NoPrincipal(q[Len(F)], id)
<1> DEFINE n == Len(F)
           S == {i \in Nat : Typed(q[i])}
<1>1. n \in Nat /\ q[0] = base /\ \A i \in 1..n : q[i] = Handle(q[i - 1], F[i])
  BY DEF Handled
<1>2. ASSUME NEW i \in Nat, i < n
      PROVE  i + 1 \in 1..n /\ F[i + 1] \in EventSet /\ q[i + 1] = Handle(q[i], F[i + 1])
  <2>1. i + 1 \in 1..n /\ (i + 1) - 1 = i
    BY <1>1, <1>2
  <2> QED BY <1>1, <2>1
<1> HIDE DEF n
<1>3. \A i \in 0..n : Typed(q[i])
  <2>1. \A i \in Nat : 0 <= i /\ i < n /\ i \in S => i + 1 \in S
    BY <1>2, HandleKeeps
  <2>2. 0 \in S
    BY <1>1
  <2>3. \A i \in S : Typed(q[i])
    OBVIOUS
  <2> HIDE DEF S
  <2> QED BY <1>1, <2>1, <2>2, <2>3, RangeInduction
<1>4. ASSUME NEW i \in Nat, i < n PROVE Keeps(q[i], q[i + 1], F[i + 1])
  <2>1. i \in 0..n
    BY <1>1, <1>4
  <2> QED BY <1>2, <1>3, <1>4, <2>1, HandleKeeps
<1>5. ASSUME NEW user \in base.backers \ q[n].backers, NEW id \in ToSet(base.users[user]),
             ~ \E i \in 1..n : F[i].name \in {"TokenMinted", "Transfer"} /\ F[i].id = id
      PROVE  NoPrincipal(q[n], id)
  <2> DEFINE K(s) == \/ NoPrincipal(s, id)
                     \/ user \in s.backers /\ (user \in Everyone => id \in ToSet(s.users[user]))
             T == {i \in Nat : K(q[i])}
  <2>1. ASSUME NEW i \in Nat, i < n, K(q[i]) PROVE K(q[i + 1])
    <3>1. Keeps(q[i], q[i + 1], F[i + 1]) /\ i + 1 \in 1..n
      BY <1>2, <1>4, <2>1
    <3>2. F[i + 1].name \in {"TokenMinted", "Transfer"} => F[i + 1].id # id
      BY <1>5, <3>1
    <3> QED BY <2>1, <3>1, <3>2 DEF Keeps
  <2>2. K(q[0])
    BY <1>1, <1>5
  <2>3. \A i \in T : K(q[i])
    OBVIOUS
  <2>4. \A i \in Nat : 0 <= i /\ i < n /\ i \in T => i + 1 \in T
    <3> HIDE DEF K
    <3> QED BY <2>1
  <2>5. 0 \in T
    BY <2>2
  <2> HIDE DEF T, K
  <2>6. \A i \in 0..n : i \in T
    BY <1>1, <2>4, <2>5, RangeInduction
  <2>7. K(q[n])
    BY <1>1, <2>3, <2>6
  <2> QED BY <1>5, <2>7 DEF K
<1> QED BY <1>1, <1>3, <1>5 DEF n

LEMMA IndexTyped ==
    ASSUME Typed(store), block \in Seq(Seq(EventSet)), IndexBlock
    PROVE  Typed(store')
<1> DEFINE F == Pending
           indexed == FoldLeft(Handle, store, F)
<1>1. store' = IF Stopped(indexed) THEN [store EXCEPT !.failed = TRUE] ELSE indexed
  BY DEF IndexBlock, Pending
<1>2. F \in Seq(EventSet)
  BY FlattenType DEF Pending
<1> HIDE DEF F, indexed
<1>3. PICK q : Handled(q, store, F) /\ q[Len(F)] = indexed
  BY <1>2, FoldIsHandled DEF indexed
<1>4. Typed(indexed)
  BY <1>2, <1>3, NoBackerByEnd
<1>5. Typed([store EXCEPT !.failed = TRUE])
  BY DEF Typed, IsStore
<1> QED BY <1>1, <1>4, <1>5

-----------------------------------------------------------------------------

SubgraphInv ==
    /\ AccountsInv /\ ScheduleInv
    /\ Typed(store) /\ OwnersOk /\ block \in Seq(Seq(EventSet))
    /\ Ahead /\ LineBehind /\ SlicesBehind

LEMMA SubgraphBegins == SubgraphInit => SubgraphInv
<1> SUFFICES ASSUME SubgraphInit PROVE SubgraphInv
  OBVIOUS
<1>1. AccountsInv /\ ScheduleInv
  BY AccountsInit DEF SubgraphInit
<1>2. /\ tokens = << >> /\ balance = 0 /\ owner = << >> /\ block = <<>>
      /\ store = [tokens |-> << >>, users |-> [user \in Wallets \cup {Nobody} |-> <<>>],
                  poolTokens |-> {}, backers |-> {}, tranches |-> TrancheInfos,
                  juniorDeposited |-> 0, lineBalance |-> 0, drawn |-> 0,
                  principalAmountRepaid |-> 0, failed |-> FALSE]
  BY DEF SubgraphInit, PoolInit, Init, TokensInit
<1>3. Typed(store)
  BY <1>2 DEF Typed, IsStore, Everyone
<1>4. DOMAIN << >> = {} /\ OwnersOk /\ block \in Seq(Seq(EventSet))
  BY <1>2 DEF OwnersOk
<1>5. Pending = <<>> /\ Len(<<>>) = 0
  BY <1>2, FlattenEmpty DEF Pending
<1>6. Mirrors(store, tokens, owner)
  <2>1. Wallets \subseteq Everyone
    BY DEF Everyone
  <2>2. /\ DOMAIN tokens = {} /\ DOMAIN owner = {} /\ DOMAIN store.tokens = {}
        /\ DOMAIN store.users = Everyone /\ \A user \in Everyone : store.users[user] = <<>>
    BY <1>2, <1>4 DEF Everyone
  <2>3. ASSUME NEW user \in Wallets PROVE Lists(store.users[user], HeldBy(owner, user))
    <3>1. store.users[user] = <<>> /\ HeldBy(owner, user) = {}
      BY <2>1, <2>2 DEF HeldBy
    <3>2. Lists(<<>>, {})
      BY <1>4 DEF Lists, IsInjective, ToSet
    <3> QED BY <3>1, <3>2
  <2> QED BY <2>2, <2>3 DEF Mirrors
<1>7. AddsUp(store, balance)
  BY <1>2 DEF AddsUp
<1>8. Ahead
  <2> SUFFICES ASSUME NEW p, Chain(p, store, <<>>) PROVE Tells(p[0], tokens, owner, balance)
    BY <1>5 DEF Ahead
  <2>1. p[0] = store
    BY DEF Chain
  <2> QED BY <1>6, <1>7, <2>1 DEF Tells
<1>9. LineBehind
  BY <1>2 DEF LineBehind
<1>10. SlicesBehind
  <2>1. ~Locked
    BY DEF SubgraphInit, PoolInit, Locked, Current, isLocked, NewSlice, NewTranche
  <2> QED BY <2>1 DEF SlicesBehind
<1> QED BY <1>1, <1>3, <1>4, <1>8, <1>9, <1>10 DEF SubgraphInv

LEMMA SubgraphStep ==
    SubgraphInv /\ [SubgraphNext]_<<clVars, poolVars, subgraphVars>> => SubgraphInv'
<1> SUFFICES ASSUME SubgraphInv, [SubgraphNext]_<<clVars, poolVars, subgraphVars>>
             PROVE  SubgraphInv'
  OBVIOUS
<1>1. AccountsInv' /\ ScheduleInv'
  BY PoolPartKeeps DEF SubgraphInv
<1>2. CASE IndexBlock
  <2>1. OwnersOk'
    BY <1>2 DEF SubgraphInv, OwnersOk, IndexBlock, poolVars, tokenVars
  <2>2. IsStore(store) /\ Typed(store')
    BY <1>2, IndexTyped DEF SubgraphInv, Typed
  <2> QED BY <1>1, <1>2, <2>1, <2>2, IndexKeeps DEF SubgraphInv
<1>3. CASE ~IndexBlock
  <2>1. Heard /\ OwnersOk'
    BY <1>3, ChainHeard DEF SubgraphInv
  <2>2. store' = store
    BY <2>1 DEF Heard, Emit, subgraphVars
  <2>3. IsStore(store) /\ Typed(store')
    BY <2>2 DEF SubgraphInv, Typed
  <2> QED BY <1>1, <2>1, <2>2, <2>3, HeardAhead DEF SubgraphInv
<1> QED BY <1>2, <1>3

LEMMA SubgraphInvariant == SubgraphSpec => []SubgraphInv
BY SubgraphBegins, SubgraphStep, PTL DEF SubgraphSpec

LEMMA ToldWhenCaughtUp ==
    ASSUME SubgraphInv, CaughtUp
    PROVE  /\ SelfTransfers \/ Mirrors(store, tokens, owner)
           /\ ~store.failed => AddsUp(store, balance) /\ store.lineBalance = balance
           /\ ~store.failed /\ Locked =>
                 store.tranches = TrancheInfos /\ store.juniorDeposited = JuniorDeposited
<1> DEFINE p == [i \in {0} |-> store]
<1>1. Pending = <<>> /\ Len(<<>>) = 0 /\ ~Stopped(store)
  BY FlattenEmpty DEF CaughtUp, Pending
<1>2. Chain(p, store, <<>>)
  BY <1>1 DEF Chain
<1>3. p[0] = store
  OBVIOUS
<1> HIDE DEF p
<1>4. Tells(store, tokens, owner, balance)
  BY <1>1, <1>2, <1>3 DEF SubgraphInv, Ahead
<1>5. ~store.failed => store.lineBalance = balance
  BY <1>1 DEF SubgraphInv, LineBehind, Has
<1>6. ~store.failed /\ Locked =>
         store.tranches = TrancheInfos /\ store.juniorDeposited = JuniorDeposited
  BY <1>1 DEF SubgraphInv, SlicesBehind, Refreshed
<1> QED BY <1>1, <1>4, <1>5, <1>6 DEF Tells

\* The token entities are the live tokens, and a wallet lists exactly its own, each
\* once, for every order in which deposits, withdrawals, transfers and burns share
\* blocks; unless a token may be sent to who has it (handleTransfer).
THEOREM TokensMirroredCorrect == ~SelfTransfers => (SubgraphSpec => []TokensMirrored)
<1> SUFFICES ASSUME ~SelfTransfers PROVE SubgraphSpec => []TokensMirrored
  OBVIOUS
<1>1. SubgraphInv => TokensMirrored
  <2> SUFFICES ASSUME SubgraphInv, CaughtUp, Mirrors(store, tokens, owner)
               PROVE  TokensMirrored
    BY ToldWhenCaughtUp DEF TokensMirrored
  <2> QED BY DEF TokensMirrored, Mirrors, Entity, Lists, HeldBy
<1> QED BY <1>1, SubgraphInvariant, PTL

\* What the drawdowns add up to, less what is said to have been repaid, is the balance
\* of the credit line, and so is the balance that handlers have read.
THEOREM LoanAddsUpCorrect == SubgraphSpec => []LoanAddsUp
<1>1. SubgraphInv => LoanAddsUp
  BY ToldWhenCaughtUp DEF LoanAddsUp, AddsUp
<1> QED BY <1>1, SubgraphInvariant, PTL

\* Whatever deposits were counted twice before, the tranches of a pool whose current
\* slice is locked are those of the contract: locking calls a handler that reads them.
THEOREM LockedPoolMirroredCorrect == SubgraphSpec => []LockedPoolMirrored
<1>1. SubgraphInv => LockedPoolMirrored
  BY ToldWhenCaughtUp DEF LockedPoolMirrored
<1> QED BY <1>1, SubgraphInvariant, PTL

LEMMA LeavingBackers ==
    ASSUME SubgraphInv, ~SelfTransfers, IndexBlock,
           NEW user \in store.backers \ store'.backers, NEW id \in ToSet(store.users[user]) \ Moved,
           id \in DOMAIN tokens
    PROVE  tokens[id].principalAmount = 0
<1> DEFINE F == Pending
           n == Len(F)
           indexed == FoldLeft(Handle, store, F)
<1>1. store' = IF Stopped(indexed) THEN [store EXCEPT !.failed = TRUE] ELSE indexed
  BY DEF IndexBlock, Pending
<1>2. F \in Seq(EventSet) /\ n \in Nat
  BY FlattenType DEF Pending, SubgraphInv
<1> HIDE DEF indexed
<1>3. Typed(store) /\ IsStore(store)
  BY DEF SubgraphInv, Typed
<1>4. ~Stopped(indexed) /\ store' = indexed
  <2>1. [store EXCEPT !.failed = TRUE].backers = store.backers
    BY <1>3 DEF IsStore
  <2> QED BY <1>1, <2>1
<1>5. PICK q : Handled(q, store, F) /\ q[n] = indexed
  <2> HIDE DEF F
  <2> QED BY <1>2, FoldIsHandled DEF indexed
<1>6. Mirrors(q[n], tokens, owner)
  <2> HIDE DEF F
  <2>1. Chain(q, store, F)
    BY <1>2, <1>3, <1>5, HandledIsChain
  <2>2. store.failed => indexed.failed
    <3>1. q[0] = store /\ 0 \in 0..n
      BY <1>2, <2>1 DEF Chain
    <3> QED BY <1>2, <1>5, <2>1, <3>1, FailedStays
  <2>3. ~Stopped(store)
    BY <1>4, <2>2 DEF Stopped
  <2>4. Tells(q[n], tokens, owner, balance)
    BY <2>1, <2>3 DEF SubgraphInv, Ahead, F
  <2> QED BY <1>4, <1>5, <2>4 DEF Tells
<1>7. ~ \E i \in 1..n : F[i].name \in {"TokenMinted", "Transfer"} /\ F[i].id = id
  BY <1>2 DEF Moved, Pending, ToSet
<1> HIDE DEF F
<1>8. NoPrincipal(q[n], id)
  BY <1>2, <1>3, <1>4, <1>5, <1>7, NoBackerByEnd
<1>9. tokens[id].principalAmount <= 0
  <2>1. id \in DOMAIN q[n].tokens /\ q[n].tokens[id] = Entity(owner, tokens, id)
    BY <1>6 DEF Mirrors
  <2>2. q[n].tokens[id].principalAmount <= 0
    BY <1>8, <2>1 DEF NoPrincipal
  <2> QED BY <2>1, <2>2 DEF Entity
<1>10. tokens[id].principalAmount \in Nat
  BY DEF SubgraphInv, AccountsInv, PoolInv, PoolTypeOK, TokensOk, TokenType
<1> QED BY <1>9, <1>10

\* Who stops being a backer has no principal left in a token that it had and that was
\* not sent in the block, though isUserFullyWithdrawnFromPool is asked of the entities
\* as they are between two events of a block.
THEOREM BackersWithdrawnCorrect == ~SelfTransfers => (SubgraphSpec => BackersWithdrawn)
<1> SUFFICES ASSUME ~SelfTransfers PROVE SubgraphSpec => BackersWithdrawn
  OBVIOUS
<1> DEFINE A == \A user \in store.backers \ store'.backers :
                   \A id \in ToSet(store.users[user]) \ Moved :
                      id \in DOMAIN tokens => tokens[id].principalAmount = 0
<1>1. ASSUME SubgraphInv, [SubgraphNext]_<<clVars, poolVars, subgraphVars>>
      PROVE  [A]_<<clVars, poolVars, subgraphVars>>
  <2>1. CASE IndexBlock
    BY <1>1, <2>1, LeavingBackers
  <2>2. CASE ~IndexBlock
    <3>1. Heard
      BY <1>1, <2>2, ChainHeard DEF SubgraphInv
    <3>2. store' = store
      BY <3>1 DEF Heard, Emit, subgraphVars
    <3> QED BY <3>2
  <2> QED BY <2>1, <2>2
<1> HIDE DEF A
<1>2. SubgraphSpec => [][A]_<<clVars, poolVars, subgraphVars>>
  BY <1>1, SubgraphInvariant, PTL DEF SubgraphSpec
<1>3. SubgraphSpec => BackersWithdrawn
  BY <1>2 DEF A, BackersWithdrawn
<1> QED BY <1>3
=============================================================================
