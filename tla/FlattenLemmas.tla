--------------------------- MODULE FlattenLemmas ---------------------------
(***************************************************************************)
(* What FlattenSeq makes of the first elements of a sequence of sequences: *)
(* every further one adds itself at the end.                               *)
(***************************************************************************)
EXTENDS SequencesExt, WellFoundedInduction, TLAPS

\* The elements up to the k-th, one after the other.
Joined(s, k) == FlattenSeq(SubSeq(s, 1, k))

\* f goes through the first n elements as FlattenSeq does.
Flattens(f, s, n) ==
    \A i \in 1..n : f[i] = IF i = 1 THEN s[i] ELSE f[i - 1] \o s[i]

\* A set of numbers has a least one.
LEMMA Least ==
    ASSUME NEW S \in SUBSET Nat, S # {}
    PROVE  \E x \in S : \A y \in S : x <= y
<1> DEFINE Less == OpToRel(<, Nat)
<1>1. IsWellFoundedOn(Less, Nat)
  BY NatLessThanWellFounded
<1>2. PICK x \in S : \A y \in S : ~(<<y, x>> \in Less)
  <2> HIDE DEF Less
  <2> QED
    BY <1>1, WFMin
<1>3. \A y \in S : ~(y < x)
  BY <1>2 DEF OpToRel
<1> QED
  BY <1>3

\* FlattenSeq comes to an end for every sequence.
LEMMA FlattensExists ==
    ASSUME NEW s, NEW n \in Nat
    PROVE  \E f : f = [i \in 1..n |-> IF i = 1 THEN s[i] ELSE f[i - 1] \o s[i]]
<1> DEFINE is(f, m) == f = [i \in 1..m |-> IF i = 1 THEN s[i] ELSE f[i - 1] \o s[i]]
           fails == {m \in Nat : ~ \E f : is(f, m)}
<1>1. SUFFICES ASSUME fails # {} PROVE FALSE
  OBVIOUS
<1>2. PICK m \in fails : \A k \in fails : m <= k
  <2>1. fails \in SUBSET Nat
    OBVIOUS
  <2> HIDE DEF fails
  <2> QED
    BY <1>1, <2>1, Least
<1>3. CASE m = 0
  <2>1. is(<<>>, 0)
    OBVIOUS
  <2> HIDE DEF is
  <2> QED
    BY <1>2, <1>3, <2>1
<1>4. CASE m # 0
  <2>1. m \in Nat /\ m - 1 \in Nat /\ ~(m <= m - 1)
    BY <1>2, <1>4
  <2>2. PICK f : is(f, m - 1)
    <3> HIDE DEF is
    <3> QED
      BY <1>2, <2>1
  <2> DEFINE h == [i \in 1..(m - 1) |-> IF i = 1 THEN s[i] ELSE f[i - 1] \o s[i]]
             g == [i \in 1..m |-> IF i = 1 THEN s[i] ELSE f[i - 1] \o s[i]]
  <2>3. \A i \in 1..(m - 1) : i \in 1..m
    BY <2>1
  <2>4. f = h
    BY <2>2
  <2>5. \A i \in 1..(m - 1) : g[i] = h[i]
    BY <2>3
  <2>6. \A i \in 1..m : i # 1 => i - 1 \in 1..(m - 1)
    BY <2>1
  <2>7. \A i \in 1..m : i # 1 => g[i - 1] = f[i - 1]
    <3> HIDE DEF g, h, is
    <3> QED
      BY <2>4, <2>5, <2>6
  <2>8. g = [i \in 1..m |-> IF i = 1 THEN s[i] ELSE g[i - 1] \o s[i]]
    <3> DEFINE t == [i \in 1..m |-> IF i = 1 THEN s[i] ELSE g[i - 1] \o s[i]]
    <3>1. \A i \in 1..m : g[i] = IF i = 1 THEN s[i] ELSE f[i - 1] \o s[i]
      OBVIOUS
    <3>2. \A i \in 1..m : t[i] = IF i = 1 THEN s[i] ELSE g[i - 1] \o s[i]
      OBVIOUS
    <3>3. g = [i \in 1..m |-> g[i]] /\ t = [i \in 1..m |-> t[i]]
      OBVIOUS
    <3> HIDE DEF g, t, h, is
    <3>4. \A i \in 1..m : g[i] = t[i]
      BY <2>7, <3>1, <3>2, Zenon
    <3>5. g = t
      BY <3>3, <3>4
    <3> QED
      BY <3>5 DEF t
  <2> HIDE DEF g
  <2>9. is(g, m)
    BY <2>8
  <2> HIDE DEF is
  <2> QED
    BY <1>2, <2>9
<1> QED
  BY <1>3, <1>4

\* Each of its steps adds one element.
LEMMA FlattensAt ==
    ASSUME NEW s, NEW n, NEW f,
           f = [i \in 1..n |-> IF i = 1 THEN s[i] ELSE f[i - 1] \o s[i]]
    PROVE  Flattens(f, s, n)
<1> DEFINE g == [i \in 1..n |-> IF i = 1 THEN s[i] ELSE f[i - 1] \o s[i]]
<1>1. \A i \in 1..n : g[i] = IF i = 1 THEN s[i] ELSE f[i - 1] \o s[i]
  OBVIOUS
<1>2. f = g
  OBVIOUS
<1> HIDE DEF g
<1> QED
  BY <1>1, <1>2 DEF Flattens

\* It comes to the same for sequences that begin in the same way.
LEMMA FlattensAgree ==
    ASSUME NEW S, NEW s \in Seq(Seq(S)), NEW t \in Seq(Seq(S)),
           NEW m \in 0..Len(s), NEW n \in 0..Len(t), m <= n,
           \A i \in 1..m : s[i] = t[i],
           NEW f, Flattens(f, s, m), NEW g, Flattens(g, t, n)
    PROVE  \A i \in 1..m : f[i] = g[i] /\ f[i] \in Seq(S)
<1> DEFINE fails == {i \in 1..m : ~(f[i] = g[i] /\ f[i] \in Seq(S))}
<1>1. SUFFICES ASSUME fails # {} PROVE FALSE
  OBVIOUS
<1>2. fails \in SUBSET Nat
  OBVIOUS
<1>3. PICK i \in fails : \A j \in fails : i <= j
  BY <1>1, <1>2, Least
<1>4. /\ i \in 1..m /\ i \in 1..n /\ i \in Nat
      /\ s[i] = t[i] /\ s[i] \in Seq(S)
  BY <1>3
<1>5. /\ f[i] = IF i = 1 THEN s[i] ELSE f[i - 1] \o s[i]
      /\ g[i] = IF i = 1 THEN t[i] ELSE g[i - 1] \o t[i]
  BY <1>4, Zenon DEF Flattens
<1>6. CASE i = 1
  BY <1>3, <1>4, <1>5, <1>6
<1>7. CASE i # 1
  <2>1. i - 1 \in 1..m /\ ~(i <= i - 1)
    BY <1>4, <1>7
  <2>2. f[i - 1] = g[i - 1] /\ f[i - 1] \in Seq(S)
    BY <1>3, <2>1
  <2>3. f[i - 1] \o s[i] \in Seq(S)
    BY <1>4, <2>2
  <2> QED
    BY <1>3, <1>4, <1>5, <1>7, <2>2, <2>3
<1> QED
  BY <1>6, <1>7

\* What FlattenSeq returns.
LEMMA FlattenIs ==
    ASSUME NEW S, NEW s \in Seq(Seq(S))
    PROVE  /\ s = <<>> => FlattenSeq(s) = <<>>
           /\ s # <<>> => \E f : Flattens(f, s, Len(s)) /\ FlattenSeq(s) = f[Len(s)]
<1>1. s = <<>> => FlattenSeq(s) = <<>>
  BY DEF FlattenSeq
<1>2. ASSUME s # <<>>
      PROVE  \E f : Flattens(f, s, Len(s)) /\ FlattenSeq(s) = f[Len(s)]
  <2> DEFINE f == CHOOSE f : f = [i \in 1..Len(s) |->
                                    IF i = 1 THEN s[i] ELSE f[i - 1] \o s[i]]
  <2>1. Len(s) \in Nat /\ Len(s) # 0
    BY <1>2
  <2>2. \E g : g = [i \in 1..Len(s) |-> IF i = 1 THEN s[i] ELSE g[i - 1] \o s[i]]
    BY <2>1, FlattensExists
  <2>3. f = [i \in 1..Len(s) |-> IF i = 1 THEN s[i] ELSE f[i - 1] \o s[i]]
    BY <2>2
  <2>4. FlattenSeq(s) = f[Len(s)]
    BY <2>1 DEF FlattenSeq
  <2> HIDE DEF f
  <2>5. Flattens(f, s, Len(s))
    BY <2>3, FlattensAt
  <2> QED
    BY <2>4, <2>5
<1> QED
  BY <1>1, <1>2

\* Nothing is joined at first, each element is put behind what is joined by
\* then, and all of them are what FlattenSeq makes of the sequence.
LEMMA JoinedFacts ==
    ASSUME NEW S, NEW s \in Seq(Seq(S))
    PROVE  /\ Joined(s, 0) = <<>>
           /\ Joined(s, Len(s)) = FlattenSeq(s)
           /\ \A k \in 0..Len(s) : Joined(s, k) \in Seq(S)
           /\ \A k \in 0..(Len(s) - 1) : Joined(s, k + 1) = Joined(s, k) \o s[k + 1]
<1>1. Joined(s, 0) = <<>>
  <2>1. SubSeq(s, 1, 0) = <<>> /\ <<>> \in Seq(Seq(S))
    OBVIOUS
  <2> QED
    BY <2>1, FlattenIs DEF Joined
<1>2. Joined(s, Len(s)) = FlattenSeq(s)
  <2>1. SubSeq(s, 1, Len(s)) = s
    OBVIOUS
  <2> QED
    BY <2>1 DEF Joined
<1>3. PICK f : Flattens(f, s, Len(s))
  <2>1. Len(s) \in Nat
    OBVIOUS
  <2>2. PICK f : f = [i \in 1..Len(s) |-> IF i = 1 THEN s[i] ELSE f[i - 1] \o s[i]]
    BY <2>1, FlattensExists
  <2> QED
    BY <2>2, FlattensAt
<1>4. ASSUME NEW k \in 1..Len(s) PROVE Joined(s, k) = f[k] /\ f[k] \in Seq(S)
  <2> DEFINE t == SubSeq(s, 1, k)
  <2>1. /\ t \in Seq(Seq(S)) /\ Len(t) = k /\ t # <<>>
        /\ \A i \in 1..k : t[i] = s[i]
    OBVIOUS
  <2>2. PICK g : Flattens(g, t, k) /\ FlattenSeq(t) = g[k]
    <3> HIDE DEF t
    <3> QED
      BY <2>1, FlattenIs
  <2>3. k \in 0..Len(t) /\ Len(s) \in 0..Len(s) /\ k <= Len(s) /\ k \in 1..k
    BY <2>1
  <2>4. g[k] = f[k] /\ g[k] \in Seq(S)
    <3> HIDE DEF t
    <3>1. \A i \in 1..k : g[i] = f[i] /\ g[i] \in Seq(S)
      BY <1>3, <2>1, <2>2, <2>3, FlattensAgree
    <3> QED
      BY <2>3, <3>1
  <2> QED
    BY <2>2, <2>4 DEF Joined
<1>5. \A k \in 0..Len(s) : Joined(s, k) \in Seq(S)
  <2> TAKE k \in 0..Len(s)
  <2>1. CASE k = 0
    <3>1. <<>> \in Seq(S)
      OBVIOUS
    <3> QED
      BY <1>1, <2>1, <3>1
  <2>2. CASE k # 0
    <3>1. k \in 1..Len(s)
      BY <2>2
    <3> QED
      BY <1>4, <3>1
  <2> QED
    BY <2>1, <2>2
<1>6. ASSUME NEW k \in 0..(Len(s) - 1) PROVE Joined(s, k + 1) = Joined(s, k) \o s[k + 1]
  <2>1. k + 1 \in 1..Len(s) /\ s[k + 1] \in Seq(S)
    OBVIOUS
  <2>2. Joined(s, k + 1) = IF k + 1 = 1 THEN s[k + 1] ELSE f[(k + 1) - 1] \o s[k + 1]
    <3>1. f[k + 1] = IF k + 1 = 1 THEN s[k + 1] ELSE f[(k + 1) - 1] \o s[k + 1]
      BY <1>3, <2>1, Zenon DEF Flattens
    <3>2. Joined(s, k + 1) = f[k + 1]
      BY <1>4, <2>1
    <3> QED
      BY <3>1, <3>2, Zenon
  <2>3. CASE k = 0
    <3>1. Joined(s, k) = <<>> /\ Joined(s, k + 1) = s[k + 1]
      BY <1>1, <2>2, <2>3
    <3> QED
      BY <2>1, <3>1
  <2>4. CASE k # 0
    <3>1. k \in 1..Len(s) /\ (k + 1) - 1 = k /\ k + 1 # 1
      BY <2>4
    <3>2. Joined(s, k) = f[k]
      BY <1>4, <3>1
    <3> QED
      BY <2>2, <3>1, <3>2
  <2> QED
    BY <2>3, <2>4
<1> QED
  BY <1>1, <1>2, <1>5, <1>6

\* The length of a sequence and what follows it, and three in a row.
LEMMA Lengths ==
    ASSUME NEW S, NEW s \in Seq(S), NEW t \in Seq(S)
    PROVE  s \o t \in Seq(S) /\ Len(s \o t) = Len(s) + Len(t)
OBVIOUS

LEMMA Grouping ==
    ASSUME NEW S, NEW s \in Seq(S), NEW t \in Seq(S), NEW u \in Seq(S)
    PROVE  (s \o t) \o u = s \o (t \o u)
OBVIOUS

\* Sequences that go on from the same beginning to the same end go on alike.
LEMMA Cancel ==
    ASSUME NEW S, NEW s \in Seq(S), NEW t \in Seq(S), NEW u \in Seq(S), s \o t = s \o u
    PROVE  t = u
<1>1. Len(s) \in Nat /\ Len(t) \in Nat /\ Len(u) \in Nat
  OBVIOUS
<1>2. Len(s \o t) = Len(s) + Len(t) /\ Len(s \o u) = Len(s) + Len(u)
  OBVIOUS
<1>3. Len(t) = Len(u)
  BY <1>1, <1>2
<1>4. \A i \in 1..Len(t) : t[i] = (s \o t)[Len(s) + i] /\ u[i] = (s \o u)[Len(s) + i]
  BY <1>1, <1>3
<1> QED
  BY <1>3, <1>4, SMTT(40)

\* What is joined by the k-th element is the beginning of all that is.
LEMMA JoinedRest ==
    ASSUME NEW S, NEW s \in Seq(Seq(S)), NEW k \in 0..Len(s)
    PROVE  \E rest \in Seq(S) : FlattenSeq(s) = Joined(s, k) \o rest
<1> DEFINE has(i) == \E rest \in Seq(S) : FlattenSeq(s) = Joined(s, i) \o rest
           fails == {j \in 0..Len(s) : ~has(Len(s) - j)}
<1>1. SUFFICES ASSUME fails # {} PROVE FALSE
  <2>1. Len(s) - k \in 0..Len(s) /\ Len(s) - (Len(s) - k) = k
    OBVIOUS
  <2>2. ASSUME fails = {} PROVE has(k)
    <3>1. has(Len(s) - (Len(s) - k))
      <4> HIDE DEF has
      <4> QED
        BY <2>1, <2>2
    <3> HIDE DEF has
    <3> QED
      BY <2>1, <3>1
  <2> QED
    BY <2>2
<1>2. PICK j \in fails : \A i \in fails : j <= i
  <2>1. fails \in SUBSET Nat
    OBVIOUS
  <2> HIDE DEF fails
  <2> QED
    BY <1>1, <2>1, Least
<1>3. CASE j = 0
  <2>1. Len(s) - j = Len(s) /\ Len(s) \in 0..Len(s) /\ <<>> \in Seq(S)
    BY <1>3
  <2>2. Joined(s, Len(s)) \in Seq(S) /\ FlattenSeq(s) = Joined(s, Len(s))
    BY <2>1, JoinedFacts
  <2>3. FlattenSeq(s) = Joined(s, Len(s)) \o <<>>
    BY <2>2
  <2>4. has(Len(s))
    BY <2>1, <2>3
  <2> HIDE DEF has
  <2> QED
    BY <1>2, <2>1, <2>4
<1>4. CASE j # 0
  <2> DEFINE i == Len(s) - j
  <2>1. /\ j \in 0..Len(s) /\ j - 1 \in 0..Len(s) /\ ~(j <= j - 1)
        /\ i \in 0..(Len(s) - 1) /\ i \in 0..Len(s) /\ i + 1 \in 1..Len(s)
        /\ Len(s) - (j - 1) = i + 1
    BY <1>2, <1>4
  <2>2. has(i + 1)
    <3>1. j - 1 \notin fails
      BY <1>2, <2>1
    <3>2. has(Len(s) - (j - 1))
      <4> HIDE DEF has
      <4> QED
        BY <2>1, <3>1
    <3> HIDE DEF has, i
    <3> QED
      BY <2>1, <3>2
  <2>3. PICK rest \in Seq(S) : FlattenSeq(s) = Joined(s, i + 1) \o rest
    BY <2>2
  <2> HIDE DEF i
  <2> DEFINE before == Joined(s, i)
             x == s[i + 1]
  <2>4. x \in Seq(S)
    BY <2>1
  <2>5. before \in Seq(S)
    BY <2>1, JoinedFacts
  <2>6. FlattenSeq(s) = (before \o x) \o rest
    <3>1. Joined(s, i + 1) = before \o x
      BY <2>1, JoinedFacts
    <3> QED
      BY <2>3, <3>1
  <2>7. x \o rest \in Seq(S) /\ FlattenSeq(s) = before \o (x \o rest)
    <3> HIDE DEF before, x
    <3>1. (before \o x) \o rest = before \o (x \o rest)
      BY <2>4, <2>5, Grouping
    <3>2. x \o rest \in Seq(S)
      BY <2>4, Lengths
    <3> QED
      BY <2>6, <3>1, <3>2
  <2>8. has(i)
    BY <2>7
  <2> HIDE DEF has
  <2> QED
    BY <1>2, <2>8 DEF i
<1> QED
  BY <1>3, <1>4

============================================================================
