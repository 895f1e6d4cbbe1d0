----------------------------- MODULE Recursion -----------------------------
(***************************************************************************)
(* A function on the natural numbers that is defined by its value at 0 and *)
(* by what a step makes of it: there is one, whatever the step.  The       *)
(* module stands on its own, for it is instantiated once a recursion: that *)
(* a set of numbers has a least one is FlattenLemmas' to show.             *)
(***************************************************************************)
EXTENDS Integers

CONSTANTS Zero, Step(_)

HaveLeast == \A S \in SUBSET Nat : S # {} => \E x \in S : \A y \in S : x <= y

\* The function as far as n.
UpTo(f, n) == f = [i \in 0..n |-> IF i = 0 THEN Zero ELSE Step(f[i - 1])]

LEMMA UpToAt ==
    ASSUME NEW n \in Nat, NEW f, UpTo(f, n)
    PROVE  \A i \in 0..n : f[i] = IF i = 0 THEN Zero ELSE Step(f[i - 1])
<1> DEFINE g == [i \in 0..n |-> IF i = 0 THEN Zero ELSE Step(f[i - 1])]
<1>1. \A i \in 0..n : g[i] = IF i = 0 THEN Zero ELSE Step(f[i - 1])
  OBVIOUS
<1>2. f = g
  BY DEF UpTo
<1> HIDE DEF g
<1> QED
  BY <1>1, <1>2

\* As far as any number there is one.
LEMMA UpToExists ==
    ASSUME HaveLeast
    PROVE  \A n \in Nat : \E f : UpTo(f, n)
<1> DEFINE fails == {n \in Nat : ~ \E f : UpTo(f, n)}
<1>1. SUFFICES ASSUME fails # {} PROVE FALSE
  OBVIOUS
<1>2. PICK m \in fails : \A k \in fails : m <= k
  <2>1. fails \in SUBSET Nat
    OBVIOUS
  <2> HIDE DEF fails
  <2> QED
    BY <1>1, <2>1 DEF HaveLeast
<1>3. CASE m = 0
  <2> DEFINE f == [i \in 0..0 |-> Zero]
  <2>1. f = [i \in 0..0 |-> IF i = 0 THEN Zero ELSE Step(f[i - 1])]
    <3>1. \A i \in 0..0 : i = 0
      OBVIOUS
    <3> QED
      BY <3>1
  <2>2. UpTo(f, 0)
    BY <2>1 DEF UpTo
  <2> HIDE DEF f
  <2> QED
    BY <1>2, <1>3, <2>2
<1>4. CASE m # 0
  <2>1. m \in Nat /\ m - 1 \in Nat /\ ~(m <= m - 1)
    BY <1>2, <1>4
  <2>2. PICK f : UpTo(f, m - 1)
    BY <1>2, <2>1
  <2> DEFINE g == [i \in 0..m |-> IF i = m THEN Step(f[m - 1]) ELSE f[i]]
  <2>3. \A i \in 0..(m - 1) : g[i] = f[i]
    BY <2>1
  <2>4. \A i \in 0..m : g[i] = IF i = 0 THEN Zero ELSE Step(g[i - 1])
    <3> TAKE i \in 0..m
    <3>1. g[i] = IF i = m THEN Step(f[m - 1]) ELSE f[i]
      OBVIOUS
    <3> HIDE DEF g
    <3>2. CASE i = m
      <4>1. m - 1 \in 0..(m - 1) /\ i # 0
        BY <2>1, <3>2
      <4> QED
        BY <2>3, <3>1, <3>2, <4>1
    <3>3. CASE i # m
      <4>1. i \in 0..(m - 1)
        BY <2>1, <3>3
      <4>2. f[i] = IF i = 0 THEN Zero ELSE Step(f[i - 1])
        BY <2>1, <2>2, <4>1, UpToAt
      <4>3. i # 0 => i - 1 \in 0..(m - 1)
        BY <2>1, <4>1
      <4> QED
        BY <2>3, <3>1, <3>3, <4>2, <4>3
    <3> QED
      BY <3>2, <3>3
  <2>5. g = [i \in 0..m |-> IF i = 0 THEN Zero ELSE Step(g[i - 1])]
    <3>1. g = [i \in 0..m |-> g[i]]
      OBVIOUS
    <3> HIDE DEF g
    <3> QED
      BY <2>4, <3>1
  <2>6. UpTo(g, m)
    <3> HIDE DEF g
    <3> QED
      BY <2>5 DEF UpTo
  <2> HIDE DEF g
  <2> QED
    BY <1>2, <2>6
<1> QED
  BY <1>3, <1>4

\* Where two of them are defined they agree.
LEMMA UpToAgree ==
    ASSUME NEW m \in Nat, NEW n \in Nat, NEW f, UpTo(f, m), NEW g, UpTo(g, n),
           HaveLeast
    PROVE  \A i \in Nat : i <= m /\ i <= n => f[i] = g[i]
<1> DEFINE fails == {i \in Nat : i <= m /\ i <= n /\ f[i] # g[i]}
<1>1. SUFFICES ASSUME fails # {} PROVE FALSE
  OBVIOUS
<1>2. PICK k \in fails : \A i \in fails : k <= i
  <2>1. fails \in SUBSET Nat
    OBVIOUS
  <2> HIDE DEF fails
  <2> QED
    BY <1>1, <2>1 DEF HaveLeast
<1>3. k \in Nat /\ k <= m /\ k <= n /\ f[k] # g[k]
  BY <1>2
<1>4. k \in 0..m /\ k \in 0..n
  BY <1>3
<1>5. f[k] = IF k = 0 THEN Zero ELSE Step(f[k - 1])
  BY <1>4, UpToAt
<1>6. g[k] = IF k = 0 THEN Zero ELSE Step(g[k - 1])
  BY <1>4, UpToAt
<1>7. k # 0
  BY <1>3, <1>5, <1>6
<1>8. k - 1 \in Nat /\ k - 1 <= m /\ k - 1 <= n /\ ~(k <= k - 1)
  BY <1>3, <1>7
<1>9. f[k - 1] = g[k - 1]
  BY <1>2, <1>8
<1> QED
  BY <1>3, <1>5, <1>6, <1>7, <1>9

\* And there is one for all numbers.
LEMMA Exists ==
    ASSUME HaveLeast
    PROVE  \E f : f = [n \in Nat |-> IF n = 0 THEN Zero ELSE Step(f[n - 1])]
<1> DEFINE part(n) == CHOOSE f : UpTo(f, n)
           all == [n \in Nat |-> part(n)[n]]
<1>1. \A n \in Nat : UpTo(part(n), n)
  BY UpToExists
<1> HIDE DEF part
<1>2. \A n \in Nat : all[n] = part(n)[n]
  OBVIOUS
<1>3. all = [n \in Nat |-> all[n]]
  OBVIOUS
<1> HIDE DEF all
<1>4. ASSUME NEW n \in Nat
      PROVE  all[n] = IF n = 0 THEN Zero ELSE Step(all[n - 1])
  <2>1. part(n)[n] = IF n = 0 THEN Zero ELSE Step(part(n)[n - 1])
    BY <1>1, UpToAt
  <2>2. CASE n # 0
    <3>1. n - 1 \in Nat /\ n - 1 <= n /\ n - 1 <= n - 1
      BY <2>2
    <3>2. part(n)[n - 1] = part(n - 1)[n - 1]
      BY <1>1, <3>1, UpToAgree
    <3> QED
      BY <1>2, <2>1, <2>2, <3>1, <3>2
  <2> QED
    BY <1>2, <2>1, <2>2
<1>5. all = [n \in Nat |-> IF n = 0 THEN Zero ELSE Step(all[n - 1])]
  BY <1>3, <1>4
<1> QED
  BY <1>5

\* A recursive definition defines what its equation says.
THEOREM Unfolds ==
    ASSUME HaveLeast, NEW f, f = CHOOSE g : g = [n \in Nat |-> IF n = 0 THEN Zero ELSE Step(g[n - 1])]
    PROVE  f[0] = Zero /\ \A n \in Nat : f[n + 1] = Step(f[n])
<1>1. f = [n \in Nat |-> IF n = 0 THEN Zero ELSE Step(f[n - 1])]
  BY Exists
<1> DEFINE h == [n \in Nat |-> IF n = 0 THEN Zero ELSE Step(f[n - 1])]
<1>2. \A n \in Nat : h[n] = IF n = 0 THEN Zero ELSE Step(f[n - 1])
  OBVIOUS
<1>3. f = h
  BY <1>1
<1> HIDE DEF h
<1>4. \A n \in Nat : f[n] = IF n = 0 THEN Zero ELSE Step(f[n - 1])
  BY <1>2, <1>3
<1>5. \A n \in Nat : n + 1 \in Nat /\ n + 1 # 0 /\ (n + 1) - 1 = n
  OBVIOUS
<1> QED
  BY <1>4, <1>5
=============================================================================
