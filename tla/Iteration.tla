----------------------------- MODULE Iteration -----------------------------
(***************************************************************************)
(* What a function that is defined by recursion on 0 .. n computes: a loop  *)
(* that starts from First(x) and takes one Step(x, value, k) for each k.    *)
(* Then the same for a fold over a finite set, in an order that Pick tells. *)
(* The module is instantiated once for each loop and fold of the model.     *)
(***************************************************************************)
EXTENDS Lemmas

CONSTANTS First(_), Step(_, _, _), Pick(_)

iterate(x, n) ==
  LET after[k \in 0 .. n] == IF k = 0 THEN First(x) ELSE Step(x, after[k - 1], k)
  IN  after[n]

\* f satisfies the recursive equation.
Is(f, x, n) == f = [k \in 0 .. n |-> IF k = 0 THEN First(x) ELSE Step(x, f[k - 1], k)]

\* There is a function that satisfies it, by induction on n.
LEMMA Exists ==
  ASSUME NEW x
  PROVE  \A n \in Nat : \E f : Is(f, x, n)
<1> DEFINE S == {n \in Nat : \E f : Is(f, x, n)}
<1>1. 0 \in S
  <2> PICK f : f = [k \in {0} |-> First(x)]
    OBVIOUS
  <2>1. 0..0 = {0}
    OBVIOUS
  <2>2. Is(f, x, 0)
    BY <2>1 DEF Is
  <2> QED BY <2>2
<1>2. ASSUME NEW n \in S PROVE n + 1 \in S
  <2>1. PICK f : Is(f, x, n)
    OBVIOUS
  <2> PICK g : g = [k \in 0 .. n + 1 |-> IF k = n + 1 THEN Step(x, f[n], n + 1) ELSE f[k]]
    OBVIOUS
  <2>2. \A k \in 0 .. n : g[k] = f[k]
    OBVIOUS
  <2>3. \A k \in 0 .. n + 1 : g[k] = IF k = 0 THEN First(x) ELSE Step(x, g[k - 1], k)
    <3> SUFFICES ASSUME NEW k \in 0 .. n + 1
                 PROVE  g[k] = IF k = 0 THEN First(x) ELSE Step(x, g[k - 1], k)
      OBVIOUS
    <3>1. CASE k = n + 1
      <4>1. g[k] = Step(x, f[n], n + 1) /\ k - 1 = n /\ n \in 0 .. n /\ k # 0
        BY <3>1
      <4>2. g[k - 1] = f[n]
        BY <4>1, <2>2
      <4> QED BY <4>1, <4>2, <3>1
    <3>2. CASE k \in 0 .. n
      <4>1. f[k] = IF k = 0 THEN First(x) ELSE Step(x, f[k - 1], k)
        BY <2>1, <3>2 DEF Is
      <4>2. k # 0 => k - 1 \in 0 .. n
        BY <3>2
      <4>3. k # 0 => g[k - 1] = f[k - 1]
        BY <4>2, <2>2
      <4> QED BY <4>1, <4>3, <2>2, <3>2
    <3> QED BY <3>1, <3>2
  <2>4. Is(g, x, n + 1)
    BY <2>3, Zenon DEF Is
  <2> QED BY <2>4
<1> HIDE DEF S
<1>3. Nat \subseteq S
  BY <1>1, <1>2, SetInduction
<1> QED BY <1>3 DEF S

\* Two functions that satisfy it agree as far as both go.
LEMMA Agree ==
  ASSUME NEW x, NEW m \in Nat, NEW n \in Nat, NEW f, NEW g, Is(f, x, m), Is(g, x, n)
  PROVE  \A k \in Nat : k <= m /\ k <= n => f[k] = g[k]
<1> DEFINE S == {k \in Nat : k <= m /\ k <= n => f[k] = g[k]}
<1>1. 0 \in S
  BY DEF Is
<1>2. ASSUME NEW k \in S PROVE k + 1 \in S
  <2> SUFFICES ASSUME k + 1 <= m, k + 1 <= n PROVE f[k + 1] = g[k + 1]
    OBVIOUS
  <2>1. f[k] = g[k] /\ k + 1 \in 0 .. m /\ k + 1 \in 0 .. n /\ k + 1 # 0 /\ (k + 1) - 1 = k
    OBVIOUS
  <2>2. f[k + 1] = Step(x, f[k], k + 1)
    BY <2>1 DEF Is
  <2>3. g[k + 1] = Step(x, g[k], k + 1)
    BY <2>1 DEF Is
  <2> QED BY <2>1, <2>2, <2>3
<1> HIDE DEF S
<1>3. Nat \subseteq S
  BY <1>1, <1>2, SetInduction
<1> QED BY <1>3 DEF S

LEMMA Unfold ==
  ASSUME NEW x, NEW n \in Nat
  PROVE  \E f : Is(f, x, n) /\ iterate(x, n) = f[n]
<1> PICK f : f = CHOOSE g : Is(g, x, n)
  OBVIOUS
<1>1. Is(f, x, n)
  BY Exists
<1>2. iterate(x, n) = f[n]
  BY DEF iterate, Is
<1> QED BY <1>1, <1>2

\* The loop starts at First, and goes one Step at a time.
LEMMA Iterates ==
  ASSUME NEW x
  PROVE  /\ iterate(x, 0) = First(x)
         /\ \A n \in Nat : iterate(x, n + 1) = Step(x, iterate(x, n), n + 1)
<1>1. iterate(x, 0) = First(x)
  <2>1. PICK f : Is(f, x, 0) /\ iterate(x, 0) = f[0]
    BY Unfold
  <2> QED BY <2>1 DEF Is
<1>2. ASSUME NEW n \in Nat PROVE iterate(x, n + 1) = Step(x, iterate(x, n), n + 1)
  <2>1. PICK f : Is(f, x, n) /\ iterate(x, n) = f[n]
    BY Unfold
  <2>2. PICK g : Is(g, x, n + 1) /\ iterate(x, n + 1) = g[n + 1]
    BY Unfold
  <2>3. f[n] = g[n]
    BY <2>1, <2>2, Agree
  <2>4. g[n + 1] = Step(x, g[n], n + 1)
    <3>1. n + 1 \in 0 .. n + 1 /\ n + 1 # 0 /\ (n + 1) - 1 = n
      OBVIOUS
    <3> QED BY <3>1, <2>2 DEF Is
  <2> QED BY <2>1, <2>2, <2>3, <2>4
<1> QED BY <1>1, <1>2

\* Two loops that start alike, and step alike, end alike.
LEMMA SameLoop ==
  ASSUME NEW x, NEW y, NEW n \in Nat, First(x) = First(y),
         \A k \in 1 .. n : \A v : Step(x, v, k) = Step(y, v, k)
  PROVE  iterate(x, n) = iterate(y, n)
<1> DEFINE S == {k \in Nat : k <= n => iterate(x, k) = iterate(y, k)}
<1>1. 0 \in S
  BY Iterates
<1>2. ASSUME NEW k \in S PROVE k + 1 \in S
  <2> SUFFICES ASSUME k + 1 <= n
               PROVE  iterate(x, k + 1) = iterate(y, k + 1)
    OBVIOUS
  <2>1. iterate(x, k) = iterate(y, k) /\ k \in Nat /\ k + 1 \in 1 .. n
    OBVIOUS
  <2>2. /\ iterate(x, k + 1) = Step(x, iterate(x, k), k + 1)
        /\ iterate(y, k + 1) = Step(y, iterate(y, k), k + 1)
    BY <2>1, Iterates
  <2> QED BY <2>1, <2>2
<1> HIDE DEF S
<1>3. Nat \subseteq S
  BY <1>1, <1>2, SetInduction
<1> QED BY <1>3 DEF S

\* What the start is in, and every step stays in, holds the result.
LEMMA LoopStays ==
  ASSUME NEW x, NEW n \in Nat, NEW T, First(x) \in T,
         \A k \in 1 .. n : \A v \in T : Step(x, v, k) \in T
  PROVE  iterate(x, n) \in T
<1> DEFINE S == {k \in Nat : k <= n => iterate(x, k) \in T}
<1>1. 0 \in S
  BY Iterates
<1>2. ASSUME NEW k \in S PROVE k + 1 \in S
  <2> SUFFICES ASSUME k + 1 <= n
               PROVE  iterate(x, k + 1) \in T
    OBVIOUS
  <2>1. iterate(x, k) \in T /\ k \in Nat /\ k + 1 \in 1 .. n
    OBVIOUS
  <2>2. iterate(x, k + 1) = Step(x, iterate(x, k), k + 1)
    BY <2>1, Iterates
  <2> QED BY <2>1, <2>2
<1> HIDE DEF S
<1>3. Nat \subseteq S
  BY <1>1, <1>2, SetInduction
<1> QED BY <1>3 DEF S
-----------------------------------------------------------------------------
(***************************************************************************)
(* What a fold over a finite set computes: it starts at First(x), and takes *)
(* one Step(x, value, e) for each element e, Pick(S) being the last one.    *)
(***************************************************************************)
fold(x, S) ==
  LET after[s \in SUBSET S] ==
        IF s = {} THEN First(x) ELSE Step(x, after[s \ {Pick(s)}], Pick(s))
  IN  after[S]

Takes(g, x, S) ==
  g = [s \in SUBSET S |-> IF s = {} THEN First(x) ELSE Step(x, g[s \ {Pick(s)}], Pick(s))]

LEMMA TakesAt ==
  ASSUME NEW x, NEW S, NEW g, Takes(g, x, S), NEW s \in SUBSET S
  PROVE  g[s] = IF s = {} THEN First(x) ELSE Step(x, g[s \ {Pick(s)}], Pick(s))
BY Zenon DEF Takes

LEMMA TakesIf ==
  ASSUME NEW x, NEW S, NEW e, NEW g, g = [s \in SUBSET S |-> e[s]],
         \A s \in SUBSET S : g[s] = IF s = {} THEN First(x) ELSE Step(x, g[s \ {Pick(s)}], Pick(s))
  PROVE  Takes(g, x, S)
<1>1. g = [s \in SUBSET S |-> g[s]]
  OBVIOUS
<1>2. [s \in SUBSET S |-> g[s]]
        = [s \in SUBSET S |-> IF s = {} THEN First(x) ELSE Step(x, g[s \ {Pick(s)}], Pick(s))]
  OBVIOUS
<1> QED BY <1>1, <1>2, Zenon DEF Takes

\* Two functions that satisfy the equation agree as far as both go.
LEMMA FoldsAgree ==
  ASSUME NEW x, NEW S, NEW T, NEW g, NEW h, Takes(g, x, S), Takes(h, x, T),
         NEW s, IsFiniteSet(s), s \subseteq S, s \subseteq T,
         \A u \in SUBSET s : u # {} => Pick(u) \in u
  PROVE  g[s] = h[s]
<1> DEFINE G == {u \in SUBSET s : g[u] = h[u]}
<1>1. \A u \in SUBSET s :
        /\ g[u] = IF u = {} THEN First(x) ELSE Step(x, g[u \ {Pick(u)}], Pick(u))
        /\ h[u] = IF u = {} THEN First(x) ELSE Step(x, h[u \ {Pick(u)}], Pick(u))
  BY TakesAt
<1>2. {} \in G
  BY <1>1
<1>3. ASSUME NEW u \in SUBSET s, u # {}, \A y \in u : u \ {y} \in G PROVE u \in G
  <2>1. Pick(u) \in u
    BY <1>3
  <2>2. g[u \ {Pick(u)}] = h[u \ {Pick(u)}]
    BY <1>3, <2>1
  <2> QED BY <1>1, <1>3, <2>2
<1> HIDE DEF G
<1>4. SUBSET s \subseteq G
  BY <1>2, <1>3, SubsetInduction
<1> QED BY <1>4 DEF G

LEMMA FoldExists ==
  ASSUME NEW x, NEW S, IsFiniteSet(S), \A u \in SUBSET S : u # {} => Pick(u) \in u
  PROVE  \E g : Takes(g, x, S)
<1> DEFINE G == {T \in SUBSET S : \E g : Takes(g, x, T)}
<1>1. {} \in G
  <2> PICK g : g = [s \in SUBSET {} |-> First(x)]
    OBVIOUS
  <2>1. Takes(g, x, {})
    BY DEF Takes
  <2> QED BY <2>1
<1>2. ASSUME NEW T \in SUBSET S, T # {}, \A y \in T : T \ {y} \in G PROVE T \in G
  <2>0. IsFiniteSet(T)
    BY FS_Subset
  <2>1. \A y \in T : \E g : Takes(g, x, T \ {y})
    BY <1>2
  <2>2. PICK v : v = [y \in T |-> CHOOSE g : Takes(g, x, T \ {y})]
    OBVIOUS
  <2>3. \A y \in T : Takes(v[y], x, T \ {y})
    BY <2>1, <2>2
  <2>4. PICK m : m = [s \in SUBSET T |-> IF s = T THEN Pick(T) ELSE AnyOf(T \ s)]
    OBVIOUS
  <2>5. \A s \in SUBSET T : m[s] \in T /\ (s # T => s \subseteq T \ {m[s]})
    <3>1. \A s \in SUBSET T : s # T => AnyOf(T \ s) \in T \ s
      BY DEF AnyOf
    <3>2. Pick(T) \in T
      BY <1>2 DEF AnyOf
    <3> QED BY <2>4, <3>1, <3>2
  <2>6. PICK e : e = [s \in SUBSET T |->
                       IF s = T THEN Step(x, v[Pick(T)][T \ {Pick(T)}], Pick(T)) ELSE v[m[s]][s]]
    OBVIOUS
  <2>7. PICK h : h = [s \in SUBSET T |-> e[s]]
    OBVIOUS
  <2>8. \A s \in SUBSET T : s # T => h[s] = v[m[s]][s]
    BY <2>6, <2>7
  <2>9. h[T] = Step(x, v[Pick(T)][T \ {Pick(T)}], Pick(T))
    BY <2>6, <2>7
  <2>10. ASSUME NEW s \in SUBSET T, s # T, NEW y \in T, s \subseteq T \ {y}
         PROVE  h[s] = v[y][s]
    <3>1. IsFiniteSet(s)
      BY <2>0, FS_Subset
    <3>2. m[s] \in T /\ s \subseteq T \ {m[s]}
      BY <2>5, <2>10
    <3>3. Takes(v[m[s]], x, T \ {m[s]}) /\ Takes(v[y], x, T \ {y})
      BY <2>3, <3>2
    <3>4. v[m[s]][s] = v[y][s]
      BY <2>10, <3>1, <3>2, <3>3, FoldsAgree
    <3> QED BY <2>8, <2>10, <3>4
  <2>11. ASSUME NEW s \in SUBSET T
         PROVE  h[s] = IF s = {} THEN First(x) ELSE Step(x, h[s \ {Pick(s)}], Pick(s))
    <3>1. CASE s = T
      <4>1. Pick(T) \in T /\ T \ {Pick(T)} \in SUBSET T /\ T \ {Pick(T)} # T
        BY <1>2 DEF AnyOf
      <4>2. h[T \ {Pick(T)}] = v[Pick(T)][T \ {Pick(T)}]
        BY <2>10, <4>1
      <4> QED BY <1>2, <2>9, <3>1, <4>2
    <3>2. CASE s # T
      <4>1. m[s] \in T /\ s \subseteq T \ {m[s]} /\ h[s] = v[m[s]][s]
        BY <2>5, <2>8, <3>2
      <4>2. Takes(v[m[s]], x, T \ {m[s]}) /\ s \in SUBSET (T \ {m[s]})
        BY <2>3, <4>1
      <4>3. v[m[s]][s] = IF s = {} THEN First(x) ELSE Step(x, v[m[s]][s \ {Pick(s)}], Pick(s))
        BY <4>2, TakesAt
      <4>4. s # {} => h[s \ {Pick(s)}] = v[m[s]][s \ {Pick(s)}]
        <5>1. s \ {Pick(s)} \in SUBSET T /\ s \ {Pick(s)} # T
          BY <3>2
        <5>2. s \ {Pick(s)} \subseteq T \ {m[s]}
          BY <4>1
        <5> QED BY <2>10, <4>1, <5>1, <5>2
      <4> QED BY <4>1, <4>3, <4>4
    <3> QED BY <3>1, <3>2
  <2>12. \A s \in SUBSET T : h[s] = IF s = {} THEN First(x) ELSE Step(x, h[s \ {Pick(s)}], Pick(s))
    BY <2>11
  <2>13. Takes(h, x, T)
    BY <2>7, <2>12, TakesIf
  <2> QED BY <2>13
<1> HIDE DEF G
<1>3. SUBSET S \subseteq G
  BY <1>1, <1>2, SubsetInduction
<1> QED BY <1>3 DEF G

\* A fold takes the last element after all others.
LEMMA FoldsOnce ==
  ASSUME NEW x, NEW S, IsFiniteSet(S), \A u \in SUBSET S : u # {} => Pick(u) \in u
  PROVE  fold(x, S) = IF S = {} THEN First(x) ELSE Step(x, fold(x, S \ {Pick(S)}), Pick(S))
<1>1. PICK T : T = S \ {Pick(S)}
  OBVIOUS
<1>2. PICK g : g = CHOOSE h : Takes(h, x, S)
  OBVIOUS
<1>3. PICK k : k = CHOOSE h : Takes(h, x, T)
  OBVIOUS
<1>4. Takes(g, x, S)
  BY <1>2, FoldExists
<1>5. IsFiniteSet(T) /\ T \subseteq S /\ \A u \in SUBSET T : u # {} => Pick(u) \in u
  BY <1>1, FS_Subset
<1>6. Takes(k, x, T)
  BY <1>3, <1>5, FoldExists
<1>7. g[T] = k[T]
  BY <1>4, <1>5, <1>6, FoldsAgree
<1>8. g[S] = IF S = {} THEN First(x) ELSE Step(x, g[T], Pick(S))
  BY <1>1, <1>4, TakesAt
<1>9. fold(x, S) = g[S] /\ fold(x, T) = k[T]
  BY <1>2, <1>3 DEF fold, Takes
<1> QED BY <1>1, <1>7, <1>8, <1>9

LEMMA Folded ==
  \A x, S :
    IsFiniteSet(S) /\ (\A u \in SUBSET S : u # {} => Pick(u) \in u) =>
      fold(x, S) = IF S = {} THEN First(x) ELSE Step(x, fold(x, S \ {Pick(S)}), Pick(S))
BY FoldsOnce
=============================================================================
