------------------------------ MODULE Induction -----------------------------
(***************************************************************************)
(* Induction over the naturals, and functions defined by it, in a form     *)
(* that takes sets and functions where the library takes operators: the    *)
(* models' sums, walks and splittings are such functions.                  *)
(***************************************************************************)
EXTENDS WellFoundedInduction, TLAPS

\* A set of naturals that is not empty has a least element.
LEMMA LeastOf ==
  ASSUME NEW T, T \subseteq Nat, T # {}
  PROVE  \E n \in T : \A m \in T : n <= m
<1> DEFINE R == OpToRel(<, Nat)
<1>1. IsWellFoundedOn(R, Nat)
  BY NatLessThanWellFounded
<1>2. \A x, y \in Nat : x < y => <<x, y>> \in R
  BY DEF OpToRel
<1> HIDE DEF R
<1>3. PICK n \in T : \A m \in T : ~(<<m, n>> \in R)
  BY <1>1, WFMin
<1>4. ASSUME NEW m \in T PROVE n <= m
  <2>1. m \in Nat /\ n \in Nat /\ ~(<<m, n>> \in R)
    BY <1>3
  <2>2. ~(m < n)
    BY <1>2, <2>1
  <2> QED
    BY <2>1, <2>2
<1> QED
  BY <1>4

\* A set with 0 and, with each natural, the next, has them all.
LEMMA SetInduction ==
  ASSUME NEW S, 0 \in S, \A n \in Nat : n \in S => n + 1 \in S
  PROVE  Nat \subseteq S
<1> SUFFICES ASSUME Nat \ S # {} PROVE FALSE
  OBVIOUS
<1>1. PICK n \in Nat \ S : \A m \in Nat \ S : n <= m
  <2>1. Nat \ S \subseteq Nat
    OBVIOUS
  <2> QED
    BY <2>1, LeastOf
<1>2. n # 0 /\ n - 1 \in Nat /\ (n - 1) + 1 = n
  BY <1>1
<1>3. n - 1 \in S
  BY <1>1, <1>2
<1> QED
  BY <1>1, <1>2, <1>3

\* The same up to a bound.
LEMMA BoundedInduction ==
  ASSUME NEW N \in Nat, NEW S, 0 \in S, \A n \in 0 .. N - 1 : n \in S => n + 1 \in S
  PROVE  0 .. N \subseteq S
<1> DEFINE T == {n \in Nat : n <= N => n \in S}
<1>1. 0 \in T
  OBVIOUS
<1>2. ASSUME NEW n \in Nat, n \in T PROVE n + 1 \in T
  <2>1. CASE n + 1 <= N
    <3>1. n \in 0 .. N - 1 /\ n \in S
      BY <1>2, <2>1
    <3> QED
      BY <3>1
  <2>2. CASE ~(n + 1 <= N)
    BY <2>2
  <2> QED
    BY <2>1, <2>2
<1> HIDE DEF T
<1>3. Nat \subseteq T
  BY <1>1, <1>2, SetInduction
<1> QED
  BY <1>3 DEF T

\* g goes from a by steps, each a function of the value before.
Steps(g, N, V, a, step) ==
  g \in [0 .. N -> V] /\ g[0] = a /\ \A n \in 1 .. N : g[n] = step[n][g[n - 1]]

\* A function on 0 .. N can be defined by its first value and its steps.
LEMMA RecursionExists ==
  ASSUME NEW N \in Nat, NEW V, NEW a \in V, NEW step \in [1 .. N -> [V -> V]]
  PROVE  \E g : Steps(g, N, V, a, step)
<1> DEFINE Up(g, n) == g[0] = a /\ \A i \in 1 .. n : g[i] = step[i][g[i - 1]]
           S == {n \in Nat : \E g \in [0 .. n -> V] : Up(g, n)}
<1>1. 0 \in S
  <2> DEFINE g == [n \in 0 .. 0 |-> a]
  <2>1. g \in [0 .. 0 -> V] /\ Up(g, 0)
    OBVIOUS
  <2> QED
    BY <2>1
<1>2. ASSUME NEW n \in 0 .. N - 1, n \in S PROVE n + 1 \in S
  <2>1. PICK g \in [0 .. n -> V] : Up(g, n)
    BY <1>2
  <2> DEFINE h == [i \in 0 .. n + 1 |-> IF i = n + 1 THEN step[n + 1][g[n]] ELSE g[i]]
  <2>2. n + 1 \in 1 .. N /\ g[n] \in V
    BY <2>1
  <2>3. step[n + 1][g[n]] \in V
    BY <2>2
  <2>4. h \in [0 .. n + 1 -> V]
    BY <2>1, <2>3
  <2>5. h[n + 1] = step[n + 1][h[n]]
    OBVIOUS
  <2>6. \A i \in 0 .. n : h[i] = g[i]
    OBVIOUS
  <2>7. Up(h, n + 1)
    <3> HIDE DEF h
    <3>1. ASSUME NEW i \in 1 .. n + 1 PROVE h[i] = step[i][h[i - 1]]
      <4>1. CASE i = n + 1
        BY <2>5, <4>1
      <4>2. CASE i # n + 1
        <5>1. i \in 1 .. n /\ i \in 0 .. n /\ i - 1 \in 0 .. n
          BY <4>2
        <5> QED
          BY <2>1, <2>6, <5>1
      <4> QED
        BY <4>1, <4>2
    <3>2. h[0] = a
      BY <2>1, <2>6
    <3> QED
      BY <3>1, <3>2
  <2> HIDE DEF h
  <2> QED
    BY <2>4, <2>7
<1> HIDE DEF S
<1>3. N \in S
  <2>1. 0 .. N \subseteq S
    BY <1>1, <1>2, BoundedInduction
  <2> QED
    BY <2>1
<1>4. PICK g \in [0 .. N -> V] : Up(g, N)
  BY <1>3 DEF S
<1>5. Steps(g, N, V, a, step)
  BY <1>4 DEF Steps
<1> QED
  BY <1>5

\* Induction from all smaller numbers.
LEMMA StrongInduction ==
  ASSUME NEW N \in Nat, NEW S, \A n \in 0 .. N : (\A m \in 0 .. n - 1 : m \in S) => n \in S
  PROVE  0 .. N \subseteq S
<1> SUFFICES ASSUME (0 .. N) \ S # {} PROVE FALSE
  OBVIOUS
<1>1. PICK n \in (0 .. N) \ S : \A m \in (0 .. N) \ S : n <= m
  <2>1. (0 .. N) \ S \subseteq Nat
    OBVIOUS
  <2> QED
    BY <2>1, LeastOf
<1>2. \A m \in 0 .. n - 1 : m \in S
  BY <1>1
<1> QED
  BY <1>1, <1>2

\* g goes from a by steps, each a function of a value before: for n the one at
\* back[n].
Jumps(g, N, V, a, back, step) ==
  g \in [0 .. N -> V] /\ g[0] = a /\ \A n \in 1 .. N : g[n] = step[n][g[back[n]]]

\* A function on 0 .. N can be defined by its first value and such steps.
LEMMA JumpingRecursionExists ==
  ASSUME NEW N \in Nat, NEW V, NEW a \in V, NEW step \in [1 .. N -> [V -> V]],
         NEW back \in [1 .. N -> Nat], \A n \in 1 .. N : back[n] < n
  PROVE  \E g : Jumps(g, N, V, a, back, step)
<1> DEFINE W == [0 .. N -> V]
           one(n, g) == [i \in 0 .. N |-> IF i = n THEN step[n][g[back[n]]] ELSE g[i]]
           all == [n \in 1 .. N |-> [g \in W |-> one(n, g)]]
           start == [i \in 0 .. N |-> a]
<1>1. \A n \in 1 .. N : back[n] \in 0 .. n - 1 /\ back[n] \in 0 .. N
  OBVIOUS
<1>2. \A n \in 1 .. N : \A g \in W : one(n, g) \in W
  <2> TAKE n \in 1 .. N
  <2> TAKE g \in W
  <2>1. step[n][g[back[n]]] \in V
    BY <1>1
  <2> QED
    BY <2>1
<1>3. all \in [1 .. N -> [W -> W]] /\ start \in W
  <2> HIDE DEF one, W
  <2>1. all \in [1 .. N -> [W -> W]]
    BY <1>2
  <2> QED
    BY <2>1 DEF W
<1>4. \A n \in 1 .. N : \A g \in W : all[n][g] = one(n, g)
  <2> HIDE DEF one, W
  <2> QED
    OBVIOUS
<1> HIDE DEF all, W
<1>5. PICK g : Steps(g, N, W, start, all)
  <2> HIDE DEF start
  <2> QED
    BY <1>3, RecursionExists
<1>6. g \in [0 .. N -> W] /\ g[0] = start /\ \A n \in 1 .. N : g[n] = all[n][g[n - 1]]
  BY <1>5 DEF Steps
<1>7. \A n \in 1 .. N : g[n] = one(n, g[n - 1])
  <2> HIDE DEF one, start
  <2>1. \A n \in 1 .. N : g[n - 1] \in W
    BY <1>6
  <2> QED
    BY <1>4, <1>6, <2>1
<1> DEFINE h == [n \in 0 .. N |-> g[n][n]]
           S == {m \in 0 .. N : \A n \in 0 .. m : g[m][n] = h[n]}
<1>8. 0 \in S
  OBVIOUS
<1>9. ASSUME NEW m \in 0 .. N - 1, m \in S PROVE m + 1 \in S
  <2>1. m + 1 \in 1 .. N /\ (m + 1) - 1 = m /\ m + 1 \in 0 .. N
    OBVIOUS
  <2>2. g[m + 1] = one(m + 1, g[m])
    <3> HIDE DEF one
    <3> QED
      BY <1>7, <2>1
  <2>3. \A n \in 0 .. m : g[m + 1][n] = g[m][n]
    BY <2>1, <2>2
  <2>4. \A n \in 0 .. m : g[m][n] = h[n]
    BY <1>9
  <2>5. \A n \in 0 .. m + 1 : n = m + 1 \/ n \in 0 .. m
    OBVIOUS
  <2>6. g[m + 1][m + 1] = h[m + 1]
    BY <2>1
  <2> HIDE DEF h, one
  <2> QED
    BY <2>1, <2>3, <2>4, <2>5, <2>6
<1>10. 0 .. N \subseteq S
  <2> HIDE DEF S
  <2> QED
    BY <1>8, <1>9, BoundedInduction
<1>11. h \in [0 .. N -> V]
  <2> SUFFICES ASSUME NEW n \in 0 .. N PROVE g[n][n] \in V
    OBVIOUS
  <2>1. g[n] \in [0 .. N -> V]
    BY <1>6 DEF W
  <2> QED
    BY <2>1
<1>12. ASSUME NEW n \in 1 .. N PROVE h[n] = step[n][h[back[n]]]
  <2>1. n - 1 \in 0 .. N /\ back[n] \in 0 .. n - 1 /\ n \in 0 .. N
    BY <1>1
  <2>2. h[n] = one(n, g[n - 1])[n]
    BY <1>7, <2>1
  <2>3. h[n] = step[n][g[n - 1][back[n]]]
    BY <2>1, <2>2
  <2>4. n - 1 \in S
    <3> HIDE DEF S
    <3> QED
      BY <1>10, <2>1
  <2>5. g[n - 1][back[n]] = h[back[n]]
    <3> HIDE DEF h
    <3> QED
      BY <2>1, <2>4
  <2> QED
    BY <2>3, <2>5
<1>13. h[0] = a
  BY <1>6
<1> HIDE DEF h
<1>14. Jumps(h, N, V, a, back, step)
  BY <1>11, <1>12, <1>13 DEF Jumps
<1> QED
  BY <1>14
=============================================================================
