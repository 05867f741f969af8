----------------------------- MODULE HeapProofs -----------------------------
(***************************************************************************)
(* What the heap operations do to a sequence of any length: they rearrange *)
(* it, and they leave it with no element outranked by one below it; and    *)
(* what the operations on books and the match loop built on them do.       *)
(* Everything is by induction over positions.  The library's induction     *)
(* theorems take a predicate; SetInduction says the same of a set, which   *)
(* the provers can instantiate.                                            *)
(***************************************************************************)
EXTENDS OrderBook, SequenceTheorems, WellFoundedInduction, TLAPS

-----------------------------------------------------------------------------
(* Induction *)

Below == {p \in Nat \X Nat : p[1] < p[2]}

LEMMA BelowWellFounded == IsWellFoundedOn(Below, Nat)
  BY NatLessThanWellFounded, Zenon DEF OpToRel, Below

LEMMA SetInduction ==
  ASSUME NEW T, 0 \in T, \A n \in T \cap Nat : n + 1 \in T
  PROVE  Nat \subseteq T
  <1> SUFFICES ASSUME Nat \ T # {} PROVE FALSE
    OBVIOUS
  <1>1. PICK x \in Nat \ T : \A y \in Nat \ T : <<y, x>> \notin Below
    <2>1. Nat \ T \subseteq Nat
      OBVIOUS
    <2> QED
      BY <2>1, BelowWellFounded, WFMin
  <1>2. x # 0 /\ x - 1 \in Nat /\ x - 1 + 1 = x
    OBVIOUS
  <1>3. x - 1 \in Nat \ T
    BY <1>2
  <1>4. <<x - 1, x>> \in Below
    BY <1>2 DEF Below
  <1> QED
    BY <1>1, <1>3, <1>4

\* The same with all smaller numbers in the hypothesis.
LEMMA StrongInduction ==
  ASSUME NEW T, \A n \in Nat : (\A m \in Nat : m < n => m \in T) => n \in T
  PROVE  Nat \subseteq T
  <1> DEFINE U == {n \in Nat : \A m \in Nat : m < n => m \in T}
  <1>1. 0 \in U
    OBVIOUS
  <1>2. ASSUME NEW n \in U \cap Nat PROVE n + 1 \in U
    <2>1. n \in T
      OBVIOUS
    <2> QED
      BY <2>1
  <1>3. Nat \subseteq U
    <2> HIDE DEF U
    <2> QED
      BY <1>1, <1>2, SetInduction
  <1> QED
    BY <1>3

-----------------------------------------------------------------------------
(* Paths *)

\* The parent of a position.
LEMMA Parent ==
  ASSUME NEW i \in Nat \ {0}
  PROVE  /\ i \div 2 \in Nat /\ i \div 2 < i
         /\ i > 1 => i \div 2 > 0
         /\ i = 2 * (i \div 2) \/ i = 2 * (i \div 2) + 1
  OBVIOUS

LEMMA Prepend ==
  ASSUME NEW S, NEW x \in S, NEW q \in Seq(S)
  PROVE  /\ <<x>> \o q \in Seq(S)
         /\ Len(<<x>> \o q) = Len(q) + 1
         /\ (<<x>> \o q)[1] = x
         /\ \A k \in 1 .. Len(q) : (<<x>> \o q)[k + 1] = q[k]
  OBVIOUS

LEMMA SeqMembers ==
  ASSUME NEW S, NEW q \in Seq(S)
  PROVE  Len(q) \in Nat /\ DOMAIN q = 1 .. Len(q) /\ \A k \in 1 .. Len(q) : q[k] \in S
  OBVIOUS

LEMMA SeqWider ==
  ASSUME NEW S, NEW T, S \subseteq T, NEW q \in Seq(S)
  PROVE  q \in Seq(T)
  OBVIOUS

\* What UpPath returns: from i to parent to parent, while v outranks the parent.
IsUpPath(p, s, i, top, v) ==
  /\ p \in Seq(1 .. i) /\ Len(p) > 0 /\ p[1] = i
  /\ \A k \in 1 .. Len(p) - 1 :
       p[k] > top /\ p[k + 1] = p[k] \div 2 /\ RanksLower(s[p[k + 1]], v)
  /\ \A j, k \in 1 .. Len(p) : j < k => p[k] < p[j]
  /\ p[Len(p)] > top => ~RanksLower(s[p[Len(p)] \div 2], v)

\* The recursion in UpPath.
UpFunction(up, s, hole, top, v) ==
  up = [i \in 1 .. hole |-> IF i > top /\ RanksLower(s[i \div 2], v)
                            THEN <<i>> \o up[i \div 2] ELSE <<i>>]

LEMMA UpPathDefined ==
  ASSUME NEW s, NEW v, NEW hole \in Nat, NEW top \in Nat \ {0}
  PROVE  \E up : UpFunction(up, s, hole, top, v) /\ UpPath(s, hole, top, v) = up[hole]
  <1> DEFINE e(g, i) == IF i > top /\ RanksLower(s[i \div 2], v)
                        THEN <<i>> \o g[i \div 2] ELSE <<i>>
             T == {n \in Nat : \E g : g = [i \in 1 .. n |-> e(g, i)]}
  <1>1. 0 \in T
    <2> DEFINE g == [i \in 1 .. 0 |-> 0]
    <2>1. g = [i \in 1 .. 0 |-> e(g, i)]
      OBVIOUS
    <2> QED
      BY <2>1
  <1>2. ASSUME NEW n \in T \cap Nat PROVE n + 1 \in T
    <2>1. PICK g : g = [i \in 1 .. n |-> e(g, i)]
      OBVIOUS
    <2> DEFINE h == [i \in 1 .. n + 1 |-> IF i \in 1 .. n THEN g[i] ELSE e(g, i)]
    <2>2. \A i \in 1 .. n + 1 : e(h, i) = e(g, i)
      BY Parent
    <2>3. \A i \in 1 .. n + 1 : h[i] = e(g, i)
      BY <2>1
    <2>4. h = [i \in 1 .. n + 1 |-> e(h, i)]
      BY <2>2, <2>3
    <2> HIDE DEF h
    <2> QED
      BY <2>4
  <1>3. hole \in T
    <2> HIDE DEF T
    <2> QED
      BY <1>1, <1>2, SetInduction
  <1> DEFINE up == CHOOSE g : g = [i \in 1 .. hole |-> e(g, i)]
  <1>4. up = [i \in 1 .. hole |-> e(up, i)]
    BY <1>3
  <1>5. UpPath(s, hole, top, v) = up[hole]
    BY DEF UpPath
  <1> HIDE DEF up
  <1> QED
    BY <1>4, <1>5 DEF UpFunction

\* A path of j's, continued from the child i of j.
LEMMA UpPathStep ==
  ASSUME NEW s, NEW v, NEW top \in Nat \ {0}, NEW i \in Nat \ {0}, NEW q, NEW p,
         i > top, RanksLower(s[i \div 2], v), IsUpPath(q, s, i \div 2, top, v),
         p = <<i>> \o q
  PROVE  IsUpPath(p, s, i, top, v)
  <1> DEFINE j == i \div 2
  <1>1. j \in 1 .. i /\ j < i
    BY Parent
  <1>2. q \in Seq(1 .. i) /\ q[1] = j /\ Len(q) > 0 /\ i \in 1 .. i
    BY <1>1 DEF IsUpPath
  <1>3. \A k \in 1 .. Len(q) - 1 :
          q[k] > top /\ q[k + 1] = q[k] \div 2 /\ RanksLower(s[q[k + 1]], v)
    BY DEF IsUpPath
  <1>4. \A k, l \in 1 .. Len(q) : k < l => q[l] < q[k]
    BY DEF IsUpPath
  <1>5. q[Len(q)] > top => ~RanksLower(s[q[Len(q)] \div 2], v)
    BY DEF IsUpPath
  <1>6. /\ p \in Seq(1 .. i) /\ Len(p) = Len(q) + 1 /\ p[1] = i
        /\ \A k \in 1 .. Len(q) : p[k + 1] = q[k]
    BY <1>2, Prepend
  <1>7. Len(q) \in Nat /\ \A k \in 2 .. Len(p) : k - 1 \in 1 .. Len(q) /\ p[k] = q[k - 1]
    BY <1>2, <1>6
  <1>8. \A k \in 1 .. Len(p) - 1 :
          p[k] > top /\ p[k + 1] = p[k] \div 2 /\ RanksLower(s[p[k + 1]], v)
    <2> SUFFICES ASSUME NEW k \in 1 .. Len(p) - 1
                 PROVE  p[k] > top /\ p[k + 1] = p[k] \div 2 /\ RanksLower(s[p[k + 1]], v)
      OBVIOUS
    <2>1. CASE k = 1
      BY <1>2, <1>6, <2>1
    <2>2. CASE k > 1
      <3>1. k - 1 \in 1 .. Len(q) - 1 /\ p[k] = q[k - 1] /\ p[k + 1] = q[k]
        BY <1>6, <1>7, <2>2
      <3> QED
        BY <1>3, <3>1
    <2> QED
      BY <1>2, <1>6, <2>1, <2>2
  <1>9. \A k \in 1 .. Len(q) : q[k] <= j
    BY <1>2 DEF IsUpPath
  <1>10. \A k, l \in 1 .. Len(p) : k < l => p[l] < p[k]
    <2> SUFFICES ASSUME NEW k \in 1 .. Len(p), NEW l \in 1 .. Len(p), k < l
                 PROVE  p[l] < p[k]
      OBVIOUS
    <2>1. CASE k = 1
      BY <1>1, <1>2, <1>6, <1>7, <1>9, <2>1
    <2>2. CASE k > 1
      <3>1. k - 1 \in 1 .. Len(q) /\ l - 1 \in 1 .. Len(q) /\ k - 1 < l - 1
        BY <1>6, <1>7, <2>2
      <3>2. p[k] = q[k - 1] /\ p[l] = q[l - 1]
        BY <1>6, <1>7, <2>2
      <3> QED
        BY <1>4, <3>1, <3>2
    <2> QED
      BY <2>1, <2>2
  <1>11. p[Len(p)] = q[Len(q)]
    BY <1>2, <1>6
  <1>12. p[Len(p)] > top => ~RanksLower(s[p[Len(p)] \div 2], v)
    BY <1>5, <1>11
  <1>13. Len(p) > 0
    BY <1>2, <1>6
  <1> QED
    BY <1>6, <1>8, <1>10, <1>12, <1>13, Zenon DEF IsUpPath

LEMMA UpPathShape ==
  ASSUME NEW s, NEW v, NEW hole \in Nat \ {0}, NEW top \in Nat \ {0},
         NEW D, hole \in D, \A i \in D : i > top => i \div 2 \in D
  PROVE  /\ IsUpPath(UpPath(s, hole, top, v), s, hole, top, v)
         /\ UpPath(s, hole, top, v) \in Seq(D)
  <1>1. PICK up : UpFunction(up, s, hole, top, v) /\ UpPath(s, hole, top, v) = up[hole]
    BY UpPathDefined
  <1> DEFINE Good(i) == IsUpPath(up[i], s, i, top, v) /\ up[i] \in Seq(D)
             T == {i \in Nat : i \in (1 .. hole) \cap D => Good(i)}
  <1>2. ASSUME NEW i \in Nat, \A m \in Nat : m < i => m \in T
        PROVE  i \in T
    <2> SUFFICES ASSUME i \in 1 .. hole, i \in D PROVE Good(i)
      OBVIOUS
    <2>1. CASE ~(i > top /\ RanksLower(s[i \div 2], v))
      <3>1. up[i] = <<i>>
        BY <1>1, <2>1 DEF UpFunction
      <3> QED
        BY <2>1, <3>1 DEF IsUpPath
    <2>2. CASE i > top /\ RanksLower(s[i \div 2], v)
      <3>1. i \div 2 \in 1 .. hole /\ i \div 2 < i /\ i \div 2 \in D /\ i \in Nat \ {0}
        BY <2>2, Parent
      <3>2. Good(i \div 2)
        BY <1>2, <3>1
      <3>3. up[i] = <<i>> \o up[i \div 2]
        BY <1>1, <2>2 DEF UpFunction
      <3>4. IsUpPath(up[i], s, i, top, v)
        BY <2>2, <3>1, <3>2, <3>3, UpPathStep, Zenon
      <3>5. up[i] \in Seq(D)
        BY <3>2, <3>3, Prepend
      <3> QED
        BY <3>4, <3>5
    <2> QED
      BY <2>1, <2>2
  <1>3. hole \in T
    <2> HIDE DEF T
    <2> QED
      BY <1>2, StrongInduction
  <1>4. Good(hole)
    BY <1>3
  <1> QED
    BY <1>1, <1>4
-----------------------------------------------------------------------------
(* Shifting along a path *)

\* A path without repetition through the positions of s.
IsPath(path, s) == /\ path \in Seq(DOMAIN s) /\ Len(path) > 0
                   /\ \A j, k \in 1 .. Len(path) : path[j] = path[k] => j = k

OnPath(i, path) == \E k \in 1 .. Len(path) : path[k] = i

LEMMA ShiftAlong ==
  ASSUME NEW S, NEW s \in Seq(S), NEW v \in S, NEW path, IsPath(path, s), NEW t,
         t = Shift(s, path, v)
  PROVE  /\ t \in Seq(S) /\ Len(t) = Len(s)
         /\ \A k \in 1 .. Len(path) - 1 : t[path[k]] = s[path[k + 1]]
         /\ t[path[Len(path)]] = v
         /\ \A i \in 1 .. Len(s) : ~OnPath(i, path) => t[i] = s[i]
  <1> DEFINE n == Len(path)
             at(i) == CHOOSE k \in 1 .. n - 1 : path[k] = i
             value(i) == IF i = path[n] THEN v
                         ELSE IF \E k \in 1 .. n - 1 : path[k] = i THEN s[path[1 + at(i)]]
                         ELSE s[i]
  <1>1. t = [i \in DOMAIN s |-> value(i)]
    BY DEF Shift
  <1>2. /\ n \in Nat \ {0} /\ DOMAIN s = 1 .. Len(s)
        /\ \A k \in 1 .. n : path[k] \in 1 .. Len(s)
        /\ \A j, k \in 1 .. n : path[j] = path[k] => j = k
    BY DEF IsPath
  <1> HIDE DEF n
  <1>3. value(path[n]) = v
    OBVIOUS
  <1>4. \A k \in 1 .. n - 1 : at(path[k]) = k
    BY <1>2
  <1>5. \A k \in 1 .. n - 1 : value(path[k]) = s[path[k + 1]]
    <2> SUFFICES ASSUME NEW k \in 1 .. n - 1 PROVE value(path[k]) = s[path[k + 1]]
      OBVIOUS
    <2>1. path[k] # path[n]
      BY <1>2
    <2>2. at(path[k]) = k
      BY <1>4
    <2> QED
      BY <1>2, <2>1, <2>2
  <1>6. \A i \in 1 .. Len(s) : ~OnPath(i, path) => value(i) = s[i]
    <2> SUFFICES ASSUME NEW i \in 1 .. Len(s), ~OnPath(i, path) PROVE value(i) = s[i]
      OBVIOUS
    <2>1. \A k \in 1 .. n : path[k] # i
      BY DEF OnPath, n
    <2> QED
      BY <1>2, <2>1
  <1> HIDE DEF value
  <1>7. \A i \in 1 .. Len(s) : value(i) \in S
    <2> SUFFICES ASSUME NEW i \in 1 .. Len(s) PROVE value(i) \in S
      OBVIOUS
    <2>1. CASE ~OnPath(i, path)
      BY <1>6, <2>1
    <2>2. CASE OnPath(i, path)
      <3>1. PICK k \in 1 .. n : path[k] = i
        BY <2>2 DEF OnPath, n
      <3>2. CASE k = n
        BY <1>3, <3>1, <3>2
      <3>3. CASE k # n
        <4>1. k \in 1 .. n - 1 /\ path[k + 1] \in 1 .. Len(s)
          BY <1>2, <3>3
        <4> QED
          BY <1>5, <3>1, <4>1
      <3> QED
        BY <3>2, <3>3
    <2> QED
      BY <2>1, <2>2
  <1>8. t \in Seq(S) /\ Len(t) = Len(s)
    BY <1>1, <1>2, <1>7
  <1>9. \A k \in 1 .. n : t[path[k]] = value(path[k])
    BY <1>1, <1>2
  <1> QED
    BY <1>1, <1>2, <1>3, <1>5, <1>6, <1>8, <1>9 DEF n

\* t has the elements of u, in another order.
Rearranged(t, u) ==
  /\ DOMAIN t = DOMAIN u
  /\ \E p \in [DOMAIN u -> DOMAIN u] :
       /\ \A i \in DOMAIN u : t[i] = u[p[i]]
       /\ \A i, j \in DOMAIN u : p[i] = p[j] => i = j
       /\ \A i \in DOMAIN u : \E j \in DOMAIN u : p[j] = i

LEMMA RearrangedElements ==
  ASSUME NEW t, NEW u, Rearranged(t, u)
  PROVE  Elements(t) = Elements(u)
  BY DEF Rearranged, Elements

LEMMA RearrangedTwice ==
  ASSUME NEW t, NEW u, NEW w, Rearranged(t, u), Rearranged(u, w)
  PROVE  Rearranged(t, w)
  <1>1. PICK p \in [DOMAIN u -> DOMAIN u] :
          /\ \A i \in DOMAIN u : t[i] = u[p[i]]
          /\ \A i, j \in DOMAIN u : p[i] = p[j] => i = j
          /\ \A i \in DOMAIN u : \E j \in DOMAIN u : p[j] = i
    BY DEF Rearranged
  <1>2. PICK q \in [DOMAIN w -> DOMAIN w] :
          /\ \A i \in DOMAIN w : u[i] = w[q[i]]
          /\ \A i, j \in DOMAIN w : q[i] = q[j] => i = j
          /\ \A i \in DOMAIN w : \E j \in DOMAIN w : q[j] = i
    BY DEF Rearranged
  <1>3. DOMAIN t = DOMAIN w /\ DOMAIN u = DOMAIN w
    BY DEF Rearranged
  <1> DEFINE r == [i \in DOMAIN w |-> q[p[i]]]
  <1>4. r \in [DOMAIN w -> DOMAIN w] /\ \A i \in DOMAIN w : t[i] = w[r[i]]
    BY <1>1, <1>2, <1>3
  <1>5. \A i, j \in DOMAIN w : r[i] = r[j] => i = j
    BY <1>1, <1>2, <1>3
  <1>6. \A i \in DOMAIN w : \E j \in DOMAIN w : r[j] = i
    BY <1>1, <1>2, <1>3
  <1> HIDE DEF r
  <1> QED
    BY <1>3, <1>4, <1>5, <1>6 DEF Rearranged

\* Shifting only rearranges, once the value is where the path begins.
LEMMA ShiftRearranges ==
  ASSUME NEW S, NEW s \in Seq(S), NEW v \in S, NEW path, IsPath(path, s)
  PROVE  Rearranged(Shift(s, path, v), [s EXCEPT ![path[1]] = v])
  <1> DEFINE n == Len(path)
             t == Shift(s, path, v)
             u == [s EXCEPT ![path[1]] = v]
  <1>1. /\ t \in Seq(S) /\ Len(t) = Len(s)
        /\ \A k \in 1 .. n - 1 : t[path[k]] = s[path[k + 1]]
        /\ t[path[n]] = v
        /\ \A i \in 1 .. Len(s) : ~OnPath(i, path) => t[i] = s[i]
    BY ShiftAlong
  <1>2. /\ n \in Nat \ {0} /\ DOMAIN s = 1 .. Len(s) /\ DOMAIN t = 1 .. Len(s)
        /\ \A k \in 1 .. n : path[k] \in 1 .. Len(s)
        /\ \A j, k \in 1 .. n : path[j] = path[k] => j = k
    BY <1>1 DEF IsPath
  <1>3. /\ DOMAIN u = 1 .. Len(s) /\ u[path[1]] = v
        /\ \A i \in 1 .. Len(s) : i # path[1] => u[i] = s[i]
    BY <1>2
  <1>4. \A i \in 1 .. Len(s) : OnPath(i, path) <=> \E k \in 1 .. n : path[k] = i
    BY DEF OnPath
  <1> HIDE DEF n, t, u
  <1> DEFINE place(i) == CHOOSE k \in 1 .. n : path[k] = i
             next(k) == IF k = n THEN 1 ELSE k + 1
             p == [i \in 1 .. Len(s) |-> IF OnPath(i, path) THEN path[next(place(i))] ELSE i]
  <1>5. \A k \in 1 .. n : /\ place(path[k]) = k /\ OnPath(path[k], path)
                         /\ next(k) \in 1 .. n
    BY <1>2, <1>4
  <1>6. \A k \in 1 .. n : p[path[k]] = path[next(k)]
    <2> SUFFICES ASSUME NEW k \in 1 .. n PROVE p[path[k]] = path[next(k)]
      OBVIOUS
    <2> DEFINE to(i) == IF OnPath(i, path) THEN path[next(place(i))] ELSE i
    <2>1. p = [i \in 1 .. Len(s) |-> to(i)]
      OBVIOUS
    <2>2. to(path[k]) = path[next(k)]
      <3> HIDE DEF place, next
      <3> QED
        BY <1>5
    <2> HIDE DEF to, p
    <2> QED
      BY <1>2, <2>1, <2>2
  <1>7. \A i \in 1 .. Len(s) : ~OnPath(i, path) => p[i] = i
    OBVIOUS
  <1>8. p \in [1 .. Len(s) -> 1 .. Len(s)]
    <2> SUFFICES ASSUME NEW i \in 1 .. Len(s) PROVE p[i] \in 1 .. Len(s)
      OBVIOUS
    <2>1. CASE OnPath(i, path)
      BY <1>2, <1>4, <1>5, <1>6, <2>1
    <2>2. CASE ~OnPath(i, path)
      BY <1>7, <2>2
    <2> QED
      BY <2>1, <2>2
  <1> HIDE DEF p, place
  <1>9. \A i \in 1 .. Len(s) : t[i] = u[p[i]]
    <2> SUFFICES ASSUME NEW i \in 1 .. Len(s) PROVE t[i] = u[p[i]]
      OBVIOUS
    <2>1. CASE OnPath(i, path)
      <3>1. PICK k \in 1 .. n : path[k] = i
        BY <1>4, <2>1
      <3>2. CASE k = n
        BY <1>1, <1>3, <1>6, <3>1, <3>2 DEF n, t
      <3>3. CASE k # n
        <4>1. k \in 1 .. n - 1 /\ k + 1 \in 1 .. n /\ next(k) = k + 1
          BY <1>2, <3>3
        <4>2. t[i] = s[path[k + 1]] /\ p[i] = path[k + 1]
          BY <1>1, <1>6, <3>1, <4>1 DEF n, t
        <4>3. path[k + 1] # path[1] /\ path[k + 1] \in 1 .. Len(s)
          BY <1>2, <4>1
        <4> QED
          BY <1>3, <4>2, <4>3
      <3> QED
        BY <3>2, <3>3
    <2>2. CASE ~OnPath(i, path)
      <3>1. i # path[1]
        BY <1>2, <1>5, <2>2
      <3> QED
        BY <1>1, <1>3, <1>7, <2>2, <3>1 DEF t
    <2> QED
      BY <2>1, <2>2
  <1>10. \A i \in 1 .. Len(s) : OnPath(i, path) <=> OnPath(p[i], path)
    BY <1>2, <1>4, <1>5, <1>6, <1>7
  <1>11. \A i, j \in 1 .. Len(s) : p[i] = p[j] => i = j
    <2> SUFFICES ASSUME NEW i \in 1 .. Len(s), NEW j \in 1 .. Len(s), p[i] = p[j]
                 PROVE  i = j
      OBVIOUS
    <2>1. CASE OnPath(i, path)
      <3>1. OnPath(j, path)
        BY <1>10, <2>1
      <3>2. PICK k \in 1 .. n, l \in 1 .. n : path[k] = i /\ path[l] = j
        BY <1>4, <2>1, <3>1
      <3>3. path[next(k)] = path[next(l)] /\ next(k) \in 1 .. n /\ next(l) \in 1 .. n
        BY <1>5, <1>6, <3>2
      <3>4. next(k) = next(l)
        <4> HIDE DEF next
        <4> QED
          BY <1>2, <3>3
      <3> QED
        BY <1>2, <3>2, <3>4
    <2>2. CASE ~OnPath(i, path)
      BY <1>7, <1>10, <2>2
    <2> QED
      BY <2>1, <2>2
  <1>12. \A i \in 1 .. Len(s) : \E j \in 1 .. Len(s) : p[j] = i
    <2> SUFFICES ASSUME NEW i \in 1 .. Len(s) PROVE \E j \in 1 .. Len(s) : p[j] = i
      OBVIOUS
    <2>1. CASE OnPath(i, path)
      <3>1. PICK k \in 1 .. n : path[k] = i
        BY <1>4, <2>1
      <3>2. PICK l \in 1 .. n : next(l) = k
        <4>1. CASE k = 1
          BY <1>2, <4>1
        <4>2. CASE k # 1
          <5>1. k - 1 \in 1 .. n /\ next(k - 1) = k
            BY <1>2, <4>2
          <5> QED
            BY <5>1
        <4> QED
          BY <4>1, <4>2
      <3> QED
        BY <1>2, <1>6, <3>1, <3>2
    <2>2. CASE ~OnPath(i, path)
      BY <1>7, <2>2
    <2> QED
      BY <2>1, <2>2
  <1>13. /\ DOMAIN t = DOMAIN u
         /\ p \in [DOMAIN u -> DOMAIN u]
         /\ \A i \in DOMAIN u : t[i] = u[p[i]]
         /\ \A i, j \in DOMAIN u : p[i] = p[j] => i = j
         /\ \A i \in DOMAIN u : \E j \in DOMAIN u : p[j] = i
    BY <1>2, <1>3, <1>8, <1>9, <1>11, <1>12, Zenon DEF n, t
  <1>14. Rearranged(t, u)
    BY <1>13, Zenon DEF Rearranged
  <1> QED
    BY <1>14 DEF t, u

-----------------------------------------------------------------------------
(* Ranking *)

\* Among the orders in S "ranks lower" is a strict weak order, which is what the
\* heap algorithms ask of the comparison they are given.
Ranked(S) ==
  /\ \A a, b \in S : RanksLower(a, b) => ~RanksLower(b, a)
  /\ \A a, b, c \in S : ~RanksLower(a, b) /\ ~RanksLower(b, c) => ~RanksLower(a, c)

\* Two prices are equal or at least Tolerance apart.  Otherwise three prices can
\* be pairwise equal but for the outer two, and operator< is no weak order.
Apart(P) == \A a, b \in P : a # b => a - b >= Tolerance \/ b - a >= Tolerance

\* An order as far as the ranking looks at it.
Ranks(o, side, P) == o.side = side /\ o.price \in P /\ o.timestamp \in Int

LEMMA SideIsRanked ==
  ASSUME NEW P \in SUBSET Int, Apart(P), NEW side, NEW S, \A o \in S : Ranks(o, side, P)
  PROVE  Ranked(S)
  <1>1. \A o \in S : /\ o.side = side /\ o.price \in P
                     /\ o.price \in Int /\ o.timestamp \in Int
    BY DEF Ranks
  <1>2. \A p, q \in P : p # q => p - q >= Tolerance \/ q - p >= Tolerance
    BY DEF Apart
  <1> DEFINE Lower(a, b) == \/ a.price = b.price /\ a.timestamp > b.timestamp
                            \/ a.price < b.price /\ side = "BUY"
                            \/ a.price > b.price /\ side # "BUY"
  <1>3. ASSUME NEW a \in S, NEW b \in S
        PROVE  RanksLower(a, b) <=> Lower(a, b)
    <2>1. SillyEqual(a, b) <=> a.price = b.price
      <3>1. CASE a.price = b.price
        BY <1>1, <3>1, ToleranceAssumption DEF SillyEqual
      <3>2. CASE a.price # b.price
        <4>1. a.price - b.price >= Tolerance \/ b.price - a.price >= Tolerance
          BY <1>1, <1>2, <3>2
        <4> QED
          BY <1>1, <3>2, <4>1, ToleranceAssumption DEF SillyEqual
      <3> QED
        BY <3>1, <3>2
    <2> QED
      BY <1>1, <2>1 DEF RanksLower
  <1>4. \A a, b \in S : Lower(a, b) => ~Lower(b, a)
    BY <1>1
  <1>5. \A a, b, c \in S : ~Lower(a, b) /\ ~Lower(b, c) => ~Lower(a, c)
    BY <1>1
  <1> HIDE DEF Lower
  <1> QED
    BY <1>3, <1>4, <1>5 DEF Ranked

-----------------------------------------------------------------------------
(* Heap order *)

\* s is a heap at top and below.
HeapFrom(s, top) ==
  \A x \in 2 .. Len(s) : x \div 2 >= top => ~RanksLower(s[x \div 2], s[x])

\* The same, but for the element at the hole.
HeapBut(s, top, hole) ==
  \A x \in 2 .. Len(s) :
    x \div 2 >= top /\ x # hole => ~RanksLower(s[x \div 2], s[x])

LEMMA HeapFromTop ==
  ASSUME NEW S, NEW s \in Seq(S)
  PROVE  IsHeap(s) <=> HeapFrom(s, 1)
  BY DEF IsHeap, HeapFrom

\* The path of __push_heap visits no position twice.
LEMMA UpPathIsPath ==
  ASSUME NEW S, NEW s \in Seq(S), NEW v, NEW hole \in DOMAIN s, NEW top \in Nat \ {0},
         NEW p, IsUpPath(p, s, hole, top, v)
  PROVE  IsPath(p, s)
  <1>1. /\ p \in Seq(1 .. hole) /\ Len(p) > 0
        /\ \A j, k \in 1 .. Len(p) : j < k => p[k] < p[j]
    BY DEF IsUpPath
  <1>2. p \in Seq(DOMAIN s) /\ Len(p) \in Nat /\ \A k \in 1 .. Len(p) : p[k] \in Nat
    BY <1>1
  <1>3. \A j, k \in 1 .. Len(p) : p[j] = p[k] => j = k
    BY <1>1, <1>2
  <1> QED
    BY <1>1, <1>2, <1>3 DEF IsPath

\* v goes up from a childless hole until its parent is not outranked: a heap.
LEMMA UpShiftHeap ==
  ASSUME NEW S, Ranked(S), NEW s \in Seq(S), NEW v \in S,
         NEW hole \in 1 .. Len(s), NEW top \in Nat \ {0},
         2 * hole > Len(s), HeapBut(s, top, hole),
         NEW p, IsUpPath(p, s, hole, top, v), \A k \in 1 .. Len(p) : p[k] >= top
  PROVE  HeapFrom(Shift(s, p, v), top)
  <1> DEFINE n == Len(p)
             N == Len(s)
             t == Shift(s, p, v)
  <1>1. IsPath(p, s)
    BY UpPathIsPath
  <1>2. /\ t \in Seq(S) /\ Len(t) = N
        /\ \A k \in 1 .. n - 1 : t[p[k]] = s[p[k + 1]]
        /\ t[p[n]] = v
        /\ \A i \in 1 .. N : ~OnPath(i, p) => t[i] = s[i]
    BY <1>1, ShiftAlong
  <1>3. /\ n \in Nat \ {0} /\ N \in Nat /\ p[1] = hole
        /\ \A k \in 1 .. n : p[k] \in 1 .. N /\ p[k] >= top
    BY <1>1 DEF IsUpPath, IsPath
  <1> HIDE DEF n, N, t
  <1>4. \A k \in 1 .. n - 1 : /\ k + 1 \in 1 .. n /\ p[k] > top
                              /\ p[k + 1] = p[k] \div 2 /\ RanksLower(s[p[k + 1]], v)
    <2>1. \A k \in 1 .. n - 1 :
            p[k] > top /\ p[k + 1] = p[k] \div 2 /\ RanksLower(s[p[k + 1]], v)
      BY DEF IsUpPath, n
    <2> QED
      BY <1>3, <2>1
  <1>5. p[n] > top => ~RanksLower(s[p[n] \div 2], v)
    BY DEF IsUpPath, n
  <1>6. \A j, k \in 1 .. n : j < k => p[k] < p[j]
    BY DEF IsUpPath, n
  <1>7. \A i \in 1 .. N : OnPath(i, p) <=> \E k \in 1 .. n : p[k] = i
    BY DEF OnPath, n
  <1>8. \A i \in 1 .. N : s[i] \in S
    BY DEF N
  <1>9. \A x \in 2 .. N : x \div 2 >= top /\ x # hole => ~RanksLower(s[x \div 2], s[x])
    BY DEF HeapBut, N
  <1>10. /\ \A a, b \in S : RanksLower(a, b) => ~RanksLower(b, a)
         /\ \A a, b, c \in S : ~RanksLower(a, b) /\ ~RanksLower(b, c) => ~RanksLower(a, c)
    BY DEF Ranked
  <1> SUFFICES ASSUME NEW x \in 2 .. N, x \div 2 >= top
               PROVE  ~RanksLower(t[x \div 2], t[x])
    BY <1>2, Zenon DEF HeapFrom, N, t
  <1> DEFINE y == x \div 2
  <1>11. /\ y \in 1 .. N /\ y < x /\ x \in 1 .. N /\ y >= top
         /\ 2 * y <= x /\ y = x \div 2
    BY <1>3
  <1> HIDE DEF y
  <1>12. CASE OnPath(x, p)
    <2>1. PICK k \in 1 .. n : p[k] = x
      BY <1>7, <1>11, <1>12
    <2>2. CASE k = n
      <3>1. t[x] = v /\ ~RanksLower(s[y], v)
        BY <1>2, <1>3, <1>5, <1>11, <2>1, <2>2
      <3>2. \A l \in 1 .. n : p[l] >= x
        BY <1>3, <1>6, <2>1, <2>2
      <3>3. ~OnPath(y, p)
        BY <1>7, <1>11, <3>2
      <3> QED
        BY <1>2, <1>11, <3>1, <3>3
    <2>3. CASE k # n
      <3>1. k \in 1 .. n - 1 /\ p[k + 1] = y /\ t[x] = s[y] /\ k + 1 \in 1 .. n
        BY <1>2, <1>3, <1>4, <1>11, <2>1, <2>3
      <3>2. CASE k + 1 = n
        <4>1. t[y] = v /\ RanksLower(s[y], v)
          BY <1>2, <1>4, <3>1, <3>2
        <4> QED
          BY <1>8, <1>10, <1>11, <3>1, <4>1
      <3>3. CASE k + 1 # n
        <4>1. k + 1 \in 1 .. n - 1
          BY <1>3, <3>1, <3>3
        <4>2. t[y] = s[y \div 2] /\ p[(k + 1) + 1] = y \div 2 /\ (k + 1) + 1 \in 1 .. n
          BY <1>2, <1>4, <3>1, <4>1
        <4>3. y \div 2 >= top /\ y \in 2 .. N /\ y # hole
          BY <1>3, <1>6, <1>11, <3>1, <4>2
        <4> QED
          BY <1>9, <1>11, <3>1, <4>2, <4>3
      <3> QED
        BY <3>2, <3>3
    <2> QED
      BY <2>2, <2>3
  <1>13. CASE ~OnPath(x, p)
    <2>1. t[x] = s[x] /\ x # hole
      BY <1>2, <1>3, <1>7, <1>11, <1>13
    <2>2. ~RanksLower(s[y], s[x])
      BY <1>9, <1>11, <2>1
    <2>3. CASE ~OnPath(y, p)
      BY <1>2, <1>11, <2>1, <2>2, <2>3
    <2>4. CASE OnPath(y, p)
      <3>1. PICK k \in 1 .. n : p[k] = y
        BY <1>7, <1>11, <2>4
      <3>3. k # 1
        BY <1>3, <1>11, <3>1 DEF N
      <3>4. y # hole
        BY <1>3, <1>11 DEF N
      <3>5. CASE k = n
        <4>1. t[y] = v
          BY <1>2, <3>1, <3>5
        <4>2. k - 1 \in 1 .. n - 1 /\ (k - 1) + 1 = k
          BY <1>3, <3>3
        <4>3. RanksLower(s[y], v)
          BY <1>4, <3>1, <4>2
        <4> QED
          BY <1>8, <1>10, <1>11, <2>1, <2>2, <4>1, <4>3
      <3>6. CASE k # n
        <4>1. k \in 1 .. n - 1
          BY <1>3, <3>6
        <4>2. t[y] = s[y \div 2] /\ p[k + 1] = y \div 2 /\ k + 1 \in 1 .. n
          BY <1>2, <1>4, <3>1, <4>1
        <4>3. y \div 2 >= top /\ y \in 2 .. N /\ y \div 2 \in 1 .. N
          BY <1>3, <1>11, <4>2
        <4>4. ~RanksLower(s[y \div 2], s[y])
          BY <1>9, <3>4, <4>3
        <4> QED
          BY <1>8, <1>10, <1>11, <2>1, <2>2, <4>2, <4>3, <4>4
      <3> QED
        BY <3>5, <3>6
    <2> QED
      BY <2>3, <2>4
  <1> QED
    BY <1>11, <1>12, <1>13

-----------------------------------------------------------------------------
(* The way down *)

\* What DownPath returns: from i to greater child to greater child, to a leaf.
IsDownPath(d, s, i) ==
  /\ d \in Seq(i .. Len(s)) /\ Len(d) > 0 /\ d[1] = i
  /\ \A k \in 1 .. Len(d) - 1 : 2 * d[k] <= Len(s) /\ d[k + 1] = GreaterChild(s, d[k])
  /\ \A j, k \in 1 .. Len(d) : j < k => d[j] < d[k]
  /\ 2 * d[Len(d)] > Len(s)

\* The recursion in DownPath.
DownFunction(down, s, hole) ==
  down = [i \in hole .. Len(s) |-> IF 2 * i > Len(s) THEN <<i>>
                                   ELSE <<i>> \o down[GreaterChild(s, i)]]

LEMMA GreaterChildBounds ==
  ASSUME NEW S, NEW s \in Seq(S), NEW i \in Nat \ {0}, 2 * i <= Len(s)
  PROVE  /\ GreaterChild(s, i) \in i + 1 .. Len(s)
         /\ GreaterChild(s, i) \div 2 = i
  BY DEF GreaterChild

\* No child outranks the greater one.
LEMMA GreaterChildGreatest ==
  ASSUME NEW S, Ranked(S), NEW s \in Seq(S), NEW x \in 2 .. Len(s)
  PROVE  ~RanksLower(s[GreaterChild(s, x \div 2)], s[x])
  <1> DEFINE i == x \div 2
  <1>1. /\ i \in Nat \ {0} /\ Len(s) \in Nat
        /\ x = 2 * i \/ x = 2 * i + 1
        /\ \A k \in 1 .. Len(s) : s[k] \in S
    BY Parent
  <1> HIDE DEF i
  <1>2. \A k \in 1 .. Len(s) : ~RanksLower(s[k], s[k])
    BY <1>1 DEF Ranked
  <1>3. CASE x = 2 * i
    <2>1. CASE 2 * i + 1 <= Len(s) /\ ~RanksLower(s[2 * i + 1], s[2 * i])
      BY <1>3, <2>1 DEF GreaterChild, i
    <2>2. CASE ~(2 * i + 1 <= Len(s) /\ ~RanksLower(s[2 * i + 1], s[2 * i]))
      BY <1>2, <1>3, <2>2 DEF GreaterChild, i
    <2> QED
      BY <2>1, <2>2
  <1>4. CASE x = 2 * i + 1
    <2>1. 2 * i \in 1 .. Len(s) /\ 2 * i + 1 \in 1 .. Len(s)
      BY <1>1, <1>4
    <2>2. CASE RanksLower(s[2 * i + 1], s[2 * i])
      <3>1. ~RanksLower(s[2 * i], s[2 * i + 1])
        BY <1>1, <2>1, <2>2 DEF Ranked
      <3> QED
        BY <1>4, <2>2, <3>1 DEF GreaterChild, i
    <2>3. CASE ~RanksLower(s[2 * i + 1], s[2 * i])
      BY <1>2, <1>4, <2>1, <2>3 DEF GreaterChild, i
    <2> QED
      BY <2>2, <2>3
  <1> QED
    BY <1>1, <1>3, <1>4

LEMMA DownPathDefined ==
  ASSUME NEW S, NEW s \in Seq(S), NEW hole \in 1 .. Len(s)
  PROVE  \E down : DownFunction(down, s, hole) /\ DownPath(s, hole) = down[hole]
  <1> DEFINE N == Len(s)
             child(i) == GreaterChild(s, i)
             e(g, i) == IF 2 * i > N THEN <<i>> ELSE <<i>> \o g[child(i)]
             From(l) == \E g : g = [i \in l .. N |-> e(g, i)]
             T == {n \in Nat : n <= N => From(N + 1 - n)}
  <1>1. N \in Nat
    OBVIOUS
  <1>2. \A i \in 1 .. N : 2 * i <= N => child(i) \in i + 1 .. N
    BY GreaterChildBounds
  <1> HIDE DEF N, child
  <1>3. From(N + 1)
    <2> DEFINE g == [i \in N + 1 .. N |-> 0]
    <2>1. g = [i \in N + 1 .. N |-> e(g, i)]
      BY <1>1
    <2> QED
      BY <2>1
  <1>4. ASSUME NEW l \in 1 .. N, From(l + 1) PROVE From(l)
    <2>1. PICK g : g = [i \in l + 1 .. N |-> e(g, i)]
      BY <1>4
    <2> DEFINE h == [i \in l .. N |-> IF i \in l + 1 .. N THEN g[i] ELSE e(g, i)]
    <2>2. ASSUME NEW i \in l .. N PROVE e(h, i) = e(g, i)
      <3>1. CASE 2 * i > N
        BY <3>1
      <3>2. CASE ~(2 * i > N)
        <4>1. i \in 1 .. N /\ 2 * i <= N
          BY <1>1, <3>2
        <4>2. child(i) \in i + 1 .. N
          BY <1>2, <4>1
        <4>3. child(i) \in l + 1 .. N
          BY <1>1, <4>2
        <4>4. h[child(i)] = g[child(i)]
          BY <1>1, <4>3
        <4> HIDE DEF h
        <4> QED
          BY <4>4
      <3> QED
        BY <3>1, <3>2
    <2>3. \A i \in l .. N : h[i] = e(g, i)
      BY <1>1, <2>1
    <2>4. h = [i \in l .. N |-> e(h, i)]
      BY <2>2, <2>3
    <2> HIDE DEF h
    <2> QED
      BY <2>4
  <1> HIDE DEF From
  <1>5. 0 \in T
    BY <1>1, <1>3
  <1>6. ASSUME NEW n \in T \cap Nat PROVE n + 1 \in T
    <2> SUFFICES ASSUME n + 1 <= N PROVE From(N + 1 - (n + 1))
      OBVIOUS
    <2>1. /\ N + 1 - (n + 1) \in 1 .. N /\ N + 1 - (n + 1) + 1 = N + 1 - n
          /\ n <= N
      BY <1>1
    <2> QED
      BY <1>4, <2>1
  <1>7. N + 1 - hole \in T
    <2>1. N + 1 - hole \in Nat
      BY <1>1 DEF N
    <2> HIDE DEF T
    <2> QED
      BY <1>5, <1>6, <2>1, SetInduction
  <1>8. From(hole)
    <2>1. N + 1 - (N + 1 - hole) = hole /\ N + 1 - hole <= N
      BY <1>1 DEF N
    <2> QED
      BY <1>7, <2>1
  <1> DEFINE down == CHOOSE g : g = [i \in hole .. N |-> e(g, i)]
  <1>9. down = [i \in hole .. N |-> e(down, i)]
    BY <1>8 DEF From
  <1>10. DownPath(s, hole) = down[hole]
    BY DEF DownPath, N, child
  <1> HIDE DEF down
  <1> QED
    BY <1>9, <1>10 DEF DownFunction, N, child

\* A path from the greater child of i, begun at i.
LEMMA DownPathStep ==
  ASSUME NEW S, NEW s \in Seq(S), NEW i \in Nat \ {0}, 2 * i <= Len(s),
         NEW q, IsDownPath(q, s, GreaterChild(s, i)), NEW d, d = <<i>> \o q
  PROVE  IsDownPath(d, s, i)
  <1> DEFINE N == Len(s)
             j == GreaterChild(s, i)
  <1>1. N \in Nat /\ j \in i + 1 .. N /\ i \in i .. N
    BY GreaterChildBounds
  <1>2. q \in Seq(j .. N) /\ Len(q) > 0 /\ q[1] = j /\ 2 * q[Len(q)] > N
    BY Zenon DEF IsDownPath
  <1>3. \A k \in 1 .. Len(q) - 1 : 2 * q[k] <= N /\ q[k + 1] = GreaterChild(s, q[k])
    BY DEF IsDownPath
  <1>4. \A k, l \in 1 .. Len(q) : k < l => q[k] < q[l]
    BY DEF IsDownPath
  <1>5. 2 * i <= N
    OBVIOUS
  <1> HIDE DEF N, j
  <1>6. q \in Seq(i .. N) /\ Len(q) \in Nat /\ \A k \in 1 .. Len(q) : q[k] \in j .. N
    <2>1. j .. N \subseteq i .. N
      BY <1>1
    <2>2. Len(q) \in Nat /\ \A k \in 1 .. Len(q) : q[k] \in j .. N
      BY <1>2, SeqMembers, Zenon
    <2>3. q \in Seq(i .. N)
      BY <1>2, <2>1, SeqWider, Zenon
    <2> QED
      BY <2>2, <2>3
  <1>7. /\ d \in Seq(i .. N) /\ Len(d) = Len(q) + 1 /\ d[1] = i
        /\ \A k \in 1 .. Len(q) : d[k + 1] = q[k]
    BY <1>1, <1>6, Prepend
  <1>8. \A k \in 2 .. Len(d) : k - 1 \in 1 .. Len(q) /\ d[k] = q[k - 1]
    BY <1>6, <1>7
  <1>9. ASSUME NEW k \in 1 .. Len(d) - 1
        PROVE  2 * d[k] <= N /\ d[k + 1] = GreaterChild(s, d[k])
    <2>1. CASE k = 1
      <3>1. 1 \in 1 .. Len(q) /\ d[1 + 1] = q[1] /\ q[1] = j /\ d[1] = i
        BY <1>2, <1>6, <1>7
      <3> QED
        BY <1>5, <2>1, <3>1 DEF j
    <2>2. CASE k # 1
      <3>1. k - 1 \in 1 .. Len(q) - 1 /\ d[k] = q[k - 1] /\ d[k + 1] = q[(k - 1) + 1]
        BY <1>6, <1>7, <1>8, <2>2
      <3> QED
        BY <1>3, <3>1
    <2> QED
      BY <2>1, <2>2
  <1>10. ASSUME NEW k \in 1 .. Len(d), NEW l \in 1 .. Len(d), k < l PROVE d[k] < d[l]
    <2>1. l - 1 \in 1 .. Len(q) /\ d[l] = q[l - 1]
      BY <1>6, <1>7, <1>8, <1>10
    <2>2. CASE k = 1
      <3>1. d[k] = i /\ d[l] \in j .. N
        BY <1>6, <1>7, <2>1, <2>2
      <3> QED
        BY <1>1, <3>1
    <2>3. CASE k # 1
      <3>1. k - 1 \in 1 .. Len(q) /\ d[k] = q[k - 1] /\ k - 1 < l - 1
        BY <1>6, <1>7, <1>8, <1>10, <2>3
      <3> QED
        BY <1>4, <2>1, <3>1
    <2> QED
      BY <2>2, <2>3
  <1>11. Len(d) > 0 /\ 2 * d[Len(d)] > N
    BY <1>2, <1>6, <1>7
  <1> QED
    BY <1>7, <1>9, <1>10, <1>11, Zenon DEF IsDownPath, N, j

LEMMA DownPathShape ==
  ASSUME NEW S, NEW s \in Seq(S), NEW hole \in 1 .. Len(s)
  PROVE  IsDownPath(DownPath(s, hole), s, hole)
  <1>1. PICK down : DownFunction(down, s, hole) /\ DownPath(s, hole) = down[hole]
    BY DownPathDefined
  <1> DEFINE N == Len(s)
             Good(i) == IsDownPath(down[i], s, i)
             T == {n \in Nat : N - n \in hole .. N => Good(N - n)}
  <1>2. N \in Nat /\ hole \in 1 .. N
    OBVIOUS
  <1>3. ASSUME NEW i \in hole .. N, \A j \in i + 1 .. N : Good(j)
        PROVE  Good(i)
    <2>1. CASE 2 * i > N
      <3>1. down[i] = <<i>>
        BY <1>1, <2>1 DEF DownFunction
      <3> QED
        BY <1>2, <2>1, <3>1 DEF IsDownPath
    <2>2. CASE ~(2 * i > N)
      <3>1. i \in Nat \ {0} /\ 2 * i <= Len(s)
        BY <1>2, <2>2
      <3>2. GreaterChild(s, i) \in i + 1 .. N
        BY <3>1, GreaterChildBounds
      <3>3. Good(GreaterChild(s, i))
        BY <1>3, <3>2
      <3>4. down[i] = <<i>> \o down[GreaterChild(s, i)]
        BY <1>1, <2>2 DEF DownFunction
      <3> QED
        BY <3>1, <3>3, <3>4, DownPathStep, Zenon
    <2> QED
      BY <2>1, <2>2
  <1> HIDE DEF Good, N
  <1>4. ASSUME NEW n \in Nat, \A m \in Nat : m < n => m \in T PROVE n \in T
    <2> SUFFICES ASSUME N - n \in hole .. N PROVE Good(N - n)
      OBVIOUS
    <2>1. ASSUME NEW j \in N - n + 1 .. N PROVE Good(j)
      <3>1. N - j \in Nat /\ N - j < n /\ N - (N - j) = j /\ j \in hole .. N
        BY <1>2
      <3> QED
        BY <1>4, <3>1
    <2> QED
      BY <1>3, <2>1
  <1>5. N - hole \in T
    <2>1. N - hole \in Nat
      BY <1>2
    <2> HIDE DEF T
    <2> QED
      BY <1>4, <2>1, StrongInduction
  <1>6. Good(hole)
    <2>1. N - (N - hole) = hole /\ hole \in hole .. N
      BY <1>2
    <2> QED
      BY <1>5, <2>1
  <1> QED
    BY <1>1, <1>6 DEF Good

\* The hole has gone down to a leaf: below top only the leaf may be out of order.
LEMMA LoweredHeap ==
  ASSUME NEW S, Ranked(S), NEW s \in Seq(S), NEW v \in S,
         NEW hole \in 1 .. Len(s), HeapFrom(s, hole + 1),
         NEW d, IsDownPath(d, s, hole)
  PROVE  /\ IsPath(d, s)
         /\ HeapBut(Shift(s, d, v), hole, d[Len(d)])
  <1> DEFINE n == Len(d)
             N == Len(s)
             t == Shift(s, d, v)
  <1>1. d \in Seq(hole .. N) /\ n > 0 /\ d[1] = hole /\ 2 * d[n] > N
    BY DEF IsDownPath
  <1>2. \A k \in 1 .. n - 1 : 2 * d[k] <= N /\ d[k + 1] = GreaterChild(s, d[k])
    BY DEF IsDownPath
  <1>3. \A j, k \in 1 .. n : j < k => d[j] < d[k]
    BY DEF IsDownPath
  <1>4. n \in Nat \ {0} /\ N \in Nat /\ \A k \in 1 .. n : d[k] \in hole .. N
    BY <1>1
  <1>5. IsPath(d, s)
    <2>1. DOMAIN s = 1 .. N /\ hole .. N \subseteq 1 .. N
      BY <1>4
    <2>2. d \in Seq(DOMAIN s)
      BY <1>1, <2>1
    <2>3. \A j, k \in 1 .. n : d[j] = d[k] => j = k
      BY <1>3, <1>4
    <2> QED
      BY <1>1, <2>2, <2>3 DEF IsPath
  <1>6. /\ t \in Seq(S) /\ Len(t) = N
        /\ \A k \in 1 .. n - 1 : t[d[k]] = s[d[k + 1]]
        /\ \A i \in 1 .. N : ~OnPath(i, d) => t[i] = s[i]
    BY <1>5, ShiftAlong
  <1>7. \A i \in 1 .. N : OnPath(i, d) <=> \E k \in 1 .. n : d[k] = i
    BY DEF OnPath
  <1>8. \A x \in 2 .. N : x \div 2 >= hole + 1 => ~RanksLower(s[x \div 2], s[x])
    BY DEF HeapFrom
  <1>9. \A x \in 2 .. N : ~RanksLower(s[GreaterChild(s, x \div 2)], s[x])
    BY GreaterChildGreatest
  <1>10. \A k \in 1 .. n - 1 : d[k + 1] \div 2 = d[k]
    <2>1. \A k \in 1 .. n - 1 : d[k] \in Nat \ {0} /\ 2 * d[k] <= Len(s)
      BY <1>2, <1>4
    <2> QED
      BY <1>2, <2>1, GreaterChildBounds
  <1> HIDE DEF n, N, t
  <1> SUFFICES ASSUME NEW x \in 2 .. N, x \div 2 >= hole, x # d[n]
               PROVE  ~RanksLower(t[x \div 2], t[x])
    BY <1>5, <1>6, Zenon DEF HeapBut, n, N, t
  <1> DEFINE y == x \div 2
  <1>11. /\ y \in 1 .. N /\ y < x /\ x \in 1 .. N /\ y >= hole
         /\ 2 * y <= x /\ y = x \div 2
    BY <1>4
  <1> HIDE DEF y
  <1>12. CASE OnPath(x, d)
    <2>1. PICK k \in 1 .. n : d[k] = x
      BY <1>7, <1>11, <1>12
    <2>2. k \in 1 .. n - 1 /\ k # 1
      BY <1>1, <1>4, <1>11, <2>1
    <2>3. /\ k - 1 \in 1 .. n - 1 /\ (k - 1) + 1 = k
          /\ k + 1 \in 1 .. n
      BY <1>4, <2>2
    <2>4. d[k - 1] = y
      BY <1>10, <1>11, <2>1, <2>3
    <2>5. t[x] = s[d[k + 1]] /\ t[y] = s[x]
      BY <1>6, <2>1, <2>2, <2>3, <2>4
    <2>6. d[k + 1] \div 2 = x /\ x >= hole + 1 /\ d[k + 1] \in 2 .. N
      BY <1>3, <1>4, <1>10, <1>11, <2>1, <2>2, <2>3
    <2> QED
      BY <1>8, <1>11, <2>5, <2>6
  <1>13. CASE ~OnPath(x, d)
    <2>1. t[x] = s[x]
      BY <1>6, <1>11, <1>13
    <2>2. CASE OnPath(y, d)
      <3>1. PICK k \in 1 .. n : d[k] = y
        BY <1>7, <1>11, <2>2
      <3>2. k \in 1 .. n - 1
        BY <1>1, <1>4, <1>11, <3>1
      <3>3. t[y] = s[GreaterChild(s, y)]
        BY <1>2, <1>6, <3>1, <3>2
      <3> QED
        BY <1>9, <1>11, <2>1, <3>3
    <2>3. CASE ~OnPath(y, d)
      <3>1. t[y] = s[y]
        BY <1>6, <1>11, <2>3
      <3>2. y # hole
        BY <1>1, <1>4, <1>7, <1>11, <2>3
      <3> QED
        BY <1>4, <1>8, <1>11, <2>1, <3>1, <3>2
    <2> QED
      BY <2>2, <2>3
  <1> QED
    BY <1>11, <1>12, <1>13

-----------------------------------------------------------------------------
(* The operations *)

LEMMA Replaced ==
  ASSUME NEW S, NEW s \in Seq(S), NEW i \in 1 .. Len(s), s[i] \in S
  PROVE  [s EXCEPT ![i] = s[i]] = s
  OBVIOUS

\* __adjust_heap puts v into the hole and makes a heap of what is below it.
LEMMA AdjustHeapOrders ==
  ASSUME NEW S, NEW s \in Seq(S), NEW v \in S, NEW hole \in 1 .. Len(s)
  PROVE  /\ AdjustHeap(s, hole, v) \in Seq(S)
         /\ Len(AdjustHeap(s, hole, v)) = Len(s)
         /\ Rearranged(AdjustHeap(s, hole, v), [s EXCEPT ![hole] = v])
         /\ Ranked(S) /\ HeapFrom(s, hole + 1) => HeapFrom(AdjustHeap(s, hole, v), hole)
  <1> DEFINE d == DownPath(s, hole)
             leaf == d[Len(d)]
             t == Shift(s, d, v)
             up == UpPath(t, leaf, hole, v)
             D == {d[k] : k \in 1 .. Len(d)}
  <1>1. IsDownPath(d, s, hole)
    BY DownPathShape
  <1> HIDE DEF d
  <1>2. IsPath(d, s)
    <2>1. d \in Seq(hole .. Len(s)) /\ \A j, k \in 1 .. Len(d) : j < k => d[j] < d[k]
      BY <1>1 DEF IsDownPath
    <2>2. Len(d) \in Nat /\ \A k \in 1 .. Len(d) : d[k] \in hole .. Len(s)
      BY <2>1
    <2>3. \A j, k \in 1 .. Len(d) : d[j] = d[k] => j = k
      BY <2>1, <2>2
    <2>4. hole .. Len(s) \subseteq DOMAIN s
      OBVIOUS
    <2>5. d \in Seq(DOMAIN s)
      BY <2>1, <2>2, <2>4
    <2> QED
      BY <1>1, <2>3, <2>5 DEF IsPath, IsDownPath
  <1>3. /\ t \in Seq(S) /\ Len(t) = Len(s) /\ t[leaf] = v
    BY <1>2, ShiftAlong
  <1>4. /\ Len(d) \in Nat \ {0} /\ d[1] = hole /\ 2 * leaf > Len(s)
        /\ \A k \in 1 .. Len(d) : d[k] \in hole .. Len(s)
    BY <1>1 DEF IsDownPath
  <1>5. leaf \in D /\ leaf \in 1 .. Len(t) /\ leaf \in Nat \ {0} /\ \A i \in D : i \in hole .. Len(t)
    BY <1>3, <1>4
  <1>6. ASSUME NEW i \in D, i > hole PROVE i \div 2 \in D
    <2>1. PICK k \in 1 .. Len(d) : d[k] = i
      OBVIOUS
    <2>2. k # 1
      BY <1>4, <1>6, <2>1
    <2>3. k - 1 \in 1 .. Len(d) - 1 /\ (k - 1) + 1 = k /\ k - 1 \in 1 .. Len(d)
      BY <1>4, <2>2
    <2>4. 2 * d[k - 1] <= Len(s) /\ i = GreaterChild(s, d[k - 1])
      BY <1>1, <2>1, <2>3 DEF IsDownPath
    <2>5. d[k - 1] \in Nat \ {0}
      BY <1>4, <2>3
    <2>6. i \div 2 = d[k - 1]
      BY <2>4, <2>5, GreaterChildBounds
    <2> QED
      BY <2>3, <2>6
  <1>7. IsUpPath(up, t, leaf, hole, v) /\ up \in Seq(D)
    <2>1. hole \in Nat \ {0}
      OBVIOUS
    <2> HIDE DEF D, leaf, t
    <2> QED
      BY <1>5, <1>6, <2>1, UpPathShape
  <1>8. IsPath(up, t) /\ up[1] = leaf
    <2>1. leaf \in DOMAIN t /\ hole \in Nat \ {0}
      BY <1>3, <1>5
    <2> HIDE DEF leaf, up, t
    <2> QED
      BY <1>3, <1>7, <2>1, UpPathIsPath DEF IsUpPath
  <1>9. \A k \in 1 .. Len(up) : up[k] >= hole
    <2>1. \A k \in 1 .. Len(up) : up[k] \in D
      BY <1>7
    <2> HIDE DEF D, up
    <2> QED
      BY <1>5, <2>1
  <1>10. AdjustHeap(s, hole, v) = Shift(t, up, v)
    BY DEF AdjustHeap, d
  <1> HIDE DEF t, up, leaf, D
  <1>11. Shift(t, up, v) \in Seq(S) /\ Len(Shift(t, up, v)) = Len(s)
    BY <1>3, <1>8, ShiftAlong
  <1>12. Rearranged(Shift(t, up, v), [s EXCEPT ![hole] = v])
    <2>1. Rearranged(Shift(t, up, v), [t EXCEPT ![leaf] = v])
      BY <1>3, <1>8, ShiftRearranges
    <2>2. [t EXCEPT ![leaf] = v] = t
      BY <1>3, <1>5, Replaced
    <2>3. Rearranged(t, [s EXCEPT ![hole] = v])
      BY <1>2, <1>4, ShiftRearranges DEF t
    <2> QED
      BY <2>1, <2>2, <2>3, RearrangedTwice
  <1>13. ASSUME Ranked(S), HeapFrom(s, hole + 1)
         PROVE  HeapFrom(Shift(t, up, v), hole)
    <2>1. HeapBut(t, hole, leaf)
      BY <1>1, <1>13, LoweredHeap DEF t, leaf
    <2>2. hole \in Nat \ {0} /\ 2 * leaf > Len(t)
      BY <1>3, <1>4
    <2> QED
      BY <1>3, <1>5, <1>7, <1>9, <1>13, <2>1, <2>2, UpShiftHeap
  <1> QED
    BY <1>10, <1>11, <1>12, <1>13

\* push_back and push_heap: the same elements and v, and a heap stays a heap.
THEOREM PushHeapOrders ==
  ASSUME NEW S, NEW s \in Seq(S), NEW v \in S
  PROVE  /\ PushHeap(s, v) \in Seq(S)
         /\ Len(PushHeap(s, v)) = Len(s) + 1
         /\ Rearranged(PushHeap(s, v), Append(s, v))
         /\ Ranked(S) /\ IsHeap(s) => IsHeap(PushHeap(s, v))
  <1> DEFINE t == Append(s, v)
             hole == Len(t)
             up == UpPath(t, hole, 1, v)
             D == 1 .. hole
  <1>1. /\ t \in Seq(S) /\ Len(t) = Len(s) + 1 /\ Len(s) \in Nat /\ t[hole] = v
        /\ \A i \in 1 .. Len(s) : t[i] = s[i]
    OBVIOUS
  <1>2. PushHeap(s, v) = Shift(t, up, v)
    BY DEF PushHeap
  <1> HIDE DEF t
  <1>3. hole \in Nat \ {0} /\ hole \in 1 .. Len(t) /\ hole \in DOMAIN t /\ 1 \in Nat \ {0}
    BY <1>1
  <1>4. IsUpPath(up, t, hole, 1, v) /\ up \in Seq(D)
    <2>1. hole \in D /\ \A i \in D : i > 1 => i \div 2 \in D
      BY <1>3, Parent
    <2> HIDE DEF D, hole
    <2> QED
      BY <1>3, <2>1, UpPathShape
  <1>5. IsPath(up, t) /\ up[1] = hole
    <2> HIDE DEF hole, up
    <2> QED
      BY <1>1, <1>3, <1>4, UpPathIsPath DEF IsUpPath
  <1>6. \A k \in 1 .. Len(up) : up[k] >= 1
    <2>1. \A k \in 1 .. Len(up) : up[k] \in D
      BY <1>4
    <2> HIDE DEF up, hole
    <2> QED
      BY <1>3, <2>1
  <1> HIDE DEF up, hole
  <1>7. Shift(t, up, v) \in Seq(S) /\ Len(Shift(t, up, v)) = Len(t)
    BY <1>1, <1>5, ShiftAlong
  <1>8. Rearranged(Shift(t, up, v), t)
    <2>1. Rearranged(Shift(t, up, v), [t EXCEPT ![hole] = v])
      BY <1>1, <1>5, ShiftRearranges
    <2>2. [t EXCEPT ![hole] = v] = t
      BY <1>1, <1>3, Replaced
    <2> QED
      BY <2>1, <2>2
  <1>9. ASSUME Ranked(S), IsHeap(s) PROVE IsHeap(Shift(t, up, v))
    <2>1. HeapBut(t, 1, hole)
      BY <1>1, <1>9 DEF HeapBut, IsHeap, hole
    <2>2. 2 * hole > Len(t)
      BY <1>1 DEF hole
    <2>3. HeapFrom(Shift(t, up, v), 1)
      BY <1>1, <1>3, <1>4, <1>6, <1>9, <2>1, <2>2, UpShiftHeap
    <2> QED
      BY <1>7, <2>3, HeapFromTop
  <1> QED
    BY <1>1, <1>2, <1>7, <1>8, <1>9 DEF t

\* t has the elements u has at the positions of D, each once.
Picks(t, u, D) ==
  \E p \in [DOMAIN t -> D] :
    /\ \A i \in DOMAIN t : t[i] = u[p[i]]
    /\ \A i, j \in DOMAIN t : p[i] = p[j] => i = j
    /\ \A i \in D : \E j \in DOMAIN t : p[j] = i

LEMMA RearrangedPicks ==
  ASSUME NEW t, NEW u, Rearranged(t, u)
  PROVE  Picks(t, u, DOMAIN u)
  BY DEF Rearranged, Picks

LEMMA PicksRearranged ==
  ASSUME NEW t, NEW u, NEW w, NEW D, Rearranged(t, u), Picks(u, w, D)
  PROVE  Picks(t, w, D)
  <1>1. PICK p \in [DOMAIN u -> DOMAIN u] :
          /\ \A i \in DOMAIN u : t[i] = u[p[i]]
          /\ \A i, j \in DOMAIN u : p[i] = p[j] => i = j
          /\ \A i \in DOMAIN u : \E j \in DOMAIN u : p[j] = i
    BY DEF Rearranged
  <1>2. PICK q \in [DOMAIN u -> D] :
          /\ \A i \in DOMAIN u : u[i] = w[q[i]]
          /\ \A i, j \in DOMAIN u : q[i] = q[j] => i = j
          /\ \A i \in D : \E j \in DOMAIN u : q[j] = i
    BY DEF Picks
  <1>3. DOMAIN t = DOMAIN u
    BY DEF Rearranged
  <1> DEFINE r == [i \in DOMAIN t |-> q[p[i]]]
  <1>4. r \in [DOMAIN t -> D] /\ \A i \in DOMAIN t : t[i] = w[r[i]]
    BY <1>1, <1>2, <1>3
  <1>5. \A i, j \in DOMAIN t : r[i] = r[j] => i = j
    BY <1>1, <1>2, <1>3
  <1>6. \A i \in D : \E j \in DOMAIN t : r[j] = i
    BY <1>1, <1>2, <1>3
  <1> HIDE DEF r
  <1> QED
    BY <1>4, <1>5, <1>6 DEF Picks

\* What t picks from u: those elements, and no two of them from one position.
LEMMA PicksElements ==
  ASSUME NEW t, NEW u, NEW D, Picks(t, u, D)
  PROVE  Elements(t) = {u[i] : i \in D}
  BY DEF Picks, Elements

\* pop_heap and pop_back: all elements but the front, and a heap stays a heap.
THEOREM PopHeapOrders ==
  ASSUME NEW S, NEW s \in Seq(S), Len(s) > 0
  PROVE  /\ PopHeap(s) \in Seq(S)
         /\ Len(PopHeap(s)) = Len(s) - 1
         /\ Picks(PopHeap(s), s, 2 .. Len(s))
         /\ Ranked(S) /\ IsHeap(s) => IsHeap(PopHeap(s))
  <1> DEFINE N == Len(s)
  <1>1. N \in Nat \ {0} /\ \A i \in 1 .. N : s[i] \in S
    OBVIOUS
  <1>2. CASE N = 1
    <2>1. PopHeap(s) = <<>>
      BY <1>2 DEF PopHeap
    <2>2. Picks(<<>>, s, 2 .. N)
      <3> DEFINE p == [i \in {} |-> i]
      <3>1. DOMAIN <<>> = {} /\ 2 .. N = {}
        BY <1>2
      <3>2. p \in [DOMAIN <<>> -> 2 .. N]
        BY <3>1
      <3> QED
        BY <3>1, <3>2 DEF Picks
    <2> QED
      BY <1>2, <2>1, <2>2 DEF IsHeap
  <1>3. CASE N > 1
    <2> DEFINE r == SubSeq(s, 1, N - 1)
               u == [r EXCEPT ![1] = s[N]]
               t == AdjustHeap(r, 1, s[N])
    <2>1. /\ r \in Seq(S) /\ Len(r) = N - 1 /\ s[N] \in S /\ 1 \in 1 .. Len(r)
          /\ \A i \in 1 .. N - 1 : r[i] = s[i]
      BY <1>1, <1>3
    <2>2. PopHeap(s) = t
      BY <1>1, <1>3 DEF PopHeap
    <2> HIDE DEF r
    <2>3. /\ t \in Seq(S) /\ Len(t) = N - 1 /\ Rearranged(t, u)
          /\ Ranked(S) /\ HeapFrom(r, 1 + 1) => HeapFrom(t, 1)
      BY <2>1, AdjustHeapOrders
    <2>4. DOMAIN u = 1 .. N - 1 /\ u[1] = s[N] /\ \A i \in 2 .. N - 1 : u[i] = s[i]
      BY <1>1, <2>1
    <2> HIDE DEF t, u
    <2>5. Picks(u, s, 2 .. N)
      <3> DEFINE p == [i \in 1 .. N - 1 |-> IF i = 1 THEN N ELSE i]
      <3>1. p \in [DOMAIN u -> 2 .. N]
        BY <1>1, <1>3, <2>4
      <3>2. \A i \in DOMAIN u : u[i] = s[p[i]]
        BY <1>1, <2>4
      <3>3. \A i, j \in DOMAIN u : p[i] = p[j] => i = j
        BY <1>1, <2>4
      <3>4. \A i \in 2 .. N : \E j \in DOMAIN u : p[j] = i
        <4> SUFFICES ASSUME NEW i \in 2 .. N PROVE \E j \in DOMAIN u : p[j] = i
          OBVIOUS
        <4>1. CASE i = N
          BY <1>1, <1>3, <2>4, <4>1
        <4>2. CASE i # N
          BY <1>1, <2>4, <4>2
        <4> QED
          BY <4>1, <4>2
      <3> HIDE DEF p
      <3> QED
        BY <3>1, <3>2, <3>3, <3>4 DEF Picks
    <2>6. Picks(t, s, 2 .. N)
      BY <2>3, <2>5, PicksRearranged
    <2>7. ASSUME IsHeap(s) PROVE HeapFrom(r, 1 + 1)
      <3> SUFFICES ASSUME NEW x \in 2 .. N - 1, x \div 2 >= 2
                   PROVE  ~RanksLower(r[x \div 2], r[x])
        BY <2>1 DEF HeapFrom
      <3>1. x \in 2 .. N /\ x \in 1 .. N - 1 /\ x \div 2 \in 1 .. N - 1
        BY <1>1
      <3>2. r[x] = s[x] /\ r[x \div 2] = s[x \div 2]
        BY <2>1, <3>1
      <3>3. ~RanksLower(s[x \div 2], s[x])
        BY <2>7, <3>1 DEF IsHeap
      <3> QED
        BY <3>2, <3>3
    <2>8. HeapFrom(t, 1) => IsHeap(t)
      BY <2>3, HeapFromTop
    <2> QED
      BY <2>2, <2>3, <2>6, <2>7, <2>8
  <1>4. N = 1 \/ N > 1
    <2> HIDE DEF N
    <2> QED
      BY <1>1
  <1> QED
    BY <1>2, <1>3, <1>4, Zenon

\* make_heap: the same elements, as a heap whatever their order was.
THEOREM MakeHeapOrders ==
  ASSUME NEW S, NEW s \in Seq(S)
  PROVE  /\ MakeHeap(s) \in Seq(S)
         /\ Len(MakeHeap(s)) = Len(s)
         /\ Rearranged(MakeHeap(s), s)
         /\ Ranked(S) => IsHeap(MakeHeap(s))
  <1> DEFINE half == Len(s) \div 2
             e(g, p) == IF p > half THEN s ELSE AdjustHeap(g[p + 1], p, g[p + 1][p])
             From(l) == \E g : g = [p \in l .. half + 1 |-> e(g, p)]
  <1>1. /\ Len(s) \in Nat /\ half \in Nat /\ half <= Len(s)
        /\ \A x \in 2 .. Len(s) : x \div 2 <= half
    OBVIOUS
  <1> HIDE DEF half
  <1>2. From(half + 1)
    <2> DEFINE g == [p \in half + 1 .. half + 1 |-> s]
    <2>1. g = [p \in half + 1 .. half + 1 |-> e(g, p)]
      BY <1>1
    <2> HIDE DEF g
    <2> QED
      BY <2>1
  <1>3. ASSUME NEW l \in 1 .. half, From(l + 1) PROVE From(l)
    <2>1. PICK g : g = [p \in l + 1 .. half + 1 |-> e(g, p)]
      BY <1>3
    <2> DEFINE h == [p \in l .. half + 1 |-> IF p = l THEN e(g, p) ELSE g[p]]
    <2>2. ASSUME NEW p \in l .. half + 1 PROVE e(h, p) = e(g, p)
      <3>1. CASE p > half
        BY <3>1
      <3>2. CASE ~(p > half)
        <4>1. h[p + 1] = g[p + 1]
          BY <1>1, <3>2
        <4> HIDE DEF h
        <4> QED
          BY <4>1
      <3> QED
        BY <3>1, <3>2
    <2>3. \A p \in l .. half + 1 : h[p] = e(g, p)
      <3> SUFFICES ASSUME NEW p \in l .. half + 1 PROVE h[p] = e(g, p)
        OBVIOUS
      <3>1. CASE p = l
        BY <3>1
      <3>2. CASE p # l
        BY <1>1, <2>1, <3>2
      <3> QED
        BY <3>1, <3>2
    <2>4. h = [p \in l .. half + 1 |-> e(h, p)]
      BY <2>2, <2>3
    <2> HIDE DEF h
    <2> QED
      BY <2>4
  <1> HIDE DEF From
  <1> DEFINE T == {n \in Nat : n <= half => From(half + 1 - n)}
  <1>4. 0 \in T
    BY <1>1, <1>2
  <1>5. ASSUME NEW n \in T \cap Nat PROVE n + 1 \in T
    <2> SUFFICES ASSUME n + 1 <= half PROVE From(half + 1 - (n + 1))
      OBVIOUS
    <2>1. /\ half + 1 - (n + 1) \in 1 .. half /\ half + 1 - (n + 1) + 1 = half + 1 - n
          /\ n <= half
      BY <1>1
    <2> QED
      BY <1>3, <2>1
  <1>6. From(1)
    <2>1. Nat \subseteq T
      <3> HIDE DEF T
      <3> QED
        BY <1>4, <1>5, SetInduction
    <2>2. half \in T /\ half + 1 - half = 1 /\ half <= half
      BY <1>1, <2>1
    <2> QED
      BY <2>2
  <1> DEFINE made == CHOOSE g : g = [p \in 1 .. half + 1 |-> e(g, p)]
  <1>7. made = [p \in 1 .. half + 1 |-> e(made, p)]
    BY <1>6 DEF From
  <1>8. MakeHeap(s) = made[1]
    BY DEF MakeHeap, half
  <1> HIDE DEF made
  <1> DEFINE Good(p) == /\ made[p] \in Seq(S) /\ Len(made[p]) = Len(s)
                        /\ Rearranged(made[p], s)
                        /\ Ranked(S) => HeapFrom(made[p], p)
  <1>9. Good(half + 1)
    <2>1. made[half + 1] = s
      BY <1>1, <1>7
    <2>2. Rearranged(s, s)
      <3> DEFINE p == [i \in DOMAIN s |-> i]
      <3>1. p \in [DOMAIN s -> DOMAIN s] /\ \A i \in DOMAIN s : p[i] = i
        OBVIOUS
      <3> HIDE DEF p
      <3> QED
        BY <3>1 DEF Rearranged
    <2>3. HeapFrom(s, half + 1)
      BY <1>1 DEF HeapFrom
    <2> QED
      BY <2>1, <2>2, <2>3
  <1>10. ASSUME NEW p \in 1 .. half, Good(p + 1) PROVE Good(p)
    <2> DEFINE m == made[p + 1]
    <2>1. m \in Seq(S) /\ Len(m) = Len(s) /\ p \in 1 .. Len(m) /\ m[p] \in S
      BY <1>1, <1>10
    <2>2. made[p] = AdjustHeap(m, p, m[p])
      BY <1>1, <1>7
    <2>3. Rearranged(m, s) /\ (Ranked(S) => HeapFrom(m, p + 1))
      BY <1>10
    <2> HIDE DEF m
    <2>4. [m EXCEPT ![p] = m[p]] = m
      BY <2>1, Replaced
    <2>5. /\ made[p] \in Seq(S) /\ Len(made[p]) = Len(s) /\ Rearranged(made[p], m)
          /\ Ranked(S) => HeapFrom(made[p], p)
      BY <2>1, <2>2, <2>3, <2>4, AdjustHeapOrders
    <2> QED
      BY <2>3, <2>5, RearrangedTwice
  <1> HIDE DEF Good
  <1> DEFINE U == {n \in Nat : n <= half => Good(half + 1 - n)}
  <1>11. 0 \in U
    BY <1>1, <1>9
  <1>12. ASSUME NEW n \in U \cap Nat PROVE n + 1 \in U
    <2> SUFFICES ASSUME n + 1 <= half PROVE Good(half + 1 - (n + 1))
      OBVIOUS
    <2>1. /\ half + 1 - (n + 1) \in 1 .. half /\ half + 1 - (n + 1) + 1 = half + 1 - n
          /\ n <= half
      BY <1>1
    <2> QED
      BY <1>10, <2>1
  <1>13. Good(1)
    <2>1. Nat \subseteq U
      <3> HIDE DEF U
      <3> QED
        BY <1>11, <1>12, SetInduction
    <2>2. half \in U /\ half + 1 - half = 1 /\ half <= half
      BY <1>1, <2>1
    <2> QED
      BY <2>2
  <1> QED
    BY <1>8, <1>13, HeapFromTop DEF Good

\* Erasing a position keeps every other element once.
LEMMA RemoveAtPicks ==
  ASSUME NEW S, NEW s \in Seq(S), NEW k \in 1 .. Len(s)
  PROVE  /\ RemoveAt(s, k) \in Seq(S)
         /\ Picks(RemoveAt(s, k), s, DOMAIN s \ {k})
  <1> DEFINE N == Len(s)
             t == RemoveAt(s, k)
  <1>1. N \in Nat /\ k \in 1 .. N /\ DOMAIN s = 1 .. N
    OBVIOUS
  <1>2. /\ t \in Seq(S) /\ Len(t) = N - 1
        /\ \A i \in 1 .. N - 1 : t[i] = IF i < k THEN s[i] ELSE s[i + 1]
    <2> DEFINE a == SubSeq(s, 1, k - 1)
               b == SubSeq(s, k + 1, N)
    <2>1. a \in Seq(S) /\ Len(a) = k - 1 /\ \A i \in 1 .. k - 1 : a[i] = s[i]
      OBVIOUS
    <2>2. b \in Seq(S) /\ Len(b) = N - k /\ \A i \in 1 .. N - k : b[i] = s[i + k]
      OBVIOUS
    <2>3. t = a \o b
      BY DEF RemoveAt
    <2> HIDE DEF N, a, b, t
    <2>4. t \in Seq(S) /\ Len(t) = N - 1
      <3>1. t \in Seq(S) /\ Len(t) = Len(a) + Len(b)
        BY <2>1, <2>2, <2>3, ConcatProperties
      <3> QED
        BY <1>1, <2>1, <2>2, <3>1
    <2>5. ASSUME NEW i \in 1 .. N - 1 PROVE t[i] = IF i < k THEN s[i] ELSE s[i + 1]
      <3>1. CASE i < k
        BY <1>1, <2>1, <2>2, <2>3, <3>1
      <3>2. CASE ~(i < k)
        <4>1. t[i] = b[i - (k - 1)] /\ i - (k - 1) \in 1 .. N - k /\ i - (k - 1) + k = i + 1
          BY <1>1, <2>1, <2>2, <2>3, <3>2
        <4> QED
          BY <2>2, <3>2, <4>1
      <3> QED
        BY <3>1, <3>2
    <2> QED
      BY <2>4, <2>5
  <1> HIDE DEF N, t
  <1> DEFINE p == [i \in 1 .. N - 1 |-> IF i < k THEN i ELSE i + 1]
  <1>3. DOMAIN t = 1 .. N - 1
    BY <1>1, <1>2
  <1>4. p \in [DOMAIN t -> DOMAIN s \ {k}] /\ \A i \in DOMAIN t : t[i] = s[p[i]]
    BY <1>1, <1>2, <1>3
  <1>5. \A i, j \in DOMAIN t : p[i] = p[j] => i = j
    BY <1>1, <1>3
  <1>6. \A i \in DOMAIN s \ {k} : \E j \in DOMAIN t : p[j] = i
    <2> SUFFICES ASSUME NEW i \in 1 .. N, i # k PROVE \E j \in 1 .. N - 1 : p[j] = i
      BY <1>1, <1>3
    <2>1. CASE i < k
      BY <1>1, <2>1
    <2>2. CASE i > k
      <3>1. i - 1 \in 1 .. N - 1 /\ p[i - 1] = i
        BY <1>1, <2>2
      <3> QED
        BY <3>1
    <2> QED
      BY <1>1, <2>1, <2>2
  <1> HIDE DEF p
  <1>7. Picks(t, s, DOMAIN s \ {k})
    BY <1>4, <1>5, <1>6 DEF Picks
  <1> QED
    BY <1>2, <1>7 DEF t

-----------------------------------------------------------------------------
(* Containers of orders *)

\* The orders of S may lose quantity: nothing else about them changes.
Reducible(S) ==
  \A e \in S : /\ e.qty \in Int
              /\ \A n \in Int : /\ [e EXCEPT !.qty = n] \in S
                               /\ [e EXCEPT !.qty = n].qty = n
                               /\ [e EXCEPT !.qty = n].id = e.id
                               /\ [e EXCEPT !.qty = n].side = e.side
                               /\ [e EXCEPT !.qty = n].price = e.price
                               /\ [e EXCEPT !.qty = n].timestamp = e.timestamp

\* No order is in the container twice.
IdsApart(c) == \A j, k \in DOMAIN c : c[j].id = c[k].id => j = k

LEMMA ElementsIn ==
  ASSUME NEW S, NEW c \in Seq(S)
  PROVE  Elements(c) \subseteq S
  BY DEF Elements

LEMMA PicksApart ==
  ASSUME NEW t, NEW u, NEW D, D \subseteq DOMAIN u, Picks(t, u, D), IdsApart(u)
  PROVE  IdsApart(t)
  BY DEF Picks, IdsApart

\* Two containers with no order in common, one after the other.
LEMMA JoinedApart ==
  ASSUME NEW A, NEW a \in Seq(A), NEW b \in Seq(A), IdsApart(a), IdsApart(b),
         \A x \in Elements(a), y \in Elements(b) : x.id # y.id
  PROVE  IdsApart(a \o b)
  <1> DEFINE m == Len(a)
             n == Len(b)
             c == a \o b
  <1>1. /\ m \in Nat /\ n \in Nat /\ DOMAIN a = 1 .. m /\ DOMAIN b = 1 .. n
        /\ DOMAIN c = 1 .. m + n
    OBVIOUS
  <1>2. /\ \A k \in 1 .. m : c[k] = a[k]
        /\ \A k \in 1 .. n : c[m + k] = b[k]
    OBVIOUS
  <1> HIDE DEF m, n, c
  <1>3. ASSUME NEW k \in 1 .. m + n
        PROVE  \/ k \in 1 .. m /\ c[k] = a[k]
               \/ k - m \in 1 .. n /\ c[k] = b[k - m]
    <2>1. CASE k <= m
      BY <1>1, <1>2, <2>1
    <2>2. CASE k > m
      <3> DEFINE h == k - m
      <3>1. h \in 1 .. n /\ k = m + h
        BY <1>1, <2>2
      <3> HIDE DEF h
      <3>2. c[k] = b[h]
        BY <1>2, <3>1
      <3> QED
        BY <3>1, <3>2 DEF h
    <2> QED
      BY <1>1, <2>1, <2>2
  <1>4. ASSUME NEW j \in 1 .. m + n, NEW k \in 1 .. m + n, c[j].id = c[k].id
        PROVE  j = k
    <2>1. \A x \in 1 .. m, y \in 1 .. n : a[x].id # b[y].id
      BY <1>1 DEF Elements
    <2>2. CASE j \in 1 .. m /\ c[j] = a[j] /\ k \in 1 .. m /\ c[k] = a[k]
      BY <1>1, <1>4, <2>2 DEF IdsApart
    <2>3. CASE j - m \in 1 .. n /\ c[j] = b[j - m] /\ k - m \in 1 .. n /\ c[k] = b[k - m]
      <3>1. j - m = k - m
        BY <1>1, <1>4, <2>3 DEF IdsApart
      <3> QED
        BY <1>1, <3>1
    <2> QED
      BY <1>3, <1>4, <2>1, <2>2, <2>3
  <1> QED
    BY <1>1, <1>4 DEF IdsApart, c

\* The front of a heap is outranked by nothing in it.
LEMMA FrontIsBest ==
  ASSUME NEW S, Ranked(S), NEW c \in Seq(S), IsHeap(c), NEW e \in Elements(c)
  PROVE  c # <<>> /\ ~RanksLower(c[1], e)
  <1> DEFINE T == {i \in Nat : i \in 1 .. Len(c) => ~RanksLower(c[1], c[i])}
  <1>1. /\ Len(c) \in Nat /\ DOMAIN c = 1 .. Len(c) /\ \A i \in 1 .. Len(c) : c[i] \in S
    OBVIOUS
  <1>2. ASSUME NEW i \in Nat, \A m \in Nat : m < i => m \in T PROVE i \in T
    <2> SUFFICES ASSUME i \in 1 .. Len(c) PROVE ~RanksLower(c[1], c[i])
      OBVIOUS
    <2>1. CASE i = 1
      BY <1>1, <2>1 DEF Ranked
    <2>2. CASE i # 1
      <3> DEFINE j == i \div 2
      <3>1. i \in 2 .. Len(c) /\ j \in Nat /\ j < i /\ j \in 1 .. Len(c) /\ 1 \in 1 .. Len(c)
        BY <1>1, <2>2
      <3>2. ~RanksLower(c[j], c[i])
        BY <3>1 DEF IsHeap
      <3> HIDE DEF j
      <3>3. ~RanksLower(c[1], c[j])
        BY <1>2, <3>1
      <3> QED
        BY <1>1, <3>1, <3>2, <3>3 DEF Ranked
    <2> QED
      BY <2>1, <2>2
  <1>3. \A i \in 1 .. Len(c) : ~RanksLower(c[1], c[i])
    <2>1. Nat \subseteq T
      <3> HIDE DEF T
      <3> QED
        BY <1>2, StrongInduction
    <2> QED
      BY <2>1
  <1>4. PICK i \in 1 .. Len(c) : e = c[i]
    BY <1>1 DEF Elements
  <1>5. c # <<>>
    BY <1>1, <1>4
  <1> QED
    BY <1>3, <1>4, <1>5

\* If the front of a heap does not cross an order of the other side, nothing in
\* the heap does.
LEMMA NothingCrosses ==
  ASSUME NEW P \in SUBSET Int, Apart(P), NEW side \in Sides, NEW S, \A e \in S : Ranks(e, side, P),
         NEW c \in Seq(S), IsHeap(c),
         NEW o, o.price \in Int, o.side \in Sides, o.side # side,
         c # <<>> => ~Crosses(o, c[1]),
         NEW d \in Elements(c)
  PROVE  ~Crosses(o, d)
  <1>1. Ranked(S)
    BY SideIsRanked
  <1>2. c # <<>> /\ ~RanksLower(c[1], d)
    BY <1>1, FrontIsBest
  <1> DEFINE f == c[1]
  <1>3. f \in S /\ d \in S /\ ~RanksLower(f, d) /\ ~Crosses(o, f)
    BY <1>2, ElementsIn
  <1> HIDE DEF f
  <1>4. /\ d.price \in Int /\ f.price \in Int /\ {d.price, f.price} \subseteq P
        /\ d.side = side /\ f.side = side
    BY <1>3 DEF Ranks
  <1>5. SillyEqual(f, d) <=> f.price = d.price
    BY <1>4, ToleranceAssumption DEF SillyEqual, Apart
  <1>6. \/ f.price = d.price
        \/ f.side = "BUY" /\ d.price < f.price
        \/ f.side = "SELL" /\ d.price > f.price
    BY <1>3, <1>4, <1>5 DEF RanksLower, Sides
  <1> QED
    BY <1>3, <1>4, <1>6 DEF Crosses, Sides

\* An order that is not in the container yet is pushed.
LEMMA Pushed ==
  ASSUME NEW S, NEW c \in Seq(S), NEW o \in S
  PROVE  /\ PushHeap(c, o) \in Seq(S)
         /\ Elements(PushHeap(c, o)) = Elements(c) \cup {o}
         /\ Ranked(S) /\ IsHeap(c) => IsHeap(PushHeap(c, o))
         /\ IdsApart(c) /\ (\A e \in Elements(c) : e.id # o.id) => IdsApart(PushHeap(c, o))
  <1> DEFINE t == PushHeap(c, o)
             u == Append(c, o)
  <1>1. /\ t \in Seq(S) /\ Rearranged(t, u)
        /\ Ranked(S) /\ IsHeap(c) => IsHeap(t)
    BY PushHeapOrders
  <1>2. /\ Len(c) \in Nat /\ DOMAIN c = 1 .. Len(c) /\ DOMAIN u = 1 .. Len(c) + 1
        /\ u[Len(c) + 1] = o /\ \A i \in 1 .. Len(c) : u[i] = c[i]
    OBVIOUS
  <1> HIDE DEF t, u
  <1>3. Elements(u) = Elements(c) \cup {o}
    BY <1>2 DEF Elements
  <1>4. Elements(t) = Elements(c) \cup {o}
    BY <1>1, <1>3, RearrangedElements
  <1>5. ASSUME IdsApart(c), \A e \in Elements(c) : e.id # o.id PROVE IdsApart(t)
    <2>1. \A i \in 1 .. Len(c) : u[i].id # o.id
      BY <1>2, <1>5 DEF Elements
    <2>2. IdsApart(u)
      BY <1>2, <1>5, <2>1 DEF IdsApart
    <2>3. Picks(t, u, DOMAIN u)
      BY <1>1, RearrangedPicks
    <2> QED
      BY <2>2, <2>3, PicksApart
  <1> QED
    BY <1>1, <1>4, <1>5 DEF t

\* purge() takes the front away if it has nothing left.
LEMMA Purged ==
  ASSUME NEW S, NEW c \in Seq(S)
  PROVE  /\ PurgeContainer(c) \in Seq(S)
         /\ Ranked(S) /\ IsHeap(c) => IsHeap(PurgeContainer(c))
         /\ IdsApart(c) => IdsApart(PurgeContainer(c))
         /\ c # <<>> /\ c[1].qty = 0 => /\ Elements(PurgeContainer(c)) = {c[i] : i \in 2 .. Len(c)}
                                        /\ Len(PurgeContainer(c)) = Len(c) - 1
         /\ ~(c # <<>> /\ c[1].qty = 0) => PurgeContainer(c) = c
         /\ Elements(PurgeContainer(c)) \subseteq Elements(c)
  <1>1. CASE c # <<>> /\ c[1].qty = 0
    <2>1. PurgeContainer(c) = PopHeap(c) /\ Len(c) > 0
      BY <1>1 DEF PurgeContainer
    <2>2. /\ PopHeap(c) \in Seq(S) /\ Picks(PopHeap(c), c, 2 .. Len(c))
          /\ Len(PopHeap(c)) = Len(c) - 1
          /\ Ranked(S) /\ IsHeap(c) => IsHeap(PopHeap(c))
      BY <2>1, PopHeapOrders
    <2>3. Elements(PopHeap(c)) = {c[i] : i \in 2 .. Len(c)}
      BY <2>2, PicksElements
    <2>4. 2 .. Len(c) \subseteq DOMAIN c
      OBVIOUS
    <2>5. IdsApart(c) => IdsApart(PopHeap(c))
      BY <2>2, <2>4, PicksApart
    <2>6. Elements(PopHeap(c)) \subseteq Elements(c)
      BY <2>3, <2>4 DEF Elements
    <2> QED
      BY <1>1, <2>1, <2>2, <2>3, <2>5, <2>6
  <1>2. CASE ~(c # <<>> /\ c[1].qty = 0)
    BY <1>2, Zenon DEF PurgeContainer
  <1> QED
    BY <1>1, <1>2

\* What a trade of q leaves of the order f.
Left(f, q) == IF f.qty = q THEN {} ELSE {[f EXCEPT !.qty = f.qty - q]}

\* decrement: the front has traded q.
Reduced(c, q) == [c EXCEPT ![1].qty = @ - q]

\* A container after its front has traded q and purge() has run.
LEMMA FrontTraded ==
  ASSUME NEW S, Reducible(S), NEW c \in Seq(S), c # <<>>, NEW q \in Int,
         NEW w, w = PurgeContainer(Reduced(c, q))
  PROVE  /\ w \in Seq(S)
         /\ Ranked(S) /\ IsHeap(c) => IsHeap(w)
         /\ IdsApart(c) => IdsApart(w)
         /\ IdsApart(c) => Elements(w) = (Elements(c) \ {c[1]}) \cup Left(c[1], q)
         /\ c[1].qty = q => Len(w) = Len(c) - 1
  <1> DEFINE f == c[1]
             r == [f EXCEPT !.qty = f.qty - q]
             u == [c EXCEPT ![1] = r]
  <1>1. /\ Len(c) \in Nat \ {0} /\ DOMAIN c = 1 .. Len(c) /\ 1 \in 1 .. Len(c)
        /\ \A i \in 1 .. Len(c) : c[i] \in S
    OBVIOUS
  <1>2. w = PurgeContainer(u)
    BY DEF Reduced
  <1>3. f \in S /\ f.qty \in Int /\ f.qty - q \in Int
    BY <1>1 DEF Reducible
  <1>4. /\ r \in S /\ r.qty = f.qty - q /\ r.id = f.id /\ r.side = f.side
        /\ r.price = f.price /\ r.timestamp = f.timestamp
    BY <1>3 DEF Reducible
  <1> HIDE DEF f, r
  <1>5. /\ u \in Seq(S) /\ u # <<>> /\ Len(u) = Len(c) /\ DOMAIN u = 1 .. Len(c) /\ u[1] = r
        /\ \A i \in 2 .. Len(c) : u[i] = c[i]
    BY <1>1, <1>4
  <1> HIDE DEF u
  <1>6. /\ w \in Seq(S) /\ (Ranked(S) /\ IsHeap(u) => IsHeap(w)) /\ (IdsApart(u) => IdsApart(w))
        /\ r.qty = 0 => Elements(w) = {u[i] : i \in 2 .. Len(u)} /\ Len(w) = Len(u) - 1
        /\ r.qty # 0 => w = u
    <2>1. u \in Seq(S)
      BY <1>5
    <2>2. /\ PurgeContainer(u) \in Seq(S)
          /\ Ranked(S) /\ IsHeap(u) => IsHeap(PurgeContainer(u))
          /\ IdsApart(u) => IdsApart(PurgeContainer(u))
          /\ u # <<>> /\ u[1].qty = 0 => /\ Elements(PurgeContainer(u)) = {u[i] : i \in 2 .. Len(u)}
                                         /\ Len(PurgeContainer(u)) = Len(u) - 1
          /\ ~(u # <<>> /\ u[1].qty = 0) => PurgeContainer(u) = u
      BY <2>1, Purged
    <2> QED
      BY <1>2, <1>5, <2>2
  <1>7. ASSUME IsHeap(c) PROVE IsHeap(u)
    <2>1. \A i \in 2 .. Len(c) : ~RanksLower(c[i \div 2], c[i])
      BY <1>7 DEF IsHeap
    <2> SUFFICES ASSUME NEW i \in 2 .. Len(c) PROVE ~RanksLower(u[i \div 2], u[i])
      BY <1>5 DEF IsHeap
    <2> DEFINE j == i \div 2
    <2>2. j \in 1 .. Len(c)
      BY <1>1
    <2>3. ~RanksLower(c[j], c[i]) /\ u[i] = c[i]
      BY <1>5, <2>1
    <2> HIDE DEF j
    <2>4. CASE j = 1
      <3>1. u[j] = r /\ c[j] = f
        BY <1>5, <2>4 DEF f
      <3>2. RanksLower(r, c[i]) <=> RanksLower(f, c[i])
        BY <1>4, Zenon DEF RanksLower, SillyEqual
      <3> QED
        BY <2>3, <3>1, <3>2 DEF j
    <2>5. CASE j # 1
      BY <1>1, <1>5, <2>2, <2>3, <2>5 DEF j
    <2> QED
      BY <2>4, <2>5
  <1>8. ASSUME IdsApart(c) PROVE IdsApart(u)
    <2>1. \A i \in 1 .. Len(c) : u[i].id = c[i].id
      <3> SUFFICES ASSUME NEW i \in 1 .. Len(c) PROVE u[i].id = c[i].id
        OBVIOUS
      <3>1. CASE i = 1
        BY <1>4, <1>5, <3>1 DEF f
      <3>2. CASE i # 1
        BY <1>1, <1>5, <3>2
      <3> QED
        BY <3>1, <3>2
    <2> QED
      BY <1>1, <1>5, <1>8, <2>1 DEF IdsApart
  <1>9. ASSUME IdsApart(c)
        PROVE  Elements(w) = (Elements(c) \ {f}) \cup (IF f.qty = q THEN {} ELSE {r})
    <2> DEFINE others == {c[i] : i \in 2 .. Len(c)}
    <2>1. Elements(c) \ {f} = others
      <3>1. \A i \in 2 .. Len(c) : c[i] # f /\ i \in 1 .. Len(c)
        BY <1>1, <1>9 DEF IdsApart, f
      <3>2. \A i \in 1 .. Len(c) : i # 1 => i \in 2 .. Len(c)
        BY <1>1
      <3> QED
        BY <1>1, <3>1, <3>2 DEF Elements, f
    <2>2. {u[i] : i \in 2 .. Len(u)} = others
      BY <1>5
    <2>3. Elements(u) = others \cup {r}
      <3>1. \A i \in 1 .. Len(c) : i = 1 \/ i \in 2 .. Len(c)
        BY <1>1
      <3>2. \A i \in 2 .. Len(c) : i \in 1 .. Len(c)
        BY <1>1
      <3> QED
        BY <1>1, <1>5, <3>1, <3>2 DEF Elements
    <2>4. f.qty = q <=> r.qty = 0
      BY <1>3, <1>4
    <2> HIDE DEF others
    <2> QED
      BY <1>6, <2>1, <2>2, <2>3, <2>4
  <1>10. f.qty = q => Len(w) = Len(c) - 1
    <2>1. f.qty = q => r.qty = 0
      BY <1>3, <1>4
    <2>2. f.qty = q => Len(w) = Len(u) - 1
      BY <1>6, <2>1
    <2> QED
      BY <1>5, <2>2
  <1> QED
    BY <1>6, <1>7, <1>8, <1>9, <1>10 DEF f, r, Left

-----------------------------------------------------------------------------
(* Books *)

\* No order is twice in one container of the book.
BookApart(book) == IdsApart(book.buys) /\ IdsApart(book.sells)

BookHeaps(book) == IsHeap(book.buys) /\ IsHeap(book.sells)

OwnOrders(book, order) == book[Own(order)]

NoneEmpty(c) == \A e \in Elements(c) : e.qty # 0

\* The orders of c once f among them has traded q.
LessTraded(c, f, q) == (Elements(c) \ {f}) \cup Left(f, q)

\* add_to_book
LEMMA BookAdded ==
  ASSUME NEW B, NEW S, NEW book \in [buys : Seq(B), sells : Seq(S)], NEW o,
         o.side = "BUY" => o \in B, o.side # "BUY" => o \in S
  PROVE  /\ AddToBook(book, o) \in [buys : Seq(B), sells : Seq(S)]
         /\ OpenOrders(AddToBook(book, o)) = OpenOrders(book) \cup {o}
         /\ BookApart(book) /\ (\A e \in OpenOrders(book) : e.id # o.id)
               => BookApart(AddToBook(book, o))
         /\ Ranked(B) /\ Ranked(S) /\ BookHeaps(book) => BookHeaps(AddToBook(book, o))
  <1> DEFINE n == AddToBook(book, o)
  <1>1. CASE o.side = "BUY"
    <2>1. n \in [buys : {PushHeap(book.buys, o)}, sells : {book.sells}]
      BY <1>1 DEF AddToBook, Own
    <2> HIDE DEF n
    <2>2. n.buys = PushHeap(book.buys, o) /\ n.sells = book.sells
      BY <2>1
    <2>3. /\ n.buys \in Seq(B) /\ Elements(n.buys) = Elements(book.buys) \cup {o}
          /\ Ranked(B) /\ IsHeap(book.buys) => IsHeap(n.buys)
          /\ IdsApart(book.buys) /\ (\A e \in Elements(book.buys) : e.id # o.id) => IdsApart(n.buys)
      BY <1>1, <2>2, Pushed
    <2>4. n \in [buys : Seq(B), sells : Seq(S)]
      BY <2>1, <2>2, <2>3
    <2> QED
      BY <2>2, <2>3, <2>4 DEF OpenOrders, BookApart, BookHeaps, n
  <1>2. CASE o.side # "BUY"
    <2>1. n \in [buys : {book.buys}, sells : {PushHeap(book.sells, o)}]
      BY <1>2 DEF AddToBook, Own
    <2> HIDE DEF n
    <2>2. n.buys = book.buys /\ n.sells = PushHeap(book.sells, o)
      BY <2>1
    <2>3. /\ n.sells \in Seq(S) /\ Elements(n.sells) = Elements(book.sells) \cup {o}
          /\ Ranked(S) /\ IsHeap(book.sells) => IsHeap(n.sells)
          /\ IdsApart(book.sells) /\ (\A e \in Elements(book.sells) : e.id # o.id) => IdsApart(n.sells)
      BY <1>2, <2>2, Pushed
    <2>4. n \in [buys : Seq(B), sells : Seq(S)]
      BY <2>1, <2>2, <2>3
    <2> QED
      BY <2>2, <2>3, <2>4 DEF OpenOrders, BookApart, BookHeaps, n
  <1> QED
    BY <1>1, <1>2

\* One contra order of o has gone.
FewerContras(n, book, o) == Len(ContraOrders(n, o)) = Len(ContraOrders(book, o)) - 1

\* decrement and purge: the front contra order has traded; on the own side at
\* most a front without quantity goes.
LEMMA BookTraded ==
  ASSUME NEW B, NEW S, Reducible(B), Reducible(S), NEW book \in [buys : Seq(B), sells : Seq(S)],
         NEW o, HasContra(book, o), NEW q \in Int, BookApart(book),
         NEW n, n = AfterTrade(book, o, q), NEW f, f = FrontContra(book, o)
  PROVE  /\ n \in [buys : Seq(B), sells : Seq(S)]
         /\ BookApart(n)
         /\ Ranked(B) /\ Ranked(S) /\ BookHeaps(book) => BookHeaps(n)
         /\ f \in Elements(ContraOrders(book, o))
         /\ Elements(ContraOrders(n, o)) = LessTraded(ContraOrders(book, o), f, q)
         /\ Elements(OwnOrders(n, o)) \subseteq Elements(OwnOrders(book, o))
         /\ NoneEmpty(OwnOrders(book, o)) => OwnOrders(n, o) = OwnOrders(book, o)
         /\ f.qty = q => FewerContras(n, book, o)
  <1>1. /\ book.buys \in Seq(B) /\ book.sells \in Seq(S)
        /\ IdsApart(book.buys) /\ IdsApart(book.sells)
    BY DEF BookApart
  <1>2. CASE o.side = "BUY"
    <2> DEFINE c == book.sells
               w == PurgeContainer(Reduced(c, q))
               v == PurgeContainer(book.buys)
    <2>1. Against(o) = "sells" /\ Own(o) = "buys" /\ c # <<>> /\ f = c[1]
      BY <1>2 DEF Against, Own, HasContra, FrontContra, ContraOrders
    <2>2. n = [buys |-> v, sells |-> w]
      BY <2>1 DEF AfterTrade, Purge, Reduced
    <2>3. /\ w \in Seq(S) /\ (Ranked(S) /\ IsHeap(c) => IsHeap(w)) /\ IdsApart(w)
          /\ Elements(w) = (Elements(c) \ {f}) \cup Left(f, q)
          /\ f.qty = q => Len(w) = Len(c) - 1
      <3>1. w = PurgeContainer(Reduced(c, q)) /\ c \in Seq(S) /\ IdsApart(c)
        BY <1>1
      <3> HIDE DEF w, c
      <3> QED
        BY <2>1, <3>1, FrontTraded
    <2>4. /\ v \in Seq(B) /\ (Ranked(B) /\ IsHeap(book.buys) => IsHeap(v)) /\ IdsApart(v)
          /\ Elements(v) \subseteq Elements(book.buys)
          /\ ~(book.buys # <<>> /\ book.buys[1].qty = 0) => v = book.buys
      BY <1>1, Purged
    <2>5. f \in Elements(c) /\ (book.buys # <<>> => book.buys[1] \in Elements(book.buys))
      BY <1>1, <2>1 DEF Elements
    <2> HIDE DEF v, w, c
    <2>6. n.buys = v /\ n.sells = w /\ n["buys"] = v /\ n["sells"] = w
          /\ n \in [buys : Seq(B), sells : Seq(S)]
      BY <2>2, <2>3, <2>4
    <2>7. BookApart(n) /\ (Ranked(B) /\ Ranked(S) /\ BookHeaps(book) => BookHeaps(n))
      BY <2>3, <2>4, <2>6 DEF BookApart, BookHeaps, c
    <2> QED
      BY <2>1, <2>3, <2>4, <2>5, <2>6, <2>7 DEF c, ContraOrders, OwnOrders, LessTraded, NoneEmpty, FewerContras
  <1>3. CASE o.side # "BUY"
    <2> DEFINE c == book.buys
               w == PurgeContainer(Reduced(c, q))
               v == PurgeContainer(book.sells)
    <2>1. Against(o) = "buys" /\ Own(o) = "sells" /\ c # <<>> /\ f = c[1]
      BY <1>3 DEF Against, Own, HasContra, FrontContra, ContraOrders
    <2>2. n = [buys |-> w, sells |-> v]
      BY <2>1 DEF AfterTrade, Purge, Reduced
    <2>3. /\ w \in Seq(B) /\ (Ranked(B) /\ IsHeap(c) => IsHeap(w)) /\ IdsApart(w)
          /\ Elements(w) = (Elements(c) \ {f}) \cup Left(f, q)
          /\ f.qty = q => Len(w) = Len(c) - 1
      <3>1. w = PurgeContainer(Reduced(c, q)) /\ c \in Seq(B) /\ IdsApart(c)
        BY <1>1
      <3> HIDE DEF w, c
      <3> QED
        BY <2>1, <3>1, FrontTraded
    <2>4. /\ v \in Seq(S) /\ (Ranked(S) /\ IsHeap(book.sells) => IsHeap(v)) /\ IdsApart(v)
          /\ Elements(v) \subseteq Elements(book.sells)
          /\ ~(book.sells # <<>> /\ book.sells[1].qty = 0) => v = book.sells
      BY <1>1, Purged
    <2>5. f \in Elements(c) /\ (book.sells # <<>> => book.sells[1] \in Elements(book.sells))
      BY <1>1, <2>1 DEF Elements
    <2> HIDE DEF v, w, c
    <2>6. n.buys = w /\ n.sells = v /\ n["buys"] = w /\ n["sells"] = v
          /\ n \in [buys : Seq(B), sells : Seq(S)]
      BY <2>2, <2>3, <2>4
    <2>7. BookApart(n) /\ (Ranked(B) /\ Ranked(S) /\ BookHeaps(book) => BookHeaps(n))
      BY <2>3, <2>4, <2>6 DEF BookApart, BookHeaps, c
    <2> QED
      BY <2>1, <2>3, <2>4, <2>5, <2>6, <2>7 DEF c, ContraOrders, OwnOrders, LessTraded, NoneEmpty, FewerContras
  <1> QED
    BY <1>2, <1>3

-----------------------------------------------------------------------------
(* The traded quantity *)

\* What a TRADE line says of the order id.
Named(id, trade) == IF id \in {trade.order, trade.contra} THEN trade.qty ELSE 0

TradeLines == [order : Int, contra : Int, qty : Int, price : Int]

LEMMA NamedInteger ==
  ASSUME NEW id, NEW x \in TradeLines
  PROVE  Named(id, x) \in Int
  BY DEF Named, TradeLines

\* f[k] is what the first k of the TRADE lines say of the order id.
TradedFunction(f, id, trades) ==
  /\ f[0] = 0
  /\ \A k \in 1 .. Len(trades) : f[k] = f[k - 1] + Named(id, trades[k])
  /\ \A k \in 0 .. Len(trades) : f[k] \in Int

LEMMA TradedDefined ==
  ASSUME NEW id, NEW trades \in Seq(TradeLines)
  PROVE  \E f : TradedFunction(f, id, trades) /\ Traded(id, trades) = f[Len(trades)]
  <1> DEFINE e(g, k) == IF k = 0 THEN 0 ELSE g[k - 1] + Named(id, trades[k])
             From(n) == \E g : g = [k \in 0 .. n |-> e(g, k)]
             T == {n \in Nat : From(n)}
  <1>1. From(0)
    <2> DEFINE g == [k \in 0 .. 0 |-> 0]
    <2>1. g = [k \in 0 .. 0 |-> e(g, k)]
      OBVIOUS
    <2> HIDE DEF g
    <2> QED
      BY <2>1
  <1>2. ASSUME NEW n \in Nat, From(n) PROVE From(n + 1)
    <2>1. PICK g : g = [k \in 0 .. n |-> e(g, k)]
      BY <1>2
    <2> DEFINE h == [k \in 0 .. n + 1 |-> IF k = n + 1 THEN e(g, k) ELSE g[k]]
    <2>2. ASSUME NEW k \in 0 .. n + 1 PROVE e(h, k) = e(g, k)
      <3>1. k # 0 => h[k - 1] = g[k - 1]
        OBVIOUS
      <3> HIDE DEF h
      <3> QED
        BY <3>1
    <2>3. ASSUME NEW k \in 0 .. n + 1 PROVE h[k] = e(g, k)
      <3>1. CASE k = n + 1
        BY <3>1
      <3>2. CASE k # n + 1
        BY <2>1, <3>2
      <3> QED
        BY <3>1, <3>2
    <2>4. h = [k \in 0 .. n + 1 |-> e(h, k)]
      BY <2>2, <2>3
    <2> HIDE DEF h
    <2> QED
      BY <2>4
  <1> HIDE DEF From
  <1>3. From(Len(trades))
    <2>1. 0 \in T /\ \A n \in T \cap Nat : n + 1 \in T
      BY <1>1, <1>2
    <2>2. Nat \subseteq T
      <3> HIDE DEF T
      <3> QED
        BY <2>1, SetInduction
    <2>3. Len(trades) \in T
      BY <2>2
    <2> QED
      BY <2>3
  <1> DEFINE f == CHOOSE g : g = [k \in 0 .. Len(trades) |-> e(g, k)]
  <1>4. f = [k \in 0 .. Len(trades) |-> e(f, k)]
    BY <1>3 DEF From
  <1>5. Traded(id, trades) = f[Len(trades)]
    BY DEF Traded, Named
  <1> HIDE DEF f
  <1>6. /\ f[0] = 0 /\ Len(trades) \in Nat /\ \A k \in 1 .. Len(trades) : trades[k] \in TradeLines
        /\ \A k \in 1 .. Len(trades) : f[k] = f[k - 1] + Named(id, trades[k])
    BY <1>4
  <1> DEFINE V == {k \in Nat : k <= Len(trades) => f[k] \in Int}
  <1>7. 0 \in V
    BY <1>6
  <1>8. ASSUME NEW k \in V \cap Nat PROVE k + 1 \in V
    <2> SUFFICES ASSUME k + 1 <= Len(trades) PROVE f[k + 1] \in Int
      OBVIOUS
    <2>1. k + 1 \in 1 .. Len(trades) /\ k <= Len(trades) /\ f[k] \in Int
      OBVIOUS
    <2>2. Named(id, trades[k + 1]) \in Int
      BY <1>6, <2>1, NamedInteger
    <2>3. f[k + 1] = f[k] + Named(id, trades[k + 1])
      BY <1>6, <2>1
    <2> QED
      BY <2>1, <2>2, <2>3
  <1>9. \A k \in 0 .. Len(trades) : f[k] \in Int
    <2>1. Nat \subseteq V
      <3> HIDE DEF V
      <3> QED
        BY <1>7, <1>8, SetInduction
    <2> QED
      BY <2>1
  <1> QED
    BY <1>5, <1>6, <1>9 DEF TradedFunction

\* The quantities of two runs of TRADE lines add up.
LEMMA TradedInBoth ==
  ASSUME NEW id, NEW a \in Seq(TradeLines),
                 NEW b \in Seq(TradeLines)
  PROVE  /\ Traded(id, a \o b) = Traded(id, a) + Traded(id, b)
         /\ Traded(id, a) \in Int /\ Traded(id, b) \in Int
  <1> DEFINE c == a \o b
             m == Len(a)
             n == Len(b)
  <1>1. /\ m \in Nat /\ n \in Nat /\ Len(c) = m + n
        /\ c \in Seq(TradeLines)
        /\ \A k \in 1 .. m : c[k] = a[k]
        /\ \A k \in 1 .. n : c[m + k] = b[k]
    OBVIOUS
  <1> HIDE DEF c
  <1>2. PICK f : TradedFunction(f, id, a) /\ Traded(id, a) = f[m]
    BY TradedDefined
  <1>3. PICK g : TradedFunction(g, id, b) /\ Traded(id, b) = g[n]
    BY TradedDefined
  <1>4. PICK h : TradedFunction(h, id, c) /\ Traded(id, c) = h[m + n]
    BY <1>1, TradedDefined
  <1>5. /\ f[0] = 0 /\ \A k \in 1 .. m : f[k] = f[k - 1] + Named(id, a[k])
        /\ \A k \in 0 .. m : f[k] \in Int
    BY <1>2 DEF TradedFunction
  <1>6. /\ g[0] = 0 /\ \A k \in 1 .. n : g[k] = g[k - 1] + Named(id, b[k])
        /\ \A k \in 0 .. n : g[k] \in Int
    BY <1>3 DEF TradedFunction
  <1>7. h[0] = 0 /\ \A k \in 1 .. m + n : h[k] = h[k - 1] + Named(id, c[k])
    BY <1>1, <1>4 DEF TradedFunction
  <1>8. \A k \in 1 .. n : b[k] \in TradeLines
    OBVIOUS
  <1> HIDE DEF m, n
  <1> DEFINE T == {k \in Nat : k <= m => h[k] = f[k]}
             U == {k \in Nat : k <= n => h[m + k] = f[m] + g[k]}
  <1>9. h[m] = f[m]
    <2>1. 0 \in T
      BY <1>5, <1>7
    <2>2. ASSUME NEW k \in T \cap Nat PROVE k + 1 \in T
      <3> SUFFICES ASSUME k + 1 <= m PROVE h[k + 1] = f[k + 1]
        OBVIOUS
      <3>1. k + 1 \in 1 .. m /\ k + 1 \in 1 .. m + n /\ (k + 1) - 1 = k /\ h[k] = f[k]
        BY <1>1
      <3>2. c[k + 1] = a[k + 1]
        BY <1>1, <3>1
      <3> QED
        BY <1>5, <1>7, <3>1, <3>2
    <2>3. Nat \subseteq T
      <3> HIDE DEF T
      <3> QED
        BY <2>1, <2>2, SetInduction
    <2>4. m \in T /\ m <= m
      BY <1>1, <2>3
    <2> QED
      BY <2>4
  <1>10. h[m + n] = f[m] + g[n]
    <2>1. 0 \in U
      BY <1>1, <1>5, <1>6, <1>9
    <2>2. ASSUME NEW k \in U \cap Nat PROVE k + 1 \in U
      <3> SUFFICES ASSUME k + 1 <= n PROVE h[m + (k + 1)] = f[m] + g[k + 1]
        OBVIOUS
      <3>1. /\ k + 1 \in 1 .. n /\ m + (k + 1) \in 1 .. m + n /\ (k + 1) - 1 = k
            /\ m + (k + 1) - 1 = m + k /\ h[m + k] = f[m] + g[k] /\ k \in 0 .. n
        BY <1>1
      <3>2. c[m + (k + 1)] = b[k + 1] /\ b[k + 1] \in TradeLines
        BY <1>1, <1>8, <3>1
      <3>3. Named(id, b[k + 1]) \in Int
        BY <3>2, NamedInteger
      <3>4. g[k + 1] = g[k] + Named(id, b[k + 1])
        BY <1>6, <3>1
      <3>5. h[m + (k + 1)] = h[m + k] + Named(id, b[k + 1])
        <4> DEFINE j == m + (k + 1)
        <4>1. j \in 1 .. m + n /\ j - 1 = m + k
          BY <1>1, <3>1
        <4>2. c[j] = b[k + 1]
          BY <3>2
        <4> HIDE DEF j
        <4>3. h[j] = h[j - 1] + Named(id, c[j])
          BY <1>7, <4>1
        <4> QED
          BY <4>1, <4>2, <4>3 DEF j
      <3>6. f[m] \in Int /\ g[k] \in Int
        BY <1>1, <1>5, <1>6, <3>1
      <3> QED
        BY <3>1, <3>3, <3>4, <3>5, <3>6
    <2>3. Nat \subseteq U
      <3> HIDE DEF U
      <3> QED
        BY <2>1, <2>2, SetInduction
    <2>4. n \in U /\ n <= n
      BY <1>1, <2>3
    <2> QED
      BY <2>4
  <1> QED
    BY <1>1, <1>2, <1>3, <1>4, <1>5, <1>6, <1>10 DEF c

LEMMA TradedNothing == ASSUME NEW id PROVE Traded(id, <<>>) = 0
  <1>1. <<>> \in Seq(TradeLines) /\ Len(<<>>) = 0
    OBVIOUS
  <1>2. PICK f : TradedFunction(f, id, <<>>) /\ Traded(id, <<>>) = f[0]
    BY <1>1, TradedDefined
  <1> QED
    BY <1>2 DEF TradedFunction

\* One more TRADE line.
LEMMA TradedAppend ==
  ASSUME NEW id, NEW a \in Seq(TradeLines),
         NEW x \in TradeLines
  PROVE  /\ Traded(id, Append(a, x)) = Traded(id, a) + Named(id, x)
         /\ Traded(id, a) \in Int
  <1>1. /\ <<x>> \in Seq(TradeLines)
        /\ Len(<<x>>) = 1 /\ <<x>>[1] = x /\ Append(a, x) = a \o <<x>>
    OBVIOUS
  <1>2. PICK f : TradedFunction(f, id, <<x>>) /\ Traded(id, <<x>>) = f[1]
    BY <1>1, TradedDefined
  <1>3. f[0] = 0 /\ f[1] = f[1 - 1] + Named(id, x)
    BY <1>1, <1>2 DEF TradedFunction
  <1>4. Named(id, x) \in Int
    BY NamedInteger
  <1>5. Traded(id, <<x>>) = Named(id, x)
    BY <1>2, <1>3, <1>4
  <1>6. /\ Traded(id, a \o <<x>>) = Traded(id, a) + Traded(id, <<x>>)
        /\ Traded(id, a) \in Int
    BY <1>1, TradedInBoth
  <1> QED
    BY <1>1, <1>5, <1>6

\* An order no TRADE line names has traded nothing.
LEMMA TradedUnnamed ==
  ASSUME NEW id, NEW a \in Seq(TradeLines), \A k \in 1 .. Len(a) : id \notin {a[k].order, a[k].contra}
  PROVE  Traded(id, a) = 0
  <1>1. PICK f : TradedFunction(f, id, a) /\ Traded(id, a) = f[Len(a)]
    BY TradedDefined
  <1> DEFINE T == {k \in Nat : k <= Len(a) => f[k] = 0}
  <1>2. 0 \in T
    BY <1>1 DEF TradedFunction
  <1>3. ASSUME NEW k \in T \cap Nat PROVE k + 1 \in T
    <2> SUFFICES ASSUME k + 1 <= Len(a) PROVE f[k + 1] = 0
      OBVIOUS
    <2>1. k + 1 \in 1 .. Len(a) /\ (k + 1) - 1 = k /\ f[k] = 0
      OBVIOUS
    <2>2. f[k + 1] = f[(k + 1) - 1] + Named(id, a[k + 1])
      BY <1>1, <2>1 DEF TradedFunction
    <2>3. Named(id, a[k + 1]) = 0
      BY <2>1 DEF Named
    <2> QED
      BY <2>1, <2>2, <2>3
  <1>4. Nat \subseteq T
    <2> HIDE DEF T
    <2> QED
      BY <1>2, <1>3, SetInduction
  <1> QED
    BY <1>1, <1>4

-----------------------------------------------------------------------------
(* The match loop *)

Round(m) == IF CanTrade(m) THEN TradeOnce(m) ELSE m

Contras(m) == Len(ContraOrders(m.book, m.order))

\* f[k] is the match m after k rounds.
Rounds(f, m, n) == f[0] = m /\ \A k \in 1 .. n : f[k] = Round(f[k - 1])

\* M is a set of matches in which the loop goes on and comes to an end: a round
\* after which there can be another one leaves fewer contra orders.
Loops(M) ==
  \A x \in M :
    /\ Contras(x) \in Nat
    /\ CanTrade(x) => /\ Contras(x) > 0
                      /\ TradeOnce(x) \in M
                      /\ CanTrade(TradeOnce(x)) => Contras(TradeOnce(x)) < Contras(x)

LEMMA TradeAllRounds ==
  ASSUME NEW m, Contras(m) \in Nat
  PROVE  \E f : Rounds(f, m, Contras(m)) /\ TradeAll(m) = f[Contras(m)]
  <1> DEFINE N == Contras(m)
             e(g, k) == IF k = 0 THEN m ELSE Round(g[k - 1])
             From(n) == \E g : g = [k \in 0 .. n |-> e(g, k)]
             T == {n \in Nat : From(n)}
  <1>1. From(0)
    <2> DEFINE g == [k \in 0 .. 0 |-> m]
    <2>1. g = [k \in 0 .. 0 |-> e(g, k)]
      OBVIOUS
    <2> HIDE DEF g
    <2> QED
      BY <2>1
  <1>2. ASSUME NEW n \in Nat, From(n) PROVE From(n + 1)
    <2>1. PICK g : g = [k \in 0 .. n |-> e(g, k)]
      BY <1>2
    <2> DEFINE h == [k \in 0 .. n + 1 |-> IF k = n + 1 THEN e(g, k) ELSE g[k]]
    <2>2. ASSUME NEW k \in 0 .. n + 1 PROVE e(h, k) = e(g, k)
      <3>1. k # 0 => h[k - 1] = g[k - 1]
        OBVIOUS
      <3> HIDE DEF h
      <3> QED
        BY <3>1
    <2>3. ASSUME NEW k \in 0 .. n + 1 PROVE h[k] = e(g, k)
      <3>1. CASE k = n + 1
        BY <3>1
      <3>2. CASE k # n + 1
        BY <2>1, <3>2
      <3> QED
        BY <3>1, <3>2
    <2>4. h = [k \in 0 .. n + 1 |-> e(h, k)]
      BY <2>2, <2>3
    <2> HIDE DEF h
    <2> QED
      BY <2>4
  <1> HIDE DEF From
  <1>3. From(N)
    <2>1. 0 \in T /\ \A n \in T \cap Nat : n + 1 \in T
      BY <1>1, <1>2
    <2>2. Nat \subseteq T
      <3> HIDE DEF T
      <3> QED
        BY <2>1, SetInduction
    <2> HIDE DEF N
    <2>3. N \in T
      BY <2>2 DEF N
    <2> QED
      BY <2>3
  <1> DEFINE f == CHOOSE g : g = [k \in 0 .. N |-> e(g, k)]
  <1>4. f = [k \in 0 .. N |-> e(f, k)]
    BY <1>3 DEF From
  <1>5. TradeAll(m) = f[N]
    BY DEF TradeAll, Round, Contras
  <1> HIDE DEF f, N
  <1>6. N \in Nat
    BY DEF N
  <1>7. Rounds(f, m, N)
    BY <1>4, <1>6 DEF Rounds
  <1> QED
    BY <1>5, <1>7 DEF N

LEMMA RoundsIn ==
  ASSUME NEW M, Loops(M), NEW m \in M, NEW f, NEW n \in Nat, Rounds(f, m, n)
  PROVE  \A k \in 0 .. n : f[k] \in M
  <1> DEFINE T == {k \in Nat : k <= n => f[k] \in M}
  <1>1. 0 \in T
    BY DEF Rounds
  <1>2. ASSUME NEW k \in T \cap Nat PROVE k + 1 \in T
    <2> SUFFICES ASSUME k + 1 <= n PROVE f[k + 1] \in M
      OBVIOUS
    <2>1. k + 1 \in 1 .. n /\ (k + 1) - 1 = k /\ f[k] \in M
      OBVIOUS
    <2>2. f[k + 1] = Round(f[(k + 1) - 1])
      BY <2>1 DEF Rounds
    <2> QED
      BY <2>1, <2>2 DEF Round, Loops
  <1>3. Nat \subseteq T
    <2> HIDE DEF T
    <2> QED
      BY <1>1, <1>2, SetInduction
  <1> QED
    BY <1>3

\* As many rounds as there are contra orders are enough.
LEMMA RoundsEnd ==
  ASSUME NEW M, Loops(M), NEW m \in M, NEW f, Rounds(f, m, Contras(m))
  PROVE  ~CanTrade(f[Contras(m)])
  <1> DEFINE n == Contras(m)
             T == {k \in Nat : k <= n => ~CanTrade(f[k]) \/ Contras(f[k]) <= n - k}
  <1>1. n \in Nat /\ f[0] = m
    BY DEF Loops, Rounds
  <1>2. 0 \in T
    BY <1>1
  <1>3. \A k \in 0 .. n : f[k] \in M
    BY <1>1, RoundsIn
  <1>4. Rounds(f, m, n)
    OBVIOUS
  <1> HIDE DEF n
  <1>5. ASSUME NEW k \in T \cap Nat PROVE k + 1 \in T
    <2> SUFFICES ASSUME k + 1 <= n, CanTrade(f[k + 1])
                 PROVE  Contras(f[k + 1]) <= n - (k + 1)
      OBVIOUS
    <2>1. k + 1 \in 1 .. n /\ (k + 1) - 1 = k /\ k \in 0 .. n
      BY <1>1
    <2>2. f[k + 1] = Round(f[k])
      BY <1>4, <2>1 DEF Rounds
    <2>3. CanTrade(f[k]) /\ f[k + 1] = TradeOnce(f[k])
      BY <2>2 DEF Round
    <2>4. f[k] \in M /\ f[k + 1] \in M
      BY <1>3, <2>1
    <2>5. Contras(f[k + 1]) < Contras(f[k]) /\ Contras(f[k]) \in Nat /\ Contras(f[k + 1]) \in Nat
      BY <2>3, <2>4 DEF Loops
    <2>6. Contras(f[k]) <= n - k
      BY <2>1, <2>3
    <2> QED
      BY <1>1, <2>5, <2>6
  <1>6. n \in T
    <2>1. Nat \subseteq T
      <3> HIDE DEF T
      <3> QED
        BY <1>2, <1>5, SetInduction
    <2> QED
      BY <1>1, <2>1
  <1>7. f[n] \in M
    BY <1>1, <1>3
  <1>8. ~CanTrade(f[n])
    <2> SUFFICES ASSUME CanTrade(f[n]) PROVE FALSE
      OBVIOUS
    <2>1. Contras(f[n]) <= n - n
      BY <1>1, <1>6
    <2>2. Contras(f[n]) > 0 /\ Contras(f[n]) \in Nat
      BY <1>7 DEF Loops
    <2> QED
      BY <1>1, <2>1, <2>2
  <1> QED
    BY <1>8 DEF n

\* However many rounds are made, the end is the same.
LEMMA SameEnd ==
  ASSUME NEW m, NEW f, NEW g, NEW a \in Nat, NEW b \in Nat, a <= b,
         Rounds(f, m, a), Rounds(g, m, b), ~CanTrade(f[a])
  PROVE  g[b] = f[a]
  <1> DEFINE T == {k \in Nat : k <= b => g[k] = IF k <= a THEN f[k] ELSE f[a]}
  <1>1. 0 \in T
    BY DEF Rounds
  <1>2. ASSUME NEW k \in T \cap Nat PROVE k + 1 \in T
    <2> SUFFICES ASSUME k + 1 <= b
                 PROVE  g[k + 1] = IF k + 1 <= a THEN f[k + 1] ELSE f[a]
      OBVIOUS
    <2>1. k + 1 \in 1 .. b /\ (k + 1) - 1 = k
      OBVIOUS
    <2>2. g[k + 1] = Round(g[k])
      BY <2>1 DEF Rounds
    <2>3. g[k] = IF k <= a THEN f[k] ELSE f[a]
      BY <2>1
    <2>4. CASE k + 1 <= a
      <3>1. k + 1 \in 1 .. a /\ k <= a
        BY <2>4
      <3>2. f[k + 1] = Round(f[k])
        BY <2>1, <3>1 DEF Rounds
      <3> QED
        BY <2>2, <2>3, <3>1, <3>2
    <2>5. CASE ~(k + 1 <= a)
      <3>1. g[k] = f[a]
        BY <2>3, <2>5
      <3>2. Round(f[a]) = f[a]
        BY DEF Round
      <3> QED
        BY <2>2, <2>5, <3>1, <3>2
    <2> QED
      BY <2>4, <2>5
  <1>3. Nat \subseteq T
    <2> HIDE DEF T
    <2> QED
      BY <1>1, <1>2, SetInduction
  <1>4. g[b] = IF b <= a THEN f[b] ELSE f[a]
    BY <1>3
  <1> QED
    BY <1>4

\* The loop ends where nothing can trade.
LEMMA TradeAllEnds ==
  ASSUME NEW M, Loops(M), NEW m \in M
  PROVE  TradeAll(m) \in M /\ ~CanTrade(TradeAll(m))
  <1>1. Contras(m) \in Nat
    BY DEF Loops
  <1>2. PICK f : Rounds(f, m, Contras(m)) /\ TradeAll(m) = f[Contras(m)]
    BY <1>1, TradeAllRounds
  <1>3. f[Contras(m)] \in M
    BY <1>1, <1>2, RoundsIn
  <1>4. ~CanTrade(f[Contras(m)])
    BY <1>2, RoundsEnd
  <1> QED
    BY <1>2, <1>3, <1>4

\* TradeAll is the loop: while a trade is possible, trade once and go on.
LEMMA TradeAllIsLoop ==
  ASSUME NEW M, Loops(M), NEW m \in M
  PROVE  TradeAll(m) = IF CanTrade(m) THEN TradeAll(TradeOnce(m)) ELSE m
  <1>1. Contras(m) \in Nat
    BY DEF Loops
  <1>2. PICK f : Rounds(f, m, Contras(m)) /\ TradeAll(m) = f[Contras(m)]
    BY <1>1, TradeAllRounds
  <1>3. ~CanTrade(f[Contras(m)])
    BY <1>2, RoundsEnd
  <1>4. CASE ~CanTrade(m)
    <2> DEFINE z == [k \in 0 .. 0 |-> m]
    <2>1. Rounds(z, m, 0) /\ z[0] = m
      BY DEF Rounds
    <2> HIDE DEF z
    <2>2. f[Contras(m)] = z[0]
      BY <1>1, <1>2, <1>4, <2>1, SameEnd
    <2> QED
      BY <1>2, <1>4, <2>1, <2>2
  <1>5. CASE CanTrade(m)
    <2> DEFINE r == TradeOnce(m)
               n == Contras(r)
    <2>1. r \in M /\ n \in Nat
      BY <1>5 DEF Loops
    <2>2. PICK g : Rounds(g, r, n) /\ TradeAll(r) = g[n]
      BY <2>1, TradeAllRounds
    <2>3. ~CanTrade(g[n])
      BY <2>1, <2>2, RoundsEnd
    <2>r. r = Round(m)
      BY <1>5 DEF Round
    <2> DEFINE h == [k \in 0 .. n + 1 |-> IF k = 0 THEN m ELSE g[k - 1]]
    <2> HIDE DEF n, r
    <2>4. h[0] = m /\ h[n + 1] = g[n] /\ \A k \in 1 .. n + 1 : h[k] = g[k - 1]
      BY <2>1
    <2> HIDE DEF h
    <2>5. Rounds(h, m, n + 1)
      <3> SUFFICES ASSUME NEW k \in 1 .. n + 1 PROVE h[k] = Round(h[k - 1])
        BY <2>4 DEF Rounds
      <3>1. CASE k = 1
        BY <2>1, <2>2, <2>4, <2>r, <3>1 DEF Rounds
      <3>2. CASE k # 1
        <4> DEFINE j == k - 1
        <4>1. j \in 1 .. n /\ j \in 1 .. n + 1
          BY <2>1, <3>2
        <4> HIDE DEF j
        <4>2. h[j] = g[j - 1] /\ g[j] = Round(g[j - 1])
          BY <2>2, <2>4, <4>1 DEF Rounds
        <4> QED
          BY <2>4, <4>2 DEF j
      <3> QED
        BY <3>1, <3>2
    <2> DEFINE N == Contras(m)
    <2>6. N \in Nat /\ Rounds(f, m, N) /\ ~CanTrade(f[N]) /\ TradeAll(m) = f[N]
      BY <1>1, <1>2, <1>3
    <2> HIDE DEF N
    <2>7. f[N] = g[n]
      <3>1. N <= n + 1 \/ n + 1 <= N
        BY <2>1, <2>6
      <3>2. ASSUME N <= n + 1 PROVE f[N] = g[n]
        BY <2>1, <2>4, <2>5, <2>6, <3>2, SameEnd
      <3>3. ASSUME n + 1 <= N PROVE f[N] = g[n]
        BY <2>1, <2>3, <2>4, <2>5, <2>6, <3>3, SameEnd
      <3> QED
        BY <3>1, <3>2, <3>3
    <2> QED
      BY <1>5, <2>2, <2>6, <2>7 DEF r
  <1> QED
    BY <1>4, <1>5
=============================================================================
