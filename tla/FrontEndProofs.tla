--------------------------- MODULE FrontEndProofs ---------------------------
(***************************************************************************)
(* Theorems about the way from the command line to an engine: for any      *)
(* command lines, any typed lines and any instruments of the generator.    *)
(***************************************************************************)
EXTENDS FrontEnd, NaturalsInduction, WellFoundedInduction, TLAPS

-----------------------------------------------------------------------------
(* Induction, with a set for the predicate *)

Below == {p \in Nat \X Nat : p[1] < p[2]}

LEMMA BelowWellFounded == IsWellFoundedOn(Below, Nat)
  BY NatLessThanWellFounded, Zenon DEF OpToRel, Below

\* A set of naturals that is not empty has a least element.
LEMMA LeastElement ==
  ASSUME NEW S, S \subseteq Nat, S # {}
  PROVE  \E x \in S : \A y \in S : x <= y
  <1>1. PICK x \in S : \A y \in S : <<y, x>> \notin Below
    <2>1. PICK z : z \in S
      OBVIOUS
    <2> QED
      BY <2>1, BelowWellFounded, WFMin
  <1>2. ASSUME NEW y \in S PROVE x <= y
    <2>1. x \in Nat /\ y \in Nat
      OBVIOUS
    <2>2. y < x => <<y, x>> \in Below
      BY <2>1 DEF Below
    <2> QED
      BY <1>1, <2>1, <2>2
  <1> QED
    BY <1>2

\* What holds of 0 and of every successor holds of every natural.
LEMMA SetInduction ==
  ASSUME NEW T, 0 \in T, \A n \in T \cap Nat : n + 1 \in T
  PROVE  Nat \subseteq T
  <1> SUFFICES ASSUME Nat \ T # {} PROVE FALSE
    OBVIOUS
  <1>1. PICK x \in Nat \ T : \A y \in Nat \ T : x <= y
    BY LeastElement
  <1>2. x # 0 /\ x - 1 \in Nat /\ x - 1 + 1 = x
    OBVIOUS
  <1>3. x - 1 \in Nat \ T
    BY <1>2
  <1> QED
    BY <1>1, <1>2, <1>3

-----------------------------------------------------------------------------
(* The tokens of a line *)

\* The recursion by which Tokens takes a line apart.
Keeps(kept, text) ==
  /\ kept[0] = <<>>
  /\ \A k \in 1 .. Len(text) :
       /\ text[k] = Blank => kept[k] = kept[k - 1]
       /\ text[k] # Blank => kept[k] = Append(kept[k - 1], text[k])

\* The recursion of Tokens defines a function, for every line.
LEMMA TokensDefined ==
  ASSUME NEW text, Len(text) \in Nat
  PROVE  \E kept : Keeps(kept, text) /\ Tokens(text) = kept[Len(text)]
  <1> DEFINE e(g, k) == IF k = 0 THEN <<>>
                        ELSE IF text[k] = Blank THEN g[k - 1] ELSE Append(g[k - 1], text[k])
             From(n) == \E g : g = [k \in 0 .. n |-> e(g, k)]
             T == {n \in Nat : From(n)}
  <1>1. From(0)
    <2> DEFINE g == [k \in 0 .. 0 |-> <<>>]
    <2>1. g = [k \in 0 .. 0 |-> e(g, k)]
      OBVIOUS
    <2> HIDE DEF g
    <2> QED
      BY <2>1
  <1>2. ASSUME NEW n \in Nat, From(n) PROVE From(n + 1)
    <2>1. PICK g : g = [k \in 0 .. n |-> e(g, k)]
      BY <1>2
    <2> DEFINE h == [k \in 0 .. n + 1 |-> IF k = n + 1 THEN e(g, k) ELSE g[k]]
    <2>2. ASSUME NEW k \in 0 .. n + 1 PROVE e(h, k) = e(g, k)
      <3>1. k # 0 => h[k - 1] = g[k - 1]
        OBVIOUS
      <3> HIDE DEF h
      <3> QED
        BY <3>1
    <2>3. ASSUME NEW k \in 0 .. n + 1 PROVE h[k] = e(g, k)
      <3>1. CASE k = n + 1
        BY <3>1
      <3>2. CASE k # n + 1
        <4>1. k \in 0 .. n /\ h[k] = g[k]
          BY <3>2
        <4> HIDE DEF e, h
        <4> QED
          BY <2>1, <4>1
      <3> QED
        BY <3>1, <3>2
    <2>4. h = [k \in 0 .. n + 1 |-> e(h, k)]
      BY <2>2, <2>3
    <2> HIDE DEF h
    <2> QED
      BY <2>4
  <1> HIDE DEF From
  <1>3. From(Len(text))
    <2>1. 0 \in T /\ \A n \in T \cap Nat : n + 1 \in T
      BY <1>1, <1>2
    <2>2. Nat \subseteq T
      <3> HIDE DEF T
      <3> QED
        BY <2>1, SetInduction
    <2>3. Len(text) \in T
      BY <2>2
    <2> QED
      BY <2>3
  <1> DEFINE kept == CHOOSE g : g = [k \in 0 .. Len(text) |-> e(g, k)]
  <1>4. kept = [k \in 0 .. Len(text) |-> e(kept, k)]
    BY <1>3 DEF From
  <1>5. Tokens(text) = kept[Len(text)]
    BY DEF Tokens
  <1> HIDE DEF kept
  <1>6. kept[0] = <<>>
    BY <1>4
  <1>7. ASSUME NEW k \in 1 .. Len(text)
        PROVE  kept[k] = IF text[k] = Blank THEN kept[k - 1] ELSE Append(kept[k - 1], text[k])
    <2>1. k \in 0 .. Len(text) /\ k # 0
      OBVIOUS
    <2>2. kept[k] = e(kept, k)
      <3> HIDE DEF e
      <3> QED
        BY <1>4, <2>1
    <2> QED
      BY <2>1, <2>2
  <1> QED
    BY <1>5, <1>6, <1>7 DEF Keeps

\* The tokens are no blanks.
LEMMA TokensType ==
  ASSUME NEW text \in Seq(TokenType)
  PROVE  Tokens(text) \in Seq(TokenType \ {Blank})
  <1>1. PICK kept : Keeps(kept, text) /\ Tokens(text) = kept[Len(text)]
    BY TokensDefined
  <1> DEFINE T == {k \in Nat : k <= Len(text) => kept[k] \in Seq(TokenType \ {Blank})}
  <1>2. 0 \in T
    <2>1. kept[0] = <<>>
      BY <1>1 DEF Keeps
    <2>2. kept[0] \in Seq(TokenType \ {Blank})
      BY <2>1
    <2> QED
      BY <2>2
  <1>3. ASSUME NEW k \in T \cap Nat PROVE k + 1 \in T
    <2> SUFFICES ASSUME k + 1 <= Len(text) PROVE kept[k + 1] \in Seq(TokenType \ {Blank})
      OBVIOUS
    <2>1. kept[k] \in Seq(TokenType \ {Blank}) /\ text[k + 1] \in TokenType
      OBVIOUS
    <2> HIDE DEF T
    <2>2. k + 1 \in 1 .. Len(text) /\ k + 1 - 1 = k
      OBVIOUS
    <2>3. CASE text[k + 1] = Blank
      <3>1. kept[k + 1] = kept[k]
        BY <1>1, <2>2, <2>3 DEF Keeps
      <3> QED
        BY <2>1, <3>1
    <2>4. CASE text[k + 1] # Blank
      <3>1. kept[k + 1] = Append(kept[k], text[k + 1])
        BY <1>1, <2>2, <2>4 DEF Keeps
      <3>2. text[k + 1] \in TokenType \ {Blank}
        BY <2>1, <2>4
      <3> QED
        BY <2>1, <3>1, <3>2
    <2> QED
      BY <2>3, <2>4
  <1>4. Len(text) \in T
    <2> HIDE DEF T
    <2> QED
      BY <1>2, <1>3, SetInduction
  <1> QED
    BY <1>1, <1>4

\* Five words, a blank between any two.
Spaced(a, b, c, d, e) == <<a, Blank, b, Blank, c, Blank, d, Blank, e>>

AreWords(t, a, b, c, d, e) ==
  Len(t) = 5 /\ t[1] = a /\ t[2] = b /\ t[3] = c /\ t[4] = d /\ t[5] = e

LEMMA Appended ==
  ASSUME NEW S, NEW s \in Seq(S), NEW x \in S
  PROVE  /\ Append(s, x) \in Seq(S) /\ Len(Append(s, x)) = Len(s) + 1
         /\ Append(s, x)[Len(s) + 1] = x
         /\ \A i \in 1 .. Len(s) : Append(s, x)[i] = s[i]
  OBVIOUS

LEMMA TokensOfSpaced ==
  ASSUME NEW a \in TokenType \ {Blank}, NEW b \in TokenType \ {Blank},
         NEW c \in TokenType \ {Blank}, NEW d \in TokenType \ {Blank},
         NEW e \in TokenType \ {Blank}
  PROVE  AreWords(Tokens(Spaced(a, b, c, d, e)), a, b, c, d, e)
  <1> DEFINE l == Spaced(a, b, c, d, e)
             S == TokenType \ {Blank}
  <1>1. /\ Len(l) = 9 /\ l[2] = Blank /\ l[4] = Blank /\ l[6] = Blank /\ l[8] = Blank
        /\ l[1] = a /\ l[3] = b /\ l[5] = c /\ l[7] = d /\ l[9] = e
        /\ Len(l) \in Nat
    BY DEF Spaced
  <1>2. a \in S /\ b \in S /\ c \in S /\ d \in S /\ e \in S /\ Blank \notin S
    OBVIOUS
  <1> HIDE DEF l, S
  <1>3. PICK kept : Keeps(kept, l) /\ Tokens(l) = kept[Len(l)]
    BY <1>1, TokensDefined
  <1>4. kept[0] = <<>> /\ \A k \in 1 .. 9 :
          /\ l[k] = Blank => kept[k] = kept[k - 1]
          /\ l[k] # Blank => kept[k] = Append(kept[k - 1], l[k])
    BY <1>1, <1>3 DEF Keeps
  <1> HIDE DEF Blank
  <1>5. /\ kept[1] = Append(kept[0], a) /\ kept[2] = kept[1]
        /\ kept[3] = Append(kept[2], b) /\ kept[4] = kept[3]
        /\ kept[5] = Append(kept[4], c) /\ kept[6] = kept[5]
        /\ kept[7] = Append(kept[6], d) /\ kept[8] = kept[7]
        /\ kept[9] = Append(kept[8], e)
    BY <1>1, <1>2, <1>4
  <1>6. kept[1] \in Seq(S) /\ Len(kept[1]) = 1 /\ kept[1][1] = a
    BY <1>2, <1>4, <1>5
  <1>7. kept[3] \in Seq(S) /\ Len(kept[3]) = 2 /\ kept[3][1] = a /\ kept[3][2] = b
    <2>1. kept[1] \in Seq(S) /\ b \in S /\ kept[3] = Append(kept[1], b)
      BY <1>2, <1>5, <1>6
    <2>2. /\ kept[3] \in Seq(S) /\ Len(kept[3]) = Len(kept[1]) + 1
          /\ kept[3][Len(kept[1]) + 1] = b
          /\ \A i \in 1 .. Len(kept[1]) : kept[3][i] = kept[1][i]
      BY <2>1, Appended
    <2> QED
      BY <1>6, <2>2
  <1>8. /\ kept[5] \in Seq(S) /\ Len(kept[5]) = 3
        /\ kept[5][1] = a /\ kept[5][2] = b /\ kept[5][3] = c
    <2>1. kept[3] \in Seq(S) /\ c \in S /\ kept[5] = Append(kept[3], c)
      BY <1>2, <1>5, <1>7
    <2>2. /\ kept[5] \in Seq(S) /\ Len(kept[5]) = Len(kept[3]) + 1
          /\ kept[5][Len(kept[3]) + 1] = c
          /\ \A i \in 1 .. Len(kept[3]) : kept[5][i] = kept[3][i]
      BY <2>1, Appended
    <2> QED
      BY <1>7, <2>2
  <1>9. /\ kept[7] \in Seq(S) /\ Len(kept[7]) = 4
        /\ kept[7][1] = a /\ kept[7][2] = b /\ kept[7][3] = c /\ kept[7][4] = d
    <2>1. kept[5] \in Seq(S) /\ d \in S /\ kept[7] = Append(kept[5], d)
      BY <1>2, <1>5, <1>8
    <2>2. /\ kept[7] \in Seq(S) /\ Len(kept[7]) = Len(kept[5]) + 1
          /\ kept[7][Len(kept[5]) + 1] = d
          /\ \A i \in 1 .. Len(kept[5]) : kept[7][i] = kept[5][i]
      BY <2>1, Appended
    <2> QED
      BY <1>8, <2>2
  <1>10. AreWords(kept[9], a, b, c, d, e)
    <2>1. kept[7] \in Seq(S) /\ e \in S /\ kept[9] = Append(kept[7], e)
      BY <1>2, <1>5, <1>9
    <2>2. /\ kept[9] \in Seq(S) /\ Len(kept[9]) = Len(kept[7]) + 1
          /\ kept[9][Len(kept[7]) + 1] = e
          /\ \A i \in 1 .. Len(kept[7]) : kept[9][i] = kept[7][i]
      BY <2>1, Appended
    <2> QED
      BY <1>9, <2>2 DEF AreWords
  <1> QED
    BY <1>1, <1>3, <1>10 DEF l

\* A blank before a line adds no token.
LEMMA TokensAfterBlank ==
  ASSUME NEW text \in Seq(TokenType)
  PROVE  Tokens(<<Blank>> \o text) = Tokens(text)
  <1> DEFINE l == <<Blank>> \o text
  <1>0. Blank \in TokenType
    BY DEF Blank, Token, TokenType
  <1>1. /\ l \in Seq(TokenType) /\ Len(l) = Len(text) + 1 /\ l[1] = Blank
        /\ \A k \in 1 .. Len(text) : l[k + 1] = text[k]
    <2> HIDE DEF Blank
    <2> QED
      BY <1>0
  <1> HIDE DEF l
  <1>2. PICK kept : Keeps(kept, text) /\ Tokens(text) = kept[Len(text)]
    BY TokensDefined
  <1>3. PICK late : Keeps(late, l) /\ Tokens(l) = late[Len(l)]
    BY <1>1, TokensDefined
  <1> DEFINE T == {k \in Nat : k <= Len(text) => late[k + 1] = kept[k]}
  <1>4. 0 \in T
    BY <1>1, <1>2, <1>3 DEF Keeps
  <1>5. ASSUME NEW k \in T \cap Nat PROVE k + 1 \in T
    <2> SUFFICES ASSUME k + 1 <= Len(text) PROVE late[k + 1 + 1] = kept[k + 1]
      OBVIOUS
    <2>1. late[k + 1] = kept[k]
      OBVIOUS
    <2> HIDE DEF T
    <2>2. k + 1 \in 1 .. Len(text) /\ k + 1 - 1 = k
      OBVIOUS
    <2>3. k + 2 \in 1 .. Len(l) /\ k + 2 - 1 = k + 1 /\ k + 1 + 1 = k + 2
      BY <1>1
    <2>4. l[k + 2] = text[k + 1]
      BY <1>1, <2>2, <2>3
    <2>5. /\ text[k + 1] = Blank => kept[k + 1] = kept[k]
          /\ text[k + 1] # Blank => kept[k + 1] = Append(kept[k], text[k + 1])
      BY <1>2, <2>2 DEF Keeps
    <2>6. /\ l[k + 2] = Blank => late[k + 2] = late[k + 1]
          /\ l[k + 2] # Blank => late[k + 2] = Append(late[k + 1], l[k + 2])
      <3> DEFINE j == k + 2
      <3>1. j \in 1 .. Len(l) /\ j - 1 = k + 1
        BY <2>3
      <3> HIDE DEF j
      <3>2. /\ l[j] = Blank => late[j] = late[j - 1]
            /\ l[j] # Blank => late[j] = Append(late[j - 1], l[j])
        BY <1>3, <3>1 DEF Keeps
      <3> QED
        BY <3>1, <3>2 DEF j
    <2> QED
      BY <2>1, <2>3, <2>4, <2>5, <2>6
  <1>6. Len(text) \in T
    <2> HIDE DEF T
    <2> QED
      BY <1>4, <1>5, SetInduction
  <1> QED
    BY <1>1, <1>2, <1>3, <1>6 DEF l

-----------------------------------------------------------------------------
(* An order is printed and read *)

OrderType == [order_id : TokenType \ {Blank}, side : {"BUY", "SELL"},
              instrument : TokenType \ {Blank},
              remaining_quantity : -IntMax - 1 .. IntMax, price : Int]

\* The recursion by which Unit counts the digits of a price.
Counts(unit, N) ==
  \A n \in 0 .. N : /\ n < 1000000 => unit[n] = 1
                    /\ n >= 1000000 => unit[n] = 10 * unit[n \div 10]

\* The recursion of Unit defines a function, for every price.
LEMMA UnitDefined ==
  ASSUME NEW p \in Int
  PROVE  \E unit : Counts(unit, Abs(p)) /\ Unit(p) = unit[Abs(p)]
  <1> DEFINE e(g, n) == IF n < 1000000 THEN 1 ELSE 10 * g[n \div 10]
             From(m) == \E g : g = [n \in 0 .. m |-> e(g, n)]
             T == {m \in Nat : From(m)}
  <1>0. Abs(p) \in Nat
    BY DEF Abs
  <1>1. From(0)
    <2> DEFINE g == [n \in 0 .. 0 |-> 1]
    <2>1. g = [n \in 0 .. 0 |-> e(g, n)]
      OBVIOUS
    <2> HIDE DEF g
    <2> QED
      BY <2>1
  <1>2. ASSUME NEW m \in Nat, From(m) PROVE From(m + 1)
    <2>1. PICK g : g = [n \in 0 .. m |-> e(g, n)]
      BY <1>2
    <2> DEFINE h == [n \in 0 .. m + 1 |-> IF n = m + 1 THEN e(g, n) ELSE g[n]]
    <2>2. ASSUME NEW n \in 0 .. m + 1 PROVE e(h, n) = e(g, n)
      <3>1. n >= 1000000 => h[n \div 10] = g[n \div 10]
        <4> SUFFICES ASSUME n >= 1000000 PROVE h[n \div 10] = g[n \div 10]
          OBVIOUS
        <4>1. n \div 10 \in 0 .. m + 1 /\ n \div 10 # m + 1
          OBVIOUS
        <4> QED
          BY <4>1
      <3> HIDE DEF h
      <3> QED
        BY <3>1
    <2>3. ASSUME NEW n \in 0 .. m + 1 PROVE h[n] = e(g, n)
      <3>1. CASE n = m + 1
        BY <3>1
      <3>2. CASE n # m + 1
        <4>1. n \in 0 .. m /\ h[n] = g[n]
          BY <3>2
        <4> HIDE DEF e, h
        <4> QED
          BY <2>1, <4>1
      <3> QED
        BY <3>1, <3>2
    <2>4. h = [n \in 0 .. m + 1 |-> e(h, n)]
      BY <2>2, <2>3
    <2> HIDE DEF h
    <2> QED
      BY <2>4
  <1> HIDE DEF From
  <1>3. From(Abs(p))
    <2>1. 0 \in T /\ \A m \in T \cap Nat : m + 1 \in T
      BY <1>1, <1>2
    <2>2. Nat \subseteq T
      <3> HIDE DEF T
      <3> QED
        BY <2>1, SetInduction
    <2> QED
      BY <1>0, <2>2
  <1> DEFINE unit == CHOOSE g : g = [n \in 0 .. Abs(p) |-> e(g, n)]
  <1>4. unit = [n \in 0 .. Abs(p) |-> e(unit, n)]
    <2> HIDE DEF e
    <2> QED
      BY <1>3, Zenon DEF From
  <1>5. Unit(p) = unit[Abs(p)]
    BY DEF Unit
  <1> HIDE DEF unit
  <1>6. ASSUME NEW n \in 0 .. Abs(p)
        PROVE  unit[n] = IF n < 1000000 THEN 1 ELSE 10 * unit[n \div 10]
    <2>1. unit[n] = e(unit, n)
      <3> HIDE DEF e
      <3> QED
        BY <1>4
    <2> QED
      BY <2>1
  <1>7. Counts(unit, Abs(p))
    BY <1>0, <1>6 DEF Counts
  <1> QED
    BY <1>5, <1>7

\* The unit is at most a hundred thousandth of a price that has more than six digits.
LEMMA UnitBounds ==
  ASSUME NEW p \in Int
  PROVE  /\ Unit(p) \in Nat /\ Unit(p) >= 1
         /\ Abs(p) < 1000000 => Unit(p) = 1
         /\ Abs(p) >= 1000000 => 100000 * Unit(p) <= Abs(p)
         /\ 1000000 <= Abs(p) /\ Abs(p) < 10000000 => Unit(p) = 10
  <1>0. Abs(p) \in Nat
    BY DEF Abs
  <1>1. PICK unit : Counts(unit, Abs(p)) /\ Unit(p) = unit[Abs(p)]
    BY UnitDefined
  <1> DEFINE Fits(n) == /\ unit[n] \in Nat /\ unit[n] >= 1
                        /\ n >= 1000000 => 100000 * unit[n] <= n
             S == {n \in 0 .. Abs(p) : ~Fits(n)}
  <1>2. S = {}
    <2> SUFFICES ASSUME S # {} PROVE FALSE
      OBVIOUS
    <2>1. PICK n \in S : \A m \in S : n <= m
      <3>1. S \subseteq Nat
        BY <1>0
      <3> HIDE DEF S
      <3> QED
        BY <3>1, LeastElement
    <2>2. n \in 0 .. Abs(p) /\ n \in Nat /\ ~Fits(n)
      BY <1>0, <2>1
    <2>3. CASE n < 1000000
      BY <1>1, <2>2, <2>3 DEF Counts
    <2>4. CASE n >= 1000000
      <3> DEFINE d == n \div 10
      <3>1. d \in Nat /\ d < n /\ d >= 100000 /\ 10 * d <= n
        BY <2>2, <2>4
      <3>2. unit[n] = 10 * unit[d]
        BY <1>1, <2>2, <2>4 DEF Counts
      <3> HIDE DEF d
      <3>3. d \in 0 .. Abs(p)
        BY <1>0, <2>2, <3>1
      <3>4. Fits(d)
        <4> SUFFICES ASSUME d \in S PROVE FALSE
          BY <3>3
        <4> QED
          BY <2>1, <2>2, <3>1
      <3>5. d < 1000000 => unit[d] = 1
        BY <1>1, <3>3 DEF Counts
      <3> DEFINE u == unit[d]
      <3>6. u \in Nat /\ u >= 1 /\ 100000 * u <= d
        BY <3>1, <3>4, <3>5
      <3> HIDE DEF u
      <3>7. 10 * u \in Nat /\ 10 * u >= 1 /\ 100000 * (10 * u) <= n
        BY <2>2, <3>1, <3>6
      <3> QED
        BY <2>2, <3>2, <3>7 DEF u
    <2> QED
      BY <2>2, <2>3, <2>4
  <1>3. Fits(Abs(p))
    BY <1>0, <1>2
  <1>4. Abs(p) < 1000000 => unit[Abs(p)] = 1
    BY <1>0, <1>1 DEF Counts
  <1>5. 1000000 <= Abs(p) /\ Abs(p) < 10000000 => unit[Abs(p)] = 10
    <2> SUFFICES ASSUME 1000000 <= Abs(p), Abs(p) < 10000000 PROVE unit[Abs(p)] = 10
      OBVIOUS
    <2> DEFINE a == Abs(p)
               d == a \div 10
    <2>1. a \in Nat /\ 1000000 <= a /\ a < 10000000
      BY <1>0
    <2>2. unit[a] = 10 * unit[d]
      BY <1>0, <1>1, <2>1 DEF Counts
    <2>3. d \in 0 .. a /\ d < 1000000
      <3> HIDE DEF a
      <3> QED
        BY <2>1
    <2>4. unit[d] = 1
      <3> HIDE DEF d
      <3> QED
        BY <1>0, <1>1, <2>3 DEF Counts
    <2> QED
      BY <2>2, <2>4
  <1> QED
    BY <1>1, <1>3, <1>4, <1>5

\* Rounding takes away nothing before the seventh digit.
LEMMA RoundingsClose ==
  ASSUME NEW p \in Int, NEW q \in Roundings(p)
  PROVE  /\ q \in Int
         /\ Abs(q - p) * 200000 <= Abs(p)
         /\ Abs(p) < 1000000 => q = p
  <1> DEFINE u == Unit(p)
             low == (p \div u) * u
  <1>1. /\ u \in Nat /\ u >= 1
        /\ Abs(p) < 1000000 => u = 1
        /\ Abs(p) >= 1000000 => 100000 * u <= Abs(p)
    BY UnitBounds
  <1>2. q \in {low, low + u} /\ 2 * Abs(q - p) <= u
    BY DEF Roundings
  <1>3. p \div u \in Int
    <2> HIDE DEF u
    <2> QED
      BY <1>1
  <1> HIDE DEF u
  <1>4. q \in Int
    BY <1>1, <1>2, <1>3
  <1> HIDE DEF low
  <1>5. Abs(p) \in Nat /\ Abs(q - p) \in Nat
    BY <1>4 DEF Abs
  <1>6. CASE Abs(p) < 1000000
    <2>1. 2 * Abs(q - p) <= 1
      BY <1>1, <1>2, <1>6
    <2>2. Abs(q - p) = 0
      BY <1>5, <2>1
    <2>3. q = p
      BY <1>4, <2>2 DEF Abs
    <2> QED
      BY <1>4, <1>5, <2>2, <2>3
  <1>7. CASE Abs(p) >= 1000000
    BY <1>1, <1>2, <1>4, <1>5, <1>7
  <1> QED
    BY <1>5, <1>6, <1>7

\* A price such as the generator makes.
Generable(p) == -10000000 < p /\ p < 10000000 /\ p % 100 = 0

\* Such a price has digits to spare.
LEMMA GenerableStays ==
  ASSUME NEW p \in Int, Generable(p), NEW q \in Roundings(p)
  PROVE  q = p
  <1>1. CASE Abs(p) < 1000000
    BY <1>1, RoundingsClose
  <1>2. CASE Abs(p) >= 1000000
    <2>1. 1000000 <= Abs(p) /\ Abs(p) < 10000000
      BY <1>2 DEF Abs, Generable
    <2>2. Unit(p) = 10
      BY <2>1, UnitBounds
    <2>3. (p \div 10) * 10 = p
      BY DEF Generable
    <2>4. q \in {p, p + 10} /\ 2 * Abs(q - p) <= 10
      BY <2>2, <2>3 DEF Roundings
    <2>5. q # p + 10
      BY <2>4 DEF Abs
    <2> QED
      BY <2>4, <2>5
  <1> QED
    BY <1>1, <1>2 DEF Abs

\* What was written in hundredths is read back.
LEMMA WholeOfHundred ==
  ASSUME NEW q \in Int
  PROVE  Whole(100 * q) = q
  <1>1. CASE q >= 0
    <2>1. ~(100 * q < 0) /\ (100 * q) \div 100 = q
      BY <1>1
    <2> QED
      BY <2>1 DEF Whole
  <1>2. CASE q < 0
    <2>1. 100 * q < 0 /\ (-(100 * q)) \div 100 = -q
      BY <1>2
    <2> QED
      BY <2>1 DEF Whole
  <1> QED
    BY <1>1, <1>2

\* However it is printed, an order has the same five words, but for its price.
LEMMA PrintedWords ==
  ASSUME NEW o \in OrderType, NEW l \in Printings(o)
  PROVE  \E p \in Roundings(o.price) :
           /\ AreWords(Tokens(l), o.order_id, SideWord(o.side), o.instrument,
                       Num(100 * o.remaining_quantity), Num(p))
           /\ l \in Seq(TokenType)
  <1> DEFINE s == SideWord(o.side)
             q == Num(100 * o.remaining_quantity)
             text(p) == Spaced(o.order_id, s, o.instrument, q, Num(p))
  <1>1. PICK p \in Roundings(o.price) : l = text(p) \/ l = <<Blank>> \o text(p)
    BY DEF Printings, Spaced
  <1> DEFINE line0 == text(p)
  <1>2. s \in TokenType \ {Blank}
    BY DEF SideWord, Word, Token, Blank, TokenType
  <1>3. ASSUME NEW v \in Int PROVE Num(v) \in TokenType \ {Blank}
    BY DEF Num, Token, Blank, TokenType
  <1>4. q \in TokenType \ {Blank} /\ Num(p) \in TokenType \ {Blank}
    <2>1. 100 * o.remaining_quantity \in Int /\ o.price \in Int
      BY IntMaxAssumption DEF OrderType
    <2>2. p \in Int
      BY <2>1, RoundingsClose
    <2> QED
      BY <1>3, <2>1, <2>2
  <1>5. o.order_id \in TokenType \ {Blank} /\ o.instrument \in TokenType \ {Blank}
    BY DEF OrderType
  <1>6. Blank \in TokenType
    BY DEF Blank, Token, TokenType
  <1> HIDE DEF s, q
  <1>7. line0 \in Seq(TokenType) /\ <<Blank>> \in Seq(TokenType)
    <2> HIDE DEF Blank, TokenType
    <2> QED
      BY <1>2, <1>4, <1>5, <1>6 DEF Spaced
  <1>8. l = line0 \/ l = <<Blank>> \o line0
    BY <1>1
  <1>9. AreWords(Tokens(line0), o.order_id, s, o.instrument, q, Num(p))
    BY <1>2, <1>4, <1>5, TokensOfSpaced
  <1> HIDE DEF line0
  <1>10. Tokens(l) = Tokens(line0)
    BY <1>7, <1>8, TokensAfterBlank
  <1>11. l \in Seq(TokenType)
    <2>1. <<Blank>> \o line0 \in Seq(TokenType)
      BY <1>7
    <2> QED
      BY <1>7, <1>8, <2>1
  <1> QED
    BY <1>9, <1>10, <1>11 DEF s, q

\* What is printed of an order is an order: the same, but for its price.
LEMMA PrintedIsRead ==
  ASSUME NEW o \in OrderType, NEW l \in Printings(o)
  PROVE  IsOrder(l) /\ \E p \in Roundings(o.price) : from_string(l) = [o EXCEPT !.price = p]
  <1> DEFINE t == Tokens(l)
             q == o.remaining_quantity
  <1>1. PICK p \in Roundings(o.price) :
          AreWords(t, o.order_id, SideWord(o.side), o.instrument, Num(100 * q), Num(p))
    BY PrintedWords
  <1>2. q \in -IntMax - 1 .. IntMax /\ q \in Int /\ p \in Int
    <2>1. o.price \in Int
      BY DEF OrderType
    <2> QED
      BY <2>1, RoundingsClose, IntMaxAssumption DEF OrderType
  <1>3. Whole(100 * q) = q
    BY <1>2, WholeOfHundred
  <1>4. (IF SideWord(o.side).initial = 66 THEN "BUY" ELSE "SELL") = o.side
    BY DEF OrderType, SideWord, Word, Token
  <1>5. Num(100 * q).value = 100 * q /\ Num(p).value = p
    BY DEF Num, Token
  <1>6. 100 * q \in Int
    BY <1>2
  <1> HIDE DEF q
  <1>7. IsOrder(l)
    BY <1>1, <1>2, <1>3, <1>5, <1>6, NoneAssumption DEF AreWords, IsOrder
  <1>8. from_string(l) = [order_id |-> o.order_id, side |-> o.side, instrument |-> o.instrument,
                          remaining_quantity |-> q, price |-> p]
    BY <1>1, <1>3, <1>4, <1>5 DEF AreWords, from_string
  <1>9. [o EXCEPT !.price = p]
          = [order_id |-> o.order_id, side |-> o.side, instrument |-> o.instrument,
             remaining_quantity |-> q, price |-> p]
    BY DEF OrderType, q
  <1> QED
    BY <1>7, <1>8, <1>9

\* A line that is an order makes one.
LEMMA ReadType ==
  ASSUME NEW l \in Seq(TokenType), IsOrder(l)
  PROVE  from_string(l) \in OrderType
  <1> DEFINE t == Tokens(l)
  <1>1. t \in Seq(TokenType \ {Blank})
    BY TokensType
  <1>2. Len(t) = 5 /\ t[5].value # None /\ Whole(t[4].value) \in -IntMax - 1 .. IntMax
    BY DEF IsOrder
  <1>3. from_string(l) =
          [order_id |-> t[1], side |-> IF t[2].initial = 66 THEN "BUY" ELSE "SELL",
           instrument |-> t[3], remaining_quantity |-> Whole(t[4].value), price |-> t[5].value]
    BY DEF from_string
  <1> HIDE DEF t
  <1>4. \A i \in 1 .. 5 : t[i] \in TokenType \ {Blank}
    <2>1. \A i \in 1 .. Len(t) : t[i] \in TokenType \ {Blank}
      BY <1>1
    <2> QED
      BY <1>2, <2>1
  <1>5. t[5].value \in Int
    BY <1>2, <1>4 DEF TokenType
  <1> QED
    BY <1>2, <1>3, <1>4, <1>5 DEF OrderType

-----------------------------------------------------------------------------
(* Engines *)

LEMMA PartitionsInRange ==
  ASSUME concurrency \in Int
  PROVE  /\ NumPartitions \in 1 .. 62
         /\ concurrency < 1 => NumPartitions = 1
         /\ concurrency >= 1 => NumPartitions <= concurrency
  BY DEF NumPartitions, NumSyms

\* Symbols are numbered in the order of their codes.
LEMMA SymbolsAscend ==
  ASSUME NEW i \in Int, NEW j \in Int, i < j
  PROVE  SymCode(i) \in Int /\ SymCode(j) \in Int /\ SymCode(i) < SymCode(j)
  BY DEF SymCode

\* Engine e is the first whose partition, one of parts, is more than c, or the last.
Chosen(parts, c, e) ==
  /\ e \in 1 .. Len(parts)
  /\ e < Len(parts) => c < parts[e]
  /\ \A i \in 1 .. Len(parts) - 1 : c < parts[i] => e <= i

LEMMA EngineChosen ==
  ASSUME ordered_partitions \in Seq(Int), Len(ordered_partitions) >= 1, NEW c \in Int
  PROVE  Chosen(ordered_partitions, c, find_engine(c))
  <1> DEFINE n == Len(ordered_partitions)
             Before == {i \in 1 .. n - 1 : Precedes(c, i)}
             first == CHOOSE i \in Before : \A j \in Before : i <= j
  <1>1. n \in Nat /\ n >= 1 /\ Before \subseteq Nat
    OBVIOUS
  <1>2. find_engine(c) = IF Before = {} THEN n ELSE first
    BY DEF find_engine
  <1>3. \A i \in 1 .. n - 1 : c < ordered_partitions[i] <=> i \in Before
    BY DEF Precedes
  <1>4. Before \subseteq 1 .. n - 1
    OBVIOUS
  <1>5. Before # {} => first \in Before /\ \A j \in Before : first <= j
    <2> SUFFICES ASSUME Before # {} PROVE first \in Before /\ \A j \in Before : first <= j
      OBVIOUS
    <2> HIDE DEF Before
    <2>1. \E i \in Before : \A j \in Before : i <= j
      BY <1>1, LeastElement
    <2> QED
      BY <2>1
  <1> HIDE DEF Before, first
  <1>6. CASE Before = {}
    <2>1. find_engine(c) = n
      BY <1>2, <1>6
    <2>2. \A i \in 1 .. n - 1 : ~(c < ordered_partitions[i])
      BY <1>3, <1>6
    <2> QED
      BY <1>1, <2>1, <2>2 DEF Chosen
  <1>7. CASE Before # {}
    <2>1. /\ find_engine(c) = first /\ first \in Before /\ first \in 1 .. n - 1
          /\ \A j \in Before : first <= j
      BY <1>2, <1>4, <1>5, <1>7
    <2>2. c < ordered_partitions[first] /\ \A i \in 1 .. n - 1 : c < ordered_partitions[i] => first <= i
      BY <1>3, <2>1
    <2>3. first \in 1 .. n
      BY <1>1, <2>1
    <2> QED
      BY <2>1, <2>2, <2>3 DEF Chosen
  <1> QED
    BY <1>6, <1>7

\* An instrument that sorts after another is for no earlier engine.
LEMMA ChosenAscends ==
  ASSUME NEW parts \in Seq(Int), NEW b \in Int, NEW c \in Int, b <= c, NEW d, NEW e,
         Chosen(parts, b, d), Chosen(parts, c, e)
  PROVE  d <= e
  <1>1. d \in Nat /\ e \in Nat /\ d <= Len(parts) /\ e <= Len(parts) /\ e >= 1 /\ Len(parts) \in Nat
    BY DEF Chosen
  <1>2. CASE e = Len(parts)
    BY <1>1, <1>2
  <1>3. CASE e < Len(parts)
    <2>1. c < parts[e] /\ e \in 1 .. Len(parts) - 1
      BY <1>1, <1>3 DEF Chosen
    <2>2. parts[e] \in Int
      BY <1>1
    <2>3. b < parts[e]
      BY <2>1, <2>2
    <2> QED
      BY <2>1, <2>3 DEF Chosen
  <1> QED
    BY <1>1, <1>2, <1>3

\* The last partition is a symbol.
LEMMA LastSymbol ==
  ASSUME NEW n \in 1 .. 62
  PROVE  62 \div n \in Nat /\ n * (62 \div n) <= 62
  OBVIOUS

-----------------------------------------------------------------------------
(* The invariants *)

WordType == [reads : {"int", "junk", "large"}, value : Int,
             file : {"stdin", "opens", "missing"}]

Typed ==
  /\ argv \in Seq(WordType)
  /\ stage \in {"parsing", "opening", "serving", "exited", "aborted"}
  /\ concurrency \in Int
  /\ ordered_partitions \in Seq(Int)
  /\ routed \in Int
  /\ next_order_id \in Nat
  /\ line \in Seq(TokenType) \cup {None}
  /\ order # None => order \in OrderType

\* Nothing is made before the words are read and the provider is open, and what they
\* say is never lost.
Asked ==
  /\ stage = "parsing" => concurrency = 0
  /\ stage \in {"parsing", "opening"} => ordered_partitions = <<>> /\ line = None
  /\ stage \in {"opening", "serving"} =>
       /\ BatchSizeWord.reads = "int" /\ ConcurrencyWord.reads = "int"
       /\ config = [batch_size |-> BatchSizeWord.value, filename |-> Argument(3, Dash)]
       /\ concurrency = ConcurrencyWord.value
  /\ stage = "serving" => Opens(config.filename)
  /\ stage \in {"exited", "aborted"} /\ line = None => ~Acceptable
  /\ ordered_partitions # <<>> => concurrency = ConcurrencyWord.value

\* Each partition is the symbol at its place, and an order goes to the engine that
\* the partitions say.
Partitioned ==
  /\ Len(ordered_partitions) <= NumPartitions
  /\ \A k \in 1 .. Len(ordered_partitions) : ordered_partitions[k] = SymCode(k * Skip)
  /\ engine = 0 \/ (Built /\ Chosen(ordered_partitions, routed, engine))

\* A generated order is on its way, or it has arrived.
Carried ==
  /\ generated # None /\ line # None =>
       /\ stage = "serving"
       /\ generated \in OrderType /\ Generable(generated.price)
       /\ line \in Printings(generated)
  /\ generated # None /\ line = None => order = generated

Inv == Typed /\ Asked /\ Partitioned /\ Carried

-----------------------------------------------------------------------------
(* They hold at first *)

LEMMA InitInv == Init => Inv
  <1> SUFFICES ASSUME Init PROVE Inv
    OBVIOUS
  <1> USE DEF Init
  <1>1. Typed
    <2>1. argv \in Seq(WordType)
      <3>1. argv \in Seq(Words)
        BY CommandLinesAssumption
      <3>2. Words \subseteq WordType
        BY CommandLinesAssumption DEF WordType
      <3> QED
        BY <3>1, <3>2
    <2> QED
      BY <2>1 DEF Typed
  <1>2. Asked
    BY DEF Asked
  <1>3. Partitioned
    <2>1. Len(ordered_partitions) = 0
      OBVIOUS
    <2>2. 0 <= NumPartitions
      BY PartitionsInRange
    <2>3. Len(ordered_partitions) <= NumPartitions
      BY <2>1, <2>2
    <2>4. \A k \in 1 .. Len(ordered_partitions) : ordered_partitions[k] = SymCode(k * Skip)
      BY <2>1
    <2>5. engine = 0
      OBVIOUS
    <2> QED
      BY ONLY <2>3, <2>4, <2>5 DEF Partitioned
  <1>4. Carried
    BY DEF Carried
  <1> QED
    BY <1>1, <1>2, <1>3, <1>4 DEF Inv

-----------------------------------------------------------------------------
(* Every step keeps them *)

\* What is told of the command line depends on nothing else.
LEMMA SameArguments ==
  ASSUME argv' = argv
  PROVE  /\ BatchSizeWord' = BatchSizeWord /\ ConcurrencyWord' = ConcurrencyWord
         /\ Argument(3, Dash)' = Argument(3, Dash) /\ Acceptable' = Acceptable
  BY DEF BatchSizeWord, ConcurrencyWord, Argument, Dash, Number, Acceptable

LEMMA WordsTyped ==
  ASSUME Typed
  PROVE  /\ BatchSizeWord \in WordType /\ ConcurrencyWord \in WordType
         /\ Argument(3, Dash) \in WordType
  <1>1. argv \in Seq(WordType)
    BY DEF Typed
  <1>2. Dash \in WordType /\ Number(0) \in WordType /\ Number(1) \in WordType
    BY DEF Dash, Number, WordType
  <1>3. ASSUME NEW i \in 1 .. 3, NEW w \in WordType PROVE Argument(i, w) \in WordType
    BY <1>1 DEF Argument
  <1> QED
    BY <1>2, <1>3 DEF BatchSizeWord, ConcurrencyWord

\* The words are what the usage asks for if the program takes them.
LEMMA AcceptableWords ==
  ASSUME Typed
  PROVE  Acceptable <=> /\ BatchSizeWord.reads = "int" /\ ConcurrencyWord.reads = "int"
                        /\ Opens(Argument(3, Dash))
  <1>1. DOMAIN argv = 1 .. Len(argv) /\ Len(argv) \in Nat
    BY DEF Typed
  <1>2. (1 \in DOMAIN argv => argv[1].reads = "int") <=> BatchSizeWord.reads = "int"
    BY <1>1 DEF BatchSizeWord, Argument, Number
  <1>3. (2 \in DOMAIN argv => argv[2].reads = "int") <=> ConcurrencyWord.reads = "int"
    BY <1>1 DEF ConcurrencyWord, Argument, Number
  <1>4. (3 \in DOMAIN argv => argv[3].file # "missing") <=> Opens(Argument(3, Dash))
    BY <1>1 DEF Argument, Opens, Dash
  <1> QED
    BY <1>2, <1>3, <1>4 DEF Acceptable

\* Without an engine nothing was routed.
LEMMA NoneRouted ==
  ASSUME Inv, ordered_partitions = <<>>
  PROVE  engine = 0
  <1>1. NumPartitions >= 1 /\ NumPartitions \in Nat
    <2>1. concurrency \in Int
      BY DEF Inv, Typed
    <2>2. NumPartitions \in 1 .. 62
      BY <2>1, PartitionsInRange
    <2> QED
      BY <2>2
  <1>2. Len(ordered_partitions) = 0
    OBVIOUS
  <1>3. ~Built
    BY <1>1, <1>2 DEF Built
  <1> QED
    BY <1>3 DEF Inv, Partitioned

\* What the routing says stays if the routing stays.
LEMMA SameRouting ==
  ASSUME Partitioned, UNCHANGED routing
  PROVE  Partitioned'
  BY DEF routing, Partitioned, NumPartitions, Skip, Built

LEMMA ParseInv == ASSUME Inv, parse_command_line PROVE Inv'
  <1> USE DEF parse_command_line, lineVars
  <1>1. Typed'
    <2>1. ConcurrencyWord.value \in Int
      BY WordsTyped DEF Inv, WordType
    <2> QED
      BY <2>1 DEF Inv, Typed
  <1>2. Asked'
    <2>1. ordered_partitions = <<>> /\ line = None
      BY DEF Inv, Asked
    <2> QED
      BY <2>1, SameArguments DEF Asked
  <1>3. Partitioned'
    <2>1. ordered_partitions' = <<>> /\ engine' = 0 /\ concurrency' \in Int
      BY <1>1, NoneRouted DEF Inv, Asked, Typed
    <2>2. NumPartitions' \in Nat
      BY <2>1 DEF NumPartitions, NumSyms
    <2>3. Len(ordered_partitions)' = 0
      BY <2>1
    <2>4. Len(ordered_partitions)' <= NumPartitions'
      <3>1. NumPartitions' >= 0
        BY <2>2
      <3> QED
        BY <2>2, <2>3, <3>1
    <2>5. (\A k \in 1 .. Len(ordered_partitions) : ordered_partitions[k] = SymCode(k * Skip))'
      BY <2>3
    <2>6. engine' = 0
      BY <2>1
    <2> QED
      BY ONLY <2>4, <2>5, <2>6 DEF Partitioned
  <1>4. Carried'
    <2>1. line' = None /\ line = None
      BY DEF Inv, Asked
    <2> QED
      BY <2>1 DEF Inv, Carried
  <1> QED
    BY <1>1, <1>2, <1>3, <1>4 DEF Inv

LEMMA RefuseInv == ASSUME Inv, Refuse PROVE Inv'
  <1> USE DEF Refuse, lineVars, routing
  <1>0. stage = "parsing" /\ stage' \in {"exited", "aborted"}
    OBVIOUS
  <1>1. Typed'
    BY <1>0 DEF Inv, Typed
  <1>2. Asked'
    <2>1. ~Acceptable
      <3>1. BatchSizeWord.reads # "int" \/ ConcurrencyWord.reads # "int"
        OBVIOUS
      <3> QED
        BY <3>1, AcceptableWords DEF Inv
    <2> QED
      BY <1>0, <2>1, SameArguments DEF Inv, Asked
  <1>3. Partitioned'
    BY SameRouting DEF Inv
  <1>4. Carried'
    BY <1>0 DEF Inv, Asked, Carried
  <1> QED
    BY <1>1, <1>2, <1>3, <1>4 DEF Inv

LEMMA OpenInv == ASSUME Inv, create_order_provider PROVE Inv'
  <1> USE DEF create_order_provider, lineVars, routing
  <1>0. stage = "opening" /\ stage' \in {"serving", "exited"} /\ (stage' = "serving" <=> Opens(config.filename))
    OBVIOUS
  <1>1. Typed'
    BY <1>0 DEF Inv, Typed
  <1>2. Asked'
    <2>1. config.filename = Argument(3, Dash)
      BY <1>0 DEF Inv, Asked
    <2>2. stage' = "exited" => ~Acceptable
      BY <1>0, <2>1, AcceptableWords DEF Inv
    <2>3. Opens(config.filename)' <=> Opens(config.filename)
      BY DEF Opens
    <2> QED
      BY <1>0, <2>2, <2>3, SameArguments DEF Inv, Asked
  <1>3. Partitioned'
    BY SameRouting DEF Inv
  <1>4. Carried'
    BY <1>0 DEF Inv, Asked, Carried
  <1> QED
    BY <1>1, <1>2, <1>3, <1>4 DEF Inv

LEMMA CreateInv == ASSUME Inv, CreateEngines PROVE Inv'
  <1> USE DEF CreateEngines, AddPartition, startVars, lineVars
  <1> DEFINE n == Len(ordered_partitions)
  <1>0. n \in Nat /\ ordered_partitions \in Seq(Int) /\ SymCode((n + 1) * Skip) \in Int
    <2>1. Skip \in Int
      <3>1. NumPartitions \in 1 .. 62
        BY PartitionsInRange DEF Inv, Typed
      <3> QED
        BY <3>1 DEF Skip, NumSyms
    <2>2. n \in Nat /\ ordered_partitions \in Seq(Int)
      BY DEF Inv, Typed
    <2>3. (n + 1) * Skip \in Int
      BY <2>1, <2>2
    <2> QED
      BY <2>2, <2>3 DEF SymCode
  <1>1. /\ ordered_partitions' \in Seq(Int) /\ Len(ordered_partitions') = n + 1
        /\ ordered_partitions'[n + 1] = SymCode((n + 1) * Skip)
        /\ \A k \in 1 .. n : ordered_partitions'[k] = ordered_partitions[k]
    BY <1>0, Appended
  <1>2. Typed'
    BY <1>1 DEF Inv, Typed
  <1>3. Asked'
    <2>1. Opens(config.filename)' <=> Opens(config.filename)
      BY DEF Opens
    <2> QED
      BY <2>1, SameArguments DEF Inv, Asked
  <1>4. Partitioned'
    <2>0. NumPartitions' = NumPartitions /\ Skip' = Skip
      BY DEF NumPartitions, Skip
    <2>1. NumPartitions \in Nat /\ n <= NumPartitions /\ n # NumPartitions
      <3>1. concurrency \in Int /\ n <= NumPartitions /\ n # NumPartitions
        BY DEF Inv, Typed, Partitioned, Built
      <3>2. NumPartitions \in 1 .. 62
        BY <3>1, PartitionsInRange
      <3> QED
        BY <3>1, <3>2
    <2>2. Len(ordered_partitions)' <= NumPartitions'
      BY <1>0, <1>1, <2>0, <2>1
    <2>3. ASSUME NEW k \in 1 .. n + 1 PROVE ordered_partitions'[k] = SymCode(k * Skip)
      <3>1. CASE k \in 1 .. n
        BY <1>1, <3>1 DEF Inv, Partitioned
      <3>2. CASE k \notin 1 .. n
        <4>1. k = n + 1
          BY <1>0, <3>2
        <4> QED
          BY <1>1, <4>1
      <3> QED
        BY <3>1, <3>2
    <2>4. (\A k \in 1 .. Len(ordered_partitions) : ordered_partitions[k] = SymCode(k * Skip))'
      BY <1>1, <2>0, <2>3
    <2>5. engine' = 0
      BY DEF Inv, Partitioned
    <2> QED
      BY ONLY <2>2, <2>4, <2>5 DEF Partitioned
  <1>5. Carried'
    BY DEF Inv, Carried
  <1> QED
    BY <1>2, <1>3, <1>4, <1>5 DEF Inv

LEMMA GeneratedType ==
  ASSUME NEW id \in Nat, NEW o \in generate_random_order(Instruments, id)
  PROVE  o \in OrderType /\ Generable(o.price)
  <1>1. PICK i \in Instruments, side \in {"BUY", "SELL"} :
          o \in [order_id : {Num(100 * id)}, side : {side}, instrument : {i.name},
                 remaining_quantity : generate_random_quantity,
                 price : pick_random_instrument_price(i, side)]
    <2> DEFINE M(i, side) == [order_id : {Num(100 * id)}, side : {side}, instrument : {i.name},
                              remaining_quantity : generate_random_quantity,
                              price : pick_random_instrument_price(i, side)]
    <2>1. o \in UNION {M(i, side) : i \in Instruments, side \in {"BUY", "SELL"}}
      BY DEF generate_random_order
    <2> HIDE DEF M
    <2>2. PICK i \in Instruments, side \in {"BUY", "SELL"} : o \in M(i, side)
      BY <2>1
    <2> QED
      BY <2>2 DEF M
  <1>2. Num(100 * id) \in TokenType \ {Blank}
    <2>1. 100 * id \in Int
      OBVIOUS
    <2> QED
      BY <2>1 DEF Num, Token, Blank, TokenType
  <1>3. /\ i.name \in TokenType \ {Blank}
        /\ i.last \in Int /\ i.last % 100 = 0
        /\ 100 <= i.last /\ i.last <= 999900
    BY InstrumentsAssumption
  <1>4. o.remaining_quantity \in -IntMax - 1 .. IntMax
    BY <1>1, IntMaxAssumption DEF generate_random_quantity
  <1>5. o.price \in Int /\ Generable(o.price)
    <2>1. PICK v \in -2 .. 2 : o.price = i.last + 100 * (IF side = "BUY" THEN -v ELSE v)
      BY <1>1 DEF pick_random_instrument_price
    <2>2. PICK d \in -2 .. 2 : o.price = i.last + 100 * d
      <3>1. -v \in -2 .. 2
        OBVIOUS
      <3> QED
        BY <2>1, <3>1
    <2> QED
      BY <1>3, <2>2 DEF Generable
  <1>6. o = [order_id |-> Num(100 * id), side |-> side, instrument |-> i.name,
             remaining_quantity |-> o.remaining_quantity, price |-> o.price]
    BY <1>1
  <1> QED
    BY <1>2, <1>3, <1>4, <1>5, <1>6 DEF OrderType

\* An order on paper is a line of words.
LEMMA PrintedType ==
  ASSUME NEW o \in OrderType, NEW l \in Printings(o)
  PROVE  l \in Seq(TokenType) /\ l # None
  BY PrintedWords, LinesAssumption

LEMMA GenerateInv ==
  ASSUME Inv, NEW o \in generate_random_order(Instruments, next_order_id), Generate(o)
  PROVE  Inv'
  <1> USE DEF Generate, Waiting, startVars, routing
  <1>1. o \in OrderType /\ Generable(o.price) /\ next_order_id \in Nat
    BY GeneratedType DEF Inv, Typed
  <1>2. line' \in Seq(TokenType) /\ line' # None
    BY <1>1, PrintedType
  <1>3. Typed'
    BY <1>1, <1>2 DEF Inv, Typed
  <1>4. Asked'
    <2>1. Opens(config.filename)' <=> Opens(config.filename)
      BY DEF Opens
    <2> QED
      BY <1>2, <2>1, SameArguments DEF Inv, Asked
  <1>5. Partitioned'
    BY SameRouting DEF Inv
  <1>6. Carried'
    BY <1>1, <1>2 DEF Carried
  <1> QED
    BY <1>3, <1>4, <1>5, <1>6 DEF Inv

LEMMA TypeInv == ASSUME Inv, NEW l \in TypedLines, Type(l) PROVE Inv'
  <1> USE DEF Type, Waiting, startVars, routing
  <1>1. line' \in Seq(TokenType) /\ line' # None
    BY LinesAssumption
  <1>2. Typed'
    BY <1>1 DEF Inv, Typed
  <1>3. Asked'
    <2>1. Opens(config.filename)' <=> Opens(config.filename)
      BY DEF Opens
    <2> QED
      BY <1>1, <2>1, SameArguments DEF Inv, Asked
  <1>4. Partitioned'
    BY SameRouting DEF Inv
  <1>5. Carried'
    BY DEF Carried
  <1> QED
    BY <1>2, <1>3, <1>4, <1>5 DEF Inv

\* A line that is read as an order.
Takes == /\ stage = "serving" /\ line # None /\ IsOrder(line)
         /\ order' = from_string(line)
         /\ line' = None
         /\ Route(from_string(line).instrument.initial)
         /\ UNCHANGED <<startVars, next_order_id, generated>>

\* A line that ends the program.
GivesUp == /\ stage = "serving" /\ line # None /\ ~IsOrder(line)
           /\ stage' = "aborted"
           /\ UNCHANGED <<argv, config, routing, lineVars>>

LEMMA ReadsOrGivesUp == ReadOrder => Takes \/ GivesUp
  BY DEF ReadOrder, Takes, GivesUp, startVars, routing, lineVars

\* The engine an order was routed to.
LEMMA Routes ==
  ASSUME Inv, NEW c \in Int, Route(c)
  PROVE  /\ routed' = c /\ Chosen(ordered_partitions, routed', engine')
         /\ Built /\ ordered_partitions' = ordered_partitions /\ concurrency' = concurrency
  <1>1. Built /\ routed' = c /\ engine' = find_engine(c)
        /\ ordered_partitions' = ordered_partitions /\ concurrency' = concurrency
    BY DEF Route
  <1>2. concurrency \in Int /\ ordered_partitions \in Seq(Int)
    BY DEF Inv, Typed
  <1>3. NumPartitions \in 1 .. 62
    BY <1>2, PartitionsInRange
  <1>4. Len(ordered_partitions) >= 1
    BY <1>1, <1>3 DEF Built
  <1>5. Chosen(ordered_partitions, c, find_engine(c))
    BY <1>2, <1>4, EngineChosen
  <1> QED
    BY <1>1, <1>5

LEMMA TakesInv == ASSUME Inv, Takes PROVE Inv'
  <1> USE DEF Takes, startVars
  <1>1. line \in Seq(TokenType) /\ from_string(line) \in OrderType
    BY ReadType DEF Inv, Typed
  <1>2. PICK c : c = from_string(line).instrument.initial
    OBVIOUS
  <1>3. c \in Int
    BY <1>1, <1>2 DEF OrderType, TokenType
  <1>4. /\ routed' = c /\ Chosen(ordered_partitions, routed', engine')
        /\ Built /\ ordered_partitions' = ordered_partitions /\ concurrency' = concurrency
    BY <1>2, <1>3, Routes
  <1>5. Typed'
    BY <1>1, <1>3, <1>4 DEF Inv, Typed
  <1>6. Asked'
    <2>1. Opens(config.filename)' <=> Opens(config.filename)
      BY DEF Opens
    <2> QED
      BY <1>4, <2>1, SameArguments DEF Inv, Asked
  <1>7. Partitioned'
    <2>1. NumPartitions' = NumPartitions /\ Skip' = Skip /\ (Built' <=> Built)
      BY <1>4 DEF NumPartitions, Skip, Built
    <2>2. Chosen(ordered_partitions, routed, engine)'
      BY <1>4
    <2> QED
      BY <1>4, <2>1, <2>2 DEF Inv, Partitioned
  <1>8. Carried'
    <2>1. line' = None
      OBVIOUS
    <2> SUFFICES ASSUME generated # None PROVE from_string(line) = generated
      BY <2>1 DEF Carried
    <2>2. generated \in OrderType /\ Generable(generated.price) /\ line \in Printings(generated)
      BY DEF Inv, Carried
    <2>3. PICK p \in Roundings(generated.price) :
            from_string(line) = [generated EXCEPT !.price = p]
      BY <2>2, PrintedIsRead
    <2>4. generated.price \in Int
      BY <2>2 DEF OrderType
    <2>5. p = generated.price
      BY <2>2, <2>4, GenerableStays
    <2> QED
      BY <2>2, <2>3, <2>5 DEF OrderType
  <1> QED
    BY <1>5, <1>6, <1>7, <1>8 DEF Inv

LEMMA GivesUpInv == ASSUME Inv, GivesUp PROVE Inv'
  <1> USE DEF GivesUp, lineVars, routing
  <1>1. Typed'
    BY DEF Inv, Typed
  <1>2. Asked'
    BY SameArguments DEF Inv, Asked
  <1>3. Partitioned'
    BY SameRouting DEF Inv
  <1>4. Carried'
    <2>1. generated = None
      <3> SUFFICES ASSUME generated # None PROVE FALSE
        OBVIOUS
      <3>1. generated \in OrderType /\ line \in Printings(generated)
        BY DEF Inv, Carried
      <3> QED
        BY <3>1, PrintedIsRead
    <2> QED
      BY <2>1 DEF Carried
  <1> QED
    BY <1>1, <1>2, <1>3, <1>4 DEF Inv

LEMMA StutterInv == ASSUME Inv, UNCHANGED vars PROVE Inv'
  <1> USE DEF vars, startVars, lineVars
  <1>1. Typed'
    BY DEF routing, Inv, Typed
  <1>2. Asked'
    <2>1. Opens(config.filename)' <=> Opens(config.filename)
      BY DEF Opens
    <2> QED
      BY <2>1, SameArguments DEF routing, Inv, Asked
  <1>3. Partitioned'
    BY SameRouting DEF Inv
  <1>4. Carried'
    BY DEF Inv, Carried
  <1> QED
    BY <1>1, <1>2, <1>3, <1>4 DEF Inv

LEMMA StepInv == Inv /\ [Next]_vars => Inv'
  <1> SUFFICES ASSUME Inv, [Next]_vars PROVE Inv'
    OBVIOUS
  <1>1. CASE parse_command_line
    BY <1>1, ParseInv
  <1>2. CASE Refuse
    BY <1>2, RefuseInv
  <1>3. CASE create_order_provider
    BY <1>3, OpenInv
  <1>4. CASE CreateEngines
    BY <1>4, CreateInv
  <1>5. ASSUME NEW o \in generate_random_order(Instruments, next_order_id), Generate(o)
        PROVE  Inv'
    BY <1>5, GenerateInv
  <1>6. ASSUME NEW l \in TypedLines, Type(l) PROVE Inv'
    BY <1>6, TypeInv
  <1>7. CASE ReadOrder
    BY <1>7, ReadsOrGivesUp, TakesInv, GivesUpInv
  <1>8. CASE UNCHANGED vars
    BY <1>8, StutterInv
  <1> QED
    BY <1>1, <1>2, <1>3, <1>4, <1>5, <1>6, <1>7, <1>8 DEF Next

LEMMA Always == Spec => []Inv
  BY InitInv, StepInv, PTL DEF Spec

-----------------------------------------------------------------------------
(* The theorems *)

\* main.cc, read_command_line: whatever the words, the program serves exactly the
\* command lines it can make sense of, with the settings they give, and makes more
\* than one engine only if asked for as many.
THEOREM ProgramStartsAsAsked == Spec => []StartsAsAsked
  <1>1. Inv => StartsAsAsked
    <2> SUFFICES ASSUME Inv PROVE StartsAsAsked
      OBVIOUS
    <2>0. /\ DOMAIN argv = 1 .. Len(argv) /\ Len(argv) \in Nat /\ concurrency \in Int
          /\ ordered_partitions \in Seq(Int)
      BY DEF Inv, Typed
    <2>1. stage = "serving" => Acceptable
      BY AcceptableWords DEF Inv, Asked
    <2>2. stage \in {"exited", "aborted"} /\ line = None => ~Acceptable
      BY DEF Inv, Asked
    <2>3. stage = "serving" =>
            /\ 1 \in DOMAIN argv => config.batch_size = argv[1].value
            /\ 2 \in DOMAIN argv => concurrency = argv[2].value
            /\ 3 \in DOMAIN argv => config.filename = argv[3]
            /\ Len(argv) < 3 => config.filename.file = "stdin"
      BY <2>0 DEF Inv, Asked, BatchSizeWord, ConcurrencyWord, Argument, Dash
    <2>4. Len(ordered_partitions) > 1 => Len(ordered_partitions) <= argv[2].value
      <3> SUFFICES ASSUME Len(ordered_partitions) > 1
                   PROVE  Len(ordered_partitions) <= argv[2].value
        OBVIOUS
      <3>1. /\ Len(ordered_partitions) <= NumPartitions /\ Len(ordered_partitions) \in Nat
            /\ concurrency = ConcurrencyWord.value
        BY <2>0 DEF Inv, Asked, Partitioned
      <3>2. NumPartitions \in 1 .. 62 /\ concurrency >= 1 /\ NumPartitions <= concurrency
        BY <2>0, <3>1, PartitionsInRange
      <3>3. Len(argv) >= 2
        BY <2>0, <3>1, <3>2 DEF ConcurrencyWord, Argument, Number
      <3>4. concurrency = argv[2].value
        BY <3>1, <3>3 DEF ConcurrencyWord, Argument
      <3> QED
        BY <2>0, <3>1, <3>2, <3>4
    <2> QED
      BY <2>1, <2>2, <2>3, <2>4 DEF StartsAsAsked
  <1> QED
    BY <1>1, Always, PTL

\* order.h, operator<<, and order_factory.h, from_string: every order of the generator
\* arrives as it was made; any order that was read, at whatever price, can be printed
\* and read again, and loses only the digits of its price after the sixth.
THEOREM OrdersSurvivePrinting == Spec => []RoundTrip
  <1>1. Inv => RoundTrip
    <2> SUFFICES ASSUME Inv PROVE RoundTrip
      OBVIOUS
    <2>1. /\ generated # None /\ line # None => stage # "aborted"
          /\ generated # None /\ line = None => order = generated
      BY DEF Inv, Carried
    <2>2. ASSUME order # None, NEW l \in Printings(order), NEW again, again = from_string(l)
          PROVE  /\ IsOrder(l)
                 /\ [again EXCEPT !.price = order.price] = order
                 /\ Abs(order.price) < 1000000 => again = order
                 /\ Abs(again.price - order.price) * 200000 <= Abs(order.price)
      <3>1. order \in OrderType /\ order.price \in Int
        BY <2>2 DEF Inv, Typed, OrderType
      <3>2. PICK p \in Roundings(order.price) : IsOrder(l) /\ again = [order EXCEPT !.price = p]
        BY <2>2, <3>1, PrintedIsRead
      <3>3. again.price = p /\ [again EXCEPT !.price = order.price] = order
        BY <3>1, <3>2 DEF OrderType
      <3>4. p = order.price => again = order
        BY <3>1, <3>2 DEF OrderType
      <3>5. /\ Abs(p - order.price) * 200000 <= Abs(order.price)
            /\ Abs(order.price) < 1000000 => p = order.price
        BY <3>1, RoundingsClose, SMT
      <3> QED
        BY <3>2, <3>3, <3>4, <3>5, SMT
    <2> QED
      BY <2>1, <2>2, SMT DEF RoundTrip
  <1> QED
    BY <1>1, Always, PTL

\* instrument_boundary_routing_strategy.cc, find_engine: for any number of engines, an
\* instrument that sorts after another never goes to an earlier engine.
THEOREM EnginesHaveRanges == Spec => RangesContiguous
  <1>1. Inv /\ [Next]_vars => [routed < routed' => engine <= engine']_<<routed, engine>>
    <2> SUFFICES ASSUME Inv, [Next]_vars, routed < routed' PROVE engine <= engine'
      OBVIOUS
    <2>1. routed \in Int /\ routed' \in Int /\ ordered_partitions \in Seq(Int)
      BY StepInv DEF Inv, Typed
    <2>2. routed' # routed
      BY <2>1
    <2>3. Takes
      <3>1. ReadOrder
        BY <2>2 DEF Next, vars, routing, parse_command_line, Refuse, create_order_provider,
                    CreateEngines, AddPartition, Generate, Type
      <3>2. ~GivesUp
        BY <2>2 DEF GivesUp, routing
      <3> QED
        BY <3>1, <3>2, ReadsOrGivesUp
    <2>4. Chosen(ordered_partitions, routed', engine')
      <3>1. line \in Seq(TokenType) /\ from_string(line) \in OrderType
        BY <2>3, ReadType DEF Takes, Inv, Typed
      <3>2. PICK c : c = from_string(line).instrument.initial
        OBVIOUS
      <3>3. c \in Int
        BY <3>1, <3>2 DEF OrderType, TokenType
      <3> QED
        BY <2>3, <3>2, <3>3, Routes DEF Takes
    <2>5. CASE engine = 0
      BY <2>4, <2>5 DEF Chosen
    <2>6. CASE engine # 0
      <3>1. Chosen(ordered_partitions, routed, engine)
        BY <2>6 DEF Inv, Partitioned
      <3> QED
        BY <2>1, <2>4, <3>1, ChosenAscends
    <2> QED
      BY <2>5, <2>6
  <1> QED
    BY <1>1, Always, PTL DEF Spec, RangesContiguous

\* instrument_boundary_routing_strategy.cc, the constructor: up to 31 engines each get
\* the instruments of some letter or digit.
THEOREM EnginesHaveInstruments == Spec => []EveryEngineHasInstruments
  <1>1. Inv => EveryEngineHasInstruments
    <2> SUFFICES ASSUME Inv, Built, Skip > 1
                 PROVE  {find_engine(SymCode(i)) : i \in 1 .. NumSyms} = DOMAIN ordered_partitions
      BY DEF EveryEngineHasInstruments
    <2> DEFINE n == Len(ordered_partitions)
    <2>1. n \in 1 .. 62 /\ n >= 1 /\ ordered_partitions \in Seq(Int) /\ n * Skip <= 62 /\ Skip \in Nat
      <3>1. concurrency \in Int /\ ordered_partitions \in Seq(Int)
        BY DEF Inv, Typed
      <3>2. NumPartitions \in 1 .. 62
        BY <3>1, PartitionsInRange
      <3>3. n = NumPartitions
        BY DEF Built
      <3> QED
        BY <3>1, <3>2, <3>3, LastSymbol DEF Skip, NumSyms
    <2>2. DOMAIN ordered_partitions = 1 .. n
      BY <2>1
    <2>3. \A k \in 1 .. n : ordered_partitions[k] = SymCode(k * Skip)
      BY DEF Inv, Partitioned
    <2>4. ASSUME NEW c \in Int PROVE Chosen(ordered_partitions, c, find_engine(c))
      <3>1. Len(ordered_partitions) >= 1
        BY <2>1
      <3> QED
        BY <2>1, <3>1, EngineChosen
    <2> HIDE DEF n
    <2>5. ASSUME NEW i \in 1 .. 62 PROVE SymCode(i) \in Int /\ find_engine(SymCode(i)) \in 1 .. n
      <3>1. SymCode(i) \in Int
        BY DEF SymCode
      <3> QED
        BY <2>4, <3>1 DEF Chosen, n
    <2>6. ASSUME NEW k \in 1 .. n
          PROVE  \E i \in 1 .. 62 : find_engine(SymCode(i)) = k
      <3> DEFINE i == k * Skip - 1
                 e == find_engine(SymCode(i))
      <3>1. k * Skip \in Int /\ k * Skip <= n * Skip /\ k * Skip >= Skip
        BY <2>1
      <3>2. i \in 1 .. 62 /\ i < k * Skip
        BY <2>1, <3>1
      <3>3. SymCode(i) \in Int /\ e \in 1 .. n
        BY <2>5, <3>2
      <3>4. Chosen(ordered_partitions, SymCode(i), e)
        BY <2>4, <3>3
      <3>5. SymCode(i) < ordered_partitions[k]
        BY <2>3, <3>1, <3>2, SymbolsAscend
      <3> HIDE DEF i, e
      <3>6. e <= k
        <4>1. CASE k = n
          BY <2>1, <3>3, <4>1
        <4>2. CASE k # n
          <5>1. k \in 1 .. Len(ordered_partitions) - 1
            BY <2>1, <4>2 DEF n
          <5> QED
            BY <3>4, <3>5, <5>1 DEF Chosen
        <4> QED
          BY <4>1, <4>2
      <3>7. ~(e < k)
        <4> SUFFICES ASSUME e < k PROVE FALSE
          OBVIOUS
        <4>1. SymCode(i) < ordered_partitions[e]
          BY <2>1, <3>3, <3>4 DEF Chosen, n
        <4>2. e * Skip \in Int /\ e * Skip <= k * Skip - Skip
          BY <2>1, <3>3
        <4>3. e * Skip <= i
          BY <2>1, <3>1, <4>2 DEF i
        <4>4. SymCode(e * Skip) <= SymCode(i)
          <5>1. CASE e * Skip = i
            BY <3>3, <5>1
          <5>2. CASE e * Skip # i
            <6>1. e * Skip < i
              BY <3>2, <4>2, <4>3, <5>2
            <6> QED
              BY <3>2, <4>2, <6>1, SymbolsAscend
          <5> QED
            BY <5>1, <5>2
        <4>5. SymCode(e * Skip) \in Int
          BY <4>2 DEF SymCode
        <4> QED
          BY <2>3, <3>3, <4>1, <4>4, <4>5
      <3>8. e = k
        BY <2>1, <3>3, <3>6, <3>7
      <3> QED
        BY <3>2, <3>8 DEF e
    <2> QED
      BY <2>2, <2>5, <2>6 DEF NumSyms
  <1> QED
    BY <1>1, Always, PTL
=============================================================================
