------------------------------ MODULE OrderText ------------------------------
(***************************************************************************)
(* Orders as text: what operator<< (order.h) prints of one and what        *)
(* OrderFactory::from_string makes of a line, with the generator of        *)
(* match-engine-test, whose lines are piped into the program.              *)
(*                                                                         *)
(* A line is a sequence of tokens and blanks.  A token is what can be told *)
(* from it: the code of its first character, and its value in hundredths   *)
(* if it starts with a number (None if not); more decimals are not modelled. *)
(***************************************************************************)
EXTENDS Integers, Sequences

CONSTANTS None,
          IntMax     \* the largest int (INT_MAX, made small)

\* The generator's quantities are ints.
ASSUME IntMaxAssumption == IntMax \in Nat /\ IntMax >= 9

ASSUME NoneAssumption == None \notin Int

TokenType == [initial : Nat, value : Int \cup {None}]

Token(initial, value) == [initial |-> initial, value |-> value]
Blank     == Token(32, None)
Num(v)    == Token(48, v)
Word(c)   == Token(c, None)
SideWord(side) == IF side = "BUY" THEN Word(66) ELSE Word(83)

-----------------------------------------------------------------------------
(* operator<<                                                                  *)

Abs(p) == IF p < 0 THEN -p ELSE p

\* The last place that is printed of a price: a stream prints six significant
\* digits of a double, and what stands before the seventh is rounded.
Unit(p) ==
  LET unit[n \in 0 .. Abs(p)] == IF n < 1000000 THEN 1 ELSE 10 * unit[n \div 10]
  IN unit[Abs(p)]

\* The price that is printed: the nearest one with six digits.  Halfway between two it
\* may be either, for the double is seldom halfway itself.
Roundings(p) ==
  LET low == (p \div Unit(p)) * Unit(p)
  IN {q \in {low, low + Unit(p)} : 2 * Abs(q - p) <= Unit(p)}

\* The identifier is filled up with blanks on the left, unless it is long.
Printings(o) ==
  LET line(q) == <<o.order_id, Blank, SideWord(o.side), Blank, o.instrument, Blank,
                   Num(100 * o.remaining_quantity), Blank, Num(q)>>
  IN UNION {{line(q), <<Blank>> \o line(q)} : q \in Roundings(o.price)}

-----------------------------------------------------------------------------
(* from_string                                                                 *)

\* Mutation of Tokens: the empty text before a leading blank is a token.
TokensAndFirstGap(line) ==
  (IF line # <<>> /\ line[1] = Blank THEN <<Blank>> ELSE <<>>)
  \o SelectSeq(line, LAMBDA t : t # Blank)

Tokens(line) ==
  LET kept[k \in 0 .. Len(line)] ==
        IF k = 0 THEN <<>>
        ELSE IF line[k] = Blank THEN kept[k - 1] ELSE Append(kept[k - 1], line[k])
  IN kept[Len(line)]

\* stoi: the number up to the point.
Whole(v) == IF v < 0 THEN -(-v \div 100) ELSE v \div 100

\* Five tokens, of which the last two are numbers, the quantity an int; if not,
\* an exception (invalid_argument or out_of_range: both end the process).
IsOrder(line) ==
  LET tokens == Tokens(line)
  IN /\ Len(tokens) = 5
     /\ tokens[4].value # None /\ tokens[5].value # None
     /\ Whole(tokens[4].value) \in -IntMax - 1 .. IntMax

\* Any word that begins with B buys, any other sells.
from_string(line) ==
  LET tokens == Tokens(line)
  IN [order_id |-> tokens[1], side |-> IF tokens[2].initial = 66 THEN "BUY" ELSE "SELL",
      instrument |-> tokens[3], remaining_quantity |-> Whole(tokens[4].value),
      price |-> tokens[5].value]

-----------------------------------------------------------------------------
(* OrderGenerator                                                              *)

generate_random_quantity == 1 .. 9

\* price +- variation, a number of 1 to 5 less 3
pick_random_instrument_price(instrument, side) ==
  {instrument.last + 100 * (IF side = "BUY" THEN -v ELSE v) : v \in -2 .. 2}

\* Every order generate_random_order may return.
generate_random_order(instruments, id) ==
  UNION {[order_id : {Num(100 * id)}, side : {side}, instrument : {instrument.name},
          remaining_quantity : generate_random_quantity,
          price : pick_random_instrument_price(instrument, side)] :
         instrument \in instruments, side \in {"BUY", "SELL"}}
=============================================================================
