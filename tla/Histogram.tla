------------------------------ MODULE Histogram ------------------------------
(***************************************************************************)
(* common/histogram.h: measurements with the time they were recorded at,   *)
(* and the three things written from them: a sum or a maximum per second,  *)
(* and percentiles.  Engines and router record lock and match times here   *)
(* and write them when they are destroyed.                                 *)
(*                                                                         *)
(* Times are whole seconds.  The clock is the system's: it may be set back.*)
(***************************************************************************)
EXTENDS Integers, Sequences, FiniteSets

CONSTANTS Seconds, Values,
          MaxMeasurements   \* bound on the measurements recorded

ASSUME MeasurementsAssumption == Seconds \subseteq Nat \ {0} /\ Values \subseteq Nat

VARIABLE measurements

HistogramInit == measurements = <<>>

record_value(sec, v) ==
  /\ Len(measurements) < MaxMeasurements
  /\ measurements' = Append(measurements, [sec |-> sec, value |-> v])

HistogramNext == \E sec \in Seconds, v \in Values : record_value(sec, v)

HistogramSpec == HistogramInit /\ [][HistogramNext]_measurements

-----------------------------------------------------------------------------
(* write_sum_by_second and write_max_by_second: one loop, two ways to combine  *)

NothingYet == [current |-> 0, bin |-> 0, grand_total |-> 0, lines |-> <<>>]

\* Mutation of Close: the bin is not reset for the next second.
CloseAndKeep(w, sec) ==
  [current |-> sec, bin |-> w.bin, grand_total |-> w.grand_total + w.bin,
   lines |-> Append(w.lines, [second |-> sec, bin |-> w.bin])]

\* A measurement of another second writes out what the bin holds, under the
\* time of that measurement, and starts an empty bin.
Close(w, sec) ==
  [current |-> sec, bin |-> 0, grand_total |-> w.grand_total + w.bin,
   lines |-> Append(w.lines, [second |-> sec, bin |-> w.bin])]

\* A measurement of second sec is the first, or belongs to the open second, or
\* to another one.
Open(w, sec) == CASE sec = w.current -> w
                  [] sec # w.current /\ w.current = 0 -> [w EXCEPT !.current = sec]
                  [] sec # w.current /\ w.current # 0 -> Close(w, sec)

\* Mutation of Finish: the last second is forgotten.
FinishEarly(w) == w

\* After the loop: the second that is still open, unless its bin is zero.
Finish(w) == IF w.bin > 0 THEN Close(w, w.current) ELSE w

\* The loop of write_sum_by_second: what it has after each measurement.
Summing ==
  LET loop[n \in 0 .. Len(measurements)] ==
        IF n = 0 THEN NothingYet
        ELSE [Open(loop[n - 1], measurements[n].sec) EXCEPT !.bin = @ + measurements[n].value]
  IN loop

SumBySecond == Finish(Summing[Len(measurements)])

\* And that of write_max_by_second.
Greater(a, b) == IF b > a THEN b ELSE a

Maximizing ==
  LET loop[n \in 0 .. Len(measurements)] ==
        IF n = 0 THEN NothingYet
        ELSE [Open(loop[n - 1], measurements[n].sec) EXCEPT !.bin = Greater(@, measurements[n].value)]
  IN loop

MaxBySecond == Finish(Maximizing[Len(measurements)])

-----------------------------------------------------------------------------
(* calculate_percentiles, with the bins in thousandths                         *)

Bins == <<999, 990, 950, 900, 750, 500, 250>>

\* std::sort of the values.
Sorted ==
  LET of == DOMAIN measurements
      place == CHOOSE p \in [of -> of] :
                 /\ \A i, j \in of : p[i] = p[j] => i = j
                 /\ \A i, j \in of : i < j => measurements[p[i]].value <= measurements[p[j]].value
  IN [i \in of |-> measurements[place[i]].value]

\* Mutation of At: sequences are indexed from zero here too.
AtFromOne(values, p) == values[IF (p * Len(values)) \div 1000 = 0 THEN 1
                               ELSE (p * Len(values)) \div 1000]

\* values[(int)(p * values.size())]
At(values, p) == values[(p * Len(values)) \div 1000 + 1]

Percentiles ==
  LET values == Sorted
  IN IF values = <<>> THEN <<>>
     ELSE <<[p |-> 1000, value |-> values[Len(values)]]>>
          \o [k \in DOMAIN Bins |-> [p |-> Bins[k], value |-> At(values, Bins[k])]]
          \o <<[p |-> 0, value |-> values[1]]>>

-----------------------------------------------------------------------------

Total == LET upTo[n \in 0 .. Len(measurements)] ==
               IF n = 0 THEN 0 ELSE upTo[n - 1] + measurements[n].value
         IN upTo[Len(measurements)]

\* The reference: what the first n measurements recorded in a second.
SumsIn(sec) ==
  LET upTo[n \in 0 .. Len(measurements)] ==
        IF n = 0 THEN 0
        ELSE upTo[n - 1] + (IF measurements[n].sec = sec THEN measurements[n].value ELSE 0)
  IN upTo

MaximaIn(sec) ==
  LET upTo[n \in 0 .. Len(measurements)] ==
        IF n = 0 THEN 0
        ELSE Greater(upTo[n - 1], IF measurements[n].sec = sec THEN measurements[n].value ELSE 0)
  IN upTo

Recorded == {measurements[i].sec : i \in DOMAIN measurements}
Steady == \A i, j \in DOMAIN measurements : i < j => measurements[i].sec <= measurements[j].sec

SumIn == [sec \in Recorded |-> SumsIn(sec)[Len(measurements)]]
MaxIn == [sec \in Recorded |-> MaximaIn(sec)[Len(measurements)]]

\* The lines are one for every second, in order, with its bin; but for the last
\* second's, if its bin is zero.
OnePerSecond(lines, bin) ==
  \E second \in [DOMAIN lines -> Recorded] :
    /\ \A j, k \in DOMAIN lines : j < k => second[j] < second[k]
    /\ \A k \in DOMAIN lines : lines[k].bin = bin[second[k]]
    /\ \A sec \in Recorded :
         (\A k \in DOMAIN lines : second[k] # sec)
           <=> (bin[sec] = 0 /\ \A other \in Recorded : other <= sec)

\* While the clock is steady, one line is written for every second in which
\* something was recorded, in order, with that second's sum or maximum.
BinsComplete == Steady => /\ OnePerSecond(SumBySecond.lines, SumIn)
                          /\ OnePerSecond(MaxBySecond.lines, MaxIn)

\* The grand total is the sum of all measurements, also when the clock was set
\* back and a second is opened more than once.
GrandTotalIsSum == SumBySecond.grand_total = Total

\* The value at percentile p splits the measurements there: no more than the
\* share p of them is smaller, and more than that share is not greater (all of
\* them at 1).
PercentilesSplit ==
  LET percentiles == Percentiles
  IN \A k \in DOMAIN percentiles :
    LET p == percentiles[k].p
        v == percentiles[k].value
        n == Len(measurements)
        smaller == Cardinality({i \in 1 .. n : measurements[i].value < v})
        notGreater == Cardinality({i \in 1 .. n : measurements[i].value <= v})
    IN /\ smaller * 1000 <= p * n
       /\ IF p = 1000 THEN notGreater = n ELSE notGreater * 1000 > p * n

\* order_router.cc:25: the totals are "per second bin": a line's total is that
\* of the second it is written under.
LinesLabelled ==
  Steady => \A k \in DOMAIN SumBySecond.lines :
              LET line == SumBySecond.lines[k]
              IN line.second \in Recorded /\ line.bin = SumIn[line.second]
=============================================================================
