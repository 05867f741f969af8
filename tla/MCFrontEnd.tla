----------------------------- MODULE MCFrontEnd -----------------------------
EXTENDS FrontEnd

Junk  == [reads |-> "junk", value |-> 0, file |-> "missing"]
Large == [reads |-> "large", value |-> 0, file |-> "missing"]
Input == [reads |-> "junk", value |-> 0, file |-> "opens"]
\* A file whose name begins with a digit is a number to stoi.
Input3 == [reads |-> "int", value |-> 3, file |-> "opens"]

\* Concurrencies with every number of symbols for an engine, up to one more engine
\* than there are symbols, then any other word.
Concurrencies == {Number(n) : n \in -1 .. 10 \cup {12, 15, 20, 31, 32, 62, 63}}
                 \cup {Junk, Large, Input3}
FewConcurrencies == {Number(0), Number(2), Junk, Large, Input3}
BatchSizes == {Number(0), Number(100), Junk, Large, Input, Input3, Dash}
Files      == {Number(1), Junk, Input, Input3, Dash}
AllWords   == Concurrencies \cup BatchSizes \cup Files

\* No word, one, two, three, and one too many; and the filename first, as in
\* match-engine/README.md:118-119.
FewCommandLines ==
  {<<>>} \cup {<<b>> : b \in BatchSizes}
         \cup {<<Number(100), c>> : c \in Concurrencies}
         \cup {<<b, c>> : b \in BatchSizes, c \in FewConcurrencies}
         \cup {<<b, c, f>> : b \in {Number(1), Junk, Large}, c \in FewConcurrencies, f \in Files}
         \cup {<<Number(100), Number(2), Dash, f>> : f \in Files}
         \cup {<<f, Number(100), Number(2)>> : f \in {Input, Dash}}

\* A byte below the digits, digits, letters at the ends of their ranges, what
\* lies between the ranges, and a byte above 127.
Characters == {33, 48, 49, 57, 64, 65, 66, 77, 90, 95, 97, 98, 109, 122, 126, 200}

Line(instrument, quantity, price) ==
  <<Blank, Word(97), Blank, Word(66), Blank, Blank, instrument, Blank, quantity, Blank, price>>

\* Instruments of all kinds; quantities with a fraction, zero, negative, the largest
\* and one too large; prices of one to nine digits, with the sixth rounded up, down,
\* and either way, negative ones, one that gets a digit more; lines that are no order.
FewTypedLines ==
  {Line(Word(c), Num(100), Num(100)) : c \in Characters}
  \cup {Line(Num(5500), Num(q), Num(100)) : q \in {0, 150, -150, 100 * IntMax, 100 * IntMax + 100}}
  \cup {Line(Word(88), Num(100), Num(p)) : p \in {-1, 1, 999999, 1234567, -1234565, 12345612, -99999960, 123456500, 123456700}}
  \cup {<<>>, <<Word(97)>>, Line(Word(88), Word(88), Num(100)), Line(Word(88), Num(100), Word(88)),
        Line(Word(88), Num(100), Num(100)) \o <<Blank, Word(120)>>}

\* The lowest and the highest price, and a name of digits only.
FewInstruments == {[name |-> Word(65), last |-> 100], [name |-> Num(123400), last |-> 999900]}
=============================================================================
