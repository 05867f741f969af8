---------------------------- MODULE MCActorMatch ----------------------------
EXTENDS ActorMatch

MaxLines == 3

Lines(n) == [1 .. n -> Instruments \cup {Malformed}]

\* The instruments are interchangeable, so btc stands for the one of the first
\* order; nothing is read after a malformed line, so it is the last one.
Representative(s) == \A p \in DOMAIN s : /\ s[p] = "eth" => \E q \in 1 .. p : s[q] = "btc"
                                         /\ s[p] = Malformed => p = Len(s)

FewLines == {s \in UNION {Lines(n) : n \in 0 .. MaxLines} : Representative(s)}
=============================================================================
