----------------------------- MODULE MCDarkPool -----------------------------
EXTENDS DarkPool

MaxLines == 4

FewLines == UNION {[1 .. n -> Lines \cup {Malformed}] : n \in 0 .. MaxLines}

Setup(size, threads, used, routes) ==
  [batch_size |-> size, concurrency |-> threads, engines |-> used, find_engine |-> routes]

OneEngine  == [l \in Lines |-> 1]
TwoEngines == [l \in Lines |-> IF l = "zec" THEN 2 ELSE 1]

FewSetups == {Setup(2, 0, {1}, OneEngine),
              Setup(-1, 1, {1}, OneEngine),
              Setup(1, 1, {1}, OneEngine),
              Setup(2, 2, {1, 2}, TwoEngines)}
=============================================================================
