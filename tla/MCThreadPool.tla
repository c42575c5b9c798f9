---------------------------- MODULE MCThreadPool ----------------------------
EXTENDS ThreadPool
CONSTANTS w1, w2, c1, c2, a, b

MCWorker == {w1, w2}
MCClient == {c1, c2}
MCThread == MCWorker \cup MCClient
MCQueue == MCWorker \cup {Shared}
MCJob == {a, b}
MCIndex == [w \in MCWorker |-> IF w = w1 THEN 0 ELSE 1]
MCKind == [j \in MCJob |-> IF j = a THEN "serial" ELSE "default"]

\* Few workers, jobs and operations on the whole pool at a time, in all mixtures.
Instance(threads, held, bulk1, bulk2) ==
  /\ pool.threads = threads
  /\ client[c1].held = held /\ client[c2].held = {}
  /\ client[c1].bulk = bulk1 /\ client[c2].bulk = bulk2

MCInit ==
  /\ Init
  /\ \/ Instance({w1}, {a, b}, 1, 0)
     \/ Instance({w1, w2}, {a}, 2, 0)
     \/ Instance({w1, w2}, {b}, 1, 0)
     \/ Instance({w1}, {b}, 1, 1)

MCSpec == MCInit /\ [][Next]_vars /\ Fairness
=============================================================================
