--------------------------- MODULE MCCoordinator ---------------------------
(* Fetches for two coordinators, whose replies are made of three kinds of chunks. *)
EXTENDS CoordinatorClient
CONSTANTS f1, f2, c1, c2, p1, p2

MCTarget == [f \in Fetches |-> IF f = f2 THEN c2 ELSE c1]

\* A chunk without a shard number, one with peers, one that disagrees on the number.
MCChunks == {[max |-> 0, peers |-> <<p1>>], [max |-> 2, peers |-> <<p2>>], [max |-> 3, peers |-> <<>>]}

\* The first reply is long enough for chunks to disagree, whichever comes first.
MCMaxChunks == [f \in Fetches |-> IF f = f1 THEN 2 ELSE 1]
=============================================================================
