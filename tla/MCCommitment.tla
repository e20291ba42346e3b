---------------------------- MODULE MCCommitment ----------------------------
(* Two scorers of one epoch, whose scores agree or not, for TLC.            *)
EXTENDS Commitment

CONSTANTS s1, s2

MCScorers == {s1, s2}

Bijections(n) == {f \in [1..n -> 1..n] : \A i, j \in 1..n : f[i] = f[j] => i = j}

\* All orders of up to three entries, and three orders of more.
MCOrders ==
    [n \in 0..5 |->
        IF n <= 3 THEN Bijections(n)
        ELSE {[i \in 1..n |-> i], [i \in 1..n |-> n + 1 - i],
              [i \in 1..n |-> IF i = n THEN 1 ELSE i + 1]}]

E(identity, score) == [identity |-> identity, score |-> score]

MCEntryLists ==
    { <<>>,
      <<E(1, 1)>>,
      <<E(1, 1), E(2, 2)>>,
      <<E(1, 1), E(2, 1), E(3, 1)>>,
      <<E(1, 1), E(2, 2), E(3, 1)>>,
      <<E(1, 1), E(2, 2), E(3, 1), E(4, 1), E(5, 2)>>,
      <<E(1, 1), E(1, 2), E(2, 1)>> }
=============================================================================
