------------------------------- MODULE MCRejoin -------------------------------
(***************************************************************************)
(* Instances of Rejoin: r1 and r2 are second lives of n1 and n2.           *)
(***************************************************************************)
EXTENDS Rejoin

CONSTANTS n1, n2, n3, r1, r2

Lives == {n1, n2, n3, r1, r2}

Table(a, b, c) ==
  [n \in Node |-> CASE n \in {n1, r1} -> a [] n \in {n2, r2} -> b [] n = n3 -> c]

Ids   == Table(2, 3, 1)
Hosts == Table(1, 1, 2)
Ports == Table(1, 2, 1)

\* Anybody but the first to start joins through anybody.
Anybody == [n \in Node |-> IF n = n1 THEN {NoNode} ELSE Node \ {n}]
=============================================================================
