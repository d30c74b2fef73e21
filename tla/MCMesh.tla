-------------------------------- MODULE MCMesh --------------------------------
(***************************************************************************)
(* Instances of Mesh.  A process is a number; ids, hosts and ports are      *)
(* given by tables, so that two processes share a host and two share a port *)
(* number, and the order of the ids is not the order of joining.            *)
(***************************************************************************)
EXTENDS Mesh

CONSTANTS n1, n2, n3, n4

Three == {n1, n2, n3}
Four  == {n1, n2, n3, n4}

\* Tables over the processes at hand; n1 is the first to be started.
Table(a, b, c, d) ==
  [n \in Node |-> CASE n = n1 -> a [] n = n2 -> b [] n = n3 -> c [] n = n4 -> d]

Ids   == Table(2, 3, 1, 4)
Hosts == Table(1, 1, 2, 2)
Ports == Table(1, 2, 1, 2)

\* Any process at all may be named, or none.
Free == [n \in Node |-> (Node \ {n}) \cup {NoNode}]

\* Any process that was started before may be named.
Chain == Table({NoNode}, {n1}, {n1, n2}, {n1, n2, n3})
=============================================================================
