------------------------------ MODULE Directory ------------------------------
(***************************************************************************)
(* What a messenger promises about the users it knows, whatever the order  *)
(* in which handshakes arrive: its map from GitHub ids to users only grows, *)
(* one entry at a time; an entry is written once and never replaced; and   *)
(* the process found behind an id is a process that logged in with that id. *)
(* Mesh implements this specification; Onion builds on it.                 *)
(***************************************************************************)
EXTENDS Naturals

CONSTANTS
  Node,      \* the running messenger processes
  IdOf,      \* the GitHub id each process logged in with
  Nobody     \* what a lookup of an unknown id finds

ASSUME DirectoryAssumption ==
  /\ IdOf \in [Node -> Nat]
  /\ Nobody \notin Node

VARIABLE dir   \* dir[n][i]: the process n has registered under id i, or Nobody

\* The ids in use. A number stands for an id: std::map orders its keys.
Id == { IdOf[n] : n \in Node }

\* The ids that n can address a message to, and the processes behind them.
KnownIds(n)   == { i \in Id : dir[n][i] # Nobody }
KnownNodes(n) == { dir[n][i] : i \in KnownIds(n) }

DirTypeOK == dir \in [Node -> [Id -> Node \cup {Nobody}]]

DirInit == dir = [n \in Node |-> [i \in Id |-> Nobody]]

\* n registers m under the id m announced, which n did not know yet.
Learn(n, m) ==
  /\ dir[n][IdOf[m]] = Nobody
  /\ dir' = [dir EXCEPT ![n][IdOf[m]] = m]

DirNext == \E n, m \in Node : Learn(n, m)

DirSpec == DirInit /\ [][DirNext]_dir

\* Knowing somebody is returned in the end: there comes a time from which on,
\* when n has m registered, m has somebody registered under n's id.
Mutual ==
  <>[](\A n, m \in Node : dir[n][IdOf[m]] = m => dir[m][IdOf[n]] # Nobody)
=============================================================================
