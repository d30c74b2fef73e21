------------------------------- MODULE MCOnion -------------------------------
(***************************************************************************)
(* Instances of Onion: three processes and two messages.                   *)
(***************************************************************************)
EXTENDS Onion

CONSTANTS n1, n2, n3, m1, m2

Three == {n1, n2, n3}
Ids   == [n \in Node |-> CASE n = n1 -> 2 [] n = n2 -> 3 [] n = n3 -> 1]

\* n1 and n2 type the same id, under which n3 knows one of them.
SharedIds == [n \in Node |-> IF n = n3 THEN 2 ELSE 1]

One == {m1}
Two == {m1, m2}

\* n1 sends a text to n2; n3 sends an image to n1.
Authors    == [m \in Msg |-> IF m = m1 THEN n1 ELSE n3]
Addressees == [m \in Msg |-> IF m = m1 THEN IdOf[n2] ELSE IdOf[n1]]
Kinds      == [m \in Msg |-> IF m = m1 THEN "MSG" ELSE "IMG"]
=============================================================================
