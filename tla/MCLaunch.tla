------------------------------- MODULE MCLaunch -------------------------------
(***************************************************************************)
(* The five processes of Docker/launch_all.sh: the first is there, then the *)
(* other four are started at once, with --node naming the first.  Of all    *)
(* schedules, those are taken in which certain things happen in order.      *)
(***************************************************************************)
EXTENDS Mesh

CONSTANTS n1, n2, n3, n4, n5

Five == {n1, n2, n3, n4, n5}

Table(a, b, c, d, e) ==
  [n \in Node |-> CASE n = n1 -> a [] n = n2 -> b [] n = n3 -> c [] n = n4 -> d [] n = n5 -> e]

Ids   == Table(4, 5, 1, 3, 2)
Hosts == Table(1, 2, 3, 4, 5)
Ports == Table(1, 1, 1, 1, 1)
Star  == Table({NoNode}, {n1}, {n1}, {n1}, {n1})

Has(n, m) == users[n][IdOf[m]] # NoRep

\* The packets that their receiver ignores.
Known == { e \in End : inbox[e] # << >> /\ users[Owner(e)][Head(inbox[e]).id] # NoRep }

\* Main threads come before server threads, n1 before the others, and it gets their
\* handshakes in the order of their numbers; n4 is slow to read n1's answer; what is
\* ignored is ignored at once.
Scheduled ==
  /\ (\E n \in Node : phase[n] # "loop") => users' = users
  /\ (\E n \in Node \ {n1} : ~ Has(n1, n)) => \A n \in Node \ {n1} : users'[n] = users[n]
  /\ Has(n1, n3)' => Has(n1, n2)
  /\ Has(n1, n4)' => Has(n1, n3)
  /\ Has(n1, n5)' => Has(n1, n4)
  /\ Has(n4, n1)' => Has(n4, n3) /\ Has(n4, n5)
  /\ Known # {} => IgnoreHandShake(CHOOSE e \in Known : TRUE)

LaunchAll == Init /\ [][Next /\ Scheduled]_vars
=============================================================================
