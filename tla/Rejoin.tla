-------------------------------- MODULE Rejoin --------------------------------
(***************************************************************************)
(* Processes of Mesh that stop and are started again.                      *)
(*                                                                         *)
(* A later life of a process is another member of Node with the same id,   *)
(* address and port: it starts with an empty map, while the others keep the *)
(* Rep of the earlier life, since nothing takes users out of a map.  What  *)
(* is sent to a process that has stopped is lost; of what it has sent, any  *)
(* part may be.                                                            *)
(***************************************************************************)
EXTENDS Mesh

CONSTANT MaxStops   \* bound on the number of processes that stop

ASSUME RejoinAssumption ==
  /\ MaxStops \in Nat
  /\ \A n, m \in Node : IdOf[n] = IdOf[m] <=> Addr(n) = Addr(m)

VARIABLES
  stopped,     \* the processes that have stopped
  introduced   \* history: whom each was introduced to; see StartLife

rejoinVars == << vars, stopped, introduced >>

RejoinInit ==
  /\ Init
  /\ stopped = {}
  /\ introduced = [n \in Node |-> {}]

-----------------------------------------------------------------------------
(* What is left of an earlier life in the maps of the others.               *)

\* n has m itself under m's id.
Reaches(n, m) == users[n][IdOf[m]] # NoRep /\ Owner(Far(users[n][IdOf[m]].fd)) = m

\* n keeps the Rep of an earlier life of m.
KnewEarlier(n, m) == users[n][IdOf[m]] # NoRep /\ ~ Reaches(n, m)

-----------------------------------------------------------------------------
\* A life is started once, and not before the earlier one has stopped (Start).  It
\* is to meet t and those t reaches.
StartLife(n, t) ==
  /\ n \notin stopped
  /\ Start(n, t)
  /\ introduced' = [introduced EXCEPT ![n] =
       IF t = NoNode THEN {} ELSE {t} \cup { m \in Node : Reaches(t, m) }]
  /\ UNCHANGED stopped

\* The threads of those who are running.  Whoever is taken for its earlier life by the
\* process it joins through is turned away, and not introduced to anybody.
Main(n) ==
  /\ CopyUsers(n) \/ DialTarget(n)
  /\ UNCHANGED << stopped, introduced >>

Handle(e) ==
  /\ Listening(Owner(e))
  /\ RecvHandShake(e)
  /\ introduced' = [introduced EXCEPT ![Owner(Far(e))] =
       IF target[Owner(Far(e))] = Owner(e) /\ KnewEarlier(Owner(e), Owner(Far(e))) THEN {} ELSE @]
  /\ UNCHANGED stopped

\* The user quits, or the process dies.  Its map is gone, and so is what was
\* on the way to it and, for the connections in lost, from it.  Whoever has not heard
\* from anybody is no longer introduced by it.
Stop(n, lost) ==
  /\ Listening(n)
  /\ Cardinality(stopped) < MaxStops
  /\ stopped' = stopped \cup {n}
  /\ introduced' = [k \in Node |->
       IF target[k] = n /\ \A i \in Id : users[k][i] = NoRep THEN {} ELSE introduced[k]]
  /\ phase' = [phase EXCEPT ![n] = "off"]
  /\ copied' = [copied EXCEPT ![n] = {}]
  /\ users' = [users EXCEPT ![n] = [i \in Id |-> NoRep]]
  /\ inbox' = [e \in End |->
       IF Owner(e) = n \/ e \in lost THEN << >> ELSE inbox[e]]
  /\ UNCHANGED target

SentBy(n) == { e \in End : Owner(Far(e)) = n /\ inbox[e] # << >> }

RejoinNext ==
  \/ \E n \in Node : \E t \in NodeArg[n] : StartLife(n, t)
  \/ \E n \in Node : Main(n)
  \/ \E e \in End : Handle(e)
  \/ \E n \in Node : \E lost \in SUBSET SentBy(n) : Stop(n, lost)

RejoinSafe == RejoinInit /\ [][RejoinNext]_rejoinVars

-----------------------------------------------------------------------------
\* When the joining is over, everybody has met whom they joined through, and whom that
\* one had met, however many stopped meanwhile: only who keeps the Rep of an earlier
\* life misses the later one.  It takes that those who join at the same time do so
\* through the same process.  (RecvHandShake passes over known ids, and dials what is
\* listed.)
IntroducedMeet ==
  Quiet =>
    \A n \in { k \in Node : Listening(k) } :
      \A m \in { k \in introduced[n] : Listening(k) } :
        KnewEarlier(m, n) \/ (Reaches(n, m) /\ Reaches(m, n))

\* Nobody is known one-sidedly while both run, whoever else stops: when n has
\* registered m itself, m has a user under n's id, or n's handshake is on its way.
\* (RecvHandShake answers before it registers; what is lost is lost with its sender.)
MutualWhileUp ==
  \A n, m \in Node :
    Listening(m) /\ Reaches(n, m) =>
      LET far == Far(users[n][IdOf[m]].fd) IN
      \/ users[m][IdOf[n]] # NoRep
      \/ \E k \in DOMAIN inbox[far] : inbox[far][k].id = IdOf[n]
=============================================================================
