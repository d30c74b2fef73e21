------------------------------ MODULE MeshProofs ------------------------------
(***************************************************************************)
(* What holds of Mesh for any number of processes, any ids (shared ones    *)
(* included), any --node arguments and any order of starting processes.    *)
(***************************************************************************)
EXTENDS Mesh, TLAPS

\* Every packet on the way to an end says the truth about the process at the
\* other end, and nobody forwards somebody else's handshake.
HonestChannels ==
  \A e \in End : \A k \in DOMAIN inbox[e] :
    LET peer == Owner(Far(e))
    IN /\ inbox[e][k].id = IdOf[peer]
       /\ inbox[e][k].port = PortOf[peer]
       /\ inbox[e][k].key = peer

\* What the packets on their way and the Reps say is true.  RepReachesUser needs
\* HonestChannels, because a Rep is filled in from a packet.
Truthful ==
  /\ TypeOK
  /\ HonestChannels
  /\ RepReachesUser

\* The inductive invariant.  Acquaintance needs RepReachesUser, because the reply
\* travels on the descriptor that is stored in the Rep.
MeshInv == Truthful /\ Acquaintance

-----------------------------------------------------------------------------
(* Connections, entries and queues.                                         *)

\* The two ends of a connection are different, and each is the other's far end.
LEMMA EndFacts ==
  ASSUME NEW e \in End
  PROVE  /\ Owner(e) \in Node
         /\ Far(e) \in End
         /\ Far(e) # e
         /\ Far(Far(e)) = e
  BY DEF End, Owner, Far

\* The accepting end of a connection n dials belongs to the dialled process.
LEMMA AcceptEndFacts ==
  ASSUME NEW n \in Node, NEW m \in Node, NEW w \in Node \cup {NoNode}
  PROVE  /\ AcceptEnd(n, m, w) \in End
         /\ Owner(AcceptEnd(n, m, w)) = m
         /\ Owner(Far(AcceptEnd(n, m, w))) = n
  BY DEF End, Owner, Far, AcceptEnd

\* What a process copies from its users are well-formed entries.
LEMMA EntriesType ==
  ASSUME TypeOK, NEW n \in Node
  PROVE  Entries(n) \in SUBSET Entry
  <1> SUFFICES ASSUME NEW i \in Id, users[n][i] # NoRep
               PROVE  [pos |-> i, ip |-> users[n][i].ip, port |-> users[n][i].port]
                        \in Entry
    BY DEF Entries
  <1>1. users[n][i] \in Rep
    BY DEF TypeOK
  <1> QED
    BY <1>1 DEF Rep, Entry

\* A greeting is a handshake that says the truth about its sender.
LEMMA GreetingFacts ==
  ASSUME NEW n \in Node, NEW entries \in SUBSET Entry
  PROVE  /\ Greeting(n, entries) \in HandShake
         /\ Greeting(n, entries).id = IdOf[n]
         /\ Greeting(n, entries).port = PortOf[n]
         /\ Greeting(n, entries).key = n
  BY DEF Greeting, HandShake, Id, Port

\* Adding a packet to a queue keeps the ones there, and puts the new one last.
LEMMA AppendFacts ==
  ASSUME NEW S, NEW q \in Seq(S), NEW x \in S
  PROVE  /\ Append(q, x) \in Seq(S)
         /\ DOMAIN Append(q, x) = 1 .. Len(q) + 1
         /\ DOMAIN q = 1 .. Len(q)
         /\ \A k \in DOMAIN q : Append(q, x)[k] = q[k]
         /\ Append(q, x)[Len(q) + 1] = x
  OBVIOUS

\* Taking the oldest packet off a queue moves the others up by one place.
LEMMA TailFacts ==
  ASSUME NEW S, NEW q \in Seq(S), q # << >>
  PROVE  /\ Tail(q) \in Seq(S)
         /\ Head(q) = q[1]
         /\ 1 \in DOMAIN q
         /\ \A k \in DOMAIN Tail(q) : k + 1 \in DOMAIN q /\ Tail(q)[k] = q[k + 1]
         /\ \A k \in DOMAIN q : k # 1 => k - 1 \in DOMAIN Tail(q) /\ Tail(q)[k - 1] = q[k]
  OBVIOUS

-----------------------------------------------------------------------------
(* What one step does to the queues, and what follows from that alone.      *)

\* A queue is left alone, or loses its oldest packet to a handler after which
\* the sender of it is known, or gets a greeting from the process at its far end.
QueuesMove ==
  /\ inbox' = [e \in End |-> inbox'[e]]
  /\ \A e \in End :
       \/ inbox'[e] = inbox[e]
       \/ /\ inbox[e] # << >>
          /\ inbox'[e] = Tail(inbox[e])
          /\ users'[Owner(e)][Head(inbox[e]).id] # NoRep
       \/ \E n \in Node, entries \in SUBSET Entry :
            /\ n = Owner(Far(e))
            /\ inbox'[e] = Append(inbox[e], Greeting(n, entries))

\* A user that is registered stays registered, with the same Rep.
UsersStay ==
  \A n \in Node, i \in Id : users[n][i] # NoRep => users'[n][i] = users[n][i]

\* Moving the queues keeps them typed and the channels honest.
LEMMA QueuesStayHonest ==
  ASSUME TypeOK, HonestChannels, QueuesMove
  PROVE  /\ inbox' \in [End -> Seq(HandShake)]
         /\ HonestChannels'
  <1> DEFINE Honest(q, e) ==
        \A k \in DOMAIN q : /\ q[k].id = IdOf[Owner(Far(e))]
                            /\ q[k].port = PortOf[Owner(Far(e))]
                            /\ q[k].key = Owner(Far(e))
  <1>1. ASSUME NEW e \in End
        PROVE  inbox'[e] \in Seq(HandShake) /\ Honest(inbox'[e], e)
    <2>1. inbox[e] \in Seq(HandShake) /\ Honest(inbox[e], e)
      BY DEF TypeOK, HonestChannels
    <2>2. CASE inbox'[e] = inbox[e]
      BY <2>1, <2>2
    <2>3. CASE inbox[e] # << >> /\ inbox'[e] = Tail(inbox[e])
      BY <2>1, <2>3, TailFacts
    <2>4. ASSUME NEW n \in Node, NEW entries \in SUBSET Entry, n = Owner(Far(e)),
                 inbox'[e] = Append(inbox[e], Greeting(n, entries))
          PROVE  inbox'[e] \in Seq(HandShake) /\ Honest(inbox'[e], e)
      <3> DEFINE x == Greeting(n, entries)
      <3>1. /\ x \in HandShake
            /\ x.id = IdOf[n] /\ x.port = PortOf[n] /\ x.key = n
        BY GreetingFacts
      <3> HIDE DEF x
      <3>2. /\ Append(inbox[e], x) \in Seq(HandShake)
            /\ DOMAIN Append(inbox[e], x) = 1 .. Len(inbox[e]) + 1
            /\ DOMAIN inbox[e] = 1 .. Len(inbox[e])
            /\ \A k \in DOMAIN inbox[e] : Append(inbox[e], x)[k] = inbox[e][k]
            /\ Append(inbox[e], x)[Len(inbox[e]) + 1] = x
        BY <2>1, <3>1, AppendFacts
      <3>3. Len(inbox[e]) \in Nat
        BY <2>1
      <3>4. inbox'[e] = Append(inbox[e], x)
        BY <2>4 DEF x
      <3>5. ASSUME NEW k \in DOMAIN inbox'[e]
            PROVE  k \in DOMAIN inbox[e] \/ k = Len(inbox[e]) + 1
        BY <3>2, <3>3, <3>4
      <3> QED
        BY <2>1, <2>4, <3>1, <3>2, <3>4, <3>5
    <2> QED
      BY <2>2, <2>3, <2>4 DEF QueuesMove
  <1>2. inbox' \in [End -> Seq(HandShake)]
    BY <1>1 DEF QueuesMove
  <1> QED
    BY <1>1, <1>2 DEF HonestChannels

\* Moving the queues, while users stay, cannot make an acquaintance one-sided.
LEMMA AcquaintanceStays ==
  ASSUME TypeOK, QueuesMove, UsersStay,
         NEW far \in End, NEW i \in Id,
         \/ users[Owner(far)][i] # NoRep
         \/ \E k \in DOMAIN inbox[far] : inbox[far][k].id = i
  PROVE  \/ users'[Owner(far)][i] # NoRep
         \/ \E k \in DOMAIN inbox'[far] : inbox'[far][k].id = i
  <1>1. CASE users[Owner(far)][i] # NoRep
    BY <1>1, EndFacts DEF UsersStay
  <1>2. ASSUME NEW k \in DOMAIN inbox[far], inbox[far][k].id = i
        PROVE  \/ users'[Owner(far)][i] # NoRep
               \/ \E j \in DOMAIN inbox'[far] : inbox'[far][j].id = i
    <2>1. inbox[far] \in Seq(HandShake)
      BY DEF TypeOK
    <2>2. CASE inbox'[far] = inbox[far]
      BY <1>2, <2>2
    <2>3. CASE /\ inbox[far] # << >>
               /\ inbox'[far] = Tail(inbox[far])
               /\ users'[Owner(far)][Head(inbox[far]).id] # NoRep
      <3>1. CASE k = 1
        BY <1>2, <2>1, <2>3, <3>1, TailFacts
      <3>2. CASE k # 1
        <4>1. k - 1 \in DOMAIN inbox'[far] /\ inbox'[far][k - 1] = inbox[far][k]
          BY <2>1, <2>3, <3>2, TailFacts
        <4> QED
          BY <1>2, <4>1
      <3> QED
        BY <3>1, <3>2
    <2>4. ASSUME NEW n \in Node, NEW entries \in SUBSET Entry,
                 inbox'[far] = Append(inbox[far], Greeting(n, entries))
          PROVE  \E j \in DOMAIN inbox'[far] : inbox'[far][j].id = i
      <3>1. Greeting(n, entries) \in HandShake
        BY GreetingFacts
      <3>2. k \in DOMAIN inbox'[far] /\ inbox'[far][k] = inbox[far][k]
        BY <2>1, <2>4, <3>1, AppendFacts
      <3> QED
        BY <1>2, <3>2
    <2> QED
      BY <2>2, <2>3, <2>4 DEF QueuesMove
  <1> QED
    BY <1>1, <1>2

-----------------------------------------------------------------------------
(* The actions.                                                             *)

\* The process at the far end of a packet is who the packet says it is.
LEMMA HeadFacts ==
  ASSUME TypeOK, HonestChannels, NEW e \in End, inbox[e] # << >>
  PROVE  /\ Head(inbox[e]) \in HandShake
         /\ Tail(inbox[e]) \in Seq(HandShake)
         /\ Head(inbox[e]).id = IdOf[Owner(Far(e))]
         /\ Head(inbox[e]).id \in Id
         /\ Head(inbox[e]).port = PortOf[Owner(Far(e))]
         /\ Head(inbox[e]).key = Owner(Far(e))
  <1>1. inbox[e] \in Seq(HandShake)
    BY DEF TypeOK
  <1>2. Head(inbox[e]) = inbox[e][1] /\ 1 \in DOMAIN inbox[e]
    BY <1>1, TailFacts
  <1>3. Head(inbox[e]) \in HandShake /\ Tail(inbox[e]) \in Seq(HandShake)
    BY <1>1
  <1> QED
    BY <1>2, <1>3 DEF HonestChannels, HandShake

\* Dialling the --node argument moves the queues as QueuesMove says.
LEMMA DialTargetMoves ==
  ASSUME TypeOK, NEW n \in Node, DialTarget(n)
  PROVE  QueuesMove
  <1>1. copied[n] \in SUBSET Entry
    BY DEF TypeOK
  <1>2. ASSUME NEW e \in CallTo(n)
        PROVE  n = Owner(Far(e))
    BY AcceptEndFacts DEF CallTo
  <1>3. \A e \in End :
          inbox'[e] = IF e \in CallTo(n)
                      THEN Append(inbox[e], Greeting(n, copied[n]))
                      ELSE inbox[e]
    BY DEF DialTarget
  <1>4. inbox' = [e \in End |-> inbox'[e]]
    BY DEF DialTarget
  <1> QED
    BY <1>1, <1>2, <1>3, <1>4 DEF QueuesMove

\* So does handling a handshake, whether or not its sender is known.
LEMMA IgnoreHandShakeMoves ==
  ASSUME TypeOK, NEW e \in End, IgnoreHandShake(e)
  PROVE  QueuesMove
  <1>1. \A d \in End : inbox'[d] = IF d = e THEN Tail(inbox[e]) ELSE inbox[d]
    BY DEF IgnoreHandShake, TypeOK
  <1>2. inbox' = [d \in End |-> inbox'[d]]
    BY DEF IgnoreHandShake, TypeOK
  <1> QED
    BY <1>1, <1>2 DEF QueuesMove, IgnoreHandShake

\* Registering a user writes the one Rep and leaves the others.
LEMMA RegisterUserWrites ==
  ASSUME TypeOK, HonestChannels, NEW e \in End, RegisterUser(e),
         NEW n \in Node, NEW i \in Id
  PROVE  users'[n][i] =
           IF n = Owner(e) /\ i = Head(inbox[e]).id
           THEN NewRep(e)
           ELSE users[n][i]
  <1>1. Owner(e) \in Node /\ Head(inbox[e]).id \in Id
    BY EndFacts, HeadFacts DEF RegisterUser
  <1> QED
    BY <1>1 DEF RegisterUser, TypeOK

\* The entry it writes is filled.
LEMMA RegisterUserFills ==
  ASSUME TypeOK, HonestChannels, NEW e \in End, RegisterUser(e)
  PROVE  users'[Owner(e)][Head(inbox[e]).id] # NoRep
  <1> DEFINE hs  == Head(inbox[e])
             rep == NewRep(e)
  <1>1. Owner(e) \in Node /\ Owner(Far(e)) \in Node
    BY EndFacts
  <1>2. hs \in HandShake /\ hs.id \in Id
    BY HeadFacts DEF RegisterUser
  <1>3. users'[Owner(e)][hs.id] = rep
    BY <1>1, <1>2, RegisterUserWrites
  <1>4. rep \in Rep
    BY <1>1, <1>2 DEF NewRep, Rep, Ip, HandShake
  <1> QED
    BY <1>3, <1>4, MeshAssumption

\* Handling a handshake from a new user moves the queues as QueuesMove says: the
\* handshakes it sends start at the near ends of the connections they travel on.
LEMMA RegisterUserMoves ==
  ASSUME TypeOK, HonestChannels, NEW e \in End, RegisterUser(e)
  PROVE  QueuesMove
  <1> DEFINE n == Owner(e)
  <1>1. n \in Node /\ Owner(Far(e)) \in Node /\ n = Owner(Far(Far(e)))
    BY EndFacts
  <1>2. Entries(n) \in SUBSET Entry /\ Answer(e) = Greeting(n, Entries(n))
    BY <1>1, EntriesType DEF Answer
  <1>3. \A d \in End :
          inbox'[d] = IF d = e THEN Tail(inbox[d])
                      ELSE IF d \in Receivers(e) THEN Append(inbox[d], Answer(e))
                      ELSE inbox[d]
    BY DEF RegisterUser
  <1>4. inbox' = [d \in End |-> inbox'[d]]
    BY DEF RegisterUser
  <1>5. ASSUME NEW d \in Receivers(e)
        PROVE  n = Owner(Far(d))
    BY <1>1, AcceptEndFacts DEF Receivers, Accepting
  <1>6. inbox[e] # << >> /\ users'[n][Head(inbox[e]).id] # NoRep
    BY RegisterUserFills DEF RegisterUser
  <1> HIDE DEF n
  <1> QED
    BY <1>1, <1>2, <1>3, <1>4, <1>5, <1>6 DEF QueuesMove, n

\* A step moves the queues, and leaves the users there are.
LEMMA NextMoves ==
  ASSUME TypeOK, HonestChannels, [Next]_vars
  PROVE  QueuesMove /\ UsersStay
  <1>1. inbox' = inbox => QueuesMove
    BY DEF QueuesMove, TypeOK
  <1>2. users' = users => UsersStay
    BY DEF UsersStay
  <1>3. ASSUME NEW n \in Node, NEW t \in NodeArg[n], Start(n, t) PROVE QueuesMove /\ UsersStay
    BY <1>1, <1>2, <1>3 DEF Start
  <1>4. ASSUME NEW n \in Node, CopyUsers(n) PROVE QueuesMove /\ UsersStay
    BY <1>1, <1>2, <1>4 DEF CopyUsers
  <1>5. ASSUME NEW n \in Node, DialTarget(n) PROVE QueuesMove /\ UsersStay
    BY <1>2, <1>5, DialTargetMoves DEF DialTarget
  <1>6. ASSUME NEW e \in End, IgnoreHandShake(e) PROVE QueuesMove /\ UsersStay
    BY <1>2, <1>6, IgnoreHandShakeMoves DEF IgnoreHandShake
  <1>7. ASSUME NEW e \in End, RegisterUser(e) PROVE QueuesMove /\ UsersStay
    <2>1. users[Owner(e)][Head(inbox[e]).id] = NoRep
      BY <1>7 DEF RegisterUser
    <2> QED
      BY <1>7, <2>1, RegisterUserMoves, RegisterUserWrites DEF UsersStay
  <1>8. CASE UNCHANGED vars
    BY <1>1, <1>2, <1>8 DEF vars
  <1> QED
    BY <1>3, <1>4, <1>5, <1>6, <1>7, <1>8 DEF Next

-----------------------------------------------------------------------------
(* The invariant.                                                           *)

\* Registering a user keeps the Reps right: the new one is of the sender.
LEMMA RegisterUserTruthful ==
  ASSUME Truthful, NEW e \in End, RegisterUser(e)
  PROVE  Truthful'
  <1> DEFINE n    == Owner(e)
             from == Owner(Far(e))
             hs   == Head(inbox[e])
             rep  == NewRep(e)
  <1> USE DEF Truthful
  <1>1. n \in Node /\ from \in Node /\ Far(e) \in End /\ Far(e) # e
    BY EndFacts
  <1>2. /\ hs \in HandShake /\ hs.id = IdOf[from] /\ hs.id \in Id
        /\ hs.port = PortOf[from] /\ hs.key = from
    BY HeadFacts DEF RegisterUser
  <1>3. rep \in Rep
    BY <1>1, <1>2 DEF NewRep, Rep, Ip, HandShake
  <1>4. ASSUME NEW m \in Node, NEW i \in Id
        PROVE  users'[m][i] = IF m = n /\ i = hs.id THEN rep ELSE users[m][i]
    BY RegisterUserWrites
  <1>5. QueuesMove
    BY RegisterUserMoves
  <1>6. HonestChannels' /\ inbox' \in [End -> Seq(HandShake)]
    BY <1>5, QueuesStayHonest
  <1>7. TypeOK'
    <2>1. users' \in [Node -> [Id -> Rep \cup {NoRep}]]
      BY <1>1, <1>2, <1>3 DEF RegisterUser, TypeOK
    <2> QED
      BY <1>6, <2>1 DEF RegisterUser, TypeOK
  <1>8. RepReachesUser'
    <2> SUFFICES ASSUME NEW m \in Node, NEW i \in Id, users'[m][i] # NoRep
                 PROVE  /\ Owner(users'[m][i].fd) = m
                        /\ IdOf[Owner(Far(users'[m][i].fd))] = i
                        /\ users'[m][i].key = Owner(Far(users'[m][i].fd))
                        /\ << users'[m][i].ip, users'[m][i].port >> =
                             Addr(Owner(Far(users'[m][i].fd)))
      BY DEF RepReachesUser
    <2>1. CASE m = n /\ i = hs.id
      <3>1. users'[m][i] = rep
        BY <1>4, <2>1
      <3>2. rep.fd = e /\ rep.ip = HostOf[from] /\ rep.port = hs.port /\ rep.key = hs.key
        BY DEF NewRep
      <3> HIDE DEF rep, hs
      <3> QED
        BY <1>2, <2>1, <3>1, <3>2 DEF Addr
    <2>2. CASE ~ (m = n /\ i = hs.id)
      BY <1>4, <2>2 DEF RepReachesUser
    <2> QED
      BY <2>1, <2>2
  <1> QED
    BY <1>6, <1>7, <1>8

\* So does every other step, which leaves the Reps alone.
LEMMA NextTruthful == Truthful /\ [Next]_vars => Truthful'
  <1> SUFFICES ASSUME Truthful, [Next]_vars PROVE Truthful'
    OBVIOUS
  <1>1. QueuesMove
    BY NextMoves DEF Truthful
  <1>2. HonestChannels' /\ inbox' \in [End -> Seq(HandShake)]
    BY <1>1, QueuesStayHonest DEF Truthful
  <1>3. ASSUME users' = users,
               phase' \in [Node -> {"off", "copy", "dial", "loop"}],
               target' \in [Node -> Node \cup {NoNode}],
               copied' \in [Node -> SUBSET Entry]
        PROVE  Truthful'
    <2>1. RepReachesUser'
      BY <1>3 DEF Truthful, RepReachesUser
    <2> QED
      BY <1>2, <1>3, <2>1 DEF Truthful, TypeOK
  <1>4. ASSUME NEW n \in Node, NEW t \in NodeArg[n], Start(n, t) PROVE Truthful'
    <2>1. t \in Node \cup {NoNode}
      BY MeshAssumption
    <2> QED
      BY <1>3, <1>4, <2>1 DEF Start, Truthful, TypeOK
  <1>5. ASSUME NEW n \in Node, CopyUsers(n) PROVE Truthful'
    <2>1. Entries(n) \in SUBSET Entry
      BY EntriesType DEF Truthful
    <2> QED
      BY <1>3, <1>5, <2>1 DEF CopyUsers, Truthful, TypeOK
  <1>6. ASSUME NEW n \in Node, DialTarget(n) PROVE Truthful'
    BY <1>3, <1>6 DEF DialTarget, Truthful, TypeOK
  <1>7. ASSUME NEW e \in End, IgnoreHandShake(e) PROVE Truthful'
    BY <1>3, <1>7 DEF IgnoreHandShake, Truthful, TypeOK
  <1>8. CASE UNCHANGED vars
    BY <1>3, <1>8 DEF vars, Truthful, TypeOK
  <1> QED
    BY <1>4, <1>5, <1>6, <1>7, <1>8, RegisterUserTruthful DEF Next

\* A user is new only when a handshake of the user was handled.
LEMMA OnlyRegisterWrites ==
  ASSUME TypeOK, HonestChannels, [Next]_vars, NEW n \in Node, NEW i \in Id,
         users[n][i] = NoRep, users'[n][i] # NoRep
  PROVE  \E e \in End : RegisterUser(e) /\ n = Owner(e) /\ users'[n][i] = NewRep(e)
  <1>1. users' # users
    OBVIOUS
  <1>2. PICK e \in End : RegisterUser(e)
    BY <1>1 DEF Next, Start, CopyUsers, DialTarget, IgnoreHandShake, vars
  <1> QED
    BY <1>2, RegisterUserWrites

\* Whom a process registers it answers, on the descriptor it stores.
LEMMA RegisterUserAnswers ==
  ASSUME TypeOK, NEW e \in End, RegisterUser(e)
  PROVE  \E k \in DOMAIN inbox'[Far(e)] : inbox'[Far(e)][k].id = IdOf[Owner(e)]
  <1> DEFINE n == Owner(e)
  <1>1. n \in Node /\ Far(e) \in End /\ Far(e) # e
    BY EndFacts
  <1>2. inbox'[Far(e)] = Append(inbox[Far(e)], Greeting(n, Entries(n)))
    BY <1>1 DEF RegisterUser, Receivers, Answer
  <1>3. Entries(n) \in SUBSET Entry
    BY <1>1, EntriesType
  <1>4. Greeting(n, Entries(n)) \in HandShake /\ Greeting(n, Entries(n)).id = IdOf[n]
    BY <1>1, <1>3, GreetingFacts
  <1>5. inbox[Far(e)] \in Seq(HandShake)
    BY <1>1 DEF TypeOK
  <1>6. /\ Len(inbox[Far(e)]) + 1 \in DOMAIN inbox'[Far(e)]
        /\ inbox'[Far(e)][Len(inbox[Far(e)]) + 1] = Greeting(n, Entries(n))
    BY <1>2, <1>4, <1>5, AppendFacts
  <1> QED
    BY <1>4, <1>6

\* Acquaintance is mutual or about to be: the sender of a handshake is answered, and
\* other steps leave the users alone.
LEMMA NextAcquainted == MeshInv /\ [Next]_vars => Acquaintance'
  <1> SUFFICES ASSUME MeshInv, [Next]_vars,
                      NEW n \in Node, NEW i \in Id, users'[n][i] # NoRep
               PROVE  LET far == Far(users'[n][i].fd)
                      IN \/ users'[Owner(far)][IdOf[n]] # NoRep
                         \/ \E k \in DOMAIN inbox'[far] : inbox'[far][k].id = IdOf[n]
    BY DEF Acquaintance
  <1> USE DEF MeshInv, Truthful
  <1>1. QueuesMove /\ UsersStay
    BY NextMoves
  <1>2. CASE users[n][i] # NoRep
    <2> DEFINE far == Far(users[n][i].fd)
    <2>1. users'[n][i] = users[n][i]
      BY <1>1, <1>2 DEF UsersStay
    <2>2. far \in End
      BY <1>2, EndFacts DEF TypeOK, Rep
    <2>3. IdOf[n] \in Id
      BY DEF Id
    <2>4. \/ users[Owner(far)][IdOf[n]] # NoRep
          \/ \E k \in DOMAIN inbox[far] : inbox[far][k].id = IdOf[n]
      BY <1>2 DEF Acquaintance
    <2> HIDE DEF far
    <2>5. \/ users'[Owner(far)][IdOf[n]] # NoRep
          \/ \E k \in DOMAIN inbox'[far] : inbox'[far][k].id = IdOf[n]
      BY <1>1, <2>2, <2>3, <2>4, AcquaintanceStays
    <2> QED
      BY <2>1, <2>5 DEF far
  <1>3. CASE users[n][i] = NoRep
    <2>1. PICK e \in End : RegisterUser(e) /\ n = Owner(e) /\ users'[n][i] = NewRep(e)
      BY <1>3, OnlyRegisterWrites
    <2>2. users'[n][i].fd = e
      BY <2>1 DEF NewRep
    <2> QED
      BY <2>1, <2>2, RegisterUserAnswers
  <1> QED
    BY <1>2, <1>3

LEMMA InitMeshInv == Init => MeshInv
  <1> SUFFICES ASSUME Init PROVE MeshInv
    OBVIOUS
  <1>1. TypeOK
    BY MeshAssumption DEF Init, TypeOK
  <1>2. HonestChannels
    BY DEF Init, HonestChannels
  <1>3. RepReachesUser /\ Acquaintance
    BY DEF Init, RepReachesUser, Acquaintance
  <1> QED
    BY <1>1, <1>2, <1>3 DEF MeshInv, Truthful

\* The state predicates above, and who knows whom, in every reachable state.
THEOREM MeshInvariant == Safe => []MeshInv
  <1>1. Init => MeshInv
    BY InitMeshInv
  <1>2. MeshInv /\ [Next]_vars => MeshInv'
    BY NextTruthful, NextAcquainted DEF MeshInv
  <1> QED
    BY <1>1, <1>2, PTL DEF Safe

-----------------------------------------------------------------------------
(* The theorems a reader should know.                                       *)

\* Every variable stays in its set.
THEOREM MeshTypeCorrect == Safe => []TypeOK
  BY MeshInvariant, PTL DEF MeshInv, Truthful

\* What a process has registered under an id is the process to be reached there:
\* the descriptor, the key and the address RecvHandShake puts in a Rep agree.
THEOREM MeshRepReachesUser == Safe => []RepReachesUser
  BY MeshInvariant, PTL DEF MeshInv, Truthful

\* RecvHandShake answers whom it registers, so that nobody is known one-sidedly
\* once the packets on the way are handled.
THEOREM MeshAcquaintance == Safe => []Acquaintance
  BY MeshInvariant, PTL DEF MeshInv, Truthful

\* The handshakes implement the directory: seen through the descriptors of the
\* Reps, every step of Mesh learns one user truthfully or changes nothing.
THEOREM MeshImplementsDirectory == Safe => DirectorySpec
  <1> DEFINE known == [n \in Node |-> [i \in Id |-> UserBehind(n, i)]]
  <1>1. Init => Dir!DirInit
    BY DEF Init, Dir!DirInit, UserBehind, Id, Dir!Id
  <1>2. MeshInv /\ [Next]_vars => [Dir!DirNext]_known
    <2> SUFFICES ASSUME MeshInv, [Next]_vars
                 PROVE  Dir!DirNext \/ known' = known
      OBVIOUS
    <2>1. ASSUME NEW e \in End, RegisterUser(e)
          PROVE  Dir!DirNext
      <3> DEFINE n    == Owner(e)
                 from == Owner(Far(e))
      <3>1. n \in Node /\ from \in Node /\ IdOf[from] \in Id
        BY <2>1, EndFacts DEF Id
      <3>2. Head(inbox[e]).id = IdOf[from] /\ users[n][IdOf[from]] = NoRep
        BY <2>1, HeadFacts DEF RegisterUser, MeshInv, Truthful
      <3>3. ASSUME NEW m \in Node, NEW i \in Id
            PROVE  users'[m][i] = IF m = n /\ i = IdOf[from]
                     THEN NewRep(e)
                     ELSE users[m][i]
        BY <2>1, <3>2, RegisterUserWrites DEF MeshInv, Truthful
      <3>4. users'[n][IdOf[from]] # NoRep
        BY <2>1, <3>2, RegisterUserFills DEF MeshInv, Truthful
      <3>5. known[n][IdOf[from]] = NoNode
        BY <3>1, <3>2 DEF UserBehind
      <3>6. ASSUME NEW m \in Node, NEW i \in Id
            PROVE  UserBehind(m, i)' =
                     IF m = n /\ i = IdOf[from] THEN from ELSE UserBehind(m, i)
        BY <3>3, <3>4 DEF UserBehind, NewRep
      <3>7. known' = [known EXCEPT ![n][IdOf[from]] = from]
        BY <3>1, <3>6
      <3> QED
        BY <3>1, <3>5, <3>7 DEF Dir!DirNext, Dir!Learn, Dir!Id, Id
    <2>2. CASE users' = users
      BY <2>2 DEF UserBehind
    <2> QED
      BY <2>1, <2>2 DEF Next, Start, CopyUsers, DialTarget, IgnoreHandShake, vars
  <1> QED
    BY <1>1, <1>2, MeshInvariant, PTL DEF Safe, DirectorySpec, Dir!DirSpec

-----------------------------------------------------------------------------
(* Nobody registers itself, when every process has an id of its own and     *)
(* --node names processes that run.                                         *)

\* The processes that have been started.
Up == { n \in Node : Listening(n) }

\* Processes become acquainted by dialling their --node argument: island[n] is, of all
\* processes n may have come to know, the one that has not dialled, or needs not.
\* `age' is an order in which they were started.
Islands(island, age) ==
  /\ island \in [Node -> Node]
  /\ age \in [Node -> Nat]
  /\ \A n \in Node : age[island[n]] <= age[n]
  /\ \A n \in Node \ Up : \A m \in Node : island[m] = n <=> m = n
  /\ \A n \in Node : phase[n] \in {"copy", "dial"} =>
       island[n] = n /\ target[n] \in Up /\ age[target[n]] < age[n]

\* The address x is that of a running process of n's island.
On(x, n, island, up) ==
  \E m \in up : << x.ip, x.port >> = Addr(m) /\ island[m] = island[n]

\* A packet on its way to e comes from another process of the same island, and lists
\* processes of that island, but not the one it goes to.
Fit(e, peers, island, up) ==
  /\ Owner(e) \in up /\ Owner(Far(e)) \in up
  /\ Owner(e) # Owner(Far(e))
  /\ island[Owner(Far(e))] = island[Owner(e)]
  /\ \A x \in peers : On(x, Owner(e), island, up) /\ << x.ip, x.port >> # Addr(Owner(e))

\* Whom n has registered is on its island.
Near(n, rep, island, up) ==
  /\ n \in up /\ Owner(Far(rep.fd)) \in up
  /\ island[Owner(Far(rep.fd))] = island[n]

UsersNear(island) ==
  \A n \in Node, i \in Id : users[n][i] # NoRep => Near(n, users[n][i], island, Up)

CopiedNear(island) == \A n \in Node : \A x \in copied[n] : On(x, n, island, Up)

PacketsFit(island) ==
  \A e \in End : \A k \in DOMAIN inbox[e] : Fit(e, inbox[e][k].peers, island, Up)

OneAddress == \A n, m \in Up : Addr(n) = Addr(m) => n = m

StrangersInv ==
  /\ MeshInv
  /\ OneAddress
  /\ NeverOwnUser
  /\ \E island, age :
       Islands(island, age) /\ UsersNear(island) /\ CopiedNear(island) /\ PacketsFit(island)

\* Islands are joined and never parted.
Joins(island, wider) ==
  \A n, m \in Node : island[n] = island[m] => wider[n] = wider[m]

LEMMA StillOn ==
  ASSUME NEW up \in SUBSET Node, NEW more \in SUBSET Node, up \subseteq more,
         NEW island, NEW wider, Joins(island, wider),
         NEW n \in Node, NEW x, On(x, n, island, up)
  PROVE  On(x, n, wider, more)
BY DEF Joins, On

LEMMA StillFit ==
  ASSUME NEW up \in SUBSET Node, NEW more \in SUBSET Node, up \subseteq more,
         NEW island, NEW wider, Joins(island, wider),
         NEW e \in End, NEW peers, Fit(e, peers, island, up)
  PROVE  Fit(e, peers, wider, more)
<1>1. Owner(e) \in Node /\ Owner(Far(e)) \in Node
  BY EndFacts
<1>2. \A x \in peers : On(x, Owner(e), wider, more)
  BY <1>1, StillOn DEF Fit
<1> QED BY <1>1, <1>2 DEF Fit, Joins

\* The packets go on fitting, when the new ones do.
LEMMA PacketsStillFit ==
  ASSUME TypeOK, Up \subseteq Up', NEW island, NEW wider, Joins(island, wider), PacketsFit(island),
         \A e \in End :
           \/ inbox'[e] = inbox[e]
           \/ inbox[e] # << >> /\ inbox'[e] = Tail(inbox[e])
           \/ \E p \in HandShake :
                inbox'[e] = Append(inbox[e], p) /\ Fit(e, p.peers, wider, Up')
  PROVE  PacketsFit(wider)'
<1> DEFINE more == Up'
<1>1. Up \in SUBSET Node /\ more \in SUBSET Node /\ Up \subseteq more
  BY DEF Up
<1>2. ASSUME NEW e \in End, NEW k \in DOMAIN inbox'[e]
      PROVE  Fit(e, inbox'[e][k].peers, wider, more)
  <2> HIDE DEF more
  <2>1. inbox[e] \in Seq(HandShake)
    BY DEF TypeOK
  <2>2. ASSUME NEW j \in DOMAIN inbox[e] PROVE Fit(e, inbox[e][j].peers, wider, more)
    BY <1>1, StillFit DEF PacketsFit
  <2>3. CASE inbox'[e] = inbox[e]
    BY <2>2, <2>3
  <2>4. CASE inbox[e] # << >> /\ inbox'[e] = Tail(inbox[e])
    <3>1. k + 1 \in DOMAIN inbox[e] /\ inbox'[e][k] = inbox[e][k + 1]
      BY <2>1, <2>4, TailFacts
    <3> QED BY <2>2, <3>1
  <2>5. ASSUME NEW p \in HandShake, inbox'[e] = Append(inbox[e], p),
               Fit(e, p.peers, wider, more)
        PROVE  Fit(e, inbox'[e][k].peers, wider, more)
    <3>1. /\ DOMAIN inbox'[e] = 1 .. Len(inbox[e]) + 1
          /\ DOMAIN inbox[e] = 1 .. Len(inbox[e])
          /\ \A j \in DOMAIN inbox[e] : inbox'[e][j] = inbox[e][j]
          /\ inbox'[e][Len(inbox[e]) + 1] = p
      BY <2>1, <2>5, AppendFacts
    <3>2. Len(inbox[e]) \in Nat
      BY <2>1
    <3>3. k \in DOMAIN inbox[e] \/ k = Len(inbox[e]) + 1
      BY <3>1, <3>2
    <3> QED BY <2>2, <2>5, <3>1, <3>3
  <2> QED BY <2>3, <2>4, <2>5 DEF more
<1> QED BY <1>2 DEF PacketsFit

\* So do the users, and what has been copied.
LEMMA UsersStillNear ==
  ASSUME TypeOK, Up \subseteq Up', NEW island, NEW wider, Joins(island, wider), UsersNear(island),
         users' = users
  PROVE  UsersNear(wider)'
<1> SUFFICES ASSUME NEW n \in Node, NEW i \in Id, users[n][i] # NoRep
             PROVE  Near(n, users[n][i], wider, Up')
  BY DEF UsersNear
<1>1. users[n][i] \in Rep /\ Near(n, users[n][i], island, Up)
  BY DEF TypeOK, UsersNear
<1>2. Owner(Far(users[n][i].fd)) \in Node
  BY <1>1, EndFacts DEF Rep
<1> QED BY <1>1, <1>2 DEF Near, Joins

LEMMA CopiedStillNear ==
  ASSUME Up \subseteq Up', NEW island, NEW wider, Joins(island, wider), CopiedNear(island),
         \A n \in Node : copied'[n] \subseteq copied[n]
  PROVE  CopiedNear(wider)'
<1> DEFINE more == Up'
<1>1. Up \in SUBSET Node /\ more \in SUBSET Node /\ Up \subseteq more
  BY DEF Up
<1> HIDE DEF more
<1>2. ASSUME NEW n \in Node, NEW x \in copied'[n] PROVE On(x, n, wider, more)
  BY <1>1, StillOn DEF CopiedNear
<1> QED BY <1>2 DEF CopiedNear, more

\* The addresses that n lists are those of its users, who are on its island.
LEMMA EntriesNear ==
  ASSUME TypeOK, RepReachesUser, NEW island, UsersNear(island), NEW n \in Node, NEW x \in Entries(n)
  PROVE  \E i \in Id :
           /\ users[n][i] # NoRep
           /\ LET m == Owner(Far(users[n][i].fd))
              IN m \in Up /\ << x.ip, x.port >> = Addr(m) /\ island[m] = island[n] /\ IdOf[m] = i
<1>1. PICK i \in Id : /\ users[n][i] # NoRep
                      /\ x = [pos |-> i, ip |-> users[n][i].ip, port |-> users[n][i].port]
  BY DEF Entries
<1>2. /\ IdOf[Owner(Far(users[n][i].fd))] = i
      /\ << users[n][i].ip, users[n][i].port >> = Addr(Owner(Far(users[n][i].fd)))
  BY <1>1 DEF RepReachesUser
<1>3. Near(n, users[n][i], island, Up)
  BY <1>1 DEF UsersNear
<1>4. x.ip = users[n][i].ip /\ x.port = users[n][i].port
  BY <1>1
<1> QED BY <1>1, <1>2, <1>3, <1>4 DEF Near

\* Whoever is started is alone on an island, and older than nobody.
LEMMA StartStrangers ==
  ASSUME StrangersInv, Launch # "any", NEW n \in Node, NEW t \in NodeArg[n], Start(n, t)
  PROVE  /\ OneAddress' /\ NeverOwnUser'
         /\ \E island, age : Islands(island, age)' /\ UsersNear(island)'
                             /\ CopiedNear(island)' /\ PacketsFit(island)'
<1>1. PICK island, age : /\ Islands(island, age) /\ UsersNear(island)
                         /\ CopiedNear(island) /\ PacketsFit(island)
  BY DEF StrangersInv
<1>2. /\ phase[n] = "off" /\ (\A m \in Node : Listening(m) => Addr(m) # Addr(n))
      /\ (t # NoNode => Listening(t))
      /\ phase' = [phase EXCEPT ![n] = IF t = NoNode THEN "loop" ELSE "copy"]
      /\ target' = [target EXCEPT ![n] = t]
      /\ copied' = copied /\ users' = users /\ inbox' = inbox
  BY DEF Start
<1>3. TypeOK /\ OneAddress /\ NeverOwnUser
  BY DEF StrangersInv, MeshInv, Truthful
<1>4. t # NoNode => t \in Node
  BY MeshAssumption
<1>5. /\ \A m \in Node : phase'[m] = IF m = n THEN IF t = NoNode THEN "loop" ELSE "copy"
                                     ELSE phase[m]
      /\ \A m \in Node : target'[m] = IF m = n THEN t ELSE target[m]
  BY <1>2, <1>3 DEF TypeOK
<1>6. n \notin Up /\ Up' = Up \cup {n} /\ (t # NoNode => t \in Up)
  BY <1>2, <1>4, <1>5 DEF Up, Listening
<1>7. OneAddress'
  BY <1>2, <1>3, <1>6 DEF OneAddress, Up
<1>8. NeverOwnUser'
  BY <1>2, <1>3 DEF NeverOwnUser
<1>9. Joins(island, island)
  BY DEF Joins
<1>10. UsersNear(island)' /\ CopiedNear(island)' /\ PacketsFit(island)'
  <2>1. Up \subseteq Up'
    BY <1>6
  <2>2. UsersNear(island)'
    BY <1>1, <1>2, <1>3, <1>9, <2>1, UsersStillNear
  <2>3. CopiedNear(island)'
    BY <1>1, <1>2, <1>9, <2>1, CopiedStillNear
  <2>4. PacketsFit(island)'
    BY <1>1, <1>2, <1>3, <1>9, <2>1, PacketsStillFit
  <2> QED BY <2>2, <2>3, <2>4
<1> DEFINE old == IF t = NoNode THEN age[n] ELSE age[t] + 1
           age2 == [age EXCEPT ![n] = old]
<1>11. age \in [Node -> Nat] /\ island \in [Node -> Node]
  BY <1>1 DEF Islands
<1>12. old \in Nat
  BY <1>4, <1>11
<1>13. /\ age2 \in [Node -> Nat]
       /\ \A m \in Node : age2[m] = IF m = n THEN old ELSE age[m]
  BY <1>11, <1>12
<1>14. t # NoNode => age[t] < age2[n]
  BY <1>4, <1>11, <1>13
<1> HIDE DEF age2, old
<1>15. Islands(island, age2)'
  <2>1. \A m \in Node : island[m] = n <=> m = n
    BY <1>1, <1>6 DEF Islands
  <2>2. ASSUME NEW m \in Node PROVE age2[island[m]] <= age2[m]
    <3>1. age[island[m]] <= age[m] /\ island[m] \in Node
      BY <1>1, <1>11 DEF Islands
    <3>2. CASE m = n
      BY <1>12, <1>13, <2>1, <3>2
    <3>3. CASE m # n
      BY <1>13, <2>1, <3>1, <3>3
    <3> QED BY <3>2, <3>3
  <2>3. \A m \in Node \ Up' : \A k \in Node : island[k] = m <=> k = m
    BY <1>1, <1>6 DEF Islands
  <2>4. ASSUME NEW m \in Node, phase'[m] \in {"copy", "dial"}
        PROVE  island[m] = m /\ target'[m] \in Up' /\ age2[target'[m]] < age2[m]
    <3>1. CASE m = n
      <4>1. t # NoNode
        BY <1>5, <2>4, <3>1
      <4>2. t \in Up /\ t \in Node /\ t # n
        BY <1>4, <1>6, <4>1
      <4> QED BY <1>5, <1>6, <1>13, <1>14, <2>1, <3>1, <4>1, <4>2
    <3>2. CASE m # n
      <4>1. phase[m] \in {"copy", "dial"} /\ target'[m] = target[m]
        BY <1>5, <2>4, <3>2
      <4>2. island[m] = m /\ target[m] \in Up /\ age[target[m]] < age[m]
        BY <1>1, <4>1 DEF Islands
      <4>3. target[m] \in Node /\ target[m] # n
        BY <1>6, <4>2 DEF Up
      <4> QED BY <1>6, <1>13, <3>2, <4>1, <4>2, <4>3
    <3> QED BY <3>1, <3>2
  <2> QED BY <1>11, <1>13, <2>2, <2>3, <2>4 DEF Islands
<1> QED BY <1>7, <1>8, <1>10, <1>15

\* What the main thread copies is on its island.
LEMMA CopyStrangers ==
  ASSUME StrangersInv, NEW n \in Node, CopyUsers(n)
  PROVE  /\ OneAddress' /\ NeverOwnUser'
         /\ \E island, age : Islands(island, age)' /\ UsersNear(island)'
                             /\ CopiedNear(island)' /\ PacketsFit(island)'
<1>1. PICK island, age : /\ Islands(island, age) /\ UsersNear(island)
                         /\ CopiedNear(island) /\ PacketsFit(island)
  BY DEF StrangersInv
<1>2. /\ phase[n] = "copy" /\ phase' = [phase EXCEPT ![n] = "dial"]
      /\ copied' = [copied EXCEPT ![n] = Entries(n)]
      /\ target' = target /\ users' = users /\ inbox' = inbox
  BY DEF CopyUsers
<1>3. TypeOK /\ OneAddress /\ NeverOwnUser /\ RepReachesUser
  BY DEF StrangersInv, MeshInv, Truthful
<1>4. \A m \in Node : phase'[m] = IF m = n THEN "dial" ELSE phase[m]
  BY <1>2, <1>3 DEF TypeOK
<1>5. Up' = Up
  BY <1>2, <1>4 DEF Up, Listening
<1>6. OneAddress' /\ NeverOwnUser'
  BY <1>2, <1>3, <1>5 DEF OneAddress, NeverOwnUser
<1>7. Islands(island, age)'
  BY <1>1, <1>2, <1>4, <1>5 DEF Islands
<1>8. UsersNear(island)' /\ PacketsFit(island)'
  BY <1>1, <1>2, <1>5 DEF UsersNear, PacketsFit
<1>9. CopiedNear(island)'
  <2>1. ASSUME NEW x \in Entries(n) PROVE On(x, n, island, Up)
    BY <1>1, <1>3, <2>1, EntriesNear DEF On
  <2>2. \A m \in Node : copied'[m] = IF m = n THEN Entries(n) ELSE copied[m]
    BY <1>2, <1>3 DEF TypeOK
  <2> QED BY <1>1, <1>5, <2>1, <2>2 DEF CopiedNear
<1> QED BY <1>6, <1>7, <1>8, <1>9

\* Dialling joins the island to that of the process dialled, which is an older one.
LEMMA DialStrangers ==
  ASSUME StrangersInv, NEW n \in Node, DialTarget(n)
  PROVE  /\ OneAddress' /\ NeverOwnUser'
         /\ \E island, age : Islands(island, age)' /\ UsersNear(island)'
                             /\ CopiedNear(island)' /\ PacketsFit(island)'
<1>1. PICK island, age : /\ Islands(island, age) /\ UsersNear(island)
                         /\ CopiedNear(island) /\ PacketsFit(island)
  BY DEF StrangersInv
<1>2. /\ phase[n] = "dial" /\ phase' = [phase EXCEPT ![n] = "loop"]
      /\ copied' = [copied EXCEPT ![n] = {}]
      /\ inbox' = [e \in End |-> IF e \in CallTo(n)
                                 THEN Append(inbox[e], Greeting(n, copied[n])) ELSE inbox[e]]
      /\ target' = target /\ users' = users
  BY DEF DialTarget
<1>3. TypeOK /\ OneAddress /\ NeverOwnUser
  BY DEF StrangersInv, MeshInv, Truthful
<1>4. \A m \in Node : phase'[m] = IF m = n THEN "loop" ELSE phase[m]
  BY <1>2, <1>3 DEF TypeOK
<1>5. Up' = Up
  BY <1>2, <1>4 DEF Up, Listening
<1>6. OneAddress' /\ NeverOwnUser'
  BY <1>2, <1>3, <1>5 DEF OneAddress, NeverOwnUser
<1>7. PICK t : t = target[n]
  OBVIOUS
<1>8. PICK wider : wider = [m \in Node |-> IF island[m] = n THEN island[t] ELSE island[m]]
  OBVIOUS
<1>9. /\ island \in [Node -> Node] /\ age \in [Node -> Nat]
      /\ (\A m \in Node : age[island[m]] <= age[m])
      /\ island[n] = n /\ t \in Up /\ t \in Node /\ age[t] < age[n]
  BY <1>1, <1>2, <1>7 DEF Islands, Up
<1>10. island[t] \in Node /\ age[island[t]] <= age[t] /\ island[t] # n /\ t # n
  BY <1>9
<1>11. wider \in [Node -> Node] /\ Joins(island, wider)
  BY <1>9, <1>10, <1>8 DEF Joins
<1>12. wider[n] = wider[t]
  BY <1>9, <1>10, <1>8
<1>13. Islands(wider, age)'
  <2>1. ASSUME NEW m \in Node PROVE age[wider[m]] <= age[m]
    <3>1. CASE island[m] = n
      <4>1. wider[m] = island[t]
        BY <1>8, <3>1
      <4>2. age[island[t]] <= age[t] /\ age[t] < age[n] /\ age[n] <= age[m]
        BY <1>9, <1>10, <3>1
      <4>3. age[island[t]] \in Nat /\ age[t] \in Nat /\ age[n] \in Nat /\ age[m] \in Nat
        BY <1>9, <1>10
      <4> QED BY <4>1, <4>2, <4>3
    <3>2. CASE island[m] # n
      BY <1>9, <1>8, <3>2
    <3> QED BY <3>1, <3>2
  <2>2. ASSUME NEW m \in Node \ Up', NEW k \in Node PROVE wider[k] = m <=> k = m
    <3>1. /\ m \in Node \ Up /\ \A j \in Node : island[j] = m <=> j = m
      BY <1>1, <1>5 DEF Islands
    <3>2. m # n /\ m # t
      BY <1>2, <1>9, <3>1 DEF Up, Listening
    <3>3. island[t] # m
      BY <1>9, <3>1, <3>2
    <3> QED BY <1>8, <3>1, <3>2, <3>3
  <2>3. ASSUME NEW m \in Node, phase'[m] \in {"copy", "dial"}
        PROVE  wider[m] = m /\ target'[m] \in Up' /\ age[target'[m]] < age[m]
    <3>1. m # n /\ phase[m] \in {"copy", "dial"}
      BY <1>4, <2>3
    <3>2. island[m] = m /\ target[m] \in Up /\ age[target[m]] < age[m]
      BY <1>1, <3>1 DEF Islands
    <3> QED BY <1>2, <1>5, <1>8, <3>1, <3>2
  <2> QED BY <1>9, <1>11, <2>1, <2>2, <2>3 DEF Islands
<1>14. UsersNear(wider)' /\ CopiedNear(wider)'
  <2>1. Up \subseteq Up' /\ \A m \in Node : copied'[m] \subseteq copied[m]
    BY <1>2, <1>3, <1>5 DEF TypeOK
  <2>2. UsersNear(wider)'
    BY <1>1, <1>2, <1>3, <1>11, <2>1, UsersStillNear
  <2>3. CopiedNear(wider)'
    BY <1>1, <1>11, <2>1, CopiedStillNear
  <2> QED BY <2>2, <2>3
<1>15. PacketsFit(wider)'
  <2> DEFINE p == Greeting(n, copied[n])
  <2>1. p \in HandShake /\ p.peers = copied[n]
    <3>1. copied[n] \in SUBSET Entry
      BY <1>3 DEF TypeOK
    <3> QED BY <3>1, GreetingFacts DEF Greeting
  <2>2. ASSUME NEW e \in CallTo(n) PROVE Fit(e, p.peers, wider, Up')
    <3>1. PICK m \in Node : e = AcceptEnd(n, m, NoNode) /\ Listening(m) /\ Addr(m) = Addr(t)
      BY <1>7 DEF CallTo
    <3>2. m = t
      BY <1>3, <1>9, <3>1 DEF OneAddress, Up
    <3>3. Owner(e) = t /\ Owner(Far(e)) = n
      BY <3>1, <3>2, AcceptEndFacts
    <3>4. n \in Up
      BY <1>2 DEF Up, Listening
    <3>5. ASSUME NEW x \in copied[n]
          PROVE  On(x, t, wider, Up) /\ << x.ip, x.port >> # Addr(t)
      <4>1. On(x, n, island, Up)
        BY <1>1 DEF CopiedNear
      <4>2. PICK k \in Up : << x.ip, x.port >> = Addr(k) /\ island[k] = island[n]
        BY <4>1 DEF On
      <4>3. k \in Node
        BY DEF Up
      <4>4. wider[k] = wider[t]
        BY <1>11, <1>12, <4>2, <4>3 DEF Joins
      <4>5. On(x, t, wider, Up)
        <5> QED BY <4>2, <4>4 DEF On
      <4>6. Addr(k) # Addr(t)
        <5> SUFFICES ASSUME Addr(k) = Addr(t) PROVE FALSE
          OBVIOUS
        <5>1. k = t
          BY <1>3, <1>9 DEF OneAddress
        <5> QED BY <1>9, <1>10, <4>2, <5>1
      <4> QED BY <4>2, <4>5, <4>6
    <3> HIDE DEF p
    <3> QED BY <1>5, <1>9, <1>10, <1>12, <2>1, <3>3, <3>4, <3>5 DEF Fit
  <2>3. Up \subseteq Up'
    BY <1>5
  <2>4. \A e \in End :
           \/ inbox'[e] = inbox[e]
           \/ inbox[e] # << >> /\ inbox'[e] = Tail(inbox[e])
           \/ \E q \in HandShake :
                inbox'[e] = Append(inbox[e], q) /\ Fit(e, q.peers, wider, Up')
    <3>1. \A e \in End : inbox'[e] = IF e \in CallTo(n) THEN Append(inbox[e], p) ELSE inbox[e]
      BY <1>2
    <3> HIDE DEF p
    <3> QED BY <2>1, <2>2, <3>1
  <2> QED BY <1>1, <1>3, <1>11, <2>3, <2>4, PacketsStillFit
<1> QED BY <1>6, <1>13, <1>14, <1>15

\* A handshake that is ignored only leaves its queue.
LEMMA IgnoreStrangers ==
  ASSUME StrangersInv, NEW e \in End, IgnoreHandShake(e)
  PROVE  /\ OneAddress' /\ NeverOwnUser'
         /\ \E island, age : Islands(island, age)' /\ UsersNear(island)'
                             /\ CopiedNear(island)' /\ PacketsFit(island)'
<1>1. PICK island, age : /\ Islands(island, age) /\ UsersNear(island)
                         /\ CopiedNear(island) /\ PacketsFit(island)
  BY DEF StrangersInv
<1>2. /\ inbox[e] # << >> /\ inbox' = [inbox EXCEPT ![e] = Tail(@)]
      /\ phase' = phase /\ copied' = copied /\ target' = target
      /\ users' = users
  BY DEF IgnoreHandShake
<1>3. TypeOK /\ OneAddress /\ NeverOwnUser
  BY DEF StrangersInv, MeshInv, Truthful
<1>4. Up' = Up
  BY <1>2 DEF Up, Listening
<1>5. OneAddress' /\ NeverOwnUser'
  BY <1>2, <1>3, <1>4 DEF OneAddress, NeverOwnUser
<1>6. Islands(island, age)' /\ UsersNear(island)' /\ CopiedNear(island)'
  BY <1>1, <1>2, <1>4 DEF Islands, UsersNear, CopiedNear
<1>7. PacketsFit(island)'
  <2>1. Joins(island, island) /\ Up \subseteq Up'
    BY <1>4 DEF Joins
  <2>2. \A d \in End :
           \/ inbox'[d] = inbox[d]
           \/ inbox[d] # << >> /\ inbox'[d] = Tail(inbox[d])
           \/ \E q \in HandShake :
                inbox'[d] = Append(inbox[d], q) /\ Fit(d, q.peers, island, Up')
    BY <1>2, <1>3 DEF TypeOK
  <2> QED BY <1>1, <1>3, <2>1, <2>2, PacketsStillFit
<1> QED BY <1>5, <1>6, <1>7

\* What is answered, and to whom: a process of the island, which is neither the one
\* that answers nor listed in the answer.
LEMMA ReceiversFit ==
  ASSUME StrangersInv, NEW e \in End, RegisterUser(e),
         NEW island, UsersNear(island), PacketsFit(island), NEW d \in Receivers(e)
  PROVE  d \in End /\ Fit(d, Entries(Owner(e)), island, Up)
<1>1. PICK n : n = Owner(e)
  OBVIOUS
<1>2. PICK s : s = Owner(Far(e))
  OBVIOUS
<1>3. PICK hs : hs = Head(inbox[e])
  OBVIOUS
<1>4. /\ TypeOK /\ HonestChannels /\ RepReachesUser /\ OneAddress
      /\ n \in Node /\ s \in Node /\ Far(e) \in End /\ Far(Far(e)) = e
  BY <1>1, <1>2, EndFacts DEF StrangersInv, MeshInv, Truthful
<1>5. inbox[e] # << >> /\ users[n][hs.id] = NoRep
  BY <1>1, <1>3 DEF RegisterUser
<1>6. hs.id = IdOf[s]
  BY <1>2, <1>3, <1>4, <1>5, HeadFacts
<1>7. Fit(e, hs.peers, island, Up)
  <2>1. inbox[e] \in Seq(HandShake)
    BY <1>4 DEF TypeOK
  <2>2. 1 \in DOMAIN inbox[e] /\ hs = inbox[e][1]
    BY <1>3, <1>5, <2>1
  <2> QED BY <2>2 DEF PacketsFit
<1>8. /\ n \in Up /\ s \in Up /\ s # n /\ island[s] = island[n]
      /\ \A x \in hs.peers : On(x, n, island, Up) /\ << x.ip, x.port >> # Addr(n)
  BY <1>1, <1>2, <1>7 DEF Fit
\* An entry is the address of a user of n, known under the id of its own.
<1>9. ASSUME NEW x \in Entries(n)
      PROVE  \E m \in Up : /\ << x.ip, x.port >> = Addr(m) /\ island[m] = island[n]
                           /\ users[n][IdOf[m]] # NoRep
  BY <1>4, <1>9, EntriesNear
<1>10. ASSUME NEW x \in Entries(n) PROVE Knows(n, x)
  BY <1>10 DEF Entries, Knows
<1>11. CASE d = Far(e)
  <2>1. Owner(d) = s /\ Owner(Far(d)) = n
    BY <1>1, <1>2, <1>4, <1>11
  <2>2. ASSUME NEW x \in Entries(n)
        PROVE  On(x, s, island, Up) /\ << x.ip, x.port >> # Addr(s)
    <3>1. PICK m \in Up : /\ << x.ip, x.port >> = Addr(m) /\ island[m] = island[n]
                          /\ users[n][IdOf[m]] # NoRep
      BY <1>9
    <3>2. m # s
      BY <1>5, <1>6, <3>1
    <3> QED BY <1>4, <1>8, <3>1, <3>2 DEF On, OneAddress
  <2> QED BY <1>1, <1>4, <1>8, <1>11, <2>1, <2>2 DEF Fit
<1>12. CASE d # Far(e)
  <2>1. PICK q \in Accepting(n, hs.peers) : d = AcceptEnd(n, q, s)
    BY <1>1, <1>2, <1>3, <1>12 DEF Receivers
  <2>2. PICK y \in hs.peers : ~ Knows(n, y) /\ << y.ip, y.port >> = Addr(q)
    <3>1. PICK y \in Dialled(n, hs.peers) : << y.ip, y.port >> = Addr(q)
      BY <2>1 DEF Accepting
    <3>2. y \in hs.peers /\ (y.pos <= y.pos => ~ Knows(n, y))
      BY DEF Dialled
    <3>3. y.pos <= y.pos
      <4>1. hs \in HandShake
        BY <1>3, <1>4, <1>5, HeadFacts
      <4>2. y.pos \in Nat
        BY <3>2, <4>1, MeshAssumption DEF HandShake, Entry, Id
      <4> QED BY <4>2
    <3> QED BY <3>1, <3>2, <3>3
  <2>3. q \in Node /\ q \in Up
    BY <2>1 DEF Accepting, Up
  <2>4. q # n /\ island[q] = island[n]
    <3>1. PICK k \in Up : << y.ip, y.port >> = Addr(k) /\ island[k] = island[n]
      BY <1>8, <2>2 DEF On
    <3>2. k = q
      BY <1>4, <2>2, <2>3, <3>1 DEF OneAddress
    <3> QED BY <1>8, <2>2, <3>1, <3>2
  <2>5. d \in End /\ Owner(d) = q /\ Owner(Far(d)) = n
    BY <1>4, <2>1, <2>3, AcceptEndFacts
  <2>6. ASSUME NEW x \in Entries(n)
        PROVE  On(x, q, island, Up) /\ << x.ip, x.port >> # Addr(q)
    <3>1. << x.ip, x.port >> # << y.ip, y.port >>
      BY <1>10, <2>2 DEF Knows
    <3> QED BY <1>9, <2>2, <2>4, <3>1 DEF On
  <2> QED BY <1>1, <1>8, <2>3, <2>4, <2>5, <2>6 DEF Fit
<1> QED BY <1>11, <1>12

\* Whom a process registers is another one, of its island.
LEMMA RegisterStrangers ==
  ASSUME StrangersInv, \A n, m \in Node : IdOf[n] = IdOf[m] => n = m,
         NEW e \in End, RegisterUser(e)
  PROVE  /\ OneAddress' /\ NeverOwnUser'
         /\ \E island, age : Islands(island, age)' /\ UsersNear(island)'
                             /\ CopiedNear(island)' /\ PacketsFit(island)'
<1>1. PICK island, age : /\ Islands(island, age) /\ UsersNear(island)
                         /\ CopiedNear(island) /\ PacketsFit(island)
  BY DEF StrangersInv
<1>2. /\ inbox[e] # << >> /\ phase' = phase /\ copied' = copied /\ target' = target
      /\ \A d \in End : inbox'[d] = IF d = e THEN Tail(inbox[d])
                                    ELSE IF d \in Receivers(e) THEN Append(inbox[d], Answer(e))
                                    ELSE inbox[d]
  BY DEF RegisterUser
<1>3. /\ TypeOK /\ HonestChannels /\ OneAddress /\ NeverOwnUser
      /\ Owner(e) \in Node /\ Owner(Far(e)) \in Node
  BY EndFacts DEF StrangersInv, MeshInv, Truthful
<1>4. Head(inbox[e]).id = IdOf[Owner(Far(e))]
  BY <1>2, <1>3, HeadFacts
<1>5. /\ Owner(e) \in Up /\ Owner(Far(e)) \in Up /\ Owner(Far(e)) # Owner(e)
      /\ island[Owner(Far(e))] = island[Owner(e)]
  <2>1. inbox[e] \in Seq(HandShake)
    BY <1>3 DEF TypeOK
  <2>2. 1 \in DOMAIN inbox[e]
    BY <1>2, <2>1
  <2>3. Fit(e, inbox[e][1].peers, island, Up)
    BY <1>1, <2>2 DEF PacketsFit
  <2> QED BY <2>3 DEF Fit
<1>6. Up' = Up
  BY <1>2 DEF Up, Listening
<1>7. ASSUME NEW m \in Node, NEW i \in Id
      PROVE  users'[m][i] = IF m = Owner(e) /\ i = IdOf[Owner(Far(e))] THEN NewRep(e)
                            ELSE users[m][i]
  BY <1>3, <1>4, RegisterUserWrites
<1>8. OneAddress' /\ NeverOwnUser'
  BY <1>3, <1>5, <1>6, <1>7 DEF OneAddress, NeverOwnUser, Id
<1>9. Islands(island, age)' /\ CopiedNear(island)'
  BY <1>1, <1>2, <1>6 DEF Islands, CopiedNear
<1>10. UsersNear(island)'
  <2>1. Near(Owner(e), NewRep(e), island, Up)
    BY <1>5 DEF Near, NewRep
  <2> QED BY <1>1, <1>6, <1>7, <2>1 DEF UsersNear
<1>11. PacketsFit(island)'
  <2>1. Joins(island, island) /\ Up \subseteq Up'
    BY <1>6 DEF Joins
  <2>2. Answer(e) \in HandShake /\ Answer(e).peers = Entries(Owner(e))
    <3>1. Entries(Owner(e)) \in SUBSET Entry
      BY <1>3, EntriesType
    <3>2. Answer(e) = Greeting(Owner(e), Entries(Owner(e)))
      BY DEF Answer
    <3> QED BY <1>3, <3>1, <3>2, GreetingFacts DEF Greeting
  <2>3. \A d \in Receivers(e) : Fit(d, Answer(e).peers, island, Up')
    BY <1>1, <1>6, <2>2, ReceiversFit
  <2>4. \A d \in End :
           \/ inbox'[d] = inbox[d]
           \/ inbox[d] # << >> /\ inbox'[d] = Tail(inbox[d])
           \/ \E q \in HandShake :
                inbox'[d] = Append(inbox[d], q) /\ Fit(d, q.peers, island, Up')
    BY <1>2, <2>2, <2>3
  <2> QED BY <1>1, <1>3, <2>1, <2>4, PacketsStillFit
<1> QED BY <1>8, <1>9, <1>10, <1>11

LEMMA NextStrangers ==
  ASSUME Launch # "any", \A n, m \in Node : IdOf[n] = IdOf[m] => n = m
  PROVE  StrangersInv /\ [Next]_vars => StrangersInv'
<1> SUFFICES ASSUME StrangersInv, [Next]_vars PROVE StrangersInv'
  OBVIOUS
<1>1. MeshInv'
  BY NextTruthful, NextAcquainted DEF StrangersInv, MeshInv
<1>2. CASE Next
  <2>1. /\ OneAddress' /\ NeverOwnUser'
        /\ \E island, age : Islands(island, age)' /\ UsersNear(island)'
                            /\ CopiedNear(island)' /\ PacketsFit(island)'
    BY <1>2, StartStrangers, CopyStrangers, DialStrangers, IgnoreStrangers, RegisterStrangers
       DEF Next
  <2> QED BY <1>1, <2>1 DEF StrangersInv
<1>3. CASE UNCHANGED vars
  <2>1. OneAddress' /\ NeverOwnUser'
    BY <1>3 DEF StrangersInv, OneAddress, NeverOwnUser, Up, Listening, vars
  <2>2. PICK island, age : /\ Islands(island, age) /\ UsersNear(island)
                           /\ CopiedNear(island) /\ PacketsFit(island)
    BY DEF StrangersInv
  <2>3. Up' = Up
    BY <1>3 DEF Up, Listening, vars
  <2>4. Islands(island, age)' /\ UsersNear(island)' /\ CopiedNear(island)' /\ PacketsFit(island)'
    BY <1>3, <2>2, <2>3 DEF Islands, UsersNear, CopiedNear, PacketsFit, vars
  <2> QED BY <1>1, <2>1, <2>4 DEF StrangersInv
<1> QED BY <1>2, <1>3

\* Packets come from others of the island, in every reachable state.
THEOREM MeshStrangers ==
  ASSUME Launch # "any", \A n, m \in Node : IdOf[n] = IdOf[m] => n = m
  PROVE  Safe => []StrangersInv
<1>1. Init => StrangersInv
  <2> SUFFICES ASSUME Init PROVE StrangersInv
    OBVIOUS
  <2>1. MeshInv
    BY InitMeshInv
  <2>2. Up = {}
    BY DEF Init, Up, Listening
  <2>3. OneAddress /\ NeverOwnUser
    BY <2>2 DEF Init, OneAddress, NeverOwnUser, Id
  <2>4. Islands([n \in Node |-> n], [n \in Node |-> 0])
    BY DEF Init, Islands
  <2>5. /\ UsersNear([n \in Node |-> n]) /\ CopiedNear([n \in Node |-> n])
        /\ PacketsFit([n \in Node |-> n])
    BY DEF Init, UsersNear, CopiedNear, PacketsFit
  <2> QED BY <2>1, <2>3, <2>4, <2>5 DEF StrangersInv
<1>2. StrangersInv /\ [Next]_vars => StrangersInv'
  BY NextStrangers
<1> QED
  BY <1>1, <1>2, PTL DEF Safe

\* RecvHandShake never registers the process it runs in, which it does not check, and on
\* which DoOnionRouting relies when it counts users: whoever dials whom in whatever order,
\* when ids are unique and --node names a process that runs.  (Of two processes that are
\* started with each other's --node, one may come to dial and to register itself.)
THEOREM MeshNeverOwnUser ==
  ASSUME Launch # "any", \A n, m \in Node : IdOf[n] = IdOf[m] => n = m
  PROVE  Safe => []NeverOwnUser
<1>1. Safe => []StrangersInv
  BY MeshStrangers
<1>2. StrangersInv => NeverOwnUser
  BY DEF StrangersInv
<1> QED
  BY <1>1, <1>2, PTL

-----------------------------------------------------------------------------
(* Everybody meets everybody, when processes are started one after the      *)
(* other: who joins next does so when the one before has been met.          *)

Silent == \A e \in End : inbox[e] = << >>

\* Those of S have all registered each other.
Met(S) == \A n, m \in S : n # m => users[n][IdOf[m]] # NoRep

\* x has registered nobody.
KnowsNobody(x) == \A i \in Id : users[x][i] = NoRep

\* Nobody has registered x.
Unknown(x) == \A n \in Node : users[n][IdOf[x]] = NoRep

\* There is one packet on the way, to e.
Only(e, p) == inbox[e] = << p >> /\ \A d \in End \ {e} : inbox[d] = << >>

\* What is listed are addresses of processes in S.
Lists(peers, S) == \A y \in peers : \E m \in S : << y.ip, y.port >> = Addr(m)

\* x has been started, and is about to dial.
Coming(x, old) ==
  /\ phase[x] = "copy" \/ (phase[x] = "dial" /\ copied[x] = {})
  /\ target[x] \in old
  /\ Silent /\ KnowsNobody(x) /\ Unknown(x)

\* x has dialled.
Calling(x, old) ==
  /\ phase[x] = "loop" /\ KnowsNobody(x) /\ Unknown(x)
  /\ \E t \in old : Only(AcceptEnd(x, t, NoNode), Greeting(x, {}))

\* Whom x dialled has answered, and lists everybody else.
Answered(x, old) ==
  /\ phase[x] = "loop" /\ KnowsNobody(x)
  /\ \E t \in old, list \in SUBSET Entry :
       /\ users[t][IdOf[x]] # NoRep
       /\ Only(Far(AcceptEnd(x, t, NoNode)), Greeting(t, list))
       /\ Lists(list, old)
       /\ \A m \in old \ {t} : \E y \in list : << y.ip, y.port >> = Addr(m)

\* x has dialled everybody: all packets are from x or to x, and each of the others
\* has registered x or has still to read what x sent.
Meeting(x, old) ==
  /\ phase[x] = "loop"
  /\ \A e \in End : \A k \in DOMAIN inbox[e] :
       x \in {Owner(e), Owner(Far(e))} /\ Lists(inbox[e][k].peers, old)
  /\ \A u \in old :
       \/ users[u][IdOf[x]] # NoRep
       \/ \E e \in End : Owner(e) = u /\ Owner(Far(e)) = x /\ inbox[e] # << >>

\* x is the one that joins, the others have met.
Joining(x, old) ==
  /\ \A n \in old : phase[n] = "loop"
  /\ Met(old)
  /\ Coming(x, old) \/ Calling(x, old) \/ Answered(x, old) \/ Meeting(x, old)

\* Only one process is started without --node, which is then the first.
TurnInv ==
  /\ Up # {} => \E n \in Up : NoNode \in NodeArg[n]
  /\ \/ Up = {} /\ Silent
     \/ \E x \in Up : Joining(x, Up \ {x})

\* Who is registered runs, and is somebody else.
LEMMA FriendsUp ==
  ASSUME StrangersInv, NEW n \in Node, NEW i \in Id, users[n][i] # NoRep
  PROVE  /\ n \in Up
         /\ \E m \in Up : /\ m # n /\ IdOf[m] = i
                          /\ << users[n][i].ip, users[n][i].port >> = Addr(m)
<1>1. PICK m : m = Owner(Far(users[n][i].fd))
  OBVIOUS
<1>2. IdOf[m] = i /\ << users[n][i].ip, users[n][i].port >> = Addr(m)
  BY <1>1 DEF StrangersInv, MeshInv, Truthful, RepReachesUser
<1>3. n \in Up /\ m \in Up
  BY <1>1 DEF StrangersInv, UsersNear, Near
<1>4. m # n
  BY <1>2 DEF StrangersInv, NeverOwnUser
<1> QED BY <1>2, <1>3, <1>4

\* What a process lists are the addresses of those it has registered.
LEMMA EntriesList ==
  ASSUME StrangersInv, NEW n \in Node, NEW S,
         \A m \in Up : m # n /\ users[n][IdOf[m]] # NoRep => m \in S
  PROVE  Lists(Entries(n), S)
<1> SUFFICES ASSUME NEW y \in Entries(n) PROVE \E m \in S : << y.ip, y.port >> = Addr(m)
  BY DEF Lists
<1>1. PICK i \in Id : /\ users[n][i] # NoRep
                      /\ y = [pos |-> i, ip |-> users[n][i].ip, port |-> users[n][i].port]
  BY DEF Entries
<1>2. y.ip = users[n][i].ip /\ y.port = users[n][i].port
  BY <1>1
<1> QED BY <1>1, <1>2, FriendsUp

\* All of those.
LEMMA EntriesListAll ==
  ASSUME StrangersInv, \A n, m \in Node : IdOf[n] = IdOf[m] => n = m,
         NEW n \in Node, NEW m \in Node, users[n][IdOf[m]] # NoRep
  PROVE  \E y \in Entries(n) : << y.ip, y.port >> = Addr(m)
<1>1. PICK i \in Id : i = IdOf[m]
  BY DEF Id
<1>2. << users[n][i].ip, users[n][i].port >> = Addr(m)
  BY <1>1, FriendsUp DEF Up
<1>3. PICK y : y = [pos |-> i, ip |-> users[n][i].ip, port |-> users[n][i].port]
  OBVIOUS
<1>4. y \in Entries(n)
  BY <1>1, <1>3 DEF Entries
<1> QED BY <1>2, <1>3, <1>4

\* `find' finds the address of whoever is registered.
LEMMA FriendsKnown ==
  ASSUME StrangersInv, \A n, m \in Node : IdOf[n] = IdOf[m] => n = m,
         NEW n \in Node, NEW m \in Node, users[n][IdOf[m]] # NoRep,
         NEW y, << y.ip, y.port >> = Addr(m)
  PROVE  Knows(n, y)
<1>1. IdOf[m] \in Id
  BY DEF Id
<1>2. << users[n][IdOf[m]].ip, users[n][IdOf[m]].port >> = Addr(m)
  BY <1>1, FriendsUp DEF Up
<1> QED BY <1>1, <1>2 DEF Knows

\* Only addresses that are listed and not known are dialled.
LEMMA DialledUnknown ==
  ASSUME NEW n \in Node, NEW peers \in SUBSET Entry, NEW y \in Dialled(n, peers)
  PROVE  y \in peers /\ ~ Knows(n, y)
<1>1. y \in peers /\ (y.pos <= y.pos => ~ Knows(n, y))
  BY DEF Dialled
<1>2. y.pos \in Nat
  BY <1>1, MeshAssumption DEF Entry, Id
<1> QED BY <1>1, <1>2

\* Whoever knows nobody dials all that is listed, and lists nobody.
LEMMA NobodyKnown ==
  ASSUME NEW n \in Node, KnowsNobody(n)
  PROVE  /\ \A peers : Dialled(n, peers) = peers
         /\ Entries(n) = {}
<1>1. \A y : ~ Knows(n, y)
  BY DEF KnowsNobody, Knows
<1> QED BY <1>1 DEF KnowsNobody, Dialled, Entries

\* What is known of a packet that can be handled.
LEMMA ArrivedFacts ==
  ASSUME StrangersInv, NEW e \in End, inbox[e] # << >>
  PROVE  /\ Owner(e) \in Up /\ Owner(Far(e)) \in Up /\ Owner(e) # Owner(Far(e))
         /\ Owner(e) \in Node /\ Owner(Far(e)) \in Node
         /\ Head(inbox[e]).id = IdOf[Owner(Far(e))]
         /\ Head(inbox[e]).peers \in SUBSET Entry
         /\ \A y \in Head(inbox[e]).peers : << y.ip, y.port >> # Addr(Owner(e))
         /\ 1 \in DOMAIN inbox[e] /\ Head(inbox[e]) = inbox[e][1]
<1>1. TypeOK /\ HonestChannels
  BY DEF StrangersInv, MeshInv, Truthful
<1>2. inbox[e] \in Seq(HandShake)
  BY <1>1 DEF TypeOK
<1>3. 1 \in DOMAIN inbox[e] /\ Head(inbox[e]) = inbox[e][1]
  BY <1>2, TailFacts
<1>4. Head(inbox[e]) \in HandShake /\ Head(inbox[e]).id = IdOf[Owner(Far(e))]
  BY <1>1, HeadFacts
<1>5. \E island : Fit(e, inbox[e][1].peers, island, Up)
  BY <1>3 DEF StrangersInv, PacketsFit
<1>6. Head(inbox[e]).peers \in SUBSET Entry
  BY <1>4 DEF HandShake
<1> QED BY <1>3, <1>4, <1>5, <1>6, EndFacts DEF Fit

\* What holds of all packets goes on to hold, when it holds of the new ones.
LEMMA PacketsStay ==
  ASSUME TypeOK, NEW Good, \A e \in End : \A k \in DOMAIN inbox[e] : << e, inbox[e][k] >> \in Good,
         \A e \in End :
           \/ inbox'[e] = inbox[e]
           \/ inbox[e] # << >> /\ inbox'[e] = Tail(inbox[e])
           \/ \E p \in HandShake : inbox'[e] = Append(inbox[e], p) /\ << e, p >> \in Good
  PROVE  \A e \in End : \A k \in DOMAIN inbox'[e] : << e, inbox'[e][k] >> \in Good
<1> SUFFICES ASSUME NEW e \in End, NEW k \in DOMAIN inbox'[e]
             PROVE  << e, inbox'[e][k] >> \in Good
  OBVIOUS
<1>1. inbox[e] \in Seq(HandShake)
  BY DEF TypeOK
<1>2. CASE inbox'[e] = inbox[e]
  BY <1>2
<1>3. CASE inbox[e] # << >> /\ inbox'[e] = Tail(inbox[e])
  <2>1. k + 1 \in DOMAIN inbox[e] /\ inbox'[e][k] = inbox[e][k + 1]
    BY <1>1, <1>3, TailFacts
  <2> QED BY <2>1
<1>4. ASSUME NEW p \in HandShake, inbox'[e] = Append(inbox[e], p), << e, p >> \in Good
      PROVE  << e, inbox'[e][k] >> \in Good
  <2>1. /\ DOMAIN inbox'[e] = 1 .. Len(inbox[e]) + 1
        /\ DOMAIN inbox[e] = 1 .. Len(inbox[e])
        /\ \A j \in DOMAIN inbox[e] : inbox'[e][j] = inbox[e][j]
        /\ inbox'[e][Len(inbox[e]) + 1] = p
    BY <1>1, <1>4, AppendFacts
  <2>2. Len(inbox[e]) \in Nat
    BY <1>1
  <2>3. k \in DOMAIN inbox[e] \/ k = Len(inbox[e]) + 1
    BY <2>1, <2>2
  <2> QED BY <1>4, <2>1, <2>3
<1> QED BY <1>2, <1>3, <1>4

LEMMA OnlyFacts ==
  ASSUME NEW e \in End, NEW p, Only(e, p)
  PROVE  /\ inbox[e] # << >> /\ Head(inbox[e]) = p /\ Tail(inbox[e]) = << >>
         /\ \A d \in End : inbox[d] # << >> => d = e
<1>1. Head(<< p >>) = p /\ Tail(<< p >>) = << >> /\ << p >> # << >>
  OBVIOUS
<1> QED BY <1>1 DEF Only

\* When nobody is joining and nothing is on the way, the last one has been met.
LEMMA QuietRests ==
  ASSUME StrangersInv, TurnInv, \A n, m \in Node : IdOf[n] = IdOf[m] => n = m, Quiet
  PROVE  Silent /\ Met(Up) /\ \A n \in Up : phase[n] = "loop"
<1>1. Silent
  <2> SUFFICES ASSUME NEW e \in End, inbox[e] # << >> PROVE FALSE
    BY DEF Silent
  <2>1. Owner(e) \in Up
    BY ArrivedFacts
  <2> QED BY <2>1 DEF Quiet, Up
<1>2. CASE Up = {}
  BY <1>1, <1>2 DEF Met
<1>3. ASSUME NEW x \in Up, Joining(x, Up \ {x}) PROVE Met(Up) /\ \A n \in Up : phase[n] = "loop"
  <2>1. PICK old : old = Up \ {x}
    OBVIOUS
  <2>2. x \in Node /\ old \subseteq Node /\ (\A n \in old : phase[n] = "loop") /\ Met(old)
    BY <1>3, <2>1 DEF Joining, Up
  <2>3. ~ Coming(x, old)
    BY <2>2 DEF Coming, Quiet
  <2>4. ~ Calling(x, old)
    <3> SUFFICES ASSUME NEW t \in old, Only(AcceptEnd(x, t, NoNode), Greeting(x, {})) PROVE FALSE
      BY DEF Calling
    <3>1. AcceptEnd(x, t, NoNode) \in End
      BY <2>2, AcceptEndFacts
    <3> QED BY <1>1, <3>1, OnlyFacts DEF Silent
  <2>5. ~ Answered(x, old)
    <3> SUFFICES ASSUME NEW t \in old, NEW list,
                        Only(Far(AcceptEnd(x, t, NoNode)), Greeting(t, list))
                 PROVE  FALSE
      BY DEF Answered
    <3>1. Far(AcceptEnd(x, t, NoNode)) \in End
      BY <2>2, AcceptEndFacts, EndFacts
    <3> QED BY <1>1, <3>1, OnlyFacts DEF Silent
  <2>6. Meeting(x, old)
    BY <1>3, <2>1, <2>3, <2>4, <2>5 DEF Joining
  <2>7. ASSUME NEW u \in old PROVE users[u][IdOf[x]] # NoRep /\ users[x][IdOf[u]] # NoRep
    <3>1. users[u][IdOf[x]] # NoRep
      BY <1>1, <2>6, <2>7 DEF Meeting, Silent
    <3>2. u \in Node /\ IdOf[x] \in Id
      BY <2>2 DEF Id
    <3>3. PICK far : far = Far(users[u][IdOf[x]].fd)
      OBVIOUS
    <3>4. far \in End
      <4>1. users[u][IdOf[x]] \in Rep
        BY <3>1, <3>2 DEF StrangersInv, MeshInv, Truthful, TypeOK
      <4> QED BY <3>3, <4>1, EndFacts DEF Rep
    <3>5. Owner(far) = x
      <4>1. IdOf[Owner(far)] = IdOf[x]
        BY <3>1, <3>2, <3>3 DEF StrangersInv, MeshInv, Truthful, RepReachesUser
      <4> QED BY <2>2, <3>4, <4>1, EndFacts
    <3>6. \/ users[Owner(far)][IdOf[u]] # NoRep
          \/ \E k \in DOMAIN inbox[far] : inbox[far][k].id = IdOf[u]
      BY <3>1, <3>2, <3>3 DEF StrangersInv, MeshInv, Acquaintance
    <3> QED BY <1>1, <3>1, <3>4, <3>5, <3>6 DEF Silent
  <2>8. Met(Up)
    BY <2>1, <2>2, <2>7 DEF Met
  <2> QED BY <2>1, <2>2, <2>6, <2>8 DEF Meeting
<1> QED BY <1>1, <1>2, <1>3 DEF TurnInv

\* The first is alone; whoever comes later is not known to anybody.
LEMMA StartTurn ==
  ASSUME StrangersInv, TurnInv, \A n, m \in Node : IdOf[n] = IdOf[m] => n = m,
         \A n, m \in Node : NoNode \in NodeArg[n] /\ NoNode \in NodeArg[m] => n = m,
         Launch = "turn", NEW n \in Node, NEW t \in NodeArg[n], Start(n, t)
  PROVE  TurnInv'
<1>1. /\ phase[n] = "off" /\ (t # NoNode => Listening(t)) /\ Quiet
      /\ phase' = [phase EXCEPT ![n] = IF t = NoNode THEN "loop" ELSE "copy"]
      /\ target' = [target EXCEPT ![n] = t]
      /\ copied' = copied /\ users' = users /\ inbox' = inbox
  BY DEF Start
<1>2. Silent /\ Met(Up) /\ \A m \in Up : phase[m] = "loop"
  BY <1>1, QuietRests
<1>3. TypeOK
  BY DEF StrangersInv, MeshInv, Truthful
<1>4. /\ \A m \in Node : phase'[m] = IF m = n THEN IF t = NoNode THEN "loop" ELSE "copy"
                                     ELSE phase[m]
      /\ target'[n] = t
  BY <1>1, <1>3 DEF TypeOK
<1>5. n \notin Up /\ Up' = Up \cup {n} /\ Up' \ {n} = Up
  BY <1>1, <1>4 DEF Up, Listening
<1>6. t # NoNode => t \in Node /\ t \in Up
  BY <1>1, MeshAssumption DEF Up
<1>7. PICK old : old = Up /\ old \subseteq Node
  BY DEF Up
<1>8. Silent' /\ Met(old)' /\ \A m \in old : phase'[m] = "loop"
  BY <1>1, <1>2, <1>4, <1>5, <1>7 DEF Silent, Met
<1>9. KnowsNobody(n)' /\ Unknown(n)'
  <2>1. KnowsNobody(n)
    BY <1>5, FriendsUp DEF KnowsNobody
  <2>2. ASSUME NEW m \in Node, users[m][IdOf[n]] # NoRep PROVE FALSE
    <3>1. IdOf[n] \in Id
      BY DEF Id
    <3>2. PICK k \in Up : IdOf[k] = IdOf[n]
      BY <2>2, <3>1, FriendsUp
    <3> QED BY <1>5, <3>2 DEF Up
  <2> QED BY <1>1, <2>1, <2>2 DEF KnowsNobody, Unknown
<1>10. CASE t = NoNode
  <2>1. Up = {}
    <3> SUFFICES ASSUME Up # {} PROVE FALSE
      OBVIOUS
    <3>1. PICK m \in Up : NoNode \in NodeArg[m]
      BY DEF TurnInv
    <3> QED BY <1>5, <1>10, <3>1 DEF Up
  <2>2. Meeting(n, old)'
    BY <1>4, <1>7, <1>8, <1>10, <2>1 DEF Meeting, Silent
  <2>3. Joining(n, old)'
    BY <1>8, <2>2 DEF Joining
  <2>4. n \in Up' /\ old = Up' \ {n} /\ NoNode \in NodeArg[n]
    BY <1>5, <1>7, <1>10
  <2>5. \E x \in Up' : Joining(x, Up \ {x})'
    BY <2>3, <2>4
  <2> QED BY <2>4, <2>5 DEF TurnInv
<1>11. CASE t # NoNode
  <2>1. Coming(n, old)'
    BY <1>4, <1>6, <1>7, <1>8, <1>9, <1>11 DEF Coming
  <2>2. Joining(n, old)'
    BY <1>8, <2>1 DEF Joining
  <2>3. \E m \in Up' : NoNode \in NodeArg[m]
    BY <1>5, <1>6, <1>11 DEF TurnInv
  <2>4. n \in Up' /\ old = Up' \ {n}
    BY <1>5, <1>7
  <2>5. \E x \in Up' : Joining(x, Up \ {x})'
    BY <2>2, <2>4
  <2> QED BY <2>3, <2>5 DEF TurnInv
<1> QED BY <1>10, <1>11

\* Only the one that joins has not reached the loop.
LEMMA JoinerCopies ==
  ASSUME TurnInv, NEW n \in Node, phase[n] \in {"copy", "dial"}
  PROVE  n \in Up /\ Joining(n, Up \ {n}) /\ Coming(n, Up \ {n})
<1>1. n \in Up
  BY DEF Up, Listening
<1>2. PICK x \in Up : Joining(x, Up \ {x})
  BY <1>1 DEF TurnInv
<1>3. n = x
  BY <1>1, <1>2 DEF Joining
<1> QED BY <1>1, <1>2, <1>3 DEF Joining, Calling, Answered, Meeting

\* It has nothing to copy.
LEMMA CopyTurn ==
  ASSUME StrangersInv, TurnInv, NEW n \in Node, CopyUsers(n)
  PROVE  TurnInv'
<1>1. /\ phase[n] = "copy" /\ phase' = [phase EXCEPT ![n] = "dial"]
      /\ copied' = [copied EXCEPT ![n] = Entries(n)]
      /\ target' = target /\ users' = users /\ inbox' = inbox
  BY DEF CopyUsers
<1>2. n \in Up /\ Joining(n, Up \ {n}) /\ Coming(n, Up \ {n})
  BY <1>1, JoinerCopies
<1>3. TypeOK
  BY DEF StrangersInv, MeshInv, Truthful
<1>4. /\ \A m \in Node : phase'[m] = IF m = n THEN "dial" ELSE phase[m]
      /\ copied'[n] = {}
  BY <1>1, <1>2, <1>3, NobodyKnown DEF TypeOK, Coming
<1>5. Up' = Up
  BY <1>1, <1>4 DEF Up, Listening
<1>6. PICK old : old = Up \ {n} /\ old \subseteq Node
  BY DEF Up
<1>7. Coming(n, old)'
  BY <1>1, <1>2, <1>4, <1>6 DEF Coming, Silent, KnowsNobody, Unknown
<1>8. Joining(n, old)'
  BY <1>1, <1>2, <1>4, <1>6, <1>7 DEF Joining, Met
<1> QED BY <1>2, <1>5, <1>6, <1>8 DEF TurnInv

\* It dials the process --node names, and nobody else.
LEMMA DialTurn ==
  ASSUME StrangersInv, TurnInv, NEW n \in Node, DialTarget(n)
  PROVE  TurnInv'
<1>1. /\ phase[n] = "dial" /\ phase' = [phase EXCEPT ![n] = "loop"]
      /\ copied' = [copied EXCEPT ![n] = {}]
      /\ inbox' = [e \in End |-> IF e \in CallTo(n)
                                 THEN Append(inbox[e], Greeting(n, copied[n])) ELSE inbox[e]]
      /\ target' = target /\ users' = users
  BY DEF DialTarget
<1>2. n \in Up /\ Joining(n, Up \ {n}) /\ Coming(n, Up \ {n})
  BY <1>1, JoinerCopies
<1>3. TypeOK /\ OneAddress
  BY DEF StrangersInv, MeshInv, Truthful
<1>4. \A m \in Node : phase'[m] = IF m = n THEN "loop" ELSE phase[m]
  BY <1>1, <1>3 DEF TypeOK
<1>5. Up' = Up
  BY <1>1, <1>4 DEF Up, Listening
<1>6. PICK old : old = Up \ {n} /\ old \subseteq Node
  BY DEF Up
<1>7. PICK t : t = target[n]
  OBVIOUS
<1>8. t \in old /\ t \in Up /\ t \in Node /\ copied[n] = {} /\ Silent
  BY <1>1, <1>2, <1>6, <1>7 DEF Coming
<1>9. CallTo(n) = {AcceptEnd(n, t, NoNode)}
  <2>1. \A k \in Node : Listening(k) /\ Addr(k) = Addr(t) <=> k = t
    BY <1>3, <1>8 DEF OneAddress, Up
  <2> QED BY <1>7, <1>8, <2>1 DEF CallTo
<1>10. Only(AcceptEnd(n, t, NoNode), Greeting(n, {}))'
  <2>1. AcceptEnd(n, t, NoNode) \in End
    BY <1>8, AcceptEndFacts
  <2>2. \A p : Append(<< >>, p) = << p >>
    OBVIOUS
  <2> QED BY <1>1, <1>8, <1>9, <2>1, <2>2 DEF Only, Silent
<1>11. Calling(n, old)'
  BY <1>1, <1>2, <1>4, <1>8, <1>10 DEF Calling, Coming, KnowsNobody, Unknown
<1>12. Joining(n, old)'
  BY <1>1, <1>2, <1>4, <1>6, <1>11 DEF Joining, Met
<1> QED BY <1>2, <1>5, <1>6, <1>12 DEF TurnInv

\* A packet is handled while one joins who has dialled.
LEMMA JoinerDialled ==
  ASSUME TurnInv, NEW e \in End, inbox[e] # << >>
  PROVE  \E x \in Up : /\ Joining(x, Up \ {x})
                       /\ \/ Calling(x, Up \ {x})
                          \/ Answered(x, Up \ {x})
                          \/ Meeting(x, Up \ {x})
<1>1. ~ Silent
  BY DEF Silent
<1>2. PICK x \in Up : Joining(x, Up \ {x})
  BY <1>1 DEF TurnInv
<1> QED BY <1>1, <1>2 DEF Joining, Coming

\* Only when all have been dialled there are packets that are ignored.
LEMMA IgnoreTurn ==
  ASSUME StrangersInv, TurnInv, NEW e \in End, IgnoreHandShake(e)
  PROVE  TurnInv'
<1>1. /\ inbox[e] # << >> /\ users[Owner(e)][Head(inbox[e]).id] # NoRep
      /\ inbox' = [inbox EXCEPT ![e] = Tail(@)]
      /\ phase' = phase /\ copied' = copied /\ target' = target
      /\ users' = users
  BY DEF IgnoreHandShake
<1>2. TypeOK
  BY DEF StrangersInv, MeshInv, Truthful
<1>3. PICK x \in Up : /\ Joining(x, Up \ {x})
                      /\ \/ Calling(x, Up \ {x})
                         \/ Answered(x, Up \ {x})
                         \/ Meeting(x, Up \ {x})
  BY <1>1, JoinerDialled
<1>4. PICK old : old = Up \ {x} /\ old \subseteq Node /\ x \in Node
  BY DEF Up
<1>5. /\ Owner(e) \in Node /\ Head(inbox[e]).id = IdOf[Owner(Far(e))]
      /\ Owner(Far(e)) \in Node /\ IdOf[Owner(Far(e))] \in Id
  BY <1>1, ArrivedFacts DEF Id
<1>6. ~ Calling(x, old)
  <2> SUFFICES ASSUME Unknown(x), NEW t \in old, Only(AcceptEnd(x, t, NoNode), Greeting(x, {}))
               PROVE  FALSE
    BY DEF Calling
  <2>1. AcceptEnd(x, t, NoNode) \in End /\ Owner(Far(AcceptEnd(x, t, NoNode))) = x
    BY <1>4, AcceptEndFacts
  <2>2. e = AcceptEnd(x, t, NoNode)
    BY <1>1, <2>1, OnlyFacts
  <2> QED BY <1>1, <1>5, <2>1, <2>2 DEF Unknown
<1>7. ~ Answered(x, old)
  <2> SUFFICES ASSUME KnowsNobody(x), NEW t \in old, NEW list,
                      Only(Far(AcceptEnd(x, t, NoNode)), Greeting(t, list))
               PROVE  FALSE
    BY DEF Answered
  <2>1. Far(AcceptEnd(x, t, NoNode)) \in End /\ Owner(Far(AcceptEnd(x, t, NoNode))) = x
    BY <1>4, AcceptEndFacts, EndFacts
  <2>2. e = Far(AcceptEnd(x, t, NoNode))
    BY <1>1, <2>1, OnlyFacts
  <2> QED BY <1>1, <1>5, <2>1, <2>2 DEF KnowsNobody
<1>8. Meeting(x, old)
  BY <1>3, <1>4, <1>6, <1>7
<1>9. \A d \in End : inbox'[d] = IF d = e THEN Tail(inbox[e]) ELSE inbox[d]
  BY <1>1, <1>2 DEF TypeOK
<1>10. ASSUME NEW d \in End, NEW k \in DOMAIN inbox'[d]
       PROVE  x \in {Owner(d), Owner(Far(d))} /\ Lists(inbox'[d][k].peers, old)
  <2>1. \E j \in DOMAIN inbox[d] : inbox'[d][k] = inbox[d][j]
    <3>1. inbox[d] \in Seq(HandShake)
      BY <1>2 DEF TypeOK
    <3> QED BY <1>1, <1>9, <3>1, TailFacts
  <2> QED BY <1>8, <2>1 DEF Meeting
<1>11. ASSUME NEW u \in old
       PROVE  \/ users[u][IdOf[x]] # NoRep
              \/ \E d \in End : Owner(d) = u /\ Owner(Far(d)) = x /\ inbox'[d] # << >>
  <2>1. CASE users[u][IdOf[x]] # NoRep
    BY <2>1
  <2>2. ASSUME NEW d \in End, Owner(d) = u, Owner(Far(d)) = x, inbox[d] # << >>
        PROVE  \/ users[u][IdOf[x]] # NoRep
               \/ inbox'[d] # << >>
    BY <1>1, <1>5, <1>9, <2>2
  <2> QED BY <1>8, <2>1, <2>2 DEF Meeting
<1>12. Meeting(x, old)'
  BY <1>1, <1>8, <1>10, <1>11 DEF Meeting, Lists
<1>13. Up' = Up
  BY <1>1 DEF Up, Listening
<1>14. Joining(x, old)'
  BY <1>1, <1>3, <1>4, <1>12 DEF Joining, Met
<1> QED BY <1>4, <1>13, <1>14 DEF TurnInv

\* Registering a user: who is registered, and what becomes of the queues.
LEMMA RegisterFacts ==
  ASSUME Truthful, NEW e \in End, RegisterUser(e)
  PROVE  /\ inbox[e] # << >> /\ users[Owner(e)][IdOf[Owner(Far(e))]] = NoRep
         /\ phase' = phase /\ copied' = copied /\ target' = target /\ Up' = Up
         /\ \A n \in Node, i \in Id : users[n][i] # NoRep => users'[n][i] # NoRep
         /\ users'[Owner(e)][IdOf[Owner(Far(e))]] # NoRep
         /\ \A n \in Node, i \in Id : n # Owner(e) => users'[n][i] = users[n][i]
         /\ \A d \in End : inbox'[d] = IF d = e THEN Tail(inbox[d])
                                       ELSE IF d \in Receivers(e)
                                       THEN Append(inbox[d], Greeting(Owner(e), Entries(Owner(e))))
                                       ELSE inbox[d]
<1>1. TypeOK /\ HonestChannels
  BY DEF Truthful
<1>2. inbox[e] # << >> /\ users[Owner(e)][Head(inbox[e]).id] = NoRep
  BY DEF RegisterUser
<1>3. Head(inbox[e]).id = IdOf[Owner(Far(e))]
  BY <1>1, <1>2, HeadFacts
<1>4. users'[Owner(e)][Head(inbox[e]).id] # NoRep
  BY <1>1, RegisterUserFills
<1>5. \A n \in Node, i \in Id :
        users'[n][i] = IF n = Owner(e) /\ i = Head(inbox[e]).id THEN NewRep(e) ELSE users[n][i]
  BY <1>1, RegisterUserWrites
<1>6. phase' = phase /\ copied' = copied /\ target' = target /\ Up' = Up
  BY DEF RegisterUser, Up, Listening
<1>7. \A n \in Node, i \in Id : users[n][i] # NoRep => users'[n][i] # NoRep
  BY <1>4, <1>5
<1>8. \A n \in Node, i \in Id : n # Owner(e) => users'[n][i] = users[n][i]
  BY <1>5
<1>9. \A d \in End : inbox'[d] = IF d = e THEN Tail(inbox[d])
                                 ELSE IF d \in Receivers(e)
                                 THEN Append(inbox[d], Greeting(Owner(e), Entries(Owner(e))))
                                 ELSE inbox[d]
  BY DEF RegisterUser, Answer
<1> QED BY <1>2, <1>3, <1>4, <1>6, <1>7, <1>8, <1>9

\* A packet that lists nobody the owner of e does not know is answered, and that is all.
LEMMA OnlyAnswers ==
  ASSUME NEW e \in End, \A y \in Dialled(Owner(e), Head(inbox[e]).peers) : FALSE
  PROVE  Receivers(e) = {Far(e)}
BY DEF Receivers, Accepting

\* Whom x dialled answers with the addresses of all others.
LEMMA CallTurn ==
  ASSUME StrangersInv, \A n, m \in Node : IdOf[n] = IdOf[m] => n = m,
         NEW x \in Up, NEW old, old = Up \ {x}, Met(old), Calling(x, old),
         NEW e \in End, RegisterUser(e)
  PROVE  Answered(x, old)'
<1>1. PICK t \in old : Only(AcceptEnd(x, t, NoNode), Greeting(x, {}))
  BY DEF Calling
<1>2. x \in Node /\ t \in Node /\ old \subseteq Node /\ t # x /\ old \subseteq Up
  BY DEF Up
<1>3. /\ AcceptEnd(x, t, NoNode) \in End /\ Owner(AcceptEnd(x, t, NoNode)) = t
      /\ Owner(Far(AcceptEnd(x, t, NoNode))) = x
  BY <1>2, AcceptEndFacts
<1>4. /\ inbox[e] # << >>
      /\ phase' = phase
      /\ users'[Owner(e)][IdOf[Owner(Far(e))]] # NoRep
      /\ \A n \in Node, i \in Id : n # Owner(e) => users'[n][i] = users[n][i]
      /\ \A d \in End : inbox'[d] = IF d = e THEN Tail(inbox[d])
                                    ELSE IF d \in Receivers(e)
                                    THEN Append(inbox[d], Greeting(Owner(e), Entries(Owner(e))))
                                    ELSE inbox[d]
  BY RegisterFacts DEF StrangersInv, MeshInv
<1>5. e = AcceptEnd(x, t, NoNode)
  BY <1>1, <1>3, <1>4, OnlyFacts
<1>6. Owner(e) = t /\ Owner(Far(e)) = x /\ Far(e) \in End /\ Far(e) # e
  BY <1>3, <1>5, EndFacts
<1>7. Head(inbox[e]) = Greeting(x, {}) /\ Tail(inbox[e]) = << >>
  BY <1>1, <1>5, OnlyFacts
<1>8. Receivers(e) = {Far(e)}
  <2>1. Head(inbox[e]).peers = {}
    BY <1>7 DEF Greeting
  <2> QED BY <2>1, OnlyAnswers DEF Dialled
<1>9. PICK list : list = Entries(t)
  OBVIOUS
<1>10. list \in SUBSET Entry
  BY <1>2, <1>9, EntriesType DEF StrangersInv, MeshInv, Truthful
<1>11. Only(Far(e), Greeting(t, list))'
  <2>1. inbox[Far(e)] = << >> /\ \A d \in End \ {e} : inbox[d] = << >>
    BY <1>1, <1>5, <1>6 DEF Only
  <2>2. \A p : Append(<< >>, p) = << p >>
    OBVIOUS
  <2>3. inbox'[Far(e)] = << Greeting(t, list) >>
    <3>1. PICK p : p = Greeting(t, list)
      OBVIOUS
    <3>2. p = Greeting(Owner(e), Entries(Owner(e))) /\ Far(e) \in Receivers(e)
      BY <1>6, <1>8, <1>9, <3>1
    <3>3. inbox'[Far(e)] = Append(inbox[Far(e)], p)
      BY <1>4, <1>6, <3>2
    <3> QED BY <2>1, <2>2, <3>1, <3>3
  <2>4. \A d \in End \ {Far(e)} : inbox'[d] = << >>
    BY <1>4, <1>7, <1>8, <2>1
  <2> QED BY <2>3, <2>4 DEF Only
<1>12. Lists(list, old)
  <2>1. users[t][IdOf[x]] = NoRep
    BY <1>2 DEF Calling, Unknown
  <2>2. \A m \in Up : m # t /\ users[t][IdOf[m]] # NoRep => m \in old
    BY <2>1
  <2> QED BY <1>2, <1>9, <2>2, EntriesList
<1>13. \A m \in old \ {t} : \E y \in list : << y.ip, y.port >> = Addr(m)
  BY <1>2, <1>9, EntriesListAll DEF Met
<1>14. KnowsNobody(x)'
  BY <1>2, <1>4, <1>6 DEF Calling, KnowsNobody
<1>15. users'[t][IdOf[x]] # NoRep
  BY <1>4, <1>6
<1>16. phase'[x] = "loop"
  BY <1>4 DEF Calling
<1> QED BY <1>5, <1>10, <1>11, <1>12, <1>13, <1>14, <1>15, <1>16 DEF Answered, Lists

\* The one that joins dials all those addresses.
LEMMA AnswerTurn ==
  ASSUME StrangersInv, NEW x \in Up, NEW old, old = Up \ {x}, Answered(x, old),
         NEW e \in End, RegisterUser(e)
  PROVE  Meeting(x, old)'
<1>1. PICK t \in old, list \in SUBSET Entry :
        /\ users[t][IdOf[x]] # NoRep
        /\ Only(Far(AcceptEnd(x, t, NoNode)), Greeting(t, list))
        /\ Lists(list, old)
        /\ \A m \in old \ {t} : \E y \in list : << y.ip, y.port >> = Addr(m)
  BY DEF Answered
<1>2. x \in Node /\ t \in Node /\ old \subseteq Node /\ IdOf[x] \in Id
  BY DEF Up, Id
<1>3. PICK a : a = AcceptEnd(x, t, NoNode)
  OBVIOUS
<1>4. a \in End /\ Owner(a) = t /\ Owner(Far(a)) = x /\ Far(a) \in End /\ Far(Far(a)) = a
  BY <1>2, <1>3, AcceptEndFacts, EndFacts
<1>5. /\ inbox[e] # << >>
      /\ phase' = phase
      /\ \A n \in Node, i \in Id : users[n][i] # NoRep => users'[n][i] # NoRep
      /\ \A d \in End : inbox'[d] = IF d = e THEN Tail(inbox[d])
                                    ELSE IF d \in Receivers(e)
                                    THEN Append(inbox[d], Greeting(Owner(e), Entries(Owner(e))))
                                    ELSE inbox[d]
  BY RegisterFacts DEF StrangersInv, MeshInv
<1>6. e = Far(a)
  BY <1>1, <1>3, <1>4, <1>5, OnlyFacts
<1>7. Owner(e) = x /\ Owner(Far(e)) = t /\ Far(e) = a
  BY <1>4, <1>6
<1>8. Head(inbox[e]) = Greeting(t, list) /\ Tail(inbox[e]) = << >>
  BY <1>1, <1>3, <1>4, <1>6, OnlyFacts
<1>9. /\ Dialled(x, Head(inbox[e]).peers) = list
      /\ Entries(x) = {}
  <2>1. KnowsNobody(x)
    BY DEF Answered
  <2>2. Head(inbox[e]).peers = list
    BY <1>8 DEF Greeting
  <2> QED BY <1>2, <2>1, <2>2, NobodyKnown
<1>10. ASSUME NEW d \in Receivers(e) PROVE d \in End /\ Owner(Far(d)) = x
  <2>1. CASE d = Far(e)
    BY <1>4, <1>7, <2>1
  <2>2. CASE d # Far(e)
    <3>1. PICK m \in Accepting(x, Head(inbox[e]).peers) : d = AcceptEnd(x, m, t)
      BY <1>7, <2>2 DEF Receivers
    <3> QED BY <1>2, <3>1, AcceptEndFacts DEF Accepting
  <2> QED BY <2>1, <2>2
<1>11. PICK p : p = Greeting(x, {})
  OBVIOUS
<1>12. \A d \in End : inbox'[d] = IF d # e /\ d \in Receivers(e) THEN << p >> ELSE << >>
  <2>1. \A d \in End \ {e} : inbox[d] = << >>
    BY <1>1, <1>3, <1>6 DEF Only
  <2>2. \A q : Append(<< >>, q) = << q >>
    OBVIOUS
  <2> QED BY <1>5, <1>7, <1>8, <1>9, <1>11, <2>1, <2>2
<1>13. ASSUME NEW d \in End, NEW k \in DOMAIN inbox'[d]
       PROVE  x \in {Owner(d), Owner(Far(d))} /\ Lists(inbox'[d][k].peers, old)
  <2>1. d \in Receivers(e) /\ inbox'[d] = << p >>
    BY <1>12, <1>13
  <2>2. inbox'[d][k] = p
    BY <1>13, <2>1
  <2> QED BY <1>10, <1>11, <2>1, <2>2 DEF Lists, Greeting
<1>14. ASSUME NEW u \in old
       PROVE  \/ users'[u][IdOf[x]] # NoRep
              \/ \E d \in End : Owner(d) = u /\ Owner(Far(d)) = x /\ inbox'[d] # << >>
  <2>1. CASE u = t
    BY <1>1, <1>2, <1>5, <2>1
  <2>2. CASE u # t
    <3>1. PICK d : d = AcceptEnd(x, u, t)
      OBVIOUS
    <3>2. d \in End /\ Owner(d) = u /\ Owner(Far(d)) = x
      BY <1>2, <3>1, AcceptEndFacts
    <3>3. u \in Accepting(x, Head(inbox[e]).peers)
      BY <1>1, <1>9, <2>2 DEF Accepting, Up
    <3>4. d \in Receivers(e)
      BY <1>7, <3>1, <3>3 DEF Receivers
    <3>5. d # e
      BY <1>7, <3>2
    <3>6. inbox'[d] # << >>
      BY <1>12, <3>2, <3>4, <3>5
    <3> QED BY <3>2, <3>6
  <2> QED BY <2>1, <2>2
<1>15. phase'[x] = "loop"
  BY <1>5 DEF Answered
<1> QED BY <1>13, <1>14, <1>15 DEF Meeting, Lists

\* While all are being met, the packets of others list nobody the one that joins does
\* not dial already, and the others dial nobody.
LEMMA MeetingReceivers ==
  ASSUME StrangersInv, \A n, m \in Node : IdOf[n] = IdOf[m] => n = m,
         NEW x \in Up, NEW old, old = Up \ {x}, Met(old), Meeting(x, old),
         NEW e \in End, RegisterUser(e), NEW d \in Receivers(e)
  PROVE  /\ d \in End
         /\ x \in {Owner(d), Owner(Far(d))}
         /\ Lists(Entries(Owner(e)), old)
<1>1. inbox[e] # << >> /\ users[Owner(e)][IdOf[Owner(Far(e))]] = NoRep
  BY RegisterFacts DEF StrangersInv, MeshInv
<1>2. /\ Owner(e) \in Up /\ Owner(Far(e)) \in Up /\ Owner(e) # Owner(Far(e))
      /\ Owner(e) \in Node /\ Owner(Far(e)) \in Node
      /\ Head(inbox[e]).peers \in SUBSET Entry
      /\ \A y \in Head(inbox[e]).peers : << y.ip, y.port >> # Addr(Owner(e))
      /\ 1 \in DOMAIN inbox[e] /\ Head(inbox[e]) = inbox[e][1]
  BY <1>1, ArrivedFacts
<1>3. x \in {Owner(e), Owner(Far(e))} /\ Lists(Head(inbox[e]).peers, old)
  BY <1>2 DEF Meeting
<1>4. Far(e) \in End /\ Far(Far(e)) = e /\ old \subseteq Node
  BY EndFacts DEF Up
<1>5. CASE Owner(e) = x
  <2>1. d \in End /\ Owner(Far(d)) = x
    <3>1. CASE d = Far(e)
      BY <1>4, <1>5, <3>1
    <3>2. CASE d # Far(e)
      <4>1. PICK m \in Accepting(x, Head(inbox[e]).peers) : d = AcceptEnd(x, m, Owner(Far(e)))
        BY <1>5, <3>2 DEF Receivers
      <4> QED BY <1>2, <1>5, <4>1, AcceptEndFacts DEF Accepting
    <3> QED BY <3>1, <3>2
  <2>2. Lists(Entries(x), old)
    BY <1>2, <1>5, EntriesList
  <2> QED BY <1>5, <2>1, <2>2
<1>6. CASE Owner(e) # x
  <2>1. Owner(Far(e)) = x /\ Owner(e) \in old
    BY <1>2, <1>3, <1>6
  <2>2. ASSUME NEW y \in Dialled(Owner(e), Head(inbox[e]).peers) PROVE FALSE
    <3>1. y \in Head(inbox[e]).peers /\ ~ Knows(Owner(e), y)
      BY <1>2, DialledUnknown
    <3>2. PICK m \in old : << y.ip, y.port >> = Addr(m)
      BY <1>3, <3>1 DEF Lists
    <3>3. m # Owner(e)
      BY <1>2, <3>1, <3>2
    <3>4. users[Owner(e)][IdOf[m]] # NoRep
      BY <2>1, <3>3 DEF Met
    <3> QED BY <1>2, <1>4, <3>1, <3>2, <3>4, FriendsKnown
  <2>3. d = Far(e)
    BY <2>2, OnlyAnswers
  <2>4. \A m \in Up : m # Owner(e) /\ users[Owner(e)][IdOf[m]] # NoRep => m \in old
    BY <1>1, <2>1
  <2>5. Lists(Entries(Owner(e)), old)
    BY <1>2, <2>4, EntriesList
  <2> QED BY <1>4, <2>1, <2>3, <2>5
<1> QED BY <1>5, <1>6

\* Whoever handles a packet of the one that joins has then registered it.
LEMMA MeetTurn ==
  ASSUME StrangersInv, \A n, m \in Node : IdOf[n] = IdOf[m] => n = m,
         NEW x \in Up, NEW old, old = Up \ {x}, Met(old), Meeting(x, old),
         NEW e \in End, RegisterUser(e)
  PROVE  Meeting(x, old)'
<1>1. TypeOK
  BY DEF StrangersInv, MeshInv, Truthful
<1>2. PICK p : p = Greeting(Owner(e), Entries(Owner(e)))
  OBVIOUS
<1>3. /\ inbox[e] # << >>
      /\ phase' = phase
      /\ \A n \in Node, i \in Id : users[n][i] # NoRep => users'[n][i] # NoRep
      /\ users'[Owner(e)][IdOf[Owner(Far(e))]] # NoRep
      /\ \A d \in End : inbox'[d] = IF d = e THEN Tail(inbox[d])
                                    ELSE IF d \in Receivers(e) THEN Append(inbox[d], p)
                                    ELSE inbox[d]
  BY <1>2, RegisterFacts DEF StrangersInv, MeshInv
<1>4. x \in Node /\ IdOf[x] \in Id /\ old \subseteq Node
  BY DEF Up, Id
<1>5. p \in HandShake /\ p.peers = Entries(Owner(e))
  <2>1. Owner(e) \in Node
    BY EndFacts
  <2>2. Entries(Owner(e)) \in SUBSET Entry
    BY <1>1, <2>1, EntriesType
  <2> QED BY <1>2, <2>1, <2>2, GreetingFacts DEF Greeting
<1>6. PICK Good : Good = { z \in End \X HandShake :
                             /\ x \in {Owner(z[1]), Owner(Far(z[1]))}
                             /\ Lists(z[2].peers, old) }
  OBVIOUS
<1>7. \A d \in End : \A k \in DOMAIN inbox[d] : << d, inbox[d][k] >> \in Good
  <2> SUFFICES ASSUME NEW d \in End, NEW k \in DOMAIN inbox[d] PROVE << d, inbox[d][k] >> \in Good
    OBVIOUS
  <2>1. inbox[d] \in Seq(HandShake)
    BY <1>1 DEF TypeOK
  <2>2. inbox[d][k] \in HandShake
    BY <2>1
  <2>3. x \in {Owner(d), Owner(Far(d))} /\ Lists(inbox[d][k].peers, old)
    BY DEF Meeting
  <2> QED BY <1>6, <2>2, <2>3
<1>8. \A d \in Receivers(e) : << d, p >> \in Good
  BY <1>5, <1>6, MeetingReceivers
<1>9. \A d \in End : \A k \in DOMAIN inbox'[d] : << d, inbox'[d][k] >> \in Good
  <2>1. \A d \in End :
           \/ inbox'[d] = inbox[d]
           \/ inbox[d] # << >> /\ inbox'[d] = Tail(inbox[d])
           \/ \E q \in HandShake : inbox'[d] = Append(inbox[d], q) /\ << d, q >> \in Good
    BY <1>3, <1>5, <1>8
  <2> QED BY <1>1, <1>7, <2>1, PacketsStay
<1>10. ASSUME NEW d \in End, NEW k \in DOMAIN inbox'[d]
       PROVE  x \in {Owner(d), Owner(Far(d))} /\ Lists(inbox'[d][k].peers, old)
  <2>1. << d, inbox'[d][k] >> \in Good
    BY <1>9
  <2> QED BY <1>6, <2>1
<1>11. ASSUME NEW u \in old
       PROVE  \/ users'[u][IdOf[x]] # NoRep
              \/ \E d \in End : Owner(d) = u /\ Owner(Far(d)) = x /\ inbox'[d] # << >>
  <2>1. CASE users[u][IdOf[x]] # NoRep
    BY <1>3, <1>4, <2>1
  <2>2. ASSUME NEW d \in End, Owner(d) = u, Owner(Far(d)) = x, inbox[d] # << >>
        PROVE  \/ users'[u][IdOf[x]] # NoRep
               \/ inbox'[d] # << >>
    <3>1. Append(inbox[d], p) # << >>
      <4>1. inbox[d] \in Seq(HandShake)
        BY <1>1 DEF TypeOK
      <4>2. DOMAIN Append(inbox[d], p) = 1 .. Len(inbox[d]) + 1
        BY <1>5, <4>1, AppendFacts
      <4>3. Len(inbox[d]) + 1 \in DOMAIN Append(inbox[d], p)
        BY <4>1, <4>2
      <4> QED BY <4>3
    <3> QED BY <1>3, <2>2, <3>1
  <2> QED BY <2>1, <2>2 DEF Meeting
<1>12. phase'[x] = "loop"
  BY <1>3 DEF Meeting
<1> QED BY <1>10, <1>11, <1>12 DEF Meeting, Lists

LEMMA RegisterTurn ==
  ASSUME StrangersInv, TurnInv, \A n, m \in Node : IdOf[n] = IdOf[m] => n = m,
         NEW e \in End, RegisterUser(e)
  PROVE  TurnInv'
<1>1. /\ inbox[e] # << >> /\ phase' = phase /\ Up' = Up
      /\ \A n \in Node, i \in Id : users[n][i] # NoRep => users'[n][i] # NoRep
  BY RegisterFacts DEF StrangersInv, MeshInv
<1>2. PICK x \in Up : /\ Joining(x, Up \ {x})
                      /\ \/ Calling(x, Up \ {x})
                         \/ Answered(x, Up \ {x})
                         \/ Meeting(x, Up \ {x})
  BY <1>1, JoinerDialled
<1>3. PICK old : old = Up \ {x}
  OBVIOUS
<1>4. Met(old) /\ \A n \in old : phase[n] = "loop"
  BY <1>2, <1>3 DEF Joining
<1>5. Answered(x, old)' \/ Meeting(x, old)'
  BY <1>2, <1>3, <1>4, CallTurn, AnswerTurn, MeetTurn
<1>6. Met(old)'
  BY <1>1, <1>3, <1>4 DEF Met, Up, Id
<1>7. Joining(x, old)'
  BY <1>1, <1>4, <1>5, <1>6 DEF Joining
<1> QED BY <1>1, <1>2, <1>3, <1>7 DEF TurnInv

LEMMA NextTurn ==
  ASSUME Launch = "turn", \A n, m \in Node : IdOf[n] = IdOf[m] => n = m,
         \A n, m \in Node : NoNode \in NodeArg[n] /\ NoNode \in NodeArg[m] => n = m
  PROVE  StrangersInv /\ TurnInv /\ [Next]_vars => TurnInv'
<1> SUFFICES ASSUME StrangersInv, TurnInv, [Next]_vars PROVE TurnInv'
  OBVIOUS
<1>1. ASSUME NEW n \in Node, NEW t \in NodeArg[n], Start(n, t) PROVE TurnInv'
  BY <1>1, StartTurn
<1>2. ASSUME NEW n \in Node, CopyUsers(n) PROVE TurnInv'
  BY <1>2, CopyTurn
<1>3. ASSUME NEW n \in Node, DialTarget(n) PROVE TurnInv'
  BY <1>3, DialTurn
<1>4. ASSUME NEW e \in End, IgnoreHandShake(e) PROVE TurnInv'
  BY <1>4, IgnoreTurn
<1>5. ASSUME NEW e \in End, RegisterUser(e) PROVE TurnInv'
  BY <1>5, RegisterTurn
<1>6. CASE UNCHANGED vars
  <2>1. /\ phase' = phase /\ target' = target /\ copied' = copied
        /\ users' = users /\ inbox' = inbox /\ Up' = Up
    BY <1>6 DEF vars, Up, Listening
  <2>2. Silent' = Silent
    BY <2>1 DEF Silent
  <2>3. ASSUME NEW x \in Up, Joining(x, Up \ {x}) PROVE \E z \in Up : Joining(z, Up \ {z})'
    <3>1. PICK old : old = Up \ {x}
      OBVIOUS
    <3>2. /\ \A n \in old : phase'[n] = "loop"
          /\ Met(old)'
      BY <2>1, <2>3, <3>1 DEF Joining, Met
    <3>3. KnowsNobody(x)' = KnowsNobody(x) /\ Unknown(x)' = Unknown(x)
      BY <2>1 DEF KnowsNobody, Unknown
    <3>4. Coming(x, old) => Coming(x, old)'
      BY <2>1, <2>2, <3>3 DEF Coming
    <3>5. Calling(x, old) => Calling(x, old)'
      BY <2>1, <3>3 DEF Calling, Only
    <3>6. Answered(x, old) => Answered(x, old)'
      BY <2>1, <3>3 DEF Answered, Only, Lists
    <3>7. Meeting(x, old) => Meeting(x, old)'
      BY <2>1 DEF Meeting, Lists
    <3> QED BY <2>1, <2>3, <3>1, <3>2, <3>4, <3>5, <3>6, <3>7 DEF Joining
  <2> QED BY <2>1, <2>2, <2>3 DEF TurnInv
<1> QED BY <1>1, <1>2, <1>3, <1>4, <1>5, <1>6 DEF Next

\* RecvHandShake and HandShake make everybody know everybody, however many there are and
\* through whomever they join, when each joins after the one before is known to all: whom
\* it dials answers with the addresses of all others, it dials those, and each of them
\* registers it for its handshake and is registered for the answer.  (When several join
\* at a time, two of five may never meet: see MCLaunch.)
THEOREM MeshCompleteInTurn ==
  ASSUME Launch = "turn", \A n, m \in Node : IdOf[n] = IdOf[m] => n = m,
         \A n, m \in Node : NoNode \in NodeArg[n] /\ NoNode \in NodeArg[m] => n = m
  PROVE  Safe => []MeshComplete
<1>1. Launch # "any"
  OBVIOUS
<1>2. Init => TurnInv
  <2> SUFFICES ASSUME Init PROVE TurnInv
    OBVIOUS
  <2>1. Up = {}
    BY DEF Init, Up, Listening
  <2>2. Silent
    BY DEF Init, Silent
  <2> QED BY <2>1, <2>2 DEF TurnInv
<1>3. Safe => []StrangersInv
  BY <1>1, MeshStrangers
<1>4. StrangersInv /\ TurnInv /\ [Next]_vars => TurnInv'
  BY NextTurn
<1>5. StrangersInv /\ TurnInv => MeshComplete
  <2> SUFFICES ASSUME StrangersInv, TurnInv, Settled, NEW n \in Node, NEW m \in Node, n # m
               PROVE  Linked(n, m)
    BY DEF MeshComplete
  <2>1. Up = Node
    BY DEF Settled, Up, Listening
  <2>2. Met(Node)
    BY <2>1, QuietRests DEF Settled
  <2> QED BY <2>2 DEF Met, Linked
<1> QED BY <1>2, <1>3, <1>4, <1>5, PTL DEF Safe

\* What README.md:63 promises then holds of the directory: whoever leaves, no process is
\* all that keeps two others together.  (It does not hold when processes join through
\* others that are still joining.)
THEOREM MeshNoSinglePointInTurn ==
  ASSUME Launch = "turn", \A n, m \in Node : IdOf[n] = IdOf[m] => n = m,
         \A n, m \in Node : NoNode \in NodeArg[n] /\ NoNode \in NodeArg[m] => n = m
  PROVE  Safe => []NoSinglePointOfFailure
<1>1. Safe => []MeshComplete
  BY MeshCompleteInTurn
<1>2. MeshComplete => NoSinglePointOfFailure
  <2> SUFFICES ASSUME MeshComplete, Settled, NEW x \in Node, NEW S \in SUBSET (Node \ {x}),
                      S # {}, S # Node \ {x}
               PROVE  \E n \in S, m \in Node \ (S \cup {x}) : Linked(n, m)
    BY DEF NoSinglePointOfFailure
  <2>1. PICK n \in S : TRUE
    OBVIOUS
  <2>2. PICK m \in Node \ (S \cup {x}) : TRUE
    OBVIOUS
  <2>3. Linked(n, m)
    BY <2>1, <2>2 DEF MeshComplete
  <2> QED BY <2>1, <2>2, <2>3
<1> QED
  BY <1>1, <1>2, PTL

=============================================================================
