----------------------------- MODULE RejoinProofs -----------------------------
(***************************************************************************)
(* What still holds of Mesh when any processes stop, at any time, and are   *)
(* started again.                                                          *)
(***************************************************************************)
EXTENDS Rejoin, MeshProofs

\* Who has sent a handshake, or was registered, has been started.
Began(n) == Listening(n) \/ n \in stopped

SendersBegan ==
  /\ \A e \in End : inbox[e] # << >> => Began(Owner(Far(e)))
  /\ \A n \in Node, i \in Id : users[n][i] # NoRep => Began(Owner(Far(users[n][i].fd)))

\* The inductive invariant.  MutualWhileUp needs SendersBegan, because a life that is
\* only starting must not be known to anybody yet.
RejoinInv ==
  /\ Truthful
  /\ stopped \in SUBSET Node
  /\ SendersBegan
  /\ MutualWhileUp

-----------------------------------------------------------------------------
LEMMA RejoinInit_Inv == RejoinInit => RejoinInv
  <1> SUFFICES ASSUME RejoinInit PROVE RejoinInv
    OBVIOUS
  <1> USE DEF RejoinInit, Init
  <1>1. TypeOK
    BY MeshAssumption DEF TypeOK
  <1>2. HonestChannels /\ RepReachesUser
    BY DEF HonestChannels, RepReachesUser
  <1>3. SendersBegan
    BY DEF SendersBegan
  <1>4. MutualWhileUp
    BY DEF MutualWhileUp, Listening
  <1> QED
    BY <1>1, <1>2, <1>3, <1>4 DEF RejoinInv, Truthful

\* Only those who run send, and whoever has sent has begun.
LEMMA RunningSend ==
  ASSUME Truthful, SendersBegan,
         \/ \E n \in Node : DialTarget(n)
         \/ \E e \in End : RegisterUser(e) /\ Listening(Owner(e)),
         \A n \in Node : Began(n) => Began(n)'
  PROVE  SendersBegan'
  <1> USE DEF Truthful
  <1>1. ASSUME NEW n \in Node, DialTarget(n) PROVE SendersBegan'
    <2>1. Listening(n)
      BY <1>1 DEF DialTarget, Listening
    <2>2. ASSUME NEW d \in End, inbox'[d] # << >> PROVE Began(Owner(Far(d)))
      <3>1. d \in CallTo(n) => Owner(Far(d)) = n
        BY AcceptEndFacts DEF CallTo
      <3>2. d \notin CallTo(n) => inbox'[d] = inbox[d]
        BY <1>1 DEF DialTarget
      <3> QED
        BY <2>1, <2>2, <3>1, <3>2 DEF SendersBegan, Began
    <2>3. users' = users
      BY <1>1 DEF DialTarget
    <2> QED
      BY <2>2, <2>3, EndFacts DEF SendersBegan, TypeOK, Rep
  <1>2. ASSUME NEW e \in End, RegisterUser(e), Listening(Owner(e)) PROVE SendersBegan'
    <2>1. Owner(e) \in Node /\ Owner(Far(e)) \in Node /\ Owner(Far(Far(e))) = Owner(e)
      BY EndFacts
    <2>2. ASSUME NEW d \in End, inbox'[d] # << >> PROVE Began(Owner(Far(d)))
      <3>1. d \in Receivers(e) => Owner(Far(d)) = Owner(e)
        BY <2>1, AcceptEndFacts DEF Receivers, Accepting
      <3>2. d = e => inbox[d] # << >>
        BY <1>2 DEF RegisterUser
      <3>3. d # e /\ d \notin Receivers(e) => inbox'[d] = inbox[d]
        BY <1>2 DEF RegisterUser
      <3> QED
        BY <1>2, <2>2, <3>1, <3>2, <3>3 DEF SendersBegan, Began
    <2>3. ASSUME NEW n \in Node, NEW i \in Id, users'[n][i] # NoRep
          PROVE  Began(Owner(Far(users'[n][i].fd))) /\ users'[n][i].fd \in End
      <3>1. CASE users'[n][i] = users[n][i]
        BY <2>3, <3>1 DEF SendersBegan, TypeOK, Rep
      <3>2. CASE users'[n][i] = NewRep(e)
        <4>1. users'[n][i].fd = e
          BY <3>2 DEF NewRep
        <4>2. inbox[e] # << >>
          BY <1>2 DEF RegisterUser
        <4> QED
          BY <4>1, <4>2 DEF SendersBegan
      <3> QED
        BY <1>2, <3>1, <3>2, RegisterUserWrites
    <2> QED
      BY <2>2, <2>3, EndFacts DEF SendersBegan
  <1> QED
    BY <1>1, <1>2

\* What has begun is started or has stopped, and stays so.
LEMMA MeshStep_Began ==
  ASSUME Truthful, SendersBegan, stopped' = stopped,
         \/ \E n \in Node : \E t \in NodeArg[n] : Start(n, t)
         \/ \E n \in Node : Main(n)
         \/ \E e \in End : Handle(e)
  PROVE  SendersBegan'
  <1>1. \A n \in Node : Began(n) => Began(n)'
    BY DEF Began, Listening, Start, Main, CopyUsers, DialTarget, Handle, RecvHandShake,
           RegisterUser, IgnoreHandShake, Truthful, TypeOK
  <1>2. ASSUME users' = users, \A e \in End : inbox'[e] # << >> => inbox[e] # << >>
        PROVE  SendersBegan'
    BY <1>1, <1>2, EndFacts DEF SendersBegan, Truthful, TypeOK, Rep
  <1>3. ASSUME NEW n \in Node, NEW t \in NodeArg[n], Start(n, t) PROVE SendersBegan'
    BY <1>2, <1>3 DEF Start
  <1>4. ASSUME NEW n \in Node, CopyUsers(n) PROVE SendersBegan'
    BY <1>2, <1>4 DEF CopyUsers
  <1>5. ASSUME NEW e \in End, IgnoreHandShake(e) PROVE SendersBegan'
    BY <1>2, <1>5 DEF IgnoreHandShake, Truthful, TypeOK
  <1> QED
    BY <1>1, <1>3, <1>4, <1>5, RunningSend DEF Main, Handle, RecvHandShake

\* A step of those who run leaves nobody known one-sidedly.
LEMMA MeshStep_Mutual ==
  ASSUME RejoinInv, [Next]_vars,
         \A m \in Node : Listening(m)' /\ Began(m) => Listening(m)
  PROVE  MutualWhileUp'
  <1> SUFFICES ASSUME NEW n \in Node, NEW m \in Node, Listening(m)', Reaches(n, m)'
               PROVE  LET far == Far(users'[n][IdOf[m]].fd)
                      IN \/ users'[m][IdOf[n]] # NoRep
                         \/ \E k \in DOMAIN inbox'[far] : inbox'[far][k].id = IdOf[n]
    BY DEF MutualWhileUp
  <1> USE DEF RejoinInv, Truthful
  <1> DEFINE rep == users[n][IdOf[m]]
             far == Far(rep.fd)
  <1>1. QueuesMove /\ UsersStay /\ IdOf[m] \in Id /\ IdOf[n] \in Id
    BY NextMoves DEF Id
  <1>2. CASE rep # NoRep
    <2>1. users'[n][IdOf[m]] = rep
      BY <1>1, <1>2 DEF UsersStay
    <2>2. far \in End /\ Owner(far) = m /\ Reaches(n, m)
      BY <1>1, <1>2, <2>1, EndFacts DEF Reaches, TypeOK, Rep
    <2>3. Listening(m)
      BY <1>1, <1>2, <2>2 DEF SendersBegan
    <2>4. \/ users[m][IdOf[n]] # NoRep
          \/ \E k \in DOMAIN inbox[far] : inbox[far][k].id = IdOf[n]
      BY <2>2, <2>3 DEF MutualWhileUp
    <2> HIDE DEF far
    <2>5. \/ users'[Owner(far)][IdOf[n]] # NoRep
          \/ \E k \in DOMAIN inbox'[far] : inbox'[far][k].id = IdOf[n]
      BY <1>1, <2>2, <2>4, AcquaintanceStays
    <2> QED
      BY <2>1, <2>2, <2>5 DEF far
  <1>3. CASE rep = NoRep
    <2>1. users'[n][IdOf[m]] # NoRep
      BY DEF Reaches
    <2>2. PICK e \in End : /\ RegisterUser(e) /\ n = Owner(e)
                           /\ users'[n][IdOf[m]] = NewRep(e)
      BY <1>1, <1>3, <2>1, OnlyRegisterWrites
    <2>3. users'[n][IdOf[m]].fd = e
      BY <2>2 DEF NewRep
    <2> QED
      BY <2>2, <2>3, RegisterUserAnswers
  <1> QED
    BY <1>2, <1>3

\* A process that stops takes with it what it knows and what is on its connections;
\* what others know of others stays.
LEMMA Stop_Inv ==
  ASSUME RejoinInv, NEW x \in Node, NEW lost \in SUBSET SentBy(x), Stop(x, lost)
  PROVE  RejoinInv'
  <1> USE DEF RejoinInv, Truthful
  <1>1. ASSUME NEW e \in End
        PROVE  inbox'[e] = << >> \/ inbox'[e] = inbox[e]
    BY DEF Stop
  <1>2. ASSUME NEW n \in Node, NEW i \in Id
        PROVE  users'[n][i] = IF n = x THEN NoRep ELSE users[n][i]
    BY DEF Stop, TypeOK
  <1>3. TypeOK'
    <2>1. << >> \in Seq(HandShake)
      OBVIOUS
    <2>2. inbox' \in [End -> Seq(HandShake)]
      BY <2>1 DEF Stop, TypeOK
    <2> QED
      BY <2>2 DEF Stop, TypeOK
  <1>4. HonestChannels'
    BY <1>1 DEF HonestChannels
  <1>5. RepReachesUser'
    BY <1>2 DEF RepReachesUser
  <1>6. stopped' \in SUBSET Node /\ \A n \in Node : Began(n) => Began(n)'
    BY DEF Stop, Began, Listening, TypeOK
  <1>7. SendersBegan'
    BY <1>1, <1>2, <1>6, EndFacts DEF SendersBegan, TypeOK, Rep
  <1>8. MutualWhileUp'
    <2> SUFFICES ASSUME NEW n \in Node, NEW m \in Node, Listening(m)', Reaches(n, m)'
                 PROVE  LET far == Far(users'[n][IdOf[m]].fd)
                        IN \/ users'[m][IdOf[n]] # NoRep
                           \/ \E k \in DOMAIN inbox'[far] : inbox'[far][k].id = IdOf[n]
      BY DEF MutualWhileUp
    <2> DEFINE far == Far(users[n][IdOf[m]].fd)
    <2>1. IdOf[m] \in Id /\ IdOf[n] \in Id
      BY DEF Id
    <2>2. m # x /\ Listening(m)
      BY DEF Stop, Listening, TypeOK
    <2>3. n # x /\ users'[n][IdOf[m]] = users[n][IdOf[m]] /\ Reaches(n, m)
      BY <1>2, <2>1 DEF Reaches
    <2>4. far \in End /\ Owner(far) = m /\ Owner(Far(far)) = n
      BY <2>1, <2>3, EndFacts DEF Reaches, TypeOK, Rep, RepReachesUser
    <2>5. inbox'[far] = inbox[far]
      BY <2>2, <2>3, <2>4 DEF Stop, SentBy
    <2>6. users'[m][IdOf[n]] = users[m][IdOf[n]]
      BY <1>2, <2>1, <2>2
    <2>7. \/ users[m][IdOf[n]] # NoRep
          \/ \E k \in DOMAIN inbox[far] : inbox[far][k].id = IdOf[n]
      BY <2>2, <2>3 DEF MutualWhileUp
    <2> HIDE DEF far
    <2> QED
      BY <2>3, <2>5, <2>6, <2>7 DEF far
  <1> QED
    BY <1>3, <1>4, <1>5, <1>6, <1>7, <1>8

LEMMA RejoinNext_Inv == RejoinInv /\ [RejoinNext]_rejoinVars => RejoinInv'
  <1> SUFFICES ASSUME RejoinInv, [RejoinNext]_rejoinVars PROVE RejoinInv'
    OBVIOUS
  <1>1. ASSUME stopped' = stopped,
               \/ \E n \in Node : \E t \in NodeArg[n] : Start(n, t) /\ n \notin stopped
               \/ \E n \in Node : Main(n)
               \/ \E e \in End : Handle(e)
        PROVE  RejoinInv'
    <2>1. Next
      BY <1>1 DEF Next, Main, Handle, RecvHandShake
    <2>2. Truthful'
      BY <2>1, NextTruthful DEF RejoinInv
    <2>3. SendersBegan'
      BY <1>1, MeshStep_Began DEF RejoinInv
    <2>4. \A m \in Node : Listening(m)' /\ Began(m) => Listening(m)
      BY <1>1 DEF Began, Listening, Start, Main, CopyUsers, DialTarget, Handle, RecvHandShake,
                  RegisterUser, IgnoreHandShake, RejoinInv, Truthful, TypeOK
    <2>5. MutualWhileUp'
      BY <2>1, <2>4, MeshStep_Mutual
    <2> QED
      BY <1>1, <2>2, <2>3, <2>5 DEF RejoinInv
  <1>2. ASSUME NEW n \in Node, NEW t \in NodeArg[n], StartLife(n, t) PROVE RejoinInv'
    BY <1>1, <1>2 DEF StartLife
  <1>3. ASSUME NEW n \in Node, Main(n) PROVE RejoinInv'
    BY <1>1, <1>3 DEF Main
  <1>4. ASSUME NEW e \in End, Handle(e) PROVE RejoinInv'
    BY <1>1, <1>4 DEF Handle
  <1>5. CASE UNCHANGED rejoinVars
    <2>1. UNCHANGED << phase, users, inbox, stopped >> /\ UNCHANGED vars
      BY <1>5 DEF rejoinVars, vars
    <2>2. Truthful'
      BY <2>1, NextTruthful DEF RejoinInv
    <2>3. SendersBegan' /\ MutualWhileUp'
      BY <2>1 DEF RejoinInv, SendersBegan, Began, Listening, MutualWhileUp, Reaches
    <2> QED
      BY <2>1, <2>2, <2>3 DEF RejoinInv
  <1> QED
    BY <1>2, <1>3, <1>4, <1>5, Stop_Inv DEF RejoinNext

-----------------------------------------------------------------------------
\* The invariant, in every reachable state of processes that come and go.
THEOREM RejoinInvariant == RejoinSafe => []RejoinInv
BY RejoinInit_Inv, RejoinNext_Inv, PTL DEF RejoinSafe

\* Whatever stops, a Rep tells the truth about the life it was made for: descriptor,
\* key and address in it agree (RecvHandShake).
THEOREM RejoinRepReachesUser == RejoinSafe => []RepReachesUser
BY RejoinInvariant, PTL DEF RejoinInv, Truthful

\* Nobody is known one-sidedly to a process that runs, whoever else stops and whatever
\* is lost with them (RecvHandShake answers before it registers).
THEOREM RejoinMutual == RejoinSafe => []MutualWhileUp
BY RejoinInvariant, PTL DEF RejoinInv

-----------------------------------------------------------------------------
(* Who was introduced has been met, when processes are started one after    *)
(* the other, and stop at any time.                                         *)

\* Those n was introduced to, and who still run, have registered n, or a handshake from
\* n is on its way to them.
Covered(n) ==
  \A m \in introduced[n] : Listening(m) =>
    \/ users[m][IdOf[n]] # NoRep
    \/ \E e \in End : Owner(e) = m /\ Owner(Far(e)) = n /\ inbox[e] # << >>

\* All that anybody can handle is on the way to e.
Sole(e) == \A d \in End : Listening(Owner(d)) /\ inbox[d] # << >> => d = e

\* Nobody has registered x, which is to meet t and those t reaches.
Unmet(x, t) ==
  /\ \A n \in Node : ~ Reaches(n, x)
  /\ introduced[x] \subseteq {t} \cup { m \in Node : Reaches(t, m) }

\* x has been started, and is about to dial.
ToDial(x, t) ==
  /\ phase[x] = "copy" \/ (phase[x] = "dial" /\ copied[x] = {})
  /\ \A d \in End : Listening(Owner(d)) => inbox[d] = << >>
  /\ Unmet(x, t)

\* x has dialled.
Dialling(x, t) ==
  LET e == AcceptEnd(x, t, NoNode) IN
  /\ phase[x] = "loop"
  /\ inbox[e] = << Greeting(x, {}) >> /\ Sole(e)
  /\ Unmet(x, t)

\* t has answered, and lists whom x is to meet.
Told(x, t) ==
  LET e == Far(AcceptEnd(x, t, NoNode)) IN
  /\ phase[x] = "loop" /\ Sole(e)
  /\ users[t][IdOf[x]] # NoRep
  /\ \E list \in SUBSET Entry :
       /\ inbox[e] = << Greeting(t, list) >>
       /\ \A m \in introduced[x] \ {t} : \E y \in list : << y.ip, y.port >> = Addr(m)

\* x is the one that joins, and knows nobody yet.
Arriving(x) ==
  /\ \A n \in Up \ {x} : phase[n] = "loop"
  /\ KnowsNobody(x)
  /\ \E t \in Up \ {x} :
       target[x] = t /\ (ToDial(x, t) \/ Dialling(x, t) \/ Told(x, t))

\* n does not take an earlier or a later life of m for m.
Tells(n, m) ==
  /\ users[n][IdOf[m]] # NoRep => Reaches(n, m)
  /\ \A e \in End :
       Owner(e) = n /\ inbox[e] # << >> /\ IdOf[Owner(Far(e))] = IdOf[m] => Owner(Far(e)) = m

\* Only who has been started is introduced or gets packets; only who runs knows users.
Histories ==
  /\ introduced \in [Node -> SUBSET Node]
  /\ \A n \in Node : \A m \in introduced[n] : Began(m)
  /\ \A e \in End : inbox[e] # << >> => Began(Owner(e))
  /\ \A n \in Node \ Up : KnowsNobody(n)

\* The inductive invariant.  IntroducedMeet needs Tells, because a Rep under m's id may
\* be that of another life of m.
MeetInv ==
  /\ RejoinInv
  /\ OneAddress
  /\ Histories
  /\ \A n \in Up : \A m \in introduced[n] \cap Up : Tells(n, m)
  /\ \A n \in Up : Covered(n) \/ Arriving(n)

-----------------------------------------------------------------------------
(* What all steps but Stop have in common.                                  *)

\* Those who run go on to run, and only they send and register.
LEMMA RunningSteps ==
  ASSUME RejoinInv, Histories,
         \/ \E n \in Node : \E t \in NodeArg[n] : Start(n, t) /\ n \notin stopped
         \/ \E n \in Node : Main(n)
         \/ \E e \in End : Handle(e),
         stopped' = stopped
  PROVE  /\ QueuesMove /\ UsersStay
         /\ \A m \in Node : Listening(m) => Listening(m)'
         /\ \A m \in Node : Began(m) /\ Listening(m)' => Listening(m)
         /\ \A e \in End : inbox[e] = << >> /\ inbox'[e] # << >> =>
              Owner(Far(e)) \in Up /\ Began(Owner(e))
         /\ \A n \in Node, i \in Id : users[n][i] = NoRep /\ users'[n][i] # NoRep =>
              /\ n \in Up
              /\ \E e \in End : /\ Owner(e) = n /\ inbox[e] # << >>
                                /\ users'[n][i].fd = e /\ IdOf[Owner(Far(e))] = i
<1>1. Next /\ Truthful /\ TypeOK /\ HonestChannels
  BY DEF Next, Main, Handle, RecvHandShake, RejoinInv, Truthful
<1>2. QueuesMove /\ UsersStay
  BY <1>1, NextMoves
<1>3. /\ \A m \in Node : Listening(m) => Listening(m)'
      /\ \A m \in Node : Began(m) /\ Listening(m)' => Listening(m)
  BY <1>1 DEF Began, Listening, Start, Main, CopyUsers, DialTarget, Handle, RecvHandShake,
              RegisterUser, IgnoreHandShake, TypeOK
<1>4. ASSUME NEW d \in End, inbox[d] = << >>, inbox'[d] # << >>
      PROVE  Owner(Far(d)) \in Up /\ Began(Owner(d))
  <2>1. ASSUME NEW n \in Node, DialTarget(n) PROVE Owner(Far(d)) \in Up /\ Began(Owner(d))
    <3>1. d \in CallTo(n) /\ n \in Up
      BY <1>4, <2>1 DEF DialTarget, Up, Listening
    <3>2. PICK m \in Node : Listening(m) /\ d = AcceptEnd(n, m, NoNode)
      BY <3>1 DEF CallTo
    <3> QED BY <3>1, <3>2, AcceptEndFacts DEF Began
  <2>2. ASSUME NEW e \in End, RegisterUser(e), Listening(Owner(e))
        PROVE  Owner(Far(d)) \in Up /\ Began(Owner(d))
    <3>1. d \in Receivers(e) /\ inbox[e] # << >>
      BY <1>4, <2>2 DEF RegisterUser
    <3>2. Owner(e) \in Up /\ Owner(Far(e)) \in Node /\ Owner(Far(Far(e))) = Owner(e)
      BY <2>2, EndFacts DEF Up
    <3>3. CASE d = Far(e)
      BY <3>1, <3>2, <3>3 DEF RejoinInv, SendersBegan
    <3>4. ASSUME NEW m \in Accepting(Owner(e), Head(inbox[e]).peers),
                 d = AcceptEnd(Owner(e), m, Owner(Far(e)))
          PROVE  Owner(Far(d)) \in Up /\ Began(Owner(d))
      <4>1. m \in Node /\ Listening(m)
        BY DEF Accepting
      <4>2. Owner(d) = m /\ Owner(Far(d)) = Owner(e)
        BY <3>2, <3>4, <4>1, AcceptEndFacts DEF Up
      <4> QED BY <3>2, <4>1, <4>2 DEF Began
    <3> QED BY <3>1, <3>3, <3>4 DEF Receivers
  <2>3. ASSUME NEW e \in End, IgnoreHandShake(e) PROVE FALSE
    BY <1>1, <1>4, <2>3 DEF IgnoreHandShake, TypeOK
  <2>4. inbox' # inbox
    BY <1>4
  <2> QED BY <2>1, <2>2, <2>3, <2>4 DEF Main, Start, CopyUsers, Handle, RecvHandShake
<1>5. ASSUME NEW n \in Node, NEW i \in Id, users[n][i] = NoRep, users'[n][i] # NoRep
      PROVE  /\ n \in Up
             /\ \E e \in End : /\ Owner(e) = n /\ inbox[e] # << >>
                               /\ users'[n][i].fd = e /\ IdOf[Owner(Far(e))] = i
  <2>1. users' # users
    BY <1>5
  <2>2. PICK e \in End : RegisterUser(e) /\ Listening(Owner(e))
    BY <2>1 DEF Main, Start, CopyUsers, DialTarget, Handle, RecvHandShake, IgnoreHandShake
  <2>3. inbox[e] # << >>
    BY <2>2 DEF RegisterUser
  <2>4. n = Owner(e) /\ i = Head(inbox[e]).id /\ users'[n][i] = NewRep(e)
    BY <1>1, <1>5, <2>2, RegisterUserWrites
  <2>5. users'[n][i].fd = e
    BY <2>4 DEF NewRep
  <2> QED BY <1>1, <2>2, <2>3, <2>4, <2>5, HeadFacts DEF Up
<1> QED BY <1>2, <1>3, <1>4, <1>5

\* No handshake that was meant for somebody still to be met is lost.
LEMMA CoveredStays ==
  ASSUME RejoinInv, Histories, QueuesMove, UsersStay,
         \A m \in Node : Began(m) /\ Listening(m)' => Listening(m),
         NEW n \in Node, introduced'[n] \subseteq introduced[n], Covered(n)
  PROVE  Covered(n)'
<1> SUFFICES ASSUME NEW m \in introduced'[n], Listening(m)'
             PROVE  \/ users'[m][IdOf[n]] # NoRep
                    \/ \E e \in End : Owner(e) = m /\ Owner(Far(e)) = n /\ inbox'[e] # << >>
  BY DEF Covered
<1>1. m \in introduced[n] /\ m \in Node /\ Listening(m) /\ IdOf[n] \in Id
  BY DEF Histories, Id
<1>2. TypeOK /\ HonestChannels
  BY DEF RejoinInv, Truthful
<1>3. CASE users[m][IdOf[n]] # NoRep
  BY <1>1, <1>3 DEF UsersStay
<1>4. ASSUME NEW e \in End, Owner(e) = m, Owner(Far(e)) = n, inbox[e] # << >>
      PROVE  users'[m][IdOf[n]] # NoRep \/ inbox'[e] # << >>
  <2>1. inbox[e] \in Seq(HandShake)
    BY <1>2 DEF TypeOK
  <2>2. 1 \in DOMAIN inbox[e] /\ inbox[e][1].id = IdOf[n]
    BY <1>2, <1>4, <2>1, TailFacts DEF HonestChannels
  <2>3. \/ users'[Owner(e)][IdOf[n]] # NoRep
        \/ \E k \in DOMAIN inbox'[e] : inbox'[e][k].id = IdOf[n]
    BY <1>1, <1>2, <2>2, AcquaintanceStays
  <2> QED BY <1>4, <2>3
<1> QED BY <1>1, <1>3, <1>4 DEF Covered

\* Of two lives of one user at most one runs.
LEMMA OneLife ==
  ASSUME OneAddress, NEW n \in Up, NEW m \in Up, IdOf[n] = IdOf[m]
  PROVE  n = m
BY RejoinAssumption DEF OneAddress, Up

\* n goes on to hear of m as m.
LEMMA TellsStays ==
  ASSUME RejoinInv, Histories, OneAddress,
         UsersStay,
         \A e \in End : inbox[e] = << >> /\ inbox'[e] # << >> => Owner(Far(e)) \in Up,
         \A n \in Node, i \in Id : users[n][i] = NoRep /\ users'[n][i] # NoRep =>
           \E e \in End : /\ Owner(e) = n /\ inbox[e] # << >>
                          /\ users'[n][i].fd = e /\ IdOf[Owner(Far(e))] = i,
         NEW n \in Up, NEW m \in Up, Tells(n, m)
  PROVE  Tells(n, m)'
<1>1. n \in Node /\ m \in Node /\ IdOf[m] \in Id
  BY DEF Up, Id
<1>2. ASSUME users'[n][IdOf[m]] # NoRep PROVE Reaches(n, m)'
  <2>1. CASE users[n][IdOf[m]] # NoRep
    BY <1>1, <1>2, <2>1 DEF UsersStay, Tells, Reaches
  <2>2. CASE users[n][IdOf[m]] = NoRep
    <3>1. PICK e \in End : /\ Owner(e) = n /\ inbox[e] # << >>
                           /\ users'[n][IdOf[m]].fd = e /\ IdOf[Owner(Far(e))] = IdOf[m]
      BY <1>1, <1>2, <2>2
    <3>2. Owner(Far(e)) = m
      BY <3>1 DEF Tells
    <3> QED BY <1>2, <3>1, <3>2 DEF Reaches
  <2> QED BY <2>1, <2>2
<1>3. ASSUME NEW e \in End, Owner(e) = n, inbox'[e] # << >>, IdOf[Owner(Far(e))] = IdOf[m]
      PROVE  Owner(Far(e)) = m
  <2>1. CASE inbox[e] # << >>
    BY <1>3, <2>1 DEF Tells
  <2>2. CASE inbox[e] = << >>
    <3>1. Owner(Far(e)) \in Up
      BY <1>3, <2>2
    <3> QED BY <1>3, <3>1, OneLife
  <2> QED BY <2>1, <2>2
<1> QED BY <1>2, <1>3 DEF Tells

\* What is known of everybody, but for being met.
LEMMA RunningRest ==
  ASSUME MeetInv,
         \/ \E n \in Node : \E t \in NodeArg[n] : Start(n, t) /\ n \notin stopped
         \/ \E n \in Node : Main(n)
         \/ \E e \in End : Handle(e),
         stopped' = stopped,
         introduced' \in [Node -> SUBSET Node],
         \A n \in Up : introduced'[n] \subseteq introduced[n],
         \A n \in Node : \A m \in introduced'[n] : Began(m)
  PROVE  /\ OneAddress' /\ Histories'
         /\ \A n \in Up' : \A m \in introduced'[n] \cap Up' : Tells(n, m)'
<1>1. RejoinInv /\ Histories /\ OneAddress
  BY DEF MeetInv
<1>2. /\ UsersStay
      /\ \A m \in Node : Listening(m) => Listening(m)'
      /\ \A m \in Node : Began(m) /\ Listening(m)' => Listening(m)
      /\ \A e \in End : inbox[e] = << >> /\ inbox'[e] # << >> =>
           Owner(Far(e)) \in Up /\ Began(Owner(e))
      /\ \A n \in Node, i \in Id : users[n][i] = NoRep /\ users'[n][i] # NoRep =>
           /\ n \in Up
           /\ \E e \in End : /\ Owner(e) = n /\ inbox[e] # << >>
                             /\ users'[n][i].fd = e /\ IdOf[Owner(Far(e))] = i
  BY <1>1, RunningSteps
<1>3. OneAddress'
  <2>1. ASSUME NEW n \in Node, NEW t \in NodeArg[n], Start(n, t) PROVE OneAddress'
    <3>1. /\ \A m \in Node : Listening(m) => Addr(m) # Addr(n)
          /\ \A m \in Node : Listening(m)' => Listening(m) \/ m = n
      BY <1>1, <2>1 DEF Start, Listening, RejoinInv, Truthful, TypeOK
    <3> QED BY <1>1, <3>1 DEF OneAddress, Up, Addr
  <2>2. CASE \A m \in Node : Listening(m)' => Listening(m)
    BY <1>1, <2>2 DEF OneAddress, Up
  <2>3. ASSUME NEW n \in Node, Main(n) PROVE \A m \in Node : Listening(m)' => Listening(m)
    BY <1>1, <2>3 DEF Main, CopyUsers, DialTarget, Listening, RejoinInv, Truthful, TypeOK
  <2>4. ASSUME NEW e \in End, Handle(e) PROVE \A m \in Node : Listening(m)' => Listening(m)
    BY <2>4 DEF Handle, RecvHandShake, IgnoreHandShake, RegisterUser, Listening
  <2> QED BY <2>1, <2>2, <2>3, <2>4
<1>4. \A m \in Node : Began(m) => Began(m)'
  BY <1>2 DEF Began
<1>5. Histories'
  <2>1. \A n \in Node : \A m \in introduced'[n] : Began(m)'
    BY <1>4
  <2>2. \A e \in End : inbox'[e] # << >> => Began(Owner(e))'
    BY <1>1, <1>2, <1>4, EndFacts DEF Histories
  <2>3. ASSUME NEW n \in Node, ~ Listening(n)', NEW i \in Id PROVE users'[n][i] = NoRep
    <3>1. n \notin Up
      BY <1>2, <2>3 DEF Up
    <3> QED BY <1>1, <1>2, <3>1 DEF Histories, KnowsNobody
  <2> QED BY <2>1, <2>2, <2>3 DEF Histories, KnowsNobody, Up
<1>6. ASSUME NEW n \in Node, Listening(n)', NEW m \in introduced'[n], Listening(m)'
      PROVE  Tells(n, m)'
  <2>1. m \in Node
    OBVIOUS
  <2>2. m \in Up
    BY <1>2, <1>6, <2>1 DEF Up
  <2>3. CASE n \in Up
    <3>1. Tells(n, m)
      BY <2>2, <2>3 DEF MeetInv
    <3>2. \A k \in Node, i \in Id : users[k][i] = NoRep /\ users'[k][i] # NoRep =>
            \E e \in End : /\ Owner(e) = k /\ inbox[e] # << >>
                           /\ users'[k][i].fd = e /\ IdOf[Owner(Far(e))] = i
      BY <1>2
    <3>3. \A e \in End : inbox[e] = << >> /\ inbox'[e] # << >> => Owner(Far(e)) \in Up
      BY <1>2
    <3> QED BY <1>1, <1>2, <2>2, <2>3, <3>1, <3>2, <3>3, TellsStays
  <2>4. CASE n \notin Up
    <3>1. ~ Began(n) /\ KnowsNobody(n) /\ IdOf[m] \in Id
      BY <1>1, <1>2, <1>6, <2>1, <2>4 DEF Histories, Up, Id
    <3>2. users'[n][IdOf[m]] = NoRep
      BY <1>2, <2>4, <3>1 DEF KnowsNobody
    <3>3. \A e \in End : Owner(e) = n => inbox'[e] = << >>
      BY <1>1, <1>2, <3>1 DEF Histories
    <3> QED BY <3>2, <3>3 DEF Tells
  <2> QED BY <2>3, <2>4
<1>7. \A n \in Up' : \A m \in introduced'[n] \cap Up' : Tells(n, m)'
  BY <1>6 DEF Up
<1> QED BY <1>3, <1>5, <1>7

-----------------------------------------------------------------------------
(* Joining, step by step.                                                   *)

\* Who is listed by t and runs is somebody x is to meet.
LEMMA ReachedListed ==
  ASSUME Truthful, NEW t \in Node, NEW m \in Node, Reaches(t, m)
  PROVE  \E y \in Entries(t) : << y.ip, y.port >> = Addr(m)
<1>1. PICK i \in Id : i = IdOf[m]
  BY DEF Id
<1>2. users[t][i] # NoRep /\ << users[t][i].ip, users[t][i].port >> = Addr(m)
  BY <1>1 DEF Reaches, Truthful, RepReachesUser
<1>3. PICK y : y = [pos |-> i, ip |-> users[t][i].ip, port |-> users[t][i].port]
  OBVIOUS
<1>4. y \in Entries(t)
  BY <1>1, <1>2, <1>3 DEF Entries
<1> QED BY <1>2, <1>3, <1>4

\* While x arrives something is going on.
LEMMA ArrivingBusy ==
  ASSUME MeetInv, NEW x \in Up, Arriving(x)
  PROVE  ~ Quiet
<1>1. PICK t \in Up \ {x} : target[x] = t /\ (ToDial(x, t) \/ Dialling(x, t) \/ Told(x, t))
  BY DEF Arriving
<1>2. x \in Node /\ t \in Node /\ Listening(x) /\ Listening(t)
  BY DEF Up
<1>3. PICK e : e = AcceptEnd(x, t, NoNode)
  OBVIOUS
<1>4. e \in End /\ Owner(e) = t /\ Far(e) \in End /\ Owner(Far(e)) = x
  BY <1>2, <1>3, AcceptEndFacts, EndFacts
<1>5. CASE ToDial(x, t)
  BY <1>2, <1>5 DEF ToDial, Quiet
<1>6. CASE Dialling(x, t)
  <2>1. \A p : << p >> # << >>
    OBVIOUS
  <2>2. inbox[e] # << >>
    BY <1>3, <1>6, <2>1 DEF Dialling
  <2> QED BY <1>2, <1>4, <2>2 DEF Quiet
<1>7. CASE Told(x, t)
  <2>1. \A p : << p >> # << >>
    OBVIOUS
  <2>2. inbox[Far(e)] # << >>
    BY <1>3, <1>7, <2>1 DEF Told
  <2> QED BY <1>2, <1>4, <2>2 DEF Quiet
<1> QED BY <1>1, <1>5, <1>6, <1>7

\* A process is started when nothing is on the way, and is to dial next.
LEMMA StartMeets ==
  ASSUME MeetInv, Launch = "turn",
         NEW x \in Node, NEW t \in NodeArg[x], StartLife(x, t)
  PROVE  MeetInv'
<1>1. /\ RejoinInv /\ Histories /\ OneAddress /\ TypeOK
      /\ introduced \in [Node -> SUBSET Node]
  BY DEF MeetInv, RejoinInv, Truthful, Histories
<1>2. /\ x \notin stopped /\ Start(x, t) /\ Quiet /\ stopped' = stopped
      /\ phase[x] = "off" /\ (t # NoNode => Listening(t))
      /\ phase' = [phase EXCEPT ![x] = IF t = NoNode THEN "loop" ELSE "copy"]
      /\ target' = [target EXCEPT ![x] = t]
      /\ copied' = copied /\ users' = users /\ inbox' = inbox
  BY DEF StartLife, Start
<1>3. t # NoNode => t \in Up /\ t # x
  BY <1>2, MeshAssumption DEF Up, Listening
<1>4. \A n \in Node : introduced'[n] = IF n = x
                                       THEN IF t = NoNode THEN {}
                                            ELSE {t} \cup { m \in Node : Reaches(t, m) }
                                       ELSE introduced[n]
  BY <1>1 DEF StartLife
<1>5. introduced' \in [Node -> SUBSET Node]
  BY <1>1, <1>3 DEF StartLife, Up
<1>6. \A n \in Up : introduced'[n] \subseteq introduced[n]
  BY <1>2, <1>4 DEF Up, Listening
<1>7. ASSUME NEW m \in Node, t # NoNode, Reaches(t, m) PROVE Began(m)
  BY <1>1, <1>3, <1>7 DEF Reaches, RejoinInv, SendersBegan, Id, Up
<1>8. \A n \in Node : \A m \in introduced'[n] : Began(m)
  BY <1>1, <1>3, <1>4, <1>7 DEF Histories, Began, Up
<1>9. RejoinInv'
  BY <1>1, RejoinNext_Inv DEF RejoinNext
<1>10. /\ OneAddress' /\ Histories'
       /\ \A n \in Up' : \A m \in introduced'[n] \cap Up' : Tells(n, m)'
  BY <1>2, <1>5, <1>6, <1>8, RunningRest
<1>11. ~ Began(x) /\ KnowsNobody(x)
  BY <1>1, <1>2 DEF Began, Histories, Up, Listening
<1>12. /\ \A n \in Node : phase'[n] = IF n = x THEN IF t = NoNode THEN "loop" ELSE "copy"
                                     ELSE phase[n]
       /\ target'[x] = t
  BY <1>1, <1>2, <1>3, MeshAssumption DEF TypeOK
<1>13. ASSUME NEW n \in Up', n # x PROVE Covered(n)'
  <2>1. n \in Node /\ n \in Up
    BY <1>12, <1>13 DEF Up, Listening
  <2>2. Covered(n)
    BY <1>2, <2>1, ArrivingBusy DEF MeetInv
  <2>3. QueuesMove /\ UsersStay /\ \A m \in Node : Began(m) /\ Listening(m)' => Listening(m)
    BY <1>1, <1>2, RunningSteps
  <2> QED BY <1>1, <1>6, <2>1, <2>2, <2>3, CoveredStays
<1>14. CASE t = NoNode
  <2>1. Covered(x)'
    BY <1>4, <1>14 DEF Covered
  <2> QED BY <1>9, <1>10, <1>13, <2>1 DEF MeetInv
<1>15. CASE t # NoNode
  <2>1. \A n \in Node : ~ Reaches(n, x)
    BY <1>1, <1>11 DEF Reaches, RejoinInv, SendersBegan, Id
  <2>2. \A d \in End : Listening(Owner(d))' => inbox'[d] = << >>
    <3> SUFFICES ASSUME NEW d \in End, Listening(Owner(d))' PROVE inbox'[d] = << >>
      OBVIOUS
    <3>1. Owner(d) = x \/ Listening(Owner(d))
      BY <1>12, EndFacts DEF Listening
    <3> QED BY <1>1, <1>2, <1>11, <3>1 DEF Quiet, Histories
  <2>3. Unmet(x, t)'
    BY <1>2, <1>4, <1>15, <2>1 DEF Unmet, Reaches
  <2>4. ToDial(x, t)' /\ KnowsNobody(x)'
    BY <1>2, <1>11, <1>12, <1>15, <2>2, <2>3 DEF ToDial, KnowsNobody
  <2>5. \A n \in Up' \ {x} : phase'[n] = "loop"
    BY <1>2, <1>12 DEF Up, Listening, Quiet
  <2>6. t \in Up' \ {x}
    BY <1>3, <1>12, <1>15 DEF Up, Listening
  <2>7. Arriving(x)'
    <3>1. \E k \in Up' \ {x} : target'[x] = k /\ ToDial(x, k)'
      BY <1>12, <2>4, <2>6
    <3> QED BY <2>4, <2>5, <3>1 DEF Arriving
  <2> QED BY <1>9, <1>10, <1>13, <2>7 DEF MeetInv
<1> QED BY <1>14, <1>15

\* It has nothing to copy.
LEMMA ArrivingCopies ==
  ASSUME TypeOK, NEW x \in Up, Arriving(x), NEW n \in Node, CopyUsers(n), introduced' = introduced
  PROVE  Arriving(x)'
<1>1. /\ phase[n] = "copy" /\ phase' = [phase EXCEPT ![n] = "dial"]
      /\ copied' = [copied EXCEPT ![n] = Entries(n)]
      /\ target' = target /\ users' = users /\ inbox' = inbox
  BY DEF CopyUsers
<1>2. PICK t \in Up \ {x} : target[x] = t /\ (ToDial(x, t) \/ Dialling(x, t) \/ Told(x, t))
  BY DEF Arriving
<1>3. n = x
  BY <1>1 DEF Arriving, Up, Listening
<1>4. x \in Node /\ t \in Node /\ ToDial(x, t) /\ KnowsNobody(x)
  BY <1>1, <1>2, <1>3 DEF Dialling, Told, Arriving, Up
<1>5. /\ \A m \in Node : phase'[m] = IF m = x THEN "dial" ELSE phase[m]
      /\ copied'[x] = {}
  BY <1>1, <1>3, <1>4, NobodyKnown DEF TypeOK
<1>6. \A m \in Node : Listening(m)' <=> Listening(m)
  BY <1>1, <1>3, <1>5 DEF Listening
<1>7. Up' = Up
  BY <1>6 DEF Up
<1>8. \A d \in End : Listening(Owner(d))' => inbox'[d] = << >>
  BY <1>1, <1>4, <1>6, EndFacts DEF ToDial
<1>9. ToDial(x, t)'
  BY <1>1, <1>4, <1>5, <1>8 DEF ToDial, Unmet, Reaches
<1>10. \A m \in Up \ {x} : phase'[m] = "loop"
  BY <1>5 DEF Arriving, Up
<1>11. \E k \in Up \ {x} : target'[x] = k /\ ToDial(x, k)'
  BY <1>1, <1>2, <1>9
<1> QED BY <1>1, <1>4, <1>7, <1>10, <1>11 DEF Arriving, KnowsNobody

\* It dials the process --node names, and nobody else.
LEMMA ArrivingDials ==
  ASSUME TypeOK, OneAddress,
         NEW x \in Up, Arriving(x), NEW n \in Node, DialTarget(n), introduced' = introduced
  PROVE  Arriving(x)'
<1>1. /\ phase[n] = "dial" /\ phase' = [phase EXCEPT ![n] = "loop"]
      /\ inbox' = [e \in End |-> IF e \in CallTo(n)
                                 THEN Append(inbox[e], Greeting(n, copied[n])) ELSE inbox[e]]
      /\ target' = target /\ users' = users
  BY DEF DialTarget
<1>2. PICK t \in Up \ {x} : target[x] = t /\ (ToDial(x, t) \/ Dialling(x, t) \/ Told(x, t))
  BY DEF Arriving
<1>3. n = x
  BY <1>1 DEF Arriving, Up, Listening
<1>4. /\ x \in Node /\ t \in Node /\ Listening(t) /\ KnowsNobody(x)
      /\ ToDial(x, t) /\ copied[x] = {} /\ \A d \in End : Listening(Owner(d)) => inbox[d] = << >>
  BY <1>1, <1>2, <1>3 DEF ToDial, Dialling, Told, Arriving, Up
<1>5. \A m \in Node : phase'[m] = IF m = x THEN "loop" ELSE phase[m]
  BY <1>1, <1>3 DEF TypeOK
<1>6. \A m \in Node : Listening(m)' <=> Listening(m)
  BY <1>1, <1>3, <1>5 DEF Listening
<1>7. Up' = Up
  BY <1>6 DEF Up
<1>8. PICK a : a = AcceptEnd(x, t, NoNode)
  OBVIOUS
<1>9. a \in End /\ Owner(a) = t
  BY <1>4, <1>8, AcceptEndFacts
<1>10. CallTo(x) = {a}
  <2>1. \A k \in Node : Listening(k) /\ Addr(k) = Addr(t) <=> k = t
    BY <1>2, <1>4 DEF OneAddress, Up
  <2> QED BY <1>2, <1>4, <1>8, <2>1 DEF CallTo
<1>11. inbox'[a] = << Greeting(x, {}) >> /\ Sole(a)'
  <2>1. inbox[a] = << >>
    BY <1>4, <1>9
  <2>2. \A p : Append(<< >>, p) = << p >>
    OBVIOUS
  <2>3. inbox'[a] = << Greeting(x, {}) >>
    BY <1>1, <1>3, <1>4, <1>9, <1>10, <2>1, <2>2
  <2>4. \A d \in End : Listening(Owner(d))' /\ inbox'[d] # << >> => d = a
    BY <1>1, <1>3, <1>4, <1>6, <1>10, EndFacts
  <2> QED BY <2>3, <2>4 DEF Sole
<1>12. Dialling(x, t)'
  BY <1>1, <1>4, <1>5, <1>8, <1>11 DEF Dialling, ToDial, Unmet, Reaches
<1>13. \A m \in Up \ {x} : phase'[m] = "loop"
  BY <1>5 DEF Arriving, Up
<1>14. \E k \in Up \ {x} : target'[x] = k /\ Dialling(x, k)'
  BY <1>1, <1>2, <1>12
<1> QED BY <1>1, <1>4, <1>7, <1>13, <1>14 DEF Arriving, KnowsNobody

\* What the main threads do.
LEMMA MainMeets ==
  ASSUME MeetInv, NEW n \in Node, Main(n)
  PROVE  MeetInv'
<1>1. /\ RejoinInv /\ Histories /\ OneAddress /\ TypeOK
      /\ introduced' = introduced /\ stopped' = stopped
  BY DEF MeetInv, RejoinInv, Truthful, Main
<1>2. RejoinInv'
  BY <1>1, RejoinNext_Inv DEF RejoinNext
<1>3. /\ OneAddress' /\ Histories'
      /\ \A k \in Up' : \A m \in introduced'[k] \cap Up' : Tells(k, m)'
  BY <1>1, RunningRest DEF Histories
<1>4. Up' = Up
  BY <1>1 DEF Main, CopyUsers, DialTarget, Up, Listening, TypeOK
<1>5. ASSUME NEW k \in Up PROVE Covered(k)' \/ Arriving(k)'
  <2>1. CASE Covered(k)
    <3>1. QueuesMove /\ UsersStay /\ \A m \in Node : Began(m) /\ Listening(m)' => Listening(m)
      BY <1>1, RunningSteps
    <3> QED BY <1>1, <2>1, <3>1, CoveredStays DEF Up
  <2>2. CASE Arriving(k)
    BY <1>1, <2>2, ArrivingCopies, ArrivingDials DEF Main
  <2> QED BY <2>1, <2>2 DEF MeetInv
<1> QED BY <1>2, <1>3, <1>4, <1>5 DEF MeetInv

\* Whom x dialled turns it away, or answers with the addresses of all x is to meet.
LEMMA DialledAnswers ==
  ASSUME RejoinInv, Histories,
         NEW x \in Up, NEW t \in Up \ {x}, target[x] = t, Dialling(x, t), KnowsNobody(x),
         \A n \in Up \ {x} : phase[n] = "loop",
         NEW e \in End, Handle(e)
  PROVE  Covered(x)' \/ Arriving(x)'
<1>1. TypeOK /\ HonestChannels /\ Truthful
  BY DEF RejoinInv, Truthful
<1>2. x \in Node /\ t \in Node /\ Listening(x) /\ Listening(t) /\ IdOf[x] \in Id
  BY DEF Up, Id
<1>3. PICK a : a = AcceptEnd(x, t, NoNode)
  OBVIOUS
<1>4. /\ a \in End /\ Owner(a) = t /\ Owner(Far(a)) = x
      /\ Far(a) \in End /\ Far(a) # a
  BY <1>2, <1>3, AcceptEndFacts, EndFacts
<1>5. inbox[a] = << Greeting(x, {}) >> /\ Sole(a) /\ Unmet(x, t) /\ phase[x] = "loop"
  BY <1>3 DEF Dialling
<1>6. e = a /\ inbox[e] # << >>
  <2>1. inbox[e] # << >> /\ Listening(Owner(e))
    BY DEF Handle, RecvHandShake, IgnoreHandShake, RegisterUser
  <2> QED BY <1>5, <2>1 DEF Sole
<1>7. Head(inbox[a]) = Greeting(x, {}) /\ Tail(inbox[a]) = << >>
  <2>1. \A p : Head(<< p >>) = p /\ Tail(<< p >>) = << >>
    OBVIOUS
  <2> QED BY <1>5, <2>1
<1>8. introduced'[x] = IF KnewEarlier(t, x) THEN {} ELSE introduced[x]
  BY <1>2, <1>4, <1>6 DEF Handle, Histories
<1>9. CASE IgnoreHandShake(e)
  <2>1. users[t][IdOf[x]] # NoRep
    <3>1. Head(inbox[a]).id = IdOf[x]
      BY <1>1, <1>4, <1>6, HeadFacts
    <3> QED BY <1>4, <1>6, <1>9, <3>1 DEF IgnoreHandShake
  <2>2. KnewEarlier(t, x)
    BY <1>2, <1>5, <2>1 DEF KnewEarlier, Unmet
  <2> QED BY <1>8, <2>2 DEF Covered
<1>10. CASE RegisterUser(e)
  <2>1. /\ users[t][IdOf[x]] = NoRep
        /\ phase' = phase /\ target' = target /\ Up' = Up
        /\ users'[t][IdOf[x]] # NoRep
        /\ \A n \in Node, i \in Id : n # t => users'[n][i] = users[n][i]
        /\ \A d \in End : inbox'[d] = IF d = a THEN Tail(inbox[d])
                                      ELSE IF d \in Receivers(a)
                                      THEN Append(inbox[d], Greeting(t, Entries(t)))
                                      ELSE inbox[d]
    BY <1>1, <1>4, <1>6, <1>10, RegisterFacts
  <2>2. Receivers(a) = {Far(a)}
    <3>1. Head(inbox[a]).peers = {}
      BY <1>7 DEF Greeting
    <3> QED BY <1>4, <3>1, OnlyAnswers DEF Dialled
  <2>3. PICK list : list = Entries(t)
    OBVIOUS
  <2>4. list \in SUBSET Entry
    BY <1>1, <1>2, <2>3, EntriesType
  <2>5. inbox'[Far(a)] = << Greeting(t, list) >>
    <3>1. PICK p : p = Greeting(t, list)
      OBVIOUS
    <3>2. inbox[Far(a)] = << >>
      BY <1>2, <1>4, <1>5 DEF Sole
    <3>3. inbox'[Far(a)] = Append(inbox[Far(a)], p)
      BY <1>4, <2>1, <2>2, <2>3, <3>1
    <3>4. \A q : Append(<< >>, q) = << q >>
      OBVIOUS
    <3> QED BY <3>1, <3>2, <3>3, <3>4
  <2>6. Sole(Far(a))'
    <3> SUFFICES ASSUME NEW d \in End, Listening(Owner(d)), inbox'[d] # << >>, d # Far(a)
                 PROVE  FALSE
      BY <2>1 DEF Sole, Listening
    <3>1. d = a => inbox'[d] = << >>
      BY <1>7, <2>1
    <3>2. d # a => inbox'[d] = inbox[d]
      BY <2>1, <2>2
    <3> QED BY <1>5, <3>1, <3>2 DEF Sole
  <2>7. introduced'[x] = introduced[x]
    BY <1>8, <2>1 DEF KnewEarlier
  <2>8. \A m \in introduced'[x] \ {t} : \E y \in list : << y.ip, y.port >> = Addr(m)
    BY <1>1, <1>2, <1>5, <2>3, <2>7, ReachedListed DEF Unmet, Histories
  <2>9. Told(x, t)'
    BY <1>3, <1>5, <2>1, <2>4, <2>5, <2>6, <2>8 DEF Told
  <2>10. KnowsNobody(x)'
    BY <1>2, <2>1 DEF KnowsNobody
  <2>11. Arriving(x)'
    <3>1. \E k \in Up \ {x} : target'[x] = k /\ Told(x, k)'
      BY <2>1, <2>9
    <3> QED BY <2>1, <2>10, <3>1 DEF Arriving
  <2> QED BY <2>11
<1> QED BY <1>9, <1>10 DEF Handle, RecvHandShake

\* x dials all those addresses, and has registered itself with t already.
LEMMA ToldDials ==
  ASSUME RejoinInv, Histories,
         NEW x \in Up, NEW t \in Up \ {x}, Told(x, t), KnowsNobody(x),
         NEW e \in End, Handle(e), introduced'[x] \subseteq introduced[x]
  PROVE  Covered(x)'
<1>1. TypeOK /\ HonestChannels /\ Truthful
  BY DEF RejoinInv, Truthful
<1>2. x \in Node /\ t \in Node /\ Listening(x) /\ Listening(t) /\ IdOf[x] \in Id
  BY DEF Up, Id
<1>3. PICK a : a = AcceptEnd(x, t, NoNode)
  OBVIOUS
<1>4. a \in End /\ Owner(a) = t /\ Owner(Far(a)) = x /\ Far(a) \in End /\ Far(Far(a)) = a
  BY <1>2, <1>3, AcceptEndFacts, EndFacts
<1>5. Sole(Far(a)) /\ users[t][IdOf[x]] # NoRep
  BY <1>3 DEF Told
<1>6. PICK list \in SUBSET Entry :
        /\ inbox[Far(a)] = << Greeting(t, list) >>
        /\ \A m \in introduced[x] \ {t} : \E y \in list : << y.ip, y.port >> = Addr(m)
  BY <1>3 DEF Told
<1>7. e = Far(a) /\ inbox[e] # << >>
  <2>1. inbox[e] # << >> /\ Listening(Owner(e))
    BY DEF Handle, RecvHandShake, IgnoreHandShake, RegisterUser
  <2> QED BY <1>5, <2>1 DEF Sole
<1>8. Owner(e) = x /\ Owner(Far(e)) = t /\ Far(e) = a
  BY <1>4, <1>7
<1>9. Head(inbox[e]).peers = list
  <2>1. \A p : Head(<< p >>) = p
    OBVIOUS
  <2>2. Head(inbox[e]) = Greeting(t, list)
    BY <1>6, <1>7, <2>1
  <2> QED BY <2>2 DEF Greeting
<1>10. RegisterUser(e)
  <2>1. Head(inbox[e]).id \in Id
    BY <1>1, <1>7, HeadFacts
  <2>2. ~ IgnoreHandShake(e)
    BY <1>8, <2>1 DEF IgnoreHandShake, KnowsNobody
  <2> QED BY <2>2 DEF Handle, RecvHandShake
<1>11. /\ phase' = phase
       /\ \A n \in Node, i \in Id : users[n][i] # NoRep => users'[n][i] # NoRep
       /\ \A d \in End : inbox'[d] = IF d = e THEN Tail(inbox[d])
                                     ELSE IF d \in Receivers(e)
                                     THEN Append(inbox[d], Greeting(x, Entries(x)))
                                     ELSE inbox[d]
  BY <1>1, <1>8, <1>10, RegisterFacts
<1>12. ASSUME NEW m \in introduced'[x], Listening(m)', m # t
       PROVE  \E d \in End : Owner(d) = m /\ Owner(Far(d)) = x /\ inbox'[d] # << >>
  <2>1. m \in introduced[x] /\ m \in Node /\ Listening(m)
    BY <1>2, <1>11, <1>12 DEF Histories, Listening
  <2>2. PICK d : d = AcceptEnd(x, m, t)
    OBVIOUS
  <2>3. d \in End /\ Owner(d) = m /\ Owner(Far(d)) = x
    BY <1>2, <2>1, <2>2, AcceptEndFacts
  <2>4. m \in Accepting(x, Head(inbox[e]).peers)
    <3>1. Dialled(x, list) = list
      BY <1>2, NobodyKnown
    <3> QED BY <1>6, <1>9, <1>12, <2>1, <3>1 DEF Accepting
  <2>5. d \in Receivers(e)
    BY <1>8, <2>2, <2>4 DEF Receivers
  <2>6. inbox'[d] # << >>
    <3>1. d # e
      BY <1>8, <2>3
    <3>2. inbox'[d] = Append(inbox[d], Greeting(x, Entries(x)))
      BY <1>11, <2>3, <2>5, <3>1
    <3>3. inbox[d] \in Seq(HandShake)
      BY <1>1, <2>3 DEF TypeOK
    <3>4. Greeting(x, Entries(x)) \in HandShake
      BY <1>1, <1>2, EntriesType, GreetingFacts
    <3>5. Len(inbox[d]) + 1 \in DOMAIN inbox'[d]
      <4>1. DOMAIN inbox'[d] = 1 .. Len(inbox[d]) + 1
        BY <3>2, <3>3, <3>4, AppendFacts
      <4>2. Len(inbox[d]) \in Nat
        BY <3>3
      <4> QED BY <4>1, <4>2
    <3> QED BY <3>5
  <2> QED BY <2>3, <2>6
<1> QED BY <1>2, <1>5, <1>11, <1>12 DEF Covered

\* What the server threads do.
LEMMA HandleMeets ==
  ASSUME MeetInv, NEW e \in End, Handle(e)
  PROVE  MeetInv'
<1>1. /\ RejoinInv /\ Histories /\ OneAddress /\ TypeOK
      /\ stopped' = stopped
  BY DEF MeetInv, RejoinInv, Truthful, Handle
<1>2. /\ introduced' \in [Node -> SUBSET Node]
      /\ \A n \in Node : introduced'[n] \subseteq introduced[n]
  BY <1>1 DEF Handle, Histories
<1>3. RejoinInv'
  BY <1>1, RejoinNext_Inv DEF RejoinNext
<1>4. /\ OneAddress' /\ Histories'
      /\ \A k \in Up' : \A m \in introduced'[k] \cap Up' : Tells(k, m)'
  BY <1>1, <1>2, RunningRest DEF Histories, Up
<1>5. Up' = Up
  BY DEF Handle, RecvHandShake, IgnoreHandShake, RegisterUser, Up, Listening
<1>6. ASSUME NEW k \in Up PROVE Covered(k)' \/ Arriving(k)'
  <2>1. k \in Node
    BY DEF Up
  <2>2. CASE Covered(k)
    <3>1. QueuesMove /\ UsersStay /\ \A m \in Node : Began(m) /\ Listening(m)' => Listening(m)
      BY <1>1, RunningSteps
    <3> QED BY <1>1, <1>2, <2>1, <2>2, <3>1, CoveredStays
  <2>3. CASE Arriving(k)
    <3>1. PICK t \in Up \ {k} :
            target[k] = t /\ (ToDial(k, t) \/ Dialling(k, t) \/ Told(k, t))
      BY <2>3 DEF Arriving
    <3>2. inbox[e] # << >> /\ Listening(Owner(e))
      BY DEF Handle, RecvHandShake, IgnoreHandShake, RegisterUser
    <3>3. ~ ToDial(k, t)
      BY <3>2 DEF ToDial
    <3>4. KnowsNobody(k) /\ \A n \in Up \ {k} : phase[n] = "loop"
      BY <2>3 DEF Arriving
    <3>5. CASE Dialling(k, t)
      BY <1>1, <3>1, <3>4, <3>5, DialledAnswers
    <3>6. CASE Told(k, t)
      BY <1>1, <1>2, <2>1, <3>1, <3>4, <3>6, ToldDials
    <3> QED BY <3>1, <3>3, <3>5, <3>6
  <2> QED BY <2>2, <2>3 DEF MeetInv
<1> QED BY <1>3, <1>4, <1>5, <1>6 DEF MeetInv

\* Whoever stops leaves the others as they were; and whoever has heard nothing yet
\* from the one it joins through is introduced to nobody any more.
LEMMA StopMeets ==
  ASSUME MeetInv, NEW z \in Node, NEW lost \in SUBSET SentBy(z), Stop(z, lost)
  PROVE  MeetInv'
<1>1. /\ RejoinInv /\ Histories /\ OneAddress /\ TypeOK /\ SendersBegan
  BY DEF MeetInv, RejoinInv, Truthful
<1>2. RejoinInv'
  BY <1>1, Stop_Inv
<1>3. /\ \A n \in Node : phase'[n] = IF n = z THEN "off" ELSE phase[n]
      /\ \A n \in Node : n # z => copied'[n] = copied[n] /\ users'[n] = users[n]
      /\ \A i \in Id : users'[z][i] = NoRep
      /\ \A d \in End : inbox'[d] = IF Owner(d) = z \/ d \in lost THEN << >> ELSE inbox[d]
      /\ \A d \in lost : Owner(Far(d)) = z
      /\ target' = target /\ stopped' = stopped \cup {z}
  BY <1>1 DEF Stop, TypeOK, SentBy
<1>4. \A n \in Node : Listening(n)' <=> n # z /\ Listening(n)
  BY <1>3 DEF Listening
<1>5. Up' = Up \ {z}
  BY <1>4 DEF Up
<1>6. \A n \in Node : Began(n) => Began(n)'
  BY <1>3, <1>4 DEF Began
<1>7. /\ introduced' \in [Node -> SUBSET Node]
      /\ \A n \in Node : introduced'[n] \subseteq introduced[n]
  BY <1>1 DEF Stop, Histories
<1>8. \A d \in End : inbox'[d] # << >> => inbox'[d] = inbox[d]
  BY <1>3
<1>9. OneAddress'
  BY <1>1, <1>5 DEF OneAddress
<1>10. Histories'
  <2>1. \A n \in Node : \A m \in introduced'[n] : Began(m)'
    BY <1>1, <1>6, <1>7 DEF Histories
  <2>2. \A d \in End : inbox'[d] # << >> => Began(Owner(d))'
    BY <1>1, <1>6, <1>8, EndFacts DEF Histories
  <2>3. \A n \in Node \ Up' : \A i \in Id : users'[n][i] = NoRep
    BY <1>1, <1>3, <1>5 DEF Histories, KnowsNobody
  <2> QED BY <1>7, <2>1, <2>2, <2>3 DEF Histories, KnowsNobody
<1>11. ASSUME NEW n \in Up \ {z}, NEW m \in introduced'[n], m \in Up \ {z} PROVE Tells(n, m)'
  <2>1. n \in Node /\ Tells(n, m) /\ users'[n] = users[n]
    BY <1>3, <1>7, <1>11 DEF MeetInv, Up
  <2> QED BY <1>8, <2>1 DEF Tells, Reaches
<1>12. ASSUME NEW x \in Up \ {z}, Covered(x) PROVE Covered(x)'
  <2> SUFFICES ASSUME NEW m \in introduced'[x], Listening(m)'
               PROVE  \/ users'[m][IdOf[x]] # NoRep
                      \/ \E d \in End : Owner(d) = m /\ Owner(Far(d)) = x /\ inbox'[d] # << >>
    BY DEF Covered
  <2>1. x \in Node /\ m \in introduced[x] /\ m \in Node
    BY <1>7 DEF Up
  <2>2. m # z /\ Listening(m)
    BY <1>4, <2>1
  <2>3. \A d \in End : Owner(d) = m /\ Owner(Far(d)) = x => inbox'[d] = inbox[d]
    BY <1>3, <2>2
  <2> QED BY <1>3, <1>12, <2>1, <2>2, <2>3 DEF Covered
<1>13. ASSUME NEW x \in Up \ {z}, Arriving(x) PROVE Covered(x)' \/ Arriving(x)'
  <2>1. PICK t \in Up \ {x} : target[x] = t /\ (ToDial(x, t) \/ Dialling(x, t) \/ Told(x, t))
    BY <1>13 DEF Arriving
  <2>2. x \in Node /\ t \in Node /\ KnowsNobody(x) /\ x # z /\ IdOf[x] \in Id
    BY <1>13 DEF Arriving, Up, Id
  <2>3. CASE t = z
    <3>1. introduced'[x] = {}
      BY <2>1, <2>2, <2>3 DEF Stop, KnowsNobody
    <3> QED BY <3>1 DEF Covered
  <2>4. CASE t # z
    <3>1. /\ phase'[x] = phase[x] /\ copied'[x] = copied[x]
          /\ users'[x] = users[x] /\ users'[t] = users[t]
      BY <1>3, <2>2, <2>4
    <3>2. \A d \in End : Listening(Owner(d))' => Listening(Owner(d))
      BY <1>4, EndFacts
    <3>3. Unmet(x, t) => Unmet(x, t)'
      <4>1. \A n, m \in Node : Reaches(n, m)' => Reaches(n, m)
        BY <1>3 DEF Reaches, Id
      <4>2. \A m \in Node : Reaches(t, m) => Reaches(t, m)'
        BY <3>1 DEF Reaches
      <4> QED BY <1>7, <2>2, <4>1, <4>2 DEF Unmet
    <3>4. \A d \in End : Sole(d) => Sole(d)'
      BY <1>8, <3>2 DEF Sole
    <3>5. PICK a : a = AcceptEnd(x, t, NoNode)
      OBVIOUS
    <3>6. /\ a \in End /\ Owner(a) = t /\ Owner(Far(a)) = x
          /\ Far(a) \in End /\ Far(Far(a)) = a
      BY <2>2, <3>5, AcceptEndFacts, EndFacts
    <3>7. inbox'[a] = inbox[a] /\ inbox'[Far(a)] = inbox[Far(a)]
      BY <1>3, <2>2, <2>4, <3>6
    <3>8. ToDial(x, t) => ToDial(x, t)'
      BY <1>8, <3>1, <3>2, <3>3 DEF ToDial
    <3>9. Dialling(x, t) => Dialling(x, t)'
      BY <3>1, <3>3, <3>4, <3>5, <3>6, <3>7 DEF Dialling
    <3>10. Told(x, t) => Told(x, t)'
      <4>1. introduced'[x] \subseteq introduced[x]
        BY <1>7, <2>2
      <4> QED BY <3>1, <3>4, <3>5, <3>6, <3>7, <4>1 DEF Told
    <3>11. \A n \in Up' \ {x} : phase'[n] = "loop"
      BY <1>3, <1>5, <1>13 DEF Arriving, Up
    <3>12. t \in Up' \ {x} /\ target'[x] = t
      BY <1>3, <1>5, <2>1, <2>4
    <3>13. KnowsNobody(x)'
      BY <2>2, <3>1 DEF KnowsNobody
    <3>14. \E k \in Up' \ {x} : target'[x] = k /\ (ToDial(x, k)' \/ Dialling(x, k)' \/ Told(x, k)')
      BY <2>1, <3>8, <3>9, <3>10, <3>12
    <3> QED BY <3>11, <3>13, <3>14 DEF Arriving
  <2> QED BY <2>3, <2>4
<1>14. \A n \in Up' : \A m \in introduced'[n] \cap Up' : Tells(n, m)'
  BY <1>5, <1>11
<1>15. \A n \in Up' : Covered(n)' \/ Arriving(n)'
  BY <1>5, <1>12, <1>13 DEF MeetInv
<1> QED BY <1>2, <1>9, <1>10, <1>14, <1>15 DEF MeetInv

LEMMA RejoinNext_Meets ==
  ASSUME MeetInv, [RejoinNext]_rejoinVars, Launch = "turn"
  PROVE  MeetInv'
<1>1. CASE RejoinNext
  BY <1>1, StartMeets, MainMeets, HandleMeets, StopMeets DEF RejoinNext
<1>2. CASE UNCHANGED rejoinVars
  <2>1. /\ phase' = phase /\ target' = target /\ copied' = copied /\ users' = users
        /\ inbox' = inbox /\ stopped' = stopped /\ introduced' = introduced
    BY <1>2 DEF rejoinVars, vars
  <2>2. RejoinInv'
    BY <1>2, RejoinNext_Inv DEF MeetInv
  <2>3. Up' = Up
    BY <2>1 DEF Up, Listening
  <2>4. OneAddress' /\ Histories'
    BY <2>1, <2>3 DEF MeetInv, OneAddress, Histories, Began, Listening, KnowsNobody
  <2>5. \A n \in Up : \A m \in introduced'[n] \cap Up : Tells(n, m)'
    BY <2>1 DEF MeetInv, Tells, Reaches
  <2>6. ASSUME NEW n \in Up, Covered(n) PROVE Covered(n)'
    BY <2>1, <2>6 DEF Covered, Listening
  <2>7. ASSUME NEW x \in Up, Arriving(x) PROVE Arriving(x)'
    BY <2>1, <2>3, <2>7 DEF Arriving, ToDial, Dialling, Told, Unmet, Reaches, Sole, Listening,
                             KnowsNobody
  <2> QED BY <2>2, <2>3, <2>4, <2>5, <2>6, <2>7 DEF MeetInv
<1> QED BY <1>1, <1>2

LEMMA RejoinInit_Meets == RejoinInit => MeetInv
<1> SUFFICES ASSUME RejoinInit PROVE MeetInv
  OBVIOUS
<1>1. RejoinInv
  BY RejoinInit_Inv
<1>2. Up = {} /\ introduced = [n \in Node |-> {}]
  BY DEF RejoinInit, Init, Up, Listening
<1>3. OneAddress
  BY <1>2 DEF OneAddress
<1>4. Histories
  BY <1>2 DEF RejoinInit, Init, Histories, KnowsNobody
<1> QED BY <1>1, <1>2, <1>3, <1>4 DEF MeetInv

\* When nobody is joining, who was introduced has been met.
LEMMA MetWhenQuiet == MeetInv => IntroducedMeet
<1> SUFFICES ASSUME MeetInv, Quiet,
                    NEW n \in Node, Listening(n), NEW m \in introduced[n], Listening(m)
             PROVE  KnewEarlier(m, n) \/ (Reaches(n, m) /\ Reaches(m, n))
  BY DEF IntroducedMeet
<1>1. /\ RejoinInv /\ Histories /\ TypeOK /\ MutualWhileUp
      /\ n \in Up /\ m \in Node /\ m \in Up /\ IdOf[n] \in Id /\ IdOf[m] \in Id
  BY DEF MeetInv, RejoinInv, Truthful, Histories, Up, Id
<1>2. Covered(n) /\ Tells(n, m)
  BY <1>1, ArrivingBusy DEF MeetInv
<1>3. \A e \in End : Owner(e) \in {n, m} => inbox[e] = << >>
  BY DEF Quiet
<1>4. users[m][IdOf[n]] # NoRep
  BY <1>2, <1>3 DEF Covered
<1>5. ASSUME Reaches(m, n) PROVE Reaches(n, m)
  <2>1. PICK far : far = Far(users[m][IdOf[n]].fd)
    OBVIOUS
  <2>2. far \in End /\ Owner(far) = n
    BY <1>1, <1>4, <1>5, <2>1, EndFacts DEF Reaches, TypeOK, Rep
  <2>3. \/ users[n][IdOf[m]] # NoRep
        \/ \E k \in DOMAIN inbox[far] : inbox[far][k].id = IdOf[m]
    BY <1>1, <1>5, <2>1 DEF MutualWhileUp
  <2>4. DOMAIN inbox[far] = {}
    BY <1>3, <2>2
  <2> QED BY <1>2, <2>3, <2>4 DEF Tells
<1> QED BY <1>4, <1>5 DEF KnewEarlier

\* Processes that come back find those they are introduced to, when they are started
\* one after the other: whatever stops meanwhile, only who keeps the Rep of an earlier
\* life misses the later one (RecvHandShake passes over known ids, and dials what is
\* listed).
THEOREM RejoinIntroducedMeet ==
  ASSUME Launch = "turn"
  PROVE  RejoinSafe => []IntroducedMeet
<1>1. MeetInv /\ [RejoinNext]_rejoinVars => MeetInv'
  BY RejoinNext_Meets
<1> QED BY <1>1, RejoinInit_Meets, MetWhenQuiet, PTL DEF RejoinSafe
=============================================================================
