--------------------------------- MODULE Mesh ---------------------------------
(***************************************************************************)
(* How messenger processes find each other (OnionMessenger.cc).            *)
(*                                                                         *)
(* Every process runs a main thread, which logs the user in, starts the    *)
(* server thread and then, when --node was given, dials that node; and a   *)
(* server thread, which handles one packet at a time.  A process that      *)
(* receives a handshake from an id it does not know dials the nodes listed *)
(* in it, answers on the same connection and registers the sender.         *)
(*                                                                         *)
(* A connection is one TCP connection; each of its two ends is what a file *)
(* descriptor names in the code, and each end has a FIFO of the packets    *)
(* not yet handled there.  Here processes join and stay; in Rejoin they     *)
(* stop and start again.                                                   *)
(***************************************************************************)
EXTENDS Naturals, Sequences, FiniteSets

CONSTANTS
  Node,      \* the messenger processes
  IdOf,      \* the GitHub id each user types at login (a number, for map order)
  HostOf,    \* the IP address each process is reached at
  PortOf,    \* the port each process listens on (--port)
  NodeArg,   \* NodeArg[n]: the processes --node of n may name, or NoNode
  Launch,    \* when a user starts a process: "any", "target", "hub" or "turn"
  NoNode,
  NoRep      \* users.find(id) == users.end()

Addr(n) == << HostOf[n], PortOf[n] >>
Id      == { IdOf[n] : n \in Node }
Ip      == { HostOf[n] : n \in Node }
Port    == { PortOf[n] : n \in Node }

\* The ends of the connections there can be: `ini' dialled `acc' because of a
\* handshake from `why', or, when `why' is NoNode, because of --node.
End == [ini : Node, acc : Node, why : Node \cup {NoNode}, side : {"ini", "acc"}]

Owner(e) == IF e.side = "ini" THEN e.ini ELSE e.acc
Far(e)   == [ini |-> e.ini, acc |-> e.acc, why |-> e.why,
             side |-> IF e.side = "ini" THEN "acc" ELSE "ini"]
AcceptEnd(n, m, why) == [ini |-> n, acc |-> m, why |-> why, side |-> "acc"]

\* An (ip, port) entry of a handshake.  `pos' is the key of the user it was
\* copied from: the code sends the entries in the order of the map's keys.
Entry     == [pos : Id, ip : Ip, port : Port]
HandShake == [id : Id, port : Port, peers : SUBSET Entry, key : Node]
Rep       == [ip : Ip, port : Port, fd : End, key : Node]

ASSUME MeshAssumption ==
  /\ IdOf \in [Node -> Nat]
  /\ HostOf \in [Node -> Nat]
  /\ PortOf \in [Node -> Nat]
  /\ NodeArg \in [Node -> SUBSET (Node \cup {NoNode})]
  /\ Launch \in {"any", "target", "hub", "turn"}
  /\ NoNode \notin Node
  /\ NoRep \notin Rep

VARIABLES
  phase,     \* the main thread: not started, in HandShake, or in the UI loop
  target,    \* the value of --node
  copied,    \* cIps and cPorts in the main thread's HandShake
  users,     \* users[n][i]: n's Rep of the user with id i
  inbox      \* inbox[e]: packets on the way to end e, oldest first

vars == << phase, target, copied, users, inbox >>

TypeOK ==
  /\ phase  \in [Node -> {"off", "copy", "dial", "loop"}]
  /\ target \in [Node -> Node \cup {NoNode}]
  /\ copied \in [Node -> SUBSET Entry]
  /\ users  \in [Node -> [Id -> Rep \cup {NoRep}]]
  /\ inbox  \in [End -> Seq(HandShake)]

Init ==
  /\ phase  = [n \in Node |-> "off"]
  /\ target = [n \in Node |-> NoNode]
  /\ copied = [n \in Node |-> {}]
  /\ users  = [n \in Node |-> [i \in Id |-> NoRep]]
  /\ inbox  = [e \in End |-> << >>]

-----------------------------------------------------------------------------
Listening(n) == phase[n] # "off"

\* The addresses of n's users, as copied into a handshake.
Entries(n) ==
  { [pos |-> i, ip |-> users[n][i].ip, port |-> users[n][i].port] :
      i \in { k \in Id : users[n][k] # NoRep } }

\* Bug: the public key is left out.
KeylessGreeting(n, entries) ==
  [id |-> IdOf[n], port |-> PortOf[n], peers |-> entries, key |-> NoNode]

Greeting(n, entries) ==
  [id |-> IdOf[n], port |-> PortOf[n], peers |-> entries, key |-> n]

\* Some user of n is registered with the address of entry x.
Knows(n, x) ==
  \E i \in Id : /\ users[n][i] # NoRep
                /\ users[n][i].ip = x.ip
                /\ users[n][i].port = x.port

\* Bug: the loop ends with the first address it dials.
DialledOnce(n, peers) ==
  { x \in peers : ~ Knows(n, x) /\ \A y \in peers : x.pos <= y.pos }

\* Bug: those are dialled that are known already.
DialledKnown(n, peers) == { x \in peers : Knows(n, x) }

\* The entries n dials.  `find' is cleared before the loop, not in it: once an
\* entry is known, that entry and all later ones are passed over.
Dialled(n, peers) ==
  { x \in peers : \A y \in peers : y.pos <= x.pos => ~ Knows(n, y) }

\* The processes that accept a connection when n dials the entries of peers.
Accepting(n, peers) ==
  { m \in Node : /\ Listening(m)
                 /\ \E x \in Dialled(n, peers) : << x.ip, x.port >> = Addr(m) }

\* Bug: the sender gets no answer.
ReceiversUnanswered(e) ==
  LET n == Owner(e) IN
  { AcceptEnd(n, m, Owner(Far(e))) : m \in Accepting(n, Head(inbox[e]).peers) }

\* The ends that get a handshake from the owner of e when it handles the packet
\* at the head of e: the processes it dials, and the sender, in answer.
Receivers(e) ==
  LET n == Owner(e) IN
  {Far(e)} \cup
  { AcceptEnd(n, m, Owner(Far(e))) : m \in Accepting(n, Head(inbox[e]).peers) }

\* Bug: the sender is registered before the answer is built, which then lists it.
AnswerAfterRegistering(e) ==
  Greeting(Owner(e), Entries(Owner(e)) \cup
    {[pos  |-> Head(inbox[e]).id, ip |-> HostOf[Owner(Far(e))],
      port |-> Head(inbox[e]).port]})

\* What they get; the sender itself is not registered yet and not in the list.
Answer(e) == Greeting(Owner(e), Entries(Owner(e)))

\* Bug: the address is taken from the near end of the connection.
NearEndRep(e) ==
  [ip |-> HostOf[Owner(e)], port |-> Head(inbox[e]).port,
   fd |-> e, key |-> Head(inbox[e]).key]

\* The new User::Rep.  The address is that of the far end (getpeername), the port
\* is the one announced.
NewRep(e) ==
  [ip |-> HostOf[Owner(Far(e))], port |-> Head(inbox[e]).port,
   fd |-> e, key |-> Head(inbox[e]).key]

\* Nobody is joining, and there is nothing for anybody to handle.
Quiet ==
  /\ \A n \in Node : phase[n] \in {"off", "loop"}
  /\ \A e \in End : Listening(Owner(e)) => inbox[e] = << >>

-----------------------------------------------------------------------------
\* The user starts n with --node t (or without), where nobody listens yet.
\* Launch says when users do: at any time; when the target listens; when moreover
\* all have joined through that target so far, or nobody is joining; or only when
\* nobody is joining.
Start(n, t) ==
  /\ phase[n] = "off"
  /\ \A m \in Node : Listening(m) => Addr(m) # Addr(n)
  /\ (t # NoNode /\ Launch # "any") => Listening(t)
  /\ Launch = "hub" =>
       Quiet \/ \A m \in Node : phase[m] # "off" => target[m] \in {NoNode, t}
  /\ Launch = "turn" => Quiet
  /\ phase' = [phase EXCEPT ![n] = IF t = NoNode THEN "loop" ELSE "copy"]
  /\ target' = [target EXCEPT ![n] = t]
  /\ UNCHANGED << copied, users, inbox >>

\* The main thread copies the addresses while the server thread already runs.
CopyUsers(n) ==
  /\ phase[n] = "copy"
  /\ phase' = [phase EXCEPT ![n] = "dial"]
  /\ copied' = [copied EXCEPT ![n] = Entries(n)]
  /\ UNCHANGED << target, users, inbox >>

\* The connection to whoever listens at the address of --node.
CallTo(n) ==
  { AcceptEnd(n, m, NoNode) : m \in { k \in Node : Listening(k) /\ Addr(k) = Addr(target[n]) } }

\* Then it connects and sends.  When nobody listens there the descriptor is -1
\* and the handshake goes nowhere.
DialTarget(n) ==
  /\ phase[n] = "dial"
  /\ phase' = [phase EXCEPT ![n] = "loop"]
  /\ copied' = [copied EXCEPT ![n] = {}]
  /\ inbox' = [e \in End |->
       IF e \in CallTo(n)
       THEN Append(inbox[e], Greeting(n, copied[n]))
       ELSE inbox[e]]
  /\ UNCHANGED << target, users >>

\* Bugs: a handshake from an id it knows is answered, or makes it forget the user.
AnswerKnown(e) ==
  /\ inbox[e] # << >>
  /\ users[Owner(e)][Head(inbox[e]).id] # NoRep
  /\ inbox' = [inbox EXCEPT ![e] = Tail(@), ![Far(e)] = Append(@, Answer(e))]
  /\ UNCHANGED << phase, target, copied, users >>

ForgetKnown(e) ==
  /\ inbox[e] # << >>
  /\ users[Owner(e)][Head(inbox[e]).id] # NoRep
  /\ inbox' = [inbox EXCEPT ![e] = Tail(@)]
  /\ users' = [users EXCEPT ![Owner(e)][Head(inbox[e]).id] = NoRep]
  /\ UNCHANGED << phase, target, copied >>

\* The server thread handles a handshake from an id it knows: nothing is done,
\* nothing is answered, and the addresses listed in it are not looked at.
IgnoreHandShake(e) ==
  /\ inbox[e] # << >>
  /\ users[Owner(e)][Head(inbox[e]).id] # NoRep
  /\ inbox' = [inbox EXCEPT ![e] = Tail(@)]
  /\ UNCHANGED << phase, target, copied, users >>

\* The server thread handles a handshake from an id it does not know.  In between it
\* lists the user on the screen and imports the key, which only the other threads of the
\* process may notice: both are steps of their own in Desk.
RegisterUser(e) ==
  LET n      == Owner(e)
      i      == Head(inbox[e]).id
      to     == Receivers(e)
      answer == Answer(e)
  IN
  /\ inbox[e] # << >>
  /\ users[n][i] = NoRep
  /\ inbox' = [d \in End |->
       IF d = e THEN Tail(inbox[d])
       ELSE IF d \in to THEN Append(inbox[d], answer)
       ELSE inbox[d]]
  /\ users' = [users EXCEPT ![n][i] = NewRep(e)]
  /\ UNCHANGED << phase, target, copied >>

RecvHandShake(e) == IgnoreHandShake(e) \/ RegisterUser(e)

MainThread(n)   == CopyUsers(n) \/ DialTarget(n)
ServerThread(n) == \E e \in End : Owner(e) = n /\ RecvHandShake(e)

Next ==
  \/ \E n \in Node : \E t \in NodeArg[n] : Start(n, t)
  \/ \E n \in Node : CopyUsers(n) \/ DialTarget(n)
  \/ \E e \in End : IgnoreHandShake(e) \/ RegisterUser(e)

\* Threads are scheduled; nothing makes a user start another process.
Fairness == \A n \in Node : WF_vars(MainThread(n)) /\ WF_vars(ServerThread(n))

Safe == Init /\ [][Next]_vars
Spec == Safe /\ Fairness

-----------------------------------------------------------------------------
\* What n has under id i is the process that can be reached there: the
\* descriptor stored in the Rep is n's end of a connection whose other end is a
\* process logged in as i, its key is that process's key, and the address n
\* gives to third parties is the one that process listens on.
\* (RecvHandShake builds the Rep from a packet and from getpeername.)
RepReachesUser ==
  \A n \in Node, i \in Id : users[n][i] # NoRep =>
    LET rep  == users[n][i]
        peer == Owner(Far(rep.fd))
    IN /\ Owner(rep.fd) = n
       /\ IdOf[peer] = i
       /\ rep.key = peer
       /\ << rep.ip, rep.port >> = Addr(peer)

\* Nobody is known one-sidedly: when n has registered a peer, that peer has a
\* user under n's id, or n's handshake is still on its way to it.
\* (RecvHandShake answers before it registers and ignores an id it knows.)
Acquaintance ==
  \A n \in Node, i \in Id : users[n][i] # NoRep =>
    LET far == Far(users[n][i].fd)
    IN \/ users[Owner(far)][IdOf[n]] # NoRep
       \/ \E k \in DOMAIN inbox[far] : inbox[far][k].id = IdOf[n]

\* A process never registers itself.  DoOnionRouting counts users and picks
\* relays among them on that understanding; the code does not check it.
NeverOwnUser == \A n \in Node : users[n][IdOf[n]] = NoRep

\* Everybody has been started and every handshake has been dealt with.
Settled == Quiet /\ \A n \in Node : phase[n] = "loop"

Linked(n, m) == users[n][IdOf[m]] # NoRep /\ users[m][IdOf[n]] # NoRep

\* When the joining is over, everybody knows everybody: a message can be
\* relayed by any user its sender picks (Relay drops what it cannot pass on).
\* For five processes or more it takes that they join one after the other:
\* started at the same time, two of them may come to pass over each other.
MeshComplete ==
  Settled => \A n, m \in Node : n # m => Linked(n, m)

\* When the joining is over, the others stay connected when one process leaves
\* ("Distributed System: No `single point of failure`", README.md:63).
NoSinglePointOfFailure ==
  Settled => \A x \in Node : \A S \in SUBSET (Node \ {x}) :
    (S # {} /\ S # Node \ {x}) =>
      \E n \in S, m \in Node \ (S \cup {x}) : Linked(n, m)

\* Processes that answer handshakes with handshakes do fall silent.
HandshakesEnd == <>[]Quiet

\* The map of users implements the directory: whoever is at the other end of
\* the descriptor registered under i is who n knows as i.
UserBehind(n, i) ==
  IF users[n][i] = NoRep THEN NoNode ELSE Owner(Far(users[n][i].fd))

Dir == INSTANCE Directory WITH
         Nobody <- NoNode,
         dir    <- [n \in Node |-> [i \in Id |-> UserBehind(n, i)]]

DirectorySpec   == Dir!DirSpec
DirectoryMutual == Dir!Mutual
=============================================================================
