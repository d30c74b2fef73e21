-------------------------------- MODULE Onion --------------------------------
(***************************************************************************)
(* How a message travels (OnionMessenger.cc, OnionMessage.cc).             *)
(*                                                                         *)
(* The sender's routing thread wraps the message in a layer for its        *)
(* addressee and in one layer for each relay it picks, every layer         *)
(* encrypted for the process that is to open it.  A process that receives a *)
(* packet starts a thread, which opens the outermost layer and shows the    *)
(* message, passes the rest on to the user the layer names, or drops it.    *)
(* Meanwhile processes go on learning about each other (Directory), and may *)
(* stop.                                                                   *)
(***************************************************************************)
EXTENDS Directory, Sequences, FiniteSets

CONSTANTS
  Msg,        \* the messages users send
  Author,     \* Author[m]: the process whose user types m
  Addressee,  \* Addressee[m]: the id the user types
  Kind,       \* Kind[m]: "MSG" for /msg, "IMG" for /img
  WaitForAll, \* users send only when everybody knows everybody
  MaxHops,    \* how many relays a routing thread picks at most (5 in the code)
  MaxStops    \* how many processes may be stopped (a bound)

\* A layer: its content encrypted for `key'.  A layer of type ONION names the
\* user to pass the rest on to; one of type MSG or IMG names the sender.
Layer == [key : Node, ty : {"ONION", "MSG", "IMG"}, id : Id]

\* A ciphertext is its layers, outermost first, around a message.
Cipher == [layers : Seq(Layer), msg : Msg]

\* An OnionLayer object: ciphertext `data' and the user `id' who can open it.
OnionLayer == [id : Id, data : Cipher]
NoOnion    == << >>

ASSUME OnionAssumption ==
  /\ Author \in [Msg -> Node]
  /\ Addressee \in [Msg -> Id]
  /\ Kind \in [Msg -> {"MSG", "IMG"}]
  /\ WaitForAll \in BOOLEAN
  /\ MaxHops \in Nat \ {0}
  /\ MaxStops \in Nat

VARIABLES
  state,      \* state[n]: "up", "left" (its user stopped it) or "crashed"
  job,        \* job[m]: what the routing thread of m is doing
  net,        \* packets on the way: a ciphertext and the process it is sent to
  task,       \* receiving threads: a ciphertext and the process it is in
  chat        \* chat[n][m]: how often n has shown m

vars == << dir, state, job, net, task, chat >>

\* rep and prev are users (User::Rep pointers); prev starts uninitialised, which
\* is Nobody here.
Job == [stage : {"idle", "routing", "wrapping", "done"}, rep : Node \cup {Nobody},
        onion : OnionLayer \cup {NoOnion}, prev : Node \cup {Nobody}, hops : 0 .. MaxHops]

Thread(stage, rep, onion, prev, hops) ==
  [stage |-> stage, rep |-> rep, onion |-> onion, prev |-> prev, hops |-> hops]

Idle == Thread("idle", Nobody, NoOnion, Nobody, 0)
Done == Thread("done", Nobody, NoOnion, Nobody, 0)

Packet == [dst : Node, ct : Cipher]
Task   == [at : Node, ct : Cipher]

TypeOK ==
  /\ DirTypeOK
  /\ state \in [Node -> {"up", "left", "crashed"}]
  /\ job   \in [Msg -> Job]
  /\ net   \in SUBSET Packet
  /\ task  \in SUBSET Task
  /\ chat  \in [Node -> [Msg -> Nat]]

Init ==
  /\ DirInit
  /\ state = [n \in Node |-> "up"]
  /\ job   = [m \in Msg |-> Idle]
  /\ net   = {}
  /\ task  = {}
  /\ chat  = [n \in Node |-> [m \in Msg |-> 0]]

Up(n) == state[n] = "up"

-----------------------------------------------------------------------------
(* Layers.                                                                  *)

\* MsgLayer::Serialize and ImgLayer::Serialize: the message for rep's key.
Body(m, rep) ==
  [layers |-> << [key |-> rep, ty |-> Kind[m], id |-> IdOf[Author[m]]] >>, msg |-> m]

\* Bug: the layer names the process it is encrypted for.
SerializeKeyId(onion, rep) ==
  [layers |-> << [key |-> rep, ty |-> "ONION", id |-> IdOf[rep]] >> \o onion.data.layers,
   msg    |-> onion.data.msg]

\* OnionLayer::Serialize: the onion's user and data, encrypted for rep's key.
Serialize(onion, rep) ==
  [layers |-> << [key |-> rep, ty |-> "ONION", id |-> onion.id] >> \o onion.data.layers,
   msg    |-> onion.data.msg]

\* MsgBody::AddLayer on what serializes to ct.
AddLayer(ct, rep) == [id |-> IdOf[rep], data |-> ct]

\* The ciphertext in the layer that is opened.
Inner(ct) == [layers |-> Tail(ct.layers), msg |-> ct.msg]

\* Bug: layers are not encrypted.
OpenToAll(n, ct) == TRUE

\* Decrypt finds the private key only for what was encrypted for it.
CanOpen(n, ct) == Head(ct.layers).key = n

\* Bug: Relay does not look for its own id.
NeverForMe(n, ct) == FALSE

\* The opened layer names the process that opened it.
ForMe(n, ct) == Head(ct.layers).id = IdOf[n]

\* A packet sent on the descriptor of a process that has stopped goes nowhere.
Sent(dst, ct) == IF Up(dst) THEN {[dst |-> dst, ct |-> ct]} ELSE {}

-----------------------------------------------------------------------------
(* The directory, and processes that stop.                                  *)

LearnUser(n, m) ==
  /\ Up(n) /\ Up(m)
  /\ Learn(n, m)
  /\ UNCHANGED << state, job, net, task, chat >>

\* What is lost with process n: its threads, and the packets it has not read.
Gone(n, how) ==
  /\ state' = [state EXCEPT ![n] = how]
  /\ job' = [m \in Msg |->
       IF Author[m] = n /\ job[m].stage # "idle" THEN Done ELSE job[m]]
  /\ net' = { p \in net : p.dst # n }
  /\ task' = { t \in task : t.at # n }

\* The user of n quits.
Leave(n) ==
  /\ Up(n)
  /\ Cardinality({ x \in Node : state[x] = "left" }) < MaxStops
  /\ Gone(n, "left")
  /\ UNCHANGED << dir, chat >>

-----------------------------------------------------------------------------
(* Sending.                                                                 *)

EverybodyKnown ==
  \A n \in Node : \A i \in Id : i # IdOf[n] => dir[n][i] # Nobody

\* /msg and /img: the user must be known; a thread is started to send to it.
Send(m) ==
  LET n == Author[m] IN
  /\ Up(n)
  /\ WaitForAll => EverybodyKnown
  /\ job[m].stage = "idle"
  /\ dir[n][Addressee[m]] # Nobody
  /\ job' = [job EXCEPT ![m] =
               Thread("routing", dir[n][Addressee[m]], NoOnion, Nobody, 0)]
  /\ UNCHANGED << dir, state, net, task, chat >>

\* The thread finds at most one user: no relay can be picked.
SendDirect(m) ==
  LET n == Author[m] IN
  /\ job[m].stage = "routing"
  /\ Cardinality(KnownIds(n)) <= 1
  /\ net' = net \cup Sent(job[m].rep, Body(m, job[m].rep))
  /\ job' = [job EXCEPT ![m] = Done]
  /\ UNCHANGED << dir, state, task, chat >>

\* It finds more: the message is encrypted for its addressee.
WrapBody(m) ==
  /\ job[m].stage = "routing"
  /\ Cardinality(KnownIds(Author[m])) > 1
  /\ job' = [job EXCEPT ![m] =
               LET rep == job[m].rep
               IN Thread("wrapping", rep, AddLayer(Body(m, rep), rep), Nobody, 0)]
  /\ UNCHANGED << dir, state, net, task, chat >>

\* Bug: the loop runs once more.
OneMoreRelay(m) == job[m].hops <= MaxHops

MayPickRelay(m) == job[m].hops < MaxHops

\* A turn of the loop: a relay other than the previous one, and a layer for it.
\* The bound rand() % 5 + 1 is drawn again before every turn but is at least 1.
PickRelay(m) ==
  /\ job[m].stage = "wrapping"
  /\ MayPickRelay(m)
  /\ \E nrep \in KnownNodes(Author[m]) :
       /\ nrep # job[m].prev
       /\ job' = [job EXCEPT ![m] =
            Thread("wrapping", job[m].rep,
                   AddLayer(Serialize(job[m].onion, nrep), nrep),
                   nrep, job[m].hops + 1)]
  /\ UNCHANGED << dir, state, net, task, chat >>

\* Bug: the onion is handed to the addressee.
AddresseeFirst(m) == job[m].rep

\* The relay the onion is handed to: the one picked last (nrep after the loop).
FirstHop(m) == job[m].prev

\* The loop ends: the last relay's own layer is serialized, and sent to it.
LaunchOnion(m) ==
  /\ job[m].stage = "wrapping"
  /\ job[m].hops > 0
  /\ net' = net \cup Sent(FirstHop(m), Serialize(job[m].onion, job[m].prev))
  /\ job' = [job EXCEPT ![m] = Done]
  /\ UNCHANGED << dir, state, task, chat >>

-----------------------------------------------------------------------------
(* Receiving.                                                               *)

\* Bug: the packet stays in the receive buffer.
RecvMsgTwice(p) ==
  /\ net' = net
  /\ task' = task \cup {[at |-> p.dst, ct |-> p.ct]}
  /\ UNCHANGED << dir, state, job, chat >>

\* The server thread starts a thread for the packet (RecvMsgAsync).
RecvMsgAsync(p) ==
  /\ net' = net \ {p}
  /\ task' = task \cup {[at |-> p.dst, ct |-> p.ct]}
  /\ UNCHANGED << dir, state, job, chat >>

\* The layer cannot be decrypted: Decrypt returns "", Unserialize's substr throws
\* and nothing catches.
FailToOpen(t) ==
  /\ ~ CanOpen(t.at, t.ct)
  /\ Gone(t.at, "crashed")
  /\ UNCHANGED << dir, chat >>

\* Relay: the layer names this very process, so the next layer is opened here.
Unwrap(t) ==
  /\ CanOpen(t.at, t.ct)
  /\ Head(t.ct.layers).ty = "ONION" /\ ForMe(t.at, t.ct)
  /\ task' = (task \ {t}) \cup {[at |-> t.at, ct |-> Inner(t.ct)]}
  /\ UNCHANGED << dir, state, job, net, chat >>

\* Relay: the layer names a user, who gets the rest.
Forward(t) ==
  LET rep == dir[t.at][Head(t.ct.layers).id] IN
  /\ CanOpen(t.at, t.ct)
  /\ Head(t.ct.layers).ty = "ONION" /\ ~ ForMe(t.at, t.ct)
  /\ rep # Nobody
  /\ task' = task \ {t}
  /\ net' = net \cup Sent(rep, Inner(t.ct))
  /\ UNCHANGED << dir, state, job, chat >>

\* Relay: the layer names nobody this process knows; nothing is said of it.
Drop(t) ==
  /\ CanOpen(t.at, t.ct)
  /\ Head(t.ct.layers).ty = "ONION" /\ ~ ForMe(t.at, t.ct)
  /\ dir[t.at][Head(t.ct.layers).id] = Nobody
  /\ task' = task \ {t}
  /\ UNCHANGED << dir, state, job, net, chat >>

\* HandleMessage and HandleAArt.
ShowMessage(t) ==
  /\ CanOpen(t.at, t.ct)
  /\ Head(t.ct.layers).ty \in {"MSG", "IMG"}
  /\ task' = task \ {t}
  /\ chat' = [chat EXCEPT ![t.at][t.ct.msg] = @ + 1]
  /\ UNCHANGED << dir, state, job, net >>

OpenLayer(t) == FailToOpen(t) \/ Unwrap(t) \/ Forward(t) \/ Drop(t) \/ ShowMessage(t)

-----------------------------------------------------------------------------
Route(m) == SendDirect(m) \/ WrapBody(m) \/ PickRelay(m) \/ LaunchOnion(m)

Next ==
  \/ \E n, m \in Node : LearnUser(n, m)
  \/ \E n \in Node : Leave(n)
  \/ \E m \in Msg : Send(m) \/ SendDirect(m) \/ WrapBody(m) \/ PickRelay(m) \/ LaunchOnion(m)
  \/ \E p \in net : RecvMsgAsync(p)
  \/ \E t \in task : FailToOpen(t) \/ Unwrap(t) \/ Forward(t) \/ Drop(t) \/ ShowMessage(t)

\* Threads that have something to do go on; users need not type or quit.
Fairness ==
  \A m \in Msg :
    /\ WF_vars(Route(m))
    /\ WF_vars(\E p \in net : p.ct.msg = m /\ RecvMsgAsync(p))
    /\ WF_vars(\E t \in task : t.ct.msg = m /\ OpenLayer(t))

Safe == Init /\ [][Next]_vars
Spec == Safe /\ Fairness

-----------------------------------------------------------------------------
\* A ciphertext can be peeled to its message: every layer but the innermost names
\* the process for which the next one is encrypted; the innermost, which alone
\* names the sender, is encrypted for whom the sender has as its addressee.
WellWrapped(ct) ==
  LET L == ct.layers
      k == Len(L)
  IN /\ k > 0
     /\ \A j \in 1 .. k - 1 : L[j].ty = "ONION" /\ L[j].id = IdOf[L[j+1].key]
     /\ L[k].ty = Kind[ct.msg]
     /\ L[k].id = IdOf[Author[ct.msg]]
     /\ L[k].key = dir[Author[ct.msg]][Addressee[ct.msg]]

\* Ciphertexts stay well wrapped from the routing thread to the last relay
\* (DoOnionRouting builds them inside out, with one extra layer for the relay
\* they are sent to; Relay takes layers off).
OnionsWellWrapped ==
  /\ \A p \in net : WellWrapped(p.ct)
  /\ \A t \in task : WellWrapped(t.ct)
  /\ \A m \in Msg : job[m].stage = "wrapping" =>
       LET onion == job[m].onion
       IN /\ WellWrapped(onion.data)
          /\ onion.id = IdOf[Head(onion.data.layers).key]

\* No message makes a process terminate: whatever is handed to a process was
\* encrypted for it, though relays find processes by id and senders by Rep.
\* (This needs ids to be distinct; run onion_join has two users under one.)
NobodyCrashes == \A n \in Node : state[n] # "crashed"

\* Where copies of m are: with its routing thread, on the way, being opened.
Copies(m) ==
  (IF job[m].stage \in {"routing", "wrapping"} THEN 1 ELSE 0)
  + Cardinality({ p \in net : p.ct.msg = m })
  + Cardinality({ t \in task : t.ct.msg = m })

ShownAt(m) == { n \in Node : chat[n][m] > 0 }

\* A message is never in two places, and is not shown while it still travels:
\* no relay keeps or repeats what it passes on.
OneCopy ==
  \A m \in Msg :
    /\ Copies(m) <= 1
    /\ \A n \in Node : chat[n][m] <= 1
    /\ ShownAt(m) # {} => Copies(m) = 0 /\ Cardinality(ShownAt(m)) = 1

\* A message is shown only by a process that goes by the id it was sent to: the
\* one the author had registered when it sent.
OnlyAddressee ==
  \A m \in Msg, n \in Node : chat[n][m] > 0 =>
    /\ IdOf[n] = Addressee[m]
    /\ dir[Author[m]][Addressee[m]] = n

\* Everything sent is shown, when all know each other and nobody stops: the route
\* picked at random never matters.
Delivered ==
  \A m \in Msg : (job[m].stage = "routing") ~> (ShownAt(m) # {})

\* A process that has stopped matters to nobody but its own correspondents: what
\* is sent afterwards between two others is shown, unless one of them stops
\* ("Distributed System: No `single point of failure`", README.md:63).
NoSinglePointOfFailure ==
  \A m \in Msg :
    (job[m].stage = "routing" /\ \E x \in Node : ~ Up(x)) ~>
      \/ ShownAt(m) # {}
      \/ \E n \in Node : ~ Up(n) /\ (n = Author[m] \/ IdOf[n] = Addressee[m])

\* The promise, with the route forgotten.  A message shown while it still travels
\* is in none of Delivery's states.
Status(m) ==
  CASE job[m].stage = "idle" -> "new"
    [] job[m].stage # "idle" /\ Copies(m) > 0 /\ ShownAt(m) = {} -> "sent"
    [] job[m].stage # "idle" /\ Copies(m) = 0 /\ ShownAt(m) # {} -> "shown"
    [] job[m].stage # "idle" /\ Copies(m) = 0 /\ ShownAt(m) = {} -> "lost"
    [] OTHER -> "repeated"

Promise == INSTANCE Delivery WITH status <- [m \in Msg |-> Status(m)]

DeliverySpec == Promise!Spec
=============================================================================
