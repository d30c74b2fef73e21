----------------------------- MODULE OnionProofs -----------------------------
(***************************************************************************)
(* What holds of Onion for any processes, messages, routes and bounds.     *)
(***************************************************************************)
EXTENDS Onion, FiniteSetTheorems, TLAPS

\* Whoever is registered under an id logged in with it.
DirHonest ==
  \A n \in Node, i \in Id : dir[n][i] # Nobody => IdOf[dir[n][i]] = i

\* A routing thread still finds its addressee where the sender found it; what it
\* has wrapped is well wrapped, around its own message, for whom the onion names.
GoodJob(m) ==
  /\ job[m].stage \in {"routing", "wrapping"} =>
       /\ job[m].rep \in Node
       /\ job[m].rep = dir[Author[m]][Addressee[m]]
  /\ job[m].stage = "wrapping" =>
       /\ job[m].onion \in OnionLayer
       /\ job[m].onion.data.msg = m
       /\ WellWrapped(job[m].onion.data)
       /\ job[m].onion.id = IdOf[Head(job[m].onion.data.layers).key]
       /\ job[m].hops > 0 => job[m].prev \in Node

\* The inductive invariant: OnionsWellWrapped is not inductive alone, because the
\* innermost layer is written from the routing thread's rep, and because the
\* entry it speaks of must not change when the directory grows.
OnionInv ==
  /\ TypeOK
  /\ DirHonest
  /\ \A m \in Msg : GoodJob(m)
  /\ \A p \in net : WellWrapped(p.ct)
  /\ \A t \in task : WellWrapped(t.ct)

-----------------------------------------------------------------------------
(* The operations on layers.                                                *)

\* The ciphertext of a message for its addressee is well wrapped.
LEMMA BodyFacts ==
  ASSUME NEW m \in Msg, NEW rep \in Node, rep = dir[Author[m]][Addressee[m]]
  PROVE  /\ Body(m, rep) \in Cipher
         /\ WellWrapped(Body(m, rep))
         /\ Head(Body(m, rep).layers).key = rep
         /\ Body(m, rep).msg = m
  <1> DEFINE layer == [key |-> rep, ty |-> Kind[m], id |-> IdOf[Author[m]]]
  <1>1. layer \in Layer
    BY OnionAssumption DEF Layer, Id
  <1>2. /\ << layer >> \in Seq(Layer)
        /\ Len(<< layer >>) = 1
        /\ << layer >>[1] = layer
        /\ Head(<< layer >>) = layer
    BY <1>1
  <1>3. Body(m, rep) = [layers |-> << layer >>, msg |-> m]
    BY DEF Body
  <1> QED
    BY <1>2, <1>3 DEF Cipher, WellWrapped

\* A layer put around a well-wrapped ciphertext, naming whom that one is for, is
\* well wrapped.
LEMMA SerializeFacts ==
  ASSUME NEW onion \in OnionLayer, NEW rep \in Node,
         WellWrapped(onion.data), onion.id = IdOf[Head(onion.data.layers).key]
  PROVE  /\ Serialize(onion, rep) \in Cipher
         /\ WellWrapped(Serialize(onion, rep))
         /\ Head(Serialize(onion, rep).layers).key = rep
         /\ Serialize(onion, rep).msg = onion.data.msg
  <1> DEFINE layer == [key |-> rep, ty |-> "ONION", id |-> onion.id]
             L     == onion.data.layers
             M     == << layer >> \o L
  <1>1. layer \in Layer /\ L \in Seq(Layer) /\ onion.data.msg \in Msg
    BY DEF OnionLayer, Cipher, Layer
  <1>2. /\ M \in Seq(Layer)
        /\ Len(L) \in Nat
        /\ Len(M) = Len(L) + 1
        /\ M[1] = layer
        /\ Head(M) = layer
        /\ \A j \in 1 .. Len(L) : M[j + 1] = L[j]
    BY <1>1
  <1>3. Len(L) > 0
    BY DEF WellWrapped
  <1>4. Head(L) = L[1]
    BY <1>1
  <1>5. Serialize(onion, rep) = [layers |-> M, msg |-> onion.data.msg]
    BY DEF Serialize
  <1>6. ASSUME NEW j \in 1 .. Len(M) - 1
        PROVE  M[j].ty = "ONION" /\ M[j].id = IdOf[M[j + 1].key]
    <2>1. CASE j = 1
      BY <1>2, <1>3, <1>4, <2>1
    <2>2. CASE j # 1
      <3>1. j - 1 \in 1 .. Len(L) - 1 /\ M[j] = L[j - 1] /\ M[j + 1] = L[j]
        <4>1. j - 1 \in 1 .. Len(L) - 1 /\ j \in 1 .. Len(L)
          BY <1>2, <2>2
        <4>2. M[(j - 1) + 1] = L[j - 1] /\ (j - 1) + 1 = j
          BY <1>2, <4>1
        <4> QED
          BY <1>2, <4>1, <4>2
      <3>2. L[j - 1].ty = "ONION" /\ L[j - 1].id = IdOf[L[(j - 1) + 1].key]
        BY <3>1 DEF WellWrapped
      <3>3. (j - 1) + 1 = j
        BY <1>2
      <3> HIDE DEF M, L
      <3> QED
        BY <3>1, <3>2, <3>3
    <2> QED
      BY <2>1, <2>2
  <1>7. M[Len(M)] = L[Len(L)]
    BY <1>2, <1>3
  <1>8. /\ M[Len(M)].ty = Kind[onion.data.msg]
        /\ M[Len(M)].id = IdOf[Author[onion.data.msg]]
        /\ M[Len(M)].key = dir[Author[onion.data.msg]][Addressee[onion.data.msg]]
    BY <1>7 DEF WellWrapped
  <1> HIDE DEF M, L, layer
  <1>9. Len(M) > 0 /\ Len(M) \in Nat
    BY <1>2, <1>3
  <1>10. WellWrapped([layers |-> M, msg |-> onion.data.msg])
    BY <1>6, <1>8, <1>9 DEF WellWrapped
  <1>11. WellWrapped(Serialize(onion, rep))
    BY <1>5, <1>10
  <1> QED
    BY <1>1, <1>2, <1>5, <1>11 DEF Cipher, layer

\* What is left when a layer that is not the innermost is taken off is well
\* wrapped, and the layer named whom it is for.
LEMMA InnerFacts ==
  ASSUME NEW ct \in Cipher, WellWrapped(ct), Head(ct.layers).ty = "ONION"
  PROVE  /\ Inner(ct) \in Cipher
         /\ WellWrapped(Inner(ct))
         /\ Head(ct.layers).id = IdOf[Head(Inner(ct).layers).key]
         /\ Inner(ct).msg = ct.msg
  <1> DEFINE L == ct.layers
             M == Tail(L)
  <1>1. L \in Seq(Layer) /\ ct.msg \in Msg /\ Len(L) \in Nat /\ Len(L) > 0
    BY DEF Cipher, WellWrapped
  <1>2. Head(L) = L[1]
    BY <1>1
  <1>3. Len(L) > 1
    <2>1. Kind[ct.msg] # "ONION"
      BY <1>1, OnionAssumption
    <2>2. L[Len(L)].ty = Kind[ct.msg]
      BY DEF WellWrapped
    <2> QED
      BY <1>1, <1>2, <2>1, <2>2
  <1>4. /\ M \in Seq(Layer)
        /\ Len(M) = Len(L) - 1
        /\ \A j \in 1 .. Len(M) : M[j] = L[j + 1]
        /\ Head(M) = L[2]
    BY <1>1, <1>3
  <1>5. Inner(ct) = [layers |-> M, msg |-> ct.msg]
    BY DEF Inner
  <1>6. ASSUME NEW j \in 1 .. Len(M) - 1
        PROVE  M[j].ty = "ONION" /\ M[j].id = IdOf[M[j + 1].key]
    <2>1. j + 1 \in 1 .. Len(L) - 1 /\ M[j] = L[j + 1] /\ M[j + 1] = L[(j + 1) + 1]
      BY <1>1, <1>4
    <2> QED
      BY <2>1 DEF WellWrapped
  <1>7. M[Len(M)] = L[Len(L)]
    BY <1>1, <1>3, <1>4
  <1>8. L[1].id = IdOf[L[2].key]
    BY <1>1, <1>3 DEF WellWrapped
  <1> HIDE DEF M
  <1>9. WellWrapped(Inner(ct))
    BY <1>1, <1>3, <1>4, <1>5, <1>6, <1>7 DEF WellWrapped
  <1> QED
    BY <1>1, <1>2, <1>4, <1>5, <1>8, <1>9 DEF Cipher

-----------------------------------------------------------------------------
(* Steps.                                                                   *)

\* Entries of the directory are never replaced.
DirGrows ==
  \A n \in Node, i \in Id : dir[n][i] # Nobody => dir'[n][i] = dir[n][i]

\* A well-wrapped ciphertext stays so when the directory grows.
LEMMA WrappedStays ==
  ASSUME DirGrows, NEW ct \in Cipher, WellWrapped(ct)
  PROVE  WellWrapped(ct)'
  <1> DEFINE a == Author[ct.msg]
             i == Addressee[ct.msg]
             k == Len(ct.layers)
  <1>1. ct.layers \in Seq(Layer) /\ k \in Nat /\ k > 0 /\ ct.msg \in Msg
    BY DEF Cipher, WellWrapped
  <1>2. ct.layers[k].key \in Node
    <2>1. ct.layers[k] \in Layer
      BY <1>1
    <2> QED
      BY <2>1 DEF Layer
  <1>3. dir[a][i] = ct.layers[k].key
    BY DEF WellWrapped
  <1>4. a \in Node /\ i \in Id
    BY <1>1, OnionAssumption
  <1>5. dir'[a][i] = dir[a][i]
    BY <1>2, <1>3, <1>4, DirectoryAssumption DEF DirGrows
  <1> QED
    BY <1>3, <1>5 DEF WellWrapped

\* Every step lets the directory grow truthfully.
LEMMA DirectoryStep ==
  ASSUME DirTypeOK, DirHonest, [Next]_vars
  PROVE  DirTypeOK' /\ DirHonest' /\ DirGrows
  <1>1. ASSUME NEW n \in Node, NEW m \in Node, LearnUser(n, m)
        PROVE  DirTypeOK' /\ DirHonest' /\ DirGrows
    <2>1. IdOf[m] \in Id
      BY DEF Id
    <2>2. dir[n][IdOf[m]] = Nobody /\ dir' = [dir EXCEPT ![n][IdOf[m]] = m]
      BY <1>1 DEF LearnUser, Learn
    <2> QED
      BY <2>1, <2>2 DEF DirTypeOK, DirHonest, DirGrows
  <1>2. CASE UNCHANGED dir
    BY <1>2 DEF DirTypeOK, DirHonest, DirGrows
  <1> QED
    BY <1>1, <1>2 DEF Next, vars, Leave, Send, SendDirect, WrapBody, PickRelay, LaunchOnion,
      RecvMsgAsync, FailToOpen, Unwrap, Forward, Drop, ShowMessage

\* A packet that is sent is addressed to a process and is the ciphertext given.
LEMMA SentFacts ==
  ASSUME NEW dst \in Node, NEW ct \in Cipher, NEW p \in Sent(dst, ct)
  PROVE  p \in Packet /\ p.dst = dst /\ p.ct = ct
  BY DEF Sent, Packet

\* A routing thread that is not touched stays good, and one that ends is good.
LEMMA JobStays ==
  ASSUME DirGrows, NEW m \in Msg, GoodJob(m), job'[m] = job[m] \/ job'[m] = Done
  PROVE  GoodJob(m)'
  <1>1. CASE job'[m] = job[m]
    <2>1. Author[m] \in Node /\ Addressee[m] \in Id
      BY OnionAssumption
    <2>2. CASE job[m].stage \in {"routing", "wrapping"}
      <3>1. dir'[Author[m]][Addressee[m]] = dir[Author[m]][Addressee[m]]
        BY <2>1, <2>2, DirectoryAssumption DEF GoodJob, DirGrows
      <3>2. CASE job[m].stage = "wrapping"
        <4>1. job[m].onion.data \in Cipher /\ WellWrapped(job[m].onion.data)
          BY <3>2 DEF GoodJob, OnionLayer
        <4>2. WellWrapped(job[m].onion.data)'
          BY <1>1, <4>1, WrappedStays DEF WellWrapped
        <4> QED
          BY <1>1, <2>2, <3>1, <4>2 DEF GoodJob
      <3>3. CASE job[m].stage # "wrapping"
        BY <1>1, <2>2, <3>1, <3>3 DEF GoodJob
      <3> QED
        BY <3>2, <3>3
    <2>3. CASE job[m].stage \notin {"routing", "wrapping"}
      BY <1>1, <2>3 DEF GoodJob
    <2> QED
      BY <2>2, <2>3
  <1>2. CASE job'[m] = Done
    BY <1>2 DEF GoodJob, Done, Thread
  <1> QED
    BY <1>1, <1>2

\* A step keeps OnionInv if it leaves good jobs, and adds to the packets and the
\* receiving threads only well-wrapped ciphertexts.
LEMMA StepKeepsInv ==
  ASSUME OnionInv, [Next]_vars,
         state' \in [Node -> {"up", "left", "crashed"}],
         job' \in [Msg -> Job],
         chat' \in [Node -> [Msg -> Nat]],
         \A m \in Msg : GoodJob(m)',
         \A p \in net' : p \in net \/ (p \in Packet /\ WellWrapped(p.ct)),
         \A t \in task' : t \in task \/ (t \in Task /\ WellWrapped(t.ct))
  PROVE  OnionInv'
  <1>1. DirTypeOK' /\ DirHonest' /\ DirGrows
    BY DirectoryStep DEF OnionInv, TypeOK
  <1>2. \A p \in net' : p \in Packet /\ WellWrapped(p.ct)
    BY DEF OnionInv, TypeOK
  <1>3. \A t \in task' : t \in Task /\ WellWrapped(t.ct)
    BY DEF OnionInv, TypeOK
  <1>4. ASSUME NEW p \in net' PROVE WellWrapped(p.ct)'
    BY <1>1, <1>2, WrappedStays DEF Packet
  <1>5. ASSUME NEW t \in task' PROVE WellWrapped(t.ct)'
    BY <1>1, <1>3, WrappedStays DEF Task
  <1>6. TypeOK'
    BY <1>1, <1>2, <1>3 DEF TypeOK
  <1> QED
    BY <1>1, <1>4, <1>5, <1>6 DEF OnionInv

\* A thread that has ended is one of the states a routing thread can be in.
LEMMA DoneType == Done \in Job
  BY OnionAssumption DEF Done, Thread, Job

\* A process that stops takes threads and packets with it and leaves nothing bad.
LEMMA GoneKeepsInv ==
  ASSUME OnionInv, [Next]_vars, NEW n \in Node, NEW how \in {"left", "crashed"},
         Gone(n, how), chat' = chat
  PROVE  OnionInv'
  <1>1. \A m \in Msg : job'[m] = job[m] \/ job'[m] = Done
    BY DEF Gone
  <1>2. job' \in [Msg -> Job]
    BY DoneType DEF Gone, OnionInv, TypeOK
  <1>3. \A m \in Msg : GoodJob(m)'
    BY <1>1, DirectoryStep, JobStays DEF OnionInv, TypeOK
  <1>4. state' \in [Node -> {"up", "left", "crashed"}]
    BY DEF Gone, OnionInv, TypeOK
  <1>5. net' \subseteq net /\ task' \subseteq task
    BY DEF Gone
  <1> QED
    BY <1>2, <1>3, <1>4, <1>5, StepKeepsInv DEF OnionInv, TypeOK

\* The turns of a routing thread keep it good.
LEMMA SendKeepsInv ==
  ASSUME OnionInv, [Next]_vars, NEW m \in Msg, Send(m)
  PROVE  OnionInv'
  <1> DEFINE rep == dir[Author[m]][Addressee[m]]
             new == Thread("routing", rep, NoOnion, Nobody, 0)
  <1>1. rep \in Node
    <2>1. Author[m] \in Node /\ Addressee[m] \in Id
      BY OnionAssumption
    <2>2. rep \in Node \cup {Nobody}
      BY <2>1 DEF OnionInv, TypeOK, DirTypeOK
    <2> QED
      BY <2>2 DEF Send
  <1>2. new \in Job
    BY <1>1, OnionAssumption DEF Thread, Job
  <1>3. job' = [job EXCEPT ![m] = new] /\ dir' = dir
    BY DEF Send
  <1>4. job' \in [Msg -> Job] /\ job'[m] = new
    BY <1>2, <1>3 DEF OnionInv, TypeOK
  <1>5. GoodJob(m)'
    BY <1>1, <1>3, <1>4 DEF GoodJob, Thread
  <1>6. ASSUME NEW x \in Msg, x # m PROVE GoodJob(x)'
    BY <1>3, <1>6, DirectoryStep, JobStays DEF OnionInv, TypeOK
  <1> QED
    BY <1>4, <1>5, <1>6, StepKeepsInv DEF Send, OnionInv, TypeOK

\* A job is good after a layer has been added for whom the ciphertext is for.
LEMMA NewOnionGood ==
  ASSUME NEW m \in Msg, dir' = dir,
         job'[m].stage = "wrapping",
         job'[m].rep \in Node,
         job'[m].rep = dir[Author[m]][Addressee[m]],
         job'[m].onion \in OnionLayer,
         job'[m].onion.data.msg = m,
         WellWrapped(job'[m].onion.data),
         job'[m].onion.id = IdOf[Head(job'[m].onion.data.layers).key],
         job'[m].hops > 0 => job'[m].prev \in Node
  PROVE  GoodJob(m)'
  <1>1. WellWrapped(job[m].onion.data)'
    BY DEF WellWrapped
  <1> QED
    BY <1>1 DEF GoodJob

\* The first layer, for the addressee, makes a good job.
LEMMA WrapBodyKeepsInv ==
  ASSUME OnionInv, [Next]_vars, NEW m \in Msg, WrapBody(m)
  PROVE  OnionInv'
  <1> DEFINE rep   == job[m].rep
             onion == AddLayer(Body(m, rep), rep)
             new   == Thread("wrapping", rep, onion, Nobody, 0)
  <1>1. rep \in Node /\ rep = dir[Author[m]][Addressee[m]]
    BY DEF WrapBody, OnionInv, GoodJob
  <1>2. /\ Body(m, rep) \in Cipher /\ WellWrapped(Body(m, rep))
        /\ Head(Body(m, rep).layers).key = rep /\ Body(m, rep).msg = m
    BY <1>1, BodyFacts
  <1>3. /\ onion \in OnionLayer
        /\ onion.data = Body(m, rep) /\ onion.id = IdOf[rep]
    BY <1>1, <1>2 DEF AddLayer, OnionLayer, Id
  <1> HIDE DEF onion
  <1>4. new \in Job
    BY <1>1, <1>3, OnionAssumption DEF Thread, Job
  <1>5. job' = [job EXCEPT ![m] = new] /\ dir' = dir
    BY DEF WrapBody, onion
  <1>6. job' \in [Msg -> Job] /\ job'[m] = new
    BY <1>4, <1>5 DEF OnionInv, TypeOK
  <1>7. GoodJob(m)'
    <2>1. /\ job'[m].stage = "wrapping" /\ job'[m].rep = rep
          /\ job'[m].onion = onion /\ job'[m].hops = 0
      BY <1>6 DEF Thread
    <2>2. ~ (job'[m].hops > 0)
      BY <2>1
    <2> HIDE DEF rep
    <2> QED
      BY <1>1, <1>2, <1>3, <1>5, <2>1, <2>2, NewOnionGood
  <1>8. ASSUME NEW x \in Msg, x # m PROVE GoodJob(x)'
    BY <1>5, <1>8, DirectoryStep, JobStays DEF OnionInv, TypeOK
  <1> QED
    BY <1>6, <1>7, <1>8, StepKeepsInv DEF WrapBody, OnionInv, TypeOK

\* A turn of the loop puts one more layer around a good job, and keeps it good.
LEMMA PickRelayKeepsInv ==
  ASSUME OnionInv, [Next]_vars, NEW m \in Msg, PickRelay(m)
  PROVE  OnionInv'
  <1>1. PICK nrep \in KnownNodes(Author[m]) :
          job' = [job EXCEPT ![m] =
            Thread("wrapping", job[m].rep, AddLayer(Serialize(job[m].onion, nrep), nrep),
                   nrep, job[m].hops + 1)]
    BY DEF PickRelay
  <1> DEFINE old   == job[m].onion
             onion == AddLayer(Serialize(old, nrep), nrep)
             new   == Thread("wrapping", job[m].rep, onion, nrep, job[m].hops + 1)
  <1>2. nrep \in Node
    BY OnionAssumption DEF KnownNodes, KnownIds, OnionInv, TypeOK, DirTypeOK
  <1>3. /\ old \in OnionLayer /\ old.data.msg = m /\ WellWrapped(old.data)
        /\ old.id = IdOf[Head(old.data.layers).key]
        /\ job[m].rep \in Node /\ job[m].rep = dir[Author[m]][Addressee[m]]
    BY DEF PickRelay, OnionInv, GoodJob
  <1>4. /\ Serialize(old, nrep) \in Cipher /\ WellWrapped(Serialize(old, nrep))
        /\ Head(Serialize(old, nrep).layers).key = nrep
        /\ Serialize(old, nrep).msg = m
    BY <1>2, <1>3, SerializeFacts
  <1>5. /\ onion \in OnionLayer
        /\ onion.data = Serialize(old, nrep) /\ onion.id = IdOf[nrep]
    BY <1>2, <1>4 DEF AddLayer, OnionLayer, Id
  <1> HIDE DEF onion
  <1>6. job[m].hops + 1 \in 0 .. MaxHops /\ job[m].hops + 1 > 0
    BY OnionAssumption DEF PickRelay, MayPickRelay, OnionInv, TypeOK, Job
  <1>7. new \in Job
    BY <1>2, <1>3, <1>5, <1>6 DEF Thread, Job
  <1>8. job' = [job EXCEPT ![m] = new] /\ dir' = dir
    BY <1>1 DEF PickRelay, onion
  <1>9. job' \in [Msg -> Job] /\ job'[m] = new
    BY <1>7, <1>8 DEF OnionInv, TypeOK
  <1>10. GoodJob(m)'
    <2>1. /\ job'[m].stage = "wrapping" /\ job'[m].rep = job[m].rep
          /\ job'[m].onion = onion /\ job'[m].prev = nrep
      BY <1>9 DEF Thread
    <2> HIDE DEF old
    <2> QED
      BY <1>2, <1>3, <1>4, <1>5, <1>8, <2>1, NewOnionGood
  <1>11. ASSUME NEW x \in Msg, x # m PROVE GoodJob(x)'
    BY <1>8, <1>11, DirectoryStep, JobStays DEF OnionInv, TypeOK
  <1> QED
    BY <1>9, <1>10, <1>11, StepKeepsInv DEF PickRelay, OnionInv, TypeOK

\* Handing the ciphertext over ends the routing thread.
LEMMA SendDirectKeepsInv ==
  ASSUME OnionInv, [Next]_vars, NEW m \in Msg, SendDirect(m)
  PROVE  OnionInv'
  <1> DEFINE rep == job[m].rep
  <1>1. rep \in Node /\ rep = dir[Author[m]][Addressee[m]]
    BY DEF SendDirect, OnionInv, GoodJob
  <1>2. Body(m, rep) \in Cipher /\ WellWrapped(Body(m, rep))
    BY <1>1, BodyFacts
  <1>3. job' = [job EXCEPT ![m] = Done] /\ net' = net \cup Sent(rep, Body(m, rep))
    BY DEF SendDirect
  <1>4. ASSUME NEW p \in Sent(rep, Body(m, rep))
        PROVE  p \in Packet /\ WellWrapped(p.ct)
    BY <1>1, <1>2, <1>4, SentFacts
  <1> HIDE DEF rep
  <1>5. \A x \in Msg : job'[x] = job[x] \/ job'[x] = Done
    BY <1>3 DEF OnionInv, TypeOK
  <1>6. \A x \in Msg : GoodJob(x)'
    BY <1>5, DirectoryStep, JobStays DEF OnionInv, TypeOK
  <1>7. job' \in [Msg -> Job]
    BY <1>3, DoneType DEF OnionInv, TypeOK
  <1> QED
    BY <1>3, <1>4, <1>6, <1>7, StepKeepsInv DEF SendDirect, OnionInv, TypeOK

\* What the loop leaves is sent with one more layer for the relay picked last.
LEMMA LaunchOnionKeepsInv ==
  ASSUME OnionInv, [Next]_vars, NEW m \in Msg, LaunchOnion(m)
  PROVE  OnionInv'
  <1> DEFINE rep == job[m].prev
             ct  == Serialize(job[m].onion, rep)
  <1>1. /\ rep \in Node /\ job[m].onion \in OnionLayer
        /\ WellWrapped(job[m].onion.data)
        /\ job[m].onion.id = IdOf[Head(job[m].onion.data.layers).key]
    BY DEF LaunchOnion, OnionInv, GoodJob
  <1>2. ct \in Cipher /\ WellWrapped(ct)
    BY <1>1, SerializeFacts
  <1>3. job' = [job EXCEPT ![m] = Done] /\ net' = net \cup Sent(rep, ct)
    BY DEF LaunchOnion, FirstHop
  <1> HIDE DEF ct
  <1>4. ASSUME NEW p \in Sent(rep, ct)
        PROVE  p \in Packet /\ WellWrapped(p.ct)
    BY <1>1, <1>2, <1>4, SentFacts
  <1>5. \A x \in Msg : job'[x] = job[x] \/ job'[x] = Done
    BY <1>3 DEF OnionInv, TypeOK
  <1>6. \A x \in Msg : GoodJob(x)'
    BY <1>5, DirectoryStep, JobStays DEF OnionInv, TypeOK
  <1>7. job' \in [Msg -> Job]
    BY <1>3, DoneType DEF OnionInv, TypeOK
  <1> QED
    BY <1>3, <1>4, <1>6, <1>7, StepKeepsInv DEF LaunchOnion, OnionInv, TypeOK

\* What is received is what was sent.
LEMMA RecvKeepsInv ==
  ASSUME OnionInv, [Next]_vars, NEW p \in net, RecvMsgAsync(p)
  PROVE  OnionInv'
  <1>1. \A x \in Msg : GoodJob(x)'
    BY DirectoryStep, JobStays DEF OnionInv, TypeOK, RecvMsgAsync
  <1>2. [at |-> p.dst, ct |-> p.ct] \in Task /\ WellWrapped(p.ct)
    BY DEF OnionInv, TypeOK, Packet, Task
  <1> QED
    BY <1>1, <1>2, StepKeepsInv DEF OnionInv, TypeOK, RecvMsgAsync

\* Opening a layer passes on the well-wrapped rest, or nothing.
LEMMA UnwrapKeepsInv ==
  ASSUME OnionInv, [Next]_vars, NEW t \in task, Unwrap(t)
  PROVE  OnionInv'
  <1>1. \A x \in Msg : GoodJob(x)'
    BY DirectoryStep, JobStays DEF OnionInv, TypeOK, Unwrap
  <1>2. t \in Task /\ t.ct \in Cipher /\ WellWrapped(t.ct)
    BY DEF OnionInv, TypeOK, Task
  <1>3. Inner(t.ct) \in Cipher /\ WellWrapped(Inner(t.ct))
    BY <1>2, InnerFacts DEF Unwrap
  <1>4. [at |-> t.at, ct |-> Inner(t.ct)] \in Task
    BY <1>2, <1>3 DEF Task
  <1> QED
    BY <1>1, <1>3, <1>4, StepKeepsInv DEF OnionInv, TypeOK, Unwrap

\* A relay passes on the ciphertext in the layer, which is well wrapped.
LEMMA ForwardKeepsInv ==
  ASSUME OnionInv, [Next]_vars, NEW t \in task, Forward(t)
  PROVE  OnionInv'
  <1> DEFINE rep == dir[t.at][Head(t.ct.layers).id]
  <1>1. \A x \in Msg : GoodJob(x)'
    BY DirectoryStep, JobStays DEF OnionInv, TypeOK, Forward
  <1>2. t \in Task /\ t.ct \in Cipher /\ WellWrapped(t.ct)
    BY DEF OnionInv, TypeOK, Task
  <1>3. Inner(t.ct) \in Cipher /\ WellWrapped(Inner(t.ct))
    BY <1>2, InnerFacts DEF Forward
  <1>4. rep \in Node
    <2>1. t.ct.layers \in Seq(Layer) /\ t.ct.layers # << >>
      BY <1>2 DEF Cipher, WellWrapped
    <2>2. Head(t.ct.layers) \in Layer
      BY <2>1
    <2>3. rep \in Node \cup {Nobody}
      BY <1>2, <2>2 DEF Layer, Task, OnionInv, TypeOK, DirTypeOK
    <2> QED
      BY <2>3 DEF Forward
  <1>5. ASSUME NEW p \in Sent(rep, Inner(t.ct))
        PROVE  p \in Packet /\ WellWrapped(p.ct)
    BY <1>3, <1>4, <1>5, SentFacts
  <1>6. net' = net \cup Sent(rep, Inner(t.ct)) /\ task' = task \ {t}
    BY DEF Forward
  <1> HIDE DEF rep
  <1> QED
    BY <1>1, <1>5, <1>6, StepKeepsInv DEF OnionInv, TypeOK, Forward

\* A relay that knows nobody by the name in the layer only loses a thread.
LEMMA DropKeepsInv ==
  ASSUME OnionInv, [Next]_vars, NEW t \in task, Drop(t)
  PROVE  OnionInv'
  <1>1. \A x \in Msg : GoodJob(x)'
    BY DirectoryStep, JobStays DEF OnionInv, TypeOK, Drop
  <1> QED
    BY <1>1, StepKeepsInv DEF OnionInv, TypeOK, Drop

\* So does the addressee, which shows the message.
LEMMA ShowMessageKeepsInv ==
  ASSUME OnionInv, [Next]_vars, NEW t \in task, ShowMessage(t)
  PROVE  OnionInv'
  <1>1. \A x \in Msg : GoodJob(x)'
    BY DirectoryStep, JobStays DEF OnionInv, TypeOK, ShowMessage
  <1>2. t.at \in Node /\ t.ct.msg \in Msg
    BY DEF OnionInv, TypeOK, Task, Cipher
  <1>3. chat' \in [Node -> [Msg -> Nat]]
    BY <1>2 DEF OnionInv, TypeOK, ShowMessage
  <1> QED
    BY <1>1, <1>3, StepKeepsInv DEF OnionInv, TypeOK, ShowMessage

-----------------------------------------------------------------------------
(* The theorems a reader should know.                                       *)

\* The inductive invariant holds of every reachable state.
THEOREM OnionInvariant == Safe => []OnionInv
  <1>1. Init => OnionInv
    <2> SUFFICES ASSUME Init PROVE OnionInv
      OBVIOUS
    <2>1. Idle \in Job /\ Idle.stage = "idle"
      BY OnionAssumption DEF Idle, Thread, Job
    <2>2. TypeOK
      BY <2>1 DEF Init, DirInit, TypeOK, DirTypeOK
    <2>3. DirHonest
      BY DEF Init, DirInit, DirHonest
    <2>4. \A m \in Msg : GoodJob(m)
      BY <2>1 DEF Init, GoodJob
    <2> QED
      BY <2>2, <2>3, <2>4 DEF Init, OnionInv
  <1>2. OnionInv /\ [Next]_vars => OnionInv'
    <2> SUFFICES ASSUME OnionInv, [Next]_vars PROVE OnionInv'
      OBVIOUS
    <2>0. ASSUME job' = job, net' = net, task' = task, state' = state, chat' = chat
          PROVE  OnionInv'
      <3>1. \A x \in Msg : GoodJob(x)'
        BY <2>0, DirectoryStep, JobStays DEF OnionInv, TypeOK
      <3> QED
        BY <2>0, <3>1, StepKeepsInv DEF OnionInv, TypeOK
    <2>1. ASSUME NEW n \in Node, NEW m \in Node, LearnUser(n, m)
          PROVE  OnionInv'
      BY <2>0, <2>1 DEF LearnUser
    <2>2. ASSUME NEW n \in Node, Leave(n)
          PROVE  OnionInv'
      BY <2>2, GoneKeepsInv DEF Leave
    <2>3. ASSUME NEW m \in Msg,
                 Send(m) \/ SendDirect(m) \/ WrapBody(m) \/ PickRelay(m) \/ LaunchOnion(m)
          PROVE  OnionInv'
      BY <2>3, SendKeepsInv, SendDirectKeepsInv, WrapBodyKeepsInv, PickRelayKeepsInv,
         LaunchOnionKeepsInv
    <2>4. ASSUME NEW p \in net, RecvMsgAsync(p)
          PROVE  OnionInv'
      BY <2>4, RecvKeepsInv
    <2>5. ASSUME NEW t \in task, FailToOpen(t)
          PROVE  OnionInv'
      <3>1. t.at \in Node
        BY DEF OnionInv, TypeOK, Task
      <3> QED
        BY <2>5, <3>1, GoneKeepsInv DEF FailToOpen
    <2>6. ASSUME NEW t \in task, Unwrap(t) \/ Forward(t) \/ Drop(t) \/ ShowMessage(t)
          PROVE  OnionInv'
      BY <2>6, UnwrapKeepsInv, ForwardKeepsInv, DropKeepsInv, ShowMessageKeepsInv
    <2>7. CASE UNCHANGED vars
      BY <2>0, <2>7 DEF vars
    <2> QED
      BY <2>1, <2>2, <2>3, <2>4, <2>5, <2>6, <2>7 DEF Next
  <1> QED
    BY <1>1, <1>2, PTL DEF Safe

\* Every variable stays in its set.
THEOREM OnionTypeCorrect == Safe => []TypeOK
  BY OnionInvariant, PTL DEF OnionInv

\* Whatever AddLayer, Serialize and Relay do on whatever route, each layer names
\* whom the next is for, and the innermost is for the sender's addressee.
THEOREM OnionLayersCorrect == Safe => []OnionsWellWrapped
  <1>1. OnionInv => OnionsWellWrapped
    BY DEF OnionInv, OnionsWellWrapped, GoodJob
  <1> QED
    BY <1>1, OnionInvariant, PTL

\* A message is shown only where its sender had its addressee registered, even if
\* ids are shared and relays pass layers on to the wrong process.
THEOREM OnionOnlyAddressee == Safe => []OnlyAddressee
  <1>1. Init => OnlyAddressee
    BY DEF Init, OnlyAddressee
  <1>2. OnionInv /\ OnlyAddressee /\ [Next]_vars => OnlyAddressee'
    <2> SUFFICES ASSUME OnionInv, OnlyAddressee, [Next]_vars,
                        NEW m \in Msg, NEW n \in Node, chat'[n][m] > 0
                 PROVE  IdOf[n] = Addressee[m] /\ dir'[Author[m]][Addressee[m]] = n
      BY DEF OnlyAddressee
    <2>1. Author[m] \in Node /\ Addressee[m] \in Id
      BY OnionAssumption
    <2>2. DirGrows
      BY DirectoryStep DEF OnionInv, TypeOK
    <2>3. CASE chat[n][m] > 0
      <3>1. IdOf[n] = Addressee[m] /\ dir[Author[m]][Addressee[m]] = n
        BY <2>3 DEF OnlyAddressee
      <3> QED
        BY <2>1, <2>2, <3>1, DirectoryAssumption DEF DirGrows
    <2>4. ASSUME NEW t \in task, ShowMessage(t), t.at = n, t.ct.msg = m
          PROVE  IdOf[n] = Addressee[m] /\ dir'[Author[m]][Addressee[m]] = n
      <3> DEFINE L == t.ct.layers
      <3>1. L \in Seq(Layer) /\ Len(L) \in Nat /\ Len(L) > 0 /\ WellWrapped(t.ct)
        BY DEF OnionInv, TypeOK, Task, Cipher, WellWrapped
      <3>2. Head(L) = L[1]
        BY <3>1
      <3>3. L[1].key = n /\ L[1].ty # "ONION"
        BY <2>4, <3>2 DEF ShowMessage, CanOpen
      <3>4. Len(L) = 1
        <4> DEFINE k == Len(L)
        <4>0. k \in Nat /\ k > 0
          BY <3>1
        <4> HIDE DEF k
        <4>1. ASSUME k # 1
              PROVE  1 \in 1 .. k - 1
          BY <4>0, <4>1
        <4>2. \A j \in 1 .. Len(L) - 1 : L[j].ty = "ONION"
          BY <3>1 DEF WellWrapped
        <4> HIDE DEF L
        <4> QED
          BY <3>3, <4>1, <4>2 DEF k
      <3>5. dir[Author[m]][Addressee[m]] = n
        BY <2>4, <3>1, <3>3, <3>4 DEF WellWrapped
      <3> QED
        BY <2>1, <2>4, <3>5, DirectoryAssumption DEF ShowMessage, OnionInv, DirHonest
    <2>5. chat'[n][m] = chat[n][m] \/ \E t \in task : ShowMessage(t) /\ t.at = n /\ t.ct.msg = m
      <3>1. ASSUME NEW t \in task, ShowMessage(t)
            PROVE  chat'[n][m] = chat[n][m] \/ (t.at = n /\ t.ct.msg = m)
        BY <3>1 DEF ShowMessage, OnionInv, TypeOK
      <3>2. CASE chat' = chat
        BY <3>2
      <3> QED
        BY <3>1, <3>2 DEF Next, vars, LearnUser, Leave, Send, SendDirect, WrapBody,
          PickRelay, LaunchOnion, RecvMsgAsync, FailToOpen, Unwrap, Forward, Drop
    <2> QED
      BY <2>3, <2>4, <2>5
  <1> QED
    BY <1>1, <1>2, OnionInvariant, PTL DEF Safe

\* When no two users go by the same id, no message makes a process terminate: each
\* packet is for the process it is handed to, whoever relays it.
THEOREM OnionNobodyCrashes ==
  ASSUME \A n, m \in Node : IdOf[n] = IdOf[m] => n = m
  PROVE  Safe => []NobodyCrashes
  <1> DEFINE Handed == /\ \A p \in net : CanOpen(p.dst, p.ct)
                       /\ \A t \in task : CanOpen(t.at, t.ct)
             Inv    == Handed /\ NobodyCrashes
  <1>1. Init => Inv
    BY DEF Init, NobodyCrashes
  <1>2. OnionInv /\ Inv /\ [Next]_vars => Inv'
    <2> SUFFICES ASSUME OnionInv, Inv, [Next]_vars PROVE Inv'
      OBVIOUS
    <2> USE DEF CanOpen
    <2>0. ASSUME NEW dst \in Node, NEW ct \in Cipher, CanOpen(dst, ct),
                 net' = net \cup Sent(dst, ct), task' \subseteq task, state' = state
          PROVE  Inv'
      BY <2>0, SentFacts DEF NobodyCrashes
    <2>1. ASSUME net' \subseteq net, task' \subseteq task, state' = state
          PROVE  Inv'
      BY <2>1 DEF NobodyCrashes
    <2>2. ASSUME NEW n \in Node, Leave(n)
          PROVE  Inv'
      BY <2>2 DEF Leave, Gone, NobodyCrashes, OnionInv, TypeOK
    <2>3. ASSUME NEW m \in Msg, SendDirect(m)
          PROVE  Inv'
      <3>1. job[m].rep \in Node /\ job[m].rep = dir[Author[m]][Addressee[m]]
        BY <2>3 DEF SendDirect, OnionInv, GoodJob
      <3>2. /\ Body(m, job[m].rep) \in Cipher
            /\ Head(Body(m, job[m].rep).layers).key = job[m].rep
        BY <3>1, BodyFacts
      <3> QED
        BY <2>0, <2>3, <3>1, <3>2 DEF SendDirect
    <2>4. ASSUME NEW m \in Msg, LaunchOnion(m)
          PROVE  Inv'
      <3>1. /\ job[m].prev \in Node /\ job[m].onion \in OnionLayer
            /\ WellWrapped(job[m].onion.data)
            /\ job[m].onion.id = IdOf[Head(job[m].onion.data.layers).key]
        BY <2>4 DEF LaunchOnion, OnionInv, GoodJob
      <3>2. /\ Serialize(job[m].onion, job[m].prev) \in Cipher
            /\ Head(Serialize(job[m].onion, job[m].prev).layers).key = job[m].prev
        BY <3>1, SerializeFacts
      <3> QED
        BY <2>0, <2>4, <3>1, <3>2 DEF LaunchOnion, FirstHop
    <2>5. ASSUME NEW p \in net, RecvMsgAsync(p)
          PROVE  Inv'
      BY <2>5 DEF RecvMsgAsync, NobodyCrashes
    <2>6. ASSUME NEW t \in task, FailToOpen(t)
          PROVE  FALSE
      BY <2>6 DEF FailToOpen
    <2>7. ASSUME NEW t \in task, Unwrap(t) \/ Forward(t)
          PROVE  /\ t.at \in Node /\ Inner(t.ct) \in Cipher
                 /\ Head(t.ct.layers) \in Layer
                 /\ Head(Inner(t.ct).layers).key \in Node
                 /\ Head(t.ct.layers).id = IdOf[Head(Inner(t.ct).layers).key]
      <3>1. t \in Task /\ t.ct \in Cipher /\ WellWrapped(t.ct)
        BY DEF OnionInv, TypeOK, Task
      <3>2. /\ Inner(t.ct) \in Cipher /\ WellWrapped(Inner(t.ct))
            /\ Head(t.ct.layers).id = IdOf[Head(Inner(t.ct).layers).key]
        BY <2>7, <3>1, InnerFacts DEF Unwrap, Forward
      <3>3. ASSUME NEW ct \in Cipher, WellWrapped(ct)
            PROVE  Head(ct.layers) \in Layer
        <4>1. ct.layers \in Seq(Layer) /\ ct.layers # << >>
          BY <3>3 DEF Cipher, WellWrapped
        <4> QED
          BY <4>1
      <3>4. Head(t.ct.layers) \in Layer /\ Head(Inner(t.ct).layers) \in Layer
        BY <3>1, <3>2, <3>3
      <3> QED
        BY <3>1, <3>2, <3>4 DEF Layer, Task
    <2>8. ASSUME NEW t \in task, Unwrap(t)
          PROVE  Inv'
      <3>1. CanOpen(t.at, Inner(t.ct))
        BY <2>7, <2>8 DEF Unwrap, ForMe
      <3> QED
        BY <2>8, <3>1 DEF Unwrap, NobodyCrashes
    <2>9. ASSUME NEW t \in task, Forward(t)
          PROVE  Inv'
      <3> DEFINE id  == Head(t.ct.layers).id
                 rep == dir[t.at][id]
      <3>1. id \in Id /\ rep # Nobody
        BY <2>7, <2>9 DEF Forward, Layer
      <3>2. rep \in Node /\ IdOf[rep] = id
        <4> HIDE DEF id
        <4>1. rep \in Node \cup {Nobody}
          BY <2>7, <2>9, <3>1 DEF OnionInv, TypeOK, DirTypeOK
        <4> QED
          BY <2>7, <2>9, <3>1, <4>1 DEF OnionInv, DirHonest
      <3>3. CanOpen(rep, Inner(t.ct))
        <4> DEFINE k == Head(Inner(t.ct).layers).key
        <4>1. k \in Node /\ id = IdOf[k]
          BY <2>7, <2>9
        <4> HIDE DEF k, rep, id
        <4>2. k = rep
          BY <3>2, <4>1
        <4> QED
          BY <4>2 DEF k
      <3>4. net' = net \cup Sent(rep, Inner(t.ct)) /\ task' = task \ {t} /\ state' = state
        BY <2>9 DEF Forward
      <3>5. task' \subseteq task
        BY <3>4
      <3>6. Inner(t.ct) \in Cipher
        BY <2>7, <2>9
      <3> HIDE DEF rep, id, Inv, Handed, CanOpen
      <3> QED
        BY <2>0, <3>2, <3>3, <3>4, <3>5, <3>6
    <2> QED
      BY <2>1, <2>2, <2>3, <2>4, <2>5, <2>6, <2>8, <2>9
      DEF Next, vars, LearnUser, Send, WrapBody, PickRelay, Drop, ShowMessage
  <1> QED
    BY <1>1, <1>2, OnionInvariant, PTL DEF Safe

-----------------------------------------------------------------------------
(* One copy of each message, and what becomes of it.                        *)

Pending(m) == job[m].stage \in {"routing", "wrapping"}
Unsent(m)  == job[m].stage = "idle" \/ Pending(m)
Flies(m)   == \E p \in net : p.ct.msg = m
Opens(m)   == \E t \in task : t.ct.msg = m
Shown(m)   == \E n \in Node : chat[n][m] > 0

\* A message is with its routing thread, or in one packet, or in one receiving thread,
\* or shown, at one process and once; or nowhere any more.
Single ==
  /\ \A m \in Msg : Unsent(m) => ~ Flies(m) /\ ~ Opens(m) /\ ~ Shown(m)
  /\ \A p \in net : ~ Opens(p.ct.msg) /\ ~ Shown(p.ct.msg)
  /\ \A t \in task : ~ Shown(t.ct.msg)
  /\ \A p, q \in net : p.ct.msg = q.ct.msg => p = q
  /\ \A t, u \in task : t.ct.msg = u.ct.msg => t = u
  /\ \A m \in Msg, n \in Node : chat[n][m] <= 1
  /\ \A m \in Msg, n, k \in Node : chat[n][m] > 0 /\ chat[k][m] > 0 => n = k

\* Steps that lose messages, or only change what a routing thread has.
LEMMA LosingIsSingle ==
  ASSUME Single, chat' = chat, net' \subseteq net, task' \subseteq task,
         \A m \in Msg : Unsent(m)' => Unsent(m)
  PROVE  Single'
  BY DEF Single, Flies, Opens, Shown

\* A packet that replaces the routing thread of its message, or is lost.
LEMMA LaunchIsSingle ==
  ASSUME Single, NEW m \in Msg, Pending(m), NEW p, p.ct.msg = m,
         chat' = chat, task' = task, net' \subseteq net \cup {p}, ~ Unsent(m)',
         \A x \in Msg \ {m} : job'[x] = job[x]
  PROVE  Single'
  <1>1. ~ Flies(m) /\ ~ Opens(m) /\ ~ Shown(m)
    BY DEF Single, Unsent
  <1>2. \A q \in net' : q = p \/ (q \in net /\ q.ct.msg # m)
    BY <1>1 DEF Flies
  <1>3. \A x \in Msg : Unsent(x)' => Unsent(x) /\ x # m
    BY DEF Unsent, Pending
  <1>4. \A x \in Msg \ {m} : Flies(x)' => Flies(x)
    BY <1>2 DEF Flies
  <1>5. \A x \in Msg : Unsent(x)' => ~ Flies(x)' /\ ~ Opens(x)' /\ ~ Shown(x)'
    BY <1>3, <1>4 DEF Single, Opens, Shown
  <1>6. \A q \in net' : ~ Opens(q.ct.msg)' /\ ~ Shown(q.ct.msg)'
    BY <1>1, <1>2 DEF Single, Opens, Shown
  <1>7. \A q, r \in net' : q.ct.msg = r.ct.msg => q = r
    BY <1>2 DEF Single
  <1> QED
    BY <1>5, <1>6, <1>7 DEF Single, Shown

\* A receiving thread that replaces the packet of its message.
LEMMA RecvIsSingle ==
  ASSUME OnionInv, Single, NEW p \in net, RecvMsgAsync(p)
  PROVE  Single'
  <1> DEFINE new == [at |-> p.dst, ct |-> p.ct]
             m   == p.ct.msg
  <1>1. /\ net' = net \ {p} /\ task' = task \cup {new} /\ job' = job /\ chat' = chat
        /\ new.ct.msg = m /\ m \in Msg
    BY DEF RecvMsgAsync, OnionInv, TypeOK, Packet, Cipher
  <1>2. ~ Opens(m) /\ ~ Shown(m) /\ ~ Unsent(m)
    BY <1>1 DEF Single, Flies
  <1> HIDE DEF new
  <1>3. \A q \in net' : q \in net /\ q.ct.msg # m
    BY <1>1 DEF Single
  <1>4. \A t \in task' : t = new \/ (t \in task /\ t.ct.msg # m)
    BY <1>1, <1>2 DEF Opens
  <1>5. \A x \in Msg : Unsent(x)' => Unsent(x) /\ x # m
    BY <1>1, <1>2 DEF Unsent, Pending
  <1>6. \A x : x # m /\ Opens(x)' => Opens(x)
    BY <1>1, <1>4 DEF Opens
  <1>7. \A x \in Msg : Unsent(x)' => ~ Flies(x)' /\ ~ Opens(x)' /\ ~ Shown(x)'
    BY <1>1, <1>3, <1>5, <1>6 DEF Single, Flies, Shown
  <1>8. \A q \in net' : ~ Opens(q.ct.msg)' /\ ~ Shown(q.ct.msg)'
    BY <1>1, <1>3, <1>6 DEF Single, Shown
  <1>9. \A t, u \in task' : t.ct.msg = u.ct.msg => t = u
    BY <1>1, <1>4 DEF Single
  <1>10. \A t \in task' : ~ Shown(t.ct.msg)'
    BY <1>1, <1>2, <1>4 DEF Single, Shown
  <1>11. \A q, r \in net' : q.ct.msg = r.ct.msg => q = r
    BY <1>3 DEF Single
  <1> QED
    BY <1>1, <1>7, <1>8, <1>9, <1>10, <1>11 DEF Single, Shown

\* A receiving thread that goes on with the next layer.
LEMMA UnwrapIsSingle ==
  ASSUME OnionInv, Single, NEW t \in task, Unwrap(t)
  PROVE  Single'
  <1> DEFINE new == [at |-> t.at, ct |-> Inner(t.ct)]
             m   == t.ct.msg
  <1>1. /\ net' = net /\ task' = (task \ {t}) \cup {new} /\ job' = job /\ chat' = chat
        /\ new.ct.msg = m /\ m \in Msg
    BY DEF Unwrap, Inner, OnionInv, TypeOK, Task, Cipher
  <1> HIDE DEF new
  <1>2. \A u \in task' : u = new \/ (u \in task /\ u.ct.msg # m)
    BY <1>1 DEF Single
  <1>3. \A x : Opens(x)' <=> Opens(x)
    BY <1>1 DEF Opens
  <1>4. \A u, v \in task' : u.ct.msg = v.ct.msg => u = v
    BY <1>1, <1>2 DEF Single
  <1>5. \A u \in task' : ~ Shown(u.ct.msg)'
    BY <1>1, <1>2 DEF Single, Shown
  <1> QED
    BY <1>1, <1>3, <1>4, <1>5 DEF Single, Unsent, Pending, Flies, Shown

\* A packet that replaces a receiving thread, or is lost.
LEMMA ForwardIsSingle ==
  ASSUME OnionInv, Single, NEW t \in task, Forward(t)
  PROVE  Single'
  <1> DEFINE rep == dir[t.at][Head(t.ct.layers).id]
             new == [dst |-> rep, ct |-> Inner(t.ct)]
             m   == t.ct.msg
  <1>1. /\ net' \subseteq net \cup {new} /\ task' = task \ {t} /\ job' = job /\ chat' = chat
        /\ new.ct.msg = m /\ m \in Msg
    BY DEF Forward, Sent, Inner, OnionInv, TypeOK, Task, Cipher
  <1> HIDE DEF new
  <1>2. ~ Flies(m) /\ ~ Shown(m) /\ ~ Unsent(m)
    BY <1>1 DEF Single, Flies, Opens
  <1>3. \A q \in net' : q = new \/ (q \in net /\ q.ct.msg # m)
    BY <1>1, <1>2 DEF Flies
  <1>4. \A u \in task' : u \in task /\ u.ct.msg # m
    BY <1>1 DEF Single
  <1>5. \A x \in Msg : Unsent(x)' => Unsent(x) /\ x # m
    BY <1>1, <1>2 DEF Unsent, Pending
  <1>6. \A x : x # m /\ Flies(x)' => Flies(x)
    BY <1>1, <1>3 DEF Flies
  <1>7. \A x \in Msg : Unsent(x)' => ~ Flies(x)' /\ ~ Opens(x)' /\ ~ Shown(x)'
    BY <1>1, <1>4, <1>5, <1>6 DEF Single, Opens, Shown
  <1>8. \A q \in net' : ~ Opens(q.ct.msg)' /\ ~ Shown(q.ct.msg)'
    BY <1>1, <1>2, <1>3, <1>4 DEF Single, Opens, Shown
  <1>9. \A q, r \in net' : q.ct.msg = r.ct.msg => q = r
    BY <1>1, <1>3 DEF Single
  <1>10. /\ \A u \in task' : ~ Shown(u.ct.msg)'
         /\ \A u, v \in task' : u.ct.msg = v.ct.msg => u = v
    BY <1>1, <1>4 DEF Single, Shown
  <1> QED
    BY <1>1, <1>7, <1>8, <1>9, <1>10 DEF Single, Shown

\* A message shown was shown nowhere before.
LEMMA ShowIsSingle ==
  ASSUME OnionInv, Single, NEW t \in task, ShowMessage(t)
  PROVE  Single'
  <1> DEFINE m == t.ct.msg
             n == t.at
  <1>1. /\ net' = net /\ task' = task \ {t} /\ job' = job /\ m \in Msg /\ n \in Node
        /\ chat' = [chat EXCEPT ![n][m] = @ + 1] /\ chat \in [Node -> [Msg -> Nat]]
    BY DEF ShowMessage, OnionInv, TypeOK, Task, Cipher
  <1>2. ~ Flies(m) /\ ~ Shown(m) /\ ~ Unsent(m)
    BY <1>1 DEF Single, Flies, Opens
  <1>3. \A k \in Node, x \in Msg : chat'[k][x] = IF k = n /\ x = m THEN 1 ELSE chat[k][x]
    <2>1. chat[n][m] = 0
      BY <1>1, <1>2 DEF Shown
    <2> QED
      BY <1>1, <2>1
  <1>4. \A x \in Msg \ {m} : Shown(x)' => Shown(x)
    BY <1>3 DEF Shown
  <1>5. \A u \in task' : u \in task /\ u.ct.msg \in Msg \ {m}
    BY <1>1 DEF Single, OnionInv, TypeOK, Task, Cipher
  <1>6. \A q \in net' : q \in net /\ q.ct.msg \in Msg \ {m}
    BY <1>1, <1>2 DEF Flies, OnionInv, TypeOK, Packet, Cipher
  <1>7. \A x \in Msg : Unsent(x)' => ~ Flies(x)' /\ ~ Opens(x)' /\ ~ Shown(x)'
    BY <1>1, <1>2, <1>4, <1>5 DEF Single, Unsent, Pending, Flies, Opens
  <1>8. \A q \in net' : ~ Opens(q.ct.msg)' /\ ~ Shown(q.ct.msg)'
    BY <1>4, <1>5, <1>6 DEF Single, Opens
  <1>9. \A u \in task' : ~ Shown(u.ct.msg)'
    BY <1>4, <1>5 DEF Single
  <1>10. \A x \in Msg, k \in Node : chat'[k][x] <= 1
    BY <1>3 DEF Single
  <1>11. \A x \in Msg, k, l \in Node : chat'[k][x] > 0 /\ chat'[l][x] > 0 => k = l
    BY <1>2, <1>3 DEF Single, Shown
  <1>12. /\ \A q, r \in net' : q.ct.msg = r.ct.msg => q = r
         /\ \A u, v \in task' : u.ct.msg = v.ct.msg => u = v
    BY <1>1, <1>5 DEF Single
  <1> QED
    BY <1>7, <1>8, <1>9, <1>10, <1>11, <1>12 DEF Single

\* What the steps of Next do to Single, one action at a time.
LEMMA RouteIsSingle ==
  ASSUME OnionInv, Single, NEW m \in Msg, Send(m) \/ Route(m)
  PROVE  Single'
  <1>1. job \in [Msg -> Job]
    BY DEF OnionInv, TypeOK
  <1>2. ASSUME NEW stage, NEW x, NEW y, NEW z, NEW k
        PROVE  Thread(stage, x, y, z, k).stage = stage
    BY DEF Thread
  <1>3. CASE Send(m)
    <2>1. \A x \in Msg : Unsent(x)' => Unsent(x)
      BY <1>1, <1>3 DEF Send, Unsent, Pending
    <2> QED
      BY <1>3, <2>1, LosingIsSingle DEF Send
  <1>4. CASE WrapBody(m) \/ PickRelay(m)
    <2>1. \A x \in Msg : Unsent(x)' => Unsent(x)
      BY <1>1, <1>4 DEF WrapBody, PickRelay, Unsent, Pending
    <2> QED
      BY <1>4, <2>1, LosingIsSingle DEF WrapBody, PickRelay
  <1>5. CASE SendDirect(m)
    <2> DEFINE p == [dst |-> job[m].rep, ct |-> Body(m, job[m].rep)]
    <2>1. /\ p.ct.msg = m /\ net' \subseteq net \cup {p} /\ chat' = chat /\ task' = task
          /\ Pending(m) /\ job' = [job EXCEPT ![m] = Done]
      BY <1>5 DEF SendDirect, Sent, Body, Pending
    <2> HIDE DEF p
    <2>2. ~ Unsent(m)' /\ \A x \in Msg \ {m} : job'[x] = job[x]
      BY <1>1, <1>2, <2>1 DEF Unsent, Pending, Done
    <2> QED
      BY <2>1, <2>2, LaunchIsSingle
  <1>6. CASE LaunchOnion(m)
    <2> DEFINE p == [dst |-> FirstHop(m), ct |-> Serialize(job[m].onion, job[m].prev)]
    <2>1. p.ct.msg = m
      BY <1>6 DEF LaunchOnion, Serialize, OnionInv, GoodJob
    <2>2. /\ net' \subseteq net \cup {p} /\ chat' = chat /\ task' = task
          /\ Pending(m) /\ job' = [job EXCEPT ![m] = Done]
      BY <1>6 DEF LaunchOnion, Sent, Pending
    <2> HIDE DEF p
    <2>3. ~ Unsent(m)' /\ \A x \in Msg \ {m} : job'[x] = job[x]
      BY <1>1, <1>2, <2>2 DEF Unsent, Pending, Done
    <2> QED
      BY <2>1, <2>2, <2>3, LaunchIsSingle
  <1> QED
    BY <1>3, <1>4, <1>5, <1>6 DEF Route

\* A process that stops loses messages and shows none.
LEMMA GoneLoses ==
  ASSUME OnionInv, NEW n, NEW how, Gone(n, how)
  PROVE  /\ net' \subseteq net /\ task' \subseteq task
         /\ \A m \in Msg : job'[m] = job[m] \/ (job[m].stage # "idle" /\ job'[m].stage = "done")
  BY DEF Gone, Done, Thread

\* No step makes a second copy of a message.
LEMMA NextIsSingle == OnionInv /\ Single /\ [Next]_vars => Single'
  <1> SUFFICES ASSUME OnionInv, Single, [Next]_vars PROVE Single'
    OBVIOUS
  <1>1. ASSUME NEW n, NEW how, Gone(n, how), chat' = chat PROVE Single'
    <2>1. \A m \in Msg : Unsent(m)' => Unsent(m)
      BY <1>1, GoneLoses DEF Unsent, Pending
    <2> QED
      BY <1>1, <2>1, GoneLoses, LosingIsSingle
  <1>2. ASSUME chat' = chat, net' = net, task' \subseteq task, job' = job PROVE Single'
    BY <1>2, LosingIsSingle DEF Unsent, Pending
  <1>3. CASE \E n \in Node : Leave(n)
    BY <1>1, <1>3 DEF Leave
  <1>4. CASE \E t \in task : FailToOpen(t)
    BY <1>1, <1>4 DEF FailToOpen
  <1>5. CASE UNCHANGED vars \/ (\E n, m \in Node : LearnUser(n, m)) \/ \E t \in task : Drop(t)
    BY <1>2, <1>5 DEF vars, LearnUser, Drop
  <1> QED
    BY <1>3, <1>4, <1>5, RouteIsSingle, RecvIsSingle, UnwrapIsSingle, ForwardIsSingle,
       ShowIsSingle DEF Next, Route

LEMMA InitIsSingle == Init => Single
  BY DEF Init, Idle, Thread, Single, Unsent, Pending, Flies, Opens, Shown

\* Copies, and where a message is shown, in terms of Single.
LEMMA CopiesFacts ==
  ASSUME Single, NEW m \in Msg
  PROVE  /\ Copies(m) = IF Pending(m) \/ Flies(m) \/ Opens(m) THEN 1 ELSE 0
         /\ Shown(m) <=> ShownAt(m) # {}
         /\ Shown(m) => Cardinality(ShownAt(m)) = 1
  <1> DEFINE F == { p \in net : p.ct.msg = m }
             O == { t \in task : t.ct.msg = m }
  <1>1. Cardinality(F) = IF Flies(m) THEN 1 ELSE 0
    <2>1. ~ Flies(m) => F = {}
      BY DEF Flies
    <2>2. ASSUME Flies(m) PROVE \E p : F = {p}
      <3>1. PICK p \in net : p.ct.msg = m
        BY <2>2 DEF Flies
      <3>2. F = {p}
        BY <3>1 DEF Single
      <3> QED
        BY <3>2
    <2> QED
      BY <2>1, <2>2, FS_EmptySet, FS_Singleton
  <1>2. Cardinality(O) = IF Opens(m) THEN 1 ELSE 0
    <2>1. ~ Opens(m) => O = {}
      BY DEF Opens
    <2>2. ASSUME Opens(m) PROVE \E t : O = {t}
      <3>1. PICK t \in task : t.ct.msg = m
        BY <2>2 DEF Opens
      <3>2. O = {t}
        BY <3>1 DEF Single
      <3> QED
        BY <3>2
    <2> QED
      BY <2>1, <2>2, FS_EmptySet, FS_Singleton
  <1>3. /\ Pending(m) => ~ Flies(m) /\ ~ Opens(m)
        /\ Flies(m) => ~ Opens(m)
    BY DEF Single, Unsent, Flies
  <1>4. Copies(m) = (IF Pending(m) THEN 1 ELSE 0) + Cardinality(F) + Cardinality(O)
    BY DEF Copies, Pending
  <1>5. Copies(m) = IF Pending(m) \/ Flies(m) \/ Opens(m) THEN 1 ELSE 0
    <2> HIDE DEF F, O
    <2> QED
      BY <1>1, <1>2, <1>3, <1>4
  <1>6. Shown(m) <=> ShownAt(m) # {}
    BY DEF Shown, ShownAt
  <1>7. Shown(m) => \E n : ShownAt(m) = {n}
    BY DEF Shown, ShownAt, Single
  <1> QED
    BY <1>5, <1>6, <1>7, FS_Singleton

\* What a message has become.
Somewhere(m) == Pending(m) \/ Flies(m) \/ Opens(m)

Became(m) ==
  IF job[m].stage = "idle" THEN "new"
  ELSE IF Somewhere(m) THEN "sent" ELSE IF Shown(m) THEN "shown" ELSE "lost"

LEMMA SingleSays ==
  Single => /\ OneCopy
            /\ \A m \in Msg : Status(m) = Became(m)
            /\ \A m \in Msg : Unsent(m) \/ Somewhere(m) => ~ Shown(m)
  <1> SUFFICES ASSUME Single
               PROVE  /\ OneCopy
                      /\ \A m \in Msg : Status(m) = Became(m)
                      /\ \A m \in Msg : Unsent(m) \/ Somewhere(m) => ~ Shown(m)
    OBVIOUS
  <1>1. \A m \in Msg : Unsent(m) \/ Somewhere(m) => ~ Shown(m)
    BY DEF Single, Unsent, Somewhere, Flies, Opens
  <1>2. \A m \in Msg : Copies(m) = IF Somewhere(m) THEN 1 ELSE 0
    BY CopiesFacts DEF Somewhere
  <1>3. \A m \in Msg : Status(m) = Became(m)
    <2> SUFFICES ASSUME NEW m \in Msg PROVE Status(m) = Became(m)
      OBVIOUS
    <2>1. Shown(m) <=> ShownAt(m) # {}
      BY CopiesFacts
    <2> QED
      BY <1>1, <1>2, <2>1 DEF Status, Became
  <1>4. OneCopy
    BY <1>1, <1>2, CopiesFacts DEF OneCopy, Single
  <1> QED
    BY <1>1, <1>3, <1>4

-----------------------------------------------------------------------------
(* The steps, as Delivery sees them.                                        *)

\* A step that shows nothing and sends nothing new may lose messages.
LEMMA LosingBecomes ==
  ASSUME Single, chat' = chat,
         \A m \in Msg : job'[m].stage = "idle" <=> job[m].stage = "idle",
         \A m \in Msg : Somewhere(m)' => Somewhere(m)
  PROVE  \A m \in Msg : Became(m)' = Became(m) \/ (Became(m) = "sent" /\ Became(m)' = "lost")
  <1> SUFFICES ASSUME NEW m \in Msg
               PROVE  Became(m)' = Became(m) \/ (Became(m) = "sent" /\ Became(m)' = "lost")
    OBVIOUS
  <1>1. Somewhere(m) => ~ Shown(m)
    BY SingleSays
  <1>2. Shown(m)' <=> Shown(m)
    BY DEF Shown
  <1> QED
    BY <1>1, <1>2 DEF Became

LEMMA GoneBecomes ==
  ASSUME OnionInv, Single, NEW n, NEW how, Gone(n, how), chat' = chat
  PROVE  \A m \in Msg : Became(m)' = Became(m) \/ (Became(m) = "sent" /\ Became(m)' = "lost")
  <1>1. \A m \in Msg : job'[m].stage = "idle" <=> job[m].stage = "idle"
    BY GoneLoses
  <1>2. \A m \in Msg : Pending(m)' => Pending(m)
    BY GoneLoses DEF Pending
  <1>3. \A m \in Msg : (Flies(m)' => Flies(m)) /\ (Opens(m)' => Opens(m))
    BY GoneLoses DEF Flies, Opens
  <1> QED
    BY <1>1, <1>2, <1>3, LosingBecomes DEF Somewhere

LEMMA RouteBecomes ==
  ASSUME OnionInv, Single, NEW m \in Msg, Route(m)
  PROVE  \A x \in Msg : Became(x)' = Became(x) \/ (Became(x) = "sent" /\ Became(x)' = "lost")
  <1>1. /\ job \in [Msg -> Job] /\ chat' = chat /\ task' = task /\ Pending(m)
        /\ \E j : j.stage \in {"wrapping", "done"} /\ job' = [job EXCEPT ![m] = j]
    BY DEF Route, SendDirect, WrapBody, PickRelay, LaunchOnion, Pending, Thread, Done, OnionInv,
       TypeOK
  <1>2. \A x \in Msg : job'[x].stage = "idle" <=> job[x].stage = "idle"
    BY <1>1 DEF Pending
  <1>3. \A p \in net' : p \in net \/ p.ct.msg = m
    <2>1. CASE SendDirect(m)
      <3> DEFINE q == [dst |-> job[m].rep, ct |-> Body(m, job[m].rep)]
      <3>1. q.ct.msg = m
        BY DEF Body
      <3>2. net' \subseteq net \cup {q}
        BY <2>1 DEF SendDirect, Sent
      <3> HIDE DEF q
      <3> QED
        BY <3>1, <3>2
    <2>2. CASE LaunchOnion(m)
      <3> DEFINE q == [dst |-> FirstHop(m), ct |-> Serialize(job[m].onion, job[m].prev)]
      <3>1. q.ct.msg = m
        BY <2>2 DEF LaunchOnion, Serialize, OnionInv, GoodJob
      <3>2. net' \subseteq net \cup {q}
        BY <2>2 DEF LaunchOnion, Sent
      <3> HIDE DEF q
      <3> QED
        BY <3>1, <3>2
    <2>3. CASE WrapBody(m) \/ PickRelay(m)
      BY <2>3 DEF WrapBody, PickRelay
    <2> QED
      BY <2>1, <2>2, <2>3 DEF Route
  <1>4. \A x \in Msg : Somewhere(x)' => Somewhere(x)
    <2> SUFFICES ASSUME NEW x \in Msg, Somewhere(x)' PROVE Somewhere(x)
      OBVIOUS
    <2>1. CASE x = m
      BY <1>1, <2>1 DEF Somewhere
    <2>2. CASE x # m
      <3>1. job'[x] = job[x]
        BY <1>1, <2>2
      <3> QED
        BY <1>1, <1>3, <2>2, <3>1 DEF Somewhere, Pending, Flies, Opens
    <2> QED
      BY <2>1, <2>2
  <1> QED
    BY <1>1, <1>2, <1>4, LosingBecomes

\* A packet received, a layer taken off, passed on or dropped.
LEMMA RelayBecomes ==
  ASSUME OnionInv, Single,
         \/ \E p \in net : RecvMsgAsync(p)
         \/ \E t \in task : Unwrap(t) \/ Forward(t) \/ Drop(t)
  PROVE  \A m \in Msg : Became(m)' = Became(m) \/ (Became(m) = "sent" /\ Became(m)' = "lost")
  <1>1. job' = job /\ chat' = chat
    BY DEF RecvMsgAsync, Unwrap, Forward, Drop
  <1>2. ASSUME NEW p \in net, RecvMsgAsync(p), NEW m \in Msg, Somewhere(m)' PROVE Somewhere(m)
    BY <1>1, <1>2 DEF RecvMsgAsync, Somewhere, Pending, Flies, Opens
  <1>3. ASSUME NEW t \in task, Unwrap(t), NEW m \in Msg, Somewhere(m)' PROVE Somewhere(m)
    BY <1>1, <1>3 DEF Unwrap, Inner, Somewhere, Pending, Flies, Opens
  <1>4. ASSUME NEW t \in task, Forward(t), NEW m \in Msg, Somewhere(m)' PROVE Somewhere(m)
    <2> DEFINE q == [dst |-> dir[t.at][Head(t.ct.layers).id], ct |-> Inner(t.ct)]
    <2>3. q.ct.msg = t.ct.msg
      BY DEF Inner
    <2>4. net' \subseteq net \cup {q}
      BY <1>4 DEF Forward, Sent
    <2> HIDE DEF q
    <2>1. \A p \in net' : p \in net \/ p.ct.msg = t.ct.msg
      BY <2>3, <2>4
    <2>2. task' \subseteq task
      BY <1>4 DEF Forward
    <2> QED
      BY <1>1, <1>4, <2>1, <2>2 DEF Somewhere, Pending, Flies, Opens
  <1>5. ASSUME NEW t \in task, Drop(t), NEW m \in Msg, Somewhere(m)' PROVE Somewhere(m)
    BY <1>1, <1>5 DEF Drop, Somewhere, Pending, Flies, Opens
  <1> QED
    BY <1>1, <1>2, <1>3, <1>4, <1>5, LosingBecomes

LEMMA SendBecomes ==
  ASSUME OnionInv, Single, NEW m \in Msg, Send(m)
  PROVE  /\ Became(m) = "new" /\ Became(m)' = "sent"
         /\ \A x \in Msg \ {m} : Became(x)' = Became(x)
  <1>1. job \in [Msg -> Job] /\ job[m].stage = "idle"
    BY DEF OnionInv, TypeOK, Send
  <1>2. /\ job'[m].stage = "routing" /\ \A x \in Msg \ {m} : job'[x] = job[x]
    BY <1>1 DEF Send, Thread
  <1> QED
    BY <1>1, <1>2 DEF Send, Became, Somewhere, Pending, Flies, Opens, Shown

LEMMA ShowBecomes ==
  ASSUME OnionInv, Single, Single', NEW t \in task, ShowMessage(t)
  PROVE  /\ t.ct.msg \in Msg /\ Became(t.ct.msg) = "sent" /\ Became(t.ct.msg)' = "shown"
         /\ \A x \in Msg \ {t.ct.msg} : Became(x)' = Became(x)
  <1> DEFINE m == t.ct.msg
             n == t.at
  <1>1. /\ net' = net /\ task' = task \ {t} /\ job' = job /\ m \in Msg /\ n \in Node
        /\ chat' = [chat EXCEPT ![n][m] = @ + 1] /\ chat \in [Node -> [Msg -> Nat]]
    BY DEF ShowMessage, OnionInv, TypeOK, Task, Cipher
  <1>2. Opens(m) /\ job[m].stage # "idle"
    BY <1>1 DEF Opens, Single, Unsent
  <1>3. Shown(m)'
    <2>1. chat'[n][m] > 0
      BY <1>1
    <2> QED
      BY <1>1, <2>1 DEF Shown
  <1>4. ~ Pending(m)' /\ ~ Flies(m)' /\ ~ Opens(m)'
    BY <1>1, <1>3 DEF Single, Unsent, Flies, Opens
  <1>5. ASSUME NEW x \in Msg \ {m} PROVE Became(x)' = Became(x)
    <2>1. Shown(x)' <=> Shown(x)
      BY <1>1 DEF Shown
    <2>2. Opens(x)' <=> Opens(x)
      BY <1>1 DEF Opens
    <2> QED
      BY <1>1, <2>1, <2>2 DEF Became, Somewhere, Pending, Flies
  <1> QED
    BY <1>1, <1>2, <1>3, <1>4, <1>5 DEF Became, Somewhere

-----------------------------------------------------------------------------
\* Every message has one copy at most, whatever is relayed, dropped or lost.
LEMMA OnionSingle == Safe => []Single
BY OnionInvariant, InitIsSingle, NextIsSingle, PTL DEF Safe

\* Relay and RecvMsgAsync pass a message on and keep nothing of it: it is never in two
\* places, and shown once, by one process.
THEOREM OnionOneCopy == Safe => []OneCopy
BY OnionSingle, SingleSays, PTL

\* Whatever the route, a message sent is shown once or lost, and nothing is shown that
\* was not sent (SendMsgAsync, DoOnionRouting, RecvMsgAsync, Relay).
THEOREM OnionImplementsDelivery == Safe => DeliverySpec
  <1> DEFINE status  == [m \in Msg |-> Status(m)]
             AsBecame == \A m \in Msg : Status(m) = Became(m)
  <1>1. Init => Promise!Init
    BY DEF Init, Promise!Init, Idle, Thread, Status
  <1>2. OnionInv /\ Single /\ Single' /\ AsBecame /\ AsBecame' /\ [Next]_vars
          => [Promise!Next]_status
    <2> SUFFICES ASSUME OnionInv, Single, Single', AsBecame, AsBecame', [Next]_vars
                 PROVE  Promise!Next \/ status' = status
      OBVIOUS
    <2>1. /\ \A m \in Msg : status[m] = Became(m) /\ status'[m] = Became(m)'
          /\ DOMAIN status = Msg /\ DOMAIN status' = Msg
      OBVIOUS
    <2>2. CASE \A m \in Msg : Became(m)' = Became(m)
                                \/ (Became(m) = "sent" /\ Became(m)' = "lost")
      <3> DEFINE S == { m \in Msg : Became(m) = "sent" /\ Became(m)' = "lost" }
      <3>1. S \in SUBSET Msg /\ \A m \in S : status[m] = "sent"
        BY <2>1
      <3>2. status' = [m \in Msg |-> IF m \in S THEN "lost" ELSE status[m]]
        BY <2>1, <2>2
      <3>3. Promise!Lose(S)
        BY <3>1, <3>2 DEF Promise!Lose
      <3> QED
        BY <3>1, <3>3 DEF Promise!Next
    <2>3. ASSUME NEW m \in Msg, Send(m) PROVE Promise!Next
      <3>1. status[m] = "new" /\ status' = [status EXCEPT ![m] = "sent"]
        BY ZenonT(40), <2>1, <2>3, SendBecomes
      <3> QED
        BY <3>1 DEF Promise!Next, Promise!Send
    <2>4. ASSUME NEW t \in task, ShowMessage(t) PROVE Promise!Next
      <3>1. t.ct.msg \in Msg /\ status[t.ct.msg] = "sent"
            /\ status' = [status EXCEPT ![t.ct.msg] = "shown"]
        BY <2>1, <2>4, ShowBecomes
      <3> QED
        BY <3>1 DEF Promise!Next, Promise!Show
    <2>5. CASE (\E n \in Node : Leave(n)) \/ (\E t \in task : FailToOpen(t))
      BY <2>2, <2>5, GoneBecomes DEF Leave, FailToOpen
    <2>6. CASE (\E n, m \in Node : LearnUser(n, m)) \/ UNCHANGED vars
      <3>1. \A m \in Msg : Became(m)' = Became(m)
        BY <2>6 DEF LearnUser, vars, Became, Somewhere, Pending, Flies, Opens, Shown
      <3> QED
        BY <2>2, <3>1
    <2> QED
      BY <2>2, <2>3, <2>4, <2>5, <2>6, RouteBecomes, RelayBecomes DEF Next, Route
  <1>3. Single => AsBecame
    BY SingleSays
  <1> QED
    BY <1>1, <1>2, <1>3, OnionInvariant, OnionSingle, PTL
       DEF Safe, DeliverySpec, Promise!Spec
=============================================================================
