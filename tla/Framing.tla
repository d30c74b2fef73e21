------------------------------- MODULE Framing -------------------------------
(***************************************************************************)
(* How packets are put on a connection and taken off it again (Packet.cc). *)
(*                                                                         *)
(* Threads write whole packets, one at a time (SendPacket holds             *)
(* serverMutex).  TCP delivers the bytes in pieces of any size.  The server *)
(* thread calls handleServer when there are unread bytes; Unserialize and   *)
(* ContinueBuild consume what they can, and leave the unfinished packet in  *)
(* ctx->aux for the next call.  The ciphertexts are those of Layers.       *)
(***************************************************************************)
EXTENDS Layers

CONSTANTS
  Traffic,   \* the packets written to the connection, in order
  Garbage,   \* what an uninitialised uint32_t may hold
  NoPacket   \* NULL

\* A packet of Traffic has a type; a handshake has a port, an id, a public key and
\* addresses, a message has an onion (Layers).  Ids, keys and texts are bytes.
HANDSHAKE == 0
MSG       == 1

\* What fits in a uint16_t and in a uint32_t.
UInt16 == { x \in Nat : x \div 256 \in Byte }
UInt32 == { x \in Nat : x \div 16777216 \in Byte }
String == { s \in Seq(Byte) : Len(s) \in UInt32 }

Greeting ==
  [type : {HANDSHAKE}, port : UInt16, id : String, key : String,
   nodes : { a \in Seq([ip : UInt32, port : UInt16]) : Len(a) \in UInt32 }]

Onion   == [layers : Seq([ty : LayerType, id : String, key : Byte]), text : Seq(Byte)]
Message == [type : {MSG}, onion : { o \in Onion : Len(Wrap(o)) \in UInt32 }]

ASSUME FramingAssumption ==
  /\ Traffic \in Seq(Greeting \cup Message)
  /\ Garbage \in SUBSET Nat
  /\ NoPacket \notin [type : {HANDSHAKE, MSG}, fields : Seq(Seq(Byte))]

VARIABLES
  written,   \* how many packets of Traffic have been written
  wire,      \* bytes written and not yet received
  buffer,    \* bytes received and not yet read (the ReadCTX)
  aux,       \* the unfinished packet: its type and the fields read so far
  handled,   \* the packets passed to handleHandShake and handleMsg
  running,   \* the process has not dereferenced a NULL packet
  cut        \* history: TCP cut a message after its length

vars == << written, wire, buffer, aux, handled, running, cut >>

-----------------------------------------------------------------------------
(* Writing.                                                                 *)

\* HandShake::Serialize and Msg::Serialize.
Address(a) == Bytes4(a.ip) \o Bytes2(a.port)

Serialize(p) ==
  IF p.type = HANDSHAKE
  THEN << HANDSHAKE >> \o Bytes2(p.port)
       \o Bytes4(Len(p.id)) \o p.id
       \o Bytes4(Len(p.key)) \o p.key
       \o Bytes4(Len(p.nodes)) \o FlattenSeq([k \in DOMAIN p.nodes |-> Address(p.nodes[k])])
  ELSE LET ct == Wrap(p.onion) IN << MSG >> \o Bytes4(Len(ct)) \o ct

-----------------------------------------------------------------------------
(* Reading.                                                                 *)

\* Bug: an address and a port are taken to be as large as a struct of both.
FieldSizePadded(f) ==
  CASE Len(f) = 0 -> 2
    [] Len(f) \in {1, 3, 5} -> 4
    [] Len(f) \in {2, 4} -> Value4(f[Len(f)])
    [] Len(f) = 6 -> Value4(f[6]) * 8

\* HandShake::ContinueBuild: `state' counts the fields read; this many bytes make
\* up the next one.
FieldSize(f) ==
  CASE Len(f) = 0 -> 2
    [] Len(f) \in {1, 3, 5} -> 4
    [] Len(f) \in {2, 4} -> Value4(f[Len(f)])
    [] Len(f) = 6 -> Value4(f[6]) * 6

Fields == [x \in {HANDSHAKE, MSG} |-> IF x = HANDSHAKE THEN 7 ELSE 2]

\* One of the code's `if (state == ... && CTXGetsz(ctx) >= ...)' on a packet under
\* construction: the next field is read when all of it is there.
ReadField(x, size) ==
  IF Len(x.fields) < Fields[x.type] /\ Len(x.bytes) >= size
  THEN [x EXCEPT !.fields = Append(@, SubSeq(x.bytes, 1, size)),
                 !.bytes  = SubSeq(@, size + 1, Len(@))]
  ELSE x

\* The code tests the seven states in order, so one call reads all that is complete.
BuildHandShake(x) ==
  LET after[k \in 0 .. 7] ==
        IF k = 0 THEN x
        ELSE LET y == after[k - 1]
             IN IF Len(y.fields) = k - 1 THEN ReadField(y, FieldSize(y.fields)) ELSE y
  IN after[7]

\* Msg::ContinueBuild keeps the length in a local variable: in the call that reads
\* it, it is the length; in a later call it is whatever the stack holds.
BuildMsg(x) ==
  IF x.fields = << >>
  THEN LET y == ReadField(x, 4)
       IN {IF y.fields = << >> THEN y ELSE ReadField(y, Value4(y.fields[1]))}
  ELSE { ReadField(x, g) : g \in Garbage }

\* Packet::Unserialize up to the call of ContinueBuild: a packet is resumed, or a
\* new one begun with the type in the next byte.
Begin ==
  IF aux # NoPacket
  THEN [type |-> aux.type, fields |-> aux.fields, bytes |-> buffer]
  ELSE [type |-> Head(buffer), fields |-> << >>, bytes |-> Tail(buffer)]

Builds(x) == IF x.type = HANDSHAKE THEN {BuildHandShake(x)} ELSE BuildMsg(x)

\* Bug: SetReady is not called.
NeverReady(x) == FALSE

Ready(x) == Len(x.fields) = Fields[x.type]

\* The getters of a packet that is ready.
Contents(x) ==
  LET f == x.fields IN
  IF x.type = HANDSHAKE
  THEN [type |-> HANDSHAKE, port |-> Value2(f[1]), id |-> f[3], key |-> f[5],
        nodes |-> [k \in 1 .. Value4(f[6]) |->
          [ip   |-> Value4(SubSeq(f[7], 6 * k - 5, 6 * k - 2)),
           port |-> Value2(SubSeq(f[7], 6 * k - 1, 6 * k))]]]
  ELSE [type |-> MSG, ct |-> f[2]]

\* Bug: what else has been received is thrown away with the bytes of the packet.
DiscardAll(x) == << >>

\* CTXDiscard after a packet: the unread bytes stay.
Discard(x) == x.bytes

-----------------------------------------------------------------------------
Init ==
  /\ written = 0
  /\ wire = << >>
  /\ buffer = << >>
  /\ aux = NoPacket
  /\ handled = << >>
  /\ running = TRUE
  /\ cut = FALSE

\* The bytes of the first k packets, and how many they are.
Stream[k \in 0 .. Len(Traffic)] ==
  IF k = 0 THEN << >> ELSE Stream[k - 1] \o Serialize(Traffic[k])

SizeOf(k) == Len(Stream[k])

\* The first r bytes end between a message's length and the end of its text.
InText(r) ==
  \E k \in 1 .. written :
    Traffic[k].type = MSG /\ r \in SizeOf(k - 1) + 5 .. SizeOf(k) - 1

\* SendPacket, under serverMutex.
SendPacket ==
  /\ written < Len(Traffic)
  /\ written' = written + 1
  /\ wire' = wire \o Serialize(Traffic[written + 1])
  /\ UNCHANGED << buffer, aux, handled, running, cut >>

\* The server reads k bytes off the socket.
Receive(k) ==
  /\ running
  /\ cut' = (cut \/ InText(SizeOf(written) - Len(wire) + k))
  /\ wire' = SubSeq(wire, k + 1, Len(wire))
  /\ buffer' = buffer \o SubSeq(wire, 1, k)
  /\ UNCHANGED << written, aux, handled, running >>

\* handleServer with a type byte that is neither: Unserialize returns NULL, on
\* which handleServer calls IsReady.
HandleUnknown ==
  /\ running /\ buffer # << >>
  /\ aux = NoPacket /\ Head(buffer) \notin {HANDSHAKE, MSG}
  /\ running' = FALSE
  /\ UNCHANGED << written, wire, buffer, aux, handled, cut >>

\* handleServer otherwise.
HandleServer ==
  /\ running /\ buffer # << >>
  /\ aux = NoPacket => Head(buffer) \in {HANDSHAKE, MSG}
  /\ \E x \in Builds(Begin) :
       IF Ready(x)
       THEN /\ aux' = NoPacket
            /\ buffer' = Discard(x)
            /\ handled' = Append(handled, Contents(x))
       ELSE /\ aux' = [type |-> x.type, fields |-> x.fields]
            /\ buffer' = x.bytes
            /\ UNCHANGED handled
  /\ UNCHANGED << written, wire, running, cut >>

Next ==
  \/ SendPacket
  \/ \E k \in 1 .. Len(wire) : Receive(k)
  \/ HandleServer
  \/ HandleUnknown

Safe == Init /\ [][Next]_vars

-----------------------------------------------------------------------------
TypeOK ==
  /\ written \in 0 .. Len(Traffic)
  /\ wire \in Seq(Byte)
  /\ buffer \in Seq(Byte)
  /\ aux = NoPacket \/ (aux.type \in {HANDSHAKE, MSG} /\ Len(aux.fields) < Fields[aux.type])
  /\ running \in BOOLEAN
  /\ cut \in BOOLEAN

\* The packets as the reader should get them.
Arriving ==
  [k \in 1 .. written |->
    IF Traffic[k].type = HANDSHAKE THEN Traffic[k]
    ELSE [type |-> MSG, ct |-> Wrap(Traffic[k].onion)]]

\* The packets handled are those written, unchanged and in order, however TCP cuts
\* and joins the bytes, as long as no message is cut after its length.
\* (ContinueBuild keeps `state', and all that it has read but that length.)
PacketsIntact == ~ cut => IsPrefix(handled, Arriving)

\* What precedes the first message is handled intact even if messages, cut in the
\* middle, are not: a damaged message damages nothing before it.
IntactUpToMessages ==
  \A k \in DOMAIN handled :
    (\A j \in 1 .. k : j <= Len(Traffic) /\ Traffic[j].type = HANDSHAKE) =>
      handled[k] = Traffic[k]

\* Another call of handleServer would not help.
Stalled ==
  \/ buffer = << >>
  \/ aux # NoPacket /\ \A x \in Builds(Begin) : ~ Ready(x) /\ x.bytes = buffer

\* When all bytes have been received and handleServer can do nothing with those not
\* read, all packets have been handled: none waits for bytes that never come.
NothingStuck ==
  (~ cut /\ running /\ wire = << >> /\ Stalled) => handled = Arriving /\ aux = NoPacket

\* No bytes of a packet are taken for the type of the next one.
NeverLosesSync == ~ cut => running

\* Whoever has the keys finds in a message handled the layers put around it, in
\* order, and under them the text: what one process wraps, all those on the route,
\* one after the other, can unwrap.  (OnionMessage.cc's Serialize and Unserialize,
\* on bytes that went through Packet.cc.)
LayersIntact ==
  ~ cut => \A k \in DOMAIN handled : handled[k].type = MSG =>
    LET onion == Traffic[k].onion
    IN Peel(handled[k].ct, [l \in DOMAIN onion.layers |-> onion.layers[l].key])
         = [layers |-> onion.layers, left |-> onion.text]

\* The bytes of a message are `| 1(uint8_t) | Length(uint32_t) | Cipher text(Length) |'
\* (README.md:78): what handleMsg gets has the length that was sent.
CipherTextOfLength ==
  \A k \in DOMAIN handled :
    handled[k].type = MSG =>
      \E j \in 1 .. written :
        Traffic[j].type = MSG /\ Len(handled[k].ct) = Len(Wrap(Traffic[j].onion))
=============================================================================
