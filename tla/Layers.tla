-------------------------------- MODULE Layers --------------------------------
(***************************************************************************)
(* The bytes of the layers a message is wrapped in (OnionMessage.cc).      *)
(*                                                                         *)
(* A layer is a type, an id and data: for an OnionLayer the next process    *)
(* and a ciphertext, for the others the sender and the text or the URL.     *)
(* All three are written and read in the same way.  Encryption is reduced   *)
(* to a byte for the key in front: who has another key gets nothing.        *)
(***************************************************************************)
EXTENDS Builder, SequencesExt

ONIONLAYER == 0
MSGLAYER   == 1
IMGLAYER   == 2

LayerType == {ONIONLAYER, MSGLAYER, IMGLAYER}

\* Rep::Encrypt and PGP::Decrypt.
Encrypt(key, plain) == << key >> \o plain
Decrypt(key, ct)    == IF ct # << >> /\ Head(ct) = key THEN Tail(ct) ELSE << >>

\* What the three Serialize put together before they encrypt it.
LayerBytes(ty, id, data) == << ty >> \o Bytes4(Len(id)) \o id \o data

\* std::string::substr: from the k-th byte on, at most n bytes.
Substr(bs, k, n) == SubSeq(bs, k + 1, IF k + n <= Len(bs) THEN k + n ELSE Len(bs))
From(bs, k)      == SubSeq(bs, k + 1, Len(bs))

IdLength(bs) == Value4(Substr(bs, 1, 4))

\* Bug: the id goes through a C string and loses its NUL bytes.
UnserializeCString(bs) ==
  [ty   |-> bs[1], id |-> SelectSeq(Substr(bs, 5, IdLength(bs)), LAMBDA b : b # 0),
   left |-> From(bs, 5 + IdLength(bs))]

\* Message::Unserialize of what holds a layer.
Unserialize(bs) ==
  [ty |-> bs[1], id |-> Substr(bs, 5, IdLength(bs)), left |-> From(bs, 5 + IdLength(bs))]

\* An onion: text under layers, the outermost first, each for the key of a relay
\* or of the addressee.  Layers are put on from the inside out; k are on so far.
Wrapped(onion) ==
  LET around[k \in 0 .. Len(onion.layers)] ==
        IF k = 0 THEN onion.text
        ELSE LET layer == onion.layers[Len(onion.layers) + 1 - k]
             IN Encrypt(layer.key, LayerBytes(layer.ty, layer.id, around[k - 1]))
  IN around

Wrap(onion) == Wrapped(onion)[Len(onion.layers)]

\* What those who have the first k of these keys find, in order: the layers' types
\* and ids, and what is left in the end.
Peeled(ct, keys) ==
  LET found[k \in 0 .. Len(keys)] ==
        IF k = 0 THEN [layers |-> << >>, left |-> ct]
        ELSE LET layer == Unserialize(Decrypt(keys[k], found[k - 1].left))
             IN [layers |-> Append(found[k - 1].layers,
                                   [key |-> keys[k], ty |-> layer.ty, id |-> layer.id]),
                 left   |-> layer.left]
  IN found

Peel(ct, keys) == Peeled(ct, keys)[Len(keys)]
=============================================================================
