------------------------------ MODULE MCFraming ------------------------------
(***************************************************************************)
(* Instances of Framing: a few short packets, so that every way of cutting *)
(* the bytes is tried.  Keys are numbers, ids one or two bytes.            *)
(***************************************************************************)
EXTENDS Framing

Hello ==
  [type |-> HANDSHAKE, port |-> 1234, id |-> << 65, 0, 1 >>, key |-> << 80 >>,
   nodes |-> << [ip |-> 2130706433, port |-> 258], [ip |-> 16909060, port |-> 1235] >>]

\* A process that knows nobody yet.
HelloAlone ==
  [type |-> HANDSHAKE, port |-> 4660, id |-> << 66 >>, key |-> << 81, 7 >>, nodes |-> << >>]

Layer(ty, id, key) == [ty |-> ty, id |-> id, key |-> key]

\* A text over one relay, and an image, with an empty URL, to its addressee.
Text  == [type |-> MSG, onion |->
           [layers |-> << Layer(ONIONLAYER, << 67 >>, 2), Layer(MSGLAYER, << 65, 0 >>, 3) >>,
            text   |-> << 9, 0 >>]]
Image == [type |-> MSG, onion |->
           [layers |-> << Layer(IMGLAYER, << 65 >>, 3) >>, text |-> << >>]]

Mixed    == << HelloAlone, Hello, Text, Image, Text, HelloAlone >>
Messages == << Image, Image >>

\* Zero, less than the length, the length, more than the length.
Stack == {0, 3, 7, 9}
=============================================================================
