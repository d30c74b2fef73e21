-------------------------------- MODULE MCDesk --------------------------------
(***************************************************************************)
(* Instance of Desk: two others, a message and an image, two letters, and   *)
(* fewer names than calls, so that names are drawn again.                  *)
(***************************************************************************)
EXTENDS Desk

CONSTANT sp

Users   == {"ann", "bob"}
Mails   == {"text", "image"}
Images  == {"image"}
Letters == {"letter1", "letter2"}
Casts_  == { Users \cup {"text"}, Mails, {"ann"} \cup Letters }
Calls   == Users \cup Mails \cup Letters
Ops     == [c \in Calls |-> CASE c \in Mails -> "decrypt" [] c \in Users -> "import"
                              [] OTHER -> "encrypt"]

\* Lines of all commands, with one or two words too few, an unknown id, and spaces
\* where they are not expected.
Lines ==
  { << "/msg", sp, "ann", sp, "hi", sp, "you" >>,
    << "/i", sp, "ann", sp, sp, "url" >>,
    << "/m", sp, "ann" >>,
    << "/img", sp, sp, "ann", sp, "url" >>,
    << "/m", sp, "zed", sp, "hi" >>,
    << "/h" >>, << "/c" >>, << "hi", sp, "ann" >>, << >> }

Words == {"/msg", "/m", "/img", "/i", "/h", "/c", "ann", "zed", "hi", "you", "url"}
=============================================================================
