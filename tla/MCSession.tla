------------------------------ MODULE MCSession ------------------------------
(***************************************************************************)
(* Instances of Session: short command lines, and logins with short ids    *)
(* and passphrases.                                                        *)
(***************************************************************************)
EXTENDS Session

Priv == [opt |-> "priv", file |-> "key"]
Pub  == [opt |-> "pub", file |-> "key"]
NoTui == [opt |-> "notui"]
Listen(n)   == [opt |-> "port", port |-> n]
At(host, p) == [opt |-> "node", node |-> host, port |-> p]

\* A port that does not fit in 16 bits, nodes with and without host and port.
Options == {Priv, Pub, NoTui, Listen(65536), At("a", 70000), At("b", None),
            At("a", NaN), At(None, 5), [opt |-> "help"]}

\* One key that reaches gpg as it is, and one that sh may take for something else.
Keys  == {"x", "!"}
AsIs  == {"x"}
Right == << "x" >>
Stack == {40000}
=============================================================================
