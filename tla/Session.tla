------------------------------- MODULE Session -------------------------------
(***************************************************************************)
(* How one process comes up (main.cc, OnionMessenger.cc, tui.cc, cui.cc,   *)
(* PGP.cc): the options are read, the user logs in with a GitHub id and the *)
(* passphrase of the private key, the server is started, and the node named *)
(* with --node is dialled.  Mesh takes over from there.                    *)
(***************************************************************************)
EXTENDS Naturals, Sequences, SequencesExt

CONSTANTS
  Option,      \* the options the command line may hold
  MaxOptions,  \* how many it holds at most (a bound)
  Garbage,     \* what an uninitialised uint16_t may hold
  Char,        \* the printable keys
  Plain,       \* those of them that sh and echo pass on as they are
  MAX_ID_LEN,  \* the longest GitHub id (30 in the code)
  MaxPassLen,  \* the longest passphrase tried (a bound)
  Passphrase,  \* the one that unlocks the private key
  NaN,         \* what is no number, after the colon in --node
  None         \* an empty string, an unset pointer, no ":port" in --node

\* Options are records: "notui" and "help" alone, "priv" and "pub" with a file that
\* exists or not, "port" with a number (atoi makes one of anything), "node" with a
\* host and maybe a port.
File == {"key", "missing"}
UInt16 == { x \in Nat : x < 65536 }
TextOfLength(k) == UNION { [1 .. j -> Char] : j \in 0 .. k }

ASSUME SessionAssumption ==
  /\ MaxOptions \in Nat /\ MAX_ID_LEN \in Nat /\ MaxPassLen \in Nat
  /\ Garbage \subseteq UInt16
  /\ Plain \subseteq Char
  /\ Passphrase \in Seq(Char)
  /\ \A o \in Option :
       /\ o.opt \in {"notui", "help", "priv", "pub", "port", "node"}
       /\ o.opt \in {"priv", "pub"} => o.file \in File
       /\ o.opt = "port" => o.port \in Nat
       /\ o.opt = "node" => o.port \in Nat \cup {NaN, None}

VARIABLES
  args,        \* the options getopt_long has returned
  opts,        \* the locals of main they set
  stage,       \* where the main thread is
  form,        \* the login form: the field with the cursor, and the texts
  idx,         \* LoginUser's counter of tries
  passphrase,  \* PGP's passphrase
  tried,       \* the ids and passphrases tried, for the properties
  ID,          \* the id the process goes by
  dialled      \* the address --node made it dial

vars == << args, opts, stage, form, idx, passphrase, tried, ID, dialled >>

Field     == {"ID", "PASS", "OK", "CANCEL"}
EmptyForm == [field |-> "ID", id |-> << >>, pass |-> << >>]

TypeOK ==
  /\ args \in Seq(Option) /\ Len(args) <= MaxOptions
  /\ opts.tui \in BOOLEAN /\ opts.port \in UInt16 /\ opts.nport \in UInt16
  /\ opts.priv \in File \cup {None} /\ opts.pub \in File \cup {None}
  /\ stage \in {"options", "ask", "form", "verify", "server", "join", "loop",
                "exited", "aborted"}
  /\ form.field \in Field
  /\ form.id \in TextOfLength(MAX_ID_LEN) /\ form.pass \in TextOfLength(MaxPassLen)
  /\ idx \in 1 .. 4
  /\ passphrase \in TextOfLength(MaxPassLen) \cup {None}
  /\ ID \in TextOfLength(MAX_ID_LEN) \cup {None}

Init ==
  /\ args = << >>
  /\ opts \in { [tui |-> TRUE, node |-> None, nport |-> g, priv |-> None,
                 pub |-> None, port |-> h] : g, h \in Garbage }
  /\ stage = "options"
  /\ form = EmptyForm
  /\ idx = 1
  /\ passphrase = None
  /\ tried = << >>
  /\ ID = None
  /\ dialled = None

-----------------------------------------------------------------------------
(* The command line.                                                        *)

\* What fits in port and nport.
ToUInt16(x) == x % 65536

\* Bug: without ":port" the port of an earlier --node stays.
PortOfEarlierNode(o) == IF o.port = None THEN opts.nport ELSE ToUInt16(o.port)

NodePort(o) == IF o.port = None THEN 1234 ELSE ToUInt16(o.port)

\* stoi throws when what follows the colon is no number; nothing catches.
BadPort(o) == o.opt = "node" /\ o.port = NaN

\* The locals of main after an option.
Parsed(o) ==
  CASE o.opt = "notui" -> [opts EXCEPT !.tui = FALSE]
    [] o.opt = "priv"  -> [opts EXCEPT !.priv = o.file]
    [] o.opt = "pub"   -> [opts EXCEPT !.pub = o.file]
    [] o.opt = "port"  -> [opts EXCEPT !.port = ToUInt16(o.port)]
    [] o.opt = "node" /\ ~ BadPort(o) ->
         [opts EXCEPT !.node = o.node, !.nport = NodePort(o)]
    [] OTHER -> opts

GetOpt(o) ==
  /\ stage = "options" /\ Len(args) < MaxOptions
  /\ args' = Append(args, o)
  /\ IF BadPort(o) THEN stage' = "aborted"
     ELSE IF o.opt = "help" THEN stage' = "exited"
     ELSE UNCHANGED stage
  /\ opts' = Parsed(o)
  /\ UNCHANGED << form, idx, passphrase, tried, ID, dialled >>

\* The checks after the last option; then the keys are imported.
CheckOptions ==
  /\ stage = "options"
  /\ stage' = IF opts.port # 0 /\ opts.priv = "key" /\ opts.pub = "key"
              THEN "ask" ELSE "exited"
  /\ UNCHANGED << args, opts, form, idx, passphrase, tried, ID, dialled >>

-----------------------------------------------------------------------------
(* The login form.                                                          *)

\* Bug: there is one try too many.
FourTries == idx <= 4

TriesLeft == idx <= 3

\* LoginUser shows a new form, or gives up.
AskUser ==
  /\ stage = "ask"
  /\ stage' = IF TriesLeft THEN "form" ELSE "exited"
  /\ form' = EmptyForm
  /\ UNCHANGED << args, opts, idx, passphrase, tried, ID, dialled >>

\* Where the keys that move the cursor take it.
Moves ==
  [left  |-> [ID |-> "ID", PASS |-> "ID", OK |-> "PASS", CANCEL |-> "OK"],
   right |-> [ID |-> "PASS", PASS |-> "OK", OK |-> "CANCEL", CANCEL |-> "CANCEL"],
   tab   |-> [ID |-> "PASS", PASS |-> "OK", OK |-> "CANCEL", CANCEL |-> "ID"],
   up    |-> [ID |-> "ID", PASS |-> "ID", OK |-> "PASS", CANCEL |-> "PASS"],
   down  |-> [ID |-> "PASS", PASS |-> "OK", OK |-> "OK", CANCEL |-> "CANCEL"]]

InTUI == stage = "form" /\ opts.tui

MoveCursor(key) ==
  /\ InTUI
  /\ form' = [form EXCEPT !.field = Moves[key][form.field]]
  /\ UNCHANGED << args, opts, stage, idx, passphrase, tried, ID, dialled >>

\* Bug: the id may be one character too long.
RoomForOneMore == Len(form.id) <= MAX_ID_LEN

RoomInId == Len(form.id) < MAX_ID_LEN

TypeKey(c) ==
  /\ InTUI
  /\ \/ /\ form.field = "ID" /\ RoomInId
        /\ form' = [form EXCEPT !.id = Append(@, c)]
     \/ /\ form.field = "PASS" /\ Len(form.pass) < MaxPassLen
        /\ form' = [form EXCEPT !.pass = Append(@, c)]
  /\ UNCHANGED << args, opts, stage, idx, passphrase, tried, ID, dialled >>

Backspace ==
  /\ InTUI
  /\ \/ /\ form.field = "ID" /\ form.id # << >>
        /\ form' = [form EXCEPT !.id = Front(@)]
     \/ /\ form.field = "PASS" /\ form.pass # << >>
        /\ form' = [form EXCEPT !.pass = Front(@)]
  /\ UNCHANGED << args, opts, stage, idx, passphrase, tried, ID, dialled >>

\* Enter goes on to the passphrase, hands the form in, or cancels the login.
Enter ==
  /\ InTUI
  /\ \/ form.field = "ID" /\ form' = [form EXCEPT !.field = "PASS"] /\ UNCHANGED stage
     \/ form.field \in {"PASS", "OK"} /\ stage' = "verify" /\ UNCHANGED form
     \/ form.field = "CANCEL" /\ stage' = "exited" /\ UNCHANGED form
  /\ UNCHANGED << args, opts, idx, passphrase, tried, ID, dialled >>

\* The CUI asks for an id until it gets one of an acceptable length.
FillInCUI(id, pass) ==
  /\ stage = "form" /\ ~ opts.tui
  /\ id # << >> /\ Len(id) <= MAX_ID_LEN
  /\ form' = [form EXCEPT !.id = id, !.pass = pass]
  /\ stage' = "verify"
  /\ UNCHANGED << args, opts, idx, passphrase, tried, ID, dialled >>

\* Decrypt has sh run "echo <passphrase> | gpg": a text of such keys reaches gpg as typed.
Literal(pass) == Range(pass) \subseteq Plain

\* Bug: what comes out of gpg is not compared with what went in.
AnyVerdict(pass) == BOOLEAN

\* Whether gpg gives back what Verify_Pass encrypted: with the right passphrase only.
\* What sh makes of any other key in it is not computed here: a wrong passphrase may
\* be accepted, and the right one refused (PGP.cc says so itself, lines 129 to 131).
Verdicts(pass) == IF Literal(pass) THEN {pass = Passphrase} ELSE BOOLEAN

VerifyPass ==
  /\ stage = "verify"
  /\ tried' = Append(tried, [id |-> form.id, pass |-> form.pass])
  /\ idx' = idx + 1
  /\ \/ /\ TRUE \in Verdicts(form.pass)
        /\ stage' = "server" /\ passphrase' = form.pass /\ ID' = form.id
     \/ /\ FALSE \in Verdicts(form.pass)
        /\ stage' = "ask" /\ passphrase' = None /\ UNCHANGED ID
  /\ UNCHANGED << args, opts, form, dialled >>

-----------------------------------------------------------------------------
InitServer ==
  /\ stage = "server"
  /\ stage' = "join"
  /\ UNCHANGED << args, opts, form, idx, passphrase, tried, ID, dialled >>

\* HandShake when --node named a host; then Loop.
Join ==
  /\ stage = "join"
  /\ stage' = "loop"
  /\ dialled' = IF opts.node = None THEN None ELSE << opts.node, opts.nport >>
  /\ UNCHANGED << args, opts, form, idx, passphrase, tried, ID >>

Next ==
  \/ \E o \in Option : GetOpt(o)
  \/ CheckOptions
  \/ AskUser
  \/ \E key \in DOMAIN Moves : MoveCursor(key)
  \/ \E c \in Char : TypeKey(c)
  \/ Backspace
  \/ Enter
  \/ \E id \in TextOfLength(MAX_ID_LEN + 1), pass \in TextOfLength(MaxPassLen) :
       FillInCUI(id, pass)
  \/ VerifyPass
  \/ InitServer
  \/ Join

Safe == Init /\ [][Next]_vars

-----------------------------------------------------------------------------
LoggedIn == stage \in {"server", "join", "loop"}

\* Who has logged in goes by the id of the last try's form, and PGP has that try's
\* passphrase, with which every layer that arrives is opened.  It is the one of the
\* key, and nobody was turned away with that one before, as far as it can be said:
\* of a passphrase with keys that sh takes for its own nothing is promised.
LoggedInAs ==
  LoggedIn =>
    /\ tried # << >>
    /\ ID = Last(tried).id /\ passphrase = Last(tried).pass
    /\ Literal(passphrase) => passphrase = Passphrase
    /\ \A k \in DOMAIN tried :
         Literal(tried[k].pass) /\ tried[k].pass = Passphrase => k = Len(tried)

\* "Bad passphrase (try %d of 3)": no form is handed in after three bad ones.
ThreeTries == Len(tried) <= 3

\* The k-th option is the last --node.
LastNode(k) ==
  args[k].opt = "node" /\ \A j \in DOMAIN args : j > k => args[j].opt # "node"

\* What is dialled is what the last --node names, host and port, whatever the
\* earlier ones named (node and nport are two variables).
DialsLastNode ==
  dialled # None =>
    \E k \in DOMAIN args :
      /\ LastNode(k)
      /\ LET o == args[k]
         IN dialled = << o.node, IF o.port = None THEN 1234 ELSE ToUInt16(o.port) >>
=============================================================================
