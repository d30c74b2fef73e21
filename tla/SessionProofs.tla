---------------------------- MODULE SessionProofs ----------------------------
(***************************************************************************)
(* Proofs about Session: who gets past the login, for any command line, any *)
(* keys, whatever sh makes of them, and any lengths.                       *)
(***************************************************************************)
EXTENDS Session, SequenceTheorems, TLAPS

Try == [id : TextOfLength(MAX_ID_LEN), pass : TextOfLength(MaxPassLen)]

\* What the login form hands in.
FormOK ==
  form \in [field : Field, id : TextOfLength(MAX_ID_LEN), pass : TextOfLength(MaxPassLen)]

Stages == {"options", "ask", "form", "verify", "server", "join", "loop", "exited", "aborted"}

\* LoginUser's counter is one ahead of the tries, and while a form is on the screen
\* or being verified it is not past the third.
Counted ==
  /\ stage \in Stages
  /\ tried \in Seq(Try)
  /\ idx = Len(tried) + 1
  /\ Len(tried) <= 3
  /\ stage \in {"form", "verify"} => idx <= 3

\* The right passphrase, and sh leaves it alone.
Opens(pass) == Literal(pass) /\ pass = Passphrase

\* The inductive invariant.  A try with the right passphrase is the last one because
\* it ends the loop, which is said of all stages and not only of those after it.
SessionInv ==
  /\ FormOK
  /\ Counted
  /\ LoggedInAs
  /\ \A k \in DOMAIN tried : Opens(tried[k].pass) => LoggedIn

-----------------------------------------------------------------------------
(* Texts.                                                                   *)

LEMMA TextIsSeq ==
  ASSUME NEW k \in Nat
  PROVE  \A s : s \in TextOfLength(k) <=> s \in Seq(Char) /\ Len(s) <= k
<1>1. ASSUME NEW s \in TextOfLength(k) PROVE s \in Seq(Char) /\ Len(s) <= k
  <2>1. PICK j \in 0 .. k : s \in [1 .. j -> Char]
    BY DEF TextOfLength
  <2>2. s \in Seq(Char) /\ Len(s) = j
    BY <2>1, SeqDef, LenProperties
  <2> QED BY <2>1, <2>2
<1>2. ASSUME NEW s \in Seq(Char), Len(s) <= k PROVE s \in TextOfLength(k)
  <2>1. Len(s) \in 0 .. k /\ s \in [1 .. Len(s) -> Char]
    BY <1>2, LenProperties
  <2> QED BY <2>1 DEF TextOfLength
<1> QED BY <1>1, <1>2

LEMMA EmptyText == ASSUME NEW k \in Nat PROVE << >> \in TextOfLength(k)
<1>1. << >> \in Seq(Char) /\ Len(<< >>) <= k
  OBVIOUS
<1> QED BY <1>1, TextIsSeq

LEMMA Lengths == MAX_ID_LEN \in Nat /\ MAX_ID_LEN + 1 \in Nat /\ MaxPassLen \in Nat
<1>1. MAX_ID_LEN \in Nat /\ MaxPassLen \in Nat
  BY SMT, SessionAssumption
<1> QED BY <1>1

LEMMA EmptyFormOK ==
  EmptyForm \in [field : Field, id : TextOfLength(MAX_ID_LEN), pass : TextOfLength(MaxPassLen)]
<1>1. << >> \in TextOfLength(MAX_ID_LEN) /\ << >> \in TextOfLength(MaxPassLen)
  BY EmptyText, Lengths
<1> QED BY <1>1 DEF EmptyForm, Field

LEMMA LongerText ==
  ASSUME NEW k \in Nat, NEW s \in TextOfLength(k), Len(s) < k, NEW c \in Char
  PROVE  Append(s, c) \in TextOfLength(k)
<1>1. s \in Seq(Char)
  BY TextIsSeq
<1>2. Append(s, c) \in Seq(Char) /\ Len(Append(s, c)) <= k
  BY <1>1
<1> QED BY <1>2, TextIsSeq

LEMMA ShorterText ==
  ASSUME NEW k \in Nat, NEW s \in TextOfLength(k), s # << >>
  PROVE  Front(s) \in TextOfLength(k)
<1>1. s \in Seq(Char) /\ Len(s) <= k
  BY TextIsSeq
<1>2. Front(s) \in Seq(Char) /\ Len(Front(s)) <= k
  BY <1>1 DEF Front
<1> QED BY <1>2, TextIsSeq

-----------------------------------------------------------------------------
LEMMA SessionInit_Inv == Init => SessionInv
<1> SUFFICES ASSUME Init PROVE SessionInv
  OBVIOUS
<1>1. FormOK
  BY EmptyFormOK DEF Init, FormOK
<1>2. tried \in Seq(Try) /\ Len(tried) = 0 /\ DOMAIN tried = {}
  BY EmptySeq DEF Init
<1> QED BY <1>1, <1>2 DEF Init, SessionInv, Counted, Stages, LoggedInAs, LoggedIn

\* The keys of the login form, and the CUI's questions, leave a form in its bounds.
LEMMA SessionNext_Form == FormOK /\ [Next]_vars => FormOK'
<1> SUFFICES ASSUME FormOK, [Next]_vars PROVE FormOK'
  OBVIOUS
<1> USE DEF FormOK
<1>1. CASE UNCHANGED form
  BY <1>1
<1>2. CASE AskUser
  BY <1>2, EmptyFormOK DEF AskUser
<1>3. ASSUME NEW key \in DOMAIN Moves, MoveCursor(key) PROVE FormOK'
  <2>1. Moves[key][form.field] \in Field
    BY DEF Moves, Field
  <2> QED BY <1>3, <2>1 DEF MoveCursor
<1>4. ASSUME NEW c \in Char, TypeKey(c) PROVE FormOK'
  <2>1. CASE form.field = "ID" /\ RoomInId /\ form' = [form EXCEPT !.id = Append(@, c)]
    <3>1. Append(form.id, c) \in TextOfLength(MAX_ID_LEN)
      BY <2>1, LongerText, Lengths DEF RoomInId
    <3> QED BY <2>1, <3>1
  <2>2. CASE Len(form.pass) < MaxPassLen /\ form' = [form EXCEPT !.pass = Append(@, c)]
    <3>1. Append(form.pass, c) \in TextOfLength(MaxPassLen)
      BY <2>2, LongerText, Lengths
    <3> QED BY <2>2, <3>1
  <2> QED BY <1>4, <2>1, <2>2 DEF TypeKey
<1>5. CASE Backspace
  <2>1. CASE form.id # << >> /\ form' = [form EXCEPT !.id = Front(@)]
    <3>1. Front(form.id) \in TextOfLength(MAX_ID_LEN)
      BY <2>1, ShorterText, Lengths
    <3> QED BY <2>1, <3>1
  <2>2. CASE form.pass # << >> /\ form' = [form EXCEPT !.pass = Front(@)]
    <3>1. Front(form.pass) \in TextOfLength(MaxPassLen)
      BY <2>2, ShorterText, Lengths
    <3> QED BY <2>2, <3>1
  <2> QED BY <1>5, <2>1, <2>2 DEF Backspace
<1>6. CASE Enter
  BY <1>6 DEF Enter, Field
<1>7. ASSUME NEW id \in TextOfLength(MAX_ID_LEN + 1), NEW pass \in TextOfLength(MaxPassLen),
             FillInCUI(id, pass)
      PROVE  FormOK'
  <2>1. id \in Seq(Char)
    BY TextIsSeq, Lengths
  <2>2. id \in TextOfLength(MAX_ID_LEN)
    BY <1>7, <2>1, TextIsSeq, Lengths DEF FillInCUI
  <2> QED BY <1>7, <2>2 DEF FillInCUI
<1>8. ASSUME NEW o \in Option, GetOpt(o) PROVE UNCHANGED form
  BY <1>8 DEF GetOpt
<1>9. CASE CheckOptions \/ VerifyPass \/ InitServer \/ Join \/ UNCHANGED vars
  BY <1>9 DEF CheckOptions, VerifyPass, InitServer, Join, vars
<1> QED BY <1>1, <1>2, <1>3, <1>4, <1>5, <1>6, <1>7, <1>8, <1>9 DEF Next

\* Of the steps that are no try, none changes what was tried, and none but a try logs in.
LEMMA OtherSteps ==
  ASSUME Counted, [Next]_vars, ~ VerifyPass
  PROVE  /\ UNCHANGED << tried, idx, passphrase, ID >>
         /\ LoggedIn' = LoggedIn
         /\ Counted'
<1> USE DEF Counted, Stages, LoggedIn
<1>1. ASSUME NEW o \in Option, GetOpt(o)
      PROVE  /\ UNCHANGED << tried, idx, passphrase, ID >> /\ stage = "options"
             /\ stage' \in {"options", "aborted", "exited"}
  BY <1>1 DEF GetOpt
<1>2. CASE UNCHANGED vars
  BY <1>2 DEF vars
<1>3. CASE CheckOptions
  BY <1>3 DEF CheckOptions
<1>4. CASE AskUser
  BY <1>4 DEF AskUser, TriesLeft
<1>5. ASSUME NEW key \in DOMAIN Moves, MoveCursor(key) PROVE UNCHANGED << stage, tried, idx,
                                                                          passphrase, ID >>
  BY <1>5 DEF MoveCursor
<1>6. ASSUME NEW c \in Char, TypeKey(c) PROVE UNCHANGED << stage, tried, idx, passphrase, ID >>
  BY <1>6 DEF TypeKey
<1>7. CASE Backspace
  BY <1>7 DEF Backspace
<1>8. CASE Enter
  BY <1>8 DEF Enter, InTUI
<1>9. ASSUME NEW id \in TextOfLength(MAX_ID_LEN + 1), NEW pass \in TextOfLength(MaxPassLen),
             FillInCUI(id, pass)
      PROVE  UNCHANGED << tried, idx, passphrase, ID >> /\ stage = "form" /\ stage' = "verify"
  BY <1>9 DEF FillInCUI
<1>10. CASE InitServer
  BY <1>10 DEF InitServer
<1>11. CASE Join
  BY <1>11 DEF Join
<1> QED BY <1>1, <1>2, <1>3, <1>4, <1>5, <1>6, <1>7, <1>8, <1>9, <1>10, <1>11 DEF Next

\* What is known of gpg's answer: all there is, when sh leaves the passphrase alone.
LEMMA VerdictOf ==
  ASSUME NEW pass
  PROVE  /\ TRUE \in Verdicts(pass) /\ Literal(pass) => pass = Passphrase
         /\ FALSE \in Verdicts(pass) => ~ Opens(pass)
<1>1. CASE Literal(pass)
  <2>1. Verdicts(pass) = {pass = Passphrase}
    BY <1>1 DEF Verdicts
  <2> QED BY Zenon, <1>1, <2>1 DEF Opens
<1>2. CASE ~ Literal(pass)
  BY <1>2 DEF Opens
<1> QED BY <1>1, <1>2

\* A try is added and counted, and logs in when its passphrase is right.
LEMMA TryStep ==
  ASSUME SessionInv, VerifyPass
  PROVE  Counted' /\ LoggedInAs'
         /\ \A k \in DOMAIN tried' : Opens(tried'[k].pass) => LoggedIn'
<1> DEFINE try == [id |-> form.id, pass |-> form.pass]
<1> USE DEF SessionInv, Counted, Stages, LoggedIn
<1>1. tried \in Seq(Try) /\ try \in Try /\ tried' = Append(tried, try)
  BY DEF VerifyPass, FormOK, Try
<1>2. /\ tried' \in Seq(Try) /\ Len(tried') = Len(tried) + 1 /\ Len(tried) \in Nat
      /\ DOMAIN tried' = 1 .. Len(tried) + 1
      /\ tried'[Len(tried) + 1] = try
      /\ \A k \in 1 .. Len(tried) : k \in DOMAIN tried /\ tried'[k] = tried[k]
  BY <1>1, AppendProperties, LenProperties
<1>3. stage = "verify" /\ ~ LoggedIn
  BY DEF VerifyPass
<1>4. Counted'
  BY <1>2, <1>3 DEF VerifyPass
<1>5. \A k \in 1 .. Len(tried) : ~ Opens(tried'[k].pass)
  BY <1>2, <1>3
<1>6. Last(tried') = try /\ tried' # << >>
  BY <1>2, EmptySeq DEF Last
<1>7. LoggedInAs'
  <2> SUFFICES ASSUME LoggedIn' PROVE LoggedInAs'
    BY DEF LoggedInAs
  <2>1. TRUE \in Verdicts(form.pass) /\ passphrase' = form.pass /\ ID' = form.id
    BY DEF VerifyPass
  <2>2. Literal(form.pass) => form.pass = Passphrase
    BY <2>1, VerdictOf
  <2>3. \A k \in DOMAIN tried' : Opens(tried'[k].pass) => k = Len(tried')
    BY <1>2, <1>5
  <2> QED BY <1>6, <2>1, <2>2, <2>3 DEF LoggedInAs, Opens
<1>8. \A k \in DOMAIN tried' : Opens(tried'[k].pass) => LoggedIn'
  <2>1. Opens(form.pass) => LoggedIn'
    BY VerdictOf DEF VerifyPass
  <2> QED BY <1>2, <1>5, <2>1
<1> QED BY <1>4, <1>7, <1>8

LEMMA SessionNext_Inv == SessionInv /\ [Next]_vars => SessionInv'
<1> SUFFICES ASSUME SessionInv, [Next]_vars PROVE SessionInv'
  OBVIOUS
<1>1. FormOK'
  BY SessionNext_Form DEF SessionInv
<1>2. CASE VerifyPass
  BY <1>1, <1>2, TryStep DEF SessionInv
<1>3. CASE ~ VerifyPass
  BY <1>1, <1>3, OtherSteps DEF SessionInv, LoggedInAs
<1> QED BY <1>2, <1>3

\* LoginUser counts every try and leaves its loop at the one that succeeds, which the
\* one with the right passphrase does when sh leaves it alone.
THEOREM SessionInvariant == Safe => []SessionInv
BY SessionInit_Inv, SessionNext_Inv, PTL DEF Safe

\* Whoever gets past LoginUser has the id and the passphrase of the last try, and of
\* the passphrases that reach gpg as typed only the one of the key gets past it, at
\* once, whatever the command line and whatever sh makes of the others.
THEOREM SessionLoggedInAs == Safe => []LoggedInAs
BY SessionInvariant, PTL DEF SessionInv

\* "Bad passphrase (try %d of 3)": there is no fourth try.
THEOREM SessionThreeTries == Safe => []ThreeTries
<1>1. SessionInv => ThreeTries
  BY DEF SessionInv, Counted, ThreeTries
<1> QED BY <1>1, SessionInvariant, PTL
-----------------------------------------------------------------------------
(* The command line.                                                        *)

Host == { o.node : o \in { p \in Option : p.opt = "node" } } \cup {None}

Locals ==
  [tui : BOOLEAN, node : Host, nport : UInt16, priv : File \cup {None},
   pub : File \cup {None}, port : UInt16]

\* What is typed becomes the id and the passphrase only after a form is handed in.
Typed ==
  /\ args \in Seq(Option) /\ Len(args) <= MaxOptions
  /\ opts \in Locals
  /\ passphrase \in TextOfLength(MaxPassLen) \cup {None}
  /\ ID \in TextOfLength(MAX_ID_LEN) \cup {None}

\* The two variables of --node were set together, by its last occurrence: at a bad port
\* the process has ended.
Remembered ==
  opts.node # None =>
    \E k \in DOMAIN args :
      LastNode(k) /\ opts.node = args[k].node /\ opts.nport = NodePort(args[k])

DialInv ==
  /\ stage # "aborted" => Remembered
  /\ dialled # None => /\ stage = "loop"
                       /\ opts.node # None /\ dialled = << opts.node, opts.nport >>

CommandLineInv == Typed /\ DialInv

LEMMA InitCommandLine == Init => CommandLineInv
<1> SUFFICES ASSUME Init PROVE CommandLineInv
  OBVIOUS
<1>1. args \in Seq(Option) /\ Len(args) <= MaxOptions
  <2>1. MaxOptions \in Nat
    BY SMT, SessionAssumption
  <2> QED BY <2>1 DEF Init
<1>2. opts \in Locals /\ opts.node = None
  <2>1. PICK g \in Garbage, h \in Garbage :
          opts = [tui |-> TRUE, node |-> None, nport |-> g, priv |-> None, pub |-> None,
                  port |-> h]
    BY DEF Init
  <2>2. g \in UInt16 /\ h \in UInt16
    BY SessionAssumption
  <2>3. None \in Host
    BY DEF Host
  <2> HIDE DEF Host
  <2> QED BY <2>1, <2>2, <2>3 DEF Locals
<1> QED BY <1>1, <1>2 DEF Init, CommandLineInv, Typed, DialInv, Remembered

\* The ports are cut to 16 bits.
LEMMA UInt16Fits == ASSUME NEW x \in Nat PROVE ToUInt16(x) \in UInt16
BY DEF ToUInt16, UInt16

\* What an option assigns.
LEMMA ParsedIs ==
  ASSUME NEW o
  PROVE  /\ o.opt = "notui" => Parsed(o) = [opts EXCEPT !.tui = FALSE]
         /\ o.opt = "priv" => Parsed(o) = [opts EXCEPT !.priv = o.file]
         /\ o.opt = "pub" => Parsed(o) = [opts EXCEPT !.pub = o.file]
         /\ o.opt = "port" => Parsed(o) = [opts EXCEPT !.port = ToUInt16(o.port)]
         /\ o.opt = "node" /\ ~ BadPort(o) =>
              Parsed(o) = [opts EXCEPT !.node = o.node, !.nport = NodePort(o)]
         /\ o.opt = "help" \/ BadPort(o) => Parsed(o) = opts
<1>1. BadPort(o) => o.opt = "node"
  BY DEF BadPort
<1> QED BY <1>1 DEF Parsed

LEMMA NodePortFits ==
  ASSUME NEW o, o.port \in Nat \cup {NaN, None}, o.opt = "node", ~ BadPort(o)
  PROVE  NodePort(o) \in UInt16
<1>1. CASE o.port = None
  <2>1. NodePort(o) = 1234
    BY <1>1 DEF NodePort
  <2>2. 1234 \in UInt16
    BY DEF UInt16
  <2> QED BY <2>1, <2>2
<1>2. CASE o.port # None
  <2>1. o.port \in Nat
    BY <1>2 DEF BadPort
  <2>2. NodePort(o) = ToUInt16(o.port)
    BY <1>2 DEF NodePort
  <2> QED BY <2>1, <2>2, UInt16Fits
<1> QED BY <1>1, <1>2

\* What one option does to the locals of main.
LEMMA OptionStep ==
  ASSUME CommandLineInv, NEW o \in Option, GetOpt(o)
  PROVE  CommandLineInv'
<1>1. /\ o.opt \in {"notui", "help", "priv", "pub", "port", "node"}
      /\ o.opt \in {"priv", "pub"} => o.file \in File
      /\ o.opt = "port" => o.port \in Nat
      /\ o.opt = "node" => o.port \in Nat \cup {NaN, None}
      /\ MaxOptions \in Nat
  BY SMT, SessionAssumption
<1>2. /\ args \in Seq(Option) /\ opts \in Locals /\ stage = "options" /\ Len(args) < MaxOptions
      /\ args' = Append(args, o) /\ Remembered /\ dialled' = dialled /\ dialled = None
      /\ opts' = Parsed(o)
  BY DEF CommandLineInv, Typed, DialInv, GetOpt
<1>3. /\ args' \in Seq(Option) /\ Len(args') = Len(args) + 1 /\ Len(args) \in Nat
      /\ DOMAIN args' = 1 .. Len(args) + 1 /\ DOMAIN args = 1 .. Len(args)
      /\ args'[Len(args) + 1] = o
      /\ \A k \in 1 .. Len(args) : args'[k] = args[k]
  BY <1>2, AppendProperties, LenProperties
<1>4. ASSUME o.opt = "node" /\ ~ BadPort(o)
      PROVE  opts' \in Locals /\ (stage' # "aborted" => Remembered')
  <2>1. /\ NodePort(o) \in UInt16 /\ o.node \in Host
        /\ opts' = [opts EXCEPT !.node = o.node, !.nport = NodePort(o)]
    BY <1>1, <1>2, <1>4, NodePortFits, ParsedIs DEF Host
  <2>2. opts' \in Locals /\ opts'.node = o.node /\ opts'.nport = NodePort(o)
    BY <1>2, <2>1 DEF Locals
  <2> PICK n \in Nat : n = Len(args) + 1
    BY <1>3
  <2>3. LastNode(n)'
    BY <1>3, <1>4 DEF LastNode
  <2>4. \E k \in DOMAIN args' :
          LastNode(k)' /\ opts'.node = args'[k].node /\ opts'.nport = NodePort(args'[k])
    BY <1>3, <2>2, <2>3
  <2> QED BY <2>2, <2>4 DEF Remembered, NodePort
<1>5. ASSUME ~ (o.opt = "node" /\ ~ BadPort(o))
      PROVE  opts' \in Locals /\ (stage' # "aborted" => Remembered')
  <2>1. opts' \in Locals /\ opts'.node = opts.node /\ opts'.nport = opts.nport
    <3>1. CASE o.opt = "port"
      <4>1. ToUInt16(o.port) \in UInt16 /\ opts' = [opts EXCEPT !.port = ToUInt16(o.port)]
        BY <1>1, <1>2, <3>1, UInt16Fits, ParsedIs
      <4> QED BY <1>2, <4>1 DEF Locals
    <3>2. CASE o.opt = "priv" \/ o.opt = "pub"
      <4>1. /\ o.file \in File
            /\ \/ opts' = [opts EXCEPT !.priv = o.file]
               \/ opts' = [opts EXCEPT !.pub = o.file]
        BY <1>1, <1>2, <3>2, ParsedIs
      <4> QED BY <1>2, <4>1 DEF Locals
    <3>3. CASE o.opt = "notui"
      <4>1. opts' = [opts EXCEPT !.tui = FALSE]
        BY <1>2, <3>3, ParsedIs
      <4> QED BY <1>2, <4>1 DEF Locals
    <3>4. CASE o.opt = "help" \/ BadPort(o)
      BY <1>2, <3>4, ParsedIs
    <3> QED BY <1>1, <1>5, <3>1, <3>2, <3>3, <3>4
  <2>2. ASSUME o.opt # "node", opts'.node # None
        PROVE  \E k \in DOMAIN args' :
                 LastNode(k)' /\ opts'.node = args'[k].node /\ opts'.nport = NodePort(args'[k])
    <3>1. PICK k \in DOMAIN args :
            LastNode(k) /\ opts.node = args[k].node /\ opts.nport = NodePort(args[k])
      BY <1>2, <2>1, <2>2 DEF Remembered
    <3>2. LastNode(k)'
      BY <1>3, <2>2, <3>1 DEF LastNode
    <3> QED BY <1>3, <2>1, <3>1, <3>2
  <2>3. o.opt = "node" => stage' = "aborted"
    BY <1>5 DEF GetOpt
  <2> QED BY <2>1, <2>2, <2>3 DEF Remembered, NodePort
<1>6. opts' \in Locals /\ (stage' # "aborted" => Remembered')
  BY <1>4, <1>5
<1>7. Typed'
  BY <1>1, <1>2, <1>3, <1>6 DEF CommandLineInv, Typed, GetOpt
<1> QED BY <1>2, <1>6, <1>7 DEF CommandLineInv, DialInv

LEMMA NextCommandLine == SessionInv /\ CommandLineInv /\ [Next]_vars => CommandLineInv'
<1> SUFFICES ASSUME SessionInv, CommandLineInv, [Next]_vars PROVE CommandLineInv'
  OBVIOUS
<1>1. ASSUME NEW o \in Option, GetOpt(o) PROVE CommandLineInv'
  BY <1>1, OptionStep
<1>2. CASE VerifyPass
  <2>1. form.id \in TextOfLength(MAX_ID_LEN) /\ form.pass \in TextOfLength(MaxPassLen)
    BY DEF SessionInv, FormOK
  <2>2. /\ UNCHANGED << args, opts, dialled >>
        /\ stage = "verify" /\ stage' \in {"server", "ask"}
        /\ passphrase' \in {form.pass, None} /\ ID' \in {form.id, ID}
    BY <1>2 DEF VerifyPass
  <2> QED
    BY <2>1, <2>2 DEF CommandLineInv, Typed, DialInv, Remembered, LastNode, NodePort
<1>3. CASE Join
  BY <1>3 DEF Join, CommandLineInv, Typed, DialInv, Remembered, LastNode, NodePort
<1>4. ASSUME UNCHANGED << args, opts, passphrase, ID, dialled >>,
             stage = "loop" => stage' = "loop", stage = "aborted" => stage' = "aborted"
      PROVE  CommandLineInv'
  BY <1>4 DEF CommandLineInv, Typed, DialInv, Remembered, LastNode, NodePort
<1>5. CASE CheckOptions \/ AskUser \/ InitServer
  BY <1>4, <1>5 DEF CheckOptions, AskUser, InitServer
<1>6. CASE Backspace \/ Enter
  BY <1>4, <1>6 DEF Backspace, Enter, InTUI
<1>7. ASSUME NEW key \in DOMAIN Moves, MoveCursor(key) PROVE CommandLineInv'
  BY <1>4, <1>7 DEF MoveCursor
<1>8. ASSUME NEW c \in Char, TypeKey(c) PROVE CommandLineInv'
  BY <1>4, <1>8 DEF TypeKey
<1>9. ASSUME NEW id \in TextOfLength(MAX_ID_LEN + 1), NEW pass \in TextOfLength(MaxPassLen),
             FillInCUI(id, pass)
      PROVE  CommandLineInv'
  BY <1>4, <1>9 DEF FillInCUI
<1>10. CASE UNCHANGED vars
  BY <1>4, <1>10 DEF vars
<1> QED BY <1>1, <1>2, <1>3, <1>5, <1>6, <1>7, <1>8, <1>9, <1>10 DEF Next

LEMMA CommandLine == Safe => [](SessionInv /\ CommandLineInv)
BY SessionInit_Inv, SessionNext_Inv, InitCommandLine, NextCommandLine, PTL DEF Safe

\* Ports fit in 16 bits and texts in their buffers, whatever is typed (main.cc, tui.cc).
THEOREM SessionTypeCorrect == Safe => []TypeOK
<1>1. SessionInv /\ CommandLineInv => TypeOK
  BY DEF SessionInv, FormOK, Counted, Stages, CommandLineInv, Typed, Locals, TypeOK
<1> QED BY <1>1, CommandLine, PTL

\* Host and port that HandShake dials are those of the same, last --node.
THEOREM SessionDialsLastNode == Safe => []DialsLastNode
<1>1. SessionInv /\ CommandLineInv => DialsLastNode
  BY DEF CommandLineInv, DialInv, Remembered, DialsLastNode, NodePort
<1> QED BY <1>1, CommandLine, PTL
=============================================================================
