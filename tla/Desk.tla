--------------------------------- MODULE Desk ---------------------------------
(***************************************************************************)
(* The threads of one process: its screen (Screen) and its calls of gpg     *)
(* (TempFiles).                                                            *)
(*                                                                         *)
(* The thread of a message decrypts it before it shows it; the server       *)
(* thread lists a user, imports the user's key and only then enters the     *)
(* user in the map that commands are looked up in; a line that sends        *)
(* something starts a thread that encrypts it.  Relayed messages, which are *)
(* decrypted and shown nowhere, and the further layers of a message sent    *)
(* are calls like these and add nothing but more of them.                  *)
(***************************************************************************)
EXTENDS Screen, TempFiles

CONSTANT Letter   \* the encryptions: threads that send something

ASSUME DeskAssumption ==
  /\ Call = Mail \cup User \cup Letter
  /\ Mail \cap (User \cup Letter) = {} /\ User \cap Letter = {}
  /\ Op = [c \in Call |-> CASE c \in Mail -> "decrypt" [] c \in User -> "import"
                            [] OTHER -> "encrypt"]

deskVars == << screenVars, tempVars >>

DeskInit == ScreenInit /\ TempInit

\* A thread calls gpg: for a message as soon as its packet has come, for a key
\* between AddUser and the user's entry in the map, for a letter when one was sent.
MayCall(c) ==
  \/ c \in Mail
  \/ c \in User /\ adding = c /\ pc["server"] = "listed"
  \/ /\ c \in Letter
     /\ Cardinality({ l \in Letter : step[l] \notin {"never", "idle"} }) < Cardinality(sent)

StartCall(c) ==
  /\ alive
  /\ MayCall(c)
  /\ \E x \in Name : MakeTemp(c, x)
  /\ UNCHANGED screenVars

RunCall(c) ==
  /\ alive
  /\ TempStep(c)
  /\ UNCHANGED screenVars

UI == UIThread /\ UNCHANGED tempVars

\* One line, or as many as there are letters.
Typed ==
  /\ typed < Max({1, Cardinality({ l \in Letter : step[l] # "never" })})
  /\ \E line \in Line : UserInput(line)
  /\ UNCHANGED tempVars

Pressed == Key /\ UNCHANGED tempVars

Server ==
  /\ \/ \E u \in User : step[u] # "never" /\ AddUser(u)
     \/ RenderUsers("server")
     \/ adding # NoUser /\ step[adding] = "done" /\ Register
  /\ UNCHANGED tempVars

\* What was decrypted is shown, what could not be is not (RecvMsgAsync).
Shown(m) ==
  /\ \/ step[m] = "done" /\ result[m] = m /\ Opened(m)
     \/ Push(m)
  /\ UNCHANGED tempVars

Fetched(m) == Download(m) /\ UNCHANGED tempVars

DeskNext ==
  \/ UI \/ Pressed \/ Typed \/ Server
  \/ \E m \in Mail : Shown(m) \/ Fetched(m)
  \/ \E c \in Call : StartCall(c) \/ RunCall(c)

DeskSafe == DeskInit /\ [][DeskNext]_deskVars

\* Threads run; the user need not type, and a download need not end.
DeskSpec ==
  /\ DeskSafe
  /\ WF_deskVars(UI)
  /\ \A m \in Mail : WF_deskVars(Shown(m))

-----------------------------------------------------------------------------
\* The type invariant of both; no two threads write a line at the same time (msgLock).
TypeOK == ScreenTypeOK /\ TempTypeOK
=============================================================================
