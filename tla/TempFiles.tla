------------------------------ MODULE TempFiles ------------------------------
(***************************************************************************)
(* gpg as the program calls it, with files in /tmp (PGP.cc).               *)
(*                                                                         *)
(* Threads encrypt, decrypt and import keys at the same time.  A call puts  *)
(* its text into a file with a fresh name and runs gpg on it; gpg writes    *)
(* what it encrypts into a second file, whose name is the first one's with  *)
(* .asc appended.  Only the first name is reserved by mkstemp.             *)
(***************************************************************************)
EXTENDS Naturals, FiniteSets

CONSTANTS
  Call,     \* the calls there are, each with a text of its own
  Casts,    \* the sets of calls that are made together, in one behaviour each
  Op,       \* Op[c]: "encrypt", "decrypt" or "import"
  Name,     \* what mkstemp can make of dataXXXXXX
  NoName,   \* a call that has not drawn a name
  NoText    \* no file, or nothing read

ASSUME TempFilesAssumption ==
  /\ Op \in [Call -> {"encrypt", "decrypt", "import"}]
  /\ Casts \subseteq SUBSET Call
  /\ NoName \notin Name
  /\ NoText \notin Call

VARIABLES
  step,     \* how far each call is
  name,     \* the name it has drawn
  file,     \* file[x]: whose text the file called x holds
  asc,      \* asc[x]: whose text is encrypted in x.asc
  result,   \* result[c]: whose text call c returns, encrypted or in clear
  clashed   \* history: calls that drew the name of one about to remove its .asc

tempVars == << step, name, file, asc, result, clashed >>

TempTypeOK ==
  /\ step    \in [Call -> {"never", "idle", "made", "run", "read", "freed", "done"}]
  /\ name    \in [Call -> Name \cup {NoName}]
  /\ file    \in [Name -> Call \cup {NoText}]
  /\ asc     \in [Name -> Call \cup {NoText}]
  /\ result  \in [Call -> Call \cup {NoText}]
  /\ clashed \in SUBSET Call

TempInit ==
  /\ \E cast \in Casts : step = [c \in Call |-> IF c \in cast THEN "idle" ELSE "never"]
  /\ name    = [c \in Call |-> NoName]
  /\ file    = [x \in Name |-> NoText]
  /\ asc     = [x \in Name |-> NoText]
  /\ result  = [c \in Call |-> NoText]
  /\ clashed = {}

-----------------------------------------------------------------------------
\* Bug: a name is made up without asking whether there is such a file.
AnyName(x) == TRUE

\* mkstemp creates only what does not exist; it knows nothing of x.asc.
Free(x) == file[x] = NoText

\* mkstemp, write, close.
MakeTemp(c, x) ==
  /\ step[c] = "idle"
  /\ Free(x)
  /\ step' = [step EXCEPT ![c] = "made"]
  /\ name' = [name EXCEPT ![c] = x]
  /\ file' = [file EXCEPT ![x] = c]
  /\ clashed' = IF \E d \in Call : step[d] = "freed" /\ name[d] = x
                THEN clashed \cup {c} ELSE clashed
  /\ UNCHANGED << asc, result >>

\* gpg --encrypt.  When there is an x.asc it asks at the terminal whether to
\* overwrite it, and whatever is typed there decides.
RunEncrypt(c) ==
  /\ step[c] = "made" /\ Op[c] = "encrypt"
  /\ step' = [step EXCEPT ![c] = "run"]
  /\ \/ asc' = [asc EXCEPT ![name[c]] = file[name[c]]]
     \/ asc[name[c]] # NoText /\ asc' = asc
  /\ UNCHANGED << name, file, result, clashed >>

\* x.asc is read; when it is not there the stream is empty.
ReadAsc(c) ==
  /\ step[c] = "run"
  /\ step' = [step EXCEPT ![c] = "read"]
  /\ result' = [result EXCEPT ![c] = asc[name[c]]]
  /\ UNCHANGED << name, file, asc, clashed >>

\* gpg --decrypt and gpg --import write into a pipe.
RunPiped(c) ==
  /\ step[c] = "made" /\ Op[c] # "encrypt"
  /\ step' = [step EXCEPT ![c] = "read"]
  /\ result' = [result EXCEPT ![c] = file[name[c]]]
  /\ UNCHANGED << name, file, asc, clashed >>

\* Bug: the file is never removed.
KeepTemp(c) ==
  /\ step[c] = "read"
  /\ step' = [step EXCEPT ![c] = IF Op[c] = "encrypt" THEN "freed" ELSE "done"]
  /\ file' = file
  /\ UNCHANGED << name, asc, result, clashed >>

\* remove(path): from here on another call may draw the name.
RemoveTemp(c) ==
  /\ step[c] = "read"
  /\ step' = [step EXCEPT ![c] = IF Op[c] = "encrypt" THEN "freed" ELSE "done"]
  /\ file' = [file EXCEPT ![name[c]] = NoText]
  /\ UNCHANGED << name, asc, result, clashed >>

\* remove(path.asc), whoever's it is by now.
RemoveAsc(c) ==
  /\ step[c] = "freed"
  /\ step' = [step EXCEPT ![c] = "done"]
  /\ asc' = [asc EXCEPT ![name[c]] = NoText]
  /\ UNCHANGED << name, file, result, clashed >>

TempStep(c) ==
  RunEncrypt(c) \/ ReadAsc(c) \/ RunPiped(c) \/ RemoveTemp(c) \/ RemoveAsc(c)

TempNext == \E c \in Call : TempStep(c) \/ \E x \in Name : MakeTemp(c, x)

TempSafe == TempInit /\ [][TempNext]_tempVars

-----------------------------------------------------------------------------
\* A call returns its own text, and not nothing or another thread's, unless the
\* name it drew was that of a call about to remove its .asc.
OwnText ==
  \A c \in Call \ clashed : step[c] = "done" => result[c] = c

\* When no call is under way nothing is left in /tmp, even after such a clash: no
\* text in clear, no ciphertext.
NothingLeft ==
  (\A c \in Call : step[c] \in {"never", "idle", "done"}) =>
    \A x \in Name : file[x] = NoText /\ asc[x] = NoText
=============================================================================
