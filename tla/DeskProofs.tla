------------------------------ MODULE DeskProofs ------------------------------
(***************************************************************************)
(* Proofs about TempFiles, for any calls, names and sets of calls, and     *)
(* about Desk: a process is a screen and its calls of gpg, and each keeps  *)
(* in the process what it promises by itself.                              *)
(***************************************************************************)
EXTENDS Desk, ScreenProofs

-----------------------------------------------------------------------------
(* The files of the calls.                                                  *)

\* The file a call works on is its own, and files are there for such calls alone.
Owns(c) == step[c] \in {"made", "run", "read"}

OwnFiles ==
  /\ \A c \in Call : Owns(c) => name[c] \in Name /\ file[name[c]] = c
  /\ \A x \in Name : file[x] # NoText => Owns(file[x]) /\ name[file[x]] = x

\* Every .asc has a call that will remove it, and only encryptions have one.
OwnAscs ==
  /\ \A c \in Call : step[c] \in {"run", "freed"} => Op[c] = "encrypt"
  /\ \A c \in Call : step[c] = "freed" => name[c] \in Name
  /\ \A x \in Name : asc[x] # NoText =>
       \E c \in Call : /\ name[c] = x /\ Op[c] = "encrypt"
                       /\ step[c] \in {"run", "read", "freed"}

\* A call that has not clashed shares its name with no call that is about to remove
\* an .asc, and what it encrypts and returns is its own text.
Unclashed ==
  \A c \in Call \ clashed :
    /\ Owns(c) => \A d \in Call : step[d] = "freed" => name[d] # name[c]
    /\ step[c] = "run" => asc[name[c]] = c
    /\ step[c] \in {"read", "freed", "done"} => result[c] = c

TempInv == TempTypeOK /\ OwnFiles /\ OwnAscs /\ Unclashed

-----------------------------------------------------------------------------
LEMMA TempInit_Inv == TempInit => TempInv
BY TempFilesAssumption DEF TempInit, TempInv, TempTypeOK, OwnFiles, OwnAscs, Unclashed, Owns

\* A new file has a name of no other file, hence of no other call that owns one; and
\* no .asc has that name but those about to be removed.
LEMMA MakeTemp_Inv ==
  ASSUME TempInv, NEW c \in Call, NEW x \in Name, MakeTemp(c, x) PROVE TempInv'
<1> USE TempFilesAssumption DEF MakeTemp, Free, TempInv, Owns
<1>1. TempTypeOK'
  BY DEF TempTypeOK
<1>2. OwnFiles'
  BY DEF TempTypeOK, OwnFiles
<1>3. OwnAscs'
  BY DEF TempTypeOK, OwnAscs
<1>4. Unclashed'
  BY DEF TempTypeOK, OwnFiles, OwnAscs, Unclashed
<1> QED BY <1>1, <1>2, <1>3, <1>4

LEMMA RunEncrypt_Inv ==
  ASSUME TempInv, NEW c \in Call, RunEncrypt(c) PROVE TempInv'
<1> USE TempFilesAssumption DEF RunEncrypt, TempInv, Owns
<1>1. TempTypeOK'
  BY DEF TempTypeOK, OwnFiles
<1>2. OwnFiles'
  BY DEF TempTypeOK, OwnFiles
<1>3. OwnAscs'
  BY DEF TempTypeOK, OwnFiles, OwnAscs
<1>4. Unclashed'
  BY DEF TempTypeOK, OwnFiles, OwnAscs, Unclashed
<1> QED BY <1>1, <1>2, <1>3, <1>4

LEMMA ReadAsc_Inv ==
  ASSUME TempInv, NEW c \in Call, ReadAsc(c) PROVE TempInv'
<1> USE TempFilesAssumption DEF ReadAsc, TempInv, Owns
<1>1. TempTypeOK'
  BY DEF TempTypeOK, OwnFiles
<1>2. OwnFiles' /\ OwnAscs' /\ Unclashed'
  BY DEF TempTypeOK, OwnFiles, OwnAscs, Unclashed
<1> QED BY <1>1, <1>2

LEMMA RunPiped_Inv ==
  ASSUME TempInv, NEW c \in Call, RunPiped(c) PROVE TempInv'
<1> USE TempFilesAssumption DEF RunPiped, TempInv, Owns
<1>1. TempTypeOK'
  BY DEF TempTypeOK, OwnFiles
<1>2. OwnFiles' /\ OwnAscs' /\ Unclashed'
  BY DEF TempTypeOK, OwnFiles, OwnAscs, Unclashed
<1> QED BY <1>1, <1>2

\* From here on the name may be drawn again, and the .asc is still there.
LEMMA RemoveTemp_Inv ==
  ASSUME TempInv, NEW c \in Call, RemoveTemp(c) PROVE TempInv'
<1> USE TempFilesAssumption DEF RemoveTemp, TempInv, Owns
<1>1. TempTypeOK'
  BY DEF TempTypeOK, OwnFiles
<1>2. OwnFiles'
  BY DEF TempTypeOK, OwnFiles
<1>3. OwnAscs'
  BY DEF TempTypeOK, OwnFiles, OwnAscs
<1>4. Unclashed'
  BY DEF TempTypeOK, OwnFiles, OwnAscs, Unclashed
<1> QED BY <1>1, <1>2, <1>3, <1>4

LEMMA RemoveAsc_Inv ==
  ASSUME TempInv, NEW c \in Call, RemoveAsc(c) PROVE TempInv'
<1> USE TempFilesAssumption DEF RemoveAsc, TempInv, Owns
<1>1. TempTypeOK'
  BY DEF TempTypeOK, OwnAscs
<1>2. OwnFiles'
  BY DEF TempTypeOK, OwnFiles
<1>3. OwnAscs'
  BY DEF TempTypeOK, OwnFiles, OwnAscs
<1>4. Unclashed'
  BY DEF TempTypeOK, OwnFiles, OwnAscs, Unclashed
<1> QED BY <1>1, <1>2, <1>3, <1>4

LEMMA TempNext_Inv == TempInv /\ [TempNext]_tempVars => TempInv'
<1> SUFFICES ASSUME TempInv, [TempNext]_tempVars PROVE TempInv'
  OBVIOUS
<1>1. CASE UNCHANGED tempVars
  BY <1>1 DEF tempVars, TempInv, TempTypeOK, OwnFiles, OwnAscs, Unclashed, Owns
<1>2. CASE TempNext
  BY <1>2, MakeTemp_Inv, RunEncrypt_Inv, ReadAsc_Inv, RunPiped_Inv, RemoveTemp_Inv,
     RemoveAsc_Inv DEF TempNext, TempStep
<1> QED BY <1>1, <1>2

\* The invariant of the files in every reachable state.
THEOREM TempInvariant == TempSafe => []TempInv
BY TempInit_Inv, TempNext_Inv, PTL DEF TempSafe

LEMMA TempInv_Properties == TempInv => TempTypeOK /\ OwnText /\ NothingLeft
<1> SUFFICES ASSUME TempInv PROVE TempTypeOK /\ OwnText /\ NothingLeft
  OBVIOUS
<1> USE DEF TempInv
<1>1. OwnText
  BY DEF Unclashed, OwnText
<1>2. NothingLeft
  <2> SUFFICES ASSUME \A c \in Call : step[c] \in {"never", "idle", "done"}, NEW x \in Name
               PROVE  file[x] = NoText /\ asc[x] = NoText
    BY DEF NothingLeft
  <2>1. file[x] = NoText
    BY DEF OwnFiles, Owns, TempTypeOK
  <2>2. asc[x] = NoText
    BY DEF OwnAscs
  <2> QED BY <2>1, <2>2
<1> QED BY <1>1, <1>2

\* A call returns its own text unless its name clashed with one about to remove its
\* .asc (PGP.cc: mkstemp, and remove in Encrypt), however many threads call gpg.
THEOREM TempOwnText == TempSafe => []OwnText
BY TempInvariant, TempInv_Properties, PTL

\* When no call is under way nothing is left in /tmp, clashes or not (remove in
\* Encrypt, Decrypt and ImportKey).
THEOREM TempNothingLeft == TempSafe => []NothingLeft
BY TempInvariant, TempInv_Properties, PTL

-----------------------------------------------------------------------------
(* A process.                                                               *)

\* The threads take only steps of the screen and of the calls.
LEMMA DeskNext_Steps == [DeskNext]_deskVars => [ScreenNext]_screenVars /\ [TempNext]_tempVars
<1> SUFFICES ASSUME [DeskNext]_deskVars
             PROVE  [ScreenNext]_screenVars /\ [TempNext]_tempVars
  OBVIOUS
<1>1. CASE UI
  BY <1>1 DEF UI, ScreenNext
<1>2. CASE Pressed
  BY <1>2 DEF Pressed, ScreenNext
<1>3. CASE Typed
  BY <1>3 DEF Typed, ScreenNext
<1>4. CASE Server
  BY <1>4 DEF Server, ScreenNext
<1>5. ASSUME NEW m \in Mail, Shown(m) PROVE [ScreenNext]_screenVars /\ [TempNext]_tempVars
  BY <1>5 DEF Shown, ScreenNext
<1>6. ASSUME NEW m \in Mail, Fetched(m) PROVE [ScreenNext]_screenVars /\ [TempNext]_tempVars
  BY <1>6 DEF Fetched, ScreenNext
<1>7. ASSUME NEW c \in Call, StartCall(c) PROVE [ScreenNext]_screenVars /\ [TempNext]_tempVars
  BY <1>7 DEF StartCall, TempNext
<1>8. ASSUME NEW c \in Call, RunCall(c) PROVE [ScreenNext]_screenVars /\ [TempNext]_tempVars
  BY <1>8 DEF RunCall, TempNext
<1>9. CASE UNCHANGED deskVars
  BY <1>9 DEF deskVars
<1> QED BY <1>1, <1>2, <1>3, <1>4, <1>5, <1>6, <1>7, <1>8, <1>9 DEF DeskNext

\* A process is a screen, whatever its calls of gpg do, and a set of calls, whatever is
\* on its screen.
THEOREM DeskImplements == DeskSafe => ScreenSafe /\ TempSafe
<1>1. DeskInit => ScreenInit /\ TempInit
  BY DEF DeskInit
<1> QED BY <1>1, DeskNext_Steps, PTL DEF DeskSafe, ScreenSafe, TempSafe

LEMMA TempType == TempSafe => []TempTypeOK
BY TempInvariant, TempInv_Properties, PTL

\* The process is type correct, and no two of its threads write a line at the same
\* time (msgLock, CUI's lock).
THEOREM DeskTypeCorrect == DeskSafe => []TypeOK
<1>1. ScreenTypeOK /\ TempTypeOK => TypeOK
  BY DEF TypeOK
<1> QED BY <1>1, DeskImplements, ScreenTypeCorrect, TempType, PTL

\* What is on the screen of a process and what its threads leave in /tmp is right, for
\* any users, messages, lines and names (tui.cc, cui.cc, PGP.cc).
THEOREM DeskCorrect ==
  DeskSafe => /\ [](LinesWhole /\ ListShowsUsers /\ AbortsOnlyInOverlap)
              /\ [](CursorAtInput /\ SentAsTyped /\ OwnText /\ NothingLeft)
              /\ OwnColours
BY DeskImplements, LinesAreWhole, ListIsUsers, AbortNeedsOverlap, CursorReturns,
   SendsWhatIsTyped, ColoursAreOwn, TempOwnText, TempNothingLeft, PTL
=============================================================================
