----------------------------- MODULE ScreenProofs -----------------------------
(***************************************************************************)
(* Proofs about Screen, for any users, messages, images and lines.         *)
(***************************************************************************)
EXTENDS Screen, CommandProofs

-----------------------------------------------------------------------------
(* Where the threads are, and who holds the lock.                           *)

UISteps     == {"start", "colour", "greet", "greeted", "prompt", "wait",
                "lock", "write", "finish"} \cup RenderSteps
ServerSteps == {"idle", "listed"} \cup RenderSteps
MailSteps   == {"idle", "download", "lock", "write", "finish", "done"}

Places ==
  /\ tui \in BOOLEAN /\ alive \in BOOLEAN
  /\ pc \in [Thread -> UISteps \cup ServerSteps \cup MailSteps]
  /\ pc["ui"] \in UISteps
  /\ pc["server"] \in ServerSteps
  /\ \A m \in Mail : pc[m] \in MailSteps
  /\ pc["ui"] \in {"colour", "greet", "greeted"} \cup RenderSteps => tui
  /\ windows = (tui /\ pc["ui"] # "start")
  /\ lock \in Thread \cup {NoThread}
  /\ \A t \in Thread : pc[t] \in {"write", "finish"} <=> lock = t

LEMMA ScreenInit_Places == ScreenInit => Places
<1> SUFFICES ASSUME ScreenInit PROVE Places
  OBVIOUS
<1>1. pc \in [Thread -> {"start", "idle"}] /\ pc["ui"] = "start"
      /\ \A t \in Thread : t # "ui" => pc[t] = "idle"
  BY DEF ScreenInit, Thread
<1> QED BY <1>1, ScreenAssumption
        DEF ScreenInit, Places, Thread, UISteps, ServerSteps, MailSteps, RenderSteps

LEMMA Push_Places ==
  ASSUME Places, NEW t \in Mail \cup {"ui"}, Push(t) PROVE Places'
<1> USE ScreenAssumption DEF Places, Thread, Goto, UISteps, ServerSteps, MailSteps, RenderSteps
<1>1. CASE Lock(t)
  BY <1>1 DEF Lock
<1>2. CASE Write(t)
  BY <1>2 DEF Write
<1>3. CASE Finish(t)
  BY <1>3 DEF Finish, LockAfter
<1> QED BY <1>1, <1>2, <1>3 DEF Push

LEMMA Render_Places ==
  ASSUME Places, NEW t \in Renderer, RenderUsers(t) PROVE Places'
<1> USE ScreenAssumption DEF Places, Thread, Renderer, Goto, UISteps, ServerSteps, MailSteps,
    RenderSteps, MayAbort, display
<1>1. CASE Alloc(t)
  BY <1>1 DEF Alloc
<1>2. CASE Fill(t)
  BY <1>2 DEF Fill
<1>3. CASE Count(t)
  BY <1>3 DEF Count
<1>4. CASE ClearList(t)
  BY <1>4 DEF ClearList
<1>5. CASE DrawList(t)
  BY <1>5 DEF DrawList
<1>6. CASE FreeList(t)
  BY <1>6 DEF FreeList
<1> QED BY <1>1, <1>2, <1>3, <1>4, <1>5, <1>6 DEF RenderUsers

LEMMA ScreenNext_Places == Places /\ [ScreenNext]_screenVars => Places'
<1> SUFFICES ASSUME Places, [ScreenNext]_screenVars PROVE Places'
  OBVIOUS
<1> USE ScreenAssumption DEF Places, Thread, Goto, UISteps, ServerSteps, MailSteps,
    RenderSteps, display
<1>1. CASE DrawWindows
  BY <1>1 DEF DrawWindows
<1>2. CASE WelcomeColour \/ WelcomeText \/ WelcomeDone \/ Prompt \/ Key
  BY <1>2 DEF WelcomeColour, WelcomeText, WelcomeDone, Prompt, Key
<1>3. ASSUME NEW line \in Line, UserInput(line) PROVE Places'
  BY <1>3 DEF UserInput, Enter, EnterClear, EnterNothing
<1>4. ASSUME NEW u \in User, AddUser(u) PROVE Places'
  BY <1>4 DEF AddUser
<1>5. ASSUME NEW m \in Mail, Opened(m) \/ Download(m) PROVE Places'
  BY <1>5 DEF Opened, Download
<1>6. CASE Register
  BY <1>6 DEF Register
<1>7. CASE UNCHANGED screenVars
  BY <1>7 DEF screenVars
<1> HIDE DEF Places
<1> QED BY <1>1, <1>2, <1>3, <1>4, <1>5, <1>6, <1>7, Push_Places, Render_Places
        DEF ScreenNext, UIThread, Renderer

-----------------------------------------------------------------------------
(* What is written and what is sent.                                        *)

Kind   == Mail \cup {"nothing", "own", "error", "help", "clear"}
Colour == {"plain", "yellow", "red"}
Piece  == [of : Kind \cup {"welcome", "prompt"},
           part : {"line", "head", "rest", "prompt", "clear"}, colour : Colour]

Words(kind) == IF kind = "msg" THEN {"/msg", "/m"} ELSE {"/img", "/i"}

\* What is sent, as it was typed.
Sendable ==
  { s \in [line : Line, kind : {"msg", "img"}, id : { << u >> : u \in User }, text : Typing] :
      \E cmd \in Words(s.kind) : s.line = Joined(<< cmd >>, Joined(s.id, s.text)) }

Texts ==
  /\ typed \in 0 .. MaxLines
  /\ attr \in Colour
  /\ cursor \in {"input", "chat", "list"}
  /\ chat \in Seq(Piece)
  /\ push \in [Thread -> [of : Kind, send : SUBSET Sendable]]
  /\ \A m \in Mail : pc[m] \in {"download", "lock", "write", "finish"} => push[m].of = m
  /\ sent \subseteq Sendable
  /\ known \subseteq User
  /\ adding \in User \cup {NoUser}
  /\ pc["server"] # "idle" => adding \in User

LEMMA ScreenInit_Texts == ScreenInit => Texts
BY ScreenAssumption DEF ScreenInit, Texts, Thread, Nothing, Kind, Colour

\* HandleCommand sends only what Split has taken from the line.
LEMMA Reply_Sendable ==
  ASSUME NEW line \in Line, known \subseteq User
  PROVE  Reply(line) \in [of : Kind, send : SUBSET Sendable]
<1> DEFINE s       == Split(line)
           command == CommandOf(s.cmd)
<1>1. line \in Typing
  BY ScreenAssumption
<1>2. command \in {"msg", "img", "help", "clear", "unknown"}
  BY DEF CommandOf
<1>3. CASE command \notin {"msg", "img"}
  <2>1. Reply(line) = [of |-> IF command = "unknown" THEN "error" ELSE command, send |-> {}]
    BY <1>3 DEF Reply
  <2> HIDE DEF command
  <2> QED BY <1>2, <1>3, <2>1 DEF Kind
<1>4. CASE command \in {"msg", "img"} /\ ~ \E u \in known : s.id = << u >>
  <2>1. Reply(line) = [of |-> "error", send |-> {}]
    BY <1>4 DEF Reply
  <2> QED BY <2>1 DEF Kind
<1>5. CASE command \in {"msg", "img"} /\ \E u \in known : s.id = << u >>
  <2> DEFINE it == [line |-> line, kind |-> command, id |-> s.id, text |-> s.input]
  <2>1. Reply(line) = [of |-> "own", send |-> {it}]
    BY <1>5 DEF Reply
  <2>2. s.input \in Typing /\ line = Joined(s.cmd, Joined(s.id, s.input))
    <3>1. s.id # << >>
      BY <1>5
    <3> QED BY <1>1, <3>1, SplitParts
  <2>3. \E cmd \in Words(command) : s.cmd = << cmd >>
    <3>1. \A cmd : CommandOf(cmd) = "msg" => cmd \in {<< "/msg" >>, << "/m" >>}
      BY DEF CommandOf
    <3>2. \A cmd : CommandOf(cmd) = "img" => cmd \in {<< "/img" >>, << "/i" >>}
      BY DEF CommandOf
    <3> HIDE DEF s
    <3> QED BY <1>5, <3>1, <3>2 DEF Words
  <2> HIDE DEF s, command
  <2>4. it \in Sendable
    BY <1>5, <2>2, <2>3 DEF Sendable
  <2> HIDE DEF it
  <2> QED BY <2>1, <2>4 DEF Kind
<1> QED BY <1>2, <1>3, <1>4, <1>5

\* A piece goes to the end of the chat, or begins it anew.
LEMMA Written_Type ==
  ASSUME chat \in Seq(Piece), attr \in Colour, NEW of \in Kind \cup {"welcome", "prompt"},
         NEW part \in {"line", "head", "rest", "prompt", "clear"}
  PROVE  Written(of, part) \in Seq(Piece)
<1> DEFINE piece == [of |-> of, part |-> part, colour |-> attr]
<1>1. piece \in Piece
  BY DEF Piece
<1> HIDE DEF piece
<1>2. Append(chat, piece) \in Seq(Piece) /\ << piece >> \in Seq(Piece)
  BY <1>1
<1> QED BY <1>2 DEF Written, piece

LEMMA Push_Texts ==
  ASSUME Places, Texts, NEW t \in Mail \cup {"ui"}, Push(t) PROVE Texts'
<1> USE ScreenAssumption DEF Texts, Thread, Goto, roster
<1>1. CASE Lock(t)
  BY <1>1 DEF Lock, Places, Coloured, ColourOf, Colour
<1>2. CASE Write(t)
  <2>1. push[t].of \in Kind
    OBVIOUS
  <2>2. chat' \in Seq(Piece)
    BY <1>2, <2>1, Written_Type DEF Write, Drawn
  <2> QED BY <1>2, <2>2 DEF Write, Places
<1>3. CASE Finish(t)
  <2>1. push[t] \in [of : Kind, send : SUBSET Sendable]
    OBVIOUS
  <2>2. chat' \in Seq(Piece)
    BY <1>3, <2>1, Written_Type DEF Finish
  <2>3. push' \in [Thread -> [of : Kind, send : SUBSET Sendable]] /\ sent' \subseteq Sendable
    BY <1>3, <2>1 DEF Finish, Nothing, Kind
  <2> QED BY <1>3, <2>2, <2>3 DEF Finish, Places, CursorAfter, Coloured, Colour
<1> QED BY <1>1, <1>2, <1>3 DEF Push

LEMMA Render_Texts ==
  ASSUME Places, Texts, NEW t \in Renderer, RenderUsers(t) PROVE Texts'
<1> USE ScreenAssumption DEF Texts, Places, Thread, Renderer, Goto, display, MailSteps,
    ServerSteps, UISteps, RenderSteps
<1>1. CASE Alloc(t)
  BY <1>1 DEF Alloc
<1>2. CASE Fill(t)
  BY <1>2 DEF Fill
<1>3. CASE Count(t)
  BY <1>3 DEF Count
<1>4. CASE ClearList(t)
  BY <1>4 DEF ClearList
<1>5. CASE DrawList(t)
  BY <1>5 DEF DrawList
<1>6. CASE FreeList(t)
  BY <1>6 DEF FreeList
<1> QED BY <1>1, <1>2, <1>3, <1>4, <1>5, <1>6 DEF RenderUsers

LEMMA ScreenNext_Texts == Places /\ Texts /\ [ScreenNext]_screenVars => Texts'
<1> SUFFICES ASSUME Places, Texts, [ScreenNext]_screenVars PROVE Texts'
  OBVIOUS
<1> USE ScreenAssumption DEF Texts, Thread, Goto, display, roster
<1>1. CASE DrawWindows
  BY <1>1 DEF DrawWindows
<1>2. CASE WelcomeColour
  BY <1>2 DEF WelcomeColour, Colour, Places
<1>3. CASE WelcomeDone
  BY <1>3 DEF WelcomeDone, Colour, Places
<1>4. CASE Key
  BY <1>4 DEF Key, Places
<1>5. CASE WelcomeText
  <2>1. chat' \in Seq(Piece)
    BY <1>5, Written_Type DEF WelcomeText
  <2> QED BY <1>5, <2>1 DEF WelcomeText, Places
<1>6. CASE Prompt
  <2>1. chat' \in Seq(Piece)
    BY <1>6, Written_Type DEF Prompt
  <2> QED BY <1>6, <2>1 DEF Prompt, Places
<1>7. ASSUME NEW line \in Line, Enter(line) PROVE Texts'
  <2>1. push' \in [Thread -> [of : Kind, send : SUBSET Sendable]]
    BY <1>7, Reply_Sendable DEF Enter
  <2> QED BY <1>7, <2>1 DEF Enter, Places
<1>8. ASSUME NEW line \in Line, EnterClear(line) PROVE Texts'
  <2>1. chat' \in Seq(Piece)
    BY <1>8, Written_Type DEF EnterClear, Kind
  <2> QED BY <1>8, <2>1 DEF EnterClear, Places
<1>9. ASSUME NEW line \in Line, EnterNothing(line) PROVE Texts'
  BY <1>9 DEF EnterNothing, Places
<1>10. ASSUME NEW u \in User, AddUser(u) PROVE Texts'
  BY <1>10 DEF AddUser, Places
<1>11. CASE Register
  BY <1>11 DEF Register, Places
<1>12. ASSUME NEW m \in Mail, Opened(m) PROVE Texts'
  BY <1>12 DEF Opened, Places, Kind
<1>13. ASSUME NEW m \in Mail, Download(m) PROVE Texts'
  BY <1>13 DEF Download, Places
<1>14. CASE UNCHANGED screenVars
  BY <1>14 DEF screenVars
<1> HIDE DEF Texts
<1> QED BY <1>1, <1>2, <1>3, <1>4, <1>5, <1>6, <1>7, <1>8, <1>9, <1>10,
           <1>11, <1>12, <1>13, <1>14, Push_Texts, Render_Texts
        DEF ScreenNext, UIThread, UserInput, Renderer

-----------------------------------------------------------------------------
(* The colour chatWin writes in.                                            *)

Painted ==
  /\ pc["ui"] \notin {"greet", "greeted"} =>
       attr = IF tui /\ pc["ui"] \in {"write", "finish"} THEN ColourOf(push["ui"].of) ELSE "plain"
  /\ tui => \A k \in DOMAIN chat : chat[k].part # "head"

LEMMA ScreenInit_Painted == ScreenInit => Painted
BY ScreenAssumption DEF ScreenInit, Painted, Thread

\* Messages are not coloured.
LEMMA Mail_Plain == \A m \in Mail : ColourOf(m) = "plain"
BY ScreenAssumption DEF ColourOf

\* In the TUI a piece is all there is to see of the chat.
LEMMA Written_Once ==
  ASSUME Painted, tui, NEW of, NEW part
  PROVE  Written(of, part) = << [of |-> of, part |-> part, colour |-> attr] >>
BY DEF Painted, Written, Open

LEMMA Push_Painted ==
  ASSUME Places, Texts, Painted, NEW t \in Mail \cup {"ui"}, Push(t) PROVE Painted'
<1> USE ScreenAssumption DEF Painted, Places, Thread, Goto
<1>1. CASE Lock(t)
  <2>1. t \in Mail => ~ Coloured(t)
    BY <1>1, Mail_Plain DEF Lock, Texts, Coloured
  <2> QED BY <1>1, <2>1 DEF Lock, Coloured
<1>2. CASE Write(t)
  <2>1. attr' = attr /\ push' = push /\ tui' = tui
    BY <1>2 DEF Write
  <2>2. tui => \A k \in DOMAIN chat' : chat'[k].part # "head"
    BY <1>2, Written_Once DEF Write, Drawn
  <2> QED BY <1>2, <2>1, <2>2 DEF Write
<1>3. CASE Finish(t)
  <2>1. t \in Mail => ~ Coloured(t)
    BY <1>3, Mail_Plain DEF Finish, Texts, Coloured
  <2>2. tui => chat' = chat
    BY <1>3 DEF Finish
  <2> QED BY <1>3, <2>1, <2>2 DEF Finish, Coloured
<1> QED BY <1>1, <1>2, <1>3 DEF Push

LEMMA Render_Painted ==
  ASSUME Places, Painted, NEW t \in Renderer, RenderUsers(t) PROVE Painted'
<1> USE ScreenAssumption DEF Painted, Places, Thread, Renderer, Goto, display, RenderSteps
<1>1. CASE Alloc(t)
  BY <1>1 DEF Alloc
<1>2. CASE Fill(t)
  BY <1>2 DEF Fill
<1>3. CASE Count(t)
  BY <1>3 DEF Count
<1>4. CASE ClearList(t)
  BY <1>4 DEF ClearList
<1>5. CASE DrawList(t)
  BY <1>5 DEF DrawList
<1>6. CASE FreeList(t)
  BY <1>6 DEF FreeList
<1> QED BY <1>1, <1>2, <1>3, <1>4, <1>5, <1>6 DEF RenderUsers

LEMMA ScreenNext_Painted == Places /\ Texts /\ Painted /\ [ScreenNext]_screenVars => Painted'
<1> SUFFICES ASSUME Places, Texts, Painted, [ScreenNext]_screenVars PROVE Painted'
  OBVIOUS
<1> USE ScreenAssumption DEF Painted, Places, Thread, Goto, display
<1>1. CASE DrawWindows
  BY <1>1 DEF DrawWindows
<1>2. CASE WelcomeColour
  BY <1>2 DEF WelcomeColour
<1>3. CASE WelcomeText
  BY <1>3, Written_Once DEF WelcomeText
<1>4. CASE WelcomeDone
  BY <1>4 DEF WelcomeDone
<1>5. CASE Prompt
  BY <1>5 DEF Prompt
<1>6. CASE Key
  BY <1>6 DEF Key
<1>7. ASSUME NEW line \in Line, Enter(line) PROVE Painted'
  BY <1>7 DEF Enter, Texts
<1>8. ASSUME NEW line \in Line, EnterClear(line) PROVE Painted'
  BY <1>8 DEF EnterClear
<1>9. ASSUME NEW line \in Line, EnterNothing(line) PROVE Painted'
  BY <1>9 DEF EnterNothing
<1>10. ASSUME NEW u \in User, AddUser(u) PROVE Painted'
  BY <1>10 DEF AddUser
<1>11. CASE Register
  BY <1>11 DEF Register
<1>12. ASSUME NEW m \in Mail, Opened(m) \/ Download(m) PROVE Painted'
  BY <1>12 DEF Opened, Download, Texts
<1>13. CASE UNCHANGED screenVars
  BY <1>13 DEF screenVars
<1> HIDE DEF Painted, Places
<1> QED BY <1>1, <1>2, <1>3, <1>4, <1>5, <1>6, <1>7, <1>8, <1>9, <1>10,
           <1>11, <1>12, <1>13, Push_Painted, Render_Painted
        DEF ScreenNext, UIThread, UserInput, Renderer

-----------------------------------------------------------------------------
(* The pieces of the lines that the CUI writes.                             *)

\* A line of this kind has been begun, and nothing but prompts and cleared screens
\* has come since.
Begun(of) ==
  /\ chat # << >>
  /\ chat[1].of = of /\ chat[1].part = "head"
  /\ \A i \in 2 .. Len(chat) : chat[i].part \in {"prompt", "clear"}

Pieces ==
  ~ tui =>
    /\ \A t \in Thread : pc[t] = "finish" => Begun(push[t].of)
    /\ (\A t \in Thread : pc[t] # "finish") => ~ Open
    /\ LinesWhole

LEMMA ScreenInit_Pieces == ScreenInit => Pieces
BY ScreenAssumption DEF ScreenInit, Pieces, Open, LinesWhole, Thread

LEMMA Begun_Open ==
  ASSUME chat \in Seq(Piece), NEW of, Begun(of)
  PROVE  Open
BY DEF Begun, Open, Last

\* A piece that begins a line, or a prompt between lines.
LEMMA Written_New ==
  ASSUME chat \in Seq(Piece), ~ Open, NEW of, NEW part, part # "rest",
         chat' = Written(of, part)
  PROVE  LinesWhole' /\ (part = "head" => Begun(of)') /\ (part # "head" => ~ Open')
<1>1. chat' = << [of |-> of, part |-> part, colour |-> attr] >>
  BY DEF Written
<1> QED BY <1>1 DEF LinesWhole, Begun, Open

\* A prompt in the middle of a line.
LEMMA Written_Between ==
  ASSUME chat \in Seq(Piece), NEW of, Begun(of), NEW kind, NEW part \in {"prompt", "clear"},
         chat' = Written(kind, part)
  PROVE  Begun(of)' /\ LinesWhole'
<1> DEFINE piece == [of |-> kind, part |-> part, colour |-> attr]
<1>1. chat' = Append(chat, piece)
  BY Begun_Open DEF Written
<1>2. piece.part \in {"prompt", "clear"}
  OBVIOUS
<1> HIDE DEF piece
<1>3. Begun(of)'
  BY <1>1, <1>2 DEF Begun
<1> QED BY <1>3, <1>1, <1>2 DEF Begun, LinesWhole

\* The piece that ends it.
LEMMA Written_Rest ==
  ASSUME chat \in Seq(Piece), NEW of, Begun(of), chat' = Written(of, "rest")
  PROVE  LinesWhole' /\ ~ Open'
<1> DEFINE piece == [of |-> of, part |-> "rest", colour |-> attr]
<1>1. chat' = Append(chat, piece)
  BY Begun_Open DEF Written
<1>2. piece.part = "rest" /\ piece.of = of
  OBVIOUS
<1> HIDE DEF piece
<1>3. ~ Open'
  BY <1>1, <1>2 DEF Open, Last
<1>4. LinesWhole'
  <2>1. /\ DOMAIN chat' = 1 .. Len(chat) + 1 /\ Len(chat) \in Nat \ {0}
        /\ chat'[1] = chat[1]
        /\ \A i \in 2 .. Len(chat) : chat'[i] = chat[i]
        /\ chat'[Len(chat) + 1] = piece
    BY <1>1 DEF Begun
  <2>2. /\ chat'[1].of = of /\ chat'[1].part = "head"
        /\ \A i \in 2 .. Len(chat) : chat'[i].part \in {"prompt", "clear"}
    BY <2>1 DEF Begun
  <2>3. ASSUME NEW k \in DOMAIN chat', chat'[k].part = "rest" PROVE k = Len(chat) + 1
    BY <2>1, <2>2, <2>3
  <2> QED BY <1>2, <2>1, <2>2, <2>3 DEF LinesWhole
<1> QED BY <1>3, <1>4

LEMMA Push_Pieces ==
  ASSUME Places, Texts, Pieces, NEW t \in Mail \cup {"ui"}, Push(t) PROVE Pieces'
<1> SUFFICES ASSUME ~ tui PROVE Pieces'
  BY DEF Push, Lock, Write, Finish, Pieces
<1> USE ScreenAssumption DEF Pieces, Thread, Goto
<1>c. chat \in Seq(Piece)
  BY DEF Texts
<1>1. CASE Lock(t)
  BY <1>1 DEF Lock, Places, Begun, Open, LinesWhole
<1>2. CASE Write(t)
  <2>1. \A u \in Thread : pc[u] # "finish"
    BY <1>2 DEF Write, Places
  <2>2. chat' = Written(push[t].of, "head") /\ push' = push /\ tui' = tui
    BY <1>2 DEF Write
  <2>3. LinesWhole' /\ Begun(push[t].of)'
    BY <1>c, <2>1, <2>2, Written_New
  <2>4. pc'[t] = "finish" /\ \A u \in Thread : pc'[u] = "finish" => u = t
    BY <1>2, <2>1 DEF Write, Places
  <2> QED BY <2>2, <2>3, <2>4 DEF Begun
<1>3. CASE Finish(t)
  <2>1. chat' = Written(push[t].of, "rest") /\ Begun(push[t].of) /\ tui' = tui
    BY <1>3 DEF Finish
  <2>2. LinesWhole' /\ ~ Open'
    BY <1>c, <2>1, Written_Rest
  <2>3. \A u \in Thread : pc'[u] # "finish"
    BY <1>3 DEF Finish, Places
  <2> QED BY <2>1, <2>2, <2>3
<1> QED BY <1>1, <1>2, <1>3 DEF Push

\* A prompt, or the screen cleared, while a line may be under way.
LEMMA Interrupt_Pieces ==
  ASSUME Places, Texts, Pieces, ~ tui, tui' = tui, push' = push,
         \A t \in Thread : pc'[t] = "finish" <=> pc[t] = "finish",
         NEW kind, NEW part \in {"prompt", "clear"}, chat' = Written(kind, part)
  PROVE  Pieces'
<1>c. chat \in Seq(Piece)
  BY DEF Texts
<1>1. CASE \E t \in Thread : pc[t] = "finish"
  <2> PICK t \in Thread : pc[t] = "finish"
    BY <1>1
  <2>1. Begun(push[t].of)
    BY DEF Pieces
  <2>2. Begun(push[t].of)' /\ LinesWhole'
    <3> DEFINE of == push[t].of
    <3> HIDE DEF of
    <3>1. Begun(of)
      BY <2>1 DEF of
    <3>2. Begun(of)' /\ LinesWhole'
      BY <1>c, <3>1, Written_Between DEF of
    <3> QED BY <3>2 DEF of, Begun
  <2>3. \A u \in Thread : pc[u] = "finish" => u = t
    BY DEF Places
  <2> QED BY <2>2, <2>3 DEF Pieces, Begun
<1>2. CASE \A t \in Thread : pc[t] # "finish"
  <2>1. LinesWhole' /\ ~ Open'
    BY <1>c, <1>2, Written_New DEF Pieces
  <2> QED BY <1>2, <2>1 DEF Pieces
<1> QED BY <1>1, <1>2

LEMMA Render_Pieces ==
  ASSUME Places, Pieces, NEW t \in Renderer, RenderUsers(t) PROVE Pieces'
<1>1. UNCHANGED << tui, chat, push >> /\ \A u \in Thread : pc'[u] = "finish" <=> pc[u] = "finish"
  BY DEF RenderUsers, Alloc, Fill, Count, ClearList, DrawList, FreeList, Renderer, Goto,
         display, Places, Thread
<1> QED BY <1>1 DEF Pieces, Begun, Open, LinesWhole

LEMMA ScreenNext_Pieces == Places /\ Texts /\ Pieces /\ [ScreenNext]_screenVars => Pieces'
<1> SUFFICES ASSUME Places, Texts, Pieces, [ScreenNext]_screenVars PROVE Pieces'
  OBVIOUS
<1> USE ScreenAssumption
<1>1. CASE WelcomeColour \/ WelcomeText \/ WelcomeDone \/ Key
  BY <1>1 DEF Pieces, Places, WelcomeColour, WelcomeText, WelcomeDone, Key, Goto, RenderSteps
<1>2. CASE Prompt
  <2>1. CASE tui
    BY <1>2, <2>1 DEF Prompt, Pieces
  <2>2. CASE ~ tui
    <3>1. \A t \in Thread : pc'[t] = "finish" <=> pc[t] = "finish"
      BY <1>2 DEF Prompt, Goto, Places, Thread
    <3>2. chat' = Written("prompt", "prompt") /\ tui' = tui /\ push' = push
      BY <1>2, <2>2 DEF Prompt
    <3> QED BY <2>2, <3>1, <3>2, Interrupt_Pieces
  <2> QED BY <2>1, <2>2
<1>3. ASSUME NEW line \in Line, EnterClear(line) PROVE Pieces'
  <2>1. \A t \in Thread : pc'[t] = "finish" <=> pc[t] = "finish"
    BY <1>3 DEF EnterClear, Goto, Places, Thread
  <2>2. ~ tui /\ chat' = Written("clear", "clear") /\ tui' = tui /\ push' = push
    BY <1>3 DEF EnterClear
  <2> QED BY <2>1, <2>2, Interrupt_Pieces
<1>4. ASSUME NEW line \in Line, Enter(line) PROVE Pieces'
  <2>1. \A t \in Thread : pc'[t] = "finish" => pc[t] = "finish" /\ push'[t] = push[t]
    BY <1>4 DEF Enter, Goto, Places, Texts, Thread
  <2>2. \A t \in Thread : pc[t] = "finish" => pc'[t] = "finish"
    BY <1>4 DEF Enter, Goto, Places, Thread
  <2>3. chat' = chat /\ tui' = tui
    BY <1>4 DEF Enter
  <2> QED BY <2>1, <2>2, <2>3 DEF Pieces, Begun, Open, LinesWhole
<1>5. ASSUME NEW m \in Mail, Opened(m) PROVE Pieces'
  <2>1. \A t \in Thread : pc'[t] = "finish" => pc[t] = "finish" /\ push'[t] = push[t]
    BY <1>5 DEF Opened, Goto, Places, Texts, Thread
  <2>2. \A t \in Thread : pc[t] = "finish" => pc'[t] = "finish"
    BY <1>5 DEF Opened, Goto, Places, Thread
  <2>3. chat' = chat /\ tui' = tui
    BY <1>5 DEF Opened
  <2> QED BY <2>1, <2>2, <2>3 DEF Pieces, Begun, Open, LinesWhole
<1>6. ASSUME UNCHANGED << tui, chat, push >>,
             \A t \in Thread : pc'[t] = "finish" <=> pc[t] = "finish"
      PROVE  Pieces'
  BY <1>6 DEF Pieces, Begun, Open, LinesWhole
<1>7. CASE DrawWindows \/ Register
  BY <1>7, <1>6 DEF DrawWindows, Register, Goto, display, Places, Thread
<1>8. ASSUME NEW m \in Mail, Download(m) PROVE Pieces'
  BY <1>8, <1>6 DEF Download, Goto, display, Places, Thread
<1>9. ASSUME NEW line \in Line, EnterNothing(line) PROVE Pieces'
  BY <1>9, <1>6 DEF EnterNothing, Goto, display, Places, Thread
<1>10. ASSUME NEW u \in User, AddUser(u) PROVE Pieces'
  BY <1>10, <1>6 DEF AddUser, Goto, display, Places, Thread
<1>11. CASE UNCHANGED screenVars
  BY <1>11, <1>6 DEF screenVars, display
<1> QED BY <1>1, <1>2, <1>3, <1>4, <1>5, <1>7, <1>8, <1>9, <1>10, <1>11, Push_Pieces, Render_Pieces
        DEF ScreenNext, UIThread, UserInput, Renderer

-----------------------------------------------------------------------------
(* The cursor.                                                              *)

Pointer ==
  (tui /\ pc["ui"] = "wait" /\ pc["server"] # "free" /\ \A m \in Mail : pc[m] # "finish") =>
    cursor = "input"

LEMMA ScreenInit_Pointer == ScreenInit => Pointer
BY DEF ScreenInit, Pointer

LEMMA Push_Pointer ==
  ASSUME Places, Texts, Pointer, NEW t \in Mail \cup {"ui"}, Push(t) PROVE Pointer'
<1> USE ScreenAssumption DEF Pointer, Places, Thread, Goto
<1>1. CASE Lock(t)
  BY <1>1 DEF Lock
<1>2. CASE Write(t)
  BY <1>2 DEF Write
<1>3. CASE Finish(t)
  <2>1. t \in Mail => push[t].of # "clear"
    BY <1>3 DEF Finish, Texts
  <2>2. t \in Mail /\ windows => cursor' = "input"
    BY <1>3, <2>1 DEF Finish, CursorAfter
  <2>3. t = "ui" => pc'["ui"] = "prompt"
    BY <1>3 DEF Finish
  <2>4. t \in Mail => pc'["ui"] = pc["ui"] /\ tui' = tui
    BY <1>3 DEF Finish
  <2> QED BY <2>2, <2>3, <2>4
<1> QED BY <1>1, <1>2, <1>3 DEF Push

LEMMA Render_Pointer ==
  ASSUME Places, Pointer, NEW t \in Renderer, RenderUsers(t) PROVE Pointer'
<1> USE ScreenAssumption DEF Pointer, Places, Thread, Renderer, Goto, RenderSteps
<1>1. CASE Alloc(t)
  BY <1>1 DEF Alloc
<1>2. CASE Fill(t)
  BY <1>2 DEF Fill
<1>3. CASE Count(t)
  BY <1>3 DEF Count
<1>4. CASE ClearList(t)
  BY <1>4 DEF ClearList
<1>5. CASE DrawList(t)
  BY <1>5 DEF DrawList
<1>6. CASE FreeList(t)
  BY <1>6 DEF FreeList
<1> QED BY <1>1, <1>2, <1>3, <1>4, <1>5, <1>6 DEF RenderUsers

LEMMA ScreenNext_Pointer == Places /\ Texts /\ Pointer /\ [ScreenNext]_screenVars => Pointer'
<1> SUFFICES ASSUME Places, Texts, Pointer, [ScreenNext]_screenVars PROVE Pointer'
  OBVIOUS
<1> USE ScreenAssumption DEF Pointer, Places, Thread, Goto
<1>1. CASE DrawWindows
  BY <1>1 DEF DrawWindows
<1>2. CASE WelcomeColour \/ WelcomeText \/ WelcomeDone
  BY <1>2 DEF WelcomeColour, WelcomeText, WelcomeDone
<1>3. CASE Prompt \/ Key
  BY <1>3 DEF Prompt, Key
<1>4. ASSUME NEW line \in Line, UserInput(line) PROVE Pointer'
  BY <1>4 DEF UserInput, Enter, EnterClear, EnterNothing
<1>5. ASSUME NEW u \in User, AddUser(u) PROVE Pointer'
  BY <1>5 DEF AddUser
<1>6. CASE Register
  BY <1>6 DEF Register
<1>7. ASSUME NEW m \in Mail, Opened(m) \/ Download(m) PROVE Pointer'
  BY <1>7 DEF Opened, Download
<1>8. CASE UNCHANGED screenVars
  BY <1>8 DEF screenVars
<1> HIDE DEF Pointer, Places
<1> QED BY <1>1, <1>2, <1>3, <1>4, <1>5, <1>6, <1>7, <1>8, Push_Pointer, Render_Pointer
        DEF ScreenNext, UIThread, Renderer

-----------------------------------------------------------------------------
(* The list of users.                                                       *)

Entry == User \cup {"you"}
All   == << "you" >> \o users

Roll ==
  /\ users \in Seq(User)
  /\ list \in Seq(Entry)
  /\ overlap \in BOOLEAN
  /\ render \in [Renderer -> [held : Seq(Entry), room : Nat, count : Nat]]

\* Where nothing overlaps, RenderUsers works on the users there are.
Renders ==
  ~ overlap =>
    /\ alive
    /\ ~ (pc["ui"] \in RenderSteps \ {"alloc"} /\ Rendering("server"))
    /\ \A t \in Renderer :
         /\ pc[t] = "fill" => render[t].room = Len(users) + 1
         /\ pc[t] \in {"count", "clear", "draw", "free"} => render[t].held = All
         /\ pc[t] \in {"clear", "draw", "free"} => render[t].count = Len(users) + 1
         /\ pc[t] = "draw" => list = << >>
    /\ pc["ui"] = "free" => list = All
    /\ (windows /\ pc["ui"] \in {"prompt", "wait", "lock", "write", "finish"}
         /\ pc["server"] \notin RenderSteps \ {"free"}) => list = All

LEMMA ScreenInit_Renders == ScreenInit => Roll /\ Renders
<1> SUFFICES ASSUME ScreenInit PROVE Roll /\ Renders
  OBVIOUS
<1>1. \A t \in Thread : pc[t] \in {"start", "idle"}
  BY DEF ScreenInit, Thread
<1>2. Roll
  <2>1. << >> \in Seq(User) /\ << >> \in Seq(Entry) /\ 0 \in Nat
    OBVIOUS
  <2> HIDE DEF Entry
  <2> QED BY <2>1 DEF ScreenInit, Roll
<1>3. Renders
  BY <1>1 DEF ScreenInit, Renders, RenderSteps, Rendering, Thread, Renderer
<1> QED BY <1>2, <1>3

LEMMA All_Type == Roll => All \in Seq(Entry) /\ Len(All) = Len(users) + 1
<1> SUFFICES ASSUME Roll PROVE All \in Seq(Entry) /\ Len(All) = Len(users) + 1
  OBVIOUS
<1>1. users \in Seq(Entry) /\ << "you" >> \in Seq(Entry) /\ Len(<< "you" >>) = 1
  BY DEF Roll, Entry
<1> QED BY <1>1 DEF All

LEMMA Min_Two == ASSUME NEW a \in Nat, NEW b \in Nat PROVE Min({a, b}) = IF a <= b THEN a ELSE b
BY DEF Min

\* All that is drawn, when what is held is all and counted right.
LEMMA Drawn_All ==
  ASSUME Roll
  PROVE  << >> \o SubSeq(All, 1, Min({Len(users) + 1, Len(All)})) = All
<1>1. All \in Seq(Entry) /\ Len(All) = Len(users) + 1 /\ Len(users) \in Nat
  BY All_Type DEF Roll
<1> HIDE DEF All
<1>2. Min({Len(users) + 1, Len(All)}) = Len(All)
  BY <1>1, Min_Two
<1>3. SubSeq(All, 1, Len(All)) = All
  BY <1>1
<1> QED BY <1>1, <1>2, <1>3

\* Only the threads' own steps and AddUser disturb the lists.
LEMMA Same_Renders ==
  ASSUME Places, Roll, Renders, UNCHANGED << users, list, render, overlap, alive, tui >>,
         windows => windows',
         \A t \in Renderer : Rendering(t)' <=> Rendering(t),
         \A t \in Renderer : Rendering(t) => pc'[t] = pc[t],
         pc["ui"] \in {"prompt", "wait", "lock", "write", "finish"} <=>
           pc'["ui"] \in {"prompt", "wait", "lock", "write", "finish"},
         windows' => windows \/ pc'["ui"] = "colour"
  PROVE  Roll' /\ Renders'
<1>1. Roll'
  BY DEF Roll
<1>2. Renders'
  BY DEF Renders, RenderSteps, Rendering, Renderer, All
<1> QED BY <1>1, <1>2

LEMMA Render_Renders ==
  ASSUME Places, Roll, Renders, NEW t \in Renderer, RenderUsers(t) PROVE Roll' /\ Renders'
<1> All \in Seq(Entry) /\ Len(All) = Len(users) + 1 /\ Len(users) \in Nat
  BY All_Type DEF Roll
<1>a. users' = users => All' = All
  BY DEF All
<1> USE DEF Renderer, Goto
<1>1. CASE Alloc(t)
  <2>1. Roll'
    <3>1. render[t] \in [held : Seq(Entry), room : Nat, count : Nat] /\ Room \in Nat
      BY DEF Roll, Room
    <3>2. render' = [render EXCEPT ![t] = [@ EXCEPT !.room = Room]] /\ overlap' \in BOOLEAN
      BY <1>1 DEF Alloc, Roll
    <3>3. users' = users /\ list' = list
      BY <1>1 DEF Alloc
    <3> QED BY <3>1, <3>2, <3>3 DEF Roll
  <2>2. Renders'
    BY <1>1, <1>a DEF Alloc, Roll, Renders, Room, Places, Thread, Rendering, RenderSteps
  <2> QED BY <2>1, <2>2
<1>2. CASE Fill(t)
  <2> << "you" >> \o users = All
    BY DEF All
  <2>1. Roll'
    BY <1>2 DEF Fill, Roll
  <2>2. ~ overlap => alive'
    <3>1. ~ overlap => ~ (Len(users) + 1 > render[t].room)
      BY <1>2 DEF Fill, Renders
    <3>2. ~ overlap => alive' = TRUE
      BY <1>2, <3>1 DEF Fill, MayAbort
    <3> QED BY <3>2
  <2>3. Renders'
    BY <1>2, <1>a, <2>2 DEF Fill, Roll, Renders, Places, Thread, Rendering, RenderSteps
  <2> QED BY <2>1, <2>3
<1>3. CASE Count(t)
  <2>1. Roll'
    <3>1. render[t] \in [held : Seq(Entry), room : Nat, count : Nat] /\ Everybody \in Nat
      BY DEF Roll, Everybody
    <3>2. render' = [render EXCEPT ![t] = [@ EXCEPT !.count = Everybody]]
      BY <1>3 DEF Count
    <3>3. users' = users /\ list' = list /\ overlap' = overlap
      BY <1>3 DEF Count
    <3> QED BY <3>1, <3>2, <3>3 DEF Roll
  <2>2. Renders'
    BY <1>3, <1>a DEF Count, Roll, Renders, Everybody, Places, Thread, Rendering, RenderSteps
  <2> QED BY <2>1, <2>2
<1>4. CASE ClearList(t)
  <2>1. Roll'
    BY <1>4 DEF ClearList, Roll
  <2>2. Renders'
    BY <1>4, <1>a DEF ClearList, Roll, Renders, Places, Thread, Rendering, RenderSteps
  <2> QED BY <2>1, <2>2
<1>5. CASE DrawList(t)
  <2>1. ~ overlap => /\ render[t].held = All /\ render[t].count = Len(users) + 1
                     /\ list = << >> /\ alive'
    <3>1. ~ overlap => render[t].held = All /\ render[t].count = Len(users) + 1 /\ list = << >>
      BY <1>5 DEF DrawList, Renders
    <3>2. ~ overlap => ~ (render[t].count > Len(render[t].held))
      BY <3>1
    <3>3. ~ overlap => alive' = TRUE
      BY <1>5, <3>2 DEF DrawList, MayAbort
    <3> QED BY <3>1, <3>3
  <2>2. ~ overlap /\ windows => list' = All
    BY <1>5, <2>1, Drawn_All DEF DrawList
  <2>3. list' \in Seq(Entry)
    <3>1. list \in Seq(Entry) /\ render[t].held \in Seq(Entry) /\ render[t].count \in Nat
      BY DEF Roll
    <3> DEFINE n == Min({render[t].count, Len(render[t].held)})
    <3>2. n \in 0 .. Len(render[t].held)
      <4>1. Len(render[t].held) \in Nat
        BY <3>1
      <4>2. n = IF render[t].count <= Len(render[t].held)
                THEN render[t].count ELSE Len(render[t].held)
        BY <3>1, <4>1, Min_Two
      <4> QED BY <3>1, <4>1, <4>2
    <3> HIDE DEF n
    <3>3. SubSeq(render[t].held, 1, n) \in Seq(Entry)
      BY <3>1, <3>2
    <3> DEFINE shown == SubSeq(render[t].held, 1, n)
    <3> HIDE DEF shown
    <3>4. list \o shown \in Seq(Entry)
      BY <3>1, <3>3 DEF shown
    <3> QED BY <1>5, <3>1, <3>4 DEF DrawList, shown, n
  <2>4. Roll'
    BY <1>5, <2>3 DEF DrawList, Roll
  <2>5. Renders'
    BY <1>5, <1>a, <2>1, <2>2 DEF DrawList, Roll, Renders, Places, Thread, Rendering, RenderSteps
  <2> QED BY <2>4, <2>5
<1>6. CASE FreeList(t)
  <2>1. ~ overlap => alive'
    <3>1. ~ overlap => ~ (Len(users) + 1 > Len(render[t].held))
      BY <1>6 DEF FreeList, Renders
    <3>2. ~ overlap => alive' = TRUE
      BY <1>6, <3>1 DEF FreeList, MayAbort
    <3> QED BY <3>2
  <2>2. Roll'
    <3>1. << >> \in Seq(Entry)
      OBVIOUS
    <3> HIDE DEF Entry
    <3> QED BY <1>6, <3>1 DEF FreeList, Roll
  <2>3. Renders'
    BY <1>6, <1>a, <2>1 DEF FreeList, Roll, Renders, Places, Thread, Rendering, RenderSteps
  <2> QED BY <2>2, <2>3
<1> QED BY <1>1, <1>2, <1>3, <1>4, <1>5, <1>6 DEF RenderUsers

LEMMA ScreenNext_Renders ==
  Places /\ Roll /\ Renders /\ [ScreenNext]_screenVars => Roll' /\ Renders'
<1> SUFFICES ASSUME Places, Roll, Renders, [ScreenNext]_screenVars PROVE Roll' /\ Renders'
  OBVIOUS
<1> USE ScreenAssumption
<1> USE DEF Goto, Places, Thread, Renderer, Rendering, RenderSteps
<1>1. ASSUME NEW t \in Mail \cup {"ui"}, Push(t) PROVE Roll' /\ Renders'
  BY <1>1, Same_Renders DEF Push, Lock, Write, Finish, roster
<1>2. CASE DrawWindows
  <2>1. windows = FALSE /\ pc["ui"] = "start" /\ pc'["ui"] \in {"colour", "prompt"}
    BY <1>2 DEF DrawWindows
  <2>2. windows' => pc'["ui"] = "colour"
    BY <1>2 DEF DrawWindows
  <2> QED BY <1>2, <2>1, <2>2 DEF DrawWindows, Renders, Roll, roster, All
<1>3. CASE Register
  BY <1>3, Same_Renders DEF Register
<1>4. CASE WelcomeColour \/ WelcomeText
  BY <1>4, Same_Renders DEF WelcomeColour, WelcomeText, roster
<1>5. CASE WelcomeDone
  BY <1>5 DEF WelcomeDone, roster, Roll, Renders, All
<1>6. CASE Prompt \/ Key
  BY <1>6, Same_Renders DEF Prompt, Key, roster
<1>7. ASSUME NEW line \in Line, UserInput(line) PROVE Roll' /\ Renders'
  BY <1>7, Same_Renders DEF UserInput, Enter, EnterClear, EnterNothing, roster
<1>8. ASSUME NEW m \in Mail, Opened(m) \/ Download(m) PROVE Roll' /\ Renders'
  BY <1>8, Same_Renders DEF Opened, Download, roster
<1>9. ASSUME NEW u \in User, AddUser(u) PROVE Roll' /\ Renders'
  <2>1. << u >> \o users \in Seq(User)
    BY DEF Roll
  <2>2. Roll'
    BY <1>9, <2>1 DEF AddUser, Roll
  <2>3. Renders'
    BY <1>9 DEF AddUser, Renders, Roll, All
  <2> QED BY <2>2, <2>3
<1>10. CASE UNCHANGED screenVars
  BY <1>10, Same_Renders DEF screenVars, roster
<1> QED BY <1>1, <1>2, <1>3, <1>4, <1>5, <1>6, <1>7, <1>8, <1>9, <1>10, Render_Renders
        DEF ScreenNext, UIThread

-----------------------------------------------------------------------------
(* The theorems.                                                            *)

ScreenInv == Places /\ Texts /\ Painted /\ Pieces /\ Pointer /\ Roll /\ Renders

LEMMA ScreenInit_Inv == ScreenInit => ScreenInv
BY ScreenInit_Places, ScreenInit_Texts, ScreenInit_Painted, ScreenInit_Pieces,
   ScreenInit_Pointer, ScreenInit_Renders DEF ScreenInv

LEMMA ScreenNext_Inv == ScreenInv /\ [ScreenNext]_screenVars => ScreenInv'
BY ScreenNext_Places, ScreenNext_Texts, ScreenNext_Painted, ScreenNext_Pieces,
   ScreenNext_Pointer, ScreenNext_Renders DEF ScreenInv

\* The invariant of the screen in every reachable state.
THEOREM ScreenInvariant == ScreenSafe => []ScreenInv
BY ScreenInit_Inv, ScreenNext_Inv, PTL DEF ScreenSafe

LEMMA ScreenInv_TypeOK == ScreenInv => ScreenTypeOK
<1> SUFFICES ASSUME ScreenInv PROVE ScreenTypeOK
  OBVIOUS
<1>1. {tui, alive, windows, overlap} \subseteq BOOLEAN
  BY DEF ScreenInv, Places, Roll
<1>2. Range(users) \subseteq User /\ Range(list) \subseteq User \cup {"you"}
  BY DEF ScreenInv, Roll, Entry, Range
<1>3. attr \in {"plain", "yellow", "red"}
  BY DEF ScreenInv, Texts, Colour
<1> QED BY <1>1, <1>2, <1>3 DEF ScreenInv, Places, Texts, ScreenTypeOK

LEMMA ScreenInv_Properties ==
  ScreenInv => LinesWhole /\ ListShowsUsers /\ AbortsOnlyInOverlap /\ CursorAtInput /\ SentAsTyped
<1> SUFFICES ASSUME ScreenInv
             PROVE  /\ LinesWhole /\ ListShowsUsers /\ AbortsOnlyInOverlap
                    /\ CursorAtInput /\ SentAsTyped
  OBVIOUS
<1> USE DEF ScreenInv
<1>1. LinesWhole
  BY DEF Pieces, LinesWhole
<1>2. ListShowsUsers
  BY DEF Renders, ListShowsUsers, All, Rendering
<1>3. AbortsOnlyInOverlap
  BY DEF Renders, AbortsOnlyInOverlap
<1>4. CursorAtInput
  BY DEF Pointer, CursorAtInput, Rendering, RenderSteps
<1>5. SentAsTyped
  BY DEF Texts, Sendable, Words, SentAsTyped
<1> QED BY <1>1, <1>2, <1>3, <1>4, <1>5

\* Only a line that is written adds to what is seen in the TUI.
LEMMA ScreenNext_Colours ==
  ASSUME ScreenInv, [ScreenNext]_screenVars, tui, pc["ui"] \notin {"greet", "greeted"},
         chat' # chat
  PROVE  \A k \in DOMAIN chat' : chat'[k].colour = ColourOf(chat'[k].of)
<1> USE ScreenAssumption DEF ScreenInv, Goto
<1>1. ASSUME NEW t \in Mail \cup {"ui"}, Push(t)
      PROVE  \A k \in DOMAIN chat' : chat'[k].colour = ColourOf(chat'[k].of)
  <2>1. CASE Lock(t) \/ Finish(t)
    BY <2>1 DEF Lock, Finish
  <2>2. CASE Write(t)
    <3>1. attr = ColourOf(push[t].of)
      <4>1. CASE t = "ui"
        BY <2>2, <4>1 DEF Write, Painted
      <4>2. CASE t \in Mail
        <5>1. pc["ui"] \notin {"write", "finish"}
          BY <2>2, <4>2 DEF Write, Places, Thread
        <5>2. push[t].of = t
          BY <2>2, <4>2 DEF Write, Texts
        <5> QED BY <4>2, <5>1, <5>2, Mail_Plain DEF Painted
      <4> QED BY <4>1, <4>2
    <3>2. chat' = << >> \/ chat' = << [of |-> push[t].of, part |-> "line", colour |-> attr] >>
      BY <2>2, Written_Once DEF Write, Drawn
    <3> QED BY <3>1, <3>2
  <2> QED BY <1>1, <2>1, <2>2 DEF Push
<1>2. ASSUME NEW t \in Renderer, RenderUsers(t) PROVE chat' = chat
  BY <1>2 DEF RenderUsers, Alloc, Fill, Count, ClearList, DrawList, FreeList, display
<1>3. CASE DrawWindows \/ WelcomeColour \/ WelcomeText \/ WelcomeDone \/ Prompt \/ Key \/ Register
  BY <1>3 DEF DrawWindows, WelcomeColour, WelcomeText, WelcomeDone, Prompt, Key, Register, display
<1>4. ASSUME NEW line \in Line, UserInput(line) PROVE chat' = chat
  BY <1>4 DEF UserInput, Enter, EnterClear, EnterNothing, display
<1>5. ASSUME NEW u \in User, AddUser(u) PROVE chat' = chat
  BY <1>5 DEF AddUser, display
<1>6. ASSUME NEW m \in Mail, Opened(m) \/ Download(m) PROVE chat' = chat
  BY <1>6 DEF Opened, Download, display
<1>7. CASE UNCHANGED screenVars
  BY <1>7 DEF screenVars, display
<1> QED BY <1>1, <1>2, <1>3, <1>4, <1>5, <1>6, <1>7 DEF ScreenNext, UIThread, Renderer

\* The screen is type correct, and no two threads are in PushChat, PushError,
\* PushNotification or Clear at the same time (msgLock).
THEOREM ScreenTypeCorrect == ScreenSafe => []ScreenTypeOK
BY ScreenInvariant, ScreenInv_TypeOK, PTL

\* PushError and PushNotification never lend their colour to other threads' lines
\* (writeChat and wattron, tui.cc).
THEOREM ColoursAreOwn == ScreenSafe => OwnColours
<1>1. ScreenInv /\ [ScreenNext]_screenVars =>
        [(tui /\ pc["ui"] \notin {"greet", "greeted"}) =>
           \A k \in DOMAIN chat' : chat'[k].colour = ColourOf(chat'[k].of)]_chat
  BY ScreenNext_Colours
<1> QED BY <1>1, ScreenInvariant, PTL DEF ScreenSafe, OwnColours

\* The terminal never shows two lines mixed: CUI's lock is held for both pieces.
THEOREM LinesAreWhole == ScreenSafe => []LinesWhole
BY ScreenInvariant, ScreenInv_Properties, PTL

\* RenderUsers leaves the list of users as it is, unless the UI thread runs it, without
\* userLock, while the server thread does (UserInputLoop and AddUser, tui.cc).
THEOREM ListIsUsers == ScreenSafe => []ListShowsUsers
BY ScreenInvariant, ScreenInv_Properties, PTL

\* And it stays within its array, unless both run it.
THEOREM AbortNeedsOverlap == ScreenSafe => []AbortsOnlyInOverlap
BY ScreenInvariant, ScreenInv_Properties, PTL

\* The cursor is back in the input line when writeChat and listUsers are done.
THEOREM CursorReturns == ScreenSafe => []CursorAtInput
BY ScreenInvariant, ScreenInv_Properties, PTL

\* HandleCommand sends the message, all of it, to the id that was typed, and nothing
\* for another command.
THEOREM SendsWhatIsTyped == ScreenSafe => []SentAsTyped
BY ScreenInvariant, ScreenInv_Properties, PTL
=============================================================================
