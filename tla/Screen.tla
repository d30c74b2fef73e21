-------------------------------- MODULE Screen --------------------------------
(***************************************************************************)
(* What the threads of one process show to its user (tui.cc, cui.cc).      *)
(*                                                                         *)
(* The UI thread draws the windows, greets, lists the users and then reads  *)
(* lines and does what they say.  The server thread, which has been running *)
(* since the login, adds users to the list.  A thread for every message     *)
(* received shows it.  Chat lines are written under a lock; the greeting,   *)
(* the first list and the prompt are not.  userLock is taken by the server  *)
(* thread alone and keeps nobody out; it is left out.                      *)
(***************************************************************************)
EXTENDS Command, SequencesExt

CONSTANTS
  User,      \* ids of others
  Mail,      \* messages that are received, each with a thread of its own
  Image,     \* those of them that are images
  Line,      \* lines the user may type
  MaxLines,  \* bound on the lines typed
  NoUser, NoThread

ASSUME ScreenAssumption ==
  /\ Image \in SUBSET Mail
  /\ MaxLines \in Nat
  /\ {"ui", "server", "error", "welcome", "help", "clear"} \cap Mail = {}
  /\ Line \subseteq Typing
  /\ NoThread \notin Mail \cup {"ui", "server"}
  /\ NoUser \notin User

VARIABLES
  tui,      \* whether the TUI or the CUI is used
  alive,    \* the process has not been aborted
  pc,       \* where each thread is
  windows,  \* chatWin and listWin have been created
  lock,     \* who holds msgLock (TUI) or lock (CUI)
  attr,     \* the colour chatWin writes in
  chat,     \* the last line in chatWin; of cout, the pieces since a line was begun
  cursor,   \* the window that was refreshed last
  push,     \* the line each thread is writing
  sent,     \* history: what was handed to DoOnionRouting, and the line it is from
  typed,    \* how many lines have been typed
  users,    \* the provider's list of users, newest first
  adding,   \* the user the server thread is registering
  known,    \* the ids in the messenger's map
  list,     \* the lines in listWin
  render,   \* the locals of RenderUsers in the UI and in the server thread
  overlap   \* history: both were in RenderUsers at the same time, and no user has
            \* been added since

display    == << lock, attr, chat, push, sent >>
roster     == << users, adding, known, list, render, overlap >>
screenVars == << tui, alive, pc, windows, cursor, typed, display, roster >>

Thread   == Mail \cup {"ui", "server"}
Renderer == {"ui", "server"}

RenderSteps == {"alloc", "fill", "count", "clear", "draw", "free"}
Rendering(t) == pc[t] \in RenderSteps

\* A line to be written, and what to send when it is.
Nothing == [of |-> "nothing", send |-> {}]

ScreenInit ==
  /\ tui \in BOOLEAN
  /\ alive = TRUE
  /\ pc = [t \in Thread |-> IF t = "ui" THEN "start" ELSE "idle"]
  /\ windows = FALSE
  /\ lock = NoThread
  /\ attr = "plain"
  /\ chat = << >>
  /\ cursor = "input"
  /\ push = [t \in Thread |-> Nothing]
  /\ sent = {}
  /\ typed = 0
  /\ users = << >> /\ adding = NoUser /\ known = {}
  /\ list = << >>
  /\ render = [t \in Renderer |-> [held |-> << >>, room |-> 0, count |-> 0]]
  /\ overlap = FALSE

ScreenTypeOK ==
  /\ {tui, alive, windows, overlap} \subseteq BOOLEAN
  /\ DOMAIN pc = Thread
  /\ lock \in Thread \cup {NoThread}
  /\ \A t \in Thread : pc[t] \in {"write", "finish"} <=> lock = t
  /\ attr \in {"plain", "yellow", "red"}
  /\ cursor \in {"input", "chat", "list"}
  /\ typed \in 0 .. MaxLines
  /\ known \subseteq User /\ adding \in User \cup {NoUser}
  /\ Range(users) \subseteq User
  /\ Range(list) \subseteq User \cup {"you"}

Goto(t, from, to) == alive /\ pc[t] = from /\ pc' = [pc EXCEPT ![t] = to]

-----------------------------------------------------------------------------
(* Writing a line: PushChat, PushNotification, PushError, Clear.            *)

\* The greeting and help are yellow, errors red.
ColourOf(of) ==
  CASE of \in {"welcome", "help"} -> "yellow" [] of = "error" -> "red" [] OTHER -> "plain"

Coloured(t) == tui /\ ColourOf(push[t].of) # "plain"

\* A line has been begun and not been ended.
Open == \E k \in DOMAIN chat : chat[k].part = "head" /\ Last(chat).part # "rest"

\* A line is written at once in the TUI and in two pieces in the CUI.
Written(of, part) ==
  LET piece == [of |-> of, part |-> part, colour |-> attr]
  IN IF Open THEN Append(chat, piece) ELSE << piece >>

\* Bug: the lock is not waited for.
NoLock(t) ==
  /\ Goto(t, "lock", "write")
  /\ lock' = t
  /\ attr' = IF Coloured(t) THEN ColourOf(push[t].of) ELSE attr
  /\ UNCHANGED << tui, alive, windows, cursor, typed, chat, push, sent, roster >>

\* The lock is taken and, for a coloured line, the colour set.
Lock(t) ==
  /\ Goto(t, "lock", "write")
  /\ lock = NoThread
  /\ lock' = t
  /\ attr' = IF Coloured(t) THEN ColourOf(push[t].of) ELSE attr
  /\ UNCHANGED << tui, alive, windows, cursor, typed, chat, push, sent, roster >>

\* What is in chatWin once the line is there.
Drawn(of) == IF of = "clear" THEN << >> ELSE Written(of, "line")

\* The line is written to the window, and the window refreshed; while there is no
\* window it is lost.  In the CUI the first piece is written.
Write(t) ==
  /\ Goto(t, "write", "finish")
  /\ chat' = CASE ~ tui            -> Written(push[t].of, "head")
               [] tui /\ windows   -> Drawn(push[t].of)
               [] tui /\ ~ windows -> chat
  /\ cursor' = IF windows THEN "chat" ELSE cursor
  /\ UNCHANGED << tui, alive, windows, typed, lock, attr, push, sent, roster >>

\* Bug: the input line is not refreshed.
CursorLeft(t) == cursor

\* writeChat refreshes the input line last; Clear does not.
CursorAfter(t) == IF windows /\ push[t].of # "clear" THEN "input" ELSE cursor

\* Bug: an error is written without releasing the lock.
KeptByErrors(t) == IF push[t].of = "error" THEN t ELSE NoThread

LockAfter(t) == NoThread

\* The input line is refreshed, or the second piece written; the colour is reset and
\* the lock released.  A line of the user's own then goes to DoOnionRouting.
Finish(t) ==
  /\ Goto(t, "finish", IF t = "ui" THEN "prompt" ELSE "done")
  /\ chat' = IF tui THEN chat ELSE Written(push[t].of, "rest")
  /\ cursor' = CursorAfter(t)
  /\ attr' = IF Coloured(t) THEN "plain" ELSE attr
  /\ lock' = LockAfter(t)
  /\ sent' = sent \cup push[t].send
  /\ push' = [push EXCEPT ![t] = Nothing]
  /\ UNCHANGED << tui, alive, windows, typed, roster >>

-----------------------------------------------------------------------------
(* RenderUsers, in two threads.                                             *)

\* Undefined behaviour: the process is aborted, or nothing is noticed.
MayAbort(bad) == alive' \in IF bad THEN BOOLEAN ELSE {TRUE}

\* Bug: no room for the user himself.
RoomForOthers == Len(users)

Room == Len(users) + 1

\* An array for as many users as there are now
Alloc(t) ==
  /\ Goto(t, "alloc", "fill")
  /\ render' = [render EXCEPT ![t].room = Room]
  /\ overlap' = (overlap \/ (t = "ui" /\ Rendering("server")))
  /\ UNCHANGED << tui, alive, windows, cursor, typed, display, users, adding, known, list >>

\* is filled with those there are by then,
Fill(t) ==
  /\ Goto(t, "fill", "count")
  /\ render' = [render EXCEPT ![t].held = << "you" >> \o users]
  /\ MayAbort(Len(users) + 1 > render[t].room)
  /\ UNCHANGED << tui, windows, cursor, typed, display, users, adding, known, list, overlap >>

\* Bug: the user himself is not counted.
OthersOnly == Len(users)

Everybody == Len(users) + 1

\* and passed to listUsers with the number there are now.
Count(t) ==
  /\ Goto(t, "count", "clear")
  /\ render' = [render EXCEPT ![t].count = Everybody]
  /\ UNCHANGED << tui, alive, windows, cursor, typed, display, users, adding, known, list,
                  overlap >>

ClearList(t) ==
  /\ Goto(t, "clear", "draw")
  /\ list' = << >>
  /\ UNCHANGED << tui, alive, windows, cursor, typed, display, users, adding, known, render,
                  overlap >>

\* Lines from beyond the array are whatever is there; none is shown here.
DrawList(t) ==
  LET r == render[t] IN
  /\ Goto(t, "draw", "free")
  /\ list' = IF windows
             THEN list \o SubSeq(r.held, 1, Min({r.count, Len(r.held)}))
             ELSE list
  /\ cursor' = IF windows THEN "list" ELSE cursor
  /\ MayAbort(r.count > Len(r.held))
  /\ UNCHANGED << tui, windows, typed, display, users, adding, known, render, overlap >>

\* The input line is refreshed, and as many entries freed as there are users now.
FreeList(t) ==
  /\ Goto(t, "free", IF t = "ui" THEN "prompt" ELSE "listed")
  /\ cursor' = IF windows THEN "input" ELSE cursor
  /\ MayAbort(Len(users) + 1 > Len(render[t].held))
  /\ render' = [render EXCEPT ![t] = [held |-> << >>, room |-> 0, count |-> 0]]
  /\ UNCHANGED << tui, windows, typed, display, users, adding, known, list, overlap >>

-----------------------------------------------------------------------------
(* The UI thread.                                                           *)

\* drawOnionChatUI: the windows.
DrawWindows ==
  /\ Goto("ui", "start", IF tui THEN "colour" ELSE "prompt")
  /\ windows' = tui
  /\ UNCHANGED << tui, alive, cursor, typed, display, roster >>

\* Welcome, without the lock.
WelcomeColour ==
  /\ Goto("ui", "colour", "greet")
  /\ attr' = "yellow"
  /\ UNCHANGED << tui, alive, windows, cursor, typed, lock, chat, push, sent, roster >>

WelcomeText ==
  /\ Goto("ui", "greet", "greeted")
  /\ chat' = Written("welcome", "line")
  /\ cursor' = "chat"
  /\ UNCHANGED << tui, alive, windows, typed, lock, attr, push, sent, roster >>

WelcomeDone ==
  /\ Goto("ui", "greeted", "alloc")
  /\ attr' = "plain"
  /\ cursor' = "input"
  /\ UNCHANGED << tui, alive, windows, typed, lock, chat, push, sent, roster >>

\* The input line is drawn, or the prompt printed, and a line waited for.
Prompt ==
  /\ Goto("ui", "prompt", "wait")
  /\ cursor' = "input"
  /\ chat' = IF tui THEN chat ELSE Written("prompt", "prompt")
  /\ UNCHANGED << tui, alive, windows, typed, lock, attr, push, sent, roster >>

\* A key is pressed: the input line is drawn again.
Key ==
  /\ tui
  /\ Goto("ui", "wait", "wait")
  /\ cursor' = "input"
  /\ UNCHANGED << tui, alive, windows, typed, display, roster >>

\* The line HandleCommand writes for what was typed, and what it sends.
Reply(line) ==
  LET s       == Split(line)
      command == CommandOf(s.cmd)
      toKnown == \E u \in known : s.id = << u >>
  IN IF command \notin {"msg", "img"}
     THEN [of |-> IF command = "unknown" THEN "error" ELSE command, send |-> {}]
     ELSE IF toKnown
     THEN [of |-> "own",
           send |-> {[line |-> line, kind |-> command, id |-> s.id, text |-> s.input]}]
     ELSE [of |-> "error", send |-> {}]

\* The user types a line.  In the TUI it may be typed and erased again, which gives
\* an empty command.
Enter(line) ==
  /\ typed < MaxLines
  /\ tui \/ (line # << >> /\ Reply(line).of # "clear")
  /\ Goto("ui", "wait", "lock")
  /\ typed' = typed + 1
  /\ push' = [push EXCEPT !["ui"] = Reply(line)]
  /\ UNCHANGED << tui, alive, windows, cursor, lock, attr, chat, sent, roster >>

\* The CUI runs /usr/bin/clear, without the lock.
EnterClear(line) ==
  /\ typed < MaxLines
  /\ ~ tui /\ Reply(line).of = "clear"
  /\ Goto("ui", "wait", "prompt")
  /\ typed' = typed + 1
  /\ chat' = Written("clear", "clear")
  /\ UNCHANGED << tui, alive, windows, cursor, lock, attr, push, sent, roster >>

\* Nothing is typed: there is nothing to handle.
EnterNothing(line) ==
  /\ typed < MaxLines
  /\ line = << >>
  /\ Goto("ui", "wait", "prompt")
  /\ typed' = typed + 1
  /\ UNCHANGED << tui, alive, windows, cursor, display, roster >>

UserInput(line) == Enter(line) \/ EnterClear(line) \/ EnterNothing(line)

-----------------------------------------------------------------------------
(* The server thread, and the threads of messages.                          *)

\* AddUser, which does nothing in the CUI.
AddUser(u) ==
  /\ u \notin known
  /\ Goto("server", "idle", IF tui THEN "alloc" ELSE "listed")
  /\ adding' = u
  /\ users' = IF tui THEN << u >> \o users ELSE users
  /\ overlap' = Rendering("ui")
  /\ UNCHANGED << tui, alive, windows, cursor, typed, display, known, list, render >>

\* users[id] = user
Register ==
  /\ Goto("server", "listed", "idle")
  /\ known' = known \cup {adding}
  /\ adding' = NoUser
  /\ UNCHANGED << tui, alive, windows, cursor, typed, display, users, list, render, overlap >>

\* A message has been decrypted: HandleMessage, or HandleAArt, which first downloads
\* the image.
Opened(m) ==
  /\ Goto(m, "idle", IF m \in Image THEN "download" ELSE "lock")
  /\ push' = [push EXCEPT ![m] = [of |-> m, send |-> {}]]
  /\ UNCHANGED << tui, alive, windows, cursor, typed, lock, attr, chat, sent, roster >>

\* The download ends, or fails, which shows nothing but the sender.
Download(m) ==
  /\ Goto(m, "download", "lock")
  /\ UNCHANGED << tui, alive, windows, cursor, typed, display, roster >>

Push(t)       == Lock(t) \/ Write(t) \/ Finish(t)
RenderUsers(t) ==
  Alloc(t) \/ Fill(t) \/ Count(t) \/ ClearList(t) \/ DrawList(t) \/ FreeList(t)

UIThread ==
  \/ DrawWindows \/ WelcomeColour \/ WelcomeText \/ WelcomeDone \/ Prompt
  \/ RenderUsers("ui") \/ Push("ui")

ScreenNext ==
  \/ UIThread \/ Key \/ \E line \in Line : UserInput(line)
  \/ RenderUsers("server") \/ Register \/ \E u \in User : AddUser(u)
  \/ \E m \in Mail : Opened(m) \/ Push(m) \/ Download(m)

ScreenSafe == ScreenInit /\ [][ScreenNext]_screenVars

-----------------------------------------------------------------------------
\* A line is never written in the colour of another thread's, nor in plain if it has
\* a colour; only the greeting, which takes no lock, may lend its own to others.
OwnColours ==
  [][ (tui /\ pc["ui"] \notin {"greet", "greeted"}) =>
        \A k \in DOMAIN chat' : chat'[k].colour = ColourOf(chat'[k].of) ]_chat

\* The two pieces of a line written to the terminal follow each other, with nothing
\* in between but a prompt or a cleared screen.  (CUI's lock.)
LinesWhole ==
  ~ tui => \A k \in DOMAIN chat : chat[k].part = "rest" =>
    \E j \in 1 .. k - 1 :
      /\ chat[j].of = chat[k].of /\ chat[j].part = "head"
      /\ \A i \in j + 1 .. k - 1 : chat[i].part \in {"prompt", "clear"}

\* While nobody draws, the list on the screen is the user and those added, newest
\* first, even if the two threads drew it at the same time once, as soon as another
\* user has been added after that.
ListShowsUsers ==
  (windows /\ pc["ui"] \in {"wait", "lock", "write", "finish", "prompt"}
     /\ ~ Rendering("server") /\ ~ overlap) => list = << "you" >> \o users

\* RenderUsers leaves its array's bounds only when it runs in both threads at once.
AbortsOnlyInOverlap == ~ alive => overlap

\* When nobody writes and a key is waited for, the cursor is in the input line.
CursorAtInput ==
  (tui /\ pc["ui"] = "wait" /\ ~ Rendering("server")
    /\ \A m \in Mail : pc[m] \notin {"write", "finish"}) => cursor = "input"

\* What is sent is what was typed: "/msg [Github_ID] [msg]" and "/img [Github_ID] [url]"
\* (README.md:40, 42), the message being all that follows, its spaces included.
SentAsTyped ==
  \A s \in sent :
    \E cmd \in IF s.kind = "msg" THEN {"/msg", "/m"} ELSE {"/img", "/i"} :
      s.line = Joined(<< cmd >>, Joined(s.id, s.text))

\* A message that has been decrypted, with its image if there is one, gets into the chat,
\* its last piece included, unless the process dies: the lock is held for one line at a
\* time.  In the TUI this is said of the messages that come, or still wait for the lock,
\* when there are windows: one that is written before that is lost (tui.cc:370 draws
\* them after the server thread has been started, OnionMessenger.cc:331).
MessagesShown ==
  \A m \in Mail :
    (pc[m] = "lock" /\ (tui => windows)) ~>
      ((\E k \in DOMAIN chat : chat[k].of = m /\ chat[k].part \in {"line", "rest"})
         \/ ~ alive)
=============================================================================
