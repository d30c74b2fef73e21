# A TLA+ verification of Onion Messenger

Onion Messenger is a peer-to-peer chat program. Every user runs one process; the
processes introduce themselves to each other by *handshakes* until everybody knows
everybody, and send each other messages wrapped in layers of PGP encryption that
are peeled off by randomly chosen relays. This directory holds TLA+ models of it,
TLC configurations that check them, and proofs for TLAPS.

Paths below are relative to the repository (`src/` is its source directory).

## 1. The system

| Component | State | Operations | Correct means |
|---|---|---|---|
| Startup and login (`main.cc`, `OnionMessenger.cc` 298-342, `UI/tui.cc` 120-210, `UI/cui.cc` 15-48, `PGP.cc` 103-145) | options, login form, tries, passphrase, `ID` | `getopt` loop, `LoginUser`, `GetUserInfo`, `Verify_Pass`, `InitServer`, `HandShake(node)`, `Loop` | who is on the network gave the passphrase at the last try, as far as it reaches gpg as typed; three tries; what is dialled is what was named |
| Directory of users (`OnionMessenger.cc` 50-93, 211-247, `User.*`, `Socket.cc`) | `users`: id → (key, address, port, descriptor) | `RecvHandShake`, `HandShake` (twice), `AddUser` | a Rep belongs to one process; acquaintance becomes mutual; the mesh becomes complete; handshakes end |
| Onion routing (`OnionMessenger.cc` 95-208, `OnionMessage.cc`) | on-demand threads with a layer and a relay; ciphertexts in flight | `SendMsgAsync`, `SendImgAsync`, `DoOnionRouting`, `RecvMsgAsync`, `Relay`, `HandleMessage`, `HandleAArt` | layers fit their relays; one copy; shown to the addressee only; nobody fails to decrypt; delivered |
| Packets on the wire (`Packet.cc`, `PacketBuilder.cc`, `OnionMessenger.cc` 28-45) | `ctx->aux`, the packet under construction | `Serialize`, `Unserialize`, `ContinueBuild`, `handleServer` | packets arrive intact and in order however TCP cuts the bytes |
| Layer bytes (`OnionMessage.cc` 14-76) | none | `Serialize`, `Unserialize` | one undoes the other |
| Command interpreter (`OnionMessenger.cc` 249-295) | none | `HandleCommand`, `Help`, `Clear` | the words typed reach the right command |
| TUI (`tui.cc`) | ncurses windows, `users`, two locks | drawing, input line, user list | a line is in its own colour; the list equals the users; the cursor is where one types |
| CUI (`cui.cc`) | a lock | printing, prompt | lines do not mix |
| PGP (`PGP.cc`) | keys, passphrase, temporary files | `Encrypt`, `Decrypt`, key import | who has the key reads, others get nothing; files are not mixed up |
| Sockets (`Socket.cc`) | descriptors | `ConnectTo`, `GetIPaddr` | a descriptor leads to the process it was made for |
| Images (`Features.cc`) | a file | `DisplayAArt`, `download` | a download that hangs keeps no other message from being shown |
| SelectServer (git submodule, not in the repository) | connections, buffers | `newServer`, `ServerLoop`, `ServerWrite`, `CTXRead`, `CTXDiscard` | see section 4, item 4 |

**How they interact.** In a process, the *main thread* logs the user in, starts the
*server thread*, dials the `--node` argument and then reads commands. The server
thread calls `handleServer` for every packet: a handshake is dealt with on the spot,
a message gets a detached thread that decrypts and relays or shows it. A command
`/msg` or `/img` gets a detached thread that encrypts and sends. All of them share
the map `users` (without a lock), write packets under `serverMutex`, lines under the
lock of the user interface, and files in `/tmp` with every call of gpg. Between
processes there are TCP connections; either end keeps the connection of the first
handshake as *the* descriptor of the user at the other end.

**What is hard about it.** Joins that overlap: what a process learns depends on who
registered whom first, and a handshake from a known id is ignored together with the
addresses in it. The routes are random and found by id at every hop, on directories
that differ and still grow. Processes stop without being forgotten, and start again
under ids that others already know. TCP cuts and joins packets. The screen is drawn by
threads that do not all take a lock. The full list, with lines, is in `PROJECT.json` under `hazards`.

## 2. Modules

| Module | What it is | Composes |
|---|---|---|
| `Session` | one process from command line to chat loop | - |
| `Directory` | abstract: what a process promises about the users it knows | - |
| `Mesh` | handshakes between processes | refines `Directory` |
| `Rejoin` | processes that stop and are started again | extends `Mesh` |
| `Delivery` | abstract: what becomes of a message | - |
| `Onion` | messages, relays, processes that stop | extends `Directory`; refines `Delivery` |
| `Builder` | numbers in network order, and back (operators) | - |
| `Layers` | the bytes of a message layer (operators) | extends `Builder` |
| `Framing` | bytes on one direction of a connection | extends `Layers` |
| `Command` | how a line typed is taken apart (operators) | - |
| `Screen` | what the threads of a process show to its user | extends `Command` |
| `TempFiles` | concurrent calls of gpg and their files in `/tmp` | - |
| `Desk` | all threads of one process | composes `Screen` and `TempFiles` |
| `MCSession`, `MCMesh`, `MCLaunch`, `MCRejoin`, `MCOnion`, `MCFraming`, `MCDesk` | instances for TLC | |
| `SessionProofs`, `MeshProofs`, `RejoinProofs`, `OnionProofs`, `FramingProofs`, `CommandProofs`, `ScreenProofs`, `DeskProofs` | theorems and their proofs (those about `TempFiles` are in `DeskProofs`) | |

`Directory` is the seam between `Mesh` and `Onion`: `Mesh` is shown to implement it,
and `Onion` lets the directory grow by exactly its steps (`LearnUser` is `Learn`)
while messages travel. So `Onion` is checked on every order in which handshakes can
fill the maps, without the handshakes. `Desk` joins what happens inside a process to
what `Mesh` and `Onion` say happens between processes: its server thread registers the
users `Mesh` lets it learn of, and its messages are those `Onion` delivers.

In several modules a definition follows one whose comment begins with "Bug:". These
are plausible mistakes in the code's place; putting one in makes a run fail
(`mutants` in `PROJECT.json`), which shows that the property looks at that code.

### 2.1 Session

`stage` is the program counter of the main thread; `opts` are `main`'s locals,
`form` those of `handleUserInfo`, `idx` that of `LoginUser`. `GetOpt` is a turn of
the `getopt_long` loop (ports are cut to 16 bits, `stoi` may throw, `--help` exits),
`CheckOptions` the checks and the import of the keys, `AskUser` the head of the loop
in `LoginUser`. `MoveCursor`, `TypeKey`, `Backspace` and `Enter` are the branches of
the key loop, `FillInCUI` the CUI's two questions. `VerifyPass` is `Verify_Pass` and
the foot of the loop; `InitServer` and `Join` are what follows. `tried` only records,
for the properties.

`Verify_Pass` encrypts a text and decrypts it again with what was typed, and `Decrypt`
hands that to gpg by way of `echo` in a shell, unfiltered. The comment there (PGP.cc:129-131)
says that special characters cannot be processed and what else may come of it. So the
model says what is known, and no more. A passphrase of `Plain` keys, which the shell and
`echo` pass on as they are (letters and digits), is accepted if it is `Passphrase` and
refused otherwise (`Literal`, `Verdicts`); of any other the answer may be either. `Passphrase`
need not be of `Plain` keys. `LoggedInAs` speaks of the first kind only: with the others the
right passphrase may be refused and a wrong one accepted, and runs and proofs include both.
What else a shell may do with such a text is left out.

### 2.2 Mesh

`users[n][i]` is the map of process n, `inbox[e]` the packets on their way to an end `e`
of a connection. An end names what a file descriptor stands for; a connection is named by who dialled whom and because of whom,
so several between two processes are distinct. `Start(n, t)` launches a process
logged in and listening (`Session` ends there); `Launch` says when users do so: at any
time ("any"), when the process named runs ("target"), when moreover all who are joining do
so through that one process ("hub", the order of `Docker/launch_all.sh`), or when nobody
is joining ("turn").
`CopyUsers` and `DialTarget` are the two halves of `HandShake(node, nport)`, between
which the server thread runs. `RegisterUser` and `IgnoreHandShake` are `RecvHandShake`
for unknown and known ids: dialling the listed addresses (`Dialled` has the code's
`find`, which is cleared once before the loop), the answer and the map.

`RecvHandShake` is one step. It runs in the one thread that writes the map, it writes
it at its end, and what it sends before does not depend on what others do meanwhile;
only who listens could change in the middle, and then a start that comes earlier or
later gives the same. (What else the threads of the same process see of that step, the
list on the screen, the import of the key and the map, one after the other, is in `Desk`.)
Connecting to an address where nobody listens is a handshake that goes nowhere
(`ConnectTo` returns -1, which is not checked).

### 2.3 Rejoin

A second life of a user is another member of `Node` with the same id and address, which
`Start` lets begin only when nobody listens at that address. `Stop` ends a process: its
maps and what is on the way to it are gone, and of what it has sent any connections' may
be. Nothing in the code takes a user out of a map, so the others keep the Rep of the
earlier life and ignore the later one's handshakes.

`introduced[n]` is history: the process n joins through and those this one had registered
when n was started. It is emptied when that process takes n for its earlier life and turns
it away, and when it stops before n has heard from anybody. `IntroducedMeet` says that
nothing else goes wrong: n and whom it was introduced to reach each other, but for those
who keep the Rep of an earlier life of n. The property speaks of direct introductions only,
and with four users cannot say more. Let b be known to a and stop, c join through a, and b
come back through c: a ignores it, so b and c know each other and a knows c only. Now d
joins through b and is told of c; c's answer lists b and a, but d knows b by then, and if
b's id comes first `find` makes d pass over a. So d never finds a, though nobody ever took
d for another.

### 2.4 Onion

A ciphertext is its sequence of layers around a message; a layer says for which key
it is encrypted, its type, and the id in it. `Body`, `Serialize`, `AddLayer` and
`Inner` are the operations of `OnionMessage.cc`. `Send` is `SendMsgAsync` or
`SendImgAsync`; `SendDirect`, `WrapBody`, `PickRelay` and `LaunchOnion` are the
routing thread cut where it reads the shared map or sends. The random bound
`rand() % 5 + 1` is drawn before each test, so 1 to `MaxHops` turns are possible.
`prev` starts uninitialised: a relay picked in the first turn equals it in no state of
the model (in a build it might by accident, and another would be drawn).
`RecvMsgAsync` starts a receiving thread; `Unwrap`, `Forward` and `Drop` are the
branches of `Relay`; `FailToOpen` is a layer that does not decrypt, which ends the
process by an exception. `Leave` is a process whose user quits: its threads and what
was on the way to it are lost, and nobody removes it from a map.

### 2.5 Builder, Layers, Framing

`Layers` has what the three `Serialize` of `OnionMessage.cc` write (type, length of the
id, id, the rest) and what `Unserialize` reads, with `substr` as the library defines it;
encryption is a byte for the key in front. `Wrap` puts the layers of an onion on from
the inside out, `Peel` takes them off with the keys on the route.

In `Framing`, `SendPacket` puts the bytes of the next packet on the wire, `Receive(k)`
moves k bytes to the reader, and `HandleServer` is one call of `handleServer`: `Begin`
is `Unserialize`, `BuildHandShake` and `BuildMsg` are the two `ContinueBuild`, whose
`state` is the number of fields read. The length of a message sits in a local variable
and is any value of `Garbage` in a later call. `HandleUnknown` is the NULL packet.
`cut` records that TCP cut a message after its length; what such a message does to those
after it is not promised anything, only that it harms nothing before.

### 2.6 Command, Screen

`Command` is `HandleCommand` as far as it looks at the line: `Split` follows its two
`find(" ")`, with `substr(npos + 1)` the whole string. A line is a sequence of words and
spaces.

In `Screen`, `pc` has the UI thread, the server thread and one thread for each message.
`Lock`, `Write` and `Finish` are `PushMessage`, `PushChat`, `PushNotification`,
`PushError` and `Clear`: the lock and the colour, the line, the input line again with
the colour reset and the lock released. In the TUI `chat` is the last line in `chatWin`,
in the CUI the pieces written since a line was begun. `Welcome...` is the greeting,
which takes no lock. `Alloc` to `FreeList` are `RenderUsers`, which two threads run:
`AddUser` holds `userLock`, the UI thread does not, so the lock keeps nobody out and is
left out of the model. `Prompt`, `Key`, `Enter`, `EnterClear` and `EnterNothing` are the
input loops of both interfaces, `Reply` what each command writes and sends. `AddUser`
and `Register` are the two ends of registering a user, `Opened` and `Download` the thread
of a message before it is shown. Calls before the windows exist write nothing.

An access outside the array of `RenderUsers` is undefined behaviour; here it aborts the
process (`alive`) or goes unnoticed, and what is read from beyond the array is not shown.

### 2.7 TempFiles

`MakeTemp` is `mkstemp`, which hands out any name no file has; `RunEncrypt`, `ReadAsc`,
`RemoveTemp` and `RemoveAsc` are `Encrypt` after it, `RunPiped` and `RemoveTemp` are
`Decrypt` and `ImportKey`. `file` and `asc` say whose text is in a file and next to it in
the `.asc` gpg writes, a name nobody reserves. `clashed` records the calls that drew a
name whose `.asc` was still to be removed; only they may get nothing or another's text.

### 2.8 Desk

Every step of `Desk` is one of `Screen` or one of `TempFiles`, with guards that tie them:
a message is decrypted before it is shown, a key is imported after `AddUser` and before
`users[id]`, a letter is encrypted after its line was typed. Relays' calls of gpg, and
those for the further layers of a letter, are more of the same kind and are not separate.
A call stands for both ends of a thread's work: what gpg does to one thread's file while
another thread's is open is every interleaving of the calls' steps.

## 3. Runs

| Run | Question and instance |
|---|---|
| `session` | up to five of nine options, then every key sequence in the TUI form or every answer to the CUI: `LoggedInAs`, `ThreeTries`, `DialsLastNode`, `TypeOK` |
| `mesh_five` | **fails**: five processes, four of them at once through the first, in the order of `launch_all.sh` (`MeshComplete`) |
| `mesh_hub` | four processes, in that order, or one after the other through any earlier one: `MeshComplete`, `NeverOwnUser` |
| `mesh_live` | three, each naming any other or none, running or not: `TypeOK`, `RepReachesUser`, `Acquaintance`, `HandshakesEnd`, `DirectoryMutual`, `DirectorySpec` |
| `mesh_restart` | three users, two of whom may stop at any time and start again, those who join at the same time through the same process: `IntroducedMeet`, `MutualWhileUp` |
| `mesh_spof` | **fails**: joining through a process that is still joining (`NoSinglePointOfFailure`) |
| `onion_full` | two messages, all know all, routes of up to three relays: `Delivered`, `NobodyCrashes` |
| `onion_join` | one message, up to five relays, directories that grow, an id used twice, one process may stop: `OnionsWellWrapped`, `OneCopy`, `OnlyAddressee`, `DeliverySpec`, `TypeOK` |
| `onion_spof` | **fails**: a message is routed over a process that has stopped (`NoSinglePointOfFailure`) |
| `frames` | six packets, handshakes and messages of one and two layers, cut and joined anywhere: `PacketsIntact`, `IntactUpToMessages`, `NothingStuck`, `NeverLosesSync`, `LayersIntact`, `TypeOK` |
| `frames_msg` | **fails**: a message in two pieces (`CipherTextOfLength`) |
| `threads` | one process, TUI or CUI: two users join while a message comes, or a message and an image come, or one user joins while two letters are sent; lines of every form are typed: `LinesWhole`, `OwnColours`, `ListShowsUsers`, `AbortsOnlyInOverlap`, `CursorAtInput`, `SentAsTyped`, `OwnText`, `NothingLeft`, `MessagesShown`, `TypeOK` |

### What the failing runs show

* `mesh_spof`. n2 dials n1, n3 dials n2 before n1's answer has reached n2. n2's answer
  to n3 lists nobody; n2 then registers n1, whose own list did not have n3. Both
  know n2 only. Nothing is sent any more, and when n2 stops n1 and n3 are cut off.
  The README promises "No `single point of failure`" (README.md:63). It is kept when
  processes are started one after the other (`MeshNoSinglePointInTurn`).
* `mesh_five`. `Docker/launch_all.sh` waits a second for the first process and then starts
  the others together. All dial n1, and n4 is slow to read n1's answer. n5
  gets a list that has n4, tells n3 of it, and n3 dials n4; so n4 knows n3 when it reads
  n1's list. There n3's id comes before n2's, and `find`, which is cleared once before the
  loop and not in it (OnionMessenger.cc:53, 61-70), stays set: n4 passes over n2. n2 was
  not told of n4 either, and nothing is sent any more. With four processes it does not
  happen (`mesh_hub`).
* `onion_spof`. Users are added and never removed (`RemoveUser` has no caller), so a
  stopped process is still picked as relay and swallows messages between others.
* `frames_msg`. `length` in `Msg::ContinueBuild` (Packet.cc:49) is read in one call and
  used in the next, where it is uninitialised.

Three things were seen while modelling and are not questions for TLC. `port` (main.cc:34)
is uninitialised, so the test `!port` (main.cc:79) need not notice that `--port` is
missing: where `Garbage` is not 0, `Session` goes on. And two places of the README
describe other bytes than the code's: README.md:75 has 4 bytes for each connected node of
a handshake, where `HandShake::Serialize` writes an address and a port, 6 bytes
(Packet.cc:108-110); README.md:86-88 has no sender in a message or image layer, where
`MsgLayer::Serialize` and `ImgLayer::Serialize` write its length and its name
(OnionMessage.cc:29-51).

### What the passing runs leave room for

Some properties hold with an exception that the code needs, named in the property:

* A restarted process is not met by those who knew its earlier life (`KnewEarlier`), nor
  those by whoever joins through it and is not told of them by others (`introduced`).
* The greeting is written without `msgLock`: a message that arrives in its middle may be
  yellow (`OwnColours`).
* `RenderUsers` in both threads at once may leave its array, or list users twice, until
  the next user joins (`overlap`).
* An encryption that draws the name of one that has removed its file and not yet its
  `.asc` may return nothing, or another's text (`clashed`).
* The server thread runs before the UI thread has made the windows (OnionMessenger.cc:331,
  tui.cc:370): a message whose line is written by then is lost. `MessagesShown` says that
  a line gets into the chat if it comes, or still waits for the lock, when there are windows.
* The prompt and the CUI's cleared screen take no lock and may come in the middle of a
  line (`LinesWhole`).
* Of passphrases that the shell does not pass on as typed nothing is promised
  (`Literal` in `LoggedInAs`).

Three more things are in no property. A user is listed before the map knows the id, while
gpg imports the key, so that a command for a listed user may be answered with an error.
That the previous relay is not drawn again is in `PickRelay`, and no property depends on
it. And `DirectorySpec` and `NobodyCrashes` are run with distinct ids: for shared ones the
first is proved (`MeshImplementsDirectory`), and the second does not hold.

### Bounds, and why they are enough

* *Processes.* Three are enough for everything a handshake can do to a third party
  (a list with an address unknown to the receiver); four let a list hold a known
  address before an unknown one, which is what `find` is about, and let two joins
  cross at a third and a fourth process. Five are the first for which that is not
  harmless. Hosts and ports are shared crosswise, so that
  taking only the host or only the port of an address would be noticed. The order of
  the ids differs from the order of joining. In `mesh_restart` the first and the second
  user have a second life, `MaxStops` = 2: a hub and a guest restart, in both orders,
  and a third joins through either life of either.
* *Messages and routes.* One message is a full run of the routing code; two (a text and
  an image between different pairs) let threads of several kinds interleave. With
  three processes a sender has two candidates for each relay, which alternate because
  the previous one is excluded: the addressee as a relay, as the last relay and twice
  on a route all occur. `MaxHops` is the code's 5 in `onion_join`, 3 and 2 elsewhere.
  `MaxStops` = 1.
* *Bytes.* Packets have fields of length 0 to 3 and no, or two, addresses; ids and texts
  hold NUL bytes; all cuts are tried. `Stack` has values below, at and above the length.
* *Threads.* The UI thread, the server thread and two more threads at a time, so that
  two of any kind meet; two names for up to three calls, so that names are drawn
  again while their `.asc` is there; as many lines as letters, at least one. The lines
  have every command, in both spellings, words missing, unknown ids, and spaces in the
  text and where they do not belong.
* *Login.* One character is enough for an id and a passphrase at their limit, missing,
  right, or one the shell does not pass on, and a correction; the try counter is the code's
  3. Five options hold both keys, `--notui` and two `--node`; the uninitialised port is not
  zero in `session`, so `--port` may be left out there.

`CHECK_DEADLOCK FALSE` everywhere: the system stops when every packet has been dealt
with and no user does anything; whether it stops in a good state is what
`MeshComplete`, `IntroducedMeet`, `NothingStuck`, `Delivered` and `MessagesShown` are about.

### Fairness

`Mesh!Fairness`: each process' main thread, once started, and each server thread with a
packet take a step eventually. Operating systems schedule threads, and the server
serves the connections that `select` finds readable. Starting processes is up to
users and not fair. The server thread's conjunct is for the thread, not for each
connection. `Onion!Fairness`: for each message, its routing thread, the delivery of
its packet and the thread that opens it go on. Typing, quitting and learning are not
fair. The loop that picks relays is allowed to go on or to end at every turn but has
at most `MaxHops` turns. `DeskSpec`: the UI thread and the threads of messages go on;
the user need not type and a download need not end. The lock is a `std::mutex` that
promises no order, and weak fairness is enough: there are finitely many lines to write,
so that whoever waits finds the lock free for good in the end.

## 4. What is assumed

1. TCP delivers in order and without loss while both processes run.
2. What is encrypted for a key is opened by the process with that key, logged in with its
   passphrase, and gpg prints nothing for anybody else. Importing a key succeeds. gpg takes
   the passphrase from the descriptor it is given.
3. Two running processes never have the same address and port; in `Rejoin` a user comes
   back under the same id at the same address, and nobody else does.
4. SelectServer, whose source is not in the repository, calls the handler as long as
   there are unread bytes, `CTXDiscard` frees only bytes already read, and
   `ServerWrite` writes packets whole, in the order of the calls.
5. `getpeername` works on a connection whose handshake is being handled.
6. gpg asks whether to overwrite an `.asc` that is there, and the answer may be either.
   Nobody else makes files of these names in `/tmp`.

## 5. Proofs

`SessionProofs` (for any options, keys and lengths; `SessionAssumption`):

* `SessionInvariant`: `Safe => []SessionInv`. That a try with the right passphrase is the
  last needs to be known before the login has ended: in every stage, there is none unless
  the user is logged in. It is said of passphrases that reach gpg as typed (`Opens`), with no
  assumption on what gpg answers to others, and on which keys are `Plain`. From it
  `SessionLoggedInAs` and `SessionThreeTries`.
* `SessionTypeCorrect`: every variable stays in its set. The ports stay below 2^16
  because both assignments cut them off, the texts of the form within their limits
  because `TypeKey` looks before it types.
* `SessionDialsLastNode`: the invariant relates the locals of `main` to the options read so
  far. Either none was `--node`, or `node` and `nport` are the two parts of the last one;
  so they can never belong to different options.

`MeshProofs` (for any set of processes, ids, shared or not, hosts, ports and `--node`
arguments; assumption `MeshAssumption`):

* `MeshInvariant`: `Safe => []MeshInv`. `RepReachesUser` alone is not inductive: the
  Rep is built from a packet, so the invariant also says of every packet on the way
  that it tells the truth about the process at the near end of its connection
  (`HonestChannels`). These with the types are `Truthful`, which needs nothing else and
  is used again when processes stop. `Acquaintance` is kept because an entry is never
  removed, and a packet leaves a queue only when its receiver then knows the sender.
* From it `MeshTypeCorrect`, `MeshRepReachesUser` and `MeshAcquaintance`.
* `MeshImplementsDirectory`: every step of `Mesh` is a `Learn` of `Directory` or
  changes nothing there, under the mapping from a Rep to the process at the other end
  of its descriptor.
* `MeshNeverOwnUser`, with two further assumptions: ids are distinct, and users name with
  `--node` a process that runs (`Launch` is not "any"). Without the second it is false: of
  two processes started with each other's `--node` one may find its own address in the
  other's handshake before it knows the other, dial itself, and register itself. The
  invariant (`StrangersInv`) puts the processes on *islands*. Whoever starts is an island
  of its own; dialling `--node` joins the island to that of the process dialled. Whom a
  process has registered, what it has copied and what the packets to it list is on its
  island. A process that has not dialled yet is the one its island is named after, of which
  nobody on it is older (`age`); its target is older, so it is on another island, and joining
  the two makes nobody meet itself. So a packet comes from another process and never lists
  its receiver
  (`Fit`): the one that answers has not registered the sender yet, and the ones it dials
  are not among its users, which is what `find` is for. `MeshStrangers` is this invariant.
* `MeshCompleteInTurn` and, from it, `MeshNoSinglePointInTurn`: any number of processes all
  meet when they are started one after the other (`Launch` is "turn"), have distinct ids,
  and only one is started without `--node`. The invariant (`TurnInv`) follows the one that
  joins, x, while the others have met. x has started and is about to dial (`Coming`); it has
  dialled, and its handshake is the only packet (`Calling`); whom it dialled has answered, and
  the answer is the only packet and lists all others (`Answered`); or x has dialled all of
  them (`Meeting`): then every packet is from x or to x, and each of the others has
  registered x or has still to read its handshake. In the last phase the answers come to
  x in any order, and while x reads one it dials those listed whom it does not know yet a
  second time; they ignore that or take it for the first.

`RejoinProofs` (`MeshAssumption`, `RejoinAssumption`; any number of lives and stops):

* `RejoinInvariant`: `RejoinSafe => []RejoinInv`, which is `Truthful`, `MutualWhileUp`
  and `SendersBegan`: whoever has sent a packet or is registered was started. Without the
  last a life that is only starting might be known already, one-sidedly. From it
  `RejoinRepReachesUser` and `RejoinMutual`.
* `RejoinIntroducedMeet`, when users start processes one after the other (`Launch` is
  "turn") and stop them at any time. The invariant (`MeetInv`) says of everybody who runs
  that those it was introduced to have registered it or have a handshake from it to read
  (`Covered`), or that it is the one that joins and knows nobody yet (`Arriving`, in the
  phases `ToDial`, `Dialling` and `Told`). Stops leave either as it is, unless it is the
  process joined through that stops, or x itself. That x then reaches those who reach it
  is `MutualWhileUp`, and that it does not hold another life under their id is `Tells`: a
  packet comes from who runs or has run, and of two lives of a user at most one runs.

`OnionProofs` (any processes, messages, routes, bounds; `OnionAssumption` and
`DirectoryAssumption`):

* `OnionInvariant`: `Safe => []OnionInv`. `OnionsWellWrapped` needs that a routing
  thread's relay and addressee are what the sender's directory says, and that the
  directory is honest and never replaces an entry (`DirGrows`); then a layer put
  around a well-wrapped ciphertext gives a well-wrapped one, and so does taking one off.
* From it `OnionTypeCorrect`, `OnionLayersCorrect`, `OnionOnlyAddressee`.
* `OnionNobodyCrashes`, with the further assumption that ids are distinct: without it a
  relay may hand a layer to the wrong process, which terminates.
* `OnionOneCopy`, from the invariant `Single`: a message is with its routing thread, in
  one packet, in one receiving thread, or shown at one process, and in one of these only.
  `Single` says so by quantifiers, and `CopiesFacts` turns it into the cardinalities
  that `OneCopy` speaks of.
* `OnionImplementsDelivery`: `Safe => DeliverySpec`. `Became` is the status of a message
  without counting; routing, relaying and stopping leave it or make "sent" "lost", `Send`
  and `ShowMessage` are `Delivery`'s, and the rest stutter.

`FramingProofs` (any traffic, any cutting; `FramingAssumption`: ids, keys, ciphertexts and
the list of addresses have lengths of 32 bits, what fills a field fits in it):

* A packet on the wire is the sequence of its `Pieces`, the fields that `ContinueBuild`
  reads one by one; `Stream[k]` is all bytes of the first k packets. `Ahead` and
  `NextPiece` say that when what is unread and what was read make up the stream, the next
  bytes unread are the next piece.
* The invariant, `Inv`: until a message is cut (`Straight`) the reader is in step
  (`InStep`): what is handled is the first packets, and the bytes of the fields read, the
  buffer and the wire are what is left of the stream; `aux` waits for a field that is not
  empty, and never holds the length of a message without its text. What is handled before
  the first message stays as it was (`IntactUpToMessages`), and `CutSeen` ties the history
  variable to where the wire begins.
* From it `FramingTypeCorrect`, `PacketsArriveIntact`, `GreetingsBeforeMessages` and
  `StaysInSync`; `NothingIsLeft`, since a field all of whose bytes are there is read
  (`NoneWaits`); and `LayersArriveIntact`, since taking off the layers one by one (`Peeled`)
  goes back over what putting them on went through (`Wrapped`), whatever the bytes.
* These proofs go by induction over data: along a sequence, a number of layers, the seven
  tests of `ContinueBuild`. `Least` (a set of natural numbers that is not empty has a least
  element) is taken from the well-foundedness of < on the natural numbers; `Upwards` and
  `Recursion` are induction and recursion up to a bound, stated with sets and functions
  instead of predicates.

`CommandProofs` (`CommandAssumption`):

* `SplitAsDocumented`: command, space, id, space, text is taken apart into just these,
  for texts of any length. Its lemmas say where the first space of a line is and what
  is before and after it; the converse (what `Split` finds is what was typed) is what
  `SentAsTyped` rests on.

`ScreenProofs` (any users, messages and lines; `ScreenAssumption`):

* `ScreenInvariant`: `ScreenSafe => []ScreenInv`, in seven parts that each rest on the
  ones before: where threads are and who holds the lock (`Places`), the lines being
  written and sent (`Texts`), the colour of the window (`Painted`), the pieces on the
  terminal (`Pieces`), the cursor (`Pointer`), the sequences of `RenderUsers` (`Roll`) and
  its locals while only one thread is in it (`Renders`).
* From it `ScreenTypeCorrect`, `LinesAreWhole`, `ListIsUsers`, `AbortNeedsOverlap`,
  `CursorReturns`, `SendsWhatIsTyped`, and `ColoursAreOwn`, which is about steps.

`DeskProofs` (any calls and names; `ScreenAssumption`, `TempFilesAssumption` and
`DeskAssumption`):

* `TempInvariant`: `TempSafe => []TempInv`: a call that works on a file owns it
  (`OwnFiles`), every `.asc` has a call that will remove it (`OwnAscs`), and a call that
  has not clashed shares its name with none that is about to (`Unclashed`). From it
  `TempOwnText` and `TempNothingLeft`.
* `DeskImplements`: a behaviour of `Desk` is one of `Screen` and one of `TempFiles`, since
  every step is a step of one and leaves the other's variables alone. So everything
  proved of either holds of all threads together (`DeskTypeCorrect`, `DeskCorrect`).

Only model-checked: liveness (`HandshakesEnd`, `DirectoryMutual`, `Delivered`,
`MessagesShown`), which is out of the prover's reach; `MeshComplete` and `IntroducedMeet`
when several processes join at the same time through the same one. For `MeshComplete` that
holds of four processes and not of five, so there is no theorem for any number of them; for
`IntroducedMeet` it was checked for three users only.

## 6. Not modelled

* Data races on the map `users`, which UI, main, server and on-demand threads share
  without a lock. In the models every access sees the map before or after an insertion.
* Descriptors as numbers and their reuse after a connection closes, which the library
  does and the repository does not show; `ConnectTo`'s -1 handed on to it.
* curses itself: what two threads in it at once do to its own data; the layout of
  windows; `RemoveUser`, which has no caller; the text of a line, its time from
  `localtime`'s shared buffer included.
* The end of the CUI's input, on which its loop prints prompts for ever.
* gpg failing to import a key, which ends the process; what a shell does with a passphrase
  besides giving gpg another text; the descriptor and the empty file that `DisplayAArt`
  leaves behind in the working directory for every image (Features.cc:63), and the image;
  what curl and the ascii art program do.
* SelectServer, whose source is not in the repository (assumed as in section 4).
* Build files and Docker scripts.

## 7. Plan

Done: all modules of section 2. What could still be added:

1. Whether `IntroducedMeet` outlives joins at the same time for more than three users.
2. When SelectServer's source is there: descriptor numbers, closing and reuse, in
   `Rejoin`; the data race on `users` as an iteration in steps, in `Onion`.
