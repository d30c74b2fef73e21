-------------------------------- MODULE Command --------------------------------
(***************************************************************************)
(* How a line typed in the chat is taken apart (HandleCommand).            *)
(*                                                                         *)
(* A line is a sequence of tokens: the space character, or a word.         *)
(***************************************************************************)
EXTENDS Naturals, Sequences

CONSTANTS
  Word,    \* words, which hold no space
  Space    \* the space character

ASSUME CommandAssumption == Space \notin Word

Typing == Seq(Word \cup {Space})

\* Two pieces of a line with a space between them.
Joined(a, b) == a \o << Space >> \o b

HasSpace(line) == \E k \in DOMAIN line : line[k] = Space

\* line.find(" ")
FirstSpace(line) ==
  CHOOSE k \in DOMAIN line :
    line[k] = Space /\ \A j \in DOMAIN line : line[j] = Space => k <= j

\* substr(0, nptr) and substr(nptr + 1)
Before(line) == SubSeq(line, 1, FirstSpace(line) - 1)
After(line)  == SubSeq(line, FirstSpace(line) + 1, Len(line))

\* Bug: what follows the first space is taken for the id.
SplitOnce(line) ==
  [cmd   |-> IF HasSpace(line) THEN Before(line) ELSE line,
   id    |-> IF HasSpace(line) THEN After(line) ELSE << >>,
   input |-> line]

\* cmd, id and input when HandleCommand looks at cmd: without a space the input is
\* the line, without a second one there is no id.
Split(line) ==
  LET rest == IF HasSpace(line) THEN After(line) ELSE line
      both == HasSpace(line) /\ HasSpace(rest)
  IN [cmd   |-> IF HasSpace(line) THEN Before(line) ELSE line,
      id    |-> IF both THEN Before(rest) ELSE << >>,
      input |-> IF both THEN After(rest) ELSE rest]

CommandOf(cmd) ==
  CASE cmd \in {<< "/msg" >>, << "/m" >>}  -> "msg"
    [] cmd \in {<< "/img" >>, << "/i" >>}  -> "img"
    [] cmd \in {<< "/help" >>, << "/h" >>} -> "help"
    [] cmd \in {<< "/clr" >>, << "/c" >>}  -> "clear"
    [] OTHER                               -> "unknown"
=============================================================================
