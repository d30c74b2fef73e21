---------------------------- MODULE CommandProofs ----------------------------
(***************************************************************************)
(* What Split makes of any line whatever.                                  *)
(***************************************************************************)
EXTENDS Command, SequenceTheorems, WellFoundedInduction, TLAPS

\* Of the positions of the spaces in a line there is a first.
LEMMA FirstSpace_Exists ==
  ASSUME NEW line \in Typing, HasSpace(line)
  PROVE  /\ FirstSpace(line) \in 1 .. Len(line)
         /\ line[FirstSpace(line)] = Space
         /\ \A j \in 1 .. FirstSpace(line) - 1 : line[j] # Space
<1> USE DEF Typing
<1> DEFINE Spaces == { k \in 1 .. Len(line) : line[k] = Space }
<1>1. Spaces \subseteq Nat /\ Spaces # {}
  BY DEF HasSpace
<1>2. IsWellFoundedOn(OpToRel(<, Nat), Nat)
  BY NatLessThanWellFounded
<1>3. PICK k \in Spaces : \A j \in Spaces : << j, k >> \notin OpToRel(<, Nat)
  <2> HIDE DEF Spaces
  <2> QED BY <1>1, <1>2, WFMin
<1>4. \A j \in Spaces : ~ (j < k)
  BY <1>1, <1>3 DEF OpToRel
<1>5. k \in DOMAIN line /\ line[k] = Space /\ \A j \in DOMAIN line : line[j] = Space => k <= j
  BY <1>1, <1>4
<1>6. /\ FirstSpace(line) \in DOMAIN line
      /\ line[FirstSpace(line)] = Space
      /\ \A j \in DOMAIN line : line[j] = Space => FirstSpace(line) <= j
  BY <1>5 DEF FirstSpace
<1> QED BY <1>6

\* A line is what precedes its first space, the space, and what follows it.
LEMMA CutAtSpace ==
  ASSUME NEW line \in Typing, HasSpace(line)
  PROVE  /\ Before(line) \in Typing
         /\ After(line) \in Typing
         /\ ~ HasSpace(Before(line))
         /\ line = Joined(Before(line), After(line))
<1> USE DEF Typing
<1> DEFINE k == FirstSpace(line)
<1>1. /\ k \in 1 .. Len(line) /\ line[k] = Space
      /\ \A j \in 1 .. k - 1 : line[j] # Space
  BY FirstSpace_Exists
<1> HIDE DEF k
<1>2. /\ Before(line) \in Typing /\ Len(Before(line)) = k - 1
      /\ \A j \in 1 .. k - 1 : Before(line)[j] = line[j]
  BY <1>1 DEF Before, k
<1>3. /\ After(line) \in Typing /\ Len(After(line)) = Len(line) - k
      /\ \A j \in 1 .. Len(line) - k : After(line)[j] = line[k + j]
  BY <1>1 DEF After, k
<1>4. ~ HasSpace(Before(line))
  BY <1>1, <1>2 DEF HasSpace
<1>5. line = Joined(Before(line), After(line))
  <2>1. SubSeq(line, 1, k - 1) \o SubSeq(line, k, Len(line)) = line
    BY <1>1, ConcatAdjacentSubSeq
  <2>2. SubSeq(line, k, k) \o SubSeq(line, k + 1, Len(line)) = SubSeq(line, k, Len(line))
    BY <1>1, ConcatAdjacentSubSeq
  <2>3. SubSeq(line, k, k) = << Space >>
    <3> DEFINE one == SubSeq(line, k, k)
    <3>1. one \in Typing /\ Len(one) = 1 /\ one[1] = Space
      BY <1>1, SubSeqProperties
    <3> HIDE DEF one
    <3>2. one = << Space >>
      BY <3>1
    <3> QED BY <3>2 DEF one
  <2>4. Before(line) \o (<< Space >> \o After(line)) = line
    BY <2>1, <2>2, <2>3 DEF Before, After, k
  <2>5. << Space >> \in Typing
    OBVIOUS
  <2> HIDE DEF Typing
  <2>6. Before(line) \o (<< Space >> \o After(line)) = Joined(Before(line), After(line))
    BY <1>2, <1>3, <2>5, ConcatAssociative, SMTT(30) DEF Typing, Joined
  <2> QED BY <2>4, <2>6
<1> QED BY <1>2, <1>3, <1>4, <1>5

\* A line with two spaces is its command, its id and its text, with a space between
\* them; without a second space there is no id.
LEMMA SplitParts ==
  ASSUME NEW line \in Typing, Split(line).id # << >>
  PROVE  LET s == Split(line)
         IN s.input \in Typing /\ line = Joined(s.cmd, Joined(s.id, s.input))
<1> USE DEF Typing
<1> DEFINE rest == After(line)
<1>1. HasSpace(line) /\ HasSpace(rest)
  BY DEF Split
<1>2. rest \in Typing /\ line = Joined(Before(line), rest)
  BY <1>1, CutAtSpace
<1>3. After(rest) \in Typing /\ rest = Joined(Before(rest), After(rest))
  BY <1>1, <1>2, CutAtSpace
<1>4. Split(line) = [cmd |-> Before(line), id |-> Before(rest), input |-> After(rest)]
  BY <1>1 DEF Split
<1> HIDE DEF rest
<1> QED BY <1>2, <1>3, <1>4

\* What is typed as documented is taken apart as documented, whatever the text is
\* ("/msg [Github_ID] [msg]", README.md:40).
THEOREM SplitAsDocumented ==
  ASSUME NEW cmd \in Word, NEW id \in Word, NEW text \in Typing
  PROVE  Split(<< cmd, Space, id, Space >> \o text) =
           [cmd |-> << cmd >>, id |-> << id >>, input |-> text]
<1> USE CommandAssumption DEF Typing
<1> DEFINE line == << cmd, Space, id, Space >> \o text
           rest == << id, Space >> \o text
<1>1. /\ line \in Typing /\ Len(line) = Len(text) + 4
      /\ line[1] = cmd /\ line[2] = Space /\ line[3] = id /\ line[4] = Space
      /\ \A j \in 5 .. Len(line) : line[j] = text[j - 4]
  OBVIOUS
<1>2. /\ rest \in Typing /\ Len(rest) = Len(text) + 2
      /\ rest[1] = id /\ rest[2] = Space
      /\ \A j \in 3 .. Len(rest) : rest[j] = text[j - 2]
  OBVIOUS
<1> HIDE DEF line, rest
<1>3. HasSpace(line) /\ HasSpace(rest)
  BY SMTT(30), <1>1, <1>2 DEF HasSpace
<1>4. FirstSpace(line) = 2
  <2>1. /\ FirstSpace(line) \in 1 .. Len(line) /\ line[FirstSpace(line)] = Space
        /\ \A j \in 1 .. FirstSpace(line) - 1 : line[j] # Space
    BY <1>1, <1>3, FirstSpace_Exists
  <2> QED BY <1>1, <2>1
<1>5. FirstSpace(rest) = 2
  <2>1. /\ FirstSpace(rest) \in 1 .. Len(rest) /\ rest[FirstSpace(rest)] = Space
        /\ \A j \in 1 .. FirstSpace(rest) - 1 : rest[j] # Space
    BY <1>2, <1>3, FirstSpace_Exists
  <2> QED BY <1>2, <2>1
<1>6. Before(line) = << cmd >> /\ Before(rest) = << id >>
  <2>1. Before(line) \in Typing /\ Len(Before(line)) = 1 /\ Before(line)[1] = cmd
    BY <1>1, <1>4 DEF Before
  <2>2. Before(rest) \in Typing /\ Len(Before(rest)) = 1 /\ Before(rest)[1] = id
    BY <1>2, <1>5 DEF Before
  <2> QED BY <2>1, <2>2
<1>7. After(line) = rest
  <2>1. \A j \in 1 .. Len(rest) : rest[j] = line[j + 2]
    BY <1>1, <1>2
  <2>2. After(line) \in Typing /\ Len(After(line)) = Len(rest)
        /\ \A j \in 1 .. Len(rest) : After(line)[j] = line[j + 2]
    BY <1>1, <1>2, <1>4 DEF After
  <2>3. \A j \in 1 .. Len(rest) : After(line)[j] = rest[j]
    BY <2>1, <2>2
  <2> HIDE DEF Typing
  <2>4. \A s, t \in Typing : Len(s) = Len(t) /\ (\A j \in 1 .. Len(s) : s[j] = t[j]) => s = t
    BY SeqEqual DEF Typing
  <2> QED BY <1>2, <2>2, <2>3, <2>4
<1>8. After(rest) = text
  <2>1. \A j \in 1 .. Len(text) : text[j] = rest[j + 2]
    BY <1>2
  <2>2. After(rest) \in Typing /\ Len(After(rest)) = Len(text)
        /\ \A j \in 1 .. Len(text) : After(rest)[j] = rest[j + 2]
    BY <1>2, <1>5 DEF After
  <2>3. \A j \in 1 .. Len(text) : After(rest)[j] = text[j]
    BY <2>1, <2>2
  <2> HIDE DEF Typing
  <2>4. \A s, t \in Typing : Len(s) = Len(t) /\ (\A j \in 1 .. Len(s) : s[j] = t[j]) => s = t
    BY SeqEqual DEF Typing
  <2> QED BY <2>2, <2>3, <2>4
<1>9. Split(line) = [cmd |-> << cmd >>, id |-> << id >>, input |-> text]
  BY <1>3, <1>6, <1>7, <1>8 DEF Split
<1> QED BY <1>9 DEF line
=============================================================================
