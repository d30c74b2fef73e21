---------------------------- MODULE FramingProofs ----------------------------
(***************************************************************************)
(* Proofs about Framing and Layers: what is read off a connection is what  *)
(* was written to it, for any packets and however TCP cuts and joins their *)
(* bytes; and what is wrapped in layers can be unwrapped.                   *)
(*                                                                         *)
(* The program goes through bytes, addresses and layers in loops, so the   *)
(* proofs go by induction.  The principle is that of the least element,     *)
(* which speaks of a set where the usual one speaks of a predicate.         *)
(***************************************************************************)
EXTENDS Framing, SequenceTheorems, WellFoundedInduction, TLAPS

-----------------------------------------------------------------------------
(* Induction.                                                               *)

\* Every non-empty set of numbers has a least element.
LEMMA Least ==
  ASSUME NEW T \in SUBSET Nat, T # {}
  PROVE  \E x \in T : \A y \in T : x <= y
<1> DEFINE R == OpToRel(<, Nat)
<1>1. IsWellFoundedOn(R, Nat)
  BY NatLessThanWellFounded
<1>2. \A x, y \in Nat : x < y => << x, y >> \in R
  BY DEF OpToRel
<1> HIDE DEF R
<1>3. PICK x \in T : \A y \in T : ~ (<< y, x >> \in R)
  BY <1>1, WFMin
<1>4. ASSUME NEW y \in T PROVE x <= y
  <2>1. x \in Nat /\ y \in Nat
    OBVIOUS
  <2>2. ~ (y < x)
    BY <1>2, <1>3, <2>1
  <2> QED BY <2>1, <2>2
<1> QED BY <1>4

\* Induction from 0 to n, over a set instead of a predicate.
LEMMA Upwards ==
  ASSUME NEW n \in Nat, NEW P \in SUBSET (0 .. n), 0 \in P,
         \A k \in 0 .. n : k # n /\ k \in P => k + 1 \in P
  PROVE  P = 0 .. n
<1> SUFFICES ASSUME P # 0 .. n PROVE FALSE
  OBVIOUS
<1>1. PICK m \in (0 .. n) \ P : \A k \in (0 .. n) \ P : m <= k
  <2>1. PICK k \in 0 .. n : k \notin P
    OBVIOUS
  <2> DEFINE T == (0 .. n) \ P
  <2>2. T # {} /\ T \in SUBSET Nat
    BY <2>1
  <2> HIDE DEF T
  <2>3. \E x \in T : \A y \in T : x <= y
    BY <2>2, Least
  <2> QED BY <2>3 DEF T
<1>2. m # 0 /\ m - 1 \in 0 .. n /\ m - 1 # n
  OBVIOUS
<1>3. m - 1 \in P
  BY <1>1, <1>2
<1> QED BY <1>2, <1>3

\* f is defined by recursion on its index: c comes first, and each value from the
\* one before.  There is such a function.
Recurs(f, S, n, c, next) ==
  f \in [0 .. n -> S] /\ f[0] = c /\ \A k \in 1 .. n : f[k] = next[k][f[k - 1]]

LEMMA Recursion ==
  ASSUME NEW S, NEW n \in Nat, NEW c \in S, NEW next, next \in [1 .. n -> [S -> S]]
  PROVE  \E f : Recurs(f, S, n, c, next)
<1> DEFINE Upto(m, f) == f[0] = c /\ \A k \in 1 .. m : f[k] = next[k][f[k - 1]]
           P == { m \in 0 .. n : \E f \in [0 .. m -> S] : Upto(m, f) }
<1>1. 0 \in P
  <2> DEFINE f == [k \in 0 .. 0 |-> c]
  <2>1. f \in [0 .. 0 -> S] /\ Upto(0, f)
    OBVIOUS
  <2> HIDE DEF f
  <2>2. \E h \in [0 .. 0 -> S] : Upto(0, h)
    BY <2>1
  <2> QED BY <2>2
<1>2. ASSUME NEW m \in 0 .. n, m # n, m \in P PROVE m + 1 \in P
  <2>1. PICK f \in [0 .. m -> S] : Upto(m, f)
    BY <1>2
  <2> DEFINE g == [k \in 0 .. m + 1 |-> IF k = m + 1 THEN next[m + 1][f[m]] ELSE f[k]]
  <2>2. next[m + 1][f[m]] \in S
    BY <1>2
  <2>3. g \in [0 .. m + 1 -> S]
    BY <2>2
  <2>4. g[0] = c /\ \A k \in 1 .. m + 1 : g[k] = next[k][g[k - 1]]
    <3>1. g[0] = c
      BY <2>1
    <3>2. ASSUME NEW k \in 1 .. m PROVE g[k] = next[k][g[k - 1]]
      BY <2>1
    <3>3. ASSUME NEW k \in 1 .. m + 1, k \notin 1 .. m PROVE g[k] = next[k][g[k - 1]]
      <4>1. k = m + 1 /\ k - 1 = m /\ m \in 0 .. m + 1 /\ m # m + 1
        BY <3>3
      <4>2. g[k] = next[m + 1][f[m]] /\ g[m] = f[m]
        BY <4>1
      <4> QED BY <4>1, <4>2
    <3> HIDE DEF g
    <3> QED BY <3>1, <3>2, <3>3
  <2> HIDE DEF g
  <2> QED BY <1>2, <2>3, <2>4
<1> HIDE DEF P
<1>3. P \in SUBSET (0 .. n)
  BY DEF P
<1>4. n \in P
  BY <1>1, <1>2, <1>3, Upwards
<1>5. PICK f \in [0 .. n -> S] : Upto(n, f)
  BY <1>4 DEF P
<1> QED BY <1>5 DEF Recurs

\* What holds of the first value, and of each whose predecessor has it, holds of all.
LEMMA Throughout ==
  ASSUME NEW S, NEW n \in Nat, NEW f, f[0] \in S, \A k \in 1 .. n : f[k - 1] \in S => f[k] \in S
  PROVE  \A k \in 0 .. n : f[k] \in S
<1> DEFINE P == { k \in 0 .. n : f[k] \in S }
<1>1. 0 \in P /\ P \in SUBSET (0 .. n)
  OBVIOUS
<1>2. ASSUME NEW k \in 0 .. n, k # n, k \in P PROVE k + 1 \in P
  <2> DEFINE m == k + 1
  <2>1. m \in 1 .. n /\ m \in 0 .. n /\ m - 1 = k
    BY <1>2
  <2> HIDE DEF m
  <2>2. f[m] \in S
    BY <1>2, <2>1
  <2>3. m \in P
    BY <2>1, <2>2
  <2> QED BY <2>3 DEF m
<1> HIDE DEF P
<1>3. P = 0 .. n
  BY <1>1, <1>2, Upwards
<1> QED BY <1>3 DEF P

-----------------------------------------------------------------------------
(* Numbers as bytes.                                                        *)

LEMMA ByteIs == \A x : x \in Byte <=> x \in Nat /\ x < 256
BY DEF Byte

\* htons and ntohs.
LEMMA TwoBytes ==
  ASSUME NEW x \in UInt16
  PROVE  Bytes2(x) \in Seq(Byte) /\ Len(Bytes2(x)) = 2 /\ Value2(Bytes2(x)) = x
<1>1. x \in Nat /\ x \div 256 \in Nat /\ x \div 256 < 256
  BY ByteIs DEF UInt16
<1> DEFINE a == (x \div 256) % 256
           b == x % 256
<1>2. a \in Nat /\ a < 256 /\ b \in Nat /\ b < 256 /\ 256 * a + b = x
  BY <1>1
<1>3. a \in Byte /\ b \in Byte
  BY <1>2, ByteIs
<1>4. Bytes2(x) = << a, b >>
  BY DEF Bytes2
<1> HIDE DEF a, b
<1> QED BY <1>2, <1>3, <1>4 DEF Value2

\* htonl and ntohl.
LEMMA FourBytes ==
  ASSUME NEW x \in UInt32
  PROVE  Bytes4(x) \in Seq(Byte) /\ Len(Bytes4(x)) = 4 /\ Value4(Bytes4(x)) = x
<1>1. x \in Nat /\ x \div 16777216 \in Nat /\ x \div 16777216 < 256
  BY ByteIs, SMT DEF UInt32
<1> DEFINE a == (x \div 16777216) % 256
           b == (x \div 65536) % 256
           c == (x \div 256) % 256
           d == x % 256
<1>2. /\ a \in Nat /\ a < 256 /\ b \in Nat /\ b < 256
      /\ c \in Nat /\ c < 256 /\ d \in Nat /\ d < 256
  BY <1>1, SMT
<1>3. 16777216 * a + 65536 * b + 256 * c + d = x
  BY <1>1, SMT
<1>4. a \in Byte /\ b \in Byte /\ c \in Byte /\ d \in Byte
  BY <1>2, ByteIs, SMT
<1>5. Bytes4(x) = << a, b, c, d >>
  BY SMT DEF Bytes4
<1> HIDE DEF a, b, c, d
<1> QED BY <1>2, <1>3, <1>4, <1>5, SMT DEF Value4

\* Any two or four bytes are a number.
LEMMA ValuesAreNumbers ==
  ASSUME NEW s \in Seq(Byte)
  PROVE  /\ Len(s) = 2 => Value2(s) \in Nat
         /\ Len(s) = 4 => Value4(s) \in Nat
<1>1. \A i \in 1 .. Len(s) : s[i] \in Nat
  BY ElementOfSeq, ByteIs
<1>2. ASSUME Len(s) = 2 PROVE Value2(s) \in Nat
  <2>1. s[1] \in Nat /\ s[2] \in Nat
    BY <1>1, <1>2
  <2> QED BY <2>1 DEF Value2
<1>3. ASSUME Len(s) = 4 PROVE Value4(s) \in Nat
  <2>1. s[1] \in Nat /\ s[2] \in Nat /\ s[3] \in Nat /\ s[4] \in Nat
    BY <1>1, <1>3
  <2> DEFINE a == s[1]
             b == s[2]
             c == s[3]
             d == s[4]
  <2>2. Value4(s) = 16777216 * a + 65536 * b + 256 * c + d
    BY SMT DEF Value4
  <2>3. a \in Nat /\ b \in Nat /\ c \in Nat /\ d \in Nat
    BY <2>1
  <2> HIDE DEF a, b, c, d
  <2> DEFINE high == 16777216 * a
             next == 65536 * b
             low  == 256 * c
  <2>4. high \in Nat /\ next \in Nat /\ low \in Nat
    BY <2>3, SMT
  <2> HIDE DEF high, next, low
  <2>5. high + next + low + d \in Nat
    BY <2>3, <2>4
  <2> QED BY <2>2, <2>5, SMT DEF high, next, low
<1> QED BY <1>2, <1>3

-----------------------------------------------------------------------------
(* Sequences.                                                               *)

\* If b is at least as long as c, then b followed by w is c followed by d only if
\* b begins with c and the rest of b, followed by w, is d.
Splits(b, w, c, d) ==
  /\ SubSeq(b, 1, Len(c)) = c
  /\ SubSeq(b, Len(c) + 1, Len(b)) \in Seq(Byte)
  /\ SubSeq(b, Len(c) + 1, Len(b)) \o w = d

LEMMA Split ==
  ASSUME NEW b \in Seq(Byte), NEW w \in Seq(Byte), NEW c \in Seq(Byte), NEW d \in Seq(Byte),
         b \o w = c \o d, Len(c) <= Len(b)
  PROVE  Splits(b, w, c, d)
<1> DEFINE first == SubSeq(b, 1, Len(c))
           rest  == SubSeq(b, Len(c) + 1, Len(b))
<1>1. /\ Len(b) \in Nat /\ Len(c) \in Nat /\ Len(w) \in Nat /\ Len(d) \in Nat
      /\ \A i \in 1 .. Len(b) : b[i] \in Byte
  BY LenProperties, ElementOfSeq
<1>2. /\ first \in Seq(Byte) /\ Len(first) = Len(c)
      /\ \A i \in 1 .. Len(c) : first[i] = b[i]
  <2>1. \A i \in 1 .. Len(c) : b[i] \in Byte
    BY <1>1
  <2> QED BY <1>1, <2>1, SubSeqProperties
<1>3. /\ rest \in Seq(Byte) /\ Len(rest) = Len(b) - Len(c)
      /\ \A i \in 1 .. Len(b) - Len(c) : rest[i] = b[Len(c) + i]
  <2>1. \A i \in Len(c) + 1 .. Len(b) : b[i] \in Byte
    BY <1>1
  <2> QED BY <1>1, <2>1, SubSeqProperties
<1>4. /\ Len(b \o w) = Len(b) + Len(w)
      /\ \A i \in 1 .. Len(b) + Len(w) :
           (b \o w)[i] = IF i <= Len(b) THEN b[i] ELSE w[i - Len(b)]
  BY ConcatProperties
<1>5. /\ Len(c \o d) = Len(c) + Len(d)
      /\ \A i \in 1 .. Len(c) + Len(d) :
           (c \o d)[i] = IF i <= Len(c) THEN c[i] ELSE d[i - Len(c)]
  BY ConcatProperties
<1>6. /\ rest \o w \in Seq(Byte) /\ Len(rest \o w) = Len(rest) + Len(w)
      /\ \A i \in 1 .. Len(rest) + Len(w) :
           (rest \o w)[i] = IF i <= Len(rest) THEN rest[i] ELSE w[i - Len(rest)]
  BY <1>3, ConcatProperties
<1> HIDE DEF first, rest
<1>7. first = c
  <2>1. \A i \in 1 .. Len(c) : first[i] = c[i]
    BY <1>1, <1>2, <1>4, <1>5
  <2> QED BY <1>2, <2>1, SeqEqual
<1>8. rest \o w = d
  <2>1. Len(rest \o w) = Len(d)
    BY <1>1, <1>3, <1>4, <1>5, <1>6
  <2>2. ASSUME NEW i \in 1 .. Len(d) PROVE (rest \o w)[i] = d[i]
    <3> DEFINE m == Len(c) + i
    <3>1. m \in 1 .. Len(c) + Len(d) /\ ~ (m <= Len(c)) /\ m - Len(c) = i
      BY <1>1
    <3>2. (b \o w)[m] = d[i]
      BY <1>5, <3>1
    <3>3. (b \o w)[m] = IF m <= Len(b) THEN b[m] ELSE w[m - Len(b)]
      BY <1>1, <1>4, <1>5, <3>1
    <3>4. (rest \o w)[i] = IF i <= Len(rest) THEN rest[i] ELSE w[i - Len(rest)]
      BY <1>1, <1>3, <1>6, <2>1
    <3>5. CASE m <= Len(b)
      BY <1>1, <1>3, <3>2, <3>3, <3>4, <3>5
    <3>6. CASE ~ (m <= Len(b))
      <4>1. ~ (i <= Len(rest)) /\ i - Len(rest) = m - Len(b)
        BY <1>1, <1>3, <3>6
      <4> QED BY <3>2, <3>3, <3>4, <3>6, <4>1
    <3> QED BY <3>5, <3>6
  <2>3. \A i \in 1 .. Len(rest \o w) : (rest \o w)[i] = d[i]
    BY <2>1, <2>2
  <2> QED BY <1>6, <2>1, <2>3, SeqEqual
<1> QED BY <1>3, <1>7, <1>8 DEF first, rest, Splits

\* What is common in front can be taken away.
LEMMA CancelLeft ==
  ASSUME NEW S, NEW s \in Seq(S), NEW t \in Seq(S), NEW u \in Seq(S), s \o t = s \o u
  PROVE  t = u
BY ConcatSimplifications

\* What is put together from bytes is bytes, and it does not matter where one begins.
LEMMA Joined ==
  \A s, t \in Seq(Byte) : s \o t \in Seq(Byte) /\ Len(s \o t) = Len(s) + Len(t)
BY ConcatProperties

LEMMA JoinedAt ==
  \A s, t \in Seq(Byte) : \A i \in 1 .. Len(s) + Len(t) :
    (s \o t)[i] = IF i <= Len(s) THEN s[i] ELSE t[i - Len(s)]
BY ConcatProperties

LEMMA Associative ==
  \A s, t, u \in Seq(Byte) : (s \o t) \o u = s \o (t \o u)
BY ConcatAssociative

\* Two parts in the middle are one part, and what lies between two others.
Regroups(s, t, u, v) == (s \o (t \o u)) \o v = (s \o t) \o (u \o v)

LEMMA Regroup ==
  \A s, t, u, v \in Seq(Byte) : Regroups(s, t, u, v)
<1> TAKE s, t, u, v \in Seq(Byte)
<1> DEFINE st == s \o t
<1>1. st \in Seq(Byte)
  BY Joined
<1>2. st \o u = s \o (t \o u)
  BY Associative
<1> HIDE DEF st
<1>3. st \o (u \o v) = (st \o u) \o v
  BY <1>1, Associative, Zenon
<1> QED BY <1>2, <1>3 DEF st, Regroups

\* A function from 1 .. n is a sequence of length n.
LEMMA Listed ==
  ASSUME NEW S, NEW n \in Nat, NEW s \in [1 .. n -> S]
  PROVE  s \in Seq(S) /\ Len(s) = n /\ DOMAIN s = 1 .. n
<1>1. s \in Seq(S)
  BY SeqDef
<1>2. s \in [1 .. Len(s) -> S] /\ Len(s) \in Nat
  BY <1>1, LenProperties
<1>3. 1 .. Len(s) = 1 .. n
  BY <1>2
<1> QED BY <1>1, <1>2, <1>3

\* What FlattenSeq puts together, one sequence after the other.
LEMMA Flattened ==
  ASSUME NEW n \in Nat, n # 0, NEW s \in [1 .. n -> Seq(Byte)]
  PROVE  \E f \in [1 .. n -> Seq(Byte)] :
           /\ f[1] = s[1]
           /\ \A k \in 2 .. n : f[k] = f[k - 1] \o s[k]
           /\ FlattenSeq(s) = f[n]
<1> DEFINE Body(f) == [i \in 1 .. Len(s) |-> IF i = 1 THEN s[i] ELSE f[i - 1] \o s[i]]
           flatten == CHOOSE f : f = Body(f)
<1>1. Len(s) = n
  BY Listed
<1>2. \E f \in [1 .. n -> Seq(Byte)] : f = Body(f)
  <2> DEFINE next == [k \in 1 .. n - 1 |-> [x \in Seq(Byte) |-> x \o s[k + 1]]]
  <2>1. n - 1 \in Nat /\ s[1] \in Seq(Byte)
    OBVIOUS
  <2>2. next \in [1 .. n - 1 -> [Seq(Byte) -> Seq(Byte)]]
    <3>1. ASSUME NEW k \in 1 .. n - 1, NEW x \in Seq(Byte) PROVE x \o s[k + 1] \in Seq(Byte)
      <4>1. s[k + 1] \in Seq(Byte)
        OBVIOUS
      <4> QED BY <4>1, Joined
    <3> QED BY <3>1
  <2>3. \A k \in 1 .. n - 1 : \A x \in Seq(Byte) : next[k][x] = x \o s[k + 1]
    OBVIOUS
  <2> HIDE DEF next
  <2>4. PICK h \in [0 .. n - 1 -> Seq(Byte)] :
           h[0] = s[1] /\ \A k \in 1 .. n - 1 : h[k] = next[k][h[k - 1]]
    <3> DEFINE S == Seq(Byte)
               m == n - 1
               c == s[1]
    <3> HIDE DEF S, m, c
    <3>1. m \in Nat /\ c \in S /\ next \in [1 .. m -> [S -> S]]
      BY <2>1, <2>2 DEF S, m, c
    <3>2. \E h : Recurs(h, S, m, c, next)
      BY <3>1, Recursion
    <3> QED BY <3>2 DEF S, m, c, Recurs
  <2> DEFINE g == [i \in 1 .. n |-> h[i - 1]]
  <2>5. g \in [1 .. n -> Seq(Byte)] /\ g[1] = s[1]
    BY <2>4
  <2>6. ASSUME NEW i \in 1 .. n, i # 1 PROVE g[i] = g[i - 1] \o s[i]
    <3>1. i - 1 \in 1 .. n - 1 /\ i - 1 - 1 \in 0 .. n - 1 /\ i - 1 \in 1 .. n /\ i - 1 + 1 = i
      BY <2>6
    <3>2. h[i - 1] = h[i - 1 - 1] \o s[i]
      BY <2>3, <2>4, <3>1
    <3> QED BY <3>1, <3>2
  <2> HIDE DEF g
  <2>7. g = Body(g)
    BY <1>1, <2>5, <2>6
  <2> QED BY <2>5, <2>7
<1>3. flatten = Body(flatten)
  BY <1>2
<1>4. FlattenSeq(s) = flatten[n]
  BY <1>1 DEF FlattenSeq
<1> HIDE DEF flatten
<1>5. flatten = [i \in 1 .. n |-> IF i = 1 THEN s[i] ELSE flatten[i - 1] \o s[i]]
  BY <1>1, <1>3
<1>6. \A k \in 1 .. n : flatten[k] = IF k = 1 THEN s[k] ELSE flatten[k - 1] \o s[k]
  BY <1>5
<1>7. flatten \in [1 .. n -> Seq(Byte)]
  <2> DEFINE P == { k \in 0 .. n - 1 : flatten[k + 1] \in Seq(Byte) }
  <2>1. 0 \in P
    BY <1>6
  <2>2. ASSUME NEW k \in 0 .. n - 1, k # n - 1, k \in P PROVE k + 1 \in P
    <3> DEFINE m == k + 1 + 1
    <3>1. m \in 1 .. n /\ m # 1 /\ m - 1 = k + 1 /\ k + 1 \in 0 .. n - 1
      BY <2>2
    <3>2. flatten[k + 1] \in Seq(Byte)
      BY <2>2
    <3> HIDE DEF m
    <3>3. flatten[m] = flatten[m - 1] \o s[m] /\ s[m] \in Seq(Byte)
      BY <1>6, <3>1
    <3>4. flatten[m] \in Seq(Byte)
      BY <3>1, <3>2, <3>3, Joined
    <3> QED BY <3>1, <3>4 DEF m
  <2>3. P \in SUBSET (0 .. n - 1) /\ n - 1 \in Nat
    OBVIOUS
  <2> HIDE DEF P
  <2>4. P = 0 .. n - 1
    BY <2>1, <2>2, <2>3, Upwards
  <2>5. ASSUME NEW k \in 1 .. n PROVE flatten[k] \in Seq(Byte)
    <3>1. k - 1 \in P /\ k - 1 + 1 = k
      BY <2>4
    <3> QED BY <3>1 DEF P
  <2> QED BY <1>5, <2>5
<1>8. flatten[1] = s[1] /\ \A k \in 2 .. n : flatten[k] = flatten[k - 1] \o s[k]
  <2>1. 1 \in 1 .. n
    OBVIOUS
  <2>2. ASSUME NEW k \in 2 .. n PROVE k \in 1 .. n /\ k # 1
    OBVIOUS
  <2> QED BY <1>6, <2>1, <2>2
<1> QED BY <1>4, <1>7, <1>8

-----------------------------------------------------------------------------
(* The addresses in a handshake.                                            *)

Place == [ip : UInt32, port : UInt16]

Addresses(a) == FlattenSeq([k \in DOMAIN a |-> Address(a[k])])

LEMMA SixBytes ==
  ASSUME NEW a \in Place
  PROVE  /\ Address(a) \in Seq(Byte) /\ Len(Address(a)) = 6
         /\ \A i \in 1 .. 4 : Address(a)[i] = Bytes4(a.ip)[i]
         /\ \A i \in 1 .. 2 : Address(a)[4 + i] = Bytes2(a.port)[i]
<1> DEFINE ip == Bytes4(a.ip)
           port == Bytes2(a.port)
<1>1. /\ ip \in Seq(Byte) /\ Len(ip) = 4
      /\ port \in Seq(Byte) /\ Len(port) = 2
  <2>1. a.ip \in UInt32 /\ a.port \in UInt16
    BY DEF Place
  <2> QED BY <2>1, TwoBytes, FourBytes
<1> HIDE DEF ip, port
<1>2. /\ ip \o port \in Seq(Byte) /\ Len(ip \o port) = 6
      /\ \A i \in 1 .. 6 : (ip \o port)[i] = IF i <= 4 THEN ip[i] ELSE port[i - 4]
  <2>1. ip \o port \in Seq(Byte) /\ Len(ip \o port) = 4 + 2
    BY <1>1, Joined
  <2>2. \A i \in 1 .. 4 + 2 : (ip \o port)[i] = IF i <= 4 THEN ip[i] ELSE port[i - 4]
    BY ZenonT(40), <1>1, JoinedAt
  <2> QED BY <2>1, <2>2
<1>3. \A i \in 1 .. 4 : (ip \o port)[i] = ip[i]
  BY <1>2
<1>4. \A i \in 1 .. 2 : (ip \o port)[4 + i] = port[i]
  <2>1. ASSUME NEW i \in 1 .. 2 PROVE (ip \o port)[4 + i] = port[i]
    <3>1. 4 + i \in 1 .. 6 /\ ~ (4 + i <= 4) /\ 4 + i - 4 = i
      OBVIOUS
    <3> QED BY <1>2, <3>1
  <2> QED BY <2>1
<1> QED BY <1>2, <1>3, <1>4 DEF Address, ip, port

\* PacketBuilder appends the addresses one after the other, six bytes each: the k-th
\* is where the loop of ContinueBuild looks for it.
LEMMA AddressBytes ==
  ASSUME NEW a \in Seq(Place)
  PROVE  /\ Addresses(a) \in Seq(Byte)
         /\ Len(Addresses(a)) = 6 * Len(a)
         /\ \A k \in 1 .. Len(a) : \A i \in 1 .. 6 :
              Addresses(a)[6 * k - 6 + i] = Address(a[k])[i]
<1> DEFINE n == Len(a)
           s == [k \in 1 .. n |-> Address(a[k])]
<1>1. n \in Nat /\ DOMAIN a = 1 .. n /\ \A k \in 1 .. n : a[k] \in Place
  BY LenProperties, ElementOfSeq
<1>2. s \in [1 .. n -> Seq(Byte)] /\ \A k \in 1 .. n : s[k] = Address(a[k]) /\ Len(s[k]) = 6
  BY <1>1, SixBytes
<1>3. Addresses(a) = FlattenSeq(s)
  BY <1>1 DEF Addresses
<1> HIDE DEF n, s
<1>4. CASE n = 0
  <2>1. Len(s) = 0 /\ s = << >>
    BY <1>1, <1>2, <1>4, Listed, EmptySeq
  <2>2. FlattenSeq(s) = << >>
    BY <2>1 DEF FlattenSeq
  <2> QED BY <1>3, <1>4, <2>2 DEF n
<1>5. CASE n # 0
  <2>1. PICK f \in [1 .. n -> Seq(Byte)] :
           /\ f[1] = s[1]
           /\ \A k \in 2 .. n : f[k] = f[k - 1] \o s[k]
           /\ FlattenSeq(s) = f[n]
    BY <1>1, <1>2, <1>5, Flattened
  <2> DEFINE Holds(m) == /\ Len(f[m]) = 6 * m
                         /\ \A k \in 1 .. m : \A i \in 1 .. 6 : f[m][6 * k - 6 + i] = s[k][i]
             P == { m \in 0 .. n : m = 0 \/ Holds(m) }
  <2>2. 0 \in P /\ P \in SUBSET (0 .. n)
    BY <1>1
  <2>3. ASSUME NEW m \in 0 .. n, m # n, m \in P PROVE m + 1 \in P
    <3>1. CASE m = 0
      <4>1. 1 \in 1 .. n /\ Len(f[1]) = 6
        BY <1>1, <1>2, <1>5, <2>1
      <4>2. ASSUME NEW k \in 1 .. 1, NEW i \in 1 .. 6 PROVE f[1][6 * k - 6 + i] = s[k][i]
        BY <2>1
      <4> QED BY <3>1, <4>1, <4>2
    <3>2. CASE m # 0
      <4> DEFINE q == m + 1
      <4>1. q \in 2 .. n /\ q - 1 = m /\ q \in 1 .. n /\ m \in 1 .. n
        BY <1>1, <2>3, <3>2
      <4>2. Len(f[m]) = 6 * m /\ \A k \in 1 .. m : \A i \in 1 .. 6 : f[m][6 * k - 6 + i] = s[k][i]
        BY <2>3, <3>2
      <4> HIDE DEF q
      <4>3. f[q] = f[m] \o s[q] /\ f[m] \in Seq(Byte) /\ s[q] \in Seq(Byte) /\ Len(s[q]) = 6
        BY <1>2, <2>1, <4>1
      <4>4. /\ Len(f[q]) = Len(f[m]) + 6
            /\ \A i \in 1 .. Len(f[m]) + 6 :
                 f[q][i] = IF i <= Len(f[m]) THEN f[m][i] ELSE s[q][i - Len(f[m])]
        <5> DEFINE u == f[m]
                   v == s[q]
        <5>1. u \in Seq(Byte) /\ v \in Seq(Byte) /\ Len(v) = 6 /\ f[q] = u \o v
          BY <4>3
        <5> HIDE DEF u, v
        <5>2. Len(f[q]) = Len(u) + 6
          BY <5>1, Joined
        <5>3. \A i \in 1 .. Len(u) + 6 : f[q][i] = IF i <= Len(u) THEN u[i] ELSE v[i - Len(u)]
          <6>1. \A i \in 1 .. Len(u) + Len(v) :
                  (u \o v)[i] = IF i <= Len(u) THEN u[i] ELSE v[i - Len(u)]
            BY <5>1, JoinedAt
          <6> QED BY <5>1, <6>1
        <5> QED BY <5>2, <5>3 DEF u, v
      <4>5. Len(f[q]) = 6 * q
        BY <4>1, <4>2, <4>4
      <4>6. ASSUME NEW k \in 1 .. q, NEW i \in 1 .. 6 PROVE f[q][6 * k - 6 + i] = s[k][i]
        <5>1. CASE k = q
          <6> DEFINE j == 6 * k - 6 + i
          <6>1. j \in 1 .. Len(f[m]) + 6 /\ ~ (j <= Len(f[m])) /\ j - Len(f[m]) = i
            BY <4>1, <4>2, <5>1
          <6> HIDE DEF j
          <6>2. f[q][j] = s[q][i]
            BY <4>4, <6>1
          <6> QED BY <5>1, <6>2 DEF j
        <5>2. CASE k # q
          <6> DEFINE j == 6 * k - 6 + i
          <6>1. k \in 1 .. m /\ j \in 1 .. Len(f[m]) + 6 /\ j <= Len(f[m])
            BY <4>1, <4>2, <5>2
          <6>2. f[m][j] = s[k][i]
            BY <4>2, <6>1
          <6> HIDE DEF j
          <6>3. f[q][j] = f[m][j]
            BY <4>4, <6>1
          <6> QED BY <6>2, <6>3 DEF j
        <5> QED BY <5>1, <5>2
      <4>7. q \in P
        BY <4>1, <4>5, <4>6
      <4> QED BY <4>7 DEF q
    <3> QED BY <3>1, <3>2
  <2> HIDE DEF P
  <2>4. P = 0 .. n
    BY <1>1, <2>2, <2>3, Upwards
  <2>5. n \in P
    BY <1>1, <2>4
  <2>6. Holds(n)
    BY <1>5, <2>5 DEF P
  <2>7. Addresses(a) = f[n] /\ f[n] \in Seq(Byte)
    BY <1>1, <1>3, <1>5, <2>1
  <2>8. ASSUME NEW k \in 1 .. n, NEW i \in 1 .. 6
        PROVE  Addresses(a)[6 * k - 6 + i] = Address(a[k])[i]
    BY <1>2, <2>6, <2>7
  <2> QED BY <2>6, <2>7, <2>8 DEF n
<1> QED BY <1>4, <1>5

-----------------------------------------------------------------------------
(* The layers of a message.                                                 *)

\* A layer is bytes: the key, the type, the length of the id, the id and the rest.
LEMMA LayerIsBytes ==
  ASSUME NEW layer \in [ty : LayerType, id : String, key : Byte], NEW data \in Seq(Byte)
  PROVE  Encrypt(layer.key, LayerBytes(layer.ty, layer.id, data)) \in Seq(Byte)
<1> DEFINE ty  == << layer.ty >>
           len == Bytes4(Len(layer.id))
           id  == layer.id
           key == << layer.key >>
<1>1. layer.ty \in Byte
  <2>1. layer.ty \in {0, 1, 2}
    BY DEF LayerType, ONIONLAYER, MSGLAYER, IMGLAYER
  <2> QED BY SMTT(30), <2>1, ByteIs
<1>2. ty \in Seq(Byte) /\ len \in Seq(Byte) /\ id \in Seq(Byte) /\ key \in Seq(Byte)
  BY <1>1, FourBytes DEF String
<1> HIDE DEF ty, len, id, key
<1>3. ty \o len \in Seq(Byte)
  BY <1>2, Joined
<1>4. ty \o len \o id \in Seq(Byte)
  BY <1>2, <1>3, Joined
<1>5. ty \o len \o id \o data \in Seq(Byte)
  BY <1>2, <1>4, Joined
<1>6. key \o (ty \o len \o id \o data) \in Seq(Byte)
  BY <1>2, <1>5, Joined
<1> QED BY <1>6 DEF Encrypt, LayerBytes, ty, len, id, key

\* Wrapped(o) as the recursion it is written as.
LEMMA WrappedUp ==
  ASSUME NEW o \in Onion
  PROVE  /\ Wrapped(o)[0] = o.text
         /\ \A k \in 0 .. Len(o.layers) : Wrapped(o)[k] \in Seq(Byte)
         /\ \A k \in 1 .. Len(o.layers) :
              Wrapped(o)[k] = LET layer == o.layers[Len(o.layers) + 1 - k]
                              IN Encrypt(layer.key,
                                         LayerBytes(layer.ty, layer.id, Wrapped(o)[k - 1]))
<1> DEFINE n        == Len(o.layers)
           layer(k) == o.layers[n + 1 - k]
           Put(k, x) == Encrypt(layer(k).key, LayerBytes(layer(k).ty, layer(k).id, x))
           Body(f)  == [k \in 0 .. n |-> IF k = 0 THEN o.text ELSE Put(k, f[k - 1])]
           around   == CHOOSE f : f = Body(f)
<1>1. n \in Nat /\ o.text \in Seq(Byte)
  BY LenProperties DEF Onion
<1>2. ASSUME NEW k \in 1 .. n, NEW x \in Seq(Byte) PROVE Put(k, x) \in Seq(Byte)
  <2>1. n + 1 - k \in 1 .. n
    BY <1>1
  <2>2. o.layers \in Seq([ty : LayerType, id : String, key : Byte])
    BY DEF Onion
  <2>3. layer(k) \in [ty : LayerType, id : String, key : Byte]
    BY <2>1, <2>2, ElementOfSeq
  <2> HIDE DEF layer
  <2> QED BY <2>3, LayerIsBytes
<1>3. Wrapped(o) = around
  BY DEF Wrapped
<1> HIDE DEF n, Put, around
<1>4. \E f : f = Body(f)
  <2> DEFINE S == Seq(Byte)
             c == o.text
             next == [k \in 1 .. n |-> [x \in S |-> Put(k, x)]]
  <2> HIDE DEF S
  <2>1. c \in S /\ next \in [1 .. n -> [S -> S]]
    BY <1>1, <1>2 DEF S
  <2>2. \A k \in 1 .. n : \A x \in S : next[k][x] = Put(k, x)
    OBVIOUS
  <2> HIDE DEF c, next
  <2>3. PICK f : Recurs(f, S, n, c, next)
    BY <1>1, <2>1, Recursion
  <2>4. f \in [0 .. n -> S] /\ f[0] = o.text
    BY <2>3 DEF Recurs, c
  <2>5. ASSUME NEW k \in 0 .. n, k # 0 PROVE f[k] = Put(k, f[k - 1])
    <3>1. k \in 1 .. n /\ k - 1 \in 0 .. n
      BY <1>1, <2>5
    <3>2. f[k] = next[k][f[k - 1]]
      BY <2>3, <3>1 DEF Recurs
    <3> QED BY <2>2, <2>4, <3>1, <3>2
  <2>6. f = Body(f)
    BY <2>4, <2>5
  <2> QED BY <2>6
<1>5. around = Body(around)
  BY <1>4 DEF around
<1>6. around[0] = o.text
  BY <1>1, <1>5
<1>7. ASSUME NEW k \in 1 .. n PROVE around[k] = Put(k, around[k - 1])
  <2>1. k \in 0 .. n /\ k # 0
    BY <1>1
  <2> QED BY <1>5, <2>1
<1>8. \A k \in 0 .. n : around[k] \in Seq(Byte)
  BY <1>1, <1>2, <1>6, <1>7, Throughout
<1> QED BY <1>3, <1>6, <1>7, <1>8 DEF n, Put

-----------------------------------------------------------------------------
(* The bytes of a packet, piece by piece: the type and then the fields.      *)

Packet == Greeting \cup Message

Pieces(p) ==
  IF p.type = HANDSHAKE
  THEN << << HANDSHAKE >>, Bytes2(p.port), Bytes4(Len(p.id)), p.id, Bytes4(Len(p.key)), p.key,
          Bytes4(Len(p.nodes)), Addresses(p.nodes) >>
  ELSE << << MSG >>, Bytes4(Len(Wrap(p.onion))), Wrap(p.onion) >>

Count(p) == Fields[p.type] + 1

LEMMA TypeOfPacket ==
  ASSUME NEW p \in Packet
  PROVE  /\ p.type = HANDSHAKE <=> p \in Greeting
         /\ p.type = MSG <=> p \in Message
         /\ p.type \in {HANDSHAKE, MSG} /\ p.type \in Byte
         /\ HANDSHAKE # MSG
         /\ p.type = HANDSHAKE => Count(p) = 8
         /\ p.type = MSG => Count(p) = 3
<1>1. HANDSHAKE \in Byte /\ MSG \in Byte /\ HANDSHAKE # MSG
  BY ByteIs DEF HANDSHAKE, MSG
<1>2. p \in Greeting => p.type = HANDSHAKE
  BY DEF Greeting
<1>3. p \in Message => p.type = MSG
  BY DEF Message
<1>4. Fields[HANDSHAKE] = 7 /\ Fields[MSG] = 2
  BY <1>1 DEF Fields
<1> QED BY <1>1, <1>2, <1>3, <1>4 DEF Packet, Count

LEMMA PiecesOfHandShake ==
  ASSUME NEW p \in Packet, p.type = HANDSHAKE
  PROVE  /\ Pieces(p) \in [1 .. 8 -> Seq(Byte)]
         /\ Len(Pieces(p)[1]) = 1
         /\ Len(Pieces(p)[2]) = 2 /\ Value2(Pieces(p)[2]) = p.port
         /\ Len(Pieces(p)[3]) = 4 /\ Value4(Pieces(p)[3]) = Len(Pieces(p)[4])
         /\ Pieces(p)[4] = p.id
         /\ Len(Pieces(p)[5]) = 4 /\ Value4(Pieces(p)[5]) = Len(Pieces(p)[6])
         /\ Pieces(p)[6] = p.key
         /\ Len(Pieces(p)[7]) = 4 /\ Value4(Pieces(p)[7]) = Len(p.nodes)
         /\ Pieces(p)[8] = Addresses(p.nodes) /\ Len(Pieces(p)[8]) = 6 * Len(p.nodes)
<1>1. p \in Greeting
  BY TypeOfPacket
<1>2. /\ p.port \in UInt16
      /\ p.id \in Seq(Byte) /\ Len(p.id) \in UInt32
      /\ p.key \in Seq(Byte) /\ Len(p.key) \in UInt32
      /\ p.nodes \in Seq(Place) /\ Len(p.nodes) \in UInt32
  BY <1>1 DEF Greeting, String, Place
<1>3. << HANDSHAKE >> \in Seq(Byte) /\ Len(<< HANDSHAKE >>) = 1
  BY TypeOfPacket
<1>4. /\ Bytes2(p.port) \in Seq(Byte) /\ Len(Bytes2(p.port)) = 2
      /\ Value2(Bytes2(p.port)) = p.port
  BY <1>2, TwoBytes
<1>5. \A x \in UInt32 : Bytes4(x) \in Seq(Byte) /\ Len(Bytes4(x)) = 4 /\ Value4(Bytes4(x)) = x
  BY FourBytes
<1>6. Addresses(p.nodes) \in Seq(Byte) /\ Len(Addresses(p.nodes)) = 6 * Len(p.nodes)
  BY <1>2, AddressBytes
<1> DEFINE S  == Seq(Byte)
           b1 == << HANDSHAKE >>
           b2 == Bytes2(p.port)
           b3 == Bytes4(Len(p.id))
           b4 == p.id
           b5 == Bytes4(Len(p.key))
           b6 == p.key
           b7 == Bytes4(Len(p.nodes))
           b8 == Addresses(p.nodes)
<1>7. Pieces(p) = << b1, b2, b3, b4, b5, b6, b7, b8 >>
  BY DEF Pieces
<1>8. /\ b1 \in S /\ b2 \in S /\ b3 \in S /\ b4 \in S
      /\ b5 \in S /\ b6 \in S /\ b7 \in S /\ b8 \in S
  BY <1>2, <1>3, <1>4, <1>5, <1>6
<1>9. /\ Len(b1) = 1 /\ Len(b2) = 2 /\ Len(b3) = 4 /\ Len(b5) = 4 /\ Len(b7) = 4
      /\ Value2(b2) = p.port /\ Value4(b3) = Len(b4) /\ Value4(b5) = Len(b6)
      /\ Value4(b7) = Len(p.nodes) /\ Len(b8) = 6 * Len(p.nodes)
      /\ b4 = p.id /\ b6 = p.key /\ b8 = Addresses(p.nodes)
  BY <1>2, <1>3, <1>4, <1>5, <1>6
<1> HIDE DEF S, b1, b2, b3, b4, b5, b6, b7, b8
<1>10. Pieces(p) \in [1 .. 8 -> S]
  BY <1>7, <1>8
<1>11. /\ Pieces(p)[1] = b1 /\ Pieces(p)[2] = b2 /\ Pieces(p)[3] = b3 /\ Pieces(p)[4] = b4
       /\ Pieces(p)[5] = b5 /\ Pieces(p)[6] = b6 /\ Pieces(p)[7] = b7 /\ Pieces(p)[8] = b8
  BY <1>7
<1> QED BY <1>9, <1>10, <1>11 DEF S

LEMMA PiecesOfMsg ==
  ASSUME NEW p \in Packet, p.type = MSG
  PROVE  /\ Pieces(p) \in [1 .. 3 -> Seq(Byte)]
         /\ Len(Pieces(p)[1]) = 1
         /\ Len(Pieces(p)[2]) = 4 /\ Value4(Pieces(p)[2]) = Len(Pieces(p)[3])
         /\ Pieces(p)[3] = Wrap(p.onion)
<1>1. p \in Message /\ p.type # HANDSHAKE
  BY TypeOfPacket
<1>2. p.onion \in Onion /\ Len(Wrap(p.onion)) \in UInt32
  BY <1>1 DEF Message
<1>3. Wrap(p.onion) \in Seq(Byte)
  <2>1. Len(p.onion.layers) \in 0 .. Len(p.onion.layers)
    BY <1>2, LenProperties DEF Onion
  <2> QED BY <1>2, <2>1, WrappedUp DEF Wrap
<1>4. << MSG >> \in Seq(Byte) /\ Len(<< MSG >>) = 1
  BY TypeOfPacket
<1>5. \A x \in UInt32 : Bytes4(x) \in Seq(Byte) /\ Len(Bytes4(x)) = 4 /\ Value4(Bytes4(x)) = x
  BY FourBytes
<1> DEFINE S  == Seq(Byte)
           b1 == << MSG >>
           b2 == Bytes4(Len(Wrap(p.onion)))
           b3 == Wrap(p.onion)
<1>6. Pieces(p) = << b1, b2, b3 >>
  BY <1>1 DEF Pieces
<1>7. b1 \in S /\ b2 \in S /\ b3 \in S
  BY <1>2, <1>3, <1>4, <1>5
<1>8. Len(b1) = 1 /\ Len(b2) = 4 /\ Value4(b2) = Len(b3) /\ b3 = Wrap(p.onion)
  BY <1>2, <1>4, <1>5
<1> HIDE DEF S, b1, b2, b3
<1>9. Pieces(p) \in [1 .. 3 -> S]
  BY <1>6, <1>7
<1>10. Pieces(p)[1] = b1 /\ Pieces(p)[2] = b2 /\ Pieces(p)[3] = b3
  BY <1>6
<1> QED BY <1>8, <1>9, <1>10 DEF S

LEMMA PiecesAreBytes ==
  ASSUME NEW p \in Packet
  PROVE  /\ Count(p) \in Nat /\ Count(p) >= 1
         /\ Pieces(p) \in [1 .. Count(p) -> Seq(Byte)]
         /\ Pieces(p)[1] = << p.type >>
<1>1. CASE p.type = HANDSHAKE
  <2>1. Count(p) = 8 /\ Pieces(p) \in [1 .. 8 -> Seq(Byte)]
    BY <1>1, TypeOfPacket, PiecesOfHandShake
  <2>2. Pieces(p)[1] = << HANDSHAKE >>
    BY <1>1 DEF Pieces
  <2> QED BY <1>1, <2>1, <2>2
<1>2. CASE p.type = MSG
  <2>1. Count(p) = 3 /\ Pieces(p) \in [1 .. 3 -> Seq(Byte)]
    BY <1>2, TypeOfPacket, PiecesOfMsg
  <2>2. Pieces(p)[1] = << MSG >>
    BY <1>2, TypeOfPacket DEF Pieces
  <2> QED BY <1>2, <2>1, <2>2
<1> QED BY <1>1, <1>2, TypeOfPacket

\* The first j pieces of p, and then all of it.
Past(p) ==
  CHOOSE f : Recurs(f, Seq(Byte), Count(p), << >>,
                    [k \in 1 .. Count(p) |-> [x \in Seq(Byte) |-> x \o Pieces(p)[k]]])

LEMMA PastRecurs ==
  ASSUME NEW p \in Packet
  PROVE  /\ Past(p) \in [0 .. Count(p) -> Seq(Byte)]
         /\ Past(p)[0] = << >>
         /\ \A k \in 1 .. Count(p) : Past(p)[k] = Past(p)[k - 1] \o Pieces(p)[k]
<1> DEFINE S == Seq(Byte)
           n == Count(p)
           c == << >>
           next == [k \in 1 .. n |-> [x \in S |-> x \o Pieces(p)[k]]]
<1>1. n \in Nat /\ c \in S
  BY PiecesAreBytes
<1>2. next \in [1 .. n -> [S -> S]]
  <2>1. ASSUME NEW k \in 1 .. n, NEW x \in S PROVE x \o Pieces(p)[k] \in S
    <3>1. Pieces(p)[k] \in Seq(Byte)
      BY PiecesAreBytes
    <3> QED BY <3>1, Joined
  <2> HIDE DEF S
  <2> QED BY <2>1
<1>3. \A k \in 1 .. n : \A x \in S : next[k][x] = x \o Pieces(p)[k]
  OBVIOUS
<1>4. Past(p) = CHOOSE f : Recurs(f, S, n, c, next)
  BY DEF Past
<1> HIDE DEF S, n, c, next
<1>5. \E f : Recurs(f, S, n, c, next)
  BY <1>1, <1>2, Recursion
<1>6. Recurs(Past(p), S, n, c, next)
  BY <1>4, <1>5
<1>7. Past(p) \in [0 .. n -> S] /\ Past(p)[0] = c
  BY <1>6 DEF Recurs
<1>8. ASSUME NEW k \in 1 .. n PROVE Past(p)[k] = Past(p)[k - 1] \o Pieces(p)[k]
  <2>1. k - 1 \in 0 .. n
    BY <1>1
  <2>2. Past(p)[k] = next[k][Past(p)[k - 1]]
    BY <1>6 DEF Recurs
  <2> QED BY <1>3, <1>7, <2>1, <2>2
<1> QED BY <1>7, <1>8 DEF S, n, c

LEMMA PastNext ==
  ASSUME NEW p \in Packet, NEW j \in 0 .. Count(p), NEW k \in 0 .. Count(p), k = j + 1
  PROVE  Past(p)[k] = Past(p)[j] \o Pieces(p)[k]
<1>1. k \in 1 .. Count(p) /\ k - 1 = j
  BY PiecesAreBytes
<1> QED BY <1>1, PastRecurs

\* Serialize puts the pieces together.
LEMMA SerializePieces ==
  ASSUME NEW p \in Packet
  PROVE  Serialize(p) = Past(p)[Count(p)]
<1> DEFINE f == Past(p)
           b == Pieces(p)
           n == Count(p)
<1>1. f[0] = << >> /\ n \in Nat /\ n >= 1
  BY PastRecurs, PiecesAreBytes
<1> DEFINE Joins(j, k) == f[k] = f[j] \o b[k]
<1>2. \A j, k \in 0 .. n : k = j + 1 => Joins(j, k)
  BY PastNext
<1>3. f[1] = b[1]
  <2>1. 0 \in 0 .. n /\ 1 \in 0 .. n /\ 1 = 0 + 1 /\ b[1] \in Seq(Byte)
    BY PiecesAreBytes
  <2>2. f[1] = << >> \o b[1]
    BY <1>1, <1>2, <2>1
  <2> QED BY <2>1, <2>2, ConcatEmptySeq
<1>4. CASE p.type = HANDSHAKE
  <2>1. n = 8
    BY <1>4, TypeOfPacket
  <2>2. b = << << HANDSHAKE >>, Bytes2(p.port), Bytes4(Len(p.id)), p.id, Bytes4(Len(p.key)),
               p.key, Bytes4(Len(p.nodes)), Addresses(p.nodes) >>
    BY <1>4 DEF Pieces
  <2> HIDE DEF f, b, n
  <2>3. /\ f[2] = f[1] \o b[2] /\ f[3] = f[2] \o b[3] /\ f[4] = f[3] \o b[4]
        /\ f[5] = f[4] \o b[5] /\ f[6] = f[5] \o b[6] /\ f[7] = f[6] \o b[7]
        /\ f[8] = f[7] \o b[8]
    <3> HIDE DEF Joins
    <3>1. /\ Joins(1, 2) /\ Joins(2, 3) /\ Joins(3, 4) /\ Joins(4, 5)
          /\ Joins(5, 6) /\ Joins(6, 7) /\ Joins(7, 8)
      BY <1>2, <2>1
    <3> QED BY <3>1 DEF Joins
  <2>4. f[8] = b[1] \o b[2] \o b[3] \o b[4] \o b[5] \o b[6] \o b[7] \o b[8]
    BY <1>3, <2>3, Zenon
  <2>5. /\ b[1] = << HANDSHAKE >> /\ b[2] = Bytes2(p.port) /\ b[3] = Bytes4(Len(p.id))
        /\ b[4] = p.id /\ b[5] = Bytes4(Len(p.key)) /\ b[6] = p.key
        /\ b[7] = Bytes4(Len(p.nodes)) /\ b[8] = Addresses(p.nodes)
    BY <2>2
  <2>6. Serialize(p) = b[1] \o b[2] \o b[3] \o b[4] \o b[5] \o b[6] \o b[7] \o b[8]
    BY <1>4, <2>5, Zenon DEF Serialize, Addresses
  <2> QED BY <2>1, <2>4, <2>6 DEF f, n
<1>5. CASE p.type = MSG
  <2>1. n = 3 /\ p.type # HANDSHAKE
    BY <1>5, TypeOfPacket
  <2>2. b = << << MSG >>, Bytes4(Len(Wrap(p.onion))), Wrap(p.onion) >>
    BY <2>1 DEF Pieces
  <2> HIDE DEF f, b, n
  <2>3. f[2] = f[1] \o b[2] /\ f[3] = f[2] \o b[3]
    <3> HIDE DEF Joins
    <3>1. Joins(1, 2) /\ Joins(2, 3)
      BY <1>2, <2>1
    <3> QED BY <3>1 DEF Joins
  <2>4. b[1] = << MSG >> /\ b[2] = Bytes4(Len(Wrap(p.onion))) /\ b[3] = Wrap(p.onion)
    BY <2>2
  <2>5. Serialize(p) = b[1] \o b[2] \o b[3]
    BY <2>1, <2>4, Zenon DEF Serialize
  <2> QED BY <1>3, <2>1, <2>3, <2>5 DEF f, n
<1> QED BY <1>4, <1>5, TypeOfPacket

\* f puts together, one after the other, the n pieces b.
Grows(f, b, n) ==
  /\ n \in Nat /\ f \in [0 .. n -> Seq(Byte)] /\ b \in [1 .. n -> Seq(Byte)]
  /\ f[0] = << >>
  /\ \A k \in 1 .. n : f[k] = f[k - 1] \o b[k]

LEMMA PastGrows ==
  ASSUME NEW p \in Packet
  PROVE  Grows(Past(p), Pieces(p), Count(p))
BY PastRecurs, PiecesAreBytes DEF Grows

\* What comes later only adds: from any point on, the bytes up to another are the
\* bytes up to the first and some more.  (f may be Past(p) or the Stream.)
Begins(s, t) == \E r \in Seq(Byte) : t = s \o r

LEMMA Ahead ==
  ASSUME NEW f, NEW b, NEW n, Grows(f, b, n), NEW j \in 0 .. n, NEW m \in 0 .. n, j <= m
  PROVE  Begins(f[j], f[m])
<1>0. /\ n \in Nat /\ f \in [0 .. n -> Seq(Byte)] /\ b \in [1 .. n -> Seq(Byte)]
      /\ \A k \in 1 .. n : f[k] = f[k - 1] \o b[k]
  BY DEF Grows
<1> DEFINE P == { d \in 0 .. n - j : \E r \in Seq(Byte) : f[j + d] = f[j] \o r }
           top == n - j
<1>1. 0 \in P
  <2>1. f[j] \in Seq(Byte) /\ j + 0 = j /\ 0 \in 0 .. n - j
    BY <1>0
  <2>2. f[j] = f[j] \o << >> /\ << >> \in Seq(Byte)
    BY <2>1, ConcatEmptySeq, EmptySeq
  <2>3. \E r \in Seq(Byte) : f[j] = f[j] \o r
    BY <2>2
  <2> QED BY <2>1, <2>3
<1>2. ASSUME NEW d \in 0 .. top, d # top, d \in P PROVE d + 1 \in P
  <2> DEFINE k == j + (d + 1)
  <2>1. PICK r \in Seq(Byte) : f[j + d] = f[j] \o r
    BY <1>2
  <2>2. k \in 1 .. n /\ k - 1 = j + d /\ d + 1 \in 0 .. n - j
    BY <1>0, <1>2
  <2> HIDE DEF k
  <2>3. f[k] = (f[j] \o r) \o b[k] /\ f[j] \in Seq(Byte) /\ b[k] \in Seq(Byte)
    BY <1>0, <2>1, <2>2
  <2>4. f[k] = f[j] \o (r \o b[k]) /\ r \o b[k] \in Seq(Byte)
    BY ZenonT(40), <2>3, Associative, Joined
  <2> QED BY <2>2, <2>4 DEF k
<1>3. top \in Nat /\ P \in SUBSET (0 .. top)
  BY <1>0
<1> HIDE DEF P, top
<1>4. P = 0 .. top
  BY <1>1, <1>2, <1>3, Upwards
<1>5. m - j \in 0 .. top /\ j + (m - j) = m
  BY <1>0 DEF top
<1> QED BY <1>4, <1>5 DEF P, Begins

\* And between them lies the first piece that is still to come.
Follows(s, t, u) == \E r \in Seq(Byte) : u = t \o (s \o r)

LEMMA NextAhead ==
  ASSUME NEW f, NEW b, NEW n, Grows(f, b, n),
         NEW j \in 0 .. n, NEW k \in 0 .. n, NEW m \in 0 .. n, k = j + 1, k <= m
  PROVE  /\ f[j] \in Seq(Byte) /\ b[k] \in Seq(Byte) /\ f[k] = f[j] \o b[k]
         /\ Follows(b[k], f[j], f[m])
<1>1. k \in 1 .. n /\ k - 1 = j
  BY DEF Grows
<1>2. PICK r \in Seq(Byte) : f[m] = f[k] \o r
  <2>1. Begins(f[k], f[m])
    BY Ahead
  <2> QED BY <2>1 DEF Begins
<1>3. f[k] = f[j] \o b[k] /\ f[j] \in Seq(Byte) /\ b[k] \in Seq(Byte)
  BY <1>1 DEF Grows
<1> DEFINE u == f[j]
           v == b[k]
<1>4. f[m] = (u \o v) \o r /\ u \in Seq(Byte) /\ v \in Seq(Byte)
  BY <1>2, <1>3
<1> HIDE DEF u, v
<1>5. f[m] = u \o (v \o r)
  BY <1>4, Associative
<1> QED BY <1>3, <1>5 DEF u, v, Follows

LEMMA SerializeIsBytes ==
  ASSUME NEW p \in Packet
  PROVE  /\ Serialize(p) \in Seq(Byte)
         /\ \E r \in Seq(Byte) : Serialize(p) = << p.type >> \o r
<1> DEFINE n == Count(p)
           f == Past(p)
           b == Pieces(p)
           t == << p.type >>
<1>1. n \in Nat /\ n >= 1 /\ b[1] = t /\ t \in Seq(Byte)
  BY PiecesAreBytes, TypeOfPacket
<1>2. Grows(f, b, n)
  BY PastGrows
<1>3. Serialize(p) = f[n]
  BY SerializePieces
<1> HIDE DEF n, f, b, t
<1>4. n \in 0 .. n /\ 0 \in 0 .. n /\ 1 \in 0 .. n /\ 1 = 0 + 1 /\ 1 <= n
  BY <1>1
<1>5. PICK r \in Seq(Byte) : f[n] = f[0] \o (b[1] \o r)
  <2>1. Follows(b[1], f[0], f[n])
    BY <1>2, <1>4, NextAhead
  <2> QED BY <2>1 DEF Follows
<1>6. f[n] = << >> \o (t \o r)
  BY <1>1, <1>2, <1>4, <1>5 DEF Grows
<1>7. t \o r \in Seq(Byte)
  BY <1>1, Joined
<1>8. f[n] = t \o r
  BY <1>6, <1>7, ConcatEmptySeq
<1> QED BY <1>3, <1>7, <1>8 DEF t

-----------------------------------------------------------------------------
(* The bytes of all packets.                                                *)

LEMMA TrafficIsPackets ==
  /\ Len(Traffic) \in Nat /\ DOMAIN Traffic = 1 .. Len(Traffic)
  /\ \A k \in 1 .. Len(Traffic) : Traffic[k] \in Packet
<1>1. Traffic \in Seq(Packet)
  BY FramingAssumption DEF Packet
<1> QED BY <1>1, LenProperties, ElementOfSeq

LEMMA StreamGrows ==
  Grows(Stream, [k \in 1 .. Len(Traffic) |-> Serialize(Traffic[k])], Len(Traffic))
<1> DEFINE n == Len(Traffic)
           b == [k \in 1 .. n |-> Serialize(Traffic[k])]
           Body(f) == [k \in 0 .. n |-> IF k = 0 THEN << >>
                                         ELSE f[k - 1] \o Serialize(Traffic[k])]
           S == Seq(Byte)
           c == << >>
           next == [k \in 1 .. n |-> [x \in S |-> x \o b[k]]]
<1>1. n \in Nat /\ c \in S
  BY TrafficIsPackets
<1>2. b \in [1 .. n -> Seq(Byte)] /\ \A k \in 1 .. n : b[k] = Serialize(Traffic[k])
  BY TrafficIsPackets, SerializeIsBytes
<1>3. Stream = CHOOSE f : f = Body(f)
  BY DEF Stream
<1> HIDE DEF n, b
<1>4. next \in [1 .. n -> [S -> S]]
  <2>1. ASSUME NEW k \in 1 .. n, NEW x \in S PROVE x \o b[k] \in S
    BY <1>2, Joined
  <2> HIDE DEF S
  <2> QED BY <2>1
<1>5. \A k \in 1 .. n : \A x \in S : next[k][x] = x \o b[k]
  OBVIOUS
<1>6. \E f : f = Body(f)
  <2> HIDE DEF S, c, next
  <2>1. PICK f : Recurs(f, S, n, c, next)
    BY <1>1, <1>4, Recursion
  <2>2. f \in [0 .. n -> S] /\ f[0] = << >>
    BY <2>1 DEF Recurs, c
  <2>3. ASSUME NEW k \in 0 .. n, k # 0 PROVE f[k] = f[k - 1] \o Serialize(Traffic[k])
    <3>1. k \in 1 .. n /\ k - 1 \in 0 .. n
      BY <1>1, <2>3
    <3>2. f[k] = next[k][f[k - 1]]
      BY <2>1, <3>1 DEF Recurs
    <3> QED BY <1>2, <1>5, <2>2, <3>1, <3>2
  <2>4. f = Body(f)
    BY <2>2, <2>3
  <2> QED BY <2>4
<1>7. Stream = Body(Stream)
  BY <1>3, <1>6
<1>8. Stream[0] = << >>
  BY <1>1, <1>7
<1>9. ASSUME NEW k \in 1 .. n PROVE Stream[k] = Stream[k - 1] \o b[k]
  <2>1. k \in 0 .. n /\ k # 0
    BY <1>1
  <2> QED BY <1>2, <1>7, <2>1
<1>10. \A k \in 0 .. n : Stream[k] \in S
  <2>1. \A k \in 1 .. n : Stream[k - 1] \in S => Stream[k] \in S
    BY <1>2, <1>9, Joined
  <2> HIDE DEF S
  <2>2. Stream[0] \in S
    BY <1>1, <1>8
  <2> QED BY <1>1, <2>1, <2>2, Throughout
<1>11. Stream \in [0 .. n -> S]
  BY <1>7, <1>10
<1> HIDE DEF S
<1>12. Grows(Stream, b, n)
  BY <1>1, <1>2, <1>8, <1>9, <1>11 DEF Grows, S
<1> QED BY <1>12 DEF n, b

LEMMA StreamNext ==
  ASSUME NEW h \in Nat, NEW w \in 0 .. Len(Traffic), h < w
  PROVE  /\ h \in 0 .. Len(Traffic) /\ h + 1 \in 0 .. Len(Traffic) /\ Traffic[h + 1] \in Packet
         /\ Stream[h] \in Seq(Byte) /\ Stream[h + 1] \in Seq(Byte)
         /\ Stream[h + 1] = Stream[h] \o Serialize(Traffic[h + 1])
         /\ Stream[w] \in Seq(Byte) /\ Begins(Stream[h + 1], Stream[w])
<1> DEFINE n == Len(Traffic)
           b == [k \in 1 .. n |-> Serialize(Traffic[k])]
           k == h + 1
<1>1. n \in Nat /\ h \in 0 .. n /\ k \in 0 .. n /\ k \in 1 .. n /\ k = h + 1 /\ k <= w
  BY TrafficIsPackets
<1>2. b[k] = Serialize(Traffic[k]) /\ Traffic[k] \in Packet
  BY <1>1, TrafficIsPackets
<1>3. Grows(Stream, b, n)
  BY StreamGrows
<1>4. w \in 0 .. n
  OBVIOUS
<1> HIDE DEF n, b, k
<1>5. /\ Stream[h] \in Seq(Byte) /\ Stream[k] = Stream[h] \o b[k]
      /\ Begins(Stream[k], Stream[w])
  <2>1. Stream[h] \in Seq(Byte) /\ Stream[k] = Stream[h] \o b[k]
    <3>1. k - 1 = h
      BY <1>1
    <3> QED BY <1>1, <1>3, <3>1 DEF Grows
  <2>2. Begins(Stream[k], Stream[w])
    BY <1>1, <1>3, <1>4, Ahead
  <2> QED BY <2>1, <2>2
<1>6. Stream[w] \in Seq(Byte) /\ Stream[k] \in Seq(Byte)
  BY <1>1, <1>3, <1>4 DEF Grows
<1> QED BY <1>1, <1>2, <1>5, <1>6 DEF n, k

\* The bytes s are what comes, in the first w packets, after the first h packets and
\* j pieces of the next.
Stands(h, j, s, w) == (Stream[h] \o Past(Traffic[h + 1])[j]) \o s = Stream[w]

LEMMA NextPiece ==
  ASSUME NEW h \in Nat, NEW w \in 0 .. Len(Traffic), h < w,
         NEW j \in Nat, NEW k \in Nat, k = j + 1, k <= Count(Traffic[h + 1]),
         NEW s \in Seq(Byte), Stands(h, j, s, w)
  PROVE  \E r \in Seq(Byte) : s = Pieces(Traffic[h + 1])[k] \o r /\ Stands(h, k, r, w)
<1> DEFINE p == Traffic[h + 1]
           n == Count(p)
           A == Stream[h]
           B == Past(p)[j]
           C == Pieces(p)[k]
<1>1. p \in Packet
  BY StreamNext
<1>2. A \in Seq(Byte) /\ Stream[h + 1] = A \o Serialize(p) /\ Begins(Stream[h + 1], Stream[w])
  BY StreamNext
<1>3. Serialize(p) = Past(p)[n] /\ Grows(Past(p), Pieces(p), n)
  BY <1>1, SerializePieces, PastGrows
<1>4. n \in 0 .. n /\ j \in 0 .. n /\ k \in 0 .. n /\ k = j + 1 /\ k <= n
  BY <1>1, PiecesAreBytes
<1>5. Stands(h, j, s, w) <=> (A \o B) \o s = Stream[w]
  BY DEF Stands
<1>6. \A r : Stands(h, k, r, w) <=> (A \o Past(p)[k]) \o r = Stream[w]
  BY DEF Stands
<1> HIDE DEF p, n
<1>7. B \in Seq(Byte) /\ C \in Seq(Byte) /\ Past(p)[k] = B \o C /\ Follows(C, B, Past(p)[n])
  BY <1>3, <1>4, NextAhead
<1>8. PICK D \in Seq(Byte) : Past(p)[n] = B \o (C \o D)
  BY <1>7 DEF Follows
<1>9. PICK E \in Seq(Byte) : Stream[w] = (A \o (B \o (C \o D))) \o E
  BY <1>2, <1>3, <1>8 DEF Begins
<1> HIDE DEF A, B, C
<1>10. C \o D \in Seq(Byte) /\ A \o B \in Seq(Byte) /\ D \o E \in Seq(Byte)
  BY <1>2, <1>7, Joined
<1>11. Stream[w] = (A \o B) \o (C \o (D \o E))
  <2> DEFINE F == C \o D
  <2> HIDE DEF F
  <2>1. (A \o (B \o F)) \o E = (A \o B) \o (F \o E)
    <3>1. A \in Seq(Byte) /\ B \in Seq(Byte) /\ F \in Seq(Byte)
      BY <1>2, <1>7, <1>10 DEF F
    <3>2. Regroups(A, B, F, E)
      BY <3>1, Regroup
    <3> QED BY <3>2 DEF Regroups
  <2>2. (C \o D) \o E = C \o (D \o E)
    BY ZenonT(40), <1>7, Associative
  <2> QED BY <1>9, <2>1, <2>2 DEF F
<1>12. C \o (D \o E) \in Seq(Byte)
  BY <1>7, <1>10, Joined
<1>13. s = C \o (D \o E)
  <2>1. (A \o B) \o s = (A \o B) \o (C \o (D \o E))
    BY <1>5, <1>11
  <2> QED BY <1>10, <1>12, <2>1, CancelLeft
<1>14. Stands(h, k, D \o E, w)
  <2> DEFINE F == D \o E
  <2>1. A \in Seq(Byte) /\ B \in Seq(Byte) /\ F \in Seq(Byte)
    BY <1>2, <1>7, <1>10
  <2> HIDE DEF F
  <2>2. (A \o (B \o C)) \o F = (A \o B) \o (C \o F)
    <3>1. Regroups(A, B, C, F)
      BY <1>7, <2>1, Regroup
    <3> QED BY <3>1 DEF Regroups
  <2> QED BY <1>6, <1>7, <1>11, <2>2 DEF F
<1> QED BY <1>10, <1>13, <1>14 DEF C, p

-----------------------------------------------------------------------------
(* A packet under construction.                                             *)

\* The fields that hold a length have four bytes.
WellRead(type, fields) ==
  \A i \in 1 .. Len(fields) :
    (type = HANDSHAKE /\ i \in {2, 4, 6}) \/ (type = MSG /\ i = 1) => Len(fields[i]) = 4

Draft ==
  { x \in [type : {HANDSHAKE, MSG}, fields : Seq(Seq(Byte)), bytes : Seq(Byte)] :
      WellRead(x.type, x.fields) /\ Len(x.fields) <= Fields[x.type] }

LEMMA FieldsOf ==
  Fields[HANDSHAKE] = 7 /\ Fields[MSG] = 2 /\ HANDSHAKE # MSG
BY DEF Fields, HANDSHAKE, MSG

\* ReadField takes size bytes off the front, or leaves everything as it is.
Takes(x, y, size) ==
  /\ y.type = x.type
  /\ y.fields = Append(x.fields, SubSeq(x.bytes, 1, size))
  /\ Len(y.fields) = Len(x.fields) + 1
  /\ \A i \in 1 .. Len(x.fields) : y.fields[i] = x.fields[i]
  /\ y.fields[Len(x.fields) + 1] = SubSeq(x.bytes, 1, size)
  /\ Len(SubSeq(x.bytes, 1, size)) = size
  /\ y.bytes = SubSeq(x.bytes, size + 1, Len(x.bytes))

LEMMA ReadFieldTakes ==
  ASSUME NEW x \in Draft, NEW size \in Nat, Len(x.fields) < Fields[x.type]
  PROVE  /\ Len(x.bytes) < size => ReadField(x, size) = x
         /\ Len(x.bytes) >= size => Takes(x, ReadField(x, size), size)
         /\ ((x.type = HANDSHAKE /\ Len(x.fields) + 1 \in {2, 4, 6})
              \/ (x.type = MSG /\ Len(x.fields) + 1 = 1) => size = 4)
             => ReadField(x, size) \in Draft
<1> DEFINE y == ReadField(x, size)
           f == x.fields
           b == x.bytes
           one  == SubSeq(b, 1, size)
           rest == SubSeq(b, size + 1, Len(b))
<1>1. /\ x \in [type : {HANDSHAKE, MSG}, fields : Seq(Seq(Byte)), bytes : Seq(Byte)]
      /\ WellRead(x.type, f) /\ f \in Seq(Seq(Byte)) /\ b \in Seq(Byte)
      /\ Len(f) \in Nat /\ Len(b) \in Nat
  BY LenProperties DEF Draft
<1>2. CASE Len(b) < size
  <2>1. y = x
    BY <1>1, <1>2 DEF ReadField
  <2> QED BY <1>1, <1>2, <2>1
<1>3. CASE Len(b) >= size
  <2>1. y = [x EXCEPT !.fields = Append(f, one), !.bytes = rest]
    BY <1>3 DEF ReadField
  <2>2. \A i \in 1 .. Len(b) : b[i] \in Byte
    BY <1>1, ElementOfSeq
  <2>3. one \in Seq(Byte) /\ Len(one) = size
    <3>1. \A i \in 1 .. size : b[i] \in Byte
      BY <1>1, <1>3, <2>2
    <3> QED BY <3>1, SubSeqProperties
  <2>4. rest \in Seq(Byte)
    <3>1. \A i \in size + 1 .. Len(b) : b[i] \in Byte
      BY <1>1, <1>3, <2>2
    <3> QED BY <1>1, <3>1, SubSeqProperties
  <2> HIDE DEF one, rest
  <2>5. /\ y \in [type : {HANDSHAKE, MSG}, fields : Seq(Seq(Byte)), bytes : Seq(Byte)]
        /\ y.type = x.type /\ y.fields = Append(f, one) /\ y.bytes = rest
    <3>1. Append(f, one) \in Seq(Seq(Byte))
      BY <1>1, <2>3, AppendProperties
    <3> HIDE DEF y
    <3> QED BY <1>1, <2>1, <2>4, <3>1
  <2>6. /\ Len(y.fields) = Len(f) + 1
        /\ \A i \in 1 .. Len(f) : y.fields[i] = f[i]
        /\ y.fields[Len(f) + 1] = one
    BY <1>1, <2>3, <2>5, AppendProperties
  <2> HIDE DEF y
  <2>7. Takes(x, y, size)
    BY <2>3, <2>5, <2>6 DEF Takes, one, rest
  <2>8. ASSUME (x.type = HANDSHAKE /\ Len(f) + 1 \in {2, 4, 6})
                 \/ (x.type = MSG /\ Len(f) + 1 = 1) => size = 4
        PROVE  y \in Draft
    <3>1. Len(y.fields) <= Fields[y.type]
      <4>1. Fields[x.type] \in Nat
        BY <1>1, FieldsOf
      <4> QED BY <1>1, <2>5, <2>6, <4>1
    <3>2. WellRead(y.type, y.fields)
      <4> SUFFICES ASSUME NEW i \in 1 .. Len(f) + 1,
                          (x.type = HANDSHAKE /\ i \in {2, 4, 6}) \/ (x.type = MSG /\ i = 1)
                   PROVE  Len(y.fields[i]) = 4
        BY <2>5, <2>6 DEF WellRead
      <4>1. CASE i = Len(f) + 1
        BY <2>3, <2>6, <2>8, <4>1
      <4>2. CASE i # Len(f) + 1
        <5>1. i \in 1 .. Len(f)
          BY <1>1, <4>2
        <5> QED BY <1>1, <2>6, <5>1 DEF WellRead
      <4> QED BY <4>1, <4>2
    <3> QED BY <2>5, <3>1, <3>2 DEF Draft
  <2> QED BY <1>1, <1>3, <2>7, <2>8 DEF y
<1> QED BY <1>1, <1>2, <1>3

\* The size of the next field, by the number of those there are.
LEMMA FieldSizeCases ==
  ASSUME NEW f
  PROVE  /\ Len(f) = 0 => FieldSize(f) = 2
         /\ Len(f) \in {1, 3, 5} => FieldSize(f) = 4
         /\ Len(f) = 2 => FieldSize(f) = Value4(f[2])
         /\ Len(f) = 4 => FieldSize(f) = Value4(f[4])
         /\ Len(f) = 6 => FieldSize(f) = Value4(f[6]) * 6
<1>1. CASE Len(f) = 0
  BY <1>1 DEF FieldSize
<1>2. CASE Len(f) = 1
  BY <1>2 DEF FieldSize
<1>3. CASE Len(f) = 2
  BY <1>3 DEF FieldSize
<1>4. CASE Len(f) = 3
  BY <1>4 DEF FieldSize
<1>5. CASE Len(f) = 4
  BY <1>5 DEF FieldSize
<1>6. CASE Len(f) = 5
  BY <1>6 DEF FieldSize
<1>7. CASE Len(f) = 6
  BY <1>7 DEF FieldSize
<1>8. CASE Len(f) \notin {0, 1, 2, 3, 4, 5, 6}
  BY <1>8
<1> QED BY <1>1, <1>2, <1>3, <1>4, <1>5, <1>6, <1>7, <1>8

LEMMA FieldSizeFits ==
  ASSUME NEW x \in Draft, x.type = HANDSHAKE, Len(x.fields) < 7
  PROVE  FieldSize(x.fields) \in Nat /\ (Len(x.fields) + 1 \in {2, 4, 6} => FieldSize(x.fields) = 4)
<1> DEFINE f == x.fields
           n == Len(f)
<1>1. f \in Seq(Seq(Byte)) /\ WellRead(HANDSHAKE, f)
  BY DEF Draft
<1>2. n \in Nat /\ n \in 0 .. 6
  <2>1. n \in Nat
    BY <1>1, LenProperties
  <2>2. n < 7
    OBVIOUS
  <2> HIDE DEF n
  <2> QED BY <2>1, <2>2
<1> HIDE DEF f, n
<1>3. CASE n \in {0, 1, 3, 5}
  BY <1>2, <1>3, FieldSizeCases DEF f, n
<1>4. CASE n \in {2, 4, 6}
  <2>1. n \in 1 .. n /\ n = Len(f)
    BY <1>4 DEF n
  <2>2. f[n] \in Seq(Byte)
    BY <1>1, <2>1, ElementOfSeq
  <2>3. Len(f[n]) = 4
    BY <1>1, <1>4, <2>1 DEF WellRead
  <2>4. Value4(f[n]) \in Nat
    BY <2>2, <2>3, ValuesAreNumbers
  <2>5. FieldSize(f) = Value4(f[n]) \/ FieldSize(f) = Value4(f[n]) * 6
    BY <1>2, <1>4, FieldSizeCases DEF n
  <2>6. FieldSize(f) \in Nat
    BY <2>4, <2>5
  <2>7. n + 1 \notin {2, 4, 6}
    BY <1>4
  <2> QED BY <2>6, <2>7 DEF f, n
<1> QED BY <1>2, <1>3, <1>4

\* BuildHandShake, one state after the other.
Test(k, y) == IF Len(y.fields) = k - 1 THEN ReadField(y, FieldSize(y.fields)) ELSE y

Greets == { x \in Draft : x.type = HANDSHAKE }

LEMMA TestIsDraft ==
  ASSUME NEW k \in 1 .. 7, NEW y \in Greets
  PROVE  Test(k, y) \in Greets
<1>1. CASE Len(y.fields) = k - 1
  <2> DEFINE z == ReadField(y, FieldSize(y.fields))
  <2>1. y \in Draft /\ y.type = HANDSHAKE /\ Len(y.fields) < 7 /\ Len(y.fields) < Fields[y.type]
    BY <1>1, FieldsOf DEF Greets
  <2>2. FieldSize(y.fields) \in Nat /\ (Len(y.fields) + 1 \in {2, 4, 6} => FieldSize(y.fields) = 4)
    BY <2>1, FieldSizeFits
  <2>3. z \in Draft
    BY <2>1, <2>2, FieldsOf, ReadFieldTakes
  <2>4. z.type = y.type
    BY <2>1 DEF ReadField, Draft
  <2> QED BY <1>1, <2>1, <2>3, <2>4 DEF Test, Greets
<1>2. CASE Len(y.fields) # k - 1
  BY <1>2 DEF Test
<1> QED BY <1>1, <1>2

Stages(x) ==
  CHOOSE after : after = [k \in 0 .. 7 |-> IF k = 0 THEN x ELSE Test(k, after[k - 1])]

LEMMA BuildHandShakeTests ==
  ASSUME NEW x \in Greets
  PROVE  /\ BuildHandShake(x) = Stages(x)[7]
         /\ Stages(x)[0] = x
         /\ \A k \in 1 .. 7 : Stages(x)[k] = Test(k, Stages(x)[k - 1])
         /\ \A k \in 0 .. 7 : Stages(x)[k] \in Greets
<1> DEFINE S == Greets
           Body(f) == [k \in 0 .. 7 |-> IF k = 0 THEN x ELSE Test(k, f[k - 1])]
           next == [k \in 1 .. 7 |-> [y \in S |-> Test(k, y)]]
           after == Stages(x)
<1>1. next \in [1 .. 7 -> [S -> S]] /\ x \in S
  BY TestIsDraft
<1>2. \A k \in 1 .. 7 : \A y \in S : next[k][y] = Test(k, y)
  OBVIOUS
<1>3. BuildHandShake(x) = after[7]
  BY DEF BuildHandShake, Stages, Test
<1>4. after = CHOOSE f : f = Body(f)
  BY DEF Stages
<1>5. \E f : f = Body(f)
  <2> HIDE DEF S, next
  <2>1. PICK f : Recurs(f, S, 7, x, next)
    BY <1>1, Recursion
  <2>2. f \in [0 .. 7 -> S] /\ f[0] = x
    BY <2>1 DEF Recurs
  <2>3. ASSUME NEW k \in 0 .. 7, k # 0 PROVE f[k] = Test(k, f[k - 1])
    <3>1. k \in 1 .. 7 /\ k - 1 \in 0 .. 7
      BY <2>3
    <3>2. f[k] = next[k][f[k - 1]]
      BY <2>1, <3>1 DEF Recurs
    <3> QED BY <1>2, <2>2, <3>1, <3>2
  <2>4. f = Body(f)
    BY <2>2, <2>3
  <2> QED BY <2>4
<1> HIDE DEF after
<1>6. after = Body(after)
  BY <1>4, <1>5
<1>7. after[0] = x
  BY <1>6
<1>8. ASSUME NEW k \in 1 .. 7 PROVE after[k] = Test(k, after[k - 1])
  <2>1. k \in 0 .. 7 /\ k # 0
    OBVIOUS
  <2> QED BY <1>6, <2>1
<1>9. \A k \in 0 .. 7 : after[k] \in S
  <2>1. \A k \in 1 .. 7 : after[k - 1] \in S => after[k] \in S
    BY <1>8, TestIsDraft
  <2> HIDE DEF S
  <2>2. after[0] \in S
    BY <1>1, <1>7
  <2> QED BY <2>1, <2>2, Throughout
<1> QED BY <1>3, <1>7, <1>8, <1>9 DEF after

-----------------------------------------------------------------------------
(* A packet under construction, and the packet that was written.             *)

\* y is as much as has been read of the packet after the first h; its unread bytes
\* and then those of v are what is left of the first w packets.
Faithful(y, h, w, v) ==
  /\ y \in Draft /\ y.type = Traffic[h + 1].type
  /\ \A i \in 1 .. Len(y.fields) : y.fields[i] = Pieces(Traffic[h + 1])[i + 1]
  /\ Stands(h, Len(y.fields) + 1, y.bytes \o v, w)

\* What has been read says how long the next field is.
LEMMA FieldSizeRight ==
  ASSUME NEW h, NEW w, NEW v, NEW y, Faithful(y, h, w, v), Traffic[h + 1] \in Packet,
         y.type = HANDSHAKE, Len(y.fields) < 7
  PROVE  FieldSize(y.fields) = Len(Pieces(Traffic[h + 1])[Len(y.fields) + 2])
<1> DEFINE f == y.fields
           n == Len(f)
           b == Pieces(Traffic[h + 1])
<1>1. f \in Seq(Seq(Byte)) /\ \A i \in 1 .. n : f[i] = b[i + 1]
  BY DEF Faithful, Draft
<1>2. n \in Nat /\ n < 7
  BY <1>1, LenProperties
<1>3. /\ Len(b[2]) = 2
      /\ Len(b[3]) = 4 /\ Value4(b[3]) = Len(b[4])
      /\ Len(b[5]) = 4 /\ Value4(b[5]) = Len(b[6])
      /\ Len(b[7]) = 4 /\ Len(b[8]) = 6 * Value4(b[7]) /\ Value4(b[7]) \in Nat
  <2>1. Traffic[h + 1].type = HANDSHAKE
    BY DEF Faithful
  <2>2. b[7] \in Seq(Byte)
    BY <2>1, PiecesOfHandShake
  <2>3. Len(b[7]) = 4 /\ Len(b[8]) = 6 * Value4(b[7])
    BY <2>1, PiecesOfHandShake
  <2>4. Value4(b[7]) \in Nat
    BY <2>2, <2>3, ValuesAreNumbers
  <2> QED BY <2>1, <2>3, <2>4, PiecesOfHandShake
<1> HIDE DEF f, n, b
<1>4. n = Len(f) /\ n \in 0 .. 6
  <2>1. n \in 0 .. 6
    BY <1>2
  <2> QED BY <2>1 DEF n
<1>5. CASE n = 0
  <2>1. FieldSize(f) = 2 /\ n + 2 = 2
    <3>1. Len(f) = 0
      BY <1>4, <1>5
    <3> QED BY <1>5, <3>1, FieldSizeCases
  <2> QED BY <1>3, <2>1 DEF f, n, b
<1>6. CASE n = 1
  <2>1. FieldSize(f) = 4 /\ n + 2 = 3
    <3>1. Len(f) = 1
      BY <1>4, <1>6
    <3> QED BY <1>6, <3>1, FieldSizeCases
  <2> QED BY <1>3, <2>1 DEF f, n, b
<1>7. CASE n = 2
  <2>1. FieldSize(f) = Value4(f[2]) /\ n + 2 = 4
    <3>1. Len(f) = 2
      BY <1>4, <1>7
    <3> QED BY <1>7, <3>1, FieldSizeCases
  <2>2. f[2] = b[3]
    <3>1. 2 \in 1 .. n /\ 2 + 1 = 3
      BY <1>7
    <3> QED BY <1>1, <3>1
  <2> QED BY <1>3, <2>1, <2>2 DEF f, n, b
<1>8. CASE n = 3
  <2>1. FieldSize(f) = 4 /\ n + 2 = 5
    <3>1. Len(f) = 3
      BY <1>4, <1>8
    <3> QED BY <1>8, <3>1, FieldSizeCases
  <2> QED BY <1>3, <2>1 DEF f, n, b
<1>9. CASE n = 4
  <2>1. FieldSize(f) = Value4(f[4]) /\ n + 2 = 6
    <3>1. Len(f) = 4
      BY <1>4, <1>9
    <3> QED BY <1>9, <3>1, FieldSizeCases
  <2>2. f[4] = b[5]
    <3>1. 4 \in 1 .. n /\ 4 + 1 = 5
      BY <1>9
    <3> QED BY <1>1, <3>1
  <2> QED BY <1>3, <2>1, <2>2 DEF f, n, b
<1>10. CASE n = 5
  <2>1. FieldSize(f) = 4 /\ n + 2 = 7
    <3>1. Len(f) = 5
      BY <1>4, <1>10
    <3> QED BY <1>10, <3>1, FieldSizeCases
  <2> QED BY <1>3, <2>1 DEF f, n, b
<1>11. CASE n = 6
  <2>1. FieldSize(f) = Value4(f[6]) * 6 /\ n + 2 = 8
    <3>1. Len(f) = 6
      BY <1>4, <1>11
    <3> QED BY <1>11, <3>1, FieldSizeCases
  <2>2. f[6] = b[7]
    <3>1. 6 \in 1 .. n /\ 6 + 1 = 7
      BY <1>11
    <3> QED BY <1>1, <3>1
  <2> QED BY <1>3, <2>1, <2>2 DEF f, n, b
<1>12. n = 0 \/ n = 1 \/ n = 2 \/ n = 3 \/ n = 4 \/ n = 5 \/ n = 6
  BY <1>4
<1> QED BY <1>5, <1>6, <1>7, <1>8, <1>9, <1>10, <1>11, <1>12

\* Reading a field of the right size keeps what has been read faithful.
LEMMA ReadFaithful ==
  ASSUME NEW h \in Nat, NEW w \in 0 .. Len(Traffic), h < w, NEW v \in Seq(Byte),
         NEW y, Faithful(y, h, w, v), Len(y.fields) < Fields[y.type],
         NEW size \in Nat, size = Len(Pieces(Traffic[h + 1])[Len(y.fields) + 2])
  PROVE  /\ Len(y.bytes) < size => ReadField(y, size) = y
         /\ Len(y.bytes) >= size =>
              /\ Takes(y, ReadField(y, size), size)
              /\ Faithful(ReadField(y, size), h, w, v)
<1> DEFINE p == Traffic[h + 1]
           b == Pieces(p)
           f == y.fields
           s == y.bytes
           j == Len(f) + 1
           k == Len(f) + 2
           z == ReadField(y, size)
<1>1. p \in Packet /\ y.type = p.type
  BY StreamNext DEF Faithful
<1>2. y \in Draft /\ f \in Seq(Seq(Byte)) /\ s \in Seq(Byte)
  BY DEF Faithful, Draft
<1>3. Len(f) \in Nat /\ j \in Nat /\ k \in Nat /\ k = j + 1
  BY <1>2, LenProperties
<1>4. k <= Count(p) /\ k \in 1 .. Count(p) /\ Count(p) \in Nat
  <2>1. Count(p) = Fields[y.type] + 1 /\ Fields[y.type] \in Nat
    BY <1>1, TypeOfPacket, FieldsOf DEF Count
  <2>2. Len(f) < Fields[y.type] /\ k = Len(f) + 2
    OBVIOUS
  <2> HIDE DEF p, f, j, k
  <2> QED BY ONLY <1>3, <2>1, <2>2
<1>5. b[k] \in Seq(Byte)
  BY <1>1, <1>4, PiecesAreBytes
<1>6. CASE Len(s) < size
  BY <1>2, <1>6, ReadFieldTakes, LenProperties
<1>7. CASE Len(s) >= size
  <2>1. Takes(y, z, size)
    BY <1>2, <1>7, ReadFieldTakes
  <2>2. Stands(h, j, s \o v, w) /\ s \o v \in Seq(Byte)
    BY <1>2, Joined DEF Faithful
  <2>3. PICK r \in Seq(Byte) : s \o v = b[k] \o r /\ Stands(h, k, r, w)
    <3> DEFINE sv == s \o v
    <3> HIDE DEF sv, j, k
    <3> QED BY <1>3, <1>4, <2>2, NextPiece DEF sv
  <2> DEFINE rest == SubSeq(s, size + 1, Len(s))
  <2>4. SubSeq(s, 1, size) = b[k] /\ rest \in Seq(Byte) /\ rest \o v = r
    <3> DEFINE c == b[k]
    <3>1. Len(c) = size /\ c \in Seq(Byte) /\ s \o v = c \o r
      BY <1>5, <2>3
    <3>2. s \in Seq(Byte) /\ Len(c) <= Len(s)
      BY <1>2, <1>7, <3>1
    <3> HIDE DEF c, s
    <3>3. /\ SubSeq(s, 1, Len(c)) = c
          /\ SubSeq(s, Len(c) + 1, Len(s)) \in Seq(Byte)
          /\ SubSeq(s, Len(c) + 1, Len(s)) \o v = r
      <4>1. Splits(s, v, c, r)
        BY <3>1, <3>2, Split
      <4> QED BY <4>1 DEF Splits
    <3> QED BY <3>1, <3>3 DEF c
  <2>5. z \in Draft
    <3>1. (y.type = HANDSHAKE /\ j \in {2, 4, 6}) \/ (y.type = MSG /\ j = 1) => size = 4
      <4>1. CASE y.type = HANDSHAKE
        <5>1. Len(b[3]) = 4 /\ Len(b[5]) = 4 /\ Len(b[7]) = 4
          BY <1>1, <4>1, PiecesOfHandShake
        <5>2. j = 2 => k = 3
          OBVIOUS
        <5>3. j = 4 => k = 5
          OBVIOUS
        <5>4. j = 6 => k = 7
          OBVIOUS
        <5>5. size = Len(b[k])
          OBVIOUS
        <5> HIDE DEF j, k, b
        <5> QED BY <4>1, <5>1, <5>2, <5>3, <5>4, <5>5, FieldsOf
      <4>2. CASE y.type = MSG
        <5>1. Len(b[2]) = 4
          BY <1>1, <4>2, PiecesOfMsg
        <5> QED BY <1>3, <4>2, <5>1, FieldsOf
      <4> QED BY <1>1, <4>1, <4>2, TypeOfPacket
    <3> QED BY <1>2, <3>1, ReadFieldTakes
  <2>6. Len(z.fields) = j /\ z.type = p.type /\ z.bytes = rest
    BY <1>1, <2>1 DEF Takes
  <2>7. ASSUME NEW i \in 1 .. j PROVE z.fields[i] = b[i + 1]
    <3>1. CASE i = j
      BY <1>3, <2>1, <2>4, <3>1 DEF Takes
    <3>2. CASE i # j
      <4>1. i \in 1 .. Len(f)
        BY <1>3, <3>2
      <4> QED BY <2>1, <4>1 DEF Takes, Faithful
    <3> QED BY <3>1, <3>2
  <2>8. Stands(h, Len(z.fields) + 1, z.bytes \o v, w)
    BY <1>3, <2>3, <2>4, <2>6
  <2>9. Faithful(z, h, w, v)
    <3> HIDE DEF z, j
    <3> QED BY <2>5, <2>6, <2>7, <2>8 DEF Faithful
  <2> QED BY SMTT(30), <1>2, <1>7, <2>1, <2>9, LenProperties
<1> QED BY <1>2, <1>6, <1>7, LenProperties

\* What BuildHandShake returns is complete, or too little is left for the next field.
LEMMA BuildEnds ==
  ASSUME NEW x \in Greets
  PROVE  LET z == BuildHandShake(x)
         IN /\ z \in Greets
            /\ Len(z.fields) = 7 \/ Len(z.bytes) < FieldSize(z.fields)
<1> DEFINE g == Stages(x)
           Ended(k) == Len(g[k].fields) >= k \/ Len(g[k].bytes) < FieldSize(g[k].fields)
           P == { k \in 0 .. 7 : Ended(k) }
<1>1. /\ BuildHandShake(x) = g[7]
      /\ \A k \in 1 .. 7 : g[k] = Test(k, g[k - 1])
      /\ \A k \in 0 .. 7 : g[k] \in Greets
  BY BuildHandShakeTests
<1> HIDE DEF g
<1>2. \A y \in Greets : /\ y \in Draft /\ y.type = HANDSHAKE
                       /\ Len(y.fields) \in Nat /\ Len(y.bytes) \in Nat /\ Len(y.fields) <= 7
  <2> TAKE y \in Greets
  <2>1. y.fields \in Seq(Seq(Byte)) /\ y.bytes \in Seq(Byte)
    BY DEF Greets, Draft
  <2>2. Len(y.fields) \in Nat /\ Len(y.bytes) \in Nat
    BY <2>1, LenProperties
  <2> QED BY <2>2, FieldsOf DEF Greets, Draft
<1>3. 0 \in P /\ P \in SUBSET (0 .. 7)
  <2>1. Len(g[0].fields) >= 0
    BY <1>1, <1>2
  <2> QED BY <2>1
<1>4. ASSUME NEW m \in 0 .. 7, m # 7, m \in P PROVE m + 1 \in P
  <2> DEFINE k == m + 1
             y == g[m]
  <2>1. k \in 1 .. 7 /\ k \in 0 .. 7 /\ k - 1 = m
    BY <1>4
  <2>2. y \in Greets /\ g[k] = Test(k, y)
    BY <1>1, <2>1
  <2>3. Len(y.fields) >= m \/ Len(y.bytes) < FieldSize(y.fields)
    BY <1>4
  <2> HIDE DEF P, Ended, y
  <2>4. CASE Len(y.fields) = m
    <3> DEFINE size == FieldSize(y.fields)
    <3>1. g[k] = ReadField(y, size)
      BY <2>1, <2>2, <2>4 DEF Test
    <3>2. Len(y.fields) < 7 /\ Len(y.fields) < Fields[y.type]
      BY <1>2, <1>4, <2>2, <2>4, FieldsOf
    <3>3. size \in Nat
      BY <1>2, <2>2, <3>2, FieldSizeFits
    <3> HIDE DEF size
    <3>4. CASE Len(y.bytes) < size
      <4>1. g[k] = y
        BY <1>2, <2>2, <3>1, <3>2, <3>3, <3>4, ReadFieldTakes
      <4> QED BY <2>1, <3>4, <4>1 DEF P, Ended, size
    <3>5. CASE Len(y.bytes) >= size
      <4>1. Takes(y, g[k], size)
        BY <1>2, <2>2, <3>1, <3>2, <3>3, <3>5, ReadFieldTakes
      <4>2. Len(g[k].fields) = k
        BY <2>4, <4>1 DEF Takes
      <4> QED BY <2>1, <4>2 DEF P, Ended
    <3> QED BY <1>2, <2>2, <3>3, <3>4, <3>5
  <2>5. CASE Len(y.fields) # m
    <3>1. g[k] = y
      BY <2>1, <2>2, <2>5 DEF Test
    <3>2. Len(y.fields) >= k \/ Len(y.bytes) < FieldSize(y.fields)
      BY <1>2, <2>1, <2>2, <2>3, <2>5
    <3> QED BY <2>1, <3>1, <3>2 DEF P, Ended
  <2> QED BY <2>4, <2>5
<1>5. 7 \in P
  <2> HIDE DEF P
  <2>1. P = 0 .. 7
    BY <1>3, <1>4, Upwards
  <2> QED BY <2>1
<1>6. 7 \in 0 .. 7
  OBVIOUS
<1> DEFINE z == g[7]
<1>7. z \in Greets /\ (Len(z.fields) >= 7 \/ Len(z.bytes) < FieldSize(z.fields))
  BY <1>1, <1>5, <1>6
<1> HIDE DEF z, P
<1>8. Len(z.fields) = 7 \/ Len(z.bytes) < FieldSize(z.fields)
  <2>1. Len(z.fields) \in Nat /\ Len(z.fields) <= 7
    BY <1>2, <1>7
  <2> DEFINE n == Len(z.fields)
  <2>2. n \in Nat /\ n <= 7 /\ (n >= 7 \/ Len(z.bytes) < FieldSize(z.fields))
    BY <1>7, <2>1
  <2> HIDE DEF n
  <2>3. n = 7 \/ Len(z.bytes) < FieldSize(z.fields)
    BY <2>2
  <2> QED BY <2>3 DEF n
<1> QED BY <1>1, <1>7, <1>8 DEF z

LEMMA TestFaithful ==
  ASSUME NEW h \in Nat, NEW w \in 0 .. Len(Traffic), h < w, NEW v \in Seq(Byte),
         NEW y \in Greets, Faithful(y, h, w, v), NEW k \in 1 .. 7
  PROVE  Faithful(Test(k, y), h, w, v)
<1>1. CASE Len(y.fields) = k - 1
  <2> DEFINE size == FieldSize(y.fields)
  <2>1. y \in Draft /\ y.type = HANDSHAKE /\ Len(y.fields) < 7 /\ Len(y.fields) < Fields[y.type]
    BY <1>1, FieldsOf DEF Greets
  <2>2. size \in Nat /\ size = Len(Pieces(Traffic[h + 1])[Len(y.fields) + 2])
    BY <2>1, FieldSizeFits, FieldSizeRight, StreamNext
  <2>3. Test(k, y) = ReadField(y, size)
    BY <1>1 DEF Test
  <2>4. Len(y.bytes) \in Nat
    BY <2>1, LenProperties DEF Draft
  <2> HIDE DEF size
  <2>5. /\ Len(y.bytes) < size => ReadField(y, size) = y
        /\ Len(y.bytes) >= size => Faithful(ReadField(y, size), h, w, v)
    BY SMTT(30), <2>1, <2>2, ReadFaithful
  <2> QED BY <2>2, <2>3, <2>4, <2>5
<1>2. CASE Len(y.fields) # k - 1
  BY <1>2 DEF Test
<1> QED BY <1>1, <1>2

LEMMA BuildFaithful ==
  ASSUME NEW h \in Nat, NEW w \in 0 .. Len(Traffic), h < w, NEW v \in Seq(Byte),
         NEW x \in Greets, Faithful(x, h, w, v)
  PROVE  Faithful(BuildHandShake(x), h, w, v)
<1> DEFINE S == { y \in Greets : Faithful(y, h, w, v) }
           g == Stages(x)
<1>1. /\ BuildHandShake(x) = g[7] /\ g[0] = x
      /\ \A k \in 1 .. 7 : g[k] = Test(k, g[k - 1])
  BY BuildHandShakeTests
<1> HIDE DEF g
<1>2. g[0] \in S
  BY <1>1
<1>3. \A k \in 1 .. 7 : g[k - 1] \in S => g[k] \in S
  BY SMTT(30), <1>1, TestIsDraft, TestFaithful
<1> HIDE DEF S
<1>4. \A k \in 0 .. 7 : g[k] \in S
  BY <1>2, <1>3, Throughout
<1> QED BY <1>1, <1>4 DEF S

\* A message under construction stays one, whatever the length is taken to be.
LEMMA BuildMsgIsDraft ==
  ASSUME NEW x \in Draft, x.type = MSG, Len(x.fields) < 2, NEW z \in BuildMsg(x)
  PROVE  z \in Draft /\ z.type = MSG
<1>1. x.fields \in Seq(Seq(Byte)) /\ x.bytes \in Seq(Byte) /\ Len(x.fields) < Fields[x.type]
  BY FieldsOf DEF Draft
<1>2. ASSUME NEW y, NEW size PROVE ReadField(y, size).type = y.type
                                   \/ ~ (y \in Draft)
  BY DEF ReadField, Draft
<1>3. CASE x.fields = << >>
  <2> DEFINE y == ReadField(x, 4)
  <2>1. y \in Draft /\ y.type = MSG
    <3>1. Len(x.fields) = 0
      BY <1>3
    <3>2. y \in Draft
      BY <1>1, <3>1, FieldsOf, ReadFieldTakes
    <3>3. y.type = x.type
      BY DEF ReadField, Draft
    <3> QED BY <3>2, <3>3
  <2>2. z = IF y.fields = << >> THEN y ELSE ReadField(y, Value4(y.fields[1]))
    BY <1>3 DEF BuildMsg
  <2> HIDE DEF y
  <2>3. CASE y.fields = << >>
    BY <2>1, <2>2, <2>3
  <2>4. CASE y.fields # << >>
    <3> DEFINE size == Value4(y.fields[1])
    <3>1. y.fields \in Seq(Seq(Byte)) /\ WellRead(MSG, y.fields) /\ Len(y.fields) <= 2
      BY <2>1, FieldsOf DEF Draft
    <3>2. 1 \in 1 .. Len(y.fields) /\ Len(y.fields) \in Nat
      BY <2>4, <3>1, EmptySeq
    <3>3. y.fields[1] \in Seq(Byte) /\ Len(y.fields[1]) = 4
      BY <3>1, <3>2, ElementOfSeq DEF WellRead
    <3>4. size \in Nat
      BY <3>3, ValuesAreNumbers
    <3>5. z = ReadField(y, size)
      BY <2>2, <2>4
    <3> HIDE DEF size
    <3>6. CASE Len(y.fields) < 2
      <4>1. Len(y.fields) < Fields[y.type] /\ Len(y.fields) + 1 # 1
        BY <2>1, <3>2, <3>6, FieldsOf
      <4>2. z \in Draft
        BY <2>1, <3>4, <3>5, <4>1, FieldsOf, ReadFieldTakes
      <4> QED BY <1>2, <2>1, <3>5, <4>2
    <3>7. CASE ~ (Len(y.fields) < 2)
      <4>1. ~ (Len(y.fields) < Fields[y.type])
        BY <2>1, <3>7, FieldsOf
      <4>2. z = y
        BY <3>5, <4>1 DEF ReadField
      <4> QED BY <2>1, <4>2
    <3> QED BY <3>6, <3>7
  <2> QED BY <2>3, <2>4
<1>4. CASE x.fields # << >>
  <2>1. PICK g \in Garbage : z = ReadField(x, g)
    BY <1>4 DEF BuildMsg
  <2>2. g \in Nat
    BY FramingAssumption
  <2>3. Len(x.fields) + 1 # 1
    BY <1>1, <1>4, EmptySeq
  <2>4. z \in Draft
    BY <1>1, <2>1, <2>2, <2>3, FieldsOf, ReadFieldTakes
  <2> QED BY <1>2, <2>1, <2>4
<1> QED BY <1>3, <1>4

\* A message whose length is read in the call that reads the text is faithful; else
\* its length has not come, or its text has not come in full.
LEMMA BuildMsgFaithful ==
  ASSUME NEW h \in Nat, NEW w \in 0 .. Len(Traffic), h < w, NEW v \in Seq(Byte),
         NEW x, Faithful(x, h, w, v), x.type = MSG, x.fields = << >>, NEW z \in BuildMsg(x)
  PROVE  /\ Faithful(z, h, w, v)
         /\ \/ z.fields = << >> /\ Len(z.bytes) < 4
            \/ Len(z.fields) = 1 /\ Len(z.bytes) < Len(Pieces(Traffic[h + 1])[3])
            \/ Len(z.fields) = 2
<1> DEFINE p == Traffic[h + 1]
           b == Pieces(p)
           y == ReadField(x, 4)
<1>1. x \in Draft /\ x.bytes \in Seq(Byte) /\ Len(x.fields) = 0 /\ Len(x.fields) < Fields[x.type]
  BY FieldsOf, EmptySeq DEF Faithful, Draft
<1>2. p \in Packet /\ p.type = MSG
  BY StreamNext DEF Faithful
<1>3. /\ Len(b[2]) = 4 /\ Value4(b[2]) = Len(b[3]) /\ b[3] \in Seq(Byte) /\ Len(b[3]) \in Nat
  BY <1>2, PiecesOfMsg, LenProperties
<1>4. Len(x.bytes) \in Nat
  BY <1>1, LenProperties
<1>5. z = IF y.fields = << >> THEN y ELSE ReadField(y, Value4(y.fields[1]))
  BY DEF BuildMsg
<1>6. /\ Len(x.bytes) < 4 => y = x
      /\ Len(x.bytes) >= 4 => Takes(x, y, 4) /\ Faithful(y, h, w, v)
  <2>1. 4 \in Nat /\ 4 = Len(b[Len(x.fields) + 2])
    BY <1>1, <1>3
  <2> QED BY <1>1, <2>1, ReadFaithful
<1> HIDE DEF y, p, b
<1>7. CASE Len(x.bytes) < 4
  BY <1>5, <1>6, <1>7
<1>8. CASE Len(x.bytes) >= 4
  <2> DEFINE size == Value4(y.fields[1])
  <2>1. Len(y.fields) = 1 /\ Faithful(y, h, w, v) /\ y.type = MSG
    BY <1>1, <1>6, <1>8 DEF Takes
  <2>2. y.fields # << >>
    <3>1. y.fields = << >> => Len(y.fields) = 0
      BY EmptySeq
    <3>2. Len(y.fields) # 0
      BY <2>1
    <3> QED BY <3>1, <3>2
  <2>3. y.fields[1] = b[2]
    <3>1. 1 \in 1 .. Len(y.fields) /\ 1 + 1 = 2
      BY <2>1
    <3> QED BY <2>1, <3>1 DEF Faithful, b, p
  <2>4. z = ReadField(y, size) /\ size = Len(b[3]) /\ size \in Nat
    BY <1>3, <1>5, <2>2, <2>3
  <2>5. y.bytes \in Seq(Byte) /\ Len(y.bytes) \in Nat
    BY <2>1, LenProperties DEF Faithful, Draft
  <2> HIDE DEF size
  <2>6. /\ Len(y.bytes) < size => z = y
        /\ Len(y.bytes) >= size => Takes(y, z, size) /\ Faithful(z, h, w, v)
    <3>1. Len(y.fields) < Fields[y.type] /\ size = Len(Pieces(Traffic[h + 1])[Len(y.fields) + 2])
      BY <2>1, <2>4, FieldsOf DEF b, p
    <3>2. /\ Len(y.bytes) < size => ReadField(y, size) = y
          /\ Len(y.bytes) >= size =>
               Takes(y, ReadField(y, size), size) /\ Faithful(ReadField(y, size), h, w, v)
      BY <2>1, <2>4, <3>1, ReadFaithful
    <3> QED BY <2>4, <3>2
  <2>7. CASE Len(y.bytes) < size
    BY <2>1, <2>4, <2>6, <2>7 DEF b, p
  <2>8. CASE Len(y.bytes) >= size
    <3>1. Len(z.fields) = 2
      BY <2>1, <2>6, <2>8 DEF Takes
    <3> QED BY <2>6, <2>8, <3>1
  <2> QED BY <2>4, <2>5, <2>7, <2>8
<1> QED BY <1>4, <1>7, <1>8

\* A packet as the reader should get it.
Delivered(p) == IF p.type = HANDSHAKE THEN p ELSE [type |-> MSG, ct |-> Wrap(p.onion)]

\* The loop of ContinueBuild finds the k-th address again.
LEMMA AddressFound ==
  ASSUME NEW a \in Seq(Place), NEW k \in 1 .. Len(a)
  PROVE  LET t == Addresses(a)
         IN /\ Value4(SubSeq(t, 6 * k - 5, 6 * k - 2)) = a[k].ip
            /\ Value2(SubSeq(t, 6 * k - 1, 6 * k)) = a[k].port
<1> DEFINE t == Addresses(a)
           one == SubSeq(t, 6 * k - 5, 6 * k - 2)
           two == SubSeq(t, 6 * k - 1, 6 * k)
           ip == Bytes4(a[k].ip)
           port == Bytes2(a[k].port)
<1>1. a[k] \in Place /\ k \in Nat /\ k >= 1 /\ Len(a) \in Nat
  BY LenProperties, ElementOfSeq
<1>2. /\ t \in Seq(Byte) /\ Len(t) = 6 * Len(a)
      /\ \A i \in 1 .. 6 : t[6 * k - 6 + i] = Address(a[k])[i]
  BY AddressBytes
<1>3. /\ a[k].ip \in UInt32 /\ a[k].port \in UInt16
  BY <1>1 DEF Place
<1>4. /\ ip \in Seq(Byte) /\ Len(ip) = 4 /\ Value4(ip) = a[k].ip
      /\ port \in Seq(Byte) /\ Len(port) = 2 /\ Value2(port) = a[k].port
  BY <1>3, TwoBytes, FourBytes
<1>5. /\ \A i \in 1 .. 4 : Address(a[k])[i] = ip[i]
      /\ \A i \in 1 .. 2 : Address(a[k])[4 + i] = port[i]
  BY <1>1, SixBytes
<1>6. \A i \in 6 * k - 5 .. 6 * k : t[i] \in Byte
  <2>1. ASSUME NEW i \in 6 * k - 5 .. 6 * k PROVE i \in 1 .. Len(t)
    <3>1. i >= 6 * k - 5 /\ i <= 6 * k /\ i \in Int
      BY <1>1
    <3>2. k <= Len(a)
      OBVIOUS
    <3> HIDE DEF t
    <3> QED BY <1>1, <1>2, <3>1, <3>2
  <2> HIDE DEF t
  <2> QED BY <1>2, <2>1, ElementOfSeq
<1> HIDE DEF t, ip, port
<1>7. one = ip
  <2>1. one \in Seq(Byte) /\ Len(one) = 4 /\ \A i \in 1 .. 4 : one[i] = t[6 * k - 5 + i - 1]
    <3> DEFINE m == 6 * k - 5
               n == 6 * k - 2
    <3>1. m \in Int /\ n \in Int /\ n - m + 1 = 4 /\ m <= n
      BY <1>1
    <3>2. \A i \in m .. n : t[i] \in Byte
      BY <1>1, <1>6
    <3> HIDE DEF m, n
    <3>3. /\ SubSeq(t, m, n) \in Seq(Byte) /\ Len(SubSeq(t, m, n)) = n - m + 1
          /\ \A i \in 1 .. n - m + 1 : SubSeq(t, m, n)[i] = t[m + i - 1]
      BY <3>1, <3>2, SubSeqProperties
    <3> QED BY <3>1, <3>3 DEF m, n
  <2>2. ASSUME NEW i \in 1 .. 4 PROVE one[i] = ip[i]
    <3>1. 6 * k - 5 + i - 1 = 6 * k - 6 + i /\ i \in 1 .. 6
      BY <1>1
    <3> HIDE DEF one
    <3> QED BY ZenonT(40), <1>2, <1>5, <2>1, <3>1
  <2> HIDE DEF one
  <2> QED BY <1>4, <2>1, <2>2, SeqEqual
<1>8. two = port
  <2>1. two \in Seq(Byte) /\ Len(two) = 2 /\ \A i \in 1 .. 2 : two[i] = t[6 * k - 1 + i - 1]
    <3> DEFINE m == 6 * k - 1
               n == 6 * k
    <3>1. m \in Int /\ n \in Int /\ n - m + 1 = 2 /\ m <= n
      BY <1>1
    <3>2. \A i \in m .. n : t[i] \in Byte
      BY <1>1, <1>6
    <3> HIDE DEF m, n
    <3>3. /\ SubSeq(t, m, n) \in Seq(Byte) /\ Len(SubSeq(t, m, n)) = n - m + 1
          /\ \A i \in 1 .. n - m + 1 : SubSeq(t, m, n)[i] = t[m + i - 1]
      BY <3>1, <3>2, SubSeqProperties
    <3> QED BY <3>1, <3>3 DEF m, n
  <2>2. ASSUME NEW i \in 1 .. 2 PROVE two[i] = port[i]
    <3> DEFINE j == 4 + i
    <3>1. 6 * k - 1 + i - 1 = 6 * k - 6 + j /\ j \in 1 .. 6
      BY <1>1
    <3>2. Address(a[k])[j] = port[i]
      BY <1>5
    <3> HIDE DEF two, j
    <3> QED BY <1>2, <2>1, <3>1, <3>2
  <2> HIDE DEF two
  <2> QED BY <1>4, <2>1, <2>2, SeqEqual
<1> QED BY <1>4, <1>7, <1>8 DEF t

LEMMA ContentsRight ==
  ASSUME NEW h \in Nat, NEW w \in 0 .. Len(Traffic), h < w, NEW v,
         NEW z, Faithful(z, h, w, v), Ready(z)
  PROVE  Contents(z) = Delivered(Traffic[h + 1])
<1> DEFINE p == Traffic[h + 1]
           b == Pieces(p)
           f == z.fields
<1>1. p \in Packet /\ z.type = p.type /\ Len(f) = Fields[p.type]
      /\ \A i \in 1 .. Len(f) : f[i] = b[i + 1]
  BY StreamNext DEF Faithful, Ready
<1>2. CASE p.type = HANDSHAKE
  <2>1. Len(f) = 7
    BY <1>1, <1>2, FieldsOf
  <2>2. f[1] = b[2] /\ f[3] = b[4] /\ f[5] = b[6] /\ f[6] = b[7] /\ f[7] = b[8]
    BY <1>1, <2>1
  <2>3. /\ Value2(b[2]) = p.port /\ b[4] = p.id /\ b[6] = p.key
        /\ Value4(b[7]) = Len(p.nodes) /\ b[8] = Addresses(p.nodes)
    BY <1>1, <1>2, PiecesOfHandShake
  <2>4. p \in Greeting
    BY <1>1, <1>2, TypeOfPacket
  <2>5. p.nodes \in Seq(Place)
    BY <2>4 DEF Greeting, Place
  <2> DEFINE nodes == [k \in 1 .. Value4(f[6]) |->
                        [ip   |-> Value4(SubSeq(f[7], 6 * k - 5, 6 * k - 2)),
                         port |-> Value2(SubSeq(f[7], 6 * k - 1, 6 * k))]]
  <2>6. nodes = [k \in 1 .. Len(p.nodes) |-> p.nodes[k]]
    <3>1. ASSUME NEW k \in 1 .. Len(p.nodes)
          PROVE  [ip   |-> Value4(SubSeq(f[7], 6 * k - 5, 6 * k - 2)),
                  port |-> Value2(SubSeq(f[7], 6 * k - 1, 6 * k))] = p.nodes[k]
      <4>1. /\ Value4(SubSeq(f[7], 6 * k - 5, 6 * k - 2)) = p.nodes[k].ip
            /\ Value2(SubSeq(f[7], 6 * k - 1, 6 * k)) = p.nodes[k].port
        BY <2>2, <2>3, <2>5, AddressFound
      <4>2. p.nodes[k] \in Place
        BY <2>5, ElementOfSeq
      <4> QED BY <4>1, <4>2 DEF Place
    <3>2. Value4(f[6]) = Len(p.nodes)
      BY <2>2, <2>3
    <3> HIDE DEF f, p
    <3> QED BY <3>1, <3>2
  <2>7. p.nodes = [k \in 1 .. Len(p.nodes) |-> p.nodes[k]]
    BY <2>5, LenProperties
  <2>8. nodes = p.nodes
    BY <2>6, <2>7
  <2>9. Contents(z) = [type |-> HANDSHAKE, port |-> Value2(f[1]), id |-> f[3], key |-> f[5],
                       nodes |-> nodes]
    BY <1>1, <1>2 DEF Contents
  <2> HIDE DEF nodes, f
  <2>10. Contents(z) = [type |-> HANDSHAKE, port |-> p.port, id |-> p.id, key |-> p.key,
                        nodes |-> p.nodes]
    BY <2>2, <2>3, <2>8, <2>9
  <2>11. Contents(z) = p
    BY <2>4, <2>10 DEF Greeting
  <2> QED BY <1>2, <2>11 DEF Delivered
<1>3. CASE p.type = MSG
  <2>1. Len(f) = 2
    BY <1>1, <1>3, FieldsOf
  <2>2. f[2] = b[3]
    BY <1>1, <2>1
  <2>3. b[3] = Wrap(p.onion)
    BY <1>1, <1>3, PiecesOfMsg
  <2>4. Contents(z) = [type |-> MSG, ct |-> f[2]]
    BY <1>1, <1>3, FieldsOf DEF Contents
  <2>5. Delivered(p) = [type |-> MSG, ct |-> Wrap(p.onion)]
    BY <1>3, FieldsOf DEF Delivered
  <2> QED BY <2>2, <2>3, <2>4, <2>5
<1> QED BY <1>1, <1>2, <1>3, TypeOfPacket

-----------------------------------------------------------------------------
(* The invariant.                                                           *)

\* An unfinished packet.
Partial ==
  { a \in [type : {HANDSHAKE, MSG}, fields : Seq(Seq(Byte))] :
      WellRead(a.type, a.fields) /\ Len(a.fields) < Fields[a.type] }

Got == { Contents(x) : x \in Draft }

Types ==
  /\ written \in 0 .. Len(Traffic)
  /\ wire \in Seq(Byte)
  /\ buffer \in Seq(Byte)
  /\ aux \in Partial \cup {NoPacket}
  /\ handled \in Seq(Got)
  /\ running \in BOOLEAN
  /\ cut \in BOOLEAN

\* The packet in aux, with the bytes that are there for it.
Resumed == [type |-> aux.type, fields |-> aux.fields, bytes |-> buffer]

\* The field that aux waits for is not empty: handleServer is called for it.
Awaited == Len(Pieces(Traffic[Len(handled) + 1])[Len(aux.fields) + 2]) > 0

\* The reader is in step with the writers: the packets handled are the first ones, and
\* the bytes not read are what is left of the others.  The length of a message is
\* always read together with its text.
InStep ==
  /\ running
  /\ Len(handled) <= written
  /\ \A k \in 1 .. Len(handled) : handled[k] = Delivered(Traffic[k])
  /\ aux = NoPacket => Stream[Len(handled)] \o (buffer \o wire) = Stream[written]
  /\ aux # NoPacket =>
       /\ Len(handled) < written
       /\ Faithful(Resumed, Len(handled), written, wire)
       /\ aux.type = MSG => aux.fields = << >>
       /\ Awaited

\* Nothing has been cut, or nothing has been read yet that could have been.
Straight ==
  ~ cut \/ \A j \in 1 .. Len(Traffic) : j <= Len(handled) + 1 => Traffic[j].type = HANDSHAKE

CutSeen == ~ cut => ~ InText(SizeOf(written) - Len(wire))

Inv ==
  /\ Types
  /\ Straight => InStep
  /\ CutSeen
  /\ IntactUpToMessages

\* A packet to be resumed is not NULL.
LEMMA PartialIsPacket ==
  \A a \in Partial : a # NoPacket
BY FramingAssumption DEF Partial

LEMMA StreamIsBytes ==
  /\ Stream[0] = << >>
  /\ \A k \in 0 .. Len(Traffic) : Stream[k] \in Seq(Byte)
BY StreamGrows DEF Grows

\* What handleServer begins with is a packet under construction.
LEMMA BeginIsDraft ==
  ASSUME Types, buffer # << >>, aux = NoPacket => Head(buffer) \in {HANDSHAKE, MSG}
  PROVE  Begin \in Draft /\ Len(Begin.fields) < Fields[Begin.type]
<1>1. CASE aux # NoPacket
  <2>1. aux \in Partial /\ buffer \in Seq(Byte)
    BY <1>1 DEF Types
  <2>2. Begin = Resumed
    BY <1>1 DEF Begin, Resumed
  <2>3. /\ aux.type \in {HANDSHAKE, MSG} /\ aux.fields \in Seq(Seq(Byte))
        /\ WellRead(aux.type, aux.fields) /\ Len(aux.fields) < Fields[aux.type]
    BY <2>1 DEF Partial
  <2>4. Len(aux.fields) <= Fields[aux.type]
    BY <2>3, FieldsOf, LenProperties
  <2> QED BY <2>1, <2>2, <2>3, <2>4 DEF Resumed, Draft
<1>2. CASE aux = NoPacket
  <2>1. Begin = [type |-> Head(buffer), fields |-> << >>, bytes |-> Tail(buffer)]
    BY <1>2 DEF Begin
  <2>2. Tail(buffer) \in Seq(Byte) /\ Head(buffer) \in {HANDSHAKE, MSG}
    BY <1>2, HeadTailProperties DEF Types
  <2>3. << >> \in Seq(Seq(Byte)) /\ Len(<< >>) = 0
    BY EmptySeq
  <2>4. 0 < Fields[Head(buffer)] /\ 0 <= Fields[Head(buffer)]
    BY <2>2, FieldsOf
  <2>5. WellRead(Head(buffer), << >>)
    BY <2>3 DEF WellRead
  <2> QED BY <2>1, <2>2, <2>3, <2>4, <2>5 DEF Draft
<1> QED BY <1>1, <1>2

\* What handleServer gets from ContinueBuild is a packet under construction.
LEMMA BuildsAreDrafts ==
  ASSUME NEW x \in Draft, Len(x.fields) < Fields[x.type], NEW z \in Builds(x)
  PROVE  z \in Draft /\ z.type = x.type
<1>1. x.type \in {HANDSHAKE, MSG}
  BY DEF Draft
<1>2. CASE x.type = HANDSHAKE
  <2>1. z = BuildHandShake(x) /\ x \in Greets
    BY <1>2 DEF Builds, Greets
  <2>2. z \in Greets
    BY <2>1, BuildEnds
  <2> QED BY <1>2, <2>2 DEF Greets
<1>3. CASE x.type = MSG
  <2>1. z \in BuildMsg(x) /\ Len(x.fields) < 2
    BY <1>3, FieldsOf DEF Builds
  <2> QED BY <1>3, <2>1, BuildMsgIsDraft
<1> QED BY <1>1, <1>2, <1>3

\* The first byte is the type of the packet that comes next.
LEMMA TypeByte ==
  ASSUME Types, InStep, buffer # << >>, aux = NoPacket
  PROVE  /\ Len(handled) < written /\ Head(buffer) = Traffic[Len(handled) + 1].type
         /\ Faithful([type |-> Head(buffer), fields |-> << >>, bytes |-> Tail(buffer)],
                     Len(handled), written, wire)
<1> DEFINE h == Len(handled)
           w == written
           s == buffer \o wire
           p == Traffic[h + 1]
<1>1. /\ w \in 0 .. Len(Traffic) /\ h \in Nat /\ h <= w
      /\ buffer \in Seq(Byte) /\ wire \in Seq(Byte) /\ Stream[h] \o s = Stream[w]
  BY LenProperties DEF Types, InStep
<1>2. s \in Seq(Byte) /\ s # << >>
  <2>1. s \in Seq(Byte)
    BY <1>1, Joined
  <2>2. s # << >>
    BY <1>1, ConcatEqualIffEmpty
  <2> QED BY <2>1, <2>2
<1>3. Stream[h] \in Seq(Byte)
  BY <1>1, StreamIsBytes, TrafficIsPackets
<1> HIDE DEF s
<1>4. h < w
  <2> SUFFICES ASSUME h = w PROVE FALSE
    BY <1>1
  <2>1. Stream[h] \o s = Stream[h]
    BY <1>1
  <2> QED BY <1>2, <1>3, <2>1, ConcatEqualIffEmpty
<1>5. p \in Packet
  BY <1>1, <1>4, StreamNext
<1>6. Stands(h, 0, s, w)
  <2>1. Past(p)[0] = << >>
    BY <1>5, PastRecurs
  <2>2. Stream[h] \o << >> = Stream[h]
    BY <1>3, ConcatEmptySeq
  <2> QED BY <1>1, <2>1, <2>2 DEF Stands
<1>7. PICK r \in Seq(Byte) : s = Pieces(p)[1] \o r /\ Stands(h, 1, r, w)
  <2>1. 1 <= Count(p) /\ 1 = 0 + 1
    BY <1>5, PiecesAreBytes
  <2> HIDE DEF h, w
  <2> QED BY <1>1, <1>2, <1>4, <1>6, <2>1, NextPiece
<1> DEFINE t == << p.type >>
<1>8. t \in Seq(Byte) /\ Len(t) = 1 /\ s = t \o r
  <2>1. Pieces(p)[1] = t
    BY <1>5, PiecesAreBytes
  <2>2. s = t \o r
    BY <1>7, <2>1
  <2>3. p.type \in Byte
    BY <1>5, TypeOfPacket
  <2> HIDE DEF p
  <2>4. t \in Seq(Byte) /\ Len(t) = 1
    BY <2>3
  <2> QED BY <2>2, <2>4
<1>9. Len(buffer) \in Nat /\ 1 <= Len(buffer)
  BY <1>1, EmptySeq
<1>10. /\ SubSeq(buffer, 1, 1) = t /\ SubSeq(buffer, 2, Len(buffer)) \in Seq(Byte)
       /\ SubSeq(buffer, 2, Len(buffer)) \o wire = r
  <2> HIDE DEF t
  <2>1. Splits(buffer, wire, t, r)
    BY <1>1, <1>8, <1>9, Split DEF s
  <2> QED BY <1>8, <2>1 DEF Splits
<1>11. Tail(buffer) = SubSeq(buffer, 2, Len(buffer))
  BY <1>1, TailIsSubSeq
<1>12. Head(buffer) = p.type
  <2>1. SubSeq(buffer, 1, 1)[1] = buffer[1]
    BY <1>1, <1>9
  <2>2. t[1] = p.type
    OBVIOUS
  <2>3. Head(buffer) = buffer[1]
    OBVIOUS
  <2> HIDE DEF t
  <2> QED BY <1>10, <2>1, <2>2, <2>3
<1> DEFINE y == [type |-> Head(buffer), fields |-> << >>, bytes |-> Tail(buffer)]
<1>13. y \in Draft
  <2>1. Begin = y /\ Head(buffer) \in {HANDSHAKE, MSG}
    BY <1>5, <1>12, TypeOfPacket DEF Begin
  <2> QED BY <2>1, BeginIsDraft
<1>14. Len(y.fields) = 0 /\ y.type = p.type /\ y.bytes \o wire = r
  BY <1>10, <1>11, <1>12
<1>15. Faithful(y, h, w, wire)
  <2> HIDE DEF y, h, w
  <2> QED BY <1>7, <1>13, <1>14 DEF Faithful
<1> QED BY <1>4, <1>12, <1>15

\* What handleServer builds of a packet in step is faithful, and it is complete
\* or waits for bytes that are not there.
LEMMA BuildInStep ==
  ASSUME Types, InStep, Straight, buffer # << >>, NEW z \in Builds(Begin)
  PROVE  /\ Len(handled) < written
         /\ Faithful(z, Len(handled), written, wire)
         /\ Ready(z) \/ Len(z.bytes) < Len(Pieces(Traffic[Len(handled) + 1])[Len(z.fields) + 2])
         /\ z.type = MSG => ~ cut /\ Len(z.fields) \in 0 .. 2
<1> DEFINE h == Len(handled)
           w == written
           p == Traffic[h + 1]
           b == Pieces(p)
<1>1. w \in 0 .. Len(Traffic) /\ h \in Nat /\ wire \in Seq(Byte)
  BY LenProperties DEF Types
<1>2. /\ h < w /\ Faithful(Begin, h, w, wire)
      /\ Begin.type = MSG => Begin.fields = << >>
  <2>1. CASE aux # NoPacket
    <3>1. Begin = Resumed
      BY <2>1 DEF Begin, Resumed
    <3> QED BY <2>1, <3>1 DEF InStep, Resumed
  <2>2. CASE aux = NoPacket
    <3>1. Begin = [type |-> Head(buffer), fields |-> << >>, bytes |-> Tail(buffer)]
      BY <2>2 DEF Begin
    <3>2. Begin.fields = << >>
      BY <3>1
    <3> QED BY <2>2, <3>1, <3>2, TypeByte
  <2> QED BY <2>1, <2>2
<1>3. p \in Packet /\ h + 1 \in 1 .. Len(Traffic)
  <2>1. p \in Packet
    BY <1>1, <1>2, StreamNext
  <2>2. Len(Traffic) \in Nat
    BY TrafficIsPackets
  <2> HIDE DEF p, h, w
  <2>3. h + 1 \in 1 .. Len(Traffic)
    BY <1>1, <1>2, <2>2
  <2> QED BY <2>1, <2>3
<1> HIDE DEF h, w
<1>4. Begin \in Draft /\ Begin.type = p.type
  BY <1>2 DEF Faithful
<1>5. CASE p.type = HANDSHAKE
  <2>1. Begin \in Greets /\ z = BuildHandShake(Begin)
    BY <1>4, <1>5 DEF Greets, Builds
  <2>2. Faithful(z, h, w, wire)
    BY <1>1, <1>2, <2>1, BuildFaithful
  <2>3. z \in Greets /\ (Len(z.fields) = 7 \/ Len(z.bytes) < FieldSize(z.fields))
    BY <2>1, BuildEnds
  <2>4. z.type = HANDSHAKE /\ Len(z.fields) <= 7 /\ Len(z.fields) \in Nat
    BY <2>3, FieldsOf, LenProperties DEF Greets, Draft
  <2>5. CASE Len(z.fields) = 7
    <3>1. Ready(z)
      BY <2>4, <2>5, FieldsOf DEF Ready
    <3> QED BY <1>2, <2>2, <2>4, <3>1, FieldsOf DEF h, w
  <2>6. CASE Len(z.fields) # 7
    <3>1. FieldSize(z.fields) = Len(b[Len(z.fields) + 2])
      <4>1. Len(z.fields) < 7
        <5> DEFINE n == Len(z.fields)
        <5>1. n \in Nat /\ n <= 7 /\ n # 7
          BY <2>4, <2>6
        <5> HIDE DEF n
        <5>2. n < 7
          BY <5>1
        <5> QED BY <5>2 DEF n
      <4> QED BY <1>3, <2>2, <2>4, <4>1, FieldSizeRight
    <3> QED BY <1>2, <2>2, <2>3, <2>4, <2>6, <3>1, FieldsOf DEF h, w
  <2> QED BY <2>5, <2>6
<1>6. CASE p.type = MSG
  <2>1. Begin.fields = << >> /\ Begin.type = MSG /\ z \in BuildMsg(Begin)
    BY <1>2, <1>4, <1>6, FieldsOf DEF Builds
  <2>2. /\ Faithful(z, h, w, wire)
        /\ \/ z.fields = << >> /\ Len(z.bytes) < 4
           \/ Len(z.fields) = 1 /\ Len(z.bytes) < Len(b[3])
           \/ Len(z.fields) = 2
    BY <1>1, <1>2, <2>1, BuildMsgFaithful
  <2>3. Len(b[2]) = 4
    BY <1>3, <1>6, PiecesOfMsg
  <2>4. ~ cut
    BY <1>3, <1>6, FieldsOf DEF Straight, h
  <2>5. z.type = MSG
    BY <1>6, <2>2 DEF Faithful
  <2>6. z.fields = << >> => Len(z.fields) = 0
    BY EmptySeq
  <2>7. CASE Len(z.fields) = 2
    <3>1. Ready(z)
      BY <2>5, <2>7, FieldsOf DEF Ready
    <3> QED BY <1>2, <2>2, <2>4, <2>7, <3>1 DEF h, w
  <2>8. CASE Len(z.fields) = 1 /\ Len(z.bytes) < Len(b[3])
    <3>1. b[Len(z.fields) + 2] = b[3]
      BY <2>8
    <3> QED BY <1>2, <2>2, <2>4, <2>8, <3>1 DEF h, w
  <2>9. CASE Len(z.fields) = 0 /\ Len(z.bytes) < 4
    <3>1. b[Len(z.fields) + 2] = b[2]
      BY <2>9
    <3>2. Len(z.bytes) < Len(b[Len(z.fields) + 2])
      BY <2>3, <2>9, <3>1
    <3>3. Len(z.fields) \in 0 .. 2
      BY <2>9
    <3> QED BY <1>2, <2>2, <2>4, <3>2, <3>3 DEF h, w
  <2> QED BY <2>2, <2>6, <2>7, <2>8, <2>9
<1> QED BY <1>3, <1>5, <1>6, TypeOfPacket

\* If the length of a message has been read and not all of its text is there, the
\* message was cut there.
LEMMA NotBetween ==
  ASSUME Types, CutSeen, ~ cut, Len(handled) < written,
         NEW z, Faithful(z, Len(handled), written, wire), z.type = MSG, Len(z.fields) = 1
  PROVE  ~ (Len(z.bytes) < Len(Pieces(Traffic[Len(handled) + 1])[3]))
<1> DEFINE h == Len(handled)
           w == written
           k == h + 1
           p == Traffic[k]
           b == Pieces(p)
           f == Past(p)
           s == z.bytes \o wire
           r == SizeOf(w) - Len(wire)
<1> SUFFICES ASSUME Len(z.bytes) < Len(b[3])
             PROVE  FALSE
  OBVIOUS
<1>1. w \in 0 .. Len(Traffic) /\ h \in Nat /\ wire \in Seq(Byte) /\ z.bytes \in Seq(Byte)
  <2>1. z.bytes \in Seq(Byte)
    BY DEF Faithful, Draft
  <2>2. w \in 0 .. Len(Traffic) /\ h \in Nat /\ wire \in Seq(Byte)
    BY LenProperties DEF Types
  <2> QED BY <2>1, <2>2
<1>2. /\ k \in 0 .. Len(Traffic) /\ k \in 1 .. w /\ p \in Packet /\ p.type = MSG
      /\ Stream[h] \in Seq(Byte) /\ Stream[k] = Stream[h] \o Serialize(p)
      /\ k - 1 = h
  <2>1. /\ h < w /\ z.type = p.type
    BY DEF Faithful
  <2>2. /\ k \in 0 .. Len(Traffic) /\ p \in Packet
        /\ Stream[h] \in Seq(Byte) /\ Stream[k] = Stream[h] \o Serialize(p)
    BY <1>1, <2>1, StreamNext
  <2> HIDE DEF h, w, p
  <2>3. k \in 1 .. w /\ k - 1 = h
    BY <1>1, <2>1
  <2> QED BY <2>1, <2>2, <2>3
<1>3. /\ b[1] \in Seq(Byte) /\ b[2] \in Seq(Byte) /\ b[3] \in Seq(Byte)
      /\ Len(b[1]) = 1 /\ Len(b[2]) = 4
  BY <1>2, PiecesOfMsg
<1> HIDE DEF k, p, b, f
<1>4. f[0] = << >> /\ f[1] = f[0] \o b[1] /\ f[2] = f[1] \o b[2] /\ f[3] = f[2] \o b[3]
  <2>1. Count(p) = 3
    BY <1>2, TypeOfPacket
  <2>2. f[0] = << >>
    BY <1>2, PastRecurs DEF f
  <2>3. f[1] = f[0] \o b[1]
    <3>1. 0 \in 0 .. Count(p) /\ 1 \in 0 .. Count(p) /\ 1 = 0 + 1
      BY <2>1
    <3> QED BY <1>2, <3>1, PastNext DEF f, b
  <2>4. f[2] = f[1] \o b[2]
    <3>1. 1 \in 0 .. Count(p) /\ 2 \in 0 .. Count(p) /\ 2 = 1 + 1
      BY <2>1
    <3> QED BY <1>2, <3>1, PastNext DEF f, b
  <2>5. f[3] = f[2] \o b[3]
    <3>1. 2 \in 0 .. Count(p) /\ 3 \in 0 .. Count(p) /\ 3 = 2 + 1
      BY <2>1
    <3> QED BY <1>2, <3>1, PastNext DEF f, b
  <2> QED BY <2>2, <2>3, <2>4, <2>5
<1>5. f[2] \in Seq(Byte) /\ Len(f[2]) = 5
  <2> DEFINE b1 == b[1]
             b2 == b[2]
  <2>1. << >> \o b1 = b1
    BY <1>3, ConcatEmptySeq
  <2>2. f[2] = b1 \o b2
    BY <1>4, <2>1
  <2>3. b1 \in Seq(Byte) /\ b2 \in Seq(Byte) /\ Len(b1) = 1 /\ Len(b2) = 4
    BY <1>3
  <2> HIDE DEF b1, b2
  <2>4. b1 \o b2 \in Seq(Byte) /\ Len(b1 \o b2) = Len(b1) + Len(b2)
    BY <2>3, Joined
  <2> QED BY <2>2, <2>3, <2>4
<1>6. Len(Serialize(p)) = 5 + Len(b[3]) /\ Serialize(p) \in Seq(Byte)
  <2> DEFINE f2 == f[2]
             b3 == b[3]
  <2>1. Serialize(p) = f2 \o b3
    BY <1>2, <1>4, SerializePieces, TypeOfPacket DEF f
  <2>2. f2 \in Seq(Byte) /\ b3 \in Seq(Byte) /\ Len(f2) = 5
    BY <1>3, <1>5
  <2> HIDE DEF f2, b3
  <2>3. f2 \o b3 \in Seq(Byte) /\ Len(f2 \o b3) = 5 + Len(b3)
    BY <2>2, Joined
  <2> QED BY <2>1, <2>3 DEF b3
<1>7. Len(Stream[k]) = Len(Stream[h]) + (5 + Len(b[3]))
  BY <1>2, <1>6, Joined
<1>8. s \in Seq(Byte) /\ Len(s) = Len(z.bytes) + Len(wire)
  BY <1>1, Joined
<1>9. (Stream[h] \o f[2]) \o s = Stream[w]
  <2>1. Len(z.fields) + 1 = 2
    OBVIOUS
  <2>2. Stands(h, 2, s, w)
    BY <2>1 DEF Faithful
  <2> QED BY <2>2 DEF Stands, f, p, k
<1> HIDE DEF s
<1>10. Len(Stream[w]) = (Len(Stream[h]) + 5) + Len(s)
  <2>1. Stream[h] \o f[2] \in Seq(Byte) /\ Len(Stream[h] \o f[2]) = Len(Stream[h]) + 5
    BY <1>2, <1>5, Joined
  <2> QED BY <1>8, <1>9, <2>1, Joined
<1>11. Len(Stream[h]) \in Nat /\ Len(b[3]) \in Nat /\ Len(z.bytes) \in Nat /\ Len(wire) \in Nat
  BY <1>1, <1>2, <1>3, LenProperties
<1>12. r = SizeOf(h) + 5 + Len(z.bytes)
  <2> DEFINE a == Len(Stream[h])
             c == Len(Stream[w])
             d == Len(z.bytes)
             e == Len(wire)
  <2>1. c = (a + 5) + (d + e) /\ a \in Nat /\ d \in Nat /\ e \in Nat
    BY <1>8, <1>10, <1>11
  <2>2. r = c - e /\ SizeOf(h) = a
    BY DEF SizeOf
  <2> HIDE DEF a, c, d, e, r
  <2>3. r = a + 5 + d
    BY <2>1, <2>2
  <2> QED BY <2>2, <2>3 DEF d
<1>13. r \in SizeOf(h) + 5 .. SizeOf(k) - 1
  <2> DEFINE a == Len(Stream[h])
             c == Len(b[3])
             d == Len(z.bytes)
             e == Len(Stream[k])
  <2>1. a \in Nat /\ c \in Nat /\ d \in Nat /\ d < c /\ e = a + (5 + c)
    BY <1>7, <1>11
  <2>2. SizeOf(h) = a /\ SizeOf(k) = e /\ r = a + 5 + d
    BY <1>12 DEF SizeOf
  <2> HIDE DEF a, c, d, e, r
  <2> QED BY <2>1, <2>2
<1>14. InText(r)
  BY <1>2, <1>13 DEF InText, p
<1> QED BY <1>14 DEF CutSeen

\* There is something to build.
LEMMA BuildsAreSome ==
  ASSUME NEW x, x.type = MSG => x.fields = << >>, x.type \in {HANDSHAKE, MSG}
  PROVE  \E z : z \in Builds(x)
<1>1. CASE x.type = HANDSHAKE
  BY <1>1 DEF Builds
<1>2. CASE x.type = MSG
  <2>1. Builds(x) = BuildMsg(x)
    BY <1>2, FieldsOf DEF Builds
  <2> QED BY <1>2, <2>1 DEF BuildMsg
<1> QED BY <1>1, <1>2

\* What has come to be read is what there was to be read.
Longer(s, t, u, v, x) == s \o (t \o u) = x => s \o (t \o (u \o v)) = x \o v

LEMMA MoreWritten ==
  \A s, t, u, v \in Seq(Byte) : \A x : Longer(s, t, u, v, x)
<1> SUFFICES ASSUME NEW s \in Seq(Byte), NEW t \in Seq(Byte), NEW u \in Seq(Byte),
                    NEW v \in Seq(Byte), NEW x, s \o (t \o u) = x
             PROVE  s \o (t \o (u \o v)) = x \o v
  BY DEF Longer
<1>1. (s \o (t \o u)) \o v = s \o ((t \o u) \o v)
  <2>1. t \o u \in Seq(Byte)
    BY Joined
  <2> DEFINE y == t \o u
  <2> HIDE DEF y
  <2>2. y \in Seq(Byte)
    BY <2>1 DEF y
  <2>3. (s \o y) \o v = s \o (y \o v)
    BY SMTT(30), <2>2, Associative
  <2> QED BY <2>3 DEF y
<1>2. (t \o u) \o v = t \o (u \o v)
  BY SMTT(30), Associative
<1> QED BY <1>1, <1>2

LEMMA InitInv ==
  ASSUME Init
  PROVE  Inv
<1>1. Types
  <2>1. << >> \in Seq(Byte) /\ << >> \in Seq(Got)
    BY EmptySeq
  <2>2. 0 \in 0 .. Len(Traffic)
    BY TrafficIsPackets
  <2> QED BY <2>1, <2>2 DEF Init, Types
<1>2. InStep
  <2>1. Stream[0] \o (<< >> \o << >>) = Stream[0]
    <3>1. << >> \in Seq(Byte) /\ Stream[0] = << >>
      BY EmptySeq, StreamIsBytes
    <3>2. << >> \o << >> = << >>
      BY <3>1, ConcatEmptySeq
    <3> QED BY <3>1, <3>2
  <2>2. Len(handled) = 0
    BY EmptySeq DEF Init
  <2> QED BY <2>1, <2>2 DEF Init, InStep
<1>3. CutSeen
  BY DEF Init, CutSeen, InText
<1>4. IntactUpToMessages
  <2>1. DOMAIN << >> = {}
    BY EmptySeq
  <2> QED BY <2>1 DEF Init, IntactUpToMessages
<1> QED BY <1>1, <1>2, <1>3, <1>4 DEF Inv

LEMMA SendKeeps ==
  ASSUME Inv, SendPacket
  PROVE  Inv'
<1> DEFINE h == Len(handled)
           w == written
           v == Serialize(Traffic[w + 1])
<1>1. /\ w \in 0 .. Len(Traffic) /\ w < Len(Traffic) /\ w' = w + 1 /\ wire' = wire \o v
      /\ UNCHANGED << buffer, aux, handled, running, cut >>
      /\ wire \in Seq(Byte) /\ buffer \in Seq(Byte)
  BY DEF Inv, Types, SendPacket
<1>2. /\ w + 1 \in 0 .. Len(Traffic) /\ v \in Seq(Byte) /\ Stream[w] \in Seq(Byte)
      /\ Stream[w + 1] = Stream[w] \o v
  <2>1. w \in Nat /\ Len(Traffic) \in 0 .. Len(Traffic)
    BY <1>1, TrafficIsPackets
  <2>2. /\ w + 1 \in 0 .. Len(Traffic) /\ Traffic[w + 1] \in Packet
        /\ Stream[w] \in Seq(Byte) /\ Stream[w + 1] = Stream[w] \o v
    BY <1>1, <2>1, StreamNext
  <2> QED BY <2>2, SerializeIsBytes
<1>3. wire' \in Seq(Byte) /\ Len(wire') = Len(wire) + Len(v)
  BY <1>1, <1>2, Joined
<1>4. Types'
  BY <1>1, <1>2, <1>3 DEF Inv, Types
<1>5. Straight' => InStep'
  <2> SUFFICES ASSUME Straight' PROVE InStep'
    OBVIOUS
  <2>1. Straight
    BY <1>1 DEF Straight
  <2>2. InStep
    BY <2>1 DEF Inv
  <2>3. h \in Nat /\ h <= w /\ h \in 0 .. Len(Traffic)
    BY <1>1, <2>2, LenProperties DEF Inv, Types, InStep
  <2>4. running' /\ Len(handled') <= written' /\ Len(handled') = h
        /\ \A k \in 1 .. Len(handled') : handled'[k] = Delivered(Traffic[k])
    BY <1>1, <2>2, <2>3 DEF InStep
  <2>5. ASSUME aux = NoPacket
        PROVE  Stream[Len(handled')] \o (buffer' \o wire') = Stream[written']
    <3>1. Stream[h] \o (buffer \o wire) = Stream[w] /\ Stream[h] \in Seq(Byte)
      BY <2>2, <2>3, <2>5, StreamIsBytes DEF InStep
    <3> DEFINE a == Stream[h]
               x == Stream[w]
    <3> HIDE DEF a, x, v
    <3>2. Longer(a, buffer, wire, v, x)
      BY <1>1, <1>2, <3>1, MoreWritten DEF a
    <3>3. a \o (buffer \o (wire \o v)) = x \o v
      BY <3>1, <3>2 DEF Longer, a, x
    <3> QED BY <1>1, <1>2, <3>3 DEF a, x
  <2>6. ASSUME aux # NoPacket
        PROVE  /\ Len(handled') < written'
               /\ Faithful(Resumed, h, w + 1, wire \o v)
               /\ aux.type = MSG => aux.fields = << >>
               /\ Awaited
    <3>1. /\ h < w /\ Faithful(Resumed, h, w, wire)
          /\ aux.type = MSG => aux.fields = << >>
          /\ Awaited
      BY <2>2, <2>6 DEF InStep
    <3> DEFINE j == Len(aux.fields) + 1
               a == Stream[h] \o Past(Traffic[h + 1])[j]
    <3>2. Stands(h, j, buffer \o wire, w) /\ Resumed \in Draft /\ aux.type = Traffic[h + 1].type
      BY <3>1 DEF Faithful, Resumed
    <3>3. a \in Seq(Byte)
      <4>1. Traffic[h + 1] \in Packet /\ Stream[h] \in Seq(Byte)
        BY <1>1, <2>3, <3>1, StreamNext
      <4>2. Len(aux.fields) \in Nat /\ Len(aux.fields) <= Fields[aux.type]
            /\ aux.type \in {HANDSHAKE, MSG}
        <5>1. Resumed.fields = aux.fields /\ Resumed.type = aux.type
          BY DEF Resumed
        <5> HIDE DEF Resumed
        <5> QED BY <3>2, <5>1, LenProperties DEF Draft
      <4>3. Fields[aux.type] \in Nat /\ Count(Traffic[h + 1]) = Fields[aux.type] + 1
        BY <3>2, <4>2, FieldsOf DEF Count
      <4>4. j \in 0 .. Count(Traffic[h + 1])
        <5> DEFINE n == Len(aux.fields)
                   m == Fields[aux.type]
        <5>1. n \in Nat /\ m \in Nat /\ n <= m /\ Count(Traffic[h + 1]) = m + 1
          BY <4>2, <4>3
        <5> HIDE DEF n, m
        <5>2. n + 1 \in 0 .. (m + 1)
          BY <5>1
        <5> QED BY <5>1, <5>2 DEF n
      <4>5. Past(Traffic[h + 1])[j] \in Seq(Byte)
        BY <4>1, <4>4, PastRecurs
      <4> QED BY <4>1, <4>5, Joined
    <3>4. Stands(h, j, buffer \o (wire \o v), w + 1)
      <4> DEFINE x == Stream[w]
      <4>1. a \o (buffer \o wire) = x
        BY <3>2 DEF Stands
      <4> HIDE DEF a, x, v
      <4>2. Longer(a, buffer, wire, v, x)
        BY <1>1, <1>2, <3>3, MoreWritten
      <4>3. a \o (buffer \o (wire \o v)) = Stream[w + 1]
        BY <1>2, <4>1, <4>2 DEF Longer, x
      <4> QED BY <4>3 DEF Stands, a
    <3>5. Faithful(Resumed, h, w + 1, wire \o v)
      <4>1. Resumed.bytes = buffer /\ Resumed.fields = aux.fields
        BY DEF Resumed
      <4> HIDE DEF Resumed, v
      <4> QED BY <3>1, <3>4, <4>1 DEF Faithful
    <3> QED BY <1>1, <2>3, <3>1, <3>5
  <2>7. aux' # NoPacket => Faithful(Resumed', Len(handled'), written', wire') /\ Awaited'
    <3>1. Resumed' = Resumed /\ Awaited' = Awaited
      BY <1>1 DEF Resumed, Awaited
    <3> HIDE DEF Resumed
    <3> QED BY <1>1, <2>6, <3>1
  <2> QED BY <1>1, <2>4, <2>5, <2>6, <2>7 DEF InStep
<1>6. CutSeen'
  <2> SUFFICES ASSUME ~ cut, NEW k \in 1 .. (w + 1), Traffic[k].type = MSG,
                      SizeOf(w + 1) - Len(wire') \in SizeOf(k - 1) + 5 .. SizeOf(k) - 1
               PROVE  FALSE
    BY <1>1 DEF CutSeen, InText
  <2> DEFINE a == SizeOf(w)
             b == Len(wire)
             c == Len(v)
  <2>1. /\ SizeOf(w + 1) = a + c /\ Len(wire') = b + c
        /\ a \in Nat /\ b \in Nat /\ c \in Nat
    BY <1>1, <1>2, <1>3, Joined, LenProperties DEF SizeOf
  <2> HIDE DEF a, b, c
  <2>2. SizeOf(w + 1) - Len(wire') = a - b
    BY <2>1
  <2>3. CASE k = w + 1
    <3>1. k - 1 = w
      BY <1>1, <2>3
    <3>2. a - b \in a + 5 .. SizeOf(k) - 1
      BY <2>2, <3>1 DEF a
    <3> QED BY <2>1, <3>2
  <2>4. CASE k # w + 1
    <3>1. k \in 1 .. w
      BY <1>1, <2>4
    <3>2. InText(SizeOf(w) - Len(wire))
      BY <2>2, <3>1 DEF InText, a, b
    <3> QED BY <3>2 DEF Inv, CutSeen
  <2> QED BY <2>3, <2>4
<1>7. IntactUpToMessages'
  BY <1>1 DEF Inv, IntactUpToMessages
<1> QED BY <1>4, <1>5, <1>6, <1>7 DEF Inv

\* What is read off the socket is not lost.
LEMMA ReceivedInOrder ==
  ASSUME NEW s \in Seq(Byte), NEW t \in Seq(Byte), NEW k \in 1 .. Len(t)
  PROVE  LET u == SubSeq(t, 1, k)
             v == SubSeq(t, k + 1, Len(t))
         IN /\ u \in Seq(Byte) /\ v \in Seq(Byte) /\ Len(v) = Len(t) - k
            /\ (s \o u) \o v = s \o t
<1> DEFINE u == SubSeq(t, 1, k)
           v == SubSeq(t, k + 1, Len(t))
           n == Len(t)
<1>1. n \in Nat /\ k \in Nat /\ k >= 1 /\ k <= n
  BY LenProperties
<1>2. \A i \in 1 .. n : t[i] \in Byte
  BY ElementOfSeq
<1>3. u \in Seq(Byte)
  <2>1. \A i \in 1 .. k : t[i] \in Byte
    BY <1>1, <1>2
  <2> QED BY <1>1, <2>1, SubSeqProperties
<1>4. v \in Seq(Byte) /\ Len(v) = n - k
  <2> DEFINE m == k + 1
  <2>1. m \in Int /\ n \in Int /\ m <= n + 1 /\ \A i \in m .. n : t[i] \in Byte
    BY <1>1, <1>2
  <2>2. (IF m <= n THEN n - m + 1 ELSE 0) = n - k
    BY <1>1
  <2> HIDE DEF m, n
  <2>3. SubSeq(t, m, n) \in Seq(Byte)
        /\ Len(SubSeq(t, m, n)) = (IF m <= n THEN n - m + 1 ELSE 0)
    BY <2>1, SubSeqProperties
  <2> QED BY <2>2, <2>3 DEF m, n
<1>5. u \o v = t
  <2>1. SubSeq(t, 1, k) \o SubSeq(t, k + 1, n) = SubSeq(t, 1, n)
    BY <1>1, ConcatAdjacentSubSeq
  <2>2. SubSeq(t, 1, n) = t
    BY SubSeqFull
  <2> QED BY <2>1, <2>2
<1> HIDE DEF u, v
<1>6. (s \o u) \o v = s \o (u \o v)
  BY SMTT(30), <1>3, <1>4, Associative
<1> QED BY <1>3, <1>4, <1>5, <1>6 DEF u, v

LEMMA ReceiveKeeps ==
  ASSUME Inv, NEW k \in 1 .. Len(wire), Receive(k)
  PROVE  Inv'
<1> DEFINE h == Len(handled)
           u == SubSeq(wire, 1, k)
           v == SubSeq(wire, k + 1, Len(wire))
<1>1. /\ wire' = v /\ buffer' = buffer \o u
      /\ cut' = (cut \/ InText(SizeOf(written) - Len(wire) + k))
      /\ UNCHANGED << written, aux, handled, running >>
      /\ wire \in Seq(Byte) /\ buffer \in Seq(Byte) /\ written \in 0 .. Len(Traffic)
  BY DEF Inv, Types, Receive
<1>2. u \in Seq(Byte) /\ v \in Seq(Byte) /\ Len(v) = Len(wire) - k
      /\ (buffer \o u) \o v = buffer \o wire
  BY <1>1, ReceivedInOrder
<1> HIDE DEF u, v
<1>3. buffer' \in Seq(Byte) /\ wire' \in Seq(Byte) /\ buffer' \o wire' = buffer \o wire
  BY <1>1, <1>2, Joined
<1>4. Types'
  <2>1. cut' \in BOOLEAN
    BY <1>1 DEF InText
  <2> QED BY <1>1, <1>3, <2>1 DEF Inv, Types
<1>5. Straight' => InStep'
  <2> SUFFICES ASSUME Straight' PROVE InStep'
    OBVIOUS
  <2>1. Straight
    BY <1>1 DEF Straight
  <2>2. InStep
    BY <2>1 DEF Inv
  <2>3. ASSUME aux # NoPacket
        PROVE  Faithful(Resumed', h, written, wire')
    <3>1. Faithful(Resumed, h, written, wire)
      BY <2>2, <2>3 DEF InStep
    <3>2. /\ Resumed = [type |-> aux.type, fields |-> aux.fields, bytes |-> buffer]
          /\ Resumed' = [type |-> aux.type, fields |-> aux.fields, bytes |-> buffer']
      BY <1>1 DEF Resumed
    <3>3. /\ Resumed'.type = Resumed.type /\ Resumed'.fields = Resumed.fields
          /\ Resumed'.bytes = buffer' /\ Resumed.bytes = buffer
      BY <3>2
    <3>4. Resumed' \in Draft
      BY <1>3, <3>1, <3>2 DEF Faithful, Draft
    <3>5. Resumed'.bytes \o wire' = Resumed.bytes \o wire
      BY <1>3, <3>3
    <3> HIDE DEF Resumed
    <3> DEFINE x == Resumed
               y == Resumed'
    <3> HIDE DEF x, y
    <3>6. Faithful(x, h, written, wire) /\ y \in Draft /\ y.type = x.type
          /\ y.fields = x.fields /\ y.bytes \o wire' = x.bytes \o wire
      BY <3>1, <3>3, <3>4, <3>5 DEF x, y
    <3>7. Faithful(y, h, written, wire')
      BY <3>6 DEF Faithful
    <3> QED BY <3>7 DEF y
  <2>4. aux # NoPacket => Awaited'
    <3>1. Awaited' = Awaited
      BY <1>1 DEF Awaited
    <3> QED BY <2>2, <3>1 DEF InStep
  <2> HIDE DEF Resumed
  <2> QED BY <1>1, <1>3, <2>2, <2>3, <2>4 DEF InStep
<1>6. CutSeen'
  <2> SUFFICES ASSUME ~ cut', NEW j \in 1 .. written, Traffic[j].type = MSG,
                      SizeOf(written') - Len(wire') \in SizeOf(j - 1) + 5 .. SizeOf(j) - 1
               PROVE  FALSE
    BY <1>1 DEF CutSeen, InText
  <2>1. SizeOf(written) - Len(wire) + k = SizeOf(written') - Len(wire')
    <3>1. SizeOf(written) \in Nat /\ Len(wire) \in Nat
      BY <1>1, StreamIsBytes, LenProperties DEF SizeOf
    <3> QED BY <1>1, <1>2, <3>1
  <2>2. InText(SizeOf(written) - Len(wire) + k)
    BY <2>1 DEF InText
  <2> QED BY <1>1, <2>2
<1>7. IntactUpToMessages'
  BY <1>1 DEF Inv, IntactUpToMessages
<1> QED BY <1>4, <1>5, <1>6, <1>7 DEF Inv

\* In step with the writers, handleServer meets no type that does not exist.
LEMMA HandleUnknownKeeps ==
  ASSUME Inv, HandleUnknown
  PROVE  Inv'
<1>1. /\ UNCHANGED << written, wire, buffer, aux, handled, cut >> /\ running' = FALSE
      /\ buffer # << >> /\ aux = NoPacket /\ Head(buffer) \notin {HANDSHAKE, MSG}
  BY DEF HandleUnknown
<1>2. ~ Straight
  <2> SUFFICES ASSUME Straight PROVE FALSE
    OBVIOUS
  <2>1. Types /\ InStep
    BY DEF Inv
  <2>2. /\ Len(handled) < written /\ Head(buffer) = Traffic[Len(handled) + 1].type
    BY <1>1, <2>1, TypeByte
  <2>3. Traffic[Len(handled) + 1] \in Packet
    <3>1. Len(handled) \in Nat /\ written \in 0 .. Len(Traffic)
      BY <2>1, LenProperties DEF Types
    <3> QED BY <2>2, <3>1, StreamNext
  <2> QED BY <1>1, <2>2, <2>3, TypeOfPacket
<1>3. ~ Straight'
  BY <1>1, <1>2 DEF Straight
<1>4. Types'
  BY <1>1 DEF Inv, Types
<1>5. CutSeen'
  BY <1>1 DEF Inv, CutSeen, InText
<1>6. IntactUpToMessages'
  BY <1>1 DEF Inv, IntactUpToMessages
<1> QED BY <1>3, <1>4, <1>5, <1>6 DEF Inv

\* A faithful packet that is ready is the next one, and what comes after it is left.
Consumed(h, s, w) == Stream[h + 1] \o s = Stream[w]

LEMMA ReadyIsNext ==
  ASSUME NEW h \in Nat, NEW w \in 0 .. Len(Traffic), h < w, NEW v,
         NEW z, Faithful(z, h, w, v), Ready(z)
  PROVE  Consumed(h, z.bytes \o v, w)
<1> DEFINE p == Traffic[h + 1]
<1>1. /\ p \in Packet /\ Stream[h + 1] = Stream[h] \o Serialize(p)
  BY StreamNext
<1>2. Len(z.fields) + 1 = Count(p)
  <2>1. z.type = p.type
    BY DEF Faithful
  <2> QED BY <2>1 DEF Ready, Count
<1>3. Stands(h, Count(p), z.bytes \o v, w)
  BY <1>2 DEF Faithful
<1>4. (Stream[h] \o Past(p)[Count(p)]) \o (z.bytes \o v) = Stream[w]
  BY <1>3 DEF Stands
<1>5. Serialize(p) = Past(p)[Count(p)]
  BY <1>1, SerializePieces
<1> QED BY <1>1, <1>4, <1>5 DEF Consumed

LEMMA HandleKeeps ==
  ASSUME Inv, HandleServer
  PROVE  Inv'
<1> DEFINE h == Len(handled)
           w == written
<1>1. /\ running /\ buffer # << >> /\ (aux = NoPacket => Head(buffer) \in {HANDSHAKE, MSG})
      /\ UNCHANGED << written, wire, running, cut >>
  BY DEF HandleServer
<1>2. PICK z \in Builds(Begin) :
        IF Ready(z)
        THEN aux' = NoPacket /\ buffer' = Discard(z) /\ handled' = Append(handled, Contents(z))
        ELSE aux' = [type |-> z.type, fields |-> z.fields] /\ buffer' = z.bytes
             /\ UNCHANGED handled
  BY DEF HandleServer
<1>3. Begin \in Draft /\ Len(Begin.fields) < Fields[Begin.type]
  BY <1>1, BeginIsDraft DEF Inv
<1>4. z \in Draft /\ buffer' = z.bytes
  <2>1. z \in Draft
    BY <1>3, BuildsAreDrafts
  <2> QED BY <1>2, <2>1 DEF Discard
<1>5. /\ w \in 0 .. Len(Traffic) /\ h \in Nat /\ wire \in Seq(Byte) /\ handled \in Seq(Got)
      /\ cut \in BOOLEAN /\ aux \in Partial \cup {NoPacket}
  BY LenProperties DEF Inv, Types
<1>6. /\ z.bytes \in Seq(Byte) /\ z.fields \in Seq(Seq(Byte)) /\ z.type \in {HANDSHAKE, MSG}
      /\ WellRead(z.type, z.fields) /\ Len(z.fields) <= Fields[z.type] /\ Len(z.fields) \in Nat
  BY <1>4, LenProperties DEF Draft
<1>7. ASSUME ~ Ready(z)
      PROVE  [type |-> z.type, fields |-> z.fields] \in Partial
  <2>1. Len(z.fields) < Fields[z.type]
    <3> DEFINE n == Len(z.fields)
               m == Fields[z.type]
    <3>1. n \in Nat /\ m \in Nat /\ n <= m /\ n # m
      BY <1>6, <1>7, FieldsOf DEF Ready
    <3> HIDE DEF n, m
    <3>2. n < m
      BY <3>1
    <3> QED BY <3>2 DEF n, m
  <2> QED BY <1>6, <2>1 DEF Partial
<1>8. Contents(z) \in Got
  BY <1>4 DEF Got
<1>9. ASSUME Ready(z)
      PROVE  /\ handled' \in Seq(Got) /\ Len(handled') = h + 1
             /\ \A i \in 1 .. h : handled'[i] = handled[i]
             /\ handled'[h + 1] = Contents(z)
             /\ DOMAIN handled' = 1 .. (h + 1)
  <2>1. handled' = Append(handled, Contents(z))
    BY <1>2, <1>9
  <2> DEFINE c == Contents(z)
  <2> HIDE DEF c
  <2>2. Append(handled, c) \in Seq(Got) /\ Len(Append(handled, c)) = h + 1
        /\ (\A i \in 1 .. h : Append(handled, c)[i] = handled[i])
        /\ Append(handled, c)[h + 1] = c
    BY <1>5, <1>8, AppendProperties DEF c
  <2>3. DOMAIN handled' = 1 .. Len(handled')
    BY <2>1, <2>2, LenProperties DEF c
  <2> QED BY <2>1, <2>2, <2>3 DEF c
<1> HIDE DEF h, w
<1>10. Types'
  <2>1. handled' \in Seq(Got)
    BY <1>2, <1>5, <1>9
  <2>2. aux' \in Partial \cup {NoPacket}
    BY <1>2, <1>7
  <2> QED BY <1>1, <1>4, <1>5, <1>6, <2>1, <2>2 DEF Types, w
<1>11. ASSUME Straight
       PROVE  /\ Types /\ InStep /\ h < w /\ Faithful(z, h, w, wire)
              /\ Ready(z) \/ Len(z.bytes) < Len(Pieces(Traffic[h + 1])[Len(z.fields) + 2])
              /\ z.type = MSG => ~ cut /\ Len(z.fields) \in 0 .. 2
              /\ Ready(z) => Contents(z) = Delivered(Traffic[h + 1])
  <2>1. Types /\ InStep
    BY <1>11 DEF Inv
  <2>2. /\ h < w /\ Faithful(z, h, w, wire)
        /\ Ready(z) \/ Len(z.bytes) < Len(Pieces(Traffic[h + 1])[Len(z.fields) + 2])
        /\ z.type = MSG => ~ cut /\ Len(z.fields) \in 0 .. 2
    BY <1>1, <1>11, <2>1, BuildInStep DEF h, w
  <2>3. Ready(z) => Contents(z) = Delivered(Traffic[h + 1])
    BY <1>5, <2>2, ContentsRight
  <2> QED BY <2>1, <2>2, <2>3
<1>12. Straight' => InStep'
  <2> SUFFICES ASSUME Straight' PROVE InStep'
    OBVIOUS
  <2>1. h \in Nat /\ Len(handled') \in {h, h + 1}
    BY <1>2, <1>5, <1>9 DEF h
  <2>2. Straight
    <3>1. cut' = cut
      BY <1>1
    <3>2. \A j \in 1 .. Len(Traffic) : j <= h + 1 => j <= Len(handled') + 1
      BY <2>1, TrafficIsPackets
    <3> QED BY <3>1, <3>2 DEF Straight, h
  <2>3. CASE Ready(z)
    <3>1. aux' = NoPacket /\ Len(handled') = h + 1
      BY <1>2, <1>9, <2>3
    <3>2. running' /\ Len(handled') <= written'
      <4>1. h + 1 <= w
        BY <1>5, <1>11, <2>2
      <4> QED BY <1>1, <3>1, <4>1 DEF w
    <3>3. \A k \in 1 .. Len(handled') : handled'[k] = Delivered(Traffic[k])
      <4>1. ASSUME NEW k \in 1 .. (h + 1) PROVE handled'[k] = Delivered(Traffic[k])
        <5>1. CASE k = h + 1
          BY <1>9, <1>11, <2>2, <2>3, <5>1
        <5>2. CASE k # h + 1
          <6>1. k \in 1 .. h
            BY <1>5, <5>2
          <6> QED BY <1>9, <1>11, <2>2, <2>3, <6>1 DEF InStep, h
        <5> QED BY <5>1, <5>2
      <4> QED BY <3>1, <4>1
    <3>4. Consumed(h, z.bytes \o wire, w)
      BY <1>5, <1>11, <2>2, <2>3, ReadyIsNext
    <3>5. Stream[Len(handled')] \o (buffer' \o wire') = Stream[written']
      BY <1>1, <1>4, <3>1, <3>4 DEF w, Consumed
    <3> QED BY <3>1, <3>2, <3>3, <3>5 DEF InStep
  <2>4. CASE ~ Ready(z)
    <3>1. aux' = [type |-> z.type, fields |-> z.fields] /\ handled' = handled /\ aux' # NoPacket
      BY <1>2, <1>7, <2>4, PartialIsPacket
    <3>2. /\ h < w /\ Faithful(z, h, w, wire) /\ InStep
          /\ Len(z.bytes) < Len(Pieces(Traffic[h + 1])[Len(z.fields) + 2])
          /\ z.type = MSG => ~ cut /\ Len(z.fields) \in 0 .. 2
      BY <1>11, <2>2, <2>4
    <3>3. running' /\ Len(handled') < written' /\ Len(handled') <= written'
          /\ \A k \in 1 .. Len(handled') : handled'[k] = Delivered(Traffic[k])
      BY <1>1, <3>1, <3>2 DEF InStep, h, w
    <3>4. Faithful(Resumed', Len(handled'), written', wire')
      <4>1. z = [type |-> z.type, fields |-> z.fields, bytes |-> z.bytes]
        BY <1>4 DEF Draft
      <4>2. Resumed' = z
        BY <1>4, <3>1, <4>1 DEF Resumed
      <4> HIDE DEF Resumed
      <4> QED BY <1>1, <3>1, <3>2, <4>2 DEF h, w
    <3>5. aux'.type = MSG => aux'.fields = << >>
      <4> SUFFICES ASSUME z.type = MSG PROVE z.fields = << >>
        BY <3>1
      <4>1. Len(z.fields) # 2
        BY <2>4, FieldsOf DEF Ready
      <4>2. Len(z.fields) # 1
        <5> SUFFICES ASSUME Len(z.fields) = 1 PROVE FALSE
          OBVIOUS
        <5>1. ~ (Len(z.bytes) < Len(Pieces(Traffic[h + 1])[3]))
          BY <1>11, <2>2, <3>2, NotBetween DEF Inv, h, w
        <5>2. Len(z.fields) + 2 = 3
          OBVIOUS
        <5> QED BY <3>2, <5>1, <5>2
      <4>3. Len(z.fields) = 0
        BY <3>2, <4>1, <4>2
      <4> QED BY <1>6, <4>3, EmptySeq
    <3>6. Awaited'
      <4> DEFINE size == Len(Pieces(Traffic[h + 1])[Len(z.fields) + 2])
                 n == Len(z.bytes)
      <4>1. n \in Nat /\ n < size
        BY <1>6, <3>2, LenProperties
      <4>2. size \in Nat
        <5> DEFINE p == Traffic[h + 1]
                   i == Len(z.fields) + 2
        <5>1. p \in Packet /\ z.type = p.type
          BY <1>5, <3>2, StreamNext DEF Faithful
        <5>2. i \in 1 .. Count(p)
          <6> DEFINE m == Fields[z.type]
                     l == Len(z.fields)
          <6>1. m \in Nat /\ l \in Nat /\ l <= m /\ l # m /\ Count(p) = m + 1
            BY <1>6, <2>4, <5>1, FieldsOf DEF Ready, Count
          <6> HIDE DEF m, l
          <6>2. l + 2 \in 1 .. (m + 1)
            BY <6>1
          <6> QED BY <6>1, <6>2 DEF l
        <5> HIDE DEF i, p
        <5>3. Pieces(p)[i] \in Seq(Byte)
          BY <5>1, <5>2, PiecesAreBytes
        <5> QED BY <5>3, LenProperties DEF i, p
      <4>3. size > 0
        <5> HIDE DEF size, n
        <5> QED BY <4>1, <4>2
      <4> QED BY <3>1, <4>3 DEF Awaited, h
    <3> HIDE DEF Resumed
    <3> QED BY <3>1, <3>2, <3>3, <3>4, <3>5, <3>6 DEF InStep
  <2> QED BY <2>3, <2>4
<1>13. CutSeen'
  BY <1>1 DEF Inv, CutSeen, InText
<1>14. IntactUpToMessages'
  <2>1. CASE ~ Ready(z)
    <3>1. handled' = handled
      BY <1>2, <2>1
    <3> QED BY <3>1 DEF Inv, IntactUpToMessages
  <2>2. CASE Ready(z)
    <3> SUFFICES ASSUME NEW k \in 1 .. (h + 1),
                        \A j \in 1 .. k : j <= Len(Traffic) /\ Traffic[j].type = HANDSHAKE
                 PROVE  handled'[k] = Traffic[k]
      BY <1>9, <2>2 DEF IntactUpToMessages
    <3>1. CASE k = h + 1
      <4>1. Straight
        <5>1. \A j \in 1 .. Len(Traffic) : j <= h + 1 => Traffic[j].type = HANDSHAKE
          BY <1>5, <3>1, TrafficIsPackets
        <5> QED BY <5>1 DEF Straight, h
      <4>2. Contents(z) = Delivered(Traffic[k])
        BY <1>11, <2>2, <3>1, <4>1
      <4>3. Traffic[k].type = HANDSHAKE
        BY <1>5, <3>1
      <4> QED BY <1>9, <2>2, <3>1, <4>2, <4>3 DEF Delivered
    <3>2. CASE k # h + 1
      <4>1. k \in 1 .. h /\ k \in DOMAIN handled
        BY <1>5, <3>2, LenProperties DEF h
      <4>2. handled[k] = Traffic[k]
        BY <4>1 DEF Inv, IntactUpToMessages
      <4> QED BY <1>9, <2>2, <4>1, <4>2
    <3> QED BY <3>1, <3>2
  <2> QED BY <2>1, <2>2
<1> QED BY <1>10, <1>12, <1>13, <1>14 DEF Inv

LEMMA StutterKeeps ==
  ASSUME Inv, UNCHANGED vars
  PROVE  Inv'
<1>1. /\ written' = written /\ wire' = wire /\ buffer' = buffer /\ aux' = aux
      /\ handled' = handled /\ running' = running /\ cut' = cut
  BY DEF vars
<1>2. Types'
  BY <1>1 DEF Inv, Types
<1>3. Resumed' = Resumed /\ Awaited' = Awaited
  BY <1>1 DEF Resumed, Awaited
<1>4. Straight' => InStep'
  <2> HIDE DEF Resumed, Awaited
  <2> QED BY <1>1, <1>3 DEF Inv, Straight, InStep
<1>5. CutSeen' /\ IntactUpToMessages'
  BY <1>1 DEF Inv, CutSeen, InText, IntactUpToMessages
<1> QED BY <1>2, <1>4, <1>5 DEF Inv

LEMMA InvHolds == Safe => []Inv
<1>1. Init => Inv
  BY InitInv
<1>2. Inv /\ [Next]_vars => Inv'
  <2> SUFFICES ASSUME Inv, [Next]_vars PROVE Inv'
    OBVIOUS
  <2>1. CASE SendPacket
    BY <2>1, SendKeeps
  <2>2. ASSUME NEW k \in 1 .. Len(wire), Receive(k) PROVE Inv'
    BY <2>2, ReceiveKeeps
  <2>3. CASE HandleServer
    BY <2>3, HandleKeeps
  <2>4. CASE HandleUnknown
    BY <2>4, HandleUnknownKeeps
  <2>5. CASE UNCHANGED vars
    BY <2>5, StutterKeeps
  <2> QED BY <2>1, <2>2, <2>3, <2>4, <2>5 DEF Next
<1> QED BY <1>1, <1>2, PTL DEF Safe

\* Every call of handleServer leaves a context that the next one can go on from: unread
\* bytes, and no packet or one of the two kinds that is not finished.
THEOREM FramingTypeCorrect == Safe => []TypeOK
<1>1. Inv => TypeOK
  <2> SUFFICES ASSUME Inv PROVE TypeOK
    OBVIOUS
  <2>1. aux = NoPacket \/ (aux.type \in {HANDSHAKE, MSG} /\ Len(aux.fields) < Fields[aux.type])
    BY DEF Inv, Types, Partial
  <2> QED BY <2>1 DEF Inv, Types, TypeOK
<1> QED BY <1>1, InvHolds, PTL

\* In step, the packets handled are the first of those that arrive.
LEMMA ArrivingIs ==
  ASSUME Types
  PROVE  /\ Len(Arriving) = written /\ DOMAIN Arriving = 1 .. written
         /\ \A k \in 1 .. written : Arriving[k] = Delivered(Traffic[k])
         /\ InStep => Len(handled) <= written
                      /\ \A k \in 1 .. Len(handled) : handled[k] = Arriving[k]
<1>1. written \in Nat
  BY TrafficIsPackets DEF Types
<1>2. /\ DOMAIN Arriving = 1 .. written
      /\ \A k \in 1 .. written : Arriving[k] = Delivered(Traffic[k])
  BY DEF Arriving, Delivered
<1> DEFINE S == { Arriving[k] : k \in 1 .. written }
<1>3. Arriving \in [1 .. written -> S]
  BY DEF Arriving
<1> HIDE DEF S
<1>4. Len(Arriving) = written
  BY <1>1, <1>3, Listed
<1>5. InStep => Len(handled) <= written
                /\ \A k \in 1 .. Len(handled) : handled[k] = Arriving[k]
  <2> SUFFICES ASSUME InStep PROVE Len(handled) <= written
                                   /\ \A k \in 1 .. Len(handled) : handled[k] = Arriving[k]
    OBVIOUS
  <2>1. Len(handled) <= written /\ \A k \in 1 .. Len(handled) : handled[k] = Delivered(Traffic[k])
    BY DEF InStep
  <2>2. Len(handled) \in Nat
    BY LenProperties DEF Types
  <2> DEFINE n == Len(handled)
  <2> HIDE DEF n
  <2>3. \A k \in 1 .. n : k \in 1 .. written
    BY <1>1, <2>1, <2>2 DEF n
  <2> QED BY <1>2, <2>1, <2>3 DEF n
<1> QED BY <1>2, <1>4, <1>5

\* However TCP cuts and joins what the threads have written, and however often ContinueBuild
\* is called before a packet is complete, handleHandShake and handleMsg get the packets
\* that were written, unchanged and in order, unless a message is cut after its length.
THEOREM PacketsArriveIntact == Safe => []PacketsIntact
<1>1. Inv => PacketsIntact
  <2> SUFFICES ASSUME Inv, ~ cut PROVE IsPrefix(handled, Arriving)
    BY DEF PacketsIntact
  <2>1. Types /\ InStep
    BY DEF Inv, Straight
  <2>2. /\ Len(Arriving) = written /\ Len(handled) <= written
        /\ \A k \in 1 .. Len(handled) : handled[k] = Arriving[k]
    BY <2>1, ArrivingIs
  <2>3. SubSeq(handled, 1, Len(handled)) = SubSeq(Arriving, 1, Len(handled))
    <3> DEFINE n == Len(handled)
    <3>1. n \in Nat
      BY <2>1, LenProperties DEF Types
    <3> HIDE DEF n
    <3> QED BY <2>2, <3>1 DEF n
  <2> QED BY <2>2, <2>3 DEF IsPrefix
<1> QED BY <1>1, InvHolds, PTL

\* A message that was cut damages none of the handshakes that were handled before it.
THEOREM GreetingsBeforeMessages == Safe => []IntactUpToMessages
<1>1. Inv => IntactUpToMessages
  BY DEF Inv
<1> QED BY <1>1, InvHolds, PTL

\* Unserialize finds the type of a packet where a packet begins: handleServer does not
\* call IsReady on NULL, unless a message was cut after its length.
THEOREM StaysInSync == Safe => []NeverLosesSync
<1>1. Inv => NeverLosesSync
  BY DEF Inv, Straight, InStep, NeverLosesSync
<1> QED BY <1>1, InvHolds, PTL

\* A field that is not empty and of which all bytes are there is read.
LEMMA NoneWaits ==
  ASSUME Types, InStep, Straight, aux # NoPacket, wire = << >>, Stalled
  PROVE  FALSE
<1> DEFINE h == Len(handled)
           w == written
           p == Traffic[h + 1]
<1>1. /\ w \in 0 .. Len(Traffic) /\ h \in Nat /\ h < w /\ wire \in Seq(Byte)
      /\ buffer \in Seq(Byte) /\ aux \in Partial
      /\ Faithful(Resumed, h, w, wire) /\ Awaited /\ (aux.type = MSG => aux.fields = << >>)
  BY LenProperties DEF Types, InStep
<1>2. p \in Packet
  BY <1>1, StreamNext
<1> HIDE DEF h, w, p
\* Whatever is faithful and unfinished has all bytes of its next field.
<1>3. ASSUME NEW y, Faithful(y, h, w, wire), Len(y.fields) < Fields[y.type]
      PROVE  /\ y.bytes \in Seq(Byte) /\ Len(y.bytes) \in Nat
             /\ Len(Pieces(p)[Len(y.fields) + 2]) \in Nat
             /\ Len(y.bytes) >= Len(Pieces(p)[Len(y.fields) + 2])
  <2> DEFINE j == Len(y.fields) + 1
             k == Len(y.fields) + 2
             b == Pieces(p)[k]
             s == y.bytes
  <2>1. s \in Seq(Byte) /\ y.fields \in Seq(Seq(Byte)) /\ y.type = p.type
        /\ y.type \in {HANDSHAKE, MSG}
    BY <1>3 DEF Faithful, Draft, p
  <2>2. j \in Nat /\ k \in Nat /\ k = j + 1 /\ k <= Count(p) /\ k \in 1 .. Count(p)
    <3> DEFINE n == Len(y.fields)
               m == Fields[y.type]
    <3>1. n \in Nat /\ m \in Nat /\ n < m /\ Count(p) = m + 1
      BY <1>3, <2>1, FieldsOf, LenProperties DEF Count
    <3> HIDE DEF n, m
    <3>2. n + 1 \in Nat /\ n + 2 \in Nat /\ n + 2 = (n + 1) + 1 /\ n + 2 <= m + 1
          /\ n + 2 \in 1 .. (m + 1)
      BY <3>1
    <3> QED BY <3>1, <3>2 DEF n
  <2>3. Stands(h, j, s, w)
    <3>1. s \o wire = s
      BY <2>1, ConcatEmptySeq
    <3> QED BY <1>3, <3>1 DEF Faithful
  <2> HIDE DEF j, k, s
  <2>4. PICK r \in Seq(Byte) : s = Pieces(Traffic[h + 1])[k] \o r /\ Stands(h, k, r, w)
    <3>1. k <= Count(Traffic[h + 1]) /\ s \in Seq(Byte)
      BY <2>1, <2>2 DEF p, s
    <3> QED BY <1>1, <2>2, <2>3, <3>1, NextPiece
  <2>5. b \in Seq(Byte)
    BY <1>2, <2>2, PiecesAreBytes
  <2>6. s = b \o r
    BY <2>4 DEF p
  <2> HIDE DEF b
  <2>7. Len(s) = Len(b) + Len(r) /\ Len(b) \in Nat /\ Len(r) \in Nat
    BY <2>5, <2>6, Joined, LenProperties
  <2> DEFINE lb == Len(b)
             lr == Len(r)
             ls == Len(s)
  <2>8. ls \in Nat /\ lb \in Nat /\ ls >= lb
    <3>1. ls = lb + lr /\ lb \in Nat /\ lr \in Nat
      BY <2>7
    <3> HIDE DEF lb, lr, ls
    <3> QED BY <3>1
  <2> QED BY <2>1, <2>8 DEF b, k, s
<1>4. Resumed.bytes = buffer /\ Resumed.fields = aux.fields /\ Resumed.type = aux.type
  BY DEF Resumed
<1>5. Begin = Resumed
  BY DEF Begin, Resumed
<1> HIDE DEF Resumed
<1>6. CASE buffer = << >>
  <2>1. Len(aux.fields) < Fields[aux.type]
    BY <1>1 DEF Partial
  <2>2. Len(buffer) >= Len(Pieces(p)[Len(aux.fields) + 2])
        /\ Len(Pieces(p)[Len(aux.fields) + 2]) \in Nat
    BY <1>1, <1>3, <1>4, <2>1
  <2>3. Len(buffer) = 0
    BY <1>6, EmptySeq
  <2>4. Len(Pieces(p)[Len(aux.fields) + 2]) > 0
    BY <1>1 DEF Awaited, p, h
  <2> DEFINE l == Len(Pieces(p)[Len(aux.fields) + 2])
  <2>5. l \in Nat /\ l > 0 /\ 0 >= l
    BY <2>2, <2>3, <2>4
  <2> HIDE DEF l
  <2> QED BY <2>5
<1>7. CASE buffer # << >>
  <2>1. aux.type \in {HANDSHAKE, MSG}
    BY <1>1 DEF Partial
  <2>2. PICK z : z \in Builds(Begin)
    BY <1>1, <1>4, <1>5, <2>1, BuildsAreSome
  <2>3. /\ Faithful(z, h, w, wire)
        /\ Ready(z) \/ Len(z.bytes) < Len(Pieces(p)[Len(z.fields) + 2])
    BY <1>7, <2>2, BuildInStep DEF h, w, p
  <2>4. ~ Ready(z)
    BY <1>7, <2>2 DEF Stalled
  <2>5. Len(z.fields) < Fields[z.type]
    <3> DEFINE n == Len(z.fields)
               m == Fields[z.type]
    <3>1. z \in Draft
      BY <2>3 DEF Faithful
    <3>2. n \in Nat /\ m \in Nat /\ n <= m /\ n # m
      BY <2>4, <3>1, FieldsOf, LenProperties DEF Ready, Draft
    <3> HIDE DEF n, m
    <3>3. n < m
      BY <3>2
    <3> QED BY <3>3 DEF n, m
  <2>6. /\ Len(z.bytes) \in Nat /\ Len(Pieces(p)[Len(z.fields) + 2]) \in Nat
        /\ Len(z.bytes) >= Len(Pieces(p)[Len(z.fields) + 2])
    BY <1>3, <2>3, <2>5
  <2> DEFINE a == Len(z.bytes)
             b == Len(Pieces(p)[Len(z.fields) + 2])
  <2>7. a \in Nat /\ b \in Nat /\ a >= b /\ a < b
    BY <2>3, <2>4, <2>6
  <2> HIDE DEF a, b
  <2> QED BY <2>7
<1> QED BY <1>6, <1>7

\* A packet has bytes.
LEMMA AllRead ==
  ASSUME NEW h \in Nat, NEW w \in 0 .. Len(Traffic), h <= w, Stream[h] = Stream[w]
  PROVE  h = w
<1> SUFFICES ASSUME h < w PROVE FALSE
  BY TrafficIsPackets
<1> DEFINE p == Traffic[h + 1]
           s == Serialize(p)
<1>1. /\ p \in Packet /\ Stream[h] \in Seq(Byte) /\ Stream[h + 1] \in Seq(Byte)
      /\ Stream[h + 1] = Stream[h] \o s /\ Begins(Stream[h + 1], Stream[w])
  BY StreamNext
<1> HIDE DEF p
<1>2. PICK r \in Seq(Byte) : Stream[w] = Stream[h + 1] \o r
  BY <1>1 DEF Begins
<1>3. s \in Seq(Byte) /\ s # << >>
  <2>1. PICK x \in Seq(Byte) : s = << p.type >> \o x
    BY <1>1, SerializeIsBytes
  <2>2. p.type \in Byte
    BY <1>1, TypeOfPacket
  <2> DEFINE t == << p.type >>
  <2>3. t \in Seq(Byte) /\ Len(t) = 1
    BY <2>2
  <2>4. s = t \o x
    BY <2>1
  <2> HIDE DEF t
  <2>5. Len(s) = 1 + Len(x) /\ Len(x) \in Nat /\ s \in Seq(Byte)
    BY <2>3, <2>4, Joined, LenProperties
  <2>6. s = << >> => Len(s) = 0
    BY EmptySeq
  <2> QED BY <2>5, <2>6
<1> HIDE DEF s
<1> DEFINE a == Stream[h]
<1>4. a = (a \o s) \o r /\ a \in Seq(Byte)
  BY <1>1, <1>2
<1> HIDE DEF a
<1>5. (a \o s) \o r = a \o (s \o r)
  BY <1>3, <1>4, Associative
<1>6. s \o r \in Seq(Byte) /\ a = a \o (s \o r)
  BY <1>3, <1>4, <1>5, Joined
<1> DEFINE q == s \o r
<1>7. q # << >>
  BY <1>3, ConcatEqualIffEmpty
<1>8. q \in Seq(Byte) /\ a \o q = a
  BY <1>6
<1> HIDE DEF q
<1> QED BY <1>4, <1>7, <1>8, ConcatEqualIffEmpty

\* When all that was written has been received and another call of handleServer would
\* change nothing, every packet has been handled: none is left in ctx->aux, waiting for
\* bytes that it has, unless a message was cut after its length.
THEOREM NothingIsLeft == Safe => []NothingStuck
<1>1. Inv => NothingStuck
  <2> SUFFICES ASSUME Inv, ~ cut, wire = << >>, Stalled
               PROVE  handled = Arriving /\ aux = NoPacket
    BY DEF NothingStuck
  <2>1. Types /\ InStep /\ Straight
    BY DEF Inv, Straight
  <2>2. aux = NoPacket
    BY <2>1, NoneWaits
  <2>3. buffer = << >>
    BY <2>2 DEF Stalled
  <2> DEFINE h == Len(handled)
             w == written
  <2>4. /\ h \in Nat /\ w \in 0 .. Len(Traffic) /\ h <= w
        /\ Stream[h] \o (buffer \o wire) = Stream[w]
    BY <2>1, <2>2, LenProperties DEF Types, InStep
  <2>5. Stream[h] = Stream[w]
    <3>1. << >> \in Seq(Byte)
      BY EmptySeq
    <3>2. << >> \o << >> = << >>
      BY <3>1, ConcatEmptySeq
    <3>3. h \in 0 .. Len(Traffic)
      BY <2>4
    <3>4. Stream[h] \in Seq(Byte)
      BY <3>3, StreamIsBytes
    <3> DEFINE a == Stream[h]
    <3>5. a \in Seq(Byte) /\ a \o << >> = Stream[w]
      BY <2>3, <2>4, <3>2, <3>4
    <3> HIDE DEF a
    <3>6. a \o << >> = a
      BY <3>5, ConcatEmptySeq
    <3> QED BY <3>5, <3>6 DEF a
  <2>6. h = w
    BY <2>4, <2>5, AllRead
  <2>7. handled = Arriving
    <3>1. /\ Len(Arriving) = w /\ DOMAIN Arriving = 1 .. w
          /\ \A k \in 1 .. h : handled[k] = Arriving[k]
      BY <2>1, ArrivingIs
    <3>2. handled = [k \in 1 .. h |-> handled[k]]
      BY <2>1, LenProperties DEF Types
    <3>3. Arriving = [k \in 1 .. w |-> Arriving[k]]
      BY <3>1 DEF Arriving
    <3> HIDE DEF h, w
    <3> QED BY <2>6, <3>1, <3>2, <3>3
  <2> QED BY <2>2, <2>7
<1> QED BY <1>1, InvHolds, PTL

-----------------------------------------------------------------------------
(* What is wrapped is unwrapped.                                            *)

Within(s, t, u) == SubSeq((s \o t) \o u, Len(s) + 1, Len(s) + Len(t)) = t

LEMMA Infix ==
  \A s, t, u \in Seq(Byte) : Within(s, t, u)
<1> SUFFICES ASSUME NEW s \in Seq(Byte), NEW t \in Seq(Byte), NEW u \in Seq(Byte)
             PROVE  SubSeq((s \o t) \o u, Len(s) + 1, Len(s) + Len(t)) = t
  BY DEF Within
<1> DEFINE x == s \o t
           y == x \o u
           m == Len(s)
           n == Len(t)
           sub == SubSeq(y, m + 1, m + n)
<1>1. m \in Nat /\ n \in Nat /\ Len(u) \in Nat
  BY LenProperties
<1>2. x \in Seq(Byte) /\ Len(x) = m + n
      /\ \A i \in 1 .. m + n : x[i] = IF i <= m THEN s[i] ELSE t[i - m]
  BY Joined, JoinedAt
<1> HIDE DEF x
<1>3. \A i \in 1 .. Len(x) + Len(u) : y[i] = IF i <= Len(x) THEN x[i] ELSE u[i - Len(x)]
  BY <1>2, JoinedAt
<1> HIDE DEF y, m, n
<1>4. \A i \in 1 .. n : y[m + i] = t[i] /\ t[i] \in Byte
  <2> SUFFICES ASSUME NEW i \in 1 .. n PROVE y[m + i] = t[i] /\ t[i] \in Byte
    OBVIOUS
  <2>1. m + i \in 1 .. m + n /\ m + i \in 1 .. Len(x) + Len(u) /\ m + i <= Len(x)
        /\ ~ (m + i <= m) /\ (m + i) - m = i
    BY <1>1, <1>2
  <2>2. y[m + i] = x[m + i]
    BY <1>3, <2>1
  <2>3. x[m + i] = t[i]
    BY <1>2, <2>1
  <2>4. t[i] \in Byte
    BY ElementOfSeq DEF n
  <2> QED BY <2>2, <2>3, <2>4
<1>5. sub \in Seq(Byte) /\ Len(sub) = n /\ \A i \in 1 .. n : sub[i] = y[m + i]
  <2> DEFINE a == m + 1
             b == m + n
  <2>1. a \in Int /\ b \in Int /\ b - a + 1 = n /\ (IF a <= b THEN b - a + 1 ELSE 0) = n
        /\ \A i \in 1 .. n : a + i - 1 = m + i
    BY <1>1
  <2>2. \A i \in a .. b : y[i] \in Byte
    <3> SUFFICES ASSUME NEW i \in a .. b PROVE y[i] \in Byte
      OBVIOUS
    <3>1. i - m \in 1 .. n /\ m + (i - m) = i
      BY <1>1
    <3> QED BY <1>4, <3>1
  <2> HIDE DEF a, b
  <2>3. /\ SubSeq(y, a, b) \in Seq(Byte)
        /\ Len(SubSeq(y, a, b)) = (IF a <= b THEN b - a + 1 ELSE 0)
        /\ \A i \in 1 .. b - a + 1 : SubSeq(y, a, b)[i] = y[a + i - 1]
    BY <2>1, <2>2, SubSeqProperties
  <2>4. sub = SubSeq(y, a, b)
    BY DEF a, b
  <2> HIDE DEF sub
  <2> QED BY <2>1, <2>3, <2>4
<1>6. Len(t) = n
  BY DEF n
<1> HIDE DEF sub
<1>7. sub = t
  BY <1>4, <1>5, <1>6, SeqEqual
<1> QED BY <1>7 DEF sub, y, x, m, n

\* Message::Unserialize finds what Serialize has put together.
LEMMA LayerUnwraps ==
  ASSUME NEW layer \in [ty : LayerType, id : String, key : Byte], NEW data \in Seq(Byte)
  PROVE  Unserialize(Decrypt(layer.key, Encrypt(layer.key, LayerBytes(layer.ty, layer.id, data))))
           = [ty |-> layer.ty, id |-> layer.id, left |-> data]
<1> DEFINE a   == << layer.ty >>
           l   == Bytes4(Len(layer.id))
           id  == layer.id
           al  == a \o l
           ali == al \o id
           bs  == ali \o data
           key == << layer.key >>
           n   == Len(id)
           m   == Len(data)
<1>1. layer.ty \in Byte
  <2>1. layer.ty \in {0, 1, 2}
    BY DEF LayerType, ONIONLAYER, MSGLAYER, IMGLAYER
  <2> QED BY SMTT(30), <2>1, ByteIs
<1>2. /\ a \in Seq(Byte) /\ Len(a) = 1 /\ a[1] = layer.ty
      /\ key \in Seq(Byte) /\ Len(key) = 1 /\ key[1] = layer.key
  BY <1>1
<1>3. l \in Seq(Byte) /\ Len(l) = 4 /\ Value4(l) = n /\ id \in Seq(Byte)
  BY FourBytes DEF String
<1>4. n \in Nat /\ m \in Nat
  BY <1>3, LenProperties
<1>5. LayerBytes(layer.ty, layer.id, data) = bs
  BY DEF LayerBytes
<1> HIDE DEF a, l, id, key, n, m
<1>6. /\ al \in Seq(Byte) /\ Len(al) = 5
      /\ ali \in Seq(Byte) /\ Len(ali) = 5 + n
      /\ bs \in Seq(Byte) /\ Len(bs) = 5 + n + m
  <2>1. al \in Seq(Byte) /\ Len(al) = 5
    <3>1. a \in Seq(Byte) /\ l \in Seq(Byte)
      BY <1>2, <1>3
    <3>2. a \o l \in Seq(Byte) /\ Len(a \o l) = Len(a) + Len(l)
      BY <3>1, Joined
    <3> QED BY <1>2, <1>3, <3>2
  <2> HIDE DEF al
  <2>2. ali \in Seq(Byte) /\ Len(ali) = 5 + n
    BY <1>3, <2>1, Joined DEF n
  <2> HIDE DEF ali
  <2>3. bs \in Seq(Byte) /\ Len(bs) = 5 + n + m
    BY <2>2, Joined DEF m
  <2> QED BY <2>1, <2>2, <2>3
<1>7. SubSeq(bs, 2, 5) = l
  <2>1. id \o data \in Seq(Byte)
    BY <1>3, Joined
  <2>2. ((a \o l) \o id) \o data = (a \o l) \o (id \o data)
    <3> HIDE DEF al
    <3>1. al \in Seq(Byte) /\ id \in Seq(Byte)
      BY <1>3, <1>6
    <3>2. (al \o id) \o data = al \o (id \o data)
      BY <3>1, Associative
    <3> QED BY <3>2 DEF al
  <2> DEFINE idd == id \o data
  <2>3. bs = (a \o l) \o idd
    BY <2>2
  <2>4. idd \in Seq(Byte)
    BY <2>1
  <2> HIDE DEF idd, bs
  <2>5. Within(a, l, idd)
    BY <1>2, <1>3, <2>4, Infix
  <2> DEFINE y == (a \o l) \o idd
  <2>6. SubSeq(y, Len(a) + 1, Len(a) + Len(l)) = l
    BY <2>5 DEF Within
  <2>7. Len(a) + 1 = 2 /\ Len(a) + Len(l) = 5
    BY <1>2, <1>3
  <2>8. bs = y
    BY <2>3
  <2> HIDE DEF y
  <2> QED BY <2>6, <2>7, <2>8
<1>8. SubSeq(bs, 6, 5 + n) = id
  <2> HIDE DEF al
  <2>1. Within(al, id, data)
    BY <1>3, <1>6, Infix
  <2> QED BY <1>6, <2>1 DEF Within, n
<1>9. SubSeq(bs, 6 + n, 5 + n + m) = data
  <2> HIDE DEF ali
  <2>1. << >> \in Seq(Byte)
    BY EmptySeq
  <2>2. Within(ali, data, << >>)
    BY <1>6, <2>1, Infix
  <2>3. bs \o << >> = bs
    <3> HIDE DEF bs
    <3> QED BY <1>6, ConcatEmptySeq
  <2>4. Len(ali) + 1 = 6 + n /\ Len(ali) + Len(data) = 5 + n + m
    BY <1>4, <1>6 DEF m
  <2> QED BY <2>2, <2>3, <2>4 DEF Within
<1>10. bs[1] = layer.ty
  <2>1. al[1] = a[1]
    <3>1. 1 \in 1 .. Len(a) + Len(l) /\ 1 <= Len(a)
      BY <1>2, <1>3
    <3> QED BY <1>2, <1>3, <3>1, JoinedAt
  <2> HIDE DEF al
  <2>2. ali[1] = al[1]
    <3>1. 1 \in 1 .. Len(al) + Len(id) /\ 1 <= Len(al)
      BY <1>4, <1>6 DEF n
    <3> QED BY <1>3, <1>6, <3>1, JoinedAt
  <2> HIDE DEF ali
  <2>3. bs[1] = ali[1]
    <3>1. 1 \in 1 .. Len(ali) + Len(data) /\ 1 <= Len(ali)
      BY <1>4, <1>6 DEF m
    <3> QED BY <1>6, <3>1, JoinedAt
  <2> QED BY <1>2, <2>1, <2>2, <2>3
<1> HIDE DEF bs
<1>11. Decrypt(layer.key, Encrypt(layer.key, bs)) = bs
  <2> DEFINE ct == key \o bs
  <2>1. Encrypt(layer.key, bs) = ct
    BY DEF Encrypt, key
  <2>2. /\ ct \in Seq(Byte) /\ Len(ct) = 1 + Len(bs) /\ Len(bs) \in Nat
        /\ \A i \in 1 .. 1 + Len(bs) : ct[i] = IF i <= 1 THEN key[i] ELSE bs[i - 1]
    <3>1. key \in Seq(Byte) /\ bs \in Seq(Byte)
      BY <1>2, <1>6
    <3>2. /\ ct \in Seq(Byte) /\ Len(ct) = Len(key) + Len(bs)
          /\ \A i \in 1 .. Len(key) + Len(bs) :
               ct[i] = IF i <= Len(key) THEN key[i] ELSE bs[i - Len(key)]
      BY <3>1, Joined, JoinedAt
    <3>3. Len(bs) \in Nat
      BY <3>1, LenProperties
    <3> HIDE DEF ct
    <3> QED BY <1>2, <3>2, <3>3
  <2> HIDE DEF ct
  <2>3. ct # << >> /\ Head(ct) = layer.key
    <3>1. ct # << >>
      BY <2>2, EmptySeq
    <3>2. ct[1] = key[1]
      BY <2>2
    <3> QED BY <1>2, <3>1, <3>2
  <2>4. Tail(ct) = bs
    <3>1. Tail(ct) \in Seq(Byte) /\ Len(Tail(ct)) = Len(bs)
          /\ \A i \in 1 .. Len(bs) : Tail(ct)[i] = ct[i + 1]
      <4>1. Tail(ct) \in Seq(Byte) /\ Len(Tail(ct)) = Len(ct) - 1
            /\ \A i \in 1 .. Len(Tail(ct)) : Tail(ct)[i] = ct[i + 1]
        BY <2>2, <2>3, HeadTailProperties
      <4>2. Len(Tail(ct)) = Len(bs)
        BY <2>2, <4>1
      <4> QED BY <4>1, <4>2
    <3>2. \A i \in 1 .. Len(bs) : ct[i + 1] = bs[i]
      <4> SUFFICES ASSUME NEW i \in 1 .. Len(bs) PROVE ct[i + 1] = bs[i]
        OBVIOUS
      <4>1. i + 1 \in 1 .. 1 + Len(bs) /\ ~ (i + 1 <= 1) /\ (i + 1) - 1 = i
        BY <2>2
      <4> QED BY <2>2, <4>1
    <3> DEFINE t == Tail(ct)
    <3> HIDE DEF t
    <3>3. t = bs
      BY <1>6, <3>1, <3>2, SeqEqual DEF t
    <3> QED BY <3>3 DEF t
  <2> QED BY <2>1, <2>3, <2>4 DEF Decrypt
<1>12. IdLength(bs) = n
  <2>1. Substr(bs, 1, 4) = SubSeq(bs, 2, 5)
    <3>1. 1 + 4 <= Len(bs) /\ 1 + 4 = 5 /\ 1 + 1 = 2
      BY <1>4, <1>6
    <3> QED BY <3>1 DEF Substr
  <2> QED BY <1>3, <1>7, <2>1 DEF IdLength
<1>13. Substr(bs, 5, n) = id
  <2>1. 5 + n <= Len(bs) /\ 5 + 1 = 6
    BY <1>4, <1>6
  <2>2. Substr(bs, 5, n) = SubSeq(bs, 6, 5 + n)
    BY <2>1 DEF Substr
  <2> QED BY <1>8, <2>2
<1>14. From(bs, 5 + n) = data
  <2>1. (5 + n) + 1 = 6 + n /\ Len(bs) = 5 + n + m
    BY <1>4, <1>6
  <2>2. From(bs, 5 + n) = SubSeq(bs, 6 + n, 5 + n + m)
    BY <2>1 DEF From
  <2> QED BY <1>9, <2>2
<1>15. Unserialize(bs) = [ty |-> layer.ty, id |-> layer.id, left |-> data]
  BY <1>10, <1>12, <1>13, <1>14 DEF Unserialize, id
<1> QED BY <1>5, <1>11, <1>15

\* One element more.
Extended(t, k) == Append(SubSeq(t, 1, k - 1), t[k]) = SubSeq(t, 1, k)

LEMMA OneMore ==
  ASSUME NEW S, NEW t \in Seq(S), NEW k \in 1 .. Len(t)
  PROVE  Extended(t, k)
<1>1. k \in Nat /\ k >= 1 /\ k <= Len(t) /\ Len(t) \in Nat
  BY LenProperties
<1>2. 1 \in 1 .. Len(t) /\ k \in 1 .. Len(t)
  BY <1>1
<1>3. SubSeq(t, 1, k) = SubSeq(t, 1, k - 1) \o << t[k] >>
  BY <1>1, <1>2, SubSeqRecursiveSecond
<1>4. SubSeq(t, 1, k - 1) \in Seq(S) /\ t[k] \in S
  <2>1. \A i \in 1 .. Len(t) : t[i] \in S
    BY ElementOfSeq
  <2> DEFINE j == k - 1
  <2>2. j \in Int /\ \A i \in 1 .. j : t[i] \in S
    BY <1>1, <2>1
  <2> HIDE DEF j
  <2>3. SubSeq(t, 1, j) \in Seq(S)
    BY <2>2, SubSeqProperties
  <2> QED BY <2>1, <2>3 DEF j
<1> DEFINE u == SubSeq(t, 1, k - 1)
           e == t[k]
<1>5. u \in Seq(S) /\ e \in S
  BY <1>4
<1> HIDE DEF u, e
<1>6. Append(u, e) = u \o << e >>
  BY <1>5, AppendIsConcat
<1> QED BY <1>3, <1>6 DEF Extended, u, e

Keys(o) == [l \in DOMAIN o.layers |-> o.layers[l].key]

\* Who has the keys finds the layers from the outermost on, and the text under them.
LEMMA PeeledDown ==
  ASSUME NEW o \in Onion
  PROVE  Peel(Wrap(o), Keys(o)) = [layers |-> o.layers, left |-> o.text]
<1> DEFINE L == o.layers
           n == Len(L)
           W == Wrapped(o)
           ct == Wrap(o)
           keys == Keys(o)
           Layer == [ty : LayerType, id : String, key : Byte]
           Open(k, x) ==
             LET layer == Unserialize(Decrypt(keys[k], x.left))
             IN [layers |-> Append(x.layers, [key |-> keys[k], ty |-> layer.ty, id |-> layer.id]),
                 left   |-> layer.left]
           Body(f) == [k \in 0 .. Len(keys) |->
                        IF k = 0 THEN [layers |-> << >>, left |-> ct] ELSE Open(k, f[k - 1])]
           found == CHOOSE f : f = Body(f)
           g == [k \in 0 .. n |-> [layers |-> SubSeq(L, 1, k), left |-> W[n - k]]]
<1>1. L \in Seq(Layer) /\ n \in Nat /\ DOMAIN L = 1 .. n /\ ct = W[n]
  BY LenProperties DEF Onion, Wrap
<1>2. /\ W[0] = o.text
      /\ \A k \in 0 .. n : W[k] \in Seq(Byte)
      /\ \A k \in 1 .. n :
           W[k] = LET layer == L[n + 1 - k]
                  IN Encrypt(layer.key, LayerBytes(layer.ty, layer.id, W[k - 1]))
  BY WrappedUp
<1>3. \A k \in 1 .. n : keys[k] = L[k].key
  BY <1>1 DEF Keys
<1>4. Len(keys) = n
  <2> DEFINE S == { L[l].key : l \in 1 .. n }
  <2>1. keys \in [1 .. n -> S]
    BY <1>1 DEF Keys
  <2> HIDE DEF S, keys
  <2> QED BY <1>1, <2>1, Listed
<1>5. Peel(ct, keys) = found[Len(keys)]
  BY DEF Peel, Peeled
<1> HIDE DEF W, ct, keys, Layer, L, n
<1>6. g[0] = [layers |-> << >>, left |-> ct]
  <2>1. SubSeq(L, 1, 0) = << >>
    BY SubSeqEmpty
  <2>2. 0 \in 0 .. n /\ n - 0 = n
    BY <1>1
  <2> QED BY <1>1, <2>1, <2>2
<1>7. ASSUME NEW k \in 1 .. n
      PROVE  Open(k, g[k - 1]) = g[k]
  <2> DEFINE layer == L[k]
             data == W[n - k]
  <2>1. k - 1 \in 0 .. n /\ k \in 0 .. n /\ n - (k - 1) \in 1 .. n /\ n - k \in 0 .. n
        /\ n + 1 - (n - (k - 1)) = k /\ (n - (k - 1)) - 1 = n - k
    BY <1>1
  <2>2. layer \in Layer /\ data \in Seq(Byte)
    <3>1. k \in 1 .. Len(L)
      BY DEF n
    <3> QED BY <1>1, <1>2, <2>1, <3>1, ElementOfSeq
  <2>3. g[k - 1] = [layers |-> SubSeq(L, 1, k - 1), left |-> W[n - (k - 1)]]
    BY <2>1
  <2>4. W[n - (k - 1)] = Encrypt(layer.key, LayerBytes(layer.ty, layer.id, data))
    BY <1>2, <2>1
  <2> HIDE DEF g
  <2>5. Unserialize(Decrypt(keys[k], g[k - 1].left))
          = [ty |-> layer.ty, id |-> layer.id, left |-> data]
    <3>1. g[k - 1].left = Encrypt(layer.key, LayerBytes(layer.ty, layer.id, data))
      BY <2>3, <2>4
    <3>2. keys[k] = layer.key
      BY <1>3
    <3> HIDE DEF layer, data
    <3>3. Unserialize(Decrypt(layer.key,
                              Encrypt(layer.key, LayerBytes(layer.ty, layer.id, data))))
            = [ty |-> layer.ty, id |-> layer.id, left |-> data]
      BY <2>2, LayerUnwraps DEF Layer
    <3> QED BY <3>1, <3>2, <3>3
  <2>6. [key |-> keys[k], ty |-> layer.ty, id |-> layer.id] = layer
    <3>1. keys[k] = layer.key
      BY <1>3
    <3> HIDE DEF layer
    <3> QED BY <2>2, <3>1 DEF Layer
  <2>7. Append(g[k - 1].layers, layer) = SubSeq(L, 1, k)
    <3>1. Extended(L, k)
      <4>1. k \in 1 .. Len(L)
        BY DEF n
      <4> QED BY <1>1, <4>1, OneMore
    <3> QED BY <2>3, <3>1 DEF Extended
  <2>8. Open(k, g[k - 1]) = [layers |-> SubSeq(L, 1, k), left |-> data]
    <3> DEFINE x == g[k - 1]
               u == Unserialize(Decrypt(keys[k], x.left))
               lists == Append(x.layers, [key |-> keys[k], ty |-> u.ty, id |-> u.id])
    <3>1. Open(k, x) = [layers |-> lists, left |-> u.left]
      OBVIOUS
    <3>2. u = [ty |-> layer.ty, id |-> layer.id, left |-> data]
      BY <2>5
    <3> HIDE DEF u
    <3>3. u.ty = layer.ty /\ u.id = layer.id /\ u.left = data
      BY <3>2
    <3>4. lists = SubSeq(L, 1, k)
      BY <2>6, <2>7, <3>3
    <3> HIDE DEF lists, Open, x
    <3>5. Open(k, x) = [layers |-> SubSeq(L, 1, k), left |-> data]
      BY <3>1, <3>3, <3>4
    <3> QED BY <3>5 DEF x
  <2>9. g[k] = [layers |-> SubSeq(L, 1, k), left |-> data]
    BY <2>1 DEF g
  <2> QED BY <2>8, <2>9
<1> HIDE DEF Open
<1>8. g = Body(g)
  <2>1. \A k \in 0 .. n : k # 0 => k \in 1 .. n
    BY <1>1
  <2>2. \A k \in 0 .. n :
          g[k] = IF k = 0 THEN [layers |-> << >>, left |-> ct] ELSE Open(k, g[k - 1])
    BY <1>6, <1>7, <2>1
  <2>3. g = [k \in 0 .. n |-> g[k]]
    OBVIOUS
  <2> HIDE DEF g
  <2> QED BY <1>4, <2>2, <2>3
<1>9. found = Body(found)
  <2> HIDE DEF g
  <2> QED BY <1>8
<1> HIDE DEF found
<1>10. /\ found[0] = g[0]
       /\ \A k \in 1 .. n : found[k] = Open(k, found[k - 1])
  <2>1. 0 \in 0 .. n /\ \A k \in 1 .. n : k \in 0 .. n /\ k # 0
    BY <1>1
  <2> HIDE DEF g
  <2> QED BY <1>4, <1>6, <1>9, <2>1
<1> HIDE DEF g
<1>11. \A k \in 0 .. n : found[k] = g[k]
  <2> DEFINE P == { k \in 0 .. n : found[k] = g[k] }
  <2>1. 0 \in P /\ P \in SUBSET (0 .. n)
    BY <1>1, <1>10
  <2>2. ASSUME NEW k \in 0 .. n, k # n, k \in P PROVE k + 1 \in P
    <3> DEFINE j == k + 1
    <3>1. j \in 1 .. n /\ j - 1 = k /\ j \in 0 .. n
      BY <1>1, <2>2
    <3>2. found[k] = g[k]
      BY <2>2
    <3> HIDE DEF j, P
    <3>3. found[j] = Open(j, found[k]) /\ Open(j, g[k]) = g[j]
      BY <1>7, <1>10, <3>1
    <3>4. found[j] = g[j]
      BY <3>2, <3>3
    <3> QED BY <3>1, <3>4 DEF P, j
  <2> HIDE DEF P
  <2>3. P = 0 .. n
    BY <1>1, <2>1, <2>2, Upwards
  <2> QED BY <2>3 DEF P
<1>12. found[n] = [layers |-> L, left |-> o.text]
  <2>1. n \in 0 .. n /\ n - n = 0
    BY <1>1
  <2>2. SubSeq(L, 1, n) = L
    BY <1>1, SubSeqFull DEF n
  <2> QED BY <1>2, <1>11, <2>1, <2>2 DEF g
<1> QED BY <1>4, <1>5, <1>12 DEF ct, keys, L

\* Who has the keys finds in a message that handleMsg gets the layers that were put
\* around it, in order, and the text under them: what Serialize and Encrypt do in one
\* process, Decrypt and Unserialize undo in those on the route.
THEOREM LayersArriveIntact == Safe => []LayersIntact
<1>1. Inv => LayersIntact
  <2> SUFFICES ASSUME Inv, ~ cut, NEW k \in DOMAIN handled, handled[k].type = MSG
               PROVE  LET onion == Traffic[k].onion
                      IN Peel(handled[k].ct, [l \in DOMAIN onion.layers |-> onion.layers[l].key])
                           = [layers |-> onion.layers, left |-> onion.text]
    BY DEF LayersIntact
  <2>1. Types /\ InStep
    BY DEF Inv, Straight
  <2>2. k \in 1 .. Len(handled) /\ Len(handled) \in Nat /\ Len(handled) <= written
        /\ written \in 0 .. Len(Traffic)
    BY <2>1, LenProperties DEF Types, InStep
  <2> DEFINE p == Traffic[k]
             x == handled[k]
  <2>3. p \in Packet /\ x = Delivered(p)
    <3>1. k \in 1 .. Len(Traffic)
      BY <2>2, TrafficIsPackets
    <3> QED BY <2>1, <2>2, <3>1, TrafficIsPackets DEF InStep
  <2> HIDE DEF p, x
  <2>4. p.type # HANDSHAKE
    BY <2>3, FieldsOf DEF Delivered, x
  <2>5. x.ct = Wrap(p.onion)
    BY <2>3, <2>4 DEF Delivered
  <2>6. p.onion \in Onion
    BY <2>3, <2>4, TypeOfPacket DEF Message
  <2>7. Peel(Wrap(p.onion), Keys(p.onion)) = [layers |-> p.onion.layers, left |-> p.onion.text]
    BY <2>6, PeeledDown
  <2> QED BY <2>5, <2>7 DEF p, x, Keys
<1> QED BY <1>1, InvHolds, PTL
=============================================================================
