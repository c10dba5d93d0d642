----------------------------- MODULE FramingProofs ------------------------------
(***************************************************************************)
(* For every sequence of bytes: what the operators of RequestFraming say   *)
(* of a position, what follows it cannot change, white space in front of   *)
(* it only moves, and the loop of cut_json_obj computes.                   *)
(***************************************************************************)
EXTENDS RequestFraming, TLAPS, SequenceTheorems, FiniteSetTheorems, WellFoundedInduction

-----------------------------------------------------------------------------
(* What follows a position. *)

\* A set of natural numbers that is not empty has a smallest element.
LEMMA Smallest ==
  ASSUME NEW T, T \subseteq Nat, T # {}
  PROVE  \E x \in T : \A y \in T : x <= y
<1>1. \E x \in T : \A y \in T : ~(<<y, x>> \in OpToRel(<, Nat))
  BY NatLessThanWellFounded, WFMin
<1>2. \A x, y \in Nat : <<y, x>> \in OpToRel(<, Nat) <=> y < x
  BY DEF OpToRel
<1>3. \E x \in T : \A y \in T : ~(y < x)
  BY <1>1, <1>2, Zenon
<1> QED BY <1>3

\* The number of braces of either kind before a position is a natural number, and
\* is 0 only if there is none.
LEMMA Braces ==
  ASSUME NEW s, NEW i \in Nat, NEW brace
  PROVE  LET B == {j \in 1..i : s[j] = brace}
         IN  /\ Cardinality(B) \in Nat
             /\ Cardinality(B) = 0 <=> B = {}
<1> DEFINE B == {j \in 1..i : s[j] = brace}
<1>1. IsFiniteSet(1..i)
  BY FS_Interval
<1>2. IsFiniteSet(B)
  BY <1>1, FS_Subset
<1> QED BY <1>2, FS_CardinalityType, FS_EmptySet

\* brace_count is 0 if there is no brace, and 1 only if there is an opening one.
LEMMA BraceCountOf ==
  ASSUME NEW s, NEW i \in Nat
  PROVE  LET Open == {j \in 1..i : s[j] = LBRACE}
             Shut == {j \in 1..i : s[j] = RBRACE}
         IN  /\ BraceCount(s, i) \in Int
             /\ Open = {} /\ Shut = {} => BraceCount(s, i) = 0
             /\ BraceCount(s, i) = 1 => Open # {}
<1> DEFINE Open == {j \in 1..i : s[j] = LBRACE}
           Shut == {j \in 1..i : s[j] = RBRACE}
<1>1. /\ Cardinality(Open) \in Nat
      /\ Cardinality(Open) = 0 <=> Open = {}
  BY Braces
<1>2. /\ Cardinality(Shut) \in Nat
      /\ Cardinality(Shut) = 0 <=> Shut = {}
  BY Braces
<1>3. BraceCount(s, i) = Cardinality(Open) - Cardinality(Shut)
  BY DEF BraceCount
<1> HIDE DEF Open, Shut
<1>4. /\ BraceCount(s, i) \in Int
      /\ Open = {} /\ Shut = {} => BraceCount(s, i) = 0
      /\ BraceCount(s, i) = 1 => Open # {}
  BY <1>1, <1>2, <1>3
<1> QED BY <1>4 DEF Open, Shut

\* brace_count depends on the bytes up to its position only.
LEMMA BraceCountPrefix ==
  ASSUME NEW s \in Seq(Byte), NEW t \in Seq(Byte), NEW i \in 0..Len(s)
  PROVE  BraceCount(s \o t, i) = BraceCount(s, i)
<1>1. \A j \in 1..i : (s \o t)[j] = s[j]
  BY ConcatProperties
<1>2. /\ {j \in 1..i : (s \o t)[j] = LBRACE} = {j \in 1..i : s[j] = LBRACE}
      /\ {j \in 1..i : (s \o t)[j] = RBRACE} = {j \in 1..i : s[j] = RBRACE}
  BY <1>1
<1> QED BY <1>2 DEF BraceCount

\* So where the scan of the buffer ends, and how, the scan of the stream does.
LEMMA ScanPrefix ==
  ASSUME NEW s \in Seq(Byte), NEW t \in Seq(Byte), NEW i \in 1..Len(s)
  PROVE  /\ Passes(s \o t, i) <=> Passes(s, i)
         /\ EndsAt(s \o t, i) <=> EndsAt(s, i)
         /\ Found(s \o t, i) <=> Found(s, i)
         /\ Refused(s \o t, i) <=> Refused(s, i)
<1>1. /\ Len(s) \in Nat
      /\ Len(s \o t) = Len(s) + Len(t)
      /\ Len(t) \in Nat
  BY ConcatProperties, LenProperties
<1>2. \A j \in 1..Len(s) : /\ Closes(s \o t, j) <=> Closes(s, j)
                           /\ Stray(s \o t, j) <=> Stray(s, j)
  <2> SUFFICES ASSUME NEW j \in 1..Len(s)
               PROVE  /\ Closes(s \o t, j) <=> Closes(s, j)
                      /\ Stray(s \o t, j) <=> Stray(s, j)
    OBVIOUS
  <2>1. (s \o t)[j] = s[j]
    BY <1>1, ConcatProperties
  <2>2. BraceCount(s \o t, j - 1) = BraceCount(s, j - 1)
    <3>1. j - 1 \in 0..Len(s)
      BY <1>1
    <3> QED BY <3>1, BraceCountPrefix
  <2> QED BY <2>1, <2>2 DEF Closes, Stray
<1>3. \A j \in 1..Len(s) : Passes(s \o t, j) <=> Passes(s, j)
  BY <1>2 DEF Passes
<1>4. EndsAt(s \o t, i) <=> EndsAt(s, i)
  <2>1. i \in 1..Len(s \o t)
    BY <1>1
  <2>2. \A j \in 1..(i - 1) : j \in 1..Len(s)
    BY <1>1
  <2> QED BY <1>3, <2>1, <2>2 DEF EndsAt
<1> QED BY <1>2, <1>3, <1>4 DEF Found, Refused

\* ... and it hands over the same bytes.
LEMMA RequestPrefix ==
  ASSUME NEW s \in Seq(Byte), NEW t \in Seq(Byte), NEW i \in 1..Len(s),
         StartOf(Starts(s, i)) \in 1..i
  PROVE  Request(s \o t, i) = Request(s, i)
<1>1. Len(s) \in Nat
  BY LenProperties
<1>2. Starts(s \o t, i) = Starts(s, i)
  <2>1. \A b \in 1..i : (s \o t)[b] = s[b]
    BY <1>1, ConcatProperties
  <2>2. \A b \in 1..i : BraceCount(s \o t, b - 1) = BraceCount(s, b - 1)
    <3> SUFFICES ASSUME NEW b \in 1..i
                 PROVE  BraceCount(s \o t, b - 1) = BraceCount(s, b - 1)
      OBVIOUS
    <3>1. b - 1 \in 0..Len(s)
      BY <1>1
    <3> QED BY <3>1, BraceCountPrefix
  <2> QED BY <2>1, <2>2 DEF Starts
<1> DEFINE b == StartOf(Starts(s, i))
<1>3. b \in 1..Len(s) /\ i \in 1..Len(s)
  BY <1>1
<1> HIDE DEF b
<1>4. SubSeq(s \o t, b, i) = SubSeq(s, b, i)
  BY <1>3, SubSeqOfConcat1
<1> QED BY <1>2, <1>4 DEF Request, b

\* An object that is found begins somewhere: the first opening brace is not
\* preceded by a closing one, at which the scan would have ended.
LEMMA FoundStarts ==
  ASSUME NEW s \in Seq(Byte), NEW i \in 1..Len(s), Found(s, i)
  PROVE  StartOf(Starts(s, i)) \in 1..i
<1>1. Len(s) \in Nat
  BY LenProperties
<1> DEFINE Open(n) == {j \in 1..n : s[j] = LBRACE}
           Shut(n) == {j \in 1..n : s[j] = RBRACE}
<1>4. Open(i - 1) # {}
  <2>1. i - 1 \in Nat /\ BraceCount(s, i - 1) = 1
    BY <1>1 DEF Found, Closes
  <2> QED BY <2>1, BraceCountOf
<1>5. PICK b \in Open(i - 1) : \A y \in Open(i - 1) : b <= y
  <2>1. Open(i - 1) \subseteq Nat
    BY <1>1
  <2> HIDE DEF Open
  <2> QED BY <2>1, <1>4, Smallest
<1>6. b \in 1..(i - 1) /\ s[b] = LBRACE
  BY <1>5
<1>7. Open(b - 1) = {}
  <2> SUFFICES ASSUME NEW j \in Open(b - 1) PROVE FALSE
    OBVIOUS
  <2>1. j \in Open(i - 1) /\ j < b
    BY <1>1, <1>6
  <2> HIDE DEF Open
  <2> QED BY <2>1, <1>5, <1>6, <1>1
<1>8. Shut(b - 1) = {}
  <2> SUFFICES ASSUME Shut(b - 1) # {} PROVE FALSE
    OBVIOUS
  <2>1. Shut(b - 1) \subseteq Nat
    BY <1>1, <1>6
  <2>2. PICK r \in Shut(b - 1) : \A y \in Shut(b - 1) : r <= y
    <3> HIDE DEF Shut
    <3> QED BY <2>1, Smallest
  <2>3. r \in 1..(b - 1) /\ s[r] = RBRACE
    BY <2>2
  <2>4. Shut(r - 1) = {}
    <3> SUFFICES ASSUME NEW j \in Shut(r - 1) PROVE FALSE
      OBVIOUS
    <3>1. j \in Shut(b - 1) /\ j < r
      BY <1>1, <1>6, <2>3
    <3> HIDE DEF Shut
    <3> QED BY <3>1, <2>1, <2>2, <2>3
  <2>5. Open(r - 1) = {}
    BY <1>1, <1>6, <1>7, <2>3
  <2>6. BraceCount(s, r - 1) = 0
    <3>1. r - 1 \in Nat
      BY <2>3, <1>6, <1>1
    <3> QED BY <3>1, <2>4, <2>5, BraceCountOf
  <2>7. Stray(s, r)
    BY <2>3, <2>6 DEF Stray
  <2>8. Passes(s, r)
    <3>1. r \in 1..(i - 1)
      BY <2>3, <1>6, <1>1
    <3> QED BY <3>1 DEF Found, EndsAt
  <2> QED BY <2>7, <2>8 DEF Passes
<1>9. BraceCount(s, b - 1) = 0
  <2>1. b - 1 \in Nat
    BY <1>6, <1>1
  <2> QED BY <2>1, <1>7, <1>8, BraceCountOf
<1>10. b \in Starts(s, i)
  BY <1>6, <1>9, <1>1 DEF Starts
<1>11. StartOf(Starts(s, i)) \in Starts(s, i)
  BY <1>10 DEF StartOf
<1> QED BY <1>11 DEF Starts

\* The bytes of a sequence behind a position.
LEMMA TailOf ==
  ASSUME NEW s \in Seq(Byte), NEW i \in 0..Len(s)
  PROVE  /\ AfterFirst(s, i) \in Seq(Byte)
         /\ Len(AfterFirst(s, i)) = Len(s) - i
         /\ \A k \in 1..(Len(s) - i) : AfterFirst(s, i)[k] = s[k + i]
<1>1. /\ Len(s) \in Nat /\ i \in Nat /\ i <= Len(s)
      /\ i + 1 \in Int /\ Len(s) \in Int
  BY LenProperties
<1>2. \A k \in (i + 1)..Len(s) : s[k] \in Byte
  BY <1>1, ElementOfSeq
<1>3. /\ SubSeq(s, i + 1, Len(s)) \in Seq(Byte)
      /\ Len(SubSeq(s, i + 1, Len(s))) =
           IF i + 1 <= Len(s) THEN Len(s) - (i + 1) + 1 ELSE 0
      /\ \A k \in 1..(Len(s) - (i + 1) + 1) :
           SubSeq(s, i + 1, Len(s))[k] = s[i + 1 + k - 1]
  BY <1>1, <1>2, SubSeqProperties
<1>4. /\ SubSeq(s, i + 1, Len(s)) \in Seq(Byte)
      /\ Len(SubSeq(s, i + 1, Len(s))) = Len(s) - i
      /\ \A k \in 1..(Len(s) - i) : SubSeq(s, i + 1, Len(s))[k] = s[k + i]
  BY <1>1, <1>3
<1> QED BY <1>4 DEF AfterFirst

\* What follows a request in the buffer, and then the unread bytes, is what follows
\* it in the stream.
LEMMA AfterFirstPrefix ==
  ASSUME NEW s \in Seq(Byte), NEW t \in Seq(Byte), NEW i \in 1..Len(s)
  PROVE  AfterFirst(s, i) \o t = AfterFirst(s \o t, i)
<1>1. Len(s) \in Nat /\ Len(t) \in Nat /\ i \in Nat /\ i <= Len(s)
  BY LenProperties
<1> DEFINE whole == s \o t
           tail == AfterFirst(s, i)
           lhs == tail \o t
           rhs == AfterFirst(whole, i)
<1>2. /\ whole \in Seq(Byte) /\ Len(whole) = Len(s) + Len(t)
      /\ \A k \in 1..(Len(s) + Len(t)) :
           whole[k] = IF k <= Len(s) THEN s[k] ELSE t[k - Len(s)]
  BY ConcatProperties
<1> HIDE DEF whole
<1>3. /\ tail \in Seq(Byte) /\ Len(tail) = Len(s) - i
      /\ \A k \in 1..(Len(s) - i) : tail[k] = s[k + i]
  BY TailOf DEF tail
<1>4. /\ rhs \in Seq(Byte) /\ Len(rhs) = Len(whole) - i
      /\ \A k \in 1..(Len(whole) - i) : rhs[k] = whole[k + i]
  <2>1. i \in 0..Len(whole)
    BY <1>1, <1>2
  <2> QED BY <2>1, <1>2, TailOf
<1> HIDE DEF tail, rhs
<1>5. /\ lhs \in Seq(Byte) /\ Len(lhs) = Len(tail) + Len(t)
      /\ \A k \in 1..(Len(tail) + Len(t)) :
           lhs[k] = IF k <= Len(tail) THEN tail[k] ELSE t[k - Len(tail)]
  BY <1>3, ConcatProperties
<1> HIDE DEF lhs
<1>6. Len(lhs) = Len(rhs) /\ Len(lhs) \in Nat
  BY <1>1, <1>2, <1>3, <1>4, <1>5
<1>7. \A k \in 1..Len(lhs) : lhs[k] = rhs[k]
  <2> SUFFICES ASSUME NEW k \in 1..Len(lhs) PROVE lhs[k] = rhs[k]
    OBVIOUS
  <2>1. k \in Nat \ {0} /\ k <= Len(s) - i + Len(t)
    BY <1>1, <1>3, <1>5
  <2>2. rhs[k] = whole[k + i]
    BY <2>1, <1>1, <1>2, <1>4
  <2>3. CASE k <= Len(s) - i
    <3>1. lhs[k] = tail[k] /\ tail[k] = s[k + i]
      BY <2>1, <2>3, <1>1, <1>3, <1>5
    <3>2. whole[k + i] = s[k + i]
      BY <2>1, <2>3, <1>1, <1>2
    <3> QED BY <3>1, <3>2, <2>2
  <2>4. CASE ~(k <= Len(s) - i)
    <3>1. lhs[k] = t[k - (Len(s) - i)]
      BY <2>1, <2>4, <1>1, <1>3, <1>5
    <3>2. whole[k + i] = t[k + i - Len(s)]
      <4>1. k + i \in 1..(Len(s) + Len(t)) /\ ~(k + i <= Len(s))
        BY <2>1, <2>4, <1>1
      <4>2. whole[k + i] = IF k + i <= Len(s) THEN s[k + i] ELSE t[k + i - Len(s)]
        <5> DEFINE m == k + i
        <5>1. m \in 1..(Len(s) + Len(t))
          BY <4>1
        <5> HIDE DEF m
        <5>2. whole[m] = IF m <= Len(s) THEN s[m] ELSE t[m - Len(s)]
          BY <5>1, <1>2
        <5> QED BY <5>2 DEF m
      <4> QED BY <4>1, <4>2
    <3>3. k + i - Len(s) = k - (Len(s) - i)
      BY <2>1, <1>1
    <3> QED BY <3>1, <3>2, <3>3, <2>2
  <2> QED BY <2>3, <2>4
<1>8. lhs = rhs
  BY <1>4, <1>5, <1>6, <1>7, SeqEqual
<1> QED BY <1>8 DEF lhs, rhs, tail, whole

-----------------------------------------------------------------------------
(* What stands in front of it. *)

\* What one byte adds to brace_count.
Delta(b) == IF b = LBRACE THEN 1 ELSE IF b = RBRACE THEN -1 ELSE 0

Count(s, brace, i) == Cardinality({j \in 1..i : s[j] = brace})

\* The positions of one byte up to i are those up to i - 1, and i if it is there.
LEMMA CountStep ==
  ASSUME NEW s, NEW i \in Nat \ {0}, NEW brace
  PROVE  /\ Count(s, brace, i - 1) \in Nat
         /\ s[i] = brace => Count(s, brace, i) = Count(s, brace, i - 1) + 1
         /\ s[i] # brace => Count(s, brace, i) = Count(s, brace, i - 1)
<1> DEFINE B == {j \in 1..i : s[j] = brace}
           A == {j \in 1..(i - 1) : s[j] = brace}
<1>1. IsFiniteSet(A)
  <2>1. i - 1 \in Nat /\ IsFiniteSet(1..(i - 1))
    BY FS_Interval
  <2>2. A \subseteq 1..(i - 1)
    OBVIOUS
  <2> QED BY <2>1, <2>2, FS_Subset
<1>2. Cardinality(A) \in Nat
  BY <1>1, FS_CardinalityType
<1>3. i \notin A
  OBVIOUS
<1>4. s[i] = brace => B = A \cup {i}
  OBVIOUS
<1>5. s[i] # brace => B = A
  OBVIOUS
<1>6. Cardinality(A \cup {i}) = Cardinality(A) + 1
  BY <1>1, <1>3, FS_AddElement
<1>7. Count(s, brace, i) = Cardinality(B) /\ Count(s, brace, i - 1) = Cardinality(A)
  BY DEF Count
<1> HIDE DEF A, B
<1> QED BY <1>2, <1>4, <1>5, <1>6, <1>7

\* brace_count from one position to the next.
LEMMA BraceCountStep ==
  ASSUME NEW s, NEW i \in Nat \ {0}
  PROVE  BraceCount(s, i) = BraceCount(s, i - 1) + Delta(s[i])
<1>1. /\ BraceCount(s, i) = Count(s, LBRACE, i) - Count(s, RBRACE, i)
      /\ BraceCount(s, i - 1) = Count(s, LBRACE, i - 1) - Count(s, RBRACE, i - 1)
  BY DEF BraceCount, Count
<1>2. /\ Count(s, LBRACE, i - 1) \in Nat
      /\ s[i] = LBRACE => Count(s, LBRACE, i) = Count(s, LBRACE, i - 1) + 1
      /\ s[i] # LBRACE => Count(s, LBRACE, i) = Count(s, LBRACE, i - 1)
  BY CountStep
<1>3. /\ Count(s, RBRACE, i - 1) \in Nat
      /\ s[i] = RBRACE => Count(s, RBRACE, i) = Count(s, RBRACE, i - 1) + 1
      /\ s[i] # RBRACE => Count(s, RBRACE, i) = Count(s, RBRACE, i - 1)
  BY CountStep
<1>4. LBRACE # RBRACE
  BY DEF LBRACE, RBRACE
<1> QED BY <1>1, <1>2, <1>3, <1>4 DEF Delta

LEMMA BraceCountType == ASSUME NEW s, NEW i \in Nat PROVE BraceCount(s, i) \in Int
BY BraceCountOf

LEMMA CountOfNothing == ASSUME NEW s PROVE BraceCount(s, 0) = 0
<1>1. {j \in 1..0 : s[j] = LBRACE} = {} /\ {j \in 1..0 : s[j] = RBRACE} = {}
  OBVIOUS
<1>2. BraceCount(s, 0) = Cardinality({}) - Cardinality({})
  BY <1>1 DEF BraceCount
<1> QED BY <1>2, FS_EmptySet

\* White space in front of a text does not change its brace_count.
LEMMA BlankCount ==
  ASSUME NEW s, NEW off \in Nat, \A k \in 1..off : s[k] = Space
  PROVE  \A i \in 0..off : BraceCount(s, i) = 0
<1> SUFFICES ASSUME NEW i \in 0..off PROVE BraceCount(s, i) = 0
  OBVIOUS
<1>1. i \in Nat /\ \A j \in 1..i : s[j] # LBRACE /\ s[j] # RBRACE
  <2>1. Space # LBRACE /\ Space # RBRACE
    BY DEF LBRACE, RBRACE, Space
  <2> QED BY <2>1
<1>2. {j \in 1..i : s[j] = LBRACE} = {} /\ {j \in 1..i : s[j] = RBRACE} = {}
  BY <1>1
<1> QED BY <1>1, <1>2, BraceCountOf

\* The first L elements of t are those of s behind position off.
Shifted(s, t, off, L) == \A k \in 1..L : s[off + k] = t[k]

\* Nor does anything else that leaves it at 0.
LEMMA BraceCountShift ==
  ASSUME NEW s \in Seq(Byte), NEW t \in Seq(Byte), NEW off \in Nat, NEW len \in Nat,
         BraceCount(s, off) = 0, Shifted(s, t, off, len), NEW n \in 0..len
  PROVE  BraceCount(s, off + n) = BraceCount(t, n)
<1> DEFINE Bad == {j \in 0..len : BraceCount(s, off + j) # BraceCount(t, j)}
<1> SUFFICES ASSUME Bad # {} PROVE FALSE
  OBVIOUS
<1>1. Bad \subseteq Nat
  OBVIOUS
<1>2. PICK j \in Bad : \A k \in Bad : j <= k
  BY <1>1, Smallest
<1>3. j \in 0..len /\ j \in Nat /\ BraceCount(s, off + j) # BraceCount(t, j)
  OBVIOUS
<1>4. CASE j = 0
  <2>2. BraceCount(t, 0) = 0
    BY CountOfNothing
  <2>3. off + 0 = off
    OBVIOUS
  <2> QED BY <1>3, <1>4, <2>2, <2>3
<1>5. CASE j # 0
  <2>1. j - 1 \in 0..len /\ j \in 1..len /\ j \in Nat \ {0} /\ off + j \in Nat \ {0}
        /\ (off + j) - 1 = off + (j - 1)
    BY <1>3, <1>5
  <2>2. j - 1 \notin Bad
    BY <1>2, <1>3, <1>5
  <2>3. BraceCount(s, off + (j - 1)) = BraceCount(t, j - 1)
    BY <2>1, <2>2
  <2>4. /\ BraceCount(s, off + j) = BraceCount(s, (off + j) - 1) + Delta(s[off + j])
        /\ BraceCount(t, j) = BraceCount(t, j - 1) + Delta(t[j])
    BY <2>1, BraceCountStep
  <2>5. s[off + j] = t[j]
    BY <2>1 DEF Shifted
  <2> QED BY <1>3, <2>1, <2>3, <2>4, <2>5
<1> QED BY <1>4, <1>5

\* Within an object that begins with its brace the count does not fall to 0.
LEMMA InsideObject ==
  ASSUME NEW t \in Seq(Byte), Len(t) > 0, t[1] = LBRACE, Found(t, Len(t))
  PROVE  \A j \in 1..(Len(t) - 1) : BraceCount(t, j) >= 1
<1>1. Len(t) \in Nat
  BY LenProperties
<1> DEFINE Bad == {j \in 1..(Len(t) - 1) : ~(BraceCount(t, j) >= 1)}
<1> SUFFICES ASSUME Bad # {} PROVE FALSE
  OBVIOUS
<1>2. Bad \subseteq Nat
  BY <1>1
<1>3. PICK j \in Bad : \A k \in Bad : j <= k
  BY <1>2, Smallest
<1>4. j \in 1..(Len(t) - 1) /\ j \in Nat \ {0} /\ ~(BraceCount(t, j) >= 1)
  BY <1>1
<1>5. BraceCount(t, j) = BraceCount(t, j - 1) + Delta(t[j])
  BY <1>4, BraceCountStep
<1>6. CASE j = 1
  <2>2. BraceCount(t, 0) = 0
    BY CountOfNothing
  <2> QED BY <1>4, <1>5, <1>6, <2>2 DEF Delta
<1>7. CASE j # 1
  <2>1. j - 1 \in 1..(Len(t) - 1) /\ j - 1 \in Nat
    BY <1>1, <1>4, <1>7
  <2>2. j - 1 \notin Bad
    BY <1>3, <1>4
  <2>3. BraceCount(t, j - 1) >= 1
    BY <2>1, <2>2
  <2>4. BraceCount(t, j - 1) \in Int
    BY <2>1, BraceCountType
  <2>5. ~Closes(t, j)
    BY <1>4 DEF Found, EndsAt, Passes
  <2>6. t[j] = RBRACE => BraceCount(t, j - 1) # 1
    BY <2>5 DEF Closes
  <2> QED BY <1>4, <1>5, <2>3, <2>4, <2>6 DEF Delta
<1> QED BY <1>6, <1>7

\* A text that is one object is found, and handed over as it is, when it comes after
\* nothing but white space, whatever follows it.
LEMMA FoundShift ==
  ASSUME NEW s \in Seq(Byte), NEW t \in Seq(Byte), NEW off \in Nat,
         off + Len(t) <= Len(s),
         \A k \in 1..off : s[k] = Space,
         \A k \in 1..Len(t) : s[off + k] = t[k],
         Len(t) > 0, t[1] = LBRACE, Found(t, Len(t))
  PROVE  Found(s, off + Len(t)) /\ Request(s, off + Len(t)) = t
<1> DEFINE L == Len(t)
           e == off + L
<1>1. L \in Nat \ {0} /\ Len(s) \in Nat /\ e \in 1..Len(s)
  BY LenProperties
<1>2. /\ \A i \in 0..off : BraceCount(s, i) = 0
      /\ \A j \in 0..L : BraceCount(s, off + j) = BraceCount(t, j)
  <2>1. \A i \in 0..off : BraceCount(s, i) = 0
    BY BlankCount
  <2>2. BraceCount(s, off) = 0
    BY <2>1
  <2>3. L \in Nat /\ Shifted(s, t, off, L)
    BY <1>1 DEF Shifted
  <2> HIDE DEF L
  <2>4. \A j \in 0..L : BraceCount(s, off + j) = BraceCount(t, j)
    BY <2>2, <2>3, BraceCountShift
  <2> QED BY <2>1, <2>4
<1>3. \A k \in 1..L : /\ Closes(s, off + k) <=> Closes(t, k)
                      /\ Stray(s, off + k) <=> Stray(t, k)
  <2> SUFFICES ASSUME NEW k \in 1..L
               PROVE  /\ Closes(s, off + k) <=> Closes(t, k)
                      /\ Stray(s, off + k) <=> Stray(t, k)
    OBVIOUS
  <2>1. s[off + k] = t[k]
    OBVIOUS
  <2>2. k - 1 \in 0..L /\ (off + k) - 1 = off + (k - 1)
    BY <1>1
  <2>3. BraceCount(s, (off + k) - 1) = BraceCount(t, k - 1)
    BY <1>2, <2>2
  <2> QED BY <2>1, <2>3 DEF Closes, Stray
<1>4. \A k \in 1..off : Passes(s, k)
  <2>1. \A k \in 1..off : s[k] = Space
    OBVIOUS
  <2>2. Space # RBRACE /\ Space # Other
    BY DEF Space, RBRACE, Other
  <2> QED BY <2>1, <2>2 DEF Passes, Closes, Stray
<1>5. \A k \in 1..(e - 1) : Passes(s, k)
  <2> SUFFICES ASSUME NEW k \in 1..(e - 1), ~(k \in 1..off) PROVE Passes(s, k)
    BY <1>4
  <2>1. k - off \in 1..(L - 1) /\ k - off \in 1..L /\ off + (k - off) = k
    BY <1>1
  <2>2. Passes(t, k - off)
    BY <2>1 DEF Found, EndsAt
  <2>3. /\ Closes(s, k) <=> Closes(t, k - off)
        /\ Stray(s, k) <=> Stray(t, k - off)
    <3> DEFINE m == k - off
    <3>1. m \in 1..L /\ off + m = k
      BY <2>1
    <3> HIDE DEF m
    <3>2. /\ Closes(s, off + m) <=> Closes(t, m)
          /\ Stray(s, off + m) <=> Stray(t, m)
      BY <1>3, <3>1
    <3> QED BY <3>1, <3>2 DEF m
  <2> QED BY <2>2, <2>3 DEF Passes
<1>6. Found(s, e)
  <2>1. L \in 1..L /\ Closes(t, L)
    BY <1>1 DEF Found
  <2>2. Closes(s, e)
    BY <1>3, <2>1
  <2> QED BY <1>1, <1>5, <2>2 DEF Found, EndsAt, Passes
<1>7. Starts(s, e) = {off + 1}
  <2>1. off + 1 \in 1..e /\ s[off + 1] = LBRACE /\ BraceCount(s, (off + 1) - 1) = 0
    <3>1. 1 \in 1..L /\ off + 1 \in 1..e /\ (off + 1) - 1 = off /\ off \in 0..off
      BY <1>1
    <3> QED BY <3>1, <1>2
  <2>2. ASSUME NEW b \in 1..e, s[b] = LBRACE, BraceCount(s, b - 1) = 0
        PROVE  b = off + 1
    <3>1. ~(b \in 1..off)
      BY <2>2 DEF Space, LBRACE
    <3>2. CASE b = off + 1
      BY <3>2
    <3>3. CASE b # off + 1
      <4> DEFINE j == b - 1 - off
      <4>1. j \in 1..(L - 1) /\ j \in 0..L /\ b - 1 = off + j
        BY <1>1, <3>1, <3>3
      <4> HIDE DEF j
      <4>2. BraceCount(t, j) >= 1
        BY <4>1, InsideObject
      <4>3. BraceCount(s, b - 1) = BraceCount(t, j)
        BY <1>2, <4>1
      <4> QED BY <2>2, <4>2, <4>3
    <3> QED BY <3>2, <3>3
  <2> QED BY <2>1, <2>2 DEF Starts
<1>8. StartOf(Starts(s, e)) = off + 1
  BY <1>7 DEF StartOf
<1>9. SubSeq(s, off + 1, e) = t
  <2>1. off + 1 \in Int /\ e \in Int /\ \A k \in (off + 1)..e : s[k] \in Byte
    BY <1>1, ElementOfSeq
  <2>2. /\ SubSeq(s, off + 1, e) \in Seq(Byte)
        /\ Len(SubSeq(s, off + 1, e)) = IF off + 1 <= e THEN e - (off + 1) + 1 ELSE 0
        /\ \A k \in 1..(e - (off + 1) + 1) :
             SubSeq(s, off + 1, e)[k] = s[(off + 1) + k - 1]
    BY <2>1, SubSeqProperties
  <2>3. e - (off + 1) + 1 = L /\ off + 1 <= e
    BY <1>1
  <2> DEFINE sub == SubSeq(s, off + 1, e)
  <2>4. sub \in Seq(Byte) /\ Len(sub) = L
    BY <2>2, <2>3
  <2>5. \A k \in 1..L : sub[k] = t[k]
    <3> SUFFICES ASSUME NEW k \in 1..L PROVE sub[k] = t[k]
      OBVIOUS
    <3>1. sub[k] = s[(off + 1) + k - 1]
      BY <2>2, <2>3
    <3>2. (off + 1) + k - 1 = off + k
      BY <1>1
    <3>3. s[off + k] = t[k]
      OBVIOUS
    <3> QED BY <3>1, <3>2, <3>3
  <2> HIDE DEF sub
  <2>6. sub = t
    BY <2>4, <2>5, SeqEqual
  <2> QED BY <2>6 DEF sub
<1> QED BY <1>6, <1>8, <1>9 DEF Request

\* There is one place where the first object ends.
LEMMA FoundOnce ==
  ASSUME NEW s \in Seq(Byte), NEW i \in 1..Len(s), NEW j \in 1..Len(s),
         Found(s, i), Found(s, j)
  PROVE  i = j
<1>1. Len(s) \in Nat
  BY LenProperties
<1>2. ~(i < j) /\ ~(j < i)
  BY <1>1 DEF Found, EndsAt
<1> QED BY <1>1, <1>2

-----------------------------------------------------------------------------
(* The loop. *)

\* A function on 0..n that the loop over the first n bytes of s computes.
ComputedBy(s, n, f) ==
  f = [i \in 0..n |-> IF i = 0 THEN LoopStart ELSE LoopStep(s, f[i - 1], i)]

\* From the loop over n - 1 bytes to the one over n.
LEMMA LoopExtends ==
  ASSUME NEW s, NEW n \in Nat \ {0}, NEW f, ComputedBy(s, n - 1, f)
  PROVE  \E g : ComputedBy(s, n, g)
<1> DEFINE g == [i \in 0..n |-> IF i = n THEN LoopStep(s, f[n - 1], n) ELSE f[i]]
<1>1. \A i \in 0..(n - 1) :
        f[i] = IF i = 0 THEN LoopStart ELSE LoopStep(s, f[i - 1], i)
  BY DEF ComputedBy
<1>2. \A i \in 0..n : g[i] = IF i = 0 THEN LoopStart ELSE LoopStep(s, g[i - 1], i)
  <2> SUFFICES ASSUME NEW i \in 0..n
               PROVE  g[i] = IF i = 0 THEN LoopStart ELSE LoopStep(s, g[i - 1], i)
    OBVIOUS
  <2>1. CASE i = n
    <3>1. g[n - 1] = f[n - 1] /\ g[n] = LoopStep(s, f[n - 1], n)
      OBVIOUS
    <3> QED BY <2>1, <3>1
  <2>2. CASE i # n
    <3>1. i \in 0..(n - 1) /\ g[i] = f[i]
      BY <2>2
    <3>2. i # 0 => g[i - 1] = f[i - 1]
      BY <2>2
    <3> HIDE DEF g
    <3> QED BY <3>1, <3>2, <1>1
  <2> QED BY <2>1, <2>2
<1>3. g = [i \in 0..n |-> g[i]]
  OBVIOUS
<1> HIDE DEF g
<1>4. g = [i \in 0..n |-> IF i = 0 THEN LoopStart ELSE LoopStep(s, g[i - 1], i)]
  BY <1>2, <1>3, Zenon
<1> QED BY <1>4 DEF ComputedBy

\* The loop over any number of bytes computes something.
LEMMA LoopComputes ==
  ASSUME NEW s, NEW n \in Nat
  PROVE  \E f : ComputedBy(s, n, f)
<1> DEFINE T == {m \in Nat : ~\E f : ComputedBy(s, m, f)}
<1>1. SUFFICES ASSUME T # {} PROVE FALSE
  BY <1>1
<1>2. PICK m \in T : \A k \in T : m <= k
  <2>1. T \subseteq Nat
    OBVIOUS
  <2> HIDE DEF T
  <2> QED BY <2>1, <1>1, Smallest
<1>3. CASE m = 0
  <2>1. ComputedBy(s, 0, [i \in 0..0 |-> LoopStart])
    <3>1. \A i \in 0..0 : i = 0
      OBVIOUS
    <3> QED BY <3>1 DEF ComputedBy
  <2> QED BY <2>1, <1>3, <1>2
<1>4. CASE m # 0
  <2>1. m \in Nat \ {0} /\ m - 1 \in Nat /\ ~(m <= m - 1)
    BY <1>2, <1>4
  <2>2. m - 1 \notin T
    <3> HIDE DEF T
    <3> QED BY <2>1, <1>2
  <2>3. PICK f : ComputedBy(s, m - 1, f)
    BY <2>1, <2>2
  <2>4. \E g : ComputedBy(s, m, g)
    BY <2>1, <2>3, LoopExtends
  <2> QED BY <2>4, <1>2
<1> QED BY <1>3, <1>4

\* So the recursion that defines Loop has a solution, and Loop(s) is one.
LEMMA LoopDefined ==
  ASSUME NEW s \in Seq(Byte)
  PROVE  /\ Loop(s)[0] = LoopStart
         /\ \A i \in 1..Len(s) : Loop(s)[i] = LoopStep(s, Loop(s)[i - 1], i)
<1>1. Len(s) \in Nat
  BY LenProperties
<1>2. Loop(s) = CHOOSE f : ComputedBy(s, Len(s), f)
  BY DEF Loop, ComputedBy
<1>3. \E f : ComputedBy(s, Len(s), f)
  BY <1>1, LoopComputes
<1> DEFINE f == Loop(s)
<1>4. ComputedBy(s, Len(s), f)
  BY <1>2, <1>3, Zenon
<1> HIDE DEF f
<1>5. f = [i \in 0..Len(s) |-> IF i = 0 THEN LoopStart ELSE LoopStep(s, f[i - 1], i)]
  BY <1>4 DEF ComputedBy
<1>6. /\ f[0] = LoopStart
      /\ \A i \in 1..Len(s) : f[i] = LoopStep(s, f[i - 1], i)
  BY <1>1, <1>5
<1> QED BY <1>6 DEF f

\* What the loop knows of s when it has passed i, and what it keeps once it has ended
\* at j: there is one opening brace that may be the start of an object.
LoopState == [state : {"scan", "found", "throw"}, count : Nat, start : Nat, end : Nat]

Scanning(s, i, l) ==
  /\ l.state = "scan"
  /\ l.count = BraceCount(s, i)
  /\ Starts(s, i) = IF l.count = 0 THEN {} ELSE {l.start}

Ended(s, j, l) ==
  /\ l.end = j
  /\ l.state = IF Closes(s, j) THEN "found" ELSE "throw"
  /\ Closes(s, j) => Starts(s, j) = {l.start}

LoopInv(s, i, l) ==
  /\ l \in LoopState
  /\ (\A j \in 1..i : Passes(s, j)) => Scanning(s, i, l)
  /\ \A j \in 1..i : EndsAt(s, j) => Ended(s, j, l)

\* An opening brace outside all others is a start.
LEMMA StartsStep ==
  ASSUME NEW s, NEW i \in Nat \ {0}
  PROVE  Starts(s, i) = Starts(s, i - 1) \cup
           (IF s[i] = LBRACE /\ BraceCount(s, i - 1) = 0 THEN {i} ELSE {})
<1>1. 1..i = 1..(i - 1) \cup {i}
  OBVIOUS
<1> QED BY <1>1 DEF Starts

\* If the scan does not pass some position, there is one where it ends.
LEMMA SomeEnd ==
  ASSUME NEW s \in Seq(Byte), NEW i \in 0..Len(s), NEW j \in 1..i, ~Passes(s, j)
  PROVE  \E k \in 1..j : EndsAt(s, k)
<1>1. Len(s) \in Nat
  BY LenProperties
<1> DEFINE T == {k \in 1..j : ~Passes(s, k)}
<1>2. T \subseteq Nat /\ j \in T
  BY <1>1
<1>3. PICK k \in T : \A y \in T : k <= y
  <2> HIDE DEF T
  <2> QED BY <1>2, Smallest
<1>4. k \in 1..Len(s) /\ k \in 1..j /\ ~Passes(s, k)
  BY <1>1, <1>3
<1>5. \A y \in 1..(k - 1) : Passes(s, y)
  <2> SUFFICES ASSUME NEW y \in 1..(k - 1), ~Passes(s, y) PROVE FALSE
    OBVIOUS
  <2>1. y \in T /\ ~(k <= y)
    BY <1>1, <1>4
  <2> HIDE DEF T
  <2> QED BY <2>1, <1>3
<1> QED BY <1>4, <1>5 DEF EndsAt

\* One round of the loop that has not ended.
LEMMA LoopGoesOn ==
  ASSUME NEW s \in Seq(Byte), NEW i \in 1..Len(s), NEW l \in LoopState,
         \A j \in 1..(i - 1) : Passes(s, j), Scanning(s, i - 1, l)
  PROVE  LoopInv(s, i, LoopStep(s, l, i))
<1>1. i \in Nat \ {0} /\ i <= Len(s) /\ Len(s) \in Nat /\ s[i] \in Byte
  BY LenProperties, ElementOfSeq
<1>2. /\ l.state = "scan" /\ l.count \in Nat /\ l.start \in Nat /\ l.end \in Nat
      /\ l.count = BraceCount(s, i - 1)
      /\ Starts(s, i - 1) = IF l.count = 0 THEN {} ELSE {l.start}
  BY DEF Scanning, LoopState
<1>3. BraceCount(s, i) = l.count + Delta(s[i])
  BY <1>1, <1>2, BraceCountStep
<1>4. Starts(s, i) = Starts(s, i - 1) \cup
        (IF s[i] = LBRACE /\ l.count = 0 THEN {i} ELSE {})
  BY <1>1, <1>2, StartsStep
<1>5. /\ (\A j \in 1..i : Passes(s, j)) <=> Passes(s, i)
      /\ \A j \in 1..i : EndsAt(s, j) <=> j = i /\ ~Passes(s, i)
  <2>1. \A j \in 1..i : j = i \/ j \in 1..(i - 1)
    BY <1>1
  <2> QED BY <1>1, <2>1 DEF EndsAt
<1> DEFINE m == LoopStep(s, l, i)
<1>6. SUFFICES /\ m \in LoopState
               /\ Passes(s, i) => Scanning(s, i, m)
               /\ ~Passes(s, i) => Ended(s, i, m)
  BY <1>5 DEF LoopInv
<1>7. LBRACE # RBRACE /\ LBRACE # Other /\ RBRACE # Other /\ Space # LBRACE
        /\ Space # RBRACE /\ Space # Other /\ Byte = {LBRACE, RBRACE, Space, Other}
  BY DEF Byte, LBRACE, RBRACE, Space, Other
<1>8. CASE s[i] = LBRACE
  <2> DEFINE b == IF l.count = 0 THEN i ELSE l.start
  <2>1. /\ m \in LoopState /\ m.state = "scan" /\ m.count = l.count + 1
        /\ m.start = b
    <3>1. CASE l.count = 0
      <4>1. m = [l EXCEPT !.start = i, !.count = 1]
        BY <1>2, <1>7, <1>8, <3>1 DEF LoopStep
      <4> DEFINE m1 == [l EXCEPT !.start = i]
      <4>2. m1 \in LoopState /\ m1.state = "scan" /\ m1.start = i
        BY <1>1, <1>2 DEF LoopState
      <4>3. m = [m1 EXCEPT !.count = 1]
        BY <4>1, Zenon
      <4> HIDE DEF m, m1
      <4>4. m \in LoopState /\ m.state = "scan" /\ m.count = 1 /\ m.start = i
        BY <4>2, <4>3 DEF LoopState
      <4> QED BY <3>1, <4>4
    <3>2. CASE l.count # 0
      <4>1. m = [l EXCEPT !.count = l.count + 1]
        BY <1>2, <1>7, <1>8, <3>2 DEF LoopStep
      <4> HIDE DEF m
      <4> QED BY <1>2, <3>2, <4>1 DEF LoopState
    <3> QED BY <3>1, <3>2
  <2>2. Passes(s, i)
    BY <1>7, <1>8 DEF Passes, Closes, Stray
  <2>3. Delta(s[i]) = 1
    BY <1>8 DEF Delta
  <2>4. Starts(s, i) = {b}
    BY <1>2, <1>4, <1>8
  <2> HIDE DEF b, m
  <2>5. m.count = BraceCount(s, i) /\ m.count # 0
    BY <2>1, <2>3, <1>2, <1>3
  <2>6. Scanning(s, i, m)
    BY <2>1, <2>4, <2>5 DEF Scanning
  <2> QED BY <2>1, <2>2, <2>6
<1>9. CASE s[i] \in {RBRACE, Other} /\ l.count = 0
  <2>1. m = [l EXCEPT !.state = "throw", !.end = i]
    BY <1>2, <1>7, <1>9 DEF LoopStep
  <2>2. m \in LoopState /\ m.state = "throw" /\ m.end = i
    BY <2>1, <1>1, <1>2 DEF LoopState
  <2>3. ~Closes(s, i) /\ ~Passes(s, i)
    BY <1>2, <1>9 DEF Passes, Closes, Stray
  <2> HIDE DEF m
  <2> QED BY <2>2, <2>3 DEF Ended
<1>10. CASE s[i] = RBRACE /\ l.count = 1
  <2>1. m = [l EXCEPT !.state = "found", !.end = i, !.count = 0]
    BY <1>2, <1>7, <1>10 DEF LoopStep
  <2>2. m \in LoopState /\ m.state = "found" /\ m.end = i /\ m.start = l.start
    <3> DEFINE m1 == [l EXCEPT !.state = "found"]
               m2 == [m1 EXCEPT !.end = i]
    <3>1. m1 \in LoopState /\ m1.state = "found" /\ m1.start = l.start
      BY <1>2 DEF LoopState
    <3>2. m = [m2 EXCEPT !.count = 0]
      BY <2>1, Zenon
    <3> HIDE DEF m, m1
    <3>3. m2 \in LoopState /\ m2.state = "found" /\ m2.start = l.start /\ m2.end = i
      BY <3>1, <1>1 DEF LoopState
    <3> HIDE DEF m2
    <3> QED BY <3>2, <3>3 DEF LoopState
  <2>3. Closes(s, i) /\ ~Passes(s, i)
    BY <1>2, <1>10 DEF Passes, Closes
  <2>4. Starts(s, i) = {l.start}
    BY <1>2, <1>4, <1>7, <1>10
  <2> HIDE DEF m
  <2> QED BY <2>2, <2>3, <2>4 DEF Ended
<1>11. CASE s[i] = RBRACE /\ l.count > 1
  <2>1. m = [l EXCEPT !.count = l.count - 1]
    BY <1>2, <1>7, <1>11 DEF LoopStep
  <2>2. /\ m \in LoopState /\ m.state = "scan" /\ m.count = l.count - 1
        /\ m.start = l.start
    BY <2>1, <1>1, <1>2, <1>11 DEF LoopState
  <2>3. Passes(s, i)
    BY <1>2, <1>11 DEF Passes, Closes, Stray
  <2>4. Delta(s[i]) = -1
    BY <1>7, <1>11 DEF Delta
  <2>5. Starts(s, i) = {l.start}
    BY <1>2, <1>4, <1>7, <1>11
  <2>6. Scanning(s, i, m)
    <3> HIDE DEF m
    <3> QED BY <2>2, <2>4, <2>5, <1>2, <1>3, <1>11 DEF Scanning
  <2> QED BY <2>2, <2>3, <2>6
<1>12. CASE s[i] = Space \/ (s[i] = Other /\ l.count # 0)
  <2>1. m = l
    BY <1>2, <1>7, <1>12 DEF LoopStep
  <2>2. Passes(s, i)
    BY <1>2, <1>7, <1>12 DEF Passes, Closes, Stray
  <2>3. Delta(s[i]) = 0
    BY <1>7, <1>12 DEF Delta
  <2>4. Starts(s, i) = Starts(s, i - 1)
    BY <1>4, <1>7, <1>12
  <2> HIDE DEF m
  <2> QED BY <2>1, <2>2, <2>3, <2>4, <1>2, <1>3 DEF Scanning
<1> HIDE DEF m
<1>13. \/ s[i] = LBRACE
       \/ s[i] \in {RBRACE, Other} /\ l.count = 0
       \/ s[i] = RBRACE /\ l.count = 1
       \/ s[i] = RBRACE /\ l.count > 1
       \/ s[i] = Space \/ (s[i] = Other /\ l.count # 0)
  BY <1>1, <1>2, <1>7
<1> QED BY <1>8, <1>9, <1>10, <1>11, <1>12, <1>13, Zenon

\* What the loop knows and keeps, round by round.
LEMMA LoopRound ==
  ASSUME NEW s \in Seq(Byte), NEW i \in 1..Len(s), NEW l, LoopInv(s, i - 1, l)
  PROVE  LoopInv(s, i, LoopStep(s, l, i))
<1>1. i \in Nat \ {0} /\ i <= Len(s) /\ Len(s) \in Nat
  BY LenProperties
<1>2. CASE \A j \in 1..(i - 1) : Passes(s, j)
  BY <1>2, LoopGoesOn DEF LoopInv
<1>3. CASE ~\A j \in 1..(i - 1) : Passes(s, j)
  <2>1. PICK j \in 1..(i - 1) : ~Passes(s, j)
    BY <1>3
  <2>2. i - 1 \in 0..Len(s)
    BY <1>1
  <2>3. PICK k \in 1..j : EndsAt(s, k)
    BY <2>1, <2>2, SomeEnd
  <2>4. k \in 1..(i - 1) /\ ~Passes(s, k)
    BY <2>1, <2>3, <1>1 DEF EndsAt
  <2>5. l.state # "scan"
    BY <2>3, <2>4 DEF LoopInv, Ended
  <2>6. LoopStep(s, l, i) = l
    BY <2>5 DEF LoopStep
  <2>7. ~EndsAt(s, i)
    BY <2>4 DEF EndsAt
  <2>8. \A n \in 1..i : n = i \/ n \in 1..(i - 1)
    BY <1>1
  <2>9. k \in 1..i
    BY <2>4, <1>1
  <2> QED BY <2>4, <2>6, <2>7, <2>8, <2>9 DEF LoopInv
<1> QED BY <1>2, <1>3

LEMMA LoopKnows ==
  ASSUME NEW s \in Seq(Byte), NEW n \in 0..Len(s)
  PROVE  LoopInv(s, n, Loop(s)[n])
<1>1. Len(s) \in Nat
  BY LenProperties
<1> DEFINE T == {i \in 0..Len(s) : ~LoopInv(s, i, Loop(s)[i])}
<1>2. SUFFICES ASSUME T # {} PROVE FALSE
  BY <1>2
<1>3. PICK m \in T : \A y \in T : m <= y
  <2>1. T \subseteq Nat
    BY <1>1
  <2> HIDE DEF T
  <2> QED BY <2>1, <1>2, Smallest
<1>4. CASE m = 0
  <2>1. Loop(s)[0] = LoopStart
    BY LoopDefined
  <2>2. BraceCount(s, 0) = 0
    BY CountOfNothing
  <2>3. Starts(s, 0) = {}
    BY DEF Starts
  <2>4. LoopStart \in LoopState /\ LoopStart.state = "scan" /\ LoopStart.count = 0
    BY DEF LoopStart, LoopState
  <2>5. LoopInv(s, 0, LoopStart)
    BY <2>2, <2>3, <2>4 DEF LoopInv, Scanning
  <2> QED BY <2>1, <2>5, <1>3, <1>4
<1>5. CASE m # 0
  <2>1. m \in 1..Len(s) /\ m - 1 \in 0..Len(s) /\ ~(m <= m - 1)
    BY <1>1, <1>3, <1>5
  <2>2. m - 1 \notin T
    <3> HIDE DEF T
    <3> QED BY <2>1, <1>3
  <2>3. LoopInv(s, m - 1, Loop(s)[m - 1])
    BY <2>1, <2>2
  <2>4. Loop(s)[m] = LoopStep(s, Loop(s)[m - 1], m)
    BY <2>1, LoopDefined
  <2>5. LoopInv(s, m, Loop(s)[m])
    BY <2>1, <2>3, <2>4, LoopRound
  <2> QED BY <2>5, <1>3
<1> QED BY <1>4, <1>5

\* For every sequence of bytes, of any length: where the brace counts of RequestFraming
\* find an object, or a byte to refuse, the loop of cut_json_obj ends, with the same
\* verdict and the same first and last byte.
THEOREM LoopCorrect == ASSUME NEW s \in Seq(Byte) PROVE LoopAgrees(s)
<1>1. Len(s) \in Nat
  BY LenProperties
<1> DEFINE l == CutLoop(s)
<1>2. LoopInv(s, Len(s), l)
  BY <1>1, LoopKnows DEF CutLoop
<1> SUFFICES ASSUME NEW i \in 1..Len(s)
             PROVE  /\ Found(s, i) <=> l.state = "found" /\ l.end = i
                    /\ Refused(s, i) <=> l.state = "throw" /\ l.end = i
                    /\ Found(s, i) => Request(s, i) = SubSeq(s, l.start, l.end)
  BY DEF LoopAgrees
<1> HIDE DEF l
<1>3. EndsAt(s, i) => (Stray(s, i) <=> ~Closes(s, i))
  BY DEF EndsAt, Passes, Closes, Stray
<1>4. CASE EndsAt(s, i)
  <2>1. Ended(s, i, l)
    BY <1>2, <1>4 DEF LoopInv
  <2>2. Found(s, i) => StartOf(Starts(s, i)) = l.start
    BY <2>1 DEF Ended, Found, StartOf
  <2> QED BY <1>3, <1>4, <2>1, <2>2 DEF Ended, Found, Refused, Request
<1>5. CASE ~EndsAt(s, i)
  <2>1. ~Found(s, i) /\ ~Refused(s, i)
    BY <1>5 DEF Found, Refused
  <2>2. CASE \A j \in 1..Len(s) : Passes(s, j)
    BY <2>1, <2>2, <1>2 DEF LoopInv, Scanning
  <2>3. CASE ~\A j \in 1..Len(s) : Passes(s, j)
    <3>1. PICK j \in 1..Len(s) : ~Passes(s, j)
      BY <2>3
    <3>2. PICK k \in 1..j : EndsAt(s, k)
      BY <1>1, <3>1, SomeEnd
    <3>3. k \in 1..Len(s) /\ k # i
      BY <1>1, <1>5, <3>1, <3>2
    <3>4. l.end = k
      BY <1>2, <3>2, <3>3 DEF LoopInv, Ended
    <3> QED BY <2>1, <3>3, <3>4
  <2> QED BY <2>2, <2>3
<1> QED BY <1>4, <1>5
=============================================================================
