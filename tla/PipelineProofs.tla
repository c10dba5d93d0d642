----------------------------- MODULE PipelineProofs -----------------------------
(***************************************************************************)
(* For every buffer size, growth, limit and stream: the buffer has room    *)
(* for every read, and PipelineParser implements RequestStream.            *)
(***************************************************************************)
EXTENDS PipelineParser, FramingProofs

-----------------------------------------------------------------------------
(* The buffer. *)

\* The size grows in whole steps from its first value, so that the one size above
\* the limit is Limit + Growth.
SizeInv ==
  /\ size <= Limit => \E n \in Nat : size = InitialSize + n * Growth
  /\ size > Limit => size = Limit + Growth

\* What the parser knows when it is about to read: it has looked at all it has.
ReadInv ==
  status = "running" /\ pc = "read" =>
    /\ Incomplete
    /\ Room > 0
    /\ size > InitialSize => Room >= Growth

Inv == TypeOK /\ SizeInv /\ ReadInv

\* One growth from a size within the limit leads to another one, or just above it.
LEMMA GrowthStep ==
  ASSUME NEW n \in Nat, NEW sz \in Nat, sz = InitialSize + n * Growth, sz <= Limit
  PROVE  /\ sz + Growth \in InitialSize..(Limit + Growth)
         /\ sz + Growth = InitialSize + (n + 1) * Growth
         /\ sz + Growth > Limit => sz + Growth = Limit + Growth
<1>1. InitialSize \in Nat \ {0} /\ Growth \in Nat \ {0}
  BY ConstantsAssumption
<1>2. PICK m \in 0..Limit : Limit = InitialSize + m * Growth
  BY ConstantsAssumption
<1>3. Limit \in Int
  BY <1>2, sz \in Nat
<1>4. m \in Nat
  BY <1>2, <1>3
<1>5. Limit \in Nat
  BY <1>1, <1>2, <1>4
<1>6. sz + Growth = InitialSize + (n + 1) * Growth
  BY <1>1
<1>7. n * Growth \in Nat
  BY <1>1
<1>8. sz + Growth \in InitialSize..(Limit + Growth)
  BY <1>1, <1>5, <1>7
<1>9. n <= m
  <2>1. n * Growth <= m * Growth
    BY <1>1, <1>2, <1>4, <1>7
  <2> SUFFICES ASSUME n >= m + 1 PROVE FALSE
    BY <1>4
  <2>2. n * Growth >= (m + 1) * Growth
    BY <1>1, <1>4
  <2>3. (m + 1) * Growth = m * Growth + Growth
    BY <1>1, <1>4
  <2>4. m * Growth \in Nat
    BY <1>1, <1>4
  <2> QED BY <2>1, <2>2, <2>3, <2>4, <1>1, <1>7
<1>10. CASE n = m
  BY <1>1, <1>2, <1>5, <1>6, <1>8, <1>10
<1>11. CASE n + 1 <= m
  <2>1. (n + 1) * Growth <= m * Growth
    BY <1>1, <1>4, <1>11
  <2>2. sz + Growth <= Limit
    BY <2>1, <1>1, <1>2, <1>4, <1>6
  <2> QED BY <2>2, <1>1, <1>5, <1>6, <1>8
<1> QED BY <1>4, <1>9, <1>10, <1>11

\* The constants are numbers, and the limit is not below the first size.
LEMMA Sizes == /\ InitialSize \in Nat \ {0} /\ Growth \in Nat \ {0}
               /\ Limit \in Nat /\ InitialSize <= Limit
<1>1. InitialSize \in Nat \ {0} /\ Growth \in Nat \ {0}
  BY ConstantsAssumption
<1>2. PICK m \in 0..Limit : Limit = InitialSize + m * Growth
  BY ConstantsAssumption
<1>3. m \in Nat
  BY <1>2
<1>4. m * Growth \in Nat
  BY <1>1, <1>3
<1> QED BY <1>1, <1>2, <1>4

\* A stream that a client may send is a sequence of bytes.
LEMMA StreamsAreSequences == Streams \subseteq Seq(Byte)
<1> SUFFICES ASSUME NEW n \in 0..MaxStream, NEW u \in [1..n -> Byte]
             PROVE  u \in Seq(Byte)
  BY DEF Streams
<1>1. n \in Nat
  BY ConstantsAssumption
<1> QED BY <1>1, SeqDef

\* Cutting a sequence in two: the parts, and how long they are.
LEMMA Cut ==
  ASSUME NEW S, NEW s \in Seq(S), NEW n \in 0..Len(s)
  PROVE  /\ SubSeq(s, 1, n) \in Seq(S)
         /\ SubSeq(s, n + 1, Len(s)) \in Seq(S)
         /\ Len(SubSeq(s, 1, n)) = n
         /\ Len(SubSeq(s, n + 1, Len(s))) = Len(s) - n
         /\ SubSeq(s, 1, n) \o SubSeq(s, n + 1, Len(s)) = s
<1>1. Len(s) \in Nat /\ \A k \in 1..Len(s) : s[k] \in S
  BY LenProperties, ElementOfSeq
<1>2. n \in Nat /\ n <= Len(s)
  BY <1>1
<1>3. SubSeq(s, 1, n) \in Seq(S) /\ Len(SubSeq(s, 1, n)) = n
  <2>1. \A k \in 1..n : s[k] \in S
    BY <1>1, <1>2
  <2>2. /\ SubSeq(s, 1, n) \in Seq(S)
        /\ Len(SubSeq(s, 1, n)) = IF 1 <= n THEN n - 1 + 1 ELSE 0
    BY <2>1, <1>2, SubSeqProperties
  <2> QED BY <2>2, <1>2
<1>4. /\ SubSeq(s, n + 1, Len(s)) \in Seq(S)
      /\ Len(SubSeq(s, n + 1, Len(s))) = Len(s) - n
  <2>1. \A k \in (n + 1)..Len(s) : s[k] \in S
    BY <1>1, <1>2
  <2>2. n + 1 \in Int /\ Len(s) \in Int
    BY <1>1, <1>2
  <2>3. /\ SubSeq(s, n + 1, Len(s)) \in Seq(S)
        /\ Len(SubSeq(s, n + 1, Len(s))) =
             IF n + 1 <= Len(s) THEN Len(s) - (n + 1) + 1 ELSE 0
    BY <2>1, <2>2, SubSeqProperties
  <2> QED BY <2>3, <1>1, <1>2
<1>5. SubSeq(s, 1, n) \o SubSeq(s, n + 1, Len(s)) = s
  <2>1. SubSeq(s, 1, n) \o SubSeq(s, n + 1, Len(s)) = SubSeq(s, 1, Len(s))
    <3>1. 1 \in 1..(Len(s) + 1) /\ n \in (1 - 1)..Len(s) /\ Len(s) \in n..Len(s)
      BY <1>1, <1>2
    <3> QED BY <3>1, ConcatAdjacentSubSeq
  <2> QED BY <2>1, SubSeqFull
<1> QED BY <1>3, <1>4, <1>5

-----------------------------------------------------------------------------
(* The invariant. *)

\* The parser starts with an empty buffer and room for a first read.
LEMMA InitInv == Init => Inv
<1> SUFFICES ASSUME Init PROVE Inv
  OBVIOUS
<1> USE DEF Init
<1>1. TypeOK
  <2>1. buf \in Seq(Byte) /\ requests \in Seq(Seq(Byte)) /\ Len(buf) = 0
    BY EmptySeq
  <2>2. unread \in Seq(Byte)
    BY StreamsAreSequences
  <2> QED BY <2>1, <2>2, Sizes DEF TypeOK
<1>2. SizeInv
  <2>1. size = InitialSize + 0 * Growth
    BY Sizes
  <2> QED BY <2>1, Sizes DEF SizeInv
<1>3. ReadInv
  <2>1. Len(buf) = 0
    BY EmptySeq
  <2> QED BY <2>1, Sizes DEF ReadInv, Incomplete, Room
<1> QED BY <1>1, <1>2, <1>3 DEF Inv

\* Taking n bytes that fit: the buffer and what is unread keep their types, and
\* together they stay the same stream.
LEMMA ReadStep ==
  ASSUME Inv, NEW n \in 1..Len(unread), Read(n)
  PROVE  Inv' /\ buf' \o unread' = buf \o unread
<1>1. unread \in Seq(Byte) /\ buf \in Seq(Byte) /\ size \in Nat /\ Len(buf) \in Nat
  BY Sizes, LenProperties DEF Inv, TypeOK
<1> DEFINE read == SubSeq(unread, 1, n)
           left == SubSeq(unread, n + 1, Len(unread))
<1>2. n \in 0..Len(unread)
  BY <1>1, LenProperties
<1>3. /\ read \in Seq(Byte) /\ left \in Seq(Byte) /\ Len(read) = n
      /\ read \o left = unread
  BY <1>1, <1>2, Cut
<1>4. buf' = buf \o read /\ unread' = left
  BY DEF Read
<1> HIDE DEF read, left
<1>5. buf \o read \in Seq(Byte) /\ Len(buf \o read) = Len(buf) + n
  BY <1>1, <1>3, ConcatProperties
<1>6. n \in Nat /\ Len(buf) + n <= size
  BY <1>1, <1>2, LenProperties DEF Read, Room
<1>7. TypeOK'
  BY <1>3, <1>4, <1>5, <1>6 DEF Inv, TypeOK, Read
<1>8. SizeInv'
  BY DEF Inv, SizeInv, Read
<1>9. ReadInv'
  BY DEF ReadInv, Read
<1>10. buf' \o unread' = buf \o unread
  <2>1. (buf \o read) \o left = buf \o (read \o left)
    <3>1. buf \in Seq(Byte) /\ read \in Seq(Byte) /\ left \in Seq(Byte)
      BY <1>1, <1>3
    <3> QED BY <3>1, ConcatAssociative
  <2> QED BY <2>1, <1>3, <1>4
<1> QED BY <1>7, <1>8, <1>9, <1>10 DEF Inv

\* A request that is handed over is a sequence of bytes, and what follows it stays.
LEMMA HandOverStep ==
  ASSUME Inv, NEW i \in 1..Len(buf), HandOver(i)
  PROVE  /\ Inv'
         /\ Request(buf \o unread, i) = Request(buf, i)
         /\ buf' \o unread' = AfterFirst(buf \o unread, i)
<1>1. unread \in Seq(Byte) /\ buf \in Seq(Byte) /\ size \in Nat /\ Len(buf) <= size
  BY Sizes DEF Inv, TypeOK
<1>2. Len(buf) \in Nat /\ Len(unread) \in Nat /\ i \in 0..Len(buf)
  BY <1>1, LenProperties
<1>3. StartOf(Starts(buf, i)) \in 1..i
  BY <1>1, FoundStarts DEF HandOver
<1>4. Request(buf, i) \in Seq(Byte)
  <2> DEFINE b == StartOf(Starts(buf, i))
  <2>1. b \in 1..i
    BY <1>3
  <2> HIDE DEF b
  <2>2. b \in Int /\ i \in Int /\ \A k \in b..i : buf[k] \in Byte
    BY <1>1, <1>2, <2>1, ElementOfSeq
  <2>3. SubSeq(buf, b, i) \in Seq(Byte)
    BY <2>2, SubSeqProperties
  <2> QED BY <2>3 DEF Request, b
<1>5. /\ AfterFirst(buf, i) \in Seq(Byte)
      /\ Len(AfterFirst(buf, i)) = Len(buf) - i
  BY <1>1, <1>2, Cut DEF AfterFirst
<1>6. TypeOK'
  <2>1. Append(requests, Request(buf, i)) \in Seq(Seq(Byte))
    BY <1>4, AppendProperties DEF Inv, TypeOK
  <2>2. Len(buf') <= size
    BY <1>1, <1>2, <1>5 DEF HandOver
  <2> QED BY <1>5, <2>1, <2>2 DEF HandOver, Inv, TypeOK
<1>7. SizeInv' /\ ReadInv'
  BY DEF Inv, SizeInv, ReadInv, HandOver
<1>8. Request(buf \o unread, i) = Request(buf, i)
  BY <1>1, <1>3, RequestPrefix
<1>9. AfterFirst(buf, i) \o unread = AfterFirst(buf \o unread, i)
  BY <1>1, AfterFirstPrefix
<1> QED BY <1>6, <1>7, <1>8, <1>9 DEF Inv, HandOver

\* The other steps leave the stream and what is in the buffer alone.
LEMMA OtherSteps ==
  ASSUME Inv,
         \/ ReadNothing \/ ReadFails \/ Killed \/ ReadMore \/ TooLarge
         \/ \E i \in 1..Len(buf) : Throw(i)
         \/ UNCHANGED vars
  PROVE  Inv'
<1>1. buf \in Seq(Byte) /\ size \in Nat /\ Len(buf) \in Nat /\ Len(buf) <= size
  BY Sizes, LenProperties DEF Inv, TypeOK
<1>2. CASE ReadMore
  <2>1. buf' = buf /\ unread' = unread /\ requests' = requests /\ status' = status
    BY <1>2 DEF ReadMore
  <2>2. CASE Room < Growth
    <3>1. size <= Limit /\ size' = size + Growth /\ pc' = "read"
      BY <1>2, <2>2 DEF ReadMore
    <3>2. PICK n \in Nat : size = InitialSize + n * Growth
      BY <3>1 DEF Inv, SizeInv
    <3>3. /\ size' \in InitialSize..(Limit + Growth)
          /\ size' = InitialSize + (n + 1) * Growth
          /\ size' > Limit => size' = Limit + Growth
      BY <1>1, <3>1, <3>2, GrowthStep
    <3>4. n + 1 \in Nat
      BY <3>2
    <3>5. SizeInv'
      BY <3>3, <3>4 DEF SizeInv
    <3>6. Room' >= Growth /\ Room' > 0 /\ Len(buf') <= size'
      BY <1>1, <2>1, <3>1, Sizes DEF Room
    <3>7. Incomplete'
      BY <1>2, <2>1 DEF ReadMore, Incomplete
    <3> QED BY <2>1, <3>1, <3>3, <3>5, <3>6, <3>7 DEF Inv, TypeOK, ReadInv
  <2>3. CASE ~(Room < Growth)
    <3>1. size' = size /\ pc' = "read"
      BY <1>2, <2>3 DEF ReadMore
    <3>2. Room' >= Growth /\ Room' > 0
      BY <1>1, <2>1, <2>3, <3>1, Sizes DEF Room
    <3>3. Incomplete'
      BY <1>2, <2>1 DEF ReadMore, Incomplete
    <3> QED BY <2>1, <3>1, <3>2, <3>3 DEF Inv, TypeOK, SizeInv, ReadInv
  <2> QED BY <2>2, <2>3
<1>3. CASE ReadNothing \/ ReadFails \/ Killed \/ TooLarge \/ \E i \in 1..Len(buf) : Throw(i)
  <2>1. /\ UNCHANGED <<unread, buf, size, pc, requests>>
        /\ status' \in {"finished", "broken", "refused"}
    BY <1>3 DEF ReadNothing, ReadFails, Killed, TooLarge, Throw
  <2> QED BY <2>1 DEF Inv, TypeOK, SizeInv, ReadInv
<1>4. CASE UNCHANGED vars
  BY <1>4 DEF vars, Inv, TypeOK, SizeInv, ReadInv, Incomplete, Room
<1> QED BY <1>2, <1>3, <1>4

\* Every step keeps the invariant.
LEMMA NextInv == Inv /\ [Next]_vars => Inv'
<1> SUFFICES ASSUME Inv, [Next]_vars PROVE Inv'
  OBVIOUS
<1>1. CASE \E n \in 1..Len(unread) : Read(n)
  BY <1>1, ReadStep
<1>2. CASE \E i \in 1..Len(buf) : HandOver(i)
  BY <1>2, HandOverStep
<1>3. CASE \/ ReadNothing \/ ReadFails \/ Killed \/ ReadMore \/ TooLarge
           \/ \E i \in 1..Len(buf) : Throw(i)
           \/ UNCHANGED vars
  BY <1>3, OtherSteps
<1> QED BY <1>1, <1>2, <1>3 DEF Next, Progress

\* The parts of the invariant hold in every state of run().
LEMMA Invariant == Spec => []Inv
BY InitInv, NextInv, PTL DEF Spec

\* Every variable of the parser keeps its type, the bytes read fit into the
\* buffer, and its size never exceeds the limit by more than one growth.
THEOREM TypeCorrect == Spec => []TypeOK
<1>1. Inv => TypeOK
  BY DEF Inv
<1> QED BY <1>1, Invariant, PTL

\* read() is never asked for 0 bytes, whatever the sizes and the stream: the end
\* of the stream that run() sees is the client's.
THEOREM RoomCorrect == Spec => []RoomToRead
<1>1. Inv => RoomToRead
  BY DEF Inv, ReadInv, RoomToRead
<1> QED BY <1>1, Invariant, PTL

\* On every buffer that the parser meets, of any size and after any reads, the loop of
\* cut_json_obj finds the object, or the byte to refuse, that the brace counts name.
THEOREM CutCorrect == Spec => []CutAgrees
<1>1. TypeOK => CutAgrees
  BY LoopCorrect DEF TypeOK, CutAgrees
<1> QED BY <1>1, TypeCorrect, PTL

-----------------------------------------------------------------------------
(* The refinement. *)

\* The abstract specification cuts its stream with the same operators.
LEMMA SameFraming ==
  ASSUME NEW s, NEW i
  PROVE  /\ Stream!EndsAt(s, i) <=> EndsAt(s, i)
         /\ Stream!Found(s, i) <=> Found(s, i)
         /\ Stream!Refused(s, i) <=> Refused(s, i)
         /\ Stream!Request(s, i) = Request(s, i)
         /\ Stream!AfterFirst(s, i) = AfterFirst(s, i)
<1> USE DEF Stream!LBRACE, LBRACE, Stream!RBRACE, RBRACE, Stream!Other, Other
<1>1. \A j : Stream!BraceCount(s, j) = BraceCount(s, j)
  BY DEF Stream!BraceCount, BraceCount, Stream!Cardinality, Cardinality
<1>2. \A j : /\ Stream!Closes(s, j) <=> Closes(s, j)
             /\ Stream!Stray(s, j) <=> Stray(s, j)
  BY <1>1 DEF Stream!Closes, Closes, Stream!Stray, Stray
<1>3. \A j : Stream!Passes(s, j) <=> Passes(s, j)
  BY <1>2 DEF Stream!Passes, Passes
<1>4. \A j : Stream!EndsAt(s, j) <=> EndsAt(s, j)
  BY <1>3 DEF Stream!EndsAt, EndsAt
<1>5. /\ Stream!Found(s, i) <=> Found(s, i)
      /\ Stream!Refused(s, i) <=> Refused(s, i)
  BY <1>2, <1>4 DEF Stream!Found, Found, Stream!Refused, Refused
<1>6. Stream!Request(s, i) = Request(s, i)
  <2>1. Stream!Starts(s, i) = Starts(s, i)
    BY <1>1 DEF Stream!Starts, Starts
  <2>2. \A S : Stream!StartOf(S) = StartOf(S)
    BY DEF Stream!StartOf, StartOf
  <2> QED BY <2>1, <2>2 DEF Stream!Request, Request
<1>7. Stream!AfterFirst(s, i) = AfterFirst(s, i)
  BY DEF Stream!AfterFirst, AfterFirst
<1> QED BY <1>4, <1>5, <1>6, <1>7

\* A parser at its start is a stream of which nothing has been used.
LEMMA InitRefines == Init => Stream!Init
<1> SUFFICES ASSUME Init PROVE Stream!Init
  OBVIOUS
<1>1. unread \in Seq(Byte) /\ buf = <<>>
  BY StreamsAreSequences DEF Init
<1>2. buf \o unread = unread
  BY <1>1, ConcatEmptySeq
<1>3. Stream!Byte = Byte
  BY DEF Stream!Byte, Byte, Stream!LBRACE, LBRACE, Stream!RBRACE, RBRACE,
         Stream!Other, Other, Stream!Space, Space
<1> QED BY <1>1, <1>2, <1>3 DEF Init, Stream!Init

\* Every step of the parser is a step of RequestStream or leaves the stream alone.
LEMMA StepRefines == Inv /\ [Next]_vars => [Stream!Next]_(Stream!vars)
<1> SUFFICES ASSUME Inv, [Next]_vars PROVE [Stream!Next]_(Stream!vars)
  OBVIOUS
<1> DEFINE rest == buf \o unread
<1>1. /\ unread \in Seq(Byte) /\ buf \in Seq(Byte) /\ size \in Nat
      /\ Len(buf) \in Nat /\ Len(unread) \in Nat
      /\ Len(buf) <= size
      /\ Len(rest) = Len(buf) + Len(unread)
  BY Sizes, LenProperties, ConcatProperties DEF Inv, TypeOK
<1>2. \A i \in 1..Len(buf) : /\ (EndsAt(rest, i) <=> EndsAt(buf, i))
                              /\ (Found(rest, i) <=> Found(buf, i))
                              /\ (Refused(rest, i) <=> Refused(buf, i))
  BY <1>1, ScanPrefix
<1>3. \A i \in 1..Len(buf) : i \in 1..Len(rest)
  BY <1>1
<1> HIDE DEF rest
<1>4. ASSUME NEW n \in 1..Len(unread), Read(n)
      PROVE  UNCHANGED Stream!vars
  <2>1. (buf \o unread)' = buf \o unread
    BY <1>4, ReadStep
  <2> QED BY <2>1, <1>4 DEF Read, Stream!vars
<1>5. ASSUME NEW i \in 1..Len(buf), HandOver(i)
      PROVE  Stream!HandOver
  <2>1. /\ Request(rest, i) = Request(buf, i)
        /\ (buf \o unread)' = AfterFirst(rest, i)
    BY <1>5, HandOverStep DEF rest
  <2>2. Found(rest, i) /\ i \in 1..Len(rest)
    BY <1>2, <1>3, <1>5 DEF HandOver
  <2>3. /\ Stream!Found(rest, i)
        /\ Stream!Request(rest, i) = Request(buf, i)
        /\ Stream!AfterFirst(rest, i) = AfterFirst(rest, i)
    BY <2>1, <2>2, SameFraming
  <2> QED BY <1>5, <2>1, <2>2, <2>3 DEF HandOver, Stream!HandOver, rest
<1>6. ASSUME NEW i \in 1..Len(buf), Throw(i)
      PROVE  Stream!Refuse
  <2>1. Stream!Refused(rest, i) /\ i \in 1..Len(rest)
    BY <1>2, <1>3, <1>6, SameFraming DEF Throw
  <2> QED BY <1>6, <2>1 DEF Throw, Stream!Refuse, rest
<1>7. CASE TooLarge
  <2>1. Len(buf) > Limit
    <3>1. size = Limit + Growth /\ Room < Growth
      BY <1>7 DEF TooLarge, Inv, SizeInv
    <3> QED BY <3>1, <1>1, Sizes DEF Room
  <2>2. Len(rest) > Limit
    BY <2>1, <1>1, Sizes DEF rest
  <2>3. \A i \in 1..Limit : ~Stream!EndsAt(rest, i)
    <3> SUFFICES ASSUME NEW i \in 1..Limit PROVE ~Stream!EndsAt(rest, i)
      OBVIOUS
    <3>1. i \in 1..Len(buf)
      BY <2>1, <1>1, Sizes
    <3> QED BY <3>1, <1>2, <1>7, SameFraming DEF TooLarge, Incomplete
  <2> QED BY <1>7, <2>2, <2>3 DEF TooLarge, Stream!Next, Stream!Refuse, rest
<1>8. CASE ReadNothing
  <2>1. Incomplete /\ Room > 0
    BY <1>8 DEF ReadNothing, Inv, ReadInv
  <2>2. unread = <<>>
    BY <1>8, <2>1, <1>1 DEF ReadNothing, Room
  <2>3. rest = buf
    BY <1>1, <2>2, ConcatEmptySeq DEF rest
  <2>4. \A i \in 1..Len(rest) : ~Stream!EndsAt(rest, i)
    BY <2>1, <2>3, SameFraming DEF Incomplete
  <2> QED BY <1>8, <2>4 DEF ReadNothing, Stream!Next, Stream!Finish, rest
<1>9. CASE ReadFails \/ Killed
  BY <1>9 DEF ReadFails, Killed, Stream!Next, Stream!Break
<1>10. CASE ReadMore \/ UNCHANGED vars
  BY <1>10 DEF ReadMore, vars, Stream!vars
<1> QED BY <1>4, <1>5, <1>6, <1>7, <1>8, <1>9, <1>10
        DEF Next, Progress, Stream!Next

\* pipeline_parser::run implements RequestStream: however the client's bytes are cut
\* into reads, the same requests are handed over, whole and in order, and run()
\* ends for the reasons given there only.
THEOREM StreamImplemented == Spec => StreamSpec
BY InitRefines, StepRefines, Invariant, PTL DEF Spec, StreamSpec, Stream!Spec
=============================================================================
