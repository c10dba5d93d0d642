----------------------------- MODULE SessionProofs -----------------------------
(***************************************************************************)
(* For every buffer size, growth, limit and stream, and any number of      *)
(* messages: a session runs pipeline_parser as PipelineParser has it, and  *)
(* a callback gets the reply to its own message.                           *)
(***************************************************************************)
EXTENDS Session, PipelineProofs

-----------------------------------------------------------------------------
(* Lines and messages. *)

\* A sequence all of whose elements are in a set is a sequence of that set.
LEMMA Narrow ==
  ASSUME NEW S, NEW T, NEW s \in Seq(S), \A i \in 1..Len(s) : s[i] \in T
  PROVE  s \in Seq(T)
<1>1. Len(s) \in Nat /\ s \in [1..Len(s) -> S]
  BY LenProperties
<1>2. s \in [1..Len(s) -> T]
  BY <1>1
<1> QED BY <1>1, <1>2, SeqDef

\* Lines end at white space, one behind the other.
LEMMA LinesOf ==
  ASSUME stream \in Seq(Byte), ends \in Lines(stream)
  PROVE  /\ ends \in Seq(1..Len(stream))
         /\ Len(stream) \in Nat /\ Len(ends) \in Nat
         /\ \A m \in 1..Len(ends) : ends[m] \in 1..Len(stream) /\ stream[ends[m]] = Space
         /\ \A m, n \in 1..Len(ends) : m < n => ends[m] < ends[n]
<1>1. Len(stream) \in Nat
  BY LenProperties
<1>2. PICK n \in 0..MaxMessages : ends \in [1..n -> 1..Len(stream)]
  BY DEF Lines
<1>3. n \in Nat
  BY SessionAssumption
<1>4. ends \in Seq(1..Len(stream))
  BY <1>2, <1>3, SeqDef
<1>5. /\ Len(ends) \in Nat /\ DOMAIN ends = 1..Len(ends)
      /\ \A m \in 1..Len(ends) : ends[m] \in 1..Len(stream)
  BY <1>4, LenProperties, ElementOfSeq
<1>6. /\ \A m \in DOMAIN ends : stream[ends[m]] = Space
      /\ \A m, k \in DOMAIN ends : m < k => ends[m] < ends[k]
  BY DEF Lines
<1> QED BY <1>1, <1>4, <1>5, <1>6

\* A message is what is between two ends of lines.
LEMMA MessageOf ==
  ASSUME stream \in Seq(Byte), ends \in Lines(stream), NEW m \in 1..Len(ends)
  PROVE  /\ StartOfLine(m) \in Nat /\ ends[m] \in Nat
         /\ Message(m) \in Seq(Byte)
         /\ Len(Message(m)) = ends[m] - 1 - StartOfLine(m)
         /\ \A k \in 1..Len(Message(m)) : Message(m)[k] = stream[StartOfLine(m) + k]
<1>1. /\ Len(stream) \in Nat /\ Len(ends) \in Nat
      /\ ends[m] \in 1..Len(stream)
  BY LinesOf
<1> DEFINE a == StartOfLine(m)
           z == ends[m] - 1
<1>2. a \in Nat /\ a <= z /\ z \in Nat
  <2>1. CASE m = 1
    BY <1>1, <2>1 DEF StartOfLine
  <2>2. CASE m # 1
    <3>1. m - 1 \in 1..Len(ends) /\ m - 1 < m
      BY <1>1, <2>2
    <3>2. ends[m - 1] \in 1..Len(stream)
      BY <3>1, LinesOf
    <3>3. ends[m - 1] < ends[m]
      BY <3>1, LinesOf
    <3> QED BY <1>1, <2>2, <3>2, <3>3 DEF StartOfLine
  <2> QED BY <2>1, <2>2
<1>3. z <= Len(stream) /\ ends[m] \in Nat
  BY <1>1
<1>4. Message(m) = SubSeq(stream, a + 1, z)
  BY DEF Message
<1> HIDE DEF a, z
<1>5. a + 1 \in Int /\ z \in Int /\ \A k \in (a + 1)..z : stream[k] \in Byte
  BY <1>1, <1>2, <1>3, ElementOfSeq
<1>6. /\ SubSeq(stream, a + 1, z) \in Seq(Byte)
      /\ Len(SubSeq(stream, a + 1, z)) = IF a + 1 <= z THEN z - (a + 1) + 1 ELSE 0
      /\ \A k \in 1..(z - (a + 1) + 1) : SubSeq(stream, a + 1, z)[k] = stream[(a + 1) + k - 1]
  BY <1>5, SubSeqProperties
<1>7. /\ Message(m) \in Seq(Byte)
      /\ Len(Message(m)) = z - a
  BY <1>2, <1>4, <1>6
<1>8. \A k \in 1..(z - a) : Message(m)[k] = stream[a + k]
  <2> SUFFICES ASSUME NEW k \in 1..(z - a) PROVE Message(m)[k] = stream[a + k]
    OBVIOUS
  <2>1. k \in 1..(z - (a + 1) + 1) /\ (a + 1) + k - 1 = a + k
    BY <1>2
  <2>2. SubSeq(stream, a + 1, z)[k] = stream[(a + 1) + k - 1]
    BY <1>6, <2>1
  <2> QED BY <1>4, <2>1, <2>2
<1>9. Len(Message(m)) = ends[m] - 1 - StartOfLine(m)
  BY <1>7 DEF a, z
<1>10. StartOfLine(m) \in Nat
  BY <1>2 DEF a
<1>11. \A k \in 1..Len(Message(m)) : Message(m)[k] = stream[StartOfLine(m) + k]
  BY <1>7, <1>8 DEF a
<1> QED BY <1>3, <1>7, <1>9, <1>10, <1>11

\* Of two lines the later does not start before the other.
LEMMA StartsMonotonic ==
  ASSUME stream \in Seq(Byte), ends \in Lines(stream),
         NEW m \in 1..(Len(ends) + 1), NEW n \in 1..(Len(ends) + 1), m <= n
  PROVE  StartOfLine(m) <= StartOfLine(n) /\ StartOfLine(m) \in Nat
<1>1. /\ Len(ends) \in Nat /\ Len(stream) \in Nat
      /\ \A k \in 1..Len(ends) : ends[k] \in 1..Len(stream)
      /\ \A k, l \in 1..Len(ends) : k < l => ends[k] < ends[l]
  BY LinesOf
<1>2. CASE m = 1 /\ n = 1
  BY <1>2 DEF StartOfLine
<1>3. CASE m = 1 /\ n # 1
  <2>1. n - 1 \in 1..Len(ends)
    BY <1>1, <1>3
  <2>2. ends[n - 1] \in 1..Len(stream)
    BY <1>1, <2>1
  <2> QED BY <1>1, <1>3, <2>2 DEF StartOfLine
<1>4. CASE m # 1
  <2>1. m - 1 \in 1..Len(ends) /\ n - 1 \in 1..Len(ends) /\ n # 1
    BY <1>1, <1>4
  <2>2. ends[m - 1] \in 1..Len(stream) /\ ends[n - 1] \in 1..Len(stream)
    BY <1>1, <2>1
  <2>3. ends[m - 1] <= ends[n - 1]
    <3>1. CASE m = n
      BY <2>2, <3>1, <1>1
    <3>2. CASE m # n
      <4>1. m - 1 < n - 1
        BY <3>2, <1>1
      <4>2. ends[m - 1] < ends[n - 1]
        BY <1>1, <2>1, <4>1
      <4> QED BY <4>2, <2>2, <1>1
    <3> QED BY <3>1, <3>2
  <2> QED BY <1>1, <1>4, <2>1, <2>2, <2>3 DEF StartOfLine
<1> QED BY <1>2, <1>3, <1>4

-----------------------------------------------------------------------------
(* The invariant. *)

\* The bytes of the stream that requests have used, and those left.
Rest == buf \o unread
Used == Len(stream) - Len(Rest)

StreamPart ==
  /\ Inv
  /\ stream \in Seq(Byte) /\ ends \in Lines(stream)
  /\ Used \in 0..Len(stream)
  /\ Rest = AfterFirst(stream, Used)
  /\ connection \in {"open", "closed"}
  /\ sent \in 0..Len(ends)
  /\ BytesRead <= BytesSent

\* The queue holds the callbacks that have not been called, in order.
QueuePart ==
  /\ queue \in Seq(Nat)
  /\ answered \in Seq([callback : Nat, reply : Nat])
  /\ Len(queue) + Len(answered) = sent
  /\ \A i \in 1..Len(queue) : queue[i] = Len(answered) + i
  /\ \A k \in 1..Len(answered) : answered[k].callback = k

\* The wire holds the latest replies, in order.
Delivered == Len(requests) - Len(wire)
WirePart ==
  /\ wire \in Seq(Nat)
  /\ Len(wire) <= Len(requests)
  /\ \A i \in 1..Len(wire) : wire[i] = Delivered + i
  /\ \A k \in 1..Len(answered) : answered[k].reply \in 1..Delivered

\* Where the parser goes on after r requests that were one message each.
Resume(r) == IF r = 0 THEN 0 ELSE ends[r] - 1
ResumesAfter(r) == Used = Resume(r)

\* As long as messages are single objects, the requests are the messages, the parser
\* goes on behind the last of them, and callbacks and replies have the same numbers.
Aligned(m) ==
  /\ Len(requests) >= m => m <= sent /\ requests[m] = Message(m)
  /\ Len(requests) < m => ResumesAfter(Len(requests))
  /\ Delivered < m => Len(answered) = Delivered
  /\ Delivered >= m => Len(answered) >= m
  /\ m <= Len(answered) => answered[m].reply = m
AlignedPart == \A m \in 1..Len(ends) : InStep(m) => Aligned(m)

SessionInv == StreamPart /\ QueuePart /\ WirePart /\ AlignedPart

LEMMA SessionInitInv == SessionInit => SessionInv
<1> SUFFICES ASSUME SessionInit PROVE SessionInv
  OBVIOUS
<1>1. Init /\ Inv
  BY InitInv DEF SessionInit
<1>2. /\ buf = <<>> /\ requests = <<>> /\ unread \in Seq(Byte) /\ stream = unread
      /\ ends \in Lines(stream)
      /\ connection = "open" /\ sent = 0 /\ queue = <<>> /\ wire = <<>> /\ answered = <<>>
  BY StreamsAreSequences DEF SessionInit, Init
<1>3. Len(<<>>) = 0
  BY EmptySeq
<1>4. Rest = stream
  BY <1>2, ConcatEmptySeq DEF Rest
<1>5. Len(stream) \in Nat /\ Len(ends) \in Nat
  BY <1>2, LinesOf
<1>6. Used = 0
  BY <1>4, <1>5 DEF Used
<1>7. AfterFirst(stream, 0) = stream
  BY <1>2, <1>5, SubSeqFull DEF AfterFirst
<1>8. BytesRead = 0 /\ BytesSent = 0
  BY <1>2, <1>5 DEF BytesRead, BytesSent, StartOfLine
<1>9. StreamPart
  BY <1>1, <1>2, <1>4, <1>5, <1>6, <1>7, <1>8 DEF StreamPart
<1>10. QueuePart
  <2>1. queue \in Seq(Nat) /\ answered \in Seq([callback : Nat, reply : Nat])
    BY <1>2, EmptySeq
  <2> QED BY <2>1, <1>2, <1>3 DEF QueuePart
<1>11. WirePart
  <2>1. wire \in Seq(Nat)
    BY <1>2, EmptySeq
  <2> QED BY <2>1, <1>2, <1>3 DEF WirePart
<1>12. AlignedPart
  BY <1>2, <1>3, <1>6 DEF AlignedPart, Aligned, Delivered, ResumesAfter, Resume
<1> QED BY <1>9, <1>10, <1>11, <1>12 DEF SessionInv

\* What follows the used bytes, cut once more.
LEMMA CutTwice ==
  ASSUME NEW s \in Seq(Byte), NEW i \in 0..Len(s), NEW j \in 0..(Len(s) - i)
  PROVE  AfterFirst(AfterFirst(s, i), j) = AfterFirst(s, i + j)
<1>1. Len(s) \in Nat
  BY LenProperties
<1> DEFINE tail == AfterFirst(s, i)
           lhs == AfterFirst(tail, j)
           rhs == AfterFirst(s, i + j)
<1>2. /\ tail \in Seq(Byte) /\ Len(tail) = Len(s) - i
      /\ \A k \in 1..(Len(s) - i) : tail[k] = s[k + i]
  BY TailOf
<1> HIDE DEF tail
<1>3. /\ lhs \in Seq(Byte) /\ Len(lhs) = Len(tail) - j
      /\ \A k \in 1..(Len(tail) - j) : lhs[k] = tail[k + j]
  <2>1. j \in 0..Len(tail)
    BY <1>2
  <2> QED BY <1>2, <2>1, TailOf
<1>4. /\ rhs \in Seq(Byte) /\ Len(rhs) = Len(s) - (i + j)
      /\ \A k \in 1..(Len(s) - (i + j)) : rhs[k] = s[k + (i + j)]
  <2>1. i + j \in 0..Len(s)
    BY <1>1
  <2> QED BY <2>1, TailOf
<1> HIDE DEF lhs, rhs
<1>5. Len(lhs) = Len(rhs)
  BY <1>1, <1>2, <1>3, <1>4
<1>6. \A k \in 1..Len(lhs) : lhs[k] = rhs[k]
  <2> SUFFICES ASSUME NEW k \in 1..Len(lhs) PROVE lhs[k] = rhs[k]
    OBVIOUS
  <2>1. k \in Nat \ {0} /\ k <= Len(s) - i - j
    BY <1>1, <1>2, <1>3
  <2>2. lhs[k] = tail[k + j]
    BY <1>3, <2>1, <1>1, <1>2
  <2>3. k + j \in 1..(Len(s) - i)
    BY <2>1, <1>1
  <2>4. tail[k + j] = s[(k + j) + i]
    BY <1>2, <2>3
  <2>5. rhs[k] = s[k + (i + j)]
    BY <1>4, <2>1, <1>1
  <2>6. (k + j) + i = k + (i + j)
    BY <2>1, <1>1
  <2> QED BY <2>2, <2>4, <2>5, <2>6
<1>7. lhs = rhs
  BY <1>3, <1>4, <1>5, <1>6, SeqEqual
<1> QED BY <1>7 DEF lhs, rhs, tail

\* The positions in the stream of what is in the buffer.
LEMMA Positions ==
  ASSUME StreamPart
  PROVE  /\ unread \in Seq(Byte) /\ buf \in Seq(Byte) /\ Rest \in Seq(Byte)
         /\ requests \in Seq(Seq(Byte))
         /\ Len(stream) \in Nat /\ Len(buf) \in Nat /\ Len(unread) \in Nat
         /\ Len(Rest) = Len(buf) + Len(unread)
         /\ Used = Len(stream) - Len(Rest)
         /\ BytesRead = Used + Len(buf)
         /\ \A k \in 1..Len(Rest) : Rest[k] = stream[k + Used]
<1>1. unread \in Seq(Byte) /\ buf \in Seq(Byte) /\ requests \in Seq(Seq(Byte))
      /\ stream \in Seq(Byte)
  BY DEF StreamPart, Inv, TypeOK
<1>2. Len(stream) \in Nat /\ Len(buf) \in Nat /\ Len(unread) \in Nat
  BY <1>1, LenProperties
<1>3. Rest \in Seq(Byte) /\ Len(Rest) = Len(buf) + Len(unread)
  BY <1>1, ConcatProperties DEF Rest
<1>4. Used = Len(stream) - Len(Rest) /\ BytesRead = Used + Len(buf)
  BY <1>2, <1>3 DEF Used, BytesRead
<1>5. Used \in 0..Len(stream) /\ Rest = AfterFirst(stream, Used)
  BY DEF StreamPart
<1>6. \A k \in 1..(Len(stream) - Used) : AfterFirst(stream, Used)[k] = stream[k + Used]
  BY <1>1, <1>5, TailOf
<1>7. Len(stream) - Used = Len(Rest)
  BY <1>2, <1>3, <1>4
<1>8. \A k \in 1..Len(Rest) : Rest[k] = stream[k + Used]
  BY <1>5, <1>6, <1>7
<1> QED BY <1>1, <1>2, <1>3, <1>4, <1>8

\* A line of length l that starts off behind u and ends at z fits into the rest.
LEMMA LineFits ==
  ASSUME NEW u \in Nat, NEW off \in Nat, NEW a \in Nat, NEW z \in Nat, NEW n \in Nat,
         NEW l \in Nat, a = u + off, l = z - 1 - a, z <= n
  PROVE  /\ off + l <= n - u
         /\ u + (off + l) = z - 1
         /\ l > 0 => u + (off + l) > a
  OBVIOUS

\* The message after those that have become requests is the first object in the rest
\* of the stream.
LEMMA ObjectAhead ==
  ASSUME StreamPart, NEW r \in Nat, r + 1 \in 1..Len(ends), OneObject(r + 1),
         ResumesAfter(r)
  PROVE  \E e \in 1..Len(Rest) :
           /\ Found(Rest, e) /\ Request(Rest, e) = Message(r + 1)
           /\ Used + e = Resume(r + 1) /\ Used + e > StartOfLine(r + 1)
<1> DEFINE m == r + 1
           t == Message(m)
           off == IF r = 0 THEN 0 ELSE 1
<1>1. /\ stream \in Seq(Byte) /\ ends \in Lines(stream) /\ m \in 1..Len(ends)
  BY DEF StreamPart
<1>2. /\ unread \in Seq(Byte) /\ buf \in Seq(Byte) /\ Rest \in Seq(Byte)
      /\ Len(stream) \in Nat /\ Len(buf) \in Nat /\ Len(unread) \in Nat
      /\ Len(Rest) = Len(buf) + Len(unread)
      /\ Used = Len(stream) - Len(Rest)
      /\ BytesRead = Used + Len(buf)
      /\ \A k \in 1..Len(Rest) : Rest[k] = stream[k + Used]
  BY Positions
<1>3. /\ StartOfLine(m) \in Nat /\ ends[m] \in Nat
      /\ t \in Seq(Byte) /\ Len(t) = ends[m] - 1 - StartOfLine(m)
      /\ \A k \in 1..Len(t) : t[k] = stream[StartOfLine(m) + k]
  BY <1>1, MessageOf
<1>4. /\ Len(ends) \in Nat
      /\ \A n \in 1..Len(ends) : ends[n] \in 1..Len(stream) /\ stream[ends[n]] = Space
  BY <1>1, LinesOf
<1>5. Len(t) > 0 /\ t[1] = LBRACE /\ Found(t, Len(t))
  BY DEF OneObject
<1>20. Used \in Nat
  BY <1>2 DEF StreamPart
<1>6. /\ StartOfLine(m) = Used + off /\ off \in Nat /\ Used \in Nat
      /\ \A k \in 1..off : stream[k + Used] = Space
  <2>1. CASE r = 0
    BY <2>1 DEF StartOfLine, ResumesAfter, Resume
  <2>2. CASE r # 0
    <3>1. r \in 1..Len(ends) /\ m # 1 /\ m - 1 = r
      BY <1>1, <1>4, <2>2
    <3>2. ends[r] \in 1..Len(stream) /\ stream[ends[r]] = Space
      BY <1>4, <3>1
    <3>3. Used = ends[r] - 1 /\ StartOfLine(m) = ends[r] /\ off = 1
      BY <2>2, <3>1 DEF StartOfLine, ResumesAfter, Resume
    <3> HIDE DEF m, off
    <3>6. ends[r] \in Nat
      BY <3>2, <1>2
    <3>7. Used \in Nat
      BY <1>20
    <3>8. 1 + Used = ends[r]
      BY <3>3, <3>6
    <3>4. 1 + Used = ends[r] /\ Used \in Nat /\ StartOfLine(m) = Used + off /\ off \in Nat
      BY <3>3, <3>6, <3>7, <3>8
    <3>5. \A k \in 1..off : stream[k + Used] = Space
      <4>1. \A k \in 1..off : k = 1
        BY <3>3
      <4>2. stream[1 + Used] = Space
        BY <3>2, <3>4
      <4> QED BY <4>1, <4>2
    <3> QED BY <3>4, <3>5
  <2> QED BY <2>1, <2>2
<1>7. ends[m] \in 1..Len(stream)
  BY <1>1, <1>4
<1> HIDE DEF t, off, m
<1>21. /\ Len(t) \in Nat
       /\ off + Len(t) <= Len(stream) - Used
       /\ Used + (off + Len(t)) = ends[m] - 1
       /\ Len(t) > 0 => Used + (off + Len(t)) > StartOfLine(m)
  <2>1. Len(t) \in Nat
    BY <1>3, LenProperties
  <2>2. ends[m] <= Len(stream) /\ ends[m] \in Nat /\ Len(stream) \in Nat
    BY <1>2, <1>3, <1>7
  <2>3. /\ StartOfLine(m) \in Nat /\ off \in Nat /\ Used \in Nat
        /\ StartOfLine(m) = Used + off
        /\ Len(t) = ends[m] - 1 - StartOfLine(m)
    BY <1>3, <1>6
  <2> DEFINE u == Used
             a == StartOfLine(m)
             z == ends[m]
             n == Len(stream)
             l == Len(t)
  <2>4. /\ u \in Nat /\ off \in Nat /\ a \in Nat /\ z \in Nat /\ n \in Nat /\ l \in Nat
        /\ a = u + off /\ l = z - 1 - a /\ z <= n
    BY <2>1, <2>2, <2>3
  <2> HIDE DEF u, a, z, n, l
  <2>5. /\ off + l <= n - u
        /\ u + (off + l) = z - 1
        /\ l > 0 => u + (off + l) > a
    BY <2>4, LineFits
  <2> QED BY <2>1, <2>5 DEF u, a, z, n, l
<1>22. Len(Rest) = Len(stream) - Used
  BY <1>2, <1>20
<1>8. Len(t) \in Nat /\ off + Len(t) <= Len(Rest)
  BY <1>21, <1>22
<1>9. \A k \in 1..off : Rest[k] = Space
  <2> SUFFICES ASSUME NEW k \in 1..off PROVE Rest[k] = Space
    OBVIOUS
  <2>1. k \in 1..Len(Rest)
    BY <1>2, <1>6, <1>8
  <2>2. Rest[k] = stream[k + Used]
    BY <1>2, <2>1
  <2> QED BY <1>6, <2>2
<1>10. \A k \in 1..Len(t) : Rest[off + k] = t[k]
  <2> SUFFICES ASSUME NEW k \in 1..Len(t) PROVE Rest[off + k] = t[k]
    OBVIOUS
  <2>1. off + k \in 1..Len(Rest) /\ (off + k) + Used = StartOfLine(m) + k
    BY <1>2, <1>6, <1>8
  <2>2. Rest[off + k] = stream[(off + k) + Used]
    BY <1>2, <2>1
  <2>3. t[k] = stream[StartOfLine(m) + k]
    BY <1>3
  <2> QED BY <2>1, <2>2, <2>3
<1> DEFINE e == off + Len(t)
<1>11. Found(Rest, e) /\ Request(Rest, e) = t
  <2> HIDE DEF e
  <2>1. e = off + Len(t)
    BY DEF e
  <2>2. Found(Rest, off + Len(t)) /\ Request(Rest, off + Len(t)) = t
    BY <1>2, <1>3, <1>5, <1>6, <1>8, <1>9, <1>10, FoundShift
  <2> QED BY <2>1, <2>2
<1>12. e \in 1..Len(Rest)
  <2>1. Len(t) > 0 /\ Len(t) \in Nat /\ off \in Nat /\ off + Len(t) <= Len(Rest)
    BY <1>5, <1>6, <1>8
  <2>2. Len(Rest) \in Nat
    BY <1>2
  <2> QED BY <2>1, <2>2
<1>13. Used + e = ends[m] - 1 /\ Used + e > StartOfLine(m)
  BY <1>5, <1>21
<1>14. Used + e = Resume(m)
  BY <1>13 DEF Resume, m
<1> HIDE DEF e
<1> QED BY <1>11, <1>12, <1>13, <1>14 DEF m, t

\* It is the next request, and it has been sent.
LEMMA NextObject ==
  ASSUME StreamPart, NEW r \in Nat, r + 1 \in 1..Len(ends), OneObject(r + 1),
         ResumesAfter(r), NEW i \in 1..Len(buf), HandOver(i)
  PROVE  /\ Request(buf, i) = Message(r + 1)
         /\ Used + i = Resume(r + 1)
         /\ r + 1 <= sent
<1> DEFINE m == r + 1
<1>1. /\ stream \in Seq(Byte) /\ ends \in Lines(stream) /\ m \in 1..Len(ends)
  BY DEF StreamPart
<1>2. /\ unread \in Seq(Byte) /\ buf \in Seq(Byte) /\ Rest \in Seq(Byte)
      /\ Len(stream) \in Nat /\ Len(buf) \in Nat /\ Len(unread) \in Nat
      /\ Len(Rest) = Len(buf) + Len(unread)
      /\ BytesRead = Used + Len(buf)
  BY Positions
<1>3. StartOfLine(m) \in Nat
  BY <1>1, MessageOf
<1>4. Len(ends) \in Nat /\ Used \in Nat
  BY <1>1, <1>2, LinesOf DEF StreamPart
<1>5. PICK e \in 1..Len(Rest) :
        /\ Found(Rest, e) /\ Request(Rest, e) = Message(m)
        /\ Used + e = Resume(m) /\ Used + e > StartOfLine(m)
  BY ObjectAhead
<1>6. Found(Rest, i) /\ i \in 1..Len(Rest) /\ Request(Rest, i) = Request(buf, i)
  <2>1. Found(buf, i)
    BY DEF HandOver
  <2>2. Found(Rest, i)
    BY <1>2, <2>1, ScanPrefix DEF Rest
  <2>3. Request(Rest, i) = Request(buf, i)
    BY HandOverStep DEF Rest, StreamPart
  <2> QED BY <1>2, <2>2, <2>3
<1>7. i = e
  BY <1>2, <1>5, <1>6, FoundOnce
<1>8. m <= sent
  <2> SUFFICES ASSUME ~(m <= sent) PROVE FALSE
    OBVIOUS
  <2>1. sent \in 0..Len(ends) /\ BytesRead <= StartOfLine(sent + 1)
    BY DEF StreamPart, BytesSent
  <2>2. sent + 1 \in 1..(Len(ends) + 1) /\ m \in 1..(Len(ends) + 1) /\ sent + 1 <= m
    BY <1>1, <1>4, <2>1
  <2>3. StartOfLine(sent + 1) <= StartOfLine(m) /\ StartOfLine(sent + 1) \in Nat
    <3> DEFINE n == sent + 1
    <3>1. n \in 1..(Len(ends) + 1) /\ n <= m
      BY <2>2
    <3> HIDE DEF n
    <3>2. StartOfLine(n) <= StartOfLine(m) /\ StartOfLine(n) \in Nat
      BY <1>1, <2>2, <3>1, StartsMonotonic
    <3> QED BY <3>2 DEF n
  <2>4. Used + i <= BytesRead
    BY <1>2, <1>4
  <2>5. Used + i > StartOfLine(m)
    BY <1>5, <1>7
  <2>6. BytesRead \in Int
    BY <1>2, <1>4
  <2> QED BY <2>1, <2>3, <2>4, <2>5, <2>6, <1>3, <1>4
<1> QED BY <1>5, <1>6, <1>7, <1>8
-----------------------------------------------------------------------------
(* The steps. *)

\* A step that changes no sequence: the parser's state or the connection only.
LEMMA QuietStep ==
  ASSUME SessionInv, Inv', connection' \in {"open", "closed"},
         UNCHANGED <<buf, unread, requests, stream, ends, sent, queue, wire, answered>>
  PROVE  SessionInv'
<1>1. Rest' = Rest /\ Used' = Used
  BY DEF Rest, Used
<1>2. BytesRead' = BytesRead /\ BytesSent' = BytesSent
  BY DEF BytesRead, BytesSent, StartOfLine
<1>3. Lines(stream)' = Lines(stream) /\ AfterFirst(stream, Used)' = AfterFirst(stream, Used)
  BY <1>1 DEF Lines, AfterFirst
<1>4. StreamPart'
  BY <1>1, <1>2, <1>3 DEF SessionInv, StreamPart
<1>5. Delivered' = Delivered
  BY DEF Delivered
<1>6. QueuePart' /\ WirePart'
  BY <1>5 DEF SessionInv, QueuePart, WirePart
<1>7. \A m : Aligned(m)' = Aligned(m) /\ InStep(m)' = InStep(m)
  BY <1>1, <1>5 DEF Aligned, ResumesAfter, Resume, InStep, OneObject, Message, StartOfLine
<1>8. AlignedPart'
  BY <1>7 DEF SessionInv, AlignedPart
<1> QED BY <1>4, <1>6, <1>8 DEF SessionInv

\* A read takes no more than has been sent and leaves the place where the parser
\* goes on.
LEMMA ReadSentStep == SessionInv /\ ReadSent => SessionInv'
<1> SUFFICES ASSUME SessionInv, ReadSent PROVE SessionInv'
  OBVIOUS
<1>1. PICK n \in 1..Len(unread) : BytesRead + n <= BytesSent /\ Read(n)
  BY DEF ReadSent
<1>2. UNCHANGED <<stream, ends, connection, sent, queue, answered, wire>>
  BY DEF ReadSent, client
<1>3. UNCHANGED requests
  BY <1>1 DEF Read
<1>4. Inv' /\ Rest' = Rest
  BY <1>1, ReadStep DEF SessionInv, StreamPart, Rest
<1>5. Used' = Used
  BY <1>2, <1>4 DEF Used
<1>6. BytesRead' <= BytesSent'
  <2>1. unread \in Seq(Byte) /\ Len(stream) \in Nat /\ Len(unread) \in Nat
    BY Positions DEF SessionInv
  <2>2. Len(unread') = Len(unread) - n
    <3>1. n \in 0..Len(unread)
      BY <2>1
    <3> QED BY <1>1, <2>1, <3>1, Cut DEF Read
  <2>3. BytesRead' = BytesRead + n
    BY <1>1, <1>2, <2>1, <2>2 DEF BytesRead
  <2>4. BytesSent' = BytesSent
    BY <1>2 DEF BytesSent, StartOfLine
  <2> QED BY <1>1, <2>3, <2>4
<1>7. Lines(stream)' = Lines(stream) /\ AfterFirst(stream, Used)' = AfterFirst(stream, Used)
  BY <1>2, <1>5 DEF Lines, AfterFirst
<1>8. StreamPart'
  BY <1>2, <1>4, <1>5, <1>6, <1>7 DEF SessionInv, StreamPart
<1>9. Delivered' = Delivered
  BY <1>2, <1>3 DEF Delivered
<1>10. QueuePart' /\ WirePart'
  BY <1>2, <1>3, <1>9 DEF SessionInv, QueuePart, WirePart
<1>11. \A m : Aligned(m)' = Aligned(m) /\ InStep(m)' = InStep(m)
  BY <1>2, <1>3, <1>5, <1>9
     DEF Aligned, ResumesAfter, Resume, InStep, OneObject, Message, StartOfLine
<1>12. AlignedPart'
  BY <1>2, <1>11 DEF SessionInv, AlignedPart
<1> QED BY <1>8, <1>10, <1>12 DEF SessionInv

\* A request and its reply: if it is a message of its own, the parser goes on behind it.
LEMMA ReplyStep == SessionInv /\ Reply => SessionInv'
<1> SUFFICES ASSUME SessionInv, Reply PROVE SessionInv'
  OBVIOUS
<1>1. PICK i \in 1..Len(buf) : HandOver(i)
  BY DEF Reply
<1>2. /\ UNCHANGED <<stream, ends, connection, sent, queue, answered>>
      /\ wire' = Append(wire, Len(requests'))
  BY DEF Reply, client
<1>3. requests' = Append(requests, Request(buf, i)) /\ unread' = unread
  BY <1>1 DEF HandOver
<1>4. /\ Inv'
      /\ Request(Rest, i) = Request(buf, i)
      /\ Rest' = AfterFirst(Rest, i)
  BY <1>1, HandOverStep DEF SessionInv, StreamPart, Rest
<1>5. /\ unread \in Seq(Byte) /\ buf \in Seq(Byte) /\ Rest \in Seq(Byte)
      /\ requests \in Seq(Seq(Byte))
      /\ Len(stream) \in Nat /\ Len(buf) \in Nat /\ Len(unread) \in Nat
      /\ Len(Rest) = Len(buf) + Len(unread)
      /\ Used = Len(stream) - Len(Rest)
  BY Positions DEF SessionInv
<1>6. /\ Len(requests) \in Nat /\ Len(requests') = Len(requests) + 1
      /\ requests'[Len(requests) + 1] = Request(buf, i)
      /\ \A k \in 1..Len(requests) : requests'[k] = requests[k]
  <2>1. requests' \in Seq(Seq(Byte))
    BY <1>4 DEF Inv, TypeOK
  <2> QED BY <1>3, <1>5, LenProperties
<1>7. Used' = Used + i /\ Used' \in 0..Len(stream') /\ Rest' = AfterFirst(stream', Used')
  <2>1. i \in 0..Len(Rest)
    BY <1>5
  <2>2. Len(Rest') = Len(Rest) - i
    BY <1>4, <1>5, <2>1, TailOf
  <2>3. Len(stream') = Len(stream) /\ Used' = Len(stream) - Len(Rest')
    BY <1>2 DEF Used
  <2>4. Used' = Used + i /\ Used' \in 0..Len(stream)
    <3>1. Used \in 0..Len(stream)
      BY DEF SessionInv, StreamPart
    <3> QED BY <1>5, <2>1, <2>2, <2>3, <3>1
  <2>5. stream \in Seq(Byte) /\ Used \in 0..Len(stream) /\ Rest = AfterFirst(stream, Used)
    BY DEF SessionInv, StreamPart
  <2>6. i \in 0..(Len(stream) - Used)
    BY <1>5, <2>1
  <2>7. AfterFirst(AfterFirst(stream, Used), i) = AfterFirst(stream, Used + i)
    BY <2>5, <2>6, CutTwice
  <2> QED BY <1>2, <1>4, <2>3, <2>4, <2>5, <2>7
<1>8. BytesRead' = BytesRead /\ BytesSent' = BytesSent
  BY <1>2, <1>3 DEF BytesRead, BytesSent, StartOfLine
<1>9. Lines(stream)' = Lines(stream) /\ AfterFirst(stream, Used)' = AfterFirst(stream', Used')
  BY <1>2 DEF Lines, AfterFirst
<1>10. StreamPart'
  BY <1>2, <1>4, <1>7, <1>8, <1>9 DEF SessionInv, StreamPart
<1>11. /\ wire \in Seq(Nat) /\ Len(wire) \in Nat /\ Len(wire) <= Len(requests)
       /\ \A k \in 1..Len(wire) : wire[k] = Delivered + k
       /\ \A k \in 1..Len(answered) : answered[k].reply \in 1..Delivered
  BY LenProperties DEF SessionInv, WirePart
<1>12. /\ wire' \in Seq(Nat) /\ Len(wire') = Len(wire) + 1
       /\ wire'[Len(wire) + 1] = Len(requests) + 1
       /\ \A k \in 1..Len(wire) : wire'[k] = wire[k]
  <2>1. Len(requests') \in Nat
    BY <1>6
  <2> QED BY <1>2, <1>6, <1>11, <2>1
<1>13. Delivered' = Delivered /\ Delivered = Len(requests) - Len(wire)
  BY <1>6, <1>11, <1>12 DEF Delivered
<1>14. QueuePart'
  BY <1>2 DEF SessionInv, QueuePart
<1>15. WirePart'
  <2>1. \A k \in 1..Len(wire') : wire'[k] = Delivered' + k
    <3> SUFFICES ASSUME NEW k \in 1..Len(wire') PROVE wire'[k] = Delivered' + k
      OBVIOUS
    <3>1. CASE k = Len(wire) + 1
      BY <3>1, <1>6, <1>11, <1>12, <1>13
    <3>2. CASE k # Len(wire) + 1
      <4>1. k \in 1..Len(wire)
        BY <3>2, <1>11, <1>12
      <4> QED BY <4>1, <1>11, <1>12, <1>13
    <3> QED BY <3>1, <3>2
  <2>2. Len(wire') <= Len(requests')
    BY <1>6, <1>11, <1>12
  <2> QED BY <1>2, <1>11, <1>12, <1>13, <2>1, <2>2 DEF WirePart
<1>16. AlignedPart'
  <2>1. \A m : InStep(m)' = InStep(m) /\ Message(m)' = Message(m) /\ Resume(m)' = Resume(m)
    BY <1>2 DEF InStep, OneObject, Message, StartOfLine, Resume
  <2>2. SUFFICES ASSUME NEW m \in 1..Len(ends), InStep(m) PROVE Aligned(m)'
    BY <1>2, <2>1 DEF AlignedPart
  <2> DEFINE r == Len(requests)
  <2>3. Aligned(m) /\ m \in Nat /\ r \in Nat /\ Len(ends) \in Nat /\ sent \in 0..Len(ends)
    <3>1. /\ stream \in Seq(Byte) /\ ends \in Lines(stream) /\ sent \in 0..Len(ends)
          /\ AlignedPart
      BY DEF SessionInv, StreamPart
    <3>2. Aligned(m)
      BY <2>2, <3>1 DEF AlignedPart
    <3>3. Len(ends) \in Nat
      BY <3>1, LinesOf
    <3> QED BY <1>6, <3>1, <3>2, <3>3
  <2>4. CASE r >= m
    <3>1. m <= sent /\ requests[m] = Message(m) /\ m \in 1..r /\ r + 1 >= m
      BY <2>3, <2>4 DEF Aligned
    <3>2. m <= sent' /\ requests'[m] = Message(m)'
      BY <1>2, <1>6, <2>1, <3>1
    <3>3. Len(requests') >= m /\ ~(Len(requests') < m)
      BY <1>6, <3>1, <2>3
    <3> QED BY <1>2, <1>13, <2>3, <3>2, <3>3 DEF Aligned
  <2>5. CASE r < m
    <3>1. ResumesAfter(r) /\ r + 1 \in 1..m /\ r + 1 \in 1..Len(ends)
      BY <2>3, <2>5 DEF Aligned
    <3>2. OneObject(r + 1)
      BY <2>2, <3>1 DEF InStep
    <3>3. Request(buf, i) = Message(r + 1) /\ Used + i = Resume(r + 1) /\ r + 1 <= sent
      BY <1>1, <2>3, <3>1, <3>2, NextObject DEF SessionInv
    <3>4. ResumesAfter(Len(requests))'
      BY <1>6, <1>7, <2>1, <3>3 DEF ResumesAfter
    <3>5. Len(requests') >= m => m <= sent' /\ requests'[m] = Message(m)'
      <4> SUFFICES ASSUME Len(requests') >= m PROVE m <= sent' /\ requests'[m] = Message(m)'
        OBVIOUS
      <4>1. m = r + 1
        BY <1>6, <2>3, <2>5
      <4> QED BY <1>2, <1>6, <2>1, <3>3, <4>1
    <3> QED BY <1>2, <1>13, <2>3, <3>4, <3>5 DEF Aligned
  <2> QED BY <2>3, <2>4, <2>5
<1> QED BY <1>10, <1>14, <1>15, <1>16 DEF SessionInv

\* A command puts its callback at the end of the queue.
LEMMA CommandStep == SessionInv /\ Command => SessionInv'
<1> SUFFICES ASSUME SessionInv, Command PROVE SessionInv'
  OBVIOUS
<1>1. /\ sent < Len(ends)
      /\ sent' = sent + 1 /\ queue' = Append(queue, sent + 1)
      /\ UNCHANGED <<unread, buf, requests, stream, ends, connection, answered, wire>>
  BY DEF Command, vars
<1>2. /\ stream \in Seq(Byte) /\ ends \in Lines(stream) /\ sent \in 0..Len(ends)
      /\ BytesRead <= BytesSent
  BY DEF SessionInv, StreamPart
<1>3. Len(ends) \in Nat /\ sent' \in 0..Len(ends)
  BY <1>1, <1>2, LinesOf
<1>4. Inv'
  <2>1. UNCHANGED vars
    BY DEF Command
  <2> QED BY <2>1, OtherSteps DEF SessionInv, StreamPart
<1>5. Rest' = Rest /\ Used' = Used /\ BytesRead' = BytesRead
  BY <1>1 DEF Rest, Used, BytesRead
<1>6. BytesRead' <= BytesSent'
  <2>1. BytesSent' = StartOfLine(sent' + 1)
    BY <1>1 DEF BytesSent, StartOfLine
  <2> DEFINE p == sent + 1
             q == sent' + 1
  <2>2. p \in 1..(Len(ends) + 1) /\ q \in 1..(Len(ends) + 1) /\ p <= q
    BY <1>1, <1>2, <1>3
  <2> HIDE DEF p, q
  <2>3. StartOfLine(p) <= StartOfLine(q) /\ StartOfLine(p) \in Nat /\ StartOfLine(q) \in Nat
    BY <1>2, <2>2, StartsMonotonic
  <2>4. BytesSent <= BytesSent' /\ BytesSent \in Nat /\ BytesSent' \in Nat
    BY <2>1, <2>3 DEF p, q, BytesSent
  <2>5. BytesRead \in Int
    BY Positions DEF SessionInv, BytesRead
  <2> QED BY <1>2, <1>5, <2>4, <2>5
<1>7. Lines(stream)' = Lines(stream) /\ AfterFirst(stream, Used)' = AfterFirst(stream, Used)
  BY <1>1, <1>5 DEF Lines, AfterFirst
<1>8. StreamPart'
  BY <1>1, <1>3, <1>4, <1>5, <1>6, <1>7 DEF SessionInv, StreamPart
<1>9. QueuePart'
  <2>1. /\ queue \in Seq(Nat) /\ answered \in Seq([callback : Nat, reply : Nat])
        /\ Len(queue) + Len(answered) = sent
        /\ \A i \in 1..Len(queue) : queue[i] = Len(answered) + i
        /\ \A k \in 1..Len(answered) : answered[k].callback = k
    BY DEF SessionInv, QueuePart
  <2>2. Len(queue) \in Nat /\ Len(answered) \in Nat /\ sent + 1 \in Nat
    BY <1>1, <1>3, <2>1, LenProperties
  <2>3. /\ queue' \in Seq(Nat) /\ Len(queue') = Len(queue) + 1
        /\ queue'[Len(queue) + 1] = sent + 1
        /\ \A k \in 1..Len(queue) : queue'[k] = queue[k]
    BY <1>1, <2>1, <2>2
  <2>4. \A i \in 1..Len(queue') : queue'[i] = Len(answered) + i
    <3> SUFFICES ASSUME NEW i \in 1..Len(queue') PROVE queue'[i] = Len(answered) + i
      OBVIOUS
    <3>1. CASE i = Len(queue) + 1
      BY <2>1, <2>2, <2>3, <3>1
    <3>2. CASE i # Len(queue) + 1
      <4>1. i \in 1..Len(queue)
        BY <2>2, <2>3, <3>2
      <4> QED BY <2>1, <2>3, <4>1
    <3> QED BY <3>1, <3>2
  <2>5. Len(queue') + Len(answered) = sent'
    BY <1>1, <1>2, <1>3, <2>1, <2>2, <2>3
  <2> QED BY <1>1, <2>1, <2>3, <2>4, <2>5 DEF QueuePart
<1>10. Delivered' = Delivered
  BY <1>1 DEF Delivered
<1>11. WirePart'
  BY <1>1, <1>10 DEF SessionInv, WirePart
<1>12. AlignedPart'
  <2>1. \A m : /\ InStep(m)' = InStep(m) /\ Message(m)' = Message(m)
               /\ ResumesAfter(m)' = ResumesAfter(m)
    BY <1>1, <1>5 DEF InStep, OneObject, Message, StartOfLine, ResumesAfter, Resume
  <2>2. SUFFICES ASSUME NEW m \in 1..Len(ends), Aligned(m) PROVE Aligned(m)'
    BY <1>1, <2>1 DEF SessionInv, AlignedPart
  <2>3. m <= sent => m <= sent'
    BY <1>1, <1>2, <1>3
  <2>4. ResumesAfter(Len(requests))' = ResumesAfter(Len(requests))
    BY <1>1, <1>5 DEF ResumesAfter, Resume
  <2> QED BY <1>1, <1>10, <2>1, <2>2, <2>3, <2>4 DEF Aligned
<1> QED BY <1>8, <1>9, <1>11, <1>12 DEF SessionInv

\* A message of keychain: the queue is empty only if its messages were no objects.
LEMMA OnMessageStep == SessionInv /\ OnMessage => SessionInv'
<1> SUFFICES ASSUME SessionInv, OnMessage PROVE SessionInv'
  OBVIOUS
<1>1. /\ wire # <<>> /\ wire' = Tail(wire)
      /\ UNCHANGED <<unread, buf, requests, stream, ends, connection, sent>>
  BY DEF OnMessage, vars
<1>2. Inv'
  <2>1. UNCHANGED vars
    BY DEF OnMessage
  <2> QED BY <2>1, OtherSteps DEF SessionInv, StreamPart
<1>3. Rest' = Rest /\ Used' = Used /\ BytesRead' = BytesRead /\ BytesSent' = BytesSent
  BY <1>1 DEF Rest, Used, BytesRead, BytesSent, StartOfLine
<1>4. Lines(stream)' = Lines(stream) /\ AfterFirst(stream, Used)' = AfterFirst(stream, Used)
  BY <1>1, <1>3 DEF Lines, AfterFirst
<1>5. StreamPart'
  BY <1>1, <1>2, <1>3, <1>4 DEF SessionInv, StreamPart
<1>6. /\ wire \in Seq(Nat) /\ Len(wire) \in Nat
      /\ Len(wire) <= Len(requests) /\ Len(requests) \in Nat
      /\ \A k \in 1..Len(wire) : wire[k] = Delivered + k
      /\ \A k \in 1..Len(answered) : answered[k].reply \in 1..Delivered
  BY Positions, LenProperties DEF SessionInv, WirePart
<1>7. /\ wire' \in Seq(Nat) /\ Len(wire) > 0 /\ Len(wire') = Len(wire) - 1
      /\ \A k \in 1..Len(wire') : wire'[k] = wire[k + 1]
      /\ Head(wire) = wire[1]
  BY <1>1, <1>6, HeadTailProperties, EmptySeq
<1>8. /\ Delivered \in Nat /\ Delivered' = Delivered + 1
      /\ Delivered + 1 <= Len(requests)
      /\ Head(wire) = Delivered + 1
  <2>1. Delivered = Len(requests) - Len(wire) /\ Delivered' = Len(requests) - Len(wire')
    BY <1>1 DEF Delivered
  <2>2. Head(wire) = Delivered + 1
    <3>1. 1 \in 1..Len(wire)
      BY <1>6, <1>7
    <3> QED BY <1>6, <1>7, <3>1
  <2> QED BY <1>6, <1>7, <2>1, <2>2
<1>9. \A k \in 1..Len(wire') : wire'[k] = Delivered' + k
  <2> SUFFICES ASSUME NEW k \in 1..Len(wire') PROVE wire'[k] = Delivered' + k
    OBVIOUS
  <2>1. k + 1 \in 1..Len(wire) /\ wire'[k] = wire[k + 1]
    BY <1>6, <1>7
  <2>2. wire[k + 1] = Delivered + (k + 1)
    BY <1>6, <2>1
  <2> QED BY <1>8, <2>1, <2>2
<1>10. /\ queue \in Seq(Nat) /\ answered \in Seq([callback : Nat, reply : Nat])
       /\ Len(queue) + Len(answered) = sent
       /\ \A i \in 1..Len(queue) : queue[i] = Len(answered) + i
       /\ \A k \in 1..Len(answered) : answered[k].callback = k
  BY DEF SessionInv, QueuePart
<1>11. Len(queue) \in Nat /\ Len(answered) \in Nat /\ Len(requests') = Len(requests)
  BY <1>1, <1>10, LenProperties
<1>12. /\ \A m : InStep(m)' = InStep(m) /\ Message(m)' = Message(m)
       /\ ResumesAfter(Len(requests))' = ResumesAfter(Len(requests))
  BY <1>1, <1>3 DEF InStep, OneObject, Message, StartOfLine, ResumesAfter, Resume
<1>13. stream \in Seq(Byte) /\ ends \in Lines(stream) /\ sent \in 0..Len(ends)
  BY DEF SessionInv, StreamPart
<1>14. Len(ends) \in Nat
  BY <1>13, LinesOf
<1>15. CASE queue = <<>>
  <2>1. queue' = queue /\ answered' = answered
    BY <1>15 DEF OnMessage
  <2>2. QueuePart'
    BY <1>1, <2>1 DEF SessionInv, QueuePart
  <2>3. Len(answered) = sent
    BY <1>10, <1>11, <1>15
  <2>4. \A k \in 1..Len(answered') : answered'[k].reply \in 1..Delivered'
    BY <1>6, <1>8, <2>1
  <2>5. Len(wire') <= Len(requests')
    BY <1>6, <1>7, <1>11
  <2>6. WirePart'
    BY <1>7, <1>9, <2>4, <2>5 DEF WirePart
  <2>7. AlignedPart'
    <3>1. SUFFICES ASSUME NEW m \in 1..Len(ends), InStep(m) PROVE Aligned(m)'
      BY <1>1, <1>12 DEF AlignedPart
    <3>2. Aligned(m)
      BY <3>1 DEF SessionInv, AlignedPart
    <3>3. Delivered >= m
      <4> SUFFICES ASSUME Delivered < m PROVE FALSE
        BY <1>8, <1>14
      <4>1. Len(answered) = Delivered
        BY <3>2 DEF Aligned
      <4> DEFINE d == Delivered + 1
      <4>2. d \in 1..m /\ d \in 1..Len(ends) /\ Len(requests) >= d
        BY <1>6, <1>8, <1>14
      <4> HIDE DEF d
      <4>3. InStep(d)
        BY <3>1, <4>2, <1>14 DEF InStep
      <4>4. Aligned(d)
        BY <4>2, <4>3 DEF SessionInv, AlignedPart
      <4>5. d <= sent
        BY <4>2, <4>4 DEF Aligned
      <4> QED BY <1>8, <1>13, <2>3, <4>1, <4>5 DEF d
    <3>4. Delivered' >= m /\ ~(Delivered' < m)
      BY <1>8, <1>14, <3>3
    <3>5. Len(answered') >= m
      BY <2>1, <3>2, <3>3 DEF Aligned
    <3> QED BY <1>1, <1>11, <1>12, <2>1, <3>2, <3>4, <3>5 DEF Aligned
  <2> QED BY <1>5, <2>2, <2>6, <2>7 DEF SessionInv
<1>16. CASE queue # <<>>
  <2> DEFINE c == [callback |-> Head(queue), reply |-> Head(wire)]
             n == Len(answered)
  <2>1. queue' = Tail(queue) /\ answered' = Append(answered, c)
    BY <1>16 DEF OnMessage
  <2>2. /\ queue' \in Seq(Nat) /\ Len(queue) > 0 /\ Len(queue') = Len(queue) - 1
        /\ \A k \in 1..Len(queue') : queue'[k] = queue[k + 1]
        /\ Head(queue) = queue[1] /\ Head(queue) = n + 1
    <3>1. /\ queue' \in Seq(Nat) /\ Len(queue) > 0 /\ Len(queue') = Len(queue) - 1
          /\ \A k \in 1..Len(queue') : queue'[k] = queue[k + 1]
          /\ Head(queue) = queue[1]
      BY <1>10, <1>11, <1>16, <2>1, HeadTailProperties, EmptySeq
    <3>2. 1 \in 1..Len(queue)
      BY <1>11, <3>1
    <3>3. queue[1] = n + 1
      BY <1>10, <3>2
    <3> QED BY <3>1, <3>3
  <2>3. c \in [callback : Nat, reply : Nat] /\ c.callback = n + 1 /\ c.reply = Delivered + 1
    BY <1>8, <1>11, <2>2
  <2> HIDE DEF c
  <2>4. /\ answered' \in Seq([callback : Nat, reply : Nat]) /\ Len(answered') = n + 1
        /\ answered'[n + 1] = c
        /\ \A k \in 1..n : answered'[k] = answered[k]
    BY <1>10, <1>11, <2>1, <2>3
  <2> HIDE DEF n
  <2>5. n \in Nat /\ n = Len(answered)
    BY <1>11 DEF n
  <2>6. \A k \in 1..Len(answered') : answered'[k].callback = k /\ answered'[k].reply \in 1..Delivered'
    <3> SUFFICES ASSUME NEW k \in 1..Len(answered')
                 PROVE answered'[k].callback = k /\ answered'[k].reply \in 1..Delivered'
      OBVIOUS
    <3>1. CASE k = n + 1
      BY <1>8, <2>3, <2>4, <3>1
    <3>2. CASE k # n + 1
      <4>1. k \in 1..Len(answered) /\ answered'[k] = answered[k]
        BY <2>4, <2>5, <3>2
      <4>2. answered[k].callback = k /\ answered[k].reply \in 1..Delivered
        BY <1>6, <1>10, <4>1
      <4> QED BY <1>8, <4>1, <4>2
    <3> QED BY <3>1, <3>2
  <2>7. QueuePart'
    <3>1. \A i \in 1..Len(queue') : queue'[i] = Len(answered') + i
      <4> SUFFICES ASSUME NEW i \in 1..Len(queue') PROVE queue'[i] = Len(answered') + i
        OBVIOUS
      <4>1. i + 1 \in 1..Len(queue) /\ queue'[i] = queue[i + 1]
        BY <1>11, <2>2
      <4>2. queue[i + 1] = Len(answered) + (i + 1)
        BY <1>10, <4>1
      <4>3. i \in Nat
        BY <1>11, <2>2
      <4> QED BY <2>4, <2>5, <4>1, <4>2, <4>3
    <3>2. Len(queue') + Len(answered') = sent'
      BY <1>1, <1>10, <1>11, <2>2, <2>4, <2>5
    <3> QED BY <2>2, <2>4, <2>6, <3>1, <3>2 DEF QueuePart
  <2>8. Len(wire') <= Len(requests')
    BY <1>6, <1>7, <1>11
  <2>9. WirePart'
    BY <1>7, <1>9, <2>6, <2>8 DEF WirePart
  <2>10. AlignedPart'
    <3>1. SUFFICES ASSUME NEW m \in 1..Len(ends), InStep(m) PROVE Aligned(m)'
      BY <1>1, <1>12 DEF AlignedPart
    <3>2. Aligned(m)
      BY <3>1 DEF SessionInv, AlignedPart
    <3>3. /\ Delivered < m => n = Delivered
          /\ Delivered >= m => n >= m
          /\ m <= n => answered[m].reply = m
      BY <2>5, <3>2 DEF Aligned
    <3>4. m \in Nat \ {0}
      BY <1>14
    <3>5. /\ Delivered' < m => Len(answered') = Delivered'
          /\ Delivered' >= m => Len(answered') >= m
      BY <1>8, <2>4, <2>5, <3>3, <3>4
    <3>6. m <= Len(answered') => answered'[m].reply = m
      <4> SUFFICES ASSUME m <= Len(answered') PROVE answered'[m].reply = m
        OBVIOUS
      <4>1. CASE m = n + 1
        <5>1. n = Delivered
          BY <1>8, <2>5, <3>3, <4>1
        <5> QED BY <2>3, <2>4, <4>1, <5>1
      <4>2. CASE m # n + 1
        <5>1. m \in 1..n
          BY <2>4, <2>5, <3>4, <4>2
        <5> QED BY <2>4, <3>3, <5>1
      <4> QED BY <4>1, <4>2
    <3> QED BY <1>1, <1>11, <1>12, <3>2, <3>5, <3>6 DEF Aligned
  <2> QED BY <1>5, <2>7, <2>9, <2>10 DEF SessionInv
<1> QED BY <1>15, <1>16

LEMMA SessionNextInv == SessionInv /\ [SessionNext]_sessionVars => SessionInv'
<1> SUFFICES ASSUME SessionInv, [SessionNext]_sessionVars PROVE SessionInv'
  OBVIOUS
<1>1. Inv /\ connection \in {"open", "closed"}
  BY DEF SessionInv, StreamPart
<1>2. CASE ReadSent
  BY <1>2, ReadSentStep
<1>3. CASE Reply
  BY <1>3, ReplyStep
<1>4. CASE Command
  BY <1>4, CommandStep
<1>5. CASE OnMessage
  BY <1>5, OnMessageStep
<1>6. CASE ReadEnd
  <2>1. Inv'
    BY <1>1, <1>6, OtherSteps DEF ReadEnd
  <2> QED BY <1>1, <1>6, <2>1, QuietStep DEF ReadEnd, ReadNothing, client
<1>7. CASE Scan
  <2>1. Inv'
    BY <1>1, <1>7, OtherSteps DEF Scan
  <2>2. UNCHANGED <<buf, unread, requests>>
    BY <1>7 DEF Scan, ReadMore, TooLarge, Throw
  <2> QED BY <1>1, <1>7, <2>1, <2>2, QuietStep DEF Scan, client
<1>8. CASE Crash
  <2>1. Inv'
    BY <1>1, <1>8, OtherSteps DEF Crash
  <2>2. UNCHANGED <<buf, unread, requests>>
    BY <1>8 DEF Crash, ReadFails, Killed
  <2> QED BY <1>1, <1>8, <2>1, <2>2, QuietStep DEF Crash, client
<1>9. CASE Leave \/ HangUp \/ UNCHANGED sessionVars
  <2>1. UNCHANGED vars
    BY <1>9 DEF Leave, HangUp, sessionVars
  <2>2. Inv'
    BY <1>1, <2>1, OtherSteps
  <2>3. connection' \in {"open", "closed"}
    BY <1>1, <1>9 DEF Leave, HangUp, sessionVars, client
  <2>4. UNCHANGED <<stream, ends, sent, queue, wire, answered>>
    BY <1>9 DEF Leave, HangUp, sessionVars, client
  <2> QED BY <2>1, <2>2, <2>3, <2>4, QuietStep DEF vars
<1> QED BY <1>2, <1>3, <1>4, <1>5, <1>6, <1>7, <1>8, <1>9 DEF SessionNext

\* The parts of the invariant hold in every state of a session.
LEMMA SessionInvariant == SessionSpec => []SessionInv
<1> QED BY SessionInitInv, SessionNextInv, PTL DEF SessionSpec

-----------------------------------------------------------------------------
(* The theorems. *)

\* Every variable of a session keeps its type: no more is read than was sent, replies
\* and callbacks are those of requests and messages there have been, and every message
\* has its callback either in the queue or called.
THEOREM SessionTypeCorrect == SessionSpec => []SessionTypeOK
<1>1. SessionInv => SessionTypeOK
  <2> SUFFICES ASSUME SessionInv PROVE SessionTypeOK
    OBVIOUS
  <2>1. /\ TypeOK /\ stream \in Seq(Byte) /\ ends \in Lines(stream)
        /\ connection \in {"open", "closed"} /\ sent \in 0..Len(ends)
        /\ BytesRead <= BytesSent /\ Used \in 0..Len(stream)
    BY DEF SessionInv, StreamPart, Inv
  <2>2. /\ ends \in Seq(1..Len(stream)) /\ Len(ends) \in Nat
    BY <2>1, LinesOf
  <2>3. BytesRead \in 0..BytesSent
    <3> DEFINE p == sent + 1
    <3>1. p \in 1..(Len(ends) + 1) /\ p <= p
      BY <2>1, <2>2
    <3> HIDE DEF p
    <3>2. StartOfLine(p) \in Nat
      BY <2>1, <3>1, StartsMonotonic
    <3>3. BytesSent \in Nat
      BY <3>2 DEF p, BytesSent
    <3>4. BytesRead = Used + Len(buf) /\ Len(buf) \in Nat /\ Len(stream) \in Nat
      BY Positions DEF SessionInv
    <3> QED BY <2>1, <3>3, <3>4
  <2>4. /\ queue \in Seq(Nat) /\ answered \in Seq([callback : Nat, reply : Nat])
        /\ Len(queue) + Len(answered) = sent
        /\ \A i \in 1..Len(queue) : queue[i] = Len(answered) + i
        /\ \A k \in 1..Len(answered) : answered[k].callback = k
    BY DEF SessionInv, QueuePart
  <2>5. Len(queue) \in Nat /\ Len(answered) \in Nat
    BY <2>4, LenProperties
  <2>6. queue \in Seq(1..sent)
    <3>1. \A i \in 1..Len(queue) : queue[i] \in 1..sent
      BY <2>4, <2>5
    <3> QED BY <2>4, <3>1, Narrow
  <2>7. /\ wire \in Seq(Nat) /\ Len(wire) <= Len(requests)
        /\ \A i \in 1..Len(wire) : wire[i] = Delivered + i
        /\ \A k \in 1..Len(answered) : answered[k].reply \in 1..Delivered
    BY DEF SessionInv, WirePart
  <2>8. /\ Len(wire) \in Nat /\ Len(requests) \in Nat
        /\ Delivered = Len(requests) - Len(wire)
    BY <2>7, Positions, LenProperties DEF SessionInv, Delivered
  <2>9. wire \in Seq(1..Len(requests))
    <3>1. \A i \in 1..Len(wire) : wire[i] \in 1..Len(requests)
      BY <2>7, <2>8
    <3> QED BY <2>7, <3>1, Narrow
  <2>10. answered \in Seq([callback : 1..sent, reply : 1..Len(requests)])
    <3> DEFINE R == [callback : 1..sent, reply : 1..Len(requests)]
    <3>1. SUFFICES ASSUME NEW k \in 1..Len(answered) PROVE answered[k] \in R
      BY <2>4, Narrow
    <3>2. answered[k] \in [callback : Nat, reply : Nat]
      BY <2>4, ElementOfSeq
    <3>3. answered[k].callback \in 1..sent
      BY <2>4, <2>5
    <3>4. answered[k].reply \in 1..Len(requests)
      BY <2>7, <2>8
    <3> QED BY <3>2, <3>3, <3>4
  <2> QED BY <2>1, <2>2, <2>3, <2>4, <2>6, <2>9, <2>10 DEF SessionTypeOK
<1> QED BY <1>1, SessionInvariant, PTL

\* A callback gets the reply to its own message if that message and all before it were
\* single objects, whatever the messages are, however many wait, and however the lines
\* were cut and joined on their way.
THEOREM OwnReplyCorrect == SessionSpec => []OwnReply
<1>1. SessionInv => OwnReply
  <2> SUFFICES ASSUME SessionInv, NEW k \in DOMAIN answered, InStep(answered[k].callback)
               PROVE  /\ answered[k].reply = answered[k].callback
                      /\ requests[answered[k].reply] = Message(answered[k].callback)
    BY DEF OwnReply
  <2>1. /\ answered \in Seq([callback : Nat, reply : Nat]) /\ queue \in Seq(Nat)
        /\ Len(queue) + Len(answered) = sent
        /\ \A i \in 1..Len(answered) : answered[i].callback = i
    BY DEF SessionInv, QueuePart
  <2>2. k \in 1..Len(answered) /\ Len(answered) \in Nat /\ Len(queue) \in Nat
    BY <2>1, LenProperties
  <2>3. answered[k].callback = k
    BY <2>1, <2>2
  <2>4. stream \in Seq(Byte) /\ ends \in Lines(stream) /\ sent \in 0..Len(ends)
    BY DEF SessionInv, StreamPart
  <2>5. Len(ends) \in Nat
    BY <2>4, LinesOf
  <2>6. k \in 1..Len(ends)
    BY <2>1, <2>2, <2>4, <2>5
  <2>7. Aligned(k)
    BY <2>3, <2>6 DEF SessionInv, AlignedPart
  <2>8. answered[k].reply = k
    BY <2>2, <2>7 DEF Aligned
  <2>9. Len(requests) >= k
    <3>1. /\ Len(wire) \in Nat /\ Len(requests) \in Nat
          /\ Delivered = Len(requests) - Len(wire)
          /\ answered[k].reply \in 1..Delivered
      BY <2>2, Positions, LenProperties DEF SessionInv, WirePart, Delivered
    <3> QED BY <2>8, <3>1
  <2>10. requests[k] = Message(k)
    BY <2>7, <2>9 DEF Aligned
  <2> QED BY <2>3, <2>8, <2>10
<1> QED BY <1>1, SessionInvariant, PTL

\* When keychain has read all that was sent, waits for more, and no reply is under way,
\* every message that was one object, as were those before it, has been answered: its
\* end stands in the buffer or before it, and the scan of the buffer would have found it.
THEOREM NoneOverdueCorrect == SessionSpec => []NoneOverdue
<1>1. SessionInv => NoneOverdue
  <2> SUFFICES ASSUME SessionInv, status = "running", pc = "read", BytesRead = BytesSent,
                      wire = <<>>, NEW m \in 1..sent, InStep(m)
               PROVE  \E k \in DOMAIN answered : answered[k].callback = m
    BY DEF NoneOverdue
  <2>1. /\ stream \in Seq(Byte) /\ ends \in Lines(stream) /\ sent \in 0..Len(ends)
        /\ Used \in 0..Len(stream)
        /\ \A i \in 1..Len(buf) : ~EndsAt(buf, i)
    BY DEF SessionInv, StreamPart, Inv, ReadInv, Incomplete
  <2>2. /\ answered \in Seq([callback : Nat, reply : Nat])
        /\ \A k \in 1..Len(answered) : answered[k].callback = k
    BY DEF SessionInv, QueuePart
  <2>3. Len(answered) \in Nat /\ DOMAIN answered = 1..Len(answered)
    BY <2>2, LenProperties
  <2>4. Len(ends) \in Nat
    BY <2>1, LinesOf
  <2>5. Aligned(m)
    BY <2>1, <2>4 DEF SessionInv, AlignedPart
  <2> DEFINE r == Len(requests)
  <2>6. /\ unread \in Seq(Byte) /\ buf \in Seq(Byte) /\ r \in Nat
        /\ Len(stream) \in Nat /\ Len(buf) \in Nat /\ Len(unread) \in Nat
        /\ Len(Rest) = Len(buf) + Len(unread) /\ BytesRead = Used + Len(buf)
    BY Positions, LenProperties DEF SessionInv
  <2>7. Delivered = r
    BY <2>6, EmptySeq DEF Delivered
  <2>8. r >= m
    <3> SUFFICES ASSUME r < m PROVE FALSE
      BY <2>6
    <3>1. ResumesAfter(r)
      BY <2>5 DEF Aligned
    <3>2. r + 1 \in 1..m /\ r + 1 \in 1..Len(ends)
      BY <2>1, <2>4, <2>6
    <3>3. OneObject(r + 1)
      BY <3>2 DEF InStep
    <3> HIDE DEF r
    <3>4. PICK e \in 1..Len(Rest) : Found(Rest, e) /\ Used + e = Resume(r + 1)
      BY <2>6, <3>1, <3>2, <3>3, ObjectAhead DEF SessionInv
    <3>5. Resume(r + 1) = ends[r + 1] - 1
      BY <2>6, <3>2 DEF Resume
    <3>6. BytesSent = ends[sent]
      BY <2>1 DEF BytesSent, StartOfLine
    <3>7. /\ ends[r + 1] \in 1..Len(stream) /\ ends[sent] \in 1..Len(stream)
          /\ ends[r + 1] <= ends[sent]
      <4>1. sent \in 1..Len(ends)
        BY <2>1, <2>4
      <4>2. ends[r + 1] \in 1..Len(stream) /\ ends[sent] \in 1..Len(stream)
        BY <2>1, <3>2, <4>1, LinesOf
      <4>3. CASE r + 1 = sent
        BY <2>6, <4>2, <4>3
      <4>4. CASE r + 1 # sent
        <5> DEFINE n == r + 1
        <5>1. n \in 1..Len(ends) /\ n < sent
          BY <2>1, <2>6, <3>2, <4>4
        <5> HIDE DEF n
        <5>2. ends[n] < ends[sent]
          BY <2>1, <4>1, <5>1, LinesOf
        <5> QED BY <2>6, <4>2, <5>2 DEF n
      <4> QED BY <4>3, <4>4
    <3>8. e \in 1..Len(buf)
      <4>1. Used \in Nat /\ e \in Nat \ {0}
        BY <2>1, <2>6
      <4>2. Used + e = ends[r + 1] - 1 /\ Used + Len(buf) = ends[sent]
        BY <2>6, <3>4, <3>5, <3>6
      <4>3. ends[r + 1] \in Nat /\ ends[sent] \in Nat /\ ends[r + 1] <= ends[sent]
        BY <2>6, <3>7
      <4> DEFINE y == ends[r + 1]
                 z == ends[sent]
                 u == Used
      <4>4. /\ y \in Nat /\ z \in Nat /\ y <= z /\ u \in Nat /\ e \in Nat \ {0}
            /\ u + e = y - 1 /\ u + Len(buf) = z /\ Len(buf) \in Nat
        BY <2>6, <4>1, <4>2, <4>3
      <4> HIDE DEF y, z, u
      <4>5. e <= Len(buf)
        BY <4>4
      <4> QED BY <2>6, <4>1, <4>5
    <3>9. Found(buf, e)
      BY <2>6, <3>4, <3>8, ScanPrefix DEF Rest
    <3> QED BY <2>1, <3>8, <3>9 DEF Found
  <2>9. Len(answered) >= m
    BY <2>5, <2>7, <2>8 DEF Aligned
  <2>10. m \in 1..Len(answered)
    BY <2>1, <2>3, <2>4, <2>9
  <2> QED BY <2>2, <2>3, <2>10
<1> QED BY <1>1, SessionInvariant, PTL

\* A session is one of the parser, whatever client and connection do: what is proved
\* of the parser holds in it.
THEOREM SessionImplementsParser == SessionSpec => Spec
<1>1. SessionInit => Init
  BY DEF SessionInit
<1>2. [SessionNext]_sessionVars => [Next]_vars
  BY DEF SessionNext, sessionVars, ReadSent, ReadEnd, Reply, Scan, Crash, Command,
         OnMessage, Leave, HangUp, Next, Progress
<1> QED BY <1>1, <1>2, PTL DEF SessionSpec, Spec

\* In a session read() is never asked for 0 bytes.
THEOREM SessionRoom == SessionSpec => []RoomToRead
<1> QED BY SessionImplementsParser, RoomCorrect, PTL

\* In a session the loop of cut_json_obj cuts every buffer as the brace counts do.
THEOREM SessionCut == SessionSpec => []CutAgrees
<1> QED BY SessionImplementsParser, CutCorrect, PTL

\* In a session the requests are those of the stream that the client sends, and the
\* parser stops early only for the reasons that RequestStream gives.
THEOREM SessionStream == SessionSpec => StreamSpec
<1> QED BY SessionImplementsParser, StreamImplemented, PTL
=============================================================================
