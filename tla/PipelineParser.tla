----------------------------- MODULE PipelineParser -----------------------------
(***************************************************************************)
(* pipeline_parser::run: it reads the pipe into a buffer in pieces of any  *)
(* size, cuts complete objects off the front, hands each to keychain and   *)
(* writes the reply before it looks for the next one, and lets the buffer  *)
(* grow when little room is left.                                          *)
(***************************************************************************)
EXTENDS RequestFraming

CONSTANTS InitialSize,  \* bytes of the buffer at the start: 4096
          Growth,       \* by how much it grows, and the room it must keep: 256
          Limit,        \* it grows no more once it is larger than this: 8192
          MaxStream     \* bound: bytes a client sends

ASSUME ConstantsAssumption ==
  /\ InitialSize \in Nat \ {0}
  /\ Growth \in Nat \ {0}
  /\ \E n \in 0..Limit : Limit = InitialSize + n * Growth
  /\ MaxStream \in Nat

VARIABLES
  unread,    \* what the client sends and the parser has not read
  buf,       \* the buffer from its beginning to the iterator `it'
  size,      \* read_buf.size()
  pc,        \* "read": before read(); "parse": before cut_json_obj
  requests,  \* history: the objects handed to keychain
  status     \* "running", or how run() ended

vars == <<unread, buf, size, pc, requests, status>>

Streams == UNION {[1..n -> Byte] : n \in 0..MaxStream}

Room == size - Len(buf)

Init ==
  /\ unread \in Streams
  /\ buf = <<>>
  /\ size = InitialSize
  /\ pc = "read"
  /\ requests = <<>>
  /\ status = "running"

\* read() returns n bytes, as many as fit at most.
Read(n) ==
  /\ status = "running" /\ pc = "read"
  /\ n <= Room
  /\ buf' = buf \o SubSeq(unread, 1, n)
  /\ unread' = SubSeq(unread, n + 1, Len(unread))
  /\ pc' = "parse"
  /\ UNCHANGED <<size, requests, status>>

\* (Variant for mutation: the end of the stream is not noticed.)
ReadNothingForever ==
  /\ status = "running" /\ pc = "read"
  /\ unread = <<>> \/ Room = 0
  /\ UNCHANGED vars

\* read() returns 0 when the client has closed the pipe, and when it is asked
\* for 0 bytes: run() returns 0 in either case.
ReadNothing ==
  /\ status = "running" /\ pc = "read"
  /\ unread = <<>> \/ Room = 0
  /\ status' = "finished"
  /\ UNCHANGED <<unread, buf, size, pc, requests>>

\* read() fails: run() is left, by the log statement that makes a string of the
\* result or by its return.
ReadFails ==
  /\ status = "running" /\ pc = "read"
  /\ status' = "broken"
  /\ UNCHANGED <<unread, buf, size, pc, requests>>

\* (Variant for mutation: what follows the object is thrown away.)
HandOverDropping(i) ==
  /\ status = "running" /\ pc = "parse"
  /\ Found(buf, i)
  /\ requests' = Append(requests, Request(buf, i))
  /\ buf' = <<>>
  /\ UNCHANGED <<unread, size, pc, status>>

\* The process is killed: by a write to the client that has gone, by one to a
\* password window that has gone, or from outside.
Killed ==
  /\ status = "running"
  /\ status' = "broken"
  /\ UNCHANGED <<unread, buf, size, pc, requests>>

\* An object is found: keychain handles it, the reply, possibly an error, is
\* written, and what follows the object is moved to the front of the buffer.
HandOver(i) ==
  /\ status = "running" /\ pc = "parse"
  /\ Found(buf, i)
  /\ requests' = Append(requests, Request(buf, i))
  /\ buf' = AfterFirst(buf, i)
  /\ UNCHANGED <<unread, size, pc, status>>

\* cut_json_obj throws, outside the try block of run().
Throw(i) ==
  /\ status = "running" /\ pc = "parse"
  /\ Refused(buf, i)
  /\ status' = "refused"
  /\ UNCHANGED <<unread, buf, size, pc, requests>>

Incomplete == \A i \in 1..Len(buf) : ~EndsAt(buf, i)

\* (Variants for mutation: the size has no limit; the buffer does not grow.)
ReadMoreUnlimited ==
  /\ status = "running" /\ pc = "parse"
  /\ Incomplete
  /\ size' = IF Room < Growth THEN size + Growth ELSE size
  /\ pc' = "read"
  /\ UNCHANGED <<unread, buf, requests, status>>

ReadMoreFixed ==
  /\ status = "running" /\ pc = "parse"
  /\ Incomplete
  /\ pc' = "read"
  /\ UNCHANGED <<unread, buf, size, requests, status>>

\* No complete object: the buffer grows if little room is left.
ReadMore ==
  /\ status = "running" /\ pc = "parse"
  /\ Incomplete
  /\ Room < Growth => size <= Limit
  /\ size' = IF Room < Growth THEN size + Growth ELSE size
  /\ pc' = "read"
  /\ UNCHANGED <<unread, buf, requests, status>>

TooLarge ==
  /\ status = "running" /\ pc = "parse"
  /\ Incomplete
  /\ Room < Growth /\ size > Limit
  /\ status' = "refused"
  /\ UNCHANGED <<unread, buf, size, pc, requests>>

Progress ==
  \/ \E n \in 1..Len(unread) : Read(n)
  \/ ReadNothing
  \/ \E i \in 1..Len(buf) : HandOver(i) \/ Throw(i)
  \/ ReadMore
  \/ TooLarge

Next == Progress \/ ReadFails \/ Killed

Spec == Init /\ [][Next]_vars

-----------------------------------------------------------------------------
(* Properties. *)

\* Every variable has its type, the bytes read fit into the buffer, and the
\* buffer's size stays between its first size and one growth above the limit.
TypeOK ==
  /\ unread \in Seq(Byte)
  /\ buf \in Seq(Byte)
  /\ size \in InitialSize..(Limit + Growth)
  /\ Len(buf) <= size
  /\ pc \in {"read", "parse"}
  /\ requests \in Seq(Seq(Byte))
  /\ status \in {"running", "finished", "refused", "broken"}

\* read() is never asked for 0 bytes, whose answer would be taken for the end of
\* the stream; and once the buffer has had to grow, never for fewer than Growth.
RoomToRead ==
  status = "running" /\ pc = "read" =>
    Room > 0 /\ (size > InitialSize => Room >= Growth)

\* On every buffer the parser meets, the loop of cut_json_obj finds the object, its
\* first byte and its last, or the byte to refuse, that the brace counts of
\* RequestFraming name.
CutAgrees == LoopAgrees(buf)

\* However the stream is cut into reads, the requests the keychain gets are those
\* of the stream, and run() ends early only for the reasons RequestStream gives.
Stream == INSTANCE RequestStream WITH rest <- buf \o unread
StreamSpec == Stream!Spec
=============================================================================
