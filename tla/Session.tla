-------------------------------- MODULE Session --------------------------------
(***************************************************************************)
(* A page and its keychain: the JavaScript client numbers nothing, it puts *)
(* one callback into a queue for every message and gives the first one the *)
(* next reply; websocketd starts a keychain for the connection, makes a    *)
(* line of every message and a message of every line; keychain cuts its    *)
(* input into requests without regard to lines (PipelineParser) and writes *)
(* one reply for each.  Nothing but the order of all this ties a reply to  *)
(* the callback that waits for it.                                         *)
(***************************************************************************)
EXTENDS PipelineParser

CONSTANT MaxMessages  \* bound: messages the page sends

ASSUME SessionAssumption == MaxMessages \in Nat

VARIABLES
  stream,      \* all that the page sends, as the lines websocketd makes of it
  ends,        \* where the lines end
  connection,  \* of the page: "open" or "closed"
  sent,        \* messages sent so far
  queue,       \* the callbacks that wait, each by the number of its message
  wire,        \* replies on their way to the page, by number of their request
  answered     \* history: the callbacks called, each with the reply it got

client == <<connection, sent, queue, answered>>
sessionVars == <<vars, stream, ends, client, wire>>

StartOfLine(m) == IF m = 1 THEN 0 ELSE ends[m - 1]
Message(m)     == SubSeq(stream, StartOfLine(m) + 1, ends[m] - 1)

\* Lines end at a newline, which is white space to keychain, and the last one
\* ends the stream.
Lines(s) ==
  {e \in UNION {[1..n -> 1..Len(s)] : n \in 0..MaxMessages} :
     /\ \A m \in DOMAIN e : s[e[m]] = Space
     /\ \A m, n \in DOMAIN e : m < n => e[m] < e[n]
     /\ IF e = <<>> THEN s = <<>> ELSE e[Len(e)] = Len(s)}

SessionInit ==
  /\ Init
  /\ stream = unread
  /\ ends \in Lines(stream)
  /\ connection = "open"
  /\ sent = 0
  /\ queue = <<>> /\ wire = <<>> /\ answered = <<>>

-----------------------------------------------------------------------------
(* keychain, at the other end of websocketd's pipes. *)

BytesSent == StartOfLine(sent + 1)
BytesRead == Len(stream) - Len(unread)

\* Only what has been sent can be read, in pieces that need not be lines.
ReadSent ==
  /\ \E n \in 1..Len(unread) : BytesRead + n <= BytesSent /\ Read(n)
  /\ UNCHANGED <<stream, ends, client, wire>>

\* The pipe ends with the connection.
ReadEnd ==
  /\ ReadNothing
  /\ connection = "closed" \/ Room = 0
  /\ UNCHANGED <<stream, ends, client, wire>>

\* (Variant for mutation: the reply stays in a buffer, as it would in stdio's.)
ReplyBuffered ==
  /\ \E i \in 1..Len(buf) : HandOver(i)
  /\ UNCHANGED <<stream, ends, client, wire>>

\* The reply is a line, and so a message to the page.
Reply ==
  /\ \E i \in 1..Len(buf) : HandOver(i)
  /\ wire' = Append(wire, Len(requests'))
  /\ UNCHANGED <<stream, ends, client>>

Scan ==
  /\ ReadMore \/ TooLarge \/ \E i \in 1..Len(buf) : Throw(i)
  /\ UNCHANGED <<stream, ends, client, wire>>

Crash ==
  /\ ReadFails \/ Killed
  /\ UNCHANGED <<stream, ends, client, wire>>

-----------------------------------------------------------------------------
(* The page. *)

\* command: the message is sent and the callback put into the queue.  (On a socket
\* that is not open yet send throws and nothing happens; on one that has closed the
\* message is dropped, and the callback waits in a queue that nobody looks at.)
Command ==
  /\ connection = "open" /\ sent < Len(ends)
  /\ sent' = sent + 1
  /\ queue' = Append(queue, sent + 1)
  /\ UNCHANGED <<vars, stream, ends, connection, answered, wire>>

\* (Variant for mutation: the callback that came last is called.)
OnMessageLast ==
  /\ connection = "open" /\ wire # <<>>
  /\ wire' = Tail(wire)
  /\ IF queue = <<>> THEN UNCHANGED <<queue, answered>>
     ELSE /\ answered' = Append(answered, [callback |-> queue[Len(queue)], reply |-> Head(wire)])
          /\ queue' = SubSeq(queue, 1, Len(queue) - 1)
  /\ UNCHANGED <<vars, stream, ends, connection, sent>>

\* onmessage: the first callback is taken out of the queue and called; with no
\* callback in it the exception is caught and the reply is lost.
OnMessage ==
  /\ connection = "open" /\ wire # <<>>
  /\ wire' = Tail(wire)
  /\ IF queue = <<>> THEN UNCHANGED <<queue, answered>>
     ELSE /\ answered' = Append(answered, [callback |-> Head(queue), reply |-> Head(wire)])
          /\ queue' = Tail(queue)
  /\ UNCHANGED <<vars, stream, ends, connection, sent>>

\* The page is left.
Leave ==
  /\ connection = "open" /\ sent = Len(ends)
  /\ connection' = "closed"
  /\ UNCHANGED <<vars, stream, ends, sent, queue, wire, answered>>

\* websocketd closes the connection when keychain has ended and its output is sent.
HangUp ==
  /\ connection = "open" /\ status # "running" /\ wire = <<>>
  /\ connection' = "closed"
  /\ UNCHANGED <<vars, stream, ends, sent, queue, wire, answered>>

SessionNext ==
  \/ ReadSent \/ ReadEnd \/ Reply \/ Scan \/ Crash
  \/ Command \/ OnMessage \/ Leave \/ HangUp

SessionSpec == SessionInit /\ [][SessionNext]_sessionVars

\* keychain runs on and its user answers its dialogs; websocketd passes lines on
\* and notices the end of keychain.  The page need not send or leave.
FairSession ==
  /\ SessionSpec
  /\ WF_sessionVars(ReadSent \/ ReadEnd \/ Reply \/ Scan)
  /\ WF_sessionVars(OnMessage)
  /\ WF_sessionVars(HangUp)

-----------------------------------------------------------------------------
(* Properties. *)

\* Message m and those before it are objects whose braces are balanced, as
\* JSON.stringify makes them unless a string holds a brace without its partner.
OneObject(m) ==
  /\ Len(Message(m)) > 0 /\ Message(m)[1] = LBRACE
  /\ Found(Message(m), Len(Message(m)))
InStep(m) == \A n \in 1..m : OneObject(n)

\* Every variable has its type; no more is read than was sent, the replies on the
\* wire are those of the latest requests, and every message still has its
\* callback in the queue or has had it called.
SessionTypeOK ==
  /\ TypeOK
  /\ stream \in Seq(Byte)
  /\ ends \in Seq(1..Len(stream))
  /\ connection \in {"open", "closed"}
  /\ sent \in 0..Len(ends)
  /\ queue \in Seq(1..sent)
  /\ wire \in Seq(1..Len(requests))
  /\ answered \in Seq([callback : 1..sent, reply : 1..Len(requests)])
  /\ BytesRead \in 0..BytesSent
  /\ Len(queue) + Len(answered) = sent

\* A callback gets the reply to its own message, provided that this message and all
\* before it were single objects: however many wait, and however websocketd and the
\* reads of keychain cut and joined the lines.
OwnReply ==
  \A k \in DOMAIN answered :
    LET a == answered[k]
    IN  InStep(a.callback) =>
          a.reply = a.callback /\ requests[a.reply] = Message(a.callback)

\* When keychain waits for more and has read all that was sent, and no reply is on its
\* way, every such message has been answered: none is left behind in the buffer, in
\* the rest of a line or by a reply that went to another callback.
NoneOverdue ==
  status = "running" /\ pc = "read" /\ BytesRead = BytesSent /\ wire = <<>> =>
    \A m \in 1..sent : InStep(m) => \E k \in DOMAIN answered : answered[k].callback = m

\* Every such message has its callback called, unless the connection closes.
Called ==
  \A m \in 1..MaxMessages :
    m <= sent /\ InStep(m) ~>
      connection = "closed" \/ \E k \in DOMAIN answered : answered[k].callback = m

\* keychain ends after its connection: no request, reply or refill of the buffer
\* repeats for ever, and the end of the pipe is noticed.
Ends == connection = "closed" ~> status # "running"
=============================================================================
