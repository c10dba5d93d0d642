----------------------------- MODULE RequestFraming -----------------------------
(***************************************************************************)
(* How a stream of bytes is cut into requests: cut_json_obj.  Of a byte    *)
(* only its part in the framing is kept: a brace (inside a JSON string or  *)
(* not), white space, or anything else.                                    *)
(*                                                                         *)
(* cut_json_obj scans a buffer from its beginning and counts braces.  The  *)
(* operators say the same of positions of the buffer, so that what they    *)
(* say of a position depends on the bytes up to it only.                   *)
(***************************************************************************)
EXTENDS Integers, Sequences, FiniteSets

LBRACE == "{"
RBRACE == "}"
Space  == " "
Other  == "x"
Byte   == {LBRACE, RBRACE, Space, Other}

\* brace_count when the scan has passed position i.
BraceCount(s, i) ==
  Cardinality({j \in 1..i : s[j] = LBRACE}) - Cardinality({j \in 1..i : s[j] = RBRACE})

\* (Variant for mutation: the first closing brace ends the object.)
ClosesEarly(s, i) == s[i] = RBRACE /\ BraceCount(s, i - 1) >= 1

\* The byte at i completes an object; or it may not stand outside an object.
Closes(s, i) == s[i] = RBRACE /\ BraceCount(s, i - 1) = 1
Stray(s, i)  == s[i] \in {RBRACE, Other} /\ BraceCount(s, i - 1) = 0

\* The scan of s gets past position i, or ends there.
Passes(s, i) == ~Closes(s, i) /\ ~Stray(s, i)
EndsAt(s, i) ==
  /\ i \in 1..Len(s)
  /\ ~Passes(s, i)
  /\ \A j \in 1..(i - 1) : Passes(s, j)

Found(s, i)   == EndsAt(s, i) /\ Closes(s, i)
Refused(s, i) == EndsAt(s, i) /\ Stray(s, i)

\* start_obj, and the bytes handed over.
Starts(s, i)     == {b \in 1..i : s[b] = LBRACE /\ BraceCount(s, b - 1) = 0}
StartOf(starts)  == CHOOSE b \in starts : TRUE
Request(s, i)    == SubSeq(s, StartOf(Starts(s, i)), i)
AfterFirst(s, i) == SubSeq(s, i + 1, Len(s))

-----------------------------------------------------------------------------
(* The loop itself. *)

LoopStart == [state |-> "scan", count |-> 0, start |-> 0, end |-> 0]

\* One round: brace_count, start_obj, and whether the loop goes on, has found an
\* object, or throws.
LoopStep(s, l, i) ==
  IF l.state # "scan" THEN l
  ELSE CASE s[i] = LBRACE /\ l.count = 0 -> [l EXCEPT !.start = i, !.count = 1]
         [] s[i] = LBRACE /\ l.count # 0 -> [l EXCEPT !.count = @ + 1]
         [] s[i] \in {RBRACE, Other} /\ l.count = 0 -> [l EXCEPT !.state = "throw", !.end = i]
         [] s[i] = RBRACE /\ l.count = 1 -> [l EXCEPT !.state = "found", !.end = i, !.count = 0]
         [] s[i] = RBRACE /\ l.count > 1 -> [l EXCEPT !.count = @ - 1]
         [] OTHER -> l

\* The loop over s after each of its bytes, and after the last one.
Loop(s) ==
  LET loop[i \in 0..Len(s)] ==
        IF i = 0 THEN LoopStart ELSE LoopStep(s, loop[i - 1], i)
  IN  loop
CutLoop(s) == Loop(s)[Len(s)]

\* Found, Refused and Request say of s what the loop computes for it.
LoopAgrees(s) ==
  LET l == CutLoop(s)
  IN  \A i \in 1..Len(s) :
        /\ Found(s, i) <=> l.state = "found" /\ l.end = i
        /\ Refused(s, i) <=> l.state = "throw" /\ l.end = i
        /\ Found(s, i) => Request(s, i) = SubSeq(s, l.start, l.end)
=============================================================================
