----------------------------- MODULE PasswordDialog -----------------------------
(***************************************************************************)
(* What a password dialog promises to the one who asks for the password    *)
(* and to the one who types it, who know of no process, window, message or *)
(* focus: the password is the line with the cursor, which changes by one   *)
(* key at a time; it is given out only if the user has agreed, and, if it  *)
(* is asked for twice, only if both lines are alike or the user insists;   *)
(* otherwise nothing is, unless the dialog is interrupted.                 *)
(***************************************************************************)
EXTENDS Integers, Sequences

CONSTANTS Char,      \* characters a password is made of
          NoResult   \* the dialog has not given out anything

VARIABLES
  twice,     \* whether the password is asked for twice
  lines,     \* what the user has typed, as long as the dialog is open
  cursor,    \* the line that keys go to
  decision,  \* of the user: "none", "agreed", "refused", or "insisted": on lines
             \* that need not be alike
  interrupted,  \* whether the user could not type on
  state,     \* "open", "returned" or "failed"
  result     \* what is given out

vars == <<twice, lines, cursor, decision, interrupted, state, result>>

Line  == {0, 1}
Blank == [l \in Line |-> <<>>]

Init ==
  /\ twice \in BOOLEAN
  /\ lines = Blank /\ cursor = 0
  /\ decision = "none" /\ interrupted = FALSE
  /\ state = "open" /\ result = NoResult

Edited(line) ==
  {Append(line, c) : c \in Char} \cup {<<>>, SubSeq(line, 1, Len(line) - 1)}

Edit ==
  /\ state = "open"
  /\ \E line \in Edited(lines[cursor]) : lines' = [lines EXCEPT ![cursor] = line]
  /\ UNCHANGED <<twice, cursor, decision, interrupted, state, result>>

Switch ==
  /\ state = "open" /\ twice
  /\ cursor' = 1 - cursor
  /\ UNCHANGED <<twice, lines, decision, interrupted, state, result>>

\* A refusal may be taken back; who has agreed can only insist.
Decide ==
  /\ decision # "insisted"
  /\ decision' \in {"agreed", "refused", "insisted"}
  /\ decision = "agreed" => decision' = "insisted"
  /\ UNCHANGED <<twice, lines, cursor, interrupted, state, result>>

\* What has been typed is gone with the dialog.
End(s, r) ==
  /\ state = "open"
  /\ state' = s /\ result' = r
  /\ lines' = Blank /\ cursor' = 0
  /\ UNCHANGED <<twice, decision>>

Return ==
  /\ decision \in {"agreed", "insisted"}
  /\ twice /\ decision # "insisted" => lines[0] = lines[1]
  /\ End("returned", lines[cursor])
  /\ UNCHANGED interrupted

\* The dialog may end without a password at any time.
Cancel == End("returned", <<>>) /\ UNCHANGED interrupted
Fail   == End("failed", NoResult) /\ UNCHANGED interrupted

\* When the user can type no more, what has been typed may be given out.
Interrupt ==
  /\ interrupted' = TRUE
  /\ End("returned", lines[cursor]) \/ End("failed", NoResult)

Next == Edit \/ Switch \/ Decide \/ Return \/ Cancel \/ Fail \/ Interrupt

Spec == Init /\ [][Next]_vars
=============================================================================
