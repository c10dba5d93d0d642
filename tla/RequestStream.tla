----------------------------- MODULE RequestStream -----------------------------
(***************************************************************************)
(* What pipeline_parser promises its client, who sees no reads and no      *)
(* buffer: the requests of the stream are handed to keychain one by one,   *)
(* in order and whole; the parser stops early only at a byte that cannot   *)
(* stand between two requests, or for a request of more than Limit bytes,  *)
(* or because the pipe breaks; and at the end of the stream no complete    *)
(* request is left.                                                        *)
(***************************************************************************)
EXTENDS RequestFraming

CONSTANT Limit   \* bytes a request, with the white space before it, may always have

VARIABLES
  rest,      \* the stream from the first byte that no request has used
  requests,  \* the requests handed over
  status     \* "running", or how run() ended

vars == <<rest, requests, status>>

Init ==
  /\ rest \in Seq(Byte)
  /\ requests = <<>>
  /\ status = "running"

HandOver ==
  /\ status = "running"
  /\ \E i \in 1..Len(rest) :
       /\ Found(rest, i)
       /\ requests' = Append(requests, Request(rest, i))
       /\ rest' = AfterFirst(rest, i)
  /\ UNCHANGED status

Refuse ==
  /\ status = "running"
  /\ \/ \E i \in 1..Len(rest) : Refused(rest, i)
     \/ Len(rest) > Limit /\ \A i \in 1..Limit : ~EndsAt(rest, i)
  /\ status' = "refused"
  /\ UNCHANGED <<rest, requests>>

Finish ==
  /\ status = "running"
  /\ \A i \in 1..Len(rest) : ~EndsAt(rest, i)
  /\ status' = "finished"
  /\ UNCHANGED <<rest, requests>>

Break ==
  /\ status = "running"
  /\ status' = "broken"
  /\ UNCHANGED <<rest, requests>>

Next == HandOver \/ Refuse \/ Finish \/ Break

Spec == Init /\ [][Next]_vars
=============================================================================
