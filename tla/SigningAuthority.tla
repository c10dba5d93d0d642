--------------------------- MODULE SigningAuthority ---------------------------
(***************************************************************************)
(* What keychain promises to the owner of the keys, who knows of no cache, *)
(* keyfile or button: a signature with an encrypted key goes to a request  *)
(* whose dialog the owner answered with the password, or that came while a *)
(* window was open which the owner had opened in the same process, since   *)
(* its last lock or restart.  Every signature is recorded before it is     *)
(* given out, a request is answered once, and one that is answered with    *)
(* anything else leaves no record.                                         *)
(***************************************************************************)
EXTENDS Integers

CONSTANTS Proc,        \* keychain processes
          Key,         \* key pairs
          Encrypted,   \* the keys that have a password
          Duration,    \* how long windows may be open, in seconds
          TicksPerSec, \* resolution of the clock
          Id           \* the requests

VARIABLES
  clock,     \* of the computer, which may be set
  windows,   \* windows[p]: those the owner opened in process p
  request,   \* request[p]: the request that p is serving, if any
  log,       \* the requests that are recorded
  signed,    \* the signatures given out
  answered   \* the requests answered with anything else

vars == <<clock, windows, request, log, signed, answered>>

Init ==
  /\ clock = 0
  /\ windows = [p \in Proc |-> {}]
  /\ request = [p \in Proc |-> {}]
  /\ log = {} /\ signed = {} /\ answered = {}

\* No one has had this request.
Fresh(id) ==
  /\ id \notin log \cup answered
  /\ \A s \in signed : s.id # id
  /\ \A p \in Proc : \A r \in request[p] : r.id # id

\* No password is needed for the key in process p now.
Entitled(p, k) ==
  \/ k \notin Encrypted
  \/ \E w \in windows[p] : w.key = k /\ (clock - w.from) \div TicksPerSec <= w.duration

\* A request is taken up, entitled to the key or not; a request that is entitled may
\* be treated as one that is not.
Ask(p) ==
  /\ request[p] = {}
  /\ \E id \in Id, k \in Key, entitled \in BOOLEAN :
       /\ Fresh(id)
       /\ entitled => Entitled(p, k)
       /\ request' = [request EXCEPT ![p] =
            {[id |-> id, key |-> k, entitled |-> entitled, stage |-> "asked", owner |-> FALSE]}]
  /\ UNCHANGED <<clock, windows, log, signed, answered>>

\* The owner's answer opens a window of the announced length, or none.
OpensWindow(p, k, owner) ==
  \/ UNCHANGED windows
  \/ /\ owner
     /\ \E d \in Duration :
          windows' = [windows EXCEPT ![p] = @ \cup {[key |-> k, from |-> clock, duration |-> d]}]

\* The owner agrees to a request, with the password if it is not entitled; or an
\* entitled request goes on without the owner.
Allow(p) ==
  /\ \E r \in request[p], owner \in BOOLEAN :
       /\ r.stage = "asked"
       /\ r.entitled \/ owner
       /\ OpensWindow(p, r.key, owner)
       /\ request' = [request EXCEPT ![p] = {[r EXCEPT !.stage = "allowed", !.owner = owner]}]
  /\ UNCHANGED <<clock, log, signed, answered>>

\* The same for a request that wants the window only.
Open(p) ==
  /\ \E r \in request[p], owner \in BOOLEAN :
       /\ r.stage = "asked"
       /\ r.entitled \/ owner
       /\ OpensWindow(p, r.key, owner)
       /\ answered' = answered \cup {r.id}
  /\ request' = [request EXCEPT ![p] = {}]
  /\ UNCHANGED <<clock, log, signed>>

Record(p) ==
  /\ \E r \in request[p] :
       /\ r.stage = "allowed"
       /\ log' = log \cup {r.id}
       /\ request' = [request EXCEPT ![p] = {[r EXCEPT !.stage = "recorded"]}]
  /\ UNCHANGED <<clock, windows, signed, answered>>

Sign(p) ==
  /\ \E r \in request[p] :
       /\ r.stage = "recorded"
       /\ signed' = signed \cup {[id |-> r.id, key |-> r.key, owner |-> r.owner]}
  /\ request' = [request EXCEPT ![p] = {}]
  /\ UNCHANGED <<clock, windows, log, answered>>

Refuse(p) ==
  /\ \E r \in request[p] :
       /\ r.stage # "recorded"
       /\ answered' = answered \cup {r.id}
  /\ request' = [request EXCEPT ![p] = {}]
  /\ UNCHANGED <<clock, windows, log, signed>>

\* A request that needs no key is answered as it comes; if it is a lock, it closes the
\* windows of the process.
Answer(p) ==
  /\ request[p] = {}
  /\ windows' \in {windows, [windows EXCEPT ![p] = {}]}
  /\ \E id \in Id : Fresh(id) /\ answered' = answered \cup {id}
  /\ UNCHANGED <<clock, request, log, signed>>

\* A restart closes them too, and forgets the request.
Restart(p) ==
  /\ windows' = [windows EXCEPT ![p] = {}]
  /\ request' = [request EXCEPT ![p] = {}]
  /\ UNCHANGED <<clock, log, signed, answered>>

Clock ==
  /\ clock' \in Int
  /\ UNCHANGED <<windows, request, log, signed, answered>>

Next ==
  \/ \E p \in Proc : \/ Ask(p) \/ Allow(p) \/ Open(p) \/ Record(p) \/ Sign(p)
                     \/ Refuse(p) \/ Answer(p) \/ Restart(p)
  \/ Clock

Spec == Init /\ [][Next]_vars
=============================================================================
