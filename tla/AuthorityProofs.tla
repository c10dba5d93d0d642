---------------------------- MODULE AuthorityProofs ----------------------------
(***************************************************************************)
(* Keychain implements SigningAuthority, for any processes, keys, unlock   *)
(* times, secure module and clock: every step of it is a step of the       *)
(* abstract specification, or none that the owner of the keys would see.   *)
(***************************************************************************)
EXTENDS KeychainLogProofs

-----------------------------------------------------------------------------
(* What the steps need to know. *)

\* Approvals are of epochs that have begun, and a signature has the id of a command.
PastOnly ==
  /\ \A a \in approvals : a.epoch <= epoch[a.proc]
  /\ \A s \in signatures : s.id < issued

AuthorityInv == PasswordInv /\ LogInv /\ PastOnly

LEMMA LogInvariant == Spec => []LogInv
<1>1. Init /\ TypeOK => LogInv
  BY DEF Init, LogInv, IdsFresh, OpUnanswered, LogMatchesAnswer, Busy
<1> QED BY <1>1, TypeCorrect, NextLog, PTL DEF Spec

\* Epochs and ids only grow, and what is added is of the present.
LEMMA NextPast == TypeOK /\ LogInv /\ PastOnly /\ [Next]_vars => PastOnly'
<1> SUFFICES ASSUME TypeOK, LogInv, PastOnly, [Next]_vars PROVE PastOnly'
  OBVIOUS
<1> USE DEF history
<1>1. /\ issued \in Nat /\ epoch \in [Proc -> Nat]
      /\ \A a \in approvals : a.proc \in Proc /\ a.epoch \in Nat
      /\ \A s \in signatures : s.id \in Nat
  <2>1. issued \in Nat
    BY ConstantsAssumption DEF TypeOK
  <2> QED BY <2>1 DEF TypeOK, Approval, Signature
<1>2. ASSUME issued' \in {issued, issued + 1}, approvals' = approvals,
             signatures' = signatures,
             \/ epoch' = epoch
             \/ \E p \in Proc : epoch' = [epoch EXCEPT ![p] = @ + 1]
      PROVE  PastOnly'
  <2>1. \A q \in Proc : epoch'[q] >= epoch[q] /\ epoch'[q] \in Nat
    BY <1>1, <1>2
  <2>2. \A a \in approvals' : a.epoch <= epoch'[a.proc]
    <3> SUFFICES ASSUME NEW a \in approvals PROVE a.epoch <= epoch'[a.proc]
      BY <1>2
    <3>1. a.epoch <= epoch[a.proc] /\ a.proc \in Proc /\ a.epoch \in Nat
      BY <1>1 DEF PastOnly
    <3> DEFINE q == a.proc
    <3>2. q \in Proc /\ a.epoch <= epoch[q] /\ epoch'[q] >= epoch[q] /\ epoch[q] \in Nat
          /\ epoch'[q] \in Nat
      BY <3>1, <1>1, <2>1
    <3> HIDE DEF q
    <3>3. a.epoch <= epoch'[q]
      BY <3>1, <3>2
    <3> QED BY <3>3 DEF q
  <2>3. \A s \in signatures' : s.id < issued'
    BY <1>1, <1>2 DEF PastOnly
  <2> QED BY <2>2, <2>3 DEF PastOnly
<1>3. ASSUME NEW p \in Proc,
             \/ AnswerAtOnce(p) \/ \E u \in Act : SelectKey(p, u)
             \/ \E c \in Command : OpenDialog(p, c) \/ KeyNotFound(p, c)
      PROVE  PastOnly'
  BY <1>2, <1>3 DEF AnswerAtOnce, SelectKey, OpenDialog, KeyNotFound, Receive
<1>4. ASSUME NEW p \in Proc, Lock(p) \/ Restart(p) PROVE PastOnly'
  BY <1>2, <1>4 DEF Lock, Restart, Receive
<1>5. ASSUME NEW p \in Proc, NEW u \in Act, ReleaseKey(p, u) PROVE PastOnly'
  <2>1. issued' = issued /\ epoch' = epoch /\ signatures' = signatures
    BY <1>5 DEF ReleaseKey
  <2>2. \A a \in approvals' : a \in approvals \/ (a.proc = p /\ a.epoch = epoch[p])
    BY <1>5 DEF ReleaseKey
  <2>3. epoch[p] \in Nat
    BY <1>1
  <2> QED BY <1>1, <2>1, <2>2, <2>3 DEF PastOnly
<1>6. ASSUME NEW p \in Proc, Reply(p) PROVE PastOnly'
  <2>1. issued' = issued /\ epoch' = epoch /\ approvals' = approvals
    BY <1>6 DEF Reply
  <2>2. op[p].id < issued
    BY <1>6 DEF Reply, LogInv, IdsFresh, Busy
  <2>3. \A s \in signatures' : s \in signatures \/ s.id = op[p].id
    BY <1>6 DEF Reply
  <2> QED BY <2>1, <2>2, <2>3 DEF PastOnly
<1>7. ASSUME NEW p \in Proc,
             SignAndLog(p) \/ SignFails(p) \/ \E u \in Act : RefuseKey(p, u)
      PROVE  PastOnly'
  BY <1>2, <1>7 DEF SignAndLog, SignFails, RefuseKey
<1>8. CASE (\E k \in Key : AddKeyfile(k)) \/ Tick \/ \E d \in ClockSteps : SetClockBack(d)
  BY <1>2, <1>8 DEF AddKeyfile, Tick, SetClockBack
<1>9. CASE UNCHANGED vars
  BY <1>2, <1>9 DEF vars
<1> QED BY <1>3, <1>4, <1>5, <1>6, <1>7, <1>8, <1>9 DEF Next, Serve

LEMMA AuthorityInvariant == Spec => []AuthorityInv
<1>1. Init => PastOnly
  BY DEF Init, PastOnly
<1> QED BY <1>1, NextPast, TypeCorrect, PasswordInvariant, LogInvariant, PTL
        DEF Spec, AuthorityInv

-----------------------------------------------------------------------------
(* What the owner sees of a step. *)

\* A function that a step changes at p only.
LEMMA ChangedAt ==
  ASSUME NEW S, NEW p \in S, NEW f, NEW g, NEW v,
         f = [q \in S |-> f[q]], g = [q \in S |-> g[q]],
         g[p] = v, \A q \in S : q # p => g[q] = f[q]
  PROVE  g = [f EXCEPT ![p] = v]
<1> DEFINE h == [f EXCEPT ![p] = v]
<1>1. h = [q \in S |-> h[q]] /\ \A q \in S : h[q] = g[q]
  OBVIOUS
<1> HIDE DEF h
<1>2. h = g
  BY <1>1
<1> QED BY <1>2 DEF h

LEMMA RequestsAt ==
  /\ Requests = [p \in Proc |-> Requests[p]]
  /\ \A p \in Proc : Requests[p] = IF pc[p] = "idle" THEN {} ELSE {Held(p)}
  /\ Requests' = [p \in Proc |-> Requests'[p]]
  /\ \A p \in Proc : Requests'[p] = IF pc'[p] = "idle" THEN {} ELSE {Held(p)'}
BY DEF Requests

LEMMA WindowsAt ==
  /\ Windows = [p \in Proc |-> Windows[p]]
  /\ \A p \in Proc :
       Windows[p] = {WindowOf(a) : a \in {b \in approvals : b.proc = p /\ b.epoch = epoch[p]}}
  /\ Windows' = [p \in Proc |-> Windows'[p]]
  /\ \A p \in Proc :
       Windows'[p] = {WindowOf(a) : a \in {b \in approvals' : b.proc = p /\ b.epoch = epoch'[p]}}
BY DEF Windows, WindowOf

\* The request that a process holds is changed by its own steps only.
LEMMA RequestChanged ==
  ASSUME NEW p \in Proc, \A q \in Proc : q # p => pc'[q] = pc[q] /\ op'[q] = op[q]
  PROVE  /\ pc'[p] = "idle" => Requests' = [Requests EXCEPT ![p] = {}]
         /\ pc'[p] # "idle" => Requests' = [Requests EXCEPT ![p] = {Held(p)'}]
<1>1. \A q \in Proc : q # p => Requests'[q] = Requests[q]
  <2> SUFFICES ASSUME NEW q \in Proc, q # p PROVE Requests'[q] = Requests[q]
    OBVIOUS
  <2>1. pc'[q] = pc[q] /\ op'[q] = op[q]
    OBVIOUS
  <2>2. Held(q)' = Held(q)
    BY <2>1, Zenon DEF Held
  <2> QED BY <2>1, <2>2, RequestsAt
<1>2. Requests' = [q \in Proc |-> Requests'[q]]
  BY RequestsAt
<1>3. Requests = [q \in Proc |-> Requests[q]]
  BY RequestsAt
<1>4. Requests'[p] = IF pc'[p] = "idle" THEN {} ELSE {Held(p)'}
  BY RequestsAt
<1>5. Requests' = [Requests EXCEPT ![p] = Requests'[p]]
  BY <1>1, <1>2, <1>3, ChangedAt
<1> QED BY <1>4, <1>5

LEMMA RequestsKept == ASSUME pc' = pc, op' = op PROVE Requests' = Requests
BY DEF Requests, Held

\* A command that is finished is held no longer, and answered once.
LEMMA Finished ==
  ASSUME TypeOK, NEW p \in Proc, NEW id, NEW kind, Finish(p, id, kind)
  PROVE  /\ Requests' = [Requests EXCEPT ![p] = {}]
         /\ pc[p] = "idle" => Requests' = Requests
         /\ kind = "other" => Answered' = Answered \cup {id}
         /\ kind # "other" => Answered' = Answered
<1>1. pc'[p] = "idle" /\ \A q \in Proc : q # p => pc'[q] = pc[q] /\ op'[q] = op[q]
  BY FinishControl
<1>2. Requests' = [Requests EXCEPT ![p] = {}]
  BY <1>1, RequestChanged
<1>3. pc[p] = "idle" => Requests' = Requests
  <2> SUFFICES ASSUME pc[p] = "idle" PROVE Requests' = Requests
    OBVIOUS
  <2>1. Requests[p] = {}
    BY RequestsAt
  <2>2. Requests = [Requests EXCEPT ![p] = {}]
    BY <2>1, RequestsAt
  <2> QED BY <1>2, <2>2
<1>4. \A a : a \in answers' <=> a \in answers \/ a = [id |-> id, kind |-> kind]
  BY DEF Finish
<1>5. /\ kind = "other" => Answered' = Answered \cup {id}
      /\ kind # "other" => Answered' = Answered
  <2> DEFINE o == {b \in answers : b.kind = "other"}
             n == {b \in answers' : b.kind = "other"}
             a == [id |-> id, kind |-> kind]
  <2>1. a.kind = kind /\ a.id = id
    OBVIOUS
  <2>2. \A x : x \in answers' <=> x \in answers \/ x = a
    BY <1>4
  <2> HIDE DEF a
  <2>3. kind = "other" => n = o \cup {a}
    BY <2>1, <2>2
  <2>4. kind # "other" => n = o
    BY <2>1, <2>2
  <2>5. Answered = {x.id : x \in o} /\ Answered' = {x.id : x \in n}
    BY DEF Answered
  <2> HIDE DEF o, n
  <2> QED BY <2>1, <2>3, <2>4, <2>5
<1> QED BY <1>2, <1>3, <1>5

LEMMA WindowsKept ==
  ASSUME approvals' = approvals, epoch' = epoch PROVE Windows' = Windows
BY DEF Windows, WindowOf

\* A lock and a restart leave no approval of the epoch that begins.
LEMMA WindowsClosed ==
  ASSUME TypeOK, PastOnly, NEW p \in Proc, approvals' = approvals,
         epoch' = [epoch EXCEPT ![p] = @ + 1]
  PROVE  Windows' = [Windows EXCEPT ![p] = {}]
<1>1. epoch'[p] = epoch[p] + 1 /\ epoch[p] \in Nat
      /\ \A q \in Proc : q # p => epoch'[q] = epoch[q]
  BY DEF TypeOK
<1>2. \A a \in approvals : a.epoch \in Nat
  BY DEF TypeOK, Approval
<1>3. Windows'[p] = {}
  <2>1. \A a \in approvals' : ~(a.proc = p /\ a.epoch = epoch'[p])
    BY <1>1, <1>2 DEF PastOnly
  <2> QED BY <2>1, WindowsAt
<1>4. \A q \in Proc : q # p => Windows'[q] = Windows[q]
  <2> SUFFICES ASSUME NEW q \in Proc, q # p PROVE Windows'[q] = Windows[q]
    OBVIOUS
  <2>1. {b \in approvals' : b.proc = q /\ b.epoch = epoch'[q]}
          = {b \in approvals : b.proc = q /\ b.epoch = epoch[q]}
    BY <1>1
  <2> QED BY <2>1, WindowsAt, Zenon
<1>5. Windows' = [q \in Proc |-> Windows'[q]] /\ Windows = [q \in Proc |-> Windows[q]]
  BY WindowsAt
<1> QED BY <1>3, <1>4, <1>5, ChangedAt

\* An approval opens a window for its key, from that moment.
LEMMA WindowOpened ==
  ASSUME NEW p \in Proc, NEW a, a.proc = p, a.epoch = epoch[p],
         approvals' = approvals \cup {a}, epoch' = epoch
  PROVE  Windows' = [Windows EXCEPT ![p] = @ \cup {WindowOf(a)}]
<1> DEFINE b == approvals
           of(S, q) == {x \in S : x.proc = q /\ x.epoch = epoch[q]}
<1>1. of(approvals', p) = of(b, p) \cup {a} /\ \A q \in Proc : q # p => of(approvals', q) = of(b, q)
  OBVIOUS
<1>2. \A q \in Proc : Windows'[q] = {WindowOf(x) : x \in of(approvals', q)}
  BY WindowsAt DEF WindowOf
<1>3. \A q \in Proc : Windows[q] = {WindowOf(x) : x \in of(b, q)}
  BY WindowsAt
<1> HIDE DEF b, of
<1>4. Windows'[p] = Windows[p] \cup {WindowOf(a)}
  BY <1>1, <1>2, <1>3
<1>5. \A q \in Proc : q # p => Windows'[q] = Windows[q]
  BY <1>1, <1>2, <1>3
<1>6. Windows' = [q \in Proc |-> Windows'[q]] /\ Windows = [q \in Proc |-> Windows[q]]
  BY WindowsAt
<1> QED BY <1>4, <1>5, <1>6, ChangedAt

\* The id of a command that arrives is fresh.
LEMMA IdIsFresh ==
  ASSUME AuthorityInv, issued < MaxCommands
  PROVE  issued \in 0..MaxCommands /\ Authority!Fresh(issued)
<1>1. issued \in Nat /\ MaxCommands \in Nat
  BY ConstantsAssumption DEF AuthorityInv, LogInv, TypeOK
<1>2. /\ issued \notin rows
      /\ \A a \in answers : a.id # issued
      /\ \A s \in signatures : s.id # issued
      /\ \A p \in Proc : pc[p] # "idle" => op[p].id # issued
  BY <1>1 DEF AuthorityInv, LogInv, IdsFresh, PastOnly, Busy
<1>3. issued \notin Answered
  BY <1>2 DEF Answered
<1>4. \A s \in Signed : s.id # issued
  BY <1>2 DEF Signed
<1>5. \A p \in Proc : \A r \in Requests[p] : r.id # issued
  BY <1>2, RequestsAt DEF Held
<1> QED BY <1>1, <1>2, <1>3, <1>4, <1>5 DEF Authority!Fresh

\* Who is not asked for a password needs none.
LEMMA NoPasswordNeeded ==
  ASSUME AuthorityInv, NEW p \in Proc, NEW c \in Command,
         NoPassword(p, c) \/ c.key \notin Protected
  PROVE  Authority!Entitled(p, c.key)
<1>1. CASE c.key \notin Protected
  BY <1>1 DEF Authority!Entitled
<1>2. CASE c.key \in Protected
  <2>1. WindowApproved(p, epoch[p], c.key, Clock)
    BY <1>2, UnlockedApproved DEF AuthorityInv, PasswordInv
  <2>2. PICK a \in approvals :
          /\ a.proc = p /\ a.epoch = epoch[p] /\ a.key = c.key
          /\ (Clock - a.clock) \div TicksPerSec <= a.duration
    BY <2>1 DEF WindowApproved
  <2>3. WindowOf(a) \in Windows[p]
    BY <2>2, WindowsAt
  <2>4. /\ WindowOf(a).key = c.key
        /\ (Clock - WindowOf(a).from) \div TicksPerSec <= WindowOf(a).duration
    BY <2>2 DEF WindowOf
  <2> QED BY <2>3, <2>4 DEF Authority!Entitled
<1> QED BY <1>1, <1>2

-----------------------------------------------------------------------------
(* The steps. *)

LEMMA ClockKept == ASSUME now' = now, skew' = skew PROVE Clock' = Clock
BY DEF Clock

LEMMA SignedKept == ASSUME signatures' = signatures PROVE Signed' = Signed
BY DEF Signed

\* What a process knows that holds a command.
LEMMA Holding ==
  ASSUME TypeOK, NEW p \in Proc, pc[p] # "idle"
  PROVE  /\ Requests[p] = {Held(p)}
         /\ Held(p).id = op[p].id /\ Held(p).key = op[p].cmd.key
         /\ Held(p).entitled = NeedsNothing(op[p])
         /\ Held(p).owner = (op[p].act = "ok")
         /\ Held(p).stage = Stage[pc[p]]
         /\ pc[p] = "dialog" => Held(p).stage = "asked"
         /\ pc[p] = "secret" => Held(p).stage = "allowed"
         /\ pc[p] = "logged" => Held(p).stage = "recorded"
<1>1. Requests[p] = {Held(p)}
  BY RequestsAt
<1>2. pc[p] \in {"dialog", "secret", "logged"}
  BY DEF TypeOK
<1>3. /\ Stage["dialog"] = "asked" /\ Stage["secret"] = "allowed"
      /\ Stage["logged"] = "recorded"
  BY DEF Stage
<1> QED BY <1>1, <1>2, <1>3 DEF Held

\* A command that is answered as it arrives.
LEMMA AnswerStep ==
  ASSUME AuthorityInv, NEW p \in Proc, Receive(p), Finish(p, issued, "other"),
         UNCHANGED <<now, skew, rows, epoch, approvals, signatures>>
  PROVE  Authority!Answer(p)
<1>1. TypeOK /\ pc[p] = "idle" /\ issued < MaxCommands
  BY DEF AuthorityInv, LogInv, Receive
<1>2. Requests[p] = {}
  BY <1>1, RequestsAt
<1>3. Requests' = Requests /\ Answered' = Answered \cup {issued}
  BY <1>1, Finished
<1>4. issued \in 0..MaxCommands /\ Authority!Fresh(issued)
  BY <1>1, IdIsFresh
<1>5. Windows' = Windows /\ Clock' = Clock /\ Signed' = Signed
  BY WindowsKept, ClockKept, SignedKept
<1> QED BY <1>2, <1>3, <1>4, <1>5 DEF Authority!Answer

\* lock closes the windows of its process.
LEMMA LockStep ==
  ASSUME AuthorityInv, NEW p \in Proc, Lock(p)
  PROVE  Authority!Answer(p)
<1>1. TypeOK /\ PastOnly /\ pc[p] = "idle" /\ issued < MaxCommands
  BY DEF AuthorityInv, LogInv, Lock, Receive
<1>2. Requests[p] = {}
  BY <1>1, RequestsAt
<1>3. Requests' = Requests /\ Answered' = Answered \cup {issued}
  BY <1>1, Finished DEF Lock
<1>4. issued \in 0..MaxCommands /\ Authority!Fresh(issued)
  BY <1>1, IdIsFresh
<1>5. Windows' = [Windows EXCEPT ![p] = {}]
  BY <1>1, WindowsClosed DEF Lock
<1>6. Clock' = Clock /\ Signed' = Signed /\ rows' = rows
  BY ClockKept, SignedKept DEF Lock
<1> QED BY <1>2, <1>3, <1>4, <1>5, <1>6 DEF Authority!Answer

\* get_private_key, when it opens a dialog, takes the request up.
LEMMA AskStep ==
  ASSUME AuthorityInv, NEW p \in Proc, NEW c \in Command, OpenDialog(p, c)
  PROVE  Authority!Ask(p)
<1> USE DEF history
<1>1. TypeOK /\ pc[p] = "idle" /\ issued < MaxCommands
  BY DEF AuthorityInv, LogInv, OpenDialog, Receive
<1>2. Requests[p] = {}
  BY <1>1, RequestsAt
<1>3. issued \in 0..MaxCommands /\ Authority!Fresh(issued)
  BY <1>1, IdIsFresh
<1> DEFINE entitled == NoPassword(p, c) \/ c.key \notin Protected
<1>4. c.key \in Key /\ entitled \in BOOLEAN
  BY CommandFields
<1>5. entitled => Authority!Entitled(p, c.key)
  BY NoPasswordNeeded
<1>6. /\ pc'[p] = "dialog" /\ \A q \in Proc : q # p => pc'[q] = pc[q] /\ op'[q] = op[q]
      /\ op'[p] = [id |-> issued, cmd |-> c, no_password |-> NoPassword(p, c),
                   checked |-> now, clock |-> Clock, typed |-> FALSE, act |-> "none"]
  BY <1>1 DEF OpenDialog, TypeOK
<1>7. Held(p)' = [id |-> issued, key |-> c.key, entitled |-> entitled,
                  stage |-> "asked", owner |-> FALSE]
  <2>1. Stage[pc'[p]] = "asked"
    BY <1>6 DEF Stage
  <2>2. /\ op'[p].id = issued /\ op'[p].cmd = c /\ op'[p].no_password = NoPassword(p, c)
        /\ op'[p].act = "none"
    BY <1>6
  <2>3. (op'[p].act = "ok") = FALSE
    BY <2>2
  <2>4. NeedsNothing(op'[p]) = entitled
    BY <2>2 DEF NeedsNothing
  <2> HIDE DEF entitled
  <2>5. Held(p)' = [id |-> op'[p].id, key |-> op'[p].cmd.key,
                    entitled |-> NeedsNothing(op'[p]),
                    stage |-> Stage[pc'[p]], owner |-> op'[p].act = "ok"]
    BY Zenon DEF Held, Stage
  <2> QED BY <2>1, <2>2, <2>3, <2>4, <2>5, Zenon
<1> HIDE DEF entitled
<1>8. Requests' = [Requests EXCEPT ![p] =
        {[id |-> issued, key |-> c.key, entitled |-> entitled,
          stage |-> "asked", owner |-> FALSE]}]
  <2>1. Requests' = [Requests EXCEPT ![p] = {Held(p)'}]
    BY <1>6, RequestChanged
  <2> QED BY <1>7, <2>1
<1>9. /\ Windows' = Windows /\ Clock' = Clock /\ Signed' = Signed /\ rows' = rows
      /\ Answered' = Answered
  BY WindowsKept, ClockKept, SignedKept DEF OpenDialog, Answered
<1> QED BY <1>2, <1>3, <1>4, <1>5, <1>8, <1>9 DEF Authority!Ask

\* What a dialog that releases the key tells of the owner, and the window it may open.
LEMMA ReleaseFacts ==
  ASSUME AuthorityInv, NEW p \in Proc, NEW u \in Act, ReleaseKey(p, u)
  PROVE  /\ TypeOK /\ pc[p] = "dialog"
         /\ NeedsNothing(op[p]) \/ u = "ok"
         /\ Authority!OpensWindow(p, op[p].cmd.key, u = "ok")
         /\ Clock' = Clock /\ rows' = rows /\ Signed' = Signed
<1> USE DEF history
<1>1. TypeOK /\ pc[p] = "dialog" /\ op[p] \in Op /\ op[p].cmd \in Command
  BY BusyOp DEF AuthorityInv, LogInv, ReleaseKey
<1>2. NeedsNothing(op[p]) \/ u = "ok"
  <2>1. op[p].no_password \in BOOLEAN
    BY <1>1 DEF Op
  <2> SUFFICES ASSUME op[p].no_password = FALSE, op[p].cmd.key \in Protected
               PROVE  u = "ok"
    BY <2>1 DEF NeedsNothing
  <2>2. u \in UserAct(FALSE) /\ Grants(button[p], FALSE, op[p].cmd.key, u)
    BY DEF ReleaseKey
  <2> QED BY <2>2, GrantNeedsPassword
<1>3. Clock' = Clock /\ rows' = rows /\ Signed' = Signed
  BY ClockKept, SignedKept DEF ReleaseKey
<1> DEFINE c == op[p].cmd
           a == [proc |-> p, epoch |-> epoch[p], key |-> c.key,
                 duration |-> c.unlock_time, clock |-> Clock, at |-> now]
<1>4. Authority!OpensWindow(p, c.key, u = "ok")
  <2>1. CASE c.unlock_time > 0 /\ u = "ok"
    <3>1. approvals' = approvals \cup {a} /\ epoch' = epoch
      BY <2>1 DEF ReleaseKey
    <3>2. /\ a.proc = p /\ a.epoch = epoch[p]
          /\ WindowOf(a) = [key |-> c.key, from |-> Clock, duration |-> c.unlock_time]
      BY DEF WindowOf
    <3>3. c.unlock_time \in Duration
      BY <1>1, <2>1, CommandFields
    <3> HIDE DEF a
    <3>4. Windows' = [Windows EXCEPT ![p] = @ \cup {WindowOf(a)}]
      BY <3>1, <3>2, WindowOpened
    <3> QED BY <2>1, <3>2, <3>3, <3>4 DEF Authority!OpensWindow
  <2>2. CASE ~(c.unlock_time > 0 /\ u = "ok")
    <3>1. approvals' = approvals /\ epoch' = epoch
      BY <2>2 DEF ReleaseKey
    <3> QED BY <3>1, WindowsKept DEF Authority!OpensWindow
  <2> QED BY <2>1, <2>2
<1> QED BY <1>1, <1>2, <1>3, <1>4

\* A released key goes to the request that holds the dialog; an unlock command only
\* leaves its window.
LEMMA ReleaseStep ==
  ASSUME AuthorityInv, NEW p \in Proc, NEW u \in Act, ReleaseKey(p, u)
  PROVE  Authority!Allow(p) \/ Authority!Open(p)
<1> USE DEF history
<1> DEFINE r == Held(p)
           owner == u = "ok"
<1>1. /\ TypeOK /\ pc[p] = "dialog"
      /\ NeedsNothing(op[p]) \/ owner
      /\ Authority!OpensWindow(p, op[p].cmd.key, owner)
      /\ Clock' = Clock /\ rows' = rows /\ Signed' = Signed
  BY ReleaseFacts
<1>2. /\ Requests[p] = {r} /\ r.id = op[p].id /\ r.key = op[p].cmd.key
      /\ r.entitled = NeedsNothing(op[p]) /\ r.stage = "asked"
  BY <1>1, Holding
<1>3. owner \in BOOLEAN
  OBVIOUS
<1>4. CASE op[p].cmd.name = "unlock"
  <2>1. Finish(p, op[p].id, "other")
    BY <1>4 DEF ReleaseKey
  <2>2. /\ Requests' = [Requests EXCEPT ![p] = {}]
        /\ Answered' = Answered \cup {op[p].id}
    BY <1>1, <2>1, Finished
  <2> HIDE DEF r, owner
  <2> QED BY <1>1, <1>2, <1>3, <2>2 DEF Authority!Open
<1>5. CASE op[p].cmd.name # "unlock"
  <2>1. /\ pc' = [pc EXCEPT ![p] = "secret"] /\ answers' = answers
        /\ op' = [op EXCEPT ![p].typed = u = "ok" /\ ~op[p].no_password,
                            ![p].act = u]
    BY <1>5 DEF ReleaseKey
  <2>2. /\ pc'[p] = "secret"
        /\ \A q \in Proc : q # p => pc'[q] = pc[q] /\ op'[q] = op[q]
    BY <1>1, <2>1 DEF TypeOK
  <2>3. /\ op'[p].id = op[p].id /\ op'[p].cmd = op[p].cmd /\ op'[p].act = u
        /\ op'[p].no_password = op[p].no_password
    <3>1. op[p] \in Op /\ op \in [Proc -> Op \cup {None}]
      BY <1>1, BusyOp DEF TypeOK
    <3> QED BY <2>1, <3>1 DEF Op
  <2>4. Held(p)' = [r EXCEPT !.stage = "allowed", !.owner = owner]
    <3>1. Stage[pc'[p]] = "allowed" /\ Stage' = Stage
      BY <2>2 DEF Stage
    <3>2. Held(p)' = [id |-> op'[p].id, key |-> op'[p].cmd.key,
                      entitled |-> NeedsNothing(op'[p]),
                      stage |-> Stage[pc'[p]], owner |-> op'[p].act = "ok"]
      BY <3>1, Zenon DEF Held
    <3>2a. NeedsNothing(op'[p]) = NeedsNothing(op[p])
      BY <2>3 DEF NeedsNothing
    <3>3. Held(p)' = [id |-> op[p].id, key |-> op[p].cmd.key,
                      entitled |-> NeedsNothing(op[p]),
                      stage |-> "allowed", owner |-> owner]
      BY <2>3, <3>1, <3>2, <3>2a, Zenon
    <3> DEFINE o == op[p].act = "ok"
    <3>4. r = [id |-> op[p].id, key |-> op[p].cmd.key, entitled |-> NeedsNothing(op[p]),
               stage |-> Stage[pc[p]], owner |-> o]
      BY Zenon DEF Held
    <3> HIDE DEF o, r, owner
    <3> DEFINE r1 == [r EXCEPT !.stage = "allowed"]
               r2 == [r1 EXCEPT !.owner = owner]
    <3>5. [r EXCEPT !.stage = "allowed", !.owner = owner] = r2
      BY Zenon
    <3>6. r1 = [id |-> op[p].id, key |-> op[p].cmd.key, entitled |-> NeedsNothing(op[p]),
                stage |-> "allowed", owner |-> o]
      BY <3>4
    <3> HIDE DEF r1
    <3>7. r2 = [id |-> op[p].id, key |-> op[p].cmd.key, entitled |-> NeedsNothing(op[p]),
                stage |-> "allowed", owner |-> owner]
      BY <3>6
    <3> HIDE DEF r2
    <3> QED BY <3>3, <3>5, <3>7, Zenon
  <2>5. Requests' = [Requests EXCEPT ![p] = {[r EXCEPT !.stage = "allowed", !.owner = owner]}]
    <3>1. Requests' = [Requests EXCEPT ![p] = {Held(p)'}]
      BY <2>2, RequestChanged
    <3> QED BY <2>4, <3>1
  <2>6. Answered' = Answered
    BY <2>1 DEF Answered
  <2> HIDE DEF r, owner
  <2> QED BY <1>1, <1>2, <1>3, <2>5, <2>6 DEF Authority!Allow
<1> QED BY <1>4, <1>5

\* A command that ends without a signature was not recorded.
LEMMA RefuseStep ==
  ASSUME AuthorityInv, NEW p \in Proc, pc[p] \in {"dialog", "secret"},
         Finish(p, op[p].id, "other"),
         UNCHANGED <<now, skew, rows, epoch, approvals, signatures>>
  PROVE  Authority!Refuse(p)
<1> DEFINE r == Held(p)
<1>1. TypeOK
  BY DEF AuthorityInv, LogInv
<1>2. Requests[p] = {r} /\ r.id = op[p].id /\ r.stage # "recorded"
  BY <1>1, Holding
<1>3. /\ Requests' = [Requests EXCEPT ![p] = {}]
      /\ Answered' = Answered \cup {op[p].id}
  BY <1>1, Finished
<1>4. Windows' = Windows /\ Clock' = Clock /\ Signed' = Signed
  BY WindowsKept, ClockKept, SignedKept
<1> HIDE DEF r
<1> QED BY <1>2, <1>3, <1>4 DEF Authority!Refuse

LEMMA RecordStep ==
  ASSUME AuthorityInv, NEW p \in Proc, SignAndLog(p)
  PROVE  Authority!Record(p)
<1> USE DEF history
<1> DEFINE r == Held(p)
<1>1. TypeOK /\ pc[p] = "secret"
  BY DEF AuthorityInv, LogInv, SignAndLog
<1>2. Requests[p] = {r} /\ r.id = op[p].id /\ r.stage = "allowed"
  BY <1>1, Holding
<1>3. pc' = [pc EXCEPT ![p] = "logged"] /\ op' = op
  BY DEF SignAndLog
<1>4. pc'[p] = "logged" /\ \A q \in Proc : q # p => pc'[q] = pc[q] /\ op'[q] = op[q]
  BY <1>1, <1>3 DEF TypeOK
<1>5. Held(p)' = [r EXCEPT !.stage = "recorded"]
  <2>1. Stage[pc'[p]] = "recorded" /\ Stage' = Stage
    BY <1>4 DEF Stage
  <2>2. Held(p)' = [id |-> op[p].id, key |-> op[p].cmd.key, entitled |-> NeedsNothing(op[p]),
                    stage |-> "recorded", owner |-> op[p].act = "ok"]
    BY <1>3, <2>1, Zenon DEF Held
  <2> DEFINE o == op[p].act = "ok"
  <2>3. r = [id |-> op[p].id, key |-> op[p].cmd.key, entitled |-> NeedsNothing(op[p]),
             stage |-> Stage[pc[p]], owner |-> o]
    BY Zenon DEF Held
  <2> HIDE DEF o, r
  <2>4. [r EXCEPT !.stage = "recorded"] =
          [id |-> op[p].id, key |-> op[p].cmd.key, entitled |-> NeedsNothing(op[p]),
           stage |-> "recorded", owner |-> o]
    BY <2>3
  <2> QED BY <2>2, <2>4, Zenon DEF o
<1>6. Requests' = [Requests EXCEPT ![p] = {[r EXCEPT !.stage = "recorded"]}]
  <2>1. Requests' = [Requests EXCEPT ![p] = {Held(p)'}]
    BY <1>4, RequestChanged
  <2> QED BY <1>5, <2>1
<1>7. /\ Windows' = Windows /\ Clock' = Clock /\ Signed' = Signed /\ Answered' = Answered
      /\ rows' = rows \cup {op[p].id}
  BY WindowsKept, ClockKept, SignedKept DEF SignAndLog, Answered
<1> HIDE DEF r
<1> QED BY <1>2, <1>6, <1>7 DEF Authority!Record

LEMMA SignStep ==
  ASSUME AuthorityInv, NEW p \in Proc, Reply(p)
  PROVE  Authority!Sign(p)
<1> USE DEF history
<1> DEFINE r == Held(p)
           s == [id |-> op[p].id, proc |-> p, epoch |-> epoch[p], key |-> op[p].cmd.key,
                 checked |-> op[p].checked, clock |-> op[p].clock,
                 typed |-> op[p].typed, act |-> op[p].act]
<1>1. TypeOK /\ pc[p] = "logged" /\ Finish(p, op[p].id, "signature")
      /\ signatures' = signatures \cup {s}
  BY DEF AuthorityInv, LogInv, Reply
<1>2. Requests[p] = {r} /\ r.id = op[p].id /\ r.key = op[p].cmd.key /\ r.stage = "recorded"
      /\ r.owner = (op[p].act = "ok")
  BY <1>1, Holding
<1>3. Requests' = [Requests EXCEPT ![p] = {}] /\ Answered' = Answered
  BY <1>1, Finished
<1>4. Windows' = Windows /\ Clock' = Clock /\ rows' = rows
  BY WindowsKept, ClockKept DEF Reply
<1>5. Signed' = Signed \cup {[id |-> r.id, key |-> r.key, owner |-> r.owner]}
  <2> DEFINE of(x) == [id |-> x.id, key |-> x.key, owner |-> x.act = "ok"]
  <2>1. Signed = {of(x) : x \in signatures} /\ Signed' = {of(x) : x \in signatures'}
    BY DEF Signed
  <2>2. of(s) = [id |-> r.id, key |-> r.key, owner |-> r.owner]
    <3>1. s.id = op[p].id /\ s.key = op[p].cmd.key /\ s.act = op[p].act
      OBVIOUS
    <3> HIDE DEF s, r
    <3> QED BY <1>2, <3>1, Zenon
  <2> HIDE DEF of, s, r
  <2>3. Signed' = Signed \cup {of(s)}
    BY <1>1, <2>1
  <2> QED BY <2>2, <2>3, Zenon
<1> HIDE DEF r, s
<1> QED BY <1>2, <1>3, <1>4, <1>5 DEF Authority!Sign

LEMMA RestartStep ==
  ASSUME AuthorityInv, NEW p \in Proc, Restart(p)
  PROVE  Authority!Restart(p)
<1>1. TypeOK /\ PastOnly
  BY DEF AuthorityInv, LogInv
<1>2. pc' = [pc EXCEPT ![p] = "idle"] /\ op' = [op EXCEPT ![p] = None]
  BY DEF Restart
<1>3. pc'[p] = "idle" /\ \A q \in Proc : q # p => pc'[q] = pc[q] /\ op'[q] = op[q]
  BY <1>1, <1>2 DEF TypeOK
<1>4. Requests' = [Requests EXCEPT ![p] = {}]
  BY <1>3, RequestChanged
<1>5. Windows' = [Windows EXCEPT ![p] = {}]
  BY <1>1, WindowsClosed DEF Restart
<1>6. Clock' = Clock /\ Signed' = Signed /\ rows' = rows /\ Answered' = Answered
  BY ClockKept, SignedKept DEF Restart, Answered
<1> QED BY <1>4, <1>5, <1>6 DEF Authority!Restart

-----------------------------------------------------------------------------
(* The refinement. *)

LEMMA AuthorityNext ==
  ASSUME AuthorityInv, [Next]_vars
  PROVE  [Authority!Next]_Authority!vars
<1> USE DEF history
<1>1. ASSUME NEW p \in Proc,
             \/ AnswerAtOnce(p) \/ \E u \in Act : SelectKey(p, u)
             \/ \E c \in Command : KeyNotFound(p, c)
      PROVE  Authority!Next
  <2>1. Authority!Answer(p)
    BY <1>1, AnswerStep DEF AnswerAtOnce, SelectKey, KeyNotFound, Receive
  <2> QED BY <2>1 DEF Authority!Next
<1>2. ASSUME NEW p \in Proc, Lock(p) PROVE Authority!Next
  BY <1>2, LockStep DEF Authority!Next
<1>3. ASSUME NEW p \in Proc, NEW c \in Command, OpenDialog(p, c) PROVE Authority!Next
  BY <1>3, AskStep DEF Authority!Next
<1>4. ASSUME NEW p \in Proc, NEW u \in Act, ReleaseKey(p, u) PROVE Authority!Next
  BY <1>4, ReleaseStep DEF Authority!Next
<1>5. ASSUME NEW p \in Proc, SignFails(p) \/ \E u \in Act : RefuseKey(p, u)
      PROVE  Authority!Next
  <2>1. Authority!Refuse(p)
    BY <1>5, RefuseStep DEF SignFails, RefuseKey
  <2> QED BY <2>1 DEF Authority!Next
<1>6. ASSUME NEW p \in Proc, SignAndLog(p) PROVE Authority!Next
  BY <1>6, RecordStep DEF Authority!Next
<1>7. ASSUME NEW p \in Proc, Reply(p) PROVE Authority!Next
  BY <1>7, SignStep DEF Authority!Next
<1>8. ASSUME NEW p \in Proc, Restart(p) PROVE Authority!Next
  BY <1>8, RestartStep DEF Authority!Next
<1>9. ASSUME UNCHANGED <<pc, op, rows, history>>
      PROVE  UNCHANGED <<Windows, Requests, rows, Signed, Answered>>
  BY <1>9, WindowsKept, RequestsKept, SignedKept DEF Answered
<1>10. CASE Tick \/ \E d \in ClockSteps : SetClockBack(d)
  <2>1. UNCHANGED <<Windows, Requests, rows, Signed, Answered>>
    BY <1>9, <1>10 DEF Tick, SetClockBack
  <2>2. Clock' \in Int
    BY <1>10, ConstantsAssumption
       DEF AuthorityInv, LogInv, TypeOK, Tick, SetClockBack, Clock
  <2> QED BY <2>1, <2>2 DEF Authority!Next, Authority!Clock
<1>11. CASE (\E k \in Key : AddKeyfile(k)) \/ UNCHANGED vars
  <2>1. UNCHANGED <<Windows, Requests, rows, Signed, Answered>>
    BY <1>9, <1>11 DEF AddKeyfile, vars
  <2>2. Clock' = Clock
    BY <1>11, ClockKept DEF AddKeyfile, vars
  <2> QED BY <2>1, <2>2 DEF Authority!vars
<1> QED BY <1>1, <1>2, <1>3, <1>4, <1>5, <1>6, <1>7, <1>8, <1>10, <1>11 DEF Next, Serve

LEMMA AuthorityInit == Init => Authority!Init
<1> SUFFICES ASSUME Init PROVE Authority!Init
  OBVIOUS
<1>1. Clock = 0
  BY DEF Init, Clock
<1>2. Windows = [p \in Proc |-> {}]
  BY DEF Init, Windows
<1>3. Requests = [p \in Proc |-> {}]
  BY DEF Init, Requests
<1>4. rows = {} /\ Signed = {} /\ Answered = {}
  BY DEF Init, Signed, Answered
<1> QED BY <1>1, <1>2, <1>3, <1>4 DEF Authority!Init

\* For any processes, keys, unlock times, secure module and clock, keychain gives out
\* signatures by the owner's rules: with the password or in an open window of the same
\* process, recorded first, each request answered once.
\* In a test run the keys that its own password opens count as keys without one.
THEOREM AuthorityImplemented == Spec => AuthoritySpec
BY AuthorityInit, AuthorityNext, AuthorityInvariant, PTL
   DEF Spec, AuthoritySpec, Authority!Spec
=============================================================================
