---------------------------- MODULE KeychainProofs ----------------------------
(***************************************************************************)
(* Proofs about Keychain, for any processes, keys, unlock times, clock     *)
(* resolution and secure module.                                           *)
(***************************************************************************)
EXTENDS Keychain, TLAPS

\* What every request carries: a key, and an unlock time that is a duration when
\* it is positive.
LEMMA CommandFields ==
  ASSUME NEW c \in Command
  PROVE  /\ c.key \in Key
         /\ c.unlock_time \in Int
         /\ c.unlock_time > 0 => c.unlock_time \in Duration
<1>1. CASE c \in SignTrx
  BY <1>1, ConstantsAssumption DEF SignTrx, Duration
<1>2. CASE c \in SignHash
  BY <1>2 DEF SignHash
<1>3. CASE c \in Unlock
  BY <1>3, ConstantsAssumption DEF Unlock, Duration
<1>4. QED
  BY <1>1, <1>2, <1>3 DEF Command

\* The cache operations of get_private_key keep the cache well formed.
LEMMA CacheTypes ==
  ASSUME TypeOK, NEW p \in Proc, NEW c \in Command
  PROVE  /\ AfterLookup(p, c) \in [Proc -> [Key -> Entry \cup {None}]]
         /\ AfterInsert(p, c) \in [Proc -> [Key -> Entry \cup {None}]]
<1>1. c.key \in Key /\ (c.unlock_time > 0 => c.unlock_time \in Duration)
  BY CommandFields
<1>2. key_map \in [Proc -> [Key -> Entry \cup {None}]] /\ Clock \in Int
  BY DEF TypeOK, Clock
<1>3. AfterLookup(p, c) \in [Proc -> [Key -> Entry \cup {None}]]
  BY <1>1, <1>2 DEF AfterLookup
<1>4. AfterInsert(p, c) \in [Proc -> [Key -> Entry \cup {None}]]
  <2>1. CASE c.unlock_time > 0
    <3>1. [from |-> Clock, duration |-> c.unlock_time] \in Entry
      BY <1>1, <1>2, <2>1 DEF Entry
    <3>2. QED
      BY <1>1, <1>2, <3>1 DEF AfterInsert
  <2>2. CASE ~(c.unlock_time > 0)
    BY <1>2, <2>2 DEF AfterInsert
  <2>3. QED
    BY <2>1, <2>2
<1>5. QED
  BY <1>3, <1>4

\* Finishing a command keeps the control state well formed.
LEMMA FinishTypes ==
  ASSUME TypeOK, NEW p \in Proc, NEW id \in Nat,
         NEW kind \in {"signature", "other"}, Finish(p, id, kind)
  PROVE  /\ pc' \in [Proc -> {"idle", "dialog", "secret", "logged"}]
         /\ op' \in [Proc -> Op \cup {None}]
         /\ \A q \in Proc : pc'[q] = "idle" <=> op'[q] = None
         /\ \A q \in Proc : pc'[q] \in {"secret", "logged"} => op'[q].act \in Act
         /\ answers' \subseteq Answer
BY DEF TypeOK, Finish, Answer

\* It makes the process idle and leaves the commands of the others alone.
LEMMA FinishControl ==
  ASSUME TypeOK, NEW p \in Proc, NEW id, NEW kind, Finish(p, id, kind), NEW q \in Proc
  PROVE  /\ q = p => pc'[q] = "idle"
         /\ q # p => pc'[q] = pc[q] /\ op'[q] = op[q]
BY DEF TypeOK, Finish

\* The command of a busy process.
LEMMA BusyOp ==
  ASSUME TypeOK, NEW p \in Proc, pc[p] # "idle"
  PROVE  op[p] \in Op /\ op[p].id \in Nat /\ op[p].cmd \in Command
BY DEF TypeOK, Op

\* A dialog leaves one of the two outcomes behind.
LEMMA ButtonTypes ==
  ASSUME TypeOK, NEW p \in Proc, NEW u, DialogEnds(p, u)
  PROVE  button' \in [Proc -> {"ok", "cancel"}]
<1>1. button \in [Proc -> {"ok", "cancel"}]
  BY DEF TypeOK
<1>2. ButtonAfter(button[p], u) \in {"ok", "cancel"}
  BY <1>1 DEF ButtonAfter
<1>3. QED
  BY <1>1, <1>2 DEF DialogEnds

\* The variables keep their types: a process has a command exactly while it is in a
\* handler, and cache entries have a time stamp and a duration.
THEOREM TypeCorrect == Spec => []TypeOK
<1>1. Init => TypeOK
  BY ConstantsAssumption
  DEF Init, TypeOK, EmptyMap
<1>2. TypeOK /\ [Next]_vars => TypeOK'
  <2> SUFFICES ASSUME TypeOK, [Next]_vars PROVE TypeOK'
    OBVIOUS
  <2> USE DEF fileVars, history
  <2>1. ASSUME NEW p \in Proc, AnswerAtOnce(p) PROVE TypeOK'
    BY <2>1, FinishTypes, ConstantsAssumption DEF TypeOK, AnswerAtOnce, Receive
  <2>1a. ASSUME NEW p \in Proc, NEW u, SelectKey(p, u) PROVE TypeOK'
    BY <2>1a, FinishTypes, ButtonTypes, ConstantsAssumption DEF TypeOK, SelectKey, Receive
  <2>2. ASSUME NEW p \in Proc, Lock(p) PROVE TypeOK'
    BY <2>2, FinishTypes, ConstantsAssumption DEF TypeOK, Lock, Receive, EmptyMap
  <2>3. ASSUME NEW p \in Proc, NEW c \in Command, OpenDialog(p, c) PROVE TypeOK'
    <3>1. /\ key_map' \in [Proc -> [Key -> Entry \cup {None}]]
          /\ issued' \in 0..MaxCommands /\ issued \in Nat /\ Clock \in Int
      BY <2>3, CacheTypes, ConstantsAssumption DEF TypeOK, OpenDialog, Receive, Clock
    <3>2. [id |-> issued, cmd |-> c, no_password |-> NoPassword(p, c),
           checked |-> now, clock |-> Clock, typed |-> FALSE, act |-> "none"] \in Op
      <4>1. NoPassword(p, c) \in BOOLEAN
        BY DEF NoPassword, Unlocked
      <4>2. QED
        BY <3>1, <4>1 DEF TypeOK, Op
    <3>3. QED
      BY <2>3, <3>1, <3>2, ConstantsAssumption DEF TypeOK, OpenDialog
  <2>4. ASSUME NEW p \in Proc, NEW c \in Command, KeyNotFound(p, c) PROVE TypeOK'
    BY <2>4, FinishTypes, CacheTypes, ConstantsAssumption DEF TypeOK, KeyNotFound, Receive
  <2>5. ASSUME NEW p \in Proc, NEW u, ReleaseKey(p, u) PROVE TypeOK'
    <3> DEFINE o == op[p]
               new == [proc |-> p, epoch |-> epoch[p], key |-> o.cmd.key,
                       duration |-> o.cmd.unlock_time, clock |-> Clock, at |-> now]
    <3>1. o \in Op /\ o.id \in Nat /\ o.cmd \in Command
      BY <2>5, BusyOp DEF ReleaseKey
    <3>2. key_map' \in [Proc -> [Key -> Entry \cup {None}]]
      BY <2>5, <3>1, CacheTypes DEF ReleaseKey
    <3>3. approvals' \subseteq Approval
      <4>1. o.cmd.unlock_time > 0 => new \in Approval
        BY <3>1, CommandFields DEF Approval, TypeOK, Clock
      <4>2. QED
        BY <2>5, <4>1 DEF ReleaseKey, TypeOK
    <3>4. UNCHANGED <<now, skew, fileVars, rows, issued, epoch, signatures>>
      BY <2>5 DEF ReleaseKey
    <3>4a. button' \in [Proc -> {"ok", "cancel"}]
      BY <2>5, ButtonTypes DEF ReleaseKey
    <3>5. CASE o.cmd.name = "unlock"
      <4>1. Finish(p, o.id, "other")
        BY <2>5, <3>5 DEF ReleaseKey
      <4>2. /\ pc' \in [Proc -> {"idle", "dialog", "secret", "logged"}]
            /\ op' \in [Proc -> Op \cup {None}]
            /\ \A q \in Proc : pc'[q] = "idle" <=> op'[q] = None
            /\ \A q \in Proc : pc'[q] \in {"secret", "logged"} => op'[q].act \in Act
            /\ answers' \subseteq Answer
        BY <3>1, <4>1, FinishTypes
      <4>3. QED
        BY <3>2, <3>3, <3>4, <3>4a, <4>2 DEF TypeOK, fileVars
    <3>6. CASE o.cmd.name # "unlock"
      <4> DEFINE release == [o EXCEPT !.typed = u = "ok" /\ ~o.no_password,
                                      !.act = u]
      <4>1. release \in Op /\ release # None /\ release.act \in Act
        <5>1. u \in Act
          BY <2>5 DEF ReleaseKey, UserAct, Act
        <5>2. QED
          BY <3>1, <5>1, ConstantsAssumption DEF Op
      <4>2. /\ pc' = [pc EXCEPT ![p] = "secret"]
            /\ op' = [op EXCEPT ![p] = release]
            /\ UNCHANGED answers
        BY <2>5, <3>6 DEF ReleaseKey
      <4> HIDE DEF release
      <4>3. QED
        BY <3>2, <3>3, <3>4, <3>4a, <4>1, <4>2 DEF TypeOK, fileVars
    <3>7. QED
      BY <3>5, <3>6 DEF ReleaseKey
  <2>6. ASSUME NEW p \in Proc, NEW u, RefuseKey(p, u) PROVE TypeOK'
    BY <2>6, FinishTypes, ButtonTypes, BusyOp DEF TypeOK, RefuseKey
  <2>7. ASSUME NEW p \in Proc, SignAndLog(p) PROVE TypeOK'
    BY <2>7, BusyOp DEF TypeOK, SignAndLog
  <2>8. ASSUME NEW p \in Proc, SignFails(p) PROVE TypeOK'
    BY <2>8, FinishTypes, BusyOp DEF TypeOK, SignFails
  <2>9. ASSUME NEW p \in Proc, Reply(p) PROVE TypeOK'
    <3> DEFINE o == op[p]
               new == [id |-> o.id, proc |-> p, epoch |-> epoch[p], key |-> o.cmd.key,
                       checked |-> o.checked, clock |-> o.clock,
                       typed |-> o.typed, act |-> o.act]
    <3>1. o \in Op /\ o.id \in Nat /\ o.cmd \in Command
      BY <2>9, BusyOp DEF Reply
    <3>1a. o.act \in Act
      BY <2>9 DEF Reply, TypeOK
    <3>2. new \in Signature
      BY <3>1, <3>1a, CommandFields DEF TypeOK, Op, Signature
    <3>3. QED
      BY <2>9, <3>1, <3>2, FinishTypes DEF TypeOK, Reply
  <2>10. ASSUME NEW p \in Proc, Restart(p) PROVE TypeOK'
    BY <2>10, ConstantsAssumption DEF TypeOK, Restart, EmptyMap
  <2>11. ASSUME NEW k \in Key, AddKeyfile(k) PROVE TypeOK'
    BY <2>11 DEF TypeOK, AddKeyfile
  <2>12. CASE Tick
    BY <2>12 DEF TypeOK, Tick
  <2>13. ASSUME NEW d \in ClockSteps, SetClockBack(d) PROVE TypeOK'
    BY <2>13, ConstantsAssumption DEF TypeOK, SetClockBack
  <2>14. CASE UNCHANGED vars
    BY <2>14 DEF TypeOK, vars
  <2>15. QED
    BY <2>1, <2>1a, <2>2, <2>3, <2>4, <2>5, <2>6, <2>7, <2>8, <2>9, <2>10, <2>11, <2>12,
       <2>13, <2>14 DEF Next, Serve
<1>3. QED
  BY <1>1, <1>2, PTL DEF Spec

-----------------------------------------------------------------------------
(* Passwords.  SignedByPassword speaks of finished commands and            *)
(* CachedByPassword of the cache; what links them is what holds of the     *)
(* command in the handler: when it was not asked for a password, a window  *)
(* was open at its look-up, and once the key is released to it, it was     *)
(* either asked for a password and got it, or not asked.                   *)

OpByPassword ==
  \A p \in Proc :
    pc[p] # "idle" /\ op[p].cmd.key \in Protected =>
      /\ op[p].no_password =>
           /\ op[p].cmd.unlock_time = 0
           /\ WindowApproved(p, epoch[p], op[p].cmd.key, op[p].clock)
      /\ pc[p] # "dialog" => op[p].no_password \/ op[p].typed

PasswordInv == TypeOK /\ CachedByPassword /\ OpByPassword /\ SignedByPassword

LEMMA ProtectedKeys == Protected \subseteq Encrypted /\ Protected \subseteq Key
BY ConstantsAssumption DEF Protected

\* A dialog with a password field releases a protected key for the right password
\* only, whatever the secure module; in a test run it is not released at all.
LEMMA GrantNeedsPassword ==
  ASSUME NEW last, NEW k \in Protected, NEW u \in UserAct(FALSE), Grants(last, FALSE, k, u)
  PROVE  u = "ok"
BY ConstantsAssumption
DEF Protected, UserAct, Grants, Response, LinuxResponse, MacResponse, DummyResponse,
    ButtonAfter

\* Approvals are never forgotten, so a window once approved stays approved.
LEMMA ApprovedStays ==
  ASSUME approvals \subseteq approvals', NEW p, NEW e, NEW k, NEW t,
         WindowApproved(p, e, k, t)
  PROVE  WindowApproved(p, e, k, t)'
BY DEF WindowApproved

\* A key that needs no password although it is encrypted is unlocked by an
\* entry of the cache, hence by an approved window.
LEMMA UnlockedApproved ==
  ASSUME TypeOK, CachedByPassword, NEW p \in Proc, NEW c \in Command,
         c.key \in Protected, NoPassword(p, c)
  PROVE  WindowApproved(p, epoch[p], c.key, Clock)
<1> DEFINE entry == key_map[p][c.key]
<1>1. entry # None /\ ~((Clock - entry.from) \div TicksPerSec > entry.duration)
  BY ProtectedKeys DEF NoPassword, Unlocked, Expired
<1>2. PICK a \in approvals : /\ a.proc = p /\ a.epoch = epoch[p] /\ a.key = c.key
                             /\ a.clock = entry.from /\ a.duration = entry.duration
  BY <1>1 DEF CachedByPassword
<1>3. a.clock \in Int /\ a.duration \in Int /\ Clock \in Int
  <2>1. a \in Approval /\ now \in Nat /\ skew \in Nat
    BY <1>2 DEF TypeOK
  <2>2. Duration \subseteq Int
    BY ConstantsAssumption DEF Duration
  <2>3. a.clock \in Int /\ a.duration \in Duration
    BY <2>1 DEF Approval
  <2>4. Clock \in Int
    BY <2>1 DEF Clock
  <2>5. QED
    BY <2>2, <2>3, <2>4
<1>4. (Clock - a.clock) \div TicksPerSec \in Int
  BY <1>3, ConstantsAssumption
<1>5. (Clock - a.clock) \div TicksPerSec <= a.duration
  <2> DEFINE elapsed == (Clock - a.clock) \div TicksPerSec
  <2>1. elapsed \in Int /\ ~(elapsed > a.duration)
    BY <1>1, <1>2, <1>4
  <2> HIDE DEF elapsed
  <2>2. elapsed <= a.duration
    BY <1>3, <2>1
  <2>3. QED
    BY <2>2 DEF elapsed
<1>6. QED
  BY <1>2, <1>5 DEF WindowApproved

\* Steps that leave the cache of every process as it was, or smaller, in the
\* same epoch, and forget no approval.
LEMMA CacheKept ==
  ASSUME CachedByPassword, approvals \subseteq approvals',
         \A p \in Proc : \/ \A k \in Key : key_map'[p][k] \in {key_map[p][k], None}
                         \/ \A k \in Key : key_map'[p][k] = None,
         \A p \in Proc : epoch'[p] = epoch[p] \/ \A k \in Key : key_map'[p][k] = None
  PROVE  CachedByPassword'
<1> SUFFICES ASSUME NEW p \in Proc, NEW k \in Protected, key_map'[p][k] # None
             PROVE  \E a \in approvals' :
                      /\ a.proc = p /\ a.epoch = epoch'[p] /\ a.key = k
                      /\ a.clock = key_map'[p][k].from
                      /\ a.duration = key_map'[p][k].duration
  BY DEF CachedByPassword
<1>1. k \in Key
  BY ProtectedKeys
<1>2. key_map'[p][k] = key_map[p][k] /\ epoch'[p] = epoch[p]
  BY <1>1
<1>3. QED
  BY <1>2 DEF CachedByPassword

\* A step changes the command of no process but those it names.
LEMMA OpKept ==
  ASSUME OpByPassword, approvals \subseteq approvals',
         \A q \in Proc : \/ pc'[q] = "idle"
                         \/ pc'[q] = pc[q] /\ op'[q] = op[q] /\ epoch'[q] = epoch[q]
  PROVE  OpByPassword'
BY DEF OpByPassword, WindowApproved

\* Signatures are judged by approvals only, which are never forgotten.
LEMMA SignaturesKept ==
  ASSUME SignedByPassword, approvals \subseteq approvals', signatures' = signatures
  PROVE  SignedByPassword'
BY DEF SignedByPassword, WindowApproved

\* What a step does to a process when it neither puts a key into its cache nor
\* carries its command further.
Quiet(p) ==
  \/ /\ pc'[p] = "idle"
     /\ \A k \in Key : key_map'[p][k] = None
  \/ /\ epoch'[p] = epoch[p]
     /\ \A k \in Key : key_map'[p][k] \in {key_map[p][k], None}
     /\ \/ pc'[p] = "idle"
        \/ pc'[p] = pc[p] /\ op'[p] = op[p]

\* A step that is quiet for every process keeps the invariant.
LEMMA QuietCaches ==
  ASSUME PasswordInv, approvals' = approvals, \A p \in Proc : Quiet(p)
  PROVE  CachedByPassword' /\ OpByPassword'
<1>1. CachedByPassword'
  BY CacheKept DEF PasswordInv, Quiet
<1>2. \A p \in Proc : \/ pc'[p] = "idle"
                      \/ pc'[p] = pc[p] /\ op'[p] = op[p] /\ epoch'[p] = epoch[p]
  BY DEF Quiet
<1>3. OpByPassword /\ approvals \subseteq approvals'
  BY DEF PasswordInv
<1>4. OpByPassword'
  BY <1>2, <1>3, OpKept
<1>5. QED
  BY <1>1, <1>4

\* A step that is quiet for every process, approves nothing and signs nothing keeps
\* the parts of the invariant about passwords.
LEMMA QuietStep ==
  ASSUME PasswordInv, approvals' = approvals, signatures' = signatures,
         \A p \in Proc : Quiet(p)
  PROVE  CachedByPassword' /\ OpByPassword' /\ SignedByPassword'
BY QuietCaches, SignaturesKept DEF PasswordInv

\* So is a step that finishes a command, and at most removes keys from caches.
LEMMA FinishStep ==
  ASSUME PasswordInv, NEW p \in Proc, NEW id, NEW kind, Finish(p, id, kind),
         epoch' = epoch, approvals' = approvals, signatures' = signatures,
         \A q \in Proc, k \in Key : key_map'[q][k] \in {key_map[q][k], None}
  PROVE  CachedByPassword' /\ OpByPassword' /\ SignedByPassword'
<1>1. \A q \in Proc : Quiet(q)
  BY FinishControl DEF PasswordInv, Quiet
<1>2. QED
  BY <1>1, QuietStep

\* What AfterLookup and AfterInsert may do to the cache.
LEMMA CacheSteps ==
  ASSUME TypeOK, NEW p \in Proc, NEW c \in Command, NEW q \in Proc, NEW k \in Key
  PROVE  /\ AfterLookup(p, c)[q][k] \in {key_map[q][k], None}
         /\ \/ AfterInsert(p, c)[q][k] = key_map[q][k]
            \/ /\ q = p /\ k = c.key /\ c.unlock_time > 0
               /\ AfterInsert(p, c)[q][k] = [from |-> Clock, duration |-> c.unlock_time]
BY CommandFields DEF TypeOK, AfterLookup, AfterInsert

\* The password invariant is inductive: no handler, dialog, restart, new keyfile or
\* clock step makes a secret usable, in a cache or in a command, without its password.
THEOREM PasswordStep == PasswordInv /\ [Next]_vars /\ TypeOK' => PasswordInv'
<1> SUFFICES ASSUME PasswordInv, [Next]_vars, TypeOK'
             PROVE  CachedByPassword' /\ OpByPassword' /\ SignedByPassword'
  BY DEF PasswordInv
<1> USE DEF fileVars, history
<1>0. TypeOK
  BY DEF PasswordInv
<1>1. ASSUME NEW p \in Proc, AnswerAtOnce(p)
      PROVE  CachedByPassword' /\ OpByPassword' /\ SignedByPassword'
  BY <1>0, <1>1, FinishStep DEF AnswerAtOnce
<1>1a. ASSUME NEW p \in Proc, NEW u, SelectKey(p, u)
      PROVE  CachedByPassword' /\ OpByPassword' /\ SignedByPassword'
  BY <1>0, <1>1a, FinishStep DEF SelectKey
<1>2. ASSUME NEW p \in Proc, Lock(p)
      PROVE  CachedByPassword' /\ OpByPassword' /\ SignedByPassword'
  <2>1. \A q \in Proc : Quiet(q)
    <3>1. /\ key_map' = [key_map EXCEPT ![p] = EmptyMap]
          /\ epoch' = [epoch EXCEPT ![p] = @ + 1]
      BY <1>2 DEF Lock
    <3>2. Quiet(p)
      BY <1>0, <1>2, <3>1, FinishControl DEF Lock, EmptyMap, Quiet, TypeOK
    <3>3. ASSUME NEW q \in Proc, q # p PROVE Quiet(q)
      <4>1. key_map'[q] = key_map[q] /\ epoch'[q] = epoch[q]
        BY <1>0, <3>1, <3>3 DEF TypeOK
      <4>2. pc'[q] = pc[q] /\ op'[q] = op[q]
        BY <1>0, <1>2, <3>3, FinishControl DEF Lock
      <4>3. QED
        BY <4>1, <4>2 DEF Quiet
    <3>4. QED
      BY <3>2, <3>3
  <2>2. QED
    BY <1>2, <2>1, QuietStep DEF Lock
<1>3. ASSUME NEW p \in Proc, NEW c \in Command, OpenDialog(p, c)
      PROVE  CachedByPassword' /\ OpByPassword' /\ SignedByPassword'
  <2>1. CachedByPassword'
    BY <1>0, <1>3, CacheSteps, CacheKept DEF OpenDialog, PasswordInv
  <2>2. SignedByPassword'
    BY <1>3, SignaturesKept DEF OpenDialog, PasswordInv
  <2>3. OpByPassword'
    <3> SUFFICES ASSUME NEW q \in Proc, pc'[q] # "idle", op'[q].cmd.key \in Protected
                 PROVE  /\ op'[q].no_password =>
                             /\ op'[q].cmd.unlock_time = 0
                             /\ WindowApproved(q, epoch[q], op'[q].cmd.key, op'[q].clock)
                        /\ pc'[q] # "dialog" => op'[q].no_password \/ op'[q].typed
      BY <1>3 DEF OpenDialog, OpByPassword, WindowApproved
    <3>1. CASE q = p
      <4>1. /\ pc'[q] = "dialog" /\ op'[q].cmd = c /\ op'[q].clock = Clock
            /\ op'[q].no_password = NoPassword(p, c)
        BY <1>0, <1>3, <3>1 DEF OpenDialog, TypeOK
      <4>2. NoPassword(p, c) => c.unlock_time = 0 /\ WindowApproved(p, epoch[p], c.key, Clock)
        <5>1. c.key \in Protected
          BY <4>1
        <5>2. NoPassword(p, c) => WindowApproved(p, epoch[p], c.key, Clock)
          BY <1>0, <5>1, UnlockedApproved DEF PasswordInv
        <5>3. NoPassword(p, c) => c.unlock_time = 0
          BY <5>1, ProtectedKeys DEF NoPassword, Unlocked
        <5>4. QED
          BY <5>2, <5>3
      <4>3. QED
        BY <3>1, <4>1, <4>2
    <3>2. CASE q # p
      BY <1>0, <1>3, <3>2 DEF OpenDialog, TypeOK, PasswordInv, OpByPassword
    <3>3. QED
      BY <3>1, <3>2
  <2>4. QED
    BY <2>1, <2>2, <2>3
<1>4. ASSUME NEW p \in Proc, NEW c \in Command, KeyNotFound(p, c)
      PROVE  CachedByPassword' /\ OpByPassword' /\ SignedByPassword'
  BY <1>0, <1>4, CacheSteps, FinishStep DEF KeyNotFound
<1>5. ASSUME NEW p \in Proc, NEW u, ReleaseKey(p, u)
      PROVE  CachedByPassword' /\ OpByPassword' /\ SignedByPassword'
  <2> DEFINE o == op[p]
             c == o.cmd
             new == [proc |-> p, epoch |-> epoch[p], key |-> c.key,
                     duration |-> c.unlock_time, clock |-> Clock, at |-> now]
  <2>1. /\ approvals \subseteq approvals' /\ epoch' = epoch /\ signatures' = signatures
        /\ key_map' = AfterInsert(p, c) /\ c \in Command
        /\ u \in UserAct(o.no_password) /\ Grants(button[p], o.no_password, c.key, u)
        /\ c.unlock_time > 0 /\ u = "ok" => new \in approvals'
    BY <1>0, <1>5, BusyOp DEF ReleaseKey
  <2>2. c.key \in Protected =>
          \/ /\ o.no_password /\ c.unlock_time = 0
             /\ WindowApproved(p, epoch[p], c.key, o.clock)
          \/ u = "ok" /\ ~o.no_password
    <3>1. o.no_password \in BOOLEAN
      BY <1>0, <1>5, BusyOp DEF ReleaseKey, Op
    <3>2. c.key \in Protected /\ o.no_password = FALSE => u = "ok"
      BY <2>1, GrantNeedsPassword
    <3>3. QED
      BY <1>5, <3>1, <3>2 DEF ReleaseKey, PasswordInv, OpByPassword
  <2>3. CachedByPassword'
    <3> SUFFICES ASSUME NEW q \in Proc, NEW k \in Protected, key_map'[q][k] # None
                 PROVE  \E a \in approvals' :
                          /\ a.proc = q /\ a.epoch = epoch[q] /\ a.key = k
                          /\ a.clock = key_map'[q][k].from
                          /\ a.duration = key_map'[q][k].duration
      BY <2>1 DEF CachedByPassword
    <3>1. k \in Key
      BY ProtectedKeys
    <3>2. CASE key_map'[q][k] = key_map[q][k]
      BY <2>1, <3>2 DEF PasswordInv, CachedByPassword
    <3>3. CASE key_map'[q][k] # key_map[q][k]
      <4>1. /\ q = p /\ k = c.key /\ c.unlock_time > 0
            /\ key_map'[q][k] = [from |-> Clock, duration |-> c.unlock_time]
        BY <1>0, <2>1, <3>1, <3>3, CacheSteps
      <4>2. u = "ok"
        BY <1>0, <2>1, <2>2, <4>1, CommandFields
      <4>3. QED
        BY <2>1, <4>1, <4>2
    <3>4. QED
      BY <3>2, <3>3
  <2>4. OpByPassword'
    <3> SUFFICES ASSUME NEW q \in Proc, pc'[q] # "idle", op'[q].cmd.key \in Protected
                 PROVE  /\ op'[q].no_password =>
                             /\ op'[q].cmd.unlock_time = 0
                             /\ WindowApproved(q, epoch[q], op'[q].cmd.key, op'[q].clock)
                        /\ pc'[q] # "dialog" => op'[q].no_password \/ op'[q].typed
      BY <2>1 DEF OpByPassword, WindowApproved
    <3>1. CASE q = p
      <4>1. /\ op'[q].cmd = c /\ op'[q].clock = o.clock
            /\ op'[q].no_password = o.no_password
            /\ op'[q].typed = (u = "ok" /\ ~o.no_password)
        BY <1>0, <1>5, <3>1, BusyOp DEF ReleaseKey, Finish, TypeOK, Op
      <4>2. QED
        BY <2>1, <2>2, <3>1, <4>1
    <3>2. CASE q # p
      <4>1. pc'[q] = pc[q] /\ op'[q] = op[q]
        BY <1>0, <1>5, <3>2 DEF ReleaseKey, Finish, TypeOK
      <4>2. QED
        BY <2>1, <4>1 DEF PasswordInv, OpByPassword
    <3>3. QED
      BY <3>1, <3>2
  <2>5. QED
    BY <2>1, <2>3, <2>4, SignaturesKept DEF PasswordInv
<1>6. ASSUME NEW p \in Proc, NEW u, RefuseKey(p, u)
      PROVE  CachedByPassword' /\ OpByPassword' /\ SignedByPassword'
  BY <1>0, <1>6, FinishStep DEF RefuseKey
<1>7. ASSUME NEW p \in Proc, SignAndLog(p)
      PROVE  CachedByPassword' /\ OpByPassword' /\ SignedByPassword'
  <2>1. \A q \in Proc : op'[q] = op[q] /\ (pc'[q] = pc[q] \/ pc[q] = "secret")
    BY <1>0, <1>7 DEF SignAndLog, TypeOK
  <2>2. OpByPassword'
    BY <1>7, <2>1 DEF SignAndLog, PasswordInv, OpByPassword, WindowApproved
  <2>3. QED
    BY <1>7, <2>2, CacheKept, SignaturesKept DEF SignAndLog, PasswordInv
<1>8. ASSUME NEW p \in Proc, SignFails(p)
      PROVE  CachedByPassword' /\ OpByPassword' /\ SignedByPassword'
  BY <1>0, <1>8, FinishStep DEF SignFails
<1>9. ASSUME NEW p \in Proc, Reply(p)
      PROVE  CachedByPassword' /\ OpByPassword' /\ SignedByPassword'
  <2> DEFINE o == op[p]
             new == [id |-> o.id, proc |-> p, epoch |-> epoch[p], key |-> o.cmd.key,
                     checked |-> o.checked, clock |-> o.clock,
                     typed |-> o.typed, act |-> o.act]
  <2>1. CachedByPassword' /\ OpByPassword'
    <3>1. \A q \in Proc : Quiet(q)
      BY <1>0, <1>9, FinishControl DEF Reply, Quiet
    <3>2. QED
      BY <1>9, <3>1, QuietCaches DEF Reply
  <2>2. new.key \in Protected /\ ~new.typed =>
          WindowApproved(new.proc, new.epoch, new.key, new.clock)
    BY <1>9 DEF Reply, PasswordInv, OpByPassword
  <2>3. SignedByPassword'
    BY <1>9, <2>2 DEF Reply, PasswordInv, SignedByPassword, WindowApproved
  <2>4. QED
    BY <2>1, <2>3
<1>10. ASSUME NEW p \in Proc, Restart(p)
       PROVE  CachedByPassword' /\ OpByPassword' /\ SignedByPassword'
  <2>1. \A q \in Proc : Quiet(q)
    BY <1>0, <1>10 DEF Restart, EmptyMap, Quiet, TypeOK
  <2>2. QED
    BY <1>10, <2>1, QuietStep DEF Restart
<1>11. ASSUME NEW k \in Key, AddKeyfile(k)
       PROVE  CachedByPassword' /\ OpByPassword' /\ SignedByPassword'
  <2>1. \A q \in Proc : Quiet(q)
    BY <1>0, <1>11 DEF AddKeyfile, Quiet
  <2>2. QED
    BY <1>11, <2>1, QuietStep DEF AddKeyfile
<1>12. ASSUME Tick
       PROVE  CachedByPassword' /\ OpByPassword' /\ SignedByPassword'
  <2>1. \A q \in Proc : Quiet(q)
    BY <1>0, <1>12 DEF Tick, Quiet
  <2>2. QED
    BY <1>12, <2>1, QuietStep DEF Tick
<1>13. ASSUME NEW d \in ClockSteps, SetClockBack(d)
       PROVE  CachedByPassword' /\ OpByPassword' /\ SignedByPassword'
  <2>1. \A q \in Proc : Quiet(q)
    BY <1>0, <1>13 DEF SetClockBack, Quiet
  <2>2. QED
    BY <1>13, <2>1, QuietStep DEF SetClockBack
<1>14. ASSUME UNCHANGED vars
       PROVE  CachedByPassword' /\ OpByPassword' /\ SignedByPassword'
  <2>1. \A q \in Proc : Quiet(q)
    BY <1>0, <1>14 DEF vars, Quiet
  <2>2. QED
    BY <1>14, <2>1, QuietStep DEF vars
<1>15. QED
  BY <1>1, <1>1a, <1>2, <1>3, <1>4, <1>5, <1>6, <1>7, <1>8, <1>9, <1>10, <1>11, <1>12,
     <1>13, <1>14 DEF Next, Serve

\* At the start the caches are empty and nothing is signed.
LEMMA PasswordInit == Init => PasswordInv
<1> SUFFICES ASSUME Init PROVE PasswordInv
  OBVIOUS
<1>1. TypeOK
  BY ConstantsAssumption DEF Init, TypeOK, EmptyMap
<1>2. QED
  BY <1>1, ProtectedKeys
  DEF Init, EmptyMap, PasswordInv, CachedByPassword, OpByPassword, SignedByPassword

\* Every secret in a cache, in a command or in a signature goes back to a password
\* that the user typed for it.
THEOREM PasswordInvariant == Spec => []PasswordInv
BY TypeCorrect, PasswordInit, PasswordStep, PTL DEF Spec

\* A protected key is in a cache only by a password that a user gave.
THEOREM CacheSafe == Spec => []CachedByPassword
<1>1. PasswordInv => CachedByPassword
  BY DEF PasswordInv
<1>2. QED
  BY <1>1, PasswordInvariant, PTL

\* A protected key signs only by a password that a user gave.
THEOREM SignatureSafe == Spec => []SignedByPassword
<1>1. PasswordInv => SignedByPassword
  BY DEF PasswordInv
<1>2. QED
  BY <1>1, PasswordInvariant, PTL

=============================================================================
