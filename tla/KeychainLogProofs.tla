--------------------------- MODULE KeychainLogProofs ---------------------------
(***************************************************************************)
(* More proofs about Keychain: the audit log, the cache's one way in, and  *)
(* the bound on unlock windows when system_clock is never set back.        *)
(***************************************************************************)
EXTENDS KeychainProofs

-----------------------------------------------------------------------------
(* The log.  A row and an answer of one command are written by different   *)
(* steps; what links them is the id of the command in the handler, which   *)
(* no other command has, now or before.                                    *)

Busy(p) == pc[p] # "idle"

\* Ids are given out once: what is logged, answered or served is older than the
\* next id, and no two processes serve the same command.
IdsFresh ==
  /\ \A a \in answers : a.id < issued
  /\ \A id \in rows : id < issued
  /\ \A p \in Proc : Busy(p) => op[p].id < issued
  /\ \A p, q \in Proc : Busy(p) /\ Busy(q) /\ op[p].id = op[q].id => p = q

\* A command in a handler has no answer, and has a row once it is logged.
OpUnanswered ==
  \A p \in Proc : Busy(p) =>
    /\ \A a \in answers : a.id # op[p].id
    /\ op[p].id \in rows <=> pc[p] = "logged"

LogInv == TypeOK /\ IdsFresh /\ OpUnanswered /\ LogMatchesAnswer

\* A command that is answered as it arrives, with anything but a signature.
LEMMA AnsweredAtOnce ==
  ASSUME LogInv, NEW p \in Proc, Receive(p), Finish(p, issued, "other"), rows' = rows
  PROVE  IdsFresh' /\ OpUnanswered' /\ LogMatchesAnswer'
<1>1. \A q \in Proc : Busy(q)' => q # p /\ Busy(q) /\ op'[q] = op[q] /\ pc'[q] = pc[q]
  BY FinishControl DEF LogInv, Busy
<1>2. issued \in Nat /\ issued' = issued + 1
  BY ConstantsAssumption DEF LogInv, TypeOK, Receive
<1>3. \A a \in answers' : a \in answers \/ (a.id = issued /\ a.kind = "other")
  BY DEF Finish
<1>4. issued \notin rows /\ \A q \in Proc : Busy(q) => op[q].id # issued
  BY <1>2 DEF LogInv, IdsFresh
<1>5. \A q \in Proc : Busy(q) => op[q].id \in Nat
  BY BusyOp DEF LogInv, Busy
<1>6. /\ \A a \in answers : a.id \in Nat
      /\ \A id \in rows : id \in Nat
  BY DEF LogInv, TypeOK, Answer
<1>7. IdsFresh'
  BY <1>1, <1>2, <1>3, <1>5, <1>6 DEF LogInv, IdsFresh
<1>8. OpUnanswered'
  BY <1>1, <1>3, <1>4 DEF LogInv, OpUnanswered
<1>9. LogMatchesAnswer'
  BY <1>3, <1>4 DEF LogInv, LogMatchesAnswer
<1> QED BY <1>7, <1>8, <1>9

\* A command whose handler ends: its answer is a signature if and only if it is logged.
LEMMA AnsweredLater ==
  ASSUME LogInv, NEW p \in Proc, Busy(p), NEW kind, Finish(p, op[p].id, kind),
         kind = "signature" <=> pc[p] = "logged",
         rows' = rows, issued' = issued
  PROVE  IdsFresh' /\ OpUnanswered' /\ LogMatchesAnswer'
<1>1. \A q \in Proc : Busy(q)' => q # p /\ Busy(q) /\ op'[q] = op[q] /\ pc'[q] = pc[q]
  BY FinishControl DEF LogInv, Busy
<1>2. \A a \in answers' : a \in answers \/ (a.id = op[p].id /\ a.kind = kind)
  BY DEF Finish
<1>3. IdsFresh'
  BY <1>1, <1>2 DEF LogInv, IdsFresh
<1>4. OpUnanswered'
  BY <1>1, <1>2 DEF LogInv, IdsFresh, OpUnanswered
<1>5. LogMatchesAnswer'
  BY <1>2 DEF LogInv, OpUnanswered, LogMatchesAnswer
<1> QED BY <1>3, <1>4, <1>5

\* A step that answers nothing and logs nothing, and in which no process serves a
\* command it did not serve, or gets past its log row.
LEMMA LogUndisturbed ==
  ASSUME LogInv, answers' = answers, rows' = rows, issued' \in {issued, issued + 1},
         \A q \in Proc : Busy(q)' =>
           /\ Busy(q)
           /\ op'[q].id = op[q].id
           /\ pc'[q] = "logged" <=> pc[q] = "logged"
  PROVE  IdsFresh' /\ OpUnanswered' /\ LogMatchesAnswer'
<1>1. issued \in Nat
  BY ConstantsAssumption DEF LogInv, TypeOK
<1>2. /\ \A q \in Proc : Busy(q) => op[q].id \in Nat
      /\ \A a \in answers : a.id \in Nat
      /\ \A id \in rows : id \in Nat
  BY BusyOp DEF LogInv, Busy, TypeOK, Answer
<1>3. IdsFresh'
  BY <1>1, <1>2 DEF LogInv, IdsFresh
<1> QED BY <1>3 DEF LogInv, OpUnanswered, LogMatchesAnswer

\* Every step keeps the log and the answers in agreement.
LEMMA NextLog == LogInv /\ [Next]_vars /\ TypeOK' => LogInv'
<1> SUFFICES ASSUME LogInv, [Next]_vars, TypeOK'
             PROVE  IdsFresh' /\ OpUnanswered' /\ LogMatchesAnswer'
  BY DEF LogInv
<1> USE DEF history
<1>0. TypeOK
  BY DEF LogInv
<1>1. ASSUME NEW p \in Proc,
             \/ AnswerAtOnce(p) \/ Lock(p)
             \/ \E u \in Act : SelectKey(p, u)
             \/ \E c \in Command : KeyNotFound(p, c)
      PROVE  IdsFresh' /\ OpUnanswered' /\ LogMatchesAnswer'
  BY <1>1, AnsweredAtOnce DEF AnswerAtOnce, SelectKey, Lock, KeyNotFound
<1>2. ASSUME NEW p \in Proc, NEW c \in Command, OpenDialog(p, c)
      PROVE  IdsFresh' /\ OpUnanswered' /\ LogMatchesAnswer'
  <2>1. /\ ~Busy(p) /\ Busy(p)' /\ op'[p].id = issued /\ pc'[p] = "dialog"
        /\ \A q \in Proc : q # p => op'[q] = op[q] /\ pc'[q] = pc[q]
    BY <1>0, <1>2 DEF OpenDialog, Receive, Busy, TypeOK
  <2>2. /\ answers' = answers /\ rows' = rows
        /\ issued \in Nat /\ issued' = issued + 1
    BY <1>0, <1>2, ConstantsAssumption DEF OpenDialog, Receive, TypeOK
  <2>3. /\ \A q \in Proc : Busy(q) => op[q].id \in Nat /\ op[q].id < issued
        /\ \A a \in answers : a.id \in Nat /\ a.id < issued
        /\ \A id \in rows : id \in Nat /\ id < issued
    BY <1>0, BusyOp DEF LogInv, IdsFresh, Busy, TypeOK, Answer
  <2>4. IdsFresh'
    BY <2>1, <2>2, <2>3 DEF LogInv, IdsFresh, Busy
  <2>5. OpUnanswered'
    BY <2>1, <2>2, <2>3 DEF LogInv, OpUnanswered, Busy
  <2> QED BY <2>2, <2>4, <2>5 DEF LogInv, LogMatchesAnswer
<1>3. ASSUME NEW p \in Proc, NEW u, ReleaseKey(p, u)
      PROVE  IdsFresh' /\ OpUnanswered' /\ LogMatchesAnswer'
  <2>1. pc[p] = "dialog" /\ Busy(p) /\ rows' = rows /\ issued' = issued
    BY <1>3 DEF ReleaseKey, Busy
  <2>2. CASE op[p].cmd.name = "unlock"
    BY <1>3, <2>1, <2>2, AnsweredLater DEF ReleaseKey
  <2>3. CASE op[p].cmd.name # "unlock"
    <3>1. /\ pc' = [pc EXCEPT ![p] = "secret"] /\ answers' = answers
          /\ op' = [op EXCEPT ![p].typed = u = "ok" /\ ~op[p].no_password,
                              ![p].act = u]
      BY <1>3, <2>3 DEF ReleaseKey
    <3>2. op[p] \in Op
      BY <1>0, <2>1, BusyOp DEF Busy
    <3>3. op'[p].id = op[p].id
      BY <1>0, <3>1, <3>2 DEF TypeOK, Op
    <3>4. \A q \in Proc : Busy(q)' =>
            /\ Busy(q)
            /\ op'[q].id = op[q].id
            /\ pc'[q] = "logged" <=> pc[q] = "logged"
      BY <1>0, <2>1, <3>1, <3>3 DEF TypeOK, Busy
    <3> QED BY <2>1, <3>1, <3>4, LogUndisturbed
  <2> QED BY <2>2, <2>3
<1>4. ASSUME NEW p \in Proc, NEW u, RefuseKey(p, u)
      PROVE  IdsFresh' /\ OpUnanswered' /\ LogMatchesAnswer'
  BY <1>4, AnsweredLater DEF RefuseKey, Busy
<1>5. ASSUME NEW p \in Proc, SignAndLog(p)
      PROVE  IdsFresh' /\ OpUnanswered' /\ LogMatchesAnswer'
  <2>1. /\ pc[p] = "secret" /\ rows' = rows \cup {op[p].id} /\ pc'[p] = "logged"
        /\ UNCHANGED <<op, issued, answers>>
        /\ \A q \in Proc : q # p => pc'[q] = pc[q]
    BY <1>0, <1>5 DEF SignAndLog, TypeOK
  <2>2. \A q \in Proc : Busy(q)' <=> Busy(q)
    BY <2>1 DEF Busy
  <2>3. Busy(p) /\ op[p].id < issued
    BY <2>1 DEF LogInv, IdsFresh, Busy
  <2>4. IdsFresh'
    BY <2>1, <2>2, <2>3 DEF LogInv, IdsFresh
  <2>5. OpUnanswered'
    BY <2>1, <2>2, <2>3 DEF LogInv, IdsFresh, OpUnanswered
  <2>6. LogMatchesAnswer'
    BY <2>1, <2>3 DEF LogInv, OpUnanswered, LogMatchesAnswer
  <2> QED BY <2>4, <2>5, <2>6
<1>6. ASSUME NEW p \in Proc, SignFails(p)
      PROVE  IdsFresh' /\ OpUnanswered' /\ LogMatchesAnswer'
  BY <1>6, AnsweredLater DEF SignFails, Busy
<1>7. ASSUME NEW p \in Proc, Reply(p)
      PROVE  IdsFresh' /\ OpUnanswered' /\ LogMatchesAnswer'
  BY <1>7, AnsweredLater DEF Reply, Busy
<1>8. ASSUME NEW p \in Proc, Restart(p)
      PROVE  IdsFresh' /\ OpUnanswered' /\ LogMatchesAnswer'
  <2>1. \A q \in Proc : Busy(q)' => Busy(q) /\ op'[q] = op[q] /\ pc'[q] = pc[q]
    BY <1>0, <1>8 DEF Restart, TypeOK, Busy
  <2> QED BY <1>8, <2>1, LogUndisturbed DEF Restart
<1>9. CASE \/ \E k \in Key : AddKeyfile(k)
           \/ Tick
           \/ \E d \in ClockSteps : SetClockBack(d)
           \/ UNCHANGED vars
  <2>1. UNCHANGED <<answers, rows, issued, op, pc>>
    BY <1>9 DEF AddKeyfile, Tick, SetClockBack, vars
  <2> QED BY <2>1, LogUndisturbed DEF Busy
<1> QED BY <1>1, <1>2, <1>3, <1>4, <1>5, <1>6, <1>7, <1>8, <1>9 DEF Next, Serve

\* A client was sent a signature if and only if its command has a row in signlog,
\* whatever is killed or fails in between.
THEOREM LogCorrect == Spec => []LogMatchesAnswer
<1>1. Init /\ TypeOK => LogInv
  BY DEF Init, LogInv, IdsFresh, OpUnanswered, LogMatchesAnswer, Busy
<1>2. LogInv => LogMatchesAnswer
  BY DEF LogInv
<1> QED BY <1>1, <1>2, NextLog, TypeCorrect, PTL DEF Spec

-----------------------------------------------------------------------------
(* The way into the cache. *)

\* No step but ReleaseKey puts a private key into a cache: a locked key is unlocked
\* by a dialog that is open for it, with a window that begins at that moment.
LEMMA UnlockStep ==
  ASSUME TypeOK, [Next]_vars, NEW p \in Proc, NEW k \in Key,
         key_map'[p][k] \notin {key_map[p][k], None}
  PROVE  /\ key_map[p][k] = None
         /\ pc[p] = "dialog" /\ op[p].cmd.key = k
         /\ key_map'[p][k].from = Clock
<1>1. ASSUME NEW q \in Proc, NEW c \in Command, key_map' = AfterLookup(q, c) PROVE FALSE
  BY <1>1, CacheSteps
<1>2. ASSUME NEW q \in Proc, key_map' = [key_map EXCEPT ![q] = EmptyMap] PROVE FALSE
  BY <1>2 DEF TypeOK, EmptyMap
<1>3. PICK q \in Proc, u \in Act : ReleaseKey(q, u)
  BY <1>1, <1>2 DEF Next, Serve, AnswerAtOnce, SelectKey, Lock, OpenDialog, KeyNotFound, RefuseKey,
     SignAndLog, SignFails, Reply, Restart, AddKeyfile, Tick, SetClockBack, vars
<1>4. pc[q] = "dialog" /\ key_map' = AfterInsert(q, op[q].cmd)
  BY <1>3 DEF ReleaseKey
<1>5. op[q].cmd \in Command
  BY <1>4, BusyOp
<1>6. /\ p = q /\ k = op[q].cmd.key
      /\ key_map'[p][k] = [from |-> Clock, duration |-> op[q].cmd.unlock_time]
  <2> DEFINE c == op[q].cmd
  <2>1. AfterInsert(q, c)[p][k] # key_map[p][k]
    BY <1>4
  <2>2. q \in Proc /\ c \in Command
    BY <1>3, <1>5
  <2> HIDE DEF c
  <2>3. \/ AfterInsert(q, c)[p][k] = key_map[p][k]
        \/ /\ p = q /\ k = c.key /\ c.unlock_time > 0
           /\ AfterInsert(q, c)[p][k] = [from |-> Clock, duration |-> c.unlock_time]
    BY <2>2, CacheSteps
  <2> QED BY <1>4, <2>1, <2>3 DEF c
<1>7. key_map[q][op[q].cmd.key] = None
  <2>1. AfterInsert(q, op[q].cmd) # key_map
    BY <1>4
  <2> QED BY <2>1 DEF AfterInsert
<1> QED BY <1>4, <1>6, <1>7

\* A key that a handler has found locked stays locked until a user answers a dialog.
THEOREM UnlockCorrect == Spec => OnlyDialogUnlocks
<1>1. TypeOK /\ [Next]_vars =>
        [\A p \in Proc, k \in Key :
           key_map'[p][k] \notin {key_map[p][k], None} =>
             /\ key_map[p][k] = None
             /\ pc[p] = "dialog" /\ op[p].cmd.key = k
             /\ key_map'[p][k].from = Clock]_vars
  BY UnlockStep
<1> QED BY <1>1, TypeCorrect, PTL DEF Spec, OnlyDialogUnlocks

-----------------------------------------------------------------------------
(* The bound on windows, when system_clock is never set back. *)

\* The clock the code reads is then the time that has passed.
TimeInv ==
  /\ skew = 0
  /\ \A a \in approvals : a.clock = a.at
  /\ \A p \in Proc : Busy(p) => op[p].clock = op[p].checked
  /\ \A s \in signatures : s.clock = s.checked

\* What an integral number of seconds at most d says of the ticks.
LEMMA Seconds ==
  ASSUME NEW x \in Int, NEW d \in Int, x \div TicksPerSec <= d
  PROVE  x < (d + 1) * TicksPerSec
<1> DEFINE T == TicksPerSec
           y == x \div T
<1>1. T \in Nat \ {0}
  BY ConstantsAssumption
<1>2. y \in Int /\ x < (y + 1) * T
  BY <1>1
<1>3. y <= d
  OBVIOUS
<1> HIDE DEF y, T
<1>4. (y + 1) * T <= (d + 1) * T
  BY <1>1, <1>2, <1>3
<1>5. (y + 1) * T \in Int /\ (d + 1) * T \in Int
  BY <1>1, <1>2
<1>6. x < (d + 1) * T
  BY <1>2, <1>4, <1>5
<1> QED BY <1>6 DEF T

\* No step tells the clock from the time that has passed.
LEMMA NextTime ==
  ASSUME ClockSteps \subseteq {0}, TypeOK, TimeInv, [Next]_vars
  PROVE  TimeInv'
<1> USE DEF history, TimeInv
<1>0. /\ Clock = now
      /\ \A p \in Proc : Busy(p) => op[p] \in Op
  BY BusyOp DEF Clock, TypeOK, Busy
<1>1. ASSUME NEW p \in Proc, NEW kind, Finish(p, op[p].id, kind) \/ Finish(p, issued, kind),
             UNCHANGED <<skew, approvals, signatures>>
      PROVE  TimeInv'
  <2>1. \A q \in Proc : Busy(q)' => Busy(q) /\ op'[q] = op[q]
    BY <1>1, FinishControl DEF Busy
  <2> QED BY <1>1, <2>1
<1>2. ASSUME NEW p \in Proc,
             \/ AnswerAtOnce(p) \/ (\E u \in Act : SelectKey(p, u)) \/ Lock(p)
             \/ (\E c \in Command : KeyNotFound(p, c))
             \/ (\E u \in Act : RefuseKey(p, u)) \/ SignFails(p)
      PROVE  TimeInv'
  BY <1>1, <1>2 DEF AnswerAtOnce, SelectKey, Lock, KeyNotFound, RefuseKey, SignFails
<1>3. ASSUME NEW p \in Proc, NEW c \in Command, OpenDialog(p, c) PROVE TimeInv'
  <2>1. /\ UNCHANGED <<skew, approvals, signatures>>
        /\ op'[p].clock = Clock /\ op'[p].checked = now
        /\ \A q \in Proc : q # p => op'[q] = op[q] /\ pc'[q] = pc[q]
    BY <1>3 DEF OpenDialog, TypeOK
  <2> QED BY <1>0, <2>1 DEF Busy
<1>4. ASSUME NEW p \in Proc, NEW u, ReleaseKey(p, u) PROVE TimeInv'
  <2>1. Busy(p) /\ UNCHANGED <<skew, signatures>>
    BY <1>4 DEF ReleaseKey, Busy
  <2>2. \A a \in approvals' : a \in approvals \/ (a.clock = Clock /\ a.at = now)
    BY <1>4 DEF ReleaseKey
  <2>3. \A q \in Proc : Busy(q)' => /\ Busy(q)
                                    /\ op'[q].clock = op[q].clock
                                    /\ op'[q].checked = op[q].checked
    <3>1. CASE op[p].cmd.name = "unlock"
      BY <1>4, <3>1, FinishControl DEF ReleaseKey, Busy
    <3>2. CASE op[p].cmd.name # "unlock"
      <4>1. /\ pc' = [pc EXCEPT ![p] = "secret"]
            /\ op' = [op EXCEPT ![p].typed = u = "ok" /\ ~op[p].no_password,
                                ![p].act = u]
        BY <1>4, <3>2 DEF ReleaseKey
      <4>2. op'[p].clock = op[p].clock /\ op'[p].checked = op[p].checked
        BY <1>0, <2>1, <4>1 DEF TypeOK, Op
      <4> QED BY <2>1, <4>1, <4>2 DEF TypeOK, Busy
    <3> QED BY <3>1, <3>2
  <2> QED BY <1>0, <2>1, <2>2, <2>3
<1>5. ASSUME NEW p \in Proc, SignAndLog(p) PROVE TimeInv'
  BY <1>5 DEF SignAndLog, Busy, TypeOK
<1>6. ASSUME NEW p \in Proc, Reply(p) PROVE TimeInv'
  <2>1. Busy(p) /\ skew' = skew /\ approvals' = approvals
    BY <1>6 DEF Reply, Busy
  <2>2. \A s \in signatures' :
          s \in signatures \/ (s.clock = op[p].clock /\ s.checked = op[p].checked)
    BY <1>6 DEF Reply
  <2>3. \A q \in Proc : Busy(q)' => Busy(q) /\ op'[q] = op[q]
    BY <1>6, FinishControl DEF Reply, Busy
  <2> QED BY <2>1, <2>2, <2>3
<1>7. ASSUME NEW p \in Proc, Restart(p) PROVE TimeInv'
  BY <1>7 DEF Restart, Busy, TypeOK
<1>8. CASE (\E k \in Key : AddKeyfile(k)) \/ Tick \/ UNCHANGED vars
  BY <1>8 DEF AddKeyfile, Tick, vars, Busy
<1>9. ASSUME NEW d \in ClockSteps, SetClockBack(d) PROVE TimeInv'
  BY <1>9 DEF SetClockBack, Busy
<1> QED BY <1>2, <1>3, <1>4, <1>5, <1>6, <1>7, <1>8, <1>9 DEF Next, Serve

\* Where system_clock is never set back, an unlock window of d seconds is of no use
\* to a request that arrives d + 1 seconds or more after the password was typed.
THEOREM WindowCorrect == ASSUME ClockSteps \subseteq {0} PROVE Spec => []WindowBound
<1>1. Init => TimeInv
  BY DEF Init, TimeInv, Busy
<1>2. TimeInv /\ TypeOK /\ [Next]_vars => TimeInv'
  BY NextTime
<1>3. TimeInv /\ TypeOK /\ SignedByPassword => WindowBound
  <2> SUFFICES ASSUME TimeInv, TypeOK, SignedByPassword, NEW s \in signatures,
                      s.key \in Protected, ~s.typed
               PROVE  \E a \in approvals :
                        /\ a.proc = s.proc /\ a.epoch = s.epoch /\ a.key = s.key
                        /\ s.checked - a.at < (a.duration + 1) * TicksPerSec
    BY DEF WindowBound
  <2>1. PICK a \in approvals :
          /\ a.proc = s.proc /\ a.epoch = s.epoch /\ a.key = s.key
          /\ (s.clock - a.clock) \div TicksPerSec <= a.duration
    BY DEF SignedByPassword, WindowApproved
  <2>2. s.clock = s.checked /\ a.clock = a.at
    BY DEF TimeInv
  <2>3. s.clock \in Int /\ a.clock \in Int /\ a.duration \in Int
    BY ConstantsAssumption DEF TypeOK, Signature, Approval, Duration
  <2>4. s.clock - a.clock < (a.duration + 1) * TicksPerSec
    BY <2>1, <2>3, Seconds
  <2> QED BY <2>1, <2>2, <2>4
<1> QED BY <1>1, <1>2, <1>3, TypeCorrect, SignatureSafe, PTL DEF Spec

-----------------------------------------------------------------------------
(* Cancelled dialogs on macOS. *)

\* A request that has got past its dialog was not cancelled there.
NotCancelled ==
  SecMod = "mac" =>
    \A p \in Proc : pc[p] \in {"secret", "logged"} => op[p].act \in {"ok", "close"}

\* The macOS module releases the key for OK, or for a window that was closed.
LEMMA MacGrants ==
  ASSUME SecMod = "mac", NEW last, NEW k, NEW no_password \in BOOLEAN,
         NEW u \in UserAct(no_password), Grants(last, no_password, k, u)
  PROVE  u \in {"ok", "close"}
BY DEF UserAct, Grants, Response, MacResponse, ButtonAfter

\* A step signs only for a request that got past its dialog before.
LEMMA NextCancel ==
  ASSUME TypeOK, NotCancelled, CancelRefuses, [Next]_vars
  PROVE  NotCancelled' /\ CancelRefuses'
<1> SUFFICES ASSUME SecMod = "mac"
             PROVE  /\ \A q \in Proc : pc'[q] \in {"secret", "logged"} =>
                                        op'[q].act \in {"ok", "close"}
                    /\ \A s \in signatures' : s.act \in {"ok", "close"}
  BY DEF NotCancelled, CancelRefuses
<1> USE DEF history
<1>0. /\ \A q \in Proc : pc[q] \in {"secret", "logged"} => op[q].act \in {"ok", "close"}
      /\ \A s \in signatures : s.act \in {"ok", "close"}
  BY DEF NotCancelled, CancelRefuses
<1> DEFINE Past   == \A q \in Proc : pc'[q] \in {"secret", "logged"} =>
                                       op'[q].act \in {"ok", "close"}
           IsSigned == \A s \in signatures' : s.act \in {"ok", "close"}
<1>1. ASSUME NEW p \in Proc, NEW id, NEW kind, Finish(p, id, kind) PROVE Past
  BY <1>0, <1>1, FinishControl
<1>2. ASSUME NEW p \in Proc,
             \/ AnswerAtOnce(p) \/ (\E u \in Act : SelectKey(p, u)) \/ Lock(p)
             \/ (\E c \in Command : KeyNotFound(p, c))
             \/ (\E u \in Act : RefuseKey(p, u)) \/ SignFails(p)
      PROVE  Past /\ IsSigned
  BY <1>0, <1>1, <1>2 DEF AnswerAtOnce, SelectKey, Lock, KeyNotFound, RefuseKey, SignFails
<1>3. ASSUME NEW p \in Proc, NEW c \in Command, OpenDialog(p, c) PROVE Past /\ IsSigned
  BY <1>0, <1>3 DEF OpenDialog, TypeOK
<1>4. ASSUME NEW p \in Proc, NEW u, ReleaseKey(p, u) PROVE Past /\ IsSigned
  <2>1. op[p] \in Op /\ signatures' = signatures
    BY <1>4, BusyOp DEF ReleaseKey
  <2>2. u \in {"ok", "close"}
    <3>1. op[p].no_password \in BOOLEAN
      BY <2>1 DEF Op
    <3> QED BY <1>4, <3>1, MacGrants DEF ReleaseKey
  <2>3. CASE op[p].cmd.name = "unlock"
    BY <1>0, <1>1, <1>4, <2>1, <2>3 DEF ReleaseKey
  <2>4. CASE op[p].cmd.name # "unlock"
    <3>1. /\ pc' = [pc EXCEPT ![p] = "secret"]
          /\ op' = [op EXCEPT ![p].typed = u = "ok" /\ ~op[p].no_password,
                              ![p].act = u]
      BY <1>4, <2>4 DEF ReleaseKey
    <3>2. op'[p].act = u
      BY <2>1, <3>1 DEF TypeOK, Op
    <3> QED BY <1>0, <2>1, <2>2, <3>1, <3>2 DEF TypeOK
  <2> QED BY <2>3, <2>4
<1>5. ASSUME NEW p \in Proc, SignAndLog(p) PROVE Past /\ IsSigned
  BY <1>0, <1>5 DEF SignAndLog, TypeOK
<1>6. ASSUME NEW p \in Proc, Reply(p) PROVE Past /\ IsSigned
  BY <1>0, <1>1, <1>6 DEF Reply
<1>7. ASSUME NEW p \in Proc, Restart(p) PROVE Past /\ IsSigned
  BY <1>0, <1>7 DEF Restart, TypeOK
<1>8. CASE \/ \E k \in Key : AddKeyfile(k)
           \/ Tick
           \/ \E d \in ClockSteps : SetClockBack(d)
           \/ UNCHANGED vars
  BY <1>0, <1>8 DEF AddKeyfile, Tick, SetClockBack, vars
<1> QED BY <1>2, <1>3, <1>4, <1>5, <1>6, <1>7, <1>8 DEF Next, Serve

\* On macOS CANCEL refuses, whatever outcome the dialogs before it left behind.
THEOREM CancelCorrect == Spec => []CancelRefuses
<1>1. Init => NotCancelled /\ CancelRefuses
  BY DEF Init, NotCancelled, CancelRefuses
<1>2. TypeOK /\ NotCancelled /\ CancelRefuses /\ [Next]_vars => NotCancelled' /\ CancelRefuses'
  BY NextCancel
<1> QED BY <1>1, <1>2, TypeCorrect, PTL DEF Spec
=============================================================================
