------------------------------- MODULE Keychain -------------------------------
(***************************************************************************)
(* The signing core of keychain: keychain_base, the command handlers of    *)
(* keychain_commands.hpp and get_private_key, for a set of keychain        *)
(* processes that share one key_data directory and one signlog table.      *)
(* Every process serves its commands one at a time; get_private_key blocks *)
(* in the secure module's dialog, while time passes and the other          *)
(* processes run.                                                          *)
(*                                                                         *)
(* A key is a model value; Encrypted are the keys whose file needs a       *)
(* password.  A process may be killed and started again at any step.       *)
(***************************************************************************)
EXTENDS Integers

CONSTANTS Proc,         \* keychain processes
          Key,          \* key pairs, identified by their public key
          Encrypted,    \* the keys whose keyfile is encrypted
          Blank,        \* those of them whose password is "blank", as test runs use
          UnlockTime,   \* the unlock times clients ask for, in seconds; 0 when absent
          Blockchain,   \* the blockchain types of sign_trx requests
          TicksPerSec,  \* resolution of system_clock; unlock times are whole seconds
          SecMod,       \* the secure module the processes are connected to
          ClockSteps,   \* by how many ticks system_clock may be set back
          None,         \* no cache entry, no command
          MaxTime,      \* bound: ticks of the run
          MaxCommands   \* bound: commands and restarts of the run

Duration == {t \in UnlockTime : t > 0}

Entry == [from : Int, duration : Duration]

SignTrx  == [name : {"sign_trx"}, key : Key, unlock_time : UnlockTime,
             blockchain : Blockchain]
SignHash == [name : {"sign_hash"}, key : Key, unlock_time : {0}]
Unlock   == [name : {"unlock"}, key : Key, unlock_time : Duration]
Command  == SignTrx \cup SignHash \cup Unlock

\* What a user does with a dialog: OK, with the right, a wrong or no password where
\* the dialog has a field for one, CANCEL, or (macOS) closing it by its title bar.
\* In a test run there is no user: the module itself gives the password "blank".
Act == {"ok", "wrong", "empty", "cancel", "close", "blank"}

Op == [id : Nat, cmd : Command, no_password : BOOLEAN, checked : Nat,
       clock : Int, typed : BOOLEAN, act : Act \cup {"none"}]

ASSUME ConstantsAssumption ==
  /\ Encrypted \subseteq Key /\ Blank \subseteq Encrypted
  /\ UnlockTime \subseteq Int
  /\ TicksPerSec \in Nat \ {0}
  /\ SecMod \in {"linux", "mac", "dummy"}
  /\ ClockSteps \subseteq Nat
  /\ None \notin Entry \cup Op
  /\ MaxTime \in Nat /\ MaxCommands \in Nat

VARIABLES
  now,        \* ticks since the start of the run
  skew,       \* how far system_clock has been set back
  disk,       \* keys with a keyfile in key_data
  loaded,     \* loaded[p]: keys in the keyfile map of process p
  key_map,    \* key_map[p][k]: the unlocked private key, or None
  button,     \* button[p]: macOS, the last button pressed in a dialog of process p
  pc,         \* pc[p]: where process p is in the handler of its command
  op,         \* op[p]: the command being served, or None
  rows,       \* ids of the commands with a row in signlog
  issued,     \* number of commands and restarts so far; gives commands their id
  epoch,      \* history: epoch[p] counts the lock commands and restarts of p
  approvals,  \* history: unlock windows that users agreed to
  answers,    \* history: the replies clients received
  signatures  \* history: the signatures clients received

fileVars == <<disk, loaded>>
history  == <<epoch, approvals, answers, signatures>>
vars == <<now, skew, fileVars, key_map, button, pc, op, rows, issued, history>>

Clock == now - skew

Approval  == [proc : Proc, epoch : Nat, key : Key, duration : Duration,
              clock : Int, at : Nat]
Answer    == [id : Nat, kind : {"signature", "other"}]
Signature == [id : Nat, proc : Proc, epoch : Nat, key : Key, checked : Nat,
              clock : Int, typed : BOOLEAN, act : Act]

-----------------------------------------------------------------------------
(* The unlock cache, private_key_map_t. *)

EmptyMap == [k \in Key |-> None]

\* (Variant for mutation: one second too many.)
ExpiredLate(entry) == (Clock - entry.from) \div TicksPerSec > entry.duration + 1

\* duration_cast to seconds drops the fraction before the comparison.
Expired(entry) == (Clock - entry.from) \div TicksPerSec > entry.duration

\* Only a request that does not itself ask for an unlock window looks at the cache.
Unlocked(p, c) ==
  /\ c.unlock_time = 0
  /\ key_map[p][c.key] # None
  /\ ~Expired(key_map[p][c.key])

\* (Variant for mutation: every use of a cached key starts its window anew.)
AfterLookupSliding(p, c) ==
  IF c.unlock_time # 0 THEN key_map
  ELSE IF Unlocked(p, c) THEN [key_map EXCEPT ![p][c.key].from = Clock]
  ELSE [key_map EXCEPT ![p][c.key] = None]

\* A look-up that finds an expired entry erases it.
AfterLookup(p, c) ==
  IF c.unlock_time = 0 /\ ~Unlocked(p, c)
  THEN [key_map EXCEPT ![p][c.key] = None]
  ELSE key_map

\* The index by public key is unique: insert leaves an existing entry alone.
AfterInsert(p, c) ==
  IF c.unlock_time > 0 /\ key_map[p][c.key] = None
  THEN [key_map EXCEPT ![p][c.key] = [from |-> Clock, duration |-> c.unlock_time]]
  ELSE key_map

NoPassword(p, c) == Unlocked(p, c) \/ c.key \notin Encrypted

-----------------------------------------------------------------------------
(* The secure module. *)

UserAct(no_password) ==
  CASE SecMod = "dummy" -> {"blank"}
    [] OTHER            -> {"ok", "cancel"}
                             \cup (IF no_password THEN {} ELSE {"wrong", "empty"})
                             \cup (IF SecMod = "mac" THEN {"close"} ELSE {})

LinuxResponse(no_password, u) ==
  CASE no_password                  -> "true"
    [] ~no_password /\ u = "cancel" -> "empty"
    [] OTHER                        -> u

\* (Variant for mutation: CANCEL closes the window and leaves the outcome.)
ButtonAfterCancelKeeps(last, u) == IF u \in {"close", "cancel"} THEN last ELSE "ok"

\* The macOS dialogs leave their outcome in PassSyncStore; OK and CANCEL set it,
\* the button of the title bar only closes the window.
ButtonAfter(last, u) ==
  CASE u = "close"  -> last
    [] u = "cancel" -> "cancel"
    [] OTHER        -> "ok"

\* (Variant for mutation: a dialog without a password field cannot be cancelled.)
MacResponseUncancelled(last, no_password, u) ==
  CASE no_password                               -> "true"
    [] ~no_password /\ u \in {"cancel", "close"} -> "canceled"
    [] OTHER                                     -> u

\* exec_cmd looks at that outcome and at the password, which is reset to an empty one
\* before every dialog (ApplicationShared) and after it, and which only OK stores.
MacResponse(last, no_password, u) ==
  CASE ButtonAfter(last, u) = "cancel"              -> "canceled"
    [] ButtonAfter(last, u) = "ok" /\ no_password   -> "true"
    [] OTHER                                        -> IF u = "close" THEN "empty" ELSE u

\* (Variant for mutation: every key opens in a test run.)
DummyResponseAny(no_password, k) == IF no_password THEN "true" ELSE "ok"

\* The module of test runs asks nobody: it confirms, or gives the password "blank".
DummyResponse(no_password, k) ==
  CASE no_password                  -> "true"
    [] ~no_password /\ k \in Blank  -> "ok"
    [] OTHER                        -> "wrong"

\* The response to the command for key k, when the user does u.
Response(last, no_password, k, u) ==
  CASE SecMod = "linux" -> LinuxResponse(no_password, u)
    [] SecMod = "mac"   -> MacResponse(last, no_password, u)
    [] OTHER            -> DummyResponse(no_password, k)

\* get_private_key returns the secret on these responses and throws on the others.
Grants(last, no_password, k, u) == Response(last, no_password, k, u) \in {"true", "ok"}

\* The dialog of process p ends with the act u.
DialogEnds(p, u) ==
  button' = IF SecMod = "mac" THEN [button EXCEPT ![p] = ButtonAfter(@, u)] ELSE button

-----------------------------------------------------------------------------
Init ==
  /\ now = 0
  /\ skew = 0
  /\ disk \in SUBSET Key
  /\ loaded = [p \in Proc |-> disk]
  /\ key_map = [p \in Proc |-> EmptyMap]
  /\ button = [p \in Proc |-> "ok"]
  /\ pc = [p \in Proc |-> "idle"]
  /\ op = [p \in Proc |-> None]
  /\ rows = {}
  /\ issued = 0
  /\ epoch = [p \in Proc |-> 0]
  /\ approvals = {}
  /\ answers = {}
  /\ signatures = {}

\* (Variant for mutation: the finished command is not forgotten.)
FinishKeepsOp(p, id, kind) ==
  /\ pc' = [pc EXCEPT ![p] = "idle"]
  /\ answers' = answers \cup {[id |-> id, kind |-> kind]}
  /\ UNCHANGED op

Finish(p, id, kind) ==
  /\ pc' = [pc EXCEPT ![p] = "idle"]
  /\ op' = [op EXCEPT ![p] = None]
  /\ answers' = answers \cup {[id |-> id, kind |-> kind]}

Receive(p) ==
  /\ pc[p] = "idle"
  /\ issued < MaxCommands
  /\ issued' = issued + 1

\* Requests that touch no key: about and version, select_key without a dialog (the
\* graphical module of Linux answers with the first key); and the errors - a
\* request that does not parse, a missing public key, a command with no handler or
\* a deprecated one.
AnswerAtOnce(p) ==
  /\ Receive(p)
  /\ Finish(p, issued, "other")
  /\ UNCHANGED <<now, skew, fileVars, key_map, button, rows, epoch, approvals, signatures>>

\* select_key on macOS: its dialog shares PassSyncStore with the others.
SelectKey(p, u) ==
  /\ SecMod = "mac"
  /\ Receive(p)
  /\ u \in UserAct(TRUE)
  /\ DialogEnds(p, u)
  /\ Finish(p, issued, "other")
  /\ UNCHANGED <<now, skew, fileVars, key_map, rows, epoch, approvals, signatures>>

\* (Variant for mutation: lock answers and forgets to clear the map.)
LockForgets(p) ==
  /\ Receive(p)
  /\ epoch' = [epoch EXCEPT ![p] = @ + 1]
  /\ Finish(p, issued, "other")
  /\ UNCHANGED <<now, skew, fileVars, key_map, button, rows, approvals, signatures>>

Lock(p) ==
  /\ Receive(p)
  /\ key_map' = [key_map EXCEPT ![p] = EmptyMap]
  /\ epoch' = [epoch EXCEPT ![p] = @ + 1]
  /\ Finish(p, issued, "other")
  /\ UNCHANGED <<now, skew, fileVars, button, rows, approvals, signatures>>

\* The first half of get_private_key: the cache, then the keyfile, which is
\* looked for once more on disk when the process has not loaded it, then the
\* command for the secure module is built and its dialog opened.
OpenDialog(p, c) ==
  /\ Receive(p)
  /\ c.key \in loaded[p] \cup disk
  /\ key_map' = AfterLookup(p, c)
  /\ loaded' = IF c.key \in loaded[p] THEN loaded ELSE [loaded EXCEPT ![p] = disk]
  /\ pc' = [pc EXCEPT ![p] = "dialog"]
  /\ op' = [op EXCEPT ![p] = [id |-> issued, cmd |-> c, no_password |-> NoPassword(p, c),
                              checked |-> now, clock |-> Clock,
                              typed |-> FALSE, act |-> "none"]]
  /\ UNCHANGED <<now, skew, disk, button, rows, history>>

KeyNotFound(p, c) ==
  /\ Receive(p)
  /\ c.key \notin loaded[p] \cup disk
  /\ key_map' = AfterLookup(p, c)
  /\ loaded' = [loaded EXCEPT ![p] = disk]
  /\ Finish(p, issued, "other")
  /\ UNCHANGED <<now, skew, disk, button, rows, epoch, approvals, signatures>>

\* The second half of get_private_key, when the response releases the secret.
ReleaseKey(p, u) ==
  LET o == op[p]
      c == o.cmd
  IN  /\ pc[p] = "dialog"
      /\ u \in UserAct(o.no_password)
      /\ Grants(button[p], o.no_password, c.key, u)
      /\ DialogEnds(p, u)
      /\ key_map' = AfterInsert(p, c)
      /\ approvals' = IF c.unlock_time > 0 /\ u = "ok"
                      THEN approvals \cup
                             {[proc |-> p, epoch |-> epoch[p], key |-> c.key,
                               duration |-> c.unlock_time, clock |-> Clock, at |-> now]}
                      ELSE approvals
      /\ IF c.name = "unlock"
         THEN Finish(p, o.id, "other")
         ELSE /\ pc' = [pc EXCEPT ![p] = "secret"]
              /\ op' = [op EXCEPT ![p].typed = u = "ok" /\ ~o.no_password,
                                  ![p].act = u]
              /\ UNCHANGED answers
      /\ UNCHANGED <<now, skew, fileVars, rows, issued, epoch, signatures>>

\* An empty password, a wrong one, or a cancellation.
RefuseKey(p, u) ==
  /\ pc[p] = "dialog"
  /\ u \in UserAct(op[p].no_password)
  /\ ~Grants(button[p], op[p].no_password, op[p].cmd.key, u)
  /\ DialogEnds(p, u)
  /\ Finish(p, op[p].id, "other")
  /\ UNCHANGED <<now, skew, fileVars, key_map, rows, issued, epoch, approvals, signatures>>

\* sign_trx signs for these blockchains only: the bitshares branch never assigns
\* the signature and any other type ends in the default branch.
CanSign(c) == c.name = "sign_trx" => c.blockchain \in {"array", "ethereum", "bitcoin"}

\* (Variant for mutation: a row that cannot be written is ignored.)
SignUnlogged(p) ==
  /\ pc[p] = "secret"
  /\ CanSign(op[p].cmd)
  /\ \E written \in BOOLEAN : rows' = IF written THEN rows \cup {op[p].id} ELSE rows
  /\ pc' = [pc EXCEPT ![p] = "logged"]
  /\ UNCHANGED <<now, skew, fileVars, key_map, button, op, issued, history>>

\* The signature is made and its row is committed to signlog.
SignAndLog(p) ==
  /\ pc[p] = "secret"
  /\ CanSign(op[p].cmd)
  /\ rows' = rows \cup {op[p].id}
  /\ pc' = [pc EXCEPT ![p] = "logged"]
  /\ UNCHANGED <<now, skew, fileVars, key_map, button, op, issued, history>>

\* (Variant for mutation: a failure makes the handler ask the user again.)
SignFailsRetries(p) ==
  /\ pc[p] = "secret"
  /\ pc' = [pc EXCEPT ![p] = "dialog"]
  /\ UNCHANGED <<now, skew, fileVars, key_map, button, op, rows, issued, history>>

\* No signature (blockchain not supported, transaction or hash that does not
\* parse) or no row (the table is busy, the disk full).
SignFails(p) ==
  /\ pc[p] = "secret"
  /\ Finish(p, op[p].id, "other")
  /\ UNCHANGED <<now, skew, fileVars, key_map, button, rows, issued, epoch,
                 approvals, signatures>>

Reply(p) ==
  LET o == op[p]
  IN  /\ pc[p] = "logged"
      /\ signatures' = signatures \cup
           {[id |-> o.id, proc |-> p, epoch |-> epoch[p], key |-> o.cmd.key,
             checked |-> o.checked, clock |-> o.clock,
             typed |-> o.typed, act |-> o.act]}
      /\ Finish(p, o.id, "signature")
      /\ UNCHANGED <<now, skew, fileVars, key_map, button, rows, issued, epoch, approvals>>

-----------------------------------------------------------------------------
(* The environment. *)

\* The process is killed, whatever it is doing, and a new one started: the
\* constructor of keyfile_singleton loads key_data.
Restart(p) ==
  /\ issued < MaxCommands
  /\ issued' = issued + 1
  /\ loaded' = [loaded EXCEPT ![p] = disk]
  /\ key_map' = [key_map EXCEPT ![p] = EmptyMap]
  /\ button' = [button EXCEPT ![p] = "ok"]
  /\ pc' = [pc EXCEPT ![p] = "idle"]
  /\ op' = [op EXCEPT ![p] = None]
  /\ epoch' = [epoch EXCEPT ![p] = @ + 1]
  /\ UNCHANGED <<now, skew, disk, rows, approvals, answers, signatures>>

\* The key manager, another program, writes a new keyfile.
AddKeyfile(k) ==
  /\ disk' = disk \cup {k}
  /\ UNCHANGED <<now, skew, loaded, key_map, button, pc, op, rows, issued, history>>

Tick ==
  /\ now < MaxTime
  /\ now' = now + 1
  /\ UNCHANGED <<skew, fileVars, key_map, button, pc, op, rows, issued, history>>

\* system_clock is not monotonic: the user or a time service may set it back.
SetClockBack(d) ==
  /\ now < MaxTime
  /\ skew' = skew + d
  /\ now' = now + 1
  /\ UNCHANGED <<fileVars, key_map, button, pc, op, rows, issued, history>>

-----------------------------------------------------------------------------
Serve(p) ==
  \/ \E u \in Act : ReleaseKey(p, u) \/ RefuseKey(p, u)
  \/ SignAndLog(p)
  \/ SignFails(p)
  \/ Reply(p)

Next ==
  \/ \E p \in Proc : \/ AnswerAtOnce(p)
                     \/ \E u \in Act : SelectKey(p, u)
                     \/ Lock(p)
                     \/ \E c \in Command : OpenDialog(p, c) \/ KeyNotFound(p, c)
                     \/ Serve(p)
                     \/ Restart(p)
  \/ \E k \in Key : AddKeyfile(k)
  \/ Tick
  \/ \E d \in ClockSteps : SetClockBack(d)

Spec == Init /\ [][Next]_vars

\* A process runs on, and the user answers every dialog.
FairSpec == Spec /\ \A p \in Proc : WF_vars(Serve(p))

-----------------------------------------------------------------------------
(* Properties. *)

\* Every variable has its type, and a process holds a command exactly while it
\* is in the handler of one.
TypeOK ==
  /\ now \in Nat /\ skew \in Nat
  /\ disk \subseteq Key
  /\ loaded \in [Proc -> SUBSET Key]
  /\ key_map \in [Proc -> [Key -> Entry \cup {None}]]
  /\ button \in [Proc -> {"ok", "cancel"}]
  /\ pc \in [Proc -> {"idle", "dialog", "secret", "logged"}]
  /\ op \in [Proc -> Op \cup {None}]
  /\ \A p \in Proc : pc[p] \in {"secret", "logged"} => op[p].act \in Act
  /\ \A p \in Proc : pc[p] = "idle" <=> op[p] = None
  /\ rows \subseteq Nat
  /\ issued \in 0..MaxCommands
  /\ epoch \in [Proc -> Nat]
  /\ approvals \subseteq Approval
  /\ answers \subseteq Answer
  /\ signatures \subseteq Signature

\* The keys no signature is made with unless their password was given by a user: the
\* encrypted ones, but for those that a test run opens with its own password.
Protected == IF SecMod = "dummy" THEN Encrypted \ Blank ELSE Encrypted

\* An unlocked private key of a protected file is in the memory of a process
\* only because a user typed its password there, in answer to a request that
\* announced this unlock time, and since then neither a lock command nor a
\* restart has come (get_private_key inserts, lock_all_priv_keys clears).
CachedByPassword ==
  \A p \in Proc, k \in Protected :
    key_map[p][k] # None =>
      \E a \in approvals :
        /\ a.proc = p /\ a.epoch = epoch[p] /\ a.key = k
        /\ a.clock = key_map[p][k].from /\ a.duration = key_map[p][k].duration

\* In this process, in this epoch, a user opened a window for the key that had not
\* run out at clock time t.
WindowApproved(p, e, k, t) ==
  \E a \in approvals :
    /\ a.proc = p /\ a.epoch = e /\ a.key = k
    /\ (t - a.clock) \div TicksPerSec <= a.duration

\* A client receives a signature made with a protected key only if its password
\* was typed for this very request, or was typed in the same process, with no
\* lock or restart in between, for an unlock window that system_clock said was
\* still open when the request was looked up in the cache (get_private_key).
SignedByPassword ==
  \A s \in signatures :
    s.key \in Protected /\ ~s.typed => WindowApproved(s.proc, s.epoch, s.key, s.clock)

\* The same in real time: a window of d seconds is of no use to a request that
\* arrives d + 1 seconds or more after the password was typed (the fraction of a
\* second is what duration_cast drops).
WindowBound ==
  \A s \in signatures :
    s.key \in Protected /\ ~s.typed =>
      \E a \in approvals :
        /\ a.proc = s.proc /\ a.epoch = s.epoch /\ a.key = s.key
        /\ s.checked - a.at < (a.duration + 1) * TicksPerSec

\* The audit log and the clients agree: a command that was answered has a row in
\* signlog if its answer was a signature, and none if it was anything else
\* (sign_trx and sign_hash log before they reply, and after all that can fail).
LogMatchesAnswer ==
  \A a \in answers : a.kind = "signature" <=> a.id \in rows

\* Every signature that reaches a client was confirmed by a user pressing OK in
\* the dialog of that very request.
SignatureConfirmed == \A s \in signatures : s.act = "ok"

\* With the macOS dialogs, a request whose dialog the user cancelled by its button
\* gets no signature, however the dialogs before it ended; a signature that nobody
\* confirmed is one whose window was closed (sec_mod_mac::exec_cmd).
CancelRefuses ==
  SecMod = "mac" => \A s \in signatures : s.act \in {"ok", "close"}

\* What the unlock dialog announces: for the seconds named in it the key stays
\* unlocked, unless a lock command or a restart intervenes.
UnlockHonoured ==
  \A a \in approvals :
    a.epoch = epoch[a.proc] /\ now - a.at <= a.duration * TicksPerSec =>
      /\ key_map[a.proc][a.key] # None
      /\ ~Expired(key_map[a.proc][a.key])

\* A key that a handler has found locked stays locked until a user answers a
\* dialog: a step that gives a process a private key it did not hold is a step of
\* ReleaseKey, with the entry timed from that very moment.
OnlyDialogUnlocks ==
  [][\A p \in Proc, k \in Key :
       key_map'[p][k] \notin {key_map[p][k], None} =>
         /\ key_map[p][k] = None
         /\ pc[p] = "dialog" /\ op[p].cmd.key = k
         /\ key_map'[p][k].from = Clock]_vars

\* Whatever caches, dialogs and handlers do, keychain gives out signatures only by the
\* rules of SigningAuthority: the owner's windows are the approvals of the epoch, a
\* request is what the handler of a process holds, and the record is signlog.  The
\* keys that a test run opens for anyone count as keys without a password.
WindowOf(a) == [key |-> a.key, from |-> a.clock, duration |-> a.duration]
Windows ==
  [p \in Proc |->
     {WindowOf(a) : a \in {b \in approvals : b.proc = p /\ b.epoch = epoch[p]}}]
Stage == [dialog |-> "asked", secret |-> "allowed", logged |-> "recorded"]
NeedsNothing(o) == o.no_password \/ o.cmd.key \notin Protected
Held(p) ==
  [id |-> op[p].id, key |-> op[p].cmd.key, entitled |-> NeedsNothing(op[p]),
   stage |-> Stage[pc[p]], owner |-> op[p].act = "ok"]
Requests == [p \in Proc |-> IF pc[p] = "idle" THEN {} ELSE {Held(p)}]
Signed   == {[id |-> s.id, key |-> s.key, owner |-> s.act = "ok"] : s \in signatures}
Answered == {a.id : a \in {b \in answers : b.kind = "other"}}

Authority ==
  INSTANCE SigningAuthority
    WITH Encrypted <- Protected, Id <- 0..MaxCommands, clock <- Clock, windows <- Windows,
         request <- Requests,
         log <- rows, signed <- Signed, answered <- Answered
AuthoritySpec == Authority!Spec

\* Process p serves the command with this id, in this epoch.
Serving(p, id, e) == pc[p] # "idle" /\ op[p].id = id /\ epoch[p] = e

\* If the user answers the dialogs, every command is answered by its own reply,
\* whatever the dialog, the signing and the table of the log do, unless the process
\* is killed while it serves it.
CommandAnswered ==
  \A p \in Proc, id \in 0..(MaxCommands - 1), e \in 0..(MaxCommands - 1) :
    Serving(p, id, e) ~> (\E a \in answers : a.id = id) \/ epoch[p] > e
=============================================================================
