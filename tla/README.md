# Keychain: TLA+ models, model checking and proofs

Keychain is a standalone program that keeps private keys in files and signs
transactions and hashes with them. A client (a web page, through a websocket, or
a native application) sends it JSON requests over a pipe; whatever touches a
private key goes through a *secure module*, a dialog outside the client's reach
where the user types the key's password or confirms. This directory holds models
of its core in TLA+, the TLC configurations that check them and proofs that TLAPS
checks. Source paths are relative to the repository.

## 1. Inventory

| Component | Code | State | Operations |
|---|---|---|---|
| Pipe parser | `src/keychain_lib/src/pipeline_parser.cpp` | read buffer, its size, the iterator behind the last byte | `run`, `cut_json_obj` |
| Dispatch and handlers | `keychain.cpp`, `keychain_commands.{hpp,cpp}` | none between commands but the cache | `about`, `version`, `sign_trx`, `sign_hash`, `unlock`, `lock`, `select_key`; the rest is deprecated and answers with an error |
| Unlock cache | `private_keymap.{hpp,cpp}`, `get_private_key` | `key_map`: secret, time of unlocking, duration; one entry a key | look-up (erases what has expired), insert, clear |
| Keyfiles | `keyfile_singleton.cpp` | the map of keyfiles in memory; the directory `key_data` | load, `operator[]` by key, name and position, `create`/`insert`, `update`, `remove`, `is_exist`, `flush_all` |
| Sign log | `sql_singleton.cpp` | SQLite tables `signlog`, `keypath` | insert, select |
| Secure modules | `sec_mod_linux.cpp`, `sec_mod_mac.mm`, `sec_mod.cpp` | none (macOS: `PassSyncStore`, a singleton with the outcome of the last dialog) | `exec_cmd`: show a dialog, return password, boolean or cancellation; on macOS `select_key` shows one too |
| Password entry on Linux | `passentry_cmd/`, `passentry_gui/` | keyboards disabled or not, the password typed, two processes and a socket pair | `fork_gui`, `input_password`, polling on both ends |
| Master key and derivation | `keydata_singleton.cpp` | keyfiles and the `keypath` table | create master key, derive, backup, restore |
| Import and export | `export_import.cpp` | keyfiles | `import_keys`, `export_keys` |
| Websocket front end | `src/ws/main.cpp`, and websocketd, which it starts and which is not in the repository | one keychain process per connection | accept, make a line of each message and a message of each line |
| JavaScript client | `src/docs/keychainWithoutNPM.js` | FIFO of callbacks | `command`, `onmessage` |

Interaction. The page's messages go through websocketd, which starts a keychain process
for each connection (`ws/main.cpp`); replies carry nothing that says which request they
answer, so the page gives each to the callback that waits longest.
The process runs one loop, `pipeline_parser::run`: read, cut an object off the
buffer, call `keychain::operator()`, write the reply, again. A handler that needs
a key calls `get_private_key`, which asks the cache, then `keyfile_singleton`
(which may load the directory), then blocks in the secure module, then
decrypts and fills the cache. `sign_trx` and `sign_hash` then sign, write a row to
`signlog` and reply. Within a process nothing is concurrent. Between processes
everything is: several keychain processes and the key manager share the directory
and the database, and nothing locks the directory. Killing a process (closing a
browser tab does it) is normal.

Hard behaviours:

* time passes in the dialog: the cache is asked before it and the key used after it;
* expired keys leave the cache only when somebody looks; the clock is `system_clock`;
* the directory is read file by file while others truncate and write files in place;
* a kill between any two steps; a log row that cannot be written;
* a request may come in pieces, the buffer has a limit, the end of the stream is a
  `read` of 0 bytes;
* loops that retry after loading the directory;
* a dialog's outcome that outlives the dialog (macOS), and messages of two processes that
  cross (Linux);
* replies that only their order ties to requests, through pipes that know no messages.

What makes each part correct: requests are handed over once, whole and in order (pipe parser);
each reply reaches the callback of its request (client and front end); a key is usable only for as
long and for what the user agreed to, and log and replies agree (handlers and cache); a load
reflects the directory, a missing key is reported only if it was missing, a stored key is never
lost (keyfiles); each dialog's outcome is the user's and keyboards come back (secure modules);
there is one master key and a restore brings back what a backup holds (keydata).

## 2. Modules

| Module | Models | Checked by |
|---|---|---|
| `SigningAuthority` | abstract: what the owner of the keys is promised | refined by `Keychain` |
| `Keychain` | handlers, cache, secure modules, for several processes | `MCKeychain`, `KeychainProofs`, `KeychainLogProofs`, `AuthorityProofs` |
| `KeyfileStore` | `keyfile_singleton` and the shared directory | `MCKeyfileStore`, `KeyfileProofs` |
| `PasswordDialog` | abstract: what a password dialog promises to those who use it | refined by `PassEntry` |
| `PassEntry` | one password dialog on Linux: `pass_entry_term` and `passentry_gui` | `MCPassEntry`, `PassEntryProofs` |
| `RequestFraming` | `cut_json_obj`, its loop and what it finds, on sequences | `MCSession`, `FramingProofs` |
| `RequestStream` | abstract: what a client is promised of the pipe | refined by `PipelineParser` |
| `PipelineParser` | `pipeline_parser::run` with its buffer | `MCSession`, `PipelineProofs` |
| `Session` | the composition: a page with the JavaScript client, websocketd, and `PipelineParser` | `MCSession`, `SessionProofs` |

Definitions whose comment says *variant for mutation* are not part of the
specifications. Each is a plausible mistake in one definition; with it in that
definition's place TLC finds the property it is paired with in `PROJECT.json`
violated, which shows that the property depends on the code.

### Keychain

A command is served in steps: `OpenDialog` (or `KeyNotFound`) is `get_private_key`
up to the dialog; `ReleaseKey` and `RefuseKey` are what follows the user's
answer; `SignAndLog`, `SignFails` and `Reply` are the rest of `sign_trx` and
`sign_hash`. The cut points are where other actors can act with effect: at the
dialog, around the log row, and before the reply (a kill). `lock` and requests that touch no key
are single steps. `key_map` keeps `from` and `duration` of an entry; time is in
ticks of which `TicksPerSec` make a second, because `duration_cast` drops the
fraction. `SecMod` chooses the secure module; its response to each act of the user
is an operator: `LinuxResponse`, `MacResponse` and `DummyResponse`. The last is the module of
test runs, which asks nobody, confirms everything and gives the password "blank" (act `blank`);
`Blank` are the keys that have this password, and in a test run they sign for whoever asks. So the
properties and the abstract specification speak of the `Protected` keys: the encrypted ones, and in
a test run those of them with another password. History variables (`epoch`, `approvals`, `answers`, `signatures`)
record what users agreed to and what clients received, for the properties.

Abstractions: cryptography and formats (a parse or signing failure is the choice
`SignFails`); keyfiles are only added, complete and short enough to be read (what else a keyfile
may be is the subject of `KeyfileStore`).

On macOS every dialog, that of `select_key` included (`SelectKey`), leaves its outcome
in a singleton which nothing resets. `button` is that outcome, `ButtonAfter` what
a dialog makes of it (OK and CANCEL set it, the title bar does not) and `MacResponse`
what `exec_cmd` answers when it reads it. The password is made an empty one before every dialog
(`ApplicationShared.mm:21`, which `sec_mod_mac.mm:33` and `gui_mod_mac.mm:24` call, the first
dialog of a process included) and again after it (`sec_mod_mac.mm:155`), so a closed window
yields an empty password, never an old one.

`SigningAuthority` is what the owner of the keys is promised, who knows of no cache, keyfile,
button or secure module. There are requests, windows that the owner opened, a log and the
signatures given out. An encrypted (in `Keychain`, a protected) key signs for a request that the owner answered with the
password, or that came while a window of that key was open in that process; a lock or a restart
closes the windows of the process; a signature is given out once and after its record. The
refinement mapping (`Authority`, at the end of `Keychain`) takes for windows the approvals of the
current epoch of each process, whatever its cache holds, for the request of a process the command
in its handler, for the stage of it where the handler is, and for the log, the signatures and the
other replies the rows and answers. So the implementation, `AuthoritySpec`, says that the cache
gives away no more than the owner agreed to; that it may give less (a second unlock that has no
effect) is left open in the abstract specification: an entitled request may be treated as one that
is not.

### KeyfileStore

A load reads one file a step. Any process loads and looks up; those in `Writer` also
create, update and remove keys. A file is a content, `Torn` (does not parse: skipped),
`Empty` (no complete line: `open_keyfile` throws `internal_error`, which ends the
load) or `Absent`. Contents in `Long` do not fit the 1024 bytes that `open_keyfile` reads a file
into: such a file is complete, its end is lost when it is read, and it is skipped like a torn one
(`Readable` are the others). `Insert` puts the entry into the map and truncates the file
(`OpenKeyfile`); `Flush` writes all, part or nothing of it. There are two kinds of update: the one
with a modifier (`Modify`, the template in `keyfile_singleton.hpp`) changes the entry and rewrites
its file in place in the same two steps, the one with a whole keyfile (`Update`) and `remove` work
on the map only. `flush_all` in the destructor names its files `key_data<hash>.json`, beside
the directory, so it changes no keyfile. A directory iteration meets every file
that is there throughout and may meet or miss one created meanwhile. Of the
operations that write, `create` is called by the macOS key manager (`CPlusPlusBridger.mm:44`) and
by the master key (`keydata_singleton.cpp:104` and `:185`), `insert` by the import of keys and
the deprecated `create_key`, and `update` with a whole keyfile by the import
(`export_import.cpp:67`). But for the key manager no live command gets there. `remove` and `update`
with a modifier have no caller at all; the overload of the latter by name could not have one, as
the `flush_keyfile` it calls is declared and never defined. They are modelled as the class offers
them, with a modifier that keeps the public key.

Two history variables serve the properties: `steady`, the files left alone since a load began
(`LoadIsCurrent`, `NotFoundHonest`), and `stored`, all that a file has said when it was complete.
`KnownWasStored` uses it for what `operator[]` returns without a look at the directory: it may be
old, it is never made up. `LookupLoadsOnce` is the safety half of `LookupEnds`: a look-up by key
does not begin again, as the one by position does for ever (`index_loops`).

### PassEntry

One dialog from `fork_gui` to its return, on two processes. `kc` is the place in
`pass_entry_term`: the loop of `input_password` is `ReadKey` or `ReadNoKey` ("keys": one
read of the device, then the length if it changed) and then `PollGui` ("poll": all that
the window has sent, CANCEL before OK before focus). `HandleKey` has the branches in the
order of the code. The loop is left in order by `Break`: for ESC, for ENTER if the lines are alike,
for the ENTER of the keypad without a comparison (the branch that compares knows the other one
only, and `OnKey` takes both for the same), for OK and CANCEL, and when the keyboard is lost
(`KeyboardLost`: a failed `select` or a short read, after which what has been typed so far is
returned). It is left by an exception in `Fail` (no device, a device that another process has
grabbed, a key beyond the map, a failure of `gui.Select`), and then nothing is returned. On the
other side
`GuiReceive` handles one message, and reports a change of focus that a message makes as
it does one by the mouse. `SendGui` and `SendKc` hold what a write to a socket does
whose other end has gone: SIGPIPE, which nothing in the program handles. `CloseWindow` is
`closeEvent`: it sends a cancel and, `accept` being the default, the window and with it the
process are gone before an answer.

Abstractions: messages that only change colours or labels are left out; a key is one
event (release, modifiers and anything without a character are the choice
`ReadNoKey`); keys behind the first one of a read are lost, as in the code; there is one
device; a failing write and a reset connection end in the same kill. The window is taken to be the
active one: a line of an inactive window reports its focus only when the window is activated, and
`FocusAgrees` says nothing of the time between. The lines of the window hold stars that keychain
told it of; that they can be edited, by pasting with the mouse, is not modelled, and what
`StarsShown` says of them holds as long as nobody does. Two lines
(`confirm`) are the dialog of `create_key`, which no live command asks for.

`PasswordDialog` is the dialog for those who know of no process, window, message or focus report:
lines that change by one key at a time where the cursor is, a decision, and a result. A password
is given out only if the user has agreed (ENTER, or OK as the first button), it is the line with
the cursor, and two lines are alike, or the user insisted (the ENTER of the keypad). The dialog
may also end with nothing at any time, or fail, and when it is interrupted (the keyboard is lost)
it may give out what there is. In
the refinement mapping (`Dialog`, at the end of `PassEntry`) lines and cursor are `password` and
`line_edit` as long as the loop runs, and the window, both sockets and the keyboards have no
counterpart: all their steps are stuttering.

`CloseUnderWay` is the safety half of `CancelEnds`: keychain is never in `wait()` for a window that
has not been told to close.

### RequestFraming, RequestStream, PipelineParser, Session

Of a byte only its part in the framing is kept. `RequestFraming` says for a
position of a buffer whether the scan of `cut_json_obj` ends there; it counts
braces in prefixes, so what it says of a position depends on nothing behind it.
It also holds the loop itself, step by step (`LoopStep`, `CutLoop`), and `CutAgrees` compares
the two on every buffer. `PipelineParser` adds the buffer; `RequestStream` knows
only the stream, with the refinement mapping `rest <- buf \o unread`: reads and
growth are stuttering, a request handed over is one step.

`Session` closes the circle. What the page will send is drawn at the start: a stream
cut into lines, each line a message, complete or not an object at all. `Command` sends
the next one and puts its number into the queue; `ReadSent` lets the parser read no more
than has been sent, in pieces that are not lines; `Reply` is the parser's `HandOver`
with the line it writes, numbered as the request; `OnMessage` takes the oldest
callback. `Leave` and `HangUp` are the two ends of a connection: by the page, and by
websocketd after keychain has ended (`Killed`, a crash, a refused request). websocketd
is modelled from how it is used, as are the limits of its pipes (none).
`NoneOverdue` is the safety half of `Called`: when nothing is under way any more, no callback waits.
A command on a socket that is still connecting throws before it changes anything, and one
on a closed socket waits in a queue that nothing reads; neither is a step of the model.

## 3. Runs

| Run | Question | Bounds |
|---|---|---|
| `unlock_two` | Do two Linux processes ever hold, use or log a key against the rules, and do they implement `SigningAuthority`? | 1 encrypted key, 3 commands or restarts, 4 half-second ticks, unlock time 1 s |
| `unlock_one` | The same with the macOS dialog, a plain key beside it, negative unlock times and a clock set back; does CANCEL refuse? `SigningAuthority` again, with a clock that is set back | 1 process, 2 keys, 3 commands, 2 one-second ticks |
| `test_run` | Does a test run sign with the keys of its own password only, and implement `SigningAuthority` for the others? Does every command get its own reply, unless its process is killed while it serves it? | 1 process, 2 encrypted keys, one of them with the password "blank", 3 commands or restarts, 2 one-second ticks |
| `cancel_linux` | violated: CANCEL in a Linux dialog without password field signs | 1 process |
| `close_mac` | violated: a window closed by its title bar signs with a key that needs no password | 1 process |
| `unlock_again` | violated: unlocking again has no effect | 1 process |
| `keyfiles` | Is a load current, what is known of a key something its file said, `key_not_found` honest, and does a look-up by key load once and end? | 2 processes, one of them a writer, 2 keys, one of them written, 3 contents, one of them too long to be read, 1 position |
| `index_loops` | violated: a look-up by position past the end never ends | 1 process, 1 key |
| `write_cut` | violated: a stored key is lost by a kill during a write | 2 processes, 1 key |
| `dialog` | Does a password dialog show what is typed, put it where the cursor is, refuse when cancelled, return a new password only if entered twice (with the two exceptions of section 2), wait only for a window that is told to close, implement `PasswordDialog`, and end? | 3 keys pressed, 1 character, 2 acts of the mouse |
| `dialog_gone` | violated: keychain is killed by a window that has gone, with the keyboards disabled | 1 act of the mouse |
| `requests` | Are the requests of a stream handed over whole and in order however it is read, does the loop of `cut_json_obj` agree with the framing, does each callback get the reply to its message and none stay behind, and does keychain end after its connection? | every stream of up to 6 bytes in up to 3 messages, buffer 2, 4, 6 |

Why the bounds are enough. Three commands are an unlock (or a `sign_trx` with an
unlock time), a lock, a restart or a second unlock, and a use; the time allows a
one-second window to open, run out by a fraction and run out by a second. Two
processes are needed only where they meet: the directory. Two keys with two
readable contents let a load mix files read before and after a change; one writer and one key that
it writes are enough for that, as a load only sees what the directory holds and what is said of a
key depends on no other, but for a load that an empty file ends. The third content is one that
`open_keyfile` cuts off. `write_cut` has two writers. In `requests`
the buffer grows by two steps to its maximum and is refused beyond it, 6 bytes
hold two requests with their newlines, or one that is too large, and three messages
let callbacks wait while replies are on their way. In `dialog`
three keys are a character, a TAB and a character or ENTER, enough for equal and
unequal lines, and two acts of the mouse are two buttons, or a button and a change of
focus, that cross on the socket. One character is enough, as no branch tells
characters apart; lines differ by their lengths.

Fairness. `CommandAnswered` (`test_run`) assumes that a process goes on with the command it serves.
In a test run that is all; with the other secure modules it would include that users answer
dialogs, and without that nothing in the code could help, as a dialog has no time limit. The property
asks for the reply to this command, by its id; only a kill of the process while it serves the command
excuses it. `keyfiles` and `index_loops` assume that a process that loads the directory goes on, and
nothing of the others. `dialog` assumes that both processes run on and that the user closes an expert
window in the end: while it is open the window's process does not end, and keychain waits for it.
`requests` (`FairSession`) assumes that keychain runs on, which includes that users answer its
dialogs, and that websocketd passes on what it gets and notices the end of keychain; the page need
neither send nor leave, and a kill is never obliged to come. So `Called` says that an open
connection answers every balanced message, and `Ends` that no keychain outlives its connection.
Deadlock is not checked where the bounds on commands and time, or the end of `run`, stop the
system.

## 4. Proofs

`KeychainProofs`, for every set of processes, keys, unlock times, blockchains and clock
steps, every tick length and each secure module, from `ConstantsAssumption`:

* `TypeCorrect`: `Spec => []TypeOK`. It carries the control invariant *a
  process has a command exactly while it is in a handler*, which every later
  argument needs.
* `CacheSafe`, `SignatureSafe`: `CachedByPassword` and `SignedByPassword`. Neither is
  inductive: between the look-up and the reply the request carries its claim in
  `op`. The inductive invariant `PasswordInv` adds `OpByPassword`: a command past
  its look-up with a protected key and no password typed has an approval whose
  window contained the clock time of that look-up. `lock` and `Restart` cannot
  disturb it because a process serves one command at a time, and an epoch
  changes only when the process has none. For the module of test runs the argument is another
  one: it never gives a password that opens a protected key, so none is ever released.

`KeychainLogProofs`, from the same assumptions and the type invariant:

* `LogCorrect`: `LogMatchesAnswer`. A row and an answer of a command are written by
  different steps; what links them is the command's id. `LogInv` adds that ids are given
  out once (`IdsFresh`), and that a command in a handler has no answer yet and has a row
  exactly from `SignAndLog` on (`OpUnanswered`).
* `UnlockCorrect`: the action property `OnlyDialogUnlocks`: of all steps only `ReleaseKey`
  adds to a cache (`UnlockStep`).
* `CancelCorrect`: `CancelRefuses`. Whatever the outcome was before, CANCEL overwrites it,
  so a command past its dialog was not cancelled (the act it carries says so). Run `close_mac`
  shows that the stronger `SignatureConfirmed` is false.
* `WindowCorrect`: `WindowBound`, assuming that `ClockSteps` holds nothing but 0, so that
  `system_clock` is never set back; with a clock that is, the age of an entry comes out too small
  and the window lasts longer. Without it `now` is the time that has passed, and the window that `SignedByPassword` speaks of is one
  of real seconds. `Seconds` is the arithmetic: a rounded-down age of at most `d` seconds is
  less than `d + 1`.

`AuthorityProofs`, from the same assumptions and both invariants above:

* `AuthorityImplemented`: `Spec => AuthoritySpec`, the refinement. Every action maps to one of
  `SigningAuthority` or to a stutter (`AskStep`, `ReleaseStep`, `RecordStep`, `SignStep`, ...).
  The invariant, `AuthorityInv`, is `PasswordInv`, `LogInv` and `PastOnly`, and is needed in three
  places: a key found in the cache must have an open window (`NoPasswordNeeded`, by
  `CachedByPassword` and the arithmetic of `Expired`), the id of a request must be one that nobody
  had (`IdIsFresh`), and the epoch that a lock or a restart begins must have no approval yet
  (`WindowsClosed`, by `PastOnly`). `ReleaseStep` has the cases: a signature or an unlock, with a
  window or without, with the user or not.

`KeyfileProofs`, for every finite set of keys, all processes and contents:

* `TypeCorrect`: among other things a process has read files exactly while it loads.
* `LoadCorrect`, `NotFoundCorrect`: `LoadIsCurrent` and `NotFoundHonest`, both of the files that are
  short enough to be read. The second is not
  inductive: that a look-up fails honestly needs that the load has met every file it may be blamed
  for. The invariant `LoadInv` says of each load that a file left alone since it began is
  complete, was listed when it began and, once read, is what the map says (`LoadTrusted`). The
  lemma `LoadUndisturbed` does the work for every step of the other processes.
* `KnownCorrect`: `KnownWasStored`. `KnownInv` adds that a complete file says what is recorded of
  it. Records only grow, so only `ReadFile` can put something new into the map of a process that
  writes no keys, and that is the content of a complete file.
* `LookupOnceCorrect`: the action property `LookupLoadsOnce`, from the types: of the steps that
  begin a load none leaves a process in a look-up it was in.

`PassEntryProofs`, for all characters and any number of keys and clicks, if the mark
`NoResult` is no password:

* `TypeCorrect`, with `Bounded`: a line is not longer than the keys that were used up. The lemma
  `Round` says of all branches of `HandleKey` at once what a round of the loop may do (`GoesOn`,
  `Ends`); the invariants below use that and not the branches.
* `CancelCorrect`: `CancelHonoured`. `CancelInv` adds where a cancellation is until keychain
  looks: among the reports it has not read. Both ENTERs and the loss of the keyboard are
  excepted: they return what has been typed whether or not a CANCEL is under way.
* `ConfirmedCorrect`: `ConfirmedEqual`, with `PressedInv`: a key that waits in the device was pressed,
  so a round that ends by the ENTER of the keypad (`FirstKey`) is one that the property excepts.
* `FocusCorrect`: `FocusAgrees` speaks only of the moment when both sockets are empty. `FocusSync`
  says what holds meanwhile: the last report of the window under way says where the cursor is, and
  if none is, then either the keys go to the cursor's line or the last message under way to the
  window moves the cursor to theirs. It needs that the event comes first, with the cursor still in
  the first line (`EventFirst`), and that with one line nobody speaks of the other (`OneLine`).
* `StarsCorrect`: `StarsShown`, in the same way from `StarsInv`: the last length under way for a
  line, or what the window shows if none is, is the line's length.
* `CloseCorrect`: `CloseUnderWay`. It needs `EventFirst` too: an event handled after the close
  would show the window again. `ReceiveCloses` has the messages that the window may find behind or
  before it.
* `DialogImplemented`: `Spec => DialogSpec`, the refinement, with `CancelInv` (an OK is only
  accepted if it came before any CANCEL), `PressedInv` (an ENTER in the device was pressed) and `OneLine` (with one
  line the window cannot move the cursor). Rounds of the loop are edits, switches or stuttering
  (`Continued`), and every way out of it is an end of the abstract dialog (`Left`, `Over`), also
  the kill by a window that has gone; the loss of the keyboard is the abstract interruption.

`FramingProofs`, for every sequence of bytes:

* `ScanPrefix`, `RequestPrefix`, `AfterFirstPrefix`: whatever the framing says of a position of
  the buffer it says of the same position of the whole stream. They rest on `BraceCountPrefix`: a
  count of braces before a position knows nothing behind it.
* `LoopCorrect`: the loop of `cut_json_obj` ends where the framing says, with the same verdict,
  start and end. `LoopInv` says of each round that the loop still counts and nothing has ended the
  scan, or that it has stopped where the scan ends; `LoopRound` is the round. The induction over
  the rounds is by the least round that fails (`Smallest`), and `LoopDefined` shows that the
  recursive function behind `Loop` exists, by extending it a position at a time.

`PipelineProofs`, for every buffer size, growth, limit and stream with a limit that the
size reaches exactly (4096 + 16 * 256 = 8192 does):

* `RoomCorrect`: `RoomToRead`. The size is always a whole number of growths above
  the first (`SizeInv`), so that the refusal comes before the room is used up.
* `CutCorrect`: `CutAgrees`, as the buffer is a sequence of bytes in every state.
* `StreamImplemented`: `Spec => StreamSpec`, the refinement: initial states map to initial
  states (`InitRefines`) and every step to a step or to a stutter (`StepRefines`).
  A request refused for its size has used more than `Limit` bytes, by `SizeInv`
  again; the end of the stream is reported only when no complete request is left, by
  `ReadInv` and the room for a read.

`SessionProofs`, from the same assumptions and any number of messages:

* `SessionImplementsParser`: a step of a session is a step of the parser or leaves it alone.
  `SessionRoom`, `SessionCut` and `SessionStream` follow from the parser's theorems.
* `OwnReplyCorrect`: `OwnReply`. Callbacks and requests are numbered by different processes, and
  nothing compares the numbers. The invariant `SessionInv` adds that what was handled, what is in
  the buffer and what is unread make up the stream (`StreamPart`), that the callbacks called and
  those that wait are the messages in their order (`QueuePart`), that the replies received and
  those under way are the requests in theirs (`WirePart`), and, for as long as messages are single
  objects, that the requests are the messages and the parser resumes behind the last of them
  (`AlignedPart`). `NextObject` is the lemma that carries it: from there the next object that the
  scan finds is the next message, whatever else is in the buffer.
* `NoneOverdueCorrect`: `NoneOverdue`, from the same invariant. If a message had not been handled,
  all of it would be in the buffer by then, and the scan would find an object there
  (`ObjectAhead`), but a parser that waits for more has none left.
* `SessionTypeCorrect`: `SessionTypeOK`, part of which (no callback is lost, no reply is ahead of
  its request) needs the same invariant.

Model-checked only: liveness (`CommandAnswered`, `LookupEnds`, `CancelEnds`, `Called`, `Ends`), as
the prover has no rule for `ENABLED`, which fairness needs. What they rest on is proved:
`NoneOverdue`, `LookupLoadsOnce` and `CloseUnderWay` say that nothing is left behind, and fairness
that it moves.

## 5. Where code and intention differ

`PROJECT.json` lists them with the lines on both sides; each is the
counterexample of one run: `cancel_linux`, `close_mac`, `unlock_again`, `dialog_gone`,
`index_loops`, `write_cut`.

Three more are exceptions that the properties make for what the code does, at the place where they
make them: a keyfile of 1024 characters or more is cut off when it is read and its key said not to
exist (`Readable`), the ENTER of the keypad and the loss of the keyboard return one of two lines
that were never compared (`ConfirmedEqual`; no live command opens that dialog), and an unlock window
is measured with a clock that may be set back (`SignedByPassword` against `WindowBound`).

## 6. Not modelled, and why

What is left falls into four groups.

*Code that does not run.* The master key and derivation, backup and restore
(`keydata_singleton.cpp`), import and export (`export_import.cpp`) and the `keypath` table are
reached by no live command: their handlers are deprecated and answer with an error, and no
other program of the repository calls them. `create_key` is the same, except that `PassEntry` has its
dialog with two lines. The Windows port does not compile against this version of the library
(`SecureModuleWrapper.cpp`), and the macOS `gui_mod_mac` does not override the pure `entropy()` of its
base; its dialogs are modelled because this is the only thing in the way.

*Code whose behaviour is decided elsewhere.* When `./passentry_gui` cannot be executed, the child
that `fork_gui` made goes on as a second keychain; what it does first depends on an X connection
shared by two processes, inside libX11. Two dialogs at once share the X keyboards and the grab of
a device in the kernel. Both are listed as hazards and have no property.

*Pure data.* Cryptography, keyfile and transaction formats, JSON of the secure module protocol, the
word list: the models choose whether such a step fails. The bundled SQLite is a library; the
commit of a row is one step.

*No state of interest.* Widgets and layout, the logger, version information, `rsv` and `getResult`
of the JavaScript client, the loop of `ws/main.cpp` that renews the X access list, the installers.

What could come next within these limits: a session whose keychain is `Keychain` and not a parser that
always replies, and a `Keychain` whose Linux dialog is `PasswordDialog`, so that the three compose.
