------------------------------- MODULE PassEntry -------------------------------
(***************************************************************************)
(* One password dialog on Linux.  pass_entry_term, in the keychain         *)
(* process, disables the keyboards of the X server and reads the keyboard  *)
(* device itself; passentry_gui, its child, shows the window and knows of  *)
(* the password only the number of characters.  The two talk over a socket *)
(* pair, and whoever writes to it after the other has gone is killed by    *)
(* SIGPIPE.                                                                *)
(***************************************************************************)
EXTENDS Integers, Sequences

CONSTANTS Char,       \* characters a password is made of
          NoResult,   \* the dialog has not returned anything
          MaxKeys,    \* bound: keys the user presses
          MaxClicks   \* bound: what the user does with the mouse

ASSUME ConstantsAssumption ==
  /\ MaxKeys \in Nat /\ MaxClicks \in Nat
  /\ NoResult \notin Seq(Char)

VARIABLES
  \* keychain
  confirm,      \* whether the password is entered twice (create_key)
  kc,           \* where pass_entry_term is, see TypeOK
  keyboards,    \* whether X has its keyboards: "on" or "off"
  typed,        \* keys in the keyboard device, not read yet
  password,     \* the two lines
  pass_len,     \* their lengths as last sent to the window
  line_edit,    \* the line that is typed into
  expert_mode,  \* what keychain thinks of the expert window
  result,       \* what fork_gui returns
  \* passentry_gui
  gui,          \* "starting", "shown", "closed" (not its expert window) or "exited"
  expert,       \* whether its modal expert window is open
  focus,        \* the line with the cursor
  text,         \* the number of stars in each line
  \* the socket pair, and the user
  toGui, toKc,
  keys_left, clicks_left,
  enters,       \* history: which of the keys ENTER and KPENTER were pressed
  first_click,  \* history: the first button
  lost          \* history: the keyboard could not be read any more

keychain == <<password, pass_len, line_edit, expert_mode, result>>
window   == <<gui, expert, focus, text>>
user     == <<keys_left, clicks_left, enters, first_click, lost>>
vars == <<confirm, kc, keyboards, typed, keychain, window, toGui, toKc, user>>

Line == {0, 1}
Enters == {"ENTER", "KPENTER"}
\* KPENTER is the ENTER of the keypad; REPEAT stands for BACKSPACE held down.
Key  == Char \cup Enters \cup {"ESC", "BACKSPACE", "REPEAT", "TAB"}

\* Messages.  Those that only change colours and labels (modify, check,
\* strength) are left out.
Plain(cmd)        == [cmd |-> cmd]
Focus(l)          == [cmd |-> "focus", line |-> l]
Length(n, l)      == [cmd |-> "length", len |-> n, line |-> l]
ExpertMode(e)     == [cmd |-> "expert_mode", enable |-> e]
MessagesToGui == {Plain(c) : c \in {"event", "close", "close_expert_mode"}}
                   \cup {Focus(l) : l \in Line}
                   \cup {Length(n, l) : n \in 0..MaxKeys, l \in Line}
MessagesToKc  == {Plain(c) : c \in {"ok", "cancel"}}
                   \cup {Focus(l) : l \in Line} \cup {ExpertMode(e) : e \in BOOLEAN}

Cleared == [l \in Line |-> <<>>]
Equal   == password[0] = password[1]

\* fork_gui has started the window and sent it the event.
Init ==
  /\ confirm \in BOOLEAN
  /\ kc = "start" /\ keyboards = "on" /\ typed = <<>>
  /\ password = Cleared /\ pass_len = [l \in Line |-> 0]
  /\ line_edit = 0 /\ expert_mode = FALSE /\ result = NoResult
  /\ gui = "starting" /\ expert = FALSE /\ focus = 0 /\ text = [l \in Line |-> 0]
  /\ toGui = <<Plain("event")>> /\ toKc = <<>>
  /\ keys_left = MaxKeys /\ clicks_left = MaxClicks
  /\ enters = {} /\ first_click = "none" /\ lost = FALSE

-----------------------------------------------------------------------------
(* keychain. *)

\* send_gui, once for each message, and what follows.
SendGui(messages, next) ==
  IF gui = "exited" /\ messages # <<>>
  THEN kc' = "dead" /\ toGui' = toGui
  ELSE kc' = next /\ toGui' = toGui \o messages

\* The keyboards are disabled and the state of the modifiers is sent.
Start ==
  /\ kc = "start"
  /\ keyboards' = "off"
  /\ kc' = IF gui = "exited" THEN "dead" ELSE "keys"
  /\ UNCHANGED <<confirm, typed, keychain, window, toGui, toKc, user>>

\* What OnKey makes of a line.
OnKey(k, line) ==
  CASE k \in Char -> Append(line, k)
    [] k = "ESC"  -> <<>>
    [] k \in {"BACKSPACE", "REPEAT"} /\ line # <<>> -> SubSeq(line, 1, Len(line) - 1)
    [] OTHER      -> line

\* The branches that come before OnKey, and the keys that end the dialog.  The
\* branch that compares the lines knows one ENTER only; that of the keypad goes
\* through to OnKey, which takes it for an ENTER.
Toggles(k)  == k = "TAB" /\ confirm
InExpert(k) == ~Toggles(k) /\ expert_mode /\ k # "REPEAT"
EndsEntry(k) ==
  /\ ~InExpert(k)
  /\ \/ k = "ESC"
     \/ k = "ENTER" /\ (confirm => Equal)
     \/ k = "KPENTER"

\* (Variant for mutation: one length for both lines.)
LengthsShared(pw, l) ==
  IF \E m \in Line : Len(pw[l]) = pass_len[m] THEN <<>> ELSE <<Length(Len(pw[l]), l)>>

\* The length is sent when that of the edited line has changed.
Lengths(pw, l) ==
  IF Len(pw[l]) = pass_len[l] THEN <<>> ELSE <<Length(Len(pw[l]), l)>>

\* The rest of a round of the loop.
Continue(messages, pw, l) ==
  /\ password' = pw
  /\ line_edit' = l
  /\ pass_len' = [pass_len EXCEPT ![l] = Len(pw[l])]
  /\ SendGui(messages \o Lengths(pw, l), "poll")
  /\ UNCHANGED result

\* (Variants for mutation: the window is not told; nothing is returned.)
BreakUnclosed(pw) ==
  /\ password' = pw
  /\ result' = pw[line_edit]
  /\ kc' = "wait"
  /\ UNCHANGED <<toGui, pass_len, line_edit>>

BreakEmptyHanded(pw) ==
  /\ password' = pw
  /\ SendGui(<<Plain("close")>>, "wait")
  /\ UNCHANGED <<pass_len, line_edit, result>>

\* The loop is left: the window is told to close, the socket is closed, and
\* wait() waits for the child.
Break(pw) ==
  /\ password' = pw
  /\ result' = pw[line_edit]
  /\ SendGui(<<Plain("close")>>, "wait")
  /\ UNCHANGED <<pass_len, line_edit>>

\* (Variant for mutation: ESC leaves what has been typed.)
LeftByAnyKey(k) == password

\* What a key that ends the dialog leaves in the lines.
LeftBy(k) ==
  CASE k \in Enters          -> password
    [] k = "ESC" /\ confirm  -> Cleared
    [] k = "ESC" /\ ~confirm -> [password EXCEPT ![line_edit] = <<>>]

HandleKey(k) ==
  \/ Toggles(k) /\ Continue(<<Focus(1 - line_edit)>>, password, 1 - line_edit)
  \/ /\ InExpert(k)
     /\ Continue(IF k \in {"ENTER", "ESC"} THEN <<Plain("close_expert_mode")>> ELSE <<>>,
                 password, line_edit)
  \/ EndsEntry(k) /\ Break(LeftBy(k))
  \/ /\ ~Toggles(k) /\ ~InExpert(k) /\ ~EndsEntry(k)
     /\ Continue(<<>>, [password EXCEPT ![line_edit] = OnKey(k, @)], line_edit)

\* read() takes all that the device has, and only the first key of it is looked
\* at; the others are lost.
ReadKey ==
  /\ kc = "keys" /\ typed # <<>>
  /\ HandleKey(Head(typed))
  /\ typed' = <<>>
  /\ UNCHANGED <<confirm, keyboards, expert_mode, window, toKc, user>>

\* The device has nothing, or the first thing read is the release of a key or a
\* modifier: then all keys behind it are lost.
ReadNoKey ==
  /\ kc = "keys"
  /\ Continue(<<>>, password, line_edit)
  /\ typed' = <<>>
  /\ UNCHANGED <<confirm, keyboards, expert_mode, window, toKc, user>>

\* select or read fails, as when the keyboard is unplugged, or read has less than an
\* event: the loop is left as it is by an ENTER, whatever has been typed so far.
KeyboardLost ==
  /\ kc = "keys"
  /\ Break(password)
  /\ lost' = TRUE
  /\ UNCHANGED <<confirm, keyboards, typed, expert_mode, window, toKc,
                 keys_left, clicks_left, enters, first_click>>

\* Positions in toKc of the messages of one kind; the latest of these messages.
Sent(cmd)     == {i \in DOMAIN toKc : toKc[i].cmd = cmd}
Received(cmd) == Sent(cmd) # {}
LatestOf(cmd) == toKc[CHOOSE i \in Sent(cmd) : \A j \in Sent(cmd) : j <= i]

\* (Variants for mutation: OK is asked about before CANCEL; OK is not checked.)
CancelAfterOk == Received("cancel") /\ ~Received("ok")
OkUnchecked   == Received("ok")

CancelPressed == Received("cancel")
OkAccepted    == Received("ok") /\ (confirm => Equal)

\* gui.Select reads what the window has sent, all of it, before any of it is acted on.
PollGui ==
  /\ kc = "poll"
  /\ toKc' = <<>>
  /\ expert_mode' = IF Received("expert_mode") THEN LatestOf("expert_mode").enable
                                              ELSE expert_mode
  /\ \/ CancelPressed /\ Break(Cleared)
     \/ ~CancelPressed /\ OkAccepted /\ Break(password)
     \/ /\ ~CancelPressed /\ ~OkAccepted
        /\ line_edit' = IF Received("focus") THEN LatestOf("focus").line ELSE line_edit
        /\ kc' = "keys"
        /\ UNCHANGED <<toGui, password, pass_len, result>>
  /\ UNCHANGED <<confirm, keyboards, typed, window, user>>

\* An exception: no keyboard device, one that another process has grabbed, a key
\* beyond the map, gui.Select failing on the socket.  The destructor of
\* pass_entry_term enables the keyboards.
Fail ==
  /\ kc \in {"keys", "poll"}
  /\ SendGui(<<Plain("close")>>, "failed")
  /\ keyboards' = IF kc' = "failed" THEN "on" ELSE keyboards
  /\ password' = Cleared
  /\ UNCHANGED <<confirm, typed, pass_len, line_edit, expert_mode, result, window, toKc, user>>

\* wait() returns; the destructor enables the keyboards.
Return ==
  /\ kc = "wait" /\ gui = "exited"
  /\ kc' = "done" /\ keyboards' = "on"
  /\ UNCHANGED <<confirm, typed, keychain, window, toGui, toKc, user>>

Keychain == Start \/ ReadKey \/ ReadNoKey \/ PollGui \/ Return

-----------------------------------------------------------------------------
(* passentry_gui. *)

\* send: the window process goes on as `next', or is killed because keychain has
\* closed its end.
SendKc(message, next) ==
  IF kc \in {"start", "keys", "poll", "failed"}
  THEN toKc' = Append(toKc, message) /\ gui' = next
  ELSE toKc' = toKc /\ gui' = "exited"

\* (Variant for mutation: only the mouse reports a change of focus.)
SetFocusSilently(l) == focus' = l /\ UNCHANGED <<gui, toKc>>

\* setFocus: a line that gets the focus reports it, whoever gave it.  (The window is taken
\* to be active; the line of an inactive one reports when the window is activated.)
SetFocus(l) ==
  /\ focus' = l
  /\ IF confirm /\ l # focus THEN SendKc(Focus(l), gui) ELSE UNCHANGED <<gui, toKc>>

\* The expert window reports its end; with the main window closed already, it is
\* the last one.
ShutExpert ==
  /\ expert /\ gui # "exited"
  /\ expert' = FALSE
  /\ SendKc(ExpertMode(FALSE), IF gui = "closed" THEN "exited" ELSE gui)
  /\ UNCHANGED <<focus, text>>

Handle(m) ==
  \/ /\ m.cmd = "event"
     /\ IF confirm THEN SendKc(Focus(0), "shown") ELSE gui' = "shown" /\ UNCHANGED toKc
     /\ UNCHANGED <<expert, focus, text>>
  \/ /\ m.cmd = "close"
     /\ gui' = IF expert THEN "closed" ELSE "exited"
     /\ UNCHANGED <<expert, focus, text, toKc>>
  \/ /\ m.cmd = "length"
     /\ text' = [text EXCEPT ![m.line] = m.len]
     /\ SetFocus(m.line)
     /\ UNCHANGED expert
  \/ m.cmd = "focus" /\ SetFocus(m.line) /\ UNCHANGED <<expert, text>>
  \/ m.cmd = "close_expert_mode" /\ ShutExpert
  \/ m.cmd = "close_expert_mode" /\ ~expert /\ UNCHANGED <<window, toKc>>

GuiReceive ==
  /\ gui # "exited" /\ toGui # <<>>
  /\ Handle(Head(toGui))
  /\ toGui' = Tail(toGui)
  /\ UNCHANGED <<confirm, kc, keyboards, typed, keychain, user>>

-----------------------------------------------------------------------------
(* The user, and what may happen to the window. *)

Press(k) ==
  /\ kc \in {"keys", "poll"} /\ keys_left > 0
  /\ typed' = Append(typed, k)
  /\ keys_left' = keys_left - 1
  /\ enters' = enters \cup ({k} \cap Enters)
  /\ UNCHANGED <<confirm, kc, keyboards, keychain, window, toGui, toKc, clicks_left, first_click,
                 lost>>

\* The main window is open to the mouse unless the expert window covers it.
Clickable == gui = "shown" /\ ~expert

Click(button) ==
  /\ Clickable /\ clicks_left > 0
  /\ SendKc(Plain(button), "shown")
  /\ clicks_left' = clicks_left - 1
  /\ first_click' = IF first_click = "none" THEN button ELSE first_click
  /\ UNCHANGED <<confirm, kc, keyboards, typed, keychain, expert, focus, text, toGui, keys_left,
                 enters, lost>>

\* A click into a line, or the window is activated again: the line reports it.
FocusIn(l) ==
  /\ Clickable /\ confirm /\ clicks_left > 0
  /\ focus' = l
  /\ SendKc(Focus(l), "shown")
  /\ clicks_left' = clicks_left - 1
  /\ UNCHANGED <<confirm, kc, keyboards, typed, keychain, expert, text, toGui, keys_left,
                 enters, first_click, lost>>

OpenExpert ==
  /\ Clickable /\ ~confirm /\ clicks_left > 0
  /\ expert' = TRUE
  /\ SendKc(ExpertMode(TRUE), "shown")
  /\ clicks_left' = clicks_left - 1
  /\ UNCHANGED <<confirm, kc, keyboards, typed, keychain, focus, text, toGui, keys_left,
                 enters, first_click, lost>>

CloseExpert ==
  /\ ShutExpert
  /\ UNCHANGED <<confirm, kc, keyboards, typed, keychain, toGui, user>>

\* The window manager closes the main window: closeEvent sends a cancel, and the
\* window is gone before any answer.
CloseWindow ==
  /\ Clickable
  /\ SendKc(Plain("cancel"), "exited")
  /\ first_click' = IF first_click = "none" THEN "cancel" ELSE first_click
  /\ UNCHANGED <<confirm, kc, keyboards, typed, keychain, expert, focus, text, toGui, keys_left,
                 clicks_left, enters, lost>>

\* It cannot open the display, or is killed.
GuiDies ==
  /\ gui # "exited"
  /\ gui' = "exited"
  /\ UNCHANGED <<confirm, kc, keyboards, typed, keychain, expert, focus, text, toGui, toKc, user>>

Next ==
  \/ Keychain \/ KeyboardLost \/ Fail
  \/ GuiReceive
  \/ \E k \in Key : Press(k)
  \/ \E b \in {"ok", "cancel"} : Click(b)
  \/ \E l \in Line : FocusIn(l)
  \/ OpenExpert \/ CloseExpert
  \/ CloseWindow \/ GuiDies

Spec == Init /\ [][Next]_vars

\* Both processes run on, and the user closes an expert window in the end.
FairSpec == Spec /\ WF_vars(Keychain) /\ WF_vars(GuiReceive) /\ WF_vars(CloseExpert)

-----------------------------------------------------------------------------
(* Properties. *)

\* Every variable has its type; a dialog has a result exactly when it has left its
\* loop in order, and only a window that has gone kills keychain.
TypeOK ==
  /\ confirm \in BOOLEAN
  /\ kc \in {"start", "keys", "poll", "wait", "done", "failed", "dead"}
  /\ keyboards \in {"on", "off"}
  /\ typed \in Seq(Key)
  /\ password \in [Line -> Seq(Char)]
  /\ pass_len \in [Line -> Nat]
  /\ line_edit \in Line /\ focus \in Line
  /\ expert_mode \in BOOLEAN /\ expert \in BOOLEAN
  /\ result \in Seq(Char) \cup {NoResult}
  /\ gui \in {"starting", "shown", "closed", "exited"}
  /\ text \in [Line -> Nat]
  /\ toGui \in Seq(MessagesToGui) /\ toKc \in Seq(MessagesToKc)
  /\ keys_left \in 0..MaxKeys /\ clicks_left \in 0..MaxClicks
  /\ enters \subseteq Enters /\ first_click \in {"none", "ok", "cancel"} /\ lost \in BOOLEAN
  /\ kc \in {"wait", "done"} => result # NoResult
  /\ kc \in {"start", "keys", "poll", "failed"} => result = NoResult
  /\ kc = "dead" => gui = "exited"

\* CANCEL, pressed before any OK, gives an empty password even if OK was pressed
\* before keychain looked: the only other ways to a password are a key ENTER and the
\* loss of the keyboard.
CancelHonoured ==
  kc \in {"wait", "done"} /\ first_click = "cancel" /\ enters = {} /\ ~lost => result = <<>>

\* A new password is returned only if it was entered twice alike, unless the ENTER of
\* the keypad was pressed or the keyboard was lost.
ConfirmedEqual ==
  kc \in {"wait", "done"} /\ confirm /\ "KPENTER" \notin enters /\ ~lost => Equal

\* Once the window has read everything, its stars are those of the password.
StarsShown ==
  kc \in {"keys", "poll"} /\ gui = "shown" /\ toGui = <<>> =>
    \A l \in Line : text[l] = Len(password[l])

\* Once both ends have read everything, the cursor is where the keys go, however
\* TAB, mouse and the window's own reports crossed each other.
FocusAgrees ==
  kc \in {"keys", "poll"} /\ gui = "shown" /\ toGui = <<>> /\ toKc = <<>> =>
    line_edit = focus

\* keychain never waits for a window that will not end: while it is in wait(), the
\* window has gone, or has still to read that it is to close, or has read it and is
\* held open by its expert window only.
CloseUnderWay ==
  kc = "wait" =>
    \/ gui = "exited"
    \/ gui = "closed" /\ expert
    \/ \E i \in DOMAIN toGui : toGui[i] = Plain("close")

\* A dialog that is cancelled ends, with its keyboards back, unless keychain is
\* killed by a window that goes too early.
CancelEnds ==
  first_click = "cancel" ~> (kc \in {"done", "failed"} /\ keyboards = "on") \/ kc = "dead"

\* The two processes, with their messages, are a dialog that promises what
\* PasswordDialog says: no password goes back to keychain unless ENTER or OK said so or
\* the keyboard was lost, and it is the line that the keys went to, one key after the
\* other.
Looping   == kc \in {"start", "keys", "poll"}
Returning == kc \in {"wait", "done"}
Decision  ==
  IF "KPENTER" \in enters THEN "insisted"
  ELSE IF "ENTER" \in enters \/ first_click = "ok" THEN "agreed"
  ELSE IF first_click = "cancel" THEN "refused" ELSE "none"
DialogState == IF Looping THEN "open" ELSE IF Returning THEN "returned" ELSE "failed"
Dialog ==
  INSTANCE PasswordDialog
    WITH twice <- confirm, decision <- Decision, interrupted <- lost, state <- DialogState,
         lines  <- IF Looping THEN password ELSE Cleared,
         cursor <- IF Looping THEN line_edit ELSE 0,
         result <- IF Returning THEN result ELSE NoResult
DialogSpec == Dialog!Spec

\* What send_gui means to do of a write that fails: report an exception, which
\* ends in the destructor that enables the keyboards.
KeyboardsBack == kc \in {"done", "failed", "dead"} => keyboards = "on"
=============================================================================
