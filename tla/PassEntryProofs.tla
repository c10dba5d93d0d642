---------------------------- MODULE PassEntryProofs ----------------------------
(***************************************************************************)
(* Proofs about PassEntry, for any characters and any number of keys and   *)
(* clicks.                                                                 *)
(***************************************************************************)
EXTENDS PassEntry, TLAPS, SequenceTheorems, WellFoundedInduction

\* A set of positions that is not empty has a last one.
LEMMA LastPosition ==
  ASSUME NEW n \in Nat, NEW S, S \subseteq 1..n, S # {}
  PROVE  \E i \in S : \A j \in S : j <= i
<1> DEFINE R == OpToRel(<, Nat)
           T == {m \in Nat : n - m \in S}
<1>1. IsWellFoundedOn(R, Nat)
  BY NatLessThanWellFounded
<1>2. \A i \in S : i \in 1..n /\ n - i \in T
  BY SMT
<1>3. T \subseteq Nat /\ T # {}
  BY <1>2
<1>4. PICK x \in T : \A y \in T : <<y, x>> \notin R
  <2> HIDE DEF R, T
  <2> QED BY <1>1, <1>3, WFMin, Zenon
<1>5. \A y \in T : ~(y < x)
  BY <1>3, <1>4 DEF OpToRel
<1>6. \A j \in S : j <= n - x
  BY <1>2, <1>5
<1> QED BY <1>4, <1>6

\* What a message carries.
LEMMA MessageTypes ==
  /\ \A m \in MessagesToGui : /\ m.cmd \in {"event", "close", "close_expert_mode", "focus", "length"}
                              /\ m.cmd \in {"focus", "length"} => m.line \in Line
                              /\ m.cmd = "length" => m.len \in Nat
  /\ \A m \in MessagesToKc : /\ m.cmd \in {"ok", "cancel", "focus", "expert_mode"}
                             /\ m.cmd = "focus" => m.line \in Line
                             /\ m.cmd = "expert_mode" => m.enable \in BOOLEAN
BY ConstantsAssumption
DEF MessagesToGui, MessagesToKc, Plain, Focus, Length, ExpertMode

\* What the constructors of messages make.
LEMMA MessageKinds ==
  /\ \A c \in {"event", "close", "close_expert_mode"} :
       Plain(c) \in MessagesToGui /\ Plain(c).cmd = c
  /\ \A c \in {"ok", "cancel"} : Plain(c) \in MessagesToKc /\ Plain(c).cmd = c
  /\ \A l \in Line : /\ Focus(l) \in MessagesToGui /\ Focus(l) \in MessagesToKc
                     /\ Focus(l).cmd = "focus" /\ Focus(l).line = l
  /\ \A l \in Line, n \in 0..MaxKeys : /\ Length(n, l) \in MessagesToGui
                                       /\ Length(n, l).cmd = "length"
                                       /\ Length(n, l).line = l /\ Length(n, l).len = n
  /\ \A e \in BOOLEAN : /\ ExpertMode(e) \in MessagesToKc
                        /\ ExpertMode(e).cmd = "expert_mode"
<1>1. \A c \in {"event", "close", "close_expert_mode"} :
       Plain(c) \in MessagesToGui /\ Plain(c).cmd = c
  BY DEF MessagesToGui, Plain
<1>2. \A c \in {"ok", "cancel"} : Plain(c) \in MessagesToKc /\ Plain(c).cmd = c
  BY DEF MessagesToKc, Plain
<1>3. ASSUME NEW l \in Line
       PROVE  /\ Focus(l) \in MessagesToGui /\ Focus(l) \in MessagesToKc
              /\ Focus(l).cmd = "focus" /\ Focus(l).line = l
  BY DEF MessagesToGui, MessagesToKc, Focus
<1>4. ASSUME NEW l \in Line, NEW n \in 0..MaxKeys
       PROVE  /\ Length(n, l) \in MessagesToGui /\ Length(n, l).cmd = "length"
              /\ Length(n, l).line = l /\ Length(n, l).len = n
  BY DEF MessagesToGui, Length
<1>5. ASSUME NEW e \in BOOLEAN
       PROVE  ExpertMode(e) \in MessagesToKc /\ ExpertMode(e).cmd = "expert_mode"
  BY DEF MessagesToKc, ExpertMode
<1> QED BY <1>1, <1>2, <1>3, <1>4, <1>5

\* LatestOf is the last message of its kind.
LEMMA Latest ==
  ASSUME toKc \in Seq(MessagesToKc), NEW cmd, Received(cmd)
  PROVE  \E i \in DOMAIN toKc : /\ LatestOf(cmd) = toKc[i] /\ toKc[i].cmd = cmd
                                /\ toKc[i] \in MessagesToKc
                                /\ \A j \in DOMAIN toKc : toKc[j].cmd = cmd => j <= i
<1>1. Len(toKc) \in Nat /\ Sent(cmd) \subseteq 1..Len(toKc) /\ Sent(cmd) # {}
  BY DEF Sent, Received
<1>2. \E i \in Sent(cmd) : \A j \in Sent(cmd) : j <= i
  BY <1>1, LastPosition
<1> DEFINE i == CHOOSE i \in Sent(cmd) : \A j \in Sent(cmd) : j <= i
<1>3. i \in Sent(cmd) /\ \A j \in Sent(cmd) : j <= i
  BY <1>2
<1>4. LatestOf(cmd) = toKc[i]
  BY DEF LatestOf
<1> HIDE DEF i
<1> QED BY <1>3, <1>4 DEF Sent

-----------------------------------------------------------------------------
(* Types. *)

\* No line is longer than the keys that have been used up: what is typed, and what
\* may still be typed, fits behind it.
Bounded == \A l \in Line : Len(password[l]) + Len(typed) + keys_left <= MaxKeys

Types == TypeOK /\ Bounded

\* What a key does to the edited line.
LEMMA KeyTypes ==
  ASSUME NEW line \in Seq(Char), NEW k
  PROVE  OnKey(k, line) \in Seq(Char) /\ Len(OnKey(k, line)) <= Len(line) + 1
<1>1. CASE k \in Char
  BY <1>1 DEF OnKey
<1>2. CASE k \notin Char /\ k = "ESC"
  BY <1>2 DEF OnKey
<1>3. CASE k \notin Char /\ k # "ESC" /\ k \in {"BACKSPACE", "REPEAT"} /\ line # <<>>
  <2>1. OnKey(k, line) = SubSeq(line, 1, Len(line) - 1)
    BY <1>3 DEF OnKey
  <2> QED BY <1>3, <2>1
<1>4. CASE k \notin Char /\ k # "ESC" /\ ~(k \in {"BACKSPACE", "REPEAT"} /\ line # <<>>)
  BY <1>4 DEF OnKey
<1> QED BY <1>1, <1>2, <1>3, <1>4

\* A round of the loop goes on with the password changed in line l at most, or ends
\* with an empty line or by a key ENTER: that of the keypad alone takes two lines that
\* differ.
GoesOn(messages, pw, l) ==
  /\ Continue(messages, pw, l)
  /\ pw \in [Line -> Seq(Char)]
  /\ \A m \in Line : Len(pw[m]) + keys_left <= MaxKeys
  /\ \A m \in Line : m # l => pw[m] = password[m]
  /\ messages \in {<<>>, <<Plain("close_expert_mode")>>, <<Focus(l)>>}
  /\ messages = <<Focus(l)>> => confirm
  /\ l # line_edit => messages = <<Focus(l)>>

Ends(pw) ==
  /\ Break(pw)
  /\ pw \in [Line -> Seq(Char)]
  /\ \A m \in Line : Len(pw[m]) + keys_left <= MaxKeys
  /\ confirm => pw[0] = pw[1] \/ (typed # <<>> /\ Head(typed) = "KPENTER")
  /\ pw[line_edit] = <<>> \/ (typed # <<>> /\ Head(typed) \in Enters)

LEMMA KeyRound ==
  ASSUME Types, NEW k, k = Head(typed), typed # <<>>, HandleKey(k)
  PROVE  \/ \E messages, pw : \E l \in Line : GoesOn(messages, pw, l)
         \/ \E pw : Ends(pw)
<1>1. /\ password \in [Line -> Seq(Char)] /\ line_edit \in Line
      /\ typed \in Seq(Key) /\ keys_left \in Nat /\ Len(typed) >= 1
      /\ confirm \in BOOLEAN
  BY DEF Types, TypeOK
<1>2. \A m \in Line : Len(password[m]) + 1 + keys_left <= MaxKeys
  BY <1>1, ConstantsAssumption DEF Types, Bounded
<1>3. CASE Toggles(k) /\ Continue(<<Focus(1 - line_edit)>>, password, 1 - line_edit)
  <2>1. 1 - line_edit \in Line
    BY <1>1 DEF Line
  <2>2. GoesOn(<<Focus(1 - line_edit)>>, password, 1 - line_edit)
    BY <1>1, <1>2, <1>3, <2>1, ConstantsAssumption DEF GoesOn, Toggles
  <2> QED BY <2>1, <2>2
<1>4. CASE /\ InExpert(k)
           /\ Continue(IF k \in {"ENTER", "ESC"} THEN <<Plain("close_expert_mode")>> ELSE <<>>,
                       password, line_edit)
  <2>1. PICK messages \in {<<>>, <<Plain("close_expert_mode")>>} :
               Continue(messages, password, line_edit)
    BY <1>4
  <2>2. messages # <<Focus(line_edit)>>
    <3>1. Plain("close_expert_mode") # Focus(line_edit)
      BY <1>1, MessageKinds
    <3> QED BY <2>1, <3>1
  <2>3. GoesOn(messages, password, line_edit)
    BY <1>1, <1>2, <2>1, <2>2, ConstantsAssumption DEF GoesOn
  <2> QED BY <1>1, <2>3
<1>5. ASSUME NEW pw, EndsEntry(k), Break(pw), pw = LeftBy(k)
       PROVE  Ends(pw)
  <2>1. CASE k \in Enters
    <3>1. pw = password
      BY <1>5, <2>1 DEF LeftBy, Enters
    <3>2. k = "ENTER" => (confirm => Equal)
      BY <1>5 DEF EndsEntry
    <3> QED
      BY <1>1, <1>2, <1>5, <2>1, <3>1, <3>2, ConstantsAssumption DEF Ends, Enters, Equal
  <2>2. CASE k = "ESC" /\ confirm
    <3>1. pw = Cleared
      BY <1>5, <2>2 DEF LeftBy, Enters
    <3>2. /\ Cleared \in [Line -> Seq(Char)] /\ Cleared[0] = <<>> /\ Cleared[1] = <<>>
          /\ \A m \in Line : Cleared[m] = <<>>
      BY DEF Cleared, Line
    <3>3. keys_left <= MaxKeys
      BY <1>1 DEF Types, TypeOK
    <3>4. \A m \in Line : Len(pw[m]) + keys_left <= MaxKeys
      BY <1>1, <3>1, <3>2, <3>3
    <3>5. pw[line_edit] = <<>> /\ (confirm => pw[0] = pw[1])
      BY <1>1, <3>1, <3>2
    <3> QED BY <1>5, <3>1, <3>2, <3>4, <3>5 DEF Ends
  <2>3. CASE k = "ESC" /\ ~confirm
    <3>1. pw = [password EXCEPT ![line_edit] = <<>>]
      BY <1>5, <2>3 DEF LeftBy, Enters
    <3>2. pw \in [Line -> Seq(Char)] /\ pw[line_edit] = <<>>
      BY <1>1, <3>1
    <3>3. \A m \in Line : Len(pw[m]) <= Len(password[m])
      BY <1>1, <3>1
    <3>4. \A m \in Line : Len(pw[m]) + keys_left <= MaxKeys
      BY <1>1, <1>2, <3>2, <3>3, ConstantsAssumption
    <3> QED BY <1>5, <2>3, <3>2, <3>4 DEF Ends
  <2> QED BY <1>5, <2>1, <2>2, <2>3 DEF EndsEntry, Enters
<1>6. CASE /\ ~Toggles(k) /\ ~InExpert(k) /\ ~EndsEntry(k)
           /\ Continue(<<>>, [password EXCEPT ![line_edit] = OnKey(k, @)], line_edit)
  <2> DEFINE line == OnKey(k, password[line_edit])
             pw == [password EXCEPT ![line_edit] = line]
  <2>1. line \in Seq(Char) /\ Len(line) <= Len(password[line_edit]) + 1
    BY <1>1, KeyTypes
  <2>2. Continue(<<>>, pw, line_edit)
    BY <1>6
  <2> HIDE DEF line
  <2>3. /\ pw \in [Line -> Seq(Char)]
        /\ \A m \in Line : Len(pw[m]) <= Len(password[m]) + 1
        /\ \A m \in Line : m # line_edit => pw[m] = password[m]
    BY <1>1, <2>1
  <2> HIDE DEF pw
  <2>4. \A m \in Line : Len(pw[m]) + keys_left <= MaxKeys
    BY <1>1, <1>2, <2>3, ConstantsAssumption
  <2>5. GoesOn(<<>>, pw, line_edit)
    BY <2>2, <2>3, <2>4 DEF GoesOn
  <2> QED BY <1>1, <2>5
<1> QED BY <1>3, <1>4, <1>5, <1>6 DEF HandleKey

LEMMA Round ==
  ASSUME Types, ReadKey \/ ReadNoKey
  PROVE  /\ \/ \E messages, pw : \E l \in Line : GoesOn(messages, pw, l)
            \/ \E pw : Ends(pw)
         /\ kc = "keys" /\ typed' = <<>>
         /\ UNCHANGED <<confirm, keyboards, expert_mode, window, toKc, user>>
<1>1. CASE ReadKey
  BY <1>1, KeyRound DEF ReadKey
<1>2. CASE ReadNoKey
  <2>1. /\ password \in [Line -> Seq(Char)] /\ line_edit \in Line /\ Len(typed) >= 0
        /\ keys_left \in Nat /\ Len(typed) \in Nat
    BY DEF Types, TypeOK
  <2>2. \A m \in Line : Len(password[m]) + keys_left <= MaxKeys
    BY <2>1, ConstantsAssumption DEF Types, Bounded
  <2>3. <<>> # <<Focus(line_edit)>>
    OBVIOUS
  <2>4. GoesOn(<<>>, password, line_edit)
    BY <1>2, <2>1, <2>2, <2>3 DEF GoesOn, ReadNoKey
  <2> QED BY <1>2, <2>1, <2>4 DEF ReadNoKey
<1> QED BY <1>1, <1>2

\* What sending does to the sockets.
LEMMA SendTypes ==
  ASSUME TypeOK
  PROVE  /\ \A messages \in Seq(MessagesToGui) : \A next :
              SendGui(messages, next) => /\ toGui' \in Seq(MessagesToGui)
                                         /\ kc' = next \/ (kc' = "dead" /\ gui = "exited")
         /\ \A m \in MessagesToKc : \A next :
              SendKc(m, next) => /\ toKc' \in Seq(MessagesToKc)
                                 /\ gui' \in {next, "exited"}
<1>1. ASSUME NEW messages \in Seq(MessagesToGui), NEW next, SendGui(messages, next)
       PROVE  /\ toGui' \in Seq(MessagesToGui)
              /\ kc' = next \/ (kc' = "dead" /\ gui = "exited")
  <2>1. toGui \in Seq(MessagesToGui)
    BY DEF TypeOK
  <2>2. toGui \o messages \in Seq(MessagesToGui)
    BY <2>1
  <2> QED BY <1>1, <2>1, <2>2 DEF SendGui
<1>2. ASSUME NEW m \in MessagesToKc, NEW next, SendKc(m, next)
       PROVE  /\ toKc' \in Seq(MessagesToKc)
              /\ gui' \in {next, "exited"}
  <2>1. toKc \in Seq(MessagesToKc)
    BY DEF TypeOK
  <2> QED BY <1>2, <2>1 DEF SendKc
<1> QED BY <1>1, <1>2

\* The messages of a round are messages to the window.
LEMMA RoundMessages ==
  ASSUME NEW messages, NEW pw, NEW l \in Line, GoesOn(messages, pw, l), TypeOK
  PROVE  messages \o Lengths(pw, l) \in Seq(MessagesToGui)
<1>1. messages \in Seq(MessagesToGui)
  <2>1. Plain("close_expert_mode") \in MessagesToGui /\ Focus(l) \in MessagesToGui
    BY MessageKinds
  <2>2. \A m \in MessagesToGui : <<m>> \in Seq(MessagesToGui)
    OBVIOUS
  <2>3. messages \in {<<>>, <<Plain("close_expert_mode")>>, <<Focus(l)>>}
    BY DEF GoesOn
  <2>4. CASE messages = <<>>
    BY <2>4
  <2>5. CASE messages = <<Plain("close_expert_mode")>>
    BY <2>1, <2>2, <2>5
  <2>6. CASE messages = <<Focus(l)>>
    BY <2>1, <2>2, <2>6
  <2> QED BY <2>3, <2>4, <2>5, <2>6
<1>2. Len(pw[l]) \in 0..MaxKeys
  <2>1. pw[l] \in Seq(Char) /\ Len(pw[l]) + keys_left <= MaxKeys
    BY DEF GoesOn
  <2>2. Len(pw[l]) \in Nat /\ keys_left \in Nat
    BY <2>1 DEF TypeOK
  <2> QED BY <2>1, <2>2, ConstantsAssumption
<1>3. Length(Len(pw[l]), l) \in MessagesToGui
  BY <1>2, MessageKinds
<1>4. Lengths(pw, l) \in Seq(MessagesToGui)
  BY <1>3 DEF Lengths
<1> QED BY <1>1, <1>4

\* Lines have lengths, and empty ones the length 0.
LEMMA LineLengths ==
  /\ \A pw \in [Line -> Seq(Char)], m \in Line : pw[m] \in Seq(Char) /\ Len(pw[m]) \in Nat
  /\ Cleared \in [Line -> Seq(Char)] /\ \A m \in Line : Len(Cleared[m]) = 0 /\ Cleared[m] = <<>>
BY DEF Cleared

\* Leaving the loop keeps the types.
LEMMA EndTypes ==
  ASSUME Types, NEW pw \in [Line -> Seq(Char)], Break(pw),
         kc \in {"keys", "poll"}, typed' \in Seq(Key), toKc' \in Seq(MessagesToKc),
         expert_mode' \in BOOLEAN, lost' \in BOOLEAN,
         UNCHANGED <<confirm, keyboards, window, keys_left, clicks_left, enters, first_click>>,
         \A m \in Line : Len(pw[m]) + Len(typed') + keys_left <= MaxKeys
  PROVE  Types'
<1>1. /\ password' = pw /\ result' = pw[line_edit]
      /\ SendGui(<<Plain("close")>>, "wait")
      /\ UNCHANGED <<pass_len, line_edit>>
  BY DEF Break
<1>2. <<Plain("close")>> \in Seq(MessagesToGui)
  <2>1. Plain("close") \in MessagesToGui
    BY MessageKinds
  <2> QED BY <2>1
<1>3. toGui' \in Seq(MessagesToGui) /\ (kc' = "wait" \/ (kc' = "dead" /\ gui = "exited"))
  BY <1>1, <1>2, SendTypes DEF Types
<1>4. line_edit \in Line /\ pass_len \in [Line -> Nat] /\ confirm \in BOOLEAN
      /\ keyboards \in {"on", "off"}
  BY DEF Types, TypeOK
<1>5. result' \in Seq(Char) /\ result' # NoResult
  BY <1>1, <1>4, ConstantsAssumption
<1>6. /\ focus \in Line /\ expert \in BOOLEAN /\ text \in [Line -> Nat]
      /\ gui \in {"starting", "shown", "closed", "exited"}
      /\ keys_left \in 0..MaxKeys /\ clicks_left \in 0..MaxClicks
      /\ enters \subseteq Enters /\ first_click \in {"none", "ok", "cancel"}
  BY DEF Types, TypeOK
<1>7. UNCHANGED <<confirm, keyboards, focus, expert, text, gui, keys_left, clicks_left,
                  enters, first_click, pass_len, line_edit>>
  BY <1>1 DEF window
<1>8. kc' \in {"wait", "dead"} /\ (kc' = "dead" => gui' = "exited")
  BY <1>3, <1>7
<1>9. TypeOK'
  BY <1>1, <1>3, <1>4, <1>5, <1>6, <1>7, <1>8 DEF TypeOK
<1>10. Bounded'
  BY <1>1, <1>7 DEF Bounded
<1> QED BY <1>9, <1>10 DEF Types

\* Every step keeps the types.
LEMMA NextTypes == Types /\ [Next]_vars => Types'
<1> SUFFICES ASSUME Types, [Next]_vars PROVE Types'
  OBVIOUS
<1> USE DEF Types
<1>1. CASE Start
  BY <1>1 DEF Start, TypeOK, Bounded, keychain, window, user
<1>2. CASE ReadKey \/ ReadNoKey
  <2>1. /\ kc = "keys" /\ typed' = <<>>
        /\ UNCHANGED <<confirm, keyboards, expert_mode, window, toKc, user>>
    BY <1>2, Round
  <2>2. ASSUME NEW messages, NEW pw, NEW l \in Line, GoesOn(messages, pw, l)
         PROVE  Types'
    <3>1. messages \o Lengths(pw, l) \in Seq(MessagesToGui)
      BY <2>2, RoundMessages
    <3>2. /\ password' = pw /\ line_edit' = l /\ result' = result
          /\ pass_len' = [pass_len EXCEPT ![l] = Len(pw[l])]
          /\ SendGui(messages \o Lengths(pw, l), "poll")
      BY <2>2 DEF GoesOn, Continue
    <3>3. toGui' \in Seq(MessagesToGui) /\ (kc' = "poll" \/ (kc' = "dead" /\ gui = "exited"))
      BY <3>1, <3>2, SendTypes
    <3>4. pass_len' \in [Line -> Nat] /\ pw \in [Line -> Seq(Char)]
      <4>1. pw \in [Line -> Seq(Char)]
        BY <2>2 DEF GoesOn
      <4>2. Len(pw[l]) \in Nat /\ pass_len \in [Line -> Nat]
        BY <4>1, LineLengths DEF TypeOK
      <4> QED BY <3>2, <4>1, <4>2
    <3>5. TypeOK'
      <4>1. /\ password' \in [Line -> Seq(Char)] /\ line_edit' \in Line
            /\ typed' \in Seq(Key) /\ kc' \in {"poll", "dead"} /\ result' = NoResult
        <5>1. result = NoResult /\ typed' = <<>> /\ pw \in [Line -> Seq(Char)]
          BY <2>1, <3>4 DEF TypeOK
        <5> QED BY <3>2, <3>3, <5>1
      <4> QED BY <2>1, <3>3, <3>4, <4>1 DEF TypeOK, window, user
    <3>6. Bounded'
      <4>1. keys_left \in Nat /\ \A m \in Line : Len(pw[m]) \in Nat
        BY <3>4, LineLengths DEF TypeOK
      <4> QED BY <2>1, <2>2, <3>2, <4>1 DEF GoesOn, Bounded, user
    <3> QED BY <3>5, <3>6
  <2>3. ASSUME NEW pw, Ends(pw)
         PROVE  Types'
    <3>1. /\ pw \in [Line -> Seq(Char)] /\ Break(pw)
          /\ \A m \in Line : Len(pw[m]) + keys_left <= MaxKeys
      BY <2>3 DEF Ends
    <3>2. typed' \in Seq(Key) /\ toKc' \in Seq(MessagesToKc) /\ expert_mode' \in BOOLEAN
          /\ keys_left \in Nat /\ Len(typed') = 0
      BY <2>1 DEF TypeOK
    <3>3. \A m \in Line : Len(pw[m]) \in Nat
      BY <3>1, LineLengths
    <3>4. \A m \in Line : Len(pw[m]) + Len(typed') + keys_left <= MaxKeys
      BY <3>1, <3>2, <3>3
    <3>5. lost' \in BOOLEAN /\ UNCHANGED <<keys_left, clicks_left, enters, first_click>>
      BY <2>1 DEF user, TypeOK
    <3> QED BY <2>1, <3>1, <3>2, <3>4, <3>5, EndTypes
  <2> QED BY <1>2, <2>2, <2>3, Round
<1>3. CASE PollGui
  <2>1. /\ kc = "poll" /\ toKc' = <<>>
        /\ UNCHANGED <<confirm, keyboards, typed, window, user>>
    BY <1>3 DEF PollGui
  <2>2. expert_mode' \in BOOLEAN
    <3>1. CASE Received("expert_mode")
      <4>1. LatestOf("expert_mode").enable \in BOOLEAN
        BY <3>1, Latest, MessageTypes DEF TypeOK
      <4> QED BY <1>3, <3>1, <4>1 DEF PollGui
    <3>2. CASE ~Received("expert_mode")
      BY <1>3, <3>2 DEF PollGui, TypeOK
    <3> QED BY <3>1, <3>2
  <2>3. ASSUME NEW pw \in {Cleared, password}, Break(pw)
         PROVE  Types'
    <3>1. pw \in [Line -> Seq(Char)] /\ \A m \in Line : Len(pw[m]) <= Len(password[m])
      <4>1. password \in [Line -> Seq(Char)]
        BY DEF TypeOK
      <4>2. \A m \in Line : Len(password[m]) \in Nat
        BY <4>1, LineLengths
      <4>3. CASE pw = Cleared
        BY <4>2, <4>3, LineLengths
      <4>4. CASE pw = password
        BY <4>1, <4>2, <4>4
      <4> QED BY <2>3, <4>3, <4>4
    <3>2. ASSUME NEW m \in Line
           PROVE  Len(pw[m]) + Len(typed) + keys_left <= MaxKeys
      <4>1. /\ keys_left \in 0..MaxKeys /\ typed \in Seq(Key)
            /\ password \in [Line -> Seq(Char)]
        BY DEF TypeOK
      <4>2. keys_left \in Nat /\ Len(typed) \in Nat
        BY <4>1
      <4>3. Len(pw[m]) \in Nat /\ Len(password[m]) \in Nat
        BY <3>1, <4>1, LineLengths
      <4> QED BY <3>1, <4>2, <4>3, ConstantsAssumption DEF Bounded
    <3>3. typed' \in Seq(Key) /\ typed' = typed /\ toKc' \in Seq(MessagesToKc)
      BY <2>1 DEF TypeOK
    <3>4. \A m \in Line : Len(pw[m]) + Len(typed') + keys_left <= MaxKeys
      BY <3>2, <3>3
    <3>5. lost' \in BOOLEAN /\ UNCHANGED <<keys_left, clicks_left, enters, first_click>>
      BY <2>1 DEF user, TypeOK
    <3> QED BY <2>1, <2>2, <2>3, <3>1, <3>3, <3>4, <3>5, EndTypes
  <2>4. ASSUME /\ line_edit' = IF Received("focus") THEN LatestOf("focus").line ELSE line_edit
               /\ kc' = "keys"
               /\ UNCHANGED <<toGui, password, pass_len, result>>
         PROVE  Types'
    <3>1. Received("focus") => LatestOf("focus").line \in Line
      BY Latest, MessageTypes DEF TypeOK
    <3>2. line_edit' \in Line
      BY <2>4, <3>1 DEF TypeOK
    <3>3. TypeOK'
      BY <2>1, <2>2, <2>4, <3>2 DEF TypeOK, window, user
    <3> QED BY <2>1, <2>4, <3>3 DEF Bounded, user
  <2> QED BY <1>3, <2>3, <2>4 DEF PollGui
<1>4. CASE Return
  BY <1>4 DEF Return, TypeOK, Bounded, keychain, window, user
<1>5. CASE Fail
  <2>1. <<Plain("close")>> \in Seq(MessagesToGui)
    <3>1. Plain("close") \in MessagesToGui
      BY MessageKinds
    <3> QED BY <3>1
  <2>2. toGui' \in Seq(MessagesToGui) /\ (kc' = "failed" \/ (kc' = "dead" /\ gui = "exited"))
    BY <1>5, <2>1, SendTypes DEF Fail
  <2>3. Cleared \in [Line -> Seq(Char)] /\ \A m \in Line : Len(Cleared[m]) = 0
    BY LineLengths
  <2>4. TypeOK'
    BY <1>5, <2>2, <2>3 DEF Fail, TypeOK, window, user
  <2>5. Bounded'
    <3>1. /\ keys_left \in Nat /\ Len(typed) \in Nat /\ MaxKeys \in Nat
          /\ \A m \in Line : Len(password[m]) \in Nat
      BY ConstantsAssumption DEF TypeOK
    <3>2. password' = Cleared /\ UNCHANGED <<typed, keys_left>>
      BY <1>5 DEF Fail, user
    <3> QED BY <2>3, <3>1, <3>2 DEF Bounded
  <2> QED BY <2>4, <2>5
<1>6. CASE GuiReceive
  <2> DEFINE m == Head(toGui)
  <2>1. /\ gui # "exited" /\ toGui \in Seq(MessagesToGui) /\ toGui # <<>>
        /\ Handle(m) /\ toGui' = Tail(toGui)
        /\ UNCHANGED <<confirm, kc, keyboards, typed, keychain, user>>
    BY <1>6 DEF GuiReceive, TypeOK
  <2>2. m \in MessagesToGui /\ toGui' \in Seq(MessagesToGui)
    BY <2>1
  <2> HIDE DEF m
  <2>3. /\ m.cmd \in {"focus", "length"} => m.line \in Line
        /\ m.cmd = "length" => m.len \in Nat
    BY <2>2, MessageTypes
  <2>4. \A l \in Line : SetFocus(l) => /\ focus' \in Line /\ toKc' \in Seq(MessagesToKc)
                                      /\ gui' \in {gui, "exited"}
    BY SendTypes, MessageKinds DEF SetFocus, TypeOK
  <2>5. /\ focus' \in Line /\ expert' \in BOOLEAN /\ text' \in [Line -> Nat]
        /\ toKc' \in Seq(MessagesToKc)
        /\ gui' \in {"starting", "shown", "closed", "exited"}
    <3>1. CASE m.cmd = "event"
      BY <2>1, <3>1, SendTypes, MessageKinds DEF Handle, TypeOK, Line
    <3>2. CASE m.cmd = "close"
      BY <2>1, <3>2 DEF Handle, TypeOK
    <3>3. CASE m.cmd = "length"
      BY <2>1, <2>3, <2>4, <3>3 DEF Handle, TypeOK
    <3>4. CASE m.cmd = "focus"
      BY <2>1, <2>3, <2>4, <3>4 DEF Handle, TypeOK
    <3>5. CASE m.cmd = "close_expert_mode"
      <4>1. CASE ShutExpert
        <5>1. /\ expert' = FALSE /\ UNCHANGED <<focus, text>>
              /\ SendKc(ExpertMode(FALSE), IF gui = "closed" THEN "exited" ELSE gui)
          BY <4>1 DEF ShutExpert
        <5>2. ExpertMode(FALSE) \in MessagesToKc
          BY MessageKinds
        <5>3. /\ toKc' \in Seq(MessagesToKc)
              /\ gui' \in {IF gui = "closed" THEN "exited" ELSE gui, "exited"}
          BY <5>1, <5>2, SendTypes
        <5> QED BY <5>1, <5>3 DEF TypeOK
      <4>2. CASE UNCHANGED <<window, toKc>>
        BY <4>2 DEF window, TypeOK
      <4> QED BY <2>1, <3>5, <4>1, <4>2 DEF Handle
    <3> QED BY <2>1, <3>1, <3>2, <3>3, <3>4, <3>5 DEF Handle
  <2>6. TypeOK'
    BY <2>1, <2>2, <2>5 DEF TypeOK, keychain, user
  <2> QED BY <2>1, <2>6 DEF Bounded, keychain, user
<1>7. ASSUME NEW k \in Key, Press(k)
       PROVE  Types'
  <2>1. /\ typed \in Seq(Key) /\ keys_left \in 0..MaxKeys /\ keys_left > 0
        /\ typed' = Append(typed, k) /\ keys_left' = keys_left - 1
        /\ UNCHANGED <<password>>
    BY <1>7 DEF Press, TypeOK, keychain
  <2>2. typed' \in Seq(Key) /\ Len(typed') = Len(typed) + 1 /\ keys_left' \in 0..MaxKeys
    BY <2>1, ConstantsAssumption
  <2>3. TypeOK'
    <3>1. enters' \subseteq Enters
      BY <1>7 DEF Press, TypeOK
    <3> QED BY <1>7, <2>2, <3>1 DEF Press, TypeOK, keychain, window
  <2>4. Bounded'
    <3>1. Len(typed) \in Nat /\ \A l \in Line : Len(password[l]) \in Nat
      <4>1. password \in [Line -> Seq(Char)]
        BY DEF TypeOK
      <4> QED BY <2>1, <4>1, LineLengths
    <3>2. ASSUME NEW l \in Line
           PROVE  Len(password[l]) + Len(typed') + keys_left' <= MaxKeys
      <4>1. Len(password[l]) + Len(typed) + keys_left <= MaxKeys
        BY DEF Bounded
      <4>2. Len(typed') + keys_left' = Len(typed) + keys_left
        BY <2>1, <2>2, <3>1
      <4>3. /\ Len(typed') \in Nat /\ keys_left' \in Nat /\ keys_left \in Nat
            /\ Len(password[l]) \in Nat /\ Len(typed) \in Nat /\ MaxKeys \in Nat
        BY <2>1, <2>2, <3>1, ConstantsAssumption
      <4> QED BY <4>1, <4>2, <4>3
    <3> QED BY <2>1, <3>2 DEF Bounded
  <2> QED BY <2>3, <2>4
<1>8. CASE \/ \E b \in {"ok", "cancel"} : Click(b)
           \/ \E l \in Line : FocusIn(l)
           \/ OpenExpert \/ CloseExpert \/ CloseWindow \/ GuiDies
  <2>1. UNCHANGED <<confirm, kc, keyboards, typed, keychain, text, toGui, keys_left,
                  enters, lost>>
    BY <1>8 DEF Click, FocusIn, OpenExpert, CloseExpert, ShutExpert, CloseWindow, GuiDies, user
  <2>2. gui # "exited"
    BY <1>8 DEF Click, FocusIn, OpenExpert, CloseExpert, ShutExpert, CloseWindow, GuiDies,
       Clickable
  <2> DEFINE Outside ==
        /\ focus' \in Line /\ expert' \in BOOLEAN /\ toKc' \in Seq(MessagesToKc)
        /\ gui' \in {"starting", "shown", "closed", "exited"}
        /\ clicks_left' \in 0..MaxClicks /\ first_click' \in {"none", "ok", "cancel"}
  <2>3. Outside
    <3>1. ASSUME NEW m \in MessagesToKc, NEW next \in {gui, "shown", "exited"}, SendKc(m, next)
           PROVE  /\ toKc' \in Seq(MessagesToKc)
                  /\ gui' \in {"starting", "shown", "closed", "exited"}
      BY <3>1, SendTypes DEF TypeOK
    <3>2. ASSUME NEW b \in {"ok", "cancel"}, Click(b) PROVE Outside
      <4>1. SendKc(Plain(b), "shown") /\ Plain(b) \in MessagesToKc
        BY <3>2, MessageKinds DEF Click
      <4> QED BY <3>1, <3>2, <4>1, ConstantsAssumption DEF Click, TypeOK
    <3>3. ASSUME NEW l \in Line, FocusIn(l) PROVE Outside
      <4>1. SendKc(Focus(l), "shown") /\ Focus(l) \in MessagesToKc
        BY <3>3, MessageKinds DEF FocusIn
      <4> QED BY <3>1, <3>3, <4>1, ConstantsAssumption DEF FocusIn, TypeOK
    <3>4. CASE OpenExpert
      <4>1. SendKc(ExpertMode(TRUE), "shown") /\ ExpertMode(TRUE) \in MessagesToKc
        BY <3>4, MessageKinds DEF OpenExpert
      <4>2. clicks_left' \in 0..MaxClicks
        BY <3>4, ConstantsAssumption DEF OpenExpert, TypeOK
      <4>3. expert' = TRUE /\ UNCHANGED <<focus, first_click>>
        BY <3>4 DEF OpenExpert
      <4> QED BY <3>1, <4>1, <4>2, <4>3 DEF TypeOK
    <3>5. CASE CloseExpert
      <4>1. /\ SendKc(ExpertMode(FALSE), IF gui = "closed" THEN "exited" ELSE gui)
            /\ ExpertMode(FALSE) \in MessagesToKc
        BY <3>5, MessageKinds DEF CloseExpert, ShutExpert
      <4> QED BY <3>1, <3>5, <4>1 DEF CloseExpert, ShutExpert, TypeOK, user
    <3>6. CASE CloseWindow
      <4>1. SendKc(Plain("cancel"), "exited") /\ Plain("cancel") \in MessagesToKc
        BY <3>6, MessageKinds DEF CloseWindow
      <4> QED BY <3>1, <3>6, <4>1 DEF CloseWindow, TypeOK
    <3>7. CASE GuiDies
      BY <3>7 DEF GuiDies, TypeOK, user
    <3> QED BY <1>8, <3>2, <3>3, <3>4, <3>5, <3>6, <3>7
  <2>4. TypeOK'
    BY <2>1, <2>2, <2>3 DEF TypeOK, keychain
  <2> QED BY <2>1, <2>4 DEF Bounded, keychain
<1>9. CASE KeyboardLost
  <2>1. /\ kc = "keys" /\ Break(password) /\ lost' = TRUE
        /\ UNCHANGED <<confirm, keyboards, typed, expert_mode, window, toKc,
                       keys_left, clicks_left, enters, first_click>>
    BY <1>9 DEF KeyboardLost
  <2>2. /\ password \in [Line -> Seq(Char)] /\ typed' \in Seq(Key)
        /\ toKc' \in Seq(MessagesToKc) /\ expert_mode' \in BOOLEAN
    BY <2>1 DEF TypeOK
  <2>3. \A m \in Line : Len(password[m]) + Len(typed') + keys_left <= MaxKeys
    BY <2>1 DEF Bounded
  <2> QED BY <2>1, <2>2, <2>3, EndTypes
<1>10. CASE UNCHANGED vars
  BY <1>10 DEF vars, TypeOK, Bounded, keychain, window, user
<1> QED
  BY <1>1, <1>2, <1>3, <1>4, <1>5, <1>6, <1>7, <1>8, <1>9, <1>10 DEF Next, Keychain

LEMMA InitTypes == Init => Types
<1> SUFFICES ASSUME Init PROVE Types
  OBVIOUS
<1>1. Plain("event") \in MessagesToGui
  BY MessageKinds
<1>2. <<Plain("event")>> \in Seq(MessagesToGui)
  BY <1>1
<1>3. password \in [Line -> Seq(Char)] /\ \A l \in Line : Len(password[l]) = 0
  BY LineLengths DEF Init
<1>4. 0 \in Line /\ <<>> \in Seq(Key) /\ <<>> \in Seq(MessagesToKc) /\ Len(<<>>) = 0
  BY DEF Line
<1>5. typed = <<>> /\ keys_left = MaxKeys
  BY DEF Init
<1>6. TypeOK
  BY <1>2, <1>3, <1>4, ConstantsAssumption DEF Init, TypeOK
<1>7. Bounded
  BY <1>3, <1>5, <1>4, ConstantsAssumption DEF Bounded
<1> QED BY <1>6, <1>7 DEF Types

\* The variables keep their types, and no line is longer than the keys pressed: what
\* both processes make of the messages stays within what the other one may read.
THEOREM TypeCorrect == Spec => []TypeOK
<1>1. Types => TypeOK
  BY DEF Types
<1> QED BY <1>1, InitTypes, NextTypes, PTL DEF Spec

-----------------------------------------------------------------------------
(* The keys ENTER. *)

\* A key ENTER is in the device only if it was pressed.
PressedInv == \A i \in DOMAIN typed : typed[i] \in Enters => typed[i] \in enters

\* So it is with the key that is read.
LEMMA FirstKey ==
  ASSUME Types, PressedInv, typed # <<>>
  PROVE  Head(typed) \in Enters => Head(typed) \in enters
<1>1. typed \in Seq(Key)
  BY DEF Types, TypeOK
<1>2. 1 \in DOMAIN typed /\ Head(typed) = typed[1]
  BY <1>1
<1> QED BY <1>2 DEF PressedInv

LEMMA InitPressed == Init => PressedInv
BY DEF Init, PressedInv

LEMMA NextPressed == Types /\ PressedInv /\ [Next]_vars => PressedInv'
<1> SUFFICES ASSUME Types, PressedInv, [Next]_vars PROVE PressedInv'
  OBVIOUS
<1>1. ASSUME NEW k \in Key, Press(k) PROVE PressedInv'
  <2>1. /\ typed \in Seq(Key) /\ typed' = Append(typed, k)
        /\ enters' = enters \cup ({k} \cap Enters)
    BY <1>1 DEF Press, Types, TypeOK
  <2>2. SUFFICES ASSUME NEW i \in DOMAIN typed', typed'[i] \in Enters
                 PROVE  typed'[i] \in enters'
    BY DEF PressedInv
  <2>3. /\ Len(typed) \in Nat /\ DOMAIN typed = 1..Len(typed) /\ i \in 1..(Len(typed) + 1)
        /\ \A j \in 1..Len(typed) : typed'[j] = typed[j]
        /\ typed'[Len(typed) + 1] = k
    BY <1>1, <2>1, <2>2
  <2>4. CASE i = Len(typed) + 1
    BY <2>1, <2>2, <2>3, <2>4
  <2>5. CASE i # Len(typed) + 1
    <3>1. i \in DOMAIN typed
      BY <2>3, <2>5
    <3> QED BY <2>1, <2>2, <2>3, <3>1 DEF PressedInv
  <2> QED BY <2>4, <2>5
<1>2. CASE typed' = <<>>
  BY <1>2 DEF PressedInv
<1>3. CASE UNCHANGED <<typed, enters>>
  BY <1>3 DEF PressedInv
<1>4. CASE Start \/ PollGui \/ Return \/ KeyboardLost \/ Fail
  BY <1>3, <1>4 DEF Start, PollGui, Return, KeyboardLost, Fail, user
<1>5. CASE \/ GuiReceive \/ \E b \in {"ok", "cancel"} : Click(b)
           \/ \E l \in Line : FocusIn(l)
           \/ OpenExpert \/ CloseExpert \/ CloseWindow \/ GuiDies
  BY <1>3, <1>5 DEF GuiReceive, Click, FocusIn, OpenExpert, CloseExpert, CloseWindow, GuiDies, user
<1>6. CASE UNCHANGED vars
  BY <1>3, <1>6 DEF vars, user
<1> QED
  BY <1>1, <1>2, <1>4, <1>5, <1>6 DEF Next, Keychain, ReadKey, ReadNoKey

-----------------------------------------------------------------------------
(* Two lines alike. *)

LEMMA NextConfirmed == Types /\ PressedInv /\ ConfirmedEqual /\ [Next]_vars => ConfirmedEqual'
<1> SUFFICES ASSUME Types, PressedInv, ConfirmedEqual, [Next]_vars, kc' \in {"wait", "done"},
                    confirm', "KPENTER" \notin enters', ~lost'
             PROVE  password'[0] = password'[1]
  BY DEF ConfirmedEqual, Equal
<1>1. CASE Start \/ Fail \/ KeyboardLost
  BY <1>1 DEF Start, Fail, SendGui, KeyboardLost
<1>2. CASE ReadKey \/ ReadNoKey
  <2>1. ASSUME NEW messages, NEW pw, NEW l, GoesOn(messages, pw, l) PROVE FALSE
    BY <2>1 DEF GoesOn, Continue, SendGui
  <2>2. ASSUME NEW pw, Ends(pw) PROVE password'[0] = password'[1]
    <3>1. confirm /\ UNCHANGED enters
      BY <1>2, Round DEF user
    <3>2. typed # <<>> => Head(typed) # "KPENTER"
      BY <3>1, FirstKey DEF Enters
    <3> QED BY <2>2, <3>1, <3>2 DEF Ends, Break
  <2> QED BY <1>2, <2>1, <2>2, Round
<1>3. CASE PollGui
  <2>1. confirm
    BY <1>3 DEF PollGui
  <2>2. CASE Break(Cleared)
    <3>1. Cleared[0] = <<>> /\ Cleared[1] = <<>>
      BY DEF Cleared, Line
    <3> QED BY <2>2, <3>1 DEF Break
  <2>3. CASE OkAccepted /\ Break(password)
    BY <2>1, <2>3 DEF OkAccepted, Equal, Break
  <2>4. CASE kc' = "keys"
    BY <2>4
  <2> QED BY <1>3, <2>2, <2>3, <2>4 DEF PollGui
<1>4. CASE /\ kc \in {"wait", "done"} /\ UNCHANGED <<confirm, password, lost>>
           /\ enters \subseteq enters'
  BY <1>4 DEF ConfirmedEqual, Equal
<1>5. CASE Return
  BY <1>5, <1>4 DEF Return, keychain, user
<1>6. CASE GuiReceive
  BY <1>6, <1>4 DEF GuiReceive, keychain, user
<1>7. ASSUME NEW k \in Key, Press(k) PROVE password'[0] = password'[1]
  BY <1>7, <1>4 DEF Press, keychain
<1>8. CASE \/ \E b \in {"ok", "cancel"} : Click(b)
           \/ \E l \in Line : FocusIn(l)
           \/ OpenExpert \/ CloseExpert \/ CloseWindow \/ GuiDies
  BY <1>8, <1>4 DEF Click, FocusIn, OpenExpert, CloseExpert, CloseWindow, GuiDies, keychain, user
<1>9. CASE UNCHANGED vars
  BY <1>9, <1>4 DEF vars, keychain, user
<1> QED
  BY <1>1, <1>2, <1>3, <1>5, <1>6, <1>7, <1>8, <1>9 DEF Next, Keychain

\* A new password is returned only if it was entered twice alike, whatever keys but the
\* ENTER of the keypad and whatever buttons are pressed, and however the window's
\* messages cross the keys, as long as the keyboard can be read.
THEOREM ConfirmedCorrect == Spec => []ConfirmedEqual
<1>1. Init => ConfirmedEqual
  BY DEF Init, ConfirmedEqual
<1> QED BY <1>1, InitTypes, InitPressed, NextTypes, NextPressed, NextConfirmed, PTL DEF Spec

-----------------------------------------------------------------------------
(* A cancellation comes first. *)

\* Until keychain looks, a first CANCEL is there to be seen, and no OK has come
\* before the first button; and whatever ends the dialog without a key ENTER and with
\* the keyboard there returns nothing.
CancelInv ==
  /\ PressedInv
  /\ first_click = "none" => ~Received("ok") /\ ~Received("cancel")
  /\ first_click = "cancel" /\ Looping => Received("cancel")
  /\ Returning /\ first_click # "ok" /\ enters = {} /\ ~lost => result = <<>>

\* The window's reports leave what was received of the buttons.
LEMMA Reports ==
  ASSUME toKc \in Seq(MessagesToKc), NEW cmd,
         \/ UNCHANGED toKc
         \/ \E m \in MessagesToKc : m.cmd # cmd /\ toKc' = Append(toKc, m)
  PROVE  Received(cmd)' <=> Received(cmd)
<1>1. CASE UNCHANGED toKc
  BY <1>1 DEF Received, Sent
<1>2. ASSUME NEW m \in MessagesToKc, m.cmd # cmd, toKc' = Append(toKc, m)
       PROVE  Received(cmd)' <=> Received(cmd)
  <2>1. /\ Len(toKc) \in Nat /\ DOMAIN toKc = 1..Len(toKc)
        /\ DOMAIN toKc' = 1..(Len(toKc) + 1)
        /\ \A i \in 1..Len(toKc) : toKc'[i] = toKc[i]
        /\ toKc'[Len(toKc) + 1] = m
    BY <1>2
  <2>2. /\ Received(cmd) <=> \E i \in 1..Len(toKc) : toKc[i].cmd = cmd
        /\ Received(cmd)' <=> \E i \in 1..(Len(toKc) + 1) : toKc'[i].cmd = cmd
    BY <2>1 DEF Received, Sent
  <2>3. ASSUME NEW i \in 1..(Len(toKc) + 1), toKc'[i].cmd = cmd
         PROVE  i \in 1..Len(toKc) /\ toKc[i].cmd = cmd
    <3>1. CASE i = Len(toKc) + 1
      <4>1. toKc'[i] = m
        BY <2>1, <3>1
      <4> QED BY <1>2, <2>3, <4>1
    <3>2. CASE i # Len(toKc) + 1
      <4>1. i \in 1..Len(toKc)
        BY <2>1, <3>2
      <4> QED BY <2>1, <2>3, <4>1
    <3> QED BY <3>1, <3>2
  <2>4. ASSUME NEW i \in 1..Len(toKc), toKc[i].cmd = cmd
         PROVE  i \in 1..(Len(toKc) + 1) /\ toKc'[i].cmd = cmd
    BY <2>1, <2>4
  <2> QED BY <2>2, <2>3, <2>4
<1> QED BY <1>1, <1>2

\* A message that has been sent is received.
LEMMA SentIsReceived ==
  ASSUME toKc \in Seq(MessagesToKc), NEW m \in MessagesToKc, toKc' = Append(toKc, m)
  PROVE  Received(m.cmd)'
<1>1. Len(toKc) + 1 \in DOMAIN toKc' /\ toKc'[Len(toKc) + 1] = m
  OBVIOUS
<1> QED BY <1>1 DEF Received, Sent

\* What the window does on its own account: it reports nothing but focus and expert
\* mode, and leaves keychain alone.
QuietWindow == GuiReceive \/ (\E l \in Line : FocusIn(l)) \/ OpenExpert \/ CloseExpert \/ GuiDies

LEMMA QuietSteps ==
  ASSUME Types, QuietWindow
  PROVE  /\ UNCHANGED <<confirm, kc, keyboards, typed, keychain, keys_left, enters, first_click,
                       lost>>
         /\ \/ UNCHANGED toKc
            \/ \E m \in MessagesToKc : /\ m.cmd \in {"focus", "expert_mode"}
                                      /\ toKc' = Append(toKc, m)
<1> DEFINE Quiet == \/ UNCHANGED toKc
                    \/ \E m \in MessagesToKc : /\ m.cmd \in {"focus", "expert_mode"}
                                              /\ toKc' = Append(toKc, m)
<1>1. \A m \in MessagesToKc : \A next : m.cmd \in {"focus", "expert_mode"} /\ SendKc(m, next) => Quiet
  BY DEF SendKc
<1>2. /\ \A l \in Line : Focus(l) \in MessagesToKc /\ Focus(l).cmd = "focus"
      /\ \A e \in BOOLEAN : ExpertMode(e) \in MessagesToKc /\ ExpertMode(e).cmd = "expert_mode"
  BY MessageKinds
<1>3. /\ \A l \in Line : \A next : SendKc(Focus(l), next) => Quiet
      /\ \A e \in BOOLEAN : \A next : SendKc(ExpertMode(e), next) => Quiet
  BY <1>1, <1>2
<1> HIDE DEF Quiet
<1>4. \A l \in Line : SetFocus(l) => Quiet
  BY <1>3 DEF SetFocus, Quiet
<1>5. ShutExpert => Quiet
  BY <1>3 DEF ShutExpert
<1>6. CASE GuiReceive
  <2>1. /\ Head(toGui) \in MessagesToGui /\ Handle(Head(toGui))
        /\ UNCHANGED <<confirm, kc, keyboards, typed, keychain, user>>
    BY <1>6 DEF GuiReceive, Types, TypeOK
  <2>2. Head(toGui).cmd \in {"focus", "length"} => Head(toGui).line \in Line
    BY <2>1, MessageTypes
  <2>3. 0 \in Line
    BY DEF Line
  <2>4. Quiet
    BY <1>3, <1>4, <1>5, <2>1, <2>2, <2>3 DEF Handle, Quiet
  <2> QED BY <2>1, <2>4 DEF user, Quiet
<1>7. ASSUME NEW l \in Line, FocusIn(l)
       PROVE  /\ UNCHANGED <<confirm, kc, keyboards, typed, keychain, keys_left, enters, first_click,
                       lost>>
              /\ Quiet
  BY <1>3, <1>7 DEF FocusIn
<1>8. CASE OpenExpert
  BY <1>3, <1>8 DEF OpenExpert, Quiet
<1>9. CASE CloseExpert
  BY <1>5, <1>9 DEF CloseExpert, user, Quiet
<1>10. CASE GuiDies
  BY <1>10 DEF GuiDies, user
<1> QED BY <1>6, <1>7, <1>8, <1>9, <1>10 DEF QuietWindow, Quiet

LEMMA NextCancel == Types /\ CancelInv /\ [Next]_vars => CancelInv'
<1> SUFFICES ASSUME Types, CancelInv, [Next]_vars PROVE CancelInv'
  OBVIOUS
<1> USE DEF Returning, Looping
<1>0. /\ toKc \in Seq(MessagesToKc) /\ typed \in Seq(Key)
      /\ first_click \in {"none", "ok", "cancel"}
      /\ PressedInv /\ PressedInv'
  BY NextPressed DEF Types, TypeOK, CancelInv
<1>1. CASE Start
  BY <1>0, <1>1 DEF Start, CancelInv, Received, Sent, keychain, user
<1>2. CASE ReadKey \/ ReadNoKey
  <2>1. /\ kc = "keys" /\ UNCHANGED <<toKc, enters, first_click, lost>>
    BY <1>2, Round DEF user
  <2>2. \A cmd : Received(cmd)' <=> Received(cmd)
    BY <2>1 DEF Received, Sent
  <2>3. ASSUME NEW messages, NEW pw, NEW l, GoesOn(messages, pw, l) PROVE ~Returning'
    BY <2>3 DEF GoesOn, Continue, SendGui
  <2>4. ASSUME NEW pw, Ends(pw), enters = {} PROVE result' = <<>>
    <3>1. typed # <<>> => Head(typed) \notin Enters
      BY <1>0, <2>4, FirstKey
    <3> QED BY <2>4, <3>1 DEF Ends, Break
  <2>5. Returning' /\ enters = {} => result' = <<>>
    BY <1>2, <2>3, <2>4, Round
  <2> HIDE DEF Returning
  <2> QED BY <1>0, <2>1, <2>2, <2>5 DEF CancelInv
<1>3. CASE PollGui
  <2>1. /\ kc = "poll" /\ toKc' = <<>> /\ line_edit \in Line
        /\ UNCHANGED <<enters, first_click, lost>>
    BY <1>3 DEF PollGui, user, Types, TypeOK
  <2>2. \A cmd : ~Received(cmd)'
    BY <2>1 DEF Received, Sent
  <2>3. CASE CancelPressed /\ Break(Cleared)
    BY <1>0, <2>1, <2>2, <2>3, LineLengths DEF Break, SendGui, CancelInv
  <2>4. CASE ~CancelPressed /\ OkAccepted /\ Break(password)
    BY <1>0, <2>1, <2>2, <2>4 DEF Break, SendGui, CancelInv, CancelPressed, OkAccepted
  <2>5. CASE ~CancelPressed /\ ~OkAccepted /\ kc' = "keys"
    BY <1>0, <2>1, <2>2, <2>5 DEF CancelInv, CancelPressed
  <2> QED BY <1>3, <2>3, <2>4, <2>5 DEF PollGui
<1>4. CASE Return
  BY <1>0, <1>4 DEF Return, CancelInv, Received, Sent, keychain, user
<1>5. CASE Fail
  BY <1>0, <1>5 DEF Fail, SendGui, CancelInv, Received, Sent, user
<1>6. CASE QuietWindow
  <2>1. UNCHANGED <<kc, typed, keychain, enters, first_click, lost>>
    BY <1>6, QuietSteps
  <2>2. \A cmd \in {"ok", "cancel"} : Received(cmd)' <=> Received(cmd)
    BY <1>0, <1>6, QuietSteps, Reports
  <2> QED BY <1>0, <2>1, <2>2 DEF CancelInv, keychain
<1>7. ASSUME NEW k \in Key, Press(k) PROVE CancelInv'
  <2>1. /\ enters \subseteq enters' /\ UNCHANGED <<kc, result, toKc, first_click, lost>>
    BY <1>7 DEF Press, keychain
  <2>2. enters' = {} => enters = {}
    BY <2>1
  <2> QED BY <1>0, <2>1, <2>2 DEF CancelInv, Received, Sent
<1>8. ASSUME NEW b \in {"ok", "cancel"}, NEW next, SendKc(Plain(b), next),
             first_click' = IF first_click = "none" THEN b ELSE first_click,
             UNCHANGED <<kc, typed, result, enters, lost>>
       PROVE  CancelInv'
  <2>1. Plain(b) \in MessagesToKc /\ Plain(b).cmd = b
    BY MessageKinds
  <2>2. CASE Looping
    <3>1. toKc' = Append(toKc, Plain(b))
      BY <1>8, <2>2 DEF SendKc
    <3>2. Received(b)'
      BY <1>0, <2>1, <3>1, SentIsReceived
    <3>3. \A cmd \in {"ok", "cancel"} : cmd # b => (Received(cmd)' <=> Received(cmd))
      BY <1>0, <2>1, <3>1, Reports
    <3> QED BY <1>0, <1>8, <2>2, <3>2, <3>3 DEF CancelInv
  <2>3. CASE ~Looping
    BY <1>0, <1>8, <2>3 DEF CancelInv
  <2> QED BY <2>2, <2>3
<1>9. CASE (\E b \in {"ok", "cancel"} : Click(b)) \/ CloseWindow
  BY <1>8, <1>9 DEF Click, CloseWindow, keychain
<1>10. CASE KeyboardLost
  <2>1. /\ lost' /\ kc = "keys" /\ kc' \notin {"start", "keys", "poll"}
        /\ UNCHANGED <<toKc, first_click>>
    BY <1>10 DEF KeyboardLost, Break, SendGui
  <2> QED BY <1>0, <2>1 DEF CancelInv, Received, Sent
<1>11. CASE UNCHANGED vars
  BY <1>0, <1>11 DEF vars, CancelInv, Received, Sent, keychain, user
<1> QED
  BY <1>1, <1>2, <1>3, <1>4, <1>5, <1>6, <1>7, <1>9, <1>10, <1>11
  DEF Next, Keychain, QuietWindow

\* At the start nothing has been pressed or sent.
LEMMA InitCancel == Init => CancelInv
BY InitPressed DEF Init, CancelInv, Returning, Looping, Received, Sent

\* CANCEL is never overtaken: pressed before any OK, with no ENTER and the keyboard
\* there, it makes the dialog return an empty password whatever is sent and typed after
\* it.
THEOREM CancelCorrect == Spec => []CancelHonoured
<1>1. Types /\ CancelInv => CancelHonoured
  BY DEF CancelInv, CancelHonoured, Returning
<1> QED BY <1>1, InitCancel, InitTypes, NextTypes, NextCancel, PTL DEF Spec

-----------------------------------------------------------------------------
(* The messages under way to the window. *)

\* Where the members of a concatenation and of a tail come from.
LEMMA ConcatMembers ==
  ASSUME NEW s \in Seq(MessagesToGui), NEW t \in Seq(MessagesToGui)
  PROVE  /\ s \o t \in Seq(MessagesToGui)
         /\ Len(s) \in Nat /\ Len(t) \in Nat /\ Len(s \o t) = Len(s) + Len(t)
         /\ \A i \in 1..Len(s) : i \in 1..Len(s \o t) /\ (s \o t)[i] = s[i]
         /\ \A i \in 1..Len(t) : Len(s) + i \in 1..Len(s \o t) /\ (s \o t)[Len(s) + i] = t[i]
         /\ \A i \in 1..Len(s \o t) :
              i \in 1..Len(s) \/ \E j \in 1..Len(t) : i = Len(s) + j
<1>1. /\ s \o t \in Seq(MessagesToGui) /\ Len(s \o t) = Len(s) + Len(t)
      /\ \A i \in 1..(Len(s) + Len(t)) :
           (s \o t)[i] = IF i <= Len(s) THEN s[i] ELSE t[i - Len(s)]
  BY ConcatProperties, Zenon
<1>2. Len(s) \in Nat /\ Len(t) \in Nat
  OBVIOUS
<1>3. ASSUME NEW i \in 1..Len(s \o t), i \notin 1..Len(s)
       PROVE  i - Len(s) \in 1..Len(t) /\ i = Len(s) + (i - Len(s))
  BY <1>1, <1>2, <1>3
<1>4. \A i \in 1..Len(s) : i \in 1..Len(s \o t) /\ (s \o t)[i] = s[i]
  BY <1>1, <1>2
<1>5. ASSUME NEW i \in 1..Len(t)
       PROVE  Len(s) + i \in 1..Len(s \o t) /\ (s \o t)[Len(s) + i] = t[i]
  <2>1. /\ Len(s) + i \in 1..(Len(s) + Len(t)) /\ ~(Len(s) + i <= Len(s))
        /\ Len(s) + i - Len(s) = i
    BY <1>2
  <2> QED BY <1>1, <2>1
<1> QED BY <1>1, <1>2, <1>3, <1>4, <1>5

LEMMA TailMembers ==
  ASSUME NEW s \in Seq(MessagesToGui), s # <<>>
  PROVE  /\ Tail(s) \in Seq(MessagesToGui)
         /\ Len(s) \in Nat /\ Len(s) >= 1 /\ Len(Tail(s)) = Len(s) - 1
         /\ Head(s) = s[1] /\ Head(s) \in MessagesToGui
         /\ \A i \in 1..Len(Tail(s)) : i + 1 \in 1..Len(s) /\ Tail(s)[i] = s[i + 1]
         /\ \A i \in 1..Len(s) : i = 1 \/ (i - 1 \in 1..Len(Tail(s)) /\ Tail(s)[i - 1] = s[i])
OBVIOUS

\* The last message of s that moves the cursor moves it to line l.
Bears(m) == m.cmd \in {"focus", "length"}
LastLine(s, l) ==
  \E i \in 1..Len(s) : /\ Bears(s[i]) /\ s[i].line = l
                       /\ \A j \in 1..Len(s) : j > i => ~Bears(s[j])

LEMMA LastLineConcat ==
  ASSUME NEW s \in Seq(MessagesToGui), NEW t \in Seq(MessagesToGui), NEW l,
         \A i \in 1..Len(t) : Bears(t[i]) => t[i].line = l,
         LastLine(s, l) \/ \E i \in 1..Len(t) : Bears(t[i])
  PROVE  LastLine(s \o t, l)
<1> DEFINE u == s \o t
<1>1. /\ Len(s) \in Nat /\ Len(t) \in Nat /\ Len(u) = Len(s) + Len(t)
      /\ \A i \in 1..Len(s) : i \in 1..Len(u) /\ u[i] = s[i]
      /\ \A i \in 1..Len(t) : Len(s) + i \in 1..Len(u) /\ u[Len(s) + i] = t[i]
      /\ \A i \in 1..Len(u) : i \in 1..Len(s) \/ \E j \in 1..Len(t) : i = Len(s) + j
  BY ConcatMembers, Zenon
<1> HIDE DEF u
<1>2. CASE \E i \in 1..Len(t) : Bears(t[i])
  <2> DEFINE S == {i \in 1..Len(t) : Bears(t[i])}
  <2>1. S # {} /\ S \subseteq 1..Len(t)
    BY <1>2
  <2>2. PICK i \in S : \A j \in S : j <= i
    <3> HIDE DEF S
    <3> QED BY <1>1, <2>1, LastPosition
  <2>3. i \in 1..Len(t) /\ Bears(t[i]) /\ \A j \in 1..Len(t) : j > i => ~Bears(t[j])
    BY <1>1, <2>2
  <2>4. Len(s) + i \in 1..Len(u) /\ Bears(u[Len(s) + i]) /\ u[Len(s) + i].line = l
    BY <1>1, <2>3
  <2>5. ASSUME NEW j \in 1..Len(u), j > Len(s) + i PROVE ~Bears(u[j])
    <3>0. j \notin 1..Len(s)
      BY <1>1, <2>3, <2>5
    <3>1. PICK k \in 1..Len(t) : j = Len(s) + k
      BY <1>1, <2>5, <3>0
    <3>2. k > i
      BY <1>1, <2>3, <2>5, <3>1
    <3> QED BY <1>1, <2>3, <3>1, <3>2
  <2>6. LastLine(u, l)
    BY <2>4, <2>5 DEF LastLine
  <2> QED BY <2>6 DEF u
<1>3. CASE LastLine(s, l) /\ \A i \in 1..Len(t) : ~Bears(t[i])
  <2>1. PICK i \in 1..Len(s) : /\ Bears(s[i]) /\ s[i].line = l
                               /\ \A j \in 1..Len(s) : j > i => ~Bears(s[j])
    BY <1>3 DEF LastLine
  <2>2. i \in 1..Len(u) /\ Bears(u[i]) /\ u[i].line = l
    BY <1>1, <2>1
  <2>3. ASSUME NEW j \in 1..Len(u), j > i PROVE ~Bears(u[j])
    BY <1>1, <1>3, <2>1, <2>3
  <2>4. LastLine(u, l)
    BY <2>2, <2>3 DEF LastLine
  <2> QED BY <2>4 DEF u
<1> QED BY <1>2, <1>3

LEMMA LastLineTail ==
  ASSUME NEW s \in Seq(MessagesToGui), s # <<>>, NEW l, LastLine(s, l)
  PROVE  LastLine(Tail(s), l) \/ (Bears(Head(s)) /\ Head(s).line = l)
<1> DEFINE u == Tail(s)
<1>1. /\ Len(s) \in Nat /\ Head(s) = s[1]
      /\ \A i \in 1..Len(u) : i + 1 \in 1..Len(s) /\ u[i] = s[i + 1]
      /\ \A i \in 1..Len(s) : i = 1 \/ (i - 1 \in 1..Len(u) /\ u[i - 1] = s[i])
  BY TailMembers, Zenon
<1> HIDE DEF u
<1>2. PICK i \in 1..Len(s) : /\ Bears(s[i]) /\ s[i].line = l
                             /\ \A j \in 1..Len(s) : j > i => ~Bears(s[j])
  BY DEF LastLine
<1>3. CASE i = 1
  BY <1>1, <1>2, <1>3
<1>4. CASE i # 1
  <2>1. i - 1 \in 1..Len(u) /\ Bears(u[i - 1]) /\ u[i - 1].line = l
    BY <1>1, <1>2, <1>4
  <2>2. ASSUME NEW j \in 1..Len(u), j > i - 1 PROVE ~Bears(u[j])
    <3>1. j + 1 \in 1..Len(s) /\ j + 1 > i /\ u[j] = s[j + 1]
      BY <1>1, <1>2, <2>2
    <3> QED BY <1>2, <3>1
  <2>3. LastLine(u, l)
    BY <2>1, <2>2 DEF LastLine
  <2> QED BY <2>3 DEF u
<1> QED BY <1>3, <1>4

-----------------------------------------------------------------------------
(* The cursor. *)

\* The last report of focus in toKc, if there is one, is of line l.
LastReport(l) ==
  \A i \in DOMAIN toKc :
    /\ toKc[i].cmd = "focus"
    /\ \A j \in DOMAIN toKc : toKc[j].cmd = "focus" => j <= i
    => toKc[i].line = l

LEMMA ReportFocus ==
  ASSUME toKc \in Seq(MessagesToKc), NEW l \in Line, toKc' = Append(toKc, Focus(l))
  PROVE  Received("focus")' /\ \A x : x = l => LastReport(x)'
<1>1. Focus(l) \in MessagesToKc /\ Focus(l).cmd = "focus" /\ Focus(l).line = l
  BY MessageKinds
<1>2. /\ Len(toKc) \in Nat /\ DOMAIN toKc' = 1..(Len(toKc) + 1)
      /\ toKc'[Len(toKc) + 1] = Focus(l)
  BY <1>1
<1>3. Received("focus")'
  BY <1>1, SentIsReceived
<1>4. ASSUME NEW i \in DOMAIN toKc',
             \A j \in DOMAIN toKc' : toKc'[j].cmd = "focus" => j <= i
       PROVE  toKc'[i].line = l
  <2>1. Len(toKc) + 1 <= i
    BY <1>1, <1>2, <1>4
  <2>2. i = Len(toKc) + 1
    BY <1>2, <1>4, <2>1
  <2> QED BY <1>1, <1>2, <2>2
<1> QED BY <1>3, <1>4 DEF LastReport

LEMMA ReportOther ==
  ASSUME toKc \in Seq(MessagesToKc), NEW l, LastReport(l),
         \/ UNCHANGED toKc
         \/ \E m \in MessagesToKc : m.cmd # "focus" /\ toKc' = Append(toKc, m)
  PROVE  (Received("focus")' <=> Received("focus")) /\ \A x : x = l => LastReport(x)'
<1>1. Received("focus")' <=> Received("focus")
  BY Reports
<1>2. CASE UNCHANGED toKc
  BY <1>1, <1>2 DEF LastReport
<1>3. ASSUME NEW m \in MessagesToKc, m.cmd # "focus", toKc' = Append(toKc, m)
       PROVE  \A x : x = l => LastReport(x)'
  <2>1. /\ Len(toKc) \in Nat /\ DOMAIN toKc = 1..Len(toKc)
        /\ DOMAIN toKc' = 1..(Len(toKc) + 1)
        /\ \A i \in 1..Len(toKc) : toKc'[i] = toKc[i]
        /\ toKc'[Len(toKc) + 1] = m
    BY <1>3
  <2>2. ASSUME NEW i \in DOMAIN toKc', toKc'[i].cmd = "focus",
               \A j \in DOMAIN toKc' : toKc'[j].cmd = "focus" => j <= i
         PROVE  toKc'[i].line = l
    <3>1. i # Len(toKc) + 1
      BY <1>3, <2>1, <2>2
    <3>2. i \in 1..Len(toKc)
      BY <2>1, <2>2, <3>1
    <3>3. \A j \in 1..Len(toKc) : j \in DOMAIN toKc'
      BY <2>1
    <3>4. \A j \in 1..Len(toKc) : toKc[j].cmd = "focus" => j <= i
      BY <2>1, <2>2, <3>3
    <3> QED BY <2>1, <2>2, <3>2, <3>4 DEF LastReport
  <2> QED BY <2>2 DEF LastReport
<1> QED BY <1>1, <1>2, <1>3

\* While keychain is in its loop and the window is there: the last report of the
\* window, if one is under way, says where the cursor is; if none is, the keys go to
\* the cursor's line, or the last message under way to the window will move the
\* cursor to theirs.
FocusSync ==
  Looping /\ gui # "exited" =>
    /\ LastReport(focus)
    /\ ~Received("focus") => line_edit = focus \/ LastLine(toGui, line_edit)

\* With one line only, nobody speaks of the other.
OneLine ==
  ~confirm =>
    /\ line_edit = 0 /\ focus = 0
    /\ \A i \in 1..Len(toGui) : Bears(toGui[i]) => toGui[i].line = 0
    /\ \A i \in 1..Len(toKc) : toKc[i].cmd = "focus" => toKc[i].line = 0

\* The event is the first message, and the cursor does not move before it.
EventFirst ==
  /\ gui # "exited" =>
       \A i \in 1..Len(toGui) : toGui[i].cmd = "event" => i = 1 /\ gui = "starting"
  /\ gui = "starting" => focus = 0 /\ toGui # <<>> /\ Head(toGui).cmd = "event"

FocusInv == FocusSync /\ OneLine /\ EventFirst

\* What a round of the loop sends: focus and length of the line l only, its new
\* length last.
OfRound(t, pw, l) ==
  /\ t \in Seq(MessagesToGui)
  /\ \A i \in 1..Len(t) : /\ t[i].cmd # "event"
                          /\ Bears(t[i]) => t[i].line = l
                          /\ t[i].cmd = "length" => /\ Len(pw[l]) # pass_len[l]
                                                    /\ t[i].len = Len(pw[l])
  /\ l # line_edit => \E i \in 1..Len(t) : Bears(t[i])
  /\ Len(pw[l]) # pass_len[l] =>
       Len(t) \in 1..Len(t) /\ t[Len(t)].cmd = "length" /\ t[Len(t)].line = l

LEMMA RoundSends ==
  ASSUME Types, NEW messages, NEW pw, NEW l \in Line, GoesOn(messages, pw, l),
         NEW t, t = messages \o Lengths(pw, l)
  PROVE  OfRound(t, pw, l)
<1> DEFINE s == Lengths(pw, l)
           cem == Plain("close_expert_mode")
<1>1. /\ cem \in MessagesToGui /\ cem.cmd = "close_expert_mode"
      /\ Focus(l) \in MessagesToGui /\ Focus(l).cmd = "focus" /\ Focus(l).line = l
  BY MessageKinds
<1>2. Len(pw[l]) \in 0..MaxKeys
  <2>1. pw[l] \in Seq(Char) /\ Len(pw[l]) + keys_left <= MaxKeys
    BY DEF GoesOn
  <2>2. Len(pw[l]) \in Nat
    BY <2>1
  <2>3. keys_left \in Nat
    BY DEF Types, TypeOK
  <2> QED BY <2>1, <2>2, <2>3, ConstantsAssumption
<1>3. /\ Length(Len(pw[l]), l) \in MessagesToGui /\ Length(Len(pw[l]), l).cmd = "length"
      /\ Length(Len(pw[l]), l).line = l /\ Length(Len(pw[l]), l).len = Len(pw[l])
  BY <1>2, MessageKinds
<1>4. /\ messages \in Seq(MessagesToGui)
      /\ \A i \in 1..Len(messages) : messages[i] \in {cem, Focus(l)}
      /\ l # line_edit => 1 \in 1..Len(messages) /\ messages[1] = Focus(l)
  <2> HIDE DEF cem
  <2>1. messages \in {<<>>, <<cem>>, <<Focus(l)>>} /\ (l # line_edit => messages = <<Focus(l)>>)
    BY DEF GoesOn, cem
  <2>2. CASE messages = <<>>
    BY <2>1, <2>2
  <2>3. CASE messages = <<cem>>
    <3>1. messages \in Seq(MessagesToGui) /\ Len(messages) = 1 /\ messages[1] = cem
      BY <1>1, <2>3
    <3>2. l # line_edit => cem = Focus(l)
      BY <2>1, <3>1
    <3> QED BY <3>1, <3>2
  <2>4. CASE messages = <<Focus(l)>>
    BY <1>1, <2>4
  <2> QED BY <2>1, <2>2, <2>3, <2>4
<1>5. /\ s \in Seq(MessagesToGui)
      /\ \A i \in 1..Len(s) : s[i] = Length(Len(pw[l]), l) /\ Len(pw[l]) # pass_len[l]
      /\ Len(pw[l]) # pass_len[l] => Len(s) = 1
  BY <1>3 DEF Lengths
<1> HIDE DEF s, cem
<1>6. /\ t \in Seq(MessagesToGui)
      /\ Len(messages) \in Nat /\ Len(s) \in Nat /\ Len(t) = Len(messages) + Len(s)
      /\ \A i \in 1..Len(messages) : i \in 1..Len(t) /\ t[i] = messages[i]
      /\ \A i \in 1..Len(s) : Len(messages) + i \in 1..Len(t) /\ t[Len(messages) + i] = s[i]
      /\ \A i \in 1..Len(t) : i \in 1..Len(messages) \/ \E j \in 1..Len(s) : i = Len(messages) + j
  <2>1. t = messages \o s
    BY DEF s
  <2>2. messages \in Seq(MessagesToGui) /\ s \in Seq(MessagesToGui)
    BY <1>4, <1>5
  <2> HIDE DEF s
  <2> DEFINE u == messages \o s
  <2>3. /\ u \in Seq(MessagesToGui)
        /\ Len(messages) \in Nat /\ Len(s) \in Nat /\ Len(u) = Len(messages) + Len(s)
        /\ \A i \in 1..Len(messages) : i \in 1..Len(u) /\ u[i] = messages[i]
        /\ \A i \in 1..Len(s) : Len(messages) + i \in 1..Len(u) /\ u[Len(messages) + i] = s[i]
        /\ \A i \in 1..Len(u) : i \in 1..Len(messages) \/ \E j \in 1..Len(s) : i = Len(messages) + j
    BY <2>2, ConcatMembers, Zenon
  <2>4. t = u
    BY <2>1
  <2> HIDE DEF u
  <2> QED BY <2>3, <2>4
<1>7. ASSUME NEW i \in 1..Len(t)
       PROVE  /\ t[i].cmd # "event"
              /\ Bears(t[i]) => t[i].line = l
              /\ t[i].cmd = "length" => /\ Len(pw[l]) # pass_len[l]
                                        /\ t[i].len = Len(pw[l])
  <2>1. CASE t[i] \in {cem, Focus(l)}
    BY <1>1, <2>1 DEF Bears, cem
  <2>2. CASE t[i] = Length(Len(pw[l]), l) /\ Len(pw[l]) # pass_len[l]
    BY <1>3, <2>2
  <2>3. CASE i \in 1..Len(messages)
    BY <1>4, <1>6, <2>1, <2>3
  <2>4. CASE \E j \in 1..Len(s) : i = Len(messages) + j
    BY <1>5, <1>6, <2>2, <2>4
  <2> QED BY <1>6, <2>3, <2>4
<1>8. l # line_edit => \E i \in 1..Len(t) : Bears(t[i])
  BY <1>1, <1>4, <1>6 DEF Bears
<1>9. Len(pw[l]) # pass_len[l] =>
        Len(t) \in 1..Len(t) /\ t[Len(t)].cmd = "length" /\ t[Len(t)].line = l
  <2> SUFFICES ASSUME Len(pw[l]) # pass_len[l]
               PROVE  Len(t) \in 1..Len(t) /\ t[Len(t)].cmd = "length" /\ t[Len(t)].line = l
    OBVIOUS
  <2>1. Len(s) = 1 /\ 1 \in 1..Len(s) /\ s[1] = Length(Len(pw[l]), l)
    <3>1. Len(s) = 1
      BY <1>5
    <3>2. 1 \in 1..Len(s)
      BY <3>1
    <3> QED BY <1>5, <3>1, <3>2
  <2>2. Len(t) = Len(messages) + 1 /\ Len(t) \in 1..Len(t) /\ t[Len(t)] = s[1]
    BY <1>6, <2>1
  <2> QED BY <1>3, <2>1, <2>2
<1> QED BY <1>6, <1>7, <1>8, <1>9 DEF OfRound

\* Messages that are no event leave the event the first message.
LEMMA EventKept ==
  ASSUME Types, EventFirst, UNCHANGED <<gui, focus>>,
         NEW t \in Seq(MessagesToGui), \A i \in 1..Len(t) : t[i].cmd # "event",
         toGui' \in {toGui, toGui \o t}
  PROVE  EventFirst'
<1>1. toGui \in Seq(MessagesToGui)
  BY DEF Types, TypeOK
<1>2. CASE toGui' = toGui
  BY <1>2 DEF EventFirst
<1>3. CASE toGui' = toGui \o t
  <2>1. /\ Len(toGui) \in Nat /\ Len(t) \in Nat /\ toGui' \in Seq(MessagesToGui)
        /\ \A i \in 1..Len(toGui) : i \in 1..Len(toGui') /\ toGui'[i] = toGui[i]
        /\ \A i \in 1..Len(t) : toGui'[Len(toGui) + i] = t[i]
        /\ \A i \in 1..Len(toGui') : i \in 1..Len(toGui) \/ \E j \in 1..Len(t) : i = Len(toGui) + j
    BY <1>1, <1>3, ConcatMembers, Zenon
  <2>2. ASSUME gui # "exited", NEW i \in 1..Len(toGui'), toGui'[i].cmd = "event"
         PROVE  i = 1 /\ gui = "starting"
    <3>1. i \in 1..Len(toGui)
      BY <2>1, <2>2
    <3> QED BY <2>1, <2>2, <3>1 DEF EventFirst
  <2>3. ASSUME gui = "starting"
         PROVE  focus = 0 /\ toGui' # <<>> /\ Head(toGui').cmd = "event"
    <3>1. focus = 0 /\ toGui # <<>> /\ Head(toGui).cmd = "event"
      BY <2>3 DEF EventFirst
    <3>2. 1 \in 1..Len(toGui) /\ Head(toGui) = toGui[1]
      BY <1>1, <3>1
    <3>3. 1 \in 1..Len(toGui') /\ toGui'[1] = toGui[1]
      BY <2>1, <3>2
    <3>4. toGui' # <<>> /\ Head(toGui') = toGui'[1]
      BY <2>1, <3>3
    <3> QED BY <3>1, <3>2, <3>3, <3>4
  <2> QED BY <2>2, <2>3 DEF EventFirst
<1> QED BY <1>2, <1>3

\* Steps that leave the cursor, the edited line and the messages to the window.
LEMMA FocusKept ==
  ASSUME Types, FocusInv, UNCHANGED <<confirm, line_edit, focus, toGui>>,
         Looping' => Looping,
         gui' # "exited" => gui # "exited" /\ (gui = "starting" <=> gui' = "starting"),
         \/ UNCHANGED toKc
         \/ \E m \in MessagesToKc : m.cmd # "focus" /\ toKc' = Append(toKc, m)
  PROVE  FocusInv'
<1>1. toKc \in Seq(MessagesToKc)
  BY DEF Types, TypeOK
<1>2. FocusSync'
  <2>1. SUFFICES ASSUME Looping', gui' # "exited" PROVE FocusSync'
    BY DEF FocusSync
  <2>2. /\ LastReport(focus) /\ UNCHANGED <<line_edit, focus, toGui>>
        /\ ~Received("focus") => line_edit = focus \/ LastLine(toGui, line_edit)
    BY <2>1 DEF FocusInv, FocusSync
  <2>3. (Received("focus")' <=> Received("focus")) /\ \A x : x = focus => LastReport(x)'
    BY <1>1, <2>2, ReportOther
  <2>4. LastReport(focus)'
    BY <2>2, <2>3 DEF LastReport
  <2> QED BY <2>2, <2>3, <2>4 DEF FocusSync
<1>3. OneLine'
  <2>1. SUFFICES ASSUME ~confirm, NEW i \in 1..Len(toKc'), toKc'[i].cmd = "focus"
                 PROVE  toKc'[i].line = 0
    BY DEF FocusInv, OneLine
  <2>2. \A j \in 1..Len(toKc) : toKc[j].cmd = "focus" => toKc[j].line = 0
    BY <2>1 DEF FocusInv, OneLine
  <2>3. CASE UNCHANGED toKc
    BY <2>1, <2>2, <2>3
  <2>4. ASSUME NEW m \in MessagesToKc, m.cmd # "focus", toKc' = Append(toKc, m)
         PROVE  toKc'[i].line = 0
    <3>1. /\ Len(toKc) \in Nat /\ i \in 1..(Len(toKc) + 1)
          /\ \A j \in 1..Len(toKc) : toKc'[j] = toKc[j]
          /\ toKc'[Len(toKc) + 1] = m
      BY <1>1, <2>1, <2>4
    <3>2. i # Len(toKc) + 1
      BY <2>1, <2>4, <3>1
    <3>3. i \in 1..Len(toKc)
      BY <3>1, <3>2
    <3> QED BY <2>1, <2>2, <3>1, <3>3
  <2> QED BY <2>3, <2>4
<1>4. EventFirst'
  BY DEF FocusInv, EventFirst
<1> QED BY <1>2, <1>3, <1>4 DEF FocusInv

\* A line is given the cursor and reports it; or the cursor stays, and with it what
\* the messages say of it.
LEMMA FocusMoved ==
  ASSUME Types, FocusSync, Looping, gui # "exited", UNCHANGED <<line_edit, kc>>,
         NEW l \in Line, focus' = l,
         \/ toKc' = Append(toKc, Focus(l))
         \/ /\ l = focus
            /\ \/ UNCHANGED toKc
               \/ \E m \in MessagesToKc : m.cmd # "focus" /\ toKc' = Append(toKc, m)
            /\ toGui # <<>> /\ toGui' = Tail(toGui)
            /\ Bears(Head(toGui)) => Head(toGui).line = l
  PROVE  FocusSync'
<1>1. /\ toKc \in Seq(MessagesToKc) /\ toGui \in Seq(MessagesToGui)
      /\ LastReport(focus)
      /\ ~Received("focus") => line_edit = focus \/ LastLine(toGui, line_edit)
  BY DEF Types, TypeOK, FocusSync
<1>2. CASE toKc' = Append(toKc, Focus(l))
  <2>1. Received("focus")' /\ \A x : x = l => LastReport(x)'
    BY <1>1, <1>2, ReportFocus
  <2>2. LastReport(focus)'
    BY <2>1 DEF LastReport
  <2> QED BY <2>1, <2>2 DEF FocusSync
<1>3. CASE /\ l = focus
           /\ \/ UNCHANGED toKc
              \/ \E m \in MessagesToKc : m.cmd # "focus" /\ toKc' = Append(toKc, m)
           /\ toGui # <<>> /\ toGui' = Tail(toGui)
           /\ Bears(Head(toGui)) => Head(toGui).line = l
  <2>1. (Received("focus")' <=> Received("focus")) /\ \A x : x = focus => LastReport(x)'
    BY <1>1, <1>3, ReportOther
  <2>2. LastReport(focus)'
    BY <1>3, <2>1 DEF LastReport
  <2>3. LastLine(toGui, line_edit) => LastLine(Tail(toGui), line_edit) \/ line_edit = l
    <3>1. LastLine(toGui, line_edit) =>
            LastLine(Tail(toGui), line_edit) \/ (Bears(Head(toGui)) /\ Head(toGui).line = line_edit)
      BY <1>1, <1>3, LastLineTail
    <3> QED BY <1>3, <3>1
  <2>4. ~Received("focus") => line_edit = l \/ LastLine(toGui', line_edit)
    BY <1>1, <1>3, <2>3
  <2>5. LastLine(toGui', line_edit) => LastLine(toGui, line_edit)'
    OBVIOUS
  <2> QED BY <2>1, <2>2, <2>4, <2>5 DEF FocusSync
<1> QED BY <1>2, <1>3

\* A message to the window is read.
LEMMA FocusReceive ==
  ASSUME Types, FocusInv, GuiReceive
  PROVE  FocusInv'
<1> DEFINE m == Head(toGui)
<1>1. /\ toGui \in Seq(MessagesToGui) /\ toKc \in Seq(MessagesToKc) /\ confirm \in BOOLEAN
      /\ focus \in Line /\ gui \in {"starting", "shown", "closed", "exited"}
  BY DEF Types, TypeOK
<1>2. /\ gui # "exited" /\ toGui # <<>> /\ Handle(m) /\ toGui' = Tail(toGui)
      /\ UNCHANGED <<confirm, kc, keychain>>
  BY DEF GuiReceive
<1>3. /\ Len(toGui) \in Nat /\ 1 \in 1..Len(toGui) /\ m = toGui[1] /\ m \in MessagesToGui
      /\ \A i \in 1..Len(toGui') : i + 1 \in 1..Len(toGui) /\ toGui'[i] = toGui[i + 1]
  BY <1>1, <1>2, TailMembers
<1> HIDE DEF m
<1>4. /\ m.cmd \in {"event", "close", "close_expert_mode", "focus", "length"}
      /\ Bears(m) => m.line \in Line
  BY <1>3, MessageTypes DEF Bears
<1>5. /\ m.cmd = "event" => gui = "starting" /\ focus = 0
      /\ ~confirm => focus = 0 /\ (Bears(m) => m.line = 0)
      /\ gui = "starting" => m.cmd = "event"
  BY <1>2, <1>3 DEF FocusInv, EventFirst, OneLine, m
<1> DEFINE Reported == /\ confirm
                       /\ Looping => toKc' = Append(toKc, Focus(focus'))
           Other    == \/ UNCHANGED toKc
                       \/ \E n \in MessagesToKc : n.cmd # "focus" /\ toKc' = Append(toKc, n)
           Stays    == focus' = focus /\ Other /\ (Bears(m) => m.line = focus)
<1>6. ASSUME NEW l \in Line, NEW next, SendKc(Focus(l), next), confirm, focus' = l PROVE Reported
  BY <1>6 DEF SendKc, Looping
<1>7. ASSUME NEW l \in Line, SetFocus(l), Bears(m), m.line = l
       PROVE  focus' \in Line /\ (Reported \/ Stays)
  <2>1. CASE confirm /\ l # focus
    BY <1>6, <1>7, <2>1 DEF SetFocus
  <2>2. CASE ~(confirm /\ l # focus)
    BY <1>1, <1>5, <1>7, <2>2 DEF SetFocus
  <2> QED BY <2>1, <2>2
<1>8. focus' \in Line /\ (Reported \/ Stays)
  <2>1. CASE m.cmd = "event"
    <3>1. UNCHANGED focus /\ focus = 0 /\ ~Bears(m)
      BY <1>2, <1>5, <2>1 DEF Handle, Bears
    <3>2. CASE confirm
      <4>1. SendKc(Focus(0), "shown")
        BY <1>2, <2>1, <3>2 DEF Handle
      <4>2. 0 \in Line /\ focus' = 0
        BY <3>1 DEF Line
      <4> QED BY <1>6, <3>2, <4>1, <4>2
    <3>3. CASE ~confirm
      BY <1>1, <1>2, <2>1, <3>1, <3>3 DEF Handle
    <3> QED BY <3>2, <3>3
  <2>2. CASE m.cmd = "close"
    BY <1>1, <1>2, <2>2 DEF Handle, Bears
  <2>3. CASE m.cmd \in {"focus", "length"}
    BY <1>2, <1>4, <1>7, <2>3 DEF Handle, Bears
  <2>4. CASE m.cmd = "close_expert_mode"
    <3>1. CASE ShutExpert
      <4>1. ExpertMode(FALSE) \in MessagesToKc /\ ExpertMode(FALSE).cmd = "expert_mode"
        BY MessageKinds
      <4>2. Other
        BY <3>1, <4>1 DEF ShutExpert, SendKc
      <4> HIDE DEF Other
      <4> QED BY <1>1, <2>4, <3>1, <4>2 DEF ShutExpert, Bears
    <3>2. CASE UNCHANGED <<window, toKc>>
      BY <1>1, <2>4, <3>2 DEF window, Bears
    <3> QED BY <1>2, <2>4, <3>1, <3>2 DEF Handle
  <2> QED BY <1>4, <2>1, <2>2, <2>3, <2>4
<1>9. FocusSync'
  <2>1. SUFFICES ASSUME Looping PROVE FocusSync'
    BY <1>2 DEF FocusSync, Looping
  <2>2. FocusSync /\ UNCHANGED <<line_edit, kc>>
    BY <1>2 DEF FocusInv, keychain
  <2>3. toKc' = Append(toKc, Focus(focus')) \/ Stays
    BY <1>8, <2>1
  <2> QED BY <1>1, <1>2, <1>8, <2>1, <2>2, <2>3, FocusMoved DEF m
<1>10. OneLine'
  <2> SUFFICES ASSUME ~confirm PROVE OneLine'
    BY <1>2 DEF OneLine
  <2>1. Stays
    BY <1>8
  <2>2. line_edit' = 0 /\ focus' = 0
    BY <1>2, <1>5, <2>1 DEF FocusInv, OneLine, keychain
  <2>3. \A i \in 1..Len(toGui') : Bears(toGui'[i]) => toGui'[i].line = 0
    BY <1>3 DEF FocusInv, OneLine
  <2>4. ASSUME NEW i \in 1..Len(toKc'), toKc'[i].cmd = "focus" PROVE toKc'[i].line = 0
    <3>1. \A j \in 1..Len(toKc) : toKc[j].cmd = "focus" => toKc[j].line = 0
      BY DEF FocusInv, OneLine
    <3>2. CASE UNCHANGED toKc
      BY <2>4, <3>1, <3>2
    <3>3. ASSUME NEW n \in MessagesToKc, n.cmd # "focus", toKc' = Append(toKc, n)
           PROVE  toKc'[i].line = 0
      <4>1. /\ Len(toKc) \in Nat /\ i \in 1..(Len(toKc) + 1)
            /\ \A j \in 1..Len(toKc) : toKc'[j] = toKc[j]
            /\ toKc'[Len(toKc) + 1] = n
        BY <1>1, <2>4, <3>3
      <4>2. i # Len(toKc) + 1
        BY <2>4, <3>3, <4>1
      <4>3. i \in 1..Len(toKc)
        BY <4>1, <4>2
      <4> QED BY <2>4, <3>1, <4>1, <4>3
    <3> QED BY <2>1, <3>2, <3>3
  <2> QED BY <1>2, <2>2, <2>3, <2>4 DEF OneLine
<1>11. EventFirst'
  <2>1. \A i \in 1..Len(toGui') : toGui'[i].cmd # "event"
    BY <1>2, <1>3 DEF FocusInv, EventFirst
  <2>2. gui' # "starting"
    <3>1. CASE m.cmd = "event"
      BY <1>2, <3>1 DEF Handle, SendKc
    <3>2. CASE m.cmd # "event"
      BY <1>2, <1>5, <3>2 DEF Handle, SetFocus, ShutExpert, SendKc, window
    <3> QED BY <3>1, <3>2
  <2> QED BY <2>1, <2>2 DEF EventFirst
<1> QED BY <1>9, <1>10, <1>11 DEF FocusInv

\* The message that ends a dialog.
LEMMA FocusClosing ==
  ASSUME Types, FocusInv, UNCHANGED <<confirm, line_edit, window>>,
         toKc' \in {toKc, <<>>},
         NEW next \in {"wait", "failed"}, SendGui(<<Plain("close")>>, next)
  PROVE  FocusInv'
<1> DEFINE t == <<Plain("close")>>
<1>1. Plain("close") \in MessagesToGui /\ Plain("close").cmd = "close"
  BY MessageKinds
<1>2. /\ t \in Seq(MessagesToGui) /\ toGui \in Seq(MessagesToGui)
      /\ \A i \in 1..Len(t) : t[i].cmd # "event" /\ ~Bears(t[i])
  BY <1>1 DEF Types, TypeOK, Bears
<1>3. toGui' \in {toGui, toGui \o t} /\ kc' \in {"wait", "failed", "dead"}
  BY DEF SendGui
<1> HIDE DEF t
<1>4. UNCHANGED <<gui, focus>>
  BY DEF window
<1>5. FocusSync'
  BY <1>3 DEF FocusSync, Looping
<1>6. OneLine'
  <2>1. ASSUME ~confirm, NEW i \in 1..Len(toGui'), Bears(toGui'[i]) PROVE toGui'[i].line = 0
    <3>1. \A j \in 1..Len(toGui) : Bears(toGui[j]) => toGui[j].line = 0
      BY <2>1 DEF FocusInv, OneLine
    <3>2. CASE toGui' = toGui
      BY <2>1, <3>1, <3>2
    <3>3. CASE toGui' = toGui \o t
      <4>1. /\ \A j \in 1..Len(toGui) : toGui'[j] = toGui[j]
            /\ \A j \in 1..Len(t) : toGui'[Len(toGui) + j] = t[j]
            /\ i \in 1..Len(toGui) \/ \E j \in 1..Len(t) : i = Len(toGui) + j
        BY <1>2, <2>1, <3>3, ConcatMembers
      <4> QED BY <1>2, <2>1, <3>1, <4>1
    <3> QED BY <1>3, <3>2, <3>3
  <2>2. ASSUME ~confirm, NEW i \in 1..Len(toKc'), toKc'[i].cmd = "focus" PROVE toKc'[i].line = 0
    BY <2>2 DEF FocusInv, OneLine
  <2> QED BY <1>4, <2>1, <2>2 DEF FocusInv, OneLine
<1>7. EventFirst'
  BY <1>2, <1>3, <1>4, EventKept DEF FocusInv
<1> QED BY <1>5, <1>6, <1>7 DEF FocusInv

\* A round of the loop, and the message that ends it.
LEMMA FocusRound ==
  ASSUME Types, FocusInv, ReadKey \/ ReadNoKey
  PROVE  FocusInv'
<1>1. /\ toGui \in Seq(MessagesToGui) /\ line_edit \in Line /\ kc = "keys" /\ confirm \in BOOLEAN
      /\ UNCHANGED <<confirm, window, toKc>>
  BY Round DEF Types, TypeOK
<1>2. /\ FocusSync /\ OneLine /\ EventFirst /\ UNCHANGED <<gui, focus>>
      /\ Received("focus")' = Received("focus") /\ LastReport(focus)' = LastReport(focus)
  BY <1>1 DEF FocusInv, window, Received, Sent, LastReport
<1>3. ASSUME NEW messages, NEW pw, NEW l \in Line, GoesOn(messages, pw, l) PROVE FocusInv'
  <2>0. PICK t : t = messages \o Lengths(pw, l)
    OBVIOUS
  <2>1. /\ t \in Seq(MessagesToGui)
        /\ \A i \in 1..Len(t) : t[i].cmd # "event" /\ (Bears(t[i]) => t[i].line = l)
        /\ l # line_edit => \E i \in 1..Len(t) : Bears(t[i])
    <3>1. OfRound(t, pw, l)
      BY <1>3, <2>0, RoundSends, Zenon
    <3> QED BY <3>1 DEF OfRound
  <2>2. /\ line_edit' = l /\ (l # line_edit => confirm)
        /\ IF gui = "exited" /\ t # <<>> THEN kc' = "dead" /\ toGui' = toGui
           ELSE kc' = "poll" /\ toGui' = toGui \o t
    BY <1>3, <2>0 DEF GoesOn, Continue, SendGui
  <2>3. FocusSync'
    <3>1. SUFFICES ASSUME gui # "exited", ~Received("focus")
                   PROVE  l = focus \/ LastLine(toGui \o t, l)
      BY <1>1, <1>2, <2>2 DEF FocusSync, Looping
    <3>2. line_edit = focus \/ LastLine(toGui, line_edit)
      BY <1>1, <1>2, <3>1 DEF FocusSync, Looping
    <3>3. CASE LastLine(toGui, l) \/ \E i \in 1..Len(t) : Bears(t[i])
      BY <1>1, <2>1, <3>3, LastLineConcat
    <3>4. CASE ~(LastLine(toGui, l) \/ \E i \in 1..Len(t) : Bears(t[i]))
      BY <2>1, <3>2, <3>4
    <3> QED BY <3>3, <3>4
  <2>4. OneLine'
    <3> SUFFICES ASSUME ~confirm PROVE OneLine'
      BY <1>1 DEF OneLine
    <3>1. l = 0 /\ focus = 0 /\ \A i \in 1..Len(toGui) : Bears(toGui[i]) => toGui[i].line = 0
      BY <1>2, <2>2 DEF OneLine
    <3>2. ASSUME NEW i \in 1..Len(toGui'), Bears(toGui'[i]) PROVE toGui'[i].line = 0
      <4>1. CASE toGui' = toGui
        BY <3>1, <3>2, <4>1
      <4>2. CASE toGui' = toGui \o t
        <5>1. /\ \A j \in 1..Len(toGui) : toGui'[j] = toGui[j]
              /\ \A j \in 1..Len(t) : toGui'[Len(toGui) + j] = t[j]
              /\ i \in 1..Len(toGui) \/ \E j \in 1..Len(t) : i = Len(toGui) + j
          <6>1. toGui \in Seq(MessagesToGui) /\ t \in Seq(MessagesToGui)
            BY <1>1, <2>1
          <6> QED BY <3>2, <4>2, <6>1, ConcatMembers
        <5>2. CASE i \in 1..Len(toGui)
          BY <3>1, <3>2, <5>1, <5>2
        <5>3. CASE \E j \in 1..Len(t) : i = Len(toGui) + j
          BY <2>1, <3>1, <3>2, <5>1, <5>3
        <5> QED BY <5>1, <5>2, <5>3
      <4> QED BY <2>2, <4>1, <4>2
    <3> QED BY <1>1, <1>2, <2>2, <3>1, <3>2 DEF OneLine
  <2>5. EventFirst'
    BY <1>2, <2>1, <2>2, EventKept
  <2> QED BY <2>3, <2>4, <2>5 DEF FocusInv
<1>4. ASSUME NEW pw, Ends(pw) PROVE FocusInv'
  <2>1. SendGui(<<Plain("close")>>, "wait") /\ UNCHANGED line_edit
    BY <1>4 DEF Ends, Break
  <2> QED BY <1>1, <1>2, <2>1, FocusClosing
<1> QED BY <1>3, <1>4, Round

\* The window's reports are read: the keys go where the last of them says.
LEMMA FocusPoll ==
  ASSUME Types, FocusInv, PollGui
  PROVE  FocusInv'
<1>1. /\ toKc \in Seq(MessagesToKc) /\ kc = "poll" /\ toKc' = <<>>
      /\ UNCHANGED <<confirm, window>>
  BY DEF Types, TypeOK, PollGui
<1>2. CASE \E pw : Break(pw)
  BY <1>1, <1>2, FocusClosing DEF Break
<1>3. CASE /\ line_edit' = IF Received("focus") THEN LatestOf("focus").line ELSE line_edit
           /\ kc' = "keys"
           /\ UNCHANGED <<toGui, password, pass_len, result>>
  <2>1. Received("focus") =>
          \E i \in DOMAIN toKc : /\ LatestOf("focus") = toKc[i] /\ toKc[i].cmd = "focus"
                                 /\ \A j \in DOMAIN toKc : toKc[j].cmd = "focus" => j <= i
    BY <1>1, Latest
  <2>2. UNCHANGED <<toGui, gui, focus>>
    BY <1>1, <1>3 DEF window
  <2>3. DOMAIN toKc' = {} /\ Len(toKc') = 0
    BY <1>1
  <2>4. FocusSync'
    <3>1. SUFFICES ASSUME gui # "exited" PROVE FocusSync'
      BY <2>2 DEF FocusSync
    <3>2. /\ LastReport(focus)
          /\ ~Received("focus") => line_edit = focus \/ LastLine(toGui, line_edit)
      BY <1>1, <3>1 DEF FocusInv, FocusSync, Looping
    <3>3. LastReport(focus)'
      BY <2>3 DEF LastReport
    <3>4. CASE Received("focus")
      BY <1>3, <2>1, <2>2, <3>2, <3>3, <3>4 DEF LastReport, FocusSync
    <3>5. CASE ~Received("focus")
      <4>1. line_edit' = line_edit
        BY <1>3, <3>5
      <4>2. LastLine(toGui, line_edit) => LastLine(toGui, line_edit)'
        BY <2>2, <4>1 DEF LastLine
      <4> QED BY <2>2, <3>2, <3>3, <3>5, <4>1, <4>2 DEF FocusSync
    <3> QED BY <3>4, <3>5
  <2>5. OneLine'
    BY <1>1, <1>3, <2>1, <2>2, <2>3 DEF FocusInv, OneLine
  <2>6. EventFirst'
    BY <2>2 DEF FocusInv, EventFirst
  <2> QED BY <2>4, <2>5, <2>6 DEF FocusInv
<1> QED BY <1>2, <1>3 DEF PollGui

\* A click moves the cursor.
LEMMA FocusClick ==
  ASSUME Types, FocusInv, NEW l \in Line, FocusIn(l)
  PROVE  FocusInv'
<1>1. /\ confirm /\ focus' = l /\ gui = "shown" /\ SendKc(Focus(l), "shown")
      /\ UNCHANGED <<confirm, kc, line_edit, toGui>>
  BY DEF FocusIn, Clickable, keychain
<1>2. FocusSync'
  <2>1. SUFFICES ASSUME Looping PROVE FocusSync'
    BY <1>1 DEF FocusSync, Looping
  <2>2. toKc' = Append(toKc, Focus(l))
    BY <1>1, <2>1 DEF SendKc, Looping
  <2>3. FocusSync /\ gui # "exited"
    BY <1>1 DEF FocusInv
  <2> QED BY <1>1, <2>1, <2>2, <2>3, FocusMoved
<1>3. EventFirst'
  BY <1>1 DEF FocusInv, EventFirst, SendKc
<1> QED BY <1>1, <1>2, <1>3 DEF FocusInv, OneLine

LEMMA NextFocus == Types /\ FocusInv /\ [Next]_vars => FocusInv'
<1> SUFFICES ASSUME Types, FocusInv, [Next]_vars PROVE FocusInv'
  OBVIOUS
<1>1. CASE Start \/ Return \/ \E k \in Key : Press(k)
  <2>1. /\ UNCHANGED <<confirm, line_edit, focus, toGui, toKc, gui>>
        /\ Looping' => Looping
    BY <1>1 DEF Start, Return, Press, keychain, window, Looping
  <2> QED BY <2>1, FocusKept
<1>2. CASE ReadKey \/ ReadNoKey
  BY <1>2, FocusRound
<1>3. CASE PollGui
  BY <1>3, FocusPoll
<1>4. CASE Fail \/ KeyboardLost
  BY <1>4, FocusClosing DEF Fail, KeyboardLost, Break
<1>5. CASE GuiReceive
  BY <1>5, FocusReceive
<1>6. ASSUME NEW l \in Line, FocusIn(l) PROVE FocusInv'
  BY <1>6, FocusClick
<1>7. ASSUME NEW m \in MessagesToKc, m.cmd # "focus", SendKc(m, "shown") \/ SendKc(m, "exited"),
             Clickable, UNCHANGED <<confirm, kc, keychain, focus, toGui>>
       PROVE  FocusInv'
  <2>1. /\ UNCHANGED toKc \/ toKc' = Append(toKc, m)
        /\ gui = "shown" /\ gui' \in {"shown", "exited"}
    BY <1>7 DEF SendKc, Clickable
  <2>2. UNCHANGED <<confirm, line_edit, focus, toGui>> /\ (Looping' => Looping)
    BY <1>7 DEF keychain, Looping
  <2> QED BY <1>7, <2>1, <2>2, FocusKept
<1>8. CASE (\E b \in {"ok", "cancel"} : Click(b)) \/ CloseWindow \/ OpenExpert
  <2>1. /\ \A b \in {"ok", "cancel"} : Plain(b) \in MessagesToKc /\ Plain(b).cmd # "focus"
        /\ ExpertMode(TRUE) \in MessagesToKc /\ ExpertMode(TRUE).cmd # "focus"
    BY MessageKinds
  <2> QED BY <1>7, <1>8, <2>1 DEF Click, CloseWindow, OpenExpert
<1>9. CASE CloseExpert \/ GuiDies
  <2>1. /\ UNCHANGED <<confirm, line_edit, focus, toGui>> /\ (Looping' => Looping)
        /\ gui # "exited" /\ (gui' = gui \/ gui' = "exited")
    BY <1>9 DEF CloseExpert, ShutExpert, GuiDies, SendKc, keychain, Looping
  <2>2. UNCHANGED toKc \/ \E m \in MessagesToKc : m.cmd # "focus" /\ toKc' = Append(toKc, m)
    <3>1. ExpertMode(FALSE) \in MessagesToKc /\ ExpertMode(FALSE).cmd # "focus"
      BY MessageKinds
    <3> QED BY <1>9, <3>1 DEF CloseExpert, ShutExpert, GuiDies, SendKc
  <2> QED BY <2>1, <2>2, FocusKept
<1>10. CASE UNCHANGED vars
  <2>1. UNCHANGED <<confirm, line_edit, focus, toGui, toKc, gui>> /\ (Looping' => Looping)
    BY <1>10 DEF vars, keychain, window, Looping
  <2> QED BY <2>1, FocusKept
<1> QED
  BY <1>1, <1>2, <1>3, <1>4, <1>5, <1>6, <1>8, <1>9, <1>10 DEF Next, Keychain

\* At the start the window has the event to read, and the cursor is in the first line.
LEMMA InitFocus == Init => FocusInv
<1> SUFFICES ASSUME Init PROVE FocusInv
  OBVIOUS
<1>1. /\ toGui = <<Plain("event")>> /\ toKc = <<>> /\ gui = "starting"
      /\ line_edit = 0 /\ focus = 0
  BY DEF Init
<1>2. Plain("event").cmd = "event"
  BY MessageKinds
<1>3. /\ Len(toGui) = 1 /\ toGui[1].cmd = "event" /\ Head(toGui).cmd = "event" /\ toGui # <<>>
      /\ Len(toKc) = 0 /\ DOMAIN toKc = {}
  BY <1>1, <1>2
<1> QED
  BY <1>1, <1>3 DEF FocusInv, FocusSync, OneLine, EventFirst, LastReport, Bears

\* When neither process has a message left to read, the keys go to the line with the
\* cursor, in whatever order TAB, the mouse and the window's reports came.
THEOREM FocusCorrect == Spec => []FocusAgrees
<1>1. FocusInv => FocusAgrees
  BY DEF FocusInv, FocusSync, FocusAgrees, Looping, LastLine, Received, Sent
<1> QED BY <1>1, InitFocus, InitTypes, NextTypes, NextFocus, PTL DEF Spec

-----------------------------------------------------------------------------
(* The stars. *)

\* No length of line l is under way in s; the last one that is, is n.
IsLength(m, l) == m.cmd = "length" /\ m.line = l
Silent(s, l)   == \A i \in 1..Len(s) : ~IsLength(s[i], l)
Says(s, l, n)  ==
  \A i \in 1..Len(s) :
    IsLength(s[i], l) /\ (\A j \in 1..Len(s) : j > i => ~IsLength(s[j], l)) => s[i].len = n

\* While keychain is in its loop and the window is there: what the window shows of a
\* line, or will show when it has read its messages, is the length of the line.
StarsInv ==
  Looping /\ gui # "exited" =>
    \A l \in Line : /\ pass_len[l] = Len(password[l])
                    /\ Says(toGui, l, pass_len[l])
                    /\ Silent(toGui, l) => text[l] = pass_len[l]

\* A round that sends no length of a line leaves what is said of it.
LEMMA SaysKept ==
  ASSUME NEW s \in Seq(MessagesToGui), NEW t \in Seq(MessagesToGui), NEW l, NEW n,
         Says(s, l, n), Silent(t, l)
  PROVE  Says(s \o t, l, n) /\ (Silent(s \o t, l) => Silent(s, l))
<1> DEFINE u == s \o t
<1>1. /\ Len(s) \in Nat /\ Len(t) \in Nat
      /\ \A i \in 1..Len(s) : i \in 1..Len(u) /\ u[i] = s[i]
      /\ \A i \in 1..Len(t) : u[Len(s) + i] = t[i]
      /\ \A i \in 1..Len(u) : i \in 1..Len(s) \/ \E j \in 1..Len(t) : i = Len(s) + j
  BY ConcatMembers, Zenon
<1> HIDE DEF u
<1>2. ASSUME NEW i \in 1..Len(u), IsLength(u[i], l) PROVE i \in 1..Len(s) /\ u[i] = s[i]
  BY <1>1, <1>2 DEF Silent
<1>3. ASSUME NEW i \in 1..Len(u), IsLength(u[i], l),
             \A j \in 1..Len(u) : j > i => ~IsLength(u[j], l)
       PROVE  u[i].len = n
  <2>1. i \in 1..Len(s) /\ u[i] = s[i]
    BY <1>2, <1>3
  <2>2. \A j \in 1..Len(s) : j > i => ~IsLength(s[j], l)
    BY <1>1, <1>3
  <2> QED BY <1>3, <2>1, <2>2 DEF Says
<1>4. Says(u, l, n)
  BY <1>3 DEF Says
<1>5. Silent(u, l) => Silent(s, l)
  BY <1>1 DEF Silent
<1> QED BY <1>4, <1>5 DEF u

\* A round whose last message is the length of a line says that length.
LEMMA SaysLast ==
  ASSUME NEW s \in Seq(MessagesToGui), NEW t \in Seq(MessagesToGui), NEW l, NEW n,
         Len(t) \in 1..Len(t), IsLength(t[Len(t)], l), t[Len(t)].len = n
  PROVE  Says(s \o t, l, n) /\ ~Silent(s \o t, l)
<1> DEFINE u == s \o t
<1>1. /\ Len(s) \in Nat /\ Len(t) \in Nat /\ Len(u) = Len(s) + Len(t)
      /\ \A i \in 1..Len(t) : Len(s) + i \in 1..Len(u) /\ u[Len(s) + i] = t[i]
  BY ConcatMembers, Zenon
<1> HIDE DEF u
<1>2. /\ Len(u) \in 1..Len(u) /\ IsLength(u[Len(u)], l) /\ u[Len(u)].len = n
      /\ Len(u) \in Nat
  BY <1>1
<1>3. ASSUME NEW i \in 1..Len(u), \A j \in 1..Len(u) : j > i => ~IsLength(u[j], l)
       PROVE  i = Len(u)
  BY <1>2, <1>3
<1>4. Says(u, l, n)
  BY <1>2, <1>3 DEF Says
<1>5. ~Silent(u, l)
  BY <1>2 DEF Silent
<1> QED BY <1>4, <1>5 DEF u

\* The window reads its first message, of this line or not.
LEMMA SaysTail ==
  ASSUME NEW s \in Seq(MessagesToGui), s # <<>>, NEW l, NEW n, Says(s, l, n)
  PROVE  /\ Says(Tail(s), l, n)
         /\ Silent(Tail(s), l) /\ IsLength(Head(s), l) => Head(s).len = n
         /\ Silent(Tail(s), l) /\ ~IsLength(Head(s), l) => Silent(s, l)
<1> DEFINE u == Tail(s)
<1>1. /\ Len(s) \in Nat /\ Len(s) >= 1 /\ Head(s) = s[1] /\ Len(u) = Len(s) - 1
      /\ \A i \in 1..Len(u) : i + 1 \in 1..Len(s) /\ u[i] = s[i + 1]
      /\ \A i \in 1..Len(s) : i = 1 \/ (i - 1 \in 1..Len(u) /\ u[i - 1] = s[i])
  BY TailMembers, Zenon
<1> HIDE DEF u
<1>2. ASSUME NEW i \in 1..Len(u), IsLength(u[i], l),
             \A j \in 1..Len(u) : j > i => ~IsLength(u[j], l)
       PROVE  u[i].len = n
  <2>1. i + 1 \in 1..Len(s) /\ IsLength(s[i + 1], l) /\ u[i] = s[i + 1]
    BY <1>1, <1>2
  <2>2. ASSUME NEW j \in 1..Len(s), j > i + 1 PROVE ~IsLength(s[j], l)
    <3>1. j - 1 \in 1..Len(u) /\ u[j - 1] = s[j] /\ j - 1 > i
      BY <1>1, <2>2
    <3> QED BY <1>2, <3>1
  <2> QED BY <2>1, <2>2 DEF Says
<1>3. Says(u, l, n)
  BY <1>2 DEF Says
<1>4. ASSUME Silent(u, l) PROVE \A j \in 1..Len(s) : j > 1 => ~IsLength(s[j], l)
  BY <1>1, <1>4 DEF Silent
<1>5. Silent(u, l) /\ IsLength(Head(s), l) => Head(s).len = n
  <2>1. 1 \in 1..Len(s)
    BY <1>1
  <2> QED BY <1>1, <1>4, <2>1 DEF Says
<1>6. Silent(u, l) /\ ~IsLength(Head(s), l) => Silent(s, l)
  BY <1>1, <1>4 DEF Silent
<1> QED BY <1>3, <1>5, <1>6 DEF u

\* Steps that leave the lines, the stars and the messages to the window.
LEMMA StarsKept ==
  ASSUME StarsInv, UNCHANGED <<password, pass_len, text, toGui>>,
         Looping' => Looping, gui' # "exited" => gui # "exited"
  PROVE  StarsInv'
BY DEF StarsInv, Says, Silent

LEMMA NextStars == Types /\ StarsInv /\ [Next]_vars => StarsInv'
<1> SUFFICES ASSUME Types, StarsInv, [Next]_vars PROVE StarsInv'
  OBVIOUS
<1>0. /\ toGui \in Seq(MessagesToGui) /\ pass_len \in [Line -> Nat] /\ text \in [Line -> Nat]
      /\ line_edit \in Line
  BY DEF Types, TypeOK
<1>1. CASE Start \/ Return \/ \E k \in Key : Press(k)
  <2>1. /\ UNCHANGED <<password, pass_len, text, toGui, gui>> /\ (Looping' => Looping)
    BY <1>1 DEF Start, Return, Press, keychain, window, Looping
  <2> QED BY <2>1, StarsKept
<1>2. CASE ReadKey \/ ReadNoKey
  <2>0. kc = "keys" /\ UNCHANGED window
    BY <1>2, Round
  <2>1. ASSUME NEW messages, NEW pw, NEW l \in Line, GoesOn(messages, pw, l) PROVE StarsInv'
    <3>0. PICK t : t = messages \o Lengths(pw, l)
      OBVIOUS
    <3>1. OfRound(t, pw, l)
      BY <2>1, <3>0, RoundSends, Zenon
    <3>2. /\ password' = pw /\ pass_len' = [pass_len EXCEPT ![l] = Len(pw[l])]
          /\ IF gui = "exited" /\ t # <<>> THEN kc' = "dead" /\ toGui' = toGui
             ELSE kc' = "poll" /\ toGui' = toGui \o t
          /\ \A m \in Line : m # l => pw[m] = password[m]
      BY <2>1, <3>0 DEF GoesOn, Continue, SendGui
    <3>3. SUFFICES ASSUME gui # "exited", NEW m \in Line
                   PROVE  /\ pass_len'[m] = Len(pw[m])
                          /\ Says(toGui \o t, m, pass_len'[m])
                          /\ Silent(toGui \o t, m) => text[m] = pass_len'[m]
      BY <2>0, <3>2 DEF StarsInv, window
    <3>4. /\ pass_len[m] = Len(password[m]) /\ Says(toGui, m, pass_len[m])
          /\ Silent(toGui, m) => text[m] = pass_len[m]
      BY <2>0, <3>3 DEF StarsInv, Looping
    <3>5. pass_len'[m] = Len(pw[m])
      BY <1>0, <3>2, <3>4
    <3>6. CASE m = l /\ Len(pw[l]) # pass_len[l]
      <4>1. /\ t \in Seq(MessagesToGui) /\ Len(t) \in 1..Len(t)
            /\ IsLength(t[Len(t)], m) /\ t[Len(t)].len = Len(pw[m])
        BY <3>1, <3>6 DEF OfRound, IsLength
      <4> QED BY <1>0, <3>5, <4>1, SaysLast
    <3>7. CASE ~(m = l /\ Len(pw[l]) # pass_len[l])
      <4>1. t \in Seq(MessagesToGui)
        BY <3>1 DEF OfRound
      <4>2. Silent(t, m)
        BY <3>1, <3>7 DEF OfRound, Silent, IsLength, Bears
      <4>3. pass_len'[m] = pass_len[m]
        BY <3>2, <3>4, <3>5, <3>7
      <4> QED BY <1>0, <3>4, <3>5, <4>1, <4>2, <4>3, SaysKept
    <3> QED BY <3>6, <3>7
  <2>2. ASSUME NEW pw, Ends(pw) PROVE StarsInv'
    BY <2>2 DEF Ends, Break, SendGui, StarsInv, Looping
  <2> QED BY <1>2, <2>1, <2>2, Round
<1>3. CASE PollGui
  <2>1. UNCHANGED <<text, gui>> /\ kc = "poll"
    BY <1>3 DEF PollGui, window
  <2>2. CASE \E pw : Break(pw)
    BY <2>2 DEF Break, SendGui, StarsInv, Looping
  <2>3. CASE UNCHANGED <<toGui, password, pass_len>>
    BY <2>1, <2>3, StarsKept DEF Looping
  <2> QED BY <1>3, <2>2, <2>3 DEF PollGui
<1>4. CASE Fail \/ KeyboardLost
  BY <1>4 DEF Fail, KeyboardLost, Break, SendGui, StarsInv, Looping
<1>5. CASE GuiReceive
  <2>1. /\ gui # "exited" /\ toGui # <<>> /\ Handle(Head(toGui)) /\ toGui' = Tail(toGui)
        /\ UNCHANGED <<kc, password, pass_len>>
    BY <1>5 DEF GuiReceive, keychain
  <2>2. SUFFICES ASSUME Looping, NEW l \in Line
                 PROVE  /\ pass_len[l] = Len(password[l])
                        /\ Says(Tail(toGui), l, pass_len[l])
                        /\ Silent(Tail(toGui), l) => text'[l] = pass_len[l]
    BY <2>1 DEF StarsInv, Looping
  <2>3. /\ pass_len[l] = Len(password[l]) /\ Says(toGui, l, pass_len[l])
        /\ Silent(toGui, l) => text[l] = pass_len[l]
    BY <2>1, <2>2 DEF StarsInv
  <2>4. /\ Says(Tail(toGui), l, pass_len[l])
        /\ Silent(Tail(toGui), l) /\ IsLength(Head(toGui), l) => Head(toGui).len = pass_len[l]
        /\ Silent(Tail(toGui), l) /\ ~IsLength(Head(toGui), l) => Silent(toGui, l)
    BY <1>0, <2>1, <2>3, SaysTail
  <2>5. text'[l] = IF IsLength(Head(toGui), l) THEN Head(toGui).len ELSE text[l]
    <3> DEFINE m == Head(toGui)
    <3>1. CASE m.cmd = "length"
      BY <1>0, <2>1, <3>1 DEF Handle, IsLength
    <3>2. CASE m.cmd # "length"
      BY <2>1, <3>2 DEF Handle, IsLength, ShutExpert, window
    <3> QED BY <3>1, <3>2
  <2> QED BY <2>3, <2>4, <2>5
<1>6. CASE \/ \E b \in {"ok", "cancel"} : Click(b)
           \/ \E l \in Line : FocusIn(l)
           \/ OpenExpert \/ CloseExpert \/ CloseWindow \/ GuiDies
  <2>1. /\ UNCHANGED <<password, pass_len, text, toGui>> /\ (Looping' => Looping)
        /\ gui # "exited"
    BY <1>6 DEF Click, FocusIn, OpenExpert, CloseExpert, ShutExpert, CloseWindow, GuiDies,
       Clickable, keychain, Looping
  <2> QED BY <2>1, StarsKept
<1>7. CASE UNCHANGED vars
  <2>1. /\ UNCHANGED <<password, pass_len, text, toGui, gui>> /\ (Looping' => Looping)
    BY <1>7 DEF vars, keychain, window, Looping
  <2> QED BY <2>1, StarsKept
<1> QED
  BY <1>1, <1>2, <1>3, <1>4, <1>5, <1>6, <1>7 DEF Next, Keychain

\* When the window has read its messages, it shows a star for every character that
\* has been typed, in each line.
THEOREM StarsCorrect == Spec => []StarsShown
<1>1. Init => StarsInv
  <2> SUFFICES ASSUME Init PROVE StarsInv
    OBVIOUS
  <2>1. toGui = <<Plain("event")>> /\ Plain("event").cmd = "event"
    BY MessageKinds DEF Init
  <2>2. \A i \in 1..Len(toGui) : toGui[i].cmd = "event"
    BY <2>1
  <2>3. \A l \in Line : pass_len[l] = 0 /\ text[l] = 0 /\ Len(password[l]) = 0
    BY LineLengths DEF Init
  <2> QED BY <2>2, <2>3 DEF StarsInv, Says, Silent, IsLength
<1>2. StarsInv => StarsShown
  <2> SUFFICES ASSUME StarsInv, kc \in {"keys", "poll"}, gui = "shown", toGui = <<>>,
                      NEW l \in Line
               PROVE  text[l] = Len(password[l])
    BY DEF StarsShown
  <2>1. Len(toGui) = 0
    OBVIOUS
  <2>2. Silent(toGui, l)
    BY <2>1 DEF Silent
  <2> QED BY <2>2 DEF StarsInv, Looping
<1> QED BY <1>1, <1>2, InitTypes, NextTypes, NextStars, PTL DEF Spec

-----------------------------------------------------------------------------
(* The end of the dialog. *)

\* The message that closes the window is among those it has to read.
Closing(s) == \E i \in 1..Len(s) : s[i] = Plain("close")

\* Reading another message leaves it to read; a message sent last is to be read.
LEMMA ClosingKept ==
  /\ \A s \in Seq(MessagesToGui) :
       s # <<>> /\ Closing(s) /\ Head(s) # Plain("close") => Closing(Tail(s))
  /\ \A s \in Seq(MessagesToGui) : Closing(s \o <<Plain("close")>>)
<1>1. ASSUME NEW s \in Seq(MessagesToGui), s # <<>>, Closing(s), Head(s) # Plain("close")
      PROVE  Closing(Tail(s))
  <2>1. PICK i \in 1..Len(s) : s[i] = Plain("close")
    BY <1>1 DEF Closing
  <2>2. i - 1 \in 1..Len(Tail(s)) /\ Tail(s)[i - 1] = s[i]
    BY <1>1, <2>1, TailMembers
  <2> QED BY <2>1, <2>2 DEF Closing
<1>2. ASSUME NEW s \in Seq(MessagesToGui)
      PROVE  Closing(s \o <<Plain("close")>>)
  <2> DEFINE t == <<Plain("close")>>
  <2>1. Plain("close") \in MessagesToGui
    BY MessageKinds
  <2>2. t \in Seq(MessagesToGui) /\ 1 \in 1..Len(t) /\ t[1] = Plain("close")
    BY <2>1
  <2> HIDE DEF t
  <2>3. Len(s) + 1 \in 1..Len(s \o t) /\ (s \o t)[Len(s) + 1] = Plain("close")
    BY <2>2, ConcatMembers
  <2>4. Closing(s \o t)
    BY <2>3 DEF Closing
  <2> QED BY <2>4 DEF t
<1> QED BY <1>1, <1>2

\* The message that closes the window is under way, has been obeyed, or has been
\* obeyed but for the expert window.
Ending == gui = "exited" \/ (gui = "closed" /\ expert) \/ Closing(toGui)

CloseInv == kc = "wait" => Ending

\* Leaving the loop sends the message.
LEMMA BreakCloses ==
  ASSUME Types, NEW pw, Break(pw)
  PROVE  kc' = "wait" => Closing(toGui)'
<1>1. SendGui(<<Plain("close")>>, "wait") /\ toGui \in Seq(MessagesToGui)
  BY DEF Break, Types, TypeOK
<1>2. ASSUME kc' = "wait" PROVE toGui' = toGui \o <<Plain("close")>>
  BY <1>1, <1>2 DEF SendGui
<1> QED BY <1>1, <1>2, ClosingKept DEF Closing

\* The window reads its messages one by one: with the main window closed already,
\* what comes behind can end it, and does not open it again.
LEMMA ReceiveCloses ==
  ASSUME Types, EventFirst, GuiReceive, kc = "wait", Ending
  PROVE  Ending'
<1> DEFINE m == Head(toGui)
<1>1. /\ gui # "exited" /\ toGui # <<>> /\ Handle(m) /\ toGui' = Tail(toGui)
      /\ toGui \in Seq(MessagesToGui) /\ m \in MessagesToGui
      /\ UNCHANGED <<kc, confirm>>
  BY DEF GuiReceive, Types, TypeOK
<1>2. ASSUME NEW x, NEW next, SendKc(x, next) PROVE gui' = "exited"
  BY <1>2 DEF SendKc
<1>3. CASE m = Plain("close")
  <2>1. m.cmd = "close"
    BY <1>3, MessageKinds
  <2> QED BY <1>1, <2>1 DEF Handle, Ending
<1>4. CASE m # Plain("close")
  <2>1. CASE gui = "closed" /\ expert
    <3>1. m.cmd # "event"
      <4>1. 1 \in 1..Len(toGui) /\ m = toGui[1]
        BY <1>1, TailMembers
      <4> QED BY <1>1, <2>1, <4>1 DEF EventFirst
    <3>2. gui' = "exited" \/ (gui' = gui /\ expert' = expert) \/ m.cmd = "close"
      BY <1>1, <1>2, <3>1 DEF Handle, SetFocus, ShutExpert, window
    <3>3. m.cmd = "close" => gui' = "closed" /\ expert'
      BY <1>1, <2>1 DEF Handle
    <3> QED BY <2>1, <3>2, <3>3 DEF Ending
  <2>2. CASE Closing(toGui)
    <3>1. Closing(Tail(toGui))
      BY <1>1, <1>4, <2>2, ClosingKept
    <3> QED BY <1>1, <3>1 DEF Ending, Closing
  <2> QED BY <1>1, <2>1, <2>2 DEF Ending
<1> QED BY <1>3, <1>4

LEMMA NextClose == Types /\ EventFirst /\ CloseInv /\ [Next]_vars => CloseInv'
<1> SUFFICES ASSUME Types, EventFirst, CloseInv, [Next]_vars, kc' = "wait" PROVE Ending'
  BY DEF CloseInv
<1>1. CASE ReadKey \/ ReadNoKey
  <2>1. PICK messages, pw, l : GoesOn(messages, pw, l) \/ Ends(pw)
    BY <1>1, Round
  <2>2. ~GoesOn(messages, pw, l)
    BY DEF GoesOn, Continue, SendGui
  <2> QED BY <2>1, <2>2, BreakCloses DEF Ends, Ending, Closing
<1>2. CASE PollGui \/ KeyboardLost
  <2>1. \E pw : Break(pw)
    BY <1>2 DEF PollGui, KeyboardLost
  <2> QED BY <2>1, BreakCloses DEF Ending, Closing
<1>3. CASE Start \/ Return \/ Fail
  BY <1>3 DEF Start, Return, Fail, SendGui
<1>4. CASE GuiReceive
  <2>1. kc = "wait"
    BY <1>4 DEF GuiReceive
  <2> QED BY <1>4, <2>1, ReceiveCloses DEF CloseInv
<1>5. CASE \/ \E b \in {"ok", "cancel"} : Click(b)
           \/ \E l \in Line : FocusIn(l)
           \/ OpenExpert \/ CloseExpert \/ CloseWindow \/ GuiDies
  <2>1. kc = "wait"
    BY <1>5 DEF Click, FocusIn, OpenExpert, CloseExpert, CloseWindow, GuiDies
  <2>2. gui' = "exited"
    BY <1>5, <2>1 DEF Click, FocusIn, OpenExpert, CloseExpert, ShutExpert, CloseWindow, GuiDies,
       SendKc
  <2> QED BY <2>2 DEF Ending
<1>6. CASE (\E k \in Key : Press(k)) \/ UNCHANGED vars
  <2>1. UNCHANGED <<kc, gui, expert, toGui>>
    BY <1>6 DEF Press, window, vars
  <2> QED BY <2>1 DEF CloseInv, Ending, Closing
<1> QED
  BY <1>1, <1>2, <1>3, <1>4, <1>5, <1>6 DEF Next, Keychain

\* keychain sits in wait() only for a window that has gone, is to read that it must
\* close, or is kept open by its expert window.
THEOREM CloseCorrect == Spec => []CloseUnderWay
<1>1. Init => CloseInv
  BY DEF Init, CloseInv
<1>2. Types /\ CloseInv => CloseUnderWay
  <2>1. Types => DOMAIN toGui = 1..Len(toGui)
    BY DEF Types, TypeOK
  <2> QED BY <2>1 DEF CloseInv, Ending, Closing, CloseUnderWay
<1>3. FocusInv => EventFirst
  BY DEF FocusInv
<1> QED BY <1>1, <1>2, <1>3, InitTypes, NextTypes, InitFocus, NextFocus, NextClose, PTL DEF Spec

-----------------------------------------------------------------------------
(* The dialog as its users see it. *)

\* What holds in every state and the refinement needs.
DialogInv == Types /\ CancelInv /\ FocusInv

\* The parts of the abstract state, now and after a step.
Shown == /\ Looping => DialogState = "open"
         /\ Returning => DialogState = "returned"
         /\ ~Looping /\ ~Returning => DialogState = "failed"

LEMMA States == Shown /\ Shown'
BY DEF Shown, Looping, Returning, DialogState

\* A step that the one who asks and the one who types do not see.
LEMMA Unseen ==
  ASSUME UNCHANGED <<confirm, password, line_edit, result, enters, first_click, lost>>,
         Looping' <=> Looping, Returning' <=> Returning
  PROVE  UNCHANGED Dialog!vars
BY DEF Dialog!vars, Decision, DialogState, Cleared, Line

\* The user decides.
LEMMA Decided ==
  ASSUME Types, UNCHANGED <<confirm, kc, password, line_edit, result, lost>>,
         enters \subseteq enters',
         first_click' = first_click \/ (first_click = "none" /\ first_click' \in {"ok", "cancel"})
  PROVE  Dialog!Decide \/ UNCHANGED Dialog!vars
<1>1. first_click \in {"none", "ok", "cancel"}
  BY DEF Types, TypeOK
<1>2. \/ Decision' = Decision
      \/ /\ Decision # "insisted" /\ Decision' \in {"agreed", "refused", "insisted"}
         /\ Decision = "agreed" => Decision' = "insisted"
  BY <1>1 DEF Decision
<1>3. (Looping' <=> Looping) /\ (Returning' <=> Returning) /\ DialogState' = DialogState
  BY DEF Looping, Returning, DialogState
<1>4. UNCHANGED <<confirm, IF Looping THEN password ELSE Cleared, IF Looping THEN line_edit ELSE 0,
                  lost, DialogState, IF Returning THEN result ELSE NoResult>>
  BY <1>3 DEF Cleared, Line
<1> QED BY <1>2, <1>4 DEF Dialog!Decide, Dialog!vars

\* The dialog is over: what it gives out is all that remains.
LEMMA Over ==
  ASSUME Looping, ~Looping', UNCHANGED <<confirm, enters, first_click>>
  PROVE  /\ Returning' => Dialog!End("returned", result')
         /\ ~Returning' => Dialog!End("failed", NoResult)
<1>1. /\ Cleared = [l \in {0, 1} |-> <<>>] /\ Dialog!Blank = [l \in {0, 1} |-> <<>>]
      /\ Decision' = Decision
  BY DEF Cleared, Line, Dialog!Blank, Dialog!Line, Decision
<1>2. Cleared' = Cleared
  BY DEF Cleared, Line
<1>3. DialogState = "open"
  BY States DEF Shown
<1>4. CASE Returning'
  BY <1>1, <1>2, <1>3, <1>4, States DEF Shown, Dialog!End
<1>5. CASE ~Returning'
  BY <1>1, <1>2, <1>3, <1>5, States DEF Shown, Dialog!End
<1> QED BY <1>4, <1>5

\* keychain leaves the loop: with nothing, or with the line that the user has agreed to.
LEMMA Left ==
  ASSUME Types, NEW pw, Break(pw), Looping, UNCHANGED <<confirm, enters, first_click, lost>>,
         \/ pw[line_edit] = <<>>
         \/ /\ pw = password /\ Decision \in {"agreed", "insisted"}
            /\ confirm /\ Decision # "insisted" => Equal
  PROVE  Dialog!Next
<1>1. ~Looping' /\ result' = pw[line_edit]
  BY DEF Break, SendGui, Looping
<1>2. CASE ~Returning'
  BY <1>1, <1>2, Over DEF Dialog!Next, Dialog!Fail
<1>3. CASE Returning' /\ pw[line_edit] = <<>>
  BY <1>1, <1>3, Over DEF Dialog!Next, Dialog!Cancel
<1>4. CASE /\ Returning' /\ pw = password /\ Decision \in {"agreed", "insisted"}
           /\ confirm /\ Decision # "insisted" => Equal
  <2>1. Dialog!End("returned", password[line_edit])
    BY <1>1, <1>4, Over
  <2> QED BY <1>4, <2>1 DEF Dialog!Next, Dialog!Return, Equal
<1> QED BY <1>2, <1>3, <1>4

\* keychain stays in the loop: one line has been edited, or the keys go to the other one.
LEMMA Stayed ==
  ASSUME Types, Looping, Looping',
         UNCHANGED <<confirm, result, enters, first_click, lost>>,
         \/ /\ \E line \in Dialog!Edited(password[line_edit]) :
                 password' = [password EXCEPT ![line_edit] = line]
            /\ line_edit' = line_edit
         \/ password' = password /\ line_edit' = line_edit
         \/ password' = password /\ line_edit' = 1 - line_edit /\ confirm
  PROVE  Dialog!Next \/ UNCHANGED Dialog!vars
<1>1. /\ ~Returning /\ ~Returning' /\ DialogState = "open" /\ DialogState' = "open"
      /\ Decision' = Decision
  BY DEF Looping, Returning, DialogState, Decision
<1>2. CASE /\ \E line \in Dialog!Edited(password[line_edit]) :
                password' = [password EXCEPT ![line_edit] = line]
           /\ line_edit' = line_edit
  BY <1>1, <1>2 DEF Dialog!Next, Dialog!Edit
<1>3. CASE password' = password /\ line_edit' = line_edit
  BY <1>1, <1>3, Unseen
<1>4. CASE password' = password /\ line_edit' = 1 - line_edit /\ confirm
  BY <1>1, <1>4 DEF Dialog!Next, Dialog!Switch
<1> QED BY <1>2, <1>3, <1>4

\* A round that does not end the dialog goes on, or keychain is killed in it.
LEMMA Continued ==
  ASSUME Types, Looping, NEW messages, NEW pw, NEW l, Continue(messages, pw, l),
         UNCHANGED <<confirm, enters, first_click, lost>>,
         \/ /\ \E line \in Dialog!Edited(password[line_edit]) :
                 pw = [password EXCEPT ![line_edit] = line]
            /\ l = line_edit
         \/ pw = password /\ l = line_edit
         \/ pw = password /\ l = 1 - line_edit /\ confirm
  PROVE  Dialog!Next \/ UNCHANGED Dialog!vars
<1>1. /\ password' = pw /\ line_edit' = l /\ UNCHANGED result
      /\ kc' \in {"poll", "dead"}
  BY DEF Continue, SendGui
<1>2. CASE kc' = "poll"
  <2>1. Looping'
    BY <1>2 DEF Looping
  <2> QED BY <1>1, <2>1, Stayed
<1>3. CASE kc' = "dead"
  BY <1>3, Over DEF Looping, Returning, Dialog!Next, Dialog!Fail
<1> QED BY <1>1, <1>2, <1>3

\* A key edits the line as the abstract dialog does, or leaves it.
LEMMA KeyEdits ==
  ASSUME NEW line \in Seq(Char), NEW k
  PROVE  OnKey(k, line) = line \/ OnKey(k, line) \in Dialog!Edited(line)
BY DEF OnKey, Dialog!Edited

\* A key ENTER in the device means that the user has agreed, that of the keypad that
\* they insist.
LEMMA KeyStep ==
  ASSUME DialogInv, ReadKey
  PROVE  Dialog!Next \/ UNCHANGED Dialog!vars
<1> DEFINE k == Head(typed)
<1>1. /\ Looping /\ typed # <<>> /\ typed \in Seq(Key) /\ HandleKey(k)
      /\ UNCHANGED <<confirm, enters, first_click, lost>>
  BY DEF ReadKey, user, Looping, DialogInv, Types, TypeOK
<1>2. /\ Types /\ password \in [Line -> Seq(Char)] /\ line_edit \in Line
      /\ confirm \in BOOLEAN
  BY DEF DialogInv, Types, TypeOK
<1>3. /\ k \in Enters => Decision \in {"agreed", "insisted"}
      /\ k = "KPENTER" => Decision = "insisted"
  <2>1. k \in Enters => k \in enters
    BY <1>1, <1>2, FirstKey DEF DialogInv, CancelInv
  <2> QED BY <2>1 DEF Decision, Enters
<1> HIDE DEF k
<1>4. CASE Toggles(k) /\ Continue(<<Focus(1 - line_edit)>>, password, 1 - line_edit)
  BY <1>1, <1>2, <1>4, Continued DEF Toggles
<1>5. ASSUME NEW messages, Continue(messages, password, line_edit)
      PROVE  Dialog!Next \/ UNCHANGED Dialog!vars
  BY <1>1, <1>2, <1>5, Continued
<1>6. CASE EndsEntry(k) /\ Break(LeftBy(k))
  <2>1. CASE k \in Enters
    <3>1. LeftBy(k) = password /\ (k = "KPENTER" \/ (confirm => Equal))
      BY <1>6, <2>1 DEF LeftBy, EndsEntry, Enters
    <3> QED BY <1>1, <1>2, <1>3, <1>6, <2>1, <3>1, Left
  <2>2. CASE k = "ESC"
    <3>1. LeftBy(k)[line_edit] = <<>>
      BY <1>2, <2>2 DEF LeftBy, Cleared, Enters
    <3> QED BY <1>1, <1>2, <1>6, <3>1, Left
  <2> QED BY <1>6, <2>1, <2>2 DEF EndsEntry, Enters
<1>7. CASE Continue(<<>>, [password EXCEPT ![line_edit] = OnKey(k, @)], line_edit)
  <2> DEFINE line == OnKey(k, password[line_edit])
             pw == [password EXCEPT ![line_edit] = line]
  <2>1. Continue(<<>>, pw, line_edit)
    BY <1>7
  <2>2. line = password[line_edit] \/ line \in Dialog!Edited(password[line_edit])
    BY <1>2, KeyEdits
  <2> HIDE DEF line
  <2>3. CASE line = password[line_edit]
    <3>1. pw = password
      BY <1>2, <2>3
    <3> HIDE DEF pw
    <3> QED BY <1>5, <2>1, <3>1
  <2>4. CASE line \in Dialog!Edited(password[line_edit])
    <3>1. \E x \in Dialog!Edited(password[line_edit]) : pw = [password EXCEPT ![line_edit] = x]
      BY <2>4
    <3> HIDE DEF pw
    <3> QED BY <1>1, <1>2, <2>1, <3>1, Continued
  <2> QED BY <2>2, <2>3, <2>4
<1> QED BY <1>1, <1>4, <1>5, <1>6, <1>7 DEF HandleKey

\* OK is accepted only after a first OK; the window moves the cursor only between two
\* lines.
LEMMA PollStep ==
  ASSUME DialogInv, PollGui
  PROVE  Dialog!Next \/ UNCHANGED Dialog!vars
<1>1. Looping /\ UNCHANGED <<confirm, enters, first_click, lost>>
  BY DEF PollGui, user, Looping
<1>2. /\ Types /\ line_edit \in Line /\ confirm \in BOOLEAN /\ toKc \in Seq(MessagesToKc)
      /\ first_click \in {"none", "ok", "cancel"}
  BY DEF DialogInv, Types, TypeOK
<1>3. CASE CancelPressed /\ Break(Cleared)
  <2>1. Cleared[line_edit] = <<>>
    BY <1>2 DEF Cleared
  <2> QED BY <1>1, <1>2, <1>3, <2>1, Left
<1>4. CASE ~CancelPressed /\ OkAccepted /\ Break(password)
  <2>1. first_click = "ok"
    BY <1>1, <1>2, <1>4 DEF DialogInv, CancelInv, CancelPressed, OkAccepted
  <2>2. Decision \in {"agreed", "insisted"} /\ (confirm => Equal)
    BY <1>4, <2>1 DEF Decision, OkAccepted
  <2> QED BY <1>1, <1>2, <1>4, <2>2, Left
<1>5. CASE /\ line_edit' = IF Received("focus") THEN LatestOf("focus").line ELSE line_edit
           /\ kc' = "keys"
           /\ UNCHANGED <<toGui, password, pass_len, result>>
  <2>1. line_edit' \in Line /\ (~confirm => line_edit' = line_edit)
    <3>1. CASE Received("focus")
      <4>1. PICK i \in DOMAIN toKc : /\ LatestOf("focus") = toKc[i] /\ toKc[i].cmd = "focus"
                                     /\ toKc[i] \in MessagesToKc
        BY <1>2, <3>1, Latest
      <4>2. i \in 1..Len(toKc)
        BY <1>2, <4>1
      <4>3. toKc[i].line \in Line /\ (~confirm => toKc[i].line = 0 /\ line_edit = 0)
        BY <4>1, <4>2, MessageTypes DEF DialogInv, FocusInv, OneLine
      <4> QED BY <1>5, <3>1, <4>1, <4>3
    <3>2. CASE ~Received("focus")
      BY <1>2, <1>5, <3>2
    <3> QED BY <3>1, <3>2
  <2>2. line_edit' = line_edit \/ (line_edit' = 1 - line_edit /\ confirm)
    BY <1>2, <2>1 DEF Line
  <2>3. Looping'
    BY <1>5 DEF Looping
  <2> QED BY <1>1, <1>2, <1>5, <2>2, <2>3, Stayed
<1> QED BY <1>3, <1>4, <1>5 DEF PollGui

\* Every step of the two processes and of the user is one of the dialog, or not seen.
LEMMA DialogStep ==
  ASSUME DialogInv, [Next]_vars
  PROVE  Dialog!Next \/ UNCHANGED Dialog!vars
<1>0. Types
  BY DEF DialogInv
<1>1. CASE Start
  <2>1. /\ Looping /\ kc' \in {"keys", "dead"}
        /\ UNCHANGED <<confirm, password, line_edit, result, enters, first_click, lost>>
    BY <1>1 DEF Start, keychain, user, Looping
  <2>2. CASE kc' = "keys"
    <3>1. Looping'
      BY <2>2 DEF Looping
    <3> QED BY <1>0, <2>1, <3>1, Stayed
  <2>3. CASE kc' = "dead"
    BY <2>1, <2>3, Over DEF Looping, Returning, Dialog!Next, Dialog!Fail
  <2> QED BY <2>1, <2>2, <2>3
<1>2. CASE ReadKey
  BY <1>2, KeyStep
<1>3. CASE ReadNoKey
  <2>1. /\ Looping /\ Continue(<<>>, password, line_edit)
        /\ UNCHANGED <<confirm, enters, first_click, lost>>
    BY <1>3 DEF ReadNoKey, user, Looping
  <2> QED BY <1>0, <2>1, Continued
<1>4. CASE PollGui
  BY <1>4, PollStep
<1>5. CASE Return
  <2>1. /\ UNCHANGED <<confirm, password, line_edit, result, enters, first_click, lost>>
        /\ kc = "wait" /\ kc' = "done"
    BY <1>5 DEF Return, keychain, user
  <2> QED BY <2>1, Unseen DEF Looping, Returning
<1>6. CASE Fail
  <2>1. /\ Looping /\ kc' \in {"failed", "dead"}
        /\ UNCHANGED <<confirm, enters, first_click, lost>>
    BY <1>6 DEF Fail, SendGui, user, Looping
  <2> QED BY <2>1, Over DEF Looping, Returning, Dialog!Next, Dialog!Fail
<1>7. CASE QuietWindow
  <2>1. UNCHANGED <<confirm, kc, password, line_edit, result, enters, first_click, lost>>
    BY <1>0, <1>7, QuietSteps DEF keychain
  <2> QED BY <2>1, Unseen DEF Looping, Returning
<1>8. ASSUME NEW k \in Key, Press(k) PROVE Dialog!Next \/ UNCHANGED Dialog!vars
  <2>1. /\ UNCHANGED <<confirm, kc, password, line_edit, result, first_click>>
        /\ enters \subseteq enters' /\ UNCHANGED lost
    BY <1>8 DEF Press, keychain
  <2> QED BY <1>0, <2>1, Decided DEF Dialog!Next
<1>9. CASE (\E b \in {"ok", "cancel"} : Click(b)) \/ CloseWindow
  <2>1. /\ UNCHANGED <<confirm, kc, password, line_edit, result, enters, lost>>
        /\ \/ first_click' = first_click
           \/ first_click = "none" /\ first_click' \in {"ok", "cancel"}
    BY <1>9 DEF Click, CloseWindow, keychain
  <2> QED BY <1>0, <2>1, Decided DEF Dialog!Next
<1>10. CASE KeyboardLost
  <2>1. /\ Looping /\ ~Looping' /\ lost' = TRUE /\ result' = password[line_edit]
        /\ UNCHANGED <<confirm, enters, first_click>>
    BY <1>10 DEF KeyboardLost, Break, SendGui, Looping
  <2> QED BY <2>1, Over DEF Dialog!Next, Dialog!Interrupt
<1>11. CASE UNCHANGED vars
  <2>1. UNCHANGED <<confirm, kc, password, line_edit, result, enters, first_click, lost>>
    BY <1>11 DEF vars, keychain, user
  <2> QED BY <2>1, Unseen DEF Looping, Returning
<1> QED
  BY <1>1, <1>2, <1>3, <1>4, <1>5, <1>6, <1>7, <1>8, <1>9, <1>10, <1>11
  DEF Next, Keychain, QuietWindow

\* The dialog begins with empty lines, the cursor in the first one and no decision.
LEMMA DialogInit == Init => Dialog!Init
BY DEF Init, Looping, Returning, DialogState, Decision, Cleared, Line,
   Dialog!Init, Dialog!Blank, Dialog!Line

\* keychain and its window are a password dialog: what goes back is what was typed, line
\* by line and key by key, only after ENTER or OK or when the keyboard is lost, and, but
\* for the latter and the ENTER of the keypad, only if two lines are alike.
THEOREM DialogImplemented == Spec => DialogSpec
<1>1. DialogInv /\ [Next]_vars => [Dialog!Next]_Dialog!vars
  BY DialogStep
<1>2. Types /\ CancelInv /\ FocusInv => DialogInv
  BY DEF DialogInv
<1> QED
  BY <1>1, <1>2, InitTypes, NextTypes, InitCancel, NextCancel, InitFocus, NextFocus, DialogInit, PTL
  DEF Spec, DialogSpec, Dialog!Spec
===============================================================================
