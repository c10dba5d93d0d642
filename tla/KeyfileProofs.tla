----------------------------- MODULE KeyfileProofs -----------------------------
(***************************************************************************)
(* Proofs about KeyfileStore, for any processes, keys and contents: what a *)
(* load of the directory may be trusted for while others write to it.      *)
(***************************************************************************)
EXTENDS KeyfileStore, TLAPS

\* A missing, empty or torn file is told apart from a complete one, positions are
\* numbers, what is written are keys, and no set of keys is taken for the mark of a
\* process without a load.
LEMMA Kinds ==
  /\ Absent \notin Content /\ Empty \notin Content /\ Torn \notin Content
  /\ Position \subseteq Nat /\ Changed \subseteq Key
  /\ \A S \in SUBSET Key : S # NoLoad
BY ConstantsAssumption

-----------------------------------------------------------------------------
(* Types. *)

\* What TypeOK says of one process.
ProcTypes(p) ==
  /\ seen[p] = NoLoad \/ seen[p] \in SUBSET Key
  /\ Loading(p) <=> seen[p] # NoLoad
  /\ pc[p] \in {"lookup", "flush"} => arg[p] \in Key

\* And what it says of the functions as a whole.
FunctionTypes ==
  /\ file \in [Key -> Content \cup {Absent, Empty, Torn}]
  /\ mem \in [Proc -> [Key -> Content \cup {Absent}]]
  /\ pc \in [Proc -> State]
  /\ arg \in [Proc -> Key \cup Nat]
  /\ listed \in [Proc -> SUBSET Key]
  /\ result \in [Proc -> Result]
  /\ steady \in [Proc -> SUBSET Key]
  /\ stored \in [Key -> SUBSET Content]
  /\ DOMAIN seen = Proc

Types == FunctionTypes /\ \A p \in Proc : ProcTypes(p)

\* At the start no process runs.
LEMMA InitTypes == Init => Types
BY Kinds DEF Init, Types, FunctionTypes, ProcTypes, NoKeys, State, Result, Loading, Complete

\* Beginning and ending a load keep the variables of loads well typed.
LEMMA LoadTypes ==
  ASSUME FunctionTypes, NEW p \in Proc
  PROVE  /\ BeginLoad(p) \/ EndLoad(p) => /\ listed' \in [Proc -> SUBSET Key]
                                          /\ steady' \in [Proc -> SUBSET Key]
                                          /\ DOMAIN seen' = Proc
         /\ EndLoad(p) => arg' \in [Proc -> Key \cup Nat]
<1>1. Present \subseteq Key /\ Complete \subseteq Key
  BY DEF Present, Complete
<1>2. ASSUME BeginLoad(p)
       PROVE  /\ listed' \in [Proc -> SUBSET Key]
              /\ steady' \in [Proc -> SUBSET Key]
              /\ DOMAIN seen' = Proc
  BY <1>1, <1>2 DEF FunctionTypes, BeginLoad
<1>3. ASSUME EndLoad(p)
       PROVE  /\ listed' \in [Proc -> SUBSET Key]
              /\ steady' \in [Proc -> SUBSET Key]
              /\ DOMAIN seen' = Proc
              /\ arg' \in [Proc -> Key \cup Nat]
  BY <1>3 DEF FunctionTypes, EndLoad
<1> QED BY <1>2, <1>3

\* One entry of a map may be replaced by a content, or removed.
LEMMA EntryTypes ==
  ASSUME FunctionTypes, NEW p \in Proc, NEW k \in Key, NEW x \in Content \cup {Absent}
  PROVE  [mem EXCEPT ![p][k] = x] \in [Proc -> [Key -> Content \cup {Absent}]]
BY DEF FunctionTypes

\* Every step of the directory, the maps and the loads keeps the types.
LEMMA NextTypes == Types /\ [Next]_vars => Types'
<1> SUFFICES ASSUME Types, [Next]_vars PROVE Types'
  OBVIOUS
<1> USE Kinds DEF Types, State, Result, NoKeys
<1>1. ASSUME NEW p \in Proc, Start(p)
       PROVE  Types'
  <2>1. FunctionTypes'
    BY <1>1, LoadTypes DEF Start, FunctionTypes
  <2>2. \A q \in Proc : ProcTypes(q)'
    BY <1>1 DEF Start, FunctionTypes, ProcTypes, Loading, BeginLoad, EndLoad,
       Present
  <2> QED BY <2>1, <2>2
<1>2. ASSUME NEW p \in Proc, NEW k \in Key, ReadFile(p, k)
       PROVE  Types'
  <2>1. FunctionTypes'
    <3>1. file[k] \in Readable =>
            [mem EXCEPT ![p][k] = file[k]] \in [Proc -> [Key -> Content \cup {Absent}]]
      BY EntryTypes DEF Readable
    <3> QED BY <1>2, <3>1 DEF ReadFile, FunctionTypes, history
  <2>2. \A q \in Proc : ProcTypes(q)'
    BY <1>2 DEF ReadFile, FunctionTypes, ProcTypes, Loading
  <2> QED BY <2>1, <2>2
<1>3. ASSUME NEW p \in Proc, NEW k \in Key, ReadEmptyFile(p, k)
       PROVE  Types'
  <2>1. FunctionTypes'
    BY <1>3, LoadTypes DEF ReadEmptyFile, FunctionTypes
  <2>2. \A q \in Proc : ProcTypes(q)'
    BY <1>3 DEF ReadEmptyFile, FunctionTypes, ProcTypes, Loading, BeginLoad, EndLoad,
       Present
  <2> QED BY <2>1, <2>2
<1>4. ASSUME NEW p \in Proc, Started(p)
       PROVE  Types'
  <2>1. FunctionTypes'
    BY <1>4, LoadTypes DEF Started, FunctionTypes
  <2>2. \A q \in Proc : ProcTypes(q)'
    BY <1>4 DEF Started, FunctionTypes, ProcTypes, Loading, BeginLoad, EndLoad,
       Present
  <2> QED BY <2>1, <2>2
<1>5. ASSUME NEW p \in Proc, LookedUp(p)
       PROVE  Types'
  <2>1. FunctionTypes'
    BY <1>5, LoadTypes DEF LookedUp, FunctionTypes
  <2>2. \A q \in Proc : ProcTypes(q)'
    BY <1>5 DEF LookedUp, FunctionTypes, ProcTypes, Loading, BeginLoad, EndLoad,
       Present
  <2> QED BY <2>1, <2>2
<1>6. ASSUME NEW p \in Proc, AtIndexAgain(p)
       PROVE  Types'
  <2>1. FunctionTypes'
    <3>1. (BeginLoad(p) /\ UNCHANGED <<pc, arg>>) \/ (EndLoad(p) /\ pc' = [pc EXCEPT ![p] = "idle"])
      BY <1>6 DEF AtIndexAgain
    <3> QED BY <1>6, <3>1, LoadTypes DEF AtIndexAgain, FunctionTypes
  <2>2. \A q \in Proc : ProcTypes(q)'
    BY <1>6 DEF AtIndexAgain, FunctionTypes, ProcTypes, Loading, BeginLoad, EndLoad,
       Present
  <2> QED BY <2>1, <2>2
<1>7. ASSUME NEW p \in Proc, NEW i \in Position, AtIndex(p, i)
       PROVE  Types'
  <2>1. FunctionTypes'
    <3>1. \/ UNCHANGED <<pc, arg, seen, listed, steady>>
          \/ /\ pc' = [pc EXCEPT ![p] = "at_index"]
             /\ arg' = [arg EXCEPT ![p] = i]
             /\ BeginLoad(p)
      BY <1>7 DEF AtIndex
    <3>2. /\ result' = [result EXCEPT ![p] = "ok"]
          /\ UNCHANGED <<file, mem, stored>>
      BY <1>7 DEF AtIndex
    <3>3. CASE UNCHANGED <<pc, arg, seen, listed, steady>>
      BY <3>2, <3>3 DEF FunctionTypes
    <3>4. CASE /\ pc' = [pc EXCEPT ![p] = "at_index"]
               /\ arg' = [arg EXCEPT ![p] = i]
               /\ BeginLoad(p)
      <4>1. /\ listed' \in [Proc -> SUBSET Key]
            /\ steady' \in [Proc -> SUBSET Key]
            /\ DOMAIN seen' = Proc
        BY <3>4, LoadTypes
      <4>2. arg' \in [Proc -> Key \cup Nat]
        BY <3>4 DEF FunctionTypes
      <4>3. pc' \in [Proc -> State] /\ result' \in [Proc -> Result]
        BY <3>2, <3>4 DEF FunctionTypes
      <4> QED BY <3>2, <4>1, <4>2, <4>3 DEF FunctionTypes
    <3> QED BY <3>1, <3>3, <3>4
  <2>2. \A q \in Proc : ProcTypes(q)'
    BY <1>7 DEF AtIndex, FunctionTypes, ProcTypes, Loading, BeginLoad, EndLoad,
       Present
  <2> QED BY <2>1, <2>2
<1>8. ASSUME NEW p \in Proc, NEW k \in Key, Lookup(p, k)
       PROVE  Types'
  <2>1. FunctionTypes'
    <3>1. \/ UNCHANGED <<pc, arg, seen, listed, steady>>
          \/ /\ pc' = [pc EXCEPT ![p] = "lookup"]
             /\ arg' = [arg EXCEPT ![p] = k]
             /\ BeginLoad(p)
      BY <1>8 DEF Lookup
    <3>2. /\ result' = [result EXCEPT ![p] = "ok"]
          /\ UNCHANGED <<file, mem, stored>>
      BY <1>8 DEF Lookup
    <3>3. CASE UNCHANGED <<pc, arg, seen, listed, steady>>
      BY <3>2, <3>3 DEF FunctionTypes
    <3>4. CASE /\ pc' = [pc EXCEPT ![p] = "lookup"]
               /\ arg' = [arg EXCEPT ![p] = k]
               /\ BeginLoad(p)
      <4>1. /\ listed' \in [Proc -> SUBSET Key]
            /\ steady' \in [Proc -> SUBSET Key]
            /\ DOMAIN seen' = Proc
        BY <3>4, LoadTypes
      <4>2. arg' \in [Proc -> Key \cup Nat]
        BY <3>4 DEF FunctionTypes
      <4>3. pc' \in [Proc -> State] /\ result' \in [Proc -> Result]
        BY <3>2, <3>4 DEF FunctionTypes
      <4> QED BY <3>2, <4>1, <4>2, <4>3 DEF FunctionTypes
    <3> QED BY <3>1, <3>3, <3>4
  <2>2. \A q \in Proc : ProcTypes(q)'
    BY <1>8 DEF Lookup, FunctionTypes, ProcTypes, Loading, BeginLoad, EndLoad,
       Present
  <2> QED BY <2>1, <2>2
<1>9. ASSUME NEW p \in Proc, NEW k \in Key, InsertRefused(p, k) \/ Remove(p, k)
       PROVE  Types'
  <2>1. FunctionTypes'
    <3>1. mem' \in [Proc -> [Key -> Content \cup {Absent}]]
      <4>1. [mem EXCEPT ![p][k] = Absent] \in [Proc -> [Key -> Content \cup {Absent}]]
        BY EntryTypes
      <4> QED BY <1>9, <4>1 DEF InsertRefused, Remove, FunctionTypes
    <3> QED BY <1>9, <3>1 DEF InsertRefused, Remove, history, FunctionTypes, ProcTypes
  <2>2. \A q \in Proc : ProcTypes(q)'
    BY <1>9 DEF InsertRefused, Remove, history, FunctionTypes, ProcTypes, Loading
  <2> QED BY <2>1, <2>2
<1>10. ASSUME NEW p \in Proc, NEW k \in Key, NEW c \in Content,
              Insert(p, k, c) \/ Modify(p, k, c)
        PROVE  Types'
  <2>0. pc[p] = "idle" /\ OpenKeyfile(p, k, c)
    BY <1>10 DEF Insert, Modify
  <2>1. FunctionTypes'
    BY <2>0 DEF OpenKeyfile, SetFile, FunctionTypes
  <2>2. \A q \in Proc : ProcTypes(q)'
    BY <2>0 DEF OpenKeyfile, SetFile, FunctionTypes, ProcTypes, Loading
  <2> QED BY <2>1, <2>2
<1>11. ASSUME NEW p \in Proc, NEW k \in Key, NEW c \in Content,
              InsertUnsaved(p, k, c) \/ Update(p, k, c) \/ ModifyUnsaved(p, k, c)
        PROVE  Types'
  <2>1. FunctionTypes'
    <3>1. mem' \in [Proc -> [Key -> Content \cup {Absent}]]
      BY <1>11, EntryTypes DEF InsertUnsaved, Update, ModifyUnsaved, OpenFails
    <3> QED BY <1>11, <3>1
        DEF InsertUnsaved, Update, ModifyUnsaved, OpenFails, history, FunctionTypes, ProcTypes
  <2>2. \A q \in Proc : ProcTypes(q)'
    BY <1>11
    DEF InsertUnsaved, Update, ModifyUnsaved, OpenFails, history, FunctionTypes, ProcTypes, Loading
  <2> QED BY <2>1, <2>2
<1>12. ASSUME NEW p \in Proc, Flush(p)
        PROVE  Types'
  <2>1. FunctionTypes'
    <3>1. file' \in [Key -> Content \cup {Absent, Empty, Torn}]
      BY <1>12 DEF Flush, SetFile, FunctionTypes, ProcTypes
    <3> QED BY <1>12, <3>1 DEF Flush, SetFile, FunctionTypes, ProcTypes
  <2>2. \A q \in Proc : ProcTypes(q)'
    BY <1>12 DEF Flush, SetFile, FunctionTypes, ProcTypes, Loading
  <2> QED BY <2>1, <2>2
<1>13. ASSUME NEW p \in Proc, Stop(p)
        PROVE  Types'
  <2>1. FunctionTypes'
    BY <1>13, LoadTypes DEF Stop, FunctionTypes
  <2>2. \A q \in Proc : ProcTypes(q)'
    BY <1>13 DEF Stop, FunctionTypes, ProcTypes, Loading, BeginLoad, EndLoad,
       Present
  <2> QED BY <2>1, <2>2
<1>14. CASE UNCHANGED vars
  BY <1>14 DEF vars, history, FunctionTypes, ProcTypes, Loading
<1> QED BY <1>1, <1>2, <1>3, <1>4, <1>5, <1>6, <1>7, <1>8, <1>9, <1>10, <1>11, <1>12, <1>13,
           <1>14 DEF Next, Load, Write

\* The variables keep their types; in particular a process has files it has read
\* exactly while it loads, and a look-up and a flush are about a key.
THEOREM TypeCorrect == Spec => []TypeOK
<1>1. Types => TypeOK
  BY DEF Types, FunctionTypes, ProcTypes, TypeOK
<1> QED BY <1>1, InitTypes, NextTypes, PTL DEF Spec

-----------------------------------------------------------------------------
(* Loads. *)

\* What may be trusted of a load: a file that has been complete since it began
\* is one of the files it is bound to meet, and once met the map agrees with it, if
\* it fits the buffer.
LoadTrusted(p) ==
  /\ steady[p] \subseteq Complete
  /\ Loading(p) => steady[p] \subseteq listed[p]
  /\ Loading(p) =>
       \A k \in seen[p] \cap steady[p] : file[k] \in Readable => mem[p][k] = file[k]

LoadInv == Types /\ \A p \in Proc : LoadTrusted(p)

\* A step that leaves the load of a process alone, or stops it, keeps the trust in
\* it, provided no file that still counts as left alone changes.
LEMMA LoadUndisturbed ==
  ASSUME Types, NEW p \in Proc, LoadTrusted(p),
         Loading(p)' => Loading(p),
         Loading(p)' => seen'[p] = seen[p] /\ listed'[p] = listed[p] /\ mem'[p] = mem[p],
         steady'[p] \subseteq steady[p],
         \A k \in steady'[p] : file'[k] = file[k]
  PROVE  LoadTrusted(p)'
<1>1. steady'[p] \subseteq Complete'
  BY DEF LoadTrusted, Complete
<1>2. Loading(p)' => steady'[p] \subseteq listed'[p]
  BY DEF LoadTrusted
<1>3. Loading(p)' => \A k \in seen'[p] \cap steady'[p] :
                       file'[k] \in Readable => mem'[p][k] = file'[k]
  BY DEF LoadTrusted
<1> QED BY <1>1, <1>2, <1>3 DEF LoadTrusted

\* A load that begins has read nothing, and lists every complete file.
LEMMA LoadBegun ==
  ASSUME Types, NEW p \in Proc, BeginLoad(p), UNCHANGED file
  PROVE  LoadTrusted(p)'
<1>1. Complete \subseteq Present
  BY Kinds DEF Complete, Present
<1>2. Complete' = Complete
  BY DEF Complete
<1>3. seen'[p] = {} /\ listed'[p] = Present /\ steady'[p] = Complete
  BY DEF BeginLoad, Types, FunctionTypes
<1> QED BY <1>1, <1>2, <1>3 DEF LoadTrusted

\* A load that ends counts on no file.
LEMMA LoadEnded ==
  ASSUME Types, NEW p \in Proc, EndLoad(p), ~Loading(p)'
  PROVE  LoadTrusted(p)'
<1>1. steady'[p] = {}
  BY DEF EndLoad, Types, FunctionTypes
<1> QED BY <1>1 DEF LoadTrusted

\* Reading a file makes the map agree with it, unless it is torn or too long; and then
\* no load counts on it.
LEMMA FileRead ==
  ASSUME Types, NEW p \in Proc, NEW k \in Key, LoadTrusted(p), ReadFile(p, k)
  PROVE  LoadTrusted(p)'
<1>1. /\ Loading(p) /\ Loading(p)'
      /\ UNCHANGED <<file, listed, steady>>
      /\ seen'[p] = seen[p] \cup {k}
  BY DEF ReadFile, history, Loading, Types, FunctionTypes
<1>2. Complete' = Complete
  BY <1>1 DEF Complete
<1>3. ASSUME NEW j \in seen'[p] \cap steady'[p], file[j] \in Readable
      PROVE  mem'[p][j] = file[j]
  <2>1. j \in Key
    BY <1>1, <1>3 DEF LoadTrusted, Complete
  <2>2. CASE j = k
    BY <1>3, <2>1, <2>2 DEF ReadFile, Types, FunctionTypes
  <2>3. CASE j # k
    <3>1. mem[p][j] = file[j]
      BY <1>1, <1>3, <2>3 DEF LoadTrusted
    <3>2. mem'[p][j] = mem[p][j]
      BY <2>1, <2>3 DEF ReadFile, Types, FunctionTypes
    <3> QED BY <3>1, <3>2
  <2> QED BY <2>2, <2>3
<1> QED BY <1>1, <1>2, <1>3 DEF LoadTrusted

\* Every step keeps the trust in every load.
LEMMA NextLoads == LoadInv /\ [Next]_vars => LoadInv'
<1> SUFFICES ASSUME LoadInv, [Next]_vars, NEW q \in Proc PROVE LoadTrusted(q)'
  BY NextTypes DEF LoadInv
<1>0. Types /\ LoadTrusted(q)
  BY DEF LoadInv
<1> USE DEF Loading, Types, FunctionTypes
<1>1. ASSUME NEW p \in Proc, Start(p) PROVE LoadTrusted(q)'
  <2>1. CASE q = p
    BY <1>0, <1>1, <2>1, LoadBegun DEF Start
  <2>2. CASE q # p
    BY <1>0, <1>1, <2>2, LoadUndisturbed DEF Start, BeginLoad
  <2> QED BY <2>1, <2>2
<1>2. ASSUME NEW p \in Proc, NEW k \in Key, ReadFile(p, k) PROVE LoadTrusted(q)'
  <2>1. CASE q = p
    BY <1>0, <1>2, <2>1, FileRead
  <2>2. CASE q # p
    BY <1>0, <1>2, <2>2, LoadUndisturbed DEF ReadFile, history
  <2> QED BY <2>1, <2>2
<1>3. ASSUME NEW p \in Proc, NEW k \in Key, ReadEmptyFile(p, k) PROVE LoadTrusted(q)'
  <2>1. CASE q = p
    BY <1>0, <1>3, <2>1, LoadEnded DEF ReadEmptyFile
  <2>2. CASE q # p
    BY <1>0, <1>3, <2>2, LoadUndisturbed DEF ReadEmptyFile, EndLoad
  <2> QED BY <2>1, <2>2
<1>4. ASSUME NEW p \in Proc, Started(p) \/ LookedUp(p) PROVE LoadTrusted(q)'
  <2>1. CASE q = p
    BY <1>0, <1>4, <2>1, LoadEnded DEF Started, LookedUp
  <2>2. CASE q # p
    BY <1>0, <1>4, <2>2, LoadUndisturbed DEF Started, LookedUp, EndLoad
  <2> QED BY <2>1, <2>2
<1>5. ASSUME NEW p \in Proc, AtIndexAgain(p) PROVE LoadTrusted(q)'
  <2>1. \/ BeginLoad(p) /\ UNCHANGED <<pc, arg, file, mem>>
        \/ EndLoad(p) /\ pc' = [pc EXCEPT ![p] = "idle"] /\ UNCHANGED <<file, mem>>
    BY <1>5 DEF AtIndexAgain
  <2>2. CASE q = p
    BY <1>0, <2>1, <2>2, LoadBegun, LoadEnded
  <2>3. CASE q # p
    BY <1>0, <2>1, <2>3, LoadUndisturbed DEF BeginLoad, EndLoad
  <2> QED BY <2>2, <2>3
<1>6. ASSUME NEW p \in Proc,
             (\E i \in Position : AtIndex(p, i)) \/ (\E k \in Key : Lookup(p, k))
      PROVE  LoadTrusted(q)'
  <2>1. /\ UNCHANGED <<file, mem>>
        /\ \/ UNCHANGED <<pc, seen, listed, steady>>
           \/ BeginLoad(p) /\ \E s \in State : pc' = [pc EXCEPT ![p] = s]
    BY <1>6 DEF AtIndex, Lookup, State
  <2>2. CASE UNCHANGED <<pc, seen, listed, steady>>
    BY <1>0, <2>1, <2>2, LoadUndisturbed
  <2>3. CASE BeginLoad(p) /\ q = p
    BY <1>0, <2>1, <2>3, LoadBegun
  <2>4. CASE BeginLoad(p) /\ (\E s \in State : pc' = [pc EXCEPT ![p] = s]) /\ q # p
    BY <1>0, <2>1, <2>4, LoadUndisturbed DEF BeginLoad
  <2> QED BY <2>1, <2>2, <2>3, <2>4
<1>7. ASSUME NEW p \in Proc, NEW k \in Key,
             \/ InsertRefused(p, k) \/ Remove(p, k)
             \/ \E c \in Content : \/ InsertUnsaved(p, k, c) \/ Update(p, k, c)
                                  \/ ModifyUnsaved(p, k, c)
      PROVE  LoadTrusted(q)'
  BY <1>0, <1>7, LoadUndisturbed
  DEF InsertRefused, Remove, InsertUnsaved, Update, ModifyUnsaved, OpenFails, history
<1>8. ASSUME NEW p \in Proc, NEW k \in Key, NEW c \in Content,
             Insert(p, k, c) \/ Modify(p, k, c)
      PROVE  LoadTrusted(q)'
  <2>1. pc[p] = "idle" /\ OpenKeyfile(p, k, c)
    BY <1>8 DEF Insert, Modify
  <2> QED BY <1>0, <2>1, LoadUndisturbed DEF OpenKeyfile, SetFile
<1>9. ASSUME NEW p \in Proc, Flush(p) PROVE LoadTrusted(q)'
  BY <1>0, <1>9, LoadUndisturbed DEF Flush, SetFile
<1>10. ASSUME NEW p \in Proc, Stop(p) PROVE LoadTrusted(q)'
  BY <1>0, <1>10, LoadUndisturbed DEF Stop, EndLoad
<1>11. CASE UNCHANGED vars
  BY <1>0, <1>11, LoadUndisturbed DEF vars, history
<1> QED BY <1>1, <1>2, <1>3, <1>4, <1>5, <1>6, <1>7, <1>8, <1>9, <1>10, <1>11, Kinds DEF Next, Load, Write

\* The trust in loads holds in every state.
LEMMA LoadInvariant == Spec => []LoadInv
<1>1. Init => LoadInv
  <2>1. Init => \A p \in Proc : LoadTrusted(p)
    BY DEF Init, LoadTrusted, Loading
  <2> QED BY <2>1, InitTypes DEF LoadInv
<1> QED BY <1>1, NextLoads, PTL DEF Spec

\* What keydata_load has put into the map for a file that has been left alone since
\* the load began, and fits the buffer of open_keyfile, is what the file says,
\* whatever the other processes do.
THEOREM LoadCorrect == Spec => []LoadIsCurrent
<1>1. LoadInv => LoadIsCurrent
  BY DEF LoadInv, LoadTrusted, LoadIsCurrent
<1> QED BY <1>1, LoadInvariant, PTL

\* operator[] reports key_not_found only for a key whose file was missing, incomplete
\* or being written at some time of the load it made, or does not fit that buffer.
THEOREM NotFoundCorrect == Spec => NotFoundHonest
<1>1. ASSUME LoadInv, [Next]_vars, NEW p \in Proc,
             result[p] # "not_found", result'[p] = "not_found"
      PROVE  ~(arg[p] \in steady[p] /\ file[arg[p]] \in Readable)
  <2>1. LookedUp(p) /\ mem[p][arg[p]] = Absent
    <3>0. result \in [Proc -> Result] /\ "not_found" \notin {"ok", "error"}
      BY <1>1 DEF LoadInv, Types, FunctionTypes
    <3>1. PICK q \in Proc :
           \/ Start(q)
           \/ Load(q)
           \/ \E i \in Position : AtIndex(q, i)
           \/ \E k \in Key : Lookup(q, k)
           \/ Write(q)
           \/ Stop(q)
      <4>1. ~UNCHANGED vars
        BY <1>1 DEF vars
      <4>2. Next
        BY <1>1, <4>1
      <4> QED BY <4>2 DEF Next
    <3>2. ~Start(q) /\ ~Stop(q) /\ ~\E i \in Position : AtIndex(q, i)
      BY <1>1, <3>0 DEF Start, Stop, AtIndex
    <3>3. ~\E k \in Key : Lookup(q, k)
      BY <1>1, <3>0 DEF Lookup
    <3>4. ~Write(q)
      BY <1>1, <3>0 DEF Write, InsertRefused, Insert, InsertUnsaved, Remove, Update, Modify,
                     ModifyUnsaved, OpenKeyfile, OpenFails, Flush
    <3>5. Load(q)
      BY <3>1, <3>2, <3>3, <3>4
    <3> QED BY <1>1, <3>0, <3>5 DEF Load, ReadFile, ReadEmptyFile, Started, LookedUp, AtIndexAgain
  <2>2. Loading(p) /\ listed[p] \subseteq seen[p]
    BY <2>1 DEF LookedUp, LoadDone, Loading
  <2>3. SUFFICES ASSUME arg[p] \in steady[p], file[arg[p]] \in Readable PROVE FALSE
    OBVIOUS
  <2>4. file[arg[p]] \in Content /\ mem[p][arg[p]] = file[arg[p]]
    BY <1>1, <2>2, <2>3 DEF LoadInv, LoadTrusted, Complete
  <2> QED BY <2>1, <2>4, Kinds
<1>2. LoadInv /\ [Next]_vars =>
        [\A p \in Proc :
           result[p] # "not_found" /\ result'[p] = "not_found" =>
             ~(arg[p] \in steady[p] /\ file[arg[p]] \in Readable)]_vars
  BY <1>1
<1> QED BY <1>2, LoadInvariant, PTL DEF Spec, NotFoundHonest

-----------------------------------------------------------------------------
(* What a process knows. *)

\* A complete file says what it has said, and what a process that writes no keys
\* knows of one is something its file has said.
KnownInv ==
  /\ \A k \in Key : file[k] \in Content => file[k] \in stored[k]
  /\ KnownWasStored

\* What the files have said is never forgotten: a step that leaves the maps of such
\* processes alone, or empties them, keeps what they know good.
LEMMA KnownKept ==
  ASSUME Types, KnownInv,
         \A k \in Key : stored[k] \subseteq stored'[k],
         \A k \in Key : file'[k] = file[k] \/ (file'[k] \in Content => file'[k] \in stored'[k]),
         \A p \in Proc \ Writer, k \in Key : mem'[p][k] \in {mem[p][k], Absent}
  PROVE  KnownInv'
<1>1. \A k \in Key : file'[k] \in Content => file'[k] \in stored'[k]
  BY DEF KnownInv
<1>2. \A p \in Proc \ Writer, k \in Key : mem'[p][k] \in stored'[k] \cup {Absent}
  BY DEF KnownInv, KnownWasStored
<1> QED BY <1>1, <1>2 DEF KnownInv, KnownWasStored

\* A file that becomes complete is recorded with what it says.
LEMMA FileSet ==
  ASSUME Types, NEW k \in Key, NEW f, SetFile(k, f)
  PROVE  /\ \A j \in Key : stored[j] \subseteq stored'[j]
         /\ \A j \in Key : file'[j] = file[j] \/ (file'[j] \in Content => file'[j] \in stored'[j])
BY DEF SetFile, Types, FunctionTypes

\* Every step keeps what processes know good; the one that adds to it takes a
\* complete file.
LEMMA NextKnown == Types /\ KnownInv /\ [Next]_vars => KnownInv'
<1> SUFFICES ASSUME Types, KnownInv, [Next]_vars PROVE KnownInv'
  OBVIOUS
<1>0. mem \in [Proc -> [Key -> Content \cup {Absent}]] /\ Writer \subseteq Proc
  BY ConstantsAssumption DEF Types, FunctionTypes
<1>1. CASE UNCHANGED <<file, mem, stored>>
  BY <1>1, KnownKept
<1>2. ASSUME NEW p \in Proc, NEW k \in Key, ReadFile(p, k) PROVE KnownInv'
  <2>1. UNCHANGED <<file, stored>>
    BY <1>2 DEF ReadFile, history
  <2>2. CASE file[k] \notin Readable
    <3>1. mem' = mem
      BY <1>2, <2>2 DEF ReadFile
    <3> QED BY <1>1, <2>1, <3>1
  <2>3. CASE file[k] \in Readable
    <3>1. mem' = [mem EXCEPT ![p][k] = file[k]] /\ file[k] \in Content
      BY <1>2, <2>3 DEF ReadFile, Readable
    <3>2. ASSUME NEW q \in Proc \ Writer, NEW j \in Key
          PROVE  mem'[q][j] \in stored[j] \cup {Absent}
      <4>1. CASE q = p /\ j = k
        <5>1. mem'[q][j] = file[k]
          BY <1>0, <3>1, <4>1
        <5> QED BY <3>1, <4>1, <5>1 DEF KnownInv
      <4>2. CASE ~(q = p /\ j = k)
        <5>1. mem'[q][j] = mem[q][j]
          BY <1>0, <3>1, <4>2
        <5> QED BY <5>1 DEF KnownInv, KnownWasStored
      <4> QED BY <4>1, <4>2
    <3> QED BY <2>1, <3>2 DEF KnownInv, KnownWasStored
  <2> QED BY <2>2, <2>3
<1>3. ASSUME NEW p \in Proc, NEW k \in Key, ReadEmptyFile(p, k) PROVE KnownInv'
  <2>1. UNCHANGED <<file, stored>> /\ mem' \in {mem, [mem EXCEPT ![p] = NoKeys]}
    BY <1>3 DEF ReadEmptyFile
  <2>2. \A q \in Proc \ Writer, j \in Key : mem'[q][j] \in {mem[q][j], Absent}
    BY <1>0, <2>1 DEF NoKeys
  <2> QED BY <2>1, <2>2, KnownKept
<1>4. ASSUME NEW p \in Proc, Stop(p) PROVE KnownInv'
  <2>1. UNCHANGED <<file, stored>> /\ mem' = [mem EXCEPT ![p] = NoKeys]
    BY <1>4 DEF Stop
  <2>2. \A q \in Proc \ Writer, j \in Key : mem'[q][j] \in {mem[q][j], Absent}
    BY <1>0, <2>1 DEF NoKeys
  <2> QED BY <2>1, <2>2, KnownKept
<1>5. ASSUME NEW p \in Writer, NEW k \in Key, NEW x \in Content \cup {Absent},
             mem' = [mem EXCEPT ![p][k] = x]
      PROVE  \A q \in Proc \ Writer, j \in Key : mem'[q][j] \in {mem[q][j], Absent}
  BY <1>0, <1>5
<1>6. ASSUME NEW p \in Writer, NEW k \in Key,
             \/ Remove(p, k)
             \/ \E c \in Content : \/ InsertUnsaved(p, k, c) \/ Update(p, k, c)
                                  \/ ModifyUnsaved(p, k, c)
      PROVE  KnownInv'
  <2>1. UNCHANGED <<file, stored>>
        /\ \E x \in Content \cup {Absent} : mem' = [mem EXCEPT ![p][k] = x]
    BY <1>6 DEF Remove, InsertUnsaved, Update, ModifyUnsaved, OpenFails, history
  <2> QED BY <1>5, <2>1, KnownKept
<1>7. ASSUME NEW p \in Writer, NEW k \in Key, NEW c \in Content,
             Insert(p, k, c) \/ Modify(p, k, c)
      PROVE  KnownInv'
  <2>1. SetFile(k, Empty) /\ mem' = [mem EXCEPT ![p][k] = c]
    BY <1>7 DEF Insert, Modify, OpenKeyfile
  <2> QED BY <1>5, <2>1, FileSet, KnownKept
<1>8. ASSUME NEW p \in Writer, Flush(p) PROVE KnownInv'
  <2>1. arg[p] \in Key
    BY <1>0, <1>8 DEF Flush, Types, ProcTypes
  <2>2. UNCHANGED mem /\ \E f : SetFile(arg[p], f)
    BY <1>8 DEF Flush
  <2> QED BY <2>1, <2>2, FileSet, KnownKept
<1>9. ASSUME NEW p \in Proc,
             \/ Start(p) \/ Started(p) \/ LookedUp(p) \/ AtIndexAgain(p)
             \/ \E i \in Position : AtIndex(p, i)
             \/ \E k \in Key : Lookup(p, k) \/ InsertRefused(p, k)
      PROVE  UNCHANGED <<file, mem, stored>>
  BY <1>9 DEF Start, Started, LookedUp, AtIndexAgain, AtIndex, Lookup, InsertRefused, history
<1>10. CASE UNCHANGED vars
  BY <1>1, <1>10 DEF vars, history
<1> QED
  BY <1>0, <1>1, <1>2, <1>3, <1>4, <1>6, <1>7, <1>8, <1>9, <1>10, Kinds DEF Next, Load, Write

\* What a process that writes no keys knows of one is what its file has said when it
\* was complete: nothing torn, nothing of another key, nothing made up.
THEOREM KnownCorrect == Spec => []KnownWasStored
<1>1. Init => KnownInv
  BY ConstantsAssumption DEF Init, NoKeys, KnownInv, KnownWasStored
<1>2. KnownInv => KnownWasStored
  BY DEF KnownInv
<1> QED BY <1>1, <1>2, InitTypes, NextTypes, NextKnown, PTL DEF Spec

-----------------------------------------------------------------------------
(* Look-ups. *)

\* While a look-up by key goes on, its load is not begun again and nothing it has
\* read is read again.
THEOREM LookupOnceCorrect == Spec => LookupLoadsOnce
<1>1. ASSUME Types, [Next]_vars, NEW q \in Proc, pc[q] = "lookup", pc'[q] = "lookup"
      PROVE  seen[q] \subseteq seen'[q] /\ listed'[q] = listed[q] /\ arg'[q] = arg[q]
  <2>0. /\ DOMAIN seen = Proc /\ listed \in [Proc -> SUBSET Key]
        /\ pc \in [Proc -> State] /\ arg \in [Proc -> Key \cup Nat]
    BY <1>1 DEF Types, FunctionTypes
  <2>1. ASSUME NEW p \in Proc, ~\E k \in Key : ReadFile(p, k),
               \/ Start(p) \/ Load(p) \/ Stop(p)
               \/ \E i \in Position : AtIndex(p, i)
               \/ \E k \in Key : Lookup(p, k)
               \/ Write(p)
        PROVE  q # p
    <3>1. SUFFICES ASSUME q = p PROVE FALSE
      OBVIOUS
    <3>2. pc[p] = "lookup" /\ pc'[p] = "lookup"
      BY <1>1, <3>1
    <3>3. ~Start(p) /\ ~\E i \in Position : AtIndex(p, i)
      BY <3>2 DEF Start, AtIndex
    <3>4. ~(\E k \in Key : Lookup(p, k)) /\ ~Write(p)
      BY <3>2 DEF Lookup, Write, InsertRefused, Insert, InsertUnsaved, Remove, Update, Modify,
                     ModifyUnsaved, OpenKeyfile, OpenFails, Flush
    <3>5. ~Stop(p)
      BY <2>0, <3>2 DEF Stop
    <3>6. ~Load(p)
      BY <2>0, <2>1, <3>2 DEF Load, ReadEmptyFile, Started, LookedUp, AtIndexAgain
    <3> QED BY <2>1, <3>3, <3>4, <3>5, <3>6
  <2>2. ASSUME NEW p \in Proc, NEW k \in Key, ReadFile(p, k)
        PROVE  seen[q] \subseteq seen'[q] /\ listed'[q] = listed[q] /\ arg'[q] = arg[q]
    BY <2>0, <2>2 DEF ReadFile
  <2>3. ASSUME NEW p \in Proc, p # q, Start(p) \/ Load(p) \/ Stop(p)
        PROVE  seen[q] \subseteq seen'[q] /\ listed'[q] = listed[q] /\ arg'[q] = arg[q]
    BY <2>0, <2>3 DEF Start, Load, Stop, BeginLoad, EndLoad, ReadFile, ReadEmptyFile,
       Started, LookedUp, AtIndexAgain
  <2>4. ASSUME NEW p \in Proc, p # q,
               (\E i \in Position : AtIndex(p, i)) \/ (\E k \in Key : Lookup(p, k))
        PROVE  seen[q] \subseteq seen'[q] /\ listed'[q] = listed[q] /\ arg'[q] = arg[q]
    BY <2>0, <2>4 DEF AtIndex, Lookup, BeginLoad
  <2>5. ASSUME NEW p \in Proc, p # q, Write(p)
        PROVE  seen[q] \subseteq seen'[q] /\ listed'[q] = listed[q] /\ arg'[q] = arg[q]
    BY <2>0, <2>5 DEF Write, InsertRefused, Insert, InsertUnsaved, Remove, Update, Modify,
                     ModifyUnsaved, OpenKeyfile, OpenFails, Flush
  <2>6. CASE UNCHANGED vars
    BY <2>6 DEF vars
  <2> QED BY <1>1, <2>1, <2>2, <2>3, <2>4, <2>5, <2>6 DEF Next
<1>2. Types /\ [Next]_vars =>
        [\A p \in Proc :
           pc[p] = "lookup" /\ pc'[p] = "lookup" =>
             seen[p] \subseteq seen'[p] /\ listed'[p] = listed[p] /\ arg'[p] = arg[p]]_vars
  BY <1>1
<1> QED BY <1>2, InitTypes, NextTypes, PTL DEF Spec, LookupLoadsOnce
=============================================================================
