----------------------------- MODULE KeyfileStore -----------------------------
(***************************************************************************)
(* keyfile_singleton: the map of keyfiles that every process (keychain or  *)
(* key manager) keeps in memory, and the directory key_data they share.    *)
(*                                                                         *)
(* Nothing locks the directory.  A load reads the files one by one; a      *)
(* flush truncates the file and writes it; between any two of these steps  *)
(* the other processes run, and a process may be killed.  A keyfile is     *)
(* Empty (no line of it is complete) from its truncation until the text is *)
(* written, and Torn when the text is cut short after its first line; the  *)
(* state of the stream is never tested.                                    *)
(***************************************************************************)
EXTENDS Naturals, FiniteSets

CONSTANTS Proc,     \* processes that open key_data
          Key,      \* key pairs, each with one file, named by a hash of the public key
          Content,  \* what a complete keyfile may say of its key: keyname, password, ...
          Long,     \* contents of more than 1023 characters, which a load cuts off
          Writer,   \* bound: the processes that create, update and remove keys
          Changed,  \* bound: the keys they do that with
          Position, \* bound: the positions that are asked for
          Absent, Empty, Torn,  \* no file; one without a complete line; one that does not parse
          NoLoad    \* a process that is not loading the directory

ASSUME ConstantsAssumption ==
  /\ Cardinality({Absent, Empty, Torn}) = 3
  /\ {Absent, Empty, Torn} \cap Content = {}
  /\ Long \subseteq Content
  /\ Writer \subseteq Proc
  /\ Changed \subseteq Key
  /\ Position \subseteq Nat
  /\ IsFiniteSet(Key)
  /\ \A S \in SUBSET Key : NoLoad # S

VARIABLES
  file,    \* file[k]: the keyfile of k in key_data
  mem,     \* mem[p][k]: the entry for k in the map of p, or Absent
  pc,      \* pc[p]: what process p is doing
  arg,     \* arg[p]: the key, or the position, its operation is about
  seen,    \* seen[p]: the files its load has read, or NoLoad
  listed,  \* listed[p]: the files there when the load began: it will meet them all
  result,  \* result[p]: how its last operation ended
  steady,  \* history: steady[p]: keys whose file has been complete, and left alone,
           \* since the load of p began
  stored   \* history: stored[k]: what the file of k has said when it was complete

history == <<steady, stored>>
vars == <<file, mem, pc, arg, seen, listed, result, history>>

Readable == Content \ Long
Complete == {k \in Key : file[k] \in Content}
Present  == {k \in Key : file[k] # Absent}
NoKeys   == [k \in Key |-> Absent]
Entries(p) == Cardinality({k \in Key : mem[p][k] # Absent})

State  == {"down", "start", "idle", "lookup", "at_index", "flush"}
Result == {"ok", "not_found", "error"}

Loading(p) == pc[p] \in {"start", "lookup", "at_index"}

Init ==
  /\ file \in [Key -> Content \cup {Absent}]
  /\ mem = [p \in Proc |-> NoKeys]
  /\ pc = [p \in Proc |-> "down"]
  /\ arg = [p \in Proc |-> 0]
  /\ seen = [p \in Proc |-> NoLoad]
  /\ listed = [p \in Proc |-> {}]
  /\ result = [p \in Proc |-> "ok"]
  /\ steady = [p \in Proc |-> {}]
  /\ stored = [k \in Key |-> {file[k]} \cap Content]

-----------------------------------------------------------------------------
(* keydata_load, one file a step. *)

BeginLoad(p) ==
  /\ seen' = [seen EXCEPT ![p] = {}]
  /\ listed' = [listed EXCEPT ![p] = Present]
  /\ steady' = [steady EXCEPT ![p] = Complete]

\* (Variant for mutation: the files read are not forgotten.)
EndLoadKeepsSeen(p) ==
  /\ arg' = [arg EXCEPT ![p] = 0]
  /\ listed' = [listed EXCEPT ![p] = {}]
  /\ steady' = [steady EXCEPT ![p] = {}]
  /\ UNCHANGED seen

EndLoad(p) ==
  /\ arg' = [arg EXCEPT ![p] = 0]
  /\ seen' = [seen EXCEPT ![p] = NoLoad]
  /\ listed' = [listed EXCEPT ![p] = {}]
  /\ steady' = [steady EXCEPT ![p] = {}]

\* (Variant for mutation: an entry already in the map is kept.)
ReadFileKeeps(p, k) ==
  /\ Loading(p)
  /\ k \in Present \ seen[p]
  /\ file[k] # Empty
  /\ mem' = IF file[k] \in Readable /\ mem[p][k] = Absent
            THEN [mem EXCEPT ![p][k] = file[k]] ELSE mem
  /\ seen' = [seen EXCEPT ![p] = @ \cup {k}]
  /\ UNCHANGED <<file, pc, arg, listed, result, history>>

\* (Variant for mutation: a torn file is taken for a complete one.)
ReadFileTorn(p, k) ==
  /\ Loading(p)
  /\ k \in Present \ seen[p]
  /\ file[k] # Empty
  /\ \E c \in Readable :
       mem' = [mem EXCEPT ![p][k] = IF file[k] \in Readable THEN file[k] ELSE c]
  /\ seen' = [seen EXCEPT ![p] = @ \cup {k}]
  /\ UNCHANGED <<file, pc, arg, listed, result, history>>

\* A file that parses replaces what the map says; one that does not is skipped with a
\* warning.  open_keyfile reads into a buffer of 1024 bytes, so that the rest of a
\* longer text is missing and it does not parse either.
ReadFile(p, k) ==
  /\ Loading(p)
  /\ k \in Present \ seen[p]
  /\ file[k] # Empty
  /\ mem' = IF file[k] \in Readable THEN [mem EXCEPT ![p][k] = file[k]] ELSE mem
  /\ seen' = [seen EXCEPT ![p] = @ \cup {k}]
  /\ UNCHANGED <<file, pc, arg, listed, result, history>>

\* open_keyfile throws another exception for a file it reads no byte from, and
\* that one ends the load and the operation; in the constructor, the process.
ReadEmptyFile(p, k) ==
  /\ Loading(p)
  /\ k \in Present \ seen[p]
  /\ file[k] = Empty
  /\ EndLoad(p)
  /\ pc' = [pc EXCEPT ![p] = IF @ = "start" THEN "down" ELSE "idle"]
  /\ mem' = IF pc[p] = "start" THEN [mem EXCEPT ![p] = NoKeys] ELSE mem
  /\ result' = [result EXCEPT ![p] = "error"]
  /\ UNCHANGED <<file, stored>>

\* (Variant for mutation: the load gives up after one file.)
LoadDoneEarly(p) == Loading(p) /\ (listed[p] # {} => seen[p] # {})

\* A file created after the load began may be met or missed.
LoadDone(p) == Loading(p) /\ listed[p] \subseteq seen[p]

-----------------------------------------------------------------------------
(* The operations. *)

Start(p) ==
  /\ pc[p] = "down"
  /\ pc' = [pc EXCEPT ![p] = "start"]
  /\ BeginLoad(p)
  /\ result' = [result EXCEPT ![p] = "ok"]
  /\ UNCHANGED <<file, mem, arg, stored>>

Started(p) ==
  /\ pc[p] = "start"
  /\ LoadDone(p)
  /\ pc' = [pc EXCEPT ![p] = "idle"]
  /\ EndLoad(p)
  /\ result' = [result EXCEPT ![p] = "ok"]
  /\ UNCHANGED <<file, mem, stored>>

\* operator[] by public key or by name: the map first, then the directory once.
Lookup(p, k) ==
  /\ pc[p] = "idle"
  /\ result' = [result EXCEPT ![p] = "ok"]
  /\ IF mem[p][k] # Absent
     THEN UNCHANGED <<pc, arg, seen, listed, steady>>
     ELSE /\ pc' = [pc EXCEPT ![p] = "lookup"]
          /\ arg' = [arg EXCEPT ![p] = k]
          /\ BeginLoad(p)
  /\ UNCHANGED <<file, mem, stored>>

\* (Variant for mutation: a key that is not found is looked for again.)
LookedUpAgain(p) ==
  /\ pc[p] = "lookup"
  /\ LoadDone(p)
  /\ IF mem[p][arg[p]] # Absent
     THEN pc' = [pc EXCEPT ![p] = "idle"] /\ EndLoad(p)
     ELSE BeginLoad(p) /\ UNCHANGED <<pc, arg>>
  /\ UNCHANGED <<file, mem, result, stored>>

LookedUp(p) ==
  /\ pc[p] = "lookup"
  /\ LoadDone(p)
  /\ pc' = [pc EXCEPT ![p] = "idle"]
  /\ EndLoad(p)
  /\ result' = [result EXCEPT ![p] = IF mem[p][arg[p]] # Absent THEN "ok" ELSE "not_found"]
  /\ UNCHANGED <<file, mem, stored>>

\* operator[] by position.  Past the end it loads the directory and looks again;
\* the flag that should end the second round is a variable of the inner block.
AtIndex(p, i) ==
  /\ pc[p] = "idle"
  /\ result' = [result EXCEPT ![p] = "ok"]
  /\ IF i < Entries(p)
     THEN UNCHANGED <<pc, arg, seen, listed, steady>>
     ELSE /\ pc' = [pc EXCEPT ![p] = "at_index"]
          /\ arg' = [arg EXCEPT ![p] = i]
          /\ BeginLoad(p)
  /\ UNCHANGED <<file, mem, stored>>

AtIndexAgain(p) ==
  /\ pc[p] = "at_index"
  /\ LoadDone(p)
  /\ IF arg[p] < Entries(p)
     THEN pc' = [pc EXCEPT ![p] = "idle"] /\ EndLoad(p)
     ELSE BeginLoad(p) /\ UNCHANGED <<pc, arg>>
  /\ UNCHANGED <<file, mem, result, stored>>

\* The file of k becomes f: no load may count on it any more.
SetFile(k, f) ==
  /\ file' = [file EXCEPT ![k] = f]
  /\ steady' = [q \in Proc |-> steady[q] \ {k}]
  /\ stored' = [stored EXCEPT ![k] = @ \cup ({f} \cap Content)]

\* insert, as create calls it: only the map is asked whether the key exists.
InsertRefused(p, k) ==
  /\ pc[p] = "idle"
  /\ mem[p][k] # Absent
  /\ result' = [result EXCEPT ![p] = "error"]
  /\ UNCHANGED <<file, mem, pc, arg, seen, listed, history>>

\* The entry c goes into the map and flush_keyfile opens its file, which truncates it.
OpenKeyfile(p, k, c) ==
  /\ arg' = [arg EXCEPT ![p] = k]
  /\ mem' = [mem EXCEPT ![p][k] = c]
  /\ pc' = [pc EXCEPT ![p] = "flush"]
  /\ result' = [result EXCEPT ![p] = "ok"]
  /\ SetFile(k, Empty)
  /\ UNCHANGED <<seen, listed>>

\* The file cannot be opened: flush_keyfile throws, and the entry stays in the map.
OpenFails(p, k, c) ==
  /\ mem' = [mem EXCEPT ![p][k] = c]
  /\ result' = [result EXCEPT ![p] = "error"]
  /\ UNCHANGED <<file, pc, arg, seen, listed, history>>

Insert(p, k, c)        == pc[p] = "idle" /\ mem[p][k] = Absent /\ OpenKeyfile(p, k, c)
InsertUnsaved(p, k, c) == pc[p] = "idle" /\ mem[p][k] = Absent /\ OpenFails(p, k, c)

\* The update that is given a modifier changes the entry and writes it in the same way.
\* (The modifier keeps the public key.)
Modify(p, k, c)        == pc[p] = "idle" /\ mem[p][k] # Absent /\ OpenKeyfile(p, k, c)
ModifyUnsaved(p, k, c) == pc[p] = "idle" /\ mem[p][k] # Absent /\ OpenFails(p, k, c)

\* The text reaches the file, or not, or in part: the operation ends well.
Flush(p) ==
  /\ pc[p] = "flush"
  /\ \E f \in {mem[p][arg[p]], Torn, Empty} : SetFile(arg[p], f)
  /\ pc' = [pc EXCEPT ![p] = "idle"]
  /\ arg' = [arg EXCEPT ![p] = 0]
  /\ result' = [result EXCEPT ![p] = "ok"]
  /\ UNCHANGED <<mem, seen, listed>>

\* remove, and the update that is given a whole keyfile, work on the map only.
Remove(p, k) ==
  /\ pc[p] = "idle"
  /\ mem[p][k] # Absent
  /\ mem' = [mem EXCEPT ![p][k] = Absent]
  /\ result' = [result EXCEPT ![p] = "ok"]
  /\ UNCHANGED <<file, pc, arg, seen, listed, history>>

Update(p, k, c) ==
  /\ pc[p] = "idle"
  /\ mem[p][k] # Absent
  /\ mem' = [mem EXCEPT ![p][k] = c]
  /\ result' = [result EXCEPT ![p] = "ok"]
  /\ UNCHANGED <<file, pc, arg, seen, listed, history>>

\* The process ends or is killed.  flush_all, run by the destructor, names its
\* files without a separator after key_data: no file of the directory changes.
Stop(p) ==
  /\ pc[p] # "down"
  /\ pc' = [pc EXCEPT ![p] = "down"]
  /\ mem' = [mem EXCEPT ![p] = NoKeys]
  /\ EndLoad(p)
  /\ result' = [result EXCEPT ![p] = "ok"]
  /\ UNCHANGED <<file, stored>>

-----------------------------------------------------------------------------
Load(p) ==
  \/ \E k \in Key : ReadFile(p, k) \/ ReadEmptyFile(p, k)
  \/ Started(p)
  \/ LookedUp(p)
  \/ AtIndexAgain(p)

Write(p) ==
  /\ p \in Writer
  /\ \/ \E k \in Changed : InsertRefused(p, k) \/ Remove(p, k)
     \/ \E k \in Changed, c \in Content :
          \/ Insert(p, k, c) \/ InsertUnsaved(p, k, c) \/ Update(p, k, c)
          \/ Modify(p, k, c) \/ ModifyUnsaved(p, k, c)
     \/ Flush(p)

Next ==
  \E p \in Proc :
    \/ Start(p)
    \/ Load(p)
    \/ \E i \in Position : AtIndex(p, i)
    \/ \E k \in Key : Lookup(p, k)
    \/ Write(p)
    \/ Stop(p)

Spec == Init /\ [][Next]_vars

\* A process that loads the directory goes on loading.
FairSpec == Spec /\ \A p \in Proc : WF_vars(Load(p))

-----------------------------------------------------------------------------
(* Properties. *)

\* Every variable has its type, and only a process that loads has read files.
TypeOK ==
  /\ file \in [Key -> Content \cup {Absent, Empty, Torn}]
  /\ mem \in [Proc -> [Key -> Content \cup {Absent}]]
  /\ pc \in [Proc -> State]
  /\ arg \in [Proc -> Key \cup Nat]
  /\ \A p \in Proc : seen[p] = NoLoad \/ seen[p] \in SUBSET Key
  /\ \A p \in Proc : Loading(p) <=> seen[p] # NoLoad
  /\ \A p \in Proc : pc[p] \in {"lookup", "flush"} => arg[p] \in Key
  /\ listed \in [Proc -> SUBSET Key]
  /\ result \in [Proc -> Result]
  /\ steady \in [Proc -> SUBSET Key]
  /\ stored \in [Key -> SUBSET Content]

\* What a load has read is what the directory says, for every file left alone since
\* the load began that fits the buffer of open_keyfile: entries that were stale in the
\* map are replaced (keydata_load), and no torn, long or foreign file gets in their way.
LoadIsCurrent ==
  \A p \in Proc : Loading(p) =>
    \A k \in seen[p] \cap steady[p] : file[k] \in Readable => mem[p][k] = file[k]

\* operator[] answers from the map without a look at the directory: what a process
\* that writes no keys knows of one may be out of date, but it is what the file of
\* that key has once said, whole, whatever was torn, rewritten or removed since.
KnownWasStored ==
  \A p \in Proc \ Writer, k \in Key : mem[p][k] \in stored[k] \cup {Absent}

\* A look-up by key loads the directory once: until it ends, it goes on from the files
\* it has read.
LookupLoadsOnce ==
  [][\A p \in Proc :
       pc[p] = "lookup" /\ pc'[p] = "lookup" =>
         seen[p] \subseteq seen'[p] /\ listed'[p] = listed[p] /\ arg'[p] = arg[p]]_vars

\* key_not_found is reported only for a key whose file was missing, or not complete, or
\* being written by another process, at some time of the load that operator[] makes
\* after it missed the key in the map, or whose file is too long for open_keyfile.
NotFoundHonest ==
  [][\A p \in Proc :
       result[p] # "not_found" /\ result'[p] = "not_found" =>
         ~(arg[p] \in steady[p] /\ file[arg[p]] \in Readable)]_vars

\* A look-up by key ends, whatever the other processes do to the directory.
LookupEnds == \A p \in Proc : pc[p] = "lookup" ~> pc[p] # "lookup"

\* So does a look-up by position: past the end of the table it reports
\* out_of_range after one more load.
AtIndexEnds == \A p \in Proc : pc[p] = "at_index" ~> pc[p] # "at_index"

\* A stored private key is not deleted by an internal error: once its file has
\* been complete it is complete, except while a process rewrites it.
PrivateKeyKept ==
  \A k \in Key : stored[k] # {} =>
    \/ file[k] \in Content
    \/ \E p \in Proc : pc[p] = "flush" /\ arg[p] = k
=============================================================================
