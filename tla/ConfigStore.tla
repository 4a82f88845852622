---------------------------- MODULE ConfigStore ----------------------------
(***************************************************************************)
(* The configuration store: variables that threads look up by name and     *)
(* change, files that are read when the store is opened or reloaded, and   *)
(* the user's file that is written by save() and by the destructor. A text *)
(* and the value it stands for are the same here; a text may be no number. *)
(* Values with line breaks or leading blanks, which do not come back, are  *)
(* left out, and so are the listeners of a variable: what they do is done   *)
(* by another thread here.                                                 *)
(***************************************************************************)
EXTENDS Integers, Sequences, FiniteSets, SequencesExt, FiniteSetsExt

CONSTANTS
  ConfigThreads,
  NameOrder,       \* the names, as flat_map orders them
  UserFiles,       \* the user's files there may be: sequences of <<name, text>>
  DefaultFile,     \* the default file, the same in every session
  TypeOf,          \* the type everybody uses for each name
  DefaultOf,       \* the default value everybody passes for each name
  Numbers, Words,  \* the texts that are numbers, and those that are not
  MaxKeys          \* bound: entries of key_order when a reload begins

ASSUME ConfigStoreAssumption == MaxKeys \in Nat /\ Numbers \cap Words = {}

VARIABLES
  csVariable,   \* name -> the variable that was looked up
  csData,       \* config_file_data_
  csKeys,       \* key_order
  csThread,     \* what each thread does inside of a call
  csUserFile,   \* what the callback wrote last, lines of <<name, text>>
  csSeen,       \* history: the values each variable had since the last save began
  csQuiet,      \* history: the variables that a transaction changed while they were not marked
  csSession     \* "open", or "closed" after the destructor

csVars == <<csVariable, csData, csKeys, csThread, csUserFile, csSeen, csQuiet, csSession>>

VariableNames == ToSet(NameOrder)
ValuesOf(n) == IF TypeOf[n] = "number" THEN Numbers ELSE Numbers \cup Words
Idle == [op |-> "none", rest |-> <<>>, found |-> <<>>]
Names(variables) == SelectSeq(NameOrder, LAMBDA n : n \in DOMAIN variables)

\* read_config_file_data: a later line replaces an earlier one.
FileData(data, lines) ==
  [n \in DOMAIN data \cup {lines[i][1] : i \in DOMAIN lines} |->
     LET at == {i \in DOMAIN lines : lines[i][1] = n} IN IF at = {} THEN data[n] ELSE lines[Max(at)][2]]
KeysOf(lines) == [i \in DOMAIN lines |-> lines[i][1]]
NoData == [n \in {} |-> {}]
Opened(userFile) == FileData(FileData(NoData, DefaultFile), userFile)

\* What a look-up finds for a variable that is new.
FirstValue(data, n) == IF n \in DOMAIN data /\ data[n] \in ValuesOf(n) THEN data[n] ELSE DefaultOf[n]

Open(userFile) ==
  /\ csVariable = [n \in {} |-> {}]
  /\ csData = Opened(userFile) /\ csKeys = KeysOf(userFile)
  /\ csThread = [t \in ConfigThreads |-> Idle] /\ csUserFile = userFile
  /\ csSeen = [n \in {} |-> {}] /\ csQuiet = {} /\ csSession = "open"

CsInit == \E userFile \in UserFiles : Open(userFile)

ConfigMutexFree == \A t \in ConfigThreads : csThread[t].op = "none"
Free(t) == csSession = "open" /\ csThread[t].op = "none"
Saw(n, value) == [m \in DOMAIN csSeen |-> IF m = n THEN csSeen[m] \cup {value} ELSE csSeen[m]]

(***************************************************************************)
(* Variables                                                               *)
(***************************************************************************)

Resolve(t, n) ==
  /\ Free(t) /\ ConfigMutexFree /\ n \notin DOMAIN csVariable
  /\ LET value == FirstValue(csData, n)
     IN /\ csVariable' = [m \in DOMAIN csVariable \cup {n} |-> IF m = n THEN [value |-> value, dirty |-> FALSE] ELSE csVariable[m]]
        /\ csSeen' = [m \in DOMAIN csSeen \cup {n} |-> IF m = n THEN {value} ELSE csSeen[m]]
  /\ UNCHANGED <<csData, csKeys, csThread, csUserFile, csQuiet, csSession>>

MutantAssigned(var, value) == [var EXCEPT !.value = value]

Assigned(var, value) == [var EXCEPT !.value = value, !.dirty = TRUE]

SetValue(t, n, value) ==
  /\ Free(t) /\ n \in DOMAIN csVariable /\ value \in ValuesOf(n)
  /\ csVariable' = [csVariable EXCEPT ![n] = Assigned(@, value)]
  /\ csSeen' = Saw(n, value)
  /\ UNCHANGED <<csData, csKeys, csThread, csUserFile, csQuiet, csSession>>

\* do_transaction does not mark the variable.
DoTransaction(t, n, value) ==
  /\ Free(t) /\ n \in DOMAIN csVariable /\ value \in ValuesOf(n)
  /\ csVariable' = [csVariable EXCEPT ![n].value = value]
  /\ csSeen' = Saw(n, value) /\ csQuiet' = IF csVariable[n].dirty THEN csQuiet ELSE csQuiet \cup {n}
  /\ UNCHANGED <<csData, csKeys, csThread, csUserFile, csSession>>

(***************************************************************************)
(* Saving, with the mutex of the store, while variables are assigned       *)
(***************************************************************************)

\* All but those that a transaction changed without marking them.
Written == {n \in DOMAIN csVariable : n \in csQuiet => csVariable[n].dirty \/ Contains(csKeys, n)}

\* save(), and the destructor, which nobody disturbs.
SaveBegins(t) ==
  /\ Free(t) /\ ConfigMutexFree
  /\ csThread' = [csThread EXCEPT ![t] = [@ EXCEPT !.op = "saveDirty", !.rest = Names(csVariable), !.found = <<>>]]
  /\ csSeen' = [n \in Written |-> {csVariable[n].value}]
  /\ UNCHANGED <<csVariable, csData, csKeys, csUserFile, csQuiet, csSession>>

DestructorSaves(t) ==
  /\ csSession = "open" /\ \A u \in ConfigThreads : csThread[u].op = "none"
  /\ csSession' = "closing"
  /\ csThread' = [csThread EXCEPT ![t] = [@ EXCEPT !.op = "saveDirty", !.rest = Names(csVariable), !.found = <<>>]]
  /\ csSeen' = [n \in Written |-> {csVariable[n].value}]
  /\ UNCHANGED <<csVariable, csData, csKeys, csUserFile, csQuiet>>

Unlisted(n) == csVariable[n].dirty /\ ~Contains(csKeys, n)

\* to_string_data: one variable after the other is asked whether it was modified, ...
LookForNewKey(t) ==
  /\ csThread[t].op = "saveDirty" /\ csThread[t].rest # <<>>
  /\ LET n == Head(csThread[t].rest)
     IN csThread' = [csThread EXCEPT ![t].rest = Tail(@), ![t].found = IF Unlisted(n) THEN Append(@, n) ELSE @]
  /\ UNCHANGED <<csVariable, csData, csKeys, csUserFile, csSeen, csQuiet, csSession>>

AddNewKeys(t) ==
  /\ csThread[t].op = "saveDirty" /\ csThread[t].rest = <<>>
  /\ csKeys' = csKeys \o csThread[t].found
  /\ csThread' = [csThread EXCEPT ![t] = [@ EXCEPT !.op = "saveValues", !.rest = Names(csVariable), !.found = <<>>]]
  /\ UNCHANGED <<csVariable, csData, csUserFile, csSeen, csQuiet, csSession>>

\* ... and then for its value.
FormatValue(t) ==
  /\ csThread[t].op = "saveValues" /\ csThread[t].rest # <<>>
  /\ LET n == Head(csThread[t].rest)
     IN csData' = [m \in DOMAIN csData \cup {n} |-> IF m = n THEN csVariable[n].value ELSE csData[m]]
  /\ csThread' = [csThread EXCEPT ![t].rest = Tail(@)]
  /\ UNCHANGED <<csVariable, csKeys, csUserFile, csSeen, csQuiet, csSession>>

\* A key without data is an empty line.
WriteLines(t) ==
  /\ csThread[t].op = "saveValues" /\ csThread[t].rest = <<>>
  /\ LET written == SelectSeq(csKeys, LAMBDA n : n \in DOMAIN csData)
     IN csUserFile' = [i \in DOMAIN written |-> <<written[i], csData[written[i]]>>]
  /\ csThread' = [csThread EXCEPT ![t] = Idle]
  /\ csSession' = IF csSession = "closing" THEN "closed" ELSE csSession
  /\ UNCHANGED <<csVariable, csData, csKeys, csSeen, csQuiet>>

(***************************************************************************)
(* Reloading, and the next session                                         *)
(***************************************************************************)

\* The keys of the old user file stay, and so do the variables that neither file names.
Reload(t, userFile) ==
  /\ Free(t) /\ ConfigMutexFree /\ Len(csKeys) <= MaxKeys
  /\ csData' = Opened(userFile) /\ csKeys' = csKeys \o KeysOf(userFile) /\ csUserFile' = userFile
  /\ csThread' = [csThread EXCEPT ![t] = [@ EXCEPT !.op = "reload", !.rest = Names(csVariable)]]
  /\ csSeen' = [n \in {} |-> {}]
  /\ UNCHANGED <<csVariable, csQuiet, csSession>>

\* parse_data assigns through the property of the users: the variable is marked.
ParseVariable(t) ==
  /\ csThread[t].op = "reload" /\ csThread[t].rest # <<>>
  /\ LET n == Head(csThread[t].rest)
     IN IF n \in DOMAIN csData /\ csData[n] \in ValuesOf(n)
        THEN /\ csVariable' = [csVariable EXCEPT ![n] = Assigned(@, csData[n])]
        ELSE UNCHANGED csVariable
  /\ csThread' = [csThread EXCEPT ![t].rest = Tail(@)]
  /\ UNCHANGED <<csData, csKeys, csUserFile, csSeen, csQuiet, csSession>>

Reloaded(t) ==
  /\ csThread[t].op = "reload" /\ csThread[t].rest = <<>>
  /\ csThread' = [csThread EXCEPT ![t] = Idle]
  /\ UNCHANGED <<csVariable, csData, csKeys, csUserFile, csSeen, csQuiet, csSession>>

\* The process starts again with the file that was written, also after it stopped without the destructor.
Restart ==
  /\ \A t \in ConfigThreads : csThread[t].op \notin {"saveValues", "saveDirty"}
  /\ csVariable' = [n \in {} |-> {}]
  /\ csData' = Opened(csUserFile) /\ csKeys' = KeysOf(csUserFile)
  /\ csThread' = [t \in ConfigThreads |-> Idle] /\ UNCHANGED csUserFile
  /\ csSeen' = [n \in {} |-> {}] /\ csQuiet' = {} /\ csSession' = "open"

CsNext ==
  \/ Restart
  \/ \E t \in ConfigThreads :
       \/ \E n \in VariableNames : Resolve(t, n)
       \/ \E n \in VariableNames : \E value \in Numbers \cup Words : SetValue(t, n, value) \/ DoTransaction(t, n, value)
       \/ \E userFile \in UserFiles : Reload(t, userFile)
       \/ SaveBegins(t) \/ DestructorSaves(t) \/ LookForNewKey(t) \/ AddNewKeys(t) \/ FormatValue(t) \/ WriteLines(t)
       \/ ParseVariable(t) \/ Reloaded(t)

(***************************************************************************)
(* Properties                                                              *)
(***************************************************************************)

\* What is looked up in the next session, with the type and the default of this one, is a value that the
\* variable had while or after it was saved last, though it was assigned meanwhile, or though no destructor
\* ran. Only a change by a transaction, which does not mark the variable, may be lost.
SavedComesBack ==
  ConfigMutexFree =>
    \A n \in DOMAIN csSeen :
      FirstValue(Opened(csUserFile), n) \in csSeen[n]

\* After the destructor the file has the last value of all that was assigned, whichever saves and reloads ran
\* before and whatever was assigned while they did.
AssignedIsWritten ==
  csSession = "closed" =>
    \A n \in DOMAIN csVariable : csVariable[n].dirty => \E i \in DOMAIN csUserFile : csUserFile[i] = <<n, csVariable[n].value>>

ConfigSafe == SavedComesBack /\ AssignedIsWritten
=============================================================================
