----------------------------- MODULE SyncTools -----------------------------
(***************************************************************************)
(* The tools threads share: the message_queue and the actor on top of it,  *)
(* the monitor, copy_on_write over one, the local_function that holds a    *)
(* functor in its own storage, and the lock_ptr_wrapper that holds a lock  *)
(* and its object. Each has its own variables. What a thread does under a  *)
(* spin_lock is one step, as the lock admits one thread.                   *)
(***************************************************************************)
EXTENDS Integers, Sequences, FiniteSets, SequencesExt, FiniteSetsExt

CONSTANTS
  QueueThreads, MaxMessages,        \* bound: messages that are pushed
  MaxSpuriousWakes,                 \* bound: waits that end without a notification
  MonitorThreads, FirstValueIn,     \* what each thread and the monitor have first
  CowThreads, Versions, MaxWrites,  \* the memory for versions; bound: transactions
  Wrappers, Functors, NoFunctor,
  LockHolders, Lockables, NoLockable

ASSUME SyncToolsAssumption ==
  /\ {MaxMessages, MaxSpuriousWakes, MaxWrites} \subseteq Nat
  /\ IsFiniteSet(QueueThreads)
  /\ \A x \in MonitorThreads \cup {"monitor"} :
       FirstValueIn[x] # NoFunctor /\ \A y \in MonitorThreads \cup {"monitor"} : x # y => FirstValueIn[x] # FirstValueIn[y]
  /\ Versions \subseteq Nat \ {0} /\ 1 \in Versions
  /\ "monitor" \notin MonitorThreads
  /\ NoFunctor \notin Functors
  /\ NoLockable \notin Lockables

VARIABLES
  mqQueue,    \* queue
  mqThread,   \* what each thread does with the queue
  mqPushed,   \* history: how many messages there were
  mqTaken,    \* history: the messages in the order they left the queue
  mqSpurious, \* how many waits ended by themselves
  mnValue,    \* value of the monitor
  mnHas,      \* thread -> the value it has, or NoFunctor when it gave it away
  mnExpected, \* thread -> what it read last
  mnGone,     \* the values that were destroyed
  cwCurrent,  \* the version that ptr names
  cwValue,    \* version -> the transactions that are applied in it
  cwThread,   \* old_ptr and new_ptr of each thread, and a version it reads
  cwDone,     \* history: transactions that returned
  lfStorage,  \* wrapper -> the functor that lives in storage
  lfSet,      \* the wrappers whose function_obj is set
  lfBroken,   \* history: a functor was built over another, or taken from an empty storage
  lkHolder,   \* wrapper -> ptr_ and guard_
  lkLocked,   \* the objects that are locked
  lkOwned,    \* the objects that somebody else owns too
  lkBroken    \* history: an object was unlocked that was gone or not locked

mqVars == <<mqQueue, mqThread, mqPushed, mqTaken, mqSpurious>>
mnVars == <<mnValue, mnHas, mnExpected, mnGone>>
cwVars == <<cwCurrent, cwValue, cwThread, cwDone>>
lfVars == <<lfStorage, lfSet, lfBroken>>
lkVars == <<lkHolder, lkLocked, lkOwned, lkBroken>>

(***************************************************************************)
(* message_queue, and actor::process, which takes until there is nothing   *)
(***************************************************************************)

MqInit ==
  /\ mqQueue = <<>> /\ mqPushed = 0 /\ mqTaken = <<>> /\ mqSpurious = 0
  /\ mqThread = [t \in QueueThreads |-> "free"]

InQueue(state) == {t \in QueueThreads : mqThread[t] = state}

MutantPending(queue) == queue = <<>>

\* Whether an element that is pushed needs a notification: it always does.
NeedsNotify(queue) == TRUE

\* A thread pushes; an action that an actor runs may push, too. The notification comes after the lock.
Push(t) ==
  /\ mqThread[t] \in {"free", "acting"} /\ mqPushed < MaxMessages
  /\ mqQueue' = Append(mqQueue, mqPushed + 1) /\ mqPushed' = mqPushed + 1
  /\ mqThread' = [mqThread EXCEPT ![t] = IF ~NeedsNotify(mqQueue) THEN @ ELSE IF @ = "free" THEN "notify" ELSE "acting notify"]
  /\ UNCHANGED <<mqTaken, mqSpurious>>

NotifyOne(t) ==
  /\ mqThread[t] \in {"notify", "acting notify"}
  /\ LET awake == [mqThread EXCEPT ![t] = IF @ = "notify" THEN "free" ELSE "acting"]
     IN IF InQueue("asleep") = {} THEN mqThread' = awake
        ELSE \E s \in InQueue("asleep") : mqThread' = [awake EXCEPT ![s] = "woken"]
  /\ UNCHANGED <<mqQueue, mqPushed, mqTaken, mqSpurious>>

TakeFront == mqQueue' = Tail(mqQueue) /\ mqTaken' = Append(mqTaken, Head(mqQueue))

\* pop: the predicate is evaluated under the lock, and again after each wait.
PopFront(t) ==
  /\ mqThread[t] \in {"free", "woken"}
  /\ IF mqQueue = <<>>
     THEN mqThread' = [mqThread EXCEPT ![t] = "asleep"] /\ UNCHANGED <<mqQueue, mqTaken>>
     ELSE TakeFront /\ mqThread' = [mqThread EXCEPT ![t] = "free"]
  /\ UNCHANGED <<mqPushed, mqSpurious>>

WakeSpuriously(t) ==
  /\ mqThread[t] = "asleep" /\ mqSpurious < MaxSpuriousWakes
  /\ mqThread' = [mqThread EXCEPT ![t] = "woken"] /\ mqSpurious' = mqSpurious + 1
  /\ UNCHANGED <<mqQueue, mqPushed, mqTaken>>

\* actor::process: try_pop, and the action, again and again.
TryPop(t) ==
  /\ mqThread[t] \in {"free", "acting"}
  /\ IF mqQueue = <<>>
     THEN mqThread[t] = "acting" /\ mqThread' = [mqThread EXCEPT ![t] = "free"] /\ UNCHANGED <<mqQueue, mqTaken>>
     ELSE TakeFront /\ mqThread' = [mqThread EXCEPT ![t] = "acting"]
  /\ UNCHANGED <<mqPushed, mqSpurious>>

MqNext == \E t \in QueueThreads : Push(t) \/ NotifyOne(t) \/ PopFront(t) \/ WakeSpuriously(t) \/ TryPop(t)

MqSpec == MqInit /\ [][MqNext]_mqVars

Awake == InQueue("woken") \cup InQueue("notify") \cup InQueue("acting notify")

QueueTypeOK ==
  /\ mqThread \in [QueueThreads -> {"free", "acting", "notify", "acting notify", "asleep", "woken"}]
  /\ mqQueue \in Seq(Nat) /\ mqTaken \in Seq(Nat) /\ mqPushed \in Nat

\* Each message has the place that its number says, counted from the first that was pushed.
MessagesInPlace ==
  /\ Len(mqTaken) + Len(mqQueue) = mqPushed
  /\ \A i \in 1 .. Len(mqTaken) : mqTaken[i] = i
  /\ \A i \in 1 .. Len(mqQueue) : mqQueue[i] = Len(mqTaken) + i

\* While somebody sleeps, each message that waits has a thread that is awake for it: who pushed it and is about to
\* notify, or whom a notification woke.
SleepersServed == InQueue("asleep") # {} => Len(mqQueue) <= Cardinality(Awake)

QueueInv == QueueTypeOK /\ MessagesInPlace /\ SleepersServed

\* Messages leave in the order they came, each once; and while somebody sleeps in pop, for every message that
\* waits somebody else is awake who takes it or is about to notify.
QueueSafe ==
  /\ mqTaken \o mqQueue = [i \in 1 .. mqPushed |-> i]
  /\ SleepersServed

(***************************************************************************)
(* monitor, with values that are moved into it                             *)
(***************************************************************************)

MnInit ==
  /\ mnHas = [t \in MonitorThreads |-> FirstValueIn[t]] /\ mnValue = FirstValueIn["monitor"]
  /\ mnExpected = [t \in MonitorThreads |-> mnValue] /\ mnGone = {}

\* The value that was there goes to the local variable, whose destructor runs after the lock is given back.
SwapIn(t) == mnValue' = mnHas[t] /\ mnGone' = mnGone \cup {mnValue} /\ mnHas' = [mnHas EXCEPT ![t] = NoFunctor]

StoreValue(t) == mnHas[t] # NoFunctor /\ SwapIn(t) /\ UNCHANGED mnExpected

LoadValue(t) == mnExpected' = [mnExpected EXCEPT ![t] = mnValue] /\ UNCHANGED <<mnValue, mnHas, mnGone>>

\* What each thread has after it exchanged its value for the one of the monitor.
Taken(t) == [mnHas EXCEPT ![t] = mnValue]

ExchangeValue(t) ==
  /\ mnHas[t] # NoFunctor /\ mnValue' = mnHas[t] /\ mnHas' = Taken(t)
  /\ UNCHANGED <<mnExpected, mnGone>>

\* On failure the desired value, which was moved into a local variable, is lost, too.
CompareExchangeValue(t) ==
  /\ mnHas[t] # NoFunctor
  /\ IF mnExpected[t] = mnValue THEN SwapIn(t) /\ UNCHANGED mnExpected
     ELSE /\ mnExpected' = [mnExpected EXCEPT ![t] = mnValue]
          /\ mnGone' = mnGone \cup {mnHas[t]} /\ mnHas' = [mnHas EXCEPT ![t] = NoFunctor]
          /\ UNCHANGED mnValue

MnNext == \E t \in MonitorThreads : StoreValue(t) \/ LoadValue(t) \/ ExchangeValue(t) \/ CompareExchangeValue(t)

MnSpec == MnInit /\ [][MnNext]_mnVars

\* The monitor always has a value; a thread's is gone from everywhere else.
ValuesInv ==
  /\ mnHas = [t \in MonitorThreads |-> mnHas[t]]
  /\ mnValue # NoFunctor /\ NoFunctor \notin mnGone /\ mnValue \notin mnGone
  /\ \A t \in MonitorThreads : mnHas[t] # mnValue /\ mnHas[t] \notin mnGone
  /\ \A t, u \in MonitorThreads : mnHas[t] = mnHas[u] /\ mnHas[t] # NoFunctor => t = u

\* Each value is in one place: with a thread, in the monitor, or destroyed.
ValuesSafe ==
  /\ mnValue \notin mnGone \cup Range(mnHas)
  /\ Range(mnHas) \cap mnGone = {}
  /\ \A t, u \in MonitorThreads : mnHas[t] = mnHas[u] /\ mnHas[t] # NoFunctor => t = u

(***************************************************************************)
(* copy_on_write over monitor<shared_ptr>                                  *)
(***************************************************************************)

NoWrite == [old |-> 0, new |-> 0, wrote |-> 0]

CwInit ==
  /\ cwCurrent = 1 /\ cwValue = [v \in Versions |-> {}] /\ cwDone = {}
  /\ cwThread = [t \in CowThreads |-> [write |-> NoWrite, reads |-> 0, seen |-> {}]]

\* A version lives while a shared_ptr names it; its memory is used again after that.
Named == {cwCurrent} \cup UNION {{cwThread[t].write.old, cwThread[t].write.new, cwThread[t].reads} : t \in CowThreads}

\* Nobody else has the copy; it is made anywhere where memory is free, so an address may come back.
BeginTransaction(t) ==
  /\ cwThread[t].write = NoWrite /\ Cardinality(cwDone) < MaxWrites
  /\ \E copy \in Versions \ Named : cwThread' = [cwThread EXCEPT ![t].write = [old |-> cwCurrent, new |-> copy, wrote |-> 0]]
  /\ UNCHANGED <<cwCurrent, cwValue, cwDone>>

\* What the function of a thread adds to a version: which of its transactions it is.
NextWrite(t) == <<t, Cardinality({d \in cwDone : d[1] = t})>>

\* The version that the function is applied to: a copy of the one that was current.
FreshCopy(old, new) == old

ApplyWrite(t) ==
  /\ cwThread[t].write # NoWrite /\ cwThread[t].write.wrote = 0
  /\ LET w == cwThread[t].write
     IN cwValue' = [cwValue EXCEPT ![w.new] = cwValue[FreshCopy(w.old, w.new)] \cup {NextWrite(t)}]
  /\ cwThread' = [cwThread EXCEPT ![t].write.wrote = 1]
  /\ UNCHANGED <<cwCurrent, cwDone>>

\* compare_exchange_strong: the pointers are compared. On failure the current version becomes the old one.
CompareExchange(t) ==
  /\ cwThread[t].write.wrote = 1
  /\ LET w == cwThread[t].write
     IN IF w.old = cwCurrent
        THEN /\ cwCurrent' = w.new
             /\ cwDone' = cwDone \cup {NextWrite(t)}
             /\ cwThread' = [cwThread EXCEPT ![t].write = NoWrite]
        ELSE /\ cwThread' = [cwThread EXCEPT ![t].write = [w EXCEPT !.old = cwCurrent, !.wrote = 0]]
             /\ UNCHANGED <<cwCurrent, cwDone>>
  /\ UNCHANGED cwValue

GetVersion(t) ==
  /\ cwThread[t].write = NoWrite
  /\ cwThread' = [cwThread EXCEPT ![t] = [write |-> NoWrite, reads |-> cwCurrent, seen |-> cwValue[cwCurrent]]]
  /\ UNCHANGED <<cwCurrent, cwValue, cwDone>>

CwNext == \E t \in CowThreads : BeginTransaction(t) \/ ApplyWrite(t) \/ CompareExchange(t) \/ GetVersion(t)

CwSpec == CwInit /\ [][CwNext]_cwVars

Writes(t) == cwThread[t].write # NoWrite

VersionsTypeOK ==
  /\ cwCurrent \in Versions /\ DOMAIN cwValue = Versions
  /\ cwThread = [t \in CowThreads |-> [write |-> cwThread[t].write, reads |-> cwThread[t].reads, seen |-> cwThread[t].seen]]
  /\ \A t \in CowThreads :
       /\ cwThread[t].reads \in Versions \cup {0}
       /\ cwThread[t].write \in {NoWrite} \cup [old : Versions, new : Versions, wrote : {0, 1}]

\* A copy is named by the thread that made it and by nobody else, so no version that another names changes.
CopiesOwn ==
  \A t \in CowThreads : Writes(t) =>
    /\ cwThread[t].write.new \notin {cwCurrent, cwThread[t].write.old, cwThread[t].reads}
    /\ \A u \in CowThreads \ {t} :
         cwThread[t].write.new \notin {cwThread[u].write.old, cwThread[u].write.new, cwThread[u].reads}

\* Once the function ran, a copy is the version it was made of, which is still what it was, and one write.
CopiesFresh ==
  \A t \in CowThreads : cwThread[t].write.wrote = 1 =>
    cwValue[cwThread[t].write.new] = cwValue[cwThread[t].write.old] \cup {NextWrite(t)}

VersionsInv == VersionsTypeOK /\ CopiesOwn /\ CopiesFresh

\* The current version has what all transactions that returned did, and nothing else; what a reader holds does
\* not change under it.
VersionsSafe ==
  /\ cwValue[cwCurrent] = cwDone
  /\ \A t \in CowThreads : cwThread[t].reads # 0 => cwValue[cwThread[t].reads] = cwThread[t].seen

(***************************************************************************)
(* local_function                                                          *)
(***************************************************************************)

LfInit == lfStorage = [w \in Wrappers |-> NoFunctor] /\ lfSet = {} /\ lfBroken = FALSE

\* The steps of an operation, on a record of the storages, the set wrappers and whether something broke.
Storages == [storage |-> lfStorage, set |-> lfSet, broken |-> lfBroken]
ResetFunction(s, w) ==
  IF w \in s.set THEN [s EXCEPT !.storage[w] = NoFunctor, !.set = @ \ {w}, !.broken = @ \/ s.storage[w] = NoFunctor] ELSE s
BuildFunction(s, w, f) ==
  [storage |-> [s.storage EXCEPT ![w] = f], set |-> s.set \cup {w},
   broken |-> s.broken \/ s.storage[w] # NoFunctor \/ f = NoFunctor]

\* function_obj.reset() before the storage is used again.
Cleared(s, w) == ResetFunction(s, w)

Becomes(s) == lfStorage' = s.storage /\ lfSet' = s.set /\ lfBroken' = s.broken

\* From a functor; it may not fit after it is aligned, or its constructor may throw: the wrapper is empty then.
AssignFunctor(w, f, fails) ==
  Becomes(IF fails THEN Cleared(Storages, w) ELSE BuildFunction(Cleared(Storages, w), w, f))

\* What the copying and the moving constructors leave, for wrappers of the same size or a smaller one.
Transferred(s, w, from, moved) ==
  LET built == BuildFunction(s, w, s.storage[from])
  IN IF moved THEN ResetFunction(built, from) ELSE built

\* From another wrapper, copying or moving; a wrapper that is moved from is empty unless it threw.
AssignWrapper(w, from, moved, fails) ==
  /\ w # from
  /\ IF from \notin lfSet THEN Becomes(ResetFunction(Storages, w))
     ELSE LET cleared == Cleared(Storages, w)
              IN Becomes(IF fails THEN cleared ELSE Transferred(cleared, w, from, moved))

LfNext ==
  \E w \in Wrappers : \E fails \in BOOLEAN :
    \/ \E f \in Functors : AssignFunctor(w, f, fails)
    \/ \E from \in Wrappers : \E moved \in BOOLEAN : AssignWrapper(w, from, moved, fails)

LfSpec == LfInit /\ [][LfNext]_lfVars

\* A functor is built where none lives and destroyed once, and what a wrapper calls lives in its own storage.
FunctorsSafe ==
  /\ lfStorage \in [Wrappers -> Functors \cup {NoFunctor}] /\ lfSet \subseteq Wrappers
  /\ ~lfBroken /\ \A w \in Wrappers : w \in lfSet <=> lfStorage[w] # NoFunctor

(***************************************************************************)
(* lock_ptr_wrapper                                                        *)
(***************************************************************************)

LkInit ==
  /\ lkHolder = [h \in LockHolders |-> [owns |-> NoLockable, guards |-> NoLockable]]
  /\ lkLocked = {} /\ lkOwned = Lockables /\ lkBroken = FALSE

LkAlive(holders, owned) == owned \cup ({holders[h].owns : h \in LockHolders} \ {NoLockable})

\* The blocking constructor waits; with try_to_lock the wrapper stays empty when the object is locked.
LockObject(h, o) ==
  /\ lkHolder[h].owns = NoLockable /\ o \in lkOwned \ lkLocked
  /\ lkHolder' = [lkHolder EXCEPT ![h] = [owns |-> o, guards |-> o]] /\ lkLocked' = lkLocked \cup {o}
  /\ UNCHANGED <<lkOwned, lkBroken>>

\* The move constructor, and the move assignment to an empty wrapper.
MoveHolder(h, from) ==
  /\ h # from /\ lkHolder[h].owns = NoLockable /\ lkHolder[from].owns # NoLockable
  /\ lkHolder' = [lkHolder EXCEPT ![h] = lkHolder[from], ![from] = [owns |-> NoLockable, guards |-> NoLockable]]
  /\ UNCHANGED <<lkLocked, lkOwned, lkBroken>>

\* What there is when the object is unlocked: the destructor does it before it gives the object up.
AtUnlock(holders, h) == holders

DropHolder(h) ==
  /\ lkHolder[h].owns # NoLockable
  /\ LET o == lkHolder[h].guards
     IN /\ lkBroken' = (lkBroken \/ o \notin lkLocked \/ o \notin LkAlive(AtUnlock(lkHolder, h), lkOwned))
        /\ lkLocked' = lkLocked \ {o}
  /\ lkHolder' = [lkHolder EXCEPT ![h] = [owns |-> NoLockable, guards |-> NoLockable]]
  /\ UNCHANGED lkOwned

GiveUpObject(o) ==
  /\ o \in lkOwned /\ lkOwned' = lkOwned \ {o}
  /\ UNCHANGED <<lkHolder, lkLocked, lkBroken>>

MakeObject(o) ==
  /\ o \notin LkAlive(lkHolder, lkOwned) /\ o \notin lkLocked /\ lkOwned' = lkOwned \cup {o}
  /\ UNCHANGED <<lkHolder, lkLocked, lkBroken>>

LkNext ==
  \/ \E h \in LockHolders : DropHolder(h) \/ (\E o \in Lockables : LockObject(h, o)) \/ \E from \in LockHolders : MoveHolder(h, from)
  \/ \E o \in Lockables : GiveUpObject(o) \/ MakeObject(o)

LkSpec == LkInit /\ [][LkNext]_lkVars

\* What a wrapper guards is what it owns, it is locked for it, and no other wrapper guards it.
LocksInv ==
  /\ lkHolder \in [LockHolders -> [owns : Lockables \cup {NoLockable}, guards : Lockables \cup {NoLockable}]]
  /\ lkLocked \subseteq Lockables /\ lkOwned \subseteq Lockables /\ lkBroken = FALSE
  /\ \A h \in LockHolders : lkHolder[h].owns = lkHolder[h].guards
  /\ lkLocked = {lkHolder[h].guards : h \in LockHolders} \ {NoLockable}
  /\ \A h, g \in LockHolders : lkHolder[h].guards = lkHolder[g].guards /\ lkHolder[h].guards # NoLockable => h = g

\* An object is unlocked once, while it lives, and while it is locked one wrapper has it.
LocksSafe ==
  /\ ~lkBroken
  /\ \A o \in lkLocked : Cardinality({h \in LockHolders : lkHolder[h].guards = o}) = 1

\* All of it holds at once: messages, values, versions, functors and locks are with one user each and not lost.
SyncSafe ==
  /\ QueueInv /\ QueueSafe
  /\ ValuesInv /\ ValuesSafe
  /\ VersionsInv /\ VersionsSafe
  /\ FunctorsSafe
  /\ LocksInv /\ LocksSafe

\* Programs use the tools side by side; none of them touches what another has.
SyncSpec == MqSpec /\ MnSpec /\ CwSpec /\ LfSpec /\ LkSpec
=============================================================================
