----------------------------- MODULE CoreProofs -----------------------------
(* Proofs about the pools, locks and queues of the core library, for any       *)
(* threads, objects and sizes.                                                 *)
EXTENDS SyncTools, BufferPools, SmartObjectPool, RingChunkPlacer, FiniteSetTheorems, SequenceTheorems, TLAPS

(***************************************************************************)
(* message_queue                                                           *)
(***************************************************************************)

\* A sequence with one element more.
LEMMA OneMoreElement ==
  ASSUME NEW S, NEW s \in Seq(S), NEW e \in S
  PROVE  /\ Append(s, e) \in Seq(S) /\ Len(s) \in Nat /\ Len(Append(s, e)) = Len(s) + 1
         /\ \A i \in 1 .. Len(s) : Append(s, e)[i] = s[i]
         /\ Append(s, e)[Len(s) + 1] = e
OBVIOUS

\* A sequence without its first element.
LEMMA FirstElementGone ==
  ASSUME NEW S, NEW s \in Seq(S), s # <<>>
  PROVE  /\ Tail(s) \in Seq(S) /\ Len(s) \in Nat /\ Len(Tail(s)) = Len(s) - 1
         /\ \A i \in 1 .. Len(s) - 1 : Tail(s)[i] = s[i + 1] /\ i + 1 \in 1 .. Len(s)
         /\ Head(s) = s[1] /\ 1 \in 1 .. Len(s) /\ Head(s) \in S
OBVIOUS

\* The threads that are awake are finitely many, as all threads are.
LEMMA AwakeFinite ==
  ASSUME NEW S, S \subseteq QueueThreads
  PROVE  IsFiniteSet(S) /\ Cardinality(S) \in Nat
BY FS_Subset, FS_CardinalityType, SyncToolsAssumption

\* A thread that wakes up makes one more that is awake.
LEMMA OneMoreAwake ==
  ASSUME NEW S, NEW T, S \subseteq QueueThreads, NEW t \in QueueThreads, t \notin S, T = S \cup {t}
  PROVE  Cardinality(T) = Cardinality(S) + 1
BY AwakeFinite, FS_AddElement

\* A thread that is no longer awake makes one less.
LEMMA OneLessAwake ==
  ASSUME NEW S, NEW T, S \subseteq QueueThreads, NEW t \in S, T = S \ {t}
  PROVE  Cardinality(T) = Cardinality(S) - 1
BY AwakeFinite, FS_RemoveElement

\* One wakes and one ceases to be awake: their number is the same.
LEMMA AwakeExchanged ==
  ASSUME NEW S, NEW T, S \subseteq QueueThreads, NEW t \in S, NEW s \in QueueThreads, s \notin S,
         T = (S \ {t}) \cup {s}
  PROVE  Cardinality(T) = Cardinality(S)
<1>1. Cardinality(S \ {t}) = Cardinality(S) - 1
  BY OneLessAwake
<1>2. Cardinality(T) = Cardinality(S \ {t}) + 1
  BY OneMoreAwake
<1> QED BY <1>1, <1>2, AwakeFinite

\* Places are counted on.
LEMMA PlacesCountOn == \A a, b \in Nat : (a + b) + 1 = a + (b + 1) /\ a + (b + 1) = (a + 1) + b
OBVIOUS

\* What the queue and the list of messages that were taken are.
LEMMA QueueTypes ==
  ASSUME QueueTypeOK
  PROVE  /\ mqQueue \in Seq(Nat) /\ mqTaken \in Seq(Nat) /\ mqPushed \in Nat /\ mqPushed + 1 \in Nat
         /\ Len(mqTaken) \in Nat /\ Len(mqQueue) \in Nat
<1>1. mqQueue \in Seq(Nat) /\ mqTaken \in Seq(Nat) /\ mqPushed \in Nat
  BY DEF QueueTypeOK
<1> QED BY <1>1

\* A message that is pushed takes the next place.
LEMMA PushKeepsPlaces ==
  ASSUME QueueTypeOK, MessagesInPlace,
         mqQueue' = Append(mqQueue, mqPushed + 1), mqPushed' = mqPushed + 1, mqTaken' = mqTaken
  PROVE  /\ MessagesInPlace' /\ mqQueue' \in Seq(Nat) /\ mqTaken' \in Seq(Nat) /\ mqPushed' \in Nat
         /\ Len(mqQueue) \in Nat /\ Len(mqQueue') = Len(mqQueue) + 1
<1>1. mqQueue \in Seq(Nat) /\ mqTaken \in Seq(Nat) /\ mqPushed + 1 \in Nat /\ mqPushed \in Nat /\ Len(mqTaken) \in Nat
  BY QueueTypes
<1>2. /\ mqQueue' \in Seq(Nat) /\ Len(mqQueue) \in Nat
      /\ Len(mqQueue') = Len(mqQueue) + 1
      /\ \A i \in 1 .. Len(mqQueue) : mqQueue'[i] = mqQueue[i]
      /\ mqQueue'[Len(mqQueue) + 1] = mqPushed + 1
  BY <1>1, OneMoreElement
<1>3. Len(mqTaken) + Len(mqQueue) = mqPushed /\ mqPushed + 1 = Len(mqTaken) + (Len(mqQueue) + 1)
  BY <1>1, <1>2, PlacesCountOn DEF MessagesInPlace
<1>4. ASSUME NEW i \in 1 .. Len(mqQueue') PROVE mqQueue'[i] = Len(mqTaken') + i
  <2>1. CASE i \in 1 .. Len(mqQueue)
    BY <1>2, <2>1 DEF MessagesInPlace
  <2>2. CASE i = Len(mqQueue) + 1
    <3>1. mqQueue'[i] = mqPushed + 1
      BY <1>2, <2>2
    <3>2. Len(mqTaken') = Len(mqTaken)
      OBVIOUS
    <3> QED BY <1>3, <2>2, <3>1, <3>2
  <2> QED BY <1>2, <2>1, <2>2
<1> QED BY <1>1, <1>2, <1>3, <1>4 DEF MessagesInPlace

\* Who takes the first message leaves the others in their places.
LEMMA TakeFrontKeepsPlaces ==
  ASSUME QueueTypeOK, MessagesInPlace, mqQueue # <<>>, TakeFront, mqPushed' = mqPushed
  PROVE  /\ MessagesInPlace' /\ mqQueue' \in Seq(Nat) /\ mqTaken' \in Seq(Nat) /\ mqPushed' \in Nat
         /\ Len(mqQueue) \in Nat /\ Len(mqQueue') = Len(mqQueue) - 1
<1>1. mqQueue \in Seq(Nat) /\ mqTaken \in Seq(Nat) /\ mqPushed \in Nat /\ Len(mqTaken) \in Nat
  BY QueueTypes
<1>2. mqQueue' = Tail(mqQueue) /\ mqTaken' = Append(mqTaken, Head(mqQueue))
  BY DEF TakeFront
<1>3. /\ mqQueue' \in Seq(Nat) /\ Len(mqQueue) \in Nat /\ Len(mqQueue') = Len(mqQueue) - 1
      /\ \A i \in 1 .. Len(mqQueue) - 1 : mqQueue'[i] = mqQueue[i + 1] /\ i + 1 \in 1 .. Len(mqQueue)
      /\ Head(mqQueue) = mqQueue[1] /\ 1 \in 1 .. Len(mqQueue) /\ Head(mqQueue) \in Nat
  BY <1>1, <1>2, FirstElementGone
<1>4. /\ mqTaken' \in Seq(Nat) /\ Len(mqTaken') = Len(mqTaken) + 1
      /\ \A i \in 1 .. Len(mqTaken) : mqTaken'[i] = mqTaken[i]
      /\ mqTaken'[Len(mqTaken) + 1] = Head(mqQueue)
  BY <1>1, <1>2, <1>3, OneMoreElement
<1>5. Head(mqQueue) = Len(mqTaken) + 1 /\ Len(mqTaken) + Len(mqQueue) = mqPushed
  BY <1>3 DEF MessagesInPlace
<1>6. ASSUME NEW i \in 1 .. Len(mqTaken') PROVE mqTaken'[i] = i
  <2>1. CASE i \in 1 .. Len(mqTaken)
    BY <1>4, <2>1 DEF MessagesInPlace
  <2>2. CASE i = Len(mqTaken) + 1
    BY <1>4, <1>5, <2>2
  <2> QED BY <1>1, <1>4, <2>1, <2>2
<1>7. ASSUME NEW i \in 1 .. Len(mqQueue') PROVE mqQueue'[i] = Len(mqTaken') + i
  <2>1. i \in 1 .. Len(mqQueue) - 1 /\ i \in Nat
    BY <1>3
  <2>2. mqQueue'[i] = mqQueue[i + 1] /\ i + 1 \in 1 .. Len(mqQueue)
    BY <1>3, <2>1
  <2>3. mqQueue[i + 1] = Len(mqTaken) + (i + 1)
    BY <2>2 DEF MessagesInPlace
  <2>4. Len(mqTaken') = Len(mqTaken) + 1
    BY <1>4
  <2>5. Len(mqTaken) + (i + 1) = (Len(mqTaken) + 1) + i
    BY <1>1, <2>1, PlacesCountOn
  <2>6. mqQueue'[i] = Len(mqTaken) + (i + 1) /\ Len(mqTaken) + (i + 1) = Len(mqTaken') + i
    BY <2>2, <2>3, <2>4, <2>5
  <2> QED BY <2>6
<1>8. (Len(mqTaken) + 1) + (Len(mqQueue) - 1) = mqPushed
  BY <1>1, <1>3, <1>5
<1>9. Len(mqTaken') + Len(mqQueue') = mqPushed'
  BY <1>3, <1>4, <1>8
<1> QED BY <1>1, <1>3, <1>4, <1>6, <1>7, <1>9 DEF MessagesInPlace

\* The threads of an action keep their states among those there are.
LEMMA QueueThreadStates ==
  ASSUME QueueTypeOK, NEW t \in QueueThreads,
         Push(t) \/ NotifyOne(t) \/ PopFront(t) \/ WakeSpuriously(t) \/ TryPop(t)
  PROVE  mqThread' \in [QueueThreads -> {"free", "acting", "notify", "acting notify", "asleep", "woken"}]
<1> USE DEF QueueTypeOK
<1>1. CASE Push(t)
  BY <1>1 DEF Push, NeedsNotify
<1>2. CASE NotifyOne(t)
  BY <1>2 DEF NotifyOne, InQueue
<1>3. CASE PopFront(t)
  BY <1>3 DEF PopFront
<1>4. CASE WakeSpuriously(t)
  BY <1>4 DEF WakeSpuriously
<1>5. CASE TryPop(t)
  BY <1>5 DEF TryPop
<1> QED BY <1>1, <1>2, <1>3, <1>4, <1>5

\* A push preserves the invariant: the thread that pushed is awake for its message.
LEMMA PushSafe ==
  ASSUME QueueInv, NEW t \in QueueThreads, Push(t)
  PROVE  QueueInv'
<1> USE DEF QueueInv
<1>1. /\ MessagesInPlace' /\ mqQueue' \in Seq(Nat) /\ mqTaken' \in Seq(Nat) /\ mqPushed' \in Nat
      /\ Len(mqQueue) \in Nat /\ Len(mqQueue') = Len(mqQueue) + 1
  BY PushKeepsPlaces DEF Push
<1>2. QueueTypeOK'
  BY <1>1, QueueThreadStates DEF QueueTypeOK
<1>3. InQueue("asleep")' # {} => InQueue("asleep") # {}
  BY DEF QueueTypeOK, Push, NeedsNotify, InQueue
<1>4. t \notin Awake /\ Awake \subseteq QueueThreads /\ Awake' = Awake \cup {t}
  BY DEF QueueTypeOK, Push, NeedsNotify, InQueue, Awake
<1>5. Cardinality(Awake') = Cardinality(Awake) + 1 /\ Cardinality(Awake) \in Nat
  BY <1>4, OneMoreAwake, AwakeFinite
<1>6. SleepersServed'
  BY <1>1, <1>3, <1>5 DEF SleepersServed
<1> QED BY <1>1, <1>2, <1>6

\* A notification preserves the invariant: who notified is replaced by who woke up.
LEMMA NotifyOneSafe ==
  ASSUME QueueInv, NEW t \in QueueThreads, NotifyOne(t)
  PROVE  QueueInv'
<1> USE DEF QueueInv
<1>1. QueueTypeOK'
  BY QueueThreadStates DEF QueueTypeOK, NotifyOne
<1>2. MessagesInPlace'
  BY DEF MessagesInPlace, NotifyOne
<1>3. SleepersServed'
  <2>1. CASE InQueue("asleep") = {}
    <3>1. InQueue("asleep")' = {}
      BY <2>1 DEF NotifyOne, InQueue, QueueTypeOK
    <3> QED BY <3>1 DEF SleepersServed
  <2>2. CASE InQueue("asleep") # {}
    <3> DEFINE awake == [mqThread EXCEPT ![t] = IF @ = "notify" THEN "free" ELSE "acting"]
    <3>1. PICK s \in InQueue("asleep") : mqThread' = [awake EXCEPT ![s] = "woken"]
      BY <2>2 DEF NotifyOne
    <3>2. s \in QueueThreads /\ mqThread[s] = "asleep" /\ s # t
      BY DEF InQueue, NotifyOne
    <3>3. /\ mqThread'[s] = "woken" /\ mqThread'[t] \in {"free", "acting"}
          /\ \A u \in QueueThreads \ {s, t} : mqThread'[u] = mqThread[u]
      BY <3>1, <3>2 DEF QueueTypeOK
    <3>4. t \in Awake /\ s \notin Awake /\ Awake \subseteq QueueThreads
      BY <3>2 DEF Awake, InQueue, NotifyOne
    <3>5. Awake' = (Awake \ {t}) \cup {s}
      BY <3>2, <3>3 DEF Awake, InQueue
    <3>6. Cardinality(Awake') = Cardinality(Awake)
      BY <3>2, <3>4, <3>5, AwakeExchanged
    <3>7. mqQueue' = mqQueue
      BY DEF NotifyOne
    <3> QED BY <2>2, <3>6, <3>7 DEF SleepersServed
  <2> QED BY <2>1, <2>2
<1> QED BY <1>1, <1>2, <1>3

\* pop preserves the invariant: who finds nothing and sleeps leaves nothing behind, and who was woken takes one.
LEMMA PopFrontSafe ==
  ASSUME QueueInv, NEW t \in QueueThreads, PopFront(t)
  PROVE  QueueInv'
<1> USE DEF QueueInv
<1>1. CASE mqQueue = <<>>
  <2>1. UNCHANGED <<mqQueue, mqTaken, mqPushed>> /\ Len(mqQueue') = 0
    BY <1>1 DEF PopFront
  <2>2. Awake' \subseteq QueueThreads
    BY DEF Awake, InQueue
  <2>3. Cardinality(Awake') \in Nat
    BY <2>2, AwakeFinite
  <2>4. QueueTypeOK' /\ MessagesInPlace'
    BY <2>1, QueueThreadStates DEF QueueTypeOK, MessagesInPlace
  <2>5. SleepersServed'
    BY <2>1, <2>3 DEF SleepersServed
  <2> QED BY <2>4, <2>5
<1>2. CASE mqQueue # <<>>
  <2>1. TakeFront /\ mqThread' = [mqThread EXCEPT ![t] = "free"] /\ mqPushed' = mqPushed
    BY <1>2 DEF PopFront
  <2>2. /\ MessagesInPlace' /\ mqQueue' \in Seq(Nat) /\ mqTaken' \in Seq(Nat) /\ mqPushed' \in Nat
        /\ Len(mqQueue) \in Nat /\ Len(mqQueue') = Len(mqQueue) - 1
    BY <1>2, <2>1, TakeFrontKeepsPlaces
  <2>3. Awake \subseteq QueueThreads /\ Awake' = Awake \ {t}
    BY <2>1 DEF Awake, InQueue, PopFront, QueueTypeOK
  <2>4. Awake' \subseteq QueueThreads
    BY <2>3
  <2>5. Cardinality(Awake) \in Nat /\ Cardinality(Awake') \in Nat
    BY <2>3, <2>4, AwakeFinite
  <2>6. Cardinality(Awake') >= Cardinality(Awake) - 1
    <3>1. CASE t \in Awake
      <4>1. Cardinality(Awake') = Cardinality(Awake) - 1
        BY <2>3, <3>1, OneLessAwake
      <4> QED BY <2>5, <4>1
    <3>2. CASE t \notin Awake
      <4>1. Awake' = Awake
        BY <2>3, <3>2
      <4> QED BY <2>5, <4>1
    <3> QED BY <3>1, <3>2
  <2>7. InQueue("asleep")' # {} => InQueue("asleep") # {}
    BY <2>1 DEF InQueue, QueueTypeOK
  <2>8. SleepersServed'
    BY <2>2, <2>5, <2>6, <2>7 DEF SleepersServed
  <2>9. QueueTypeOK'
    BY <2>2, QueueThreadStates DEF QueueTypeOK
  <2> QED BY <2>2, <2>8, <2>9
<1> QED BY <1>1, <1>2

\* A wait that ends by itself preserves the invariant.
LEMMA WakeSpuriouslySafe ==
  ASSUME QueueInv, NEW t \in QueueThreads, WakeSpuriously(t)
  PROVE  QueueInv'
<1> USE DEF QueueInv
<1>1. t \notin Awake /\ Awake \subseteq QueueThreads /\ Awake' = Awake \cup {t} /\ InQueue("asleep") # {}
  BY DEF WakeSpuriously, InQueue, Awake, QueueTypeOK
<1>2. Cardinality(Awake') = Cardinality(Awake) + 1 /\ Cardinality(Awake) \in Nat
  BY <1>1, OneMoreAwake, AwakeFinite
<1>3. QueueTypeOK' /\ MessagesInPlace'
  BY QueueThreadStates DEF QueueTypeOK, MessagesInPlace, WakeSpuriously
<1>4. Len(mqQueue) \in Nat /\ mqQueue' = mqQueue
  BY QueueTypes DEF WakeSpuriously
<1>5. SleepersServed'
  BY <1>1, <1>2, <1>4 DEF SleepersServed
<1> QED BY <1>3, <1>5

\* try_pop preserves the invariant: the thread stays awake, and there is less to do.
LEMMA TryPopSafe ==
  ASSUME QueueInv, NEW t \in QueueThreads, TryPop(t)
  PROVE  QueueInv'
<1> USE DEF QueueInv
<1>1. Awake' = Awake /\ Awake \subseteq QueueThreads /\ InQueue("asleep")' = InQueue("asleep")
  BY DEF TryPop, Awake, InQueue, QueueTypeOK
<1>2. Cardinality(Awake) \in Nat
  BY <1>1, AwakeFinite
<1>3. CASE mqQueue = <<>>
  <2>1. UNCHANGED <<mqQueue, mqTaken, mqPushed>>
    BY <1>3 DEF TryPop
  <2>2. QueueTypeOK' /\ MessagesInPlace'
    BY <2>1, QueueThreadStates DEF QueueTypeOK, MessagesInPlace
  <2>3. SleepersServed'
    BY <1>1, <2>1 DEF SleepersServed
  <2> QED BY <2>2, <2>3
<1>4. CASE mqQueue # <<>>
  <2>1. TakeFront /\ mqPushed' = mqPushed
    BY <1>4 DEF TryPop
  <2>2. /\ MessagesInPlace' /\ mqQueue' \in Seq(Nat) /\ mqTaken' \in Seq(Nat) /\ mqPushed' \in Nat
        /\ Len(mqQueue) \in Nat /\ Len(mqQueue') = Len(mqQueue) - 1
    BY <1>4, <2>1, TakeFrontKeepsPlaces
  <2>3. QueueTypeOK'
    BY <2>2, QueueThreadStates DEF QueueTypeOK
  <2>4. SleepersServed'
    BY <1>1, <1>2, <2>2 DEF SleepersServed
  <2> QED BY <2>2, <2>3, <2>4
<1> QED BY <1>3, <1>4

\* A message queue and an actor keep every message in its place, and whoever sleeps has somebody who will wake it.
LEMMA QueueInvariance == MqSpec => []QueueInv
<1>1. MqInit => QueueInv
  <2>1. ASSUME MqInit PROVE InQueue("asleep") = {}
    BY <2>1 DEF MqInit, InQueue
  <2> QED BY <2>1 DEF MqInit, QueueInv, QueueTypeOK, MessagesInPlace, SleepersServed
<1>2. QueueInv /\ [MqNext]_mqVars => QueueInv'
  <2> SUFFICES ASSUME QueueInv, [MqNext]_mqVars PROVE QueueInv'
    OBVIOUS
  <2>1. CASE MqNext
    BY <2>1, PushSafe, NotifyOneSafe, PopFrontSafe, WakeSpuriouslySafe, TryPopSafe DEF MqNext
  <2>2. CASE UNCHANGED mqVars
    BY <2>2 DEF mqVars, QueueInv, QueueTypeOK, MessagesInPlace, SleepersServed, InQueue, Awake
  <2> QED BY <2>1, <2>2
<1> QED BY <1>1, <1>2, PTL DEF MqSpec

\* What left the queue and what is in it are all the messages, in the order they came.
LEMMA QueueInvGivesSafe == QueueInv => QueueSafe
<1> SUFFICES ASSUME QueueInv PROVE mqTaken \o mqQueue = [i \in 1 .. mqPushed |-> i]
  BY DEF QueueInv, QueueSafe
<1> DEFINE all == mqTaken \o mqQueue
           numbers == [i \in 1 .. mqPushed |-> i]
<1>1. mqTaken \in Seq(Nat) /\ mqQueue \in Seq(Nat) /\ mqPushed \in Nat /\ Len(mqTaken) \in Nat /\ Len(mqQueue) \in Nat
  BY QueueTypes DEF QueueInv
<1>2. Len(mqTaken) + Len(mqQueue) = mqPushed
  BY DEF QueueInv, QueueTypeOK, MessagesInPlace
<1>3. /\ all \in Seq(Nat) /\ Len(all) = Len(mqTaken) + Len(mqQueue)
      /\ \A i \in 1 .. Len(mqTaken) + Len(mqQueue) :
            all[i] = IF i <= Len(mqTaken) THEN mqTaken[i] ELSE mqQueue[i - Len(mqTaken)]
  BY <1>1, ConcatProperties
<1>4. numbers \in Seq(Nat) /\ Len(numbers) = mqPushed
  BY <1>1
<1>5. ASSUME NEW i \in 1 .. mqPushed PROVE all[i] = i
  <2>1. CASE i <= Len(mqTaken)
    BY <1>1, <1>2, <1>3, <2>1 DEF QueueInv, MessagesInPlace
  <2>2. CASE ~(i <= Len(mqTaken))
    <3>1. i - Len(mqTaken) \in 1 .. Len(mqQueue)
      BY <1>1, <1>2, <2>2
    <3>2. mqQueue[i - Len(mqTaken)] = i
      BY <1>1, <3>1 DEF QueueInv, MessagesInPlace
    <3> QED BY <1>2, <1>3, <2>2, <3>2
  <2> QED BY <2>1, <2>2
<1>6. \A i \in 1 .. Len(all) : all[i] = numbers[i]
  BY <1>2, <1>3, <1>5
<1> HIDE DEF all, numbers
<1>7. all = numbers
  BY <1>2, <1>3, <1>4, <1>6, SeqEqual
<1> QED BY <1>7 DEF all, numbers

(***************************************************************************)
(* monitor                                                                 *)
(***************************************************************************)

\* Each operation of a monitor leaves every value in one place.
LEMMA MnStepSafe ==
  ASSUME ValuesInv, NEW t \in MonitorThreads,
         StoreValue(t) \/ LoadValue(t) \/ ExchangeValue(t) \/ CompareExchangeValue(t)
  PROVE  ValuesInv'
<1> USE DEF ValuesInv
<1>1. CASE LoadValue(t)
  BY <1>1 DEF LoadValue
<1>2. CASE ExchangeValue(t)
  BY <1>2 DEF ExchangeValue, Taken
<1>3. ASSUME mnHas[t] # NoFunctor, SwapIn(t) PROVE ValuesInv'
  BY <1>3 DEF SwapIn
<1>4. CASE StoreValue(t)
  BY <1>3, <1>4 DEF StoreValue
<1>5. CASE CompareExchangeValue(t)
  <2>1. CASE mnExpected[t] = mnValue
    BY <1>3, <1>5, <2>1 DEF CompareExchangeValue
  <2>2. CASE mnExpected[t] # mnValue
    BY <1>5, <2>2 DEF CompareExchangeValue
  <2> QED BY <2>1, <2>2
<1> QED BY <1>1, <1>2, <1>4, <1>5

\* The values of a monitor and of its threads stay apart.
LEMMA ValuesInvariance == MnSpec => []ValuesInv
<1>1. MnInit => ValuesInv
  BY SyncToolsAssumption DEF MnInit, ValuesInv
<1>2. ValuesInv /\ [MnNext]_mnVars => ValuesInv'
  <2> SUFFICES ASSUME ValuesInv, [MnNext]_mnVars PROVE ValuesInv'
    OBVIOUS
  <2>1. CASE MnNext
    BY <2>1, MnStepSafe DEF MnNext
  <2>2. CASE UNCHANGED mnVars
    BY <2>2 DEF mnVars, ValuesInv
  <2> QED BY <2>1, <2>2
<1> QED BY <1>1, <1>2, PTL DEF MnSpec

\* The invariant of the monitor says where each value is.
LEMMA ValuesInvGivesSafe == ValuesInv => ValuesSafe
<1> SUFFICES ASSUME ValuesInv PROVE ValuesSafe
  OBVIOUS
<1>1. DOMAIN mnHas = MonitorThreads /\ Range(mnHas) = {mnHas[t] : t \in MonitorThreads}
  BY DEF ValuesInv, Range
<1> QED BY <1>1 DEF ValuesInv, ValuesSafe

(***************************************************************************)
(* copy_on_write                                                           *)
(***************************************************************************)

\* A version that is named is the current one, or a thread writes it, writes what was it, or reads it.
LEMMA NamedVersions ==
  ASSUME NEW v, v \notin Named
  PROVE  /\ v # cwCurrent
         /\ \A t \in CowThreads : v # cwThread[t].write.old /\ v # cwThread[t].write.new /\ v # cwThread[t].reads
BY DEF Named

\* What one thread does leaves the records of the threads what they are, and those of the others as they were.
LEMMA OneThreadChanges ==
  ASSUME VersionsTypeOK, NEW t \in CowThreads, NEW w, NEW r, NEW n,
         cwThread' = [cwThread EXCEPT ![t] = [write |-> w, reads |-> r, seen |-> n]]
  PROVE  /\ cwThread' = [u \in CowThreads |-> [write |-> cwThread'[u].write, reads |-> cwThread'[u].reads, seen |-> cwThread'[u].seen]]
         /\ cwThread'[t].write = w /\ cwThread'[t].reads = r /\ cwThread'[t].seen = n
         /\ \A u \in CowThreads \ {t} : cwThread'[u] = cwThread[u]
<1>1. DOMAIN cwThread = CowThreads /\ \A u \in CowThreads :
        cwThread[u] = [write |-> cwThread[u].write, reads |-> cwThread[u].reads, seen |-> cwThread[u].seen]
  BY DEF VersionsTypeOK
<1>2. cwThread'[t] = [write |-> w, reads |-> r, seen |-> n] /\ \A u \in CowThreads \ {t} : cwThread'[u] = cwThread[u]
  BY <1>1
<1>3. \A u \in CowThreads : cwThread'[u] = [write |-> cwThread'[u].write, reads |-> cwThread'[u].reads, seen |-> cwThread'[u].seen]
  BY <1>1, <1>2
<1>4. cwThread' = [u \in CowThreads |-> cwThread'[u]]
  BY <1>1
<1>5. cwThread' = [u \in CowThreads |-> [write |-> cwThread'[u].write, reads |-> cwThread'[u].reads, seen |-> cwThread'[u].seen]]
  BY <1>3, <1>4
<1> QED BY <1>2, <1>5

\* A thread that changes only what it writes.
LEMMA OneWriteChanges ==
  ASSUME VersionsTypeOK, NEW t \in CowThreads, NEW w, cwThread' = [cwThread EXCEPT ![t].write = w]
  PROVE  /\ cwThread' = [u \in CowThreads |-> [write |-> cwThread'[u].write, reads |-> cwThread'[u].reads, seen |-> cwThread'[u].seen]]
         /\ cwThread'[t].write = w /\ cwThread'[t].reads = cwThread[t].reads /\ cwThread'[t].seen = cwThread[t].seen
         /\ \A u \in CowThreads \ {t} : cwThread'[u] = cwThread[u]
<1>1. [cwThread[t] EXCEPT !.write = w] = [write |-> w, reads |-> cwThread[t].reads, seen |-> cwThread[t].seen]
  BY DEF VersionsTypeOK
<1>2. cwThread' = [cwThread EXCEPT ![t] = [write |-> w, reads |-> cwThread[t].reads, seen |-> cwThread[t].seen]]
  BY <1>1
<1>3. DOMAIN cwThread = CowThreads /\ \A u \in CowThreads :
        cwThread[u] = [write |-> cwThread[u].write, reads |-> cwThread[u].reads, seen |-> cwThread[u].seen]
  BY DEF VersionsTypeOK
<1>4. /\ cwThread'[t] = [write |-> w, reads |-> cwThread[t].reads, seen |-> cwThread[t].seen]
      /\ \A u \in CowThreads \ {t} : cwThread'[u] = cwThread[u]
  BY <1>2, <1>3
<1>5. \A u \in CowThreads : cwThread'[u] = [write |-> cwThread'[u].write, reads |-> cwThread'[u].reads, seen |-> cwThread'[u].seen]
  BY <1>3, <1>4
<1>6. cwThread' = [u \in CowThreads |-> cwThread'[u]]
  BY <1>2, <1>3
<1>7. cwThread' = [u \in CowThreads |-> [write |-> cwThread'[u].write, reads |-> cwThread'[u].reads, seen |-> cwThread'[u].seen]]
  BY <1>5, <1>6
<1>8. cwThread'[t].write = w /\ cwThread'[t].reads = cwThread[t].reads /\ cwThread'[t].seen = cwThread[t].seen
  BY <1>4
<1> QED BY <1>4, <1>7, <1>8

\* The start of a transaction preserves the invariant: the copy is made where nobody names a version.
LEMMA BeginTransactionSafe ==
  ASSUME VersionsInv, VersionsSafe, NEW t \in CowThreads, BeginTransaction(t)
  PROVE  VersionsInv' /\ VersionsSafe'
<1> USE DEF VersionsInv
<1>1. PICK copy \in Versions \ Named :
        cwThread' = [cwThread EXCEPT ![t].write = [old |-> cwCurrent, new |-> copy, wrote |-> 0]]
  BY DEF BeginTransaction
<1>2. /\ copy # cwCurrent
      /\ \A u \in CowThreads : copy # cwThread[u].write.old /\ copy # cwThread[u].write.new /\ copy # cwThread[u].reads
  BY NamedVersions
<1>3. UNCHANGED <<cwCurrent, cwValue, cwDone>> /\ cwThread[t].write = NoWrite
  BY DEF BeginTransaction
<1> DEFINE w == [old |-> cwCurrent, new |-> copy, wrote |-> 0]
<1>4. /\ cwThread' = [u \in CowThreads |-> [write |-> cwThread'[u].write, reads |-> cwThread'[u].reads, seen |-> cwThread'[u].seen]]
      /\ cwThread'[t].write = w /\ cwThread'[t].reads = cwThread[t].reads /\ cwThread'[t].seen = cwThread[t].seen
      /\ \A u \in CowThreads \ {t} : cwThread'[u] = cwThread[u]
  BY <1>1, OneWriteChanges
<1>5. w \in [old : Versions, new : Versions, wrote : {0, 1}] /\ w.new = copy /\ w.old = cwCurrent /\ w.wrote = 0
  BY DEF VersionsTypeOK
<1> HIDE DEF w
<1>6. VersionsTypeOK'
  BY <1>3, <1>4, <1>5 DEF VersionsTypeOK, NoWrite
<1>7. CopiesOwn'
  BY <1>2, <1>3, <1>4, <1>5 DEF CopiesOwn, Writes, NoWrite
<1>8. CopiesFresh'
  <2>1. ASSUME NEW u \in CowThreads, cwThread'[u].write.wrote = 1
        PROVE  cwThread'[u] = cwThread[u] /\ NextWrite(u)' = NextWrite(u)
    BY <1>3, <1>4, <1>5, <2>1 DEF NextWrite
  <2> QED BY <1>3, <2>1 DEF CopiesFresh
<1>9. VersionsSafe'
  BY <1>3, <1>4 DEF VersionsSafe
<1> QED BY <1>6, <1>7, <1>8, <1>9

\* The function that a transaction applies preserves the invariant: it changes a version that nobody else names.
LEMMA ApplyWriteSafe ==
  ASSUME VersionsInv, VersionsSafe, NEW t \in CowThreads, ApplyWrite(t)
  PROVE  VersionsInv' /\ VersionsSafe'
<1> USE DEF VersionsInv
<1> DEFINE w == cwThread[t].write
           r == [w EXCEPT !.wrote = 1]
<1>1. w \in [old : Versions, new : Versions, wrote : {0, 1}] /\ Writes(t) /\ w.new # w.old
  BY DEF ApplyWrite, VersionsTypeOK, CopiesOwn, Writes
<1>2. /\ cwValue' = [cwValue EXCEPT ![w.new] = cwValue[w.old] \cup {NextWrite(t)}]
      /\ cwThread' = [cwThread EXCEPT ![t].write = r] /\ UNCHANGED <<cwCurrent, cwDone>>
  <2>1. [cwThread EXCEPT ![t].write.wrote = 1] = [cwThread EXCEPT ![t].write = r]
    OBVIOUS
  <2> QED BY <2>1 DEF ApplyWrite, FreshCopy
<1>3. /\ cwThread' = [u \in CowThreads |-> [write |-> cwThread'[u].write, reads |-> cwThread'[u].reads, seen |-> cwThread'[u].seen]]
      /\ cwThread'[t].write = r /\ cwThread'[t].reads = cwThread[t].reads /\ cwThread'[t].seen = cwThread[t].seen
      /\ \A u \in CowThreads \ {t} : cwThread'[u] = cwThread[u]
  BY <1>2, OneWriteChanges
<1>4. r \in [old : Versions, new : Versions, wrote : {0, 1}] /\ r.new = w.new /\ r.old = w.old
  BY <1>1
<1>5. /\ DOMAIN cwValue' = Versions
      /\ cwValue'[w.new] = cwValue[w.old] \cup {NextWrite(t)} /\ \A v \in Versions \ {w.new} : cwValue'[v] = cwValue[v]
  BY <1>1, <1>2 DEF VersionsTypeOK
<1>6. /\ w.new # cwCurrent /\ w.new # cwThread[t].reads
      /\ \A u \in CowThreads \ {t} : w.new # cwThread[u].write.old /\ w.new # cwThread[u].write.new /\ w.new # cwThread[u].reads
  BY <1>1 DEF CopiesOwn
<1>7. \A u \in CowThreads : NextWrite(u)' = NextWrite(u)
  BY <1>2 DEF NextWrite
<1> HIDE DEF w, r
<1>8. VersionsTypeOK'
  BY <1>2, <1>3, <1>4, <1>5 DEF VersionsTypeOK, NoWrite
<1>9. CopiesOwn'
  BY <1>1, <1>2, <1>3, <1>4, <1>6 DEF CopiesOwn, Writes, w
<1>10. CopiesFresh'
  <2> SUFFICES ASSUME NEW u \in CowThreads, cwThread'[u].write.wrote = 1
               PROVE  cwValue'[cwThread'[u].write.new] = cwValue'[cwThread'[u].write.old] \cup {NextWrite(u)}
    BY <1>7 DEF CopiesFresh
  <2>1. CASE u = t
    BY <1>1, <1>3, <1>4, <1>5, <2>1
  <2>2. CASE u # t
    <3>1. cwThread'[u].write = cwThread[u].write
      BY <1>3, <2>2
    <3>2. cwThread[u].write.new \in Versions \ {w.new} /\ cwThread[u].write.old \in Versions \ {w.new}
      BY <1>6, <2>2, <3>1 DEF VersionsTypeOK, NoWrite
    <3> QED BY <1>5, <3>1, <3>2 DEF CopiesFresh
  <2> QED BY <2>1, <2>2
<1>11. VersionsSafe'
  <2>1. cwValue'[cwCurrent'] = cwDone'
    BY <1>2, <1>5, <1>6 DEF VersionsSafe, VersionsTypeOK
  <2>2. ASSUME NEW u \in CowThreads, cwThread'[u].reads # 0 PROVE cwValue'[cwThread'[u].reads] = cwThread'[u].seen
    <3>1. cwThread'[u].reads = cwThread[u].reads /\ cwThread'[u].seen = cwThread[u].seen
      BY <1>3
    <3>2. cwThread[u].reads \in Versions \ {w.new}
      BY <1>6, <2>2, <3>1 DEF VersionsTypeOK
    <3> QED BY <1>5, <2>2, <3>1, <3>2 DEF VersionsSafe
  <2> QED BY <2>1, <2>2 DEF VersionsSafe
<1> QED BY <1>8, <1>9, <1>10, <1>11

\* The exchange preserves the invariant: it succeeds when the version that was copied is still the current one.
LEMMA CompareExchangeSafe ==
  ASSUME VersionsInv, VersionsSafe, NEW t \in CowThreads, CompareExchange(t)
  PROVE  VersionsInv' /\ VersionsSafe'
<1> USE DEF VersionsInv
<1> DEFINE w == cwThread[t].write
<1>1. w \in [old : Versions, new : Versions, wrote : {0, 1}] /\ Writes(t) /\ w.new # w.old /\ w.wrote = 1 /\ cwValue' = cwValue
  BY DEF CompareExchange, VersionsTypeOK, CopiesOwn, Writes, NoWrite
<1>2. /\ w.new # cwCurrent /\ w.new # cwThread[t].reads
      /\ \A u \in CowThreads \ {t} : w.new # cwThread[u].write.old /\ w.new # cwThread[u].write.new /\ w.new # cwThread[u].reads
  BY <1>1 DEF CopiesOwn
<1>3. cwValue[w.new] = cwValue[w.old] \cup {NextWrite(t)}
  BY <1>1 DEF CopiesFresh
<1>4. CASE w.old = cwCurrent
  <2>1. /\ cwCurrent' = w.new /\ cwDone' = cwDone \cup {NextWrite(t)}
        /\ cwThread' = [cwThread EXCEPT ![t].write = NoWrite]
    BY <1>4 DEF CompareExchange
  <2>2. /\ cwThread' = [u \in CowThreads |-> [write |-> cwThread'[u].write, reads |-> cwThread'[u].reads, seen |-> cwThread'[u].seen]]
        /\ cwThread'[t].write = NoWrite /\ cwThread'[t].reads = cwThread[t].reads /\ cwThread'[t].seen = cwThread[t].seen
        /\ \A u \in CowThreads \ {t} : cwThread'[u] = cwThread[u]
    BY <2>1, OneWriteChanges
  <2>3. ASSUME NEW u \in CowThreads \ {t} PROVE NextWrite(u)' = NextWrite(u)
    <3>1. {d \in cwDone' : d[1] = u} = {d \in cwDone : d[1] = u}
      BY <2>1 DEF NextWrite
    <3> QED BY <3>1 DEF NextWrite
  <2> HIDE DEF w
  <2>4. VersionsTypeOK'
    BY <1>1, <2>1, <2>2 DEF VersionsTypeOK
  <2>5. CopiesOwn'
    <3>1. ~Writes(t)' /\ NoWrite.old = 0 /\ NoWrite.new = 0
      BY <2>2 DEF Writes, NoWrite
    <3>2. ASSUME NEW u \in CowThreads \ {t}, Writes(u)
          PROVE  cwThread[u].write.new \in Versions \ {0} /\ cwThread[u].write.new # w.new
      BY <1>2, <3>2, SyncToolsAssumption DEF VersionsTypeOK, Writes
    <3> QED BY <2>1, <2>2, <3>1, <3>2 DEF CopiesOwn, Writes
  <2>6. CopiesFresh'
    BY <1>1, <2>2, <2>3 DEF CopiesFresh, NoWrite
  <2>7. VersionsSafe'
    BY <1>1, <1>3, <1>4, <2>1, <2>2 DEF VersionsSafe
  <2> QED BY <2>4, <2>5, <2>6, <2>7
<1>5. CASE w.old # cwCurrent
  <2> DEFINE r == [w EXCEPT !.old = cwCurrent, !.wrote = 0]
  <2>1. cwThread' = [cwThread EXCEPT ![t].write = r] /\ UNCHANGED <<cwCurrent, cwDone>>
    BY <1>5 DEF CompareExchange
  <2>2. /\ cwThread' = [u \in CowThreads |-> [write |-> cwThread'[u].write, reads |-> cwThread'[u].reads, seen |-> cwThread'[u].seen]]
        /\ cwThread'[t].write = r /\ cwThread'[t].reads = cwThread[t].reads /\ cwThread'[t].seen = cwThread[t].seen
        /\ \A u \in CowThreads \ {t} : cwThread'[u] = cwThread[u]
    BY <2>1, OneWriteChanges
  <2>3. r \in [old : Versions, new : Versions, wrote : {0, 1}] /\ r.old = cwCurrent /\ r.new = w.new /\ r.wrote = 0
    BY <1>1 DEF VersionsTypeOK
  <2> HIDE DEF w, r
  <2>4. VersionsTypeOK'
    BY <1>1, <2>1, <2>2, <2>3 DEF VersionsTypeOK
  <2>5. CopiesOwn'
    BY <1>1, <1>2, <2>1, <2>2, <2>3 DEF CopiesOwn, Writes, w
  <2>6. CopiesFresh'
    <3>1. ASSUME NEW u \in CowThreads, cwThread'[u].write.wrote = 1
          PROVE  cwThread'[u] = cwThread[u] /\ NextWrite(u)' = NextWrite(u)
      BY <2>1, <2>2, <2>3, <3>1 DEF NextWrite
    <3> QED BY <1>1, <3>1 DEF CopiesFresh
  <2>7. VersionsSafe'
    BY <1>1, <2>1, <2>2 DEF VersionsSafe
  <2> QED BY <2>4, <2>5, <2>6, <2>7
<1> QED BY <1>4, <1>5

\* Reading preserves the invariant: the current version is not one that is being written.
LEMMA GetVersionSafe ==
  ASSUME VersionsInv, VersionsSafe, NEW t \in CowThreads, GetVersion(t)
  PROVE  VersionsInv' /\ VersionsSafe'
<1> USE DEF VersionsInv
<1>1. cwThread' = [cwThread EXCEPT ![t] = [write |-> NoWrite, reads |-> cwCurrent, seen |-> cwValue[cwCurrent]]]
  BY DEF GetVersion
<1>2. UNCHANGED <<cwCurrent, cwValue, cwDone>> /\ cwThread[t].write = NoWrite
  BY DEF GetVersion
<1>3. /\ cwThread' = [u \in CowThreads |-> [write |-> cwThread'[u].write, reads |-> cwThread'[u].reads, seen |-> cwThread'[u].seen]]
      /\ cwThread'[t].write = NoWrite /\ cwThread'[t].reads = cwCurrent /\ cwThread'[t].seen = cwValue[cwCurrent]
      /\ \A u \in CowThreads \ {t} : cwThread'[u] = cwThread[u]
  BY <1>1, OneThreadChanges
<1>4. VersionsTypeOK'
  BY <1>2, <1>3 DEF VersionsTypeOK
<1>5. CopiesOwn'
  BY <1>2, <1>3 DEF CopiesOwn, Writes
<1>6. CopiesFresh'
  <2>1. ASSUME NEW u \in CowThreads PROVE cwThread'[u].write = cwThread[u].write /\ NextWrite(u)' = NextWrite(u)
    BY <1>2, <1>3 DEF NextWrite
  <2> QED BY <1>2, <2>1 DEF CopiesFresh
<1>7. VersionsSafe'
  BY <1>2, <1>3 DEF VersionsSafe
<1> QED BY <1>4, <1>5, <1>6, <1>7

\* Transactions copy, change and exchange versions without disturbing each other or a reader.
LEMMA VersionsInvariance == CwSpec => [](VersionsInv /\ VersionsSafe)
<1>1. CwInit => VersionsInv /\ VersionsSafe
  BY SyncToolsAssumption DEF CwInit, VersionsInv, VersionsSafe, VersionsTypeOK, CopiesOwn, CopiesFresh, Writes, NoWrite
<1>2. VersionsInv /\ VersionsSafe /\ [CwNext]_cwVars => VersionsInv' /\ VersionsSafe'
  <2> SUFFICES ASSUME VersionsInv, VersionsSafe, [CwNext]_cwVars PROVE VersionsInv' /\ VersionsSafe'
    OBVIOUS
  <2>1. CASE CwNext
    BY <2>1, BeginTransactionSafe, ApplyWriteSafe, CompareExchangeSafe, GetVersionSafe DEF CwNext
  <2>2. CASE UNCHANGED cwVars
    BY <2>2 DEF cwVars, VersionsInv, VersionsSafe, VersionsTypeOK, CopiesOwn, CopiesFresh, Writes, NextWrite
  <2> QED BY <2>1, <2>2
<1> QED BY <1>1, <1>2, PTL DEF CwSpec

(***************************************************************************)
(* local_function                                                          *)
(***************************************************************************)

\* A record of storages that agrees with its set of wrappers.
Agreeing(s) ==
  /\ s = [storage |-> s.storage, set |-> s.set, broken |-> s.broken]
  /\ s.storage \in [Wrappers -> Functors \cup {NoFunctor}] /\ s.set \subseteq Wrappers
  /\ s.broken = FALSE /\ \A w \in Wrappers : w \in s.set <=> s.storage[w] # NoFunctor

\* Clearing a storage leaves it empty and the others as they were.
LEMMA ClearedAgrees ==
  ASSUME NEW s, Agreeing(s), NEW w \in Wrappers
  PROVE  /\ Agreeing(ResetFunction(s, w)) /\ ResetFunction(s, w).storage[w] = NoFunctor
         /\ \A x \in Wrappers \ {w} : ResetFunction(s, w).storage[x] = s.storage[x]
BY DEF Agreeing, ResetFunction

\* A functor is built in a storage that is empty.
LEMMA BuiltAgrees ==
  ASSUME NEW s, Agreeing(s), NEW w \in Wrappers, s.storage[w] = NoFunctor, NEW f \in Functors
  PROVE  Agreeing(BuildFunction(s, w, f))
<1>1. BuildFunction(s, w, f).broken = FALSE
  BY SyncToolsAssumption DEF Agreeing, BuildFunction
<1>2. /\ BuildFunction(s, w, f).storage = [s.storage EXCEPT ![w] = f]
      /\ BuildFunction(s, w, f).set = s.set \cup {w}
      /\ BuildFunction(s, w, f) = [storage |-> BuildFunction(s, w, f).storage, set |-> BuildFunction(s, w, f).set,
                                   broken |-> BuildFunction(s, w, f).broken]
  BY DEF Agreeing, BuildFunction
<1> QED BY <1>1, <1>2, SyncToolsAssumption DEF Agreeing

\* An assignment of a functor or of a wrapper preserves the property.
LEMMA LfStepSafe ==
  ASSUME FunctorsSafe, LfNext
  PROVE  FunctorsSafe'
<1>1. Agreeing(Storages)
  BY DEF FunctorsSafe, Agreeing, Storages
<1>2. ASSUME NEW s, Agreeing(s), Becomes(s) PROVE FunctorsSafe'
  BY <1>2 DEF Agreeing, Becomes, FunctorsSafe
<1>3. ASSUME NEW w \in Wrappers, NEW f \in Functors, NEW fails \in BOOLEAN, AssignFunctor(w, f, fails)
      PROVE  FunctorsSafe'
  <2>1. Agreeing(Cleared(Storages, w)) /\ Cleared(Storages, w).storage[w] = NoFunctor
    BY <1>1, ClearedAgrees DEF Cleared
  <2>2. Agreeing(BuildFunction(Cleared(Storages, w), w, f))
    BY <2>1, BuiltAgrees
  <2>3. CASE fails
    BY <1>2, <1>3, <2>1, <2>3 DEF AssignFunctor
  <2>4. CASE ~fails
    BY <1>2, <1>3, <2>2, <2>4 DEF AssignFunctor
  <2> QED BY <2>3, <2>4
<1>4. ASSUME NEW w \in Wrappers, NEW from \in Wrappers, NEW moved \in BOOLEAN, NEW fails \in BOOLEAN,
             AssignWrapper(w, from, moved, fails)
      PROVE  FunctorsSafe'
  <2> DEFINE cleared == Cleared(Storages, w)
             built == BuildFunction(cleared, w, cleared.storage[from])
  <2>1. /\ Agreeing(cleared) /\ cleared.storage[w] = NoFunctor
        /\ cleared.storage[from] = lfStorage[from] /\ cleared = ResetFunction(Storages, w)
    BY <1>1, <1>4, ClearedAgrees DEF Cleared, Storages, AssignWrapper
  <2>2. CASE from \notin lfSet
    BY <1>2, <1>4, <2>1, <2>2 DEF AssignWrapper
  <2>3. CASE from \in lfSet /\ fails
    BY <1>2, <1>4, <2>1, <2>3 DEF AssignWrapper
  <2>4. CASE from \in lfSet /\ ~fails
    <3>1. cleared.storage[from] \in Functors
      BY <2>1, <2>4 DEF FunctorsSafe
    <3>2. Agreeing(built)
      BY <2>1, <3>1, BuiltAgrees
    <3>3. Agreeing(ResetFunction(built, from))
      BY <3>2, ClearedAgrees
    <3>4. Becomes(built) \/ Becomes(ResetFunction(built, from))
      BY <1>4, <2>4 DEF AssignWrapper, Transferred
    <3> QED BY <1>2, <3>2, <3>3, <3>4
  <2> QED BY <2>2, <2>3, <2>4
<1> QED BY <1>3, <1>4 DEF LfNext

(***************************************************************************)
(* lock_ptr_wrapper                                                        *)
(***************************************************************************)

\* Each operation leaves the locked objects with one wrapper each.
LEMMA LkStepSafe ==
  ASSUME LocksInv, LkNext
  PROVE  LocksInv'
<1> USE SyncToolsAssumption DEF LocksInv
<1>1. ASSUME NEW h \in LockHolders, DropHolder(h) PROVE LocksInv'
  <2>1. lkHolder[h].guards \in lkLocked /\ lkHolder[h].guards \in LkAlive(AtUnlock(lkHolder, h), lkOwned)
    BY <1>1 DEF DropHolder, LkAlive, AtUnlock
  <2>2. lkBroken' = FALSE
    BY <1>1, <2>1 DEF DropHolder
  <2> QED BY <1>1, <2>2 DEF DropHolder
<1>2. ASSUME NEW h \in LockHolders, NEW o \in Lockables, LockObject(h, o) PROVE LocksInv'
  BY <1>2 DEF LockObject
<1>3. ASSUME NEW h \in LockHolders, NEW from \in LockHolders, MoveHolder(h, from) PROVE LocksInv'
  BY <1>3 DEF MoveHolder
<1>4. ASSUME NEW o \in Lockables, GiveUpObject(o) \/ MakeObject(o) PROVE LocksInv'
  BY <1>4 DEF GiveUpObject, MakeObject
<1> QED BY <1>1, <1>2, <1>3, <1>4 DEF LkNext

\* What a wrapper guards is guarded once.
LEMMA LocksInvGivesSafe == LocksInv => LocksSafe
<1> SUFFICES ASSUME LocksInv, NEW o \in lkLocked PROVE Cardinality({h \in LockHolders : lkHolder[h].guards = o}) = 1
  BY DEF LocksInv, LocksSafe
<1>1. PICK h \in LockHolders : lkHolder[h].guards = o /\ o # NoLockable
  BY DEF LocksInv
<1>2. {g \in LockHolders : lkHolder[g].guards = o} = {h}
  BY <1>1 DEF LocksInv
<1> QED BY <1>2, FS_Singleton

\* The invariants of the functors and of the locks hold always.
LEMMA FunctorsInvariance == LfSpec => []FunctorsSafe
<1>1. LfInit => FunctorsSafe
  BY DEF LfInit, FunctorsSafe
<1>2. FunctorsSafe /\ [LfNext]_lfVars => FunctorsSafe'
  <2>1. FunctorsSafe /\ UNCHANGED lfVars => FunctorsSafe'
    BY DEF lfVars, FunctorsSafe
  <2> QED BY <2>1, LfStepSafe
<1> QED BY <1>1, <1>2, PTL DEF LfSpec

\* No wrapper loses the lock of its object.
LEMMA LocksInvariance == LkSpec => []LocksInv
<1>1. LkInit => LocksInv
  BY DEF LkInit, LocksInv
<1>2. LocksInv /\ [LkNext]_lkVars => LocksInv'
  <2>1. LocksInv /\ UNCHANGED lkVars => LocksInv'
    BY DEF lkVars, LocksInv
  <2> QED BY <2>1, LkStepSafe
<1> QED BY <1>1, <1>2, PTL DEF LkSpec

\* For any threads, messages, values, transactions, functors and locks: messages leave the queue in order and nobody
\* sleeps while there is one that nobody is awake for; values, versions, functors and locks are never lost or shared.
THEOREM SyncCorrect == SyncSpec => []SyncSafe
<1>1. SyncSpec => [](QueueInv /\ ValuesInv /\ (VersionsInv /\ VersionsSafe) /\ FunctorsSafe /\ LocksInv)
  BY QueueInvariance, ValuesInvariance, VersionsInvariance, FunctorsInvariance, LocksInvariance, PTL DEF SyncSpec
<1>2. QueueInv /\ ValuesInv /\ (VersionsInv /\ VersionsSafe) /\ FunctorsSafe /\ LocksInv => SyncSafe
  BY QueueInvGivesSafe, ValuesInvGivesSafe, LocksInvGivesSafe DEF SyncSafe
<1> QED BY <1>1, <1>2, PTL

(***************************************************************************)
(* byte_buffer_pool and callback_pool                                      *)
(***************************************************************************)

\* Padding is less than the alignment.
LEMMA PaddingBound ==
  ASSUME NEW a \in Nat \ {0}, NEW x \in Nat
  PROVE  (a - (x % a)) % a \in 0 .. a - 1
<1>1. x % a \in 0 .. a - 1
  OBVIOUS
<1>2. a - (x % a) \in Nat
  BY <1>1
<1> QED BY <1>2

\* An aligned piece begins where it may, or less than its alignment later.
LEMMA AlignedBound ==
  ASSUME NEW offset \in Nat, NEW a \in Nat \ {0}
  PROVE  Aligned(offset, a) \in Nat /\ Aligned(offset, a) >= offset /\ Aligned(offset, a) <= offset + a - 1
<1>1. PieceBase + offset \in Nat
  BY BufferPoolsAssumption
<1> DEFINE p == (a - ((PieceBase + offset) % a)) % a
<1>2. p \in 0 .. a - 1
  BY <1>1, PaddingBound
<1>3. Aligned(offset, a) = offset + p
  BY DEF Aligned
<1> HIDE DEF p
<1> QED BY <1>2, <1>3

\* Room for the fewest pieces is room for one.
LEMMA OnePieceFits ==
  ASSUME NEW size \in Nat
  PROVE  MinSlots * size \in Nat /\ size <= MinSlots * size
<1>1. MinSlots \in Nat /\ MinSlots >= 1
  BY BufferPoolsAssumption
<1>2. \A m \in Nat : (m + 1) * size = (m * size) + size /\ m * size \in Nat
  OBVIOUS
<1>3. MinSlots - 1 \in Nat /\ (MinSlots - 1) + 1 = MinSlots
  BY <1>1
<1>4. MinSlots * size = ((MinSlots - 1) * size) + size /\ (MinSlots - 1) * size \in Nat
  BY <1>2, <1>3
<1> QED BY <1>4

\* A buffer that is large enough for what is needed has room for the piece at its beginning.
LEMMA NeededFits ==
  ASSUME NEW size \in PieceSizes, NEW a \in (IF bpCallbacks THEN PieceAlignments ELSE {1})
  PROVE  /\ size \in Nat /\ a \in Nat \ {0} /\ Needed(size, a) \in Nat
         /\ Aligned(0, a) \in Nat /\ Aligned(0, a) + size <= Needed(size, a)
<1>1. size \in Nat /\ a \in Nat \ {0}
  BY BufferPoolsAssumption
<1>2. MinSlots * size \in Nat /\ size <= MinSlots * size
  BY <1>1, OnePieceFits
<1>3. Aligned(0, a) \in Nat /\ Aligned(0, a) <= a - 1
  BY <1>1, AlignedBound
<1>4. ~bpCallbacks => a = 1
  OBVIOUS
<1> DEFINE m == MinSlots * size
<1>5. Needed(size, a) = (IF bpCallbacks THEN a ELSE 0) + m
  BY DEF Needed
<1> HIDE DEF m
<1>6. m \in Nat /\ size <= m
  BY <1>2 DEF m
<1> QED BY <1>1, <1>3, <1>4, <1>5, <1>6

\* The owners of pieces of a buffer are finitely many.
LEMMA UsingFinite ==
  ASSUME NEW held, NEW b
  PROVE  IsFiniteSet(Using(held, b)) /\ Cardinality(Using(held, b)) \in Nat
<1>1. IsFiniteSet(Holders)
  BY FS_Interval, BufferPoolsAssumption DEF Holders
<1>2. Using(held, b) \subseteq Holders
  BY DEF Using
<1> QED BY <1>1, <1>2, FS_Subset, FS_CardinalityType

\* One owner gets another piece, or none.
OneGets(held, new, h, p) == new[h] = p /\ \A g \in Holders \ {h} : new[g] = held[g]

\* When one owner gets another piece, or none, the counts of the buffers change by what it adds.
LEMMA CountChanges ==
  ASSUME NEW held, NEW new, NEW h \in Holders, NEW p, NEW b, OneGets(held, new, h, p)
  PROVE  Cardinality(Using(new, b)) = Cardinality(Using(held, b)) - InBuffer(held[h], b) + InBuffer(p, b)
<1> DEFINE rest == Using(held, b) \ {h}
<1>1. new[h] = p /\ \A g \in Holders \ {h} : new[g] = held[g]
  BY DEF OneGets
<1>2. IsFiniteSet(rest) /\ Cardinality(rest) \in Nat /\ h \notin rest
  BY UsingFinite, FS_RemoveElement, FS_CardinalityType
<1>3. Cardinality(Using(held, b)) = Cardinality(rest) + InBuffer(held[h], b)
  <2>1. CASE h \in Using(held, b)
    <3>1. Cardinality(rest) = Cardinality(Using(held, b)) - 1
      BY <2>1, UsingFinite, FS_RemoveElement
    <3>2. InBuffer(held[h], b) = 1
      BY <2>1 DEF Using, InBuffer
    <3>3. Cardinality(Using(held, b)) \in Nat
      BY UsingFinite
    <3> QED BY <3>1, <3>2, <3>3
  <2>2. CASE h \notin Using(held, b)
    <3>1. rest = Using(held, b)
      BY <2>2
    <3>2. InBuffer(held[h], b) = 0
      BY <2>2 DEF Using, InBuffer
    <3>3. Cardinality(Using(held, b)) \in Nat
      BY UsingFinite
    <3> QED BY <3>1, <3>2, <3>3
  <2> QED BY <2>1, <2>2
<1>4. Cardinality(Using(new, b)) = Cardinality(rest) + InBuffer(p, b)
  <2>1. CASE p # Nothing /\ p.buffer = b
    <3>1. Using(new, b) = rest \cup {h}
      BY <1>1, <2>1 DEF Using
    <3>2. Cardinality(rest \cup {h}) = Cardinality(rest) + 1
      BY <1>2, FS_AddElement
    <3>3. InBuffer(p, b) = 1
      BY <2>1 DEF InBuffer
    <3> QED BY <3>1, <3>2, <3>3
  <2>2. CASE ~(p # Nothing /\ p.buffer = b)
    <3>1. Using(new, b) = rest
      BY <1>1, <2>2 DEF Using
    <3>2. InBuffer(p, b) = 0
      BY <2>2 DEF InBuffer
    <3>3. Cardinality(rest) + 0 = Cardinality(rest)
      BY <1>2
    <3> QED BY <3>1, <3>2, <3>3
  <2> QED BY <2>1, <2>2
<1>5. InBuffer(held[h], b) \in {0, 1} /\ InBuffer(p, b) \in {0, 1}
  BY DEF InBuffer
<1> HIDE DEF rest
<1> QED BY <1>2, <1>3, <1>4, <1>5

\* The counts are numbers.
LEMMA CountFacts ==
  ASSUME BpTypeOK, RefsAgree, NEW b \in BufferIds
  PROVE  /\ bpRefs[b] \in Nat /\ bpLost[b] \in Nat /\ DOMAIN bpHeld = Holders
         /\ bpRefs[b] = Cardinality(Using(bpHeld, b)) + bpLost[b]
<1>1. bpLost[b] \in Nat /\ DOMAIN bpHeld = Holders
  BY DEF BpTypeOK
<1>2. bpRefs[b] = Cardinality(Using(bpHeld, b)) + bpLost[b]
  BY DEF RefsAgree
<1>3. Cardinality(Using(bpHeld, b)) \in Nat
  BY UsingFinite
<1> QED BY <1>1, <1>2, <1>3

\* What an owner adds to a count.
LEMMA AddsOne ==
  ASSUME NEW p, NEW b
  PROVE  InBuffer(p, b) \in {0, 1}
BY DEF InBuffer

\* Counts that follow what one owner gives up and gets, and what is lost, agree.
LEMMA OneOwnerChanges ==
  ASSUME BpTypeOK, RefsAgree, NEW h \in Holders, NEW p, bpHeld' = [bpHeld EXCEPT ![h] = p],
         bpRefs' = [b \in BufferIds |-> bpRefs'[b]],
         \A b \in BufferIds : /\ bpLost'[b] \in Nat
                              /\ bpRefs'[b] = bpRefs[b] - InBuffer(bpHeld[h], b) + InBuffer(p, b) + (bpLost'[b] - bpLost[b])
  PROVE  RefsAgree'
<1>1. ASSUME NEW b \in BufferIds PROVE bpRefs'[b] = Cardinality(Using(bpHeld', b)) + bpLost'[b]
  <2>1. /\ bpRefs[b] \in Nat /\ bpLost[b] \in Nat /\ DOMAIN bpHeld = Holders
        /\ bpRefs[b] = Cardinality(Using(bpHeld, b)) + bpLost[b]
    BY CountFacts
  <2>2. OneGets(bpHeld, bpHeld', h, p)
    BY <2>1 DEF OneGets
  <2>3. Cardinality(Using(bpHeld', b)) = Cardinality(Using(bpHeld, b)) - InBuffer(bpHeld[h], b) + InBuffer(p, b)
    BY <2>2, CountChanges
  <2>4. Cardinality(Using(bpHeld, b)) \in Nat
    BY UsingFinite
  <2>5. InBuffer(bpHeld[h], b) \in {0, 1} /\ InBuffer(p, b) \in {0, 1}
    BY AddsOne
  <2> QED BY <2>1, <2>3, <2>4, <2>5
<1> QED BY <1>1 DEF RefsAgree

\* A buffer whose count is zero has no piece.
LEMMA UnusedHasNoPiece ==
  ASSUME BpTypeOK, RefsAgree, NEW b \in BufferIds, bpRefs[b] = 0, NEW h \in Holders, bpHeld[h] # Nothing
  PROVE  bpHeld[h].buffer # b
<1>1. Cardinality(Using(bpHeld, b)) + bpLost[b] = 0 /\ bpLost[b] \in Nat
  BY DEF RefsAgree, BpTypeOK
<1>2. Cardinality(Using(bpHeld, b)) = 0
  BY <1>1, UsingFinite
<1>3. Using(bpHeld, b) = {}
  BY <1>2, UsingFinite, FS_EmptySet
<1> QED BY <1>3 DEF Using

\* A sequence without one of its elements.
LEMMA RemovedElement ==
  ASSUME NEW S, NEW s \in Seq(S), NEW k \in 1 .. Len(s)
  PROVE  /\ RemoveAt(s, k) \in Seq(S) /\ Len(RemoveAt(s, k)) = Len(s) - 1
         /\ \A i \in 1 .. Len(s) - 1 : RemoveAt(s, k)[i] = IF i < k THEN s[i] ELSE s[i + 1]
<1> DEFINE front == SubSeq(s, 1, k - 1)
           back  == SubSeq(s, k + 1, Len(s))
<1>1. Len(s) \in Nat /\ k \in Nat /\ k >= 1 /\ k <= Len(s) /\ \A i \in 1 .. Len(s) : s[i] \in S
  OBVIOUS
<1>2. /\ front \in Seq(S) /\ Len(front) = k - 1 /\ \A i \in 1 .. k - 1 : front[i] = s[i]
  <2>1. \A i \in 1 .. k - 1 : s[i] \in S
    BY <1>1
  <2>2. /\ front \in Seq(S) /\ Len(front) = IF 1 <= k - 1 THEN (k - 1) - 1 + 1 ELSE 0
        /\ \A i \in 1 .. (k - 1) - 1 + 1 : front[i] = s[1 + i - 1]
    BY <1>1, <2>1, SubSeqProperties
  <2>3. Len(front) = k - 1
    BY <1>1, <2>2
  <2>4. ASSUME NEW i \in 1 .. k - 1 PROVE front[i] = s[i]
    <3>1. i \in 1 .. (k - 1) - 1 + 1 /\ 1 + i - 1 = i
      BY <1>1
    <3> QED BY <2>2, <3>1
  <2> QED BY <2>2, <2>3, <2>4
<1>3. /\ back \in Seq(S) /\ Len(back) = Len(s) - k /\ \A i \in 1 .. Len(s) - k : back[i] = s[k + i]
  <2>1. \A i \in k + 1 .. Len(s) : s[i] \in S
    BY <1>1
  <2>2. /\ back \in Seq(S) /\ Len(back) = IF k + 1 <= Len(s) THEN Len(s) - (k + 1) + 1 ELSE 0
        /\ \A i \in 1 .. Len(s) - (k + 1) + 1 : back[i] = s[(k + 1) + i - 1]
    BY <1>1, <2>1, SubSeqProperties
  <2>3. Len(back) = Len(s) - k
    BY <1>1, <2>2
  <2>4. ASSUME NEW i \in 1 .. Len(s) - k PROVE back[i] = s[k + i]
    <3>1. i \in 1 .. Len(s) - (k + 1) + 1 /\ (k + 1) + i - 1 = k + i
      BY <1>1
    <3> QED BY <2>2, <3>1
  <2> QED BY <2>2, <2>3, <2>4
<1> HIDE DEF front, back
<1>4. /\ front \o back \in Seq(S) /\ Len(front \o back) = Len(front) + Len(back)
      /\ \A i \in 1 .. Len(front) + Len(back) : (front \o back)[i] = IF i <= Len(front) THEN front[i] ELSE back[i - Len(front)]
  BY <1>2, <1>3, ConcatProperties
<1>5. Len(front) + Len(back) = Len(s) - 1
  BY <1>1, <1>2, <1>3
<1>6. ASSUME NEW i \in 1 .. Len(s) - 1 PROVE (front \o back)[i] = IF i < k THEN s[i] ELSE s[i + 1]
  <2>1. CASE i < k
    <3>1. i \in 1 .. k - 1 /\ i <= Len(front)
      BY <1>1, <1>2, <2>1
    <3> QED BY <1>2, <1>4, <1>5, <2>1, <3>1
  <2>2. CASE ~(i < k)
    <3>1. i - (k - 1) \in 1 .. Len(s) - k /\ k + (i - (k - 1)) = i + 1 /\ ~(i <= k - 1)
      BY <1>1, <2>2
    <3>2. (front \o back)[i] = back[i - (k - 1)]
      BY <1>2, <1>4, <1>5, <3>1
    <3> QED BY <1>3, <2>2, <3>1, <3>2
  <2> QED BY <2>1, <2>2
<1>7. RemoveAt(s, k) = front \o back
  BY DEF RemoveAt, front, back
<1> QED BY <1>4, <1>5, <1>6, <1>7

\* Pieces that lie where pieces lay before are apart and in their buffers, as those were.
LEMMA PiecesStay ==
  ASSUME PiecesInside, PiecesApart, bpSize' = bpSize, bpHeld' \in [Holders -> {Nothing} \cup BufferPieces],
         \A b \in Nat : b # 0 /\ b = bpCurrent' => b = bpCurrent /\ bpOffset' = bpOffset,
         \A g \in Holders : bpHeld'[g] # Nothing =>
           \E k \in Holders : /\ bpHeld[k] # Nothing /\ bpHeld'[g].buffer = bpHeld[k].buffer
                              /\ bpHeld'[g].from = bpHeld[k].from /\ bpHeld'[g].to = bpHeld[k].to
  PROVE  PiecesInside' /\ PiecesApart'
<1>1. ASSUME NEW g \in Holders, bpHeld'[g] # Nothing PROVE bpHeld'[g].buffer \in Nat \ {0}
  BY <1>1, BufferPoolsAssumption DEF BufferPieces, BufferIds
<1>2. PiecesInside'
  BY <1>1 DEF PiecesInside
<1>3. PiecesApart'
  <2> SUFFICES ASSUME NEW g \in Holders, NEW h \in Holders, bpHeld'[g] # Nothing, bpHeld'[h] # Nothing,
                      bpHeld'[g].buffer = bpHeld'[h].buffer
               PROVE  \/ bpHeld'[g].from = bpHeld'[h].from /\ bpHeld'[g].to = bpHeld'[h].to
                      \/ bpHeld'[g].to <= bpHeld'[h].from
                      \/ bpHeld'[h].to <= bpHeld'[g].from
    BY DEF PiecesApart
  <2>1. PICK k \in Holders : /\ bpHeld[k] # Nothing /\ bpHeld'[g].buffer = bpHeld[k].buffer
                             /\ bpHeld'[g].from = bpHeld[k].from /\ bpHeld'[g].to = bpHeld[k].to
    OBVIOUS
  <2>2. PICK m \in Holders : /\ bpHeld[m] # Nothing /\ bpHeld'[h].buffer = bpHeld[m].buffer
                             /\ bpHeld'[h].from = bpHeld[m].from /\ bpHeld'[h].to = bpHeld[m].to
    OBVIOUS
  <2>3. bpHeld[k].buffer = bpHeld[m].buffer
    BY <2>1, <2>2
  <2>4. \/ bpHeld[k].from = bpHeld[m].from /\ bpHeld[k].to = bpHeld[m].to
        \/ bpHeld[k].to <= bpHeld[m].from
        \/ bpHeld[m].to <= bpHeld[k].from
    BY <2>1, <2>2, <2>3 DEF PiecesApart
  <2> QED BY <2>1, <2>2, <2>4
<1> QED BY <1>2, <1>3

\* What the buffers and the pieces are.
LEMMA BufferFacts ==
  ASSUME BpSafe
  PROVE  /\ bpSize \in Seq(Nat) /\ Len(bpSize) \in Nat /\ Len(bpSize) \in 2 .. MaxPoolBuffers /\ MaxPoolBuffers \in Nat
         /\ \A b \in 1 .. Len(bpSize) : bpSize[b] \in Nat /\ b \in BufferIds
         /\ DOMAIN bpHeld = Holders
         /\ \A g \in Holders : bpHeld[g] # Nothing =>
              /\ bpHeld[g] \in BufferPieces /\ bpHeld[g].buffer \in 1 .. Len(bpSize) /\ bpHeld[g].from \in Nat /\ bpHeld[g].to \in Nat
              /\ bpHeld[g].from <= bpHeld[g].to /\ bpHeld[g].to <= bpSize[bpHeld[g].buffer]
<1>1. bpSize \in Seq(Nat) /\ Len(bpSize) \in 2 .. MaxPoolBuffers /\ MaxPoolBuffers \in Nat
  BY BufferPoolsAssumption DEF BpSafe, BpTypeOK
<1>2. Len(bpSize) \in Nat
  BY <1>1
<1>3. \A b \in 1 .. Len(bpSize) : bpSize[b] \in Nat
  BY <1>1
<1>4. \A b \in 1 .. Len(bpSize) : b \in BufferIds
  BY <1>1, <1>2 DEF BufferIds
<1>5. bpHeld \in [Holders -> {Nothing} \cup BufferPieces]
  BY DEF BpSafe, BpTypeOK
<1>6. ASSUME NEW g \in Holders, bpHeld[g] # Nothing
      PROVE  /\ bpHeld[g] \in BufferPieces /\ bpHeld[g].buffer \in 1 .. Len(bpSize) /\ bpHeld[g].from \in Nat /\ bpHeld[g].to \in Nat
             /\ bpHeld[g].from <= bpHeld[g].to /\ bpHeld[g].to <= bpSize[bpHeld[g].buffer]
  <2>1. bpHeld[g] \in BufferPieces /\ bpHeld[g].buffer \in BufferIds /\ bpHeld[g].from \in Nat /\ bpHeld[g].to \in Nat
    BY <1>5, <1>6 DEF BufferPieces
  <2>2. /\ bpHeld[g].buffer <= Len(bpSize)
        /\ bpHeld[g].from <= bpHeld[g].to /\ bpHeld[g].to <= bpSize[bpHeld[g].buffer]
    BY <1>6 DEF BpSafe, PiecesInside
  <2>3. bpHeld[g].buffer \in 1 .. Len(bpSize)
    BY <1>1, <1>2, <2>1, <2>2 DEF BufferIds
  <2> QED BY <2>1, <2>2, <2>3
<1> QED BY <1>1, <1>2, <1>3, <1>4, <1>5, <1>6

\* A step makes room for a piece: it leaves the buffers there are, may add one, and no piece of the buffer reaches
\* the place that the piece gets.
MakesRoom(b, from, size) ==
  /\ bpCallbacks' = bpCallbacks /\ bpLost' = bpLost
  /\ Len(bpSize) <= Len(bpSize') /\ \A c \in 1 .. Len(bpSize) : bpSize'[c] = bpSize[c]
  /\ b \in BufferIds /\ b <= Len(bpSize') /\ from + size <= bpSize'[b]
  /\ \A g \in Holders : bpHeld[g] # Nothing /\ bpHeld[g].buffer = b => bpHeld[g].to <= from

\* A piece that is handed out where no piece of its buffer reaches leaves the pieces apart and the counts right.
LEMMA HandSafe ==
  ASSUME BpSafe, NEW h \in Holders, bpHeld[h] = Nothing, NEW b \in BufferIds, NEW from \in Nat, NEW size \in Nat,
         Hand(h, b, from, size), MakesRoom(b, from, size), Len(bpSize') \in Nat
  PROVE  /\ bpHeld' \in [Holders -> {Nothing} \cup BufferPieces] /\ bpOffset' \in Nat
         /\ RefsAgree' /\ PiecesInside' /\ PiecesApart'
<1> DEFINE p == [buffer |-> b, from |-> from, to |-> from + size, at |-> IF bpCallbacks THEN "construct" ELSE "held"]
<1>1. bpHeld' = [bpHeld EXCEPT ![h] = p] /\ bpRefs' = [bpRefs EXCEPT ![b] = @ + 1] /\ bpCurrent' = b /\ bpOffset' = from + size
  BY DEF Hand
<1>2. /\ p \in BufferPieces /\ p # Nothing
      /\ p.buffer = b /\ p.from = from /\ p.to = from + size
  BY BufferPoolsAssumption DEF BufferPieces
<1> HIDE DEF p
<1>3. /\ bpHeld \in [Holders -> {Nothing} \cup BufferPieces] /\ bpHeld' \in [Holders -> {Nothing} \cup BufferPieces]
      /\ bpHeld'[h] = p /\ \A g \in Holders \ {h} : bpHeld'[g] = bpHeld[g]
  BY <1>1, <1>2 DEF BpSafe, BpTypeOK
<1>4. /\ Len(bpSize) \in Nat /\ \A c \in 1 .. Len(bpSize) : bpSize[c] \in Nat
      /\ \A g \in Holders : bpHeld[g] # Nothing =>
           /\ bpHeld[g].buffer \in 1 .. Len(bpSize) /\ bpHeld[g].from \in Nat /\ bpHeld[g].to \in Nat
           /\ bpHeld[g].from <= bpHeld[g].to /\ bpHeld[g].to <= bpSize[bpHeld[g].buffer]
  BY BufferFacts
<1>5. RefsAgree'
  <2>1. BpTypeOK /\ RefsAgree /\ bpLost' = bpLost /\ bpRefs' = [c \in BufferIds |-> bpRefs'[c]]
    BY <1>1 DEF BpSafe, RefsAgree, MakesRoom
  <2>2. ASSUME NEW c \in BufferIds
        PROVE  /\ bpLost'[c] \in Nat
               /\ bpRefs'[c] = bpRefs[c] - InBuffer(bpHeld[h], c) + InBuffer(p, c) + (bpLost'[c] - bpLost[c])
    <3>1. InBuffer(bpHeld[h], c) = 0 /\ InBuffer(p, c) = IF c = b THEN 1 ELSE 0
      BY <1>2 DEF InBuffer
    <3>2. bpRefs[c] \in Nat /\ bpLost[c] \in Nat /\ bpRefs'[c] = IF c = b THEN bpRefs[c] + 1 ELSE bpRefs[c]
      BY <1>1, <2>1, CountFacts DEF RefsAgree
    <3> QED BY <2>1, <3>1, <3>2
  <2> QED BY <1>1, <2>1, <2>2, OneOwnerChanges
<1>6. PiecesInside'
  <2> SUFFICES ASSUME NEW g \in Holders, bpHeld'[g] # Nothing
               PROVE  /\ bpHeld'[g].buffer <= Len(bpSize')
                      /\ bpHeld'[g].from <= bpHeld'[g].to /\ bpHeld'[g].to <= bpSize'[bpHeld'[g].buffer]
                      /\ bpHeld'[g].buffer = bpCurrent' => bpHeld'[g].to <= bpOffset'
    BY DEF PiecesInside
  <2>1. CASE g = h
    BY <1>1, <1>2, <1>3, <2>1 DEF MakesRoom
  <2>2. CASE g # h
    <3>1. /\ bpHeld'[g] = bpHeld[g] /\ bpHeld[g].buffer \in 1 .. Len(bpSize)
          /\ bpHeld[g].from \in Nat /\ bpHeld[g].to \in Nat /\ bpHeld[g].from <= bpHeld[g].to
          /\ bpHeld[g].to <= bpSize[bpHeld[g].buffer]
      BY <1>3, <1>4, <2>2
    <3>2. bpSize'[bpHeld[g].buffer] = bpSize[bpHeld[g].buffer] /\ bpHeld[g].buffer <= Len(bpSize')
      BY <1>4, <3>1 DEF MakesRoom
    <3>3. bpHeld[g].buffer = b => bpHeld[g].to <= from + size
      BY <3>1 DEF MakesRoom
    <3> QED BY <1>1, <3>1, <3>2, <3>3
  <2> QED BY <2>1, <2>2
<1>7. PiecesApart'
  <2>1. ASSUME NEW g \in Holders, bpHeld[g] # Nothing, bpHeld[g].buffer = b PROVE bpHeld[g].to <= from
    BY <2>1 DEF MakesRoom
  <2> QED BY <1>2, <1>3, <1>4, <2>1 DEF BpSafe, PiecesApart
<1> QED BY <1>1, <1>3, <1>5, <1>6, <1>7

\* A piece that follows in the current buffer.
LEMMA AllocateHereSafe ==
  ASSUME BpSafe, NEW h \in Holders, NEW size \in PieceSizes, NEW a \in (IF bpCallbacks THEN PieceAlignments ELSE {1}),
         AllocateHere(h, size, a)
  PROVE  BpSafe'
<1>1. /\ size \in Nat /\ a \in Nat \ {0} /\ bpOffset \in Nat
      /\ Aligned(bpOffset, a) \in Nat /\ Aligned(bpOffset, a) >= bpOffset
  BY NeededFits, AlignedBound DEF BpSafe, BpTypeOK
<1> DEFINE from == Aligned(bpOffset, a)
<1>2. /\ bpHeld[h] = Nothing /\ bpCurrent # 0 /\ from + size <= bpSize[bpCurrent] /\ Hand(h, bpCurrent, from, size)
      /\ UNCHANGED <<bpCallbacks, bpSize, bpStash, bpGrowth, bpLost>>
  BY DEF AllocateHere, Free, PieceFits
<1>3. Len(bpSize) \in Nat /\ bpCurrent \in 1 .. Len(bpSize) /\ bpCurrent \in BufferIds
  <2>1. bpCurrent \in 0 .. Len(bpSize)
    BY DEF BpSafe, BpTypeOK
  <2> QED BY <1>2, <2>1, BufferFacts
<1>4. ASSUME NEW g \in Holders, bpHeld[g] # Nothing, bpHeld[g].buffer = bpCurrent PROVE bpHeld[g].to <= from
  <2>1. bpHeld[g].to \in Nat /\ bpHeld[g].to <= bpOffset
    BY <1>4 DEF BpSafe, BpTypeOK, PiecesInside, BufferPieces
  <2> QED BY <1>1, <2>1
<1>5. MakesRoom(bpCurrent, from, size)
  BY <1>2, <1>3, <1>4 DEF MakesRoom
<1>6. Hand(h, bpCurrent, from, size) /\ from \in Nat /\ Len(bpSize') \in Nat
  BY <1>1, <1>2, <1>3
<1> HIDE DEF from
<1>7. /\ bpHeld' \in [Holders -> {Nothing} \cup BufferPieces] /\ bpOffset' \in Nat
      /\ RefsAgree' /\ PiecesInside' /\ PiecesApart'
  BY <1>1, <1>2, <1>3, <1>5, <1>6, HandSafe
<1>8. bpCurrent' = bpCurrent
  BY <1>2 DEF Hand
<1> QED BY <1>2, <1>7, <1>8 DEF BpSafe, BpTypeOK, BuffersOnce

\* What the stash is when the current buffer joins it.
LEMMA StashedFacts ==
  ASSUME BpSafe
  PROVE  /\ Stashed \in Seq(1 .. Len(bpSize)) /\ Len(Stashed) \in Nat /\ DOMAIN Stashed = 1 .. Len(Stashed)
         /\ \A j, k \in DOMAIN Stashed : Stashed[j] = Stashed[k] => j = k
         /\ \A k \in DOMAIN Stashed : Stashed[k] \in 1 .. Len(bpSize)
<1> DEFINE S == 1 .. Len(bpSize)
<1>1. bpStash \in Seq(S) /\ bpCurrent \in 0 .. Len(bpSize) /\ Len(bpSize) \in Nat
  BY DEF BpSafe, BpTypeOK
<1>2. CASE bpCurrent = 0
  BY <1>1, <1>2 DEF Stashed, BpSafe, BuffersOnce
<1>3. CASE bpCurrent # 0
  <2>1. bpCurrent \in S /\ Stashed = Append(bpStash, bpCurrent)
    BY <1>1, <1>3 DEF Stashed
  <2> HIDE DEF S
  <2>2. /\ Stashed \in Seq(S) /\ Len(bpStash) \in Nat /\ Len(Stashed) = Len(bpStash) + 1
        /\ \A i \in 1 .. Len(bpStash) : Stashed[i] = bpStash[i]
        /\ Stashed[Len(bpStash) + 1] = bpCurrent
    BY <1>1, <2>1, OneMoreElement
  <2>3. DOMAIN Stashed = 1 .. Len(bpStash) + 1 /\ DOMAIN bpStash = 1 .. Len(bpStash)
    BY <1>1, <2>2, LenProperties
  <2>4. ASSUME NEW j \in DOMAIN Stashed, NEW k \in DOMAIN Stashed, Stashed[j] = Stashed[k] PROVE j = k
    <3>1. CASE j \in 1 .. Len(bpStash) /\ k \in 1 .. Len(bpStash)
      BY <2>2, <2>3, <2>4, <3>1 DEF BpSafe, BuffersOnce
    <3>2. CASE j = Len(bpStash) + 1 /\ k = Len(bpStash) + 1
      BY <3>2
    <3>3. CASE j = Len(bpStash) + 1 /\ k \in 1 .. Len(bpStash)
      BY <2>2, <2>3, <2>4, <3>3 DEF BpSafe, BuffersOnce
    <3>4. CASE k = Len(bpStash) + 1 /\ j \in 1 .. Len(bpStash)
      BY <2>2, <2>3, <2>4, <3>4 DEF BpSafe, BuffersOnce
    <3> QED BY <2>2, <2>3, <3>1, <3>2, <3>3, <3>4
  <2>5. \A k \in DOMAIN Stashed : Stashed[k] \in S
    BY <2>2, <2>3, LenProperties
  <2> QED BY <2>2, <2>3, <2>4, <2>5 DEF S
<1> QED BY <1>2, <1>3

\* A piece at the beginning of a buffer that nobody used any more.
LEMMA AllocateReclaimedSafe ==
  ASSUME BpSafe, NEW h \in Holders, NEW size \in PieceSizes, NEW a \in (IF bpCallbacks THEN PieceAlignments ELSE {1}),
         AllocateReclaimed(h, size, a)
  PROVE  BpSafe'
<1> DEFINE S == 1 .. Len(bpSize)
<1>1. PICK k \in Candidates(size, a) : bpStash' = RemoveAt(Stashed, k) /\ Hand(h, Stashed[k], Aligned(0, a), size)
  BY DEF AllocateReclaimed
<1>2. bpHeld[h] = Nothing /\ UNCHANGED <<bpCallbacks, bpSize, bpGrowth, bpLost>>
  BY DEF AllocateReclaimed, Free
<1>3. /\ Stashed \in Seq(S) /\ Len(Stashed) \in Nat /\ DOMAIN Stashed = 1 .. Len(Stashed)
      /\ \A i, j \in DOMAIN Stashed : Stashed[i] = Stashed[j] => i = j
      /\ \A i \in DOMAIN Stashed : Stashed[i] \in S
  BY StashedFacts
<1> DEFINE b == Stashed[k]
           from == Aligned(0, a)
<1>4. k \in 1 .. Len(Stashed) /\ b \in S /\ bpSize[b] >= Needed(size, a) /\ bpRefs[b] = 0
  BY <1>3 DEF Candidates, Reusable
<1>5. Len(bpSize) \in Nat /\ b \in BufferIds /\ bpSize[b] \in Nat /\ b <= Len(bpSize)
  BY <1>4, BufferFacts
<1>6. size \in Nat /\ from \in Nat /\ from + size <= bpSize[b]
  BY <1>4, <1>5, NeededFits
<1>7. \A g \in Holders : bpHeld[g] # Nothing => bpHeld[g].buffer # b
  BY <1>4, <1>5, UnusedHasNoPiece DEF BpSafe
<1>8. Hand(h, b, from, size) /\ MakesRoom(b, from, size) /\ Len(bpSize') \in Nat
  BY <1>1, <1>2, <1>5, <1>6, <1>7 DEF MakesRoom
<1> HIDE DEF from, b
<1>9. /\ bpHeld' \in [Holders -> {Nothing} \cup BufferPieces] /\ bpOffset' \in Nat
      /\ RefsAgree' /\ PiecesInside' /\ PiecesApart'
  BY <1>2, <1>5, <1>6, <1>8, HandSafe
<1>10. /\ bpStash' \in Seq(S) /\ Len(bpStash') = Len(Stashed) - 1
       /\ \A i \in 1 .. Len(Stashed) - 1 : bpStash'[i] = IF i < k THEN Stashed[i] ELSE Stashed[i + 1]
  <2>1. Stashed \in Seq(S) /\ k \in 1 .. Len(Stashed)
    BY <1>3, <1>4
  <2> HIDE DEF S
  <2>2. /\ RemoveAt(Stashed, k) \in Seq(S) /\ Len(RemoveAt(Stashed, k)) = Len(Stashed) - 1
        /\ \A i \in 1 .. Len(Stashed) - 1 : RemoveAt(Stashed, k)[i] = IF i < k THEN Stashed[i] ELSE Stashed[i + 1]
    BY <2>1, RemovedElement
  <2> QED BY <1>1, <2>2
<1>11. DOMAIN bpStash' = 1 .. Len(Stashed) - 1
  BY <1>10, LenProperties
<1>12. bpCurrent' = b
  BY <1>8 DEF Hand
<1>13. BuffersOnce'
  <2>1. \A i \in 1 .. Len(Stashed) - 1 : i \in DOMAIN Stashed /\ i + 1 \in DOMAIN Stashed /\ i \in Nat
    BY <1>3
  <2>2. ASSUME NEW i \in DOMAIN bpStash', NEW j \in DOMAIN bpStash', bpStash'[i] = bpStash'[j] PROVE i = j
    <3> DEFINE At(m) == IF m < k THEN m ELSE m + 1
    <3>1. i \in 1 .. Len(Stashed) - 1 /\ j \in 1 .. Len(Stashed) - 1
      BY <1>11
    <3>2. bpStash'[i] = Stashed[At(i)] /\ bpStash'[j] = Stashed[At(j)] /\ At(i) \in DOMAIN Stashed /\ At(j) \in DOMAIN Stashed
      BY <1>10, <2>1, <3>1
    <3>3. At(i) = At(j)
      BY <1>3, <2>2, <3>2
    <3>4. i \in Nat /\ j \in Nat /\ k \in Nat
      BY <1>3, <1>4, <3>1
    <3> QED BY <3>3, <3>4
  <2>3. ASSUME NEW i \in DOMAIN bpStash' PROVE bpStash'[i] # b
    <3> DEFINE At(m) == IF m < k THEN m ELSE m + 1
    <3>1. i \in 1 .. Len(Stashed) - 1
      BY <1>11
    <3>2. bpStash'[i] = Stashed[At(i)] /\ At(i) \in DOMAIN Stashed
      BY <1>10, <2>1, <3>1
    <3>3. i \in Nat /\ k \in Nat
      BY <1>3, <1>4, <3>1
    <3>4. At(i) # k /\ k \in DOMAIN Stashed
      BY <1>3, <1>4, <3>3
    <3> QED BY <1>3, <3>2, <3>4 DEF b
  <2> QED BY <1>12, <2>2, <2>3 DEF BuffersOnce
<1>14. BpTypeOK'
  BY <1>2, <1>4, <1>9, <1>10, <1>12 DEF BpSafe, BpTypeOK
<1> QED BY <1>9, <1>13, <1>14 DEF BpSafe

\* A piece at the beginning of a new buffer.
LEMMA AllocateNewSafe ==
  ASSUME BpSafe, NEW h \in Holders, NEW size \in PieceSizes, NEW a \in (IF bpCallbacks THEN PieceAlignments ELSE {1}),
         AllocateNew(h, size, a)
  PROVE  BpSafe'
<1> DEFINE n == Len(bpSize)
           g == Grown(size, a)
           from == Aligned(0, a)
<1>1. /\ bpHeld[h] = Nothing /\ n < MaxPoolBuffers /\ bpGrowth' = g
      /\ bpSize' = Append(bpSize, g + HeaderPad) /\ bpStash' = Stashed
      /\ Hand(h, n + 1, from, size) /\ UNCHANGED <<bpCallbacks, bpLost>>
  BY DEF AllocateNew, Free
<1>2. /\ size \in Nat /\ Needed(size, a) \in Nat /\ from \in Nat /\ from + size <= Needed(size, a)
  BY NeededFits
<1>3. g \in Nat /\ g >= Needed(size, a) /\ HeaderPad \in Nat
  <2>1. bpGrowth \in Nat /\ HeaderPad \in Nat
    BY BufferPoolsAssumption DEF BpSafe, BpTypeOK
  <2>2. (3 * bpGrowth + 1) \div 2 \in Nat
    BY <2>1
  <2> QED BY <1>2, <2>1, <2>2 DEF Grown
<1> HIDE DEF g, from
<1>4. g + HeaderPad \in Nat /\ from + size <= g + HeaderPad
  BY <1>2, <1>3
<1>5. bpSize \in Seq(Nat) /\ n \in 2 .. MaxPoolBuffers /\ n \in Nat /\ n + 1 \in BufferIds /\ n + 1 \in 2 .. MaxPoolBuffers
  <2>1. bpSize \in Seq(Nat) /\ n \in 2 .. MaxPoolBuffers /\ MaxPoolBuffers \in Nat
    BY BufferPoolsAssumption DEF BpSafe, BpTypeOK
  <2> HIDE DEF n
  <2>2. n \in Nat /\ n + 1 \in 2 .. MaxPoolBuffers
    BY <1>1, <2>1
  <2> QED BY <2>1, <2>2 DEF BufferIds
<1>6. /\ bpSize' \in Seq(Nat) /\ Len(bpSize') = n + 1
      /\ \A c \in 1 .. n : bpSize'[c] = bpSize[c]
      /\ bpSize'[n + 1] = g + HeaderPad
  BY <1>1, <1>4, <1>5, OneMoreElement
<1>0. Len(bpSize') \in Nat
  BY <1>5, <1>6
<1>7. ASSUME NEW k \in Holders, bpHeld[k] # Nothing PROVE bpHeld[k].buffer # n + 1
  BY <1>5, <1>7 DEF BpSafe, PiecesInside, BpTypeOK, BufferPieces, BufferIds
<1> DEFINE b == n + 1
<1>8. /\ b \in BufferIds /\ Hand(h, b, from, size) /\ Len(bpSize') = b
      /\ n <= b /\ b \in Nat /\ b \in 2 .. MaxPoolBuffers
  BY <1>1, <1>5, <1>6
<1>15. MakesRoom(b, from, size)
  BY <1>1, <1>4, <1>5, <1>6, <1>7, <1>8 DEF MakesRoom
<1> HIDE DEF b
<1>9. /\ bpHeld' \in [Holders -> {Nothing} \cup BufferPieces] /\ bpOffset' \in Nat
      /\ RefsAgree' /\ PiecesInside' /\ PiecesApart'
  BY <1>0, <1>1, <1>2, <1>8, <1>15, HandSafe
<1>10. /\ Stashed \in Seq(1 .. n) /\ Len(Stashed) \in Nat /\ DOMAIN Stashed = 1 .. Len(Stashed)
       /\ \A i, j \in DOMAIN Stashed : Stashed[i] = Stashed[j] => i = j
       /\ \A i \in DOMAIN Stashed : Stashed[i] \in 1 .. n
  BY StashedFacts
<1>11. bpCurrent' = b
  BY <1>8 DEF Hand
<1>12. BuffersOnce'
  BY <1>1, <1>5, <1>10, <1>11 DEF BuffersOnce, b
<1>13. Stashed \in Seq(1 .. Len(bpSize'))
  <2>1. \A i \in DOMAIN Stashed : Stashed[i] \in 1 .. Len(bpSize')
    BY <1>5, <1>8, <1>10 DEF b
  <2> QED BY <1>10, <2>1, LenProperties
<1>14. BpTypeOK'
  BY <1>1, <1>3, <1>6, <1>8, <1>9, <1>11, <1>13 DEF BpSafe, BpTypeOK
<1> QED BY <1>9, <1>12, <1>14 DEF BpSafe

\* No memory for a buffer: the current one is stashed all the same.
LEMMA AllocateThrowsSafe ==
  ASSUME BpSafe, NEW h \in Holders, NEW size \in PieceSizes, NEW a \in (IF bpCallbacks THEN PieceAlignments ELSE {1}),
         AllocateThrows(h, size, a)
  PROVE  BpSafe'
<1>1. /\ bpGrowth' = Grown(size, a) /\ bpStash' = Stashed /\ bpCurrent' = 0 /\ bpOffset' = 0
      /\ UNCHANGED <<bpCallbacks, bpSize, bpRefs, bpHeld, bpLost>>
  BY DEF AllocateThrows
<1>2. Grown(size, a) \in Nat
  <2>1. bpGrowth \in Nat /\ Needed(size, a) \in Nat
    BY NeededFits DEF BpSafe, BpTypeOK
  <2>2. (3 * bpGrowth + 1) \div 2 \in Nat
    BY <2>1
  <2> QED BY <2>1, <2>2 DEF Grown
<1>3. /\ Stashed \in Seq(1 .. Len(bpSize)) /\ \A i, j \in DOMAIN Stashed : Stashed[i] = Stashed[j] => i = j
      /\ \A i \in DOMAIN Stashed : Stashed[i] \in 1 .. Len(bpSize)
  BY StashedFacts
<1>4. Len(bpSize) \in Nat
  BY DEF BpSafe, BpTypeOK
<1>5. BpTypeOK'
  BY <1>1, <1>2, <1>3, <1>4 DEF BpSafe, BpTypeOK
<1>6. BuffersOnce'
  BY <1>1, <1>3, <1>4 DEF BuffersOnce
<1>7. RefsAgree'
  BY <1>1 DEF BpSafe, RefsAgree
<1>8. PiecesInside' /\ PiecesApart'
  BY <1>1, PiecesStay DEF BpSafe, BpTypeOK
<1> QED BY <1>5, <1>6, <1>7, <1>8 DEF BpSafe

\* A step that leaves the pool alone, and only moves pieces among their owners.
LEMMA OwnersMoveSafe ==
  ASSUME BpSafe, UNCHANGED <<bpCallbacks, poolState>>, bpLost' \in [BufferIds -> Nat],
         bpHeld' \in [Holders -> {Nothing} \cup BufferPieces], RefsAgree',
         \A g \in Holders : bpHeld'[g] # Nothing =>
           \E k \in Holders : /\ bpHeld[k] # Nothing /\ bpHeld'[g].buffer = bpHeld[k].buffer
                              /\ bpHeld'[g].from = bpHeld[k].from /\ bpHeld'[g].to = bpHeld[k].to
  PROVE  BpSafe'
<1>1. BpTypeOK'
  BY DEF BpSafe, BpTypeOK, poolState
<1>2. BuffersOnce'
  BY DEF BpSafe, BuffersOnce, poolState
<1>3. PiecesInside' /\ PiecesApart'
  BY PiecesStay DEF BpSafe, poolState
<1> QED BY <1>1, <1>2, <1>3 DEF BpSafe

\* A piece whose owner is farther with it is the same piece.
LEMMA SamePiece ==
  ASSUME NEW p \in BufferPieces, NEW at \in {"construct", "held", "drop"}, NEW q, q = [p EXCEPT !.at = at]
  PROVE  /\ q \in BufferPieces /\ q # Nothing /\ q.buffer = p.buffer /\ q.from = p.from /\ q.to = p.to
         /\ \A b : InBuffer(q, b) = InBuffer(p, b)
<1>1. q \in BufferPieces /\ q.buffer = p.buffer /\ q.from = p.from /\ q.to = p.to
  BY DEF BufferPieces
<1>2. q # Nothing /\ p # Nothing
  BY <1>1, BufferPoolsAssumption
<1> QED BY <1>1, <1>2 DEF InBuffer

\* An owner that only goes on with its piece.
LEMMA GoesOnSafe ==
  ASSUME BpSafe, NEW h \in Holders, bpHeld[h] # Nothing, NEW at \in {"construct", "held", "drop"},
         bpHeld' = [bpHeld EXCEPT ![h].at = at], UNCHANGED <<bpCallbacks, poolState, bpRefs, bpLost>>
  PROVE  BpSafe'
<1> DEFINE p == [bpHeld[h] EXCEPT !.at = at]
<1>1. BpTypeOK /\ RefsAgree /\ bpHeld[h] \in BufferPieces /\ bpHeld \in [Holders -> {Nothing} \cup BufferPieces]
  BY DEF BpSafe, BpTypeOK
<1>2. /\ p \in BufferPieces /\ p # Nothing /\ p.buffer = bpHeld[h].buffer /\ p.from = bpHeld[h].from /\ p.to = bpHeld[h].to
      /\ \A b : InBuffer(p, b) = InBuffer(bpHeld[h], b)
  BY <1>1, SamePiece
<1>3. bpHeld' = [bpHeld EXCEPT ![h] = p]
  OBVIOUS
<1> HIDE DEF p
<1>4. bpHeld' \in [Holders -> {Nothing} \cup BufferPieces] /\ bpHeld'[h] = p /\ \A g \in Holders \ {h} : bpHeld'[g] = bpHeld[g]
  BY <1>1, <1>2, <1>3
<1>5. RefsAgree'
  <2>1. bpRefs' = [b \in BufferIds |-> bpRefs'[b]]
    BY <1>1 DEF RefsAgree
  <2>2. ASSUME NEW b \in BufferIds
        PROVE  /\ bpLost'[b] \in Nat
               /\ bpRefs'[b] = bpRefs[b] - InBuffer(bpHeld[h], b) + InBuffer(p, b) + (bpLost'[b] - bpLost[b])
    <3>1. bpRefs[b] \in Nat /\ bpLost[b] \in Nat
      BY <1>1, CountFacts
    <3>2. InBuffer(p, b) = InBuffer(bpHeld[h], b) /\ InBuffer(p, b) \in {0, 1}
      BY <1>2, AddsOne
    <3> QED BY <3>1, <3>2
  <2> QED BY <1>1, <1>3, <2>1, <2>2, OneOwnerChanges
<1>6. bpLost' \in [BufferIds -> Nat]
  BY <1>1 DEF BpTypeOK
<1>7. ASSUME NEW g \in Holders, bpHeld'[g] # Nothing
      PROVE  \E k \in Holders : /\ bpHeld[k] # Nothing /\ bpHeld'[g].buffer = bpHeld[k].buffer
                                /\ bpHeld'[g].from = bpHeld[k].from /\ bpHeld'[g].to = bpHeld[k].to
  <2>1. bpHeld[g] # Nothing /\ bpHeld'[g].buffer = bpHeld[g].buffer
        /\ bpHeld'[g].from = bpHeld[g].from /\ bpHeld'[g].to = bpHeld[g].to
    BY <1>2, <1>4, <1>7
  <2> QED BY <2>1
<1> QED BY <1>4, <1>5, <1>6, <1>7, OwnersMoveSafe

\* An owner that is left without a piece, while the counts follow.
LEMMA GivesUpSafe ==
  ASSUME BpSafe, NEW h \in Holders, bpHeld[h] # Nothing, bpHeld' = [bpHeld EXCEPT ![h] = Nothing],
         UNCHANGED <<bpCallbacks, poolState>>, bpLost' \in [BufferIds -> Nat], bpRefs' = [b \in BufferIds |-> bpRefs'[b]],
         \A b \in BufferIds : bpRefs'[b] = bpRefs[b] - InBuffer(bpHeld[h], b) + (bpLost'[b] - bpLost[b])
  PROVE  BpSafe'
<1>1. BpTypeOK /\ RefsAgree /\ bpHeld \in [Holders -> {Nothing} \cup BufferPieces]
  BY DEF BpSafe, BpTypeOK
<1>2. bpHeld' \in [Holders -> {Nothing} \cup BufferPieces] /\ \A g \in Holders : bpHeld'[g] # Nothing => bpHeld'[g] = bpHeld[g]
  BY <1>1
<1>3. RefsAgree'
  <2>1. ASSUME NEW b \in BufferIds
        PROVE  /\ bpLost'[b] \in Nat
               /\ bpRefs'[b] = bpRefs[b] - InBuffer(bpHeld[h], b) + InBuffer(Nothing, b) + (bpLost'[b] - bpLost[b])
    <3>1. bpRefs[b] \in Nat /\ bpLost[b] \in Nat /\ bpLost'[b] \in Nat
      BY <1>1, CountFacts
    <3>2. InBuffer(Nothing, b) = 0 /\ InBuffer(bpHeld[h], b) \in {0, 1}
      BY AddsOne DEF InBuffer
    <3> QED BY <3>1, <3>2
  <2> QED BY <1>1, <2>1, OneOwnerChanges
<1>4. ASSUME NEW g \in Holders, bpHeld'[g] # Nothing
      PROVE  \E k \in Holders : /\ bpHeld[k] # Nothing /\ bpHeld'[g].buffer = bpHeld[k].buffer
                                /\ bpHeld'[g].from = bpHeld[k].from /\ bpHeld'[g].to = bpHeld[k].to
  BY <1>2, <1>4
<1> QED BY <1>2, <1>3, <1>4, OwnersMoveSafe

\* A callback whose constructor throws gives its piece up, and what it counted stays.
LEMMA ConstructThrowsSafe ==
  ASSUME BpSafe, NEW h \in Holders, ConstructThrows(h)
  PROVE  BpSafe'
<1> DEFINE c == bpHeld[h].buffer
<1>1. /\ bpHeld[h] # Nothing /\ bpHeld' = [bpHeld EXCEPT ![h] = Nothing]
      /\ bpLost' = [bpLost EXCEPT ![c] = @ + 1] /\ UNCHANGED <<bpCallbacks, poolState, bpRefs>>
  BY DEF ConstructThrows
<1>2. BpTypeOK /\ RefsAgree /\ bpLost \in [BufferIds -> Nat] /\ bpRefs = [b \in BufferIds |-> bpRefs[b]]
  BY DEF BpSafe, BpTypeOK, RefsAgree
<1>3. bpLost' \in [BufferIds -> Nat]
  <2>1. \A b \in BufferIds : bpLost[b] + 1 \in Nat
    BY <1>2
  <2> HIDE DEF c
  <2> QED BY <1>1, <1>2, <2>1
<1>4. ASSUME NEW b \in BufferIds PROVE bpRefs'[b] = bpRefs[b] - InBuffer(bpHeld[h], b) + (bpLost'[b] - bpLost[b])
  <2>1. bpRefs[b] \in Nat /\ bpLost[b] \in Nat
    BY <1>2, CountFacts
  <2>2. InBuffer(bpHeld[h], b) = IF c = b THEN 1 ELSE 0
    BY <1>1 DEF InBuffer
  <2>3. bpLost'[b] = IF c = b THEN bpLost[b] + 1 ELSE bpLost[b]
    BY <1>1, <1>2
  <2> QED BY <1>1, <2>1, <2>2, <2>3
<1> QED BY <1>1, <1>2, <1>3, <1>4, GivesUpSafe

\* The count goes down with the piece.
LEMMA DropPieceSafe ==
  ASSUME BpSafe, NEW h \in Holders, DropPiece(h)
  PROVE  BpSafe'
<1> DEFINE c == bpHeld[h].buffer
<1>1. /\ bpHeld[h] # Nothing /\ bpHeld' = [bpHeld EXCEPT ![h] = Nothing]
      /\ bpRefs' = [bpRefs EXCEPT ![c] = @ - 1] /\ UNCHANGED <<bpCallbacks, poolState, bpLost>>
  BY DEF DropPiece
<1>2. BpTypeOK /\ RefsAgree /\ bpLost \in [BufferIds -> Nat] /\ bpRefs = [b \in BufferIds |-> bpRefs[b]]
  BY DEF BpSafe, BpTypeOK, RefsAgree
<1>3. bpLost' \in [BufferIds -> Nat] /\ bpRefs' = [b \in BufferIds |-> bpRefs'[b]]
  BY <1>1, <1>2
<1>4. ASSUME NEW b \in BufferIds PROVE bpRefs'[b] = bpRefs[b] - InBuffer(bpHeld[h], b) + (bpLost'[b] - bpLost[b])
  <2>1. bpRefs[b] \in Nat /\ bpLost[b] \in Nat
    BY <1>2, CountFacts
  <2>2. InBuffer(bpHeld[h], b) = IF c = b THEN 1 ELSE 0
    BY <1>1 DEF InBuffer
  <2>3. bpRefs'[b] = IF c = b THEN bpRefs[b] - 1 ELSE bpRefs[b]
    BY <1>1, <1>2
  <2> QED BY <1>1, <2>1, <2>2, <2>3
<1> QED BY <1>1, <1>3, <1>4, GivesUpSafe

\* A copied piece counts once more.
LEMMA CopyPieceSafe ==
  ASSUME BpSafe, NEW h \in Holders, NEW g \in Holders, CopyPiece(h, g)
  PROVE  BpSafe'
<1> DEFINE p == bpHeld[h]
<1>1. /\ p # Nothing /\ bpHeld' = [bpHeld EXCEPT ![g] = p]
      /\ bpRefs' = [b \in BufferIds |-> bpRefs[b] + InBuffer(p, b) - InBuffer(bpHeld[g], b)]
      /\ UNCHANGED <<bpCallbacks, poolState, bpLost>>
  BY DEF CopyPiece, Owns
<1>2. BpTypeOK /\ RefsAgree /\ bpHeld \in [Holders -> {Nothing} \cup BufferPieces] /\ bpLost \in [BufferIds -> Nat]
  BY DEF BpSafe, BpTypeOK
<1>3. bpHeld' \in [Holders -> {Nothing} \cup BufferPieces]
  BY <1>1, <1>2
<1>4. ASSUME NEW k \in Holders, bpHeld'[k] # Nothing
      PROVE  \E m \in Holders : /\ bpHeld[m] # Nothing /\ bpHeld'[k].buffer = bpHeld[m].buffer
                                /\ bpHeld'[k].from = bpHeld[m].from /\ bpHeld'[k].to = bpHeld[m].to
  BY <1>1, <1>2, <1>4
<1> HIDE DEF p
<1>5. RefsAgree'
  <2>1. ASSUME NEW b \in BufferIds
        PROVE  /\ bpLost'[b] \in Nat
               /\ bpRefs'[b] = bpRefs[b] - InBuffer(bpHeld[g], b) + InBuffer(p, b) + (bpLost'[b] - bpLost[b])
    <3>1. bpRefs[b] \in Nat /\ bpLost[b] \in Nat
      BY <1>2, CountFacts
    <3>2. InBuffer(bpHeld[g], b) \in {0, 1} /\ InBuffer(p, b) \in {0, 1}
      BY AddsOne
    <3> QED BY <1>1, <3>1, <3>2
  <2>2. bpRefs' = [b \in BufferIds |-> bpRefs'[b]]
    BY <1>1
  <2> QED BY <1>1, <1>2, <2>1, <2>2, OneOwnerChanges
<1> QED BY <1>1, <1>2, <1>3, <1>4, <1>5, OwnersMoveSafe

\* A moved piece changes its owner, and what the new owner had is given up by the old one.
LEMMA MovePieceSafe ==
  ASSUME BpSafe, NEW h \in Holders, NEW g \in Holders, MovePiece(h, g)
  PROVE  BpSafe'
<1> DEFINE p == bpHeld[h]
           q == IF bpHeld[g] = Nothing THEN Nothing ELSE [bpHeld[g] EXCEPT !.at = "drop"]
           first == [bpHeld EXCEPT ![g] = p]
<1>1. /\ p # Nothing /\ h # g /\ bpHeld' = [bpHeld EXCEPT ![g] = p, ![h] = q]
      /\ UNCHANGED <<bpCallbacks, poolState, bpRefs, bpLost>>
  BY DEF MovePiece, Owns
<1>2. BpTypeOK /\ RefsAgree /\ bpHeld \in [Holders -> {Nothing} \cup BufferPieces] /\ bpLost \in [BufferIds -> Nat]
  BY DEF BpSafe, BpTypeOK
<1>3. /\ q \in {Nothing} \cup BufferPieces
      /\ q # Nothing => bpHeld[g] # Nothing /\ q.buffer = bpHeld[g].buffer /\ q.from = bpHeld[g].from /\ q.to = bpHeld[g].to
      /\ \A b : InBuffer(q, b) = InBuffer(bpHeld[g], b)
  <2>1. CASE bpHeld[g] = Nothing
    BY <2>1
  <2>2. CASE bpHeld[g] # Nothing
    <3>1. bpHeld[g] \in BufferPieces /\ q = [bpHeld[g] EXCEPT !.at = "drop"]
      BY <1>2, <2>2
    <3>2. /\ q \in BufferPieces /\ q # Nothing /\ q.buffer = bpHeld[g].buffer /\ q.from = bpHeld[g].from /\ q.to = bpHeld[g].to
          /\ \A b : InBuffer(q, b) = InBuffer(bpHeld[g], b)
      BY <3>1, SamePiece
    <3> QED BY <2>2, <3>2
  <2> QED BY <2>1, <2>2
<1> HIDE DEF q
<1>4. /\ bpHeld' \in [Holders -> {Nothing} \cup BufferPieces] /\ bpHeld'[h] = q /\ bpHeld'[g] = p
      /\ \A k \in Holders \ {g, h} : bpHeld'[k] = bpHeld[k]
  BY <1>1, <1>2, <1>3
<1>5. ASSUME NEW k \in Holders, bpHeld'[k] # Nothing
      PROVE  \E m \in Holders : /\ bpHeld[m] # Nothing /\ bpHeld'[k].buffer = bpHeld[m].buffer
                                /\ bpHeld'[k].from = bpHeld[m].from /\ bpHeld'[k].to = bpHeld[m].to
  <2>1. CASE k = h
    BY <1>3, <1>4, <1>5, <2>1
  <2>2. CASE k = g
    BY <1>1, <1>4, <2>2
  <2>3. CASE k \notin {g, h}
    BY <1>4, <1>5, <2>3
  <2> QED BY <2>1, <2>2, <2>3
<1>6. OneGets(bpHeld, first, g, p) /\ OneGets(first, bpHeld', h, q) /\ first[h] = p
  BY <1>1, <1>2 DEF OneGets
<1> HIDE DEF first
<1>7. ASSUME NEW b \in BufferIds PROVE Cardinality(Using(bpHeld', b)) = Cardinality(Using(bpHeld, b))
  <2>1. Cardinality(Using(first, b)) = Cardinality(Using(bpHeld, b)) - InBuffer(bpHeld[g], b) + InBuffer(p, b)
    BY <1>6, CountChanges
  <2>2. Cardinality(Using(bpHeld', b)) = Cardinality(Using(first, b)) - InBuffer(first[h], b) + InBuffer(q, b)
    BY <1>6, CountChanges
  <2>4. Cardinality(Using(bpHeld, b)) \in Nat
    BY UsingFinite
  <2>5. InBuffer(bpHeld[g], b) \in {0, 1} /\ InBuffer(p, b) \in {0, 1}
    BY AddsOne
  <2>6. InBuffer(q, b) = InBuffer(bpHeld[g], b) /\ InBuffer(first[h], b) = InBuffer(p, b)
    BY <1>3, <1>6
  <2> QED BY <2>1, <2>2, <2>4, <2>5, <2>6
<1>8. RefsAgree'
  BY <1>1, <1>2, <1>7 DEF RefsAgree
<1> QED BY <1>1, <1>2, <1>4, <1>5, <1>8, OwnersMoveSafe

\* Releasing the resources leaves the pieces where they are.
LEMMA ReleaseResourcesSafe ==
  ASSUME BpSafe, ReleaseResources
  PROVE  BpSafe'
<1>1. /\ bpCurrent' = 0 /\ bpOffset' = 0 /\ bpStash' = <<>>
      /\ UNCHANGED <<bpCallbacks, bpSize, bpGrowth, bpRefs, bpHeld, bpLost>>
  BY DEF ReleaseResources
<1>2. Len(bpSize) \in Nat /\ DOMAIN bpStash' = {}
  BY <1>1 DEF BpSafe, BpTypeOK
<1>3. <<>> \in Seq(1 .. Len(bpSize))
  OBVIOUS
<1>4. BpTypeOK'
  BY <1>1, <1>2, <1>3 DEF BpSafe, BpTypeOK
<1>5. BuffersOnce'
  BY <1>2 DEF BuffersOnce
<1>6. RefsAgree'
  BY <1>1 DEF BpSafe, RefsAgree
<1>7. PiecesInside' /\ PiecesApart'
  BY <1>1, PiecesStay DEF BpSafe, BpTypeOK
<1> QED BY <1>4, <1>5, <1>6, <1>7 DEF BpSafe

\* The first two buffers have no pieces.
LEMMA BuffersBeginSafe ==
  ASSUME BpInit
  PROVE  BpSafe
<1>1. /\ bpCallbacks \in BOOLEAN /\ bpCurrent = 2 /\ bpOffset = 0 /\ bpStash = <<1>>
      /\ bpRefs = [b \in BufferIds |-> 0] /\ bpHeld = [h \in Holders |-> Nothing] /\ bpLost = [b \in BufferIds |-> 0]
  BY DEF BpInit
<1>2. PICK s \in Nat : bpGrowth = s /\ bpSize = <<s + HeaderPad, s + HeaderPad>>
  <2>1. Needed(1, 1) \in Nat
    BY BufferPoolsAssumption DEF Needed
  <2> QED BY <2>1, BufferPoolsAssumption DEF BpInit
<1>3. s + HeaderPad \in Nat /\ MaxPoolBuffers \in Nat /\ MaxPoolBuffers >= 2
  BY BufferPoolsAssumption
<1>4. bpSize \in Seq(Nat) /\ Len(bpSize) = 2
  BY <1>2, <1>3
<1>5. bpStash \in Seq(1 .. 2) /\ DOMAIN bpStash = {1} /\ bpStash[1] = 1
  BY <1>1
<1>6. BpTypeOK
  BY <1>1, <1>2, <1>3, <1>4, <1>5 DEF BpTypeOK
<1>7. BuffersOnce
  BY <1>1, <1>5 DEF BuffersOnce
<1>8. RefsAgree
  <2>1. ASSUME NEW b \in BufferIds PROVE Cardinality(Using(bpHeld, b)) + bpLost[b] = 0
    <3>1. Using(bpHeld, b) = {}
      BY <1>1 DEF Using
    <3>2. Cardinality(Using(bpHeld, b)) = 0
      BY <3>1, FS_EmptySet
    <3> QED BY <1>1, <3>2
  <2> QED BY <1>1, <2>1 DEF RefsAgree
<1>9. PiecesInside /\ PiecesApart
  BY <1>1 DEF PiecesInside, PiecesApart
<1> QED BY <1>6, <1>7, <1>8, <1>9 DEF BpSafe

\* Every step of the pools keeps their counts and pieces right.
LEMMA BuffersInvariance ==
  ASSUME BpSafe, [BpNext]_bpVars
  PROVE  BpSafe'
<1>1. ASSUME NEW h \in Holders, NEW size \in PieceSizes, NEW a \in (IF bpCallbacks THEN PieceAlignments ELSE {1}),
             \/ AllocateHere(h, size, a) \/ AllocateReclaimed(h, size, a)
             \/ AllocateNew(h, size, a) \/ AllocateThrows(h, size, a)
      PROVE  BpSafe'
  BY <1>1, AllocateHereSafe, AllocateReclaimedSafe, AllocateNewSafe, AllocateThrowsSafe
<1>2. ASSUME NEW h \in Holders, ConstructPiece(h) PROVE BpSafe'
  <2>1. /\ bpHeld[h] # Nothing /\ bpHeld' = [bpHeld EXCEPT ![h].at = "held"]
        /\ UNCHANGED <<bpCallbacks, poolState, bpRefs, bpLost>>
    BY <1>2 DEF ConstructPiece
  <2> QED BY <2>1, GoesOnSafe
<1>3. ASSUME NEW h \in Holders, DestroyPiece(h) PROVE BpSafe'
  <2>1. /\ bpHeld[h] # Nothing /\ bpHeld' = [bpHeld EXCEPT ![h].at = "drop"]
        /\ UNCHANGED <<bpCallbacks, poolState, bpRefs, bpLost>>
    BY <1>3 DEF DestroyPiece, Owns
  <2> QED BY <2>1, GoesOnSafe
<1>4. ASSUME NEW h \in Holders, ConstructThrows(h) \/ DropPiece(h) PROVE BpSafe'
  BY <1>4, ConstructThrowsSafe, DropPieceSafe
<1>5. ASSUME NEW h \in Holders, NEW g \in Holders, CopyPiece(h, g) \/ MovePiece(h, g) PROVE BpSafe'
  BY <1>5, CopyPieceSafe, MovePieceSafe
<1>6. CASE ReleaseResources
  BY <1>6, ReleaseResourcesSafe
<1>7. CASE UNCHANGED bpVars
  <2>1. bpRefs' = bpRefs /\ bpLost' = bpLost /\ bpHeld' = bpHeld /\ UNCHANGED <<bpCallbacks, poolState>>
    BY <1>7 DEF bpVars
  <2>2. RefsAgree'
    BY <2>1 DEF BpSafe, RefsAgree
  <2> QED BY <2>1, <2>2, OwnersMoveSafe DEF BpSafe, BpTypeOK
<1> QED BY <1>1, <1>2, <1>3, <1>4, <1>5, <1>6, <1>7 DEF BpNext

\* Both pools, for any number of pointers and any sizes and alignments: a count is that of the pieces of its buffer, so
\* that a buffer with a piece is never reclaimed, and pieces that are not copies share no byte of their buffer.
THEOREM BuffersCorrect == BpSpec => []BpSafe
<1> QED BY BuffersBeginSafe, BuffersInvariance, PTL DEF BpSpec

(***************************************************************************)
(* smart_object_pool                                                       *)
(***************************************************************************)

\* The threads with a pointer are finitely many, as all threads are.
LEMMA SomeThreads ==
  ASSUME NEW S, S \subseteq Threads
  PROVE  IsFiniteSet(S) /\ Cardinality(S) \in Nat /\ (Cardinality(S) = 0 <=> S = {})
BY FS_Subset, FS_CardinalityType, FS_EmptySet, PoolAssumption

\* One thread more has a pointer.
LEMMA OneThreadMore ==
  ASSUME NEW S, NEW T, S \subseteq Threads, NEW t \in Threads, t \notin S, T = S \union {t}
  PROVE  Cardinality(T) = Cardinality(S) + 1
BY SomeThreads, FS_AddElement

\* One thread less has a pointer.
LEMMA OneThreadLess ==
  ASSUME NEW S, NEW T, S \subseteq Threads, NEW t \in S, T = S \ {t}
  PROVE  Cardinality(T) = Cardinality(S) - 1
BY SomeThreads, FS_RemoveElement

\* A block has finitely many entries.
LEMMA SomeEntries ==
  ASSUME NEW b \in Blocks, NEW S, S \subseteq OfBlock(b)
  PROVE  IsFiniteSet(S) /\ Cardinality(S) \in Nat /\ (Cardinality(S) = 0 <=> S = {})
<1>1. IsFiniteSet({b})
  BY FS_Singleton
<1>2. 1 \in Int /\ BlockSize \in Int
  BY PoolAssumption
<1>3. IsFiniteSet(1 .. BlockSize)
  BY <1>2, FS_Interval
<1>4. IsFiniteSet(OfBlock(b))
  BY <1>1, <1>3, FS_Product DEF OfBlock
<1> QED BY <1>4, FS_Subset, FS_CardinalityType, FS_EmptySet

\* One object more is in a block.
LEMMA OneObjectMore ==
  ASSUME NEW b \in Blocks, NEW S, NEW T, S \subseteq OfBlock(b), NEW e, e \notin S, T = S \union {e}
  PROVE  Cardinality(T) = Cardinality(S) + 1
BY SomeEntries, FS_AddElement

\* One object less is in a block.
LEMMA OneObjectLess ==
  ASSUME NEW b \in Blocks, NEW S, NEW T, S \subseteq OfBlock(b), NEW e \in S, T = S \ {e}
  PROVE  Cardinality(T) = Cardinality(S) - 1 /\ Cardinality(S) >= 1
<1>1. Cardinality(T) = Cardinality(S) - 1 /\ Cardinality(T) \in Nat /\ Cardinality(S) \in Nat
  BY SomeEntries, FS_RemoveElement
<1> QED BY <1>1

\* What entries and pairs are.
LEMMA EntryShape ==
  /\ \A e \in Entries : e = <<e[1], e[2]>> /\ e[1] \in Blocks /\ e[2] \in 1 .. BlockSize
  /\ \A b \in Blocks, i \in 1 .. BlockSize : <<b, i>> \in Entries
  /\ \A b \in Blocks : \A e \in OfBlock(b) : e \in Entries /\ e[1] = b
  /\ End \notin Entries
  /\ Blocks \subseteq Nat /\ 1 \in Blocks /\ 1 \in 1 .. BlockSize
BY PoolAssumption DEF Entries, Blocks, OfBlock, End

\* An owned entry has an object, an observed one is kept.
LEMMA PointersKeep ==
  ASSUME PoolInv
  PROVE  /\ \A t \in Threads : \A e \in owned[t] :
              Published(e) /\ object[e] = "alive" /\ strong[e].count >= 1
         /\ \A t \in Threads : \A e \in observed[t] :
              weak[e] >= 1 /\ (weak[e] = 1 => ~Occupied(e))
<1> USE DEF PoolInv
<1>1. ASSUME NEW t \in Threads, NEW e \in owned[t]
      PROVE  Published(e) /\ object[e] = "alive" /\ strong[e].count >= 1
  <2>1. e \in Entries /\ t \in Owners(e) /\ Owners(e) \subseteq Threads
    BY <1>1 DEF TypeOK, Owners
  <2>2. Published(e) /\ strong[e].count = Cardinality(Owners(e))
    BY <2>1 DEF StrongInv
  <2>3. Cardinality(Owners(e)) \in Nat /\ Cardinality(Owners(e)) # 0
    BY <2>1, SomeThreads
  <2> QED BY <2>2, <2>3 DEF Published
<1>2. ASSUME NEW t \in Threads, NEW e \in observed[t]
      PROVE  weak[e] >= 1 /\ (weak[e] = 1 => ~Occupied(e))
  <2>1. e \in Entries /\ t \in Observers(e) /\ Observers(e) \subseteq Threads
    BY <1>2 DEF TypeOK, Observers
  <2>2. Cardinality(Observers(e)) \in Nat /\ Cardinality(Observers(e)) # 0
    BY <2>1, SomeThreads
  <2>3. weak[e] = Cardinality(Observers(e)) + (IF Occupied(e) THEN 1 ELSE 0)
    BY <2>1 DEF WeakInv
  <2> QED BY <2>2, <2>3
<1> QED BY <1>1, <1>2

\* An occupied entry is kept, an unused one has no pointers.
LEMMA EntriesKeep ==
  ASSUME PoolInv
  PROVE  /\ \A e \in Entries : Occupied(e) => weak[e] >= 1 /\ ~Unused(e)
         /\ \A e \in Entries : strong[e].count # -1 => Published(e) /\ strong[e].count \in Nat
         /\ \A e \in Entries : Unused(e) =>
              /\ ~Occupied(e) /\ ~Published(e) /\ weak[e] = 0
              /\ \A t \in Threads : e \notin owned[t] /\ e \notin observed[t]
<1> USE DEF PoolInv
<1>1. ASSUME NEW e \in Entries
      PROVE  /\ Occupied(e) => weak[e] >= 1 /\ ~Unused(e)
             /\ strong[e].count # -1 => Published(e) /\ strong[e].count \in Nat
  <2>1. Observers(e) \subseteq Threads /\ Owners(e) \subseteq Threads
    BY DEF Observers, Owners
  <2>2. Cardinality(Observers(e)) \in Nat /\ Cardinality(Owners(e)) \in Nat
    BY <2>1, SomeThreads
  <2>3. weak[e] = Cardinality(Observers(e)) + (IF Occupied(e) THEN 1 ELSE 0)
    BY DEF WeakInv
  <2>4. Occupied(e) => weak[e] >= 1
    BY <2>2, <2>3
  <2>5. Occupied(e) => ~Unused(e)
    BY <2>4 DEF EmptyInv
  <2>6. strong[e].count # -1 => Published(e) /\ strong[e].count \in Nat
    BY <2>2 DEF StrongInv
  <2> QED BY <2>4, <2>5, <2>6
<1>2. ASSUME NEW e \in Entries, Unused(e)
      PROVE  /\ ~Occupied(e) /\ ~Published(e) /\ weak[e] = 0
             /\ \A t \in Threads : e \notin owned[t] /\ e \notin observed[t]
  <2>1. weak[e] = 0 /\ object[e] = "none" /\ ~Occupied(e)
    BY <1>1, <1>2 DEF EmptyInv
  <2>2. ~Published(e)
    BY <2>1 DEF Published
  <2> QED BY <2>1, <2>2, PointersKeep
<1> QED BY <1>1, <1>2

\* What the calls know of their entries.
LEMMA CallsKnow ==
  ASSUME PoolInv, NEW t \in Threads
  PROVE  /\ pc[t] \in EntrySteps => Entry(t) \in Entries
         /\ pc[t] \in {"creating", "deallocating"} => Unused(Entry(t))
         /\ pc[t] \in {"counting", "publishing", "releasing", "swept"} =>
              Occupied(Entry(t)) /\ weak[Entry(t)] >= 1 /\ ~Unused(Entry(t)) /\ ~Published(Entry(t))
<1>1. pc[t] \in EntrySteps => Entry(t) \in Entries
  BY DEF PoolInv, CallsInv
<1>2. pc[t] \in {"creating", "deallocating"} => Unused(Entry(t))
  BY DEF Unused, CallAt
<1>3. pc[t] \in {"counting", "publishing", "releasing", "swept"} =>
        Occupied(Entry(t)) /\ ~Published(Entry(t))
  BY DEF PoolInv, StagesInv, Occupied, Published, CallAt
<1> QED BY <1>1, <1>2, <1>3, EntriesKeep DEF EntrySteps

\* A counter that is set: the entry has the new count at a later version.
LEMMA StrongChanges ==
  ASSUME TypeOK, NEW e \in Entries, NEW c \in Nat \union {-1}, SetStrong(e, c)
  PROVE  /\ strong' \in [Entries -> [count : Nat \union {-1}, version : Nat]]
         /\ strong'[e].count = c /\ strong'[e].version = strong[e].version + 1
         /\ \A x \in Entries \ {e} : strong'[x] = strong[x]
         /\ \A x \in Entries : /\ strong[x].version \in Nat /\ strong[x].count \in Nat \union {-1}
                               /\ strong'[x].version >= strong[x].version
<1> DEFINE r == [count |-> c, version |-> strong[e].version + 1]
<1>1. \A x \in Entries : strong[x].version \in Nat /\ strong[x].count \in Nat \union {-1}
  BY DEF TypeOK
<1>2. strong' = [strong EXCEPT ![e] = r]
  BY DEF SetStrong, TypeOK
<1>3. r \in [count : Nat \union {-1}, version : Nat] /\ r.count = c /\ r.version = strong[e].version + 1
  BY <1>1
<1> HIDE DEF r
<1>4. /\ strong' \in [Entries -> [count : Nat \union {-1}, version : Nat]]
      /\ strong'[e] = r /\ \A x \in Entries \ {e} : strong'[x] = strong[x]
  BY <1>2, <1>3 DEF TypeOK
<1>5. ASSUME NEW x \in Entries PROVE strong'[x].version >= strong[x].version
  <2>1. CASE x = e BY <1>1, <1>3, <1>4, <2>1
  <2>2. CASE x # e BY <1>1, <1>4, <2>2
  <2> QED BY <2>1, <2>2
<1> QED BY <1>1, <1>3, <1>4, <1>5

\* A call that is about another entry.
LEMMA SubjectChanges ==
  ASSUME TypeOK, NEW t \in Threads, NEW e \in Entries, subject' = [subject EXCEPT ![t].entry = e]
  PROVE  /\ subject' \in [Threads -> Subjects]
         /\ Entry(t)' = e
         /\ \A u \in Threads \ {t} : subject'[u] = subject[u]
BY DEF TypeOK, Subjects, Entry

\* Free entries and those of new blocks are with no call.
LEMMA FreeIsApart ==
  ASSUME PoolInv, NEW e \in Entries, e \in free \/ e[1] > block_count
  PROVE  /\ Unused(e)
         /\ \A u \in Threads : e \notin freed[u] /\ (pc[u] \in Handling => Entry(u) # e)
<1>1. Unused(e)
  BY DEF Unused
<1>2. ASSUME NEW u \in Threads, e \in freed[u] PROVE FALSE
  BY <1>2, EntryShape DEF PoolInv, PlacesInv, TypeOK, Blocks
<1>3. ASSUME NEW u \in Threads, pc[u] \in Handling, Entry(u) = e PROVE FALSE
  <2>1. Entry(u)[1] <= block_count
    BY <1>3 DEF PoolInv, PlacesInv
  <2>2. pc[u] \in {"creating", "deallocating"}
    BY <1>1, <1>3, CallsKnow DEF Handling, EntrySteps
  <2>3. e \in free
    BY <2>1, <1>3, EntryShape DEF PoolInv, TypeOK, Blocks
  <2> QED BY <2>2, <2>3, <1>3 DEF PoolInv, PlacesInv, CallAt
<1> QED BY <1>1, <1>2, <1>3

\* A thread that takes a step: who is at some steps with an entry.
LEMMA AtAfterStep ==
  ASSUME NEW t \in Threads, NEW steps, NEW x,
         \A u \in Threads \ {t} : pc'[u] = pc[u] /\ subject'[u] = subject[u]
  PROVE  CallAt(steps, x)' <=> \/ pc'[t] \in steps /\ Entry(t)' = x
                           \/ \E u \in Threads \ {t} : pc[u] \in steps /\ Entry(u) = x
BY DEF CallAt, Entry

\* An object without owners that was not destroyed: no call has its entry.
LEMMA UnownedObject ==
  ASSUME PoolInv, NEW e \in Entries, strong[e].count = 0
  PROVE  /\ Published(e) /\ object[e] = "alive" /\ Occupied(e) /\ Counted(e) /\ ~Unused(e)
         /\ Owners(e) = {}
         /\ \A u \in Threads : e \notin due[u] /\ e \notin owned[u] /\ e \notin freed[u]
                               /\ (pc[u] \in Handling => Entry(u) # e)
         /\ e[1] \in Blocks /\ active[e[1]] - 1 \in Nat
<1>1. Published(e)
  BY EntriesKeep
<1>2. object[e] = "alive" /\ Occupied(e) /\ Counted(e)
  BY <1>1 DEF Published, Occupied, Counted, CallAt
<1>3. ~Unused(e)
  BY <1>2, EntriesKeep
<1>4. \A u \in Threads : e \notin due[u] /\ e \notin owned[u]
  BY PointersKeep DEF PoolInv, DueInv
<1>5. \A u \in Threads : pc[u] \in Handling => Entry(u) # e
  BY <1>1, <1>3, CallsKnow DEF Handling, EntrySteps
<1>6. e[1] \in Blocks /\ e \in OfBlock(e[1])
  BY EntryShape DEF OfBlock
<1>7. active[e[1]] - 1 \in Nat
  <2> DEFINE S == {x \in OfBlock(e[1]) : Counted(x)}
  <2>1. S \subseteq OfBlock(e[1]) /\ e \in S
    BY <1>2, <1>6
  <2>2. active[e[1]] = Cardinality(S)
    BY <1>6 DEF PoolInv, ActiveInv
  <2> HIDE DEF S
  <2>3. Cardinality(S) \in Nat /\ Cardinality(S) # 0
    BY <2>1, <1>6, SomeEntries
  <2> QED BY <2>2, <2>3
<1> QED BY <1>1, <1>2, <1>3, <1>4, <1>5, <1>6, <1>7 DEF Owners, Unused

\* The same objects are counted in every block.
LEMMA SameObjects ==
  ASSUME ActiveInv, active' = active, \A x \in Entries : Counted(x)' <=> Counted(x)
  PROVE  ActiveInv'
<1>1. \A b \in Blocks : {x \in OfBlock(b) : Counted(x)}' = {x \in OfBlock(b) : Counted(x)}
  BY EntryShape
<1> QED BY <1>1 DEF ActiveInv

\* One object more is counted.
LEMMA ObjectCounted ==
  ASSUME TypeOK, ActiveInv, NEW e \in Entries, ~Counted(e), Counted(e)',
         \A x \in Entries \ {e} : Counted(x)' <=> Counted(x),
         active' = [active EXCEPT ![e[1]] = @ + 1]
  PROVE  ActiveInv'
<1> SUFFICES ASSUME NEW b \in Blocks
             PROVE  active'[b] = Cardinality({x \in OfBlock(b) : Counted(x)}')
  BY DEF ActiveInv
<1> DEFINE S == {x \in OfBlock(b) : Counted(x)}
           T == {x \in OfBlock(b) : Counted(x)}'
<1>1. S \subseteq OfBlock(b) /\ active[b] = Cardinality(S)
  BY DEF ActiveInv
<1>2. CASE b = e[1]
  <2>1. e \in OfBlock(b) /\ e \notin S
    BY <1>2, EntryShape DEF OfBlock
  <2>2. T = S \union {e}
    BY <2>1, EntryShape
  <2> HIDE DEF S, T
  <2>3. Cardinality(T) = Cardinality(S) + 1
    BY <1>1, <2>1, <2>2, OneObjectMore
  <2>4. active'[b] = active[b] + 1
    BY <1>2 DEF TypeOK
  <2> QED BY <1>1, <2>3, <2>4 DEF T
<1>3. CASE b # e[1]
  <2>1. T = S
    BY <1>3, EntryShape
  <2>2. active'[b] = active[b]
    BY <1>3 DEF TypeOK
  <2> QED BY <1>1, <2>1, <2>2
<1> QED BY <1>2, <1>3

\* One object less is counted.
LEMMA ObjectUncounted ==
  ASSUME TypeOK, ActiveInv, NEW e \in Entries, Counted(e), ~Counted(e)',
         \A x \in Entries \ {e} : Counted(x)' <=> Counted(x),
         active' = [active EXCEPT ![e[1]] = @ - 1]
  PROVE  ActiveInv'
<1> SUFFICES ASSUME NEW b \in Blocks
             PROVE  active'[b] = Cardinality({x \in OfBlock(b) : Counted(x)}')
  BY DEF ActiveInv
<1> DEFINE S == {x \in OfBlock(b) : Counted(x)}
           T == {x \in OfBlock(b) : Counted(x)}'
<1>1. S \subseteq OfBlock(b) /\ active[b] = Cardinality(S)
  BY DEF ActiveInv
<1>2. CASE b = e[1]
  <2>1. e \in S
    BY <1>2, EntryShape DEF OfBlock
  <2>2. T = S \ {e}
    BY EntryShape
  <2> HIDE DEF S, T
  <2>3. Cardinality(T) = Cardinality(S) - 1
    BY <1>1, <2>1, <2>2, OneObjectLess
  <2>4. active'[b] = active[b] - 1
    BY <1>2 DEF TypeOK
  <2> QED BY <1>1, <2>3, <2>4 DEF T
<1>3. CASE b # e[1]
  <2>1. T = S
    BY <1>3, EntryShape
  <2>2. active'[b] = active[b]
    BY <1>3 DEF TypeOK
  <2> QED BY <1>1, <2>1, <2>2
<1> QED BY <1>2, <1>3

\* An object comes to an entry that was empty, with the reference it keeps.
LEMMA EntryOccupied ==
  ASSUME PoolInv, NEW e \in Entries, Unused(e), Occupied(e)', observed' = observed,
         \A x \in Entries \ {e} : Occupied(x)' <=> Occupied(x),
         weak' = [weak EXCEPT ![e] = 1]
  PROVE  WeakInv'
<1>1. \A x : Observers(x)' = Observers(x)
  BY DEF Observers
<1>2. Cardinality(Observers(e)) = 0
  <2>1. weak[e] = 0 /\ ~Occupied(e)
    BY EntriesKeep
  <2>2. weak[e] = Cardinality(Observers(e)) + 0
    BY <2>1 DEF PoolInv, WeakInv
  <2>3. Cardinality(Observers(e)) \in Nat
    BY SomeThreads DEF Observers
  <2> QED BY <2>1, <2>2, <2>3
<1>3. weak'[e] = 1 /\ \A x \in Entries \ {e} : weak'[x] = weak[x]
  BY DEF PoolInv, TypeOK
<1>4. weak'[e] = Cardinality(Observers(e)') + (IF Occupied(e)' THEN 1 ELSE 0)
  BY <1>1, <1>2, <1>3
<1>5. \A x \in Entries \ {e} : weak'[x] = Cardinality(Observers(x)') + (IF Occupied(x)' THEN 1 ELSE 0)
  BY <1>1, <1>3 DEF PoolInv, WeakInv
<1> QED BY <1>4, <1>5 DEF WeakInv

\* A destroyed object gives its entry back.
LEMMA EntryReleased ==
  ASSUME PoolInv, NEW e \in Entries, Occupied(e), ~Occupied(e)', observed' = observed,
         \A x \in Entries \ {e} : Occupied(x)' <=> Occupied(x),
         weak' = [weak EXCEPT ![e] = @ - 1]
  PROVE  WeakInv'
<1>1. \A x : Observers(x)' = Observers(x)
  BY DEF Observers
<1>2. Cardinality(Observers(e)) \in Nat /\ weak[e] = Cardinality(Observers(e)) + 1
  BY SomeThreads DEF PoolInv, WeakInv, Observers
<1>3. weak'[e] = weak[e] - 1 /\ \A x \in Entries \ {e} : weak'[x] = weak[x]
  BY DEF PoolInv, TypeOK
<1>4. weak'[e] = Cardinality(Observers(e)') + (IF Occupied(e)' THEN 1 ELSE 0)
  BY <1>1, <1>2, <1>3
<1>5. \A x \in Entries \ {e} : weak'[x] = Cardinality(Observers(x)') + (IF Occupied(x)' THEN 1 ELSE 0)
  BY <1>1, <1>3 DEF PoolInv, WeakInv
<1> QED BY <1>4, <1>5 DEF WeakInv

\* The count of one entry changes as its owners do.
LEMMA OwnersChange ==
  ASSUME PoolInv, NEW e \in Entries, Published(e)',
         NEW c \in Nat \union {-1}, SetStrong(e, c), c = Cardinality(Owners(e)'),
         \A x \in Entries \ {e} : (Published(x)' <=> Published(x)) /\ Owners(x)' = Owners(x)
  PROVE  StrongInv'
<1>1. strong'[e].count = c /\ \A x \in Entries \ {e} : strong'[x] = strong[x]
  BY StrongChanges DEF PoolInv
<1> QED BY <1>1 DEF PoolInv, StrongInv

\* An iterator moves within a block.
LEMMA TargetMoves ==
  ASSUME TypeOK, NEW t \in Threads, target[t] # End, NEW i \in 1 .. BlockSize + 1,
         target' = [target EXCEPT ![t][2] = i]
  PROVE  /\ target' \in [Threads -> (Blocks \X (1 .. BlockSize + 1)) \union {End}]
         /\ target'[t] = <<target[t][1], i>> /\ target'[t] # End
         /\ \A u \in Threads \ {t} : target'[u] = target[u]
<1>1. target[t] \in Blocks \X (1 .. BlockSize + 1) /\ 0 \notin Blocks
  BY DEF TypeOK, Blocks
<1>2. [target[t] EXCEPT ![2] = i] = <<target[t][1], i>>
  BY <1>1
<1>3. target' = [target EXCEPT ![t] = <<target[t][1], i>>]
  BY <1>2
<1>4. <<target[t][1], i>> \in Blocks \X (1 .. BlockSize + 1) /\ <<target[t][1], i>> # End
  BY <1>1 DEF End
<1> QED BY <1>3, <1>4 DEF TypeOK

\* An object without owners is destroyed by a call that has its entry from then on.
LEMMA ObjectDestroyed ==
  ASSUME PoolInv, NEW t \in Threads, NEW e \in Entries, NEW s \in {"releasing", "swept"},
         strong[e].count = 0, Destroy(e), pc' = [pc EXCEPT ![t] = s],
         pc[t] \in {"destroying", "sweeping"},
         Entry(t)' = e, \A u \in Threads \ {t} : subject'[u] = subject[u],
         UNCHANGED <<weak, storage, pointers, iterators, freed>>
  PROVE  /\ strong' \in [Entries -> [count : Nat \union {-1}, version : Nat]]
         /\ object' \in [Entries -> {"none", "alive", "failed"}]
         /\ active' \in [Blocks -> Nat]
         /\ PlacesInv' /\ EmptyInv' /\ StagesInv' /\ WeakInv' /\ StrongInv' /\ ActiveInv'
         /\ VersionsBound' /\ StandInv' /\ DueInv'
<1>1. TypeOK
  BY DEF PoolInv
<1>2. /\ strong' \in [Entries -> [count : Nat \union {-1}, version : Nat]]
      /\ strong'[e].count = -1 /\ \A x \in Entries \ {e} : strong'[x] = strong[x]
      /\ \A x \in Entries : /\ strong[x].version \in Nat /\ strong'[x].version \in Nat
                            /\ strong'[x].version >= strong[x].version
  BY <1>1, StrongChanges DEF Destroy
<1>3. /\ Published(e) /\ object[e] = "alive" /\ Occupied(e) /\ Counted(e) /\ ~Unused(e)
      /\ \A u \in Threads : e \notin due[u] /\ e \notin owned[u] /\ e \notin freed[u]
                            /\ (pc[u] \in Handling => Entry(u) # e)
      /\ e[1] \in Blocks /\ active[e[1]] - 1 \in Nat
  BY UnownedObject
<1>4. /\ object' \in [Entries -> {"none", "alive", "failed"}] /\ object'[e] = "none"
      /\ \A x \in Entries \ {e} : object'[x] = object[x]
  BY <1>1 DEF Destroy, TypeOK
<1>5. active' \in [Blocks -> Nat] /\ active' = [active EXCEPT ![e[1]] = @ - 1]
  BY <1>1, <1>3 DEF Destroy, TypeOK
<1>6. /\ pc'[t] = s /\ pc[t] \notin Handling
      /\ \A u \in Threads \ {t} : pc'[u] = pc[u] /\ Entry(u)' = Entry(u)
      /\ free' = free /\ freed' = freed /\ block_count' = block_count /\ weak' = weak
      /\ owned' = owned /\ observed' = observed /\ target' = target /\ due' = due
  BY <1>1 DEF TypeOK, Handling, EntrySteps, Entry, storage, pointers, iterators
<1>7. \A x : Unused(x)' <=> Unused(x)
  BY <1>6 DEF Unused, CallAt
<1>8. PlacesInv'
  <2>1. e[1] <= block_count
    BY <1>1, <1>3, EntryShape DEF Unused, TypeOK, Blocks
  <2>2. \A x, steps : steps \subseteq {"creating", "deallocating"} => (CallAt(steps, x)' <=> CallAt(steps, x))
    BY <1>6 DEF CallAt
  <2> QED BY <2>1, <2>2, <1>3, <1>6 DEF PoolInv, PlacesInv, Handling, EntrySteps
<1>9. EmptyInv'
  BY <1>2, <1>3, <1>4, <1>6, <1>7 DEF PoolInv, EmptyInv
<1>10. StagesInv'
  BY <1>3, <1>4, <1>6 DEF PoolInv, StagesInv, CallsInv, Handling, EntrySteps
<1>11. WeakInv'
  <2>1. \A x \in Entries : Occupied(x)' <=> Occupied(x)
    BY <1>3, <1>4, <1>6 DEF Occupied, CallAt
  <2>2. \A x : Observers(x)' = Observers(x)
    BY <1>6 DEF Observers
  <2> QED BY <2>1, <2>2, <1>6 DEF PoolInv, WeakInv
<1>12. \A x \in Entries \ {e} : (Published(x)' <=> Published(x)) /\ (Counted(x)' <=> Counted(x))
  BY <1>4, <1>6 DEF Published, Counted, CallAt, Handling, EntrySteps
<1>13. StrongInv'
  <2>1. Owners(e)' = {} /\ \A x : Owners(x)' = Owners(x)
    BY <1>3, <1>6 DEF Owners
  <2>2. ~Published(e)'
    BY <1>4 DEF Published
  <2> QED BY <1>2, <1>12, <2>1, <2>2 DEF PoolInv, StrongInv
<1>14. ActiveInv'
  <2>1. ~Counted(e)'
    BY <1>4 DEF Counted
  <2> QED BY <1>1, <1>3, <1>5, <1>12, <2>1, ObjectUncounted DEF PoolInv
<1>15. VersionsBound'
  <2> SUFFICES ASSUME NEW u \in Threads,
                      pc'[u] \in {"dropped", "deferring", "marking", "destroying"}
               PROVE  subject'[u].version <= strong'[Entry(u)'].version
    BY DEF VersionsBound
  <2>1. u # t /\ pc[u] = pc'[u] /\ subject'[u] = subject[u] /\ Entry(u)' = Entry(u) /\ Entry(u) \in Entries
    BY <1>6 DEF PoolInv, CallsInv, EntrySteps
  <2>2. subject[u].version <= strong[Entry(u)].version /\ subject[u].version \in Nat
    BY <1>1, <2>1 DEF PoolInv, VersionsBound, TypeOK, Subjects
  <2> QED BY <1>2, <2>1, <2>2
<1>16. StandInv'
  <2> SUFFICES ASSUME NEW u \in Threads, NEW v \in Threads, pc'[v] = "destroying",
                      Destroyable(Entry(v), subject[v].version)', Stands(u)'
               PROVE  target'[u] # Entry(v)'
    BY DEF StandInv
  <2>1. v # t /\ pc[v] = "destroying" /\ subject'[v] = subject[v] /\ Entry(v)' = Entry(v)
        /\ Entry(v) \in Entries
    BY <1>6 DEF PoolInv, CallsInv, EntrySteps
  <2>2. Stands(u)
    BY <1>6 DEF Stands, Seeking
  <2>3. Entry(v) # e /\ Destroyable(Entry(v), subject[v].version)
    BY <1>2, <2>1 DEF Destroyable
  <2> QED BY <1>6, <2>1, <2>2, <2>3 DEF PoolInv, StandInv
<1>17. DueInv'
  <2> SUFFICES ASSUME NEW u \in Threads, NEW x \in due[u]
               PROVE  /\ strong'[x].count >= 1
                      /\ pc'[u] # "beginning" => target'[u] # End /\ Ahead(u, x)'
    BY <1>6 DEF DueInv
  <2>1. x \in Entries \ {e} /\ strong'[x] = strong[x]
    BY <1>1, <1>2, <1>3 DEF TypeOK
  <2>2. (pc'[u] # "beginning" <=> pc[u] # "beginning") /\ (pc'[u] \in Seeking <=> pc[u] \in Seeking)
    BY <1>6 DEF Seeking
  <2>3. strong[x].count >= 1 /\ (pc[u] # "beginning" => target[u] # End /\ Ahead(u, x))
    BY DEF PoolInv, DueInv
  <2>4. target'[u] = target[u] /\ (Ahead(u, x)' <=> Ahead(u, x))
    BY <1>6, <2>2 DEF Ahead
  <2> QED BY <2>1, <2>2, <2>3, <2>4
<1> QED BY <1>2, <1>4, <1>5, <1>8, <1>9, <1>10, <1>11, <1>13, <1>14, <1>15, <1>16, <1>17

\* Versions only grow: none of a call gets ahead, unless the call is new.
LEMMA VersionsGrow ==
  ASSUME PoolInv,
         \A x \in Entries : /\ strong[x].version \in Nat /\ strong'[x].version \in Nat
                            /\ strong'[x].version >= strong[x].version,
         \A u \in Threads : pc'[u] \in {"dropped", "deferring", "marking", "destroying"} =>
           \/ /\ pc[u] \in {"dropped", "deferring", "marking", "destroying"}
              /\ subject'[u] = subject[u]
           \/ subject'[u].version <= strong'[Entry(u)'].version
  PROVE  VersionsBound'
<1> SUFFICES ASSUME NEW u \in Threads,
                    pc[u] \in {"dropped", "deferring", "marking", "destroying"},
                    subject'[u] = subject[u]
             PROVE  subject'[u].version <= strong'[Entry(u)'].version
  BY DEF VersionsBound
<1>1. Entry(u) \in Entries /\ Entry(u)' = Entry(u)
  BY DEF PoolInv, CallsInv, EntrySteps, Entry
<1>2. subject[u].version <= strong[Entry(u)].version /\ subject[u].version \in Nat
  BY DEF PoolInv, VersionsBound, TypeOK, Subjects
<1> QED BY <1>1, <1>2

\* A published object is counted, in a block that exists.
LEMMA ObjectsCounted ==
  ASSUME PoolInv, NEW e \in Entries, Published(e)
  PROVE  active[e[1]] # 0 /\ e[1] <= block_count
<1>1. Counted(e) /\ Occupied(e)
  BY DEF Published, Counted, Occupied, CallAt
<1>2. e[1] <= block_count
  BY <1>1, EntriesKeep, EntryShape DEF Unused, PoolInv, TypeOK
<1>3. e[1] \in Blocks /\ e \in OfBlock(e[1])
  BY EntryShape DEF OfBlock
<1> DEFINE S == {x \in OfBlock(e[1]) : Counted(x)}
<1>4. S \subseteq OfBlock(e[1]) /\ e \in S /\ active[e[1]] = Cardinality(S)
  BY <1>1, <1>3 DEF PoolInv, ActiveInv
<1> HIDE DEF S
<1>5. Cardinality(S) # 0
  BY <1>3, <1>4, SomeEntries
<1> QED BY <1>2, <1>4, <1>5

\* The next block, or the end.
LEMMA NextBlockTaken ==
  ASSUME PoolInv, NEW t \in Threads, target[t] # End, NextBlock(t)
  PROVE  /\ target' \in [Threads -> (Blocks \X (1 .. BlockSize + 1)) \union {End}]
         /\ pc' \in [Threads -> Steps]
         /\ \A u \in Threads \ {t} : target'[u] = target[u] /\ pc'[u] = pc[u]
         /\ \/ /\ target[t][1] < block_count
               /\ target'[t] = <<target[t][1] + 1, 1>> /\ target'[t] # End
               /\ pc'[t] = "blocks"
            \/ /\ ~(target[t][1] < block_count)
               /\ target'[t] = End /\ pc'[t] = "idle"
<1>1. target[t] \in Blocks \X (1 .. BlockSize + 1) /\ target[t][1] \in Blocks /\ block_count <= MaxBlocks
      /\ block_count \in Nat /\ MaxBlocks \in Nat
  BY PoolAssumption DEF PoolInv, TypeOK
<1>2. CASE target[t][1] < block_count
  <2>1. target[t][1] + 1 \in Blocks /\ 1 \in 1 .. BlockSize + 1
    BY <1>1, <1>2, PoolAssumption DEF Blocks
  <2>2. <<target[t][1] + 1, 1>> \in Blocks \X (1 .. BlockSize + 1)
    BY <2>1
  <2>3. <<target[t][1] + 1, 1>> # End
    BY DEF End
  <2>4. target' = [target EXCEPT ![t] = <<target[t][1] + 1, 1>>] /\ pc' = [pc EXCEPT ![t] = "blocks"]
    BY <1>2 DEF NextBlock, Goto, PoolInv, TypeOK
  <2> QED BY <1>2, <2>2, <2>3, <2>4 DEF PoolInv, TypeOK, Steps
<1>3. CASE ~(target[t][1] < block_count)
  <2>1. target' = [target EXCEPT ![t] = End] /\ pc' = [pc EXCEPT ![t] = "idle"]
    BY <1>3 DEF NextBlock, Goto
  <2> QED BY <1>3, <2>1 DEF PoolInv, TypeOK, Steps
<1> QED BY <1>2, <1>3

\* A step that leaves entries, pointers and the calls that have an entry alone.
LEMMA EntriesUntouched ==
  ASSUME PoolInv, UNCHANGED <<counts, storage, pointers, freed>>,
         \A u \in Threads : pc[u] \in Handling \/ pc'[u] \in Handling =>
                              pc'[u] = pc[u] /\ Entry(u)' = Entry(u)
  PROVE  PlacesInv' /\ EmptyInv' /\ StagesInv' /\ WeakInv' /\ StrongInv' /\ ActiveInv'
<1>1. /\ weak' = weak /\ strong' = strong /\ object' = object /\ active' = active
      /\ free' = free /\ freed' = freed /\ block_count' = block_count
      /\ owned' = owned /\ observed' = observed
  BY DEF counts, storage, pointers
<1>2. \A x, steps : steps \subseteq Handling => (CallAt(steps, x)' <=> CallAt(steps, x))
  BY DEF CallAt
<1>3. \A x : /\ CallAt({"creating", "deallocating"}, x)' <=> CallAt({"creating", "deallocating"}, x)
             /\ CallAt({"releasing", "swept"}, x)' <=> CallAt({"releasing", "swept"}, x)
             /\ CallAt({"counting", "publishing"}, x)' <=> CallAt({"counting", "publishing"}, x)
             /\ CallAt({"counting"}, x)' <=> CallAt({"counting"}, x)
  BY <1>2 DEF Handling, EntrySteps
<1>4. \A x : /\ Unused(x)' <=> Unused(x)
             /\ Occupied(x)' <=> Occupied(x)
             /\ Published(x)' <=> Published(x)
             /\ Counted(x)' <=> Counted(x)
  BY <1>1, <1>3 DEF Unused, Occupied, Published, Counted
<1>5. \A x : Observers(x)' = Observers(x) /\ Owners(x)' = Owners(x)
  BY <1>1 DEF Observers, Owners
<1>6. PlacesInv'
  BY <1>1, <1>3 DEF PoolInv, PlacesInv
<1>7. EmptyInv'
  BY <1>1, <1>4 DEF PoolInv, EmptyInv
<1>8. StagesInv'
  BY <1>1 DEF PoolInv, StagesInv, Handling, EntrySteps
<1>9. WeakInv'
  BY <1>1, <1>4, <1>5 DEF PoolInv, WeakInv
<1>10. StrongInv'
  BY <1>1, <1>4, <1>5 DEF PoolInv, StrongInv
<1>11. ActiveInv'
  BY <1>1, <1>4, SameObjects DEF PoolInv
<1> QED BY <1>6, <1>7, <1>8, <1>9, <1>10, <1>11

\* A thread that takes an entry preserves the invariant.
LEMMA AllocateSafe ==
  ASSUME PoolInv, NEW t \in Threads, Allocate(t)
  PROVE  PoolInv'
<1>a. PICK e \in Entries :
        /\ e \in free \/ e[1] > block_count
        /\ subject' = [subject EXCEPT ![t].entry = e]
        /\ e[1] <= block_count' /\ block_count <= block_count' /\ block_count' \in 0 .. MaxBlocks
        /\ \A x \in free' : /\ x \in Entries /\ x # e /\ x[1] <= block_count'
                            /\ x \in free \/ x[1] > block_count
  <2>1. CASE free # {}
    <3>1. PICK e \in free : subject' = [subject EXCEPT ![t].entry = e] /\ free' = free \ {e}
      BY <2>1 DEF Allocate
    <3>2. block_count' = block_count /\ block_count \in 0 .. MaxBlocks /\ free \subseteq Entries
      BY <2>1 DEF Allocate, PoolInv, TypeOK
    <3>3. \A x \in free : x[1] <= block_count
      BY DEF PoolInv, PlacesInv
    <3>4. /\ e \in Entries /\ (e \in free \/ e[1] > block_count)
          /\ subject' = [subject EXCEPT ![t].entry = e]
          /\ e[1] <= block_count' /\ block_count <= block_count' /\ block_count' \in 0 .. MaxBlocks
          /\ \A x \in free' : /\ x \in Entries /\ x # e /\ x[1] <= block_count'
                              /\ x \in free \/ x[1] > block_count
      BY <3>1, <3>2, <3>3
    <3> QED BY <3>4
  <2>2. CASE free = {}
    <3>1. block_count + 1 \in Blocks /\ block_count < MaxBlocks /\ block_count' = block_count + 1
          /\ block_count \in 0 .. MaxBlocks
      BY <2>2, PoolAssumption DEF Allocate, PoolInv, TypeOK, Blocks
    <3>2. \A x \in OfBlock(block_count + 1) : x \in Entries /\ x[1] = block_count + 1
      BY <3>1, EntryShape
    <3>3. PICK e \in OfBlock(block_count + 1) : subject' = [subject EXCEPT ![t].entry = e]
                                                /\ free' = OfBlock(block_count + 1) \ {e}
      BY <2>2 DEF Allocate
    <3>4. e \in Entries /\ e[1] = block_count + 1
      BY <3>2, <3>3
    <3>5. /\ e \in Entries /\ (e \in free \/ e[1] > block_count)
          /\ subject' = [subject EXCEPT ![t].entry = e]
          /\ e[1] <= block_count' /\ block_count <= block_count' /\ block_count' \in 0 .. MaxBlocks
          /\ \A x \in free' : /\ x \in Entries /\ x # e /\ x[1] <= block_count'
                              /\ x \in free \/ x[1] > block_count
      BY <3>1, <3>2, <3>3, <3>4, PoolAssumption
    <3> QED BY <3>5
  <2> QED BY <2>1, <2>2
<1>b. \A x \in Entries : (x \in free \/ x[1] > block_count) =>
        /\ Unused(x)
        /\ \A u \in Threads : x \notin freed[u] /\ (pc[u] \in Handling => Entry(u) # x)
  BY FreeIsApart
<1>c. /\ subject' \in [Threads -> Subjects] /\ Entry(t)' = e
      /\ \A u \in Threads \ {t} : subject'[u] = subject[u] /\ Entry(u)' = Entry(u)
  BY <1>a, SubjectChanges DEF PoolInv, Entry
<1>d. /\ pc[t] = "idle" /\ pc'[t] = "creating" /\ pc' \in [Threads -> Steps]
      /\ \A u \in Threads \ {t} : pc'[u] = pc[u]
  BY DEF Allocate, Goto, PoolInv, TypeOK, Steps
<1>1. TypeOK'
  BY <1>a, <1>c, <1>d DEF Allocate, OfBlock, counts, storage, deferred, pointers, iterators,
     calls, Goto, Return, SetStrong, Entry, PoolInv, TypeOK
<1>2. CallsInv'
  BY <1>a, <1>c, <1>d DEF Allocate, OfBlock, counts, storage, deferred, pointers, iterators,
     calls, Goto, Return, SetStrong, Entry, PoolInv, CallsInv, EntrySteps
<1>3. PlacesInv'
  <2>1. \A x \in free' : ~CallAt({"creating", "deallocating"}, x)'
    BY <1>a, <1>b, <1>c, <1>d DEF CallAt, Handling, EntrySteps
  <2>2. freed' = freed
    BY DEF Allocate
  <2>3. ASSUME NEW u \in Threads, NEW x \in freed[u]
        PROVE  x[1] <= block_count' /\ x \notin free' /\ ~CallAt({"creating", "deallocating"}, x)'
    <3>1. x \in Entries /\ x[1] <= block_count /\ x \notin free /\ ~CallAt({"creating", "deallocating"}, x)
          /\ x # e
      BY <1>a, <1>b DEF PoolInv, PlacesInv, TypeOK
    <3>2. block_count \in Nat /\ block_count' \in Nat /\ x[1] \in Nat
      BY <1>a, <3>1, EntryShape DEF PoolInv, TypeOK
    <3>3. x[1] <= block_count' /\ x \notin free'
      BY <1>a, <3>1, <3>2
    <3> QED BY <3>1, <3>3, <1>c, <1>d DEF CallAt
  <2>4. ASSUME NEW u \in Threads, pc'[u] \in Handling PROVE Entry(u)'[1] <= block_count'
    <3>1. CASE u = t BY <3>1, <1>a, <1>c
    <3>2. CASE u # t
      <4>1. Entry(u) \in Entries /\ Entry(u)[1] <= block_count /\ Entry(u)' = Entry(u)
        BY <3>2, <2>4, <1>c, <1>d DEF PoolInv, PlacesInv, CallsInv, Handling
      <4> QED BY <4>1, <1>a, EntryShape DEF PoolInv, TypeOK
    <3> QED BY <3>1, <3>2
  <2>5. \A u, v \in Threads : u # v /\ pc'[u] \in Handling /\ pc'[v] \in Handling => Entry(u)' # Entry(v)'
    BY <1>a, <1>b, <1>c, <1>d DEF PoolInv, PlacesInv
  <2> QED BY <1>a, <2>1, <2>2, <2>3, <2>4, <2>5 DEF PoolInv, PlacesInv
<1>4. EmptyInv'
  BY EntryShape, PointersKeep, EntriesKeep, CallsKnow DEF PoolInv, Allocate, OfBlock, counts,
     storage, deferred, pointers, iterators, calls, Goto, Return, SetStrong, Entry, TypeOK,
     CallsInv, PlacesInv, EmptyInv, Unused, CallAt, Occupied, Handling, EntrySteps
<1>5. StagesInv'
  BY PointersKeep, EntriesKeep, CallsKnow DEF PoolInv, Allocate, OfBlock, counts, storage,
     deferred, pointers, iterators, calls, Goto, Return, SetStrong, Entry, TypeOK, CallsInv,
     PlacesInv, StagesInv, Published, CallAt, Occupied, Handling, EntrySteps
<1>6. WeakInv'
  <2>1. weak' = weak /\ \A x : Observers(x)' = Observers(x)
    BY DEF Allocate, OfBlock, counts, storage, deferred, pointers, iterators, calls, Goto, Return,
       SetStrong, Entry, Observers
  <2>2. \A x \in Entries : Occupied(x)' <=> Occupied(x)
    BY CallsKnow DEF Allocate, OfBlock, counts, storage, deferred, pointers, iterators, calls,
       Goto, Return, SetStrong, Entry, PoolInv, TypeOK, Occupied, CallAt, PlacesInv, Handling,
       EntrySteps
  <2> QED BY <2>1, <2>2 DEF PoolInv, WeakInv
<1>7. StrongInv'
  <2>1. strong' = strong /\ \A x : Owners(x)' = Owners(x)
    BY DEF Allocate, OfBlock, counts, storage, deferred, pointers, iterators, calls, Goto, Return,
       SetStrong, Entry, Owners
  <2>2. \A x \in Entries : Published(x)' <=> Published(x)
    BY CallsKnow DEF Allocate, OfBlock, counts, storage, deferred, pointers, iterators, calls,
       Goto, Return, SetStrong, Entry, PoolInv, TypeOK, Published, CallAt, PlacesInv, Handling,
       EntrySteps
  <2> QED BY <2>1, <2>2 DEF PoolInv, StrongInv
<1>8. ActiveInv'
  <2>1. active' = active
    BY DEF Allocate, OfBlock, counts, storage, deferred, pointers, iterators, calls, Goto, Return,
       SetStrong, Entry
  <2>2. \A x \in Entries : Counted(x)' <=> Counted(x)
    BY CallsKnow DEF Allocate, OfBlock, counts, storage, deferred, pointers, iterators, calls,
       Goto, Return, SetStrong, Entry, PoolInv, TypeOK, Counted, CallAt, PlacesInv, Handling,
       EntrySteps
  <2>3. \A b \in Blocks : {x \in OfBlock(b) : Counted(x)}' = {x \in OfBlock(b) : Counted(x)}
    BY <2>2, EntryShape
  <2> QED BY <2>1, <2>3 DEF PoolInv, ActiveInv
<1>9. VersionsBound'
  BY DEF PoolInv, Allocate, OfBlock, counts, storage, deferred, pointers, iterators, calls, Goto,
     Return, SetStrong, Entry, TypeOK, CallsInv, VersionsBound, EntrySteps
<1>10. IteratorsInv'
  BY EntryShape, PoolAssumption DEF PoolInv, Allocate, OfBlock, counts, storage, deferred,
     pointers, iterators, calls, Goto, Return, SetStrong, Entry, TypeOK, IteratorsInv, Stands,
     Seeking, End
<1>11. SerialInv'
  BY PointersKeep, EntriesKeep, CallsKnow DEF PoolInv, Allocate, OfBlock, counts, storage,
     deferred, pointers, iterators, calls, Goto, Return, SetStrong, Entry, TypeOK, CallsInv,
     IteratorsInv, SerialInv, Stands, Seeking, Sweeping
<1>12. StandInv'
  <2> SUFFICES ASSUME NEW u \in Threads, NEW v \in Threads, pc'[v] = "destroying",
                      Destroyable(Entry(v), subject[v].version)', Stands(u)'
               PROVE  target'[u] # Entry(v)'
    BY DEF StandInv
  <2>1. v # t /\ pc[v] = "destroying" /\ subject'[v] = subject[v] /\ Entry(v)' = Entry(v)
    BY <1>c, <1>d
  <2>2. Stands(u) /\ target' = target /\ strong' = strong
    BY <1>d DEF Allocate, OfBlock, counts, storage, deferred, pointers, iterators, calls, Goto,
       Return, SetStrong, Entry, Stands, Seeking
  <2>3. Destroyable(Entry(v), subject[v].version)
    BY <2>1, <2>2 DEF Destroyable
  <2> QED BY <2>1, <2>2, <2>3 DEF PoolInv, StandInv
<1>13. DueInv'
  BY EntryShape, PointersKeep, EntriesKeep, CallsKnow DEF PoolInv, Allocate, OfBlock, counts,
     storage, deferred, pointers, iterators, calls, Goto, Return, SetStrong, Entry, TypeOK,
     DueInv, Ahead, IteratorsInv, Stands, Seeking, End, Unused, EmptyInv
<1>14. DestructionDue'
  BY DEF PoolInv, Allocate, OfBlock, counts, storage, deferred, pointers, iterators, calls, Goto,
     Return, SetStrong, Entry, TypeOK, CallsInv, DestructionDue, Destroyable, EntrySteps
<1> QED BY <1>1, <1>2, <1>3, <1>4, <1>5, <1>6, <1>7, <1>8, <1>9, <1>10, <1>11, <1>12, <1>13,
   <1>14 DEF PoolInv

\* A new block preserves the invariant.
LEMMA ReserveSafe ==
  ASSUME PoolInv, NEW t \in Threads, Reserve(t)
  PROVE  PoolInv'
<1>a. /\ block_count + 1 \in Blocks /\ block_count' = block_count + 1 /\ block_count \in Nat
      /\ block_count' \in 0 .. MaxBlocks
  BY PoolAssumption DEF Reserve, PoolInv, TypeOK, Blocks
<1>b. \A x \in OfBlock(block_count + 1) : x \in Entries /\ x[1] = block_count + 1 /\ x[1] > block_count
  BY <1>a, EntryShape
<1>c. \A x \in Entries : (x \in free \/ x[1] > block_count) =>
        /\ Unused(x)
        /\ \A u \in Threads : x \notin freed[u] /\ (pc[u] \in Handling => Entry(u) # x)
  BY FreeIsApart
<1>d. /\ free' = free \union OfBlock(block_count + 1)
      /\ freed' = freed /\ pc' = pc /\ subject' = subject /\ \A u : Entry(u)' = Entry(u)
  BY DEF Reserve, calls, Entry
<1>1. TypeOK'
  BY <1>a, <1>b DEF Reserve, OfBlock, counts, storage, deferred, pointers, iterators, calls, Goto,
     Return, SetStrong, Entry, PoolInv, TypeOK
<1>2. CallsInv'
  BY EntryShape DEF PoolInv, Reserve, OfBlock, counts, storage, deferred, pointers, iterators,
     calls, Goto, Return, SetStrong, Entry, TypeOK, CallsInv, EntrySteps, NoSubject
<1>3. PlacesInv'
  <2>1. ASSUME NEW x \in free' PROVE x[1] <= block_count' /\ ~CallAt({"creating", "deallocating"}, x)'
    <3>1. x \in Entries /\ (x \in free \/ x[1] > block_count) /\ x[1] <= block_count + 1
      BY <1>a, <1>b, <1>d, EntryShape DEF PoolInv, PlacesInv, TypeOK
    <3> QED BY <3>1, <1>a, <1>c, <1>d DEF CallAt, Handling, EntrySteps
  <2>2. ASSUME NEW u \in Threads, NEW x \in freed[u]
        PROVE  x[1] <= block_count' /\ x \notin free' /\ ~CallAt({"creating", "deallocating"}, x)'
    <3>1. x \in Entries /\ x[1] <= block_count /\ x \notin free /\ ~CallAt({"creating", "deallocating"}, x)
      BY DEF PoolInv, PlacesInv, TypeOK
    <3> QED BY <3>1, <1>a, <1>b, <1>d, EntryShape DEF CallAt
  <2>3. ASSUME NEW u \in Threads, pc[u] \in Handling PROVE Entry(u)[1] <= block_count'
    <3>1. Entry(u) \in Entries /\ Entry(u)[1] <= block_count
      BY <2>3 DEF PoolInv, PlacesInv, CallsInv, Handling
    <3> QED BY <3>1, <1>a, EntryShape
  <2> QED BY <1>d, <2>1, <2>2, <2>3 DEF PoolInv, PlacesInv
<1>4. EmptyInv'
  BY EntryShape, PointersKeep, EntriesKeep, CallsKnow DEF PoolInv, Reserve, OfBlock, counts,
     storage, deferred, pointers, iterators, calls, Goto, Return, SetStrong, Entry, TypeOK,
     CallsInv, PlacesInv, EmptyInv, Unused, CallAt, Occupied, Handling, EntrySteps
<1>5. StagesInv'
  BY PointersKeep, EntriesKeep, CallsKnow DEF PoolInv, Reserve, OfBlock, counts, storage,
     deferred, pointers, iterators, calls, Goto, Return, SetStrong, Entry, TypeOK, CallsInv,
     PlacesInv, StagesInv, Published, CallAt, Occupied, Handling, EntrySteps
<1>6. WeakInv'
  <2>1. weak' = weak /\ \A x : Observers(x)' = Observers(x)
    BY DEF Reserve, OfBlock, counts, storage, deferred, pointers, iterators, calls, Goto, Return,
       SetStrong, Entry, Observers
  <2>2. \A x \in Entries : Occupied(x)' <=> Occupied(x)
    BY CallsKnow DEF Reserve, OfBlock, counts, storage, deferred, pointers, iterators, calls,
       Goto, Return, SetStrong, Entry, PoolInv, TypeOK, Occupied, CallAt, PlacesInv, Handling,
       EntrySteps
  <2> QED BY <2>1, <2>2 DEF PoolInv, WeakInv
<1>7. StrongInv'
  <2>1. strong' = strong /\ \A x : Owners(x)' = Owners(x)
    BY DEF Reserve, OfBlock, counts, storage, deferred, pointers, iterators, calls, Goto, Return,
       SetStrong, Entry, Owners
  <2>2. \A x \in Entries : Published(x)' <=> Published(x)
    BY CallsKnow DEF Reserve, OfBlock, counts, storage, deferred, pointers, iterators, calls,
       Goto, Return, SetStrong, Entry, PoolInv, TypeOK, Published, CallAt, PlacesInv, Handling,
       EntrySteps
  <2> QED BY <2>1, <2>2 DEF PoolInv, StrongInv
<1>8. ActiveInv'
  <2>1. active' = active
    BY DEF Reserve, OfBlock, counts, storage, deferred, pointers, iterators, calls, Goto, Return,
       SetStrong, Entry
  <2>2. \A x \in Entries : Counted(x)' <=> Counted(x)
    BY CallsKnow DEF Reserve, OfBlock, counts, storage, deferred, pointers, iterators, calls,
       Goto, Return, SetStrong, Entry, PoolInv, TypeOK, Counted, CallAt, PlacesInv, Handling,
       EntrySteps
  <2>3. \A b \in Blocks : {x \in OfBlock(b) : Counted(x)}' = {x \in OfBlock(b) : Counted(x)}
    BY <2>2, EntryShape
  <2> QED BY <2>1, <2>3 DEF PoolInv, ActiveInv
<1>9. VersionsBound'
  BY DEF PoolInv, Reserve, OfBlock, counts, storage, deferred, pointers, iterators, calls, Goto,
     Return, SetStrong, Entry, TypeOK, CallsInv, VersionsBound, EntrySteps
<1>10. IteratorsInv'
  BY EntryShape, PoolAssumption DEF PoolInv, Reserve, OfBlock, counts, storage, deferred,
     pointers, iterators, calls, Goto, Return, SetStrong, Entry, TypeOK, IteratorsInv, Stands,
     Seeking, End
<1>11. SerialInv'
  BY PointersKeep, EntriesKeep, CallsKnow DEF PoolInv, Reserve, OfBlock, counts, storage,
     deferred, pointers, iterators, calls, Goto, Return, SetStrong, Entry, TypeOK, CallsInv,
     IteratorsInv, SerialInv, Stands, Seeking, Sweeping
<1>12. StandInv'
  BY DEF PoolInv, Reserve, OfBlock, counts, storage, deferred, pointers, iterators, calls, Goto,
     Return, SetStrong, Entry, TypeOK, CallsInv, VersionsBound, IteratorsInv, StandInv, Stands,
     Seeking, Destroyable, EntrySteps
<1>13. DueInv'
  BY EntryShape, PointersKeep, EntriesKeep, CallsKnow DEF PoolInv, Reserve, OfBlock, counts,
     storage, deferred, pointers, iterators, calls, Goto, Return, SetStrong, Entry, TypeOK,
     DueInv, Ahead, IteratorsInv, Stands, Seeking, End, Unused, EmptyInv
<1>14. DestructionDue'
  BY DEF PoolInv, Reserve, OfBlock, counts, storage, deferred, pointers, iterators, calls, Goto,
     Return, SetStrong, Entry, TypeOK, CallsInv, DestructionDue, Destroyable, EntrySteps
<1> QED BY <1>1, <1>2, <1>3, <1>4, <1>5, <1>6, <1>7, <1>8, <1>9, <1>10, <1>11, <1>12, <1>13,
   <1>14 DEF PoolInv

\* A constructor that succeeds preserves the invariant.
LEMMA ConstructSafe ==
  ASSUME PoolInv, NEW t \in Threads, Construct(t)
  PROVE  PoolInv'
<1>p. PICK e : e = Entry(t)
  OBVIOUS
<1>a. pc[t] = "creating" /\ e \in Entries /\ Unused(e)
      /\ weak[e] = 0 /\ object[e] = "none" /\ strong[e].count = -1 /\ ~Occupied(e)
  BY <1>p, CallsKnow, EntriesKeep DEF Construct, EntrySteps, PoolInv, EmptyInv
<1>b. /\ weak' = [weak EXCEPT ![e] = 1] /\ weak'[e] = 1 /\ object'[e] = "alive" /\ pc'[t] = "counting"
      /\ \A x \in Entries \ {e} : weak'[x] = weak[x] /\ object'[x] = object[x]
      /\ \A u \in Threads \ {t} : pc'[u] = pc[u] /\ subject'[u] = subject[u] /\ Entry(u)' = Entry(u)
      /\ free' = free /\ freed' = freed /\ block_count' = block_count /\ strong' = strong
      /\ owned' = owned /\ observed' = observed /\ target' = target /\ active' = active
  BY <1>p, <1>a DEF Construct, counts, storage, deferred, pointers, iterators, calls, Goto,
     Return, SetStrong, Entry, PoolInv, TypeOK
<1>c. /\ e \notin free /\ e[1] <= block_count
      /\ \A u \in Threads : e \notin freed[u] /\ (u # t /\ pc[u] \in Handling => Entry(u) # e)
  BY <1>p, <1>a DEF PoolInv, PlacesInv, CallAt, Handling, EntrySteps
<1>d. \A x \in Entries \ {e} : /\ Occupied(x)' <=> Occupied(x)
                               /\ Published(x)' <=> Published(x)
                               /\ Counted(x)' <=> Counted(x)
  <2>1. \A x \in Entries \ {e} : Occupied(x)' <=> Occupied(x)
    BY <1>p, <1>a, <1>b DEF Occupied, CallAt, Construct, Entry
  <2>2. \A x \in Entries \ {e} : Published(x)' <=> Published(x)
    BY <1>p, <1>a, <1>b DEF Published, CallAt, Construct, Entry
  <2>3. \A x \in Entries \ {e} : Counted(x)' <=> Counted(x)
    BY <1>p, <1>a, <1>b DEF Counted, CallAt, Construct, Entry
  <2> QED BY <2>1, <2>2, <2>3
<1>e. Occupied(e)' /\ ~Published(e) /\ ~Published(e)' /\ ~Counted(e) /\ ~Counted(e)'
  BY <1>p, <1>a, <1>b, <1>c DEF Occupied, Published, Counted, CallAt, Handling, EntrySteps,
     Construct, Entry
<1>1. TypeOK'
  BY PoolAssumption, EntryShape, CallsKnow, PointersKeep DEF PoolInv, Construct, counts, storage,
     deferred, pointers, iterators, calls, Goto, Return, SetStrong, Entry, TypeOK, Subjects,
     Steps, NoSubject
<1>2. CallsInv'
  BY EntryShape DEF PoolInv, Construct, counts, storage, deferred, pointers, iterators, calls,
     Goto, Return, SetStrong, Entry, TypeOK, CallsInv, EntrySteps, NoSubject
<1>3. PlacesInv'
  BY EntryShape, PointersKeep, EntriesKeep, CallsKnow DEF PoolInv, Construct, counts, storage,
     deferred, pointers, iterators, calls, Goto, Return, SetStrong, Entry, TypeOK, CallsInv,
     PlacesInv, Unused, CallAt, Handling, EntrySteps
<1>4. EmptyInv'
  <2>1. \A x \in Entries : Unused(x)' => Unused(x) /\ x # e
    <3>1. ~Unused(e)'
      <4>1. ~(e[1] > block_count')
        BY <1>a, <1>b, <1>c, EntryShape DEF PoolInv, TypeOK
      <4>2. ~CallAt({"creating", "deallocating"}, e)'
        BY <1>b, <1>c DEF CallAt, Handling, EntrySteps
      <4> QED BY <4>1, <4>2, <1>b, <1>c DEF Unused
    <3>2. \A x \in Entries \ {e} : Unused(x)' => Unused(x)
      BY <1>b DEF Unused, CallAt
    <3> QED BY <3>1, <3>2
  <2> QED BY <1>b, <2>1 DEF PoolInv, EmptyInv
<1>5. StagesInv'
  BY PointersKeep, EntriesKeep, CallsKnow DEF PoolInv, Construct, counts, storage, deferred,
     pointers, iterators, calls, Goto, Return, SetStrong, Entry, TypeOK, CallsInv, PlacesInv,
     StagesInv, Published, CallAt, Occupied, Handling, EntrySteps
<1>6. WeakInv'
  BY <1>a, <1>b, <1>d, <1>e, EntryOccupied
<1>7. StrongInv'
  <2>1. \A x : Owners(x)' = Owners(x)
    BY <1>b DEF Owners
  <2> QED BY <1>b, <1>d, <1>e, <2>1 DEF PoolInv, StrongInv
<1>8. ActiveInv'
  BY <1>b, <1>d, <1>e, SameObjects DEF PoolInv
<1>9. VersionsBound'
  BY DEF PoolInv, Construct, counts, storage, deferred, pointers, iterators, calls, Goto, Return,
     SetStrong, Entry, TypeOK, CallsInv, VersionsBound, EntrySteps
<1>10. IteratorsInv'
  BY EntryShape, PoolAssumption DEF PoolInv, Construct, counts, storage, deferred, pointers,
     iterators, calls, Goto, Return, SetStrong, Entry, TypeOK, IteratorsInv, Stands, Seeking, End
<1>11. SerialInv'
  <2>1. \A u \in Threads : Stands(u)' <=> Stands(u)
    BY <1>a, <1>b DEF Stands, Seeking
  <2>2. \A u \in Threads : Stands(u) => target[u] \in Entries
    BY DEF PoolInv, IteratorsInv
  <2>3. \A u \in Threads : /\ pc'[u] \in Sweeping <=> pc[u] \in Sweeping
                           /\ pc'[u] = "beginning" <=> pc[u] = "beginning"
    BY <1>a, <1>b DEF Sweeping
  <2>4. iterating' = iterating
    BY DEF Construct, counts, storage, deferred, pointers, iterators, calls, Goto, Return,
       SetStrong, Entry
  <2> QED BY <1>a, <1>b, <2>1, <2>2, <2>3, <2>4 DEF PoolInv, SerialInv
<1>12. StandInv'
  <2> SUFFICES ASSUME NEW u \in Threads, NEW v \in Threads, pc'[v] = "destroying",
                      Destroyable(Entry(v), subject[v].version)', Stands(u)'
               PROVE  target'[u] # Entry(v)'
    BY DEF StandInv
  <2>1. v # t /\ pc[v] = "destroying" /\ subject'[v] = subject[v] /\ Entry(v)' = Entry(v)
    BY <1>a, <1>b
  <2>2. Stands(u)
    BY <1>a, <1>b DEF Stands, Seeking
  <2>3. Destroyable(Entry(v), subject[v].version)
    BY <1>b, <2>1 DEF Destroyable
  <2> QED BY <1>b, <2>1, <2>2, <2>3 DEF PoolInv, StandInv
<1>13. DueInv'
  BY EntryShape, PointersKeep, EntriesKeep, CallsKnow DEF PoolInv, Construct, counts, storage,
     deferred, pointers, iterators, calls, Goto, Return, SetStrong, Entry, TypeOK, DueInv, Ahead,
     IteratorsInv, Stands, Seeking, End, Unused, EmptyInv
<1>14. DestructionDue'
  <2>1. /\ pending' = pending /\ pending_destructions' = pending_destructions /\ todo' = todo
    BY DEF Construct, counts, storage, deferred, pointers, iterators, calls, Goto, Return,
       SetStrong, Entry
  <2>2. \A x \in Entries : object'[x] = "alive" /\ strong'[x].count = 0 => object[x] = "alive" /\ x # e
    BY <1>a, <1>b
  <2> QED BY <1>a, <1>b, <2>1, <2>2 DEF PoolInv, DestructionDue
<1> QED BY <1>1, <1>2, <1>3, <1>4, <1>5, <1>6, <1>7, <1>8, <1>9, <1>10, <1>11, <1>12, <1>13,
   <1>14 DEF PoolInv

\* A constructor that throws preserves the invariant.
LEMMA ConstructorThrowsSafe ==
  ASSUME PoolInv, NEW t \in Threads, ConstructorThrows(t)
  PROVE  PoolInv'
<1>p. PICK e : e = Entry(t)
  OBVIOUS
<1>a. pc[t] = "creating" /\ e \in Entries /\ Unused(e)
      /\ weak[e] = 0 /\ object[e] = "none" /\ strong[e].count = -1 /\ ~Occupied(e)
  BY <1>p, CallsKnow, EntriesKeep DEF ConstructorThrows, EntrySteps, PoolInv, EmptyInv
<1>b. /\ weak' = [weak EXCEPT ![e] = 1] /\ weak'[e] = 1 /\ object'[e] = "failed" /\ pc'[t] = "idle"
      /\ \A x \in Entries \ {e} : weak'[x] = weak[x] /\ object'[x] = object[x]
      /\ \A u \in Threads \ {t} : pc'[u] = pc[u] /\ subject'[u] = subject[u] /\ Entry(u)' = Entry(u)
      /\ free' = free /\ freed' = freed /\ block_count' = block_count /\ strong' = strong
      /\ owned' = owned /\ observed' = observed /\ target' = target /\ active' = active
  BY <1>p, <1>a DEF ConstructorThrows, counts, storage, deferred, pointers, iterators, calls,
     Goto, Return, SetStrong, Entry, PoolInv, TypeOK
<1>c. /\ e \notin free /\ e[1] <= block_count
      /\ \A u \in Threads : e \notin freed[u] /\ (u # t /\ pc[u] \in Handling => Entry(u) # e)
  BY <1>p, <1>a DEF PoolInv, PlacesInv, CallAt, Handling, EntrySteps
<1>d. \A x \in Entries \ {e} : /\ Occupied(x)' <=> Occupied(x)
                               /\ Published(x)' <=> Published(x)
                               /\ Counted(x)' <=> Counted(x)
  <2>1. \A x \in Entries \ {e} : Occupied(x)' <=> Occupied(x)
    BY <1>p, <1>a, <1>b DEF Occupied, CallAt
  <2>2. \A x \in Entries \ {e} : Published(x)' <=> Published(x)
    BY <1>p, <1>a, <1>b DEF Published, CallAt
  <2>3. \A x \in Entries \ {e} : Counted(x)' <=> Counted(x)
    BY <1>p, <1>a, <1>b DEF Counted, CallAt
  <2> QED BY <2>1, <2>2, <2>3
<1>e. Occupied(e)' /\ ~Published(e) /\ ~Published(e)' /\ ~Counted(e) /\ ~Counted(e)'
  BY <1>p, <1>a, <1>b, <1>c DEF Occupied, Published, Counted, CallAt, Handling, EntrySteps
<1>1. TypeOK'
  BY PoolAssumption, EntryShape, CallsKnow, PointersKeep DEF PoolInv, ConstructorThrows, counts,
     storage, deferred, pointers, iterators, calls, Goto, Return, SetStrong, Entry, TypeOK,
     Subjects, Steps, NoSubject
<1>2. CallsInv'
  BY EntryShape DEF PoolInv, ConstructorThrows, counts, storage, deferred, pointers, iterators,
     calls, Goto, Return, SetStrong, Entry, TypeOK, CallsInv, EntrySteps, NoSubject
<1>3. PlacesInv'
  BY EntryShape, PointersKeep, EntriesKeep, CallsKnow DEF PoolInv, ConstructorThrows, counts,
     storage, deferred, pointers, iterators, calls, Goto, Return, SetStrong, Entry, TypeOK,
     CallsInv, PlacesInv, Unused, CallAt, Handling, EntrySteps
<1>4. EmptyInv'
  <2>1. \A x \in Entries : Unused(x)' => Unused(x) /\ x # e
    <3>1. ~Unused(e)'
      <4>1. ~(e[1] > block_count')
        BY <1>a, <1>b, <1>c, EntryShape DEF PoolInv, TypeOK
      <4>2. ~CallAt({"creating", "deallocating"}, e)'
        BY <1>b, <1>c DEF CallAt, Handling, EntrySteps
      <4> QED BY <4>1, <4>2, <1>b, <1>c DEF Unused
    <3>2. \A x \in Entries \ {e} : Unused(x)' => Unused(x)
      BY <1>b DEF Unused, CallAt
    <3> QED BY <3>1, <3>2
  <2> QED BY <1>b, <2>1 DEF PoolInv, EmptyInv
<1>5. StagesInv'
  BY PointersKeep, EntriesKeep, CallsKnow DEF PoolInv, ConstructorThrows, counts, storage,
     deferred, pointers, iterators, calls, Goto, Return, SetStrong, Entry, TypeOK, CallsInv,
     PlacesInv, StagesInv, Published, CallAt, Occupied, Handling, EntrySteps
<1>6. WeakInv'
  BY <1>a, <1>b, <1>d, <1>e, EntryOccupied
<1>7. StrongInv'
  <2>1. \A x : Owners(x)' = Owners(x)
    BY <1>b DEF Owners
  <2> QED BY <1>b, <1>d, <1>e, <2>1 DEF PoolInv, StrongInv
<1>8. ActiveInv'
  BY <1>b, <1>d, <1>e, SameObjects DEF PoolInv
<1>9. VersionsBound'
  BY DEF PoolInv, ConstructorThrows, counts, storage, deferred, pointers, iterators, calls, Goto,
     Return, SetStrong, Entry, TypeOK, CallsInv, VersionsBound, EntrySteps
<1>10. IteratorsInv'
  BY EntryShape, PoolAssumption DEF PoolInv, ConstructorThrows, counts, storage, deferred,
     pointers, iterators, calls, Goto, Return, SetStrong, Entry, TypeOK, IteratorsInv, Stands,
     Seeking, End
<1>11. SerialInv'
  <2>1. \A u \in Threads : Stands(u)' <=> Stands(u)
    BY <1>a, <1>b DEF Stands, Seeking
  <2>2. \A u \in Threads : Stands(u) => target[u] \in Entries
    BY DEF PoolInv, IteratorsInv
  <2>3. \A u \in Threads : /\ pc'[u] \in Sweeping <=> pc[u] \in Sweeping
                           /\ pc'[u] = "beginning" <=> pc[u] = "beginning"
    BY <1>a, <1>b DEF Sweeping
  <2>4. iterating' = iterating
    BY DEF ConstructorThrows, counts, storage, deferred, pointers, iterators, calls, Goto, Return,
       SetStrong, Entry
  <2> QED BY <1>a, <1>b, <2>1, <2>2, <2>3, <2>4 DEF PoolInv, SerialInv
<1>12. StandInv'
  <2> SUFFICES ASSUME NEW u \in Threads, NEW v \in Threads, pc'[v] = "destroying",
                      Destroyable(Entry(v), subject[v].version)', Stands(u)'
               PROVE  target'[u] # Entry(v)'
    BY DEF StandInv
  <2>1. v # t /\ pc[v] = "destroying" /\ subject'[v] = subject[v] /\ Entry(v)' = Entry(v)
    BY <1>a, <1>b
  <2>2. Stands(u)
    BY <1>a, <1>b DEF Stands, Seeking
  <2>3. Destroyable(Entry(v), subject[v].version)
    BY <1>b, <2>1 DEF Destroyable
  <2> QED BY <1>b, <2>1, <2>2, <2>3 DEF PoolInv, StandInv
<1>13. DueInv'
  BY EntryShape, PointersKeep, EntriesKeep, CallsKnow DEF PoolInv, ConstructorThrows, counts,
     storage, deferred, pointers, iterators, calls, Goto, Return, SetStrong, Entry, TypeOK,
     DueInv, Ahead, IteratorsInv, Stands, Seeking, End, Unused, EmptyInv
<1>14. DestructionDue'
  <2>1. /\ pending' = pending /\ pending_destructions' = pending_destructions /\ todo' = todo
    BY DEF ConstructorThrows, counts, storage, deferred, pointers, iterators, calls, Goto, Return,
       SetStrong, Entry
  <2>2. \A x \in Entries : object'[x] = "alive" /\ strong'[x].count = 0 => object[x] = "alive" /\ x # e
    BY <1>a, <1>b
  <2> QED BY <1>a, <1>b, <2>1, <2>2 DEF PoolInv, DestructionDue
<1> QED BY <1>1, <1>2, <1>3, <1>4, <1>5, <1>6, <1>7, <1>8, <1>9, <1>10, <1>11, <1>12, <1>13,
   <1>14 DEF PoolInv

\* Counting an object preserves the invariant.
LEMMA CountObjectSafe ==
  ASSUME PoolInv, NEW t \in Threads, CountObject(t)
  PROVE  PoolInv'
<1>p. PICK e : e = Entry(t)
  OBVIOUS
<1>a. pc[t] = "counting" /\ e \in Entries /\ e[1] \in Blocks /\ object[e] = "alive"
  BY <1>p, CallsKnow, EntryShape DEF CountObject, EntrySteps, PoolInv, StagesInv
<1>b. active' \in [Blocks -> Nat] /\ active' = [active EXCEPT ![e[1]] = @ + 1]
  BY <1>p, <1>a DEF CountObject, Entry, PoolInv, TypeOK
<1>c. /\ pc'[t] = "publishing" /\ object' = object
      /\ \A u \in Threads \ {t} : pc'[u] = pc[u]
      /\ \A u \in Threads : Entry(u)' = Entry(u)
  BY DEF CountObject, counts, storage, deferred, pointers, iterators, calls, Goto, Return,
     SetStrong, Entry, PoolInv, TypeOK
<1>1. TypeOK'
  BY <1>b DEF CountObject, counts, storage, deferred, pointers, iterators, calls, Goto, Return,
     SetStrong, Entry, PoolInv, TypeOK, Steps
<1>2. CallsInv'
  BY EntryShape DEF PoolInv, CountObject, counts, storage, deferred, pointers, iterators, calls,
     Goto, Return, SetStrong, Entry, TypeOK, CallsInv, EntrySteps, NoSubject
<1>3. PlacesInv'
  BY EntryShape, PointersKeep, EntriesKeep, CallsKnow DEF PoolInv, CountObject, counts, storage,
     deferred, pointers, iterators, calls, Goto, Return, SetStrong, Entry, TypeOK, CallsInv,
     PlacesInv, Unused, CallAt, Handling, EntrySteps
<1>4. EmptyInv'
  BY EntryShape, PointersKeep, EntriesKeep, CallsKnow DEF PoolInv, CountObject, counts, storage,
     deferred, pointers, iterators, calls, Goto, Return, SetStrong, Entry, TypeOK, CallsInv,
     PlacesInv, EmptyInv, Unused, CallAt, Occupied, Handling, EntrySteps
<1>5. StagesInv'
  BY PointersKeep, EntriesKeep, CallsKnow DEF PoolInv, CountObject, counts, storage, deferred,
     pointers, iterators, calls, Goto, Return, SetStrong, Entry, TypeOK, CallsInv, PlacesInv,
     StagesInv, Published, CallAt, Occupied, Handling, EntrySteps
<1>6. WeakInv'
  <2>1. weak' = weak /\ \A x : Observers(x)' = Observers(x)
    BY DEF CountObject, counts, storage, deferred, pointers, iterators, calls, Goto, Return,
       SetStrong, Entry, Observers
  <2>2. \A x \in Entries : Occupied(x)' <=> Occupied(x)
    BY CallsKnow DEF CountObject, counts, storage, deferred, pointers, iterators, calls, Goto,
       Return, SetStrong, Entry, PoolInv, TypeOK, Occupied, CallAt, PlacesInv, Handling,
       EntrySteps
  <2> QED BY <2>1, <2>2 DEF PoolInv, WeakInv
<1>7. StrongInv'
  <2>1. strong' = strong /\ \A x : Owners(x)' = Owners(x)
    BY DEF CountObject, counts, storage, deferred, pointers, iterators, calls, Goto, Return,
       SetStrong, Entry, Owners
  <2>2. \A x \in Entries : Published(x)' <=> Published(x)
    BY CallsKnow DEF CountObject, counts, storage, deferred, pointers, iterators, calls, Goto,
       Return, SetStrong, Entry, PoolInv, TypeOK, Published, CallAt, PlacesInv, Handling,
       EntrySteps
  <2> QED BY <2>1, <2>2 DEF PoolInv, StrongInv
<1>8. ActiveInv'
  <2>1. ~Counted(e) /\ \A u \in Threads \ {t} : pc[u] = "counting" => Entry(u) # e
    BY <1>p, <1>a DEF Counted, CallAt, PoolInv, PlacesInv, Handling, EntrySteps
  <2>2. Counted(e)'
    BY <1>p, <1>a, <1>c, <2>1 DEF Counted, CallAt
  <2>3. \A x \in Entries \ {e} : Counted(x)' <=> Counted(x)
    BY <1>p, <1>a, <1>c DEF Counted, CallAt
  <2> QED BY <1>a, <1>b, <2>1, <2>2, <2>3, ObjectCounted DEF PoolInv
<1>9. VersionsBound'
  BY DEF PoolInv, CountObject, counts, storage, deferred, pointers, iterators, calls, Goto,
     Return, SetStrong, Entry, TypeOK, CallsInv, VersionsBound, EntrySteps
<1>10. IteratorsInv'
  BY EntryShape, PoolAssumption DEF PoolInv, CountObject, counts, storage, deferred, pointers,
     iterators, calls, Goto, Return, SetStrong, Entry, TypeOK, IteratorsInv, Stands, Seeking, End
<1>11. SerialInv'
  BY PointersKeep, EntriesKeep, CallsKnow DEF PoolInv, CountObject, counts, storage, deferred,
     pointers, iterators, calls, Goto, Return, SetStrong, Entry, TypeOK, CallsInv, IteratorsInv,
     SerialInv, Stands, Seeking, Sweeping
<1>12. StandInv'
  BY DEF PoolInv, CountObject, counts, storage, deferred, pointers, iterators, calls, Goto,
     Return, SetStrong, Entry, TypeOK, CallsInv, VersionsBound, IteratorsInv, StandInv, Stands,
     Seeking, Destroyable, EntrySteps
<1>13. DueInv'
  BY EntryShape, PointersKeep, EntriesKeep, CallsKnow DEF PoolInv, CountObject, counts, storage,
     deferred, pointers, iterators, calls, Goto, Return, SetStrong, Entry, TypeOK, DueInv, Ahead,
     IteratorsInv, Stands, Seeking, End, Unused, EmptyInv
<1>14. DestructionDue'
  BY DEF PoolInv, CountObject, counts, storage, deferred, pointers, iterators, calls, Goto,
     Return, SetStrong, Entry, TypeOK, CallsInv, DestructionDue, Destroyable, EntrySteps
<1> QED BY <1>1, <1>2, <1>3, <1>4, <1>5, <1>6, <1>7, <1>8, <1>9, <1>10, <1>11, <1>12, <1>13,
   <1>14 DEF PoolInv

\* The first pointer preserves the invariant.
LEMMA PublishSafe ==
  ASSUME PoolInv, NEW t \in Threads, Publish(t)
  PROVE  PoolInv'
<1>p. PICK e : e = Entry(t)
  OBVIOUS
<1>a. /\ pc[t] = "publishing" /\ e \in Entries /\ ~Published(e) /\ object[e] = "alive"
      /\ strong[e].count = -1 /\ Owners(e) = {}
      /\ \A u \in Threads \ {t} : pc[u] \in Handling => Entry(u) # e
  BY <1>p, CallsKnow DEF Publish, PoolInv, StrongInv, StagesInv, PlacesInv, EntrySteps, Handling
<1>b. /\ strong' \in [Entries -> [count : Nat \union {-1}, version : Nat]]
      /\ strong'[e].count = 1 /\ \A x \in Entries \ {e} : strong'[x] = strong[x]
      /\ \A x \in Entries : /\ strong[x].version \in Nat /\ strong[x].count \in Nat \union {-1}
                            /\ strong'[x].version >= strong[x].version
  BY <1>p, <1>a, StrongChanges DEF Publish, PoolInv
<1>c. /\ pc'[t] = "idle" /\ object' = object /\ owned' = [owned EXCEPT ![t] = @ \union {e}]
      /\ \A u \in Threads \ {t} : pc'[u] = pc[u] /\ subject'[u] = subject[u] /\ Entry(u)' = Entry(u)
      /\ target' = target
  BY <1>p DEF Publish, counts, storage, deferred, pointers, iterators, calls, Goto, Return,
     SetStrong, Entry, PoolInv, TypeOK
<1>1. TypeOK'
  <2>1. owned' \in [Threads -> SUBSET Entries]
    BY <1>a, <1>c DEF PoolInv, TypeOK
  <2>2. subject' \in [Threads -> Subjects] /\ pc' \in [Threads -> Steps]
    BY DEF Publish, Return, Goto, PoolInv, TypeOK, Steps, Subjects, NoSubject
  <2> QED BY <1>b, <2>1, <2>2 DEF Publish, iterators, storage, deferred, PoolInv, TypeOK
<1>2. CallsInv'
  BY EntryShape DEF PoolInv, Publish, counts, storage, deferred, pointers, iterators, calls, Goto,
     Return, SetStrong, Entry, TypeOK, CallsInv, EntrySteps, NoSubject
<1>3. PlacesInv'
  BY EntryShape, PointersKeep, EntriesKeep, CallsKnow DEF PoolInv, Publish, counts, storage,
     deferred, pointers, iterators, calls, Goto, Return, SetStrong, Entry, TypeOK, CallsInv,
     PlacesInv, Unused, CallAt, Handling, EntrySteps
<1>4. EmptyInv'
  BY EntryShape, PointersKeep, EntriesKeep, CallsKnow DEF PoolInv, Publish, counts, storage,
     deferred, pointers, iterators, calls, Goto, Return, SetStrong, Entry, TypeOK, CallsInv,
     PlacesInv, EmptyInv, Unused, CallAt, Occupied, Handling, EntrySteps
<1>5. StagesInv'
  BY PointersKeep, EntriesKeep, CallsKnow DEF PoolInv, Publish, counts, storage, deferred,
     pointers, iterators, calls, Goto, Return, SetStrong, Entry, TypeOK, CallsInv, PlacesInv,
     StagesInv, Published, CallAt, Occupied, Handling, EntrySteps
<1>6. WeakInv'
  <2>1. weak' = weak /\ \A x : Observers(x)' = Observers(x)
    BY DEF Publish, counts, storage, deferred, pointers, iterators, calls, Goto, Return,
       SetStrong, Entry, Observers
  <2>2. \A x \in Entries : Occupied(x)' <=> Occupied(x)
    BY <1>p, <1>a, <1>c DEF Occupied, CallAt, Handling, EntrySteps
  <2> QED BY <2>1, <2>2 DEF PoolInv, WeakInv
<1>7. StrongInv'
  <2>1. Published(e)'
    BY <1>a, <1>c DEF Published, CallAt, Handling, EntrySteps
  <2>2. \A x \in Entries \ {e} : (Published(x)' <=> Published(x)) /\ Owners(x)' = Owners(x)
    <3>1. \A x \in Entries \ {e} : Published(x)' <=> Published(x)
      BY <1>p, <1>a, <1>c DEF Published, CallAt
    <3>2. \A x \in Entries \ {e} : Owners(x)' = Owners(x)
      BY <1>c DEF Owners, PoolInv, TypeOK
    <3> QED BY <3>1, <3>2
  <2>3. Owners(e)' = {} \union {t}
    BY <1>a, <1>c DEF Owners, PoolInv, TypeOK
  <2>4. Cardinality(Owners(e)') = 1
    BY <2>3, FS_EmptySet, OneThreadMore
  <2>5. SetStrong(e, 1)
    BY <1>p DEF Publish
  <2> QED BY <1>a, <2>1, <2>2, <2>4, <2>5, OwnersChange
<1>8. ActiveInv'
  <2>1. active' = active
    BY DEF Publish, counts, storage, deferred, pointers, iterators, calls, Goto, Return,
       SetStrong, Entry
  <2>2. \A x \in Entries : Counted(x)' <=> Counted(x)
    BY <1>p, <1>a, <1>c DEF Counted, CallAt, Handling, EntrySteps
  <2>3. \A b \in Blocks : {x \in OfBlock(b) : Counted(x)}' = {x \in OfBlock(b) : Counted(x)}
    BY <2>2, EntryShape
  <2> QED BY <2>1, <2>3 DEF PoolInv, ActiveInv
<1>9. VersionsBound'
  BY <1>b, <1>c, VersionsGrow DEF PoolInv, CallsInv, EntrySteps
<1>10. IteratorsInv'
  BY EntryShape, PoolAssumption DEF PoolInv, Publish, counts, storage, deferred, pointers,
     iterators, calls, Goto, Return, SetStrong, Entry, TypeOK, IteratorsInv, Stands, Seeking, End
<1>11. SerialInv'
  BY PointersKeep, EntriesKeep, CallsKnow DEF PoolInv, Publish, counts, storage, deferred,
     pointers, iterators, calls, Goto, Return, SetStrong, Entry, TypeOK, CallsInv, IteratorsInv,
     SerialInv, Stands, Seeking, Sweeping
<1>12. StandInv'
  <2> SUFFICES ASSUME NEW u \in Threads, NEW v \in Threads, pc'[v] = "destroying",
                      Destroyable(Entry(v), subject[v].version)', Stands(u)'
               PROVE  target'[u] # Entry(v)'
    BY DEF StandInv
  <2>1. v # t /\ pc[v] = "destroying" /\ subject'[v] = subject[v] /\ Entry(v)' = Entry(v)
        /\ Entry(v) \in Entries
    BY <1>c DEF PoolInv, CallsInv, EntrySteps
  <2>2. Stands(u)
    BY <1>a, <1>c DEF Stands, Seeking
  <2>3. Entry(v) # e /\ Destroyable(Entry(v), subject[v].version)
    BY <1>b, <2>1 DEF Destroyable
  <2> QED BY <1>c, <2>1, <2>2, <2>3 DEF PoolInv, StandInv
<1>13. DueInv'
  BY EntryShape, PointersKeep, EntriesKeep, CallsKnow DEF PoolInv, Publish, counts, storage,
     deferred, pointers, iterators, calls, Goto, Return, SetStrong, Entry, TypeOK, DueInv, Ahead,
     IteratorsInv, Stands, Seeking, End, Unused, EmptyInv
<1>14. DestructionDue'
  BY DEF PoolInv, Publish, counts, storage, deferred, pointers, iterators, calls, Goto, Return,
     SetStrong, Entry, TypeOK, CallsInv, DestructionDue, Destroyable, EntrySteps
<1> QED BY <1>1, <1>2, <1>3, <1>4, <1>5, <1>6, <1>7, <1>8, <1>9, <1>10, <1>11, <1>12, <1>13,
   <1>14 DEF PoolInv

\* A copy of a pointer preserves the invariant.
LEMMA CopyPointerSafe ==
  ASSUME PoolInv, NEW t \in Threads, NEW u \in Threads, NEW e \in Entries, CopyPointer(t, u, e)
  PROVE  PoolInv'
<1>a. /\ Published(e) /\ strong[e].count >= 1 /\ strong[e].count \in Nat /\ e \notin owned[u]
      /\ SetStrong(e, strong[e].count + 1) /\ strong[e].count + 1 \in Nat \union {-1}
  BY PointersKeep, EntriesKeep DEF CopyPointer
<1>b. /\ strong' \in [Entries -> [count : Nat \union {-1}, version : Nat]]
      /\ strong'[e].count = strong[e].count + 1 /\ \A x \in Entries \ {e} : strong'[x] = strong[x]
      /\ \A x \in Entries : /\ strong[x].version \in Nat /\ strong[x].count \in Nat \union {-1}
                            /\ strong'[x].version >= strong[x].version
  BY <1>a, StrongChanges DEF PoolInv
<1>c. /\ pc' = pc /\ subject' = subject /\ object' = object /\ target' = target /\ due' = due
      /\ todo' = todo /\ pending' = pending /\ pending_destructions' = pending_destructions
      /\ owned' = [owned EXCEPT ![u] = @ \union {e}]
  BY DEF CopyPointer, counts, storage, deferred, pointers, iterators, calls, Goto, Return,
     SetStrong, Entry
<1>1. TypeOK'
  <2>1. owned' \in [Threads -> SUBSET Entries]
    BY <1>c DEF PoolInv, TypeOK
  <2> QED BY <1>b, <2>1 DEF CopyPointer, iterators, storage, deferred, calls, PoolInv, TypeOK
<1>2. CallsInv'
  BY EntryShape DEF PoolInv, CopyPointer, counts, storage, deferred, pointers, iterators, calls,
     Goto, Return, SetStrong, Entry, TypeOK, CallsInv, EntrySteps, NoSubject
<1>3. PlacesInv'
  BY EntryShape, PointersKeep, EntriesKeep, CallsKnow DEF PoolInv, CopyPointer, counts, storage,
     deferred, pointers, iterators, calls, Goto, Return, SetStrong, Entry, TypeOK, CallsInv,
     PlacesInv, Unused, CallAt, Handling, EntrySteps
<1>4. EmptyInv'
  BY EntryShape, PointersKeep, EntriesKeep, CallsKnow DEF PoolInv, CopyPointer, counts, storage,
     deferred, pointers, iterators, calls, Goto, Return, SetStrong, Entry, TypeOK, CallsInv,
     PlacesInv, EmptyInv, Unused, CallAt, Occupied, Handling, EntrySteps
<1>5. StagesInv'
  BY PointersKeep, EntriesKeep, CallsKnow DEF PoolInv, CopyPointer, counts, storage, deferred,
     pointers, iterators, calls, Goto, Return, SetStrong, Entry, TypeOK, CallsInv, PlacesInv,
     StagesInv, Published, CallAt, Occupied, Handling, EntrySteps
<1>6. WeakInv'
  <2>1. weak' = weak /\ \A x : Observers(x)' = Observers(x)
    BY DEF CopyPointer, counts, storage, deferred, pointers, iterators, calls, Goto, Return,
       SetStrong, Entry, Observers
  <2>2. \A x \in Entries : Occupied(x)' <=> Occupied(x)
    BY CallsKnow DEF CopyPointer, counts, storage, deferred, pointers, iterators, calls, Goto,
       Return, SetStrong, Entry, PoolInv, TypeOK, Occupied, CallAt, PlacesInv, Handling,
       EntrySteps
  <2> QED BY <2>1, <2>2 DEF PoolInv, WeakInv
<1>7. StrongInv'
  <2>1. Published(e)'
    BY <1>a, <1>c DEF Published, CallAt, Entry
  <2>2. \A x \in Entries \ {e} : (Published(x)' <=> Published(x)) /\ Owners(x)' = Owners(x)
    BY <1>c DEF Published, CallAt, Entry, Owners, PoolInv, TypeOK
  <2>3. Owners(e)' = Owners(e) \union {u} /\ u \notin Owners(e) /\ Owners(e) \subseteq Threads
    BY <1>a, <1>c DEF Owners, PoolInv, TypeOK
  <2>4. Cardinality(Owners(e)') = Cardinality(Owners(e)) + 1
    BY <2>3, OneThreadMore
  <2>5. strong[e].count = Cardinality(Owners(e))
    BY <1>a DEF PoolInv, StrongInv
  <2> QED BY <1>a, <2>1, <2>2, <2>4, <2>5, OwnersChange
<1>8. ActiveInv'
  <2>1. active' = active
    BY DEF CopyPointer, counts, storage, deferred, pointers, iterators, calls, Goto, Return,
       SetStrong, Entry
  <2>2. \A x \in Entries : Counted(x)' <=> Counted(x)
    BY CallsKnow DEF CopyPointer, counts, storage, deferred, pointers, iterators, calls, Goto,
       Return, SetStrong, Entry, PoolInv, TypeOK, Counted, CallAt, PlacesInv, Handling, EntrySteps
  <2>3. \A b \in Blocks : {x \in OfBlock(b) : Counted(x)}' = {x \in OfBlock(b) : Counted(x)}
    BY <2>2, EntryShape
  <2> QED BY <2>1, <2>3 DEF PoolInv, ActiveInv
<1>9. VersionsBound'
  BY <1>b, <1>c, VersionsGrow DEF PoolInv, CallsInv, EntrySteps
<1>10. IteratorsInv'
  BY EntryShape, PoolAssumption DEF PoolInv, CopyPointer, counts, storage, deferred, pointers,
     iterators, calls, Goto, Return, SetStrong, Entry, TypeOK, IteratorsInv, Stands, Seeking, End
<1>11. SerialInv'
  BY PointersKeep, EntriesKeep, CallsKnow DEF PoolInv, CopyPointer, counts, storage, deferred,
     pointers, iterators, calls, Goto, Return, SetStrong, Entry, TypeOK, CallsInv, IteratorsInv,
     SerialInv, Stands, Seeking, Sweeping
<1>12. StandInv'
  BY DEF PoolInv, CopyPointer, counts, storage, deferred, pointers, iterators, calls, Goto,
     Return, SetStrong, Entry, TypeOK, CallsInv, VersionsBound, IteratorsInv, StandInv, Stands,
     Seeking, Destroyable, EntrySteps
<1>13. DueInv'
  <2>1. \A v \in Threads : \A x \in due[v] : x \in Entries /\ strong[x].count >= 1
    BY DEF PoolInv, DueInv, TypeOK
  <2>2. \A v \in Threads : \A x \in due[v] : strong'[x].count >= 1
    BY <1>a, <1>b, <2>1
  <2>3. \A v, x : Ahead(v, x)' <=> Ahead(v, x)
    BY <1>c DEF Ahead
  <2> QED BY <1>c, <2>2, <2>3 DEF PoolInv, DueInv
<1>14. DestructionDue'
  <2>1. \A x \in Entries : strong'[x].count = 0 => x # e /\ strong'[x] = strong[x]
    BY <1>a, <1>b
  <2> QED BY <1>c, <2>1 DEF PoolInv, DestructionDue
<1> QED BY <1>1, <1>2, <1>3, <1>4, <1>5, <1>6, <1>7, <1>8, <1>9, <1>10, <1>11, <1>12, <1>13,
   <1>14 DEF PoolInv

\* A weak pointer preserves the invariant.
LEMMA ObserveSafe ==
  ASSUME PoolInv, NEW t \in Threads, NEW u \in Threads, NEW e \in Entries, Observe(t, u, e)
  PROVE  PoolInv'
<1>1. TypeOK'
  BY PoolAssumption, EntryShape, CallsKnow, PointersKeep DEF PoolInv, Observe, counts, storage,
     deferred, pointers, iterators, calls, Goto, Return, SetStrong, Entry, TypeOK, Subjects,
     Steps, NoSubject
<1>2. CallsInv'
  BY EntryShape DEF PoolInv, Observe, counts, storage, deferred, pointers, iterators, calls, Goto,
     Return, SetStrong, Entry, TypeOK, CallsInv, EntrySteps, NoSubject
<1>3. PlacesInv'
  BY EntryShape, PointersKeep, EntriesKeep, CallsKnow DEF PoolInv, Observe, counts, storage,
     deferred, pointers, iterators, calls, Goto, Return, SetStrong, Entry, TypeOK, CallsInv,
     PlacesInv, Unused, CallAt, Handling, EntrySteps
<1>4. EmptyInv'
  BY EntryShape, PointersKeep, EntriesKeep, CallsKnow DEF PoolInv, Observe, counts, storage,
     deferred, pointers, iterators, calls, Goto, Return, SetStrong, Entry, TypeOK, CallsInv,
     PlacesInv, EmptyInv, Unused, CallAt, Occupied, Handling, EntrySteps
<1>5. StagesInv'
  BY PointersKeep, EntriesKeep, CallsKnow DEF PoolInv, Observe, counts, storage, deferred,
     pointers, iterators, calls, Goto, Return, SetStrong, Entry, TypeOK, CallsInv, PlacesInv,
     StagesInv, Published, CallAt, Occupied, Handling, EntrySteps
<1>6. WeakInv'
  <2>1. /\ weak' = [weak EXCEPT ![e] = @ + 1] /\ observed' = [observed EXCEPT ![u] = @ \union {e}]
        /\ e \notin observed[u] /\ pc' = pc /\ subject' = subject /\ object' = object
    BY DEF Observe, calls
  <2>2. /\ weak'[e] = weak[e] + 1 /\ \A x \in Entries \ {e} : weak'[x] = weak[x]
        /\ \A x \in Entries \ {e} : Observers(x)' = Observers(x)
    BY <2>1 DEF PoolInv, TypeOK, Observers
  <2>3. Observers(e)' = Observers(e) \union {u} /\ u \notin Observers(e) /\ Observers(e) \subseteq Threads
    BY <2>1 DEF Observers, PoolInv, TypeOK
  <2>4. Cardinality(Observers(e)') = Cardinality(Observers(e)) + 1 /\ Cardinality(Observers(e)) \in Nat
    BY <2>3, OneThreadMore, SomeThreads
  <2>5. \A x : Occupied(x)' <=> Occupied(x)
    BY <2>1 DEF Occupied, CallAt, Entry
  <2>6. weak[e] = Cardinality(Observers(e)) + (IF Occupied(e) THEN 1 ELSE 0)
    BY DEF PoolInv, WeakInv
  <2>7. weak'[e] = Cardinality(Observers(e)') + (IF Occupied(e)' THEN 1 ELSE 0)
    BY <2>2, <2>4, <2>5, <2>6
  <2> QED BY <2>2, <2>5, <2>7 DEF PoolInv, WeakInv
<1>7. StrongInv'
  <2>1. strong' = strong /\ \A x : Owners(x)' = Owners(x)
    BY DEF Observe, counts, storage, deferred, pointers, iterators, calls, Goto, Return,
       SetStrong, Entry, Owners
  <2>2. \A x \in Entries : Published(x)' <=> Published(x)
    BY CallsKnow DEF Observe, counts, storage, deferred, pointers, iterators, calls, Goto, Return,
       SetStrong, Entry, PoolInv, TypeOK, Published, CallAt, PlacesInv, Handling, EntrySteps
  <2> QED BY <2>1, <2>2 DEF PoolInv, StrongInv
<1>8. ActiveInv'
  <2>1. active' = active
    BY DEF Observe, counts, storage, deferred, pointers, iterators, calls, Goto, Return,
       SetStrong, Entry
  <2>2. \A x \in Entries : Counted(x)' <=> Counted(x)
    BY CallsKnow DEF Observe, counts, storage, deferred, pointers, iterators, calls, Goto, Return,
       SetStrong, Entry, PoolInv, TypeOK, Counted, CallAt, PlacesInv, Handling, EntrySteps
  <2>3. \A b \in Blocks : {x \in OfBlock(b) : Counted(x)}' = {x \in OfBlock(b) : Counted(x)}
    BY <2>2, EntryShape
  <2> QED BY <2>1, <2>3 DEF PoolInv, ActiveInv
<1>9. VersionsBound'
  BY DEF PoolInv, Observe, counts, storage, deferred, pointers, iterators, calls, Goto, Return,
     SetStrong, Entry, TypeOK, CallsInv, VersionsBound, EntrySteps
<1>10. IteratorsInv'
  BY EntryShape, PoolAssumption DEF PoolInv, Observe, counts, storage, deferred, pointers,
     iterators, calls, Goto, Return, SetStrong, Entry, TypeOK, IteratorsInv, Stands, Seeking, End
<1>11. SerialInv'
  BY PointersKeep, EntriesKeep, CallsKnow DEF PoolInv, Observe, counts, storage, deferred,
     pointers, iterators, calls, Goto, Return, SetStrong, Entry, TypeOK, CallsInv, IteratorsInv,
     SerialInv, Stands, Seeking, Sweeping
<1>12. StandInv'
  BY DEF PoolInv, Observe, counts, storage, deferred, pointers, iterators, calls, Goto, Return,
     SetStrong, Entry, TypeOK, CallsInv, VersionsBound, IteratorsInv, StandInv, Stands, Seeking,
     Destroyable, EntrySteps
<1>13. DueInv'
  BY EntryShape, PointersKeep, EntriesKeep, CallsKnow DEF PoolInv, Observe, counts, storage,
     deferred, pointers, iterators, calls, Goto, Return, SetStrong, Entry, TypeOK, DueInv, Ahead,
     IteratorsInv, Stands, Seeking, End, Unused, EmptyInv
<1>14. DestructionDue'
  BY DEF PoolInv, Observe, counts, storage, deferred, pointers, iterators, calls, Goto, Return,
     SetStrong, Entry, TypeOK, CallsInv, DestructionDue, Destroyable, EntrySteps
<1> QED BY <1>1, <1>2, <1>3, <1>4, <1>5, <1>6, <1>7, <1>8, <1>9, <1>10, <1>11, <1>12, <1>13,
   <1>14 DEF PoolInv

\* An upgrade preserves the invariant.
LEMMA LockSafe ==
  ASSUME PoolInv, NEW t \in Threads, NEW e \in Entries, Lock(t, e)
  PROVE  PoolInv'
<1>a. /\ Published(e) /\ strong[e].count >= 0 /\ strong[e].count \in Nat /\ e \notin owned[t]
      /\ SetStrong(e, strong[e].count + 1) /\ strong[e].count + 1 \in Nat \union {-1}
  BY PointersKeep, EntriesKeep DEF Lock
<1>b. /\ strong' \in [Entries -> [count : Nat \union {-1}, version : Nat]]
      /\ strong'[e].count = strong[e].count + 1 /\ \A x \in Entries \ {e} : strong'[x] = strong[x]
      /\ \A x \in Entries : /\ strong[x].version \in Nat /\ strong[x].count \in Nat \union {-1}
                            /\ strong'[x].version >= strong[x].version
  BY <1>a, StrongChanges DEF PoolInv
<1>c. /\ pc' = pc /\ subject' = subject /\ object' = object /\ target' = target /\ due' = due
      /\ todo' = todo /\ pending' = pending /\ pending_destructions' = pending_destructions
      /\ owned' = [owned EXCEPT ![t] = @ \union {e}]
  BY DEF Lock, counts, storage, deferred, pointers, iterators, calls, Goto, Return, SetStrong, Entry
<1>1. TypeOK'
  <2>1. owned' \in [Threads -> SUBSET Entries]
    BY <1>c DEF PoolInv, TypeOK
  <2> QED BY <1>b, <2>1 DEF Lock, iterators, storage, deferred, calls, PoolInv, TypeOK
<1>2. CallsInv'
  BY EntryShape DEF PoolInv, Lock, counts, storage, deferred, pointers, iterators, calls, Goto,
     Return, SetStrong, Entry, TypeOK, CallsInv, EntrySteps, NoSubject
<1>3. PlacesInv'
  BY EntryShape, PointersKeep, EntriesKeep, CallsKnow DEF PoolInv, Lock, counts, storage,
     deferred, pointers, iterators, calls, Goto, Return, SetStrong, Entry, TypeOK, CallsInv,
     PlacesInv, Unused, CallAt, Handling, EntrySteps
<1>4. EmptyInv'
  BY EntryShape, PointersKeep, EntriesKeep, CallsKnow DEF PoolInv, Lock, counts, storage,
     deferred, pointers, iterators, calls, Goto, Return, SetStrong, Entry, TypeOK, CallsInv,
     PlacesInv, EmptyInv, Unused, CallAt, Occupied, Handling, EntrySteps
<1>5. StagesInv'
  BY PointersKeep, EntriesKeep, CallsKnow DEF PoolInv, Lock, counts, storage, deferred, pointers,
     iterators, calls, Goto, Return, SetStrong, Entry, TypeOK, CallsInv, PlacesInv, StagesInv,
     Published, CallAt, Occupied, Handling, EntrySteps
<1>6. WeakInv'
  <2>1. weak' = weak /\ \A x : Observers(x)' = Observers(x)
    BY DEF Lock, counts, storage, deferred, pointers, iterators, calls, Goto, Return, SetStrong,
       Entry, Observers
  <2>2. \A x \in Entries : Occupied(x)' <=> Occupied(x)
    BY CallsKnow DEF Lock, counts, storage, deferred, pointers, iterators, calls, Goto, Return,
       SetStrong, Entry, PoolInv, TypeOK, Occupied, CallAt, PlacesInv, Handling, EntrySteps
  <2> QED BY <2>1, <2>2 DEF PoolInv, WeakInv
<1>7. StrongInv'
  <2>1. Published(e)'
    BY <1>a, <1>c DEF Published, CallAt, Entry
  <2>2. \A x \in Entries \ {e} : (Published(x)' <=> Published(x)) /\ Owners(x)' = Owners(x)
    BY <1>c DEF Published, CallAt, Entry, Owners, PoolInv, TypeOK
  <2>3. Owners(e)' = Owners(e) \union {t} /\ t \notin Owners(e) /\ Owners(e) \subseteq Threads
    BY <1>a, <1>c DEF Owners, PoolInv, TypeOK
  <2>4. Cardinality(Owners(e)') = Cardinality(Owners(e)) + 1
    BY <2>3, OneThreadMore
  <2>5. strong[e].count = Cardinality(Owners(e))
    BY <1>a DEF PoolInv, StrongInv
  <2> QED BY <1>a, <2>1, <2>2, <2>4, <2>5, OwnersChange
<1>8. ActiveInv'
  <2>1. active' = active
    BY DEF Lock, counts, storage, deferred, pointers, iterators, calls, Goto, Return, SetStrong,
       Entry
  <2>2. \A x \in Entries : Counted(x)' <=> Counted(x)
    BY CallsKnow DEF Lock, counts, storage, deferred, pointers, iterators, calls, Goto, Return,
       SetStrong, Entry, PoolInv, TypeOK, Counted, CallAt, PlacesInv, Handling, EntrySteps
  <2>3. \A b \in Blocks : {x \in OfBlock(b) : Counted(x)}' = {x \in OfBlock(b) : Counted(x)}
    BY <2>2, EntryShape
  <2> QED BY <2>1, <2>3 DEF PoolInv, ActiveInv
<1>9. VersionsBound'
  BY <1>b, <1>c, VersionsGrow DEF PoolInv, CallsInv, EntrySteps
<1>10. IteratorsInv'
  BY EntryShape, PoolAssumption DEF PoolInv, Lock, counts, storage, deferred, pointers, iterators,
     calls, Goto, Return, SetStrong, Entry, TypeOK, IteratorsInv, Stands, Seeking, End
<1>11. SerialInv'
  BY PointersKeep, EntriesKeep, CallsKnow DEF PoolInv, Lock, counts, storage, deferred, pointers,
     iterators, calls, Goto, Return, SetStrong, Entry, TypeOK, CallsInv, IteratorsInv, SerialInv,
     Stands, Seeking, Sweeping
<1>12. StandInv'
  BY DEF PoolInv, Lock, counts, storage, deferred, pointers, iterators, calls, Goto, Return,
     SetStrong, Entry, TypeOK, CallsInv, VersionsBound, IteratorsInv, StandInv, Stands, Seeking,
     Destroyable, EntrySteps
<1>13. DueInv'
  <2>1. \A v \in Threads : \A x \in due[v] : x \in Entries /\ strong[x].count >= 1
    BY DEF PoolInv, DueInv, TypeOK
  <2>2. \A v \in Threads : \A x \in due[v] : strong'[x].count >= 1
    BY <1>a, <1>b, <2>1
  <2>3. \A v, x : Ahead(v, x)' <=> Ahead(v, x)
    BY <1>c DEF Ahead
  <2> QED BY <1>c, <2>2, <2>3 DEF PoolInv, DueInv
<1>14. DestructionDue'
  <2>1. \A x \in Entries : strong'[x].count = 0 => x # e /\ strong'[x] = strong[x]
    BY <1>a, <1>b
  <2> QED BY <1>c, <2>1 DEF PoolInv, DestructionDue
<1> QED BY <1>1, <1>2, <1>3, <1>4, <1>5, <1>6, <1>7, <1>8, <1>9, <1>10, <1>11, <1>12, <1>13,
   <1>14 DEF PoolInv

\* A pointer that goes preserves the invariant.
LEMMA DropPointerSafe ==
  ASSUME PoolInv, NEW t \in Threads, NEW e \in Entries, DropPointer(t, e)
  PROVE  PoolInv'
<1>a. /\ pc[t] = "idle" /\ e \in owned[t] /\ Published(e) /\ strong[e].count >= 1
      /\ strong[e].count \in Nat /\ SetStrong(e, strong[e].count - 1)
      /\ strong[e].count - 1 \in Nat \union {-1}
  BY PointersKeep, EntriesKeep DEF DropPointer
<1>b. /\ strong' \in [Entries -> [count : Nat \union {-1}, version : Nat]]
      /\ strong'[e].count = strong[e].count - 1 /\ strong'[e].version = strong[e].version + 1
      /\ \A x \in Entries \ {e} : strong'[x] = strong[x]
      /\ \A x \in Entries : /\ strong[x].version \in Nat /\ strong[x].count \in Nat \union {-1}
                            /\ strong'[x].version >= strong[x].version
  BY <1>a, StrongChanges DEF PoolInv
<1>c. /\ object' = object /\ target' = target /\ iterating' = iterating
      /\ freed' = freed /\ free' = free /\ block_count' = block_count
      /\ todo' = todo /\ pending' = pending /\ pending_destructions' = pending_destructions
      /\ owned' = [owned EXCEPT ![t] = @ \ {e}]
      /\ \A u \in Threads \ {t} : pc'[u] = pc[u] /\ subject'[u] = subject[u] /\ Entry(u)' = Entry(u)
      /\ \/ pc'[t] = "idle"
         \/ pc'[t] = "dropped" /\ subject'[t] = [entry |-> e, version |-> strong[e].version + 1]
  BY <1>a DEF DropPointer, counts, storage, deferred, pointers, iterators, calls, Goto, Return,
     SetStrong, Entry, PoolInv, TypeOK
<1>1. TypeOK'
  <2>1. owned' \in [Threads -> SUBSET Entries]
    BY <1>c DEF PoolInv, TypeOK
  <2>2. subject' \in [Threads -> Subjects] /\ pc' \in [Threads -> Steps] /\ due' \in [Threads -> SUBSET Entries]
    <3>1. CASE strong[e].count = 1
      <4>1. [entry |-> e, version |-> strong[e].version + 1] \in Subjects
        BY <1>b DEF Subjects
      <4>2. subject' \in [Threads -> Subjects]
        BY <3>1, <4>1 DEF DropPointer, PoolInv, TypeOK
      <4>3. pc' \in [Threads -> Steps]
        BY <3>1 DEF DropPointer, Goto, PoolInv, TypeOK, Steps
      <4>4. due' \in [Threads -> SUBSET Entries]
        BY <3>1 DEF DropPointer, PoolInv, TypeOK
      <4> QED BY <4>2, <4>3, <4>4
    <3>2. CASE strong[e].count # 1
      BY <3>2 DEF DropPointer, PoolInv, TypeOK
    <3> QED BY <3>1, <3>2
  <2> QED BY <1>b, <2>1, <2>2 DEF DropPointer, storage, deferred, PoolInv, TypeOK
<1>2. CallsInv'
  BY EntryShape DEF PoolInv, DropPointer, counts, storage, deferred, pointers, iterators, calls,
     Goto, Return, SetStrong, Entry, TypeOK, CallsInv, EntrySteps, NoSubject
<1>3. PlacesInv'
  <2>1. \A x, s : s \subseteq Handling => (CallAt(s, x)' <=> CallAt(s, x))
    BY <1>a, <1>c DEF CallAt, Handling, EntrySteps
  <2>2. {"creating", "deallocating"} \subseteq Handling
    BY DEF Handling, EntrySteps
  <2>3. \A x : CallAt({"creating", "deallocating"}, x)' <=> CallAt({"creating", "deallocating"}, x)
    BY <2>1, <2>2
  <2>4. \A u \in Threads : pc'[u] \in Handling => u # t /\ pc[u] \in Handling /\ Entry(u)' = Entry(u)
    BY <1>c DEF Handling, EntrySteps
  <2> QED BY <1>c, <2>3, <2>4 DEF PoolInv, PlacesInv
<1>4. EmptyInv'
  <2>1. \A x \in Entries : Unused(x)' <=> Unused(x)
    BY <1>a, <1>c DEF Unused, CallAt
  <2>2. \A x \in Entries : Unused(x) => x # e
    BY <1>a, EntriesKeep
  <2>3. weak' = weak
    BY DEF DropPointer
  <2> QED BY <1>b, <1>c, <2>1, <2>2, <2>3 DEF PoolInv, EmptyInv
<1>5. StagesInv'
  BY PointersKeep, EntriesKeep, CallsKnow DEF PoolInv, DropPointer, counts, storage, deferred,
     pointers, iterators, calls, Goto, Return, SetStrong, Entry, TypeOK, CallsInv, PlacesInv,
     StagesInv, Published, CallAt, Occupied, Handling, EntrySteps
<1>6. WeakInv'
  <2>1. weak' = weak /\ \A x : Observers(x)' = Observers(x)
    BY DEF DropPointer, counts, storage, deferred, pointers, iterators, calls, Goto, Return,
       SetStrong, Entry, Observers
  <2>2. \A x \in Entries : Occupied(x)' <=> Occupied(x)
    BY <1>a, <1>c DEF Occupied, CallAt, Handling, EntrySteps
  <2> QED BY <2>1, <2>2 DEF PoolInv, WeakInv
<1>7. StrongInv'
  <2>1. Published(e)'
    BY <1>a, <1>c DEF Published, CallAt
  <2>2. \A x \in Entries \ {e} : (Published(x)' <=> Published(x)) /\ Owners(x)' = Owners(x)
    BY <1>a, <1>c DEF Published, CallAt, Owners, PoolInv, TypeOK
  <2>3. Owners(e)' = Owners(e) \ {t} /\ t \in Owners(e) /\ Owners(e) \subseteq Threads
    BY <1>a, <1>c DEF Owners, PoolInv, TypeOK
  <2>4. Cardinality(Owners(e)') = Cardinality(Owners(e)) - 1
    BY <2>3, OneThreadLess
  <2>5. strong[e].count = Cardinality(Owners(e))
    BY <1>a DEF PoolInv, StrongInv
  <2> QED BY <1>a, <2>1, <2>2, <2>4, <2>5, OwnersChange
<1>8. ActiveInv'
  <2>1. active' = active
    BY DEF DropPointer, counts, storage, deferred, pointers, iterators, calls, Goto, Return,
       SetStrong, Entry
  <2>2. \A x \in Entries : Counted(x)' <=> Counted(x)
    BY <1>a, <1>c DEF Counted, CallAt, Handling, EntrySteps
  <2>3. \A b \in Blocks : {x \in OfBlock(b) : Counted(x)}' = {x \in OfBlock(b) : Counted(x)}
    BY <2>2, EntryShape
  <2> QED BY <2>1, <2>3 DEF PoolInv, ActiveInv
<1>9. VersionsBound'
  <2>1. pc'[t] = "dropped" => Entry(t)' = e /\ subject'[t].version <= strong'[e].version
    BY <1>b, <1>c DEF Entry
  <2> QED BY <1>a, <1>b, <1>c, <2>1, VersionsGrow DEF PoolInv, CallsInv, EntrySteps
<1>10. IteratorsInv'
  BY EntryShape, PoolAssumption DEF PoolInv, DropPointer, counts, storage, deferred, pointers,
     iterators, calls, Goto, Return, SetStrong, Entry, TypeOK, IteratorsInv, Stands, Seeking, End
<1>11. SerialInv'
  <2>1. \A u \in Threads : /\ Stands(u)' <=> Stands(u)
                           /\ pc'[u] \in Sweeping <=> pc[u] \in Sweeping
                           /\ pc'[u] = "beginning" <=> pc[u] = "beginning"
    BY <1>a, <1>c DEF Stands, Seeking, Sweeping
  <2> QED BY <1>c, <2>1 DEF PoolInv, SerialInv
<1>12. StandInv'
  BY DEF PoolInv, DropPointer, counts, storage, deferred, pointers, iterators, calls, Goto,
     Return, SetStrong, Entry, TypeOK, CallsInv, VersionsBound, IteratorsInv, StandInv, Stands,
     Seeking, Destroyable, EntrySteps
<1>13. DueInv'
  <2>1. /\ \A v \in Threads : \A x \in due'[v] : x \in due[v] /\ x \in Entries
                                                 /\ (x = e => strong[e].count # 1)
    BY DEF DropPointer, PoolInv, TypeOK
  <2>2. \A v \in Threads : \A x \in due'[v] :
          strong[x].count >= 1 /\ (pc[v] # "beginning" => target[v] # End /\ Ahead(v, x))
    BY <2>1 DEF PoolInv, DueInv
  <2>3. \A v \in Threads : \A x \in due'[v] : strong'[x].count >= 1
    BY <1>a, <1>b, <2>1, <2>2
  <2>4. \A v \in Threads : \A x : /\ pc'[v] # "beginning" => pc[v] # "beginning"
                                  /\ Ahead(v, x)' <=> Ahead(v, x)
    BY <1>a, <1>c DEF Ahead, Seeking
  <2> QED BY <1>c, <2>2, <2>3, <2>4 DEF DueInv
<1>14. DestructionDue'
  BY DEF PoolInv, DropPointer, counts, storage, deferred, pointers, iterators, calls, Goto,
     Return, SetStrong, Entry, TypeOK, CallsInv, DestructionDue, Destroyable, EntrySteps
<1> QED BY <1>1, <1>2, <1>3, <1>4, <1>5, <1>6, <1>7, <1>8, <1>9, <1>10, <1>11, <1>12, <1>13,
   <1>14 DEF PoolInv

\* The decision who destroys preserves the invariant.
LEMMA DecideDestructionSafe ==
  ASSUME PoolInv, NEW t \in Threads, DecideDestruction(t)
  PROVE  PoolInv'
<1>1. TypeOK'
  BY PoolAssumption, EntryShape, CallsKnow, PointersKeep DEF PoolInv, DecideDestruction, counts,
     storage, deferred, pointers, iterators, calls, Goto, Return, SetStrong, Entry, TypeOK,
     Subjects, Steps, NoSubject
<1>2. CallsInv'
  BY EntryShape DEF PoolInv, DecideDestruction, counts, storage, deferred, pointers, iterators,
     calls, Goto, Return, SetStrong, Entry, TypeOK, CallsInv, EntrySteps, NoSubject
<1>3. PlacesInv' /\ EmptyInv' /\ StagesInv' /\ WeakInv' /\ StrongInv' /\ ActiveInv'
  <2>1. UNCHANGED <<counts, storage, pointers, freed>>
    BY DEF DecideDestruction, calls
  <2>2. \A v \in Threads : pc[v] \in Handling \/ pc'[v] \in Handling =>
                             pc'[v] = pc[v] /\ Entry(v)' = Entry(v)
    BY DEF DecideDestruction, counts, storage, deferred, pointers, iterators, calls, Goto, Return,
       SetStrong, Entry, PoolInv, TypeOK, Handling, EntrySteps
  <2> QED BY <2>1, <2>2, EntriesUntouched
<1>4. VersionsBound'
  BY DEF PoolInv, DecideDestruction, counts, storage, deferred, pointers, iterators, calls, Goto,
     Return, SetStrong, Entry, TypeOK, CallsInv, VersionsBound, EntrySteps
<1>5. IteratorsInv'
  BY EntryShape, PoolAssumption DEF PoolInv, DecideDestruction, counts, storage, deferred,
     pointers, iterators, calls, Goto, Return, SetStrong, Entry, TypeOK, IteratorsInv, Stands,
     Seeking, End
<1>6. SerialInv'
  BY PointersKeep, EntriesKeep, CallsKnow DEF PoolInv, DecideDestruction, counts, storage,
     deferred, pointers, iterators, calls, Goto, Return, SetStrong, Entry, TypeOK, CallsInv,
     IteratorsInv, SerialInv, Stands, Seeking, Sweeping
<1>7. StandInv'
  <2>1. /\ \A u \in Threads \ {t} : pc'[u] = pc[u] /\ subject' = subject
        /\ pc'[t] = "destroying" => active_iterators = 0
        /\ pc'[t] \notin Seeking /\ pc[t] \notin Seeking /\ target' = target /\ strong' = strong
    BY DEF DecideDestruction, Goto, counts, iterators, PoolInv, TypeOK, Seeking
  <2>2. active_iterators = 0 => \A u \in Threads : target[u] = End
    <3>1. Cardinality(iterating) = active_iterators /\ iterating \subseteq Threads
      BY DEF PoolInv, IteratorsInv, TypeOK
    <3>2. active_iterators = 0 => iterating = {}
      BY <3>1, SomeThreads
    <3> QED BY <3>2 DEF PoolInv, IteratorsInv
  <2> SUFFICES ASSUME NEW u \in Threads, NEW v \in Threads, pc'[v] = "destroying",
                      Destroyable(Entry(v), subject[v].version)', Stands(u)'
               PROVE  target'[u] # Entry(v)'
    BY DEF StandInv
  <2>3. Stands(u)
    BY <2>1 DEF Stands, Seeking
  <2>4. subject' = subject /\ Entry(v)' = Entry(v) /\ Destroyable(Entry(v), subject[v].version)
    BY <2>1 DEF DecideDestruction, Entry, Destroyable
  <2>5. CASE v = t
    BY <2>1, <2>2, <2>3, <2>5 DEF Stands
  <2>6. CASE v # t
    BY <2>1, <2>3, <2>4, <2>6 DEF PoolInv, StandInv
  <2> QED BY <2>5, <2>6
<1>8. DueInv'
  BY EntryShape, PointersKeep, EntriesKeep, CallsKnow DEF PoolInv, DecideDestruction, counts,
     storage, deferred, pointers, iterators, calls, Goto, Return, SetStrong, Entry, TypeOK,
     DueInv, Ahead, IteratorsInv, Stands, Seeking, End, Unused, EmptyInv
<1>9. DestructionDue'
  BY DEF PoolInv, DecideDestruction, counts, storage, deferred, pointers, iterators, calls, Goto,
     Return, SetStrong, Entry, TypeOK, CallsInv, DestructionDue, Destroyable, EntrySteps
<1> QED BY <1>1, <1>2, <1>3, <1>4, <1>5, <1>6, <1>7, <1>8, <1>9 DEF PoolInv

\* The destruction of an object preserves the invariant.
LEMMA TryToDestroySafe ==
  ASSUME PoolInv, NEW t \in Threads, TryToDestroy(t)
  PROVE  PoolInv'
<1>p. PICK e : e = Entry(t)
  OBVIOUS
<1>a. /\ pc[t] = "destroying" /\ e \in Entries /\ Destroyable(e, subject[t].version)
      /\ Destroy(e) /\ pc' = [pc EXCEPT ![t] = "releasing"] /\ pc'[t] = "releasing"
      /\ \A u \in Threads \ {t} : pc'[u] = pc[u]
      /\ Entry(t)' = e /\ \A u \in Threads \ {t} : subject'[u] = subject[u] /\ Entry(u)' = Entry(u)
      /\ UNCHANGED <<weak, storage, pointers, iterators, freed>>
  BY <1>p DEF TryToDestroy, Goto, Entry, PoolInv, TypeOK, CallsInv, EntrySteps
<1>b. strong[e].count = 0
  BY <1>a DEF Destroyable
<1>c. /\ strong' \in [Entries -> [count : Nat \union {-1}, version : Nat]]
      /\ object' \in [Entries -> {"none", "alive", "failed"}]
      /\ active' \in [Blocks -> Nat]
      /\ PlacesInv' /\ EmptyInv' /\ StagesInv' /\ WeakInv' /\ StrongInv' /\ ActiveInv'
      /\ VersionsBound' /\ StandInv' /\ DueInv'
  BY <1>a, <1>b, ObjectDestroyed
<1>d. /\ strong'[e].count = -1 /\ \A x \in Entries \ {e} : strong'[x] = strong[x]
      /\ \A x \in Entries \ {e} : object'[x] = object[x]
  BY <1>a, StrongChanges DEF Destroy, PoolInv, TypeOK
<1>1. TypeOK'
  <2>1. pc' \in [Threads -> Steps]
    BY <1>a DEF PoolInv, TypeOK, Steps
  <2> QED BY <1>c, <2>1 DEF TryToDestroy, storage, deferred, pointers, iterators, PoolInv, TypeOK
<1>2. CallsInv'
  BY EntryShape DEF PoolInv, TryToDestroy, Destroy, Destroyable, counts, storage, deferred,
     pointers, iterators, calls, Goto, Return, SetStrong, Entry, TypeOK, CallsInv, EntrySteps,
     NoSubject
<1>3. PlacesInv'
  BY <1>c
<1>4. EmptyInv'
  BY <1>c
<1>5. StagesInv'
  BY <1>c
<1>6. WeakInv'
  BY <1>c
<1>7. StrongInv'
  BY <1>c
<1>8. ActiveInv'
  BY <1>c
<1>9. VersionsBound'
  BY <1>c
<1>10. IteratorsInv'
  BY EntryShape, PoolAssumption DEF PoolInv, TryToDestroy, Destroy, Destroyable, counts, storage,
     deferred, pointers, iterators, calls, Goto, Return, SetStrong, Entry, TypeOK, IteratorsInv,
     Stands, Seeking, End
<1>11. SerialInv'
  <2>1. \A u \in Threads : /\ Stands(u)' <=> Stands(u)
                           /\ pc'[u] \in Sweeping <=> pc[u] \in Sweeping
                           /\ pc'[u] = "beginning" <=> pc[u] = "beginning"
    BY <1>a DEF Stands, Seeking, Sweeping, iterators
  <2>2. \A u \in Threads : Stands(u) => target[u] \in Entries \ {e} /\ target'[u] = target[u]
    BY <1>p, <1>a DEF PoolInv, StandInv, IteratorsInv, iterators
  <2>3. iterating' = iterating
    BY <1>a DEF iterators
  <2> QED BY <1>d, <2>1, <2>2, <2>3 DEF PoolInv, SerialInv
<1>12. StandInv'
  BY <1>c
<1>13. DueInv'
  BY <1>c
<1>14. DestructionDue'
  BY DEF PoolInv, TryToDestroy, Destroy, Destroyable, counts, storage, deferred, pointers,
     iterators, calls, Goto, Return, SetStrong, Entry, TypeOK, CallsInv, DestructionDue,
     EntrySteps
<1> QED BY <1>1, <1>2, <1>3, <1>4, <1>5, <1>6, <1>7, <1>8, <1>9, <1>10, <1>11, <1>12, <1>13,
   <1>14 DEF PoolInv

\* Finding an object in use again preserves the invariant.
LEMMA RescuedSafe ==
  ASSUME PoolInv, NEW t \in Threads, Rescued(t)
  PROVE  PoolInv'
<1>1. TypeOK'
  BY PoolAssumption, EntryShape, CallsKnow, PointersKeep DEF PoolInv, Rescued, Finish,
     Destroyable, counts, storage, deferred, pointers, iterators, calls, Goto, Return, SetStrong,
     Entry, TypeOK, Subjects, Steps, NoSubject
<1>2. CallsInv'
  BY EntryShape DEF PoolInv, Rescued, Finish, Destroyable, counts, storage, deferred, pointers,
     iterators, calls, Goto, Return, SetStrong, Entry, TypeOK, CallsInv, EntrySteps, NoSubject
<1>3. PlacesInv' /\ EmptyInv' /\ StagesInv' /\ WeakInv' /\ StrongInv' /\ ActiveInv'
  <2>1. UNCHANGED <<counts, storage, pointers, freed>>
    BY DEF Rescued, calls, Finish, Destroyable
  <2>2. \A v \in Threads : pc[v] \in Handling \/ pc'[v] \in Handling =>
                             pc'[v] = pc[v] /\ Entry(v)' = Entry(v)
    BY DEF Rescued, Finish, Destroyable, counts, storage, deferred, pointers, iterators, calls,
       Goto, Return, SetStrong, Entry, PoolInv, TypeOK, Handling, EntrySteps
  <2> QED BY <2>1, <2>2, EntriesUntouched
<1>4. VersionsBound'
  BY DEF PoolInv, Rescued, Finish, Destroyable, counts, storage, deferred, pointers, iterators,
     calls, Goto, Return, SetStrong, Entry, TypeOK, CallsInv, VersionsBound, EntrySteps
<1>5. IteratorsInv'
  BY EntryShape, PoolAssumption DEF PoolInv, Rescued, Finish, Destroyable, counts, storage,
     deferred, pointers, iterators, calls, Goto, Return, SetStrong, Entry, TypeOK, IteratorsInv,
     Stands, Seeking, End
<1>6. SerialInv'
  BY PointersKeep, EntriesKeep, CallsKnow DEF PoolInv, Rescued, Finish, Destroyable, counts,
     storage, deferred, pointers, iterators, calls, Goto, Return, SetStrong, Entry, TypeOK,
     CallsInv, IteratorsInv, SerialInv, Stands, Seeking, Sweeping
<1>7. StandInv'
  BY DEF PoolInv, Rescued, Finish, Destroyable, counts, storage, deferred, pointers, iterators,
     calls, Goto, Return, SetStrong, Entry, TypeOK, CallsInv, VersionsBound, IteratorsInv,
     StandInv, Stands, Seeking, EntrySteps
<1>8. DueInv'
  BY EntryShape, PointersKeep, EntriesKeep, CallsKnow DEF PoolInv, Rescued, Finish, Destroyable,
     counts, storage, deferred, pointers, iterators, calls, Goto, Return, SetStrong, Entry,
     TypeOK, DueInv, Ahead, IteratorsInv, Stands, Seeking, End, Unused, EmptyInv
<1>9. DestructionDue'
  BY DEF PoolInv, Rescued, Finish, Destroyable, counts, storage, deferred, pointers, iterators,
     calls, Goto, Return, SetStrong, Entry, TypeOK, CallsInv, DestructionDue, EntrySteps
<1> QED BY <1>1, <1>2, <1>3, <1>4, <1>5, <1>6, <1>7, <1>8, <1>9 DEF PoolInv

\* The reference of an object to its entry preserves the invariant.
LEMMA ReleaseEntrySafe ==
  ASSUME PoolInv, NEW t \in Threads, ReleaseEntry(t)
  PROVE  PoolInv'
<1>p. PICK e : e = Entry(t)
  OBVIOUS
<1>a. /\ pc[t] = "releasing" /\ e \in Entries /\ object[e] = "none" /\ Occupied(e) /\ ~Published(e)
      /\ ~Unused(e) /\ weak[e] \in Nat /\ weak[e] - 1 \in Nat
      /\ \A u \in Threads \ {t} : pc[u] \in Handling => Entry(u) # e
  <2>1. /\ pc[t] = "releasing" /\ e \in Entries /\ object[e] = "none" /\ Occupied(e) /\ ~Published(e)
        /\ ~Unused(e) /\ weak[e] >= 1
    BY <1>p, CallsKnow DEF ReleaseEntry, PoolInv, StagesInv, EntrySteps
  <2>2. weak[e] \in Nat /\ weak[e] - 1 \in Nat
    BY <2>1 DEF PoolInv, TypeOK
  <2>3. \A u \in Threads \ {t} : pc[u] \in Handling => Entry(u) # e
    BY <1>p, <2>1 DEF PoolInv, PlacesInv, Handling, EntrySteps
  <2> QED BY <2>1, <2>2, <2>3
<1>b. /\ e[1] <= block_count /\ e \notin free /\ strong[e].count = -1
      /\ \A u \in Threads : e \notin freed[u]
  <2>1. strong[e].count = -1
    BY <1>a, EntriesKeep
  <2>2. e[1] \in Nat /\ block_count \in Nat
    BY <1>a, EntryShape DEF PoolInv, TypeOK
  <2> QED BY <1>a, <2>1, <2>2 DEF Unused
<1>c. /\ weak' = [weak EXCEPT ![e] = @ - 1]
      /\ weak'[e] = weak[e] - 1 /\ \A x \in Entries \ {e} : weak'[x] = weak[x]
      /\ weak' \in [Entries -> Nat]
      /\ object' = object /\ strong' = strong /\ observed' = observed
      /\ free' = free /\ block_count' = block_count
  BY <1>p, <1>a DEF ReleaseEntry, Entry, PoolInv, TypeOK, storage, pointers
<1>d. /\ subject' \in [Threads -> Subjects] /\ pc' \in [Threads -> Steps] /\ freed' = freed
      /\ \A u \in Threads \ {t} : pc'[u] = pc[u] /\ subject'[u] = subject[u] /\ Entry(u)' = Entry(u)
      /\ \/ weak[e] # 1 /\ pc'[t] = "idle"
         \/ weak[e] = 1 /\ pc'[t] = "deallocating" /\ Entry(t)' = e
  <2>1. NoSubject \in Subjects
    BY DEF NoSubject, Subjects
  <2>2. CASE weak[e] = 1
    BY <1>p, <2>2 DEF ReleaseEntry, Goto, Entry, PoolInv, TypeOK, Steps
  <2>3. CASE weak[e] # 1
    <3>1. subject' = [subject EXCEPT ![t] = NoSubject] /\ pc' = [pc EXCEPT ![t] = "idle"] /\ freed' = freed
      BY <1>p, <2>3 DEF ReleaseEntry, Finish, Return, Goto
    <3> QED BY <2>1, <2>3, <3>1 DEF Entry, PoolInv, TypeOK, Steps
  <2> QED BY <2>2, <2>3
<1>1. TypeOK'
  <2>1. pending_mutex' \in Threads \union {None}
    BY DEF ReleaseEntry, Finish, PoolInv, TypeOK
  <2> QED BY <1>c, <1>d, <2>1 DEF ReleaseEntry, storage, pointers, iterators, PoolInv, TypeOK
<1>2. CallsInv'
  BY EntryShape DEF PoolInv, ReleaseEntry, Finish, counts, storage, deferred, pointers, iterators,
     calls, Goto, Return, SetStrong, Entry, TypeOK, CallsInv, EntrySteps, NoSubject
<1>3. PlacesInv'
  <2>1. \A x \in Entries : CallAt({"creating", "deallocating"}, x)' =>
          CallAt({"creating", "deallocating"}, x) \/ x = e
    BY <1>c, <1>d DEF CallAt
  <2>2. \A u \in Threads : pc'[u] \in Handling => pc[u] \in Handling /\ Entry(u)' = Entry(u)
    BY <1>p, <1>a, <1>d DEF Handling, EntrySteps
  <2>3. free \subseteq Entries /\ \A u \in Threads : freed[u] \subseteq Entries
    BY DEF PoolInv, TypeOK
  <2>4. \A x \in free' : x[1] <= block_count' /\ ~CallAt({"creating", "deallocating"}, x)'
    BY <1>b, <1>c, <2>1, <2>3 DEF PoolInv, PlacesInv
  <2>5. \A u \in Threads : /\ pc'[u] \in Handling => Entry(u)'[1] <= block_count'
                           /\ \A x \in freed'[u] : /\ x[1] <= block_count' /\ x \notin free'
                                                   /\ ~CallAt({"creating", "deallocating"}, x)'
    BY <1>b, <1>c, <1>d, <2>1, <2>2, <2>3 DEF PoolInv, PlacesInv
  <2>6. \A u, v \in Threads : u # v =>
          /\ freed'[u] \cap freed'[v] = {}
          /\ pc'[u] \in Handling /\ pc'[v] \in Handling => Entry(u)' # Entry(v)'
    BY <1>d, <2>2 DEF PoolInv, PlacesInv
  <2> QED BY <2>4, <2>5, <2>6 DEF PlacesInv
<1>4. EmptyInv'
  <2>1. \A x \in Entries : Unused(x)' => Unused(x) \/ (weak[e] = 1 /\ x = e)
    BY <1>c, <1>d DEF Unused, CallAt
  <2>2. \A x \in Entries : Unused(x) => x # e
    BY <1>a
  <2> QED BY <1>a, <1>b, <1>c, <2>1, <2>2 DEF PoolInv, EmptyInv
<1>5. StagesInv'
  BY PointersKeep, EntriesKeep, CallsKnow DEF PoolInv, ReleaseEntry, Finish, counts, storage,
     deferred, pointers, iterators, calls, Goto, Return, SetStrong, Entry, TypeOK, CallsInv,
     PlacesInv, StagesInv, Published, CallAt, Occupied, Handling, EntrySteps
<1>6. WeakInv'
  <2>1. ~Occupied(e)'
    BY <1>a, <1>c, <1>d DEF Occupied, CallAt, Handling, EntrySteps
  <2>2. \A x \in Entries \ {e} : Occupied(x)' <=> Occupied(x)
    BY <1>p, <1>a, <1>c, <1>d DEF Occupied, CallAt
  <2> QED BY <1>a, <1>c, <2>1, <2>2, EntryReleased
<1>7. StrongInv'
  <2>1. strong' = strong /\ \A x : Owners(x)' = Owners(x)
    BY DEF ReleaseEntry, Finish, counts, storage, deferred, pointers, iterators, calls, Goto,
       Return, SetStrong, Entry, Owners
  <2>2. \A x \in Entries : Published(x)' <=> Published(x)
    BY <1>p, <1>a, <1>c, <1>d DEF Published, CallAt, Handling, EntrySteps
  <2> QED BY <2>1, <2>2 DEF PoolInv, StrongInv
<1>8. ActiveInv'
  <2>1. active' = active
    BY DEF ReleaseEntry, Finish, counts, storage, deferred, pointers, iterators, calls, Goto,
       Return, SetStrong, Entry
  <2>2. \A x \in Entries : Counted(x)' <=> Counted(x)
    BY <1>p, <1>a, <1>c, <1>d DEF Counted, CallAt, Handling, EntrySteps
  <2>3. \A b \in Blocks : {x \in OfBlock(b) : Counted(x)}' = {x \in OfBlock(b) : Counted(x)}
    BY <2>2, EntryShape
  <2> QED BY <2>1, <2>3 DEF PoolInv, ActiveInv
<1>9. VersionsBound'
  <2>1. \A u \in Threads : pc'[u] \in {"dropped", "deferring", "marking", "destroying"} =>
          pc[u] = pc'[u] /\ subject'[u] = subject[u] /\ Entry(u)' = Entry(u)
    BY <1>d
  <2> QED BY <1>c, <2>1 DEF PoolInv, VersionsBound
<1>10. IteratorsInv'
  BY EntryShape, PoolAssumption DEF PoolInv, ReleaseEntry, Finish, counts, storage, deferred,
     pointers, iterators, calls, Goto, Return, SetStrong, Entry, TypeOK, IteratorsInv, Stands,
     Seeking, End
<1>11. SerialInv'
  BY PointersKeep, EntriesKeep, CallsKnow DEF PoolInv, ReleaseEntry, Finish, counts, storage,
     deferred, pointers, iterators, calls, Goto, Return, SetStrong, Entry, TypeOK, CallsInv,
     IteratorsInv, SerialInv, Stands, Seeking, Sweeping
<1>12. StandInv'
  <2> SUFFICES ASSUME NEW u \in Threads, NEW v \in Threads, pc'[v] = "destroying",
                      Destroyable(Entry(v), subject[v].version)', Stands(u)'
               PROVE  target'[u] # Entry(v)'
    BY DEF StandInv
  <2>1. v # t /\ pc[v] = "destroying" /\ subject'[v] = subject[v] /\ Entry(v)' = Entry(v)
    BY <1>d
  <2>2. Stands(u)
    BY <1>a, <1>d DEF ReleaseEntry, iterators, Stands, Seeking
  <2>3. Destroyable(Entry(v), subject[v].version)
    BY <1>c, <2>1 DEF Destroyable
  <2> QED BY <2>1, <2>2, <2>3 DEF ReleaseEntry, iterators, PoolInv, StandInv
<1>13. DueInv'
  BY EntryShape, PointersKeep, EntriesKeep, CallsKnow DEF PoolInv, ReleaseEntry, Finish, counts,
     storage, deferred, pointers, iterators, calls, Goto, Return, SetStrong, Entry, TypeOK,
     DueInv, Ahead, IteratorsInv, Stands, Seeking, End, Unused, EmptyInv
<1>14. DestructionDue'
  <2>1. /\ pending' = pending /\ pending_destructions' = pending_destructions /\ todo' = todo
    BY DEF ReleaseEntry
  <2>2. \A u \in Threads : pc[u] \in {"dropped", "deferring", "marking", "destroying"} =>
          pc'[u] = pc[u] /\ subject'[u] = subject[u]
    BY <1>a, <1>d
  <2> QED BY <1>c, <2>1, <2>2 DEF PoolInv, DestructionDue
<1> QED BY <1>1, <1>2, <1>3, <1>4, <1>5, <1>6, <1>7, <1>8, <1>9, <1>10, <1>11, <1>12, <1>13,
   <1>14 DEF PoolInv

\* A weak pointer that goes preserves the invariant.
LEMMA DropWeakSafe ==
  ASSUME PoolInv, NEW t \in Threads, NEW e \in Entries, DropWeak(t, e)
  PROVE  PoolInv'
<1>a. /\ pc[t] = "idle" /\ e \in observed[t] /\ weak[e] >= 1 /\ (weak[e] = 1 => ~Occupied(e))
      /\ weak[e] \in Nat /\ weak[e] - 1 \in Nat
  BY PointersKeep DEF DropWeak, PoolInv, TypeOK
<1>b. /\ weak' = [weak EXCEPT ![e] = @ - 1] /\ observed' = [observed EXCEPT ![t] = @ \ {e}]
      /\ weak'[e] = weak[e] - 1 /\ \A x \in Entries \ {e} : weak'[x] = weak[x]
      /\ object' = object /\ strong' = strong /\ target' = target /\ owned' = owned
      /\ freed' = freed /\ free' = free /\ block_count' = block_count
      /\ todo' = todo /\ pending' = pending
  BY DEF DropWeak, counts, storage, deferred, pointers, iterators, calls, Goto, Return, SetStrong,
     Entry, PoolInv, TypeOK
<1>c. /\ subject' \in [Threads -> Subjects] /\ pc' \in [Threads -> Steps]
      /\ \A u \in Threads \ {t} : pc'[u] = pc[u] /\ subject'[u] = subject[u] /\ Entry(u)' = Entry(u)
      /\ \/ weak[e] # 1 /\ pc'[t] = "idle"
         \/ weak[e] = 1 /\ pc'[t] = "deallocating" /\ Entry(t)' = e
  <2>1. CASE weak[e] = 1
    <3>1. subject' = [subject EXCEPT ![t].entry = e] /\ pc' = [pc EXCEPT ![t] = "deallocating"]
      BY <2>1 DEF DropWeak, Goto
    <3>2. /\ subject' \in [Threads -> Subjects] /\ Entry(t)' = e
          /\ \A u \in Threads \ {t} : subject'[u] = subject[u]
      BY <3>1, SubjectChanges DEF PoolInv
    <3>3. pc' \in [Threads -> Steps] /\ pc'[t] = "deallocating" /\ \A u \in Threads \ {t} : pc'[u] = pc[u]
      BY <3>1 DEF PoolInv, TypeOK, Steps
    <3> QED BY <2>1, <3>2, <3>3 DEF Entry
  <2>2. CASE weak[e] # 1
    BY <1>a, <2>2 DEF DropWeak, PoolInv, TypeOK, Entry
  <2> QED BY <2>1, <2>2
<1>d. weak[e] = 1 => /\ object[e] = "none" /\ strong[e].count = -1 /\ ~Unused(e)
                     /\ \A u \in Threads : pc[u] \in Handling => Entry(u) # e
  <2> SUFFICES ASSUME weak[e] = 1
               PROVE  /\ object[e] = "none" /\ strong[e].count = -1 /\ ~Unused(e)
                      /\ \A u \in Threads : pc[u] \in Handling => Entry(u) # e
    OBVIOUS
  <2>1. ~Occupied(e)
    BY <1>a
  <2>2. object[e] = "none" /\ strong[e].count = -1
    BY <2>1, EntriesKeep DEF Occupied, Published
  <2>3. ~Unused(e)
    BY <1>a, EntriesKeep
  <2>4. \A u \in Threads : pc[u] \in Handling => Entry(u) # e
    BY <2>1, <2>3, CallsKnow DEF Handling, EntrySteps
  <2> QED BY <2>2, <2>3, <2>4
<1>1. TypeOK'
  <2>1. weak' \in [Entries -> Nat] /\ observed' \in [Threads -> SUBSET Entries]
    BY <1>a, <1>b DEF PoolInv, TypeOK
  <2> QED BY <1>c, <2>1 DEF DropWeak, storage, deferred, iterators, PoolInv, TypeOK
<1>2. CallsInv'
  BY <1>a, <1>b, <1>c DEF PoolInv, CallsInv, EntrySteps
<1>3. PlacesInv'
  <2>1. weak[e] = 1 => e[1] <= block_count /\ e \notin free /\ \A u \in Threads : e \notin freed[u]
    BY <1>d, EntryShape DEF Unused, PoolInv, TypeOK, Blocks
  <2>2. \A x \in Entries : CallAt({"creating", "deallocating"}, x)' =>
          CallAt({"creating", "deallocating"}, x) \/ (weak[e] = 1 /\ x = e)
    BY <1>c DEF CallAt
  <2>3. \A u \in Threads : pc'[u] \in Handling =>
          \/ u # t /\ pc[u] \in Handling /\ Entry(u)' = Entry(u)
          \/ u = t /\ weak[e] = 1 /\ Entry(u)' = e
    BY <1>c DEF Handling, EntrySteps
  <2>4. free \subseteq Entries /\ \A u \in Threads : freed[u] \subseteq Entries
    BY DEF PoolInv, TypeOK
  <2>5. \A x \in free' : x[1] <= block_count' /\ ~CallAt({"creating", "deallocating"}, x)'
    BY <1>b, <2>1, <2>2, <2>4 DEF PoolInv, PlacesInv
  <2>6. \A u \in Threads : /\ pc'[u] \in Handling => Entry(u)'[1] <= block_count'
                           /\ \A x \in freed'[u] : /\ x[1] <= block_count' /\ x \notin free'
                                                   /\ ~CallAt({"creating", "deallocating"}, x)'
    BY <1>b, <2>1, <2>2, <2>3, <2>4 DEF PoolInv, PlacesInv
  <2>7. \A u, v \in Threads : u # v =>
          /\ freed'[u] \cap freed'[v] = {}
          /\ pc'[u] \in Handling /\ pc'[v] \in Handling => Entry(u)' # Entry(v)'
    BY <1>b, <1>d, <2>3 DEF PoolInv, PlacesInv
  <2> QED BY <2>5, <2>6, <2>7 DEF PlacesInv
<1>4. EmptyInv'
  <2>1. \A x \in Entries : Unused(x)' => Unused(x) \/ (weak[e] = 1 /\ x = e)
    BY <1>b, <1>c DEF Unused, CallAt
  <2>2. \A x \in Entries : Unused(x) => x # e
    BY <1>a, EntriesKeep
  <2> QED BY <1>b, <1>d, <2>1, <2>2 DEF PoolInv, EmptyInv
<1>5. StagesInv'
  BY PointersKeep, EntriesKeep, CallsKnow DEF PoolInv, DropWeak, counts, storage, deferred,
     pointers, iterators, calls, Goto, Return, SetStrong, Entry, TypeOK, CallsInv, PlacesInv,
     StagesInv, Published, CallAt, Occupied, Handling, EntrySteps
<1>6. WeakInv'
  <2>1. \A x : Occupied(x)' <=> Occupied(x)
    BY <1>a, <1>b, <1>c DEF Occupied, CallAt
  <2>2. \A x \in Entries \ {e} : Observers(x)' = Observers(x)
    BY <1>b DEF Observers, PoolInv, TypeOK
  <2>3. Observers(e)' = Observers(e) \ {t} /\ t \in Observers(e) /\ Observers(e) \subseteq Threads
    BY <1>a, <1>b DEF Observers, PoolInv, TypeOK
  <2>4. Cardinality(Observers(e)') = Cardinality(Observers(e)) - 1 /\ Cardinality(Observers(e)) \in Nat
    BY <2>3, OneThreadLess, SomeThreads
  <2>5. weak[e] = Cardinality(Observers(e)) + (IF Occupied(e) THEN 1 ELSE 0)
    BY DEF PoolInv, WeakInv
  <2>6. weak'[e] = Cardinality(Observers(e)') + (IF Occupied(e)' THEN 1 ELSE 0)
    BY <1>b, <2>1, <2>4, <2>5
  <2> QED BY <1>b, <2>1, <2>2, <2>6 DEF PoolInv, WeakInv
<1>7. StrongInv'
  <2>1. strong' = strong /\ \A x : Owners(x)' = Owners(x)
    BY DEF DropWeak, counts, storage, deferred, pointers, iterators, calls, Goto, Return,
       SetStrong, Entry, Owners
  <2>2. \A x \in Entries : Published(x)' <=> Published(x)
    BY <1>a, <1>b, <1>c DEF Published, CallAt, Handling, EntrySteps
  <2> QED BY <2>1, <2>2 DEF PoolInv, StrongInv
<1>8. ActiveInv'
  <2>1. active' = active
    BY DEF DropWeak, counts, storage, deferred, pointers, iterators, calls, Goto, Return,
       SetStrong, Entry
  <2>2. \A x \in Entries : Counted(x)' <=> Counted(x)
    BY <1>a, <1>b, <1>c DEF Counted, CallAt, Handling, EntrySteps
  <2>3. \A b \in Blocks : {x \in OfBlock(b) : Counted(x)}' = {x \in OfBlock(b) : Counted(x)}
    BY <2>2, EntryShape
  <2> QED BY <2>1, <2>3 DEF PoolInv, ActiveInv
<1>9. VersionsBound'
  BY DEF PoolInv, DropWeak, counts, storage, deferred, pointers, iterators, calls, Goto, Return,
     SetStrong, Entry, TypeOK, CallsInv, VersionsBound, EntrySteps
<1>10. IteratorsInv'
  BY EntryShape, PoolAssumption DEF PoolInv, DropWeak, counts, storage, deferred, pointers,
     iterators, calls, Goto, Return, SetStrong, Entry, TypeOK, IteratorsInv, Stands, Seeking, End
<1>11. SerialInv'
  BY PointersKeep, EntriesKeep, CallsKnow DEF PoolInv, DropWeak, counts, storage, deferred,
     pointers, iterators, calls, Goto, Return, SetStrong, Entry, TypeOK, CallsInv, IteratorsInv,
     SerialInv, Stands, Seeking, Sweeping
<1>12. StandInv'
  <2> SUFFICES ASSUME NEW u \in Threads, NEW v \in Threads, pc'[v] = "destroying",
                      Destroyable(Entry(v), subject[v].version)', Stands(u)'
               PROVE  target'[u] # Entry(v)'
    BY DEF StandInv
  <2>1. v # t /\ pc[v] = "destroying" /\ subject'[v] = subject[v] /\ Entry(v)' = Entry(v)
    BY <1>c
  <2>2. Stands(u)
    BY <1>a, <1>b, <1>c DEF Stands, Seeking
  <2>3. Destroyable(Entry(v), subject[v].version)
    BY <1>b, <2>1 DEF Destroyable
  <2> QED BY <1>b, <2>1, <2>2, <2>3 DEF PoolInv, StandInv
<1>13. DueInv'
  <2>1. due' = due
    BY DEF DropWeak, iterators
  <2>2. \A v \in Threads : \A x : /\ pc'[v] # "beginning" => pc[v] # "beginning"
                                  /\ Ahead(v, x)' <=> Ahead(v, x)
    BY <1>a, <1>b, <1>c DEF Ahead, Seeking
  <2> QED BY <1>b, <2>1, <2>2 DEF PoolInv, DueInv
<1>14. DestructionDue'
  BY DEF PoolInv, DropWeak, counts, storage, deferred, pointers, iterators, calls, Goto, Return,
     SetStrong, Entry, TypeOK, CallsInv, DestructionDue, Destroyable, EntrySteps
<1> QED BY <1>1, <1>2, <1>3, <1>4, <1>5, <1>6, <1>7, <1>8, <1>9, <1>10, <1>11, <1>12, <1>13,
   <1>14 DEF PoolInv

\* An entry that is given back preserves the invariant.
LEMMA DeallocateSafe ==
  ASSUME PoolInv, NEW t \in Threads, Deallocate(t)
  PROVE  PoolInv'
<1>p. PICK e : e = Entry(t)
  OBVIOUS
<1>a. /\ pc[t] = "deallocating" /\ e \in Entries /\ e[1] <= block_count
      /\ \A u \in Threads \ {t} : pc[u] \in Handling => Entry(u) # e
      /\ \A u \in Threads : e \notin freed[u]
  BY <1>p, CallsKnow DEF Deallocate, PoolInv, PlacesInv, CallAt, Handling, EntrySteps
<1>b. /\ free' = free \union {e} /\ block_count' = block_count /\ freed' = freed
      /\ pc'[t] = "idle"
      /\ \A u \in Threads \ {t} : pc'[u] = pc[u] /\ subject'[u] = subject[u] /\ Entry(u)' = Entry(u)
      /\ subject' \in [Threads -> Subjects] /\ pc' \in [Threads -> Steps]
  <2>1. NoSubject \in Subjects
    BY DEF NoSubject, Subjects
  <2> QED BY <1>p, <2>1 DEF Deallocate, Finish, Return, Goto, Entry, PoolInv, TypeOK, Steps
<1>1. TypeOK'
  <2>1. pending_mutex' \in Threads \union {None}
    BY DEF Deallocate, Finish, PoolInv, TypeOK
  <2> QED BY <1>a, <1>b, <2>1 DEF Deallocate, counts, pointers, iterators, PoolInv, TypeOK
<1>2. CallsInv'
  BY EntryShape DEF PoolInv, Deallocate, Finish, counts, storage, deferred, pointers, iterators,
     calls, Goto, Return, SetStrong, Entry, TypeOK, CallsInv, EntrySteps, NoSubject
<1>3. PlacesInv'
  <2>1. \A x \in Entries : CallAt({"creating", "deallocating"}, x)' =>
          CallAt({"creating", "deallocating"}, x) /\ x # e
    BY <1>a, <1>b DEF CallAt, Handling, EntrySteps
  <2>2. \A u \in Threads : pc'[u] \in Handling => u # t /\ pc[u] \in Handling /\ Entry(u)' = Entry(u)
    BY <1>b DEF Handling, EntrySteps
  <2>3. free \subseteq Entries /\ \A u \in Threads : freed[u] \subseteq Entries
    BY DEF PoolInv, TypeOK
  <2>4. \A x \in free' : x[1] <= block_count' /\ ~CallAt({"creating", "deallocating"}, x)'
    BY <1>a, <1>b, <2>1, <2>3 DEF PoolInv, PlacesInv
  <2>5. \A u \in Threads : /\ pc'[u] \in Handling => Entry(u)'[1] <= block_count'
                           /\ \A x \in freed'[u] : /\ x[1] <= block_count' /\ x \notin free'
                                                   /\ ~CallAt({"creating", "deallocating"}, x)'
    BY <1>a, <1>b, <2>1, <2>2, <2>3 DEF PoolInv, PlacesInv
  <2>6. \A u, v \in Threads : u # v =>
          /\ freed'[u] \cap freed'[v] = {}
          /\ pc'[u] \in Handling /\ pc'[v] \in Handling => Entry(u)' # Entry(v)'
    BY <1>b, <2>2 DEF PoolInv, PlacesInv
  <2> QED BY <2>4, <2>5, <2>6 DEF PlacesInv
<1>4. EmptyInv'
  BY EntryShape, PointersKeep, EntriesKeep, CallsKnow DEF PoolInv, Deallocate, Finish, counts,
     storage, deferred, pointers, iterators, calls, Goto, Return, SetStrong, Entry, TypeOK,
     CallsInv, PlacesInv, EmptyInv, Unused, CallAt, Occupied, Handling, EntrySteps
<1>5. StagesInv'
  BY PointersKeep, EntriesKeep, CallsKnow DEF PoolInv, Deallocate, Finish, counts, storage,
     deferred, pointers, iterators, calls, Goto, Return, SetStrong, Entry, TypeOK, CallsInv,
     PlacesInv, StagesInv, Published, CallAt, Occupied, Handling, EntrySteps
<1>6. WeakInv'
  <2>1. weak' = weak /\ \A x : Observers(x)' = Observers(x)
    BY DEF Deallocate, Finish, counts, storage, deferred, pointers, iterators, calls, Goto,
       Return, SetStrong, Entry, Observers
  <2>2. \A x \in Entries : Occupied(x)' <=> Occupied(x)
    BY CallsKnow DEF Deallocate, Finish, counts, storage, deferred, pointers, iterators, calls,
       Goto, Return, SetStrong, Entry, PoolInv, TypeOK, Occupied, CallAt, PlacesInv, Handling,
       EntrySteps
  <2> QED BY <2>1, <2>2 DEF PoolInv, WeakInv
<1>7. StrongInv'
  <2>1. strong' = strong /\ \A x : Owners(x)' = Owners(x)
    BY DEF Deallocate, Finish, counts, storage, deferred, pointers, iterators, calls, Goto,
       Return, SetStrong, Entry, Owners
  <2>2. \A x \in Entries : Published(x)' <=> Published(x)
    BY CallsKnow DEF Deallocate, Finish, counts, storage, deferred, pointers, iterators, calls,
       Goto, Return, SetStrong, Entry, PoolInv, TypeOK, Published, CallAt, PlacesInv, Handling,
       EntrySteps
  <2> QED BY <2>1, <2>2 DEF PoolInv, StrongInv
<1>8. ActiveInv'
  <2>1. active' = active
    BY DEF Deallocate, Finish, counts, storage, deferred, pointers, iterators, calls, Goto,
       Return, SetStrong, Entry
  <2>2. \A x \in Entries : Counted(x)' <=> Counted(x)
    BY CallsKnow DEF Deallocate, Finish, counts, storage, deferred, pointers, iterators, calls,
       Goto, Return, SetStrong, Entry, PoolInv, TypeOK, Counted, CallAt, PlacesInv, Handling,
       EntrySteps
  <2>3. \A b \in Blocks : {x \in OfBlock(b) : Counted(x)}' = {x \in OfBlock(b) : Counted(x)}
    BY <2>2, EntryShape
  <2> QED BY <2>1, <2>3 DEF PoolInv, ActiveInv
<1>9. VersionsBound'
  BY DEF PoolInv, Deallocate, Finish, counts, storage, deferred, pointers, iterators, calls, Goto,
     Return, SetStrong, Entry, TypeOK, CallsInv, VersionsBound, EntrySteps
<1>10. IteratorsInv'
  BY EntryShape, PoolAssumption DEF PoolInv, Deallocate, Finish, counts, storage, deferred,
     pointers, iterators, calls, Goto, Return, SetStrong, Entry, TypeOK, IteratorsInv, Stands,
     Seeking, End
<1>11. SerialInv'
  BY PointersKeep, EntriesKeep, CallsKnow DEF PoolInv, Deallocate, Finish, counts, storage,
     deferred, pointers, iterators, calls, Goto, Return, SetStrong, Entry, TypeOK, CallsInv,
     IteratorsInv, SerialInv, Stands, Seeking, Sweeping
<1>12. StandInv'
  BY DEF PoolInv, Deallocate, Finish, counts, storage, deferred, pointers, iterators, calls, Goto,
     Return, SetStrong, Entry, TypeOK, CallsInv, VersionsBound, IteratorsInv, StandInv, Stands,
     Seeking, Destroyable, EntrySteps
<1>13. DueInv'
  BY EntryShape, PointersKeep, EntriesKeep, CallsKnow DEF PoolInv, Deallocate, Finish, counts,
     storage, deferred, pointers, iterators, calls, Goto, Return, SetStrong, Entry, TypeOK,
     DueInv, Ahead, IteratorsInv, Stands, Seeking, End, Unused, EmptyInv
<1>14. DestructionDue'
  BY DEF PoolInv, Deallocate, Finish, counts, storage, deferred, pointers, iterators, calls, Goto,
     Return, SetStrong, Entry, TypeOK, CallsInv, DestructionDue, Destroyable, EntrySteps
<1> QED BY <1>1, <1>2, <1>3, <1>4, <1>5, <1>6, <1>7, <1>8, <1>9, <1>10, <1>11, <1>12, <1>13,
   <1>14 DEF PoolInv

\* Taking the mutex of the pending list preserves the invariant.
LEMMA LockPendingSafe ==
  ASSUME PoolInv, NEW t \in Threads, LockPending(t)
  PROVE  PoolInv'
<1>1. TypeOK'
  BY PoolAssumption, EntryShape, CallsKnow, PointersKeep DEF PoolInv, LockPending, counts,
     storage, deferred, pointers, iterators, calls, Goto, Return, SetStrong, Entry, TypeOK,
     Subjects, Steps, NoSubject
<1>2. CallsInv'
  BY EntryShape DEF PoolInv, LockPending, counts, storage, deferred, pointers, iterators, calls,
     Goto, Return, SetStrong, Entry, TypeOK, CallsInv, EntrySteps, NoSubject
<1>3. PlacesInv' /\ EmptyInv' /\ StagesInv' /\ WeakInv' /\ StrongInv' /\ ActiveInv'
  <2>1. UNCHANGED <<counts, storage, pointers, freed>>
    BY DEF LockPending, calls
  <2>2. \A v \in Threads : pc[v] \in Handling \/ pc'[v] \in Handling =>
                             pc'[v] = pc[v] /\ Entry(v)' = Entry(v)
    BY DEF LockPending, counts, storage, deferred, pointers, iterators, calls, Goto, Return,
       SetStrong, Entry, PoolInv, TypeOK, Handling, EntrySteps
  <2> QED BY <2>1, <2>2, EntriesUntouched
<1>4. VersionsBound'
  BY DEF PoolInv, LockPending, counts, storage, deferred, pointers, iterators, calls, Goto,
     Return, SetStrong, Entry, TypeOK, CallsInv, VersionsBound, EntrySteps
<1>5. IteratorsInv'
  BY EntryShape, PoolAssumption DEF PoolInv, LockPending, counts, storage, deferred, pointers,
     iterators, calls, Goto, Return, SetStrong, Entry, TypeOK, IteratorsInv, Stands, Seeking, End
<1>6. SerialInv'
  BY PointersKeep, EntriesKeep, CallsKnow DEF PoolInv, LockPending, counts, storage, deferred,
     pointers, iterators, calls, Goto, Return, SetStrong, Entry, TypeOK, CallsInv, IteratorsInv,
     SerialInv, Stands, Seeking, Sweeping
<1>7. StandInv'
  <2>1. /\ \A u \in Threads \ {t} : pc'[u] = pc[u] /\ subject' = subject
        /\ pc'[t] = "destroying" => active_iterators = 0
        /\ pc'[t] \notin Seeking /\ pc[t] \notin Seeking /\ target' = target /\ strong' = strong
    BY DEF LockPending, Goto, counts, iterators, PoolInv, TypeOK, Seeking
  <2>2. active_iterators = 0 => \A u \in Threads : target[u] = End
    <3>1. Cardinality(iterating) = active_iterators /\ iterating \subseteq Threads
      BY DEF PoolInv, IteratorsInv, TypeOK
    <3>2. active_iterators = 0 => iterating = {}
      BY <3>1, SomeThreads
    <3> QED BY <3>2 DEF PoolInv, IteratorsInv
  <2> SUFFICES ASSUME NEW u \in Threads, NEW v \in Threads, pc'[v] = "destroying",
                      Destroyable(Entry(v), subject[v].version)', Stands(u)'
               PROVE  target'[u] # Entry(v)'
    BY DEF StandInv
  <2>3. Stands(u)
    BY <2>1 DEF Stands, Seeking
  <2>4. subject' = subject /\ Entry(v)' = Entry(v) /\ Destroyable(Entry(v), subject[v].version)
    BY <2>1 DEF LockPending, Entry, Destroyable
  <2>5. CASE v = t
    BY <2>1, <2>2, <2>3, <2>5 DEF Stands
  <2>6. CASE v # t
    BY <2>1, <2>3, <2>4, <2>6 DEF PoolInv, StandInv
  <2> QED BY <2>5, <2>6
<1>8. DueInv'
  BY EntryShape, PointersKeep, EntriesKeep, CallsKnow DEF PoolInv, LockPending, counts, storage,
     deferred, pointers, iterators, calls, Goto, Return, SetStrong, Entry, TypeOK, DueInv, Ahead,
     IteratorsInv, Stands, Seeking, End, Unused, EmptyInv
<1>9. DestructionDue'
  BY DEF PoolInv, LockPending, counts, storage, deferred, pointers, iterators, calls, Goto,
     Return, SetStrong, Entry, TypeOK, CallsInv, DestructionDue, Destroyable, EntrySteps
<1> QED BY <1>1, <1>2, <1>3, <1>4, <1>5, <1>6, <1>7, <1>8, <1>9 DEF PoolInv

\* A mark preserves the invariant.
LEMMA MarkSafe ==
  ASSUME PoolInv, NEW t \in Threads, Mark(t)
  PROVE  PoolInv'
<1>1. TypeOK'
  BY PoolAssumption, EntryShape, CallsKnow, PointersKeep DEF PoolInv, Mark, Finish, counts,
     storage, deferred, pointers, iterators, calls, Goto, Return, SetStrong, Entry, TypeOK,
     Subjects, Steps, NoSubject
<1>2. CallsInv'
  BY EntryShape DEF PoolInv, Mark, Finish, counts, storage, deferred, pointers, iterators, calls,
     Goto, Return, SetStrong, Entry, TypeOK, CallsInv, EntrySteps, NoSubject
<1>3. PlacesInv' /\ EmptyInv' /\ StagesInv' /\ WeakInv' /\ StrongInv' /\ ActiveInv'
  <2>1. UNCHANGED <<counts, storage, pointers, freed>>
    BY DEF Mark, calls, Finish
  <2>2. \A v \in Threads : pc[v] \in Handling \/ pc'[v] \in Handling =>
                             pc'[v] = pc[v] /\ Entry(v)' = Entry(v)
    BY DEF Mark, Finish, counts, storage, deferred, pointers, iterators, calls, Goto, Return,
       SetStrong, Entry, PoolInv, TypeOK, Handling, EntrySteps
  <2> QED BY <2>1, <2>2, EntriesUntouched
<1>4. VersionsBound'
  BY DEF PoolInv, Mark, Finish, counts, storage, deferred, pointers, iterators, calls, Goto,
     Return, SetStrong, Entry, TypeOK, CallsInv, VersionsBound, EntrySteps
<1>5. IteratorsInv'
  BY EntryShape, PoolAssumption DEF PoolInv, Mark, Finish, counts, storage, deferred, pointers,
     iterators, calls, Goto, Return, SetStrong, Entry, TypeOK, IteratorsInv, Stands, Seeking, End
<1>6. SerialInv'
  BY PointersKeep, EntriesKeep, CallsKnow DEF PoolInv, Mark, Finish, counts, storage, deferred,
     pointers, iterators, calls, Goto, Return, SetStrong, Entry, TypeOK, CallsInv, IteratorsInv,
     SerialInv, Stands, Seeking, Sweeping
<1>7. StandInv'
  BY DEF PoolInv, Mark, Finish, counts, storage, deferred, pointers, iterators, calls, Goto,
     Return, SetStrong, Entry, TypeOK, CallsInv, VersionsBound, IteratorsInv, StandInv, Stands,
     Seeking, Destroyable, EntrySteps
<1>8. DueInv'
  BY EntryShape, PointersKeep, EntriesKeep, CallsKnow DEF PoolInv, Mark, Finish, counts, storage,
     deferred, pointers, iterators, calls, Goto, Return, SetStrong, Entry, TypeOK, DueInv, Ahead,
     IteratorsInv, Stands, Seeking, End, Unused, EmptyInv
<1>9. DestructionDue'
  BY DEF PoolInv, Mark, Finish, counts, storage, deferred, pointers, iterators, calls, Goto,
     Return, SetStrong, Entry, TypeOK, CallsInv, DestructionDue, Destroyable, EntrySteps
<1> QED BY <1>1, <1>2, <1>3, <1>4, <1>5, <1>6, <1>7, <1>8, <1>9 DEF PoolInv

\* Reading the counter of marks preserves the invariant.
LEMMA LookForPendingSafe ==
  ASSUME PoolInv, NEW t \in Threads, LookForPending(t)
  PROVE  PoolInv'
<1>1. TypeOK'
  BY PoolAssumption, EntryShape, CallsKnow, PointersKeep DEF PoolInv, LookForPending, counts,
     storage, deferred, pointers, iterators, calls, Goto, Return, SetStrong, Entry, TypeOK,
     Subjects, Steps, NoSubject
<1>2. CallsInv'
  BY EntryShape DEF PoolInv, LookForPending, counts, storage, deferred, pointers, iterators,
     calls, Goto, Return, SetStrong, Entry, TypeOK, CallsInv, EntrySteps, NoSubject
<1>3. PlacesInv' /\ EmptyInv' /\ StagesInv' /\ WeakInv' /\ StrongInv' /\ ActiveInv'
  <2>1. UNCHANGED <<counts, storage, pointers, freed>>
    BY DEF LookForPending, calls
  <2>2. \A v \in Threads : pc[v] \in Handling \/ pc'[v] \in Handling =>
                             pc'[v] = pc[v] /\ Entry(v)' = Entry(v)
    BY DEF LookForPending, counts, storage, deferred, pointers, iterators, calls, Goto, Return,
       SetStrong, Entry, PoolInv, TypeOK, Handling, EntrySteps
  <2> QED BY <2>1, <2>2, EntriesUntouched
<1>4. VersionsBound'
  BY DEF PoolInv, LookForPending, counts, storage, deferred, pointers, iterators, calls, Goto,
     Return, SetStrong, Entry, TypeOK, CallsInv, VersionsBound, EntrySteps
<1>5. IteratorsInv'
  BY EntryShape, PoolAssumption DEF PoolInv, LookForPending, counts, storage, deferred, pointers,
     iterators, calls, Goto, Return, SetStrong, Entry, TypeOK, IteratorsInv, Stands, Seeking, End
<1>6. SerialInv'
  BY PointersKeep, EntriesKeep, CallsKnow DEF PoolInv, LookForPending, counts, storage, deferred,
     pointers, iterators, calls, Goto, Return, SetStrong, Entry, TypeOK, CallsInv, IteratorsInv,
     SerialInv, Stands, Seeking, Sweeping
<1>7. StandInv'
  BY DEF PoolInv, LookForPending, counts, storage, deferred, pointers, iterators, calls, Goto,
     Return, SetStrong, Entry, TypeOK, CallsInv, VersionsBound, IteratorsInv, StandInv, Stands,
     Seeking, Destroyable, EntrySteps
<1>8. DueInv'
  BY EntryShape, PointersKeep, EntriesKeep, CallsKnow DEF PoolInv, LookForPending, counts,
     storage, deferred, pointers, iterators, calls, Goto, Return, SetStrong, Entry, TypeOK,
     DueInv, Ahead, IteratorsInv, Stands, Seeking, End, Unused, EmptyInv
<1>9. DestructionDue'
  BY DEF PoolInv, LookForPending, counts, storage, deferred, pointers, iterators, calls, Goto,
     Return, SetStrong, Entry, TypeOK, CallsInv, DestructionDue, Destroyable, EntrySteps
<1> QED BY <1>1, <1>2, <1>3, <1>4, <1>5, <1>6, <1>7, <1>8, <1>9 DEF PoolInv

\* Taking the pending list preserves the invariant.
LEMMA TakePendingSafe ==
  ASSUME PoolInv, NEW t \in Threads, TakePending(t)
  PROVE  PoolInv'
<1>1. TypeOK'
  BY PoolAssumption, EntryShape, CallsKnow, PointersKeep DEF PoolInv, TakePending, counts,
     storage, deferred, pointers, iterators, calls, Goto, Return, SetStrong, Entry, TypeOK,
     Subjects, Steps, NoSubject
<1>2. CallsInv'
  BY EntryShape DEF PoolInv, TakePending, counts, storage, deferred, pointers, iterators, calls,
     Goto, Return, SetStrong, Entry, TypeOK, CallsInv, EntrySteps, NoSubject
<1>3. PlacesInv' /\ EmptyInv' /\ StagesInv' /\ WeakInv' /\ StrongInv' /\ ActiveInv'
  <2>1. UNCHANGED <<counts, storage, pointers, freed>>
    BY DEF TakePending, calls
  <2>2. \A v \in Threads : pc[v] \in Handling \/ pc'[v] \in Handling =>
                             pc'[v] = pc[v] /\ Entry(v)' = Entry(v)
    BY DEF TakePending, counts, storage, deferred, pointers, iterators, calls, Goto, Return,
       SetStrong, Entry, PoolInv, TypeOK, Handling, EntrySteps
  <2> QED BY <2>1, <2>2, EntriesUntouched
<1>4. VersionsBound'
  BY DEF PoolInv, TakePending, counts, storage, deferred, pointers, iterators, calls, Goto,
     Return, SetStrong, Entry, TypeOK, CallsInv, VersionsBound, EntrySteps
<1>5. IteratorsInv'
  BY EntryShape, PoolAssumption DEF PoolInv, TakePending, counts, storage, deferred, pointers,
     iterators, calls, Goto, Return, SetStrong, Entry, TypeOK, IteratorsInv, Stands, Seeking, End
<1>6. SerialInv'
  BY PointersKeep, EntriesKeep, CallsKnow DEF PoolInv, TakePending, counts, storage, deferred,
     pointers, iterators, calls, Goto, Return, SetStrong, Entry, TypeOK, CallsInv, IteratorsInv,
     SerialInv, Stands, Seeking, Sweeping
<1>7. StandInv'
  BY DEF PoolInv, TakePending, counts, storage, deferred, pointers, iterators, calls, Goto,
     Return, SetStrong, Entry, TypeOK, CallsInv, VersionsBound, IteratorsInv, StandInv, Stands,
     Seeking, Destroyable, EntrySteps
<1>8. DueInv'
  BY EntryShape, PointersKeep, EntriesKeep, CallsKnow DEF PoolInv, TakePending, counts, storage,
     deferred, pointers, iterators, calls, Goto, Return, SetStrong, Entry, TypeOK, DueInv, Ahead,
     IteratorsInv, Stands, Seeking, End, Unused, EmptyInv
<1>9. DestructionDue'
  <2>1. /\ todo' = [todo EXCEPT ![t] = pending] /\ todo[t] = {} /\ pc[t] = "taking"
        /\ strong' = strong /\ object' = object /\ subject' = subject
        /\ \A u \in Threads \ {t} : pc'[u] = pc[u]
    BY DEF TakePending, Goto, counts, PoolInv, CallsInv, TypeOK
  <2>2. \A d : d \in pending => d \in todo'[t]
    BY <2>1 DEF PoolInv, TypeOK
  <2>3. \A d, u : u \in Threads /\ d \in todo[u] => d \in todo'[u]
    BY <2>1 DEF PoolInv, TypeOK
  <2>4. \A u \in Threads : pc[u] \in {"dropped", "deferring", "marking", "destroying"} => pc'[u] = pc[u]
    BY <2>1
  <2> QED BY <2>1, <2>2, <2>3, <2>4 DEF PoolInv, DestructionDue
<1> QED BY <1>1, <1>2, <1>3, <1>4, <1>5, <1>6, <1>7, <1>8, <1>9 DEF PoolInv

\* The destruction of a pending object preserves the invariant.
LEMMA SweepDestroysSafe ==
  ASSUME PoolInv, NEW t \in Threads, NEW p \in todo[t], SweepDestroys(t, p)
  PROVE  PoolInv'
<1>p. PICK e : e = p.entry
  OBVIOUS
<1>a. /\ pc[t] = "sweeping" /\ e \in Entries /\ Destroyable(e, p.version)
      /\ Destroy(e) /\ pc' = [pc EXCEPT ![t] = "swept"] /\ pc'[t] = "swept"
      /\ \A u \in Threads \ {t} : pc'[u] = pc[u]
      /\ Entry(t)' = e /\ \A u \in Threads \ {t} : subject'[u] = subject[u] /\ Entry(u)' = Entry(u)
      /\ UNCHANGED <<weak, storage, pointers, iterators, freed>>
  BY <1>p DEF SweepDestroys, Goto, Entry, PoolInv, TypeOK, CallsInv, EntrySteps
<1>b. strong[e].count = 0
  BY <1>a DEF Destroyable
<1>c. /\ strong' \in [Entries -> [count : Nat \union {-1}, version : Nat]]
      /\ object' \in [Entries -> {"none", "alive", "failed"}]
      /\ active' \in [Blocks -> Nat]
      /\ PlacesInv' /\ EmptyInv' /\ StagesInv' /\ WeakInv' /\ StrongInv' /\ ActiveInv'
      /\ VersionsBound' /\ StandInv' /\ DueInv'
  BY <1>a, <1>b, ObjectDestroyed
<1>d. /\ strong'[e].count = -1 /\ \A x \in Entries \ {e} : strong'[x] = strong[x]
      /\ \A x \in Entries \ {e} : object'[x] = object[x]
  BY <1>a, StrongChanges DEF Destroy, PoolInv, TypeOK
<1>1. TypeOK'
  <2>1. pc' \in [Threads -> Steps]
    BY <1>a DEF PoolInv, TypeOK, Steps
  <2>2. subject' \in [Threads -> Subjects] /\ todo' \in [Threads -> SUBSET Subjects]
    BY DEF SweepDestroys, PoolInv, TypeOK
  <2> QED BY <1>c, <2>1, <2>2 DEF SweepDestroys, storage, deferred, pointers, iterators, PoolInv,
     TypeOK
<1>2. CallsInv'
  BY EntryShape DEF PoolInv, SweepDestroys, Destroy, Destroyable, counts, storage, deferred,
     pointers, iterators, calls, Goto, Return, SetStrong, Entry, TypeOK, CallsInv, EntrySteps,
     NoSubject
<1>3. PlacesInv'
  BY <1>c
<1>4. EmptyInv'
  BY <1>c
<1>5. StagesInv'
  BY <1>c
<1>6. WeakInv'
  BY <1>c
<1>7. StrongInv'
  BY <1>c
<1>8. ActiveInv'
  BY <1>c
<1>9. VersionsBound'
  BY <1>c
<1>10. IteratorsInv'
  BY EntryShape, PoolAssumption DEF PoolInv, SweepDestroys, Destroy, Destroyable, counts, storage,
     deferred, pointers, iterators, calls, Goto, Return, SetStrong, Entry, TypeOK, IteratorsInv,
     Stands, Seeking, End
<1>11. SerialInv'
  BY PointersKeep, EntriesKeep, CallsKnow DEF PoolInv, SweepDestroys, Destroy, Destroyable,
     counts, storage, deferred, pointers, iterators, calls, Goto, Return, SetStrong, Entry,
     TypeOK, CallsInv, IteratorsInv, SerialInv, Stands, Seeking, Sweeping
<1>12. StandInv'
  BY <1>c
<1>13. DueInv'
  BY <1>c
<1>14. DestructionDue'
  <2>1. /\ pending' = pending /\ pending_destructions' = pending_destructions
        /\ todo' = [todo EXCEPT ![t] = @ \ {p}]
    BY DEF SweepDestroys, deferred
  <2>2. \A u \in Threads : \A d \in todo[u] : d.entry # e => d \in todo'[u]
    BY <1>p, <2>1 DEF PoolInv, TypeOK
  <2> SUFFICES ASSUME NEW x \in Entries, object'[x] = "alive", strong'[x].count = 0
               PROVE  LET duty == [entry |-> x, version |-> strong'[x].version]
                      IN \/ duty \in pending' /\ pending_destructions'
                         \/ \E u \in Threads :
                              \/ duty \in todo'[u]
                              \/ /\ subject'[u] = duty
                                 /\ pc'[u] \in {"dropped", "deferring", "marking", "destroying"}
    BY DEF DestructionDue
  <2>3. x # e /\ strong'[x] = strong[x] /\ object[x] = "alive"
    BY <1>d
  <2> DEFINE duty == [entry |-> x, version |-> strong[x].version]
  <2>4. \/ duty \in pending /\ pending_destructions
        \/ \E u \in Threads :
             \/ duty \in todo[u]
             \/ /\ subject[u] = duty
                /\ pc[u] \in {"dropped", "deferring", "marking", "destroying"}
    BY <2>3 DEF PoolInv, DestructionDue
  <2>5. duty.entry # e
    BY <2>3
  <2> HIDE DEF duty
  <2>6. \/ duty \in pending' /\ pending_destructions'
        \/ \E u \in Threads :
             \/ duty \in todo'[u]
             \/ /\ subject'[u] = duty
                /\ pc'[u] \in {"dropped", "deferring", "marking", "destroying"}
    BY <1>a, <2>1, <2>2, <2>4, <2>5
  <2> QED BY <2>3, <2>6 DEF duty
<1> QED BY <1>1, <1>2, <1>3, <1>4, <1>5, <1>6, <1>7, <1>8, <1>9, <1>10, <1>11, <1>12, <1>13,
   <1>14 DEF PoolInv

\* Finding a pending object in use again preserves the invariant.
LEMMA SweepRescuedSafe ==
  ASSUME PoolInv, NEW t \in Threads, NEW p \in todo[t], SweepRescued(t, p)
  PROVE  PoolInv'
<1>1. TypeOK'
  BY PoolAssumption, EntryShape, CallsKnow, PointersKeep DEF PoolInv, SweepRescued, Destroyable,
     counts, storage, deferred, pointers, iterators, calls, Goto, Return, SetStrong, Entry,
     TypeOK, Subjects, Steps, NoSubject
<1>2. CallsInv'
  BY EntryShape DEF PoolInv, SweepRescued, Destroyable, counts, storage, deferred, pointers,
     iterators, calls, Goto, Return, SetStrong, Entry, TypeOK, CallsInv, EntrySteps, NoSubject
<1>3. PlacesInv' /\ EmptyInv' /\ StagesInv' /\ WeakInv' /\ StrongInv' /\ ActiveInv'
  <2>1. UNCHANGED <<counts, storage, pointers, freed>>
    BY DEF SweepRescued, calls, Destroyable
  <2>2. \A v \in Threads : pc[v] \in Handling \/ pc'[v] \in Handling =>
                             pc'[v] = pc[v] /\ Entry(v)' = Entry(v)
    BY DEF SweepRescued, Destroyable, counts, storage, deferred, pointers, iterators, calls, Goto,
       Return, SetStrong, Entry, PoolInv, TypeOK, Handling, EntrySteps
  <2> QED BY <2>1, <2>2, EntriesUntouched
<1>4. VersionsBound'
  BY DEF PoolInv, SweepRescued, Destroyable, counts, storage, deferred, pointers, iterators,
     calls, Goto, Return, SetStrong, Entry, TypeOK, CallsInv, VersionsBound, EntrySteps
<1>5. IteratorsInv'
  BY EntryShape, PoolAssumption DEF PoolInv, SweepRescued, Destroyable, counts, storage, deferred,
     pointers, iterators, calls, Goto, Return, SetStrong, Entry, TypeOK, IteratorsInv, Stands,
     Seeking, End
<1>6. SerialInv'
  BY PointersKeep, EntriesKeep, CallsKnow DEF PoolInv, SweepRescued, Destroyable, counts, storage,
     deferred, pointers, iterators, calls, Goto, Return, SetStrong, Entry, TypeOK, CallsInv,
     IteratorsInv, SerialInv, Stands, Seeking, Sweeping
<1>7. StandInv'
  BY DEF PoolInv, SweepRescued, Destroyable, counts, storage, deferred, pointers, iterators,
     calls, Goto, Return, SetStrong, Entry, TypeOK, CallsInv, VersionsBound, IteratorsInv,
     StandInv, Stands, Seeking, EntrySteps
<1>8. DueInv'
  BY EntryShape, PointersKeep, EntriesKeep, CallsKnow DEF PoolInv, SweepRescued, Destroyable,
     counts, storage, deferred, pointers, iterators, calls, Goto, Return, SetStrong, Entry,
     TypeOK, DueInv, Ahead, IteratorsInv, Stands, Seeking, End, Unused, EmptyInv
<1>9. DestructionDue'
  BY DEF PoolInv, SweepRescued, Destroyable, counts, storage, deferred, pointers, iterators,
     calls, Goto, Return, SetStrong, Entry, TypeOK, CallsInv, DestructionDue, EntrySteps
<1> QED BY <1>1, <1>2, <1>3, <1>4, <1>5, <1>6, <1>7, <1>8, <1>9 DEF PoolInv

\* The reference of a pending object to its entry preserves the invariant.
LEMMA SweepReleasesSafe ==
  ASSUME PoolInv, NEW t \in Threads, SweepReleases(t)
  PROVE  PoolInv'
<1>p. PICK e : e = Entry(t)
  OBVIOUS
<1>a. /\ pc[t] = "swept" /\ e \in Entries /\ object[e] = "none" /\ Occupied(e) /\ ~Published(e)
      /\ ~Unused(e) /\ weak[e] \in Nat /\ weak[e] - 1 \in Nat
      /\ \A u \in Threads \ {t} : pc[u] \in Handling => Entry(u) # e
  <2>1. /\ pc[t] = "swept" /\ e \in Entries /\ object[e] = "none" /\ Occupied(e) /\ ~Published(e)
        /\ ~Unused(e) /\ weak[e] >= 1
    BY <1>p, CallsKnow DEF SweepReleases, PoolInv, StagesInv, EntrySteps
  <2>2. weak[e] \in Nat /\ weak[e] - 1 \in Nat
    BY <2>1 DEF PoolInv, TypeOK
  <2>3. \A u \in Threads \ {t} : pc[u] \in Handling => Entry(u) # e
    BY <1>p, <2>1 DEF PoolInv, PlacesInv, Handling, EntrySteps
  <2> QED BY <2>1, <2>2, <2>3
<1>b. /\ e[1] <= block_count /\ e \notin free /\ strong[e].count = -1
      /\ \A u \in Threads : e \notin freed[u]
  <2>1. strong[e].count = -1
    BY <1>a, EntriesKeep
  <2>2. e[1] \in Nat /\ block_count \in Nat
    BY <1>a, EntryShape DEF PoolInv, TypeOK
  <2> QED BY <1>a, <2>1, <2>2 DEF Unused
<1>c. /\ weak' = [weak EXCEPT ![e] = @ - 1]
      /\ weak'[e] = weak[e] - 1 /\ \A x \in Entries \ {e} : weak'[x] = weak[x]
      /\ weak' \in [Entries -> Nat]
      /\ object' = object /\ strong' = strong /\ observed' = observed
      /\ free' = free /\ block_count' = block_count
  BY <1>p, <1>a DEF SweepReleases, Entry, PoolInv, TypeOK, storage, pointers
<1>d. /\ subject' \in [Threads -> Subjects] /\ pc' \in [Threads -> Steps]
      /\ \A u \in Threads \ {t} : pc'[u] = pc[u] /\ subject'[u] = subject[u] /\ Entry(u)' = Entry(u)
      /\ pc'[t] = "sweeping"
      /\ freed' = [freed EXCEPT ![t] = IF weak[e] = 1 THEN @ \union {e} ELSE @]
      /\ freed' \in [Threads -> SUBSET Entries]
  <2>1. NoSubject \in Subjects
    BY DEF NoSubject, Subjects
  <2>2. freed' = [freed EXCEPT ![t] = IF weak[e] = 1 THEN @ \union {e} ELSE @]
    BY <1>p DEF SweepReleases
  <2>3. freed' \in [Threads -> SUBSET Entries]
    BY <1>a, <2>2 DEF PoolInv, TypeOK
  <2> QED BY <2>1, <2>2, <2>3 DEF SweepReleases, Goto, Entry, PoolInv, TypeOK, Steps
<1>1. TypeOK'
  BY <1>c, <1>d DEF SweepReleases, storage, deferred, pointers, iterators, PoolInv, TypeOK
<1>2. CallsInv'
  BY EntryShape DEF PoolInv, SweepReleases, counts, storage, deferred, pointers, iterators, calls,
     Goto, Return, SetStrong, Entry, TypeOK, CallsInv, EntrySteps, NoSubject
<1>3. PlacesInv'
  BY EntryShape, PointersKeep, EntriesKeep, CallsKnow DEF PoolInv, SweepReleases, counts, storage,
     deferred, pointers, iterators, calls, Goto, Return, SetStrong, Entry, TypeOK, CallsInv,
     PlacesInv, Unused, CallAt, Handling, EntrySteps
<1>4. EmptyInv'
  <2>1. \A x \in Entries : Unused(x)' => Unused(x) \/ (weak[e] = 1 /\ x = e)
    BY <1>c, <1>d DEF Unused, CallAt
  <2>2. \A x \in Entries : Unused(x) => x # e
    BY <1>a
  <2> QED BY <1>a, <1>b, <1>c, <2>1, <2>2 DEF PoolInv, EmptyInv
<1>5. StagesInv'
  BY PointersKeep, EntriesKeep, CallsKnow DEF PoolInv, SweepReleases, counts, storage, deferred,
     pointers, iterators, calls, Goto, Return, SetStrong, Entry, TypeOK, CallsInv, PlacesInv,
     StagesInv, Published, CallAt, Occupied, Handling, EntrySteps
<1>6. WeakInv'
  <2>1. ~Occupied(e)'
    BY <1>a, <1>c, <1>d DEF Occupied, CallAt, Handling, EntrySteps
  <2>2. \A x \in Entries \ {e} : Occupied(x)' <=> Occupied(x)
    BY <1>p, <1>a, <1>c, <1>d DEF Occupied, CallAt
  <2> QED BY <1>a, <1>c, <2>1, <2>2, EntryReleased
<1>7. StrongInv'
  <2>1. strong' = strong /\ \A x : Owners(x)' = Owners(x)
    BY DEF SweepReleases, counts, storage, deferred, pointers, iterators, calls, Goto, Return,
       SetStrong, Entry, Owners
  <2>2. \A x \in Entries : Published(x)' <=> Published(x)
    BY <1>p, <1>a, <1>c, <1>d DEF Published, CallAt, Handling, EntrySteps
  <2> QED BY <2>1, <2>2 DEF PoolInv, StrongInv
<1>8. ActiveInv'
  <2>1. active' = active
    BY DEF SweepReleases, counts, storage, deferred, pointers, iterators, calls, Goto, Return,
       SetStrong, Entry
  <2>2. \A x \in Entries : Counted(x)' <=> Counted(x)
    BY <1>p, <1>a, <1>c, <1>d DEF Counted, CallAt, Handling, EntrySteps
  <2>3. \A b \in Blocks : {x \in OfBlock(b) : Counted(x)}' = {x \in OfBlock(b) : Counted(x)}
    BY <2>2, EntryShape
  <2> QED BY <2>1, <2>3 DEF PoolInv, ActiveInv
<1>9. VersionsBound'
  BY DEF PoolInv, SweepReleases, counts, storage, deferred, pointers, iterators, calls, Goto,
     Return, SetStrong, Entry, TypeOK, CallsInv, VersionsBound, EntrySteps
<1>10. IteratorsInv'
  BY EntryShape, PoolAssumption DEF PoolInv, SweepReleases, counts, storage, deferred, pointers,
     iterators, calls, Goto, Return, SetStrong, Entry, TypeOK, IteratorsInv, Stands, Seeking, End
<1>11. SerialInv'
  BY PointersKeep, EntriesKeep, CallsKnow DEF PoolInv, SweepReleases, counts, storage, deferred,
     pointers, iterators, calls, Goto, Return, SetStrong, Entry, TypeOK, CallsInv, IteratorsInv,
     SerialInv, Stands, Seeking, Sweeping
<1>12. StandInv'
  <2> SUFFICES ASSUME NEW u \in Threads, NEW v \in Threads, pc'[v] = "destroying",
                      Destroyable(Entry(v), subject[v].version)', Stands(u)'
               PROVE  target'[u] # Entry(v)'
    BY DEF StandInv
  <2>1. v # t /\ pc[v] = "destroying" /\ subject'[v] = subject[v] /\ Entry(v)' = Entry(v)
    BY <1>d
  <2>2. Stands(u)
    BY <1>a, <1>d DEF SweepReleases, iterators, Stands, Seeking
  <2>3. Destroyable(Entry(v), subject[v].version)
    BY <1>c, <2>1 DEF Destroyable
  <2> QED BY <2>1, <2>2, <2>3 DEF SweepReleases, iterators, PoolInv, StandInv
<1>13. DueInv'
  BY EntryShape, PointersKeep, EntriesKeep, CallsKnow DEF PoolInv, SweepReleases, counts, storage,
     deferred, pointers, iterators, calls, Goto, Return, SetStrong, Entry, TypeOK, DueInv, Ahead,
     IteratorsInv, Stands, Seeking, End, Unused, EmptyInv
<1>14. DestructionDue'
  BY DEF PoolInv, SweepReleases, counts, storage, deferred, pointers, iterators, calls, Goto,
     Return, SetStrong, Entry, TypeOK, CallsInv, DestructionDue, Destroyable, EntrySteps
<1> QED BY <1>1, <1>2, <1>3, <1>4, <1>5, <1>6, <1>7, <1>8, <1>9, <1>10, <1>11, <1>12, <1>13,
   <1>14 DEF PoolInv

\* Giving back what was swept preserves the invariant.
LEMMA DeallocateSweptSafe ==
  ASSUME PoolInv, NEW t \in Threads, DeallocateSwept(t)
  PROVE  PoolInv'
<1>1. TypeOK'
  BY PoolAssumption, EntryShape, CallsKnow, PointersKeep DEF PoolInv, DeallocateSwept, counts,
     storage, deferred, pointers, iterators, calls, Goto, Return, SetStrong, Entry, TypeOK,
     Subjects, Steps, NoSubject
<1>2. CallsInv'
  BY EntryShape DEF PoolInv, DeallocateSwept, counts, storage, deferred, pointers, iterators,
     calls, Goto, Return, SetStrong, Entry, TypeOK, CallsInv, EntrySteps, NoSubject
<1>3. PlacesInv'
  BY EntryShape, PointersKeep, EntriesKeep, CallsKnow DEF PoolInv, DeallocateSwept, counts,
     storage, deferred, pointers, iterators, calls, Goto, Return, SetStrong, Entry, TypeOK,
     CallsInv, PlacesInv, Unused, CallAt, Handling, EntrySteps
<1>4. EmptyInv'
  BY EntryShape, PointersKeep, EntriesKeep, CallsKnow DEF PoolInv, DeallocateSwept, counts,
     storage, deferred, pointers, iterators, calls, Goto, Return, SetStrong, Entry, TypeOK,
     CallsInv, PlacesInv, EmptyInv, Unused, CallAt, Occupied, Handling, EntrySteps
<1>5. StagesInv'
  BY PointersKeep, EntriesKeep, CallsKnow DEF PoolInv, DeallocateSwept, counts, storage, deferred,
     pointers, iterators, calls, Goto, Return, SetStrong, Entry, TypeOK, CallsInv, PlacesInv,
     StagesInv, Published, CallAt, Occupied, Handling, EntrySteps
<1>6. WeakInv'
  <2>1. weak' = weak /\ \A x : Observers(x)' = Observers(x)
    BY DEF DeallocateSwept, counts, storage, deferred, pointers, iterators, calls, Goto, Return,
       SetStrong, Entry, Observers
  <2>2. \A x \in Entries : Occupied(x)' <=> Occupied(x)
    BY CallsKnow DEF DeallocateSwept, counts, storage, deferred, pointers, iterators, calls, Goto,
       Return, SetStrong, Entry, PoolInv, TypeOK, Occupied, CallAt, PlacesInv, Handling,
       EntrySteps
  <2> QED BY <2>1, <2>2 DEF PoolInv, WeakInv
<1>7. StrongInv'
  <2>1. strong' = strong /\ \A x : Owners(x)' = Owners(x)
    BY DEF DeallocateSwept, counts, storage, deferred, pointers, iterators, calls, Goto, Return,
       SetStrong, Entry, Owners
  <2>2. \A x \in Entries : Published(x)' <=> Published(x)
    BY CallsKnow DEF DeallocateSwept, counts, storage, deferred, pointers, iterators, calls, Goto,
       Return, SetStrong, Entry, PoolInv, TypeOK, Published, CallAt, PlacesInv, Handling,
       EntrySteps
  <2> QED BY <2>1, <2>2 DEF PoolInv, StrongInv
<1>8. ActiveInv'
  <2>1. active' = active
    BY DEF DeallocateSwept, counts, storage, deferred, pointers, iterators, calls, Goto, Return,
       SetStrong, Entry
  <2>2. \A x \in Entries : Counted(x)' <=> Counted(x)
    BY CallsKnow DEF DeallocateSwept, counts, storage, deferred, pointers, iterators, calls, Goto,
       Return, SetStrong, Entry, PoolInv, TypeOK, Counted, CallAt, PlacesInv, Handling, EntrySteps
  <2>3. \A b \in Blocks : {x \in OfBlock(b) : Counted(x)}' = {x \in OfBlock(b) : Counted(x)}
    BY <2>2, EntryShape
  <2> QED BY <2>1, <2>3 DEF PoolInv, ActiveInv
<1>9. VersionsBound'
  BY DEF PoolInv, DeallocateSwept, counts, storage, deferred, pointers, iterators, calls, Goto,
     Return, SetStrong, Entry, TypeOK, CallsInv, VersionsBound, EntrySteps
<1>10. IteratorsInv'
  BY EntryShape, PoolAssumption DEF PoolInv, DeallocateSwept, counts, storage, deferred, pointers,
     iterators, calls, Goto, Return, SetStrong, Entry, TypeOK, IteratorsInv, Stands, Seeking, End
<1>11. SerialInv'
  BY PointersKeep, EntriesKeep, CallsKnow DEF PoolInv, DeallocateSwept, counts, storage, deferred,
     pointers, iterators, calls, Goto, Return, SetStrong, Entry, TypeOK, CallsInv, IteratorsInv,
     SerialInv, Stands, Seeking, Sweeping
<1>12. StandInv'
  BY DEF PoolInv, DeallocateSwept, counts, storage, deferred, pointers, iterators, calls, Goto,
     Return, SetStrong, Entry, TypeOK, CallsInv, VersionsBound, IteratorsInv, StandInv, Stands,
     Seeking, Destroyable, EntrySteps
<1>13. DueInv'
  BY EntryShape, PointersKeep, EntriesKeep, CallsKnow DEF PoolInv, DeallocateSwept, counts,
     storage, deferred, pointers, iterators, calls, Goto, Return, SetStrong, Entry, TypeOK,
     DueInv, Ahead, IteratorsInv, Stands, Seeking, End, Unused, EmptyInv
<1>14. DestructionDue'
  BY DEF PoolInv, DeallocateSwept, counts, storage, deferred, pointers, iterators, calls, Goto,
     Return, SetStrong, Entry, TypeOK, CallsInv, DestructionDue, Destroyable, EntrySteps
<1> QED BY <1>1, <1>2, <1>3, <1>4, <1>5, <1>6, <1>7, <1>8, <1>9, <1>10, <1>11, <1>12, <1>13,
   <1>14 DEF PoolInv

\* The begin of an iteration preserves the invariant.
LEMMA BeginSafe ==
  ASSUME PoolInv, NEW t \in Threads, Begin(t)
  PROVE  PoolInv'
<1>a. /\ pc[t] = "idle" /\ t \notin iterating /\ target[t] = End
      /\ target' = target /\ strong' = strong /\ subject' = subject
      /\ pc'[t] \in {"idle", "beginning"} /\ \A u \in Threads \ {t} : pc'[u] = pc[u]
      /\ (\A b \in Blocks : active[b] = 0) <=> pc'[t] = "idle"
      /\ due'[t] = UNION {owned[u] : u \in Threads} /\ \A u \in Threads \ {t} : due'[u] = due[u]
  BY DEF Begin, Goto, counts, calls, PoolInv, TypeOK, IteratorsInv
<1>b. \A x \in due'[t] : strong[x].count >= 1 /\ pc'[t] # "idle"
  <2> SUFFICES ASSUME NEW x \in due'[t] PROVE strong[x].count >= 1 /\ pc'[t] # "idle"
    OBVIOUS
  <2>1. PICK u \in Threads : x \in owned[u]
    BY <1>a
  <2>2. x \in Entries /\ Published(x) /\ strong[x].count >= 1
    BY <2>1, PointersKeep DEF PoolInv, TypeOK
  <2>3. x[1] \in Blocks /\ active[x[1]] # 0
    BY <2>2, EntryShape, ObjectsCounted
  <2> QED BY <1>a, <2>2, <2>3
<1>1. TypeOK'
  BY PoolAssumption, EntryShape, CallsKnow, PointersKeep DEF PoolInv, Begin, Serialized, counts,
     storage, deferred, pointers, iterators, calls, Goto, Return, SetStrong, Entry, TypeOK,
     Subjects, Steps, NoSubject
<1>2. CallsInv'
  BY EntryShape DEF PoolInv, Begin, Serialized, counts, storage, deferred, pointers, iterators,
     calls, Goto, Return, SetStrong, Entry, TypeOK, CallsInv, EntrySteps, NoSubject
<1>3. PlacesInv' /\ EmptyInv' /\ StagesInv' /\ WeakInv' /\ StrongInv' /\ ActiveInv'
  <2>1. UNCHANGED <<counts, storage, pointers, freed>>
    BY DEF Begin, calls, Serialized
  <2>2. \A v \in Threads : pc[v] \in Handling \/ pc'[v] \in Handling =>
                             pc'[v] = pc[v] /\ Entry(v)' = Entry(v)
    BY DEF Begin, Serialized, counts, storage, deferred, pointers, iterators, calls, Goto, Return,
       SetStrong, Entry, PoolInv, TypeOK, Handling, EntrySteps
  <2> QED BY <2>1, <2>2, EntriesUntouched
<1>4. VersionsBound'
  BY DEF PoolInv, Begin, Serialized, counts, storage, deferred, pointers, iterators, calls, Goto,
     Return, SetStrong, Entry, TypeOK, CallsInv, VersionsBound, EntrySteps
<1>5. IteratorsInv'
  BY EntryShape, PoolAssumption DEF PoolInv, Begin, Serialized, counts, storage, deferred,
     pointers, iterators, calls, Goto, Return, SetStrong, Entry, TypeOK, IteratorsInv, Stands,
     Seeking, End
<1>6. SerialInv'
  BY PointersKeep, EntriesKeep, CallsKnow DEF PoolInv, Begin, Serialized, counts, storage,
     deferred, pointers, iterators, calls, Goto, Return, SetStrong, Entry, TypeOK, CallsInv,
     IteratorsInv, SerialInv, Stands, Seeking, Sweeping
<1>7. StandInv'
  <2> SUFFICES ASSUME NEW u \in Threads, NEW v \in Threads, pc'[v] = "destroying",
                      Destroyable(Entry(v), subject[v].version)', Stands(u)'
               PROVE  target'[u] # Entry(v)'
    BY DEF StandInv
  <2>1. v # t /\ pc[v] = "destroying" /\ subject' = subject /\ Entry(v)' = Entry(v)
    BY <1>a DEF Entry
  <2>2. Stands(u)
    BY <1>a DEF Stands, Seeking
  <2>3. Destroyable(Entry(v), subject[v].version)
    BY <1>a, <2>1 DEF Destroyable
  <2> QED BY <1>a, <2>1, <2>2, <2>3 DEF PoolInv, StandInv
<1>8. DueInv'
  <2>1. ASSUME NEW u \in Threads \ {t}, NEW x \in due'[u]
        PROVE  /\ strong'[x].count >= 1
               /\ pc'[u] # "beginning" => target'[u] # End /\ Ahead(u, x)'
    <3>1. /\ x \in due[u] /\ strong[x].count >= 1
          /\ pc[u] # "beginning" => target[u] # End /\ Ahead(u, x)
      BY <1>a DEF PoolInv, DueInv
    <3> QED BY <3>1, <1>a DEF Ahead
  <2> QED BY <1>a, <1>b, <2>1 DEF DueInv
<1>9. DestructionDue'
  BY DEF PoolInv, Begin, Serialized, counts, storage, deferred, pointers, iterators, calls, Goto,
     Return, SetStrong, Entry, TypeOK, CallsInv, DestructionDue, Destroyable, EntrySteps
<1> QED BY <1>1, <1>2, <1>3, <1>4, <1>5, <1>6, <1>7, <1>8, <1>9 DEF PoolInv

\* Counting an iterator preserves the invariant.
LEMMA CountIteratorSafe ==
  ASSUME PoolInv, NEW t \in Threads, CountIterator(t)
  PROVE  PoolInv'
<1>a. /\ pc[t] = "beginning" /\ t \notin iterating /\ iterating \subseteq Threads
      /\ iterating' = iterating \union {t} /\ active_iterators' = active_iterators + 1
      /\ pc'[t] = "skipping" /\ target'[t] = <<1, 1>> /\ strong' = strong /\ due' = due
      /\ \A u \in Threads \ {t} : pc'[u] = pc[u] /\ target'[u] = target[u]
  BY DEF CountIterator, Goto, counts, PoolInv, TypeOK, IteratorsInv
<1>1. TypeOK'
  BY PoolAssumption, EntryShape, CallsKnow, PointersKeep DEF PoolInv, CountIterator, counts,
     storage, deferred, pointers, iterators, calls, Goto, Return, SetStrong, Entry, TypeOK,
     Subjects, Steps, NoSubject
<1>2. CallsInv'
  BY EntryShape DEF PoolInv, CountIterator, counts, storage, deferred, pointers, iterators, calls,
     Goto, Return, SetStrong, Entry, TypeOK, CallsInv, EntrySteps, NoSubject
<1>3. PlacesInv' /\ EmptyInv' /\ StagesInv' /\ WeakInv' /\ StrongInv' /\ ActiveInv'
  <2>1. UNCHANGED <<counts, storage, pointers, freed>>
    BY DEF CountIterator, calls
  <2>2. \A v \in Threads : pc[v] \in Handling \/ pc'[v] \in Handling =>
                             pc'[v] = pc[v] /\ Entry(v)' = Entry(v)
    BY DEF CountIterator, counts, storage, deferred, pointers, iterators, calls, Goto, Return,
       SetStrong, Entry, PoolInv, TypeOK, Handling, EntrySteps
  <2> QED BY <2>1, <2>2, EntriesUntouched
<1>4. VersionsBound'
  BY DEF PoolInv, CountIterator, counts, storage, deferred, pointers, iterators, calls, Goto,
     Return, SetStrong, Entry, TypeOK, CallsInv, VersionsBound, EntrySteps
<1>5. IteratorsInv'
  <2>1. Cardinality(iterating') = Cardinality(iterating) + 1
    BY <1>a, OneThreadMore
  <2>2. <<1, 1>> # End
    BY DEF End
  <2> QED BY <1>a, <2>1, <2>2 DEF PoolInv, IteratorsInv, Stands, Seeking
<1>6. SerialInv'
  BY PointersKeep, EntriesKeep, CallsKnow DEF PoolInv, CountIterator, counts, storage, deferred,
     pointers, iterators, calls, Goto, Return, SetStrong, Entry, TypeOK, CallsInv, IteratorsInv,
     SerialInv, Stands, Seeking, Sweeping
<1>7. StandInv'
  BY DEF PoolInv, CountIterator, counts, storage, deferred, pointers, iterators, calls, Goto,
     Return, SetStrong, Entry, TypeOK, CallsInv, VersionsBound, IteratorsInv, StandInv, Stands,
     Seeking, Destroyable, EntrySteps
<1>8. DueInv'
  <2>1. ASSUME NEW u \in Threads \ {t}, NEW x \in due'[u]
        PROVE  /\ strong'[x].count >= 1
               /\ pc'[u] # "beginning" => target'[u] # End /\ Ahead(u, x)'
    <3>1. /\ x \in due[u] /\ strong[x].count >= 1
          /\ pc[u] # "beginning" => target[u] # End /\ Ahead(u, x)
      BY <1>a DEF PoolInv, DueInv
    <3> QED BY <3>1, <1>a DEF Ahead
  <2>2. ASSUME NEW x \in due[t]
        PROVE  strong[x].count >= 1 /\ target'[t] # End /\ Ahead(t, x)'
    <3>1. strong[x].count >= 1 /\ x \in Entries
      BY DEF PoolInv, DueInv, TypeOK
    <3>2. 1 <= x[1] /\ 1 <= x[2] /\ x[1] \in Int
      BY <3>1, EntryShape DEF Blocks
    <3>3. <<1, 1>>[1] = 1 /\ <<1, 1>>[2] = 1 /\ <<1, 1>> # End
      BY DEF End
    <3> QED BY <1>a, <3>1, <3>2, <3>3 DEF Ahead, Seeking
  <2> QED BY <1>a, <2>1, <2>2 DEF DueInv
<1>9. DestructionDue'
  BY DEF PoolInv, CountIterator, counts, storage, deferred, pointers, iterators, calls, Goto,
     Return, SetStrong, Entry, TypeOK, CallsInv, DestructionDue, Destroyable, EntrySteps
<1> QED BY <1>1, <1>2, <1>3, <1>4, <1>5, <1>6, <1>7, <1>8, <1>9 DEF PoolInv

\* A look at the block preserves the invariant.
LEMMA LookAtBlockSafe ==
  ASSUME PoolInv, NEW t \in Threads, LookAtBlock(t)
  PROVE  PoolInv'
<1>1. TypeOK'
  BY PoolAssumption, EntryShape, CallsKnow, PointersKeep DEF PoolInv, LookAtBlock, counts,
     storage, deferred, pointers, iterators, calls, Goto, Return, SetStrong, Entry, TypeOK,
     Subjects, Steps, NoSubject
<1>2. CallsInv'
  BY EntryShape DEF PoolInv, LookAtBlock, counts, storage, deferred, pointers, iterators, calls,
     Goto, Return, SetStrong, Entry, TypeOK, CallsInv, EntrySteps, NoSubject
<1>3. PlacesInv' /\ EmptyInv' /\ StagesInv' /\ WeakInv' /\ StrongInv' /\ ActiveInv'
  <2>1. UNCHANGED <<counts, storage, pointers, freed>>
    BY DEF LookAtBlock, calls
  <2>2. \A v \in Threads : pc[v] \in Handling \/ pc'[v] \in Handling =>
                             pc'[v] = pc[v] /\ Entry(v)' = Entry(v)
    BY DEF LookAtBlock, counts, storage, deferred, pointers, iterators, calls, Goto, Return,
       SetStrong, Entry, PoolInv, TypeOK, Handling, EntrySteps
  <2> QED BY <2>1, <2>2, EntriesUntouched
<1>4. VersionsBound'
  BY DEF PoolInv, LookAtBlock, counts, storage, deferred, pointers, iterators, calls, Goto,
     Return, SetStrong, Entry, TypeOK, CallsInv, VersionsBound, EntrySteps
<1>5. IteratorsInv'
  BY EntryShape, PoolAssumption DEF PoolInv, LookAtBlock, counts, storage, deferred, pointers,
     iterators, calls, Goto, Return, SetStrong, Entry, TypeOK, IteratorsInv, Stands, Seeking, End
<1>6. SerialInv'
  BY PointersKeep, EntriesKeep, CallsKnow DEF PoolInv, LookAtBlock, counts, storage, deferred,
     pointers, iterators, calls, Goto, Return, SetStrong, Entry, TypeOK, CallsInv, IteratorsInv,
     SerialInv, Stands, Seeking, Sweeping
<1>7. StandInv'
  BY DEF PoolInv, LookAtBlock, counts, storage, deferred, pointers, iterators, calls, Goto,
     Return, SetStrong, Entry, TypeOK, CallsInv, VersionsBound, IteratorsInv, StandInv, Stands,
     Seeking, Destroyable, EntrySteps
<1>8. DueInv'
  BY EntryShape, PointersKeep, EntriesKeep, CallsKnow DEF PoolInv, LookAtBlock, counts, storage,
     deferred, pointers, iterators, calls, Goto, Return, SetStrong, Entry, TypeOK, DueInv, Ahead,
     IteratorsInv, Stands, Seeking, End, Unused, EmptyInv
<1>9. DestructionDue'
  BY DEF PoolInv, LookAtBlock, counts, storage, deferred, pointers, iterators, calls, Goto,
     Return, SetStrong, Entry, TypeOK, CallsInv, DestructionDue, Destroyable, EntrySteps
<1> QED BY <1>1, <1>2, <1>3, <1>4, <1>5, <1>6, <1>7, <1>8, <1>9 DEF PoolInv

\* Skipping a block preserves the invariant.
LEMMA SkipBlockSafe ==
  ASSUME PoolInv, NEW t \in Threads, SkipBlock(t)
  PROVE  PoolInv'
<1>a. /\ pc[t] = "blocks" /\ target[t] # End
      /\ strong' = strong /\ due' = due /\ object' = object /\ subject' = subject /\ iterating' = iterating
      /\ free' = free /\ freed' = freed /\ block_count' = block_count
  BY DEF SkipBlock, NextBlock, counts, storage, deferred, pointers, iterators, calls, Goto,
     Return, SetStrong, Entry, PoolInv, IteratorsInv, Seeking
<1>b. /\ target' \in [Threads -> (Blocks \X (1 .. BlockSize + 1)) \union {End}] /\ pc' \in [Threads -> Steps]
      /\ \A u \in Threads \ {t} : target'[u] = target[u] /\ pc'[u] = pc[u]
      /\ \/ /\ target'[t] = <<target[t][1], 1>> /\ target'[t] # End
            /\ pc'[t] = "entries"
         \/ /\ active[target[t][1]] = 0 /\ target[t][1] < block_count
            /\ target'[t] = <<target[t][1] + 1, 1>> /\ target'[t] # End
            /\ pc'[t] = "blocks"
         \/ /\ active[target[t][1]] = 0 /\ ~(target[t][1] < block_count)
            /\ target'[t] = End /\ pc'[t] = "idle"
  <2>1. CASE active[target[t][1]] = 0
    <3>1. NextBlock(t)
      BY <2>1 DEF SkipBlock
    <3> QED BY <1>a, <2>1, <3>1, NextBlockTaken
  <2>2. CASE active[target[t][1]] # 0
    <3>1. target' = [target EXCEPT ![t][2] = 1] /\ pc' = [pc EXCEPT ![t] = "entries"]
      BY <2>2 DEF SkipBlock, Goto
    <3>2. 1 \in 1 .. BlockSize + 1
      BY PoolAssumption
    <3>3. /\ target' \in [Threads -> (Blocks \X (1 .. BlockSize + 1)) \union {End}]
          /\ target'[t] = <<target[t][1], 1>> /\ target'[t] # End
          /\ \A u \in Threads \ {t} : target'[u] = target[u]
      BY <1>a, <3>1, <3>2, TargetMoves DEF PoolInv
    <3>4. pc' \in [Threads -> Steps] /\ pc'[t] = "entries" /\ \A u \in Threads \ {t} : pc'[u] = pc[u]
      BY <3>1 DEF PoolInv, TypeOK, Steps
    <3> QED BY <2>2, <3>3, <3>4
  <2> QED BY <2>1, <2>2
<1>1. TypeOK'
  BY <1>b DEF SkipBlock, counts, storage, deferred, pointers, PoolInv, TypeOK
<1>2. CallsInv'
  BY EntryShape DEF PoolInv, SkipBlock, NextBlock, counts, storage, deferred, pointers, iterators,
     calls, Goto, Return, SetStrong, Entry, TypeOK, CallsInv, EntrySteps, NoSubject
<1>3. PlacesInv' /\ EmptyInv' /\ StagesInv' /\ WeakInv' /\ StrongInv' /\ ActiveInv'
  <2>1. UNCHANGED <<counts, storage, pointers, freed>>
    BY DEF SkipBlock, calls, NextBlock
  <2>2. \A v \in Threads : pc[v] \in Handling \/ pc'[v] \in Handling =>
                             pc'[v] = pc[v] /\ Entry(v)' = Entry(v)
    BY <1>a, <1>b DEF SkipBlock, NextBlock, counts, storage, deferred, pointers, iterators, calls,
       Goto, Return, SetStrong, Entry, PoolInv, TypeOK, Handling, EntrySteps
  <2> QED BY <2>1, <2>2, EntriesUntouched
<1>4. VersionsBound'
  BY DEF PoolInv, SkipBlock, NextBlock, counts, storage, deferred, pointers, iterators, calls,
     Goto, Return, SetStrong, Entry, TypeOK, CallsInv, VersionsBound, EntrySteps
<1>5. IteratorsInv'
  <2>1. t \in iterating /\ active_iterators' = active_iterators
    BY <1>a DEF SkipBlock, PoolInv, IteratorsInv
  <2> QED BY <1>a, <1>b, <2>1 DEF PoolInv, IteratorsInv, Stands, Seeking
<1>6. SerialInv'
  <2>1. \A u \in Threads : /\ Stands(u)' => Stands(u) /\ target'[u] = target[u]
                           /\ pc'[u] \in Sweeping <=> pc[u] \in Sweeping
                           /\ pc'[u] = "beginning" <=> pc[u] = "beginning"
    BY <1>a, <1>b DEF Stands, Seeking, Sweeping
  <2> QED BY <1>a, <2>1 DEF PoolInv, SerialInv
<1>7. StandInv'
  <2> SUFFICES ASSUME NEW u \in Threads, NEW v \in Threads, pc'[v] = "destroying",
                      Destroyable(Entry(v), subject[v].version)', Stands(u)'
               PROVE  target'[u] # Entry(v)'
    BY DEF StandInv
  <2>1. pc[v] = "destroying" /\ Entry(v)' = Entry(v) /\ Destroyable(Entry(v), subject[v].version)
    BY <1>a, <1>b DEF Entry, Destroyable
  <2>2. Stands(u) /\ target'[u] = target[u]
    BY <1>a, <1>b DEF Stands, Seeking
  <2> QED BY <2>1, <2>2 DEF PoolInv, StandInv
<1>8. DueInv'
  <2>1. ASSUME NEW u \in Threads \ {t}, NEW x \in due'[u]
        PROVE  /\ strong'[x].count >= 1
               /\ pc'[u] # "beginning" => target'[u] # End /\ Ahead(u, x)'
    <3>1. /\ x \in due[u] /\ strong[x].count >= 1
          /\ pc[u] # "beginning" => target[u] # End /\ Ahead(u, x)
      BY <1>a, <1>b DEF PoolInv, DueInv
    <3> QED BY <3>1, <1>a, <1>b DEF Ahead
  <2>2. \A x \in due[t] : /\ x \in Entries /\ strong[x].count >= 1 /\ Published(x)
                          /\ active[x[1]] # 0 /\ x[1] <= block_count
                          /\ x[1] \in Nat /\ 1 <= x[2] /\ x[2] <= BlockSize /\ x[2] \in Nat
                          /\ x = <<x[1], x[2]>>
                          /\ Ahead(t, x)
    <3> SUFFICES ASSUME NEW x \in due[t]
                 PROVE  /\ x \in Entries /\ strong[x].count >= 1 /\ Published(x)
                        /\ active[x[1]] # 0 /\ x[1] <= block_count
                        /\ x[1] \in Nat /\ 1 <= x[2] /\ x[2] <= BlockSize /\ x[2] \in Nat
                        /\ x = <<x[1], x[2]>>
                        /\ Ahead(t, x)
      OBVIOUS
    <3>1. x \in Entries /\ strong[x].count >= 1 /\ Ahead(t, x)
      BY <1>a DEF PoolInv, TypeOK, DueInv
    <3>2. Published(x)
      BY <3>1, EntriesKeep
    <3>3. active[x[1]] # 0 /\ x[1] <= block_count
      BY <3>1, <3>2, ObjectsCounted
    <3> QED BY <3>1, <3>2, <3>3, EntryShape, PoolAssumption
  <2>3. target[t][1] \in Nat
    BY <1>a, EntryShape DEF PoolInv, TypeOK
  <2>4. ASSUME NEW x \in due[t] PROVE strong[x].count >= 1 /\ target'[t] # End /\ Ahead(t, x)'
    <3>1. target[t][1] <= x[1] /\ (active[target[t][1]] = 0 => target[t][1] + 1 <= x[1])
      BY <2>2, <2>3 DEF Ahead
    <3>2. CASE target'[t] = <<target[t][1], 1>> /\ target'[t] # End /\ pc'[t] = "entries"
      <4>1. target'[t][1] = target[t][1] /\ target'[t][2] = 1
        BY <3>2
      <4> QED BY <2>2, <2>3, <3>1, <3>2, <4>1 DEF Ahead, Seeking
    <3>3. CASE /\ active[target[t][1]] = 0 /\ target[t][1] < block_count
               /\ target'[t] = <<target[t][1] + 1, 1>> /\ target'[t] # End /\ pc'[t] = "blocks"
      <4>1. target'[t][1] = target[t][1] + 1 /\ target'[t][2] = 1
        BY <3>3
      <4> QED BY <2>2, <2>3, <3>1, <3>3, <4>1 DEF Ahead, Seeking
    <3>4. CASE active[target[t][1]] = 0 /\ ~(target[t][1] < block_count)
      BY <2>2, <2>3, <3>1, <3>4 DEF PoolInv, TypeOK
    <3> QED BY <1>b, <3>2, <3>3, <3>4
  <2> QED BY <1>a, <2>1, <2>4 DEF DueInv
<1>9. DestructionDue'
  BY DEF PoolInv, SkipBlock, NextBlock, counts, storage, deferred, pointers, iterators, calls,
     Goto, Return, SetStrong, Entry, TypeOK, CallsInv, DestructionDue, Destroyable, EntrySteps
<1> QED BY <1>1, <1>2, <1>3, <1>4, <1>5, <1>6, <1>7, <1>8, <1>9 DEF PoolInv

\* Skipping an entry preserves the invariant.
LEMMA SkipEntrySafe ==
  ASSUME PoolInv, NEW t \in Threads, SkipEntry(t)
  PROVE  PoolInv'
<1>a. /\ pc[t] = "entries" /\ target[t] # End /\ t \in iterating
      /\ target[t] \in Blocks \X (1 .. BlockSize + 1)
      /\ strong' = strong /\ object' = object /\ subject' = subject /\ iterating' = iterating
      /\ active_iterators' = active_iterators
      /\ free' = free /\ freed' = freed /\ block_count' = block_count
  BY DEF SkipEntry, NextBlock, counts, storage, deferred, pointers, iterators, calls, Goto,
     Return, SetStrong, Entry, PoolInv, IteratorsInv, Seeking, TypeOK
<1>b. /\ target' \in [Threads -> (Blocks \X (1 .. BlockSize + 1)) \union {End}] /\ pc' \in [Threads -> Steps]
      /\ due' \in [Threads -> SUBSET Entries] /\ \A u \in Threads \ {t} : due'[u] = due[u]
      /\ \A u \in Threads \ {t} : target'[u] = target[u] /\ pc'[u] = pc[u]
      /\ \/ /\ target[t][2] <= BlockSize /\ strong[target[t]].count > 0 /\ target[t] \in Entries
            /\ target'[t] = target[t] /\ due'[t] = due[t] \ {target[t]} /\ pc'[t] = "idle"
         \/ /\ target[t][2] <= BlockSize /\ ~(strong[target[t]].count > 0)
            /\ target'[t] = <<target[t][1], target[t][2] + 1>> /\ target'[t] # End
            /\ due'[t] = due[t] /\ pc'[t] = "entries"
         \/ /\ target[t][2] > BlockSize /\ target[t][1] < block_count
            /\ target'[t] = <<target[t][1] + 1, 1>> /\ target'[t] # End
            /\ due'[t] = due[t] /\ pc'[t] = "blocks"
         \/ /\ target[t][2] > BlockSize /\ ~(target[t][1] < block_count)
            /\ target'[t] = End /\ due'[t] = due[t] /\ pc'[t] = "idle"
  <2>1. CASE target[t][2] > BlockSize
    <3>1. NextBlock(t) /\ due' = due
      BY <2>1 DEF SkipEntry
    <3> QED BY <1>a, <2>1, <3>1, NextBlockTaken DEF PoolInv, TypeOK
  <2>2. CASE target[t][2] <= BlockSize /\ strong[target[t]].count > 0
    <3>1. due' = [due EXCEPT ![t] = @ \ {target[t]}] /\ pc' = [pc EXCEPT ![t] = "idle"] /\ target' = target
      BY <1>a, <2>2, PoolAssumption DEF SkipEntry, Goto
    <3>2. target[t] \in Entries
      BY <1>a, <2>2, PoolAssumption DEF Entries
    <3> QED BY <2>2, <3>1, <3>2 DEF PoolInv, TypeOK, Steps
  <2>3. CASE target[t][2] <= BlockSize /\ ~(strong[target[t]].count > 0)
    <3>1. target' = [target EXCEPT ![t][2] = @ + 1] /\ due' = due /\ pc' = pc
      BY <1>a, <2>3, PoolAssumption DEF SkipEntry
    <3>2. target[t][2] + 1 \in 1 .. BlockSize + 1
      BY <1>a, <2>3, PoolAssumption
    <3>3. target' = [target EXCEPT ![t][2] = target[t][2] + 1]
      BY <3>1 DEF PoolInv, TypeOK
    <3>4. /\ target' \in [Threads -> (Blocks \X (1 .. BlockSize + 1)) \union {End}]
          /\ target'[t] = <<target[t][1], target[t][2] + 1>> /\ target'[t] # End
          /\ \A u \in Threads \ {t} : target'[u] = target[u]
      BY <1>a, <3>2, <3>3, TargetMoves DEF PoolInv
    <3> QED BY <1>a, <2>3, <3>1, <3>4 DEF PoolInv, TypeOK
  <2>4. target[t][2] \in Int /\ BlockSize \in Int
    BY <1>a, PoolAssumption
  <2> QED BY <2>1, <2>2, <2>3, <2>4
<1>1. TypeOK'
  BY <1>b DEF SkipEntry, counts, storage, deferred, pointers, PoolInv, TypeOK
<1>2. CallsInv'
  BY EntryShape DEF PoolInv, SkipEntry, NextBlock, counts, storage, deferred, pointers, iterators,
     calls, Goto, Return, SetStrong, Entry, TypeOK, CallsInv, EntrySteps, NoSubject
<1>3. PlacesInv' /\ EmptyInv' /\ StagesInv' /\ WeakInv' /\ StrongInv' /\ ActiveInv'
  <2>1. UNCHANGED <<counts, storage, pointers, freed>>
    BY DEF SkipEntry, calls, NextBlock
  <2>2. \A v \in Threads : pc[v] \in Handling \/ pc'[v] \in Handling =>
                             pc'[v] = pc[v] /\ Entry(v)' = Entry(v)
    BY <1>a, <1>b DEF SkipEntry, NextBlock, counts, storage, deferred, pointers, iterators, calls,
       Goto, Return, SetStrong, Entry, PoolInv, TypeOK, Handling, EntrySteps
  <2> QED BY <2>1, <2>2, EntriesUntouched
<1>4. VersionsBound'
  BY DEF PoolInv, SkipEntry, NextBlock, counts, storage, deferred, pointers, iterators, calls,
     Goto, Return, SetStrong, Entry, TypeOK, CallsInv, VersionsBound, EntrySteps
<1>5. IteratorsInv'
  BY <1>a, <1>b DEF PoolInv, IteratorsInv, Stands, Seeking
<1>6. SerialInv'
  <2>1. \A u \in Threads : Stands(u)' => \/ Stands(u) /\ target'[u] = target[u]
                                         \/ strong[target'[u]].count > 0 /\ target'[u] \in Entries
    BY <1>a, <1>b DEF Stands, Seeking
  <2>2. \A x \in Entries : strong[x].count > 0 => object[x] = "alive"
    BY EntriesKeep DEF Published
  <2>3. \A u \in Threads : /\ pc'[u] \in Sweeping <=> pc[u] \in Sweeping
                           /\ pc'[u] = "beginning" <=> pc[u] = "beginning"
    BY <1>a, <1>b DEF Sweeping
  <2> QED BY <1>a, <2>1, <2>2, <2>3 DEF PoolInv, SerialInv
<1>7. StandInv'
  <2> SUFFICES ASSUME NEW u \in Threads, NEW v \in Threads, pc'[v] = "destroying",
                      Destroyable(Entry(v), subject[v].version)', Stands(u)'
               PROVE  target'[u] # Entry(v)'
    BY DEF StandInv
  <2>1. pc[v] = "destroying" /\ Entry(v)' = Entry(v) /\ Destroyable(Entry(v), subject[v].version)
    BY <1>a, <1>b DEF Entry, Destroyable
  <2>2. strong[Entry(v)].count = 0
    BY <2>1 DEF Destroyable
  <2>3. \/ Stands(u) /\ target'[u] = target[u]
        \/ strong[target'[u]].count > 0
    BY <1>a, <1>b DEF Stands, Seeking
  <2> QED BY <2>1, <2>2, <2>3 DEF PoolInv, StandInv
<1>8. DueInv'
  <2>1. ASSUME NEW u \in Threads \ {t}, NEW x \in due'[u]
        PROVE  /\ strong'[x].count >= 1
               /\ pc'[u] # "beginning" => target'[u] # End /\ Ahead(u, x)'
    <3>1. /\ x \in due[u] /\ strong[x].count >= 1
          /\ pc[u] # "beginning" => target[u] # End /\ Ahead(u, x)
      BY <1>a, <1>b DEF PoolInv, DueInv
    <3> QED BY <3>1, <1>a, <1>b DEF Ahead
  <2>2. \A x \in due[t] : /\ x \in Entries /\ strong[x].count >= 1 /\ Published(x)
                          /\ active[x[1]] # 0 /\ x[1] <= block_count
                          /\ x[1] \in Nat /\ 1 <= x[2] /\ x[2] <= BlockSize /\ x[2] \in Nat
                          /\ x = <<x[1], x[2]>>
                          /\ Ahead(t, x)
    <3> SUFFICES ASSUME NEW x \in due[t]
                 PROVE  /\ x \in Entries /\ strong[x].count >= 1 /\ Published(x)
                        /\ active[x[1]] # 0 /\ x[1] <= block_count
                        /\ x[1] \in Nat /\ 1 <= x[2] /\ x[2] <= BlockSize /\ x[2] \in Nat
                        /\ x = <<x[1], x[2]>>
                        /\ Ahead(t, x)
      OBVIOUS
    <3>1. x \in Entries /\ strong[x].count >= 1 /\ Ahead(t, x)
      BY <1>a DEF PoolInv, TypeOK, DueInv
    <3>2. Published(x)
      BY <3>1, EntriesKeep
    <3>3. active[x[1]] # 0 /\ x[1] <= block_count
      BY <3>1, <3>2, ObjectsCounted
    <3> QED BY <3>1, <3>2, <3>3, EntryShape, PoolAssumption
  <2>3. target[t][1] \in Nat /\ target[t][2] \in Nat /\ target[t] = <<target[t][1], target[t][2]>>
    BY <1>a, EntryShape
  <2>4. due'[t] \subseteq due[t]
    BY <1>b
  <2>5. ASSUME NEW x \in due'[t] PROVE strong[x].count >= 1 /\ target'[t] # End /\ Ahead(t, x)'
    <3>1. /\ target[t][1] <= x[1] /\ (target[t][2] > BlockSize => target[t][1] + 1 <= x[1])
          /\ target[t][1] = x[1] => target[t][2] <= x[2]
      <4>1. /\ x[1] \in Nat /\ x[2] \in Nat /\ x[2] <= BlockSize /\ BlockSize \in Nat
            /\ target[t][1] < x[1] \/ (target[t][1] = x[1] /\ target[t][2] <= x[2])
        BY <2>2, <2>4, PoolAssumption DEF Ahead
      <4> QED BY <2>3, <4>1
    <3>2. CASE strong[target[t]].count > 0 /\ target'[t] = target[t] /\ x # target[t] /\ pc'[t] = "idle"
      <4>1. target[t][1] = x[1] => target[t][2] # x[2]
        BY <2>2, <2>3, <2>4, <3>2
      <4> QED BY <1>a, <2>2, <2>3, <2>4, <3>1, <3>2, <4>1 DEF Ahead
    <3>3. CASE /\ ~(strong[target[t]].count > 0)
               /\ target'[t] = <<target[t][1], target[t][2] + 1>> /\ target'[t] # End /\ pc'[t] = "entries"
      <4>1. target'[t][1] = target[t][1] /\ target'[t][2] = target[t][2] + 1
        BY <3>3
      <4>2. x # target[t]
        BY <2>2, <2>4, <3>3 DEF PoolInv, TypeOK
      <4>3. target[t][1] = x[1] => target[t][2] + 1 <= x[2]
        BY <2>2, <2>3, <2>4, <3>1, <4>2
      <4> QED BY <2>2, <2>3, <2>4, <3>1, <3>3, <4>1, <4>3 DEF Ahead, Seeking
    <3>4. CASE /\ target[t][2] > BlockSize /\ target[t][1] < block_count
               /\ target'[t] = <<target[t][1] + 1, 1>> /\ target'[t] # End /\ pc'[t] = "blocks"
      <4>1. target'[t][1] = target[t][1] + 1 /\ target'[t][2] = 1
        BY <3>4
      <4> QED BY <2>2, <2>3, <2>4, <3>1, <3>4, <4>1 DEF Ahead, Seeking
    <3>5. CASE target[t][2] > BlockSize /\ ~(target[t][1] < block_count)
      BY <2>2, <2>3, <2>4, <3>1, <3>5 DEF PoolInv, TypeOK
    <3> QED BY <1>b, <3>2, <3>3, <3>4, <3>5
  <2> QED BY <1>a, <1>b, <2>1, <2>5 DEF DueInv
<1>9. DestructionDue'
  BY DEF PoolInv, SkipEntry, NextBlock, counts, storage, deferred, pointers, iterators, calls,
     Goto, Return, SetStrong, Entry, TypeOK, CallsInv, DestructionDue, Destroyable, EntrySteps
<1> QED BY <1>1, <1>2, <1>3, <1>4, <1>5, <1>6, <1>7, <1>8, <1>9 DEF PoolInv

\* An iterator that advances preserves the invariant.
LEMMA AdvanceSafe ==
  ASSUME PoolInv, NEW t \in Threads, Advance(t)
  PROVE  PoolInv'
<1>a. /\ pc[t] = "idle" /\ target[t] # End /\ strong' = strong /\ due' = due
      /\ pc'[t] = "skipping" /\ pc' \in [Threads -> Steps] /\ \A u \in Threads \ {t} : pc'[u] = pc[u]
      /\ target' = [target EXCEPT ![t][2] = target[t][2] + 1]
  BY DEF Advance, Goto, counts, PoolInv, TypeOK, Steps
<1>b. target[t] \in Entries /\ target[t][2] + 1 \in 1 .. BlockSize + 1
  <2>1. target[t] \in Entries
    BY <1>a DEF PoolInv, IteratorsInv, Stands, Seeking
  <2> QED BY <2>1, EntryShape, PoolAssumption
<1>c. /\ target' \in [Threads -> (Blocks \X (1 .. BlockSize + 1)) \union {End}]
      /\ target'[t] = <<target[t][1], target[t][2] + 1>> /\ target'[t] # End
      /\ \A u \in Threads \ {t} : target'[u] = target[u]
  BY <1>a, <1>b, TargetMoves DEF PoolInv
<1>1. TypeOK'
  BY <1>a, <1>c DEF Advance, counts, storage, deferred, pointers, PoolInv, TypeOK
<1>2. CallsInv'
  BY EntryShape DEF PoolInv, Advance, counts, storage, deferred, pointers, iterators, calls, Goto,
     Return, SetStrong, Entry, TypeOK, CallsInv, EntrySteps, NoSubject
<1>3. PlacesInv' /\ EmptyInv' /\ StagesInv' /\ WeakInv' /\ StrongInv' /\ ActiveInv'
  <2>1. UNCHANGED <<counts, storage, pointers, freed>>
    BY DEF Advance, calls
  <2>2. \A v \in Threads : pc[v] \in Handling \/ pc'[v] \in Handling =>
                             pc'[v] = pc[v] /\ Entry(v)' = Entry(v)
    BY DEF Advance, counts, storage, deferred, pointers, iterators, calls, Goto, Return,
       SetStrong, Entry, PoolInv, TypeOK, Handling, EntrySteps
  <2> QED BY <2>1, <2>2, EntriesUntouched
<1>4. VersionsBound'
  BY DEF PoolInv, Advance, counts, storage, deferred, pointers, iterators, calls, Goto, Return,
     SetStrong, Entry, TypeOK, CallsInv, VersionsBound, EntrySteps
<1>5. IteratorsInv'
  BY EntryShape, PoolAssumption DEF PoolInv, Advance, counts, storage, deferred, pointers,
     iterators, calls, Goto, Return, SetStrong, Entry, TypeOK, IteratorsInv, Stands, Seeking, End
<1>6. SerialInv'
  BY PointersKeep, EntriesKeep, CallsKnow DEF PoolInv, Advance, counts, storage, deferred,
     pointers, iterators, calls, Goto, Return, SetStrong, Entry, TypeOK, CallsInv, IteratorsInv,
     SerialInv, Stands, Seeking, Sweeping
<1>7. StandInv'
  BY DEF PoolInv, Advance, counts, storage, deferred, pointers, iterators, calls, Goto, Return,
     SetStrong, Entry, TypeOK, CallsInv, VersionsBound, IteratorsInv, StandInv, Stands, Seeking,
     Destroyable, EntrySteps
<1>8. DueInv'
  <2>1. ASSUME NEW u \in Threads \ {t}, NEW x \in due'[u]
        PROVE  /\ strong'[x].count >= 1
               /\ pc'[u] # "beginning" => target'[u] # End /\ Ahead(u, x)'
    <3>1. /\ x \in due[u] /\ strong[x].count >= 1
          /\ pc[u] # "beginning" => target[u] # End /\ Ahead(u, x)
      BY <1>a, <1>c DEF PoolInv, DueInv
    <3> QED BY <3>1, <1>a, <1>c DEF Ahead
  <2>2. ASSUME NEW x \in due[t] PROVE strong[x].count >= 1 /\ target'[t] # End /\ Ahead(t, x)'
    <3>1. strong[x].count >= 1 /\ x \in Entries /\ Ahead(t, x)
      BY <1>a DEF PoolInv, TypeOK, DueInv
    <3>2. target[t][1] \in Nat /\ target[t][2] \in Nat /\ x[1] \in Nat /\ x[2] \in Nat
      BY <1>b, <3>1, EntryShape
    <3>3. target'[t][1] = target[t][1] /\ target'[t][2] = target[t][2] + 1
      BY <1>c
    <3>4. target[t][1] < x[1] \/ (target[t][1] = x[1] /\ target[t][2] <= x[2] /\ target[t][2] # x[2])
      BY <1>a, <3>1 DEF Ahead, Seeking
    <3>5. target'[t][1] < x[1] \/ (target'[t][1] = x[1] /\ target'[t][2] <= x[2])
      BY <3>2, <3>3, <3>4
    <3> QED BY <1>a, <1>c, <3>1, <3>5 DEF Ahead, Seeking
  <2> QED BY <1>a, <2>1, <2>2 DEF DueInv
<1>9. DestructionDue'
  BY DEF PoolInv, Advance, counts, storage, deferred, pointers, iterators, calls, Goto, Return,
     SetStrong, Entry, TypeOK, CallsInv, DestructionDue, Destroyable, EntrySteps
<1> QED BY <1>1, <1>2, <1>3, <1>4, <1>5, <1>6, <1>7, <1>8, <1>9 DEF PoolInv

\* A copy of an iterator preserves the invariant.
LEMMA CopyIteratorSafe ==
  ASSUME PoolInv, NEW t \in Threads, NEW u \in Threads, CopyIterator(t, u)
  PROVE  PoolInv'
<1>a. /\ pc[t] = "idle" /\ pc[u] = "idle" /\ u \notin iterating /\ pc' = pc /\ strong' = strong
      /\ target'[u] = target[t] /\ due'[u] = due[t]
      /\ \A v \in Threads \ {u} : target'[v] = target[v] /\ due'[v] = due[v]
  BY DEF CopyIterator, counts, storage, deferred, pointers, iterators, calls, Goto, Return,
     SetStrong, Entry, PoolInv, TypeOK
<1>1. TypeOK'
  BY PoolAssumption, EntryShape, CallsKnow, PointersKeep DEF PoolInv, CopyIterator, counts,
     storage, deferred, pointers, iterators, calls, Goto, Return, SetStrong, Entry, TypeOK,
     Subjects, Steps, NoSubject
<1>2. CallsInv'
  BY EntryShape DEF PoolInv, CopyIterator, counts, storage, deferred, pointers, iterators, calls,
     Goto, Return, SetStrong, Entry, TypeOK, CallsInv, EntrySteps, NoSubject
<1>3. PlacesInv' /\ EmptyInv' /\ StagesInv' /\ WeakInv' /\ StrongInv' /\ ActiveInv'
  <2>1. UNCHANGED <<counts, storage, pointers, freed>>
    BY DEF CopyIterator, calls
  <2>2. \A v \in Threads : pc[v] \in Handling \/ pc'[v] \in Handling =>
                             pc'[v] = pc[v] /\ Entry(v)' = Entry(v)
    BY DEF CopyIterator, counts, storage, deferred, pointers, iterators, calls, Goto, Return,
       SetStrong, Entry, PoolInv, TypeOK, Handling, EntrySteps
  <2> QED BY <2>1, <2>2, EntriesUntouched
<1>4. VersionsBound'
  BY DEF PoolInv, CopyIterator, counts, storage, deferred, pointers, iterators, calls, Goto,
     Return, SetStrong, Entry, TypeOK, CallsInv, VersionsBound, EntrySteps
<1>5. IteratorsInv'
  <2>1. /\ iterating' = iterating \union {u} /\ u \notin iterating /\ iterating \subseteq Threads
        /\ active_iterators' = active_iterators + 1 /\ pc' = pc
        /\ pc[t] = "idle" /\ pc[u] = "idle" /\ t \in iterating
        /\ target'[u] = target[t] /\ \A v \in Threads \ {u} : target'[v] = target[v]
    BY DEF CopyIterator, calls, PoolInv, TypeOK
  <2>2. Cardinality(iterating') = Cardinality(iterating) + 1
    BY <2>1, OneThreadMore
  <2> QED BY <2>1, <2>2 DEF PoolInv, IteratorsInv, Stands, Seeking
<1>6. SerialInv'
  BY PointersKeep, EntriesKeep, CallsKnow DEF PoolInv, CopyIterator, counts, storage, deferred,
     pointers, iterators, calls, Goto, Return, SetStrong, Entry, TypeOK, CallsInv, IteratorsInv,
     SerialInv, Stands, Seeking, Sweeping
<1>7. StandInv'
  BY DEF PoolInv, CopyIterator, counts, storage, deferred, pointers, iterators, calls, Goto,
     Return, SetStrong, Entry, TypeOK, CallsInv, VersionsBound, IteratorsInv, StandInv, Stands,
     Seeking, Destroyable, EntrySteps
<1>8. DueInv'
  <2>1. ASSUME NEW v \in Threads, NEW w \in Threads, NEW x \in due[v], target'[w] = target[v],
               pc[v] \in Seeking <=> pc[w] \in Seeking, pc[w] # "beginning" => pc[v] # "beginning"
        PROVE  strong'[x].count >= 1 /\ (pc'[w] # "beginning" => target'[w] # End /\ Ahead(w, x)')
    <3>1. strong[x].count >= 1 /\ (pc[v] # "beginning" => target[v] # End /\ Ahead(v, x))
      BY DEF PoolInv, DueInv
    <3> QED BY <1>a, <2>1, <3>1 DEF Ahead
  <2>2. \A x \in due'[u] : strong'[x].count >= 1 /\ (pc'[u] # "beginning" => target'[u] # End /\ Ahead(u, x)')
    BY <1>a, <2>1 DEF Seeking
  <2>3. \A v \in Threads \ {u} : \A x \in due'[v] :
          strong'[x].count >= 1 /\ (pc'[v] # "beginning" => target'[v] # End /\ Ahead(v, x)')
    BY <1>a, <2>1
  <2> QED BY <2>2, <2>3 DEF DueInv
<1>9. DestructionDue'
  BY DEF PoolInv, CopyIterator, counts, storage, deferred, pointers, iterators, calls, Goto,
     Return, SetStrong, Entry, TypeOK, CallsInv, DestructionDue, Destroyable, EntrySteps
<1> QED BY <1>1, <1>2, <1>3, <1>4, <1>5, <1>6, <1>7, <1>8, <1>9 DEF PoolInv

\* An iterator that goes preserves the invariant.
LEMMA DropIteratorSafe ==
  ASSUME PoolInv, NEW t \in Threads, DropIterator(t)
  PROVE  PoolInv'
<1>a. /\ pc[t] = "idle" /\ t \in iterating /\ iterating \subseteq Threads
      /\ iterating' = iterating \ {t} /\ active_iterators' = active_iterators - 1
      /\ target'[t] = End /\ object' = object
      /\ pc'[t] = (IF active_iterators = 1 THEN "looking" ELSE "idle")
      /\ \A u \in Threads \ {t} : target'[u] = target[u] /\ pc'[u] = pc[u]
  BY DEF DropIterator, Goto, counts, PoolInv, TypeOK
<1>b. /\ Cardinality(iterating') = Cardinality(iterating) - 1 /\ active_iterators = Cardinality(iterating)
      /\ Cardinality(iterating') \in Nat /\ (Cardinality(iterating') = 0 <=> iterating' = {})
      /\ active_iterators \in Nat
  BY <1>a, OneThreadLess, SomeThreads DEF PoolInv, IteratorsInv, TypeOK
<1>1. TypeOK'
  <2>1. active_iterators' \in Nat
    BY <1>a, <1>b
  <2>2. target' \in [Threads -> (Blocks \X (1 .. BlockSize + 1)) \union {End}] /\ iterating' \subseteq Threads
        /\ due' \in [Threads -> SUBSET Entries] /\ pc' \in [Threads -> Steps]
    BY <1>a DEF DropIterator, Goto, PoolInv, TypeOK, Steps
  <2> QED BY <2>1, <2>2 DEF DropIterator, counts, storage, deferred, pointers, PoolInv, TypeOK
<1>2. CallsInv'
  BY EntryShape DEF PoolInv, DropIterator, Serialized, counts, storage, deferred, pointers,
     iterators, calls, Goto, Return, SetStrong, Entry, TypeOK, CallsInv, EntrySteps, NoSubject
<1>3. PlacesInv' /\ EmptyInv' /\ StagesInv' /\ WeakInv' /\ StrongInv' /\ ActiveInv'
  <2>1. UNCHANGED <<counts, storage, pointers, freed>>
    BY DEF DropIterator, calls, Serialized
  <2>2. \A v \in Threads : pc[v] \in Handling \/ pc'[v] \in Handling =>
                             pc'[v] = pc[v] /\ Entry(v)' = Entry(v)
    BY DEF DropIterator, Serialized, counts, storage, deferred, pointers, iterators, calls, Goto,
       Return, SetStrong, Entry, PoolInv, TypeOK, Handling, EntrySteps
  <2> QED BY <2>1, <2>2, EntriesUntouched
<1>4. VersionsBound'
  BY DEF PoolInv, DropIterator, Serialized, counts, storage, deferred, pointers, iterators, calls,
     Goto, Return, SetStrong, Entry, TypeOK, CallsInv, VersionsBound, EntrySteps
<1>5. IteratorsInv'
  <2>1. active_iterators' = Cardinality(iterating')
    BY <1>a, <1>b
  <2> QED BY <1>a, <2>1 DEF PoolInv, IteratorsInv, Stands, Seeking
<1>6. SerialInv'
  <2> SUFFICES ASSUME SerialIteration
               PROVE  /\ (\E u \in Threads : pc'[u] \in Sweeping) =>
                           iterating' = {} /\ \A u \in Threads : pc'[u] # "beginning"
                      /\ \A u \in Threads : Stands(u)' => object'[target'[u]] = "alive"
    BY DEF SerialInv
  <2>1. \A u \in Threads : pc[u] # "beginning" /\ pc[u] \notin Sweeping
    BY DEF DropIterator, Serialized, Sweeping
  <2>2. \A u \in Threads : pc'[u] # "beginning"
    BY <1>a, <2>1
  <2>3. (\E u \in Threads : pc'[u] \in Sweeping) => active_iterators = 1
    BY <1>a, <2>1 DEF Sweeping
  <2>4. active_iterators = 1 => iterating' = {}
    BY <1>b
  <2>5. \A u \in Threads : Stands(u)' => Stands(u) /\ target'[u] = target[u]
    BY <1>a DEF Stands, Seeking
  <2> QED BY <1>a, <2>2, <2>3, <2>4, <2>5 DEF PoolInv, SerialInv
<1>7. StandInv'
  BY DEF PoolInv, DropIterator, Serialized, counts, storage, deferred, pointers, iterators, calls,
     Goto, Return, SetStrong, Entry, TypeOK, CallsInv, VersionsBound, IteratorsInv, StandInv,
     Stands, Seeking, Destroyable, EntrySteps
<1>8. DueInv'
  BY EntryShape, PointersKeep, EntriesKeep, CallsKnow DEF PoolInv, DropIterator, Serialized,
     counts, storage, deferred, pointers, iterators, calls, Goto, Return, SetStrong, Entry,
     TypeOK, DueInv, Ahead, IteratorsInv, Stands, Seeking, End, Unused, EmptyInv
<1>9. DestructionDue'
  BY DEF PoolInv, DropIterator, Serialized, counts, storage, deferred, pointers, iterators, calls,
     Goto, Return, SetStrong, Entry, TypeOK, CallsInv, DestructionDue, Destroyable, EntrySteps
<1> QED BY <1>1, <1>2, <1>3, <1>4, <1>5, <1>6, <1>7, <1>8, <1>9 DEF PoolInv

\* A new pool satisfies the invariant.
LEMMA PoolBegins == Init => PoolInv
<1> SUFFICES ASSUME Init PROVE PoolInv
  OBVIOUS
<1>1. TypeOK
  <2>1. NoSubject \in Subjects
    BY DEF Subjects, NoSubject
  <2>2. strong \in [Entries -> [count : Nat \union {-1}, version : Nat]]
    BY DEF Init
  <2>3. block_count \in 0 .. MaxBlocks
    BY PoolAssumption DEF Init
  <2> QED BY <2>1, <2>2, <2>3 DEF Init, TypeOK, Steps
<1>2. CallsInv /\ PlacesInv /\ StagesInv /\ VersionsBound
  BY DEF Init, CallsInv, PlacesInv, StagesInv, VersionsBound, EntrySteps, Handling, CallAt
<1>3. EmptyInv
  BY DEF Init, EmptyInv
<1>4. \A e \in Entries : ~Occupied(e) /\ ~Published(e) /\ ~Counted(e) /\ Observers(e) = {} /\ Owners(e) = {}
  BY DEF Init, Occupied, Published, Counted, CallAt, Observers, Owners
<1>5. WeakInv
  <2>1. \A e \in Entries : Cardinality(Observers(e)) = 0
    BY <1>4, FS_EmptySet
  <2> QED BY <1>4, <2>1 DEF Init, WeakInv
<1>6. StrongInv
  BY <1>4 DEF Init, StrongInv
<1>7. ActiveInv
  <2>1. \A b \in Blocks : {x \in OfBlock(b) : Counted(x)} = {}
    BY <1>4, EntryShape
  <2> QED BY <2>1, FS_EmptySet DEF Init, ActiveInv
<1>8. IteratorsInv
  BY FS_EmptySet DEF Init, IteratorsInv, Stands, Seeking
<1>9. SerialInv
  BY DEF Init, SerialInv, Stands, Sweeping
<1>10. StandInv /\ DueInv /\ DestructionDue
  BY DEF Init, StandInv, DueInv, DestructionDue
<1> QED BY <1>1, <1>2, <1>3, <1>5, <1>6, <1>7, <1>8, <1>9, <1>10 DEF PoolInv

\* Every step of a thread that goes on with a call keeps the invariant.
LEMMA ContinueSafe ==
  ASSUME PoolInv, NEW t \in Threads, Continue(t)
  PROVE  PoolInv'
<1>1. CASE \E p \in todo[t] : SweepDestroys(t, p) \/ SweepRescued(t, p)
  BY <1>1, SweepDestroysSafe, SweepRescuedSafe
<1>2. CASE Construct(t) \/ ConstructorThrows(t) \/ CountObject(t) \/ Publish(t) \/ DecideDestruction(t)
  BY <1>2, ConstructSafe, ConstructorThrowsSafe, CountObjectSafe, PublishSafe, DecideDestructionSafe
<1>3. CASE TryToDestroy(t) \/ Rescued(t) \/ ReleaseEntry(t) \/ Deallocate(t) \/ LockPending(t)
  BY <1>3, TryToDestroySafe, RescuedSafe, ReleaseEntrySafe, DeallocateSafe, LockPendingSafe
<1>4. CASE Mark(t) \/ LookForPending(t) \/ TakePending(t) \/ SweepReleases(t) \/ DeallocateSwept(t)
  BY <1>4, MarkSafe, LookForPendingSafe, TakePendingSafe, SweepReleasesSafe, DeallocateSweptSafe
<1>5. CASE CountIterator(t) \/ LookAtBlock(t) \/ SkipBlock(t) \/ SkipEntry(t)
  BY <1>5, CountIteratorSafe, LookAtBlockSafe, SkipBlockSafe, SkipEntrySafe
<1> QED BY <1>1, <1>2, <1>3, <1>4, <1>5 DEF Continue

\* Every step keeps the invariant, and so does none.
LEMMA PoolStepSafe ==
  ASSUME PoolInv, [Next]_vars
  PROVE  PoolInv'
<1>1. CASE UNCHANGED vars
  <2>1. /\ TypeOK' /\ CallsInv' /\ PlacesInv' /\ EmptyInv' /\ StagesInv'
    BY <1>1 DEF PoolInv, vars, counts, storage, deferred, pointers, iterators, calls, TypeOK,
       CallsInv,
                PlacesInv, EmptyInv, StagesInv, Unused, CallAt, Entry
  <2>2. WeakInv' /\ StrongInv'
    BY <1>1 DEF PoolInv, vars, counts, pointers, calls, WeakInv, StrongInv, Observers, Occupied,
                Owners, Published, CallAt, Entry
  <2>3. ActiveInv'
    BY <1>1 DEF PoolInv, vars, counts, calls, ActiveInv, Counted, CallAt, Entry
  <2>4. VersionsBound' /\ IteratorsInv' /\ SerialInv' /\ StandInv' /\ DueInv' /\ DestructionDue'
    BY <1>1 DEF PoolInv, vars, counts, deferred, pointers, iterators, calls, VersionsBound,
       IteratorsInv,
                SerialInv, StandInv, DueInv, DestructionDue, Stands, Ahead, Destroyable, Entry
  <2> QED BY <2>1, <2>2, <2>3, <2>4 DEF PoolInv
<1>2. ASSUME NEW t \in Threads, Continue(t) PROVE PoolInv'
  BY <1>2, ContinueSafe
<1>3. ASSUME NEW t \in Threads, Iterate(t) \/ Allocate(t) \/ Reserve(t) PROVE PoolInv'
  BY <1>3, BeginSafe, AdvanceSafe, DropIteratorSafe, AllocateSafe, ReserveSafe DEF Iterate
<1>4. ASSUME NEW t \in Threads, NEW e \in Entries, Lock(t, e) \/ DropPointer(t, e) \/ DropWeak(t, e)
      PROVE  PoolInv'
  BY <1>4, LockSafe, DropPointerSafe, DropWeakSafe
<1>5. ASSUME NEW t \in Threads, NEW u \in Threads, NEW e \in Entries,
             CopyPointer(t, u, e) \/ Observe(t, u, e)
      PROVE  PoolInv'
  BY <1>5, CopyPointerSafe, ObserveSafe
<1>6. ASSUME NEW t \in Threads, NEW u \in Threads, CopyIterator(t, u) PROVE PoolInv'
  BY <1>6, CopyIteratorSafe
<1> QED BY <1>1, <1>2, <1>3, <1>4, <1>5, <1>6 DEF Next

\* The invariant of smart_object_pool: the counters of entries and blocks are those of the pointers and
\* objects, entries are in one place, and each destruction is due to somebody, also if the begin of an
\* iteration and the drop of the last iterator overlap.
THEOREM PoolInvariance == Spec => []PoolInv
<1>1. PoolInv /\ [Next]_vars => PoolInv'
  BY PoolStepSafe
<1> QED BY <1>1, PoolBegins, PTL DEF Spec

\* What the invariant says of objects, pointers and iterations.
LEMMA PoolInvGivesOwnersSafe ==
  PoolInv => OwnedAlive /\ FreeUnused /\ CreatedInEmptyPlace /\ IterationComplete
<1> SUFFICES ASSUME PoolInv
             PROVE  OwnedAlive /\ FreeUnused /\ CreatedInEmptyPlace /\ IterationComplete
  OBVIOUS
<1>1. OwnedAlive
  BY PointersKeep DEF OwnedAlive
<1>2. FreeUnused
  <2> SUFFICES ASSUME NEW e \in free PROVE ~InUse(e)
    BY DEF FreeUnused
  <2>1. e \in Entries /\ Unused(e)
    BY DEF Unused, PoolInv, TypeOK
  <2>2. ~Occupied(e) /\ \A t \in Threads : e \notin owned[t] /\ e \notin observed[t]
    BY <2>1, EntriesKeep
  <2>3. \A t \in Threads : e \notin freed[t] /\ (pc[t] \in Handling => Entry(t) # e)
    BY <2>1, FreeIsApart
  <2> QED BY <2>2, <2>3 DEF InUse, Occupied, Handling, EntrySteps
<1>3. CreatedInEmptyPlace
  BY CallsKnow DEF CreatedInEmptyPlace, PoolInv, EmptyInv, EntrySteps
<1>4. IterationComplete
  BY DEF IterationComplete, PoolInv, DueInv
<1> QED BY <1>1, <1>2, <1>3, <1>4

\* smart_object_pool is correct if begin() and the drop of the last iterator do not overlap: objects live as
\* long as owners and iterators, entries are used once, iterations visit what they have to and no
\* destruction is forgotten, for any threads, blocks and calls.
THEOREM PoolCorrect == SerialIteration => (Spec => []ObjectsSafe)
<1> SUFFICES ASSUME SerialIteration PROVE Spec => []ObjectsSafe
  OBVIOUS
<1>1. PoolInv => ObjectsSafe
  <2>1. PoolInv => IteratedAlive
    BY DEF IteratedAlive, PoolInv, SerialInv, Stands, Seeking
  <2> QED BY <2>1, PoolInvGivesOwnersSafe DEF ObjectsSafe
<1> QED BY <1>1, PoolInvariance, PTL

\* Whether they overlap or not, owned objects live, free entries are unused and iterations are complete.
THEOREM PoolOwnersSafe == Spec => [](OwnedAlive /\ FreeUnused /\ CreatedInEmptyPlace /\ IterationComplete)
BY PoolInvariance, PoolInvGivesOwnersSafe, PTL

(***************************************************************************)
(* ring_chunk_placer                                                       *)
(***************************************************************************)

\* What a sequence holds.
LEMMA SeqFacts ==
  ASSUME NEW S, NEW s \in Seq(S)
  PROVE  Len(s) \in Nat /\ DOMAIN s = 1..Len(s) /\ \A i \in 1..Len(s) : s[i] \in S
OBVIOUS

\* A sequence with one element more.
LEMMA AppendFacts ==
  ASSUME NEW S, NEW s \in Seq(S), NEW e \in S
  PROVE  /\ Append(s, e) \in Seq(S) /\ Len(Append(s, e)) = Len(s) + 1
         /\ DOMAIN Append(s, e) = 1..Len(s) + 1
         /\ \A i \in 1..Len(s) : Append(s, e)[i] = s[i]
         /\ Append(s, e)[Len(s) + 1] = e
OBVIOUS

\* What is left of a sequence without its first n elements.
LEMMA RestFacts ==
  ASSUME NEW S, NEW s \in Seq(S), NEW n \in 0..Len(s)
  PROVE  LET rest == SubSeq(s, n + 1, Len(s)) IN
           /\ rest \in Seq(S) /\ Len(rest) = Len(s) - n /\ DOMAIN rest = 1..Len(s) - n
           /\ \A i \in 1..Len(s) - n : rest[i] = s[i + n] /\ i + n \in 1..Len(s)
OBVIOUS

\* A function on the first numbers is a sequence.
LEMMA SeqOver ==
  ASSUME NEW S, NEW n \in Nat, NEW f, DOMAIN f = 1..n, f = [i \in 1..n |-> f[i]], \A i \in 1..n : f[i] \in S
  PROVE  f \in Seq(S) /\ Len(f) = n
OBVIOUS

\* A sequence over a larger set.
LEMMA SeqWider ==
  ASSUME NEW S, NEW T, NEW s \in Seq(S), \A i \in 1..Len(s) : s[i] \in T
  PROVE  s \in Seq(T)
OBVIOUS

\* What the assumptions and the type say of a chunk that is placed.
LEMMA PlaceFacts ==
  ASSUME PlacedInv, NEW size \in ChunkSizes, NEW alignment \in ChunkAlignments, PlaceChunk(size, alignment),
         ~Underflows(ring, size, alignment)
  PROVE  /\ size \in 1..RingSize /\ alignment \in Nat \ {0}
         /\ ring.size = RingSize /\ ring'.size = RingSize
         /\ ring \in [in_pos : 0..RingSize, out_pos : 0..RingSize, wrap_size : 0..RingSize, size : {RingSize}]
         /\ ring' \in Rings({RingSize})
         /\ ring'.in_pos \in 0..RingSize /\ ring'.wrap_size \in 0..RingSize /\ ring'.out_pos = ring.out_pos
         /\ RingOK(ring)
         /\ \E first \in 0..RingSize :
              /\ live' = Append(live, [first |-> first, end |-> first + size])
              /\ Placed(ring, ring', first, size)
<1> DEFINE first == find_pos(ring, size, alignment).target
<1>1. /\ size \in 1..RingSize /\ alignment \in Nat \ {0} /\ RingSize \in Nat
      /\ Word \in Nat /\ RingSize < Word
  BY PlacerAssumption
<1>2. /\ ring \in Rings({RingSize}) /\ ring.size = RingSize
      /\ ring \in [in_pos : 0..RingSize, out_pos : 0..RingSize, wrap_size : 0..RingSize, size : {RingSize}]
  BY <1>1 DEF PlacedInv, PlacerTypeOK, Rings
<1>3. RingOK(ring) /\ can_fit(ring, size, alignment)
  BY <1>1, <1>2 DEF RingOK, Rings, PlaceChunk
<1>4. Placed(ring, ring', first, size) /\ first \in Nat
  <2>1. size \in Nat \ {0}
    BY <1>1
  <2>2. ring' = place_chunk(ring, size, alignment)
    BY DEF PlaceChunk
  <2> QED
    BY <1>1, <1>3, <2>1, <2>2, PlacedPositions
<1>5. live' = Append(live, [first |-> first, end |-> first + size])
  BY DEF PlaceChunk
<1> HIDE DEF first
<1>6. ring' \in Rings({RingSize}) /\ ring'.in_pos \in 0..RingSize /\ ring'.wrap_size \in 0..RingSize
  BY <1>1, <1>2, <1>4 DEF RingOK, Rings, Placed
<1>7. first \in 0..RingSize /\ ring'.size = RingSize /\ ring'.out_pos = ring.out_pos
  BY <1>1, <1>2, <1>4, <1>6 DEF Placed
<1> QED
  BY <1>1, <1>2, <1>3, <1>4, <1>5, <1>6, <1>7

\* A chunk that is placed.
LEMMA PlaceChunkSafe ==
  ASSUME PlacedInv, NEW size \in ChunkSizes, NEW alignment \in ChunkAlignments, PlaceChunk(size, alignment),
         ~Underflows(ring, size, alignment)
  PROVE  PlacedInv'
<1>1. PICK first \in 0..RingSize :
        /\ live' = Append(live, [first |-> first, end |-> first + size])
        /\ Placed(ring, ring', first, size)
  BY PlaceFacts
<1>2. /\ size \in 1..RingSize /\ alignment \in Nat \ {0} /\ RingSize \in Nat
      /\ ring.size = RingSize /\ ring'.size = RingSize
      /\ ring.in_pos \in 0..RingSize /\ ring.out_pos \in 0..RingSize /\ ring.wrap_size \in 0..RingSize
      /\ ring' \in Rings({RingSize})
      /\ ring'.in_pos \in 0..RingSize /\ ring'.wrap_size \in 0..RingSize /\ ring'.out_pos = ring.out_pos
  BY PlaceFacts, PlacerAssumption
<1>3. /\ RingOK(ring) /\ size \in Nat \ {0} /\ first \in Nat
      /\ Wrapped(ring) => ring.out_pos <= ring.wrap_size
      /\ first + size <= RingSize
  <2>1. RingOK(ring) /\ Placed(ring, ring', first, size)
    BY <1>1, PlaceFacts
  <2>2. ring'.in_pos = first + size
    BY <2>1 DEF Placed
  <2> QED
    BY <1>2, <2>1, <2>2 DEF PlacedInv, LiveChunksInUsedSpace
<1>4. ASSUME NEW p \in Nat, NEW q \in Nat, p <= q, Used(ring, p, q)
      PROVE  Used(ring', p, q)
  BY <1>4, <1>3, <1>1, UsedStays
<1>5. ASSUME NEW p1 \in Nat, NEW q1 \in Nat, Used(ring, p1, q1), NEW p \in p1 .. q1,
             NEW p2 \in Nat, NEW q2 \in Nat, Used(ring, p2, q2), NEW q \in p2 .. q2, Follows(ring, p, q)
      PROVE  Follows(ring', p, q)
  BY <1>5, <1>3, <1>1, FollowsStays
<1>6. ASSUME NEW p1 \in Nat, NEW q1 \in Nat, Used(ring, p1, q1), NEW p \in p1 .. q1
      PROVE  Follows(ring', p, first)
  BY <1>6, <1>3, <1>1, PlacedFollows
<1>7. /\ live \in Seq(PlacedChunks)
      /\ marks \in Seq(RecordedMarks(Len(live)))
      /\ marks' = marks
  BY DEF PlacedInv, PlacerTypeOK, PlaceChunk
<1>8. /\ live' \in Seq(PlacedChunks)
      /\ Len(live') = Len(live) + 1 /\ Len(live) \in Nat
      /\ DOMAIN live = 1..Len(live) /\ DOMAIN live' = 1..Len(live) + 1
      /\ \A i \in DOMAIN live : live'[i] = live[i] /\ live[i].first \in 0..RingSize /\ live[i].end \in 0..RingSize
      /\ live'[Len(live) + 1].first = first /\ live'[Len(live) + 1].end = first + size
  <2> DEFINE new == [first |-> first, end |-> first + size]
  <2>1. new \in PlacedChunks /\ new.first = first /\ new.end = first + size
    BY <1>3, <1>1, <1>2 DEF PlacedChunks
  <2> HIDE DEF new
  <2>2. live' = Append(live, new)
    BY <1>1 DEF new
  <2>3. \A c \in PlacedChunks : c.first \in 0..RingSize /\ c.end \in 0..RingSize
    BY DEF PlacedChunks
  <2> QED
    BY <1>7, <2>1, <2>2, <2>3, SeqFacts, AppendFacts
<1>9. /\ Len(marks) \in Nat /\ DOMAIN marks = 1..Len(marks)
      /\ \A k \in DOMAIN marks : marks[k].position \in 0..RingSize /\ marks[k].chunks \in 0..Len(live)
  <2>1. \A m \in RecordedMarks(Len(live)) : m.position \in 0..RingSize /\ m.chunks \in 0..Len(live)
    BY DEF RecordedMarks
  <2> QED
    BY <1>7, <2>1, SeqFacts
<1>10. PlacerTypeOK'
  <2>1. marks' \in Seq(RecordedMarks(Len(live')))
    <3>1. \A m \in RecordedMarks(Len(live)) : m \in RecordedMarks(Len(live) + 1)
      BY <1>8 DEF RecordedMarks
    <3> QED
      BY <1>7, <1>8, <3>1, SeqFacts, SeqWider
  <2> QED
    BY <1>2, <1>8, <2>1 DEF PlacerTypeOK
<1>11. LiveChunksInUsedSpace'
  <2>1. Wrapped(ring) => ring.out_pos <= ring.wrap_size
    BY DEF PlacedInv, LiveChunksInUsedSpace
  <2>2. \A i \in DOMAIN live : live[i].first < live[i].end /\ Used(ring, live[i].first, live[i].end)
    BY DEF PlacedInv, LiveChunksInUsedSpace
  <2>3. \A i \in DOMAIN live : Used(ring', live[i].first, live[i].end)
    BY <1>4, <1>8, <2>2
  <2>4. Used(ring', first, first + size) /\ (Wrapped(ring') => ring'.out_pos <= ring'.wrap_size)
    BY <1>1, <1>2, <2>1, RingFields DEF Placed, Used, Wrapped
  <2> QED
    BY <1>2, <1>8, <2>2, <2>3, <2>4 DEF LiveChunksInUsedSpace
<1>12. LiveChunksInOrder'
  <2> SUFFICES ASSUME NEW i \in DOMAIN live', NEW j \in DOMAIN live', i < j
               PROVE  Follows(ring', live'[i].end, live'[j].first)
    BY DEF LiveChunksInOrder
  <2>1. i \in DOMAIN live
    BY <1>8
  <2>2. /\ live[i].first < live[i].end /\ Used(ring, live[i].first, live[i].end)
        /\ Wrapped(ring) => ring.out_pos <= ring.wrap_size
    BY <2>1 DEF PlacedInv, LiveChunksInUsedSpace
  <2>3. CASE j \in DOMAIN live
    <3>1. Follows(ring, live[i].end, live[j].first)
      BY <2>1, <2>3 DEF PlacedInv, LiveChunksInOrder
    <3>2. live[j].first < live[j].end /\ Used(ring, live[j].first, live[j].end)
      BY <2>3 DEF PlacedInv, LiveChunksInUsedSpace
    <3>3. live'[i].end = live[i].end /\ live'[j].first = live[j].first
      BY <1>8, <2>1, <2>3
    <3>4. /\ live[i].first \in Nat /\ live[i].end \in live[i].first .. live[i].end /\ live[i].end \in Nat
          /\ live[j].end \in Nat /\ live[j].first \in live[j].first .. live[j].end /\ live[j].first \in Nat
      BY <1>2, <1>8, <2>1, <2>2, <2>3, <3>2
    <3>5. Follows(ring', live[i].end, live[j].first)
      BY <1>5, <2>2, <3>1, <3>2, <3>4
    <3> QED
      BY <3>3, <3>5
  <2>4. CASE j = Len(live) + 1
    <3>1. live'[i].end = live[i].end /\ live'[j].first = first
      BY <1>8, <2>1, <2>4
    <3>2. /\ live[i].first \in Nat /\ live[i].end \in Nat
          /\ live[i].end \in live[i].first .. live[i].end
      BY <1>2, <1>8, <2>1, <2>2
    <3>3. Follows(ring', live[i].end, first)
      BY <1>6, <2>2, <3>2
    <3> QED
      BY <3>1, <3>3
  <2> QED
    BY <1>8, <2>3, <2>4
<1>13. MarksInOrder'
  <2>1. ASSUME NEW k \in DOMAIN marks, Passed(k)
        PROVE  Passed(k)'
    BY <1>1, <1>2, <1>7, <2>1 DEF Passed, Placed
  <2>2. ASSUME NEW k \in DOMAIN marks, ~Passed(k)
        PROVE  /\ Used(ring', marks[k].position, marks[k].position)
               /\ \A i \in DOMAIN live' : i > marks[k].chunks => Follows(ring', marks[k].position, live'[i].first)
    <3>1. /\ Used(ring, marks[k].position, marks[k].position) /\ marks[k].position \in 0..RingSize
          /\ Wrapped(ring) => ring.out_pos <= ring.wrap_size
      BY <1>9, <2>2 DEF PlacedInv, MarksInOrder, LiveChunksInUsedSpace
    <3>2. Used(ring', marks[k].position, marks[k].position)
      BY <1>4, <1>2, <1>7, <3>1
    <3>3. ASSUME NEW i \in DOMAIN live', i > marks[k].chunks
          PROVE  Follows(ring', marks[k].position, live'[i].first)
      <4>1. CASE i \in DOMAIN live
        <5>1. Follows(ring, marks[k].position, live[i].first)
          BY <2>2, <3>3, <4>1 DEF PlacedInv, MarksInOrder
        <5>2. live[i].first < live[i].end /\ Used(ring, live[i].first, live[i].end)
          BY <4>1 DEF PlacedInv, LiveChunksInUsedSpace
        <5> DEFINE p == marks[k].position  q == live[i].first  e == live[i].end
        <5>3. p \in 0..RingSize /\ q \in 0..RingSize /\ e \in 0..RingSize /\ live'[i].first = q
          BY <1>8, <3>1, <4>1
        <5>4. Follows(ring, p, q) /\ Used(ring, p, p) /\ q < e /\ Used(ring, q, e)
          BY <3>1, <5>1, <5>2
        <5> HIDE DEF p, q, e
        <5>5. Follows(ring', p, q)
          BY <1>5, <1>2, <3>1, <5>3, <5>4
        <5> QED
          BY <5>3, <5>5 DEF p
      <4>2. CASE i = Len(live) + 1
        BY <1>1, <1>2, <1>7, <1>8, <3>1, <4>2, <1>6
      <4> QED
        BY <1>8, <4>1, <4>2
    <3> QED
      BY <1>7, <3>2, <3>3
  <2>3. ASSUME NEW k \in DOMAIN marks, NEW l \in DOMAIN marks, k < l
        PROVE  /\ Passed(k)' \/ Follows(ring', marks[k].position, marks[l].position)
               /\ marks[k].chunks <= marks[l].chunks
    <3>1. marks[k].chunks <= marks[l].chunks
      BY <2>3 DEF PlacedInv, MarksInOrder
    <3>2. CASE Passed(k)
      BY <2>1, <3>1, <3>2
    <3>3. CASE ~Passed(k)
      <4>1. ~Passed(l)
        BY <1>9, <2>3, <3>3 DEF Passed
      <4>2. /\ Used(ring, marks[k].position, marks[k].position) /\ marks[k].position \in 0..RingSize
            /\ Used(ring, marks[l].position, marks[l].position) /\ marks[l].position \in 0..RingSize
            /\ Wrapped(ring) => ring.out_pos <= ring.wrap_size
            /\ Follows(ring, marks[k].position, marks[l].position)
        BY <1>9, <2>3, <3>3, <4>1 DEF PlacedInv, MarksInOrder, LiveChunksInUsedSpace
      <4>3. Follows(ring', marks[k].position, marks[l].position)
        BY <1>5, <1>2, <1>7, <4>2
      <4> QED
        BY <1>7, <3>1, <4>3
    <3> QED
      BY <3>2, <3>3
  <2>4. ASSUME NEW k \in DOMAIN marks'
        PROVE  \/ Passed(k)'
               \/ /\ Used(ring', marks'[k].position, marks'[k].position)
                  /\ \A i \in DOMAIN live' : i > marks'[k].chunks => Follows(ring', marks'[k].position, live'[i].first)
    BY <1>7, <2>1, <2>2
  <2> QED
    BY <1>7, <2>3, <2>4 DEF MarksInOrder
<1> QED
  BY <1>10, <1>11, <1>12, <1>13 DEF PlacedInv

\* A position that is recorded.
LEMMA RecordPositionSafe ==
  ASSUME PlacedInv, RecordPosition
  PROVE  PlacedInv'
<1>1. /\ ring' = ring /\ live' = live /\ RingSize \in Nat /\ ring \in Rings({RingSize})
      /\ ring.in_pos \in 0..RingSize /\ ring.out_pos \in 0..RingSize /\ ring.wrap_size \in 0..RingSize
      /\ live \in Seq(PlacedChunks)
      /\ marks \in Seq(RecordedMarks(Len(live)))
      /\ marks' = Append(marks, [position |-> ring.in_pos, chunks |-> Len(live)])
  BY PlacerAssumption DEF PlacedInv, PlacerTypeOK, Rings, RecordPosition
<1>2. /\ Len(live) \in Nat /\ DOMAIN live = 1..Len(live) /\ Len(marks) \in Nat
      /\ marks' \in Seq(RecordedMarks(Len(live)))
      /\ DOMAIN marks = 1..Len(marks) /\ DOMAIN marks' = 1..Len(marks) + 1
      /\ \A k \in DOMAIN marks : marks'[k] = marks[k] /\ marks[k].position \in 0..RingSize
                                                  /\ marks[k].chunks \in 0..Len(live)
      /\ marks'[Len(marks) + 1] = [position |-> ring.in_pos, chunks |-> Len(live)]
  <2>1. Len(live) \in Nat
    BY <1>1, SeqFacts
  <2>2. [position |-> ring.in_pos, chunks |-> Len(live)] \in RecordedMarks(Len(live))
    BY <1>1, <2>1 DEF RecordedMarks
  <2>3. \A m \in RecordedMarks(Len(live)) : m.position \in 0..RingSize /\ m.chunks \in 0..Len(live)
    BY DEF RecordedMarks
  <2> QED
    BY <1>1, <2>1, <2>2, <2>3, SeqFacts, AppendFacts
<1>3. PlacerTypeOK' /\ LiveChunksInUsedSpace' /\ LiveChunksInOrder'
  BY <1>1, <1>2 DEF PlacedInv, PlacerTypeOK, LiveChunksInUsedSpace, LiveChunksInOrder,
                    Used, Wrapped, Follows
<1>4. MarksInOrder'
  <2>1. \A k \in DOMAIN marks : Passed(k) => Passed(k)'
    BY <1>1, <1>2 DEF Passed
  <2>2. MarksInOrder
    BY DEF PlacedInv
  <2>3. ASSUME NEW k \in DOMAIN marks
        PROVE  Follows(ring, marks[k].position, ring.in_pos) \/ Passed(k)
    <3>1. Passed(k) \/ Used(ring, marks[k].position, marks[k].position)
      BY <2>2 DEF MarksInOrder
    <3> QED
      BY <1>1, <1>2, <3>1 DEF Used, Wrapped, Follows
  <2>4. Used(ring, ring.in_pos, ring.in_pos)
    BY <1>1 DEF Used, Wrapped
  <2>5. \A i \in DOMAIN live' : ~(i > marks'[Len(marks) + 1].chunks)
    BY <1>1, <1>2
  <2> QED
    BY <1>1, <1>2, <2>1, <2>2, <2>3, <2>4, <2>5 DEF MarksInOrder
<1> QED
  BY <1>3, <1>4 DEF PlacedInv

\* What was placed before the oldest recorded position is freed.
LEMMA FreeToSafe ==
  ASSUME PlacedInv, FreeTo
  PROVE  PlacedInv'
<1> DEFINE first == marks[1]  left == Len(marks) - 1
<1>1. /\ RingSize \in Nat /\ ring \in Rings({RingSize})
      /\ ring.size = RingSize
      /\ ring.in_pos \in 0..RingSize /\ ring.out_pos \in 0..RingSize /\ ring.wrap_size \in 0..RingSize
      /\ live \in Seq(PlacedChunks)
      /\ marks \in Seq(RecordedMarks(Len(live)))
  BY PlacerAssumption DEF PlacedInv, PlacerTypeOK, Rings
<1>2. /\ 1 \in DOMAIN marks /\ Len(marks) \in Nat /\ left \in Nat /\ DOMAIN marks = 1..Len(marks)
      /\ first.position \in 0..RingSize /\ first.chunks \in 0..Len(live) /\ Len(live) \in Nat
      /\ DOMAIN live = 1..Len(live)
      /\ \A k \in DOMAIN marks : /\ marks[k] \in RecordedMarks(Len(live))
                                 /\ marks[k].position \in 0..RingSize /\ marks[k].chunks \in 0..Len(live)
                                 /\ first.chunks <= marks[k].chunks
      /\ Head(marks) = first
  <2>1. marks # <<>> /\ Head(marks) = marks[1] /\ Len(marks) \in Nat /\ DOMAIN marks = 1..Len(marks)
    BY <1>1, SeqFacts DEF FreeTo
  <2>2. 1 \in DOMAIN marks /\ Len(marks) > 0
    BY <1>1, <2>1
  <2>3. \A m \in RecordedMarks(Len(live)) : m.position \in 0..RingSize /\ m.chunks \in 0..Len(live)
    BY DEF RecordedMarks
  <2>4. \A k \in DOMAIN marks : marks[k] \in RecordedMarks(Len(live))
    BY <1>1, SeqFacts
  <2>5. \A k \in DOMAIN marks : 1 < k => marks[1].chunks <= marks[k].chunks
    BY <2>2 DEF PlacedInv, MarksInOrder
  <2>6. Len(live) \in Nat /\ DOMAIN live = 1..Len(live)
    BY <1>1, SeqFacts
  <2> QED
    BY <2>1, <2>2, <2>3, <2>4, <2>5, <2>6
<1>3. ring' = [ring EXCEPT !.out_pos = IF first.position = ring.wrap_size THEN 0 ELSE first.position]
  BY <1>1, <1>2 DEF FreeTo, free_to
<1>4. /\ ring' \in Rings({RingSize})
      /\ ring'.in_pos = ring.in_pos /\ ring'.wrap_size = ring.wrap_size
      /\ ring'.out_pos = IF first.position = ring.wrap_size THEN 0 ELSE first.position
  BY <1>1, <1>2, <1>3 DEF Rings
<1>5. /\ live' \in Seq(PlacedChunks)
      /\ Len(live') = Len(live) - first.chunks
      /\ DOMAIN live' = 1..Len(live')
      /\ \A i \in DOMAIN live : live[i].first \in 0..RingSize /\ live[i].end \in 0..RingSize
      /\ \A i \in DOMAIN live' : live'[i] = live[i + first.chunks] /\ i + first.chunks \in DOMAIN live
  <2>1. live' = SubSeq(live, first.chunks + 1, Len(live))
    BY <1>2 DEF FreeTo
  <2>2. \A c \in PlacedChunks : c.first \in 0..RingSize /\ c.end \in 0..RingSize
    BY DEF PlacedChunks
  <2> HIDE DEF first
  <2> QED
    BY <1>1, <1>2, <2>1, <2>2, RestFacts, SeqFacts
<1>6. /\ DOMAIN marks' = 1..left
      /\ marks' = [k \in 1..left |-> marks'[k]]
      /\ \A k \in 1..left : /\ k + 1 \in DOMAIN marks
                            /\ marks'[k].position = marks[k + 1].position
                            /\ marks'[k].chunks = marks[k + 1].chunks - first.chunks
                            /\ marks'[k] \in RecordedMarks(Len(live'))
  <2>1. marks' = [k \in 1..left |-> [marks[k + 1] EXCEPT !.chunks = @ - first.chunks]]
    BY <1>2 DEF FreeTo
  <2> HIDE DEF first
  <2>2. ASSUME NEW k \in 1..left
        PROVE  /\ k + 1 \in DOMAIN marks
               /\ [marks[k + 1] EXCEPT !.chunks = @ - first.chunks].position = marks[k + 1].position
               /\ [marks[k + 1] EXCEPT !.chunks = @ - first.chunks].chunks = marks[k + 1].chunks - first.chunks
               /\ [marks[k + 1] EXCEPT !.chunks = @ - first.chunks] \in RecordedMarks(Len(live'))
    <3>1. k + 1 \in DOMAIN marks
      BY <1>2
    <3> DEFINE m == marks[k + 1]
    <3>2. m \in RecordedMarks(Len(live)) /\ first.chunks <= m.chunks
      BY <1>2, <3>1
    <3> HIDE DEF m
    <3>3. /\ [m EXCEPT !.chunks = @ - first.chunks].position = m.position
          /\ [m EXCEPT !.chunks = @ - first.chunks].chunks = m.chunks - first.chunks
          /\ [m EXCEPT !.chunks = @ - first.chunks] \in RecordedMarks(Len(live'))
      BY <1>2, <1>5, <3>2 DEF RecordedMarks
    <3> QED
      BY <3>1, <3>3 DEF m
  <2> QED
    BY <2>1, <2>2
<1> HIDE DEF first, left
<1>7. PlacerTypeOK'
  <2>1. marks' \in Seq(RecordedMarks(Len(live')))
    BY <1>2, <1>6, SeqOver
  <2> QED
    BY <1>4, <1>5, <2>1 DEF PlacerTypeOK
<1>8. CASE Passed(1)
  <2>1. ring.out_pos = 0 /\ first.position = ring.wrap_size /\ ring' = ring
    BY <1>1, <1>2, <1>3, <1>8 DEF Passed, first, Rings
  <2>2. LiveChunksInUsedSpace'
    BY <1>5, <1>2, <2>1 DEF PlacedInv, LiveChunksInUsedSpace, Used, Wrapped
  <2>5. LiveChunksInOrder'
    <3> SUFFICES ASSUME NEW i \in DOMAIN live', NEW j \in DOMAIN live', i < j
                 PROVE  Follows(ring', live'[i].end, live'[j].first)
      BY DEF LiveChunksInOrder
    <3>1. Follows(ring, live[i + first.chunks].end, live[j + first.chunks].first)
      BY <1>2, <1>5 DEF PlacedInv, LiveChunksInOrder
    <3> QED
      BY <1>5, <2>1, <3>1 DEF Follows
  <2>3. \A k \in 1..left : Passed(k + 1) => Passed(k)'
    BY <1>2, <1>6, <2>1 DEF Passed
  <2>4. MarksInOrder'
    <3>1. ASSUME NEW k \in 1..left, ~Passed(k)'
          PROVE  /\ Used(ring', marks'[k].position, marks'[k].position)
                 /\ \A i \in DOMAIN live' : i > marks'[k].chunks => Follows(ring', marks'[k].position, live'[i].first)
      <4>1. ~Passed(k + 1) /\ k + 1 \in DOMAIN marks
        BY <1>6, <2>3, <3>1
      <4>2. Used(ring, marks[k + 1].position, marks[k + 1].position)
        BY <4>1 DEF PlacedInv, MarksInOrder
      <4>3. ASSUME NEW i \in DOMAIN live', i > marks'[k].chunks
            PROVE  Follows(ring', marks'[k].position, live'[i].first)
        <5>1. i + first.chunks \in DOMAIN live /\ i + first.chunks > marks[k + 1].chunks
          BY <1>2, <1>5, <1>6, <4>1, <4>3
        <5>2. Follows(ring, marks[k + 1].position, live[i + first.chunks].first)
          BY <4>1, <5>1 DEF PlacedInv, MarksInOrder
        <5> QED
          BY <1>5, <1>6, <2>1, <5>2 DEF Follows
      <4>4. Used(ring', marks'[k].position, marks'[k].position)
        BY <1>6, <2>1, <4>2 DEF Used, Wrapped
      <4> QED
        BY <4>3, <4>4
    <3>2. ASSUME NEW k \in 1..left, NEW l \in 1..left, k < l
          PROVE  /\ Passed(k)' \/ Follows(ring', marks'[k].position, marks'[l].position)
                 /\ marks'[k].chunks <= marks'[l].chunks
      <4>1. /\ k + 1 \in DOMAIN marks /\ l + 1 \in DOMAIN marks /\ k + 1 < l + 1
            /\ Passed(k + 1) => Passed(k)'
        BY <1>6, <2>3, <3>2
      <4>2. /\ Passed(k + 1) \/ Follows(ring, marks[k + 1].position, marks[l + 1].position)
            /\ marks[k + 1].chunks <= marks[l + 1].chunks
        BY <4>1 DEF PlacedInv, MarksInOrder
      <4>3. marks'[k].chunks <= marks'[l].chunks
        BY <1>2, <1>6, <4>1, <4>2
      <4>4. Follows(ring, marks[k + 1].position, marks[l + 1].position) => Follows(ring', marks'[k].position, marks'[l].position)
        BY <1>6, <2>1 DEF Follows
      <4> QED
        BY <4>1, <4>2, <4>3, <4>4
    <3> QED
      BY <1>6, <3>1, <3>2 DEF MarksInOrder
  <2> QED
    BY <1>7, <2>2, <2>5, <2>4 DEF PlacedInv
<1>9. CASE ~Passed(1)
  <2>1. \A k \in DOMAIN marks : ~Passed(k)
    BY <1>2, <1>9 DEF Passed
  <2>2. /\ Used(ring, first.position, first.position)
        /\ \A i \in DOMAIN live : i > first.chunks => Follows(ring, first.position, live[i].first)
        /\ \A k \in 1..left : Follows(ring, first.position, marks[k + 1].position)
    BY <1>2, <1>6, <2>1 DEF PlacedInv, MarksInOrder, first, left
  <2>3. LiveChunksInUsedSpace'
    <3>1. Wrapped(ring) => ring.out_pos <= ring.wrap_size
      BY DEF PlacedInv, LiveChunksInUsedSpace
    <3>2. Wrapped(ring') => ring'.out_pos <= ring'.wrap_size
      BY <1>1, <1>2, <1>4, <2>2, <3>1 DEF Used, Wrapped
    <3>3. ASSUME NEW i \in DOMAIN live'
          PROVE  live'[i].first < live'[i].end /\ Used(ring', live'[i].first, live'[i].end)
      <4> DEFINE c == live[i + first.chunks]
      <4>1. /\ i + first.chunks \in DOMAIN live /\ i + first.chunks > first.chunks /\ live'[i] = c
            /\ c.first \in 0..RingSize /\ c.end \in 0..RingSize
        BY <1>2, <1>5
      <4>2. c.first < c.end /\ Used(ring, c.first, c.end) /\ Follows(ring, first.position, c.first)
        BY <2>2, <4>1 DEF PlacedInv, LiveChunksInUsedSpace
      <4> HIDE DEF c
      <4>3. Used(ring', c.first, c.end)
        BY <1>1, <1>2, <1>4, <2>2, <3>1, <4>1, <4>2 DEF Used, Wrapped, Follows
      <4> QED
        BY <4>1, <4>2, <4>3
    <3> QED
      BY <3>2, <3>3 DEF LiveChunksInUsedSpace
  <2>4. LiveChunksInOrder'
    <3> SUFFICES ASSUME NEW i \in DOMAIN live', NEW j \in DOMAIN live', i < j
                 PROVE  Follows(ring', live'[i].end, live'[j].first)
      BY DEF LiveChunksInOrder
    <3>1. Follows(ring, live[i + first.chunks].end, live[j + first.chunks].first)
      BY <1>2, <1>5 DEF PlacedInv, LiveChunksInOrder
    <3> QED
      BY <1>4, <1>5, <3>1 DEF Follows
  <2>5. ASSUME NEW k \in 1..left
        PROVE  \/ Passed(k)'
               \/ /\ Used(ring', marks'[k].position, marks'[k].position)
                  /\ \A i \in DOMAIN live' : i > marks'[k].chunks => Follows(ring', marks'[k].position, live'[i].first)
    <3> DEFINE m == marks[k + 1]
    <3>1. /\ k + 1 \in DOMAIN marks /\ m.position \in 0..RingSize /\ Used(ring, m.position, m.position)
          /\ marks'[k].position = m.position /\ Follows(ring, first.position, m.position)
          /\ Wrapped(ring) => ring.out_pos <= ring.wrap_size
      BY <1>2, <1>6, <2>1, <2>2 DEF PlacedInv, MarksInOrder, LiveChunksInUsedSpace
    <3>2. \A i \in DOMAIN live' : i > marks'[k].chunks => Follows(ring', m.position, live'[i].first)
      <4> SUFFICES ASSUME NEW i \in DOMAIN live', i > marks'[k].chunks
                   PROVE  Follows(ring', m.position, live'[i].first)
        OBVIOUS
      <4>1. i + first.chunks \in DOMAIN live /\ i + first.chunks > marks[k + 1].chunks
        BY <1>2, <1>5, <1>6, <3>1
      <4>2. Follows(ring, m.position, live[i + first.chunks].first)
        BY <2>1, <3>1, <4>1 DEF PlacedInv, MarksInOrder
      <4> QED
        BY <1>4, <1>5, <4>2 DEF Follows
    <3> HIDE DEF m
    <3>3. CASE Used(ring', m.position, m.position)
      BY <3>1, <3>2, <3>3
    <3>4. CASE ~Used(ring', m.position, m.position)
      \* Only the end of what lay before the wrap is outside now: its position, and first.position, is wrap_size_.
      <4>1. ring'.out_pos = 0 /\ m.position = ring.wrap_size /\ first.position = ring.wrap_size /\ Wrapped(ring)
        BY <1>1, <1>2, <1>4, <2>2, <3>1, <3>4 DEF Used, Wrapped, Follows
      <4>2. ASSUME NEW l \in 1..k
            PROVE  marks'[l].position = ring'.wrap_size
        <5>1. l \in 1..left /\ l + 1 \in DOMAIN marks /\ marks'[l].position = marks[l + 1].position
          BY <1>2, <1>6
        <5>2. /\ Used(ring, marks[l + 1].position, marks[l + 1].position) /\ marks[l + 1].position \in 0..RingSize
              /\ l = k \/ Follows(ring, marks[l + 1].position, m.position)
              /\ Follows(ring, first.position, marks[l + 1].position)
          BY <1>2, <2>1, <2>2, <3>1, <5>1 DEF PlacedInv, MarksInOrder, m
        <5> QED
          BY <1>1, <1>2, <1>4, <2>2, <3>1, <4>1, <5>1, <5>2 DEF Used, Wrapped, Follows, m
      <4> QED
        BY <4>1, <4>2 DEF Passed
    <3> QED
      BY <3>3, <3>4
  <2>6. ASSUME NEW k \in 1..left, NEW l \in 1..left, k < l
        PROVE  /\ Follows(ring', marks'[k].position, marks'[l].position)
               /\ marks'[k].chunks <= marks'[l].chunks
    <3>1. k + 1 \in DOMAIN marks /\ l + 1 \in DOMAIN marks /\ k + 1 < l + 1
      BY <1>6, <2>6
    <3>2. /\ Follows(ring, marks[k + 1].position, marks[l + 1].position)
          /\ marks[k + 1].chunks <= marks[l + 1].chunks
      BY <2>1, <3>1 DEF PlacedInv, MarksInOrder
    <3> QED
      BY <1>2, <1>4, <1>6, <3>1, <3>2 DEF Follows
  <2>7. MarksInOrder'
    <3>1. DOMAIN marks' = 1..left
      BY <1>6
    <3> QED
      BY <2>5, <2>6, <3>1 DEF MarksInOrder
  <2> QED
    BY <1>7, <2>3, <2>4, <2>7 DEF PlacedInv
<1> QED
  BY <1>8, <1>9

\* Steps that keep the variables keep the invariant.
LEMMA PlacerStutter ==
  ASSUME PlacedInv, UNCHANGED placerVars
  PROVE  PlacedInv'
BY DEF PlacedInv, PlacerTypeOK, LiveChunksInUsedSpace, LiveChunksInOrder, MarksInOrder,
       Used, Wrapped, Follows, Passed, placerVars

\* The invariant holds for any size of the buffer, any sizes and alignments of chunks, and any number of
\* recorded positions, until a chunk is placed where the remaining space underflows.
THEOREM PlacerInvariance == PlacerSpec => []PlacerInv
<1>1. PlacerInit => PlacerInv
  <2> SUFFICES ASSUME PlacerInit PROVE PlacedInv
    BY DEF PlacerInv
  <2>1. PlacerTypeOK
    BY PlacerAssumption DEF PlacerInit, NewRing, PlacerTypeOK, Rings
  <2>2. LiveChunksInUsedSpace /\ LiveChunksInOrder /\ MarksInOrder
    BY PlacerAssumption DEF PlacerInit, NewRing, LiveChunksInUsedSpace, LiveChunksInOrder, MarksInOrder, Wrapped
  <2> QED
    BY <2>1, <2>2 DEF PlacedInv
<1>2. PlacerInv /\ [PlacerNext]_placerVars => PlacerInv'
  <2> SUFFICES ASSUME PlacerInv, [PlacerNext]_placerVars, ~underflowed'
               PROVE  PlacedInv'
    BY DEF PlacerInv
  <2>1. PlacedInv
    BY DEF PlacerInv, PlacerNext, PlaceChunk, RecordPosition, FreeTo, placerVars
  <2>2. ASSUME NEW size \in ChunkSizes, NEW alignment \in ChunkAlignments, PlaceChunk(size, alignment)
        PROVE  PlacedInv'
    <3>1. ~Underflows(ring, size, alignment)
      BY <2>2 DEF PlaceChunk
    <3> QED
      BY <2>1, <2>2, <3>1, PlaceChunkSafe
  <2> QED
    BY <2>1, <2>2, RecordPositionSafe, FreeToSafe, PlacerStutter DEF PlacerNext
<1> QED
  BY <1>1, <1>2, PTL DEF PlacerSpec

\* place_chunk never hands out space that holds a chunk which is not freed, however often the ring
\* wraps and whatever position the client frees to next, as long as no padded chunk underflowed.
THEOREM PlacerCorrect == PlacerSpec => []PlacerSafe
<1>1. PlacedInv => LiveChunksIntact
  <2> SUFFICES ASSUME PlacedInv PROVE LiveChunksIntact
    OBVIOUS
  <2>1. /\ RingSize \in Nat /\ ring.in_pos \in 0..RingSize /\ ring.out_pos \in 0..RingSize
        /\ ring.wrap_size \in 0..RingSize
        /\ DOMAIN live = 1..Len(live) /\ Len(live) \in Nat
        /\ \A i \in DOMAIN live : live[i] \in PlacedChunks
    BY PlacerAssumption, SeqFacts DEF PlacedInv, PlacerTypeOK, Rings
  <2>2. \A i \in DOMAIN live : live[i].first \in 0..RingSize /\ live[i].end \in 0..RingSize
    BY <2>1 DEF PlacedChunks
  <2>3. ASSUME NEW i \in DOMAIN live, NEW j \in DOMAIN live, i < j
        PROVE  live[i].end <= live[j].first \/ live[j].end <= live[i].first
    <3>1. /\ live[i].first < live[i].end /\ Used(ring, live[i].first, live[i].end)
          /\ live[j].first < live[j].end /\ Used(ring, live[j].first, live[j].end)
          /\ Follows(ring, live[i].end, live[j].first)
      BY <2>3 DEF PlacedInv, LiveChunksInUsedSpace, LiveChunksInOrder
    <3> QED
      BY <2>1, <2>2, <3>1 DEF Used, Wrapped, Follows
  <2> QED
    BY <2>2, <2>3 DEF LiveChunksIntact
<1>2. PlacerInv => PlacerSafe
  BY <1>1 DEF PlacerInv, PlacerSafe
<1> QED
  BY <1>2, PlacerInvariance, PTL

=============================================================================
