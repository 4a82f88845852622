---------------------------- MODULE GlfwWindows ----------------------------
(***************************************************************************)
(* glfw::instance with the callbacks that all instances share, and         *)
(* glfw::window with those of one window.  The library itself is external: *)
(* it is initialised or not, has native windows and reports events, errors *)
(* on any thread, everything else on the main thread.                      *)
(***************************************************************************)
EXTENDS Integers, Sequences, FiniteSets, SequencesExt

CONSTANTS
  GlfwInstances,   \* instance objects of the program
  GlfwWindowNames, \* window objects; each brings an instance of its own
  GlfwThreads,     \* threads that register callbacks and on which errors may be reported
  MaxCallbackIds   \* bound: callbacks that are ever registered

ASSUME GlfwAssumption ==
  /\ GlfwInstances \cap GlfwWindowNames = {}
  /\ MaxCallbackIds \in Nat

VARIABLES
  gwInstances,    \* the live instances: the ids of the callbacks each has registered
  gwRefCount,     \* init_refcount
  gwInitialised,  \* what the library was told
  gwFunctions,    \* callback_functions: the current version, ids in order of registration
  gwNextId,       \* next_callback_id
  gwPending,      \* per thread: an id taken and not yet in the list, and for which instance
  gwRemoving,     \* per thread: an id that is gone from the list and not yet from the ids of its instance
  gwUndefined,    \* whether a callback was removed that was not there
  gwDispatch,     \* per thread: the version it walks, what it has called of it, what was added or removed meanwhile
  gwWindows,      \* the window objects: how far made or destroyed, the events with a callback
  gwNatives,      \* native windows: those events that lead to the callbacks of the object
  gwReported      \* the last event: of what kind, whether there was a callback for it, whether one is called

gwVars == <<gwInstances, gwRefCount, gwInitialised, gwFunctions, gwNextId, gwPending, gwRemoving, gwUndefined, gwDispatch, gwWindows,
            gwNatives, gwReported>>

\* Events that the library reports for a window, and files dropped on it.
WindowEvents == {"key", "drop"}
NothingPending == [id |-> 0]
NoDispatch == [on |-> FALSE]

GwInit ==
  /\ gwInstances = [i \in {} |-> {}]
  /\ gwRefCount = 0
  /\ gwInitialised = FALSE
  /\ gwFunctions = <<>>
  /\ gwNextId = 1
  /\ gwPending = [t \in GlfwThreads |-> NothingPending]
  /\ gwRemoving = [t \in GlfwThreads |-> NothingPending]
  /\ gwUndefined = FALSE
  /\ gwDispatch = [t \in GlfwThreads |-> NoDispatch]
  /\ gwWindows = [w \in {} |-> {}]
  /\ gwNatives = [w \in {} |-> {}]
  /\ gwReported = [kind |-> "none", set |-> FALSE, called |-> FALSE]

InstanceAlive(i) == i \in DOMAIN gwInstances
\* An instance is used by a thread that registers or removes a callback; the owner of an instance waits for such calls.
UnusedInstances(i) ==
  \A t \in GlfwThreads : /\ gwPending[t].id # 0 => gwPending[t].with # i
                         /\ gwRemoving[t].id # 0 => gwRemoving[t].with # i

-----------------------------------------------------------------------------
(* Instances                                                               *)

\* The first one initialises the library and sets its callbacks, those for errors and monitors.
ConstructInstance(i) ==
  /\ ~InstanceAlive(i)
  /\ gwInstances' = [k \in DOMAIN gwInstances \cup {i} |-> IF k = i THEN {} ELSE gwInstances[k]]
  /\ gwRefCount' = gwRefCount + 1
  /\ gwInitialised' = (gwInitialised \/ gwRefCount = 0)

\* The last one terminates it, which destroys the native windows that are left.
ReleaseLibrary ==
  /\ gwRefCount' = gwRefCount - 1
  /\ gwInitialised' = (gwInitialised /\ gwRefCount' # 0)

\* remove_if and erase in a new version of the list.
WithoutIds(list, ids) ==
  LET kept[k \in 0 .. Len(list)] ==
        IF k = 0 THEN <<>> ELSE IF list[k] \in ids THEN kept[k - 1] ELSE Append(kept[k - 1], list[k])
  IN kept[Len(list)]

\* What a dispatch under way must know for its promise: which callbacks came or went since it began.
Touch(ids) ==
  gwDispatch' = [t \in GlfwThreads |->
                   IF gwDispatch[t].on THEN [gwDispatch[t] EXCEPT !.touched = @ \cup ids] ELSE gwDispatch[t]]

\* The body of the destructor releases the library, then the members remove their callbacks from the shared list.
DestroyInstanceObject(i) ==
  /\ InstanceAlive(i) /\ UnusedInstances(i)
  /\ ReleaseLibrary
  /\ gwFunctions' = WithoutIds(gwFunctions, gwInstances[i])
  /\ Touch(gwInstances[i])
  /\ gwInstances' = [k \in DOMAIN gwInstances \ {i} |-> gwInstances[k]]

CreateInstance(i) ==
  /\ i \in GlfwInstances /\ ConstructInstance(i)
  /\ UNCHANGED <<gwFunctions, gwNextId, gwPending, gwRemoving, gwUndefined, gwDispatch, gwWindows, gwNatives, gwReported>>

\* Windows must be gone before the library is.
DestroyInstance(i) ==
  /\ i \in GlfwInstances /\ DestroyInstanceObject(i)
  /\ UNCHANGED <<gwNextId, gwPending, gwRemoving, gwUndefined, gwWindows, gwNatives, gwReported>>

\* add_callback: the id is taken and noted with the instance, then a transaction publishes the function.
TakeCallbackId(t, i) ==
  /\ InstanceAlive(i) /\ gwPending[t].id = 0 /\ gwNextId <= MaxCallbackIds
  /\ gwPending' = [gwPending EXCEPT ![t] = [id |-> gwNextId, with |-> i]]
  /\ gwNextId' = gwNextId + 1
  /\ gwInstances' = [gwInstances EXCEPT ![i] = @ \cup {gwNextId}]
  /\ UNCHANGED <<gwRefCount, gwInitialised, gwFunctions, gwDispatch, gwWindows, gwNatives, gwReported, gwRemoving, gwUndefined>>

PublishCallback(t) ==
  /\ gwPending[t].id # 0
  /\ gwFunctions' = Append(gwFunctions, gwPending[t].id)
  /\ Touch({gwPending[t].id})
  /\ gwPending' = [gwPending EXCEPT ![t] = NothingPending]
  /\ UNCHANGED <<gwInstances, gwRefCount, gwInitialised, gwNextId, gwWindows, gwNatives, gwReported, gwRemoving, gwUndefined>>

\* remove_callback: a transaction takes the function out of the list, then the id is taken from those of the instance,
\* under a mutex of its own.  Each erases the one element that it looks for, so an id that is not there any more, not
\* there yet or of another instance erases the end, which is undefined.
RemoveFunction(t, i, id) ==
  /\ InstanceAlive(i) /\ id < gwNextId /\ gwRemoving[t].id = 0 /\ id \in ToSet(gwFunctions)
  /\ gwFunctions' = WithoutIds(gwFunctions, {id})
  /\ Touch({id})
  /\ gwRemoving' = [gwRemoving EXCEPT ![t] = [id |-> id, with |-> i]]
  /\ UNCHANGED <<gwInstances, gwRefCount, gwInitialised, gwNextId, gwPending, gwUndefined, gwWindows, gwNatives, gwReported>>

RemoveId(t) ==
  /\ gwRemoving[t].id # 0 /\ gwRemoving[t].id \in gwInstances[gwRemoving[t].with]
  /\ gwInstances' = [gwInstances EXCEPT ![gwRemoving[t].with] = @ \ {gwRemoving[t].id}]
  /\ gwRemoving' = [gwRemoving EXCEPT ![t] = NothingPending]
  /\ UNCHANGED <<gwRefCount, gwInitialised, gwFunctions, gwNextId, gwPending, gwUndefined, gwDispatch, gwWindows, gwNatives, gwReported>>

EraseEnd(t) ==
  /\ \/ gwRemoving[t].id = 0 /\ \E i \in GlfwInstances, id \in 1 .. gwNextId - 1 : InstanceAlive(i) /\ id \notin ToSet(gwFunctions)
     \/ gwRemoving[t].id # 0 /\ gwRemoving[t].id \notin gwInstances[gwRemoving[t].with]
  /\ gwUndefined' = TRUE
  /\ UNCHANGED <<gwInstances, gwRefCount, gwInitialised, gwFunctions, gwNextId, gwPending, gwRemoving, gwDispatch, gwWindows, gwNatives,
                 gwReported>>

\* callback_s: the version of the moment is kept and walked; the functions themselves may do any of the above.
BeginDispatch(t) ==
  /\ gwInitialised /\ ~gwDispatch[t].on
  /\ gwDispatch' = [gwDispatch EXCEPT ![t] = [on |-> TRUE, left |-> gwFunctions, called |-> <<>>, began |-> gwFunctions, touched |-> {}]]
  /\ UNCHANGED <<gwInstances, gwRefCount, gwInitialised, gwFunctions, gwNextId, gwPending, gwRemoving, gwUndefined, gwWindows, gwNatives, gwReported>>

CallNext(t) ==
  /\ gwDispatch[t].on /\ gwDispatch[t].left # <<>>
  /\ gwDispatch' = [gwDispatch EXCEPT ![t].called = Append(@, Head(gwDispatch[t].left)), ![t].left = Tail(@)]
  /\ UNCHANGED <<gwInstances, gwRefCount, gwInitialised, gwFunctions, gwNextId, gwPending, gwRemoving, gwUndefined, gwWindows, gwNatives, gwReported>>

EndDispatch(t) ==
  /\ gwDispatch[t].on /\ gwDispatch[t].left = <<>>
  /\ gwDispatch' = [gwDispatch EXCEPT ![t] = NoDispatch]
  /\ UNCHANGED <<gwInstances, gwRefCount, gwInitialised, gwFunctions, gwNextId, gwPending, gwRemoving, gwUndefined, gwWindows, gwNatives, gwReported>>

-----------------------------------------------------------------------------
(* Windows                                                                 *)

\* The members are made in order, the instance first; then the native window, which may fail.
BeginWindow(w) ==
  /\ w \notin DOMAIN gwWindows /\ ConstructInstance(w)
  /\ gwWindows' = [k \in DOMAIN gwWindows \cup {w} |-> IF k = w THEN [stage |-> "made", callbacks |-> {}] ELSE gwWindows[k]]
  /\ UNCHANGED <<gwFunctions, gwNextId, gwPending, gwRemoving, gwUndefined, gwDispatch, gwNatives, gwReported>>

\* setup_callbacks names every event but that of dropped files.
RegisteredEvents == WindowEvents \ {"drop"}

OpenWindow(w) ==
  /\ w \in DOMAIN gwWindows /\ gwWindows[w].stage = "made"
  /\ gwWindows' = [gwWindows EXCEPT ![w].stage = "open"]
  /\ gwNatives' = [k \in DOMAIN gwNatives \cup {w} |-> IF k = w THEN RegisteredEvents ELSE gwNatives[k]]
  /\ UNCHANGED <<gwInstances, gwRefCount, gwInitialised, gwFunctions, gwNextId, gwPending, gwRemoving, gwUndefined, gwDispatch, gwReported>>

\* Without a native window the constructor throws, and the members go.
WindowFails(w) ==
  /\ w \in DOMAIN gwWindows /\ gwWindows[w].stage = "made"
  /\ gwWindows' = [k \in DOMAIN gwWindows \ {w} |-> gwWindows[k]]
  /\ DestroyInstanceObject(w)
  /\ UNCHANGED <<gwNextId, gwPending, gwRemoving, gwUndefined, gwNatives, gwReported>>

SetWindowCallback(w, event) ==
  /\ w \in DOMAIN gwWindows /\ gwWindows[w].stage = "open"
  /\ gwWindows' = [gwWindows EXCEPT ![w].callbacks = @ \cup {event}]
  /\ UNCHANGED <<gwInstances, gwRefCount, gwInitialised, gwFunctions, gwNextId, gwPending, gwRemoving, gwUndefined, gwDispatch, gwNatives, gwReported>>

\* The members are destroyed in reverse, on the main thread: the native window while its library is still there.
CloseNative(w) ==
  /\ w \in DOMAIN gwWindows /\ gwWindows[w].stage = "open"
  /\ gwWindows' = [gwWindows EXCEPT ![w] = [stage |-> "closed", callbacks |-> {}]]
  /\ gwNatives' = [k \in DOMAIN gwNatives \ {w} |-> gwNatives[k]]
  /\ UNCHANGED <<gwInstances, gwRefCount, gwInitialised, gwFunctions, gwNextId, gwPending, gwRemoving, gwUndefined, gwDispatch, gwReported>>

CloseInstance(w) ==
  /\ w \in DOMAIN gwWindows /\ gwWindows[w].stage = "closed"
  /\ gwWindows' = [k \in DOMAIN gwWindows \ {w} |-> gwWindows[k]]
  /\ DestroyInstanceObject(w)
  /\ UNCHANGED <<gwNextId, gwPending, gwRemoving, gwUndefined, gwNatives, gwReported>>

\* poll_events: the native window reports to the function that was set for the event, and that to the object, if it
\* has a callback for it.  The main thread is not inside the life of a window then.
WindowEvent(w, event) ==
  /\ w \in DOMAIN gwNatives /\ \A x \in DOMAIN gwWindows : gwWindows[x].stage = "open"
  /\ gwReported' = [kind |-> event, set |-> event \in gwWindows[w].callbacks,
                    called |-> event \in gwNatives[w] /\ event \in gwWindows[w].callbacks]
  /\ UNCHANGED <<gwInstances, gwRefCount, gwInitialised, gwFunctions, gwNextId, gwPending, gwRemoving, gwUndefined, gwDispatch, gwWindows, gwNatives>>

GwOperation ==
  \/ \E i \in GlfwInstances : CreateInstance(i) \/ DestroyInstance(i)
  \/ \E t \in GlfwThreads :
       \/ \E i \in GlfwInstances : TakeCallbackId(t, i) \/ \E id \in 1 .. MaxCallbackIds : RemoveFunction(t, i, id)
       \/ PublishCallback(t) \/ RemoveId(t) \/ EraseEnd(t)
       \/ BeginDispatch(t) \/ CallNext(t) \/ EndDispatch(t)
  \/ \E w \in GlfwWindowNames :
       \/ BeginWindow(w) \/ OpenWindow(w) \/ WindowFails(w) \/ CloseNative(w) \/ CloseInstance(w)
       \/ \E e \in WindowEvents : SetWindowCallback(w, e) \/ WindowEvent(w, e)

\* Nothing is said of what follows an undefined removal.
GwNext == ~gwUndefined /\ GwOperation

GwSpec == GwInit /\ [][GwNext]_gwVars

-----------------------------------------------------------------------------
(* Names                                                                   *)

\* to_string and its inverse, with the first of several names of a value (a flat_map keeps the first entry of a key).
NameOf(entries, value) ==
  LET named == {k \in DOMAIN entries : entries[k][1] = value} IN
    IF named = {} THEN "unknown" ELSE entries[CHOOSE k \in named : \A j \in named : k <= j][2]
ValueOf(entries, name, unknown) ==
  LET kept == {k \in DOMAIN entries : entries[k][2] = name /\ NameOf(entries, entries[k][1]) = name} IN
    IF kept = {} THEN unknown ELSE entries[CHOOSE k \in kept : TRUE][1]

\* The mouse buttons, as listed: three of them under a second name.
MouseButtons == <<<<0, "1">>, <<1, "2">>, <<2, "3">>, <<3, "4">>, <<4, "5">>, <<5, "6">>, <<6, "7">>, <<7, "8">>,
                  <<0, "left">>, <<1, "right">>, <<2, "middle">>>>
KeysListed == <<<<65, "a">>, <<68, "d">>, <<83, "s">>, <<87, "w">>, <<340, "left_shift">>>>

-----------------------------------------------------------------------------
(* Properties                                                              *)

\* The library is there exactly while an instance is, whichever way instances and windows come and go, and a native
\* window is never left to a library that is gone.
LibraryLives ==
  /\ gwRefCount = Cardinality(DOMAIN gwInstances)
  /\ gwInitialised <=> DOMAIN gwInstances # {}
  /\ DOMAIN gwNatives # {} => gwInitialised

\* The shared list has the callbacks of the live instances, each once; only those under way are not in it yet, and only
\* those being removed are not in it any more.
CallbacksOwned ==
  /\ IsInjective(gwFunctions)
  /\ LET owned == UNION {gwInstances[i] : i \in DOMAIN gwInstances}
         underway == {gwPending[t].id : t \in GlfwThreads} \ {0}
         leaving == {gwRemoving[t].id : t \in GlfwThreads} \ {0}
     IN /\ ToSet(gwFunctions) = owned \ (underway \cup leaving)
        /\ \A i, j \in DOMAIN gwInstances : i # j => gwInstances[i] \cap gwInstances[j] = {}

\* A report calls each callback that was there when it began once, in the order of registration, and none that came
\* later; what is not called of it in the end is nothing, also of those removed meanwhile.
DispatchExact ==
  \A t \in GlfwThreads :
    LET d == gwDispatch[t] IN
      d.on => /\ IsInjective(d.called)
              /\ d.called \o d.left = d.began
              /\ ToSet(gwFunctions) \ d.touched = ToSet(d.began) \ d.touched

\* Every event of an open window is told to the callback that is set for it; but files that are dropped to none.
EventsReach == gwReported.kind # "drop" => gwReported.called = gwReported.set

\* A name that to_string gives means the same button and key again, so every name that counts has one.
NamesInverse ==
  /\ \A k \in DOMAIN MouseButtons : ValueOf(MouseButtons, NameOf(MouseButtons, MouseButtons[k][1]), -1) = MouseButtons[k][1]
  /\ \A k \in DOMAIN KeysListed : ValueOf(KeysListed, KeysListed[k][2], -1) = KeysListed[k][1]

\* All of this until a callback is removed that is not there.
WindowsSafe == LibraryLives /\ CallbacksOwned /\ DispatchExact /\ EventsReach /\ NamesInverse
=============================================================================
