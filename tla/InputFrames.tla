---------------------------- MODULE InputFrames ----------------------------
(***************************************************************************)
(* Input from frame to frame: window_system polls, input_system keeps the  *)
(* keys and the mouse of this frame and the last one and finds keys by     *)
(* names that the configuration may give a meaning, and the flyers of a    *)
(* first person state are processed in parallel with them.  Velocities are *)
(* numbers or not (a frame that took no time); of an orientation only the  *)
(* pitch is kept.  Beside them the movement patterns that actuators copy.  *)
(***************************************************************************)
EXTENDS GlfwWindows, GameStates, Integers, Sequences, FiniteSets

CONSTANTS
  Flyers,          \* first_person_flyer_component objects
  FlyerNames,      \* the key names of each, one per control
  InvertedFlyers,  \* those with an inverted y axis
  InputKeys,       \* keys a mapping knows
  ConfigValues,    \* what may be written into a variable: names of keys, or others
  CursorPlaces,    \* positions of the cursor
  ControlCount,    \* bound: how many of the six controls are looked at, in their order
  Actuators, PatternNames, MaxPatternVersions, MaxPatternCalls,  \* of actuators; the last two are bounds
  NotANumber, UnknownKey, NoVariable

ASSUME InputAssumption == CursorPlaces \subseteq Int /\ NotANumber \notin Int

VARIABLES
  inPhase,     \* "between" frames, "polled", "processing"
  inRunning,   \* engine::running_
  inDelta,     \* the time the last two frames took
  inCurrent, inLast,            \* pressed keys
  inMouse, inLastMouse,         \* mouse_state
  inCache,     \* key_name_cache
  inConfig,    \* the variables input.key.* that exist
  inTasks,     \* the task that processes each flyer
  inFlyers,    \* pitch, and the direction of the last move
  inAnswers,   \* what key_from_name_or_config has answered
  inStack,     \* the states entered, the last one active
  inCursorMode,
  inPolled     \* what was polled for the last two frames

inVars == <<inPhase, inRunning, inDelta, inCurrent, inLast, inMouse, inLastMouse, inCache, inConfig, inTasks, inFlyers,
            inAnswers, inStack, inCursorMode, inPolled>>

\* The controls in the order they are asked for: axis and sign.
Controls == SubSeq(<<<<"z", -1>>, <<"z", 1>>, <<"x", -1>>, <<"x", 1>>, <<"y", 1>>, <<"y", -1>>>>, 1, ControlCount)
Still == [x |-> 0, y |-> 0, z |-> 0]
IdleTask == [at |-> 0, stage |-> "idle", velocity |-> Still]
MouseAt(place) == [position |-> place, velocity |-> 0, acceleration |-> 0]

InInit ==
  /\ inPhase = "between"
  /\ inRunning = TRUE
  /\ inDelta = <<1, 1>>
  /\ inCurrent = {} /\ inLast = {}
  /\ \E p \in CursorPlaces :
       inMouse = MouseAt(p) /\ inLastMouse = MouseAt(p) /\ inPolled = <<[keys |-> {}, place |-> p], [keys |-> {}, place |-> p]>>
  /\ inCache = [n \in {} |-> UnknownKey]
  /\ inConfig = [v \in {} |-> UnknownKey]
  /\ inTasks = [f \in Flyers |-> IdleTask]
  /\ inFlyers = [f \in Flyers |-> [pitch |-> 0, moved |-> Still]]
  /\ inAnswers = {}
  /\ inStack = <<"first person">>
  /\ inCursorMode = "disabled"

-----------------------------------------------------------------------------
(* A frame                                                                 *)

\* Division of a difference of numbers by the time a frame took, 0 or 1.
Per(difference, delta) == IF delta = 0 THEN NotANumber ELSE difference
Difference(a, b) == IF NotANumber \in {a, b} THEN NotANumber ELSE a - b
PerTime(difference, delta) == IF difference = NotANumber THEN NotANumber ELSE Per(difference, delta)

\* preprocess of window_system: events are polled, and a window that should close stops the engine after this frame;
\* then that of input_system: the maps of keys are swapped and the current one is read anew, key by key.
Preprocess(delta, pressed, place, close) ==
  /\ inPhase = "between" /\ inRunning
  /\ inRunning' = ~close
  /\ inDelta' = <<delta, inDelta[1]>>
  /\ inLast' = inCurrent
  /\ inCurrent' = {k \in InputKeys : k \in pressed}
  /\ inLastMouse' = inMouse
  /\ LET velocity == Per(place - inMouse.position, delta) IN
       inMouse' = [position |-> place, velocity |-> velocity,
                   acceleration |-> PerTime(Difference(velocity, inMouse.velocity), delta)]
  /\ inPolled' = <<[keys |-> pressed, place |-> place], inPolled[1]>>
  /\ inPhase' = "polled"
  /\ UNCHANGED <<inCache, inConfig, inTasks, inFlyers, inAnswers, inStack, inCursorMode>>

\* process of first_person_input_state, for the active state.
WorthProcessing == inDelta[1] > 0

Process ==
  /\ inPhase = "polled"
  /\ IF inStack[Len(inStack)] = "first person" /\ WorthProcessing
     THEN /\ inPhase' = "processing"
          /\ inTasks' = [f \in Flyers |-> [at |-> 1, stage |-> "mouse", velocity |-> Still]]
     ELSE inPhase' = "between" /\ UNCHANGED inTasks
  /\ UNCHANGED <<inRunning, inDelta, inCurrent, inLast, inMouse, inLastMouse, inCache, inConfig, inFlyers, inAnswers, inStack, inCursorMode, inPolled>>

Task(f, stage) == inTasks[f].at > 0 /\ inTasks[f].stage = stage
FlyerStep == UNCHANGED <<inRunning, inDelta, inCurrent, inLast, inMouse, inLastMouse, inStack, inCursorMode, inPolled>>

\* process_mouse turns the entity, enforce_no_roll keeps its up vector from pointing down.
Pitched(pitch, velocity, inverted) ==
  IF NotANumber \in {pitch, velocity} THEN NotANumber
  ELSE LET turned == IF inverted THEN pitch + velocity ELSE pitch - velocity IN
         IF turned > 1 THEN 1 ELSE IF turned < -1 THEN -1 ELSE turned
ProcessMouse(f) ==
  /\ Task(f, "mouse")
  /\ inFlyers' = [inFlyers EXCEPT ![f].pitch = Pitched(@, inMouse.velocity, f \in InvertedFlyers)]
  /\ inTasks' = [inTasks EXCEPT ![f].stage = "ask"]
  /\ FlyerStep /\ UNCHANGED <<inPhase, inCache, inConfig, inAnswers>>

\* current_key_state with what the name means: the last control of an axis that is pressed has it.
Steer(task, key) ==
  [task EXCEPT !.at = @ + 1, !.stage = "ask",
               !.velocity[Controls[task.at][1]] = IF key \in inCurrent THEN Controls[task.at][2] ELSE @]
Answer(f, name, key) ==
  /\ inTasks' = [inTasks EXCEPT ![f] = Steer(@, key)]
  /\ inAnswers' = inAnswers \cup {<<name, key>>}

NameAsked(f) == FlyerNames[f][inTasks[f].at]

\* key_from_name_or_config looks into the cache with the lock shared, and lets go of it if the name is not there.
LookUpKey(f) ==
  /\ Task(f, "ask") /\ inTasks[f].at <= Len(Controls)
  /\ IF NameAsked(f) \in DOMAIN inCache THEN Answer(f, NameAsked(f), inCache[NameAsked(f)])
     ELSE inTasks' = [inTasks EXCEPT ![f].stage = "missed"] /\ UNCHANGED inAnswers
  /\ FlyerStep /\ UNCHANGED <<inPhase, inCache, inConfig, inFlyers>>

\* key_from_string
KeyFromString(value) == IF value \in InputKeys THEN value ELSE UnknownKey

\* With the lock held alone it looks again, and asks the configuration, which keeps the default of the first who asks.
ResolveKey(f) ==
  /\ Task(f, "missed")
  /\ LET name == NameAsked(f)
         value == IF name.variable = NoVariable THEN name.default
                  ELSE IF name.variable \in DOMAIN inConfig THEN inConfig[name.variable] ELSE name.default
         key == IF name \in DOMAIN inCache THEN inCache[name] ELSE KeyFromString(value)
     IN /\ inCache' = [n \in DOMAIN inCache \cup {name} |-> IF n = name THEN key ELSE inCache[n]]
        /\ inConfig' = IF name \in DOMAIN inCache \/ name.variable = NoVariable THEN inConfig
                       ELSE [v \in DOMAIN inConfig \cup {name.variable} |-> IF v = name.variable THEN value ELSE inConfig[v]]
        /\ Answer(f, name, key)
  /\ FlyerStep /\ UNCHANGED <<inPhase, inFlyers>>

\* process_keyboard moves the entity; the tasks are joined.
ProcessKeyboard(f) ==
  /\ Task(f, "ask") /\ inTasks[f].at > Len(Controls)
  /\ inFlyers' = [inFlyers EXCEPT ![f].moved = inTasks[f].velocity]
  /\ inTasks' = [inTasks EXCEPT ![f] = IdleTask]
  /\ inPhase' = IF \A g \in Flyers \ {f} : inTasks[g] = IdleTask THEN "between" ELSE inPhase
  /\ FlyerStep /\ UNCHANGED <<inCache, inConfig, inAnswers>>

\* Any thread may write a variable that exists; what was cached stays.
ConfigureKey(variable, value) ==
  /\ variable \in DOMAIN inConfig
  /\ inConfig' = [inConfig EXCEPT ![variable] = value]
  /\ UNCHANGED <<inPhase, inRunning, inDelta, inCurrent, inLast, inMouse, inLastMouse, inCache, inTasks, inFlyers, inAnswers, inStack, inCursorMode, inPolled>>

-----------------------------------------------------------------------------
(* States                                                                  *)

ModeOf(state) == IF state = "first person" THEN "disabled" ELSE "normal"

\* The constructor sets the mode of the cursor (another state is one that shows it).
EnterState(state) ==
  /\ inPhase = "between" /\ Len(inStack) < 2
  /\ inStack' = Append(inStack, state)
  /\ inCursorMode' = ModeOf(state)
  /\ UNCHANGED <<inPhase, inRunning, inDelta, inCurrent, inLast, inMouse, inLastMouse, inCache, inConfig, inTasks, inFlyers, inAnswers, inPolled>>

\* Nothing is restored by the destructor, but reenter of the state below sets its mode again.
LeaveState ==
  /\ inPhase = "between" /\ Len(inStack) = 2
  /\ inStack' = SubSeq(inStack, 1, 1)
  /\ inCursorMode' = ModeOf(inStack[1])
  /\ UNCHANGED <<inPhase, inRunning, inDelta, inCurrent, inLast, inMouse, inLastMouse, inCache, inConfig, inTasks, inFlyers, inAnswers, inPolled>>

InNext ==
  \/ \E delta \in {0, 1}, pressed \in SUBSET InputKeys, place \in CursorPlaces, close \in BOOLEAN : Preprocess(delta, pressed, place, close)
  \/ Process \/ LeaveState
  \/ \E f \in Flyers : ProcessMouse(f) \/ LookUpKey(f) \/ ResolveKey(f) \/ ProcessKeyboard(f)
  \/ \E v \in DOMAIN inConfig, value \in ConfigValues : ConfigureKey(v, value)
  \/ \E s \in {"first person", "menu"} : EnterState(s)

InSpec == InInit /\ [][InNext]_inVars

-----------------------------------------------------------------------------
(* The window that window_system opens                                     *)

\* The index of a monitor from the configuration, as a size_t: a negative one is as good as one that is too large.
MonitorIndex(value, monitors) == IF value < 0 \/ value >= monitors THEN monitors - 1 ELSE value

\* That of a video mode, from 0: the one in use by default, or the last one if it is not listed.
DefaultMode(modes, current) ==
  LET same == {k \in DOMAIN modes : modes[k] = current} IN
    (IF same = {} THEN Len(modes) ELSE CHOOSE k \in same : \A j \in same : k <= j) - 1
VideoModeIndex(value, modes, current) == IF value < 0 \/ value >= Len(modes) THEN DefaultMode(modes, current) ELSE value

-----------------------------------------------------------------------------
(* Movement patterns                                                       *)

VARIABLES
  acPatterns,    \* actuator_system: the function object of each name: its version and its state
  acVersion,     \* versions given so far
  acComponents   \* of each actuator its name, its copy, and what was registered when it was set

acVars == <<acPatterns, acVersion, acComponents>>

NoPattern == [version |-> 0, calls |-> 0]
NoActuator == [name |-> "", pattern |-> NoPattern, set |-> 0]

AcInit ==
  /\ acPatterns = [n \in {} |-> NoPattern]
  /\ acVersion = 0
  /\ acComponents = [c \in Actuators |-> NoActuator]

SetMovementPattern(n) ==
  /\ acVersion < MaxPatternVersions
  /\ acVersion' = acVersion + 1
  /\ acPatterns' = [m \in DOMAIN acPatterns \cup {n} |-> IF m = n THEN [version |-> acVersion', calls |-> 0] ELSE acPatterns[m]]
  /\ UNCHANGED acComponents

RemoveMovementPattern(n) ==
  /\ n \in DOMAIN acPatterns
  /\ acPatterns' = [m \in DOMAIN acPatterns \ {n} |-> acPatterns[m]]
  /\ UNCHANGED <<acVersion, acComponents>>

\* movement_pattern_name: a name that nobody registered throws before anything has changed.
NamePattern(c, n) ==
  /\ n = "" \/ n \in DOMAIN acPatterns
  /\ acComponents' = [acComponents EXCEPT ![c] =
                        IF n = "" THEN NoActuator ELSE [name |-> n, pattern |-> acPatterns[n], set |-> acPatterns[n].version]]
  /\ UNCHANGED <<acPatterns, acVersion>>

\* The tasks call the copy of each actuator, which changes its own state.
ProcessActuators ==
  /\ \A c \in Actuators : acComponents[c].pattern.calls < MaxPatternCalls
  /\ acComponents' = [c \in Actuators |->
                        IF acComponents[c].pattern.version = 0 THEN acComponents[c] ELSE [acComponents[c] EXCEPT !.pattern.calls = @ + 1]]
  /\ UNCHANGED <<acPatterns, acVersion>>

AcNext ==
  \/ \E n \in PatternNames : SetMovementPattern(n) \/ RemoveMovementPattern(n)
  \/ \E c \in Actuators, n \in PatternNames \cup {""} : NamePattern(c, n)
  \/ ProcessActuators

AcSpec == AcInit /\ [][AcNext]_acVars

-----------------------------------------------------------------------------
(* Properties                                                              *)

\* In a frame the keys and the mouse are those polled for it and for the one before, whatever is processed meanwhile.
HistoryExact ==
  /\ <<inCurrent, inLast>> = <<inPolled[1].keys, inPolled[2].keys>>
  /\ <<inMouse.position, inLastMouse.position>> = <<inPolled[1].place, inPolled[2].place>>

\* A frame that took no time leaves no trace after the second one that did.
MouseHeals ==
  /\ inMouse.velocity = NotANumber <=> inDelta[1] = 0
  /\ inMouse.acceleration = NotANumber <=> 0 \in {inDelta[1], inDelta[2]}

\* An entity is never turned or moved by what is not a number.
FlyersNumeric == \A f \in Flyers : inFlyers[f].pitch # NotANumber

\* Whoever asks for a name first, in whatever order with others and with changes of the configuration, all get the
\* same answer, from then on.
NamesSettled == \A a, b \in inAnswers : a[1] = b[1] => a[2] = b[2] /\ inCache[a[1]] = a[2]

\* The cursor is as the active state needs it.
CursorGrabbed == inCursorMode = ModeOf(inStack[Len(inStack)])

\* What the configuration says leads to a monitor and a mode that are there.
ChoicesThere ==
  \A value \in -2 .. 3 :
    /\ \A n \in 1 .. 3 : MonitorIndex(value, n) \in 0 .. n - 1
    /\ \A n \in 1 .. 3, current \in 1 .. 4 :
         VideoModeIndex(value, [k \in 1 .. n |-> k], current) \in 0 .. n - 1

InputSafe == HistoryExact /\ MouseHeals /\ FlyersNumeric /\ NamesSettled /\ CursorGrabbed /\ ChoicesThere

\* What an actuator calls is what its name meant when it was set, with a state of its own, however the name is
\* set anew or removed; what is registered has never been called.
PatternsOwn ==
  /\ \A n \in DOMAIN acPatterns : acPatterns[n].calls = 0
  /\ \A c \in Actuators :
       /\ acComponents[c].pattern.version = acComponents[c].set
       /\ acComponents[c].name = "" <=> acComponents[c].set = 0

\* Windows live while their library does and tell of what happens, frames see the input that was polled for them,
\* and actuators follow the pattern their name had, next to game states that are told of every change.  Three things
\* are excepted, as the code does not keep them: the hooks of a state under one whose constructor threw or entered
\* another (HooksTellPlace), files dropped on a window, of which no callback is told (EventsReach), and all that
\* follows the removal of a callback that is not there (GwNext).
StatesAndInputSafe == GsSafe /\ WindowsSafe /\ InputSafe /\ PatternsOwn
=============================================================================
