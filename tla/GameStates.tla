----------------------------- MODULE GameStates -----------------------------
(***************************************************************************)
(* core::engine with its systems and the stack of game states, on the main *)
(* thread. A phase of a frame calls the systems and the current state; what *)
(* it calls may enter a new state or pop the current one, so calls into    *)
(* states nest (gsCalls, the innermost last). A state is popped from a     *)
(* system or as the last thing a phase of a state does: the rest of the    *)
(* phase would run on a destroyed object.                                  *)
(***************************************************************************)
EXTENDS Naturals, Sequences, FiniteSets, SequencesExt

CONSTANTS GameStates, Systems, PreOrder, PostOrder, NoState, MaxCalls

ASSUME GameStatesAssumption ==
  /\ NoState \notin GameStates
  /\ {PreOrder, PostOrder} \subseteq [Systems -> Nat]
  /\ MaxCalls \in Nat

VARIABLES
  gsSystems,         \* systems_
  gsPre, gsPost,     \* systems_pre_phase_ordered, systems_post_phase_ordered
  gsStack,           \* state_stack_
  gsParent,          \* parent_state_
  gsTold,            \* the last hook each state was told through
  gsSkewed,          \* states on the stack whose last hook does not say where they are
  gsCalls,           \* calls into states that have not returned
  gsPhase, gsRan     \* the phase of the frame, and what it has called so far

engineVars == <<gsSystems, gsPre, gsPost>>
stateVars  == <<gsStack, gsParent, gsTold, gsSkewed>>
gsVars     == <<engineVars, stateVars, gsCalls, gsPhase, gsRan>>

GsInit ==
  /\ gsSystems = <<>> /\ gsPre = <<>> /\ gsPost = <<>>
  /\ gsStack = <<>> /\ gsParent = [s \in GameStates |-> NoState]
  /\ gsTold = [s \in GameStates |-> "none"] /\ gsSkewed = {}
  /\ gsCalls = <<>> /\ gsPhase = "setup" /\ gsRan = <<>>

Current == IF gsStack = <<>> THEN NoState ELSE Last(gsStack)
Innermost == IF gsCalls = <<>> THEN [call |-> "engine", state |-> NoState, at |-> "last"] ELSE Last(gsCalls)

(***************************************************************************)
(* add_system: only before the frames                                      *)
(***************************************************************************)

\* A stable sort of a sorted sequence with one more at its end.
Sorted(systems, new, after(_, _)) ==
  LET k == Cardinality({i \in DOMAIN systems : ~after(systems[i], new)})
  IN SubSeq(systems, 1, k) \o <<new>> \o SubSeq(systems, k + 1, Len(systems))

AddSystem(y) ==
  /\ gsPhase = "setup" /\ gsCalls = <<>>
  /\ y \notin Range(gsSystems)
  /\ gsSystems' = Append(gsSystems, y)
  /\ gsPre' = Sorted(gsPre, y, LAMBDA a, b : PreOrder[a] > PreOrder[b])
  /\ gsPost' = Sorted(gsPost, y, LAMBDA a, b : PostOrder[a] < PostOrder[b])
  /\ UNCHANGED <<stateVars, gsCalls, gsPhase, gsRan>>

(***************************************************************************)
(* The state machine: enter, pop                                           *)
(***************************************************************************)

\* Whoever runs now may use the machine: the application before and between the frames, a system,
\* a state in a phase or when it is reentered or constructed.
MayEnter == gsPhase \in {"setup", "pre", "state", "post"} /\ Len(gsCalls) < MaxCalls
MayPop   == MayEnter /\ (gsCalls = <<>> \/ (Len(gsCalls) = 1 /\ Innermost.call = "phase" /\ Innermost.at = "last"))

\* The current state is told to leave before the constructor of the new one runs.
Enter(s) ==
  /\ MayEnter
  /\ gsTold[s] = "none" /\ \A k \in DOMAIN gsCalls : gsCalls[k].state # s
  /\ gsTold' = IF Current = NoState THEN gsTold ELSE [gsTold EXCEPT ![Current] = "leave_push"]
  /\ gsParent' = [gsParent EXCEPT ![s] = Current]
  /\ gsCalls' = Append(gsCalls, [call |-> "construct", state |-> s, at |-> "last"])
  /\ UNCHANGED <<engineVars, gsStack, gsSkewed, gsPhase, gsRan>>

\* A state that the constructor has entered lies between the new one and its parent.
Constructed ==
  /\ Innermost.call = "construct"
  /\ LET s == Innermost.state
     IN /\ gsStack' = Append(gsStack, s)
        /\ gsTold' = [gsTold EXCEPT ![s] = "enter"]
        /\ gsSkewed' = IF gsParent[s] # Current THEN gsSkewed \cup {Current} ELSE gsSkewed
  /\ gsCalls' = Front(gsCalls)
  /\ UNCHANGED <<engineVars, gsParent, gsPhase, gsRan>>

\* The parent stays the current state, though it was told that it is not.
StateThrows ==
  /\ Innermost.call = "construct"
  /\ gsSkewed' = IF gsParent[Innermost.state] = Current /\ Current # NoState THEN gsSkewed \cup {Current} ELSE gsSkewed
  /\ gsParent' = [gsParent EXCEPT ![Innermost.state] = NoState]
  /\ gsCalls' = Front(gsCalls)
  /\ UNCHANGED <<engineVars, gsStack, gsTold, gsPhase, gsRan>>

MutantPop ==
  /\ MayPop /\ Len(gsStack) > 1
  /\ gsStack' = Front(gsStack)
  /\ gsTold' = [gsTold EXCEPT ![Current] = "none"]
  /\ gsParent' = [gsParent EXCEPT ![Current] = NoState]
  /\ gsSkewed' = gsSkewed \ {Current}
  /\ UNCHANGED <<engineVars, gsCalls, gsPhase, gsRan>>

\* With one state on the stack nothing happens. Otherwise it is told, destroyed, and the one below told.
Pop ==
  /\ MayPop /\ Len(gsStack) > 1
  /\ LET below == gsStack[Len(gsStack) - 1]
     IN /\ gsStack' = Front(gsStack)
        /\ gsTold' = [gsTold EXCEPT ![Current] = "none", ![below] = "reenter"]
        /\ gsParent' = [gsParent EXCEPT ![Current] = NoState]
        /\ gsSkewed' = gsSkewed \ {Current, below}
        /\ gsCalls' = Append(gsCalls, [call |-> "reenter", state |-> below, at |-> "last"])
  /\ UNCHANGED <<engineVars, gsPhase, gsRan>>

Reentered ==
  /\ Innermost.call = "reenter"
  /\ gsCalls' = Front(gsCalls)
  /\ UNCHANGED <<engineVars, stateVars, gsPhase, gsRan>>

(***************************************************************************)
(* engine::process and engine::render: both in the same way                *)
(***************************************************************************)

RanInPhase == Cardinality({k \in DOMAIN gsRan : gsRan[k][1] = gsPhase})

\* The systems before and after the state; what a system does with the machine it does here.
RunSystem(systems) ==
  /\ gsCalls = <<>>
  /\ RanInPhase < Len(systems) /\ gsRan' = Append(gsRan, <<gsPhase, systems[RanInPhase + 1]>>)
  /\ UNCHANGED <<engineVars, stateVars, gsCalls, gsPhase>>

AllRan(systems) == RanInPhase = Len(systems)

BeginPhase ==
  /\ gsPhase = "setup" /\ gsCalls = <<>>
  /\ gsPhase' = "pre" /\ gsRan' = <<>>
  /\ UNCHANGED <<engineVars, stateVars, gsCalls>>

\* The state that is current now is called to the end, whatever is entered meanwhile.
CallState ==
  /\ gsPhase = "pre" /\ gsCalls = <<>> /\ AllRan(gsPre)
  /\ gsPhase' = "state"
  /\ gsCalls' = IF Current = NoState THEN <<>> ELSE <<[call |-> "phase", state |-> Current, at |-> "first"]>>
  /\ gsRan' = Append(gsRan, <<"state", Current>>)
  /\ UNCHANGED <<engineVars, stateVars>>

\* preprocess, the system states, postprocess
StateGoesOn ==
  /\ gsCalls # <<>> /\ Innermost.call = "phase" /\ Innermost.at = "first"
  /\ gsCalls' = [gsCalls EXCEPT ![Len(gsCalls)].at = "last"]
  /\ UNCHANGED <<engineVars, stateVars, gsPhase, gsRan>>

StateReturns ==
  /\ gsCalls # <<>> /\ Innermost.call = "phase" /\ Innermost.at = "last"
  /\ gsCalls' = <<>>
  /\ UNCHANGED <<engineVars, stateVars, gsPhase, gsRan>>

SystemsAfter ==
  /\ gsPhase = "state" /\ gsCalls = <<>>
  /\ gsPhase' = "post"
  /\ UNCHANGED <<engineVars, stateVars, gsCalls, gsRan>>

PhaseOver == gsPhase = "post" /\ gsCalls = <<>> /\ AllRan(gsPost)

EndPhase ==
  /\ PhaseOver
  /\ gsPhase' = "setup"
  /\ UNCHANGED <<engineVars, stateVars, gsCalls, gsRan>>

(***************************************************************************)
(* ~engine: the states from the top, then the systems from the last        *)
(***************************************************************************)

BeginDestroy ==
  /\ gsPhase = "setup" /\ gsCalls = <<>>
  /\ gsPhase' = "destroy"
  /\ UNCHANGED <<engineVars, stateVars, gsCalls, gsRan>>

DestroyState ==
  /\ gsPhase = "destroy" /\ gsStack # <<>>
  /\ gsStack' = Front(gsStack)
  /\ gsTold' = [gsTold EXCEPT ![Current] = "none"]
  /\ gsParent' = [gsParent EXCEPT ![Current] = NoState]
  /\ gsSkewed' = gsSkewed \ {Current}
  /\ UNCHANGED <<engineVars, gsCalls, gsPhase, gsRan>>

DestroySystem ==
  /\ gsPhase = "destroy" /\ gsStack = <<>> /\ gsSystems # <<>>
  /\ gsSystems' = Front(gsSystems)
  /\ UNCHANGED <<gsPre, gsPost, stateVars, gsCalls, gsPhase, gsRan>>

GsNext ==
  \/ \E y \in Systems : AddSystem(y)
  \/ \E s \in GameStates : Enter(s)
  \/ Constructed \/ StateThrows \/ Pop \/ Reentered
  \/ (gsPhase = "pre" /\ RunSystem(gsPre)) \/ (gsPhase = "post" /\ RunSystem(gsPost))
  \/ BeginPhase \/ CallState \/ StateGoesOn \/ StateReturns \/ SystemsAfter \/ EndPhase
  \/ BeginDestroy \/ DestroyState \/ DestroySystem

GsSpec == GsInit /\ [][GsNext]_gsVars

(***************************************************************************)
(* Properties                                                              *)
(***************************************************************************)

Alive == Range(gsStack) \cup {gsCalls[k].state : k \in {j \in DOMAIN gsCalls : gsCalls[j].call = "construct"}}

\* No state is twice on the stack, and a call into a state that has not returned has it to return to.
GsTypeOK ==
  /\ \A i, j \in DOMAIN gsStack : gsStack[i] = gsStack[j] => i = j
  /\ \A s \in GameStates : gsTold[s] # "none" <=> s \in Range(gsStack)
  /\ \A k \in DOMAIN gsCalls : gsCalls[k].at = "first" => gsCalls[k].state \in Alive

\* A state's parent is alive as long as the state is, and below it on the stack.
ParentsBelow ==
  \A s \in Alive : gsParent[s] # NoState =>
    \E i \in DOMAIN gsStack : gsStack[i] = gsParent[s] /\ \A j \in 1 .. i : gsStack[j] # s

\* The hooks tell each state where it is: the current one has been entered or reentered last, unless a new one is under
\* construction, and the others have been left by a push.  Two kinds of states are excepted, for whom the code has
\* it wrong: one that was told leave_push for a state whose constructor threw is still current, and one that the
\* constructor of another has entered lies below that one and was never told; both until it is reentered or goes.
HooksTellPlace ==
  gsPhase # "destroy" => \A i \in DOMAIN gsStack :
    LET s == gsStack[i]
        left == \/ i # Len(gsStack)
                \/ \E k \in DOMAIN gsCalls : gsCalls[k].call = "construct" /\ gsParent[gsCalls[k].state] = s
    IN s \notin gsSkewed => (gsTold[s] = "leave_push" <=> left)

\* At the end of a phase each system has been called before the state and after it, by rising order and
\* by falling order.
SystemsAroundState ==
  PhaseOver =>
    LET n == Len(gsSystems)
        after(k) == gsRan[n + 1 + k]
    IN /\ Len(gsRan) = 2 * n + 1 /\ gsRan[n + 1][1] = "state"
       /\ \A k \in 1 .. n : gsRan[k][1] = "pre" /\ after(k)[1] = "post"
       /\ {gsRan[k][2] : k \in 1 .. n} = Range(gsSystems) /\ {after(k)[2] : k \in 1 .. n} = Range(gsSystems)
       /\ \A j, k \in 1 .. n : j < k =>
            PreOrder[gsRan[j][2]] <= PreOrder[gsRan[k][2]] /\ PostOrder[after(j)[2]] >= PostOrder[after(k)[2]]

\* System states of a game state refer to the systems: the systems are there as long as a state is.
SystemsOutliveStates == gsPhase = "destroy" /\ Alive # {} => Len(gsSystems) = Len(gsPre)

\* All of it holds at once: states outlive what refers to them, the hooks tell their place, and the systems
\* are called around the states.
GsSafe == GsTypeOK /\ ParentsBelow /\ HooksTellPlace /\ SystemsAroundState /\ SystemsOutliveStates
=============================================================================
