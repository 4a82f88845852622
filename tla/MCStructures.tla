---------------------------- MODULE MCStructures ----------------------------
(***************************************************************************)
(* Data structures that do not meet, in one model: each behaviour is one   *)
(* of the part that the first state chooses, and the others stay as they   *)
(* are.                                                                    *)
(***************************************************************************)
EXTENDS DeviceMemory, FlatMap, DualMap, TLC

VARIABLE part

TwoMemoryTypes == <<{"local"}, {"local", "visible"}>>

Request(size, alignment, types, flags, linear) ==
  [size |-> size, alignment |-> alignment, types |-> types, flags |-> flags, linear |-> linear]

\* Two that fit together in a block, one that asks for a property, one as large as a block.
MemoryRequests ==
  {Request(2, 1, {1, 2}, {}, TRUE), Request(3, 4, {1, 2}, {}, TRUE),
   Request(3, 2, {1, 2}, {"visible"}, TRUE), Request(8, 4, {1}, {}, FALSE)}

Perms == Permutations(Handles) \cup Permutations(Maps)

Init ==
  /\ part \in {"memory", "flat", "dual"}
  /\ MemInit
  /\ FlatInit /\ (part # "flat" => ~flatMulti /\ \A m \in Maps : flat[m] = <<>>)
  /\ DualInit /\ (part # "dual" => ~dualMulti)

Next ==
  /\ UNCHANGED part
  /\ \/ part = "memory" /\ MemNext /\ UNCHANGED <<flatVars, dualVars>>
     \/ part = "flat" /\ FlatNext /\ UNCHANGED <<memVars, dualVars>>
     \/ part = "dual" /\ DualNext /\ UNCHANGED <<memVars, flatVars>>

Spec == Init /\ [][Next]_<<part, memVars, flatVars, dualVars>>

\* Maps of either layout find what they hold.
MapsSafe == FlatSafe /\ DualSafe
=============================================================================
