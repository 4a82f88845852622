----------------------------- MODULE MCManagers -----------------------------
(***************************************************************************)
(* The asset manager and the transfer manager, which do not meet here:     *)
(* each behaviour is one of the part that the first state chooses.         *)
(***************************************************************************)
EXTENDS AssetManager, TransferManager, TLC

CONSTANTS n1, n2, o1, o2, c1, c2, c3, w1, w2, u1, u2, u3, u4

\* n1 is in the load unit, n2 is a file.
UnitAndFile == [n \in Names |-> IF n = n1 THEN "unit" ELSE "file"]

\* As many futures as workers, which may block the pool before the payload they wait for is read.
ManyCalls ==
  c1 :> {"async", "clean"} @@ c2 :> {"future", "sync"} @@ c3 :> {"future", "pin"}

FourUploads == {u1, u2, u3, u4}

\* One larger than the buffer.
MixedSizes == u1 :> 2 @@ u2 :> 3 @@ u3 :> 4 @@ u4 :> 7

\* Buffers, and images whose padding may not fit behind what is placed.
MixedAlignments == [u \in Uploads |-> IF u = u3 THEN 4 ELSE 1]

VARIABLE part

managerVars == <<part, vars, transferVars>>

\* Only a clean task can tell whether something was dropped.
CleanPending == SimpleTask("clean") \in Queued \/ \E w \in Workers : pc[w] = "clean"

\* The first client asks for any name, the others ask for the asset in the unit.
FewNames == \A c \in Clients \ {c1} : asked'[c] \in {None, n1}

\* The upload that needs another staging buffer is the last one called, the smallest is called
\* before the second smallest.
InOrderOfSize ==
  /\ u4 \in requested' \ requested => requested = {u1, u2, u3}
  /\ u2 \in requested' \ requested => u1 \in requested

InAssets(A) == part = "assets" /\ A /\ FewNames /\ UNCHANGED <<part, transferVars>>
InTransfers(A) == part = "transfers" /\ A /\ InOrderOfSize /\ UNCHANGED <<part, vars>>

ManagersInit == part \in {"assets", "transfers"} /\ Init /\ TransferInit

ManagersNext ==
  \/ \E t \in Threads : InAssets(Step(t) \/ WakesAgain(t))
  \/ CleanPending /\ \E c \in Clients : InAssets(Drop(c))
  \/ InAssets(StartDestroy)
  \/ InTransfers(TransferNext)

\* Each thread runs on; the engine loop renders frame after frame, the device executes what it gets.
Fairness ==
  /\ \A t \in Threads : WF_managerVars(InAssets(Step(t)))
  /\ WF_managerVars(InTransfers(RenderLoop)) /\ WF_managerVars(InTransfers(DeviceCompletes))

ManagersSpec == ManagersInit /\ [][ManagersNext]_managerVars /\ Fairness
=============================================================================
