---------------------------- MODULE AssetPromise ----------------------------
(***************************************************************************)
(* What an asset promises its clients (asset::run_when_loaded), without    *)
(* threads, mutex or lists: loading settles once, as ready or as error,    *)
(* and every client is answered once, with the outcome it settled on.      *)
(***************************************************************************)
CONSTANT Registrants

VARIABLES
  status,    \* "pending", "ready" or "error"
  answered   \* what each client was told: "nothing", "ready" or "error"

vars == <<status, answered>>

Init == /\ status = "pending"
        /\ answered = [r \in Registrants |-> "nothing"]

\* The loading ends, once and for all.
Settle == /\ status = "pending"
          /\ status' \in {"ready", "error"}
          /\ UNCHANGED answered

\* One of the two handlers of a client runs.
Answer(r) == /\ status # "pending"
             /\ answered[r] = "nothing"
             /\ answered' = [answered EXCEPT ![r] = status]
             /\ UNCHANGED status

Next == Settle \/ \E r \in Registrants : Answer(r)

Spec == Init /\ [][Next]_vars

=============================================================================
