--------------------------- MODULE CommandOutcome ---------------------------
(***************************************************************************)
(* What one call of the adapter promises the rest of the worker, whatever  *)
(* it looks up and checks on its way: its command is executed once at      *)
(* most, and the answer says as much about that as the caller may rely on. *)
(*                                                                         *)
(*   done     the command was executed                                     *)
(*   refused  it was not (401, 404, 409), so another one may be tried      *)
(*   told     it was a query, which executes nothing                       *)
(*   failed   nobody knows (400, 500, 502)                                 *)
(***************************************************************************)
EXTENDS Naturals

VARIABLES
    executions,  \* how often the command of this call was executed
    outcome      \* "open" while the call runs

outcomeVars == <<executions, outcome>>

Init == executions = 0 /\ outcome = "open"

Execute ==
    /\ outcome = "open"
    /\ executions = 0
    /\ executions' = 1
    /\ outcome' \in {"open", "failed"}

Answer ==
    /\ outcome = "open"
    /\ outcome' \in {"failed"} \cup IF executions = 0 THEN {"refused", "told"} ELSE {"done"}
    /\ UNCHANGED executions

\* The next call, which may be over at once.
Again ==
    /\ outcome # "open"
    /\ executions' = 0
    /\ outcome' \in {"open", "told", "failed"}

Next == Execute \/ Answer \/ Again

Spec == Init /\ [][Next]_outcomeVars
=============================================================================
