--------------------------- MODULE OperationStates ---------------------------
(***************************************************************************)
(* The operation lifecycle every CtrlDB workflow shares: the closed set of *)
(* durable states (internal/domain/operation.go), the transition table and *)
(* the two classifications of states the cancellation code relies on       *)
(* (internal/workflow/machine.go, internal/workflow/cancellation.go).      *)
(* Constant-level: it is extended by every workflow module.                *)
(***************************************************************************)
EXTENDS Naturals

terminalOperationStates ==
    { "COMPLETE", "COMPLETE_WITH_FAILED_VERIFICATION",
      "COMPLETE_WITH_DOCUMENTATION_ERROR", "VERIFIED_ROLLBACK",
      "CANCELLED", "FAILED", "FAILED_CLEANUP" }

operationStates ==
    { "DISCOVER", "VALIDATE", "PLAN", "APPROVED_WAITING", "LOCK", "PROTECT",
      "EXECUTE", "PAUSED", "VERIFY", "DOCUMENT", "ROLLBACK" }
        \cup terminalOperationStates

Terminal(s) == s \in terminalOperationStates

\* The table "transitions", as the set of <<from, to>> pairs.
transitions ==
    UNION { {"DISCOVER"} \X {"VALIDATE", "CANCELLED", "FAILED"},
            {"VALIDATE"} \X {"PLAN", "CANCELLED", "FAILED"},
            {"PLAN"} \X {"APPROVED_WAITING", "LOCK", "CANCELLED", "FAILED"},
            {"APPROVED_WAITING"} \X {"LOCK", "CANCELLED"},
            {"LOCK"} \X {"PROTECT", "EXECUTE", "CANCELLED", "FAILED"},
            {"PROTECT"} \X
                {"EXECUTE", "PAUSED", "ROLLBACK", "CANCELLED", "FAILED"},
            {"EXECUTE"} \X
                {"PAUSED", "VERIFY", "ROLLBACK", "CANCELLED", "FAILED"},
            {"PAUSED"} \X {"DISCOVER", "ROLLBACK", "CANCELLED", "FAILED"},
            {"VERIFY"} \X
                {"DOCUMENT", "COMPLETE_WITH_FAILED_VERIFICATION", "ROLLBACK"},
            {"DOCUMENT"} \X {"COMPLETE", "COMPLETE_WITH_DOCUMENTATION_ERROR"},
            {"ROLLBACK"} \X {"VERIFIED_ROLLBACK", "FAILED_CLEANUP"} }

CanTransition(from, to) == <<from, to>> \in transitions

\* States that may be left for CANCELLED only on a cancellation decision.
cancellationAuthorizationRequired(s) ==
    s \in {"PROTECT", "EXECUTE", "PAUSED"}

cancellationStateIsStructurallyPreMutation(s) ==
    s \in {"DISCOVER", "VALIDATE", "PLAN", "APPROVED_WAITING", "LOCK"}

cancellationTarget(mutation) ==
    IF mutation THEN "ROLLBACK" ELSE "CANCELLED"

\* One round of the breadth-first search of cancellationRouteReachable; it
\* never expands through a terminal state.
visitNext(visited) ==
    visited \cup { next \in operationStates :
                     /\ ~Terminal(next)
                     /\ \E from \in visited : CanTransition(from, next) }

\* Eleven states are not terminal, so ten rounds visit every reachable one.
visitTwice(visited) == visitNext(visitNext(visited))
visitedFrom(current) ==
    visitTwice(visitTwice(visitTwice(visitTwice(visitTwice({current})))))

cancellationRoutes ==
    { route \in { <<from, to>> : from, to \in operationStates } :
        \E via \in visitedFrom(route[1]) : CanTransition(via, route[2]) }

cancellationRouteReachable(current, target) ==
    <<current, target>> \in cancellationRoutes
==============================================================================
