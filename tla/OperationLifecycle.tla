-------------------------- MODULE OperationLifecycle --------------------------
(***************************************************************************)
(* What a durable operation history promises whoever reads it, whatever the *)
(* order of steps, pauses and cancellation requests in it: the operation    *)
(* starts at discovery, moves only along the transition table, stops for    *)
(* good in a terminal state, never forgets a possible mutation, and is      *)
(* CANCELLED only when no mutation may have occurred.  Journal and          *)
(* Cancellation are shown to implement this specification.                  *)
(***************************************************************************)
EXTENDS OperationStates

CONSTANT NoState           \* the operation has no durable history yet

VARIABLES state, mutated

lifecycleVars == <<state, mutated>>

Init == state = NoState /\ mutated = FALSE

Begin == /\ state = NoState
         /\ state' = "DISCOVER"
         /\ UNCHANGED mutated

\* A step, a pause or a request may reveal that a mutation occurred.
Observe == /\ state \in operationStates
           /\ ~Terminal(state)
           /\ mutated' \in {mutated, TRUE}
           /\ UNCHANGED state

Move(next) == /\ state \in operationStates
              /\ CanTransition(state, next)
              /\ next = "CANCELLED" => ~mutated
              /\ state' = next
              /\ mutated' \in {mutated, TRUE}
              /\ mutated' # mutated => next = "PAUSED"

Next == Begin \/ Observe \/ \E next \in operationStates : Move(next)

Spec == Init /\ [][Next]_lifecycleVars
==============================================================================
