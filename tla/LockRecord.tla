------------------------------ MODULE LockRecord ------------------------------
(***************************************************************************)
(* What the lock record of the control bucket promises to the calls that   *)
(* use it, as long as only the protocol writes it: it is free until one    *)
(* call takes it, and only the call that took it gives it back.  A call    *)
(* that ends while it has the lock leaves it held, and nobody frees it     *)
(* again: taking it over is not part of the protocol.  Once somebody has   *)
(* meddled with the record nothing is promised.  ControlStore is shown to  *)
(* implement this specification.                                           *)
(***************************************************************************)
CONSTANT Sessions

VARIABLES
    state,              \* "absent", "free" or "held", or anything once meddled
    holders,            \* the sessions the record names, at most one
    using,              \* the sessions whose running call has taken the lock
    disturbed           \* an outsider has written or deleted the record

recordVars == <<state, holders, using, disturbed>>

Init == /\ state = "absent" /\ holders = {} /\ using = {}
        /\ disturbed = FALSE

Seed ==
    /\ state = "absent" /\ state' = "free"
    /\ UNCHANGED <<holders, using>>

\* The answer may be lost: then the call ends and does not know that it took
\* the lock.
Take(s) ==
    /\ state = "free" /\ state' = "held"
    /\ holders' = {s}
    /\ using' \in {using, using \cup {s}}

Return(s) ==
    /\ s \in using /\ holders = {s} /\ holders' = {}
    /\ state = "held" /\ state' = "free"
    /\ using' = using \ {s}

\* The call fails or crashes, and the record stays as it is.
Leave(s) ==
    /\ s \in using /\ using' = using \ {s}
    /\ UNCHANGED <<state, holders>>

Protocol ==
    /\ ~disturbed /\ UNCHANGED disturbed
    /\ Seed \/ \E s \in Sessions : Take(s) \/ Return(s) \/ Leave(s)

Meddle == ~disturbed /\ disturbed' = TRUE /\ UNCHANGED using

Afterwards == disturbed /\ UNCHANGED disturbed

Next == Protocol \/ Meddle \/ Afterwards

Spec == Init /\ [][Next]_recordVars
===============================================================================
