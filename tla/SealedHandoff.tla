----------------------------- MODULE SealedHandoff -----------------------------
(***************************************************************************)
(* What the audit handoff promises whoever looks at its records and its    *)
(* bucket, whoever else uses the bucket and however calls end: the         *)
(* operation makes the bucket irreversible only after it has claimed to    *)
(* and while the bucket is whole; a sealed bucket that is whole stays      *)
(* both; and only of such a bucket is the lock ever recorded.              *)
(* AuditHandoff is shown to implement this specification.                  *)
(***************************************************************************)
VARIABLES
    claimed,            \* the handoff is verified and the lock claimed on disk
    whole,              \* both objects are there as recorded
    sealed,             \* "open", or locked: by the "operation" or by "others"
    confirmed,          \* the lock is on record
    raced               \* the bucket was changed where no check looks

handoffVars == <<claimed, whole, sealed, confirmed, raced>>

Init == /\ claimed = FALSE /\ whole = FALSE
        /\ sealed = "open"
        /\ confirmed = FALSE /\ raced = FALSE

Claim ==
    /\ ~claimed /\ claimed' = TRUE
    /\ UNCHANGED <<whole, sealed, confirmed, raced>>

\* Objects come and go while the bucket is open; in a sealed one they are only
\* completed.
Change ==
    /\ sealed = "open" \/ ~whole
    /\ whole' \in BOOLEAN
    /\ UNCHANGED <<claimed, sealed, confirmed, raced>>

Seal ==
    /\ sealed = "open" /\ sealed' = "operation"
    /\ raced \/ (claimed /\ whole)
    /\ UNCHANGED <<claimed, whole, confirmed, raced>>

OthersSeal ==
    /\ sealed = "open" /\ sealed' = "others"
    /\ UNCHANGED <<claimed, whole, confirmed, raced>>

Confirm ==
    /\ sealed # "open" /\ whole
    /\ confirmed' = TRUE
    /\ UNCHANGED <<claimed, whole, sealed, raced>>

\* Only an empty bucket can be deleted, sealed or not.
Delete ==
    /\ ~whole /\ sealed' = "open"
    /\ raced' \in {raced, TRUE}
    /\ UNCHANGED <<claimed, whole, confirmed>>

Race ==
    /\ raced' = TRUE
    /\ UNCHANGED <<claimed, whole, sealed, confirmed>>

Next == \/ Claim \/ Change \/ Seal \/ OthersSeal \/ Confirm
        \/ Delete \/ Race

Spec == Init /\ [][Next]_handoffVars
================================================================================
