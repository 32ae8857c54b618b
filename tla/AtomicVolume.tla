---------------------------- MODULE AtomicVolume -----------------------------
(***************************************************************************)
(* What the undo journal promises its file system: the sectors of one      *)
(* submitted transaction reach the volume all at once or not at all.  A    *)
(* transaction that was acknowledged is on the volume.  One that failed    *)
(* may still take effect, as a whole, until a restart or a recovery has    *)
(* settled it.                                                             *)
(***************************************************************************)
CONSTANTS Sectors, Data

VARIABLES
    volume,   \* what a mount would find: the durable content of every sector
    update,   \* the sectors of the transaction under way, with their new content
    status    \* "idle", "committing", "uncertain" after a failure, "down" without power

NoUpdate == [s \in {} |-> s]
Updates == UNION {[S -> Data] : S \in SUBSET Sectors}

Written(u) == [s \in Sectors |-> IF s \in DOMAIN u THEN u[s] ELSE volume[s]]

Init ==
    /\ volume \in [Sectors -> Data]
    /\ update = NoUpdate
    /\ status = "down"

Submit(u) ==
    /\ status = "idle"
    /\ update' = u
    /\ status' = "committing"
    /\ UNCHANGED volume

TakeEffect ==
    /\ status \in {"committing", "uncertain"}
    /\ volume' = Written(update)
    /\ UNCHANGED <<update, status>>

\* Success is reported only for what is durable.
Acknowledge ==
    /\ status = "committing"
    /\ volume' = Written(update)
    /\ update' = NoUpdate
    /\ status' = "idle"

Fail ==
    /\ status = "committing"
    /\ status' = "uncertain"
    /\ UNCHANGED <<volume, update>>

\* A recovery without a restart: the failed transaction happened or it did not.
Settle ==
    /\ status = "uncertain"
    /\ volume' \in {volume, Written(update)}
    /\ update' = NoUpdate
    /\ status' = "idle"

\* Power fails: a transaction under way has happened or it has not.
Cut ==
    /\ volume' \in {volume, Written(update)}
    /\ update' = NoUpdate
    /\ status' = "down"

Restart ==
    /\ status = "down"
    /\ status' = "idle"
    /\ UNCHANGED <<volume, update>>

Next ==
    \/ \E u \in Updates : Submit(u)
    \/ TakeEffect
    \/ Acknowledge
    \/ Fail
    \/ Settle
    \/ Cut
    \/ Restart

Spec == Init /\ [][Next]_<<volume, update, status>>
==============================================================================
