----------------------------- MODULE VoiceLease ------------------------------
(* What the voice slot promises: a lease on the janitor's one voice           *)
(* connection.  Jobs hold it one at a time; only the holder gets people moved, *)
(* and only after it has got the bot into its channel; and a job that got the  *)
(* bot into a channel gives the lease back only after telling it to leave.     *)
EXTENDS FiniteSets

CONSTANTS Jobs, Users, None

VARIABLES
    owner,      \* the job with the lease, or None
    present,    \* the owner has got the bot into its channel
    displaced   \* per job: the people moved at its request since it asked

vars == <<owner, present, displaced>>

Init ==
    /\ owner = None
    /\ present = FALSE
    /\ displaced = [j \in Jobs |-> {}]

\* A job without the lease starts over.
Request(j) ==
    /\ owner # j
    /\ displaced' = [displaced EXCEPT ![j] = {}]
    /\ UNCHANGED <<owner, present>>

Take(j) ==
    /\ owner = None
    /\ owner' = j
    /\ UNCHANGED <<present, displaced>>

Arrive ==
    /\ owner # None /\ ~present
    /\ present' = TRUE
    /\ UNCHANGED <<owner, displaced>>

Displace(u) ==
    /\ owner # None /\ present
    /\ displaced' = [displaced EXCEPT ![owner] = @ \cup {u}]
    /\ UNCHANGED <<owner, present>>

Depart ==
    /\ owner # None /\ present
    /\ present' = FALSE
    /\ UNCHANGED <<owner, displaced>>

Drop ==
    /\ owner # None /\ ~present
    /\ owner' = None
    /\ UNCHANGED <<present, displaced>>

Next ==
    \/ \E j \in Jobs : Request(j) \/ Take(j)
    \/ Arrive \/ Depart \/ Drop
    \/ \E u \in Users : Displace(u)

Spec == Init /\ [][Next]_vars
=============================================================================
