----------------------------- MODULE MCVoiceJobs -----------------------------
(* Small instances of VoiceJobs for TLC.                                     *)
EXTENDS VoiceJobs, TLC

\* The requests MoveMembers calls make: out of a room to the office, the same
\* but disconnecting people, and one that names no one, which is refused.
MCRequests ==
    UNION {{[from |-> c, to |-> Office, only |-> Users],
            [from |-> c, to |-> None, only |-> Users]} : c \in Rooms}
    \cup {[from |-> Office, to |-> None, only |-> {}]}

\* Where the default channel is the only other one: move people to the office.
MCLobbyRequests == {[from |-> Default, to |-> Office, only |-> Users]}

MCSymmetry == Permutations(Users)
=============================================================================
