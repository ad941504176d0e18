----------------------------- MODULE VenueMirror -----------------------------
(***************************************************************************)
(* What a reconstructed book promises, without snapshots, diffs, spans or  *)
(* counters.  A view of the venue's book is either unsynced, and then it   *)
(* claims nothing; or live, and then it is the venue's book as of some     *)
(* update id that only moves forward; or frozen at the id where the stream *)
(* was lost, still exact for that id, until a new anchor replaces it.      *)
(* There is no way back from frozen to live other than a new anchor.       *)
(***************************************************************************)
EXTENDS Integers

CONSTANTS
    Ids,    \* update ids
    Truth   \* Truth[i]: the venue's book after update i

VARIABLES
    phase,  \* "unsynced", "live" or "frozen"
    at,     \* the update id the view stands for (0 when unsynced)
    view    \* the venue's book at that id (Truth[0] when unsynced)

mirror == <<phase, at, view>>

Unsynced == phase = "unsynced" /\ at = 0 /\ view = Truth[0]

Init == Unsynced

\* A snapshot: any id, from any phase.
Anchor ==
    /\ phase' = "live"
    /\ at' \in Ids
    /\ view' = Truth[at']

\* An update stream is followed forward, never back.
Advance ==
    /\ phase = "live"
    /\ phase' = "live"
    /\ at' \in Ids
    /\ at' >= at
    /\ view' = Truth[at']

\* Updates were lost: the view stays what it was.
Freeze ==
    /\ phase = "live"
    /\ phase' = "frozen"
    /\ UNCHANGED <<at, view>>

\* The connection or the data failed in a way the view cannot recover from.
Lose ==
    /\ phase' = "unsynced"
    /\ at' = 0
    /\ view' = Truth[0]

Next == Anchor \/ Advance \/ Freeze \/ Lose

Spec == Init /\ [][Next]_mirror
=============================================================================
