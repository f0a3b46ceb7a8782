--------------------------- MODULE MCEdgeSyncPull ---------------------------
(* Small instances of EdgeSyncPull for TLC. *)
EXTENDS EdgeSyncPull

CONSTANTS s1, s2

TwoSessions == {s1, s2}

\* Messages 1 and 2 are about the first session, the others about the second.
FirstTwoTogether == [m \in Messages |-> IF m <= 2 THEN s1 ELSE s2]
=============================================================================
