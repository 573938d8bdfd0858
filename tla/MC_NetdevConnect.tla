-------------------------- MODULE MC_NetdevConnect --------------------------
(* Model-checking instance of NetdevConnect: three requests are enough for *)
(* a connection, its fast transition or a failure, and a reconnection that *)
(* overlaps what the first connection left pending.                        *)
EXTENDS NetdevConnect

MCMaxReqs == 3

\* Two requests for the liveness runs: a connection and its fast transition
\* or a reconnection.
MCLiveMaxReqs == 2

\* Neighbor report requests: one in the liveness run, where it races the
\* connection's end and its own timeout; two, so that a late reply or
\* response of the first can meet the second (NrOwnAnswer); none where a
\* run is about the connection.
MCMaxNr == 1
MCStaleNr == 2
MCNoNr == 0

=============================================================================
