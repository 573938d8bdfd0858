----------------------------- MODULE MC_ApWscPbc -----------------------------
EXTENDS ApWscPbc, TLC

CONSTANTS e1, e2

MCEnrollees == {e1, e2}
\* Three probes: an overlap of two enrollees, then a later probe that
\* expires a record and lets PBC mode be entered again.
MCMaxProbes == 3
\* Clock for a button press, its walk time, and a later session.
MCMaxTime == 7
\* The AP starts once the clock is past the monitor time (ticks from 3),
\* or right after boot (tick 1: 40 s of uptime).
MCClockAfterMonitor == 3
MCClockAtBoot == 1
\* Start, Stop and one more call: a restart, a Stop aborting a pending
\* Start, or a second Stop while STOP_AP is in flight.
MCMaxCalls == 3
\* For liveness, the clock stays at ClockInit (no PBC session is needed) and
\* four calls allow Start, Stop, Start, Stop or a Stop racing a restart.
MCMaxCallsLiveness == 4

\* APRanges=10.0.1.0/24 (ip_pool_create): the pool has the one subnet 1, so
\* a second address from it needs the first to be put back.
MCAPRangeStart == 10 * 2^24 + 0 * 2^16 + 1 * 2^8
MCAPRangeEnd == MCAPRangeStart + 255

MCSymmetry == Permutations(MCEnrollees)
=============================================================================
