----------------------------- MODULE MC_ApStation -----------------------------
EXTENDS ApStation, TLC

CONSTANTS s1, s2

MCStas == {s1, s2}
\* Enough frames for a station to authenticate, associate, be ACKed and
\* then disassociate, deauthenticate or re-associate.
MCMaxFrames == 3
\* ap_start zeroes struct ap_state.
MCLastAidInit == 0
\* ap->last_aid after 2006 stations have associated and left: the state
\* every AP reaches that keeps running.
MCLastAidLong == 2006

MCSymmetry == Permutations(MCStas)
=============================================================================
