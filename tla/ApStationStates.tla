--------------------------- MODULE ApStationStates ---------------------------
(***************************************************************************)
(* What the soft AP promises about each station, in the terms of           *)
(* 802.11-2016 11.3 and spec.md 4.7: a station is unknown, authenticated   *)
(* (State 2) or associated (State 3), and an associated station may have   *)
(* an RSNA established (State 4).  A station gets an AID when it becomes   *)
(* associated; the AID is in 1..2007, held by no other associated station, *)
(* and kept for as long as the station stays associated: a reassociation   *)
(* does not change it.                                                     *)
(*                                                                         *)
(* One step changes one station.  Any station may be forgotten at any     *)
(* time (deauthentication, DEL_STATION, a failed handshake).               *)
(***************************************************************************)
EXTENDS Integers

CONSTANTS Stas

\* 802.11-2016 9.4.1.8.
MaxAid == 2007

VARIABLES
    st,    \* st[s]: "none", "authenticated" or "associated"
    rsna,  \* rsna[s]: an RSNA is established with s
    aid    \* aid[s]: the AID of an associated s, 0 otherwise

vars == <<st, rsna, aid>>

Init ==
    /\ st = [s \in Stas |-> "none"]
    /\ rsna = [s \in Stas |-> FALSE]
    /\ aid = [s \in Stas |-> 0]

\* An AID no other station holds.
FreeAid(s) == {a \in 1..MaxAid : \A t \in Stas \ {s} : aid[t] # a}

Authenticate(s) ==
    /\ st[s] = "none"
    /\ st' = [st EXCEPT ![s] = "authenticated"]
    /\ UNCHANGED <<rsna, aid>>

\* From State 2, or straight from nothing for a station the driver
\* associated itself.
Associate(s) ==
    /\ st[s] \in {"none", "authenticated"}
    /\ st' = [st EXCEPT ![s] = "associated"]
    /\ \E a \in FreeAid(s) : aid' = [aid EXCEPT ![s] = a]
    /\ UNCHANGED rsna

EstablishRsna(s) ==
    /\ st[s] = "associated"
    /\ ~rsna[s]
    /\ rsna' = [rsna EXCEPT ![s] = TRUE]
    /\ UNCHANGED <<st, aid>>

\* A reassociation tears down the RSNA; the station stays associated.
DropRsna(s) ==
    /\ rsna[s]
    /\ rsna' = [rsna EXCEPT ![s] = FALSE]
    /\ UNCHANGED <<st, aid>>

Disassociate(s) ==
    /\ st[s] = "associated"
    /\ st' = [st EXCEPT ![s] = "authenticated"]
    /\ rsna' = [rsna EXCEPT ![s] = FALSE]
    /\ aid' = [aid EXCEPT ![s] = 0]

Forget(s) ==
    /\ st[s] # "none"
    /\ st' = [st EXCEPT ![s] = "none"]
    /\ rsna' = [rsna EXCEPT ![s] = FALSE]
    /\ aid' = [aid EXCEPT ![s] = 0]

Next ==
    \E s \in Stas :
        \/ Authenticate(s) \/ Associate(s) \/ EstablishRsna(s)
        \/ DropRsna(s) \/ Disassociate(s) \/ Forget(s)

Spec == Init /\ [][Next]_vars

=============================================================================
