------------------------- MODULE MC_NetdevLifecycle -------------------------
(* Two STATION interfaces, wlan0 and wlan1, and the filter "wlan*":       *)
(* both are managed.  fnmatch is given by its result on these names.      *)
EXTENDS NetdevLifecycle

MCIfaces == {1, 2}
MCName == [i \in MCIfaces |-> IF i = 1 THEN "wlan0" ELSE "wlan1"]
MCPatterns == {"wlan*", "wlan1"}
MCFnmatch == {<<"wlan*", "wlan0">>, <<"wlan*", "wlan1">>, <<"wlan1", "wlan1">>}
MCWhitelist == <<"wlan*">>
MCMaxEvents == 2
=============================================================================
