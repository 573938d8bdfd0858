---------------------------- MODULE NetdevConnect ----------------------------
(***************************************************************************)
(* The station (client) side of src/src/netdev.c: the connection state     *)
(* machine kept in struct netdev, driven by                                *)
(*   - the caller (station.c): netdev_connect, netdev_disconnect,          *)
(*     netdev_fast_transition;                                             *)
(*   - replies to the nl80211 commands it sends (l_genl_family_send),      *)
(*   - nl80211 MLME events (netdev_mlme_notify),                           *)
(*   - the rtnl reply to RTM_SETLINK (netdev_operstate_cb),                *)
(*   - the EAPoL engine, which calls back netdev_set_tk / netdev_set_gtk / *)
(*     netdev_set_igtk / netdev_handshake_failed.                          *)
(*                                                                         *)
(* All of these run one at a time on the single-threaded ell main loop, so *)
(* every handler is one atomic action.  A handler's state changes and the  *)
(* commands it sends are threaded through a record s (the current state,   *)
(* Cur) by operators named after the C functions, in the order the C code *)
(* performs them; an action ends with Commit of the resulting record.      *)
(*                                                                         *)
(* nl80211: ell's l_genl writes one request at a time and writes the next  *)
(* after the reply to the previous one, so the kernel executes commands in *)
(* send order and the reply to the head is the next one dispatched.        *)
(* l_genl_family_cancel on the head (already written) only drops its       *)
(* callback; on a later request it removes it before it is written.        *)
(* The rtnl socket is separate: its replies are not ordered with genl.     *)
(***************************************************************************)
EXTENDS Naturals, Sequences, FiniteSets

CONSTANTS
    MaxReqs,  \* calls of netdev_connect plus netdev_fast_transition explored
    MaxNr     \* calls of netdev_neighbor_report_req explored

ASSUME MaxReqs \in Nat \ {0} /\ MaxNr \in Nat

Nrs == 1..MaxNr

Reqs == 1..MaxReqs

\* enum netdev_result
Results == {"ok", "aborted", "association_failed", "authentication_failed",
            "handshake_failed", "key_setting_failed"}

\* nl80211 commands, named by the callback they were sent with.
\* "deauth_failed": DEAUTHENTICATE with callback netdev_connect_failed;
\* "deauth_user": DEAUTHENTICATE with callback netdev_cmd_deauthenticate_cb.
DeauthCmds == {"deauth_failed", "deauth_user"}
KeyCmds == {"pairwise_new_key", "pairwise_set_key", "group_new_key",
            "group_management_new_key"}
\* "nr_frame": the Neighbor Report Request action frame (CMD_FRAME) with
\* callback netdev_neighbor_report_req_cb.
Cmds == {"connect", "ft_authenticate", "ft_reassociate", "set_station",
         "nr_frame"}
        \cup DeauthCmds \cup KeyCmds

\* The life of netdev->sm, the eapol_sm of the connection.
SmStates == {"none", "created", "started", "installed"}

\* What cfg80211/mac80211 holds for the link (the environment).
KernelLinks == {"idle", "connecting", "associated", "ft_auth", "ft_authed",
                "ft_reassoc"}

\* The fields of struct netdev that netdev.c's STA code reads and writes.
\* connect_cb, disconnect_cb and neighbor_report_cb hold the request whose
\* callback they are (0 is NULL); event_filter is TRUE when set; ids are 0
\* when none; neighbor_report_timeout is TRUE while the l_timeout exists.
IdFields == {"connect_cmd_id", "disconnect_cmd_id", "pairwise_new_key_cmd_id",
             "pairwise_set_key_cmd_id", "group_new_key_cmd_id",
             "group_management_new_key_cmd_id"}

NetdevIdle ==
    [connected |-> FALSE, operational |-> FALSE, in_ft |-> FALSE,
     is_rsn |-> FALSE, connect_cb |-> 0, event_filter |-> FALSE,
     disconnect_cb |-> 0, result |-> "ok", sm |-> "none",
     connect_cmd_id |-> 0, disconnect_cmd_id |-> 0,
     pairwise_new_key_cmd_id |-> 0, pairwise_set_key_cmd_id |-> 0,
     group_new_key_cmd_id |-> 0, group_management_new_key_cmd_id |-> 0,
     neighbor_report_cb |-> 0, neighbor_report_timeout |-> FALSE]

VARIABLES
    netdev,    \* the STA fields of struct netdev
    genl,      \* nl80211 requests not yet answered, in send order
    rtnl,      \* RTM_SETLINK requests whose netdev_operstate_cb is pending
    nextId,    \* the id the next l_genl_family_send returns
    klink,     \* the kernel's link state
    kauth,     \* the kernel has the AP authorized (SET_STATION done)
    req,       \* requests made so far (connect or fast transition)
    conn,      \* netdev_connect calls so far; commands are tagged with it
    answers,   \* answers[r]: the results connect_cb delivered for request r
    notified,  \* requests whose event_filter got a DISCONNECT/LOST_BEACON
    accepted,  \* requests whose CONNECT event netdev_connect_event accepted
    keyFailed, \* requests for which netdev_setting_keys_failed ran
    dcalls,    \* requests that a netdev_disconnect call returning 0 ended
    danswers,  \* danswers[r]: times that disconnect_cb was called
    nr,        \* netdev_neighbor_report_req calls that returned 0
    nrAnswers, \* nrAnswers[n]: for each call of request n's callback, the
               \* request whose reply or response it delivered, 0 for a
               \* local outcome (-ETIMEDOUT, -ENOTCONN)
    nrAir      \* Neighbor Report Responses the AP sent, not yet received:
               \* [nr, conn], the request and the connection it came in

kernel == <<klink, kauth>>
ghost == <<req, conn, dcalls, nr, nrAir>>
vars == <<netdev, genl, rtnl, nextId, klink, kauth, req, conn, answers,
          notified, accepted, keyFailed, dcalls, danswers, nr, nrAnswers,
          nrAir>>

\* The part of the state a handler changes, as one record.
Cur == [netdev |-> netdev, genl |-> genl, rtnl |-> rtnl, nextId |-> nextId,
        answers |-> answers, notified |-> notified, accepted |-> accepted,
        keyFailed |-> keyFailed, danswers |-> danswers,
        nrAnswers |-> nrAnswers]

\* The record is bound once (\E over a singleton), so that evaluating a
\* handler's chain of calls does not repeat it for every variable.
Commit(s) ==
    \E c \in {s} :
        /\ netdev' = c.netdev
        /\ genl' = c.genl
        /\ rtnl' = c.rtnl
        /\ nextId' = c.nextId
        /\ answers' = c.answers
        /\ notified' = c.notified
        /\ accepted' = c.accepted
        /\ keyFailed' = c.keyFailed
        /\ danswers' = c.danswers
        /\ nrAnswers' = c.nrAnswers

Set(s, f, v) == [s EXCEPT !.netdev[f] = v]

(***************************************************************************)
(* ell: l_genl_family_send and l_genl_family_cancel.                       *)
(***************************************************************************)
Send(s, c, k) ==
    [s EXCEPT !.genl = Append(@, [id |-> s.nextId, cmd |-> c, live |-> TRUE,
                                  conn |-> k, nr |-> 0]),
              !.nextId = @ + 1]

Cancel(s, id) ==
    IF id = 0 THEN s
    ELSE IF s.genl # <<>> /\ Head(s.genl).id = id
         THEN [s EXCEPT !.genl[1].live = FALSE]
         ELSE [s EXCEPT !.genl = SelectSeq(@, LAMBDA e : e.id # id)]

\* connect_cb(netdev, res, user_data), cb the request it was saved for.
ConnectCb(s, cb, res) == [s EXCEPT !.answers[cb] = Append(@, res)]

\* neighbor_report_cb(netdev, ...) with what request m's reply or response
\* carried (0: a local outcome); the callback and its timeout are cleared.
NrCb(s, m) ==
    [s EXCEPT !.nrAnswers[s.netdev.neighbor_report_cb] = Append(@, m),
              !.netdev.neighbor_report_cb = 0,
              !.netdev.neighbor_report_timeout = FALSE]

\* event_filter(netdev, DISCONNECT_BY_AP / DISCONNECT_BY_SME / LOST_BEACON)
Notify(s) == [s EXCEPT !.notified = @ \cup {req}]

(***************************************************************************)
(* Teardown.                                                               *)
(***************************************************************************)
\* The four key-installation commands are cancelled and forgotten.
CancelKeyCmds(s) ==
    LET n == s.netdev
        c == Cancel(Cancel(Cancel(Cancel(s, n.pairwise_new_key_cmd_id),
                n.pairwise_set_key_cmd_id), n.group_new_key_cmd_id),
                n.group_management_new_key_cmd_id)
    IN  [c EXCEPT !.netdev.pairwise_new_key_cmd_id = 0,
                  !.netdev.pairwise_set_key_cmd_id = 0,
                  !.netdev.group_new_key_cmd_id = 0,
                  !.netdev.group_management_new_key_cmd_id = 0]

\* Frees sm and handshake, answers a neighbor report with -ENOTCONN,
\* clears the connection; cancels connect_cmd_id, or else
\* disconnect_cmd_id.
netdev_connect_free(s) ==
    LET n == s.netdev
        r == IF n.neighbor_report_cb # 0 THEN NrCb(s, 0) ELSE s
        k == CancelKeyCmds(r)
        c == IF n.connect_cmd_id # 0 THEN Cancel(k, n.connect_cmd_id)
                                     ELSE Cancel(k, n.disconnect_cmd_id)
    IN  [c EXCEPT !.netdev = [@ EXCEPT
            !.sm = "none", !.is_rsn = FALSE, !.operational = FALSE,
            !.connected = FALSE, !.connect_cb = 0, !.event_filter = FALSE,
            !.result = "ok", !.in_ft = FALSE, !.connect_cmd_id = 0,
            !.disconnect_cmd_id = IF n.connect_cmd_id # 0 THEN @ ELSE 0]]

\* Also the callback of every failure DEAUTHENTICATE ("deauth_failed").
netdev_connect_failed(s) ==
    LET n == s.netdev
        f == netdev_connect_free(Set(s, "disconnect_cmd_id", 0))
    IN  IF n.connect_cb # 0 THEN ConnectCb(f, n.connect_cb, n.result)
        ELSE IF n.event_filter THEN Notify(f)
        ELSE f

\* Fault variant: the id stored is the counter after the send.
send_deauth_id_after(s) ==
    LET d == Send(s, "deauth_failed", conn)
    IN  Set(d, "disconnect_cmd_id", d.nextId)

\* A DEAUTHENTICATE whose reply tears the connection down; its id is
\* stored in disconnect_cmd_id (netdev_build_cmd_deauthenticate + send).
SendDeauthFailed(s) ==
    Set(Send(s, "deauth_failed", conn), "disconnect_cmd_id", s.nextId)

\* Fault variant: disconnect_cmd_id is not cleared when the reply arrives.
deauth_cb_keeps_id(s, ok) ==
    IF s.netdev.disconnect_cb = 0 THEN s
    ELSE [s EXCEPT !.netdev.disconnect_cb = 0,
                   !.danswers[s.netdev.disconnect_cb] = @ + 1]

netdev_cmd_deauthenticate_cb(s, ok) ==
    LET d == Set(s, "disconnect_cmd_id", 0)
    IN  IF s.netdev.disconnect_cb = 0 THEN d
        ELSE [d EXCEPT !.netdev.disconnect_cb = 0,
                       !.danswers[s.netdev.disconnect_cb] = @ + 1]

(***************************************************************************)
(* Key installation and authorization.                                     *)
(***************************************************************************)
netdev_setting_keys_failed(s) ==
    [SendDeauthFailed(Set(CancelKeyCmds(s), "result", "key_setting_failed"))
        EXCEPT !.keyFailed = @ \cup {req}]

\* RTM_SETLINK with netdev_operstate_cb: sent, never tracked or cancelled.
netdev_set_linkmode_and_operstate(s) == [s EXCEPT !.rtnl = @ + 1]

\* Fault variant: connect_cb is called but not cleared.
operstate_cb_keeps_cb(s, ok) ==
    IF ~s.netdev.connected THEN s
    ELSE IF ~ok THEN SendDeauthFailed(Set(s, "result", "key_setting_failed"))
    ELSE LET o == Set(s, "operational", TRUE)
         IN  IF s.netdev.connect_cb = 0 THEN o
             ELSE ConnectCb(o, s.netdev.connect_cb, "ok")

netdev_operstate_cb(s, ok) ==
    IF ~s.netdev.connected THEN s
    ELSE IF ~ok THEN SendDeauthFailed(Set(s, "result", "key_setting_failed"))
    ELSE LET o == Set(s, "operational", TRUE)
         IN  IF s.netdev.connect_cb = 0 THEN o
             ELSE Set(ConnectCb(o, s.netdev.connect_cb, "ok"), "connect_cb", 0)

netdev_set_station_cb(s, ok) ==
    IF ~s.netdev.connected THEN s
    ELSE IF ~ok THEN netdev_setting_keys_failed(s)
    ELSE netdev_set_linkmode_and_operstate(s)

\* On success SET_STATION (authorize) is sent with no id kept.
netdev_new_group_key_cb(s, ok) ==
    LET g == Set(s, "group_new_key_cmd_id", 0)
    IN  IF ok THEN Send(g, "set_station", conn)
        ELSE netdev_setting_keys_failed(g)

netdev_new_group_management_key_cb(s, ok) ==
    LET g == Set(s, "group_management_new_key_cmd_id", 0)
    IN  IF ok THEN g ELSE netdev_setting_keys_failed(g)

netdev_set_pairwise_key_cb(s, ok) ==
    LET g == Set(s, "pairwise_set_key_cmd_id", 0)
    IN  IF ok THEN g ELSE netdev_setting_keys_failed(g)

netdev_new_pairwise_key_cb(s, ok) ==
    LET g == Set(s, "pairwise_new_key_cmd_id", 0)
    IN  IF ok THEN g ELSE netdev_setting_keys_failed(g)

\* The negotiated cipher is CCMP or TKIP, so the switch never fails.
netdev_set_tk(s) ==
    Set(Set(Send(Send(s, "pairwise_new_key", conn), "pairwise_set_key", conn),
            "pairwise_new_key_cmd_id", s.nextId),
        "pairwise_set_key_cmd_id", s.nextId + 1)

\* lenOk: crypto_cipher_key_len(cipher) = gtk_len (the AP chose gtk_len).
netdev_set_gtk(s, lenOk) ==
    IF ~lenOk THEN netdev_setting_keys_failed(s)
    ELSE Set(Send(s, "group_new_key", conn), "group_new_key_cmd_id", s.nextId)

netdev_set_igtk(s, lenOk) ==
    IF ~lenOk THEN netdev_setting_keys_failed(s)
    ELSE Set(Send(s, "group_management_new_key", conn),
             "group_management_new_key_cmd_id", s.nextId)

netdev_handshake_failed(s) ==
    SendDeauthFailed(Set(Set(s, "sm", "none"), "result", "handshake_failed"))

(***************************************************************************)
(* Association and fast transition.                                        *)
(***************************************************************************)
\* Fault variant: a failed CONNECT records the result but does not fail
\* the connection.
cmd_connect_cb_no_fail(s, ok) ==
    LET c == Set(s, "connect_cmd_id", 0)
    IN  IF ok THEN c ELSE Set(c, "result", "association_failed")

netdev_cmd_connect_cb(s, ok) ==
    LET c == Set(s, "connect_cmd_id", 0)
    IN  IF ok THEN c   \* ASSOCIATING event; eapol_register(sm)
        ELSE netdev_connect_failed(Set(c, "result", "association_failed"))

\* o: "success"; "bad_ies" (a duplicate RSNE/MDE/FTE or an FT IE check of
\* netdev_handle_associate_resp_ies failing); "reject" (TIMED_OUT or a
\* status code other than 0).  ftGtk: the FTE of an FT reassociation
\* response carries a GTK, which is installed before the PTK.
netdev_connect_event(s, o, ftGtk) ==
    LET n == s.netdev
        a == [s EXCEPT !.accepted = @ \cup {req},
                       !.netdev.sm = IF @ = "none" THEN "none"
                                     ELSE IF n.in_ft THEN "installed"
                                     ELSE "started"]
        g == IF n.is_rsn /\ ftGtk THEN netdev_set_gtk(a, TRUE) ELSE a
        k == IF n.is_rsn THEN netdev_set_tk(g) ELSE g
        f == Set(Set(k, "in_ft", FALSE), "operational", TRUE)
    IN  IF ~n.connected THEN s
        ELSE IF o # "success"
             THEN netdev_connect_failed(Set(s, "result", "association_failed"))
        ELSE IF n.in_ft
             THEN IF n.connect_cb = 0 THEN f
                  ELSE Set(ConnectCb(f, n.connect_cb, "ok"), "connect_cb", 0)
        ELSE IF n.is_rsn THEN a   \* 4WAY_HANDSHAKE: the EAPoL engine runs
        ELSE netdev_set_linkmode_and_operstate(a)

netdev_cmd_authenticate_ft_cb(s, ok) ==
    LET c == Set(s, "connect_cmd_id", 0)
    IN  IF ok THEN c
        ELSE netdev_connect_failed(Set(c, "result", "authentication_failed"))

\* o: "ok"; "bad_ies" (ft_error: the RSNE/MDE/FTE of the FT authentication
\* response do not match); "reject" (auth_error: TIMED_OUT, no frame or a
\* nonzero status).
netdev_authenticate_event(s, o) ==
    IF ~s.netdev.in_ft THEN s
    ELSE IF o = "reject"
         THEN netdev_connect_failed(Set(s, "result", "authentication_failed"))
    ELSE IF o = "bad_ies"
         THEN SendDeauthFailed(Set(s, "result", "authentication_failed"))
    ELSE Set(Send(s, "ft_reassociate", conn), "connect_cmd_id", s.nextId)

netdev_cmd_ft_reassociate_cb(s, ok) ==
    LET c == Set(s, "connect_cmd_id", 0)
    IN  IF ok THEN c
        ELSE SendDeauthFailed(Set(c, "result", "association_failed"))

\* Ignored while not connected, while a DEAUTHENTICATE is pending and
\* during a fast transition; only a disconnect by the AP is reported.
netdev_disconnect_event(s, byAp) ==
    LET n == s.netdev
        f == netdev_connect_free(s)
    IN  IF ~n.connected \/ n.disconnect_cmd_id > 0 \/ n.in_ft THEN s
        ELSE IF byAp /\ n.event_filter THEN Notify(f)
        ELSE f

netdev_lost_beacon(s) ==
    IF ~s.netdev.connected THEN s
    ELSE netdev_connect_free(IF s.netdev.event_filter THEN Notify(s) ELSE s)

(***************************************************************************)
(* Neighbor report (802.11k).  The request frame is sent without keeping   *)
(* its id; any Neighbor Report Response answers the waiting callback (the  *)
(* dialog token is not checked).                                           *)
(***************************************************************************)
\* Fault variant: the error is reported but the callback is not cleared.
req_cb_keeps_cb(s, ok, m) ==
    IF s.netdev.neighbor_report_cb = 0 \/ ok THEN s
    ELSE [s EXCEPT !.nrAnswers[s.netdev.neighbor_report_cb] = Append(@, m),
                   !.netdev.neighbor_report_timeout = FALSE]

\* A failed CMD_FRAME reply answers the callback with the error of the
\* request m it belonged to.
netdev_neighbor_report_req_cb(s, ok, m) ==
    IF s.netdev.neighbor_report_cb = 0 \/ ok THEN s ELSE NrCb(s, m)

\* neighbor_report_cb is called without a check: with none set that is a
\* call through NULL, which NrTimeoutHasCb excludes.
netdev_neighbor_report_timeout(s) ==
    IF s.netdev.neighbor_report_cb = 0 THEN s ELSE NrCb(s, 0)

\* Fault variant: the response clears the callback but leaves the
\* l_timeout armed.
frame_event_keeps_timeout(s, m) ==
    IF s.netdev.neighbor_report_cb = 0 THEN s
    ELSE [NrCb(s, m) EXCEPT !.netdev.neighbor_report_timeout = TRUE]

\* A Neighbor Report Response carrying request m's report.
netdev_radio_measurement_frame_event(s, m) ==
    IF s.netdev.neighbor_report_cb = 0 THEN s ELSE NrCb(s, m)

\* CMD_FRAME carrying request n's Neighbor Report Request; its id is
\* returned but netdev_neighbor_report_req does not keep it.
netdev_send_action_frame(s, n) ==
    [s EXCEPT !.genl = Append(@, [id |-> s.nextId, cmd |-> "nr_frame",
                                  live |-> TRUE, conn |-> conn, nr |-> n]),
              !.nextId = @ + 1]

\* Fault variant: the request is sent without its l_timeout.
neighbor_report_req_no_timeout(s, n) ==
    [netdev_send_action_frame(s, n) EXCEPT !.netdev.neighbor_report_cb = n]

\* netdev_neighbor_report_req for request n, past its -EBUSY check: the
\* frame, the callback, a 3-second l_timeout.
netdev_neighbor_report_req(s, n) ==
    [netdev_send_action_frame(s, n) EXCEPT
        !.netdev.neighbor_report_cb = n,
        !.netdev.neighbor_report_timeout = TRUE]

(***************************************************************************)
(* The caller: station.c.                                                  *)
(***************************************************************************)
Init ==
    /\ netdev = NetdevIdle
    /\ genl = <<>>
    /\ rtnl = 0
    /\ nextId = 1
    /\ klink = "idle"
    /\ kauth = FALSE
    /\ req = 0
    /\ conn = 0
    /\ answers = [r \in Reqs |-> <<>>]
    /\ notified = {}
    /\ accepted = {}
    /\ keyFailed = {}
    /\ dcalls = {}
    /\ danswers = [r \in Reqs |-> 0]
    /\ nr = 0
    /\ nrAnswers = [n \in Nrs |-> <<>>]
    /\ nrAir = {}

\* netdev_connect + netdev_connect_common; an eapol_sm only for RSN.
Connect(rsn) ==
    /\ ~netdev.connected
    /\ req < MaxReqs
    /\ LET s == Send(Cur, "connect", conn + 1)
       IN  Commit([s EXCEPT !.netdev = [@ EXCEPT
                    !.connect_cmd_id = Cur.nextId, !.event_filter = TRUE,
                    !.connect_cb = req + 1, !.connected = TRUE,
                    !.is_rsn = rsn, !.sm = IF rsn THEN "created" ELSE "none"]])
    /\ req' = req + 1
    /\ conn' = conn + 1
    \* Responses sent during an earlier association are not received.
    /\ nrAir' = {}
    /\ UNCHANGED <<kernel, dcalls, nr>>

\* netdev_disconnect: before the connection is operational it is failed
\* with ABORTED, then the DEAUTHENTICATE is sent; disconnect_cb is set last.
Disconnect ==
    /\ netdev.connected
    /\ netdev.disconnect_cmd_id = 0
    /\ LET f == IF ~netdev.operational
                THEN netdev_connect_failed(Set(Cur, "result", "aborted"))
                ELSE netdev_connect_free(Cur)
           d == Send(f, "deauth_user", conn)
       IN  Commit(Set(Set(d, "disconnect_cmd_id", f.nextId),
                      "disconnect_cb", req))
    /\ dcalls' = dcalls \cup {req}
    /\ UNCHANGED <<kernel, req, conn, nr, nrAir>>

\* netdev_neighbor_report_req returning 0 (connected, none pending).
NeighborReportReq ==
    /\ nr < MaxNr
    /\ netdev.connected
    /\ netdev.neighbor_report_cb = 0
    /\ Commit(netdev_neighbor_report_req(Cur, nr + 1))
    /\ nr' = nr + 1
    /\ UNCHANGED <<kernel, req, conn, dcalls, nrAir>>

\* netdev_fast_transition to a target in the same mobility domain.
FastTransition ==
    /\ netdev.operational
    /\ req < MaxReqs
    /\ LET a == Send(Cur, "ft_authenticate", conn)
           c == Cancel(Cancel(a, netdev.group_new_key_cmd_id),
                       netdev.group_management_new_key_cmd_id)
       IN  Commit([c EXCEPT !.netdev = [@ EXCEPT
                    !.connect_cmd_id = Cur.nextId,
                    !.sm = IF @ = "none" THEN "none" ELSE "created",
                    !.operational = FALSE, !.in_ft = TRUE,
                    !.connect_cb = req + 1, !.group_new_key_cmd_id = 0,
                    !.group_management_new_key_cmd_id = 0]])
    /\ req' = req + 1
    /\ UNCHANGED <<kernel, conn, dcalls, nr, nrAir>>

(***************************************************************************)
(* The kernel executes the head command and its reply is dispatched.       *)
(***************************************************************************)
KernelAccepts(c) ==
    CASE c = "connect"         -> klink = "idle"
      [] c = "ft_authenticate" -> klink = "associated"
      [] c = "ft_reassociate"  -> klink = "ft_authed"
      [] c \in DeauthCmds      -> TRUE
      [] OTHER                 -> klink = "associated"

KernelExecute(c, ok) ==
    /\ ok => KernelAccepts(c)
    /\ klink' = CASE c \in DeauthCmds                -> "idle"
                  [] ok /\ c = "connect"             -> "connecting"
                  [] ok /\ c = "ft_authenticate"     -> "ft_auth"
                  [] ok /\ c = "ft_reassociate"      -> "ft_reassoc"
                  [] OTHER                           -> klink
    /\ kauth' = CASE c \in DeauthCmds                -> FALSE
                  [] ok /\ c = "ft_authenticate"     -> FALSE
                  [] ok /\ c = "set_station"         -> TRUE
                  [] OTHER                           -> kauth

\* The reply to a request sent with callback Cb.
Reply(c, Cb(_, _)) ==
    /\ genl # <<>>
    /\ Head(genl).cmd = c
    /\ Head(genl).live
    /\ \E ok \in BOOLEAN :
          /\ KernelExecute(c, ok)
          /\ Commit(Cb([Cur EXCEPT !.genl = Tail(@)], ok))
    /\ UNCHANGED ghost

ConnectFailedCb(s, ok) == netdev_connect_failed(s)

CmdConnectReply       == Reply("connect", netdev_cmd_connect_cb)
CmdFtAuthReply        == Reply("ft_authenticate", netdev_cmd_authenticate_ft_cb)
CmdFtReassocReply     == Reply("ft_reassociate", netdev_cmd_ft_reassociate_cb)
DeauthFailedReply     == Reply("deauth_failed", ConnectFailedCb)
DeauthUserReply       == Reply("deauth_user", netdev_cmd_deauthenticate_cb)
PairwiseNewKeyReply   == Reply("pairwise_new_key", netdev_new_pairwise_key_cb)
PairwiseSetKeyReply   == Reply("pairwise_set_key", netdev_set_pairwise_key_cb)
GroupNewKeyReply      == Reply("group_new_key", netdev_new_group_key_cb)
GroupMgmtNewKeyReply  == Reply("group_management_new_key",
                               netdev_new_group_management_key_cb)
SetStationReply       == Reply("set_station", netdev_set_station_cb)

\* The CMD_FRAME reply; when the frame went out the AP may answer it.
NrFrameReply ==
    /\ genl # <<>>
    /\ Head(genl).cmd = "nr_frame"
    /\ Head(genl).live
    /\ \E ok \in BOOLEAN :
          /\ KernelExecute("nr_frame", ok)
          /\ Commit(netdev_neighbor_report_req_cb([Cur EXCEPT !.genl = Tail(@)],
                                                 ok, Head(genl).nr))
          /\ nrAir' = IF ok THEN nrAir \cup {[nr |-> Head(genl).nr,
                                              conn |-> Head(genl).conn]}
                     ELSE nrAir
    /\ UNCHANGED <<req, conn, dcalls, nr>>

\* A cancelled request that was already written: the kernel still executes
\* it, ell drops the reply.
CancelledReply ==
    /\ genl # <<>>
    /\ ~Head(genl).live
    /\ \E ok \in BOOLEAN : KernelExecute(Head(genl).cmd, ok)
    /\ genl' = Tail(genl)
    /\ UNCHANGED <<netdev, rtnl, nextId, answers, notified, accepted,
                   keyFailed, danswers, nrAnswers, ghost>>

OperstateReply ==
    /\ rtnl > 0
    /\ \E ok \in BOOLEAN :
          Commit(netdev_operstate_cb([Cur EXCEPT !.rtnl = @ - 1], ok))
    /\ UNCHANGED <<kernel, ghost>>

(***************************************************************************)
(* nl80211 MLME events (netdev_mlme_notify).                               *)
(***************************************************************************)
ConnectEvent ==
    /\ klink \in {"connecting", "ft_reassoc"}
    /\ \E o \in {"success", "bad_ies", "reject"}, ftGtk \in BOOLEAN :
          /\ ftGtk => netdev.in_ft
          /\ klink' = IF o = "reject" THEN "idle" ELSE "associated"
          /\ Commit(netdev_connect_event(Cur, o, ftGtk))
    /\ UNCHANGED <<kauth, ghost>>

AuthenticateEvent ==
    /\ klink = "ft_auth"
    /\ \E o \in {"ok", "bad_ies", "reject"} :
          /\ klink' = IF o = "reject" THEN "idle" ELSE "ft_authed"
          /\ Commit(netdev_authenticate_event(Cur, o))
    /\ UNCHANGED <<kauth, ghost>>

\* The kernel drops the link; byAp: NL80211_ATTR_DISCONNECTED_BY_AP.
DisconnectEvent ==
    /\ klink = "associated"
    /\ \E byAp \in BOOLEAN : Commit(netdev_disconnect_event(Cur, byAp))
    /\ klink' = "idle"
    /\ kauth' = FALSE
    /\ UNCHANGED ghost

\* NOTIFY_CQM with BEACON_LOSS_EVENT (netdev_cqm_event): the kernel keeps
\* the link, netdev_lost_beacon forgets it.
CqmBeaconLoss ==
    /\ klink = "associated"
    /\ Commit(netdev_lost_beacon(Cur))
    /\ UNCHANGED <<kernel, ghost>>

(***************************************************************************)
(* The EAPoL engine (eapol.c, not in this repository): once started on an  *)
(* associated link the 4-way handshake either completes, installing the    *)
(* PTK then the GTK then (with MFP) the IGTK through the functions netdev  *)
(* registers, or fails (also on its timeout) through netdev_handshake_     *)
(* failed.  gtkOk/igtkOk: the key lengths the AP sent match the cipher.    *)
(***************************************************************************)
EapolHandshakeDone ==
    /\ netdev.sm = "started"
    /\ klink = "associated"
    /\ \E gtkOk, mfp \in BOOLEAN, igtkOk \in BOOLEAN :
          /\ ~mfp => igtkOk
          /\ LET k == netdev_set_tk(Set(Cur, "sm", "installed"))
                 g == netdev_set_gtk(k, gtkOk)
             IN  Commit(IF mfp THEN netdev_set_igtk(g, igtkOk) ELSE g)
    /\ UNCHANGED <<kernel, ghost>>

EapolHandshakeFailed ==
    /\ netdev.sm = "started"
    /\ Commit(netdev_handshake_failed(Cur))
    /\ UNCHANGED <<kernel, ghost>>

\* The 3-second l_timeout: netdev_neighbor_report_timeout.
NrTimeout ==
    /\ netdev.neighbor_report_timeout
    /\ Commit(netdev_neighbor_report_timeout(Cur))
    /\ UNCHANGED <<kernel, ghost>>

\* A Neighbor Report Response of the current association is received
\* (netdev_mgmt_frame_event, netdev_action_frame_event); the AP may also
\* never send it.
NrResponse ==
    /\ klink = "associated"
    /\ \E a \in nrAir :
          /\ a.conn = conn
          /\ nrAir' = nrAir \ {a}
          /\ Commit(netdev_radio_measurement_frame_event(Cur, a.nr))
    /\ UNCHANGED <<kernel, req, conn, dcalls, nr>>

(***************************************************************************)
(* The specification.                                                      *)
(***************************************************************************)
Next ==
    \/ \E rsn \in BOOLEAN : Connect(rsn)
    \/ Disconnect
    \/ FastTransition
    \/ CmdConnectReply
    \/ CmdFtAuthReply
    \/ CmdFtReassocReply
    \/ DeauthFailedReply
    \/ DeauthUserReply
    \/ PairwiseNewKeyReply
    \/ PairwiseSetKeyReply
    \/ GroupNewKeyReply
    \/ GroupMgmtNewKeyReply
    \/ SetStationReply
    \/ CancelledReply
    \/ OperstateReply
    \/ ConnectEvent
    \/ AuthenticateEvent
    \/ DisconnectEvent
    \/ CqmBeaconLoss
    \/ EapolHandshakeDone
    \/ EapolHandshakeFailed
    \/ NeighborReportReq
    \/ NrFrameReply
    \/ NrTimeout
    \/ NrResponse

\* Any reply: only the head of genl can be answered, so weak fairness on
\* the disjunction is weak fairness on each reply.
GenlReply ==
    \/ CmdConnectReply \/ CmdFtAuthReply \/ CmdFtReassocReply
    \/ DeauthFailedReply \/ DeauthUserReply \/ PairwiseNewKeyReply
    \/ PairwiseSetKeyReply \/ GroupNewKeyReply \/ GroupMgmtNewKeyReply
    \/ SetStationReply \/ NrFrameReply \/ CancelledReply

\* The kernel answers every request and reports the result of every
\* connect and FT authentication (cfg80211 times them out); rtnl answers
\* RTM_SETLINK; the EAPoL engine finishes or times out; ell runs a due
\* l_timeout.  The caller, the AP and the radio (disconnects, beacon loss,
\* neighbor reports) owe nothing.
Progress ==
    \/ GenlReply
    \/ OperstateReply
    \/ ConnectEvent
    \/ AuthenticateEvent
    \/ EapolHandshakeDone \/ EapolHandshakeFailed
    \/ NrTimeout

\* Every Progress step consumes a reply or moves the link or the eapol_sm
\* forward, so Progress alone cannot go on for ever and weak fairness on
\* it is weak fairness on each of its disjuncts.
Fairness == WF_vars(Progress)

Spec == Init /\ [][Next]_vars /\ Fairness

(***************************************************************************)
(* Properties.                                                             *)
(***************************************************************************)
\* The ids l_genl_family_send has returned so far, and 0.
Ids == 0..(nextId - 1)

\* Every variable holds a value of its type.
TypeOK ==
    /\ netdev \in [connected : BOOLEAN, operational : BOOLEAN,
                   in_ft : BOOLEAN, is_rsn : BOOLEAN,
                   connect_cb : 0..MaxReqs, event_filter : BOOLEAN,
                   disconnect_cb : 0..MaxReqs, result : Results,
                   sm : SmStates, connect_cmd_id : Ids,
                   disconnect_cmd_id : Ids, pairwise_new_key_cmd_id : Ids,
                   pairwise_set_key_cmd_id : Ids, group_new_key_cmd_id : Ids,
                   group_management_new_key_cmd_id : Ids,
                   neighbor_report_cb : 0..MaxNr,
                   neighbor_report_timeout : BOOLEAN]
    /\ genl \in Seq([id : Ids, cmd : Cmds, live : BOOLEAN, conn : 0..conn,
                     nr : 0..nr])
    /\ rtnl \in Nat
    /\ klink \in KernelLinks
    /\ kauth \in BOOLEAN
    /\ req \in 0..MaxReqs
    /\ answers \in [Reqs -> Seq(Results)]
    /\ notified \cup accepted \cup keyFailed \cup dcalls \subseteq Reqs
    /\ danswers \in [Reqs -> Nat]
    /\ nr \in 0..MaxNr
    /\ nrAnswers \in [Nrs -> Seq(0..MaxNr)]
    /\ nrAir \subseteq [nr : Nrs, conn : 1..conn]

\* connect_cb, disconnect_cb and neighbor_report_cb are each called at most
\* once per request, through every path that calls them:
\* netdev_connect_failed (directly or as a DEAUTHENTICATE callback),
\* netdev_operstate_cb, the FT branch of netdev_connect_event,
\* netdev_cmd_deauthenticate_cb, and for a neighbor report the CMD_FRAME
\* error, the response frame, the timeout and netdev_connect_free, which
\* race each other.
AtMostOnceCallbacks ==
    /\ \A r \in Reqs : Len(answers[r]) <= 1 /\ danswers[r] <= 1
    /\ \A n \in Nrs : Len(nrAnswers[n]) <= 1

\* Every command id stored in struct netdev names a request still pending
\* whose callback will run: no id is left behind by a callback that
\* forgot to clear it or by a cancel that missed it.
TrackedIdsOutstanding ==
    \A f \in IdFields :
        netdev[f] # 0 =>
            \E i \in DOMAIN genl : genl[i].id = netdev[f] /\ genl[i].live

\* A connection attempt never hangs: once netdev_connect or
\* netdev_fast_transition has been accepted, the netdev either becomes
\* operational or stops being connected.
NoStuckAttempt ==
    netdev.connected ~> (netdev.operational \/ ~netdev.connected)

\* A netdev_disconnect that returned 0 keeps its disconnect_cb installed
\* until netdev_cmd_deauthenticate_cb calls it: no later netdev_disconnect
\* replaces it, so the first caller is always answered.  The -EINPROGRESS
\* guard relies on disconnect_cmd_id, which netdev_connect_failed clears.
DisconnectCbKept ==
    \A r \in dcalls : danswers[r] = 0 => netdev.disconnect_cb = r

\* connect_cb reports NETDEV_RESULT_OK to a request only after
\* netdev_connect_event accepted the association of that request
\* (netdev_operstate_cb, whose rtnl request is never cancelled).
OkOnlyAfterAssociation ==
    \A r \in Reqs :
        (answers[r] # <<>> /\ answers[r][1] = "ok") => r \in accepted

\* Once a key command of the batch has failed (netdev_setting_keys_failed)
\* the kernel does not authorize the AP for that request: spec.md 5.2,
\* "any failure cancels the remaining commands in this batch".
NoAuthorizeAfterKeyFailure ==
    kauth => req \notin keyFailed

\* No DEAUTHENTICATE whose callback is netdev_connect_failed, sent for an
\* earlier connection, is still pending while a later connection is up: its
\* reply would tear the later one down (netdev_setting_keys_failed
\* overwriting disconnect_cmd_id).
NoStaleTeardownPending ==
    \A i \in DOMAIN genl :
        (genl[i].cmd = "deauth_failed" /\ genl[i].live /\ netdev.connected)
            => genl[i].conn = conn

\* Every request accepted by netdev_connect or netdev_fast_transition is
\* eventually answered: connect_cb is called, or the event_filter hears of
\* the disconnection (spec.md 8.1, exactly-once completion).
EveryRequestAnswered ==
    \A r \in Reqs : r <= req ~> (answers[r] # <<>> \/ r \in notified)

\* The neighbor report l_timeout exists exactly while a callback waits:
\* netdev_neighbor_report_timeout calls neighbor_report_cb without a
\* check, so every path that clears the callback (the CMD_FRAME error,
\* the response, netdev_connect_free) must remove the timeout, and no
\* request may leave a callback without one.
NrTimeoutHasCb ==
    netdev.neighbor_report_timeout <=> netdev.neighbor_report_cb # 0

\* Every neighbor report request that netdev_neighbor_report_req accepted
\* is eventually answered, by its reply, a response, its timeout or the
\* end of the connection, whatever the AP does.  The callback is cleared
\* only by answering it and requests are bounded, so this is: always,
\* eventually no callback waits.
EveryNeighborReportAnswered ==
    []<>(netdev.neighbor_report_cb = 0)

\* A neighbor report callback is given only what its own request
\* produced: the error of its own CMD_FRAME, a response to its own
\* frame, or a local outcome.  The frame's id is not kept and the dialog
\* token is not checked, so the reply or response of an earlier request
\* can answer a later one.
NrOwnAnswer ==
    \A n \in Nrs : \A k \in DOMAIN nrAnswers[n] : nrAnswers[n][k] \in {0, n}

=============================================================================
