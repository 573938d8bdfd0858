------------------------------ MODULE ApStation ------------------------------
(***************************************************************************)
(* The per-station state machine of the soft AP, src/src/ap.c: the         *)
(* sta_state records kept in ap->sta_states, driven by                     *)
(*   - management frames from the stations (ap_auth_cb, ap_assoc_req_cb,   *)
(*     ap_reassoc_req_cb, ap_disassoc_cb, ap_deauth_cb);                   *)
(*   - the TX status of the (Re)Association Response (frame_xchg callback  *)
(*     ap_success_assoc_resp_cb);                                          *)
(*   - replies to nl80211 commands (ap_associate_sta_cb, ap_gtk_query_cb); *)
(*   - nl80211 NEW_STATION / DEL_STATION events (ap_mlme_notify);          *)
(*   - the authenticator-side EAPoL engine (ap_handshake_event,            *)
(*     ap_wsc_handshake_event).                                            *)
(*                                                                         *)
(* Each runs to completion on the ell main loop: one atomic action.  As in *)
(* NetdevConnect, a handler threads a record of the state (Cur) through    *)
(* operators named after the C functions and ends with Commit.             *)
(*                                                                         *)
(* Two id spaces: l_genl_family_send numbers nl80211 requests (nextId),    *)
(* frame_xchg_start numbers frame exchanges (nextFid).  sta->assoc_resp_   *)
(* cmd_id holds a frame exchange id, yet ap.c cancels it with              *)
(* l_genl_family_cancel, which acts on the nl80211 request of that number, *)
(* if any; the frame exchange itself goes on.                              *)
(*                                                                         *)
(* A station is identified by its MAC (Stas); each l_new of a sta_state is *)
(* a fresh instance (inst), so that a callback whose user_data is a freed  *)
(* sta_state is told apart from one for the MAC's current record.          *)
(***************************************************************************)
EXTENDS Integers, Sequences, FiniteSets

CONSTANTS
    Stas,        \* station MAC addresses
    MaxFrames,   \* frames and station events explored per station
    LastAidInit  \* ap->last_aid when exploration starts

\* 802.11-2016 9.4.1.8: AIDs are 1..2007; sta->aid is a uint16_t.
AidLimit == 2007
U16 == 65536

ASSUME /\ MaxFrames \in Nat
       /\ LastAidInit \in 0..(U16 - 1)

\* The authenticator handshake of the station: none, the 4-way handshake
\* running (ap_start_rsna) or completed (its eapol_sm is kept), EAP-WSC
\* (ap_start_eap_wsc), or EAP-WSC failed with the l_idle of
\* ap_stop_handshake_schedule pending.
HsStates == {"none", "psk", "psk_done", "wsc", "wsc_failed"}

\* nl80211 requests whose callback uses the sta_state: NEW_STATION or
\* SET_STATION with ap_associate_sta_cb, GET_KEY with ap_gtk_query_cb.
Cmds == {"associate", "get_key"}

StaNew(i) ==
    [inst |-> i, associated |-> FALSE, rsna |-> FALSE, aid |-> 0,
     assoc_resp_cmd_id |-> 0, gtk_query_cmd_id |-> 0, rsne |-> FALSE,
     hs |-> "none"]

VARIABLES
    sta_states,    \* the MACs in ap->sta_states
    sta,           \* sta[s]: the sta_state of s (meaningful in sta_states)
    last_aid,      \* ap->last_aid
    gtk_set,       \* ap->gtk_set
    group_traffic, \* ap->group_cipher != NO_GROUP_TRAFFIC (configuration)
    fullmac,       \* the driver runs (re)association itself (FullMAC)
    genl,          \* nl80211 requests not yet answered, in send order
    nextId,        \* the id the next l_genl_family_send returns
    frames,        \* success (Re)Association Responses awaiting TX status
    nextFid,       \* the id the next frame_xchg_start returns
    nextInst,      \* instances of sta_state allocated so far
    sent,          \* sent[s]: frames and events of s explored so far
    view           \* view[s]: STATION_ADDED minus STATION_REMOVED events

config == <<group_traffic, fullmac>>
vars == <<sta_states, sta, last_aid, gtk_set, config, genl, nextId,
          frames, nextFid, nextInst, sent, view>>

Cur == [sta_states |-> sta_states, sta |-> sta, last_aid |-> last_aid,
        gtk_set |-> gtk_set, genl |-> genl, nextId |-> nextId,
        frames |-> frames, nextFid |-> nextFid, nextInst |-> nextInst,
        view |-> view, group_traffic |-> group_traffic]

Commit(c) ==
    /\ sta_states' = c.sta_states
    /\ sta' = c.sta
    /\ last_aid' = c.last_aid
    /\ gtk_set' = c.gtk_set
    /\ genl' = c.genl
    /\ nextId' = c.nextId
    /\ frames' = c.frames
    /\ nextFid' = c.nextFid
    /\ nextInst' = c.nextInst
    /\ view' = c.view

SetSta(c, s, f, v) == [c EXCEPT !.sta[s][f] = v]

(***************************************************************************)
(* ell and frame_xchg.                                                     *)
(***************************************************************************)
\* l_genl_family_send of a request whose callback uses the sta_state of s.
Send(c, cmd, s) ==
    [c EXCEPT !.genl = Append(@, [id |-> c.nextId, cmd |-> cmd, sta |-> s,
                                  inst |-> c.sta[s].inst, live |-> TRUE]),
              !.nextId = @ + 1]

\* l_genl_family_send of n requests whose callbacks only log.
SendLogOnly(c, n) == [c EXCEPT !.nextId = @ + n]

GenlCancel(c, id) ==
    IF id = 0 THEN c
    ELSE IF c.genl # <<>> /\ Head(c.genl).id = id
         THEN [c EXCEPT !.genl[1].live = FALSE]
         ELSE [c EXCEPT !.genl = SelectSeq(@, LAMBDA e : e.id # id)]

\* frame_xchg_start of a frame whose callback only logs.
SendFrameLogOnly(c) == [c EXCEPT !.nextFid = @ + 1]

(***************************************************************************)
(* Station teardown and the RSNA.                                          *)
(***************************************************************************)
ap_stop_handshake(c, s) == SetSta(c, s, "hs", "none")

\* AP_EVENT_STATION_ADDED / AP_EVENT_STATION_REMOVED to ap->ops.
Event(c, s, d) == [c EXCEPT !.view[s] = @ + d]

ap_del_station(c, s) ==
    LET d == SetSta(c, s, "associated", FALSE)
        r == IF d.sta[s].rsna
             THEN Event(SetSta(d, s, "rsna", FALSE), s, -1)
             ELSE d
        q == SetSta(GenlCancel(r, r.sta[s].gtk_query_cmd_id), s,
                    "gtk_query_cmd_id", 0)
    IN  ap_stop_handshake(q, s)

ap_sta_free(c, s) ==
    ap_stop_handshake(GenlCancel(GenlCancel(c, c.sta[s].assoc_resp_cmd_id),
                                 c.sta[s].gtk_query_cmd_id), s)

ap_remove_sta(c, s) ==
    ap_sta_free([c EXCEPT !.sta_states = @ \ {s}], s)

ap_new_rsna(c, s) == Event(SetSta(c, s, "rsna", TRUE), s, 1)

\* SET_STATION (unauthorized) and DEL_KEY, both with log-only callbacks.
ap_drop_rsna(c, s) ==
    Event(ap_stop_handshake(SendLogOnly(SetSta(c, s, "rsna", FALSE), 2), s),
          s, -1)

\* 802.11-2016 11.3.5.3 j), done before any (re)association response.
DropOrStop(c, s) ==
    IF c.sta[s].rsna THEN ap_drop_rsna(c, s)
    ELSE IF c.sta[s].associated THEN ap_stop_handshake(c, s)
    ELSE c

ap_start_rsna(c, s) == SetSta(c, s, "hs", "psk")

ap_start_eap_wsc(c, s) == SetSta(c, s, "hs", "wsc")

(***************************************************************************)
(* Association.                                                            *)
(***************************************************************************)
\* NEW_STATION (first association) or SET_STATION (associated), sent with
\* ap_associate_sta_cb and user_data sta; its id is not kept.
ap_associate_sta(c, s) ==
    LET a == SetSta(SetSta(c, s, "associated", TRUE), s, "rsna", FALSE)
    IN  Send(a, "associate", s)

\* Fault variant: keeps the id of the request after the GET_KEY.
associate_sta_cb_id_after(c, s, ok) ==
    IF ~ok THEN c
    ELSE IF ~c.sta[s].rsne THEN ap_start_eap_wsc(c, s)
    ELSE LET g == IF c.group_traffic /\ ~c.gtk_set
                  THEN [SendLogOnly(c, 2) EXCEPT !.gtk_set = TRUE]
                  ELSE c
             q == Send(g, "get_key", s)
         IN  IF ~c.group_traffic THEN ap_start_rsna(g, s)
             ELSE SetSta(q, s, "gtk_query_cmd_id", q.nextId)

ap_associate_sta_cb(c, s, ok) ==
    IF ~ok THEN c
    ELSE IF ~c.sta[s].rsne THEN ap_start_eap_wsc(c, s)
    ELSE LET g == IF c.group_traffic /\ ~c.gtk_set
                  THEN [SendLogOnly(c, 2) EXCEPT !.gtk_set = TRUE]
                  ELSE c
         IN  IF ~c.group_traffic THEN ap_start_rsna(g, s)
             ELSE SetSta(Send(g, "get_key", s), s, "gtk_query_cmd_id",
                         g.nextId)

ap_gtk_query_cb(c, s, ok) ==
    LET z == SetSta(c, s, "gtk_query_cmd_id", 0)
    IN  IF ok THEN ap_start_rsna(z, s) ELSE ap_del_station(z, s)

ap_success_assoc_resp_cb(c, s, ok) ==
    LET z == SetSta(c, s, "assoc_resp_cmd_id", 0)
    IN  IF ok THEN ap_associate_sta(z, s)
        ELSE IF z.sta[s].associated THEN ap_del_station(z, s)
        ELSE z

\* ap_assoc_reassoc for an existing station.  o: the request's IEs are
\* accepted with an RSNE ("rsn"), accepted with a WSC IE in PBC mode
\* ("wsc"), or rejected ("bad": every goto unsupported / bad_frame).
\* Fault variant: a new AID also for a station that is already associated.
assoc_reassoc_aid_always(c, s, reassoc, o) ==
    IF c.sta[s].assoc_resp_cmd_id # 0 THEN c
    ELSE IF (reassoc /\ ~c.sta[s].associated) \/ o = "bad"
    THEN SendFrameLogOnly(DropOrStop(c, s))
    ELSE LET d == DropOrStop(c, s)
             a == [SetSta(d, s, "aid", (d.last_aid + 1) % U16)
                      EXCEPT !.last_aid = (@ + 1) % U16]
             r == SetSta(a, s, "rsne", o = "rsn")
         IN  [SetSta(r, s, "assoc_resp_cmd_id", r.nextFid)
                 EXCEPT !.frames = @ \cup {[fid |-> r.nextFid, sta |-> s,
                                            inst |-> r.sta[s].inst]},
                        !.nextFid = @ + 1]

ap_assoc_reassoc(c, s, reassoc, o) ==
    IF c.sta[s].assoc_resp_cmd_id # 0 THEN c
    ELSE IF (reassoc /\ ~c.sta[s].associated) \/ o = "bad"
    THEN SendFrameLogOnly(DropOrStop(c, s))
    ELSE LET d == DropOrStop(c, s)
             a == IF d.sta[s].associated THEN d
                  ELSE [SetSta(d, s, "aid", (d.last_aid + 1) % U16)
                           EXCEPT !.last_aid = (@ + 1) % U16]
             r == SetSta(a, s, "rsne", o = "rsn")
         IN  [SetSta(r, s, "assoc_resp_cmd_id", r.nextFid)
                 EXCEPT !.frames = @ \cup {[fid |-> r.nextFid, sta |-> s,
                                            inst |-> r.sta[s].inst]},
                        !.nextFid = @ + 1]

(***************************************************************************)
(* Actions.                                                                *)
(***************************************************************************)
Init ==
    /\ sta_states = {}
    /\ sta = [s \in Stas |-> StaNew(0)]
    /\ last_aid = LastAidInit
    /\ gtk_set = FALSE
    /\ group_traffic \in BOOLEAN
    /\ fullmac \in BOOLEAN
    /\ genl = <<>>
    /\ nextId = 1
    /\ frames = {}
    /\ nextFid = 1
    /\ nextInst = 0
    /\ sent = [s \in Stas |-> 0]
    /\ view = [s \in Stas |-> 0]

\* A frame or nl80211 event about station s, within the bound.
Frame(s, A) ==
    /\ sent[s] < MaxFrames
    /\ sent' = [sent EXCEPT ![s] = @ + 1]
    /\ A
    /\ UNCHANGED config

\* ap_auth_cb, Open System with sequence 1 from an allowed MAC: a new
\* sta_state unless one exists; the reply frame in both cases.
AuthFrame(s) ==
    /\ ~fullmac
    /\ Frame(s, Commit(SendFrameLogOnly(
        IF s \in sta_states THEN Cur
        ELSE [Cur EXCEPT !.sta_states = @ \cup {s},
                         !.sta[s] = StaNew(nextInst + 1),
                         !.nextInst = @ + 1])))

\* ap_assoc_req_cb and ap_reassoc_req_cb: no sta_state gets an error
\* response, otherwise ap_assoc_reassoc.
AssocFrame(s) ==
    /\ ~fullmac
    /\ \E reassoc \in BOOLEAN, o \in {"rsn", "wsc", "bad"} :
        Frame(s, Commit(IF s \notin sta_states THEN SendFrameLogOnly(Cur)
                        ELSE ap_assoc_reassoc(Cur, s, reassoc, o)))

\* ap_disassoc_cb
DisassocFrame(s) ==
    /\ ~fullmac
    /\ Frame(s, Commit(
        IF s \notin sta_states THEN Cur
        ELSE LET c == IF sta[s].assoc_resp_cmd_id = 0 THEN Cur
                      ELSE SetSta(GenlCancel(Cur, sta[s].assoc_resp_cmd_id),
                                  s, "assoc_resp_cmd_id", 0)
             IN  IF c.sta[s].associated THEN ap_del_station(c, s) ELSE c))

\* ap_deauth_cb
DeauthFrame(s) ==
    /\ ~fullmac
    /\ Frame(s, Commit(
        IF s \notin sta_states THEN Cur
        ELSE ap_sta_free(ap_del_station([Cur EXCEPT !.sta_states = @ \ {s}],
                                        s), s)))

\* NL80211_CMD_NEW_STATION (ap_handle_new_station): a station the driver
\* associated itself, with its RSNE.  A FullMAC driver handles the
\* authentication and (re)association frames itself and reports stations
\* with NEW_STATION / DEL_STATION; with a SoftMAC driver the frames reach
\* ap.c and NEW_STATION only follows ap.c's own (sta_state exists).
NewStationEvent(s) ==
    /\ fullmac
    /\ Frame(s, Commit(
        IF s \in sta_states THEN Cur
        ELSE LET n == [StaNew(nextInst + 1) EXCEPT
                          !.aid = (last_aid + 1) % U16, !.rsne = TRUE,
                          !.associated = TRUE]
             IN  Send([Cur EXCEPT !.sta_states = @ \cup {s}, !.sta[s] = n,
                                  !.nextInst = @ + 1,
                                  !.last_aid = (@ + 1) % U16],
                      "associate", s)))

\* NL80211_CMD_DEL_STATION (ap_handle_del_station)
DelStationEvent(s) ==
    Frame(s, Commit(IF s \notin sta_states THEN Cur
                    ELSE ap_remove_sta(ap_del_station(Cur, s), s)))

\* The user_data of a callback is the sta_state instance i of s.
Alive(s, i) == s \in sta_states /\ sta[s].inst = i

\* TX status of a success (Re)Association Response: ap_success_assoc_resp_
\* cb(err) with user_data sta; ok is err == 0 (the station ACKed).
AssocRespStatus ==
    \E f \in frames, ok \in BOOLEAN :
        /\ Alive(f.sta, f.inst)
        /\ Commit(ap_success_assoc_resp_cb([Cur EXCEPT !.frames = @ \ {f}],
                                           f.sta, ok))
        /\ UNCHANGED <<config, sent>>

\* The reply to the head nl80211 request, for a live sta_state.
Reply(cmd, Cb(_, _, _)) ==
    /\ genl # <<>>
    /\ Head(genl).live
    /\ Head(genl).cmd = cmd
    /\ Alive(Head(genl).sta, Head(genl).inst)
    /\ \E ok \in BOOLEAN :
          Commit(Cb([Cur EXCEPT !.genl = Tail(@)], Head(genl).sta, ok))
    /\ UNCHANGED <<config, sent>>

AssociateReply == Reply("associate", ap_associate_sta_cb)
GetKeyReply == Reply("get_key", ap_gtk_query_cb)

\* The head request was cancelled: its callback is not called.
CancelledReply ==
    /\ genl # <<>>
    /\ ~Head(genl).live
    /\ genl' = Tail(genl)
    /\ UNCHANGED <<sta_states, sta, last_aid, gtk_set, config, nextId,
                   frames, nextFid, nextInst, sent, view>>

\* A callback whose user_data was freed by ap_sta_free: the behaviour is
\* undefined; the model drops the callback (NoCallbackOnFreedStation is
\* violated in the state before).
StaleCallback ==
    \/ /\ genl # <<>>
       /\ Head(genl).live
       /\ ~Alive(Head(genl).sta, Head(genl).inst)
       /\ genl' = Tail(genl)
       /\ UNCHANGED frames
    \/ \E f \in frames :
          /\ ~Alive(f.sta, f.inst)
          /\ frames' = frames \ {f}
          /\ UNCHANGED genl
    /\ UNCHANGED <<sta_states, sta, last_aid, gtk_set, config, nextId,
                   nextFid, nextInst, sent, view>>

(***************************************************************************)
(* The authenticator EAPoL engine (eapol.c, not in this repository), as    *)
(* it calls back ap_handshake_event and ap_wsc_handshake_event.  Its       *)
(* frames reach only an associated station.                               *)
(***************************************************************************)
\* HANDSHAKE_EVENT_COMPLETE: ap_new_rsna.
HandshakeComplete(s) ==
    /\ s \in sta_states
    /\ sta[s].hs = "psk"
    /\ sta[s].associated
    /\ Commit(ap_new_rsna(SetSta(Cur, s, "hs", "psk_done"), s))
    /\ UNCHANGED <<config, sent>>

\* HANDSHAKE_EVENT_FAILED (netdev_handshake_failed sends a DEAUTHENTICATE
\* whose callback does not use the sta_state) or SETTING_KEYS_FAILED:
\* sta->sm = NULL; ap_remove_sta.
HandshakeFailed(s) ==
    /\ s \in sta_states
    /\ sta[s].hs = "psk"
    /\ \E deauth \in {0, 1} :
          Commit(ap_remove_sta(SendLogOnly(Cur, deauth), s))
    /\ UNCHANGED <<config, sent>>

\* ap_wsc_handshake_event(HANDSHAKE_EVENT_FAILED): sm = NULL and
\* ap_stop_handshake_schedule; the station stays associated.
WscHandshakeFailed(s) ==
    /\ s \in sta_states
    /\ sta[s].hs = "wsc"
    /\ Commit(SetSta(Cur, s, "hs", "wsc_failed"))
    /\ UNCHANGED <<config, sent>>

\* The l_idle: ap_stop_handshake_work.
StopHandshakeWork(s) ==
    /\ s \in sta_states
    /\ sta[s].hs = "wsc_failed"
    /\ Commit(ap_stop_handshake(Cur, s))
    /\ UNCHANGED <<config, sent>>

Next ==
    \/ \E s \in Stas :
          \/ AuthFrame(s) \/ AssocFrame(s) \/ DisassocFrame(s)
          \/ DeauthFrame(s) \/ NewStationEvent(s) \/ DelStationEvent(s)
          \/ HandshakeComplete(s) \/ HandshakeFailed(s)
          \/ WscHandshakeFailed(s) \/ StopHandshakeWork(s)
    \/ AssocRespStatus
    \/ AssociateReply
    \/ GetKeyReply
    \/ CancelledReply
    \/ StaleCallback

Spec == Init /\ [][Next]_vars

(***************************************************************************)
(* Properties.                                                             *)
(***************************************************************************)
TypeOK ==
    /\ sta_states \subseteq Stas
    /\ sta \in [Stas -> [inst : 0..nextInst, associated : BOOLEAN,
                         rsna : BOOLEAN, aid : 0..(U16 - 1),
                         assoc_resp_cmd_id : 0..(nextFid - 1),
                         gtk_query_cmd_id : 0..(nextId - 1),
                         rsne : BOOLEAN, hs : HsStates]]
    /\ last_aid \in 0..(U16 - 1)
    /\ gtk_set \in BOOLEAN /\ group_traffic \in BOOLEAN /\ fullmac \in BOOLEAN
    /\ genl \in Seq([id : 1..(nextId - 1), cmd : Cmds, sta : Stas,
                     inst : 1..nextInst, live : BOOLEAN])
    /\ frames \subseteq [fid : 1..(nextFid - 1), sta : Stas,
                         inst : 1..nextInst]
    /\ sent \in [Stas -> 0..MaxFrames]
    /\ view \in [Stas -> Int]

\* spec.md 5.3 (cancellation): no callback is pending whose user_data is a
\* sta_state that ap_sta_free has freed.
NoCallbackOnFreedStation ==
    /\ \A i \in DOMAIN genl : genl[i].live => Alive(genl[i].sta, genl[i].inst)
    /\ \A f \in frames : Alive(f.sta, f.inst)

\* Each success (Re)Association Response awaiting its TX status is the one
\* sta->assoc_resp_cmd_id names, so that ap_disassoc_cb and ap_sta_free
\* can stop it and its TX status (ap_success_assoc_resp_cb) cannot
\* associate a station that has since disassociated, nor clear the id of a
\* later response.  ap_disassoc_cb zeroes the id and "cancels" it with
\* l_genl_family_cancel, which does not stop a frame exchange.
RespTracked ==
    \A f \in frames : Alive(f.sta, f.inst) => sta[f.sta].assoc_resp_cmd_id = f.fid

\* Every GET_KEY whose sta_state is alive is the one sta->gtk_query_cmd_id
\* names, so that ap_del_station and ap_sta_free can cancel it.  Two
\* NEW_STATION/SET_STATION requests of one station (a reassociation ACKed
\* before the first reply) each send a GET_KEY from ap_associate_sta_cb,
\* and the second overwrites the id of the first.
GetKeyTracked ==
    \A i \in DOMAIN genl :
        (genl[i].live /\ genl[i].cmd = "get_key"
            /\ Alive(genl[i].sta, genl[i].inst))
            => genl[i].id = sta[genl[i].sta].gtk_query_cmd_id

\* spec.md 4.7: AP_EVENT_STATION_ADDED marks an RSNA and STATION_REMOVED
\* its end, so the events seen by ap->ops show a station exactly while it
\* has an RSNA.  ap_associate_sta sets sta->rsna = false without an event;
\* a late ap_associate_sta_cb or ap_gtk_query_cb can start a handshake that
\* completes while a reassociation response awaits its TX status.
StationEventsBalanced ==
    \A s \in Stas : view[s] = IF s \in sta_states /\ sta[s].rsna THEN 1 ELSE 0

(***************************************************************************)
(* Refinement: the stations of ap.c, seen through ap->sta_states, behave   *)
(* as ApStationStates says.                                                *)
(***************************************************************************)
StaSt(s) ==
    IF s \notin sta_states THEN "none"
    ELSE IF sta[s].associated THEN "associated" ELSE "authenticated"

Abstract == INSTANCE ApStationStates WITH
    st   <- [s \in Stas |-> StaSt(s)],
    rsna <- [s \in Stas |-> s \in sta_states /\ sta[s].rsna],
    aid  <- [s \in Stas |-> IF StaSt(s) = "associated" THEN sta[s].aid ELSE 0]

\* Every step of the handlers moves each station only along the 802.11
\* state diagram: RSNA only when associated (ap_new_rsna from the 4-way
\* handshake, dropped by ap_drop_rsna and ap_del_station), an AID free and
\* in range given on association (ap_success_assoc_resp_cb after ap_assoc_
\* reassoc, or ap_handle_new_station) and kept across reassociation.
StationStatesRefined == Abstract!Spec

=============================================================================
