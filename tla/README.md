# TLA+ models of iwd's netdev and AP state machines and the wired network list

This directory holds TLA+ models of the connection logic in iwd
(`src/src/netdev.c`, `src/src/ap.c`), the TLC configurations that check them,
and `PROJECT.json`, which maps every definition to the source lines it models
and lists the runs, mutants, findings and hazards.

## The system

iwd is a single-threaded daemon built on the ell event loop.  Every handler
(a D-Bus call, a netlink reply, an nl80211 multicast event, a timeout) runs
to completion before the next one starts, so each handler is one atomic step
of the models.  The difficulty is not threads but *order*: a handler sends
nl80211 commands (`l_genl_family_send`) whose replies arrive in later steps,
while the kernel, the AP and the user keep generating events in between.

Parts of the repository:

| Part | Source | Status |
|---|---|---|
| STA connection state machine | `src/src/netdev.c` 54-2526 | modelled in `NetdevConnect` (partly) |
| netdev interface lifecycle | `netdev.c` 136-417, 2570-3136 | modelled in `NetdevLifecycle` |
| AP station state machine | `src/src/ap.c` | modelled in `ApStation` (partly) |
| AP WSC push button | `ap.c` | modelled in `ApWscPbc` |
| AP start/stop | `ap.c` 2154-2990 | modelled in `ApWscPbc` (partly) |
| AP D-Bus Start/Stop, interface add/remove | `ap.c` 3059-3410 | modelled in `ApWscPbc` (partly); properties, StartProfile and diagnostics not modelled: I/O |
| older AP copy | `netdev.c` 3137-5673 | not modelled: duplicate of an older ap.c |
| wired 802.1X network list | `src/client/known-networks.c` 112-315 | modelled in `WiredNetwork` |
| iwctl known-networks stub | `src/client/known-networks.c` 1-110 | not modelled: empty commands and a completion generator |
| ell helpers, settings parser | `src/unnamed/part_001`, `part_002` | not modelled: data only |
| packaging, man page | `src/debian`, `iwd.ap.5` | not modelled |

## NetdevConnect: the station connection state machine

`NetdevConnect.tla` models one `struct netdev` acting as a station.

State:

* `netdev` holds the fields of `struct netdev` that control the connection:
  `connected`, `operational`, `in_ft`, `is_rsn`, `connect_cb` and
  `disconnect_cb`, `event_filter`, `result`, the `eapol_sm` stage `sm`, and
  every stored command id (`connect_cmd_id`, `disconnect_cmd_id`, and the four
  key command ids), and the neighbor report's `neighbor_report_cb` and
  whether its `neighbor_report_timeout` is armed.  A callback is represented
  by the number of the request that installed it (0 is NULL).
* `genl` is ell's nl80211 request queue: entries `[id, cmd, live, conn, nr]`
  (`nr` names the neighbor report request a CMD_FRAME belongs to).
* `rtnl` counts outstanding RTM_SETLINK requests
  (`netdev_set_linkmode_and_operstate`); they are never cancelled.
* `nextId` is the next id `l_genl_family_send` returns.
* `klink` and `kauth` are the kernel's view: the link state and whether the
  AP station is authorized.
* Ghost variables record what the callers observed: `req` and `conn` count
  requests and connections, `answers[r]` the results given to request `r`'s
  `connect_cb`, `notified` the requests whose end reached the event filter,
  `accepted` the requests whose association was accepted, `keyFailed` the
  requests whose key batch failed, and `dcalls`/`danswers` the disconnect
  calls and their answers; `nr` counts accepted neighbor report requests,
  `nrAnswers[n]` lists what request `n`'s callback was given (the request
  whose reply or response it was, or 0 for a local outcome: timeout,
  `-ENOTCONN`), and `nrAir` holds the responses the AP may still send,
  tagged with their request and connection.

Each handler is written as an operator over a record `Cur` of all variables,
named after the C function, and composed exactly as the C code calls it:
`netdev_connect_failed` calls `netdev_connect_free` then the callback, and
`netdev_setting_keys_failed` cancels, sends the DEAUTHENTICATE and records the
result.  `Commit` writes the resulting record back to the variables.  The
actions are:

* caller: `Connect(rsn)` (netdev_connect), `Disconnect` (netdev_disconnect),
  `FastTransition` (netdev_fast_transition);
* replies: one `Reply` per command, calling the callback the code passed to
  `l_genl_family_send`, plus `CancelledReply` and `OperstateReply`;
* kernel events through `netdev_mlme_notify`: `ConnectEvent`,
  `AuthenticateEvent`, `DisconnectEvent`, and `CqmBeaconLoss`
  (netdev_cqm_event);
* the EAPoL engine (eapol.c is not in the repository): `EapolHandshakeDone`
  installs PTK, GTK and, with MFP, IGTK through the functions netdev
  registers; `EapolHandshakeFailed` calls `netdev_handshake_failed`;
* the 802.11k neighbor report: `NeighborReportReq`
  (netdev_neighbor_report_req, which sends CMD_FRAME through
  `netdev_send_action_frame` and keeps no id), `NrFrameReply`
  (netdev_neighbor_report_req_cb), `NrTimeout` (the 3-second l_timeout) and
  `NrResponse` (a Radio Measurement action frame through
  netdev_mgmt_frame_event and netdev_action_frame_event).  A response the AP
  sent is received only while the kernel is associated in the same
  connection; the AP may also never answer.  `netdev_connect_free` answers a
  waiting callback with `-ENOTCONN`.

Frames and IEs are abstracted to their outcome: a CONNECT event is a success,
a success with IEs that fail validation (`bad_ies`), or a rejection.

### Assumptions about the environment

* ell sends one nl80211 request at a time and answers in order, so the
  kernel executes commands in FIFO order; executing a command and
  dispatching its reply is one step.
* `l_genl_family_cancel` of the head request (already written to the
  socket) marks it dead: the kernel still executes it, the callback is not
  called.  Cancelling a later request removes it.
* The kernel accepts a command only in a link state that allows it
  (`KernelAccepts`); otherwise it returns an error.

### Runs

All runs instantiate `MC_NetdevConnect`.

| Run | Checks | Result |
|---|---|---|
| `MC_NetdevConnect.cfg` | `TypeOK`, `AtMostOnceCallbacks`, `TrackedIdsOutstanding` | pass, 1,257,754 states |
| `NetdevLiveness.cfg` | `AtMostOnceCallbacks`, `NrTimeoutHasCb`, `NoStuckAttempt`, `EveryNeighborReportAnswered` | pass, 157,035 states |
| `NetdevStaleOperstate.cfg` | `OkOnlyAfterAssociation` | violation |
| `NetdevAuthorizeAfterKeyFailure.cfg` | `NoAuthorizeAfterKeyFailure` | violation (a recipe, not a run) |
| `NetdevStaleTeardown.cfg` | `NoStaleTeardownPending` | violation |
| `NetdevDisconnectCb.cfg` | `DisconnectCbKept` | violation |

The liveness run also carries the neighbor report: one request races its
CMD_FRAME reply, the AP's response, its timeout and the end of the
connection.  `AtMostOnceCallbacks` (one answer per request), `NrTimeoutHasCb`
(the l_timeout is armed exactly while a callback waits: the timeout handler
calls the callback without a NULL check) and `EveryNeighborReportAnswered`
hold.

`NrOwnAnswer` (a callback is given only its own request's outcome) fails
as soon as there are two requests.  Reproduce it with `NetdevLiveness.cfg`,
`CONSTANT MaxNr <- MCStaleNr` and `INVARIANT NrOwnAnswer` as the only
property: request 1 is answered by its timeout while its CMD_FRAME is still
queued, request 2 is sent, and the failed reply of request 1's frame answers
request 2 (netdev.c:2346: the frame's id is not kept, so it cannot be
cancelled).  After a disconnect the same happens with `-ENOTCONN`, and
within one association a late response to request 1 answers request 2,
since the dialog token is deliberately ignored (netdev.c:2375).  It is
listed as a hazard rather than a run.

What the violations show (details in `PROJECT.json`, "findings"):

* **Stale operstate.**  An open-network connect sends RTM_SETLINK; the user
  disconnects and connects again; the old RTM_SETLINK reply then reports
  `NETDEV_RESULT_OK` to the new request before it has associated
  (`netdev_operstate_cb`, netdev.c:649).
* **Authorize after key failure.**  `netdev_new_group_key_cb` sends
  SET_STATION without keeping its id; when the IGTK command then fails,
  `netdev_setting_keys_failed` cannot cancel it, and the kernel authorizes
  the AP (netdev.c:737).  The configuration is kept as a recipe: its run
  slot went to the AP liveness run (`ApLiveness.cfg`).
* **Stale teardown.**  Two failure paths each send a DEAUTHENTICATE and
  overwrite `disconnect_cmd_id` (netdev.c:681, 640); the first is never
  cancelled and tears down the next connection.
* **Unanswered request** (`NetdevUnanswered.cfg`, kept as a
  configuration but no longer a run, to leave room for the lifecycle run).
  A DISCONNECT event not flagged as by-AP during the handshake frees the
  attempt without telling anyone (netdev.c:571);
  `tlc -config NetdevUnanswered.cfg MC_NetdevConnect` reports
  `EveryRequestAnswered` violated.
* **Disconnect callback replaced.**  `netdev_connect_failed` clears
  `disconnect_cmd_id` (netdev.c:349), so the `-EINPROGRESS` guard of
  `netdev_disconnect` (2039) lets a second disconnect overwrite the first
  caller's `disconnect_cb`.

### Bounds

`MaxReqs` bounds the requests (`Connect` and `FastTransition`) a behaviour
makes.  Every violation above needs at most three requests, and the safety
run uses three (`MCMaxReqs`): a request, its fast transition or
reconnection, and one more, which is what an interleaving of a stale reply
with two later requests needs.  The liveness runs use two requests
(`MCLiveMaxReqs`): the tableau for three takes over a quarter of an hour,
and every liveness question here is about one attempt followed by one more.
`MaxNr` bounds neighbor report requests: none in the safety and violation
runs (`MCNoNr`), whose questions are about the connection; one in the
liveness run (`MCMaxNr`), enough for every race of a request with its own
reply, response, timeout and teardown (two take over seven minutes there);
two (`MCStaleNr`) to show a stale answer.
Disconnects and events are unbounded but finite because each consumes
kernel state.

### Fairness

`Fairness == WF_vars(Progress)`.  `Progress` is every step that the
environment owes: the kernel answers every nl80211 request, cfg80211 reports
the outcome of every connect and FT authentication (it times them out
itself), rtnl answers every RTM_SETLINK, and the EAPoL engine finishes or
times out, and ell runs a due l_timeout (`NrTimeout`).  Nothing is
assumed of the user, the AP or the radio: the AP need never answer a
neighbor report.  Weak
fairness on the disjunction equals weak fairness on each disjunct because
each `Progress` step consumes a reply or advances the link, so `Progress`
steps cannot go on for ever.

## ApStation: stations of the soft AP

`ApStation.tla` models the stations of one started `struct ap_state`
(`src/src/ap.c`).  The station handlers of ap.c call each other the same way
the netdev handlers do, and are written the same way: operators over `Cur`
named after the C functions (`ap_sta_free`, `ap_del_station`,
`ap_remove_sta`, `ap_drop_rsna`, `ap_associate_sta`, `ap_associate_sta_cb`,
`ap_assoc_reassoc`, ...), composed as the code composes them.

State:

* `sta_states` and `sta[s]`: the `struct sta_state` of each station MAC in
  `ap->sta_states`, with `associated`, `rsna`, `aid`, `assoc_resp_cmd_id`,
  `gtk_query_cmd_id`, whether the association had an RSNE or a WSC IE, and
  the handshake stage `hs`.  `inst` numbers each allocation so that a
  callback whose `user_data` was freed (and perhaps reallocated for the same
  MAC) is recognised.
* `last_aid` (a `uint16_t`, arithmetic modulo 2^16) and `gtk_set`.
* `genl`: the nl80211 request queue as in `NetdevConnect`, with
  `[id, cmd, sta, inst, live]`; `nextId` the next id.
* `frames`: pending frame exchanges of success (Re)Association Responses
  (`frame_xchg_start` in `ap_send_mgmt_frame`), with their own id counter
  `nextFid`.  The two id spaces matter: `ap_sta_free` and `ap_disassoc_cb`
  pass the frame-exchange id `assoc_resp_cmd_id` to `l_genl_family_cancel`
  (ap.c:288, 1986), which cancels the nl80211 request that happens to have
  that number, if any, and leaves the frame exchange running.
* `group_traffic` (`ap->group_cipher` needs a GTK) and `fullmac` are fixed
  per behaviour: a FullMAC driver handles authentication and association
  itself and reports stations with NEW_STATION/DEL_STATION; a SoftMAC driver
  passes the frames to ap.c.
* Ghosts: `sent[s]` counts frames and events about `s` (bounded by
  `MaxFrames`), `view[s]` counts the STATION_ADDED/REMOVED signals.

Actions: `AuthFrame`, `AssocFrame` (association and reassociation, with an
RSNE, a WSC IE or a rejected request), `DisassocFrame`, `DeauthFrame`,
`NewStationEvent`, `DelStationEvent`, `AssocRespStatus` (the TX status of a
success response), `AssociateReply` and `GetKeyReply` (nl80211 replies),
`CancelledReply`, and the EAPoL authenticator (eapol.c is not in the
repository) through the handlers it calls: `HandshakeComplete`,
`HandshakeFailed`, `WscHandshakeFailed`, and `StopHandshakeWork` (the idle
callback of `ap_stop_handshake_schedule`).  A callback whose `user_data` was
freed is undefined behaviour; `StaleCallback` drops it, and the run
`ap_freed_station` reports the state before it.

Runs (all instantiate `MC_ApStation`: two stations, three frames or events
each, symmetric in the stations):

| Run | Checks | Result |
|---|---|---|
| `MC_ApStation.cfg` | `TypeOK`, `StationStatesRefined` | pass, 263,668 states |
| `ApFreedStation.cfg` | `NoCallbackOnFreedStation` | violation |
| `ApAssocRespRace.cfg` | `RespTracked` | violation, in 4 states (a recipe, not a run) |

* **Freed station.**  `ap_associate_sta` sends SET_STATION (NEW_STATION for
  a FullMAC station, ap.c:2407) with `user_data` sta and keeps no id
  (ap.c:1355).  A DEL_STATION or deauthentication before the reply frees the
  sta_state, and `ap_associate_sta_cb` runs on freed memory.
* **AID overflow.**  `sta->aid = ++ap->last_aid` (ap.c:1717, 2395) never
  reuses the AID of a station that left: after 2006 associations the next
  two get 2007 and 2008, outside 1..2007.  The run starts from
  `last_aid = 2006`, a state any AP reaches by serving 2006 stations.
  The project keeps this as a hazard rather than a run: replacing
  `LastAidInit <- MCLastAidInit` by `LastAidInit <- MCLastAidLong` in
  `MC_ApStation.cfg` makes TLC report `StationStatesRefined` violated at
  the second association: the abstract association takes a free AID in
  1..2007.
* **Late association response** (a recipe: the run list is full).
  `ap_disassoc_cb` zeroes `assoc_resp_cmd_id` and passes it to
  `l_genl_family_cancel` (ap.c:1986), which cancels nl80211 requests, not
  frame exchanges: the response goes on.  Its TX status then runs
  `ap_success_assoc_resp_cb` (ap.c:1377): on an ACK `ap_associate_sta`
  associates the station that disassociated, and a second association
  request in between gets a second response, whose id the first TX status
  clears.  `RespTracked` states that every pending response is the one
  `assoc_resp_cmd_id` names; `tlc -config ApAssocRespRace.cfg
  MC_ApStation` finds it violated after authenticate, associate,
  disassociate.
* **Duplicate GET_KEY and unbalanced station events** (kept as hazards).
  A station associates, is ACKed, reassociates and is ACKed again before
  the first NEW_STATION reply: two requests with `ap_associate_sta_cb` are
  queued, each sends a GET_KEY, and `gtk_query_cmd_id` keeps only the second
  (ap.c:1307).  `GetKeyTracked` states that every live GET_KEY is the
  tracked one.  In the same window a late `ap_associate_sta_cb` can start a
  handshake that completes before the reassociation response's ACK, and
  `ap_associate_sta` then clears `sta->rsna` without STATION_REMOVED
  (ap.c:1338); `StationEventsBalanced` states that the STATION_ADDED and
  STATION_REMOVED events show a station exactly while it has an RSNA.  In
  `MC_ApStation.cfg`, put either as the only INVARIANT and TLC reports it
  violated within eight steps.

### Refinement: ApStationStates

`ApStationStates.tla` is what the AP promises each station, in the terms
of 802.11-2016 11.3: a station is unknown, authenticated (State 2) or
associated (State 3) with an RSNA possibly established (State 4); an
associated station holds an AID in 1..2007 that no other associated station
holds and that a reassociation keeps.  `ApStation` instantiates it
(`Abstract == INSTANCE ApStationStates WITH ...`) with the refinement
mapping

* `st[s]`: "none" when `s` is not in `sta_states`, otherwise "associated"
  or "authenticated" after `sta[s].associated`;
* `rsna[s]`: `s` has a sta_state with `rsna` set;
* `aid[s]`: `sta[s].aid` while associated, 0 otherwise;

and `MC_ApStation.cfg` checks `StationStatesRefined == Abstract!Spec` as a
property.  Every step of the code (frames, events, replies, handshake
outcomes) is a step of the abstract machine or leaves the mapped state
alone.  A reassociation that hands out a new AID would break it; the mutant
`assoc_reassoc_aid_always` shows that TLC catches that.

Three frames per station are enough for authenticate, associate and
reassociate or leave, and with two stations for every pairing of one
station's request with the other's reply; four frames took over a quarter
of an hour.

## ApWscPbc: WSC push-button sessions and the AP lifecycle

`ApWscPbc.tla` models the PBC probe records `ap->wsc_pbc_probes`, active PBC
mode (`ap->wsc_pbc_timeout` set), and the WSC enrollees, with a discrete
clock `now` in ticks of 40 s, so the monitor and walk times (120 s) are three
ticks.  `now - 120 s` is computed modulo `TimeWrap`, which stands for 2^64:
every timestamp is far below it, so comparisons with a wrapped value turn
out as they do for a `uint64_t`.

The records and the timer belong to an `ap_state`, and the module composes
them with the life of the ap_state and of the D-Bus object that owns it
(`struct ap_if_data`):

* `life[i]` is the state of the ap_state allocated by the i-th call:
  waiting for its IPv4 address, START_AP in flight, started, STOP_AP in
  flight, freed.  `timer[i]` is its walk-time `l_timeout` (0: not armed).
* `apIf` is `ap_if->ap` and `ap_if->pending` (the D-Bus call waiting for an
  answer); `ifUp` says the AP interface, and so `ap_if`, exists.
* `genl` is the nl80211 queue of `start_ap` and `stop_ap` requests, as in
  `NetdevConnect`; `startStop[i]` is `start_stop_cmd_id`.
* `kap` is the kernel's side: an AP is running on the interface.
* The IPv4 address: `kaddrs` are the interface's addresses in the kernel,
  `rtnl` the rtnl requests not yet executed (adds of `ap_load_profile_and_dhcp`
  and deletes of `ap_reset`, on one socket and so in order), `own[i]`,
  `usePool` and `cleanup` are `own_ip`, `use_ip_pool` and `cleanup_ip`, and
  `used` is the IP pool's `pool.used`.  An address is its subnet (the third
  octet) when it comes from the pool, `ExtAddr` when it does not.
  `SubStart`/`SubEnd` are computed from `APRangeStart`/`APRangeEnd` as
  `ip_pool_create` does, `ip_pool_get` keeps the `uint8_t` cast of
  `l_uintset_find_unused_min`, and `l_net_get_address` is a choice among
  the interface's addresses.  Start has no profile (D-Bus `Start`), so
  `ap_setup_dhcp` keeps an address already on the interface (`-EALREADY`,
  no wait), takes one from the pool (wait for the rtnl add), or fails.

The lifecycle handlers are operators over `Cur` named after the C
functions (`ap_dbus_start`, `ap_start`, `ap_ifaddr4_added_cb`,
`ap_start_cb`, `ap_start_failed`, `ap_dbus_stop`, `ap_shutdown`,
`ap_reset`, `ap_setup_dhcp`, `ap_load_profile_and_dhcp`, `ip_pool_get`,
`ip_pool_put`, `ap_stop_cb`, `ap_mlme_notify`'s STOP_AP branch
`ap_mlme_stop_ap`, `ap_if_event_func`, `ap_free`, `ap_destroy_interface`).
`ApFree` is `l_genl_family_free` plus `l_free`: unsent requests of that
ap_state are dropped and the written one loses its callback.

Actions: `Advance` (time passes; a due timeout runs first), `PbcTimeout`
(`ap_wsc_pbc_timeout_cb`) and `StaleTimeout` (the same timeout when its
ap_state was freed: undefined behaviour, dropped), `ProbeReq`
(`ap_process_wsc_probe_req`, with the record expiry `ExpireRecords`, the
overlap check, and the interruption of a registering enrollee),
`PushButton` (`ap_push_button`), `WscAssociate` (the WSC branch of
`ap_assoc_reassoc`), `CredentialSent` and `WscEnd`
(`ap_wsc_handshake_event`), `DBusStart`, `DBusStop`, `AddrReply` (rtnl executes its oldest request:
an add, answered through `ap_ifaddr4_added_cb`, or a delete),
`StartApReply` (START_AP and then, in `ap_start_cb`, the DHCP server),
`StopApReply`, `CancelledReply`, `KernelStopAp` (the kernel's own STOP_AP
event), and `InterfaceDown`/`InterfaceUp` (`ap_netdev_watch`).  The ghost
`hist` holds the PBC probes that count for a session overlap: all of them,
less those of an enrollee whose credential was sent (WSC 11.3).

| Run | Checks | Result |
|---|---|---|
| `MC_ApWscPbc.cfg` | `TypeOK`, `NoPbcDuringOverlap`, `SoleRecordInPbc`, `ApIfValid`, `KernelApOwned`, `PoolHeld` | pass, 502,421 states |
| `ApLiveness.cfg` | `EveryCallAnswered` | pass, 67,127 states |
| `ApPbcTimeoutAfterFree.cfg` | `NoTimeoutOnFreedAp` | violation |
| `ApDoubleReset.cfg` | `NoDoubleReset` | violation, in 4 states |
| `ApDhcpOrphan.cfg` | `ApIfValid`, with `DhcpCanFail` | violation (a recipe, not a run: see below) |
| `ApAddressRace.cfg` | `StartedApHasAddress` | violation, in 7 states (a recipe, not a run) |

What the passing run shows: PBC mode is never active during a session
overlap or with two records; `ap_if->ap` never names a freed ap_state; the
kernel runs an AP only for an ap_state that is started or stopping; and
`pool.used` holds exactly the subnets of the ap_states that took theirs
from the pool and were not reset (`PoolHeld`), whichever of the failure
and stop paths ends them.  The liveness run shows that every D-Bus Start
or Stop is answered, over every interleaving of four calls, the replies,
the address request and its failure, the kernel's STOP_AP event and the
interface going down.

* **Walk-time timer after free.**  `ap_reset` (ap.c:298) never removes
  `ap->wsc_pbc_timeout`.  Press the button, then lose the AP (the kernel's
  STOP_AP, a D-Bus Stop, a failed start, the interface going down): the
  ap_state is freed with its `l_timeout` armed, and
  `ap_wsc_pbc_timeout_cb` later runs on freed memory.
* **Double reset.**  `ap_reset` (ap.c:298) frees four things and does
  not clear the pointers:
  * `ap->sta_states`;
  * `ap->rates`;
  * `ap->wsc_pbc_probes`;
  * `ap->own_ip`.

  `ap_shutdown` resets the ap_state, sends STOP_AP, and leaves `ap_if->ap`
  naming the ap_state until `ap_stop_cb`.  Two steps taken before the reply
  reset it again:
  * a second D-Bus Stop (`ap_dbus_stop`, then `ap_shutdown` again);
  * the interface's removal (`ap_destroy_interface`, then `ap_free`).

  Either one is a double free, and it also returns the freed `own_ip` to the
  IP pool a second time.  The model records this in `released` and
  `doubleFree`.  TLC finds it with Start, Stop, Stop.
* **Address deleted under a new AP** (a recipe: the run list is full).
  `ap_reset` queues the rtnl delete of the address iwd set (ap.c:326) and
  returns.  `ap_setup_dhcp` reads the interface's address synchronously
  (`l_net_get_address`, ap.c:2590).  When START_AP fails after the address
  was added, `ap_start_failed` queues the delete; a Start that arrives
  before the delete runs finds the address, takes it as already set
  (`-EALREADY`: no pool, no `cleanup_ip`, no wait) and starts the AP; then
  the delete removes the address the new AP serves DHCP on.
  `StartedApHasAddress` states that a started AP's `own_ip` is on the
  interface; `tlc -config ApAddressRace.cfg MC_ApWscPbc` finds it
  violated in 7 states.
* **DHCP orphan.**  When START_AP succeeds but `l_dhcp_server_start` fails
  (ap.c:2175), `ap_start_failed` frees the ap_state without STOP_AP: the
  kernel keeps the AP running.  A later Start that waits for its address
  then gets that AP's STOP_AP event; `ap_mlme_notify` frees the new
  ap_state without any event, because `start_stop_cmd_id` is 0 and
  `started` is false.  `ap_if->ap` dangles and the Start is never answered.
  This is no longer a run of its own: the run list is full.
  `tlc -config ApDhcpOrphan.cfg MC_ApWscPbc` reproduces it.
  `KernelApOwned`, which holds when the DHCP server starts, is the root
  cause.
* **PBC at boot** (kept as a hazard).  Within 120 s of boot `min_time`
  underflows (ap.c:536), every record is expired on each probe, and two
  enrollees probing in PBC mode are never detected as an overlap.  Use
  `ClockInit <- MCClockAtBoot` in `MC_ApWscPbc.cfg` and TLC reports
  `NoPbcDuringOverlap` violated.
* **Stale sole record** (kept as a hazard).  The WSC branch of
  `ap_assoc_reassoc` (ap.c:1663) accepts the head record without a time
  check, and `ap_push_button` enters PBC mode without expiring records, so
  an enrollee whose only probe is older than the monitor time is accepted.
  `FreshRecordInPbc` states the opposite; in `MC_ApWscPbc.cfg` make it the
  only INVARIANT and TLC reports it violated: a probe, three ticks, the
  button.

Bounds:

* Two enrollees and three probes: an overlap of two enrollees, then a later
  probe that expires a record so that PBC mode can be entered again.
* Seven ticks: a button press, its walk time, and a later session.
* `MaxCalls = 3` D-Bus calls or interface removals.  That covers a start and
  a stop plus one more: a restart, a Stop that aborts a pending Start, a
  second Stop while STOP_AP is in flight, or the interface going down in
  any of these.

* An APRanges of 10.0.1.0/24: one subnet, so a second address from the
  pool needs the first to have been put back, and a leak shows at once.
  The `uint8_t` wrap of `ip_pool_get` needs all 256 subnets held at once,
  that is 256 AP interfaces; one interface cannot reach it.
* The liveness run freezes the clock (`MaxTime = ClockInit`: no PBC
  session matters to answering calls) and allows four calls.

Each bug above needs at most two calls.  With four probes and eight ticks
the liveness check took four minutes, and those bounds add no kind of
behaviour.

Fairness (`ApLiveness.cfg` only): `FairSpec == Spec /\ WF_vars(Progress)`,
where `Progress` is the kernel answering nl80211 requests and rtnl executing
its requests.
ell dispatches every reply, and cfg80211 answers every START_AP and
STOP_AP.  Nothing is assumed of the user, the stations or the kernel's own
STOP_AP event.  `EveryCallAnswered` is `[]<>(apIf.pending = 0)`.  A call
leaves `ap_if->pending` only when it is answered, and calls are bounded.
So this formula says that every call is answered, and it costs TLC one
tableau branch where a leads-to per call costs three.

`ApStation` checks safety only.

## NetdevLifecycle: creating, tracking and freeing a netdev

`NetdevLifecycle` models how `netdev.c` creates, tracks and frees a
`struct netdev`:

* creation, from the GET_INTERFACE dump sent by `netdev_init` and from
  NEW_INTERFACE (`netdev_create_from_genl`, with the duplicate check and
  the whitelist/blacklist filter `netdev_is_managed`);
* the query of the link flags (RTM_GETLINK, `netdev_getlink_cb`);
* the initial power cycle: SETLINK down if the link is up
  (`netdev_initial_down_cb`), then SETLINK up (`netdev_initial_up_cb`,
  which accepts `-ERFKILL`, sets the operstate to dormant and creates the
  device);
* the cached `IFF_UP`, kept by RTM_NEWLINK (`netdev_newlink_notify`);
* removal on DEL_INTERFACE or RTM_DELLINK (`netdev_free`);
* `netdev_shutdown`.

State: the kernel's interfaces (`kif`, `kup`, `rfkill`), the two sockets
iwd reads (`genlq` for nl80211, `rtnlq` for rtnetlink), `netdev_list`
(`list`) and, per netdev, the cached flag `up`, `device` and `life`
("none", "live" or "freed").

Each socket is a FIFO, and the two are not ordered with each other.
rtnetlink runs a request in the sender's context, so the kernel's link
changes in the same step as iwd's send.  Its RTM_NEWLINK notification is
queued before the acknowledgement.  The kernel's own actions are bounded
by `MaxEvents` = 2:

* add an interface;
* delete one (DEL_INTERFACE and RTM_DELLINK, one on each socket);
* another program sets a link up or down;
* rfkill, which takes every link down.

Two events are enough for every race the code has:
* one deletion is enough for a DEL_INTERFACE or RTM_DELLINK to overtake
  an acknowledgement;
* a link toggle or rfkill against the power cycle is enough to reorder
  the GETLINK reply and the notifications;
* an interface can be added and then deleted.

Shutdown needs no event.  Three events give 447,477 states and the same
results.

`MC_NetdevLifecycle` has two interfaces, `wlan0` and `wlan1`, and the
whitelist `wlan*`, which manages both.  `fnmatch` is a relation given by
its results on these names.  Either interface may exist before iwd
starts, with its link up or down.

Each handler is an action:
* `NewInterface` (dump entry or NEW_INTERFACE);
* `DelInterface`;
* `LinkNotify` (`netdev_link_notify`);
* `RtnlReply` (the acknowledgement callbacks);
* `Shutdown`.

`StaleCallback` is an acknowledgement whose callback holds a freed
`struct netdev`.  That is undefined behaviour, and the model keeps none of
its effects.  Fairness is weak fairness on iwd's handlers, because the ell
loop reads a socket as soon as it has data.  `netdev_shutdown` happens at
any time, with no fairness.  Afterwards rtnetlink is still read and
nl80211 is not.  main.c, which decides how long the loop runs after
shutdown, is not in the repository.

| Run | Checks | Result |
|---|---|---|
| `MC_NetdevLifecycle.cfg` | `TypeOK`, `IsManagedMatchesSpec`, `FlagsTracked`, `NetdevInitialized` | pass, 84,371 states, 12 s |

What each property says:
* `TypeOK` types `netdev_list` as live netdevs only: a DEL_INTERFACE and
  an RTM_DELLINK for the same interface must not free it twice.
* `IsManagedMatchesSpec` checks the two pattern loops of
  `netdev_is_managed`, with their gotos, against the set definition.  It
  covers every filter of one or two patterns.
* `FlagsTracked`: once no rtnetlink message about an interface is queued,
  the cached `IFF_UP` is the kernel's.  This holds whatever the order of
  iwd's power cycle, other programs, rfkill and the GETLINK reply.
* `NetdevInitialized` (liveness): every created netdev reaches its device,
  a reported error or its free.

`netdev_operstate_dormant_cb` counts as a use of the freed netdev only
when debug output is on, since it reads `netdev->index` only inside
`l_debug`; `StaleCallback` takes either case.  The use-after-free is not a run, for lack of slots.  `NoCallbackOnFreedNetdev`
is violated in five steps by
`tlc -config NetdevLifecycleFreed.cfg MC_NetdevLifecycle`:
1. the netdev is created;
2. the GETLINK reply sends SETLINK up;
3. `netdev_shutdown` frees the netdev;
4. the acknowledgement then calls `netdev_initial_up_cb` with the freed
   pointer.

The cause is that `netdev_set_powered` keeps the pointer in `cb_data`
(netdev.c:255) and `netdev_free` never cancels the request.  DEL_INTERFACE
or RTM_DELLINK before the acknowledgement does the same.

## WiredNetwork: the wired daemon's 802.1X network list

`src/client/known-networks.c` carries, from line 112, the wired daemon's
`wired/network.c`.  The daemon has the same design as iwd: one ell loop,
with atomic handlers.  The storage directory, though, is changed by
other processes at any moment.

The module's state:
* `dir` maps each file name to its kind.  A file name is a pair of a base
  name and a suffix.  The kind is absent, "reg" (DT_REG/DT_LNK) or "other".
* `evq` is the inotify queue.
* `phase` is network_init's progress.
* `network_list` is the l_queue of network names.

The actions:
* `NetworkInitFail` models `opendir` failing.
* `NetworkInitReaddir` models the readdir loop, in any directory order.  It
  applies the d_type and suffix filters.
* `NetworkInitWatch` models `l_fswatch_new`.
* `WatchEvent` runs `network_storage_watch_cb` on the oldest event.
* `NetworkExit` models `network_exit`.
* The environment has `Create`, `Touch` (write, chmod or unlink), `Move`
  (two events) and `DirEvent` (a NULL file name).  Their events are
  queued only while the watch exists.

`network_match` is written as the code has it: the strcmp result handed to
`l_queue_find`, so a non-zero result (different names) counts as a match.

| Run | Checks | Result |
|---|---|---|
| `WiredNetworkDuplicates.cfg` | `NetworkNamesUnique` | violation, in 5 states (a recipe) |
| `WiredNetworkStorageRace.cfg` | `StorageListed` | violation, in 4 states (a recipe) |

Neither is a run, because the run list is full.  Run them with
`tlc -config WiredNetworkDuplicates.cfg MC_WiredNetwork`.  `network_list` is
read only by `network_lookup`, so the duplicates waste memory and change no
behaviour.  The AP double free below took the slot.

* **Inverted match** (known-networks.c:192).  The trace:
  1. readdir lists `b.8021x`;
  2. the watch starts;
  3. the file is written;
  4. `network_lookup("b")` finds no entry whose name differs, so the
     callback appends `b` a second time.

  An event for a new file `a` while `b` is listed renames `b` to `a`.  With
  `network_match` as equality, `NetworkNamesUnique` holds over all 113,815
  states.
* **Start-up race** (known-networks.c:302).  A file created between
  `closedir` and `l_fswatch_new` produces no event and is never listed.
  `StorageListed` says that once the watch is set and the queue is
  drained, every network file is listed.  It is violated in 4 states.

The bounds are two base names, the suffixes `.8021x` and `.conf`, and
three file operations.  The initial directory is any assignment of kinds,
81 states.  Three operations are enough for a rename between two network
files followed by a write.

Unlinks and renames never remove a network.  The comment at 240-249 says
that for now every event kind is treated the same.  No property asks for
removal.  `network_lookup_security` only reads a file.

## What is not modelled, and the plan

* The AP: probe responses and beacons (SET_BEACON), `ap_free` paths other
  than the interface going down, DEL_KEY in `ap_shutdown` (its callback
  only logs), failures of `l_genl_family_send` itself, StartProfile and
  the D-Bus properties.  Without a profile `ap_setup_dhcp` never reads
  `[IPv4]`, so the profile's own address (and its `inet_pton` check) is
  not reached; the model starts from an interface without an address.
* In `NetdevLifecycle`:
  * attribute parsing, REGISTER_FRAME and SET_CQM, whose replies are only
    logged;
  * interface renames and the watch callbacks;
  * non-STATION interfaces, which `netdev_create_from_genl` skips.
* In `NetdevConnect`: re-entrant calls
  from callbacks, a failed `l_genl_family_send` (`-EIO` from
  netdev_neighbor_report_req changes no state), and WSC connect.
  * `netdev_connect_wsc` (netdev.c:1981) drives the same CONNECT and
    events with a WSC EAPoL machine in place of the key ladder; its
    outcomes are the ones `NetdevConnect` already enumerates, and it adds
    no request or callback of its own.
  * `netdev_rekey_offload_event` (a hazard: it dereferences
    `netdev->handshake` after `netdev_connect_free` may have cleared it)
    and `netdev_rssi_threshold` (it only notifies `event_filter`): the
    model has no handshake or signal state.
* Frame and IE contents, crypto and the EAPoL engine: abstracted to outcomes.
* The iwctl stub in `known-networks.c` 1-110: `cmd_list` and `cmd_forget`
  are empty, and the rest registers the command family and completes its
  name.  No system state changes.

Next, in this order:

1. An abstract connection-lifecycle specification for the station.  The
   one the code supports is thin: `operational` is set only when
   `connected`, so a lifecycle refinement holds by the shape of the model;
   the richer promise of spec.md 8.1 (each attempt completes once, with
   its own result) is what the stale-operstate and stale-teardown
   violations break, so a refinement of it would fail for those known
   reasons.  It needs those bugs fixed first.
2. The PBC record-expiry filter as a pure operator checked against a
   reference definition; the stale head record accepted by the WSC branch
   (ap.c:1663).
3. A liveness property for a station whose NEW_STATION failed (ap.c:1224),
   and one RSNA per station across a GET_KEY overwrite (ap.c:1307).
