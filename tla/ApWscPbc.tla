------------------------------ MODULE ApWscPbc ------------------------------
(***************************************************************************)
(* WSC push-button configuration on the soft AP, src/src/ap.c: the PBC     *)
(* probe records (ap->wsc_pbc_probes), active PBC mode (ap->wsc_pbc_       *)
(* timeout) and the enrollees registering through EAP-WSC, driven by       *)
(*   - Probe Requests with a PBC WSC IE (ap_process_wsc_probe_req);        *)
(*   - the user's button (ap_push_button) and the walk-time timeout        *)
(*     (ap_wsc_pbc_timeout_cb);                                            *)
(*   - (Re)Association Requests with a WSC IE (the WSC branch of           *)
(*     ap_assoc_reassoc);                                                  *)
(*   - the EAP-WSC outcome (ap_wsc_handshake_event);                       *)
(* composed with the life of the ap_state that owns them: the D-Bus Start  *)
(* and Stop methods (ap_dbus_start, ap_dbus_stop, ap_if_event_func), the   *)
(* start (ap_start, ap_ifaddr4_added_cb, ap_start_cb, ap_start_failed),    *)
(* the shutdown (ap_shutdown, ap_reset, ap_stop_cb) and the kernel's own   *)
(* STOP_AP event (ap_mlme_notify).  Each Start that reaches ap_start       *)
(* allocates a new ap_state, numbered by the call (Insts).                 *)
(*                                                                         *)
(* Time is l_time_now(), microseconds of a uint64_t clock, in ticks of     *)
(* Tick seconds.  now - AP_WSC_PBC_MONITOR_TIME * 1000000 wraps when now   *)
(* is below the monitor time; TimeWrap stands for 2^64: every timestamp    *)
(* stays below it, so comparisons with the wrapped value come out as with  *)
(* 2^64.                                                                   *)
(***************************************************************************)
EXTENDS Integers, Sequences, FiniteSets

CONSTANTS
    Enrollees,  \* MAC addresses of WSC enrollees
    MaxProbes,  \* PBC Probe Requests explored
    MaxTime,    \* last tick explored
    ClockInit,  \* l_time_now() when the AP starts, in ticks
    MaxCalls,   \* D-Bus Start and Stop calls and interface removals
    DhcpCanFail, \* l_dhcp_server_start of ap_start_cb may fail
    PoolEnabled, \* [General].EnableNetworkConfiguration with APRanges: the
                 \* IP pool exists (pool.used is not NULL)
    APRangeStart, APRangeEnd \* the first and last address of APRanges
                             \* (util_ip_prefix_tohl), as uint32_t

\* AP_WSC_PBC_MONITOR_TIME and AP_WSC_PBC_WALK_TIME, 120 s, in 40 s ticks.
Tick == 40
MonitorTime == 120 \div Tick
WalkTime == 120 \div Tick
TimeWrap == 2^30

ASSUME /\ MaxProbes \in Nat /\ MaxTime \in Nat /\ MaxCalls \in Nat
       /\ DhcpCanFail \in BOOLEAN
       /\ ClockInit \in 1..MaxTime
       /\ MaxTime < TimeWrap

\* The enrollee's station: not associated through WSC, associated with the
\* EAP-WSC handshake running, or associated after the credential was sent.
WscStates == {"none", "registering", "done"}

\* ap_state instances, and their life: not allocated, waiting for the
\* IPv4 address (ap->rtnl_add_cmd), START_AP in flight (start_stop_cmd_id),
\* started, shut down with STOP_AP in flight, freed.
Insts == 1..MaxCalls
Lives == {"none", "addr", "starting", "started", "stopping", "freed"}
\* Frame watches and the MLME watch are registered (ap_start .. ap_reset).
Running == {"addr", "starting", "started"}

\* ip_pool_create: the subnets are the third octet of the range's ends.
SubStart == (APRangeStart % 2^16) \div 2^8
SubEnd == (APRangeEnd % 2^16) \div 2^8
\* IPv4 addresses, by their subnet in the pool; NoAddr is NULL and ExtAddr
\* an address that did not come from the pool.
NoAddr == -1
ExtAddr == -2
Addrs == {NoAddr, ExtAddr} \cup (0..255)
\* nl80211 requests with an ap_state callback: ap_start_cb, ap_stop_cb.
ApCmds == {"start_ap", "stop_ap"}

VARIABLES
    probes,    \* ap->wsc_pbc_probes of the current ap_state, in order
    timer,     \* timer[i]: the tick at which ap_state i's wsc_pbc_timeout
               \* fires, 0 when it is not armed
    now,       \* l_time_now()
    wsc,       \* wsc[e]: e's sta_state as a WSC enrollee
    hist,      \* PBC Probe Requests [mac, ts] that count for session
               \* overlap: all received since the AP started, less those
               \* of an enrollee whose credential was sent (WSC 11.3)
    nprobes,   \* PBC Probe Requests received
    inst,      \* the latest ap_state (0: none yet)
    life,      \* life[i]: the state of ap_state i
    genl,      \* nl80211 requests [id, cmd, inst, live], in send order
    nextId,    \* the id the next l_genl_family_send returns
    startStop, \* startStop[i]: ap_state i's start_stop_cmd_id
    apIf,      \* struct ap_if_data: [ap, pending] (ap_state, D-Bus call)
    kap,       \* the kernel runs the AP (beaconing) on the interface
    calls,     \* D-Bus Start and Stop calls and interface removals made
    ifUp,      \* the interface is up in AP mode: struct ap_if_data exists
    released,  \* ap_states whose ap_reset has run: ap->rates, sta_states,
               \* wsc_pbc_probes and own_ip are freed, the pointers kept
    doubleFree, \* ap_reset has run on an ap_state in released
    used,      \* pool.used: the subnets handed out by ip_pool_get
    own,       \* own[i]: ap_state i's own_ip
    usePool,   \* ap_states with use_ip_pool
    cleanup,   \* ap_states with cleanup_ip (iwd set the address)
    kaddrs,    \* the interface's IPv4 addresses in the kernel
    rtnl       \* rtnl requests not yet executed, in order: [op, a, i]

vars == <<probes, timer, now, wsc, hist, nprobes, inst, life, genl, nextId,
          startStop, apIf, kap, calls, ifUp, released, doubleFree,
          used, own, usePool, cleanup, kaddrs, rtnl>>

\* ap->wsc_pbc_timeout of the current ap_state is set: active PBC mode.
PbcActive == inst # 0 /\ timer[inst] # 0

(***************************************************************************)
(* Helpers of ap.c.                                                        *)
(***************************************************************************)
\* ap_wsc_pbc_record_expire: a record stays if it is newer than min_time
\* and is not from mac.
Keep(r, minTime, mac) == r.ts > minTime /\ r.mac # mac

ExpireRecords(q, minTime, mac) == SelectSeq(q, LAMBDA r : Keep(r, minTime, mac))

\* now - AP_WSC_PBC_MONITOR_TIME * 1000000 as a uint64_t.
MinTime(t) == (t - MonitorTime) % TimeWrap

\* ap_wsc_exit_pbc, which returns early outside PBC mode: l_timeout_remove
\* (SET_BEACON and AP_EVENT_PBC_MODE_EXIT have no effect on this state).
ap_wsc_exit_pbc == timer' = [timer EXCEPT ![inst] = 0]

(***************************************************************************)
(* The ap_state life.  As in ApStation, a handler threads a record Cur of  *)
(* the state through operators named after the C functions and Commit     *)
(* writes it back.                                                         *)
(***************************************************************************)
Cur == [probes |-> probes, timer |-> timer, wsc |-> wsc, hist |-> hist,
        life |-> life, genl |-> genl, nextId |-> nextId,
        startStop |-> startStop, apIf |-> apIf, kap |-> kap,
        released |-> released, doubleFree |-> doubleFree, used |-> used,
        own |-> own, usePool |-> usePool, cleanup |-> cleanup, kaddrs |-> kaddrs,
        rtnl |-> rtnl]

Commit(c) ==
    /\ probes' = c.probes /\ timer' = c.timer /\ wsc' = c.wsc
    /\ hist' = c.hist /\ life' = c.life /\ genl' = c.genl
    /\ nextId' = c.nextId /\ startStop' = c.startStop /\ apIf' = c.apIf
    /\ kap' = c.kap /\ released' = c.released /\ doubleFree' = c.doubleFree
    /\ used' = c.used /\ own' = c.own /\ usePool' = c.usePool
    /\ cleanup' = c.cleanup /\ kaddrs' = c.kaddrs /\ rtnl' = c.rtnl

\* l_genl_family_send of cmd with ap_state i as user_data; the id is kept
\* in start_stop_cmd_id.
SendApCmd(c, cmd, i) ==
    [c EXCEPT !.genl = Append(@, [id |-> c.nextId, cmd |-> cmd, inst |-> i,
                                  live |-> TRUE]),
              !.startStop[i] = c.nextId,
              !.nextId = @ + 1]

\* l_genl_family_cancel: a request already written (the head) is still
\* executed by the kernel, its callback is not called.
GenlCancel(c, id) ==
    IF id = 0 THEN c
    ELSE IF c.genl # <<>> /\ Head(c.genl).id = id
         THEN [c EXCEPT !.genl[1].live = FALSE]
         ELSE [c EXCEPT !.genl = SelectSeq(@, LAMBDA e : e.id # id)]

\* l_genl_family_free(ap->nl80211) and l_free(ap): requests of ap_state i
\* not yet written are dropped, a written one (the head) loses its
\* callback.  Its wsc_pbc_timeout is not touched.
ApFree(c, i) ==
    LET mine(e) == e.inst = i
        g == IF c.genl # <<>> /\ mine(Head(c.genl))
             THEN [c.genl EXCEPT ![1].live = FALSE] ELSE c.genl
    IN  [c EXCEPT !.genl = SelectSeq(g, LAMBDA e : e = g[1] \/ ~mine(e)),
                  !.life[i] = "freed"]

\* Fault variant of ap_if_event_func: AP_EVENT_STOPPING leaves ap_if->ap
\* set when no call is pending.
event_func_stopping_keeps_ap(c, ev) ==
    CASE ev = "start_failed" ->
           IF c.apIf.pending = 0 THEN c ELSE [c EXCEPT !.apIf = [ap |-> 0, pending |-> 0]]
      [] ev = "started" ->
           IF c.apIf.pending = 0 THEN c ELSE [c EXCEPT !.apIf.pending = 0]
      [] ev = "stopping" -> c

\* ap_if_event_func for AP_EVENT_START_FAILED, AP_EVENT_STARTED and
\* AP_EVENT_STOPPING; each L_WARN_ON(!ap_if->pending) breaks out.
ap_if_event_func(c, ev) ==
    CASE ev = "start_failed" ->
           IF c.apIf.pending = 0 THEN c ELSE [c EXCEPT !.apIf = [ap |-> 0, pending |-> 0]]
      [] ev = "started" ->
           IF c.apIf.pending = 0 THEN c ELSE [c EXCEPT !.apIf.pending = 0]
      [] ev = "stopping" ->
           IF c.apIf.pending = 0 THEN [c EXCEPT !.apIf.ap = 0] ELSE c

\* l_uintset_find_unused_min on the set made by l_uintset_new_from_range:
\* the least free number of the range, or its maximum + 1 when all are used.
FindUnusedMin(u) ==
    IF \E x \in SubStart..SubEnd : x \notin u
    THEN CHOOSE x \in SubStart..SubEnd : x \notin u /\ \A y \in SubStart..(x - 1) : y \in u
    ELSE SubEnd + 1

\* ip_pool_get: the uint8_t cast wraps maximum + 1; NoAddr is NULL.
ip_pool_get(u) ==
    LET next == FindUnusedMin(u) % 2^8
    IN  IF next < SubStart \/ next > SubEnd THEN NoAddr ELSE next

\* ip_pool_put: l_uintset_take of the address's subnet, if in the range.
ip_pool_put(u, a) ==
    IF a < SubStart \/ a > SubEnd THEN u ELSE u \ {a}

\* ap_setup_dhcp without a profile (the D-Bus Start has none): keep the
\* address the interface has (-EALREADY), or take one from the pool
\* (-EEXIST when it is used up), or -EINVAL without a pool.
ap_setup_dhcp(c, k, addr) ==
    IF addr # NoAddr
    THEN [c |-> [c EXCEPT !.own[k] = addr], err |-> "EALREADY"]
    ELSE IF ~PoolEnabled THEN [c |-> c, err |-> "EINVAL"]
    ELSE LET a == ip_pool_get(c.used)
         IN  IF a = NoAddr THEN [c |-> c, err |-> "EEXIST"]
             ELSE [c |-> [c EXCEPT !.own[k] = a, !.used = @ \cup {a},
                                   !.usePool = @ \cup {k}],
                   err |-> "OK"]

\* ap_load_profile_and_dhcp: nothing to do without a profile or a pool;
\* a new address is added (l_rtnl_ifaddr4_add) and waited for.
ap_load_profile_and_dhcp(c, k, addr) ==
    IF ~PoolEnabled THEN [c |-> c, err |-> "OK", wait |-> FALSE]
    ELSE LET d == ap_setup_dhcp(c, k, addr)
         IN  CASE d.err = "OK" ->
                    [c |-> [d.c EXCEPT !.cleanup = @ \cup {k},
                             !.rtnl = Append(@, [op |-> "add", a |-> d.c.own[k], i |-> k])],
                     err |-> "OK", wait |-> TRUE]
               [] d.err = "EALREADY" -> [c |-> d.c, err |-> "OK", wait |-> FALSE]
               [] OTHER -> [c |-> d.c, err |-> d.err, wait |-> FALSE]

\* Mutant: ap_reset without the ip_pool_put of an own_ip from the pool.
ap_reset_keeps_subnet(c, i) ==
    [GenlCancel(c, c.startStop[i]) EXCEPT
        !.probes = <<>>, !.hist = {},
        !.wsc = [e \in Enrollees |-> "none"],
        !.released = @ \cup {i},
        !.doubleFree = @ \/ i \in c.released,
        !.rtnl = SelectSeq(@, LAMBDA r : r.i # i)
                 \o (IF i \in c.cleanup THEN <<[op |-> "del", a |-> c.own[i], i |-> i]>>
                     ELSE <<>>)]

\* ap_reset: cancels start_stop_cmd_id (and the address request, which the
\* life of the caller ends), frees the stations and the PBC records.  It
\* frees ap->sta_states, ap->rates, ap->wsc_pbc_probes and ap->own_ip
\* without clearing the pointers, so a second ap_reset of the same
\* ap_state frees them again.
ap_reset(c, i) ==
    [GenlCancel(c, c.startStop[i]) EXCEPT
        !.probes = <<>>, !.hist = {},
        !.wsc = [e \in Enrollees |-> "none"],
        !.released = @ \cup {i},
        !.doubleFree = @ \/ i \in c.released,
        !.rtnl = SelectSeq(@, LAMBDA r : r.i # i)
                 \o (IF i \in c.cleanup THEN <<[op |-> "del", a |-> c.own[i], i |-> i]>>
                     ELSE <<>>),
        !.used = IF c.own[i] # NoAddr /\ i \in c.usePool
                 THEN ip_pool_put(@, c.own[i]) ELSE @]

ap_start_failed(c, i) == ApFree(ap_reset(ap_if_event_func(c, "start_failed"), i), i)

\* ap_start for call k: frame and MLME watches, then START_AP, or first the
\* IPv4 address when the DHCP settings ask for one (wait_on_address).
ap_start(c, k, addr) ==
    LET l == ap_load_profile_and_dhcp(c, k, addr)
        a == [l.c EXCEPT !.life[k] = IF l.wait THEN "addr" ELSE "starting",
                         !.probes = <<>>]
    IN  CASE l.err # "OK" -> [c |-> ApFree(ap_reset(l.c, k), k), ok |-> FALSE]
          [] l.wait       -> [c |-> a, ok |-> TRUE]
          [] OTHER        -> [c |-> SendApCmd(a, "start_ap", k), ok |-> TRUE]

\* ap_dbus_start: -EALREADY when started, -EBUSY while an ap_state or a
\* call is pending (both answered at once), otherwise ap_start; a failed
\* ap_start is answered at once.
ap_dbus_start(c, k, addr) ==
    IF c.apIf.ap # 0 \/ c.apIf.pending # 0 THEN c
    ELSE LET r == ap_start(c, k, addr)
         IN  IF r.ok THEN [r.c EXCEPT !.apIf = [ap |-> k, pending |-> k]]
             ELSE r.c

ap_ifaddr4_added_cb(c, i, ok) ==
    IF ok THEN SendApCmd([c EXCEPT !.life[i] = "starting"], "start_ap", i)
    ELSE ap_start_failed(c, i)

\* ap_start_cb; ok: START_AP succeeded and the DHCP server started.
ap_start_cb(c, i, ok) ==
    LET z == [c EXCEPT !.startStop[i] = 0]
    IN  IF ok THEN ap_if_event_func([z EXCEPT !.life[i] = "started"], "started")
        ELSE ap_start_failed(z, i)

\* Fault variant of ap_shutdown: the ap_state is freed at once (the free_ap
\* path) without STOP_AP.
shutdown_without_stop_ap(c, i) ==
    LET s == IF c.life[i] = "started" THEN ap_if_event_func(c, "stopping")
             ELSE c
        d == [s EXCEPT !.apIf = [ap |-> 0, pending |-> 0]]
    IN  ApFree(ap_reset(d, i), i)

\* ap_shutdown with stopped_func ap_dbus_stop_cb (DEL_KEY has a log-only
\* callback).
ap_shutdown(c, i) ==
    LET s == IF c.life[i] = "started" THEN ap_if_event_func(c, "stopping")
             ELSE c
    IN  SendApCmd([ap_reset(s, i) EXCEPT !.life[i] = "stopping"], "stop_ap", i)

\* ap_dbus_stop: a no-op or -EBUSY without an ap_state; otherwise a pending
\* call is answered -ECANCELED and replaced, and ap_shutdown.
ap_dbus_stop(c, k) ==
    IF c.apIf.ap = 0 THEN c
    ELSE ap_shutdown([c EXCEPT !.apIf.pending = k], c.apIf.ap)

\* Fault variant of ap_stop_cb: stopped_func is not called.
stop_cb_no_stopped_func(c, i) == ApFree([c EXCEPT !.startStop[i] = 0], i)

\* ap_stop_cb, calling ap_dbus_stop_cb.
ap_stop_cb(c, i) ==
    LET z == [c EXCEPT !.startStop[i] = 0]
        d == IF z.apIf.pending = 0 THEN z
             ELSE [z EXCEPT !.apIf = [ap |-> 0, pending |-> 0]]
    IN  ApFree(d, i)

\* ap_mlme_notify for NL80211_CMD_STOP_AP.
ap_mlme_stop_ap(c, i) ==
    LET e == IF c.startStop[i] # 0
             THEN ap_if_event_func([GenlCancel(c, c.startStop[i]) EXCEPT
                                       !.startStop[i] = 0], "start_failed")
             ELSE IF c.life[i] = "started" THEN ap_if_event_func(c, "stopping")
             ELSE c
    IN  ApFree(ap_reset(e, i), i)

\* ap_free: ap_reset and free, without STOP_AP or any event.
ap_free(c, i) == ApFree(ap_reset(c, i), i)

\* ap_destroy_interface, when ap_remove_interface removes the D-Bus
\* interface: the pending call is answered -ECANCELED, ap_free, and
\* ap_if is freed (the next ap_add_interface allocates a zeroed one).
ap_destroy_interface(c) ==
    LET d == IF c.apIf.ap # 0 THEN ap_free(c, c.apIf.ap) ELSE c
    IN  [d EXCEPT !.apIf = [ap |-> 0, pending |-> 0]]

(***************************************************************************)
(* Actions.                                                                *)
(***************************************************************************)
Init ==
    /\ probes = <<>>
    /\ timer = [i \in Insts |-> 0]
    /\ now = ClockInit
    /\ wsc = [e \in Enrollees |-> "none"]
    /\ hist = {}
    /\ nprobes = 0
    /\ inst = 0
    /\ life = [i \in Insts |-> "none"]
    /\ genl = <<>>
    /\ nextId = 1
    /\ startStop = [i \in Insts |-> 0]
    /\ apIf = [ap |-> 0, pending |-> 0]
    /\ kap = FALSE
    /\ calls = 0
    /\ ifUp = TRUE
    /\ released = {}
    /\ doubleFree = FALSE
    /\ used = {}
    /\ own = [i \in Insts |-> NoAddr]
    /\ usePool = {}
    /\ cleanup = {}
    \* an address another program set, or none
    /\ kaddrs = {}
    /\ rtnl = <<>>

\* Time passes; a due l_timeout runs first.
Advance ==
    /\ now < MaxTime
    /\ \A i \in Insts : timer[i] = 0 \/ now < timer[i]
    /\ now' = now + 1
    /\ UNCHANGED <<probes, timer, wsc, hist, nprobes, inst, life, genl,
                   nextId, startStop, released, doubleFree, used, own, usePool,
                   cleanup, kaddrs, rtnl, apIf, kap, calls, ifUp>>

\* ap_wsc_pbc_timeout_cb of an ap_state not freed.
PbcTimeout(i) ==
    /\ timer[i] # 0
    /\ now >= timer[i]
    /\ life[i] # "freed"
    /\ timer' = [timer EXCEPT ![i] = 0]
    /\ UNCHANGED <<probes, now, wsc, hist, nprobes, inst, life, genl,
                   nextId, startStop, released, doubleFree, used, own, usePool,
                   cleanup, kaddrs, rtnl, apIf, kap, calls, ifUp>>

\* The l_timeout of a freed ap_state fires: ap_wsc_pbc_timeout_cb reads
\* freed memory, undefined behaviour; the model lets it go
\* (NoTimeoutOnFreedAp is violated in the state before).
StaleTimeout(i) ==
    /\ timer[i] # 0
    /\ now >= timer[i]
    /\ life[i] = "freed"
    /\ timer' = [timer EXCEPT ![i] = 0]
    /\ UNCHANGED <<probes, now, wsc, hist, nprobes, inst, life, genl,
                   nextId, startStop, released, doubleFree, used, own, usePool,
                   cleanup, kaddrs, rtnl, apIf, kap, calls, ifUp>>

\* ap_process_wsc_probe_req for a Probe Request from e whose WSC IE asks
\* for push button, received while the frame watches are registered.  A
\* WSC station that is associated, registered as the first record and is
\* not e is interrupted on a session overlap: netdev_handshake_failed and
\* ap_remove_sta.
\* Fault variant: a session overlap does not exit PBC mode.
probe_req_no_exit(e) ==
    /\ inst # 0 /\ life[inst] \in Running
    /\ nprobes < MaxProbes
    /\ nprobes' = nprobes + 1
    /\ LET first == IF probes = <<>> THEN "none" ELSE Head(probes).mac
           kept  == ExpireRecords(probes, MinTime(now), e)
           overlap == kept # <<>>
       IN  /\ probes' = Append(kept, [mac |-> e, ts |-> now])
           /\ UNCHANGED timer
           /\ wsc' = [f \in Enrollees |->
                        IF overlap /\ f = first /\ f # e THEN "none"
                        ELSE wsc[f]]
    /\ hist' = hist \cup {[mac |-> e, ts |-> now]}
    /\ UNCHANGED <<now, inst, life, genl, nextId, startStop, released, doubleFree, used, own, usePool,
                   cleanup, kaddrs, rtnl, apIf, kap, calls, ifUp>>

ProbeReq(e) ==
    /\ inst # 0 /\ life[inst] \in Running
    /\ nprobes < MaxProbes
    /\ nprobes' = nprobes + 1
    /\ LET first == IF probes = <<>> THEN "none" ELSE Head(probes).mac
           kept  == ExpireRecords(probes, MinTime(now), e)
           overlap == kept # <<>>
       IN  /\ probes' = Append(kept, [mac |-> e, ts |-> now])
           /\ IF overlap /\ PbcActive THEN ap_wsc_exit_pbc ELSE UNCHANGED timer
           /\ wsc' = [f \in Enrollees |->
                        IF overlap /\ f = first /\ f # e THEN "none"
                        ELSE wsc[f]]
    /\ hist' = hist \cup {[mac |-> e, ts |-> now]}
    /\ UNCHANGED <<now, inst, life, genl, nextId, startStop, released, doubleFree, used, own, usePool,
                   cleanup, kaddrs, rtnl, apIf, kap, calls, ifUp>>

\* ap_push_button: refused unless started or with more than one record;
\* the walk time restarted in PBC mode, otherwise PBC mode entered.
\* Fault variant: the walk time counted one tick too long.
push_button_late_deadline ==
    /\ inst # 0 /\ life[inst] = "started"
    /\ Len(probes) <= 1
    /\ timer' = [timer EXCEPT ![inst] = now + WalkTime + 1]
    /\ UNCHANGED <<probes, now, wsc, hist, nprobes, inst, life, genl,
                   nextId, startStop, released, doubleFree, used, own, usePool,
                   cleanup, kaddrs, rtnl, apIf, kap, calls, ifUp>>

\* Fault variant: no session-overlap check before entering PBC mode.
push_button_no_overlap_check ==
    /\ inst # 0 /\ life[inst] = "started"
    /\ timer' = [timer EXCEPT ![inst] = now + WalkTime]
    /\ UNCHANGED <<probes, now, wsc, hist, nprobes, inst, life, genl,
                   nextId, startStop, released, doubleFree, used, own, usePool,
                   cleanup, kaddrs, rtnl, apIf, kap, calls, ifUp>>

PushButton ==
    /\ inst # 0 /\ life[inst] = "started"
    /\ Len(probes) <= 1
    /\ timer' = [timer EXCEPT ![inst] = now + WalkTime]
    /\ UNCHANGED <<probes, now, wsc, hist, nprobes, inst, life, genl,
                   nextId, startStop, released, doubleFree, used, own, usePool,
                   cleanup, kaddrs, rtnl, apIf, kap, calls, ifUp>>

\* The WSC branch of ap_assoc_reassoc: accepted in PBC mode from the
\* enrollee of the head record (AP_EVENT_REGISTRATION_START), which exits
\* PBC mode; the association then starts EAP-WSC (ap_start_eap_wsc).
WscAssociate(e) ==
    /\ inst # 0 /\ life[inst] \in Running
    /\ wsc[e] = "none"
    /\ PbcActive
    /\ probes # <<>>
    /\ Head(probes).mac = e
    /\ ap_wsc_exit_pbc
    /\ wsc' = [wsc EXCEPT ![e] = "registering"]
    /\ UNCHANGED <<probes, now, hist, nprobes, inst, life, genl, nextId,
                   startStop, released, doubleFree, used, own, usePool,
                   cleanup, kaddrs, rtnl, apIf, kap, calls, ifUp>>

\* ap_wsc_handshake_event(EAP_NOTIFY, CREDENTIAL_SENT): e's records are
\* dropped (min_time 0).
CredentialSent(e) ==
    /\ wsc[e] = "registering"
    /\ probes' = ExpireRecords(probes, 0, e)
    /\ wsc' = [wsc EXCEPT ![e] = "done"]
    /\ hist' = {p \in hist : p.mac # e}
    /\ UNCHANGED <<timer, now, nprobes, inst, life, genl, nextId, startStop, released, doubleFree, used, own,
                   usePool, cleanup, kaddrs, rtnl,
                   apIf, kap, calls, ifUp>>

\* ap_wsc_handshake_event(FAILED), or the enrollee leaves (ap_deauth_cb,
\* ap_disassoc_cb): no longer registering.  After FAILED the station stays
\* associated but unauthorized; wsc[e] records registration only, and such
\* a station can register again only by (re)associating through the same
\* WSC branch of ap_assoc_reassoc as one that left, so both are "none".
WscEnd(e) ==
    /\ wsc[e] # "none"
    /\ wsc' = [wsc EXCEPT ![e] = "none"]
    /\ UNCHANGED <<probes, timer, now, hist, nprobes, inst, life, genl,
                   nextId, startStop, released, doubleFree, used, own, usePool,
                   cleanup, kaddrs, rtnl, apIf, kap, calls, ifUp>>

\* A D-Bus call: Start (ap_dbus_start) or Stop (ap_dbus_stop).  The call
\* number k is the ap_state a Start allocates.
DBusStart ==
    /\ ifUp
    /\ calls < MaxCalls
    /\ calls' = calls + 1
    \* l_net_get_address: one of the interface's addresses, 0 without one
    /\ \E addr \in IF kaddrs = {} THEN {NoAddr} ELSE kaddrs :
          /\ Commit(ap_dbus_start(Cur, calls + 1, addr))
          /\ inst' = IF apIf.ap = 0 /\ apIf.pending = 0 THEN calls + 1
                     ELSE inst
    /\ UNCHANGED <<now, nprobes, ifUp>>

DBusStop ==
    /\ ifUp
    /\ calls < MaxCalls
    /\ calls' = calls + 1
    /\ Commit(ap_dbus_stop(Cur, calls + 1))
    /\ UNCHANGED <<now, nprobes, inst, ifUp>>

\* The kernel executes the oldest rtnl request: an address added (or
\* refused) and ap_ifaddr4_added_cb called, or an address deleted (no
\* callback).  ap_reset drops the adds of its ap_state from the queue
\* (l_netlink_cancel).
AddrReply ==
    /\ rtnl # <<>>
    /\ LET r == Head(rtnl) IN
         \/ /\ r.op = "add"
            /\ \E ok \in BOOLEAN :
                 Commit(ap_ifaddr4_added_cb(
                     [Cur EXCEPT !.rtnl = Tail(@),
                                 !.kaddrs = IF ok THEN @ \cup {r.a} ELSE @], r.i, ok))
         \/ /\ r.op = "del"
            /\ Commit([Cur EXCEPT !.rtnl = Tail(@), !.kaddrs = @ \ {r.a}])
    /\ UNCHANGED <<now, nprobes, inst, calls, ifUp>>

\* The kernel executes the head nl80211 request: START_AP fails while an
\* AP runs or the interface is down and otherwise may fail; STOP_AP stops
\* the AP.  A live request's
\* callback runs in the same step.
StartApReply ==
    /\ genl # <<>>
    /\ Head(genl).live /\ Head(genl).cmd = "start_ap"
    /\ \E okK \in BOOLEAN, dhcp \in {TRUE, ~DhcpCanFail} :
          /\ okK => ~kap /\ ifUp
          /\ Commit(ap_start_cb([Cur EXCEPT !.genl = Tail(@),
                                            !.kap = @ \/ okK],
                                Head(genl).inst, okK /\ dhcp))
    /\ UNCHANGED <<now, nprobes, inst, calls, ifUp>>

StopApReply ==
    /\ genl # <<>>
    /\ Head(genl).live /\ Head(genl).cmd = "stop_ap"
    /\ Commit(ap_stop_cb([Cur EXCEPT !.genl = Tail(@), !.kap = FALSE],
                         Head(genl).inst))
    /\ UNCHANGED <<now, nprobes, inst, calls, ifUp>>

CancelledReply ==
    /\ genl # <<>>
    /\ ~Head(genl).live
    /\ genl' = Tail(genl)
    /\ \/ Head(genl).cmd = "stop_ap" /\ kap' = FALSE
       \/ Head(genl).cmd = "start_ap" /\ \E okK \in BOOLEAN :
             /\ okK => ~kap /\ ifUp
             /\ kap' = (kap \/ okK)
    /\ UNCHANGED <<probes, timer, now, wsc, hist, nprobes, inst, life,
                   nextId, startStop, released, doubleFree, used, own, usePool,
                   cleanup, kaddrs, rtnl, apIf, calls, ifUp>>

\* The kernel stops the AP by itself (NL80211_CMD_STOP_AP event), seen by
\* the ap_state whose MLME watch is registered.
KernelStopAp ==
    /\ kap
    /\ inst # 0 /\ life[inst] \in Running
    /\ Commit(ap_mlme_stop_ap([Cur EXCEPT !.kap = FALSE], inst))
    /\ UNCHANGED <<now, nprobes, inst, calls, ifUp>>

\* ap_netdev_watch on NETDEV_WATCH_EVENT_DOWN or _DEL: ap_remove_interface.
\* cfg80211 stops a running AP when its interface goes down.
InterfaceDown ==
    /\ ifUp
    /\ calls < MaxCalls
    /\ calls' = calls + 1
    /\ ifUp' = FALSE
    /\ Commit([ap_destroy_interface(Cur) EXCEPT !.kap = FALSE])
    /\ UNCHANGED <<now, nprobes, inst>>

\* ap_netdev_watch on _UP or _NEW for an AP interface: ap_add_interface.
\* The kernel ran a START_AP when it was written, before the interface
\* went down, so none is outstanding when it comes back.
InterfaceUp ==
    /\ ~ifUp
    /\ \A k \in DOMAIN genl : genl[k].cmd # "start_ap"
    /\ ifUp' = TRUE
    /\ UNCHANGED <<probes, timer, now, wsc, hist, nprobes, inst, life, genl,
                   nextId, startStop, released, doubleFree, used, own, usePool,
                   cleanup, kaddrs, rtnl, apIf, kap, calls>>

\* The steps the environment owes: the kernel and rtnl answer requests.
Progress == AddrReply \/ StartApReply \/ StopApReply \/ CancelledReply

Next ==
    \/ Advance
    \/ \E i \in Insts : PbcTimeout(i) \/ StaleTimeout(i)
    \/ PushButton
    \/ \E e \in Enrollees :
          ProbeReq(e) \/ WscAssociate(e) \/ CredentialSent(e) \/ WscEnd(e)
    \/ DBusStart \/ DBusStop
    \/ Progress
    \/ KernelStopAp
    \/ InterfaceDown \/ InterfaceUp

Spec == Init /\ [][Next]_vars

FairSpec == Spec /\ WF_vars(Progress)

(***************************************************************************)
(* Properties.                                                             *)
(***************************************************************************)
TypeOK ==
    /\ probes \in Seq([mac : Enrollees, ts : 1..MaxTime])
    /\ timer \in [Insts -> 0..(MaxTime + WalkTime)]
    /\ now \in ClockInit..MaxTime
    /\ wsc \in [Enrollees -> WscStates]
    /\ hist \subseteq [mac : Enrollees, ts : 1..MaxTime]
    /\ nprobes \in 0..MaxProbes
    /\ inst \in 0..MaxCalls
    /\ life \in [Insts -> Lives]
    /\ genl \in Seq([id : 1..(nextId - 1), cmd : ApCmds, inst : Insts,
                     live : BOOLEAN])
    /\ startStop \in [Insts -> 0..(nextId - 1)]
    /\ apIf \in [ap : 0..MaxCalls, pending : 0..MaxCalls]
    /\ kap \in BOOLEAN
    /\ calls \in 0..MaxCalls
    /\ ifUp \in BOOLEAN
    /\ released \subseteq Insts
    /\ doubleFree \in BOOLEAN
    /\ used \subseteq SubStart..SubEnd
    /\ own \in [Insts -> Addrs]
    /\ usePool \cup cleanup \subseteq Insts
    /\ kaddrs \subseteq Addrs \ {NoAddr}
    /\ rtnl \in Seq([op : {"add", "del"}, a : Addrs, i : Insts])

\* PBC Probe Requests from e and f (distinct) that are both within one
\* PBC Monitor Time of each other.
Overlap(p, q) == p.mac # q.mac /\ p.ts <= q.ts /\ q.ts - p.ts < MonitorTime

\* spec.md 5.3 and 8 (session overlap): the AP is never in active PBC mode
\* once two enrollees have sent PBC Probe Requests within the monitor time
\* of now: ap_process_wsc_probe_req exits PBC mode and ap_push_button
\* refuses to enter it.
NoPbcDuringOverlap ==
    PbcActive => ~\E p, q \in hist : Overlap(p, q) /\ now - p.ts < MonitorTime

\* Active PBC mode holds at most one probe record: the WSC branch of
\* ap_assoc_reassoc takes the head record as the sole enrollee, and
\* ap_process_wsc_probe_req relies on it ("If we had more than one record
\* we wouldn't have been in active PBC mode").
SoleRecordInPbc ==
    PbcActive => Len(probes) <= 1


\* spec.md 5 (cancellation: "Timers are cancellable with the same
\* guarantee"): no PBC walk-time l_timeout is armed for an ap_state that
\* has been freed.  ap_reset, run by ap_shutdown, ap_start_failed and the
\* kernel's STOP_AP event, never removes ap->wsc_pbc_timeout.
NoTimeoutOnFreedAp ==
    \A i \in Insts : life[i] = "freed" => timer[i] = 0

\* The D-Bus object's ap_if->ap never names a freed ap_state: every path
\* that frees one (ap_stop_cb, ap_start_failed, the kernel's STOP_AP) has
\* told ap_if_event_func or ap_dbus_stop_cb first, so a later Start or
\* Stop does not read freed memory.
ApIfValid ==
    apIf.ap # 0 => life[apIf.ap] # "freed"

\* The kernel runs an AP on the interface only on behalf of an ap_state
\* that is started or shutting down (its STOP_AP queued): no path frees
\* the ap_state and leaves the kernel beaconing, which would make every
\* later START_AP fail.
KernelApOwned ==
    kap => \E i \in Insts : life[i] \in {"started", "stopping"}

\* spec.md 7 (user-visible failure): every D-Bus Start or Stop call that
\* becomes pending (ap_if->pending) is eventually answered, by
\* ap_if_event_func, ap_dbus_stop_cb, a later Stop or the interface's
\* removal, once the kernel and rtnl answer their requests.  A call leaves
\* ap_if->pending only when it is answered and calls are bounded, so this
\* is ap_if->pending being empty again and again.
EveryCallAnswered == []<>(apIf.pending = 0)

\* The record the WSC branch of ap_assoc_reassoc accepts as the sole
\* enrollee (the head of wsc_pbc_probes, taken without a time check) is
\* from within the monitor time whenever PBC mode is active.
\* ap_push_button enters PBC mode without expiring records, so a record
\* older than the monitor time can be the one accepted.
FreshRecordInPbc ==
    PbcActive /\ probes # <<>> => now - Head(probes).ts < MonitorTime


\* ap_reset runs at most once on an ap_state: the resources it frees are
\* not freed a second time.  ap_shutdown resets the ap_state and leaves it
\* to ap_stop_cb, with ap_if->ap still naming it; a second D-Bus Stop
\* (ap_shutdown again) or the interface's removal (ap_destroy_interface,
\* ap_free) before the STOP_AP reply resets it again.
NoDoubleReset == ~doubleFree

(* ip_pool_get and the ip_pool_put of ap_reset keep pool.used to exactly  *)
(* the subnets of the ap_states that took theirs from the pool and have   *)
(* not been reset: no subnet leaks when a start fails at any step or a    *)
(* Stop, a second Start or the interface going away resets the AP.       *)
PoolHeld == used = {own[i] : i \in usePool \ released}

(* A started AP serves DHCP on its own_ip: the interface has that address *)
(* while the AP is started.                                                *)
StartedApHasAddress ==
    \A i \in Insts : life[i] = "started" /\ own[i] # NoAddr => own[i] \in kaddrs

=============================================================================
