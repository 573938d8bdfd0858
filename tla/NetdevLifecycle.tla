-------------------------- MODULE NetdevLifecycle --------------------------
(***************************************************************************)
(* The life of a struct netdev in src/src/netdev.c: creation from the     *)
(* nl80211 GET_INTERFACE dump or a NEW_INTERFACE notification, the query  *)
(* of the link flags (RTM_GETLINK), the initial power cycle (RTM_SETLINK  *)
(* down, then up), the tracking of the flags from RTM_NEWLINK, removal on *)
(* DEL_INTERFACE or RTM_DELLINK, and netdev_shutdown.                     *)
(*                                                                         *)
(* iwd reads two sockets: nl80211 (genlq) and rtnetlink (rtnlq).  Each is *)
(* a FIFO, the two are not ordered with each other.  rtnetlink runs a     *)
(* request in the sender's context, so the kernel's link state changes    *)
(* in the same step as iwd's send; its RTM_NEWLINK notification is queued *)
(* before the request's acknowledgement.  The kernel's own changes (an    *)
(* interface added or deleted, a link set up or down by another program,  *)
(* rfkill) are the environment's actions.  Every handler is one atomic    *)
(* step of the ell main loop.                                             *)
(***************************************************************************)
EXTENDS Integers, Sequences, FiniteSets

CONSTANTS
    Ifaces,            \* interface indexes; each is created at most once
    Name,              \* Name[i]: the interface name nl80211 reports
    Patterns,          \* the patterns a filter option may list
    Fnmatch,           \* pairs <<pattern, name>> with fnmatch(...) == 0
    NoFilter,          \* whitelist_filter / blacklist_filter left NULL
    whitelist_filter,
    blacklist_filter,
    MaxEvents          \* bound on the kernel's own link events

Filters == {NoFilter} \cup UNION {[1..k -> Patterns] : k \in 1..2}

ASSUME whitelist_filter \in Filters /\ blacklist_filter \in Filters

VARIABLES
    kif,        \* kernel: "absent" (not yet created), "present" or "gone"
    kup,        \* kernel: IFF_UP of each interface
    rfkill,     \* kernel: the radio is blocked
    events,     \* number of kernel events so far
    genlq,      \* nl80211 messages not yet read by iwd
    rtnlq,      \* rtnetlink replies and notifications not yet read by iwd
    list,       \* netdev_list (the indexes of its members)
    up,         \* netdev->ifi_flags & IFF_UP
    device,     \* netdev->device != NULL
    life,       \* "none", "live" (allocated) or "freed"
    failed,     \* ghost: the initialization stopped on an error
    uaf,        \* ghost: a callback ran on a freed netdev
    shut        \* netdev_shutdown has run (netdev_list = NULL)

\* The kernel state that iwd's handlers do not change (kup is in Cur).
kernel == <<kif, rfkill, events>>
vars == <<kif, kup, rfkill, events, genlq, rtnlq, list, up, device, life,
          failed, uaf, shut>>

\* Callbacks of rtnetlink requests.  "getlink" looks the netdev up by its
\* index; "down", "up" and "dormant" hold the struct netdev pointer;
\* "opdown" holds the index; "none" is a request without a callback.
PtrCbs == {"down", "up", "dormant"}
Cbs == PtrCbs \cup {"getlink", "opdown", "none"}
Results == {"ok", "enodev", "erfkill"}

RtMsg(k, i, cb, res, u) == [kind |-> k, idx |-> i, cb |-> cb, res |-> res, up |-> u]

-----------------------------------------------------------------------------
(* netdev_is_managed: the pattern loops of the whitelist and blacklist.    *)

\* mutant: only the first pattern of the list is tried
AnyMatchFirst(patterns, ifname) ==
    patterns # <<>> /\ <<Head(patterns), ifname>> \in Fnmatch

RECURSIVE AnyMatch(_, _)
AnyMatch(patterns, ifname) ==
    /\ patterns # <<>>
    /\ \/ <<Head(patterns), ifname>> \in Fnmatch
       \/ AnyMatch(Tail(patterns), ifname)

netdev_is_managed(ifname, wl, bl) ==
    /\ wl = NoFilter \/ AnyMatch(wl, ifname)
    /\ bl = NoFilter \/ ~AnyMatch(bl, ifname)

-----------------------------------------------------------------------------
(* The state a handler works on, threaded through the operators named     *)
(* after the C functions and written back by Commit.                      *)

Cur == [kup |-> kup, rtnlq |-> rtnlq, list |-> list, up |-> up,
        device |-> device, life |-> life, failed |-> failed]

Commit(s) == \E c \in {s} :
    /\ kup' = c.kup
    /\ rtnlq' = c.rtnlq
    /\ list' = c.list
    /\ up' = c.up
    /\ device' = c.device
    /\ life' = c.life
    /\ failed' = c.failed

\* rtnetlink processing RTM_SETLINK with IFF_UP = powered.
KernelSetlink(s, i, powered, cb) ==
    IF kif[i] # "present" THEN
        [s EXCEPT !.rtnlq = Append(@, RtMsg("reply", i, cb, "enodev", FALSE))]
    ELSE IF powered /\ rfkill THEN
        [s EXCEPT !.rtnlq = Append(@, RtMsg("reply", i, cb, "erfkill", FALSE))]
    ELSE IF s.kup[i] = powered THEN
        [s EXCEPT !.rtnlq = Append(@, RtMsg("reply", i, cb, "ok", FALSE))]
    ELSE
        [s EXCEPT !.kup[i] = powered,
                  !.rtnlq = @ \o <<RtMsg("newlink", i, "none", "ok", powered),
                                   RtMsg("reply", i, cb, "ok", FALSE)>>]

netdev_set_powered(s, i, powered, cb) == KernelSetlink(s, i, powered, cb)

\* IFLA_LINKMODE and IFLA_OPERSTATE only; IFF_UP is not touched.
netdev_set_linkmode_and_operstate(s, i, cb) ==
    [s EXCEPT !.rtnlq = Append(@, RtMsg("reply", i, cb,
                                  IF kif[i] = "present" THEN "ok" ELSE "enodev",
                                  FALSE))]

netdev_newlink_notify(s, i, u) ==
    IF i \notin s.list THEN s ELSE [s EXCEPT !.up[i] = u]

netdev_free(s, i) ==
    [s EXCEPT !.device[i] = FALSE, !.life[i] = "freed"]

\* mutant: the netdev is looked up (l_queue_find) instead of removed
dellink_notify_keeps_list(s, i) ==
    IF i \notin s.list THEN s ELSE netdev_free(s, i)

netdev_dellink_notify(s, i) ==
    IF i \notin s.list THEN s
    ELSE netdev_free([s EXCEPT !.list = @ \ {i}], i)

netdev_initial_up_cb(s, i, res) ==
    IF res \notin {"ok", "erfkill"} THEN [s EXCEPT !.failed[i] = TRUE]
    ELSE [netdev_set_linkmode_and_operstate(s, i, "dormant")
            EXCEPT !.device[i] = TRUE]

netdev_initial_down_cb(s, i, res) ==
    IF res # "ok" THEN [s EXCEPT !.failed[i] = TRUE]
    ELSE netdev_set_powered(s, i, TRUE, "up")

\* mutant: the reply's flags are not stored
getlink_cb_no_newlink(s, m) ==
    IF m.res # "ok" THEN [s EXCEPT !.failed[m.idx] = TRUE]
    ELSE IF m.idx \notin s.list THEN s
    ELSE IF s.up[m.idx] THEN netdev_set_powered(s, m.idx, FALSE, "down")
    ELSE netdev_initial_down_cb(s, m.idx, "ok")

\* mutant: only an interface found UP is power-cycled
getlink_cb_up_only(s, m) ==
    IF m.res # "ok" THEN [s EXCEPT !.failed[m.idx] = TRUE]
    ELSE IF m.idx \notin s.list THEN s
    ELSE LET t == netdev_newlink_notify(s, m.idx, m.up)
         IN  IF t.up[m.idx] THEN netdev_set_powered(t, m.idx, FALSE, "down") ELSE t

netdev_getlink_cb(s, m) ==
    IF m.res # "ok" THEN [s EXCEPT !.failed[m.idx] = TRUE]
    ELSE IF m.idx \notin s.list THEN s
    ELSE LET t == netdev_newlink_notify(s, m.idx, m.up)
         IN  IF t.up[m.idx] THEN netdev_set_powered(t, m.idx, FALSE, "down")
             ELSE netdev_initial_down_cb(t, m.idx, "ok")

\* The duplicate check, the filter and the RTM_GETLINK query; the
\* iftype and attribute checks are on the message (all interfaces of the
\* model are STATION with every attribute).
netdev_create_from_genl(s, i) ==
    IF i \in s.list \/ ~netdev_is_managed(Name[i], whitelist_filter, blacklist_filter)
    THEN s
    ELSE [s EXCEPT !.list = @ \cup {i}, !.life[i] = "live", !.up[i] = FALSE,
                   !.rtnlq = Append(@, RtMsg("reply", i, "getlink",
                                  IF kif[i] = "present" THEN "ok" ELSE "enodev",
                                  kif[i] = "present" /\ kup[i]))]

netdev_set_powered_result(s, m) ==
    CASE m.cb = "down" -> netdev_initial_down_cb(s, m.idx, m.res)
      [] m.cb = "up"   -> netdev_initial_up_cb(s, m.idx, m.res)
      [] OTHER         -> s

netdev_shutdown_one(s, i) ==
    LET t == netdev_set_linkmode_and_operstate(s, i, "opdown")
    IN  IF s.up[i] THEN netdev_set_powered(t, i, FALSE, "none") ELSE t

RECURSIVE ShutdownEach(_, _)
ShutdownEach(s, rest) ==
    IF rest = {} THEN s
    ELSE LET i == CHOOSE x \in rest : TRUE
         IN  ShutdownEach(netdev_shutdown_one(s, i), rest \ {i})

\* l_queue_foreach(netdev_shutdown_one), then l_queue_destroy(netdev_free).
netdev_shutdown(s) ==
    LET t == ShutdownEach(s, s.list)
    IN  [t EXCEPT !.list = {},
                  !.device = [i \in Ifaces |-> IF i \in s.list THEN FALSE ELSE @[i]],
                  !.life = [i \in Ifaces |-> IF i \in s.list THEN "freed" ELSE @[i]]]

-----------------------------------------------------------------------------
(* The kernel's own events.                                                *)

KernelNewInterface(i) ==
    /\ events < MaxEvents /\ kif[i] = "absent"
    /\ kif' = [kif EXCEPT ![i] = "present"]
    /\ kup' = [kup EXCEPT ![i] = FALSE]
    /\ events' = events + 1
    /\ genlq' = Append(genlq, [kind |-> "new", idx |-> i])
    /\ rtnlq' = Append(rtnlq, RtMsg("newlink", i, "none", "ok", FALSE))
    /\ UNCHANGED <<rfkill, list, up, device, life, failed, uaf, shut>>

KernelDelInterface(i) ==
    /\ events < MaxEvents /\ kif[i] = "present"
    /\ kif' = [kif EXCEPT ![i] = "gone"]
    /\ events' = events + 1
    /\ genlq' = Append(genlq, [kind |-> "del", idx |-> i])
    /\ rtnlq' = Append(rtnlq, RtMsg("dellink", i, "none", "ok", FALSE))
    /\ UNCHANGED <<kup, rfkill, list, up, device, life, failed, uaf, shut>>

\* Another program sets the link up or down (ip link set ...).
KernelSetLink(i) ==
    /\ events < MaxEvents /\ kif[i] = "present"
    /\ ~kup[i] => ~rfkill
    /\ kup' = [kup EXCEPT ![i] = ~@]
    /\ events' = events + 1
    /\ rtnlq' = Append(rtnlq, RtMsg("newlink", i, "none", "ok", ~kup[i]))
    /\ UNCHANGED <<kif, rfkill, genlq, list, up, device, life, failed, uaf, shut>>

\* Blocking the radio takes every interface down.
Rfkill ==
    /\ events < MaxEvents
    /\ LET downs == IF rfkill THEN {} ELSE {i \in Ifaces : kif[i] = "present" /\ kup[i]}
       IN  /\ rfkill' = ~rfkill
           /\ kup' = [i \in Ifaces |-> kup[i] /\ i \notin downs]
           /\ \E order \in {o \in [1..Cardinality(downs) -> downs] :
                              \A j \in downs : \E k \in DOMAIN o : o[k] = j} :
                 rtnlq' = rtnlq \o [k \in DOMAIN order |->
                                     RtMsg("newlink", order[k], "none", "ok", FALSE)]
    /\ events' = events + 1
    /\ UNCHANGED <<kif, genlq, list, up, device, life, failed, uaf, shut>>

-----------------------------------------------------------------------------
(* iwd's handlers.                                                         *)

\* netdev_get_interface_callback and netdev_config_notify(NEW_INTERFACE).
NewInterface ==
    /\ ~shut /\ genlq # <<>> /\ Head(genlq).kind = "new"
    /\ Commit(netdev_create_from_genl(Cur, Head(genlq).idx))
    /\ genlq' = Tail(genlq)
    /\ UNCHANGED <<kernel, uaf, shut>>

\* netdev_config_notify(DEL_INTERFACE).
DelInterface ==
    /\ ~shut /\ genlq # <<>> /\ Head(genlq).kind = "del"
    /\ Commit(netdev_dellink_notify(Cur, Head(genlq).idx))
    /\ genlq' = Tail(genlq)
    /\ UNCHANGED <<kernel, uaf, shut>>

\* netdev_link_notify: RTM_NEWLINK and RTM_DELLINK.
LinkNotify ==
    /\ rtnlq # <<>> /\ Head(rtnlq).kind \in {"newlink", "dellink"}
    /\ LET m == Head(rtnlq)
           s == [Cur EXCEPT !.rtnlq = Tail(@)]
       IN  Commit(IF m.kind = "newlink" THEN netdev_newlink_notify(s, m.idx, m.up)
                  ELSE netdev_dellink_notify(s, m.idx))
    /\ UNCHANGED <<kernel, genlq, uaf, shut>>

\* The acknowledgement of a request whose callback is safe after a free.
RtnlReply ==
    /\ rtnlq # <<>> /\ Head(rtnlq).kind = "reply"
    /\ LET m == Head(rtnlq)
           s == [Cur EXCEPT !.rtnlq = Tail(@)]
       IN  /\ m.cb \in PtrCbs => life[m.idx] = "live"
           /\ Commit(IF m.cb = "getlink" THEN netdev_getlink_cb(s, m)
                     ELSE netdev_set_powered_result(s, m))
    /\ UNCHANGED <<kernel, genlq, uaf, shut>>

\* netdev_set_powered_result or netdev_operstate_dormant_cb called with a
\* struct netdev that netdev_free has released: undefined behaviour, after
\* which the model keeps no effect of the callback.  The initial down/up
\* callbacks use the netdev; netdev_operstate_dormant_cb reads
\* netdev->index only as an argument of l_debug, which ell evaluates only
\* when debug output is enabled (either build or run may have it).
StaleCallback ==
    /\ rtnlq # <<>> /\ Head(rtnlq).kind = "reply"
    /\ Head(rtnlq).cb \in PtrCbs /\ life[Head(rtnlq).idx] = "freed"
    /\ rtnlq' = Tail(rtnlq)
    /\ \E printed \in BOOLEAN :
          uaf' = (uaf \/ Head(rtnlq).cb # "dormant" \/ printed)
    /\ UNCHANGED <<kernel, kup, genlq, list, up, device, life, failed, shut>>

Shutdown ==
    /\ ~shut
    /\ Commit(netdev_shutdown(Cur))
    /\ shut' = TRUE
    /\ UNCHANGED <<kernel, genlq, uaf>>

-----------------------------------------------------------------------------

\* iwd starts (netdev_init): the GET_INTERFACE dump lists the interfaces
\* present at that time.
Init ==
    /\ kif \in [Ifaces -> {"absent", "present"}]
    /\ kup \in [Ifaces -> BOOLEAN]
    /\ rfkill \in BOOLEAN
    /\ \A i \in Ifaces : kup[i] => kif[i] = "present" /\ ~rfkill
    /\ events = 0
    /\ \E order \in [1..Cardinality({i \in Ifaces : kif[i] = "present"}) -> Ifaces] :
          /\ \A k \in DOMAIN order : kif[order[k]] = "present"
          /\ \A k, l \in DOMAIN order : k < l => order[k] < order[l]
          /\ genlq = [k \in DOMAIN order |-> [kind |-> "new", idx |-> order[k]]]
    /\ rtnlq = <<>>
    /\ list = {}
    /\ up = [i \in Ifaces |-> FALSE]
    /\ device = [i \in Ifaces |-> FALSE]
    /\ life = [i \in Ifaces |-> "none"]
    /\ failed = [i \in Ifaces |-> FALSE]
    /\ uaf = FALSE
    /\ shut = FALSE

Kernel ==
    \/ \E i \in Ifaces : KernelNewInterface(i) \/ KernelDelInterface(i) \/ KernelSetLink(i)
    \/ Rfkill

Iwd == NewInterface \/ DelInterface \/ LinkNotify \/ RtnlReply \/ StaleCallback

Next == Kernel \/ Iwd \/ Shutdown

\* The ell main loop reads both sockets whenever data is queued.
Spec == Init /\ [][Next]_vars /\ WF_vars(Iwd)

-----------------------------------------------------------------------------
(* Properties                                                              *)

TypeOK ==
    /\ kif \in [Ifaces -> {"absent", "present", "gone"}]
    /\ kup \in [Ifaces -> BOOLEAN] /\ rfkill \in BOOLEAN
    /\ events \in 0..MaxEvents
    /\ genlq \in Seq([kind : {"new", "del"}, idx : Ifaces])
    /\ rtnlq \in Seq([kind : {"reply", "newlink", "dellink"}, idx : Ifaces,
                       cb : Cbs, res : Results, up : BOOLEAN])
    \* netdev_list holds allocated netdevs only
    /\ list \subseteq {i \in Ifaces : life[i] = "live"}
    /\ up \in [Ifaces -> BOOLEAN] /\ device \in [Ifaces -> BOOLEAN]
    /\ life \in [Ifaces -> {"none", "live", "freed"}]
    /\ failed \in [Ifaces -> BOOLEAN] /\ uaf \in BOOLEAN /\ shut \in BOOLEAN

\* netdev_is_managed, with its gotos out of the whitelist loop, manages
\* exactly the names that match some whitelist pattern (or there is no
\* whitelist) and no blacklist pattern, for every filter of at most two
\* patterns and every interface name; so netdev_list holds only interfaces
\* the configured filters accept.
IsManagedSpec(ifname, wl, bl) ==
    /\ wl = NoFilter \/ \E k \in DOMAIN wl : <<wl[k], ifname>> \in Fnmatch
    /\ bl = NoFilter \/ \A k \in DOMAIN bl : <<bl[k], ifname>> \notin Fnmatch

FilterLoopsMatchSpec ==
    \A i \in Ifaces, wl, bl \in Filters :
        netdev_is_managed(Name[i], wl, bl) <=> IsManagedSpec(Name[i], wl, bl)

IsManagedMatchesSpec ==
    /\ FilterLoopsMatchSpec
    /\ \A i \in list : IsManagedSpec(Name[i], whitelist_filter, blacklist_filter)

\* Once every rtnetlink message about an interface has been read, the
\* IFF_UP that iwd caches in netdev->ifi_flags (from the RTM_GETLINK
\* reply in netdev_getlink_cb and from RTM_NEWLINK in
\* netdev_newlink_notify) is the kernel's, whatever the order of iwd's
\* power cycle, other programs and rfkill.
FlagsTracked ==
    \A i \in list :
        (kif[i] = "present" /\ \A k \in DOMAIN rtnlq : rtnlq[k].idx # i)
            => up[i] = kup[i]

\* Every netdev iwd creates eventually gets its device (device_create in
\* netdev_initial_up_cb), stops on a reported error, or is freed: the
\* chain RTM_GETLINK, SETLINK down, SETLINK up never stalls.
NetdevInitialized ==
    \A i \in Ifaces :
        life[i] = "live" ~> (device[i] \/ failed[i] \/ life[i] = "freed")

\* No callback of netdev_set_powered or netdev_set_linkmode_and_operstate
\* runs with a struct netdev that netdev_free has released: the requests
\* of the initial power cycle are not cancelled when DEL_INTERFACE,
\* RTM_DELLINK or netdev_shutdown frees the netdev.
NoCallbackOnFreedNetdev == ~uaf

=============================================================================
