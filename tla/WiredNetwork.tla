---------------------------- MODULE WiredNetwork ----------------------------
(***************************************************************************)
(* The 802.1X network list of the wired daemon (wired/network.c, carried   *)
(* in src/client/known-networks.c).  network_init reads the storage        *)
(* directory once and then starts an inotify watch on it;                  *)
(* network_storage_watch_cb keeps network_list in step with the files      *)
(* through the notifications.  The directory is changed by other           *)
(* processes at any time, so file operations interleave with the steps of  *)
(* the daemon, including the gap between readdir and l_fswatch_new.        *)
(*                                                                         *)
(* A file name is a pair <<name, suffix>>; only the suffix ".8021x" names  *)
(* a network.  The event kind is left out: the callback treats all five   *)
(* kinds the same.                                                         *)
(***************************************************************************)
EXTENDS Integers, Sequences, FiniteSets, SequencesExt, Functions

CONSTANTS
    Names,          \* base names of storage files
    FileSuffixes,       \* file name suffixes, STORAGEFILE_SUFFIX among them
    NoFile,         \* the NULL filename of an event on the directory itself
    NoName,         \* the NULL name of network_name_from_filename
    MaxOps          \* bound on file operations by other processes

STORAGEFILE_SUFFIX == ".8021x"

Files == Names \X FileSuffixes

\* d_type of a directory entry: DT_REG or DT_LNK ("reg"), anything else ("other")
Kinds == {"absent", "reg", "other"}

VARIABLES
    dir,            \* the storage directory: file -> kind
    evq,            \* inotify events not yet delivered to the callback
    phase,          \* "down", "listed" (read, watch not yet set), "watching",
                    \* "failed" (opendir failed), "exited"
    network_list,   \* the l_queue of network names
    ops             \* file operations so far

vars == <<dir, evq, phase, network_list, ops>>

(* network_name_from_filename: strip the suffix, NULL without it *)
network_name_from_filename(f) ==
    IF f[2] = STORAGEFILE_SUFFIX THEN f[1] ELSE NoName

(* network_match hands strcmp's result to l_queue_find, which takes a      *)
(* non-zero return as "this entry matches".                                *)
network_match(net, name) == net # name

(* network_lookup: l_queue_find returns the first matching entry *)
network_lookup(name) == SelectInSeq(network_list, LAMBDA net : network_match(net, name))

-----------------------------------------------------------------------------
(* The environment: other processes change the directory.  Once the watch  *)
(* is set, the kernel queues one event per file name touched.              *)

Notify(names) ==
    evq' = IF phase = "watching" THEN evq \o names ELSE evq

Create(f, k) ==
    /\ ops < MaxOps
    /\ dir[f] = "absent"
    /\ dir' = [dir EXCEPT ![f] = k]
    /\ Notify(<<f>>)
    /\ ops' = ops + 1
    /\ UNCHANGED <<phase, network_list>>

\* unlink, or a write or chmod of the file
Touch(f, gone) ==
    /\ ops < MaxOps
    /\ dir[f] # "absent"
    /\ dir' = IF gone THEN [dir EXCEPT ![f] = "absent"] ELSE dir
    /\ Notify(<<f>>)
    /\ ops' = ops + 1
    /\ UNCHANGED <<phase, network_list>>

\* rename(2): IN_MOVED_FROM for the old name, IN_MOVED_TO for the new one
Move(f, g) ==
    /\ ops < MaxOps
    /\ dir[f] # "absent" /\ dir[g] = "absent"
    /\ dir' = [dir EXCEPT ![f] = "absent", ![g] = dir[f]]
    /\ Notify(<<f, g>>)
    /\ ops' = ops + 1
    /\ UNCHANGED <<phase, network_list>>

\* an event on the watched directory itself carries no file name
DirEvent ==
    /\ ops < MaxOps
    /\ Notify(<<NoFile>>)
    /\ ops' = ops + 1
    /\ UNCHANGED <<dir, phase, network_list>>

Environment ==
    \/ \E f \in Files, k \in Kinds \ {"absent"} : Create(f, k)
    \/ \E f \in Files, gone \in BOOLEAN : Touch(f, gone)
    \/ \E f, g \in Files : Move(f, g)
    \/ DirEvent

-----------------------------------------------------------------------------
(* The daemon.                                                             *)

(* network_init up to closedir: opendir fails, or readdir pushes a network *)
(* for every regular file or link with the suffix, in directory order.     *)
NetworkInitFail ==
    /\ phase = "down"
    /\ phase' = "failed"
    /\ UNCHANGED <<dir, evq, network_list, ops>>

NetworkInitReaddir ==
    /\ phase = "down"
    /\ \E order \in SetToSeqs({f \in Files : dir[f] = "reg"}) :
         network_list' = SelectSeq(
             [i \in DOMAIN order |-> network_name_from_filename(order[i])],
             LAMBDA n : n # NoName)
    /\ phase' = "listed"
    /\ UNCHANGED <<dir, evq, ops>>

(* network_init: l_fswatch_new after closedir *)
NetworkInitWatch ==
    /\ phase = "listed"
    /\ phase' = "watching"
    /\ UNCHANGED <<dir, evq, network_list, ops>>

(* network_storage_watch_cb for the oldest queued event *)
network_storage_watch_cb(f) ==
    LET name == network_name_from_filename(f)
        net  == network_lookup(name)
    IN  network_list' =
            CASE f = NoFile \/ name = NoName -> network_list
              [] net = 0   -> Append(network_list, name)
              [] OTHER     -> [network_list EXCEPT ![net] = name]

WatchEvent ==
    /\ phase = "watching"
    /\ evq # <<>>
    /\ network_storage_watch_cb(Head(evq))
    /\ evq' = Tail(evq)
    /\ UNCHANGED <<dir, phase, ops>>

(* network_exit: destroy the watch (pending events go with it) and the list *)
NetworkExit ==
    /\ phase \in {"listed", "watching"}
    /\ phase' = "exited"
    /\ evq' = <<>>
    /\ network_list' = <<>>
    /\ UNCHANGED <<dir, ops>>

Daemon == NetworkInitFail \/ NetworkInitReaddir \/ NetworkInitWatch
          \/ WatchEvent \/ NetworkExit

Init ==
    /\ dir \in [Files -> Kinds]
    /\ evq = <<>>
    /\ phase = "down"
    /\ network_list = <<>>
    /\ ops = 0

Next == Environment \/ Daemon

\* The ell main loop delivers every queued inotify event.
Spec == Init /\ [][Next]_vars /\ WF_vars(Daemon)

-----------------------------------------------------------------------------
TypeOK ==
    /\ dir \in [Files -> Kinds]
    /\ evq \in Seq(Files \cup {NoFile})
    /\ phase \in {"down", "listed", "watching", "failed", "exited"}
    /\ network_list \in Seq(Names)
    /\ ops \in 0..MaxOps

(* network_lookup exists so that an event for a file already listed        *)
(* re-reads that network instead of adding it again: the list holds each  *)
(* network name at most once.                                              *)
NetworkNamesUnique == IsInjective(network_list)

StoredNames == {network_name_from_filename(f) :
                    f \in {g \in Files : dir[g] = "reg" /\ g[2] = STORAGEFILE_SUFFIX}}

(* Once the watch is set and every queued event has been handled, each    *)
(* network file in the storage directory has an entry in network_list      *)
(* (readdir at start-up, network_storage_watch_cb afterwards).             *)
StorageListed ==
    (phase = "watching" /\ evq = <<>>) =>
        \A n \in StoredNames : \E i \in DOMAIN network_list : network_list[i] = n
=============================================================================
