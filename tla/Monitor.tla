------------------------------ MODULE Monitor ------------------------------
(***************************************************************************)
(* The netlink monitor (wingsvd main.rs spawn_netlink_monitor() and the    *)
(* two functions it calls, netlink.rs wait_for_change(), routing.rs        *)
(* reassert_upstream_routes()).                                            *)
(*                                                                         *)
(* A thread of its own waits for network changes, sleeps off the burst and *)
(* rewrites the session's upstream table from the main one, unless an app  *)
(* is there to do it.  It takes the session lock twice per round, once to  *)
(* list the tables to ignore and once for the whole reassert; in between   *)
(* clients come, apply, clear and go, and the network changes at any time. *)
(* Every route the daemon writes comes back on the same netlink socket.    *)
(*                                                                         *)
(* An apply and a clear hold the lock over two steps here, the flush of    *)
(* the table and what follows it.  Which threads they are and the lock     *)
(* itself are in Daemon; how a dump is read, and the second family, are in *)
(* Reassert.                                                               *)
(***************************************************************************)
EXTENDS Naturals, Sequences

CONSTANTS
  Uplinks,    \* physical defaults the main table can hold
  NoUplink,   \* no default: the main table, or a mirror, is empty
  Tables,     \* upstream tables the specs name
  NoTable,    \* session.spec is None
  Main,       \* the main table
  Link,       \* a link or address message, which names no table
  MaxQueue,   \* messages the socket's receive buffer holds, if it can overflow
  MaxEvents,  \* bound: things the network and the clients do
  Trouble     \* what can go wrong: "overflow" of the buffer, a failed
              \* "dump" or "apply", a socket that does not "open"

ASSUME MonitorAssumption ==
  /\ NoUplink \notin Uplinks
  /\ NoTable \notin Tables /\ Main \notin Tables /\ Link \notin Tables
  /\ MaxQueue \in Nat \ {0} /\ MaxEvents \in Nat
  /\ Trouble \subseteq {"overflow", "dump", "apply", "open"}

VARIABLES
  main,      \* the default of the main table
  mirror,    \* mirror[t]: the default in upstream table t
  table,     \* session.spec.upstream_table, or NoTable
  app,       \* session.app_clients > 0
  job,       \* the apply or clear that holds the lock
  queue,     \* messages received and not read, each the table it is about
  enobufs,   \* the next recv() fails: messages were dropped
  mpc,       \* where the monitor thread is
  ignored,   \* the list it gave wait_for_change()
  dumped,    \* the defaults it read from the main table
  owed,      \* the network changed behind an absent app and is not mirrored yet
  events     \* how much has happened, for the bound

vars == <<main, mirror, table, app, job, queue, enobufs, mpc, ignored, dumped, owed, events>>

Defaults == Uplinks \cup {NoUplink}
NoJob == [op |-> "none", table |-> NoTable, default |-> NoUplink]
Jobs == {NoJob}
  \cup [op : {"apply"}, table : Tables, default : Defaults]
  \cup [op : {"clear"}, table : Tables, default : {NoUplink}]
MonitorPCs == {"listing", "waiting", "sleeping", "flushing", "dumping", "adding", "stopped"}

\* Monitor::open(): without a socket the thread ends at once.
StartPCs == {"listing"} \cup {"stopped" : x \in Trouble \cap {"open"}}

Init ==
  /\ main \in Defaults /\ mirror = [t \in Tables |-> NoUplink]
  /\ table = NoTable /\ app = FALSE /\ job = NoJob
  /\ queue = <<>> /\ enobufs = FALSE
  /\ mpc \in StartPCs /\ ignored = {} /\ dumped = NoUplink
  /\ owed = FALSE /\ events = 0

\* The reassert holds the session lock from its first check to its last route,
\* a handler from its first command to its last.
Reasserting == mpc \in {"flushing", "dumping", "adding"}
Free == ~Reasserting /\ job = NoJob

\* The debt is settled when the mirror is right, or somebody else's business.
Settle(due) ==
  owed' = /\ due
          /\ table' # NoTable /\ ~app'
          /\ mirror'[table'] # main'

\* The kernel puts a message on the socket, or drops it and remembers.
Notify(msgs) ==
  \/ /\ mpc = "stopped"
     /\ UNCHANGED <<queue, enobufs>>
  \/ /\ mpc # "stopped" /\ ("overflow" \in Trouble => Len(queue) + Len(msgs) <= MaxQueue)
     /\ queue' = queue \o msgs /\ UNCHANGED enobufs
  \/ /\ mpc # "stopped" /\ Len(queue) + Len(msgs) > MaxQueue /\ "overflow" \in Trouble
     /\ queue' = SubSeq(queue \o msgs, 1, MaxQueue) /\ enobufs' = TRUE

\* What a write to table t puts on the socket: nothing when it changes nothing.
NotifyWrite(t, d) == Notify(IF mirror[t] = d THEN <<>> ELSE <<t>>)

Happens == events < MaxEvents /\ events' = events + 1
-----------------------------------------------------------------------------
(* The network. *)

\* A change behind an absent app is the daemon's to mirror.
Unowned == table # NoTable /\ ~app

\* The physical default changes: lost, found or replaced.
Handover(d) ==
  /\ Happens /\ d # main /\ main' = d
  /\ UNCHANGED <<mirror, table, app, job, mpc, ignored, dumped>>
  /\ Notify(<<Main>>)
  /\ Settle(owed \/ Unowned)

\* A link or an address comes or goes and the default stays.
LinkEvent ==
  /\ Happens /\ Notify(<<Link>>)
  /\ UNCHANGED <<main, mirror, table, app, job, mpc, ignored, dumped>>
  /\ Settle(owed \/ Unowned)
-----------------------------------------------------------------------------
(* The clients.  Every step but the last two needs the lock to be free; that *)
(* it is, is said where the steps are put together.                          *)

\* serve() counts its first app client, or lets go of its last.
Arrive ==
  /\ Happens /\ ~app /\ app' = TRUE
  /\ UNCHANGED <<main, mirror, table, job, queue, enobufs, mpc, ignored, dumped>>
  /\ Settle(owed)

Depart ==
  /\ Happens /\ app /\ app' = FALSE
  /\ UNCHANGED <<main, mirror, table, job, queue, enobufs, mpc, ignored, dumped>>
  /\ Settle(owed)

\* apply() begins with a flush; the default it will add is the one the app has
\* resolved, perhaps a while ago.
BeginApply(t, d) ==
  /\ Happens /\ app
  /\ job' = [op |-> "apply", table |-> t, default |-> d]
  /\ mirror' = [mirror EXCEPT ![t] = NoUplink] /\ NotifyWrite(t, NoUplink)
  /\ UNCHANGED <<main, table, app, mpc, ignored, dumped>>
  /\ Settle(owed)

\* The session is recorded when all went well, and only then.
EndApply ==
  /\ job.op = "apply" /\ job' = NoJob
  /\ LET t == job.table
     IN  \/ table' = t /\ mirror' = [mirror EXCEPT ![t] = job.default] /\ NotifyWrite(t, job.default)
         \/ "apply" \in Trouble /\ UNCHANGED <<table, mirror, queue, enobufs>>
  /\ UNCHANGED <<main, app, mpc, ignored, dumped, events>>
  /\ Settle(owed)

\* spec.take() comes before the first command.
BeginClear ==
  /\ Happens /\ table # NoTable
  /\ job' = [op |-> "clear", table |-> table, default |-> NoUplink] /\ table' = NoTable
  /\ UNCHANGED <<main, mirror, app, queue, enobufs, mpc, ignored, dumped>>
  /\ Settle(owed)

EndClear ==
  /\ job.op = "clear" /\ job' = NoJob
  /\ mirror' = [mirror EXCEPT ![job.table] = NoUplink] /\ NotifyWrite(job.table, NoUplink)
  /\ UNCHANGED <<main, table, app, mpc, ignored, dumped, events>>
  /\ Settle(owed)

\* The daemon dies, in a handler or a reassert or between them, and comes
\* back: no session, a new socket, a new thread.
Crash ==
  /\ Happens
  /\ table' = NoTable /\ app' = FALSE /\ job' = NoJob /\ owed' = FALSE
  /\ queue' = <<>> /\ enobufs' = FALSE
  /\ mpc' \in StartPCs /\ ignored' = {} /\ dumped' = NoUplink
  /\ UNCHANGED <<main, mirror>>
-----------------------------------------------------------------------------
(* The monitor thread. *)
network == <<main, mirror, table, app, job, owed, events>>

\* Mutant: the list is made once, when the thread starts.
ListOnce ==
  /\ mpc = "listing" /\ mpc' = "waiting"
  /\ UNCHANGED <<network, queue, enobufs, ignored, dumped>>

\* Mutant: a session without a table puts its placeholder in the list.
ListRaw ==
  /\ mpc = "listing" /\ mpc' = "waiting"
  /\ ignored' = {table}
  /\ UNCHANGED <<network, queue, enobufs, dumped>>

\* ignored_tables(), before every wait and under the lock.  A spec's tproxy
\* table is on the list with its upstream table and is left out: only apply()
\* and clear() write it (routing.rs:168, 223), next to the other, so its
\* messages wake nobody whom theirs does not wake.
ListIgnored ==
  /\ mpc = "listing" /\ mpc' = "waiting"
  /\ ignored' = {table} \ {NoTable}
  /\ UNCHANGED <<network, queue, enobufs, dumped>>

\* Mutant: only link and address messages wake the monitor.
ReceiveLinksOnly ==
  /\ mpc = "waiting" /\ queue # <<>>
  /\ queue' = Tail(queue)
  /\ mpc' = IF Head(queue) = Link THEN "sleeping" ELSE "waiting"
  /\ UNCHANGED <<network, enobufs, ignored, dumped>>

\* wait_for_change(): link and address messages count, and defaults of every
\* table that is not ignored.  A failed recv() ends the thread for good, and
\* the socket with it.
Receive ==
  /\ mpc = "waiting"
  /\ \/ enobufs /\ mpc' = "stopped" /\ queue' = <<>> /\ enobufs' = FALSE
     \/ /\ ~enobufs /\ queue # <<>> /\ UNCHANGED enobufs
        /\ queue' = Tail(queue)
        /\ mpc' = IF Head(queue) \in ignored THEN "waiting" ELSE "sleeping"
  /\ ignored' = IF mpc' = "waiting" THEN ignored ELSE {}
  /\ UNCHANGED <<network, dumped>>

\* Mutant: whoever owned the session before the sleep still does.
WakeUnasked ==
  /\ mpc = "sleeping"
  /\ mpc' = IF table = NoTable THEN "listing" ELSE "flushing"
  /\ UNCHANGED <<network, queue, enobufs, ignored, dumped>>

\* 700 ms later: reassert_upstream_if_unowned() looks who is there.
Wake ==
  /\ mpc = "sleeping"
  /\ mpc' = IF app \/ table = NoTable THEN "listing" ELSE "flushing"
  /\ UNCHANGED <<network, queue, enobufs, ignored, dumped>>

Write(d) ==
  /\ mirror' = [mirror EXCEPT ![table] = d] /\ NotifyWrite(table, d)
  /\ UNCHANGED <<main, table, app, job, ignored, events>>
  /\ Settle(owed)

FlushMirror ==
  /\ mpc = "flushing" /\ mpc' = "dumping"
  /\ Write(NoUplink) /\ UNCHANGED dumped

\* default_routes(): best effort.  A read that the network changed under may
\* come to anything, and that change is still to be read; one that fails comes
\* to nothing, and gives the debt up.
DumpMain ==
  /\ mpc = "dumping" /\ mpc' = "adding"
  /\ \/ dumped' = main /\ UNCHANGED owed
     \/ (\E i \in DOMAIN queue : queue[i] = Main) /\ dumped' \in Defaults \ {main} /\ UNCHANGED owed
     \/ "dump" \in Trouble /\ dumped' = NoUplink /\ owed' = FALSE
  /\ UNCHANGED <<main, mirror, table, app, job, events, queue, enobufs, ignored>>

AddDumped ==
  /\ mpc = "adding" /\ mpc' = "listing"
  /\ Write(dumped) /\ dumped' = NoUplink

Thread ==
  \/ Free /\ (ListIgnored \/ Wake)
  \/ Receive \/ FlushMirror \/ DumpMain \/ AddDumped

Clients ==
  \/ Free /\ (Arrive \/ Depart \/ BeginClear)
  \/ \E t \in Tables, d \in Defaults : Free /\ BeginApply(t, d)

Next ==
  \/ Thread \/ Clients \/ EndApply \/ EndClear \/ Crash
  \/ \E d \in Defaults : Handover(d)
  \/ LinkEvent

Spec == Init /\ [][Next]_vars

\* The thread is scheduled; a recv() with something to read returns, and so do
\* the commands of a handler.
FairSpec == Spec /\ WF_vars(Thread) /\ WF_vars(EndApply \/ EndClear)
-----------------------------------------------------------------------------
(***************************************************************************)
(* Properties.                                                             *)
(***************************************************************************)
Monitor_TypeOK ==
  /\ main \in Defaults /\ mirror \in [Tables -> Defaults] /\ dumped \in Defaults
  /\ table \in Tables \cup {NoTable} /\ app \in BOOLEAN /\ job \in Jobs
  /\ queue \in Seq(Tables \cup {Main, Link})
  /\ "overflow" \in Trouble => Len(queue) <= MaxQueue
  /\ enobufs \in BOOLEAN /\ owed \in BOOLEAN
  /\ mpc \in MonitorPCs /\ ignored \subseteq Tables
  /\ events \in 0..MaxEvents

\* Two writers never race on the one table: the daemon only writes it while no
\* app is counted and no handler runs (main.rs:413-414), although it decided to
\* a step earlier.
NeverFightsTheApp == Reasserting => ~app /\ table # NoTable /\ job = NoJob

\* A change behind an absent app is mirrored, whatever the monitor was busy
\* with, was told to ignore or had just read when it came, torn dumps and
\* failed applies before it included; or an app comes back, or the session is
\* cleared (main.rs:364-367, routing.rs:234-235).  The dump is best effort: one
\* that fails gives the change up, until another wakes the monitor.  And this
\* takes a monitor: its socket may not open, or fail when messages were dropped.
HandoverHealsWhileWatched == owed ~> (~owed \/ mpc = "stopped")

\* The daemon does not chase its own tail: once the world is still the monitor
\* goes back to waiting and stays there (netlink.rs:101-103).
ComesToRest == <>[](mpc = "stopped" \/ (mpc = "waiting" /\ queue = <<>>))
=============================================================================
