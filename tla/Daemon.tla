------------------------------- MODULE Daemon -------------------------------
(***************************************************************************)
(* The daemon put together: the serve() threads of Session, the monitor    *)
(* thread of Monitor, and the one Mutex between them (wingsvd main.rs).    *)
(*                                                                         *)
(* Session takes every handler for one step and Monitor takes the clients  *)
(* for granted.  Here an apply and a clear are the steps they are, under a *)
(* lock that says who holds it, with the network, a second client and the  *)
(* death of the process in between.  What makes the parts fit is that      *)
(* every step is one of Session, and one of Monitor.                       *)
(* What handlers do besides routing is in Session, CarveOut and Children.  *)
(***************************************************************************)
EXTENDS Naturals, Sequences, FiniteSets

CONSTANTS
  \* those of Session
  Conns, Uids, Root, NoUid, Specs, NoSpec, MaxInbox, MaxChildren,
  \* those of Monitor; a spec is the upstream table it names
  Uplinks, NoUplink, Main, Link, MaxQueue, MaxEvents, Trouble,
  \* holders of the session lock that are not connections
  NoOne, TheMonitor

ASSUME DaemonAssumption ==
  /\ NoOne \notin Conns /\ TheMonitor \notin Conns /\ NoOne # TheMonitor

VARIABLES
  up, appUid, pc, uid, isApp, open, inbox,              \* as in Session
  spec, carved, orphaned, children, appClients,         \* the Session record
  main, mirror, job, queue, enobufs, mpc, ignored, dumped, owed, events,
                                                        \* as in Monitor
  lock                                                  \* who holds the Mutex

serving == <<up, appUid, pc, uid, isApp, open, inbox>>
record == <<spec, carved, orphaned, children, appClients>>
watching == <<main, mirror, job, queue, enobufs, mpc, ignored, dumped, owed, events>>
vars == <<serving, record, watching, lock>>

S == INSTANCE Session
M == INSTANCE Monitor WITH table <- spec, app <- appClients > 0,
                           Tables <- Specs, NoTable <- NoSpec

Init == S!Init /\ M!Init /\ lock = NoOne
-----------------------------------------------------------------------------
(* What takes no lock. *)
Network ==
  /\ up /\ UNCHANGED <<serving, record, lock>>
  /\ \E d \in M!Defaults : M!Handover(d)

\* Clients that wait for their answer; those that do not are in Session.
Peer(c) ==
  /\ \/ \E u \in Uids : S!Connect(c, u)
     \/ pc[c] = "reading" /\ S!Send(c)
     \/ S!HangUp(c)
  /\ UNCHANGED <<watching, lock>>

Unlocked(c) ==
  /\ S!Admit(c) \/ S!Read(c) \/ S!Write(c)
  /\ UNCHANGED <<watching, lock>>
-----------------------------------------------------------------------------
(* What takes it for a step: guards that go with the statement's end. *)
Join(c) ==
  /\ lock = NoOne /\ S!Join(c) /\ UNCHANGED lock
  /\ IF appClients = 0 THEN M!Arrive ELSE UNCHANGED watching

\* Mutant: the count is given back without the lock, a store of its own.
LeaveLockless(c) ==
  /\ S!Leave(c) /\ UNCHANGED lock
  /\ IF appClients > 0 /\ appClients' = 0 THEN M!Depart ELSE UNCHANGED watching

Leave(c) ==
  /\ lock = NoOne /\ S!Leave(c) /\ UNCHANGED lock
  /\ IF appClients > 0 /\ appClients' = 0 THEN M!Depart ELSE UNCHANGED watching

\* Every command that leaves the routing of the session alone.
Other(c) == lock = NoOne /\ S!ReadOnly(c) /\ UNCHANGED <<watching, lock>>
-----------------------------------------------------------------------------
(* dispatch() holds it for the whole command. *)

\* The root CLI has no apply.
BeginApply(c, s, d) ==
  /\ lock = NoOne /\ lock' = c
  /\ pc[c] = "handling" /\ uid[c] # Root
  /\ UNCHANGED <<serving, record>>
  /\ M!BeginApply(s, d)

\* The session is recorded, or left alone, and the guard is dropped.
EndApply(c) ==
  /\ lock = c /\ lock' = NoOne
  /\ S!ApplyRouting(c) /\ spec' \in {spec, job.table}
  /\ M!EndApply

BeginClear(c) ==
  /\ lock = NoOne /\ lock' = c
  /\ pc[c] = "handling"
  /\ spec' = NoSpec
  /\ UNCHANGED <<serving, carved, orphaned, children, appClients>>
  /\ M!BeginClear

\* Mutant: the clear runs to its end and the guard is forgotten.
EndClearLocked(c) ==
  /\ lock = c /\ UNCHANGED lock
  /\ S!ClearRouting(c)
  /\ M!EndClear

EndClear(c) ==
  /\ lock = c /\ lock' = NoOne
  /\ S!ClearRouting(c)
  /\ M!EndClear

\* A clear that has no spec runs no commands.
ClearNothing(c) ==
  /\ lock = NoOne /\ spec = NoSpec
  /\ S!ClearRouting(c) /\ UNCHANGED <<watching, lock>>

Serve(c) ==
  \/ Unlocked(c) \/ Join(c) \/ Leave(c) \/ Other(c)
  \/ \E s \in Specs, d \in M!Defaults : BeginApply(c, s, d)
  \/ EndApply(c) \/ BeginClear(c) \/ EndClear(c) \/ ClearNothing(c)
-----------------------------------------------------------------------------
(* The monitor: one step under the lock, one without, four under it. *)

\* ignored_tables()
List == lock = NoOne /\ M!ListIgnored /\ UNCHANGED lock

Receive == M!Receive /\ UNCHANGED lock

\* Mutant: the guard of the check is not the guard of the reassert.
WakeAndUnlock == lock = NoOne /\ M!Wake /\ UNCHANGED lock

\* reassert_upstream_if_unowned() keeps the guard it has looked under.
Wake ==
  /\ lock = NoOne /\ M!Wake
  /\ lock' = IF mpc' = "flushing" THEN TheMonitor ELSE NoOne

Rewrite == (M!FlushMirror \/ M!DumpMain) /\ UNCHANGED lock

LastRoute == M!AddDumped /\ lock' = NoOne

Watch == up /\ UNCHANGED <<serving, record>> /\ (List \/ Receive \/ Wake \/ Rewrite \/ LastRoute)
-----------------------------------------------------------------------------
\* The process dies with whatever it held.
Crash == S!Crash /\ M!Crash /\ lock' = NoOne

Restart == S!Restart /\ UNCHANGED <<watching, lock>>

Next ==
  \/ \E c \in Conns : Peer(c) \/ Serve(c)
  \/ Watch \/ Network \/ Crash \/ Restart

Spec == Init /\ [][Next]_vars
-----------------------------------------------------------------------------
(***************************************************************************)
(* Properties.                                                             *)
(***************************************************************************)

\* Who holds the Mutex is where the code is: in the reassert, or in a handler
\* that is not through with its commands.
Daemon_TypeOK ==
  /\ lock \in Conns \cup {NoOne, TheMonitor}
  /\ lock = TheMonitor <=> M!Reasserting
  /\ lock \in Conns <=> job # M!NoJob
  /\ lock \in Conns => pc[lock] = "handling"

\* What Session sees of a handler that has taken the spec and not finished.
Served == INSTANCE Session WITH spec <- IF job.op = "clear" THEN job.table ELSE spec

\* With handlers of many steps and the monitor at work between requests, to its
\* clients the daemon is still the one of Session: every command takes effect
\* at once, and whoever looks at the session or is counted in it does so before
\* or after (dispatch(), main.rs:213-217).
ImplementsSession == Served!Spec

\* What the threads of Session do is what Monitor expects of its clients: only a
\* counted app applies, nobody comes or goes in the middle of a reassert, and a
\* crash takes the handler and the reassert down together.
ImplementsMonitor == M!Spec
=============================================================================
