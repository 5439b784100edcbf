------------------------------ MODULE Children ------------------------------
(***************************************************************************)
(* The daemon's child processes (wingsvd children.rs and the dispatch()    *)
(* arms that use it).                                                      *)
(*                                                                         *)
(* Every operation runs under the session lock.  A child may exit at any   *)
(* moment; until somebody waits for it its pid stays taken by a zombie,    *)
(* and once waited for the kernel may give the pid to anyone.  kill()      *)
(* waits for the process it killed, lock held.  When the daemon dies its   *)
(* children go on without it.                                              *)
(***************************************************************************)
EXTENDS Naturals, FiniteSets

CONSTANTS
  Pids,      \* the kernel's process ids
  NoPid,
  MaxSpawns  \* bound: processes ever started by the daemon

ASSUME ChildrenAssumption == IsFiniteSet(Pids) /\ NoPid \notin Pids /\ MaxSpawns \in Nat

VARIABLES
  next_id,  \* Children.next_id
  running,  \* Children.running: child id -> pid
  proc,     \* the kernel's process table: pid -> [state, serial]
  spawned,  \* how many processes the daemon has started since boot
  handles,  \* the ChildHandles clients hold: [child_id, serial]
  killing,  \* the ids kill() or kill_all() still has to go through
  waiting,  \* the pid wait() is blocked on, or NoPid
  clearing  \* the handler is ClearRouting's kill_all()

childVars == <<next_id, running, proc, spawned, handles, killing, waiting, clearing>>

\* serial numbers the processes the daemon ever started, so that a pid or a
\* child id in its second use can be told from the first; 0 is everything
\* else on the device.
Serials == 0..MaxSpawns
\* The children of this daemon, waited for or not, and everything else: a
\* "lost" process is the child of a daemon that has died.
OwnStates == {"alive", "killed", "zombie"}
States == OwnStates \cup {"free", "other", "lost"}
Nothing == [state |-> "free", serial |-> 0]

Without(f, S) == [x \in DOMAIN f \ S |-> f[x]]

ChildInit ==
  /\ next_id = 0 /\ running = <<>> /\ spawned = 0
  /\ proc = [p \in Pids |-> Nothing]
  /\ handles = {} /\ killing = {} /\ waiting = NoPid /\ clearing = FALSE

Unlocked == killing = {} /\ waiting = NoPid /\ ~clearing

\* Mutant: the id is taken from the size of the table.
SpawnBySize(p) ==
  /\ Unlocked
  /\ spawned < MaxSpawns /\ proc[p].state = "free"
  /\ spawned' = spawned + 1
  /\ LET id == Cardinality(DOMAIN running) + 1
     IN  /\ running' = [i \in DOMAIN running \cup {id} |-> IF i = id THEN p ELSE running[i]]
         /\ handles' = handles \cup {[child_id |-> id, serial |-> spawned']}
  /\ proc' = [proc EXCEPT ![p] = [state |-> "alive", serial |-> spawned']]
  /\ UNCHANGED <<next_id, killing, waiting, clearing>>

\* spawn(): the id is only counted once the process is there.  A refused or
\* failed spawn changes nothing.
Spawn(p) ==
  /\ Unlocked
  /\ spawned < MaxSpawns /\ proc[p].state = "free"
  /\ spawned' = spawned + 1 /\ next_id' = next_id + 1
  /\ running' = [i \in DOMAIN running \cup {next_id'} |-> IF i = next_id' THEN p ELSE running[i]]
  /\ proc' = [proc EXCEPT ![p] = [state |-> "alive", serial |-> spawned']]
  /\ handles' = handles \cup {[child_id |-> next_id', serial |-> spawned']}
  /\ UNCHANGED <<killing, waiting, clearing>>

\* Mutant: an id that is not in the table is looked up all the same.
KillUnchecked(id) ==
  /\ Unlocked
  /\ killing' = {id}
  /\ UNCHANGED <<next_id, running, proc, spawned, handles, waiting, clearing>>

\* KillChild for an id some client holds; an id that is gone is no error.
Kill(id) ==
  /\ Unlocked
  /\ killing' = {id} \cap DOMAIN running
  /\ UNCHANGED <<next_id, running, proc, spawned, handles, waiting, clearing>>

\* kill_all() goes through the ids it finds in the table, in any order.
KillAll ==
  /\ Unlocked
  /\ killing' = DOMAIN running /\ clearing' = TRUE
  /\ UNCHANGED <<next_id, running, proc, spawned, handles, waiting>>

\* Mutant: kill() waits for the child to end by itself.
KillPolitely(id) ==
  /\ waiting = NoPid /\ id \in killing
  /\ killing' = killing \ {id}
  /\ running' = Without(running, {id})
  /\ waiting' = running[id]
  /\ UNCHANGED <<next_id, proc, spawned, handles, clearing>>

\* kill(): out of the table, SIGKILL, then wait().
KillOne(id) ==
  /\ waiting = NoPid /\ id \in killing
  /\ killing' = killing \ {id}
  /\ running' = Without(running, {id})
  /\ proc' = [proc EXCEPT ![running[id]].state = IF @ = "alive" THEN "killed" ELSE @]
  /\ waiting' = running[id]
  /\ UNCHANGED <<next_id, spawned, handles, clearing>>

\* wait() returns once there is a zombie to collect.
Reap ==
  /\ waiting # NoPid /\ proc[waiting].state = "zombie"
  /\ proc' = [proc EXCEPT ![waiting] = Nothing]
  /\ waiting' = NoPid
  /\ UNCHANGED <<next_id, running, spawned, handles, killing, clearing>>

\* Mutant: the handler answers while the last child is still dying.
EndClearEarly ==
  /\ clearing /\ killing = {}
  /\ clearing' = FALSE /\ waiting' = NoPid
  /\ UNCHANGED <<next_id, running, proc, spawned, handles, killing>>

EndClear ==
  /\ clearing /\ killing = {} /\ waiting = NoPid
  /\ clearing' = FALSE
  /\ UNCHANGED <<next_id, running, proc, spawned, handles, killing, waiting>>

Dead == {i \in DOMAIN running : proc[running[i]].state = "zombie"}

\* Mutant: the dead are waited for and stay in the table.
SnapshotKeepsDead ==
  /\ Unlocked
  /\ proc' = [p \in Pids |-> IF \E i \in Dead : running[i] = p THEN Nothing ELSE proc[p]]
  /\ UNCHANGED <<next_id, running, spawned, handles, killing, waiting, clearing>>

\* snapshot(): try_wait() collects whoever has exited.
Snapshot ==
  /\ Unlocked
  /\ proc' = [p \in Pids |-> IF \E i \in Dead : running[i] = p THEN Nothing ELSE proc[p]]
  /\ running' = Without(running, Dead)
  /\ UNCHANGED <<next_id, spawned, handles, killing, waiting, clearing>>
-----------------------------------------------------------------------------
(* The rest of the device. *)

\* A child ends by itself or by the signal; a lost one is init's to collect.
Exit(p) ==
  /\ \/ proc[p].state \in {"alive", "killed"} /\ proc' = [proc EXCEPT ![p].state = "zombie"]
     \/ proc[p].state \in {"lost", "other"} /\ proc' = [proc EXCEPT ![p] = Nothing]
  /\ UNCHANGED <<next_id, running, spawned, handles, killing, waiting, clearing>>

\* Some other program is given a free pid.
Foreign(p) ==
  /\ proc[p].state = "free"
  /\ proc' = [proc EXCEPT ![p].state = "other"]
  /\ UNCHANGED <<next_id, running, spawned, handles, killing, waiting, clearing>>

\* The daemon dies: its connections close, so clients drop their handles; its
\* zombies are init's; its children run on and no daemon knows them again.
DaemonDies ==
  /\ next_id' = 0 /\ running' = <<>>
  /\ proc' = [p \in Pids |->
       CASE proc[p].state = "zombie" -> Nothing
         [] proc[p].state \in {"alive", "killed"} -> [proc[p] EXCEPT !.state = "lost"]
         [] OTHER -> proc[p]]
  /\ handles' = {} /\ killing' = {} /\ waiting' = NoPid /\ clearing' = FALSE
  /\ UNCHANGED spawned

Daemon ==
  \/ \E p \in Pids : Spawn(p)
  \/ \E h \in handles : Kill(h.child_id)
  \/ KillAll \/ Snapshot \/ Reap \/ EndClear
  \/ \E id \in killing : KillOne(id)

ChildNext == Daemon \/ DaemonDies \/ \E p \in Pids : Exit(p) \/ Foreign(p)

ChildSpec == ChildInit /\ [][ChildNext]_childVars

\* A handler that has started goes on, and a process that was sent SIGKILL
\* dies.  Nothing makes a live child exit or a client ask.
Fairness ==
  /\ WF_childVars(\E id \in killing : KillOne(id)) /\ WF_childVars(Reap) /\ WF_childVars(EndClear)
  /\ \A p \in Pids : WF_childVars(proc[p].state = "killed" /\ Exit(p))
FairSpec == ChildSpec /\ Fairness
-----------------------------------------------------------------------------
(***************************************************************************)
(* Properties.                                                             *)
(***************************************************************************)
Children_TypeOK ==
  /\ next_id \in 0..spawned /\ spawned \in Serials
  /\ DOMAIN running \subseteq 1..next_id /\ \A i \in DOMAIN running : running[i] \in Pids
  /\ proc \in [Pids -> [state : States, serial : Serials]]
  /\ handles \subseteq [child_id : 1..next_id, serial : 1..spawned]
  /\ killing \subseteq DOMAIN running
  /\ waiting \in Pids \cup {NoPid}
  /\ clearing \in BOOLEAN

\* The daemon never loses sight of a child it has not waited for, so no zombie
\* stays behind, and never keeps one it has, so no signal goes to whoever got
\* the pid next: the table and the process being waited for are, one to one,
\* the daemon's processes (spawn(), kill(), snapshot()).
TableIsExact ==
  /\ \A p \in Pids :
       proc[p].state \in OwnStates <=> (waiting = p \/ \E i \in DOMAIN running : running[i] = p)
  /\ \A i, j \in DOMAIN running : running[i] = running[j] => i = j
  /\ \A i \in DOMAIN running : running[i] # waiting

\* An id a client was given names the process it was given for or nothing at
\* all, however many have come and gone since: a late KillChild cannot hit
\* a later child.
HandlesStayTrue ==
  \A h \in handles :
    h.child_id \in DOMAIN running => proc[running[h.child_id]].serial = h.serial

\* ClearRouting answers when every child is dead and collected, also those
\* that died while it was at it.
ClearedMeansGone ==
  [][(clearing /\ ~clearing') =>
       \A p \in Pids : proc'[p].state \notin OwnStates]_childVars

\* kill() waits with the session lock held, and gets it back.
LockComesBack == ~Unlocked ~> Unlocked
=============================================================================
