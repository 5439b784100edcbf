---------------------------- MODULE Supervision ----------------------------
(***************************************************************************)
(* Who starts the daemon, who may serve, and what ends it (service.sh,     *)
(* wingsvd main.rs main() up to its accept loop and logln!).               *)
(*                                                                         *)
(* service.sh runs the daemon with its output in a pipe to `log`, waits    *)
(* for both, sleeps and starts over.  The daemon opens its log file before *)
(* it knows whether it may serve: the abstract socket name is exclusive    *)
(* and goes with its process, so an instance somebody starts by hand keeps *)
(* the service's out, or is kept out by it, and either writes to the one   *)
(* log.  A line goes to stderr first, and eprintln! panics when nobody     *)
(* reads the pipe, which aborts.                                           *)
(***************************************************************************)
EXTENDS RotatingLog

CONSTANTS
  Service,    \* the process service.sh starts; the others are started by hand
  Nobody,     \* the name is free
  MaxTrouble  \* bound: kills, dead readers, starts by hand, failed calls

ASSUME SupervisionAssumption ==
  /\ Service \in Procs /\ Nobody \notin Procs
  /\ NoFile \notin Files /\ MaxTrouble \in Nat

VARIABLES
  shell,    \* the loop of service.sh: "sleeping" or "waiting"
  reader,   \* its `log` is alive
  ends,     \* who holds the writing end of the pipe
  child,    \* a child of the service's daemon runs, and outlives it
  stage,    \* stage[p]: where p is in main()
  name,     \* who is bound to @wings.v.rootd
  trouble   \* how much has gone wrong, for the bound

processes == <<shell, reader, ends, child, stage, name>>
vars == <<logVars, processes, trouble>>

Init ==
  /\ LogInit
  /\ shell = "sleeping" /\ reader = FALSE /\ ends = {} /\ child = FALSE
  /\ stage = [p \in Procs |-> "none"] /\ name = Nobody
  /\ trouble = 0

Trouble == trouble < MaxTrouble /\ trouble' = trouble + 1
-----------------------------------------------------------------------------
(* service.sh *)

\* "$DAEMON" 2>&1 | log -t wingsvd, at once or after the sleep.
Launch ==
  /\ shell = "sleeping" /\ shell' = "waiting"
  /\ stage' = [stage EXCEPT ![Service] = "opening"]
  /\ reader' = TRUE /\ ends' = {"daemon"}
  /\ UNCHANGED <<logVars, child, name, trouble>>

\* The pipeline is over when the daemon is, and when `log` has read the end of
\* a pipe that nobody can write to any more.
PipelineEnds ==
  /\ shell = "waiting" /\ stage[Service] = "none"
  /\ reader => ends = {}
  /\ shell' = "sleeping" /\ reader' = FALSE
  /\ UNCHANGED <<logVars, ends, child, stage, name, trouble>>
-----------------------------------------------------------------------------
(* main() *)

StartByHand(p) ==
  /\ Trouble /\ p # Service /\ stage[p] = "none"
  /\ stage' = [stage EXCEPT ![p] = "opening"]
  /\ UNCHANGED <<logVars, shell, reader, ends, child, name>>

\* log::init()
OpenFirst(p) ==
  /\ stage[p] = "opening" /\ stage' = [stage EXCEPT ![p] = "binding"]
  /\ \/ OpenLog(p) /\ UNCHANGED trouble
     \/ OpenFails(p) /\ Trouble
  /\ UNCHANGED <<at, moved, lines, misses, cuts, shell, reader, ends, child, name>>

\* bind_addr(): either way there is something to log.
Bind(p) ==
  /\ stage[p] = "binding"
  /\ IF name = Nobody
     THEN name' = p /\ stage' = [stage EXCEPT ![p] = "announcing"]
     ELSE stage' = [stage EXCEPT ![p] = "refused"] /\ UNCHANGED name
  /\ UNCHANGED <<logVars, shell, reader, ends, child, trouble>>

\* The process ends, for whatever reason: the kernel closes what it had.
Gone(p) ==
  /\ CloseLog(p)
  /\ stage' = [stage EXCEPT ![p] = "none"]
  /\ name' = IF name = p THEN Nobody ELSE name
  /\ ends' = IF p = Service THEN ends \ {"daemon"} ELSE ends
  /\ UNCHANGED <<shell, reader, child>>

Speaking == {"announcing", "refused", "serving"}
Said(s) == CASE s = "announcing" -> "announced" [] s = "refused" -> "exiting" [] OTHER -> s

\* eprintln! comes first.
Readerless(p) == p = Service /\ ~reader

\* logln!
Say(p) ==
  /\ stage[p] \in Speaking /\ at[p] = "idle"
  /\ \/ Readerless(p) /\ Gone(p)
     \/ /\ ~Readerless(p)
        /\ stage' = [stage EXCEPT ![p] = Said(@)]
        /\ IF handle[p] = NoFile THEN UNCHANGED logVars ELSE Begin(p)
        /\ UNCHANGED <<shell, reader, ends, child, name>>
  /\ UNCHANGED trouble

\* The rest of log::write().
Logging(p) ==
  /\ \/ Move(p, FALSE) /\ UNCHANGED trouble
     \/ Move(p, TRUE) /\ Trouble
     \/ Reopen(p, FALSE) /\ UNCHANGED trouble
     \/ Reopen(p, TRUE) /\ Trouble
     \/ WriteLine(p) /\ UNCHANGED trouble
  /\ UNCHANGED processes

\* What main() does once it has said so: serve, or exit(1).
Carry(p) ==
  /\ at[p] = "idle"
  /\ \/ stage[p] = "announced" /\ stage' = [stage EXCEPT ![p] = "serving"]
        /\ UNCHANGED <<logVars, shell, reader, ends, child, name>>
     \/ stage[p] = "exiting" /\ Gone(p)
  /\ UNCHANGED trouble
-----------------------------------------------------------------------------
(* What serves, and what goes wrong. *)

\* Mutant: a child writes where the daemon writes.
SpawnInherits ==
  /\ stage[Service] = "serving" /\ ~child
  /\ child' = TRUE /\ ends' = ends \cup {"child"}
  /\ UNCHANGED <<logVars, shell, reader, stage, name, trouble>>

\* Children::spawn(): all three of its streams are /dev/null.
Spawn ==
  /\ stage[Service] = "serving" /\ ~child
  /\ child' = TRUE
  /\ UNCHANGED <<logVars, shell, reader, ends, stage, name, trouble>>

ChildExits ==
  /\ child /\ child' = FALSE /\ ends' = ends \ {"child"}
  /\ UNCHANGED <<logVars, shell, reader, stage, name, trouble>>

Killed(p) == stage[p] # "none" /\ Trouble /\ Gone(p)

ReaderDies ==
  /\ Trouble /\ reader /\ reader' = FALSE
  /\ UNCHANGED <<logVars, shell, ends, child, stage, name>>

Shell == Launch \/ PipelineEnds
Main(p) == OpenFirst(p) \/ Bind(p) \/ Carry(p) \/ Logging(p) \/ (stage[p] # "serving" /\ Say(p))

Next ==
  \/ Shell \/ Spawn \/ ChildExits \/ ReaderDies
  \/ \E p \in Procs : StartByHand(p) \/ Main(p) \/ Say(p) \/ Killed(p)

Spec == Init /\ [][Next]_vars

\* The loop loops; a process that is not serving gets on with it, one that is
\* logs when it has something to say.
FairSpec == Spec /\ WF_vars(Shell) /\ \A p \in Procs : WF_vars(Main(p))
-----------------------------------------------------------------------------
(***************************************************************************)
(* Properties.                                                             *)
(***************************************************************************)
\* A device is never left without the daemon: whatever ended it, a kill, the
\* death of its log reader, a name that was taken for a while or a pipe that a
\* child might have held open, somebody serves again (service.sh:7-9, 27-32).
BackInService == []<>(\E p \in Procs : stage[p] = "serving")
=============================================================================
