---------------------------- MODULE DaemonProofs ----------------------------
(***************************************************************************)
(* Proofs about Daemon, for every set of connections, uplinks and specs.   *)
(*                                                                         *)
(* Everything follows from knowing what the holder of the Mutex is at:     *)
(* while nobody holds it no handler and no reassert is under way, so a     *)
(* step that takes it for itself is the atomic step of Session and a step  *)
(* Monitor allows its clients.                                             *)
(***************************************************************************)
EXTENDS Daemon, TLAPS

\* What the proofs need to know of the threads besides.
IInv ==
  /\ Daemon_TypeOK
  /\ pc \in [Conns -> S!PCs]
  /\ appClients \in Nat

-----------------------------------------------------------------------------
(* The lock. *)

\* While nobody holds the lock there is nothing half done.
LEMMA FreeLock == ASSUME IInv, lock = NoOne PROVE M!Free /\ job = M!NoJob
BY DaemonAssumption DEF DaemonAssumption, IInv, Daemon_TypeOK, M!Free

\* Steps of a thread that leave the lock, the monitor and the job alone.
LEMMA LockStays ==
  ASSUME IInv, NEW c \in Conns, NEW p \in S!PCs,
         pc' = [pc EXCEPT ![c] = p], c # lock,
         UNCHANGED <<lock, mpc, job>>
  PROVE  Daemon_TypeOK'
BY DEF IInv, Daemon_TypeOK, M!Reasserting, S!PCs

\* The monitor never touches a job, and only its own steps move it.
LEMMA MonitorFrame ==
  /\ M!Arrive \/ M!Depart => UNCHANGED <<mpc, job>>
  /\ \A d \in M!Defaults : M!Handover(d) => UNCHANGED <<mpc, job>>
  /\ M!ListIgnored \/ M!Receive \/ M!Wake \/ M!FlushMirror \/ M!DumpMain \/ M!AddDumped
       => UNCHANGED job
BY DEF M!Arrive, M!Depart, M!Handover, M!ListIgnored, M!Receive, M!Wake,
       M!FlushMirror, M!DumpMain, M!AddDumped, M!Write, M!network

\* A thread's own steps keep its place in serve() among the places there are.
LEMMA ThreadTypes ==
  ASSUME IInv, [Next]_vars
  PROVE  pc' \in [Conns -> S!PCs] /\ appClients' \in Nat
<1> USE DEF IInv, S!PCs, S!Goto, S!session, S!threads
<1>1. ASSUME NEW c \in Conns, Peer(c) PROVE pc' \in [Conns -> S!PCs] /\ appClients' \in Nat
  BY <1>1 DEF Peer, S!Connect, S!Send, S!HangUp
<1>2. ASSUME NEW c \in Conns, Unlocked(c) PROVE pc' \in [Conns -> S!PCs] /\ appClients' \in Nat
  BY <1>2 DEF Unlocked, S!Admit, S!Read, S!Write, S!Drop
<1>3. ASSUME NEW c \in Conns, Join(c) PROVE pc' \in [Conns -> S!PCs] /\ appClients' \in Nat
  BY <1>3 DEF Join, S!Join
<1>4. ASSUME NEW c \in Conns, Leave(c) PROVE pc' \in [Conns -> S!PCs] /\ appClients' \in Nat
  <2>1. pc' = [pc EXCEPT ![c] = "free"]
    BY <1>4 DEF Leave, S!Leave, S!Drop
  <2>2. appClients' \in Nat
    BY <1>4 DEF Leave, S!Leave
  <2> QED BY <2>1, <2>2
<1>5. ASSUME NEW c \in Conns, Other(c) \/ EndApply(c) \/ EndClear(c) \/ ClearNothing(c)
      PROVE  pc' \in [Conns -> S!PCs] /\ appClients' \in Nat
  BY <1>5 DEF Other, EndApply, EndClear, ClearNothing, S!ReadOnly, S!ApplyRouting, S!ClearRouting, S!Handling
<1>6. ASSUME NEW c \in Conns, NEW s \in Specs, NEW d \in M!Defaults, BeginApply(c, s, d)
      PROVE  pc' \in [Conns -> S!PCs] /\ appClients' \in Nat
  BY <1>6 DEF BeginApply, serving, record
<1>7. ASSUME Watch \/ Network PROVE pc' \in [Conns -> S!PCs] /\ appClients' \in Nat
  BY <1>7 DEF Watch, Network, serving, record
<1>8. ASSUME NEW c \in Conns, BeginClear(c) PROVE pc' \in [Conns -> S!PCs] /\ appClients' \in Nat
  BY <1>8 DEF BeginClear, serving
<1>9. CASE Crash
  BY <1>9 DEF Crash, S!Crash
<1>10. CASE Restart \/ UNCHANGED vars
  BY <1>10 DEF Restart, S!Restart, vars, serving, record
<1> QED BY <1>1, <1>2, <1>3, <1>4, <1>5, <1>6, <1>7, <1>8, <1>9, <1>10 DEF Next, Serve

\* The lock is held by whoever is in the middle of something.
LEMMA LockStep ==
  ASSUME IInv, [Next]_vars
  PROVE  Daemon_TypeOK'
<1> USE DEF IInv, S!Goto, S!session, S!threads
<1>1. ASSUME NEW c \in Conns, Peer(c) PROVE Daemon_TypeOK'
  <2>1. UNCHANGED <<lock, mpc, job>>
    BY <1>1 DEF Peer, watching
  <2>2. CASE \E u \in Uids : S!Connect(c, u)
    <3>1. pc[c] = "free" /\ pc' = [pc EXCEPT ![c] = "accepted"]
      BY <2>2 DEF S!Connect
    <3>2. c # lock
      BY <3>1 DEF Daemon_TypeOK
    <3> QED BY <2>1, <3>1, <3>2, LockStays DEF S!PCs
  <2>3. CASE S!Send(c) \/ S!HangUp(c)
    BY <2>1, <2>3 DEF S!Send, S!HangUp, Daemon_TypeOK, M!Reasserting
  <2> QED BY <1>1, <2>2, <2>3 DEF Peer
<1>2. ASSUME NEW c \in Conns, Unlocked(c) PROVE Daemon_TypeOK'
  <2>1. UNCHANGED <<lock, mpc, job>>
    BY <1>2 DEF Unlocked, watching
  <2>2. pc[c] # "handling" /\ \E p \in S!PCs : pc' = [pc EXCEPT ![c] = p]
    BY <1>2 DEF Unlocked, S!Admit, S!Read, S!Write, S!Drop, S!PCs
  <2>3. c # lock
    BY <2>2 DEF Daemon_TypeOK
  <2> QED BY <2>1, <2>2, <2>3, LockStays
<1>3. ASSUME NEW c \in Conns, Join(c) \/ Leave(c) \/ Other(c) \/ ClearNothing(c) PROVE Daemon_TypeOK'
  <2>1. UNCHANGED <<lock, mpc, job>>
    BY <1>3, MonitorFrame DEF Join, Leave, Other, ClearNothing, watching
  <2>2. \E p \in S!PCs : pc' = [pc EXCEPT ![c] = p]
    BY <1>3 DEF Join, Leave, Other, ClearNothing, S!Join, S!Leave, S!Drop, S!ReadOnly,
                S!ClearRouting, S!Handling, S!PCs
  <2>3. c # lock
    BY <1>3, DaemonAssumption DEF DaemonAssumption, Join, Leave, Other, ClearNothing
  <2> QED BY <2>1, <2>2, <2>3, LockStays
<1>4. ASSUME NEW c \in Conns, NEW s \in Specs, NEW d \in M!Defaults, BeginApply(c, s, d)
      PROVE  Daemon_TypeOK'
  <2>1. ~M!Reasserting /\ mpc' = mpc /\ pc' = pc /\ lock' = c /\ pc[c] = "handling"
    BY <1>4, FreeLock DEF BeginApply, M!BeginApply, serving, M!Free
  <2>2. job' # M!NoJob
    BY <1>4 DEF BeginApply, M!BeginApply, M!NoJob
  <2> QED BY <2>1, <2>2, DaemonAssumption DEF DaemonAssumption, Daemon_TypeOK, M!Reasserting
<1>5. ASSUME NEW c \in Conns, BeginClear(c) PROVE Daemon_TypeOK'
  <2>1. ~M!Reasserting /\ mpc' = mpc /\ pc' = pc /\ lock' = c /\ pc[c] = "handling"
    BY <1>5, FreeLock DEF BeginClear, M!BeginClear, serving, M!Free
  <2>2. job' # M!NoJob
    BY <1>5 DEF BeginClear, M!BeginClear, M!NoJob
  <2> QED BY <2>1, <2>2, DaemonAssumption DEF DaemonAssumption, Daemon_TypeOK, M!Reasserting
<1>6. ASSUME NEW c \in Conns, EndApply(c) \/ EndClear(c) PROVE Daemon_TypeOK'
  <2>1. lock = c /\ lock' = NoOne /\ job' = M!NoJob /\ mpc' = mpc
    BY <1>6 DEF EndApply, EndClear, M!EndApply, M!EndClear
  <2>2. ~M!Reasserting
    BY <2>1, DaemonAssumption DEF DaemonAssumption, Daemon_TypeOK
  <2> QED BY <2>1, <2>2, DaemonAssumption DEF DaemonAssumption, Daemon_TypeOK, M!Reasserting
<1>7. ASSUME Network PROVE Daemon_TypeOK'
  <2>1. UNCHANGED <<pc, lock, mpc, job>>
    BY <1>7, MonitorFrame DEF Network, serving
  <2> QED BY <2>1 DEF Daemon_TypeOK, M!Reasserting
<1>8. ASSUME Watch PROVE Daemon_TypeOK'
  <2>1. UNCHANGED <<pc, job>>
    BY <1>8, MonitorFrame DEF Watch, List, Receive, Wake, Rewrite, LastRoute, serving
  <2>2. CASE List \/ Receive
    <3>1. UNCHANGED lock /\ ~M!Reasserting /\ ~M!Reasserting'
      BY <2>2 DEF List, Receive, M!ListIgnored, M!Receive, M!Reasserting
    <3> QED BY <2>1, <3>1 DEF Daemon_TypeOK
  <2>3. CASE Wake
    <3>1. lock' \in {NoOne, TheMonitor} /\ (lock' = TheMonitor <=> M!Reasserting') /\ lock = NoOne
      BY <2>3, DaemonAssumption DEF DaemonAssumption, Wake, M!Wake, M!Reasserting
    <3> QED BY <2>1, <3>1, DaemonAssumption DEF DaemonAssumption, Daemon_TypeOK
  <2>4. CASE Rewrite
    <3>1. UNCHANGED lock /\ M!Reasserting /\ M!Reasserting'
      BY <2>4 DEF Rewrite, M!FlushMirror, M!DumpMain, M!Reasserting
    <3> QED BY <2>1, <3>1 DEF Daemon_TypeOK
  <2>5. CASE LastRoute
    <3>1. lock' = NoOne /\ M!Reasserting /\ ~M!Reasserting'
      BY <2>5 DEF LastRoute, M!AddDumped, M!Reasserting
    <3> QED BY <2>1, <3>1, DaemonAssumption DEF DaemonAssumption, Daemon_TypeOK
  <2> QED BY <1>8, <2>2, <2>3, <2>4, <2>5 DEF Watch
<1>9. CASE Crash
  BY <1>9, DaemonAssumption DEF DaemonAssumption, Crash, M!Crash, M!StartPCs, Daemon_TypeOK, M!Reasserting
<1>10. CASE Restart \/ UNCHANGED vars
  BY <1>10 DEF Restart, S!Restart, vars, serving, watching, Daemon_TypeOK, M!Reasserting
<1> QED BY <1>1, <1>2, <1>3, <1>4, <1>5, <1>6, <1>7, <1>8, <1>9, <1>10 DEF Next, Serve
-----------------------------------------------------------------------------
\* The inductive invariant holds in every reachable state.
THEOREM Invariance == Spec => []IInv
<1>1. Init => IInv
  BY DaemonAssumption
     DEF DaemonAssumption, Init, IInv, S!Init, S!NoConnections, S!EmptySession, S!PCs,
         M!Init, M!StartPCs, M!Reasserting, Daemon_TypeOK
<1>2. IInv /\ [Next]_vars => IInv'
  BY LockStep, ThreadTypes DEF IInv
<1> QED BY <1>1, <1>2, PTL DEF Spec

\* The Mutex is held exactly by who is inside a handler or a reassert, so the
\* two never overlap and nothing is left half done behind a lock that is free.
THEOREM HoldersOnly == Spec => []Daemon_TypeOK
<1>1. IInv => Daemon_TypeOK
  BY DEF IInv
<1> QED BY <1>1, Invariance, PTL
-----------------------------------------------------------------------------
(* The composition implements its parts. *)

\* A step of the composition is a step of Monitor, or nothing to it.
LEMMA MonitorStep ==
  ASSUME IInv, IInv', [Next]_vars
  PROVE  [M!Next]_(M!vars)
<1> USE DEF M!vars
<1>1. ASSUME NEW c \in Conns, Peer(c) \/ Unlocked(c) \/ Other(c) \/ ClearNothing(c) PROVE UNCHANGED M!vars
  BY <1>1 DEF Peer, Unlocked, Other, ClearNothing, watching, S!session, S!Connect, S!Send, S!HangUp,
              S!Admit, S!Read, S!Write, S!ReadOnly, S!ClearRouting
<1>2. ASSUME NEW c \in Conns, Join(c) PROVE [M!Next]_(M!vars)
  <2>1. CASE appClients = 0
    BY <1>2, <2>1, FreeLock DEF Join, M!Next, M!Clients
  <2>2. CASE appClients # 0
    <3>1. UNCHANGED watching /\ UNCHANGED spec /\ appClients' = appClients + 1
      BY <1>2, <2>2 DEF Join, S!Join
    <3>2. (appClients > 0)' = (appClients > 0)
      BY <2>2, <3>1 DEF IInv
    <3> QED BY <3>1, <3>2 DEF watching
  <2> QED BY <2>1, <2>2
<1>3. ASSUME NEW c \in Conns, Leave(c) PROVE [M!Next]_(M!vars)
  <2>1. CASE appClients > 0 /\ appClients' = 0
    BY <1>3, <2>1, FreeLock DEF Leave, M!Next, M!Clients
  <2>2. CASE ~(appClients > 0 /\ appClients' = 0)
    <3>1. UNCHANGED watching /\ UNCHANGED spec
      BY <1>3, <2>2 DEF Leave, S!Leave
    <3>2. appClients = 0 => appClients' = 0
      BY <1>3 DEF Leave, S!Leave
    <3>3. (appClients > 0)' = (appClients > 0)
      BY <2>2, <3>2 DEF IInv
    <3> QED BY <3>1, <3>3 DEF watching
  <2> QED BY <2>1, <2>2
<1>4. ASSUME NEW c \in Conns, NEW s \in Specs, NEW d \in M!Defaults, BeginApply(c, s, d) PROVE M!Next
  BY <1>4, FreeLock DEF BeginApply, M!Next, M!Clients
<1>5. ASSUME NEW c \in Conns, BeginClear(c) PROVE M!Next
  BY <1>5, FreeLock DEF BeginClear, M!Next, M!Clients
<1>6. ASSUME NEW c \in Conns, EndApply(c) \/ EndClear(c) PROVE M!Next
  BY <1>6 DEF EndApply, EndClear, M!Next
<1>7. ASSUME Watch PROVE M!Next
  BY <1>7, FreeLock DEF Watch, List, Receive, Wake, Rewrite, LastRoute, M!Next, M!Thread
<1>8. ASSUME Network PROVE M!Next
  BY <1>8 DEF Network, M!Next
<1>9. ASSUME Crash PROVE M!Next
  BY <1>9 DEF Crash, M!Next
<1>10. CASE Restart \/ UNCHANGED vars
  BY <1>10 DEF Restart, S!Restart, S!session, vars, record, watching
<1> QED BY <1>1, <1>2, <1>3, <1>4, <1>5, <1>6, <1>7, <1>8, <1>9, <1>10 DEF Next, Serve

\* What the threads do is what Monitor expects of its clients.
THEOREM MonitorRefined == Spec => ImplementsMonitor
<1>1. Init => M!Init
  BY DEF Init
<1>2. IInv /\ IInv' /\ [Next]_vars => [M!Next]_(M!vars)
  BY MonitorStep
<1> QED BY <1>1, <1>2, Invariance, PTL DEF Spec, ImplementsMonitor, M!Spec
\* To Session, a step inside a handler is none, and the last one is the command.
LEMMA SessionStep ==
  ASSUME IInv, IInv', [Next]_vars
  PROVE  [Served!Next]_(Served!vars)
<1> DEFINE seen == IF job.op = "clear" THEN job.table ELSE spec
<1> USE DEF Served!vars, Served!threads, Served!session, Served!Serve, Served!Peer, S!session, S!threads
<1>a. job = M!NoJob => seen = spec
  BY DEF M!NoJob
<1>b. lock = NoOne => job = M!NoJob
  BY FreeLock
<1>c. UNCHANGED <<spec, job>> => UNCHANGED seen
  OBVIOUS
<1>1. ASSUME NEW c \in Conns, Peer(c) PROVE Served!Next
  <2>1. UNCHANGED <<spec, job>>
    BY <1>1 DEF Peer, S!Connect, S!Send, S!HangUp, watching
  <2> QED BY <1>1, <1>c, <2>1 DEF Peer, S!Connect, S!Send, S!HangUp, Served!Connect, Served!Send,
             Served!HangUp, Served!Next
<1>2. ASSUME NEW c \in Conns, Unlocked(c) PROVE Served!Next
  <2>1. UNCHANGED <<spec, job>>
    BY <1>2 DEF Unlocked, S!Admit, S!Read, S!Write, watching
  <2>2. Served!Admit(c) \/ Served!Read(c) \/ Served!Write(c)
    BY <1>2, <1>c, <2>1 DEF Unlocked, S!Admit, S!Read, S!Write, S!Drop, S!Goto, Served!Admit, Served!Read,
       Served!Write, Served!Drop, Served!Goto
  <2> QED BY <2>2 DEF Served!Next
<1>3. ASSUME NEW c \in Conns, Join(c) \/ Leave(c) \/ Other(c) PROVE Served!Next
  <2>1. UNCHANGED <<spec, job>> /\ job = M!NoJob
    BY <1>3, <1>b, MonitorFrame DEF Join, Leave, Other, S!Join, S!Leave, S!ReadOnly, watching
  <2>2. CASE Join(c)
    BY <1>a, <1>c, <2>1, <2>2 DEF Join, S!Join, S!Goto, Served!Join, Served!Goto, Served!Next
  <2>3. CASE Leave(c)
    BY <1>a, <1>c, <2>1, <2>3 DEF Leave, S!Leave, S!Drop, S!Goto, Served!Leave, Served!Drop, Served!Goto, Served!Next
  <2>4. CASE Other(c)
    BY <1>c, <2>1, <2>4 DEF Other, S!ReadOnly, S!Handling, S!Goto, S!CliRequests, Served!ReadOnly,
       Served!Handling, Served!Goto, Served!CliRequests, Served!Dispatch, Served!Next
  <2> QED BY <1>3, <2>2, <2>3, <2>4
<1>4. ASSUME NEW c \in Conns, NEW s \in Specs, NEW d \in M!Defaults, BeginApply(c, s, d)
      PROVE  UNCHANGED Served!vars
  <2>1. job = M!NoJob /\ job'.op = "apply" /\ UNCHANGED <<serving, record>>
    BY <1>4, <1>b DEF BeginApply, M!BeginApply
  <2>2. UNCHANGED seen
    BY <1>a, <2>1 DEF record
  <2> QED BY <2>1, <2>2 DEF serving, record
<1>5. ASSUME NEW c \in Conns, BeginClear(c) PROVE UNCHANGED Served!vars
  <2>1. job = M!NoJob /\ job'.op = "clear" /\ job'.table = spec
    BY <1>5, <1>b DEF BeginClear, M!BeginClear
  <2>2. UNCHANGED seen
    BY <1>a, <2>1
  <2> QED BY <1>5, <2>2 DEF BeginClear, serving
<1>6. ASSUME NEW c \in Conns, EndApply(c) PROVE Served!Next
  <2>1. seen = spec /\ seen' = spec'
    BY <1>6, <1>a DEF EndApply, M!EndApply, M!NoJob
  <2> QED BY <1>6, <2>1 DEF EndApply, S!ApplyRouting, S!Handling, S!Goto, S!CliRequests, Served!ApplyRouting,
             Served!Handling, Served!Goto, Served!CliRequests, Served!Dispatch, Served!Next
<1>7. ASSUME NEW c \in Conns, EndClear(c) \/ ClearNothing(c) PROVE Served!Next
  <2>1. seen' = spec'
    BY <1>7, <1>a, <1>b DEF EndClear, ClearNothing, M!EndClear, M!NoJob, watching
  <2> QED BY <1>7, <2>1 DEF EndClear, ClearNothing, S!ClearRouting, S!Handling, S!Goto, S!CliRequests,
             Served!ClearRouting, Served!Handling, Served!Goto, Served!CliRequests, Served!Dispatch, Served!Next
<1>8. ASSUME Watch \/ Network PROVE UNCHANGED Served!vars
  <2>1. UNCHANGED <<serving, record, job>>
    BY <1>8, MonitorFrame DEF Watch, Network, List, Receive, Wake, Rewrite, LastRoute
  <2> QED BY <1>c, <2>1 DEF serving, record
<1>9. ASSUME Crash PROVE Served!Next
  <2>1. seen' = spec'
    BY <1>9 DEF Crash, M!Crash, M!NoJob
  <2> QED BY <1>9, <2>1 DEF Crash, S!Crash, Served!Crash, Served!Next
<1>10. ASSUME Restart PROVE Served!Next
  <2>1. UNCHANGED <<spec, job>>
    BY <1>10 DEF Restart, S!Restart, watching
  <2> QED BY <1>10, <1>c, <2>1 DEF Restart, S!Restart, Served!Restart, Served!Next
<1>11. CASE UNCHANGED vars
  BY <1>11, <1>c DEF vars, serving, record, watching
<1> QED BY <1>1, <1>2, <1>3, <1>4, <1>5, <1>6, <1>7, <1>8, <1>9, <1>10, <1>11 DEF Next, Serve

\* To its clients the daemon of many steps is the one of Session: commands take
\* effect at once, and everybody looks at the session before or after.
THEOREM SessionRefined == Spec => ImplementsSession
<1>1. Init => Served!Init
  <2> SUFFICES ASSUME Init PROVE Served!Init
    OBVIOUS
  <2>1. job.op # "clear"
    BY DEF Init, M!Init, M!NoJob
  <2> QED BY <2>1 DEF Init, S!Init, S!NoConnections, S!EmptySession, Served!Init, Served!NoConnections,
             Served!EmptySession
<1>2. IInv /\ IInv' /\ [Next]_vars => [Served!Next]_(Served!vars)
  BY SessionStep
<1> QED BY <1>1, <1>2, Invariance, PTL DEF Spec, ImplementsSession, Served!Spec
=============================================================================
