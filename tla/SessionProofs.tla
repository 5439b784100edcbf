--------------------------- MODULE SessionProofs ---------------------------
(***************************************************************************)
(* Proofs about Session, for every set of connections, uids and specs.     *)
(*                                                                         *)
(* The counter is right because a thread's is_app and its uid stay in step *)
(* (Authenticated), the flag is right because the counter is and because   *)
(* only a counted thread installs routing.  The conjunction is inductive.  *)
(***************************************************************************)
EXTENDS Session, FiniteSetTheorems, TLAPS

IInv ==
  /\ Session_TypeOK
  /\ Authenticated
  /\ ClientsCounted
  /\ OrphanedExactly

-----------------------------------------------------------------------------
(* What dispatch() is called with. *)

\* Whatever the command, the thread goes on to write its answer.
LEMMA DispatchFrame ==
  ASSUME NEW c \in Conns, Dispatch(c)
  PROVE  /\ pc[c] = "handling"
         /\ pc' = [pc EXCEPT ![c] = "writing"]
         /\ appClients' = appClients
         /\ UNCHANGED <<up, appUid, uid, isApp, open, inbox>>
BY DEF Dispatch, ApplyRouting, ClearRouting, ApplyForwarded, SessionState, SpawnChild,
       KillChild, ReadOnly, Handling, Goto, session

\* An apply is only ever handled by a counted thread: root sends none.
LEMMA OnlyTheAppApplies ==
  ASSUME Authenticated, NEW c \in Conns, ApplyRouting(c)
  PROVE  c \in Counted
<1>1. pc[c] = "handling" /\ uid[c] # Root
  BY DEF ApplyRouting, Handling, CliRequests
<1> QED BY <1>1 DEF Counted, Authenticated

-----------------------------------------------------------------------------
(* One lemma per conjunct of IInv. *)

\* A dropped connection leaves well-typed thread state behind.
LEMMA DropTypes ==
  ASSUME SessionAssumption, Session_TypeOK, NEW c \in Conns, Drop(c)
  PROVE  /\ pc' \in [Conns -> PCs] /\ uid' \in [Conns -> Uids]
         /\ isApp' \in [Conns -> BOOLEAN] /\ open' \in [Conns -> BOOLEAN]
         /\ inbox' \in [Conns -> Nat]
BY DEF Session_TypeOK, SessionAssumption, Drop, Goto, PCs

\* Every step keeps the types.
LEMMA TypeStep ==
  ASSUME SessionAssumption, IInv, [Next]_vars
  PROVE  Session_TypeOK'
<1> USE DEF IInv, Session_TypeOK, PCs
<1>1. ASSUME NEW c \in Conns, NEW u \in Uids, Connect(c, u) PROVE Session_TypeOK'
  BY <1>1 DEF Connect, session
<1>2. ASSUME NEW c \in Conns, Send(c) PROVE Session_TypeOK'
  BY <1>2 DEF Send, session
<1>3. ASSUME NEW c \in Conns, HangUp(c) PROVE Session_TypeOK'
  BY <1>3 DEF HangUp, session
<1>4. ASSUME NEW c \in Conns, Admit(c) PROVE Session_TypeOK'
  <2>1. CASE uid[c] = appUid
    BY <1>4, <2>1 DEF Admit, Goto, session
  <2>2. CASE uid[c] # appUid /\ uid[c] = Root
    BY <1>4, <2>2 DEF Admit, Goto, session
  <2>3. CASE uid[c] # appUid /\ uid[c] # Root
    BY <1>4, <2>3, DropTypes DEF Admit, session
  <2> QED BY <2>1, <2>2, <2>3
<1>5. ASSUME NEW c \in Conns, Join(c) PROVE Session_TypeOK'
  BY <1>5 DEF Join, Goto
<1>6. ASSUME NEW c \in Conns, Read(c) PROVE Session_TypeOK'
  BY <1>6 DEF Read, Goto, session
<1>7. ASSUME NEW c \in Conns, Write(c) PROVE Session_TypeOK'
  BY <1>7 DEF Write, Goto, session
<1>8. ASSUME NEW c \in Conns, Leave(c) PROVE Session_TypeOK'
  <2>1. appClients' \in Nat
    BY <1>8 DEF Leave
  <2>2. orphaned' \in BOOLEAN
    BY <1>8 DEF Leave
  <2> QED BY <1>8, <2>1, <2>2, DropTypes DEF Leave
<1>9. ASSUME NEW c \in Conns, Dispatch(c) PROVE Session_TypeOK'
  <2>2. /\ up' \in BOOLEAN /\ appUid' \in (Uids \ {Root}) \cup {NoUid}
        /\ pc' \in [Conns -> PCs] /\ uid' \in [Conns -> Uids]
        /\ isApp' \in [Conns -> BOOLEAN] /\ open' \in [Conns -> BOOLEAN]
        /\ inbox' \in [Conns -> Nat]
    BY <1>9, DispatchFrame
  <2>3. ASSUME ApplyRouting(c) PROVE Session_TypeOK'
    BY <2>2, <2>3 DEF ApplyRouting
  <2>4. ASSUME ClearRouting(c) PROVE Session_TypeOK'
    BY <2>2, <2>4 DEF ClearRouting
  <2>5. ASSUME ApplyForwarded(c) PROVE Session_TypeOK'
    BY <2>2, <2>5 DEF ApplyForwarded
  <2>6. ASSUME SessionState(c) PROVE Session_TypeOK'
    BY <2>2, <2>6 DEF SessionState
  <2>7. ASSUME SpawnChild(c) PROVE Session_TypeOK'
    BY <2>2, <2>7 DEF SpawnChild
  <2>8. ASSUME KillChild(c) PROVE Session_TypeOK'
    BY <2>2, <2>8 DEF KillChild
  <2>9. ASSUME ReadOnly(c) PROVE Session_TypeOK'
    BY <2>2, <2>9 DEF ReadOnly, session
  <2> QED BY <1>9, <2>3, <2>4, <2>5, <2>6, <2>7, <2>8, <2>9 DEF Dispatch
<1>10. ASSUME Crash PROVE Session_TypeOK'
  BY <1>10 DEF Crash, SessionAssumption
<1>11. ASSUME Restart PROVE Session_TypeOK'
  BY <1>11 DEF Restart, threads, session
<1>12. ASSUME NEW u \in (Uids \ {Root}) \cup {NoUid}, Reinstall(u) PROVE Session_TypeOK'
  BY <1>12 DEF Reinstall, threads, session
<1>13. CASE UNCHANGED vars
  BY <1>13 DEF vars, threads, session
<1> QED
  BY <1>1, <1>2, <1>3, <1>4, <1>5, <1>6, <1>7, <1>8, <1>9, <1>10, <1>11, <1>12, <1>13
  DEF Next, Peer, Serve

\* Who a thread serves is decided once, at the door.
LEMMA AuthenticatedStep ==
  ASSUME SessionAssumption, IInv, [Next]_vars
  PROVE  Authenticated'
<1> USE DEF IInv, Session_TypeOK, Authenticated, PCs
<1>1. ASSUME NEW c \in Conns, NEW u \in Uids, Connect(c, u) PROVE Authenticated'
  BY <1>1 DEF Connect
<1>2. ASSUME NEW c \in Conns, Send(c) PROVE Authenticated'
  BY <1>2 DEF Send
<1>3. ASSUME NEW c \in Conns, HangUp(c) PROVE Authenticated'
  BY <1>3 DEF HangUp
<1>4. ASSUME NEW c \in Conns, Admit(c) PROVE Authenticated'
  <2>1. CASE uid[c] = appUid
    BY <1>4, <2>1, SessionAssumption DEF Admit, Goto, SessionAssumption
  <2>2. CASE uid[c] # appUid /\ uid[c] = Root
    BY <1>4, <2>2 DEF Admit, Goto
  <2>3. CASE uid[c] # appUid /\ uid[c] # Root
    BY <1>4, <2>3 DEF Admit, Goto, Drop
  <2> QED BY <2>1, <2>2, <2>3
<1>5. ASSUME NEW c \in Conns, Join(c) PROVE Authenticated'
  BY <1>5 DEF Join, Goto
<1>6. ASSUME NEW c \in Conns, Read(c) PROVE Authenticated'
  BY <1>6 DEF Read, Goto
<1>7. ASSUME NEW c \in Conns, Write(c) PROVE Authenticated'
  BY <1>7 DEF Write, Goto
<1>8. ASSUME NEW c \in Conns, Leave(c) PROVE Authenticated'
  BY <1>8 DEF Leave, Drop, Goto
<1>9. ASSUME NEW c \in Conns, Dispatch(c) PROVE Authenticated'
  BY <1>9, DispatchFrame
<1>10. ASSUME Crash PROVE Authenticated'
  BY <1>10 DEF Crash
<1>11. ASSUME Restart PROVE Authenticated'
  BY <1>11 DEF Restart, threads
<1>12. ASSUME NEW u \in (Uids \ {Root}) \cup {NoUid}, Reinstall(u) PROVE Authenticated'
  BY <1>12 DEF Reinstall, threads
<1>13. CASE UNCHANGED vars
  BY <1>13 DEF vars, threads
<1> QED
  BY <1>1, <1>2, <1>3, <1>4, <1>5, <1>6, <1>7, <1>8, <1>9, <1>10, <1>11, <1>12, <1>13
  DEF Next, Peer, Serve

-----------------------------------------------------------------------------
(* The counter. *)

\* Whom a step adds to the counted threads, and whom it takes away.
LEMMA CountedMoves ==
  ASSUME IInv, [Next]_vars
  PROVE  \/ Counted' = Counted /\ appClients' = appClients
         \/ \E c \in Conns : /\ Join(c) /\ c \notin Counted
                             /\ Counted' = Counted \cup {c}
         \/ \E c \in Conns : /\ Leave(c) /\ isApp[c] /\ c \in Counted
                             /\ Counted' = Counted \ {c}
         \/ Crash /\ Counted' = {} /\ appClients' = 0
<1> USE DEF IInv, Session_TypeOK, PCs
<1>1. ASSUME NEW c \in Conns, Peer(c) PROVE Counted' = Counted /\ appClients' = appClients
  BY <1>1 DEF Peer, Connect, Send, HangUp, session, Counted, Authenticated
<1>2. ASSUME NEW c \in Conns, Admit(c) PROVE Counted' = Counted /\ appClients' = appClients
  BY <1>2 DEF Admit, Goto, Drop, session, Counted, Authenticated
<1>3. ASSUME NEW c \in Conns, Join(c) PROVE c \notin Counted /\ Counted' = Counted \cup {c}
  BY <1>3 DEF Join, Goto, Counted, Authenticated
<1>4. ASSUME NEW c \in Conns, Read(c) \/ Write(c)
      PROVE  Counted' = Counted /\ appClients' = appClients
  BY <1>4 DEF Read, Write, Goto, session, Counted
<1>5. ASSUME NEW c \in Conns, Dispatch(c) PROVE Counted' = Counted /\ appClients' = appClients
  BY <1>5, DispatchFrame DEF Counted
<1>6. ASSUME NEW c \in Conns, Leave(c), isApp[c]
      PROVE  c \in Counted /\ Counted' = Counted \ {c}
  BY <1>6 DEF Leave, Drop, Goto, Counted
<1>7. ASSUME NEW c \in Conns, Leave(c), ~isApp[c]
      PROVE  Counted' = Counted /\ appClients' = appClients
  BY <1>7 DEF Leave, Drop, Goto, Counted
<1>8. ASSUME Crash PROVE Counted' = {} /\ appClients' = 0
  BY <1>8 DEF Crash, Counted
<1>9. ASSUME Restart \/ UNCHANGED vars \/ \E u \in (Uids \ {Root}) \cup {NoUid} : Reinstall(u)
      PROVE  Counted' = Counted /\ appClients' = appClients
  BY <1>9 DEF Restart, Reinstall, vars, threads, session, Counted
<1> QED
  BY <1>1, <1>2, <1>3, <1>4, <1>5, <1>6, <1>7, <1>8, <1>9 DEF Next, Serve

\* Only finitely many threads are ever counted, and none exactly at zero.
LEMMA CountedFinite ==
  ASSUME SessionAssumption
  PROVE  /\ IsFiniteSet(Counted)
         /\ Cardinality(Counted) \in Nat
         /\ Cardinality(Counted) = 0 <=> Counted = {}
<1>1. Counted \in SUBSET Conns
  BY DEF Counted
<1>2. IsFiniteSet(Counted)
  BY <1>1, FS_Subset, SessionAssumption DEF SessionAssumption
<1> QED BY <1>2, FS_CardinalityType, FS_EmptySet

\* Every increment has its decrement.
LEMMA CountStep ==
  ASSUME SessionAssumption, IInv, [Next]_vars
  PROVE  ClientsCounted'
<1> USE CountedFinite DEF IInv, ClientsCounted
<1>1. CASE Counted' = Counted /\ appClients' = appClients
  BY <1>1
<1>2. ASSUME NEW c \in Conns, Join(c), c \notin Counted, Counted' = Counted \cup {c}
      PROVE  ClientsCounted'
  <2>1. Cardinality(Counted') = Cardinality(Counted) + 1
    BY <1>2, FS_AddElement
  <2> QED BY <1>2, <2>1 DEF Join
<1>3. ASSUME NEW c \in Conns, Leave(c), isApp[c], c \in Counted, Counted' = Counted \ {c}
      PROVE  ClientsCounted'
  <2>1. Cardinality(Counted') = Cardinality(Counted) - 1
    BY <1>3, FS_RemoveElement
  <2>2. appClients > 0
    BY <1>3
  <2> QED BY <1>3, <2>1, <2>2 DEF Leave
<1>4. CASE Crash /\ Counted' = {} /\ appClients' = 0
  BY <1>4, FS_EmptySet
<1> QED BY <1>1, <1>2, <1>3, <1>4, CountedMoves

-----------------------------------------------------------------------------
(* The flag. *)

\* Every step that changes who is counted or what is recorded also sets the
\* flag to match.
LEMMA FlagStep ==
  ASSUME SessionAssumption, IInv, [Next]_vars
  PROVE  OrphanedExactly'
<1> USE DEF IInv, Session_TypeOK, OrphanedExactly
<1>1. ASSUME NEW c \in Conns, Peer(c) PROVE OrphanedExactly'
  <2>1. UNCHANGED session
    BY <1>1 DEF Peer, Connect, Send, HangUp
  <2> QED BY <2>1 DEF session
<1>2. ASSUME NEW c \in Conns, Admit(c) \/ Read(c) \/ Write(c) PROVE OrphanedExactly'
  <2>1. UNCHANGED session
    BY <1>2 DEF Admit, Read, Write
  <2> QED BY <2>1 DEF session
<1>3. ASSUME NEW c \in Conns, Join(c) PROVE OrphanedExactly'
  <2>1. appClients' # 0
    BY <1>3 DEF Join
  <2>2. ~(orphaned /\ spec = NoSpec)
    OBVIOUS
  <2>3. ~orphaned'
    BY <1>3, <2>2 DEF Join
  <2> QED BY <2>1, <2>3
<1>4. ASSUME NEW c \in Conns, Leave(c) PROVE OrphanedExactly'
  <2>1. CASE isApp[c]
    <3>1. c \in Counted
      BY <1>4, <2>1 DEF Leave, Counted
    <3>2. appClients > 0
      BY <3>1, CountedFinite DEF ClientsCounted
    <3> QED BY <1>4, <2>1, <3>2 DEF Leave
  <2>2. CASE ~isApp[c]
    BY <1>4, <2>2 DEF Leave
  <2> QED BY <2>1, <2>2
<1>5. ASSUME NEW c \in Conns, ApplyRouting(c) PROVE OrphanedExactly'
  <2>1. c \in Counted
    BY <1>5, OnlyTheAppApplies
  <2>2. appClients # 0
    BY <2>1, CountedFinite DEF ClientsCounted
  <2> QED BY <1>5, <2>1, <2>2, SessionAssumption DEF ApplyRouting, SessionAssumption
<1>6. ASSUME NEW c \in Conns, ClearRouting(c) PROVE OrphanedExactly'
  BY <1>6 DEF ClearRouting
<1>7. ASSUME NEW c \in Conns, \/ ApplyForwarded(c) \/ SessionState(c) \/ SpawnChild(c)
                              \/ KillChild(c) \/ ReadOnly(c)
      PROVE  OrphanedExactly'
  BY <1>7 DEF ApplyForwarded, SessionState, SpawnChild, KillChild, ReadOnly, session
<1>8. ASSUME Crash PROVE OrphanedExactly'
  BY <1>8 DEF Crash
<1>9. ASSUME Restart \/ UNCHANGED vars \/ \E u \in (Uids \ {Root}) \cup {NoUid} : Reinstall(u)
      PROVE  OrphanedExactly'
  BY <1>9 DEF Restart, Reinstall, vars, session
<1> QED
  BY <1>1, <1>2, <1>3, <1>4, <1>5, <1>6, <1>7, <1>8, <1>9 DEF Next, Serve, Dispatch

-----------------------------------------------------------------------------
(* The theorems. *)

\* The conjunction of the above holds at the start.
LEMMA InitIInv ==
  ASSUME SessionAssumption, Init
  PROVE  IInv
<1> USE DEF Init, NoConnections, EmptySession, SessionAssumption
<1>1. Session_TypeOK
  BY DEF Session_TypeOK, PCs
<1>2. Authenticated
  BY DEF Authenticated
<1>3. Counted = {}
  BY DEF Counted
<1>4. ClientsCounted /\ OrphanedExactly
  BY <1>3, FS_EmptySet DEF ClientsCounted, OrphanedExactly
<1> QED BY <1>1, <1>2, <1>4 DEF IInv

\* Whatever connects, dies, is killed or reinstalled, and in whatever order,
\* the session's bookkeeping stays consistent.
THEOREM Invariance == Spec => []IInv
<1>1. Init => IInv
  BY InitIInv, SessionAssumption
<1>2. IInv /\ [Next]_vars => IInv'
  BY SessionAssumption, TypeStep, AuthenticatedStep, CountStep, FlagStep DEF IInv
<1> QED BY <1>1, <1>2, PTL DEF Spec

\* The types of the daemon's state.
THEOREM TypeCorrect == Spec => []Session_TypeOK
<1>1. IInv => Session_TypeOK
  BY DEF IInv
<1> QED BY <1>1, Invariance, PTL

\* app_clients counts the live app threads, for any number of connections.
THEOREM CounterCorrect == Spec => []ClientsCounted
<1>1. IInv => ClientsCounted
  BY DEF IInv
<1> QED BY <1>1, Invariance, PTL

\* A session is marked orphaned exactly when routing is recorded and no app
\* thread is counted.
THEOREM OrphanCorrect == Spec => []OrphanedExactly
<1>1. IInv => OrphanedExactly
  BY DEF IInv
<1> QED BY <1>1, Invariance, PTL

\* Only the app and root are ever served, and only the app is counted.
THEOREM DoorCorrect == Spec => []Authenticated
<1>1. IInv => Authenticated
  BY DEF IInv
<1> QED BY <1>1, Invariance, PTL
-----------------------------------------------------------------------------
(***************************************************************************)
(* The refinement.  Under IInv the status a client is shown is the         *)
(* contract's function of owners and spec, so it is enough to say what a   *)
(* step does to those two.                                                 *)
(***************************************************************************)

\* The daemon's counter and flag show what the contract's set would.
LEMMA StatusMatches ==
  ASSUME NEW o \in BOOLEAN, NEW s, NEW n \in Nat, NEW S,
         o <=> (s # NoSpec /\ n = 0), n = 0 <=> S = {}
  PROVE  [active |-> s # NoSpec, orphaned |-> o, connected |-> n > 0]
           = Contract!StatusOf(S, s)
<1>1. o = (s # NoSpec /\ S = {})
  OBVIOUS
<1>2. (n > 0) = (S # {})
  OBVIOUS
<1> QED BY <1>1, <1>2 DEF Contract!StatusOf

\* What a step does to the owners and to the recorded routing.
LEMMA OwnersAndSpecMove ==
  ASSUME SessionAssumption, IInv, [Next]_vars
  PROVE  \/ Counted' = Counted /\ spec' = spec
         \/ \E c \in Conns : Contract!Attach(c) \/ Contract!Detach(c)
         \/ \E s \in Specs : Contract!Install(s)
         \/ Contract!TearDown
         \/ Contract!Die
<1> USE DEF IInv
<1>1. CASE Counted' = Counted /\ appClients' = appClients
  <2>1. ASSUME NEW c \in Conns, ApplyRouting(c)
        PROVE  spec' = spec \/ \E s \in Specs : Contract!Install(s)
    <3>1. c \in Counted
      BY <2>1, OnlyTheAppApplies
    <3>2. spec' = spec \/ spec' \in Specs
      BY <2>1 DEF ApplyRouting
    <3>3. ASSUME NEW s \in Specs, spec' = s
          PROVE  Contract!Install(s)
      BY <1>1, <3>1, <3>3 DEF Contract!Install
    <3> QED BY <3>2, <3>3
  <2>2. ASSUME NEW c \in Conns, ClearRouting(c) PROVE Contract!TearDown
    BY <1>1, <2>2 DEF ClearRouting, Contract!TearDown
  <2>3. ASSUME NEW c \in Conns, \/ ApplyForwarded(c) \/ SessionState(c) \/ SpawnChild(c)
                                \/ KillChild(c) \/ ReadOnly(c)
        PROVE  spec' = spec
    BY <2>3 DEF ApplyForwarded, SessionState, SpawnChild, KillChild, ReadOnly, session
  <2>4. ASSUME NEW c \in Conns,
               Peer(c) \/ Admit(c) \/ Join(c) \/ Read(c) \/ Write(c) \/ Leave(c)
        PROVE  spec' = spec
    BY <2>4 DEF Peer, Connect, Send, HangUp, Admit, Join, Read, Write, Leave, session
  <2>5. ASSUME Crash PROVE Contract!TearDown
    BY <1>1, <2>5 DEF Crash, Contract!TearDown
  <2>6. ASSUME Restart \/ UNCHANGED vars \/ \E u \in (Uids \ {Root}) \cup {NoUid} : Reinstall(u)
        PROVE  spec' = spec
    BY <2>6 DEF Restart, Reinstall, vars, session
  <2> QED
    BY <1>1, <2>1, <2>2, <2>3, <2>4, <2>5, <2>6 DEF Next, Serve, Dispatch
<1>2. ASSUME NEW c \in Conns, Join(c), c \notin Counted, Counted' = Counted \cup {c}
      PROVE  Contract!Attach(c)
  BY <1>2 DEF Join, Contract!Attach
<1>3. ASSUME NEW c \in Conns, Leave(c), isApp[c], c \in Counted, Counted' = Counted \ {c}
      PROVE  Contract!Detach(c)
  BY <1>3 DEF Leave, Contract!Detach
<1>4. CASE Crash /\ Counted' = {} /\ appClients' = 0
  BY <1>4 DEF Crash, Contract!Die
<1> QED BY <1>1, <1>2, <1>3, <1>4, CountedMoves

\* Every step of the daemon is a step of the contract or a stutter.
LEMMA ContractStep ==
  ASSUME SessionAssumption, IInv, IInv', [Next]_vars
  PROVE  [Contract!Next]_(Contract!contractVars)
<1> DEFINE shown == [active |-> spec # NoSpec, orphaned |-> orphaned, connected |-> appClients > 0]
<1>1. shown = Contract!StatusOf(Counted, spec)
  <2>1. appClients = 0 <=> Counted = {}
    BY CountedFinite DEF IInv, ClientsCounted
  <2>2. orphaned \in BOOLEAN /\ appClients \in Nat /\ (orphaned <=> (spec # NoSpec /\ appClients = 0))
    BY DEF IInv, Session_TypeOK, OrphanedExactly
  <2> QED BY <2>1, <2>2, StatusMatches
<1>2. shown' = Contract!StatusOf(Counted', spec')
  <2>1. appClients' = 0 <=> Counted' = {}
    <3>1. IsFiniteSet(Counted')
      <4>1. Counted' \in SUBSET Conns
        BY DEF Counted
      <4> QED BY <4>1, FS_Subset, SessionAssumption DEF SessionAssumption
    <3> QED BY <3>1, FS_EmptySet DEF IInv, ClientsCounted
  <2>2. orphaned' \in BOOLEAN /\ appClients' \in Nat /\ (orphaned' <=> (spec' # NoSpec /\ appClients' = 0))
    BY DEF IInv, Session_TypeOK, OrphanedExactly
  <2> QED BY <2>1, <2>2, StatusMatches
<1>3. CASE Counted' = Counted /\ spec' = spec
  BY <1>1, <1>2, <1>3 DEF Contract!contractVars
<1>4. CASE \/ \E c \in Conns : Contract!Attach(c) \/ Contract!Detach(c)
           \/ \E s \in Specs : Contract!Install(s)
           \/ Contract!TearDown \/ Contract!Die
  BY <1>2, <1>4 DEF Contract!Next
<1> QED BY <1>3, <1>4, OwnersAndSpecMove

\* The daemon keeps its contract: a session belongs to its attached app
\* clients, outlives them, and ends only by a clear or with the daemon.
THEOREM Refinement == Spec => ImplementsContract
<1>1. Init => Contract!Init
  <2>1. ASSUME Init PROVE Counted = {}
    BY <2>1 DEF Init, NoConnections, Counted
  <2>2. ASSUME Init
        PROVE  [active |-> spec # NoSpec, orphaned |-> orphaned, connected |-> appClients > 0]
                 = Contract!StatusOf({}, NoSpec)
    <3>1. spec = NoSpec /\ orphaned = FALSE /\ appClients = 0
      BY <2>2 DEF Init, EmptySession
    <3> QED BY <3>1, StatusMatches
  <2> QED BY <2>1, <2>2 DEF Init, EmptySession, Contract!Init
<1>2. IInv /\ IInv' /\ [Next]_vars => [Contract!Next]_(Contract!contractVars)
  BY ContractStep, SessionAssumption
<1> QED BY <1>1, <1>2, Invariance, PTL DEF Spec, ImplementsContract, Contract!Spec
=============================================================================
