--------------------------- MODULE NetlinkProofs ---------------------------
(***************************************************************************)
(* Proofs about the two models of the netlink thread: Monitor, for every   *)
(* set of uplinks, tables and troubles, and behind it NetlinkWalk, the     *)
(* walk over what the thread receives.                                     *)
(*                                                                         *)
(* That the monitor never writes while an app is counted takes a look at   *)
(* every step of somebody else: what the monitor has seen under the lock   *)
(* stays true because those steps need the lock too.                       *)
(***************************************************************************)
EXTENDS Monitor, NetlinkWalk, TLAPS

Messages == Tables \cup {Main, Link}

IInv == Monitor_TypeOK /\ NeverFightsTheApp
-----------------------------------------------------------------------------
\* Whatever the kernel does with messages, the socket stays a bounded queue.
LEMMA NotifyTypes ==
  ASSUME Monitor_TypeOK, NEW msgs \in Seq(Messages), Notify(msgs)
  PROVE  /\ queue' \in Seq(Messages)
         /\ "overflow" \in Trouble => Len(queue') <= MaxQueue
         /\ enobufs' \in BOOLEAN
<1> USE MonitorAssumption DEF Monitor_TypeOK, Messages, MonitorAssumption
<1>1. queue \o msgs \in Seq(Messages) /\ Len(queue \o msgs) = Len(queue) + Len(msgs)
  OBVIOUS
<1>2. CASE mpc = "stopped"
  BY <1>2 DEF Notify
<1>3. CASE /\ mpc # "stopped" /\ ("overflow" \in Trouble => Len(queue) + Len(msgs) <= MaxQueue)
           /\ queue' = queue \o msgs /\ UNCHANGED enobufs
  BY <1>1, <1>3
<1>4. CASE /\ mpc # "stopped" /\ Len(queue) + Len(msgs) > MaxQueue /\ "overflow" \in Trouble
           /\ queue' = SubSeq(queue \o msgs, 1, MaxQueue) /\ enobufs' = TRUE
  <2> DEFINE all == queue \o msgs
  <2>1. all \in Seq(Messages) /\ MaxQueue \in 1..Len(all)
    BY <1>1, <1>4
  <2> HIDE DEF all
  <2>2. SubSeq(all, 1, MaxQueue) \in Seq(Messages) /\ Len(SubSeq(all, 1, MaxQueue)) = MaxQueue
    BY <2>1
  <2> QED BY <1>4, <2>2 DEF all
<1> QED BY <1>2, <1>3, <1>4 DEF Notify

\* The same for a write to an upstream table.
LEMMA NotifyWriteTypes ==
  ASSUME Monitor_TypeOK, NEW t \in Tables, NEW d, NotifyWrite(t, d)
  PROVE  /\ queue' \in Seq(Messages)
         /\ "overflow" \in Trouble => Len(queue') <= MaxQueue
         /\ enobufs' \in BOOLEAN
<1> DEFINE msgs == IF mirror[t] = d THEN <<>> ELSE <<t>>
<1>1. msgs \in Seq(Messages)
  <2>1. <<>> \in Seq(Messages) /\ <<t>> \in Seq(Messages)
    BY DEF Messages
  <2> QED BY <2>1
<1>2. Notify(msgs)
  BY DEF NotifyWrite
<1> HIDE DEF msgs
<1> QED BY <1>1, <1>2, NotifyTypes

\* A debt is owed or it is not.
LEMMA SettleType == ASSUME NEW due, Settle(due) PROVE owed' \in BOOLEAN
BY DEF Settle

\* Every step but the monitor's keeps the types.
LEMMA OutsideTypes ==
  ASSUME IInv, Clients \/ EndApply \/ EndClear \/ Crash \/ LinkEvent
           \/ \E d \in Defaults : Handover(d)
  PROVE  Monitor_TypeOK'
<1> USE DEF IInv, MonitorPCs, Defaults, Happens
<1>a. <<Main>> \in Seq(Messages) /\ <<Link>> \in Seq(Messages)
  BY DEF Messages
<1>1. ASSUME NEW d \in Defaults, Handover(d) PROVE Monitor_TypeOK'
  <2>1. owed' \in BOOLEAN
    BY <1>1 DEF Handover, Settle
  <2>2. Notify(<<Main>>)
    BY <1>1 DEF Handover
  <2>3. /\ Happens /\ main' = d
        /\ UNCHANGED <<mirror, table, app, job, mpc, ignored, dumped>>
    BY <1>1 DEF Handover
  <2>4. /\ queue' \in Seq(Messages) /\ enobufs' \in BOOLEAN
        /\ "overflow" \in Trouble => Len(queue') <= MaxQueue
    BY <1>a, <2>2, NotifyTypes
  <2>5. events' \in 0..MaxEvents
    BY <2>3, MonitorAssumption DEF MonitorAssumption, Monitor_TypeOK
  <2>6. /\ main' \in Defaults /\ mirror' \in [Tables -> Defaults] /\ dumped' \in Defaults
        /\ table' \in Tables \cup {NoTable} /\ job' \in Jobs
        /\ mpc' \in MonitorPCs /\ ignored' \subseteq Tables
    BY <2>3 DEF Monitor_TypeOK
  <2>7. app' \in BOOLEAN
    BY <2>3 DEF Monitor_TypeOK
  <2> QED BY <2>1, <2>4, <2>5, <2>6, <2>7 DEF Monitor_TypeOK, Messages
<1>2. ASSUME LinkEvent PROVE Monitor_TypeOK'
  <2>1. owed' \in BOOLEAN
    BY <1>2 DEF LinkEvent, Settle
  <2>2. Notify(<<Link>>)
    BY <1>2 DEF LinkEvent
  <2>3. Happens /\ UNCHANGED <<main, mirror, table, app, job, mpc, ignored, dumped>>
    BY <1>2 DEF LinkEvent
  <2>4. /\ queue' \in Seq(Messages) /\ enobufs' \in BOOLEAN
        /\ "overflow" \in Trouble => Len(queue') <= MaxQueue
    BY <1>a, <2>2, NotifyTypes
  <2>5. events' \in 0..MaxEvents
    BY <2>3, MonitorAssumption DEF MonitorAssumption, Monitor_TypeOK
  <2>6. /\ main' \in Defaults /\ mirror' \in [Tables -> Defaults] /\ dumped' \in Defaults
        /\ table' \in Tables \cup {NoTable} /\ job' \in Jobs
        /\ mpc' \in MonitorPCs /\ ignored' \subseteq Tables
    BY <2>3 DEF Monitor_TypeOK
  <2>7. app' \in BOOLEAN
    BY <2>3 DEF Monitor_TypeOK
  <2> QED BY <2>1, <2>4, <2>5, <2>6, <2>7 DEF Monitor_TypeOK, Messages
<1>3. ASSUME Arrive \/ Depart PROVE Monitor_TypeOK'
  <2>1. owed' \in BOOLEAN /\ app' \in BOOLEAN
    BY <1>3 DEF Arrive, Depart, Settle
  <2> QED BY MonitorAssumption, <1>3, <2>1 DEF Arrive, Depart, Monitor_TypeOK, MonitorAssumption
<1>4. ASSUME NEW t \in Tables, NEW d \in Defaults, BeginApply(t, d) PROVE Monitor_TypeOK'
  <2>1. job' \in Jobs
    BY <1>4 DEF BeginApply, Jobs
  <2> QED BY MonitorAssumption, <1>4, <2>1, NotifyWriteTypes, SettleType DEF BeginApply, Monitor_TypeOK, MonitorAssumption, Messages
<1>5. ASSUME EndApply PROVE Monitor_TypeOK'
  <2>1. job.table \in Tables /\ job.default \in Defaults
    BY <1>5 DEF EndApply, Monitor_TypeOK, Jobs, NoJob
  <2>2. job' \in Jobs
    BY <1>5 DEF EndApply, Jobs
  <2>3. CASE /\ table' = job.table /\ mirror' = [mirror EXCEPT ![job.table] = job.default]
             /\ NotifyWrite(job.table, job.default)
    BY MonitorAssumption, <1>5, <2>1, <2>2, <2>3, NotifyWriteTypes, SettleType DEF EndApply, Monitor_TypeOK, MonitorAssumption, Messages
  <2>4. CASE UNCHANGED <<table, mirror, queue, enobufs>>
    BY MonitorAssumption, <1>5, <2>2, <2>4, SettleType DEF EndApply, Monitor_TypeOK, MonitorAssumption
  <2> QED BY <1>5, <2>3, <2>4 DEF EndApply
<1>6. ASSUME BeginClear PROVE Monitor_TypeOK'
  <2>1. job' \in Jobs
    BY <1>6 DEF BeginClear, Jobs, Monitor_TypeOK
  <2> QED BY MonitorAssumption, <1>6, <2>1, SettleType DEF BeginClear, Monitor_TypeOK, MonitorAssumption
<1>7. ASSUME EndClear PROVE Monitor_TypeOK'
  <2>1. job.table \in Tables
    BY <1>7 DEF EndClear, Monitor_TypeOK, Jobs, NoJob
  <2>2. job' \in Jobs
    BY <1>7 DEF EndClear, Jobs
  <2> QED BY MonitorAssumption, <1>7, <2>1, <2>2, NotifyWriteTypes, SettleType DEF EndClear, Monitor_TypeOK, MonitorAssumption, Messages
<1>8. ASSUME Crash PROVE Monitor_TypeOK'
  <2>1. <<>> \in Seq(Messages) /\ Len(<<>>) = 0
    OBVIOUS
  <2>2. /\ queue' \in Seq(Messages) /\ ("overflow" \in Trouble => Len(queue') <= MaxQueue)
        /\ job' \in Jobs /\ mpc' \in MonitorPCs
    BY MonitorAssumption, <1>8, <2>1 DEF Crash, StartPCs, Jobs, MonitorAssumption
  <2>3. app' \in BOOLEAN /\ owed' \in BOOLEAN /\ enobufs' \in BOOLEAN
    BY <1>8 DEF Crash
  <2> QED BY MonitorAssumption, <1>8, <2>2, <2>3 DEF Crash, Monitor_TypeOK, MonitorAssumption, Messages
<1> QED BY <1>1, <1>2, <1>3, <1>4, <1>5, <1>6, <1>7, <1>8 DEF Clients

\* So do the monitor's.
LEMMA ThreadTypes ==
  ASSUME IInv, Thread
  PROVE  Monitor_TypeOK'
<1> USE DEF IInv, MonitorPCs, Defaults, network
<1>1. CASE ListIgnored
  BY <1>1 DEF ListIgnored, Monitor_TypeOK
<1>2. CASE Wake
  BY <1>2 DEF Wake, Monitor_TypeOK
<1>3. CASE Receive
  <2>1. CASE enobufs /\ mpc' = "stopped" /\ queue' = <<>> /\ enobufs' = FALSE
    <3>1. queue' \in Seq(Messages) /\ Len(queue') = 0
      BY <2>1
    <3>2. ignored' \subseteq Tables /\ UNCHANGED <<network, dumped>>
      BY <1>3 DEF Receive, Monitor_TypeOK
    <3>3. "overflow" \in Trouble => Len(queue') <= MaxQueue
      BY <3>1, MonitorAssumption DEF MonitorAssumption
    <3>4. /\ main' \in Defaults /\ mirror' \in [Tables -> Defaults] /\ dumped' \in Defaults
          /\ table' \in Tables \cup {NoTable} /\ job' \in Jobs /\ events' \in 0..MaxEvents
      BY <3>2 DEF Monitor_TypeOK
    <3>5. app' \in BOOLEAN /\ owed' \in BOOLEAN /\ enobufs' \in BOOLEAN
      BY <2>1, <3>2 DEF Monitor_TypeOK
    <3> QED BY <2>1, <3>1, <3>2, <3>3, <3>4, <3>5 DEF Monitor_TypeOK, Messages
  <2>2. CASE queue # <<>> /\ queue' = Tail(queue) /\ UNCHANGED enobufs
    <3>1. queue' \in Seq(Messages) /\ Len(queue') = Len(queue) - 1
      BY <2>2 DEF Monitor_TypeOK, Messages
    <3> QED BY MonitorAssumption, <1>3, <2>2, <3>1 DEF Receive, Monitor_TypeOK, MonitorAssumption, Messages
  <2> QED BY <1>3, <2>1, <2>2 DEF Receive
<1>4. CASE FlushMirror \/ AddDumped
  <2>1. table \in Tables
    BY <1>4 DEF FlushMirror, AddDumped, NeverFightsTheApp, Reasserting, Monitor_TypeOK
  <2> QED BY MonitorAssumption, <1>4, <2>1, NotifyWriteTypes, SettleType
          DEF FlushMirror, AddDumped, Write, Monitor_TypeOK, MonitorAssumption, Messages
<1>5. CASE DumpMain
  BY <1>5 DEF DumpMain, Monitor_TypeOK
<1> QED BY <1>1, <1>2, <1>3, <1>4, <1>5 DEF Thread

\* What the monitor saw when it took the lock is still so.
LEMMA NobodyInterferes ==
  ASSUME IInv, [Next]_vars
  PROVE  NeverFightsTheApp'
<1> USE DEF IInv, NeverFightsTheApp, Reasserting
<1>1. CASE Thread
  <2>1. CASE Free /\ (ListIgnored \/ Wake)
    BY <2>1 DEF Free, ListIgnored, Wake, network
  <2>2. CASE Receive
    BY <2>2 DEF Receive, network
  <2>3. CASE FlushMirror \/ DumpMain \/ AddDumped
    BY <2>3 DEF FlushMirror, DumpMain, AddDumped, Write, network
  <2> QED BY <1>1, <2>1, <2>2, <2>3 DEF Thread
<1>2. CASE Clients
  BY <1>2 DEF Clients, Free, Arrive, Depart, BeginApply, BeginClear
<1>3. CASE EndApply \/ EndClear
  <2>1. job # NoJob
    BY <1>3 DEF EndApply, EndClear, NoJob
  <2> QED BY <1>3, <2>1 DEF EndApply, EndClear
<1>4. CASE Crash
  BY <1>4 DEF Crash, StartPCs
<1>5. CASE LinkEvent \/ \E d \in Defaults : Handover(d)
  BY <1>5 DEF LinkEvent, Handover
<1>6. CASE UNCHANGED vars
  BY <1>6 DEF vars
<1> QED BY <1>1, <1>2, <1>3, <1>4, <1>5, <1>6 DEF Next
-----------------------------------------------------------------------------
\* The inductive invariant holds in every reachable state.
THEOREM Invariance == Spec => []IInv
<1>1. Init => IInv
  <2> SUFFICES ASSUME Init PROVE IInv
    OBVIOUS
  <2>1. queue \in Seq(Tables \cup {Main, Link}) /\ Len(queue) = 0
    BY DEF Init
  <2>2. mpc \in {"listing", "stopped"} /\ job \in Jobs /\ app \in BOOLEAN /\ owed \in BOOLEAN
    BY DEF Init, StartPCs, Jobs
  <2>3. NeverFightsTheApp
    BY <2>2 DEF NeverFightsTheApp, Reasserting
  <2>4. /\ main \in Defaults /\ mirror \in [Tables -> Defaults] /\ dumped \in Defaults
        /\ table \in Tables \cup {NoTable} /\ ignored \subseteq Tables /\ enobufs \in BOOLEAN
    BY DEF Init, Defaults
  <2>5. "overflow" \in Trouble => Len(queue) <= MaxQueue
    BY <2>1, MonitorAssumption DEF MonitorAssumption
  <2>6. events \in 0..MaxEvents
    BY MonitorAssumption DEF Init, MonitorAssumption
  <2>7. Monitor_TypeOK
    BY <2>1, <2>2, <2>4, <2>5, <2>6 DEF Monitor_TypeOK, MonitorPCs
  <2> QED BY <2>3, <2>7 DEF IInv
<1>2. IInv /\ [Next]_vars => IInv'
  <2>1. ASSUME IInv, Next PROVE Monitor_TypeOK'
    BY <2>1, OutsideTypes, ThreadTypes DEF Next
  <2>2. ASSUME IInv, UNCHANGED vars PROVE Monitor_TypeOK'
    BY <2>2 DEF IInv, vars, Monitor_TypeOK
  <2> QED BY <2>1, <2>2, NobodyInterferes DEF IInv
<1> QED BY <1>1, <1>2, PTL DEF Spec

\* Every variable keeps its type: what the monitor ignores are tables, what it
\* writes are defaults, and the receive buffer keeps its bound.
THEOREM TypeCorrect == Spec => []Monitor_TypeOK
<1>1. IInv => Monitor_TypeOK
  BY DEF IInv
<1> QED BY <1>1, Invariance, PTL

\* The daemon writes the upstream table only while no app is counted and no
\* handler runs: the two writers never race.
THEOREM NoRace == Spec => []NeverFightsTheApp
<1>1. IInv => NeverFightsTheApp
  BY DEF IInv
<1> QED BY <1>1, Invariance, PTL
-----------------------------------------------------------------------------
(***************************************************************************)
(* The walk over what the monitor and the dump have received (NetlinkWalk),*)
(* for every buffer, size and header length.                               *)
(*                                                                         *)
(* While the walk goes on it stands at a multiple of four, where it began  *)
(* or where an item ended, and every item it has handed on ended there or  *)
(* before (OnTrack).  That makes a new item disjoint from all the others   *)
(* and links it to one of them, and it is kept because a padded length is  *)
(* never shorter than the length.                                          *)
(***************************************************************************)
OnTrack ==
  /\ at % 4 = 0
  /\ over = "no" => /\ \A i \in items : End(i) <= at
                    /\ at = 0 \/ \E j \in items : End(j) = at

WalkInv == Walk_TypeOK /\ OnTrack /\ WithinTheBuffer /\ Chained /\ SeenToTheEnd

\* Rounding up to a multiple of four never shortens and adds less than four.
LEMMA PaddedBounds ==
  ASSUME NEW n \in Nat
  PROVE  Padded(n) \in Nat /\ Padded(n) % 4 = 0 /\ n <= Padded(n) /\ Padded(n) <= n + 3
BY SMTT(30) DEF Padded

\* Two multiples of four add up to one.
LEMMA SumOfPlaces ==
  ASSUME NEW a \in Nat, NEW b \in Nat, a % 4 = 0, b % 4 = 0
  PROVE  (a + b) % 4 = 0
BY SMTT(30)

\* What Visit adds to the items, and where that leaves the walk.
LEMMA VisitFacts ==
  ASSUME WalkAssumption, WalkInv, Visit
  PROVE  LET new == <<at, length[at]>>
         IN  /\ items' = items \cup {new}
             /\ length[at] \in Nat /\ Header <= length[at] /\ at + length[at] <= Size
             /\ at \in 0..Size
             /\ Padded(length[at]) \in Nat /\ length[at] <= Padded(length[at])
             /\ \A i \in items : i[1] \in Nat /\ i[2] \in Nat /\ i[1] + i[2] <= at
<1> USE DEF WalkInv, Walk_TypeOK
<1>1. /\ at \in 0..Size /\ length[at] \in Nat
      /\ Header <= length[at] /\ at + length[at] <= Size
  BY DEF Visit, ItemThere, Left, WalkAssumption
<1>2. Padded(length[at]) \in Nat /\ length[at] <= Padded(length[at])
  BY <1>1, PaddedBounds
<1>3. ASSUME NEW i \in items
      PROVE  i[1] \in Nat /\ i[2] \in Nat /\ i[1] + i[2] <= at
  <2>1. i[1] \in Nat /\ i[2] \in Nat
    BY DEF WalkAssumption
  <2>2. i[2] <= Padded(i[2]) /\ Padded(i[2]) \in Nat
    BY <2>1, PaddedBounds
  <2>3. i[1] + Padded(i[2]) <= at
    BY DEF OnTrack, Visit, End
  <2> QED BY <1>1, <2>1, <2>2, <2>3
<1> QED BY <1>1, <1>2, <1>3 DEF Visit

\* A new item keeps every conjunct.
LEMMA VisitStep ==
  ASSUME WalkAssumption, WalkInv, Visit
  PROVE  WalkInv'
<1> DEFINE new == <<at, length[at]>>
<1> USE DEF WalkInv
<1>1. /\ items' = items \cup {new}
      /\ length[at] \in Nat /\ Header <= length[at] /\ at + length[at] <= Size
      /\ at \in 0..Size
      /\ Padded(length[at]) \in Nat /\ length[at] <= Padded(length[at])
      /\ \A i \in items : i[1] \in Nat /\ i[2] \in Nat /\ i[1] + i[2] <= at
  BY VisitFacts
<1>2. new[1] = at /\ new[2] = length[at] /\ End(new) = at + Padded(length[at])
  BY DEF End
<1>3. \/ at' = at /\ over' # "no"
      \/ at' = End(new) /\ at' <= Size /\ over' = "no"
  <2>1. CASE wanted # at /\ Padded(length[at]) <= Left
    <3> DEFINE p == Padded(length[at])
    <3>1. at \in Nat /\ p \in Nat /\ Size \in Nat /\ Left = Size - at
      BY <1>1, WalkAssumption DEF Left
    <3> HIDE DEF p
    <3>2. ~(p > Left) /\ at + p <= Size
      BY <2>1, <3>1 DEF p
    <3>3. at' = at + p /\ over' = "no"
      BY <2>1, <3>2 DEF Visit, Fits, p
    <3> QED
      BY <1>2, <3>2, <3>3 DEF p
  <2>2. CASE ~(wanted # at /\ Padded(length[at]) <= Left)
    BY <2>2 DEF Visit, Fits
  <2> QED BY <2>1, <2>2
<1>4. Walk_TypeOK'
  <2>1. new \in (0..Size) \X Nat
    BY <1>1
  <2>2. at' \in 0..Size
    BY <1>1, <1>2, <1>3 DEF WalkAssumption
  <2>3. UNCHANGED <<length, wanted>> /\ over' \in {"no", "early", "end"}
    BY DEF Visit
  <2> QED BY <1>1, <2>1, <2>2, <2>3 DEF Walk_TypeOK
<1>5. OnTrack'
  <2>1. at' % 4 = 0
    <3>1. at % 4 = 0 /\ at \in Nat
      BY <1>1 DEF OnTrack
    <3>2. (at + Padded(length[at])) % 4 = 0
      BY <1>1, <3>1, PaddedBounds, SumOfPlaces
    <3> QED BY <1>2, <1>3, <3>1, <3>2
  <2>2. ASSUME over' = "no", NEW i \in items' PROVE End(i) <= at'
    <3>1. at' = End(new) /\ End(new) \in Nat /\ at \in Nat /\ at <= End(new)
      BY <1>1, <1>2, <1>3, <2>2
    <3>2. CASE i = new
      BY <3>1, <3>2
    <3>3. CASE i \in items
      <4>1. End(i) <= at
        BY <3>3 DEF OnTrack, Visit
      <4>2. i[1] \in Nat /\ i[2] \in Nat
        BY <1>1, <3>3
      <4>3. Padded(i[2]) \in Nat
        BY <4>2, PaddedBounds
      <4>4. End(i) \in Nat
        BY <4>2, <4>3 DEF End
      <4> QED BY <3>1, <4>1, <4>4
    <3> QED BY <1>1, <3>2, <3>3
  <2>3. over' = "no" => \E j \in items' : End(j) = at'
    BY <1>1, <1>3
  <2> QED BY <2>1, <2>2, <2>3 DEF OnTrack, End
<1>6. WithinTheBuffer'
  BY <1>1, <1>2, <1>4 DEF WithinTheBuffer, OnTrack, Walk_TypeOK
<1>7. Chained'
  <2>1. \A i \in items' : i[1] = 0 \/ \E j \in items' : End(j) = i[1]
    <3>1. at = 0 \/ \E j \in items : End(j) = at
      BY DEF OnTrack, Visit
    <3> QED BY <1>1, <1>2, <3>1 DEF Chained
  <2>2. \A i \in items : i[1] + i[2] <= new[1]
    BY <1>1, <1>2
  <2>3. \A i, j \in items' : i = j \/ i[1] + i[2] <= j[1] \/ j[1] + j[2] <= i[1]
    BY <1>1, <2>2 DEF Chained
  <2> QED BY <2>1, <2>3 DEF Chained, End
<1>8. SeenToTheEnd'
  <2>1. ASSUME over' = "end" PROVE at' = at /\ ~(Padded(length[at]) <= Left)
    BY <2>1 DEF Visit, Fits
  <2>2. ASSUME over' = "end" PROVE new \in items' /\ new[1] = at' /\ at' + new[2] + 3 >= Size
    <3>1. Padded(length[at]) <= length[at] + 3
      BY <1>1, PaddedBounds
    <3> QED BY <1>1, <1>2, <2>1, <2>2, <3>1 DEF Left, WalkAssumption
  <2> QED BY <2>2 DEF SeenToTheEnd
<1> QED BY <1>4, <1>5, <1>6, <1>7, <1>8

\* So does the end.
LEMMA StopStep ==
  ASSUME WalkAssumption, WalkInv, Stop
  PROVE  WalkInv'
<1> USE DEF WalkInv, Stop
<1>1. Walk_TypeOK' /\ OnTrack'
  BY DEF Walk_TypeOK, OnTrack
<1>2. WithinTheBuffer' /\ Chained'
  BY DEF WithinTheBuffer, Chained, End
<1>3. SeenToTheEnd'
  <2>1. at' = at /\ length' = length /\ ~ItemThere
    OBVIOUS
  <2>2. Size - at < Header \/ length[at] < Header \/ length[at] > Size - at
    <3>1. at \in 0..Size /\ length[at] \in Nat
      BY DEF Walk_TypeOK
    <3> QED BY <2>1, <3>1 DEF ItemThere, Left, WalkAssumption
  <2> QED BY <2>1, <2>2 DEF SeenToTheEnd
<1> QED BY <1>1, <1>2, <1>3

\* Whatever a buffer holds, the walk over it is on track.
THEOREM WalkInvariance == WalkSpec => []WalkInv
<1>1. WalkInit => WalkInv
  <2>1. 0 \in 0..Size /\ 0 % 4 = 0
    BY WalkAssumption DEF WalkAssumption
  <2> QED BY <2>1, WalkAssumption DEF WalkInit, WalkInv, Walk_TypeOK, OnTrack, WithinTheBuffer,
              Chained, SeenToTheEnd, WalkAssumption
<1>2. WalkInv /\ [WalkNext]_walk => WalkInv'
  <2>1. WalkInv /\ UNCHANGED walk => WalkInv'
    BY DEF walk, WalkInv, Walk_TypeOK, OnTrack, WithinTheBuffer, Chained, SeenToTheEnd, End
  <2> QED BY <2>1, VisitStep, StopStep, WalkAssumption DEF WalkNext
<1> QED BY <1>1, <1>2, PTL DEF WalkSpec

\* No slice outside the buffer, item or rest, for any buffer.
THEOREM StaysInside == WalkSpec => []WithinTheBuffer
<1>1. WalkInv => WithinTheBuffer
  BY DEF WalkInv
<1> QED BY <1>1, WalkInvariance, PTL

\* No item is skipped and none overlaps another.
THEOREM IsAChain == WalkSpec => []Chained
<1>1. WalkInv => Chained
  BY DEF WalkInv
<1> QED BY <1>1, WalkInvariance, PTL

\* A walk only gives up where there is no further item.
THEOREM SeesAll == WalkSpec => []SeenToTheEnd
<1>1. WalkInv => SeenToTheEnd
  BY DEF WalkInv
<1> QED BY <1>1, WalkInvariance, PTL

\* Every step brings the walk a header's length nearer to the end of the
\* buffer, or ends it.
THEOREM NeverTreadsWater == WalkSpec => Progresses
<1>1. WalkInv /\ [WalkNext]_walk => [over' # "no" \/ at' >= at + Header]_walk
  <2>1. ASSUME WalkInv, Visit PROVE over' # "no" \/ at' >= at + Header
    <3>1. length[at] \in Nat /\ Header <= length[at] /\ at \in 0..Size /\ Padded(length[at]) \in Nat
          /\ length[at] <= Padded(length[at])
      BY <2>1, VisitFacts, WalkAssumption
    <3>2. over' # "no" \/ at' = at + Padded(length[at])
      BY <2>1 DEF Visit
    <3> QED BY <3>1, <3>2, WalkAssumption DEF WalkAssumption
  <2>2. ASSUME Stop PROVE over' # "no"
    BY <2>2 DEF Stop
  <2> QED BY <2>1, <2>2 DEF WalkNext
<1> QED BY <1>1, WalkInvariance, PTL DEF WalkSpec, Progresses
=============================================================================
