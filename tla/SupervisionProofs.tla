-------------------------- MODULE SupervisionProofs --------------------------
(***************************************************************************)
(* The safety side of Supervision, for any set of processes, any number of *)
(* starts by hand and any trouble: BackInService needs fairness and is     *)
(* TLC's, but that nothing can keep service.sh waiting for a daemon that   *)
(* is gone, and that never more than one instance serves, are invariants.  *)
(***************************************************************************)
EXTENDS Supervision, FiniteSetTheorems, WellFoundedInduction, TLAPS

\* From bind() on a process is an instance that has the socket name.
Bound(p) == stage[p] \in {"announcing", "announced", "serving"}

\* However instances are started, refused, killed and started again, two of
\* them never accept clients at once: two sessions would be two owners of one
\* kernel's rules (main.rs:104-124).
OneServes == \A p, q \in Procs : Bound(p) /\ Bound(q) => p = q

\* Once its daemon is gone the pipeline of service.sh has nothing more to wait
\* for, whatever children the daemon has left behind (service.sh:27-32,
\* children.rs:92-95).
PipeIsFree == stage[Service] = "none" => ends = {}

\* The service never starts a second daemon beside its first.
StartsOne == shell = "sleeping" => stage[Service] = "none"

\* A name is somebody's exactly while that process is past its bind().
NameIsHeld == \A p \in Procs : Bound(p) <=> name = p

Stages == {"none", "opening", "binding", "announcing", "announced", "serving", "refused", "exiting"}

Typed == stage \in [Procs -> Stages] /\ ends \subseteq {"daemon"}

IInv == Typed /\ NameIsHeld /\ PipeIsFree /\ StartsOne

\* Nothing runs at first.
LEMMA InitIInv == Init => IInv
<1> SUFFICES ASSUME Init PROVE IInv
  OBVIOUS
<1>1. /\ stage = [p \in Procs |-> "none"] /\ name = Nobody /\ ends = {}
      /\ Service \in Procs /\ Nobody \notin Procs
  BY SupervisionAssumption DEF Init
<1> QED
  BY <1>1 DEF IInv, Typed, Stages, NameIsHeld, PipeIsFree, StartsOne, Bound

\* A process that ends gives up the name and the pipe.
LEMMA GoneStep ==
  ASSUME IInv, NEW p \in Procs, Gone(p) PROVE IInv'
<1> USE SupervisionAssumption
<1>1. /\ stage' = [stage EXCEPT ![p] = "none"]
      /\ name' = (IF name = p THEN Nobody ELSE name)
      /\ ends' = (IF p = Service THEN ends \ {"daemon"} ELSE ends)
      /\ shell' = shell
  BY DEF Gone
<1>2. Typed'
  BY <1>1 DEF IInv, Typed, Stages
<1>3. NameIsHeld'
  BY <1>1 DEF IInv, Typed, Stages, NameIsHeld, Bound
<1>4. PipeIsFree' /\ StartsOne'
  BY <1>1 DEF IInv, Typed, Stages, PipeIsFree, StartsOne
<1> QED
  BY <1>2, <1>3, <1>4 DEF IInv

\* A process that moves on in main() without touching the name keeps on its
\* side of bind().
LEMMA StageStep ==
  ASSUME IInv, NEW p \in Procs, NEW s \in Stages,
         stage' = [stage EXCEPT ![p] = s],
         stage[p] # "none", s # "none",
         Bound(p) <=> s \in {"announcing", "announced", "serving"},
         UNCHANGED <<shell, ends, name>>
  PROVE  IInv'
<1> USE SupervisionAssumption
<1>1. Typed' /\ NameIsHeld'
  BY DEF IInv, Typed, Stages, NameIsHeld, Bound
<1>2. PipeIsFree' /\ StartsOne'
  BY DEF IInv, Typed, Stages, PipeIsFree, StartsOne
<1> QED
  BY <1>1, <1>2 DEF IInv

\* One case per action.
LEMMA NextIInv == IInv /\ [Next]_vars => IInv'
<1> SUFFICES ASSUME IInv, [Next]_vars PROVE IInv'
  OBVIOUS
<1> USE SupervisionAssumption
<1>1. CASE Launch
  <2>1. /\ stage' = [stage EXCEPT ![Service] = "opening"] /\ stage[Service] = "none"
        /\ shell' = "waiting" /\ ends' = {"daemon"} /\ name' = name
    BY <1>1 DEF IInv, StartsOne, Launch
  <2> QED BY <2>1 DEF IInv, Typed, Stages, NameIsHeld, PipeIsFree, StartsOne, Bound
<1>2. CASE PipelineEnds
  BY <1>2 DEF IInv, Typed, Stages, NameIsHeld, PipeIsFree, StartsOne, Bound, PipelineEnds
<1>3. ASSUME NEW p \in Procs, StartByHand(p) PROVE IInv'
  BY <1>3 DEF IInv, Typed, Stages, NameIsHeld, PipeIsFree, StartsOne, Bound, StartByHand
<1>4. ASSUME NEW p \in Procs, OpenFirst(p) PROVE IInv'
  BY <1>4, StageStep DEF OpenFirst, Bound, Stages
<1>5. ASSUME NEW p \in Procs, Bind(p) PROVE IInv'
  <2>1. CASE name = Nobody
    BY <1>5, <2>1 DEF IInv, Typed, Stages, NameIsHeld, PipeIsFree, StartsOne, Bound, Bind
  <2>2. CASE name # Nobody
    BY <1>5, <2>2, StageStep DEF Bind, Bound, Stages
  <2> QED BY <2>1, <2>2
<1>6. ASSUME NEW p \in Procs, Say(p) PROVE IInv'
  <2>1. CASE Gone(p)
    BY <2>1, GoneStep
  <2>2. CASE ~Gone(p)
    <3>1. /\ stage[p] \in Speaking /\ stage' = [stage EXCEPT ![p] = Said(@)]
          /\ UNCHANGED <<shell, ends, name>>
      BY <1>6, <2>2 DEF Say
    <3>2. stage' = [stage EXCEPT ![p] = Said(stage[p])]
      BY <3>1 DEF IInv, Typed
    <3>3. /\ Said(stage[p]) \in Stages /\ Said(stage[p]) # "none" /\ stage[p] # "none"
          /\ Bound(p) <=> Said(stage[p]) \in {"announcing", "announced", "serving"}
      BY <3>1 DEF Speaking, Said, Bound, Stages
    <3> QED BY <3>1, <3>2, <3>3, StageStep
  <2> QED BY <2>1, <2>2
<1>7. ASSUME NEW p \in Procs, Logging(p) \/ UNCHANGED vars \/ ReaderDies PROVE IInv'
  <2>1. UNCHANGED <<shell, ends, stage, name>>
    BY <1>7 DEF Logging, ReaderDies, vars, processes
  <2> QED BY <2>1 DEF IInv, Typed, Stages, NameIsHeld, PipeIsFree, StartsOne, Bound
<1>8. ASSUME NEW p \in Procs, Carry(p) PROVE IInv'
  <2>1. CASE stage[p] = "announced" /\ stage' = [stage EXCEPT ![p] = "serving"]
               /\ UNCHANGED <<logVars, shell, reader, ends, child, name>>
    BY <2>1, StageStep DEF Bound, Stages
  <2>2. CASE Gone(p)
    BY <2>2, GoneStep
  <2> QED BY <1>8, <2>1, <2>2 DEF Carry
<1>9. CASE Spawn \/ ChildExits
  <2>1. UNCHANGED <<shell, stage, name>> /\ ends' \subseteq ends
    BY <1>9 DEF Spawn, ChildExits
  <2> QED BY <2>1 DEF IInv, Typed, Stages, NameIsHeld, PipeIsFree, StartsOne, Bound
<1>10. ASSUME NEW p \in Procs, Killed(p) PROVE IInv'
  BY <1>10, GoneStep DEF Killed
<1> QED
  BY <1>1, <1>2, <1>3, <1>4, <1>5, <1>6, <1>7, <1>8, <1>9, <1>10 DEF Next, Shell, Main

\* The inductive invariant of the supervision holds in every reachable state.
THEOREM Invariance == Spec => []IInv
<1> QED BY InitIInv, NextIInv, PTL DEF Spec

\* Two instances never serve at once, whoever starts them and in what order.
THEOREM OneInstance == Spec => []OneServes
<1>1. IInv => OneServes
  BY DEF IInv, NameIsHeld, OneServes
<1> QED BY <1>1, Invariance, PTL

\* A daemon that is gone leaves nothing that holds up its pipeline.
THEOREM NothingToWaitFor == Spec => []PipeIsFree
<1>1. IInv => PipeIsFree
  BY DEF IInv
<1> QED BY <1>1, Invariance, PTL
-----------------------------------------------------------------------------
(* The log. *)

Ats == {"idle", "rotating", "opening", "appending"}

Log_TypeOK ==
  /\ dir \in [Generations -> Files \cup {NoFile}] /\ content \in [Files -> Seq(Nat)]
  /\ handle \in [Procs -> Files \cup {NoFile}]
  /\ at \in [Procs -> Ats] /\ moved \in [Procs -> 0..Keep]
  /\ lines \in Nat /\ misses \in Nat /\ cuts \in Nat /\ disturbed \in BOOLEAN

\* Whoever is in write() has a file open; only in rotate() are steps done.
InWrite ==
  \A p \in Procs :
    /\ at[p] # "idle" => handle[p] # NoFile
    /\ at[p] # "rotating" => moved[p] = 0

\* The processes that may still add a line to f without asking for its size.
Writers(f) ==
  {p \in Procs : (at[p] = "appending" /\ handle[p] = f) \/ (at[p] = "opening" /\ f = dir[0])}

Crowd == Cardinality(Procs)

\* What is in a file and what is on its way to it.
LinesHeld ==
  \A f \in InUse \ {NoFile} :
    Len(content[f]) + Cardinality(Writers(f)) <= Full + Crowd - 1 + misses

\* No file has two names.
OneName == \A g, h \in Generations : dir[g] = dir[h] /\ dir[g] # NoFile => g = h

\* A process in main() that has not opened its log has none.
NotYetOpen == \A p \in Procs : stage[p] \in {"none", "opening"} => handle[p] = NoFile /\ at[p] = "idle"

LogIInv == Log_TypeOK /\ InWrite /\ LinesHeld /\ OneName

\* What one process does to the log in one step.
LogStep(p) ==
  \/ /\ at[p] = "idle" /\ handle[p] = NoFile
     /\ OpenLog(p) \/ OpenFails(p)
     /\ UNCHANGED <<at, moved, lines, misses, cuts>>
  \/ Begin(p) \/ Move(p, FALSE) \/ Move(p, TRUE) \/ Reopen(p, FALSE) \/ Reopen(p, TRUE)
  \/ WriteLine(p) \/ CloseLog(p)

\* What is known of the bounds.
LEMMA LogConstants ==
  /\ Keep \in Nat /\ Keep >= 1 /\ Full \in Nat /\ Full >= 1 /\ IsFiniteSet(Procs)
  /\ Crowd \in Nat /\ Crowd >= 1 /\ NoFile \notin Files
  /\ 0 \in Generations /\ Generations = 0..Keep
<1>1. Crowd \in Nat
  BY RotatingLogAssumption, FS_CardinalityType DEF Crowd
<1>2. Crowd # 0
  BY RotatingLogAssumption, SupervisionAssumption, FS_EmptySet DEF Crowd
<1> QED
  BY <1>1, <1>2, RotatingLogAssumption, SupervisionAssumption DEF Generations

\* There is always a file to create: the names besides the log's own and the
\* open files are not as many as there are files.
LEMMA NewFileIsNew ==
  ASSUME Log_TypeOK, dir[0] = NoFile
  PROVE  NewFile \in Files /\ NewFile \notin InUse
<1> DEFINE named == {dir[g] : g \in 1..Keep}
           opened == {handle[p] : p \in Procs}
<1>1. IsFiniteSet(named) /\ Cardinality(named) \in Nat /\ Cardinality(named) <= Keep
  <2> DEFINE F == [g \in 1..Keep |-> dir[g]]
  <2>1. F \in Surjection(1..Keep, named)
    BY DEF Surjection
  <2>2. IsFiniteSet(1..Keep) /\ Cardinality(1..Keep) = Keep
    BY LogConstants, FS_Interval
  <2>3. IsFiniteSet(named) /\ Cardinality(named) <= Cardinality(1..Keep)
    BY <2>1, <2>2, FS_Surjection
  <2> QED
    BY <2>2, <2>3, FS_CardinalityType
<1>2. IsFiniteSet(opened) /\ Cardinality(opened) \in Nat /\ Cardinality(opened) <= Crowd
  <2>1. handle \in Surjection(Procs, opened)
    BY DEF Surjection, Log_TypeOK
  <2>2. IsFiniteSet(opened) /\ Cardinality(opened) <= Cardinality(Procs)
    BY <2>1, LogConstants, FS_Surjection
  <2> QED
    BY <2>2, FS_CardinalityType DEF Crowd
<1>3. /\ IsFiniteSet(named \cup opened) /\ Cardinality(named \cup opened) \in Nat
      /\ Cardinality(named \cup opened) <= Keep + Crowd
  <2>1. /\ IsFiniteSet(named \cup opened) /\ IsFiniteSet(named \cap opened)
        /\ Cardinality(named \cup opened) =
             Cardinality(named) + Cardinality(opened) - Cardinality(named \cap opened)
    BY <1>1, <1>2, FS_Union, FS_Intersection
  <2>2. Cardinality(named \cup opened) \in Nat /\ Cardinality(named \cap opened) \in Nat
    BY <2>1, FS_CardinalityType
  <2> HIDE DEF named, opened
  <2> QED
    BY <2>1, <2>2, <1>1, <1>2, LogConstants
<1>4. IsFiniteSet(Files) /\ Cardinality(Files) = Keep + 1 + Crowd
  <2> DEFINE n == Keep + 1 + Crowd
  <2>1. n \in Nat /\ ~(1 > n) /\ n - 1 + 1 = n
    BY LogConstants
  <2>2. Files = 1..n
    BY DEF Files, Crowd
  <2> HIDE DEF n
  <2>3. IsFiniteSet(1..n) /\ Cardinality(1..n) = n
    BY <2>1, FS_Interval
  <2> QED
    BY <2>2, <2>3 DEF n
<1>5. ~(Files \subseteq named \cup opened)
  <2> SUFFICES ASSUME Files \subseteq named \cup opened PROVE FALSE
    OBVIOUS
  <2>1. Cardinality(Files) <= Cardinality(named \cup opened)
    BY <1>3, FS_Subset
  <2> HIDE DEF named, opened
  <2> QED
    BY <2>1, <1>3, <1>4, LogConstants
<1>6. PICK f \in Files : f \notin named \cup opened
  BY <1>5
<1>7. f \notin InUse
  <2>1. f # NoFile
    BY LogConstants
  <2>2. \A g \in Generations : g = 0 \/ g \in 1..Keep
    BY LogConstants
  <2> QED
    BY <1>6, <2>1, <2>2 DEF InUse
<1> QED
  BY <1>7 DEF NewFile

\* No more lines are on their way than there are processes.
LEMMA WritersCount ==
  ASSUME NEW f
  PROVE  /\ IsFiniteSet(Writers(f)) /\ Cardinality(Writers(f)) \in Nat
         /\ Cardinality(Writers(f)) <= Crowd
<1>1. Writers(f) \in SUBSET Procs
  BY DEF Writers
<1> QED
  BY <1>1, LogConstants, FS_Subset, FS_CardinalityType DEF Crowd

\* With no more lines in a file than before, and no more on their way to it
\* than before and what a failed rename allows, it stays below its bound.
LEMMA HeldStep ==
  ASSUME Log_TypeOK, LinesHeld, NEW f, f \in InUse \ {NoFile}, NEW c \in Seq(Nat), NEW m \in Nat,
         NEW p, NEW W,
         \/ W \subseteq Writers(f) /\ Len(c) <= Len(content[f]) /\ m >= misses
         \/ W \subseteq Writers(f) \cup {p} /\ Len(c) <= Len(content[f]) /\ m = misses + 1
         \/ /\ p \in Writers(f) /\ W \subseteq Writers(f) \ {p}
            /\ Len(c) <= Len(content[f]) + 1 /\ m = misses
  PROVE  Len(c) + Cardinality(W) <= Full + Crowd - 1 + m
<1> DEFINE n == Cardinality(Writers(f))
           w == Cardinality(W)
<1>1. /\ IsFiniteSet(Writers(f)) /\ n \in Nat
  BY WritersCount
<1>2. Len(content[f]) + n <= Full + Crowd - 1 + misses
  BY DEF LinesHeld
<1>3. /\ Len(c) \in Nat /\ Len(content[f]) \in Nat /\ misses \in Nat
  <2>1. f \in Files
    BY DEF InUse, Log_TypeOK
  <2> QED
    BY <2>1 DEF Log_TypeOK
<1>4. CASE W \subseteq Writers(f) /\ Len(c) <= Len(content[f]) /\ m >= misses
  <2>1. w \in Nat /\ w <= n
    BY <1>1, <1>4, FS_Subset, FS_CardinalityType
  <2> HIDE DEF n, w
  <2>2. Len(c) + w <= Full + Crowd - 1 + m
    BY <2>1, <1>1, <1>2, <1>3, <1>4, LogConstants
  <2> QED
    BY <2>2 DEF w
<1>5. CASE W \subseteq Writers(f) \cup {p} /\ Len(c) <= Len(content[f]) /\ m = misses + 1
  <2>1. IsFiniteSet(Writers(f) \cup {p}) /\ Cardinality(Writers(f) \cup {p}) <= n + 1
    <3>1. /\ IsFiniteSet(Writers(f) \cup {p})
          /\ Cardinality(Writers(f) \cup {p}) = n \/ Cardinality(Writers(f) \cup {p}) = n + 1
      BY <1>1, FS_AddElement
    <3> HIDE DEF n
    <3> QED
      BY <3>1, <1>1
  <2>2. /\ w \in Nat /\ w <= Cardinality(Writers(f) \cup {p})
        /\ Cardinality(Writers(f) \cup {p}) \in Nat
    BY <2>1, <1>5, FS_Subset, FS_CardinalityType
  <2> HIDE DEF n, w
  <2>3. w <= n + 1
    BY <2>1, <2>2, <1>1
  <2>4. Len(c) + w <= Full + Crowd - 1 + m
    BY <2>2, <2>3, <1>1, <1>2, <1>3, <1>5, LogConstants
  <2> QED
    BY <2>4 DEF w
<1>6. CASE /\ p \in Writers(f) /\ W \subseteq Writers(f) \ {p}
           /\ Len(c) <= Len(content[f]) + 1 /\ m = misses
  <2>1. IsFiniteSet(Writers(f) \ {p}) /\ Cardinality(Writers(f) \ {p}) = n - 1
    BY <1>1, <1>6, FS_RemoveElement
  <2>2. w \in Nat /\ w <= n - 1
    BY <2>1, <1>6, FS_Subset, FS_CardinalityType
  <2> HIDE DEF n, w
  <2>3. Len(c) + w <= Full + Crowd - 1 + m
    BY <2>2, <1>1, <1>2, <1>3, <1>6, LogConstants
  <2> QED
    BY <2>3 DEF w
<1> QED
  BY <1>4, <1>5, <1>6

\* A file with fewer than Full lines has room for one of everybody's.
LEMMA RoomForAll ==
  ASSUME NEW c \in Seq(Nat), Len(c) < Full, NEW m \in Nat, NEW W \in SUBSET Procs
  PROVE  Len(c) + Cardinality(W) <= Full + Crowd - 1 + m
<1>1. Cardinality(W) \in Nat /\ Cardinality(W) <= Crowd
  BY LogConstants, FS_Subset, FS_CardinalityType DEF Crowd
<1>2. Len(c) \in Nat
  OBVIOUS
<1> QED
  BY <1>1, <1>2, LogConstants

\* What opening a file comes to, and where the new one is from.
LEMMA OpenedFile ==
  ASSUME LogIInv, NEW p \in Procs, OpenLog(p)
  PROVE  LET f == IF dir[0] # NoFile THEN dir[0] ELSE NewFile
         IN  /\ f \in Files /\ (dir[0] = NoFile => f \notin InUse)
             /\ dir' = [dir EXCEPT ![0] = f] /\ dir'[0] = f
             /\ \A g \in Generations : g # 0 => dir'[g] = dir[g]
             /\ dir[0] # NoFile => dir' = dir
             /\ content' \in [Files -> Seq(Nat)]
             /\ \A h \in Files : h # f \/ dir[0] # NoFile => content'[h] = content[h]
             /\ dir[0] = NoFile => content'[f] = <<>>
             /\ handle' = [handle EXCEPT ![p] = f]
<1> DEFINE f == IF dir[0] # NoFile THEN dir[0] ELSE NewFile
<1>1. Log_TypeOK /\ 0 \in Generations
  BY LogConstants DEF LogIInv
<1>2. f \in Files /\ (dir[0] = NoFile => f \notin InUse)
  <2>1. CASE dir[0] = NoFile
    BY <2>1, <1>1, NewFileIsNew
  <2>2. CASE dir[0] # NoFile
    BY <2>2, <1>1 DEF Log_TypeOK
  <2> QED
    BY <2>1, <2>2
<1>3. /\ dir' = [dir EXCEPT ![0] = f] /\ handle' = [handle EXCEPT ![p] = f]
      /\ content' = [content EXCEPT ![f] = IF dir[0] = NoFile THEN <<>> ELSE @]
  BY DEF OpenLog
<1> HIDE DEF f
<1>4. /\ content' \in [Files -> Seq(Nat)]
      /\ \A h \in Files : h # f \/ dir[0] # NoFile => content'[h] = content[h]
      /\ dir[0] = NoFile => content'[f] = <<>>
  <2>1. <<>> \in Seq(Nat)
    OBVIOUS
  <2> QED
    BY <2>1, <1>1, <1>2, <1>3 DEF Log_TypeOK
<1>5. /\ dir'[0] = f /\ \A g \in Generations : g # 0 => dir'[g] = dir[g]
  BY <1>1, <1>3 DEF Log_TypeOK
<1>6. dir[0] # NoFile => dir' = dir
  BY <1>1, <1>3 DEF f, Log_TypeOK
<1> QED
  BY <1>2, <1>3, <1>4, <1>5, <1>6 DEF f

\* After a file is opened, by a process that starts or one that has rotated.
LEMMA OpenedHeld ==
  ASSUME LogIInv, NEW p \in Procs, OpenLog(p), misses' = misses,
         \/ at[p] = "idle" /\ at' = at
         \/ at[p] = "opening" /\ at' = [at EXCEPT ![p] = "appending"]
  PROVE  LinesHeld' /\ OneName'
<1> DEFINE f == IF dir[0] # NoFile THEN dir[0] ELSE NewFile
<1>1. Log_TypeOK /\ InWrite /\ LinesHeld /\ OneName /\ 0 \in Generations
  BY LogConstants DEF LogIInv
<1>2. /\ f \in Files /\ (dir[0] = NoFile => f \notin InUse)
      /\ dir' = [dir EXCEPT ![0] = f] /\ dir'[0] = f
      /\ \A g \in Generations : g # 0 => dir'[g] = dir[g]
      /\ dir[0] # NoFile => dir' = dir
      /\ content' \in [Files -> Seq(Nat)]
      /\ \A h \in Files : h # f \/ dir[0] # NoFile => content'[h] = content[h]
      /\ dir[0] = NoFile => content'[f] = <<>>
      /\ handle' = [handle EXCEPT ![p] = f]
  BY OpenedFile
<1>3. NoFile \notin Files
  BY LogConstants
<1>4. f = dir[0] \/ dir[0] = NoFile
  OBVIOUS
<1> HIDE DEF f
<1>5. /\ handle'[p] = f /\ \A q \in Procs \ {p} : handle'[q] = handle[q] /\ at'[q] = at[q]
      /\ at'[p] = at[p] \/ (at[p] = "opening" /\ at'[p] = "appending")
      /\ at[p] \in {"idle", "opening"} /\ at'[p] \in {"idle", "appending"}
      /\ at[p] = "idle" => at'[p] = "idle"
  BY <1>1, <1>2 DEF Log_TypeOK
<1>6. \A h \in InUse' \ {NoFile} : h \in Files /\ (h = f \/ h \in InUse)
  BY <1>1, <1>2, <1>5 DEF InUse, Log_TypeOK
<1>7. ASSUME NEW h \in InUse' \ {NoFile}
      PROVE  Len(content'[h]) + Cardinality(Writers(h)') <= Full + Crowd - 1 + misses
  <2>1. CASE h = f /\ dir[0] = NoFile
    <3> DEFINE c == content'[h]
               W == Writers(h)'
    <3>1. c = <<>> /\ W \in SUBSET Procs /\ misses \in Nat
      BY <2>1, <1>1, <1>2 DEF Writers, Log_TypeOK
    <3> HIDE DEF c, W
    <3>2. c \in Seq(Nat) /\ Len(c) < Full
      BY <3>1, LogConstants
    <3>3. Len(c) + Cardinality(W) <= Full + Crowd - 1 + misses
      BY <3>1, <3>2, RoomForAll
    <3> QED
      BY <3>3 DEF c, W
  <2>2. CASE ~(h = f /\ dir[0] = NoFile)
    <3>1. h \in Files /\ h \in InUse \ {NoFile}
      <4>1. h = f => h = dir[0]
        BY <2>2, <1>4
      <4>2. dir[0] \in InUse
        BY <1>1 DEF InUse
      <4> QED
        BY <4>1, <4>2, <1>6
    <3>2. content'[h] = content[h] /\ content[h] \in Seq(Nat) /\ Len(content'[h]) <= Len(content[h])
      <4>1. content'[h] = content[h] /\ content[h] \in Seq(Nat)
        BY <3>1, <2>2, <1>1, <1>2 DEF Log_TypeOK
      <4>2. Len(content[h]) \in Nat
        BY <4>1
      <4> QED
        BY <4>1, <4>2
    <3>3. Writers(h)' \subseteq Writers(h)
      <4> SUFFICES ASSUME NEW q \in Procs, q \in Writers(h)' PROVE q \in Writers(h)
        BY DEF Writers
      <4>1. h = f => f = dir[0]
        BY <2>2, <1>4
      <4>2. CASE q = p
        BY <4>1, <4>2, <1>5, <1>2 DEF Writers
      <4>3. CASE q # p
        BY <4>1, <4>3, <1>5, <1>2 DEF Writers
      <4> QED
        BY <4>2, <4>3
    <3>4. misses \in Nat /\ misses >= misses
      BY <1>1 DEF Log_TypeOK
    <3> QED
      BY <3>1, <3>2, <3>3, <3>4, <1>1, HeldStep
  <2> QED
    BY <2>1, <2>2
<1>8. LinesHeld'
  BY <1>7 DEF LinesHeld
<1>9. OneName'
  <2>1. CASE dir[0] # NoFile
    BY <2>1, <1>1, <1>2 DEF OneName
  <2>2. CASE dir[0] = NoFile
    <3>1. \A g \in Generations : dir[g] # f
      BY <2>2, <1>2 DEF InUse
    <3> QED
      BY <3>1, <1>1, <1>2 DEF OneName
  <2> QED
    BY <2>1, <2>2
<1> QED
  BY <1>8, <1>9

\* A process that has the log no more adds nothing to it.
LEMMA ClosedLog ==
  ASSUME LogIInv, NEW p \in Procs,
         UNCHANGED <<dir, content, lines, misses, disturbed>>,
         handle' = [handle EXCEPT ![p] = NoFile],
         at' = [at EXCEPT ![p] = "idle"], moved' = [moved EXCEPT ![p] = 0],
         cuts' \in {cuts, cuts + 1}
  PROVE  LogIInv'
<1>1. Log_TypeOK /\ InWrite /\ LinesHeld /\ OneName
  BY DEF LogIInv
<1>2. Log_TypeOK'
  <2>1. /\ handle' \in [Procs -> Files \cup {NoFile}] /\ cuts' \in Nat
    BY <1>1 DEF Log_TypeOK
  <2>2. at' \in [Procs -> Ats]
    BY <1>1 DEF Log_TypeOK, Ats
  <2>3. moved' \in [Procs -> 0..Keep]
    BY <1>1, LogConstants DEF Log_TypeOK
  <2> QED
    BY <2>1, <2>2, <2>3, <1>1 DEF Log_TypeOK
<1>3. InWrite'
  BY <1>1 DEF Log_TypeOK, InWrite
<1>4. OneName'
  BY <1>1 DEF OneName
<1>5. ASSUME NEW f \in InUse' \ {NoFile}
      PROVE  Len(content'[f]) + Cardinality(Writers(f)') <= Full + Crowd - 1 + misses
  <2>1. f \in InUse \ {NoFile}
    BY <1>1 DEF InUse, Log_TypeOK
  <2>2. content[f] \in Seq(Nat) /\ misses \in Nat /\ content'[f] = content[f]
    BY <2>1, <1>1 DEF InUse, Log_TypeOK
  <2>3. Writers(f)' \subseteq Writers(f)
    BY <1>1, <2>1 DEF Writers, Log_TypeOK
  <2>4. Len(content[f]) <= Len(content[f]) /\ misses >= misses
    BY <2>2
  <2> QED
    BY <2>1, <2>2, <2>3, <2>4, <1>1, HeldStep
<1>6. LinesHeld'
  BY <1>5 DEF LinesHeld
<1> QED
  BY <1>2, <1>3, <1>4, <1>6 DEF LogIInv

\* The log is opened: found under its name, or created.
LEMMA OpenedLog ==
  ASSUME LogIInv, NEW p \in Procs, OpenLog(p), UNCHANGED <<moved, lines, misses, cuts>>,
         \/ at[p] = "idle" /\ at' = at
         \/ at[p] = "opening" /\ at' = [at EXCEPT ![p] = "appending"]
  PROVE  LogIInv'
<1> DEFINE f == IF dir[0] # NoFile THEN dir[0] ELSE NewFile
<1>1. Log_TypeOK /\ InWrite
  BY DEF LogIInv
<1>2. /\ f \in Files /\ dir' = [dir EXCEPT ![0] = f]
      /\ content' \in [Files -> Seq(Nat)] /\ handle' = [handle EXCEPT ![p] = f]
  BY OpenedFile
<1>3. LinesHeld' /\ OneName'
  BY OpenedHeld
<1> HIDE DEF f
<1>4. Log_TypeOK'
  <2>1. at' \in [Procs -> Ats]
    BY <1>1 DEF Log_TypeOK, Ats
  <2>2. dir' \in [Generations -> Files \cup {NoFile}] /\ handle' \in [Procs -> Files \cup {NoFile}]
    BY <1>1, <1>2 DEF Log_TypeOK
  <2>3. disturbed' \in BOOLEAN
    BY <1>1 DEF OpenLog, Log_TypeOK
  <2> QED
    BY <2>1, <2>2, <2>3, <1>1, <1>2 DEF Log_TypeOK
<1>5. InWrite'
  BY <1>1, <1>2, LogConstants DEF Log_TypeOK, InWrite
<1> QED
  BY <1>3, <1>4, <1>5 DEF LogIInv

\* A line is due, and the file's size is looked at.
LEMMA BegunLog == ASSUME LogIInv, NEW p \in Procs, Begin(p) PROVE LogIInv'
<1> DEFINE full == Len(content[handle[p]]) >= Full
<1>1. Log_TypeOK /\ InWrite /\ LinesHeld /\ OneName
  BY DEF LogIInv
<1>2. /\ at[p] = "idle" /\ handle[p] # NoFile
      /\ at' = [at EXCEPT ![p] = IF full THEN "rotating" ELSE "appending"]
      /\ UNCHANGED <<dir, content, handle, moved, lines, misses, cuts, disturbed>>
  BY DEF Begin
<1> HIDE DEF full
<1>3. /\ at'[p] = (IF full THEN "rotating" ELSE "appending")
      /\ \A q \in Procs \ {p} : at'[q] = at[q]
  BY <1>1, <1>2 DEF Log_TypeOK
<1>4. Log_TypeOK'
  <2>1. at' \in [Procs -> Ats]
    BY <1>1, <1>2 DEF Log_TypeOK, Ats
  <2> QED
    BY <2>1, <1>1, <1>2 DEF Log_TypeOK
<1>5. InWrite' /\ OneName'
  BY <1>1, <1>2, <1>3 DEF InWrite, OneName
<1>6. ASSUME NEW f \in InUse' \ {NoFile}
      PROVE  Len(content'[f]) + Cardinality(Writers(f)') <= Full + Crowd - 1 + misses
  <2>1. f \in InUse \ {NoFile} /\ f \in Files
    BY <1>1, <1>2 DEF InUse, Log_TypeOK
  <2>2. content[f] \in Seq(Nat) /\ misses \in Nat /\ content'[f] = content[f] /\ Len(content[f]) \in Nat
    BY <2>1, <1>1, <1>2 DEF Log_TypeOK
  <2>3. CASE ~full /\ f = handle[p]
    <3>1. Len(content[f]) < Full /\ Writers(f)' \in SUBSET Procs
      BY <2>2, <2>3, LogConstants DEF full, Writers
    <3> QED
      BY <3>1, <2>2, RoomForAll
  <2>4. CASE full \/ f # handle[p]
    <3>1. Writers(f)' \subseteq Writers(f)
      BY <2>4, <1>2, <1>3 DEF Writers
    <3>2. Len(content[f]) <= Len(content[f]) /\ misses >= misses
      BY <2>2
    <3> QED
      BY <2>1, <2>2, <3>1, <3>2, <1>1, HeldStep
  <2> QED
    BY <2>3, <2>4
<1>7. LinesHeld'
  BY <1>2, <1>6 DEF LinesHeld
<1> QED
  BY <1>4, <1>5, <1>7 DEF LogIInv

\* A line is written, or lost.
LEMMA WrittenLog == ASSUME LogIInv, NEW p \in Procs, WriteLine(p) PROVE LogIInv'
<1> DEFINE o == handle[p]
<1>1. Log_TypeOK /\ InWrite /\ LinesHeld /\ OneName
  BY DEF LogIInv
<1>2. /\ at[p] = "appending" /\ at' = [at EXCEPT ![p] = "idle"]
      /\ UNCHANGED <<dir, handle, moved, misses, cuts, disturbed>>
      /\ \/ lines' = lines + 1 /\ content' = [content EXCEPT ![o] = Append(@, lines + 1)]
         \/ UNCHANGED <<lines, content>>
  BY DEF WriteLine
<1>3. o \in Files
  BY <1>1, <1>2 DEF InWrite, Log_TypeOK
<1>4. /\ at'[p] = "idle" /\ \A q \in Procs \ {p} : at'[q] = at[q]
  BY <1>1, <1>2 DEF Log_TypeOK
<1>5. /\ content' \in [Files -> Seq(Nat)] /\ lines' \in Nat
      /\ \A f \in Files \ {o} : content'[f] = content[f]
      /\ Len(content[o]) \in Nat /\ Len(content'[o]) <= Len(content[o]) + 1
  <2>1. content[o] \in Seq(Nat) /\ lines \in Nat /\ lines + 1 \in Nat
    BY <1>1, <1>3 DEF Log_TypeOK
  <2>2. /\ Append(content[o], lines + 1) \in Seq(Nat)
        /\ Len(Append(content[o], lines + 1)) = Len(content[o]) + 1 /\ Len(content[o]) \in Nat
    BY <2>1
  <2>3. CASE lines' = lines + 1 /\ content' = [content EXCEPT ![o] = Append(@, lines + 1)]
    <3> DEFINE c == Append(content[o], lines + 1)
    <3>1. c \in Seq(Nat) /\ Len(c) = Len(content[o]) + 1
      BY <2>2
    <3>2. content' = [content EXCEPT ![o] = c]
      BY <2>3
    <3> HIDE DEF c, o
    <3>3. /\ content' \in [Files -> Seq(Nat)] /\ content'[o] = c
          /\ \A f \in Files \ {o} : content'[f] = content[f]
      BY <3>1, <3>2, <1>1, <1>3 DEF Log_TypeOK
    <3>4. Len(content'[o]) <= Len(content[o]) + 1
      BY <3>1, <3>3, <2>2
    <3> QED
      BY <3>3, <3>4, <2>1, <2>2, <2>3
  <2>4. CASE UNCHANGED <<lines, content>>
    <3>1. Len(content[o]) <= Len(content[o]) + 1
      BY <2>2
    <3> QED
      BY <3>1, <2>2, <2>4, <1>1 DEF Log_TypeOK
  <2> QED
    BY <2>3, <2>4, <1>2
<1>6. Log_TypeOK'
  <2>1. at' \in [Procs -> Ats]
    BY <1>1, <1>2 DEF Log_TypeOK, Ats
  <2> QED
    BY <2>1, <1>1, <1>2, <1>5 DEF Log_TypeOK
<1>7. InWrite' /\ OneName'
  BY <1>1, <1>2, <1>4 DEF InWrite, OneName
<1>8. ASSUME NEW f \in InUse' \ {NoFile}
      PROVE  Len(content'[f]) + Cardinality(Writers(f)') <= Full + Crowd - 1 + misses
  <2>1. f \in InUse \ {NoFile} /\ f \in Files
    BY <1>1, <1>2 DEF InUse, Log_TypeOK
  <2>2. content'[f] \in Seq(Nat) /\ content[f] \in Seq(Nat) /\ misses \in Nat /\ Len(content[f]) \in Nat
    BY <2>1, <1>1, <1>5 DEF Log_TypeOK
  <2>3. CASE f = o
    <3>1. p \in Writers(f) /\ Writers(f)' \subseteq Writers(f) \ {p}
      BY <2>3, <1>2, <1>4 DEF Writers
    <3> QED
      BY <2>1, <2>2, <2>3, <3>1, <1>1, <1>5, HeldStep
  <2>4. CASE f # o
    <3>1. Writers(f)' \subseteq Writers(f) /\ content'[f] = content[f]
      BY <2>1, <2>4, <1>2, <1>4, <1>5 DEF Writers
    <3>2. Len(content[f]) <= Len(content[f]) /\ misses >= misses
      BY <2>2
    <3> QED
      BY <2>1, <2>2, <3>1, <3>2, <1>1, HeldStep
  <2> QED
    BY <2>3, <2>4
<1>9. LinesHeld'
  BY <1>2, <1>8 DEF LinesHeld
<1> QED
  BY <1>6, <1>7, <1>9 DEF LogIInv

\* One step of rotate(), as what it does to the names.
LEMMA MovedName ==
  ASSUME Log_TypeOK, NEW p \in Procs, NEW fails \in BOOLEAN, Move(p, fails)
  PROVE  LET g == Keep - moved[p]
         IN  /\ g \in 0..Keep /\ at[p] = "rotating"
             /\ fails \/ dir[g] = NoFile => dir' = dir
             /\ ~(fails \/ dir[g] = NoFile) =>
                  dir' = [h \in Generations |->
                           IF h = g THEN NoFile ELSE IF h = g + 1 THEN dir[g] ELSE dir[h]]
             /\ misses' = IF fails /\ g = 0 THEN misses + 1 ELSE misses
             /\ disturbed' = (disturbed \/ fails)
             /\ g # 0 => moved' = [moved EXCEPT ![p] = moved[p] + 1] /\ at' = at
             /\ g = 0 => moved' = [moved EXCEPT ![p] = 0] /\ at' = [at EXCEPT ![p] = "opening"]
             /\ UNCHANGED <<content, handle, lines, cuts>>
<1> DEFINE g == Keep - moved[p]
<1>1. moved[p] \in 0..Keep /\ moved[p] \in Nat /\ Keep \in Nat /\ Keep >= 1
  BY LogConstants DEF Log_TypeOK
<1>2. g \in 0..Keep /\ (g = 0 <=> moved[p] = Keep)
  BY <1>1
<1>3. /\ g = 0 => (moved[p] + 1) % (Keep + 1) = 0
      /\ g # 0 => (moved[p] + 1) % (Keep + 1) = moved[p] + 1
  BY <1>1
<1>4. /\ moved' = [moved EXCEPT ![p] = (moved[p] + 1) % (Keep + 1)]
      /\ at' = [at EXCEPT ![p] = IF moved[p] = Keep THEN "opening" ELSE at[p]]
      /\ misses' = IF fails /\ g = 0 THEN misses + 1 ELSE misses
      /\ at[p] = "rotating" /\ disturbed' = (disturbed \/ fails)
      /\ UNCHANGED <<content, handle, lines, cuts>>
  BY DEF Move, Turn, Log_TypeOK
<1>5. /\ fails \/ dir[g] = NoFile => dir' = dir
      /\ ~(fails \/ dir[g] = NoFile) =>
           dir' = [h \in Generations |->
                    IF h = g THEN NoFile ELSE IF h = g + 1 THEN dir[g] ELSE dir[h]]
  BY DEF Move, Turn
<1> HIDE DEF g
<1>7. /\ g # 0 => moved' = [moved EXCEPT ![p] = moved[p] + 1] /\ at' = at
      /\ g = 0 => moved' = [moved EXCEPT ![p] = 0] /\ at' = [at EXCEPT ![p] = "opening"]
  <2>1. [at EXCEPT ![p] = at[p]] = at
    BY DEF Log_TypeOK
  <2> QED
    BY <2>1, <1>2, <1>3, <1>4
<1> QED
  BY <1>2, <1>4, <1>5, <1>7 DEF g

\* A generation is moved up, or the move fails.
LEMMA MovedLog ==
  ASSUME LogIInv, NEW p \in Procs, NEW fails \in BOOLEAN, Move(p, fails) PROVE LogIInv'
<1> DEFINE g == Keep - moved[p]
<1>1. Log_TypeOK /\ InWrite /\ LinesHeld /\ OneName /\ Keep \in Nat /\ Keep >= 1 /\ Generations = 0..Keep
  BY LogConstants DEF LogIInv
<1>2. /\ g \in 0..Keep /\ at[p] = "rotating"
      /\ fails \/ dir[g] = NoFile => dir' = dir
      /\ ~(fails \/ dir[g] = NoFile) =>
           dir' = [h \in Generations |->
                    IF h = g THEN NoFile ELSE IF h = g + 1 THEN dir[g] ELSE dir[h]]
      /\ misses' = IF fails /\ g = 0 THEN misses + 1 ELSE misses
      /\ disturbed' = (disturbed \/ fails)
      /\ g # 0 => moved' = [moved EXCEPT ![p] = moved[p] + 1] /\ at' = at
      /\ g = 0 => moved' = [moved EXCEPT ![p] = 0] /\ at' = [at EXCEPT ![p] = "opening"]
      /\ UNCHANGED <<content, handle, lines, cuts>>
  BY <1>1, MovedName
<1>3. g # 0 => moved[p] + 1 \in 0..Keep
  BY <1>1 DEF Log_TypeOK
<1> HIDE DEF g
<1>4. /\ dir' \in [Generations -> Files \cup {NoFile}]
      /\ \A h \in Generations : dir'[h] # NoFile => \E i \in Generations : dir'[h] = dir[i]
      /\ g # 0 => dir'[0] = dir[0]
  BY <1>1, <1>2 DEF Log_TypeOK
<1>5. Log_TypeOK'
  <2>1. at' \in [Procs -> Ats]
    BY <1>1, <1>2 DEF Log_TypeOK, Ats
  <2>2. moved' \in [Procs -> 0..Keep]
    BY <1>1, <1>2, <1>3 DEF Log_TypeOK
  <2>3. misses' \in Nat /\ disturbed' \in BOOLEAN
    BY <1>1, <1>2 DEF Log_TypeOK
  <2> QED
    BY <2>1, <2>2, <2>3, <1>1, <1>2, <1>4 DEF Log_TypeOK
<1>6. InWrite'
  <2>1. CASE g = 0
    BY <2>1, <1>1, <1>2 DEF InWrite, Log_TypeOK
  <2>2. CASE g # 0
    BY <2>2, <1>1, <1>2 DEF InWrite, Log_TypeOK
  <2> QED
    BY <2>1, <2>2
<1>7. OneName'
  <2>1. CASE fails \/ dir[g] = NoFile
    BY <2>1, <1>1, <1>2 DEF OneName
  <2>2. CASE ~(fails \/ dir[g] = NoFile)
    <3> SUFFICES ASSUME NEW h \in Generations, NEW i \in Generations, dir'[h] = dir'[i], dir'[h] # NoFile
                 PROVE  h = i
      BY DEF OneName
    <3>1. h # g /\ i # g
      BY <2>2, <1>2
    <3>2. /\ dir'[h] = IF h = g + 1 THEN dir[g] ELSE dir[h]
          /\ dir'[i] = IF i = g + 1 THEN dir[g] ELSE dir[i]
      BY <2>2, <3>1, <1>2
    <3>3. g \in Generations
      BY <1>1, <1>2
    <3> QED
      BY <3>1, <3>2, <3>3, <1>1 DEF OneName
  <2> QED
    BY <2>1, <2>2
<1>8. ASSUME NEW f \in InUse' \ {NoFile}
      PROVE  Len(content'[f]) + Cardinality(Writers(f)') <= Full + Crowd - 1 + misses'
  <2>1. f \in InUse \ {NoFile}
    BY <1>1, <1>2, <1>4 DEF InUse, Log_TypeOK
  <2>2. /\ content[f] \in Seq(Nat) /\ content'[f] = content[f]
        /\ misses \in Nat /\ misses' \in Nat /\ Len(content[f]) \in Nat
    BY <2>1, <1>1, <1>2, <1>5 DEF InUse, Log_TypeOK
  <2>3. Len(content[f]) <= Len(content[f]) /\ misses >= misses
    BY <2>2
  <2>4. CASE fails /\ g = 0
    <3>1. Writers(f)' \subseteq Writers(f) \cup {p}
      BY <2>4, <1>1, <1>2 DEF Writers, Log_TypeOK
    <3>2. misses' = misses + 1
      BY <2>4, <1>2
    <3> QED
      BY <3>1, <3>2, <2>1, <2>2, <2>3, <1>1, HeldStep
  <2>5. CASE ~(fails /\ g = 0)
    <3>1. Writers(f)' \subseteq Writers(f)
      <4>1. CASE g # 0
        BY <4>1, <1>2, <1>4 DEF Writers
      <4>2. CASE g = 0
        <5>1. dir'[0] = NoFile
          BY <4>2, <2>5, <1>1, <1>2
        <5>2. \A q \in Procs : at'[q] = "appending" => at[q] = "appending"
          BY <4>2, <1>1, <1>2 DEF Log_TypeOK
        <5> QED
          BY <5>1, <5>2, <2>1, <1>2 DEF Writers
      <4> QED
        BY <4>1, <4>2
    <3>2. misses' = misses
      BY <2>5, <1>2
    <3> QED
      BY <3>1, <3>2, <2>1, <2>2, <2>3, <1>1, HeldStep
  <2> QED
    BY <2>4, <2>5
<1>9. LinesHeld'
  BY <1>8 DEF LinesHeld
<1> QED
  BY <1>5, <1>6, <1>7, <1>9 DEF LogIInv

\* Every step of a writer.
LEMMA LogStepIInv == ASSUME LogIInv, NEW p \in Procs, LogStep(p) PROVE LogIInv'
<1>1. Log_TypeOK /\ InWrite
  BY DEF LogIInv
<1>2. CASE /\ at[p] = "idle" /\ handle[p] = NoFile
           /\ OpenLog(p) \/ OpenFails(p)
           /\ UNCHANGED <<at, moved, lines, misses, cuts>>
  <2>1. CASE OpenLog(p)
    BY <1>2, <2>1, OpenedLog
  <2>2. CASE OpenFails(p)
    <3>1. at' = [at EXCEPT ![p] = "idle"] /\ moved' = [moved EXCEPT ![p] = 0]
      BY <1>1, <1>2 DEF Log_TypeOK, InWrite
    <3> QED
      BY <3>1, <1>2, <2>2, ClosedLog DEF OpenFails
  <2> QED
    BY <1>2, <2>1, <2>2
<1>3. ASSUME NEW fails \in BOOLEAN, Move(p, fails) PROVE LogIInv'
  BY <1>3, MovedLog
<1>4. CASE Reopen(p, FALSE)
  BY <1>4, OpenedLog DEF Reopen
<1>5. CASE Reopen(p, TRUE)
  <2>1. at[p] = "opening"
    BY <1>5 DEF Reopen
  <2>2. moved' = [moved EXCEPT ![p] = 0]
    BY <1>1, <1>5, <2>1 DEF Log_TypeOK, InWrite, Reopen
  <2> QED
    BY <1>5, <2>2, ClosedLog DEF Reopen, OpenFails
<1>6. CASE CloseLog(p)
  BY <1>6, ClosedLog DEF CloseLog
<1> QED
  BY <1>2, <1>3, <1>4, <1>5, <1>6, BegunLog, WrittenLog DEF LogStep

\* What the processes of the supervision do to the log is one of its steps, or
\* nothing.
LEMMA LogSteps ==
  ASSUME NotYetOpen, StartsOne, [Next]_vars
  PROVE  (\E p \in Procs : LogStep(p)) \/ UNCHANGED logVars
<1>1. ASSUME NEW p \in Procs, Gone(p) PROVE LogStep(p)
  BY <1>1 DEF Gone, LogStep
<1>2. ASSUME NEW p \in Procs, OpenFirst(p) PROVE LogStep(p)
  <2>1. at[p] = "idle" /\ handle[p] = NoFile
    BY <1>2 DEF NotYetOpen, OpenFirst
  <2> QED
    BY <1>2, <2>1 DEF OpenFirst, LogStep
<1>3. ASSUME NEW p \in Procs, Say(p) PROVE LogStep(p) \/ UNCHANGED logVars
  BY <1>1, <1>3 DEF Say, LogStep
<1>4. ASSUME NEW p \in Procs, Logging(p) PROVE LogStep(p)
  BY <1>4 DEF Logging, LogStep
<1>5. ASSUME NEW p \in Procs, Carry(p) PROVE LogStep(p) \/ UNCHANGED logVars
  BY <1>1, <1>5 DEF Carry
<1>6. ASSUME NEW p \in Procs, Killed(p) PROVE LogStep(p)
  BY <1>1, <1>6 DEF Killed
<1>7. ASSUME NEW p \in Procs, Bind(p) \/ StartByHand(p) PROVE UNCHANGED logVars
  BY <1>7 DEF Bind, StartByHand
<1>8. CASE Launch \/ PipelineEnds \/ Spawn \/ ChildExits \/ ReaderDies \/ UNCHANGED vars
  BY <1>8 DEF Launch, PipelineEnds, Spawn, ChildExits, ReaderDies, vars
<1> QED
  BY <1>2, <1>3, <1>4, <1>5, <1>6, <1>7, <1>8 DEF Next, Shell, Main

\* A process that is not up yet has nothing open.
LEMMA NotYetOpenStep ==
  ASSUME IInv, NotYetOpen, Log_TypeOK, [Next]_vars PROVE NotYetOpen'
<1> USE SupervisionAssumption
<1>1. /\ StartsOne /\ stage \in [Procs -> Stages]
      /\ handle \in [Procs -> Files \cup {NoFile}] /\ at \in [Procs -> Ats]
  BY DEF IInv, Typed, Log_TypeOK
<1>2. ASSUME NEW p \in Procs, Gone(p) PROVE NotYetOpen'
  BY <1>1, <1>2 DEF NotYetOpen, Gone, CloseLog
<1>3. CASE Launch
  <2>1. stage' = [stage EXCEPT ![Service] = "opening"] /\ stage[Service] = "none" /\ UNCHANGED <<handle, at>>
    BY <1>1, <1>3 DEF StartsOne, Launch, logVars
  <2> QED
    BY <2>1, <1>1 DEF NotYetOpen
<1>4. ASSUME NEW p \in Procs, StartByHand(p) PROVE NotYetOpen'
  BY <1>1, <1>4 DEF NotYetOpen, StartByHand, logVars
<1>5. ASSUME NEW p \in Procs, OpenFirst(p) PROVE NotYetOpen'
  <2>1. /\ stage' = [stage EXCEPT ![p] = "binding"] /\ at' = at
        /\ \E f : handle' = [handle EXCEPT ![p] = f]
    BY <1>5 DEF OpenFirst, OpenLog, OpenFails
  <2> QED
    BY <2>1, <1>1 DEF NotYetOpen
<1>6. ASSUME NEW p \in Procs, Say(p) PROVE NotYetOpen'
  <2>1. CASE ~Gone(p)
    <3>1. /\ stage[p] \in Speaking /\ stage' = [stage EXCEPT ![p] = Said(stage[p])]
          /\ handle' = handle /\ (at' = at \/ \E a : at' = [at EXCEPT ![p] = a])
      BY <1>1, <1>6, <2>1 DEF Say, Begin, logVars
    <3>2. Said(stage[p]) \notin {"none", "opening"}
      BY <3>1 DEF Speaking, Said
    <3> QED
      BY <3>1, <3>2, <1>1 DEF NotYetOpen
  <2> QED
    BY <2>1, <1>2
<1>7. ASSUME NEW p \in Procs, Logging(p) PROVE NotYetOpen'
  <2>1. stage' = stage /\ at[p] # "idle"
    BY <1>7 DEF Logging, processes, Move, Reopen, WriteLine
  <2>2. \A q \in Procs \ {p} : handle'[q] = handle[q] /\ at'[q] = at[q]
    BY <1>1, <1>7 DEF Logging, Move, Reopen, WriteLine, OpenLog, OpenFails
  <2> QED
    BY <2>1, <2>2 DEF NotYetOpen
<1>8. ASSUME NEW p \in Procs, Bind(p) PROVE NotYetOpen'
  BY <1>1, <1>8 DEF NotYetOpen, Bind, logVars
<1>9. ASSUME NEW p \in Procs, Carry(p) PROVE NotYetOpen'
  <2>1. CASE stage[p] = "announced" /\ stage' = [stage EXCEPT ![p] = "serving"]
               /\ UNCHANGED <<logVars, shell, reader, ends, child, name>>
    BY <2>1, <1>1 DEF NotYetOpen, logVars
  <2> QED
    BY <2>1, <1>2, <1>9 DEF Carry
<1>10. CASE PipelineEnds \/ Spawn \/ ChildExits \/ ReaderDies \/ UNCHANGED vars
  <2>1. UNCHANGED <<stage, handle, at>>
    BY <1>10 DEF PipelineEnds, Spawn, ChildExits, ReaderDies, vars, processes, logVars
  <2> QED
    BY <2>1 DEF NotYetOpen
<1>11. ASSUME NEW p \in Procs, Killed(p) PROVE NotYetOpen'
  BY <1>2, <1>11 DEF Killed
<1> QED
  BY <1>3, <1>4, <1>5, <1>6, <1>7, <1>8, <1>9, <1>10, <1>11 DEF Next, Shell, Main

\* At first there is no file.
LEMMA InitLog == Init => LogIInv /\ NotYetOpen
<1> SUFFICES ASSUME Init PROVE LogIInv /\ NotYetOpen
  OBVIOUS
<1>1. /\ dir = [g \in Generations |-> NoFile] /\ content = [f \in Files |-> <<>>]
      /\ handle = [p \in Procs |-> NoFile]
      /\ at = [p \in Procs |-> "idle"] /\ moved = [p \in Procs |-> 0]
      /\ lines = 0 /\ misses = 0 /\ cuts = 0 /\ disturbed = FALSE
  BY DEF Init, LogInit
<1>2. Log_TypeOK
  <2>1. <<>> \in Seq(Nat) /\ 0 \in 0..Keep
    BY LogConstants
  <2> QED
    BY <2>1, <1>1 DEF Log_TypeOK, Ats
<1>3. InUse \ {NoFile} = {}
  BY <1>1 DEF InUse
<1> QED
  BY <1>1, <1>2, <1>3 DEF LogIInv, InWrite, LinesHeld, OneName, NotYetOpen

\* The log keeps its shape whoever writes it.
THEOREM LogInvariance == Spec => [](LogIInv /\ NotYetOpen)
<1>1. IInv /\ LogIInv /\ NotYetOpen /\ [Next]_vars => (LogIInv /\ NotYetOpen)'
  <2> SUFFICES ASSUME IInv, LogIInv, NotYetOpen, [Next]_vars PROVE LogIInv' /\ NotYetOpen'
    OBVIOUS
  <2>1. NotYetOpen'
    BY NotYetOpenStep DEF LogIInv
  <2>2. ASSUME UNCHANGED logVars PROVE LogIInv'
    <3>1. UNCHANGED <<dir, content, handle, at, moved, lines, misses, cuts, disturbed>>
      BY <2>2 DEF logVars
    <3>2. InUse' = InUse /\ \A f : Writers(f)' = Writers(f)
      BY <3>1 DEF InUse, Writers
    <3>3. Log_TypeOK' /\ InWrite' /\ OneName'
      BY <3>1 DEF LogIInv, Log_TypeOK, InWrite, OneName
    <3>4. LinesHeld'
      BY <3>1, <3>2 DEF LogIInv, LinesHeld
    <3> QED
      BY <3>3, <3>4 DEF LogIInv
  <2>3. ASSUME NEW p \in Procs, LogStep(p) PROVE LogIInv'
    BY <2>3, LogStepIInv
  <2>4. StartsOne
    BY DEF IInv
  <2> QED
    BY <2>1, <2>2, <2>3, <2>4, LogSteps
<1> QED
  BY <1>1, InitLog, Invariance, PTL DEF Spec

\* log.rs:7 "it can never grow without bound": no file is longer than its size,
\* a line of every other process, and a line for every time the log itself
\* could not be moved out of the way.
THEOREM BoundedCorrect == Spec => []Bounded
<1>1. LogIInv => Bounded
  <2> SUFFICES ASSUME LogIInv, NEW f \in InUse \ {NoFile}
               PROVE  Len(content[f]) <= Full + Cardinality(Procs) - 1 + misses
    BY DEF Bounded
  <2>1. Len(content[f]) + Cardinality(Writers(f)) <= Full + Crowd - 1 + misses
    BY DEF LogIInv, LinesHeld
  <2>2. Cardinality(Writers(f)) \in Nat
    BY WritersCount
  <2>3. Len(content[f]) \in Nat /\ misses \in Nat
    BY DEF LogIInv, Log_TypeOK, InUse
  <2>4. Len(content[f]) <= Full + Crowd - 1 + misses
    BY <2>1, <2>2, <2>3, LogConstants
  <2> QED
    BY <2>4 DEF Crowd
<1> QED
  BY <1>1, LogInvariance, PTL
-----------------------------------------------------------------------------
(* What the files hold while one process at a time writes them. *)

\* Only one process has the log open.  Its file has the log's name, unless that
\* has just been moved away; in the middle of rotate() the name below the ones
\* already moved is free.
Alone ==
  /\ \A p, q \in Procs : handle[p] # NoFile /\ handle[q] # NoFile => p = q
  /\ \A p \in Procs :
       /\ handle[p] # NoFile => dir[0] = IF at[p] = "opening" THEN NoFile ELSE handle[p]
       /\ at[p] = "rotating" /\ moved[p] > 0 => dir[Keep - moved[p] + 1] = NoFile

\* u[g] is the last line written before generation g - 1 was begun: generation
\* g holds the lines after u[g + 1] up to u[g], and what is up to u[Keep + 1]
\* is lost.
Levels == [0..(Keep + 1) -> Nat]
Laid(u) ==
  /\ u[0] = lines
  /\ \A g, h \in 0..(Keep + 1) : g <= h => u[h] <= u[g]
  /\ \A g \in Generations :
       /\ Len(Text(g)) = u[g] - u[g + 1]
       /\ \A i \in 1..Len(Text(g)) : Text(g)[i] = u[g + 1] + i

\* There are lines in generation g, or, for g = Keep + 1, lost ones.
Holds(u, g) == IF g = Keep + 1 THEN u[g] > 0 ELSE u[g] > u[g + 1]

\* Generation g was moved there by the rotation that is going on.
Passed(g) == \E p \in Procs : at[p] = "rotating" /\ moved[p] > 0 /\ g > Keep - moved[p] + 1

\* Generations between g and the log, if they are full.
Depth(g) == Full * (g - 1)

\* The log is never more than full, and is full while it is rotated.  What is
\* behind other generations has as many full ones before it as it is deep, but
\* for those that rotations cut short have cost; while it is rotated the log
\* counts for what has been moved already.
Above(u) ==
  /\ u[0] <= u[1] + Full
  /\ \A p \in Procs : at[p] = "rotating" => u[0] = u[1] + Full
  /\ \A p \in Procs : at[p] = "appending" => u[0] < u[1] + Full
  /\ \A g \in 2..(Keep + 1) : Holds(u, g) => u[g] + Full <= u[0]
  /\ \A g \in 1..(Keep + 1) : Holds(u, g) => u[g] + Depth(g) <= u[0] + Full * cuts
  /\ \A g \in 1..(Keep + 1) :
       Holds(u, g) /\ ~Passed(g) => u[g] + Depth(g) <= u[1] + Full * cuts

InOrder == Alone /\ \E u \in Levels : Laid(u) /\ Above(u)

\* A generation is a file further down than the last.
LEMMA Depths ==
  /\ Depth(1) = 0
  /\ \A g \in 1..(Keep + 1) : Depth(g) \in Nat /\ Depth(g + 1) = Depth(g) + Full
  /\ \A n \in Nat : Full * n \in Nat /\ Full * (n + 1) = Full * n + Full
<1>1. \A n \in Nat : Full * n \in Nat /\ Full * (n + 1) = Full * n + Full
  BY LogConstants
<1>2. ASSUME NEW g \in 1..(Keep + 1) PROVE Depth(g) \in Nat /\ Depth(g + 1) = Depth(g) + Full
  <2>1. g - 1 \in Nat /\ (g + 1) - 1 = (g - 1) + 1
    BY LogConstants
  <2> QED
    BY <2>1, <1>1 DEF Depth
<1>3. Depth(1) = 0
  BY LogConstants DEF Depth
<1> QED
  BY <1>1, <1>2, <1>3

\* A file is lines.
LEMMA TextType ==
  ASSUME Log_TypeOK, NEW g \in Generations
  PROVE  Text(g) \in Seq(Nat) /\ Len(Text(g)) \in Nat /\ DOMAIN Text(g) = 1..Len(Text(g))
<1>1. Text(g) \in Seq(Nat)
  <2>1. CASE dir[g] = NoFile
    BY <2>1 DEF Text
  <2>2. CASE dir[g] # NoFile
    BY <2>2 DEF Text, Log_TypeOK
  <2> QED
    BY <2>1, <2>2
<1> QED
  BY <1>1

\* A step that moves no line leaves the levels where they are.
LEMMA SameLevels ==
  ASSUME NEW u \in Levels, Laid(u), lines' = lines, \A g \in Generations : Text(g)' = Text(g)
  PROVE  Laid(u)'
BY DEF Laid

\* Opening keeps the levels.
LEMMA OpenedInOrder ==
  ASSUME LogIInv, InOrder, NEW p \in Procs, OpenLog(p), ~disturbed',
         UNCHANGED <<moved, lines, misses, cuts>>,
         \/ at[p] = "idle" /\ at' = at
         \/ at[p] = "opening" /\ handle[p] # NoFile /\ at' = [at EXCEPT ![p] = "appending"]
  PROVE  InOrder'
<1> DEFINE f == IF dir[0] # NoFile THEN dir[0] ELSE NewFile
<1>1. Log_TypeOK /\ InWrite /\ Alone /\ 0 \in Generations /\ NoFile \notin Files
  BY LogConstants DEF LogIInv, InOrder
<1>2. PICK u \in Levels : Laid(u) /\ Above(u)
  BY DEF InOrder
<1>3. /\ f \in Files /\ (dir[0] = NoFile => f \notin InUse)
      /\ dir'[0] = f
      /\ \A g \in Generations : g # 0 => dir'[g] = dir[g]
      /\ dir[0] # NoFile => dir' = dir
      /\ \A h \in Files : h # f \/ dir[0] # NoFile => content'[h] = content[h]
      /\ dir[0] = NoFile => content'[f] = <<>>
      /\ handle' = [handle EXCEPT ![p] = f]
  BY OpenedFile
<1>4. \A q \in Procs \ {p} : handle[q] = NoFile
  BY DEF OpenLog
<1> HIDE DEF f
<1>5. /\ handle'[p] = f /\ at'[p] \in {"idle", "appending"}
      /\ \A q \in Procs \ {p} : handle'[q] = NoFile /\ at'[q] = "idle" /\ at[q] = "idle"
  BY <1>1, <1>3, <1>4 DEF InWrite, Log_TypeOK
<1>6. ASSUME NEW g \in Generations PROVE Text(g)' = Text(g)
  <2>1. CASE dir[g] = NoFile
    BY <2>1, <1>1, <1>3 DEF Text
  <2>2. CASE dir[g] # NoFile
    <3>1. dir[g] \in Files /\ dir[g] \in InUse
      BY <2>2, <1>1 DEF Log_TypeOK, InUse
    <3>2. content'[dir[g]] = content[dir[g]]
      BY <3>1, <1>3
    <3>3. dir'[g] = dir[g]
      BY <2>2, <1>3
    <3> QED
      BY <2>2, <3>2, <3>3 DEF Text
  <2> QED
    BY <2>1, <2>2
<1>7. Laid(u)'
  BY <1>2, <1>6, SameLevels
<1>8. Above(u)'
  <2>1. \A g : Passed(g)' = Passed(g)
    <3>1. \A q \in Procs : at'[q] # "rotating" /\ at[q] # "rotating"
      BY <1>5
    <3> QED
      BY <3>1 DEF Passed
  <2>2. at'[p] = "appending" => u[0] < u[1] + Full
    <3>1. SUFFICES ASSUME at'[p] = "appending" PROVE u[0] < u[1] + Full
      OBVIOUS
    <3>2. at[p] = "opening" /\ handle[p] # NoFile
      BY <3>1, <1>1 DEF Log_TypeOK
    <3>3. Text(0) = <<>> /\ Len(<<>>) = 0
      BY <3>2, <1>1 DEF Alone, Text
    <3>4. u[0] - u[0 + 1] = 0 /\ u[0] \in Nat /\ u[1] \in Nat
      BY <3>3, <1>1, <1>2, LogConstants DEF Laid, Levels
    <3> QED
      BY <3>4, LogConstants
  <2> QED
    BY <2>1, <2>2, <1>2, <1>5 DEF Above, Holds
<1>9. Alone'
  BY <1>3, <1>5 DEF Alone
<1> QED
  BY <1>2, <1>7, <1>8, <1>9 DEF InOrder

\* A death keeps the levels, and is counted if it cut a rotation short.
LEMMA ClosedInOrder ==
  ASSUME LogIInv, InOrder, NEW p \in Procs, ~disturbed, ~disturbed',
         UNCHANGED <<dir, content, lines>>,
         handle' = [handle EXCEPT ![p] = NoFile],
         at' = [at EXCEPT ![p] = "idle"], moved' = [moved EXCEPT ![p] = 0],
         cuts' = IF at[p] = "rotating" THEN cuts + 1 ELSE cuts
  PROVE  InOrder'
<1>1. Log_TypeOK /\ InWrite /\ Alone
  BY DEF LogIInv, InOrder
<1>2. PICK u \in Levels : Laid(u) /\ Above(u)
  BY DEF InOrder
<1>3. /\ at'[p] = "idle" /\ handle'[p] = NoFile
      /\ \A q \in Procs \ {p} : at'[q] = at[q] /\ moved'[q] = moved[q] /\ handle'[q] = handle[q]
  BY <1>1 DEF Log_TypeOK
<1>4. Laid(u)'
  BY <1>2, SameLevels DEF Text
<1>5. /\ \A g \in 0..(Keep + 1) : u[g] \in Nat
      /\ 0 \in 0..(Keep + 1) /\ 1 \in 0..(Keep + 1) /\ cuts \in Nat /\ Full \in Nat /\ Keep \in Nat
      /\ 1..(Keep + 1) \subseteq 0..(Keep + 1)
  BY <1>1, LogConstants DEF Levels, Log_TypeOK
<1>6. Full * cuts \in Nat /\ Full * (cuts + 1) = Full * cuts + Full
  BY <1>5, Depths
<1>7. /\ \A g \in 1..(Keep + 1) : Holds(u, g) => u[g] + Depth(g) <= u[0] + Full * cuts'
      /\ \A g \in 1..(Keep + 1) :
           Holds(u, g) /\ ~Passed(g)' => u[g] + Depth(g) <= u[1] + Full * cuts'
  <2> DEFINE cost == Full * cuts
  <2>1. \A g \in 1..(Keep + 1) : Holds(u, g) => u[g] + Depth(g) <= u[0] + cost
    BY <1>2 DEF Above
  <2>2. \A g \in 1..(Keep + 1) : Holds(u, g) /\ ~Passed(g) => u[g] + Depth(g) <= u[1] + cost
    BY <1>2 DEF Above
  <2>3. u[0] <= u[1] + Full /\ u[0] \in Nat /\ u[1] \in Nat /\ cost \in Nat
    BY <1>2, <1>5, <1>6 DEF Above
  <2>4. CASE at[p] = "rotating"
    <3>1. Full * cuts' = cost + Full
      BY <2>4, <1>6
    <3> HIDE DEF cost
    <3>2. ASSUME NEW g \in 1..(Keep + 1), Holds(u, g)
          PROVE  u[g] + Depth(g) <= u[0] + (cost + Full) /\ u[g] + Depth(g) <= u[1] + (cost + Full)
      <4>1. u[g] + Depth(g) <= u[0] + cost
        BY <3>2, <2>1
      <4>2. u[g] \in Nat /\ Depth(g) \in Nat
        BY <1>5, Depths
      <4> QED
        BY <4>1, <4>2, <2>3, <1>5
    <3> QED
      BY <3>1, <3>2
  <2>5. CASE at[p] # "rotating"
    <3>1. cuts' = cuts
      BY <2>5
    <3>2. \A g : Passed(g) => Passed(g)'
      BY <2>5, <1>3 DEF Passed
    <3> QED
      BY <3>1, <3>2, <2>1, <2>2
  <2> QED
    BY <2>4, <2>5
<1>8. Above(u)'
  <2>1. /\ u[0] <= u[1] + Full
        /\ \A q \in Procs : at'[q] = "rotating" => u[0] = u[1] + Full
        /\ \A q \in Procs : at'[q] = "appending" => u[0] < u[1] + Full
        /\ \A g \in 2..(Keep + 1) : Holds(u, g) => u[g] + Full <= u[0]
    BY <1>2, <1>3 DEF Above
  <2> QED
    BY <2>1, <1>7 DEF Above, Holds, Depth
<1>9. Alone'
  BY <1>1, <1>3 DEF Alone
<1> QED
  BY <1>2, <1>4, <1>8, <1>9 DEF InOrder

\* A line that is due changes no file.
LEMMA BegunInOrder ==
  ASSUME LogIInv, InOrder, NEW p \in Procs, Begin(p) PROVE InOrder'
<1> DEFINE full == Len(content[handle[p]]) >= Full
<1>1. Log_TypeOK /\ InWrite /\ Alone
  BY DEF LogIInv, InOrder
<1>2. PICK u \in Levels : Laid(u) /\ Above(u)
  BY DEF InOrder
<1>3. /\ at[p] = "idle" /\ handle[p] # NoFile
      /\ at' = [at EXCEPT ![p] = IF full THEN "rotating" ELSE "appending"]
      /\ UNCHANGED <<dir, content, handle, moved, lines, misses, cuts, disturbed>>
  BY DEF Begin
<1>4. Len(content[handle[p]]) = u[0] - u[1] /\ u[0] \in Nat /\ u[1] \in Nat
  <2>1. Text(0) = content[handle[p]]
    BY <1>1, <1>3 DEF Alone, Text
  <2>2. 0 \in Generations /\ 0 + 1 = 1
    BY LogConstants
  <2> QED
    BY <2>1, <2>2, <1>2, LogConstants DEF Laid, Levels
<1>5. u[0] <= u[1] + Full
  BY <1>2 DEF Above
<1>6. (full => u[0] = u[1] + Full) /\ (~full => u[0] < u[1] + Full)
  BY <1>4, <1>5, LogConstants
<1> HIDE DEF full
<1>7. /\ at'[p] = (IF full THEN "rotating" ELSE "appending") /\ moved[p] = 0
      /\ \A q \in Procs \ {p} : at'[q] = at[q]
  BY <1>1, <1>3 DEF Log_TypeOK, InWrite
<1>8. Laid(u)'
  BY <1>2, <1>3, SameLevels DEF Text
<1>9. \A g : Passed(g)' = Passed(g)
  <2>1. ~(0 > 0)
    OBVIOUS
  <2> QED
    BY <2>1, <1>3, <1>7 DEF Passed
<1>10. Above(u)'
  BY <1>2, <1>3, <1>6, <1>7, <1>9 DEF Above, Holds, Depth
<1>11. Alone'
  BY <1>1, <1>3, <1>7 DEF Alone
<1> QED
  BY <1>2, <1>8, <1>10, <1>11 DEF InOrder

\* A line is written: level 0 rises by one.
LEMMA WrittenInOrder ==
  ASSUME LogIInv, InOrder, NEW p \in Procs, WriteLine(p) PROVE InOrder'
<1> DEFINE o == handle[p]
<1>1. Log_TypeOK /\ InWrite /\ Alone /\ OneName /\ 0 \in Generations
  BY LogConstants DEF LogIInv, InOrder
<1>2. PICK u \in Levels : Laid(u) /\ Above(u)
  BY DEF InOrder
<1>3. /\ at[p] = "appending" /\ at' = [at EXCEPT ![p] = "idle"]
      /\ UNCHANGED <<dir, handle, moved, misses, cuts, disturbed>>
      /\ \/ lines' = lines + 1 /\ content' = [content EXCEPT ![o] = Append(@, lines + 1)]
         \/ UNCHANGED <<lines, content>>
  BY DEF WriteLine
<1>4. /\ at'[p] = "idle" /\ \A q \in Procs \ {p} : at'[q] = at[q]
  BY <1>1, <1>3 DEF Log_TypeOK
<1>5. Alone'
  BY <1>1, <1>3, <1>4 DEF Alone
<1>6. \A g : Passed(g)' = Passed(g)
  BY <1>3, <1>4 DEF Passed
<1>7. CASE UNCHANGED <<lines, content>>
  <2>1. Laid(u)'
    BY <1>2, <1>3, <1>7, SameLevels DEF Text
  <2>2. Above(u)'
    BY <1>2, <1>3, <1>4, <1>6 DEF Above, Holds, Depth
  <2> QED
    BY <2>1, <2>2, <1>2, <1>5 DEF InOrder
<1>8. CASE lines' = lines + 1 /\ content' = [content EXCEPT ![o] = Append(@, lines + 1)]
  <2>1. /\ o \in Files /\ o # NoFile /\ dir[0] = o
        /\ \A g \in Generations : g # 0 => dir[g] # o
    BY <1>1, <1>3 DEF InWrite, Alone, OneName, Log_TypeOK
  <2>2. /\ lines \in Nat /\ lines + 1 \in Nat /\ u[0] = lines
        /\ \A g \in 0..(Keep + 1) : u[g] \in Nat /\ u[g] <= lines
        /\ Keep \in Nat /\ Full \in Nat
    <3>1. /\ lines \in Nat /\ lines + 1 \in Nat /\ Keep \in Nat /\ Full \in Nat
          /\ 0 \in 0..(Keep + 1) /\ \A g \in 0..(Keep + 1) : 0 <= g
      BY <1>1, LogConstants DEF Log_TypeOK
    <3>2. u[0] = lines /\ \A g \in 0..(Keep + 1) : u[g] \in Nat
      BY <1>2 DEF Laid, Levels
    <3>3. \A g \in 0..(Keep + 1) : u[g] <= u[0]
      BY <3>1, <1>2 DEF Laid
    <3> QED
      BY <3>1, <3>2, <3>3
  <2>3. PICK v \in Levels : v[0] = lines + 1 /\ \A g \in 1..(Keep + 1) : v[g] = u[g]
    <3>1. /\ [u EXCEPT ![0] = lines + 1] \in Levels
          /\ [u EXCEPT ![0] = lines + 1][0] = lines + 1
          /\ \A g \in 1..(Keep + 1) : [u EXCEPT ![0] = lines + 1][g] = u[g]
      BY <2>2 DEF Levels
    <3> QED
      BY <3>1
  <2>4. \A g \in Generations : g # 0 => Text(g)' = Text(g)
    BY <2>1, <1>1, <1>3, <1>8 DEF Text, Log_TypeOK
  <2>5. Text(0)' = Append(Text(0), lines + 1)
    BY <2>1, <1>1, <1>3, <1>8 DEF Text, Log_TypeOK
  <2> HIDE DEF o
  <2>6. Laid(v)'
    <3>1. v[0] = lines'
      BY <2>3, <1>8
    <3>2. ASSUME NEW g \in 0..(Keep + 1), NEW h \in 0..(Keep + 1), g <= h PROVE v[h] <= v[g]
      <4>1. CASE h = 0
        BY <4>1, <3>2, <2>2, <2>3
      <4>2. CASE g = 0 /\ h # 0
        <5>1. h \in 1..(Keep + 1) /\ v[h] = u[h] /\ u[h] <= lines /\ u[h] \in Nat
          BY <4>2, <2>2, <2>3
        <5> QED
          BY <5>1, <4>2, <2>2, <2>3
      <4>3. CASE g # 0 /\ h # 0
        <5>1. v[h] = u[h] /\ v[g] = u[g]
          BY <4>3, <2>2, <2>3
        <5> QED
          BY <5>1, <3>2, <1>2 DEF Laid
      <4> QED
        BY <4>1, <4>2, <4>3
    <3>3. ASSUME NEW g \in Generations
          PROVE  /\ Len(Text(g)') = v[g] - v[g + 1]
                 /\ \A i \in 1..Len(Text(g)') : Text(g)'[i] = v[g + 1] + i
      <4>1. g \in 0..Keep /\ g + 1 \in 1..(Keep + 1) /\ v[g + 1] = u[g + 1] /\ u[g + 1] \in Nat
        BY <2>2, <2>3, LogConstants
      <4>2. /\ Len(Text(g)) = u[g] - u[g + 1]
            /\ \A i \in 1..Len(Text(g)) : Text(g)[i] = u[g + 1] + i
        BY <1>2 DEF Laid
      <4>3. CASE g # 0
        <5>1. v[g] = u[g]
          BY <4>1, <4>3, <2>2, <2>3
        <5> QED
          BY <5>1, <4>1, <4>2, <4>3, <2>4
      <4>4. CASE g = 0
        <5> DEFINE x == Text(0)
                   n == Len(x)
        <5>1. x \in Seq(Nat) /\ n \in Nat
          BY <1>1, TextType
        <5>2. /\ Len(Append(x, lines + 1)) = n + 1 /\ Append(x, lines + 1)[n + 1] = lines + 1
              /\ \A i \in 1..n : Append(x, lines + 1)[i] = x[i]
          <6> HIDE DEF x
          <6> QED
            BY <5>1, <2>2
        <5>3. n = lines - u[1] /\ \A i \in 1..n : x[i] = u[1] + i
          BY <4>2, <4>4, <2>2
        <5>4. /\ Text(g)' = Append(x, lines + 1) /\ v[g + 1] = u[1] /\ v[g] = lines + 1 /\ u[1] \in Nat
          BY <4>1, <4>4, <2>3, <2>5
        <5> HIDE DEF x, n
        <5>5. n + 1 = (lines + 1) - u[1] /\ lines + 1 = u[1] + (n + 1)
          BY <5>1, <5>3, <5>4, <2>2
        <5>6. ASSUME NEW i \in 1..(n + 1) PROVE Append(x, lines + 1)[i] = u[1] + i
          <6>1. i \in 1..n \/ i = n + 1
            BY <5>1
          <6> QED
            BY <6>1, <5>2, <5>3, <5>5
        <5> QED
          BY <5>2, <5>4, <5>5, <5>6
      <4> QED
        BY <4>3, <4>4
    <3> QED
      BY <3>1, <3>2, <3>3 DEF Laid
  <2>7. Above(v)'
    <3>1. u[0] < u[1] + Full
      BY <1>2, <1>3 DEF Above
    <3>2. /\ v[1] = u[1] /\ v[0] = u[0] + 1 /\ u[0] \in Nat /\ u[1] \in Nat
      BY <2>2, <2>3
    <3>3. \A g \in 1..(Keep + 1) : Holds(v, g) = Holds(u, g)
      <4>1. ASSUME NEW g \in 1..(Keep + 1), g # Keep + 1 PROVE v[g] = u[g] /\ v[g + 1] = u[g + 1]
        BY <4>1, <2>2, <2>3
      <4> QED
        BY <4>1, <2>2, <2>3 DEF Holds
    <3>4. \A q \in Procs : at'[q] # "rotating" /\ at'[q] # "appending"
      <4>1. \A q \in Procs \ {p} : handle[q] = NoFile
        BY <1>1, <1>3, <2>1 DEF Alone, o
      <4> QED
        BY <4>1, <1>1, <1>4 DEF InWrite
    <3>5. ASSUME NEW g \in 2..(Keep + 1), Holds(v, g) PROVE v[g] + Full <= v[0]
      <4>1. g \in 1..(Keep + 1) /\ u[g] \in Nat
        BY <2>2
      <4>2. u[g] + Full <= u[0] /\ v[g] = u[g]
        BY <3>3, <3>5, <4>1, <1>2, <2>3 DEF Above
      <4> QED
        BY <4>1, <4>2, <3>2, <2>2
    <3>6. ASSUME NEW g \in 1..(Keep + 1), Holds(v, g)
          PROVE  /\ v[g] + Depth(g) <= v[0] + Full * cuts
                 /\ ~Passed(g) => v[g] + Depth(g) <= v[1] + Full * cuts
      <4> DEFINE cost == Full * cuts
      <4>1. /\ u[g] + Depth(g) <= u[0] + cost
            /\ ~Passed(g) => u[g] + Depth(g) <= u[1] + cost
        BY <3>3, <3>6, <1>2 DEF Above
      <4>2. u[g] \in Nat /\ Depth(g) \in Nat /\ cost \in Nat /\ v[g] = u[g]
        BY <1>1, <2>2, <2>3, Depths DEF Log_TypeOK
      <4> HIDE DEF cost
      <4>3. v[g] + Depth(g) <= v[0] + cost
        BY <4>1, <4>2, <3>2
      <4> QED
        BY <4>1, <4>2, <4>3, <3>2 DEF cost
    <3>7. v[0] <= v[1] + Full
      BY <3>1, <3>2, <2>2
    <3> QED
      BY <3>4, <3>5, <3>6, <3>7, <1>3, <1>6 DEF Above, Holds, Depth
  <2> QED
    BY <2>3, <2>6, <2>7, <1>5 DEF InOrder
<1> QED
  BY <1>3, <1>7, <1>8

\* What one step of rotate() does to what is found under the names.
LEMMA MovedText ==
  ASSUME LogIInv, Alone, NEW p \in Procs, Move(p, FALSE),
         NEW k \in 0..Keep, k = Keep - moved[p]
  PROVE  /\ k \in 0..Keep /\ at[p] = "rotating" /\ handle[p] # NoFile
         /\ \A g \in Generations : g # k /\ g # k + 1 => Text(g)' = Text(g)
         /\ Text(k)' = <<>>
         /\ k # Keep => Text(k + 1) = <<>> /\ Text(k + 1)' = Text(k) /\ dir[k + 1] = NoFile
         /\ dir'[k] = NoFile
         /\ k # 0 => dir'[0] = dir[0]
<1>1. Log_TypeOK /\ InWrite /\ Keep \in Nat /\ Keep >= 1 /\ Generations = 0..Keep
  BY LogConstants DEF LogIInv
<1>2. /\ k \in 0..Keep /\ at[p] = "rotating"
      /\ dir[k] = NoFile => dir' = dir
      /\ dir[k] # NoFile =>
           dir' = [h \in Generations |->
                    IF h = k THEN NoFile ELSE IF h = k + 1 THEN dir[k] ELSE dir[h]]
      /\ content' = content
  BY <1>1, MovedName
<1>3. handle[p] # NoFile
  BY <1>1, <1>2 DEF InWrite
<1>4. k # Keep => dir[k + 1] = NoFile
  <2>1. k # Keep => moved[p] > 0 /\ moved[p] \in Nat
    BY <1>1 DEF Log_TypeOK
  <2> QED
    BY <2>1, <1>2 DEF Alone
<1>5. /\ \A g \in Generations : g # k /\ g # k + 1 => dir'[g] = dir[g]
      /\ dir'[k] = NoFile
      /\ k # Keep => dir'[k + 1] = dir[k] /\ k + 1 \in Generations
      /\ k # 0 => dir'[0] = dir[0]
  <2>1. CASE dir[k] = NoFile
    BY <2>1, <1>1, <1>2, <1>4
  <2>2. CASE dir[k] # NoFile
    BY <2>2, <1>1, <1>2
  <2> QED
    BY <2>1, <2>2
<1> QED
  BY <1>2, <1>3, <1>4, <1>5 DEF Text

\* A move shifts one level; the file at the end of the row goes.
LEMMA MovedInOrder ==
  ASSUME LogIInv, InOrder, NEW p \in Procs, Move(p, FALSE) PROVE InOrder'
<1>1. Log_TypeOK /\ InWrite /\ Alone /\ Keep \in Nat /\ Keep >= 1 /\ Generations = 0..Keep /\ Full \in Nat
  BY LogConstants DEF LogIInv, InOrder
<1>2. PICK u \in Levels : Laid(u) /\ Above(u)
  BY DEF InOrder
<1>0. PICK k \in 0..Keep : k = Keep - moved[p]
  BY <1>1 DEF Log_TypeOK
<1>3. /\ k \in 0..Keep /\ at[p] = "rotating" /\ handle[p] # NoFile
      /\ \A g \in Generations : g # k /\ g # k + 1 => Text(g)' = Text(g)
      /\ Text(k)' = <<>>
      /\ k # Keep => Text(k + 1) = <<>> /\ Text(k + 1)' = Text(k) /\ dir[k + 1] = NoFile
      /\ dir'[k] = NoFile
      /\ k # 0 => dir'[0] = dir[0]
  <2> HIDE DEF InOrder
  <2>1. LogIInv /\ Alone
    BY <1>1
  <2> QED
    BY <1>0, <2>1, MovedText
<1>4. /\ k # 0 => moved' = [moved EXCEPT ![p] = moved[p] + 1] /\ at' = at
      /\ k = 0 => moved' = [moved EXCEPT ![p] = 0] /\ at' = [at EXCEPT ![p] = "opening"]
      /\ UNCHANGED <<handle, lines, cuts>>
  BY <1>0, <1>1, <1>3, MovedName
<1>5. \A q \in Procs \ {p} : handle[q] = NoFile /\ at[q] = "idle" /\ at'[q] = "idle"
  BY <1>1, <1>3, <1>4 DEF Alone, InWrite, Log_TypeOK
<1>6. /\ moved[p] \in 0..Keep /\ moved[p] = Keep - k /\ (moved[p] > 0 <=> k # Keep)
      /\ k # 0 => moved'[p] = Keep - k + 1 /\ moved'[p] > 0 /\ Keep - moved'[p] + 1 = k /\ at'[p] = "rotating"
      /\ k = 0 => at'[p] = "opening"
  BY <1>0, <1>1, <1>3, <1>4 DEF Log_TypeOK
<1>7. /\ \A g \in 0..(Keep + 1) : u[g] \in Nat
      /\ u[0] = u[1] + Full
      /\ \A g, h \in 0..(Keep + 1) : g <= h => u[h] <= u[g]
  BY <1>2, <1>3 DEF Laid, Levels, Above
<1>8. k # Keep => u[k + 1] = u[k + 2]
  <2> SUFFICES ASSUME k # Keep PROVE u[k + 1] = u[k + 2]
    OBVIOUS
  <2>1. /\ k + 1 \in Generations /\ (k + 1) + 1 = k + 2
        /\ k + 1 \in 0..(Keep + 1) /\ k + 2 \in 0..(Keep + 1)
    BY <1>1, <1>3
  <2>2. Len(Text(k + 1)) = u[k + 1] - u[k + 2]
    BY <2>1, <1>2 DEF Laid
  <2>3. Len(Text(k + 1)) = 0
    BY <1>3
  <2> QED
    BY <2>1, <2>2, <2>3, <1>7
<1>9. /\ k \in 0..(Keep + 1) /\ k + 1 \in 1..(Keep + 1)
      /\ 0 \in 0..(Keep + 1) /\ 1 \in 0..(Keep + 1)
  BY <1>1, <1>3
<1>10. PICK v \in Levels : v[k + 1] = u[k] /\ \A g \in 0..(Keep + 1) : g # k + 1 => v[g] = u[g]
  <2> DEFINE w == [u EXCEPT ![k + 1] = u[k]]
  <2>1. w \in Levels /\ w[k + 1] = u[k] /\ \A g \in 0..(Keep + 1) : g # k + 1 => w[g] = u[g]
    BY <1>7, <1>9 DEF Levels
  <2> QED
    BY <2>1
<1>11. Laid(v)'
  <2>1. v[0] = lines'
    BY <1>2, <1>3, <1>4, <1>9, <1>10 DEF Laid
  <2>2. ASSUME NEW g \in 0..(Keep + 1), NEW h \in 0..(Keep + 1), g <= h PROVE v[h] <= v[g]
    <3>1. CASE g # k + 1 /\ h # k + 1
      BY <3>1, <2>2, <1>7, <1>10
    <3>2. CASE g = k + 1 /\ h # k + 1
      <4>1. u[h] <= u[k]
        BY <3>2, <2>2, <1>3, <1>7, <1>9
      <4> QED
        BY <4>1, <3>2, <1>10
    <3>3. CASE g # k + 1 /\ h = k + 1
      <4>1. g <= k
        BY <3>3, <2>2, <1>3
      <4>2. u[k] <= u[g]
        BY <4>1, <1>7, <1>9
      <4> QED
        BY <4>2, <3>3, <1>10
    <3>4. CASE g = k + 1 /\ h = k + 1
      BY <3>4, <1>7, <1>9, <1>10
    <3> QED
      BY <3>1, <3>2, <3>3, <3>4
  <2>3. ASSUME NEW g \in Generations
        PROVE  /\ Len(Text(g)') = v[g] - v[g + 1]
               /\ \A i \in 1..Len(Text(g)') : Text(g)'[i] = v[g + 1] + i
    <3>1. g \in 0..(Keep + 1) /\ g + 1 \in 0..(Keep + 1)
      BY <1>1
    <3>2. CASE g # k /\ g # k + 1
      <4>1. v[g] = u[g] /\ v[g + 1] = u[g + 1] /\ Text(g)' = Text(g)
        BY <3>1, <3>2, <1>3, <1>10, <1>1
      <4> QED
        BY <4>1, <1>2 DEF Laid
    <3>3. CASE g = k
      <4>1. v[g] = u[k] /\ v[g + 1] = u[k] /\ Text(g)' = <<>>
        BY <3>1, <3>3, <1>3, <1>9, <1>10
      <4>2. Len(<<>>) = 0 /\ u[k] - u[k] = 0
        BY <1>7, <1>9
      <4> QED
        BY <4>1, <4>2
    <3>4. CASE g = k + 1
      <4>1. k # Keep /\ k \in Generations
        BY <3>4, <1>1, <1>3
      <4>2. v[g] = u[k] /\ v[g + 1] = u[k + 2] /\ Text(g)' = Text(k)
        BY <4>1, <3>1, <3>4, <1>3, <1>10
      <4>3. /\ Len(Text(k)) = u[k] - u[k + 1]
            /\ \A i \in 1..Len(Text(k)) : Text(k)[i] = u[k + 1] + i
        BY <4>1, <1>2 DEF Laid
      <4> QED
        BY <4>1, <4>2, <4>3, <1>8
    <3> QED
      BY <3>2, <3>3, <3>4
  <2> QED
    BY <2>1, <2>2, <2>3 DEF Laid
<1>12. /\ \A g \in 1..(Keep + 1) : g # k /\ g # k + 1 => Holds(v, g) = Holds(u, g)
       /\ k # 0 => ~Holds(v, k)
  <2>1. ASSUME NEW g \in 1..(Keep + 1), g # k, g # k + 1 PROVE Holds(v, g) = Holds(u, g)
    <3>1. v[g] = u[g]
      BY <2>1, <1>10
    <3>2. CASE g = Keep + 1
      BY <3>1, <3>2 DEF Holds
    <3>3. CASE g # Keep + 1
      <4>1. g + 1 \in 0..(Keep + 1) /\ g + 1 # k + 1
        BY <2>1, <3>3, <1>1, <1>3
      <4> QED
        BY <3>1, <3>3, <4>1, <1>10 DEF Holds
    <3> QED
      BY <3>2, <3>3
  <2>2. ~Holds(v, k)
    <3>1. v[k] = u[k] /\ v[k + 1] = u[k] /\ k # Keep + 1
      BY <1>1, <1>3, <1>9, <1>10
    <3>2. u[k] \in Nat
      BY <1>7, <1>9
    <3> QED
      BY <3>1, <3>2 DEF Holds
  <2> QED
    BY <2>1, <2>2
<1>13. /\ \A g \in 1..(Keep + 1) : Passed(g) <=> k # Keep /\ g > k + 1
       /\ k # 0 => \A g \in 1..(Keep + 1) : Passed(g)' <=> g > k
  <2>1. ASSUME NEW g \in 1..(Keep + 1) PROVE Passed(g) <=> k # Keep /\ g > k + 1
    <3>1. Passed(g) <=> moved[p] > 0 /\ g > Keep - moved[p] + 1
      BY <1>3, <1>5 DEF Passed
    <3>2. Keep - moved[p] + 1 = k + 1
      BY <1>1, <1>3, <1>6
    <3> QED
      BY <3>1, <3>2, <1>6
  <2>2. ASSUME k # 0, NEW g \in 1..(Keep + 1) PROVE Passed(g)' <=> g > k
    <3>1. Passed(g)' <=> moved'[p] > 0 /\ g > Keep - moved'[p] + 1
      BY <2>2, <1>5, <1>6 DEF Passed
    <3> QED
      BY <3>1, <2>2, <1>6
  <2> QED
    BY <2>1, <2>2
<1> DEFINE cost == Full * cuts
<1>14. /\ cost \in Nat /\ \A g \in 1..(Keep + 1) : Depth(g) \in Nat
       /\ \A g \in 1..(Keep + 1) : Holds(u, g) => u[g] + Depth(g) <= u[0] + cost
       /\ \A g \in 1..(Keep + 1) : Holds(u, g) /\ ~Passed(g) => u[g] + Depth(g) <= u[1] + cost
       /\ \A g \in 2..(Keep + 1) : Holds(u, g) => u[g] + Full <= u[0]
  BY <1>1, <1>2, Depths DEF Above, Log_TypeOK
<1>15. /\ v[0] = u[0]
       /\ k # 0 => v[1] = u[1]
       /\ k = 0 => v[1] = u[0]
  BY <1>3, <1>9, <1>10
<1>16. ASSUME k # 0 PROVE Above(v)'
  <2> HIDE DEF cost
  <2>1. /\ v[0] <= v[1] + Full
        /\ \A q \in Procs : at'[q] = "rotating" => v[0] = v[1] + Full
        /\ \A q \in Procs : at'[q] = "appending" => v[0] < v[1] + Full
    <3>1. v[0] = v[1] + Full /\ v[1] \in Nat
      BY <1>7, <1>9, <1>15, <1>16
    <3>2. \A q \in Procs : at'[q] # "appending"
      BY <1>5, <1>6, <1>16
    <3> QED
      BY <3>1, <3>2, <1>1
  <2>2. ASSUME NEW g \in 1..(Keep + 1), Holds(v, g), g # k + 1
        PROVE  /\ g # 1 => v[g] + Full <= v[0]
               /\ v[g] + Depth(g) <= v[0] + cost
               /\ ~Passed(g)' => v[g] + Depth(g) <= v[1] + cost
    <3>1. g # k /\ Holds(u, g) /\ v[g] = u[g]
      BY <2>2, <1>10, <1>12, <1>16
    <3>2. ~Passed(g)' => ~Passed(g)
      BY <1>3, <1>13, <1>16
    <3>3. g # 1 => g \in 2..(Keep + 1)
      BY <1>1
    <3> QED
      BY <3>1, <3>2, <3>3, <1>14, <1>15, <1>16
  <2>3. ASSUME NEW g \in 1..(Keep + 1), Holds(v, g), g = k + 1
        PROVE  v[g] + Full <= v[0] /\ v[g] + Depth(g) <= v[0] + cost /\ Passed(g)'
    <3>1. /\ k \in 1..Keep /\ k \in 1..(Keep + 1) /\ v[g] = u[k] /\ u[k] \in Nat /\ u[k + 1] \in Nat
          /\ u[k + 1] <= u[k] /\ u[k] <= u[1] /\ u[1] \in Nat
      BY <2>3, <1>1, <1>3, <1>7, <1>9, <1>10, <1>16
    <3>2. Depth(g) = Depth(k) + Full /\ Depth(k) \in Nat /\ Depth(g) \in Nat
      BY <3>1, <2>3, Depths
    <3>6. Passed(g)'
      <4>1. g > k
        BY <2>3, <1>3
      <4> QED
        BY <4>1, <1>13, <1>16
    <3>7. v[g] + Full <= v[0]
      <4>1. u[0] = u[1] + Full /\ v[0] = u[0]
        BY <1>7, <1>15
      <4> QED
        BY <4>1, <3>1, <1>1
    <3>3. CASE u[k] # u[k + 1]
      <4>1. Holds(u, k) /\ ~Passed(k)
        BY <3>1, <3>3, <1>13 DEF Holds
      <4>2. u[k] + Depth(k) <= u[1] + cost
        BY <4>1, <3>1, <1>14
      <4>3. u[0] = u[1] + Full /\ v[0] = u[0]
        BY <1>7, <1>15
      <4>4. cost \in Nat
        BY <1>14
      <4>5. \A a, b, c, d, e \in Nat : a + d <= b + c => a + (d + e) <= (b + e) + c
        OBVIOUS
      <4>6. u[k] + (Depth(k) + Full) <= (u[1] + Full) + cost
        BY <4>2, <4>4, <4>5, <3>1, <3>2, <1>1
      <4>7. v[g] + Depth(g) <= v[0] + cost
        BY <4>3, <4>6, <3>1, <3>2
      <4> QED
        BY <4>7, <3>6, <3>7
    <3>4. CASE u[k] = u[k + 1] /\ k # Keep
      <4>1. g # Keep + 1 /\ g + 1 = k + 2 /\ g + 1 \in 0..(Keep + 1) /\ g + 1 # k + 1
        BY <2>3, <3>1, <3>4, <1>1
      <4>2. v[g + 1] = u[g + 1] /\ u[g + 1] = u[k]
        BY <4>1, <3>4, <1>8, <1>10
      <4> QED
        BY <4>1, <4>2, <3>1, <2>3 DEF Holds
    <3>5. CASE u[k] = u[k + 1] /\ k = Keep
      <4>1. Holds(u, g) /\ ~Passed(g) /\ u[g] = u[k]
        BY <3>5, <3>1, <2>3, <1>13 DEF Holds
      <4>2. u[g] + Depth(g) <= u[1] + cost
        BY <4>1, <1>14
      <4>3. u[0] = u[1] + Full /\ v[0] = u[0] /\ cost \in Nat
        BY <1>7, <1>14, <1>15
      <4>4. \A a, b, c, d, e \in Nat : a + d <= b + c => a + d <= (b + e) + c
        OBVIOUS
      <4>5. u[k] + Depth(g) <= (u[1] + Full) + cost
        BY <4>1, <4>2, <4>3, <4>4, <3>1, <3>2, <1>1
      <4>6. v[g] + Depth(g) <= v[0] + cost
        BY <4>3, <4>5, <3>1
      <4> QED
        BY <4>6, <3>6, <3>7
    <3> QED
      BY <3>3, <3>4, <3>5
  <2>4. \A g \in 2..(Keep + 1) : g \in 1..(Keep + 1) /\ g # 1
    BY <1>1
  <2>5. Full * cuts' = cost
    BY <1>4 DEF cost
  <2> QED
    BY <2>1, <2>2, <2>3, <2>4, <2>5 DEF Above, Holds, Depth
<1>17. ASSUME k = 0 PROVE Above(v)'
  <2> HIDE DEF cost
  <2>1. /\ v[0] <= v[1] + Full /\ v[0] \in Nat /\ v[1] = v[0]
        /\ \A q \in Procs : at'[q] # "rotating" /\ at'[q] # "appending"
    BY <1>1, <1>5, <1>6, <1>7, <1>9, <1>15, <1>17
  <2>2. ASSUME NEW g \in 2..(Keep + 1), Holds(v, g)
        PROVE  v[g] + Full <= v[0] /\ v[g] + Depth(g) <= v[0] + cost
    <3>1. g \in 1..(Keep + 1) /\ g # k /\ g # k + 1 /\ g \in 0..(Keep + 1)
      BY <1>1, <1>17
    <3>2. Holds(u, g) /\ v[g] = u[g]
      BY <3>1, <2>2, <1>10, <1>12
    <3> QED
      BY <3>1, <3>2, <1>14, <1>15
  <2>3. v[1] + Depth(1) <= v[0] + cost
    <3>1. Depth(1) = 0
      BY Depths
    <3> QED
      BY <3>1, <2>1, <1>14
  <2>4. \A g \in 1..(Keep + 1) : g = 1 \/ g \in 2..(Keep + 1)
    BY <1>1
  <2>5. Full * cuts' = cost
    BY <1>4 DEF cost
  <2> QED
    BY <2>1, <2>2, <2>3, <2>4, <2>5 DEF Above, Holds, Depth
<1>18. Alone'
  <2>1. ASSUME NEW q \in Procs, handle'[q] # NoFile PROVE q = p
    BY <2>1, <1>4, <1>5
  <2>2. handle'[p] # NoFile => dir'[0] = IF at'[p] = "opening" THEN NoFile ELSE handle'[p]
    <3>1. CASE k # 0
      BY <3>1, <1>1, <1>3, <1>4, <1>6 DEF Alone
    <3>2. CASE k = 0
      BY <3>2, <1>3, <1>6
    <3> QED
      BY <3>1, <3>2
  <2>3. at'[p] = "rotating" /\ moved'[p] > 0 => dir'[Keep - moved'[p] + 1] = NoFile
    BY <1>3, <1>6
  <2> QED
    BY <2>1, <2>2, <2>3, <1>5 DEF Alone
<1> QED
  BY <1>10, <1>11, <1>16, <1>17, <1>18 DEF InOrder

\* No step ends the disturbance, and one that brings none keeps the order.
LEMMA InOrderStep ==
  ASSUME LogIInv, ~disturbed => InOrder, NEW p \in Procs, LogStep(p), ~disturbed'
  PROVE  InOrder'
<1>1. Log_TypeOK /\ InWrite
  BY DEF LogIInv
<1>2. ~disturbed
  BY DEF LogStep, OpenLog, OpenFails, Begin, Move, Reopen, WriteLine, CloseLog
<1>3. InOrder
  BY <1>2
<1>4. CASE /\ at[p] = "idle" /\ handle[p] = NoFile
           /\ OpenLog(p) \/ OpenFails(p)
           /\ UNCHANGED <<at, moved, lines, misses, cuts>>
  <2>1. CASE OpenLog(p)
    BY <1>3, <1>4, <2>1, OpenedInOrder
  <2>2. CASE OpenFails(p)
    <3>1. /\ at' = [at EXCEPT ![p] = "idle"] /\ moved' = [moved EXCEPT ![p] = 0]
          /\ at[p] # "rotating"
      BY <1>1, <1>4 DEF Log_TypeOK, InWrite
    <3> QED
      BY <3>1, <1>2, <1>3, <1>4, <2>2, ClosedInOrder DEF OpenFails
  <2> QED
    BY <1>4, <2>1, <2>2
<1>5. CASE Move(p, TRUE)
  BY <1>5 DEF Move
<1>6. CASE Reopen(p, FALSE)
  <2>1. /\ at[p] = "opening" /\ handle[p] # NoFile /\ at' = [at EXCEPT ![p] = "appending"]
        /\ OpenLog(p) /\ UNCHANGED <<moved, lines, misses, cuts>>
    BY <1>1, <1>6 DEF Reopen, InWrite
  <2> QED
    BY <2>1, <1>3, OpenedInOrder
<1>7. CASE Reopen(p, TRUE)
  <2>1. at[p] = "opening"
    BY <1>7 DEF Reopen
  <2>2. moved' = [moved EXCEPT ![p] = 0]
    BY <1>1, <1>7, <2>1 DEF Log_TypeOK, InWrite, Reopen
  <2> QED
    BY <1>2, <1>3, <1>7, <2>1, <2>2, ClosedInOrder DEF Reopen, OpenFails
<1>8. CASE CloseLog(p)
  BY <1>2, <1>3, <1>8, ClosedInOrder DEF CloseLog
<1> QED
  BY <1>3, <1>4, <1>5, <1>6, <1>7, <1>8, BegunInOrder, MovedInOrder, WrittenInOrder DEF LogStep

\* At first all levels are 0.
LEMMA InitInOrder == Init => InOrder
<1> SUFFICES ASSUME Init PROVE InOrder
  OBVIOUS
<1>1. /\ dir = [g \in Generations |-> NoFile] /\ handle = [p \in Procs |-> NoFile]
      /\ at = [p \in Procs |-> "idle"] /\ lines = 0 /\ cuts = 0
  BY DEF Init, LogInit
<1>2. PICK u \in Levels : \A g \in 0..(Keep + 1) : u[g] = 0
  <2>1. [g \in 0..(Keep + 1) |-> 0] \in Levels
    BY DEF Levels
  <2> QED
    BY <2>1
<1>3. /\ 0 \in 0..(Keep + 1) /\ 1 \in 0..(Keep + 1) /\ Full \in Nat
      /\ \A g \in Generations : g \in 0..(Keep + 1) /\ g + 1 \in 0..(Keep + 1)
      /\ 1..(Keep + 1) \subseteq 0..(Keep + 1) /\ 2..(Keep + 1) \subseteq 1..(Keep + 1)
  BY LogConstants
<1>4. Laid(u)
  <2>1. \A g \in Generations : Text(g) = <<>> /\ Len(<<>>) = 0
    BY <1>1 DEF Text
  <2>2. \A g \in Generations : Len(Text(g)) = u[g] - u[g + 1]
    BY <2>1, <1>2, <1>3
  <2>3. 1..0 = {}
    OBVIOUS
  <2> QED
    BY <2>1, <2>2, <2>3, <1>1, <1>2, <1>3 DEF Laid
<1>5. \A g \in 1..(Keep + 1) : ~Holds(u, g)
  <2> SUFFICES ASSUME NEW g \in 1..(Keep + 1) PROVE ~Holds(u, g)
    OBVIOUS
  <2>1. g # Keep + 1 => g + 1 \in 0..(Keep + 1) /\ g \in 0..(Keep + 1)
    BY LogConstants
  <2> QED
    BY <2>1, <1>2, <1>3 DEF Holds
<1>6. Above(u)
  BY <1>1, <1>2, <1>3, <1>5 DEF Above
<1>7. Alone
  BY <1>1 DEF Alone
<1> QED
  BY <1>4, <1>6, <1>7 DEF InOrder

\* While one process at a time writes the log and renames work, the files hold
\* the lines in order, and what the rotations keep is never crowded out.
THEOREM OrderInvariance == Spec => [](~disturbed => InOrder)
<1> DEFINE Good == ~disturbed => InOrder
<1>1. IInv /\ LogIInv /\ NotYetOpen /\ Good /\ [Next]_vars => Good'
  <2> SUFFICES ASSUME IInv, LogIInv, NotYetOpen, Good, [Next]_vars, ~disturbed' PROVE InOrder'
    OBVIOUS
  <2>1. ASSUME UNCHANGED logVars PROVE InOrder'
    <3>1. UNCHANGED <<dir, content, handle, at, moved, lines, cuts, disturbed>>
      BY <2>1 DEF logVars
    <3>2. PICK u \in Levels : Laid(u) /\ Above(u)
      BY <3>1 DEF InOrder
    <3>3. Laid(u)' /\ Above(u)'
      BY <3>1, <3>2, SameLevels DEF Text, Above, Holds, Depth, Passed
    <3>4. Alone'
      BY <3>1 DEF InOrder, Alone
    <3> QED
      BY <3>3, <3>4 DEF InOrder
  <2>2. ASSUME NEW p \in Procs, LogStep(p) PROVE InOrder'
    BY <2>2, InOrderStep
  <2>3. StartsOne
    BY DEF IInv
  <2> QED
    BY <2>1, <2>2, <2>3, LogSteps
<1>2. Init => Good
  BY InitInOrder
<1> QED
  BY <1>1, <1>2, Invariance, LogInvariance, PTL DEF Spec

\* A set of numbers has a least one.
LEMMA LeastNat == ASSUME NEW S \in SUBSET Nat, S # {} PROVE \E m \in S : \A n \in S : m <= n
<1> DEFINE R == OpToRel(<, Nat)
<1>1. IsWellFoundedOn(R, Nat)
  BY NatLessThanWellFounded
<1>2. \A x, y \in Nat : x < y => <<x, y>> \in R
  BY DEF OpToRel
<1> HIDE DEF R
<1>3. PICK m \in S : \A n \in S : ~(<<n, m>> \in R)
  BY <1>1, WFMin
<1>4. \A n \in S : ~(n < m)
  BY <1>2, <1>3
<1> QED
  BY <1>3, <1>4

\* What Laid says of the levels and of the lines in a generation.
LEMMA LaidOut ==
  ASSUME Log_TypeOK, NEW u \in Levels, Laid(u)
  PROVE  /\ \A g \in 0..(Keep + 1) : u[g] \in Nat
         /\ \A g, h \in 0..(Keep + 1) : g <= h => u[h] <= u[g]
         /\ u[0] = lines /\ lines \in Nat /\ Keep \in Nat
         /\ 0 \in 0..(Keep + 1) /\ Keep + 1 \in 0..(Keep + 1)
         /\ \A g \in Generations :
              /\ g \in 0..(Keep + 1) /\ g + 1 \in 0..(Keep + 1) /\ 0 <= g /\ g + 1 <= Keep + 1
              /\ DOMAIN Text(g) = 1..(u[g] - u[g + 1])
              /\ \A i \in DOMAIN Text(g) : Text(g)[i] = u[g + 1] + i
<1>1. /\ \A g \in 0..(Keep + 1) : u[g] \in Nat
      /\ \A g, h \in 0..(Keep + 1) : g <= h => u[h] <= u[g]
      /\ u[0] = lines
  BY DEF Laid, Levels
<1>2. /\ lines \in Nat /\ Keep \in Nat
      /\ 0 \in 0..(Keep + 1) /\ Keep + 1 \in 0..(Keep + 1)
      /\ \A g \in Generations : g \in 0..(Keep + 1) /\ g + 1 \in 0..(Keep + 1) /\ 0 <= g /\ g + 1 <= Keep + 1
  BY LogConstants DEF Log_TypeOK
<1>3. ASSUME NEW g \in Generations
      PROVE  /\ DOMAIN Text(g) = 1..(u[g] - u[g + 1])
             /\ \A i \in DOMAIN Text(g) : Text(g)[i] = u[g + 1] + i
  <2>1. DOMAIN Text(g) = 1..Len(Text(g))
    BY TextType
  <2>2. /\ Len(Text(g)) = u[g] - u[g + 1]
        /\ \A i \in 1..Len(Text(g)) : Text(g)[i] = u[g + 1] + i
    BY DEF Laid
  <2> QED
    BY <2>1, <2>2
<1> QED
  BY <1>1, <1>2, <1>3

\* What the generations hold together: every line after those that are lost.
LEMMA KeptLines ==
  ASSUME Log_TypeOK, NEW u \in Levels, Laid(u)
  PROVE  u[Keep + 1] \in 0..lines /\ Kept = (u[Keep + 1] + 1)..lines
<1>1. /\ \A g \in 0..(Keep + 1) : u[g] \in Nat
      /\ \A g, h \in 0..(Keep + 1) : g <= h => u[h] <= u[g]
      /\ u[0] = lines /\ lines \in Nat /\ Keep \in Nat
      /\ 0 \in 0..(Keep + 1) /\ Keep + 1 \in 0..(Keep + 1)
      /\ \A g \in Generations : g \in 0..(Keep + 1) /\ g + 1 \in 0..(Keep + 1) /\ 0 <= g /\ g + 1 <= Keep + 1
  BY LaidOut
<1>2. \A g \in Generations :
        /\ DOMAIN Text(g) = 1..(u[g] - u[g + 1])
        /\ \A i \in 1..(u[g] - u[g + 1]) : Text(g)[i] = u[g + 1] + i
  BY LaidOut
<1>3. ASSUME NEW l \in Kept PROVE l \in (u[Keep + 1] + 1)..lines
  <2>1. PICK g \in Generations : \E i \in DOMAIN Text(g) : l = Text(g)[i]
    BY <1>3 DEF Kept
  <2>2. PICK i \in 1..(u[g] - u[g + 1]) : l = u[g + 1] + i
    BY <2>1, <1>2
  <2>3. /\ u[Keep + 1] <= u[g + 1] /\ u[g] <= u[0]
        /\ u[g] \in Nat /\ u[g + 1] \in Nat /\ u[Keep + 1] \in Nat
    BY <1>1
  <2> QED
    BY <2>2, <2>3, <1>1
<1>4. ASSUME NEW l \in (u[Keep + 1] + 1)..lines PROVE l \in Kept
  <2> DEFINE S == {g \in 0..(Keep + 1) : u[g] < l}
  <2>1. S \in SUBSET Nat /\ Keep + 1 \in S
    BY <1>1, <1>4
  <2>2. PICK m \in S : \A n \in S : m <= n
    BY <2>1, LeastNat
  <2>3. m # 0 /\ m \in 0..(Keep + 1) /\ u[m] < l /\ u[m] \in Nat
    BY <2>2, <1>1, <1>4
  <2>4. m - 1 \in Generations /\ (m - 1) + 1 = m /\ m - 1 \in 0..(Keep + 1) /\ ~(m <= m - 1)
    BY <2>3, LogConstants
  <2>5. ~(u[m - 1] < l) /\ u[m - 1] \in Nat
    BY <2>2, <2>4, <1>1
  <2>6. l \in Nat /\ l - u[m] \in 1..(u[m - 1] - u[m]) /\ u[m] + (l - u[m]) = l
    BY <2>3, <2>5, <1>1, <1>4
  <2>7. l - u[m] \in DOMAIN Text(m - 1) /\ Text(m - 1)[l - u[m]] = l
    BY <2>4, <2>6, <1>2
  <2> QED
    BY <2>4, <2>7 DEF Kept
<1>5. u[Keep + 1] \in 0..lines
  <2>1. u[Keep + 1] <= u[0]
    BY <1>1
  <2> QED
    BY <2>1, <1>1
<1>6. Kept = (u[Keep + 1] + 1)..lines
  <2> DEFINE tail == (u[Keep + 1] + 1)..lines
  <2> HIDE DEF tail
  <2>1. (\A l \in Kept : l \in tail) /\ (\A l \in tail : l \in Kept)
    BY <1>3, <1>4 DEF tail
  <2> QED
    BY <2>1 DEF tail
<1> QED
  BY <1>5, <1>6

\* The files read in order, oldest generation first, are the last lines written,
\* with none missing and none out of place, wherever in a rotation the daemon
\* died (log.rs:45-82).
THEOREM NoGapsCorrect == Spec => []NoGaps
<1>1. LogIInv /\ (~disturbed => InOrder) => NoGaps
  <2> SUFFICES ASSUME Log_TypeOK, ~disturbed, InOrder
               PROVE  /\ \E lost \in 0..lines : Kept = (lost + 1)..lines
                      /\ \A g \in Generations : \A i, j \in DOMAIN Text(g) :
                           i < j => Text(g)[i] < Text(g)[j]
                      /\ \A g, h \in Generations : h < g =>
                           \A i \in DOMAIN Text(g), j \in DOMAIN Text(h) : Text(g)[i] < Text(h)[j]
    BY DEF NoGaps, LogIInv
  <2>1. PICK u \in Levels : Laid(u)
    BY DEF InOrder
  <2>2. /\ \A g \in 0..(Keep + 1) : u[g] \in Nat
        /\ \A g, h \in 0..(Keep + 1) : g <= h => u[h] <= u[g]
    BY <2>1, LaidOut
  <2>6. \A g \in Generations :
          /\ g \in 0..(Keep + 1) /\ g + 1 \in 0..(Keep + 1) /\ g \in Nat
          /\ \A i \in DOMAIN Text(g) :
               i \in 1..(u[g] - u[g + 1]) /\ i \in Nat /\ Text(g)[i] = u[g + 1] + i
    <3>1. ASSUME NEW g \in Generations
          PROVE  /\ g \in 0..(Keep + 1) /\ g + 1 \in 0..(Keep + 1) /\ g \in Nat
                 /\ DOMAIN Text(g) = 1..(u[g] - u[g + 1])
                 /\ \A i \in DOMAIN Text(g) : Text(g)[i] = u[g + 1] + i
      BY <2>1, LaidOut, LogConstants
    <3>2. ASSUME NEW g \in Generations, NEW i \in DOMAIN Text(g)
          PROVE  i \in 1..(u[g] - u[g + 1]) /\ i \in Nat /\ Text(g)[i] = u[g + 1] + i
      <4>1. u[g] \in Nat /\ u[g + 1] \in Nat /\ i \in 1..(u[g] - u[g + 1])
        BY <3>1, <3>2, <2>2
      <4> QED
        BY <4>1, <3>1, <3>2
    <3> QED
      BY <3>1, <3>2
  <2>3. \E lost \in 0..lines : Kept = (lost + 1)..lines
    BY <2>1, KeptLines
  <2>4. ASSUME NEW g \in Generations, NEW i \in DOMAIN Text(g), NEW j \in DOMAIN Text(g), i < j
        PROVE  Text(g)[i] < Text(g)[j]
    <3>1. /\ Text(g)[i] = u[g + 1] + i /\ Text(g)[j] = u[g + 1] + j
          /\ u[g + 1] \in Nat /\ i \in Nat /\ j \in Nat
      BY <2>2, <2>4, <2>6
    <3> QED
      BY <3>1, <2>4
  <2>5. ASSUME NEW g \in Generations, NEW h \in Generations, h < g,
               NEW i \in DOMAIN Text(g), NEW j \in DOMAIN Text(h)
        PROVE  Text(g)[i] < Text(h)[j]
    <3>1. /\ Text(g)[i] = u[g + 1] + i /\ i \in 1..(u[g] - u[g + 1]) /\ u[g + 1] \in Nat /\ u[g] \in Nat
          /\ Text(h)[j] = u[h + 1] + j /\ j \in 1..(u[h] - u[h + 1]) /\ u[h + 1] \in Nat /\ u[h] \in Nat
      BY <2>2, <2>5, <2>6
    <3>2. h + 1 <= g /\ g \in 0..(Keep + 1) /\ h + 1 \in 0..(Keep + 1)
      BY <2>5, <2>6
    <3>3. u[g] <= u[h + 1]
      BY <3>2, <2>2
    <3> QED
      BY <3>1, <3>3
  <2> QED
    BY <2>3, <2>4, <2>5
<1> QED
  BY <1>1, LogInvariance, OrderInvariance, PTL

\* A rotation costs the oldest generation and no other: what is gone is as far
\* back as Keep full files reach, but for the rotations a death cut short, and
\* one full file even then (log.rs:45-82).
THEOREM NewestKeptCorrect == Spec => []NewestKept
<1>1. LogIInv /\ (~disturbed => InOrder) => NewestKept
  <2> SUFFICES ASSUME Log_TypeOK, ~disturbed, InOrder, NEW l \in 1..lines \ Kept
               PROVE  l + Full <= lines /\ l + Full * Keep <= lines + Full * cuts
    BY DEF NewestKept, LogIInv
  <2> DEFINE e == Keep + 1
             deep == Full * Keep
             cost == Full * cuts
  <2>1. PICK u \in Levels : Laid(u) /\ Above(u)
    BY DEF InOrder
  <2>2. /\ u[e] \in 0..lines /\ Kept = (u[e] + 1)..lines
        /\ lines \in Nat /\ u[0] = lines
    BY <2>1, KeptLines DEF Laid, Log_TypeOK
  <2>3. l <= u[e] /\ u[e] > 0 /\ l \in Nat
    BY <2>2
  <2>4. Holds(u, e)
    BY <2>3 DEF Holds
  <2>5. e \in 1..(Keep + 1) /\ e \in 2..(Keep + 1) /\ Depth(e) = deep
    <3>1. e - 1 = Keep
      BY LogConstants
    <3> QED
      BY <3>1, LogConstants DEF Depth
  <2>6. u[e] + Full <= u[0] /\ u[e] + deep <= u[0] + cost
    BY <2>1, <2>4, <2>5 DEF Above
  <2>7. deep \in Nat /\ cost \in Nat /\ Full \in Nat
    BY Depths, LogConstants DEF Log_TypeOK
  <2> HIDE DEF e, deep, cost
  <2>8. l + Full <= lines /\ l + deep <= lines + cost
    BY <2>2, <2>3, <2>6, <2>7
  <2> QED
    BY <2>8 DEF deep, cost
<1> QED
  BY <1>1, LogInvariance, OrderInvariance, PTL
=============================================================================
