---------------------------- MODULE RotatingLog ----------------------------
(***************************************************************************)
(* The log file of the daemon (wingsvd log.rs).                            *)
(*                                                                         *)
(* A process opens wingsvd.log once and appends a line at a time; a full   *)
(* file is rotated first, wingsvd.log.2 to .3, .1 to .2, the log to .1,    *)
(* and opened anew.  Every step of that is a system call of its own, so    *)
(* the process can die between any two, any rename can fail, and a second  *)
(* process that has the file open does the same in between.  A file is     *)
(* told from its name: renaming leaves it open where it is open.           *)
(***************************************************************************)
EXTENDS Naturals, Sequences, FiniteSets

CONSTANTS
  Procs,     \* processes that run the daemon binary
  Keep,      \* generations kept besides the log itself
  Full,      \* lines that make a file MAX_BYTES long
  Room,      \* lines the disk has room for, ever
  NoFile     \* no such name, or the log is not open

ASSUME RotatingLogAssumption ==
  Keep \in Nat \ {0} /\ Full \in Nat \ {0} /\ Room \in Nat /\ IsFiniteSet(Procs)

Files == 1..(Keep + 1 + Cardinality(Procs))
Generations == 0..Keep  \* 0 is wingsvd.log, g is wingsvd.log.g

VARIABLES
  dir,      \* dir[g]: the file that has the name of generation g
  content,  \* content[f]: the lines of a file
  handle,   \* handle[p]: the file p appends to
  at,       \* at[p]: where p is in write()
  moved,    \* moved[p]: how many steps of rotate() it has done
  lines,    \* lines ever written
  misses,   \* renames of the log itself that failed
  disturbed,\* a rename has failed, or two processes have had the log open
  cuts      \* rotations that a death cut short before any of that

logVars == <<dir, content, handle, at, moved, lines, misses, cuts, disturbed>>

InUse == {dir[g] : g \in Generations} \cup {handle[p] : p \in Procs}
\* A file that is created.
NewFile == CHOOSE f \in Files : f \notin InUse

LogInit ==
  /\ dir = [g \in Generations |-> NoFile] /\ content = [f \in Files |-> <<>>]
  /\ handle = [p \in Procs |-> NoFile]
  /\ at = [p \in Procs |-> "idle"] /\ moved = [p \in Procs |-> 0]
  /\ lines = 0 /\ misses = 0 /\ cuts = 0 /\ disturbed = FALSE
-----------------------------------------------------------------------------
\* Mutant: the file is emptied when it is opened.
OpenTruncated(p) ==
  /\ LET f == IF dir[0] # NoFile THEN dir[0] ELSE NewFile
     IN  /\ dir' = [dir EXCEPT ![0] = f]
         /\ content' = [content EXCEPT ![f] = <<>>]
         /\ handle' = [handle EXCEPT ![p] = f]
  /\ disturbed' = (disturbed \/ \E q \in Procs \ {p} : handle[q] # NoFile)

\* open(create, append): the file of that name, or a new one.
OpenLog(p) ==
  /\ LET f == IF dir[0] # NoFile THEN dir[0] ELSE NewFile
     IN  /\ dir' = [dir EXCEPT ![0] = f]
         /\ content' = [content EXCEPT ![f] = IF dir[0] = NoFile THEN <<>> ELSE @]
         /\ handle' = [handle EXCEPT ![p] = f]
  /\ disturbed' = (disturbed \/ \E q \in Procs \ {p} : handle[q] # NoFile)

\* A process that could not open the log keeps quiet for as long as it lives.
OpenFails(p) ==
  /\ handle' = [handle EXCEPT ![p] = NoFile]
  /\ UNCHANGED <<dir, content, disturbed>>

\* Mutant: a file has to be more than full.
BeginLate(p) ==
  /\ at[p] = "idle" /\ handle[p] # NoFile
  /\ at' = [at EXCEPT ![p] = IF Len(content[handle[p]]) > Full THEN "rotating" ELSE "appending"]
  /\ UNCHANGED <<dir, content, handle, moved, lines, misses, cuts, disturbed>>

\* write(): the size of the file that is open, wherever its name is by now.
Begin(p) ==
  /\ at[p] = "idle" /\ handle[p] # NoFile
  /\ at' = [at EXCEPT ![p] = IF Len(content[handle[p]]) >= Full THEN "rotating" ELSE "appending"]
  /\ UNCHANGED <<dir, content, handle, moved, lines, misses, cuts, disturbed>>

\* Mutant: youngest first.
TurnUpwards(i) == IF i = 0 THEN Keep ELSE i - 1

\* rotate() takes the oldest generation first.
Turn(i) == Keep - i

\* remove_file() of the oldest; a rename of every other one, over what has
\* the next name.  A file that is not there is passed over.
Move(p, fails) ==
  /\ at[p] = "rotating"
  /\ LET g == Turn(moved[p])
     IN  /\ dir' = IF fails \/ dir[g] = NoFile THEN dir
                   ELSE [h \in Generations |->
                          IF h = g THEN NoFile ELSE IF h = g + 1 THEN dir[g] ELSE dir[h]]
         /\ fails => dir[g] # NoFile
         /\ misses' = IF fails /\ g = 0 THEN misses + 1 ELSE misses
  /\ disturbed' = (disturbed \/ fails)
  /\ moved' = [moved EXCEPT ![p] = (@ + 1) % (Keep + 1)]
  /\ at' = [at EXCEPT ![p] = IF moved[p] = Keep THEN "opening" ELSE @]
  /\ UNCHANGED <<content, handle, lines, cuts>>

\* Opened anew, or the log is over for this process.
Reopen(p, fails) ==
  /\ at[p] = "opening"
  /\ IF fails THEN OpenFails(p) ELSE OpenLog(p)
  /\ at' = [at EXCEPT ![p] = IF fails THEN "idle" ELSE "appending"]
  /\ UNCHANGED <<moved, lines, misses, cuts>>

\* write_all(); on a full disk the line is lost and nobody is told.
WriteLine(p) ==
  /\ at[p] = "appending" /\ at' = [at EXCEPT ![p] = "idle"]
  /\ IF lines < Room
     THEN /\ lines' = lines + 1
          /\ content' = [content EXCEPT ![handle[p]] = Append(@, lines + 1)]
     ELSE UNCHANGED <<lines, content>>
  /\ UNCHANGED <<dir, handle, moved, misses, cuts, disturbed>>

\* The process is gone, in the middle of whatever it was at.
CloseLog(p) ==
  /\ handle' = [handle EXCEPT ![p] = NoFile]
  /\ at' = [at EXCEPT ![p] = "idle"] /\ moved' = [moved EXCEPT ![p] = 0]
  /\ cuts' = IF at[p] = "rotating" /\ ~disturbed THEN cuts + 1 ELSE cuts
  /\ UNCHANGED <<dir, content, lines, misses, disturbed>>
-----------------------------------------------------------------------------
(***************************************************************************)
(* Properties.                                                             *)
(***************************************************************************)
\* What a reader finds in a generation, and in all of them.
Text(g) == IF dir[g] = NoFile THEN <<>> ELSE content[dir[g]]
Kept == UNION {{Text(g)[i] : i \in DOMAIN Text(g)} : g \in Generations}

\* With one process at a time and renames that work, the files read in order,
\* oldest generation first, are the last lines written, with none missing and
\* none out of place, through every rotation and wherever in one the daemon
\* died (log.rs:45-82).
NoGaps ==
  ~disturbed =>
    /\ \E lost \in 0..lines : Kept = (lost + 1)..lines
    /\ \A g \in Generations : \A i, j \in DOMAIN Text(g) : i < j => Text(g)[i] < Text(g)[j]
    /\ \A g, h \in Generations : h < g =>
         \A i \in DOMAIN Text(g), j \in DOMAIN Text(h) : Text(g)[i] < Text(h)[j]

\* A rotation costs the oldest generation and no other: Keep files of lines are
\* always there, one less for each rotation that a death cut short, and what
\* the newest file held even then.
NewestKept ==
  ~disturbed =>
    \A l \in 1..lines \ Kept :
      l + Full <= lines /\ l + Full * Keep <= lines + Full * cuts

\* log.rs:7 "it can never grow without bound": a file is at most one line per
\* other process over its size, and one for each time the log itself could not
\* be moved out of the way.
Bounded ==
  \A f \in InUse \ {NoFile} : Len(content[f]) <= Full + Cardinality(Procs) - 1 + misses
=============================================================================
