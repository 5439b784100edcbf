------------------------------ MODULE Session ------------------------------
(***************************************************************************)
(* The daemon's session and the threads that share it (wingsvd main.rs).   *)
(*                                                                         *)
(* main() accepts a connection and gives it a thread running serve().  A   *)
(* thread resolves who its peer is, counts itself when the peer is the     *)
(* app, then reads, dispatches and answers one request at a time until the *)
(* peer is gone, and uncounts itself.  Session is behind one Mutex that is *)
(* taken per step and never across a read or a write, so every action      *)
(* below that touches the session is one critical section, and what        *)
(* happens between two of them (packages.list, socket reads and writes, a  *)
(* client that dies) interleaves freely.                                   *)
(*                                                                         *)
(* What apply() and clear() do to the kernel is in Routing; how children   *)
(* live and die is in Children.  Here an apply succeeds or fails, and the  *)
(* child table is its size.                                                *)
(***************************************************************************)
EXTENDS Naturals, FiniteSets

CONSTANTS
  Conns,       \* connection slots: one serve() thread each
  Uids,        \* uids a peer process can have, Root among them
  Root,        \* uid 0: the module's web ui and CLI
  NoUid,       \* packages.list does not name the app (or cannot be read)
  Specs,       \* RoutingSpecs the app sends
  NoSpec,      \* session.spec is None
  MaxInbox,    \* bound: requests a client has in flight on one connection
  MaxChildren  \* bound: children the daemon runs at a time

ASSUME SessionAssumption ==
  /\ IsFiniteSet(Conns)
  /\ Root \in Uids
  /\ NoUid \notin Uids
  /\ NoSpec \notin Specs
  /\ MaxInbox \in Nat \ {0}
  /\ MaxChildren \in Nat

VARIABLES
  up,          \* the daemon process is alive and listening
  appUid,      \* what packages.list says of the app right now
  pc,          \* pc[c]: where thread c is in serve()
  uid,         \* uid[c]: SO_PEERCRED of the peer
  isApp,       \* isApp[c]: serve()'s local is_app
  open,        \* open[c]: the peer still holds its end
  inbox,       \* inbox[c]: how many frames it has sent that are not read yet
  spec,        \* Session.spec
  carved,      \* which of forwarded_redirect / forwarded_exclusion are Some
  orphaned,    \* Session.orphaned
  children,    \* number of entries in Session.children
  appClients   \* Session.app_clients

threads == <<pc, uid, isApp, open, inbox>>
session == <<spec, carved, orphaned, children, appClients>>
vars == <<up, appUid, threads, session>>

CarveOuts == {"redirect", "exclusion"}

\* `wingsvd status` and `wingsvd stop` are the only root clients there are.
CliRequests == {"state", "clear"}

PCs == {"free", "accepted", "joining", "reading", "handling", "writing", "leaving"}
\* Threads that have run `app_clients += 1` and not yet `-= 1`.
Counted == {c \in Conns : isApp[c] /\ pc[c] \in {"reading", "handling", "writing", "leaving"}}

Session_TypeOK ==
  /\ up \in BOOLEAN
  /\ appUid \in (Uids \ {Root}) \cup {NoUid}
  /\ pc \in [Conns -> PCs]
  /\ uid \in [Conns -> Uids]
  /\ isApp \in [Conns -> BOOLEAN]
  /\ open \in [Conns -> BOOLEAN]
  /\ inbox \in [Conns -> Nat]
  /\ spec \in Specs \cup {NoSpec}
  /\ carved \in SUBSET CarveOuts
  /\ orphaned \in BOOLEAN
  /\ children \in Nat
  /\ appClients \in Nat

EmptySession ==
  /\ spec = NoSpec
  /\ carved = {}
  /\ orphaned = FALSE
  /\ children = 0
  /\ appClients = 0

NoConnections ==
  /\ pc = [c \in Conns |-> "free"]
  /\ isApp = [c \in Conns |-> FALSE]
  /\ open = [c \in Conns |-> FALSE]
  /\ inbox = [c \in Conns |-> 0]

Init ==
  /\ up = TRUE
  /\ appUid \in (Uids \ {Root}) \cup {NoUid}
  /\ uid = [c \in Conns |-> Root]
  /\ NoConnections
  /\ EmptySession
-----------------------------------------------------------------------------
(***************************************************************************)
(* The peers: app, CLI and strangers.  They connect, send frames without   *)
(* waiting for answers, and go away at any moment, unread frames or not.   *)
(* What a frame asks for is settled when it is handled.                    *)
(***************************************************************************)
Connect(c, u) ==
  /\ up /\ pc[c] = "free"
  /\ pc' = [pc EXCEPT ![c] = "accepted"]
  /\ uid' = [uid EXCEPT ![c] = u]
  /\ open' = [open EXCEPT ![c] = TRUE]
  /\ UNCHANGED <<up, appUid, isApp, inbox, session>>

Send(c) ==
  /\ open[c] /\ inbox[c] < MaxInbox
  /\ inbox' = [inbox EXCEPT ![c] = @ + 1]
  /\ UNCHANGED <<up, appUid, pc, uid, isApp, open, session>>

HangUp(c) ==
  /\ open[c]
  /\ open' = [open EXCEPT ![c] = FALSE]
  /\ UNCHANGED <<up, appUid, pc, uid, isApp, inbox, session>>

\* Installing, removing or reinstalling the app rewrites packages.list.
Reinstall(u) ==
  /\ u # appUid
  /\ appUid' = u
  /\ UNCHANGED <<up, threads, session>>
-----------------------------------------------------------------------------
(***************************************************************************)
(* serve(): one thread per connection.                                     *)
(***************************************************************************)
Goto(c, p) == pc' = [pc EXCEPT ![c] = p]

\* The stream is dropped and the slot is free again.
Drop(c) ==
  /\ Goto(c, "free")
  /\ uid' = [uid EXCEPT ![c] = Root]
  /\ isApp' = [isApp EXCEPT ![c] = FALSE]
  /\ open' = [open EXCEPT ![c] = FALSE]
  /\ inbox' = [inbox EXCEPT ![c] = 0]

\* Mutant: one client at a time, the rest wait for their turn.
AdmitSerially(c) ==
  /\ pc[c] = "accepted" /\ \A d \in Conns : pc[d] \in {"free", "accepted"}
  /\ \/ uid[c] = appUid /\ isApp' = [isApp EXCEPT ![c] = TRUE] /\ Goto(c, "joining")
     \/ uid[c] # appUid /\ UNCHANGED isApp /\ Goto(c, IF uid[c] = Root THEN "reading" ELSE "leaving")
  /\ UNCHANGED <<up, appUid, uid, open, inbox, session>>

\* Mutant: whoever connects is let in.
AdmitAnyone(c) ==
  /\ pc[c] = "accepted"
  /\ isApp' = [isApp EXCEPT ![c] = uid[c] = appUid]
  /\ Goto(c, IF isApp'[c] THEN "joining" ELSE "reading")
  /\ UNCHANGED <<up, appUid, uid, open, inbox, session>>

\* peer_uid() and packages::app_uid(): the database is read here, once, with
\* no lock held.
Admit(c) ==
  /\ pc[c] = "accepted"
  /\ \/ /\ uid[c] = appUid
        /\ isApp' = [isApp EXCEPT ![c] = TRUE]
        /\ Goto(c, "joining")
        /\ UNCHANGED <<uid, open, inbox>>
     \/ /\ uid[c] # appUid /\ uid[c] = Root
        /\ Goto(c, "reading")
        /\ UNCHANGED <<uid, isApp, open, inbox>>
     \/ /\ uid[c] # appUid /\ uid[c] # Root
        /\ Drop(c)
  /\ UNCHANGED <<up, appUid, session>>

\* Mutant: the returning app is counted, its session stays orphaned.
JoinKeepsFlag(c) ==
  /\ pc[c] = "joining"
  /\ appClients' = appClients + 1
  /\ Goto(c, "reading")
  /\ UNCHANGED <<up, appUid, uid, isApp, open, inbox, spec, carved, orphaned, children>>

\* The app is back for a session that outlived it.
Join(c) ==
  /\ pc[c] = "joining"
  /\ appClients' = appClients + 1
  /\ orphaned' = (orphaned /\ spec = NoSpec)
  /\ Goto(c, "reading")
  /\ UNCHANGED <<up, appUid, uid, isApp, open, inbox, spec, carved, children>>

\* read_frame() and decode: a frame, one that does not decode, or end of
\* stream once everything the peer sent has been read.
Read(c) ==
  /\ pc[c] = "reading"
  /\ \/ /\ inbox[c] > 0
        /\ inbox' = [inbox EXCEPT ![c] = @ - 1]
        /\ Goto(c, "handling") \/ Goto(c, "leaving")
     \/ /\ inbox[c] = 0 /\ ~open[c]
        /\ Goto(c, "leaving")
        /\ UNCHANGED inbox
  /\ UNCHANGED <<up, appUid, uid, isApp, open, session>>

\* Mutant: a failed write returns instead of breaking out of the loop.
WriteErrorReturns(c) ==
  /\ pc[c] = "writing"
  /\ \/ open[c] /\ Goto(c, "reading") /\ UNCHANGED <<uid, isApp, open, inbox>>
     \/ Drop(c)
  /\ UNCHANGED <<up, appUid, session>>

\* write_frame() fails once the peer has closed, and on a reply over
\* MAX_FRAME_SIZE: the thread stops reading, whatever is still queued.
Write(c) ==
  /\ pc[c] = "writing"
  /\ \/ open[c] /\ Goto(c, "reading")
     \/ Goto(c, "leaving")
  /\ UNCHANGED <<up, appUid, uid, isApp, open, inbox, session>>

\* Mutant: any app client that goes orphans the session.
LeaveAlwaysOrphans(c) ==
  /\ pc[c] = "leaving"
  /\ Drop(c)
  /\ appClients' = IF isApp[c] /\ appClients > 0 THEN appClients - 1 ELSE appClients
  /\ orphaned' = (orphaned \/ (isApp[c] /\ spec # NoSpec))
  /\ UNCHANGED <<up, appUid, spec, carved, children>>

\* Mutant: the thread ends without giving its count back.
LeaveUncounted(c) ==
  /\ pc[c] = "leaving"
  /\ Drop(c)
  /\ UNCHANGED <<up, appUid, session>>

\* Mutant: the web ui's threads give back a count they never took.
LeaveUncountsRoot(c) ==
  /\ pc[c] = "leaving"
  /\ Drop(c)
  /\ appClients' = appClients - 1
  /\ orphaned' = (orphaned \/ (appClients' = 0 /\ spec # NoSpec))
  /\ UNCHANGED <<up, appUid, spec, carved, children>>

\* The end of serve(): only the last app client to go orphans the session.
Leave(c) ==
  /\ pc[c] = "leaving"
  /\ Drop(c)
  /\ appClients' = IF isApp[c] /\ appClients > 0 THEN appClients - 1 ELSE appClients
  /\ orphaned' = (orphaned \/ (isApp[c] /\ appClients' = 0 /\ spec # NoSpec))
  /\ UNCHANGED <<up, appUid, spec, carved, children>>
-----------------------------------------------------------------------------
(***************************************************************************)
(* dispatch(): the whole command under the session lock.                   *)
(***************************************************************************)
Handling(c, op) ==
  /\ pc[c] = "handling"
  /\ uid[c] = Root => op \in CliRequests
  /\ Goto(c, "writing")
  /\ UNCHANGED <<up, appUid, uid, isApp, open, inbox>>

\* routing::apply() may fail; `?` then returns before the session is touched.
ApplyRouting(c) ==
  /\ Handling(c, "apply")
  /\ \/ spec' \in Specs /\ orphaned' = FALSE
     \/ UNCHANGED <<spec, orphaned>>
  /\ UNCHANGED <<carved, children, appClients>>

ClearRouting(c) ==
  /\ Handling(c, "clear")
  /\ spec' = NoSpec /\ carved' = {} /\ children' = 0 /\ orphaned' = FALSE
  /\ UNCHANGED appClients

\* ApplyForwardedRedirect and ApplyForwardedExclusion: an empty interface set
\* forgets the carve-out, any other one is remembered.
ApplyForwarded(c) ==
  /\ Handling(c, "carve")
  /\ \E which \in CarveOuts : carved' \in {carved \cup {which}, carved \ {which}}
  /\ UNCHANGED <<spec, orphaned, children, appClients>>

\* snapshot() forgets the children found dead; the rest of the reply is read.
SessionState(c) ==
  /\ Handling(c, "state")
  /\ children' \in 0..children
  /\ UNCHANGED <<spec, carved, orphaned, appClients>>

SpawnChild(c) ==
  /\ Handling(c, "spawn")
  /\ children < MaxChildren /\ children' = children + 1
  /\ UNCHANGED <<spec, carved, orphaned, appClients>>

KillChild(c) ==
  /\ Handling(c, "kill")
  /\ children > 0 /\ children' = children - 1
  /\ UNCHANGED <<spec, carved, orphaned, appClients>>

\* Hello, ReadCounters and ReadNetDev, and every command that is refused before
\* its first effect: no command, no spec, a spawn or a kill that fails.
ReadOnly(c) == Handling(c, "read") /\ UNCHANGED session

Dispatch(c) ==
  \/ ApplyRouting(c) \/ ClearRouting(c) \/ ApplyForwarded(c) \/ SessionState(c)
  \/ SpawnChild(c) \/ KillChild(c) \/ ReadOnly(c)
-----------------------------------------------------------------------------
(***************************************************************************)
(* The process: killed or aborted at any point, and brought back by        *)
(* service.sh with an empty Session.  Whatever was in the kernel stays.    *)
(***************************************************************************)
Crash ==
  /\ up /\ up' = FALSE
  /\ pc' = [c \in Conns |-> "free"]
  /\ uid' = [c \in Conns |-> Root]
  /\ isApp' = [c \in Conns |-> FALSE]
  /\ open' = [c \in Conns |-> FALSE]
  /\ inbox' = [c \in Conns |-> 0]
  /\ spec' = NoSpec /\ carved' = {} /\ orphaned' = FALSE
  /\ children' = 0 /\ appClients' = 0
  /\ UNCHANGED appUid

Restart == ~up /\ up' = TRUE /\ UNCHANGED <<appUid, threads, session>>

Serve(c) == Admit(c) \/ Join(c) \/ Read(c) \/ Dispatch(c) \/ Write(c) \/ Leave(c)

Peer(c) ==
  \/ \E u \in Uids : Connect(c, u)
  \/ Send(c) \/ HangUp(c)

Next ==
  \/ \E c \in Conns : Peer(c) \/ Serve(c)
  \/ \E u \in (Uids \ {Root}) \cup {NoUid} : Reinstall(u)
  \/ Crash \/ Restart

Spec == Init /\ [][Next]_vars

\* A thread takes its next step (std's Mutex is held for one step at a time
\* and the kernel schedules every thread); service.sh loops forever.
Fairness == WF_vars(Restart) /\ \A c \in Conns : WF_vars(Serve(c))
FairSpec == Spec /\ Fairness
-----------------------------------------------------------------------------
(***************************************************************************)
(* Properties.                                                             *)
(***************************************************************************)

\* The two facts the web ui and the returning app decide by come apart only
\* as documented: a session is marked orphaned exactly when routing is
\* recorded and no app client is counted, however connections overlap, die
\* with requests unread, or a late end-of-stream of an old app process is
\* handled after its successor has joined (main.rs serve(), dispatch()).
OrphanedExactly == orphaned <=> (spec # NoSpec /\ appClients = 0)

\* app_clients is the number of serve() threads that have joined and not
\* left: no path out of the read loop skips the decrement or does it twice.
ClientsCounted == appClients = Cardinality(Counted)

\* A live app peer: it holds its end of a connection.
AppPeer(c) == open[c] /\ uid[c] # Root

\* Once every app process is gone its session ends up marked orphaned, even
\* if it died with requests in flight: the end of stream is always noticed
\* (main.rs serve(), the tail after the read loop).
AppGoneIsNoticed ==
  (spec # NoSpec /\ \A c \in Conns : ~AppPeer(c))
    ~> (orphaned \/ spec = NoSpec \/ \E c \in Conns : AppPeer(c))

\* The app is never kept waiting or locked out by an old uid: a connection
\* whose uid is the one packages.list names gets counted, unless it hangs up
\* or the app is reinstalled before it was looked at, or the daemon dies
\* (packages.rs app_uid(), one thread per client in main()).
AppIsAdmitted ==
  \A c \in Conns :
    (pc[c] = "accepted" /\ uid[c] = appUid)
      ~> \/ c \in Counted
         \/ pc[c] \in {"accepted", "joining"} /\ ~open[c]
         \/ pc[c] = "accepted" /\ uid[c] # appUid
         \/ ~up

\* Past the door there are only the app and root, and a thread that will give
\* a count back at the end is exactly one that serves the app: is_app and the
\* uid stay in step for the whole life of the connection, reinstalls of the
\* app included (serve(), main.rs:149-165 and 202-206).
Authenticated ==
  \A c \in Conns :
    /\ isApp[c] => uid[c] # Root
    /\ pc[c] = "joining" => isApp[c]
    /\ pc[c] \in {"free", "accepted"} => ~isApp[c]
    /\ pc[c] \in {"reading", "handling", "writing", "leaving"} => (isApp[c] \/ uid[c] = Root)

\* What the daemon promises its clients, with the app's attachments as a set
\* instead of a counter and a flag.
Contract ==
  INSTANCE SessionContract WITH
    owners <- Counted,
    status <- [active |-> spec # NoSpec, orphaned |-> orphaned, connected |-> appClients > 0]

\* Every step of the daemon is a step of the contract or invisible in it.
ImplementsContract == Contract!Spec
=============================================================================
