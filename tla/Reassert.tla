------------------------------ MODULE Reassert ------------------------------
(***************************************************************************)
(* Rewriting the upstream table of a session from the main one (wingsvd    *)
(* routing.rs reassert_upstream_routes(), netlink.rs default_routes() and  *)
(* what it calls).                                                         *)
(*                                                                         *)
(* For the monitor, which waits for news, it flushes the mirror of both    *)
(* families and then reads and copies one family after the other.  A dump  *)
(* arrives in several datagrams; the kernel prepares each one when the     *)
(* last is taken, goes by how many entries it has shown, and the network   *)
(* changes in between.  When rounds begin and who else is there is in      *)
(* Monitor; how a datagram is taken apart is in NetlinkWalk.               *)
(***************************************************************************)
EXTENDS Naturals, Sequences, FiniteSets

CONSTANTS
  Devs,        \* network interfaces
  NoDev,       \* no RTA_OIF, or one that names nothing any more
  NoVia,       \* no RTA_GATEWAY
  Routes,      \* defaults the main table can hold
  Others,   \* entries of a dump that are no defaults of the main table
  Ahead, After,\* those it shows before and after them
  Batch,       \* entries that fit a datagram
  MaxChanges,  \* bound: what happens to the network
  MayFail   \* a dump can fail

ASSUME ReassertAssumption ==
  /\ NoDev \notin Devs
  /\ \A r \in Routes : r.dev \in Devs /\ r.metric \in Nat
                        /\ r = [via |-> r.via, dev |-> r.dev, metric |-> r.metric]
  /\ \A e \in Others : e.table # "main" \/ e.dst_len # 0
  /\ Ahead \in Seq(Others) /\ After \in Seq(Others)
  /\ Batch \in Nat \ {0} /\ MaxChanges \in Nat /\ MayFail \in BOOLEAN

VARIABLES
  links,    \* the interfaces that are there
  main,     \* main[f]: the defaults of the main table, in its order
  mirror,   \* mirror[f]: the defaults in the upstream table
  news,     \* a change the monitor listens for and has not read
  pc,       \* where the rewriting is
  fam,      \* the family it is at
  datagram, \* what the next recv() returns; no entries stand for DONE
  shown,    \* entries the kernel has shown so far
  buf,      \* entries of the last datagram that are not parsed yet
  routes,   \* what is read of them, or is left of it to add
  failed,   \* failed[f]: the last dump of f came to nothing
  changes   \* how much has happened, for the bound

vars == <<links, main, mirror, news, pc, fam, datagram, shown, buf, routes, failed, changes>>
network == <<links, main, changes>>

Families == {4, 6}

\* An entry of the main table that is a default, as a dump shows it.
Entry(r) == [table |-> "main", dst_len |-> 0, via |-> r.via, dev |-> r.dev, metric |-> r.metric]
Dump(f) == Ahead \o [i \in DOMAIN main[f] |-> Entry(main[f][i])] \o After
Datagrams(f, from) ==
  LET left == Len(Dump(f)) - from
  IN  IF left <= 0 THEN {<<>>}
      ELSE {SubSeq(Dump(f), from + 1, from + n) : n \in {m \in 1..Batch : m <= left}}

Init ==
  /\ links = Devs /\ main = [f \in Families |-> <<>>]
  /\ mirror = [f \in Families |-> {}] /\ news = FALSE
  /\ pc = "waiting" /\ fam = 4 /\ datagram = <<>> /\ shown = 0
  /\ buf = <<>> /\ routes = <<>>
  /\ failed = [f \in Families |-> FALSE] /\ changes = 0
-----------------------------------------------------------------------------
(* The network. *)
Happens ==
  /\ changes < MaxChanges /\ changes' = changes + 1
  /\ news' = TRUE
  /\ UNCHANGED <<pc, fam, datagram, shown, buf, routes, failed>>

InsertAfter(s, k, r) == SubSeq(s, 1, k) \o <<r>> \o SubSeq(s, k + 1, Len(s))
RemoveAt(s, k) == SubSeq(s, 1, k - 1) \o SubSeq(s, k + 1, Len(s))
Holds(s, r) == \E i \in DOMAIN s : s[i] = r

\* Equal metrics keep the order they came in.
AddDefault(f, r) ==
  /\ Happens /\ r.dev \in links /\ ~Holds(main[f], r)
  /\ \E k \in 0..Len(main[f]) :
       /\ \A i \in DOMAIN main[f] : main[f][i].metric <= r.metric <=> i <= k
       /\ main' = [main EXCEPT ![f] = InsertAfter(@, k, r)]
  /\ UNCHANGED <<links, mirror>>

DelDefault(f, r) ==
  /\ Happens
  /\ \E k \in DOMAIN main[f] :
       /\ main[f][k] = r
       /\ main' = [main EXCEPT ![f] = RemoveAt(@, k)]
  /\ UNCHANGED <<links, mirror>>

\* s without the routes of a device, in the order they have: the one sequence
\* there is of them.
Without(s, d) ==
  LET kept == {i \in DOMAIN s : s[i].dev # d}
      n == Cardinality(kept)
      inOrder == {p \in [1..n -> kept] : \A j, k \in 1..n : j < k => p[j] < p[k]}
  IN  {[k \in 1..n |-> s[p[k]]] : p \in inOrder}

\* A device takes its routes with it, from every table.
LinkDown(d) ==
  /\ Happens /\ d \in links /\ links' = links \ {d}
  /\ \E left4 \in Without(main[4], d), left6 \in Without(main[6], d) :
       main' = [f \in Families |-> IF f = 4 THEN left4 ELSE left6]
  /\ mirror' = [f \in Families |-> {r \in mirror[f] : r.dev # d}]

LinkUp(d) ==
  /\ Happens /\ d \in Devs \ links /\ links' = links \cup {d}
  /\ UNCHANGED <<main, mirror>>
-----------------------------------------------------------------------------
(* dump_default_routes() *)

\* index_to_name(): the interface may be gone by now.
NameOf(dev) == IF dev \in links THEN dev ELSE NoDev

\* Mutant: a default is a default, whatever its table.
ParseAnyTable(e) ==
  IF e.dst_len = 0 /\ (e.via # NoVia \/ NameOf(e.dev) # NoDev)
  THEN <<[via |-> e.via, dev |-> NameOf(e.dev), metric |-> e.metric]>>
  ELSE <<>>

parse_default_route(e) ==
  IF e.table = "main" /\ e.dst_len = 0 /\ (e.via # NoVia \/ NameOf(e.dev) # NoDev)
  THEN <<[via |-> e.via, dev |-> NameOf(e.dev), metric |-> e.metric]>>
  ELSE <<>>

\* The request is sent and the first datagram made; a socket that does not
\* open or send is a dump that failed.
SendRequest ==
  /\ pc = "asking"
  /\ \/ /\ datagram' \in Datagrams(fam, 0) /\ shown' = Len(datagram')
        /\ pc' = "receiving" /\ UNCHANGED failed
     \/ /\ MayFail /\ pc' = "adding"
        /\ failed' = [failed EXCEPT ![fam] = TRUE]
        /\ UNCHANGED <<datagram, shown>>
  /\ routes' = <<>> /\ buf' = <<>>
  /\ UNCHANGED <<network, mirror, news, fam>>

\* Mutant: DONE is one more message of no interest, and recv() is called on.
ReceiveOn ==
  /\ pc = "receiving" /\ buf = <<>> /\ datagram # <<>>
  /\ buf' = datagram
  /\ datagram' \in Datagrams(fam, shown) /\ shown' = shown + Len(datagram')
  /\ UNCHANGED <<network, mirror, news, pc, fam, routes, failed>>

\* recv(): one datagram, or DONE, or an error that discards all the routes.
Receive ==
  /\ pc = "receiving" /\ buf = <<>>
  /\ \/ /\ datagram # <<>> /\ buf' = datagram
        /\ datagram' \in Datagrams(fam, shown) /\ shown' = shown + Len(datagram')
        /\ UNCHANGED <<pc, routes, failed>>
     \/ /\ datagram = <<>> /\ pc' = "adding"
        /\ UNCHANGED <<routes, datagram, shown, buf, failed>>
     \/ /\ MayFail /\ pc' = "adding" /\ routes' = <<>>
        /\ failed' = [failed EXCEPT ![fam] = TRUE]
        /\ UNCHANGED <<datagram, shown, buf>>
  /\ UNCHANGED <<network, mirror, news, fam>>

\* One message of a datagram: a route, each once.
Parse ==
  /\ pc = "receiving" /\ buf # <<>> /\ buf' = Tail(buf)
  /\ LET parsed == parse_default_route(Head(buf))
     IN  routes' = IF parsed = <<>> \/ Holds(routes, parsed[1]) THEN routes
                   ELSE routes \o parsed
  /\ UNCHANGED <<network, mirror, news, pc, fam, datagram, shown, failed>>
-----------------------------------------------------------------------------
(* reassert_upstream_routes() *)

\* The monitor has read the news.
Begin ==
  /\ pc = "waiting" /\ news /\ news' = FALSE
  /\ pc' = "flushing" /\ fam' = 4
  /\ failed' = [f \in Families |-> FALSE]
  /\ UNCHANGED <<network, mirror, datagram, shown, buf, routes>>

FlushTable ==
  /\ pc = "flushing"
  /\ mirror' = [mirror EXCEPT ![fam] = {}]
  /\ \/ fam = 4 /\ fam' = 6 /\ UNCHANGED pc
     \/ fam = 6 /\ fam' = 4 /\ pc' = "asking"
  /\ UNCHANGED <<network, news, datagram, shown, buf, routes, failed>>

\* `ip route add`: refused for a metric that is taken and for a device that is
\* not there.
AddRoute ==
  /\ pc = "adding" /\ routes # <<>>
  /\ LET r == Head(routes)
         refused == r.dev \notin links \/ \E x \in mirror[fam] : x.metric = r.metric
     IN  mirror' = IF refused THEN mirror ELSE [mirror EXCEPT ![fam] = @ \cup {r}]
  /\ routes' = Tail(routes)
  /\ UNCHANGED <<network, news, pc, fam, datagram, shown, buf, failed>>

NextFamily ==
  /\ pc = "adding" /\ routes = <<>>
  /\ \/ fam = 4 /\ fam' = 6 /\ pc' = "asking"
     \/ fam = 6 /\ pc' = "waiting" /\ UNCHANGED fam
  /\ UNCHANGED <<network, mirror, news, datagram, shown, buf, routes, failed>>

Rewrite == Begin \/ FlushTable \/ SendRequest \/ Receive \/ Parse \/ AddRoute \/ NextFamily

Change ==
  \/ \E f \in Families, r \in Routes : AddDefault(f, r) \/ DelDefault(f, r)
  \/ \E d \in Devs : LinkDown(d) \/ LinkUp(d)

Next == Rewrite \/ Change

Spec == Init /\ [][Next]_vars

\* The thread is scheduled, commands return, the kernel answers a dump.
FairSpec == Spec /\ WF_vars(Rewrite)
-----------------------------------------------------------------------------
(***************************************************************************)
(* Properties.                                                             *)
(***************************************************************************)
\* Of several defaults of one metric only the first can be mirrored.
Mirrorable(s) == {s[i] : i \in {k \in DOMAIN s : \A j \in 1..(k - 1) : s[j].metric # s[k].metric}}

\* When the monitor waits and has nothing left to read, the mirror of a
\* family is its main table: a dump the network changed under, a route that
\* could no longer be added, and an interface that went after it was read are
\* all followed by another round, and what stands in other tables is never
\* taken for the uplink.  Only a dump that failed leaves its own family, and
\* that one only, without (routing.rs:230-245, netlink.rs:132-139).
MirrorsMain ==
  (pc = "waiting" /\ ~news) => \A f \in Families :
    mirror[f] = IF failed[f] THEN {} ELSE Mirrorable(main[f])

\* A round comes to an end and gives the session lock back, however the table
\* grows and shrinks under the dump: the kernel's DONE is always seen.
RoundEnds == (pc # "waiting") ~> (pc = "waiting")
=============================================================================
