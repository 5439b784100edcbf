# wingsvd in TLA+

`wingsvd` is the root helper daemon of the WINGS V app: a small Rust program
that owns the phone's VPN routing so that it outlives the app Android likes to
kill. This directory holds TLA+ models of it, the TLC runs that check them on
small instances, and TLAPS proofs of what matters most for every instance.
References like `main.rs:206` are to `wingsvd/src/`.

Check a run with `tlc -config X.cfg MCModule` (the runs and their modules are in
`PROJECT.json`), the proofs with `tlapm XProofs.tla`.

## The system

| component | state | operations |
|---|---|---|
| **Session and serve threads** (`main.rs`) | one `Session` behind a `Mutex`: recorded routing spec, recorded carve-outs, `orphaned`, `children`, `app_clients`; one thread per connection | accept, authenticate, count in, read, dispatch, answer, count out |
| **Root routing** (`routing.rs` `apply`, `clear`, `reassert_upstream_routes`) | ip rules, routes, iptables chains in the kernel | a fixed sequence of `ip`/`iptables`/`ndc` commands per request |
| **Forwarded-client carve-outs** (`routing.rs:262-456`) | two iptables chains and the jumps to them | apply and clear of each, clear of both |
| **Children** (`children.rs`) | table child id -> process | spawn, kill, kill_all, snapshot |
| **Netlink monitor and reassert** (`main.rs:368-422`, `netlink.rs`, `routing.rs:242-256`) | a thread, a socket with a bounded buffer | wait for a change, sleep 700 ms, rewrite the upstream table of an ownerless session |
| **Netlink parsing** (`netlink.rs:169-431`) | - | walk messages and attributes, parse a dump |
| **Wire framing** (`wire.rs`) | - | read and write one length-prefixed frame |
| **App uid lookup** (`packages.rs`) | `packages.list`, the system's | look the app up, once per connection |
| **CLI** (`cli.rs`) and **web ui** (`index.html`) | - | `status` and `stop` over the same socket |
| **Supervision** (`service.sh`, `main.rs:86-131`, `logln!`) | the shell loop, the log pipe, the socket name | run the daemon, wait, run it again; open, bind, announce |
| **Log** (`log.rs`) | the log and three rotated generations | append, rotate |

How they interact. Every client (the app, or root through the CLI) holds a
connection to an abstract socket; each has a thread. A thread takes the session
lock to count itself in, once per request, and to count itself out, never across
a read or a write. A request calls into routing or children while holding the
lock. The monitor thread shares the same lock: once to list the tables it must
ignore, once for the whole of a reassert. The kernel's state is shared with the
app's own su path, which uses the same numbers and chain names. When the daemon
dies, its session is lost and the kernel's state, and its children, stay. Its
stderr is a pipe to `log`; `service.sh` goes on when both are gone. An instance
somebody starts by hand opens and writes the same log before the exclusive
socket name turns it away.

What is hard about it:

- **Overlap of app processes.** Android kills the app and starts it again; the
  new process can be counted before the end of the old one's stream is read.
- **Death anywhere.** Of the app (unread requests, failed writes), and of the
  daemon between two commands of a twenty-command sequence.
- **Commands that fail silently.** Nearly every command's status is ignored;
  the order of commands has to make up for it.
- **A thread that listens to itself.** The monitor's own writes come back on the
  socket it waits on, while the session it was told to ignore changes.
- **Decisions taken early.** The uid is read before the lock, the ignore list
  before a wait of days, the burst slept off before the reassert.
- **Partial everything on the wire and in the file.** Short reads and writes,
  streams cut in the middle of a length, dumps the network changes under,
  rotations cut between two renames.
- **Processes and pids.** Children exit on their own and pids are reused;
  `kill()` waits with the lock held.

What makes each component correct:

- Session: the count is exact, the orphaned flag means "recorded and nobody
  there", nobody but app and root gets in, the end of the app is always noticed.
- Routing: an acknowledged apply leaves exactly its own session whatever it
  started from; nothing stacks; no crash point of an apply or a clear steers
  traffic into an empty table, as long as the request has an IPv4 route; a clear
  that had a spec leaves nothing. (A reassert does pass through an empty table.)
- Carve-outs: a copy costs two timeouts in one handler, a chain is never hooked
  half-built, and what is on record is torn down where it was put.
- Children: the table is exactly the set of the daemon's processes; an id never
  comes to mean another process; a teardown ends with every child dead.
- Monitor: it never writes while an app is counted, a handover behind an absent
  app is mirrored, and it comes to rest. A rewrite that is not followed by
  another leaves the mirror equal to the main table.
- The daemon as a whole: a handler of many commands is one step to every other
  client and to the monitor.
- Netlink parsing: no walk leaves its buffer, skips an item or stands still.
- Wire: frames are neither split, merged, skipped nor reordered; a call ends.
- Log: rotation loses the oldest lines and no others, and the files stay small.
- Supervision: one instance at a time serves, and always one again.

## The modules

| module | models | role |
|---|---|---|
| `Session` | `main.rs` `main`, `serve`, `dispatch` | one action per critical section or blocking call of a thread |
| `SessionContract` | the session state of `rootd.proto` | abstract: a set of attached owners and a status |
| `Kernel` | `ip`, `iptables`, `ndc` and the kernel (external) | a bag of items and what each command may turn it into |
| `Routing` | `routing.rs` `apply`, `clear`, `reassert_upstream_routes`, and their callers in `main.rs` | one action per command; extends `Kernel` |
| `CarveOut` | `routing.rs` carve-outs and their dispatch arms | the same |
| `Children` | `children.rs` and its dispatch arms | one action per system call that can block or change the process table |
| `Monitor` | `spawn_netlink_monitor` and what it calls, `wait_for_change` | one action per step of the thread; clients and network around it |
| `Reassert` | `reassert_upstream_routes`, `default_routes`, `dump_default_routes`, `parse_default_route` | the rewriting itself, entry by entry of a dump and route by route |
| `NetlinkWalk` | the loops over messages and attributes | one action per item, over any lengths |
| `Daemon` | the Mutex, and who takes it for how long | composes `Session` and `Monitor` in one state |
| `Wire` | `read_frame`, `write_frame`, the loop of `serve`, `call` in `cli.rs` | both ends of a connection, byte by byte |
| `RequestReply` | what a connection is for | abstract: requests in order, one answer each |
| `RotatingLog` | `log.rs` | one action per system call of a write |
| `Supervision` | `service.sh`, `main` up to the accept loop, `logln!` | extends `RotatingLog` with the processes that write it |
| `SessionProofs`, `CarveOutProofs`, `ReassertProofs`, `DaemonProofs`, `WireProofs`, `SupervisionProofs` | - | theorems about the module they extend |
| `NetlinkProofs` | - | theorems about `Monitor` and `NetlinkWalk` |
| `HandlerProofs` | - | theorems about `Routing` and `Children` |
| `MC*` | - | instances for TLC |

**Session.** `pc[c]` is where thread `c` is in `serve()`: `accepted` (before the
uid lookup), `joining` (before the count), `reading`, `handling` (request read,
lock not yet taken), `writing`, `leaving` (after the loop). `Admit` to `Leave`
are the stretches between two points where something else can run. `Dispatch`
has one disjunct per command; the effect of a command on the kernel or the
process table is one step here (success or failure) and is opened up in the
other modules. `inbox[c]` counts frames sent and not read: a peer may hang up with
requests unread, which are still read and handled until an answer cannot be
written. An answer over the frame limit fails too, with the peer still there
(`Write`). What a frame asks for is settled when it is handled; `ReadOnly` stands
for every command without effect. Root's requests are the two the CLI sends
(`cli.rs:79-91`). A failing `SO_PEERCRED` is not modelled: the thread would drop
the connection as it does a stranger's.

**SessionContract.** What the app and the web ui can rely on, without threads:
owners attach and detach, a status changes with them. `Session` implements it
with `owners` the set of counted threads and `status` computed from the spec, the
flag and the counter.

**Kernel, Routing, CarveOut.** The kernel is a bag: a second `rule add` of the same rule is
refused, a second rule on one priority is not; `rule del pref` removes one of them, any one;
`route add` refuses a route that is there and depends on its device; a chain is only deleted
when empty and unreferenced; an `iptables -A` or `-I` always adds. Nondeterminism covers what
the commands leave open. A handler is its commands and how many of them it has run (`commands`,
`ran`), so that a crash, or anything else, can come between any two. Commands whose failure ends
`apply()` are marked `must`. The refusal of a uid beyond the priority block is a `must` command
that always fails. Anything with a route in it may be refused, for the device it names may be
gone (`Gone`); the other quiet commands (rules, marks, flushes) fail only when the kernel has a
reason to refuse them, which is an assumption: `run_quiet` would not notice an `ip` or
`iptables` that failed for want of memory or of a lock, and neither `RulesLeadSomewhere` nor
`AppliedIsWhole` would survive it. What the specs are is stated as two assumptions: `FixedHalf`,
numbers and chain names that are the same in every spec and do not collide (`rootd.proto:78-80`
has them travel so that nobody keeps a copy), and `VariableHalf`, the types of the rest, that a
spec names the chain it wants filled, and that what the app left over su fitted its block. A
spec may have no IPv4 route and may list an app twice; the daemon takes both. `BeginReassert` is
the monitor's handler: it takes what the two dumps are going to give from `Dumps`, an empty list
for one that fails. The handlers hold the session lock throughout, so no two of them overlap;
the app's su path may have left a whole session (`LeftBy`) before the first one. `CarveOut` adds
the xtables-lock timeout, after which a command has done nothing, and the app's tproxy, which
creates and deletes the chains the exclusion may hang in: each request names one, and two may
differ. Three of its variables only record what the properties are about: no command has timed
out (`flawless`), in how many handlers two have (`doubles`), and whether an exclusion has moved
to another pre-chain and left a jump in the old one (`astray`). A blank interface name is a
command that is passed over; that a list names no interface twice is the app's part
(`CarveOutAssumption`): the daemon would add its rules twice.

**Children.** `proc` is the pid table: alive, killed, zombie for children of
this daemon; lost for those of a dead one; other for the rest of the device. A
serial number tells processes in the same pid apart. `kill()` is three steps
(out of the table and SIGKILL; the process dies; `wait()` returns) under the lock,
which is what `Unlocked` guards. A client drops its handles when the daemon
dies, because its connection does. Which binaries may be started is a spawn that
is refused, and a refused spawn changes nothing.

**Monitor.** One default per table stands for the default routes of both
families. `job` is the apply or clear that holds the lock over two steps, the
flush of the table (or the taking of the spec) and what follows. A reassert is three
steps: flush, dump, add; a dump the network changed under may come to anything,
and the change's message is then still to be read. A write that changes nothing
notifies nobody. `owed` is a history variable: set by a change while a session is
recorded and no app is counted, settled when the mirror is right, the app is
back, the session is gone, or a dump fails (best effort by `netlink.rs:132-135`).
Of the two tables a spec puts on the ignore list (`main.rs:401-404`) only the upstream one is
here: the tproxy table is written by `apply()` and `clear()` alone, next to the other.

**Reassert.** Opens that reassert up: both families, a dump as a series of
datagrams the kernel prepares when the last is taken (it goes by how many entries
it has shown, so entries repeat or are missed when the table changes), entries of
other tables and prefixes around the defaults, the interface name looked up when
the entry is read (`netlink.rs:333`), routes added one by one and refused for a
taken metric or a device that is gone. A route with neither a device nor a
gateway is none; one with a gateway alone is refused, as `ip` finds no device for
it either. `Receive` is the `recv()`, `Parse` one message of what it returned, so the
network may change between two entries of one datagram (`buf`); `Others` are the
entries a dump can show that are no defaults of the main table. A route is put into
the table, or taken out of it, by position: the kernel keeps equal metrics in the order
they came in, and a dump is in that order. `news` stands for the monitor's socket.

**NetlinkWalk.** One walk for messages and attributes alike (`Header` is 16 or
4 bytes in the code, the alignment 4): items have whatever length the buffer claims,
the walk ends where the code's guards end it, at an item of interest, or at the
end of the buffer.

**Daemon.** Every action is an action of `Session` and of `Monitor` at once, or
of one with the other's variables unchanged, plus `lock`: who holds the Mutex. Guards that
go with the statement's end take it for one step; `dispatch()` holds it over
`BeginApply`/`EndApply` and `BeginClear`/`EndClear`, the monitor from `Wake` to
`LastRoute`. `spec` is `Monitor`'s table and `appClients > 0` its `app`. To
`Session` a clear takes effect at its end, though the field is taken at its
beginning: that is the substitution in `Served`. Left to the parts:
clients here wait for their answer, there are no `Reinstall`, carve-outs, children or
`LinkEvent`, and the network does not change while the daemon is down (the
restarted monitor starts from whatever main table there is in any case).

**Wire.** A stream is where the frames its writer has begun stand, their sizes, and how many
bytes were written and read; a reader takes for a length whatever stands where it looks, so that
a reader out of step would show. A frame is refused before its first byte when it is too large.
`Window` lets a client ask ahead; then both sockets must hold a frame (`WireAssumption`):
otherwise both sides could wait for each other to read. The frames of the app and the CLI are
far below both the limit and what a socket holds. `Wire` implements `RequestReply`.

**RotatingLog, Supervision.** A file is told from its name, since renaming leaves
it open where it is open, and a file that is neither named nor open is free to be
created again; lines are numbers. A step of `rotate()` is a removal or a rename
together with the `exists()` before it, and the size is looked at together with
the line that is due. `Supervision` adds what starts and ends the processes: the
pipeline of `service.sh`, an instance started by hand, bind, `eprintln!` (which panics
without a reader), kills, and a child that outlives the daemon.

## Findings and known divergences

Two runs end in a counterexample to something the sources say of themselves;
`PROJECT.json` quotes the lines: after a restart a clear removes nothing, because
the numbers to sweep are in the lost spec (`RoutingRestart`); a failed apply
leaves the old spec on record although its rules are swept (`RoutingFailedApply`).

The models also disagree with the sources in places that have no run of their
own; the properties of the passing runs state what does hold there, and their
comments name the exception:

- `main.rs:348-349` has the exclusion's jump "removed from the same place it was
  inserted", and a teardown does look where the record says (`TornDown`, with two
  names). But an exclusion that names another pre-chain than the last clears only
  the new one (`routing.rs:370`): the old jump stays, the chain cannot be deleted
  any more (`-X` is refused), and while the chain is rebuilt the old jump leads into
  the unfinished half (`HookedIsWhole`). `astray` marks these behaviours.
- `routing.rs:258-261` says a re-apply "cannot stack a second copy". It can, when two
  commands of one handler time out on the xtables lock: the teardown's `-F` and the
  one behind `-N` for an entry, the `-D` and the `-C` or second `-D` for a jump. One
  timeout is never enough, and a further copy needs a further such handler:
  `CopiesCostTwoTimeouts`.
- A request without IPv4 routes is accepted (`routing.rs:81-96`) and its uid rules are
  added over an empty table. `RulesLeadSomewhere` allows that and nothing like it.
- A request that lists an app twice has it marked twice (`routing.rs:142-160`), which is
  harmless and the one exception in `NothingStacks`.
- A reassert empties the upstream table under the rules that lead to it
  (`routing.rs:244`). A daemon that dies there, a dump that fails or a device that is
  gone leaves the table empty: after a death until the app's next apply, otherwise until the
  next change of the network. `RulesLeadSomewhere` allows a reassert that, for its own table only.
- `log.rs:6-7` promises a log that cannot "grow without bound". When a rename
  fails, lines go on being appended, so a log that can never be renamed grows by a
  line per write; `Bounded` counts the failed rotations (`misses`).

More that a reader of the code should know, where the code promises nothing else
or says itself that it gives up:

- A receive overflow ends the monitor for the life of the daemon
  (`main.rs:381`, `netlink.rs:115-120`); `HandoverHealsWhileWatched` excuses it by name.
- A change consumed while the dying app was still counted is mirrored by
  nobody until the next change (`main.rs:415`).
- The clean slate of an apply is drawn from the new spec (`routing.rs:203`,
  `:213`, `:222`): an optional part the old one had and the new one has not stays.
  `AppliedIsWhole` allows exactly that and nothing else.
- Children and carve-outs without a routing spec are never marked orphaned
  (`main.rs:207`), and the web ui offers no stop for them.
- A redirect to port 0 is recorded as if it were installed (`main.rs:275`), which
  harms nothing.
- Out of file descriptors, `accept()` fails in a loop without a pause
  (`main.rs:135`); out of threads, the spawn panics (`main.rs:133`).
- `uninstall.sh` kills the daemon once, and the loop of `service.sh` brings it back
  until the next boot.

## The runs

| run | instance | shows |
|---|---|---|
| `Session` | 2 connections, root and two uids that are or are not the app's, reinstalls, 1 spec, every command, 1 request in flight, 1 child (228 000 states) | `Authenticated`, `ClientsCounted`, `OrphanedExactly`, `ImplementsContract`; the app's end is noticed, a waiting app is admitted |
| `Routing` | 5 specs: everything on, every optional part off and no IPv4 route, two uplinks with the block filled to its last priority, one uid too many, one uid twice; a reassert finds no route or two that clash; any route may be refused; a su session may be there at the start (249 000) | `NothingStacks`, `RulesLeadSomewhere`, `AppliedIsWhole`, `ClearedIsEmpty` |
| `CarveOut` | 4 redirects (empty, one interface, two and a blank, port 0), 3 exclusions with two pre-chain names, two timeouts in one handler and one in any other (3.16 million) | `HookedIsWhole`, `TornDown`, `CopiesCostTwoTimeouts` |
| `Children` | 3 pids, 4 spawns | exact table, true handles, complete teardown, the lock comes back |
| `Monitor` | 2 uplinks, 2 tables, a 3-message buffer, 6 outside events, every kind of trouble | handover healed while there is a monitor, no fight, rest |
| `Reassert` | 2 interfaces, 3 routes (two of one metric, one without a gateway), a foreign default before and a subnet after them, 2 entries a datagram, 4 changes, dumps that fail (136 000) | `MirrorsMain`, a round ends |
| `NetlinkWalk` | 11 bytes, 4-byte headers, any lengths, any item wanted (20 000) | inside the buffer, a chain, nothing left behind, progress |
| `Daemon` | 2 connections, 1 app uid, 1 spec, 1 uplink, 5 events, every step of handler and reassert (509 000, symmetric connections) | who holds the lock, both refinements |
| `Wire` | bodies of 0, the largest and one too large, 3 calls, 2 ahead, sockets of 6 bytes (64 000) | in step, nothing skipped, `ImplementsRequestReply`, a call returns |
| `Supervision` | the service's process and one by hand, 2 generations, a line fills a file, 5 lines of disk, 2 troubles (1.16 million) | no gaps in the log, the newest kept, bounded, back in service |
| `RoutingRestart` | finding | after a restart a clear removes nothing |
| `RoutingFailedApply` | finding | a failed apply leaves the old spec recorded |

Bounds, and why they are enough. Two connections give every pair of an old and a new app
process, of the app and the CLI, and of either with a stranger; the proofs remove the bound for
the invariants and the contract. `MaxInbox = 1` is a client that has one request under way and
one unread; a longer queue only repeats read-handle-write. In `Routing` a spec's numbers are the
app's fixed ones, scaled down; the block of three priorities is used to its end and beyond.
Three pids under four spawns force a pid, and a freed table slot, into a second use. Six outside
events let the monitor meet a join, an apply, a leave and handovers in any order; a buffer of
three messages overflows within one reassert; in `Daemon`, where that is a matter of both
refinements only, five do. Four changes are an uplink that comes, goes, and comes back during
one round. Eleven bytes hold two items and a torn third. A largest frame of two bytes makes
every split of a header and a body possible; the limit itself, 1 MiB in the code, is a
parameter. Two generations (three in the code) are the fewest with one in the middle; two files
and a half of lines and two troubles let either process rotate, die in a rotation, and rotate
again. `MaxTimeouts` bounds the timeouts of one handler, not of a behaviour, and `MaxDoubles`
the handlers in which there are two: with one such handler every item can reach its second copy,
and with none left to spend, a third copy would show. `Dumps` holds what two dumps may give:
nothing, and two routes of which the second is refused for its metric. `MaxEvents`,
`MaxChanges`, `MaxCalls`, `MaxTrouble`, `MaxQueue`, `MaxChildren` and `MaxSpawns` are the other
bounds, and appear in guards only. `MaxQueue` applies only when the buffer may overflow; `Room`
is the disk.

`CHECK_DEADLOCK FALSE` is set where a behaviour really ends: `Monitor`, `Reassert` and
`Daemon` wait for a next event when the bounded ones are used up, a `Wire`
connection is over when both sides are gone, a walk in `NetlinkWalk` when it is through.

Type invariants are kept where a proof rests on them or where they say more than
types (`Daemon_TypeOK` relates the lock to everything else).

**Fairness.** `Session`: each serve thread (`WF` of `Serve(c)`), because it is an OS thread and
the lock is held for a single step at a time, and the restart, because `service.sh` loops.
Peers, reinstalls and crashes are never forced. `Children`: a handler that has begun goes on,
and a process that was sent SIGKILL dies; nobody is forced to exit or to ask. A process in
uninterruptible sleep could hold SIGKILL off, and with it the lock: that is the assumption
`LockComesBack` rests on. `Monitor`: the thread takes its next step and a handler its second
(`WF` of `Thread`, of `EndApply \/ EndClear`); the network and the clients are never forced.
`Reassert`: the rewriting goes on; the kernel answers a dump. `Wire`: both ends read and write
what they are at, the daemon answers, the client reads the answers it waits for; nobody is
forced to call. `Supervision`: the shell loops, and a process that is not serving gets on with
it; one that serves need not log. `Daemon` and `NetlinkWalk` check safety only and state none.

## What is proved

The theorems of an `XProofs` hold for every value of the constants, from the assumption named in
the module they are about (the sets of connections and pids are finite, placeholders are
not values of their types, bounds are naturals); where one needs more, it says so in its
`ASSUME`. Each proves one inductive invariant
`IInv`, one step per action, and takes the rest from it.

**SessionProofs.** `IInv` is `Session_TypeOK /\ Authenticated /\ ClientsCounted /\
OrphanedExactly`. The count alone is not inductive: `Leave` decrements for a thread
with `isApp`, so it must be known that such a thread was counted, which is what
`Authenticated` says of each `pc`; and the counter's subtraction only stays exact
because a counted thread makes the set of counted threads non-empty. The flag needs
the exact count for the same step: "the last one to go" is "the counter reaches
zero". `Refinement`: every step maps to a step of the contract or a stutter, using
`IInv` before and after to turn flag and counter into the contract's set of owners.

**HandlerProofs.** Of `Routing`, for any specs with one fixed half, with as many routes and uids
and as large a block as they like. Following each command by its position, as in
`CarveOutProofs`, would be hopeless for a list put together from a dozen others, so `IInv`
speaks of what a handler has *still to do*, and only of that. Behind the command that is next:
an item that must go has a command that takes it (`Going`); whatever makes the kernel refuse a
command, or would be led astray by it, is taken before it (`WayIsCleared`); what an item needs
is added before it (`Supported`); and what makes up a session is in the kernel or still comes
(`Made`). Each is a statement about all commands behind an index, so running one command weakens
it in one place, and the effect of that one command on the bag is what has to be looked at
(`IInv` adds that nothing is there twice). That the full lists have these properties is shown
once for the list `clear()` begins with and once for that of `apply()` (`ClearTakes`,
`ClearWay`, `InstallIs` and the lemmas about each section of a list). A crash or a failed
command forgets the handler and leaves items that each satisfy what is demanded when nothing
runs: one copy of each but for the marks of an app listed twice. From `IInv`, `NothingStacks`,
`AppliedIsWhole` and `ClearedIsEmpty`. `RulesLeadSomewhere` is an action property and is shown
step by step with `IInv` in front: a flush finds no rule into its table left (`ClearingLeads`),
a rule finds the route it needs, unless the request has none (`InstallingLeads`), and a reassert
writes no rule and no other table than its own (`ReassertingLeads`). A reassert keeps `IInv`
because it only adds and removes routes, and everything `IInv` asks of a route is asked of an
apply under way.

Of `Children`, `ChildIInv` is `Children_TypeOK /\ TableIsExact /\ HandlesStayTrue /\
ClearIsWhole`. A fresh id collides with no handle because ids only grow and handles
stay below them; a fresh pid is in no row because every row's process is uncollected.
`ClearIsWhole` (inside a clear, the table is what is left to kill) is what turns the
empty list at its end into an empty table, and with `TableIsExact` into
`ClearedMeansGone`, an action property.

**NetlinkProofs.** Of `Monitor`: types, and `NeverFightsTheApp`: mutual exclusion of reassert
and handlers is inductive with the types of `job` and `table`. Of `NetlinkWalk` (`WalkInv`):
items are aligned, inside the buffer, behind each other, and end where the walk stands, which is
inside too; from it no slice past the end, of an item or of the rest, no gap, nothing left
behind and, as an action property, progress by at least a header, for any buffer.

**DaemonProofs.** `IInv` is `Daemon_TypeOK` with the types of `pc` and of the counter.
`SessionRefined` and `MonitorRefined` are the two refinements, step by step: a lock that is free
means no handler and no reassert is under way, which gives each action of the parts its guard;
while it is taken the session record stays as it is, which is why a handler of two steps is one
to `Session`. With `SessionProofs` and `NetlinkProofs` this carries what is proved of the parts
over to the whole.

**ReassertProofs.** Nothing can be said of a round under which the network changes, and nothing
need be: it leaves `news` behind and another follows. So `IInv` is what the network keeps to (no
default twice, none of a device that is not there), the types, and `~news => Still`: in a round
since whose beginning nothing has happened, the first `n` entries of the dump are parsed, `buf`,
the next datagram and what the kernel has still to show are the rest, and `routes` is the
table's beginning (`Reading`); then the first `n` routes are through and `routes` is its end
(`Adding`). `Upto` says which routes the first `n` entries of a dump contain, `FirstOf` which of
the first `n` routes can be mirrored; each has a lemma for one more (`UptoNext`, `FirstNext`: a
metric is taken by a route that could be mirrored itself, the first one of it). From it
`MirrorsMain` for any routes, any datagrams and any number of changes.

**WireProofs.** Types; the frames of a stream stand in a row without a gap; only the last one
can be unfinished, while its writer is at it or has died of it; a reader is `got[s]` frames
and so many bytes into the stream, and has read nothing that is not written; the daemon has
answered what it has read before it reads on. `InStep` is part of it. `NothingSkipped`
rests on the reader's part at the end of a stream. `Refinement` maps the frames begun,
read and answered to `RequestReply`'s requests and answers, and needs to know that a frame
is whole exactly when its reader can have all of it.

**SupervisionProofs.** `OneServes`: a process is past its bind exactly while the name is its
own, so two never serve at once. `PipeIsFree`: with the daemon gone nobody holds the pipe, so
that nothing but its reader, which then reads the end, keeps `service.sh` waiting. That is the
safety half of `BackInService`. Two invariants are about the log. `LogInvariance`, whoever
writes it: types, one name per file, a free file whenever one is created, and a budget of lines
on their way into a file, which is `Bounded`. `OrderInvariance`, while one process at a time has
it open and renames work: there are *levels* `u[0] >= u[1] >= ...`, the line numbers up to which
each generation has been left behind, and the file of generation `g` is the lines from `u[g +
1]` to `u[g]`; a rotation shifts the levels, and each generation in front is full but for the
rotations that a death cut short. `NoGaps` and `NewestKept` are read off the levels.

**CarveOutProofs.** For any requests, interface lists of any length and with blanks in any
place. A handler's commands are one of five lists, and `IInv` says for each how far it is:
`Building` for one that fills a chain, `Tearing` for one or both teardowns (`Filling`,
`Emptying`, `Clearing`). The adds are a list as long as the interfaces, but only `Added`, what
its first `i` commands put in, is ever said of it, and one more is one lemma.
`CopiesCostTwoTimeoutsCorrect` is counting: a jump, and an entry of an earlier request, has two
commands against it before anything like it is added (the teardown's `-D` and the `-D` or `-C`
in front of the insert; the `-F` of the teardown and the one behind `-N`), so that one timeout
cannot save it from both and two make one copy more. That is why `IInv` bounds the copies by `1
+ doubles` (`Few`), and why `Building` takes one off that bound before the item is added again,
unless the handler has had exactly one timeout. Crashes, the app's tproxy, and any number of
handlers with a timeout each change nothing about it, as every handler begins by tearing down.
`HookedIsWholeCorrect` and `TornDownCorrect` are about behaviours without a timeout so far. With
several pre-chains `IInv` must say where the exclusion's jumps are: unless one went astray, only
where the record, or the request being worked on, says (`Recalled`). Nothing is assumed of the
number of pre-chains, of timeouts or of handlers that have them.

Only model-checked is liveness (`AppGoneIsNoticed`, `AppIsAdmitted`, `LockComesBack`,
`HandoverHealsWhileWatched`, `ComesToRest`, `RoundEnds`, `CallReturns`,
`BackInService`): the prover reaches neither fairness nor ENABLED. Every invariant, action
property and refinement of a passing run is a theorem.

## Not modelled

- Texts: log lines, JSON, `packages.list`, `/proc/net/dev`, iptables counters, the
  printed form of an address, protobuf encodings.
- `rule_priority_start + 1 + index` as u32: wrapping needs priorities no
  spec carries.
- In `Routing` only the handlers change the kernel: a network device that goes away
  takes its routes with it, and repairing that is what `Monitor` and `Reassert` are about.
- Which route strings `ip` accepts: a route is accepted or it is not.
- Limits on file descriptors and threads, and the xtables lock of other programs,
  about which any fairness would decide the property by itself.
- The scripts that build, install and remove the module; the web ui, whose stop
  button is the CLI's clear.
- `ndc network protect allow` is never undone; it is in the kernel bag and
  excluded from what a clear must remove.

## Plan

Done, in the order of what a user would lose: `Session` with its contract,
`Routing`, `CarveOut`, `Monitor` with `Reassert`, `Children`, their composition
`Daemon`, `Wire` with its protocol, `NetlinkWalk`, `Supervision` with `RotatingLog`,
and the proofs above.

What is left is of less weight: `Children` and `CarveOut` under the lock of `Daemon`.
