--------------------------- MODULE HandlerProofs ---------------------------
(***************************************************************************)
(* Proofs about the two handlers that outlive a single call: the commands  *)
(* of Routing and the processes of Children.  Neither uses the other.      *)
(***************************************************************************)
EXTENDS Routing, Children, SequenceTheorems, TLAPS
-----------------------------------------------------------------------------
(***************************************************************************)
(* Root routing for any specs that share their fixed half.  Each property  *)
(* is a matter of what a handler has still to do for an item: what must go *)
(* has a command before it that takes it, what stands in a command's way   *)
(* goes before it, what an item needs comes before it, and what a session  *)
(* is made of is there or comes.  That is so of the lists apply() and      *)
(* clear() begin with, and stays so as they are run.                       *)
(***************************************************************************)
\* What the handlers and the app put into the kernel.  No rule of a uid is
\* ever outside the block.
Fits(s) == {x \in Footprint(s) : x \in UidItems(s) => x.pref \in Block(s)}
Uplinks(s) == {Route(f, s.upstream_table, v, m) : f \in Families, v \in STRING, m \in Nat}
Items ==
  UNION {{Protected(s.app_uid), TunnelRule(s, 4), TunnelRule(s, 6)} \cup Fits(s) \cup Uplinks(s) : s \in Known}

Adds(c) == c.verb = "add"
Takes(c, x) == c.verb \in {"del", "flush"} /\ Matches(x, c.what)

\* Two items of which the kernel must not hold both, nor one of them twice.
SamePlace(x, y) ==
  /\ x.kind \in {"rule", "entry", "jump"} /\ y.kind = x.kind /\ ~Repeated(x)
  /\ IF x.kind = "rule" THEN x.fam = y.fam /\ x.pref = y.pref ELSE x = y

\* What must be gone before a command: a rule into a table that is flushed,
\* and what hooks in or is in a chain that is deleted.
Blocks(y, c) ==
  \/ /\ c.verb = "flush" /\ c.what.kind = "route" /\ c.what.fam = 4
     /\ y.kind = "rule" /\ y.fam = 4 /\ y.table = c.what.table
  \/ /\ c.verb = "del" /\ c.what.kind = "chain"
     /\ y.kind \in {"entry", "jump"} /\ y.fam = c.what.fam /\ y.chain = c.what.chain

\* An item of s before which there must be something else.
Needy(s, y) ==
  \/ y.kind \in {"entry", "jump"}
  \/ /\ y.kind = "rule" /\ y.fam = 4 /\ \E t \in Known : y.table \in Steered(t)
     /\ ~(y.table = s.upstream_table /\ s.ipv4_default_routes = <<>>)
Supports(x, y) ==
  IF y.kind = "rule" THEN x.kind = "route" /\ x.fam = 4 /\ x.table = y.table
  ELSE x.kind = "chain" /\ x.fam = y.fam /\ x.chain = y.chain
Ensures(c, y) == Adds(c) /\ Supports(c.what, y) /\ (c.must \/ c.what.kind = "chain")

\* Where a handler stops to clear.
Cleared == Len(clear(arg))
Installing == IF ran < Cleared THEN Cleared ELSE ran

\* A handler is one of these, and so far on.
Handler ==
  \/ cmd = "idle" /\ commands = <<>>
  \/ cmd = "clear" /\ arg = NoSpec /\ commands = <<>>
  \/ cmd = "clear" /\ arg \in Specs /\ commands = clear(arg)
  \/ cmd = "apply" /\ arg \in Specs /\ commands = apply(arg)
  \/ /\ cmd = "reassert" /\ arg \in Specs
     /\ \E r4, r6 \in Dumps : commands = reassert_upstream_routes(arg, r4, r6)
Busy == cmd \in {"apply", "clear"} /\ arg # NoSpec

Types ==
  /\ BagToSet(kernel) \subseteq Items
  /\ \A x \in BagToSet(kernel) : kernel[x] \in Nat \ {0}
  /\ spec \in Specs \cup {NoSpec}
  /\ ran \in 0..Len(commands)

\* What is in the kernel is none of the handler's business, goes, or has come.
Going == Busy =>
  \A x \in BagToSet(kernel) :
    \/ x.kind = "protected" \/ x \in TurnedOff(arg)
    \/ \E j \in (ran + 1)..Cleared : Takes(commands[j], x)
    \/ \E i \in (Cleared + 1)..ran : Adds(commands[i]) /\ commands[i].what = x

\* What is in a command's way goes before it.
WayIsCleared == Busy =>
  \A j \in (ran + 1)..Cleared : \A y \in BagToSet(kernel) :
    Blocks(y, commands[j]) => \E i \in (ran + 1)..(j - 1) : Takes(commands[i], y)

\* What an item needs comes before it.
Supported == cmd = "apply" =>
  \A j \in (Installing + 1)..Len(commands) :
    Adds(commands[j]) /\ Needy(arg, commands[j].what) =>
      \/ ran >= Cleared /\ \E x \in BagToSet(kernel) : Supports(x, commands[j].what)
      \/ \E i \in (Installing + 1)..(j - 1) : Ensures(commands[i], commands[j].what)

\* What the session is made of is there to stay, or comes, or the handler fails.
Optional(s) == UpstreamRoutes(s, 6, s.ipv6_default_routes)
Coming(y, j) ==
  \/ Adds(commands[j]) /\ commands[j].what = y
       /\ \A k \in (j + 1)..Len(commands) : ~Takes(commands[k], y)
  \/ commands[j] = Refusal
Made == cmd = "apply" =>
  \A y \in Footprint(arg) \ Optional(arg) :
    \/ /\ ran >= Cleared /\ y \in BagToSet(kernel)
       /\ \A j \in (ran + 1)..Len(commands) : ~Takes(commands[j], y)
    \/ \E j \in (Installing + 1)..Len(commands) : Coming(y, j)

IInv ==
  /\ Types /\ Handler
  /\ NothingStacks
  /\ Going /\ WayIsCleared /\ Supported /\ Made
  /\ AppliedIsWhole
-----------------------------------------------------------------------------
(* Items. *)

\* The fields of what the kernel can hold.
LEMMA Fields ==
  /\ \A f, p, e, t : LET x == Rule(f, p, e, t)
                     IN  x.kind = "rule" /\ x.fam = f /\ x.pref = p /\ x.sel = e /\ x.table = t
  /\ \A f, t, v, m : LET x == Route(f, t, v, m)
                     IN  x.kind = "route" /\ x.fam = f /\ x.table = t /\ x.via = v /\ x.metric = m
  /\ \A f, c : LET x == Chain(f, c) IN x.kind = "chain" /\ x.fam = f /\ x.chain = c
  /\ \A f, c, m : LET x == Entry(f, c, m)
                  IN  x.kind = "entry" /\ x.fam = f /\ x.chain = c /\ x.match = m
  /\ \A f, a, c : LET x == Jump(f, a, c)
                  IN  x.kind = "jump" /\ x.fam = f /\ x.at = a /\ x.chain = c
  /\ \A u : Protected(u).kind = "protected" /\ Protected(u).uid = u
BY DEF Rule, Route, Chain, Entry, Jump, Protected

\* What two specs have in common.
LEMMA InCommon ==
  ASSUME NEW s \in Known, NEW t \in Known
  PROVE  /\ s.upstream_table = t.upstream_table /\ s.tunnel_table = t.tunnel_table
         /\ Block(s) = Block(t)
         /\ \A f : TunnelRule(s, f) = TunnelRule(t, f)
         /\ DhcpRule(s) = DhcpRule(t)
         /\ s.bypass_mark_chain # NoChain /\ t.bypass_mark_chain # NoChain =>
              s.bypass_mark_chain = t.bypass_mark_chain
         /\ s.tproxy # NoTproxy /\ t.tproxy # NoTproxy =>
              LocalRoute(s) = LocalRoute(t) /\ MarkRule(s) = MarkRule(t)
<1>1. /\ s.upstream_table = t.upstream_table /\ s.tunnel_table = t.tunnel_table
      /\ s.rule_priority_start = t.rule_priority_start
      /\ s.rule_priority_end = t.rule_priority_end
      /\ s.app_tunnel_priority = t.app_tunnel_priority
      /\ s.dhcp_workaround_priority = t.dhcp_workaround_priority
      /\ NoChain \in {s.bypass_mark_chain, t.bypass_mark_chain}
           \/ s.bypass_mark_chain = t.bypass_mark_chain
      /\ NoTproxy \in {s.tproxy, t.tproxy}
           \/ /\ s.tproxy.route_table = t.tproxy.route_table
              /\ s.tproxy.rule_priority = t.tproxy.rule_priority
  BY FixedHalf
<1> QED
  BY <1>1 DEF Block, TunnelRule, DhcpRule, LocalRoute, MarkRule

\* An item is one of seven things, whichever spec one looks at it from.
IsTunnel(x, s) == \E f \in Families : x = TunnelRule(s, f)
IsUid(x, s) == \E f \in Families, p \in Block(s) : \E u : x = UidRule(s, f, p, u)
IsUpstream(x, s) == \E f \in Families : \E v, m : x = Route(f, s.upstream_table, v, m)
IsDhcp(x, s) == x = DhcpRule(s) /\ \E p \in Known : p.dhcp_workaround_enabled
IsMark(x, s) ==
  /\ s.bypass_mark_chain # NoChain => x.chain = s.bypass_mark_chain
  /\ x.chain # NoChain /\ x.chain \notin BuiltIn /\ \E p \in Known : x \in MarkItems(p)
  /\ \E f \in Families : \/ x = Chain(f, x.chain) \/ x = Jump(f, "OUTPUT", x.chain)
                         \/ \E u : x = Entry(f, x.chain, u)
IsTproxy(x, s) ==
  /\ s.tproxy # NoTproxy => x \in TproxyItems(s)
  /\ \E p \in Known : p.tproxy # NoTproxy /\ x \in {LocalRoute(p), MarkRule(p)}

\* An item of the re-marking names its own chain, one of no built-in name.
LEMMA MarkIs ==
  ASSUME NEW s \in Known, NEW x \in MarkItems(s)
  PROVE  /\ s.bypass_mark_enabled /\ x.chain = s.bypass_mark_chain
         /\ x.chain # NoChain /\ x.chain \notin BuiltIn
         /\ \E f \in Families : \/ x = Chain(f, x.chain) \/ x = Jump(f, "OUTPUT", x.chain)
                                \/ \E u : x = Entry(f, x.chain, u)
<1>1. s.bypass_mark_enabled /\ s.bypass_mark_chain # NoChain /\ s.bypass_mark_chain \notin BuiltIn
  BY VariableHalf, FixedHalf DEF MarkItems
<1>2. \E f \in Families : \/ x = Chain(f, s.bypass_mark_chain) \/ x = Jump(f, "OUTPUT", s.bypass_mark_chain)
                         \/ \E i \in DOMAIN s.bypass_uids : x = Entry(f, s.bypass_mark_chain, s.bypass_uids[i])
  BY <1>1 DEF MarkItems, MarkJump
<1>4. x.chain = s.bypass_mark_chain
  BY <1>2, Fields
<1> QED
  BY <1>1, <1>2, <1>4

\* Every item is one of the seven.
LEMMA ItemIs ==
  ASSUME NEW s \in Known, NEW x \in Items
  PROVE  \/ x.kind = "protected" \/ IsTunnel(x, s) \/ IsUid(x, s) \/ IsUpstream(x, s)
         \/ IsDhcp(x, s) \/ IsMark(x, s) \/ IsTproxy(x, s)
<1>1. PICK t \in Known :
        x \in {Protected(t.app_uid), TunnelRule(t, 4), TunnelRule(t, 6)} \cup Fits(t) \cup Uplinks(t)
  BY DEF Items
<1>0. CASE x \in Uplinks(t)
  BY <1>0, InCommon DEF Uplinks, IsUpstream
<1>2. CASE x = Protected(t.app_uid)
  BY <1>2, Fields
<1>3. CASE x \in {TunnelRule(t, 4), TunnelRule(t, 6)}
  BY <1>3, InCommon DEF IsTunnel, Families
<1>4. CASE x \in UpstreamRoutes(t, 4, t.ipv4_default_routes) \cup UpstreamRoutes(t, 6, t.ipv6_default_routes)
  BY <1>4, InCommon DEF UpstreamRoutes, IsUpstream, Families
<1>5. CASE x \in UidItems(t) /\ x \in Fits(t)
  <2>1. PICK f \in Families, i \in 0..Len(t.bypass_uids) :
          x = UidRule(t, f, t.rule_priority_start + i, Uid(t, i))
    BY <1>5 DEF UidItems
  <2>2. x.pref = t.rule_priority_start + i /\ x.pref \in Block(t)
    BY <1>5, <2>1, Fields DEF UidRule, Fits
  <2>5. UidRule(t, f, x.pref, Uid(t, i)) = UidRule(s, f, x.pref, Uid(t, i)) /\ Block(s) = Block(t)
    BY InCommon DEF UidRule
  <2> QED
    BY <2>1, <2>2, <2>5 DEF IsUid
<1>6. CASE x \in DhcpItems(t)
  BY <1>6, InCommon DEF DhcpItems, IsDhcp
<1>7. CASE x \in MarkItems(t)
  BY <1>7, MarkIs, InCommon DEF IsMark
<1>8. CASE x \in TproxyItems(t)
  <2>1. t.tproxy # NoTproxy /\ x \in {LocalRoute(t), MarkRule(t)}
    BY <1>8 DEF TproxyItems
  <2> QED
    BY <2>1, InCommon DEF TproxyItems, IsTproxy
<1> QED
  BY <1>0, <1>1, <1>2, <1>3, <1>4, <1>5, <1>6, <1>7, <1>8 DEF Fits, Footprint
-----------------------------------------------------------------------------
(* What a command does to a kernel that holds once what is not repeated. *)

Single(k) == \A x \in DOMAIN k : k[x] = 1 \/ (Repeated(x) /\ k[x] \in Nat \ {0})
OnePref(k) ==
  \A x, y \in DOMAIN k :
    x.kind = "rule" /\ y.kind = "rule" /\ x.fam = y.fam /\ x.pref = y.pref => x = y

\* A command is run on k and leaves m.
Leaves(k, c, m) == m \in After(k, c) \/ ((After(k, c) = {} \/ Gone(c)) /\ m = k)

\* Only what is in a chain may be there more than once.
LEMMA OnlyEntries ==
  /\ \A x : Repeated(x) => x.kind = "entry"
  /\ \A x, y : SamePlace(x, y) => y.kind = x.kind /\ x.kind \in {"rule", "entry", "jump"}
BY DEF Repeated, SamePlace

\* What one command leaves of a kernel that holds nothing twice: an add, a
\* flush and a del, the last where what it names is a single item.
LEMMA AddLeaves ==
  ASSUME NEW k, NEW c, Adds(c), NEW m, Leaves(k, c, m), Single(k),
         Refused(k, c.what) \/ c.what \notin DOMAIN k \/ Repeated(c.what)
  PROVE  /\ Single(m)
         /\ \/ ~Refused(k, c.what) /\ DOMAIN m = DOMAIN k \cup {c.what}
            \/ (Refused(k, c.what) \/ Gone(c)) /\ m = k /\ m \notin After(k, c)
<1> DEFINE x == c.what
<1>1. After(k, c) = {k (+) SetToBag({z}) : z \in {y \in {x} : ~Refused(k, y)}}
  BY DEF After, Adds
<1>2. CASE m \notin After(k, c)
  <2>1. m = k /\ (After(k, c) = {} \/ Gone(c))
    BY <1>2 DEF Leaves
  <2>2. After(k, c) = {} => Refused(k, x)
    BY <1>1
  <2> QED
    BY <1>2, <2>1, <2>2
<1>3. CASE m \in After(k, c)
  <2>1. ~Refused(k, x) /\ m = k (+) SetToBag({x})
    BY <1>1, <1>3
  <2>2. m = [e \in DOMAIN k \cup {x} |-> (IF e \in DOMAIN k THEN k[e] ELSE 0) + (IF e \in {x} THEN 1 ELSE 0)]
    BY <2>1 DEF SetToBag, (+)
  <2>3. DOMAIN m = DOMAIN k \cup {x}
    BY <2>2
  <2>4. ASSUME NEW e \in DOMAIN m PROVE m[e] = 1 \/ (Repeated(e) /\ m[e] \in Nat \ {0})
    <3>1. CASE e # x
      BY <2>2, <2>4, <3>1 DEF Single
    <3>2. CASE e = x /\ x \notin DOMAIN k
      BY <2>2, <3>2
    <3>3. CASE e = x /\ x \in DOMAIN k
      <4>1. Repeated(x) /\ k[x] \in Nat \ {0}
        BY <2>1, <3>3 DEF Single
      <4> QED
        BY <2>2, <3>3, <4>1
    <3> QED
      BY <3>1, <3>2, <3>3
  <2> QED
    BY <2>1, <2>3, <2>4 DEF Single
<1> QED
  BY <1>2, <1>3

\* A flush leaves everything that does not match.
LEMMA FlushLeaves ==
  ASSUME NEW k, NEW c, c.verb = "flush", NEW m, Leaves(k, c, m), Single(k)
  PROVE  Single(m) /\ \A x : x \in DOMAIN m <=> x \in DOMAIN k /\ ~Matches(x, c.what)
<1>1. After(k, c) = {[x \in BagToSet(k) \ Present(k, c.what) |-> k[x]]} /\ ~Gone(c)
  BY DEF After, Gone
<1>2. m = [x \in DOMAIN k \ {y \in DOMAIN k : Matches(y, c.what)} |-> k[x]]
  BY <1>1 DEF Leaves, BagToSet, Present
<1> QED
  BY <1>2 DEF Single

\* A del leaves everything but the one item that matches, if it is free.
LEMMA DelLeaves ==
  ASSUME NEW k, NEW c, c.verb = "del", NEW m, Leaves(k, c, m), Single(k),
         \A x, y \in DOMAIN k : Matches(x, c.what) /\ Matches(y, c.what) => x = y,
         \A x \in DOMAIN k : Matches(x, c.what) => ~Repeated(x)
  PROVE  Single(m) /\ \A x : x \in DOMAIN m <=> x \in DOMAIN k /\ ~(Matches(x, c.what) /\ ~InUse(k, x))
<1> DEFINE gone == {y \in Present(k, c.what) : ~InUse(k, y)}
<1>1. After(k, c) = {k (-) SetToBag({x}) : x \in gone} /\ ~Gone(c)
  BY DEF After, Gone
<1>2. gone = {x \in DOMAIN k : Matches(x, c.what) /\ ~InUse(k, x)}
  BY DEF Present, BagToSet
<1> HIDE DEF gone
<1>3. CASE gone = {}
  <2>1. m = k
    BY <1>1, <1>3 DEF Leaves
  <2> QED
    BY <1>2, <1>3, <2>1
<1>4. CASE gone # {}
  <2>1. PICK x \in gone : m = k (-) SetToBag({x})
    BY <1>1, <1>4 DEF Leaves
  <2>2. m = [e \in {d \in DOMAIN k : (IF d \in {x} THEN k[d] - 1 ELSE k[d]) > 0} |->
               IF e \in {x} THEN k[e] - 1 ELSE k[e]]
    BY <2>1 DEF SetToBag, (-)
  <2>3. DOMAIN m = DOMAIN k \ {x} /\ Single(m)
    <3>1. x \in DOMAIN k /\ k[x] = 1 /\ \A d \in DOMAIN k : k[d] \in Nat \ {0}
      BY <1>2 DEF Single
    <3>2. DOMAIN m = DOMAIN k \ {x} /\ \A d \in DOMAIN m : m[d] = k[d]
      BY <2>2, <3>1
    <3> QED
      BY <3>2 DEF Single
  <2>4. \A y \in gone : y = x
    BY <1>2
  <2> QED
    BY <1>2, <2>3, <2>4
<1> QED
  BY <1>3, <1>4
-----------------------------------------------------------------------------
(* Lists of commands. *)

IsList(a) == a \in Seq({a[i] : i \in DOMAIN a})

\* Indices of two lists put together.
LEMMA Joined ==
  ASSUME NEW a, NEW b, IsList(a), IsList(b)
  PROVE  /\ IsList(a \o b) /\ Len(a) \in Nat /\ Len(b) \in Nat /\ Len(a \o b) = Len(a) + Len(b)
         /\ DOMAIN a = 1..Len(a) /\ DOMAIN b = 1..Len(b) /\ DOMAIN (a \o b) = 1..(Len(a) + Len(b))
         /\ \A i \in 1..Len(a) : (a \o b)[i] = a[i]
         /\ \A i \in 1..Len(b) : (a \o b)[Len(a) + i] = b[i]
<1> DEFINE S == {a[i] : i \in DOMAIN a} \cup {b[i] : i \in DOMAIN b}
<1>1. a \in Seq(S) /\ b \in Seq(S)
  BY DEF IsList
<1> HIDE DEF S
<1>2. PICK ab : ab = a \o b
  OBVIOUS
<1>3. /\ ab \in Seq(S) /\ Len(ab) = Len(a) + Len(b)
      /\ \A i \in 1..(Len(a) + Len(b)) : ab[i] = IF i <= Len(a) THEN a[i] ELSE b[i - Len(a)]
  BY <1>1, <1>2, ConcatProperties
<1>4. Len(a) \in Nat /\ Len(b) \in Nat /\ DOMAIN a = 1..Len(a) /\ DOMAIN b = 1..Len(b)
      /\ DOMAIN ab = 1..(Len(a) + Len(b))
  BY <1>1, <1>3
<1>5. \A i \in 1..Len(b) : ab[Len(a) + i] = b[i]
  BY <1>3, <1>4
<1>6. ab \in Seq({ab[i] : i \in DOMAIN ab})
  <2>1. ab \in [1..Len(ab) -> {ab[i] : i \in DOMAIN ab}] /\ Len(ab) \in Nat
    BY <1>3, <1>4
  <2> QED
    BY <2>1
<1>7. \A i \in 1..Len(a) : ab[i] = a[i]
  BY <1>3, <1>4
<1> QED
  BY <1>2, <1>3, <1>4, <1>5, <1>6, <1>7 DEF IsList

\* A command of a list that is joined from two is one of theirs.
LEMMA JoinedAt ==
  ASSUME NEW a, NEW b, IsList(a), IsList(b), NEW j \in DOMAIN (a \o b)
  PROVE  \/ j \in 1..Len(a) /\ (a \o b)[j] = a[j]
         \/ j - Len(a) \in 1..Len(b) /\ (a \o b)[j] = b[j - Len(a)]
<1>1. CASE j <= Len(a)
  BY <1>1, Joined
<1>2. CASE j > Len(a)
  <2>1. j - Len(a) \in 1..Len(b) /\ Len(a) + (j - Len(a)) = j
    BY <1>2, Joined
  <2> QED
    BY <2>1, Joined
<1> QED
  BY <1>1, <1>2, Joined

Has(a, c) == \E i \in DOMAIN a : a[i] = c

\* A joined list has what either has.
LEMMA HasJoined ==
  ASSUME NEW a, NEW b, IsList(a), IsList(b), NEW c
  PROVE  Has(a \o b, c) <=> Has(a, c) \/ Has(b, c)
<1>1. ASSUME Has(a, c) PROVE Has(a \o b, c)
  <2>1. PICK i \in 1..Len(a) : a[i] = c
    BY <1>1, Joined DEF Has
  <2>2. i \in DOMAIN (a \o b)
    BY Joined
  <2> QED
    BY <2>1, <2>2, Joined DEF Has
<1>2. ASSUME Has(b, c) PROVE Has(a \o b, c)
  <2>1. PICK i \in 1..Len(b) : b[i] = c
    BY <1>2, Joined DEF Has
  <2>2. Len(a) + i \in DOMAIN (a \o b)
    BY Joined
  <2> QED
    BY <2>1, <2>2, Joined DEF Has
<1>3. ASSUME Has(a \o b, c) PROVE Has(a, c) \/ Has(b, c)
  BY <1>3, JoinedAt, Joined DEF Has
<1> QED
  BY <1>1, <1>2, <1>3

\* What is in the way of a command of the list, of the items in Y, goes first.
WayIn(a, Y) ==
  \A j \in DOMAIN a : \A y \in Y : Blocks(y, a[j]) => \E i \in 1..(j - 1) : Takes(a[i], y)
Untaken(a, Y) == {y \in Y : \A i \in DOMAIN a : ~Takes(a[i], y)}

\* A way is clear in a joined list if the first clears its own, and the second
\* its own of what the first leaves.
LEMMA WayJoined ==
  ASSUME NEW a, NEW b, IsList(a), IsList(b), NEW Y, WayIn(a, Y), WayIn(b, Untaken(a, Y))
  PROVE  WayIn(a \o b, Y)
<1> SUFFICES ASSUME NEW j \in DOMAIN (a \o b), NEW y \in Y, Blocks(y, (a \o b)[j])
             PROVE  \E i \in 1..(j - 1) : Takes((a \o b)[i], y)
  BY DEF WayIn
<1>1. CASE j \in 1..Len(a) /\ (a \o b)[j] = a[j]
  <2>1. PICK i \in 1..(j - 1) : Takes(a[i], y)
    BY <1>1, Joined DEF WayIn
  <2>2. i \in 1..Len(a)
    BY <1>1, Joined
  <2> QED
    BY <2>1, <2>2, Joined
<1>2. CASE j - Len(a) \in 1..Len(b) /\ (a \o b)[j] = b[j - Len(a)]
  <2>1. CASE y \in Untaken(a, Y)
    <3>1. PICK i \in 1..(j - Len(a) - 1) : Takes(b[i], y)
      BY <1>2, <2>1, Joined DEF WayIn
    <3>2. i \in 1..Len(b) /\ Len(a) + i \in 1..(j - 1) /\ (a \o b)[Len(a) + i] = b[i]
      BY <1>2, Joined
    <3> QED
      BY <3>1, <3>2
  <2>2. CASE y \notin Untaken(a, Y)
    <3>1. PICK i \in 1..Len(a) : Takes(a[i], y)
      BY <2>2, Joined DEF Untaken
    <3>2. i \in 1..(j - 1) /\ (a \o b)[i] = a[i]
      BY <1>2, Joined
    <3> QED
      BY <3>1, <3>2
  <2> QED
    BY <2>1, <2>2
<1> QED
  BY <1>1, <1>2, JoinedAt
-----------------------------------------------------------------------------
(* What patterns match. *)

\* An item is written the way its kind is.
LEMMA ItemKinds ==
  ASSUME NEW x \in Items
  PROVE  \/ \E f, p, e, t : x = Rule(f, p, e, t)
         \/ \E f, t, v, m : x = Route(f, t, v, m)
         \/ \E f, c : x = Chain(f, c)
         \/ \E f, c, m : x = Entry(f, c, m)
         \/ \E f, c : x = Jump(f, "OUTPUT", c)
         \/ \E u : x = Protected(u)
<1>1. PICK s \in Known :
        x \in {Protected(s.app_uid), TunnelRule(s, 4), TunnelRule(s, 6)} \cup Fits(s) \cup Uplinks(s)
  BY DEF Items
<1>2. CASE x = Protected(s.app_uid)
  BY <1>2
<1>3. CASE x # Protected(s.app_uid)
  <2>1. IsTunnel(x, s) => \E f, p, e, t : x = Rule(f, p, e, t)
    BY DEF IsTunnel, TunnelRule
  <2>2. IsUid(x, s) => \E f, p, e, t : x = Rule(f, p, e, t)
    BY DEF IsUid, UidRule
  <2>3. IsUpstream(x, s) => \E f, t, v, m : x = Route(f, t, v, m)
    BY DEF IsUpstream
  <2>4. IsDhcp(x, s) => \E f, p, e, t : x = Rule(f, p, e, t)
    BY DEF IsDhcp, DhcpRule
  <2>5. IsMark(x, s) => \/ \E f, c : x = Chain(f, c)
                        \/ \E f, c, m : x = Entry(f, c, m)
                        \/ \E f, c : x = Jump(f, "OUTPUT", c)
    BY DEF IsMark
  <2>6. IsTproxy(x, s) => (\E f, p, e, t : x = Rule(f, p, e, t)) \/ \E f, t, v, m : x = Route(f, t, v, m)
    BY DEF IsTproxy, LocalRoute, MarkRule
  <2>7. x.kind # "protected"
    <3>1. CASE x \in {TunnelRule(s, 4), TunnelRule(s, 6)}
      BY <3>1, Fields DEF TunnelRule
    <3>2. CASE x \in Fits(s)
      <4>1. CASE x \in UpstreamRoutes(s, 4, s.ipv4_default_routes) \cup UpstreamRoutes(s, 6, s.ipv6_default_routes)
        BY <4>1, Fields DEF UpstreamRoutes
      <4>2. CASE x \in UidItems(s)
        BY <4>2, Fields DEF UidItems, UidRule
      <4>3. CASE x \in DhcpItems(s)
        <5>1. \E f, p, e, t : x = Rule(f, p, e, t)
          BY <4>3 DEF DhcpItems, DhcpRule
        <5> QED
          BY <5>1, Fields
      <4>4. CASE x \in MarkItems(s)
        <5>1. PICK f \in Families : \/ x = Chain(f, x.chain) \/ x = Jump(f, "OUTPUT", x.chain)
                               \/ \E u : x = Entry(f, x.chain, u)
          BY <4>4, MarkIs
        <5> QED
          BY <5>1, Fields
      <4>5. CASE x \in TproxyItems(s)
        BY <4>5, Fields DEF TproxyItems, LocalRoute, MarkRule
      <4> QED
        BY <3>2, <4>1, <4>2, <4>3, <4>4, <4>5 DEF Fits, Footprint
    <3>3. CASE x \in Uplinks(s)
      BY <3>3, Fields DEF Uplinks
    <3> QED
      BY <1>1, <1>3, <3>1, <3>2, <3>3
  <2> QED
    BY <2>1, <2>2, <2>3, <2>4, <2>5, <2>6, <2>7, ItemIs
<1> QED
  BY <1>2, <1>3

\* What the patterns of the commands match among the items.
LEMMA Matching ==
  ASSUME NEW x \in Items
  PROVE  /\ \A f, p : Matches(x, [kind |-> "rule", fam |-> f, pref |-> p]) <=>
                        x.kind = "rule" /\ x.fam = f /\ x.pref = p
         /\ \A f, t : Matches(x, [kind |-> "route", fam |-> f, table |-> t]) <=>
                        x.kind = "route" /\ x.fam = f /\ x.table = t
         /\ \A f, c : Matches(x, [kind |-> "entry", fam |-> f, chain |-> c]) <=>
                        x.kind = "entry" /\ x.fam = f /\ x.chain = c
         /\ \A f, p, e, t : Matches(x, Rule(f, p, e, t)) <=> x = Rule(f, p, e, t)
         /\ \A f, c : Matches(x, Jump(f, "OUTPUT", c)) <=> x = Jump(f, "OUTPUT", c)
         /\ \A f, c : Matches(x, Chain(f, c)) <=> x = Chain(f, c)
<1> USE Fields DEF Matches
<1>1. CASE \E f, p, e, t : x = Rule(f, p, e, t)
  BY <1>1 DEF Rule, Chain, Jump
<1>2. CASE \E f, t, v, m : x = Route(f, t, v, m)
  BY <1>2 DEF Rule, Route, Chain, Jump
<1>3. CASE \E f, c : x = Chain(f, c)
  BY <1>3 DEF Rule, Chain, Jump
<1>4. CASE \E f, c, m : x = Entry(f, c, m)
  BY <1>4 DEF Rule, Chain, Jump, Entry
<1>5. CASE \E f, c : x = Jump(f, "OUTPUT", c)
  BY <1>5 DEF Rule, Chain, Jump
<1>6. CASE \E u : x = Protected(u)
  BY <1>6 DEF Rule, Chain, Jump, Protected
<1> QED
  BY <1>1, <1>2, <1>3, <1>4, <1>5, <1>6, ItemKinds

\* What the commands of routing.rs take.
LEMMA TakesWhat ==
  ASSUME NEW x \in Items
  PROVE  /\ \A f, p : Takes(rule_del_pref(f, p), x) <=> x.kind = "rule" /\ x.fam = f /\ x.pref = p
         /\ \A f, t : Takes(RouteFlush(f, t), x) <=> x.kind = "route" /\ x.fam = f /\ x.table = t
         /\ \A f, c : Takes(EntryFlush(f, c), x) <=> x.kind = "entry" /\ x.fam = f /\ x.chain = c
         /\ \A s : Takes(Del(DhcpRule(s)), x) <=> x = DhcpRule(s)
         /\ \A s, f : Takes(Del(MarkJump(s, f)), x) <=> x = MarkJump(s, f)
         /\ \A f, c : Takes(Del(Chain(f, c)), x) <=> x = Chain(f, c)
<1>0. \A p : (Takes(Del(p), x) <=> Matches(x, p)) /\ (Takes(Flush(p), x) <=> Matches(x, p))
  BY DEF Takes, Del, Flush
<1>1. \A f, p : Takes(rule_del_pref(f, p), x) <=> x.kind = "rule" /\ x.fam = f /\ x.pref = p
  BY <1>0, Matching DEF rule_del_pref
<1>2. \A f, t : Takes(RouteFlush(f, t), x) <=> x.kind = "route" /\ x.fam = f /\ x.table = t
  BY <1>0, Matching DEF RouteFlush
<1>3. \A f, c : Takes(EntryFlush(f, c), x) <=> x.kind = "entry" /\ x.fam = f /\ x.chain = c
  BY <1>0, Matching DEF EntryFlush
<1>4. \A s : Takes(Del(DhcpRule(s)), x) <=> x = DhcpRule(s)
  <2> TAKE s
  <2>1. PICK f, p, e, t : DhcpRule(s) = Rule(f, p, e, t)
    BY DEF DhcpRule
  <2>2. Matches(x, DhcpRule(s)) <=> x = DhcpRule(s)
    BY <2>1, Matching
  <2> QED
    BY <2>2, <1>0
<1>5. \A s, f : Takes(Del(MarkJump(s, f)), x) <=> x = MarkJump(s, f)
  BY <1>0, Matching DEF MarkJump
<1>6. \A f, c : Takes(Del(Chain(f, c)), x) <=> x = Chain(f, c)
  BY <1>0, Matching
<1> QED
  BY <1>1, <1>2, <1>3, <1>4, <1>5, <1>6
-----------------------------------------------------------------------------
(* The commands of clear(). *)

\* Lists written out.
LEMMA Tuples ==
  /\ \A x : ~Has(<<>>, x)
  /\ IsList(<<>>) /\ Len(<<>>) = 0
  /\ \A a : IsList(<<a>>) /\ Len(<<a>>) = 1 /\ \A x : Has(<<a>>, x) <=> x = a
  /\ \A a, b : IsList(<<a, b>>) /\ Len(<<a, b>>) = 2 /\ \A x : Has(<<a, b>>, x) <=> x \in {a, b}
  /\ \A a, b, c : /\ IsList(<<a, b, c>>) /\ Len(<<a, b, c>>) = 3
                  /\ \A x : Has(<<a, b, c>>, x) <=> x \in {a, b, c}
  /\ \A a, b, c, d : /\ IsList(<<a, b, c, d>>) /\ Len(<<a, b, c, d>>) = 4
                     /\ \A x : Has(<<a, b, c, d>>, x) <=> x \in {a, b, c, d}
BY DEF IsList, Has

\* Lists given by a function of the index.
LEMMA Listed ==
  ASSUME NEW n \in Nat, NEW a, a = [k \in 1..n |-> a[k]]
  PROVE  IsList(a) /\ Len(a) = n /\ DOMAIN a = 1..n
<1>1. a \in [1..n -> {a[k] : k \in DOMAIN a}]
  OBVIOUS
<1>2. a \in Seq({a[k] : k \in DOMAIN a})
  BY <1>1
<1> QED
  BY <1>1, <1>2 DEF IsList

\* Every k is 2 * i + 1 or 2 * i + 2: of a uid, first IPv4, then IPv6.
LEMMA Halves ==
  ASSUME NEW k \in Nat
  PROVE  /\ (2 * k) \div 2 = k /\ (2 * k + 1) \div 2 = k
         /\ (2 * k + 1) % 2 = 1 /\ (2 * k + 2) % 2 = 0 /\ k \div 2 \in Nat
         /\ k = 2 * (k \div 2) \/ k = 2 * (k \div 2) + 1
OBVIOUS

\* What the sections of clear() consist of.  The sweep: both families of
\* every priority of the block.
LEMMA SweepHas ==
  ASSUME NEW first \in Nat, NEW last \in Nat, first <= last
  PROVE  /\ IsList(Sweep(first, last))
         /\ \A c : Has(Sweep(first, last), c) <=>
                     \E f \in Families, p \in first..last : c = rule_del_pref(f, p)
<1> DEFINE n == 2 * (last + 1 - first)
           a == Sweep(first, last)
           at(k) == rule_del_pref(FamilyAt(k), first + ((k - 1) \div 2))
<1>1. n \in Nat /\ a = [k \in 1..n |-> at(k)]
  BY DEF Sweep
<1>2. IsList(a) /\ DOMAIN a = 1..n /\ \A k \in 1..n : a[k] = at(k)
  BY <1>1, Listed
<1>3. ASSUME NEW k \in 1..n PROVE FamilyAt(k) \in Families /\ first + ((k - 1) \div 2) \in first..last
  <2>1. k - 1 \in Nat /\ k - 1 < 2 * (last + 1 - first)
    OBVIOUS
  <2>2. (k - 1) \div 2 \in Nat /\ 2 * ((k - 1) \div 2) <= k - 1
    BY <2>1, Halves
  <2> QED
    BY <2>1, <2>2 DEF FamilyAt, Families
<1>4. ASSUME NEW f \in Families, NEW p \in first..last PROVE Has(a, rule_del_pref(f, p))
  <2> DEFINE q == p - first
             k == IF f = 4 THEN 2 * q + 1 ELSE 2 * q + 2
  <2>1. q \in Nat /\ q <= last - first /\ first + q = p
    OBVIOUS
  <2>2. k \in 1..n
    BY <2>1
  <2>3. FamilyAt(k) = f /\ (k - 1) \div 2 = q
    <3>1. CASE f = 4
      BY <2>1, <3>1, Halves DEF FamilyAt
    <3>2. CASE f # 4
      <4>1. f = 6 /\ k = 2 * q + 2 /\ k - 1 = 2 * q + 1
        BY <2>1, <3>2 DEF Families
      <4> QED
        BY <2>1, <4>1, Halves DEF FamilyAt
    <3> QED
      BY <3>1, <3>2
  <2> HIDE DEF k
  <2>4. a[k] = rule_del_pref(f, p)
    BY <1>2, <2>1, <2>2, <2>3
  <2> QED
    BY <1>2, <2>2, <2>4 DEF Has
<1>5. ASSUME NEW c, Has(a, c) PROVE \E f \in Families, p \in first..last : c = rule_del_pref(f, p)
  <2>1. PICK k \in 1..n : a[k] = c
    BY <1>2, <1>5 DEF Has
  <2>2. c = at(k)
    BY <1>2, <2>1
  <2> QED
    BY <1>3, <2>2
<1> QED
  BY <1>2, <1>4, <1>5

\* The app's own rules, the upstream tables and the DHCP rule.
LEMMA ClearRulesHas ==
  ASSUME NEW s \in Known
  PROVE  /\ IsList(ClearRules(s))
         /\ \A c : Has(ClearRules(s), c) <=>
              \/ \E f \in Families : c = rule_del_pref(f, s.app_tunnel_priority)
              \/ \E f \in Families : c = RouteFlush(f, s.upstream_table)
              \/ s.dhcp_workaround_enabled /\ c = Del(DhcpRule(s))
<1> DEFINE a == <<rule_del_pref(4, s.app_tunnel_priority), rule_del_pref(6, s.app_tunnel_priority),
                  RouteFlush(4, s.upstream_table), RouteFlush(6, s.upstream_table)>>
           b == When(s.dhcp_workaround_enabled, <<Del(DhcpRule(s))>>)
<1>1. IsList(a) /\ \A c : Has(a, c) <=> \/ \E f \in Families : c = rule_del_pref(f, s.app_tunnel_priority)
                                        \/ \E f \in Families : c = RouteFlush(f, s.upstream_table)
  BY Tuples DEF Families
<1>2. IsList(b) /\ \A c : Has(b, c) <=> s.dhcp_workaround_enabled /\ c = Del(DhcpRule(s))
  BY Tuples DEF When
<1> HIDE DEF a, b
<1>3. IsList(a \o b) /\ \A c : Has(a \o b, c) <=> Has(a, c) \/ Has(b, c)
  BY <1>1, <1>2, Joined, HasJoined
<1>4. ClearRules(s) = a \o b
  BY DEF a, b, ClearRules
<1> QED
  BY <1>1, <1>2, <1>3, <1>4

\* Three commands per family, if the spec names a chain.
LEMMA UnhookChainHas ==
  ASSUME NEW s \in Known
  PROVE  /\ IsList(UnhookChain(s)) /\ \A f : IsList(Unhook(s, f))
         /\ \A c : Has(UnhookChain(s), c) <=>
              /\ s.bypass_mark_chain # NoChain
              /\ \E f \in Families : c \in {Del(MarkJump(s, f)), EntryFlush(f, s.bypass_mark_chain),
                                            Del(Chain(f, s.bypass_mark_chain))}
<1>1. \A f : /\ IsList(Unhook(s, f))
             /\ \A c : Has(Unhook(s, f), c) <=>
                  c \in {Del(MarkJump(s, f)), EntryFlush(f, s.bypass_mark_chain), Del(Chain(f, s.bypass_mark_chain))}
  BY Tuples DEF Unhook
<1> DEFINE a == Unhook(s, 4) \o Unhook(s, 6)
<1>2. IsList(a) /\ \A c : Has(a, c) <=> Has(Unhook(s, 4), c) \/ Has(Unhook(s, 6), c)
  BY <1>1, Joined, HasJoined
<1>3. CASE s.bypass_mark_chain # NoChain
  <2>1. UnhookChain(s) = a
    BY <1>3 DEF UnhookChain, When
  <2> QED
    BY <1>1, <1>2, <1>3, <2>1 DEF Families
<1>4. CASE s.bypass_mark_chain = NoChain
  <2>1. UnhookChain(s) = <<>>
    BY <1>4 DEF UnhookChain, When
  <2> QED
    BY <1>1, <1>4, <2>1, Tuples
<1> QED
  BY <1>3, <1>4

\* The tproxy rule and its table, if the spec has one.
LEMMA ClearTproxyHas ==
  ASSUME NEW s \in Known
  PROVE  /\ IsList(ClearTproxy(s))
         /\ \A c : Has(ClearTproxy(s), c) <=>
              /\ s.tproxy # NoTproxy
              /\ c \in {rule_del_pref(4, s.tproxy.rule_priority), RouteFlush(4, s.tproxy.route_table)}
BY Tuples DEF ClearTproxy, When

\* clear() is its four sections and nothing else.
LEMMA ClearHas ==
  ASSUME NEW s \in Known
  PROVE  /\ IsList(clear(s)) /\ IsList(Sweep(s.rule_priority_start, s.rule_priority_end))
         /\ IsList(Sweep(s.rule_priority_start, s.rule_priority_end) \o ClearRules(s))
         /\ IsList(Sweep(s.rule_priority_start, s.rule_priority_end) \o ClearRules(s) \o UnhookChain(s))
         /\ \A c : Has(clear(s), c) <=>
              \/ Has(Sweep(s.rule_priority_start, s.rule_priority_end), c) \/ Has(ClearRules(s), c)
              \/ Has(UnhookChain(s), c) \/ Has(ClearTproxy(s), c)
<1> DEFINE S == Sweep(s.rule_priority_start, s.rule_priority_end)
           R == ClearRules(s)
           U == UnhookChain(s)
           T == ClearTproxy(s)
<1>1. IsList(S) /\ IsList(R) /\ IsList(U) /\ IsList(T)
  BY FixedHalf, SweepHas, ClearRulesHas, UnhookChainHas, ClearTproxyHas
<1> HIDE DEF S, R, U, T
<1>2. IsList(S \o R) /\ \A c : Has(S \o R, c) <=> Has(S, c) \/ Has(R, c)
  BY <1>1, Joined, HasJoined
<1>3. IsList((S \o R) \o U) /\ \A c : Has((S \o R) \o U, c) <=> Has(S \o R, c) \/ Has(U, c)
  BY <1>1, <1>2, Joined, HasJoined
<1>4. IsList(((S \o R) \o U) \o T)
      /\ \A c : Has(((S \o R) \o U) \o T, c) <=> Has((S \o R) \o U, c) \/ Has(T, c)
  BY <1>1, <1>3, Joined, HasJoined
<1>5. clear(s) = ((S \o R) \o U) \o T
  BY DEF clear, S, R, U, T
<1>6. \A c : Has(clear(s), c) <=> Has(S, c) \/ Has(R, c) \/ Has(U, c) \/ Has(T, c)
  BY <1>2, <1>3, <1>4, <1>5
<1> QED
  BY <1>1, <1>2, <1>3, <1>4, <1>5, <1>6 DEF S, R, U, T
-----------------------------------------------------------------------------
(* What clear() takes, and in which order. *)

\* Every command clear(s) is made of.
LEMMA ClearCommands ==
  ASSUME NEW s \in Known, NEW c, Has(clear(s), c)
  PROVE  \/ \E f \in Families : \E p : c = rule_del_pref(f, p)
         \/ \E f \in Families : \E t : c = RouteFlush(f, t)
         \/ c = Del(DhcpRule(s))
         \/ /\ s.bypass_mark_chain # NoChain /\ s.bypass_mark_chain \notin BuiltIn
            /\ \E f \in Families : c \in {Del(MarkJump(s, f)), EntryFlush(f, s.bypass_mark_chain),
                                          Del(Chain(f, s.bypass_mark_chain))}
<1>1. CASE Has(Sweep(s.rule_priority_start, s.rule_priority_end), c)
  BY <1>1, FixedHalf, SweepHas
<1>2. CASE Has(ClearRules(s), c)
  BY <1>2, ClearRulesHas
<1>3. CASE Has(UnhookChain(s), c)
  BY <1>3, UnhookChainHas, FixedHalf
<1>4. CASE Has(ClearTproxy(s), c)
  BY <1>4, ClearTproxyHas DEF Families
<1> QED
  BY <1>1, <1>2, <1>3, <1>4, ClearHas

\* It may not fail the handler; as a del it goes by what is there once, a
\* chain goes by its own name, a route with its table.
TakesCleanly(c) ==
  /\ ~c.must /\ c.verb \in {"del", "flush"}
  /\ \A x, y \in Items : c.verb = "del" /\ Takes(c, x) /\ Takes(c, y) =>
       \/ x = y
       \/ x.kind = "rule" /\ y.kind = "rule" /\ x.fam = y.fam /\ x.pref = y.pref
  /\ \A x \in Items : c.verb = "del" /\ Takes(c, x) => x.kind # "entry"
  /\ \A x \in Items : Takes(c, x) /\ x.kind = "chain" =>
       c.verb = "del" /\ c.what = x /\ x.chain \notin BuiltIn
  /\ \A x \in Items : Takes(c, x) /\ x.kind = "route" =>
       c.verb = "flush" /\ c.what.kind = "route" /\ c.what.fam = x.fam /\ c.what.table = x.table

\* Every command of clear() takes: a del one item, or what has one priority; a
\* route goes by a flush, a chain by its own del.
LEMMA ClearCommand ==
  ASSUME NEW s \in Known, NEW c, Has(clear(s), c)
  PROVE  TakesCleanly(c)
<1>1. CASE \E f \in Families : \E p : c = rule_del_pref(f, p)
  <2>1. PICK f, p : f \in Families /\ c = rule_del_pref(f, p)
    BY <1>1
  <2>2. ~c.must /\ c.verb = "del"
    BY <2>1 DEF rule_del_pref, Del
  <2>3. \A x \in Items : Takes(c, x) => x.kind = "rule" /\ x.fam = f /\ x.pref = p
    BY <2>1, TakesWhat
  <2> QED
    BY <2>2, <2>3 DEF TakesCleanly
<1>2. CASE \E f \in Families : \E t : c = RouteFlush(f, t)
  <2>1. PICK f, t : f \in Families /\ c = RouteFlush(f, t)
    BY <1>2
  <2>2. ~c.must /\ c.verb = "flush" /\ c.what.kind = "route" /\ c.what.fam = f /\ c.what.table = t
    BY <2>1 DEF RouteFlush, Flush
  <2>3. \A x \in Items : Takes(c, x) => x.kind = "route" /\ x.fam = f /\ x.table = t
    BY <2>1, TakesWhat
  <2> QED
    BY <2>2, <2>3 DEF TakesCleanly
<1>3. CASE c = Del(DhcpRule(s))
  <2>1. ~c.must /\ c.verb = "del"
    BY <1>3 DEF Del
  <2>2. \A x \in Items : Takes(c, x) => x = DhcpRule(s)
    BY <1>3, TakesWhat
  <2>3. PICK f, p, e, t : DhcpRule(s) = Rule(f, p, e, t)
    BY DEF DhcpRule
  <2>4. \A x \in Items : Takes(c, x) => x.kind = "rule"
    BY <2>2, <2>3, Fields
  <2> QED
    BY <2>1, <2>2, <2>4 DEF TakesCleanly
<1>4. ASSUME NEW f \in Families, c = Del(MarkJump(s, f)) PROVE TakesCleanly(c)
  <2>1. ~c.must /\ c.verb = "del"
    BY <1>4 DEF Del
  <2>2. \A x \in Items : Takes(c, x) => x = MarkJump(s, f) /\ x.kind = "jump"
    BY <1>4, TakesWhat, Fields DEF MarkJump
  <2> QED
    BY <2>1, <2>2 DEF TakesCleanly
<1>5. ASSUME NEW f \in Families, c = EntryFlush(f, s.bypass_mark_chain) PROVE TakesCleanly(c)
  <2>1. ~c.must /\ c.verb = "flush"
    BY <1>5 DEF EntryFlush, Flush
  <2>2. \A x \in Items : Takes(c, x) => x.kind = "entry"
    BY <1>5, TakesWhat
  <2> QED
    BY <2>1, <2>2 DEF TakesCleanly
<1>6. ASSUME NEW f \in Families, s.bypass_mark_chain \notin BuiltIn, c = Del(Chain(f, s.bypass_mark_chain))
      PROVE  TakesCleanly(c)
  <2>1. ~c.must /\ c.verb = "del" /\ c.what = Chain(f, s.bypass_mark_chain)
    BY <1>6 DEF Del
  <2>2. \A x \in Items : Takes(c, x) => x = Chain(f, s.bypass_mark_chain)
                                        /\ x.kind = "chain" /\ x.chain = s.bypass_mark_chain
    BY <1>6, TakesWhat, Fields
  <2> QED
    BY <1>6, <2>1, <2>2 DEF TakesCleanly
<1> QED
  BY <1>1, <1>2, <1>3, <1>4, <1>5, <1>6, ClearCommands

\* clear(s) takes every item but what the app has turned off.
LEMMA ClearTakes ==
  ASSUME NEW s \in Known, NEW x \in Items, x.kind # "protected", x \notin TurnedOff(s)
  PROVE  \E c : Has(clear(s), c) /\ Takes(c, x)
<1>1. CASE IsTunnel(x, s)
  <2>1. PICK f \in Families : x = TunnelRule(s, f)
    BY <1>1 DEF IsTunnel
  <2>2. Takes(rule_del_pref(f, s.app_tunnel_priority), x)
    BY <2>1, TakesWhat, Fields DEF TunnelRule
  <2> QED
    BY <2>2, ClearHas, ClearRulesHas
<1>2. CASE IsUid(x, s)
  <2>1. PICK f, p, u : f \in Families /\ p \in Block(s) /\ x = UidRule(s, f, p, u)
    BY <1>2 DEF IsUid
  <2>2. Takes(rule_del_pref(f, p), x)
    BY <2>1, TakesWhat, Fields DEF UidRule
  <2> QED
    BY <2>1, <2>2, ClearHas, SweepHas, FixedHalf DEF Block
<1>3. CASE IsUpstream(x, s)
  <2>1. PICK f, v, m : f \in Families /\ x = Route(f, s.upstream_table, v, m)
    BY <1>3 DEF IsUpstream
  <2>2. Takes(RouteFlush(f, s.upstream_table), x)
    BY <2>1, TakesWhat, Fields
  <2> QED
    BY <2>1, <2>2, ClearHas, ClearRulesHas
<1>4. CASE IsDhcp(x, s)
  <2>1. s.dhcp_workaround_enabled
    <3>1. ASSUME NEW p \in Known, p.dhcp_workaround_enabled, ~s.dhcp_workaround_enabled
          PROVE  x \in TurnedOff(s)
      BY <3>1, <1>4, InCommon DEF TurnedOff, DhcpItems, IsDhcp
    <3> QED
      BY <1>4, <3>1 DEF IsDhcp
  <2>2. Takes(Del(DhcpRule(s)), x)
    BY <1>4, TakesWhat DEF IsDhcp
  <2> QED
    BY <2>1, <2>2, ClearHas, ClearRulesHas
<1>5. CASE IsMark(x, s)
  <2>1. PICK p \in Known, f \in Families :
          /\ x \in MarkItems(p)
          /\ \/ x = Chain(f, x.chain) \/ x = Jump(f, "OUTPUT", x.chain) \/ \E u : x = Entry(f, x.chain, u)
    BY <1>5 DEF IsMark
  <2>2. s.bypass_mark_chain # NoChain /\ x.chain = s.bypass_mark_chain
    BY <1>5, <2>1 DEF IsMark, TurnedOff
  <2>3. \E c \in {Del(MarkJump(s, f)), EntryFlush(f, s.bypass_mark_chain), Del(Chain(f, s.bypass_mark_chain))} :
          Takes(c, x)
    BY <2>1, <2>2, TakesWhat, Fields DEF MarkJump
  <2> QED
    BY <2>2, <2>3, ClearHas, UnhookChainHas
<1>6. CASE IsTproxy(x, s)
  <2>1. s.tproxy # NoTproxy /\ x \in {LocalRoute(s), MarkRule(s)}
    <3>1. PICK p \in Known : p.tproxy # NoTproxy /\ x \in {LocalRoute(p), MarkRule(p)}
      BY <1>6 DEF IsTproxy
    <3>2. x \in TproxyItems(p)
      BY <3>1 DEF TproxyItems
    <3> QED
      BY <1>6, <3>1, <3>2, InCommon DEF TurnedOff, IsTproxy
  <2>2. LocalRoute(s).kind = "route" /\ LocalRoute(s).fam = 4 /\ LocalRoute(s).table = s.tproxy.route_table
    BY DEF LocalRoute, Route
  <2>3. MarkRule(s).kind = "rule" /\ MarkRule(s).fam = 4 /\ MarkRule(s).pref = s.tproxy.rule_priority
    BY DEF MarkRule, Rule
  <2>4. \E c \in {rule_del_pref(4, s.tproxy.rule_priority), RouteFlush(4, s.tproxy.route_table)} : Takes(c, x)
    BY <2>1, <2>2, <2>3, TakesWhat
  <2> QED
    BY <2>1, <2>4, ClearHas, ClearTproxyHas
<1> QED
  BY <1>1, <1>2, <1>3, <1>4, <1>5, <1>6, ItemIs

\* Rules go before the routes of their table, and what hooks in or is in a
\* chain before the chain.
LEMMA ClearWay ==
  ASSUME NEW s \in Known
  PROVE  WayIn(clear(s), Items)
<1> DEFINE S == Sweep(s.rule_priority_start, s.rule_priority_end)
           R == ClearRules(s)
           U == UnhookChain(s)
           T == ClearTproxy(s)
<1>1. \A f, p, y : ~Blocks(y, rule_del_pref(f, p))
  BY DEF Blocks, rule_del_pref, Del
<1>2. \A f, t, y : Blocks(y, RouteFlush(f, t)) => f = 4 /\ y.kind = "rule" /\ y.fam = 4 /\ y.table = t
  BY DEF Blocks, RouteFlush, Flush
<1>3. \A f, c, y : ~Blocks(y, EntryFlush(f, c))
  BY DEF Blocks, EntryFlush, Flush
<1>4. \A y : ~Blocks(y, Del(DhcpRule(s)))
  BY DEF Blocks, Del, DhcpRule, Rule
<1>5. \A f, y : ~Blocks(y, Del(MarkJump(s, f)))
  BY DEF Blocks, Del, MarkJump, Jump
<1>6. \A f, c, y : Blocks(y, Del(Chain(f, c))) => y.kind \in {"entry", "jump"} /\ y.fam = f /\ y.chain = c
  BY DEF Blocks, Del, Chain
<1>7. WayIn(S, Items)
  <2>1. \A j \in DOMAIN S : \E f, p : S[j] = rule_del_pref(f, p)
    BY FixedHalf, SweepHas DEF Has
  <2> QED
    BY <1>1, <2>1 DEF WayIn
<1>8. WayIn(R, Untaken(S, Items))
  <2>1. ASSUME NEW y \in Untaken(S, Items), y.kind = "rule", y.fam = 4 PROVE y.table # s.upstream_table
    <3>1. y \in Items /\ \A c : Has(S, c) => ~Takes(c, y)
      BY DEF Untaken, Has
    <3>2. ~IsUid(y, s)
      <4>1. SUFFICES ASSUME NEW f \in Families, NEW p \in Block(s), NEW u, y = UidRule(s, f, p, u)
                     PROVE  FALSE
        BY DEF IsUid
      <4>2. Takes(rule_del_pref(f, p), y)
        BY <3>1, <4>1, TakesWhat, Fields DEF UidRule
      <4> QED
        BY <3>1, <4>2, SweepHas, FixedHalf DEF Block
    <3>3. CASE IsTunnel(y, s)
      BY <3>3, Fields, FixedHalf DEF IsTunnel, TunnelRule
    <3>4. CASE IsDhcp(y, s)
      BY <3>4, FixedHalf DEF IsDhcp, DhcpRule, Rule
    <3>5. CASE IsTproxy(y, s)
      <4>1. PICK p \in Known : p.tproxy # NoTproxy /\ y = MarkRule(p)
        BY <2>1, <3>5, Fields DEF IsTproxy, LocalRoute
      <4>2. y.table = p.tproxy.route_table
        BY <4>1 DEF MarkRule, Rule
      <4> QED
        BY <4>1, <4>2, FixedHalf, InCommon
    <3>6. y.kind = "rule" => ~IsUpstream(y, s) /\ ~IsMark(y, s)
      BY Fields DEF IsUpstream, IsMark
    <3> QED
      BY <2>1, <3>1, <3>2, <3>3, <3>4, <3>5, <3>6, ItemIs
  <2>2. \A j \in DOMAIN R : Has(R, R[j])
    BY DEF Has
  <2>3. \A j \in DOMAIN R : \A y \in Untaken(S, Items) : ~Blocks(y, R[j])
    BY <1>1, <1>2, <1>4, <2>1, <2>2, ClearRulesHas
  <2> QED
    BY <2>3 DEF WayIn
<1>9. WayIn(U, Items)
  <2>1. ASSUME NEW f PROVE WayIn(Unhook(s, f), Items)
    <3> DEFINE a == Unhook(s, f)
    <3>1. /\ DOMAIN a = 1..3 /\ a[1] = Del(MarkJump(s, f)) /\ a[2] = EntryFlush(f, s.bypass_mark_chain)
          /\ a[3] = Del(Chain(f, s.bypass_mark_chain))
      BY DEF Unhook
    <3> HIDE DEF a
    <3>2. ASSUME NEW y \in Items, Blocks(y, a[3]) PROVE Takes(a[1], y) \/ Takes(a[2], y)
      <4>1. y.kind \in {"entry", "jump"} /\ y.fam = f /\ y.chain = s.bypass_mark_chain
        BY <1>6, <3>1, <3>2
      <4>2. CASE y.kind = "entry"
        BY <3>1, <4>1, <4>2, TakesWhat
      <4>3. CASE y.kind = "jump"
        <5>1. PICK g, c : y = Jump(g, "OUTPUT", c)
          BY <4>3, ItemKinds, Fields
        <5>2. y = MarkJump(s, f)
          BY <4>1, <5>1, Fields DEF MarkJump
        <5> QED
          BY <3>1, <5>2, TakesWhat
      <4> QED
        BY <4>1, <4>2, <4>3
    <3>3. \A y : ~Blocks(y, a[1]) /\ ~Blocks(y, a[2])
      BY <1>3, <1>5, <3>1
    <3> QED
      BY <3>1, <3>2, <3>3 DEF WayIn, a
  <2>2. CASE s.bypass_mark_chain # NoChain
    <3>1. U = Unhook(s, 4) \o Unhook(s, 6)
      BY <2>2 DEF UnhookChain, When
    <3>2. WayIn(Unhook(s, 6), Untaken(Unhook(s, 4), Items))
      BY <2>1 DEF WayIn, Untaken
    <3> QED
      BY <2>1, <3>1, <3>2, UnhookChainHas, WayJoined
  <2>3. CASE s.bypass_mark_chain = NoChain
    BY <2>3 DEF UnhookChain, When, WayIn
  <2> QED
    BY <2>2, <2>3
<1>10. WayIn(T, Items)
  <2>1. CASE s.tproxy # NoTproxy
    <3>1. /\ DOMAIN T = 1..2 /\ T[1] = rule_del_pref(4, s.tproxy.rule_priority)
          /\ T[2] = RouteFlush(4, s.tproxy.route_table)
      BY <2>1 DEF ClearTproxy, When
    <3> HIDE DEF T
    <3>2. ASSUME NEW y \in Items, Blocks(y, T[2]) PROVE Takes(T[1], y)
      <4>1. y.kind = "rule" /\ y.fam = 4 /\ y.table = s.tproxy.route_table
        BY <1>2, <3>1, <3>2
      <4>2. s.tproxy.route_table \notin {97, s.upstream_table, s.tunnel_table}
        BY <2>1, FixedHalf
      <4>3. ~IsTunnel(y, s)
        BY <4>1, <4>2, Fields DEF IsTunnel, TunnelRule
      <4>4. ~IsUid(y, s)
        BY <4>1, <4>2, Fields DEF IsUid, UidRule
      <4>5. ~IsDhcp(y, s)
        <5>1. IsDhcp(y, s) => y.table = 97
          <6>1. DhcpRule(s).table = 97
            BY DEF DhcpRule, Rule
          <6> QED
            BY <6>1 DEF IsDhcp
        <5>2. s.tproxy.route_table # 97
          BY <4>2
        <5> QED
          BY <4>1, <5>1, <5>2
      <4>6. ~IsUpstream(y, s) /\ ~IsMark(y, s) /\ y.kind # "protected"
        BY <4>1, Fields DEF IsUpstream, IsMark
      <4>7. y \in {LocalRoute(s), MarkRule(s)}
        BY <2>1, <4>3, <4>4, <4>5, <4>6, ItemIs DEF IsTproxy, TproxyItems
      <4>8. y.pref = s.tproxy.rule_priority
        BY <4>1, <4>7 DEF LocalRoute, MarkRule, Route, Rule
      <4> QED
        BY <3>1, <4>1, <4>8, TakesWhat
    <3>3. \A y : ~Blocks(y, T[1])
      BY <1>1, <3>1
    <3> QED
      BY <3>1, <3>2, <3>3 DEF WayIn
  <2>2. CASE s.tproxy = NoTproxy
    BY <2>2 DEF ClearTproxy, When, WayIn
  <2> QED
    BY <2>1, <2>2
<1> HIDE DEF S, R, U, T
<1>11. IsList(S) /\ IsList(R) /\ IsList(U) /\ IsList(T) /\ IsList(S \o R) /\ IsList((S \o R) \o U)
  BY ClearHas, ClearRulesHas, UnhookChainHas, ClearTproxyHas DEF S, R, U, T
<1>12. WayIn(S \o R, Items)
  BY <1>7, <1>8, <1>11, WayJoined
<1>13. WayIn((S \o R) \o U, Items)
  <2>1. WayIn(U, Untaken(S \o R, Items))
    BY <1>9 DEF WayIn, Untaken
  <2> QED
    BY <1>11, <1>12, <2>1, WayJoined
<1>14. WayIn(((S \o R) \o U) \o T, Items)
  <2>1. WayIn(T, Untaken((S \o R) \o U, Items))
    BY <1>10 DEF WayIn, Untaken
  <2> QED
    BY <1>11, <1>13, <2>1, WayJoined
<1> QED
  BY <1>14 DEF clear, S, R, U, T
-----------------------------------------------------------------------------
(* The commands of Install(). *)

\* An add takes nothing, must or not.
LEMMA AddIs ==
  \A x : /\ Adds(Add(x)) /\ Add(x).what = x /\ ~Add(x).must /\ Adds(Must(Add(x)))
         /\ Must(Add(x)).what = x /\ Must(Add(x)).must
         /\ \A y : ~Takes(Add(x), y) /\ ~Takes(Must(Add(x)), y)
BY DEF Adds, Add, Must, Takes

\* The refusal neither adds nor takes.
LEMMA RefusalIs ==
  ~Adds(Refusal) /\ Refusal.must /\ \A y : ~Takes(Refusal, y)
BY DEF Adds, Refusal, Takes

\* The routes of apply(): IPv4 ones must be accepted.
LEMMA RouteLists ==
  ASSUME NEW s \in Known
  PROVE  LET R4 == AllMust(AddRoutes(s, 4, s.ipv4_default_routes))
             R6 == AddRoutes(s, 6, s.ipv6_default_routes)
         IN  /\ IsList(R4) /\ \A c : Has(R4, c) <=>
                  \E x \in UpstreamRoutes(s, 4, s.ipv4_default_routes) : c = Must(Add(x))
             /\ IsList(R6) /\ \A c : Has(R6, c) <=> \E x \in Optional(s) : c = Add(x)
             /\ s.ipv4_default_routes # <<>> => \E x \in UpstreamRoutes(s, 4, s.ipv4_default_routes) :
                  x.kind = "route" /\ x.fam = 4 /\ x.table = s.upstream_table
<1> DEFINE r == s.ipv4_default_routes
           t == s.ipv6_default_routes
           R4 == AllMust(AddRoutes(s, 4, r))
           R6 == AddRoutes(s, 6, t)
           x(i) == Route(4, s.upstream_table, r[i].via, r[i].metric)
           y(i) == Route(6, s.upstream_table, t[i].via, t[i].metric)
<1>1. /\ Len(r) \in Nat /\ DOMAIN r = 1..Len(r) /\ (r # <<>> => Len(r) # 0)
      /\ Len(t) \in Nat /\ DOMAIN t = 1..Len(t)
  <2>1. r \in Seq([via : STRING, metric : Nat]) /\ t \in Seq([via : STRING, metric : Nat])
    BY VariableHalf
  <2> QED
    BY <2>1, EmptySeq
<1>2. /\ R4 = [i \in 1..Len(r) |-> Must(Add(x(i)))]
      /\ R6 = [i \in 1..Len(t) |-> Add(y(i))]
  BY <1>1 DEF AllMust, AddRoutes
<1>3. /\ UpstreamRoutes(s, 4, r) = {x(i) : i \in 1..Len(r)}
      /\ Optional(s) = {y(i) : i \in 1..Len(t)}
  BY <1>1 DEF UpstreamRoutes, Optional
<1>4. x(1).kind = "route" /\ x(1).fam = 4 /\ x(1).table = s.upstream_table /\ (r # <<>> => 1 \in 1..Len(r))
  BY <1>1, Fields
<1> HIDE DEF r, t, R4, R6, x, y
<1>5. IsList(R4) /\ DOMAIN R4 = 1..Len(r) /\ IsList(R6) /\ DOMAIN R6 = 1..Len(t)
  BY <1>1, <1>2, Listed
<1>6. /\ \A c : Has(R4, c) <=> \E z \in UpstreamRoutes(s, 4, r) : c = Must(Add(z))
      /\ \A c : Has(R6, c) <=> \E z \in Optional(s) : c = Add(z)
  BY <1>2, <1>3, <1>5 DEF Has
<1> QED
  BY <1>3, <1>4, <1>5, <1>6 DEF r, t, R4, R6

\* The uid rules by their index: each uid in both families, none twice.
LEMMA UidList ==
  ASSUME NEW s \in Known
  PROVE  LET n == Len(s.bypass_uids)
             U == UidRules(s)
             at(k) == add_uid_rule(s, (k - 1) \div 2, FamilyAt(k))
         IN  /\ n \in Nat /\ DOMAIN s.bypass_uids = 1..n
             /\ IsList(U) /\ DOMAIN U = 1..(2 * (n + 1)) /\ \A k \in DOMAIN U : U[k] = at(k)
             /\ \A k \in DOMAIN U : FamilyAt(k) \in Families /\ (k - 1) \div 2 \in 0..n
             /\ \A k, l \in DOMAIN U :
                  FamilyAt(k) = FamilyAt(l) /\ (k - 1) \div 2 = (l - 1) \div 2 => k = l
             /\ \A f \in Families, i \in 0..n : Has(U, add_uid_rule(s, i, f))
<1> DEFINE n == Len(s.bypass_uids)
           U == UidRules(s)
           at(k) == add_uid_rule(s, (k - 1) \div 2, FamilyAt(k))
<1>1. n \in Nat /\ DOMAIN s.bypass_uids = 1..n
  <2>1. s.bypass_uids \in Seq(STRING)
    BY VariableHalf
  <2> QED
    BY <2>1
<1>2. U = [k \in 1..(2 * (n + 1)) |-> at(k)]
  BY DEF UidRules
<1> HIDE DEF n, U
<1>3. IsList(U) /\ DOMAIN U = 1..(2 * (n + 1)) /\ \A k \in DOMAIN U : U[k] = at(k)
  BY <1>1, <1>2, Listed
<1>4. ASSUME NEW k \in 1..(2 * (n + 1)) PROVE FamilyAt(k) \in Families /\ (k - 1) \div 2 \in 0..n
  <2>1. k - 1 \in Nat /\ k - 1 < 2 * (n + 1)
    BY <1>1
  <2>2. (k - 1) \div 2 \in Nat /\ 2 * ((k - 1) \div 2) <= k - 1
    BY <2>1, Halves
  <2> QED
    BY <1>1, <2>1, <2>2 DEF FamilyAt, Families
<1>5. ASSUME NEW k \in 1..(2 * (n + 1)), NEW l \in 1..(2 * (n + 1)), FamilyAt(k) = FamilyAt(l),
             (k - 1) \div 2 = (l - 1) \div 2
      PROVE  k = l
  <2>1. k \in Nat /\ l \in Nat /\ k - 1 \in Nat /\ l - 1 \in Nat
    BY <1>1
  <2>2. k % 2 = l % 2
    <3>1. k % 2 \in {0, 1} /\ l % 2 \in {0, 1}
      BY <2>1
    <3> QED
      BY <1>5, <3>1 DEF FamilyAt
  <2> QED
    BY <1>5, <2>1, <2>2
<1>6. ASSUME NEW f \in Families, NEW i \in 0..n PROVE Has(U, add_uid_rule(s, i, f))
  <2> DEFINE k == IF f = 4 THEN 2 * i + 1 ELSE 2 * i + 2
  <2>1. k \in 1..(2 * (n + 1))
    BY <1>1
  <2>2. FamilyAt(k) = f /\ (k - 1) \div 2 = i
    <3>1. CASE f = 4
      BY <1>1, <3>1, Halves DEF FamilyAt
    <3>2. CASE f # 4
      <4>1. f = 6 /\ k = 2 * i + 2 /\ k - 1 = 2 * i + 1
        BY <1>1, <3>2 DEF Families
      <4> QED
        BY <1>1, <4>1, Halves DEF FamilyAt
    <3> QED
      BY <3>1, <3>2
  <2> HIDE DEF k
  <2>3. U[k] = add_uid_rule(s, i, f)
    BY <1>3, <2>1, <2>2
  <2> QED
    BY <1>3, <2>1, <2>3 DEF Has
<1> QED
  BY <1>1, <1>3, <1>4, <1>5, <1>6 DEF n, U
-----------------------------------------------------------------------------
(* What is asked of a list of commands that installs. *)

\* No place is filled twice.
NoTwice(a) ==
  \A i, j \in DOMAIN a : i # j /\ Adds(a[i]) /\ Adds(a[j]) => ~SamePlace(a[i].what, a[j].what)
Apart(a, b) ==
  \A c, d : Has(a, c) /\ Has(b, d) /\ Adds(c) /\ Adds(d) => ~SamePlace(c.what, d.what)

\* What an item of b needs comes before it, there or in a.
Backed(s, a, b) ==
  \A j \in DOMAIN b : Adds(b[j]) /\ Needy(s, b[j].what) =>
    \/ \E c : Has(a, c) /\ Ensures(c, b[j].what)
    \/ \E i \in 1..(j - 1) : Ensures(b[i], b[j].what)

\* The item is installed to stay, or the list fails.
Comes(a, y) ==
  \E j \in DOMAIN a :
    \/ Adds(a[j]) /\ a[j].what = y /\ \A k \in (j + 1)..Len(a) : ~Takes(a[k], y)
    \/ a[j] = Refusal
Spares(a, y) == \A c : Has(a, c) => ~Takes(c, y)

\* Being in each other's place has no direction.
LEMMA Symmetric == \A x, y : SamePlace(x, y) <=> SamePlace(y, x)
BY DEF SamePlace, Repeated

\* Two lists without a double have none together if they are apart.
LEMMA NoTwiceJoined ==
  ASSUME NEW a, NEW b, IsList(a), IsList(b), NoTwice(a), NoTwice(b), Apart(a, b)
  PROVE  NoTwice(a \o b)
<1> SUFFICES ASSUME NEW i \in DOMAIN (a \o b), NEW j \in DOMAIN (a \o b), i # j,
                    Adds((a \o b)[i]), Adds((a \o b)[j]), SamePlace((a \o b)[i].what, (a \o b)[j].what)
             PROVE  FALSE
  BY DEF NoTwice
<1> DEFINE n == Len(a)
<1>1. n \in Nat /\ i \in Nat /\ j \in Nat /\ DOMAIN a = 1..n /\ DOMAIN b = 1..Len(b) /\ Len(b) \in Nat
  BY Joined
<1>2. \/ i \in 1..n /\ (a \o b)[i] = a[i]
      \/ i - n \in 1..Len(b) /\ (a \o b)[i] = b[i - n]
  BY JoinedAt
<1>3. \/ j \in 1..n /\ (a \o b)[j] = a[j]
      \/ j - n \in 1..Len(b) /\ (a \o b)[j] = b[j - n]
  BY JoinedAt
<1> HIDE DEF n
<1>4. CASE i \in 1..n /\ (a \o b)[i] = a[i] /\ j \in 1..n /\ (a \o b)[j] = a[j]
  BY <1>1, <1>4 DEF NoTwice
<1>5. CASE i - n \in 1..Len(b) /\ (a \o b)[i] = b[i - n] /\ j - n \in 1..Len(b) /\ (a \o b)[j] = b[j - n]
  <2>1. i - n # j - n
    BY <1>1
  <2> QED
    BY <1>1, <1>5, <2>1 DEF NoTwice
<1>6. CASE i \in 1..n /\ (a \o b)[i] = a[i] /\ j - n \in 1..Len(b) /\ (a \o b)[j] = b[j - n]
  BY <1>1, <1>6 DEF Apart, Has
<1>7. CASE i - n \in 1..Len(b) /\ (a \o b)[i] = b[i - n] /\ j \in 1..n /\ (a \o b)[j] = a[j]
  BY <1>1, <1>7, Symmetric DEF Apart, Has
<1> QED
  BY <1>2, <1>3, <1>4, <1>5, <1>6, <1>7

\* Needs that are met within the lists, or by those before, are met when joined.
LEMMA BackedJoined ==
  ASSUME NEW s, NEW z, NEW a, NEW b, IsList(a), IsList(b), Backed(s, z, a), Backed(s, a, b)
  PROVE  Backed(s, z, a \o b)
<1> SUFFICES ASSUME NEW j \in DOMAIN (a \o b), Adds((a \o b)[j]), Needy(s, (a \o b)[j].what)
             PROVE  \/ \E c : Has(z, c) /\ Ensures(c, (a \o b)[j].what)
                    \/ \E i \in 1..(j - 1) : Ensures((a \o b)[i], (a \o b)[j].what)
  BY DEF Backed
<1>1. CASE j \in 1..Len(a) /\ (a \o b)[j] = a[j]
  <2>1. CASE \E c : Has(z, c) /\ Ensures(c, (a \o b)[j].what)
    BY <2>1
  <2>2. CASE \E i \in 1..(j - 1) : Ensures(a[i], a[j].what)
    <3>1. PICK i \in 1..(j - 1) : Ensures(a[i], a[j].what)
      BY <2>2
    <3>2. (a \o b)[i] = a[i]
      BY <1>1, <3>1, Joined
    <3> QED
      BY <1>1, <3>1, <3>2
  <2> QED
    BY <1>1, <2>1, <2>2, Joined DEF Backed
<1>2. CASE j - Len(a) \in 1..Len(b) /\ (a \o b)[j] = b[j - Len(a)]
  <2>1. CASE \E c : Has(a, c) /\ Ensures(c, (a \o b)[j].what)
    <3>1. PICK i \in DOMAIN a : Ensures(a[i], (a \o b)[j].what)
      BY <2>1 DEF Has
    <3>2. i \in 1..(j - 1) /\ (a \o b)[i] = a[i]
      BY <1>2, <3>1, Joined
    <3> QED
      BY <3>1, <3>2
  <2>2. CASE \E i \in 1..(j - Len(a) - 1) : Ensures(b[i], b[j - Len(a)].what)
    <3>1. PICK i \in 1..(j - Len(a) - 1) : Ensures(b[i], b[j - Len(a)].what)
      BY <2>2
    <3>2. i \in 1..Len(b) /\ Len(a) + i \in 1..(j - 1) /\ (a \o b)[Len(a) + i] = b[i]
      BY <1>2, <3>1, Joined
    <3> QED
      BY <1>2, <3>1, <3>2
  <2>3. j - Len(a) \in DOMAIN b
    BY <1>2, Joined
  <2> QED
    BY <1>2, <2>1, <2>2, <2>3 DEF Backed
<1> QED
  BY <1>1, <1>2, JoinedAt

\* What one list brings, a joined one brings, unless it is taken later.
LEMMA ComesJoined ==
  ASSUME NEW a, NEW b, IsList(a), IsList(b), NEW y, (Comes(a, y) /\ Spares(b, y)) \/ Comes(b, y)
  PROVE  Comes(a \o b, y)
<1>1. CASE Comes(a, y) /\ Spares(b, y)
  <2>1. PICK j \in 1..Len(a) :
          \/ Adds(a[j]) /\ a[j].what = y /\ \A k \in (j + 1)..Len(a) : ~Takes(a[k], y)
          \/ a[j] = Refusal
    BY <1>1, Joined DEF Comes
  <2>2. j \in DOMAIN (a \o b) /\ (a \o b)[j] = a[j]
    BY Joined
  <2>3. ASSUME NEW k \in (j + 1)..Len(a \o b), \A l \in (j + 1)..Len(a) : ~Takes(a[l], y)
        PROVE  ~Takes((a \o b)[k], y)
    <3>1. k \in DOMAIN (a \o b)
      BY Joined
    <3>2. CASE k \in 1..Len(a) /\ (a \o b)[k] = a[k]
      BY <2>3, <3>2, Joined
    <3>3. CASE k - Len(a) \in 1..Len(b) /\ (a \o b)[k] = b[k - Len(a)]
      BY <1>1, <3>3, Joined DEF Spares, Has
    <3> QED
      BY <3>1, <3>2, <3>3, JoinedAt
  <2> QED
    BY <2>1, <2>2, <2>3 DEF Comes
<1>2. CASE Comes(b, y)
  <2>1. PICK j \in 1..Len(b) :
          \/ Adds(b[j]) /\ b[j].what = y /\ \A k \in (j + 1)..Len(b) : ~Takes(b[k], y)
          \/ b[j] = Refusal
    BY <1>2, Joined DEF Comes
  <2>2. Len(a) + j \in DOMAIN (a \o b) /\ (a \o b)[Len(a) + j] = b[j]
    BY Joined
  <2>3. ASSUME NEW k \in (Len(a) + j + 1)..Len(a \o b), \A l \in (j + 1)..Len(b) : ~Takes(b[l], y)
        PROVE  ~Takes((a \o b)[k], y)
    <3>1. k \in DOMAIN (a \o b) /\ k \notin 1..Len(a)
      BY Joined
    <3>2. k - Len(a) \in (j + 1)..Len(b) /\ (a \o b)[k] = b[k - Len(a)]
      BY <3>1, Joined, JoinedAt
    <3> QED
      BY <2>3, <3>2
  <2> QED
    BY <2>1, <2>2, <2>3 DEF Comes
<1> QED
  BY <1>1, <1>2

\* A list that takes nothing away.
LEMMA ComesAtOnce ==
  ASSUME NEW a, IsList(a), NEW y, Spares(a, y), NEW c, Has(a, c), Adds(c) /\ c.what = y
  PROVE  Comes(a, y)
<1>1. PICK j \in DOMAIN a : a[j] = c
  BY DEF Has
<1>2. DOMAIN a = 1..Len(a) /\ Len(a) \in Nat
  BY Joined
<1> QED
  BY <1>1, <1>2 DEF Comes, Spares, Has
-----------------------------------------------------------------------------
(* The parts of Install(): uid rules, chains, tproxy. *)

\* A uid rule is added inside the block, or the handler is refused.
LEMMA UidAdds ==
  ASSUME NEW s \in Known, NEW i \in 0..Len(s.bypass_uids), NEW f \in Families
  PROVE  LET c == add_uid_rule(s, i, f)
             x == UidRule(s, f, s.rule_priority_start + i, Uid(s, i))
         IN  \/ c = Refusal
             \/ /\ c = Add(x) /\ x \in Fits(s) /\ x \in UidItems(s) /\ x.kind = "rule" /\ x.fam = f
                /\ x.pref = s.rule_priority_start + i /\ x.pref \in Block(s) /\ x.table = s.upstream_table
<1> DEFINE x == UidRule(s, f, s.rule_priority_start + i, Uid(s, i))
<1>1. x.kind = "rule" /\ x.fam = f /\ x.pref = s.rule_priority_start + i /\ x.table = s.upstream_table
  BY Fields DEF UidRule
<1>2. x \in UidItems(s)
  BY DEF UidItems
<1> HIDE DEF x
<1>3. CASE i > 0 /\ s.rule_priority_start + i > s.rule_priority_end
  BY <1>3 DEF add_uid_rule
<1>4. CASE ~(i > 0 /\ s.rule_priority_start + i > s.rule_priority_end)
  <2>1. add_uid_rule(s, i, f) = Add(x)
    BY <1>4 DEF add_uid_rule, x
  <2>2. s.rule_priority_start + i \in Block(s)
    <3>1. s.rule_priority_start \in Nat /\ s.rule_priority_end \in Nat
          /\ s.rule_priority_start <= s.rule_priority_end /\ i \in Nat
      BY FixedHalf, UidList
    <3> QED
      BY <1>4, <3>1 DEF Block
  <2>3. x \in Fits(s)
    BY <1>1, <1>2, <2>2 DEF Fits, Footprint
  <2> QED
    BY <1>1, <1>2, <2>1, <2>2, <2>3 DEF x
<1> QED
  BY <1>3, <1>4

\* All uid rules: in the block, none twice, none missing short of a refusal.
LEMMA UidRulesAre ==
  ASSUME NEW s \in Known
  PROVE  LET U == UidRules(s)
         IN  /\ IsList(U) /\ NoTwice(U)
             /\ \A c : Has(U, c) =>
                  \/ c = Refusal
                  \/ \E x \in Fits(s) : /\ c = Add(x) /\ x.kind = "rule" /\ x.pref \in Block(s)
                                        /\ x.table = s.upstream_table
             /\ \A y : Spares(U, y)
             /\ \A y \in UidItems(s) : Comes(U, y)
<1> DEFINE U == UidRules(s)
           n == Len(s.bypass_uids)
           i(k) == (k - 1) \div 2
<1>1. IsList(U) /\ \A k \in DOMAIN U : U[k] = add_uid_rule(s, i(k), FamilyAt(k))
                                        /\ FamilyAt(k) \in Families /\ i(k) \in 0..n
  BY UidList
<1>2. ASSUME NEW c, Has(U, c)
      PROVE  \/ c = Refusal
             \/ \E x \in Fits(s) : /\ c = Add(x) /\ x.kind = "rule" /\ x.pref \in Block(s)
                                   /\ x.table = s.upstream_table
  <2>1. PICK k \in DOMAIN U : c = add_uid_rule(s, i(k), FamilyAt(k))
    BY <1>1, <1>2 DEF Has
  <2> QED
    BY <1>1, <2>1, UidAdds
<1>3. \A y : Spares(U, y)
  BY <1>2, AddIs, RefusalIs DEF Spares
<1>4. NoTwice(U)
  <2>1. SUFFICES ASSUME NEW k \in DOMAIN U, NEW l \in DOMAIN U, k # l, Adds(U[k]), Adds(U[l]),
                        SamePlace(U[k].what, U[l].what)
                 PROVE  FALSE
    BY DEF NoTwice
  <2>2. /\ U[k].what.kind = "rule" /\ U[k].what.fam = FamilyAt(k)
        /\ U[k].what.pref = s.rule_priority_start + i(k)
    BY <1>1, <2>1, UidAdds, RefusalIs, AddIs
  <2>3. /\ U[l].what.kind = "rule" /\ U[l].what.fam = FamilyAt(l)
        /\ U[l].what.pref = s.rule_priority_start + i(l)
    BY <1>1, <2>1, UidAdds, RefusalIs, AddIs
  <2>4. FamilyAt(k) = FamilyAt(l) /\ s.rule_priority_start + i(k) = s.rule_priority_start + i(l)
    BY <2>1, <2>2, <2>3 DEF SamePlace
  <2>5. s.rule_priority_start \in Nat /\ i(k) \in Int /\ i(l) \in Int
    BY <1>1, FixedHalf
  <2>6. i(k) = i(l)
    BY <2>4, <2>5
  <2> QED
    BY <2>1, <2>4, <2>6, UidList
<1>5. ASSUME NEW y \in UidItems(s) PROVE Comes(U, y)
  <2>1. PICK f \in Families, m \in 0..n : y = UidRule(s, f, s.rule_priority_start + m, Uid(s, m))
    BY DEF UidItems
  <2>2. Has(U, add_uid_rule(s, m, f))
    BY UidList
  <2>3. CASE add_uid_rule(s, m, f) = Refusal
    BY <2>2, <2>3 DEF Comes, Has
  <2>4. CASE add_uid_rule(s, m, f) = Add(y)
    BY <1>1, <1>3, <2>2, <2>4, AddIs, ComesAtOnce
  <2> QED
    BY <2>1, <2>3, <2>4, UidAdds
<1> QED
  BY <1>1, <1>2, <1>3, <1>4, <1>5

\* What one family's chain is made of.
HookItems(s, f) ==
  {Chain(f, s.bypass_mark_chain), MarkJump(s, f)}
    \cup {Entry(f, s.bypass_mark_chain, s.bypass_uids[i]) : i \in DOMAIN s.bypass_uids}

\* The re-marking is the same in both families.
LEMMA HookItemsAre ==
  ASSUME NEW s \in Known, s.bypass_mark_enabled
  PROVE  /\ MarkItems(s) = HookItems(s, 4) \cup HookItems(s, 6)
         /\ \A f \in Families : \A x \in HookItems(s, f) :
              x.fam = f /\ x.chain = s.bypass_mark_chain /\ x.kind \in {"chain", "entry", "jump"} /\ x \in Fits(s)
<1>1. MarkItems(s) = HookItems(s, 4) \cup HookItems(s, 6)
  BY DEF MarkItems, HookItems, Families
<1>2. ASSUME NEW f \in Families, NEW x \in HookItems(s, f)
      PROVE  x.fam = f /\ x.chain = s.bypass_mark_chain /\ x.kind \in {"chain", "entry", "jump"}
  BY Fields DEF HookItems, MarkJump
<1>3. ASSUME NEW x \in UidItems(s) PROVE x.kind = "rule"
  BY Fields DEF UidItems, UidRule
<1>4. ASSUME NEW f \in Families, NEW x \in HookItems(s, f) PROVE x \in Fits(s)
  <2>1. x \in MarkItems(s)
    BY <1>1, <1>4 DEF Families
  <2> QED
    BY <1>2, <1>3, <2>1 DEF Fits, Footprint
<1> QED
  BY <1>1, <1>2, <1>4

\* Of one family the chain comes first, is emptied, filled and jumped to.
LEMMA HookIs ==
  ASSUME NEW s \in Known, s.bypass_mark_enabled, NEW f \in Families
  PROVE  LET H == Hook(s, f)
         IN  /\ IsList(H)
             /\ \A c : Has(H, c) <=> c = EntryFlush(f, s.bypass_mark_chain) \/ \E x \in HookItems(s, f) : c = Add(x)
             /\ NoTwice(H)
             /\ Backed(s, <<>>, H)
             /\ \A y \in HookItems(s, f) : Comes(H, y)
<1> DEFINE ch == s.bypass_mark_chain
           n == Len(s.bypass_uids)
           a == <<Add(Chain(f, ch)), EntryFlush(f, ch)>>
           e == MarkEntries(s, f)
           b == <<Add(MarkJump(s, f))>>
           x(i) == Entry(f, ch, s.bypass_uids[i])
<1>1. n \in Nat /\ DOMAIN s.bypass_uids = 1..n
  BY UidList
<1>2. e = [i \in 1..n |-> Add(x(i))]
  BY <1>1 DEF MarkEntries
<1> HIDE DEF n, e
<1>3. IsList(e) /\ DOMAIN e = 1..n /\ Len(e) = n
  BY <1>1, <1>2, Listed
<1>4. \A c : Has(e, c) <=> \E i \in 1..n : c = Add(x(i))
  BY <1>2, <1>3 DEF Has
<1>5. /\ IsList(a) /\ \A c : Has(a, c) <=> c \in {Add(Chain(f, ch)), EntryFlush(f, ch)}
      /\ IsList(b) /\ \A c : Has(b, c) <=> c = Add(MarkJump(s, f))
  BY Tuples
<1>6. ~Adds(EntryFlush(f, ch))
  BY DEF Adds, EntryFlush, Flush
<1>7. /\ \A i : x(i).kind = "entry" /\ x(i).fam = f /\ x(i).chain = ch /\ x(i).match = s.bypass_uids[i]
      /\ Chain(f, ch).kind = "chain" /\ Chain(f, ch).fam = f /\ Chain(f, ch).chain = ch
      /\ MarkJump(s, f).kind = "jump" /\ MarkJump(s, f).fam = f /\ MarkJump(s, f).chain = ch
  BY Fields DEF MarkJump
<1>8. \A c : Has(a, c) /\ Adds(c) => c = Add(Chain(f, ch))
  BY <1>5, <1>6
<1>9. NoTwice(a) /\ NoTwice(b) /\ NoTwice(e)
  <2>1. NoTwice(a)
    BY <1>7, <1>8, AddIs DEF NoTwice, Has, SamePlace
  <2>2. NoTwice(b)
    BY DEF NoTwice
  <2>3. ASSUME NEW i \in 1..n, NEW j \in 1..n, i # j PROVE ~SamePlace(e[i].what, e[j].what)
    <3>1. CASE s.bypass_uids[i] # s.bypass_uids[j]
      <4>1. x(i) # x(j)
        BY <1>7, <3>1
      <4> QED
        BY <1>2, <1>7, <4>1, AddIs DEF SamePlace
    <3>2. CASE s.bypass_uids[i] = s.bypass_uids[j]
      <4>1. Repeated(x(i))
        BY <1>1, <1>7, <2>3, <3>2 DEF Repeated
      <4> QED
        BY <1>2, <4>1, AddIs DEF SamePlace
    <3> QED
      BY <3>1, <3>2
  <2> QED
    BY <1>3, <2>1, <2>2, <2>3 DEF NoTwice
<1> HIDE DEF a, b, x
<1>10. IsList(a \o e) /\ \A c : Has(a \o e, c) <=> Has(a, c) \/ Has(e, c)
  BY <1>3, <1>5, Joined, HasJoined
<1>11. IsList((a \o e) \o b) /\ \A c : Has((a \o e) \o b, c) <=> Has(a \o e, c) \/ Has(b, c)
  BY <1>5, <1>10, Joined, HasJoined
<1>12. Hook(s, f) = (a \o e) \o b
  BY DEF Hook, a, e, b
<1>13. \A c : Has(Hook(s, f), c) <=>
              c = EntryFlush(f, ch) \/ \E y \in HookItems(s, f) : c = Add(y)
  BY <1>1, <1>4, <1>5, <1>10, <1>11, <1>12 DEF HookItems, x
<1>14. NoTwice(Hook(s, f))
  <2>1. Apart(a, e)
    BY <1>4, <1>7, <1>8, AddIs DEF Apart, SamePlace
  <2>2. NoTwice(a \o e)
    BY <1>3, <1>5, <1>9, <2>1, NoTwiceJoined
  <2>3. Apart(a \o e, b)
    BY <1>4, <1>5, <1>7, <1>8, <1>10, AddIs DEF Apart, SamePlace
  <2> QED
    BY <1>5, <1>9, <1>10, <1>12, <2>2, <2>3, NoTwiceJoined
<1>15. Backed(s, <<>>, Hook(s, f))
  <2>1. Backed(s, <<>>, a)
    <3>1. ~Needy(s, Chain(f, ch))
      BY <1>7 DEF Needy
    <3> QED
      BY <1>8, <3>1, AddIs DEF Backed, Has
  <2>2. Has(a, Add(Chain(f, ch))) /\ Has(a \o e, Add(Chain(f, ch)))
    BY <1>5, <1>10
  <2>3. Backed(s, a, e)
    BY <1>2, <1>3, <1>7, <2>2, AddIs DEF Backed, Ensures, Supports
  <2>4. Backed(s, a \o e, b)
    <3>1. Ensures(Add(Chain(f, ch)), MarkJump(s, f))
      BY <1>7, AddIs DEF Ensures, Supports
    <3> QED
      BY <1>5, <2>2, <3>1, AddIs DEF Backed, Has
  <2> QED
    BY <1>3, <1>5, <1>10, <1>12, <2>1, <2>3, <2>4, BackedJoined
<1>16. ASSUME NEW y \in HookItems(s, f) PROVE Comes(Hook(s, f), y)
  <2>1. Spares(e, y) /\ Spares(b, y)
    BY <1>4, <1>5, AddIs DEF Spares
  <2>2. CASE y = Chain(f, ch)
    <3>1. y \in Items /\ y.kind = "chain"
      BY <1>7, <1>16, <2>2, HookItemsAre DEF Items
    <3>2. ~Takes(EntryFlush(f, ch), y)
      BY <3>1, TakesWhat
    <3>3. Comes(a, y)
      BY <1>5, <2>2, <3>2, AddIs, ComesAtOnce DEF Spares
    <3> QED
      BY <1>3, <1>5, <1>10, <1>12, <2>1, <3>3, ComesJoined
  <2>3. CASE y = MarkJump(s, f)
    <3>1. Comes(b, y)
      BY <1>5, <2>1, <2>3, AddIs, ComesAtOnce
    <3> QED
      BY <1>5, <1>10, <1>12, <3>1, ComesJoined
  <2>4. ASSUME NEW i \in 1..n, y = x(i) PROVE Comes(Hook(s, f), y)
    <3>1. Comes(e, y)
      BY <1>3, <1>4, <2>1, <2>4, AddIs, ComesAtOnce
    <3>2. Comes(a \o e, y)
      BY <1>3, <1>5, <3>1, ComesJoined
    <3> QED
      BY <1>5, <1>10, <1>12, <2>1, <3>2, ComesJoined
  <2> QED
    BY <1>1, <1>16, <2>2, <2>3, <2>4 DEF HookItems, x
<1> QED
  BY <1>11, <1>12, <1>13, <1>14, <1>15, <1>16
-----------------------------------------------------------------------------
(* What Install() puts into the kernel, and in which order. *)

\* The same of both families, or of a spec without re-marking.
LEMMA MarkListIs ==
  ASSUME NEW s \in Known
  PROVE  LET M == When(s.bypass_mark_enabled, apply_bypass_mark(s))
         IN  /\ IsList(M)
             /\ \A c : Has(M, c) =>
                  /\ s.bypass_mark_enabled
                  /\ \/ \E f \in Families : c = EntryFlush(f, s.bypass_mark_chain)
                     \/ \E x \in Fits(s) : c = Add(x) /\ x.kind \in {"chain", "entry", "jump"}
             /\ NoTwice(M)
             /\ Backed(s, <<>>, M)
             /\ \A y \in MarkItems(s) : Comes(M, y)
<1>1. CASE ~s.bypass_mark_enabled
  <2>1. When(s.bypass_mark_enabled, apply_bypass_mark(s)) = <<>> /\ MarkItems(s) = {}
    BY <1>1 DEF When, MarkItems
  <2> QED
    BY <2>1, Tuples DEF NoTwice, Backed
<1>2. CASE s.bypass_mark_enabled
  <2> DEFINE a == Hook(s, 4)
             b == Hook(s, 6)
  <2>1. 4 \in Families /\ 6 \in Families /\ \A f \in Families : f = 4 \/ f = 6
    BY DEF Families
  <2>2. When(s.bypass_mark_enabled, apply_bypass_mark(s)) = a \o b
    BY <1>2 DEF When, apply_bypass_mark
  <2>3. /\ IsList(a) /\ NoTwice(a) /\ Backed(s, <<>>, a) /\ \A y \in HookItems(s, 4) : Comes(a, y)
        /\ \A c : Has(a, c) <=> c = EntryFlush(4, s.bypass_mark_chain) \/ \E x \in HookItems(s, 4) : c = Add(x)
    BY <1>2, <2>1, HookIs
  <2>4. /\ IsList(b) /\ NoTwice(b) /\ Backed(s, <<>>, b) /\ \A y \in HookItems(s, 6) : Comes(b, y)
        /\ \A c : Has(b, c) <=> c = EntryFlush(6, s.bypass_mark_chain) \/ \E x \in HookItems(s, 6) : c = Add(x)
    BY <1>2, <2>1, HookIs
  <2> HIDE DEF a, b
  <2>5. IsList(a \o b) /\ \A c : Has(a \o b, c) <=> Has(a, c) \/ Has(b, c)
    BY <2>3, <2>4, Joined, HasJoined
  <2>6. /\ \A x \in HookItems(s, 4) : x.fam = 4 /\ x \in Fits(s) /\ x.kind \in {"chain", "entry", "jump"}
        /\ \A x \in HookItems(s, 6) : x.fam = 6 /\ x \in Fits(s) /\ x.kind \in {"chain", "entry", "jump"}
        /\ MarkItems(s) = HookItems(s, 4) \cup HookItems(s, 6)
    BY <1>2, <2>1, HookItemsAre
  <2>7. \A f, c : ~Adds(EntryFlush(f, c))
    BY DEF Adds, EntryFlush, Flush
  <2>8. NoTwice(a \o b)
    <3>1. Apart(a, b)
      BY <2>3, <2>4, <2>6, <2>7, AddIs DEF Apart, SamePlace
    <3> QED
      BY <2>3, <2>4, <3>1, NoTwiceJoined
  <2>9. Backed(s, <<>>, a \o b)
    <3>1. Backed(s, a, b)
      BY <2>4, Tuples DEF Backed
    <3> QED
      BY <2>3, <2>4, <3>1, BackedJoined
  <2>10. ASSUME NEW y \in MarkItems(s) PROVE Comes(a \o b, y)
    <3>1. CASE y \in HookItems(s, 4)
      <4>1. y \in Items
        BY <2>6, <3>1 DEF Items
      <4>2. ~Takes(EntryFlush(6, s.bypass_mark_chain), y)
        BY <2>6, <3>1, <4>1, TakesWhat
      <4>3. Spares(b, y)
        BY <2>4, <4>2, AddIs DEF Spares
      <4> QED
        BY <2>3, <2>4, <3>1, <4>3, ComesJoined
    <3>2. CASE y \in HookItems(s, 6)
      BY <2>3, <2>4, <3>2, ComesJoined
    <3> QED
      BY <2>6, <3>1, <3>2
  <2>11. ASSUME NEW c, Has(a \o b, c)
         PROVE  \/ \E f \in Families : c = EntryFlush(f, s.bypass_mark_chain)
                \/ \E x \in Fits(s) : c = Add(x) /\ x.kind \in {"chain", "entry", "jump"}
    BY <2>1, <2>3, <2>4, <2>5, <2>6, <2>11
  <2> QED
    BY <1>2, <2>2, <2>5, <2>8, <2>9, <2>10, <2>11
<1> QED
  BY <1>1, <1>2, VariableHalf

\* The local route must be accepted before the rule that leads to it.
LEMMA TproxyListIs ==
  ASSUME NEW s \in Known
  PROVE  LET T == When(s.tproxy # NoTproxy, apply_tproxy(s))
         IN  /\ IsList(T)
             /\ \A c : Has(T, c) =>
                  /\ s.tproxy # NoTproxy
                  /\ \/ /\ c = Must(Add(LocalRoute(s))) /\ LocalRoute(s) \in Fits(s)
                        /\ LocalRoute(s).kind = "route"
                     \/ /\ c = Add(MarkRule(s)) /\ MarkRule(s) \in Fits(s) /\ MarkRule(s).kind = "rule"
                        /\ MarkRule(s).pref = s.tproxy.rule_priority
             /\ NoTwice(T)
             /\ Backed(s, <<>>, T)
             /\ \A y : Spares(T, y)
             /\ \A y \in TproxyItems(s) : Comes(T, y)
<1> DEFINE T == When(s.tproxy # NoTproxy, apply_tproxy(s))
<1>1. CASE s.tproxy = NoTproxy
  <2>1. T = <<>> /\ TproxyItems(s) = {}
    BY <1>1 DEF When, TproxyItems
  <2> QED
    BY <2>1, Tuples DEF NoTwice, Backed, Spares
<1>2. CASE s.tproxy # NoTproxy
  <2>1. T = <<Must(Add(LocalRoute(s))), Add(MarkRule(s))>> /\ TproxyItems(s) = {LocalRoute(s), MarkRule(s)}
    BY <1>2 DEF When, TproxyItems, apply_tproxy
  <2>2. /\ LocalRoute(s).kind = "route" /\ LocalRoute(s).fam = 4
        /\ LocalRoute(s).table = s.tproxy.route_table
    BY DEF LocalRoute, Route
  <2>3. /\ MarkRule(s).kind = "rule" /\ MarkRule(s).pref = s.tproxy.rule_priority
        /\ MarkRule(s).table = s.tproxy.route_table
    BY DEF MarkRule, Rule
  <2>4. LocalRoute(s) \in Fits(s) /\ MarkRule(s) \in Fits(s)
    <3>1. \A x \in UidItems(s) : x.kind = "rule" /\ x.table = s.upstream_table
      BY Fields DEF UidItems, UidRule
    <3>2. LocalRoute(s) \notin UidItems(s) /\ MarkRule(s) \notin UidItems(s)
      BY <1>2, <2>2, <2>3, <3>1, FixedHalf
    <3> QED
      BY <2>1, <3>2 DEF Fits, Footprint
  <2> HIDE DEF T
  <2>5. IsList(T) /\ \A c : Has(T, c) <=> c \in {Must(Add(LocalRoute(s))), Add(MarkRule(s))}
    BY <2>1, Tuples
  <2>6. /\ DOMAIN T = 1..2 /\ T[1] = Must(Add(LocalRoute(s))) /\ T[2] = Add(MarkRule(s))
    BY <2>1
  <2>7. NoTwice(T)
    BY <2>2, <2>3, <2>6, AddIs DEF NoTwice, SamePlace
  <2>8. Backed(s, <<>>, T)
    <3>1. ~Needy(s, LocalRoute(s))
      BY <2>2 DEF Needy
    <3>2. Ensures(T[1], T[2].what)
      BY <2>2, <2>3, <2>6, AddIs DEF Ensures, Supports
    <3> QED
      BY <2>6, <3>1, <3>2, AddIs DEF Backed
  <2>9. \A y : Spares(T, y)
    BY <2>5, AddIs DEF Spares
  <2>10. \A y \in TproxyItems(s) : Comes(T, y)
    BY <2>1, <2>5, <2>9, AddIs, ComesAtOnce
  <2> QED
    BY <1>2, <2>2, <2>3, <2>4, <2>5, <2>7, <2>8, <2>9, <2>10 DEF T
<1> QED
  BY <1>1, <1>2

\* One rule, or none.
LEMMA DhcpListIs ==
  ASSUME NEW s \in Known
  PROVE  LET D == When(s.dhcp_workaround_enabled, <<Add(DhcpRule(s))>>)
         IN  /\ IsList(D)
             /\ \A c : Has(D, c) =>
                  /\ c = Add(DhcpRule(s)) /\ DhcpRule(s) \in Fits(s) /\ DhcpRule(s).kind = "rule"
                  /\ DhcpRule(s).pref = s.dhcp_workaround_priority
             /\ NoTwice(D)
             /\ \A z : Backed(s, z, D)
             /\ \A y : Spares(D, y)
             /\ \A y \in DhcpItems(s) : Comes(D, y)
<1> DEFINE D == When(s.dhcp_workaround_enabled, <<Add(DhcpRule(s))>>)
<1>1. DhcpRule(s).kind = "rule" /\ DhcpRule(s).pref = s.dhcp_workaround_priority /\ DhcpRule(s).table = 97
  BY DEF DhcpRule, Rule
<1>2. CASE ~s.dhcp_workaround_enabled
  <2>1. D = <<>> /\ DhcpItems(s) = {}
    BY <1>2 DEF When, DhcpItems
  <2> QED
    BY <2>1, Tuples DEF NoTwice, Backed, Spares
<1>3. CASE s.dhcp_workaround_enabled
  <2>1. D = <<Add(DhcpRule(s))>> /\ DhcpItems(s) = {DhcpRule(s)}
    BY <1>3 DEF When, DhcpItems
  <2>2. DhcpRule(s) \in Fits(s)
    <3>1. \A x \in UidItems(s) : x.table = s.upstream_table
      BY Fields DEF UidItems, UidRule
    <3>2. s.upstream_table # 97
      BY FixedHalf
    <3>3. DhcpRule(s) \notin UidItems(s)
      BY <1>1, <3>1, <3>2
    <3> QED
      BY <2>1, <3>3 DEF Fits, Footprint
  <2> HIDE DEF D
  <2>3. IsList(D) /\ \A c : Has(D, c) <=> c = Add(DhcpRule(s))
    BY <2>1, Tuples
  <2>4. ~Needy(s, DhcpRule(s))
    <3>1. \A p \in Known : 97 \notin Steered(p)
      BY FixedHalf DEF Steered
    <3> QED
      BY <1>1, <3>1 DEF Needy
  <2>5. NoTwice(D)
    BY <2>1 DEF NoTwice
  <2>6. \A z : Backed(s, z, D)
    BY <2>3, <2>4, AddIs DEF Backed, Has
  <2>7. \A y : Spares(D, y)
    BY <2>3, AddIs DEF Spares
  <2>8. \A y \in DhcpItems(s) : Comes(D, y)
    BY <2>1, <2>3, <2>7, AddIs, ComesAtOnce
  <2> QED
    BY <1>1, <2>2, <2>3, <2>5, <2>6, <2>7, <2>8 DEF D
<1> QED
  BY <1>2, <1>3, VariableHalf

\* One of the commands Install(s) is made of.
Installs(s, c) ==
  \/ \E x \in Fits(s) \cup {Protected(s.app_uid)} : c = Add(x) /\ (x.kind = "route" => x \in Optional(s))
  \/ \E x \in Fits(s) : c = Must(Add(x)) /\ x.kind = "route"
  \/ \E f \in Families : c = EntryFlush(f, s.bypass_mark_chain)
  \/ c = Refusal

\* All that apply() does behind its clear: it adds nothing twice, every need is
\* met before it arises, and all of the session comes.
LEMMA InstallIs ==
  ASSUME NEW s \in Known
  PROVE  /\ IsList(Install(s))
         /\ \A c : Has(Install(s), c) => Installs(s, c)
         /\ NoTwice(Install(s))
         /\ Backed(s, <<>>, Install(s))
         /\ \A y \in Footprint(s) \ Optional(s) : Comes(Install(s), y)
<1> DEFINE P == <<Add(Protected(s.app_uid))>>
           D == When(s.dhcp_workaround_enabled, <<Add(DhcpRule(s))>>)
           R == AllMust(AddRoutes(s, 4, s.ipv4_default_routes))
           O == AddRoutes(s, 6, s.ipv6_default_routes)
           U == UidRules(s)
           M == When(s.bypass_mark_enabled, apply_bypass_mark(s))
           T == When(s.tproxy # NoTproxy, apply_tproxy(s))
           PD == P \o D
           PR == PD \o R
           PO == PR \o O
           PU == PO \o U
           PM == PU \o M
<1>1. IsList(P) /\ IsList(D) /\ IsList(R) /\ IsList(O) /\ IsList(U) /\ IsList(M) /\ IsList(T)
  BY Tuples, DhcpListIs, RouteLists, UidRulesAre, MarkListIs, TproxyListIs
<1>2. Install(s) = PM \o T
  BY DEF Install
\* What each part adds.
<1>3. \A c : Has(P, c) => c = Add(Protected(s.app_uid)) /\ c.what.kind = "protected"
  BY Tuples, AddIs, Fields
<1>4. \A c : Has(D, c) => /\ c = Add(DhcpRule(s)) /\ DhcpRule(s) \in Fits(s)
                         /\ c.what.kind = "rule" /\ c.what.pref = s.dhcp_workaround_priority
  <2>1. SUFFICES ASSUME NEW c, Has(D, c)
                 PROVE  /\ c = Add(DhcpRule(s)) /\ DhcpRule(s) \in Fits(s)
                        /\ c.what.kind = "rule" /\ c.what.pref = s.dhcp_workaround_priority
    OBVIOUS
  <2>2. /\ c = Add(DhcpRule(s)) /\ DhcpRule(s) \in Fits(s)
        /\ DhcpRule(s).kind = "rule" /\ DhcpRule(s).pref = s.dhcp_workaround_priority
    BY <2>1, DhcpListIs
  <2>3. c.what = DhcpRule(s)
    BY <2>2, AddIs
  <2> QED
    BY <2>2, <2>3
<1>5. /\ \A x \in UpstreamRoutes(s, 4, s.ipv4_default_routes) : x.kind = "route" /\ x.fam = 4 /\ x \in Fits(s)
      /\ \A x \in Optional(s) : x.kind = "route" /\ x \in Fits(s)
  <2>1. /\ \A x \in UpstreamRoutes(s, 4, s.ipv4_default_routes) : x.kind = "route" /\ x.fam = 4
        /\ \A x \in Optional(s) : x.kind = "route"
    BY Fields DEF UpstreamRoutes, Optional
  <2>2. \A x \in UidItems(s) : x.kind = "rule"
    BY Fields DEF UidItems, UidRule
  <2> QED
    BY <2>1, <2>2 DEF Fits, Footprint, Optional
<1>6. \A c : Has(R, c) => \E x \in Fits(s) : c = Must(Add(x)) /\ x.kind = "route"
  BY <1>5, RouteLists
<1>7. \A c : Has(O, c) => \E x \in Fits(s) : c = Add(x) /\ x.kind = "route" /\ x \in Optional(s)
  BY <1>5, RouteLists
<1>8. \A c : Has(U, c) =>
        \/ c = Refusal
        \/ \E x \in Fits(s) : c = Add(x) /\ x.kind = "rule" /\ x.pref \in Block(s) /\ x.table = s.upstream_table
  BY UidRulesAre
<1>9. \A c : Has(M, c) => \/ \E f \in Families : c = EntryFlush(f, s.bypass_mark_chain)
                         \/ \E x \in Fits(s) : c = Add(x) /\ x.kind \in {"chain", "entry", "jump"}
  BY MarkListIs
<1>10. \A c : Has(T, c) =>
         /\ s.tproxy # NoTproxy
         /\ \/ c = Must(Add(LocalRoute(s))) /\ LocalRoute(s) \in Fits(s) /\ LocalRoute(s).kind = "route"
            \/ /\ c = Add(MarkRule(s)) /\ MarkRule(s) \in Fits(s) /\ MarkRule(s).kind = "rule"
               /\ MarkRule(s).pref = s.tproxy.rule_priority
  BY TproxyListIs
<1>11. NoTwice(P) /\ NoTwice(D) /\ NoTwice(R) /\ NoTwice(O) /\ NoTwice(U) /\ NoTwice(M) /\ NoTwice(T)
  <2>1. NoTwice(P)
    BY <1>3 DEF NoTwice, Has, SamePlace
  <2>2. NoTwice(R)
    BY <1>6, AddIs DEF NoTwice, Has, SamePlace
  <2>3. NoTwice(O)
    BY <1>7, AddIs DEF NoTwice, Has, SamePlace
  <2> QED
    BY <2>1, <2>2, <2>3, DhcpListIs, UidRulesAre, MarkListIs, TproxyListIs
<1>12. Backed(s, <<>>, P) /\ Backed(s, P, D) /\ Backed(s, PD, R) /\ Backed(s, PR, O)
       /\ Backed(s, PU, M) /\ Backed(s, PM, T)
  <2>1. Backed(s, <<>>, P)
    BY <1>3 DEF Backed, Has, Needy
  <2>2. \A c : Has(R, c) \/ Has(O, c) => ~Needy(s, c.what)
    BY <1>6, <1>7, AddIs DEF Needy
  <2>3. Backed(s, PD, R) /\ Backed(s, PR, O)
    BY <2>2 DEF Backed, Has
  <2>4. Backed(s, P, D)
    BY DhcpListIs
  <2>5. Backed(s, PU, M)
    <3>1. Backed(s, <<>>, M)
      BY MarkListIs
    <3> QED
      BY <3>1, Tuples DEF Backed
  <2>6. Backed(s, PM, T)
    <3>1. Backed(s, <<>>, T)
      BY TproxyListIs
    <3> QED
      BY <3>1, Tuples DEF Backed
  <2> QED
    BY <2>1, <2>2, <2>3, <2>4, <2>5, <2>6
<1>13. \A f, c, y : Takes(EntryFlush(f, c), y) => y.kind = "entry"
  BY DEF Takes, EntryFlush, Flush, Matches
<1>14. /\ \A y : Spares(D, y) /\ Spares(R, y) /\ Spares(O, y) /\ Spares(U, y) /\ Spares(T, y)
       /\ \A y : y.kind # "entry" => Spares(M, y)
  BY <1>4, <1>6, <1>7, <1>9, <1>13, AddIs, UidRulesAre, TproxyListIs DEF Spares
<1>15. \A y \in UpstreamRoutes(s, 4, s.ipv4_default_routes) : Comes(R, y)
  BY <1>1, <1>14, AddIs, RouteLists, ComesAtOnce
<1>16. s.ipv4_default_routes # <<>> => \E c : Has(R, c) /\ Adds(c) /\ c.must /\ c.what.kind = "route" /\ c.what.fam = 4
              /\ c.what.table = s.upstream_table
  <2> SUFFICES ASSUME s.ipv4_default_routes # <<>>
               PROVE  \E c : Has(R, c) /\ Adds(c) /\ c.must /\ c.what.kind = "route" /\ c.what.fam = 4
                             /\ c.what.table = s.upstream_table
    OBVIOUS
  <2>1. PICK x \in UpstreamRoutes(s, 4, s.ipv4_default_routes) :
          x.kind = "route" /\ x.fam = 4 /\ x.table = s.upstream_table
    BY RouteLists
  <2>2. Has(R, Must(Add(x)))
    BY RouteLists
  <2> QED
    BY <2>1, <2>2, AddIs
<1> HIDE DEF P, D, R, O, U, M, T
<1>17. /\ IsList(PD) /\ NoTwice(PD) /\ Backed(s, <<>>, PD)
       /\ \A c : Has(PD, c) <=> Has(P, c) \/ Has(D, c)
  <2>1. Apart(P, D)
    BY <1>3, <1>4 DEF Apart, SamePlace
  <2> QED
    BY <1>1, <1>11, <1>12, <2>1, Joined, HasJoined, NoTwiceJoined, BackedJoined
<1>18. /\ IsList(PR) /\ NoTwice(PR) /\ Backed(s, <<>>, PR)
       /\ \A c : Has(PR, c) <=> Has(PD, c) \/ Has(R, c)
  <2>1. Apart(PD, R)
    BY <1>6, AddIs DEF Apart, SamePlace
  <2> QED
    BY <1>1, <1>11, <1>12, <1>17, <2>1, Joined, HasJoined, NoTwiceJoined, BackedJoined
<1>19. /\ IsList(PO) /\ NoTwice(PO) /\ Backed(s, <<>>, PO)
       /\ \A c : Has(PO, c) <=> Has(PR, c) \/ Has(O, c)
  <2>1. Apart(PR, O)
    BY <1>7, AddIs DEF Apart, SamePlace
  <2> QED
    BY <1>1, <1>11, <1>12, <1>18, <2>1, Joined, HasJoined, NoTwiceJoined, BackedJoined
<1>20. /\ IsList(PU) /\ NoTwice(PU) /\ Backed(s, <<>>, PU)
       /\ \A c : Has(PU, c) <=> Has(PO, c) \/ Has(U, c)
  <2>1. ASSUME NEW c, Has(PO, c), Adds(c) PROVE c.what.kind # "rule" \/ c.what.pref = s.dhcp_workaround_priority
    BY <1>3, <1>4, <1>6, <1>7, <1>17, <1>18, <1>19, <2>1, AddIs
  <2>2. s.dhcp_workaround_priority \notin Block(s)
    BY FixedHalf
  <2>3. Apart(PO, U)
    BY <1>8, <2>1, <2>2, AddIs, RefusalIs DEF Apart, SamePlace
  <2>4. ASSUME s.ipv4_default_routes # <<>> PROVE Backed(s, PO, U)
    <3>1. PICK c : Has(PO, c) /\ Adds(c) /\ c.must /\ c.what.kind = "route" /\ c.what.fam = 4
                   /\ c.what.table = s.upstream_table
      BY <1>16, <1>18, <1>19, <2>4
    <3>2. \A d : Has(U, d) /\ Adds(d) => Ensures(c, d.what)
      BY <1>8, <3>1, AddIs, RefusalIs DEF Ensures, Supports
    <3> QED
      BY <3>1, <3>2 DEF Backed, Has
  <2>5. ASSUME s.ipv4_default_routes = <<>> PROVE Backed(s, PO, U)
    <3>1. \A d : Has(U, d) /\ Adds(d) => ~Needy(s, d.what)
      BY <1>8, <2>5, AddIs, RefusalIs DEF Needy
    <3> QED
      BY <3>1 DEF Backed, Has
  <2>6. Backed(s, PO, U)
    BY <2>4, <2>5
  <2> QED
    BY <1>1, <1>11, <1>19, <2>3, <2>6, Joined, HasJoined, NoTwiceJoined, BackedJoined
<1>21. /\ IsList(PM) /\ NoTwice(PM) /\ Backed(s, <<>>, PM)
       /\ \A c : Has(PM, c) <=> Has(PU, c) \/ Has(M, c)
  <2>1. ASSUME NEW c, Has(PU, c), Adds(c) PROVE c.what.kind \in {"protected", "rule", "route"}
    BY <1>3, <1>4, <1>6, <1>7, <1>8, <1>17, <1>18, <1>19, <1>20, <2>1, AddIs, RefusalIs
  <2>2. ASSUME NEW c, Has(M, c), Adds(c) PROVE c.what.kind \in {"chain", "entry", "jump"}
    <3>1. \A f, d : ~Adds(EntryFlush(f, d))
      BY DEF Adds, EntryFlush, Flush
    <3> QED
      BY <1>9, <2>2, <3>1, AddIs
  <2>3. Apart(PU, M)
    BY <2>1, <2>2 DEF Apart, SamePlace
  <2> QED
    BY <1>1, <1>11, <1>12, <1>20, <2>3, Joined, HasJoined, NoTwiceJoined, BackedJoined
<1>22. /\ IsList(PM \o T) /\ NoTwice(PM \o T) /\ Backed(s, <<>>, PM \o T)
       /\ \A c : Has(PM \o T, c) <=> Has(PM, c) \/ Has(T, c)
  <2>1. ASSUME NEW c, Has(PM, c), Adds(c), c.what.kind = "rule"
        PROVE  c.what.pref = s.dhcp_workaround_priority \/ c.what.pref \in Block(s)
    <3>1. \A f, d : ~Adds(EntryFlush(f, d))
      BY DEF Adds, EntryFlush, Flush
    <3>2. ~Has(M, c)
      BY <1>9, <2>1, <3>1, AddIs
    <3> QED
      BY <1>3, <1>4, <1>6, <1>7, <1>8, <1>17, <1>18, <1>19, <1>20, <1>21, <2>1, <3>2, AddIs, RefusalIs
  <2>2. ASSUME NEW c, Has(T, c), Adds(c), NEW d, Has(PM, d), Adds(d) PROVE ~SamePlace(d.what, c.what)
    <3>1. s.tproxy.rule_priority \notin Block(s) \cup {s.dhcp_workaround_priority}
      BY <1>10, <2>2, FixedHalf
    <3> QED
      BY <1>10, <2>1, <2>2, <3>1, AddIs DEF SamePlace
  <2>3. Apart(PM, T)
    BY <2>2 DEF Apart
  <2> QED
    BY <1>1, <1>11, <1>12, <1>21, <2>3, Joined, HasJoined, NoTwiceJoined, BackedJoined
<1>23. ASSUME NEW c, Has(PM \o T, c) PROVE Installs(s, c)
  <2>1. CASE Has(P, c)
    BY <1>3, <2>1, AddIs DEF Installs
  <2>2. CASE Has(D, c)
    BY <1>4, <2>2, AddIs DEF Installs
  <2>3. CASE Has(R, c) \/ Has(O, c)
    BY <1>6, <1>7, <2>3 DEF Installs
  <2>4. CASE Has(U, c)
    BY <1>8, <2>4 DEF Installs
  <2>5. CASE Has(M, c)
    BY <1>9, <2>5 DEF Installs
  <2>6. CASE Has(T, c)
    BY <1>10, <2>6 DEF Installs
  <2> QED
    BY <1>17, <1>18, <1>19, <1>20, <1>21, <1>22, <1>23, <2>1, <2>2, <2>3, <2>4, <2>5, <2>6
<1>24. ASSUME NEW y \in Footprint(s) \ Optional(s) PROVE Comes(PM \o T, y)
  <2>1. CASE y \in UpstreamRoutes(s, 4, s.ipv4_default_routes)
    <3>1. y.kind # "entry"
      BY <1>5, <2>1
    <3>2. Comes(PR, y)
      BY <1>1, <1>15, <1>17, <2>1, ComesJoined
    <3>3. Comes(PU, y)
      BY <1>1, <1>14, <1>18, <1>19, <3>2, ComesJoined
    <3> QED
      BY <1>1, <1>14, <1>20, <1>21, <3>1, <3>3, ComesJoined
  <2>2. CASE y \in UidItems(s)
    <3>1. y.kind # "entry"
      BY <2>2, Fields DEF UidItems, UidRule
    <3>2. Comes(PU, y)
      BY <1>1, <1>19, <2>2, UidRulesAre, ComesJoined DEF U
    <3> QED
      BY <1>1, <1>14, <1>20, <1>21, <3>1, <3>2, ComesJoined
  <2>3. CASE y \in DhcpItems(s)
    <3>1. y.kind # "entry"
      <4>1. DhcpRule(s).kind = "rule"
        BY DEF DhcpRule, Rule
      <4> QED
        BY <2>3, <4>1 DEF DhcpItems
    <3>2. Comes(PD, y)
      BY <1>1, <2>3, DhcpListIs, ComesJoined DEF D
    <3>3. Comes(PO, y)
      BY <1>1, <1>14, <1>17, <1>18, <3>2, ComesJoined
    <3>4. Comes(PU, y)
      BY <1>1, <1>14, <1>19, <3>3, ComesJoined
    <3> QED
      BY <1>1, <1>14, <1>20, <1>21, <3>1, <3>4, ComesJoined
  <2>4. CASE y \in MarkItems(s)
    BY <1>1, <1>14, <1>20, <1>21, <2>4, MarkListIs, ComesJoined DEF M
  <2>5. CASE y \in TproxyItems(s)
    BY <1>1, <1>21, <2>5, TproxyListIs, ComesJoined DEF T
  <2> QED
    BY <1>24, <2>1, <2>2, <2>3, <2>4, <2>5 DEF Footprint, Optional
<1> QED
  BY <1>2, <1>22, <1>23, <1>24
-----------------------------------------------------------------------------
(* What is turned off is in nobody's place. *)

\* What a session's items can be.
LEMMA FitsAre ==
  ASSUME NEW s \in Known, NEW y \in Fits(s)
  PROVE  /\ y.kind = "rule" => \/ y.pref \in Block(s)
                               \/ s.dhcp_workaround_enabled /\ y.pref = s.dhcp_workaround_priority
                               \/ s.tproxy # NoTproxy /\ y.pref = s.tproxy.rule_priority
         /\ y.kind \in {"entry", "jump"} => s.bypass_mark_enabled
         /\ y.kind # "protected"
<1>1. CASE y \in UpstreamRoutes(s, 4, s.ipv4_default_routes) \cup UpstreamRoutes(s, 6, s.ipv6_default_routes)
  BY <1>1, Fields DEF UpstreamRoutes
<1>2. CASE y \in UidItems(s)
  <2>1. y.kind = "rule"
    BY <1>2, Fields DEF UidItems, UidRule
  <2> QED
    BY <1>2, <2>1 DEF Fits
<1>3. CASE y \in DhcpItems(s)
  <2>1. DhcpRule(s).kind = "rule" /\ DhcpRule(s).pref = s.dhcp_workaround_priority
    BY DEF DhcpRule, Rule
  <2> QED
    BY <1>3, <2>1 DEF DhcpItems
<1>4. CASE y \in MarkItems(s)
  BY <1>4, HookItemsAre, MarkIs DEF Families
<1>5. CASE y \in TproxyItems(s)
  <2>1. LocalRoute(s).kind = "route" /\ MarkRule(s).kind = "rule" /\ MarkRule(s).pref = s.tproxy.rule_priority
    BY DEF LocalRoute, Route, MarkRule, Rule
  <2> QED
    BY <1>5, <2>1 DEF TproxyItems
<1> QED
  BY <1>1, <1>2, <1>3, <1>4, <1>5 DEF Fits, Footprint

\* What is left of others is never in the place of what the session adds.
LEMMA OffIsApart ==
  ASSUME NEW s \in Known, NEW x \in TurnedOff(s), NEW y \in Fits(s)
  PROVE  ~SamePlace(x, y)
<1>1. PICK p \in Known : \/ ~s.dhcp_workaround_enabled /\ x \in DhcpItems(p)
                         \/ s.bypass_mark_chain = NoChain /\ x \in MarkItems(p)
                         \/ s.tproxy = NoTproxy /\ x \in TproxyItems(p)
  BY DEF TurnedOff
<1>2. CASE ~s.dhcp_workaround_enabled /\ x \in DhcpItems(p)
  <2>1. x = DhcpRule(s)
    BY <1>2, InCommon DEF DhcpItems
  <2>2. x.kind = "rule" /\ x.pref = s.dhcp_workaround_priority
    BY <2>1 DEF DhcpRule, Rule
  <2>3. s.dhcp_workaround_priority \notin Block(s)
        /\ (s.tproxy # NoTproxy => s.tproxy.rule_priority # s.dhcp_workaround_priority)
    BY FixedHalf
  <2> QED
    BY <1>2, <2>2, <2>3, FitsAre DEF SamePlace
<1>3. CASE s.bypass_mark_chain = NoChain /\ x \in MarkItems(p)
  <2>1. p.bypass_mark_enabled /\ x.kind \in {"chain", "entry", "jump"}
    <3>1. p.bypass_mark_enabled
      BY <1>3, MarkIs
    <3> QED
      BY <1>3, <3>1, HookItemsAre DEF Families
  <2>2. ~s.bypass_mark_enabled
    BY <1>3, VariableHalf
  <2> QED
    BY <2>1, <2>2, FitsAre DEF SamePlace
<1>4. CASE s.tproxy = NoTproxy /\ x \in TproxyItems(p)
  <2>1. p.tproxy # NoTproxy /\ x \in {LocalRoute(p), MarkRule(p)}
    BY <1>4 DEF TproxyItems
  <2>2. LocalRoute(p).kind = "route" /\ MarkRule(p).kind = "rule" /\ MarkRule(p).pref = p.tproxy.rule_priority
    BY DEF LocalRoute, Route, MarkRule, Rule
  <2>3. p.tproxy.rule_priority \notin Block(s) \cup {s.dhcp_workaround_priority}
    <3>1. p.tproxy.rule_priority \notin Block(p) \cup {p.app_tunnel_priority, p.dhcp_workaround_priority}
      BY <2>1, FixedHalf
    <3>2. Block(p) = Block(s)
      BY InCommon
    <3>3. p.dhcp_workaround_priority = s.dhcp_workaround_priority
      BY FixedHalf
    <3> QED
      BY <3>1, <3>2, <3>3
  <2> QED
    BY <1>4, <2>1, <2>2, <2>3, FitsAre DEF SamePlace
<1> QED
  BY <1>1, <1>2, <1>3, <1>4
-----------------------------------------------------------------------------
(* A handler's commands, by position. *)

\* Where the two parts of a handler are, by index.
LEMMA Shape ==
  ASSUME Handler, Busy
  PROVE  /\ arg \in Specs /\ arg \in Known /\ cmd \in {"clear", "apply"}
         /\ Cleared \in Nat /\ Len(commands) \in Nat /\ Cleared <= Len(commands)
         /\ \A j \in 1..Cleared : commands[j] = clear(arg)[j] /\ Has(clear(arg), commands[j])
         /\ cmd = "clear" => Len(commands) = Cleared
         /\ cmd = "apply" =>
              /\ Len(commands) = Cleared + Len(Install(arg))
              /\ \A j \in 1..Len(Install(arg)) : commands[Cleared + j] = Install(arg)[j]
         /\ \A j \in (Cleared + 1)..Len(commands) :
              j - Cleared \in DOMAIN Install(arg) /\ commands[j] = Install(arg)[j - Cleared]
              /\ Has(Install(arg), commands[j])
<1>1. arg \in Specs /\ arg \in Known /\ cmd \in {"clear", "apply"}
      /\ commands = IF cmd = "clear" THEN clear(arg) ELSE apply(arg)
  BY DEF Handler, Busy, Known
<1>2. IsList(clear(arg)) /\ IsList(Install(arg))
  BY <1>1, ClearHas, InstallIs
<1>3. /\ Cleared \in Nat /\ DOMAIN clear(arg) = 1..Cleared /\ Len(Install(arg)) \in Nat
      /\ DOMAIN Install(arg) = 1..Len(Install(arg))
  BY <1>2, Joined DEF Cleared
<1>4. \A j \in 1..Cleared : Has(clear(arg), clear(arg)[j])
  BY <1>3 DEF Has
<1>5. CASE cmd = "clear"
  BY <1>1, <1>3, <1>4, <1>5 DEF Cleared
<1>6. CASE cmd = "apply"
  <2>1. commands = clear(arg) \o Install(arg)
    BY <1>1, <1>6 DEF apply
  <2>2. /\ Len(commands) = Cleared + Len(Install(arg))
        /\ \A j \in 1..Cleared : commands[j] = clear(arg)[j]
        /\ \A j \in 1..Len(Install(arg)) : commands[Cleared + j] = Install(arg)[j]
    BY <1>2, <2>1, Joined DEF Cleared
  <2>3. ASSUME NEW j \in (Cleared + 1)..Len(commands)
        PROVE  j - Cleared \in DOMAIN Install(arg) /\ commands[j] = Install(arg)[j - Cleared]
               /\ Has(Install(arg), commands[j])
    <3>1. j - Cleared \in 1..Len(Install(arg)) /\ Cleared + (j - Cleared) = j
      BY <1>3, <2>2
    <3>2. commands[j] = Install(arg)[j - Cleared]
      BY <2>2, <3>1
    <3> QED
      BY <1>3, <3>1, <3>2 DEF Has
  <2> QED
    BY <1>1, <1>3, <1>4, <1>6, <2>2, <2>3
<1> QED
  BY <1>1, <1>5, <1>6

\* A handler that ends, well or not, keeps what holds between handlers.
LEMMA Unlocking ==
  ASSUME Types, NothingStacks, Unlock, UNCHANGED kernel,
         spec' \in Specs \cup {NoSpec}, AppliedIsWhole'
  PROVE  IInv'
<1>1. cmd' = "idle" /\ arg' = NoSpec /\ commands' = <<>> /\ ran' = 0 /\ kernel' = kernel
  BY DEF Unlock
<1>2. Types' /\ Handler'
  BY <1>1 DEF Types, Handler
<1>3. NothingStacks'
  BY <1>1 DEF NothingStacks
<1>4. Going' /\ WayIsCleared' /\ Supported' /\ Made'
  BY <1>1 DEF Going, WayIsCleared, Supported, Made, Busy
<1> QED
  BY <1>2, <1>3, <1>4 DEF IInv

\* A reassert empties the table its spec names and adds to it.
LEMMA ReassertIs ==
  ASSUME NEW s \in Known, NEW r4 \in Dumps, NEW r6 \in Dumps
  PROVE  LET a == reassert_upstream_routes(s, r4, r6)
         IN  /\ Len(a) \in Nat /\ DOMAIN a = 1..Len(a)
             /\ \A j \in DOMAIN a : \/ \E f \in Families : a[j] = RouteFlush(f, s.upstream_table)
                                    \/ \E x \in Uplinks(s) : a[j] = Add(x)
<1> DEFINE F == <<RouteFlush(4, s.upstream_table), RouteFlush(6, s.upstream_table)>>
           A4 == AddRoutes(s, 4, r4)
           A6 == AddRoutes(s, 6, r6)
           Fine(c) == \/ \E f \in Families : c = RouteFlush(f, s.upstream_table)
                      \/ \E x \in Uplinks(s) : c = Add(x)
<1>1. 4 \in Families /\ 6 \in Families
  BY DEF Families
<1>2. IsList(F) /\ \A c : Has(F, c) => Fine(c)
  BY <1>1, Tuples
<1>3. ASSUME NEW f \in Families, NEW r \in Dumps
      PROVE  IsList(AddRoutes(s, f, r)) /\ \A c : Has(AddRoutes(s, f, r), c) => Fine(c)
  <2> DEFINE a == AddRoutes(s, f, r)
             x(i) == Route(f, s.upstream_table, r[i].via, r[i].metric)
  <2>1. Len(r) \in Nat /\ DOMAIN r = 1..Len(r) /\ \A i \in DOMAIN r : r[i] \in [via : STRING, metric : Nat]
    <3> DEFINE V == [via : STRING, metric : Nat]
    <3>1. r \in Seq(V)
      BY VariableHalf
    <3> HIDE DEF V
    <3>2. Len(r) \in Nat /\ DOMAIN r = 1..Len(r) /\ \A i \in DOMAIN r : r[i] \in V
      BY <3>1
    <3> QED
      BY <3>2 DEF V
  <2>2. a = [i \in 1..Len(r) |-> Add(x(i))]
    BY <2>1 DEF AddRoutes
  <2>3. \A i \in 1..Len(r) : x(i) \in Uplinks(s)
    BY <2>1 DEF Uplinks
  <2> HIDE DEF a, x
  <2>4. IsList(a) /\ DOMAIN a = 1..Len(r)
    BY <2>1, <2>2, Listed
  <2>5. \A c : Has(a, c) => Fine(c)
    BY <2>2, <2>3, <2>4 DEF Has
  <2> QED
    BY <2>4, <2>5 DEF a
<1>4. IsList(A4) /\ IsList(A6) /\ \A c : Has(A4, c) \/ Has(A6, c) => Fine(c)
  BY <1>1, <1>3
<1>5. reassert_upstream_routes(s, r4, r6) = (F \o A4) \o A6
  BY DEF reassert_upstream_routes
<1> HIDE DEF F, A4, A6, Fine
<1>6. IsList(F \o A4) /\ \A c : Has(F \o A4, c) <=> Has(F, c) \/ Has(A4, c)
  BY <1>2, <1>4, Joined, HasJoined
<1>7. /\ IsList((F \o A4) \o A6)
      /\ \A c : Has((F \o A4) \o A6, c) <=> Has(F \o A4, c) \/ Has(A6, c)
  BY <1>4, <1>6, Joined, HasJoined
<1> DEFINE a == (F \o A4) \o A6
<1>8. Len(a) \in Nat /\ DOMAIN a = 1..Len(a)
  BY <1>7, Joined, Tuples
<1>9. \A j \in DOMAIN a : Fine(a[j])
  BY <1>2, <1>4, <1>6, <1>7 DEF Has
<1> QED
  BY <1>5, <1>8, <1>9 DEF Fine

\* A command is run, or it is one that must succeed and the handler gives up.
LEMMA ExecIs ==
  ASSUME IInv, Exec
  PROVE  \/ /\ Leaves(kernel, commands[ran + 1], kernel') /\ ran' = ran + 1 /\ ran' \in 1..Len(commands)
            /\ kernel' \in After(kernel, commands[ran + 1]) \/ ~commands[ran + 1].must
            /\ UNCHANGED <<cmd, arg, commands, answer, spec>>
            /\ Busy \/ cmd = "reassert"
         \/ commands[ran + 1].must /\ UNCHANGED kernel /\ IInv'
<1> DEFINE c == commands[ran + 1]
           outcomes == After(kernel, c)
<1>1. ran < Len(commands) /\ ran \in 0..Len(commands)
  BY DEF IInv, Types, Exec
<1>2. Busy \/ cmd = "reassert"
  <2>1. commands # <<>>
    BY <1>1, Tuples
  <2>2. NoSpec \notin Specs
    BY VariableHalf DEF Known
  <2> QED
    BY <2>1, <2>2 DEF IInv, Handler, Busy
<1>3. Len(commands) \in Nat
  <2>1. CASE Busy
    BY <2>1, Shape DEF IInv
  <2>2. CASE cmd = "reassert"
    <3>1. PICK r4 \in Dumps, r6 \in Dumps : commands = reassert_upstream_routes(arg, r4, r6)
      BY <2>2 DEF IInv, Handler
    <3> QED
      BY <2>2, <3>1, ReassertIs DEF IInv, Handler, Known
  <2> QED
    BY <1>2, <2>1, <2>2
<1>4. CASE /\ \/ kernel' \in outcomes
              \/ (outcomes = {} \/ Gone(c)) /\ ~c.must /\ UNCHANGED kernel
           /\ ran' = ran + 1
           /\ UNCHANGED <<cmd, arg, commands, answer>>
  <2>1. spec' = spec
    BY DEF Exec
  <2>2. Leaves(kernel, c, kernel') /\ (kernel' \in outcomes \/ ~c.must)
    BY <1>4 DEF Leaves
  <2>3. ran' \in 1..Len(commands)
    BY <1>1, <1>3, <1>4
  <2> QED
    BY <1>2, <1>4, <2>1, <2>2, <2>3
<1>5. CASE c.must /\ Unlock /\ answer' = "apply failed" /\ UNCHANGED kernel
  <2>1. AppliedIsWhole'
    BY <1>5 DEF AppliedIsWhole
  <2>2. spec' \in Specs \cup {NoSpec}
    BY DEF IInv, Types, Exec
  <2> QED
    BY <1>5, <2>1, <2>2, Unlocking DEF IInv
<1> QED
  BY <1>4, <1>5 DEF Exec
-----------------------------------------------------------------------------
(* Every command keeps the invariant. *)

\* A table that rules lead to has a route.
Routed(k, t) == \E r \in DOMAIN k : r.kind = "route" /\ r.fam = 4 /\ r.table = t

\* A table has an IPv4 route or it has none.
LEMMA RoutedIs ==
  ASSUME NEW k, DOMAIN k \subseteq Items, NEW t
  PROVE  Present(k, [kind |-> "route", fam |-> 4, table |-> t]) # {} <=> Routed(k, t)
BY Matching DEF Present, BagToSet, Routed

\* One command of clear(): the kernel loses what it takes, no more.
LEMMA ClearingTakes ==
  ASSUME IInv, Busy, ran < Cleared, NEW m, Leaves(kernel, commands[ran + 1], m)
  PROVE  Single(m) /\ \A x : x \in DOMAIN m <=> x \in DOMAIN kernel /\ ~Takes(commands[ran + 1], x)
<1> DEFINE c == commands[ran + 1]
<1>1. ran \in Nat /\ Cleared \in Nat /\ ran + 1 \in 1..Cleared /\ arg \in Known /\ Has(clear(arg), c)
      /\ Leaves(kernel, c, m)
  BY Shape DEF IInv, Types
<1> HIDE DEF c
<1>2. TakesCleanly(c)
  BY <1>1, ClearCommand
<1>3. Single(kernel) /\ DOMAIN kernel \subseteq Items
  BY DEF IInv, NothingStacks, Single, BagToSet, Types
<1>4. CASE c.verb = "flush"
  <2>1. \A x : Takes(c, x) <=> Matches(x, c.what)
    BY <1>4 DEF Takes
  <2>2. Single(m) /\ \A x : x \in DOMAIN m <=> x \in DOMAIN kernel /\ ~Matches(x, c.what)
    BY ONLY <1>1, <1>3, <1>4, FlushLeaves
  <2> QED
    BY <2>1, <2>2 DEF c
<1>5. CASE c.verb = "del"
  <2>1. \A x : Takes(c, x) <=> Matches(x, c.what)
    BY <1>5 DEF Takes
  <2>2. \A x, y \in DOMAIN kernel : Matches(x, c.what) /\ Matches(y, c.what) => x = y
    BY <1>2, <1>3, <1>5, <2>1 DEF IInv, NothingStacks, BagToSet, TakesCleanly
  <2>3. ASSUME NEW x \in DOMAIN kernel, Matches(x, c.what), InUse(kernel, x) PROVE FALSE
    <3>1. x.kind = "chain" /\ c.what = x /\ x.chain \notin BuiltIn
      BY <1>2, <1>3, <2>1, <2>3 DEF InUse, TakesCleanly
    <3>2. PICK y \in DOMAIN kernel : /\ y.kind \in {"entry", "jump"} /\ y.fam = x.fam
                                     /\ y.chain = x.chain \/ (y.kind = "jump" /\ y.at = x.chain)
      BY <2>3 DEF InUse, BagToSet
    <3>3. y.kind = "jump" => y.at = "OUTPUT"
      BY <1>3, ItemKinds, Fields
    <3>4. Blocks(y, c)
      BY <1>5, <3>1, <3>2, <3>3 DEF Blocks, BuiltIn
    <3>5. \E i \in (ran + 1)..((ran + 1) - 1) : Takes(commands[i], y)
      BY <1>1, <3>4 DEF IInv, WayIsCleared, BagToSet, c
    <3> QED
      BY <1>1, <3>5
  <2>4. \A x \in DOMAIN kernel : Matches(x, c.what) => ~Repeated(x)
    BY <1>2, <1>3, <1>5, <2>1, OnlyEntries DEF TakesCleanly
  <2>5. Single(m) /\ \A x : x \in DOMAIN m <=> x \in DOMAIN kernel /\ ~(Matches(x, c.what) /\ ~InUse(kernel, x))
    BY ONLY <1>1, <1>3, <1>5, <2>2, <2>4, DelLeaves
  <2> QED
    BY <2>1, <2>3, <2>5 DEF c
<1> QED
  BY <1>2, <1>4, <1>5 DEF TakesCleanly

\* One command of the clear keeps the invariant.
LEMMA ClearingKeeps ==
  ASSUME IInv, Busy, ran < Cleared, Leaves(kernel, commands[ran + 1], kernel'), ran' = ran + 1,
         UNCHANGED <<cmd, arg, commands, answer, spec>>
  PROVE  IInv'
<1> DEFINE c == commands[ran + 1]
<1>1. /\ ran \in Nat /\ Cleared \in Nat /\ ran + 1 \in 1..Cleared /\ arg \in Known /\ Has(clear(arg), c)
      /\ Len(commands) \in Nat /\ Cleared <= Len(commands)
  BY Shape DEF IInv, Types
<1>2. Single(kernel') /\ \A x : x \in DOMAIN kernel' <=> x \in DOMAIN kernel /\ ~Takes(c, x)
  BY ClearingTakes
<1>3. DOMAIN kernel \subseteq Items
  BY DEF IInv, Types, BagToSet
<1>4. Cleared' = Cleared /\ (Busy' <=> Busy) /\ Installing' = Installing
  <2>1. Cleared' = Cleared /\ (Busy' <=> Busy)
    BY DEF Cleared, Busy
  <2> QED
    BY <1>1, <2>1 DEF Installing
<1> HIDE DEF c
<1>5. Types' /\ Handler'
  BY <1>1, <1>2, <1>3 DEF IInv, Types, Handler, BagToSet, Single
<1>6. NothingStacks'
  BY <1>2 DEF IInv, NothingStacks, Single, BagToSet
<1>8. Going'
  <2>1. SUFFICES ASSUME NEW x \in DOMAIN kernel', x.kind # "protected", x \notin TurnedOff(arg)
                 PROVE  \E j \in (ran' + 1)..Cleared : Takes(commands[j], x)
    BY <1>4 DEF Going, BagToSet
  <2>2. x \in DOMAIN kernel /\ ~Takes(c, x)
    BY <1>2
  <2>3. (Cleared + 1)..ran = {}
    BY <1>1
  <2>4. PICK j \in (ran + 1)..Cleared : Takes(commands[j], x)
    BY <2>1, <2>2, <2>3 DEF IInv, Going, BagToSet
  <2>5. j # ran + 1
    BY <2>2, <2>4 DEF c
  <2> QED
    BY <1>1, <2>4, <2>5
<1>9. WayIsCleared'
  <2>1. SUFFICES ASSUME NEW j \in (ran' + 1)..Cleared, NEW y \in DOMAIN kernel', Blocks(y, commands[j])
                 PROVE  \E i \in (ran' + 1)..(j - 1) : Takes(commands[i], y)
    BY <1>4 DEF WayIsCleared, BagToSet
  <2>2. y \in DOMAIN kernel /\ ~Takes(c, y)
    BY <1>2
  <2>3. j \in (ran + 1)..Cleared
    BY <1>1
  <2>4. PICK i \in (ran + 1)..(j - 1) : Takes(commands[i], y)
    BY <2>1, <2>2, <2>3 DEF IInv, WayIsCleared, BagToSet
  <2>5. i # ran + 1
    BY <2>2, <2>4 DEF c
  <2> QED
    BY <1>1, <2>4, <2>5
<1>10. Supported'
  <2>1. ~(ran >= Cleared)
    BY <1>1
  <2> QED
    BY <1>4, <2>1 DEF IInv, Supported
<1>11. Made'
  <2>1. ~(ran >= Cleared)
    BY <1>1
  <2>2. \A y, j : Coming(y, j)' <=> Coming(y, j)
    BY DEF Coming
  <2> QED
    BY <1>4, <2>1, <2>2 DEF IInv, Made
<1>12. AppliedIsWhole'
  BY <1>4 DEF AppliedIsWhole, Busy
<1> QED
  BY <1>5, <1>6, <1>8, <1>9, <1>10, <1>11, <1>12 DEF IInv

\* Nothing is where the next command of Install() puts its item.
LEMMA Fresh ==
  ASSUME IInv, Busy, ran >= Cleared, ran < Len(commands), Adds(commands[ran + 1]),
         NEW y \in DOMAIN kernel
  PROVE  ~SamePlace(y, commands[ran + 1].what)
<1> DEFINE c == commands[ran + 1]
<1>1. /\ ran \in Nat /\ Cleared \in Nat /\ Len(commands) \in Nat /\ arg \in Known
      /\ ran + 1 \in (Cleared + 1)..Len(commands) /\ Has(Install(arg), c)
  BY Shape DEF IInv, Types
<1>2. c.what \in Fits(arg) \/ c.what.kind = "protected"
  <2>1. Installs(arg, c)
    BY <1>1, InstallIs
  <2>2. \A f, d : ~Adds(EntryFlush(f, d))
    BY DEF Adds, EntryFlush, Flush
  <2> QED
    BY <2>1, <2>2, AddIs, RefusalIs, Fields DEF Installs
<1>3. SUFFICES ASSUME SamePlace(y, c.what) PROVE FALSE
  OBVIOUS
<1>4. y.kind # "protected" /\ c.what.kind # "protected"
  BY <1>3 DEF SamePlace
<1>5. y \notin TurnedOff(arg)
  BY <1>1, <1>2, <1>3, <1>4, OffIsApart
<1>6. (ran + 1)..Cleared = {}
  BY <1>1
<1>7. PICK i \in (Cleared + 1)..ran : Adds(commands[i]) /\ commands[i].what = y
  BY <1>4, <1>5, <1>6 DEF IInv, Going, BagToSet
<1>8. /\ i - Cleared \in DOMAIN Install(arg) /\ commands[i] = Install(arg)[i - Cleared]
      /\ (ran + 1) - Cleared \in DOMAIN Install(arg) /\ c = Install(arg)[(ran + 1) - Cleared]
      /\ i - Cleared # (ran + 1) - Cleared
  BY <1>1, Shape DEF IInv
<1>9. NoTwice(Install(arg))
  BY <1>1, InstallIs
<1> QED
  BY <1>3, <1>7, <1>8, <1>9 DEF NoTwice

\* One command of Install() that does not fail it.
LEMMA Installing1 ==
  ASSUME IInv, Busy, ran >= Cleared, ran < Len(commands), NEW m, Leaves(kernel, commands[ran + 1], m),
         m \in After(kernel, commands[ran + 1]) \/ ~commands[ran + 1].must
  PROVE  LET c == commands[ran + 1]
         IN  /\ Installs(arg, c) /\ c # Refusal
             /\ Single(m) /\ DOMAIN m \subseteq DOMAIN kernel \cup {x \in Items : Adds(c) /\ x = c.what}
             /\ \A x \in DOMAIN kernel : x \in DOMAIN m \/ (Takes(c, x) /\ x.kind = "entry")
             /\ Adds(c) => \/ c.what \in DOMAIN m
                           \/ (Refused(kernel, c.what) \/ Gone(c)) /\ ~c.must /\ m = kernel
<1> DEFINE c == commands[ran + 1]
<1>1. arg \in Known /\ Has(Install(arg), c) /\ Leaves(kernel, c, m)
  <2>1. ran \in Nat /\ Cleared \in Nat /\ Len(commands) \in Nat
    BY Shape DEF IInv, Types
  <2>2. ran + 1 \in (Cleared + 1)..Len(commands)
    BY <2>1
  <2> QED
    BY <2>2, Shape DEF IInv
<1>2. Installs(arg, c)
  BY <1>1, InstallIs
<1>3. Single(kernel) /\ DOMAIN kernel \subseteq Items
  BY DEF IInv, NothingStacks, Single, BagToSet, Types
<1>4. \A y \in DOMAIN kernel : Adds(c) => ~SamePlace(y, c.what)
  BY Fresh
<1> HIDE DEF c
<1>5. c # Refusal
  <2>1. After(kernel, Refusal) = {}
    BY DEF After, Refusal
  <2> QED
    BY <2>1, RefusalIs DEF c
<1>6. ASSUME NEW f \in Families, c = EntryFlush(f, arg.bypass_mark_chain)
      PROVE  /\ Single(m) /\ DOMAIN m \subseteq DOMAIN kernel /\ ~Adds(c)
             /\ \A x \in DOMAIN kernel : x \in DOMAIN m \/ (Takes(c, x) /\ x.kind = "entry")
  <2>1. c.verb = "flush" /\ ~Adds(c) /\ \A x : Takes(c, x) <=> Matches(x, c.what)
    BY <1>6 DEF EntryFlush, Flush, Takes, Adds
  <2>2. Single(m) /\ \A x : x \in DOMAIN m <=> x \in DOMAIN kernel /\ ~Matches(x, c.what)
    BY ONLY <1>1, <1>3, <2>1, FlushLeaves
  <2>3. \A x \in DOMAIN kernel : Takes(c, x) => x.kind = "entry"
    BY <1>3, <1>6, TakesWhat
  <2> QED
    BY <2>1, <2>2, <2>3
<1>7. ASSUME Adds(c), c.what \in Items
      PROVE  /\ Single(m) /\ DOMAIN m \subseteq DOMAIN kernel \cup {c.what} /\ DOMAIN kernel \subseteq DOMAIN m
             /\ \/ c.what \in DOMAIN m
                \/ (Refused(kernel, c.what) \/ Gone(c)) /\ ~c.must /\ m = kernel
  <2>1. Refused(kernel, c.what) \/ c.what \notin DOMAIN kernel \/ Repeated(c.what)
    <3>1. ASSUME c.what \in DOMAIN kernel, ~Repeated(c.what) PROVE Refused(kernel, c.what)
      <4>1. CASE c.what.kind \in {"rule", "chain", "protected"}
        BY <3>1, <4>1 DEF Refused, BagIn, BagToSet
      <4>2. CASE c.what.kind = "route"
        <5>1. PICK f, t, v, n : c.what = Route(f, t, v, n)
          BY <1>7, <4>2, ItemKinds, Fields
        <5>2. Matches(c.what, [kind |-> "route", fam |-> c.what.fam, table |-> c.what.table, metric |-> c.what.metric])
          BY <5>1 DEF Matches, Route
        <5> QED
          BY <3>1, <4>2, <5>2 DEF Refused, Present, BagToSet
      <4>3. CASE c.what.kind \in {"entry", "jump"}
        BY <1>4, <1>7, <3>1, <4>3 DEF SamePlace
      <4>4. c.what.kind \in {"rule", "chain", "protected", "route", "entry", "jump"}
        BY <1>7, ItemKinds, Fields
      <4> QED
        BY <4>1, <4>2, <4>3, <4>4
    <3> QED
      BY <3>1
  <2>2. /\ Single(m)
        /\ \/ ~Refused(kernel, c.what) /\ DOMAIN m = DOMAIN kernel \cup {c.what}
           \/ (Refused(kernel, c.what) \/ Gone(c)) /\ m = kernel /\ m \notin After(kernel, c)
    BY ONLY <1>1, <1>3, <1>7, <2>1, AddLeaves
  <2>3. m \notin After(kernel, c) => ~c.must
    BY DEF c
  <2> QED
    BY <2>2, <2>3
<1>8. ASSUME NEW x \in Fits(arg) \cup {Protected(arg.app_uid)} PROVE x \in Items
  BY <1>1 DEF Items
<1>9. (\E f \in Families : c = EntryFlush(f, arg.bypass_mark_chain)) \/ (Adds(c) /\ c.what \in Items)
  BY <1>2, <1>5, <1>8, AddIs DEF Installs
<1> QED
  BY <1>2, <1>5, <1>6, <1>7, <1>9 DEF c

\* What the next item of Install() needs is there.
LEMMA NeedsMet ==
  ASSUME IInv, Busy, ran >= Cleared, ran < Len(commands), Adds(commands[ran + 1]),
         Needy(arg, commands[ran + 1].what)
  PROVE  \E x \in DOMAIN kernel : Supports(x, commands[ran + 1].what)
<1>1. /\ ran \in Nat /\ Cleared \in Nat /\ Len(commands) \in Nat /\ ran + 1 \in (Cleared + 1)..Len(commands)
  BY Shape DEF IInv, Types
<1>2. (ran + 1)..((ran + 1) - 1) = {} /\ Installing = ran
  BY <1>1 DEF Installing
<1>3. cmd = "apply" /\ ran + 1 \in (Installing + 1)..Len(commands)
  BY <1>1, <1>2, Shape DEF IInv
<1> QED
  BY <1>2, <1>3 DEF IInv, Supported, BagToSet

\* One command of the rest of apply() keeps the invariant.
LEMMA InstallingKeeps ==
  ASSUME IInv, Busy, ran >= Cleared, Leaves(kernel, commands[ran + 1], kernel'), ran' = ran + 1,
         ran' \in 1..Len(commands),
         kernel' \in After(kernel, commands[ran + 1]) \/ ~commands[ran + 1].must,
         UNCHANGED <<cmd, arg, commands, answer, spec>>
  PROVE  IInv'
<1> DEFINE c == commands[ran + 1]
<1>1. /\ ran \in Nat /\ Cleared \in Nat /\ Len(commands) \in Nat /\ ran < Len(commands) /\ arg \in Known
      /\ ran + 1 \in (Cleared + 1)..Len(commands)
  BY Shape DEF IInv, Types
<1>2. /\ Installs(arg, c) /\ c # Refusal
      /\ Single(kernel') /\ DOMAIN kernel' \subseteq DOMAIN kernel \cup {x \in Items : Adds(c) /\ x = c.what}
      /\ \A x \in DOMAIN kernel : x \in DOMAIN kernel' \/ (Takes(c, x) /\ x.kind = "entry")
      /\ Adds(c) => \/ c.what \in DOMAIN kernel'
                    \/ (Refused(kernel, c.what) \/ Gone(c)) /\ ~c.must /\ kernel' = kernel
  BY <1>1, Installing1
<1>3. DOMAIN kernel \subseteq Items
  BY DEF IInv, Types, BagToSet
<1>4. /\ Cleared' = Cleared /\ (Busy' <=> Busy) /\ Installing = ran /\ Installing' = ran + 1
      /\ ran' >= Cleared /\ \A j : Coming(j[1], j[2])' <=> Coming(j[1], j[2])
  <2>1. Cleared' = Cleared /\ (Busy' <=> Busy)
    BY DEF Cleared, Busy
  <2> QED
    BY <1>1, <2>1 DEF Installing, Coming
<1>5. \A y \in DOMAIN kernel : Adds(c) => ~SamePlace(y, c.what)
  BY <1>1, Fresh
<1>6. Adds(c) /\ Needy(arg, c.what) => \E x \in DOMAIN kernel : Supports(x, c.what)
  BY <1>1, NeedsMet
<1> HIDE DEF c
<1>7. Types' /\ Handler'
  BY <1>1, <1>2, <1>3 DEF IInv, Types, Handler, BagToSet, Single
<1>8. NothingStacks'
  <2>1. SUFFICES ASSUME NEW x \in DOMAIN kernel', NEW y \in DOMAIN kernel',
                        x.kind = "rule", y.kind = "rule", x.fam = y.fam, x.pref = y.pref
                 PROVE  x = y
    BY <1>2 DEF NothingStacks, Single, BagToSet
  <2>2. CASE x \in DOMAIN kernel /\ y \in DOMAIN kernel
    BY <2>1, <2>2 DEF IInv, NothingStacks, BagToSet
  <2>3. SamePlace(x, y) /\ SamePlace(y, x)
    BY <2>1, OnlyEntries DEF SamePlace
  <2> QED
    BY <1>2, <1>5, <2>2, <2>3
<1>10. Going'
  <2>1. SUFFICES ASSUME NEW x \in DOMAIN kernel', x.kind # "protected", x \notin TurnedOff(arg)
                 PROVE  \E i \in (Cleared + 1)..ran' : Adds(commands[i]) /\ commands[i].what = x
    BY <1>4 DEF Going, BagToSet
  <2>2. CASE x \in DOMAIN kernel
    <3>1. (ran + 1)..Cleared = {}
      BY <1>1
    <3>2. PICK i \in (Cleared + 1)..ran : Adds(commands[i]) /\ commands[i].what = x
      BY <2>1, <2>2, <3>1 DEF IInv, Going, BagToSet
    <3> QED
      BY <1>1, <3>2
  <2>3. CASE x \notin DOMAIN kernel
    BY <1>1, <1>2, <2>3 DEF c
  <2> QED
    BY <2>2, <2>3
<1>11. WayIsCleared'
  <2>1. (ran' + 1)..Cleared = {}
    BY <1>1
  <2> QED
    BY <1>4, <2>1 DEF WayIsCleared
<1>12. Supported'
  <2>1. SUFFICES ASSUME cmd = "apply", NEW j \in (ran + 2)..Len(commands), Adds(commands[j]),
                        Needy(arg, commands[j].what)
                 PROVE  \/ \E x \in DOMAIN kernel' : Supports(x, commands[j].what)
                        \/ \E i \in (ran + 2)..(j - 1) : Ensures(commands[i], commands[j].what)
    <3>1. (ran + 1) + 1 = ran + 2
      BY <1>1
    <3> QED
      BY <1>4, <3>1 DEF Supported, BagToSet
  <2> DEFINE y == commands[j].what
  <2>2. \A x : Supports(x, y) => x.kind \in {"route", "chain"}
    BY DEF Supports
  <2> HIDE DEF y
  <2>3. CASE \E x \in DOMAIN kernel : Supports(x, y)
    BY <1>2, <2>2, <2>3 DEF y
  <2>4. CASE Ensures(c, y)
    <3>1. Adds(c) /\ Supports(c.what, y) /\ (c.must \/ c.what.kind = "chain")
      BY <2>4 DEF Ensures
    <3>2. CASE c.what \in DOMAIN kernel'
      BY <3>1, <3>2 DEF y
    <3>3. CASE (Refused(kernel, c.what) \/ Gone(c)) /\ ~c.must /\ kernel' = kernel
      <4>1. c.what \in DOMAIN kernel
        BY <3>1, <3>3 DEF Refused, Gone, BagIn, BagToSet
      <4> QED
        BY <3>1, <3>3, <4>1 DEF y
    <3> QED
      BY <1>2, <3>1, <3>2, <3>3
  <2>5. CASE \E i \in (ran + 1)..(j - 1) : Ensures(commands[i], y)
    <3>1. PICK i \in (ran + 1)..(j - 1) : Ensures(commands[i], y)
      BY <2>5
    <3>2. CASE i = ran + 1
      BY <2>4, <3>1, <3>2 DEF c
    <3>3. CASE i # ran + 1
      BY <1>1, <3>1, <3>3 DEF y
    <3> QED
      BY <3>2, <3>3
  <2>6. j \in (ran + 1)..Len(commands)
    BY <1>1
  <2> QED
    BY <1>4, <2>1, <2>3, <2>5, <2>6 DEF IInv, Supported, BagToSet, y
<1>13. Made'
  <2>1. SUFFICES ASSUME cmd = "apply", NEW y \in Footprint(arg) \ Optional(arg)
                 PROVE  \/ /\ y \in DOMAIN kernel'
                           /\ \A j \in (ran + 2)..Len(commands) : ~Takes(commands[j], y)
                        \/ \E j \in (ran + 2)..Len(commands) : Coming(y, j)
    <3>1. (ran + 1) + 1 = ran + 2
      BY <1>1
    <3>2. \A z, j : Coming(z, j)' <=> Coming(z, j)
      BY DEF Coming
    <3> QED
      BY <1>4, <3>1, <3>2 DEF Made, BagToSet
  <2>2. CASE y \in DOMAIN kernel /\ \A j \in (ran + 1)..Len(commands) : ~Takes(commands[j], y)
    <3>1. ran + 1 \in (ran + 1)..Len(commands) /\ (ran + 2)..Len(commands) \subseteq (ran + 1)..Len(commands)
      BY <1>1
    <3> QED
      BY <1>2, <2>2, <3>1 DEF c
  <2>3. CASE Coming(y, ran + 1)
    <3>1. Adds(c) /\ c.what = y /\ \A k \in (ran + 2)..Len(commands) : ~Takes(commands[k], y)
      <4>1. (ran + 1) + 1 = ran + 2
        BY <1>1
      <4> QED
        BY <1>2, <2>3, <4>1 DEF Coming, c
    <3>2. CASE (Refused(kernel, y) \/ Gone(c)) /\ ~c.must /\ kernel' = kernel
      <4>1. y.kind # "route"
        <5>1. ASSUME y.kind = "route" PROVE c.must
          <6>1. \A f, d : ~Adds(EntryFlush(f, d))
            BY DEF Adds, EntryFlush, Flush
          <6>2. CASE \E x \in Fits(arg) : c = Must(Add(x))
            BY <6>2, AddIs
          <6>3. \A x : c = Add(x) => x = y
            BY <3>1, AddIs
          <6> QED
            BY <1>2, <2>1, <3>1, <5>1, <6>1, <6>2, <6>3 DEF Installs
        <5> QED
          BY <3>2, <5>1
      <4>2. CASE y.kind \in {"rule", "chain", "protected"}
        <5>1. y \in DOMAIN kernel
          BY <3>1, <3>2, <4>2 DEF Refused, Gone, BagIn, BagToSet
        <5> QED
          BY <3>1, <3>2, <5>1
      <4>3. CASE y.kind \in {"entry", "jump"}
        <5>1. PICK x \in DOMAIN kernel : x.kind = "chain" /\ x.fam = y.fam /\ x.chain = y.chain
          BY <1>6, <3>1, <4>3 DEF Needy, Supports
        <5>2. x = Chain(y.fam, y.chain)
          BY <1>3, <5>1, ItemKinds, Fields
        <5>3. y \in Items
          <6>1. y.kind # "rule"
            BY <4>3
          <6>2. y \in Fits(arg)
            BY <2>1, <6>1, Fields DEF Fits, UidItems, UidRule
          <6> QED
            BY <1>1, <6>2 DEF Items
        <5>4. y.kind = "jump" => y.at = "OUTPUT"
          BY <5>3, ItemKinds, Fields
        <5>5. ~Refused(kernel, y) /\ ~Gone(c)
          BY <3>1, <4>3, <5>1, <5>2, <5>4 DEF Refused, Gone, HasChain, BagIn, BagToSet, BuiltIn
        <5> QED
          BY <3>2, <5>5
      <4>4. y.kind \in {"rule", "chain", "protected", "route", "entry", "jump"}
        <5>1. y \in Items \/ y.kind = "rule"
          BY <1>1, <2>1, Fields DEF Fits, UidItems, UidRule, Items
        <5> QED
          BY <5>1, ItemKinds, Fields
      <4> QED
        BY <4>1, <4>2, <4>3, <4>4
    <3>3. CASE y \in DOMAIN kernel'
      BY <3>1, <3>3
    <3> QED
      BY <1>2, <3>1, <3>2, <3>3
  <2>4. CASE \E j \in (ran + 1)..Len(commands) : Coming(y, j)
    <3>1. PICK j \in (ran + 1)..Len(commands) : Coming(y, j)
      BY <2>4
    <3>2. j = ran + 1 \/ j \in (ran + 2)..Len(commands)
      BY <1>1
    <3> QED
      BY <2>3, <3>1, <3>2
  <2> QED
    BY <1>4, <2>1, <2>2, <2>4 DEF IInv, Made, BagToSet
<1>14. AppliedIsWhole'
  BY <1>4 DEF AppliedIsWhole, Busy
<1> QED
  BY <1>7, <1>8, <1>10, <1>11, <1>12, <1>13, <1>14 DEF IInv

\* One command of a reassert: rules stay as they are, and so do the routes of
\* every other table.
LEMMA Reasserting1 ==
  ASSUME IInv, cmd = "reassert", ran < Len(commands), NEW m, Leaves(kernel, commands[ran + 1], m)
  PROVE  /\ Single(m) /\ DOMAIN m \subseteq Items /\ arg \in Specs
         /\ \A x : x.kind # "route" \/ x.table # arg.upstream_table => (x \in DOMAIN m <=> x \in DOMAIN kernel)
<1> DEFINE c == commands[ran + 1]
<1>1. PICK r4 \in Dumps, r6 \in Dumps : commands = reassert_upstream_routes(arg, r4, r6)
  BY DEF IInv, Handler
<1>2. arg \in Specs /\ arg \in Known /\ ran + 1 \in DOMAIN commands
  <2>1. arg \in Specs /\ arg \in Known
    BY DEF IInv, Handler, Known
  <2>2. Len(commands) \in Nat /\ DOMAIN commands = 1..Len(commands)
    BY <1>1, <2>1, ReassertIs
  <2> QED
    BY <2>1, <2>2 DEF IInv, Types
<1>3. (\E f \in Families : c = RouteFlush(f, arg.upstream_table)) \/ (\E x \in Uplinks(arg) : c = Add(x))
  BY <1>1, <1>2, ReassertIs
<1>4. Single(kernel) /\ DOMAIN kernel \subseteq Items /\ Leaves(kernel, c, m)
  BY DEF IInv, NothingStacks, Single, BagToSet, Types
<1> HIDE DEF c
<1>5. ASSUME NEW f \in Families, c = RouteFlush(f, arg.upstream_table)
      PROVE  /\ Single(m) /\ DOMAIN m \subseteq Items
             /\ \A x : x.kind # "route" \/ x.table # arg.upstream_table => (x \in DOMAIN m <=> x \in DOMAIN kernel)
  <2>1. c.verb = "flush" /\ \A x : Takes(c, x) <=> Matches(x, c.what)
    BY <1>5 DEF RouteFlush, Flush, Takes
  <2>2. Single(m) /\ \A x : x \in DOMAIN m <=> x \in DOMAIN kernel /\ ~Matches(x, c.what)
    BY ONLY <1>4, <2>1, FlushLeaves
  <2>3. \A x \in DOMAIN kernel : Takes(c, x) => x.kind = "route" /\ x.table = arg.upstream_table
    BY <1>4, <1>5, TakesWhat
  <2> QED
    BY <1>4, <2>1, <2>2, <2>3
<1>6. ASSUME NEW x \in Uplinks(arg), c = Add(x)
      PROVE  /\ Single(m) /\ DOMAIN m \subseteq Items
             /\ \A y : y.kind # "route" \/ y.table # arg.upstream_table => (y \in DOMAIN m <=> y \in DOMAIN kernel)
  <2>1. PICK f \in Families, v \in STRING, n \in Nat : x = Route(f, arg.upstream_table, v, n)
    BY DEF Uplinks
  <2>2. x.kind = "route" /\ x.table = arg.upstream_table /\ x \in Items /\ Adds(c) /\ c.what = x
    BY <1>2, <1>6, <2>1, Fields, AddIs DEF Items
  <2>3. x \in DOMAIN kernel => Refused(kernel, x)
    <3>1. Matches(x, [kind |-> "route", fam |-> x.fam, table |-> x.table, metric |-> x.metric])
      BY <2>1 DEF Matches, Route
    <3> QED
      BY <2>2, <3>1 DEF Refused, Present, BagToSet
  <2>4. Single(m) /\ (DOMAIN m = DOMAIN kernel \cup {c.what} \/ m = kernel)
    BY ONLY <1>4, <2>2, <2>3, AddLeaves
  <2> QED
    BY <1>4, <2>2, <2>4
<1> QED
  BY <1>2, <1>3, <1>5, <1>6

\* One command of a reassert keeps the invariant.
LEMMA ReassertingKeeps ==
  ASSUME IInv, cmd = "reassert", ran < Len(commands), Leaves(kernel, commands[ran + 1], kernel'),
         ran' = ran + 1, ran' \in 1..Len(commands), UNCHANGED <<cmd, arg, commands, answer, spec>>
  PROVE  IInv'
<1>1. /\ Single(kernel') /\ DOMAIN kernel' \subseteq Items
      /\ \A x : x.kind = "rule" => (x \in DOMAIN kernel' <=> x \in DOMAIN kernel)
  BY Reasserting1
<1>2. Types' /\ Handler'
  <2>1. ran' \in 0..Len(commands')
    BY DEF IInv, Types
  <2> QED
    BY <1>1, <2>1 DEF IInv, Types, Handler, BagToSet, Single
<1>3. NothingStacks'
  BY <1>1 DEF IInv, NothingStacks, BagToSet, Single
<1>4. Going' /\ WayIsCleared' /\ Supported' /\ Made' /\ AppliedIsWhole'
  BY DEF Going, WayIsCleared, Supported, Made, Busy, AppliedIsWhole
<1> QED
  BY <1>2, <1>3, <1>4 DEF IInv
-----------------------------------------------------------------------------
(* The other steps. *)

\* What holds of a clear before its first command, whatever the kernel holds.
LEMMA ClearingStarts ==
  ASSUME NEW s \in Known, NEW K \in SUBSET Items, NEW a, \A i \in 1..Len(clear(s)) : a[i] = clear(s)[i]
  PROVE  /\ Len(clear(s)) \in Nat
         /\ \A x \in K : \/ x.kind = "protected" \/ x \in TurnedOff(s)
                         \/ \E j \in 1..Len(clear(s)) : Takes(a[j], x)
         /\ \A j \in 1..Len(clear(s)) : \A y \in K :
              Blocks(y, a[j]) => \E i \in 1..(j - 1) : Takes(a[i], y)
<1>1. Len(clear(s)) \in Nat /\ DOMAIN clear(s) = 1..Len(clear(s))
  BY ClearHas, Joined
<1>2. ASSUME NEW x \in K, x.kind # "protected", x \notin TurnedOff(s)
      PROVE  \E j \in 1..Len(clear(s)) : Takes(a[j], x)
  BY <1>1, <1>2, ClearTakes DEF Has
<1>3. ASSUME NEW j \in 1..Len(clear(s)), NEW y \in K, Blocks(y, a[j])
      PROVE  \E i \in 1..(j - 1) : Takes(a[i], y)
  <2>1. PICK i \in 1..(j - 1) : Takes(clear(s)[i], y)
    BY <1>1, <1>3, ClearWay DEF WayIn
  <2> QED
    BY <1>1, <2>1
<1> QED
  BY <1>1, <1>2, <1>3

\* What holds of an apply before its first command.
LEMMA InstallingStarts ==
  ASSUME NEW s \in Known
  PROVE  LET n == Len(clear(s))
             a == apply(s)
         IN  /\ Len(a) \in Nat /\ n <= Len(a) /\ \A i \in 1..n : a[i] = clear(s)[i]
             /\ \A j \in (n + 1)..Len(a) : Adds(a[j]) /\ Needy(s, a[j].what) =>
                  \E i \in (n + 1)..(j - 1) : Ensures(a[i], a[j].what)
             /\ \A y \in Footprint(s) \ Optional(s) : \E j \in (n + 1)..Len(a) :
                  \/ Adds(a[j]) /\ a[j].what = y /\ \A k \in (j + 1)..Len(a) : ~Takes(a[k], y)
                  \/ a[j] = Refusal
<1> DEFINE n == Len(clear(s))
           a == apply(s)
           b == Install(s)
<1>1. /\ n \in Nat /\ Len(b) \in Nat /\ Len(a) = n + Len(b) /\ DOMAIN b = 1..Len(b)
      /\ \A i \in 1..n : a[i] = clear(s)[i]
      /\ \A i \in 1..Len(b) : a[n + i] = b[i]
  BY ClearHas, InstallIs, Joined DEF apply
<1>2. Backed(s, <<>>, b) /\ \A y \in Footprint(s) \ Optional(s) : Comes(b, y)
  BY InstallIs
<1> HIDE DEF n, a, b
<1>3. ASSUME NEW j \in (n + 1)..Len(a), Adds(a[j]), Needy(s, a[j].what)
      PROVE  \E i \in (n + 1)..(j - 1) : Ensures(a[i], a[j].what)
  <2>1. j - n \in 1..Len(b) /\ n + (j - n) = j
    BY <1>1
  <2>2. a[j] = b[j - n]
    BY <1>1, <2>1
  <2>3. PICK i \in 1..(j - n - 1) : Ensures(b[i], a[j].what)
    BY <1>1, <1>2, <1>3, <2>1, <2>2, Tuples DEF Backed
  <2>4. i \in 1..Len(b) /\ n + i \in (n + 1)..(j - 1)
    BY <1>1, <2>1, <2>3
  <2> QED
    BY <1>1, <2>3, <2>4
<1>4. ASSUME NEW y \in Footprint(s) \ Optional(s)
      PROVE  \E j \in (n + 1)..Len(a) :
               \/ Adds(a[j]) /\ a[j].what = y /\ \A k \in (j + 1)..Len(a) : ~Takes(a[k], y)
               \/ a[j] = Refusal
  <2>1. PICK j \in 1..Len(b) : \/ Adds(b[j]) /\ b[j].what = y /\ \A k \in (j + 1)..Len(b) : ~Takes(b[k], y)
                               \/ b[j] = Refusal
    BY <1>1, <1>2 DEF Comes
  <2>2. n + j \in (n + 1)..Len(a) /\ a[n + j] = b[j]
    BY <1>1
  <2>3. ASSUME NEW k \in (n + j + 1)..Len(a), \A l \in (j + 1)..Len(b) : ~Takes(b[l], y)
        PROVE  ~Takes(a[k], y)
    <3>1. k - n \in (j + 1)..Len(b) /\ k - n \in 1..Len(b) /\ n + (k - n) = k
      BY <1>1
    <3>2. a[k] = b[k - n]
      BY <1>1, <3>1
    <3> QED
      BY <2>3, <3>1, <3>2
  <2> QED
    BY <2>1, <2>2, <2>3
<1> QED
  BY <1>1, <1>3, <1>4 DEF n, a, b

\* Between handlers nothing is run.
LEMMA IdleIs ==
  ASSUME IInv, cmd = "idle"
  PROVE  ran = 0 /\ DOMAIN kernel \subseteq Items
BY Tuples DEF IInv, Types, Handler, BagToSet

\* An apply begins with everything still to do.
LEMMA BeginApplyKeeps ==
  ASSUME IInv, NEW s \in Specs, BeginApply(s)
  PROVE  IInv'
<1> DEFINE n == Len(clear(s))
<1>1. /\ cmd' = "apply" /\ arg' = s /\ commands' = apply(s) /\ ran' = 0 /\ s \in Known /\ s # NoSpec
      /\ UNCHANGED <<kernel, spec, answer>> /\ DOMAIN kernel \subseteq Items
  BY IdleIs, VariableHalf DEF BeginApply, Known
<1>2. /\ Len(apply(s)) \in Nat /\ n \in Nat /\ n <= Len(apply(s))
      /\ \A i \in 1..n : apply(s)[i] = clear(s)[i]
  BY <1>1, InstallingStarts, ClearHas, Joined
<1>3. Cleared' = n /\ Installing' = n /\ Busy'
  BY <1>1, <1>2 DEF Cleared, Installing, Busy
<1> HIDE DEF n
<1>4. Types' /\ Handler' /\ NothingStacks' /\ AppliedIsWhole'
  BY <1>1, <1>2 DEF IInv, Types, Handler, NothingStacks, AppliedIsWhole
<1>5. /\ \A x \in DOMAIN kernel : \/ x.kind = "protected" \/ x \in TurnedOff(s)
                                  \/ \E j \in 1..n : Takes(commands'[j], x)
      /\ \A j \in 1..n : \A y \in DOMAIN kernel :
           Blocks(y, commands'[j]) => \E i \in 1..(j - 1) : Takes(commands'[i], y)
  BY <1>1, <1>2, ClearingStarts DEF n
<1>6. Going'
  BY <1>1, <1>3, <1>5 DEF Going, BagToSet
<1>7. WayIsCleared'
  BY <1>1, <1>3, <1>5 DEF WayIsCleared, BagToSet
<1>8. Supported'
  <2>1. \A j \in (n + 1)..Len(commands') : Adds(commands'[j]) /\ Needy(s, commands'[j].what) =>
          \E i \in (n + 1)..(j - 1) : Ensures(commands'[i], commands'[j].what)
    BY <1>1, InstallingStarts DEF n
  <2> QED
    BY <1>1, <1>3, <2>1 DEF Supported
<1>9. Made'
  <2>1. \A y \in Footprint(s) \ Optional(s) : \E j \in (n + 1)..Len(commands') :
          \/ /\ Adds(commands'[j]) /\ commands'[j].what = y
             /\ \A k \in (j + 1)..Len(commands') : ~Takes(commands'[k], y)
          \/ commands'[j] = Refusal
    BY <1>1, InstallingStarts DEF n
  <2> QED
    BY <1>1, <1>3, <2>1 DEF Made, Coming
<1> QED
  BY <1>4, <1>6, <1>7, <1>8, <1>9 DEF IInv

\* So does a clear.
LEMMA BeginClearKeeps ==
  ASSUME IInv, BeginClear
  PROVE  IInv'
<1>1. /\ cmd' = "clear" /\ arg' = spec /\ spec' = NoSpec /\ ran' = 0
      /\ commands' = IF spec = NoSpec THEN <<>> ELSE clear(spec)
      /\ UNCHANGED <<kernel, answer>> /\ DOMAIN kernel \subseteq Items /\ spec \in Specs \cup {NoSpec}
  BY IdleIs DEF BeginClear, IInv, Types
<1>2. NothingStacks' /\ AppliedIsWhole' /\ Supported' /\ Made'
  BY <1>1 DEF IInv, NothingStacks, AppliedIsWhole, Supported, Made
<1>3. CASE spec = NoSpec
  <2>1. Types' /\ Handler' /\ Going' /\ WayIsCleared'
    BY <1>1, <1>3 DEF IInv, Types, Handler, Going, WayIsCleared, Busy
  <2> QED
    BY <1>2, <2>1 DEF IInv
<1>4. CASE spec # NoSpec
  <2> DEFINE n == Len(clear(spec))
  <2>1. spec \in Specs /\ spec \in Known /\ n \in Nat /\ commands' = clear(spec)
    BY <1>1, <1>4, ClearHas, Joined DEF Known
  <2>2. Cleared' = n /\ Busy'
    BY <1>1, <1>4 DEF Cleared, Busy
  <2> HIDE DEF n
  <2>3. Types' /\ Handler'
    BY <1>1, <2>1 DEF IInv, Types, Handler, n
  <2>4. /\ \A x \in DOMAIN kernel : \/ x.kind = "protected" \/ x \in TurnedOff(spec)
                                    \/ \E j \in 1..n : Takes(commands'[j], x)
        /\ \A j \in 1..n : \A y \in DOMAIN kernel :
             Blocks(y, commands'[j]) => \E i \in 1..(j - 1) : Takes(commands'[i], y)
    BY <1>1, <2>1, ClearingStarts DEF n
  <2>5. Going' /\ WayIsCleared'
    BY <1>1, <2>2, <2>4 DEF Going, WayIsCleared, BagToSet
  <2> QED
    BY <1>2, <2>3, <2>5 DEF IInv
<1> QED
  BY <1>3, <1>4

\* A reassert begins on the recorded spec.
LEMMA BeginReassertKeeps ==
  ASSUME IInv, NEW r4 \in Dumps, NEW r6 \in Dumps, BeginReassert(r4, r6)
  PROVE  IInv'
<1>1. /\ cmd' = "reassert" /\ arg' = spec /\ spec \in Specs /\ ran' = 0
      /\ commands' = reassert_upstream_routes(spec, r4, r6)
      /\ UNCHANGED <<kernel, spec, answer>>
  BY IdleIs DEF BeginReassert, IInv, Types
<1>2. Len(commands') \in Nat
  BY <1>1, ReassertIs DEF Known
<1>3. Types' /\ Handler' /\ NothingStacks'
  BY <1>1, <1>2 DEF IInv, Types, Handler, NothingStacks
<1>4. Going' /\ WayIsCleared' /\ Supported' /\ Made' /\ AppliedIsWhole'
  BY <1>1 DEF Going, WayIsCleared, Supported, Made, Busy, AppliedIsWhole
<1> QED
  BY <1>3, <1>4 DEF IInv

\* A handler that is through has left its session, or none.
LEMMA Done ==
  ASSUME IInv, Busy, ran = Len(commands)
  PROVE  /\ \A x \in DOMAIN kernel : x.kind # "protected" =>
              x \in TurnedOff(arg) \/ (cmd = "apply" /\ x \in Footprint(arg))
         /\ cmd = "apply" => Footprint(arg) \ Optional(arg) \subseteq DOMAIN kernel
<1>1. /\ Cleared \in Nat /\ Len(commands) \in Nat /\ Cleared <= ran /\ arg \in Known
      /\ cmd \in {"clear", "apply"} /\ (cmd = "clear" => ran = Cleared)
  BY Shape DEF IInv
<1>2. ASSUME NEW x \in DOMAIN kernel, x.kind # "protected", x \notin TurnedOff(arg)
      PROVE  cmd = "apply" /\ x \in Footprint(arg)
  <2>1. (ran + 1)..Cleared = {}
    BY <1>1
  <2>2. PICK i \in (Cleared + 1)..ran : Adds(commands[i]) /\ commands[i].what = x
    BY <1>2, <2>1 DEF IInv, Going, BagToSet
  <2>3. Installs(arg, commands[i])
    BY <1>1, <2>2, Shape, InstallIs DEF IInv
  <2>4. \A f, d : ~Adds(EntryFlush(f, d))
    BY DEF Adds, EntryFlush, Flush
  <2>5. x \in Fits(arg)
    BY <1>2, <2>2, <2>3, <2>4, AddIs, RefusalIs, Fields DEF Installs
  <2> QED
    BY <1>1, <2>2, <2>5 DEF Fits
<1>3. ASSUME cmd = "apply" PROVE Footprint(arg) \ Optional(arg) \subseteq DOMAIN kernel
  <2>1. (Installing + 1)..Len(commands) = {}
    BY <1>1 DEF Installing
  <2> QED
    BY <1>3, <2>1 DEF IInv, Made, BagToSet
<1> QED
  BY <1>2, <1>3

\* When all commands are through, all that was to come has come.
LEMMA FinishKeeps ==
  ASSUME IInv, Finish
  PROVE  IInv'
<1>1. /\ cmd # "idle" /\ ran = Len(commands) /\ spec' = (IF cmd = "apply" THEN arg ELSE spec)
      /\ answer' = CASE cmd = "apply" -> "applied"
                     [] cmd = "reassert" -> "reasserted"
                     [] cmd = "clear" /\ arg # NoSpec -> "cleared"
                     [] OTHER -> "had nothing to clear"
      /\ Unlock /\ UNCHANGED kernel
  BY DEF Finish
<1>2. spec' \in Specs \cup {NoSpec}
  BY <1>1 DEF IInv, Types, Handler
<1>3. AppliedIsWhole'
  <2>1. CASE cmd = "apply"
    <3>1. arg # NoSpec
      BY <2>1, VariableHalf DEF IInv, Handler, Known
    <3>2. /\ \A x \in DOMAIN kernel : x.kind # "protected" => x \in TurnedOff(arg) \cup Footprint(arg)
          /\ Footprint(arg) \ Optional(arg) \subseteq DOMAIN kernel
      BY <1>1, <2>1, <3>1, Done DEF Busy
    <3>3. DOMAIN Installed(kernel) = {x \in DOMAIN kernel : x.kind # "protected"}
      BY DEF Installed, BagToSet
    <3>4. \A y \in Footprint(arg) : y.kind # "protected"
      <4>1. arg \in Known
        BY <2>1 DEF IInv, Handler, Known
      <4>2. \A y \in UidItems(arg) : y.kind = "rule"
        BY Fields DEF UidItems, UidRule
      <4> QED
        BY <4>1, <4>2, FitsAre DEF Fits
    <3>5. /\ DOMAIN Installed(kernel) \subseteq Footprint(arg) \cup TurnedOff(arg)
          /\ Footprint(arg) \ Optional(arg) \subseteq DOMAIN Installed(kernel)
      BY <3>2, <3>3, <3>4
    <3>6. spec' = arg /\ kernel' = kernel
      BY <1>1, <2>1
    <3> QED
      BY <3>5, <3>6 DEF AppliedIsWhole, Optional, BagToSet
  <2>2. CASE cmd # "apply"
    <3>1. answer' # "applied"
      BY <1>1, <2>2
    <3> QED
      BY <3>1 DEF AppliedIsWhole
  <2> QED
    BY <2>1, <2>2
<1> QED
  BY <1>1, <1>2, <1>3, Unlocking DEF IInv

\* A rule that the app left behind is of one session, at one priority.
LEMMA LeftRules ==
  ASSUME NEW s \in LeftBy
  PROVE  LET K == Footprint(s) \cup {TunnelRule(s, f) : f \in Families}
         IN  /\ K \subseteq Items
             /\ \A x, y \in K : x.kind = "rule" /\ y.kind = "rule" /\ x.fam = y.fam /\ x.pref = y.pref => x = y
<1> DEFINE K == Footprint(s) \cup {TunnelRule(s, f) : f \in Families}
           at(i) == s.rule_priority_start + i
           IsTun(x) == \E f \in Families : x = TunnelRule(s, f) /\ x.fam = f
           IsU(x) == \E f \in Families, i \in 0..Len(s.bypass_uids) : x = UidRule(s, f, at(i), Uid(s, i)) /\ x.fam = f
                       /\ x.pref = at(i)
<1>1. s \in Known /\ Len(s.bypass_uids) \in Nat
  BY UidList DEF Known
<1>2. \A i \in 0..Len(s.bypass_uids) : at(i) \in Block(s)
  <2>1. s.rule_priority_start \in Nat /\ s.rule_priority_end \in Nat
        /\ s.rule_priority_start + Len(s.bypass_uids) <= s.rule_priority_end
    BY <1>1, FixedHalf, VariableHalf
  <2> QED
    BY <1>1, <2>1 DEF Block
<1>3. Footprint(s) = Fits(s)
  <2>1. \A x \in UidItems(s) : x.pref \in Block(s)
    BY <1>2, Fields DEF UidItems, UidRule
  <2> QED
    BY <2>1 DEF Fits
<1>4. K \subseteq Items
  <2>1. \A f \in Families : TunnelRule(s, f) \in {TunnelRule(s, 4), TunnelRule(s, 6)}
    BY DEF Families
  <2> QED
    BY <1>1, <1>3, <2>1 DEF Items
<1>5. DhcpRule(s).pref = s.dhcp_workaround_priority /\ DhcpRule(s).table = 97
  BY DEF DhcpRule, Rule
<1>6. /\ MarkRule(s).kind = "rule" /\ MarkRule(s).pref = s.tproxy.rule_priority
      /\ MarkRule(s).table = s.tproxy.route_table
      /\ LocalRoute(s).kind = "route" /\ LocalRoute(s).fam = 4 /\ LocalRoute(s).table = s.tproxy.route_table
  BY DEF MarkRule, LocalRoute, Rule, Route
<1>7. \A f : /\ TunnelRule(s, f).pref = s.app_tunnel_priority /\ TunnelRule(s, f).fam = f
             /\ TunnelRule(s, f).table = s.tunnel_table
  BY Fields DEF TunnelRule
<1>8. \A f, p, u : UidRule(s, f, p, u).pref = p /\ UidRule(s, f, p, u).fam = f
                   /\ UidRule(s, f, p, u).table = s.upstream_table
  BY Fields DEF UidRule
<1>9. ASSUME NEW x \in K, x.kind = "rule"
      PROVE  \/ IsTun(x) /\ x.pref = s.app_tunnel_priority /\ x.table = s.tunnel_table
             \/ IsU(x) /\ x.pref \in Block(s) /\ x.table = s.upstream_table
             \/ x = DhcpRule(s) /\ x.pref = s.dhcp_workaround_priority /\ x.table = 97
             \/ /\ s.tproxy # NoTproxy /\ x = MarkRule(s) /\ x.pref = s.tproxy.rule_priority
                /\ x.table = s.tproxy.route_table /\ LocalRoute(s) \in K
  <2>1. CASE x \in UpstreamRoutes(s, 4, s.ipv4_default_routes) \cup UpstreamRoutes(s, 6, s.ipv6_default_routes)
    BY <1>9, <2>1, Fields DEF UpstreamRoutes
  <2>2. CASE x \in UidItems(s)
    BY <1>2, <1>8, <2>2 DEF UidItems
  <2>3. CASE x \in DhcpItems(s)
    BY <1>5, <2>3 DEF DhcpItems
  <2>4. CASE x \in MarkItems(s)
    BY <1>1, <1>9, <2>4, HookItemsAre, MarkIs DEF Families
  <2>5. CASE x \in TproxyItems(s)
    BY <1>6, <1>9, <2>5 DEF TproxyItems, Footprint
  <2>6. CASE \E f \in Families : x = TunnelRule(s, f)
    BY <1>7, <2>6
  <2> QED
    BY <2>1, <2>2, <2>3, <2>4, <2>5, <2>6 DEF Footprint
<1>10. ASSUME NEW x \in K, NEW y \in K, x.kind = "rule", y.kind = "rule", x.fam = y.fam, x.pref = y.pref
       PROVE  x = y
  <2>1. /\ s.app_tunnel_priority # s.dhcp_workaround_priority
        /\ s.app_tunnel_priority \notin Block(s) /\ s.dhcp_workaround_priority \notin Block(s)
        /\ s.tproxy # NoTproxy =>
             /\ s.tproxy.rule_priority \notin Block(s)
             /\ s.tproxy.rule_priority # s.app_tunnel_priority
             /\ s.tproxy.rule_priority # s.dhcp_workaround_priority
    BY <1>1, FixedHalf
  <2>2. CASE IsU(x) /\ IsU(y)
    <3>1. PICK i \in 0..Len(s.bypass_uids) : x = UidRule(s, x.fam, at(i), Uid(s, i)) /\ x.pref = at(i)
      BY <2>2
    <3>2. PICK j \in 0..Len(s.bypass_uids) : y = UidRule(s, y.fam, at(j), Uid(s, j)) /\ y.pref = at(j)
      BY <2>2
    <3>3. s.rule_priority_start \in Nat
      BY <1>1, FixedHalf
    <3>4. i = j
      <4>1. x.pref = at(i) /\ y.pref = at(j) /\ x.pref = y.pref
        BY <1>10, <3>1, <3>2
      <4>2. at(i) = at(j)
        BY ONLY <4>1
      <4>3. i \in Int /\ j \in Int
        BY <1>1
      <4> QED
        BY <3>3, <4>2, <4>3
    <3> QED
      BY <1>10, <3>1, <3>2, <3>4
  <2>3. CASE IsTun(x) /\ IsTun(y)
    BY <1>10, <2>3
  <2> HIDE DEF IsU, IsTun, K
  <2> QED
    BY <1>9, <1>10, <2>1, <2>2, <2>3
<1> QED
  BY <1>4, <1>10

\* The daemon comes up to nothing, or to a session the app left.
LEMMA InitKeeps ==
  ASSUME Init
  PROVE  IInv
<1>1. /\ spec = NoSpec /\ arg = NoSpec /\ cmd = "idle" /\ commands = <<>> /\ ran = 0 /\ answer = "none"
  BY DEF Init
<1>2. Handler /\ Going /\ WayIsCleared /\ Supported /\ Made /\ AppliedIsWhole
  BY <1>1 DEF Handler, Going, WayIsCleared, Supported, Made, AppliedIsWhole, Busy
<1>3. CASE kernel = EmptyBag
  <2>1. DOMAIN kernel = {}
    BY <1>3 DEF EmptyBag, SetToBag
  <2> QED
    BY <1>1, <1>2, <2>1 DEF IInv, Types, NothingStacks, BagToSet
<1>4. ASSUME NEW s \in LeftBy, kernel = SetToBag(Footprint(s) \cup {TunnelRule(s, f) : f \in Families})
      PROVE  IInv
  <2> DEFINE K == Footprint(s) \cup {TunnelRule(s, f) : f \in Families}
  <2>1. kernel = [z \in K |-> 1] /\ DOMAIN kernel = K
    BY <1>4 DEF SetToBag
  <2>2. /\ K \subseteq Items
        /\ \A x, y \in K : x.kind = "rule" /\ y.kind = "rule" /\ x.fam = y.fam /\ x.pref = y.pref => x = y
    BY <2>1, LeftRules
  <2> HIDE DEF K
  <2>3. Types
    BY <1>1, <2>1, <2>2 DEF Types, BagToSet
  <2>4. NothingStacks
    BY <2>1, <2>2 DEF NothingStacks, BagToSet
  <2> QED
    BY <1>2, <2>3, <2>4 DEF IInv
<1> QED
  BY <1>3, <1>4 DEF Init

\* One case per action.
LEMMA NextKeeps ==
  ASSUME IInv, [Next]_vars
  PROVE  IInv'
<1>1. CASE \E s \in Specs : BeginApply(s)
  BY <1>1, BeginApplyKeeps
<1>2. CASE BeginClear
  BY <1>2, BeginClearKeeps
<1>3. CASE Exec
  <2>1. CASE commands[ran + 1].must /\ UNCHANGED kernel /\ IInv'
    BY <2>1
  <2>2. CASE /\ Leaves(kernel, commands[ran + 1], kernel') /\ ran' = ran + 1 /\ ran' \in 1..Len(commands)
             /\ kernel' \in After(kernel, commands[ran + 1]) \/ ~commands[ran + 1].must
             /\ UNCHANGED <<cmd, arg, commands, answer, spec>>
             /\ Busy \/ cmd = "reassert"
    <3>1. Busy => ran \in Nat /\ Cleared \in Nat
      BY Shape DEF IInv, Types
    <3>2. CASE Busy /\ ran < Cleared
      BY <2>2, <3>2, ClearingKeeps
    <3>3. CASE Busy /\ ran >= Cleared
      BY <2>2, <3>3, InstallingKeeps
    <3>4. CASE cmd = "reassert"
      BY <1>3, <2>2, <3>4, ReassertingKeeps DEF Exec
    <3> QED
      BY <2>2, <3>1, <3>2, <3>3, <3>4
  <2> QED
    BY <1>3, <2>1, <2>2, ExecIs
<1>4. CASE Finish
  BY <1>4, FinishKeeps
<1>5. CASE Crash
  <2>1. AppliedIsWhole' /\ spec' \in Specs \cup {NoSpec} /\ Unlock /\ UNCHANGED kernel
    BY <1>5 DEF Crash, AppliedIsWhole
  <2> QED
    BY <2>1, Unlocking DEF IInv
<1>6. CASE UNCHANGED vars
  <2>1. /\ kernel' = kernel /\ spec' = spec /\ cmd' = cmd /\ arg' = arg /\ commands' = commands
        /\ ran' = ran /\ answer' = answer
    BY <1>6 DEF vars
  <2>2. Types' /\ Handler' /\ NothingStacks' /\ AppliedIsWhole'
    BY <2>1 DEF IInv, Types, Handler, NothingStacks, AppliedIsWhole
  <2>3. Cleared' = Cleared /\ Installing' = Installing /\ (Busy' <=> Busy)
    BY <2>1 DEF Cleared, Installing, Busy
  <2>4. Going' /\ WayIsCleared' /\ Supported'
    BY <2>1, <2>3 DEF IInv, Going, WayIsCleared, Supported
  <2>5. Made'
    BY <2>1, <2>3 DEF IInv, Made, Coming
  <2> QED
    BY <2>2, <2>4, <2>5 DEF IInv
<1>7. CASE \E r4, r6 \in Dumps : BeginReassert(r4, r6)
  BY <1>7, BeginReassertKeeps
<1> QED
  BY <1>1, <1>2, <1>3, <1>4, <1>5, <1>6, <1>7 DEF Next

\* The inductive invariant of apply() and clear() holds in every reachable state.
THEOREM Invariance == Spec => []IInv
<1>1. Init => IInv
  BY InitKeeps
<1>2. IInv /\ [Next]_vars => IInv'
  BY NextKeeps
<1> QED
  BY <1>1, <1>2, PTL DEF Spec
-----------------------------------------------------------------------------
\* No second copy of anything ends up in the kernel, the marks of an app that
\* one request lists twice aside, and a priority means one thing per family,
\* whatever a dead daemon, a failed apply or the app's own su path left behind
\* (apply(), routing.rs:59-61).
THEOREM NothingStacksCorrect == Spec => []NothingStacks
BY Invariance, PTL DEF IInv

\* An IPv4 rule leads somewhere or nowhere, whichever way one looks at it.
LEMMA NowhereIs ==
  ASSUME NEW k, DOMAIN k \subseteq Items, NEW x
  PROVE  x \in Nowhere(k) <=>
           x \in DOMAIN k /\ x.kind = "rule" /\ x.fam = 4 /\ (\E s \in Specs : x.table \in Steered(s))
             /\ ~Routed(k, x.table)
BY RoutedIs DEF Nowhere, BagToSet

\* A clear flushes a table when no rule leads into it any more.
LEMMA ClearingLeads ==
  ASSUME IInv, Busy, ran < Cleared, NEW m, Leaves(kernel, commands[ran + 1], m)
  PROVE  Nowhere(m) \subseteq Nowhere(kernel)
<1> DEFINE c == commands[ran + 1]
<1>1. /\ ran \in Nat /\ Cleared \in Nat /\ ran + 1 \in 1..Cleared /\ arg \in Known /\ Has(clear(arg), c)
  BY Shape DEF IInv, Types
<1>2. \A x : x \in DOMAIN m <=> x \in DOMAIN kernel /\ ~Takes(c, x)
  BY ClearingTakes
<1>3. DOMAIN kernel \subseteq Items /\ DOMAIN m \subseteq Items
  BY <1>2 DEF IInv, Types, BagToSet
<1> HIDE DEF c
<1> SUFFICES ASSUME NEW x \in DOMAIN m, x.kind = "rule", x.fam = 4, Routed(kernel, x.table)
             PROVE  Routed(m, x.table)
  BY <1>2, <1>3, NowhereIs
<1>4. PICK r \in DOMAIN kernel : r.kind = "route" /\ r.fam = 4 /\ r.table = x.table
  BY DEF Routed
<1>5. ASSUME Takes(c, r) PROVE FALSE
  <2>1. c.verb = "flush" /\ c.what.kind = "route" /\ c.what.fam = 4 /\ c.what.table = x.table
    BY <1>1, <1>3, <1>4, <1>5, ClearCommand DEF TakesCleanly
  <2>2. Blocks(x, c)
    BY <2>1 DEF Blocks
  <2>3. \E i \in (ran + 1)..((ran + 1) - 1) : Takes(commands[i], x)
    BY <1>1, <1>2, <2>2 DEF IInv, WayIsCleared, BagToSet, c
  <2> QED
    BY <1>1, <2>3
<1> QED
  BY <1>2, <1>4, <1>5 DEF Routed

\* The rest of an apply takes no route, and adds a rule behind its route, if
\* the request has one.
LEMMA InstallingLeads ==
  ASSUME IInv, Busy, ran >= Cleared, ran < Len(commands), NEW m, Leaves(kernel, commands[ran + 1], m),
         m \in After(kernel, commands[ran + 1]) \/ ~commands[ran + 1].must
  PROVE  \A x \in Nowhere(m) \ Nowhere(kernel) :
           x.table = arg.upstream_table /\ cmd = "apply" /\ arg.ipv4_default_routes = <<>>
<1> DEFINE c == commands[ran + 1]
<1>1. /\ DOMAIN m \subseteq DOMAIN kernel \cup {x \in Items : Adds(c) /\ x = c.what}
      /\ \A x \in DOMAIN kernel : x \in DOMAIN m \/ x.kind = "entry"
  BY Installing1
<1>2. DOMAIN kernel \subseteq Items /\ DOMAIN m \subseteq Items
  BY <1>1 DEF IInv, Types, BagToSet
<1>3. cmd = "apply"
  <2>1. ran \in Nat /\ Cleared \in Nat /\ Len(commands) \in Nat
    BY Shape DEF IInv, Types
  <2> QED
    BY <2>1, Shape DEF IInv
<1>4. \A t : Routed(kernel, t) => Routed(m, t)
  BY <1>1 DEF Routed
<1> SUFFICES ASSUME NEW x \in DOMAIN m, x.kind = "rule", x.fam = 4, NEW s \in Specs, x.table \in Steered(s),
                    ~Routed(m, x.table), x \notin DOMAIN kernel
             PROVE  x.table = arg.upstream_table /\ arg.ipv4_default_routes = <<>>
  BY <1>2, <1>3, <1>4, NowhereIs
<1>5. Adds(c) /\ x = c.what
  BY <1>1
<1>6. Needy(arg, x) => Routed(kernel, x.table)
  BY <1>5, NeedsMet DEF Supports, Routed
<1> QED
  BY <1>4, <1>6 DEF Needy, Known

\* A reassert touches no other table than that of its spec.
LEMMA ReassertingLeads ==
  ASSUME IInv, cmd = "reassert", ran < Len(commands), NEW m, Leaves(kernel, commands[ran + 1], m)
  PROVE  \A x \in Nowhere(m) \ Nowhere(kernel) : x.table = arg.upstream_table
<1>1. /\ DOMAIN m \subseteq Items /\ DOMAIN kernel \subseteq Items
      /\ \A x : x.kind # "route" \/ x.table # arg.upstream_table => (x \in DOMAIN m <=> x \in DOMAIN kernel)
  BY Reasserting1 DEF IInv, Types, BagToSet
<1> QED
  BY <1>1, NowhereIs DEF Routed

\* Neither apply() nor clear() ever makes an IPv4 rule of a session lead into
\* a table without a route, but for the rules of a request that has no IPv4
\* route; a reassert does so only to the table it refreshes.
THEOREM RulesLeadSomewhereCorrect == Spec => RulesLeadSomewhere
<1> DEFINE Excused(x) == /\ x.table = arg.upstream_table
                         /\ cmd = "reassert" \/ (cmd = "apply" /\ arg.ipv4_default_routes = <<>>)
           Led == \A x \in Nowhere(kernel') \ Nowhere(kernel) : Excused(x)
<1>1. ASSUME IInv, [Next]_vars PROVE Led
  <2>1. CASE UNCHANGED kernel
    BY <2>1 DEF Nowhere
  <2>2. CASE Exec
    <3>1. CASE /\ Leaves(kernel, commands[ran + 1], kernel') /\ ran' = ran + 1
               /\ kernel' \in After(kernel, commands[ran + 1]) \/ ~commands[ran + 1].must
               /\ Busy \/ cmd = "reassert"
      <4>1. Busy => ran \in Nat /\ Cleared \in Nat
        BY <1>1, Shape DEF IInv, Types
      <4>2. CASE Busy /\ ran < Cleared
        BY <1>1, <3>1, <4>2, ClearingLeads
      <4>3. CASE Busy /\ ran >= Cleared
        BY <1>1, <2>2, <3>1, <4>3, InstallingLeads DEF Exec
      <4>4. CASE cmd = "reassert"
        BY <1>1, <2>2, <3>1, <4>4, ReassertingLeads DEF Exec
      <4> QED
        BY <3>1, <4>1, <4>2, <4>3, <4>4
    <3> QED
      BY <1>1, <2>1, <2>2, <3>1, ExecIs
  <2>3. [Next]_vars => UNCHANGED kernel \/ Exec
    BY DEF Next, vars, BeginApply, BeginClear, BeginReassert, Finish, Crash
  <2> QED
    BY <1>1, <2>1, <2>2, <2>3
<1>2. IInv /\ [Next]_vars => [Led]_vars
  BY <1>1
<1> QED
  BY <1>2, Invariance, PTL DEF Spec, RulesLeadSomewhere

\* An acknowledged apply leaves its own session in the kernel, whole, and of
\* others only the optional parts it has turned off itself.
THEOREM AppliedIsWholeCorrect == Spec => []AppliedIsWhole
BY Invariance, PTL DEF IInv

\* A clear that had a spec leaves nothing of any session but the optional
\* parts its own spec has turned off (routing.rs:188-227).
THEOREM ClearedIsEmptyCorrect == Spec => []ClearedIsEmpty
<1>1. ASSUME IInv PROVE ClearedIsEmpty
  <2>1. SUFFICES ASSUME cmd = "clear", ran = Len(commands), arg # NoSpec
                 PROVE  DOMAIN Installed(kernel) \subseteq TurnedOff(arg)
    BY DEF ClearedIsEmpty, BagToSet
  <2>2. \A x \in DOMAIN kernel : x.kind # "protected" => x \in TurnedOff(arg)
    BY <1>1, <2>1, Done DEF Busy
  <2>3. DOMAIN Installed(kernel) = {x \in DOMAIN kernel : x.kind # "protected"}
    BY DEF Installed, BagToSet
  <2> QED
    BY <2>2, <2>3
<1> QED
  BY <1>1, Invariance, PTL
-----------------------------------------------------------------------------
(***************************************************************************)
(* Children for any set of pids and any number of spawns.  The table, the  *)
(* process table and the clients' handles are correct only together: a     *)
(* fresh id collides with no handle because ids only grow, and a fresh pid *)
(* with no row because every row's process is still unreaped.              *)
(***************************************************************************)
\* Inside a clear nothing is spawned, so what is left to kill is the table.
ClearIsWhole == clearing => DOMAIN running = killing

ChildIInv == Children_TypeOK /\ TableIsExact /\ HandlesStayTrue /\ ClearIsWhole

\* A pid the daemon may spawn on, and one it does not own, is in no row.
LEMMA NotInTable ==
  ASSUME TableIsExact, NEW p \in Pids, proc[p].state \notin OwnStates
  PROVE  waiting # p /\ \A i \in DOMAIN running : running[i] # p
BY DEF TableIsExact

\* The child in a row is one of the daemon's own, and nobody waits for it.
LEMMA RowIsOwn ==
  ASSUME Children_TypeOK, TableIsExact, NEW i \in DOMAIN running
  PROVE  running[i] \in Pids /\ proc[running[i]].state \in OwnStates /\ running[i] # waiting
BY DEF TableIsExact, Children_TypeOK

\* A fresh daemon knows no child.
LEMMA InitChildIInv == ChildInit => ChildIInv
<1> SUFFICES ASSUME ChildInit PROVE ChildIInv
  OBVIOUS
<1>1. DOMAIN running = {}
  BY DEF ChildInit
<1>2. Children_TypeOK
  <2>1. MaxSpawns \in Nat /\ 0 \in Serials
    BY ChildrenAssumption DEF Serials
  <2>2. Nothing \in [state : States, serial : Serials]
    BY <2>1 DEF Nothing, States
  <2>3. proc \in [Pids -> [state : States, serial : Serials]]
    BY <2>2 DEF ChildInit
  <2>4. /\ next_id \in 0..spawned /\ spawned \in Serials
        /\ handles \subseteq [child_id : 1..next_id, serial : 1..spawned]
    BY <2>1 DEF ChildInit
  <2>5. DOMAIN running \subseteq 1..next_id /\ \A i \in DOMAIN running : running[i] \in Pids
    BY <1>1
  <2>6. killing \subseteq DOMAIN running /\ waiting \in Pids \cup {NoPid} /\ clearing \in BOOLEAN
    BY DEF ChildInit
  <2> QED
    BY <2>3, <2>4, <2>5, <2>6 DEF Children_TypeOK
<1>3. TableIsExact
  BY <1>1, ChildrenAssumption DEF ChildInit, TableIsExact, Nothing, OwnStates
<1>4. HandlesStayTrue /\ ClearIsWhole
  BY DEF ChildInit, HandlesStayTrue, ClearIsWhole
<1> QED
  BY <1>2, <1>3, <1>4 DEF ChildIInv

\* spawn(): the id is new to every client, the pid to every row.
LEMMA SpawnStep ==
  ASSUME ChildIInv, NEW p \in Pids, Spawn(p) PROVE ChildIInv'
<1> USE ChildrenAssumption
<1> DEFINE id == next_id'
<1>1. /\ next_id \in Nat /\ spawned \in Nat /\ id = next_id + 1 /\ spawned' = spawned + 1
      /\ id \notin DOMAIN running
      /\ next_id <= spawned /\ spawned < MaxSpawns /\ MaxSpawns \in Nat
  BY DEF ChildIInv, Children_TypeOK, Spawn, Serials
<1>2. /\ DOMAIN running' = DOMAIN running \cup {id}
      /\ running'[id] = p
      /\ \A i \in DOMAIN running : running'[i] = running[i]
  BY <1>1 DEF Spawn
<1>3. waiting # p /\ \A i \in DOMAIN running : running[i] # p
  BY NotInTable DEF ChildIInv, Spawn, OwnStates
<1>4. /\ proc' \in [Pids -> [state : States, serial : Serials]]
      /\ proc'[p] = [state |-> "alive", serial |-> spawned']
      /\ \A q \in Pids : q # p => proc'[q] = proc[q]
  BY <1>1 DEF ChildIInv, Children_TypeOK, Spawn, Serials, States, OwnStates
<1>5. Children_TypeOK'
  <2>1. DOMAIN running' \subseteq 1..next_id' /\ \A i \in DOMAIN running' : running'[i] \in Pids
    BY <1>1, <1>2 DEF ChildIInv, Children_TypeOK
  <2>2. handles' \subseteq [child_id : 1..next_id', serial : 1..spawned']
    BY <1>1 DEF ChildIInv, Children_TypeOK, Spawn
  <2>3. /\ next_id' \in 0..spawned' /\ spawned' \in Serials'
        /\ killing' \subseteq DOMAIN running' /\ waiting' \in Pids \cup {NoPid}
        /\ clearing' \in BOOLEAN
    BY <1>1, <1>2 DEF ChildIInv, Children_TypeOK, Spawn, Serials
  <2> QED
    BY <2>1, <2>2, <2>3, <1>4 DEF Children_TypeOK, Serials
<1>6. TableIsExact'
  <2>1. waiting' = waiting
    BY DEF Spawn
  <2>2. ASSUME NEW q \in Pids
        PROVE  proc'[q].state \in OwnStates
                 <=> (waiting' = q \/ \E i \in DOMAIN running' : running'[i] = q)
    <3>1. CASE q = p
      BY <3>1, <1>2, <1>4 DEF OwnStates
    <3>2. CASE q # p
      BY <3>2, <1>2, <1>4, <2>1 DEF ChildIInv, TableIsExact
    <3> QED BY <3>1, <3>2
  <2>3. \A i, j \in DOMAIN running' : running'[i] = running'[j] => i = j
    BY <1>2, <1>3 DEF ChildIInv, TableIsExact
  <2>4. \A i \in DOMAIN running' : running'[i] # waiting'
    BY <1>2, <1>3, <2>1 DEF ChildIInv, TableIsExact
  <2> QED BY <2>2, <2>3, <2>4 DEF TableIsExact
<1>7. HandlesStayTrue'
  <2> SUFFICES ASSUME NEW h \in handles', h.child_id \in DOMAIN running'
               PROVE  proc'[running'[h.child_id]].serial = h.serial
    BY DEF HandlesStayTrue
  <2>1. CASE h \in handles
    <3>1. h.child_id \in 1..next_id
      BY <2>1 DEF ChildIInv, Children_TypeOK
    <3>2. h.child_id # id /\ h.child_id \in DOMAIN running
      BY <3>1, <1>1, <1>2
    <3>3. running'[h.child_id] \in Pids /\ running'[h.child_id] # p
      BY <3>2, <1>2, <1>3 DEF ChildIInv, Children_TypeOK
    <3>4. proc'[running'[h.child_id]] = proc[running[h.child_id]]
      BY <3>2, <3>3, <1>2, <1>4
    <3> QED BY <2>1, <3>2, <3>4 DEF ChildIInv, HandlesStayTrue
  <2>2. CASE h = [child_id |-> id, serial |-> spawned']
    BY <2>2, <1>2, <1>4
  <2> QED BY <2>1, <2>2 DEF Spawn
<1>8. ClearIsWhole'
  BY DEF Spawn, Unlocked, ClearIsWhole
<1> QED BY <1>5, <1>6, <1>7, <1>8 DEF ChildIInv

\* kill(): a row turns into the process that is waited for.
LEMMA KillStep ==
  ASSUME ChildIInv, NEW id \in killing, KillOne(id) PROVE ChildIInv'
<1> USE ChildrenAssumption
<1> DEFINE p == running[id]
<1>1. id \in DOMAIN running /\ p \in Pids /\ proc[p].state \in OwnStates
  BY RowIsOwn DEF ChildIInv, Children_TypeOK
<1>2. /\ DOMAIN running' = DOMAIN running \ {id}
      /\ \A i \in DOMAIN running' : running'[i] = running[i]
      /\ waiting = NoPid /\ waiting' = p /\ killing' = killing \ {id}
  BY DEF KillOne, Without
<1>3. /\ proc' \in [Pids -> [state : States, serial : Serials]]
      /\ \A q \in Pids : /\ proc'[q].serial = proc[q].serial
                         /\ proc'[q].state \in OwnStates <=> proc[q].state \in OwnStates
  BY <1>1 DEF ChildIInv, Children_TypeOK, KillOne, States, OwnStates
<1>4. Children_TypeOK'
  BY <1>1, <1>2, <1>3 DEF ChildIInv, Children_TypeOK, KillOne, Serials
<1>5. TableIsExact'
  <2>1. \A i \in DOMAIN running' : running'[i] # p
    BY <1>1, <1>2 DEF ChildIInv, TableIsExact
  <2>2. ASSUME NEW q \in Pids
        PROVE  (waiting' = q \/ \E i \in DOMAIN running' : running'[i] = q)
                 <=> \E i \in DOMAIN running : running[i] = q
    BY <1>1, <1>2
  <2>3. \A q \in Pids : waiting # q
    BY <1>2
  <2> QED BY <1>1, <1>2, <1>3, <2>1, <2>2, <2>3 DEF ChildIInv, TableIsExact
<1>6. HandlesStayTrue'
  BY <1>2, <1>3 DEF ChildIInv, HandlesStayTrue, KillOne, Children_TypeOK
<1>7. ClearIsWhole'
  BY <1>2 DEF ChildIInv, ClearIsWhole, KillOne
<1> QED BY <1>4, <1>5, <1>6, <1>7 DEF ChildIInv

\* wait() returns: the pid is free again, and was in no row.
LEMMA ReapStep ==
  ASSUME ChildIInv, Reap PROVE ChildIInv'
<1> USE ChildrenAssumption
<1>1. waiting \in Pids /\ \A i \in DOMAIN running : running[i] # waiting
  BY DEF ChildIInv, Children_TypeOK, TableIsExact, Reap
<1>2. /\ proc' \in [Pids -> [state : States, serial : Serials]]
      /\ proc'[waiting] = Nothing
      /\ \A q \in Pids : q # waiting => proc'[q] = proc[q]
  BY <1>1 DEF ChildIInv, Children_TypeOK, Reap, Nothing, States, Serials
<1>3. Children_TypeOK'
  BY <1>2 DEF ChildIInv, Children_TypeOK, Reap, Serials
<1>4. TableIsExact'
  <2>1. ASSUME NEW q \in Pids
        PROVE  proc'[q].state \in OwnStates <=> \E i \in DOMAIN running : running[i] = q
    <3>1. CASE q = waiting
      BY <3>1, <1>1, <1>2 DEF Nothing, OwnStates
    <3>2. CASE q # waiting
      BY <3>2, <1>2 DEF ChildIInv, TableIsExact
    <3> QED BY <3>1, <3>2
  <2>2. running' = running /\ waiting' = NoPid
    BY DEF Reap
  <2>3. \A i \in DOMAIN running : running[i] # NoPid
    BY DEF ChildIInv, Children_TypeOK
  <2>4. \A q \in Pids : NoPid # q
    OBVIOUS
  <2> QED BY <2>1, <2>2, <2>3, <2>4 DEF ChildIInv, TableIsExact
<1>5. HandlesStayTrue'
  BY <1>1, <1>2 DEF ChildIInv, HandlesStayTrue, Reap, Children_TypeOK
<1>6. ClearIsWhole'
  BY DEF ChildIInv, ClearIsWhole, Reap
<1> QED BY <1>3, <1>4, <1>5, <1>6 DEF ChildIInv

\* snapshot(): exactly the rows of the collected processes go.
LEMMA SnapshotStep ==
  ASSUME ChildIInv, Snapshot PROVE ChildIInv'
<1> USE ChildrenAssumption
<1>1. /\ DOMAIN running' = DOMAIN running \ Dead
      /\ \A i \in DOMAIN running' : running'[i] = running[i]
      /\ waiting = NoPid /\ waiting' = NoPid /\ killing = {} /\ killing' = {} /\ ~clearing'
  BY DEF Snapshot, Without, Unlocked
<1>2. \A q \in Pids :
        proc'[q] = IF \E i \in Dead : running[i] = q THEN Nothing ELSE proc[q]
  BY DEF Snapshot
<1>3. proc' \in [Pids -> [state : States, serial : Serials]]
  BY DEF ChildIInv, Children_TypeOK, Snapshot, Nothing, States, Serials
<1>4. \A i \in DOMAIN running' : running[i] \in Pids /\ proc'[running[i]] = proc[running[i]]
  <2> SUFFICES ASSUME NEW i \in DOMAIN running'
               PROVE  running[i] \in Pids /\ proc'[running[i]] = proc[running[i]]
    OBVIOUS
  <2>1. i \in DOMAIN running /\ i \notin Dead /\ running[i] \in Pids
    BY <1>1 DEF ChildIInv, Children_TypeOK
  <2>2. ~\E j \in Dead : running[j] = running[i]
    BY <2>1 DEF ChildIInv, TableIsExact, Dead
  <2> QED BY <2>1, <2>2, <1>2
<1>5. Children_TypeOK'
  BY <1>1, <1>3 DEF ChildIInv, Children_TypeOK, Snapshot, Serials
<1>6. TableIsExact'
  <2>1. ASSUME NEW q \in Pids
        PROVE  proc'[q].state \in OwnStates <=> \E i \in DOMAIN running' : running'[i] = q
    <3>1. CASE \E i \in Dead : running[i] = q
      <4>1. \A i \in DOMAIN running' : running'[i] # q
        BY <3>1, <1>1 DEF ChildIInv, TableIsExact, Dead
      <4> QED BY <3>1, <4>1, <1>2 DEF Nothing, OwnStates
    <3>2. CASE ~\E i \in Dead : running[i] = q
      <4>1. proc'[q] = proc[q] /\ waiting # q
        BY <3>2, <1>1, <1>2
      <4>2. (\E i \in DOMAIN running' : running'[i] = q) <=> \E i \in DOMAIN running : running[i] = q
        BY <3>2, <1>1
      <4> QED BY <4>1, <4>2 DEF ChildIInv, TableIsExact
    <3> QED BY <3>1, <3>2
  <2> QED BY <2>1, <1>1, <1>5 DEF ChildIInv, TableIsExact, Children_TypeOK
<1>7. HandlesStayTrue'
  BY <1>1, <1>4 DEF ChildIInv, HandlesStayTrue, Snapshot
<1>8. ClearIsWhole'
  BY <1>1 DEF ClearIsWhole
<1> QED BY <1>5, <1>6, <1>7, <1>8 DEF ChildIInv

\* A process ends, or a free pid is given away: no row is touched, and no
\* process in a row changes hands.
LEMMA DeviceStep ==
  ASSUME ChildIInv, NEW p \in Pids, Exit(p) \/ Foreign(p) PROVE ChildIInv'
<1> USE ChildrenAssumption
<1>1. /\ proc' \in [Pids -> [state : States, serial : Serials]]
      /\ \A q \in Pids : proc'[q].state \in OwnStates <=> proc[q].state \in OwnStates
      /\ \A q \in Pids : proc[q].state \in OwnStates => proc'[q].serial = proc[q].serial
  BY DEF ChildIInv, Children_TypeOK, Exit, Foreign, Nothing, States, OwnStates, Serials
<1>2. UNCHANGED <<next_id, running, spawned, handles, killing, waiting, clearing>>
  BY DEF Exit, Foreign
<1>3. Children_TypeOK'
  BY <1>1, <1>2 DEF ChildIInv, Children_TypeOK, Serials
<1>4. TableIsExact'
  BY <1>1, <1>2 DEF ChildIInv, TableIsExact
<1>5. \A i \in DOMAIN running : running[i] \in Pids /\ proc[running[i]].state \in OwnStates
  BY RowIsOwn DEF ChildIInv
<1>6. HandlesStayTrue'
  BY <1>1, <1>2, <1>5 DEF ChildIInv, HandlesStayTrue
<1>7. ClearIsWhole'
  BY <1>2 DEF ChildIInv, ClearIsWhole
<1> QED BY <1>3, <1>4, <1>6, <1>7 DEF ChildIInv

\* After a crash no process is the daemon's.
LEMMA CrashStep ==
  ASSUME ChildIInv, DaemonDies
  PROVE  ChildIInv' /\ \A q \in Pids : proc'[q].state \notin OwnStates
<1> USE ChildrenAssumption
<1> DEFINE Left(q) == /\ proc'[q] \in [state : States, serial : Serials]
                      /\ proc'[q].state \notin OwnStates
<1>1. DOMAIN running' = {} /\ waiting' = NoPid /\ handles' = {} /\ ~clearing' /\ killing' = {}
  BY DEF DaemonDies
<1>2. ASSUME NEW q \in Pids
      PROVE  Left(q)
  <2>1. proc[q] \in [state : States, serial : Serials]
    BY DEF ChildIInv, Children_TypeOK
  <2>2. CASE proc[q].state = "zombie"
    BY <2>2 DEF DaemonDies, Nothing, States, OwnStates, Serials
  <2>3. CASE proc[q].state \in {"alive", "killed"}
    BY <2>1, <2>3 DEF DaemonDies, States, OwnStates
  <2>4. CASE proc[q].state \notin OwnStates
    BY <2>1, <2>4 DEF DaemonDies, OwnStates
  <2>5. \/ proc[q].state = "zombie" \/ proc[q].state \in {"alive", "killed"}
        \/ proc[q].state \notin OwnStates
    BY DEF OwnStates
  <2> HIDE DEF Left
  <2> QED BY <2>2, <2>3, <2>4, <2>5
<1>3. proc' \in [Pids -> [state : States, serial : Serials]]
  <2> DEFINE new(q) == CASE proc[q].state = "zombie" -> Nothing
                         [] proc[q].state \in {"alive", "killed"} -> [proc[q] EXCEPT !.state = "lost"]
                         [] OTHER -> proc[q]
  <2>1. proc' = [q \in Pids |-> new(q)]
    BY DEF DaemonDies
  <2>2. \A q \in Pids : new(q) = proc'[q]
    BY <2>1
  <2> HIDE DEF new
  <2> QED BY <2>1, <2>2, <1>2
<1>4. Children_TypeOK'
  <2>1. next_id' = 0 /\ spawned' = spawned /\ spawned \in Serials /\ Serials \subseteq Nat
    BY DEF DaemonDies, ChildIInv, Children_TypeOK, Serials
  <2>2. /\ next_id' \in 0..spawned' /\ spawned' \in Serials'
        /\ handles' \subseteq [child_id : 1..next_id', serial : 1..spawned']
    BY <2>1, <1>1 DEF Serials
  <2>3. DOMAIN running' \subseteq 1..next_id' /\ \A i \in DOMAIN running' : running'[i] \in Pids
    BY <1>1
  <2>4. /\ killing' \subseteq DOMAIN running' /\ waiting' \in Pids \cup {NoPid}
        /\ clearing' \in BOOLEAN
    BY <1>1 DEF DaemonDies
  <2> QED BY <2>2, <2>3, <2>4, <1>3 DEF Children_TypeOK, Serials
<1>5. TableIsExact'
  BY <1>1, <1>2 DEF TableIsExact
<1>6. HandlesStayTrue' /\ ClearIsWhole'
  BY <1>1 DEF HandlesStayTrue, ClearIsWhole
<1> QED BY <1>2, <1>4, <1>5, <1>6 DEF ChildIInv

\* One case per action of the children and of the device.
LEMMA NextChildIInv == ChildIInv /\ [ChildNext]_childVars => ChildIInv'
<1> SUFFICES ASSUME ChildIInv, [ChildNext]_childVars PROVE ChildIInv'
  OBVIOUS
<1> USE ChildrenAssumption
<1>1. ASSUME NEW p \in Pids, Spawn(p) PROVE ChildIInv'
  BY <1>1, SpawnStep
<1>2. ASSUME NEW h \in handles, Kill(h.child_id) PROVE ChildIInv'
  <2>1. /\ UNCHANGED <<next_id, running, proc, spawned, handles, waiting, clearing>>
        /\ killing' \subseteq DOMAIN running /\ ~clearing
    BY <1>2 DEF Kill, Unlocked
  <2> QED BY <2>1 DEF ChildIInv, Children_TypeOK, TableIsExact, HandlesStayTrue, ClearIsWhole, Serials
<1>3. CASE KillAll
  <2>1. /\ UNCHANGED <<next_id, running, proc, spawned, handles, waiting>>
        /\ killing' = DOMAIN running /\ clearing' = TRUE
    BY <1>3 DEF KillAll
  <2> QED BY <2>1 DEF ChildIInv, Children_TypeOK, TableIsExact, HandlesStayTrue, ClearIsWhole, Serials
<1>4. CASE Snapshot
  BY <1>4, SnapshotStep
<1>5. CASE Reap
  BY <1>5, ReapStep
<1>6. CASE EndClear
  <2>1. /\ UNCHANGED <<next_id, running, proc, spawned, handles, killing, waiting>>
        /\ clearing' = FALSE
    BY <1>6 DEF EndClear
  <2> QED BY <2>1 DEF ChildIInv, Children_TypeOK, TableIsExact, HandlesStayTrue, ClearIsWhole, Serials
<1>7. ASSUME NEW id \in killing, KillOne(id) PROVE ChildIInv'
  BY <1>7, KillStep
<1>8. CASE DaemonDies
  BY <1>8, CrashStep
<1>9. ASSUME NEW p \in Pids, Exit(p) \/ Foreign(p) PROVE ChildIInv'
  BY <1>9, DeviceStep
<1>10. CASE UNCHANGED childVars
  BY <1>10 DEF childVars, ChildIInv, Children_TypeOK, TableIsExact, HandlesStayTrue, ClearIsWhole, Serials
<1> QED BY <1>1, <1>2, <1>3, <1>4, <1>5, <1>6, <1>7, <1>8, <1>9, <1>10 DEF ChildNext, Daemon

\* The inductive invariant of children.rs holds in every reachable state.
THEOREM ChildInvariance == ChildSpec => []ChildIInv
<1> QED BY InitChildIInv, NextChildIInv, PTL DEF ChildSpec

\* Every variable keeps its type; in particular the ids kill_all() has still
\* to go through are in the table, so that every kill() finds its child.
THEOREM ChildTypeCorrect == ChildSpec => []Children_TypeOK
<1>1. ChildIInv => Children_TypeOK
  BY DEF ChildIInv
<1> QED BY <1>1, ChildInvariance, PTL

\* The table and the process waited for are, one to one, the children that
\* nobody has collected: no zombie is lost and no stranger is signalled.
THEOREM TableCorrect == ChildSpec => []TableIsExact
<1>1. ChildIInv => TableIsExact
  BY DEF ChildIInv
<1> QED BY <1>1, ChildInvariance, PTL

\* A child id a client still holds names the process it was given for, or none.
THEOREM HandlesCorrect == ChildSpec => []HandlesStayTrue
<1>1. ChildIInv => HandlesStayTrue
  BY DEF ChildIInv
<1> QED BY <1>1, ChildInvariance, PTL

\* A ClearRouting that is answered leaves no child of the daemon behind.
THEOREM ClearCorrect == ChildSpec => ClearedMeansGone
<1>1. ASSUME ChildIInv, ChildNext, clearing, ~clearing', NEW p \in Pids
      PROVE  proc'[p].state \notin OwnStates
  <2>1. CASE EndClear
    <3>1. DOMAIN running = {} /\ waiting # p /\ proc' = proc
      BY <1>1, <2>1, ChildrenAssumption DEF ChildIInv, ClearIsWhole, EndClear
    <3> QED BY <1>1, <3>1 DEF ChildIInv, TableIsExact
  <2>2. CASE DaemonDies
    BY <1>1, <2>2, CrashStep
  <2>3. CASE ~EndClear /\ ~DaemonDies
    <3>1. clearing' = clearing \/ clearing' = TRUE
      BY <1>1, <2>3
      DEF ChildNext, Daemon, Spawn, Kill, KillAll, Snapshot, Reap, KillOne, Exit, Foreign
    <3> QED BY <1>1, <3>1
  <2> QED BY <2>1, <2>2, <2>3
<1>2. ChildIInv /\ [ChildNext]_childVars =>
        [clearing /\ ~clearing' => \A p \in Pids : proc'[p].state \notin OwnStates]_childVars
  BY <1>1
<1> QED BY <1>2, ChildInvariance, PTL DEF ChildSpec, ClearedMeansGone
=============================================================================
