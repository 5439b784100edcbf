------------------------------- MODULE Kernel -------------------------------
(***************************************************************************)
(* What `ip`, `iptables` and `ndc` do to the kernel, as far as routing.rs  *)
(* relies on it.  The kernel is a bag of items: policy rules, routes,      *)
(* chains, what is in the chains and the jumps to them.  A command is      *)
(* refused, or leaves one of a set of kernels behind.                      *)
(*                                                                         *)
(* Nothing here is code of the repository: it is the system the commands   *)
(* of routing.rs are run on.                                               *)
(***************************************************************************)
EXTENDS Naturals, Sequences, Bags

Families == {4, 6}

Rule(fam, pref, sel, table)   == [kind |-> "rule", fam |-> fam, pref |-> pref, sel |-> sel, table |-> table]
Route(fam, table, via, metric) == [kind |-> "route", fam |-> fam, table |-> table, via |-> via, metric |-> metric]
Chain(fam, chain)             == [kind |-> "chain", fam |-> fam, chain |-> chain]
Entry(fam, chain, match)      == [kind |-> "entry", fam |-> fam, chain |-> chain, match |-> match]
Jump(fam, at, chain)          == [kind |-> "jump", fam |-> fam, at |-> at, chain |-> chain]
Protected(uid)                == [kind |-> "protected", uid |-> uid]

BuiltIn == {"OUTPUT", "PREROUTING"}

\* A command is a verb and an item, or the part of an item it goes by.
Add(item)     == [verb |-> "add", what |-> item, must |-> FALSE]
Del(pattern)  == [verb |-> "del", what |-> pattern, must |-> FALSE]
Flush(pattern) == [verb |-> "flush", what |-> pattern, must |-> FALSE]

Matches(item, pattern) ==
  \A f \in DOMAIN pattern : f \in DOMAIN item /\ item[f] = pattern[f]

Present(k, pattern) == {x \in BagToSet(k) : Matches(x, pattern)}

HasChain(k, fam, chain) == chain \in BuiltIn \/ BagIn(Chain(fam, chain), k)

\* A second route of the same metric, a duplicate rule and an existing chain
\* are refused (EEXIST); so is a rule in, from or to a chain that is not there.
Refused(k, x) ==
  \/ x.kind = "route" /\ Present(k, [kind |-> "route", fam |-> x.fam, table |-> x.table,
                                     metric |-> x.metric]) # {}
  \/ x.kind \in {"rule", "chain", "protected"} /\ BagIn(x, k)
  \/ x.kind \in {"entry", "jump"} /\ ~HasChain(k, x.fam, x.chain)
  \/ x.kind = "jump" /\ ~HasChain(k, x.fam, x.at)

\* -X refuses a chain that holds rules or is jumped to.
InUse(k, x) ==
  x.kind = "chain" /\ \E y \in BagToSet(k) :
    /\ y.kind \in {"entry", "jump"} /\ y.fam = x.fam
    /\ y.chain = x.chain \/ (y.kind = "jump" /\ y.at = x.chain)

\* The kernels the command can leave behind; none when it is refused.  A del
\* takes one matching item, a flush all of them.
After(k, c) ==
  CASE c.verb = "add"   -> {k (+) SetToBag({x}) : x \in {y \in {c.what} : ~Refused(k, y)}}
    [] c.verb = "del"   -> {k (-) SetToBag({x}) : x \in {y \in Present(k, c.what) : ~InUse(k, y)}}
    [] c.verb = "flush" -> {[x \in BagToSet(k) \ Present(k, c.what) |-> k[x]]}
    [] OTHER -> {}
=============================================================================
