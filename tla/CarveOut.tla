------------------------------ MODULE CarveOut ------------------------------
(***************************************************************************)
(* The forwarded-client carve-outs (wingsvd routing.rs                     *)
(* apply_/clear_forwarded_redirect and _exclusion, the two dispatch() arms *)
(* that call them, and clear_forwarded_carve_outs()).                      *)
(*                                                                         *)
(* Every iptables call waits at most five seconds for the xtables lock     *)
(* (-w 5) and its failure is ignored, so any of them may silently not      *)
(* happen.  A handler is its commands and how many of them it has run      *)
(* under the session lock; the daemon may die between two of them.         *)
(* The app owns the tproxy PREROUTING chains the exclusion may hang in;    *)
(* they come and go with the app's own tproxy, and each request names one. *)
(***************************************************************************)
EXTENDS Kernel

CONSTANTS
  Redirects,   \* ForwardedRedirectSpecs the app sends
  Exclusions,  \* ForwardedExclusionSpecs the app sends
  None,        \* the session field is None
  MaxTimeouts, \* bound: commands of one handler that time out on the xtables lock
  MaxDoubles   \* bound: handlers in which two commands or more do

VARIABLES
  kernel,     \* chains, entries and jumps, the app's pre-chains among them
  redirect,   \* Session.forwarded_redirect
  exclusion,  \* Session.forwarded_exclusion
  running,    \* the handler that holds the lock, if any
  arg,        \* the spec it works on, or what the clear had on record
  commands,   \* the commands it consists of
  ran,        \* how many of them are through
  timeouts,   \* how many of those have timed out
  flawless,   \* no command of any handler ever has
  doubles,    \* in how many handlers two commands or more have
  astray,     \* an exclusion moved to another pre-chain and left a jump behind
  cleared     \* what the last handler, a finished ClearRouting, had on record

vars ==
  <<kernel, redirect, exclusion, running, arg, commands, ran, timeouts, flawless, doubles, astray,
    cleared>>
session == <<redirect, exclusion>>
handler == <<running, arg, commands, ran>>
history == <<flawless, doubles, astray>>

REDIRECT_CHAIN == "WINGS_XRAY_REDIR"
FORWARD_EXCLUSION_CHAIN == "WINGS_XRAY_TP_FWD"
DEFAULT_TPROXY_PRE_CHAIN == "WINGS_XRAY_TP_PRE"

\* An unnamed pre-chain is the default one, on the way in and on the way out.
pre_chain_or_default(s) ==
  IF s.tproxy_pre_chain = "" THEN DEFAULT_TPROXY_PRE_CHAIN ELSE s.tproxy_pre_chain

PreChains == {pre_chain_or_default(s) : s \in Exclusions}

\* An interface is named once, and the app's chain is one of its own.
ASSUME CarveOutAssumption ==
  /\ None \notin Redirects \cup Exclusions /\ MaxTimeouts \in Nat /\ MaxDoubles \in Nat
  /\ \A s \in Redirects \cup Exclusions :
       /\ s.downstream_interfaces \in Seq(STRING)
       /\ \A i, j \in DOMAIN s.downstream_interfaces :
            s.downstream_interfaces[i] = s.downstream_interfaces[j] =>
              i = j \/ s.downstream_interfaces[i] = ""
  /\ PreChains \cap (BuiltIn \cup {REDIRECT_CHAIN, FORWARD_EXCLUSION_CHAIN}) = {}
-----------------------------------------------------------------------------
EntriesOf(chain) == Present(kernel, [kind |-> "entry", fam |-> 4, chain |-> chain])
JumpsTo(chain) == Present(kernel, [kind |-> "jump", fam |-> 4, chain |-> chain])

(* The commands.  All are IPv4. *)
RedirectJump  == Jump(4, "PREROUTING", REDIRECT_CHAIN)
ExclusionJump(pre_chain) == Jump(4, pre_chain, FORWARD_EXCLUSION_CHAIN)
EmptyChain(chain) == Flush([kind |-> "entry", fam |-> 4, chain |-> chain])

\* Mutant: the jump is inserted without looking.
InsertBlindly(jump) == <<Add(jump)>>

\* -C followed by the -I that only runs when it fails.
InsertUnlessThere(jump) == <<[verb |-> "check", what |-> jump, must |-> FALSE], Add(jump)>>

\* Mutant: the chain is emptied while traffic still goes through it.
ClearChainLate(jump, chain) == <<EmptyChain(chain), Del(jump), Del(Chain(4, chain))>>

ClearChain(jump, chain) == <<Del(jump), EmptyChain(chain), Del(Chain(4, chain))>>

clear_forwarded_redirect == ClearChain(RedirectJump, REDIRECT_CHAIN)
clear_forwarded_exclusion(pre_chain) ==
  ClearChain(ExclusionJump(pre_chain), FORWARD_EXCLUSION_CHAIN)

\* An interface list may hold empty names, which the loops pass over.
Skip == [verb |-> "skip"]
Names(s) == {s.downstream_interfaces[i] : i \in DOMAIN s.downstream_interfaces} \ {""}
ForNamed(name, command) == IF name = "" THEN Skip ELSE command

Redirected == <<"tcp", "udp but dns">>
RedirectEntry(s, name, what) ==
  Entry(4, REDIRECT_CHAIN, [iface |-> name, what |-> what, port |-> s.redirect_port])
AddRedirects(s) ==
  [k \in 1..(2 * Len(s.downstream_interfaces)) |->
     LET name == s.downstream_interfaces[(k + 1) \div 2]
     IN  ForNamed(name, Add(RedirectEntry(s, name, Redirected[2 - (k % 2)])))]

ExclusionEntry(s, name) ==
  Entry(4, FORWARD_EXCLUSION_CHAIN, [iface |-> name, what |-> IF s.dns_only THEN "dns" ELSE "all"])
AddExclusions(s) ==
  [i \in DOMAIN s.downstream_interfaces |->
     LET name == s.downstream_interfaces[i] IN ForNamed(name, Add(ExclusionEntry(s, name)))]

\* The chain is torn down, and if anything is asked for built and hooked in.
Refill(jump, chain, adds, hook) ==
  ClearChain(jump, chain) \o <<Add(Chain(4, chain)), EmptyChain(chain)>> \o adds \o hook

apply_forwarded_redirect(s) ==
  IF s.downstream_interfaces = <<>> \/ s.redirect_port = 0 THEN clear_forwarded_redirect
  ELSE Refill(RedirectJump, REDIRECT_CHAIN, AddRedirects(s), InsertUnlessThere(RedirectJump))

apply_forwarded_exclusion(s) ==
  LET jump == ExclusionJump(pre_chain_or_default(s))
  IN  IF s.downstream_interfaces = <<>> THEN clear_forwarded_exclusion(pre_chain_or_default(s))
      ELSE Refill(jump, FORWARD_EXCLUSION_CHAIN, AddExclusions(s), <<Del(jump), Add(jump)>>)
-----------------------------------------------------------------------------
\* What a teardown has on record; nothing when there is none.
OnRecord == [redirect |-> redirect, exclusion |-> exclusion]
Nothing == [redirect |-> None, exclusion |-> None]

\* A handler's first commands; the session field is set when they are through.
Begin(who, what, cmds) ==
  /\ running = "nothing"
  /\ running' = who /\ arg' = what
  /\ commands' = cmds /\ ran' = 0
  /\ timeouts' = 0 /\ cleared' = Nothing
  /\ UNCHANGED <<flawless, doubles>>

Init ==
  /\ kernel = EmptyBag
  /\ redirect = None /\ exclusion = None
  /\ running = "nothing" /\ arg = None /\ commands = <<>> /\ ran = 0
  /\ timeouts = 0 /\ flawless = TRUE /\ doubles = 0 /\ astray = FALSE /\ cleared = Nothing

ApplyForwardedRedirect(s) ==
  /\ Begin("redirect", s, apply_forwarded_redirect(s))
  /\ UNCHANGED <<kernel, session, astray>>

\* The handler clears the pre-chain the request names, and that one only.
ApplyForwardedExclusion(s) ==
  /\ Begin("exclusion", s, apply_forwarded_exclusion(s))
  /\ LET jumps == JumpsTo(FORWARD_EXCLUSION_CHAIN)
     IN  astray' = \/ jumps \ {ExclusionJump(pre_chain_or_default(s))} # {}
                   \/ astray /\ jumps # {}
  /\ UNCHANGED <<kernel, session>>

\* Mutant: the jump is looked for in the default pre-chain.
ClearDefaultPreChain ==
  /\ Begin("clear", OnRecord,
       (IF redirect # None THEN clear_forwarded_redirect ELSE <<>>)
         \o (IF exclusion # None THEN clear_forwarded_exclusion(DEFAULT_TPROXY_PRE_CHAIN) ELSE <<>>))
  /\ redirect' = None /\ exclusion' = None
  /\ UNCHANGED <<kernel, astray>>

\* clear_forwarded_carve_outs(): both fields are taken, and only what was
\* recorded is torn down.
ClearCarveOuts ==
  /\ Begin("clear", OnRecord,
       (IF redirect # None THEN clear_forwarded_redirect ELSE <<>>)
         \o (IF exclusion # None THEN clear_forwarded_exclusion(pre_chain_or_default(exclusion))
             ELSE <<>>))
  /\ redirect' = None /\ exclusion' = None
  /\ UNCHANGED <<kernel, astray>>

\* A -C that finds its jump spares the -I behind it.
Found(c) == c.verb = "check" /\ BagIn(c.what, kernel)

Exec ==
  /\ ran < Len(commands)
  /\ LET c == commands[ran + 1]
     IN  \/ /\ kernel' \in After(kernel, c) /\ ran' = ran + 1
            /\ UNCHANGED <<timeouts, history>>
         \/ /\ After(kernel, c) = {} /\ ran' = ran + (IF Found(c) THEN 2 ELSE 1)
            /\ UNCHANGED <<kernel, timeouts, history>>
         \/ /\ c.verb # "skip" /\ timeouts < MaxTimeouts
            /\ timeouts = 1 => doubles < MaxDoubles
            /\ timeouts' = timeouts + 1 /\ ran' = ran + 1
            /\ flawless' = FALSE /\ doubles' = IF timeouts = 1 THEN doubles + 1 ELSE doubles
            /\ UNCHANGED <<kernel, astray>>
  /\ UNCHANGED <<session, running, arg, commands, cleared>>

\* What is recorded is what was asked for; an empty interface set forgets it.
Recorded(s) == IF s.downstream_interfaces = <<>> THEN None ELSE s

Unlock == running' = "nothing" /\ arg' = None /\ commands' = <<>> /\ ran' = 0 /\ timeouts' = 0

Finish ==
  /\ running # "nothing" /\ ran = Len(commands)
  /\ redirect' = IF running = "redirect" THEN Recorded(arg) ELSE redirect
  /\ exclusion' = IF running = "exclusion" THEN Recorded(arg) ELSE exclusion
  /\ cleared' = IF running = "clear" THEN arg ELSE Nothing
  /\ Unlock
  /\ UNCHANGED <<kernel, history>>

Crash ==
  /\ redirect' = None /\ exclusion' = None /\ cleared' = Nothing
  /\ Unlock
  /\ UNCHANGED <<kernel, history>>

\* The app brings a tproxy chain of its own up, or flushes and deletes it.
AppTproxy(pre_chain) ==
  /\ kernel' = IF HasChain(kernel, 4, pre_chain)
               THEN [x \in {y \in BagToSet(kernel) :
                              y # Chain(4, pre_chain) /\ ~(y.kind = "jump" /\ y.at = pre_chain)}
                       |-> kernel[x]]
               ELSE kernel (+) SetToBag({Chain(4, pre_chain)})
  /\ UNCHANGED <<session, handler, timeouts, history, cleared>>

Next ==
  \/ \E s \in Redirects : ApplyForwardedRedirect(s)
  \/ \E s \in Exclusions : ApplyForwardedExclusion(s)
  \/ ClearCarveOuts \/ Exec \/ Finish \/ Crash
  \/ \E p \in PreChains : AppTproxy(p)

Spec == Init /\ [][Next]_vars
-----------------------------------------------------------------------------
(***************************************************************************)
(* Properties.                                                             *)
(***************************************************************************)
RedirectEntries(s) == {RedirectEntry(s, n, w) : n \in Names(s), w \in {Redirected[1], Redirected[2]}}
ExclusionEntries(s) == {ExclusionEntry(s, n) : n \in Names(s)}

\* The requests that ask for something.
Asked(specs) == {s \in specs : s.downstream_interfaces # <<>>}

\* Forwarded traffic is not counted or redirected twice: every entry and jump
\* is there once, and each further copy of one has cost a handler in which two
\* commands timed out on the xtables lock (routing.rs:258-261, "cannot stack a
\* second copy", overlooks that).  The daemon may die at will.
CopiesCostTwoTimeouts == \A x \in BagToSet(kernel) : kernel[x] <= 1 + doubles

\* Unless a command timed out, traffic never sees half a carve-out: while a
\* chain is jumped to it holds what one request asked for and nothing less.
\* The exclusion's does only as long as no request has named another pre-chain
\* than the one its jump stood in (routing.rs:370 clears the new one).
HookedIsWhole == flawless =>
  /\ JumpsTo(REDIRECT_CHAIN) # {} =>
       \E s \in Asked(Redirects) : EntriesOf(REDIRECT_CHAIN) = RedirectEntries(s)
  /\ ~astray /\ JumpsTo(FORWARD_EXCLUSION_CHAIN) # {} =>
       \E s \in Asked(Exclusions) : EntriesOf(FORWARD_EXCLUSION_CHAIN) = ExclusionEntries(s)

\* Unless a command timed out, a full teardown takes the jump from the pre-chain
\* it had on record, whatever its name (main.rs:348-349, "removed from the same
\* place it was inserted"), empties the chains, and leaves nothing else behind
\* but what a request with another pre-chain has left before.
TornDown == flawless =>
  /\ cleared.redirect # None =>
       JumpsTo(REDIRECT_CHAIN) = {} /\ ~HasChain(kernel, 4, REDIRECT_CHAIN)
  /\ cleared.exclusion # None =>
       /\ ~BagIn(ExclusionJump(pre_chain_or_default(cleared.exclusion)), kernel)
       /\ EntriesOf(FORWARD_EXCLUSION_CHAIN) = {}
       /\ ~astray => /\ JumpsTo(FORWARD_EXCLUSION_CHAIN) = {}
                     /\ ~HasChain(kernel, 4, FORWARD_EXCLUSION_CHAIN)
=============================================================================
