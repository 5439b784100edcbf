--------------------------- MODULE CarveOutProofs ---------------------------
(***************************************************************************)
(* The carve-outs for any requests.  What a copy costs, though each        *)
(* command may time out, is a matter of counting: what is still to be      *)
(* added has two commands before it that remove it, so it takes two        *)
(* timeouts to keep it.  Without timeouts a handler's place in its         *)
(* commands says how much of the chain is torn down or built.              *)
(***************************************************************************)
EXTENDS CarveOut, SequenceTheorems, TLAPS

Targets == {REDIRECT_CHAIN, FORWARD_EXCLUSION_CHAIN}

\* What the handlers and the app put into the kernel.
Entries ==
  UNION ({RedirectEntries(s) : s \in Redirects} \cup {ExclusionEntries(s) : s \in Exclusions})
JumpsInto(c) ==
  IF c = REDIRECT_CHAIN THEN {RedirectJump} ELSE {ExclusionJump(p) : p \in PreChains}
Jumps == JumpsInto(REDIRECT_CHAIN) \cup JumpsInto(FORWARD_EXCLUSION_CHAIN)
Items == {Chain(4, c) : c \in Targets \cup PreChains} \cup Entries \cup Jumps

Check(jump) == [verb |-> "check", what |-> jump, must |-> FALSE]

\* Where a request hooks the exclusion in.
Hook(s) == ExclusionJump(pre_chain_or_default(s))

\* What of them is in a kernel, and how often.
EntriesIn(k, c) == {x \in DOMAIN k : x \in Entries /\ x.chain = c}
JumpsIn(k, c) == {x \in DOMAIN k : x \in Jumps /\ x.chain = c}
Copies(k, x) == IF x \in DOMAIN k THEN k[x] ELSE 0

\* Everything is there once, and n more times at most.
Few(k, n) == \A x \in DOMAIN k : k[x] \in 1..(n + 1)

\* Two kernels differ in nothing else.
Same(k, m, S) ==
  \A x : x \notin S => (x \in DOMAIN m <=> x \in DOMAIN k) /\ Copies(m, x) = Copies(k, x)

\* Nothing of an exclusion was left behind in another pre-chain, so that its
\* chain is hooked in at one place.
OneJump(c) == c = REDIRECT_CHAIN \/ ~astray
InPlace(c, jump) == OneJump(c) => JumpsIn(kernel, c) \subseteq {jump}

\* The ways a chain is filled, and what it holds then.
AddsTo(c) == IF c = REDIRECT_CHAIN THEN {AddRedirects(s) : s \in Asked(Redirects)}
             ELSE {AddExclusions(s) : s \in Asked(Exclusions)}
Wholes(c) == IF c = REDIRECT_CHAIN THEN {RedirectEntries(s) : s \in Asked(Redirects)}
             ELSE {ExclusionEntries(s) : s \in Asked(Exclusions)}
Hooks(jump) == {InsertUnlessThere(jump), <<Del(jump), Add(jump)>>}

Added(adds, i) == {x \in Entries : \E n \in DOMAIN adds : n <= i /\ adds[n] = Add(x)}

\* How far a chain is built.  The jump and the old entries have two commands
\* against them before anything like them is added: one timeout leaves a copy
\* less than there may be, and a second one is paid for.
Building(c, jump, adds) ==
  /\ ran \in 1..(Len(adds) + 5) /\ timeouts # 1 => Copies(kernel, jump) <= doubles
  /\ ran = Len(adds) + 6 => Copies(kernel, jump) <= doubles
  /\ ran \in 2..4 /\ timeouts # 1 => \A x \in EntriesIn(kernel, c) : Copies(kernel, x) <= doubles
  /\ ran >= 5 =>
       \A x \in EntriesIn(kernel, c) \ Added(adds, ran - 5) : Copies(kernel, x) <= doubles
  /\ flawless =>
       /\ ran >= 4 => Chain(4, c) \in DOMAIN kernel
       /\ ran >= 5 => Added(adds, ran - 5) \subseteq EntriesIn(kernel, c)

\* How far it is torn down by the three commands behind the first o.
Tearing(c, jump, o) ==
  flawless =>
    /\ ran >= o + 1 => jump \notin DOMAIN kernel
    /\ ran >= o + 2 => EntriesIn(kernel, c) = {}
    /\ ran >= o + 3 /\ OneJump(c) => Chain(4, c) \notin DOMAIN kernel

\* A handler is one of these, and so far on.
Filling(c, jump) ==
  \E adds \in AddsTo(c) : \E hook \in Hooks(jump) :
    commands = Refill(jump, c, adds, hook) /\ Building(c, jump, adds)
Emptying(c, jump) == commands = ClearChain(jump, c) /\ Tearing(c, jump, 0)
Working(c, jump) == InPlace(c, jump) /\ (Filling(c, jump) \/ Emptying(c, jump))
ClearingBoth(jump) ==
  /\ commands = clear_forwarded_redirect \o ClearChain(jump, FORWARD_EXCLUSION_CHAIN)
  /\ Tearing(REDIRECT_CHAIN, RedirectJump, 0)
  /\ Tearing(FORWARD_EXCLUSION_CHAIN, jump, 3)
Clearing ==
  /\ arg.exclusion \in Exclusions \cup {None}
  /\ arg.exclusion # None => InPlace(FORWARD_EXCLUSION_CHAIN, Hook(arg.exclusion))
  /\ \/ arg.redirect = None /\ arg.exclusion = None /\ commands = <<>>
     \/ arg.redirect # None /\ arg.exclusion = None /\ Emptying(REDIRECT_CHAIN, RedirectJump)
     \/ /\ arg.redirect = None /\ arg.exclusion # None
        /\ Emptying(FORWARD_EXCLUSION_CHAIN, Hook(arg.exclusion))
     \/ arg.redirect # None /\ arg.exclusion # None /\ ClearingBoth(Hook(arg.exclusion))

Handler ==
  \/ running = "nothing" /\ commands = <<>>
  \/ running = "redirect" /\ arg \in Redirects /\ Working(REDIRECT_CHAIN, RedirectJump)
  \/ running = "exclusion" /\ arg \in Exclusions /\ Working(FORWARD_EXCLUSION_CHAIN, Hook(arg))
  \/ running = "clear" /\ Clearing

Types ==
  /\ DOMAIN kernel \subseteq Items
  /\ redirect \in Redirects \cup {None} /\ exclusion \in Exclusions \cup {None}
  /\ ran \in 0..Len(commands) /\ timeouts \in 0..ran
  /\ flawless \in BOOLEAN /\ doubles \in Nat
  /\ flawless => timeouts = 0 /\ doubles = 0

Whole(c) == JumpsIn(kernel, c) # {} => EntriesIn(kernel, c) \in Wholes(c)
Gone(c) == JumpsIn(kernel, c) = {} /\ Chain(4, c) \notin DOMAIN kernel

Kept ==
  /\ Few(kernel, doubles)
  /\ flawless => \A c \in Targets : OneJump(c) => Whole(c)

\* The exclusion on record is the one that is hooked in.
Recalled ==
  exclusion # None /\ running # "exclusion" => InPlace(FORWARD_EXCLUSION_CHAIN, Hook(exclusion))

\* What is left behind a finished teardown.
Torn(jump) ==
  /\ jump \notin DOMAIN kernel /\ EntriesIn(kernel, FORWARD_EXCLUSION_CHAIN) = {}
  /\ ~astray => Gone(FORWARD_EXCLUSION_CHAIN)

IInv ==
  /\ Types
  /\ Handler
  /\ Kept
  /\ Recalled
  /\ running # "nothing" => cleared = Nothing
  /\ cleared.exclusion \in Exclusions \cup {None}
  /\ flawless /\ cleared.redirect # None => Gone(REDIRECT_CHAIN)
  /\ flawless /\ cleared.exclusion # None => Torn(Hook(cleared.exclusion))
-----------------------------------------------------------------------------
(* The kernel. *)

\* What an item is, and what chain it is in or leads to.
LEMMA ItemIs ==
  /\ \A x \in Entries : /\ x.kind = "entry" /\ x.fam = 4 /\ x.chain \in Targets
                        /\ x = Entry(4, x.chain, x.match)
  /\ \A c \in Targets : \A x \in JumpsInto(c) : x \in Jumps /\ x.chain = c
  /\ \A x \in Jumps : /\ x.kind = "jump" /\ x.fam = 4 /\ x.chain \in Targets
                      /\ x = Jump(4, x.at, x.chain) /\ x \in JumpsInto(x.chain)
                      /\ x.at \in PreChains \cup {"PREROUTING"}
  /\ \A c : Chain(4, c).kind = "chain" /\ Chain(4, c).fam = 4 /\ Chain(4, c).chain = c
<1>1. ASSUME NEW x \in Entries
      PROVE  /\ x.kind = "entry" /\ x.fam = 4 /\ x.chain \in Targets
             /\ x = Entry(4, x.chain, x.match)
  <2>1. (\E s \in Redirects : x \in RedirectEntries(s)) \/ (\E s \in Exclusions : x \in ExclusionEntries(s))
    <3>1. PICK S \in {RedirectEntries(s) : s \in Redirects} \cup {ExclusionEntries(s) : s \in Exclusions} : x \in S
      BY DEF Entries
    <3> QED
      BY <3>1
  <2>2. \E c \in Targets : \E m : x = Entry(4, c, m)
    <3>1. ASSUME NEW s \in Redirects, x \in RedirectEntries(s) PROVE \E m : x = Entry(4, REDIRECT_CHAIN, m)
      <4>1. PICK n \in Names(s), w \in {Redirected[1], Redirected[2]} : x = RedirectEntry(s, n, w)
        BY <3>1 DEF RedirectEntries
      <4> QED
        BY <4>1 DEF RedirectEntry
    <3>2. ASSUME NEW s \in Exclusions, x \in ExclusionEntries(s)
          PROVE  \E m : x = Entry(4, FORWARD_EXCLUSION_CHAIN, m)
      BY <3>2 DEF ExclusionEntries, ExclusionEntry
    <3> QED
      BY <2>1, <3>1, <3>2 DEF Targets
  <2> QED
    BY <2>2 DEF Entry
<1>2. /\ RedirectJump = Jump(4, "PREROUTING", REDIRECT_CHAIN)
      /\ \A p \in PreChains : ExclusionJump(p) = Jump(4, p, FORWARD_EXCLUSION_CHAIN)
      /\ REDIRECT_CHAIN # FORWARD_EXCLUSION_CHAIN
  BY DEF RedirectJump, ExclusionJump, REDIRECT_CHAIN, FORWARD_EXCLUSION_CHAIN
<1>3. \A at, c : /\ Jump(4, at, c).kind = "jump" /\ Jump(4, at, c).fam = 4
                 /\ Jump(4, at, c).at = at /\ Jump(4, at, c).chain = c
  BY DEF Jump
<1>4. \A c \in Targets : \A x \in JumpsInto(c) : x \in Jumps /\ x.chain = c
  BY <1>2, <1>3 DEF JumpsInto, Jumps, Targets
<1>5. \A x \in Jumps : \E p \in PreChains \cup {"PREROUTING"}, c \in Targets : x = Jump(4, p, c) /\ x \in JumpsInto(c)
  BY <1>2 DEF JumpsInto, Jumps, Targets
<1>6. \A c : Chain(4, c).kind = "chain" /\ Chain(4, c).fam = 4 /\ Chain(4, c).chain = c
  BY DEF Chain
<1> QED
  BY <1>1, <1>3, <1>4, <1>5, <1>6

\* What -F matches.
LEMMA EntryMatches ==
  ASSUME NEW x \in Items, NEW c
  PROVE  Matches(x, [kind |-> "entry", fam |-> 4, chain |-> c]) <=> x \in Entries /\ x.chain = c
<1>1. CASE x \in Entries
  BY <1>1, ItemIs DEF Matches, Entry
<1>2. CASE x \in Jumps
  <2>1. x.kind = "jump" /\ x \notin Entries
    BY <1>2, ItemIs
  <2> QED
    BY <2>1 DEF Matches
<1>3. ASSUME NEW d \in Targets \cup PreChains, x = Chain(4, d)
      PROVE  Matches(x, [kind |-> "entry", fam |-> 4, chain |-> c]) <=> x \in Entries /\ x.chain = c
  <2>1. x.kind = "chain" /\ x \notin Entries
    BY <1>3, ItemIs
  <2> QED
    BY <2>1 DEF Matches
<1> QED
  BY <1>1, <1>2, <1>3 DEF Items

\* What the reference to a chain matches.
LEMMA JumpMatches ==
  ASSUME NEW x \in Items, NEW c
  PROVE  Matches(x, [kind |-> "jump", fam |-> 4, chain |-> c]) <=> x \in Jumps /\ x.chain = c
<1>1. CASE x \in Jumps
  BY <1>1, ItemIs DEF Matches, Jump
<1>2. CASE x \in Entries
  <2>1. x.kind = "entry" /\ x \notin Jumps
    BY <1>2, ItemIs
  <2> QED
    BY <2>1 DEF Matches
<1>3. ASSUME NEW d \in Targets \cup PreChains, x = Chain(4, d)
      PROVE  Matches(x, [kind |-> "jump", fam |-> 4, chain |-> c]) <=> x \in Jumps /\ x.chain = c
  <2>1. x.kind = "chain" /\ x \notin Jumps
    BY <1>3, ItemIs
  <2> QED
    BY <2>1 DEF Matches
<1> QED
  BY <1>1, <1>2, <1>3 DEF Items

\* A pattern that is a whole jump or chain is matched by that one only.
LEMMA SelfMatches ==
  ASSUME NEW x \in Items, NEW y \in Items \ Entries
  PROVE  Matches(x, y) <=> x = y
<1>1. CASE x = y
  BY <1>1 DEF Matches
<1>2. ASSUME Matches(x, y), y \in Jumps PROVE x = y
  <2>1. y = Jump(4, y.at, y.chain)
    BY <1>2, ItemIs
  <2>2. x.kind = "jump" /\ x.at = y.at /\ x.chain = y.chain
    BY <1>2, <2>1 DEF Matches, Jump
  <2>3. x \in Jumps
    BY <2>2, ItemIs DEF Items
  <2> QED
    BY <2>1, <2>2, <2>3, ItemIs
<1>3. ASSUME Matches(x, y), NEW d, y = Chain(4, d) PROVE x = y
  <2>1. x.kind = "chain" /\ x.chain = d
    BY <1>3 DEF Matches, Chain
  <2>2. \E e \in Targets \cup PreChains : x = Chain(4, e)
    BY <2>1, ItemIs DEF Items
  <2> QED
    BY <2>1, <2>2, <1>3, ItemIs
<1> QED
  BY <1>1, <1>2, <1>3 DEF Items

\* Few counts copies.
LEMMA FewIs ==
  ASSUME NEW k, NEW n \in Nat, Few(k, n)
  PROVE  \A x : /\ Copies(k, x) \in 0..(n + 1)
                /\ x \in DOMAIN k <=> Copies(k, x) >= 1
                /\ x \notin DOMAIN k <=> Copies(k, x) = 0
BY DEF Few, Copies

\* What a command does to a kernel that holds few copies of each.
LEMMA AddIs ==
  ASSUME NEW k, NEW n \in Nat, Few(k, n), NEW x \in Items, NEW m \in After(k, Add(x))
  PROVE  /\ ~Refused(k, x) /\ x \in DOMAIN m /\ Same(k, m, {x})
         /\ Copies(k, x) <= n => Few(m, n)
<1>1. m = k (+) SetToBag({x}) /\ ~Refused(k, x)
  BY DEF After, Add
<1>2. m = [e \in DOMAIN k \cup {x} |-> Copies(k, e) + (IF e \in {x} THEN 1 ELSE 0)]
  BY <1>1 DEF SetToBag, (+), Copies
<1>3. DOMAIN m = DOMAIN k \cup {x} /\ m[x] = Copies(k, x) + 1
      /\ \A e \in DOMAIN k : e # x => m[e] = k[e]
  <2>1. \A e \in DOMAIN k : k[e] \in 1..(n + 1) /\ Copies(k, e) = k[e]
    BY DEF Few, Copies
  <2> QED
    BY <1>2, <2>1
<1>4. Copies(k, x) \in Nat
  BY FewIs
<1>5. Same(k, m, {x})
  BY <1>3 DEF Same, Copies
<1>6. ASSUME Copies(k, x) <= n PROVE Few(m, n)
  BY <1>3, <1>4, <1>6 DEF Few
<1> QED
  BY <1>1, <1>3, <1>5, <1>6

\* A del takes one of the item it names, and only when nothing uses it.
LEMMA DelIs ==
  ASSUME NEW k, DOMAIN k \subseteq Items, NEW n \in Nat, Few(k, n),
         NEW x \in Items \ Entries, NEW m \in After(k, Del(x))
  PROVE  /\ Few(m, n) /\ Same(k, m, {x}) /\ Copies(m, x) <= n
         /\ DOMAIN m \subseteq DOMAIN k /\ ~InUse(k, x)
<1>1. m \in {k (-) SetToBag({y}) : y \in {z \in Present(k, x) : ~InUse(k, z)}}
  BY DEF After, Del
<1>2. PICK y \in Present(k, x) : ~InUse(k, y) /\ m = k (-) SetToBag({y})
  BY <1>1
<1>3. y = x /\ x \in DOMAIN k
  BY <1>2, SelfMatches DEF Present, BagToSet
<1>4. m = [e \in {d \in DOMAIN k : (IF d \in {x} THEN k[d] - 1 ELSE k[d]) > 0} |->
             IF e \in {x} THEN k[e] - 1 ELSE k[e]]
  BY <1>2, <1>3 DEF SetToBag, (-)
<1>5. DOMAIN m = {d \in DOMAIN k : (IF d = x THEN k[d] - 1 ELSE k[d]) > 0}
      /\ \A e \in DOMAIN m : m[e] = IF e = x THEN k[e] - 1 ELSE k[e]
  BY <1>4
<1>6. \A e \in DOMAIN k : k[e] \in 1..(n + 1)
  BY DEF Few
<1>7. \A e : e # x => (e \in DOMAIN m <=> e \in DOMAIN k)
  BY <1>5, <1>6
<1>8. Same(k, m, {x})
  BY <1>5, <1>7 DEF Same, Copies
<1>9. Few(m, n)
  BY <1>5, <1>6 DEF Few
<1>10. Copies(m, x) <= n
  BY <1>3, <1>5, <1>6 DEF Copies
<1> QED
  BY <1>2, <1>3, <1>5, <1>8, <1>9, <1>10

\* A flush takes the entries of its chain.
LEMMA FlushIs ==
  ASSUME NEW k, DOMAIN k \subseteq Items, NEW n \in Nat, Few(k, n), NEW c, NEW m \in After(k, EmptyChain(c))
  PROVE  /\ Few(m, n) /\ Same(k, m, {x \in Entries : x.chain = c}) /\ EntriesIn(m, c) = {}
         /\ DOMAIN m \subseteq DOMAIN k
<1> DEFINE pattern == [kind |-> "entry", fam |-> 4, chain |-> c]
<1>1. m = [x \in DOMAIN k \ Present(k, pattern) |-> k[x]]
  BY DEF After, EmptyChain, Flush, BagToSet
<1>2. \A x \in DOMAIN k : x \in Present(k, pattern) <=> x \in Entries /\ x.chain = c
  BY EntryMatches DEF Present, BagToSet
<1>3. DOMAIN m = {x \in DOMAIN k : ~(x \in Entries /\ x.chain = c)} /\ \A x \in DOMAIN m : m[x] = k[x]
  BY <1>1, <1>2
<1> QED
  BY <1>3 DEF Few, Same, Copies, EntriesIn

\* Which commands come to nothing.
LEMMA NothingDone ==
  ASSUME NEW k, DOMAIN k \subseteq Items
  PROVE  /\ \A x \in Items : After(k, Add(x)) = {} => Refused(k, x)
         /\ \A x \in Items \ Entries : After(k, Del(x)) = {} => x \notin DOMAIN k \/ InUse(k, x)
         /\ \A c : After(k, EmptyChain(c)) # {}
         /\ After(k, Skip) = {} /\ \A x : After(k, Check(x)) = {}
<1>1. ASSUME NEW x \in Items, ~Refused(k, x) PROVE After(k, Add(x)) # {}
  BY <1>1 DEF After, Add
<1>2. ASSUME NEW x \in Items \ Entries, x \in DOMAIN k, ~InUse(k, x) PROVE After(k, Del(x)) # {}
  <2>1. x \in Present(k, x)
    BY <1>2, SelfMatches DEF Present, BagToSet
  <2>2. k (-) SetToBag({x}) \in {k (-) SetToBag({y}) : y \in {z \in Present(k, x) : ~InUse(k, z)}}
    BY <1>2, <2>1
  <2> QED
    BY <2>2 DEF After, Del
<1>3. ASSUME NEW c PROVE After(k, EmptyChain(c)) # {}
  BY DEF After, EmptyChain, Flush
<1>4. After(k, Skip) = {} /\ \A x : After(k, Check(x)) = {}
  BY DEF After, Skip, Check
<1> QED
  BY <1>1, <1>2, <1>3, <1>4

\* Entries, jumps and chains are different things.
LEMMA Kinds ==
  /\ Entries \cap Jumps = {}
  /\ \A c : Chain(4, c) \notin Entries \cup Jumps
  /\ \A c, d : Chain(4, c) = Chain(4, d) => c = d
BY ItemIs

\* What stays of a kernel of which one item changes.
LEMMA SameIs ==
  ASSUME NEW k, NEW m, NEW x, Same(k, m, {x}), NEW d
  PROVE  /\ ~(x \in Entries /\ x.chain = d) => EntriesIn(m, d) = EntriesIn(k, d)
         /\ ~(x \in Jumps /\ x.chain = d) => JumpsIn(m, d) = JumpsIn(k, d)
         /\ JumpsIn(m, d) \subseteq JumpsIn(k, d) \cup {x}
         /\ EntriesIn(m, d) \subseteq EntriesIn(k, d) \cup {x}
BY DEF Same, EntriesIn, JumpsIn

\* What stays of one of which a chain is emptied.
LEMMA SameButEntries ==
  ASSUME NEW k, NEW m, NEW c, Same(k, m, {x \in Entries : x.chain = c})
  PROVE  /\ \A d : d # c => EntriesIn(m, d) = EntriesIn(k, d)
         /\ \A d : JumpsIn(m, d) = JumpsIn(k, d)
         /\ \A d : Chain(4, d) \in DOMAIN m <=> Chain(4, d) \in DOMAIN k
         /\ \A x \in Jumps : Copies(m, x) = Copies(k, x)
BY Kinds DEF Same, EntriesIn, JumpsIn

\* What it means for the chain when a command is refused.
LEMMA RefusedMeans ==
  ASSUME NEW k, DOMAIN k \subseteq Items, NEW c \in Targets
  PROVE  /\ After(k, Add(Chain(4, c))) = {} => Chain(4, c) \in DOMAIN k
         /\ \A x \in Entries : After(k, Add(x)) = {} => Chain(4, x.chain) \notin DOMAIN k
         /\ \A x \in Jumps : After(k, Del(x)) = {} => x \notin DOMAIN k
         /\ After(k, Del(Chain(4, c))) = {} =>
              Chain(4, c) \notin DOMAIN k \/ EntriesIn(k, c) # {} \/ JumpsIn(k, c) # {}
<1>1. Chain(4, c) \in Items \ Entries /\ Jumps \subseteq Items \ Entries /\ Entries \subseteq Items
  BY Kinds DEF Items
<1>2. After(k, Add(Chain(4, c))) = {} => Chain(4, c) \in DOMAIN k
  <2>1. Refused(k, Chain(4, c)) => Chain(4, c) \in DOMAIN k
    BY ItemIs DEF Refused, BagIn, BagToSet
  <2> QED
    BY <1>1, <2>1, NothingDone
<1>3. ASSUME NEW x \in Entries, After(k, Add(x)) = {} PROVE Chain(4, x.chain) \notin DOMAIN k
  <2>1. Refused(k, x)
    BY <1>1, <1>3, NothingDone
  <2>2. ~HasChain(k, 4, x.chain)
    BY <2>1, ItemIs DEF Refused
  <2> QED
    BY <2>2 DEF HasChain, BagIn, BagToSet
<1>4. ASSUME NEW x \in Jumps, After(k, Del(x)) = {} PROVE x \notin DOMAIN k
  <2>1. x \notin DOMAIN k \/ InUse(k, x)
    BY <1>1, <1>4, NothingDone
  <2> QED
    BY <2>1, ItemIs DEF InUse
<1>5. ASSUME After(k, Del(Chain(4, c))) = {}, Chain(4, c) \in DOMAIN k
      PROVE  EntriesIn(k, c) # {} \/ JumpsIn(k, c) # {}
  <2>1. InUse(k, Chain(4, c))
    BY <1>1, <1>5, NothingDone
  <2>2. PICK y \in DOMAIN k : y.kind \in {"entry", "jump"} /\ (y.chain = c \/ (y.kind = "jump" /\ y.at = c))
    BY <2>1, ItemIs DEF InUse, BagToSet
  <2>3. y \in Entries \cup Jumps
    BY <2>2, ItemIs DEF Items
  <2>4. c \notin PreChains \cup {"PREROUTING"}
    BY CarveOutAssumption DEF Targets, BuiltIn, REDIRECT_CHAIN, FORWARD_EXCLUSION_CHAIN
  <2>5. y.chain = c
    BY <2>2, <2>3, <2>4, ItemIs
  <2> QED
    BY <2>2, <2>3, <2>5 DEF EntriesIn, JumpsIn
<1> QED
  BY <1>2, <1>3, <1>4, <1>5

-----------------------------------------------------------------------------
(* The commands. *)
LEMMA ClearAt ==
  ASSUME NEW jump, NEW c
  PROVE  /\ Len(ClearChain(jump, c)) = 3
         /\ ClearChain(jump, c) \in Seq({Del(jump), EmptyChain(c), Del(Chain(4, c))})
         /\ ClearChain(jump, c)[1] = Del(jump) /\ ClearChain(jump, c)[2] = EmptyChain(c)
         /\ ClearChain(jump, c)[3] = Del(Chain(4, c))
BY DEF ClearChain

\* Which command a handler that fills a chain is at.
LEMMA RefillAt ==
  ASSUME NEW jump, NEW c, NEW S, NEW adds \in Seq(S), NEW hook \in Hooks(jump),
         NEW cmds, cmds = Refill(jump, c, adds, hook)
  PROVE  /\ Len(cmds) = Len(adds) + 7
         /\ cmds[1] = Del(jump) /\ cmds[2] = EmptyChain(c) /\ cmds[3] = Del(Chain(4, c))
         /\ cmds[4] = Add(Chain(4, c)) /\ cmds[5] = EmptyChain(c)
         /\ \A i \in 6..(Len(adds) + 5) : cmds[i] = adds[i - 5]
         /\ cmds[Len(adds) + 6] \in {Del(jump), Check(jump)} /\ cmds[Len(adds) + 7] = Add(jump)
<1> DEFINE T == S \cup {Del(jump), EmptyChain(c), Del(Chain(4, c)), Add(Chain(4, c)), Check(jump), Add(jump)}
           a == ClearChain(jump, c)
           b == <<Add(Chain(4, c)), EmptyChain(c)>>
<1>1. a \in Seq(T) /\ Len(a) = 3
  BY DEF ClearChain
<1>2. b \in Seq(T) /\ Len(b) = 2
  OBVIOUS
<1>3. adds \in Seq(T)
  OBVIOUS
<1>4. hook \in Seq(T) /\ Len(hook) = 2 /\ hook[1] \in {Del(jump), Check(jump)} /\ hook[2] = Add(jump)
  <2>1. hook = <<Check(jump), Add(jump)>> \/ hook = <<Del(jump), Add(jump)>>
    BY DEF Hooks, InsertUnlessThere, Check
  <2>2. Check(jump) \in T /\ Add(jump) \in T /\ Del(jump) \in T
    OBVIOUS
  <2> HIDE DEF T
  <2>3. CASE hook = <<Check(jump), Add(jump)>>
    BY <2>2, <2>3
  <2>4. CASE hook = <<Del(jump), Add(jump)>>
    BY <2>2, <2>4
  <2> QED
    BY <2>1, <2>3, <2>4
<1>5. cmds = ((a \o b) \o adds) \o hook
  BY DEF Refill
<1> HIDE DEF T, a, b
<1>6. PICK ab : ab = a \o b
  OBVIOUS
<1>7. /\ ab \in Seq(T) /\ Len(ab) = Len(a) + Len(b)
      /\ \A i \in 1..(Len(a) + Len(b)) : ab[i] = IF i <= Len(a) THEN a[i] ELSE b[i - Len(a)]
  BY <1>1, <1>2, <1>6, ConcatProperties
<1>8. PICK aba : aba = ab \o adds
  OBVIOUS
<1>9. /\ aba \in Seq(T) /\ Len(aba) = Len(ab) + Len(adds)
      /\ \A i \in 1..(Len(ab) + Len(adds)) : aba[i] = IF i <= Len(ab) THEN ab[i] ELSE adds[i - Len(ab)]
  <2>1. /\ ab \o adds \in Seq(T) /\ Len(ab \o adds) = Len(ab) + Len(adds)
        /\ \A i \in 1..(Len(ab) + Len(adds)) :
             (ab \o adds)[i] = IF i <= Len(ab) THEN ab[i] ELSE adds[i - Len(ab)]
    <3>1. ab \in Seq(T) /\ adds \in Seq(T)
      BY <1>3, <1>7
    <3> QED
      BY <3>1, ConcatProperties
  <2> QED
    BY <1>8, <2>1
<1>10. cmds = aba \o hook
  BY <1>5, <1>6, <1>8
<1>11. /\ Len(cmds) = Len(aba) + Len(hook)
       /\ \A i \in 1..(Len(aba) + Len(hook)) :
            cmds[i] = IF i <= Len(aba) THEN aba[i] ELSE hook[i - Len(aba)]
  <2>1. /\ Len(aba \o hook) = Len(aba) + Len(hook)
        /\ \A i \in 1..(Len(aba) + Len(hook)) :
             (aba \o hook)[i] = IF i <= Len(aba) THEN aba[i] ELSE hook[i - Len(aba)]
    <3>1. aba \in Seq(T) /\ hook \in Seq(T)
      BY <1>4, <1>9
    <3> QED
      BY <3>1, ConcatProperties
  <2> QED
    BY <1>10, <2>1
<1>12. Len(adds) \in Nat
  OBVIOUS
<1>13. Len(ab) = 5 /\ Len(aba) = Len(adds) + 5 /\ Len(cmds) = Len(adds) + 7
  BY <1>1, <1>2, <1>4, <1>7, <1>9, <1>11, <1>12
<1>14. \A i \in 1..5 : cmds[i] = ab[i]
  BY <1>9, <1>11, <1>12, <1>13, <1>4
<1>15. /\ \A i \in 1..3 : cmds[i] = a[i]
       /\ cmds[4] = b[1] /\ cmds[5] = b[2]
  BY <1>1, <1>2, <1>7, <1>14
<1>16. \A i \in 6..(Len(adds) + 5) : cmds[i] = adds[i - 5]
  BY <1>4, <1>9, <1>11, <1>12, <1>13
<1>17. cmds[Len(adds) + 6] = hook[1] /\ cmds[Len(adds) + 7] = hook[2]
  BY <1>4, <1>11, <1>12, <1>13
<1>18. b[1] = Add(Chain(4, c)) /\ b[2] = EmptyChain(c)
  BY DEF b
<1>19. a[1] = Del(jump) /\ a[2] = EmptyChain(c) /\ a[3] = Del(Chain(4, c))
  BY ClearAt DEF a
<1> QED
  BY <1>4, <1>13, <1>15, <1>16, <1>17, <1>18, <1>19

\* A carve-out's entries are added one by one, each once, and no others.
AddsOf(adds, c, whole) ==
  /\ adds \in Seq({Skip} \cup {Add(x) : x \in Entries})
  /\ \A i \in 1..Len(adds) : adds[i] = Skip \/ \E x \in Entries : x.chain = c /\ adds[i] = Add(x)
  /\ \A i, j \in 1..Len(adds) : adds[i] = adds[j] => i = j \/ adds[i] = Skip
  /\ \A n \in Nat : n >= Len(adds) => Added(adds, n) = whole

\* An add names what it adds, and passing over is none.
LEMMA AddIsOne ==
  /\ \A x : Add(x) # Skip
  /\ \A x, y : Add(x) = Add(y) => x = y
<1>1. \A x : Add(x).verb = "add" /\ Add(x).what = x
  BY DEF Add
<1>2. Skip.verb = "skip"
  BY DEF Skip
<1> QED
  BY <1>1, <1>2

\* The adds of an exclusion put in exactly what it asks for.
LEMMA ExclusionAdds ==
  ASSUME NEW s \in Exclusions
  PROVE  AddsOf(AddExclusions(s), FORWARD_EXCLUSION_CHAIN, ExclusionEntries(s))
<1> DEFINE d == s.downstream_interfaces
           adds == AddExclusions(s)
<1>1. d \in Seq(STRING) /\ \A i, j \in DOMAIN d : d[i] = d[j] => i = j \/ d[i] = ""
  BY CarveOutAssumption
<1>2. DOMAIN d = 1..Len(d) /\ Len(d) \in Nat
  <2>1. d \in Seq(STRING)
    BY <1>1
  <2> QED
    BY <2>1, LenProperties
<1>3. \A i \in 1..Len(d) : adds[i] = IF d[i] = "" THEN Skip ELSE Add(ExclusionEntry(s, d[i]))
  BY <1>2 DEF AddExclusions, ForNamed
<1>4. adds = [i \in 1..Len(d) |-> adds[i]]
  BY <1>2 DEF AddExclusions
<1> HIDE DEF adds, d
<1>5. \A i \in 1..Len(d) : d[i] # "" => d[i] \in Names(s)
  BY <1>2 DEF Names, d
<1>6. \A n \in Names(s) : n # "" /\ \E i \in 1..Len(d) : d[i] = n
  BY <1>2 DEF Names, d
<1>7. ExclusionEntries(s) \subseteq Entries
  BY DEF Entries
<1>8. \A n : /\ ExclusionEntry(s, n).chain = FORWARD_EXCLUSION_CHAIN
             /\ ExclusionEntry(s, n).match.iface = n
  BY DEF ExclusionEntry, Entry
<1>9. \A n \in Names(s) : ExclusionEntry(s, n) \in ExclusionEntries(s)
  BY DEF ExclusionEntries
<1>10. \A i \in 1..Len(d) : adds[i] \in {Skip} \cup {Add(x) : x \in Entries}
  BY <1>3, <1>5, <1>7, <1>9
<1>11. adds \in Seq({Skip} \cup {Add(x) : x \in Entries}) /\ Len(adds) = Len(d) /\ DOMAIN adds = 1..Len(d)
  BY <1>2, <1>4, <1>10
<1>12. \A i \in 1..Len(adds) :
         adds[i] = Skip \/ \E x \in Entries : x.chain = FORWARD_EXCLUSION_CHAIN /\ adds[i] = Add(x)
  BY <1>3, <1>5, <1>7, <1>8, <1>9, <1>11
<1>13. ASSUME NEW i \in 1..Len(adds), NEW j \in 1..Len(adds), adds[i] = adds[j], adds[i] # Skip
       PROVE  i = j
  <2>1. d[i] # "" /\ d[j] # "" /\ Add(ExclusionEntry(s, d[i])) = Add(ExclusionEntry(s, d[j]))
    BY <1>3, <1>11, <1>13
  <2>2. d[i] = d[j]
    BY <2>1, <1>8, AddIsOne
  <2> QED
    BY <1>1, <1>2, <1>11, <2>1, <2>2
<1>14. ASSUME NEW n \in Nat, n >= Len(adds) PROVE Added(adds, n) = ExclusionEntries(s)
  <2>1. ASSUME NEW x \in Added(adds, n) PROVE x \in ExclusionEntries(s)
    <3>1. PICK i \in 1..Len(d) : adds[i] = Add(x)
      BY <1>11 DEF Added
    <3>2. x = ExclusionEntry(s, d[i]) /\ d[i] # ""
      BY <1>3, <3>1, AddIsOne
    <3> QED
      BY <1>5, <1>9, <3>2
  <2>2. ASSUME NEW x \in ExclusionEntries(s) PROVE x \in Added(adds, n)
    <3>1. PICK m \in Names(s) : x = ExclusionEntry(s, m)
      BY DEF ExclusionEntries
    <3>2. PICK i \in 1..Len(d) : d[i] = m
      BY <1>6
    <3>3. adds[i] = Add(x)
      BY <1>3, <1>6, <3>1, <3>2
    <3>4. i <= n /\ i \in DOMAIN adds
      BY <1>2, <1>11, <1>14
    <3> QED
      BY <1>7, <3>3, <3>4 DEF Added
  <2> QED
    BY <2>1, <2>2
<1> QED
  BY <1>11, <1>12, <1>13, <1>14 DEF AddsOf, adds

\* The adds of a redirect put in exactly what it asks for.
LEMMA RedirectAdds ==
  ASSUME NEW s \in Redirects
  PROVE  AddsOf(AddRedirects(s), REDIRECT_CHAIN, RedirectEntries(s))
<1> DEFINE d == s.downstream_interfaces
           adds == AddRedirects(s)
           name(k) == d[(k + 1) \div 2]
           what(k) == Redirected[2 - (k % 2)]
<1>1. d \in Seq(STRING) /\ \A i, j \in DOMAIN d : d[i] = d[j] => i = j \/ d[i] = ""
  BY CarveOutAssumption
<1>2. DOMAIN d = 1..Len(d) /\ Len(d) \in Nat
  <2>1. d \in Seq(STRING)
    BY <1>1
  <2> QED
    BY <2>1, LenProperties
<1>3. \A k \in 1..(2 * Len(d)) : adds[k] = IF name(k) = "" THEN Skip ELSE Add(RedirectEntry(s, name(k), what(k)))
  BY DEF AddRedirects, ForNamed
<1>4. adds = [k \in 1..(2 * Len(d)) |-> adds[k]]
  BY DEF AddRedirects
<1>5. \A k \in 1..(2 * Len(d)) : (k + 1) \div 2 \in 1..Len(d) /\ what(k) \in {Redirected[1], Redirected[2]}
  BY <1>2
<1>6. \A k, l \in 1..(2 * Len(d)) : (k + 1) \div 2 = (l + 1) \div 2 /\ what(k) = what(l) => k = l
  <2>1. Redirected[1] # Redirected[2]
    BY DEF Redirected
  <2>2. ASSUME NEW k \in 1..(2 * Len(d)), NEW l \in 1..(2 * Len(d)), (k + 1) \div 2 = (l + 1) \div 2, what(k) = what(l)
        PROVE  k = l
    <3>1. k % 2 = l % 2
      BY <2>1, <2>2, <1>2
    <3> QED
      BY <3>1, <2>2, <1>2
  <2> QED
    BY <2>2
<1>7. \A i \in 1..Len(d) : /\ 2 * i \in 1..(2 * Len(d)) /\ name(2 * i) = d[i] /\ what(2 * i) = Redirected[2]
                           /\ 2 * i - 1 \in 1..(2 * Len(d)) /\ name(2 * i - 1) = d[i]
                           /\ what(2 * i - 1) = Redirected[1]
  BY <1>2
<1>8. \A n, w : /\ RedirectEntry(s, n, w).chain = REDIRECT_CHAIN
                /\ RedirectEntry(s, n, w).match.iface = n /\ RedirectEntry(s, n, w).match.what = w
  BY DEF RedirectEntry, Entry
<1>9. \A k \in 1..(2 * Len(d)) : name(k) # "" => name(k) \in Names(s)
  BY <1>2, <1>5 DEF Names
<1>10. \A n \in Names(s) : n # "" /\ \E i \in 1..Len(d) : d[i] = n
  BY <1>2 DEF Names
<1>11. RedirectEntries(s) \subseteq Entries
  BY DEF Entries
<1>12. \A n \in Names(s), w \in {Redirected[1], Redirected[2]} : RedirectEntry(s, n, w) \in RedirectEntries(s)
  BY DEF RedirectEntries
<1>13. \A k \in 1..(2 * Len(d)) : name(k) # "" => RedirectEntry(s, name(k), what(k)) \in RedirectEntries(s)
  BY <1>5, <1>9, <1>12
<1> HIDE DEF adds, name, what
<1>14. \A k \in 1..(2 * Len(d)) : adds[k] \in {Skip} \cup {Add(x) : x \in Entries}
  BY <1>3, <1>11, <1>13
<1>15. adds \in Seq({Skip} \cup {Add(x) : x \in Entries}) /\ Len(adds) = 2 * Len(d) /\ DOMAIN adds = 1..(2 * Len(d))
  <2>1. 2 * Len(d) \in Nat
    BY <1>2
  <2> HIDE DEF d
  <2> QED
    BY <2>1, <1>4, <1>14
<1>16. ASSUME NEW k \in 1..Len(adds), adds[k] # Skip
       PROVE  \E x \in Entries : x.chain = REDIRECT_CHAIN /\ adds[k] = Add(x)
  <2>1. k \in 1..(2 * Len(d))
    BY <1>15
  <2>2. name(k) # "" /\ adds[k] = Add(RedirectEntry(s, name(k), what(k)))
    BY <1>3, <1>16, <2>1
  <2>3. RedirectEntry(s, name(k), what(k)) \in Entries
    BY <1>11, <1>13, <2>1, <2>2
  <2> QED
    BY <1>8, <2>2, <2>3
<1>17. ASSUME NEW k \in 1..Len(adds), NEW l \in 1..Len(adds), adds[k] = adds[l], adds[k] # Skip
       PROVE  k = l
  <2>1. /\ name(k) # "" /\ name(l) # ""
        /\ Add(RedirectEntry(s, name(k), what(k))) = Add(RedirectEntry(s, name(l), what(l)))
    BY <1>3, <1>15, <1>17
  <2>2. name(k) = name(l) /\ what(k) = what(l)
    <3>1. RedirectEntry(s, name(k), what(k)) = RedirectEntry(s, name(l), what(l))
      BY <2>1, AddIsOne
    <3> QED
      BY <3>1, <1>8
  <2>3. (k + 1) \div 2 = (l + 1) \div 2
    BY <1>1, <1>2, <1>5, <1>15, <2>1, <2>2 DEF name
  <2> QED
    BY <1>6, <1>15, <2>2, <2>3
<1>18. ASSUME NEW n \in Nat, n >= Len(adds) PROVE Added(adds, n) = RedirectEntries(s)
  <2>1. ASSUME NEW x \in Added(adds, n) PROVE x \in RedirectEntries(s)
    <3>1. PICK k \in 1..(2 * Len(d)) : adds[k] = Add(x)
      BY <1>15 DEF Added
    <3>2. x = RedirectEntry(s, name(k), what(k)) /\ name(k) # ""
      BY <1>3, <3>1, AddIsOne
    <3> QED
      BY <1>13, <3>2
  <2>2. ASSUME NEW x \in RedirectEntries(s) PROVE x \in Added(adds, n)
    <3>1. PICK m \in Names(s), w \in {Redirected[1], Redirected[2]} : x = RedirectEntry(s, m, w)
      BY DEF RedirectEntries
    <3>2. PICK i \in 1..Len(d) : d[i] = m
      BY <1>10
    <3>3. PICK k \in 1..(2 * Len(d)) : name(k) = m /\ what(k) = w
      BY <1>7, <3>2
    <3>4. adds[k] = Add(x)
      BY <1>3, <1>10, <3>1, <3>3
    <3>5. k <= n /\ k \in DOMAIN adds
      BY <1>2, <1>15, <1>18
    <3> QED
      BY <1>11, <3>4, <3>5 DEF Added
  <2> QED
    BY <2>1, <2>2
<1> QED
  BY <1>15, <1>16, <1>17, <1>18 DEF AddsOf, adds

\* Either way, the adds are those of some request.
LEMMA AddsAre ==
  ASSUME NEW c \in Targets, NEW adds \in AddsTo(c)
  PROVE  \E whole \in Wholes(c) : AddsOf(adds, c, whole)
BY RedirectAdds, ExclusionAdds DEF AddsTo, Wholes, Targets, Asked

\* One more add puts in one more entry, or is passed over.
LEMMA AddedSteps ==
  ASSUME NEW adds, NEW c, NEW whole, AddsOf(adds, c, whole)
  PROVE  /\ Len(adds) \in Nat /\ Added(adds, 0) = {}
         /\ \A i \in 1..Len(adds) :
              /\ adds[i] = Skip => Added(adds, i) = Added(adds, i - 1)
              /\ \A x \in Entries : adds[i] = Add(x) =>
                   Added(adds, i) = Added(adds, i - 1) \cup {x} /\ x \notin Added(adds, i - 1)
<1>1. Len(adds) \in Nat /\ DOMAIN adds = 1..Len(adds)
  <2>1. adds \in Seq({Skip} \cup {Add(x) : x \in Entries})
    BY DEF AddsOf
  <2> QED
    BY <2>1, LenProperties
<1>2. Added(adds, 0) = {}
  BY <1>1 DEF Added
<1>3. ASSUME NEW i \in 1..Len(adds), adds[i] = Skip PROVE Added(adds, i) = Added(adds, i - 1)
  <2>1. \A n \in DOMAIN adds : n <= i /\ n # i <=> n <= i - 1
    BY <1>1
  <2> QED
    BY <1>1, <1>3, <2>1, AddIsOne DEF Added
<1>4. ASSUME NEW i \in 1..Len(adds), NEW x \in Entries, adds[i] = Add(x)
      PROVE  Added(adds, i) = Added(adds, i - 1) \cup {x} /\ x \notin Added(adds, i - 1)
  <2>1. \A n \in DOMAIN adds : n <= i /\ n # i <=> n <= i - 1
    BY <1>1
  <2>2. \A n \in DOMAIN adds : adds[n] = Add(x) => n = i
    BY <1>1, <1>4, AddIsOne DEF AddsOf
  <2>3. i \in DOMAIN adds /\ i <= i
    BY <1>1
  <2>4. Added(adds, i) = Added(adds, i - 1) \cup {x}
    <3>1. ASSUME NEW y \in Added(adds, i) PROVE y \in Added(adds, i - 1) \cup {x}
      BY <1>1, <1>4, <2>1, AddIsOne DEF Added
    <3>2. Added(adds, i - 1) \subseteq Added(adds, i)
      BY <2>1 DEF Added
    <3>3. x \in Added(adds, i)
      BY <1>4, <2>3 DEF Added
    <3> QED
      BY <3>1, <3>2, <3>3
  <2>5. x \notin Added(adds, i - 1)
    BY <2>1, <2>2 DEF Added
  <2> QED
    BY <2>4, <2>5
<1> QED
  BY <1>1, <1>2, <1>3, <1>4
-----------------------------------------------------------------------------
(* The steps. *)

Done(cmd)     == kernel' \in After(kernel, cmd) /\ ran' = ran + 1 /\ UNCHANGED <<timeouts, history>>
NotDone(cmd)  == /\ After(kernel, cmd) = {} /\ ran' = ran + (IF Found(cmd) THEN 2 ELSE 1)
                 /\ UNCHANGED <<kernel, timeouts, history>>
TimedOut(cmd) == /\ timeouts' = timeouts + 1 /\ ran' = ran + 1 /\ flawless' = FALSE
                 /\ doubles' = IF timeouts = 1 THEN doubles + 1 ELSE doubles
                 /\ UNCHANGED <<kernel, astray>>

\* A command is done, has nothing to do, or times out.
LEMMA ExecIs ==
  ASSUME Exec, NEW cmd, cmd = commands[ran + 1]
  PROVE  /\ ran < Len(commands) /\ UNCHANGED <<session, running, arg, commands, cleared, astray>>
         /\ Done(cmd) \/ NotDone(cmd) \/ TimedOut(cmd)
BY DEF Exec, Done, NotDone, TimedOut, history

\* One command of filling a chain, wherever in the list it is.
LEMMA FillStep ==
  ASSUME Types, Few(kernel, doubles), Exec,
         NEW c \in Targets, NEW jump \in JumpsInto(c), NEW adds, NEW whole, AddsOf(adds, c, whole),
         NEW hook \in Hooks(jump), commands = Refill(jump, c, adds, hook), Building(c, jump, adds)
  PROVE  /\ Building(c, jump, adds)' /\ Few(kernel', doubles')
         /\ JumpsIn(kernel', c) \subseteq JumpsIn(kernel, c) \cup {jump}
         /\ \A d : d # c =>
              EntriesIn(kernel', d) = EntriesIn(kernel, d) /\ JumpsIn(kernel', d) = JumpsIn(kernel, d)
<1> DEFINE n == Len(adds)
           cmd == commands[ran + 1]
           K(k, u) ==
             /\ Few(k, u) /\ JumpsIn(k, c) \subseteq JumpsIn(kernel, c) \cup {jump}
             /\ \A d : d # c => EntriesIn(k, d) = EntriesIn(kernel, d) /\ JumpsIn(k, d) = JumpsIn(kernel, d)
           B(k, r, t, f, u) ==
             /\ r \in 1..(n + 5) /\ t # 1 => Copies(k, jump) <= u
             /\ r = n + 6 => Copies(k, jump) <= u
             /\ r \in 2..4 /\ t # 1 => \A x \in EntriesIn(k, c) : Copies(k, x) <= u
             /\ r >= 5 => \A x \in EntriesIn(k, c) \ Added(adds, r - 5) : Copies(k, x) <= u
             /\ f /\ r >= 4 => Chain(4, c) \in DOMAIN k
             /\ f /\ r >= 5 => Added(adds, r - 5) \subseteq EntriesIn(k, c)
           Goal == K(kernel', doubles') /\ B(kernel', ran', timeouts', flawless', doubles')
<1>1. adds \in Seq({Skip} \cup {Add(x) : x \in Entries})
  BY DEF AddsOf
<1>2. /\ Len(commands) = n + 7
      /\ commands[1] = Del(jump) /\ commands[2] = EmptyChain(c) /\ commands[3] = Del(Chain(4, c))
      /\ commands[4] = Add(Chain(4, c)) /\ commands[5] = EmptyChain(c)
      /\ \A i \in 6..(n + 5) : commands[i] = adds[i - 5]
      /\ commands[n + 6] \in {Del(jump), Check(jump)} /\ commands[n + 7] = Add(jump)
  BY <1>1, RefillAt
<1>3. /\ n \in Nat /\ ran \in 0..(n + 6) /\ timeouts \in 0..ran /\ doubles \in Nat
      /\ flawless => timeouts = 0 /\ doubles = 0
  BY <1>2, AddedSteps, ExecIs DEF Types
<1>4. Few(kernel, doubles) /\ DOMAIN kernel \subseteq Items
  BY DEF Types
<1>5. K(kernel, doubles) /\ B(kernel, ran, timeouts, flawless, doubles)
  BY <1>4 DEF Building
<1>6. jump \in Jumps /\ jump.chain = c /\ jump \notin Entries
      /\ jump \in Items \ Entries /\ Chain(4, c) \in Items \ Entries /\ Entries \subseteq Items
      /\ \A d : Chain(4, d) \notin Entries \cup Jumps
  BY ItemIs, Kinds DEF Items
<1>7. Added(adds, 0) = {} /\ \A i \in Nat : i >= n => Added(adds, i) = whole
  <2>1. Added(adds, 0) = {}
    BY AddedSteps
  <2>2. \A i \in Nat : i >= Len(adds) => Added(adds, i) = whole
    BY DEF AddsOf
  <2> QED
    BY <2>1, <2>2
<1>8. SUFFICES Goal
  BY DEF Building
<1>9. ASSUME Done(cmd)
      PROVE  ran' = ran + 1 /\ timeouts' = timeouts /\ flawless' = flawless /\ doubles' = doubles
  BY <1>9 DEF Done, history
<1>10. ASSUME NotDone(cmd), cmd.verb # "check"
       PROVE  /\ kernel' = kernel /\ ran' = ran + 1
              /\ timeouts' = timeouts /\ flawless' = flawless /\ doubles' = doubles
  BY <1>10 DEF NotDone, Found, history
<1>11. \A x : Copies(kernel, x) \in 0..(doubles + 1)
  BY <1>3, <1>4, FewIs
<1>12. ASSUME TimedOut(cmd)
       PROVE  /\ kernel' = kernel /\ ran' = ran + 1 /\ timeouts' = timeouts + 1 /\ flawless' = FALSE
              /\ doubles' \in Nat /\ doubles' >= doubles
              /\ timeouts = 1 => \A x : Copies(kernel, x) <= doubles'
              /\ K(kernel', doubles')
  <2>1. /\ kernel' = kernel /\ ran' = ran + 1 /\ timeouts' = timeouts + 1 /\ flawless' = FALSE
        /\ doubles' = IF timeouts = 1 THEN doubles + 1 ELSE doubles
    BY <1>12 DEF TimedOut
  <2>2. doubles' \in Nat /\ doubles' >= doubles
    BY <1>3, <2>1
  <2>3. timeouts = 1 => \A x : Copies(kernel, x) <= doubles'
    BY <1>3, <1>11, <2>1
  <2>4. Few(kernel, doubles')
    BY <1>3, <1>4, <2>2 DEF Few
  <2> QED
    BY <1>5, <2>1, <2>2, <2>3, <2>4
<1>13. Done(cmd) \/ NotDone(cmd) \/ TimedOut(cmd)
  BY ExecIs
<1>14. /\ \A x : Add(x).verb # "check" /\ Del(x).verb # "check" /\ EmptyChain(x).verb # "check"
       /\ Skip.verb # "check"
  BY DEF Add, Del, EmptyChain, Flush, Skip
<1> HIDE DEF n, cmd
\* A timeout keeps what is counted, wherever the handler is.
<1>15. ASSUME TimedOut(cmd), ran < 5 PROVE Goal
  <2>1. /\ kernel' = kernel /\ ran' = ran + 1 /\ timeouts' = timeouts + 1 /\ flawless' = FALSE
        /\ doubles' \in Nat /\ doubles' >= doubles
        /\ timeouts = 1 => \A x : Copies(kernel, x) <= doubles'
        /\ K(kernel', doubles')
    BY <1>12, <1>15
  <2>2. ASSUME timeouts' # 1, ran >= 1 PROVE Copies(kernel, jump) <= doubles'
    <3>1. CASE timeouts = 1
      BY <2>1, <3>1
    <3>2. CASE timeouts # 1
      BY <1>3, <1>5, <1>11, <1>15, <2>1, <2>2, <3>2
    <3> QED
      BY <3>1, <3>2
  <2>3. ASSUME timeouts' # 1, ran \in 1..4, NEW x \in EntriesIn(kernel, c) PROVE Copies(kernel, x) <= doubles'
    <3>1. CASE timeouts = 1
      BY <2>1, <3>1
    <3>2. CASE timeouts # 1
      <4>1. timeouts >= 2 /\ ran >= 2
        BY <1>3, <2>1, <2>3, <3>2
      <4>2. Copies(kernel, x) <= doubles
        BY <1>5, <2>3, <3>2, <4>1
      <4> QED
        BY <1>3, <1>11, <2>1, <4>2
    <3> QED
      BY <3>1, <3>2
  <2>4. ASSUME ran = 4, NEW x \in EntriesIn(kernel, c) PROVE Copies(kernel, x) <= doubles'
    <3>1. CASE timeouts = 1
      BY <2>1, <3>1
    <3>2. CASE timeouts # 1
      BY <1>3, <1>5, <1>11, <2>1, <2>4, <3>2
    <3> QED
      BY <3>1, <3>2
  <2>5. ran = 0 => timeouts' = 1
    BY <1>3, <2>1
  <2>6. ran' <= 5 /\ ran' >= 1
    BY <1>3, <1>15, <2>1
  <2>7. ran' = n + 6 => FALSE
    BY <1>3, <2>6
  <2>8. ran' \in 1..(n + 5) /\ timeouts' # 1 => Copies(kernel', jump) <= doubles'
    BY <1>3, <2>1, <2>2, <2>5
  <2>9. ran' \in 2..4 /\ timeouts' # 1 => \A x \in EntriesIn(kernel', c) : Copies(kernel', x) <= doubles'
    BY <1>3, <2>1, <2>3
  <2>10. ran' >= 5 => \A x \in EntriesIn(kernel', c) \ Added(adds, ran' - 5) : Copies(kernel', x) <= doubles'
    BY <1>3, <1>15, <2>1, <2>4
  <2> QED
    BY <2>1, <2>7, <2>8, <2>9, <2>10
<1>16. CASE ran = 0
  <2>1. cmd = Del(jump) /\ cmd.verb # "check"
    BY <1>2, <1>14, <1>16 DEF cmd
  <2>2. ASSUME Done(cmd) PROVE Goal
    <3>1. K(kernel', doubles) /\ Copies(kernel', jump) <= doubles
      <4>1. kernel' \in After(kernel, Del(jump))
        BY <2>1, <2>2 DEF Done
      <4>2. Few(kernel', doubles) /\ Same(kernel, kernel', {jump}) /\ Copies(kernel', jump) <= doubles
        BY <1>3, <1>4, <1>6, <4>1, DelIs
      <4> QED
        BY <1>6, <4>2, SameIs
    <3> QED
      BY <1>3, <1>9, <1>16, <2>2, <3>1
  <2>3. ASSUME NotDone(cmd) PROVE Goal
    <3>1. jump \notin DOMAIN kernel
      BY <1>4, <1>6, <2>1, <2>3, RefusedMeans DEF NotDone
    <3>2. Copies(kernel, jump) <= doubles
      BY <1>3, <3>1 DEF Copies
    <3> QED
      BY <1>3, <1>5, <1>10, <1>16, <2>1, <2>3, <3>2
  <2> QED
    BY <1>13, <1>15, <1>16, <2>2, <2>3
<1>17. CASE ran = 1
  <2>1. cmd = EmptyChain(c) /\ cmd.verb # "check"
    BY <1>2, <1>14, <1>17 DEF cmd
  <2>2. ASSUME Done(cmd) PROVE Goal
    <3>1. K(kernel', doubles) /\ EntriesIn(kernel', c) = {} /\ Copies(kernel', jump) = Copies(kernel, jump)
      <4>1. kernel' \in After(kernel, EmptyChain(c))
        BY <2>1, <2>2 DEF Done
      <4>2. /\ Few(kernel', doubles) /\ Same(kernel, kernel', {x \in Entries : x.chain = c})
            /\ EntriesIn(kernel', c) = {}
        BY <1>3, <1>4, <4>1, FlushIs
      <4>3. /\ \A d : d # c => EntriesIn(kernel', d) = EntriesIn(kernel, d)
            /\ \A d : JumpsIn(kernel', d) = JumpsIn(kernel, d)
            /\ \A d : Chain(4, d) \in DOMAIN kernel' <=> Chain(4, d) \in DOMAIN kernel
            /\ \A x \in Jumps : Copies(kernel', x) = Copies(kernel, x)
        BY <4>2, SameButEntries
      <4> QED
        BY <1>6, <4>2, <4>3
    <3> QED
      BY <1>3, <1>5, <1>9, <1>17, <2>2, <3>1
  <2>3. ~NotDone(cmd)
    BY <1>4, <2>1, NothingDone DEF NotDone
  <2> QED
    BY <1>13, <1>15, <1>17, <2>2, <2>3
<1>18. CASE ran = 2
  <2>1. cmd = Del(Chain(4, c)) /\ cmd.verb # "check"
    BY <1>2, <1>14, <1>18 DEF cmd
  <2>2. ASSUME Done(cmd) PROVE Goal
    <3>1. /\ K(kernel', doubles) /\ EntriesIn(kernel', c) = EntriesIn(kernel, c)
          /\ \A x \in Entries \cup Jumps : Copies(kernel', x) = Copies(kernel, x)
      <4>1. kernel' \in After(kernel, Del(Chain(4, c)))
        BY <2>1, <2>2 DEF Done
      <4>2. Few(kernel', doubles) /\ Same(kernel, kernel', {Chain(4, c)})
        BY <1>3, <1>4, <1>6, <4>1, DelIs
      <4>3. \A x \in Entries \cup Jumps : Copies(kernel', x) = Copies(kernel, x)
        BY <1>6, <4>2 DEF Same
      <4>6. \A d : EntriesIn(kernel', d) = EntriesIn(kernel, d) /\ JumpsIn(kernel', d) = JumpsIn(kernel, d)
        <5>1. PICK x : x = Chain(4, c)
          OBVIOUS
        <5>2. x \notin Entries /\ x \notin Jumps /\ Same(kernel, kernel', {x})
          BY <1>6, <4>2, <5>1
        <5> QED
          BY <5>2 DEF Same, EntriesIn, JumpsIn
      <4> QED
        BY <4>2, <4>3, <4>6
    <3>2. EntriesIn(kernel, c) \subseteq Entries
      BY DEF EntriesIn
    <3> QED
      BY <1>3, <1>5, <1>6, <1>9, <1>18, <2>2, <3>1, <3>2
  <2>3. ASSUME NotDone(cmd) PROVE Goal
    BY <1>3, <1>5, <1>10, <1>18, <2>1, <2>3
  <2> QED
    BY <1>13, <1>15, <1>18, <2>2, <2>3
<1>19. CASE ran = 3
  <2>1. cmd = Add(Chain(4, c)) /\ cmd.verb # "check"
    BY <1>2, <1>14, <1>19 DEF cmd
  <2>2. ASSUME Done(cmd) PROVE Goal
    <3>1. /\ K(kernel', doubles) /\ EntriesIn(kernel', c) = EntriesIn(kernel, c)
          /\ Chain(4, c) \in DOMAIN kernel'
          /\ \A x \in Entries \cup Jumps : Copies(kernel', x) = Copies(kernel, x)
      <4>1. kernel' \in After(kernel, Add(Chain(4, c)))
        BY <2>1, <2>2 DEF Done
      <4>2. ~Refused(kernel, Chain(4, c)) /\ Chain(4, c) \in DOMAIN kernel' /\ Same(kernel, kernel', {Chain(4, c)})
            /\ (Copies(kernel, Chain(4, c)) <= doubles => Few(kernel', doubles))
        BY <1>3, <1>4, <1>6, <4>1, AddIs
      <4>3. Chain(4, c) \notin DOMAIN kernel
        BY <4>2, ItemIs DEF Refused, BagIn, BagToSet
      <4>4. Few(kernel', doubles)
        BY <1>3, <4>2, <4>3 DEF Copies
      <4>5. \A x \in Entries \cup Jumps : Copies(kernel', x) = Copies(kernel, x)
        BY <1>6, <4>2 DEF Same
      <4>6. \A d : EntriesIn(kernel', d) = EntriesIn(kernel, d) /\ JumpsIn(kernel', d) = JumpsIn(kernel, d)
        <5>1. PICK x : x = Chain(4, c)
          OBVIOUS
        <5>2. x \notin Entries /\ x \notin Jumps /\ Same(kernel, kernel', {x})
          BY <1>6, <4>2, <5>1
        <5> QED
          BY <5>2 DEF Same, EntriesIn, JumpsIn
      <4> QED
        BY <4>2, <4>4, <4>5, <4>6
    <3>2. EntriesIn(kernel, c) \subseteq Entries
      BY DEF EntriesIn
    <3> QED
      BY <1>3, <1>5, <1>6, <1>9, <1>19, <2>2, <3>1, <3>2
  <2>3. ASSUME NotDone(cmd) PROVE Goal
    <3>1. Chain(4, c) \in DOMAIN kernel
      BY <1>4, <2>1, <2>3, RefusedMeans DEF NotDone
    <3> QED
      BY <1>3, <1>5, <1>10, <1>19, <2>1, <2>3, <3>1
  <2> QED
    BY <1>13, <1>15, <1>19, <2>2, <2>3
<1>20. CASE ran = 4
  <2>1. cmd = EmptyChain(c) /\ cmd.verb # "check"
    BY <1>2, <1>14, <1>20 DEF cmd
  <2>2. ASSUME Done(cmd) PROVE Goal
    <3>1. /\ K(kernel', doubles) /\ EntriesIn(kernel', c) = {} /\ Copies(kernel', jump) = Copies(kernel, jump)
          /\ (Chain(4, c) \in DOMAIN kernel => Chain(4, c) \in DOMAIN kernel')
      <4>1. kernel' \in After(kernel, EmptyChain(c))
        BY <2>1, <2>2 DEF Done
      <4>2. /\ Few(kernel', doubles) /\ Same(kernel, kernel', {x \in Entries : x.chain = c})
            /\ EntriesIn(kernel', c) = {}
        BY <1>3, <1>4, <4>1, FlushIs
      <4>3. /\ \A d : d # c => EntriesIn(kernel', d) = EntriesIn(kernel, d)
            /\ \A d : JumpsIn(kernel', d) = JumpsIn(kernel, d)
            /\ \A d : Chain(4, d) \in DOMAIN kernel' <=> Chain(4, d) \in DOMAIN kernel
            /\ \A x \in Jumps : Copies(kernel', x) = Copies(kernel, x)
        BY <4>2, SameButEntries
      <4> QED
        BY <1>6, <4>2, <4>3
    <3> QED
      BY <1>3, <1>5, <1>7, <1>9, <1>20, <2>2, <3>1
  <2>3. ~NotDone(cmd)
    BY <1>4, <2>1, NothingDone DEF NotDone
  <2> QED
    BY <1>13, <1>15, <1>20, <2>2, <2>3
<1>21. CASE ran \in 5..(n + 4)
  <2>1. ran - 4 \in 1..n /\ ran + 1 \in 6..(n + 5) /\ cmd = adds[ran - 4] /\ ran - 4 - 1 = ran - 5
    <3>1. PICK i : i = ran + 1
      OBVIOUS
    <3>2. i \in 6..(n + 5) /\ cmd = commands[i] /\ i - 5 = ran - 4
      BY <1>3, <1>21, <3>1 DEF cmd
    <3>3. cmd = adds[i - 5]
      BY <1>2, <3>2
    <3> QED
      BY <1>3, <1>21, <3>1, <3>2, <3>3
  <2>2. /\ cmd = Skip => Added(adds, ran - 4) = Added(adds, ran - 5)
        /\ \A x \in Entries : cmd = Add(x) =>
             Added(adds, ran - 4) = Added(adds, ran - 5) \cup {x} /\ x \notin Added(adds, ran - 5)
    <3>1. /\ adds[ran - 4] = Skip => Added(adds, ran - 4) = Added(adds, ran - 4 - 1)
          /\ \A x \in Entries : adds[ran - 4] = Add(x) =>
               Added(adds, ran - 4) = Added(adds, ran - 4 - 1) \cup {x} /\ x \notin Added(adds, ran - 4 - 1)
      BY <2>1, AddedSteps DEF n
    <3> QED
      BY <2>1, <3>1
  <2>3. cmd = Skip \/ \E x \in Entries : x.chain = c /\ cmd = Add(x)
    BY <2>1 DEF AddsOf, n
  <2>4. cmd.verb # "check" /\ ran + 1 - 5 = ran - 4
    BY <1>3, <1>14, <2>3
  <2>5. ASSUME cmd = Skip, Done(cmd) PROVE Goal
    BY <1>4, <2>5, NothingDone DEF Done
  <2>6. \A x \in EntriesIn(kernel, c) \ Added(adds, ran - 5) : Copies(kernel, x) <= doubles
    BY <1>5, <1>21
  <2>7. ASSUME NEW x \in Entries, x.chain = c, cmd = Add(x), Done(cmd) PROVE Goal
    <3>1. /\ K(kernel', doubles) /\ EntriesIn(kernel', c) = EntriesIn(kernel, c) \cup {x}
          /\ \A y : y # x => Copies(kernel', y) = Copies(kernel, y)
          /\ (Chain(4, c) \in DOMAIN kernel => Chain(4, c) \in DOMAIN kernel')
      <4>1. kernel' \in After(kernel, Add(x))
        BY <2>7 DEF Done
      <4>2. Copies(kernel, x) <= doubles
        <5>1. CASE x \in DOMAIN kernel
          <6>1. x \in EntriesIn(kernel, c) \ Added(adds, ran - 5)
            BY <2>2, <2>7, <5>1 DEF EntriesIn
          <6> QED
            BY <2>6, <6>1
        <5>2. CASE x \notin DOMAIN kernel
          BY <1>3, <5>2 DEF Copies
        <5> QED
          BY <5>1, <5>2
      <4>3. x \in DOMAIN kernel' /\ Same(kernel, kernel', {x}) /\ Few(kernel', doubles)
        BY <1>3, <1>4, <1>6, <4>1, <4>2, AddIs
      <4>4. x \notin Jumps /\ Chain(4, c) # x
        BY Kinds
      <4>5. EntriesIn(kernel', c) = EntriesIn(kernel, c) \cup {x}
        BY <2>7, <4>3 DEF Same, EntriesIn
      <4>6. \A y : y # x => Copies(kernel', y) = Copies(kernel, y) /\ (y \in DOMAIN kernel' <=> y \in DOMAIN kernel)
        BY <4>3 DEF Same
      <4> QED
        BY <2>7, <4>3, <4>4, <4>5, <4>6, SameIs
    <3>2. Added(adds, ran - 4) = Added(adds, ran - 5) \cup {x}
      BY <2>2, <2>7
    <3>3. ran' = ran + 1 /\ timeouts' = timeouts /\ flawless' = flawless /\ doubles' = doubles
      BY <1>9, <2>7
    <3>4. ran' - 5 = ran - 4 /\ ran' >= 6 /\ ran' <= n + 5 /\ ran >= 5 /\ ran <= n + 4
      BY <1>3, <1>21, <3>3
    <3>5. \A y \in EntriesIn(kernel', c) \ Added(adds, ran' - 5) : Copies(kernel', y) <= doubles'
      BY <2>6, <3>1, <3>2, <3>3, <3>4
    <3>6. flawless' => Added(adds, ran' - 5) \subseteq EntriesIn(kernel', c) /\ Chain(4, c) \in DOMAIN kernel'
      <4>1. flawless => Added(adds, ran - 5) \subseteq EntriesIn(kernel, c) /\ Chain(4, c) \in DOMAIN kernel
        BY <1>3, <1>5, <3>4
      <4> QED
        BY <3>1, <3>2, <3>3, <3>4, <4>1
    <3>7. timeouts' # 1 => Copies(kernel', jump) <= doubles'
      <4>1. timeouts # 1 => Copies(kernel, jump) <= doubles
        BY <1>3, <1>5, <3>4
      <4>2. jump # x
        BY <1>6
      <4> QED
        BY <3>1, <3>3, <4>1, <4>2
    <3>8. ran' # n + 6 /\ ran' \notin 2..4
      BY <1>3, <3>3, <3>4
    <3> QED
      BY <3>1, <3>3, <3>5, <3>6, <3>7, <3>8
  <2>8. \A x \in EntriesIn(kernel, c) \ Added(adds, ran - 4) : Copies(kernel, x) <= doubles
    BY <2>2, <2>3, <2>6
  <2>9. ASSUME NotDone(cmd) PROVE Goal
    <3>1. /\ kernel' = kernel /\ ran' = ran + 1 /\ timeouts' = timeouts /\ flawless' = flawless
          /\ doubles' = doubles /\ ran' - 5 = ran - 4
      BY <1>3, <1>10, <2>4, <2>9
    <3>2. cmd = Skip \/ ~flawless
      <4>1. ASSUME NEW x \in Entries, x.chain = c, cmd = Add(x) PROVE ~flawless
        <5>1. Chain(4, c) \notin DOMAIN kernel
          BY <1>4, <2>9, <4>1, RefusedMeans DEF NotDone
        <5> QED
          BY <1>5, <1>21, <5>1
      <4> QED
        BY <2>3, <4>1
    <3> QED
      BY <1>3, <1>5, <1>21, <2>2, <2>8, <3>1, <3>2
  <2>10. ASSUME TimedOut(cmd) PROVE Goal
    <3>1. /\ kernel' = kernel /\ ran' = ran + 1 /\ timeouts' = timeouts + 1 /\ flawless' = FALSE
          /\ doubles' \in Nat /\ doubles' >= doubles
          /\ timeouts = 1 => \A x : Copies(kernel, x) <= doubles'
          /\ K(kernel', doubles')
      BY <1>12, <2>10
    <3>2. ran' - 5 = ran - 4 /\ ran' >= 6 /\ ran' <= n + 5 /\ ran' # n + 6 /\ ran' \notin 2..4
      BY <1>3, <1>21, <3>1
    <3>3. \A x \in EntriesIn(kernel', c) \ Added(adds, ran' - 5) : Copies(kernel', x) <= doubles'
      BY <1>3, <1>11, <2>8, <3>1, <3>2
    <3>4. timeouts' # 1 => Copies(kernel', jump) <= doubles'
      <4>1. timeouts # 1 => Copies(kernel, jump) <= doubles
        BY <1>3, <1>5, <1>21
      <4> QED
        BY <1>3, <1>11, <3>1, <4>1
    <3> QED
      BY <3>1, <3>2, <3>3, <3>4
  <2> QED
    BY <1>13, <2>3, <2>5, <2>7, <2>9, <2>10
<1>22. CASE ran = n + 5
  <2>1. cmd \in {Del(jump), Check(jump)}
    BY <1>2, <1>3, <1>22 DEF cmd
  <2>2. /\ Added(adds, ran - 5) = whole /\ Added(adds, ran + 1 - 5) = whole /\ Added(adds, ran + 2 - 5) = whole
        /\ ran >= 5
    BY <1>3, <1>7, <1>22
  <2>3. ASSUME Done(cmd) PROVE Goal
    <3>1. /\ K(kernel', doubles) /\ Copies(kernel', jump) <= doubles /\ EntriesIn(kernel', c) = EntriesIn(kernel, c)
          /\ (Chain(4, c) \in DOMAIN kernel => Chain(4, c) \in DOMAIN kernel')
          /\ \A x \in Entries : Copies(kernel', x) = Copies(kernel, x)
      <4>1. cmd = Del(jump)
        BY <1>4, <2>1, <2>3, NothingDone DEF Done
      <4>2. kernel' \in After(kernel, Del(jump))
        BY <2>3, <4>1 DEF Done
      <4>3. Few(kernel', doubles) /\ Same(kernel, kernel', {jump}) /\ Copies(kernel', jump) <= doubles
        BY <1>3, <1>4, <1>6, <4>2, DelIs
      <4>4. /\ \A x \in Entries : Copies(kernel', x) = Copies(kernel, x)
            /\ Chain(4, c) \in DOMAIN kernel => Chain(4, c) \in DOMAIN kernel'
        BY <1>6, <4>3 DEF Same
      <4> QED
        BY <1>6, <4>3, <4>4, SameIs
    <3>2. ran' = ran + 1 /\ timeouts' = timeouts /\ flawless' = flawless /\ doubles' = doubles
      BY <1>9, <2>3
    <3>3. EntriesIn(kernel, c) \subseteq Entries
      BY DEF EntriesIn
    <3> QED
      BY <1>3, <1>5, <1>22, <2>2, <3>1, <3>2, <3>3
  <2>4. ASSUME NotDone(cmd) PROVE Goal
    <3>1. kernel' = kernel /\ timeouts' = timeouts /\ flawless' = flawless /\ doubles' = doubles
      BY <2>4 DEF NotDone, history
    <3>2. (ran' = ran + 1 /\ jump \notin DOMAIN kernel) \/ ran' = ran + 2
      <4>1. CASE cmd = Del(jump)
        <5>1. jump \notin DOMAIN kernel
          BY <1>4, <1>6, <2>4, <4>1, RefusedMeans DEF NotDone
        <5> QED
          BY <1>10, <1>14, <2>4, <4>1, <5>1
      <4>2. CASE cmd = Check(jump)
        <5>1. Found(cmd) <=> jump \in DOMAIN kernel
          BY <4>2 DEF Found, Check, BagIn, BagToSet
        <5> QED
          BY <2>4, <5>1 DEF NotDone
      <4> QED
        BY <2>1, <4>1, <4>2
    <3>3. jump \notin DOMAIN kernel => Copies(kernel, jump) <= doubles
      BY <1>3 DEF Copies
    <3> QED
      BY <1>3, <1>5, <1>22, <2>2, <3>1, <3>2, <3>3
  <2>5. ASSUME TimedOut(cmd) PROVE Goal
    <3>1. /\ kernel' = kernel /\ ran' = ran + 1 /\ timeouts' = timeouts + 1 /\ flawless' = FALSE
          /\ doubles' \in Nat /\ doubles' >= doubles
          /\ timeouts = 1 => \A x : Copies(kernel, x) <= doubles'
          /\ K(kernel', doubles')
      BY <1>12, <2>5
    <3>2. Copies(kernel, jump) <= doubles'
      <4>1. CASE timeouts = 1
        BY <3>1, <4>1
      <4>2. CASE timeouts # 1
        <5>1. Copies(kernel, jump) <= doubles
          BY <1>3, <1>5, <1>22, <4>2
        <5> QED
          BY <1>3, <1>11, <3>1, <5>1
      <4> QED
        BY <4>1, <4>2
    <3>3. \A x \in EntriesIn(kernel, c) \ whole : Copies(kernel, x) <= doubles'
      BY <1>3, <1>5, <1>11, <1>22, <2>2, <3>1
    <3>4. ran' = n + 6 /\ Added(adds, ran' - 5) = whole
      BY <1>3, <1>22, <2>2, <3>1
    <3> QED
      BY <1>3, <3>1, <3>2, <3>3, <3>4
  <2> QED
    BY <1>13, <2>3, <2>4, <2>5
<1>23. CASE ran = n + 6
  <2>1. cmd = Add(jump) /\ cmd.verb # "check"
    BY <1>2, <1>3, <1>14, <1>23 DEF cmd
  <2>2. Added(adds, ran - 5) = whole /\ Added(adds, ran + 1 - 5) = whole /\ ran >= 5
    BY <1>3, <1>7, <1>23
  <2>3. ASSUME Done(cmd) PROVE Goal
    <3>1. /\ K(kernel', doubles) /\ EntriesIn(kernel', c) = EntriesIn(kernel, c)
          /\ (Chain(4, c) \in DOMAIN kernel => Chain(4, c) \in DOMAIN kernel')
          /\ \A x \in Entries : Copies(kernel', x) = Copies(kernel, x)
      <4>1. kernel' \in After(kernel, Add(jump))
        BY <2>1, <2>3 DEF Done
      <4>2. Copies(kernel, jump) <= doubles
        BY <1>5, <1>23
      <4>3. Few(kernel', doubles) /\ Same(kernel, kernel', {jump})
        BY <1>3, <1>4, <1>6, <4>1, <4>2, AddIs
      <4>4. /\ \A x \in Entries : Copies(kernel', x) = Copies(kernel, x)
            /\ Chain(4, c) \in DOMAIN kernel => Chain(4, c) \in DOMAIN kernel'
        BY <1>6, <4>3 DEF Same
      <4> QED
        BY <1>6, <4>3, <4>4, SameIs
    <3>2. ran' = ran + 1 /\ timeouts' = timeouts /\ flawless' = flawless /\ doubles' = doubles
      BY <1>9, <2>3
    <3>3. EntriesIn(kernel, c) \subseteq Entries
      BY DEF EntriesIn
    <3> QED
      BY <1>3, <1>5, <1>23, <2>2, <3>1, <3>2, <3>3
  <2>4. ASSUME NotDone(cmd) PROVE Goal
    BY <1>3, <1>5, <1>10, <1>23, <2>1, <2>2, <2>4
  <2>5. ASSUME TimedOut(cmd) PROVE Goal
    <3>1. /\ kernel' = kernel /\ ran' = ran + 1 /\ timeouts' = timeouts + 1 /\ flawless' = FALSE
          /\ doubles' \in Nat /\ doubles' >= doubles /\ K(kernel', doubles')
      BY <1>12, <2>5
    <3>2. \A x \in EntriesIn(kernel, c) \ whole : Copies(kernel, x) <= doubles'
      BY <1>3, <1>5, <1>11, <1>23, <2>2, <3>1
    <3>3. ran' = n + 7 /\ Added(adds, ran' - 5) = whole
      BY <1>3, <1>23, <2>2, <3>1
    <3> QED
      BY <1>3, <3>1, <3>2, <3>3
  <2> QED
    BY <1>13, <2>3, <2>4, <2>5
<1>24. ran \in {0, 1, 2, 3, 4, n + 5, n + 6} \/ ran \in 5..(n + 4)
  BY <1>3
<1> QED
  BY <1>16, <1>17, <1>18, <1>19, <1>20, <1>21, <1>22, <1>23, <1>24

\* One command of tearing a chain down, behind o others.
LEMMA TearStep ==
  ASSUME Types, Few(kernel, doubles), Exec,
         NEW c \in Targets, NEW jump \in JumpsInto(c), NEW o \in Nat, ran \in o..(o + 2),
         commands[o + 1] = Del(jump), commands[o + 2] = EmptyChain(c),
         commands[o + 3] = Del(Chain(4, c)), Tearing(c, jump, o), InPlace(c, jump)
  PROVE  /\ Tearing(c, jump, o)' /\ Few(kernel', doubles') /\ ran' = ran + 1
         /\ JumpsIn(kernel', c) \subseteq JumpsIn(kernel, c)
         /\ \A d : d # c =>
              /\ EntriesIn(kernel', d) = EntriesIn(kernel, d) /\ JumpsIn(kernel', d) = JumpsIn(kernel, d)
              /\ Chain(4, d) \in DOMAIN kernel' <=> Chain(4, d) \in DOMAIN kernel
<1> DEFINE cmd == commands[ran + 1]
           K(k) == /\ JumpsIn(k, c) \subseteq JumpsIn(kernel, c)
                   /\ \A d : d # c =>
                        /\ EntriesIn(k, d) = EntriesIn(kernel, d) /\ JumpsIn(k, d) = JumpsIn(kernel, d)
                        /\ Chain(4, d) \in DOMAIN k <=> Chain(4, d) \in DOMAIN kernel
           T(k, r, f) == f => /\ r >= o + 1 => jump \notin DOMAIN k
                              /\ r >= o + 2 => EntriesIn(k, c) = {}
                              /\ r >= o + 3 /\ OneJump(c) => Chain(4, c) \notin DOMAIN k
           Goal == K(kernel') /\ T(kernel', ran', flawless') /\ Few(kernel', doubles')
<1>1. /\ DOMAIN kernel \subseteq Items /\ K(kernel) /\ ran \in Nat /\ doubles \in Nat
      /\ flawless => doubles = 0
  BY ExecIs DEF Types
<1>2. jump \in Jumps /\ jump.chain = c /\ jump \notin Entries
      /\ jump \in Items \ Entries /\ Chain(4, c) \in Items \ Entries
      /\ \A d : Chain(4, d) \notin Entries \cup Jumps
  BY ItemIs, Kinds DEF Items
<1>3. ran = o \/ ran = o + 1 \/ ran = o + 2
  OBVIOUS
<1>4. cmd.verb # "check"
  <2>1. /\ \A x : Del(x).verb # "check" /\ EmptyChain(x).verb # "check"
    BY DEF Del, EmptyChain, Flush
  <2>2. cmd = Del(jump) \/ cmd = EmptyChain(c) \/ cmd = Del(Chain(4, c))
    BY <1>3
  <2> QED
    BY <2>1, <2>2
<1>5. ran' = ran + 1 /\ astray' = astray
  BY <1>4, ExecIs DEF Done, NotDone, TimedOut, Found
<1>6. Done(cmd) \/ NotDone(cmd) \/ TimedOut(cmd)
  BY ExecIs
<1>7. ASSUME TimedOut(cmd) PROVE Goal
  <2>1. kernel' = kernel /\ flawless' = FALSE /\ (doubles' = doubles \/ doubles' = doubles + 1)
    BY <1>7 DEF TimedOut
  <2>2. Few(kernel, doubles')
    BY <1>1, <2>1 DEF Few
  <2> QED
    BY <1>1, <2>1, <2>2
<1>8. ASSUME Done(cmd) \/ NotDone(cmd) PROVE (flawless' => flawless) /\ doubles' = doubles
  BY <1>8 DEF Done, NotDone, history
<1> HIDE DEF cmd
<1>9. ASSUME ran = o PROVE Goal
  <2>1. cmd = Del(jump)
    BY <1>9 DEF cmd
  <2>2. ASSUME Done(cmd) PROVE Goal
    <3>1. kernel' \in After(kernel, Del(jump))
      BY <2>1, <2>2 DEF Done
    <3>2. /\ Few(kernel', doubles) /\ Same(kernel, kernel', {jump})
          /\ Copies(kernel', jump) <= doubles /\ DOMAIN kernel' \subseteq DOMAIN kernel
      BY <1>1, <1>2, <3>1, DelIs
    <3>3. K(kernel')
      BY <1>2, <3>2, SameIs DEF Same, JumpsIn
    <3>4. flawless => jump \notin DOMAIN kernel'
      BY <1>1, <3>2, FewIs
    <3>5. T(kernel', ran', flawless')
      BY <1>5, <1>8, <1>9, <2>2, <3>4
    <3> QED
      BY <1>8, <2>2, <3>2, <3>3, <3>5
  <2>3. ASSUME NotDone(cmd) PROVE Goal
    <3>1. jump \notin DOMAIN kernel /\ kernel' = kernel
      BY <1>1, <1>2, <2>1, <2>3, RefusedMeans DEF NotDone
    <3>2. T(kernel', ran', flawless')
      BY <1>5, <1>9, <3>1
    <3> QED
      BY <1>1, <1>8, <2>3, <3>1, <3>2
  <2> QED
    BY <1>6, <1>7, <2>2, <2>3
<1>10. ASSUME ran = o + 1 PROVE Goal
  <2>1. cmd = EmptyChain(c)
    BY <1>10 DEF cmd
  <2>2. ASSUME Done(cmd) PROVE Goal
    <3>1. kernel' \in After(kernel, EmptyChain(c))
      BY <2>1, <2>2 DEF Done
    <3>2. /\ Few(kernel', doubles) /\ Same(kernel, kernel', {x \in Entries : x.chain = c})
          /\ EntriesIn(kernel', c) = {} /\ DOMAIN kernel' \subseteq DOMAIN kernel
      BY <1>1, <3>1, FlushIs
    <3>3. K(kernel')
      <4>1. /\ \A d : d # c => EntriesIn(kernel', d) = EntriesIn(kernel, d)
            /\ \A d : JumpsIn(kernel', d) = JumpsIn(kernel, d)
            /\ \A d : Chain(4, d) \in DOMAIN kernel' <=> Chain(4, d) \in DOMAIN kernel
            /\ \A x \in Jumps : Copies(kernel', x) = Copies(kernel, x)
        BY <3>2, SameButEntries
      <4> QED
        BY <4>1
    <3>4. flawless => jump \notin DOMAIN kernel
      BY <1>10 DEF Tearing
    <3>5. T(kernel', ran', flawless')
      BY <1>5, <1>8, <1>10, <2>2, <3>2, <3>4
    <3> QED
      BY <1>8, <2>2, <3>2, <3>3, <3>5
  <2>3. ~NotDone(cmd)
    BY <1>1, <2>1, NothingDone DEF NotDone
  <2> QED
    BY <1>6, <1>7, <2>2, <2>3
<1>11. ASSUME ran = o + 2 PROVE Goal
  <2>1. cmd = Del(Chain(4, c))
    BY <1>11 DEF cmd
  <2>2. flawless => jump \notin DOMAIN kernel /\ EntriesIn(kernel, c) = {}
    BY <1>11 DEF Tearing
  <2>3. ASSUME Done(cmd) PROVE Goal
    <3>1. kernel' \in After(kernel, Del(Chain(4, c)))
      BY <2>1, <2>3 DEF Done
    <3>2. /\ Few(kernel', doubles) /\ Same(kernel, kernel', {Chain(4, c)})
          /\ Copies(kernel', Chain(4, c)) <= doubles /\ DOMAIN kernel' \subseteq DOMAIN kernel
      BY <1>1, <1>2, <3>1, DelIs
    <3>3. \A d : EntriesIn(kernel', d) = EntriesIn(kernel, d) /\ JumpsIn(kernel', d) = JumpsIn(kernel, d)
      BY <1>2, <3>2 DEF Same, EntriesIn, JumpsIn
    <3>4. \A d : d # c => (Chain(4, d) \in DOMAIN kernel' <=> Chain(4, d) \in DOMAIN kernel)
      BY <3>2, Kinds DEF Same
    <3>5. flawless => Chain(4, c) \notin DOMAIN kernel'
      BY <1>1, <3>2, FewIs
    <3>6. T(kernel', ran', flawless')
      BY <1>5, <1>8, <1>11, <2>2, <2>3, <3>2, <3>3, <3>5
    <3> QED
      BY <1>8, <2>3, <3>2, <3>3, <3>4, <3>6
  <2>4. ASSUME NotDone(cmd) PROVE Goal
    <3>1. kernel' = kernel
      BY <2>4 DEF NotDone
    <3>2. Chain(4, c) \notin DOMAIN kernel \/ EntriesIn(kernel, c) # {} \/ JumpsIn(kernel, c) # {}
      BY <1>1, <2>1, <2>4, RefusedMeans DEF NotDone
    <3>3. OneJump(c) /\ jump \notin DOMAIN kernel => JumpsIn(kernel, c) = {}
      BY DEF InPlace, JumpsIn
    <3>4. T(kernel', ran', flawless')
      BY <1>5, <1>8, <1>11, <2>2, <2>4, <3>1, <3>2, <3>3
    <3> QED
      BY <1>1, <1>8, <2>4, <3>1, <3>4
  <2> QED
    BY <1>6, <1>7, <2>3, <2>4
<1>12. Goal
  BY <1>3, <1>9, <1>10, <1>11
<1>13. OneJump(c)' <=> OneJump(c)
  BY <1>5 DEF OneJump
<1> QED
  BY <1>5, <1>12, <1>13 DEF Tearing

\* A whole chain stays so when nothing but its jumps goes.
LEMMA WholeStays ==
  ASSUME NEW c, Whole(c), EntriesIn(kernel', c) = EntriesIn(kernel, c),
         JumpsIn(kernel', c) \subseteq JumpsIn(kernel, c)
  PROVE  Whole(c)'
BY DEF Whole

\* Commands of a handler, whatever it is.
Commands == {Skip} \cup {Add(x) : x \in Items} \cup {Del(x) : x \in Items \ Entries}
              \cup {EmptyChain(c) : c \in Targets} \cup {Check(x) : x \in Jumps}

\* What the commands of a chain are about.
LEMMA PartsOf ==
  ASSUME NEW c \in Targets, NEW jump \in JumpsInto(c)
  PROVE  /\ Chain(4, c) \in Items \ Entries /\ jump \in Items \ Entries
         /\ {Del(jump), EmptyChain(c), Del(Chain(4, c)), Add(Chain(4, c)), Check(jump), Add(jump)} \subseteq Commands
         /\ \A x : Check(x).verb = "check" /\ \A y \in Commands : y.verb = "check" => \E z : y = Check(z)
         /\ Skip.verb # "check" /\ \A x : Add(x).verb # "check" /\ Del(x).verb # "check" /\ EmptyChain(x).verb # "check"
<1>1. Chain(4, c) \in Items \ Entries /\ jump \in Items \ Entries /\ jump \in Jumps
  BY ItemIs, Kinds DEF Items
<1>2. /\ Skip.verb # "check" /\ \A x : Check(x).verb = "check"
      /\ \A x : Add(x).verb # "check" /\ Del(x).verb # "check" /\ EmptyChain(x).verb # "check"
  BY DEF Add, Del, EmptyChain, Flush, Skip, Check
<1>3. {Del(jump), EmptyChain(c), Del(Chain(4, c)), Add(Chain(4, c)), Check(jump), Add(jump)} \subseteq Commands
  BY <1>1 DEF Commands
<1>4. \A y \in Commands : y.verb = "check" => \E z : y = Check(z)
  BY <1>2 DEF Commands
<1> QED
  BY <1>1, <1>2, <1>3, <1>4

\* Filling is made of commands, the last of which is no check.
LEMMA FillCommand ==
  ASSUME NEW c \in Targets, NEW jump \in JumpsInto(c), NEW adds \in AddsTo(c), NEW hook \in Hooks(jump),
         NEW cmds, cmds = Refill(jump, c, adds, hook)
  PROVE  /\ Len(adds) \in Nat /\ Len(cmds) = Len(adds) + 7
         /\ \A i \in 1..Len(cmds) : cmds[i] \in Commands /\ (cmds[i].verb = "check" => i < Len(cmds))
<1>1. PICK whole \in Wholes(c) : AddsOf(adds, c, whole)
  BY AddsAre
<1>2. adds \in Seq({Skip} \cup {Add(x) : x \in Entries})
  BY <1>1 DEF AddsOf
<1>3. /\ Len(cmds) = Len(adds) + 7
      /\ cmds[1] = Del(jump) /\ cmds[2] = EmptyChain(c) /\ cmds[3] = Del(Chain(4, c))
      /\ cmds[4] = Add(Chain(4, c)) /\ cmds[5] = EmptyChain(c)
      /\ \A i \in 6..(Len(adds) + 5) : cmds[i] = adds[i - 5]
      /\ cmds[Len(adds) + 6] \in {Del(jump), Check(jump)} /\ cmds[Len(adds) + 7] = Add(jump)
  <2>1. PICK S : S = {Skip} \cup {Add(x) : x \in Entries}
    OBVIOUS
  <2>2. adds \in Seq(S)
    BY <1>2, <2>1
  <2> QED
    BY <2>2, RefillAt, SMTT(60)
<1>4. Len(adds) \in Nat
  BY <1>2, LenProperties
<1>5. ASSUME NEW i \in 1..Len(cmds)
      PROVE  cmds[i] \in Commands /\ (cmds[i].verb = "check" => i < Len(cmds))
  <2>1. ASSUME i \in 6..(Len(adds) + 5) PROVE cmds[i] \in Commands /\ cmds[i].verb # "check"
    <3>1. cmds[i] = adds[i - 5] /\ i - 5 \in 1..Len(adds)
      BY <1>3, <1>4, <2>1
    <3>2. adds[i - 5] = Skip \/ \E x \in Entries : adds[i - 5] = Add(x)
      BY <1>1, <3>1 DEF AddsOf
    <3> QED
      BY <3>1, <3>2, PartsOf DEF Commands, Items
  <2>2. CASE i = Len(adds) + 6
    BY <1>3, <1>4, <2>2, PartsOf
  <2>3. CASE i \in {1, 2, 3, 4, 5, Len(adds) + 7}
    BY <1>3, <2>3, PartsOf
  <2> QED
    BY <1>3, <1>4, <2>1, <2>2, <2>3
<1> QED
  BY <1>3, <1>4, <1>5

\* A fill goes one command on.
LEMMA FillingStep ==
  ASSUME Types, Kept, Exec, NEW c \in Targets, NEW jump \in JumpsInto(c),
         InPlace(c, jump), Filling(c, jump)
  PROVE  /\ Filling(c, jump)' /\ InPlace(c, jump)' /\ Kept' /\ ran' \in 0..Len(commands)
         /\ \A d : d # c => JumpsIn(kernel', d) = JumpsIn(kernel, d)
<1>1. PICK adds \in AddsTo(c), hook \in Hooks(jump) :
        commands = Refill(jump, c, adds, hook) /\ Building(c, jump, adds)
  BY DEF Filling
<1>2. PICK whole \in Wholes(c) : AddsOf(adds, c, whole)
  BY AddsAre
<1>3. commands' = commands /\ (flawless' => flawless) /\ astray' = astray
  BY ExecIs DEF Done, NotDone, TimedOut, history
<1>4. /\ Len(adds) \in Nat /\ Len(commands) = Len(adds) + 7
      /\ \A i \in 1..Len(commands) : commands[i].verb = "check" => i < Len(commands)
  BY <1>1, FillCommand
<1>5. ran' \in 1..(Len(adds) + 7)
  <2>1. ran \in Nat /\ ran < Len(adds) + 7
    BY <1>4, ExecIs DEF Types
  <2>2. ran' = ran + 1 \/ (ran' = ran + 2 /\ commands[ran + 1].verb = "check")
    BY ExecIs DEF Done, NotDone, TimedOut, Found
  <2>3. commands[ran + 1].verb = "check" => ran + 1 < Len(adds) + 7
    BY <1>4, <2>1
  <2> QED
    BY <1>4, <2>1, <2>2, <2>3
<1>6. /\ Building(c, jump, adds)' /\ Few(kernel', doubles')
      /\ JumpsIn(kernel', c) \subseteq JumpsIn(kernel, c) \cup {jump}
      /\ \A d : d # c =>
           EntriesIn(kernel', d) = EntriesIn(kernel, d) /\ JumpsIn(kernel', d) = JumpsIn(kernel, d)
  BY <1>1, <1>2, FillStep DEF Kept
<1>7. Filling(c, jump)'
  <2>1. commands' = Refill(jump, c, adds, hook)
    BY <1>1, <1>3
  <2> QED
    BY <1>6, <2>1 DEF Filling
<1>8. InPlace(c, jump)'
  BY <1>3, <1>6 DEF InPlace, OneJump
<1>9. ASSUME flawless', OneJump(c)' PROVE Whole(c)'
  <2>1. JumpsIn(kernel', c) # {} => jump \in DOMAIN kernel'
    BY <1>8, <1>9 DEF InPlace, JumpsIn
  <2>2. timeouts' = 0 /\ doubles' = 0
    BY <1>9, ExecIs DEF Types, Done, NotDone, TimedOut, history
  <2>3. jump \in DOMAIN kernel' => Copies(kernel', jump) >= 1
    BY <1>6, <2>2, FewIs
  <2>4. jump \in DOMAIN kernel' => ran' = Len(adds) + 7
    <3>1. /\ ran' \in 1..(Len(adds) + 5) => Copies(kernel', jump) <= 0
          /\ ran' = Len(adds) + 6 => Copies(kernel', jump) <= 0
      BY <1>6, <2>2 DEF Building
    <3> QED
      BY <1>4, <1>5, <1>6, <2>2, <2>3, <3>1, FewIs
  <2>5. ASSUME ran' = Len(adds) + 7 PROVE EntriesIn(kernel', c) = Added(adds, Len(adds) + 2)
    <3>1. ran' >= 5 /\ ran' >= 4 /\ ran' - 5 = Len(adds) + 2
      BY <1>4, <2>5
    <3>2. \A x \in EntriesIn(kernel', c) \ Added(adds, Len(adds) + 2) : Copies(kernel', x) <= 0
      BY <1>6, <2>2, <3>1 DEF Building
    <3>3. \A x \in EntriesIn(kernel', c) : Copies(kernel', x) \in Nat /\ Copies(kernel', x) >= 1
      BY <1>6, <2>2, FewIs DEF EntriesIn
    <3>4. Added(adds, Len(adds) + 2) \subseteq EntriesIn(kernel', c)
      BY <1>6, <1>9, <3>1 DEF Building
    <3>5. ASSUME NEW x \in EntriesIn(kernel', c) PROVE x \in Added(adds, Len(adds) + 2)
      BY <3>2, <3>3
    <3> QED
      BY <3>4, <3>5
  <2>6. Added(adds, Len(adds) + 2) = whole
    BY <1>2, <1>4 DEF AddsOf
  <2> QED
    BY <2>1, <2>4, <2>5, <2>6 DEF Whole
<1>10. ASSUME flawless', NEW d \in Targets, OneJump(d)' PROVE Whole(d)'
  BY <1>3, <1>6, <1>9, <1>10, WholeStays DEF Kept, OneJump
<1>11. Kept'
  BY <1>6, <1>10 DEF Kept
<1> QED
  BY <1>4, <1>5, <1>6, <1>7, <1>8, <1>11

\* The three commands that empty a chain, behind o others.
LEMMA TearKept ==
  ASSUME Types, Kept, Exec, NEW c \in Targets, NEW jump \in JumpsInto(c), NEW o \in Nat, ran \in o..(o + 2),
         commands[o + 1] = Del(jump), commands[o + 2] = EmptyChain(c),
         commands[o + 3] = Del(Chain(4, c)), Tearing(c, jump, o), InPlace(c, jump)
  PROVE  /\ Tearing(c, jump, o)' /\ Kept' /\ ran' = ran + 1
         /\ \A d : JumpsIn(kernel', d) \subseteq JumpsIn(kernel, d)
         /\ \A d : d # c =>
              /\ EntriesIn(kernel', d) = EntriesIn(kernel, d) /\ JumpsIn(kernel', d) = JumpsIn(kernel, d)
              /\ Chain(4, d) \in DOMAIN kernel' <=> Chain(4, d) \in DOMAIN kernel
<1>1. (flawless' => flawless) /\ astray' = astray
  BY ExecIs DEF Done, NotDone, TimedOut, history
<1>2. /\ Tearing(c, jump, o)' /\ Few(kernel', doubles') /\ ran' = ran + 1
      /\ JumpsIn(kernel', c) \subseteq JumpsIn(kernel, c)
      /\ \A d : d # c =>
           /\ EntriesIn(kernel', d) = EntriesIn(kernel, d) /\ JumpsIn(kernel', d) = JumpsIn(kernel, d)
           /\ Chain(4, d) \in DOMAIN kernel' <=> Chain(4, d) \in DOMAIN kernel
  BY TearStep DEF Kept
<1>3. ASSUME flawless', OneJump(c)' PROVE Whole(c)'
  <2>1. JumpsIn(kernel', c) # {} => jump \in DOMAIN kernel'
    BY <1>1, <1>2, <1>3 DEF InPlace, OneJump, JumpsIn
  <2>2. jump \notin DOMAIN kernel'
    BY <1>2, <1>3 DEF Tearing
  <2> QED
    BY <2>1, <2>2 DEF Whole
<1>4. ASSUME flawless', NEW d \in Targets, OneJump(d)' PROVE Whole(d)'
  BY <1>1, <1>2, <1>3, <1>4, WholeStays DEF Kept, OneJump
<1>5. Kept'
  BY <1>2, <1>4 DEF Kept
<1> QED
  BY <1>2, <1>5

\* A teardown of one carve-out goes one command on.
LEMMA EmptyingStep ==
  ASSUME Types, Kept, Exec, NEW c \in Targets, NEW jump \in JumpsInto(c),
         InPlace(c, jump), Emptying(c, jump)
  PROVE  /\ Emptying(c, jump)' /\ InPlace(c, jump)' /\ Kept' /\ ran' \in 0..Len(commands)
         /\ \A d : JumpsIn(kernel', d) \subseteq JumpsIn(kernel, d)
<1>1. commands = ClearChain(jump, c) /\ Tearing(c, jump, 0)
  BY DEF Emptying
<1>2. /\ Len(commands) = 3
      /\ commands[1] = Del(jump) /\ commands[2] = EmptyChain(c) /\ commands[3] = Del(Chain(4, c))
  BY <1>1, ClearAt
<1>3. ran \in 0..2 /\ commands' = commands /\ astray' = astray
  BY <1>2, ExecIs DEF Types
<1>4. /\ Tearing(c, jump, 0)' /\ Kept' /\ ran' = ran + 1
      /\ \A d : JumpsIn(kernel', d) \subseteq JumpsIn(kernel, d)
  <2>1. ran \in 0..(0 + 2) /\ commands[0 + 1] = Del(jump) /\ commands[0 + 2] = EmptyChain(c)
        /\ commands[0 + 3] = Del(Chain(4, c))
    BY <1>2, <1>3
  <2> QED
    BY <1>1, <2>1, TearKept
<1>5. Emptying(c, jump)'
  BY <1>1, <1>3, <1>4 DEF Emptying
<1>6. InPlace(c, jump)'
  BY <1>3, <1>4 DEF InPlace, OneJump
<1> QED
  BY <1>2, <1>3, <1>4, <1>5, <1>6

\* A teardown of both is six commands.
LEMMA BothAt ==
  ASSUME NEW c, NEW d, NEW i, NEW j
  PROVE  LET cmds == ClearChain(i, c) \o ClearChain(j, d)
         IN  /\ Len(cmds) = 6
             /\ cmds[1] = Del(i) /\ cmds[2] = EmptyChain(c) /\ cmds[3] = Del(Chain(4, c))
             /\ cmds[4] = Del(j) /\ cmds[5] = EmptyChain(d) /\ cmds[6] = Del(Chain(4, d))
BY DEF ClearChain

\* The redirect has one place to be hooked in at, an exclusion one per request.
LEMMA Places ==
  /\ REDIRECT_CHAIN \in Targets /\ FORWARD_EXCLUSION_CHAIN \in Targets
  /\ REDIRECT_CHAIN # FORWARD_EXCLUSION_CHAIN
  /\ RedirectJump \in JumpsInto(REDIRECT_CHAIN)
  /\ \A k : JumpsIn(k, REDIRECT_CHAIN) \subseteq {RedirectJump}
  /\ \A s \in Exclusions : Hook(s) \in JumpsInto(FORWARD_EXCLUSION_CHAIN)
<1>1. REDIRECT_CHAIN \in Targets /\ FORWARD_EXCLUSION_CHAIN \in Targets
      /\ REDIRECT_CHAIN # FORWARD_EXCLUSION_CHAIN
  BY DEF Targets, REDIRECT_CHAIN, FORWARD_EXCLUSION_CHAIN
<1>2. JumpsInto(REDIRECT_CHAIN) = {RedirectJump}
  BY DEF JumpsInto
<1>3. \A k : JumpsIn(k, REDIRECT_CHAIN) \subseteq {RedirectJump}
  BY <1>2, ItemIs DEF JumpsIn
<1>4. \A s \in Exclusions : Hook(s) \in JumpsInto(FORWARD_EXCLUSION_CHAIN)
  BY <1>1 DEF Hook, JumpsInto, PreChains
<1> QED
  BY <1>1, <1>2, <1>3, <1>4

\* What is torn down already stays so.
LEMMA TornStays ==
  ASSUME NEW c \in Targets, NEW jump \in JumpsInto(c), NEW o \in Nat, ran \in Nat, ran >= o + 3, ran' = ran + 1,
         Tearing(c, jump, o), flawless' => flawless, astray' = astray,
         EntriesIn(kernel', c) = EntriesIn(kernel, c), JumpsIn(kernel', c) = JumpsIn(kernel, c),
         Chain(4, c) \in DOMAIN kernel' <=> Chain(4, c) \in DOMAIN kernel
  PROVE  Tearing(c, jump, o)'
<1>1. \A k : jump \in DOMAIN k <=> jump \in JumpsIn(k, c)
  BY ItemIs DEF JumpsIn
<1>2. ran' >= o + 1 /\ ran' >= o + 2 /\ ran' >= o + 3 /\ ran >= o + 1 /\ ran >= o + 2
  OBVIOUS
<1> QED
  BY <1>1, <1>2 DEF Tearing, OneJump

\* A teardown of both goes one command on.
LEMMA BothStep ==
  ASSUME Types, Kept, Exec, NEW jump \in JumpsInto(FORWARD_EXCLUSION_CHAIN),
         InPlace(FORWARD_EXCLUSION_CHAIN, jump), ClearingBoth(jump)
  PROVE  /\ ClearingBoth(jump)' /\ Kept' /\ ran' \in 0..Len(commands)
         /\ \A d : JumpsIn(kernel', d) \subseteq JumpsIn(kernel, d)
<1>1. /\ commands' = commands /\ ran \in Nat /\ ran < Len(commands)
      /\ (flawless' => flawless) /\ astray' = astray
  <2>1. commands' = commands /\ ran < Len(commands) /\ astray' = astray
    BY ExecIs
  <2>2. ran \in Nat
    BY <2>1 DEF Types, ClearingBoth
  <2>3. flawless' => flawless
    BY ExecIs DEF Done, NotDone, TimedOut, history
  <2> QED
    BY <2>1, <2>2, <2>3
<1>2. /\ Len(commands) = 6
      /\ commands[1] = Del(RedirectJump) /\ commands[2] = EmptyChain(REDIRECT_CHAIN)
      /\ commands[3] = Del(Chain(4, REDIRECT_CHAIN))
      /\ commands[4] = Del(jump) /\ commands[5] = EmptyChain(FORWARD_EXCLUSION_CHAIN)
      /\ commands[6] = Del(Chain(4, FORWARD_EXCLUSION_CHAIN))
  <2>1. commands = ClearChain(RedirectJump, REDIRECT_CHAIN) \o ClearChain(jump, FORWARD_EXCLUSION_CHAIN)
    BY DEF ClearingBoth, clear_forwarded_redirect
  <2> QED
    BY <2>1, BothAt
<1>3. Tearing(REDIRECT_CHAIN, RedirectJump, 0) /\ Tearing(FORWARD_EXCLUSION_CHAIN, jump, 3)
  BY DEF ClearingBoth
<1>4. InPlace(REDIRECT_CHAIN, RedirectJump)
  BY Places DEF InPlace
<1>5. ASSUME Tearing(REDIRECT_CHAIN, RedirectJump, 0)', Tearing(FORWARD_EXCLUSION_CHAIN, jump, 3)'
      PROVE  ClearingBoth(jump)'
  BY <1>1, <1>5 DEF ClearingBoth
<1>6. CASE ran \in 0..2
  <2>1. ran \in 0..(0 + 2) /\ commands[0 + 1] = Del(RedirectJump) /\ commands[0 + 2] = EmptyChain(REDIRECT_CHAIN)
        /\ commands[0 + 3] = Del(Chain(4, REDIRECT_CHAIN))
    BY <1>2, <1>6
  <2>2. /\ Tearing(REDIRECT_CHAIN, RedirectJump, 0)' /\ Kept' /\ ran' = ran + 1
        /\ \A d : JumpsIn(kernel', d) \subseteq JumpsIn(kernel, d)
    BY <1>3, <1>4, <2>1, Places, TearKept
  <2>3. Tearing(FORWARD_EXCLUSION_CHAIN, jump, 3)'
    BY <1>6, <2>2 DEF Tearing
  <2> QED
    BY <1>2, <1>5, <1>6, <2>2, <2>3
<1>7. CASE ran \in 3..5
  <2>1. ran \in 3..(3 + 2) /\ commands[3 + 1] = Del(jump) /\ commands[3 + 2] = EmptyChain(FORWARD_EXCLUSION_CHAIN)
        /\ commands[3 + 3] = Del(Chain(4, FORWARD_EXCLUSION_CHAIN))
    BY <1>2, <1>7
  <2>2. /\ Tearing(FORWARD_EXCLUSION_CHAIN, jump, 3)' /\ Kept' /\ ran' = ran + 1
        /\ \A d : JumpsIn(kernel', d) \subseteq JumpsIn(kernel, d)
        /\ \A d : d # FORWARD_EXCLUSION_CHAIN =>
             /\ EntriesIn(kernel', d) = EntriesIn(kernel, d) /\ JumpsIn(kernel', d) = JumpsIn(kernel, d)
             /\ Chain(4, d) \in DOMAIN kernel' <=> Chain(4, d) \in DOMAIN kernel
    BY <1>3, <2>1, Places, TearKept
  <2>3. Tearing(REDIRECT_CHAIN, RedirectJump, 0)'
    <3>1. ran >= 0 + 3
      BY <1>7
    <3>2. /\ EntriesIn(kernel', REDIRECT_CHAIN) = EntriesIn(kernel, REDIRECT_CHAIN)
          /\ JumpsIn(kernel', REDIRECT_CHAIN) = JumpsIn(kernel, REDIRECT_CHAIN)
          /\ Chain(4, REDIRECT_CHAIN) \in DOMAIN kernel' <=> Chain(4, REDIRECT_CHAIN) \in DOMAIN kernel
      BY <2>2, Places
    <3> QED
      BY <1>1, <1>3, <2>2, <3>1, <3>2, Places, TornStays
  <2> QED
    BY <1>2, <1>5, <1>7, <2>2, <2>3
<1>8. ran \in 0..2 \/ ran \in 3..5
  BY <1>1, <1>2
<1> QED
  BY <1>6, <1>7, <1>8

\* A teardown of what is on record goes one command on.
LEMMA ClearingStep ==
  ASSUME Types, Kept, Exec, Clearing
  PROVE  /\ Clearing' /\ Kept' /\ ran' \in 0..Len(commands)
         /\ \A d : JumpsIn(kernel', d) \subseteq JumpsIn(kernel, d)
<1>1. commands' = commands /\ arg' = arg /\ astray' = astray /\ ran \in Nat /\ ran < Len(commands)
  BY ExecIs DEF Types
<1>2. InPlace(REDIRECT_CHAIN, RedirectJump)
  BY Places DEF InPlace
<1>3. ASSUME arg.exclusion # None
      PROVE  /\ arg.exclusion \in Exclusions
             /\ Hook(arg.exclusion) \in JumpsInto(FORWARD_EXCLUSION_CHAIN)
             /\ InPlace(FORWARD_EXCLUSION_CHAIN, Hook(arg.exclusion))
  BY <1>3, Places DEF Clearing
<1>4. ASSUME NEW jump, InPlace(FORWARD_EXCLUSION_CHAIN, jump),
             \A d : JumpsIn(kernel', d) \subseteq JumpsIn(kernel, d)
      PROVE  InPlace(FORWARD_EXCLUSION_CHAIN, jump)'
  BY <1>1, <1>4 DEF InPlace, OneJump
<1>5. CASE arg.redirect = None /\ arg.exclusion = None /\ commands = <<>>
  BY <1>1, <1>5
<1>6. CASE arg.redirect # None /\ arg.exclusion = None /\ Emptying(REDIRECT_CHAIN, RedirectJump)
  <2>1. /\ Emptying(REDIRECT_CHAIN, RedirectJump)' /\ Kept' /\ ran' \in 0..Len(commands)
        /\ \A d : JumpsIn(kernel', d) \subseteq JumpsIn(kernel, d)
    BY <1>2, <1>6, Places, EmptyingStep
  <2> QED
    BY <1>1, <1>6, <2>1 DEF Clearing
<1>7. CASE /\ arg.redirect = None /\ arg.exclusion # None
           /\ Emptying(FORWARD_EXCLUSION_CHAIN, Hook(arg.exclusion))
  <2>1. PICK jump : jump = Hook(arg.exclusion)
    OBVIOUS
  <2>2. /\ jump \in JumpsInto(FORWARD_EXCLUSION_CHAIN) /\ InPlace(FORWARD_EXCLUSION_CHAIN, jump)
        /\ Emptying(FORWARD_EXCLUSION_CHAIN, jump)
    BY <1>3, <1>7, <2>1
  <2>3. /\ Emptying(FORWARD_EXCLUSION_CHAIN, jump)' /\ InPlace(FORWARD_EXCLUSION_CHAIN, jump)'
        /\ Kept' /\ ran' \in 0..Len(commands)
        /\ \A d : JumpsIn(kernel', d) \subseteq JumpsIn(kernel, d)
    BY <2>2, Places, EmptyingStep
  <2>4. jump = Hook(arg'.exclusion)
    BY <1>1, <2>1
  <2> QED
    BY <1>1, <1>3, <1>7, <2>3, <2>4 DEF Clearing
<1>8. CASE arg.redirect # None /\ arg.exclusion # None /\ ClearingBoth(Hook(arg.exclusion))
  <2>1. PICK jump : jump = Hook(arg.exclusion)
    OBVIOUS
  <2>2. /\ jump \in JumpsInto(FORWARD_EXCLUSION_CHAIN) /\ InPlace(FORWARD_EXCLUSION_CHAIN, jump)
        /\ ClearingBoth(jump)
    BY <1>3, <1>8, <2>1
  <2>3. /\ ClearingBoth(jump)' /\ Kept' /\ ran' \in 0..Len(commands)
        /\ \A d : JumpsIn(kernel', d) \subseteq JumpsIn(kernel, d)
    BY <2>2, BothStep
  <2>4. InPlace(FORWARD_EXCLUSION_CHAIN, jump)'
    BY <1>4, <2>2, <2>3
  <2>5. jump = Hook(arg'.exclusion)
    BY <1>1, <2>1
  <2> QED
    BY <1>1, <1>3, <1>8, <2>3, <2>4, <2>5 DEF Clearing
<1> QED
  BY <1>5, <1>6, <1>7, <1>8 DEF Clearing

\* No command puts anything else into the kernel.
LEMMA ItemsStay ==
  ASSUME NEW k, DOMAIN k \subseteq Items, NEW n \in Nat, Few(k, n), NEW cmd \in Commands, NEW m \in After(k, cmd)
  PROVE  DOMAIN m \subseteq Items
<1>1. CASE cmd = Skip
  BY <1>1, NothingDone
<1>2. ASSUME NEW x \in Jumps, cmd = Check(x) PROVE FALSE
  BY <1>2, NothingDone
<1>3. ASSUME NEW x \in Items, cmd = Add(x) PROVE DOMAIN m \subseteq Items
  <2>1. m \in After(k, Add(x))
    BY <1>3
  <2>2. Same(k, m, {x})
    BY <2>1, AddIs
  <2> QED
    BY <2>2 DEF Same
<1>4. ASSUME NEW x \in Items \ Entries, cmd = Del(x) PROVE DOMAIN m \subseteq Items
  <2>1. m \in After(k, Del(x))
    BY <1>4
  <2>2. DOMAIN m \subseteq DOMAIN k
    BY <2>1, DelIs
  <2> QED
    BY <2>2
<1>5. ASSUME NEW c, cmd = EmptyChain(c) PROVE DOMAIN m \subseteq Items
  <2>1. m \in After(k, EmptyChain(c))
    BY <1>5
  <2>2. DOMAIN m \subseteq DOMAIN k
    BY <2>1, FlushIs
  <2> QED
    BY <2>2
<1> QED
  BY <1>1, <1>2, <1>3, <1>4, <1>5 DEF Commands

\* A teardown is made of commands.
LEMMA ClearCommands ==
  ASSUME NEW c \in Targets, NEW jump \in JumpsInto(c)
  PROVE  \A i \in 1..3 : ClearChain(jump, c)[i] \in Commands
<1>1. \A i \in 1..3 : ClearChain(jump, c)[i] \in {Del(jump), EmptyChain(c), Del(Chain(4, c))}
  <2>1. ASSUME NEW i \in 1..3 PROVE i = 1 \/ i = 2 \/ i = 3
    OBVIOUS
  <2> QED
    BY <2>1, ClearAt
<1> QED
  BY <1>1, PartsOf

\* Whatever the handler, it is made of commands.
LEMMA HandlersCommand ==
  ASSUME Handler, NEW i \in 1..Len(commands)
  PROVE  commands[i] \in Commands
<1>1. ASSUME NEW c \in Targets, NEW jump \in JumpsInto(c), Filling(c, jump) PROVE commands[i] \in Commands
  <2>1. PICK adds \in AddsTo(c), hook \in Hooks(jump) : commands = Refill(jump, c, adds, hook)
    BY <1>1 DEF Filling
  <2> QED
    BY <2>1, FillCommand
<1>2. ASSUME NEW c \in Targets, NEW jump \in JumpsInto(c), Emptying(c, jump) PROVE commands[i] \in Commands
  BY <1>2, ClearAt, ClearCommands DEF Emptying
<1>3. ASSUME NEW jump \in JumpsInto(FORWARD_EXCLUSION_CHAIN), ClearingBoth(jump)
      PROVE  commands[i] \in Commands
  <2>1. commands = ClearChain(RedirectJump, REDIRECT_CHAIN) \o ClearChain(jump, FORWARD_EXCLUSION_CHAIN)
    BY <1>3 DEF ClearingBoth, clear_forwarded_redirect
  <2>2. /\ Len(commands) = 6
        /\ commands[1] = Del(RedirectJump) /\ commands[2] = EmptyChain(REDIRECT_CHAIN)
        /\ commands[3] = Del(Chain(4, REDIRECT_CHAIN))
        /\ commands[4] = Del(jump) /\ commands[5] = EmptyChain(FORWARD_EXCLUSION_CHAIN)
        /\ commands[6] = Del(Chain(4, FORWARD_EXCLUSION_CHAIN))
    BY <2>1, BothAt
  <2>3. \A c \in Targets : \A j \in JumpsInto(c) :
          Del(j) \in Commands /\ EmptyChain(c) \in Commands /\ Del(Chain(4, c)) \in Commands
    BY PartsOf
  <2>4. i \in {1, 2, 3, 4, 5, 6}
    BY <2>2
  <2> QED
    BY <2>2, <2>3, <2>4, Places
<1>4. CASE running = "redirect" /\ Working(REDIRECT_CHAIN, RedirectJump)
  BY <1>1, <1>2, <1>4, Places DEF Working
<1>5. CASE running = "exclusion" /\ arg \in Exclusions /\ Working(FORWARD_EXCLUSION_CHAIN, Hook(arg))
  BY <1>1, <1>2, <1>5, Places DEF Working
<1>6. CASE running = "clear" /\ Clearing
  <2>1. commands # <<>>
    OBVIOUS
  <2>2. arg.exclusion # None => Hook(arg.exclusion) \in JumpsInto(FORWARD_EXCLUSION_CHAIN)
    BY <1>6, Places DEF Clearing
  <2> QED
    BY <1>2, <1>3, <1>6, <2>1, <2>2, Places DEF Clearing
<1>7. commands # <<>>
  OBVIOUS
<1> QED
  BY <1>4, <1>5, <1>6, <1>7 DEF Handler

\* A command keeps the invariant, in time or not.
LEMMA ExecStep ==
  ASSUME IInv, Exec
  PROVE  IInv'
<1>1. Types /\ Handler /\ Kept /\ Recalled
  BY DEF IInv
<1>2. /\ ran < Len(commands) /\ UNCHANGED <<session, running, arg, commands, cleared, astray>>
      /\ Done(commands[ran + 1]) \/ NotDone(commands[ran + 1]) \/ TimedOut(commands[ran + 1])
  BY ExecIs
<1>3. running # "nothing"
  BY <1>1, <1>2 DEF Handler, Types
<1>4. redirect' = redirect /\ exclusion' = exclusion /\ commands' = commands /\ cleared' = cleared
      /\ running' = running /\ arg' = arg /\ astray' = astray
  BY <1>2 DEF session
<1>5. /\ Handler' /\ Kept' /\ ran' \in 0..Len(commands)
      /\ running # "exclusion" =>
           JumpsIn(kernel', FORWARD_EXCLUSION_CHAIN) \subseteq JumpsIn(kernel, FORWARD_EXCLUSION_CHAIN)
  <2>1. ASSUME NEW c \in Targets, NEW jump \in JumpsInto(c), Working(c, jump)
        PROVE  /\ Working(c, jump)' /\ Kept' /\ ran' \in 0..Len(commands)
               /\ \A d : d # c => JumpsIn(kernel', d) \subseteq JumpsIn(kernel, d)
    <3>1. CASE Filling(c, jump)
      <4>1. /\ Filling(c, jump)' /\ InPlace(c, jump)' /\ Kept' /\ ran' \in 0..Len(commands)
            /\ \A d : d # c => JumpsIn(kernel', d) = JumpsIn(kernel, d)
        BY <1>1, <2>1, <3>1, FillingStep DEF Working
      <4> QED
        BY <4>1 DEF Working
    <3>2. CASE Emptying(c, jump)
      <4>1. /\ Emptying(c, jump)' /\ InPlace(c, jump)' /\ Kept' /\ ran' \in 0..Len(commands)
            /\ \A d : JumpsIn(kernel', d) \subseteq JumpsIn(kernel, d)
        BY <1>1, <2>1, <3>2, EmptyingStep DEF Working
      <4> QED
        BY <4>1 DEF Working
    <3> QED
      BY <2>1, <3>1, <3>2 DEF Working
  <2>2. CASE running = "redirect" /\ arg \in Redirects /\ Working(REDIRECT_CHAIN, RedirectJump)
    <3>1. PICK jump : jump = RedirectJump
      OBVIOUS
    <3>2. /\ Working(REDIRECT_CHAIN, jump)' /\ Kept' /\ ran' \in 0..Len(commands)
          /\ \A d : d # REDIRECT_CHAIN => JumpsIn(kernel', d) \subseteq JumpsIn(kernel, d)
      BY <2>1, <2>2, <3>1, Places
    <3> QED
      BY <1>4, <2>2, <3>1, <3>2, Places DEF Handler
  <2>3. CASE running = "exclusion" /\ arg \in Exclusions /\ Working(FORWARD_EXCLUSION_CHAIN, Hook(arg))
    <3>1. PICK jump : jump = Hook(arg)
      OBVIOUS
    <3>2. Working(FORWARD_EXCLUSION_CHAIN, jump)' /\ Kept' /\ ran' \in 0..Len(commands)
      BY <2>1, <2>3, <3>1, Places
    <3>3. jump = Hook(arg')
      BY <1>4, <3>1
    <3> QED
      BY <1>4, <2>3, <3>2, <3>3 DEF Handler
  <2>4. CASE running = "clear" /\ Clearing
    <3>1. /\ Clearing' /\ Kept' /\ ran' \in 0..Len(commands)
          /\ \A d : JumpsIn(kernel', d) \subseteq JumpsIn(kernel, d)
      BY <1>1, <2>4, ClearingStep
    <3> QED
      BY <1>4, <2>4, <3>1 DEF Handler
  <2> QED
    BY <1>1, <1>3, <2>2, <2>3, <2>4 DEF Handler
<1>6. DOMAIN kernel' \subseteq Items
  <2>1. commands[ran + 1] \in Commands
    BY <1>1, <1>2, HandlersCommand DEF Types
  <2>2. kernel' = kernel \/ kernel' \in After(kernel, commands[ran + 1])
    BY <1>2 DEF Done, NotDone, TimedOut
  <2>3. DOMAIN kernel \subseteq Items /\ doubles \in Nat /\ Few(kernel, doubles)
    BY <1>1 DEF Types, Kept
  <2> QED
    BY <2>1, <2>2, <2>3, ItemsStay
<1>7. timeouts' \in 0..ran' /\ flawless' \in BOOLEAN /\ doubles' \in Nat
      /\ (flawless' => timeouts' = 0 /\ doubles' = 0)
  <2>1. /\ timeouts \in 0..ran /\ ran \in Nat /\ flawless \in BOOLEAN /\ doubles \in Nat
        /\ (flawless => timeouts = 0 /\ doubles = 0)
    BY <1>1, <1>2 DEF Types
  <2>2. ran' >= ran + 1 /\ ran' \in Nat
    BY <1>2, <2>1 DEF Done, NotDone, TimedOut
  <2>3. CASE timeouts' = timeouts /\ flawless' = flawless /\ doubles' = doubles
    <3>1. timeouts' \in 0..ran' /\ doubles' \in Nat
      BY <2>1, <2>2, <2>3
    <3> QED
      BY <2>1, <2>3, <3>1, Zenon
  <2>4. CASE TimedOut(commands[ran + 1])
    <3>1. timeouts' = timeouts + 1 /\ ran' = ran + 1 /\ flawless' = FALSE
          /\ (doubles' = doubles \/ doubles' = doubles + 1)
      BY <2>4 DEF TimedOut
    <3>2. timeouts' \in 0..ran' /\ doubles' \in Nat
      BY <2>1, <3>1
    <3> QED
      BY <3>1, <3>2, Zenon
  <2> QED
    BY <1>2, <2>3, <2>4 DEF Done, NotDone, history
<1>8. Types'
  BY <1>1, <1>4, <1>5, <1>6, <1>7 DEF Types
<1>9. Recalled'
  BY <1>1, <1>4, <1>5 DEF Recalled, InPlace, OneJump, Hook
<1>10. cleared' = Nothing
  BY <1>3, <1>4 DEF IInv
<1>11. cleared'.exclusion = None /\ cleared'.redirect = None /\ Nothing' = Nothing
  BY <1>10 DEF Nothing
<1> QED
  BY <1>5, <1>8, <1>9, <1>10, <1>11 DEF IInv

\* The actions and the properties look at the kernel as the invariant does.
LEMMA SeenAs ==
  ASSUME IInv, NEW c \in Targets
  PROVE  EntriesOf(c) = EntriesIn(kernel, c) /\ JumpsTo(c) = JumpsIn(kernel, c)
<1>1. DOMAIN kernel \subseteq Items
  BY DEF IInv, Types
<1> QED
  BY <1>1, EntryMatches, JumpMatches DEF EntriesOf, JumpsTo, Present, EntriesIn, JumpsIn, BagToSet

\* A handler that has run nothing yet is at no stage of anything.
LEMMA BeginStep ==
  ASSUME IInv, NEW who, NEW what, NEW cmds, Begin(who, what, cmds), UNCHANGED kernel,
         redirect' \in Redirects \cup {None}, exclusion' \in Exclusions \cup {None},
         Len(cmds) \in Nat, Handler', Recalled', \A c \in Targets : flawless' /\ OneJump(c)' => Whole(c)'
  PROVE  IInv'
<1>1. ran' = 0 /\ commands' = cmds /\ timeouts' = 0 /\ cleared' = Nothing /\ flawless' = flawless
      /\ doubles' = doubles /\ kernel' = kernel
  BY DEF Begin
<1>2. Types'
  <2>1. DOMAIN kernel' \subseteq Items /\ flawless' \in BOOLEAN /\ doubles' \in Nat
        /\ (flawless' => doubles' = 0)
    BY <1>1 DEF IInv, Types
  <2>2. ran' \in 0..Len(commands') /\ timeouts' \in 0..ran'
    BY <1>1
  <2> QED
    BY <1>1, <2>1, <2>2 DEF Types
<1>3. Few(kernel', doubles')
  BY <1>1 DEF IInv, Kept
<1>4. cleared'.exclusion = None /\ cleared'.redirect = None /\ Nothing' = Nothing
  BY <1>1 DEF Nothing
<1> QED
  BY <1>1, <1>2, <1>3, <1>4 DEF IInv, Kept

\* What is whole stays so in a kernel that stays as it is.
LEMMA WholeAsBefore ==
  ASSUME IInv, kernel' = kernel, flawless' = flawless, NEW c \in Targets, flawless', OneJump(c)
  PROVE  Whole(c)'
BY DEF IInv, Kept, Whole

\* A redirect begins.
LEMMA RedirectStep ==
  ASSUME IInv, NEW s \in Redirects, ApplyForwardedRedirect(s)
  PROVE  IInv'
<1>1. /\ Begin("redirect", s, apply_forwarded_redirect(s))
      /\ kernel' = kernel /\ redirect' = redirect /\ exclusion' = exclusion /\ astray' = astray
  BY DEF ApplyForwardedRedirect, session
<1>2. running' = "redirect" /\ arg' = s /\ commands' = apply_forwarded_redirect(s) /\ ran' = 0
      /\ running = "nothing" /\ flawless' = flawless
  BY <1>1 DEF Begin
<1>3. Len(apply_forwarded_redirect(s)) \in Nat
      /\ (Filling(REDIRECT_CHAIN, RedirectJump)' \/ Emptying(REDIRECT_CHAIN, RedirectJump)')
  <2>1. CASE s.downstream_interfaces = <<>> \/ s.redirect_port = 0
    <3>1. commands' = ClearChain(RedirectJump, REDIRECT_CHAIN)
      BY <1>2, <2>1 DEF apply_forwarded_redirect, clear_forwarded_redirect
    <3>2. Tearing(REDIRECT_CHAIN, RedirectJump, 0)'
      BY <1>2 DEF Tearing
    <3> QED
      BY <1>2, <3>1, <3>2, ClearAt DEF Emptying
  <2>2. CASE ~(s.downstream_interfaces = <<>> \/ s.redirect_port = 0)
    <3>1. AddRedirects(s) \in AddsTo(REDIRECT_CHAIN) /\ InsertUnlessThere(RedirectJump) \in Hooks(RedirectJump)
      BY <2>2 DEF AddsTo, Asked, Hooks
    <3>2. commands' = Refill(RedirectJump, REDIRECT_CHAIN, AddRedirects(s), InsertUnlessThere(RedirectJump))
      BY <1>2, <2>2 DEF apply_forwarded_redirect
    <3>3. /\ Len(AddRedirects(s)) \in Nat /\ Len(apply_forwarded_redirect(s)) \in Nat
      BY <1>2, <3>1, <3>2, Places, FillCommand
    <3>4. Building(REDIRECT_CHAIN, RedirectJump, AddRedirects(s))'
      BY <1>2, <3>3 DEF Building
    <3>5. Filling(REDIRECT_CHAIN, RedirectJump)'
      BY <3>1, <3>2, <3>4 DEF Filling
    <3> QED
      BY <3>3, <3>5
  <2> QED
    BY <2>1, <2>2
<1>4. InPlace(REDIRECT_CHAIN, RedirectJump)'
  BY Places DEF InPlace
<1>5. Handler'
  BY <1>2, <1>3, <1>4 DEF Handler, Working
<1>6. Recalled'
  BY <1>1, <1>2 DEF IInv, Recalled, InPlace, OneJump, Hook
<1>7. \A c \in Targets : flawless' /\ OneJump(c)' => Whole(c)'
  BY <1>1, <1>2, WholeAsBefore DEF OneJump
<1> QED
  BY <1>1, <1>3, <1>5, <1>6, <1>7, BeginStep DEF IInv, Types

\* An exclusion begins, and what it finds hooked in elsewhere stays there.
LEMMA ExclusionStep ==
  ASSUME IInv, NEW s \in Exclusions, ApplyForwardedExclusion(s)
  PROVE  IInv'
<1>1. PICK jump : jump = Hook(s)
  OBVIOUS
<1>2. /\ Begin("exclusion", s, apply_forwarded_exclusion(s))
      /\ kernel' = kernel /\ redirect' = redirect /\ exclusion' = exclusion
  BY DEF ApplyForwardedExclusion, session
<1>3. running' = "exclusion" /\ arg' = s /\ commands' = apply_forwarded_exclusion(s) /\ ran' = 0
      /\ flawless' = flawless
  BY <1>2 DEF Begin
<1>4. JumpsTo(FORWARD_EXCLUSION_CHAIN) = JumpsIn(kernel, FORWARD_EXCLUSION_CHAIN)
  BY Places, SeenAs
<1>5. ~astray' => /\ JumpsIn(kernel, FORWARD_EXCLUSION_CHAIN) \subseteq {jump}
                  /\ ~astray \/ JumpsIn(kernel, FORWARD_EXCLUSION_CHAIN) = {}
  BY <1>1, <1>4 DEF ApplyForwardedExclusion, Hook
<1>6. jump \in JumpsInto(FORWARD_EXCLUSION_CHAIN)
  BY <1>1, Places
<1>7. /\ Len(apply_forwarded_exclusion(s)) \in Nat
      /\ (Filling(FORWARD_EXCLUSION_CHAIN, jump)' \/ Emptying(FORWARD_EXCLUSION_CHAIN, jump)')
  <2>1. CASE s.downstream_interfaces = <<>>
    <3>1. commands' = ClearChain(jump, FORWARD_EXCLUSION_CHAIN)
      BY <1>1, <1>3, <2>1 DEF apply_forwarded_exclusion, clear_forwarded_exclusion, Hook
    <3>2. Tearing(FORWARD_EXCLUSION_CHAIN, jump, 0)'
      BY <1>3 DEF Tearing
    <3> QED
      BY <1>3, <3>1, <3>2, ClearAt DEF Emptying
  <2>2. CASE s.downstream_interfaces # <<>>
    <3>1. AddExclusions(s) \in AddsTo(FORWARD_EXCLUSION_CHAIN) /\ <<Del(jump), Add(jump)>> \in Hooks(jump)
      BY <2>2, Places DEF AddsTo, Asked, Hooks
    <3>2. commands' = Refill(jump, FORWARD_EXCLUSION_CHAIN, AddExclusions(s), <<Del(jump), Add(jump)>>)
      BY <1>1, <1>3, <2>2 DEF apply_forwarded_exclusion, Hook
    <3>3. Len(AddExclusions(s)) \in Nat /\ Len(apply_forwarded_exclusion(s)) \in Nat
      BY <1>3, <1>6, <3>1, <3>2, Places, FillCommand
    <3>4. Building(FORWARD_EXCLUSION_CHAIN, jump, AddExclusions(s))'
      BY <1>3, <3>3 DEF Building
    <3>5. Filling(FORWARD_EXCLUSION_CHAIN, jump)'
      BY <3>1, <3>2, <3>4 DEF Filling
    <3> QED
      BY <3>3, <3>5
  <2> QED
    BY <2>1, <2>2
<1>8. InPlace(FORWARD_EXCLUSION_CHAIN, jump)'
  BY <1>2, <1>5, Places DEF InPlace, OneJump
<1>9. Handler'
  BY <1>1, <1>3, <1>7, <1>8 DEF Handler, Working
<1>10. Recalled'
  BY <1>3 DEF Recalled
<1>11. \A c \in Targets : flawless' /\ OneJump(c)' => Whole(c)'
  <2>1. ASSUME NEW c \in Targets, flawless', OneJump(c)' PROVE Whole(c)'
    <3>1. CASE OneJump(c)
      BY <1>2, <1>3, <2>1, <3>1, WholeAsBefore
    <3>2. CASE ~OneJump(c)
      BY <1>2, <1>5, <2>1, <3>2 DEF OneJump, Targets, Whole
    <3> QED
      BY <3>1, <3>2
  <2> QED
    BY <2>1
<1> QED
  BY <1>2, <1>7, <1>9, <1>10, <1>11, BeginStep DEF IInv, Types

\* A teardown begins, of what is on record.
LEMMA ClearStep ==
  ASSUME IInv, ClearCarveOuts
  PROVE  IInv'
<1>1. PICK cmds, had, jump :
        /\ cmds = (IF redirect # None THEN clear_forwarded_redirect ELSE <<>>)
                    \o (IF exclusion # None THEN clear_forwarded_exclusion(pre_chain_or_default(exclusion))
                        ELSE <<>>)
        /\ had = [redirect |-> redirect, exclusion |-> exclusion]
        /\ jump = Hook(exclusion)
  OBVIOUS
<1>2. /\ Begin("clear", had, cmds) /\ kernel' = kernel /\ redirect' = None /\ exclusion' = None
      /\ running' = "clear" /\ arg' = had /\ commands' = cmds /\ ran' = 0 /\ running = "nothing"
      /\ flawless' = flawless /\ astray' = astray
  <2>1. OnRecord = had
    BY <1>1 DEF OnRecord
  <2> QED
    BY <1>1, <2>1 DEF ClearCarveOuts, Begin
<1>3. had.redirect = redirect /\ had.exclusion = exclusion /\ exclusion \in Exclusions \cup {None}
  BY <1>1 DEF IInv, Types
<1>4. ASSUME exclusion # None PROVE InPlace(FORWARD_EXCLUSION_CHAIN, jump)'
  <2>1. InPlace(FORWARD_EXCLUSION_CHAIN, jump)
    BY <1>1, <1>2, <1>4 DEF IInv, Recalled
  <2> QED
    BY <1>2, <2>1 DEF InPlace, OneJump
<1>5. \A c, j : Tearing(c, j, 0)' /\ Tearing(c, j, 3)'
  BY <1>2 DEF Tearing
<1>6. \A c, j : ClearChain(j, c) \o <<>> = ClearChain(j, c) /\ <<>> \o ClearChain(j, c) = ClearChain(j, c)
  BY DEF ClearChain
<1>7. <<>> \o <<>> = <<>>
  OBVIOUS
<1>8. had.exclusion # None => jump = Hook(had.exclusion)
  BY <1>1, <1>3
<1>9. Len(cmds) \in Nat /\ Clearing'
  <2>1. CASE redirect = None /\ exclusion = None
    <3>1. cmds = <<>>
      BY <1>1, <1>7, <2>1
    <3> QED
      BY <1>2, <1>3, <2>1, <3>1 DEF Clearing
  <2>2. CASE redirect # None /\ exclusion = None
    <3>1. cmds = ClearChain(RedirectJump, REDIRECT_CHAIN)
      BY <1>1, <1>6, <2>2 DEF clear_forwarded_redirect
    <3>2. Emptying(REDIRECT_CHAIN, RedirectJump)'
      BY <1>2, <1>5, <3>1 DEF Emptying
    <3> QED
      BY <1>2, <1>3, <2>2, <3>1, <3>2, ClearAt DEF Clearing
  <2>3. CASE redirect = None /\ exclusion # None
    <3>1. cmds = ClearChain(jump, FORWARD_EXCLUSION_CHAIN)
      BY <1>1, <1>6, <2>3 DEF clear_forwarded_exclusion, Hook
    <3>2. Emptying(FORWARD_EXCLUSION_CHAIN, jump)'
      BY <1>2, <1>5, <3>1 DEF Emptying
    <3> QED
      BY <1>2, <1>3, <1>4, <1>8, <2>3, <3>1, <3>2, ClearAt DEF Clearing
  <2>4. CASE redirect # None /\ exclusion # None
    <3>1. cmds = clear_forwarded_redirect \o ClearChain(jump, FORWARD_EXCLUSION_CHAIN)
      BY <1>1, <2>4 DEF clear_forwarded_exclusion, Hook
    <3>2. ClearingBoth(jump)'
      BY <1>2, <1>5, <3>1 DEF ClearingBoth
    <3>3. Len(cmds) = 6
      BY <3>1, BothAt DEF clear_forwarded_redirect
    <3> QED
      BY <1>2, <1>3, <1>4, <1>8, <2>4, <3>2, <3>3 DEF Clearing
  <2> QED
    BY <2>1, <2>2, <2>3, <2>4
<1>10. Handler'
  BY <1>2, <1>9 DEF Handler
<1>11. Recalled'
  BY <1>2 DEF Recalled
<1>12. \A c \in Targets : flawless' /\ OneJump(c)' => Whole(c)'
  BY <1>2, WholeAsBefore DEF OneJump
<1> QED
  BY <1>2, <1>9, <1>10, <1>11, <1>12, BeginStep

\* The app's chain coming and going leaves the entries alone and jumps at most go.
LEMMA AppStep ==
  ASSUME IInv, NEW p \in PreChains, AppTproxy(p)
  PROVE  IInv'
<1>1. p \notin Targets /\ p \notin BuiltIn /\ Chain(4, p) \in Items
  BY CarveOutAssumption DEF Targets, Items
<1>2. DOMAIN kernel \subseteq Items /\ doubles \in Nat /\ Few(kernel, doubles)
  BY DEF IInv, Types, Kept
<1>3. UNCHANGED <<redirect, exclusion, running, arg, commands, ran, timeouts, flawless, doubles, astray,
                  cleared>>
  BY DEF AppTproxy, session, handler, history
<1>4. /\ DOMAIN kernel' \subseteq Items /\ Few(kernel', doubles)
      /\ \A d : EntriesIn(kernel', d) = EntriesIn(kernel, d) /\ JumpsIn(kernel', d) \subseteq JumpsIn(kernel, d)
      /\ \A d \in Targets : Chain(4, d) \in DOMAIN kernel' <=> Chain(4, d) \in DOMAIN kernel
      /\ \A j \in Jumps : j \in DOMAIN kernel' => j \in DOMAIN kernel
      /\ \A j \in Jumps : Copies(kernel', j) = Copies(kernel, j) \/ Copies(kernel', j) = 0
      /\ \A x \in Entries : Copies(kernel', x) = Copies(kernel, x)
  <2>1. CASE HasChain(kernel, 4, p)
    <3>1. kernel' = [x \in {y \in DOMAIN kernel : y # Chain(4, p) /\ ~(y.kind = "jump" /\ y.at = p)} |-> kernel[x]]
      BY <2>1 DEF AppTproxy, BagToSet
    <3>2. \A x \in Entries : x # Chain(4, p) /\ ~(x.kind = "jump" /\ x.at = p)
      BY ItemIs, Kinds
    <3>3. \A d \in Targets : Chain(4, d) # Chain(4, p) /\ Chain(4, d).kind # "jump"
      BY <1>1, ItemIs, Kinds
    <3>4. DOMAIN kernel' = {y \in DOMAIN kernel : y # Chain(4, p) /\ ~(y.kind = "jump" /\ y.at = p)}
          /\ \A x \in DOMAIN kernel' : kernel'[x] = kernel[x]
      BY <3>1
    <3>5. Few(kernel', doubles)
      BY <1>2, <3>4 DEF Few
    <3>6. \A d : EntriesIn(kernel', d) = EntriesIn(kernel, d) /\ JumpsIn(kernel', d) \subseteq JumpsIn(kernel, d)
      BY <3>2, <3>4 DEF EntriesIn, JumpsIn
    <3>7. /\ \A j \in Jumps : Copies(kernel', j) = Copies(kernel, j) \/ Copies(kernel', j) = 0
          /\ \A x \in Entries : Copies(kernel', x) = Copies(kernel, x)
      BY <3>2, <3>4 DEF Copies
    <3> QED
      BY <1>2, <3>3, <3>4, <3>5, <3>6, <3>7
  <2>2. CASE ~HasChain(kernel, 4, p)
    <3>1. kernel' = kernel (+) SetToBag({Chain(4, p)}) /\ Chain(4, p) \notin DOMAIN kernel
      BY <2>2 DEF AppTproxy, HasChain, BagIn, BagToSet
    <3>2. /\ DOMAIN kernel' = DOMAIN kernel \cup {Chain(4, p)}
          /\ \A x \in DOMAIN kernel : kernel'[x] = kernel[x]
          /\ kernel'[Chain(4, p)] = 1
      <4>1. \A x \in DOMAIN kernel : kernel[x] \in 1..(doubles + 1)
        BY <1>2 DEF Few
      <4> QED
        BY <1>2, <3>1, <4>1 DEF SetToBag, (+)
    <3>3. Few(kernel', doubles)
      BY <1>2, <3>2 DEF Few
    <3>4. \A d : EntriesIn(kernel', d) = EntriesIn(kernel, d) /\ JumpsIn(kernel', d) = JumpsIn(kernel, d)
      BY <3>2, Kinds DEF EntriesIn, JumpsIn
    <3>5. \A d \in Targets : Chain(4, d) # Chain(4, p)
      BY <1>1, Kinds
    <3>6. \A x \in Jumps \cup Entries : x # Chain(4, p)
      BY Kinds
    <3>7. \A x \in Jumps \cup Entries : Copies(kernel', x) = Copies(kernel, x)
      BY <3>2, <3>6 DEF Copies
    <3> QED
      BY <1>1, <1>2, <3>2, <3>3, <3>4, <3>5, <3>6, <3>7
  <2> QED
    BY <2>1, <2>2
<1>5. Types'
  BY <1>3, <1>4 DEF IInv, Types
<1>6. Kept'
  <2>1. ASSUME flawless', NEW c \in Targets, OneJump(c)' PROVE Whole(c)'
    BY <1>3, <1>4, <2>1, WholeStays DEF IInv, Kept, OneJump
  <2> QED
    BY <1>3, <1>4, <2>1 DEF Kept
<1>7. ASSUME NEW c \in Targets, NEW jump \in JumpsInto(c)
      PROVE  /\ jump \in DOMAIN kernel' => jump \in DOMAIN kernel
             /\ Copies(kernel, jump) <= doubles => Copies(kernel', jump) <= doubles
             /\ EntriesIn(kernel', c) = EntriesIn(kernel, c)
             /\ \A x \in EntriesIn(kernel, c) : Copies(kernel', x) = Copies(kernel, x)
             /\ Chain(4, c) \in DOMAIN kernel' <=> Chain(4, c) \in DOMAIN kernel
             /\ InPlace(c, jump) => InPlace(c, jump)'
  <2>1. jump \in Jumps
    BY ItemIs
  <2>2. Copies(kernel', jump) = Copies(kernel, jump) \/ Copies(kernel', jump) = 0
    BY <1>4, <2>1
  <2>3. InPlace(c, jump) => InPlace(c, jump)'
    BY <1>3, <1>4 DEF InPlace, OneJump
  <2>4. EntriesIn(kernel, c) \subseteq Entries
    BY DEF EntriesIn
  <2> QED
    BY <1>2, <1>4, <2>1, <2>2, <2>3, <2>4
<1>8. ASSUME NEW c \in Targets, NEW jump \in JumpsInto(c), NEW adds, Building(c, jump, adds)
      PROVE  Building(c, jump, adds)'
  BY <1>3, <1>7, <1>8 DEF Building
<1>9. ASSUME NEW c \in Targets, NEW jump \in JumpsInto(c), NEW o, Tearing(c, jump, o)
      PROVE  Tearing(c, jump, o)'
  BY <1>3, <1>7, <1>9 DEF Tearing, OneJump
<1>10. ASSUME NEW c \in Targets, NEW jump \in JumpsInto(c)
       PROVE  /\ Working(c, jump) => Working(c, jump)'
              /\ Emptying(c, jump) => Emptying(c, jump)'
  <2>1. Filling(c, jump) => Filling(c, jump)'
    BY <1>3, <1>8 DEF Filling
  <2>2. Emptying(c, jump) => Emptying(c, jump)'
    BY <1>3, <1>9 DEF Emptying
  <2> QED
    BY <1>7, <2>1, <2>2 DEF Working
<1>11. ASSUME NEW jump \in JumpsInto(FORWARD_EXCLUSION_CHAIN)
       PROVE  ClearingBoth(jump) => ClearingBoth(jump)'
  BY <1>3, <1>9, Places DEF ClearingBoth
<1>12. Handler'
  <2>1. CASE running = "nothing"
    BY <1>3, <2>1 DEF IInv, Handler
  <2>2. CASE running = "redirect"
    <3>1. PICK jump : jump = RedirectJump
      OBVIOUS
    <3>2. arg \in Redirects /\ Working(REDIRECT_CHAIN, jump)
      BY <2>2, <3>1 DEF IInv, Handler
    <3>3. Working(REDIRECT_CHAIN, jump)'
      BY <1>10, <3>1, <3>2, Places
    <3> QED
      BY <1>3, <2>2, <3>1, <3>2, <3>3 DEF Handler
  <2>3. CASE running = "exclusion"
    <3>1. PICK jump : jump = Hook(arg)
      OBVIOUS
    <3>2. arg \in Exclusions /\ Working(FORWARD_EXCLUSION_CHAIN, jump)
      BY <2>3, <3>1 DEF IInv, Handler
    <3>3. Working(FORWARD_EXCLUSION_CHAIN, jump)'
      BY <1>10, <3>1, <3>2, Places
    <3>4. jump = Hook(arg')
      BY <1>3, <3>1
    <3> QED
      BY <1>3, <2>3, <3>2, <3>3, <3>4 DEF Handler
  <2>4. CASE running = "clear"
    <3>1. Clearing
      BY <2>4 DEF IInv, Handler
    <3>2. PICK jump : jump = Hook(arg.exclusion)
      OBVIOUS
    <3>3. jump = Hook(arg'.exclusion)
      BY <1>3, <3>2
    <3>4. ASSUME arg.exclusion # None PROVE jump \in JumpsInto(FORWARD_EXCLUSION_CHAIN) /\ InPlace(FORWARD_EXCLUSION_CHAIN, jump)'
      BY <1>7, <3>1, <3>2, <3>4, Places DEF Clearing
    <3>5. \/ arg.redirect = None /\ arg.exclusion = None /\ commands = <<>>
          \/ arg.redirect # None /\ arg.exclusion = None /\ Emptying(REDIRECT_CHAIN, RedirectJump)
          \/ arg.redirect = None /\ arg.exclusion # None /\ Emptying(FORWARD_EXCLUSION_CHAIN, jump)
          \/ arg.redirect # None /\ arg.exclusion # None /\ ClearingBoth(jump)
      BY <3>1, <3>2 DEF Clearing
    <3>6. \/ arg.redirect = None /\ arg.exclusion = None /\ commands = <<>>
          \/ arg.redirect # None /\ arg.exclusion = None /\ Emptying(REDIRECT_CHAIN, RedirectJump)'
          \/ arg.redirect = None /\ arg.exclusion # None /\ Emptying(FORWARD_EXCLUSION_CHAIN, jump)'
          \/ arg.redirect # None /\ arg.exclusion # None /\ ClearingBoth(jump)'
      <4>1. PICK first : first = RedirectJump
        OBVIOUS
      <4>2. Emptying(REDIRECT_CHAIN, first) => Emptying(REDIRECT_CHAIN, first)'
        BY <1>10, <4>1, Places
      <4> QED
        BY <1>10, <1>11, <3>4, <3>5, <4>1, <4>2, Places
    <3>7. Clearing'
      BY <1>3, <3>1, <3>3, <3>4, <3>6 DEF Clearing
    <3> QED
      BY <1>3, <2>4, <3>7 DEF Handler
  <2> QED
    BY <2>1, <2>2, <2>3, <2>4 DEF IInv, Handler
<1>13. Recalled'
  BY <1>3, <1>4 DEF IInv, Recalled, InPlace, OneJump, Hook
<1>14. Gone(REDIRECT_CHAIN) => Gone(REDIRECT_CHAIN)'
  BY <1>4, Places DEF Gone
<1>15. ASSUME NEW s \in Exclusions PROVE Torn(Hook(s)) => Torn(Hook(s))'
  BY <1>3, <1>4, <1>7, Places DEF Torn, Gone
<1> QED
  BY <1>3, <1>5, <1>6, <1>12, <1>13, <1>14, <1>15 DEF IInv, Nothing

\* A handler ends and what it did is on record.
LEMMA FinishStep ==
  ASSUME IInv, Finish
  PROVE  IInv'
<1>1. /\ running # "nothing" /\ ran = Len(commands) /\ kernel' = kernel /\ flawless' = flawless
      /\ doubles' = doubles /\ astray' = astray
      /\ running' = "nothing" /\ commands' = <<>> /\ ran' = 0 /\ timeouts' = 0
      /\ redirect' = (IF running = "redirect" THEN Recorded(arg) ELSE redirect)
      /\ exclusion' = (IF running = "exclusion" THEN Recorded(arg) ELSE exclusion)
      /\ cleared' = (IF running = "clear" THEN arg ELSE Nothing)
  BY DEF Finish, Unlock, history
<1>2. Handler /\ Types /\ Kept /\ Recalled
  BY DEF IInv
<1>3. Handler'
  BY <1>1 DEF Handler
<1>4. Types'
  <2>1. running = "redirect" => arg \in Redirects
    BY <1>2 DEF Handler
  <2>2. running = "exclusion" => arg \in Exclusions
    BY <1>2 DEF Handler
  <2>3. redirect' \in Redirects \cup {None} /\ exclusion' \in Exclusions \cup {None}
    BY <1>1, <1>2, <2>1, <2>2 DEF Types, Recorded
  <2>4. ran' \in 0..Len(commands') /\ timeouts' \in 0..ran'
    BY <1>1
  <2>5. DOMAIN kernel' \subseteq Items /\ flawless' \in BOOLEAN /\ doubles' \in Nat
        /\ (flawless' => timeouts' = 0 /\ doubles' = 0)
    BY <1>1, <1>2 DEF Types
  <2> QED
    BY <2>3, <2>4, <2>5 DEF Types
<1>5. Kept'
  BY <1>1, <1>2 DEF Kept, Whole, OneJump
<1>6. Recalled'
  <2>1. ASSUME running # "exclusion", exclusion # None
        PROVE  InPlace(FORWARD_EXCLUSION_CHAIN, Hook(exclusion))
    BY <1>2, <2>1 DEF Recalled
  <2>2. ASSUME running = "exclusion" PROVE InPlace(FORWARD_EXCLUSION_CHAIN, Hook(arg))
    BY <1>2, <2>2 DEF Handler, Working
  <2>3. CASE running = "exclusion"
    BY <1>1, <2>2, <2>3 DEF Recalled, Recorded, InPlace, OneJump, Hook
  <2>4. CASE running # "exclusion"
    BY <1>1, <2>1, <2>4 DEF Recalled, InPlace, OneJump, Hook
  <2> QED
    BY <2>3, <2>4
<1>7. ASSUME NEW c \in Targets, NEW jump, NEW o \in Nat, Tearing(c, jump, o), ran >= o + 3, flawless
      PROVE  /\ jump \notin DOMAIN kernel /\ EntriesIn(kernel, c) = {}
             /\ OneJump(c) => Chain(4, c) \notin DOMAIN kernel
  <2>1. ran >= o + 1 /\ ran >= o + 2
    BY <1>1, <1>2, <1>7 DEF Types
  <2> QED
    BY <1>7, <2>1 DEF Tearing
<1>8. ASSUME running = "clear"
      PROVE  /\ arg.exclusion \in Exclusions \cup {None}
             /\ flawless /\ arg.redirect # None => Gone(REDIRECT_CHAIN)
             /\ flawless /\ arg.exclusion # None => Torn(Hook(arg.exclusion))
  <2>1. Clearing
    BY <1>2, <1>8 DEF Handler
  <2>2. ASSUME NEW c \in Targets, NEW jump, Emptying(c, jump) PROVE Tearing(c, jump, 0) /\ ran >= 0 + 3
    <3>1. Len(commands) = 3
      BY <2>2, ClearAt DEF Emptying
    <3> QED
      BY <1>1, <2>2, <3>1 DEF Emptying
  <2>3. ASSUME NEW jump, ClearingBoth(jump)
        PROVE  /\ Tearing(REDIRECT_CHAIN, RedirectJump, 0) /\ ran >= 0 + 3
               /\ Tearing(FORWARD_EXCLUSION_CHAIN, jump, 3) /\ ran >= 3 + 3
    <3>1. Len(commands) = 6
      BY <2>3, BothAt DEF ClearingBoth, clear_forwarded_redirect
    <3> QED
      BY <1>1, <2>3, <3>1 DEF ClearingBoth
  <2>4. ASSUME flawless, arg.redirect # None PROVE Gone(REDIRECT_CHAIN)
    <3>1. Tearing(REDIRECT_CHAIN, RedirectJump, 0) /\ ran >= 0 + 3
      BY <2>1, <2>2, <2>3, <2>4, Places DEF Clearing
    <3>2. RedirectJump \notin DOMAIN kernel /\ Chain(4, REDIRECT_CHAIN) \notin DOMAIN kernel
      BY <1>7, <2>4, <3>1, Places DEF OneJump
    <3>3. JumpsIn(kernel, REDIRECT_CHAIN) = {}
      BY <3>2, Places DEF JumpsIn
    <3> QED
      BY <3>2, <3>3 DEF Gone
  <2>5. ASSUME flawless, arg.exclusion # None PROVE Torn(Hook(arg.exclusion))
    <3>1. PICK jump : jump = Hook(arg.exclusion)
      OBVIOUS
    <3>2. \E o \in Nat : Tearing(FORWARD_EXCLUSION_CHAIN, jump, o) /\ ran >= o + 3
      <4>1. CASE Emptying(FORWARD_EXCLUSION_CHAIN, jump)
        BY <2>2, <4>1, Places
      <4>2. CASE ClearingBoth(jump)
        BY <2>3, <4>2
      <4> QED
        BY <2>1, <2>5, <3>1, <4>1, <4>2 DEF Clearing
    <3>3. /\ jump \notin DOMAIN kernel /\ EntriesIn(kernel, FORWARD_EXCLUSION_CHAIN) = {}
          /\ OneJump(FORWARD_EXCLUSION_CHAIN) => Chain(4, FORWARD_EXCLUSION_CHAIN) \notin DOMAIN kernel
      BY <1>7, <2>5, <3>2, Places
    <3>4. ~astray => JumpsIn(kernel, FORWARD_EXCLUSION_CHAIN) \subseteq {jump}
      BY <2>1, <2>5, <3>1 DEF Clearing, InPlace, OneJump
    <3>5. ~astray => JumpsIn(kernel, FORWARD_EXCLUSION_CHAIN) = {}
      BY <3>3, <3>4 DEF JumpsIn
    <3> QED
      BY <3>1, <3>3, <3>5 DEF Torn, Gone, OneJump
  <2> QED
    BY <2>1, <2>4, <2>5 DEF Clearing
<1>9. CASE running = "clear"
  <2>1. cleared' = arg /\ flawless' = flawless /\ running' = "nothing"
    BY <1>1, <1>9
  <2>2. /\ cleared'.exclusion \in Exclusions \cup {None}
        /\ flawless' /\ cleared'.redirect # None => Gone(REDIRECT_CHAIN)'
        /\ flawless' /\ cleared'.exclusion # None => Torn(Hook(cleared.exclusion))'
    BY <1>1, <1>8, <1>9, <2>1 DEF Gone, Torn, Hook
  <2> QED
    BY <1>3, <1>4, <1>5, <1>6, <2>1, <2>2 DEF IInv
<1>10. CASE running # "clear"
  <2>1. cleared'.exclusion = None /\ cleared'.redirect = None /\ running' = "nothing"
    BY <1>1, <1>10 DEF Nothing
  <2> QED
    BY <1>3, <1>4, <1>5, <1>6, <2>1 DEF IInv
<1> QED
  BY <1>9, <1>10

-----------------------------------------------------------------------------
(* The theorems. *)

\* The daemon comes up to an empty kernel.
LEMMA Start ==
  ASSUME Init
  PROVE  IInv
<1>1. DOMAIN kernel = {}
  BY DEF Init, EmptyBag, SetToBag
<1>2. \A c : EntriesIn(kernel, c) = {} /\ JumpsIn(kernel, c) = {}
  BY <1>1 DEF EntriesIn, JumpsIn
<1>3. Types
  <2>1. ran \in 0..Len(commands) /\ timeouts \in 0..ran
    BY DEF Init
  <2> QED
    BY <1>1, <2>1 DEF Init, Types
<1>4. Handler
  BY DEF Init, Handler
<1>5. Kept
  BY <1>1, <1>2 DEF Kept, Few, Whole
<1>6. Recalled
  BY DEF Init, Recalled
<1> QED
  BY <1>3, <1>4, <1>5, <1>6 DEF Init, IInv, Nothing

\* Whatever runs, times out or dies, a handler is at a stage of its own work.
THEOREM Invariance == Spec => []IInv
<1>1. IInv /\ [Next]_vars => IInv'
  <2> SUFFICES ASSUME IInv, [Next]_vars PROVE IInv'
    OBVIOUS
  <2>1. ASSUME NEW s \in Redirects, ApplyForwardedRedirect(s) PROVE IInv'
    BY <2>1, RedirectStep
  <2>2. ASSUME NEW s \in Exclusions, ApplyForwardedExclusion(s) PROVE IInv'
    BY <2>2, ExclusionStep
  <2>3. CASE ClearCarveOuts
    BY <2>3, ClearStep
  <2>4. CASE Exec
    BY <2>4, ExecStep
  <2>5. CASE Finish
    BY <2>5, FinishStep
  <2>6. CASE Crash
    <3>1. /\ kernel' = kernel /\ flawless' = flawless /\ doubles' = doubles /\ astray' = astray
          /\ redirect' = None /\ exclusion' = None
          /\ running' = "nothing" /\ commands' = <<>> /\ ran' = 0 /\ timeouts' = 0 /\ cleared' = Nothing
      BY <2>6 DEF Crash, Unlock, history
    <3>2. Types'
      <4>1. ran' \in 0..Len(commands') /\ timeouts' \in 0..ran'
        BY <3>1
      <4>2. DOMAIN kernel' \subseteq Items /\ flawless' \in BOOLEAN /\ doubles' \in Nat
            /\ (flawless' => timeouts' = 0 /\ doubles' = 0)
        BY <3>1 DEF IInv, Types
      <4> QED
        BY <3>1, <4>1, <4>2 DEF Types
    <3>3. Handler'
      BY <3>1 DEF Handler
    <3>4. Kept'
      BY <3>1 DEF IInv, Kept, Whole, OneJump
    <3>5. Recalled'
      BY <3>1 DEF Recalled
    <3> QED
      BY <3>1, <3>2, <3>3, <3>4, <3>5 DEF IInv, Nothing
  <2>7. ASSUME NEW p \in PreChains, AppTproxy(p) PROVE IInv'
    BY <2>7, AppStep
  <2>8. CASE UNCHANGED vars
    <3>1. UNCHANGED <<kernel, redirect, exclusion, running, arg, commands, ran, timeouts, flawless,
                      doubles, astray, cleared>>
      BY <2>8 DEF vars
    <3>2. Types' /\ Kept' /\ Recalled'
      BY <3>1 DEF IInv, Types, Kept, Few, Recalled, InPlace, OneJump, Whole, Hook
    <3>3. Handler'
      <4>1. Handler
        BY DEF IInv
      <4>2. \A c, j : (Working(c, j) => Working(c, j)') /\ (Emptying(c, j) => Emptying(c, j)')
        BY <3>1 DEF Working, InPlace, OneJump, Filling, Emptying, Building, Tearing
      <4>3. \A j : ClearingBoth(j) => ClearingBoth(j)'
        BY <3>1 DEF ClearingBoth, Tearing, OneJump
      <4>4. Clearing => Clearing'
        BY <3>1, <4>2, <4>3 DEF Clearing, InPlace, OneJump, Hook
      <4> QED
        BY <3>1, <4>1, <4>2, <4>4 DEF Handler, Hook
    <3> QED
      BY <3>1, <3>2, <3>3 DEF IInv, Gone, Torn, Hook
  <2> QED
    BY <2>1, <2>2, <2>3, <2>4, <2>5, <2>6, <2>7, <2>8 DEF Next
<1> QED
  BY <1>1, Start, PTL DEF Spec

\* CopiesCostTwoTimeouts (the comment of CarveOut says what it is), however
\* many commands of however many handlers time out.
THEOREM CopiesCostTwoTimeoutsCorrect == Spec => []CopiesCostTwoTimeouts
<1>1. ASSUME IInv PROVE CopiesCostTwoTimeouts
  <2>1. doubles \in Nat /\ Few(kernel, doubles)
    BY <1>1 DEF IInv, Types, Kept
  <2> QED
    BY <2>1 DEF Few, CopiesCostTwoTimeouts, BagToSet
<1> QED
  BY <1>1, Invariance, PTL

\* HookedIsWhole, for any requests and any number of pre-chains.
THEOREM HookedIsWholeCorrect == Spec => []HookedIsWhole
<1>1. ASSUME IInv PROVE HookedIsWhole
  <2>1. ASSUME flawless PROVE Whole(REDIRECT_CHAIN)
    BY <1>1, <2>1, Places DEF IInv, Kept, OneJump
  <2>2. ASSUME flawless, ~astray PROVE Whole(FORWARD_EXCLUSION_CHAIN)
    BY <1>1, <2>2, Places DEF IInv, Kept, OneJump
  <2>3. flawless => (JumpsTo(REDIRECT_CHAIN) # {} =>
                       EntriesOf(REDIRECT_CHAIN) \in {RedirectEntries(s) : s \in Asked(Redirects)})
    BY <1>1, <2>1, Places, SeenAs DEF Whole, Wholes
  <2>4. flawless /\ ~astray =>
          (JumpsTo(FORWARD_EXCLUSION_CHAIN) # {} =>
             EntriesOf(FORWARD_EXCLUSION_CHAIN) \in {ExclusionEntries(s) : s \in Asked(Exclusions)})
    BY <1>1, <2>2, Places, SeenAs DEF Whole, Wholes
  <2> QED
    BY <2>3, <2>4 DEF HookedIsWhole
<1> QED
  BY <1>1, Invariance, PTL

\* TornDown, for any requests and any number of pre-chains: what is on record
\* is what is hooked in.
THEOREM TornDownCorrect == Spec => []TornDown
<1>1. ASSUME IInv PROVE TornDown
  <2>1. \A c \in Targets : Gone(c) => JumpsTo(c) = {} /\ ~HasChain(kernel, 4, c)
    BY <1>1, SeenAs DEF Gone, HasChain, BagIn, BagToSet, Targets, BuiltIn, REDIRECT_CHAIN, FORWARD_EXCLUSION_CHAIN
  <2>2. ASSUME flawless, cleared.redirect # None
        PROVE  JumpsTo(REDIRECT_CHAIN) = {} /\ ~HasChain(kernel, 4, REDIRECT_CHAIN)
    BY <1>1, <2>1, <2>2, Places DEF IInv
  <2>3. ASSUME flawless, cleared.exclusion # None
        PROVE  /\ ~BagIn(ExclusionJump(pre_chain_or_default(cleared.exclusion)), kernel)
               /\ EntriesOf(FORWARD_EXCLUSION_CHAIN) = {}
               /\ ~astray => /\ JumpsTo(FORWARD_EXCLUSION_CHAIN) = {}
                             /\ ~HasChain(kernel, 4, FORWARD_EXCLUSION_CHAIN)
    <3>1. Torn(Hook(cleared.exclusion))
      BY <1>1, <2>3 DEF IInv
    <3>2. EntriesOf(FORWARD_EXCLUSION_CHAIN) = EntriesIn(kernel, FORWARD_EXCLUSION_CHAIN)
      BY <1>1, Places, SeenAs
    <3> QED
      BY <2>1, <3>1, <3>2, Places DEF Torn, Hook, BagIn, BagToSet
  <2> QED
    BY <2>2, <2>3 DEF TornDown
<1> QED
  BY <1>1, Invariance, PTL
=============================================================================
