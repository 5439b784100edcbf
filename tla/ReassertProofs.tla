--------------------------- MODULE ReassertProofs ---------------------------
(***************************************************************************)
(* MirrorsMain for any set of routes and devices, any datagram size and    *)
(* any number of changes.  Nothing is claimed of a round under which the   *)
(* network changes: it leaves news behind and is followed by another.  In  *)
(* a round without news the main table stands still, and what has been     *)
(* read of it, and what of that has been added, is a matter of positions.  *)
(***************************************************************************)
EXTENDS Reassert, FiniteSetTheorems, SequenceTheorems, WellFoundedInduction, TLAPS

\* What the network is always like: no route twice, and none of a device that
\* is not there.
Network ==
  /\ links \subseteq Devs
  /\ main \in [Families -> Seq(Routes)]
  /\ \A f \in Families : \A i, j \in DOMAIN main[f] :
       /\ main[f][i].dev \in links
       /\ main[f][i] = main[f][j] => i = j

\* What a dump can show, and what it can be read as.
Shown == Others \cup {Entry(r) : r \in Routes}
Readable == {[via |-> e.via, dev |-> d, metric |-> e.metric] : e \in Shown, d \in Devs \cup {NoDev}}

Places ==
  /\ fam \in Families /\ news \in BOOLEAN
  /\ pc \in {"waiting", "flushing", "asking", "receiving", "adding"}
  /\ failed \in [Families -> BOOLEAN]
  /\ DOMAIN mirror = Families
  /\ datagram \in Seq(Shown) /\ buf \in Seq(Shown) /\ routes \in Seq(Readable) /\ shown \in Nat

\* What of the first n routes of a table can be mirrored.
FirstOf(s, n) == {s[i] : i \in {k \in 1..n : \A j \in 1..(k - 1) : s[j].metric # s[k].metric}}

Mirrored(f) == mirror[f] = IF failed[f] THEN {} ELSE FirstOf(main[f], Len(main[f]))

\* Routes among the first n entries of a dump of f.
Upto(f, n) ==
  IF n <= Len(Ahead) THEN 0
  ELSE IF n <= Len(Ahead) + Len(main[f]) THEN n - Len(Ahead) ELSE Len(main[f])

\* n entries are parsed; behind them come those in buf, those in the datagram,
\* and what the kernel has still to show.
Reading ==
  \E n \in 0..Len(Dump(fam)) :
    /\ shown = n + Len(buf) + Len(datagram) /\ shown <= Len(Dump(fam))
    /\ datagram = <<>> => shown = Len(Dump(fam))
    /\ \A i \in 1..Len(buf) : buf[i] = Dump(fam)[n + i]
    /\ \A i \in 1..Len(datagram) : datagram[i] = Dump(fam)[n + Len(buf) + i]
    /\ Len(routes) = Upto(fam, n) /\ \A i \in 1..Upto(fam, n) : routes[i] = main[fam][i]

\* The first n routes are through; those in routes are the others.
Adding ==
  \E n \in 0..Len(main[fam]) :
    /\ Len(routes) = Len(main[fam]) - n
    /\ \A i \in 1..Len(routes) : routes[i] = main[fam][n + i]
    /\ mirror[fam] = FirstOf(main[fam], n)

\* A round since whose beginning nothing has happened.
Still ==
  /\ pc = "waiting" => \A f \in Families : Mirrored(f)
  /\ pc = "flushing" => (fam = 6 => mirror[4] = {}) /\ \A f \in Families : ~failed[f]
  /\ pc \in {"asking", "receiving", "adding"} =>
       /\ fam = 4 => mirror[6] = {} /\ ~failed[6]
       /\ fam = 6 => Mirrored(4)
  /\ pc \in {"asking", "receiving"} => mirror[fam] = {} /\ ~failed[fam]
  /\ pc = "receiving" => Reading
  /\ pc = "adding" => IF failed[fam] THEN mirror[fam] = {} /\ routes = <<>> ELSE Adding

IInv == Network /\ Places /\ (~news => Still)
-----------------------------------------------------------------------------
(* Sequences. *)

\* What is where after an insertion.
LEMMA Inserted ==
  ASSUME NEW S, NEW s \in Seq(S), NEW r \in S, NEW k \in 0..Len(s)
  PROVE  /\ InsertAfter(s, k, r) \in Seq(S) /\ Len(InsertAfter(s, k, r)) = Len(s) + 1
         /\ \A i \in 1..k : InsertAfter(s, k, r)[i] = s[i]
         /\ InsertAfter(s, k, r)[k + 1] = r
         /\ \A i \in (k + 2)..(Len(s) + 1) : InsertAfter(s, k, r)[i] = s[i - 1]
<1> DEFINE a == SubSeq(s, 1, k)
           c == SubSeq(s, k + 1, Len(s))
           m == a \o <<r>>
<1>1. Len(s) \in Nat /\ k \in Nat /\ k <= Len(s)
  OBVIOUS
<1>2. a \in Seq(S) /\ Len(a) = k /\ \A i \in 1..k : a[i] = s[i]
  BY <1>1
<1>3. c \in Seq(S) /\ Len(c) = Len(s) - k /\ \A i \in 1..(Len(s) - k) : c[i] = s[k + i]
  BY <1>1
<1> HIDE DEF a, c
<1>4. m \in Seq(S) /\ Len(m) = k + 1 /\ (\A i \in 1..k : m[i] = a[i]) /\ m[k + 1] = r
  BY <1>1, <1>2
<1> HIDE DEF m
<1>5. /\ m \o c \in Seq(S) /\ Len(m \o c) = Len(s) + 1
      /\ \A i \in 1..(k + 1) : (m \o c)[i] = m[i]
      /\ \A i \in (k + 2)..(Len(s) + 1) : (m \o c)[i] = c[i - (k + 1)]
  BY <1>1, <1>3, <1>4
<1>6. \A i \in (k + 2)..(Len(s) + 1) : c[i - (k + 1)] = s[i - 1]
  <2> SUFFICES ASSUME NEW i \in (k + 2)..(Len(s) + 1) PROVE c[i - (k + 1)] = s[i - 1]
    OBVIOUS
  <2>1. i - (k + 1) \in 1..(Len(s) - k) /\ k + (i - (k + 1)) = i - 1
    BY <1>1
  <2> QED
    BY <2>1, <1>3
<1>7. \A i \in 1..k : i \in 1..(k + 1)
  BY <1>1
<1>8. k + 1 \in 1..(k + 1)
  BY <1>1
<1>9. /\ m \o c \in Seq(S) /\ Len(m \o c) = Len(s) + 1
      /\ \A i \in 1..k : (m \o c)[i] = s[i]
      /\ (m \o c)[k + 1] = r
      /\ \A i \in (k + 2)..(Len(s) + 1) : (m \o c)[i] = s[i - 1]
  BY <1>2, <1>4, <1>5, <1>6, <1>7, <1>8
<1> QED
  BY <1>9 DEF m, a, c, InsertAfter

\* What is where after a removal.
LEMMA Removed ==
  ASSUME NEW S, NEW s \in Seq(S), NEW k \in 1..Len(s)
  PROVE  /\ RemoveAt(s, k) \in Seq(S) /\ Len(RemoveAt(s, k)) = Len(s) - 1
         /\ \A i \in 1..(k - 1) : RemoveAt(s, k)[i] = s[i]
         /\ \A i \in k..(Len(s) - 1) : RemoveAt(s, k)[i] = s[i + 1]
<1> DEFINE a == SubSeq(s, 1, k - 1)
           c == SubSeq(s, k + 1, Len(s))
<1>1. Len(s) \in Nat /\ k \in Nat /\ k >= 1 /\ k <= Len(s) /\ k - 1 \in Nat
  OBVIOUS
<1>2. a \in Seq(S) /\ Len(a) = k - 1 /\ \A i \in 1..(k - 1) : a[i] = s[i]
  BY <1>1
<1>3. c \in Seq(S) /\ Len(c) = Len(s) - k /\ \A i \in 1..(Len(s) - k) : c[i] = s[k + i]
  BY <1>1
<1> HIDE DEF a, c
<1>4. /\ a \o c \in Seq(S) /\ Len(a \o c) = Len(s) - 1
      /\ \A i \in 1..(k - 1) : (a \o c)[i] = a[i]
      /\ \A i \in k..(Len(s) - 1) : (a \o c)[i] = c[i - (k - 1)]
  <2>1. Len(a) + Len(c) = Len(s) - 1 /\ Len(a) = k - 1
    BY <1>1, <1>2, <1>3
  <2>2. /\ a \o c \in Seq(S) /\ Len(a \o c) = Len(a) + Len(c)
        /\ \A i \in 1..(Len(a) + Len(c)) : (a \o c)[i] = IF i <= Len(a) THEN a[i] ELSE c[i - Len(a)]
    <3>1. a \in Seq(S) /\ c \in Seq(S)
      BY <1>2, <1>3
    <3> QED
      BY <3>1, ConcatProperties
  <2>3. \A i \in 1..(Len(s) - 1) : (a \o c)[i] = IF i <= k - 1 THEN a[i] ELSE c[i - (k - 1)]
    BY <2>1, <2>2
  <2> HIDE DEF a, c
  <2> DEFINE x == a \o c
  <2>4. \A i \in 1..(k - 1) : i \in 1..(Len(s) - 1) /\ i <= k - 1
    BY <1>1
  <2>5. \A i \in k..(Len(s) - 1) : i \in 1..(Len(s) - 1) /\ ~(i <= k - 1)
    BY <1>1
  <2> QED
    BY <2>1, <2>2, <2>3, <2>4, <2>5
<1>5. \A i \in k..(Len(s) - 1) : c[i - (k - 1)] = s[i + 1]
  <2> SUFFICES ASSUME NEW i \in k..(Len(s) - 1) PROVE c[i - (k - 1)] = s[i + 1]
    OBVIOUS
  <2>1. i - (k - 1) \in 1..(Len(s) - k) /\ k + (i - (k - 1)) = i + 1
    BY <1>1
  <2> QED
    BY <2>1, <1>3
<1>6. /\ a \o c \in Seq(S) /\ Len(a \o c) = Len(s) - 1
      /\ \A i \in 1..(k - 1) : (a \o c)[i] = s[i]
      /\ \A i \in k..(Len(s) - 1) : (a \o c)[i] = s[i + 1]
  BY <1>2, <1>4, <1>5
<1> QED
  BY <1>6 DEF a, c, RemoveAt

\* A table of which every route is of an interface that is there, each once.
Proper(s, up) ==
  /\ s \in Seq(Routes)
  /\ \A i \in DOMAIN s : s[i].dev \in up
  /\ \A i, j \in DOMAIN s : s[i] = s[j] => i = j

\* A default that is new and of a device that is there may come.
LEMMA ProperAdd ==
  ASSUME NEW up, NEW s, Proper(s, up), NEW r \in Routes, r.dev \in up, ~Holds(s, r), NEW k \in 0..Len(s)
  PROVE  Proper(InsertAfter(s, k, r), up)
<1>0. PICK t : t = InsertAfter(s, k, r)
  OBVIOUS
<1>1. /\ s \in Seq(Routes) /\ Len(s) \in Nat /\ DOMAIN s = 1..Len(s) /\ k \in Nat /\ k <= Len(s)
      /\ \A i \in 1..Len(s) : s[i].dev \in up /\ s[i] # r
      /\ \A i, j \in 1..Len(s) : s[i] = s[j] => i = j
  BY DEF Proper, Holds
<1>2. /\ t \in Seq(Routes) /\ Len(t) = Len(s) + 1
      /\ \A i \in 1..k : t[i] = s[i]
      /\ t[k + 1] = r
      /\ \A i \in (k + 2)..(Len(s) + 1) : t[i] = s[i - 1]
  <2>1. s \in Seq(Routes)
    BY <1>1
  <2>2. t \in Seq(Routes) /\ Len(t) = Len(s) + 1
    BY <2>1, <1>0, Inserted
  <2>3. \A i \in 1..k : t[i] = s[i]
    BY <2>1, <1>0, Inserted
  <2>4. t[k + 1] = r
    BY <2>1, <1>0, Inserted
  <2>5. \A i \in (k + 2)..(Len(s) + 1) : t[i] = s[i - 1]
    BY <2>1, <1>0, Inserted
  <2> QED
    BY <2>2, <2>3, <2>4, <2>5
<1> DEFINE from(i) == IF i <= k THEN i ELSE i - 1
<1>3. DOMAIN t = 1..(Len(s) + 1)
  BY <1>2
<1>4. ASSUME NEW i \in 1..(Len(s) + 1), i # k + 1 PROVE from(i) \in 1..Len(s) /\ t[i] = s[from(i)]
  <2>1. CASE i <= k
    BY <2>1, <1>1, <1>2
  <2>2. CASE i > k
    <3>1. i \in (k + 2)..(Len(s) + 1) /\ i - 1 \in 1..Len(s) /\ ~(i <= k)
      BY <2>2, <1>1, <1>4
    <3> QED
      BY <3>1, <1>2
  <2> QED
    BY <2>1, <2>2, <1>1
<1>5. \A i, j \in 1..(Len(s) + 1) : i # k + 1 /\ j # k + 1 /\ from(i) = from(j) => i = j
  BY <1>1
<1> HIDE DEF from
<1>6. \A i \in 1..(Len(s) + 1) : t[i].dev \in up
  BY <1>1, <1>2, <1>4
<1>7. \A i, j \in 1..(Len(s) + 1) : t[i] = t[j] => i = j
  BY <1>1, <1>2, <1>4, <1>5
<1> QED
  BY <1>0, <1>2, <1>3, <1>6, <1>7 DEF Proper

\* Any default may go.
LEMMA ProperDel ==
  ASSUME NEW up, NEW s, Proper(s, up), NEW k \in DOMAIN s
  PROVE  Proper(RemoveAt(s, k), up)
<1>0. PICK t : t = RemoveAt(s, k)
  OBVIOUS
<1>1. /\ s \in Seq(Routes) /\ Len(s) \in Nat /\ DOMAIN s = 1..Len(s) /\ k \in 1..Len(s)
      /\ \A i \in 1..Len(s) : s[i].dev \in up
      /\ \A i, j \in 1..Len(s) : s[i] = s[j] => i = j
  BY DEF Proper
<1>2. /\ t \in Seq(Routes) /\ Len(t) = Len(s) - 1
      /\ \A i \in 1..(k - 1) : t[i] = s[i]
      /\ \A i \in k..(Len(s) - 1) : t[i] = s[i + 1]
  <2>1. s \in Seq(Routes) /\ k \in 1..Len(s)
    BY <1>1
  <2> QED
    BY <2>1, <1>0, Removed
<1> DEFINE from(i) == IF i < k THEN i ELSE i + 1
<1>3. DOMAIN t = 1..(Len(s) - 1)
  BY <1>2
<1>4. ASSUME NEW i \in 1..(Len(s) - 1) PROVE from(i) \in 1..Len(s) /\ t[i] = s[from(i)]
  <2>1. CASE i < k
    <3>1. i \in 1..(k - 1) /\ i \in 1..Len(s)
      BY <2>1, <1>1
    <3> QED
      BY <3>1, <2>1, <1>2
  <2>2. CASE ~(i < k)
    <3>1. i \in k..(Len(s) - 1) /\ i + 1 \in 1..Len(s)
      BY <2>2, <1>1
    <3> QED
      BY <3>1, <2>2, <1>2
  <2> QED
    BY <2>1, <2>2
<1>5. \A i, j \in 1..(Len(s) - 1) : from(i) = from(j) => i = j
  BY <1>1
<1> HIDE DEF from
<1>6. \A i \in 1..(Len(s) - 1) : t[i].dev \in up
  BY <1>1, <1>4
<1>7. \A i, j \in 1..(Len(s) - 1) : t[i] = t[j] => i = j
  BY <1>1, <1>4, <1>5
<1> QED
  BY <1>0, <1>2, <1>3, <1>6, <1>7 DEF Proper

\* A device may go, and takes its defaults along.
LEMMA ProperWithout ==
  ASSUME NEW up, NEW s, Proper(s, up), NEW d, NEW t \in Without(s, d)
  PROVE  Proper(t, up \ {d})
<1> DEFINE kept == {i \in DOMAIN s : s[i].dev # d}
           n == Cardinality(kept)
<1>1. /\ s \in Seq(Routes) /\ DOMAIN s = 1..Len(s) /\ Len(s) \in Nat
      /\ \A i \in 1..Len(s) : s[i].dev \in up
      /\ \A i, j \in 1..Len(s) : s[i] = s[j] => i = j
  BY DEF Proper
<1>2. n \in Nat
  <2>1. IsFiniteSet(1..Len(s)) /\ kept \subseteq 1..Len(s)
    BY <1>1, FS_Interval
  <2> QED
    BY <2>1, FS_Subset, FS_CardinalityType
<1>3. PICK p \in [1..n -> kept] : (\A j, k \in 1..n : j < k => p[j] < p[k]) /\ t = [k \in 1..n |-> s[p[k]]]
  BY DEF Without
<1>4. \A k \in 1..n : p[k] \in 1..Len(s) /\ s[p[k]].dev # d
  BY <1>1, <1>3
<1> HIDE DEF kept, n
<1>5. t \in Seq(Routes) /\ DOMAIN t = 1..n
  BY <1>1, <1>2, <1>3, <1>4
<1>6. \A k \in 1..n : t[k] = s[p[k]]
  BY <1>3
<1>7. ASSUME NEW i \in 1..n, NEW j \in 1..n, t[i] = t[j] PROVE i = j
  <2>1. p[i] = p[j]
    BY <1>1, <1>4, <1>6, <1>7
  <2>2. p[i] \in Nat /\ ~(p[i] < p[j]) /\ ~(p[j] < p[i])
    BY <2>1, <1>1, <1>4
  <2> QED
    BY <2>2, <1>2, <1>3
<1>8. \A k \in 1..n : t[k].dev \in up \ {d}
  BY <1>1, <1>4, <1>6
<1> QED
  BY <1>5, <1>7, <1>8 DEF Proper
\* Head and tail by index.
LEMMA Rest ==
  ASSUME NEW S, NEW s \in Seq(S), s # <<>>
  PROVE  /\ Len(s) \in Nat /\ Len(s) >= 1
         /\ Head(s) = s[1] /\ Head(s) \in S
         /\ Tail(s) \in Seq(S) /\ Len(Tail(s)) = Len(s) - 1
         /\ \A i \in 1..(Len(s) - 1) : Tail(s)[i] = s[i + 1]
<1>1. Len(s) \in Nat /\ Len(s) >= 1
  <2>1. Len(s) \in Nat /\ Len(s) # 0
    BY EmptySeq
  <2> QED
    BY <2>1
<1>2. Head(s) = s[1] /\ Head(s) \in S
  BY <1>1, HeadTailProperties
<1>3. Tail(s) \in Seq(S) /\ Len(Tail(s)) = Len(s) - 1
  BY <1>1, HeadTailProperties
<1>4. \A i \in 1..(Len(s) - 1) : Tail(s)[i] = s[i + 1]
  BY <1>1, <1>3, HeadTailProperties
<1> QED
  BY <1>1, <1>2, <1>3, <1>4

\* One more at the end, by index.
LEMMA Appended ==
  ASSUME NEW S, NEW s \in Seq(S), NEW x \in S
  PROVE  /\ s \o <<x>> \in Seq(S) /\ Len(s \o <<x>>) = Len(s) + 1
         /\ \A i \in 1..Len(s) : (s \o <<x>>)[i] = s[i]
         /\ (s \o <<x>>)[Len(s) + 1] = x
OBVIOUS
-----------------------------------------------------------------------------
(* The network. *)

\* What the network keeps to, family by family.
LEMMA NetworkIs ==
  Network <=> links \subseteq Devs /\ main \in [Families -> Seq(Routes)] /\ \A f \in Families : Proper(main[f], links)
BY DEF Network, Proper

\* No step of daemon or network breaks what the network keeps to.
LEMMA NetworkStep == ASSUME Network, [Next]_vars PROVE Network'
<1>1. /\ links \subseteq Devs /\ main \in [Families -> Seq(Routes)]
      /\ \A f \in Families : Proper(main[f], links)
  BY NetworkIs
<1>2. ASSUME UNCHANGED <<links, main>> PROVE Network'
  BY <1>2 DEF Network
<1>3. CASE Rewrite \/ UNCHANGED vars
  BY <1>2, <1>3 DEF Rewrite, Begin, FlushTable, SendRequest, Receive, Parse, AddRoute, NextFamily, vars, network
<1>4. ASSUME NEW f \in Families, NEW s, main' = [main EXCEPT ![f] = s], links' = links, Proper(s, links)
      PROVE  Network'
  <2>1. \A g \in Families : main'[g] = IF g = f THEN s ELSE main[g]
    BY <1>1, <1>4
  <2>2. main' \in [Families -> Seq(Routes)]
    BY <1>1, <1>4 DEF Proper
  <2>3. \A g \in Families : Proper(main'[g], links')
    BY <2>1, <1>1, <1>4
  <2> QED
    BY <2>2, <2>3, <1>1, <1>4 DEF Network, Proper
<1>5. ASSUME NEW f \in Families, NEW r \in Routes, AddDefault(f, r) PROVE Network'
  <2>1. PICK k \in 0..Len(main[f]) :
          main' = [main EXCEPT ![f] = InsertAfter(main[f], k, r)]
    BY <1>5 DEF AddDefault
  <2>2. Proper(InsertAfter(main[f], k, r), links) /\ links' = links
    BY <1>1, <1>5, ProperAdd DEF AddDefault
  <2> QED
    BY <2>1, <2>2, <1>4
<1>6. ASSUME NEW f \in Families, NEW r \in Routes, DelDefault(f, r) PROVE Network'
  <2>1. PICK k \in DOMAIN main[f] :
          main' = [main EXCEPT ![f] = RemoveAt(main[f], k)]
    BY <1>6 DEF DelDefault
  <2>2. Proper(RemoveAt(main[f], k), links) /\ links' = links
    BY <1>1, <1>6, ProperDel DEF DelDefault
  <2> QED
    BY <2>1, <2>2, <1>4
<1>7. ASSUME NEW d \in Devs, LinkDown(d) PROVE Network'
  <2>1. PICK left4 \in Without(main[4], d), left6 \in Without(main[6], d) :
          main' = [f \in Families |-> IF f = 4 THEN left4 ELSE left6]
    BY <1>7 DEF LinkDown
  <2>2. links' = links \ {d} /\ 4 \in Families /\ 6 \in Families /\ Families = {4, 6}
    BY <1>7 DEF LinkDown, Families
  <2>3. Proper(left4, links') /\ Proper(left6, links')
    BY <2>2, <1>1, ProperWithout
  <2>4. \A f \in Families : Proper(main'[f], links')
    BY <2>1, <2>2, <2>3
  <2>5. main' \in [Families -> Seq(Routes)]
    BY <2>1, <2>3 DEF Proper
  <2> QED
    BY <2>2, <2>4, <2>5, <1>1 DEF Network, Proper
<1>8. ASSUME NEW d \in Devs, LinkUp(d) PROVE Network'
  <2>1. links' = links \cup {d} /\ main' = main
    BY <1>8 DEF LinkUp
  <2> QED
    BY <2>1, <1>1 DEF Network, Proper
<1> QED
  BY <1>3, <1>5, <1>6, <1>7, <1>8 DEF Next, Change
-----------------------------------------------------------------------------
(* A dump. *)

\* The defaults of the main table, in their order, with nothing but what is
\* none before and after them.
LEMMA DumpIs ==
  ASSUME Network, NEW f \in Families
  PROVE  /\ Dump(f) \in Seq(Shown) /\ Len(main[f]) \in Nat /\ Len(Ahead) \in Nat /\ Len(After) \in Nat
         /\ Len(Dump(f)) = Len(Ahead) + Len(main[f]) + Len(After)
         /\ \A i \in 1..Len(Dump(f)) :
              IF i <= Len(Ahead) \/ i > Len(Ahead) + Len(main[f]) THEN Dump(f)[i] \in Others
              ELSE Dump(f)[i] = Entry(main[f][i - Len(Ahead)])
<1> DEFINE m == [i \in DOMAIN main[f] |-> Entry(main[f][i])]
           am == Ahead \o m
           l == Len(main[f])
           a == Len(Ahead)
           z == Len(After)
<1>1. main[f] \in Seq(Routes) /\ DOMAIN main[f] = 1..l /\ l \in Nat
  BY DEF Network
<1>2. m \in Seq(Shown) /\ Len(m) = l /\ \A i \in 1..l : m[i] = Entry(main[f][i])
  <2>1. \A i \in 1..l : Entry(main[f][i]) \in Shown
    BY <1>1 DEF Shown
  <2> QED
    BY <2>1, <1>1
<1>3. /\ Ahead \in Seq(Shown) /\ After \in Seq(Shown) /\ a \in Nat /\ z \in Nat
      /\ (\A i \in 1..a : Ahead[i] \in Others) /\ (\A i \in 1..z : After[i] \in Others)
  BY ReassertAssumption DEF Shown
<1> HIDE DEF m, a, l, z
<1>4. /\ am \in Seq(Shown) /\ Len(am) = a + l
      /\ \A i \in 1..(a + l) : am[i] = IF i <= a THEN Ahead[i] ELSE m[i - a]
  BY <1>2, <1>3, ConcatProperties DEF a
<1> HIDE DEF am
<1>5. /\ am \o After \in Seq(Shown) /\ Len(am \o After) = a + l + z
      /\ \A i \in 1..(a + l + z) : (am \o After)[i] = IF i <= a + l THEN am[i] ELSE After[i - (a + l)]
  <2>1. am \in Seq(Shown) /\ After \in Seq(Shown) /\ Len(am) = a + l /\ Len(After) = z
    BY <1>3, <1>4 DEF z
  <2>2. /\ am \o After \in Seq(Shown) /\ Len(am \o After) = Len(am) + Len(After)
        /\ \A i \in 1..(Len(am) + Len(After)) :
             (am \o After)[i] = IF i <= Len(am) THEN am[i] ELSE After[i - Len(am)]
    BY <2>1, ConcatProperties
  <2> QED
    BY <2>1, <2>2
<1>6. Dump(f) = am \o After
  BY DEF Dump, am, m
<1>7. ASSUME NEW i \in 1..(a + l + z)
      PROVE  IF i <= a \/ i > a + l THEN Dump(f)[i] \in Others ELSE Dump(f)[i] = Entry(main[f][i - a])
  <2>1. CASE i <= a
    <3>1. i \in 1..(a + l) /\ i \in 1..a /\ i <= a + l
      BY <2>1, <1>1, <1>3
    <3>2. Dump(f)[i] = Ahead[i]
      BY <3>1, <2>1, <1>4, <1>5, <1>6
    <3> QED
      BY <3>1, <3>2, <2>1, <1>3
  <2>2. CASE i > a + l
    <3>1. ~(i <= a + l) /\ i - (a + l) \in 1..z
      BY <2>2, <1>1, <1>3
    <3>2. Dump(f)[i] = After[i - (a + l)]
      BY <3>1, <1>5, <1>6
    <3> QED
      BY <3>1, <3>2, <2>2, <1>3
  <2>3. CASE ~(i <= a) /\ ~(i > a + l)
    <3>1. i <= a + l /\ i \in 1..(a + l) /\ i - a \in 1..l
      BY <2>3, <1>1, <1>3
    <3>2. Dump(f)[i] = am[i] /\ am[i] = m[i - a]
      BY <3>1, <2>3, <1>4, <1>5, <1>6
    <3> QED
      BY <3>1, <3>2, <2>3, <1>2
  <2> QED
    BY <2>1, <2>2, <2>3
<1>8. Dump(f) \in Seq(Shown) /\ Len(Dump(f)) = a + l + z
  BY <1>5, <1>6
<1>9. \A i \in 1..Len(Dump(f)) :
        IF i <= a \/ i > a + l THEN Dump(f)[i] \in Others ELSE Dump(f)[i] = Entry(main[f][i - a])
  BY <1>7, <1>8
<1>10. Dump(f) \in Seq(Shown) /\ l \in Nat /\ a \in Nat /\ z \in Nat
  BY <1>1, <1>3, <1>8
<1> QED
  BY <1>8, <1>9, <1>10, Zenon DEF a, l, z

\* A datagram is the next stretch of it, and empty only when nothing is left.
LEMMA DatagramIs ==
  ASSUME Network, NEW f \in Families, NEW from \in Nat, NEW d \in Datagrams(f, from)
  PROVE  /\ d \in Seq(Shown) /\ Len(d) \in Nat
         /\ from <= Len(Dump(f)) => from + Len(d) <= Len(Dump(f))
         /\ d = <<>> => from >= Len(Dump(f))
         /\ \A i \in 1..Len(d) : d[i] = Dump(f)[from + i]
<1> DEFINE s == Dump(f)
           l == Len(s)
<1>1. s \in Seq(Shown) /\ l \in Nat
  BY DumpIs
<1> HIDE DEF s, l
<1>2. CASE l - from <= 0
  <2>1. d = <<>> /\ Len(<<>>) = 0
    BY <1>2 DEF Datagrams, s, l
  <2> QED
    BY <2>1, <1>1, <1>2 DEF s, l
<1>3. CASE ~(l - from <= 0)
  <2>1. PICK n \in 1..Batch : n <= l - from /\ d = SubSeq(s, from + 1, from + n)
    BY <1>3 DEF Datagrams, s, l
  <2>2. n \in Nat /\ n >= 1 /\ from + n <= l
    BY <2>1, <1>1, ReassertAssumption
  <2>3. d \in Seq(Shown) /\ Len(d) = n /\ \A i \in 1..n : d[i] = s[from + i]
    BY <2>1, <2>2, <1>1 DEF l
  <2> QED
    BY <2>2, <2>3, <1>1 DEF s, l
<1> QED
  BY <1>2, <1>3, <1>1

\* A default of the main table is read as itself, everything else as nothing.
LEMMA ParsedIs ==
  ASSUME Network
  PROVE  /\ \A e \in Others : parse_default_route(e) = <<>>
         /\ \A r \in Routes : r.dev \in links => parse_default_route(Entry(r)) = <<r>>
         /\ \A e \in Shown : \/ parse_default_route(e) = <<>>
                             \/ \E x \in Readable : parse_default_route(e) = <<x>>
<1>1. links \subseteq Devs
  BY DEF Network
<1>2. ASSUME NEW e \in Others PROVE parse_default_route(e) = <<>>
  BY ReassertAssumption DEF parse_default_route
<1>3. ASSUME NEW r \in Routes, r.dev \in links PROVE parse_default_route(Entry(r)) = <<r>>
  <2>1. NameOf(r.dev) = r.dev /\ r.dev # NoDev
    BY <1>1, <1>3, ReassertAssumption DEF NameOf
  <2>2. /\ Entry(r).table = "main" /\ Entry(r).dst_len = 0 /\ Entry(r).via = r.via
        /\ Entry(r).dev = r.dev /\ Entry(r).metric = r.metric
    BY DEF Entry
  <2>3. r = [via |-> r.via, dev |-> r.dev, metric |-> r.metric]
    BY ReassertAssumption
  <2>4. parse_default_route(Entry(r)) = <<[via |-> r.via, dev |-> r.dev, metric |-> r.metric]>>
    BY <2>1, <2>2 DEF parse_default_route
  <2> QED
    BY <2>3, <2>4
<1>4. ASSUME NEW e \in Shown, parse_default_route(e) # <<>>
      PROVE  \E x \in Readable : parse_default_route(e) = <<x>>
  <2>1. NameOf(e.dev) \in Devs \cup {NoDev}
    BY <1>1 DEF NameOf
  <2>2. parse_default_route(e) = <<[via |-> e.via, dev |-> NameOf(e.dev), metric |-> e.metric]>>
    BY <1>4 DEF parse_default_route
  <2>3. [via |-> e.via, dev |-> NameOf(e.dev), metric |-> e.metric] \in Readable
    BY <2>1 DEF Readable
  <2> QED
    BY <2>2, <2>3
<1> QED
  BY <1>2, <1>3, <1>4

\* Every step keeps the types.
LEMMA PlacesStep == ASSUME Network, Places, [Next]_vars PROVE Places'
<1> USE DEF Families
<1>1. /\ fam \in Families /\ news \in BOOLEAN
      /\ pc \in {"waiting", "flushing", "asking", "receiving", "adding"}
      /\ failed \in [Families -> BOOLEAN]
      /\ DOMAIN mirror = Families
      /\ datagram \in Seq(Shown) /\ buf \in Seq(Shown) /\ routes \in Seq(Readable) /\ shown \in Nat
  BY DEF Places
<1>2. ASSUME UNCHANGED <<pc, fam, datagram, shown, buf, routes, failed>>,
             news' \in BOOLEAN, DOMAIN mirror' = Families
      PROVE  Places'
  BY <1>1, <1>2 DEF Places
<1>3. CASE Begin
  BY <1>1, <1>3 DEF Places, Begin
<1>4. CASE FlushTable
  BY <1>1, <1>4 DEF Places, FlushTable
<1>5. CASE SendRequest
  <2>1. datagram' \in Seq(Shown) /\ shown' \in Nat
    BY <1>1, <1>5, DatagramIs DEF SendRequest
  <2>2. routes' = <<>> /\ buf' = <<>> /\ UNCHANGED <<mirror, news, fam>> /\ pc' \in {"receiving", "adding"}
    BY <1>5 DEF SendRequest
  <2>3. failed' \in [Families -> BOOLEAN]
    BY <1>1, <1>5 DEF SendRequest
  <2>4. routes' \in Seq(Readable) /\ buf' \in Seq(Shown)
    BY <2>2, EmptySeq
  <2> QED
    BY <2>1, <2>2, <2>3, <2>4, <1>1 DEF Places
<1>6. CASE Receive
  <2>1. buf' \in Seq(Shown)
    BY <1>1, <1>6 DEF Receive
  <2>2. datagram' \in Seq(Shown) /\ shown' \in Nat
    <3>1. ASSUME datagram' \in Datagrams(fam, shown), shown' = shown + Len(datagram')
          PROVE  datagram' \in Seq(Shown) /\ shown' \in Nat
      <4>1. datagram' \in Seq(Shown) /\ Len(datagram') \in Nat
        BY <1>1, <3>1, DatagramIs
      <4> QED
        BY <4>1, <3>1, <1>1
    <3>2. ASSUME UNCHANGED <<datagram, shown>> PROVE datagram' \in Seq(Shown) /\ shown' \in Nat
      BY <3>2, <1>1
    <3> QED
      BY <3>1, <3>2, <1>6 DEF Receive
  <2>3. UNCHANGED <<mirror, news, fam>> /\ pc' \in {"receiving", "adding"} /\ (routes' = routes \/ routes' = <<>>)
    BY <1>6 DEF Receive
  <2>4. failed' \in [Families -> BOOLEAN]
    BY <1>1, <1>6 DEF Receive
  <2>5. routes' \in Seq(Readable)
    BY <2>3, <1>1, EmptySeq
  <2> QED
    BY <2>1, <2>2, <2>3, <2>4, <2>5, <1>1 DEF Places
<1>7. CASE Parse
  <2>1. buf # <<>> /\ buf' = Tail(buf) /\ UNCHANGED <<mirror, news, pc, fam, datagram, shown, failed>>
    BY <1>7 DEF Parse
  <2>2. buf' \in Seq(Shown) /\ Head(buf) \in Shown
    <3>1. buf \in Seq(Shown)
      BY <1>1
    <3> QED
      BY <3>1, <2>1, Rest
  <2>3. routes' = routes \/ \E x \in Readable : routes' = routes \o <<x>>
    <3>1. CASE parse_default_route(Head(buf)) = <<>>
      BY <3>1, <1>7 DEF Parse
    <3>2. CASE parse_default_route(Head(buf)) # <<>>
      <4>1. PICK x \in Readable : parse_default_route(Head(buf)) = <<x>>
        BY <2>2, <3>2, ParsedIs
      <4> QED
        BY <4>1, <1>7 DEF Parse
    <3> QED
      BY <3>1, <3>2
  <2>4. routes' \in Seq(Readable)
    <3>1. routes \in Seq(Readable)
      BY <1>1
    <3> QED
      BY <2>3, <3>1, Appended
  <2> QED
    BY <2>1, <2>2, <2>4, <1>1 DEF Places
<1>8. CASE AddRoute
  <2>1. routes' = Tail(routes) /\ routes # <<>> /\ DOMAIN mirror' = DOMAIN mirror
    BY <1>8 DEF AddRoute
  <2>2. routes' \in Seq(Readable)
    <3>1. routes \in Seq(Readable)
      BY <1>1
    <3> QED
      BY <3>1, <2>1, Rest
  <2> QED
    BY <2>1, <2>2, <1>1, <1>8 DEF Places, AddRoute
<1>9. CASE NextFamily
  BY <1>1, <1>9 DEF Places, NextFamily
<1>10. CASE Change \/ UNCHANGED vars
  BY <1>1, <1>2, <1>10 DEF Change, AddDefault, DelDefault, LinkDown, LinkUp, Happens, vars
<1> QED
  BY <1>3, <1>4, <1>5, <1>6, <1>7, <1>8, <1>9, <1>10 DEF Next, Rewrite
-----------------------------------------------------------------------------
(* What can be mirrored, route by route. *)

\* A set of numbers has a least one.
LEMMA LeastNat == ASSUME NEW S \in SUBSET Nat, S # {} PROVE \E m \in S : \A n \in S : m <= n
<1> DEFINE R == OpToRel(<, Nat)
<1>1. IsWellFoundedOn(R, Nat)
  BY NatLessThanWellFounded
<1>2. \A x, y \in Nat : x < y => <<x, y>> \in R
  BY DEF OpToRel
<1> HIDE DEF R
<1>3. PICK m \in S : \A n \in S : ~(<<n, m>> \in R)
  BY <1>1, WFMin
<1>4. \A n \in S : ~(n < m)
  BY <1>2, <1>3
<1> QED
  BY <1>3, <1>4

\* The next route is one more unless its metric is taken, and it is taken by
\* one that could be mirrored itself.
LEMMA FirstNext ==
  ASSUME NEW s, NEW n \in Nat
  PROVE  /\ FirstOf(s, 0) = {}
         /\ FirstOf(s, n + 1) = IF \E x \in FirstOf(s, n) : x.metric = s[n + 1].metric
                                THEN FirstOf(s, n) ELSE FirstOf(s, n) \cup {s[n + 1]}
<1> DEFINE first(k) == \A j \in 1..(k - 1) : s[j].metric # s[k].metric
           taken == \E x \in FirstOf(s, n) : x.metric = s[n + 1].metric
<1>1. \A k \in 1..(n + 1) : k = n + 1 \/ k \in 1..n
  OBVIOUS
<1>2. \A m \in Nat : \A x : x \in FirstOf(s, m) <=> \E k \in 1..m : first(k) /\ x = s[k]
  BY DEF FirstOf
<1>3. (n + 1) - 1 = n /\ n + 1 \in 1..(n + 1) /\ \A k \in 1..n : k \in 1..(n + 1)
  OBVIOUS
<1>4. FirstOf(s, 0) = {}
  BY DEF FirstOf
<1>5. CASE \E j \in 1..n : s[j].metric = s[n + 1].metric
  <2> DEFINE S == {j \in 1..n : s[j].metric = s[n + 1].metric}
  <2>1. S \in SUBSET Nat /\ S # {}
    BY <1>5
  <2>2. PICK j \in S : \A k \in S : j <= k
    BY <2>1, LeastNat
  <2>3. first(j)
    <3> SUFFICES ASSUME NEW k \in 1..(j - 1), s[k].metric = s[j].metric PROVE FALSE
      OBVIOUS
    <3>1. k \in 1..n /\ ~(j <= k)
      OBVIOUS
    <3> QED
      BY <3>1, <2>2
  <2>4. s[j] \in FirstOf(s, n) /\ s[j].metric = s[n + 1].metric
    BY <2>3, <1>2
  <2>5. ~first(n + 1)
    BY <1>3, <1>5
  <2> HIDE DEF first
  <2>6. FirstOf(s, n + 1) = FirstOf(s, n)
    BY <2>5, <1>1, <1>2, <1>3
  <2> QED
    BY <1>4, <2>4, <2>6
<1>6. CASE ~\E j \in 1..n : s[j].metric = s[n + 1].metric
  <2>1. first(n + 1)
    BY <1>3, <1>6
  <2>2. ~taken
    BY <1>2, <1>6
  <2> HIDE DEF first
  <2>3. \A x : x \in FirstOf(s, n + 1) <=> x \in FirstOf(s, n) \/ x = s[n + 1]
    BY <2>1, <1>1, <1>2, <1>3
  <2>4. FirstOf(s, n + 1) = FirstOf(s, n) \cup {s[n + 1]}
    BY <2>3
  <2> QED
    BY <1>4, <2>2, <2>4
<1> QED
  BY <1>5, <1>6

\* An entry that is read is the next route of the table, or none of them.
LEMMA UptoNext ==
  ASSUME Network, NEW f \in Families, NEW n \in Nat, n < Len(Dump(f))
  PROVE  /\ Upto(f, n) \in 0..Len(main[f])
         /\ \/ Dump(f)[n + 1] \in Others /\ Upto(f, n + 1) = Upto(f, n)
            \/ /\ Upto(f, n + 1) = Upto(f, n) + 1 /\ Upto(f, n) + 1 \in 1..Len(main[f])
               /\ Dump(f)[n + 1] = Entry(main[f][Upto(f, n) + 1])
<1>1. PICK a \in Nat, l \in Nat, z \in Nat : a = Len(Ahead) /\ l = Len(main[f]) /\ z = Len(After)
  BY DumpIs
<1>2. Len(Dump(f)) = a + l + z /\ n + 1 \in 1..Len(Dump(f))
  BY <1>1, DumpIs
<1>3. IF n + 1 <= a \/ n + 1 > a + l THEN Dump(f)[n + 1] \in Others
      ELSE Dump(f)[n + 1] = Entry(main[f][(n + 1) - a])
  BY <1>1, <1>2, DumpIs
<1>4. \A k \in Nat : Upto(f, k) = IF k <= a THEN 0 ELSE IF k <= a + l THEN k - a ELSE l
  BY <1>1 DEF Upto
<1>5. Upto(f, n) \in 0..l
  BY <1>4
<1>6. CASE n + 1 <= a \/ n + 1 > a + l
  <2>1. Upto(f, n + 1) = Upto(f, n)
    <3>1. n + 1 <= a => n <= a
      OBVIOUS
    <3>2. n + 1 > a + l /\ n <= a => n = a /\ l = 0
      OBVIOUS
    <3>3. n + 1 > a + l /\ ~(n <= a) => ~(n + 1 <= a) /\ (n <= a + l => n = a + l) /\ ~(n + 1 <= a + l)
      OBVIOUS
    <3> QED
      BY <3>1, <3>2, <3>3, <1>4, <1>6
  <2> QED
    BY <2>1, <1>1, <1>3, <1>5, <1>6
<1>7. CASE ~(n + 1 <= a \/ n + 1 > a + l)
  <2>1. Upto(f, n) = n - a /\ Upto(f, n + 1) = (n + 1) - a
    BY <1>4, <1>7
  <2>2. Upto(f, n + 1) = Upto(f, n) + 1 /\ Upto(f, n) + 1 \in 1..l /\ (n + 1) - a = Upto(f, n) + 1
    BY <2>1, <1>7
  <2> QED
    BY <2>2, <1>1, <1>3, <1>5, <1>7
<1> QED
  BY <1>6, <1>7

\* Before the first entry there is no route, behind the last one all are.
LEMMA UptoEnds ==
  ASSUME Network, NEW f \in Families
  PROVE  Upto(f, 0) = 0 /\ Upto(f, Len(Dump(f))) = Len(main[f]) /\ Len(Dump(f)) \in Nat
<1>1. PICK a \in Nat, l \in Nat, z \in Nat : a = Len(Ahead) /\ l = Len(main[f]) /\ z = Len(After)
  BY DumpIs
<1>2. Len(Dump(f)) = a + l + z
  BY <1>1, DumpIs
<1>3. \A k \in Nat : Upto(f, k) = IF k <= a THEN 0 ELSE IF k <= a + l THEN k - a ELSE l
  BY <1>1 DEF Upto
<1> QED
  BY <1>1, <1>2, <1>3
-----------------------------------------------------------------------------
(* What is read and what is added, step by step. *)

\* A dump is of the table as it stands.
LEMMA SameTable ==
  ASSUME UNCHANGED <<main, fam>>
  PROVE  Dump(fam)' = Dump(fam) /\ main'[fam'] = main[fam] /\ \A n : Upto(fam, n)' = Upto(fam, n)
BY DEF Dump, Upto

\* The kernel has prepared its first datagram.
LEMMA ReadingStarts ==
  ASSUME Network, Places, UNCHANGED <<main, fam>>, routes' = <<>>, buf' = <<>>,
         datagram' \in Datagrams(fam, 0), shown' = Len(datagram')
  PROVE  Reading'
<1>1. PICK d : d = Dump(fam)
  OBVIOUS
<1>2. /\ Len(d) \in Nat /\ Len(datagram') \in Nat /\ Len(datagram') <= Len(d)
      /\ datagram' = <<>> => Len(d) = 0
      /\ \A i \in 1..Len(datagram') : datagram'[i] = d[i]
  <2>1. fam \in Families /\ 0 \in Nat /\ Len(d) \in Nat
    BY <1>1, DumpIs DEF Places
  <2>2. /\ Len(datagram') \in Nat
        /\ 0 <= Len(d) => 0 + Len(datagram') <= Len(d)
        /\ datagram' = <<>> => 0 >= Len(d)
        /\ \A i \in 1..Len(datagram') : datagram'[i] = d[0 + i]
    BY <2>1, <1>1, DatagramIs
  <2> QED
    BY <2>1, <2>2
<1>3. Len(<<>>) = 0 /\ Upto(fam, 0) = 0
  BY UptoEnds DEF Places
<1>4. /\ 0 \in 0..Len(d)
      /\ shown' = 0 + Len(buf') + Len(datagram') /\ shown' <= Len(d)
      /\ datagram' = <<>> => shown' = Len(d)
      /\ \A i \in 1..Len(buf') : buf'[i] = d[0 + i]
      /\ \A i \in 1..Len(datagram') : datagram'[i] = d[0 + Len(buf') + i]
      /\ Len(routes') = Upto(fam, 0) /\ \A i \in 1..Upto(fam, 0) : routes'[i] = main[fam][i]
  BY <1>2, <1>3
<1> QED
  BY <1>1, <1>4, SameTable DEF Reading

\* One datagram is taken and the next prepared.
LEMMA ReadingGoesOn ==
  ASSUME Network, Places, Reading, UNCHANGED <<main, fam, routes>>, buf = <<>>, buf' = datagram,
         datagram' \in Datagrams(fam, shown), shown' = shown + Len(datagram')
  PROVE  Reading'
<1>1. PICK d : d = Dump(fam)
  OBVIOUS
<1>2. PICK n \in 0..Len(d) :
        /\ shown = n + Len(buf) + Len(datagram) /\ shown <= Len(d)
        /\ \A i \in 1..Len(datagram) : datagram[i] = d[n + Len(buf) + i]
        /\ Len(routes) = Upto(fam, n) /\ \A i \in 1..Upto(fam, n) : routes[i] = main[fam][i]
  BY <1>1 DEF Reading
<1>3. Len(buf) = 0 /\ Len(datagram) \in Nat /\ n \in Nat /\ Len(d) \in Nat /\ shown \in Nat
  BY <1>1, DumpIs DEF Places
<1>4. /\ Len(datagram') \in Nat /\ shown + Len(datagram') <= Len(d)
      /\ datagram' = <<>> => shown >= Len(d)
      /\ \A i \in 1..Len(datagram') : datagram'[i] = d[shown + i]
  <2>1. fam \in Families /\ shown \in Nat /\ shown <= Len(Dump(fam))
    BY <1>1, <1>2, <1>3 DEF Places
  <2>2. /\ Len(datagram') \in Nat
        /\ shown <= Len(Dump(fam)) => shown + Len(datagram') <= Len(Dump(fam))
        /\ datagram' = <<>> => shown >= Len(Dump(fam))
        /\ \A i \in 1..Len(datagram') : datagram'[i] = Dump(fam)[shown + i]
    BY <2>1, DatagramIs
  <2> QED
    BY <2>1, <2>2, <1>1
<1>5. shown = n + Len(datagram) /\ \A i \in 1..Len(datagram) : datagram[i] = d[n + i]
  BY <1>2, <1>3
<1>6. datagram' = <<>> => Len(datagram') = 0
  OBVIOUS
<1>7. /\ shown' = n + Len(buf') + Len(datagram') /\ shown' <= Len(d)
      /\ datagram' = <<>> => shown' = Len(d)
      /\ \A i \in 1..Len(buf') : buf'[i] = d[n + i]
      /\ \A i \in 1..Len(datagram') : datagram'[i] = d[n + Len(buf') + i]
  BY <1>3, <1>4, <1>5, <1>6
<1>8. Dump(fam)' = d /\ main'[fam'] = main[fam] /\ routes' = routes /\ Upto(fam, n)' = Upto(fam, n)
  BY <1>1, SameTable
<1>9. Len(routes') = Upto(fam, n)' /\ \A i \in 1..Upto(fam, n)' : routes'[i] = main'[fam'][i]
  BY <1>2, <1>8
<1> QED
  BY <1>7, <1>8, <1>9 DEF Reading

\* One entry more is read.
LEMMA EntryParsed == ASSUME Network, Places, Reading, Parse PROVE Reading'
<1>1. PICK d : d = Dump(fam)
  OBVIOUS
<1>2. PICK n \in 0..Len(d) :
        /\ shown = n + Len(buf) + Len(datagram) /\ shown <= Len(d)
        /\ datagram = <<>> => shown = Len(d)
        /\ \A i \in 1..Len(buf) : buf[i] = d[n + i]
        /\ \A i \in 1..Len(datagram) : datagram[i] = d[n + Len(buf) + i]
        /\ Len(routes) = Upto(fam, n) /\ \A i \in 1..Upto(fam, n) : routes[i] = main[fam][i]
  BY <1>1 DEF Reading
<1>3. /\ UNCHANGED <<main, fam, datagram, shown>> /\ buf # <<>> /\ buf' = Tail(buf)
  BY DEF Parse, network
<1>4. /\ fam \in Families /\ datagram \in Seq(Shown) /\ buf \in Seq(Shown) /\ routes \in Seq(Readable)
      /\ main[fam] \in Seq(Routes) /\ n \in Nat /\ Len(d) \in Nat /\ Len(datagram) \in Nat /\ shown \in Nat
  BY <1>1, DumpIs DEF Places, Network
<1>5. /\ Len(buf) \in Nat /\ Len(buf) >= 1 /\ Head(buf) = buf[1] /\ Len(buf') = Len(buf) - 1
      /\ \A i \in 1..(Len(buf) - 1) : buf'[i] = buf[i + 1]
  BY <1>3, <1>4, Rest
<1>6. n < Len(d) /\ Head(buf) = d[n + 1]
  BY <1>2, <1>4, <1>5
<1>7. PICK u \in 0..Len(main[fam]) : u = Upto(fam, n)
  BY <1>1, <1>4, <1>6, UptoNext
<1>8. /\ u \in Nat /\ Len(routes) = u /\ \A i \in 1..u : routes[i] = main[fam][i]
      /\ Len(main[fam]) \in Nat
  BY <1>2, <1>4, <1>7
<1>9. Len(routes') = Upto(fam, n + 1) /\ \A i \in 1..Upto(fam, n + 1) : routes'[i] = main[fam][i]
  <2>1. CASE d[n + 1] \in Others /\ Upto(fam, n + 1) = u
    <3>1. routes' = routes
      BY <2>1, <1>6, ParsedIs DEF Parse
    <3> QED
      BY <3>1, <2>1, <1>8
  <2>2. CASE Upto(fam, n + 1) = u + 1 /\ u + 1 \in 1..Len(main[fam]) /\ d[n + 1] = Entry(main[fam][u + 1])
    <3>1. PICK r \in Routes : r = main[fam][u + 1]
      BY <2>2, <1>4
    <3>2. r.dev \in links
      BY <3>1, <2>2, <1>4 DEF Network
    <3>3. parse_default_route(Head(buf)) = <<r>>
      BY <3>1, <3>2, <2>2, <1>6, ParsedIs
    <3>4. ~Holds(routes, r)
      <4>1. ASSUME NEW i \in 1..u, routes[i] = r PROVE FALSE
        <5>1. main[fam][i] = main[fam][u + 1] /\ i \in DOMAIN main[fam] /\ u + 1 \in DOMAIN main[fam]
          BY <4>1, <3>1, <2>2, <1>4, <1>8
        <5>2. i = u + 1
          BY <5>1, <1>4 DEF Network
        <5> QED
          BY <5>2, <1>8
      <4>2. DOMAIN routes = 1..u
        BY <1>4, <1>8
      <4> QED
        BY <4>1, <4>2 DEF Holds
    <3>5. routes' = routes \o <<r>>
      <4>1. <<r>> # <<>> /\ <<r>>[1] = r
        OBVIOUS
      <4>2. ~(parse_default_route(Head(buf)) = <<>> \/ Holds(routes, parse_default_route(Head(buf))[1]))
        BY <4>1, <3>3, <3>4
      <4>3. routes' = routes \o parse_default_route(Head(buf))
        BY <4>2, Zenon DEF Parse
      <4> QED
        BY <4>3, <3>3
    <3>6. r \in Readable
      <4>1. Head(buf) \in Shown
        BY <1>3, <1>4, Rest
      <4>2. \E x \in Readable : <<r>> = <<x>>
        BY <4>1, <3>3, ParsedIs
      <4> QED
        BY <4>2
    <3>7. /\ Len(routes') = u + 1 /\ routes'[u + 1] = r /\ \A i \in 1..u : routes'[i] = routes[i]
      <4>1. routes \in Seq(Readable) /\ Len(routes) = u
        BY <1>4, <1>8
      <4>2. /\ Len(routes \o <<r>>) = Len(routes) + 1
            /\ \A i \in 1..Len(routes) : (routes \o <<r>>)[i] = routes[i]
            /\ (routes \o <<r>>)[Len(routes) + 1] = r
        BY <4>1, <3>6, Appended
      <4> QED
        BY <4>1, <4>2, <3>5
    <3> QED
      BY <3>1, <3>7, <2>2, <1>8
  <2> QED
    BY <2>1, <2>2, <1>1, <1>4, <1>6, <1>7, UptoNext
<1>10. /\ n + 1 \in 0..Len(d)
       /\ shown' = (n + 1) + Len(buf') + Len(datagram') /\ shown' <= Len(d)
       /\ datagram' = <<>> => shown' = Len(d)
       /\ \A i \in 1..Len(buf') : buf'[i] = d[(n + 1) + i]
  BY <1>2, <1>3, <1>4, <1>5, <1>6
<1>11. \A i \in 1..Len(datagram') : datagram'[i] = d[(n + 1) + Len(buf') + i]
  <2>1. (n + 1) + Len(buf') = n + Len(buf)
    BY <1>4, <1>5
  <2> QED
    BY <2>1, <1>2, <1>3
<1>12. Dump(fam)' = d /\ main'[fam'] = main[fam] /\ Upto(fam, n + 1)' = Upto(fam, n + 1)
  BY <1>1, <1>3, SameTable
<1>13. Len(routes') = Upto(fam, n + 1)' /\ \A i \in 1..Upto(fam, n + 1)' : routes'[i] = main'[fam'][i]
  BY <1>9, <1>12
<1> QED
  BY <1>10, <1>11, <1>12, <1>13 DEF Reading

\* A dump that is through has shown the table.
LEMMA ReadingEnds ==
  ASSUME Network, Places, Reading, UNCHANGED <<main, fam, mirror, routes>>,
         buf = <<>>, datagram = <<>>, mirror[fam] = {}
  PROVE  Adding'
<1>1. PICK l \in Nat : l = Len(Dump(fam))
  BY UptoEnds DEF Places
<1>2. PICK n \in 0..l : shown = n + Len(buf) + Len(datagram) /\ shown = l
                        /\ Len(routes) = Upto(fam, n) /\ \A i \in 1..Upto(fam, n) : routes[i] = main[fam][i]
  BY <1>1 DEF Reading
<1>3. n = l
  BY <1>1, <1>2
<1>4. PICK m \in Nat : m = Len(main[fam]) /\ Upto(fam, l) = m
  <2>1. fam \in Families
    BY DEF Places
  <2> QED
    BY <2>1, <1>1, UptoEnds, DumpIs
<1>5. Len(routes) = m /\ \A i \in 1..m : routes[i] = main[fam][i]
  BY <1>2, <1>3, <1>4
<1>6. /\ 0 \in 0..m /\ Len(routes') = m - 0
      /\ \A i \in 1..Len(routes') : routes'[i] = main'[fam'][0 + i]
      /\ mirror'[fam'] = FirstOf(main'[fam'], 0)
  <2>1. FirstOf(main'[fam'], 0) = {} /\ mirror'[fam'] = {}
    BY DEF FirstOf
  <2>2. \A i \in 1..m : 0 + i = i
    BY <1>4
  <2> QED
    BY <2>1, <2>2, <1>4, <1>5
<1>7. m = Len(main'[fam'])
  BY <1>4
<1> QED
  BY <1>6, <1>7 DEF Adding

\* One route more is through, mirrored or refused.
LEMMA RouteAdded ==
  ASSUME Network, Places, Adding, AddRoute
  PROVE  Adding' /\ \A f \in Families : f # fam => mirror'[f] = mirror[f]
<1>1. /\ fam \in Families /\ routes \in Seq(Readable) /\ main[fam] \in Seq(Routes) /\ DOMAIN mirror = Families
      /\ Len(main[fam]) \in Nat /\ DOMAIN main[fam] = 1..Len(main[fam])
  BY DEF Places, Network
<1>2. PICK n \in 0..Len(main[fam]) :
        /\ Len(routes) = Len(main[fam]) - n
        /\ \A i \in 1..Len(routes) : routes[i] = main[fam][n + i]
        /\ mirror[fam] = FirstOf(main[fam], n)
  BY DEF Adding
<1>3. UNCHANGED <<main, fam, links>> /\ routes # <<>> /\ routes' = Tail(routes)
  BY DEF AddRoute, network
<1>4. /\ Len(routes) \in Nat /\ Len(routes) >= 1 /\ Head(routes) = routes[1] /\ Len(routes') = Len(routes) - 1
      /\ \A i \in 1..(Len(routes) - 1) : routes'[i] = routes[i + 1]
  BY <1>1, <1>3, Rest
<1>5. n \in Nat /\ n + 1 \in 1..Len(main[fam]) /\ n + 1 \in 0..Len(main[fam]) /\ 1 \in 1..Len(routes)
  BY <1>1, <1>2, <1>4
<1>6. PICK r : r = Head(routes) /\ r = main[fam][n + 1]
  BY <1>2, <1>4, <1>5
<1>7. r.dev \in links
  BY <1>1, <1>5, <1>6 DEF Network
<1>8. mirror' = IF \E x \in mirror[fam] : x.metric = r.metric THEN mirror
                ELSE [mirror EXCEPT ![fam] = mirror[fam] \cup {r}]
  BY <1>6, <1>7 DEF AddRoute
<1>9. \A f \in Families : f # fam => mirror'[f] = mirror[f]
  BY <1>1, <1>8
<1>10. mirror'[fam] = IF \E x \in mirror[fam] : x.metric = r.metric THEN mirror[fam] ELSE mirror[fam] \cup {r}
  BY <1>1, <1>8
<1>11. mirror'[fam] = FirstOf(main[fam], n + 1)
  <2>1. FirstOf(main[fam], n + 1) =
          IF \E x \in FirstOf(main[fam], n) : x.metric = main[fam][n + 1].metric
          THEN FirstOf(main[fam], n) ELSE FirstOf(main[fam], n) \cup {main[fam][n + 1]}
    BY <1>5, FirstNext
  <2> QED
    BY <2>1, <1>2, <1>6, <1>10
<1>12. Len(routes') = Len(main[fam]) - (n + 1)
  BY <1>1, <1>2, <1>4, <1>5
<1>13. ASSUME NEW i \in 1..Len(routes') PROVE routes'[i] = main[fam][(n + 1) + i]
  <2>1. i \in 1..(Len(routes) - 1) /\ i + 1 \in 1..Len(routes) /\ n + (i + 1) = (n + 1) + i
    BY <1>4, <1>5
  <2> QED
    BY <2>1, <1>2, <1>4
<1> QED
  BY <1>3, <1>5, <1>9, <1>11, <1>12, <1>13 DEF Adding

\* When no route is left, the family is mirrored.
LEMMA FamilyDone ==
  ASSUME Network, Places, Still, pc = "adding", routes = <<>>
  PROVE  Mirrored(fam)
<1>1. CASE failed[fam]
  BY <1>1 DEF Still, Mirrored
<1>2. CASE ~failed[fam]
  <2>1. PICK n \in 0..Len(main[fam]) : Len(routes) = Len(main[fam]) - n /\ mirror[fam] = FirstOf(main[fam], n)
    BY <1>2 DEF Still, Adding
  <2>2. Len(routes) = 0 /\ Len(main[fam]) \in Nat
    BY DEF Places, Network
  <2>3. n = Len(main[fam])
    BY <2>1, <2>2
  <2> QED
    BY <2>1, <2>3, <1>2 DEF Mirrored
<1> QED
  BY <1>1, <1>2

\* A family that is not touched stays mirrored.
LEMMA StaysMirrored ==
  ASSUME UNCHANGED main, NEW f \in Families, mirror'[f] = mirror[f], failed'[f] = failed[f], Mirrored(f)
  PROVE  Mirrored(f)'
BY DEF Mirrored

\* A step that leaves nothing to read goes on in its round.
LEMMA StillStep == ASSUME IInv, [Next]_vars, ~news' PROVE Still'
<1>1. Network /\ Places /\ (~news => Still)
  BY DEF IInv
<1>2. /\ fam \in Families /\ failed \in [Families -> BOOLEAN] /\ DOMAIN mirror = Families
      /\ 4 \in Families /\ 6 \in Families /\ \A f \in Families : f = 4 \/ f = 6
  BY <1>1 DEF Places, Families
<1>3. CASE Change
  BY <1>3 DEF Change, AddDefault, DelDefault, LinkDown, LinkUp, Happens
<1>4. CASE UNCHANGED vars
  <2>1. Still
    BY <1>1, <1>4 DEF vars
  <2>2. UNCHANGED <<main, fam>> /\ UNCHANGED <<mirror, pc, datagram, shown, buf, routes, failed>>
    BY <1>4 DEF vars
  <2>3. \A f \in Families : Mirrored(f) => Mirrored(f)'
    BY <2>2, StaysMirrored
  <2>4. Reading => Reading'
    BY <2>2 DEF Reading, Upto, Dump
  <2>5. Adding => Adding'
    BY <2>2 DEF Adding
  <2> QED
    BY <2>1, <2>2, <2>3, <2>4, <2>5, <1>2 DEF Still
<1>5. CASE Begin
  BY <1>5 DEF Begin, Still
<1>6. CASE FlushTable
  <2>1. Still /\ pc = "flushing" /\ UNCHANGED <<main, failed, routes>>
    BY <1>1, <1>6 DEF FlushTable, network
  <2>2. \A f \in Families : mirror'[f] = IF f = fam THEN {} ELSE mirror[f]
    BY <1>2, <1>6 DEF FlushTable
  <2>3. \A f \in Families : ~failed'[f]
    BY <2>1 DEF Still
  <2>4. CASE fam = 4 /\ fam' = 6 /\ pc' = "flushing"
    BY <2>2, <2>3, <2>4, <1>2 DEF Still
  <2>5. CASE fam = 6 /\ fam' = 4 /\ pc' = "asking"
    <3>1. mirror[4] = {}
      BY <2>1, <2>5 DEF Still
    <3>2. mirror'[4] = {} /\ mirror'[6] = {}
      BY <3>1, <2>2, <2>5, <1>2
    <3> QED
      BY <3>2, <2>3, <2>5, <1>2 DEF Still
  <2> QED
    BY <2>1, <2>4, <2>5, <1>6 DEF FlushTable
<1>7. ASSUME pc \in {"asking", "receiving", "adding"}, pc' \in {"asking", "receiving", "adding"}, Still,
             UNCHANGED <<main, fam>>, \A f \in Families : f # fam => mirror'[f] = mirror[f] /\ failed'[f] = failed[f]
      PROVE  /\ fam' = 4 => mirror'[6] = {} /\ ~failed'[6]
             /\ fam' = 6 => Mirrored(4)'
  <2>1. fam = 4 => mirror[6] = {} /\ ~failed[6]
    BY <1>7 DEF Still
  <2>2. fam = 6 => Mirrored(4)
    BY <1>7 DEF Still
  <2>3. fam = 6 => mirror'[4] = mirror[4] /\ failed'[4] = failed[4]
    BY <1>2, <1>7
  <2>4. fam = 4 => mirror'[6] = mirror[6] /\ failed'[6] = failed[6]
    BY <1>2, <1>7
  <2>5. fam = 6 => Mirrored(4)'
    BY <2>2, <2>3, <1>2, <1>7, StaysMirrored
  <2> QED
    BY <2>1, <2>4, <2>5, <1>7
<1>8. CASE SendRequest
  <2>1. Still /\ pc = "asking" /\ UNCHANGED <<main, fam, mirror>> /\ routes' = <<>> /\ buf' = <<>>
    BY <1>1, <1>8 DEF SendRequest, network
  <2>2. mirror[fam] = {} /\ ~failed[fam]
    BY <2>1 DEF Still
  <2>3. \A f \in Families : f # fam => failed'[f] = failed[f]
    BY <1>2, <1>8 DEF SendRequest
  <2>4. pc' \in {"asking", "receiving", "adding"}
    BY <1>8 DEF SendRequest
  <2>5. /\ fam' = 4 => mirror'[6] = {} /\ ~failed'[6]
        /\ fam' = 6 => Mirrored(4)'
    BY <2>1, <2>3, <2>4, <1>7
  <2>6. CASE datagram' \in Datagrams(fam, 0) /\ shown' = Len(datagram') /\ pc' = "receiving" /\ UNCHANGED failed
    <3>1. Reading'
      BY <2>1, <2>6, <1>1, ReadingStarts
    <3> QED
      BY <3>1, <2>1, <2>2, <2>5, <2>6 DEF Still
  <2>7. CASE pc' = "adding" /\ failed' = [failed EXCEPT ![fam] = TRUE]
    <3>1. failed'[fam'] /\ mirror'[fam'] = {}
      BY <2>1, <2>2, <2>7, <1>2
    <3> QED
      BY <3>1, <2>1, <2>5, <2>7 DEF Still
  <2> QED
    BY <2>6, <2>7, <1>8 DEF SendRequest
<1>9. CASE Receive
  <2>1. Still /\ pc = "receiving" /\ buf = <<>> /\ UNCHANGED <<main, fam, mirror>>
    BY <1>1, <1>9 DEF Receive, network
  <2>2. mirror[fam] = {} /\ ~failed[fam] /\ Reading
    BY <2>1 DEF Still
  <2>3. \A f \in Families : f # fam => failed'[f] = failed[f]
    BY <1>2, <1>9 DEF Receive
  <2>4. pc' \in {"asking", "receiving", "adding"}
    BY <2>1, <1>9 DEF Receive
  <2>5. /\ fam' = 4 => mirror'[6] = {} /\ ~failed'[6]
        /\ fam' = 6 => Mirrored(4)'
    BY <2>1, <2>3, <2>4, <1>7
  <2>6. CASE /\ buf' = datagram /\ datagram' \in Datagrams(fam, shown) /\ shown' = shown + Len(datagram')
             /\ UNCHANGED <<pc, routes, failed>>
    <3>1. Reading'
      BY <2>1, <2>2, <2>6, <1>1, ReadingGoesOn
    <3> QED
      BY <3>1, <2>1, <2>2, <2>5, <2>6 DEF Still
  <2>7. CASE datagram = <<>> /\ pc' = "adding" /\ UNCHANGED <<routes, datagram, shown, buf, failed>>
    <3>1. Adding'
      BY <2>1, <2>2, <2>7, <1>1, ReadingEnds
    <3>2. ~failed'[fam']
      BY <2>1, <2>2, <2>7
    <3> QED
      BY <3>1, <3>2, <2>5, <2>7 DEF Still
  <2>8. CASE pc' = "adding" /\ routes' = <<>> /\ failed' = [failed EXCEPT ![fam] = TRUE]
    <3>1. failed'[fam'] /\ mirror'[fam'] = {}
      BY <2>1, <2>2, <2>8, <1>2
    <3> QED
      BY <3>1, <2>5, <2>8 DEF Still
  <2> QED
    BY <2>6, <2>7, <2>8, <1>9 DEF Receive
<1>10. CASE Parse
  <2>1. Still /\ pc = "receiving" /\ UNCHANGED <<main, pc, fam, mirror, failed>>
    BY <1>1, <1>10 DEF Parse, network
  <2>2. mirror[fam] = {} /\ ~failed[fam] /\ Reading
    BY <2>1 DEF Still
  <2>3. Reading'
    BY <2>2, <1>1, <1>10, EntryParsed
  <2>4. /\ fam' = 4 => mirror'[6] = {} /\ ~failed'[6]
        /\ fam' = 6 => Mirrored(4)'
    BY <2>1, <1>7
  <2> QED
    BY <2>1, <2>2, <2>3, <2>4 DEF Still
<1>11. CASE AddRoute
  <2>1. Still /\ pc = "adding" /\ UNCHANGED <<main, pc, fam, failed>> /\ routes # <<>>
    BY <1>1, <1>11 DEF AddRoute, network
  <2>2. ~failed[fam] /\ Adding
    BY <2>1 DEF Still
  <2>3. Adding' /\ \A f \in Families : f # fam => mirror'[f] = mirror[f]
    BY <2>2, <1>1, <1>11, RouteAdded
  <2>4. /\ fam' = 4 => mirror'[6] = {} /\ ~failed'[6]
        /\ fam' = 6 => Mirrored(4)'
    BY <2>1, <2>3, <1>7
  <2> QED
    BY <2>1, <2>2, <2>3, <2>4 DEF Still
<1>12. CASE NextFamily
  <2>1. Still /\ pc = "adding" /\ routes = <<>> /\ UNCHANGED <<main, mirror, failed>>
    BY <1>1, <1>12 DEF NextFamily, network
  <2>2. Mirrored(fam)
    BY <2>1, <1>1, FamilyDone
  <2>3. \A f \in Families : Mirrored(f) => Mirrored(f)'
    BY <2>1, StaysMirrored
  <2>4. CASE fam = 4 /\ fam' = 6 /\ pc' = "asking"
    <3>1. mirror'[6] = {} /\ ~failed'[6]
      BY <2>1, <2>4 DEF Still
    <3>2. Mirrored(4)'
      BY <2>2, <2>3, <2>4, <1>2
    <3> QED
      BY <3>1, <3>2, <2>4 DEF Still
  <2>5. CASE fam = 6 /\ pc' = "waiting"
    <3>1. Mirrored(4)
      BY <2>1, <2>5 DEF Still
    <3>2. \A f \in Families : Mirrored(f)'
      BY <3>1, <2>2, <2>3, <2>5, <1>2
    <3> QED
      BY <3>2, <2>5 DEF Still
  <2> QED
    BY <2>4, <2>5, <1>12 DEF NextFamily
<1> QED
  BY <1>3, <1>4, <1>5, <1>6, <1>8, <1>9, <1>10, <1>11, <1>12 DEF Next, Rewrite
-----------------------------------------------------------------------------
\* The tables begin empty, and nobody waits for news.
LEMMA InitIInv == Init => IInv
<1> SUFFICES ASSUME Init PROVE IInv
  OBVIOUS
<1>1. <<>> \in Seq(Routes) /\ <<>> \in Seq(Shown) /\ <<>> \in Seq(Readable) /\ DOMAIN <<>> = {}
  BY EmptySeq
<1>2. Network
  BY <1>1 DEF Init, Network
<1>3. Places
  BY <1>1 DEF Init, Places, Families
<1>4. \A f \in Families : Mirrored(f)
  <2> SUFFICES ASSUME NEW f \in Families PROVE Mirrored(f)
    OBVIOUS
  <2>1. mirror[f] = {} /\ main[f] = <<>> /\ ~failed[f] /\ Len(<<>>) = 0
    BY DEF Init
  <2> QED
    BY <2>1, FirstNext DEF Mirrored
<1>5. Still
  BY <1>4 DEF Init, Still
<1> QED
  BY <1>2, <1>3, <1>5 DEF IInv

\* What the network, the places of the rewriting and, in a round since whose
\* beginning nothing has happened, the two tables are like in every state.
THEOREM Invariance == Spec => []IInv
<1>1. IInv /\ [Next]_vars => IInv'
  BY NetworkStep, PlacesStep, StillStep DEF IInv
<1> QED
  BY <1>1, InitIInv, PTL DEF Spec

\* Waiting with nothing left to read, the monitor has a mirror that is the
\* main table, family by family, but for one whose dump failed
\* (routing.rs:230-245, netlink.rs:132-139).
THEOREM MirrorsMainCorrect == Spec => []MirrorsMain
<1>1. IInv => MirrorsMain
  <2> SUFFICES ASSUME IInv, pc = "waiting", ~news, NEW f \in Families
               PROVE  mirror[f] = IF failed[f] THEN {} ELSE Mirrorable(main[f])
    BY DEF MirrorsMain
  <2>1. Mirrored(f)
    BY DEF IInv, Still
  <2>2. main[f] \in Seq(Routes)
    BY DEF IInv, Network
  <2>3. DOMAIN main[f] = 1..Len(main[f])
    BY <2>2
  <2>4. Mirrorable(main[f]) = FirstOf(main[f], Len(main[f]))
    BY <2>3 DEF Mirrorable, FirstOf
  <2> QED
    BY <2>1, <2>4 DEF Mirrored
<1> QED
  BY <1>1, Invariance, PTL
=============================================================================
