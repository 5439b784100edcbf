----------------------------- MODULE WireProofs -----------------------------
(***************************************************************************)
(* Proofs about Wire for any frame limit, body sizes, socket buffers and   *)
(* number of calls.  A reader keeps in step because frames stand one after *)
(* the other without a gap and it always knows which one it is in; what it *)
(* may conclude from the end of a stream follows from where in a frame the *)
(* last byte was.                                                          *)
(***************************************************************************)
EXTENDS Wire, TLAPS

Frame == [at : Nat, size : 0..MaxFrame]
PCs == {"ready", "header", "body", "decoding", "writing", "gone"}

Wire_TypeOK ==
  /\ frames \in [Sides -> Seq(Frame)]
  /\ wrote \in [Sides -> Nat] /\ taken \in [Sides -> Nat]
  /\ got \in [Sides -> Nat] /\ want \in [Sides -> Nat]
  /\ pc \in [Sides -> PCs] /\ pc["daemon"] # "ready"
  /\ ended \in [Sides -> {"no", "clean", "error"}]

\* The frames of a stream stand one after the other, from its first byte on.
InARow(f) ==
  /\ f # <<>> => f[1].at = 0
  /\ \A k \in DOMAIN f : k + 1 \in DOMAIN f => f[k + 1].at = After(f[k])
  /\ \A j, k \in DOMAIN f : j < k => After(f[j]) <= f[k].at

Laid == \A s \in Sides : InARow(frames[s])

\* Only the last frame can be unfinished, and only while its writer is at it
\* or has died of it.
Writer(s) ==
  /\ wrote[s] <= End(s)
  /\ frames[s] # <<>> => frames[s][Len(frames[s])].at <= wrote[s]
  /\ pc[s] \notin {"writing", "gone"} => wrote[s] = End(s)

\* A reader knows which frame it is in and how much of it is left; it has read
\* nothing that is not written; and who has found a stream to end is gone, as
\* is who wrote it.
Reader(s) ==
  LET next == Start(Other(s), got[s] + 1)
      body == frames[Other(s)][got[s] + 1].size
  IN  /\ taken[s] <= wrote[Other(s)] /\ got[s] <= Len(frames[Other(s)])
      /\ pc[s] = "header" => want[s] <= HeaderLen /\ taken[s] = next + HeaderLen - want[s]
      /\ pc[s] = "body" =>
           /\ got[s] < Len(frames[Other(s)]) /\ want[s] <= body
           /\ taken[s] = next + HeaderLen + body - want[s]
      /\ pc[s] \in {"ready", "decoding", "writing"} => taken[s] = next
      /\ ended[s] # "no" => ~Alive(s) /\ ~Alive(Other(s)) /\ got[s] = Whole(Other(s))

\* The daemon answers what it has read before it reads on.
Turns ==
  /\ pc["daemon"] \in {"header", "body", "writing"} => Len(frames["daemon"]) = got["daemon"]
  /\ pc["daemon"] = "decoding" => Len(frames["daemon"]) + 1 = got["daemon"]

Streams == Laid /\ \A s \in Sides : Writer(s) /\ Reader(s)
IInv == Wire_TypeOK /\ Streams /\ Turns

-----------------------------------------------------------------------------
(* The two ends, and where frames stand. *)

\* There are two sides, each the other's other.
LEMMA TwoSides ==
  /\ Sides = {"client", "daemon"}
  /\ Other("client") = "daemon" /\ Other("daemon") = "client"
  /\ \A s \in Sides : Other(s) \in Sides /\ Other(s) # s /\ Other(Other(s)) = s
  /\ \A s, t \in Sides : t = s \/ t = Other(s)
BY DEF Sides, Other

\* What a frame is and where it ends.
LEMMA FrameTypes ==
  ASSUME MaxFrame \in Nat, NEW f \in Seq(Frame)
  PROVE  /\ Len(f) \in Nat /\ DOMAIN f = 1..Len(f)
         /\ (f = <<>>) <=> (Len(f) = 0)
         /\ \A k \in 1..Len(f) :
              /\ f[k] \in Frame /\ f[k].at \in Nat /\ f[k].size \in 0..MaxFrame
              /\ After(f[k]) = f[k].at + 4 + f[k].size
              /\ After(f[k]) \in Nat /\ f[k].at + 4 <= After(f[k])
<1>1. Len(f) \in Nat /\ DOMAIN f = 1..Len(f)
  OBVIOUS
<1>2. (f = <<>>) <=> (Len(f) = 0)
  OBVIOUS
<1>3. ASSUME NEW k \in 1..Len(f)
      PROVE  f[k] \in Frame /\ f[k].at \in Nat /\ f[k].size \in 0..MaxFrame
  <2>1. f[k] \in Frame
    OBVIOUS
  <2> QED
    BY <2>1 DEF Frame
<1>4. ASSUME NEW k \in 1..Len(f)
      PROVE  /\ After(f[k]) = f[k].at + 4 + f[k].size
             /\ After(f[k]) \in Nat /\ f[k].at + 4 <= After(f[k])
  BY <1>3 DEF After, HeaderLen
<1> QED
  BY <1>1, <1>2, <1>3, <1>4

\* Frame k + 1 begins where frame k ends, and no frame reaches into a later one.
LEMMA StreamLayout ==
  ASSUME Wire_TypeOK, Laid, NEW s \in Sides
  PROVE  /\ End(s) \in Nat /\ Start(s, 1) = 0 /\ Start(s, Len(frames[s]) + 1) = End(s)
         /\ \A k \in 1..Len(frames[s]) :
              /\ Start(s, k) = frames[s][k].at
              /\ Start(s, k + 1) = Start(s, k) + 4 + frames[s][k].size
         /\ \A k \in 1..(Len(frames[s]) + 1) : Start(s, k) \in Nat
         /\ \A j, k \in 1..(Len(frames[s]) + 1) : j < k => Start(s, j) + 4 <= Start(s, k)
<1> DEFINE f == frames[s]
           l == Len(f)
<1>1. f \in Seq(Frame) /\ InARow(f)
  BY DEF Wire_TypeOK, Laid
<1>2. /\ l \in Nat /\ DOMAIN f = 1..l
      /\ (f = <<>>) <=> (l = 0)
      /\ \A k \in 1..l :
           /\ f[k] \in Frame /\ f[k].at \in Nat /\ f[k].size \in 0..MaxFrame
           /\ After(f[k]) = f[k].at + 4 + f[k].size
           /\ After(f[k]) \in Nat /\ f[k].at + 4 <= After(f[k])
  BY <1>1, FrameTypes, WireAssumption
<1>3. /\ f # <<>> => f[1].at = 0
      /\ \A k \in 1..l : k + 1 \in 1..l => f[k + 1].at = After(f[k])
      /\ \A j, k \in 1..l : j < k => After(f[j]) <= f[k].at
  BY <1>1, <1>2 DEF InARow
<1>4. /\ f = <<>> => End(s) = 0
      /\ f # <<>> => End(s) = After(f[l])
      /\ \A k \in 1..l : Start(s, k) = f[k].at
      /\ Start(s, l + 1) = End(s)
  BY <1>2 DEF End, Start
<1> HIDE DEF f, l
<1>5. End(s) \in Nat /\ Start(s, 1) = 0
  <2>1. CASE f = <<>>
    BY <2>1, <1>2, <1>4
  <2>2. CASE f # <<>>
    BY <2>2, <1>2, <1>3, <1>4
  <2> QED
    BY <2>1, <2>2
<1>6. ASSUME NEW k \in 1..l
      PROVE  Start(s, k + 1) = Start(s, k) + 4 + f[k].size
  <2>1. CASE k = l
    BY <2>1, <1>2, <1>4
  <2>2. CASE k < l
    <3>1. k + 1 \in 1..l
      BY <2>2, <1>2
    <3>2. f[k + 1].at = After(f[k]) /\ After(f[k]) = f[k].at + 4 + f[k].size
      BY <3>1, <1>2, <1>3
    <3>3. Start(s, k + 1) = f[k + 1].at /\ Start(s, k) = f[k].at
      BY <3>1, <1>4
    <3> QED
      BY <3>2, <3>3
  <2>3. k = l \/ k < l
    BY <1>2
  <2> QED
    BY <2>1, <2>2, <2>3
<1>7. ASSUME NEW j \in 1..(l + 1), NEW k \in 1..(l + 1), j < k
      PROVE  Start(s, j) + 4 <= Start(s, k)
  <2>1. j \in 1..l
    BY <1>7, <1>2
  <2>2. CASE k \in 1..l
    <3>1. After(f[j]) <= f[k].at
      BY <2>1, <2>2, <1>7, <1>3
    <3>2. f[j].at + 4 <= After(f[j]) /\ {f[j].at, After(f[j]), f[k].at} \subseteq Nat
      BY <2>1, <2>2, <1>2
    <3>3. Start(s, j) = f[j].at /\ Start(s, k) = f[k].at
      BY <2>1, <2>2, <1>4
    <3> QED
      BY <3>1, <3>2, <3>3
  <2>3. CASE k = l + 1 /\ j = l
    BY <2>3, <2>1, <1>2, <1>4
  <2>4. CASE k = l + 1 /\ j < l
    <3>1. l \in 1..l /\ f # <<>>
      BY <2>1, <1>2
    <3>2. After(f[j]) <= f[l].at
      BY <3>1, <2>1, <2>4, <1>3
    <3>3. /\ f[j].at + 4 <= After(f[j]) /\ f[l].at + 4 <= After(f[l])
          /\ {f[j].at, f[l].at, After(f[j]), After(f[l])} \subseteq Nat
      BY <3>1, <2>1, <1>2
    <3>4. Start(s, j) = f[j].at /\ Start(s, k) = After(f[l])
      BY <3>1, <2>1, <2>4, <1>4
    <3> QED
      BY <3>2, <3>3, <3>4
  <2>5. \/ k \in 1..l
        \/ k = l + 1 /\ (j = l \/ j < l)
    BY <2>1, <1>2
  <2> QED
    BY <2>2, <2>3, <2>4, <2>5
<1>8. ASSUME NEW k \in 1..(l + 1) PROVE Start(s, k) \in Nat
  <2>1. k \in 1..l \/ k = l + 1
    BY <1>2
  <2> QED
    BY <2>1, <1>2, <1>4, <1>5
<1> QED
  BY <1>4, <1>5, <1>6, <1>7, <1>8 DEF f, l

\* A frame is whole exactly when the bytes written reach the next one.
LEMMA WholeFrames ==
  ASSUME Wire_TypeOK, Laid, NEW s \in Sides, Writer(s)
  PROVE  /\ Whole(s) \in 0..Len(frames[s])
         /\ Unwritten(s) \in Nat
         /\ Unwritten(s) = 0 => Whole(s) = Len(frames[s])
         /\ \A n \in 0..Len(frames[s]) : n <= Whole(s) <=> Start(s, n + 1) <= wrote[s]
<1> DEFINE l == Len(frames[s])
<1>1. /\ l \in Nat /\ wrote[s] \in Nat /\ wrote[s] <= End(s)
      /\ l # 0 => frames[s][l].at <= wrote[s]
  BY DEF Wire_TypeOK, Writer
<1>2. /\ End(s) \in Nat /\ Start(s, 1) = 0 /\ Start(s, l + 1) = End(s)
      /\ \A k \in 1..l : Start(s, k) = frames[s][k].at
      /\ \A k \in 1..(l + 1) : Start(s, k) \in Nat
      /\ \A j, k \in 1..(l + 1) : j < k => Start(s, j) + 4 <= Start(s, k)
  BY StreamLayout
<1>3. Whole(s) = l - (IF Unwritten(s) > 0 THEN 1 ELSE 0) /\ Unwritten(s) = End(s) - wrote[s]
  BY DEF Whole, Unwritten
<1> HIDE DEF l
<1>4. CASE End(s) = wrote[s]
  <2>1. Unwritten(s) = 0 /\ Whole(s) = l
    BY <1>4, <1>1, <1>2, <1>3
  <2>2. ASSUME NEW n \in 0..l PROVE Start(s, n + 1) <= wrote[s]
    <3>1. n + 1 = l + 1 \/ n + 1 < l + 1
      BY <1>1
    <3>2. n + 1 \in 1..(l + 1) /\ l + 1 \in 1..(l + 1)
      BY <1>1
    <3> QED
      BY <3>1, <3>2, <1>1, <1>2, <1>4
  <2> QED
    BY <2>1, <2>2, <1>1 DEF l
<1>5. CASE wrote[s] < End(s)
  <2>1. Unwritten(s) \in Nat /\ Unwritten(s) > 0 /\ Whole(s) = l - 1
    BY <1>5, <1>1, <1>2, <1>3
  <2>2. l # 0
    BY <1>5, <1>1, <1>2
  <2>3. Start(s, l) <= wrote[s]
    BY <2>2, <1>1, <1>2
  <2>4. ASSUME NEW n \in 0..l PROVE n <= l - 1 <=> Start(s, n + 1) <= wrote[s]
    <3>1. CASE n = l
      BY <3>1, <1>1, <1>2, <1>5
    <3>2. CASE n = l - 1
      BY <3>2, <2>3, <1>1
    <3>3. CASE n < l - 1
      <4>1. n + 1 \in 1..(l + 1) /\ l \in 1..(l + 1) /\ n + 1 < l
        BY <3>3, <2>2, <1>1
      <4> QED
        BY <4>1, <2>3, <3>3, <1>1, <1>2
    <3> QED
      BY <3>1, <3>2, <3>3, <1>1
  <2> QED
    BY <2>1, <2>2, <2>4, <1>1 DEF l
<1> QED
  BY <1>1, <1>2, <1>4, <1>5

\* A frame that is begun moves no other.
LEMMA BegunFrame ==
  ASSUME Wire_TypeOK, Laid, NEW s \in Sides, NEW n \in 0..MaxFrame,
         frames' = [frames EXCEPT ![s] = Append(@, [at |-> End(s), size |-> n])]
  PROVE  /\ frames' \in [Sides -> Seq(Frame)] /\ Laid'
         /\ Len(frames'[s]) = Len(frames[s]) + 1 /\ frames'[s] # <<>>
         /\ frames'[s][Len(frames'[s])].at = End(s) /\ End(s)' = End(s) + 4 + n
         /\ \A k \in 1..(Len(frames[s]) + 1) : Start(s, k)' = Start(s, k)
         /\ \A k \in 1..Len(frames[s]) : frames'[s][k] = frames[s][k]
         /\ \A t \in Sides \ {s} : frames'[t] = frames[t] /\ End(t)' = End(t)
         /\ \A t \in Sides \ {s}, k \in Nat : Start(t, k)' = Start(t, k)
<1> DEFINE f == frames[s]
           l == Len(f)
           x == [at |-> End(s), size |-> n]
           g == Append(f, x)
<1>1. /\ End(s) \in Nat /\ Start(s, 1) = 0 /\ Start(s, l + 1) = End(s)
      /\ \A k \in 1..l :
           /\ Start(s, k) = f[k].at
           /\ Start(s, k + 1) = Start(s, k) + 4 + f[k].size
      /\ \A k \in 1..(l + 1) : Start(s, k) \in Nat
      /\ \A j, k \in 1..(l + 1) : j < k => Start(s, j) + 4 <= Start(s, k)
  BY StreamLayout
<1>2. f \in Seq(Frame) /\ x \in Frame /\ frames \in [Sides -> Seq(Frame)]
  BY <1>1 DEF Wire_TypeOK, Frame
<1>3. /\ l \in Nat /\ DOMAIN f = 1..l
      /\ (f = <<>>) <=> (l = 0)
      /\ \A k \in 1..l :
           /\ f[k].at \in Nat /\ f[k].size \in 0..MaxFrame
           /\ After(f[k]) = f[k].at + 4 + f[k].size
  BY <1>2, FrameTypes, WireAssumption
<1>4. /\ g \in Seq(Frame) /\ Len(g) = l + 1 /\ g # <<>> /\ g[l + 1] = x
      /\ DOMAIN g = 1..(l + 1)
      /\ \A k \in 1..l : g[k] = f[k]
  <2> HIDE DEF x
  <2> QED
    BY <1>2, <1>3
<1>5. /\ frames' \in [Sides -> Seq(Frame)] /\ frames'[s] = g
      /\ \A t \in Sides \ {s} : frames'[t] = frames[t]
  BY <1>2, <1>4
<1>6. x.at = End(s) /\ x.size = n /\ After(x) = End(s) + 4 + n
  BY <1>1 DEF After, HeaderLen
<1>7. \A k \in 1..(l + 1) : g[k].at = Start(s, k)
  <2> HIDE DEF g, x, f, l
  <2>1. \A k \in 1..l : g[k].at = Start(s, k)
    BY <1>1, <1>4
  <2>2. g[l + 1].at = Start(s, l + 1)
    BY <1>1, <1>4, <1>6
  <2>3. \A k \in 1..(l + 1) : k \in 1..l \/ k = l + 1
    BY <1>3
  <2> QED
    BY <2>1, <2>2, <2>3
<1>8. /\ End(s)' = End(s) + 4 + n
      /\ \A k \in 1..(l + 1) : Start(s, k)' = Start(s, k)
  <2> HIDE DEF g, x, f, l
  <2>1. End(s)' = After(g[Len(g)])
    BY <1>4, <1>5 DEF End, After
  <2>2. ASSUME NEW k \in 1..(l + 1) PROVE Start(s, k)' = g[k].at
    BY <1>4, <1>5 DEF Start
  <2> QED
    BY <2>1, <2>2, <1>4, <1>6, <1>7
<1>9. \A t \in Sides \ {s} : End(t)' = End(t) /\ \A k \in Nat : Start(t, k)' = Start(t, k)
  BY <1>5 DEF End, Start, After
<1>10. InARow(g)
  <2> HIDE DEF g, x, f, l
  <2>1. g[1].at = 0
    BY <1>1, <1>3, <1>7
  <2>2. ASSUME NEW k \in 1..l PROVE After(g[k]) = Start(s, k + 1) /\ g[k + 1].at = After(g[k])
    <3>1. k + 1 \in 1..(l + 1)
      BY <1>3
    <3>2. g[k] = f[k] /\ After(f[k]) = f[k].at + 4 + f[k].size
      BY <1>3, <1>4
    <3>3. Start(s, k) = f[k].at /\ Start(s, k + 1) = Start(s, k) + 4 + f[k].size
      BY <1>1
    <3>4. g[k + 1].at = Start(s, k + 1)
      BY <3>1, <1>7
    <3> QED
      BY <3>2, <3>3, <3>4
  <2>3. ASSUME NEW j \in 1..l, NEW k \in 1..(l + 1), j < k
        PROVE  After(g[j]) <= g[k].at
    <3>1. After(g[j]) = Start(s, j + 1) /\ g[k].at = Start(s, k)
      BY <2>2, <1>7
    <3>2. j + 1 = k \/ (j + 1 < k /\ j + 1 \in 1..(l + 1))
      BY <2>3, <1>3
    <3> QED
      BY <3>1, <3>2, <1>1
  <2> QED
    BY <2>1, <2>2, <2>3, <1>3, <1>4 DEF InARow
<1>11. Laid'
  <2>1. \A t \in Sides \ {s} : InARow(frames[t])
    BY DEF Laid
  <2>2. ASSUME NEW t \in Sides PROVE InARow(frames'[t])
    BY <2>1, <1>5, <1>10
  <2>3. \A t \in Sides : InARow(frames'[t])
    BY <2>2
  <2> QED
    BY <2>3 DEF Laid, InARow, After
<1> QED
  BY <1>4, <1>5, <1>6, <1>8, <1>9, <1>11
-----------------------------------------------------------------------------
(* Steps. *)

\* The parts of the invariant.
LEMMA Known ==
  IInv => Wire_TypeOK /\ Laid /\ Turns /\ \A s \in Sides : Writer(s) /\ Reader(s)
BY DEF IInv, Streams

\* As long as nothing is begun or written, both streams are what they were.
LEMMA SameStreams ==
  ASSUME UNCHANGED frames
  PROVE  /\ Laid' = Laid
         /\ \A s \in Sides : End(s)' = End(s)
         /\ \A s \in Sides : \A k : Start(s, k)' = Start(s, k)
         /\ wrote' = wrote => \A s \in Sides : Unwritten(s)' = Unwritten(s) /\ Whole(s)' = Whole(s)
BY DEF Laid, InARow, After, End, Start, Unwritten, Whole

\* A step that is one side's own and moves no stream: the other's view stays.
LEMMA OwnStep ==
  ASSUME IInv, NEW s \in Sides,
         UNCHANGED <<frames, wrote>>, Wire_TypeOK', Turns', Reader(s)',
         \A t \in Sides \ {s} :
           /\ taken'[t] = taken[t] /\ got'[t] = got[t] /\ pc'[t] = pc[t]
           /\ want'[t] = want[t] /\ ended'[t] = ended[t],
         pc[s] = "gone" => pc'[s] = "gone",
         pc[s] = "writing" => Unwritten(s) = 0 \/ pc'[s] \in {"writing", "gone"}
  PROVE  IInv'
<1>1. Wire_TypeOK /\ Laid /\ Turns /\ \A t \in Sides : Writer(t) /\ Reader(t)
  BY Known
<1>2. /\ Laid' = Laid
      /\ \A t \in Sides : End(t)' = End(t)
      /\ \A t \in Sides : \A k : Start(t, k)' = Start(t, k)
      /\ \A t \in Sides : Unwritten(t)' = Unwritten(t) /\ Whole(t)' = Whole(t)
  BY SameStreams
<1>3. \A t \in Sides : Other(t) \in Sides /\ Other(t) # t
  BY TwoSides
<1>4. ASSUME NEW t \in Sides, t # s PROVE Reader(t)'
  <2>1. Reader(t) /\ Other(t) \in Sides
    BY <1>1, <1>3
  <2>2. ~Alive(Other(t)) => ~Alive(Other(t))'
    BY <1>3, <1>4, TwoSides DEF Alive
  <2>3. Alive(t)' = Alive(t)
    BY <1>4 DEF Alive
  <2> QED
    BY <2>1, <2>2, <2>3, <1>2, <1>4 DEF Reader
<1>5. ASSUME NEW t \in Sides PROVE Writer(t)'
  <2>1. Writer(t) /\ End(t) \in Nat /\ wrote[t] \in Nat
    BY <1>1, StreamLayout DEF Wire_TypeOK
  <2>2. t # s => pc'[t] = pc[t]
    OBVIOUS
  <2>3. Unwritten(t) = 0 => wrote[t] = End(t)
    BY <2>1 DEF Unwritten, Writer
  <2> QED
    BY <2>1, <2>2, <2>3, <1>2 DEF Writer
<1>6. \A t \in Sides : Writer(t)' /\ Reader(t)'
  BY <1>4, <1>5
<1> QED
  BY <1>1, <1>2, <1>6 DEF IInv, Streams

\* Some bytes more are read.
LEMMA TakeStep == ASSUME IInv, NEW s \in Sides, Take(s) PROVE IInv'
<1>1. Wire_TypeOK /\ Laid /\ Turns /\ Reader(s) /\ Other(s) \in Sides
  BY Known, TwoSides
<1>2. PICK n \in 1..want[s] :
        /\ n <= Unread(s)
        /\ taken' = [taken EXCEPT ![s] = @ + n]
        /\ want' = [want EXCEPT ![s] = @ - n]
  BY DEF Take
<1>3. /\ wrote[Other(s)] \in Nat /\ taken[s] \in Nat /\ got[s] \in Nat /\ want[s] \in Nat
      /\ n \in Nat /\ n <= want[s] /\ taken[s] + n <= wrote[Other(s)]
  BY <1>1, <1>2 DEF Wire_TypeOK, Unread
<1>4. UNCHANGED <<frames, wrote, got, pc, ended>> /\ pc[s] \in {"header", "body"}
  BY DEF Take
<1>5. Wire_TypeOK'
  <2>1. taken' \in [Sides -> Nat] /\ want' \in [Sides -> Nat]
    BY <1>1, <1>2, <1>3 DEF Wire_TypeOK
  <2> QED
    BY <2>1, <1>1, <1>4 DEF Wire_TypeOK
<1>6. Turns'
  BY <1>1, <1>4 DEF Turns
<1>7. Reader(s)'
  <2>1. \A k : Start(Other(s), k)' = Start(Other(s), k)
    BY <1>1, <1>4, SameStreams
  <2>2. taken'[s] = taken[s] + n /\ want'[s] = want[s] - n
    BY <1>1, <1>2 DEF Wire_TypeOK
  <2>3. got[s] + 1 \in 1..(Len(frames[Other(s)]) + 1)
    BY <1>1, <1>3 DEF Reader, Wire_TypeOK
  <2>4. Start(Other(s), got[s] + 1) \in Nat
    BY <2>3, <1>1, StreamLayout
  <2>5. ended[s] = "no"
    BY <1>1, <1>4 DEF Reader, Alive
  <2>6. got[s] < Len(frames[Other(s)]) => frames[Other(s)][got[s] + 1].size \in Nat
    <3>1. frames[Other(s)] \in Seq(Frame) /\ MaxFrame \in Nat
      BY <1>1, WireAssumption DEF Wire_TypeOK
    <3>2. Len(frames[Other(s)]) \in Nat
      BY <3>1
    <3>3. got[s] < Len(frames[Other(s)]) => got[s] + 1 \in 1..Len(frames[Other(s)])
      BY <3>2, <1>3
    <3> QED
      BY <3>1, <3>3, FrameTypes
  <2>7. taken'[s] <= wrote'[Other(s)] /\ got'[s] <= Len(frames'[Other(s)])
    BY <2>2, <1>1, <1>3, <1>4 DEF Reader
  <2>8. pc[s] = "header" =>
          want'[s] <= 4 /\ taken'[s] = Start(Other(s), got[s] + 1) + 4 - want'[s]
    BY <2>2, <2>4, <1>1, <1>3 DEF Reader, HeaderLen
  <2>9. pc[s] = "body" =>
          LET body == frames[Other(s)][got[s] + 1].size
          IN  /\ got[s] < Len(frames[Other(s)]) /\ want'[s] <= body
              /\ taken'[s] = Start(Other(s), got[s] + 1) + 4 + body - want'[s]
    <3> DEFINE o == Other(s)
               body == frames[o][got[s] + 1].size
               next == Start(o, got[s] + 1)
    <3> SUFFICES ASSUME pc[s] = "body"
                 PROVE  /\ got[s] < Len(frames[o]) /\ want'[s] <= body
                        /\ taken'[s] = next + 4 + body - want'[s]
      OBVIOUS
    <3>1. /\ got[s] < Len(frames[o]) /\ want[s] <= body
          /\ taken[s] = next + 4 + body - want[s]
      BY <1>1 DEF Reader, HeaderLen
    <3>2. next \in Nat /\ body \in Nat
      BY <3>1, <2>4, <2>6
    <3> HIDE DEF next, body, o
    <3> QED
      BY <3>1, <3>2, <2>2, <1>3
  <2>10. taken'[s] <= wrote[Other(s)] /\ got[s] <= Len(frames[Other(s)])
    BY <2>7, <1>4
  <2> QED
    BY <2>1, <2>5, <2>8, <2>9, <2>10, <1>4 DEF Reader, HeaderLen
<1> QED
  BY <1>2, <1>4, <1>5, <1>6, <1>7, OwnStep DEF Wire_TypeOK

\* What a reader needs to know of the stream it reads.
LEMMA ReadStream ==
  ASSUME IInv, NEW s \in Sides
  PROVE  LET o == Other(s)
             l == Len(frames[o])
         IN  /\ o \in Sides /\ o # s /\ l \in Nat /\ got[s] \in 0..l
             /\ wrote[o] \in Nat /\ taken[s] \in Nat /\ want[s] \in Nat
             /\ wrote[o] <= End(o) /\ End(o) = Start(o, l + 1)
             /\ Start(o, got[s] + 1) \in Nat
             /\ got[s] < l =>
                  /\ frames[o][got[s] + 1].size \in 0..MaxFrame
                  /\ frames[o][got[s] + 1].at = Start(o, got[s] + 1)
                  /\ Start(o, got[s] + 2) = Start(o, got[s] + 1) + 4 + frames[o][got[s] + 1].size
<1> DEFINE o == Other(s)
           l == Len(frames[o])
           k == got[s] + 1
<1>1. Wire_TypeOK /\ Laid /\ o \in Sides /\ o # s /\ Writer(o) /\ Reader(s)
  BY Known, TwoSides
<1>2. /\ frames[o] \in Seq(Frame) /\ l \in Nat /\ got[s] \in Nat
      /\ wrote[o] \in Nat /\ taken[s] \in Nat /\ want[s] \in Nat
  BY <1>1 DEF Wire_TypeOK
<1>3. got[s] <= l /\ wrote[o] <= End(o)
  BY <1>1 DEF Reader, Writer
<1>4. /\ End(o) = Start(o, l + 1)
      /\ \A j \in 1..l : Start(o, j) = frames[o][j].at /\ Start(o, j + 1) = Start(o, j) + 4 + frames[o][j].size
      /\ \A j \in 1..(l + 1) : Start(o, j) \in Nat
  BY <1>1, StreamLayout
<1>5. \A j \in 1..l : frames[o][j].size \in 0..MaxFrame
  BY <1>2, FrameTypes, WireAssumption
<1>6. k \in 1..(l + 1) /\ k + 1 = got[s] + 2 /\ (got[s] < l => k \in 1..l)
  BY <1>2, <1>3
<1> HIDE DEF o, l, k
<1>7. /\ Start(o, k) \in Nat
      /\ got[s] < l =>
           /\ frames[o][k].size \in 0..MaxFrame
           /\ frames[o][k].at = Start(o, k)
           /\ Start(o, got[s] + 2) = Start(o, k) + 4 + frames[o][k].size
  BY <1>4, <1>5, <1>6
<1>8. got[s] \in 0..l
  BY <1>2, <1>3
<1> QED
  BY <1>1, <1>2, <1>3, <1>4, <1>7, <1>8 DEF o, l, k

\* The length a reader finds is that of the frame it has come to.
LEMMA LengthFound ==
  ASSUME IInv, NEW s \in Sides, pc[s] = "header", want[s] = 0
  PROVE  /\ got[s] < Len(frames[Other(s)])
         /\ taken[s] = Start(Other(s), got[s] + 1) + 4
         /\ LengthAt(Other(s), taken[s] - HeaderLen) = frames[Other(s)][got[s] + 1].size
<1> DEFINE o == Other(s)
           l == Len(frames[o])
           k == got[s] + 1
<1>1. /\ o \in Sides /\ l \in Nat /\ got[s] \in 0..l
      /\ wrote[o] \in Nat /\ taken[s] \in Nat
      /\ wrote[o] <= End(o) /\ End(o) = Start(o, l + 1) /\ Start(o, k) \in Nat
      /\ got[s] < l => frames[o][k].at = Start(o, k)
  BY ReadStream
<1>2. Wire_TypeOK /\ Laid /\ Reader(s)
  BY Known
<1>3. taken[s] <= wrote[o] /\ taken[s] = Start(o, k) + 4
  BY <1>1, <1>2 DEF Reader, HeaderLen
<1>4. /\ \A j \in 1..l : Start(o, j) = frames[o][j].at
      /\ \A j \in 1..(l + 1) : Start(o, j) \in Nat
      /\ \A i, j \in 1..(l + 1) : i < j => Start(o, i) + 4 <= Start(o, j)
  BY <1>1, <1>2, StreamLayout
<1>5. DOMAIN frames[o] = 1..l
  BY <1>1, <1>2 DEF Wire_TypeOK
<1> HIDE DEF o, l
<1>6. got[s] < l
  <2>1. got[s] # l
    BY <1>1, <1>3
  <2> QED
    BY <2>1, <1>1
<1>7. k \in 1..l /\ Start(o, k) = taken[s] - HeaderLen
  BY <1>1, <1>3, <1>6 DEF HeaderLen
<1>8. ASSUME NEW j \in 1..l, Start(o, j) = Start(o, k) PROVE j = k
  <2>1. j \in 1..(l + 1) /\ k \in 1..(l + 1)
    BY <1>1, <1>7
  <2>2. ~(j < k) /\ ~(k < j)
    <3> HIDE DEF k
    <3> QED
      BY <2>1, <1>4, <1>8
  <2> QED
    BY <2>1, <2>2, <1>1
<1>9. {j \in DOMAIN frames[o] : frames[o][j].at = taken[s] - HeaderLen} = {k}
  <2> HIDE DEF k
  <2> QED
    BY <1>4, <1>5, <1>7, <1>8
<1>10. LengthAt(o, taken[s] - HeaderLen) = frames[o][k].size
  <2> HIDE DEF k
  <2>1. (CHOOSE j \in {k} : TRUE) = k
    OBVIOUS
  <2> QED
    BY <1>9, <2>1 DEF LengthAt
<1> QED
  BY <1>3, <1>6, <1>10 DEF o, l

\* A length is read.
LEMMA HeaderReadStep == ASSUME IInv, NEW s \in Sides, HeaderRead(s) PROVE IInv'
<1> DEFINE o == Other(s)
           size == frames[o][got[s] + 1].size
<1>1. Wire_TypeOK /\ Laid /\ Turns /\ Reader(s)
  BY Known
<1>2. pc[s] = "header" /\ want[s] = 0 /\ UNCHANGED <<frames, wrote, taken, got>>
  BY DEF HeaderRead
<1>3. /\ got[s] < Len(frames[o]) /\ taken[s] = Start(o, got[s] + 1) + 4
      /\ LengthAt(o, taken[s] - HeaderLen) = size
  BY <1>2, LengthFound
<1>4. size \in 0..MaxFrame /\ ~(size > MaxFrame) /\ o \in Sides /\ Start(o, got[s] + 1) \in Nat
  BY <1>3, ReadStream, WireAssumption
<1> HIDE DEF size
<1>5. pc' = [pc EXCEPT ![s] = "body"] /\ want' = [want EXCEPT ![s] = size] /\ ended' = ended
  BY <1>3, <1>4 DEF HeaderRead, Goto
<1>6. Wire_TypeOK'
  <2>1. want' \in [Sides -> Nat]
    BY <1>1, <1>4, <1>5 DEF Wire_TypeOK
  <2>2. pc' \in [Sides -> PCs] /\ pc'["daemon"] # "ready"
    BY <1>1, <1>5 DEF Wire_TypeOK, PCs, Sides
  <2> QED
    BY <2>1, <2>2, <1>1, <1>2, <1>5 DEF Wire_TypeOK
<1>7. Turns'
  BY <1>1, <1>2, <1>5 DEF Turns, Wire_TypeOK
<1>8. Reader(s)'
  <2>1. Start(o, got[s] + 1)' = Start(o, got[s] + 1)
    BY <1>2, <1>4, SameStreams
  <2>2. pc'[s] = "body" /\ want'[s] = size /\ ended'[s] = "no"
    BY <1>1, <1>2, <1>5 DEF Wire_TypeOK, Reader, Alive
  <2>3. taken[s] = Start(o, got[s] + 1) + HeaderLen + size - size
    BY <1>3, <1>4 DEF HeaderLen
  <2> QED
    BY <2>1, <2>2, <2>3, <1>1, <1>2, <1>3, <1>4 DEF Reader, size
<1> QED
  BY <1>2, <1>5, <1>6, <1>7, <1>8, OwnStep DEF Wire_TypeOK

\* A frame is read.
LEMMA BodyReadStep == ASSUME IInv, NEW s \in Sides, BodyRead(s) PROVE IInv'
<1> DEFINE o == Other(s)
<1>1. Wire_TypeOK /\ Laid /\ Turns /\ Reader(s)
  BY Known
<1>2. /\ pc[s] = "body" /\ want[s] = 0 /\ UNCHANGED <<frames, wrote, taken, want, ended>>
      /\ got' = [got EXCEPT ![s] = @ + 1] /\ pc' = [pc EXCEPT ![s] = "decoding"]
  BY DEF BodyRead, Goto
<1>3. /\ o \in Sides /\ Len(frames[o]) \in Nat /\ got[s] \in Nat
      /\ got[s] < Len(frames[o]) /\ taken[s] <= wrote[o] /\ taken[s] = Start(o, got[s] + 2)
  <2> DEFINE size == frames[o][got[s] + 1].size
             next == Start(o, got[s] + 1)
  <2>1. got[s] < Len(frames[o]) /\ taken[s] = next + HeaderLen + size - want[s]
    BY <1>1, <1>2 DEF Reader
  <2>2. size \in Nat /\ next \in Nat /\ Start(o, got[s] + 2) = next + 4 + size
    BY <2>1, ReadStream, WireAssumption
  <2>3. taken[s] = next + 4 + size
    <3> HIDE DEF size, next
    <3> QED
      BY <2>1, <2>2, <1>2 DEF HeaderLen
  <2> HIDE DEF o
  <2>4. o \in Sides /\ Len(frames[o]) \in Nat /\ got[s] \in Nat
    BY ReadStream DEF o
  <2>5. taken[s] <= wrote[o]
    BY <1>1 DEF Reader, o
  <2> QED
    BY <2>1, <2>2, <2>3, <2>4, <2>5
<1>4. got' \in [Sides -> Nat] /\ got'[s] = got[s] + 1 /\ pc'[s] = "decoding"
  BY <1>1, <1>2 DEF Wire_TypeOK
<1>5. Wire_TypeOK'
  <2>1. pc' \in [Sides -> PCs] /\ pc'["daemon"] # "ready"
    BY <1>1, <1>2 DEF Wire_TypeOK, PCs, Sides
  <2> QED
    BY <2>1, <1>1, <1>2, <1>4 DEF Wire_TypeOK
<1>6. Turns'
  <2>1. CASE s = "daemon"
    BY <2>1, <1>1, <1>2, <1>4 DEF Turns
  <2>2. CASE s # "daemon"
    BY <2>2, <1>1, <1>2 DEF Turns, Wire_TypeOK
  <2> QED
    BY <2>1, <2>2
<1>7. Reader(s)'
  <2>1. Start(o, got[s] + 1)' = taken'[s]
    <3>1. \A k : Start(o, k)' = Start(o, k)
      BY <1>2, <1>3, SameStreams
    <3>2. got'[s] + 1 = got[s] + 2
      BY <1>3, <1>4
    <3> QED
      BY <3>1, <3>2, <1>2, <1>3
  <2>2. ended'[s] = "no"
    BY <1>1, <1>2 DEF Reader, Alive
  <2>3. got'[s] <= Len(frames[o])
    <3> HIDE DEF o
    <3> QED
      BY <1>3, <1>4
  <2> QED
    BY <2>1, <2>2, <2>3, <1>2, <1>3, <1>4 DEF Reader, Alive
<1> QED
  BY <1>2, <1>5, <1>6, <1>7, OwnStep DEF Wire_TypeOK

\* A process ends, wherever it is in a frame.
LEMMA GoneStep ==
  ASSUME IInv, NEW s \in Sides, pc' = [pc EXCEPT ![s] = "gone"],
         UNCHANGED <<frames, wrote, taken, got, want, ended>>
  PROVE  IInv'
<1>1. Wire_TypeOK /\ Turns /\ Reader(s) /\ Other(s) \in Sides /\ Other(s) # s
  BY Known, TwoSides
<1>2. pc'[s] = "gone" /\ pc'[Other(s)] = pc[Other(s)]
  BY <1>1 DEF Wire_TypeOK
<1>3. Wire_TypeOK'
  <2>1. pc' \in [Sides -> PCs] /\ pc'["daemon"] # "ready"
    BY <1>1 DEF Wire_TypeOK, PCs, Sides
  <2> QED
    BY <2>1, <1>1 DEF Wire_TypeOK
<1>4. Turns'
  BY <1>1 DEF Turns, Wire_TypeOK
<1>5. Reader(s)'
  BY <1>1, <1>2, SameStreams DEF Reader, Alive
<1> QED
  BY <1>1, <1>2, <1>3, <1>4, <1>5, OwnStep DEF Wire_TypeOK

\* Where a stream ends, all that was sent whole has been read.
LEMMA EndOfStreamStep == ASSUME IInv, NEW s \in Sides, EndOfStream(s) PROVE IInv'
<1> DEFINE o == Other(s)
           l == Len(frames[o])
           next == Start(o, got[s] + 1)
<1>1. Wire_TypeOK /\ Laid /\ Turns /\ Reader(s) /\ Writer(o) /\ o \in Sides
  BY Known, TwoSides
<1>2. /\ pc[s] \in {"header", "body"} /\ want[s] > 0
      /\ Unread(s) = 0 /\ ~Alive(o) /\ pc' = [pc EXCEPT ![s] = "gone"]
      /\ UNCHANGED <<frames, wrote, taken, got, want>>
  BY DEF EndOfStream, Goto
<1>3. ended' \in [Sides -> {"no", "clean", "error"}] /\ \A t \in Sides \ {s} : ended'[t] = ended[t]
  BY <1>1 DEF EndOfStream, Wire_TypeOK
<1>4. /\ l \in Nat /\ got[s] \in 0..l /\ wrote[o] \in Nat /\ taken[s] = wrote[o]
      /\ want[s] \in Nat /\ next \in Nat
      /\ got[s] < l =>
           /\ frames[o][got[s] + 1].size \in Nat
           /\ Start(o, got[s] + 2) = next + 4 + frames[o][got[s] + 1].size
  <2>1. /\ l \in Nat /\ got[s] \in 0..l /\ wrote[o] \in Nat /\ taken[s] \in Nat
        /\ want[s] \in Nat /\ next \in Nat
        /\ got[s] < l =>
             /\ frames[o][got[s] + 1].size \in 0..MaxFrame
             /\ Start(o, got[s] + 2) = next + 4 + frames[o][got[s] + 1].size
    BY ReadStream
  <2>2. wrote[o] - taken[s] = 0
    BY <1>2 DEF Unread
  <2> HIDE DEF o, l, next
  <2>3. taken[s] = wrote[o]
    BY <2>1, <2>2
  <2>4. \A n \in 0..MaxFrame : n \in Nat
    BY WireAssumption
  <2> QED
    BY <2>1, <2>3, <2>4
<1>5. /\ Whole(o) \in 0..l
      /\ \A n \in 0..l : n <= Whole(o) <=> Start(o, n + 1) <= wrote[o]
  BY <1>1, WholeFrames
<1>6. next <= wrote[o] /\ (got[s] < l => wrote[o] < Start(o, got[s] + 2))
  <2>1. CASE pc[s] = "header"
    <3>1. want[s] <= 4 /\ taken[s] = next + 4 - want[s]
      BY <2>1, <1>1 DEF Reader, HeaderLen
    <3> HIDE DEF next, l, o
    <3> QED
      BY <3>1, <1>2, <1>4
  <2>2. CASE pc[s] = "body"
    <3> DEFINE body == frames[o][got[s] + 1].size
    <3>1. got[s] < l /\ want[s] <= body /\ taken[s] = next + 4 + body - want[s]
      BY <2>2, <1>1 DEF Reader, HeaderLen
    <3>2. body \in Nat /\ Start(o, got[s] + 2) = next + 4 + body
      BY <3>1, <1>4
    <3> HIDE DEF next, l, o, body
    <3> QED
      BY <3>1, <3>2, <1>2, <1>4
  <2> QED
    BY <2>1, <2>2, <1>2
<1>7. got[s] = Whole(o)
  <2> HIDE DEF l, o
  <2>1. got[s] <= Whole(o)
    BY <1>4, <1>5, <1>6
  <2>2. CASE got[s] = l
    BY <2>1, <2>2, <1>5, <1>4
  <2>3. CASE got[s] < l
    <3>1. got[s] + 1 \in 0..l /\ (got[s] + 1) + 1 = got[s] + 2
      BY <2>3, <1>4
    <3>2. Start(o, got[s] + 2) \in Nat
      BY <2>3, <1>4
    <3>3. ~(got[s] + 1 <= Whole(o))
      BY <3>1, <3>2, <2>3, <1>4, <1>5, <1>6
    <3> QED
      BY <3>3, <2>1, <1>4, <1>5
  <2> QED
    BY <2>2, <2>3, <1>4
<1>8. Wire_TypeOK'
  <2>1. pc' \in [Sides -> PCs] /\ pc'["daemon"] # "ready"
    BY <1>1, <1>2 DEF Wire_TypeOK, PCs, Sides
  <2> QED
    BY <2>1, <1>1, <1>2, <1>3 DEF Wire_TypeOK
<1>9. Turns'
  BY <1>1, <1>2 DEF Turns, Wire_TypeOK
<1>10. Reader(s)'
  <2>1. Whole(o)' = Whole(o)
    BY <1>1, <1>2, SameStreams
  <2>2. pc'[s] = "gone" /\ pc'[o] = "gone" /\ got'[s] = got[s]
    BY <1>1, <1>2, TwoSides DEF Alive, Wire_TypeOK
  <2>3. taken[s] <= wrote[o] /\ got[s] <= l
    <3> HIDE DEF o, l
    <3> QED
      BY <1>4
  <2> QED
    BY <2>1, <2>2, <2>3, <1>2, <1>7 DEF Reader, Alive
<1> QED
  BY <1>1, <1>2, <1>3, <1>8, <1>9, <1>10, OwnStep DEF Wire_TypeOK

\* A side that is between frames turns to read the next one, or to decide.
LEMMA TurnStep ==
  ASSUME IInv, NEW s \in Sides, NEW p \in {"header", "ready"},
         pc[s] \in {"ready", "decoding", "writing"}, pc[s] = "writing" => Unwritten(s) = 0,
         s = "daemon" => p = "header" /\ pc[s] = "writing",
         pc' = [pc EXCEPT ![s] = p],
         want' = IF p = "header" THEN [want EXCEPT ![s] = HeaderLen] ELSE want,
         UNCHANGED <<frames, wrote, taken, got, ended>>
  PROVE  IInv'
<1>1. Wire_TypeOK /\ Laid /\ Turns /\ Reader(s) /\ Other(s) \in Sides
  BY Known, TwoSides
<1>2. /\ pc'[s] = p /\ \A t \in Sides \ {s} : pc'[t] = pc[t] /\ want'[t] = want[t]
      /\ p = "header" => want'[s] = 4
  BY <1>1 DEF Wire_TypeOK, HeaderLen
<1>3. Wire_TypeOK'
  <2>1. pc' \in [Sides -> PCs] /\ pc'["daemon"] # "ready"
    BY <1>1 DEF Wire_TypeOK, PCs, Sides
  <2>2. want' \in [Sides -> Nat]
    BY <1>1 DEF Wire_TypeOK, HeaderLen
  <2> QED
    BY <2>1, <2>2, <1>1 DEF Wire_TypeOK
<1>4. Turns'
  BY <1>1, <1>2 DEF Turns, Sides
<1>5. Reader(s)'
  <2>1. Start(Other(s), got[s] + 1)' = Start(Other(s), got[s] + 1)
    BY <1>1, SameStreams
  <2>2. taken[s] = Start(Other(s), got[s] + 1) /\ taken[s] \in Nat
    BY <1>1 DEF Reader, Wire_TypeOK
  <2>3. taken[s] <= wrote[Other(s)] /\ got[s] <= Len(frames[Other(s)]) /\ ended[s] = "no"
    BY <1>1 DEF Reader, Alive
  <2>4. taken[s] = taken[s] + 4 - 4
    BY <2>2
  <2> QED
    BY <2>1, <2>2, <2>3, <2>4, <1>2 DEF Reader, HeaderLen
<1> QED
  BY <1>1, <1>2, <1>3, <1>4, <1>5, OwnStep DEF Wire_TypeOK

\* A frame is begun, behind the last one.
LEMMA BeginStep ==
  ASSUME IInv, NEW s \in Sides, NEW n \in 0..MaxFrame,
         pc[s] = IF s = "daemon" THEN "decoding" ELSE "ready",
         frames' = [frames EXCEPT ![s] = Append(@, [at |-> End(s), size |-> n])],
         pc' = [pc EXCEPT ![s] = "writing"],
         UNCHANGED <<wrote, taken, got, want, ended>>
  PROVE  IInv'
<1> DEFINE o == Other(s)
           l == Len(frames[s])
<1>1. /\ Wire_TypeOK /\ Laid /\ Turns /\ Reader(s) /\ Reader(o) /\ Writer(s) /\ Writer(o)
      /\ o \in Sides /\ o # s /\ Other(o) = s
  BY Known, TwoSides
<1>2. /\ frames' \in [Sides -> Seq(Frame)] /\ Laid'
      /\ Len(frames'[s]) = l + 1 /\ frames'[s] # <<>>
      /\ frames'[s][Len(frames'[s])].at = End(s) /\ End(s)' = End(s) + 4 + n
      /\ \A k \in 1..(l + 1) : Start(s, k)' = Start(s, k)
      /\ \A k \in 1..l : frames'[s][k] = frames[s][k]
      /\ frames'[o] = frames[o] /\ End(o)' = End(o)
      /\ \A k \in Nat : Start(o, k)' = Start(o, k)
  BY <1>1, BegunFrame
<1>3. /\ pc[s] \notin {"writing", "gone", "header", "body"} /\ pc[s] \in {"ready", "decoding"}
      /\ pc'[s] = "writing" /\ pc'[o] = pc[o]
  BY <1>1 DEF Wire_TypeOK
<1>4. /\ l \in Nat /\ End(s) \in Nat /\ wrote[s] \in Nat /\ got[s] \in Nat
      /\ got[o] \in 0..l /\ n \in Nat
  <2>1. got[o] \in 0..l /\ l \in Nat
    BY <1>1, ReadStream
  <2>2. End(s) \in Nat
    BY <1>1, StreamLayout
  <2>3. wrote[s] \in Nat /\ got[s] \in Nat
    BY <1>1 DEF Wire_TypeOK
  <2> QED
    BY <2>1, <2>2, <2>3, WireAssumption
<1>5. Wire_TypeOK'
  <2>1. pc' \in [Sides -> PCs] /\ pc'["daemon"] # "ready"
    BY <1>1 DEF Wire_TypeOK, PCs, Sides
  <2> QED
    BY <2>1, <1>1, <1>2 DEF Wire_TypeOK
<1>6. Turns'
  <2>1. CASE s = "daemon"
    BY <2>1, <1>1, <1>2, <1>3 DEF Turns
  <2>2. CASE s # "daemon"
    <3>1. o = "daemon"
      BY <2>2, TwoSides
    <3> QED
      BY <3>1, <1>1, <1>2, <1>3 DEF Turns
  <2> QED
    BY <2>1, <2>2
<1>7. Writer(s)' /\ Writer(o)'
  <2>1. wrote[s] = End(s)
    BY <1>1, <1>3 DEF Writer
  <2>2. Writer(s)'
    <3>1. wrote[s] <= End(s)' /\ frames'[s][Len(frames'[s])].at <= wrote[s]
      BY <2>1, <1>2, <1>4
    <3> QED
      BY <3>1, <1>3 DEF Writer
  <2>3. Writer(o)'
    BY <1>1, <1>2, <1>3 DEF Writer
  <2> QED
    BY <2>2, <2>3
<1>8. Reader(s)'
  <2>1. ended[s] = "no" /\ taken[s] = Start(o, got[s] + 1)
    BY <1>1, <1>3 DEF Reader, Alive
  <2>2. Start(o, got[s] + 1)' = Start(o, got[s] + 1)
    BY <1>2, <1>4
  <2>3. taken[s] <= wrote[o] /\ got[s] <= Len(frames'[o])
    BY <1>1, <1>2 DEF Reader
  <2> QED
    BY <2>1, <2>2, <2>3, <1>3 DEF Reader, Alive
<1>9. Reader(o)'
  <2> DEFINE m == got[o] + 1
             body == frames[s][m].size
  <2>1. /\ got[o] <= l /\ taken[o] <= wrote[s] /\ ended[o] = "no"
        /\ pc[o] = "header" => want[o] <= HeaderLen /\ taken[o] = Start(s, m) + HeaderLen - want[o]
        /\ pc[o] = "body" =>
             got[o] < l /\ want[o] <= body /\ taken[o] = Start(s, m) + HeaderLen + body - want[o]
        /\ pc[o] \in {"ready", "decoding", "writing"} => taken[o] = Start(s, m)
    BY <1>1, <1>3 DEF Reader, Alive
  <2>2. Start(s, m)' = Start(s, m)
    <3>1. m \in 1..(l + 1)
      BY <1>4
    <3> QED
      BY <3>1, <1>2
  <2>3. got[o] < l => m \in 1..l
    BY <1>4
  <2>4. got[o] < l => frames'[s][m].size = body /\ got[o] < Len(frames'[s])
    BY <2>3, <1>2, <1>4
  <2>5. got[o] <= Len(frames'[s])
    BY <1>2, <1>4
  <2> QED
    BY <2>1, <2>2, <2>4, <2>5, <1>1, <1>3 DEF Reader, Alive
<1>10. \A t \in Sides : Writer(t)' /\ Reader(t)'
  BY <1>7, <1>8, <1>9, TwoSides
<1> QED
  BY <1>2, <1>5, <1>6, <1>10 DEF IInv, Streams

\* Some bytes more are written.
LEMMA PutStep == ASSUME IInv, NEW s \in Sides, Put(s) PROVE IInv'
<1> DEFINE o == Other(s)
<1>1. /\ Wire_TypeOK /\ Laid /\ Turns /\ Reader(s) /\ Reader(o) /\ Writer(s) /\ Writer(o)
      /\ o \in Sides /\ o # s /\ Other(o) = s
  BY Known, TwoSides
<1>2. /\ pc[s] = "writing" /\ Alive(o)
      /\ UNCHANGED <<frames, taken, got, pc, want, ended>>
  BY DEF Put
<1>3. PICK n \in 1..Unwritten(s) : wrote' = [wrote EXCEPT ![s] = @ + n]
  BY DEF Put
<1>4. wrote[s] \in Nat /\ End(s) \in Nat /\ taken[o] \in Nat /\ n \in Nat
  <2>1. wrote[s] \in Nat /\ taken[o] \in Nat
    BY <1>1 DEF Wire_TypeOK
  <2>2. End(s) \in Nat
    BY <1>1, StreamLayout
  <2> QED
    BY <2>1, <2>2, <1>3 DEF Unwritten
<1>5. wrote' \in [Sides -> Nat] /\ wrote'[s] = wrote[s] + n /\ wrote'[o] = wrote[o]
  BY <1>1, <1>3, <1>4 DEF Wire_TypeOK
<1>6. Wire_TypeOK' /\ Turns' /\ Laid'
  BY <1>1, <1>2, <1>5, SameStreams DEF Wire_TypeOK, Turns
<1>7. Writer(s)' /\ Writer(o)'
  <2>1. End(s)' = End(s) /\ End(o)' = End(o)
    BY <1>1, <1>2, SameStreams
  <2>2. wrote[s] + n <= End(s)
    BY <1>3, <1>4 DEF Unwritten
  <2>3. frames[s] # <<>> => frames[s][Len(frames[s])].at <= wrote[s] + n
    <3> DEFINE f == frames[s]
               last == f[Len(f)].at
    <3>1. f # <<>> => last \in Nat
      <4>1. f \in Seq(Frame)
        BY <1>1 DEF Wire_TypeOK
      <4>2. f # <<>> => Len(f) \in 1..Len(f)
        BY <4>1
      <4> QED
        BY <4>1, <4>2, FrameTypes, WireAssumption
    <3>2. f # <<>> => last <= wrote[s]
      BY <1>1 DEF Writer
    <3>3. f # <<>> => last <= wrote[s] + n
      <4> HIDE DEF last
      <4> QED
        BY <3>1, <3>2, <1>4
    <3> QED
      BY <3>3
  <2> QED
    BY <2>1, <2>2, <2>3, <1>1, <1>2, <1>5 DEF Writer
<1>8. Reader(s)'
  <2>1. ended[s] = "no" /\ \A k : Start(o, k)' = Start(o, k)
    BY <1>1, <1>2, SameStreams DEF Reader, Alive
  <2> QED
    BY <2>1, <1>1, <1>2, <1>5 DEF Reader
<1>9. Reader(o)'
  <2>1. ended[o] = "no" /\ \A k : Start(s, k)' = Start(s, k)
    BY <1>1, <1>2, SameStreams DEF Reader, Alive
  <2>2. taken[o] <= wrote[s]
    BY <1>1 DEF Reader
  <2>3. taken[o] <= wrote'[s]
    BY <2>2, <1>4, <1>5
  <2> QED
    BY <2>1, <2>3, <1>1, <1>2, <1>5 DEF Reader
<1>10. \A t \in Sides : Writer(t)' /\ Reader(t)'
  BY <1>7, <1>8, <1>9, TwoSides
<1> QED
  BY <1>6, <1>10 DEF IInv, Streams

\* Both streams begin empty.
LEMMA InitIInv == Init => IInv
<1> SUFFICES ASSUME Init PROVE IInv
  OBVIOUS
<1>1. /\ \A s \in Sides :
           /\ frames[s] = <<>> /\ wrote[s] = 0 /\ taken[s] = 0 /\ got[s] = 0 /\ ended[s] = "no"
           /\ pc[s] \in {"header", "ready"} /\ (pc[s] = "header" => want[s] = 4)
  BY DEF Init, HeaderLen
<1>2. Wire_TypeOK
  <2>1. <<>> \in Seq(Frame)
    OBVIOUS
  <2> QED
    BY <2>1 DEF Init, Wire_TypeOK, PCs, Sides, HeaderLen
<1>3. Laid
  BY <1>1 DEF Laid, InARow
<1>4. Turns
  BY <1>1, Len(<<>>) = 0 DEF Turns, Sides, Init
<1>5. ASSUME NEW s \in Sides PROVE Writer(s) /\ Reader(s)
  <2>1. End(s) = 0 /\ Start(Other(s), 1) = 0 /\ Len(frames[Other(s)]) = 0 /\ Other(s) \in Sides
    BY <1>1, TwoSides DEF End, Start
  <2>2. 0 + 4 - 4 = 0 /\ 0 + 1 = 1
    OBVIOUS
  <2> QED
    BY <1>1, <2>1, <2>2 DEF Writer, Reader, HeaderLen
<1> QED
  BY <1>2, <1>3, <1>4, <1>5 DEF IInv, Streams

\* Whoever has something to send begins it or gives up.
LEMMA SendStep ==
  ASSUME IInv, NEW s \in Sides, NEW n \in Sizes, Begin(s, n),
         pc[s] = IF s = "daemon" THEN "decoding" ELSE "ready"
  PROVE  IInv'
<1>1. CASE n <= MaxFrame /\ frames' = [frames EXCEPT ![s] = Append(@, [at |-> End(s), size |-> n])]
           /\ pc' = [pc EXCEPT ![s] = "writing"]
  <2>1. n \in 0..MaxFrame
    BY <1>1, WireAssumption
  <2> QED
    BY <2>1, <1>1, BeginStep DEF Begin
<1>2. CASE UNCHANGED frames /\ pc' = [pc EXCEPT ![s] = "gone"]
  BY <1>2, GoneStep DEF Begin
<1> QED
  BY <1>1, <1>2 DEF Begin, Goto

\* One case per action.
LEMMA NextIInv == IInv /\ [Next]_vars => IInv'
<1> SUFFICES ASSUME IInv, [Next]_vars PROVE IInv'
  OBVIOUS
<1>1. ASSUME NEW s \in Sides, Stream(s) PROVE IInv'
  <2>1. CASE WriteFails(s)
    BY <2>1, GoneStep DEF WriteFails, Goto
  <2>2. CASE Written(s)
    <3>1. pc[s] = "writing" /\ Unwritten(s) = 0
      BY <2>2 DEF Written
    <3>2. CASE s = "daemon"
      BY <2>2, <3>1, <3>2, TurnStep DEF Written, ReadNext, Goto
    <3>3. CASE s # "daemon"
      BY <2>2, <3>1, <3>3, TurnStep DEF Written, Goto
    <3> QED
      BY <3>2, <3>3
  <2> QED
    BY <1>1, <2>1, <2>2, TakeStep, HeaderReadStep, BodyReadStep, EndOfStreamStep, PutStep DEF Stream
<1>2. ASSUME NEW s \in Sides, Exit(s) PROVE IInv'
  BY <1>2, GoneStep DEF Exit, Goto
<1>3. CASE AnswerRequest
  <2>1. pc["daemon"] = "decoding" /\ "daemon" \in Sides
    BY <1>3 DEF AnswerRequest, Sides
  <2>2. ASSUME NEW n \in Sizes, Begin("daemon", n) PROVE IInv'
    BY <2>1, <2>2, SendStep
  <2>3. CASE Goto("daemon", "gone") /\ UNCHANGED <<frames, wrote, taken, got, want, ended>>
    BY <2>1, <2>3, GoneStep DEF Goto
  <2> QED
    BY <1>3, <2>2, <2>3 DEF AnswerRequest
<1>4. CASE Call
  <2>1. PICK n \in Sizes : Begin("client", n)
    BY <1>4 DEF Call
  <2>2. pc["client"] = "ready" /\ "client" \in Sides
    BY <1>4 DEF Call, Sides
  <2> QED
    BY <2>1, <2>2, SendStep
<1>5. CASE Await
  <2>1. pc["client"] = "ready" /\ "client" \in Sides
    BY <1>5 DEF Await, Sides
  <2> QED
    BY <2>1, <1>5, TurnStep DEF Await, ReadNext, Goto
<1>6. CASE Return
  <2>1. pc["client"] = "decoding" /\ "client" \in Sides
    BY <1>6 DEF Return, Sides
  <2>2. CASE Goto("client", "ready")
    BY <2>1, <2>2, <1>6, TurnStep DEF Return, Goto
  <2>3. CASE Goto("client", "gone")
    BY <2>1, <2>3, <1>6, GoneStep DEF Return, Goto
  <2> QED
    BY <2>2, <2>3, <1>6 DEF Return
<1>7. CASE UNCHANGED vars
  <2>1. UNCHANGED <<frames, wrote, taken, got, pc, want, ended>>
    BY <1>7 DEF vars
  <2>2. Laid'
    BY <2>1, Known, SameStreams
  <2>3. ASSUME NEW s \in Sides PROVE Writer(s)' /\ Reader(s)'
    <3>1. Writer(s) /\ Reader(s) /\ Other(s) \in Sides
      BY Known, TwoSides
    <3>2. /\ End(s)' = End(s) /\ Whole(Other(s))' = Whole(Other(s))
          /\ \A k : Start(Other(s), k)' = Start(Other(s), k)
      BY <2>1, <3>1, SameStreams
    <3>3. Alive(s)' = Alive(s) /\ Alive(Other(s))' = Alive(Other(s))
      BY <2>1 DEF Alive
    <3> QED
      BY <2>1, <3>1, <3>2, <3>3 DEF Writer, Reader
  <2>4. Wire_TypeOK' /\ Turns'
    BY <2>1, Known DEF Wire_TypeOK, Turns
  <2> QED
    BY <2>2, <2>3, <2>4 DEF IInv, Streams
<1> QED
  BY <1>1, <1>2, <1>3, <1>4, <1>5, <1>6, <1>7 DEF Next
-----------------------------------------------------------------------------
\* Whatever frames are sent and however they are cut up on the way, both
\* streams keep their layout and both readers know where they are (wire.rs).
THEOREM Invariance == Spec => []IInv
<1>1. Init => IInv
  BY InitIInv
<1>2. IInv /\ [Next]_vars => IInv'
  BY NextIInv
<1> QED
  BY <1>1, <1>2, PTL DEF Spec

\* A reader in a header is within the next frame's length, one in a body
\* within that frame's body: no frame is refused or made of two
\* (wire.rs:14-32).
THEOREM InStepCorrect == Spec => []InStep
<1>1. IInv => InStep
  BY DEF IInv, Streams, Reader, InStep
<1> QED
  BY <1>1, Invariance, PTL

\* Whoever finds the stream to end has read every frame that was sent whole
\* (wire.rs:14-21, main.rs:170-177).
THEOREM NothingSkippedCorrect == Spec => []NothingSkipped
<1>1. IInv => NothingSkipped
  BY DEF IInv, Streams, Reader, NothingSkipped
<1> QED
  BY <1>1, Invariance, PTL
-----------------------------------------------------------------------------
(* The protocol the loop is written for. *)

\* A frame that is read has been there to the last byte; if it is a request,
\* the one before it is answered.
LEMMA ReadIsCall ==
  ASSUME IInv, NEW s \in Sides, BodyRead(s)
  PROVE  (s = "daemon" /\ Calls!Handle) \/ (s = "client" /\ Calls!Get)
<1> DEFINE o == Other(s)
           l == Len(frames[o])
<1>1. /\ Wire_TypeOK /\ Laid /\ Turns /\ Reader(s) /\ Writer(o) /\ Writer(s)
      /\ o \in Sides /\ o # s
  BY Known, TwoSides
<1>2. /\ pc[s] = "body" /\ want[s] = 0 /\ UNCHANGED <<frames, wrote>>
      /\ got' = [got EXCEPT ![s] = @ + 1]
  BY DEF BodyRead
<1>3. got'[s] = got[s] + 1 /\ got'[o] = got[o] /\ got[s] \in Nat
  BY <1>1, <1>2 DEF Wire_TypeOK
<1>4. Whole("client")' = Whole("client") /\ Whole("daemon")' = Whole("daemon")
  BY <1>2, SameStreams, TwoSides
<1>5. got[s] < Whole(o)
  <2> DEFINE size == frames[o][got[s] + 1].size
             next == Start(o, got[s] + 1)
  <2>1. got[s] < l /\ taken[s] <= wrote[o] /\ taken[s] = next + 4 + size - 0
    BY <1>1, <1>2 DEF Reader, HeaderLen
  <2>2. size \in 0..MaxFrame /\ next \in Nat /\ Start(o, got[s] + 2) = next + 4 + size /\ l \in Nat
    BY <2>1, ReadStream
  <2>3. \A n \in 0..l : n <= Whole(o) <=> Start(o, n + 1) <= wrote[o]
    BY <1>1, WholeFrames
  <2>4. Whole(o) \in 0..l
    BY <1>1, WholeFrames
  <2>5. taken[s] = Start(o, got[s] + 2)
    <3> HIDE DEF next, size
    <3> QED
      BY <2>1, <2>2, WireAssumption
  <2> HIDE DEF l, o
  <2>6. got[s] + 1 \in 0..l /\ (got[s] + 1) + 1 = got[s] + 2
    BY <2>1, <2>2, <1>3
  <2>7. got[s] + 1 <= Whole(o)
    BY <2>1, <2>3, <2>5, <2>6
  <2> QED
    BY <2>4, <2>7, <2>2, <1>3
<1>6. CASE s = "daemon"
  <2>1. o = "client"
    BY <1>6, TwoSides
  <2>2. Len(frames["daemon"]) = got["daemon"]
    BY <1>6, <1>1, <1>2 DEF Turns
  <2>3. wrote["daemon"] = End("daemon") /\ wrote["daemon"] \in Nat
    BY <1>6, <1>1, <1>2 DEF Writer, Wire_TypeOK
  <2>4. Whole("daemon") = got["daemon"]
    <3>1. Unwritten("daemon") = 0
      BY <2>3 DEF Unwritten
    <3> QED
      BY <3>1, <2>2, <1>1, <1>6, WholeFrames
  <2> QED
    BY <2>1, <2>4, <1>3, <1>4, <1>5, <1>6 DEF Calls!Handle
<1>7. CASE s = "client"
  <2>1. o = "daemon"
    BY <1>7, TwoSides
  <2> QED
    BY <2>1, <1>3, <1>4, <1>5, <1>7 DEF Calls!Get
<1> QED
  BY <1>6, <1>7 DEF Sides

\* A frame counts as sent with its last byte.
LEMMA PutIsCall ==
  ASSUME IInv, NEW s \in Sides, Put(s)
  PROVE  \/ s = "client" /\ Calls!Ask
         \/ s = "daemon" /\ Calls!Answer
         \/ UNCHANGED <<Whole("client"), Whole("daemon"), got["daemon"], got["client"]>>
<1> DEFINE o == Other(s)
           l == Len(frames[s])
<1>1. Wire_TypeOK /\ Laid /\ Turns /\ Writer(s) /\ o \in Sides /\ o # s
  BY Known, TwoSides
<1>2. pc[s] = "writing" /\ UNCHANGED <<frames, got>>
  BY DEF Put
<1>3. PICK n \in 1..Unwritten(s) : wrote' = [wrote EXCEPT ![s] = @ + n]
  BY DEF Put
<1>4. Unwritten(s) \in Nat /\ n \in Nat /\ n >= 1 /\ Unwritten(s) >= n /\ l \in Nat /\ wrote[s] \in Nat
      /\ End(s) \in Nat
  <2>1. Unwritten(s) \in Nat
    BY <1>1, WholeFrames
  <2>2. l \in Nat /\ wrote[s] \in Nat
    BY <1>1 DEF Wire_TypeOK
  <2>3. End(s) \in Nat
    BY <1>1, StreamLayout
  <2> HIDE DEF l
  <2> QED
    BY <2>1, <2>2, <2>3, <1>3
<1>5. wrote'[s] = wrote[s] + n /\ wrote'[o] = wrote[o]
  BY <1>1, <1>3 DEF Wire_TypeOK
<1>6. End(s)' = End(s) /\ End(o)' = End(o)
  BY <1>1, <1>2, SameStreams
<1>7. Whole(o)' = Whole(o)
  BY <1>2, <1>5, <1>6 DEF Whole, Unwritten
<1>8. Whole(s) = l - 1 /\ (Whole(s)' = l \/ Whole(s)' = l - 1)
  <2>1. Unwritten(s)' = End(s) - (wrote[s] + n) /\ Unwritten(s) = End(s) - wrote[s]
    BY <1>5, <1>6 DEF Unwritten
  <2>2. Whole(s) = l - (IF Unwritten(s) > 0 THEN 1 ELSE 0)
    BY DEF Whole
  <2>3. Whole(s)' = l - (IF Unwritten(s)' > 0 THEN 1 ELSE 0)
    BY <1>2 DEF Whole
  <2> HIDE DEF l
  <2> QED
    BY <2>1, <2>2, <2>3, <1>4
<1>9. CASE s = "daemon"
  <2>1. l = got["daemon"] /\ o = "client"
    BY <1>9, <1>1, <1>2, TwoSides DEF Turns
  <2>2. Whole("daemon") < got["daemon"] /\ (Whole("daemon")' = Whole("daemon") + 1 \/ Whole("daemon")' = Whole("daemon"))
    <3> HIDE DEF l
    <3> QED
      BY <2>1, <1>4, <1>8, <1>9
  <2> QED
    BY <2>1, <2>2, <1>2, <1>7, <1>9 DEF Calls!Answer
<1>10. CASE s = "client"
  <2>1. o = "daemon"
    BY <1>10, TwoSides
  <2>2. Whole("client")' = Whole("client") + 1 \/ Whole("client")' = Whole("client")
    <3> HIDE DEF l
    <3> QED
      BY <1>4, <1>8, <1>10
  <2> QED
    BY <2>1, <2>2, <1>2, <1>7, <1>10 DEF Calls!Ask
<1> QED
  BY <1>9, <1>10 DEF Sides

\* A frame begun is not yet a whole one.
LEMMA BeginIsSilent ==
  ASSUME IInv, NEW s \in Sides, NEW n \in Sizes, Begin(s, n),
         pc[s] = IF s = "daemon" THEN "decoding" ELSE "ready"
  PROVE  UNCHANGED <<Whole("client"), Whole("daemon"), got["daemon"], got["client"]>>
<1> DEFINE o == Other(s)
           l == Len(frames[s])
<1>1. Wire_TypeOK /\ Laid /\ Writer(s) /\ o \in Sides /\ o # s
  BY Known, TwoSides
<1>2. UNCHANGED <<wrote, got>>
  BY DEF Begin
<1>3. Whole(s)' = Whole(s) /\ Whole(o)' = Whole(o)
  <2>1. CASE UNCHANGED frames
    BY <2>1, <1>1, <1>2, SameStreams
  <2>2. CASE n <= MaxFrame /\ frames' = [frames EXCEPT ![s] = Append(@, [at |-> End(s), size |-> n])]
    <3>1. n \in 0..MaxFrame /\ n \in Nat
      BY <2>2, WireAssumption
    <3>2. /\ Len(frames'[s]) = l + 1 /\ End(s)' = End(s) + 4 + n
          /\ frames'[o] = frames[o] /\ End(o)' = End(o)
      BY <3>1, <2>2, <1>1, BegunFrame
    <3>3. wrote[s] = End(s) /\ End(s) \in Nat /\ l \in Nat
      BY <1>1, StreamLayout DEF Writer, Wire_TypeOK
    <3>4. Unwritten(s) = 0 /\ Unwritten(s)' = 4 + n
      BY <3>1, <3>2, <3>3, <1>2 DEF Unwritten
    <3>5. Whole(s) = l /\ Whole(s)' = (l + 1) - 1
      <4>1. Whole(s)' = (l + 1) - (IF Unwritten(s)' > 0 THEN 1 ELSE 0)
        BY <3>2 DEF Whole
      <4>2. Whole(s) = l - (IF Unwritten(s) > 0 THEN 1 ELSE 0)
        BY DEF Whole
      <4> HIDE DEF l
      <4> QED
        BY <4>1, <4>2, <3>1, <3>3, <3>4
    <3>6. Whole(o)' = Whole(o)
      BY <3>2, <1>2 DEF Whole, Unwritten
    <3> QED
      BY <3>3, <3>5, <3>6
  <2> QED
    BY <2>1, <2>2 DEF Begin
<1>4. Whole("client")' = Whole("client") /\ Whole("daemon")' = Whole("daemon")
  BY <1>3, TwoSides
<1> QED
  BY <1>2, <1>4

\* Every step is one of RequestReply's, or none of its business.
LEMMA StepIsCall == IInv /\ [Next]_vars => [Calls!Next]_(Calls!callVars)
<1> SUFFICES ASSUME IInv, [Next]_vars PROVE [Calls!Next]_(Calls!callVars)
  OBVIOUS
<1> DEFINE Silent == UNCHANGED <<Whole("client"), Whole("daemon"), got["daemon"], got["client"]>>
<1>1. ASSUME UNCHANGED <<frames, wrote, got>> PROVE Silent
  BY <1>1, SameStreams, TwoSides
<1>2. \/ Silent \/ Calls!Next
  <2>1. ASSUME NEW s \in Sides, Stream(s) PROVE Silent \/ Calls!Next
    <3>1. CASE BodyRead(s)
      BY <3>1, ReadIsCall DEF Calls!Next
    <3>2. CASE Put(s)
      BY <3>2, PutIsCall DEF Calls!Next
    <3>3. CASE Take(s) \/ HeaderRead(s) \/ EndOfStream(s) \/ WriteFails(s)
      BY <3>3, <1>1 DEF Take, HeaderRead, EndOfStream, WriteFails
    <3>4. CASE Written(s)
      BY <3>4, <1>1 DEF Written
    <3> QED
      BY <2>1, <3>1, <3>2, <3>3, <3>4 DEF Stream
  <2>2. ASSUME NEW s \in Sides, Exit(s) PROVE Silent
    BY <2>2, <1>1 DEF Exit
  <2>3. CASE AnswerRequest
    <3>1. pc["daemon"] = "decoding" /\ "daemon" \in Sides
      BY <2>3 DEF AnswerRequest, Sides
    <3>2. ASSUME NEW n \in Sizes, Begin("daemon", n) PROVE Silent
      BY <3>1, <3>2, BeginIsSilent
    <3>3. CASE UNCHANGED <<frames, wrote, got>>
      BY <3>3, <1>1
    <3> QED
      BY <2>3, <3>2, <3>3 DEF AnswerRequest
  <2>4. CASE Call
    <3>1. PICK n \in Sizes : Begin("client", n)
      BY <2>4 DEF Call
    <3>2. pc["client"] = "ready" /\ "client" \in Sides
      BY <2>4 DEF Call, Sides
    <3> QED
      BY <3>1, <3>2, BeginIsSilent
  <2>5. CASE Await \/ Return
    BY <2>5, <1>1 DEF Await, Return
  <2>6. CASE UNCHANGED vars
    BY <2>6, <1>1 DEF vars
  <2> QED
    BY <2>1, <2>2, <2>3, <2>4, <2>5, <2>6 DEF Next
<1> QED
  BY <1>2 DEF Calls!callVars

\* Short reads, torn streams and dead peers never turn into a request that was
\* not sent, a request handled twice or ahead of its turn, or an answer to
\* another request (main.rs serve(), cli.rs call()).
THEOREM Refinement == Spec => ImplementsRequestReply
<1>1. Init => Calls!Init
  <2> SUFFICES ASSUME Init PROVE Calls!Init
    OBVIOUS
  <2>1. \A s \in Sides : frames[s] = <<>> /\ wrote[s] = 0 /\ got[s] = 0
    BY DEF Init
  <2>2. \A s \in Sides : Len(frames[s]) = 0 /\ End(s) = 0
    BY <2>1 DEF End
  <2>3. \A s \in Sides : Whole(s) = 0
    BY <2>1, <2>2 DEF Whole, Unwritten
  <2> QED
    BY <2>1, <2>3 DEF Calls!Init, Sides
<1>2. IInv /\ [Next]_vars => [Calls!Next]_(Calls!callVars)
  BY StepIsCall
<1> QED
  BY <1>1, <1>2, Invariance, PTL DEF Spec, ImplementsRequestReply, Calls!Spec
=============================================================================
