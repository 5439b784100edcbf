-------------------------------- MODULE Wire --------------------------------
(***************************************************************************)
(* One connection, byte by byte (wingsvd wire.rs, the loop of serve() in   *)
(* main.rs, call() in cli.rs).                                             *)
(*                                                                         *)
(* A frame is four bytes of length and a body.  read_exact() and           *)
(* write_all() move as many bytes at a time as the socket has or takes, a  *)
(* pipe that is full makes its writer wait, and either process can die     *)
(* between any two bytes.  A stream is described by the frames its writer  *)
(* has begun and by how many bytes of them are written and read; what a    *)
(* reader takes for a length is whatever stands where it looks.            *)
(***************************************************************************)
EXTENDS Naturals, Sequences

CONSTANTS
  MaxFrame,  \* MAX_FRAME_SIZE
  Sizes,     \* body sizes requests and replies can have
  Cap,       \* bytes a socket buffers in one direction
  Window,    \* requests a client sends before it reads an answer
  MaxCalls   \* bound: requests on one connection

HeaderLen == 4

ASSUME WireAssumption ==
  /\ MaxFrame \in Nat /\ Sizes \subseteq Nat
  /\ Cap \in Nat \ {0} /\ Window \in Nat \ {0} /\ MaxCalls \in Nat
  \* A client that asks ahead does so within what the sockets hold.
  /\ Window = 1 \/ Cap >= HeaderLen + MaxFrame

VARIABLES
  frames,  \* frames[s]: where the frames s has begun to write stand, and their body sizes
  wrote,   \* wrote[s]: bytes of them it has written
  taken,   \* taken[s]: bytes of the other's stream s has read
  got,     \* got[s]: frames read_frame() has returned to s
  pc,      \* pc[s]: what s is doing
  want,    \* want[s]: bytes its read_exact() still lacks
  ended    \* ended[s]: how read_frame() found the stream to end

vars == <<frames, wrote, taken, got, pc, want, ended>>

Sides == {"client", "daemon"}
Other(s) == CHOOSE o \in Sides : o # s
Alive(s) == pc[s] # "gone"

After(frame) == frame.at + HeaderLen + frame.size
\* Where s's stream ends once all it has begun is written.
End(s) == IF frames[s] = <<>> THEN 0 ELSE After(frames[s][Len(frames[s])])
\* Where frame k of it begins, or will.
Start(s, k) == IF k \in DOMAIN frames[s] THEN frames[s][k].at ELSE End(s)
Unwritten(s) == End(s) - wrote[s]
Unread(s) == wrote[Other(s)] - taken[s]
\* Frames of s's stream that are there to the last byte.
Whole(s) == Len(frames[s]) - (IF Unwritten(s) > 0 THEN 1 ELSE 0)

\* from_be_bytes() of the four bytes at p; anywhere but at the start of a
\* frame they are no length at all.
LengthAt(s, p) ==
  LET here == {k \in DOMAIN frames[s] : frames[s][k].at = p}
  IN  IF here = {} THEN MaxFrame + 1 ELSE frames[s][CHOOSE k \in here : TRUE].size

Goto(s, p) == pc' = [pc EXCEPT ![s] = p]

\* read_frame() is called.
ReadNext(s) == Goto(s, "header") /\ want' = [want EXCEPT ![s] = HeaderLen]

Init ==
  /\ frames = [s \in Sides |-> <<>>]
  /\ wrote = [s \in Sides |-> 0] /\ taken = [s \in Sides |-> 0] /\ got = [s \in Sides |-> 0]
  /\ pc = [s \in Sides |-> IF s = "daemon" THEN "header" ELSE "ready"]
  /\ want = [s \in Sides |-> IF s = "daemon" THEN HeaderLen ELSE 0]
  /\ ended = [s \in Sides |-> "no"]
-----------------------------------------------------------------------------
(* read_frame() *)

\* Mutant: read() instead of read_exact(), whatever comes is the header.
TakeSome(s) ==
  /\ pc[s] \in {"header", "body"}
  /\ \E n \in 1..want[s] :
       /\ n <= Unread(s)
       /\ taken' = [taken EXCEPT ![s] = @ + n]
       /\ want' = [want EXCEPT ![s] = 0]
  /\ UNCHANGED <<frames, wrote, got, pc, ended>>

\* One read() of read_exact(): as much as there is, or less.
Take(s) ==
  /\ pc[s] \in {"header", "body"}
  /\ \E n \in 1..want[s] :
       /\ n <= Unread(s)
       /\ taken' = [taken EXCEPT ![s] = @ + n]
       /\ want' = [want EXCEPT ![s] = @ - n]
  /\ UNCHANGED <<frames, wrote, got, pc, ended>>

HeaderRead(s) ==
  /\ pc[s] = "header" /\ want[s] = 0
  /\ LET len == LengthAt(Other(s), taken[s] - HeaderLen)
     IN  /\ Goto(s, IF len > MaxFrame THEN "gone" ELSE "body")
         /\ want' = [want EXCEPT ![s] = len]
         /\ ended' = IF len > MaxFrame THEN [ended EXCEPT ![s] = "error"] ELSE ended
  /\ UNCHANGED <<frames, wrote, taken, got>>

BodyRead(s) ==
  /\ pc[s] = "body" /\ want[s] = 0
  /\ got' = [got EXCEPT ![s] = @ + 1]
  /\ Goto(s, "decoding")
  /\ UNCHANGED <<frames, wrote, taken, want, ended>>

\* Mutant: a body cut short is returned as far as it came.
EndOfStreamLenient(s) ==
  /\ pc[s] \in {"header", "body"} /\ want[s] > 0
  /\ Unread(s) = 0 /\ ~Alive(Other(s))
  /\ IF pc[s] = "body"
     THEN want' = [want EXCEPT ![s] = 0] /\ UNCHANGED <<pc, ended>>
     ELSE Goto(s, "gone") /\ ended' = [ended EXCEPT ![s] = "clean"] /\ UNCHANGED want
  /\ UNCHANGED <<frames, wrote, taken, got>>

\* The peer has closed and everything it wrote is read: None anywhere in the
\* header, an error in the body, or anywhere if it left bytes of ours unread
\* (the socket is reset then).  Either way nothing more is read.
EndOfStream(s) ==
  /\ pc[s] \in {"header", "body"} /\ want[s] > 0
  /\ Unread(s) = 0 /\ ~Alive(Other(s))
  /\ Goto(s, "gone")
  /\ \/ pc[s] = "header" /\ ended' = [ended EXCEPT ![s] = "clean"]
     \/ /\ pc[s] = "body" \/ Unread(Other(s)) > 0
        /\ ended' = [ended EXCEPT ![s] = "error"]
  /\ UNCHANGED <<frames, wrote, taken, got, want>>
-----------------------------------------------------------------------------
(* write_frame() *)

\* Mutant: the length goes out before it is looked at.
BeginUnchecked(s, n) ==
  /\ frames' = [frames EXCEPT ![s] = Append(@, [at |-> End(s), size |-> n])]
  /\ Goto(s, "writing")
  /\ UNCHANGED <<wrote, taken, got, want, ended>>

\* A frame that is too large is refused before its first byte, and whoever
\* wanted to send it gives the connection up.
Begin(s, n) ==
  /\ \/ /\ n <= MaxFrame /\ Goto(s, "writing")
        /\ frames' = [frames EXCEPT ![s] = Append(@, [at |-> End(s), size |-> n])]
     \/ n > MaxFrame /\ Goto(s, "gone") /\ UNCHANGED frames
  /\ UNCHANGED <<wrote, taken, got, want, ended>>

\* One write() of write_all().
Put(s) ==
  /\ pc[s] = "writing" /\ Alive(Other(s))
  /\ \E n \in 1..Unwritten(s) :
       /\ Unread(Other(s)) + n <= Cap
       /\ wrote' = [wrote EXCEPT ![s] = @ + n]
  /\ UNCHANGED <<frames, taken, got, pc, want, ended>>

\* EPIPE.
WriteFails(s) ==
  /\ pc[s] = "writing" /\ Unwritten(s) > 0 /\ ~Alive(Other(s))
  /\ Goto(s, "gone")
  /\ UNCHANGED <<frames, wrote, taken, got, want, ended>>

\* The daemon reads on, the client is free to ask or to wait.
Written(s) ==
  /\ pc[s] = "writing" /\ Unwritten(s) = 0
  /\ IF s = "daemon" THEN ReadNext(s) ELSE Goto(s, "ready") /\ UNCHANGED want
  /\ UNCHANGED <<frames, wrote, taken, got, ended>>
-----------------------------------------------------------------------------
(* serve() and call() *)

\* Mutant: a request that does not decode is skipped.
AnswerOrSkip ==
  /\ pc["daemon"] = "decoding"
  /\ \/ \E n \in Sizes : Begin("daemon", n)
     \/ ReadNext("daemon") /\ UNCHANGED <<frames, wrote, taken, got, ended>>

\* A request is dispatched and answered, or does not decode, which ends the
\* connection.
AnswerRequest ==
  /\ pc["daemon"] = "decoding"
  /\ \/ \E n \in Sizes : Begin("daemon", n)
     \/ Goto("daemon", "gone") /\ UNCHANGED <<frames, wrote, taken, got, want, ended>>

Outstanding == Len(frames["client"]) - got["client"]

Call ==
  /\ pc["client"] = "ready"
  /\ Outstanding < Window /\ Len(frames["client"]) < MaxCalls
  /\ \E n \in Sizes : Begin("client", n)

Await ==
  /\ pc["client"] = "ready" /\ Outstanding > 0
  /\ ReadNext("client")
  /\ UNCHANGED <<frames, wrote, taken, got, ended>>

\* The reply is the call's result, or does not decode and ends it.
Return ==
  /\ pc["client"] = "decoding"
  /\ Goto("client", "ready") \/ Goto("client", "gone")
  /\ UNCHANGED <<frames, wrote, taken, got, want, ended>>

\* Either process exits, is killed or aborts; what it wrote can still be read.
Exit(s) ==
  /\ Alive(s) /\ Goto(s, "gone")
  /\ UNCHANGED <<frames, wrote, taken, got, want, ended>>

Stream(s) ==
  \/ Take(s) \/ HeaderRead(s) \/ BodyRead(s) \/ EndOfStream(s)
  \/ Put(s) \/ WriteFails(s) \/ Written(s)

Next ==
  \/ \E s \in Sides : Stream(s) \/ Exit(s)
  \/ AnswerRequest \/ Call \/ Await \/ Return

Spec == Init /\ [][Next]_vars

\* Both processes are scheduled; the client reads the answers it waits for.
FairSpec ==
  /\ Spec
  /\ \A s \in Sides : WF_vars(Stream(s))
  /\ WF_vars(AnswerRequest) /\ WF_vars(Await) /\ WF_vars(Return)
-----------------------------------------------------------------------------
(***************************************************************************)
(* Properties.                                                             *)
(***************************************************************************)
\* Reader and writer never fall out of step: whatever short reads and writes
\* a stream went through, a reader in a header is within the next frame's four
\* bytes of length, one in a body within that frame's body, so no frame is
\* ever refused as too large or made of two (wire.rs:14-32, whose cap is there
\* for "a desynchronised or hostile stream").
InStep ==
  \A s \in Sides :
    LET next == Start(Other(s), got[s] + 1)
    IN  /\ pc[s] = "header" => taken[s] = next + HeaderLen - want[s]
        /\ pc[s] = "body" =>
             /\ got[s] < Len(frames[Other(s)])
             /\ taken[s] = next + HeaderLen + frames[Other(s)][got[s] + 1].size - want[s]
        /\ pc[s] \in {"ready", "decoding", "writing"} => taken[s] = next

\* A stream is only found to end when every frame that was sent whole has been
\* read, so an end that is called clean loses at most the beginning of one
\* (wire.rs:14-21, main.rs:170-177).
NothingSkipped ==
  \A s \in Sides : ended[s] # "no" => got[s] = Whole(Other(s))

\* A call ends: with an answer, or because one of the two went away, whatever
\* the daemon thought of the request (cli.rs call(), main.rs serve()).
CallReturns == (Outstanding > 0) ~> (Outstanding = 0 \/ ~Alive("client"))

Calls ==
  INSTANCE RequestReply WITH
    asked <- Whole("client"), handled <- got["daemon"],
    answered <- Whole("daemon"), got <- got["client"]

\* Short reads, torn streams and dead peers never turn into a request that
\* was not sent, a request handled twice or ahead of its turn, or an answer
\* to another request: serve() implements the protocol it is written for.
ImplementsRequestReply == Calls!Spec
=============================================================================
