-------------------------------- MODULE Framing --------------------------------
(***************************************************************************)
(* One direction of a connection: sendServerMessage of src/src/codec.cc (or *)
(* sendEnvelope of src/client/chat_client.cc) writes frames, TCP delivers   *)
(* their bytes in pieces of any size, and onMessage cuts them up again.     *)
(*                                                                          *)
(* A frame is a header of four digits, the length as a signed number in     *)
(* network order, and the body.  The digits have Base values (256 in the    *)
(* code), the limit MaxLen is 65536 in the code.  The bytes are kept for    *)
(* ever and named by their position in the stream: what was retrieved, what *)
(* is in the input buffer and what is under way are three parts of it.      *)
(***************************************************************************)
EXTENDS Integers, Sequences

CONSTANTS
    Base,           \* values of a byte
    MaxLen,         \* the longest body that onMessage admits
    Bodies,         \* the bodies that are sent, as sequences of bytes
    BadLens,        \* lengths that a peer of another kind may announce
    Parseable,      \* the bodies that ParseFromArray accepts
    MaxFrames       \* bound on the frames that are sent

Byte == 0..(Base - 1)

\* The values of a header, as an unsigned number
Width == Base * Base * Base * Base

\* The values of int32_t
Signed == (-(Width \div 2))..(Width \div 2 - 1)

ASSUME FramingAssumption ==
    /\ Base \in Nat /\ Base > 1
    /\ MaxLen \in Nat /\ MaxLen < Width \div 2
    /\ Bodies \subseteq Seq(Byte)
    /\ \A b \in Bodies : Len(b) \in Signed
    /\ BadLens \subseteq Signed \ (0..MaxLen)
    /\ MaxFrames \in Nat

kHeaderLen == 4

VARIABLES
    stream,         \* the bytes written by the sender
    received,       \* how many of them are, or were, in the input buffer
    retrieved,      \* how many of them onMessage has retrieved
    handling,       \* onMessage is in its loop
    handled,        \* what it passed on: a body and where it went
    shut,           \* conn->shutdown() was called
    up,             \* the connection is there
    sent,           \* history: the frames sent
    starts          \* history: where they start in the stream

vars == <<stream, received, retrieved, handling, handled, shut, up, sent, starts>>

Items == {[len |-> Len(b), body |-> b] : b \in Bodies}
         \cup [len : BadLens, body : {<< >>}]

\* handleMessage passes an envelope to the server, and answers a body that it
\* cannot parse with an error.
Outcome(b) == [body |-> b, to |-> IF b \in Parseable THEN "envelope" ELSE "error"]

Init ==
    /\ stream = << >>
    /\ received = 0
    /\ retrieved = 0
    /\ handling = FALSE
    /\ handled = << >>
    /\ shut = FALSE
    /\ up = TRUE
    /\ sent = << >>
    /\ starts = <<0>>

-----------------------------------------------------------------------------
(***************************************************************************)
(* The header                                                               *)
(***************************************************************************)

\* hostToNetwork32 of an int32_t: two's complement, the highest byte first
Encode(n) ==
    LET u  == IF n < 0 THEN n + Width ELSE n
        q1 == u \div Base
        q2 == q1 \div Base
        q3 == q2 \div Base
    IN  <<q3, q2 % Base, q1 % Base, u % Base>>

\* networkToHost32 as an int32_t
Decode(h) ==
    LET u == ((h[1] * Base + h[2]) * Base + h[3]) * Base + h[4]
    IN  IF u >= Width \div 2 THEN u - Width ELSE u

-----------------------------------------------------------------------------
(***************************************************************************)
(* The sender and the network                                               *)
(***************************************************************************)

\* The length of the body is not compared with any limit.
SendServerMessage(item) ==
    /\ up
    /\ Len(sent) < MaxFrames
    /\ stream' = stream \o Encode(item.len) \o item.body
    /\ sent' = Append(sent, item)
    /\ starts' = Append(starts, Len(stream) + kHeaderLen + Len(item.body))
    /\ UNCHANGED <<received, retrieved, handling, handled, shut, up>>

\* The loop reads what has come into the input buffer and calls onMessage.  It
\* goes on reading after a shutdown, which closes the other direction only.
Receive ==
    /\ up
    /\ ~handling
    /\ \E k \in (received + 1)..Len(stream) : received' = k
    /\ handling' = TRUE
    /\ UNCHANGED <<stream, retrieved, handled, shut, up, sent, starts>>

\* The connection is closed or lost, between two calls of onMessage.
Close ==
    /\ up
    /\ ~handling
    /\ up' = FALSE
    /\ UNCHANGED <<stream, received, retrieved, handling, handled, shut, sent, starts>>

-----------------------------------------------------------------------------
(***************************************************************************)
(* ChatCodec::onMessage, one step for each turn of its loop                 *)
(***************************************************************************)

ReadableBytes == received - retrieved

\* The header at the front of the input buffer
PeekLen == Decode([i \in 1..kHeaderLen |-> stream[retrieved + i]])

\* Mutant: only the upper limit is checked.
AdmittedNoSign(n) == n <= MaxLen

Admitted(n) == n \in 0..MaxLen

\* The length is not admitted: the buffer is left as it is.
BadLength ==
    /\ handling
    /\ ReadableBytes >= kHeaderLen
    /\ ~Admitted(PeekLen)
    /\ shut' = TRUE
    /\ handling' = FALSE
    /\ UNCHANGED <<stream, received, retrieved, handled, up, sent, starts>>

\* Mutant: a frame that ends with the buffer is not complete.
WholeFrameStrict ==
    /\ handling
    /\ ReadableBytes >= kHeaderLen
    /\ LET n == PeekLen IN
       /\ Admitted(n)
       /\ ReadableBytes > n + kHeaderLen
       /\ handled' = Append(handled,
              Outcome([i \in 1..n |-> stream[retrieved + kHeaderLen + i]]))
       /\ retrieved' = retrieved + kHeaderLen + n
    /\ UNCHANGED <<stream, received, handling, shut, up, sent, starts>>

\* Mutant: one frame for each call.
WholeFrameOnce ==
    /\ handling
    /\ ReadableBytes >= kHeaderLen
    /\ LET n == PeekLen IN
       /\ Admitted(n)
       /\ ReadableBytes >= n + kHeaderLen
       /\ handled' = Append(handled,
              Outcome([i \in 1..n |-> stream[retrieved + kHeaderLen + i]]))
       /\ retrieved' = retrieved + kHeaderLen + n
    /\ handling' = FALSE
    /\ UNCHANGED <<stream, received, shut, up, sent, starts>>

\* A whole frame is there: its header is retrieved, the body is handled, and
\* then retrieved.
WholeFrame ==
    /\ handling
    /\ ReadableBytes >= kHeaderLen
    /\ LET n == PeekLen IN
       /\ Admitted(n)
       /\ ReadableBytes >= n + kHeaderLen
       /\ handled' = Append(handled,
              Outcome([i \in 1..n |-> stream[retrieved + kHeaderLen + i]]))
       /\ retrieved' = retrieved + kHeaderLen + n
    /\ UNCHANGED <<stream, received, handling, shut, up, sent, starts>>

\* onMessage returns to wait for the rest of a header or of a frame.
WaitForMore ==
    /\ handling
    /\ \/ ReadableBytes < kHeaderLen
       \/ /\ ReadableBytes >= kHeaderLen
          /\ Admitted(PeekLen)
          /\ ReadableBytes < PeekLen + kHeaderLen
    /\ handling' = FALSE
    /\ UNCHANGED <<stream, received, retrieved, handled, shut, up, sent, starts>>

OnMessage == BadLength \/ WholeFrame \/ WaitForMore

Next ==
    \/ \E item \in Items : SendServerMessage(item)
    \/ Receive
    \/ OnMessage
    \/ Close

Spec == Init /\ [][Next]_vars

\* TCP delivers what was written while the connection lasts, and the event
\* loop runs.
FairSpec == Spec /\ WF_vars(Receive) /\ WF_vars(OnMessage)

-----------------------------------------------------------------------------
(***************************************************************************)
(* Properties                                                               *)
(***************************************************************************)

TypeOK ==
    /\ stream \in Seq(Byte)
    /\ received \in 0..Len(stream)
    /\ retrieved \in 0..received
    /\ handling \in BOOLEAN
    /\ handled \in Seq([body : Seq(Byte), to : {"envelope", "error"}])
    /\ shut \in BOOLEAN
    /\ up \in BOOLEAN
    /\ sent \in Seq(Items)
    /\ starts \in Seq(Nat)

\* The stream is the frames that were sent, one after the other.
StreamIsFrames ==
    /\ Len(starts) = Len(sent) + 1
    /\ starts[Len(sent) + 1] = Len(stream)
    /\ \A i \in 1..Len(sent) :
         /\ starts[i + 1] = starts[i] + kHeaderLen + Len(sent[i].body)
         /\ starts[i + 1] <= Len(stream)
         /\ \A k \in 1..kHeaderLen : stream[starts[i] + k] = Encode(sent[i].len)[k]
         /\ \A k \in 1..Len(sent[i].body) :
                stream[starts[i] + kHeaderLen + k] = sent[i].body[k]

\* onMessage is at the start of a frame whenever it looks at a header, and has
\* handled exactly the frames before it.
AtFrameStart ==
    /\ Len(handled) <= Len(sent)
    /\ retrieved = starts[Len(handled) + 1]
    /\ \A i \in 1..Len(handled) :
         /\ Admitted(sent[i].len)
         /\ handled[i] = Outcome(sent[i].body)
    /\ shut => Len(handled) < Len(sent) /\ ~Admitted(sent[Len(handled) + 1].len)
    /\ handling => up

\* onMessage never loses its place in the stream: however TCP cuts the frames
\* up, it reads headers only where frames start (codec.cc:9-31).
FrameInv == TypeOK /\ StreamIsFrames /\ AtFrameStart

\* Between two calls less than one frame of the greatest length is left in the
\* input buffer, unless the connection was shut down: a peer that keeps to the
\* limit cannot make the buffer grow (codec.cc:14, 20).
RestIsShort ==
    ~handling /\ ~shut => ReadableBytes < kHeaderLen + MaxLen

\* The framing implements an ordered channel of messages, and handles all that
\* was sent while the connection lasts (codec.cc:5-32).
Channel == INSTANCE FrameChannel WITH
    handled <- [i \in 1..Len(handled) |-> handled[i].body]

ChannelSafe == Channel!SafeSpec

ChannelSpec == Channel!Spec
=============================================================================
