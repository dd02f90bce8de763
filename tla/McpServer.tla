------------------------------ MODULE McpServer ------------------------------
(***************************************************************************)
(* runLocalMcpServer (src/mcp-server.ts): the stdio loop that cuts a byte  *)
(* stream into Content-Length frames, hands each to handleRequest without  *)
(* waiting for it and writes every response when it is ready.              *)
(*                                                                         *)
(* Bytes are abstracted to the parts of a frame the loop tells apart: the  *)
(* name and the number of the length header, the two halves of the blank   *)
(* line, and the bytes of the body.  A chunk may end anywhere.             *)
(***************************************************************************)
EXTENDS Naturals, SequencesExt

CONSTANT
    Streams   \* what a peer may send: sequences of frames

\* "call" takes its time, "local" is answered by the next microtask, "note"
\* has no id; "invalid" is no JSON, "null" the JSON null.  `length' tells
\* whether the header has a Content-Length, `size' the bytes of the body.
FrameKinds == {"call", "local", "note", "invalid", "null"}

\* The empty text is no JSON.
ASSUME FramesAssumption ==
    \A stream \in Streams :
        /\ stream \in Seq([kind : FrameKinds, length : BOOLEAN, size : Nat])
        /\ \A f \in DOMAIN stream : stream[f].size = 0 => stream[f].kind = "invalid"

VARIABLES
    frames,    \* the frames this peer sends
    received,  \* bytes of the stream received
    buffer,    \* the buffer of the loop
    parsing,   \* inside the data listener
    alive,     \* the process has not died of an uncaught error
    handled,   \* the frames given to handleRequest, in order
    pending,   \* those it has not settled yet
    written    \* the responses written, in order

vars == <<frames, received, buffer, parsing, alive, handled, pending, written>>

-----------------------------------------------------------------------------
Numbers   == DOMAIN frames
AnyNumber == UNION {DOMAIN stream : stream \in Streams}

\* The bytes of a frame, each with the number of its frame.
Bytes(f) ==
    <<[of |-> f, part |-> "name"], [of |-> f, part |-> "number"],
      [of |-> f, part |-> "cr"], [of |-> f, part |-> "lf"]>>
    \o [i \in 1 .. frames[f].size |-> [of |-> f, part |-> "body"]]
Stream == FlattenSeq([f \in Numbers |-> Bytes(f)])

\* buffer.indexOf(frameSeparator), both halves being there; 0 when absent
SeparatorIndex(b) ==
    LET ends == {i \in 1 .. Len(b) - 1 : b[i].part = "cr" /\ b[i + 1].part = "lf"}
    IN  IF ends = {} THEN 0 ELSE CHOOSE i \in ends : \A j \in ends : i <= j

\* header.match: the places before the separator where a length is read
LengthMatches(b) ==
    {i \in 1 .. SeparatorIndex(b) - 1 :
        /\ b[i].part = "name" /\ b[i + 1].part = "number" /\ b[i].of = b[i + 1].of
        /\ frames[b[i].of].length}
ContentLength(b) ==
    frames[b[CHOOSE i \in LengthMatches(b) : \A j \in LengthMatches(b) : i <= j].of].size

BodyStart(b)   == SeparatorIndex(b) + 2
\* A bug to catch: the frame ends one byte early.
FrameLengthShort(b) == SeparatorIndex(b) + ContentLength(b)

FrameLength(b) == SeparatorIndex(b) + 1 + ContentLength(b)
Body(b)        == SubSeq(b, BodyStart(b), FrameLength(b))

\* The frame a text is the whole body of; a piece of one, or of two, is no JSON.
BodyOf(f) == SubSeq(Bytes(f), 5, 4 + frames[f].size)
Decodes(text, f) == text # <<>> /\ text = BodyOf(f) /\ frames[f].kind # "invalid"

-----------------------------------------------------------------------------
Init ==
    /\ frames \in Streams
    /\ received = 0 /\ buffer = <<>> /\ parsing = FALSE /\ alive = TRUE
    /\ handled = <<>> /\ pending = {} /\ written = <<>>

\* A microtask is due before the next chunk can be read.
Settled(f) == f \in pending /\ frames[f].kind # "call"

\* A bug to catch: the loop waits for every request it has handed out.
DataWhenIdle ==
    /\ alive /\ ~parsing /\ pending = {}
    /\ \E n \in 1 .. Len(Stream) - received :
         /\ buffer' = buffer \o SubSeq(Stream, received + 1, received + n)
         /\ received' = received + n
    /\ parsing' = TRUE
    /\ UNCHANGED <<frames, alive, handled, pending, written>>

\* The data event: a chunk of any length is appended, and the loop begins.
Data ==
    /\ alive /\ ~parsing
    /\ \A f \in pending : ~Settled(f)
    /\ \E n \in 1 .. Len(Stream) - received :
         /\ buffer' = buffer \o SubSeq(Stream, received + 1, received + n)
         /\ received' = received + n
    /\ parsing' = TRUE
    /\ UNCHANGED <<frames, alive, handled, pending, written>>

\* No separator, or not all of the body yet: the listener returns.
AwaitMore ==
    /\ parsing
    /\ \/ SeparatorIndex(buffer) = 0
       \/ /\ SeparatorIndex(buffer) # 0 /\ LengthMatches(buffer) # {}
          /\ Len(buffer) < FrameLength(buffer)
    /\ parsing' = FALSE
    /\ UNCHANGED <<frames, received, buffer, alive, handled, pending, written>>

\* A header without a length: everything buffered is dropped.
DropBuffer ==
    /\ parsing /\ SeparatorIndex(buffer) # 0 /\ LengthMatches(buffer) = {}
    /\ buffer' = <<>> /\ parsing' = FALSE
    /\ UNCHANGED <<frames, received, alive, handled, pending, written>>

WholeFrame ==
    /\ parsing /\ SeparatorIndex(buffer) # 0 /\ LengthMatches(buffer) # {}
    /\ Len(buffer) >= FrameLength(buffer)

\* A bug to catch: what follows the frame in the buffer is lost.
HandleFrameAndReset(f) ==
    /\ WholeFrame /\ Decodes(Body(buffer), f)
    /\ buffer' = <<>>
    /\ handled' = Append(handled, f)
    /\ pending' = pending \cup {f}
    /\ UNCHANGED <<frames, received, parsing, alive, written>>

\* A frame is taken off the buffer and handled; the loop goes on.
HandleFrame(f) ==
    /\ WholeFrame /\ Decodes(Body(buffer), f)
    /\ buffer' = SubSeq(buffer, FrameLength(buffer) + 1, Len(buffer))
    /\ handled' = Append(handled, f)
    /\ pending' = pending \cup {f}
    /\ UNCHANGED <<frames, received, parsing, alive, written>>

\* JSON.parse throws inside the listener: nothing catches it.
InvalidJson ==
    /\ WholeFrame /\ \A f \in Numbers : ~Decodes(Body(buffer), f)
    /\ alive' = FALSE /\ parsing' = FALSE
    /\ UNCHANGED <<frames, received, buffer, handled, pending, written>>

\* A bug to catch: a response goes out and may go out again.
RespondAgain(f) ==
    /\ alive /\ ~parsing /\ f \in pending /\ frames[f].kind # "null"
    /\ written' = Append(written, f)
    /\ UNCHANGED <<frames, received, buffer, parsing, alive, handled, pending>>

\* A bug to catch: responses are held back to the order of the requests.
RespondInOrder(f) ==
    /\ alive /\ ~parsing /\ f \in pending /\ frames[f].kind # "null"
    /\ \A g \in pending : f <= g
    /\ pending' = pending \ {f}
    /\ written' = Append(written, f)
    /\ UNCHANGED <<frames, received, buffer, parsing, alive, handled>>

\* handleRequest settles: with the result, or with an error it made of
\* whatever was thrown.  A message without an id is answered too.
Respond(f) ==
    /\ alive /\ ~parsing /\ f \in pending /\ frames[f].kind # "null"
    /\ pending' = pending \ {f}
    /\ written' = Append(written, f)
    /\ UNCHANGED <<frames, received, buffer, parsing, alive, handled>>

\* request.id of null is read before the try: the promise rejects, and the
\* rejection is nobody's.
RejectNull(f) ==
    /\ alive /\ ~parsing /\ f \in pending /\ frames[f].kind = "null"
    /\ alive' = FALSE
    /\ UNCHANGED <<frames, received, buffer, parsing, handled, pending, written>>

Loop == AwaitMore \/ DropBuffer \/ InvalidJson \/ \E f \in Numbers : HandleFrame(f)

Next == Data \/ Loop \/ \E f \in Numbers : Respond(f) \/ RejectNull(f)

Spec == Init /\ [][Next]_vars

\* The peer's bytes are read, the loop runs on, what has settled is written and
\* what has rejected ends the process.
FairSpec ==
    /\ Spec /\ WF_vars(Data) /\ WF_vars(Loop)
    /\ \A f \in AnyNumber :
         WF_vars(f \in pending /\ frames[f].kind # "call" /\ (Respond(f) \/ RejectNull(f)))

-----------------------------------------------------------------------------
TypeOK ==
    /\ frames \in Streams /\ received \in 0 .. Len(Stream)
    /\ buffer \in Seq([of : Numbers, part : {"name", "number", "cr", "lf", "body"}])
    /\ parsing \in BOOLEAN /\ alive \in BOOLEAN
    /\ handled \in Seq(Numbers) /\ pending \subseteq Numbers
    /\ written \in Seq(Numbers)

WellFormed == \A f \in Numbers :
    frames[f].length /\ frames[f].size > 0 /\ frames[f].kind \notin {"invalid", "null"}

\* The number of frames whole in the bytes received.
WholeFrames == Cardinality({f \in Numbers :
    Len(FlattenSeq([g \in 1 .. f |-> Bytes(g)])) <= received})

\* Where the chunks end makes no difference: between two data events exactly
\* the frames received whole have been handled, in the order they were sent
\* (test/mcp-server.test.ts:435).
ChunkingIsInvisible ==
    WellFormed /\ ~parsing => handled = [f \in 1 .. WholeFrames |-> f]

\* Whatever was dropped for want of a length, the loop never takes a piece of
\* a frame, or the bytes of two, for a message: it handles whole frames of the
\* peer, each once, in order, and dies of nothing but an invalid one.
NeverMisreads ==
    /\ \A i, j \in DOMAIN handled : i < j => handled[i] < handled[j]
    /\ ~alive => \/ \E f \in pending : frames[f].kind = "null"
                 \/ \E f \in Numbers : /\ frames[f].kind = "invalid"
                                       /\ Body(buffer) = BodyOf(f)

\* A response is written once for a request handled before, while the others
\* are under way: none is answered twice, none is answered unasked.
AnswersItsRequests ==
    /\ IsInjective(written)
    /\ ToSet(written) \cup pending = ToSet(handled)
    /\ ToSet(written) \cap pending = {}

\* A slow tool call holds back no other answer: with one under way for ever,
\* every other request that was read is answered, unless the server dies.
SlowCallsBlockNobody == \A f \in AnyNumber :
    f \in pending /\ frames[f].kind # "call" ~> f \in ToSet(written) \/ ~alive

\* A peer that keeps to the protocol has every frame read, while its slow tool
\* calls are under way.
EveryFrameIsReached == WellFormed => <>(ToSet(handled) = Numbers)

=============================================================================
