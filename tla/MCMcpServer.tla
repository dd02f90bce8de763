----------------------------- MODULE MCMcpServer -----------------------------
(* McpServer fed a few short frames, cut in every way. *)
EXTENDS McpServer

Frame(kind, length, size) == [kind |-> kind, length |-> length, size |-> size]

\* What a peer of the protocol sends: back-to-back requests and a notification.
WellFormedFrames ==
    <<Frame("local", TRUE, 2), Frame("call", TRUE, 1), Frame("note", TRUE, 1),
      Frame("call", TRUE, 2)>>

\* A header without a length, a body that is no JSON and one that is null.
FramesWithJunk ==
    <<Frame("call", TRUE, 1), Frame("call", FALSE, 2), Frame("local", TRUE, 2),
      Frame("invalid", TRUE, 1), Frame("null", TRUE, 1)>>

\* Either of them.
Peers == {WellFormedFrames, FramesWithJunk}

=============================================================================
