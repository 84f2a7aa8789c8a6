----------------------------- MODULE FrameStream -----------------------------
(***************************************************************************)
(* What the framing of src/netmodel promises to every program of the       *)
(* benchmark: the handlers of a connection see the frames the peer has     *)
(* sent, each of them whole and once, in the order they were sent, up to   *)
(* the first one that is not a frame; and unless the connection is cut     *)
(* they see all of these in the end.  FrameDecoder implements it.          *)
(***************************************************************************)
EXTENDS Naturals, Sequences

CONSTANT Frames     \* what a peer may send: [good |-> is it a frame, bytes |-> ...]

VARIABLES
    sent,       \* what the peer has sent
    delivered,  \* the bytes the handlers have been called with
    open        \* the connection has not been cut

streamVars == <<sent, delivered, open>>

StreamInit ==
    /\ sent = <<>>
    /\ delivered = <<>>
    /\ open = TRUE

Send ==
    /\ \E f \in Frames : sent' = Append(sent, f)
    /\ UNCHANGED <<delivered, open>>

Deliver ==
    /\ open
    /\ Len(delivered) < Len(sent)
    /\ sent[Len(delivered) + 1].good
    /\ delivered' = Append(delivered, sent[Len(delivered) + 1].bytes)
    /\ UNCHANGED <<sent, open>>

Cut ==
    /\ open
    /\ open' = FALSE
    /\ UNCHANGED <<sent, delivered>>

StreamSpec ==
    /\ StreamInit
    /\ [][Send \/ Deliver \/ Cut]_streamVars
    /\ WF_streamVars(Deliver)

=============================================================================
