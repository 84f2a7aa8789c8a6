--------------------------- MODULE MCFrameDecoder ---------------------------
(* FrameDecoder: the kinds of messages differ in length; the buffer holds    *)
(* about three of them, so that it wraps, jumps over its end and fills up.   *)
EXTENDS FrameDecoder

MCPayloadLen == [f \in Frames |-> IF f = "order" THEN 2 ELSE 1]

=============================================================================
