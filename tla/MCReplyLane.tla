----------------------------- MODULE MCReplyLane -----------------------------
(* ReplyLane with channels of two entries: one round can overrun the lane. *)
EXTENDS ReplyLane
=============================================================================
