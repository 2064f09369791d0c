----------------------------- MODULE MCMsgQueue -----------------------------
(* The control channel with a few producers.                               *)
EXTENDS MsgQueue
=============================================================================
