---------------------------- MODULE MCRingBuffer ----------------------------
(* The packet channel on small rings.  Three slots and six packets let both *)
(* indices go round the ring more than once.                                *)
EXTENDS RingBuffer
=============================================================================
