--------------------------- MODULE MCNameService ---------------------------
EXTENDS NameService

(* A pointer mark of 3 leaves labels of one and two bytes; 4 begins a      *)
(* pointer that leads out of the message.                                  *)
MCBytes == 0 .. 4
=============================================================================
