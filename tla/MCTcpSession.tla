--------------------------- MODULE MCTcpSession ---------------------------
EXTENDS TcpSession

(* A conversation of two bytes from the client and one from the server.    *)
(* The client's sequence numbers wrap around within it.                    *)
Seg(d, f, s, n) == [from |-> d, flags |-> f, seq |-> s, len |-> n]
MCSegments ==
  { Seg("a", {"SYN"}, 14, 0),        Seg("b", {"SYN", "ACK"}, 6, 0),
    Seg("a", {"ACK"}, 15, 0),        Seg("a", {"ACK"}, 15, 1),
    Seg("a", {"ACK"}, 0, 1),         Seg("b", {"ACK"}, 7, 1),
    Seg("a", {"FIN", "ACK"}, 1, 0),  Seg("b", {"FIN", "ACK"}, 8, 0),
    Seg("a", {"RST"}, 0, 0),         Seg("a", {"SYN"}, 10, 0) }

(* The two have the same address.                                          *)
MCEndpoint == [d \in Side |-> [addr |-> 1, port |-> IF d = "a" THEN 1025 ELSE 80]]

(* The hypothesis of the theorems on the streams holds of this capture.    *)
ASSUME MCConversation == Conversation
=============================================================================
