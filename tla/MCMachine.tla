----------------------------- MODULE MCMachine -----------------------------
EXTENDS Machine

(* Sums of nanoseconds below, at, above and twice a second of ten.         *)
Time(s, n) == [sec |-> s, nsec |-> n]
MCClocks == {Time(1, 7)}
MCTimeouts == {Time(0, 2), Time(1, 3), Time(0, 5), Time(0, 13)}
=============================================================================
