---------------------------- MODULE NameService ----------------------------
(***************************************************************************)
(* NameService::parse_label(), which reads a domain name of a DNS or mDNS  *)
(* message, compression pointers included.  A step is one iteration of its *)
(* loop.  The message is any sequence of bytes, its header included; a     *)
(* label is named by its place and its length in the message.              *)
(*                                                                         *)
(* A byte of at least Mark begins a pointer (0xC0 in the code).  total_len *)
(* is the length behind the header, while pointers count from its start.   *)
(***************************************************************************)
EXTENDS Integers, Sequences

CONSTANTS Bytes,      \* byte values that occur
          ByteMod,    \* 256
          Mark,       \* 0xC0
          HdrLen,     \* sizeof(struct ns_header)
          Size,       \* bytes of the message
          max_len     \* 256, the limit of parse_label()

ASSUME NameAssumption ==
  /\ ByteMod \in Nat /\ Mark \in 1 .. ByteMod - 1 /\ Bytes \subseteq 0 .. ByteMod - 1
  /\ HdrLen \in Nat /\ Size \in Nat /\ HdrLen < Size
  /\ max_len \in Nat \ {0}

total_len == Size - HdrLen
Null == -1          \* NULL, as the result and as rp
Running == -2       \* parse_label() has not returned yet

VARIABLES
  msg,      \* the message
  start,    \* the p that parse_label() was called with
  p,        \* its local variables
  remain,
  rp,
  len,
  s,        \* the labels appended to the result string
  res       \* what it returned

vars == <<msg, start, p, remain, rp, len, s, res>>

(* ns_decode() starts a name anywhere behind the header.                   *)
Init ==
  /\ msg \in [0 .. Size - 1 -> Bytes]
  /\ start \in HdrLen .. Size - 1
  /\ p = start
  /\ remain = Size - start
  /\ rp = Null
  /\ len = 0
  /\ s = <<>>
  /\ res = Running

return(r) ==
  /\ res' = r
  /\ UNCHANGED <<msg, start, p, remain, rp, len, s>>

IsPtr(b) == b >= Mark
jmp(at) == (msg[at] - Mark) * ByteMod + msg[at + 1]

(* len has reached max_len, no byte is left, or not both bytes of a        *)
(* pointer.                                                                *)
NameTooLong == res = Running /\ len >= max_len /\ return(Null)
OutOfBytes ==
  /\ res = Running
  /\ len < max_len
  /\ remain < 1 \/ (IsPtr(msg[p]) /\ remain < 2)
  /\ return(Null)

Reading ==
  /\ res = Running
  /\ len < max_len
  /\ remain >= 1
  /\ IsPtr(msg[p]) => remain >= 2

BadPointer ==
  /\ Reading
  /\ IsPtr(msg[p])
  /\ jmp(p) >= total_len
  /\ return(Null)

\* Mutant: the place to go on at is set by the last pointer, not the first.
Here_last ==
  IF IsPtr(msg[p])
  THEN [p |-> jmp(p), remain |-> total_len - jmp(p), rp |-> p + 2]
  ELSE [p |-> p, remain |-> remain, rp |-> rp]
\* Mutant: behind a jump everything up to the end of the message counts.
Here_far ==
  IF IsPtr(msg[p])
  THEN [p |-> jmp(p), remain |-> Size, rp |-> IF rp = Null THEN p + 2 ELSE rp]
  ELSE [p |-> p, remain |-> remain, rp |-> rp]
(* p, remain and rp behind the jump that the iteration may begin with.     *)
Here ==
  IF IsPtr(msg[p])
  THEN [p |-> jmp(p), remain |-> total_len - jmp(p), rp |-> IF rp = Null THEN p + 2 ELSE rp]
  ELSE [p |-> p, remain |-> remain, rp |-> rp]

Landed ==
  /\ Reading
  /\ IsPtr(msg[p]) => jmp(p) < total_len

EndOfName ==
  /\ Landed
  /\ msg[Here.p] = 0
  /\ return(IF Here.rp = Null THEN Here.p + 1 ELSE Here.rp)

LabelTooLong ==
  /\ Landed
  /\ msg[Here.p] # 0
  /\ msg[Here.p] + 1 >= Here.remain
  /\ return(Null)

\* Mutant: a pointer is followed by another look at the byte it leads to.
Label_again ==
  /\ Landed
  /\ msg[Here.p] # 0
  /\ msg[Here.p] + 1 < Here.remain
  /\ LET n == IF IsPtr(msg[p]) THEN -1 ELSE msg[p]
     IN /\ s' = IF n < 0 THEN s ELSE Append(s, <<Here.p + 1, n>>)
        /\ len' = IF n < 0 THEN len ELSE len + n
        /\ p' = Here.p + n + 1
        /\ remain' = Here.remain - (n + 1)
  /\ rp' = Here.rp
  /\ UNCHANGED <<msg, start, res>>
(* What a pointer leads to is a length, even if it is a pointer itself.    *)
Label ==
  /\ Landed
  /\ msg[Here.p] # 0
  /\ msg[Here.p] + 1 < Here.remain
  /\ s' = Append(s, <<Here.p + 1, msg[Here.p]>>)
  /\ len' = len + msg[Here.p]
  /\ p' = Here.p + msg[Here.p] + 1
  /\ remain' = Here.remain - (msg[Here.p] + 1)
  /\ rp' = Here.rp
  /\ UNCHANGED <<msg, start, res>>

Returned == res # Running /\ UNCHANGED vars

Iterate ==
  \/ NameTooLong \/ OutOfBytes \/ BadPointer \/ EndOfName \/ LabelTooLong \/ Label

Next == Iterate \/ Returned
Spec == Init /\ [][Next]_vars
FairSpec == Spec /\ WF_vars(Iterate)

-----------------------------------------------------------------------------
(* Properties                                                              *)

(* What remain counts is inside the message, so that no byte outside is    *)
(* read; and a name that was read ends behind its first byte and not       *)
(* behind the message - which ns_decode() relies on to go forward.         *)
StaysInMessage ==
  /\ p \in 0 .. Size
  /\ remain \in 0 .. Size - p
  /\ res \in {Running, Null} \cup (start + 1 .. Size)

(* The message, where the name starts and its length have their types.     *)
TypeOK ==
  /\ msg \in [0 .. Size - 1 -> Bytes]
  /\ start \in HdrLen .. Size - 1
  /\ len \in Nat

(* The name at pos of a message that ends at lim: its labels, and where it *)
(* ends.  Behind a pointer a message is taken to end at total_len.  chain  *)
(* says that a pointer leads to a pointer.                                 *)
Bad == [ok |-> FALSE, labels |-> <<>>, size |-> 0, end |-> Null, chain |-> FALSE]
Ended(pos) == [Bad EXCEPT !.ok = TRUE, !.end = pos]
WithLabel(r, pos, n) == [r EXCEPT !.labels = << <<pos, n>> >> \o @, !.size = @ + n]
WithPointer(r, pos, chain) == [r EXCEPT !.end = pos, !.chain = @ \/ chain]

(* The names of at most one label or pointer more than those in rest.      *)
Limits == {Size, total_len}
NamesFrom(rest) ==
  [lim \in Limits |-> [pos \in Nat |->
     IF pos >= lim THEN Bad
     ELSE IF msg[pos] = 0 THEN Ended(pos + 1)
     ELSE IF ~IsPtr(msg[pos])
     THEN WithLabel(rest[lim][pos + msg[pos] + 1], pos + 1, msg[pos])
     ELSE IF pos + 1 >= lim THEN Bad
     ELSE WithPointer(rest[total_len][jmp(pos)], pos + 2,
                      jmp(pos) < total_len /\ IsPtr(msg[jmp(pos)]))]]
Names[n \in Nat] ==
  IF n = 0 THEN [lim \in Limits |-> [pos \in Nat |-> Bad]] ELSE NamesFrom(Names[n - 1])

(* The name that parse_label() is asked for: max_len bytes are as many     *)
(* labels at most, each behind a pointer.                                  *)
NameAt == Names[2 * max_len + 2][Size][start]

(* Unless a pointer leads to a pointer, parse_label() returns exactly what *)
(* the definition of compressed names says of names shorter than max_len:  *)
(* the same labels and the same end, or NULL when there is no such name.   *)
MatchesDefinition ==
  res # Running /\ ~NameAt.chain =>
    IF NameAt.ok /\ NameAt.size < max_len
    THEN res = NameAt.end /\ s = NameAt.labels
    ELSE res = Null

(* parse_label() returns, on pointers that form a cycle too.               *)
Returns == <>(res # Running)
=============================================================================
