-------------------------------- MODULE Fifo --------------------------------
(***************************************************************************)
(* What a pipe promises: bytes come out in the order in which they went    *)
(* in, and at most Size of them are on the way.                            *)
(***************************************************************************)
EXTENDS Integers, Sequences

CONSTANTS Byte, Size, NoByte

VARIABLES queue, out   \* the bytes on the way; the byte read last

Init == queue = <<>> /\ out = NoByte

Put(b) ==
  /\ Len(queue) < Size
  /\ queue' = Append(queue, b)
  /\ UNCHANGED out

Take ==
  /\ queue # <<>>
  /\ queue' = Tail(queue)
  /\ out' = Head(queue)

(* A byte whose reader has no memory for it is lost.                       *)
Lose ==
  /\ queue # <<>>
  /\ queue' = Tail(queue)
  /\ UNCHANGED out

Next == (\E b \in Byte : Put(b)) \/ Take \/ Lose

Spec == Init /\ [][Next]_<<queue, out>>
=============================================================================
