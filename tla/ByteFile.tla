------------------------------ MODULE ByteFile ------------------------------
(***************************************************************************)
(* What the inode layer promises: a file is a sequence of bytes.           *)
(***************************************************************************)
EXTENDS Naturals, Sequences

CONSTANTS Ino, Byte, MaxLen
VARIABLE content

Init == content = [i \in Ino |-> <<>>]

(* From old to new: some bytes d at position off, not behind the end.      *)
Written(old, new, off, d) ==
  \E m \in 1..MaxLen - off :
    /\ Len(new) = IF off + m > Len(old) THEN off + m ELSE Len(old)
    /\ \A k \in 1..Len(new) : new[k] = IF off < k /\ k <= off + m THEN d ELSE old[k]

Write(i) ==
  \E old \in {content[i]}, new \in {content'[i]} :
    /\ content' = [content EXCEPT ![i] = new]
    /\ \E off \in 0..Len(old), d \in Byte : Written(old, new, off, d)

Truncate(i) == content' = [content EXCEPT ![i] = <<>>]

Next == \E i \in Ino : Truncate(i) \/ Write(i)

Spec == Init /\ [][Next]_content
=============================================================================
