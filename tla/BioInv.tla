------------------------------- MODULE BioInv -------------------------------
(***************************************************************************)
(* The inductive invariant of Bio when the log is clean at boot: the       *)
(* reference counts count.  BioProofs proves it.                           *)
(***************************************************************************)
EXTENDS Bio

(* Nothing to recover, and a refcnt wide enough for every process and a    *)
(* pin (NPROC is 64, a uint holds 2^32 - 1).                               *)
ASSUME CleanLog ==
  /\ Recovered = {}
  /\ REFMOD > Cardinality(Proc) + 1

(* The places in the LRU list are those of a list: one buffer at each.     *)
ListOK == \A i, j \in Buf : pos[i] = pos[j] => i = j

Refs(i) == {p \in Proc : Using(p) /\ buf[p] = i}

(* A reference for every process between bget() and brelse(), and one for  *)
(* the log's pin.                                                          *)
RefCounts ==
  \A i \in Buf : refcnt[i] = Cardinality(Refs(i)) + (IF blockno[i] \in logged THEN 1 ELSE 0)

Wanting == \A p \in Proc : Using(p) => want[p] \in Block

(* A process that works on a buffer holds its sleep lock.                  *)
Locks == \A p \in Proc : Locked(p) => lock[buf[p]] = p

(* A logged block is in a valid buffer, and every valid buffer holds the   *)
(* last contents written.                                                  *)
Coherent ==
  /\ \A b \in logged : \E i \in Buf : blockno[i] = b /\ valid[i] = 1
  /\ \A i \in Buf : valid[i] = 1 => blockno[i] \in Block /\ data[i] = Latest(blockno[i])
  /\ \A p \in Proc : pc[p] = "held" => valid[buf[p]] = 1

BufferInvariant ==
  /\ TypeOK /\ ListOK /\ recovering = {} /\ Wanting
  /\ OneCopy /\ BufferNotStolen /\ RefCounts /\ Locks /\ Coherent
=============================================================================
