------------------------------- MODULE Virtio -------------------------------
(***************************************************************************)
(* kernel/virtio_disk.c: processes that put requests of three descriptors  *)
(* into the ring, the device that serves them, and the interrupt handler.  *)
(*                                                                         *)
(* A process has one buffer (module Bio: the buffer is locked).  Sections  *)
(* under disk.vdisk_lock are one step; the handler, during which the       *)
(* device goes on, is several, and ipc # "idle" means that it has the lock.*)
(***************************************************************************)
EXTENDS Integers, FiniteSets, FiniteSetsExt

CONSTANTS
  Proc, NoProc,
  NUM,          \* descriptors
  IdxMod        \* the 16-bit counters of the rings wrap around here

Desc == 0..NUM - 1
End  == NUM     \* no next descriptor

VirtioConstants ==
  /\ NoProc \notin Proc
  /\ NUM \in Nat /\ NUM >= 3 /\ IdxMod \in Nat /\ IdxMod % NUM = 0 /\ IdxMod > 0

VARIABLES
  free, next, info, used_idx,      \* struct disk
  avail, availIdx,                 \* disk.avail
  usedElem, usedId,                \* disk.used
  disk,                            \* b->disk of each process' buffer
  pc, idx,                         \* label and idx[0] of each process
  ipc,                             \* label of virtio_disk_intr()
  taken, inflight, isr,            \* the device
  served                           \* requests the device is done with

driver == <<free, next, info, avail, availIdx>>
device == <<usedElem, usedId, taken, inflight>>
vars == <<free, next, info, used_idx, avail, availIdx, usedElem, usedId, disk, pc, idx, ipc,
          taken, inflight, isr, served>>

(* virtio_disk_init().                                                     *)
Init ==
  /\ free = [d \in Desc |-> 1]
  /\ next = [d \in Desc |-> End]
  /\ info = [d \in Desc |-> NoProc]
  /\ used_idx = 0
  /\ avail = [d \in Desc |-> 0] /\ availIdx = 0
  /\ usedElem = [d \in Desc |-> 0] /\ usedId = 0
  /\ disk = [p \in Proc |-> 0]
  /\ pc = [p \in Proc |-> "idle"]
  /\ idx = [p \in Proc |-> 0]
  /\ ipc = "idle"
  /\ taken = 0 /\ inflight = {} /\ isr = 0
  /\ served = {}

Free == {d \in Desc : free[d] = 1}

(* wakeup(&disk.free[0]), and p goes to label l.                           *)
WakeFree(p, l) ==
  pc' = [q \in Proc |-> IF q = p THEN l ELSE IF pc[q] = "full" THEN "retry" ELSE pc[q]]

-----------------------------------------------------------------------------
(* virtio_disk_rw(): three descriptors, a place in the ring, and sleep.    *)
Submit(p, d0, d1, d2) ==
  /\ free' = [d \in Desc |-> IF d \in {d0, d1, d2} THEN 0 ELSE free[d]]
  /\ next' = [next EXCEPT ![d0] = d1, ![d1] = d2, ![d2] = End]
  /\ info' = [info EXCEPT ![d0] = p]
  /\ disk' = [disk EXCEPT ![p] = 1]
  /\ idx' = [idx EXCEPT ![p] = d0]
  /\ avail' = [avail EXCEPT ![availIdx % NUM] = d0]
  /\ availIdx' = (availIdx + 1) % IdxMod
  /\ pc' = [pc EXCEPT ![p] = "wait"]

virtio_disk_rw(p) ==
  /\ pc[p] \in {"idle", "retry"} /\ ipc = "idle"
  /\ Cardinality(Free) >= 3
  /\ LET d0 == Min(Free)
         d1 == Min(Free \ {d0})
         d2 == Min(Free \ {d0, d1})
     IN  Submit(p, d0, d1, d2)
  /\ UNCHANGED <<used_idx, device, ipc, isr, served>>

(* Mutant: alloc3_desc() keeps what it has found.                          *)
virtio_disk_full_leak(p) ==
  /\ pc[p] \in {"idle", "retry"} /\ ipc = "idle"
  /\ Cardinality(Free) < 3
  /\ free' = [d \in Desc |-> 0]
  /\ pc' = [pc EXCEPT ![p] = "full"]
  /\ UNCHANGED <<next, info, avail, availIdx, used_idx, device, disk, idx, ipc, isr, served>>

(* alloc3_desc() fails: it frees what it has found, which wakes the others *)
(* that wait for descriptors.                                              *)
virtio_disk_full(p) ==
  /\ pc[p] \in {"idle", "retry"} /\ ipc = "idle"
  /\ Cardinality(Free) < 3
  /\ IF Free = {} THEN pc' = [pc EXCEPT ![p] = "full"] ELSE WakeFree(p, "full")
  /\ UNCHANGED <<driver, used_idx, device, disk, idx, ipc, isr, served>>

Chain(p) == {idx[p], next[idx[p]], next[next[idx[p]]]}

(* Mutant: whoever wakes up takes the request for done.                    *)
finish_woken(p) ==
  /\ pc[p] = "woken" /\ ipc = "idle"
  /\ info' = [info EXCEPT ![idx[p]] = NoProc]
  /\ free' = [d \in Desc |-> IF d \in Chain(p) THEN 1 ELSE free[d]]
  /\ WakeFree(p, "idle")
  /\ served' = served \ {idx[p]}
  /\ UNCHANGED <<next, avail, availIdx, used_idx, device, disk, idx, ipc, isr>>

(* virtio_disk_rw(): the request is done, free_chain().                    *)
finish(p) ==
  /\ pc[p] = "woken" /\ ipc = "idle"
  /\ disk[p] = 0
  /\ info' = [info EXCEPT ![idx[p]] = NoProc]
  /\ free' = [d \in Desc |-> IF d \in Chain(p) THEN 1 ELSE free[d]]
  /\ WakeFree(p, "idle")
  /\ served' = served \ {idx[p]}
  /\ UNCHANGED <<next, avail, availIdx, used_idx, device, disk, idx, ipc, isr>>

(* "while(b->disk == 1)": back to sleep.                                   *)
sleep_again(p) ==
  /\ pc[p] = "woken" /\ ipc = "idle"
  /\ disk[p] = 1
  /\ pc' = [pc EXCEPT ![p] = "wait"]
  /\ UNCHANGED <<driver, used_idx, device, disk, idx, ipc, isr, served>>

(* kill() wakes whoever sleeps.                                            *)
kill(p) ==
  /\ pc[p] \in {"wait", "full"}
  /\ pc' = [pc EXCEPT ![p] = IF @ = "wait" THEN "woken" ELSE "retry"]
  /\ UNCHANGED <<driver, used_idx, device, disk, idx, ipc, isr, served>>

-----------------------------------------------------------------------------
(* devintr() calls virtio_disk_intr() while the device asks for it.        *)
intr ==
  /\ ipc = "idle" /\ isr = 1
  /\ ipc' = "loop"
  /\ UNCHANGED <<driver, used_idx, device, disk, pc, idx, isr, served>>

(* One round of the loop; q is disk.info[id].b.                            *)
intr_one(q) ==
  /\ ipc = "loop"
  /\ used_idx # usedId % NUM
  /\ q = info[usedElem[used_idx]]
  /\ disk' = [disk EXCEPT ![q] = 0]
  /\ pc' = [pc EXCEPT ![q] = IF @ = "wait" THEN "woken" ELSE @]
  /\ used_idx' = (used_idx + 1) % NUM
  /\ UNCHANGED <<driver, device, idx, ipc, isr, served>>

intr_empty ==
  /\ ipc = "loop"
  /\ used_idx = usedId % NUM
  /\ ipc' = "ack"
  /\ UNCHANGED <<driver, used_idx, device, disk, pc, idx, isr, served>>

(* VIRTIO_MMIO_INTERRUPT_ACK, and release.                                 *)
intr_ack ==
  /\ ipc = "ack"
  /\ isr' = 0
  /\ ipc' = "idle"
  /\ UNCHANGED <<driver, used_idx, device, disk, pc, idx, served>>

-----------------------------------------------------------------------------
(* The device looks at the available ring ...                              *)
dev_take ==
  /\ taken # availIdx
  /\ inflight' = inflight \union {avail[taken % NUM]}
  /\ taken' = (taken + 1) % IdxMod
  /\ UNCHANGED <<driver, used_idx, usedElem, usedId, disk, pc, idx, ipc, isr, served>>

(* ... and finishes requests in any order.                                 *)
dev_complete(h) ==
  /\ h \in inflight
  /\ inflight' = inflight \ {h}
  /\ usedElem' = [usedElem EXCEPT ![usedId % NUM] = h]
  /\ usedId' = (usedId + 1) % IdxMod
  /\ isr' = 1
  /\ served' = served \union {h}
  /\ UNCHANGED <<driver, used_idx, disk, pc, idx, ipc, taken>>

-----------------------------------------------------------------------------
ProcStep(p) == virtio_disk_rw(p) \/ virtio_disk_full(p) \/ finish(p) \/ sleep_again(p)
IntrStep == intr \/ (\E q \in Proc : intr_one(q)) \/ intr_empty \/ intr_ack
DevStep == dev_take \/ \E h \in Desc : dev_complete(h)

Next == (\E p \in Proc : ProcStep(p) \/ kill(p)) \/ IntrStep \/ DevStep

Spec == Init /\ [][Next]_vars

(* A process in virtio_disk_rw() goes on, an interrupt that is raised is   *)
(* delivered, and the device serves every request.  Nobody need call       *)
(* virtio_disk_rw() again.                                                 *)
FairSpec ==
  /\ Spec
  /\ \A p \in Proc : WF_vars(pc[p] # "idle" /\ ProcStep(p))
  /\ WF_vars(IntrStep) /\ WF_vars(dev_take) /\ \A h \in Desc : WF_vars(dev_complete(h))

-----------------------------------------------------------------------------
TypeOK ==
  /\ free \in [Desc -> {0, 1}]
  /\ next \in [Desc -> Desc \union {End}]
  /\ info \in [Desc -> Proc \union {NoProc}]
  /\ used_idx \in Desc
  /\ avail \in [Desc -> Desc] /\ availIdx \in 0..IdxMod - 1
  /\ usedElem \in [Desc -> Desc] /\ usedId \in 0..IdxMod - 1
  /\ disk \in [Proc -> {0, 1}]
  /\ pc \in [Proc -> {"idle", "wait", "woken", "full", "retry"}]
  /\ idx \in [Proc -> Desc]
  /\ ipc \in {"idle", "loop", "ack"}
  /\ taken \in 0..IdxMod - 1 /\ inflight \subseteq Desc /\ isr \in {0, 1}
  /\ served \subseteq Desc

Waiting(p) == pc[p] \in {"wait", "woken"}

(* A descriptor is in use exactly when it belongs to the request of one    *)
(* waiting process: nothing leaks, nothing is freed twice, and no two      *)
(* requests share one.  Nobody sleeps for descriptors while there are      *)
(* three.                                                                  *)
DescOwned ==
  /\ \A d \in Desc :
       IF free[d] = 1 THEN \A p \in Proc : Waiting(p) => d \notin Chain(p)
       ELSE Cardinality({p \in Proc : Waiting(p) /\ d \in Chain(p)}) = 1
  /\ \A p \in Proc : pc[p] = "full" => Cardinality(Free) < 3

(* virtio_disk_rw() returns only when the device has served its request,   *)
(* and until then the request's descriptors and stack stay as they are.    *)
(* The indices modulo NUM cannot lap each other: when the handler's loop   *)
(* takes the used ring for empty, every served request has been handled.   *)
DoneWhenServed ==
  /\ \A p \in Proc : Waiting(p) /\ disk[p] = 0 => idx[p] \in served
  /\ \A h \in inflight : \E p \in Proc : Waiting(p) /\ idx[p] = h
  /\ used_idx = usedId % NUM =>
       \A p \in Proc : Waiting(p) /\ idx[p] \in served => disk[p] = 0

(* virtio_disk_rw(): "Wait for virtio_disk_intr() to say request has       *)
(* finished": it says so in the end.                                       *)
RequestFinishes == \A p \in Proc : pc[p] = "wait" ~> pc[p] = "idle"
=============================================================================
