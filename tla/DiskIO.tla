------------------------------- MODULE DiskIO -------------------------------
(***************************************************************************)
(* The disk's driver and the device, with names of their own, to stand     *)
(* beside other components.                                                *)
(***************************************************************************)
EXTENDS Integers, FiniteSets

CONSTANTS Proc, NoProc, NUM, IdxMod

VARIABLES
  free, next, info, used_idx, avail, availIdx, usedElem, usedId, disk, dpc, idx, ipc,
  taken, inflight, isr, served

diskVars == <<free, next, info, used_idx, avail, availIdx, usedElem, usedId, disk, dpc, idx,
              ipc, taken, inflight, isr, served>>

V == INSTANCE Virtio WITH pc <- dpc

ASSUME VirtioAssumption == V!VirtioConstants

(* Descriptors belong to the requests of waiting processes.                *)
DescOwned == V!DescOwned

(* virtio_disk_rw() returns when its request has been served.              *)
DoneWhenServed == V!DoneWhenServed
=============================================================================
