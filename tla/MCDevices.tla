----------------------------- MODULE MCDevices -----------------------------
(***************************************************************************)
(* What interrupts meet, for TLC: the spin locks that keep them off, the   *)
(* sleep locks of who waits for them, the disk, console input and console  *)
(* output.  The five share no state here, so that one of them moves in a   *)
(* behaviour and the others stay in their initial states.                  *)
(***************************************************************************)
EXTENDS Spinlock, SleepIO, DiskIO, ConsoleIO

VARIABLE device_on

MCInit ==
  /\ Init /\ S!Init /\ V!Init /\ C!Init /\ U!Init
  /\ device_on \in {"none", "sleep", "virtio", "console", "uart"}

MCNext ==
  /\ UNCHANGED device_on
  /\ \/ device_on = "none"    /\ Next   /\ UNCHANGED <<sleepVars, diskVars, consoleVars, uartVars>>
     \/ device_on = "sleep"   /\ S!Next /\ UNCHANGED <<vars, diskVars, consoleVars, uartVars>>
     \/ device_on = "virtio"  /\ V!Next /\ UNCHANGED <<vars, sleepVars, consoleVars, uartVars>>
     \/ device_on = "console" /\ C!Next /\ UNCHANGED <<vars, sleepVars, diskVars, uartVars>>
     \/ device_on = "uart"    /\ U!Next /\ UNCHANGED <<vars, sleepVars, diskVars, consoleVars>>

MCSpec == MCInit /\ [][MCNext]_<<device_on, vars, sleepVars, diskVars, consoleVars, uartVars>>

(* Nothing reads the places of a ring or of a buffer that hold no request  *)
(* or byte, the links of free descriptors, or idx[] of a process without a *)
(* request: states that differ only there are the same.                    *)
Pending(from, to) == {(from + k) % NUM : k \in 0..((to - from) % NUM) - 1}
View ==
  << device_on, vars, sleepVars,
     free, [d \in V!Desc |-> IF free[d] = 1 THEN V!End ELSE next[d]], info, used_idx,
     [k \in V!Desc |-> IF k \in Pending(taken, availIdx) THEN avail[k] ELSE V!End], availIdx,
     [k \in V!Desc |-> IF k \in Pending(used_idx, usedId) THEN usedElem[k] ELSE V!End], usedId,
     disk, dpc, [p \in Proc |-> IF V!Waiting(p) THEN idx[p] ELSE V!End], ipc,
     taken, inflight, isr, served,
     C!Between(cons_r, cons_e), cons_r, cons_w, cons_lock, cons_killed, cons_pc, cons_n,
     cons_target, cons_out,
     U!Pending, uart_tx_w, uart_tx_r, uart_tx_lock, uart_cons_lock, fifo, irq, rx,
     panicked, uart_pc, uart_n, uart_c, tag, sent >>
=============================================================================
