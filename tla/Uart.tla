-------------------------------- MODULE Uart --------------------------------
(***************************************************************************)
(* kernel/uart.c and the output of kernel/console.c: processes that        *)
(* write() to the console, the kernel's printf(), the echo of what is      *)
(* typed, and the interrupt handler all feed one transmitter.              *)
(*                                                                         *)
(* The test of LSR_TX_IDLE and the write to THR are two steps, since the   *)
(* device and the users of uartputc_sync() do not take uart_tx_lock.       *)
(* fifo is the 16550's transmit FIFO; LSR_TX_IDLE says that it is empty.   *)
(***************************************************************************)
EXTENDS Integers, Sequences, FiniteSets

CONSTANTS
  Writer,               \* processes
  Printer,              \* the CPU inside printf(), at most one: pr.lock
  Handler,              \* the CPU inside uartintr(), at most one: plic_claim()
  NoOne,
  UART_TX_BUF_SIZE,
  FIFO,                 \* bytes the transmitter holds
  MaxN,                 \* bound: bytes of one write()
  Tags                  \* bound: bytes are told apart modulo Tags

Actor == Writer \union {Printer, Handler}
Slots == 0..UART_TX_BUF_SIZE - 1

UartConstants ==
  /\ Printer # Handler /\ {Printer, Handler} \intersect Writer = {}
  /\ NoOne \notin Actor
  /\ UART_TX_BUF_SIZE \in Nat \ {0, 1} /\ FIFO \in Nat /\ MaxN \in Nat
  /\ Tags \in Nat /\ Tags > UART_TX_BUF_SIZE + FIFO

VARIABLES
  uart_tx_buf, uart_tx_w, uart_tx_r, uart_tx_lock,
  cons_lock,
  fifo, irq, rx,        \* the device: output, a pending interrupt, input waiting
  panicked,
  pc, n,                \* label of each actor; what is left of a write()
  c,                    \* the byte uartstart() has taken
  next, sent            \* tags: the next byte to buffer, the next to leave

vars == <<uart_tx_buf, uart_tx_w, uart_tx_r, uart_tx_lock, cons_lock, fifo, irq, rx,
          panicked, pc, n, c, next, sent>>
txVars == <<uart_tx_buf, uart_tx_w, uart_tx_r, next>>
devVars == <<fifo, irq, rx, sent>>

Sync == Tags            \* a byte of uartputc_sync(): echo or printf()
NoByte == Tags + 1

(* uartinit(), and bss.                                                    *)
Init ==
  /\ uart_tx_buf = [k \in Slots |-> NoByte]
  /\ uart_tx_w = 0 /\ uart_tx_r = 0
  /\ uart_tx_lock = NoOne /\ cons_lock = NoOne
  /\ fifo = <<>> /\ irq = 0 /\ rx = 0
  /\ panicked = 0
  /\ pc = [a \in Actor |-> "out"]
  /\ n = [p \in Writer |-> 0]
  /\ c = NoByte
  /\ next = 0 /\ sent = 0

Goto(a, l) == pc' = [pc EXCEPT ![a] = l]
Inc(k) == (k + 1) % UART_TX_BUF_SIZE
Idle == fifo = <<>>

-----------------------------------------------------------------------------
(* consolewrite(): cons.lock is held until the last byte is buffered.      *)
consolewrite(p, k) ==
  /\ pc[p] = "out"
  /\ cons_lock = NoOne /\ cons_lock' = p
  /\ n' = [n EXCEPT ![p] = k]
  /\ Goto(p, "byte")
  /\ UNCHANGED <<txVars, uart_tx_lock, devVars, panicked, c>>

(* The last byte is written, or either_copyin() fails.                     *)
write_end(p) ==
  /\ pc[p] = "byte"
  /\ cons_lock' = NoOne
  /\ n' = [n EXCEPT ![p] = 0]
  /\ Goto(p, "out")
  /\ UNCHANGED <<txVars, uart_tx_lock, devVars, panicked, c>>

(* acquire(&uart_tx_lock); with panicked set nothing ever follows it.      *)
uartputc(p) ==
  /\ pc[p] = "byte" /\ n[p] > 0
  /\ uart_tx_lock = NoOne /\ uart_tx_lock' = p
  /\ Goto(p, IF panicked = 1 THEN "spin" ELSE "putc")
  /\ UNCHANGED <<txVars, cons_lock, devVars, panicked, n, c>>

(* Mutant: the buffer holds one byte more.                                 *)
Full_late == uart_tx_r # 0 /\ Inc(uart_tx_w) = uart_tx_r

Full == Inc(uart_tx_w) = uart_tx_r

putc_buffer(p) ==
  /\ pc[p] = "putc" /\ ~Full
  /\ uart_tx_buf' = [uart_tx_buf EXCEPT ![uart_tx_w] = next]
  /\ next' = (next + 1) % Tags
  /\ uart_tx_w' = Inc(uart_tx_w)
  /\ n' = [n EXCEPT ![p] = @ - 1]
  /\ Goto(p, "start")
  /\ UNCHANGED <<uart_tx_r, uart_tx_lock, cons_lock, devVars, panicked, c>>

(* sleep(&uart_tx_r, &uart_tx_lock) takes p->lock, releases uart_tx_lock   *)
(* and calls sched(), which panics ("sched locks") because consolewrite()  *)
(* holds cons.lock as well.                                                *)
putc_sleep(p) ==
  /\ pc[p] = "putc" /\ Full
  /\ uart_tx_lock' = NoOne
  /\ panicked' = 1
  /\ Goto(p, "panic")
  /\ UNCHANGED <<txVars, cons_lock, devVars, n, c>>

-----------------------------------------------------------------------------
(* uartstart(), for whoever holds uart_tx_lock.                            *)
After(a) == IF a = Handler THEN "out" ELSE "byte"

(* Nothing to send, or the transmitter "will interrupt when it's ready".   *)
start_return(a) ==
  /\ pc[a] = "start"
  /\ uart_tx_w = uart_tx_r \/ ~Idle
  /\ uart_tx_lock' = NoOne
  /\ Goto(a, After(a))
  /\ UNCHANGED <<txVars, cons_lock, devVars, panicked, n, c>>

(* wakeup(&uart_tx_r) finds nobody: nobody has slept there and lived.      *)
start_take(a) ==
  /\ pc[a] = "start"
  /\ uart_tx_w # uart_tx_r /\ Idle
  /\ c' = uart_tx_buf[uart_tx_r]
  /\ uart_tx_r' = Inc(uart_tx_r)
  /\ Goto(a, "thr")
  /\ UNCHANGED <<uart_tx_buf, uart_tx_w, next, uart_tx_lock, cons_lock, devVars, panicked, n>>

start_thr(a) ==
  /\ pc[a] = "thr"
  /\ fifo' = Append(fifo, c)
  /\ c' = NoByte
  /\ Goto(a, "start")
  /\ UNCHANGED <<txVars, uart_tx_lock, cons_lock, irq, rx, sent, panicked, n>>

-----------------------------------------------------------------------------
(* uartputc_sync(): by printf() with pr.lock, or by the handler with       *)
(* cons.lock.                                                              *)
sync_wait(a, from, to) ==
  /\ pc[a] = from
  /\ panicked = 1 \/ Idle
  /\ Goto(a, IF panicked = 1 THEN "spin" ELSE to)
  /\ UNCHANGED <<txVars, uart_tx_lock, cons_lock, devVars, panicked, n, c>>

sync_thr(a, from, to) ==
  /\ pc[a] = from
  /\ fifo' = Append(fifo, Sync)
  /\ Goto(a, to)
  /\ UNCHANGED <<txVars, uart_tx_lock, cons_lock, irq, rx, sent, panicked, n, c>>

printf ==
  \/ sync_wait(Printer, "out", "print")
  \/ sync_thr(Printer, "print", "out")

(* uartintr(), after plic_claim(): input first, then output.               *)
uartintr ==
  /\ pc[Handler] = "out" /\ irq = 1
  /\ irq' = 0
  /\ Goto(Handler, "rx")
  /\ UNCHANGED <<txVars, uart_tx_lock, cons_lock, fifo, rx, sent, panicked, n, c>>

(* uartgetc() has a byte, and consoleintr() takes cons.lock to echo it.    *)
intr_rx ==
  /\ pc[Handler] = "rx" /\ rx > 0
  /\ rx' = rx - 1
  /\ Goto(Handler, "cons")
  /\ UNCHANGED <<txVars, uart_tx_lock, cons_lock, fifo, irq, sent, panicked, n, c>>

intr_cons ==
  /\ pc[Handler] = "cons"
  /\ cons_lock = NoOne /\ cons_lock' = Handler
  /\ Goto(Handler, "echo")
  /\ UNCHANGED <<txVars, uart_tx_lock, devVars, panicked, n, c>>

echo ==
  \/ sync_wait(Handler, "echo", "echothr")
  \/ sync_thr(Handler, "echothr", "echoed")

intr_echoed ==
  /\ pc[Handler] = "echoed"
  /\ cons_lock' = NoOne
  /\ Goto(Handler, "rx")
  /\ UNCHANGED <<txVars, uart_tx_lock, devVars, panicked, n, c>>

(* Mutant: the handler does not send when input was waiting.               *)
intr_tx_skipped ==
  /\ pc[Handler] = "rx" /\ rx = 0
  /\ Goto(Handler, "out")
  /\ UNCHANGED <<txVars, uart_tx_lock, cons_lock, devVars, panicked, n, c>>

intr_tx ==
  /\ pc[Handler] = "rx" /\ rx = 0
  /\ uart_tx_lock = NoOne /\ uart_tx_lock' = Handler
  /\ Goto(Handler, "start")
  /\ UNCHANGED <<txVars, cons_lock, devVars, panicked, n, c>>

-----------------------------------------------------------------------------
(* The device: a byte leaves, and an interrupt is raised when none is      *)
(* left; a byte is typed.                                                  *)
transmit ==
  /\ ~Idle
  /\ fifo' = Tail(fifo)
  /\ irq' = IF Len(fifo) = 1 THEN 1 ELSE irq
  /\ sent' = IF Head(fifo) = Sync THEN sent ELSE (Head(fifo) + 1) % Tags
  /\ UNCHANGED <<txVars, uart_tx_lock, cons_lock, rx, panicked, pc, n, c>>

receive ==
  /\ rx = 0
  /\ rx' = 1 /\ irq' = 1
  /\ UNCHANGED <<txVars, uart_tx_lock, cons_lock, fifo, sent, panicked, pc, n, c>>

-----------------------------------------------------------------------------
WriterStep(p) ==
  uartputc(p) \/ putc_buffer(p) \/ putc_sleep(p) \/ start_return(p) \/ start_take(p) \/ start_thr(p)

HandlerStep ==
  \/ uartintr \/ intr_rx \/ intr_cons \/ echo \/ intr_echoed \/ intr_tx
  \/ start_return(Handler) \/ start_take(Handler) \/ start_thr(Handler)

Next ==
  \/ \E p \in Writer : WriterStep(p) \/ write_end(p)
  \/ \E p \in Writer, k \in 1..MaxN : consolewrite(p, k)
  \/ printf
  \/ HandlerStep
  \/ transmit \/ receive

Spec == Init /\ [][Next]_vars

-----------------------------------------------------------------------------
TypeOK ==
  /\ uart_tx_buf \in [Slots -> 0..Tags + 1]
  /\ uart_tx_w \in Slots /\ uart_tx_r \in Slots
  /\ uart_tx_lock \in Actor \union {NoOne} /\ cons_lock \in Actor \union {NoOne}
  /\ fifo \in Seq(0..Tags) /\ irq \in {0, 1} /\ rx \in 0..1
  /\ panicked \in {0, 1}
  /\ pc \in [Actor -> {"out", "byte", "putc", "spin", "panic", "start", "thr", "print",
                       "rx", "cons", "echo", "echothr", "echoed"}]
  /\ n \in [Writer -> 0..MaxN]
  /\ c \in 0..Tags - 1 \union {NoByte}
  /\ next \in 0..Tags - 1 /\ sent \in 0..Tags - 1

(* The bytes of write() that have not left yet, in the order they will.    *)
Pending ==
  SelectSeq(fifo, LAMBDA b : b # Sync)
    \o (IF c = NoByte THEN <<>> ELSE <<c>>)
    \o [k \in 1..((uart_tx_w - uart_tx_r) % UART_TX_BUF_SIZE) |->
          uart_tx_buf[(uart_tx_r + k - 1) % UART_TX_BUF_SIZE]]

(* Bytes of write() leave the transmitter once, in the order of the        *)
(* writes, whichever of consolewrite() and uartintr() hands them over and  *)
(* whatever printf() and echo send between them.  Three actors may find    *)
(* the transmitter idle at the same time, since uartputc_sync() takes no   *)
(* lock, and no more than that ever write to it.                           *)
InOrder ==
  /\ Len(fifo) <= FIFO
  /\ Len(Pending) = (next - sent) % Tags
  /\ \A k \in 1..Len(Pending) : Pending[k] = (sent + k - 1) % Tags

(* uartstart() gives up on a busy transmitter because it "will interrupt   *)
(* when it's ready for a new byte": as long as a byte is buffered, the     *)
(* transmitter is busy, or has interrupted, or somebody is about to send.  *)
SomeoneSends ==
  uart_tx_w # uart_tx_r =>
    \/ ~Idle \/ irq = 1
    \/ pc[Handler] # "out"
    \/ \E p \in Writer : pc[p] \in {"start", "thr"}
    \/ pc[Printer] = "print"
=============================================================================
