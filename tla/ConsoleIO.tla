----------------------------- MODULE ConsoleIO -----------------------------
(***************************************************************************)
(* The two directions of the console, with names of their own: C is what   *)
(* is typed and read, U is what is written and sent.                       *)
(***************************************************************************)
EXTENDS Integers, Sequences, FiniteSets

CONSTANTS
  ConsReader, ConsWriter, Nobody,
  INPUT_BUF, ConsMod,
  Printer, Handler, UART_TX_BUF_SIZE, FIFO, Tags,
  MaxN

VARIABLES
  cons_buf, cons_r, cons_w, cons_e, cons_lock, cons_killed, cons_pc, cons_n, cons_target, cons_out,
  uart_tx_buf, uart_tx_w, uart_tx_r, uart_tx_lock, uart_cons_lock, fifo, irq, rx,
  panicked, uart_pc, uart_n, uart_c, tag, sent

consoleVars == <<cons_buf, cons_r, cons_w, cons_e, cons_lock, cons_killed, cons_pc, cons_n,
                 cons_target, cons_out>>
uartVars == <<uart_tx_buf, uart_tx_w, uart_tx_r, uart_tx_lock, uart_cons_lock, fifo, irq, rx,
              panicked, uart_pc, uart_n, uart_c, tag, sent>>

C == INSTANCE Console WITH
  Reader <- ConsReader, NoProc <- Nobody, IdxMod <- ConsMod,
  buf <- cons_buf, r <- cons_r, w <- cons_w, e <- cons_e, lock <- cons_lock,
  killed <- cons_killed, pc <- cons_pc, n <- cons_n, target <- cons_target, out <- cons_out

U == INSTANCE Uart WITH
  Writer <- ConsWriter, NoOne <- Nobody,
  cons_lock <- uart_cons_lock, pc <- uart_pc, n <- uart_n, c <- uart_c, next <- tag

ASSUME ConsoleAssumption == C!ConsoleConstants
ASSUME UartAssumption == U!UartConstants

(* consoleread() and consoleintr() implement the line discipline of Tty.   *)
IsTty == C!IsTty

(* Nobody sleeps in consoleread() beside a line.                           *)
NoLostLine == C!NoLostLine

(* The bytes of write() leave uartstart() once and in order.               *)
InOrder == U!InOrder

(* A buffered byte always has someone or something that will send it.      *)
SomeoneSends == U!SomeoneSends
=============================================================================
