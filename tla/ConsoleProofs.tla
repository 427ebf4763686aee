--------------------------- MODULE ConsoleProofs ---------------------------
(***************************************************************************)
(* Proofs about the console: its input, for any readers, size of cons.buf  *)
(* and width of its indices, and its output, for any writers, size of      *)
(* uart_tx_buf and FIFO.                                                   *)
(***************************************************************************)
EXTENDS ConsoleIO, TLAPS

(* Leaves go to the SMT solver, unless they name another prover.           *)
USE SMTT(60)

-----------------------------------------------------------------------------
(* Remainders.                                                             *)
(* A number is a multiple and its remainder, with names for both, ...      *)
LEMMA DivMod ==
  ASSUME NEW P \in Nat, P > 0, NEW a \in Int, NEW d \in Int, d = a \div P, NEW m \in Int, m = a % P
  PROVE  a = P * d + m
  OBVIOUS

(* ... also without, ...                                                   *)
LEMMA Remainder ==
  ASSUME NEW P \in Nat, P > 0, NEW a \in Int
  PROVE  \E d \in Int, m \in 0..P - 1 : m = a % P /\ a = P * d + m
<1>1. PICK m \in 0..P - 1 : m = a % P
  OBVIOUS
<1>2. PICK d \in Int : d = a \div P
  OBVIOUS
<1>3. a = P * d + m
  BY <1>1, <1>2, DivMod
<1> QED  BY <1>1, <1>2, <1>3, Zenon

(* ... in one way.                                                         *)
LEMMA Unique ==
  ASSUME NEW P \in Nat, P > 0, NEW a \in Int, NEW q \in Int, NEW t \in 0..P - 1, a = P * q + t
  PROVE  a % P = t
<1>1. PICK d \in Int, m \in 0..P - 1 : m = a % P /\ a = P * d + m
  BY Remainder, Zenon
<1>2. P * (q - d) = m - t
  BY <1>1
<1>3. CASE q - d >= 1
  BY <1>1, <1>2, <1>3
<1>4. CASE q - d <= 0 - 1
  BY <1>1, <1>2, <1>4
<1>5. CASE q = d
  BY <1>1, <1>2, <1>5
<1>6. m = t
  BY <1>1, <1>3, <1>4, <1>5
<1> QED  BY <1>1, <1>6, Zenon

(* Numbers less than P apart have different remainders.                    *)
LEMMA Apart ==
  ASSUME NEW P \in Nat, P > 0, NEW a \in Nat, NEW b \in Nat, a < b, b < a + P
  PROVE  a % P # b % P
<1>0. a \in Int /\ b \in Int
  OBVIOUS
<1>1. PICK d \in Int, m \in 0..P - 1 : m = a % P /\ a = P * d + m
  BY <1>0, Remainder, Zenon
<1>2. PICK g \in Int, h \in 0..P - 1 : h = b % P /\ b = P * g + h
  BY <1>0, Remainder, Zenon
<1>3. SUFFICES ASSUME m = h PROVE FALSE
  BY <1>1, <1>2, Zenon
<1>4. b - a = P * (g - d)
  BY <1>1, <1>2, <1>3
<1>5. CASE g - d <= 0
  BY <1>4, <1>5
<1>6. CASE g - d >= 1
  BY <1>4, <1>6
<1> QED  BY <1>5, <1>6

(* Where P divides M, adding M does not change the remainder.              *)
LEMMA Wraps ==
  ASSUME NEW P \in Nat, P > 0, NEW M \in Nat, M % P = 0, NEW a \in Nat
  PROVE  (a + M) % P = a % P
<1>0. a \in Int /\ M \in Int
  OBVIOUS
<1>1. PICK d \in Int, m \in 0..P - 1 : m = a % P /\ a = P * d + m
  BY <1>0, Remainder, Zenon
<1>2. PICK g \in Int, h \in 0..P - 1 : h = M % P /\ M = P * g + h
  BY <1>0, Remainder, Zenon
<1>3. P * (d + g) = P * d + P * g
  OBVIOUS
<1>4. a + M = P * (d + g) + m
  BY <1>1, <1>2, <1>3
<1>5. (a + M) % P = m
  <2>1. a + M \in Int /\ d + g \in Int
    OBVIOUS
  <2> QED  BY <1>4, <2>1, Unique, Zenon
<1> QED  BY <1>1, <1>5, Zenon

-----------------------------------------------------------------------------
(* Console output, for any writers, size of uart_tx_buf and FIFO.  Of the  *)
(* types it needs that the transmitter holds a sequence.                   *)
UartTypes ==
  /\ uart_pc = [a \in U!Actor |-> uart_pc[a]]
  /\ fifo \in Seq(0..Tags + 1) /\ uart_c \in 0..Tags + 1 /\ tag \in 0..Tags + 1
  /\ uart_tx_buf \in [U!Slots -> 0..Tags + 1] /\ uart_tx_r \in U!Slots /\ uart_tx_w \in U!Slots

UartInvariant == UartTypes /\ U!SomeoneSends

(* The indices of uart_tx_buf and the tags wrap around.                    *)
LEMMA UartWraps ==
  /\ \A k \in U!Slots : U!Inc(k) \in U!Slots
  /\ \A k \in 0..Tags + 1 : (k + 1) % Tags \in 0..Tags + 1
  /\ 0 \in U!Slots /\ U!Sync \in 0..Tags + 1 /\ U!NoByte \in 0..Tags + 1 /\ 0 \in 0..Tags + 1
<1>1. ASSUME NEW M \in Nat, M > 0, NEW k \in Nat PROVE (k + 1) % M \in 0..M - 1
  BY <1>1
<1>2. UART_TX_BUF_SIZE \in Nat /\ UART_TX_BUF_SIZE > 0 /\ Tags \in Nat /\ Tags > 0
  BY UartAssumption DEF U!UartConstants
<1>3. \A k \in U!Slots : U!Inc(k) \in U!Slots
  BY <1>1, <1>2 DEF U!Inc, U!Slots
<1>4. \A k \in 0..Tags + 1 : (k + 1) % Tags \in 0..Tags + 1
  BY <1>1, <1>2
<1> QED  BY <1>2, <1>3, <1>4 DEF U!Slots, U!Sync, U!NoByte

(* Every step keeps the types.                                             *)
LEMMA UartTypeStep == ASSUME UartTypes, [U!Next]_(U!vars) PROVE UartTypes'
<1> USE UartWraps DEF UartTypes, U!Goto, U!txVars, U!devVars
<1>p. \A b \in 0..Tags + 1 : Append(fifo, b) \in Seq(0..Tags + 1)
  OBVIOUS
<1>1. ASSUME NEW a \in U!Actor, U!start_take(a) \/ U!start_thr(a) PROVE UartTypes'
  <2>1. CASE U!start_take(a)
    <3>1. uart_c' \in 0..Tags + 1
      BY <2>1, Zenon DEF U!start_take
    <3> QED  BY <2>1, <3>1, Zenon DEF U!start_take
  <2>2. CASE U!start_thr(a)
    <3>1. fifo' \in Seq(0..Tags + 1)
      BY <1>p, <2>2, Zenon DEF U!start_thr
    <3> QED  BY <2>2, <3>1, Zenon DEF U!start_thr
  <2> QED  BY <1>1, <2>1, <2>2, Zenon
<1>2. ASSUME NEW p \in ConsWriter, U!putc_buffer(p) PROVE UartTypes'
  <2>1. uart_tx_buf' \in [U!Slots -> 0..Tags + 1]
    <3>1. uart_tx_buf' = [uart_tx_buf EXCEPT ![uart_tx_w] = tag]
      BY <1>2, Zenon DEF U!putc_buffer
    <3> QED  BY <3>1, Zenon
  <2>2. tag' \in 0..Tags + 1
    BY <1>2, Zenon DEF U!putc_buffer
  <2> QED  BY <1>2, <2>1, <2>2, Zenon DEF U!putc_buffer
<1>3. ASSUME NEW a \in U!Actor, NEW from, NEW to, U!sync_thr(a, from, to) PROVE UartTypes'
  <2>1. fifo' \in Seq(0..Tags + 1)
    BY <1>p, <1>3, Zenon DEF U!sync_thr
  <2> QED  BY <1>3, <2>1, Zenon DEF U!sync_thr
<1>4. CASE U!transmit
  BY <1>4 DEF U!transmit, U!Idle
<1>5. ASSUME NEW p \in ConsWriter, NEW k,
             \/ U!uartputc(p) \/ U!putc_sleep(p) \/ U!write_end(p) \/ U!consolewrite(p, k)
      PROVE  UartTypes'
  BY <1>5, Zenon DEF U!uartputc, U!putc_sleep, U!write_end, U!consolewrite
<1>6. ASSUME NEW a \in U!Actor, NEW from, NEW to, U!start_return(a) \/ U!sync_wait(a, from, to)
      PROVE  UartTypes'
  BY <1>6, Zenon DEF U!start_return, U!sync_wait
<1>7. CASE U!uartintr \/ U!intr_rx \/ U!intr_cons \/ U!intr_echoed \/ U!intr_tx \/ U!receive
  BY <1>7, Zenon DEF U!uartintr, U!intr_rx, U!intr_cons, U!intr_echoed, U!intr_tx, U!receive
<1>8. CASE UNCHANGED U!vars
  BY <1>8, Zenon DEF U!vars
<1>9. Printer \in U!Actor /\ Handler \in U!Actor /\ ConsWriter \subseteq U!Actor
  BY Zenon DEF U!Actor
<1> QED
  BY <1>1, <1>2, <1>3, <1>4, <1>5, <1>6, <1>7, <1>8, <1>9, Zenon
     DEF U!Next, U!WriterStep, U!HandlerStep, U!printf, U!echo

(* Every step leaves somebody who will send what is buffered.              *)
LEMMA UartSendStep == ASSUME UartInvariant, [U!Next]_(U!vars) PROVE U!SomeoneSends'
<1>a. /\ Printer \in U!Actor /\ Handler \in U!Actor /\ \A p \in ConsWriter : p \in U!Actor
      /\ Printer # Handler /\ Printer \notin ConsWriter /\ Handler \notin ConsWriter
  BY UartAssumption, Zenon DEF U!Actor, U!UartConstants
<1>t. UartTypes /\ U!SomeoneSends
  BY Zenon DEF UartInvariant
<1> USE DEF UartTypes, U!SomeoneSends, U!Idle, U!Goto, U!txVars, U!devVars
<1>1. ASSUME NEW p \in ConsWriter, U!start_take(p) \/ U!start_return(p) \/ U!putc_buffer(p)
      PROVE  U!SomeoneSends'
  BY <1>1, <1>a, <1>t, Zenon DEF U!start_take, U!start_return, U!putc_buffer
<1>2. CASE U!start_take(Handler) \/ U!start_return(Handler)
  BY <1>2, <1>a, <1>t, Zenon DEF U!start_take, U!start_return
<1>3. ASSUME NEW a \in U!Actor, NEW from, NEW to, U!start_thr(a) \/ U!sync_thr(a, from, to)
      PROVE  U!SomeoneSends'
  <2>1. \E b \in 0..Tags + 1 : fifo' = Append(fifo, b)
    BY <1>3, <1>t, UartWraps, Zenon DEF U!start_thr, U!sync_thr
  <2>2. fifo' # <<>>
    BY <1>t, <2>1
  <2> QED  BY <2>2, Zenon
<1>4. CASE U!transmit
  <2>1. fifo' = <<>> => irq' = 1
    <3>1. fifo' = Tail(fifo) /\ irq' = IF Len(fifo) = 1 THEN 1 ELSE irq
      BY <1>4, Zenon DEF U!transmit
    <3>2. fifo # <<>> /\ fifo \in Seq(0..Tags + 1)
      BY <1>4, <1>t, Zenon DEF U!transmit
    <3>3. Len(Tail(fifo)) = Len(fifo) - 1 /\ Len(fifo) \in Nat
      BY <3>2
    <3>4. ASSUME Tail(fifo) = <<>> PROVE Len(fifo) = 1
      <4>1. Len(<<>>) = 0
        BY Zenon
      <4>2. Len(Tail(fifo)) = 0
        BY <3>4, <4>1, Zenon
      <4> QED  BY <3>3, <4>2
    <3> QED  BY <3>1, <3>4, Zenon
  <2> QED  BY <2>1, Zenon
<1>5. ASSUME NEW p \in ConsWriter, NEW k,
             \/ U!uartputc(p) \/ U!putc_sleep(p) \/ U!write_end(p) \/ U!consolewrite(p, k)
      PROVE  U!SomeoneSends'
  <2>1. /\ uart_pc[p] \notin {"start", "thr"}
        /\ UNCHANGED <<uart_tx_w, uart_tx_r, fifo, irq>>
        /\ \E l : uart_pc' = [uart_pc EXCEPT ![p] = l]
    BY <1>5, Zenon DEF U!uartputc, U!putc_sleep, U!write_end, U!consolewrite
  <2>2. \A a \in U!Actor : a # p => uart_pc'[a] = uart_pc[a]
    BY <1>t, <2>1, Zenon
  <2> QED  BY <1>a, <1>t, <2>1, <2>2, Zenon
<1>6. CASE U!sync_wait(Printer, "out", "print") \/ U!sync_wait(Handler, "echo", "echothr")
  BY <1>6, <1>a, <1>t, Zenon DEF U!sync_wait
<1>7. CASE U!uartintr \/ U!intr_rx \/ U!intr_cons \/ U!intr_echoed \/ U!intr_tx \/ U!receive
  BY <1>7, <1>a, <1>t, Zenon DEF U!uartintr, U!intr_rx, U!intr_cons, U!intr_echoed, U!intr_tx, U!receive
<1>8. CASE UNCHANGED U!vars
  BY <1>8, <1>t, Zenon DEF U!vars
<1> QED
  BY <1>a, <1>1, <1>2, <1>3, <1>4, <1>5, <1>6, <1>7, <1>8, Zenon
     DEF U!Next, U!WriterStep, U!HandlerStep, U!printf, U!echo

(* uartstart() may give up on a busy transmitter: as long as a byte is     *)
(* buffered the transmitter is busy, or has interrupted, or a CPU is about *)
(* to send, whoever prints and echoes without uart_tx_lock meanwhile.      *)
THEOREM BytesGetSent == U!Spec => []SomeoneSends
<1>1. U!Init => UartInvariant
  BY UartWraps DEF U!Init, UartInvariant, UartTypes, U!SomeoneSends
<1>2. ASSUME UartInvariant, [U!Next]_(U!vars) PROVE UartInvariant'
  BY <1>2, UartTypeStep, UartSendStep, Zenon DEF UartInvariant
<1>3. UartInvariant => SomeoneSends
  BY Zenon DEF UartInvariant, SomeoneSends
<1> QED  BY <1>1, <1>2, <1>3, PTL DEF U!Spec

-----------------------------------------------------------------------------
(* cons.buf between two indices.                                           *)
Place == 0..ConsMod - 1
Far(x, y) == (y - x) % ConsMod
Span(f, x, y) == [k \in 1..Far(x, y) |-> f[((x + k - 1) % ConsMod) % INPUT_BUF]]

(* What is assumed of INPUT_BUF and of the width of the indices.           *)
LEMMA ConsSizes ==
  /\ ConsMod \in Nat /\ ConsMod > 0 /\ INPUT_BUF \in Nat /\ INPUT_BUF > 0
  /\ INPUT_BUF < ConsMod /\ ConsMod % INPUT_BUF = 0
  BY ConsoleAssumption DEF C!ConsoleConstants

(* The distance, without remainders, ...                                   *)
LEMMA FarIs ==
  ASSUME NEW x \in Place, NEW y \in Place
  PROVE  /\ Far(x, y) = IF x <= y THEN y - x ELSE y - x + ConsMod
         /\ Far(x, y) \in 0..ConsMod - 1
<1>1. CASE x <= y
  BY <1>1, ConsSizes DEF Far, Place
<1>2. CASE x > y
  BY <1>2, ConsSizes DEF Far, Place
<1> QED  BY <1>1, <1>2 DEF Place

(* ... and the indices ahead of x.                                         *)
LEMMA AheadIs ==
  ASSUME NEW x \in Place, NEW k \in 0..ConsMod - 1
  PROVE  (x + k) % ConsMod = IF x + k < ConsMod THEN x + k ELSE x + k - ConsMod
<1>1. CASE x + k < ConsMod
  BY <1>1, ConsSizes DEF Place
<1>2. CASE x + k >= ConsMod
  BY <1>2, ConsSizes DEF Place
<1> QED  BY <1>1, <1>2, ConsSizes DEF Place

(* Different steps lead to different indices.                              *)
LEMMA AheadApart ==
  ASSUME NEW x \in Place, NEW k \in 0..ConsMod - 1, NEW l \in 0..ConsMod - 1
  PROVE  (x + k) % ConsMod = (x + l) % ConsMod <=> k = l
<1>1. /\ (x + k) % ConsMod = IF x + k < ConsMod THEN x + k ELSE x + k - ConsMod
      /\ (x + l) % ConsMod = IF x + l < ConsMod THEN x + l ELSE x + l - ConsMod
  BY AheadIs, Zenon
<1> QED  BY <1>1, ConsSizes DEF Place

(* The next index, ...                                                     *)
LEMMA IncIs ==
  ASSUME NEW x \in Place
  PROVE  C!Inc(x) = (IF x + 1 = ConsMod THEN 0 ELSE x + 1) /\ C!Inc(x) \in Place
<1>1. CASE x + 1 = ConsMod
  BY <1>1, ConsSizes DEF Place, C!Inc
<1>2. CASE x + 1 # ConsMod
  BY <1>2, ConsSizes DEF Place, C!Inc
<1> QED  BY <1>1, <1>2, Zenon

(* ... and the one before.                                                 *)
LEMMA DecIs ==
  ASSUME NEW x \in Place
  PROVE  C!Dec(x) = (IF x = 0 THEN ConsMod - 1 ELSE x - 1) /\ C!Dec(x) \in Place
<1>1. CASE x = 0
  BY <1>1, ConsSizes DEF Place, C!Dec
<1>2. CASE x # 0
  BY <1>2, ConsSizes DEF Place, C!Dec
<1> QED  BY <1>1, <1>2, Zenon

(* The place of an index in cons.buf does not depend on the wrap around.   *)
LEMMA SamePlace ==
  ASSUME NEW x \in Place, NEW k \in 0..ConsMod - 1
  PROVE  ((x + k) % ConsMod) % INPUT_BUF = (x + k) % INPUT_BUF
<1>1. CASE x + k < ConsMod
  BY <1>1, AheadIs, Zenon
<1>2. CASE x + k >= ConsMod
  <2>1. x + k - ConsMod \in Nat /\ (x + k) % ConsMod = x + k - ConsMod
    BY <1>2, AheadIs, ConsSizes DEF Place
  <2>2. (x + k - ConsMod + ConsMod) % INPUT_BUF = (x + k - ConsMod) % INPUT_BUF
    BY <2>1, Wraps, ConsSizes, Zenon
  <2>3. x + k - ConsMod + ConsMod = x + k
    BY ConsSizes DEF Place
  <2> QED  BY <2>1, <2>2, <2>3, Zenon
<1> QED  BY <1>1, <1>2, ConsSizes DEF Place

(* Steps of at most INPUT_BUF from an index lead to different places.      *)
LEMMA OtherPlace ==
  ASSUME NEW x \in Place, NEW k \in Nat, NEW l \in Nat, k < l, l < INPUT_BUF
  PROVE  ((x + k) % ConsMod) % INPUT_BUF # ((x + l) % ConsMod) % INPUT_BUF
<1>1. k \in 0..ConsMod - 1 /\ l \in 0..ConsMod - 1
  BY ConsSizes
<1>2. /\ ((x + k) % ConsMod) % INPUT_BUF = (x + k) % INPUT_BUF
      /\ ((x + l) % ConsMod) % INPUT_BUF = (x + l) % INPUT_BUF
  BY <1>1, SamePlace, Zenon
<1>3. x + k \in Nat /\ x + l \in Nat /\ x + k < x + l /\ x + l < x + k + INPUT_BUF
  BY ConsSizes DEF Place
<1>4. (x + k) % INPUT_BUF # (x + l) % INPUT_BUF
  BY <1>3, Apart, ConsSizes, Zenon
<1> QED  BY <1>2, <1>4, Zenon

(* An index has a place in cons.buf.                                       *)
LEMMA PlaceType == ASSUME NEW x \in Place PROVE x % INPUT_BUF \in 0..INPUT_BUF - 1
  BY ConsSizes DEF Place

(* Where Far(x, y) steps lead.                                             *)
LEMMA FarAhead == ASSUME NEW x \in Place, NEW y \in Place PROVE (x + Far(x, y)) % ConsMod = y
<1>1. (x + Far(x, y)) % ConsMod =
        IF x + Far(x, y) < ConsMod THEN x + Far(x, y) ELSE x + Far(x, y) - ConsMod
  BY FarIs, AheadIs, Zenon
<1>2. /\ Far(x, y) = IF x <= y THEN y - x ELSE y - x + ConsMod
      /\ Far(x, y) \in 0..ConsMod - 1
  BY FarIs, Zenon
<1> QED  BY <1>1, <1>2, ConsSizes DEF Place

(* Two indices are no steps apart where they are the same.                 *)
LEMMA FarNat ==
  ASSUME NEW x \in Place, NEW y \in Place
  PROVE  Far(x, y) \in Nat /\ Far(x, y) < ConsMod /\ (Far(x, y) = 0 <=> x = y)
<1>1. /\ Far(x, y) = IF x <= y THEN y - x ELSE y - x + ConsMod
      /\ Far(x, y) \in 0..ConsMod - 1
  BY FarIs, Zenon
<1> QED  BY <1>1, ConsSizes DEF Place


(* A step of either index.                                                 *)
LEMMA FarSteps ==
  ASSUME NEW x \in Place, NEW y \in Place
  PROVE  /\ Far(x, y) + 1 < ConsMod => Far(x, C!Inc(y)) = Far(x, y) + 1
         /\ x # y => Far(C!Inc(x), y) = Far(x, y) - 1 /\ Far(x, C!Dec(y)) = Far(x, y) - 1
<1>1. /\ C!Inc(x) \in Place /\ C!Inc(x) = IF x + 1 = ConsMod THEN 0 ELSE x + 1
      /\ C!Inc(y) \in Place /\ C!Inc(y) = IF y + 1 = ConsMod THEN 0 ELSE y + 1
      /\ C!Dec(y) \in Place /\ C!Dec(y) = IF y = 0 THEN ConsMod - 1 ELSE y - 1
  BY IncIs, DecIs, Zenon
<1>2. /\ Far(x, y) = IF x <= y THEN y - x ELSE y - x + ConsMod
      /\ Far(x, C!Inc(y)) = IF x <= C!Inc(y) THEN C!Inc(y) - x ELSE C!Inc(y) - x + ConsMod
      /\ Far(C!Inc(x), y) = IF C!Inc(x) <= y THEN y - C!Inc(x) ELSE y - C!Inc(x) + ConsMod
      /\ Far(x, C!Dec(y)) = IF x <= C!Dec(y) THEN C!Dec(y) - x ELSE C!Dec(y) - x + ConsMod
  BY <1>1, FarIs, Zenon
<1> QED  BY <1>1, <1>2, ConsSizes DEF Place

(* Distances add up.                                                       *)
LEMMA FarAdds ==
  ASSUME NEW x \in Place, NEW y \in Place, NEW z \in Place, Far(x, y) + Far(y, z) < ConsMod
  PROVE  Far(x, z) = Far(x, y) + Far(y, z)
<1>1. /\ Far(x, y) = IF x <= y THEN y - x ELSE y - x + ConsMod
      /\ Far(y, z) = IF y <= z THEN z - y ELSE z - y + ConsMod
      /\ Far(x, z) = IF x <= z THEN z - x ELSE z - x + ConsMod
  BY FarIs, Zenon
<1> QED  BY <1>1, ConsSizes DEF Place

(* A buffer.                                                               *)
IsRing(f) == DOMAIN f = 0..INPUT_BUF - 1

(* f with v at index z.                                                    *)
Stored(g, f, z, v) == g = [f EXCEPT ![z % INPUT_BUF] = v]

(* Two buffers that agree from x to y.                                     *)
Same(f, g, x, y) ==
  \A k \in 1..Far(x, y) :
    g[((x + k - 1) % ConsMod) % INPUT_BUF] = f[((x + k - 1) % ConsMod) % INPUT_BUF]

(* A character that is put at z changes nothing before z ...               *)
LEMMA PlaceKeep ==
  ASSUME NEW f, IsRing(f), NEW x \in Place, NEW z \in Place, Far(x, z) < INPUT_BUF,
         NEW v, NEW g, Stored(g, f, z, v)
  PROVE  Same(f, g, x, z)
<1> SUFFICES ASSUME NEW k \in 1..Far(x, z)
             PROVE  g[((x + k - 1) % ConsMod) % INPUT_BUF] = f[((x + k - 1) % ConsMod) % INPUT_BUF]
  BY Zenon DEF Same
<1>1. Far(x, z) \in Nat
  BY FarNat, Zenon
<1>2. (x + Far(x, z)) % ConsMod = z
  BY FarAhead, Zenon
<1>3. ((x + k - 1) % ConsMod) % INPUT_BUF # z % INPUT_BUF
  <2>1. /\ k - 1 \in Nat /\ k - 1 < Far(x, z) /\ x + k - 1 = x + (k - 1)
    BY <1>1 DEF Place
  <2>2. ((x + (k - 1)) % ConsMod) % INPUT_BUF # ((x + Far(x, z)) % ConsMod) % INPUT_BUF
    BY <1>1, <2>1, OtherPlace, Zenon
  <2> QED  BY <1>2, <2>1, <2>2, Zenon
<1>4. ((x + k - 1) % ConsMod) % INPUT_BUF \in DOMAIN f
  <2>1. (x + k - 1) % ConsMod \in Place
    BY <1>1, ConsSizes DEF Place
  <2> QED  BY <2>1, PlaceType, Zenon DEF IsRing
<1> QED  BY <1>3, <1>4, Zenon DEF Stored

(* ... nor in a part of that, ...                                          *)
LEMMA SpanKeep ==
  ASSUME NEW f, IsRing(f), NEW x \in Place, NEW y \in Place, NEW z \in Place,
         Far(x, y) + Far(y, z) < INPUT_BUF, NEW v, NEW g, Stored(g, f, z, v)
  PROVE  Same(f, g, x, y)
<1>1. Far(x, y) \in Nat /\ Far(y, z) \in Nat
  BY FarNat, Zenon
<1>2. Far(x, z) = Far(x, y) + Far(y, z)
  <2>1. Far(x, y) + Far(y, z) < ConsMod
    BY <1>1, ConsSizes
  <2> QED  BY <2>1, FarAdds, Zenon
<1>3. Far(x, z) < INPUT_BUF /\ \A k \in 1..Far(x, y) : k \in 1..Far(x, z)
  BY <1>1, <1>2
<1>4. Same(f, g, x, z)
  BY <1>3, PlaceKeep, Zenon
<1> QED  BY <1>3, <1>4, Zenon DEF Same

(* ... and is the last one before the index after y.                       *)
Longer(f, g, x, y, v) == Span(g, x, C!Inc(y)) = Append(Span(f, x, y), v)

(* So what is stored at y follows what was there.                          *)
LEMMA SpanPut ==
  ASSUME NEW f, IsRing(f), NEW x \in Place, NEW y \in Place,
         Far(x, y) < INPUT_BUF, NEW v, NEW g, Stored(g, f, y, v)
  PROVE  Longer(f, g, x, y, v)
<1>b. Far(x, y) \in Nat
  BY FarNat, Zenon
<1>1. Far(x, y) \in Nat /\ Len(Span(f, x, y)) = Far(x, y)
  BY <1>b DEF Span
<1>a. \A k \in 1..Far(x, y) : Span(f, x, y)[k] = f[((x + k - 1) % ConsMod) % INPUT_BUF]
  BY Zenon DEF Span
<1>2. Far(x, C!Inc(y)) = Far(x, y) + 1
  <2>1. Far(x, y) + 1 < ConsMod
    BY <1>1, ConsSizes
  <2> QED  BY <2>1, FarSteps, Zenon
<1>3. Span(g, x, y) = Span(f, x, y)
  <2>1. Same(f, g, x, y)
    BY PlaceKeep, Zenon
  <2> QED  BY <2>1, Zenon DEF Same, Span
<1>4. g[((x + (Far(x, y) + 1) - 1) % ConsMod) % INPUT_BUF] = v
  <2>1. x + (Far(x, y) + 1) - 1 = x + Far(x, y)
    BY <1>1 DEF Place
  <2>2. (x + Far(x, y)) % ConsMod = y
    BY FarAhead, Zenon
  <2>3. y % INPUT_BUF \in DOMAIN f
    BY PlaceType, Zenon DEF IsRing
  <2> QED  BY <2>1, <2>2, <2>3, Zenon DEF Stored
<1>5. Span(g, x, C!Inc(y)) = [k \in 1..Far(x, y) + 1 |-> g[((x + k - 1) % ConsMod) % INPUT_BUF]]
  BY <1>2, Zenon DEF Span
<1>6. Span(f, x, y) = [k \in 1..Far(x, y) |-> g[((x + k - 1) % ConsMod) % INPUT_BUF]]
  BY <1>3, Zenon DEF Span
<1>7. Append(Span(f, x, y), v)
        = [k \in 1..Far(x, y) + 1 |-> IF k = Far(x, y) + 1 THEN v ELSE Span(f, x, y)[k]]
  BY <1>1, <1>6
<1>8. \A k \in 1..Far(x, y) + 1 : k \in 1..Far(x, y) \/ k = Far(x, y) + 1
  BY <1>1
<1>9. \A k \in 1..Far(x, y) : k # Far(x, y) + 1
  BY <1>1
<1>10. \A k \in 1..Far(x, y) + 1 :
         g[((x + k - 1) % ConsMod) % INPUT_BUF]
           = IF k = Far(x, y) + 1 THEN v ELSE Span(f, x, y)[k]
  BY <1>4, <1>6, <1>8, <1>9, Zenon
<1> QED  BY <1>5, <1>7, <1>10, Zenon DEF Longer

(* What is between x and z is what is before and after y.                  *)
LEMMA SpanJoin ==
  ASSUME NEW f, NEW x \in Place, NEW y \in Place, NEW z \in Place,
         Far(x, y) + Far(y, z) < ConsMod
  PROVE  Span(f, x, z) = Span(f, x, y) \o Span(f, y, z)
<1>b. Far(x, y) \in Nat /\ Far(y, z) \in Nat
  BY FarNat, Zenon
<1>1. /\ Far(x, y) \in Nat /\ Len(Span(f, x, y)) = Far(x, y)
      /\ Far(y, z) \in Nat /\ Len(Span(f, y, z)) = Far(y, z)
  BY <1>b DEF Span
<1>a. /\ \A k \in 1..Far(x, y) : Span(f, x, y)[k] = f[((x + k - 1) % ConsMod) % INPUT_BUF]
      /\ \A k \in 1..Far(y, z) : Span(f, y, z)[k] = f[((y + k - 1) % ConsMod) % INPUT_BUF]
  BY Zenon DEF Span
<1>2. Far(x, z) = Far(x, y) + Far(y, z)
  BY FarAdds, Zenon
<1>3. ASSUME NEW k \in 1..Far(y, z)
      PROVE  (x + (Far(x, y) + k) - 1) % ConsMod = (y + k - 1) % ConsMod
  <2>1. /\ Far(x, y) + k - 1 \in 0..ConsMod - 1 /\ k - 1 \in 0..ConsMod - 1
        /\ x + (Far(x, y) + k) - 1 = x + (Far(x, y) + k - 1) /\ y + k - 1 = y + (k - 1)
    <3>1. x \in Int /\ y \in Int /\ k \in Int /\ 1 <= k /\ k <= Far(y, z)
      BY <1>1 DEF Place
    <3> QED  BY <1>1, <3>1, ConsSizes
  <2>2. /\ (x + (Far(x, y) + k - 1)) % ConsMod
             = IF x + (Far(x, y) + k - 1) < ConsMod THEN x + (Far(x, y) + k - 1)
               ELSE x + (Far(x, y) + k - 1) - ConsMod
        /\ (y + (k - 1)) % ConsMod
             = IF y + (k - 1) < ConsMod THEN y + (k - 1) ELSE y + (k - 1) - ConsMod
    BY <2>1, AheadIs, Zenon
  <2>3. /\ Far(x, y) = IF x <= y THEN y - x ELSE y - x + ConsMod
        /\ Far(y, z) = IF y <= z THEN z - y ELSE z - y + ConsMod
    BY FarIs, Zenon
  <2> QED  BY <1>1, <2>1, <2>2, <2>3, ConsSizes DEF Place
<1>4. Span(f, x, y) \o Span(f, y, z)
        = [k \in 1..Far(x, y) + Far(y, z) |->
             IF k <= Far(x, y) THEN Span(f, x, y)[k] ELSE Span(f, y, z)[k - Far(x, y)]]
  BY <1>1 DEF Span
<1>5. ASSUME NEW k \in 1..Far(x, y) + Far(y, z)
      PROVE  f[((x + k - 1) % ConsMod) % INPUT_BUF]
               = IF k <= Far(x, y) THEN Span(f, x, y)[k] ELSE Span(f, y, z)[k - Far(x, y)]
  <2>1. CASE k <= Far(x, y)
    <3>1. k \in 1..Far(x, y)
      BY <1>1, <2>1
    <3> QED  BY <1>a, <2>1, <3>1, Zenon
  <2>2. CASE ~(k <= Far(x, y))
    <3>1. k - Far(x, y) \in 1..Far(y, z) /\ Far(x, y) + (k - Far(x, y)) = k
      BY <1>1, <2>2
    <3>2. (x + k - 1) % ConsMod = (y + (k - Far(x, y)) - 1) % ConsMod
      BY <1>3, <3>1, Zenon
    <3>3. Span(f, y, z)[k - Far(x, y)] = f[((y + (k - Far(x, y)) - 1) % ConsMod) % INPUT_BUF]
      BY <1>a, <3>1, Zenon
    <3> QED  BY <2>2, <3>2, <3>3, Zenon
  <2> QED  BY <2>1, <2>2, Zenon
<1>6. Span(f, x, z) = [k \in 1..Far(x, y) + Far(y, z) |-> f[((x + k - 1) % ConsMod) % INPUT_BUF]]
  BY <1>2, Zenon DEF Span
<1> QED  BY <1>4, <1>5, <1>6, Zenon

(* At the near end, one character less.                                    *)
LEMMA SpanTake ==
  ASSUME NEW f, NEW x \in Place, NEW y \in Place, x # y
  PROVE  /\ Span(f, C!Inc(x), y) = Tail(Span(f, x, y))
         /\ Head(Span(f, x, y)) = f[x % INPUT_BUF]
<1>0. C!Inc(x) \in Place /\ C!Inc(x) = IF x + 1 = ConsMod THEN 0 ELSE x + 1
  BY IncIs, Zenon
<1>b. Far(x, y) \in Nat /\ Far(x, y) # 0
  BY FarNat, Zenon
<1>1. Far(x, y) \in Nat /\ Len(Span(f, x, y)) = Far(x, y) /\ Span(f, x, y) # <<>>
  BY <1>b DEF Span
<1>a. \A k \in 1..Far(x, y) : Span(f, x, y)[k] = f[((x + k - 1) % ConsMod) % INPUT_BUF]
  BY Zenon DEF Span
<1>2. Far(C!Inc(x), y) = Far(x, y) - 1
  BY FarSteps, Zenon
<1>3. Far(x, y) # 0 /\ Far(x, y) \in 0..ConsMod - 1
  <2>1. /\ Far(x, y) = IF x <= y THEN y - x ELSE y - x + ConsMod
        /\ Far(x, y) \in 0..ConsMod - 1
    BY FarIs, Zenon
  <2> QED  BY <2>1, ConsSizes DEF Place
<1>4. ASSUME NEW k \in 1..Far(x, y) - 1
      PROVE  (C!Inc(x) + k - 1) % ConsMod = (x + (k + 1) - 1) % ConsMod
  <2>1. /\ k - 1 \in 0..ConsMod - 1 /\ k \in 0..ConsMod - 1
        /\ C!Inc(x) + k - 1 = C!Inc(x) + (k - 1) /\ x + (k + 1) - 1 = x + k
    <3>1. C!Inc(x) \in Int /\ x \in Int /\ k \in Int /\ 1 <= k /\ k < ConsMod
      BY <1>0, <1>3, ConsSizes DEF Place
    <3> QED  BY <3>1, ConsSizes
  <2>2. /\ (C!Inc(x) + (k - 1)) % ConsMod
             = IF C!Inc(x) + (k - 1) < ConsMod THEN C!Inc(x) + (k - 1)
               ELSE C!Inc(x) + (k - 1) - ConsMod
        /\ (x + k) % ConsMod = IF x + k < ConsMod THEN x + k ELSE x + k - ConsMod
    BY <1>0, <2>1, AheadIs, Zenon
  <2> QED  BY <1>0, <2>1, <2>2, ConsSizes DEF Place
<1>5. Tail(Span(f, x, y)) = [k \in 1..Far(x, y) - 1 |-> Span(f, x, y)[k + 1]]
  BY <1>1, <1>3 DEF Span
<1>6. \A k \in 1..Far(x, y) - 1 : k + 1 \in 1..Far(x, y)
  BY <1>1
<1>7. \A k \in 1..Far(x, y) - 1 :
        f[((C!Inc(x) + k - 1) % ConsMod) % INPUT_BUF] = Span(f, x, y)[k + 1]
  BY <1>a, <1>4, <1>6, Zenon
<1>8. Span(f, C!Inc(x), y)
        = [k \in 1..Far(x, y) - 1 |-> f[((C!Inc(x) + k - 1) % ConsMod) % INPUT_BUF]]
  BY <1>2, Zenon DEF Span
<1>9. Head(Span(f, x, y)) = f[x % INPUT_BUF]
  <2>1. Head(Span(f, x, y)) = Span(f, x, y)[1]
    BY <1>1
  <2>2. 1 \in 1..Far(x, y)
    BY <1>1, <1>3
  <2>3. x + 1 - 1 = x /\ x % ConsMod = x
    BY ConsSizes DEF Place
  <2> QED  BY <1>a, <2>1, <2>2, <2>3, Zenon
<1> QED  BY <1>5, <1>7, <1>8, <1>9, Zenon

(* At the far end, one character less.                                     *)
LEMMA SpanDrop ==
  ASSUME NEW f, NEW x \in Place, NEW y \in Place, x # y
  PROVE  Span(f, x, C!Dec(y)) = SubSeq(Span(f, x, y), 1, Len(Span(f, x, y)) - 1)
<1>b. Far(x, y) \in Nat
  BY FarNat, Zenon
<1>1. Far(x, y) \in Nat /\ Len(Span(f, x, y)) = Far(x, y)
  BY <1>b DEF Span
<1>a. \A k \in 1..Far(x, y) : Span(f, x, y)[k] = f[((x + k - 1) % ConsMod) % INPUT_BUF]
  BY Zenon DEF Span
<1>2. Far(x, C!Dec(y)) = Far(x, y) - 1
  BY FarSteps, Zenon
<1>3. Far(x, y) # 0
  <2>1. Far(x, y) = IF x <= y THEN y - x ELSE y - x + ConsMod
    BY FarIs, Zenon
  <2> QED  BY <2>1, ConsSizes DEF Place
<1>4. SubSeq(Span(f, x, y), 1, Far(x, y) - 1) = [k \in 1..Far(x, y) - 1 |-> Span(f, x, y)[k]]
  BY <1>1, <1>3 DEF Span
<1>5. \A k \in 1..Far(x, y) - 1 : k \in 1..Far(x, y)
  BY <1>1
<1>6. Span(f, x, C!Dec(y)) = [k \in 1..Far(x, y) - 1 |-> f[((x + k - 1) % ConsMod) % INPUT_BUF]]
  BY <1>2, Zenon DEF Span
<1> QED  BY <1>1, <1>a, <1>4, <1>5, <1>6, Zenon
-----------------------------------------------------------------------------
(* A console buffer with indices x, y and z for r, w and e: w is between r *)
(* and e, those are at most INPUT_BUF apart, what can be read has been     *)
(* typed, and what ends a line is not in the line that is edited.          *)
Edited == C!Char \ {"nl", "^D"}
Good(f, x, y, z) ==
  /\ IsRing(f) /\ x \in Place /\ y \in Place /\ z \in Place
  /\ Far(x, y) + Far(y, z) <= INPUT_BUF
  /\ Span(f, x, y) \in Seq(C!Char) /\ Span(f, y, z) \in Seq(Edited)

(* A character is taken from the committed lines.                          *)
Taken(f, x, y, z) ==
  /\ Good(f, C!Inc(x), y, z)
  /\ Span(f, x, y) # <<>>
  /\ Span(f, C!Inc(x), y) = Tail(Span(f, x, y))
  /\ Head(Span(f, x, y)) = f[x % INPUT_BUF] /\ f[x % INPUT_BUF] \in C!Char

(* That is the first one, and the rest is as good.                         *)
LEMMA TakeGood ==
  ASSUME NEW f, NEW x, NEW y, NEW z, Good(f, x, y, z), x # y
  PROVE  Taken(f, x, y, z)
<1> USE DEF Good
<1>1. C!Inc(x) \in Place
  BY IncIs, Zenon
<1>2. Far(x, y) \in Nat /\ Far(y, z) \in Nat /\ Far(x, y) # 0
  BY FarNat, Zenon
<1>3. Far(C!Inc(x), y) = Far(x, y) - 1
  BY FarSteps, Zenon
<1>4. Far(C!Inc(x), y) + Far(y, z) <= INPUT_BUF
  BY <1>2, <1>3, ConsSizes
<1>5. /\ Span(f, C!Inc(x), y) = Tail(Span(f, x, y)) /\ Head(Span(f, x, y)) = f[x % INPUT_BUF]
  BY SpanTake, Zenon
<1>6. Span(f, x, y) # <<>>
  BY <1>2 DEF Span
<1>7. Tail(Span(f, x, y)) \in Seq(C!Char) /\ Head(Span(f, x, y)) \in C!Char
  BY <1>6
<1> QED  BY <1>1, <1>4, <1>5, <1>6, <1>7, Zenon DEF Taken

(* A character is erased from the line that is edited.                     *)
Erased(f, x, y, z) ==
  /\ Good(f, x, y, C!Dec(z))
  /\ Span(f, y, z) # <<>>
  /\ Span(f, y, C!Dec(z)) = SubSeq(Span(f, y, z), 1, Len(Span(f, y, z)) - 1)

(* What is committed stays.                                                *)
LEMMA EraseGood ==
  ASSUME NEW f, NEW x, NEW y, NEW z, Good(f, x, y, z), y # z
  PROVE  Erased(f, x, y, z)
<1> USE DEF Good
<1>1. C!Dec(z) \in Place
  BY DecIs, Zenon
<1>2. Far(x, y) \in Nat /\ Far(y, z) \in Nat /\ Far(y, z) # 0
  BY FarNat, Zenon
<1>3. Far(y, C!Dec(z)) = Far(y, z) - 1
  BY FarSteps, Zenon
<1>4. Far(x, y) + Far(y, C!Dec(z)) <= INPUT_BUF
  BY <1>2, <1>3, ConsSizes
<1>5. Span(f, y, C!Dec(z)) = SubSeq(Span(f, y, z), 1, Len(Span(f, y, z)) - 1)
  BY SpanDrop, Zenon
<1>6. Span(f, y, z) # <<>>
  BY <1>2 DEF Span
<1>7. SubSeq(Span(f, y, z), 1, Len(Span(f, y, z)) - 1) \in Seq(Edited)
  <2>1. Len(Span(f, y, z)) \in Nat /\ Len(Span(f, y, z)) # 0
    BY <1>6
  <2> QED  BY <2>1
<1> QED  BY <1>1, <1>4, <1>5, <1>6, <1>7, Zenon DEF Erased

(* A character v is put at the end of the line that is edited; f becomes g.*)
IsFull(x, z) == C!Inc(z) = (x + INPUT_BUF) % ConsMod
Commits(v, x, z) == v \in {"nl", "^D"} \/ IsFull(x, z)
Put(f, g, x, y, z, v) ==
  /\ IsFull(x, z) <=> Len(Span(f, x, y)) + Len(Append(Span(f, y, z), v)) = INPUT_BUF
  /\ Len(Span(f, x, y)) + Len(Span(f, y, z)) < INPUT_BUF
  /\ Commits(v, x, z) =>
       /\ Good(g, x, C!Inc(z), C!Inc(z))
       /\ Span(g, C!Inc(z), C!Inc(z)) = <<>>
       /\ Span(g, x, C!Inc(z)) = Span(f, x, y) \o Append(Span(f, y, z), v)
  /\ ~Commits(v, x, z) =>
       /\ Good(g, x, y, C!Inc(z))
       /\ Span(g, x, y) = Span(f, x, y)
       /\ Span(g, y, C!Inc(z)) = Append(Span(f, y, z), v)

(* The line is committed when v ends it or fills cons.buf.                 *)
LEMMA PutGood ==
  ASSUME NEW f, NEW x, NEW y, NEW z, Good(f, x, y, z), NEW v \in C!Char, NEW g, Stored(g, f, z, v),
         Far(x, z) < INPUT_BUF
  PROVE  Put(f, g, x, y, z, v)
<1>0. /\ IsRing(f) /\ x \in Place /\ y \in Place /\ z \in Place
      /\ Far(x, y) + Far(y, z) <= INPUT_BUF
      /\ Span(f, x, y) \in Seq(C!Char) /\ Span(f, y, z) \in Seq(Edited)
  BY Zenon DEF Good
<1>1. C!Inc(z) \in Place
  BY <1>0, IncIs, Zenon
<1>2. IsRing(g)
  BY <1>0, Zenon DEF Stored, IsRing
<1>3. Far(x, y) \in Nat /\ Far(y, z) \in Nat /\ Far(x, z) \in Nat /\ Far(x, C!Inc(z)) \in Nat
  BY <1>0, <1>1, FarNat, Zenon
<1>4. Far(x, y) + Far(y, z) < ConsMod
  BY <1>0, <1>3, ConsSizes
<1>5. Far(x, z) = Far(x, y) + Far(y, z)
  BY <1>0, <1>4, FarAdds, Zenon
<1>6. Far(y, z) < INPUT_BUF /\ Far(x, z) + 1 < ConsMod /\ Far(y, z) + 1 < ConsMod
  BY <1>3, <1>5, ConsSizes
<1>7. Far(x, C!Inc(z)) = Far(x, z) + 1 /\ Far(y, C!Inc(z)) = Far(y, z) + 1
  BY <1>0, <1>6, FarSteps, Zenon
<1>a. Longer(f, g, x, z, v) /\ Longer(f, g, y, z, v)
  BY <1>0, <1>6, SpanPut, Zenon
<1>8. Span(g, x, C!Inc(z)) = Append(Span(f, x, z), v)
  BY <1>a, Zenon DEF Longer
<1>9. Span(g, y, C!Inc(z)) = Append(Span(f, y, z), v)
  BY <1>a, Zenon DEF Longer
<1>10. Span(f, x, z) = Span(f, x, y) \o Span(f, y, z)
  BY <1>0, <1>4, SpanJoin, Zenon
<1>11. Span(g, x, y) = Span(f, x, y)
  <2>1. Far(x, y) + Far(y, z) < INPUT_BUF
    BY <1>5, Zenon
  <2>2. Same(f, g, x, y)
    BY <1>0, <2>1, SpanKeep, Zenon
  <2> QED  BY <2>2, Zenon DEF Same, Span
<1>12. Len(Span(f, x, y)) = Far(x, y) /\ Len(Span(f, y, z)) = Far(y, z)
  BY <1>3 DEF Span
<1>13. Len(Append(Span(f, y, z), v)) = Far(y, z) + 1
  BY <1>0, <1>12
<1>14. IsFull(x, z) <=> Far(x, z) + 1 = INPUT_BUF
  <2>1. Far(x, C!Inc(z)) \in 0..ConsMod - 1 /\ INPUT_BUF \in 0..ConsMod - 1
    BY <1>3, <1>6, <1>7, ConsSizes
  <2>2. (x + Far(x, C!Inc(z))) % ConsMod = C!Inc(z)
    BY <1>0, <1>1, FarAhead, Zenon
  <2>3. (x + Far(x, C!Inc(z))) % ConsMod = (x + INPUT_BUF) % ConsMod <=> Far(x,
          C!Inc(z)) = INPUT_BUF
    BY <1>0, <2>1, AheadApart, Zenon
  <2>4. IsFull(x, z) <=> Far(x, C!Inc(z)) = INPUT_BUF
    BY <2>2, <2>3, Zenon DEF IsFull
  <2> QED  BY <1>7, <2>4, Zenon
<1>15. ASSUME Commits(v, x, z)
       PROVE  /\ Good(g, x, C!Inc(z), C!Inc(z))
              /\ Span(g, C!Inc(z), C!Inc(z)) = <<>>
              /\ Span(g, x, C!Inc(z)) = Span(f, x, y) \o Append(Span(f, y, z), v)
  <2>1. Span(g, x, C!Inc(z)) = Append(Span(f, x, y) \o Span(f, y, z), v)
    BY <1>8, <1>10, Zenon
  <2>2. Span(f, y, z) \in Seq(C!Char)
    BY <1>0 DEF Edited
  <2>3. Append(Span(f, x, y) \o Span(f, y, z), v) = Span(f, x, y) \o Append(Span(f, y, z), v)
    BY <1>0, <2>2
  <2>4. Append(Span(f, x, y) \o Span(f, y, z), v) \in Seq(C!Char)
    BY <1>0, <2>2
  <2>5. Far(C!Inc(z), C!Inc(z)) = 0
    BY <1>1, FarNat, Zenon
  <2>6. Span(g, C!Inc(z), C!Inc(z)) = <<>>
    BY <2>5 DEF Span
  <2>7. Far(x, C!Inc(z)) + Far(C!Inc(z), C!Inc(z)) <= INPUT_BUF
    BY <1>3, <1>7, <2>5, ConsSizes
  <2>8. <<>> \in Seq(Edited)
    OBVIOUS
  <2> QED  BY <1>0, <1>1, <1>2, <2>1, <2>3, <2>4, <2>6, <2>7, <2>8, Zenon DEF Good
<1>16. ASSUME ~Commits(v, x, z)
       PROVE  Good(g, x, y, C!Inc(z))
  <2>1. v \in Edited
    BY <1>16, Zenon DEF Commits, Edited
  <2>2. Append(Span(f, y, z), v) \in Seq(Edited)
    BY <1>0, <2>1
  <2>3. Far(x, y) + Far(y, C!Inc(z)) <= INPUT_BUF
    BY <1>3, <1>5, <1>7, ConsSizes
  <2> QED  BY <1>0, <1>1, <1>2, <1>9, <1>11, <2>2, <2>3, Zenon DEF Good
<1>17. /\ IsFull(x, z) <=> Len(Span(f, x, y)) + Len(Append(Span(f, y, z), v)) = INPUT_BUF
       /\ Len(Span(f, x, y)) + Len(Span(f, y, z)) < INPUT_BUF
  BY <1>3, <1>5, <1>12, <1>13, <1>14
<1> QED  BY <1>9, <1>11, <1>15, <1>16, <1>17, Zenon DEF Put

(* ^U goes back to the start of the line: from z, to the y of Good.        *)
KillsTo(f, y, z, t) ==
  /\ Far(t, z) <= Far(y, z)
  /\ \A k \in 1..Far(t, z) : f[((z - k) % ConsMod) % INPUT_BUF] # "nl"
  /\ Far(t, z) = Far(y, z) \/ f[C!Dec(t) % INPUT_BUF] = "nl"

(* The indices behind x, ...                                               *)
LEMMA BackIs ==
  ASSUME NEW x \in Place, NEW k \in 0..ConsMod - 1
  PROVE  (x - k) % ConsMod = IF x < k THEN x - k + ConsMod ELSE x - k
<1>1. CASE x < k
  BY <1>1, ConsSizes DEF Place
<1>2. CASE ~(x < k)
  BY <1>2, ConsSizes DEF Place
<1> QED  BY <1>1, <1>2, Zenon

(* ... which are those ahead of y, counted from the other end.             *)
LEMMA Backward ==
  ASSUME NEW y \in Place, NEW z \in Place, NEW k \in 1..Far(y, z)
  PROVE  /\ (z - k) % ConsMod = (y + (Far(y, z) + 1 - k) - 1) % ConsMod
         /\ Far(y, z) + 1 - k \in 1..Far(y, z)
<1>1. /\ Far(y, z) = IF y <= z THEN z - y ELSE z - y + ConsMod
      /\ Far(y, z) \in 0..ConsMod - 1
  BY FarIs, Zenon
<1>2. /\ k \in 0..ConsMod - 1 /\ Far(y, z) - k \in 0..ConsMod - 1
      /\ y + (Far(y, z) + 1 - k) - 1 = y + (Far(y, z) - k)
      /\ Far(y, z) + 1 - k \in 1..Far(y, z)
  BY <1>1, ConsSizes DEF Place
<1>3. /\ (z - k) % ConsMod = IF z < k THEN z - k + ConsMod ELSE z - k
      /\ (y + (Far(y, z) - k)) % ConsMod
           = IF y + (Far(y, z) - k) < ConsMod THEN y + (Far(y, z) - k)
             ELSE y + (Far(y, z) - k) - ConsMod
  BY <1>2, BackIs, AheadIs, Zenon
<1>4. (z - k) % ConsMod = (y + (Far(y, z) - k)) % ConsMod
  BY <1>1, <1>2, <1>3, ConsSizes DEF Place
<1> QED  BY <1>2, <1>4, Zenon

(* There is no end of a line on the way.                                   *)
LEMMA KillGood ==
  ASSUME NEW f, NEW x, NEW y, NEW z, Good(f, x, y, z), NEW t \in Place
  PROVE  KillsTo(f, y, z, t) <=> t = y
<1>0. y \in Place /\ z \in Place /\ Span(f, y, z) \in Seq(Edited)
  BY Zenon DEF Good
<1>1. /\ Far(y, z) = IF y <= z THEN z - y ELSE z - y + ConsMod
      /\ Far(y, z) \in 0..ConsMod - 1
      /\ Far(t, z) = IF t <= z THEN z - t ELSE z - t + ConsMod
      /\ Far(t, z) \in 0..ConsMod - 1
  BY <1>0, FarIs, Zenon
<1>2. \A k \in 1..Far(y, z) : f[((z - k) % ConsMod) % INPUT_BUF] # "nl"
  <2> SUFFICES ASSUME NEW k \in 1..Far(y, z)
               PROVE  f[((z - k) % ConsMod) % INPUT_BUF] # "nl"
    BY Zenon
  <2>1. /\ (z - k) % ConsMod = (y + (Far(y, z) + 1 - k) - 1) % ConsMod
        /\ Far(y, z) + 1 - k \in 1..Far(y, z)
    BY <1>0, Backward, Zenon
  <2>2. Span(f, y, z)[Far(y, z) + 1 - k]
          = f[((y + (Far(y, z) + 1 - k) - 1) % ConsMod) % INPUT_BUF]
    BY <2>1, Zenon DEF Span
  <2>3. Len(Span(f, y, z)) = Far(y, z)
    BY <1>1 DEF Span
  <2>4. \A l \in 1..Len(Span(f, y, z)) : Span(f, y, z)[l] \in Edited
    BY <1>0
  <2>5. Span(f, y, z)[Far(y, z) + 1 - k] \in Edited
    BY <2>1, <2>3, <2>4, Zenon
  <2>6. "nl" \notin Edited
    BY Zenon DEF Edited
  <2> QED  BY <2>1, <2>2, <2>5, <2>6, Zenon
<1>3. ASSUME t = y PROVE KillsTo(f, y, z, t)
  <2>1. Far(y, z) <= Far(y, z)
    BY <1>1
  <2> QED  BY <1>2, <1>3, <2>1, Zenon DEF KillsTo
<1>4. ASSUME KillsTo(f, y, z, t), t # y PROVE FALSE
  <2>1. Far(t, z) # Far(y, z)
    BY <1>0, <1>1, <1>4, ConsSizes DEF Place
  <2>2. Far(t, z) <= Far(y, z) /\ f[C!Dec(t) % INPUT_BUF] = "nl"
    BY <1>4, <2>1, Zenon DEF KillsTo
  <2>3. Far(t, z) + 1 \in 1..Far(y, z) /\ Far(t, z) + 1 \in 0..ConsMod - 1
    BY <1>1, <2>1, <2>2, ConsSizes
  <2>4. /\ C!Dec(t) = IF t = 0 THEN ConsMod - 1 ELSE t - 1
        /\ (z - (Far(t, z) + 1)) % ConsMod
             = IF z < Far(t, z) + 1 THEN z - (Far(t, z) + 1) + ConsMod ELSE z - (Far(t, z) + 1)
    BY <1>0, <2>3, DecIs, BackIs, Zenon
  <2>5. C!Dec(t) = (z - (Far(t, z) + 1)) % ConsMod
    BY <1>0, <1>1, <2>4, ConsSizes DEF Place
  <2> QED  BY <1>2, <2>2, <2>3, <2>5, Zenon
<1> QED  BY <1>3, <1>4, Zenon

-----------------------------------------------------------------------------
(* cons.lock is held by who is in consoleread() and awake.                 *)
ConsLocked == \A p \in ConsReader : cons_lock = p <=> cons_pc[p] \in {"read", "sleep"}

(* Who is about to sleep, or sleeps, has found no line.                    *)
ConsReasons == \A p \in ConsReader : cons_pc[p] \in {"sleep", "asleep"} => cons_r = cons_w

(* The invariant of console.c.                                             *)
ConsInvariant == C!TypeOK /\ ConsLocked /\ ConsReasons /\ Good(cons_buf, cons_r, cons_w, cons_e)

(* What the refinement shows of the buffer.                                *)
LEMMA Shown ==
  /\ C!Between(cons_r, cons_w) = Span(cons_buf, cons_r, cons_w)
  /\ C!Between(cons_w, cons_e) = Span(cons_buf, cons_w, cons_e)
  /\ C!Between(cons_r, cons_w)' = Span(cons_buf', cons_r', cons_w')
  /\ C!Between(cons_w, cons_e)' = Span(cons_buf', cons_w', cons_e')
  BY Zenon DEF C!Between, C!At, Span, Far

(* consoleread() takes a character,                                        *)
ReadMoves ==
  /\ Good(cons_buf, cons_r, cons_w, cons_e)'
  /\ C!Between(cons_w, cons_e)' = C!Between(cons_w, cons_e)
  /\ C!Between(cons_r, cons_w) # <<>>
  /\ C!Between(cons_r, cons_w)' = Tail(C!Between(cons_r, cons_w))
  /\ C!At(cons_r) = Head(C!Between(cons_r, cons_w)) /\ C!At(cons_r) \in C!Char

(* consoleread() takes the first character of the committed lines.         *)
LEMMA ReadGood ==
  ASSUME Good(cons_buf, cons_r, cons_w, cons_e), cons_r # cons_w, cons_r' = C!Inc(cons_r),
          UNCHANGED <<cons_buf, cons_w, cons_e>>
  PROVE  ReadMoves
<1>1. Taken(cons_buf, cons_r, cons_w, cons_e)
  BY TakeGood, Zenon
<1>2. Good(cons_buf', cons_r', cons_w', cons_e')
  BY <1>1, Zenon DEF Taken
<1> QED  BY <1>1, <1>2, Shown, Zenon DEF Taken, ReadMoves, C!At

(* consoleintr() erases one,                                               *)
LEMMA EraseMoves ==
  ASSUME Good(cons_buf, cons_r, cons_w, cons_e), C!intr_erase
  PROVE  Good(cons_buf, cons_r, cons_w, cons_e)' /\ C!Abstract!Erase
<1>1. /\ cons_e # cons_w /\ cons_e' = C!Dec(cons_e)
      /\ UNCHANGED <<cons_buf, cons_r, cons_w, cons_out>>
  BY Zenon DEF C!intr_erase
<1>2. Erased(cons_buf, cons_r, cons_w, cons_e)
  BY <1>1, EraseGood, Zenon
<1>3. Good(cons_buf', cons_r', cons_w', cons_e')
  BY <1>1, <1>2, Zenon DEF Erased
<1>4. C!Between(cons_w, cons_e) # <<>> /\ C!Between(cons_w, cons_e)' = SubSeq(C!Between(cons_w,
        cons_e), 1, Len(C!Between(cons_w, cons_e)) - 1)
  BY <1>1, <1>2, Shown, Zenon DEF Erased
<1>5. C!Between(cons_r, cons_w)' = C!Between(cons_r, cons_w)
  BY <1>1, Shown, Zenon
<1> QED  BY <1>1, <1>3, <1>4, <1>5, Zenon DEF C!Abstract!Erase

(* the whole line,                                                         *)
LEMMA KillMoves ==
  ASSUME Good(cons_buf, cons_r, cons_w, cons_e), C!intr_kill_line
  PROVE  Good(cons_buf, cons_r, cons_w, cons_e)' /\ C!Abstract!KillLine
<1>0. cons_w \in Place /\ cons_e \in Place /\ cons_r \in Place
  BY Zenon DEF Good
<1>1. cons_e' = C!KillTo /\ UNCHANGED <<cons_buf, cons_r, cons_w, cons_out>>
  BY Zenon DEF C!intr_kill_line
<1>2. C!KillTo = CHOOSE t \in Place : KillsTo(cons_buf, cons_w, cons_e, t)
  BY Zenon DEF C!KillTo, KillsTo, Far, C!At, Place
<1>3. \A t \in Place : KillsTo(cons_buf, cons_w, cons_e, t) <=> t = cons_w
  BY KillGood, Zenon
<1>4. C!KillTo = cons_w
  BY <1>0, <1>2, <1>3, Zenon
<1>5. Far(cons_w, cons_w) = 0 /\ Far(cons_r, cons_w) \in Nat /\ Far(cons_w, cons_e) \in Nat
  BY <1>0, FarNat, Zenon
<1>6. Span(cons_buf, cons_w, cons_w) = <<>>
  BY <1>5 DEF Span
<1>7. Good(cons_buf, cons_r, cons_w, cons_w)
  <2>1. Far(cons_r, cons_w) + Far(cons_w, cons_w) <= INPUT_BUF
    BY <1>5, ConsSizes DEF Good
  <2>2. <<>> \in Seq(Edited)
    OBVIOUS
  <2> QED  BY <1>6, <2>1, <2>2, Zenon DEF Good
<1>8. Good(cons_buf', cons_r', cons_w', cons_e')
  BY <1>1, <1>4, <1>7, Zenon
<1>9. C!Between(cons_w, cons_e)' = <<>> /\ C!Between(cons_r, cons_w)' = C!Between(cons_r, cons_w)
  BY <1>1, <1>4, <1>6, Shown, Zenon
<1> QED  BY <1>1, <1>8, <1>9, Zenon DEF C!Abstract!KillLine

(* or puts one.                                                            *)
LEMMA TypeMoves ==
  ASSUME Good(cons_buf, cons_r, cons_w, cons_e), NEW k, C!intr_char(k)
  PROVE  Good(cons_buf, cons_r, cons_w, cons_e)' /\ \E v \in C!Char : C!Abstract!Type(v)
<1> DEFINE v == IF k = "cr" THEN "nl" ELSE k
<1>1. v \in C!Char
  BY Zenon DEF C!intr_char, C!Char
<1> HIDE DEF v
<1>2. /\ Far(cons_r, cons_e) < INPUT_BUF
      /\ cons_buf' = [cons_buf EXCEPT ![cons_e % INPUT_BUF] = v]
      /\ cons_w' = IF C!EndsLine(v) THEN C!Inc(cons_e) ELSE cons_w
      /\ cons_e' = C!Inc(cons_e) /\ cons_r' = cons_r /\ cons_out' = cons_out
  BY Zenon DEF C!intr_char, v, Far
<1>3. Stored(cons_buf', cons_buf, cons_e, v)
  BY <1>2, Zenon DEF Stored
<1>4. Put(cons_buf, cons_buf', cons_r, cons_w, cons_e, v)
  BY <1>1, <1>2, <1>3, PutGood, Zenon
<1>5. C!EndsLine(v) <=> Commits(v, cons_r, cons_e)
  BY Zenon DEF C!EndsLine, Commits, IsFull
<1>6. Good(cons_buf', cons_r', cons_w', cons_e')
  BY <1>2, <1>4, <1>5, Zenon DEF Put
<1>7. Len(C!Between(cons_r, cons_w)) + Len(C!Between(cons_w, cons_e)) < INPUT_BUF
  BY <1>4, Shown, Zenon DEF Put
<1>8. ASSUME Commits(v, cons_r, cons_e)
      PROVE  /\ \/ v \in {"nl", "^D"}
                \/ Len(C!Between(cons_r, cons_w)) + Len(Append(C!Between(cons_w, cons_e), v))
                     = INPUT_BUF
             /\ C!Between(cons_w, cons_e)' = <<>>
             /\ C!Between(cons_r, cons_w)' =
                  C!Between(cons_r, cons_w) \o Append(C!Between(cons_w, cons_e), v)
  BY <1>2, <1>4, <1>5, <1>8, Shown, Zenon DEF Put, Commits
<1>9. ASSUME ~Commits(v, cons_r, cons_e)
      PROVE  /\ v \notin {"nl", "^D"}
             /\ Len(C!Between(cons_r, cons_w)) + Len(Append(C!Between(cons_w, cons_e), v))
                  # INPUT_BUF
             /\ C!Between(cons_w, cons_e)' = Append(C!Between(cons_w, cons_e), v)
             /\ C!Between(cons_r, cons_w)' = C!Between(cons_r, cons_w)
  BY <1>2, <1>4, <1>5, <1>9, Shown, Zenon DEF Put, Commits
<1>10. C!Abstract!Type(v)
  BY <1>2, <1>7, <1>8, <1>9, Zenon DEF C!Abstract!Type
<1> QED  BY <1>1, <1>6, <1>10, Zenon

-----------------------------------------------------------------------------
(* The invariant, but for the buffer.                                      *)
Control == C!TypeOK /\ ConsLocked /\ ConsReasons

(* Who takes the lock, waits or returns leaves the buffer alone.           *)
LEMMA QuietReads ==
  ASSUME ConsInvariant, NEW p \in ConsReader,
         \/ \E k \in 0..MaxN : C!consoleread(p, k)
         \/ C!read_done(p) \/ C!read_killed(p) \/ C!read_empty(p) \/ C!sleep(p)
         \/ C!reacquire(p) \/ C!kill(p)
  PROVE  Control' /\ UNCHANGED <<cons_buf, cons_r, cons_w, cons_e, cons_out>>
<1> USE ConsoleAssumption DEF C!ConsoleConstants, ConsInvariant, Control, C!TypeOK, ConsLocked,
        ConsReasons, C!Goto, C!Return, C!consVars
<1>1. ASSUME NEW k \in 0..MaxN, C!consoleread(p, k)
      PROVE  Control' /\ UNCHANGED <<cons_buf, cons_r, cons_w, cons_e, cons_out>>
  BY <1>1, Zenon DEF C!consoleread
<1>2. CASE C!read_done(p)
  BY <1>2, Zenon DEF C!read_done
<1>3. CASE C!read_killed(p)
  BY <1>3 DEF C!read_killed
<1>4. CASE C!read_empty(p)
  BY <1>4, Zenon DEF C!read_empty
<1>5. CASE C!sleep(p)
  BY <1>5, Zenon DEF C!sleep
<1>6. CASE C!reacquire(p)
  BY <1>6, Zenon DEF C!reacquire
<1>7. CASE C!kill(p)
  BY <1>7, Zenon DEF C!kill
<1> HIDE DEF C!ConsoleConstants, ConsInvariant, Control, C!Goto, C!Return, C!consVars
<1> QED  BY <1>1, <1>2, <1>3, <1>4, <1>5, <1>6, <1>7, Zenon

(* Who takes a character holds the lock, so that nobody sleeps meanwhile.  *)
LEMMA TakingReads ==
  ASSUME ConsInvariant, NEW p \in ConsReader, C!read_eof(p) \/ C!read_char(p) \/ C!read_fault(p)
  PROVE  /\ Control' /\ UNCHANGED <<cons_buf, cons_w, cons_e>>
         /\ \/ cons_r' = cons_r /\ cons_out' = cons_out
            \/ /\ cons_r # cons_w /\ cons_r' = C!Inc(cons_r) /\ ReadMoves
               /\ cons_out' \in {cons_out, <<C!At(cons_r)>>}
               /\ (cons_out' = cons_out => C!At(cons_r) # "^D" \/ cons_out' = <<C!At(cons_r)>>)
<1> DEFINE Went == /\ cons_pc[p] = "read" /\ cons_lock = p /\ cons_r # cons_w
                   /\ UNCHANGED <<cons_buf, cons_w, cons_e, cons_killed>>
           Back == C!Return(p)
           Stay == /\ cons_n[p] > 0 /\ cons_n' = [cons_n EXCEPT ![p] = @ - 1]
                   /\ UNCHANGED <<cons_lock, cons_target, cons_pc>>
<1>0. Good(cons_buf, cons_r, cons_w, cons_e)
  BY Zenon DEF ConsInvariant
<1>1. ASSUME Went, Back \/ Stay, cons_r' \in Place, cons_out' \in Seq(C!Char) PROVE Control'
  <2>1. CASE Back
    BY <1>1, <2>1, ConsoleAssumption
       DEF C!ConsoleConstants, ConsInvariant, Control, C!TypeOK, ConsLocked, ConsReasons,
               C!Return, C!Goto, Place
  <2>2. CASE Stay
    BY <1>1, <2>2, ConsoleAssumption
       DEF C!ConsoleConstants, ConsInvariant, Control, C!TypeOK, ConsLocked, ConsReasons, Place
  <2> QED  BY <1>1, <2>1, <2>2, Zenon
<1>2. ASSUME Went, cons_r' = C!Inc(cons_r)
      PROVE  ReadMoves /\ cons_r' \in Place /\ <<C!At(cons_r)>> \in Seq(C!Char)
  <2>1. ReadMoves
    BY <1>0, <1>2, ReadGood, Zenon
  <2>2. cons_r' \in Place /\ C!At(cons_r) \in C!Char
    BY <2>1, Zenon DEF ReadMoves, Good
  <2> QED  BY <2>1, <2>2
<1>3. cons_lock = p \/ cons_pc[p] # "read"
  BY Zenon DEF ConsInvariant, ConsLocked
<1>4. cons_out \in Seq(C!Char) /\ cons_r \in Place
  BY Zenon DEF ConsInvariant, C!TypeOK, Place
<1>5. CASE C!read_eof(p)
  <2>1. Went /\ Back
    BY <1>3, <1>5, Zenon DEF C!read_eof
  <2>2. CASE cons_n[p] < cons_target[p]
    <3>1. cons_r' = cons_r /\ cons_out' = cons_out
      BY <1>5, <2>2, Zenon DEF C!read_eof
    <3> QED  BY <1>1, <1>4, <2>1, <3>1, Zenon
  <2>3. CASE ~(cons_n[p] < cons_target[p])
    <3>1. cons_r' = C!Inc(cons_r) /\ cons_out' = <<C!At(cons_r)>>
      BY <1>5, <2>3, Zenon DEF C!read_eof
    <3> QED  BY <1>1, <1>2, <2>1, <3>1, Zenon
  <2> QED  BY <2>2, <2>3, Zenon
<1>6. CASE C!read_char(p)
  <2>1. Went /\ (Back \/ Stay) /\ cons_r' = C!Inc(cons_r) /\ cons_out' = <<C!At(cons_r)>>
    BY <1>3, <1>6, Zenon DEF C!read_char
  <2> QED  BY <1>1, <1>2, <2>1, Zenon
<1>7. CASE C!read_fault(p)
  <2>1. Went /\ Back /\ cons_r' = C!Inc(cons_r) /\ cons_out' = cons_out /\ C!At(cons_r) # "^D"
    BY <1>3, <1>7, Zenon DEF C!read_fault
  <2> QED  BY <1>1, <1>2, <1>4, <2>1, Zenon
<1> QED  BY <1>5, <1>6, <1>7, Zenon

(* An interrupt comes in when nobody holds cons.lock, and who sleeps is    *)
(* woken when a line is committed.                                         *)
LEMMA Interrupts ==
  ASSUME ConsInvariant, NEW k, C!consoleintr(k), Good(cons_buf, cons_r, cons_w, cons_e)'
  PROVE  Control'
<1>0. cons_r' \in Place /\ cons_w' \in Place /\ cons_e' \in Place
  BY Zenon DEF Good
<1> USE ConsoleAssumption DEF C!ConsoleConstants, ConsInvariant, Control, C!TypeOK, ConsLocked,
        ConsReasons, Place
<1>1. CASE C!intr_kill_line
  BY <1>0, <1>1, Zenon DEF C!intr_kill_line
<1>2. CASE C!intr_erase
  BY <1>0, <1>2, Zenon DEF C!intr_erase
<1>3. CASE C!intr_char(k)
  <2>1. cons_buf' \in [0..INPUT_BUF - 1 -> C!Char \union {"nul"}]
    BY <1>3, Zenon DEF C!intr_char, C!Char
  <2>2. \/ cons_w' = cons_w /\ cons_pc' = cons_pc
        \/ cons_pc' = [p \in ConsReader |-> IF cons_pc[p] = "asleep" THEN "woken" ELSE cons_pc[p]]
    BY <1>3, Zenon DEF C!intr_char, C!WakeReaders
  <2>3. cons_lock = Nobody /\ UNCHANGED <<cons_r, cons_lock, cons_killed, cons_n, cons_target,
          cons_out>>
    BY <1>3, Zenon DEF C!intr_char
  <2>4. ConsLocked'
    BY <2>2, <2>3
  <2>5. ConsReasons'
    BY <2>2, <2>3
  <2>6. C!TypeOK'
    BY <1>0, <2>1, <2>2, <2>3
  <2> QED  BY <2>4, <2>5, <2>6, Zenon
<1> QED  BY <1>1, <1>2, <1>3, Zenon DEF C!consoleintr

(* Every step keeps the invariant, and is a step of the line discipline.   *)
line == C!Between(cons_w, cons_e)
ready == C!Between(cons_r, cons_w)
LEMMA ConsStep ==
  ASSUME ConsInvariant, [C!Next]_(C!vars)
  PROVE  ConsInvariant' /\ [C!Abstract!Next]_<<line, ready, cons_out>>
<1>0. Good(cons_buf, cons_r, cons_w, cons_e)
  BY Zenon DEF ConsInvariant
<1>1. ASSUME Control', UNCHANGED <<cons_buf, cons_r, cons_w, cons_e, cons_out>>
      PROVE  ConsInvariant' /\ [C!Abstract!Next]_<<line, ready, cons_out>>
  <2>1. Good(cons_buf', cons_r', cons_w', cons_e')
    BY <1>0, <1>1, Zenon
  <2>2. UNCHANGED <<line, ready, cons_out>>
    BY <1>1, Shown, Zenon DEF line, ready
  <2> QED  BY <1>1, <2>1, <2>2, Zenon DEF ConsInvariant, Control
<1>2. ASSUME NEW p \in ConsReader, C!read_eof(p) \/ C!read_char(p) \/ C!read_fault(p)
      PROVE  ConsInvariant' /\ [C!Abstract!Next]_<<line, ready, cons_out>>
  <2>1. /\ Control' /\ UNCHANGED <<cons_buf, cons_w, cons_e>>
        /\ \/ cons_r' = cons_r /\ cons_out' = cons_out
           \/ cons_r # cons_w /\ cons_r' = C!Inc(cons_r) /\ ReadMoves /\ cons_out' \in {cons_out,
                   <<C!At(cons_r)>>}
              /\ (cons_out' = cons_out => C!At(cons_r) # "^D" \/ cons_out' = <<C!At(cons_r)>>)
    BY <1>2, TakingReads, Zenon
  <2>2. CASE cons_r' = cons_r /\ cons_out' = cons_out
    BY <1>1, <2>1, <2>2, Zenon
  <2>3. CASE ReadMoves /\ cons_out' = <<C!At(cons_r)>>
    <3>1. C!Abstract!Read
      BY <2>3, Zenon DEF ReadMoves, C!Abstract!Read
    <3> QED  BY <2>1, <2>3, <3>1, Zenon DEF ReadMoves, ConsInvariant, Control, C!Abstract!Next
  <2>4. CASE ReadMoves /\ cons_out' = cons_out /\ C!At(cons_r) # "^D"
    <3>1. C!Abstract!Lose
      BY <2>4, Zenon DEF ReadMoves, C!Abstract!Lose
    <3> QED  BY <2>1, <2>4, <3>1, Zenon DEF ReadMoves, ConsInvariant, Control, C!Abstract!Next
  <2> QED  BY <2>1, <2>2, <2>3, <2>4, Zenon
<1>3. ASSUME NEW k, C!consoleintr(k)
      PROVE  ConsInvariant' /\ [C!Abstract!Next]_<<line, ready, cons_out>>
  <2>1. Good(cons_buf, cons_r, cons_w, cons_e)' /\ C!Abstract!Next
    BY <1>0, <1>3, EraseMoves, KillMoves, TypeMoves, Zenon DEF C!consoleintr, C!Abstract!Next
  <2>2. Control'
    BY <1>3, <2>1, Interrupts, Zenon
  <2> QED  BY <2>1, <2>2, Zenon DEF ConsInvariant, Control
<1>4. CASE UNCHANGED C!vars
  BY <1>1, <1>4, Zenon DEF C!vars, ConsInvariant, Control, C!TypeOK, ConsLocked, ConsReasons
<1>5. ASSUME NEW p \in ConsReader,
             \/ \E k \in 0..MaxN : C!consoleread(p, k)
             \/ C!read_done(p) \/ C!read_killed(p) \/ C!read_empty(p) \/ C!sleep(p)
             \/ C!reacquire(p) \/ C!kill(p)
      PROVE  ConsInvariant' /\ [C!Abstract!Next]_<<line, ready, cons_out>>
  BY <1>1, <1>5, QuietReads, Zenon
<1> QED  BY <1>2, <1>3, <1>4, <1>5, Zenon DEF C!Next, C!ReadStep

(* consoleinit() leaves cons.buf empty.                                    *)
LEMMA ConsStart == C!Init => ConsInvariant /\ C!Abstract!Init
<1> SUFFICES ASSUME C!Init PROVE ConsInvariant /\ C!Abstract!Init
  BY Zenon
<1>1. cons_r = 0 /\ cons_w = 0 /\ cons_e = 0 /\ 0 \in Place
  BY ConsSizes DEF C!Init, Place
<1>2. Far(0, 0) = 0
  BY <1>1, FarNat, Zenon
<1>3. Span(cons_buf, 0, 0) = <<>>
  BY <1>2 DEF Span
<1>4. C!Between(cons_r, cons_w) = <<>> /\ C!Between(cons_w, cons_e) = <<>> /\ cons_out = <<>>
  BY <1>1, <1>3, Shown, Zenon DEF C!Init
<1>5. Good(cons_buf, cons_r, cons_w, cons_e)
  <2>1. Far(0, 0) + Far(0, 0) <= INPUT_BUF /\ <<>> \in Seq(C!Char) /\ <<>> \in Seq(Edited)
    BY <1>2, ConsSizes
  <2>2. IsRing(cons_buf)
    BY Zenon DEF C!Init, IsRing
  <2> QED  BY <1>1, <1>3, <2>1, <2>2, Zenon DEF Good
<1>6. Control
  BY ConsoleAssumption, ConsSizes
     DEF C!ConsoleConstants, C!Init, Control, C!TypeOK, ConsLocked, ConsReasons
<1> QED  BY <1>4, <1>5, <1>6, Zenon DEF ConsInvariant, Control, C!Abstract!Init

(* The invariant of console.c: r, w and e keep their order around the ring *)
(* and INPUT_BUF apart, and cons.lock is with who is in consoleread().     *)
THEOREM ConsoleInvariance == C!Spec => []ConsInvariant
<1>1. ASSUME ConsInvariant, [C!Next]_(C!vars) PROVE ConsInvariant'
  BY <1>1, ConsStep, Zenon
<1> QED  BY <1>1, ConsStart, PTL DEF C!Spec

(* Nobody sleeps in consoleread() beside a line: consoleintr() wakes the   *)
(* readers for every line it commits.                                      *)
THEOREM LinesNotLost == C!Spec => []NoLostLine
<1>1. ConsInvariant => NoLostLine
  BY Zenon DEF ConsInvariant, ConsReasons, NoLostLine, C!NoLostLine
<1> QED  BY <1>1, ConsoleInvariance, PTL

(* consoleread() and consoleintr() implement the line discipline of module *)
(* Tty, for any number of readers, and wherever the indices wrap around.   *)
THEOREM ConsoleIsTty == C!Spec => IsTty
<1>1. C!Init => C!Abstract!Init
  BY ConsStart, Zenon
<1>2. ASSUME ConsInvariant, [C!Next]_(C!vars) PROVE [C!Abstract!Next]_<<line, ready, cons_out>>
  BY <1>2, ConsStep, Zenon
<1> QED  BY <1>1, <1>2, ConsoleInvariance, PTL DEF C!Spec, IsTty, C!IsTty, C!Abstract!Spec,
       line, ready
=============================================================================
