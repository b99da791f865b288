------------------------------ MODULE SerialTx ------------------------------
(***************************************************************************)
(* Transmission on the serial port of the PC, app/arch/serial.c.  com_send *)
(* copies a message into a ring buffer and starts a DMA channel on the     *)
(* part up to the end of the buffer; the DMA interrupt starts it again for *)
(* the rest; the transmission-complete (TC) interrupt of the UART gives    *)
(* the bus back in half duplex.                                            *)
(*                                                                         *)
(* The UART holds two bytes, one being shifted out and one waiting.  TC is *)
(* set when both have gone; only com_send clears it.  When both interrupts *)
(* are pending the DMA one is served first (IRQ 14 before 39, same         *)
(* priority).                                                              *)
(*                                                                         *)
(* An operator named Op_Variant is Op with a mistake in it; no             *)
(* specification uses it.                                                  *)
(***************************************************************************)
EXTENDS Integers, Sequences

CONSTANTS
    TxCap,    \* COM2_TX_BUFF_SIZE
    TxLens,   \* lengths of messages
    Overlap   \* whether a message may be sent, or the port initialised,
              \* before the last message has gone

ASSUME SerialTxAssumption ==
    /\ TxCap \in Nat \ {0}
    /\ TxLens \subseteq Nat \ {0}
    /\ Overlap \in BOOLEAN

TxBytes == 2 * TxCap
TxByte == 0..(TxBytes - 1)
TxCleared == -1 \* com_init fills the buffer with zeros

VARIABLES
    half,                        \* desc->mode is COM_HALF_DUPLEX
    tx_buff,                     \* tx_buff2
    tx_read, tx_write, tx_count, \* desc->tx_fifo
    tx_dma,                      \* the channel: next address, bytes left,
                                 \* bytes it was started with (total_cnt)
    ftf, dma_ie,                 \* its flag "transfer finished", its interrupt
    tc, tcie,                    \* TC flag of the UART, its interrupt
    shift,                       \* bytes in the UART
    dir,                         \* mode of the bus driver: "tx", "rx", "rxtx"
    caller, rest, tx_size,       \* com_send: where it is, bytes not copied yet,
                                 \* size of the part to be started
    tx_next,                     \* value of the next byte to be sent
    tx_owed,                     \* history: bytes copied and not yet in the UART
    garbled,                     \* history: another byte was given to the UART
    late                         \* history: since the message began a critical
                                 \* section has held an interrupt back

tx_fifo == <<tx_read, tx_write, tx_count>>
tx_flags == <<ftf, dma_ie, tc, tcie>>
tx_vars == <<half, tx_buff, tx_read, tx_write, tx_count, tx_dma, ftf, dma_ie, tc, tcie,
             shift, dir, caller, rest, tx_size, tx_next, tx_owed, garbled, late>>

Least(x, y) == IF x < y THEN x ELSE y

Off == [addr |-> 0, left |-> 0, total |-> 0]

(* gd32_dma_start for n bytes from address a. *)
Started(a, n) == [addr |-> a, left |-> n, total |-> n]

Chunk_ToEnd(r, n) == TxCap - r

(* From index r, without passing the end of the buffer. *)
Chunk(r, n) == Least(TxCap - r, n)

(* com_set_mode as com_send and the interrupts call it. *)
com_set_mode(m) == dir' = IF half THEN m ELSE dir

(* com_init; the TC flag is set after reset. *)
IdleDriver(h) == IF h THEN "rx" ELSE "rxtx"

TxInit ==
    /\ half \in BOOLEAN
    /\ tx_buff = [a \in 0..(TxCap - 1) |-> TxCleared]
    /\ tx_read = 0 /\ tx_write = 0 /\ tx_count = 0
    /\ tx_dma = Off /\ ftf = FALSE /\ dma_ie = FALSE
    /\ tc = TRUE /\ tcie = FALSE /\ shift = 0
    /\ dir = IdleDriver(half)
    /\ caller = "out" /\ rest = 0 /\ tx_size = 0 /\ tx_next = 0
    /\ tx_owed = <<>> /\ garbled = FALSE /\ late = FALSE

(* The last message has gone and its interrupts have been served. *)
TxIdle == caller = "out" /\ tx_count = 0 /\ tx_dma.left = 0 /\ shift = 0 /\ ~tcie

DmaPending == ftf /\ dma_ie
TcPending == tc /\ tcie

(* Tasks run, and a byte time passes, while interrupts are pending only if   *)
(* a critical section (proto_process runs in one) holds them back.           *)
Passes == late' = (late \/ DmaPending \/ TcPending)

-----------------------------------------------------------------------------
(* pc_send: com_send with the scheduler suspended. *)

Send(n) ==
    /\ caller = "out"
    /\ Overlap \/ TxIdle
    /\ caller' = "copy" /\ rest' = n
    /\ late' = FALSE
    /\ UNCHANGED <<half, tx_buff, tx_fifo, tx_dma, tx_flags, shift, dir, tx_size,
                   tx_next, tx_owed, garbled>>

(* One turn of the loop, up to the bus; it ends when nothing is left to copy *)
(* or the buffer is full.                                                    *)
TxCopy ==
    LET n == Least(rest, TxCap - tx_count)
        value(k) == (tx_next + k) % TxBytes
    IN
    /\ caller = "copy"
    /\ Passes
    /\ n > 0
    /\ tx_read' = tx_write
    /\ tx_buff' = [a \in 0..(TxCap - 1) |->
                     LET k == (a - tx_write) % TxCap
                     IN  IF k < n THEN value(k) ELSE tx_buff[a]]
    /\ tx_write' = (tx_write + n) % TxCap
    /\ tx_count' = tx_count + n
    /\ rest' = rest - n
    /\ tx_next' = value(n)
    /\ tx_owed' = tx_owed \o [k \in 1..n |-> value(k - 1)]
    /\ com_set_mode("tx")
    /\ caller' = "start"
    /\ UNCHANGED <<half, tx_dma, tx_flags, shift, tx_size, garbled>>

(* The size of the part up to the end of the buffer. *)
Size ==
    /\ caller = "start"
    /\ Passes
    /\ tx_size' = Chunk(tx_read, tx_count)
    /\ caller' = "arm"
    /\ UNCHANGED <<half, tx_buff, tx_fifo, tx_dma, tx_flags, shift, dir, rest, tx_next,
                   tx_owed, garbled>>

Arm_KeepTc ==
    /\ caller = "arm"
    /\ Passes
    /\ tcie' = TRUE /\ dma_ie' = TRUE
    /\ caller' = "go"
    /\ UNCHANGED <<half, tx_buff, tx_fifo, tx_dma, ftf, tc, shift, dir, rest, tx_size,
                   tx_next, tx_owed, garbled>>

Arm_NoTcie ==
    /\ caller = "arm"
    /\ Passes
    /\ tc' = FALSE /\ dma_ie' = TRUE
    /\ caller' = "go"
    /\ UNCHANGED <<half, tx_buff, tx_fifo, tx_dma, ftf, tcie, shift, dir, rest, tx_size,
                   tx_next, tx_owed, garbled>>

(* The TC flag is cleared and both interrupts are enabled. *)
Arm ==
    /\ caller = "arm"
    /\ Passes
    /\ tc' = FALSE /\ tcie' = TRUE /\ dma_ie' = TRUE
    /\ caller' = "go"
    /\ UNCHANGED <<half, tx_buff, tx_fifo, tx_dma, ftf, shift, dir, rest, tx_size, tx_next,
                   tx_owed, garbled>>

(* The DMA channel is started, whatever it is doing: at the read_idx of now, *)
(* for the size of before.                                                   *)
Start ==
    /\ caller = "go"
    /\ Passes
    /\ tx_dma' = Started(tx_read, tx_size) /\ ftf' = FALSE
    /\ caller' = "copy"
    /\ UNCHANGED <<half, tx_buff, tx_fifo, dma_ie, tc, tcie, shift, dir, rest, tx_size,
                   tx_next, tx_owed, garbled>>

Return ==
    /\ caller = "copy"
    /\ Passes
    /\ Least(rest, TxCap - tx_count) = 0
    /\ caller' = "out" /\ rest' = 0
    /\ UNCHANGED <<half, tx_buff, tx_fifo, tx_dma, tx_flags, shift, dir, tx_size,
                   tx_next, tx_owed, garbled>>

(* com_init again, for a new baud rate or mode.  count keeps its value. *)
com_init ==
    /\ caller = "out"
    /\ Overlap \/ TxIdle
    /\ half' \in BOOLEAN
    /\ tx_buff' = [a \in 0..(TxCap - 1) |-> TxCleared]
    /\ tx_read' = 0 /\ tx_write' = 0
    /\ tx_dma' = Off /\ ftf' = FALSE /\ dma_ie' = FALSE
    /\ tc' = TRUE /\ tcie' = FALSE /\ shift' = 0
    /\ dir' = IdleDriver(half')
    /\ tx_owed' = <<>> /\ late' = FALSE
    /\ UNCHANGED <<tx_count, caller, rest, tx_size, tx_next, garbled>>

-----------------------------------------------------------------------------
(* The channel gives the UART a byte. *)
Feed ==
    /\ tx_dma.left > 0 /\ shift < 2
    /\ Passes
    /\ shift' = shift + 1
    /\ tx_dma' = [tx_dma EXCEPT !.addr = @ + 1, !.left = @ - 1]
    /\ ftf' = (tx_dma.left = 1)
    /\ IF tx_owed # <<>> /\ tx_dma.addr < TxCap /\ tx_buff[tx_dma.addr] = Head(tx_owed)
       THEN tx_owed' = Tail(tx_owed) /\ UNCHANGED garbled
       ELSE garbled' = TRUE /\ UNCHANGED tx_owed
    /\ UNCHANGED <<half, tx_buff, tx_fifo, dma_ie, tc, tcie, dir, caller, rest,
                   tx_size, tx_next>>

(* The UART has shifted out a byte.  The channel is faster than the line, so *)
(* the UART is full as long as the channel has bytes.                        *)
Shift ==
    /\ shift > 0
    /\ Passes
    /\ tx_dma.left = 0 \/ shift = 2
    /\ shift' = shift - 1
    /\ tc' = (tc \/ shift = 1)
    /\ UNCHANGED <<half, tx_buff, tx_fifo, tx_dma, ftf, dma_ie, tcie, dir, caller,
                   rest, tx_size, tx_next, tx_owed, garbled>>

(* The part up to the end of the buffer has been handed to the UART: go on   *)
(* from its beginning, or stop.                                              *)
on_dma_tx ==
    LET sent == tx_dma.total - tx_dma.left
        r == (tx_read + sent) % TxCap
        n == tx_count - sent
    IN
    /\ DmaPending
    /\ ftf' = FALSE
    /\ tx_read' = r /\ tx_count' = n
    /\ IF n = 0
       THEN /\ dma_ie' = FALSE
            /\ tx_dma' = [tx_dma EXCEPT !.left = 0]
            /\ UNCHANGED dir
       ELSE /\ tx_dma' = Started(r, Chunk(r, n))
            /\ com_set_mode("tx")
            /\ UNCHANGED dma_ie
    /\ UNCHANGED <<half, tx_buff, tx_write, tc, tcie, shift, caller, rest, tx_size,
                   tx_next, tx_owed, garbled, late>>

(* The TC part of on_irq_all. *)
on_irq_tc ==
    /\ TcPending /\ ~DmaPending
    /\ tcie' = FALSE
    /\ com_set_mode("rx")
    /\ UNCHANGED <<half, tx_buff, tx_fifo, tx_dma, ftf, dma_ie, tc, shift, caller,
                   rest, tx_size, tx_next, tx_owed, garbled, late>>

TxNext == \/ \E n \in TxLens : Send(n)
          \/ TxCopy \/ Size \/ Arm \/ Start \/ Return \/ com_init
          \/ Feed \/ Shift
          \/ on_dma_tx \/ on_irq_tc

(* com_send goes on, the hardware runs, and interrupts are served.           *)
TxFairness == /\ WF_tx_vars(TxCopy) /\ WF_tx_vars(Size) /\ WF_tx_vars(Arm)
              /\ WF_tx_vars(Start) /\ WF_tx_vars(Return)
              /\ WF_tx_vars(Feed) /\ WF_tx_vars(Shift)
              /\ WF_tx_vars(on_dma_tx) /\ WF_tx_vars(on_irq_tc)

TxSpec == TxInit /\ [][TxNext]_tx_vars /\ TxFairness

-----------------------------------------------------------------------------
(* The indices stay in the buffer, and the DMA channel never leaves it.      *)
(* This needs messages that do not overlap: on_dma_tx of the one before may  *)
(* move read_idx between Size and Start.                                     *)
TxTypeOK ==
    /\ tx_buff \in [0..(TxCap - 1) -> TxByte \cup {TxCleared}]
    /\ tx_read \in 0..(TxCap - 1) /\ tx_write \in 0..(TxCap - 1)
    /\ tx_count \in 0..TxCap
    /\ tx_dma.addr \in 0..TxCap /\ tx_dma.left \in 0..TxCap /\ tx_dma.total \in 0..TxCap
    /\ tx_dma.addr + tx_dma.left <= TxCap
    /\ {half, ftf, dma_ie, tc, tcie, garbled, late} \subseteq BOOLEAN
    /\ shift \in 0..2 /\ dir \in IF half THEN {"tx", "rx"} ELSE {"rxtx"}
    /\ caller \in {"out", "copy", "start", "arm", "go"}
    /\ rest \in Nat /\ tx_size \in 0..TxCap /\ tx_next \in TxByte
    /\ tx_owed \in Seq(TxByte)

(* com_send "sends data through the FIFO": the bytes given to the UART are   *)
(* those that were copied, in order, and none is missing when transmission   *)
(* has stopped, however long interrupts are held back.                       *)
Faithful == ~garbled /\ (TxIdle => tx_owed = <<>>)

(* The bus is driven until the last byte has been shifted out: on_irq_all    *)
(* must not take the TC of one part of a message, or of an earlier message,  *)
(* for the end of the message.  This needs interrupts that are not held back *)
(* while the UART runs dry.                                                  *)
DriverOn == shift > 0 /\ ~late => dir # "rx"

(* In half duplex the bus is given back after every message, late interrupts *)
(* or not.                                                                   *)
Released == dir = "tx" ~> dir # "tx"
=============================================================================
