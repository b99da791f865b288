------------------------------ MODULE SerialRx ------------------------------
(***************************************************************************)
(* Reception on the serial port of the PC, app/arch/serial.c and           *)
(* app/comm/pc.c.  A circular DMA channel writes what arrives into the     *)
(* buffer; when the line falls idle the interrupt computes from the DMA    *)
(* position how many bytes are unread and posts pc_rx_packet_task to the   *)
(* agent it shares with the periodic functions; the task copies the bytes  *)
(* out and handles them.  A critical section, the one the task handles a   *)
(* packet in among them, holds the interrupt back: the next packet may     *)
(* have begun when it is served.                                           *)
(*                                                                         *)
(* Bytes are numbers counted up modulo RxBytes, so that no two bytes in the*)
(* buffer are equal.                                                       *)
(*                                                                         *)
(* An operator named Op_Variant is Op with a mistake in it; no             *)
(* specification uses it.                                                  *)
(***************************************************************************)
EXTENDS Integers, Sequences

CONSTANTS
    RxCap,   \* COM2_RX_BUFF_SIZE
    MinLen,  \* PC_MIN_LEN
    MaxLen,  \* PC_MAX_LEN
    RxLens,  \* lengths of what arrives between two idle times, noise included
    Ring     \* AGENT_QUEUE_SIZE

U16 == 65536

ASSUME SerialRxAssumption ==
    /\ RxCap \in Nat \ {0, 1} /\ RxCap < U16
    /\ MinLen \in Nat \ {0} /\ MaxLen \in Nat /\ RxCap <= MaxLen
    /\ RxLens \subseteq Nat \ {0}
    /\ Ring \in Nat \ {0}

RxBytes == RxCap + 1
RxByte == 0..(RxBytes - 1)
RxCleared == -1 \* com_init fills the buffer with zeros
Outside == -2   \* whatever lies behind the buffer

VARIABLES
    rx_buff,                         \* rx_buff2
    rx_dma,                          \* where the DMA channel writes next
    idle,                            \* the line has fallen idle (IDLE flag)
    rx_read, rx_write, rx_count,     \* desc->rx_fifo
    rx_len,                          \* desc->rx_len
    ring,                            \* the agent's ring, oldest call first:
                                     \* "pc" for pc_rx_packet_task or "other"
    task,                            \* "wait", "copy" or "handle"
    left, rx_next,                   \* of the packet on the line: bytes left,
                                     \* value of the next byte
    rx_owed, ends,                   \* history: bytes not handed over, and
                                     \* where in them packets end
    rx_late,                         \* history: a packet was coming in when
                                     \* the interrupt counted the bytes
    rx_refused,                      \* history: bytes were counted while the
                                     \* ring was full of other calls
    rx_calm                          \* history: what was unread has always
                                     \* fitted, nothing came behind a command
                                     \* that sets the baud rate, and noise has
                                     \* not moved read_idx out of the buffer

rx_fifo == <<rx_read, rx_write, rx_count, rx_len>>
rx_line == <<left, rx_next>>
rx_past == <<rx_owed, ends, rx_calm>>
rx_vars == <<rx_buff, rx_dma, idle, rx_read, rx_write, rx_count, rx_len, ring, task,
             left, rx_next, rx_owed, ends, rx_late, rx_refused, rx_calm>>

(* pc_init at start-up: com_init and com_enable_recv. *)
RxInit ==
    /\ rx_buff = [a \in 0..(RxCap - 1) |-> RxCleared]
    /\ rx_dma = 0 /\ idle = FALSE
    /\ rx_read = 0 /\ rx_write = 0 /\ rx_count = 0 /\ rx_len = 0
    /\ ring = <<>> /\ task = "wait"
    /\ left = 0 /\ rx_next = 0 /\ rx_owed = <<>> /\ ends = {}
    /\ rx_late = FALSE /\ rx_refused = FALSE /\ rx_calm = TRUE

(* The k oldest bytes have gone. *)
Gone(k) ==
    /\ rx_owed' = SubSeq(rx_owed, k + 1, Len(rx_owed))
    /\ ends' = {e - k : e \in {f \in ends : f > k}}
    /\ UNCHANGED rx_calm

(* One of the rules that rx_calm stands for is broken; from now on nothing   *)
(* is owed.                                                                  *)
Disturbed == rx_owed' = <<>> /\ ends' = {} /\ rx_calm' = FALSE

-----------------------------------------------------------------------------
(* The line. *)

(* The host starts a packet, or there is noise. *)
Arrive(n) ==
    /\ left = 0
    /\ left' = n
    /\ IF rx_calm /\ Len(rx_owed) + n < RxCap
       THEN /\ rx_owed' = rx_owed \o [k \in 1..n |-> (rx_next + k - 1) % RxBytes]
            /\ ends' = ends \cup {Len(rx_owed) + n}
            /\ UNCHANGED rx_calm
       ELSE Disturbed
    /\ UNCHANGED <<rx_buff, rx_dma, idle, rx_fifo, ring, task, rx_next, rx_late, rx_refused>>

(* The circular DMA channel stores a byte. *)
RxReceive ==
    /\ left > 0
    /\ rx_buff' = [rx_buff EXCEPT ![rx_dma] = rx_next]
    /\ rx_dma' = (rx_dma + 1) % RxCap
    /\ rx_next' = (rx_next + 1) % RxBytes
    /\ left' = left - 1
    /\ idle' = (idle \/ left = 1)
    /\ UNCHANGED <<rx_fifo, ring, task, rx_past, rx_late, rx_refused>>

-----------------------------------------------------------------------------
(* The other functions of the agent, heater_task, alarm_task and             *)
(* service_task: ostimer_task posts them and the agent runs them in turn.    *)

Due == \E i \in 1..Len(ring) : ring[i] = "pc"

OtherPost ==
    /\ Len(ring) < Ring
    /\ ring' = Append(ring, "other")
    /\ UNCHANGED <<rx_buff, rx_dma, idle, rx_fifo, task, rx_line, rx_past, rx_late, rx_refused>>

OtherRun ==
    /\ task = "wait" /\ ring # <<>> /\ Head(ring) = "other"
    /\ ring' = Tail(ring)
    /\ UNCHANGED <<rx_buff, rx_dma, idle, rx_fifo, task, rx_line, rx_past, rx_late, rx_refused>>

-----------------------------------------------------------------------------
(* on_irq_all, with pc_on_rx_data as rx_callback. *)

(* C's % keeps the sign of the dividend, and count has 16 bits. *)
Unread(w, r) == LET d == RxCap + w - r
                IN  IF d >= 0 THEN d % RxCap
                              ELSE (U16 - ((r - w - RxCap) % RxCap)) % U16

(* com_filter_recv. *)
Accepted(n) == n >= MinLen /\ n <= MaxLen

(* agent_post for pc_rx_packet_task; nobody looks at its result. *)
Posted_NotWhenBusy == IF ring = <<>> /\ task = "wait" THEN <<"pc">> ELSE ring

Posted == IF Len(ring) < Ring THEN Append(ring, "pc") ELSE ring

on_irq_idle_OneAtATime ==
    /\ idle
    /\ idle' = FALSE
    /\ rx_write' = rx_dma
    /\ LET n == Unread(rx_dma, rx_read)
       IN  IF rx_len = 0 /\ Accepted(n)
           THEN rx_count' = n /\ rx_len' = n /\ ring' = Posted
           ELSE UNCHANGED <<rx_count, rx_len, ring>>
    /\ UNCHANGED <<rx_buff, rx_dma, task, rx_read, rx_line, rx_past, rx_late, rx_refused>>

(* What is refused is skipped; read_idx is not reduced modulo RxCap. *)
on_irq_idle ==
    /\ idle
    /\ idle' = FALSE
    /\ rx_write' = rx_dma
    /\ LET n == Unread(rx_dma, rx_read)
       IN  IF Accepted(n)
           THEN /\ rx_count' = n /\ rx_len' = n
                /\ ring' = Posted
                /\ rx_late' = (left > 0)
                /\ rx_refused' = (Len(ring) = Ring /\ ~Due)
                /\ UNCHANGED <<rx_read, rx_past>>
           ELSE /\ rx_count' = 0 /\ rx_len' = 0
                /\ rx_read' = (rx_read + n) % U16
                /\ IF rx_calm /\ rx_read + n < RxCap THEN Gone(n) ELSE Disturbed
                /\ UNCHANGED <<ring, rx_late, rx_refused>>
    /\ UNCHANGED <<rx_buff, rx_dma, task, rx_line>>

-----------------------------------------------------------------------------
(* pc_rx_packet_task. *)

(* com_recv looks at rx_len before it enters the critical section. *)
com_recv ==
    /\ task = "wait" /\ ring # <<>> /\ Head(ring) = "pc"
    /\ ring' = Tail(ring)
    /\ task' = IF rx_len = 0 THEN "wait" ELSE "copy"
    /\ UNCHANGED <<rx_buff, rx_dma, idle, rx_fifo, rx_line, rx_past, rx_late, rx_refused>>

RxAt(a) == IF a < RxCap THEN rx_buff[a] ELSE Outside

(* What com_recv copies to pc_rx_buffer. *)
Copied == [k \in 1..rx_count |-> RxAt(IF k = 1 THEN rx_read
                                               ELSE (rx_read + k - 1) % RxCap)]

(* The critical section of com_recv.  A single byte is no packet. *)
RxCopy ==
    /\ task = "copy"
    /\ rx_read' = IF rx_count = 0 THEN rx_read ELSE (rx_read + rx_count) % RxCap
    /\ rx_count' = 0
    /\ rx_len' = rx_len - rx_count
    /\ Gone(rx_count)
    /\ task' = IF rx_count <= 1 THEN "wait" ELSE "handle"
    /\ rx_refused' = FALSE
    /\ UNCHANGED <<rx_buff, rx_dma, idle, rx_write, ring, rx_line, rx_late>>

pc_init_KeepRead ==
    /\ rx_buff' = [a \in 0..(RxCap - 1) |-> RxCleared]
    /\ rx_dma' = 0 /\ idle' = FALSE
    /\ rx_write' = 0
    /\ UNCHANGED <<rx_read, rx_count, rx_len>>

(* pc_init for a new baud rate: com_init, then com_enable_recv.  The counts  *)
(* keep their values.                                                        *)
pc_init ==
    /\ rx_buff' = [a \in 0..(RxCap - 1) |-> RxCleared]
    /\ rx_dma' = 0 /\ idle' = FALSE
    /\ rx_read' = 0 /\ rx_write' = 0
    /\ UNCHANGED <<rx_count, rx_len>>

(* proto_process, up to the answer.  What arrives before a command that sets *)
(* the baud rate is handled is lost with it.                                 *)
RxHandle ==
    /\ task = "handle"
    /\ \/ UNCHANGED <<rx_buff, rx_dma, idle, rx_fifo, rx_past>>
       \/ /\ pc_init
          /\ IF rx_owed = <<>> THEN UNCHANGED rx_past ELSE Disturbed
    /\ task' = "wait"
    /\ UNCHANGED <<ring, rx_line, rx_late, rx_refused>>

RxNext == \/ \E n \in RxLens : Arrive(n)
          \/ RxReceive
          \/ OtherPost \/ OtherRun
          \/ on_irq_idle
          \/ com_recv \/ RxCopy \/ RxHandle

(* The line goes on with a packet it has begun, the interrupt is served, and *)
(* the agent runs what is posted.                                            *)
RxFairness == /\ WF_rx_vars(RxReceive) /\ WF_rx_vars(on_irq_idle)
              /\ WF_rx_vars(OtherRun)
              /\ WF_rx_vars(com_recv) /\ WF_rx_vars(RxCopy) /\ WF_rx_vars(RxHandle)

RxSpec == RxInit /\ [][RxNext]_rx_vars /\ RxFairness

-----------------------------------------------------------------------------
(* The DMA position and write_idx stay inside the buffer, rx_len and count   *)
(* agree and no more is counted than pc_rx_buffer holds; read_idx stays      *)
(* inside the buffer as long as it is calm.                                  *)
RxTypeOK ==
    /\ rx_buff \in [0..(RxCap - 1) -> RxByte \cup {RxCleared}]
    /\ rx_dma \in 0..(RxCap - 1) /\ rx_write \in 0..(RxCap - 1)
    /\ rx_read \in 0..(U16 - 1) /\ (rx_calm => rx_read < RxCap)
    /\ rx_count \in 0..MaxLen /\ rx_len = rx_count
    /\ ring \in Seq({"pc", "other"}) /\ Len(ring) <= Ring
    /\ task \in {"wait", "copy", "handle"}
    /\ left \in Nat /\ rx_next \in RxByte
    /\ rx_owed \in Seq(RxByte) /\ ends \subseteq 1..Len(rx_owed)
    /\ {idle, rx_late, rx_refused, rx_calm} \subseteq BOOLEAN

(* No packet is stranded: while bytes are unread a call of pc_rx_packet_task *)
(* is due, although agent_post may have refused one, unless the ring was     *)
(* full of other calls when the bytes were counted.                          *)
NotStranded == rx_count > 0 => Due \/ task = "copy" \/ rx_refused

(* com_recv hands over the oldest bytes, exactly as they arrived and none    *)
(* left out, whatever arrives while it is being called; they end where a     *)
(* packet ends, unless the interrupt that counted them found the next packet *)
(* coming in.                                                                *)
Oldest == rx_count <= Len(rx_owed) /\ Copied = SubSeq(rx_owed, 1, rx_count)
Whole == [][task = "copy" /\ task' # "copy" /\ rx_calm
              => Oldest /\ (rx_count \in ends \/ rx_late)]_rx_vars

(* What arrives is handed over, or skipped as noise: nothing stays the       *)
(* oldest for ever, unless its call was refused by a ring full of others and *)
(* no packet comes that would be posted in its place.                        *)
First(b) == rx_owed # <<>> /\ Head(rx_owed) = b
HandedOver == \A b \in RxByte : First(b) ~> ~First(b) \/ rx_refused
=============================================================================
