------------------------------ MODULE OsTimer ------------------------------
(***************************************************************************)
(* The periodic scheduler, app/arch/ostimer.c.  ostimer_task wakes up      *)
(* every Delay ticks, reads the tick counter once and goes through the     *)
(* list of timers; a timer whose period has passed gets its function       *)
(* posted to an agent.                                                     *)
(*                                                                         *)
(* The tick counter and the start of a timer are unsigned and wrap around  *)
(* at Wrap.  Subtraction is written out without %, which the provers do    *)
(* not handle.                                                             *)
(*                                                                         *)
(* Commands from the serial port are handled by a task of lower priority,  *)
(* so never in the middle of a scan.  The thread of the first TCP client   *)
(* has the priority of ostimer_task and shares the processor with it in    *)
(* time slices: its commands are handled anywhere, each one in a critical  *)
(* section.                                                                *)
(*                                                                         *)
(* An operator named Op_Variant is Op with a mistake in it; no             *)
(* specification uses it.                                                  *)
(***************************************************************************)
EXTENDS Integers, Sequences

CONSTANTS
    NTimers,    \* OSTIMER_COUNT
    Registered, \* timers for which ostimer_register was called
    Period,     \* periods they are registered with or given later
    Wrap,       \* 2^32
    Delay,      \* configTICK_RATE_HZ / OSTIMER_EXECUT_FREQ_MS
    Jitter,     \* bound on the ticks from the end of the delay to the end
                \* of the scan
    Ring        \* AGENT_QUEUE_SIZE

Timer == 1..NTimers

ASSUME OsTimerAssumption ==
    /\ NTimers \in Nat
    /\ Registered \subseteq Timer
    /\ Period \subseteq Nat \ {0}
    /\ Delay \in Nat \ {0} /\ Jitter \in Nat /\ Ring \in Nat
    /\ Wrap \in Nat /\ Delay + 2 * Jitter < Wrap
    /\ \A p \in Period : p + Delay + 2 * Jitter < Wrap

VARIABLES
    tick,                   \* xTaskGetTickCount()
    start, period, enable,  \* ostimer_list
    scan,                   \* where ostimer_task is: "delay", "check", "post"
    i, now,                 \* its locals
    sleep,                  \* ticks left of its delay
    lag,                    \* ticks since the end of its delay
    queue,                  \* timers whose functions wait in the agent
    age,                    \* history: ticks since the start of an open timer
    due,                    \* history: longest period since then
    preempted               \* history: a command came in during this scan

list_vars == <<start, period, enable>>
scan_vars == <<scan, i, now, sleep, lag>>
vars == <<tick, start, period, enable, scan, i, now, sleep, lag, queue, age, due,
          preempted>>

Minus(x, y) == IF x >= y THEN x - y ELSE x - y + Wrap

(* agent_post: a full ring refuses the function, which nobody looks at. *)
Posted(t) == IF Len(queue) < Ring THEN Append(queue, t) ELSE queue

(* The timers are registered and none is open yet. *)
Init ==
    /\ tick = 0
    /\ start = [t \in Timer |-> 0]
    /\ period \in [Timer -> Period]
    /\ enable = [t \in Timer |-> FALSE]
    /\ scan = "delay" /\ i = 1 /\ now = 0 /\ sleep = 0 /\ lag = 0
    /\ queue = <<>>
    /\ age = [t \in Timer |-> 0]
    /\ due = [t \in Timer |-> 0]
    /\ preempted = FALSE

-----------------------------------------------------------------------------
(* Calls from other tasks. *)

Calls == preempted' = (preempted \/ scan # "delay")

(* The start of t becomes time x, which was d ticks ago. *)
StartAt(t, x, d) ==
    /\ start' = [start EXCEPT ![t] = x]
    /\ age' = [age EXCEPT ![t] = d]
    /\ due' = [due EXCEPT ![t] = period[t]]

ostimer_open_KeepStart(t, at_once) ==
    /\ Calls
    /\ t \in Registered
    /\ enable' = [enable EXCEPT ![t] = TRUE]
    /\ age' = [age EXCEPT ![t] = 0]
    /\ due' = [due EXCEPT ![t] = period[t]]
    /\ queue' = IF at_once THEN Posted(t) ELSE queue
    /\ UNCHANGED <<tick, start, period, scan_vars>>

(* Nothing happens for a timer that was never registered. *)
ostimer_open(t, at_once) ==
    /\ Calls
    /\ t \in Registered
    /\ StartAt(t, tick, 0)
    /\ enable' = [enable EXCEPT ![t] = TRUE]
    /\ queue' = IF at_once THEN Posted(t) ELSE queue
    /\ UNCHANGED <<tick, period, scan_vars>>

ostimer_close(t) ==
    /\ Calls
    /\ enable' = [enable EXCEPT ![t] = FALSE]
    /\ age' = [age EXCEPT ![t] = 0]
    /\ due' = [due EXCEPT ![t] = 0]
    /\ UNCHANGED <<tick, start, period, scan_vars, queue>>

(* A timer that is closed keeps its old period. *)
ostimer_set_period(t, p) ==
    /\ Calls
    /\ enable[t]
    /\ period' = [period EXCEPT ![t] = p]
    /\ due' = [due EXCEPT ![t] = IF p > @ THEN p ELSE @]
    /\ UNCHANGED <<tick, start, enable, scan_vars, queue, age>>

ostimer_restart(t) ==
    /\ Calls
    /\ enable[t]
    /\ StartAt(t, tick, 0)
    /\ UNCHANGED <<tick, period, enable, scan_vars, queue>>

-----------------------------------------------------------------------------
(* ostimer_task. *)

Wake ==
    /\ scan = "delay" /\ sleep = 0
    /\ now' = tick
    /\ i' = 1
    /\ scan' = "check"
    /\ preempted' = FALSE
    /\ UNCHANGED <<tick, list_vars, sleep, lag, queue, age, due>>

Elapsed_NoWrap(t) == now >= start[t] + period[t]

Elapsed(t) == Minus(now, start[t]) >= period[t]

(* An open timer whose period has passed is posted next. *)
Check ==
    /\ scan = "check" /\ i <= NTimers
    /\ IF enable[i] /\ Elapsed(i)
       THEN scan' = "post" /\ UNCHANGED i
       ELSE i' = i + 1 /\ UNCHANGED scan
    /\ UNCHANGED <<tick, list_vars, now, sleep, lag, queue, age, due,
                   preempted>>

Post ==
    /\ scan = "post"
    /\ queue' = Posted(i)
    /\ IF enable[i] THEN StartAt(i, now, Minus(tick, now))
                    ELSE /\ start' = [start EXCEPT ![i] = now]
                         /\ UNCHANGED <<age, due>>
    /\ i' = i + 1
    /\ scan' = "check"
    /\ UNCHANGED <<tick, period, enable, now, sleep, lag, preempted>>

Done ==
    /\ scan = "check" /\ i > NTimers
    /\ scan' = "delay"
    /\ sleep' = Delay
    /\ lag' = 0
    /\ UNCHANGED <<tick, list_vars, i, now, queue, age, due, preempted>>

-----------------------------------------------------------------------------
(* The tick interrupt.  The system is dimensioned so that a scan ends at      *)
(* most Jitter ticks after its delay.                                        *)
Tick ==
    /\ sleep = 0 => lag < Jitter
    /\ tick' = IF tick + 1 = Wrap THEN 0 ELSE tick + 1
    /\ IF sleep > 0 THEN sleep' = sleep - 1 /\ UNCHANGED lag
                    ELSE lag' = lag + 1 /\ UNCHANGED sleep
    /\ age' = [t \in Timer |-> IF enable[t] THEN age[t] + 1 ELSE age[t]]
    /\ UNCHANGED <<list_vars, scan, i, now, queue, due, preempted>>

(* The agent calls the oldest function. *)
Call ==
    /\ queue # <<>>
    /\ queue' = Tail(queue)
    /\ UNCHANGED <<tick, list_vars, scan_vars, age, due, preempted>>

Next ==
    \/ \E t \in Timer : \/ \E at_once \in BOOLEAN : ostimer_open(t, at_once)
                        \/ ostimer_close(t)
                        \/ \E p \in Period : ostimer_set_period(t, p)
                        \/ ostimer_restart(t)
    \/ Wake \/ Check \/ Post \/ Done
    \/ Tick \/ Call

Spec == Init /\ [][Next]_vars

-----------------------------------------------------------------------------
(* Indices and times stay in range, and posting respects the agent's ring.   *)
TypeOK ==
    /\ tick \in 0..(Wrap - 1) /\ now \in 0..(Wrap - 1)
    /\ start \in [Timer -> 0..(Wrap - 1)]
    /\ period \in [Timer -> Period]
    /\ enable \in [Timer -> BOOLEAN]
    /\ scan \in {"delay", "check", "post"}
    /\ i \in 1..(NTimers + 1)
    /\ scan = "post" => i \in Timer
    /\ sleep \in 0..Delay /\ lag \in 0..Jitter
    /\ queue \in Seq(Timer) /\ Len(queue) <= Ring
    /\ age \in [Timer -> Nat]
    /\ due \in [Timer -> Period \cup {0}]
    /\ preempted \in BOOLEAN

(* No timer is forgotten, across the wrap-around of the tick counter too: an *)
(* open timer never gets older than its period (the longest it has had) plus *)
(* the time from one scan to the end of the next.                            *)
OnTime == \A t \in Timer : enable[t] => age[t] < due[t] + Delay + 2 * Jitter

(* "周期到达": a timer is found due only when its period has passed since it  *)
(* was opened, restarted or last due, unless a command over TCP has opened or *)
(* restarted timers between the scan's reading of the tick and its           *)
(* comparison.                                                               *)
FoundDue == scan = "check" /\ scan' = "post"
NotEarly == [][FoundDue /\ ~preempted => age[i] >= period[i]]_vars
=============================================================================
