--------------------------- MODULE OsTimerProofs ---------------------------
(***************************************************************************)
(* Timing of ostimer_task for every width of the tick counter, every list  *)
(* of timers and all periods that fit below the wrap-around.               *)
(***************************************************************************)
EXTENDS OsTimer, TLAPS

(* Ticks since ostimer_task has read the counter. *)
Since == Minus(tick, now)

(* The range of every variable, without the contents of the agent's ring. *)
Types ==
    /\ tick \in 0..(Wrap - 1) /\ now \in 0..(Wrap - 1)
    /\ start \in [Timer -> 0..(Wrap - 1)]
    /\ period \in [Timer -> Period]
    /\ enable \in [Timer -> BOOLEAN]
    /\ scan \in {"delay", "check", "post"}
    /\ i \in Nat \ {0}
    /\ scan = "post" => i \in Timer
    /\ sleep \in 0..Delay /\ lag \in 0..Jitter
    /\ age \in [Timer -> Nat]
    /\ due \in [Timer -> Nat]

(* During a scan the value of the counter it works with is at most as old as *)
(* the scan is late.                                                         *)
ScanInv == scan # "delay" => sleep = 0 /\ Since <= lag

(* An open timer that this scan has passed is younger than one that is still *)
(* to be looked at may be.                                                   *)
Limit(t) == IF scan # "delay" /\ t < i THEN due[t] + Since
            ELSE due[t] + Jitter + Delay - sleep + lag

OpenInv(t) ==
    enable[t] => /\ due[t] \in Period
                 /\ period[t] <= due[t]
                 /\ age[t] < Limit(t)
                 /\ age[t] = Minus(tick, start[t])

(* Without commands during it no timer is started behind the back of a scan. *)
OldInv(t) == ~preempted /\ scan # "delay" /\ enable[t] => age[t] >= Since

IInv == Types /\ ScanInv /\ \A t \in Timer : OpenInv(t) /\ OldInv(t)

-----------------------------------------------------------------------------
(* Facts about times on the circle of the tick counter. *)

LEMMA Arith ==
    /\ Wrap \in Nat \ {0} /\ Delay \in Nat \ {0} /\ Jitter \in Nat /\ NTimers \in Nat
    /\ \A p \in Period : p \in Nat /\ p > 0 /\ p + Delay + 2 * Jitter < Wrap
    /\ Delay + 2 * Jitter < Wrap
    /\ Timer \subseteq Nat
  BY OsTimerAssumption DEF Timer

(* The age of a timer is the time since the counter was read plus the        *)
(* difference that the scan computes, unless it was started in between.      *)
LEMMA MinusSplit ==
    ASSUME NEW a \in 0..(Wrap - 1), NEW b \in 0..(Wrap - 1), NEW c \in 0..(Wrap - 1),
           Minus(a, c) >= Minus(a, b)
    PROVE  Minus(b, c) = Minus(a, c) - Minus(a, b)
  BY Arith DEF Minus

LEMMA MinusRange ==
    ASSUME NEW a \in 0..(Wrap - 1), NEW b \in 0..(Wrap - 1)
    PROVE  Minus(a, b) \in 0..(Wrap - 1) /\ Minus(a, a) = 0
  BY Arith DEF Minus

(* A tick makes every difference one larger. *)
LEMMA MinusTick ==
    ASSUME NEW a \in 0..(Wrap - 1), NEW b \in 0..(Wrap - 1), Minus(a, b) + 1 < Wrap
    PROVE  Minus(IF a + 1 = Wrap THEN 0 ELSE a + 1, b) = Minus(a, b) + 1
  BY Arith DEF Minus

LEMMA SinceType == ASSUME Types PROVE Since \in Nat /\ Minus(tick, tick) = 0
<1>1. tick \in 0..(Wrap - 1) /\ now \in 0..(Wrap - 1)
  BY DEF Types
<1>2. Since \in 0..(Wrap - 1) /\ Minus(tick, tick) = 0
  BY <1>1, MinusRange DEF Since
<1>3. QED
  BY <1>2

-----------------------------------------------------------------------------
LEMMA InitInv == Init => IInv
  BY Arith, OsTimerAssumption
  DEF Init, IInv, Types, ScanInv, OpenInv, OldInv

(* The calls of other tasks. *)
LEMMA CallsPreserve ==
    ASSUME IInv, NEW t \in Timer,
           \/ \E at_once \in BOOLEAN : ostimer_open(t, at_once)
           \/ ostimer_close(t)
           \/ \E p \in Period : ostimer_set_period(t, p)
           \/ ostimer_restart(t)
    PROVE  IInv'
<1>1. UNCHANGED <<tick, scan_vars>>
  BY DEF ostimer_open, ostimer_close, ostimer_set_period, ostimer_restart, scan_vars
<1>2. Types /\ Minus(tick, tick) = 0 /\ Since \in Nat
  BY SinceType DEF IInv
<1>3. Types'
  <2>1. /\ start' \in [Timer -> 0..(Wrap - 1)] /\ period' \in [Timer -> Period]
        /\ age' \in [Timer -> Nat] /\ due' \in [Timer -> Nat]
    BY <1>2, Arith DEF Types, ostimer_open, ostimer_close, ostimer_set_period,
       ostimer_restart, StartAt
  <2>2. enable' \in [Timer -> BOOLEAN]
    BY <1>2 DEF Types, ostimer_open, ostimer_close, ostimer_set_period, ostimer_restart
  <2>3. QED
    BY <2>1, <2>2, <1>1, <1>2 DEF Types, scan_vars
<1>4. Since' = Since /\ ScanInv'
  BY <1>1 DEF IInv, ScanInv, Since, Minus, scan_vars
<1>5. ASSUME NEW u \in Timer PROVE OpenInv(u)' /\ OldInv(u)'
  <2>1. OpenInv(u) /\ OldInv(u)
    BY DEF IInv
  <2>2. CASE \/ \E at_once \in BOOLEAN : ostimer_open(t, at_once)
             \/ ostimer_restart(t)
    <3>1. /\ start' = [start EXCEPT ![t] = tick]
          /\ age' = [age EXCEPT ![t] = 0]
          /\ due' = [due EXCEPT ![t] = period[t]]
          /\ period' = period
          /\ preempted' = (preempted \/ scan # "delay")
          /\ u # t => enable'[u] = enable[u]
      BY <2>2, <1>2 DEF ostimer_open, ostimer_restart, StartAt, Types, Calls
    <3>2. CASE u # t
      BY <3>1, <3>2, <2>1, <1>1, <1>2, <1>4 DEF OpenInv, OldInv, Limit, Types, scan_vars
    <3>3. CASE u = t
      <4>1. age'[u] = 0 /\ start'[u] = tick /\ due'[u] = period[u] /\ period[u] \in Period
        BY <3>1, <3>3, <1>2 DEF Types
      <4>2. age'[u] < Limit(u)'
        BY <4>1, <1>1, <1>2, <1>4, Arith DEF Limit, scan_vars, Types
      <4>3. OpenInv(u)'
        BY <4>1, <4>2, <3>1, <1>1, <1>2, Arith DEF OpenInv, Types
      <4>4. OldInv(u)'
        BY <3>1, <1>1 DEF OldInv, scan_vars
      <4>5. QED
        BY <4>3, <4>4
    <3>4. QED
      BY <3>2, <3>3
  <2>3. CASE ostimer_close(t)
    BY <2>3, <2>1, <1>1, <1>2, <1>4 DEF ostimer_close, Calls, OpenInv, OldInv, Limit, Types, scan_vars
  <2>4. CASE \E p \in Period : ostimer_set_period(t, p)
    <3>1. /\ UNCHANGED <<start, enable, age>>
          /\ preempted' = (preempted \/ scan # "delay")
          /\ due'[u] >= due[u]
          /\ enable[u] => due'[u] \in Period /\ period'[u] <= due'[u]
      BY <2>4, <2>1, <1>2, Arith DEF ostimer_set_period, Calls, OpenInv, Types
    <3>2. enable[u] => Limit(u)' >= Limit(u) /\ Limit(u) \in Int /\ Limit(u)' \in Int
      BY <3>1, <2>1, <1>1, <1>2, <1>3, <1>4, Arith DEF Limit, scan_vars, Types
    <3>3. QED
      BY <3>1, <3>2, <2>1, <1>1, <1>2, <1>4 DEF OpenInv, OldInv, scan_vars, Types
  <2>5. QED
    BY <2>2, <2>3, <2>4
<1>6. QED
  BY <1>3, <1>4, <1>5 DEF IInv

(* What the comparison of a scan says about the age of an open timer. *)
LEMMA ElapsedAge ==
    ASSUME IInv, NEW t \in Timer, enable[t], age[t] >= Since
    PROVE  Elapsed(t) <=> age[t] - Since >= period[t]
<1>1. /\ tick \in 0..(Wrap - 1) /\ now \in 0..(Wrap - 1) /\ start[t] \in 0..(Wrap - 1)
      /\ age[t] = Minus(tick, start[t])
  BY DEF IInv, Types, OpenInv
<1>2. Minus(now, start[t]) = age[t] - Since
  BY <1>1, MinusSplit DEF Since
<1>3. QED
  BY <1>2 DEF Elapsed

LEMMA WakePreserves == ASSUME IInv, Wake PROVE IInv'
<1>1. Types /\ Since' = 0
  BY MinusRange DEF IInv, Types, Wake, Since
<1>2. Types' /\ ScanInv'
  BY <1>1, Arith DEF Wake, Types, ScanInv, list_vars
<1>3. ASSUME NEW t \in Timer PROVE OpenInv(t)' /\ OldInv(t)'
  <2>1. OpenInv(t) /\ t \in Nat /\ t >= 1
    BY Arith DEF IInv, Timer
  <2>2. Limit(t)' = Limit(t)
    BY <2>1, <1>1 DEF Wake, Limit, list_vars, Types
  <2>3. QED
    BY <2>1, <2>2, <1>1 DEF Wake, OpenInv, OldInv, list_vars, Types
<1>4. QED
  BY <1>2, <1>3 DEF IInv

(* A timer that is passed over is not due yet, or was started during the     *)
(* scan.                                                                     *)
LEMMA CheckPreserves == ASSUME IInv, Check PROVE IInv'
<1>1. /\ Types /\ Since \in Nat /\ Since' = Since
      /\ UNCHANGED <<tick, list_vars, now, sleep, lag, age, due, preempted>>
  BY SinceType DEF IInv, Check, Since, Minus
<1>2. i \in Timer /\ scan = "check"
  BY <1>1, Arith DEF Check, Timer, Types
<1>3. Types' /\ ScanInv'
  BY <1>1, <1>2, Arith DEF IInv, Check, Types, ScanInv, list_vars
<1>4. ASSUME NEW t \in Timer PROVE OpenInv(t)' /\ OldInv(t)'
  <2>1. OpenInv(t) /\ OldInv(t) /\ t \in Nat
    BY Arith DEF IInv
  <2>2. OldInv(t)'
    BY <2>1, <1>1, <1>2 DEF OldInv, Check, list_vars
  <2>3. CASE t # i \/ i' = i
    <3>1. Limit(t)' = Limit(t)
      BY <2>1, <2>3, <1>1, <1>2, <1>3 DEF Limit, Check, Types
    <3>2. QED
      BY <3>1, <2>1, <2>2, <1>1 DEF OpenInv, list_vars
  <2>4. CASE t = i /\ i' # i /\ enable[t]
    <3>1. ~Elapsed(t) /\ i' = i + 1 /\ scan' = "check"
      BY <2>4 DEF Check
    <3>2. Limit(t)' = due[t] + Since
      BY <3>1, <2>4, <1>1, <1>2 DEF Limit, Types
    <3>3. /\ age[t] \in Nat /\ due[t] \in Nat /\ due[t] > 0
          /\ period[t] \in Nat /\ period[t] <= due[t]
      BY <2>1, <2>4, <1>1, Arith DEF OpenInv, Types
    <3>4. age[t] < due[t] + Since
      <4>1. CASE age[t] >= Since
        <5>1. ~(age[t] - Since >= period[t])
          BY <4>1, <3>1, <2>4, ElapsedAge
        <5>2. QED
          BY <5>1, <3>3, <1>1
      <4>2. CASE ~(age[t] >= Since)
        BY <4>2, <3>3, <1>1
      <4>3. QED
        BY <4>1, <4>2
    <3>5. QED
      BY <3>2, <3>4, <2>1, <2>2, <2>4, <1>1 DEF OpenInv, list_vars
  <2>5. CASE ~enable[t]
    BY <2>5, <2>2, <1>1 DEF OpenInv, list_vars
  <2>6. QED
    BY <2>2, <2>3, <2>4, <2>5
<1>5. QED
  BY <1>3, <1>4 DEF IInv

LEMMA PostPreserves == ASSUME IInv, Post PROVE IInv'
<1>1. /\ Types /\ Since \in Nat /\ Since' = Since
      /\ UNCHANGED <<tick, period, enable, now, sleep, lag, preempted>>
      /\ i \in Timer /\ scan = "post" /\ i' = i + 1 /\ scan' = "check"
      /\ start' = [start EXCEPT ![i] = now]
  BY MinusRange DEF IInv, Types, Post, Since, Minus, StartAt
<1>2. /\ enable[i] => /\ age' = [age EXCEPT ![i] = Since]
                      /\ due' = [due EXCEPT ![i] = period[i]]
      /\ ~enable[i] => UNCHANGED <<age, due>>
  BY DEF Post, StartAt, Since
<1>3. Types' /\ ScanInv'
  BY <1>1, <1>2, Arith DEF IInv, Types, ScanInv
<1>4. ASSUME NEW t \in Timer PROVE OpenInv(t)' /\ OldInv(t)'
  <2>1. OpenInv(t) /\ OldInv(t) /\ t \in Nat
    BY Arith DEF IInv
  <2>2. CASE t # i
    <3>1. age'[t] = age[t] /\ due'[t] = due[t] /\ start'[t] = start[t]
      BY <2>2, <1>1, <1>2 DEF Types
    <3>2. Limit(t)' = Limit(t)
      BY <3>1, <2>1, <2>2, <1>1 DEF Limit, Types
    <3>3. QED
      BY <3>1, <3>2, <2>1, <1>1 DEF OpenInv, OldInv
  <2>3. CASE t = i /\ enable[t]
    <3>1. age'[t] = Since /\ due'[t] = period[t] /\ start'[t] = now /\ period[t] \in Period
      BY <2>3, <1>1, <1>2 DEF Types
    <3>2. Limit(t)' = period[t] + Since
      BY <3>1, <2>1, <2>3, <1>1 DEF Limit, Types
    <3>3. QED
      BY <3>1, <3>2, <1>1, Arith DEF OpenInv, OldInv, Since
  <2>4. CASE ~enable[t]
    BY <2>4, <1>1 DEF OpenInv, OldInv
  <2>5. QED
    BY <2>2, <2>3, <2>4
<1>5. QED
  BY <1>3, <1>4 DEF IInv

LEMMA DonePreserves == ASSUME IInv, Done PROVE IInv'
<1>1. /\ Types /\ Since \in Nat /\ Since <= Jitter
      /\ UNCHANGED <<tick, list_vars, age, due>>
      /\ scan' = "delay" /\ sleep' = Delay /\ lag' = 0
      /\ scan = "check" /\ i > NTimers
  <2>1. Types /\ ScanInv /\ Since \in Nat /\ scan = "check"
    BY SinceType DEF IInv, Done
  <2>2. QED
    BY <2>1, Arith DEF Types, Done, ScanInv
<1>2. Types' /\ ScanInv'
  BY <1>1, Arith DEF Done, Types, ScanInv, list_vars
<1>3. ASSUME NEW t \in Timer PROVE OpenInv(t)' /\ OldInv(t)'
  <2>1. OpenInv(t) /\ t \in Nat /\ t < i
    BY <1>1, Arith, OsTimerAssumption DEF IInv, Timer, Types
  <2>2. Limit(t)' = due[t] + Jitter /\ Limit(t) = due[t] + Since
    BY <2>1, <1>1, Arith DEF Limit, Types
  <2>3. QED
    BY <2>1, <2>2, <1>1, Arith DEF OpenInv, OldInv, list_vars, Types
<1>4. QED
  BY <1>2, <1>3 DEF IInv

(* A tick makes open timers and their limits one tick older. *)
LEMMA TickPreserves == ASSUME IInv, Tick PROVE IInv'
<1>1. /\ Types /\ Since \in Nat
      /\ UNCHANGED <<list_vars, scan, i, now, due, preempted>>
      /\ tick' = IF tick + 1 = Wrap THEN 0 ELSE tick + 1
  BY SinceType DEF IInv, Tick
<1>2. Types'
  BY <1>1, Arith DEF Tick, Types, list_vars
<1>3. Jitter - sleep' + lag' = Jitter - sleep + lag + 1 /\ lag' \in 0..Jitter
  BY <1>1, Arith DEF Tick, Types
<1>4. scan # "delay" => Since' = Since + 1 /\ sleep' = 0 /\ lag' = lag + 1
  <2>1. SUFFICES ASSUME scan # "delay" PROVE Since' = Since + 1 /\ sleep' = 0 /\ lag' = lag + 1
    OBVIOUS
  <2>2. sleep = 0 /\ Since <= lag /\ lag < Jitter /\ sleep' = 0 /\ lag' = lag + 1
    BY <2>1, <1>1 DEF IInv, ScanInv, Tick, Types
  <2>3. CASE Since + 1 < Wrap
    BY <2>2, <2>3, <1>1, MinusTick DEF Since, Types
  <2>4. Since + 1 < Wrap
    BY <2>2, <1>1, Arith, OsTimerAssumption DEF Types
  <2>5. QED
    BY <2>2, <2>3, <2>4
<1>5. ScanInv'
  BY <1>1, <1>4 DEF IInv, ScanInv, Types
<1>6. ASSUME NEW t \in Timer PROVE OpenInv(t)' /\ OldInv(t)'
  <2>1. OpenInv(t) /\ OldInv(t) /\ t \in Nat
    BY Arith DEF IInv
  <2>2. CASE enable[t]
    <3>1. /\ age'[t] = age[t] + 1 /\ enable'[t] /\ due'[t] = due[t] /\ period'[t] = period[t]
          /\ start'[t] = start[t] /\ start[t] \in 0..(Wrap - 1)
          /\ age[t] \in Nat /\ due[t] \in Period /\ due[t] \in Nat
      BY <2>1, <2>2, <1>1 DEF Tick, Types, list_vars, OpenInv
    <3>2. Limit(t)' = Limit(t) + 1 /\ Limit(t) \in Int
      <4>1. CASE scan # "delay" /\ t < i
        BY <4>1, <3>1, <1>1, <1>4 DEF Limit
      <4>2. CASE ~(scan # "delay" /\ t < i)
        <5>1. /\ Limit(t) = due[t] + Jitter + Delay - sleep + lag
              /\ Limit(t)' = due[t] + Jitter + Delay - sleep' + lag'
          BY <4>2, <3>1, <1>1 DEF Limit
        <5>2. sleep \in Int /\ lag \in Int /\ sleep' \in Int /\ lag' \in Int
          BY <1>1, <1>2 DEF Types
        <5>3. Jitter \in Int /\ Delay \in Int /\ due[t] \in Int
          BY <3>1, Arith
        <5>4. Limit(t) = due[t] + Delay + (Jitter - sleep + lag)
          BY <5>1, <5>2, <5>3
        <5>5. Limit(t)' = due[t] + Delay + (Jitter - sleep' + lag')
          BY <5>1, <5>2, <5>3
        <5>6. Jitter - sleep + lag \in Int
          BY <5>2, <5>3
        <5>7. QED
          BY <5>3, <5>4, <5>5, <5>6, <1>3
      <4>3. QED
        BY <4>1, <4>2
    <3>3. age'[t] < Limit(t)'
      BY <3>1, <3>2, <2>1, <2>2 DEF OpenInv
    <3>4. Limit(t)' <= due[t] + Jitter + Delay + Jitter
      <4>1. CASE scan # "delay" /\ t < i
        <5>1. Limit(t)' = due[t] + Since'
          BY <4>1, <3>1, <1>1 DEF Limit
        <5>2. Since' = Since + 1 /\ Since' <= lag'
          BY <4>1, <1>1, <1>4, <1>5 DEF ScanInv
        <5>3. QED
          BY <5>1, <5>2, <3>1, <1>1, <1>3, Arith
      <4>2. CASE ~(scan # "delay" /\ t < i)
        <5>1. Limit(t)' = due[t] + Jitter + Delay - sleep' + lag'
          BY <4>2, <3>1, <1>1 DEF Limit
        <5>2. sleep' \in Nat /\ lag' \in 0..Jitter
          BY <1>2, <1>3, Arith DEF Types
        <5>3. QED
          BY <5>1, <5>2, <3>1, Arith
      <4>3. QED
        BY <4>1, <4>2
    <3>5. age[t] + 1 < Wrap
      BY <3>1, <3>2, <3>3, <3>4, Arith
    <3>6. age'[t] = Minus(tick', start'[t])
      BY <3>1, <3>5, <2>1, <2>2, <1>1, MinusTick DEF OpenInv, Types
    <3>7. OpenInv(t)'
      BY <3>1, <3>3, <3>6, <2>1, <2>2 DEF OpenInv
    <3>8. OldInv(t)'
      BY <3>1, <2>1, <2>2, <1>1, <1>4 DEF OldInv
    <3>9. QED
      BY <3>7, <3>8
  <2>3. CASE ~enable[t]
    BY <2>3, <1>1 DEF OpenInv, OldInv, list_vars
  <2>4. QED
    BY <2>2, <2>3
<1>7. QED
  BY <1>2, <1>5, <1>6 DEF IInv

LEMMA CallPreserves == ASSUME IInv, Call \/ UNCHANGED vars PROVE IInv'
<1>1. UNCHANGED <<tick, list_vars, scan_vars, age, due, preempted>>
  BY DEF Call, vars, list_vars, scan_vars
<1>2. QED
  BY <1>1 DEF IInv, Types, ScanInv, OpenInv, OldInv, Limit, Since, Minus, list_vars, scan_vars

(* The scan never looks behind the list, and posting never overfills the ring *)
(* of the agent, whatever is opened, closed or restarted meanwhile.          *)
THEOREM TypeCorrect == Spec => []TypeOK
<1>1. ASSUME Init PROVE TypeOK
  <2>1. /\ preempted \in BOOLEAN
        /\ enable \in [Timer -> BOOLEAN]
    BY <1>1, Zenon DEF Init
  <2>2. queue \in Seq(Timer) /\ Len(queue) <= Ring
    BY <1>1, OsTimerAssumption DEF Init
  <2>3. QED
    BY <1>1, <2>1, <2>2, Arith DEF Init, TypeOK
<1>2. ASSUME TypeOK, NEW t \in Timer
      PROVE  Posted(t) \in Seq(Timer) /\ Len(Posted(t)) <= Ring
  BY <1>2, OsTimerAssumption DEF TypeOK, Posted
<1>3. ASSUME TypeOK, NEW t \in Timer, NEW x \in 0..(Wrap - 1), NEW d \in Nat,
             StartAt(t, x, d)
      PROVE  /\ start' \in [Timer -> 0..(Wrap - 1)]
             /\ age' \in [Timer -> Nat]
             /\ due' \in [Timer -> Period \cup {0}]
  BY <1>3 DEF TypeOK, StartAt
<1>4. ASSUME TypeOK, NEW t \in Timer, NEW at_once \in BOOLEAN, ostimer_open(t, at_once)
      PROVE  TypeOK'
  <2>1. tick \in 0..(Wrap - 1) /\ 0 \in Nat
    BY <1>4 DEF TypeOK
  <2>2. /\ start' \in [Timer -> 0..(Wrap - 1)]
        /\ age' \in [Timer -> Nat]
        /\ due' \in [Timer -> Period \cup {0}]
    BY <1>3, <1>4, <2>1 DEF ostimer_open
  <2>3. queue' \in Seq(Timer) /\ Len(queue') <= Ring
    BY <1>2, <1>4 DEF ostimer_open, TypeOK
  <2>4. preempted' \in BOOLEAN
    BY <1>4, Zenon DEF ostimer_open, Calls, TypeOK
  <2>5. QED
    BY <1>4, <2>2, <2>3, <2>4 DEF ostimer_open, TypeOK, scan_vars
<1>5. ASSUME TypeOK, NEW t \in Timer, ostimer_close(t) PROVE TypeOK'
  <2>1. preempted' \in BOOLEAN
    BY <1>5, Zenon DEF ostimer_close, Calls, TypeOK
  <2>2. QED
    BY <1>5, <2>1 DEF ostimer_close, TypeOK, scan_vars
<1>6. ASSUME TypeOK, NEW t \in Timer, NEW p \in Period, ostimer_set_period(t, p)
      PROVE  TypeOK'
  <2>1. preempted' \in BOOLEAN
    BY <1>6, Zenon DEF ostimer_set_period, Calls, TypeOK
  <2>2. QED
    BY <1>6, <2>1 DEF ostimer_set_period, TypeOK, scan_vars
<1>7. ASSUME TypeOK, NEW t \in Timer, ostimer_restart(t) PROVE TypeOK'
  <2>1. tick \in 0..(Wrap - 1) /\ 0 \in Nat
    BY <1>7 DEF TypeOK
  <2>2. /\ start' \in [Timer -> 0..(Wrap - 1)]
        /\ age' \in [Timer -> Nat]
        /\ due' \in [Timer -> Period \cup {0}]
    BY <1>3, <1>7, <2>1 DEF ostimer_restart
  <2>3. preempted' \in BOOLEAN
    BY <1>7, Zenon DEF ostimer_restart, Calls, TypeOK
  <2>4. QED
    BY <1>7, <2>2, <2>3 DEF ostimer_restart, TypeOK, scan_vars
<1>8. ASSUME TypeOK, Wake PROVE TypeOK'
  <2>1. preempted' \in BOOLEAN
    BY <1>8, Zenon DEF Wake
  <2>2. QED
    BY <1>8, <2>1, OsTimerAssumption DEF Wake, TypeOK, list_vars
<1>9. ASSUME TypeOK, Check PROVE TypeOK'
  BY <1>9, OsTimerAssumption DEF Check, TypeOK, list_vars, Timer
<1>10. ASSUME TypeOK, Post PROVE TypeOK'
  <2>1. /\ i \in Timer /\ now \in 0..(Wrap - 1) /\ Minus(tick, now) \in Nat
        /\ i' = i + 1
    BY <1>10, MinusRange DEF Post, TypeOK
  <2>2. /\ start' \in [Timer -> 0..(Wrap - 1)]
        /\ age' \in [Timer -> Nat]
        /\ due' \in [Timer -> Period \cup {0}]
    <3>1. CASE enable[i]
      BY <1>3, <1>10, <2>1, <3>1 DEF Post
    <3>2. CASE ~enable[i]
      BY <1>10, <2>1, <3>2 DEF Post, TypeOK
    <3>3. QED
      BY <3>1, <3>2
  <2>3. queue' \in Seq(Timer) /\ Len(queue') <= Ring
    BY <1>2, <1>10, <2>1 DEF Post
  <2>4. i' \in 1..(NTimers + 1)
    BY <2>1, OsTimerAssumption DEF Timer
  <2>5. QED
    BY <1>10, <2>2, <2>3, <2>4 DEF Post, TypeOK
<1>11. ASSUME TypeOK, Done PROVE TypeOK'
  BY <1>11, OsTimerAssumption DEF Done, TypeOK, list_vars
<1>12. ASSUME TypeOK, Tick PROVE TypeOK'
  BY <1>12, Arith DEF Tick, TypeOK, list_vars
<1>13. ASSUME TypeOK, Call PROVE TypeOK'
  BY <1>13, OsTimerAssumption DEF Call, TypeOK, list_vars, scan_vars
<1>14. ASSUME TypeOK, UNCHANGED vars PROVE TypeOK'
  BY <1>14 DEF TypeOK, vars
<1>15. TypeOK /\ [Next]_vars => TypeOK'
  BY <1>4, <1>5, <1>6, <1>7, <1>8, <1>9, <1>10, <1>11, <1>12, <1>13, <1>14 DEF Next
<1>16. QED
  BY <1>1, <1>15, PTL DEF Spec

(* The inductive invariant: what a scan has passed is young, what it has not *)
(* reached is as old as one period and one round of ostimer_task allow.      *)
THEOREM Invariance == Spec => []IInv
<1>1. IInv /\ [Next]_vars => IInv'
  BY CallsPreserve, WakePreserves, CheckPreserves, PostPreserves, DonePreserves,
     TickPreserves, CallPreserves DEF Next
<1>2. QED
  BY <1>1, InitInv, PTL DEF Spec

(* ostimer_task forgets no timer: with commands from anywhere, and for every *)
(* width of the tick counter, an open timer is posted within its period and  *)
(* one round of the task.                                                    *)
THEOREM NeverLate == Spec => []OnTime
<1>1. IInv => OnTime
  <2>1. SUFFICES ASSUME IInv, NEW t \in Timer, enable[t]
                 PROVE  age[t] < due[t] + Delay + 2 * Jitter
    BY DEF OnTime
  <2>2. /\ age[t] < Limit(t) /\ age[t] \in Nat /\ due[t] \in Nat
        /\ Since \in Nat /\ sleep \in 0..Delay /\ lag \in 0..Jitter
        /\ scan # "delay" => Since <= lag
    BY <2>1, MinusRange DEF IInv, OpenInv, Types, ScanInv, Since
  <2>3. QED
    BY <2>2, Arith DEF Limit
<1>2. QED
  BY <1>1, Invariance, PTL

(* A scan that no command interrupts finds a timer due only when its period  *)
(* has passed.                                                               *)
THEOREM NeverEarly == Spec => NotEarly
<1>1. IInv /\ [Next]_vars => [FoundDue /\ ~preempted => age[i] >= period[i]]_vars
  <2>1. SUFFICES ASSUME IInv, Next, ~preempted, FoundDue PROVE age[i] >= period[i]
    OBVIOUS
  <2>2. Check
    BY <2>1 DEF Next, FoundDue, ostimer_open, ostimer_close, ostimer_set_period,
       ostimer_restart, Wake, Post, Done, Tick, Call, scan_vars
  <2>3. i \in Timer /\ enable[i] /\ Elapsed(i)
    BY <2>1, <2>2, Arith DEF Check, FoundDue, IInv, Types, Timer
  <2>4. /\ age[i] >= Since /\ Since \in Nat /\ age[i] \in Nat
        /\ period[i] \in Nat
    BY <2>1, <2>3, MinusRange, Arith DEF IInv, OldInv, FoundDue, Types, Since
  <2>5. age[i] - Since >= period[i]
    BY <2>1, <2>3, <2>4, ElapsedAge
  <2>6. QED
    BY <2>4, <2>5
<1>2. QED
  BY <1>1, Invariance, PTL DEF Spec, NotEarly
=============================================================================
