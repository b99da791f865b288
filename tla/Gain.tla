-------------------------------- MODULE Gain --------------------------------
(***************************************************************************)
(* The transimpedance gain of the two spectral channels: the automatic and *)
(* the commanded range switch (tiag.c), and the part of a measuring pass   *)
(* that depends on it (temp_task, measure.c): a pass converts both         *)
(* channels, decides on the ranges, scales the voltages by the factor of   *)
(* the range and feeds the filter, or replaces a voltage by an             *)
(* extrapolated one while a switch settles.                                *)
(*                                                                         *)
(* sample_task (priority 23) is above those that process commands, the     *)
(* client threads of TCP (22 and below) and the agent of the serial port   *)
(* (21): SN, SW and SM write now_gain and the mode while it sleeps, which  *)
(* it does between two passes and in the middle of one, after conversions  *)
(* and before temp_task (measure.c:200).  Such a command changes neither   *)
(* the analogue switch nor what was converted before temp_task looks, so a *)
(* step of temp_task converts too.  Commands are also let in between the   *)
(* decision and the scaling, more than the priorities allow.  Both callers *)
(* process a command inside a critical section: its write and its          *)
(* call-back are one step.                                                 *)
(*                                                                         *)
(* A voltage is an integer: the light on the target times the sensitivity  *)
(* of the channel times the amplification of its range, cut at the end of  *)
(* the converter's scale.                                                  *)
(***************************************************************************)
EXTENDS Integers

CONSTANTS
    Lights,    \* the levels of light that occur
    Sens,      \* the sensitivity of each channel
    K,         \* sys_para.gain.k_lm and k_mh
    Upper,     \* sys_para.gain.upper
    Lower,     \* sys_para.gain.lowerml and lowerhm
    Full,      \* the end of the scale: no voltage is larger
    Valid,     \* the largest voltage volt_normalization accepts, 3299999
    CntThod,   \* sys_para.gain.cnt_thod
    Discard,   \* sys_para.gain.volt_discard
    HistSize,  \* history_volt.buffer_size
    CmdCh,     \* bound: the channels that are sent SN or SW
    MaxCmds    \* bound: commands SN and SW after a start

Ch == {"WB", "NB"}
GAIN_L == 0
GAIN_M == 1
GAIN_H == 2
Gains == GAIN_L .. GAIN_H
CntFlags == {"UP_L", "UP_M", "DOWN_M", "DOWN_H"}
Moves == {"gl_to_gm", "gm_to_gh", "gh_to_gm", "gm_to_gl"}

\* The two thresholds leave a gap: what drives a channel up does not drive
\* it down again (3250000 and 3220000 in para_cfg.c).
ASSUME GainAssumption ==
    /\ Lights \subseteq Nat /\ Sens \in [Ch -> Nat \ {0}] /\ K \in Nat \ {0, 1}
    /\ Upper \in Nat /\ Lower \in Nat /\ Full \in Nat /\ Valid \in Nat
    /\ Lower <= Upper /\ Upper < Full
    /\ CntThod \in Nat \ {0} /\ Discard \in Nat /\ HistSize \in Nat \ {0, 1}
    /\ CmdCh \subseteq Ch /\ MaxCmds \in Nat

VARIABLES
    light,    \* the light on the target
    hw,       \* the range each analogue switch is set to
    now,      \* sys_state.now_gain
    mode,     \* sys_state.tiag_switch_mode: "AUTO" or "CMD"
    cnt,      \* gain_cnt: samples that ask for a switch
    sw,       \* gain_sw_data: flag, and the samples still to be replaced
    hist,     \* history_volt.count
    pass,     \* a pass after its switch: its voltages and their ranges, or <<>>
    started,  \* sample_status = SAMPLE_START
    warm,     \* warm_start
    fed,      \* history, while cmds = 0: what the last pass gave to the filter
    since,    \* history, while cmds = 0: passes fed since the last switch, capped
    cmds      \* history: commands SN and SW since the start

vars == <<light, hw, now, mode, cnt, sw, hist, pass, started, warm, fed, since, cmds>>

----------------------------------------------------------------------------
Amp(g) == IF g = GAIN_L THEN K * K ELSE IF g = GAIN_M THEN K ELSE 1

Volt(c, l, g) ==
    LET v == l * Sens[c] * Amp(g) IN IF v > Full THEN Full ELSE v

\* Mutant: the lower threshold is not divided by the factor of the range.
LowUnscaled(v) == v < Lower

High(v) == v > Upper
Low(v)  == v * K < Lower

NoCount == [f \in CntFlags |-> 0]
NoMove  == [m \in Moves |-> 0]

(***************************************************************************)
(* tiag_auto_switch for channel c of a record s with the fields now, hw,   *)
(* cnt, sw and stop.  A sample that asks for a switch is counted under its *)
(* flag and clears the other counters (gain_count_reset); a sample in      *)
(* between leaves them alone.                                              *)
(***************************************************************************)
gain_set(s, c, g) == [s EXCEPT !.hw[c] = g, !.now[c] = g]

\* Mutant: one sample too few.
AsksEarly(s, c, f, g) ==
    IF s.cnt[c][f] + 2 >= CntThod
    THEN [gain_set(s, c, g) EXCEPT !.cnt[c] = NoCount]
    ELSE [s EXCEPT !.cnt[c] = [NoCount EXCEPT ![f] = s.cnt[c][f] + 1]]

Asks(s, c, f, g) ==
    IF s.cnt[c][f] + 1 >= CntThod
    THEN [gain_set(s, c, g) EXCEPT !.cnt[c] = NoCount]
    ELSE [s EXCEPT !.cnt[c] = [NoCount EXCEPT ![f] = s.cnt[c][f] + 1]]

tiag_auto_switch(s, c, v) ==
    CASE s.now[c] = GAIN_L /\ High(v) -> Asks(s, c, "UP_L", GAIN_M)
      [] s.now[c] = GAIN_M /\ High(v) -> Asks(s, c, "UP_M", GAIN_H)
      [] s.now[c] = GAIN_M /\ Low(v)  -> Asks(s, c, "DOWN_M", GAIN_L)
      [] s.now[c] = GAIN_H /\ Low(v)  -> Asks(s, c, "DOWN_H", GAIN_M)
      [] OTHER -> s

\* Mutant: the commanded mode does not set the analogue switch.
tiag_switch_idle(s, c) ==
    IF mode = "AUTO" THEN tiag_auto_switch(s, c, Volt(c, light, hw[c])) ELSE s

tiag_switch(s, c) ==
    IF mode = "AUTO" THEN tiag_auto_switch(s, c, Volt(c, light, hw[c])) ELSE gain_set(s, c, s.now[c])

Move(from, to) ==
    IF from < to THEN IF from = GAIN_L THEN "gl_to_gm" ELSE "gm_to_gh"
    ELSE IF from = GAIN_M THEN "gm_to_gl" ELSE "gh_to_gm"

\* The flag is cleared, and a change of the range sets the samples to replace.
Announced(left, from, to) ==
    [flag |-> FALSE,
     left |-> IF from = to THEN left ELSE [left EXCEPT ![Move(from, to)] = Discard]]

\* Mutant: only a switch upwards sets the samples to replace.
ExamineUp(s, c) ==
    LET t == tiag_switch(s, c)
        moved == t.now[c] # s.now[c]
    IN  IF ~moved /\ ~s.sw[c].flag THEN t
        ELSE [t EXCEPT !.stop = TRUE, !.sw[c] = Announced(@.left, s.now[c],
                            IF s.now[c] < t.now[c] THEN t.now[c] ELSE s.now[c])]

(***************************************************************************)
(* The body of the loop of gain_switch_process for one channel: when the   *)
(* range changed, or a command asked for it with the flag, the samples to  *)
(* replace are set and the pass ends.                                      *)
(***************************************************************************)
Examine(s, c) ==
    LET t == tiag_switch(s, c)
        moved == t.now[c] # s.now[c]
    IN  IF ~moved /\ ~s.sw[c].flag THEN t
        ELSE [t EXCEPT !.stop = TRUE, !.sw[c] = Announced(@.left, s.now[c], t.now[c])]

gain_switch_process ==
    LET s == [now |-> now, hw |-> hw, cnt |-> cnt, sw |-> sw, stop |-> FALSE]
        wb == Examine(s, "WB")
    IN  IF wb.stop THEN wb ELSE Examine(wb, "NB")

\* gain_temp_insert takes one of the samples to replace, in this order.
Replaced(left) ==
    IF left["gl_to_gm"] # 0 THEN "gl_to_gm"
    ELSE IF left["gm_to_gh"] # 0 THEN "gm_to_gh"
    ELSE IF left["gh_to_gm"] # 0 THEN "gh_to_gm" ELSE "gm_to_gl"

Inserts(c) == sw[c].left # NoMove

\* What a pass gives to the filter of channel c.
Given(c) ==
    IF Inserts(c) THEN IF hist[c] = 1 THEN "undefined" ELSE "inserted"
    ELSE IF pass[c].at = now[c] THEN "measured" ELSE "misscaled"

----------------------------------------------------------------------------
\* What a start in the ranges g leaves: tiag_init and gain_status_init.
Start(g, w) ==
    [hw |-> g, now |-> g, mode |-> "AUTO", cnt |-> [c \in Ch |-> NoCount],
     sw |-> [c \in Ch |-> [flag |-> FALSE, left |-> NoMove]], hist |-> [c \in Ch |-> 0],
     pass |-> <<>>, started |-> FALSE, warm |-> w,
     fed |-> [c \in Ch |-> "none"], since |-> [c \in Ch |-> Discard + 1], cmds |-> 0]

Init ==
    /\ light \in Lights
    /\ \E s \in {Start([c \in Ch |-> GAIN_H], FALSE)} :
        /\ hw = s.hw /\ now = s.now /\ mode = s.mode /\ cnt = s.cnt /\ sw = s.sw
        /\ hist = s.hist /\ pass = s.pass /\ started = s.started /\ warm = s.warm
        /\ fed = s.fed /\ since = s.since /\ cmds = s.cmds

(***************************************************************************)
(* A pass of sample_task: the conversions and gain_switch_process.  A      *)
(* conversion depends on hw, which only the switch changes, so a command   *)
(* between the two acts as one before them; the switch itself is a         *)
(* critical section.  The first pass only marks the start.                 *)
(***************************************************************************)
temp_task ==
    /\ pass = <<>> /\ started' = TRUE
    /\ \E s \in {IF started THEN gain_switch_process
                 ELSE [now |-> now, hw |-> hw, cnt |-> cnt, sw |-> sw, stop |-> TRUE]} :
        /\ hw' = s.hw /\ now' = s.now /\ cnt' = s.cnt /\ sw' = s.sw
        /\ pass' = IF s.stop THEN <<>>
                   ELSE [c \in Ch |-> [raw |-> Volt(c, light, hw[c]), at |-> hw[c]]]
        /\ since' = [c \in Ch |-> IF cmds = 0 /\ s.hw[c] # hw[c] THEN 0 ELSE since[c]]
    /\ fed' = [c \in Ch |-> "none"]
    /\ UNCHANGED <<light, mode, hist, warm, cmds>>

\* volt_normalization gives the pass up when a channel is at the end of the
\* scale; else gain_temp_insert and volt_remove_average_filter follow.
volt_normalization ==
    /\ pass # <<>> /\ pass' = <<>>
    /\ IF \E c \in Ch : pass[c].raw > Valid
       THEN UNCHANGED <<sw, hist, fed, since>>
       ELSE /\ fed' = [c \in Ch |-> IF cmds # 0 THEN "none" ELSE Given(c)]
            /\ sw' = [c \in Ch |-> IF Inserts(c)
                        THEN [sw[c] EXCEPT !.left[Replaced(sw[c].left)] = @ - 1] ELSE sw[c]]
            /\ hist' = [c \in Ch |-> IF hist[c] < HistSize THEN hist[c] + 1 ELSE hist[c]]
            /\ since' = [c \in Ch |-> IF cmds = 0 /\ since[c] <= Discard THEN since[c] + 1 ELSE since[c]]
    /\ UNCHANGED <<light, hw, now, mode, cnt, started, warm, cmds>>

----------------------------------------------------------------------------
\* The call-back of SN and SW for the range g that has been written.
Callback(c, g) ==
    sw' = [sw EXCEPT ![c].flag = TRUE,
                     ![c].left = [@ EXCEPT ![CASE g = GAIN_L -> "gm_to_gl"
                                               [] g = GAIN_M -> "gl_to_gm"
                                               [] OTHER      -> "gm_to_gh"] = Discard]]

\* SN or SW.
SetGain(c, g) ==
    /\ cmds < MaxCmds /\ cmds' = cmds + 1
    /\ now' = [now EXCEPT ![c] = g] /\ Callback(c, g)
    /\ UNCHANGED <<light, hw, mode, cnt, hist, pass, started, warm, fed, since>>

\* SM.
SetMode(m) ==
    /\ mode # m /\ mode' = m
    /\ UNCHANGED <<light, hw, now, cnt, sw, hist, pass, started, warm, fed, since, cmds>>

(***************************************************************************)
(* A restart.  A cold one starts at GAIN_H; a warm one at the ranges of    *)
(* the last hot_start_quick_save_set, taken every second: any ranges, for  *)
(* the light may have been another one then.  Without a save sys_state is  *)
(* zero, which is GAIN_L.                                                  *)
(***************************************************************************)
Restart(g, w) ==
    /\ ~w => g = [c \in Ch |-> GAIN_H]
    /\ \E s \in {Start(g, w)} :
        /\ hw' = s.hw /\ now' = s.now /\ mode' = s.mode /\ cnt' = s.cnt /\ sw' = s.sw
        /\ hist' = s.hist /\ pass' = s.pass /\ started' = s.started /\ warm' = s.warm
        /\ fed' = s.fed /\ since' = s.since /\ cmds' = s.cmds
    /\ UNCHANGED light

\* The light changes at any time; as a bound, not after a command.
LightChanges ==
    /\ cmds = 0 /\ light' \in Lights
    /\ UNCHANGED <<hw, now, mode, cnt, sw, hist, pass, started, warm, fed, since, cmds>>

Next ==
    \/ temp_task \/ volt_normalization
    \/ \E c \in CmdCh, g \in Gains : SetGain(c, g)
    \/ \E m \in {"AUTO", "CMD"} : SetMode(m)
    \/ \E g \in [Ch -> Gains], w \in BOOLEAN : Restart(g, w)
    \/ LightChanges

\* sample_task is a loop with delays; only lwIP and server_task, which block
\* most of the time, come before it.
Spec == Init /\ [][Next]_vars /\ WF_vars(temp_task) /\ WF_vars(volt_normalization)

----------------------------------------------------------------------------
\* Every variable keeps its type.
TypeOK ==
    /\ light \in Lights /\ hw \in [Ch -> Gains] /\ now \in [Ch -> Gains]
    /\ mode \in {"AUTO", "CMD"} /\ cnt \in [Ch -> [CntFlags -> 0 .. CntThod - 1]]
    /\ sw \in [Ch -> [flag : BOOLEAN, left : [Moves -> 0 .. Discard]]]
    /\ hist \in [Ch -> 0 .. HistSize]
    /\ pass \in {<<>>} \cup [Ch -> [raw : 0 .. Full, at : Gains]]
    /\ {started, warm} \subseteq BOOLEAN /\ cmds \in 0 .. MaxCmds
    /\ since \in [Ch -> 0 .. Discard + 1]
    /\ fed \in [Ch -> {"none", "measured", "inserted", "misscaled", "undefined"}]

\* Without a command the analogue switch is where now_gain says, and every
\* voltage the filter takes as measured was converted at the range whose
\* factor scaled it and after the samples of the last switch were replaced
\* (measure.c:446-505).
ScaledRight ==
    cmds = 0 => /\ hw = now
                /\ \A c \in Ch : /\ fed[c] # "misscaled"
                                 /\ fed[c] = "measured" => since[c] > Discard

\* After a cold start without commands the slope of gain_temp_insert is never
\* taken over a history of one entry, a division by zero (measure.c:502).
\* This needs CntThod >= 3, its default, and that no light leaves one channel
\* dark while the other is at the end of the scale: volt_normalization gives
\* such passes up, but they count for the switch.
Together ==
    \A l \in Lights : \A c, d \in Ch :
        Low(Volt(c, l, GAIN_H)) => Volt(d, l, GAIN_H) <= Valid
SlopeDefined == ~warm /\ cmds = 0 => \A c \in Ch : fed[c] # "undefined"

\* A channel fits its range: nothing asks for another one.
Fits(c) ==
    LET v == Volt(c, light, hw[c])
    IN  /\ hw[c] = now[c]
        /\ ~(High(v) /\ now[c] < GAIN_H) /\ ~(Low(v) /\ now[c] > GAIN_L)

\* In a steady light, without commands and restarts, both channels come to
\* rest in a range that fits (tiag.c:98-145): the ranges do not chase each
\* other and the first channel does not starve the second.
Settles ==
    \A l \in Lights :
        <>[](light = l /\ mode = "AUTO" /\ cmds = 0 /\ started) => <>[](\A c \in Ch : Fits(c))

\* In the commanded mode, once the last command has been taken up by a pass,
\* the analogue switches stay where they were commanded (tiag_cmd_switch),
\* wherever in a pass the commands and the change of mode came.
Obeys ==
    <>[](mode = "CMD" /\ started /\ \A c \in Ch : ~sw[c].flag) => <>[](hw = now)
=============================================================================
