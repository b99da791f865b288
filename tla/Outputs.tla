------------------------------ MODULE Outputs ------------------------------
(***************************************************************************)
(* What the instrument tells its surroundings about a measurement: the     *)
(* error word (self_check.c), the analogue current output (analogout.c)    *)
(* and the alarm relay (alarm.c).                                          *)
(*                                                                         *)
(* sample_task (23) ends each pass with get_temp, which reports the        *)
(* readings and two of the error flags, and with anolog_output.  It        *)
(* preempts the agent (21) that runs service_task, whose last step         *)
(* error_state_upgrade keeps the other flags in the same word, and         *)
(* alarm_task.  A flag is set or cleared by loading the word, changing it  *)
(* and storing it, so a pass of sample_task in between is overwritten.     *)
(*                                                                         *)
(* Temperatures and the attenuation (in per cent) are numbers taken from   *)
(* small sets.  The output is the automatic current output after a cold    *)
(* start, and no peak or valley is held.                                   *)
(***************************************************************************)
EXTENDS Integers, Sequences

CONSTANTS
    Temps,       \* target temperatures inside the range of the device
    Internals,   \* internal temperatures
    Atts,        \* attenuations
    SetTemps,    \* values of heater.set_temp, 0: no heating
    Alarms,      \* the alarms that alarm_task evaluates
    Modes,       \* values of alarm.relay_alarm_mode
    On, Dead,    \* alarm thresholds and dead bands
    DecayRate    \* alarm.decay_rate

AllModes == {"RELAY_OFF", "RELAY_ON", "NO_TARGET_INTERNAL",
             "NC_TARGET_INTERNAL", "NO_INTERNAL", "NC_INTERNAL", "NO_TARGET",
             "NC_TARGET", "NO_DECAY", "NC_DECAY"}

Flags == {"DETECTOR", "HEATER_HIGH", "HEATER_LOW", "INTERNAL_HIGH",
          "INTERNAL_LOW", "ENERGY_LOW", "ATTEN_HIGH"}

\* relay_alarm_mode: the alarms it watches, and the modes with a contact
\* that is closed while there is no alarm.
Watched(m) ==
    CASE m \in {"NO_TARGET_INTERNAL", "NC_TARGET_INTERNAL"} -> {"target", "internal"}
      [] m \in {"NO_INTERNAL", "NC_INTERNAL"} -> {"internal"}
      [] m \in {"NO_TARGET", "NC_TARGET"}     -> {"target"}
      [] m \in {"NO_DECAY", "NC_DECAY"}       -> {"decay"}
      [] OTHER                                -> {}

Closed == {"RELAY_ON", "NC_TARGET_INTERNAL", "NC_INTERNAL", "NC_TARGET", "NC_DECAY"}

ASSUME OutputsAssumption ==
    /\ Temps \subseteq Nat \ {0} /\ Internals \subseteq Int /\ 0 \in Internals
    /\ Atts \subseteq 0..100 /\ 0 \in Atts /\ DecayRate \in 0..100
    /\ SetTemps \subseteq Nat /\ Alarms \subseteq {"target", "internal", "decay"}
    /\ Modes \subseteq {m \in AllModes : Watched(m) \subseteq Alarms}
    /\ On \in [Alarms -> Int] /\ Dead \in [Alarms -> Nat]

VARIABLES
    read,      \* sys_state: target_volt, temp_out_range, target_temp,
               \* internal_temp and Measured_attenuation
    err,       \* error_flags
    check,     \* error_state_upgrade: the check that is next
    writes,    \* and the flags that the last check has still to write
    word,      \* the word it has loaded and not yet stored, if any
    active,    \* the three flags of alarm_task
    relay,     \* the relay is closed
    out,       \* the current: for the temperature, or out of its range
    setTemp,   \* sys_para.heater.set_temp
    mode       \* sys_para.alarm.relay_alarm_mode

errVars == <<err, check, writes, word>>
alarmVars == <<active, relay>>
paraVars == <<setTemp, mode>>
vars == <<read, errVars, alarmVars, out, paraVars>>

----------------------------------------------------------------------------
(***************************************************************************)
(* A reading of the target: the detector gives nothing at all, too little  *)
(* for a temperature, or a temperature that may be out of the range.  A    *)
(* temperature out of the range is reported as 0.                          *)
(***************************************************************************)
Targets ==
    [volt : {"zero", "low"}, range : {-1}, temp : {0}]
    \cup [volt : {"valid"}, range : {-1, 1}, temp : {0}]
    \cup [volt : {"valid"}, range : {0}, temp : Temps]

\* Mutant: a temperature in the range clears the detector fault only.
HandleSingleErrorKeeps(w, range) ==
    CASE range < 0 -> (w \cup {"ENERGY_LOW"}) \ {"DETECTOR"}
      [] range > 0 -> (w \ {"ENERGY_LOW"}) \cup {"DETECTOR"}
      [] OTHER     -> w \ {"DETECTOR"}

\* HANDLE_SINGLE_ERROR.
HandleSingleError(w, range) ==
    CASE range < 0 -> (w \cup {"ENERGY_LOW"}) \ {"DETECTOR"}
      [] range > 0 -> (w \ {"ENERGY_LOW"}) \cup {"DETECTOR"}
      [] OTHER     -> w \ {"ENERGY_LOW", "DETECTOR"}

\* Without a valid voltage the attenuation stays as it was.
get_temp(t, i, a) ==
    /\ read' = [target |-> t, internal |-> i,
                att |-> IF t.volt = "valid" THEN a ELSE read.att]
    /\ err' = HandleSingleError(err, t.range)

\* err_table: the order of the flags and the current each asks for.
err_table ==
    << <<"DETECTOR", "max">>, <<"HEATER_HIGH", "max">>, <<"HEATER_LOW", "min">>,
       <<"INTERNAL_HIGH", "max">>, <<"INTERNAL_LOW", "min">>,
       <<"ENERGY_LOW", "min">>, <<"ATTEN_HIGH", "min">> >>

get_highest_error_index(w) ==
    {i \in DOMAIN err_table :
        /\ err_table[i][1] \in w
        /\ \A j \in 1..(i - 1) : err_table[j][1] \notin w}

anolog_output(w) ==
    IF w = {} THEN "temp"
    ELSE err_table[CHOOSE i \in get_highest_error_index(w) : TRUE][2]

\* A pass of sample_task that is carried through, and one that is given up
\* (a change of the range, a voltage at the end of the scale).
Measure ==
    /\ \E t \in Targets, i \in Internals, a \in Atts : get_temp(t, i, a)
    /\ out' = anolog_output(err')
    /\ UNCHANGED <<check, writes, word, alarmVars, paraVars>>

GiveUp ==
    /\ out' = anolog_output(err)
    /\ UNCHANGED <<read, errVars, alarmVars, paraVars>>

sample_task == Measure \/ GiveUp

----------------------------------------------------------------------------
\* error_state_upgrade makes three checks one after the other, each followed
\* by its calls of error_state_set (TRUE) and error_state_clear.
DetectorCheck == << <<"DETECTOR", read.target.volt = "zero">> >>

HeaterCheck ==
    CASE setTemp = 0 ->
            << <<"HEATER_LOW", FALSE>>, <<"HEATER_HIGH", FALSE>>,
               <<"INTERNAL_LOW", FALSE>>, <<"INTERNAL_HIGH", FALSE>> >>
      [] setTemp # 0 /\ read.internal > 80 ->
            << <<"HEATER_HIGH", TRUE>>, <<"HEATER_LOW", FALSE>> >>
      [] setTemp # 0 /\ ~(read.internal > 80) /\ read.internal < setTemp - 20 ->
            << <<"HEATER_LOW", TRUE>>, <<"HEATER_HIGH", FALSE>> >>
      [] OTHER ->
            << <<"HEATER_LOW", FALSE>>, <<"HEATER_HIGH", FALSE>> >>

AttenuationCheck == << <<"ATTEN_HIGH", read.att > DecayRate>> >>

Checks == <<DetectorCheck, HeaterCheck, AttenuationCheck>>

\* The agent is between two functions.
Idle == check = 1 /\ writes = <<>>

Evaluate ==
    /\ writes = <<>> /\ writes' = Checks[check] /\ check' = (check % 3) + 1
    /\ UNCHANGED <<read, err, word, alarmVars, out, paraVars>>

LoadFlags ==
    /\ writes # <<>> /\ word = <<>> /\ word' = <<err>>
    /\ UNCHANGED <<read, err, check, writes, alarmVars, out, paraVars>>

StoreFlags ==
    /\ word # <<>> /\ word' = <<>> /\ writes' = Tail(writes)
    /\ err' = IF Head(writes)[2] THEN word[1] \cup {Head(writes)[1]}
                                 ELSE word[1] \ {Head(writes)[1]}
    /\ UNCHANGED <<read, check, alarmVars, out, paraVars>>

error_state_upgrade == Evaluate \/ LoadFlags \/ StoreFlags

----------------------------------------------------------------------------
Value == [target |-> read.target.temp, internal |-> read.internal,
          decay |-> read.att]

\* Mutant: the alarm ends as soon as the threshold is no longer reached.
HysteresisNone(a) == Value[a] >= On[a]

Hysteresis(a) ==
    \/ Value[a] >= On[a]
    \/ active[a] /\ ~(Value[a] <= On[a] - Dead[a])

\* Mutant: every contact is taken for a normally open one.
RelayStateOpen(m, act) == \E a \in Watched(m) : act[a]

RelayState(m, act) == (m \in Closed) # (\E a \in Watched(m) : act[a])

alarm_task ==
    /\ Idle /\ active' = [a \in Alarms |-> Hysteresis(a)]
    /\ relay' = RelayState(mode, active')
    /\ UNCHANGED <<read, errVars, out, paraVars>>

\* The commands CT and RA, from a task that sample_task preempts or that
\* preempts the agent.
SetPara ==
    /\ setTemp' \in SetTemps /\ mode' \in Modes /\ paraVars' # paraVars
    /\ UNCHANGED <<read, errVars, alarmVars, out>>

Init ==
    /\ read = [target |-> [volt |-> "zero", range |-> 0, temp |-> 0],
               internal |-> 0, att |-> 0]
    /\ err = Flags /\ check = 1 /\ writes = <<>> /\ word = <<>>
    /\ active = [a \in Alarms |-> FALSE] /\ relay = FALSE /\ out = "none"
    /\ setTemp \in SetTemps /\ mode \in Modes

Next == sample_task \/ error_state_upgrade \/ alarm_task \/ SetPara

(***************************************************************************)
(* A light that can be measured is measured again and again (Gain!Settles  *)
(* ends the changes of the range), about fifty times a second, while       *)
(* error_state_upgrade takes microseconds once a second: not all passes    *)
(* fall into one.  The timer posts service_task and alarm_task for ever to *)
(* an agent that calls them in turn.                                       *)
(***************************************************************************)
Fairness ==
    SF_vars(Idle /\ Measure) /\ WF_vars(error_state_upgrade) /\ SF_vars(alarm_task)

Spec == Init /\ [][Next]_vars /\ Fairness

----------------------------------------------------------------------------
\* Every variable has its type; in particular error_state_upgrade makes its
\* three checks and the error word holds flags of err_table only.
TypeOK ==
    /\ read.target \in Targets \cup [volt : {"zero"}, range : {0}, temp : {0}]
    /\ read.internal \in Internals /\ read.att \in Atts
    /\ err \subseteq Flags /\ check \in 1..3
    /\ writes \in Seq(Flags \X BOOLEAN) /\ word \in {<<>>} \cup {<<w>> : w \in SUBSET Flags}
    /\ active \in [Alarms -> BOOLEAN] /\ relay \in BOOLEAN
    /\ out \in {"none", "temp", "max", "min"}
    /\ setTemp \in SetTemps /\ mode \in Modes

\* A target in the range, with little attenuation.
Normal == read.target.range = 0 /\ read.target.temp # 0 /\ read.att <= DecayRate

(***************************************************************************)
(* The analogue output ends up saying what is measured, whatever updates   *)
(* of the error word sample_task and error_state_upgrade take from each    *)
(* other: with the heater off, a target in the range is shown by its       *)
(* temperature, a weak one by the lower error current, and one above it    *)
(* by the upper one again and again: error_state_upgrade clears that flag, *)
(* and the pass after may be given up (anolog_output, get_temp).           *)
(***************************************************************************)
OutputFollows ==
    /\ <>[](Normal /\ setTemp = 0) => <>[](out = "temp")
    /\ <>[](read.target.range > 0 /\ setTemp = 0) => []<>(out = "max")
    /\ <>[](read.target.range < 0 /\ read.target.volt # "zero" /\ setTemp = 0)
           => <>[](out = "min")

\* The relay mode is no longer changed by a command.
ModeStays == <>[][mode' = mode]_vars

(***************************************************************************)
(* The relay does not chatter: once its mode stays, and the readings that  *)
(* it watches stay above the end of their dead bands for ever, however     *)
(* often they cross the threshold itself, it ends up in one position       *)
(* (alarm_task).                                                           *)
(***************************************************************************)
RelaySettles ==
    ModeStays /\ <>[](\A a \in Watched(mode) : Value[a] > On[a] - Dead[a])
        => <>[]relay \/ <>[]~relay

(***************************************************************************)
(* A target that stays above its alarm threshold, inside the range of the  *)
(* device, ends up in an alarm in a mode that watches the target, whatever *)
(* the internal temperature does to its own alarm, in the same mode or in  *)
(* the modes selected before (alarm_task).  A target above the range is    *)
(* reported as 0 (measure.c:297) and is excluded: its alarm drops out.     *)
(***************************************************************************)
AlarmRises ==
    ModeStays /\ <>[]("target" \in Watched(mode) /\ Value["target"] >= On["target"])
        => <>[](relay = (mode \notin Closed))

\* With no error the current shows the temperature: the comment at
\* analogout.c:76, with the heater at whatever temperature it is set to.
NormalOutput ==
    <>[](Normal /\ read.internal \in (setTemp - 20)..80) => <>[](out = "temp")
=============================================================================
