----------------------------- MODULE GainProofs -----------------------------
(***************************************************************************)
(* Theorems about the measurement and what is made of it: Gain, for every  *)
(* light, sensitivity, threshold and number of samples, and at the end     *)
(* Outputs, for every set of readings, alarm threshold and relay mode.     *)
(***************************************************************************)
EXTENDS Gain, Sequences, TLAPS

Counts == [CntFlags -> 0 .. CntThod - 1]
Lefts  == [Moves -> 0 .. Discard]
Sws    == [flag : BOOLEAN, left : Lefts]

\* The records that gain_switch_process works on.
States == [now : [Ch -> Gains], hw : [Ch -> Gains], cnt : [Ch -> Counts],
           sw : [Ch -> Sws], stop : BOOLEAN]

\* The samples of a channel that are still to be replaced.
Total(l) == l["gl_to_gm"] + l["gm_to_gh"] + l["gh_to_gm"] + l["gm_to_gl"]

(***************************************************************************)
(* As long as no command has come: switch and factor agree, the voltages   *)
(* of the pass under way were converted at the present ranges, and the     *)
(* passes fed since the last switch and the samples still to be replaced   *)
(* together are enough for the switch to settle.                           *)
(***************************************************************************)
Agree == hw = now /\ (pass # <<>> => \A c \in Ch : pass[c].at = hw[c])
Settling == \A c \in Ch : since[c] + Total(sw[c].left) >= Discard
FedRight ==
    \A c \in Ch : fed[c] # "misscaled" /\ (fed[c] = "measured" => since[c] > Discard)
Quiet == cmds = 0 => Agree /\ Settling /\ FedRight

----------------------------------------------------------------------------
(***************************************************************************)
(* The operators.                                                          *)
(***************************************************************************)

\* A voltage is on the converter's scale.
LEMMA VoltType ==
    ASSUME NEW c \in Ch, NEW l \in Lights, NEW g \in Gains
    PROVE  Volt(c, l, g) \in 0 .. Full
<1>1. l \in Nat /\ Sens[c] \in Nat /\ Full \in Nat /\ K \in Nat
  BY GainAssumption
<1>2. K * K \in Nat
  BY <1>1, SMT
<1>3. Amp(g) \in Nat
  BY <1>1, <1>2 DEF Amp
<1>4. l * Sens[c] \in Nat
  BY <1>1, SMT
<1>5. ASSUME NEW a \in Nat, NEW b \in Nat PROVE a * b \in Nat
  BY SMT
<1>6. l * Sens[c] * Amp(g) \in Nat
  BY <1>3, <1>4, <1>5
<1> QED
  BY <1>1, <1>6 DEF Volt

\* No sample is left over a fresh start.
LEMMA NothingYet == NoCount \in Counts /\ NoMove \in Lefts /\ Total(NoMove) = 0
<1>1. 0 \in 0 .. CntThod - 1 /\ 0 \in 0 .. Discard
  BY GainAssumption
<1> QED
  BY <1>1 DEF NoCount, NoMove, Counts, Lefts, Total, Moves

\* A switch sets enough samples to be replaced.
LEMMA TotalSet ==
    ASSUME NEW l \in Lefts, NEW m \in Moves
    PROVE  /\ [l EXCEPT ![m] = Discard] \in Lefts
           /\ Total([l EXCEPT ![m] = Discard]) >= Discard
<1>1. Discard \in Nat
  BY GainAssumption
<1>2. CASE m = "gl_to_gm"
  BY <1>1, <1>2 DEF Lefts, Total, Moves
<1>3. CASE m = "gm_to_gh"
  BY <1>1, <1>3 DEF Lefts, Total, Moves
<1>4. CASE m = "gh_to_gm"
  BY <1>1, <1>4 DEF Lefts, Total, Moves
<1>5. CASE m = "gm_to_gl"
  BY <1>1, <1>5 DEF Lefts, Total, Moves
<1> QED
  BY <1>2, <1>3, <1>4, <1>5 DEF Moves

\* gain_temp_insert takes one of them.
LEMMA TotalTake ==
    ASSUME NEW l \in Lefts, l # NoMove
    PROVE  LET k == [l EXCEPT ![Replaced(l)] = @ - 1]
           IN  k \in Lefts /\ Total(k) = Total(l) - 1
<1>1. Discard \in Nat
  BY GainAssumption
<1>2. CASE l["gl_to_gm"] # 0
  BY <1>1, <1>2 DEF Lefts, Total, Moves, Replaced
<1>3. CASE l["gl_to_gm"] = 0 /\ l["gm_to_gh"] # 0
  BY <1>1, <1>3 DEF Lefts, Total, Moves, Replaced
<1>4. CASE l["gl_to_gm"] = 0 /\ l["gm_to_gh"] = 0 /\ l["gh_to_gm"] # 0
  BY <1>1, <1>4 DEF Lefts, Total, Moves, Replaced
<1>5. CASE l["gl_to_gm"] = 0 /\ l["gm_to_gh"] = 0 /\ l["gh_to_gm"] = 0
  <2>1. l["gm_to_gl"] # 0
    <3>1. SUFFICES ASSUME l["gm_to_gl"] = 0 PROVE FALSE
      OBVIOUS
    <3>2. \A m \in Moves : l[m] = 0
      BY <1>5, <3>1 DEF Moves
    <3>3. l = [m \in Moves |-> 0]
      BY <3>2 DEF Lefts
    <3> QED
      BY <3>3 DEF NoMove
  <2> QED
    BY <1>1, <1>5, <2>1 DEF Lefts, Total, Moves, Replaced
<1> QED
  BY <1>2, <1>3, <1>4, <1>5

LEMMA TotalType ==
    ASSUME NEW l \in Lefts
    PROVE  Total(l) \in Nat
<1>1. Discard \in Nat
  BY GainAssumption
<1> QED
  BY <1>1 DEF Lefts, Total, Moves

----------------------------------------------------------------------------
(***************************************************************************)
(* A decision on the range of channel c, from s to t.                      *)
(***************************************************************************)

\* Only the range and the counters of c change, and switch and factor
\* together.
Decides(s, t, c) ==
    /\ t \in States /\ t.sw = s.sw /\ t.stop = s.stop
    /\ \A d \in Ch \ {c} : t.now[d] = s.now[d] /\ t.hw[d] = s.hw[d]
    /\ s.hw = s.now => t.hw = t.now

LEMMA SetDecides ==
    ASSUME NEW s \in States, NEW c \in Ch, NEW g \in Gains
    PROVE  Decides(s, gain_set(s, c, g), c)
<1> DEFINE h == [s EXCEPT !.hw = [s.hw EXCEPT ![c] = g]]
           t == [h EXCEPT !.now = [h.now EXCEPT ![c] = g]]
<1>1. h \in States /\ h.hw = [s.hw EXCEPT ![c] = g] /\ h.now = s.now
      /\ h.sw = s.sw /\ h.stop = s.stop
  BY DEF States
<1>2. gain_set(s, c, g) = t
  BY DEF gain_set, States
<1> HIDE DEF h
<1>3. t \in States /\ t.now = [h.now EXCEPT ![c] = g] /\ t.hw = h.hw
      /\ t.sw = h.sw /\ t.stop = h.stop
  BY <1>1 DEF States
<1>4. s.now \in [Ch -> Gains] /\ s.hw \in [Ch -> Gains]
  BY DEF States
<1> HIDE DEF t
<1>5. /\ \A d \in Ch \ {c} : t.now[d] = s.now[d] /\ t.hw[d] = s.hw[d]
      /\ s.hw = s.now => t.hw = t.now
  BY <1>1, <1>3, <1>4
<1> QED
  BY <1>1, <1>2, <1>3, <1>5 DEF Decides

\* Writing the counters of a channel.
LEMMA CountDecides ==
    ASSUME NEW s \in States, NEW c \in Ch, NEW k \in Counts
    PROVE  LET t == [s EXCEPT !.cnt[c] = k]
           IN  /\ t \in States /\ t.sw = s.sw /\ t.stop = s.stop
               /\ t.now = s.now /\ t.hw = s.hw
<1> DEFINE t == [s EXCEPT !.cnt[c] = k]
<1>1. /\ t.now = s.now /\ t.hw = s.hw /\ t.sw = s.sw /\ t.stop = s.stop
      /\ t.cnt = [s.cnt EXCEPT ![c] = k]
      /\ t = [now |-> t.now, hw |-> t.hw, cnt |-> t.cnt, sw |-> t.sw, stop |-> t.stop]
  BY DEF States
<1>2. s.cnt \in [Ch -> Counts] /\ s.now \in [Ch -> Gains] /\ s.hw \in [Ch -> Gains]
      /\ s.sw \in [Ch -> Sws] /\ s.stop \in BOOLEAN
  BY DEF States
<1> HIDE DEF t
<1>3. t.cnt \in [Ch -> Counts]
  BY <1>1, <1>2
<1>4. t \in States
  BY <1>1, <1>2, <1>3 DEF States
<1>5. t \in States /\ t.sw = s.sw /\ t.stop = s.stop /\ t.now = s.now /\ t.hw = s.hw
  BY <1>1, <1>4
<1> QED
  BY <1>5 DEF t

\* A sample that asks for the range g.
LEMMA AsksDecides ==
    ASSUME NEW s \in States, NEW c \in Ch, NEW f \in CntFlags, NEW g \in Gains
    PROVE  Decides(s, Asks(s, c, f, g), c)
<1>1. s.cnt[c][f] \in 0 .. CntThod - 1 /\ CntThod \in Nat
  BY GainAssumption DEF States, Counts
<1>2. CASE s.cnt[c][f] + 1 >= CntThod
  <2> DEFINE u == gain_set(s, c, g)
  <2>1. Decides(s, u, c)
    BY SetDecides
  <2>2. Asks(s, c, f, g) = [u EXCEPT !.cnt[c] = NoCount]
    BY <1>2 DEF Asks
  <2> HIDE DEF u
  <2>3. u \in States
    BY <2>1 DEF Decides
  <2>4. /\ Asks(s, c, f, g) \in States /\ Asks(s, c, f, g).sw = u.sw
        /\ Asks(s, c, f, g).stop = u.stop /\ Asks(s, c, f, g).now = u.now
        /\ Asks(s, c, f, g).hw = u.hw
    BY <2>2, <2>3, NothingYet, CountDecides
  <2> QED
    BY <2>1, <2>4 DEF Decides
<1>3. CASE ~(s.cnt[c][f] + 1 >= CntThod)
  <2> DEFINE k == [NoCount EXCEPT ![f] = s.cnt[c][f] + 1]
  <2>1. s.cnt[c][f] + 1 \in 0 .. CntThod - 1
    BY <1>1, <1>3
  <2>2. k \in Counts
    BY <2>1, NothingYet DEF Counts
  <2>3. Asks(s, c, f, g) = [s EXCEPT !.cnt[c] = k]
    BY <1>3 DEF Asks
  <2> HIDE DEF k
  <2>4. /\ Asks(s, c, f, g) \in States /\ Asks(s, c, f, g).sw = s.sw
        /\ Asks(s, c, f, g).stop = s.stop /\ Asks(s, c, f, g).now = s.now
        /\ Asks(s, c, f, g).hw = s.hw
    BY <2>2, <2>3, CountDecides
  <2> QED
    BY <2>4 DEF Decides
<1> QED
  BY <1>2, <1>3

LEMMA AutoDecides ==
    ASSUME NEW s \in States, NEW c \in Ch, NEW v
    PROVE  Decides(s, tiag_auto_switch(s, c, v), c)
<1>1. "UP_L" \in CntFlags /\ "UP_M" \in CntFlags /\ "DOWN_M" \in CntFlags
      /\ "DOWN_H" \in CntFlags
  BY DEF CntFlags
<1>2. GAIN_L \in Gains /\ GAIN_M \in Gains /\ GAIN_H \in Gains
  BY DEF GAIN_L, GAIN_M, GAIN_H, Gains
<1>3. \A f \in CntFlags, g \in Gains : Decides(s, Asks(s, c, f, g), c)
  BY AsksDecides
<1>4. Decides(s, s, c)
  BY DEF Decides
<1>5. \/ tiag_auto_switch(s, c, v) = Asks(s, c, "UP_L", GAIN_M)
      \/ tiag_auto_switch(s, c, v) = Asks(s, c, "UP_M", GAIN_H)
      \/ tiag_auto_switch(s, c, v) = Asks(s, c, "DOWN_M", GAIN_L)
      \/ tiag_auto_switch(s, c, v) = Asks(s, c, "DOWN_H", GAIN_M)
      \/ tiag_auto_switch(s, c, v) = s
  BY DEF tiag_auto_switch
<1> QED
  BY <1>1, <1>2, <1>3, <1>4, <1>5

LEMMA SwitchDecides ==
    ASSUME NEW s \in States, NEW c \in Ch
    PROVE  Decides(s, tiag_switch(s, c), c)
<1>1. s.now[c] \in Gains
  BY DEF States
<1> QED
  BY <1>1, AutoDecides, SetDecides DEF tiag_switch

----------------------------------------------------------------------------
(***************************************************************************)
(* gain_switch_process, from the record s to e: switch and factor stay     *)
(* together, a pass that goes on changes no range, and a range that does   *)
(* change leaves enough samples to be replaced.                            *)
(***************************************************************************)
Examines(s, e) ==
    /\ e \in States
    /\ s.hw = s.now => e.hw = e.now
    /\ ~e.stop => e.now = s.now
    /\ \A d \in Ch : IF e.now[d] = s.now[d] THEN e.sw[d].left = s.sw[d].left
                     ELSE Total(e.sw[d].left) >= Discard

\* The pass ends after channel c, whose samples to replace are written.
Stopped(t, c, r) == [t EXCEPT !.stop = TRUE, !.sw[c] = r]

LEMMA StopType ==
    ASSUME NEW t \in States, NEW c \in Ch, NEW r \in Sws
    PROVE  /\ Stopped(t, c, r) \in States /\ Stopped(t, c, r).stop
           /\ Stopped(t, c, r).now = t.now /\ Stopped(t, c, r).hw = t.hw
           /\ Stopped(t, c, r).sw[c] = r
           /\ \A d \in Ch \ {c} : Stopped(t, c, r).sw[d] = t.sw[d]
<1> DEFINE a == [t EXCEPT !.stop = TRUE]
           b == [a EXCEPT !.sw = [a.sw EXCEPT ![c] = r]]
<1>1. Stopped(t, c, r) = b
  BY DEF States, Stopped
<1>2. a \in States /\ a.stop /\ a.now = t.now /\ a.hw = t.hw /\ a.sw = t.sw
  BY DEF States
<1> HIDE DEF a
<1>3. b \in States /\ b.stop /\ b.now = a.now /\ b.hw = a.hw /\ b.sw = [a.sw EXCEPT ![c] = r]
  BY <1>2 DEF States
<1> HIDE DEF b
<1>4. a.sw \in [Ch -> Sws]
  BY <1>2 DEF States
<1>5. b.sw[c] = r /\ \A d \in Ch \ {c} : b.sw[d] = t.sw[d]
  BY <1>2, <1>3, <1>4
<1> QED
  BY <1>1, <1>2, <1>3, <1>5

LEMMA ExamineGood ==
    ASSUME NEW s \in States, NEW c \in Ch
    PROVE  Examines(s, Examine(s, c))
<1> DEFINE t == tiag_switch(s, c)
           r == Announced(t.sw[c].left, s.now[c], t.now[c])
           e == Stopped(t, c, r)
<1>1. Decides(s, t, c)
  BY SwitchDecides
<1>2. Examine(s, c) = IF t.now[c] = s.now[c] /\ ~s.sw[c].flag THEN t ELSE e
  <2>1. t \in States
    BY <1>1 DEF Decides
  <2> HIDE DEF t
  <2>2. [t EXCEPT !.stop = TRUE, !.sw[c] = Announced(@.left, s.now[c], t.now[c])] = e
    BY <2>1 DEF States, Stopped
  <2> QED
    BY <2>2 DEF Examine, t
<1> HIDE DEF t
<1>3. /\ t \in States /\ t.sw = s.sw /\ (s.hw = s.now => t.hw = t.now)
      /\ \A d \in Ch \ {c} : t.now[d] = s.now[d]
  BY <1>1 DEF Decides
<1>4. t.now \in [Ch -> Gains] /\ s.now \in [Ch -> Gains] /\ t.sw[c].left \in Lefts
  BY <1>3 DEF States, Sws
<1>5. CASE t.now[c] = s.now[c] /\ ~s.sw[c].flag
  <2>1. Examine(s, c) = t /\ t.now = s.now
    BY <1>2, <1>3, <1>4, <1>5
  <2> QED
    BY <1>3, <2>1 DEF Examines
<1>6. CASE ~(t.now[c] = s.now[c] /\ ~s.sw[c].flag)
  <2>1. Move(s.now[c], t.now[c]) \in Moves
    BY DEF Move, Moves
  <2>2. r \in Sws /\ (t.now[c] # s.now[c] => Total(r.left) >= Discard)
        /\ (t.now[c] = s.now[c] => r.left = t.sw[c].left)
    BY <1>4, <2>1, TotalSet DEF Announced, Sws
  <2> HIDE DEF r
  <2>3. /\ e \in States /\ e.stop /\ e.now = t.now /\ e.hw = t.hw
        /\ e.sw[c] = r /\ \A d \in Ch \ {c} : e.sw[d] = t.sw[d]
    BY <1>3, <2>2, StopType
  <2> HIDE DEF e
  <2>4. Examine(s, c) = e
    BY <1>2, <1>6
  <2>5. \A d \in Ch : IF e.now[d] = s.now[d] THEN e.sw[d].left = s.sw[d].left
                      ELSE Total(e.sw[d].left) >= Discard
    BY <1>3, <2>2, <2>3
  <2> QED
    BY <1>3, <2>3, <2>4, <2>5 DEF Examines
<1> QED
  BY <1>5, <1>6

\* One channel after the other.
LEMMA ProcessGood ==
    ASSUME NEW s \in States,
           s = [now |-> now, hw |-> hw, cnt |-> cnt, sw |-> sw, stop |-> FALSE]
    PROVE  Examines(s, gain_switch_process)
<1> DEFINE w == Examine(s, "WB")
<1>1. Examines(s, w)
  BY ExamineGood DEF Ch
<1>2. gain_switch_process = IF w.stop THEN w ELSE Examine(w, "NB")
  BY DEF gain_switch_process
<1> HIDE DEF w
<1>3. CASE w.stop
  BY <1>1, <1>2, <1>3
<1>4. CASE ~w.stop
  <2> DEFINE n == Examine(w, "NB")
  <2>1. w \in States
    BY <1>1 DEF Examines
  <2>2. Examines(w, n)
    BY <2>1, ExamineGood DEF Ch
  <2> HIDE DEF n
  <2>3. Examines(s, n)
    BY <1>1, <1>4, <2>2 DEF Examines
  <2> QED
    BY <1>2, <1>4, <2>3 DEF n
<1> QED
  BY <1>3, <1>4

----------------------------------------------------------------------------
(***************************************************************************)
(* The types.                                                              *)
(***************************************************************************)
Passes == {<<>>} \cup [Ch -> [raw : 0 .. Full, at : Gains]]
Feds == {"none", "measured", "inserted", "misscaled", "undefined"}

\* TypeOK with the names used here.
LEMMA TypeParts ==
    TypeOK <=> /\ light \in Lights /\ hw \in [Ch -> Gains] /\ now \in [Ch -> Gains]
               /\ mode \in {"AUTO", "CMD"} /\ cnt \in [Ch -> Counts]
               /\ sw \in [Ch -> Sws] /\ hist \in [Ch -> 0 .. HistSize]
               /\ pass \in Passes /\ started \in BOOLEAN /\ warm \in BOOLEAN
               /\ cmds \in 0 .. MaxCmds /\ since \in [Ch -> 0 .. Discard + 1]
               /\ fed \in [Ch -> Feds]
  BY DEF TypeOK, Counts, Sws, Lefts, Passes, Feds

\* The record gain_switch_process starts from.
Now == [now |-> now, hw |-> hw, cnt |-> cnt, sw |-> sw, stop |-> FALSE]

\* Where a pass of temp_task gets to: the switch, or only the start.
LEMMA PassGood ==
    ASSUME TypeOK, temp_task
    PROVE  \E s \in States :
              /\ Examines(Now, s)
              /\ hw' = s.hw /\ now' = s.now /\ cnt' = s.cnt /\ sw' = s.sw
              /\ pass' = IF s.stop THEN <<>>
                         ELSE [c \in Ch |-> [raw |-> Volt(c, light, hw[c]), at |-> hw[c]]]
              /\ since' = [c \in Ch |-> IF cmds = 0 /\ s.hw[c] # hw[c] THEN 0 ELSE since[c]]
<1>1. Now \in States
  BY TypeParts DEF Now, States
<1>2. Examines(Now, gain_switch_process)
  BY <1>1, ProcessGood DEF Now
<1> DEFINE o == [now |-> now, hw |-> hw, cnt |-> cnt, sw |-> sw, stop |-> TRUE]
<1>3. Examines(Now, o)
  BY TypeParts DEF Examines, Now, States
<1>4. Examines(Now, IF started THEN gain_switch_process ELSE o)
  BY <1>2, <1>3
<1> DEFINE s == IF started THEN gain_switch_process ELSE o
<1>5. s \in States
  BY <1>4 DEF Examines
<1>6. /\ hw' = s.hw /\ now' = s.now /\ cnt' = s.cnt /\ sw' = s.sw
      /\ pass' = IF s.stop THEN <<>>
                 ELSE [c \in Ch |-> [raw |-> Volt(c, light, hw[c]), at |-> hw[c]]]
      /\ since' = [c \in Ch |-> IF cmds = 0 /\ s.hw[c] # hw[c] THEN 0 ELSE since[c]]
  BY DEF temp_task
<1> HIDE DEF s
<1>7. Examines(Now, s)
  BY <1>4 DEF s
<1> QED
  BY <1>5, <1>6, <1>7

\* volt_normalization takes a sample to replace of every channel that has one.
Taken(c) ==
    IF Inserts(c) THEN [sw[c] EXCEPT !.left[Replaced(sw[c].left)] = @ - 1] ELSE sw[c]

LEMMA TakenGood ==
    ASSUME TypeOK, NEW c \in Ch
    PROVE  /\ Taken(c) \in Sws
           /\ IF Inserts(c) THEN Total(Taken(c).left) = Total(sw[c].left) - 1
              ELSE Taken(c) = sw[c] /\ Total(sw[c].left) = 0
<1>1. sw[c] \in Sws /\ sw[c].left \in Lefts
  BY TypeParts DEF Sws
<1>2. CASE Inserts(c)
  <2> DEFINE k == [sw[c].left EXCEPT ![Replaced(sw[c].left)] = @ - 1]
  <2>1. k \in Lefts /\ Total(k) = Total(sw[c].left) - 1
    BY <1>1, <1>2, TotalTake DEF Inserts
  <2>2. Taken(c) = [sw[c] EXCEPT !.left = k]
    BY <1>1, <1>2 DEF Taken, Sws
  <2> HIDE DEF k
  <2>3. Taken(c) \in Sws /\ Taken(c).left = k
    BY <1>1, <2>1, <2>2 DEF Sws
  <2> QED
    BY <1>2, <2>1, <2>3
<1>3. CASE ~Inserts(c)
  BY <1>1, <1>3, NothingYet DEF Taken, Inserts
<1> QED
  BY <1>2, <1>3

\* What a start leaves.
LEMMA StartGood ==
    ASSUME NEW g \in [Ch -> Gains], NEW w \in BOOLEAN
    PROVE  /\ Start(g, w).hw = g /\ Start(g, w).now = g /\ Start(g, w).mode = "AUTO"
           /\ Start(g, w).cnt \in [Ch -> Counts] /\ Start(g, w).sw \in [Ch -> Sws]
           /\ Start(g, w).hist \in [Ch -> 0 .. HistSize] /\ Start(g, w).pass = <<>>
           /\ Start(g, w).started = FALSE /\ Start(g, w).warm = w
           /\ Start(g, w).fed = [c \in Ch |-> "none"]
           /\ Start(g, w).since = [c \in Ch |-> Discard + 1] /\ Start(g, w).cmds = 0
<1>1. 0 \in 0 .. HistSize
  BY GainAssumption
<1>2. [c \in Ch |-> NoCount] \in [Ch -> Counts]
  BY NothingYet
<1>3. [flag |-> FALSE, left |-> NoMove] \in Sws
  BY NothingYet DEF Sws
<1>4. [c \in Ch |-> [flag |-> FALSE, left |-> NoMove]] \in [Ch -> Sws]
  BY <1>3
<1>5. [c \in Ch |-> 0] \in [Ch -> 0 .. HistSize]
  BY <1>1
<1> QED
  BY <1>2, <1>4, <1>5 DEF Start

\* A state in which the variables are those of a start.
Fresh ==
    /\ light \in Lights /\ hw \in [Ch -> Gains] /\ now = hw /\ mode = "AUTO"
    /\ cnt \in [Ch -> Counts] /\ sw \in [Ch -> Sws] /\ hist \in [Ch -> 0 .. HistSize]
    /\ pass = <<>> /\ started = FALSE /\ warm \in BOOLEAN
    /\ fed = [c \in Ch |-> "none"] /\ since = [c \in Ch |-> Discard + 1] /\ cmds = 0

LEMMA FreshGood == Fresh => TypeOK /\ Quiet
<1> SUFFICES ASSUME Fresh PROVE TypeOK /\ Quiet
  OBVIOUS
<1>1. Discard \in Nat /\ 0 \in 0 .. MaxCmds
  BY GainAssumption
<1>2. since \in [Ch -> 0 .. Discard + 1] /\ fed \in [Ch -> Feds] /\ pass \in Passes
  BY <1>1 DEF Fresh, Feds, Passes
<1>3. TypeOK
  BY <1>1, <1>2, TypeParts DEF Fresh
<1>4. \A c \in Ch : Total(sw[c].left) \in Nat
  BY TotalType DEF Fresh, Sws
<1>5. Agree /\ Settling /\ FedRight
  BY <1>1, <1>4 DEF Fresh, Agree, Settling, FedRight
<1> QED
  BY <1>3, <1>5 DEF Quiet

LEMMA InitGood == Init => TypeOK /\ Quiet
<1> SUFFICES ASSUME Init PROVE Fresh
  BY FreshGood
<1> DEFINE g == [c \in Ch |-> GAIN_H]
           s == Start(g, FALSE)
<1>1. g \in [Ch -> Gains]
  BY DEF GAIN_H, GAIN_L, Gains
<1>2. /\ light \in Lights
      /\ hw = s.hw /\ now = s.now /\ mode = s.mode /\ cnt = s.cnt /\ sw = s.sw
      /\ hist = s.hist /\ pass = s.pass /\ started = s.started /\ warm = s.warm
      /\ fed = s.fed /\ since = s.since /\ cmds = s.cmds
  BY DEF Init
<1> HIDE DEF g
<1>3. /\ s.hw = g /\ s.now = g /\ s.mode = "AUTO"
      /\ s.cnt \in [Ch -> Counts] /\ s.sw \in [Ch -> Sws]
      /\ s.hist \in [Ch -> 0 .. HistSize] /\ s.pass = <<>>
      /\ s.started = FALSE /\ s.warm = FALSE
      /\ s.fed = [c \in Ch |-> "none"]
      /\ s.since = [c \in Ch |-> Discard + 1] /\ s.cmds = 0
  BY <1>1, StartGood
<1> HIDE DEF s
<1> QED
  BY <1>1, <1>2, <1>3 DEF Fresh

LEMMA RestartGood ==
    ASSUME TypeOK, NEW g \in [Ch -> Gains], NEW w \in BOOLEAN, Restart(g, w)
    PROVE  TypeOK' /\ Quiet'
<1> DEFINE s == Start(g, w)
<1>1. /\ light' = light
      /\ hw' = s.hw /\ now' = s.now /\ mode' = s.mode /\ cnt' = s.cnt /\ sw' = s.sw
      /\ hist' = s.hist /\ pass' = s.pass /\ started' = s.started /\ warm' = s.warm
      /\ fed' = s.fed /\ since' = s.since /\ cmds' = s.cmds
  BY DEF Restart
<1>2. /\ s.hw = g /\ s.now = g /\ s.mode = "AUTO"
      /\ s.cnt \in [Ch -> Counts] /\ s.sw \in [Ch -> Sws]
      /\ s.hist \in [Ch -> 0 .. HistSize] /\ s.pass = <<>>
      /\ s.started = FALSE /\ s.warm = w
      /\ s.fed = [c \in Ch |-> "none"]
      /\ s.since = [c \in Ch |-> Discard + 1] /\ s.cmds = 0
  BY StartGood
<1> HIDE DEF s
<1>3. light \in Lights
  BY DEF TypeOK
<1>4. Fresh'
  BY <1>1, <1>2, <1>3 DEF Fresh
<1>5. Fresh' => TypeOK' /\ Quiet'
  BY FreshGood, PTL
<1> QED
  BY <1>4, <1>5

\* TypeParts after a step.
LEMMA TypePartsNext ==
    TypeOK' <=> /\ light' \in Lights /\ hw' \in [Ch -> Gains] /\ now' \in [Ch -> Gains]
                /\ mode' \in {"AUTO", "CMD"} /\ cnt' \in [Ch -> Counts]
                /\ sw' \in [Ch -> Sws] /\ hist' \in [Ch -> 0 .. HistSize]
                /\ pass' \in Passes /\ started' \in BOOLEAN /\ warm' \in BOOLEAN
                /\ cmds' \in 0 .. MaxCmds /\ since' \in [Ch -> 0 .. Discard + 1]
                /\ fed' \in [Ch -> Feds]
  BY DEF TypeOK, Counts, Sws, Lefts, Passes, Feds

----------------------------------------------------------------------------
(***************************************************************************)
(* The steps.                                                              *)
(***************************************************************************)
LEMMA TempTaskGood ==
    ASSUME TypeOK, Quiet, temp_task
    PROVE  TypeOK' /\ Quiet'
<1>1. PICK s \in States :
        /\ Examines(Now, s)
        /\ hw' = s.hw /\ now' = s.now /\ cnt' = s.cnt /\ sw' = s.sw
        /\ pass' = IF s.stop THEN <<>>
                   ELSE [c \in Ch |-> [raw |-> Volt(c, light, hw[c]), at |-> hw[c]]]
        /\ since' = [c \in Ch |-> IF cmds = 0 /\ s.hw[c] # hw[c] THEN 0 ELSE since[c]]
  BY PassGood
<1>2. /\ started' = TRUE /\ fed' = [c \in Ch |-> "none"]
      /\ light' = light /\ mode' = mode /\ hist' = hist /\ warm' = warm /\ cmds' = cmds
  BY DEF temp_task
<1>3. Discard \in Nat
  BY GainAssumption
<1>4. /\ light \in Lights /\ hw \in [Ch -> Gains] /\ now \in [Ch -> Gains]
      /\ sw \in [Ch -> Sws] /\ since \in [Ch -> 0 .. Discard + 1]
  BY TypeParts
<1>5. TypeOK'
  <2>1. hw' \in [Ch -> Gains] /\ now' \in [Ch -> Gains] /\ cnt' \in [Ch -> Counts]
        /\ sw' \in [Ch -> Sws]
    BY <1>1 DEF States
  <2>2. pass' \in Passes
    <3>1. \A c \in Ch : Volt(c, light, hw[c]) \in 0 .. Full /\ hw[c] \in Gains
      BY <1>4, VoltType
    <3>2. [c \in Ch |-> [raw |-> Volt(c, light, hw[c]), at |-> hw[c]]]
            \in [Ch -> [raw : 0 .. Full, at : Gains]]
      BY <3>1
    <3> QED
      BY <1>1, <3>2 DEF Passes
  <2>3. since' \in [Ch -> 0 .. Discard + 1]
    BY <1>1, <1>3, <1>4
  <2>4. fed' \in [Ch -> Feds]
    BY <1>2 DEF Feds
  <2>5. mode \in {"AUTO", "CMD"} /\ hist \in [Ch -> 0 .. HistSize]
        /\ warm \in BOOLEAN /\ cmds \in 0 .. MaxCmds
    BY TypeParts
  <2> QED
    BY <1>2, <1>4, <2>1, <2>2, <2>3, <2>4, <2>5, TypePartsNext
<1>6. ASSUME cmds = 0 PROVE Agree' /\ Settling' /\ FedRight'
  <2>1. Agree /\ Settling
    BY <1>6 DEF Quiet
  <2>2. /\ s.hw = s.now /\ (~s.stop => s.now = now)
        /\ \A d \in Ch : IF s.now[d] = now[d] THEN s.sw[d].left = sw[d].left
                         ELSE Total(s.sw[d].left) >= Discard
    BY <1>1, <2>1 DEF Agree, Examines, Now
  <2>3. Agree'
    <3>1. hw' = now'
      BY <1>1, <2>2
    <3>2. ASSUME pass' # <<>>, NEW c \in Ch PROVE pass'[c].at = hw'[c]
      BY <1>1, <2>1, <2>2, <3>2 DEF Agree
    <3> QED
      BY <3>1, <3>2 DEF Agree
  <2>4. ASSUME NEW c \in Ch PROVE since'[c] + Total(sw'[c].left) >= Discard
    <3>1. hw[c] = now[c] /\ s.hw[c] = s.now[c]
      BY <2>1, <2>2 DEF Agree
    <3>2. CASE s.now[c] = now[c]
      <4>1. since'[c] = since[c] /\ sw'[c].left = sw[c].left
        BY <1>1, <2>2, <3>1, <3>2
      <4> QED
        BY <2>1, <4>1 DEF Settling
    <3>3. CASE s.now[c] # now[c]
      <4>1. since'[c] = 0 /\ Total(sw'[c].left) >= Discard
        BY <1>1, <1>6, <2>2, <3>1, <3>3
      <4>2. sw'[c].left \in Lefts
        BY <1>1 DEF States, Sws
      <4>3. Total(sw'[c].left) \in Nat
        BY <4>2, TotalType
      <4> QED
        BY <1>3, <4>1, <4>3
    <3> QED
      BY <3>2, <3>3
  <2>5. FedRight'
    BY <1>2 DEF FedRight
  <2> QED
    BY <2>3, <2>4, <2>5 DEF Settling
<1>7. Quiet'
  BY <1>2, <1>6 DEF Quiet
<1> QED
  BY <1>5, <1>7

LEMMA NormalizationGood ==
    ASSUME TypeOK, Quiet, volt_normalization
    PROVE  TypeOK' /\ Quiet'
<1>1. /\ pass # <<>> /\ pass' = <<>>
      /\ light' = light /\ hw' = hw /\ now' = now /\ mode' = mode /\ cnt' = cnt
      /\ started' = started /\ warm' = warm /\ cmds' = cmds
  BY DEF volt_normalization
<1>2. Discard \in Nat /\ HistSize \in Nat
  BY GainAssumption
<1>3. /\ sw \in [Ch -> Sws] /\ hist \in [Ch -> 0 .. HistSize]
      /\ since \in [Ch -> 0 .. Discard + 1] /\ fed \in [Ch -> Feds] /\ pass' \in Passes
  BY <1>1, TypeParts DEF Passes
<1>4. CASE sw' = sw /\ hist' = hist /\ fed' = fed /\ since' = since
  <2>1. TypeOK'
    BY <1>1, <1>3, <1>4, TypeParts, TypePartsNext
  <2>2. Quiet'
    BY <1>1, <1>4 DEF Quiet, Agree, Settling, FedRight
  <2> QED
    BY <2>1, <2>2
<1>5. CASE /\ fed' = [c \in Ch |-> IF cmds # 0 THEN "none" ELSE Given(c)]
           /\ sw' = [c \in Ch |-> Taken(c)]
           /\ hist' = [c \in Ch |-> IF hist[c] < HistSize THEN hist[c] + 1 ELSE hist[c]]
           /\ since' = [c \in Ch |-> IF cmds = 0 /\ since[c] <= Discard
                                     THEN since[c] + 1 ELSE since[c]]
  <2>1. TypeOK'
    <3>1. sw' \in [Ch -> Sws]
      BY <1>5, TakenGood
    <3>2. hist' \in [Ch -> 0 .. HistSize] /\ since' \in [Ch -> 0 .. Discard + 1]
      BY <1>2, <1>3, <1>5
    <3>3. fed' \in [Ch -> Feds]
      BY <1>5 DEF Given, Feds
    <3> QED
      BY <1>1, <1>3, <3>1, <3>2, <3>3, TypeParts, TypePartsNext
  <2>2. ASSUME cmds = 0 PROVE Agree' /\ Settling' /\ FedRight'
    <3>1. Agree /\ Settling
      BY <2>2 DEF Quiet
    <3>2. Agree'
      BY <1>1, <3>1 DEF Agree
    <3>3. ASSUME NEW c \in Ch
          PROVE  /\ since'[c] + Total(sw'[c].left) >= Discard
                 /\ fed'[c] # "misscaled" /\ (fed'[c] = "measured" => since'[c] > Discard)
      <4>1. /\ since[c] \in 0 .. Discard + 1 /\ since[c] + Total(sw[c].left) >= Discard
            /\ since'[c] = IF since[c] <= Discard THEN since[c] + 1 ELSE since[c]
            /\ sw'[c] = Taken(c) /\ fed'[c] = Given(c)
        BY <1>3, <1>5, <2>2, <3>1 DEF Settling
      <4>2. sw[c].left \in Lefts
        BY <1>3 DEF Sws
      <4>3. Total(sw[c].left) \in Nat
        BY <4>2, TotalType
      <4>4. Taken(c).left \in Lefts
        BY TakenGood DEF Sws
      <4>5. Total(Taken(c).left) \in Nat
        BY <4>4, TotalType
      <4>6. CASE Inserts(c)
        <5>1. Total(Taken(c).left) = Total(sw[c].left) - 1
          BY <4>6, TakenGood
        <5>2. Given(c) \in {"undefined", "inserted"}
          BY <4>6 DEF Given
        <5> QED
          BY <1>2, <4>1, <4>3, <4>5, <5>1, <5>2
      <4>7. CASE ~Inserts(c)
        <5>1. Taken(c) = sw[c] /\ Total(sw[c].left) = 0
          BY <4>7, TakenGood
        <5>2. pass[c].at = now[c]
          BY <1>1, <3>1 DEF Agree
        <5>3. Given(c) = "measured"
          BY <4>7, <5>2 DEF Given
        <5> QED
          BY <1>2, <4>1, <5>1, <5>3
      <4> QED
        BY <4>6, <4>7
    <3> QED
      BY <3>2, <3>3 DEF Settling, FedRight
  <2>3. Quiet'
    BY <1>1, <2>2 DEF Quiet
  <2> QED
    BY <2>1, <2>3
<1> QED
  BY <1>4, <1>5 DEF volt_normalization, Taken

\* After a command nothing is claimed until the next start.
LEMMA SetGainGood ==
    ASSUME TypeOK, NEW c \in Ch, NEW g \in Gains, SetGain(c, g)
    PROVE  TypeOK' /\ Quiet'
<1> DEFINE m == CASE g = GAIN_L -> "gm_to_gl" [] g = GAIN_M -> "gl_to_gm" [] OTHER -> "gm_to_gh"
           k == [sw[c].left EXCEPT ![m] = Discard]
           a == [sw EXCEPT ![c] = [sw[c] EXCEPT !.flag = TRUE]]
           r == [a[c] EXCEPT !.left = k]
<1>1. /\ sw \in [Ch -> Sws] /\ sw[c] \in Sws /\ sw[c].left \in Lefts /\ m \in Moves
      /\ now \in [Ch -> Gains] /\ cmds \in 0 .. MaxCmds
  BY TypeParts DEF Sws, Moves
<1>2. sw' = [a EXCEPT ![c] = [a[c] EXCEPT !.left = [a[c].left EXCEPT ![m] = Discard]]]
  BY DEF SetGain, Callback
<1>3. [sw[c] EXCEPT !.flag = TRUE] \in Sws /\ [sw[c] EXCEPT !.flag = TRUE].left = sw[c].left
  BY <1>1 DEF Sws
<1>4. a \in [Ch -> Sws] /\ a[c].left = sw[c].left /\ a[c] \in Sws
  BY <1>1, <1>3
<1> HIDE DEF m, a
<1>5. k \in Lefts
  BY <1>1, TotalSet
<1> HIDE DEF k
<1>6. r \in Sws
  BY <1>4, <1>5 DEF Sws
<1>7. sw' \in [Ch -> Sws]
  <2>1. sw' = [a EXCEPT ![c] = r]
    BY <1>2, <1>4 DEF k
  <2> HIDE DEF r
  <2> QED
    BY <1>4, <1>6, <2>1
<1>8. cmds' \in 0 .. MaxCmds /\ cmds' # 0 /\ now' \in [Ch -> Gains]
  BY <1>1, GainAssumption DEF SetGain
<1>9. /\ light' = light /\ hw' = hw /\ mode' = mode /\ cnt' = cnt /\ hist' = hist
      /\ pass' = pass /\ started' = started /\ warm' = warm /\ fed' = fed /\ since' = since
  BY DEF SetGain
<1>10. TypeOK'
  BY <1>7, <1>8, <1>9, TypeParts, TypePartsNext
<1> QED
  BY <1>8, <1>10 DEF Quiet

LEMMA SetModeGood ==
    ASSUME TypeOK, Quiet, NEW m \in {"AUTO", "CMD"}, SetMode(m)
    PROVE  TypeOK' /\ Quiet'
<1>1. TypeOK'
  BY TypeParts, TypePartsNext DEF SetMode
<1>2. Quiet'
  BY DEF SetMode, Quiet, Agree, Settling, FedRight
<1> QED
  BY <1>1, <1>2

LEMMA LightGood ==
    ASSUME TypeOK, Quiet, LightChanges
    PROVE  TypeOK' /\ Quiet'
<1>1. TypeOK'
  BY TypeParts, TypePartsNext DEF LightChanges
<1>2. Quiet'
  BY DEF LightChanges, Quiet, Agree, Settling, FedRight
<1> QED
  BY <1>1, <1>2

LEMMA StutterGood ==
    ASSUME TypeOK, Quiet, UNCHANGED vars
    PROVE  TypeOK' /\ Quiet'
<1>1. TypeOK'
  BY TypeParts, TypePartsNext DEF vars
<1>2. Quiet'
  BY DEF vars, Quiet, Agree, Settling, FedRight
<1> QED
  BY <1>1, <1>2

LEMMA StepGood == TypeOK /\ Quiet /\ [Next]_vars => TypeOK' /\ Quiet'
<1> SUFFICES ASSUME TypeOK, Quiet, [Next]_vars PROVE TypeOK' /\ Quiet'
  OBVIOUS
<1>1. CASE temp_task
  BY <1>1, TempTaskGood
<1>2. CASE volt_normalization
  BY <1>2, NormalizationGood
<1>3. CASE \E c \in CmdCh, g \in Gains : SetGain(c, g)
  BY <1>3, SetGainGood, GainAssumption
<1>4. CASE \E m \in {"AUTO", "CMD"} : SetMode(m)
  BY <1>4, SetModeGood
<1>5. CASE \E g \in [Ch -> Gains], w \in BOOLEAN : Restart(g, w)
  BY <1>5, RestartGood
<1>6. CASE LightChanges
  BY <1>6, LightGood
<1>7. CASE UNCHANGED vars
  BY <1>7, StutterGood
<1> QED
  BY <1>1, <1>2, <1>3, <1>4, <1>5, <1>6, <1>7 DEF Next

----------------------------------------------------------------------------
\* Every variable keeps its type: no counter of tiag_auto_switch passes the
\* threshold and no count of samples to replace is decremented below zero
\* (tiag.c:98-145, measure.c:465-505).
THEOREM TypeCorrect == Spec => []TypeOK
<1> QED
  BY InitGood, StepGood, PTL DEF Spec

\* Without a command the analogue switch is where now_gain says, and every
\* voltage the filter of temp_task takes as measured was converted at the
\* range whose factor scaled it and after Discard samples since the last
\* switch were replaced (measure.c:446-505), for every light and threshold.
THEOREM ScaledCorrect == Spec => []ScaledRight
<1>1. Quiet => ScaledRight
  BY DEF Quiet, Agree, FedRight, ScaledRight
<1> QED
  BY <1>1, InitGood, StepGood, PTL DEF Spec

----------------------------------------------------------------------------
(***************************************************************************)
(* The slope of gain_temp_insert.  After a cold start both channels are in *)
(* the highest range, which they leave only when CntThod samples have      *)
(* asked for it.  Up to the switch every one of these samples has been fed *)
(* to the filter and is in the history, unless volt_normalization gave the *)
(* pass up because of the other channel.                                   *)
(***************************************************************************)

Filled == \A c \in Ch : hist[c] >= 2
Untouched(c) == sw[c] = [flag |-> FALSE, left |-> NoMove]
Recorded(c) ==
    /\ cnt[c]["DOWN_H"] <= hist[c] + (IF pass = <<>> THEN 0 ELSE 1)
    /\ pass # <<>> /\ cnt[c]["DOWN_H"] > hist[c] => \A d \in Ch : pass[d].raw <= Valid
Early ==
    /\ hist["WB"] = hist["NB"]
    /\ \A c \in Ch : now[c] = GAIN_H /\ Untouched(c) /\ Recorded(c)

Cold == ~warm /\ cmds = 0 => (Filled \/ Early) /\ \A c \in Ch : fed[c] # "undefined"

\* From the record s to t, channel c of the highest range stays there, and a
\* sample is counted at most, or it leaves after CntThod samples.
Counted(s, t, c) ==
    /\ t \in States /\ t.now = s.now /\ t.hw = s.hw /\ t.sw = s.sw /\ t.stop = s.stop
    /\ \A d \in Ch \ {c} : t.cnt[d] = s.cnt[d]
    /\ \/ t.cnt[c]["DOWN_H"] = s.cnt[c]["DOWN_H"]
       \/ /\ t.cnt[c]["DOWN_H"] = s.cnt[c]["DOWN_H"] + 1
          /\ Low(Volt(c, light, hw[c]))

LEMMA CountWrites ==
    ASSUME NEW s \in States, NEW c \in Ch, NEW k \in Counts
    PROVE  [s EXCEPT !.cnt[c] = k].cnt = [s.cnt EXCEPT ![c] = k]
  BY DEF States

\* tiag_switch in the highest range.
LEMMA HighSwitch ==
    ASSUME NEW s \in States, NEW c \in Ch, s.now[c] = GAIN_H, s.hw = s.now
    PROVE  \/ Counted(s, tiag_switch(s, c), c)
           \/ s.cnt[c]["DOWN_H"] + 1 >= CntThod
<1>1. /\ s.cnt \in [Ch -> Counts] /\ s.cnt[c]["DOWN_H"] \in 0 .. CntThod - 1
      /\ CntThod \in Nat /\ s.now \in [Ch -> Gains] /\ s.hw \in [Ch -> Gains]
      /\ "DOWN_H" \in CntFlags
  BY GainAssumption DEF States, Counts, CntFlags
<1>2. Counted(s, s, c)
  BY DEF Counted
<1>3. CASE mode = "AUTO" /\ Low(Volt(c, light, hw[c]))
  <2>1. CASE s.cnt[c]["DOWN_H"] + 1 < CntThod
    <3> DEFINE k == [NoCount EXCEPT !["DOWN_H"] = s.cnt[c]["DOWN_H"] + 1]
               t == [s EXCEPT !.cnt[c] = k]
    <3>1. s.cnt[c]["DOWN_H"] + 1 \in 0 .. CntThod - 1
      BY <1>1, <2>1
    <3>2. k \in Counts /\ k["DOWN_H"] = s.cnt[c]["DOWN_H"] + 1
      BY <1>1, <3>1, NothingYet DEF Counts
    <3>3. tiag_switch(s, c) = t
      BY <1>1, <1>3, <2>1 DEF tiag_switch, tiag_auto_switch, Asks, GAIN_L, GAIN_M, GAIN_H
    <3> HIDE DEF k
    <3>4. /\ t \in States /\ t.sw = s.sw /\ t.stop = s.stop /\ t.now = s.now /\ t.hw = s.hw
          /\ t.cnt = [s.cnt EXCEPT ![c] = k]
      BY <3>2, CountDecides, CountWrites
    <3> HIDE DEF t
    <3>5. t.cnt[c] = k /\ \A d \in Ch \ {c} : t.cnt[d] = s.cnt[d]
      BY <1>1, <3>4
    <3>6. Counted(s, t, c)
      BY <1>3, <3>2, <3>4, <3>5 DEF Counted
    <3> QED
      BY <3>3, <3>6
  <2>2. CASE ~(s.cnt[c]["DOWN_H"] + 1 < CntThod)
    BY <1>1, <2>2
  <2> QED
    BY <2>1, <2>2
<1>4. CASE mode = "AUTO" /\ ~Low(Volt(c, light, hw[c]))
  <2>1. tiag_switch(s, c) = s
    BY <1>4 DEF tiag_switch, tiag_auto_switch, GAIN_L, GAIN_M, GAIN_H
  <2> QED
    BY <1>2, <2>1
<1>5. CASE mode # "AUTO"
  <2>1. Decides(s, gain_set(s, c, GAIN_H), c)
    BY SetDecides DEF GAIN_H, GAIN_L, Gains
  <2> DEFINE h == [s EXCEPT !.hw = [s.hw EXCEPT ![c] = GAIN_H]]
             t == [h EXCEPT !.now = [h.now EXCEPT ![c] = GAIN_H]]
  <2>2. [s.hw EXCEPT ![c] = GAIN_H] = s.hw /\ [s.now EXCEPT ![c] = GAIN_H] = s.now
    BY <1>1
  <2>3. h = s
    BY <2>2 DEF States
  <2>4. t = s
    BY <2>2, <2>3 DEF States
  <2>5. tiag_switch(s, c) = t
    BY <1>5 DEF tiag_switch, gain_set, States
  <2> QED
    BY <1>2, <2>4, <2>5
<1> QED
  BY <1>3, <1>4, <1>5

\* The loop of gain_switch_process while both channels are there: either no
\* channel leaves, and the pass goes on, or one has been asked often enough.
LEMMA HighProcess ==
    ASSUME TypeOK, hw = now, \A c \in Ch : now[c] = GAIN_H /\ ~sw[c].flag,
           \A c \in Ch : cnt[c]["DOWN_H"] + 1 < CntThod
    PROVE  /\ ~gain_switch_process.stop
           /\ gain_switch_process.now = now /\ gain_switch_process.hw = hw
           /\ gain_switch_process.sw = sw
           /\ \A c \in Ch :
                 \/ gain_switch_process.cnt[c]["DOWN_H"] = cnt[c]["DOWN_H"]
                 \/ /\ gain_switch_process.cnt[c]["DOWN_H"] = cnt[c]["DOWN_H"] + 1
                    /\ Low(Volt(c, light, hw[c]))
<1> DEFINE s == Now
           w == Examine(s, "WB")
           n == Examine(w, "NB")
<1>1. s \in States
  BY TypeParts DEF Now, States
<1>2. s.now = now /\ s.hw = hw /\ s.cnt = cnt /\ s.sw = sw /\ s.stop = FALSE
  BY DEF Now
<1>3. gain_switch_process = IF w.stop THEN w ELSE n
  BY DEF gain_switch_process, Now
<1> HIDE DEF s
<1>4. \A c \in Ch : cnt[c]["DOWN_H"] \in Nat
  BY TypeParts DEF Counts, CntFlags
<1>5. "WB" \in Ch /\ "NB" \in Ch /\ \A c \in Ch : c = "WB" \/ c = "NB"
  BY DEF Ch
<1>6. Counted(s, w, "WB")
  <2>1. Counted(s, tiag_switch(s, "WB"), "WB")
    BY <1>1, <1>2, <1>4, <1>5, HighSwitch, GainAssumption
  <2>2. w = tiag_switch(s, "WB")
    BY <1>2, <1>5, <2>1 DEF Examine, Counted
  <2> QED
    BY <2>1, <2>2
<1> HIDE DEF w
<1>7. w \in States /\ w.now = now /\ w.hw = hw /\ w.sw = sw /\ ~w.stop /\ w.cnt["NB"] = cnt["NB"]
  BY <1>2, <1>5, <1>6 DEF Counted
<1>8. Counted(w, n, "NB")
  <2>1. Counted(w, tiag_switch(w, "NB"), "NB")
    BY <1>4, <1>5, <1>7, HighSwitch, GainAssumption
  <2>2. n = tiag_switch(w, "NB")
    BY <1>5, <1>7, <2>1 DEF Examine, Counted
  <2> QED
    BY <2>1, <2>2
<1> HIDE DEF n
<1>9. n.now = now /\ n.hw = hw /\ n.sw = sw /\ ~n.stop /\ n.cnt["WB"] = w.cnt["WB"]
  BY <1>5, <1>7, <1>8 DEF Counted
<1>10. \A c \in Ch : \/ n.cnt[c]["DOWN_H"] = cnt[c]["DOWN_H"]
                     \/ /\ n.cnt[c]["DOWN_H"] = cnt[c]["DOWN_H"] + 1
                        /\ Low(Volt(c, light, hw[c]))
  BY <1>2, <1>5, <1>6, <1>7, <1>8, <1>9 DEF Counted
<1> QED
  BY <1>3, <1>7, <1>9, <1>10

\* A pass of temp_task.
LEMMA TempTaskCold ==
    ASSUME CntThod >= 3, Together, TypeOK, Quiet, Cold, temp_task
    PROVE  Cold'
<1>1. /\ pass = <<>> /\ fed' = [c \in Ch |-> "none"]
      /\ hist' = hist /\ warm' = warm /\ cmds' = cmds
  BY DEF temp_task
<1> SUFFICES ASSUME ~warm, cmds = 0
             PROVE  (Filled \/ Early)'
  BY <1>1 DEF Cold
<1>2. Filled \/ Early
  BY DEF Cold
<1>3. CASE Filled
  BY <1>1, <1>3 DEF Filled
<1>4. CASE Early /\ ~Filled
  <2>1. /\ hist["WB"] = hist["NB"]
        /\ \A c \in Ch : now[c] = GAIN_H /\ Untouched(c) /\ cnt[c]["DOWN_H"] <= hist[c]
    <3>1. \A c \in Ch : cnt[c]["DOWN_H"] \in Nat /\ hist[c] \in Nat
      BY TypeParts DEF Counts, CntFlags
    <3> QED
      BY <1>1, <1>4, <3>1 DEF Early, Recorded
  <2>2. \A c \in Ch : hist[c] \in Nat /\ hist[c] < 2 /\ cnt[c]["DOWN_H"] \in Nat
    <3>1. \A c \in Ch : hist[c] \in Nat /\ cnt[c]["DOWN_H"] \in Nat
      BY TypeParts DEF Counts, CntFlags
    <3> QED
      BY <1>4, <2>1, <3>1 DEF Filled, Ch
  <2>3. \A c \in Ch : cnt[c]["DOWN_H"] + 1 < CntThod
    BY <2>1, <2>2, GainAssumption
  <2>4. hw = now
    BY DEF Quiet, Agree
  <2>5. CASE ~started
    <3>1. now' = now /\ cnt' = cnt /\ sw' = sw /\ pass' = <<>>
      BY <2>5 DEF temp_task
    <3> QED
      BY <1>1, <1>4, <3>1 DEF Early, Untouched, Recorded
  <2>6. CASE started
    <3> DEFINE e == gain_switch_process
    <3>1. /\ ~e.stop /\ e.now = now /\ e.hw = hw /\ e.sw = sw
          /\ \A c \in Ch : \/ e.cnt[c]["DOWN_H"] = cnt[c]["DOWN_H"]
                           \/ /\ e.cnt[c]["DOWN_H"] = cnt[c]["DOWN_H"] + 1
                              /\ Low(Volt(c, light, hw[c]))
      BY <2>1, <2>3, <2>4, HighProcess DEF Untouched
    <3>2. /\ now' = e.now /\ cnt' = e.cnt /\ sw' = e.sw
          /\ pass' = IF e.stop THEN <<>>
                     ELSE [c \in Ch |-> [raw |-> Volt(c, light, hw[c]), at |-> hw[c]]]
      BY <2>6 DEF temp_task
    <3> HIDE DEF e
    <3>3. pass' # <<>> /\ \A d \in Ch : pass'[d].raw = Volt(d, light, GAIN_H)
      <4>1. \A d \in Ch : pass'[d].raw = Volt(d, light, hw[d])
        BY <3>1, <3>2
      <4>2. \A d \in Ch : hw[d] = GAIN_H
        BY <2>1, <2>4
      <4>3. "WB" \in Ch
        BY DEF Ch
      <4>4. pass' # <<>>
        BY <3>1, <3>2, <4>3
      <4> QED
        BY <4>1, <4>2, <4>4
    <3>4. ASSUME NEW c \in Ch PROVE Recorded(c)'
      <4>1. \/ cnt'[c]["DOWN_H"] = cnt[c]["DOWN_H"]
            \/ /\ cnt'[c]["DOWN_H"] = cnt[c]["DOWN_H"] + 1
               /\ Low(Volt(c, light, GAIN_H))
        BY <2>1, <2>4, <3>1, <3>2
      <4>2. light \in Lights
        BY TypeParts
      <4>3. cnt'[c]["DOWN_H"] > hist[c] => \A d \in Ch : pass'[d].raw <= Valid
        BY <2>1, <2>2, <3>3, <4>1, <4>2 DEF Together
      <4>4. cnt'[c]["DOWN_H"] <= hist[c] + 1
        BY <2>1, <2>2, <4>1
      <4> QED
        BY <1>1, <3>3, <4>3, <4>4 DEF Recorded
    <3> QED
      BY <1>1, <2>1, <3>1, <3>2, <3>4 DEF Early, Untouched
  <2> QED
    BY <2>5, <2>6
<1> QED
  BY <1>2, <1>3, <1>4

\* The rest of the pass.
LEMMA NormalizationCold ==
    ASSUME TypeOK, Cold, volt_normalization
    PROVE  Cold'
<1>1. /\ pass # <<>> /\ pass' = <<>> /\ now' = now /\ cnt' = cnt /\ warm' = warm /\ cmds' = cmds
  BY DEF volt_normalization
<1> SUFFICES ASSUME ~warm, cmds = 0
             PROVE  (Filled \/ Early)' /\ \A c \in Ch : fed'[c] # "undefined"
  BY <1>1 DEF Cold
<1>2. (Filled \/ Early) /\ \A c \in Ch : fed[c] # "undefined"
  BY DEF Cold
<1>3. \A c \in Ch : hist[c] \in Nat /\ cnt[c]["DOWN_H"] \in Nat
  BY TypeParts DEF Counts, CntFlags
<1>4. HistSize \in Nat /\ HistSize >= 2
  BY GainAssumption
<1>5. CASE \E c \in Ch : pass[c].raw > Valid
  <2>1. sw' = sw /\ hist' = hist /\ fed' = fed
    BY <1>5 DEF volt_normalization
  <2>2. CASE Filled
    BY <1>2, <2>1, <2>2 DEF Filled
  <2>3. CASE Early
    <3>1. \A c \in Ch : cnt[c]["DOWN_H"] <= hist[c]
      <4>1. ~\A d \in Ch : pass[d].raw <= Valid
        <5>1. \A d \in Ch : pass[d].raw \in Int /\ Valid \in Int
          BY <1>1, TypeParts, GainAssumption DEF Passes
        <5> QED
          BY <1>5, <5>1
      <4> QED
        BY <1>1, <1>3, <2>3, <4>1 DEF Early, Recorded
    <3>2. \A c \in Ch : Recorded(c)'
      BY <1>1, <1>3, <2>1, <3>1 DEF Recorded
    <3> QED
      BY <1>1, <1>2, <2>1, <2>3, <3>2 DEF Early, Untouched
  <2> QED
    BY <1>2, <2>2, <2>3
<1>6. CASE ~\E c \in Ch : pass[c].raw > Valid
  <2>1. /\ fed' = [c \in Ch |-> Given(c)]
        /\ sw' = [c \in Ch |-> Taken(c)]
        /\ hist' = [c \in Ch |-> IF hist[c] < HistSize THEN hist[c] + 1 ELSE hist[c]]
    BY <1>6 DEF volt_normalization, Taken
  <2>2. CASE Filled
    <3>1. Filled'
      BY <1>3, <1>4, <2>1, <2>2 DEF Filled
    <3>2. \A c \in Ch : Given(c) # "undefined"
      BY <1>3, <2>2 DEF Filled, Given
    <3> QED
      BY <2>1, <3>1, <3>2
  <2>3. CASE Early /\ ~Filled
    <3>1. \A c \in Ch : hist[c] < 2
      BY <1>3, <2>3 DEF Early, Filled, Ch
    <3>2. \A c \in Ch : hist'[c] = hist[c] + 1
      BY <1>3, <1>4, <2>1, <3>1
    <3>3. \A c \in Ch : ~Inserts(c)
      BY <2>3 DEF Early, Untouched, Inserts
    <3>4. \A c \in Ch : sw'[c] = sw[c]
      BY <2>1, <3>3 DEF Taken
    <3>5. \A c \in Ch : Recorded(c)'
      BY <1>1, <1>3, <2>3, <3>2 DEF Early, Recorded
    <3>6. Early'
      BY <1>1, <2>3, <3>2, <3>4, <3>5 DEF Early, Untouched, Ch
    <3>7. \A c \in Ch : Given(c) # "undefined"
      BY <3>3 DEF Given
    <3> QED
      BY <2>1, <3>6, <3>7
  <2> QED
    BY <1>2, <2>2, <2>3
<1> QED
  BY <1>5, <1>6

\* A start.
Begun ==
    /\ pass = <<>> /\ hist = [c \in Ch |-> 0] /\ cnt = [c \in Ch |-> NoCount]
    /\ sw = [c \in Ch |-> [flag |-> FALSE, left |-> NoMove]]
    /\ fed = [c \in Ch |-> "none"] /\ (~warm => now = [c \in Ch |-> GAIN_H])

LEMMA BegunCold == Begun => Cold
<1> SUFFICES ASSUME Begun PROVE Cold
  OBVIOUS
<1>1. NoCount["DOWN_H"] = 0
  BY DEF NoCount, CntFlags
<1>2. \A c \in Ch : Untouched(c) /\ Recorded(c)
  BY <1>1 DEF Begun, Untouched, Recorded
<1>3. hist["WB"] = hist["NB"]
  BY DEF Begun, Ch
<1> QED
  BY <1>2, <1>3 DEF Begun, Cold, Early

LEMMA InitCold == Init => Cold
<1>1. Init => Begun
  BY DEF Init, Start, Begun
<1> QED
  BY <1>1, BegunCold

LEMMA RestartCold ==
    ASSUME NEW g \in [Ch -> Gains], NEW w \in BOOLEAN, Restart(g, w)
    PROVE  Cold'
<1>1. Begun'
  BY DEF Restart, Start, Begun
<1>2. Begun' => Cold'
  BY BegunCold, PTL
<1> QED
  BY <1>1, <1>2

LEMMA StepCold ==
    ASSUME CntThod >= 3, Together, TypeOK, Quiet, Cold, [Next]_vars
    PROVE  Cold'
<1>1. CASE temp_task
  BY <1>1, TempTaskCold
<1>2. CASE volt_normalization
  BY <1>2, NormalizationCold
<1>3. CASE \E c \in CmdCh, g \in Gains : SetGain(c, g)
  <2>1. cmds' # 0
    BY <1>3, TypeParts DEF SetGain
  <2> QED
    BY <2>1 DEF Cold
<1>4. CASE \E g \in [Ch -> Gains], w \in BOOLEAN : Restart(g, w)
  BY <1>4, RestartCold
<1>5. CASE (\E m \in {"AUTO", "CMD"} : SetMode(m)) \/ LightChanges \/ UNCHANGED vars
  <2>1. UNCHANGED <<now, cnt, sw, hist, pass, warm, fed, cmds>>
    BY <1>5 DEF SetMode, LightChanges, vars
  <2> QED
    BY <2>1 DEF Cold, Filled, Early, Untouched, Recorded
<1> QED
  BY <1>1, <1>2, <1>3, <1>4, <1>5 DEF Next

\* After a cold start without commands the slope of gain_temp_insert is never
\* taken over a history of one entry (measure.c:502), for every number of
\* samples to replace, if cnt_thod is at least its default of 3 (para_cfg.c:77)
\* and no light leaves one channel dark while the other is at the end of the
\* scale: volt_normalization gives up such passes, but they count for the
\* switch.
THEOREM SlopeIsDefined == Spec => [](CntThod >= 3 /\ Together => SlopeDefined)
<1> DEFINE Usual == CntThod >= 3 /\ Together
<1>1. Init => (Usual => Cold)
  BY InitCold
<1>2. TypeOK /\ Quiet /\ (Usual => Cold) /\ [Next]_vars => (Usual => Cold)'
  <2>1. Usual' <=> Usual
    BY DEF Together, Low, Volt, Amp
  <2> QED
    BY <2>1, StepCold
<1>3. (Usual => Cold) => (CntThod >= 3 /\ Together => SlopeDefined)
  BY DEF Cold, SlopeDefined
<1> HIDE DEF Usual
<1> QED
  BY <1>1, <1>2, <1>3, InitGood, StepGood, PTL DEF Spec
----------------------------------------------------------------------------
(***************************************************************************)
(* What the instrument says about a measurement (Outputs).                 *)
(***************************************************************************)

CONSTANTS Temps, Internals, Atts, SetTemps, Alarms, Modes, On, Dead, DecayRate
VARIABLES read, err, check, writes, word, active, relay, out, setTemp, relayMode

Out == INSTANCE Outputs WITH mode <- relayMode

\* A flag that is set at the start and that only HeaterCheck clears, when it
\* finds the heater off.
Sticky == "INTERNAL_HIGH"

Entries == (Out!Flags \ {Sticky}) \X BOOLEAN

\* The flag is set, in the word that error_state_upgrade has loaded too, and
\* no write is under way that clears it.
Stuck ==
    /\ Sticky \in err /\ (word # <<>> => Sticky \in word[1])
    /\ writes \in Seq(Entries) /\ (word # <<>> => writes # <<>>)
    /\ check \in 1..3
    /\ out # "temp"

\* A word with the flag gives one of the error currents.
LEMMA StickyOutput ==
    ASSUME NEW w, Sticky \in w
    PROVE  Out!anolog_output(w) # "temp"
<1> DEFINE I == Out!get_highest_error_index(w)
           i == CHOOSE j \in I : TRUE
<1>1. DOMAIN Out!err_table = 1..7 /\ Out!err_table[4][1] = Sticky
  BY DEF Out!err_table, Sticky
<1>2. I # {}
  <2>1. CASE \E j \in {1, 2, 3} : Out!err_table[j][1] \in w
    <3>1. CASE Out!err_table[1][1] \in w
      <4>1. 1 \in I
        BY <1>1, <3>1 DEF Out!get_highest_error_index
      <4> QED  BY <4>1
    <3>2. CASE Out!err_table[1][1] \notin w /\ Out!err_table[2][1] \in w
      <4>1. 2 \in I
        BY <1>1, <3>2 DEF Out!get_highest_error_index
      <4> QED  BY <4>1
    <3>3. CASE /\ Out!err_table[1][1] \notin w /\ Out!err_table[2][1] \notin w
               /\ Out!err_table[3][1] \in w
      <4>1. 3 \in I
        BY <1>1, <3>3 DEF Out!get_highest_error_index
      <4> QED  BY <4>1
    <3> QED  BY <2>1, <3>1, <3>2, <3>3
  <2>2. CASE \A j \in {1, 2, 3} : Out!err_table[j][1] \notin w
    <3>1. 4 \in I
      BY <1>1, <2>2 DEF Out!get_highest_error_index
    <3> QED  BY <3>1
  <2> QED  BY <2>1, <2>2
<1>3. I \subseteq 1..7
  BY <1>1 DEF Out!get_highest_error_index
<1>4. i \in 1..7
  BY <1>2, <1>3
<1>5. \A j \in 1..7 : Out!err_table[j][2] # "temp"
  BY DEF Out!err_table
<1>6. w # {}
  OBVIOUS
<1>7. Out!anolog_output(w) = Out!err_table[i][2]
  BY <1>6 DEF Out!anolog_output
<1> HIDE DEF i, I
<1> QED
  BY <1>4, <1>5, <1>7

\* With the heater on no check writes the flag.
LEMMA ChecksHarmless ==
    ASSUME setTemp # 0, NEW k \in 1..3
    PROVE  Out!Checks[k] \in Seq(Entries)
<1>1. /\ {"DETECTOR", "HEATER_HIGH", "HEATER_LOW", "ATTEN_HIGH"}
             \subseteq Out!Flags \ {Sticky}
  BY DEF Out!Flags, Sticky
<1>2. Out!DetectorCheck \in Seq(Entries)
  <2>1. (read.target.volt = "zero") \in BOOLEAN
    OBVIOUS
  <2>2. <<"DETECTOR", read.target.volt = "zero">> \in Entries
    BY <1>1, <2>1 DEF Entries
  <2> QED
    BY <2>2 DEF Out!DetectorCheck
<1>3. Out!HeaterCheck \in Seq(Entries)
  <2>1. /\ <<"HEATER_HIGH", TRUE>> \in Entries /\ <<"HEATER_HIGH", FALSE>> \in Entries
        /\ <<"HEATER_LOW", TRUE>> \in Entries /\ <<"HEATER_LOW", FALSE>> \in Entries
    BY <1>1 DEF Entries
  <2>2. CASE read.internal > 80
    <3>1. Out!HeaterCheck = << <<"HEATER_HIGH", TRUE>>, <<"HEATER_LOW", FALSE>> >>
      BY <2>2 DEF Out!HeaterCheck
    <3> QED  BY <2>1, <3>1
  <2>3. CASE ~(read.internal > 80) /\ read.internal < setTemp - 20
    <3>1. Out!HeaterCheck = << <<"HEATER_LOW", TRUE>>, <<"HEATER_HIGH", FALSE>> >>
      BY <2>3 DEF Out!HeaterCheck
    <3> QED  BY <2>1, <3>1
  <2>4. CASE ~(read.internal > 80) /\ ~(read.internal < setTemp - 20)
    <3>1. Out!HeaterCheck = << <<"HEATER_LOW", FALSE>>, <<"HEATER_HIGH", FALSE>> >>
      BY <2>4 DEF Out!HeaterCheck
    <3> QED  BY <2>1, <3>1
  <2> QED
    BY <2>2, <2>3, <2>4
<1>4. Out!AttenuationCheck \in Seq(Entries)
  <2>1. (read.att > DecayRate) \in BOOLEAN
    OBVIOUS
  <2>2. <<"ATTEN_HIGH", read.att > DecayRate>> \in Entries
    BY <1>1, <2>1 DEF Entries
  <2> QED
    BY <2>2 DEF Out!AttenuationCheck
<1>5. Out!Checks[1] = Out!DetectorCheck /\ Out!Checks[2] = Out!HeaterCheck
      /\ Out!Checks[3] = Out!AttenuationCheck
  BY DEF Out!Checks
<1> QED
  BY <1>2, <1>3, <1>4, <1>5

LEMMA SampleStuck ==
    ASSUME Stuck, Out!sample_task
    PROVE  Stuck'
<1>1. UNCHANGED <<check, writes, word>>
  BY DEF Out!sample_task, Out!Measure, Out!GiveUp, Out!errVars
<1>2. Sticky \in err'
  <2>1. CASE Out!Measure
    <3>1. PICK t \in Out!Targets : err' = Out!HandleSingleError(err, t.range)
      BY <2>1 DEF Out!Measure, Out!get_temp
    <3>2. Sticky # "ENERGY_LOW" /\ Sticky # "DETECTOR" /\ Sticky \in err
      BY DEF Sticky, Stuck
    <3> QED
      BY <3>1, <3>2 DEF Out!HandleSingleError
  <2>2. CASE Out!GiveUp
    BY <2>2 DEF Out!GiveUp, Out!errVars, Stuck
  <2> QED
    BY <2>1, <2>2 DEF Out!sample_task
<1>3. out' = Out!anolog_output(err')
  <2>1. CASE Out!Measure
    BY <2>1 DEF Out!Measure
  <2>2. CASE Out!GiveUp
    BY <2>2 DEF Out!GiveUp, Out!errVars
  <2> QED
    BY <2>1, <2>2 DEF Out!sample_task
<1>4. out' # "temp"
  BY <1>2, <1>3, StickyOutput
<1> QED
  BY <1>1, <1>2, <1>4 DEF Stuck

LEMMA UpgradeStuck ==
    ASSUME Stuck, setTemp # 0, Out!error_state_upgrade
    PROVE  Stuck'
<1>1. CASE Out!Evaluate
  <2>1. /\ UNCHANGED <<err, word, out>> /\ check' = (check % 3) + 1
        /\ writes = <<>> /\ writes' = Out!Checks[check]
    BY <1>1 DEF Out!Evaluate
  <2>2. check \in 1..3 /\ check' \in 1..3
    BY <2>1 DEF Stuck
  <2>3. writes' \in Seq(Entries)
    BY <2>1, <2>2, ChecksHarmless
  <2>4. word = <<>>
    BY <2>1 DEF Stuck
  <2> QED
    BY <2>1, <2>2, <2>3, <2>4 DEF Stuck
<1>2. CASE Out!LoadFlags
  BY <1>2 DEF Out!LoadFlags, Stuck
<1>3. CASE Out!StoreFlags
  <2> DEFINE h == Head(writes)
  <2>1. /\ UNCHANGED <<check, out>> /\ word # <<>> /\ word' = <<>>
        /\ writes' = Tail(writes)
        /\ err' = IF h[2] THEN word[1] \cup {h[1]} ELSE word[1] \ {h[1]}
    BY <1>3 DEF Out!StoreFlags
  <2>2. writes \in Seq(Entries) /\ writes # <<>> /\ Sticky \in word[1]
    BY <2>1 DEF Stuck
  <2>3. h \in Entries /\ writes' \in Seq(Entries)
    BY <2>1, <2>2
  <2> HIDE DEF h
  <2>4. h[1] # Sticky
    BY <2>3 DEF Entries
  <2>5. Sticky \in err'
    BY <2>1, <2>2, <2>4
  <2> QED
    BY <2>1, <2>3, <2>5 DEF Stuck
<1> QED
  BY <1>1, <1>2, <1>3 DEF Out!error_state_upgrade

\* With the heater on from the start the analogue output never shows a
\* temperature, whatever is measured and however the tasks interleave: the
\* flags of the internal temperature are set at the start (self_check.c:37)
\* and error_state_upgrade clears them only with the heater off.
THEOREM HeatedNeverShows == Out!Spec /\ [](setTemp # 0) => [](out # "temp")
<1>1. Out!Init => Stuck
  BY DEF Out!Init, Out!Flags, Stuck, Sticky
<1>2. Stuck /\ setTemp # 0 /\ [Out!Next]_Out!vars => Stuck'
  <2>1. SUFFICES ASSUME Stuck, setTemp # 0, [Out!Next]_Out!vars PROVE Stuck'
    OBVIOUS
  <2>2. CASE Out!alarm_task \/ Out!SetPara \/ UNCHANGED Out!vars
    <3>1. UNCHANGED <<err, check, writes, word, out>>
      BY <2>2 DEF Out!alarm_task, Out!SetPara, Out!vars, Out!errVars
    <3> QED
      BY <2>1, <3>1 DEF Stuck
  <2> QED
    BY <2>1, <2>2, SampleStuck, UpgradeStuck DEF Out!Next
<1>3. Stuck => out # "temp"
  BY DEF Stuck
<1> QED
  BY <1>1, <1>2, <1>3, PTL DEF Out!Spec

----------------------------------------------------------------------------
\* The order of the flags: a word with flags in it gives an error current.
LEMMA OutputType ==
    ASSUME NEW w \in SUBSET Out!Flags
    PROVE  Out!anolog_output(w) \in {"temp", "max", "min"}
<1> DEFINE I == Out!get_highest_error_index(w)
           i == CHOOSE j \in I : TRUE
           has(j) == Out!err_table[j][1] \in w
<1>1. DOMAIN Out!err_table = 1..7 /\ \A j \in 1..7 : Out!err_table[j][2] \in {"max", "min"}
  BY DEF Out!err_table
<1>2. CASE w = {}
  BY <1>2 DEF Out!anolog_output
<1>3. CASE w # {}
  <2>1. \E j \in 1..7 : has(j)
    <3>1. PICK f \in w : TRUE
      BY <1>3
    <3>2. f \in Out!Flags
      BY <3>1
    <3> QED
      BY <3>1, <3>2 DEF Out!Flags, Out!err_table
  <2>2. \E j \in 1..7 : has(j) /\ \A k \in 1..(j - 1) : ~has(k)
    <3> HIDE DEF has
    <3>1. CASE has(1)
      BY <3>1
    <3>2. CASE ~has(1) /\ has(2)
      BY <3>2
    <3>3. CASE ~has(1) /\ ~has(2) /\ has(3)
      BY <3>3
    <3>4. CASE ~has(1) /\ ~has(2) /\ ~has(3) /\ has(4)
      BY <3>4
    <3>5. CASE ~has(1) /\ ~has(2) /\ ~has(3) /\ ~has(4) /\ has(5)
      BY <3>5
    <3>6. CASE ~has(1) /\ ~has(2) /\ ~has(3) /\ ~has(4) /\ ~has(5) /\ has(6)
      BY <3>6
    <3>7. CASE ~has(1) /\ ~has(2) /\ ~has(3) /\ ~has(4) /\ ~has(5) /\ ~has(6) /\ has(7)
      BY <3>7
    <3> QED
      BY <2>1, <3>1, <3>2, <3>3, <3>4, <3>5, <3>6, <3>7
  <2>3. I # {} /\ I \subseteq 1..7
    BY <1>1, <2>2 DEF Out!get_highest_error_index
  <2>4. i \in 1..7
    BY <2>3
  <2>5. Out!anolog_output(w) = Out!err_table[i][2]
    BY <1>3 DEF Out!anolog_output
  <2> HIDE DEF i, I
  <2> QED
    BY <1>1, <2>4, <2>5
<1> QED
  BY <1>2, <1>3

Readings == [target : Out!Targets \cup [volt : {"zero"}, range : {0}, temp : {0}],
             internal : Internals, att : Atts]

Checked ==
    /\ err \subseteq Out!Flags /\ check \in 1..3
    /\ writes \in Seq(Out!Flags \X BOOLEAN) /\ (word # <<>> => writes # <<>>)
    /\ word = <<>> \/ (word = <<word[1]>> /\ word[1] \in SUBSET Out!Flags)
    /\ out \in {"none", "temp", "max", "min"}

Alarmed == active \in [Alarms -> BOOLEAN] /\ relay \in BOOLEAN

OutTypes == /\ read \in Readings /\ Checked /\ Alarmed
            /\ setTemp \in SetTemps /\ relayMode \in Modes

LEMMA ChecksTyped ==
    ASSUME NEW k \in 1..3
    PROVE  Out!Checks[k] \in Seq(Out!Flags \X BOOLEAN)
<1> DEFINE E == Out!Flags \X BOOLEAN
<1>1. \A f \in Out!Flags, b \in BOOLEAN : <<f, b>> \in E
  OBVIOUS
<1>2. \A f \in {"DETECTOR", "HEATER_HIGH", "HEATER_LOW", "INTERNAL_HIGH",
                "INTERNAL_LOW", "ATTEN_HIGH"} : f \in Out!Flags
  BY DEF Out!Flags
<1>3. Out!DetectorCheck \in Seq(E)
  <2>1. (read.target.volt = "zero") \in BOOLEAN
    OBVIOUS
  <2>2. <<"DETECTOR", read.target.volt = "zero">> \in E
    BY <1>1, <1>2, <2>1
  <2> HIDE DEF E
  <2> QED
    BY <2>2 DEF Out!DetectorCheck
<1>4. Out!HeaterCheck \in Seq(E)
  <2>1. /\ <<"HEATER_HIGH", TRUE>> \in E /\ <<"HEATER_HIGH", FALSE>> \in E
        /\ <<"HEATER_LOW", TRUE>> \in E /\ <<"HEATER_LOW", FALSE>> \in E
        /\ <<"INTERNAL_HIGH", FALSE>> \in E /\ <<"INTERNAL_LOW", FALSE>> \in E
    BY <1>1, <1>2
  <2> HIDE DEF E
  <2>2. CASE setTemp = 0
    <3>1. Out!HeaterCheck = << <<"HEATER_LOW", FALSE>>, <<"HEATER_HIGH", FALSE>>,
                               <<"INTERNAL_LOW", FALSE>>, <<"INTERNAL_HIGH", FALSE>> >>
      BY <2>2 DEF Out!HeaterCheck
    <3> QED  BY <2>1, <3>1
  <2>3. CASE setTemp # 0 /\ read.internal > 80
    <3>1. Out!HeaterCheck = << <<"HEATER_HIGH", TRUE>>, <<"HEATER_LOW", FALSE>> >>
      BY <2>3 DEF Out!HeaterCheck
    <3> QED  BY <2>1, <3>1
  <2>4. CASE setTemp # 0 /\ ~(read.internal > 80) /\ read.internal < setTemp - 20
    <3>1. Out!HeaterCheck = << <<"HEATER_LOW", TRUE>>, <<"HEATER_HIGH", FALSE>> >>
      BY <2>4 DEF Out!HeaterCheck
    <3> QED  BY <2>1, <3>1
  <2>5. CASE setTemp # 0 /\ ~(read.internal > 80) /\ ~(read.internal < setTemp - 20)
    <3>1. Out!HeaterCheck = << <<"HEATER_LOW", FALSE>>, <<"HEATER_HIGH", FALSE>> >>
      BY <2>5 DEF Out!HeaterCheck
    <3> QED  BY <2>1, <3>1
  <2> QED
    BY <2>2, <2>3, <2>4, <2>5
<1>5. Out!AttenuationCheck \in Seq(E)
  <2>1. (read.att > DecayRate) \in BOOLEAN
    OBVIOUS
  <2>2. <<"ATTEN_HIGH", read.att > DecayRate>> \in E
    BY <1>1, <1>2, <2>1
  <2> HIDE DEF E
  <2> QED
    BY <2>2 DEF Out!AttenuationCheck
<1>6. /\ Out!Checks[1] = Out!DetectorCheck /\ Out!Checks[2] = Out!HeaterCheck
      /\ Out!Checks[3] = Out!AttenuationCheck
  BY DEF Out!Checks
<1> QED
  BY <1>3, <1>4, <1>5, <1>6

LEMMA SampleTyped ==
    ASSUME OutTypes, Out!sample_task
    PROVE  read' \in Readings /\ Checked'
<1>1. UNCHANGED <<check, writes, word>>
  BY DEF Out!sample_task, Out!Measure, Out!GiveUp, Out!errVars
<1>2. read' \in Readings /\ err' \subseteq Out!Flags
  <2>1. CASE Out!Measure
    <3>1. PICK t \in Out!Targets, i \in Internals, a \in Atts : Out!get_temp(t, i, a)
      BY <2>1 DEF Out!Measure
    <3>2. read.att \in Atts
      BY DEF OutTypes, Readings
    <3>3. (IF t.volt = "valid" THEN a ELSE read.att) \in Atts
      BY <3>2
    <3>4. read' \in Readings
      BY <3>1, <3>3 DEF Out!get_temp, Readings
    <3>5. err' = Out!HandleSingleError(err, t.range)
      BY <3>1 DEF Out!get_temp
    <3>6. err \subseteq Out!Flags /\ {"ENERGY_LOW", "DETECTOR"} \subseteq Out!Flags
      BY DEF OutTypes, Checked, Out!Flags
    <3>7. t.range \in {-1, 0, 1}
      BY DEF Out!Targets
    <3>8. \/ err' = (err \cup {"ENERGY_LOW"}) \ {"DETECTOR"}
          \/ err' = (err \ {"ENERGY_LOW"}) \cup {"DETECTOR"}
          \/ err' = err \ {"ENERGY_LOW", "DETECTOR"}
      <4>1. CASE t.range = -1
        <5>1. t.range < 0 /\ ~(t.range > 0)
          BY <4>1
        <5> QED  BY <3>5, <5>1 DEF Out!HandleSingleError
      <4>2. CASE t.range = 1
        <5>1. ~(t.range < 0) /\ t.range > 0
          BY <4>2
        <5> QED  BY <3>5, <5>1 DEF Out!HandleSingleError
      <4>3. CASE t.range = 0
        <5>1. ~(t.range < 0) /\ ~(t.range > 0)
          BY <4>3
        <5> QED  BY <3>5, <5>1 DEF Out!HandleSingleError
      <4> QED
        BY <3>7, <4>1, <4>2, <4>3
    <3>9. err' \subseteq Out!Flags
      BY <3>6, <3>8
    <3> QED
      BY <3>4, <3>9
  <2>2. CASE Out!GiveUp
    BY <2>2 DEF Out!GiveUp, Out!errVars, OutTypes, Checked
  <2> QED
    BY <2>1, <2>2 DEF Out!sample_task
<1>3. out' = Out!anolog_output(err')
  BY DEF Out!sample_task, Out!Measure, Out!GiveUp, Out!errVars
<1>4. out' \in {"temp", "max", "min"}
  BY <1>2, <1>3, OutputType
<1> QED
  BY <1>1, <1>2, <1>4 DEF OutTypes, Checked

LEMMA UpgradeTyped ==
    ASSUME OutTypes, Out!error_state_upgrade
    PROVE  Checked'
<1>1. CASE Out!Evaluate
  <2>1. /\ UNCHANGED <<err, word, out>> /\ check' = (check % 3) + 1
        /\ writes = <<>> /\ writes' = Out!Checks[check]
    BY <1>1 DEF Out!Evaluate
  <2>2. check \in 1..3 /\ check' \in 1..3
    BY <2>1 DEF OutTypes, Checked
  <2>3. writes' \in Seq(Out!Flags \X BOOLEAN)
    BY <2>1, <2>2, ChecksTyped
  <2>4. word = <<>>
    BY <2>1 DEF OutTypes, Checked
  <2> QED
    BY <2>1, <2>2, <2>3, <2>4 DEF OutTypes, Checked
<1>2. CASE Out!LoadFlags
  <2>1. UNCHANGED <<err, check, writes, out>> /\ writes # <<>> /\ word' = <<err>>
    BY <1>2 DEF Out!LoadFlags
  <2>2. word'[1] = err /\ word' = <<word'[1]>>
    BY <2>1
  <2> QED
    BY <2>1, <2>2 DEF OutTypes, Checked
<1>3. CASE Out!StoreFlags
  <2> DEFINE h == Head(writes)
  <2>1. /\ UNCHANGED <<check, out>> /\ word # <<>> /\ word' = <<>>
        /\ writes' = Tail(writes)
        /\ err' = IF h[2] THEN word[1] \cup {h[1]} ELSE word[1] \ {h[1]}
    BY <1>3 DEF Out!StoreFlags
  <2>2. /\ writes \in Seq(Out!Flags \X BOOLEAN) /\ writes # <<>>
        /\ word[1] \subseteq Out!Flags
    BY <2>1 DEF OutTypes, Checked
  <2>3. h \in Out!Flags \X BOOLEAN /\ writes' \in Seq(Out!Flags \X BOOLEAN)
    BY <2>1, <2>2
  <2> HIDE DEF h
  <2>4. h[1] \in Out!Flags
    BY <2>3
  <2>5. err' \subseteq Out!Flags
    BY <2>1, <2>2, <2>4
  <2> QED
    BY <2>1, <2>3, <2>5 DEF OutTypes, Checked
<1> QED
  BY <1>1, <1>2, <1>3 DEF Out!error_state_upgrade

LEMMA AlarmTyped == ASSUME Out!alarm_task PROVE Alarmed'
<1>1. active' = [a \in Alarms |-> Out!Hysteresis(a)]
  BY DEF Out!alarm_task
<1>2. \A a \in Alarms : Out!Hysteresis(a) \in BOOLEAN
  BY DEF Out!Hysteresis
<1>3. active' \in [Alarms -> BOOLEAN]
  BY <1>1, <1>2
<1>4. relay' \in BOOLEAN
  BY DEF Out!alarm_task, Out!RelayState
<1> QED
  BY <1>3, <1>4 DEF Alarmed

\* Every variable of Outputs keeps its type for all readings, thresholds and
\* relay modes: the error word that sample_task and error_state_upgrade take
\* from each other holds flags of err_table only, so that anolog_output finds
\* an entry for every word that is not empty.
THEOREM OutputsTyped ==
    ASSUME 0 \in Internals, 0 \in Atts
    PROVE  Out!Spec => []Out!TypeOK
<1>1. Out!Init => OutTypes
  <2>1. SUFFICES ASSUME Out!Init PROVE OutTypes
    OBVIOUS
  <2>2. read \in Readings
    BY <2>1 DEF Out!Init, Readings
  <2>3. Checked
    BY <2>1 DEF Out!Init, Checked
  <2>4. Alarmed
    BY <2>1 DEF Out!Init, Alarmed
  <2> QED
    BY <2>1, <2>2, <2>3, <2>4 DEF Out!Init, OutTypes
<1>2. OutTypes /\ [Out!Next]_Out!vars => OutTypes'
  <2>1. SUFFICES ASSUME OutTypes, [Out!Next]_Out!vars PROVE OutTypes'
    OBVIOUS
  <2>2. CASE Out!sample_task
    <3>1. UNCHANGED <<active, relay, setTemp, relayMode>>
      BY <2>2 DEF Out!sample_task, Out!Measure, Out!GiveUp, Out!alarmVars, Out!paraVars
    <3> QED
      BY <2>1, <2>2, <3>1, SampleTyped DEF OutTypes, Alarmed
  <2>3. CASE Out!error_state_upgrade
    <3>1. UNCHANGED <<read, active, relay, setTemp, relayMode>>
      BY <2>3 DEF Out!error_state_upgrade, Out!Evaluate, Out!LoadFlags, Out!StoreFlags,
         Out!alarmVars, Out!paraVars
    <3> QED
      BY <2>1, <2>3, <3>1, UpgradeTyped DEF OutTypes, Alarmed
  <2>4. CASE Out!alarm_task
    <3>1. UNCHANGED <<read, err, check, writes, word, out, setTemp, relayMode>>
      BY <2>4 DEF Out!alarm_task, Out!errVars, Out!paraVars
    <3> QED
      BY <2>1, <2>4, <3>1, AlarmTyped DEF OutTypes, Checked
  <2>5. CASE Out!SetPara
    <3>1. UNCHANGED <<read, err, check, writes, word, out, active, relay>>
      BY <2>5 DEF Out!SetPara, Out!errVars, Out!alarmVars
    <3>2. setTemp' \in SetTemps /\ relayMode' \in Modes
      BY <2>5 DEF Out!SetPara
    <3> QED
      BY <2>1, <3>1, <3>2 DEF OutTypes, Checked, Alarmed
  <2>6. CASE UNCHANGED Out!vars
    <3>1. UNCHANGED <<read, err, check, writes, word, out, active, relay, setTemp, relayMode>>
      BY <2>6 DEF Out!vars, Out!errVars, Out!alarmVars, Out!paraVars
    <3> QED
      BY <2>1, <3>1 DEF OutTypes, Checked, Alarmed
  <2> QED
    BY <2>1, <2>2, <2>3, <2>4, <2>5, <2>6 DEF Out!Next
<1>3. OutTypes => Out!TypeOK
  BY DEF OutTypes, Readings, Checked, Alarmed, Out!TypeOK
<1> QED
  BY <1>1, <1>2, <1>3, PTL DEF Out!Spec
==============================================================================
