------------------------------- MODULE Panel -------------------------------
(***************************************************************************)
(* The front panel: the events of the key scan (key.c), the menu machine   *)
(* that consumes them (menu_navigate, ui.c) and the pages it calls         *)
(* (oled_show_info and the do_ functions of display.c).  key_task and      *)
(* ui_task are periodic calls of the same agent (AGENT_PRIO_MD), so each   *)
(* is one step; what is left to chance is which keys have been flagged     *)
(* when a pass of ui_task looks.                                           *)
(*                                                                         *)
(* current_menu always is &m0_root[ui.main_page_id] and every main menu    *)
(* has a submenu, so it is ui.main and the tests of son_ms fall away.  The *)
(* arrays of pages have 20 entries and are zero-filled: an index at or     *)
(* beyond menu_count finds para_num 0 and a null function.                 *)
(*                                                                         *)
(* A page edits at most Segs numbers (the four parts of an address; the    *)
(* other pages use the first).  The edit buffer stands for ui.dis_value    *)
(* and for the static IPconfig_value of the address pages: every page      *)
(* reloads its own whenever the panel is not blinking, so one is enough.   *)
(* A value counts from the lower limit of its page, and MaxVal stands for  *)
(* the upper one.  Two pages do not store every value as it is shown:      *)
(* do_baud_rate replaces a rate the port does not support by 115200, its   *)
(* upper limit, and do_temp_mode leaves the narrow-band mode alone, which  *)
(* only a command can choose and which the page shows as its lower limit.  *)
(***************************************************************************)
EXTENDS Integers, Sequences, FiniteSets

CONSTANTS
    Menu,        \* the main menus: a sequence of sequences of page kinds
    Segs,        \* parameters of an address page
    MaxVal,      \* a parameter is 0 .. MaxVal
    Rates,       \* the baud rates the serial port supports
    Remote,      \* the kinds of page whose parameter commands change
    LongStep,    \* the step of a long press
    ShortIdle,   \* NO_KEY_PRESS_SHORT_TIMEOUT, in key scans
    LongIdle     \* NO_KEY_PRESS_TIMEOUT, in key scans

Kinds == {"info", "wrap", "clamp", "mode", "baud", "factory", "address"}
Keys  == {"UP", "DOWN", "SET", "RIGHT"}

ASSUME MenuAssumption ==
    /\ Menu \in Seq(Seq(Kinds)) /\ Len(Menu) > 0
    /\ \A m \in 1 .. Len(Menu) : Len(Menu[m]) \in 1 .. 20
    /\ \A s \in 1 .. Len(Menu[1]) : Menu[1][s] = "info"

ASSUME BoundAssumption ==
    /\ Segs \in Nat \ {0} /\ MaxVal \in Nat \ {0} /\ LongStep \in Nat \ {0}
    /\ Rates \subseteq 0 .. MaxVal /\ MaxVal \in Rates
    /\ Remote \subseteq Kinds \ {"info", "factory"}
    /\ ShortIdle \in Nat \ {0} /\ LongIdle \in Nat /\ ShortIdle < LongIdle

VARIABLES
    short,   \* keys whose short_flag is set
    long,    \* step_value of the keys whose long_flag is set, 0 for the others
    quiet,   \* key scans since last_key_action_time, at most LongIdle
    idle,    \* key_idle_flag
    ui,      \* the ui structure, menu_mode, is_menu, para_index and sys_para
    lock,    \* sys_para.dev.panel_lock # 'U', set by a command
    turn,    \* whose period elapses next: "scan" or "ui"
    wild,    \* the pass called a null page or wrote beyond an address
    apart    \* history: no pass since the start found two keys flagged

vars == <<short, long, quiet, idle, ui, lock, turn, wild, apart>>

----------------------------------------------------------------------------
\* The tables of ui.c.

Mains == 0 .. Len(Menu) - 1
Count(m) == Len(Menu[m + 1])                     \* menu_count
Pages == {pg \in Mains \X (0 .. 19) : pg[2] < Count(pg[1])}
Kind(pg) == Menu[pg[1] + 1][pg[2] + 1]
Seg == 0 .. Segs - 1
Values == [Seg -> 0 .. MaxVal]

\* sys_para.temp.temp_mode = 0; the modes 1 and 2 are 0 and 1 on the page.
NarrowBand == -1
Stored == [Seg -> {NarrowBand} \cup (0 .. MaxVal)]

ParaNum(pg) ==
    IF pg \notin Pages \/ Kind(pg) = "info" THEN 0
    ELSE IF Kind(pg) = "address" THEN Segs ELSE 1

Cur(u) == <<u.main, u.sub>>

\* SYS_DEF_PARA: two-colour measurement and 115200 baud.
Default == [pg \in Pages |->
              [i \in Seg |-> IF i = 0 /\ Kind(pg) \in {"mode", "baud"} THEN MaxVal ELSE 0]]

(***************************************************************************)
(* One call of the current page's function.  When the panel does not blink *)
(* the buffer is reloaded; set_states then adds set_value to the part      *)
(* selected by current_para_index and cfg_states stores the buffer, or     *)
(* restores the defaults on the FACTORY DEFAULT page.  The information     *)
(* pages leave both flags as they are.                                     *)
(***************************************************************************)
Bump(kind, v, d) ==
    CASE kind = "address" -> (v + d) % (MaxVal + 1)
      [] kind \in {"clamp", "baud"} ->
                             IF v + d < 0 THEN 0
                             ELSE IF v + d > MaxVal THEN MaxVal ELSE v + d
      [] OTHER            -> IF v + d < 0 THEN MaxVal
                             ELSE IF v + d > MaxVal THEN 0 ELSE v + d

\* How a page shows a stored value.
AsShown(w) == [i \in Seg |-> IF w[i] = NarrowBand THEN 0 ELSE w[i]]

Load(u) ==
    IF u.blink THEN u.edit
    ELSE IF Kind(Cur(u)) = "factory" THEN [i \in Seg |-> 0] ELSE AsShown(u.para[Cur(u)])

Target(u) == IF Kind(Cur(u)) = "address" THEN u.idx ELSE 0

\* Mutant: the page stores into the parameter of the first page of its menu.
StoreFirst(u, e) ==
    IF Kind(Cur(u)) = "factory" THEN Default ELSE [u.para EXCEPT ![<<u.main, 0>>] = e]

\* What becomes of the stored value old of page pg when it shows e.
AsStored(pg, old, e) ==
    CASE Kind(pg) = "mode" /\ old[0] = NarrowBand -> old
      [] Kind(pg) = "baud" /\ e[0] \notin Rates   -> [e EXCEPT ![0] = MaxVal]
      [] OTHER                                    -> e

Store(u, e) ==
    IF Kind(Cur(u)) = "factory" THEN Default
    ELSE [u.para EXCEPT ![Cur(u)] = AsStored(Cur(u), @, e)]

Runs(u) == Cur(u) \in Pages /\ (u.set # 0 /\ Kind(Cur(u)) # "info" => Target(u) \in Seg)

Page(u) ==
    IF ~Runs(u) \/ Kind(Cur(u)) = "info" THEN u
    ELSE LET e == IF u.set = 0 THEN Load(u)
                  ELSE [Load(u) EXCEPT ![Target(u)] = Bump(Kind(Cur(u)), @, u.set)]
         IN  [u EXCEPT !.edit = e, !.set = 0, !.cfg = FALSE,
                       !.para = IF u.cfg THEN Store(u, e) ELSE @]

----------------------------------------------------------------------------
(***************************************************************************)
(* menu_navigate.  The pass is a chain of updates of the ui record, in the *)
(* order of the code: the time-outs, then each key that is flagged, then   *)
(* the page that is on display.  "count" is read before any of them.       *)
(***************************************************************************)
\* Mutant: the long time-out goes home without leaving EDIT_MODE.
TimeOutKeepsMode(u) ==
    IF idle = 1 THEN [u EXCEPT !.main = 0, !.sub = 0, !.blink = FALSE, !.menu = FALSE]
    ELSE IF idle = 2 /\ u.menu THEN [u EXCEPT !.sub = 0, !.menu = FALSE, !.blink = FALSE]
    ELSE u

TimeOut(u) ==
    IF idle = 1
    THEN [u EXCEPT !.main = 0, !.sub = 0, !.blink = FALSE, !.menu = FALSE, !.mode = "GUIDE"]
    ELSE IF idle = 2 /\ u.menu
    THEN [u EXCEPT !.sub = 0, !.menu = FALSE, !.blink = FALSE]
    ELSE u

\* What a GUIDE pass does before it looks at the keys.
GuideEntry(u) ==
    [u EXCEPT !.num = ParaNum(Cur(u)), !.idx = 0,
              !.pidx = IF Cur(u) \in Pages THEN [@ EXCEPT ![Cur(u)] = 0] ELSE @]

\* Mutant: the next main menu is shown while the panel still blinks.
NextMenuBlinks(u) == [u EXCEPT !.main = (@ + 1) % Len(Menu), !.sub = 0, !.menu = TRUE]

\* KEY_RIGHT: the next main menu.
NextMenu(u) ==
    [u EXCEPT !.main = (@ + 1) % Len(Menu), !.sub = 0, !.menu = TRUE, !.blink = FALSE]

\* Mutant: KEY_DOWN wraps one page too late.
GuideDownLate(u, count) ==
    IF u.menu THEN [u EXCEPT !.sub = 0, !.menu = FALSE]
    ELSE [u EXCEPT !.sub = IF @ < count THEN @ + 1 ELSE 0]

GuideDown(u, count) ==
    IF u.menu THEN [u EXCEPT !.sub = 0, !.menu = FALSE]
    ELSE [u EXCEPT !.sub = IF @ < count - 1 THEN @ + 1 ELSE 0]

GuideUp(u, count) ==
    [u EXCEPT !.sub = IF @ > 0 THEN @ - 1 ELSE IF count > 0 THEN count - 1 ELSE @]

StartsEdit(u) == ~u.menu /\ ~lock /\ u.num > 0

GuideSet(u) ==
    IF u.menu THEN [u EXCEPT !.sub = 0, !.menu = FALSE]
    ELSE IF StartsEdit(u)
    THEN [Page([u EXCEPT !.mode = "EDIT"]) EXCEPT !.blink = @ \/ u.main # 0]
    ELSE u

\* KEY_RIGHT while editing: the edit is given up.
EditRight(u) == [NextMenu(u) EXCEPT !.mode = "GUIDE"]

\* KEY_UP and KEY_DOWN while editing: the last one looked at decides.
Delta ==
    IF long["DOWN"] > 0 THEN -long["DOWN"]
    ELSE IF "DOWN" \in short THEN -1
    ELSE IF long["UP"] > 0 THEN long["UP"]
    ELSE IF "UP" \in short THEN 1 ELSE 0

EditStep(u) == [u EXCEPT !.set = IF Delta = 0 THEN @ ELSE Delta]

\* KEY_SET while editing: the next part becomes current, the page stores.
Advance(u) ==
    LET n == ParaNum(Cur(u))
    IN  IF n = 0 THEN [u EXCEPT !.num = 0, !.idx = 0, !.cfg = TRUE]
        ELSE [u EXCEPT !.num = n, !.idx = u.pidx[Cur(u)] + 1,
                       !.pidx[Cur(u)] = @ + 1, !.cfg = TRUE]

EditDone(u) ==
    IF u.idx = u.num THEN [u EXCEPT !.mode = "GUIDE", !.blink = @ /\ u.num = 0] ELSE u

EditSet(u) == EditDone(Page(Advance(u)))

If(cond, then, else) == IF cond THEN then ELSE else

\* The record before the key SET is looked at, and after it.
BeforeSet(u, count) ==
    IF u.mode = "GUIDE"
    THEN LET r == If("RIGHT" \in short, NextMenu(GuideEntry(u)), GuideEntry(u))
             d == If("DOWN" \in short, GuideDown(r, count), r)
         IN  If("UP" \in short, GuideUp(d, count), d)
    ELSE If("RIGHT" \in short, EditRight(u), EditStep(u))

\* EDIT_MODE was on and KEY_RIGHT did not end it: key_init forgets SET.
Edits(u) == u.mode = "EDIT" /\ "RIGHT" \notin short
AfterSet(u, b) ==
    IF "SET" \notin short THEN b
    ELSE IF u.mode = "GUIDE" THEN GuideSet(b)
    ELSE IF Edits(u) THEN EditSet(b) ELSE b

\* The page functions that SET calls run on these records.
CalledBySet(u, b) ==
    IF "SET" \notin short THEN {}
    ELSE IF u.mode = "GUIDE" THEN {x \in {[b EXCEPT !.mode = "EDIT"]} : StartsEdit(b)}
    ELSE {x \in {Advance(b)} : Edits(u)}

\* A change of page cancels a step that no page has consumed.
Settled(u) ==
    IF Cur(u) # Cur(ui) THEN [u EXCEPT !.set = 0] ELSE u

\* u, b and c are the record after the time-outs, before SET and after it.
menu_navigate ==
    \E u \in {TimeOut(ui)} : \E b \in {BeforeSet(u, Count(ui.main))} :
    \E c \in {Settled(AfterSet(u, b))} :
        /\ ui' = IF c.menu THEN c ELSE Page(c)
        /\ wild' = \E x \in CalledBySet(u, b) \cup (IF c.menu THEN {} ELSE {c}) : ~Runs(x)
        /\ long' = IF u.mode = "EDIT" \/ "SET" \in short
                   THEN [k \in DOMAIN long |-> 0] ELSE long
        /\ apart' = (apart /\ Cardinality(short \cup
                       {k \in DOMAIN long : u.mode = "EDIT" /\ long[k] > 0}) <= 1)
        /\ short' = {}

----------------------------------------------------------------------------
Init ==
    /\ short = {} /\ long = [k \in {"UP", "DOWN"} |-> 0]
    /\ quiet = 0 /\ idle = 1
    /\ ui = [main |-> 0, sub |-> 0, menu |-> TRUE, mode |-> "GUIDE", blink |-> FALSE,
             set |-> 0, cfg |-> FALSE, num |-> 0, idx |-> 0,
             pidx |-> [pg \in Pages |-> 0], edit |-> [i \in Seg |-> 0], para |-> Default]
    /\ lock = FALSE /\ turn = "scan" /\ wild = FALSE /\ apart = TRUE

(***************************************************************************)
(* A scan confirms the release of the keys in s (short_flag) and finds the *)
(* keys of l held for a second or more (long_flag with its step); other    *)
(* says that SET or RIGHT is held, whose long flag nobody reads.           *)
(***************************************************************************)
key_task(s, l, other) ==
    /\ turn = "scan" /\ ~wild
    /\ short' = short \cup s
    /\ long' = [k \in DOMAIN long |->
                  IF l[k] > 0 THEN l[k]
                  ELSE IF k \in s /\ long[k] > 0 THEN 1 ELSE long[k]]
    /\ IF s # {} \/ other \/ \E k \in DOMAIN l : l[k] > 0
       THEN quiet' = 0 /\ idle' = 0
       ELSE /\ quiet' = IF quiet < LongIdle THEN quiet + 1 ELSE quiet
            /\ idle' = IF quiet' >= LongIdle THEN 1
                       ELSE IF quiet' >= ShortIdle THEN 2 ELSE idle
    /\ turn' = "ui"
    /\ UNCHANGED <<ui, lock, wild, apart>>

Steps == [{"UP", "DOWN"} -> {0, 1, LongStep}]

KeyScan ==
    \E s \in SUBSET Keys, l \in Steps, other \in BOOLEAN :
        /\ \A k \in DOMAIN l : l[k] > 0 => k \notin s
        /\ key_task(s, l, other)

\* tm1639_key_scan keeps answering 0xFFFF: the scan changes no key.
KeyFail ==
    /\ turn = "scan" /\ ~wild /\ turn' = "ui"
    /\ UNCHANGED <<short, long, quiet, idle, ui, lock, wild, apart>>

ui_task ==
    /\ turn = "ui" /\ ~wild /\ menu_navigate /\ turn' = "scan"
    /\ UNCHANGED <<quiet, idle, lock>>

\* The panel lock is written by a command of the serial port or the network.
SetLock ==
    /\ ~wild /\ lock' = ~lock
    /\ UNCHANGED <<short, long, quiet, idle, ui, turn, wild, apart>>

\* Commands change parameters too, also one that is being edited.
Settable(pg) ==
    {w \in IF Kind(pg) = "mode" THEN Stored ELSE Values :
        /\ Kind(pg) = "baud" => w[0] \in Rates
        /\ \A i \in Seg : i >= ParaNum(pg) => w[i] = 0}

SetParameter ==
    /\ ~wild
    /\ \E pg \in Pages : \E w \in Settable(pg) :
         /\ Kind(pg) \in Remote
         /\ ui' = [ui EXCEPT !.para = [@ EXCEPT ![pg] = w]]
    /\ UNCHANGED <<short, long, quiet, idle, lock, turn, wild, apart>>

\* A call through a null pointer or a stray write ends in a watchdog reset;
\* the parameters are the stored ones again.
Reset ==
    /\ wild
    /\ short' = {} /\ long' = [k \in DOMAIN long |-> 0] /\ quiet' = 0 /\ idle' = 1
    /\ ui' = [main |-> 0, sub |-> 0, menu |-> TRUE, mode |-> "GUIDE", blink |-> FALSE,
              set |-> 0, cfg |-> FALSE, num |-> 0, idx |-> 0,
              pidx |-> [pg \in Pages |-> 0], edit |-> [i \in Seg |-> 0], para |-> ui.para]
    /\ turn' = "scan" /\ wild' = FALSE /\ apart' = TRUE
    /\ UNCHANGED lock

Next == KeyScan \/ KeyFail \/ ui_task \/ SetLock \/ SetParameter \/ Reset

\* A scan that finds no key flagged.
QuietScan == key_task({}, [k \in {"UP", "DOWN"} |-> 0], FALSE)

\* ui_task is periodic, the watchdog runs, and the key controller answers
\* again and again.  The last is stated for scans without a key: GoesHome
\* speaks of behaviours in which from some point on all scans are of that
\* kind.
Spec ==
    /\ Init /\ [][Next]_vars
    /\ WF_vars(ui_task) /\ SF_vars(QuietScan) /\ WF_vars(Reset)

----------------------------------------------------------------------------
\* The values of the ui structure and of the variables beside it.
UiState ==
    [main : Mains, sub : 0 .. 19, menu : BOOLEAN, mode : {"GUIDE", "EDIT"},
     blink : BOOLEAN, set : {0, 1, -1, LongStep, -LongStep}, cfg : BOOLEAN,
     num : 0 .. Segs + 1, idx : Nat, pidx : [Pages -> Nat],
     edit : Values, para : [Pages -> Stored]]

\* Every variable keeps its type; a page number may leave the menu it is in
\* but never the 20 entries of ui.c's arrays.
TypeOK ==
    /\ short \subseteq Keys /\ long \in Steps
    /\ quiet \in 0 .. LongIdle /\ idle \in 0 .. 2
    /\ ui \in UiState
    /\ {lock, wild, apart} \subseteq BOOLEAN /\ turn \in {"scan", "ui"}

\* While no pass of ui_task has found two keys flagged at once, the menu
\* machine never calls a page that does not exist and no address page writes
\* beyond its four parts (ui.c:183-301, display.c:1157).
PagesExist == apart => ~wild

(***************************************************************************)
(* With one key at a time, a pass of ui_task stores exactly when KEY_SET   *)
(* is pressed in an edit, and it stores what the page showed at that       *)
(* moment: an edit left by KEY_RIGHT or by the time-out changes nothing,   *)
(* no press of SET is lost and no parameter of another page is touched,    *)
(* whatever commands do to the parameters meanwhile.  The exceptions are   *)
(* those of the code: FACTORY DEFAULT restores the defaults, a rate that   *)
(* the port does not support becomes 115200 (display.c:1123), and the      *)
(* narrow-band mode stays (display.c:339).                                 *)
(***************************************************************************)
StoresWhatIsShown ==
    [][turn = "ui" /\ turn' = "scan" /\ apart' =>
         ui'.para =
           IF ui.mode = "EDIT" /\ short = {"SET"}
           THEN CASE Kind(Cur(ui)) = "factory" -> Default
                  [] Kind(Cur(ui)) = "mode" /\ ui.para[Cur(ui)][0] = NarrowBand -> ui.para
                  [] Kind(Cur(ui)) = "baud" /\ ui.edit[0] \notin Rates ->
                       [ui.para EXCEPT ![Cur(ui)] = [ui.edit EXCEPT ![0] = MaxVal]]
                  [] OTHER -> [ui.para EXCEPT ![Cur(ui)] = ui.edit]
           ELSE ui.para]_vars

\* An edit starts from the stored value of its own page and with no key
\* pending: neither the value of the page edited before nor a press made
\* while navigating enters it (is_blinking and key_init in ui.c).
EditStartsClean ==
    [][apart' /\ ui.mode = "GUIDE" /\ ui'.mode = "EDIT" =>
         /\ ui'.blink /\ ui'.pidx[Cur(ui')] = 0
         /\ ui'.edit = IF Kind(Cur(ui')) = "factory" THEN [i \in Seg |-> 0]
                       ELSE AsShown(ui'.para[Cur(ui')])
         /\ short' = {} /\ \A k \in DOMAIN long : long'[k] = 0]_vars

\* When no key is pressed any more the panel returns to the first
\* information page, out of any edit (key_idle_flag, NO_KEY_PRESS_TIMEOUT).
Home == ui.main = 0 /\ ui.sub = 0 /\ ~ui.menu /\ ui.mode = "GUIDE" /\ ~ui.blink
GoesHome == <>[](quiet # 0) => <>[]Home

\* The page FACTORY DEFAULT shows NO or YES and restores on YES.
FactoryOnYes ==
    [][~wild /\ ui'.para # ui.para /\ Cur(ui') \in Pages /\ Kind(Cur(ui')) = "factory"
         => ui'.edit[0] = 1]_vars
=============================================================================
