------------------------------ MODULE Service ------------------------------
(***************************************************************************)
(* service_task (system.c): once a second it feeds the watchdog and        *)
(* executes the system command left in sys_op (sys_cmd_handler: restore,   *)
(* save and reset).  Its last step, error_state_upgrade, is in Outputs.    *)
(*                                                                         *)
(* Who changes sys_op and sys_para, with the priorities:                   *)
(*   TCP threads (22 ..)  commands, anywhere between service_task's steps: *)
(*                        those of the first client preempt it, the second *)
(*                        has its priority                                 *)
(*   sample_task (23)     ends a two-point calibration                     *)
(*   service_task (21)    on the agent Agent-HI, which also runs           *)
(*   pc_rx_packet_task    serial commands, before or after a pass          *)
(*   Agent-MD (20)        the panel, while Agent-HI sleeps                 *)
(* A command is processed inside a critical section, from a serial port as *)
(* from TCP (pc_rx_packet_task, tcp_client_thread): it is one step.  A     *)
(* page of the panel is not: it writes a parameter and then saves it.  The *)
(* pmm_ functions (para.c) are critical sections, one step whoever calls   *)
(* them; but pmm_restore_to_factory does not give the section back when    *)
(* the factory area is bad.  No interrupt and no other task runs then;     *)
(* service_task still ends its pass, with a reset that is pending, and its *)
(* agent calls what is already in its ring, a serial command among it.     *)
(* After that it waits for ever: the watchdog, if not that reset, starts   *)
(* the device again.                                                       *)
(*                                                                         *)
(* A set of parameters is one value, and every save stores the whole of    *)
(* it; pmm_save_group writes the user area as a whole and one group of the *)
(* backup area, a difference that Para is about.  "mixed" is the mixture   *)
(* of two sets that an abandoned restore leaves; a parameter changed in it *)
(* leaves it mixed.  A factory area is "bad" when some of its groups fail  *)
(* their check and "void" when it cannot be read or has no magic number.   *)
(***************************************************************************)
EXTENDS Integers, FiniteSets

CONSTANTS
    Paras,     \* sets of parameters
    Def        \* SYS_DEF_PARA

ASSUME ServiceAssumption == Def \in Paras /\ {"bad", "void", "mixed"} \cap Paras = {}

\* The values 1 to 4 of recover.
Recovers == {"factory", "keep", "default", "backup"}

VARIABLES
    sys,      \* "run", "hung" (in a critical section) or "boot"
    op,       \* sys_state.sys_op: recover, reset, valid
    store,    \* sys_para and the three areas: ram, user, backup, factory
    svc,      \* service_task: "idle" or what it does next
    panel,    \* the panel has written a parameter and not saved it yet
    queued,   \* pc_rx_packet_task is in the ring of Agent-HI
    unsaved,  \* history: sys_para was changed without a save since the last one
    spoilt,   \* history: a command saved parameters after a restore gave up
    owed,     \* history: commands acknowledged and not executed
    calm      \* history: no command overlapped another one since the start

cmdVars == <<owed, calm>>
vars == <<sys, op, store, svc, panel, queued, unsaved, spoilt, cmdVars>>

NoOp == [recover |-> "none", reset |-> FALSE, valid |-> FALSE]

----------------------------------------------------------------------------
(***************************************************************************)
(* The pmm_ functions on the record s = store: what they leave, with ok    *)
(* FALSE when they return without having left their critical section.      *)
(***************************************************************************)
ToBackup(s) == [store |-> [s EXCEPT !.backup = s.ram], ok |-> TRUE]

ToBoth(s) == ToBackup([s EXCEPT !.user = s.ram])

pmm_save_group(s) == ToBoth(s)
\* Mutant: the restored defaults are written to the backup area only.
pmm_restore_to_default_backup(s) == ToBackup([s EXCEPT !.ram = Def])
pmm_restore_to_default(s) == ToBoth([s EXCEPT !.ram = Def])
pmm_save_to_backup(s) == ToBackup(s)
pmm_save_to_factory(s) == [store |-> [s EXCEPT !.factory = s.ram], ok |-> TRUE]

\* Groups that pass their check have been copied when the restore gives up.
pmm_restore_to_factory(s) ==
    CASE s.factory = "bad"  -> [store |-> [s EXCEPT !.ram = "mixed"], ok |-> FALSE]
      [] s.factory = "void" -> [store |-> s, ok |-> FALSE]
      [] OTHER              -> ToBoth([s EXCEPT !.ram = s.factory])

Pmm(k, s) ==
    CASE k = "factory" -> pmm_restore_to_factory(s)
      [] k = "keep"    -> pmm_save_to_factory(s)
      [] k = "default" -> pmm_restore_to_default(s)
      [] k = "backup"  -> pmm_save_to_backup(s)
      [] OTHER         -> [store |-> s, ok |-> TRUE]

Do(r) == store' = r.store /\ sys' = IF r.ok THEN sys ELSE "hung"

Init ==
    /\ sys = "boot" /\ op = NoOp
    /\ \E p \in Paras, f \in {Def, "bad", "void"} :
         store = [ram |-> p, user |-> p, backup |-> p, factory |-> f]
    /\ svc = "idle" /\ panel = FALSE /\ owed = {} /\ calm = TRUE
    /\ queued = FALSE /\ unsaved = FALSE /\ spoilt = FALSE

----------------------------------------------------------------------------
\* Commands.  PR writes recover and RS writes reset; the call-back then sets
\* valid and the command is acknowledged.  The end of a firmware transfer
\* sets reset and valid like RS (upgrade.c).

Cmds == Recovers \cup {"reset"}
Write(k) == IF k = "reset" THEN [op EXCEPT !.reset = TRUE] ELSE [op EXCEPT !.recover = k]

\* service_task is inside sys_cmd_handler.
Handling == svc \in {"act", "clear", "reset", "end"}
Overlaps == owed # {} \/ Handling

\* The interrupt of the serial port has a packet.
Packet ==
    /\ sys = "run" /\ ~queued /\ queued' = TRUE
    /\ UNCHANGED <<sys, op, store, svc, panel, unsaved, spoilt, cmdVars>>

\* A command comes to a TCP thread, or to pc_rx_packet_task between two
\* functions of its agent, also after a restore that gave up.
Tcp == sys = "run" /\ UNCHANGED queued
Serial == sys # "boot" /\ svc = "idle" /\ queued /\ queued' = FALSE
Received == Tcp \/ Serial

Command(k) ==
    /\ Received
    /\ op' = [Write(k) EXCEPT !.valid = TRUE]
    /\ owed' = owed \cup {k} /\ calm' = (calm /\ ~Overlaps)
    /\ UNCHANGED <<sys, store, svc, panel, unsaved, spoilt>>

Changed(p) == [store EXCEPT !.ram = IF @ = "mixed" THEN @ ELSE p]

\* A parameter is written, saved and acknowledged.
Set(p) ==
    /\ Received
    /\ Do(pmm_save_group(Changed(p)))
    /\ unsaved' = FALSE /\ spoilt' = (spoilt \/ sys = "hung")
    /\ UNCHANGED <<op, svc, panel, cmdVars>>

\* Parameters that change without a save: a calibration (CA) that does not
\* converge, the end of a two-point calibration (sample_task), the control
\* values of the camera that a query sets and the USB host clears.
SetUnsaved(p) ==
    /\ Received
    /\ store' = Changed(p) /\ unsaved' = TRUE
    /\ UNCHANGED <<sys, op, svc, panel, spoilt, cmdVars>>

\* A serial packet that holds none of these commands.
OtherPacket ==
    /\ Serial
    /\ UNCHANGED <<sys, op, store, svc, panel, unsaved, spoilt, cmdVars>>

\* The panel runs while service_task sleeps.  A page writes the parameter
\* that was edited into sys_para and then saves its group.
PanelRuns == sys = "run" /\ svc = "idle"

PanelSet(p) ==
    /\ PanelRuns /\ ~panel /\ panel' = TRUE /\ store' = Changed(p)
    /\ UNCHANGED <<sys, op, svc, queued, unsaved, spoilt, cmdVars>>

PanelSave ==
    /\ PanelRuns /\ panel /\ panel' = FALSE
    /\ Do(pmm_save_group(store)) /\ unsaved' = FALSE
    /\ UNCHANGED <<op, svc, queued, spoilt, cmdVars>>

\* The page FACTORY DEFAULT.
PanelRestore ==
    /\ PanelRuns /\ ~panel
    /\ Do(pmm_restore_to_default(store)) /\ unsaved' = FALSE
    /\ UNCHANGED <<op, svc, panel, queued, spoilt, cmdVars>>

----------------------------------------------------------------------------
\* Mutant: a reset alone does not count as a command.
service_task_recover ==
    /\ sys = "run" /\ svc = "idle" /\ op.valid /\ op.recover # "none" /\ svc' = "act"
    /\ UNCHANGED <<sys, op, store, panel, queued, unsaved, spoilt, cmdVars>>

\* service_task.  sys_cmd_handler returns at once unless valid is set.
service_task ==
    /\ sys = "run" /\ svc = "idle" /\ op.valid /\ svc' = "act"
    /\ UNCHANGED <<sys, op, store, panel, queued, unsaved, spoilt, cmdVars>>

\* The steps of sys_cmd_handler; those after a restore that gave up are the
\* last that service_task makes.
HandleRecover ==
    /\ sys = "run" /\ svc = "act" /\ svc' = "clear"
    /\ Do(Pmm(op.recover, store)) /\ owed' = owed \ {op.recover}
    /\ unsaved' = (unsaved /\ op.recover \notin {"factory", "default"})
    /\ UNCHANGED <<op, panel, queued, spoilt, calm>>

\* Mutants: the whole of sys_op is cleared; recover is not.
HandleClearAll ==
    /\ sys # "boot" /\ svc = "clear" /\ svc' = "reset" /\ op' = NoOp
    /\ UNCHANGED <<sys, store, panel, queued, unsaved, spoilt, cmdVars>>

HandleClearNot ==
    /\ sys # "boot" /\ svc = "clear" /\ svc' = "reset"
    /\ UNCHANGED <<sys, op, store, panel, queued, unsaved, spoilt, cmdVars>>

HandleClear ==
    /\ sys # "boot" /\ svc = "clear" /\ svc' = "reset" /\ op' = [op EXCEPT !.recover = "none"]
    /\ UNCHANGED <<sys, store, panel, queued, unsaved, spoilt, cmdVars>>

HandleReset ==
    /\ sys # "boot" /\ svc = "reset"
    /\ IF op.reset THEN sys' = "boot" /\ owed' = owed \ {"reset"}
       ELSE UNCHANGED <<sys, owed>>
    /\ svc' = "end"
    /\ UNCHANGED <<op, store, panel, queued, unsaved, spoilt, calm>>

HandleEnd ==
    /\ sys # "boot" /\ svc = "end" /\ svc' = "idle" /\ op' = [op EXCEPT !.valid = FALSE]
    /\ UNCHANGED <<sys, store, panel, queued, unsaved, spoilt, cmdVars>>

----------------------------------------------------------------------------
\* Nothing feeds the watchdog any more.
Watchdog ==
    /\ sys = "hung" /\ sys' = "boot"
    /\ UNCHANGED <<op, store, svc, panel, queued, unsaved, spoilt, cmdVars>>

\* The start: the user area is loaded, everything else is as declared.
Boot ==
    /\ sys = "boot" /\ sys' = "run" /\ store' = [store EXCEPT !.ram = store.user]
    /\ op' = NoOp /\ svc' = "idle" /\ panel' = FALSE /\ queued' = FALSE
    /\ unsaved' = FALSE /\ owed' = {} /\ calm' = TRUE /\ UNCHANGED spoilt

Handler == service_task \/ HandleRecover \/ HandleClear \/ HandleReset \/ HandleEnd

Next ==
    \/ \E k \in Cmds : Command(k)
    \/ \E p \in Paras : Set(p) \/ SetUnsaved(p) \/ PanelSet(p)
    \/ Packet \/ OtherPacket \/ PanelSave \/ PanelRestore \/ Handler \/ Watchdog \/ Boot

\* service_task is periodic, the page that wrote a parameter goes on to save
\* it, the watchdog and the start do not depend on the program.
Spec ==
    /\ Init /\ [][Next]_vars
    /\ WF_vars(Handler) /\ WF_vars(PanelSave) /\ WF_vars(Watchdog) /\ WF_vars(Boot)

----------------------------------------------------------------------------
Known == Paras \cup {"mixed"}

\* Every variable keeps its type.
TypeOK ==
    /\ sys \in {"run", "hung", "boot"}
    /\ op \in [recover : Recovers \cup {"none"}, reset : BOOLEAN, valid : BOOLEAN]
    /\ store \in [ram : Known, user : Known, backup : Known,
                  factory : Known \cup {"bad", "void"}]
    /\ {panel, queued, unsaved, spoilt, calm} \subseteq BOOLEAN
    /\ svc \in {"idle", "act", "clear", "reset", "end"}
    /\ owed \subseteq Cmds

(***************************************************************************)
(* While the device runs, the parameters in use are those the next start   *)
(* will load, except for one that a page of the panel has written and is   *)
(* about to save, and for those that the code changes without a save       *)
(* (measure.c:737-785, 811-812, proto_char_cfg.c:536-553), until the next  *)
(* save of any group writes them too: no command, restore, save or reset   *)
(* in between leaves them apart (para.c:185-290).  And the mixture that an *)
(* abandoned restore leaves is never in use, unless a serial command that  *)
(* was waiting in the ring saved it before the watchdog came.              *)
(***************************************************************************)
InUseIsStored ==
    sys = "run" => /\ panel \/ unsaved \/ store.ram = store.user
                   /\ store.ram = "mixed" => spoilt

\* A critical section is left behind only when a restore finds no valid
\* factory area (para.c:252), whatever commands and saves came before: a
\* factory area that has once been saved is never the reason for a hang.
HangsKnown == sys = "hung" => store.factory \in {"bad", "void"}

\* The command k is written in sys_op.
Holds(k) == IF k = "reset" THEN op.reset ELSE op.recover = k

\* As long as commands do not overlap, an acknowledged command is still in
\* sys_op, marked valid, until service_task executes it: the clearing of
\* recover and valid never takes away one that came later.
NoneLost == calm /\ sys = "run" => \A k \in owed : op.valid /\ Holds(k)

\* Without overlaps sys_cmd_handler executes only the restores and saves it
\* owes: those acknowledged, and each of them once.
AsAsked ==
    [][calm /\ HandleRecover /\ op.recover # "none" => op.recover \in owed]_vars

\* Without overlaps every acknowledged command is executed, or a hang loses
\* it and the device starts again.
Executed == (owed # {} /\ calm) ~> (owed = {} \/ ~calm)
=============================================================================
