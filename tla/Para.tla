-------------------------------- MODULE Para --------------------------------
(***************************************************************************)
(* The parameter management module (app/para/para.c) on its two media:     *)
(* the user and factory areas in on-chip flash (bsp/periph/gd32_fmc.c) and *)
(* the backup area in the I2C EEPROM (app/arch/storage.c,                  *)
(* bsp/dev/eeprom.c).                                                      *)
(*                                                                         *)
(* Every area holds an image of sys_para: a magic word, the parameter      *)
(* groups in order and, at the end, one CRC word per group.  A save is a   *)
(* critical section, so only a power cut, a watchdog reset or a failing    *)
(* write interleaves with it; it is modelled cell by cell because a cut    *)
(* can fall between any two cells.                                         *)
(*                                                                         *)
(* A CRC word is represented by the value it was computed from: a group    *)
(* passes the check exactly when data and CRC word agree, which leaves     *)
(* CRC-16 collisions out.  A half-written group is Torn and an erased or   *)
(* half-written CRC word is NoCrc; neither ever passes.                    *)
(***************************************************************************)
EXTENDS Integers, FiniteSets

CONSTANTS
    NGroups,    \* PARA_TYPE_CNT
    Value,      \* contents of one parameter group
    DefVal,     \* a group of SYS_DEF_PARA
    BadAddr,    \* dev groups whose address lies outside the legal range
    Torn,       \* a group of which only some bytes were written
    NoCrc,      \* a CRC word that matches no group
    MaxFaults   \* bound on the number of failing reads and writes

Group == 1..NGroups
Dev == 1        \* PARA_DEV

ASSUME ParaAssumption ==
    /\ NGroups \in Nat \ {0}
    /\ DefVal \in Value \ BadAddr
    /\ BadAddr \subseteq Value
    /\ Torn \notin Value
    /\ NoCrc \notin Value
    /\ Torn # NoCrc
    /\ MaxFaults \in Nat

VARIABLES
    user, backup, factory,  \* the three storage areas
    ram,                    \* sys_para
    op,                     \* what the firmware is doing, see Ops
    toUser, toBackup, toFactory,  \* cells the running call has yet to write
    wholeBackup,            \* the running backup write covers the whole image
    commit,                 \* groups the running operation was asked to save
    acc,                    \* history: contents a boot may bring up
    faults,                 \* history: failing reads and writes so far
    cut,                    \* history: a power cut has interrupted a write
    forced                  \* history: an unsaved sys_para was sent to the
                            \* backup area alone

areas == <<user, backup, factory>>
todo == <<toUser, toBackup, toFactory>>
history == <<acc, faults, cut, forced>>
vars == <<user, backup, factory, ram, op, toUser, toBackup, toFactory,
          wholeBackup, commit, acc, faults, cut, forced>>

(***************************************************************************)
(* "hung" is the state in which pmm_restore_to_factory has returned        *)
(* without leaving its critical section: no other task runs any more and   *)
(* only the watchdog gets the device out of it.                            *)
(***************************************************************************)
Ops == {"off", "boot", "idle", "save", "hung"}

-----------------------------------------------------------------------------
(* The image of sys_para in an area, and its cells. *)

Area == [magic : BOOLEAN, data : [Group -> Value \cup {Torn}],
         crc : [Group -> Value \cup {NoCrc}]]

Erase == <<"erase", 0>>
Magic == <<"magic", 0>>
Data(g) == <<"data", g>>
Crc(g) == <<"crc", g>>

Cell == {Erase, Magic} \cup {Data(g) : g \in Group} \cup {Crc(g) : g \in Group}

Blank == [magic |-> FALSE, data |-> [g \in Group |-> Torn],
          crc |-> [g \in Group |-> NoCrc]]

(* Image order, and the order of the group-wise EEPROM save. *)
ImageRank(c) ==
    CASE c[1] = "erase" -> 0
      [] c[1] = "magic" -> 1
      [] c[1] = "data"  -> 1 + c[2]
      [] OTHER          -> 1 + NGroups + c[2]

GroupRank_CrcFirst(c) == IF c[1] = "data" THEN 2 * c[2] + 1 ELSE 2 * c[2]
GroupRank(c) == IF c[1] = "data" THEN 2 * c[2] ELSE 2 * c[2] + 1

FirstOf(cells, Rank(_)) == {c \in cells : \A d \in cells : Rank(c) <= Rank(d)}

(* The area after one cell of sys_para has been written to it. *)
Put(area, c) ==
    CASE c[1] = "erase" -> Blank
      [] c[1] = "magic" -> [area EXCEPT !.magic = TRUE]
      [] c[1] = "data"  -> [area EXCEPT !.data[c[2]] = ram[c[2]]]
      [] OTHER          -> [area EXCEPT !.crc[c[2]] = ram[c[2]]]

(* The EEPROM after the write of a cell broke off; unchanged bytes do not tear. *)
Tear(area, c) ==
    CASE c[1] = "data" /\ area.data[c[2]] # ram[c[2]] ->
            [area EXCEPT !.data[c[2]] = Torn]
      [] c[1] = "crc" /\ area.crc[c[2]] # ram[c[2]] ->
            [area EXCEPT !.crc[c[2]] = NoCrc]
      [] OTHER -> area

(* pmm_validate_para: the magic word and the group's own CRC. *)
Valid(area, g) == area.magic /\ area.data[g] = area.crc[g]
AllValid(area) == \A g \in Group : Valid(area, g)

-----------------------------------------------------------------------------
(* para_save_to_storage: the cells one call writes. *)

ImageCells == Cell \ {Erase}
GroupCells(mask) == {Data(g) : g \in mask} \cup {Crc(g) : g \in mask}

FlashCells == {Erase} \cup ImageCells
EepromCells(mask) == IF mask = Group THEN ImageCells ELSE GroupCells(mask)

(* Starts the calls that write to the user area and then to the backup area. *)
StartSave(u, mask) ==
    /\ toUser' = u
    /\ toBackup' = EepromCells(mask)
    /\ wholeBackup' = (mask = Group)
    /\ UNCHANGED toFactory

Init ==
    /\ user = Blank
    /\ backup = Blank
    /\ \/ factory = Blank
       \/ \E v \in [Group -> Value] :
            factory = [magic |-> TRUE, data |-> v, crc |-> v]
    /\ ram = [g \in Group |-> DefVal]
    /\ op = "off"
    /\ toUser = {} /\ toBackup = {} /\ toFactory = {}
    /\ wholeBackup = FALSE
    /\ commit = {}
    /\ acc = [g \in Group |-> IF Valid(factory, g) THEN {factory.data[g]}
                                                   ELSE {DefVal}]
    /\ faults = 0 /\ cut = FALSE /\ forced = FALSE

-----------------------------------------------------------------------------
(***************************************************************************)
(* An operator named Op_Variant, here and below, is Op with a mistake in   *)
(* it; no specification uses it.                                           *)
(*                                                                         *)
(* para_init.  b is the backup image as the EEPROM driver returned it: the *)
(* area itself, or zeros when the read failed.                             *)
(***************************************************************************)
Restored_SkipBackup(b, g) ==
    IF Valid(user, g) THEN user.data[g]
    ELSE IF Valid(factory, g) THEN factory.data[g]
    ELSE DefVal

Restored(b, g) ==
    IF Valid(user, g) THEN user.data[g]
    ELSE IF Valid(b, g) THEN b.data[g]
    ELSE IF Valid(factory, g) THEN factory.data[g]
    ELSE DefVal

InvalidGroups(area) == {g \in Group : ~Valid(area, g)}

(* Backup groups that repair_invalid_storage or the CRC comparison rewrites. *)
BackupRepair(b) ==
    IF AllValid(user)
    THEN IF \E g \in Group : user.crc[g] # b.crc[g] THEN Group ELSE {}
    ELSE InvalidGroups(b)

UserRepair == IF AllValid(user) THEN {} ELSE FlashCells

ParaInit(readOk) ==
    LET b == IF readOk THEN backup ELSE Blank
    IN  /\ op = "off"
        /\ readOk \/ faults < MaxFaults
        /\ ram' = [g \in Group |-> Restored(b, g)]
        /\ StartSave(UserRepair, BackupRepair(b))
        /\ op' = "boot"
        /\ commit' = {}
        /\ faults' = IF readOk THEN faults ELSE faults + 1
        /\ UNCHANGED <<areas, acc, cut, forced>>

(* The check of the device address that ends para_init. *)
RecheckAddr ==
    /\ op = "boot"
    /\ toUser = {} /\ toBackup = {}
    /\ IF ram[Dev] \in BadAddr
       THEN /\ ram' = [ram EXCEPT ![Dev] = DefVal]
            /\ acc' = [acc EXCEPT ![Dev] = @ \cup {DefVal}]
            /\ StartSave(FlashCells, {Dev})
            /\ commit' = {Dev}
            /\ op' = "save"
       ELSE /\ op' = "idle"
            /\ UNCHANGED <<ram, acc, todo, wholeBackup, commit>>
    /\ UNCHANGED <<areas, faults, cut, forced>>

-----------------------------------------------------------------------------
(* A command or menu handler assigns a group of sys_para. *)
Modify(g, v) ==
    /\ op = "idle"
    /\ g = Dev => v \notin BadAddr
    /\ ram' = [ram EXCEPT ![g] = v]
    /\ acc' = [acc EXCEPT ![g] = @ \cup {v}]
    /\ UNCHANGED <<areas, op, todo, wholeBackup, commit, faults, cut, forced>>

pmm_save_group(g) ==
    /\ op = "idle"
    /\ StartSave(FlashCells, {g})
    /\ commit' = {g}
    /\ op' = "save"
    /\ UNCHANGED <<areas, ram, history>>

pmm_restore_to_default ==
    /\ op = "idle"
    /\ ram' = [g \in Group |-> DefVal]
    /\ acc' = [g \in Group |-> acc[g] \cup {DefVal}]
    /\ StartSave(FlashCells, Group)
    /\ commit' = Group
    /\ op' = "save"
    /\ UNCHANGED <<areas, faults, cut, forced>>

(* An invalid group of the factory area makes the function return at once, *)
(* after the valid groups have been copied and without EXIT_CRITICAL.      *)
pmm_restore_to_factory ==
    LET loaded == [g \in Group |-> IF Valid(factory, g) THEN factory.data[g]
                                                        ELSE ram[g]]
    IN  /\ op = "idle"
        /\ ram' = loaded
        /\ acc' = [g \in Group |-> acc[g] \cup {loaded[g]}]
        /\ IF AllValid(factory)
           THEN /\ StartSave(FlashCells, Group)
                /\ commit' = Group
                /\ op' = "save"
           ELSE /\ op' = "hung"
                /\ UNCHANGED <<todo, wholeBackup, commit>>
        /\ UNCHANGED <<areas, faults, cut, forced>>

pmm_save_to_factory ==
    /\ op = "idle"
    /\ toFactory' = FlashCells
    /\ commit' = {}
    /\ op' = "save"
    /\ UNCHANGED <<areas, ram, toUser, toBackup, wholeBackup, history>>

pmm_save_to_backup ==
    /\ op = "idle"
    /\ StartSave({}, Group)
    /\ commit' = {}
    /\ op' = "save"
    /\ forced' = (forced \/ ram # user.data)
    /\ UNCHANGED <<areas, ram, acc, faults, cut>>

-----------------------------------------------------------------------------
(* Writing: gdf_write_data_by_page on flash, at24c_write on the EEPROM. *)

NextUser == FirstOf(toUser, ImageRank)
NextFactory == FirstOf(toFactory, ImageRank)
NextBackup == IF wholeBackup THEN FirstOf(toBackup, ImageRank)
                             ELSE FirstOf(toBackup, GroupRank)

WriteUser ==
    \E c \in NextUser :
        /\ user' = Put(user, c)
        /\ toUser' = toUser \ {c}
        /\ UNCHANGED <<backup, factory, ram, op, toBackup, toFactory,
                       wholeBackup, commit, history>>

WriteBackup ==
    /\ toUser = {}
    /\ \E c \in NextBackup :
        /\ backup' = Put(backup, c)
        /\ toBackup' = toBackup \ {c}
        /\ UNCHANGED <<user, factory, ram, op, toUser, toFactory,
                       wholeBackup, commit, history>>

WriteFactory ==
    \E c \in NextFactory :
        /\ factory' = Put(factory, c)
        /\ toFactory' = toFactory \ {c}
        /\ UNCHANGED <<user, backup, ram, op, toUser, toBackup,
                       wholeBackup, commit, history>>

Fault ==
    /\ faults < MaxFaults
    /\ faults' = faults + 1
    /\ UNCHANGED <<acc, cut, forced>>

FlashFails_GiveUp ==
    /\ Fault
    /\ \/ toUser # {} /\ toUser' = {} /\ toBackup' = {} /\ UNCHANGED toFactory
       \/ toFactory # {} /\ toFactory' = {} /\ UNCHANGED <<toUser, toBackup>>
    /\ UNCHANGED <<areas, ram, op, wholeBackup, commit>>

(* A word fails to program, for instance because lvd_handler has locked    *)
(* the flash controller meanwhile: the rest of the image is not written.   *)
(* For the user area the log then says "saved error", so nothing counts as *)
(* saved.                                                                  *)
FlashFails ==
    /\ Fault
    /\ \/ toUser # {} /\ toUser' = {} /\ commit' = {} /\ UNCHANGED toFactory
       \/ toFactory # {} /\ toFactory' = {} /\ UNCHANGED <<toUser, commit>>
    /\ UNCHANGED <<areas, ram, op, toBackup, wholeBackup>>

(* The EEPROM stops acknowledging.  With no byte of the call written the    *)
(* driver reports failure and the call ends; once a page has been written   *)
(* it reports success, and a group-wise save goes on to the next cell.      *)
EepromFails ==
    /\ Fault
    /\ toUser = {}
    /\ \E c \in NextBackup :
        \/ /\ toBackup' = {}
           /\ backup' \in {backup, Tear(backup, c)}
        \/ /\ ~wholeBackup
           /\ toBackup' = toBackup \ {c}
           /\ backup' = Tear(backup, c)
    /\ UNCHANGED <<user, factory, ram, op, toUser, toFactory, wholeBackup, commit>>

(* The operation returns: what it was asked to save now has to survive. *)
SaveReturns ==
    /\ op = "save"
    /\ toUser = {} /\ toBackup = {} /\ toFactory = {}
    /\ op' = "idle"
    /\ acc' = [g \in Group |-> IF g \in commit THEN {ram[g]} ELSE acc[g]]
    /\ commit' = {}
    /\ UNCHANGED <<areas, ram, todo, wholeBackup, faults, cut, forced>>

Writing == toUser # {} \/ toBackup # {} \/ toFactory # {}

(* Power is lost, or the watchdog fires, at any point.  A flash cell that    *)
(* was being programmed is as good as erased; an EEPROM cell may be torn.    *)
PowerCut ==
    /\ op # "off"
    /\ op' = "off"
    /\ \/ UNCHANGED backup
       \/ toUser = {} /\ \E c \in NextBackup : backup' = Tear(backup, c)
    /\ ram' = [g \in Group |-> DefVal]
    /\ toUser' = {} /\ toBackup' = {} /\ toFactory' = {}
    /\ wholeBackup' = FALSE
    /\ commit' = {}
    /\ cut' = (cut \/ Writing)
    /\ UNCHANGED <<user, factory, acc, faults, forced>>

Next ==
    \/ \E readOk \in BOOLEAN : ParaInit(readOk)
    \/ RecheckAddr
    \/ \E g \in Group : pmm_save_group(g) \/ \E v \in Value : Modify(g, v)
    \/ pmm_restore_to_default \/ pmm_restore_to_factory
    \/ pmm_save_to_factory \/ pmm_save_to_backup
    \/ WriteUser \/ WriteBackup \/ WriteFactory
    \/ FlashFails \/ EepromFails
    \/ SaveReturns \/ PowerCut

Spec == Init /\ [][Next]_vars

-----------------------------------------------------------------------------
(* Every variable keeps its type; in particular sys_para never holds a torn *)
(* group, whatever pmm_validate_para was given to read.                     *)
TypeOK ==
    /\ user \in Area /\ backup \in Area /\ factory \in Area
    /\ ram \in [Group -> Value]
    /\ op \in Ops
    /\ toUser \subseteq Cell /\ toBackup \subseteq Cell /\ toFactory \subseteq Cell
    /\ wholeBackup \in BOOLEAN
    /\ commit \subseteq Group
    /\ acc \in [Group -> SUBSET Value]
    /\ faults \in 0..MaxFaults
    /\ cut \in BOOLEAN /\ forced \in BOOLEAN

RunsOnSaved == op # "off" => \A g \in Group : ram[g] \in acc[g]

(* Durability of pmm_save_group and of the restore commands.  As long as no  *)
(* read or write of the media fails, the device never runs on a group older  *)
(* than its last completed save, however often power is cut and wherever in  *)
(* para_save_to_storage or repair_invalid_storage the cuts fall.  The one    *)
(* use of the module that is excluded is pmm_save_to_backup while sys_para   *)
(* holds changes the user area does not: see BootRepairs.                    *)
Durable == faults = 0 /\ ~forced => RunsOnSaved

(* One failing access is survived too, provided no write is ever cut short. *)
SurvivesOneFault == faults <= 1 /\ ~cut => RunsOnSaved

(* Between operations both copies of every group pass pmm_validate_para, so  *)
(* the redundancy lost to a power cut is back once para_init has finished.   *)
Redundant == AllValid(user) /\ AllValid(backup)
RedundantWhenIdle == faults = 0 /\ ~forced /\ op = "idle" => Redundant

(* The comment on repair_invalid_storage: invalid areas are repaired at      *)
(* start-up.  A boot without failing accesses leaves both areas valid.       *)
BootRepairs == faults = 0 /\ op = "idle" => Redundant
=============================================================================
