----------------------------- MODULE ParaProofs -----------------------------
(***************************************************************************)
(* Proofs about the parameter store, for every number of groups and every  *)
(* set of values: type correctness, the durability of saved groups under   *)
(* arbitrary power cuts, and their survival of one failing access.         *)
(***************************************************************************)
EXTENDS Para, TLAPS

Fallback(g) == IF Valid(factory, g) THEN factory.data[g] ELSE DefVal

(* Whatever looks intact in an area, magic word aside, may be brought up.   *)
Acceptable(area) ==
    \A g \in Group : area.data[g] = area.crc[g] => area.data[g] \in acc[g]

(* Before the first start-up has written the user area once. *)
Virgin ==
    /\ op \in {"off", "boot"}
    /\ backup = Blank
    /\ \A g \in Group : Fallback(g) \in acc[g]

(* The two areas are never damaged at the same time. *)
OneIntact == AllValid(user) \/ AllValid(backup) \/ Virgin

(* A user write under way: cells no longer pending hold sys_para. *)
UserProgress ==
    IF Erase \in toUser THEN FlashCells \subseteq toUser ELSE
        /\ Magic \notin toUser => user.magic
        /\ \A g \in Group : /\ Data(g) \notin toUser => user.data[g] = ram[g]
                            /\ Crc(g) \notin toUser => user.crc[g] = ram[g]

SavingUser == op = "boot" \/ (op = "save" /\ commit # {})

(* A backup write under way: groups not pending are intact, half-pending     *)
(* groups have their data in place, and groups being saved hold sys_para.    *)
BackupProgress ==
    op \in {"boot", "save"} =>
        /\ Erase \notin toBackup
        /\ Magic \notin toBackup => backup.magic
        /\ \A g \in Group :
            /\ Data(g) \in toBackup => Crc(g) \in toBackup
            /\ Crc(g) \notin toBackup => backup.data[g] = backup.crc[g]
            /\ Data(g) \notin toBackup /\ Crc(g) \in toBackup
                    => backup.data[g] = ram[g]
            /\ g \in commit /\ Data(g) \notin toBackup => backup.data[g] = ram[g]

(* The start-up comparison of CRC words finds every damaged backup group. *)
CrcTellsDamage ==
    AllValid(user) => \A g \in Group :
        backup.crc[g] = user.crc[g] => Valid(backup, g)

Shape ==
    /\ toUser # {} => op \in {"boot", "save"} /\ SavingUser
    /\ toBackup # {} => op \in {"boot", "save"}
    /\ toFactory # {} => op = "save"
    /\ commit # {} => op = "save"
    /\ toUser # {} => AllValid(backup) \/ Virgin
    /\ op # "off" /\ toUser = {} => AllValid(user)
    /\ op \in {"idle", "hung"} => AllValid(backup)
    /\ toBackup # {} /\ toUser = {} => user.data = ram
    /\ ~backup.magic => \A g \in Group : backup.crc[g] = NoCrc

SafeInv ==
    /\ RunsOnSaved
    /\ Acceptable(user) /\ Acceptable(backup)
    /\ OneIntact
    /\ SavingUser => UserProgress
    /\ BackupProgress
    /\ CrcTellsDamage
    /\ Shape

IInv == TypeOK /\ (faults = 0 /\ ~forced => SafeInv)
-----------------------------------------------------------------------------
(* The cells of an image are pairwise different. *)
LEMMA CellsDiffer ==
    /\ Erase # Magic
    /\ \A g, h \in Group : /\ Data(g) = Data(h) => g = h
                           /\ Crc(g) = Crc(h) => g = h
                           /\ Data(g) # Crc(h)
    /\ \A g \in Group : /\ Data(g) # Erase /\ Data(g) # Magic
                        /\ Crc(g) # Erase /\ Crc(g) # Magic
BY DEF Erase, Magic, Data, Crc

(* Writing a cell changes that cell and leaves an image. *)
LEMMA PutErase ==
    ASSUME NEW area PROVE Put(area, Erase) = Blank
BY DEF Put, Erase

LEMMA PutMagic ==
    ASSUME NEW area \in Area
    PROVE  /\ Put(area, Magic) \in Area
           /\ Put(area, Magic).magic = TRUE
           /\ Put(area, Magic).data = area.data
           /\ Put(area, Magic).crc = area.crc
<1>1. Put(area, Magic) = [area EXCEPT !.magic = TRUE]
  BY DEF Put, Magic
<1>2. QED
  BY <1>1 DEF Area

LEMMA PutData ==
    ASSUME TypeOK, NEW area \in Area, NEW g \in Group
    PROVE  /\ Put(area, Data(g)) \in Area
           /\ Put(area, Data(g)).magic = area.magic
           /\ Put(area, Data(g)).data = [area.data EXCEPT ![g] = ram[g]]
           /\ Put(area, Data(g)).crc = area.crc
<1>1. Put(area, Data(g)) = [area EXCEPT !.data[g] = ram[g]]
  BY DEF Put, Data
<1>2. QED
  BY <1>1 DEF Area, TypeOK

LEMMA PutCrc ==
    ASSUME TypeOK, NEW area \in Area, NEW g \in Group
    PROVE  /\ Put(area, Crc(g)) \in Area
           /\ Put(area, Crc(g)).magic = area.magic
           /\ Put(area, Crc(g)).data = area.data
           /\ Put(area, Crc(g)).crc = [area.crc EXCEPT ![g] = ram[g]]
<1>1. Put(area, Crc(g)) = [area EXCEPT !.crc[g] = ram[g]]
  BY DEF Put, Crc
<1>2. QED
  BY <1>1 DEF Area, TypeOK

(* A broken write damages at most the cell it was to change. *)
LEMMA TearOther ==
    ASSUME NEW area
    PROVE  Tear(area, Erase) = area /\ Tear(area, Magic) = area
BY DEF Tear, Erase, Magic

LEMMA TearData ==
    ASSUME NEW area \in Area, NEW g \in Group
    PROVE  LET torn == Tear(area, Data(g))
           IN  \/ torn = area
               \/ /\ area.data[g] # ram[g]
                  /\ torn \in Area
                  /\ torn.magic = area.magic
                  /\ torn.data = [area.data EXCEPT ![g] = Torn]
                  /\ torn.crc = area.crc
<1>1. CASE area.data[g] # ram[g]
  <2>1. Tear(area, Data(g)) = [area EXCEPT !.data[g] = Torn]
    BY <1>1 DEF Tear, Data
  <2>2. QED
    BY <1>1, <2>1 DEF Area
<1>2. CASE area.data[g] = ram[g]
  BY <1>2 DEF Tear, Data
<1>3. QED
  BY <1>1, <1>2

LEMMA TearCrc ==
    ASSUME NEW area \in Area, NEW g \in Group
    PROVE  LET torn == Tear(area, Crc(g))
           IN  \/ torn = area
               \/ /\ area.crc[g] # ram[g]
                  /\ torn \in Area
                  /\ torn.magic = area.magic
                  /\ torn.data = area.data
                  /\ torn.crc = [area.crc EXCEPT ![g] = NoCrc]
<1>1. CASE area.crc[g] # ram[g]
  <2>1. Tear(area, Crc(g)) = [area EXCEPT !.crc[g] = NoCrc]
    BY <1>1 DEF Tear, Crc
  <2>2. QED
    BY <1>1, <2>1 DEF Area
<1>2. CASE area.crc[g] = ram[g]
  BY <1>2 DEF Tear, Crc
<1>3. QED
  BY <1>1, <1>2

LEMMA BlankType == Blank \in Area
BY DEF Blank, Area

LEMMA AreaType ==
    ASSUME TypeOK, NEW area \in Area, NEW c \in Cell
    PROVE  Put(area, c) \in Area /\ Tear(area, c) \in Area
<1>1. CASE c = Erase
  BY <1>1, PutErase, TearOther, BlankType
<1>2. CASE c = Magic
  BY <1>2, PutMagic, TearOther
<1>3. ASSUME NEW g \in Group, c = Data(g)
      PROVE  Put(area, c) \in Area /\ Tear(area, c) \in Area
  BY <1>3, PutData, TearData
<1>4. ASSUME NEW g \in Group, c = Crc(g)
      PROVE  Put(area, c) \in Area /\ Tear(area, c) \in Area
  BY <1>4, PutCrc, TearCrc
<1>5. QED
  BY <1>1, <1>2, <1>3, <1>4 DEF Cell

(* The cells of a call are cells, and what an area passes as valid is a value. *)
LEMMA CellTypes ==
    ASSUME NEW mask \in SUBSET Group
    PROVE  EepromCells(mask) \subseteq Cell /\ FlashCells \subseteq Cell
BY DEF EepromCells, ImageCells, GroupCells, FlashCells, Cell

LEMMA ValidIsValue ==
    ASSUME NEW area \in Area, NEW g \in Group, area.data[g] = area.crc[g]
    PROVE  area.data[g] \in Value
BY ParaAssumption DEF Area

LEMMA DevIsGroup == Dev \in Group
BY ParaAssumption DEF Dev, Group

LEMMA NextCells == /\ NextUser \subseteq toUser
                   /\ NextBackup \subseteq toBackup
                   /\ NextFactory \subseteq toFactory
BY DEF NextUser, NextBackup, NextFactory, FirstOf

-----------------------------------------------------------------------------
LEMMA InitType == Init => TypeOK
<1> SUFFICES ASSUME Init PROVE TypeOK
  OBVIOUS
<1>1. factory \in Area
  <2>1. CASE factory = Blank
    BY <2>1, BlankType
  <2>2. ASSUME NEW v \in [Group -> Value],
               factory = [magic |-> TRUE, data |-> v, crc |-> v]
        PROVE  factory \in Area
    BY <2>2 DEF Area
  <2>3. QED
    BY <2>1, <2>2 DEF Init
<1>2. acc \in [Group -> SUBSET Value]
  BY <1>1, ValidIsValue, ParaAssumption DEF Init, Valid
<1>3. user \in Area /\ backup \in Area /\ ram \in [Group -> Value]
  BY BlankType, ParaAssumption DEF Init
<1>4. /\ toUser = {} /\ toBackup = {} /\ toFactory = {} /\ commit = {}
      /\ wholeBackup \in BOOLEAN /\ cut \in BOOLEAN /\ forced \in BOOLEAN
  BY DEF Init
<1>5. op \in Ops /\ faults \in 0..MaxFaults
  BY ParaAssumption DEF Init, Ops
<1>6. QED
  BY <1>1, <1>2, <1>3, <1>4, <1>5 DEF TypeOK

(* Type correctness: in particular sys_para is always made of proper values, *)
(* although para_init reads areas with torn groups.                          *)
THEOREM TypeCorrect == Spec => []TypeOK
<1>1. Init => TypeOK
  BY InitType
<1>2. TypeOK /\ [Next]_vars => TypeOK'
  <2> SUFFICES ASSUME TypeOK, [Next]_vars PROVE TypeOK'
    OBVIOUS
  <2>1. ASSUME NEW readOk \in BOOLEAN, ParaInit(readOk) PROVE TypeOK'
    <3> DEFINE b == IF readOk THEN backup ELSE Blank
    <3>1. b \in Area
      BY BlankType DEF TypeOK
    <3>2. \A g \in Group : Restored(b, g) \in Value
      BY <3>1, ValidIsValue, ParaAssumption DEF Restored, Valid, TypeOK
    <3>3. BackupRepair(b) \subseteq Group
      BY DEF BackupRepair, InvalidGroups
    <3>4. UserRepair \subseteq Cell /\ EepromCells(BackupRepair(b)) \subseteq Cell
      BY <3>3, CellTypes DEF UserRepair
    <3> HIDE DEF b
    <3>5. /\ ram' \in [Group -> Value] /\ op' = "boot" /\ commit' = {}
          /\ toUser' \subseteq Cell /\ toBackup' \subseteq Cell
          /\ toFactory' = toFactory /\ wholeBackup' \in BOOLEAN
          /\ faults' \in 0..MaxFaults
      BY <2>1, <3>2, <3>4, ParaAssumption DEF ParaInit, StartSave, TypeOK, b
    <3>6. UNCHANGED <<user, backup, factory, acc, cut, forced>>
      BY <2>1 DEF ParaInit, areas
    <3>7. QED
      BY <3>5, <3>6 DEF TypeOK, Ops
  <2>2. CASE RecheckAddr
    <3>1. CASE ram[Dev] \in BadAddr
      BY <2>2, <3>1, CellTypes, DevIsGroup, ParaAssumption
      DEF RecheckAddr, StartSave, areas, TypeOK, Ops
    <3>2. CASE ram[Dev] \notin BadAddr
      BY <2>2, <3>2 DEF RecheckAddr, areas, todo, TypeOK, Ops
    <3>3. QED
      BY <3>1, <3>2
  <2>3. ASSUME NEW g \in Group, NEW v \in Value, Modify(g, v) PROVE TypeOK'
    BY <2>3 DEF Modify, areas, todo, TypeOK
  <2>4. ASSUME NEW g \in Group, pmm_save_group(g) PROVE TypeOK'
    BY <2>4, CellTypes DEF pmm_save_group, StartSave, areas, history, TypeOK, Ops
  <2>5. CASE pmm_restore_to_default
    BY <2>5, CellTypes, ParaAssumption
    DEF pmm_restore_to_default, StartSave, areas, TypeOK, Ops
  <2>6. CASE pmm_restore_to_factory
    <3>1. \A g \in Group : Valid(factory, g) => factory.data[g] \in Value
      BY ValidIsValue DEF Valid, TypeOK
    <3>2. ram' \in [Group -> Value] /\ acc' \in [Group -> SUBSET Value]
      BY <2>6, <3>1 DEF pmm_restore_to_factory, TypeOK
    <3>3. CASE AllValid(factory)
      BY <2>6, <3>2, <3>3, CellTypes
      DEF pmm_restore_to_factory, StartSave, areas, TypeOK, Ops
    <3>4. CASE ~AllValid(factory)
      BY <2>6, <3>2, <3>4 DEF pmm_restore_to_factory, areas, todo, TypeOK, Ops
    <3>5. QED
      BY <3>3, <3>4
  <2>7. CASE pmm_save_to_factory
    BY <2>7, CellTypes DEF pmm_save_to_factory, areas, history, TypeOK, Ops
  <2>8. CASE pmm_save_to_backup
    BY <2>8, CellTypes DEF pmm_save_to_backup, StartSave, areas, TypeOK, Ops
  <2>9. CASE WriteUser
    BY <2>9, NextCells, AreaType DEF WriteUser, history, TypeOK
  <2>10. CASE WriteBackup
    BY <2>10, NextCells, AreaType DEF WriteBackup, history, TypeOK
  <2>11. CASE WriteFactory
    BY <2>11, NextCells, AreaType DEF WriteFactory, history, TypeOK
  <2>12. CASE FlashFails
    BY <2>12, ParaAssumption DEF FlashFails, Fault, areas, TypeOK
  <2>13. CASE EepromFails
    BY <2>13, NextCells, AreaType, ParaAssumption DEF EepromFails, Fault, TypeOK
  <2>14. CASE SaveReturns
    BY <2>14 DEF SaveReturns, areas, todo, TypeOK, Ops
  <2>15. CASE PowerCut
    <3>1. backup' \in Area
      <4>1. CASE UNCHANGED backup
        BY <4>1 DEF TypeOK
      <4>2. ASSUME NEW c \in NextBackup, backup' = Tear(backup, c)
            PROVE  backup' \in Area
        <5>1. c \in Cell /\ backup \in Area
          BY NextCells DEF TypeOK
        <5>. QED  BY <4>2, <5>1, AreaType
      <4>. QED  BY <2>15, <4>1, <4>2 DEF PowerCut
    <3>2. user' \in Area /\ factory' \in Area /\ acc' \in [Group -> SUBSET Value]
      BY <2>15 DEF PowerCut, TypeOK
    <3>3. ram' \in [Group -> Value]
      BY <2>15, ParaAssumption DEF PowerCut
    <3>4. op' \in Ops /\ faults' \in 0..MaxFaults
      BY <2>15 DEF PowerCut, TypeOK, Ops
    <3>5. cut' \in BOOLEAN /\ forced' \in BOOLEAN /\ wholeBackup' \in BOOLEAN
      BY <2>15 DEF PowerCut, Writing, TypeOK
    <3>6. toUser' = {} /\ toBackup' = {} /\ toFactory' = {} /\ commit' = {}
      BY <2>15 DEF PowerCut
    <3>. QED  BY <3>1, <3>2, <3>3, <3>4, <3>5, <3>6 DEF TypeOK
  <2>16. CASE UNCHANGED vars
    BY <2>16 DEF vars, TypeOK
  <2>17. QED
    BY <2>1, <2>2, <2>3, <2>4, <2>5, <2>6, <2>7, <2>8, <2>9, <2>10, <2>11,
       <2>12, <2>13, <2>14, <2>15, <2>16 DEF Next
<1>3. QED
  BY <1>1, <1>2, PTL DEF Spec

-----------------------------------------------------------------------------
(* Membership in the cells of a call, and the order in which they are written. *)
LEMMA EepromMember ==
    ASSUME NEW mask \in SUBSET Group
    PROVE  /\ Erase \notin EepromCells(mask)
           /\ Magic \in EepromCells(mask) <=> mask = Group
           /\ \A g \in Group : /\ Data(g) \in EepromCells(mask) <=> g \in mask
                               /\ Crc(g) \in EepromCells(mask) <=> g \in mask
<1>1. CASE mask = Group
  BY <1>1, CellsDiffer DEF EepromCells, ImageCells, Cell
<1>2. CASE mask # Group
  <2>1. EepromCells(mask) = {Data(g) : g \in mask} \cup {Crc(g) : g \in mask}
    BY <1>2 DEF EepromCells, GroupCells
  <2>2. Erase \notin EepromCells(mask) /\ Magic \notin EepromCells(mask)
    BY <2>1, CellsDiffer
  <2>3. ASSUME NEW g \in Group
        PROVE  /\ Data(g) \in EepromCells(mask) <=> g \in mask
               /\ Crc(g) \in EepromCells(mask) <=> g \in mask
    <3>1. g \in mask => Data(g) \in EepromCells(mask) /\ Crc(g) \in EepromCells(mask)
      BY <2>1
    <3>2. Data(g) \in EepromCells(mask) => g \in mask
      <4> SUFFICES ASSUME Data(g) \in EepromCells(mask) PROVE g \in mask
        OBVIOUS
      <4>1. CASE Data(g) \in {Data(h) : h \in mask}
        <5>1. PICK h \in mask : Data(g) = Data(h)
          BY <4>1
        <5>2. QED
          BY <5>1 DEF Data, Crc
      <4>2. CASE Data(g) \in {Crc(h) : h \in mask}
        <5>1. PICK h \in mask : Data(g) = Crc(h)
          BY <4>2
        <5>2. QED
          BY <5>1 DEF Data, Crc
      <4>3. QED
        BY <2>1, <4>1, <4>2
    <3>3. Crc(g) \in EepromCells(mask) => g \in mask
      <4> SUFFICES ASSUME Crc(g) \in EepromCells(mask) PROVE g \in mask
        OBVIOUS
      <4>1. CASE Crc(g) \in {Data(h) : h \in mask}
        <5>1. PICK h \in mask : Crc(g) = Data(h)
          BY <4>1
        <5>2. QED
          BY <5>1 DEF Data, Crc
      <4>2. CASE Crc(g) \in {Crc(h) : h \in mask}
        <5>1. PICK h \in mask : Crc(g) = Crc(h)
          BY <4>2
        <5>2. QED
          BY <5>1 DEF Data, Crc
      <4>3. QED
        BY <2>1, <4>1, <4>2
    <3>4. QED
      BY <3>1, <3>2, <3>3
  <2>4. QED
    BY <1>2, <2>2, <2>3
<1>3. QED
  BY <1>1, <1>2

LEMMA FlashMember ==
    /\ Erase \in FlashCells /\ Magic \in FlashCells
    /\ \A g \in Group : Data(g) \in FlashCells /\ Crc(g) \in FlashCells
BY CellsDiffer DEF FlashCells, ImageCells, Cell

(* The user area is erased before anything is programmed into it. *)
LEMMA EraseFirst ==
    ASSUME TypeOK, Erase \in toUser, NEW c \in NextUser PROVE c = Erase
<1>1. c \in Cell /\ ImageRank(c) <= ImageRank(Erase)
  BY NextCells DEF NextUser, FirstOf, TypeOK
<1>2. ImageRank(Erase) = 0 /\ ImageRank(Magic) = 1
  BY DEF ImageRank, Erase, Magic
<1>3. \A g \in Group : ImageRank(Data(g)) = 1 + g
  BY DEF ImageRank, Data
<1>4. \A g \in Group : ImageRank(Crc(g)) = 1 + NGroups + g
  BY DEF ImageRank, Crc
<1>5. QED
  BY <1>1, <1>2, <1>3, <1>4, ParaAssumption DEF Cell, Group

(* A CRC word of the backup area is written after the magic word and after   *)
(* the group it covers, in both orders of writing.                           *)
LEMMA CrcLast ==
    ASSUME NEW g \in Group, Crc(g) \in NextBackup
    PROVE  Data(g) \notin toBackup /\ Magic \notin toBackup
<1>1. /\ ImageRank(Magic) = 1 /\ ImageRank(Data(g)) = 1 + g
      /\ ImageRank(Crc(g)) = 1 + NGroups + g
  BY DEF ImageRank, Magic, Data, Crc
<1>2. /\ GroupRank(Magic) = 1 /\ GroupRank(Data(g)) = 2 * g
      /\ GroupRank(Crc(g)) = 2 * g + 1
  BY DEF GroupRank, Magic, Data, Crc
<1>3. CASE wholeBackup
  <2>1. \A d \in toBackup : ImageRank(Crc(g)) <= ImageRank(d)
    BY <1>3 DEF NextBackup, FirstOf
  <2>2. QED
    BY <1>1, <2>1, ParaAssumption DEF Group
<1>4. CASE ~wholeBackup
  <2>1. \A d \in toBackup : GroupRank(Crc(g)) <= GroupRank(d)
    BY <1>4 DEF NextBackup, FirstOf
  <2>2. QED
    BY <1>2, <2>1, ParaAssumption DEF Group
<1>5. QED
  BY <1>3, <1>4

LEMMA IntactHasMagic ==
    ASSUME NEW area, AllValid(area)
    PROVE  /\ area.magic
           /\ \A g \in Group : area.data[g] = area.crc[g]
BY DevIsGroup DEF AllValid, Valid

(* When nothing is pending at the end of a write, the areas are intact. *)
LEMMA WritesDone ==
    ASSUME TypeOK, SafeInv, toUser = {}, toBackup = {}, op # "off"
    PROVE  AllValid(user) /\ AllValid(backup)
<1>1. AllValid(user)
  BY DEF SafeInv, Shape
<1>2. CASE op \in {"boot", "save"}
  BY <1>1, <1>2 DEF SafeInv, BackupProgress, AllValid, Valid
<1>3. CASE op \in {"idle", "hung"}
  BY <1>1, <1>3 DEF SafeInv, Shape
<1>4. QED
  BY <1>1, <1>2, <1>3 DEF TypeOK, Ops

-----------------------------------------------------------------------------
(* The inductive invariant holds of a device fresh from production. *)
LEMMA InitSafe == Init => SafeInv
<1> SUFFICES ASSUME Init PROVE SafeInv
  OBVIOUS
<1>1. ~Blank.magic /\ \A g \in Group : Blank.data[g] = Torn /\ Blank.crc[g] = NoCrc
  BY DEF Blank
<1>2. ~AllValid(user) /\ ~AllValid(backup)
  BY <1>1, DevIsGroup DEF Init, AllValid, Valid
<1>3. Acceptable(user) /\ Acceptable(backup)
  BY <1>1, ParaAssumption DEF Init, Acceptable
<1>4. Virgin
  BY DEF Init, Virgin, Fallback
<1>5. RunsOnSaved /\ ~SavingUser /\ BackupProgress
  BY DEF Init, RunsOnSaved, SavingUser, BackupProgress
<1>6. Shape
  BY <1>1 DEF Init, Shape
<1>7. QED
  BY <1>2, <1>3, <1>4, <1>5, <1>6 DEF SafeInv, OneIntact, CrcTellsDamage

(* Widening what a boot may bring up keeps the areas acceptable. *)
LEMMA StillAcceptable ==
    ASSUME UNCHANGED areas, \A g \in Group : acc[g] \subseteq acc'[g],
           Acceptable(user), Acceptable(backup)
    PROVE  Acceptable(user)' /\ Acceptable(backup)'
BY DEF Acceptable, areas

LEMMA IntactUnchanged ==
    ASSUME UNCHANGED areas
    PROVE  /\ AllValid(user)' = AllValid(user)
           /\ AllValid(backup)' = AllValid(backup)
           /\ AllValid(factory)' = AllValid(factory)
BY DEF AllValid, Valid, areas

(* At the start of a backup write whatever is not pending is intact. *)
LEMMA BackupStarts ==
    ASSUME NEW mask \in SUBSET Group, toBackup' = EepromCells(mask),
           commit' \subseteq mask, mask # Group => backup'.magic,
           \A g \in Group \ mask : backup'.data[g] = backup'.crc[g]
    PROVE  BackupProgress'
<1>1. Erase \notin toBackup' /\ (Magic \in toBackup' <=> mask = Group)
  BY EepromMember
<1>2. ASSUME NEW g \in Group
      PROVE  /\ Data(g) \in toBackup' <=> g \in mask
             /\ Crc(g) \in toBackup' <=> g \in mask
  BY EepromMember
<1>3. QED
  BY <1>1, <1>2 DEF BackupProgress

(* Every operation that writes both areas starts from two intact copies. *)
LEMMA SaveStarts ==
    ASSUME TypeOK', AllValid(user), AllValid(backup),
           Acceptable(user), Acceptable(backup), UNCHANGED areas,
           NEW mask \in SUBSET Group, mask # {},
           StartSave(FlashCells, mask), toFactory = {},
           commit' = mask, op' = "save",
           \A g \in Group : acc[g] \subseteq acc'[g] /\ ram'[g] \in acc'[g]
    PROVE  SafeInv'
<1>1. Acceptable(user)' /\ Acceptable(backup)'
  BY StillAcceptable
<1>2. AllValid(user)' /\ AllValid(backup)'
  BY IntactUnchanged
<1>3. toUser' = FlashCells /\ toBackup' = EepromCells(mask) /\ toFactory' = {}
  BY DEF StartSave
<1>4. (SavingUser => UserProgress)'
  BY <1>3, FlashMember DEF UserProgress
<1>5. /\ backup'.magic
      /\ \A g \in Group : backup'.data[g] = backup'.crc[g]
  BY IntactHasMagic DEF areas
<1>6. BackupProgress'
  BY <1>3, <1>5, BackupStarts
<1>7. CrcTellsDamage'
  BY <1>2 DEF CrcTellsDamage, AllValid
<1>8. Shape'
  BY <1>2, <1>3, <1>5, FlashMember DEF Shape, SavingUser
<1>9. RunsOnSaved'
  BY DEF RunsOnSaved
<1>10. QED
  BY <1>1, <1>2, <1>4, <1>6, <1>7, <1>8, <1>9 DEF SafeInv, OneIntact

(* An operation that ends, or changes sys_para only, with both copies intact. *)
LEMMA Idles ==
    ASSUME TypeOK', AllValid(user), AllValid(backup), UNCHANGED areas,
           Acceptable(user)', Acceptable(backup)', RunsOnSaved',
           op' \in {"idle", "hung"},
           toUser' = {}, toBackup' = {}, toFactory' = {}, commit' = {}
    PROVE  SafeInv'
<1>1. AllValid(user)' /\ AllValid(backup)'
  BY IntactUnchanged
<1>2. backup'.magic
  BY IntactHasMagic DEF areas
<1>3. ~SavingUser' /\ BackupProgress' /\ CrcTellsDamage'
  BY <1>1 DEF SavingUser, BackupProgress, CrcTellsDamage, AllValid
<1>4. Shape'
  BY <1>1, <1>2 DEF Shape
<1>5. QED
  BY <1>1, <1>3, <1>4 DEF SafeInv, OneIntact

LEMMA IdleState ==
    ASSUME TypeOK, SafeInv, op = "idle"
    PROVE  /\ AllValid(user) /\ AllValid(backup)
           /\ Acceptable(user) /\ Acceptable(backup)
           /\ toUser = {} /\ toBackup = {} /\ toFactory = {} /\ commit = {}
           /\ \A g \in Group : ram[g] \in acc[g]
<1>1. toUser = {} /\ toBackup = {} /\ toFactory = {} /\ commit = {}
  BY DEF SafeInv, Shape
<1>2. QED
  BY <1>1, WritesDone DEF SafeInv, RunsOnSaved

(* A start-up with readable media brings up acceptable groups and repairs     *)
(* at most one of the two areas at a time.                                    *)
LEMMA ParaInitSafe ==
    ASSUME TypeOK, TypeOK', SafeInv, ParaInit(TRUE) PROVE SafeInv'
<1>1. /\ UNCHANGED areas /\ acc' = acc /\ op' = "boot" /\ commit' = {}
      /\ toFactory' = toFactory /\ op = "off"
      /\ ram' = [g \in Group |-> Restored(backup, g)]
      /\ toUser' = UserRepair
      /\ toBackup' = EepromCells(BackupRepair(backup))
  BY DEF ParaInit, StartSave
<1>2. Acceptable(user)' /\ Acceptable(backup)'
  BY <1>1, StillAcceptable DEF SafeInv
<1>3. toFactory' = {}
  BY <1>1 DEF SafeInv, Shape
<1>4. \A g \in Group : Restored(backup, g) \in acc[g]
  <2> TAKE g \in Group
  <2>1. CASE Valid(user, g)
    BY <2>1 DEF Restored, Valid, SafeInv, Acceptable
  <2>2. CASE ~Valid(user, g) /\ Valid(backup, g)
    BY <2>2 DEF Restored, Valid, SafeInv, Acceptable
  <2>3. CASE ~Valid(user, g) /\ ~Valid(backup, g)
    <3>1. Virgin
      BY <2>3 DEF SafeInv, OneIntact, AllValid
    <3>2. QED
      BY <2>3, <3>1 DEF Virgin, Fallback, Restored
  <2>4. QED
    BY <2>1, <2>2, <2>3
<1>5. RunsOnSaved'
  BY <1>1, <1>4 DEF RunsOnSaved
<1>6. (~backup.magic => \A g \in Group : backup.crc[g] = NoCrc)'
  BY <1>1 DEF SafeInv, Shape, areas
<1>7. CrcTellsDamage'
  BY <1>1 DEF SafeInv, CrcTellsDamage, AllValid, Valid, areas
<1>8. BackupRepair(backup) \in SUBSET Group
  BY DEF BackupRepair, InvalidGroups
<1>9. CASE AllValid(user)
  <2>1. toUser' = {} /\ AllValid(user)'
    BY <1>1, <1>9, IntactUnchanged DEF UserRepair
  <2>2. user'.magic /\ \A g \in Group : user'.data[g] = ram'[g] /\ user'.crc[g] = ram'[g]
    BY <1>1, <1>9, IntactHasMagic DEF Restored, AllValid, areas
  <2>3. user'.data = ram'
    BY <1>1, <2>2 DEF TypeOK, Area
  <2>4. UserProgress'
    BY <2>1, <2>2 DEF UserProgress
  <2>5. BackupProgress'
    <3>1. CASE BackupRepair(backup) = Group
      BY <1>1, <1>8, <3>1, BackupStarts
    <3>2. CASE BackupRepair(backup) # Group
      <4>1. \A g \in Group : user.crc[g] = backup.crc[g]
        BY <1>9, <3>2 DEF BackupRepair
      <4>2. AllValid(backup)
        BY <1>9, <4>1 DEF SafeInv, CrcTellsDamage, AllValid
      <4>3. backup'.magic /\ \A g \in Group : backup'.data[g] = backup'.crc[g]
        BY <1>1, <4>2, IntactHasMagic DEF areas
      <4>4. QED
        BY <1>1, <1>8, <4>3, BackupStarts
    <3>3. QED
      BY <3>1, <3>2
  <2>6. Shape'
    BY <1>1, <1>3, <1>6, <2>1, <2>3 DEF Shape
  <2>7. QED
    BY <1>2, <1>5, <1>7, <2>1, <2>4, <2>5, <2>6 DEF SafeInv, OneIntact
<1>10. CASE ~AllValid(user)
  <2>1. toUser' = FlashCells /\ BackupRepair(backup) = InvalidGroups(backup)
    BY <1>1, <1>10 DEF UserRepair, BackupRepair
  <2>2. AllValid(backup)' \/ Virgin'
    BY <1>1, <1>10, IntactUnchanged
    DEF SafeInv, OneIntact, Virgin, Fallback, Valid, areas
  <2>3. UserProgress' /\ SavingUser'
    BY <1>1, <2>1, FlashMember DEF UserProgress, SavingUser
  <2>4. BackupProgress'
    <3>1. \A g \in Group \ BackupRepair(backup) : Valid(backup, g)
      BY <2>1 DEF InvalidGroups
    <3>2. BackupRepair(backup) # Group => backup'.magic
      BY <1>1, <1>8, <3>1 DEF Valid, areas
    <3>3. \A g \in Group \ BackupRepair(backup) : backup'.data[g] = backup'.crc[g]
      BY <1>1, <3>1 DEF Valid, areas
    <3>4. QED
      BY <1>1, <1>8, <3>2, <3>3, BackupStarts
  <2>5. Shape'
    BY <1>1, <1>3, <1>6, <2>1, <2>2, <2>3, FlashMember DEF Shape
  <2>6. QED
    BY <1>2, <1>5, <1>7, <2>2, <2>3, <2>4, <2>5 DEF SafeInv, OneIntact
<1>11. QED
  BY <1>9, <1>10

LEMMA RecheckAddrSafe ==
    ASSUME TypeOK, TypeOK', SafeInv, RecheckAddr PROVE SafeInv'
<1>1. op = "boot" /\ toUser = {} /\ toBackup = {} /\ UNCHANGED areas
  BY DEF RecheckAddr
<1>2. /\ AllValid(user) /\ AllValid(backup)
      /\ Acceptable(user) /\ Acceptable(backup)
      /\ toFactory = {} /\ commit = {}
      /\ \A g \in Group : ram[g] \in acc[g]
  BY <1>1, WritesDone DEF SafeInv, Shape, RunsOnSaved
<1>3. CASE ram[Dev] \in BadAddr
  <2>1. \A g \in Group : acc[g] \subseteq acc'[g] /\ ram'[g] \in acc'[g]
    BY <1>2, <1>3, DevIsGroup DEF RecheckAddr, TypeOK
  <2>2. /\ StartSave(FlashCells, {Dev}) /\ commit' = {Dev} /\ op' = "save"
        /\ {Dev} \in SUBSET Group /\ {Dev} # {}
    BY <1>3, DevIsGroup DEF RecheckAddr
  <2>3. QED
    BY <1>1, <1>2, <2>1, <2>2, SaveStarts
<1>4. CASE ram[Dev] \notin BadAddr
  <2>1. /\ op' = "idle" /\ ram' = ram /\ acc' = acc /\ commit' = {}
        /\ toUser' = {} /\ toBackup' = {} /\ toFactory' = {}
    BY <1>1, <1>2, <1>4 DEF RecheckAddr, todo
  <2>2. RunsOnSaved' /\ Acceptable(user)' /\ Acceptable(backup)'
    BY <1>1, <1>2, <2>1, StillAcceptable DEF RunsOnSaved
  <2>3. QED
    BY <1>1, <1>2, <2>1, <2>2, Idles
<1>5. QED
  BY <1>3, <1>4

LEMMA ModifySafe ==
    ASSUME TypeOK, TypeOK', SafeInv, NEW g \in Group, NEW v \in Value, Modify(g, v)
    PROVE  SafeInv'
<1>1. op = "idle" /\ UNCHANGED <<areas, op, todo, commit>>
  BY DEF Modify
<1>2. \A h \in Group : acc[h] \subseteq acc'[h] /\ ram'[h] \in acc'[h]
  BY <1>1, IdleState DEF Modify, TypeOK
<1>3. /\ op' = "idle" /\ commit' = {} /\ UNCHANGED areas
      /\ toUser' = {} /\ toBackup' = {} /\ toFactory' = {}
  BY <1>1, IdleState DEF todo
<1>4. RunsOnSaved' /\ Acceptable(user)' /\ Acceptable(backup)'
  BY <1>1, <1>2, <1>3, IdleState, StillAcceptable DEF RunsOnSaved
<1>5. QED
  BY <1>1, <1>3, <1>4, IdleState, Idles

LEMMA SaveGroupSafe ==
    ASSUME TypeOK, TypeOK', SafeInv, NEW g \in Group, pmm_save_group(g)
    PROVE  SafeInv'
<1>1. /\ op = "idle" /\ op' = "save" /\ commit' = {g} /\ UNCHANGED areas
      /\ StartSave(FlashCells, {g}) /\ ram' = ram /\ acc' = acc
  BY DEF pmm_save_group, history
<1>2. {g} \in SUBSET Group /\ {g} # {}
  OBVIOUS
<1>3. QED
  BY <1>1, <1>2, IdleState, SaveStarts

LEMMA RestoreDefaultSafe ==
    ASSUME TypeOK, TypeOK', SafeInv, pmm_restore_to_default
    PROVE  SafeInv'
<1>1. /\ op = "idle" /\ op' = "save" /\ commit' = Group /\ UNCHANGED areas
      /\ StartSave(FlashCells, Group)
  BY DEF pmm_restore_to_default
<1>2. \A g \in Group : acc[g] \subseteq acc'[g] /\ ram'[g] \in acc'[g]
  BY DEF pmm_restore_to_default
<1>3. Group \in SUBSET Group /\ Group # {}
  BY DevIsGroup
<1>4. QED
  BY <1>1, <1>2, <1>3, IdleState, SaveStarts

LEMMA RestoreFactorySafe ==
    ASSUME TypeOK, TypeOK', SafeInv, pmm_restore_to_factory
    PROVE  SafeInv'
<1>1. op = "idle" /\ UNCHANGED areas
  BY DEF pmm_restore_to_factory
<1>2. \A g \in Group : acc[g] \subseteq acc'[g] /\ ram'[g] \in acc'[g]
  BY DEF pmm_restore_to_factory
<1>3. CASE AllValid(factory)
  <2>1. /\ op' = "save" /\ commit' = Group /\ StartSave(FlashCells, Group)
        /\ Group \in SUBSET Group /\ Group # {}
    BY <1>3, DevIsGroup DEF pmm_restore_to_factory
  <2>2. QED
    BY <1>1, <1>2, <2>1, IdleState, SaveStarts
<1>4. CASE ~AllValid(factory)
  <2>1. /\ op' = "hung" /\ commit' = {}
        /\ toUser' = {} /\ toBackup' = {} /\ toFactory' = {}
    BY <1>1, <1>4, IdleState DEF pmm_restore_to_factory, todo
  <2>2. RunsOnSaved' /\ Acceptable(user)' /\ Acceptable(backup)'
    BY <1>1, <1>2, IdleState, StillAcceptable DEF RunsOnSaved
  <2>3. QED
    BY <1>1, <2>1, <2>2, IdleState, Idles
<1>5. QED
  BY <1>3, <1>4

(* The two operations that leave the user area alone. *)
LEMMA SaveElsewhereSafe ==
    ASSUME TypeOK, TypeOK', SafeInv, ~forced',
           pmm_save_to_factory \/ pmm_save_to_backup
    PROVE  SafeInv'
<1>1. /\ op = "idle" /\ op' = "save" /\ commit' = {} /\ toUser' = {}
      /\ UNCHANGED areas /\ ram' = ram /\ acc' = acc
  BY IdleState DEF pmm_save_to_factory, pmm_save_to_backup, StartSave, history
<1>2. Acceptable(user)' /\ Acceptable(backup)' /\ RunsOnSaved'
  BY <1>1, IdleState, StillAcceptable DEF RunsOnSaved
<1>3. AllValid(user)' /\ AllValid(backup)' /\ ~SavingUser'
  BY <1>1, IdleState, IntactUnchanged DEF SavingUser
<1>4. backup'.magic /\ \A g \in Group : backup'.data[g] = backup'.crc[g]
  BY <1>1, IdleState, IntactHasMagic DEF areas
<1>5. CrcTellsDamage'
  BY <1>3 DEF CrcTellsDamage, AllValid
<1>6. CASE pmm_save_to_factory
  <2>1. toBackup' = {}
    BY <1>1, <1>6, IdleState DEF pmm_save_to_factory
  <2>2. BackupProgress'
    BY <1>1, <1>4, <2>1 DEF BackupProgress
  <2>3. Shape'
    BY <1>1, <1>3, <1>4, <2>1 DEF Shape
  <2>4. QED
    BY <1>2, <1>3, <1>5, <2>2, <2>3 DEF SafeInv, OneIntact
<1>7. CASE pmm_save_to_backup
  <2>1. toBackup' = EepromCells(Group) /\ toFactory' = {} /\ user'.data = ram'
    BY <1>1, <1>7, IdleState DEF pmm_save_to_backup, StartSave, areas, TypeOK
  <2>2. BackupProgress'
    BY <1>1, <1>4, <2>1, BackupStarts
  <2>3. Shape'
    BY <1>1, <1>3, <1>4, <2>1 DEF Shape
  <2>4. QED
    BY <1>2, <1>3, <1>5, <2>2, <2>3 DEF SafeInv, OneIntact
<1>8. QED
  BY <1>6, <1>7

(* One more cell of sys_para in the user area: the write stays on course and  *)
(* the area keeps nothing that must not be brought up.                       *)
LEMMA UserPut ==
    ASSUME TypeOK, UserProgress, Acceptable(user), NEW c \in NextUser,
           \A g \in Group : ram[g] \in acc[g],
           user' = Put(user, c), toUser' = toUser \ {c}, UNCHANGED <<ram, acc>>
    PROVE  UserProgress' /\ Acceptable(user)'
<1>1. CASE Erase \in toUser
  <2>1. c = Erase /\ user' = Blank
    BY <1>1, EraseFirst, PutErase
  <2>2. Magic \in toUser' /\ Erase \notin toUser'
    BY <1>1, <2>1, FlashMember, CellsDiffer DEF UserProgress
  <2>3. \A g \in Group : Data(g) \in toUser' /\ Crc(g) \in toUser'
    BY <1>1, <2>1, FlashMember, CellsDiffer DEF UserProgress
  <2>4. Acceptable(user)'
    BY <2>1, ParaAssumption DEF Acceptable, Blank
  <2>5. QED
    BY <2>2, <2>3, <2>4 DEF UserProgress
<1>2. CASE Erase \notin toUser
  <2>1. /\ Erase \notin toUser' /\ c # Erase
        /\ Magic \notin toUser => user.magic
        /\ \A g \in Group : /\ Data(g) \notin toUser => user.data[g] = ram[g]
                            /\ Crc(g) \notin toUser => user.crc[g] = ram[g]
    BY <1>2, NextCells DEF UserProgress
  <2>2. CASE c = Magic
    <3>1. user'.magic /\ user'.data = user.data /\ user'.crc = user.crc
      BY <2>2, PutMagic DEF TypeOK
    <3>2. QED
      BY <2>1, <2>2, <3>1, CellsDiffer
      DEF UserProgress, Acceptable
  <2>3. ASSUME NEW g \in Group, c = Data(g)
        PROVE  UserProgress' /\ Acceptable(user)'
    <3>1. /\ user'.magic = user.magic /\ user'.crc = user.crc
          /\ user'.data = [user.data EXCEPT ![g] = ram[g]]
      BY <2>3, PutData DEF TypeOK
    <3>2. \A h \in Group : user'.data[h] = IF h = g THEN ram[g] ELSE user.data[h]
      BY <3>1 DEF TypeOK, Area
    <3>3. Acceptable(user)'
      BY <3>1, <3>2 DEF Acceptable
    <3>4. QED
      BY <2>1, <2>3, <3>1, <3>2, <3>3, CellsDiffer DEF UserProgress
  <2>4. ASSUME NEW g \in Group, c = Crc(g)
        PROVE  UserProgress' /\ Acceptable(user)'
    <3>1. /\ user'.magic = user.magic /\ user'.data = user.data
          /\ user'.crc = [user.crc EXCEPT ![g] = ram[g]]
      BY <2>4, PutCrc DEF TypeOK
    <3>2. \A h \in Group : user'.crc[h] = IF h = g THEN ram[g] ELSE user.crc[h]
      BY <3>1 DEF TypeOK, Area
    <3>3. Acceptable(user)'
      BY <3>1, <3>2 DEF Acceptable
    <3>4. QED
      BY <2>1, <2>4, <3>1, <3>2, <3>3, CellsDiffer DEF UserProgress
  <2>5. QED
    BY <2>1, <2>2, <2>3, <2>4, NextCells DEF Cell, TypeOK
<1>3. QED
  BY <1>1, <1>2

(* Writing a cell of the user area: the backup area is intact meanwhile. *)
LEMMA WriteUserSafe ==
    ASSUME TypeOK, TypeOK', SafeInv, WriteUser PROVE SafeInv'
<1>1. PICK c \in NextUser :
        /\ user' = Put(user, c)
        /\ toUser' = toUser \ {c}
        /\ UNCHANGED <<backup, factory, ram, op, toBackup, toFactory,
                       wholeBackup, commit, history>>
  BY DEF WriteUser
<1>2. c \in toUser /\ c \in Cell /\ toUser # {}
  BY NextCells DEF TypeOK
<1>3. /\ op \in {"boot", "save"} /\ SavingUser /\ UserProgress
      /\ AllValid(backup) \/ Virgin
  BY <1>2 DEF SafeInv, Shape
<1>4. AllValid(backup)' \/ Virgin'
  BY <1>1, <1>3 DEF AllValid, Valid, Virgin, Fallback, history
<1>5. \A g \in Group : ram[g] \in acc[g]
  BY <1>3 DEF SafeInv, RunsOnSaved
<1>6. RunsOnSaved' /\ BackupProgress' /\ SavingUser'
  BY <1>1, <1>3 DEF SafeInv, RunsOnSaved, BackupProgress, SavingUser, history
<1>7. Acceptable(backup)'
  BY <1>1 DEF SafeInv, Acceptable, history
<1>8. UserProgress' /\ Acceptable(user)'
  BY <1>1, <1>3, <1>5, UserPut DEF SafeInv, history
<1>9. CrcTellsDamage'
  <2>1. CASE AllValid(backup)
    BY <1>1, <2>1 DEF CrcTellsDamage, AllValid, Valid
  <2>2. CASE Virgin
    <3>1. \A g \in Group : backup'.crc[g] = NoCrc
      BY <1>1, <2>2 DEF Virgin, Blank
    <3>2. AllValid(user)' => \A g \in Group : user'.crc[g] \in Value
      BY ValidIsValue DEF AllValid, Valid, TypeOK
    <3>3. QED
      BY <3>1, <3>2, ParaAssumption DEF CrcTellsDamage
  <2>3. QED
    BY <1>3, <2>1, <2>2
<1>10. ASSUME toUser' = {} PROVE AllValid(user)' /\ user'.data = ram'
  <2>1. user'.magic /\ \A g \in Group : user'.data[g] = ram'[g] /\ user'.crc[g] = ram'[g]
    BY <1>8, <1>10 DEF UserProgress
  <2>2. QED
    BY <2>1 DEF AllValid, Valid, TypeOK, Area
<1>11. Shape'
  BY <1>1, <1>3, <1>4, <1>6, <1>10 DEF SafeInv, Shape
<1>12. QED
  BY <1>4, <1>6, <1>7, <1>8, <1>9, <1>11 DEF SafeInv, OneIntact

(* The backup area is written only while the user area is intact and holds   *)
(* sys_para, and a CRC word only after the group it covers.                  *)
LEMMA BackupWriteState ==
    ASSUME TypeOK, SafeInv, toUser = {}, toBackup # {}
    PROVE  /\ op \in {"boot", "save"} /\ AllValid(user)
           /\ \A g \in Group : /\ user.data[g] = ram[g] /\ user.crc[g] = ram[g]
                               /\ ram[g] \in acc[g]
<1>1. op \in {"boot", "save"} /\ AllValid(user) /\ user.data = ram
  BY DEF SafeInv, Shape
<1>2. QED
  BY <1>1, IntactHasMagic DEF SafeInv, RunsOnSaved

(* The same for a cell of the backup area. *)
LEMMA BackupPut ==
    ASSUME TypeOK, BackupProgress, Acceptable(backup), NEW c \in NextBackup,
           op \in {"boot", "save"}, \A g \in Group : ram[g] \in acc[g],
           backup' = Put(backup, c), toBackup' = toBackup \ {c},
           UNCHANGED <<ram, acc, commit, op>>
    PROVE  BackupProgress' /\ Acceptable(backup)'
<1>1. c \in toBackup /\ c \in Cell
  BY NextCells DEF TypeOK
<1>2. /\ Erase \notin toBackup
      /\ Magic \notin toBackup => backup.magic
      /\ \A g \in Group :
            /\ Data(g) \in toBackup => Crc(g) \in toBackup
            /\ Crc(g) \notin toBackup => backup.data[g] = backup.crc[g]
            /\ Data(g) \notin toBackup /\ Crc(g) \in toBackup
                    => backup.data[g] = ram[g]
            /\ g \in commit /\ Data(g) \notin toBackup => backup.data[g] = ram[g]
  BY DEF BackupProgress
<1>3. CASE c = Magic
  <2>1. backup'.magic /\ backup'.data = backup.data /\ backup'.crc = backup.crc
    BY <1>3, PutMagic DEF TypeOK
  <2>2. BackupProgress'
    BY <1>2, <1>3, <2>1, CellsDiffer DEF BackupProgress
  <2>3. QED
    BY <2>1, <2>2 DEF Acceptable
<1>4. ASSUME NEW g \in Group, c = Data(g)
      PROVE  BackupProgress' /\ Acceptable(backup)'
  <2>1. /\ backup'.magic = backup.magic /\ backup'.crc = backup.crc
        /\ backup'.data = [backup.data EXCEPT ![g] = ram[g]]
    BY <1>4, PutData DEF TypeOK
  <2>2. \A h \in Group : backup'.data[h] = IF h = g THEN ram[g] ELSE backup.data[h]
    BY <2>1 DEF TypeOK, Area
  <2>3. BackupProgress'
    BY <1>1, <1>2, <1>4, <2>1, <2>2, CellsDiffer DEF BackupProgress
  <2>4. QED
    BY <2>1, <2>2, <2>3 DEF Acceptable
<1>5. ASSUME NEW g \in Group, c = Crc(g)
      PROVE  BackupProgress' /\ Acceptable(backup)'
  <2>1. /\ backup'.magic = backup.magic /\ backup'.data = backup.data
        /\ backup'.crc = [backup.crc EXCEPT ![g] = ram[g]]
    BY <1>5, PutCrc DEF TypeOK
  <2>2. \A h \in Group : backup'.crc[h] = IF h = g THEN ram[g] ELSE backup.crc[h]
    BY <2>1 DEF TypeOK, Area
  <2>3. backup.magic /\ backup.data[g] = ram[g] /\ Data(g) \notin toBackup
    BY <1>1, <1>2, <1>5, CrcLast
  <2>4. BackupProgress'
    <3>1. /\ toBackup' = toBackup \ {Crc(g)} /\ ram' = ram /\ commit' = commit
          /\ Erase \notin toBackup' /\ (Magic \notin toBackup' => backup'.magic)
      BY <1>2, <1>5, <2>1, CellsDiffer
    <3>2. /\ \A h \in Group : Data(h) \in toBackup' <=> Data(h) \in toBackup
          /\ \A h \in Group : Crc(h) \in toBackup' <=> Crc(h) \in toBackup /\ h # g
      BY <3>1, CellsDiffer
    <3>3. ASSUME NEW h \in Group
          PROVE  /\ Data(h) \in toBackup' => Crc(h) \in toBackup'
                 /\ Crc(h) \notin toBackup' => backup'.data[h] = backup'.crc[h]
                 /\ Data(h) \notin toBackup' /\ Crc(h) \in toBackup'
                         => backup'.data[h] = ram'[h]
                 /\ h \in commit' /\ Data(h) \notin toBackup'
                         => backup'.data[h] = ram'[h]
      <4>1. CASE h = g
        BY <4>1, <3>1, <3>2, <2>1, <2>2, <2>3
      <4>2. CASE h # g
        BY <4>2, <1>2, <3>1, <3>2, <2>1, <2>2
      <4>3. QED
        BY <4>1, <4>2
    <3>4. QED
      BY <3>1, <3>3 DEF BackupProgress
  <2>5. QED
    BY <2>1, <2>2, <2>4 DEF Acceptable
<1>6. QED
  BY <1>1, <1>2, <1>3, <1>4, <1>5 DEF Cell

LEMMA WriteBackupSafe ==
    ASSUME TypeOK, TypeOK', SafeInv, WriteBackup PROVE SafeInv'
<1>1. PICK c \in NextBackup :
        /\ toUser = {}
        /\ backup' = Put(backup, c)
        /\ toBackup' = toBackup \ {c}
        /\ UNCHANGED <<user, factory, ram, op, toUser, toFactory,
                       wholeBackup, commit, history>>
  BY DEF WriteBackup
<1>2. c \in toBackup /\ c \in Cell /\ toBackup # {}
  BY NextCells DEF TypeOK
<1>3. /\ op \in {"boot", "save"} /\ AllValid(user)
      /\ \A g \in Group : /\ user.data[g] = ram[g] /\ user.crc[g] = ram[g]
                          /\ ram[g] \in acc[g]
  BY <1>1, <1>2, BackupWriteState
<1>4. /\ Erase \notin toBackup
      /\ Magic \notin toBackup => backup.magic
      /\ \A g \in Group :
            /\ Data(g) \in toBackup => Crc(g) \in toBackup
            /\ Crc(g) \notin toBackup => backup.data[g] = backup.crc[g]
            /\ Data(g) \notin toBackup /\ Crc(g) \in toBackup
                    => backup.data[g] = ram[g]
            /\ g \in commit /\ Data(g) \notin toBackup => backup.data[g] = ram[g]
  BY <1>3 DEF SafeInv, BackupProgress
<1>5. \A g \in Group : backup.crc[g] = ram[g]
                            => backup.magic /\ backup.data[g] = backup.crc[g]
  BY <1>3 DEF SafeInv, CrcTellsDamage, Valid
<1>6. AllValid(user)' /\ Acceptable(user)' /\ RunsOnSaved'
  BY <1>1, <1>3 DEF SafeInv, AllValid, Valid, Acceptable, RunsOnSaved, history
<1>7. (SavingUser => UserProgress)'
  BY <1>1 DEF SafeInv, SavingUser, UserProgress
<1>8. BackupProgress' /\ Acceptable(backup)'
  BY <1>1, <1>3, BackupPut DEF SafeInv, history
<1>9. /\ CrcTellsDamage'
      /\ (~backup.magic => \A g \in Group : backup.crc[g] = NoCrc)'
  <2>1. CASE c = Magic
    <3>1. backup'.magic /\ backup'.data = backup.data /\ backup'.crc = backup.crc
      BY <1>1, <2>1, PutMagic DEF TypeOK
    <3>2. CrcTellsDamage'
      BY <1>1, <1>3, <1>5, <3>1 DEF CrcTellsDamage, Valid
    <3>3. QED
      BY <3>1, <3>2
  <2>2. ASSUME NEW g \in Group, c = Data(g)
        PROVE  /\ CrcTellsDamage'
               /\ (~backup.magic => \A h \in Group : backup.crc[h] = NoCrc)'
    <3>1. /\ backup'.magic = backup.magic /\ backup'.crc = backup.crc
          /\ backup'.data = [backup.data EXCEPT ![g] = ram[g]]
      BY <1>1, <2>2, PutData DEF TypeOK
    <3>2. \A h \in Group : backup'.data[h] = IF h = g THEN ram[g] ELSE backup.data[h]
      BY <3>1 DEF TypeOK, Area
    <3>3. CrcTellsDamage'
      BY <1>1, <1>3, <1>5, <3>1, <3>2 DEF CrcTellsDamage, Valid
    <3>4. QED
      BY <3>1, <3>3 DEF SafeInv, Shape
  <2>3. ASSUME NEW g \in Group, c = Crc(g)
        PROVE  /\ CrcTellsDamage'
               /\ (~backup.magic => \A h \in Group : backup.crc[h] = NoCrc)'
    <3>1. /\ backup'.magic = backup.magic /\ backup'.data = backup.data
          /\ backup'.crc = [backup.crc EXCEPT ![g] = ram[g]]
      BY <1>1, <2>3, PutCrc DEF TypeOK
    <3>2. \A h \in Group : backup'.crc[h] = IF h = g THEN ram[g] ELSE backup.crc[h]
      BY <3>1 DEF TypeOK, Area
    <3>3. backup.magic /\ backup.data[g] = ram[g] /\ Data(g) \notin toBackup
      BY <1>2, <1>4, <2>3, CrcLast
    <3>4. CrcTellsDamage'
      BY <1>1, <1>3, <1>5, <3>1, <3>2, <3>3 DEF CrcTellsDamage, Valid
    <3>5. QED
      BY <3>1, <3>3, <3>4
  <2>4. QED
    BY <1>2, <1>4, <2>1, <2>2, <2>3 DEF Cell
<1>10. user'.data = ram'
  BY <1>1, <1>2 DEF SafeInv, Shape
<1>11. Shape'
  BY <1>1, <1>3, <1>6, <1>9, <1>10 DEF SafeInv, Shape
<1>12. QED
  BY <1>6, <1>7, <1>8, <1>9, <1>11 DEF SafeInv, OneIntact

LEMMA WriteFactorySafe ==
    ASSUME TypeOK, TypeOK', SafeInv, WriteFactory PROVE SafeInv'
<1>1. /\ toFactory # {} /\ toFactory' \subseteq toFactory
      /\ UNCHANGED <<user, backup, ram, op, toUser, toBackup,
                     wholeBackup, commit, history>>
  BY NextCells DEF WriteFactory
<1>2. op = "save" /\ ~Virgin
  BY <1>1 DEF SafeInv, Shape, Virgin
<1>3. RunsOnSaved' /\ Acceptable(user)' /\ Acceptable(backup)'
  BY <1>1 DEF SafeInv, RunsOnSaved, Acceptable, history
<1>4. /\ AllValid(user)' = AllValid(user)
      /\ AllValid(backup)' = AllValid(backup)
  BY <1>1 DEF AllValid, Valid
<1>5. (SavingUser => UserProgress)' /\ BackupProgress' /\ CrcTellsDamage'
  BY <1>1, <1>4 DEF SafeInv, SavingUser, UserProgress, BackupProgress,
                    CrcTellsDamage, Valid
<1>6. Shape'
  BY <1>1, <1>2, <1>4 DEF SafeInv, Shape, SavingUser
<1>7. QED
  BY <1>2, <1>3, <1>4, <1>5, <1>6 DEF SafeInv, OneIntact

(* What has just been saved is in both areas when the operation returns. *)
LEMMA SaveReturnsSafe ==
    ASSUME TypeOK, TypeOK', SafeInv, SaveReturns PROVE SafeInv'
<1>1. /\ op = "save" /\ op' = "idle" /\ UNCHANGED areas /\ ram' = ram
      /\ toUser = {} /\ toBackup = {} /\ commit' = {}
      /\ toUser' = {} /\ toBackup' = {} /\ toFactory' = {}
      /\ acc' = [g \in Group |-> IF g \in commit THEN {ram[g]} ELSE acc[g]]
  BY DEF SaveReturns, todo
<1>2. AllValid(user) /\ AllValid(backup)
  BY <1>1, WritesDone
<1>3. \A g \in commit : user.data[g] = ram[g] /\ backup.data[g] = ram[g]
  <2> TAKE g \in commit
  <2>1. g \in Group /\ SavingUser
    BY <1>1 DEF TypeOK, SavingUser
  <2>2. user.data[g] = ram[g]
    BY <1>1, <2>1 DEF SafeInv, UserProgress
  <2>3. backup.data[g] = ram[g]
    BY <1>1, <2>1 DEF SafeInv, BackupProgress
  <2>4. QED
    BY <2>2, <2>3
<1>4. Acceptable(user)' /\ Acceptable(backup)'
  BY <1>1, <1>3 DEF SafeInv, Acceptable, areas
<1>5. RunsOnSaved'
  BY <1>1 DEF SafeInv, RunsOnSaved
<1>6. QED
  BY <1>1, <1>2, <1>4, <1>5, Idles

(* A cut damages one area at a time, and a torn backup group never has the   *)
(* CRC word of the user area.                                                *)
LEMMA PowerCutSafe ==
    ASSUME TypeOK, TypeOK', SafeInv, PowerCut PROVE SafeInv'
<1>1. /\ op # "off" /\ op' = "off" /\ UNCHANGED <<user, factory, acc>>
      /\ toUser' = {} /\ toBackup' = {} /\ toFactory' = {} /\ commit' = {}
  BY DEF PowerCut
<1>2. RunsOnSaved' /\ ~SavingUser' /\ BackupProgress' /\ Acceptable(user)'
  BY <1>1 DEF SafeInv, RunsOnSaved, SavingUser, BackupProgress, Acceptable
<1>3. AllValid(user)' = AllValid(user)
  BY <1>1 DEF AllValid, Valid
<1>4. CASE UNCHANGED backup
  <2>1. AllValid(backup)' = AllValid(backup)
    BY <1>4 DEF AllValid, Valid
  <2>2. Virgin => Virgin'
    BY <1>1, <1>4 DEF Virgin, Fallback, Valid
  <2>3. Acceptable(backup)' /\ CrcTellsDamage'
    BY <1>1, <1>3, <1>4 DEF SafeInv, Acceptable, CrcTellsDamage, Valid
  <2>4. Shape'
    BY <1>1, <1>4 DEF SafeInv, Shape
  <2>5. QED
    BY <1>2, <1>3, <2>1, <2>2, <2>3, <2>4 DEF SafeInv, OneIntact
<1>5. ASSUME NEW c \in NextBackup, toUser = {}, backup' = Tear(backup, c),
             backup' # backup
      PROVE  SafeInv'
  <2>1. c \in Cell /\ toBackup # {}
    BY NextCells DEF TypeOK
  <2>2. /\ AllValid(user)
        /\ \A g \in Group : user.data[g] = ram[g] /\ user.crc[g] = ram[g]
    BY <1>5, <2>1, BackupWriteState
  <2>3. \A g \in Group : backup.crc[g] = ram[g]
                            => backup.magic /\ backup.data[g] = backup.crc[g]
    BY <2>2 DEF SafeInv, CrcTellsDamage, Valid
  <2>4. /\ CrcTellsDamage' /\ Acceptable(backup)'
        /\ (~backup.magic => \A g \in Group : backup.crc[g] = NoCrc)'
    <3>1. ASSUME NEW g \in Group, c = Data(g)
          PROVE  /\ CrcTellsDamage' /\ Acceptable(backup)'
                 /\ (~backup.magic => \A h \in Group : backup.crc[h] = NoCrc)'
      <4>1. /\ backup.data[g] # ram[g]
            /\ backup'.magic = backup.magic /\ backup'.crc = backup.crc
            /\ backup'.data = [backup.data EXCEPT ![g] = Torn]
        BY <1>5, <3>1, TearData DEF TypeOK
      <4>2. \A h \in Group : backup'.data[h] = IF h = g THEN Torn ELSE backup.data[h]
        BY <4>1 DEF TypeOK, Area
      <4>3. \A h \in Group : backup'.crc[h] # Torn
        BY ParaAssumption DEF TypeOK, Area
      <4>4. Acceptable(backup)'
        BY <1>1, <4>1, <4>2, <4>3 DEF SafeInv, Acceptable
      <4>5. CrcTellsDamage'
        BY <1>1, <2>2, <2>3, <4>1, <4>2 DEF CrcTellsDamage, Valid
      <4>6. QED
        BY <4>1, <4>4, <4>5 DEF SafeInv, Shape
    <3>2. ASSUME NEW g \in Group, c = Crc(g)
          PROVE  /\ CrcTellsDamage' /\ Acceptable(backup)'
                 /\ (~backup.magic => \A h \in Group : backup.crc[h] = NoCrc)'
      <4>1. /\ backup'.magic = backup.magic /\ backup'.data = backup.data
            /\ backup'.crc = [backup.crc EXCEPT ![g] = NoCrc]
        BY <1>5, <3>2, TearCrc DEF TypeOK
      <4>2. \A h \in Group : backup'.crc[h] = IF h = g THEN NoCrc ELSE backup.crc[h]
        BY <4>1 DEF TypeOK, Area
      <4>3. \A h \in Group : backup'.data[h] # NoCrc /\ ram[h] # NoCrc
        BY ParaAssumption DEF TypeOK, Area
      <4>4. Acceptable(backup)'
        BY <1>1, <4>1, <4>2, <4>3 DEF SafeInv, Acceptable
      <4>5. CrcTellsDamage'
        BY <1>1, <2>2, <2>3, <4>1, <4>2, <4>3 DEF CrcTellsDamage, Valid
      <4>6. QED
        BY <4>1, <4>2, <4>4, <4>5 DEF SafeInv, Shape
    <3>3. QED
      BY <1>5, <2>1, <3>1, <3>2, TearOther DEF Cell
  <2>5. Shape'
    BY <1>1, <2>4 DEF Shape
  <2>6. QED
    BY <1>2, <1>3, <2>2, <2>4, <2>5 DEF SafeInv, OneIntact
<1>6. QED
  BY <1>4, <1>5 DEF PowerCut

-----------------------------------------------------------------------------
(* A failed access or a forced backup is never forgotten. *)
LEMMA HistoryGrows ==
    ASSUME TypeOK, [Next]_vars
    PROVE  (faults' = faults \/ faults' = faults + 1) /\ (forced => forced')
<1>1. ASSUME NEW readOk \in BOOLEAN, ParaInit(readOk)
      PROVE  (faults' = faults \/ faults' = faults + 1) /\ (forced => forced')
  BY <1>1 DEF ParaInit
<1>2. ASSUME NEW g \in Group, NEW v \in Value, Modify(g, v)
      PROVE  faults' = faults /\ (forced => forced')
  BY <1>2 DEF Modify
<1>3. ASSUME NEW g \in Group, pmm_save_group(g)
      PROVE  faults' = faults /\ (forced => forced')
  BY <1>3 DEF pmm_save_group, history
<1>4. CASE \/ RecheckAddr \/ pmm_restore_to_default \/ pmm_restore_to_factory
           \/ pmm_save_to_factory \/ pmm_save_to_backup
  <2>1. faults' = faults
    BY <1>4 DEF RecheckAddr, pmm_restore_to_default, pmm_restore_to_factory,
                pmm_save_to_factory, pmm_save_to_backup, history
  <2>2. forced' = forced \/ forced' = (forced \/ ram # user.data)
    BY <1>4 DEF RecheckAddr, pmm_restore_to_default, pmm_restore_to_factory,
                pmm_save_to_factory, pmm_save_to_backup, history
  <2>3. QED
    BY <2>1, <2>2 DEF TypeOK
<1>5. CASE WriteUser \/ WriteBackup \/ WriteFactory \/ SaveReturns \/ PowerCut
  BY <1>5 DEF WriteUser, WriteBackup, WriteFactory, SaveReturns, PowerCut, history
<1>6. CASE FlashFails \/ EepromFails
  BY <1>6 DEF FlashFails, EepromFails, Fault
<1>7. CASE UNCHANGED vars
  BY <1>7 DEF vars
<1>8. QED
  BY <1>1, <1>2, <1>3, <1>4, <1>5, <1>6, <1>7 DEF Next

(* IInv is inductive; once an access to the media has failed, or an unsaved  *)
(* sys_para has been forced into the backup area, it claims the types only.  *)
LEMMA Inductive == IInv /\ TypeOK' /\ [Next]_vars => IInv'
<1> SUFFICES ASSUME IInv, TypeOK', [Next]_vars, faults' = 0, ~forced'
             PROVE  SafeInv'
  BY DEF IInv
<1>1. TypeOK /\ faults \in Nat /\ forced \in BOOLEAN
  BY ParaAssumption DEF IInv, TypeOK
<1>2. faults = 0
  BY <1>1, HistoryGrows
<1>3. ~forced
  BY <1>1, HistoryGrows
<1>4. SafeInv
  BY <1>2, <1>3 DEF IInv
<1>5. ASSUME NEW readOk \in BOOLEAN, ParaInit(readOk) PROVE SafeInv'
  <2>1. readOk = TRUE
    BY <1>2, <1>5 DEF ParaInit
  <2>2. QED
    BY <1>1, <1>4, <1>5, <2>1, ParaInitSafe
<1>6. CASE RecheckAddr
  BY <1>1, <1>4, <1>6, RecheckAddrSafe
<1>7. ASSUME NEW g \in Group, NEW v \in Value, Modify(g, v) PROVE SafeInv'
  BY <1>1, <1>4, <1>7, ModifySafe
<1>8. ASSUME NEW g \in Group, pmm_save_group(g) PROVE SafeInv'
  BY <1>1, <1>4, <1>8, SaveGroupSafe
<1>9. CASE pmm_restore_to_default
  BY <1>1, <1>4, <1>9, RestoreDefaultSafe
<1>10. CASE pmm_restore_to_factory
  BY <1>1, <1>4, <1>10, RestoreFactorySafe
<1>11. CASE pmm_save_to_factory \/ pmm_save_to_backup
  BY <1>1, <1>4, <1>11, SaveElsewhereSafe
<1>12. CASE WriteUser
  BY <1>1, <1>4, <1>12, WriteUserSafe
<1>13. CASE WriteBackup
  BY <1>1, <1>4, <1>13, WriteBackupSafe
<1>14. CASE WriteFactory
  BY <1>1, <1>4, <1>14, WriteFactorySafe
<1>15. CASE FlashFails \/ EepromFails
  BY <1>2, <1>15 DEF FlashFails, EepromFails, Fault
<1>16. CASE SaveReturns
  BY <1>1, <1>4, <1>16, SaveReturnsSafe
<1>17. CASE PowerCut
  BY <1>1, <1>4, <1>17, PowerCutSafe
<1>18. CASE UNCHANGED vars
  BY <1>4, <1>18 DEF vars, SafeInv, RunsOnSaved, Acceptable, OneIntact, AllValid,
     Valid, Virgin, Fallback, SavingUser, UserProgress, BackupProgress,
     CrcTellsDamage, Shape
<1>19. QED
  BY <1>5, <1>6, <1>7, <1>8, <1>9, <1>10, <1>11, <1>12, <1>13, <1>14, <1>15,
     <1>16, <1>17, <1>18 DEF Next

(* The inductive invariant behind the two theorems that follow. *)
THEOREM Invariance == Spec => []IInv
<1>1. Init => TypeOK /\ IInv
  <2> SUFFICES ASSUME Init PROVE TypeOK /\ IInv
    OBVIOUS
  <2>1. TypeOK
    BY InitType
  <2>2. QED
    BY <2>1, InitSafe DEF IInv
<1>2. QED
  BY <1>1, Inductive, TypeCorrect, PTL DEF Spec

(* para_init, pmm_save_group and the restore commands: however often power   *)
(* is cut, the device never runs on a group older than its last completed    *)
(* save, for any number of groups.                                           *)
THEOREM Durability == Spec => []Durable
<1>1. IInv => Durable
  BY DEF IInv, SafeInv, Durable
<1>2. QED
  BY <1>1, Invariance, PTL

(* para_init restores the redundancy a power cut has cost, and every         *)
(* operation returns with both copies valid.                                 *)
THEOREM RedundancyRestored == Spec => []RedundantWhenIdle
<1>1. IInv => RedundantWhenIdle
  BY IdleState DEF IInv, RedundantWhenIdle, Redundant
<1>2. QED
  BY <1>1, Invariance, PTL

-----------------------------------------------------------------------------
(***************************************************************************)
(* One failing access.  While no write is cut short, every write that does *)
(* not fail ends, so an area is lost only to the fault itself: before it   *)
(* both areas end up intact, after it one of them does.  An area that was  *)
(* lost may come back with a later save; nothing depends on that.          *)
(***************************************************************************)
UserSound == toUser = {} => AllValid(user)

BackupSound ==
    /\ Acceptable(backup)
    /\ BackupProgress
    /\ op \notin {"boot", "save"} => AllValid(backup)

(* A device that has never been started. *)
Unused ==
    /\ op = "off" /\ user = Blank /\ backup = Blank
    /\ \A g \in Group : Fallback(g) \in acc[g]

FaultInv ==
    /\ RunsOnSaved
    /\ Acceptable(user)
    /\ toUser # {} \/ toBackup # {} => op \in {"boot", "save"}
    /\ toFactory # {} \/ commit # {} => op = "save"
    /\ toUser # {} \/ commit # {} => UserProgress
    /\ faults = 0 => (UserSound /\ BackupSound) \/ Unused
    /\ faults = 1 => UserSound \/ BackupSound

OneFaultInv == TypeOK /\ (faults <= 1 /\ ~cut => FaultInv)

(* With nothing left to write, a sound area is an intact one. *)
LEMMA SoundIntact ==
    ASSUME toUser = {}, toBackup = {}
    PROVE  /\ UserSound => AllValid(user)
           /\ BackupSound => AllValid(backup)
BY DEF UserSound, BackupSound, BackupProgress, AllValid, Valid

LEMMA BlankInvalid ==
    \A g \in Group : ~Valid(Blank, g) /\ Blank.data[g] # Blank.crc[g]
BY ParaAssumption DEF Blank, Valid

LEMMA InitFault == Init => FaultInv
<1> SUFFICES ASSUME Init PROVE FaultInv
  OBVIOUS
<1>1. Acceptable(user)
  BY BlankInvalid DEF Init, Acceptable
<1>2. Unused
  BY DEF Init, Unused, Fallback
<1>3. QED
  BY <1>1, <1>2 DEF Init, FaultInv, RunsOnSaved

(* A step that leaves the areas alone, starts no write and narrows nothing. *)
LEMMA QuietFault ==
    ASSUME TypeOK, FaultInv, UNCHANGED <<areas, faults>>, op # "off",
           toUser = {}, toBackup = {},
           toUser' = {}, toBackup' = {}, commit' = {},
           toFactory' # {} => op' = "save",
           \A g \in Group : acc[g] \subseteq acc'[g],
           RunsOnSaved'
    PROVE  FaultInv'
<1>1. Acceptable(user)'
  BY DEF FaultInv, Acceptable, areas
<1>2. UserSound => UserSound'
  BY IntactUnchanged DEF UserSound
<1>3. BackupSound => BackupSound'
  <2>1. ASSUME BackupSound PROVE BackupSound'
    <3>1. AllValid(backup)' /\ AllValid(backup)
      BY <2>1, SoundIntact, IntactUnchanged
    <3>2. Acceptable(backup)'
      BY <2>1 DEF BackupSound, Acceptable, areas
    <3>3. backup'.magic /\ \A g \in Group : backup'.data[g] = backup'.crc[g]
      BY <3>1, IntactHasMagic DEF areas
    <3>4. BackupProgress'
      BY <3>3 DEF BackupProgress
    <3>. QED  BY <3>1, <3>2, <3>4 DEF BackupSound
  <2>. QED  BY <2>1
<1>4. ~Unused
  BY DEF Unused
<1>. QED  BY <1>1, <1>2, <1>3, <1>4 DEF FaultInv

(* The operations that write both areas: whichever copy is sound stays so. *)
LEMMA SaveStartsFault ==
    ASSUME TypeOK, FaultInv, UNCHANGED <<areas, faults>>, op # "off",
           toUser = {}, toBackup = {},
           NEW mask \in SUBSET Group, StartSave(FlashCells, mask),
           commit' = mask, op' = "save",
           \A g \in Group : acc[g] \subseteq acc'[g] /\ ram'[g] \in acc'[g]
    PROVE  FaultInv'
<1>1. Acceptable(user)'
  BY DEF FaultInv, Acceptable, areas
<1>2. toUser' = FlashCells /\ toBackup' = EepromCells(mask)
  BY DEF StartSave
<1>3. UserProgress' /\ UserSound'
  BY <1>2, FlashMember DEF UserProgress, UserSound
<1>4. ASSUME BackupSound PROVE BackupSound'
  <2>1. backup'.magic /\ \A g \in Group : backup'.data[g] = backup'.crc[g]
    BY <1>4, SoundIntact, IntactHasMagic DEF areas
  <2>2. BackupProgress'
    BY <1>2, <2>1, BackupStarts
  <2>3. Acceptable(backup)'
    BY <1>4 DEF BackupSound, Acceptable, areas
  <2>. QED  BY <2>2, <2>3 DEF BackupSound
<1>5. ~Unused /\ RunsOnSaved'
  BY DEF Unused, RunsOnSaved
<1>. QED  BY <1>1, <1>3, <1>4, <1>5 DEF FaultInv

LEMMA IdleFault ==
    ASSUME FaultInv, op \in {"idle", "hung"}
    PROVE  /\ toUser = {} /\ toBackup = {} /\ toFactory = {} /\ commit = {}
           /\ \A g \in Group : ram[g] \in acc[g]
BY DEF FaultInv, RunsOnSaved

(* A start-up brings up the copy that is sound, and leaves the user area      *)
(* intact or about to be rewritten, also when the backup cannot be read.      *)
LEMMA ParaInitFault ==
    ASSUME TypeOK, FaultInv, NEW readOk \in BOOLEAN, ParaInit(readOk), faults' <= 1
    PROVE  FaultInv'
<1> DEFINE b == IF readOk THEN backup ELSE Blank
<1>1. /\ UNCHANGED areas /\ acc' = acc /\ op' = "boot" /\ commit' = {}
      /\ op = "off" /\ toUser = {} /\ toBackup = {} /\ toFactory' = {}
      /\ ram' = [g \in Group |-> Restored(b, g)]
      /\ toUser' = UserRepair
      /\ toBackup' = EepromCells(BackupRepair(b))
      /\ faults' = IF readOk THEN faults ELSE faults + 1
  BY DEF ParaInit, StartSave, FaultInv
<1>2. faults \in Nat
  BY ParaAssumption DEF TypeOK
<1>3. \A g \in Group : Restored(b, g) \in acc[g]
  <2> TAKE g \in Group
  <2>1. CASE Valid(user, g)
    BY <2>1 DEF Restored, Valid, FaultInv, Acceptable
  <2>2. CASE ~Valid(user, g)
    <3>1. ~UserSound
      BY <1>1, <2>2 DEF UserSound, AllValid
    <3>2. CASE BackupSound /\ readOk
      <4>1. Valid(backup, g)
        BY <1>1, <3>2, SoundIntact DEF AllValid
      <4>. QED  BY <2>2, <3>2, <4>1 DEF Restored, BackupSound, Acceptable, Valid
    <3>3. CASE ~(BackupSound /\ readOk)
      <4>1. Unused
        BY <1>1, <1>2, <3>1, <3>3 DEF FaultInv
      <4>2. b = Blank
        BY <4>1 DEF Unused
      <4>. QED  BY <2>2, <4>1, <4>2, BlankInvalid DEF Restored, Unused, Fallback
    <3>. QED  BY <3>2, <3>3
  <2>. QED  BY <2>1, <2>2
<1>4. RunsOnSaved' /\ Acceptable(user)'
  BY <1>1, <1>3 DEF RunsOnSaved, FaultInv, Acceptable, areas
<1>5. UserSound' /\ (toUser' # {} => UserProgress')
  <2>1. CASE AllValid(user)
    BY <1>1, <2>1, IntactUnchanged DEF UserRepair, UserSound
  <2>2. CASE ~AllValid(user)
    BY <1>1, <2>2, FlashMember DEF UserRepair, UserSound, UserProgress
  <2>. QED  BY <2>1, <2>2
<1>6. ASSUME faults' = 0 PROVE BackupSound'
  <2>1. readOk /\ faults = 0 /\ b = backup
    BY <1>1, <1>2, <1>6
  <2>2. BackupRepair(b) \in SUBSET Group
    BY DEF BackupRepair, InvalidGroups
  <2>3. Acceptable(backup)'
    <3>1. Acceptable(backup)
      BY <2>1, BlankInvalid DEF FaultInv, BackupSound, Unused, Acceptable
    <3>. QED  BY <1>1, <3>1 DEF Acceptable, areas
  <2>4. \A g \in Group \ BackupRepair(b) : Valid(backup, g)
    <3>1. CASE BackupSound
      BY <1>1, <3>1, SoundIntact DEF AllValid
    <3>2. CASE Unused
      BY <2>1, <3>2, BlankInvalid, DevIsGroup
      DEF Unused, BackupRepair, InvalidGroups, AllValid
    <3>. QED  BY <2>1, <3>1, <3>2 DEF FaultInv
  <2>5. /\ BackupRepair(b) # Group => backup'.magic
        /\ \A g \in Group \ BackupRepair(b) : backup'.data[g] = backup'.crc[g]
    BY <1>1, <2>2, <2>4 DEF Valid, areas
  <2>6. BackupProgress'
    BY <1>1, <2>2, <2>5, BackupStarts
  <2>. QED  BY <1>1, <2>3, <2>6 DEF BackupSound
<1>. QED  BY <1>1, <1>4, <1>5, <1>6 DEF FaultInv

LEMMA RecheckAddrFault ==
    ASSUME TypeOK, FaultInv, RecheckAddr PROVE FaultInv'
<1>1. /\ op = "boot" /\ toUser = {} /\ toBackup = {} /\ UNCHANGED <<areas, faults>>
      /\ toFactory = {} /\ commit = {}
  BY DEF RecheckAddr, FaultInv
<1>2. \A g \in Group : ram[g] \in acc[g]
  BY <1>1 DEF FaultInv, RunsOnSaved
<1>3. CASE ram[Dev] \in BadAddr
  <2>1. \A g \in Group : acc[g] \subseteq acc'[g] /\ ram'[g] \in acc'[g]
    BY <1>2, <1>3, DevIsGroup DEF RecheckAddr, TypeOK
  <2>2. /\ StartSave(FlashCells, {Dev}) /\ commit' = {Dev} /\ op' = "save"
        /\ {Dev} \in SUBSET Group
    BY <1>3, DevIsGroup DEF RecheckAddr
  <2>. QED  BY <1>1, <2>1, <2>2, SaveStartsFault
<1>4. CASE ram[Dev] \notin BadAddr
  <2>1. /\ op' = "idle" /\ ram' = ram /\ acc' = acc /\ commit' = {}
        /\ toUser' = {} /\ toBackup' = {} /\ toFactory' = {}
    BY <1>1, <1>4 DEF RecheckAddr, todo
  <2>2. RunsOnSaved'
    BY <1>2, <2>1 DEF RunsOnSaved
  <2>. QED  BY <1>1, <2>1, <2>2, QuietFault
<1>. QED  BY <1>3, <1>4

LEMMA ModifyFault ==
    ASSUME TypeOK, FaultInv, NEW g \in Group, NEW v \in Value, Modify(g, v)
    PROVE  FaultInv'
<1>1. op = "idle" /\ UNCHANGED <<areas, op, todo, commit, faults>>
  BY DEF Modify
<1>2. \A h \in Group : acc[h] \subseteq acc'[h] /\ ram'[h] \in acc'[h]
  BY <1>1, IdleFault DEF Modify, TypeOK
<1>3. /\ toUser = {} /\ toBackup = {}
      /\ toUser' = {} /\ toBackup' = {} /\ toFactory' = {} /\ commit' = {}
  BY <1>1, IdleFault DEF todo
<1>4. RunsOnSaved'
  BY <1>2 DEF RunsOnSaved
<1>. QED  BY <1>1, <1>2, <1>3, <1>4, QuietFault

LEMMA SaveGroupFault ==
    ASSUME TypeOK, FaultInv, NEW g \in Group, pmm_save_group(g) PROVE FaultInv'
<1>1. /\ op = "idle" /\ op' = "save" /\ commit' = {g} /\ {g} \in SUBSET Group
      /\ StartSave(FlashCells, {g}) /\ UNCHANGED <<areas, faults>>
      /\ ram' = ram /\ acc' = acc
  BY DEF pmm_save_group, history
<1>. QED  BY <1>1, IdleFault, SaveStartsFault

LEMMA RestoreDefaultFault ==
    ASSUME TypeOK, FaultInv, pmm_restore_to_default PROVE FaultInv'
<1>1. /\ op = "idle" /\ op' = "save" /\ commit' = Group /\ Group \in SUBSET Group
      /\ StartSave(FlashCells, Group) /\ UNCHANGED <<areas, faults>>
  BY DEF pmm_restore_to_default
<1>2. \A g \in Group : acc[g] \subseteq acc'[g] /\ ram'[g] \in acc'[g]
  BY DEF pmm_restore_to_default
<1>. QED  BY <1>1, <1>2, IdleFault, SaveStartsFault

LEMMA RestoreFactoryFault ==
    ASSUME TypeOK, FaultInv, pmm_restore_to_factory PROVE FaultInv'
<1>1. op = "idle" /\ UNCHANGED <<areas, faults>>
  BY DEF pmm_restore_to_factory
<1>2. \A g \in Group : acc[g] \subseteq acc'[g] /\ ram'[g] \in acc'[g]
  BY DEF pmm_restore_to_factory
<1>3. CASE AllValid(factory)
  <2>1. /\ op' = "save" /\ commit' = Group /\ Group \in SUBSET Group
        /\ StartSave(FlashCells, Group)
    BY <1>3 DEF pmm_restore_to_factory
  <2>. QED  BY <1>1, <1>2, <2>1, IdleFault, SaveStartsFault
<1>4. CASE ~AllValid(factory)
  <2>1. toUser' = {} /\ toBackup' = {} /\ toFactory' = {} /\ commit' = {}
    BY <1>1, <1>4, IdleFault DEF pmm_restore_to_factory, todo
  <2>2. RunsOnSaved'
    BY <1>2 DEF RunsOnSaved
  <2>. QED  BY <1>1, <1>2, <2>1, <2>2, IdleFault, QuietFault
<1>. QED  BY <1>3, <1>4

LEMMA SaveToFactoryFault ==
    ASSUME TypeOK, FaultInv, pmm_save_to_factory PROVE FaultInv'
<1>1. /\ op = "idle" /\ UNCHANGED <<areas, ram, acc, faults>> /\ commit' = {}
      /\ toUser' = {} /\ toBackup' = {} /\ op' = "save"
  BY IdleFault DEF pmm_save_to_factory, history
<1>2. RunsOnSaved'
  BY <1>1, IdleFault DEF RunsOnSaved
<1>. QED  BY <1>1, <1>2, IdleFault, QuietFault

(* pmm_save_to_backup sends the current sys_para, saved or not. *)
LEMMA SaveToBackupFault ==
    ASSUME TypeOK, FaultInv, pmm_save_to_backup PROVE FaultInv'
<1>1. /\ op = "idle" /\ op' = "save" /\ commit' = {} /\ toUser' = {}
      /\ UNCHANGED <<areas, ram, acc, faults>> /\ toBackup' = EepromCells(Group)
  BY DEF pmm_save_to_backup, StartSave
<1>2. toUser = {} /\ toBackup = {} /\ ~Unused
  BY <1>1, IdleFault DEF Unused
<1>3. RunsOnSaved' /\ Acceptable(user)'
  BY <1>1, IdleFault DEF RunsOnSaved, FaultInv, Acceptable, areas
<1>4. UserSound => UserSound'
  BY <1>1, <1>2, IntactUnchanged DEF UserSound
<1>5. ASSUME BackupSound PROVE BackupSound'
  <2>1. BackupProgress'
    BY <1>1, BackupStarts
  <2>2. Acceptable(backup)'
    BY <1>1, <1>5 DEF BackupSound, Acceptable, areas
  <2>. QED  BY <1>1, <2>1, <2>2 DEF BackupSound
<1>. QED  BY <1>1, <1>2, <1>3, <1>4, <1>5 DEF FaultInv

LEMMA WriteUserFault ==
    ASSUME TypeOK, TypeOK', FaultInv, WriteUser PROVE FaultInv'
<1>1. PICK c \in NextUser :
        /\ user' = Put(user, c)
        /\ toUser' = toUser \ {c}
        /\ UNCHANGED <<backup, factory, ram, op, toBackup, toFactory,
                       wholeBackup, commit, history>>
  BY DEF WriteUser
<1>2. toUser # {} /\ op \in {"boot", "save"} /\ UserProgress /\ ~Unused
  BY NextCells DEF FaultInv, Unused
<1>3. \A g \in Group : ram[g] \in acc[g]
  BY <1>2 DEF FaultInv, RunsOnSaved
<1>4. UserProgress' /\ Acceptable(user)'
  BY <1>1, <1>2, <1>3, UserPut DEF FaultInv, history
<1>5. UserSound'
  <2>1. ASSUME toUser' = {} PROVE AllValid(user)'
    BY <1>4, <2>1 DEF UserProgress, AllValid, Valid
  <2>. QED  BY <2>1 DEF UserSound
<1>6. BackupSound => BackupSound'
  BY <1>1 DEF BackupSound, Acceptable, BackupProgress, AllValid, Valid, history
<1>7. RunsOnSaved'
  BY <1>1 DEF FaultInv, RunsOnSaved, history
<1>8. faults' = faults
  BY <1>1 DEF history
<1>. QED  BY <1>1, <1>2, <1>4, <1>5, <1>6, <1>7, <1>8 DEF FaultInv

LEMMA WriteBackupFault ==
    ASSUME TypeOK, FaultInv, WriteBackup PROVE FaultInv'
<1>1. PICK c \in NextBackup :
        /\ toUser = {}
        /\ backup' = Put(backup, c)
        /\ toBackup' = toBackup \ {c}
        /\ UNCHANGED <<user, factory, ram, op, toUser, toFactory,
                       wholeBackup, commit, history>>
  BY DEF WriteBackup
<1>2. toBackup # {} /\ op \in {"boot", "save"} /\ ~Unused
  BY NextCells DEF FaultInv, Unused
<1>3. \A g \in Group : ram[g] \in acc[g]
  BY <1>2 DEF FaultInv, RunsOnSaved
<1>4. ASSUME BackupSound PROVE BackupSound'
  <2>1. BackupProgress' /\ Acceptable(backup)'
    BY <1>1, <1>2, <1>3, <1>4, BackupPut DEF BackupSound, history
  <2>. QED  BY <1>1, <1>2, <2>1 DEF BackupSound
<1>5. /\ UserSound => UserSound'
      /\ Acceptable(user)' /\ RunsOnSaved'
      /\ UserProgress => UserProgress'
  BY <1>1 DEF FaultInv, UserSound, AllValid, Valid, Acceptable, RunsOnSaved,
              UserProgress, history
<1>6. faults' = faults
  BY <1>1 DEF history
<1>. QED  BY <1>1, <1>2, <1>4, <1>5, <1>6 DEF FaultInv

LEMMA WriteFactoryFault ==
    ASSUME TypeOK, FaultInv, WriteFactory PROVE FaultInv'
<1>1. /\ op = "save"
      /\ UNCHANGED <<user, backup, ram, op, toUser, toBackup, commit, acc, faults>>
  BY NextCells DEF WriteFactory, history, FaultInv
<1>2. ~Unused
  BY <1>1 DEF Unused
<1>3. /\ UserSound => UserSound'
      /\ BackupSound => BackupSound'
  BY <1>1 DEF UserSound, BackupSound, BackupProgress, AllValid, Valid, Acceptable
<1>4. Acceptable(user)' /\ RunsOnSaved' /\ (UserProgress => UserProgress')
  BY <1>1 DEF FaultInv, Acceptable, RunsOnSaved, UserProgress
<1>. QED  BY <1>1, <1>2, <1>3, <1>4 DEF FaultInv

(* A user write that fails costs the user area only: the call goes on to the  *)
(* backup, and nothing counts as saved.                                       *)
LEMMA FlashFailsFault ==
    ASSUME TypeOK, FaultInv, FlashFails, faults = 0 PROVE FaultInv'
<1>1. UNCHANGED <<areas, ram, op, toBackup, acc>> /\ faults' = 1
  BY DEF FlashFails, Fault
<1>2. op \in {"boot", "save"} /\ UserSound /\ BackupSound
  BY DEF FlashFails, FaultInv, Unused
<1>3. Acceptable(user)' /\ RunsOnSaved'
  BY <1>1 DEF FaultInv, Acceptable, RunsOnSaved, areas
<1>4. /\ toUser' \subseteq toUser /\ commit' \subseteq commit
      /\ toFactory' \subseteq toFactory
  BY DEF FlashFails
<1>5. BackupSound'
  BY <1>1, <1>2, <1>4
  DEF BackupSound, BackupProgress, AllValid, Valid, Acceptable, areas
<1>6. toUser' # {} \/ commit' # {} => UserProgress'
  <2>1. CASE toUser' = {} /\ commit' = {}
    BY <2>1
  <2>2. CASE toUser' = toUser /\ commit' = commit
    BY <1>1, <2>2 DEF FaultInv, UserProgress, areas
  <2>. QED  BY <2>1, <2>2 DEF FlashFails
<1>. QED  BY <1>1, <1>3, <1>4, <1>5, <1>6 DEF FaultInv

(* A failing EEPROM costs the backup area only: the user area has been         *)
(* written by then.                                                            *)
LEMMA EepromFailsFault ==
    ASSUME TypeOK, FaultInv, EepromFails, faults = 0 PROVE FaultInv'
<1>1. /\ UNCHANGED <<user, ram, op, toUser, toFactory, commit, acc>> /\ faults' = 1
      /\ toUser = {} /\ toBackup # {} /\ toBackup' \subseteq toBackup
  BY NextCells DEF EepromFails, Fault
<1>2. UserSound
  BY <1>1 DEF FaultInv, Unused
<1>3. UserSound' /\ Acceptable(user)' /\ RunsOnSaved'
  BY <1>1, <1>2 DEF FaultInv, UserSound, AllValid, Valid, Acceptable, RunsOnSaved
<1>4. UserProgress => UserProgress'
  BY <1>1 DEF UserProgress
<1>. QED  BY <1>1, <1>3, <1>4 DEF FaultInv

(* What is reported as saved is in the user area, and in the backup if sound. *)
LEMMA SaveReturnsFault ==
    ASSUME TypeOK, FaultInv, SaveReturns PROVE FaultInv'
<1>1. /\ op = "save" /\ op' = "idle" /\ UNCHANGED <<areas, ram, faults>>
      /\ toUser = {} /\ toBackup = {} /\ commit' = {}
      /\ toUser' = {} /\ toBackup' = {} /\ toFactory' = {}
      /\ acc' = [g \in Group |-> IF g \in commit THEN {ram[g]} ELSE acc[g]]
  BY DEF SaveReturns, todo
<1>2. \A g \in commit : user.data[g] = ram[g]
  BY <1>1 DEF FaultInv, UserProgress, TypeOK
<1>3. Acceptable(user)' /\ RunsOnSaved'
  BY <1>1, <1>2 DEF FaultInv, Acceptable, RunsOnSaved, areas
<1>4. UserSound => UserSound'
  BY <1>1, IntactUnchanged DEF UserSound
<1>5. ASSUME BackupSound PROVE BackupSound'
  <2>1. \A g \in commit : backup.data[g] = ram[g]
    BY <1>1, <1>5 DEF BackupSound, BackupProgress, TypeOK
  <2>2. Acceptable(backup)'
    BY <1>1, <1>5, <2>1 DEF BackupSound, Acceptable, areas
  <2>3. AllValid(backup)'
    BY <1>1, <1>5, SoundIntact, IntactUnchanged
  <2>. QED  BY <1>1, <2>2, <2>3 DEF BackupSound, BackupProgress
<1>6. ~Unused
  BY <1>1 DEF Unused
<1>. QED  BY <1>1, <1>3, <1>4, <1>5, <1>6 DEF FaultInv

(* Power is lost between two writes. *)
LEMMA PowerOffFault ==
    ASSUME TypeOK, FaultInv, PowerCut, ~Writing PROVE FaultInv'
<1>1. /\ op # "off" /\ op' = "off" /\ UNCHANGED <<user, factory, acc, faults>>
      /\ toUser = {} /\ toBackup = {}
      /\ toUser' = {} /\ toBackup' = {} /\ toFactory' = {} /\ commit' = {}
  BY DEF PowerCut, Writing
<1>2. UNCHANGED areas
  BY <1>1, NextCells DEF PowerCut, areas
<1>3. RunsOnSaved'
  BY <1>1 DEF RunsOnSaved
<1>. QED  BY <1>1, <1>2, <1>3, QuietFault

-----------------------------------------------------------------------------
(* Power cuts, too, are never forgotten. *)
LEMMA CutStays == ASSUME TypeOK, [Next]_vars, ~cut' PROVE ~cut
<1>1. CASE \E readOk \in BOOLEAN : ParaInit(readOk)
  BY <1>1 DEF ParaInit
<1>2. CASE \E g \in Group : pmm_save_group(g) \/ \E v \in Value : Modify(g, v)
  BY <1>2 DEF pmm_save_group, Modify, history
<1>3. CASE \/ RecheckAddr \/ pmm_restore_to_default \/ pmm_restore_to_factory
           \/ pmm_save_to_factory \/ pmm_save_to_backup
  BY <1>3 DEF RecheckAddr, pmm_restore_to_default, pmm_restore_to_factory,
              pmm_save_to_factory, pmm_save_to_backup, history
<1>4. CASE \/ WriteUser \/ WriteBackup \/ WriteFactory \/ SaveReturns
           \/ FlashFails \/ EepromFails
  BY <1>4 DEF WriteUser, WriteBackup, WriteFactory, SaveReturns, FlashFails,
              EepromFails, Fault, history
<1>5. CASE PowerCut
  BY <1>5 DEF PowerCut, TypeOK
<1>6. CASE UNCHANGED vars
  BY <1>6 DEF vars
<1>. QED  BY <1>1, <1>2, <1>3, <1>4, <1>5, <1>6 DEF Next

LEMMA FaultInductive == OneFaultInv /\ TypeOK' /\ [Next]_vars => OneFaultInv'
<1> SUFFICES ASSUME OneFaultInv, TypeOK', [Next]_vars, faults' <= 1, ~cut'
             PROVE  FaultInv'
  BY DEF OneFaultInv
<1>1. TypeOK /\ faults \in Nat
  BY ParaAssumption DEF OneFaultInv, TypeOK
<1>2. faults <= 1 /\ ~cut
  BY <1>1, HistoryGrows, CutStays
<1>3. FaultInv
  BY <1>2 DEF OneFaultInv
<1>4. ASSUME NEW readOk \in BOOLEAN, ParaInit(readOk) PROVE FaultInv'
  BY <1>1, <1>3, <1>4, ParaInitFault
<1>5. CASE RecheckAddr
  BY <1>1, <1>3, <1>5, RecheckAddrFault
<1>6. ASSUME NEW g \in Group, NEW v \in Value, Modify(g, v) PROVE FaultInv'
  BY <1>1, <1>3, <1>6, ModifyFault
<1>7. ASSUME NEW g \in Group, pmm_save_group(g) PROVE FaultInv'
  BY <1>1, <1>3, <1>7, SaveGroupFault
<1>8. CASE pmm_restore_to_default
  BY <1>1, <1>3, <1>8, RestoreDefaultFault
<1>9. CASE pmm_restore_to_factory
  BY <1>1, <1>3, <1>9, RestoreFactoryFault
<1>10. CASE pmm_save_to_factory
  BY <1>1, <1>3, <1>10, SaveToFactoryFault
<1>11. CASE pmm_save_to_backup
  BY <1>1, <1>3, <1>11, SaveToBackupFault
<1>12. CASE WriteUser
  BY <1>1, <1>3, <1>12, WriteUserFault
<1>13. CASE WriteBackup
  BY <1>1, <1>3, <1>13, WriteBackupFault
<1>14. CASE WriteFactory
  BY <1>1, <1>3, <1>14, WriteFactoryFault
<1>15. CASE FlashFails
  <2>1. faults = 0
    BY <1>1, <1>15 DEF FlashFails, Fault
  <2>. QED  BY <1>1, <1>3, <1>15, <2>1, FlashFailsFault
<1>16. CASE EepromFails
  <2>1. faults = 0
    BY <1>1, <1>16 DEF EepromFails, Fault
  <2>. QED  BY <1>1, <1>3, <1>16, <2>1, EepromFailsFault
<1>17. CASE SaveReturns
  BY <1>1, <1>3, <1>17, SaveReturnsFault
<1>18. CASE PowerCut
  <2>1. ~Writing
    BY <1>18 DEF PowerCut, Writing
  <2>. QED  BY <1>1, <1>3, <1>18, <2>1, PowerOffFault
<1>19. CASE UNCHANGED vars
  BY <1>3, <1>19 DEF vars, FaultInv, RunsOnSaved, Acceptable, UserProgress,
     UserSound, BackupSound, BackupProgress, AllValid, Valid, Unused, Fallback
<1>. QED  BY <1>4, <1>5, <1>6, <1>7, <1>8, <1>9, <1>10, <1>11, <1>12, <1>13,
             <1>14, <1>15, <1>16, <1>17, <1>18, <1>19 DEF Next

(* para_save_to_storage writes one area after the other, so one failing       *)
(* access to the flash or the EEPROM, a failing read at start-up included,    *)
(* never makes the device run on a group older than its last reported save,   *)
(* as long as no write is cut short.  pmm_save_to_backup is not excluded.     *)
THEOREM OneFaultSurvived == Spec => []SurvivesOneFault
<1>1. Init => OneFaultInv
  BY InitType, InitFault DEF OneFaultInv
<1>2. OneFaultInv => SurvivesOneFault
  BY DEF OneFaultInv, FaultInv, SurvivesOneFault
<1>. QED  BY <1>1, <1>2, FaultInductive, TypeCorrect, PTL DEF Spec

-----------------------------------------------------------------------------
(***************************************************************************)
(* The parameter module implements ParaStore.                              *)
(***************************************************************************)

Store == INSTANCE ParaStore WITH up <- op # "off"

(* A device as delivered comes up with its factory area, or the defaults. *)
LEMMA StoreInit == ASSUME Init PROVE Store!Init
<1>1. TypeOK
  BY InitType
<1> DEFINE f == [g \in Group |-> IF Valid(factory, g) THEN factory.data[g] ELSE DefVal]
<1>2. acc = [g \in Group |-> {f[g]}]
  <2>1. acc = [g \in Group |-> IF Valid(factory, g) THEN {factory.data[g]} ELSE {DefVal}]
    BY DEF Init
  <2>2. QED
    BY <2>1
<1>3. f \in [Group -> Value]
  <2>1. ASSUME NEW g \in Group, Valid(factory, g) PROVE factory.data[g] \in Value
    <3>1. /\ factory.data[g] \in Value \cup {Torn}
          /\ factory.crc[g] \in Value \cup {NoCrc}
      BY <1>1 DEF TypeOK, Area
    <3>2. factory.data[g] = factory.crc[g]
      BY <2>1 DEF Valid
    <3>3. QED
      BY <3>1, <3>2, ParaAssumption
  <2>2. DefVal \in Value
    BY ParaAssumption
  <2>3. QED
    BY <2>1, <2>2
<1> HIDE DEF f
<1>4. op = "off" /\ ram \in [Group -> Value]
  BY <1>1 DEF Init, TypeOK
<1>5. QED
  BY <1>2, <1>3, <1>4 DEF Store!Init

(* The device runs on parameters that it may come up with, so that those     *)
(* which a step leaves alone add nothing.                                    *)
LEMMA StoreAssign ==
    ASSUME TypeOK, TypeOK', RunsOnSaved, op # "off", op' # "off",
           NEW S \in SUBSET Group,
           \A g \in Group \ S : ram'[g] = ram[g],
           acc' = [g \in Group |-> IF g \in S THEN acc[g] \cup {ram'[g]} ELSE acc[g]]
    PROVE  Store!Assign
<1>1. \A g \in Group : ram[g] \in acc[g]
  BY DEF RunsOnSaved
<1>2. acc' = [g \in Group |-> acc[g] \cup {ram'[g]}]
  BY <1>1
<1>3. ram' \in [Group -> Value]
  BY DEF TypeOK
<1>4. QED
  BY <1>2, <1>3 DEF Store!Assign

LEMMA StoreStep ==
    ASSUME TypeOK, TypeOK', RunsOnSaved, RunsOnSaved', [Next]_vars
    PROVE  [Store!Next]_Store!storeVars
<1>0. /\ ram \in [Group -> Value] /\ ram' \in [Group -> Value]
      /\ acc \in [Group -> SUBSET Value] /\ acc' \in [Group -> SUBSET Value]
      /\ Dev \in Group
  BY ParaAssumption DEF TypeOK, Group, Dev
<1>1. CASE \E readOk \in BOOLEAN : ParaInit(readOk)
  <2>1. op = "off" /\ op' = "boot" /\ acc' = acc
    BY <1>1 DEF ParaInit
  <2>2. \A g \in Group : ram'[g] \in acc[g]
    BY <2>1 DEF RunsOnSaved
  <2>3. Store!Start
    BY <1>0, <2>1, <2>2 DEF Store!Start
  <2>4. QED
    BY <2>3 DEF Store!Next
<1>2. CASE RecheckAddr
  <2>1. CASE ram[Dev] \in BadAddr
    <3>1. /\ ram' = [ram EXCEPT ![Dev] = DefVal]
          /\ acc' = [acc EXCEPT ![Dev] = @ \cup {DefVal}]
          /\ op = "boot" /\ op' = "save"
      BY <1>2, <2>1 DEF RecheckAddr
    <3>2. /\ \A g \in Group \ {Dev} : ram'[g] = ram[g]
          /\ acc' = [g \in Group |-> IF g \in {Dev} THEN acc[g] \cup {ram'[g]} ELSE acc[g]]
      BY <1>0, <3>1
    <3>3. op # "off" /\ op' # "off" /\ {Dev} \in SUBSET Group
      BY <1>0, <3>1
    <3>4. Store!Assign
      BY <3>2, <3>3, StoreAssign
    <3>5. QED
      BY <3>4 DEF Store!Next
  <2>2. CASE ram[Dev] \notin BadAddr
    <3>1. op = "boot" /\ op' = "idle" /\ UNCHANGED <<ram, acc>>
      BY <1>2, <2>2 DEF RecheckAddr
    <3>2. QED
      BY <3>1 DEF Store!storeVars
  <2>3. QED
    BY <2>1, <2>2
<1>3. CASE \E g \in Group, v \in Value : Modify(g, v)
  <2>1. PICK g \in Group, v \in Value : Modify(g, v)
    BY <1>3
  <2>2. /\ ram' = [ram EXCEPT ![g] = v] /\ acc' = [acc EXCEPT ![g] = @ \cup {v}]
        /\ op = "idle" /\ op' = op
    BY <2>1 DEF Modify
  <2>3. /\ \A h \in Group \ {g} : ram'[h] = ram[h]
        /\ acc' = [h \in Group |-> IF h \in {g} THEN acc[h] \cup {ram'[h]} ELSE acc[h]]
    BY <1>0, <2>2
  <2>4. op # "off" /\ op' # "off" /\ {g} \in SUBSET Group
    BY <2>2
  <2>5. Store!Assign
    BY <2>3, <2>4, StoreAssign
  <2>6. QED
    BY <2>5 DEF Store!Next
<1>4. CASE pmm_restore_to_default \/ pmm_restore_to_factory
  <2>1. op # "off" /\ op' # "off"
    BY <1>4 DEF pmm_restore_to_default, pmm_restore_to_factory
  <2>2. acc' = [g \in Group |-> acc[g] \cup {ram'[g]}]
    <3>1. CASE pmm_restore_to_default
      <4>1. /\ ram' = [g \in Group |-> DefVal]
            /\ acc' = [g \in Group |-> acc[g] \cup {DefVal}]
        BY <3>1 DEF pmm_restore_to_default
      <4>2. QED
        BY <4>1
    <3>2. CASE pmm_restore_to_factory
      BY <3>2 DEF pmm_restore_to_factory
    <3>3. QED
      BY <1>4, <3>1, <3>2
  <2>3. Store!Assign
    BY <1>0, <2>1, <2>2 DEF Store!Assign
  <2>4. QED
    BY <2>3 DEF Store!Next
<1>5. CASE SaveReturns
  <2>1. /\ op = "save" /\ op' = "idle" /\ ram' = ram
        /\ acc' = [g \in Group |-> IF g \in commit THEN {ram[g]} ELSE acc[g]]
    BY <1>5 DEF SaveReturns
  <2>2. commit \in SUBSET Group
    BY DEF TypeOK
  <2>3. Store!Saved
    BY <2>1, <2>2 DEF Store!Saved
  <2>4. QED
    BY <2>3 DEF Store!Next
<1>6. CASE PowerCut
  <2>1. op # "off" /\ op' = "off" /\ acc' = acc
    BY <1>6 DEF PowerCut
  <2>2. Store!Stop
    BY <1>0, <2>1 DEF Store!Stop
  <2>3. QED
    BY <2>2 DEF Store!Next
<1>7. CASE \/ \E g \in Group : pmm_save_group(g)
           \/ pmm_save_to_factory \/ pmm_save_to_backup
  <2>1. op = "idle" /\ op' = "save" /\ ram' = ram /\ acc' = acc
    BY <1>7 DEF pmm_save_group, pmm_save_to_factory, pmm_save_to_backup, history
  <2>2. QED
    BY <2>1 DEF Store!storeVars
<1>8. CASE WriteUser \/ WriteBackup \/ WriteFactory
  <2>1. UNCHANGED <<op, ram, acc>>
    BY <1>8 DEF WriteUser, WriteBackup, WriteFactory, history
  <2>2. QED
    BY <2>1 DEF Store!storeVars
<1>9. CASE FlashFails \/ EepromFails \/ UNCHANGED vars
  <2>1. UNCHANGED <<op, ram, acc>>
    BY <1>9 DEF FlashFails, EepromFails, Fault, vars
  <2>2. QED
    BY <2>1 DEF Store!storeVars
<1>10. QED
  BY <1>1, <1>2, <1>3, <1>4, <1>5, <1>6, <1>7, <1>8, <1>9 DEF Next

(* The parameter module keeps the promise of ParaStore as long as no access  *)
(* to the media fails and pmm_save_to_backup is not used on unsaved          *)
(* parameters: para_init brings up saved contents or later ones, a save that *)
(* has returned is final, and power cuts anywhere in between, in a repair    *)
(* too, are invisible.                                                       *)
THEOREM ImplementsStore ==
    Spec /\ [](faults = 0 /\ ~forced) => Store!Spec
<1>1. Init => Store!Init
  BY StoreInit
<1>2. /\ TypeOK /\ TypeOK' /\ Durable /\ Durable'
      /\ faults = 0 /\ ~forced /\ (faults = 0 /\ ~forced)' /\ [Next]_vars
      => [Store!Next]_Store!storeVars
  BY StoreStep DEF Durable
<1>3. QED
  BY <1>1, <1>2, TypeCorrect, Durability, PTL DEF Spec, Store!Spec
=============================================================================
