---------------------------- MODULE UpgradeProofs ----------------------------
(***************************************************************************)
(* The boot loader only ever starts a complete application; every variable *)
(* keeps its type; and an upgrade that was acknowledged is the one that    *)
(* runs after the reset.  For all sets of images (that fit into the        *)
(* application area, for the first and the last), all flash geometries and *)
(* all sequences of commands, packets, resets and power cuts.              *)
(***************************************************************************)
EXTENDS Upgrade, TLAPS

Installing == run \in {"erase1", "erase2", "copy", "check"}

(* Types, as far as the argument needs them. *)
TypeInv ==
    /\ flash = [a \in Addr |-> flash[a]]
    /\ fw \in [img : Images, status : Status, seg : Nat]
    /\ info \in [img : Images, status : Status]
    /\ pos \in Nat
    /\ passed \subseteq Image

(* CHECK_PASS, in RAM and on flash, stands for a check that was made. *)
PassInv ==
    /\ fw.status = "check_pass" => fw.img \in passed
    /\ info.status = "check_pass" => info.img \in passed

(* As long as the application area is not complete, a complete image waits   *)
(* behind an information page that sends every boot back to installing it.   *)
BootInv ==
    /\ run = "app" => Bootable
    /\ run = "off" => Bootable \/ Staged
    /\ Installing => Staged
    /\ run \in {"off", "app"} \/ Installing

IInv == TypeInv /\ PassInv /\ BootInv

-----------------------------------------------------------------------------
(* A step that leaves the application area alone leaves what it holds. *)
LEMMA AppKept ==
    ASSUME Fits,
           \A a \in 1..AppCap : flash'[a] = flash[a],
           passed \subseteq passed', passed \subseteq Image,
           Bootable
    PROVE  Bootable'
<1>1. PICK i \in {Old} \cup passed : Whole(APP, i)
  BY DEF Bootable
<1>2. i \in Image /\ Size[i] \in Nat /\ Size[i] <= AppCap
  BY <1>1, UpgradeAssumption DEF Fits, Whole
<1>3. AppCap \in Nat
  BY UpgradeAssumption
<1>4. \A k \in 1..Size[i] : k \in 1..AppCap
  BY <1>2, <1>3
<1>5. \A k \in 1..Size[i] : flash[k] = Block(i, k)
  BY <1>1, <1>2 DEF Whole, APP
<1>6. \A k \in 1..Size[i] : flash'[k] = Block(i, k)
  BY <1>4, <1>5
<1>7. \A k \in 1..Size[i] : flash'[APP + k] = Block(i, k)
  BY <1>2, <1>6 DEF APP
<1>8. Whole(APP, i)'
  BY <1>2, <1>7 DEF Whole, APP, Block
<1> QED BY <1>1, <1>8 DEF Bootable

(* A step that leaves the received firmware and the information page alone   *)
(* leaves the update staged.                                                 *)
LEMMA StagedKept ==
    ASSUME \A a \in (AppCap + 1)..(AppCap + DataCap) : flash'[a] = flash[a],
           info' = info,
           Staged
    PROVE  Staged'
<1> DEFINE i == info.img
<1>1. i \in Image /\ Size[i] \in Nat /\ Size[i] <= DataCap
  BY UpgradeAssumption DEF Staged, Whole
<1>2. AppCap \in Nat /\ DataCap \in Nat
  BY UpgradeAssumption
<1>3. \A k \in 1..Size[i] : DATA + k \in (AppCap + 1)..(AppCap + DataCap)
  BY <1>1, <1>2 DEF DATA
<1>4. \A k \in 1..Size[i] : flash[DATA + k] = Block(i, k)
  BY DEF Staged, Whole
<1>5. \A k \in 1..Size[i] : flash'[DATA + k] = Block(i, k)
  BY <1>3, <1>4
<1>6. Whole(DATA, i)'
  BY <1>1, <1>5 DEF Whole, DATA, Block
<1> QED BY <1>6 DEF Staged, SegCount

(* Erasing sectors, programming a block and tearing blocks change only the   *)
(* addresses they are aimed at.                                              *)
LEMMA ProgramLocal ==
    ASSUME NEW a, NEW b, TypeInv, Program(a, b)
    PROVE  /\ flash' = [x \in Addr |-> flash'[x]]
           /\ \A x \in Addr : x # a => flash'[x] = flash[x]
<1>1. flash' = [x \in Addr |-> IF x = a THEN (IF flash[a] \in {Erased, b} THEN b ELSE Mixed)
                                        ELSE flash[x]]
  BY DEF Program, TypeInv
<1> QED BY <1>1

LEMMA EraseLocal ==
    ASSUME NEW S, EraseBlocks(S)
    PROVE  /\ flash' = [x \in Addr |-> flash'[x]]
           /\ \A x \in Addr : x \notin S => flash'[x] = flash[x]
BY DEF EraseBlocks

LEMMA Geometry ==
    /\ AppCap \in Nat /\ DataCap \in Nat
    /\ \A s : AppSector(s) \subseteq 1..AppCap
    /\ \A s : DataSector(s) \cap 1..AppCap = {}
    /\ 1..AppCap \subseteq Addr
    /\ (AppCap + 1)..(AppCap + DataCap) \subseteq Addr
    /\ 1..AppCap \cap (AppCap + 1)..(AppCap + DataCap) = {}
BY UpgradeAssumption DEF AppSector, DataSector, DATA, Addr

(* A step of a running application: only the data area of the flash changes. *)
LEMMA AppStep ==
    ASSUME Fits, TypeInv, BootInv, run = "app", run' \in {"app", "off"},
           \A a \in 1..AppCap : flash'[a] = flash[a],
           passed \subseteq passed'
    PROVE  BootInv'
<1>1. Bootable
  BY DEF BootInv
<1>2. Bootable'
  BY <1>1, AppKept DEF TypeInv
<1> QED BY <1>2 DEF BootInv, Installing

(* A step of the boot loader while it installs: only the application area    *)
(* changes, and it either goes on or resets.                                 *)
LEMMA InstallStep ==
    ASSUME BootInv, Installing, Installing' \/ run' = "off",
           \A a \in (AppCap + 1)..(AppCap + DataCap) : flash'[a] = flash[a],
           info' = info
    PROVE  BootInv'
<1>1. Staged'
  BY StagedKept DEF BootInv
<1> QED BY <1>1 DEF BootInv, Installing

LEMMA InitInv == Init => IInv
<1> SUFFICES ASSUME Init PROVE IInv
  OBVIOUS
<1>1. TypeInv
  BY UpgradeAssumption DEF Init, TypeInv, RamInit, NoInfo, Images, Status
<1>2. PassInv
  BY DEF Init, PassInv, RamInit, NoInfo
<1>3. Whole(APP, Old)
  <2>1. Old \in Image /\ Size[Old] \in Nat /\ Size[Old] <= AppCap /\ AppCap \in Nat /\ DataCap \in Nat
    BY UpgradeAssumption
  <2>2. \A k \in 1..Size[Old] : k \in Addr /\ k <= Size[Old] /\ APP + k = k
    BY <2>1 DEF Addr, APP
  <2> QED BY <2>1, <2>2 DEF Whole, Init
<1>4. BootInv
  BY <1>3 DEF BootInv, Bootable, Init, Installing
<1> QED BY <1>1, <1>2, <1>4 DEF IInv

-----------------------------------------------------------------------------
(* The steps of the boot loader. *)
LEMMA BootPreserves ==
    ASSUME Fits, IInv, BootNext
    PROVE  IInv'
<1> USE DEF IInv
<1>1. CASE Boot
  <2>1. TypeInv' /\ PassInv'
    BY <1>1 DEF Boot, TypeInv, PassInv, ram_vars, host_vars
  <2>2. run = "off" /\ run' = (IF Staged THEN "erase1" ELSE "app") /\ flash' = flash
        /\ info' = info /\ passed' = passed
    BY <1>1 DEF Boot, host_vars
  <2>3. (Bootable' <=> Bootable) /\ (Staged' <=> Staged)
    BY <2>2 DEF Bootable, Staged, Whole, SegCount, APP, DATA, Block
  <2>4. BootInv'
    BY <2>2, <2>3 DEF BootInv, Installing
  <2> QED BY <2>1, <2>4
<1>2. CASE BootErase
  <2>1. PICK s \in {1, 2} : EraseBlocks(AppSector(s))
    BY <1>2 DEF BootErase
  <2>2. Installing /\ Installing'
    BY <1>2 DEF BootErase, Installing
  <2>3. info' = info /\ fw' = fw /\ passed' = passed /\ pos' = pos
    BY <1>2 DEF BootErase, ram_vars, host_vars
  <2>4. TypeInv' /\ PassInv'
    BY <2>1, <2>3, EraseLocal DEF TypeInv, PassInv
  <2>5. \A a \in (AppCap + 1)..(AppCap + DataCap) : flash'[a] = flash[a]
    BY <2>1, EraseLocal, Geometry
  <2>6. BootInv'
    BY <2>2, <2>3, <2>5, InstallStep
  <2> QED BY <2>4, <2>6
<1>3. CASE BootCopy
  <2>1. Installing /\ Installing'
    BY <1>3 DEF BootCopy, Installing
  <2>2. info' = info /\ fw' = fw /\ passed' = passed
    BY <1>3 DEF BootCopy, ram_vars, host_vars
  <2>3. info.img \in Image /\ Size[info.img] \in Nat /\ Size[info.img] <= AppCap
    BY <2>1, UpgradeAssumption DEF BootInv, Staged, Whole, Fits
  <2>4. CASE pos < Size[info.img]
    <3>1. Program(APP + pos + 1, flash[DATA + pos + 1]) /\ pos' = pos + 1
      BY <1>3, <2>4 DEF BootCopy
    <3>2. TypeInv'
      BY <2>2, <3>1, ProgramLocal DEF TypeInv
    <3>3. APP + pos + 1 \in 1..AppCap
      BY <2>3, <2>4, Geometry DEF APP, TypeInv
    <3>4. \A a \in (AppCap + 1)..(AppCap + DataCap) : flash'[a] = flash[a]
      BY <3>1, <3>3, ProgramLocal, Geometry
    <3>5. BootInv'
      BY <2>1, <2>2, <3>4, InstallStep
    <3> QED BY <2>2, <3>2, <3>5 DEF PassInv
  <2>5. CASE ~(pos < Size[info.img])
    <3>1. flash' = flash /\ pos' = pos
      BY <1>3, <2>5 DEF BootCopy
    <3>2. BootInv'
      BY <2>1, <2>2, <3>1, InstallStep
    <3> QED BY <2>2, <3>1, <3>2 DEF TypeInv, PassInv
  <2> QED BY <2>4, <2>5
<1>4. CASE BootCheck
  <2>1. Installing /\ Staged
    BY <1>4 DEF BootCheck, Installing, BootInv
  <2>2. flash' = flash /\ fw' = fw /\ passed' = passed /\ pos' = pos
    BY <1>4 DEF BootCheck, ram_vars, host_vars
  <2>3. CASE Whole(APP, info.img)
    <3>1. run' = "app" /\ info' = NoInfo
      BY <1>4, <2>3 DEF BootCheck
    <3>2. TypeInv' /\ PassInv'
      BY <2>2, <3>1 DEF TypeInv, PassInv, NoInfo, Images, Status
    <3>3. info.img \in passed
      BY <2>1 DEF Staged, PassInv
    <3>4. Bootable
      BY <2>3, <3>3 DEF Bootable
    <3>5. Bootable'
      BY <2>2, <3>4 DEF Bootable, Whole, APP, Block
    <3> QED BY <3>1, <3>2, <3>5 DEF BootInv, Installing
  <2>4. CASE ~Whole(APP, info.img)
    <3>1. run' = "off" /\ info' = info
      BY <1>4, <2>4 DEF BootCheck
    <3>2. BootInv'
      BY <2>1, <2>2, <3>1, InstallStep
    <3> QED BY <2>2, <3>1, <3>2 DEF TypeInv, PassInv
  <2> QED BY <2>3, <2>4
<1> QED BY <1>1, <1>2, <1>3, <1>4 DEF BootNext

(* The steps of upgrade_task. *)
LEMMA TaskPreserves ==
    ASSUME Fits, IInv, TaskNext
    PROVE  IInv'
<1> USE DEF IInv
<1>1. run = "app" /\ run' = "app"
  BY DEF TaskNext, TaskStart, TaskErase, TaskLoop, TaskSend, TaskFetch, TaskRuns,
         boot_vars
<1>2. info' = info /\ passed' = passed /\ pos' = pos
  BY DEF TaskNext, TaskStart, TaskErase, TaskLoop, TaskSend, TaskFetch, boot_vars,
         host_vars
<1>3. fw' = fw \/ \E s \in {"trans", "finished"} : fw' = [fw EXCEPT !.status = s]
  BY DEF TaskNext, TaskStart, TaskErase, TaskLoop, TaskSend, TaskFetch, Missed, Over
<1>4. /\ flash' = [x \in Addr |-> flash'[x]]
      /\ \A a \in 1..AppCap : flash'[a] = flash[a]
  <2>1. CASE TaskErase
    <3>1. PICK s \in {1, 2} : EraseBlocks(DataSector(s))
      BY <2>1 DEF TaskErase
    <3> QED BY <3>1, EraseLocal, Geometry
  <2>2. CASE ~TaskErase
    BY <2>2 DEF TaskNext, TaskStart, TaskLoop, TaskSend, TaskFetch, TypeInv
  <2> QED BY <2>1, <2>2
<1>5. fw' \in [img : Images, status : Status, seg : Nat]
  BY <1>3 DEF TypeInv, Status
<1>6. fw'.status = "check_pass" => fw' = fw
  BY <1>3 DEF TypeInv
<1>7. TypeInv' /\ PassInv'
  BY <1>2, <1>4, <1>5, <1>6 DEF TypeInv, PassInv
<1>8. BootInv'
  BY <1>1, <1>2, <1>4, AppStep
<1> QED BY <1>7, <1>8

(* The command handlers. *)
LEMMA HandlersPreserve ==
    ASSUME Fits, IInv,
           \/ HandlerNext \/ CMD_UP_cancel
           \/ \E i \in Image : CMD_UP_notify(i) \/ CMD_UP_finish(i)
           \/ \E p \in net : CMD_UP_data(p)
    PROVE  IInv'
<1> USE DEF IInv
<1>1. CASE DataReceived
  <2>1. run = "app" /\ run' = "app" /\ UNCHANGED <<flash, info, pos, fw, passed>>
    BY <1>1 DEF DataReceived, boot_vars, host_vars
  <2>2. BootInv'
    BY <2>1, AppStep
  <2> QED BY <2>1, <2>2 DEF TypeInv, PassInv
<1>2. CASE FinishReturns
  <2>1. /\ run = "app" /\ run' = "app" /\ UNCHANGED <<flash, pos, fw, passed>>
        /\ info' = [img |-> fw.img, status |-> fw.status]
    BY <1>2 DEF FinishReturns, boot_vars
  <2>2. BootInv'
    BY <2>1, AppStep
  <2> QED BY <2>1, <2>2 DEF TypeInv, PassInv
<1>3. CASE CMD_UP_cancel
  <2>1. /\ run = "app" /\ run' = "app" /\ UNCHANGED <<flash, info, pos, passed>>
        /\ fw' = [fw EXCEPT !.status = "canceled"]
    BY <1>3 DEF CMD_UP_cancel, Idle, boot_vars
  <2>2. BootInv'
    BY <2>1, AppStep
  <2> QED BY <2>1, <2>2 DEF TypeInv, PassInv, Status
<1>4. ASSUME NEW i \in Image, CMD_UP_notify(i)
      PROVE  IInv'
  <2>1. /\ run = "app" /\ run' = "app" /\ UNCHANGED <<flash, pos, passed>>
        /\ fw' = [img |-> i, status |-> "start", seg |-> 0] /\ info' = NoInfo
    BY <1>4 DEF CMD_UP_notify, Idle, boot_vars
  <2>2. BootInv'
    BY <2>1, AppStep
  <2> QED BY <2>1, <2>2 DEF TypeInv, PassInv, Status, NoInfo, Images
<1>5. ASSUME NEW i \in Image, CMD_UP_finish(i)
      PROVE  IInv'
  <2>1. run = "app" /\ run' = "app" /\ UNCHANGED <<flash, pos>> /\ info' = NoInfo
    BY <1>5 DEF CMD_UP_finish, Idle, boot_vars
  <2>2. \/ /\ FinishError(i) = 0
           /\ fw' = [fw EXCEPT !.status = "check_pass"]
           /\ passed' = passed \cup {fw.img}
        \/ fw' = [fw EXCEPT !.status = "check_fail"] /\ passed' = passed
        \/ fw' = fw /\ passed' = passed
    BY <1>5 DEF CMD_UP_finish
  <2>3. FinishError(i) = 0 => fw.img \in Image
    BY DEF FinishError, SameVersion
  <2>4. TypeInv'
    BY <2>1, <2>2, <2>3 DEF TypeInv, Status, NoInfo, Images
  <2>5. PassInv'
    BY <2>1, <2>2 DEF TypeInv, PassInv, NoInfo
  <2>6. BootInv'
    BY <2>1, <2>2, AppStep
  <2> QED BY <2>4, <2>5, <2>6
<1>6. ASSUME NEW p \in net, CMD_UP_data(p)
      PROVE  IInv'
  <2>1. run = "app" /\ run' = "app" /\ UNCHANGED <<info, pos, passed>>
    BY <1>6 DEF CMD_UP_data, Idle, boot_vars
  <2>2. \/ /\ Program(DATA + fw.seg + 1, Block(p[1], p[2] + 1))
           /\ fw' = [fw EXCEPT !.seg = @ + 1]
        \/ UNCHANGED <<flash, fw>>
    BY <1>6 DEF CMD_UP_data
  <2>3. DATA + fw.seg + 1 \notin 1..AppCap
    BY Geometry DEF DATA, TypeInv
  <2>4. /\ flash' = [x \in Addr |-> flash'[x]]
        /\ \A a \in 1..AppCap : flash'[a] = flash[a]
    BY <2>2, <2>3, ProgramLocal, Geometry DEF TypeInv
  <2>5. fw' \in [img : Images, status : Status, seg : Nat]
        /\ fw'.status = fw.status /\ fw'.img = fw.img
    BY <2>2 DEF TypeInv
  <2>6. BootInv'
    BY <2>1, <2>4, AppStep
  <2> QED BY <2>1, <2>4, <2>5, <2>6 DEF TypeInv, PassInv
<1> QED BY <1>1, <1>2, <1>3, <1>4, <1>5, <1>6 DEF HandlerNext

(* Reset and power cut. *)
LEMMA CutsPreserve ==
    ASSUME Fits, IInv, Reset \/ PowerCut
    PROVE  IInv'
<1> USE DEF IInv
<1>1. run' = "off" /\ UNCHANGED <<info, pos, passed>>
  BY DEF Reset, PowerCut, host_vars
<1>2. fw' = [img |-> NoImage, status |-> "none", seg |-> 0]
  BY DEF Reset, PowerCut, RamLost
<1>3. run # "off"
  BY DEF Reset, PowerCut, Idle
<1>4. \/ flash' = flash
      \/ flash' = [a \in Addr |-> IF a \in Busy THEN Mixed ELSE flash[a]]
  BY DEF Reset, PowerCut
<1>5. TypeInv' /\ PassInv'
  BY <1>1, <1>2, <1>4 DEF TypeInv, PassInv, Images, Status
<1>6. CASE run = "app"
  <2>1. Busy \cap 1..AppCap = {}
    BY <1>6, Geometry DEF Busy, TypeInv, DATA
  <2>2. \A a \in 1..AppCap : flash'[a] = flash[a]
    BY <1>4, <2>1, Geometry
  <2> QED BY <1>1, <1>5, <1>6, <2>2, AppStep
<1>7. CASE Installing
  <2>1. Size[info.img] \in Nat /\ Size[info.img] <= AppCap
    BY <1>7, UpgradeAssumption DEF BootInv, Staged, Whole, Fits
  <2>2. Busy \subseteq 1..AppCap
    BY <1>7, <2>1, Geometry DEF Busy, Installing, TypeInv, APP
  <2>3. \A a \in (AppCap + 1)..(AppCap + DataCap) : flash'[a] = flash[a]
    BY <1>4, <2>2, Geometry
  <2>4. BootInv'
    BY <1>1, <1>7, <2>3, InstallStep
  <2> QED BY <1>5, <2>4
<1> QED BY <1>3, <1>6, <1>7 DEF BootInv

LEMMA Inductive ==
    ASSUME Fits, IInv, [Next]_vars
    PROVE  IInv'
<1>1. CASE UNCHANGED vars
  <2>1. UNCHANGED <<flash, fw, info, pos, passed, run>>
    BY <1>1 DEF vars
  <2> QED BY <2>1 DEF IInv, TypeInv, PassInv, BootInv, Installing, Bootable, Staged,
                      Whole, SegCount, APP, DATA, Block
<1>2. CASE Next
  BY <1>2, BootPreserves, TaskPreserves, HandlersPreserve, CutsPreserve DEF Next
<1> QED BY <1>1, <1>2

(* The boot loader, the transfer and the commands keep the device bootable:  *)
(* with images that fit, whatever the host sends and wherever power is cut,  *)
(* only complete, checked applications are started.                          *)
THEOREM StartsWhole == SafeSpec => [](Fits => StartsWholeApp)
<1>1. Init => (Fits => IInv)
  BY InitInv
<1>2. (Fits => IInv) /\ [Next]_vars => (Fits => IInv)'
  <2>1. Fits' <=> Fits
    BY DEF Fits
  <2> QED BY <2>1, Inductive
<1>3. (Fits => IInv) => (Fits => StartsWholeApp)
  BY DEF IInv, BootInv, StartsWholeApp
<1> QED BY <1>1, <1>2, <1>3, PTL DEF SafeSpec

-----------------------------------------------------------------------------
(***************************************************************************)
(* Types, for all images, also those that do not fit: what is added to     *)
(* TypeOK is what keeps the counters within their bounds.                  *)
(***************************************************************************)

(* Data packets carry a segment that the image has. *)
Packet == {p \in Image \X (0..DataCap) : p[2] < Size[p[1]]}

FlashTypes == flash \in [Addr -> Blocks]
BootTypes ==
    /\ info \in [img : Images, status : Status]
    /\ run \in {"off", "erase1", "erase2", "copy", "check", "app"}
    /\ pos \in 0..DataCap
    /\ run \in {"erase1", "erase2", "copy", "check"} => info.img \in Image
FwTypes == fw \in [img : Images, status : Status, seg : 0..DataCap]
TaskTypes ==
    /\ mb \in [ok : BOOLEAN, q : Seq({"recv", "stop"})] /\ Len(mb.q) <= 2
    /\ boxes \in 0..MaxBoxes
    /\ task \in {"idle", "erase1", "erase2", "loop", "send", "wait"}
    /\ req \in 0..DataCap /\ retry \in 0..Retries
    /\ task \in {"send", "wait"} => retry # 0
CountTypes == pend \in Nat /\ notifies \in Nat /\ pend <= notifies /\ notifies <= MaxNotify
HostTypes ==
    /\ cmd \in {"none", "data", "ack", "nack"}
    /\ reset \in BOOLEAN /\ timers \in BOOLEAN
    /\ net \subseteq Packet
    /\ passed \subseteq Image /\ acked \in Images
    /\ overlapped \in BOOLEAN

Types == FlashTypes /\ BootTypes /\ FwTypes /\ TaskTypes /\ CountTypes /\ HostTypes

LEMMA Constants ==
    /\ NoImage \notin Image /\ Image \subseteq Images /\ NoImage \in Images
    /\ AppCap \in Nat /\ DataCap \in Nat /\ AppSect1 \in Nat /\ DataSect1 \in Nat
    /\ AppSect1 <= AppCap /\ DataSect1 <= DataCap
    /\ \A i \in Image : Size[i] \in Nat /\ Size[i] <= DataCap
    /\ MaxBoxes \in Nat /\ Retries \in Nat \ {0} /\ MaxNotify \in Nat
BY UpgradeAssumption DEF Images

(* The contents of a block. *)
LEMMA BlockTypes ==
    /\ Erased \in Blocks
    /\ \A a \in Addr : Mixed \in Blocks
    /\ \A p \in Packet : Block(p[1], p[2] + 1) \in Blocks
<1>1. Erased \in Blocks
  BY Constants DEF Erased, Blocks
<1>2. ASSUME NEW a \in Addr PROVE Mixed \in Blocks
  BY Constants DEF Mixed, Blocks, Addr
<1>3. ASSUME NEW p \in Packet PROVE Block(p[1], p[2] + 1) \in Blocks
  <2>1. p[1] \in Image /\ p[2] \in Nat /\ p[2] < Size[p[1]]
    BY Constants DEF Packet
  <2>2. p[2] + 1 \in 0..(AppCap + DataCap) /\ p[1] \in Images
    BY <2>1, Constants
  <2> QED BY <2>2 DEF Block, Blocks
<1> QED BY <1>1, <1>2, <1>3

LEMMA EraseTypes ==
    ASSUME FlashTypes, NEW S, EraseBlocks(S)
    PROVE  FlashTypes'
BY BlockTypes DEF FlashTypes, EraseBlocks

LEMMA ProgramTypes ==
    ASSUME FlashTypes, NEW a, NEW b \in Blocks, Program(a, b)
    PROVE  FlashTypes'
<1>1. CASE a \in Addr
  BY <1>1, BlockTypes DEF FlashTypes, Program
<1>2. CASE a \notin Addr
  BY <1>2 DEF FlashTypes, Program
<1> QED BY <1>1, <1>2

LEMMA RamTypes ==
    ASSUME RamLost
    PROVE  FwTypes' /\ TaskTypes' /\ pend' = 0 /\ cmd' = "none" /\ reset' = FALSE /\ timers' = TRUE
<1>1. FwTypes'
  BY Constants DEF RamLost, FwTypes, Status
<1>2. mb' \in [ok : BOOLEAN, q : Seq({"recv", "stop"})] /\ Len(mb'.q) <= 2
  <2>1. <<>> \in Seq({"recv", "stop"}) /\ Len(<<>>) = 0
    OBVIOUS
  <2>2. mb' = [ok |-> FALSE, q |-> <<>>]
    BY DEF RamLost
  <2> QED BY <2>1, <2>2
<1>3. TaskTypes'
  BY <1>2, Constants DEF RamLost, TaskTypes
<1> QED BY <1>1, <1>3 DEF RamLost

LEMMA TypesInit == Init => Types
<1> SUFFICES ASSUME Init PROVE Types
  OBVIOUS
<1>1. FlashTypes
  <2>1. ASSUME NEW a \in Addr, a <= Size[Old] PROVE Block(Old, a) \in Blocks
    BY <2>1, UpgradeAssumption DEF Addr, Block, Blocks, Images
  <2> QED BY <2>1, BlockTypes DEF Init, FlashTypes
<1>2. BootTypes
  BY Constants DEF Init, BootTypes, NoInfo, Status
<1>3. FwTypes
  BY Constants DEF Init, RamInit, FwTypes, Status
<1>4. mb \in [ok : BOOLEAN, q : Seq({"recv", "stop"})] /\ Len(mb.q) <= 2
  <2>1. <<>> \in Seq({"recv", "stop"}) /\ Len(<<>>) = 0
    OBVIOUS
  <2>2. mb = [ok |-> FALSE, q |-> <<>>]
    BY DEF Init, RamInit
  <2> QED BY <2>1, <2>2
<1>5. TaskTypes
  BY <1>4, Constants DEF Init, RamInit, TaskTypes
<1>6. CountTypes
  BY Constants DEF Init, RamInit, CountTypes
<1>7. reset \in BOOLEAN /\ timers \in BOOLEAN /\ overlapped \in BOOLEAN
  <2>1. reset = FALSE /\ timers = TRUE /\ overlapped = FALSE
    BY DEF Init, RamInit
  <2> QED BY <2>1
<1>8. HostTypes
  BY <1>7, Constants DEF Init, RamInit, HostTypes
<1> QED BY <1>1, <1>2, <1>3, <1>5, <1>6, <1>8 DEF Types

(* The boot loader. *)
LEMMA BootTypesKept ==
    ASSUME Types, BootNext
    PROVE  Types'
<1> USE DEF Types
<1>1. FwTypes' /\ TaskTypes' /\ CountTypes' /\ HostTypes'
  BY DEF BootNext, Boot, BootErase, BootCopy, BootCheck, ram_vars, host_vars,
         FwTypes, TaskTypes, CountTypes, HostTypes
<1>2. FlashTypes' /\ BootTypes'
  <2>1. CASE Boot
    <3>1. Staged => info.img \in Image
      BY DEF Staged, Whole
    <3> QED BY <2>1, <3>1, Constants DEF Boot, FlashTypes, BootTypes
  <2>2. CASE BootErase
    <3>1. PICK S : EraseBlocks(S)
      BY <2>2 DEF BootErase
    <3> QED BY <2>2, <3>1, EraseTypes DEF BootErase, BootTypes
  <2>3. CASE BootCopy
    <3>1. info.img \in Image /\ pos \in Nat
      BY <2>3 DEF BootCopy, BootTypes
    <3>2. CASE pos < Size[info.img]
      <4>1. /\ Program(APP + pos + 1, flash[DATA + pos + 1]) /\ pos' = pos + 1
            /\ run' = run /\ info' = info
        BY <2>3, <3>2 DEF BootCopy
      <4>2. DATA + pos + 1 \in Addr /\ pos + 1 \in 0..DataCap
        BY <3>1, <3>2, Constants DEF DATA, Addr
      <4>3. flash[DATA + pos + 1] \in Blocks
        BY <4>2 DEF FlashTypes
      <4> QED BY <4>1, <4>2, <4>3, ProgramTypes DEF BootTypes
    <3>3. CASE ~(pos < Size[info.img])
      BY <2>3, <3>3 DEF BootCopy, FlashTypes, BootTypes
    <3> QED BY <3>2, <3>3
  <2>4. CASE BootCheck
    BY <2>4, Constants DEF BootCheck, FlashTypes, BootTypes, NoInfo, Status
  <2> QED BY <2>1, <2>2, <2>3, <2>4 DEF BootNext
<1> QED BY <1>1, <1>2

LEMMA PostTypes ==
    ASSUME mb \in [ok : BOOLEAN, q : Seq({"recv", "stop"})], Len(mb.q) <= 2,
           NEW m \in {"recv", "stop"}, Post(m)
    PROVE  mb' \in [ok : BOOLEAN, q : Seq({"recv", "stop"})] /\ Len(mb'.q) <= 2
<1>1. CASE mb.ok /\ Len(mb.q) < 2
  <2> DEFINE q == Append(mb.q, m)
  <2>1. q \in Seq({"recv", "stop"}) /\ Len(q) <= 2
    BY <1>1
  <2>2. mb' = [mb EXCEPT !.q = q]
    BY <1>1 DEF Post
  <2> HIDE DEF q
  <2> QED BY <2>1, <2>2
<1>2. CASE ~(mb.ok /\ Len(mb.q) < 2)
  BY <1>2 DEF Post
<1> QED BY <1>1, <1>2

(* upgrade_task. *)
LEMMA TaskTypesKept ==
    ASSUME Types, TaskNext
    PROVE  Types'
<1> USE DEF Types
<1>1. BootTypes'
  BY DEF TaskNext, TaskStart, TaskErase, TaskLoop, TaskSend, TaskFetch, boot_vars, BootTypes
<1>2. FwTypes'
  <2>1. fw' = fw \/ \E x \in {"trans", "finished"} : fw' = [fw EXCEPT !.status = x]
    BY DEF TaskNext, TaskStart, TaskErase, TaskLoop, TaskSend, TaskFetch, Missed, Over
  <2> QED BY <2>1 DEF FwTypes, Status
<1>3. FlashTypes'
  <2>1. CASE TaskErase
    BY <2>1, EraseTypes DEF TaskErase
  <2>2. CASE ~TaskErase
    BY <2>2 DEF TaskNext, TaskStart, TaskLoop, TaskSend, TaskFetch, FlashTypes
  <2> QED BY <2>1, <2>2
<1>4. TaskTypes' /\ CountTypes' /\ HostTypes'
  <2>1. CASE TaskStart
    <3>1. <<>> \in Seq({"recv", "stop"}) /\ Len(<<>>) = 0
      OBVIOUS
    <3>2. mb' \in [ok : BOOLEAN, q : Seq({"recv", "stop"})] /\ Len(mb'.q) <= 2
      <4>1. CASE mb' = [ok |-> TRUE, q |-> <<>>]
        BY <3>1, <4>1
      <4>2. CASE mb' = [ok |-> FALSE, q |-> <<>>]
        BY <3>1, <4>2
      <4> QED BY <2>1, <4>1, <4>2 DEF TaskStart
    <3>3. TaskTypes'
      BY <2>1, <3>2, Constants DEF TaskStart, TaskTypes
    <3>4. CountTypes' /\ HostTypes'
      BY <2>1 DEF TaskStart, CountTypes, HostTypes, host_vars
    <3> QED BY <3>3, <3>4
  <2>2. CASE TaskErase
    BY <2>2 DEF TaskErase, TaskTypes, CountTypes, HostTypes, host_vars
  <2>3. CASE TaskLoop
    <3>1. fw.seg \in 0..DataCap
      BY DEF FwTypes
    <3>2. TaskTypes'
      BY <2>3, <3>1, Constants DEF TaskLoop, Over, TaskTypes
    <3> QED BY <2>3, <3>2 DEF TaskLoop, CountTypes, HostTypes, host_vars
  <2>4. CASE TaskSend
    <3>1. TaskTypes' /\ CountTypes'
      BY <2>4 DEF TaskSend, Over, TaskTypes, CountTypes
    <3>2. req < SegCount(fw.img) => Block(fw.img, req) \in Packet
      BY Constants DEF SegCount, Block, Packet, TaskTypes
    <3>3. net' \subseteq Packet
      BY <2>4, <3>2 DEF TaskSend, HostTypes
    <3> QED BY <2>4, <3>1, <3>3 DEF TaskSend, HostTypes
  <2>5. CASE TaskFetch
    <3>1. mb' \in [ok : BOOLEAN, q : Seq({"recv", "stop"})] /\ Len(mb'.q) <= 2
      <4>1. CASE mb.q # <<>>
        <5> DEFINE q == Tail(mb.q)
        <5>1. q \in Seq({"recv", "stop"}) /\ Len(q) <= 2
          BY <4>1 DEF TaskTypes
        <5>2. mb' = [mb EXCEPT !.q = q]
          BY <2>5, <4>1 DEF TaskFetch
        <5> HIDE DEF q
        <5> QED BY <5>1, <5>2 DEF TaskTypes
      <4>2. CASE mb.q = <<>>
        BY <2>5, <4>2 DEF TaskFetch, TaskTypes
      <4> QED BY <4>1, <4>2
    <3>2. \/ task' \in {"loop", "idle"} /\ retry' \in 0..Retries
          \/ task' = "send" /\ retry' \in 1..Retries
      BY <2>5, Constants DEF TaskFetch, Missed, Over, TaskTypes
    <3>3. TaskTypes'
      BY <2>5, <3>1, <3>2, Constants DEF TaskFetch, TaskTypes
    <3> QED BY <2>5, <3>3 DEF TaskFetch, CountTypes, HostTypes, host_vars
  <2> QED BY <2>1, <2>2, <2>3, <2>4, <2>5 DEF TaskNext
<1> QED BY <1>1, <1>2, <1>3, <1>4

(* The command handlers. *)
LEMMA CommandTypesKept ==
    ASSUME Types,
           \/ HandlerNext \/ CMD_UP_cancel
           \/ \E i \in Image : CMD_UP_notify(i) \/ CMD_UP_finish(i)
           \/ \E p \in net : CMD_UP_data(p)
    PROVE  Types'
<1> USE DEF Types
<1>1. CASE DataReceived
  <2>1. mb' \in [ok : BOOLEAN, q : Seq({"recv", "stop"})] /\ Len(mb'.q) <= 2
    BY <1>1, PostTypes DEF DataReceived, TaskTypes
  <2>2. TaskTypes'
    BY <1>1, <2>1 DEF DataReceived, TaskTypes
  <2> QED BY <1>1, <2>2 DEF DataReceived, FlashTypes, BootTypes, FwTypes, CountTypes,
                            HostTypes, boot_vars, host_vars
<1>2. CASE FinishReturns
  <2>1. info' \in [img : Images, status : Status] /\ fw.img \in Images
    BY <1>2 DEF FinishReturns, FwTypes
  <2>2. BootTypes'
    BY <1>2, <2>1 DEF FinishReturns, BootTypes, boot_vars
  <2>3. reset' \in BOOLEAN
    BY <1>2 DEF FinishReturns
  <2>4. HostTypes'
    BY <1>2, <2>1, <2>3 DEF FinishReturns, HostTypes
  <2> QED BY <1>2, <2>2, <2>4 DEF FinishReturns, FlashTypes, FwTypes, TaskTypes,
                                  CountTypes, task_vars
<1>3. CASE CMD_UP_cancel
  <2>1. mb' \in [ok : BOOLEAN, q : Seq({"recv", "stop"})] /\ Len(mb'.q) <= 2
    BY <1>3, PostTypes DEF CMD_UP_cancel, TaskTypes
  <2>2. TaskTypes'
    BY <1>3, <2>1 DEF CMD_UP_cancel, TaskTypes
  <2>3. FwTypes'
    BY <1>3 DEF CMD_UP_cancel, FwTypes, Status
  <2> QED BY <1>3, <2>2, <2>3 DEF CMD_UP_cancel, FlashTypes, BootTypes, CountTypes,
                                  HostTypes, boot_vars
<1>4. ASSUME NEW i \in Image, CMD_UP_notify(i)
      PROVE  Types'
  <2>1. FwTypes' /\ BootTypes'
    BY <1>4, Constants DEF CMD_UP_notify, Idle, FwTypes, BootTypes, NoInfo, Status, boot_vars
  <2>2. CountTypes'
    BY <1>4, Constants DEF CMD_UP_notify, CountTypes
  <2>3. overlapped' \in BOOLEAN
    BY <1>4 DEF CMD_UP_notify
  <2>4. HostTypes'
    BY <1>4, <2>3, Constants DEF CMD_UP_notify, HostTypes
  <2> QED BY <1>4, <2>1, <2>2, <2>4 DEF CMD_UP_notify, FlashTypes, TaskTypes
<1>5. ASSUME NEW i \in Image, CMD_UP_finish(i)
      PROVE  Types'
  <2>1. \/ /\ FinishError(i) = 0
           /\ fw' = [fw EXCEPT !.status = "check_pass"]
           /\ passed' = passed \cup {fw.img}
        \/ fw' = [fw EXCEPT !.status = "check_fail"] /\ passed' = passed
        \/ fw' = fw /\ passed' = passed
    BY <1>5 DEF CMD_UP_finish
  <2>2. FinishError(i) = 0 => fw.img \in Image
    BY DEF FinishError, SameVersion
  <2>3. FwTypes'
    BY <2>1 DEF FwTypes, Status
  <2>4. BootTypes'
    BY <1>5, Constants DEF CMD_UP_finish, Idle, BootTypes, NoInfo, Status, boot_vars
  <2>5. passed' \subseteq Image
    BY <2>1, <2>2 DEF HostTypes
  <2>6. HostTypes'
    BY <1>5, <2>5, Constants DEF CMD_UP_finish, HostTypes
  <2> QED BY <1>5, <2>3, <2>4, <2>6 DEF CMD_UP_finish, FlashTypes, TaskTypes, CountTypes,
                                        task_vars
<1>6. ASSUME NEW p \in net, CMD_UP_data(p)
      PROVE  Types'
  <2>1. p \in Packet
    BY DEF HostTypes
  <2>2. p[1] \in Image /\ p[2] \in Nat /\ p[2] < Size[p[1]]
    BY <2>1, Constants DEF Packet
  <2>3. CASE SameVersion(p[1]) /\ p[2] = fw.seg
    <3>1. /\ Program(DATA + fw.seg + 1, Block(p[1], p[2] + 1))
          /\ fw' = [fw EXCEPT !.seg = @ + 1]
      BY <1>6, <2>3 DEF CMD_UP_data
    <3>2. fw.seg + 1 \in 0..DataCap
      BY <2>2, <2>3, Constants
    <3>3. FwTypes' /\ FlashTypes'
      BY <2>1, <3>1, <3>2, BlockTypes, ProgramTypes DEF FwTypes
    <3> QED BY <1>6, <3>3 DEF CMD_UP_data, Idle, BootTypes, TaskTypes, CountTypes,
                              HostTypes, boot_vars, task_vars
  <2>4. CASE ~(SameVersion(p[1]) /\ p[2] = fw.seg)
    BY <1>6, <2>4 DEF CMD_UP_data, FlashTypes, FwTypes, BootTypes, TaskTypes, CountTypes,
                      HostTypes, boot_vars, task_vars
  <2> QED BY <2>3, <2>4
<1> QED BY <1>1, <1>2, <1>3, <1>4, <1>5, <1>6 DEF HandlerNext

LEMMA CutTypesKept ==
    ASSUME Types, Reset \/ PowerCut
    PROVE  Types'
<1> USE DEF Types
<1>1. RamLost /\ run' = "off" /\ UNCHANGED <<info, pos, net, passed, acked, overlapped, notifies>>
  BY DEF Reset, PowerCut, host_vars
<1>2. FwTypes' /\ TaskTypes' /\ pend' = 0 /\ cmd' = "none" /\ reset' = FALSE /\ timers' = TRUE
  BY <1>1, RamTypes
<1>3. FlashTypes'
  <2>1. \/ flash' = flash
        \/ flash' = [a \in Addr |-> IF a \in Busy THEN Mixed ELSE flash[a]]
    BY DEF Reset, PowerCut
  <2> QED BY <2>1, BlockTypes DEF FlashTypes
<1>4. BootTypes' /\ CountTypes'
  BY <1>1, <1>2 DEF BootTypes, CountTypes
<1>5. reset' \in BOOLEAN /\ timers' \in BOOLEAN
  BY <1>2
<1>6. HostTypes'
  BY <1>1, <1>2, <1>5 DEF HostTypes
<1> QED BY <1>2, <1>3, <1>4, <1>6

LEMMA TypesKept == Types /\ [Next]_vars => Types'
<1> SUFFICES ASSUME Types, [Next]_vars PROVE Types'
  OBVIOUS
<1>1. CASE UNCHANGED vars
  BY <1>1 DEF vars, Types, FlashTypes, BootTypes, FwTypes, TaskTypes, CountTypes, HostTypes
<1>2. CASE Next
  BY <1>2, BootTypesKept, TaskTypesKept, CommandTypesKept, CutTypesKept DEF Next
<1> QED BY <1>1, <1>2

(* Every variable keeps its type, whatever the host sends, for images that   *)
(* fit and images that do not: no sequence of repeated, late or mixed-up     *)
(* packets makes CMD_UP_DATA count past the received-firmware area           *)
(* (upgrade.c:204-231), and the mailbox never holds more than two messages.  *)
THEOREM TypeCorrect == SafeSpec => []TypeOK
<1>1. Types => TypeOK
  <2> SUFFICES ASSUME Types PROVE TypeOK
    OBVIOUS
  <2>1. net \subseteq Blocks
    <3>1. ASSUME NEW p \in Packet PROVE p \in Blocks
      <4>1. p[1] \in Image /\ p[2] \in 0..DataCap /\ p = <<p[1], p[2]>>
        BY DEF Packet
      <4>2. p[2] \in 0..(AppCap + DataCap) /\ p[1] \in Images
        BY <4>1, Constants
      <4> QED BY <4>1, <4>2 DEF Blocks
    <3> QED BY <3>1 DEF Types, HostTypes
  <2>2. pend \in 0..MaxNotify
    BY Constants DEF Types, CountTypes
  <2>3. mb.ok \in BOOLEAN /\ Len(mb.q) <= 2
    BY DEF Types, TaskTypes
  <2> QED BY <2>1, <2>2, <2>3 DEF Types, TypeOK, FlashTypes, BootTypes, FwTypes, TaskTypes,
                                  HostTypes
<1> QED BY <1>1, TypesInit, TypesKept, PTL DEF SafeSpec

-----------------------------------------------------------------------------
(***************************************************************************)
(* An acknowledged upgrade is installed.  Until the boot loader has done   *)
(* so, the received firmware must stay as CMD_UP_FINISH found it: no task  *)
(* is left that would erase it, no packet is under way that would be       *)
(* written into it, and the information page names it.                     *)
(***************************************************************************)
Erasing == task \in {"erase1", "erase2"}

(* Of a host that waits for the end of a transfer, all packets belong to the *)
(* current one, and none exists before upgrade_task has erased the area.     *)
CleanTransfer ==
    ~overlapped =>
        /\ fw.img # NoImage => \A p \in net : p[1] = fw.img
        /\ pend \in {0, 1} /\ (pend = 1 => task = "idle")
        /\ pend = 1 \/ Erasing => net = {} /\ fw.seg = 0

(* CMD_UP_FINISH, between its check and its answer. *)
Answering ==
    /\ cmd # "none" => run = "app"
    /\ cmd \in {"ack", "nack"} => acked = NoImage
    /\ cmd = "ack" => /\ fw.status = "check_pass" /\ fw.img \in Image
                      /\ fw.seg = Size[fw.img] /\ Whole(DATA, fw.img)

ToBeInstalled ==
    /\ info = [img |-> acked, status |-> "check_pass"] /\ Whole(DATA, acked)
    /\ run = "app" => /\ reset /\ fw.img = acked /\ fw.seg = Size[acked]
                      /\ pend = 0 /\ ~Erasing

Installed == info = NoInfo /\ Whole(APP, acked) /\ run \in {"off", "app"}

(* An image without a single segment is installed wherever one looks. *)
Promise ==
    ~overlapped /\ acked \in Image /\ Size[acked] # 0 => ToBeInstalled \/ Installed

AckInv == Types /\ CleanTransfer /\ Answering /\ Promise

(* What a step leaves in the two areas. *)
LEMMA DataWholeKept ==
    ASSUME acked' = acked, Whole(DATA, acked),
           \A a \in (AppCap + 1)..(AppCap + Size[acked]) : flash'[a] = flash[a]
    PROVE  Whole(DATA, acked)'
<1>1. acked \in Image /\ Size[acked] \in Nat /\ AppCap \in Nat
  BY Constants DEF Whole
<1>2. \A k \in 1..Size[acked] : DATA + k \in (AppCap + 1)..(AppCap + Size[acked])
  BY <1>1 DEF DATA
<1>3. \A k \in 1..Size[acked] : flash'[DATA + k] = Block(acked, k)
  BY <1>2 DEF Whole
<1> QED BY <1>1, <1>3 DEF Whole, DATA, Block

LEMMA AppWholeKept ==
    ASSUME Fits, acked' = acked, Whole(APP, acked),
           \A a \in 1..AppCap : flash'[a] = flash[a]
    PROVE  Whole(APP, acked)'
<1>1. acked \in Image /\ Size[acked] \in Nat /\ AppCap \in Nat /\ Size[acked] <= AppCap
  BY Constants DEF Whole, Fits
<1>2. \A k \in 1..Size[acked] : APP + k \in 1..AppCap
  BY <1>1 DEF APP
<1>3. \A k \in 1..Size[acked] : flash'[APP + k] = Block(acked, k)
  BY <1>2 DEF Whole
<1> QED BY <1>1, <1>3 DEF Whole, APP, Block

LEMMA CleanKept ==
    ASSUME Types, CleanTransfer, Next
    PROVE  CleanTransfer'
<1>1. CASE BootNext
  BY <1>1 DEF BootNext, Boot, BootErase, BootCopy, BootCheck, ram_vars, host_vars,
              CleanTransfer, Erasing
<1>2. CASE TaskStart
  BY <1>2 DEF TaskStart, host_vars, CleanTransfer, Erasing, Types, FwTypes, CountTypes
<1>3. CASE TaskErase
  BY <1>3 DEF TaskErase, host_vars, CleanTransfer, Erasing
<1>4. CASE TaskLoop
  BY <1>4 DEF TaskLoop, Over, host_vars, CleanTransfer, Erasing, Types, FwTypes
<1>5. CASE TaskSend
  <2>1. /\ fw'.img = fw.img /\ fw'.seg = fw.seg /\ task = "send" /\ task' \in {"idle", "wait"}
        /\ pend' = pend /\ overlapped' = overlapped
    BY <1>5 DEF TaskSend, Over, Types, FwTypes
  <2>2. \A p \in net' : p \in net \/ p[1] = fw.img
    BY <1>5 DEF TaskSend, Block
  <2> QED BY <2>1, <2>2 DEF CleanTransfer, Erasing
<1>6. CASE TaskFetch
  BY <1>6 DEF TaskFetch, Missed, Over, host_vars, CleanTransfer, Erasing, Types, FwTypes
<1>7. CASE HandlerNext
  BY <1>7 DEF HandlerNext, DataReceived, FinishReturns, task_vars, host_vars, CleanTransfer,
              Erasing
<1>8. CASE CMD_UP_cancel
  BY <1>8 DEF CMD_UP_cancel, CleanTransfer, Erasing, Types, FwTypes
<1>9. ASSUME NEW i \in Image, CMD_UP_notify(i)
      PROVE  CleanTransfer'
  <2>1. ~overlapped' => task = "idle" /\ pend = 0 /\ net = {}
    BY <1>9 DEF CMD_UP_notify
  <2>2. pend' = pend + 1 /\ task' = task /\ net' = net /\ fw'.seg = 0
    BY <1>9 DEF CMD_UP_notify
  <2> QED BY <2>1, <2>2 DEF CleanTransfer, Erasing
<1>10. ASSUME NEW i \in Image, CMD_UP_finish(i)
       PROVE  CleanTransfer'
  <2>1. fw'.img = fw.img /\ fw'.seg = fw.seg
    BY <1>10 DEF CMD_UP_finish, Types, FwTypes
  <2> QED BY <1>10, <2>1 DEF CMD_UP_finish, task_vars, CleanTransfer, Erasing
<1>11. ASSUME NEW p \in net, CMD_UP_data(p)
       PROVE  CleanTransfer'
  <2>1. fw'.img = fw.img
    BY <1>11 DEF CMD_UP_data, Types, FwTypes
  <2>2. net' \subseteq net /\ UNCHANGED <<task, pend, overlapped>>
    BY <1>11 DEF CMD_UP_data, task_vars
  <2> QED BY <2>1, <2>2 DEF CleanTransfer, Erasing
<1>12. CASE Reset \/ PowerCut
  BY <1>12 DEF Reset, PowerCut, RamLost, host_vars, CleanTransfer, Erasing
<1> QED BY <1>1, <1>2, <1>3, <1>4, <1>5, <1>6, <1>7, <1>8, <1>9, <1>10, <1>11, <1>12
        DEF Next, TaskNext

LEMMA AnsweringKept ==
    ASSUME Types, Answering, Next
    PROVE  Answering'
<1>1. CASE BootNext
  <2>1. run # "app" /\ cmd' = cmd
    BY <1>1 DEF BootNext, Boot, BootErase, BootCopy, BootCheck, ram_vars
  <2> QED BY <2>1 DEF Answering
<1>2. CASE TaskNext
  <2>1. cmd \in {"none", "data"} /\ run = "app" /\ cmd' = cmd /\ run' = run
    BY <1>2 DEF TaskNext, TaskStart, TaskErase, TaskLoop, TaskSend, TaskFetch, TaskRuns,
                boot_vars
  <2> QED BY <2>1 DEF Answering
<1>3. CASE Reset \/ PowerCut
  BY <1>3 DEF Reset, PowerCut, RamLost, Answering
<1>4. CASE HandlerNext
  BY <1>4 DEF HandlerNext, DataReceived, FinishReturns, Answering
<1>5. CASE CMD_UP_cancel
  BY <1>5 DEF CMD_UP_cancel, Idle, Answering
<1>6. ASSUME NEW i \in Image, CMD_UP_notify(i)
      PROVE  Answering'
  BY <1>6 DEF CMD_UP_notify, Idle, Answering
<1>7. ASSUME NEW i \in Image, CMD_UP_finish(i)
      PROVE  Answering'
  <2>1. run' = "app" /\ acked' = NoImage /\ flash' = flash
    BY <1>7 DEF CMD_UP_finish, Idle, boot_vars
  <2>2. CASE FinishError(i) = 0
    <3>1. fw' = [fw EXCEPT !.status = "check_pass"]
      BY <1>7, <2>2 DEF CMD_UP_finish
    <3>2. fw.img \in Image /\ fw.seg = Size[fw.img] /\ Whole(DATA, fw.img)
      BY <2>2 DEF FinishError, SameVersion, SegCount
    <3>3. fw'.status = "check_pass" /\ fw'.img = fw.img /\ fw'.seg = fw.seg
      BY <3>1 DEF Types, FwTypes
    <3>4. Whole(DATA, fw.img)'
      BY <2>1, <3>2, <3>3 DEF Whole, DATA, Block
    <3> QED BY <2>1, <3>2, <3>3, <3>4 DEF Answering
  <2>3. CASE FinishError(i) # 0
    BY <1>7, <2>1, <2>3 DEF CMD_UP_finish, Answering
  <2> QED BY <2>2, <2>3
<1>8. ASSUME NEW p \in net, CMD_UP_data(p)
      PROVE  Answering'
  BY <1>8 DEF CMD_UP_data, Idle, boot_vars, Answering
<1> QED BY <1>1, <1>2, <1>3, <1>4, <1>5, <1>6, <1>7, <1>8 DEF Next

(* The boot loader installs what it finds staged. *)
LEMMA PromiseBoot ==
    ASSUME Fits, AckInv, BootNext
    PROVE  Promise'
<1> USE DEF AckInv
<1>1. UNCHANGED <<acked, overlapped>>
  BY DEF BootNext, Boot, BootErase, BootCopy, BootCheck, host_vars
<1> SUFFICES ASSUME ~overlapped, acked \in Image, Size[acked] # 0
             PROVE  (ToBeInstalled \/ Installed)'
  BY <1>1 DEF Promise
<1>2. ToBeInstalled \/ Installed
  BY DEF Promise
<1>3. CASE Boot
  <2>1. run = "off" /\ run' = (IF Staged THEN "erase1" ELSE "app") /\ UNCHANGED <<flash, info>>
    BY <1>3 DEF Boot
  <2>2. CASE ToBeInstalled
    <3>1. Staged
      BY <2>2 DEF ToBeInstalled, Staged, SegCount
    <3>2. Whole(DATA, acked)'
      BY <1>1, <2>1, <2>2 DEF ToBeInstalled, Whole, DATA, Block
    <3> QED BY <1>1, <2>1, <2>2, <3>1, <3>2 DEF ToBeInstalled
  <2>3. CASE Installed
    <3>1. ~Staged
      BY <2>3 DEF Installed, Staged, NoInfo
    <3>2. Whole(APP, acked)'
      BY <1>1, <2>1, <2>3 DEF Installed, Whole, APP, Block
    <3> QED BY <1>1, <2>1, <2>3, <3>1, <3>2 DEF Installed, NoInfo
  <2> QED BY <1>2, <2>2, <2>3
<1>4. CASE BootErase \/ BootCopy
  <2>1. run \in {"erase1", "erase2", "copy"} /\ run' # "app" /\ info' = info
    BY <1>4 DEF BootErase, BootCopy
  <2>2. ToBeInstalled
    BY <1>2, <2>1 DEF Installed
  <2>3. \A a \in (AppCap + 1)..(AppCap + DataCap) : flash'[a] = flash[a]
    <3>1. CASE BootErase
      <4>1. PICK s \in {1, 2} : EraseBlocks(AppSector(s))
        BY <3>1 DEF BootErase
      <4> QED BY <4>1, EraseLocal, Geometry
    <3>2. CASE BootCopy
      <4>1. Size[info.img] \in Nat /\ Size[info.img] <= AppCap
        BY <2>2, Constants DEF ToBeInstalled, Fits
      <4>2. CASE pos < Size[info.img]
        <5>1. Program(APP + pos + 1, flash[DATA + pos + 1])
          BY <3>2, <4>2 DEF BootCopy
        <5>2. APP + pos + 1 \in 1..AppCap
          BY <4>1, <4>2, Geometry DEF APP, Types, BootTypes
        <5>3. \A x \in Addr : x # APP + pos + 1 => flash'[x] = flash[x]
          BY <5>1 DEF Program, Types, FlashTypes
        <5> QED BY <5>2, <5>3, Geometry
      <4>3. CASE ~(pos < Size[info.img])
        BY <3>2, <4>3 DEF BootCopy
      <4> QED BY <4>2, <4>3
    <3> QED BY <1>4, <3>1, <3>2
  <2>4. Whole(DATA, acked)'
    <3>1. \A a \in (AppCap + 1)..(AppCap + Size[acked]) : flash'[a] = flash[a]
      BY <2>3, Constants
    <3> QED BY <1>1, <2>2, <3>1, DataWholeKept DEF ToBeInstalled
  <2> QED BY <1>1, <2>1, <2>2, <2>4 DEF ToBeInstalled
<1>5. CASE BootCheck
  <2>1. run = "check" /\ flash' = flash
    BY <1>5 DEF BootCheck
  <2>2. ToBeInstalled
    BY <1>2, <2>1 DEF Installed
  <2>3. CASE Whole(APP, info.img)
    <3>1. run' = "app" /\ info' = NoInfo
      BY <1>5, <2>3 DEF BootCheck
    <3>2. Whole(APP, acked)'
      BY <1>1, <2>1, <2>2, <2>3 DEF ToBeInstalled, Whole, APP, Block
    <3> QED BY <3>1, <3>2 DEF Installed, NoInfo
  <2>4. CASE ~Whole(APP, info.img)
    <3>1. run' = "off" /\ info' = info
      BY <1>5, <2>4 DEF BootCheck
    <3>2. Whole(DATA, acked)'
      BY <1>1, <2>1, <2>2 DEF ToBeInstalled, Whole, DATA, Block
    <3> QED BY <1>1, <2>2, <3>1, <3>2 DEF ToBeInstalled
  <2> QED BY <2>3, <2>4
<1> QED BY <1>3, <1>4, <1>5 DEF BootNext

(* A running application that does not begin another upgrade. *)
LEMMA PromiseApp ==
    ASSUME Fits, Types, run = "app", run' = "app",
           UNCHANGED <<acked, overlapped, info>>, acked \in Image,
           ToBeInstalled \/ Installed,
           \A a \in 1..AppCap : flash'[a] = flash[a],
           ToBeInstalled =>
               /\ reset' /\ fw'.img = fw.img /\ fw'.seg = fw.seg
               /\ pend' = 0 /\ ~Erasing'
               /\ \A a \in (AppCap + 1)..(AppCap + Size[acked]) : flash'[a] = flash[a]
    PROVE  (ToBeInstalled \/ Installed)'
<1>1. CASE ToBeInstalled
  <2>1. Whole(DATA, acked)'
    BY <1>1, DataWholeKept DEF ToBeInstalled
  <2> QED BY <1>1, <2>1 DEF ToBeInstalled
<1>2. CASE Installed
  <2>1. Whole(APP, acked)'
    BY <1>2, AppWholeKept DEF Installed
  <2> QED BY <1>2, <2>1 DEF Installed, NoInfo
<1> QED BY <1>1, <1>2

(* upgrade_task. *)
LEMMA PromiseTask ==
    ASSUME Fits, AckInv, TaskNext
    PROVE  Promise'
<1> USE DEF AckInv
<1>1. run = "app" /\ run' = "app" /\ UNCHANGED <<acked, overlapped, info, reset>>
  BY DEF TaskNext, TaskStart, TaskErase, TaskLoop, TaskSend, TaskFetch, TaskRuns, boot_vars,
         host_vars
<1> SUFFICES ASSUME ~overlapped, acked \in Image, Size[acked] # 0
             PROVE  (ToBeInstalled \/ Installed)'
  BY <1>1 DEF Promise
<1>2. ToBeInstalled \/ Installed
  BY DEF Promise
<1>3. \A a \in 1..AppCap : flash'[a] = flash[a]
  <2>1. CASE TaskErase
    <3>1. PICK s \in {1, 2} : EraseBlocks(DataSector(s))
      BY <2>1 DEF TaskErase
    <3> QED BY <3>1, EraseLocal, Geometry
  <2>2. CASE ~TaskErase
    BY <2>2 DEF TaskNext, TaskStart, TaskLoop, TaskSend, TaskFetch
  <2> QED BY <2>1, <2>2
<1>4. ASSUME ToBeInstalled
      PROVE  /\ reset' /\ fw'.img = fw.img /\ fw'.seg = fw.seg
             /\ pend' = 0 /\ ~Erasing' /\ flash' = flash
  <2>1. reset /\ pend = 0 /\ ~Erasing
    BY <1>1, <1>4 DEF ToBeInstalled
  <2>2. TaskLoop \/ TaskSend \/ TaskFetch
    <3>1. ~TaskStart
      BY <2>1 DEF TaskStart
    <3>2. ~TaskErase
      BY <2>1 DEF TaskErase, Erasing
    <3> QED BY <3>1, <3>2 DEF TaskNext
  <2>3. fw'.img = fw.img /\ fw'.seg = fw.seg
    BY <2>2 DEF TaskLoop, TaskSend, TaskFetch, Missed, Over, Types, FwTypes
  <2>4. pend' = 0 /\ ~Erasing' /\ flash' = flash
    BY <2>1, <2>2 DEF TaskLoop, TaskSend, TaskFetch, Missed, Over, Erasing
  <2> QED BY <1>1, <2>1, <2>3, <2>4
<1> QED BY <1>1, <1>2, <1>3, <1>4, PromiseApp

(* The command handlers: CMD_UP_NOTIFY and CMD_UP_FINISH take the promise    *)
(* back, an acknowledgement gives it.                                        *)
LEMMA PromiseCommand ==
    ASSUME Fits, AckInv,
           \/ HandlerNext \/ CMD_UP_cancel
           \/ \E i \in Image : CMD_UP_notify(i) \/ CMD_UP_finish(i)
           \/ \E p \in net : CMD_UP_data(p)
    PROVE  Promise'
<1> USE DEF AckInv
<1>1. ASSUME NEW i \in Image, CMD_UP_notify(i) \/ CMD_UP_finish(i)
      PROVE  Promise'
  <2>1. acked' = NoImage
    BY <1>1 DEF CMD_UP_notify, CMD_UP_finish
  <2> QED BY <2>1, Constants DEF Promise
<1>2. CASE FinishReturns
  <2>1. CASE cmd = "ack"
    <3>1. /\ info' = [img |-> fw.img, status |-> fw.status] /\ acked' = fw.img
          /\ UNCHANGED <<flash, fw, pend, task, overlapped>>
      BY <1>2, <2>1 DEF FinishReturns, task_vars
    <3>2. /\ fw.status = "check_pass" /\ fw.img \in Image
          /\ fw.seg = Size[fw.img] /\ Whole(DATA, fw.img)
      BY <2>1 DEF Answering
    <3>3. reset'
      BY <1>2, <3>2 DEF FinishReturns
    <3>4. Whole(DATA, acked)'
      BY <3>1, <3>2 DEF Whole, DATA, Block
    <3>5. ~overlapped' /\ Size[acked'] # 0 => pend' = 0 /\ ~Erasing'
      BY <3>1, <3>2 DEF CleanTransfer, Erasing
    <3>6. ~overlapped' /\ Size[acked'] # 0 => ToBeInstalled'
      BY <3>1, <3>2, <3>3, <3>4, <3>5 DEF ToBeInstalled
    <3> QED BY <3>6 DEF Promise
  <2>2. CASE cmd = "nack"
    <3>1. acked' = NoImage
      BY <1>2, <2>2 DEF FinishReturns, Answering
    <3> QED BY <3>1, Constants DEF Promise
  <2> QED BY <1>2, <2>1, <2>2 DEF FinishReturns
<1>3. CASE DataReceived
  <2>1. /\ run = "app" /\ run' = "app"
        /\ UNCHANGED <<acked, overlapped, info, flash, reset, fw, pend, task>>
    BY <1>3 DEF DataReceived, boot_vars, host_vars
  <2> QED BY <2>1, PromiseApp DEF Promise, ToBeInstalled, Erasing
<1>4. CASE CMD_UP_cancel
  <2>1. /\ run = "app" /\ run' = "app"
        /\ UNCHANGED <<acked, overlapped, info, flash, reset, pend, task>>
        /\ fw'.img = fw.img /\ fw'.seg = fw.seg
    BY <1>4 DEF CMD_UP_cancel, Idle, boot_vars, Types, FwTypes
  <2> QED BY <2>1, PromiseApp DEF Promise, ToBeInstalled, Erasing
<1>5. ASSUME NEW p \in net, CMD_UP_data(p)
      PROVE  Promise'
  <2>1. run = "app" /\ run' = "app" /\ UNCHANGED <<acked, overlapped, info, reset, pend, task>>
    BY <1>5 DEF CMD_UP_data, Idle, boot_vars, task_vars
  <2> SUFFICES ASSUME ~overlapped, acked \in Image, Size[acked] # 0
               PROVE  (ToBeInstalled \/ Installed)'
    BY <2>1 DEF Promise
  <2>2. ToBeInstalled \/ Installed
    BY DEF Promise
  <2>3. \A a \in 1..AppCap : flash'[a] = flash[a]
    <3>1. \/ Program(DATA + fw.seg + 1, Block(p[1], p[2] + 1))
          \/ flash' = flash
      BY <1>5 DEF CMD_UP_data
    <3>2. DATA + fw.seg + 1 \notin 1..AppCap
      BY Geometry DEF DATA, Types, FwTypes
    <3>3. ASSUME Program(DATA + fw.seg + 1, Block(p[1], p[2] + 1))
          PROVE  \A x \in Addr : x # DATA + fw.seg + 1 => flash'[x] = flash[x]
      BY <3>3 DEF Program, Types, FlashTypes
    <3> QED BY <3>1, <3>2, <3>3, Geometry
  <2>4. ASSUME ToBeInstalled
        PROVE  flash' = flash /\ fw' = fw
    <3>1. fw.img = acked /\ fw.seg = Size[acked]
      BY <2>1, <2>4 DEF ToBeInstalled
    <3>2. p[1] = acked /\ p[2] < Size[p[1]]
      BY <3>1, Constants DEF CleanTransfer, Types, HostTypes, Packet
    <3>3. p[2] # fw.seg
      BY <3>1, <3>2, Constants DEF Types, FwTypes
    <3> QED BY <1>5, <3>3 DEF CMD_UP_data
  <2> QED BY <2>1, <2>2, <2>3, <2>4, PromiseApp DEF ToBeInstalled, Erasing
<1> QED BY <1>1, <1>2, <1>3, <1>4, <1>5 DEF HandlerNext

(* Reset and power cut: what is torn is never what the promise rests on. *)
LEMMA PromiseCut ==
    ASSUME Fits, AckInv, Reset \/ PowerCut
    PROVE  Promise'
<1> USE DEF AckInv
<1>1. run' = "off" /\ UNCHANGED <<info, acked, overlapped>>
  BY DEF Reset, PowerCut, host_vars
<1>2. \/ flash' = flash
      \/ flash' = [a \in Addr |-> IF a \in Busy THEN Mixed ELSE flash[a]]
  BY DEF Reset, PowerCut
<1> SUFFICES ASSUME ~overlapped, acked \in Image, Size[acked] # 0
             PROVE  (ToBeInstalled \/ Installed)'
  BY <1>1 DEF Promise
<1>3. ToBeInstalled \/ Installed
  BY DEF Promise
<1>4. run # "off"
  BY DEF Reset, PowerCut, Idle
<1>5. Size[acked] \in Nat /\ Size[acked] <= AppCap /\ Size[acked] <= DataCap
  BY Constants DEF Fits
<1>6. CASE ToBeInstalled
  <2>1. Busy \cap (AppCap + 1)..(AppCap + Size[acked]) = {}
    <3>1. CASE run = "app"
      <4>1. Busy = {DATA + fw.seg + 1} /\ fw.seg = Size[acked]
        BY <1>6, <3>1 DEF Busy, ToBeInstalled, Erasing
      <4> QED BY <1>5, <4>1, Geometry DEF DATA
    <3>2. CASE run # "app"
      <4>1. Busy \subseteq 1..AppCap
        BY <1>4, <1>5, <1>6, <3>2, Geometry DEF Busy, ToBeInstalled, Types, BootTypes, APP
      <4> QED BY <1>5, <4>1, Geometry
    <3> QED BY <3>1, <3>2
  <2>2. \A a \in (AppCap + 1)..(AppCap + Size[acked]) : a \in Addr
    BY <1>5, Geometry
  <2>3. Whole(DATA, acked)'
    <3>1. \A a \in (AppCap + 1)..(AppCap + Size[acked]) : flash'[a] = flash[a]
      BY <1>2, <2>1, <2>2
    <3> QED BY <1>1, <1>6, <3>1, DataWholeKept DEF ToBeInstalled
  <2> QED BY <1>1, <1>6, <2>3 DEF ToBeInstalled
<1>7. CASE Installed
  <2>1. run = "app"
    BY <1>4, <1>7 DEF Installed
  <2>2. Busy \cap 1..AppCap = {}
    BY <2>1, Geometry DEF Busy, Types, FwTypes, DATA
  <2>3. \A a \in 1..AppCap : flash'[a] = flash[a]
    BY <1>2, <2>2, Geometry
  <2>4. Whole(APP, acked)'
    BY <1>1, <1>7, <2>3, AppWholeKept DEF Installed
  <2> QED BY <1>1, <1>7, <2>4 DEF Installed, NoInfo
<1> QED BY <1>3, <1>6, <1>7

LEMMA AckInvInit == Init => AckInv
<1> SUFFICES ASSUME Init PROVE AckInv
  OBVIOUS
<1>1. Types
  BY TypesInit
<1>2. CleanTransfer /\ Answering
  BY DEF Init, RamInit, CleanTransfer, Answering, Erasing
<1>3. Promise
  BY Constants DEF Init, Promise
<1> QED BY <1>1, <1>2, <1>3 DEF AckInv

LEMMA AckInvKept ==
    ASSUME Fits, AckInv, [Next]_vars
    PROVE  AckInv'
<1>1. CASE UNCHANGED vars
  BY <1>1, TypesKept DEF vars, AckInv, CleanTransfer, Answering, Promise, ToBeInstalled,
                         Installed, Erasing, Whole, DATA, APP, Block, NoInfo
<1>2. CASE Next
  <2>1. Types'
    BY <1>2, TypesKept DEF AckInv
  <2>2. CleanTransfer' /\ Answering'
    BY <1>2, CleanKept, AnsweringKept DEF AckInv
  <2>3. Promise'
    BY <1>2, PromiseBoot, PromiseTask, PromiseCommand, PromiseCut DEF Next
  <2> QED BY <2>1, <2>2, <2>3 DEF AckInv
<1> QED BY <1>1, <1>2

(* An upgrade that CMD_UP_FINISH has acknowledged (upgrade.c:243-288) is     *)
(* what runs after the reset it asks for, whatever is sent in between and    *)
(* wherever power is cut: for all images that fit, and for a host that lets  *)
(* a transfer end before it notifies the device of another one.              *)
THEOREM AckedInstalled == SafeSpec => [](Fits => AckedIsInstalled)
<1>1. Init => (Fits => AckInv)
  BY AckInvInit
<1>2. (Fits => AckInv) /\ [Next]_vars => (Fits => AckInv)'
  <2>1. Fits' <=> Fits
    BY DEF Fits
  <2> QED BY <2>1, AckInvKept
<1>3. (Fits => AckInv) => (Fits => AckedIsInstalled)
  <2> SUFFICES ASSUME AckInv, ~overlapped, run = "app", ~reset, acked # NoImage
               PROVE  Whole(APP, acked)
    BY DEF AckedIsInstalled, InstalledAfterAck
  <2>1. acked \in Image /\ Size[acked] \in Nat
    BY Constants DEF AckInv, Types, HostTypes, Images
  <2>2. CASE Size[acked] = 0
    BY <2>1, <2>2 DEF Whole
  <2>3. CASE Size[acked] # 0
    BY <2>1, <2>3 DEF AckInv, Promise, ToBeInstalled, Installed
  <2> QED BY <2>2, <2>3
<1> QED BY <1>1, <1>2, <1>3, PTL DEF SafeSpec
==============================================================================
