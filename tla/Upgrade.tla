------------------------------- MODULE Upgrade -------------------------------
(***************************************************************************)
(* Firmware upgrade: the commands and the task of app/sys/upgrade.c, the   *)
(* reset in app/sys/system.c, and the boot loader, app/boot_main.c.        *)
(*                                                                         *)
(* Flash is a row of blocks.  Addresses 1..AppCap are the application      *)
(* (sectors 4 and 5), the DataCap addresses after them the received        *)
(* firmware (sectors 6 and 7); the two areas touch, as they do in          *)
(* arch_cfg.h.  One block is one segment of the transfer.  A block is a    *)
(* segment of an image, Erased or Mixed; the CRC32 of an image is right    *)
(* exactly when all its blocks are there, which leaves collisions out.     *)
(*                                                                         *)
(* One host talks to the device over one channel, and a command is handled *)
(* in a critical section, so commands are handled one after the other, and *)
(* upgrade_task only runs when no handler does or when the handler of      *)
(* CMD_UP_DATA sleeps.  Whether vTaskDelay in a critical section gives up  *)
(* the processor at once or at its end is up to the port of FreeRTOS; the  *)
(* model lets upgrade_task run from the call on.  An operator named        *)
(* Op_Variant is Op with a mistake in it; no specification uses it.        *)
(***************************************************************************)
EXTENDS Integers, Sequences, FiniteSets

CONSTANTS
    Image,              \* firmware images of the host
    NoImage,            \* contents of fw_info before the first notification
    Size,               \* segments of an image (seg_count, img_size)
    Version,            \* its version number
    Product,            \* images that carry SPECAL_PRODUCT_NUM
    Old,                \* the image the device was built with
    AppSect1, AppCap,   \* blocks of sector 4, blocks of sectors 4 and 5
    DataSect1, DataCap, \* blocks of sector 6, blocks of sectors 6 and 7
    MaxBoxes,           \* MBOX_MAX_COUNT
    Retries,            \* FW_DATA_RETRY
    MaxNotify, MaxCancel, MaxCut    \* bounds on commands and power cuts

ASSUME UpgradeAssumption ==
    /\ NoImage \notin Image
    /\ Old \in Image
    /\ Size \in [Image -> Nat]
    /\ Product \subseteq Image
    /\ AppCap \in Nat /\ AppSect1 \in 0..AppCap
    /\ DataCap \in Nat /\ DataSect1 \in 0..DataCap
    /\ \A i \in Image : Size[i] <= DataCap
    /\ Size[Old] <= AppCap
    /\ MaxBoxes \in Nat /\ Retries \in Nat \ {0}
    /\ MaxNotify \in Nat /\ MaxCancel \in Nat /\ MaxCut \in Nat

VARIABLES
    flash,      \* application and received firmware
    info,       \* the fw_info_t in sector 1 as the boot loader sees it
    run,        \* "off", a step of the boot loader, or "app"
    pos,        \* blocks the boot loader has copied
    fw,         \* fw_info in RAM
    mb, boxes,  \* xfer_mb, and mbox_count
    pend,       \* upgrade_task calls waiting in Agent-MD
    task,       \* where the running upgrade_task is, or "idle"
    req, retry, \* its locals
    cmd,        \* the command handler that has not returned
    reset,      \* sys_state.sys_op.reset and .valid
    timers,     \* whether the periodic tasks other than service_task are open
    net,        \* data packets of the host on their way to the device
    passed,     \* history: images CMD_UP_FINISH found correct
    acked,      \* history: image the last CMD_UP_FINISH was acknowledged for
    overlapped, \* history: the last notification came before the transfer
                \* before it, and every packet of that one, was over
    notifies, cancels, cuts

ram_vars == <<fw, mb, boxes, pend, task, req, retry, cmd, reset, timers>>
task_vars == <<mb, boxes, pend, task, req, retry>>
host_vars == <<net, passed, acked, overlapped, notifies, cancels, cuts>>
boot_vars == <<run, pos>>
vars == <<flash, info, run, pos, fw, mb, boxes, pend, task, req, retry, cmd,
          reset, timers, net, passed, acked, overlapped, notifies,
          cancels, cuts>>

Images == Image \cup {NoImage}
Status == {"none", "start", "trans", "canceled", "check_fail", "check_pass",
           "finished"}

Addr == 1..(AppCap + DataCap)
Block(i, k) == <<i, k>>
Erased == <<NoImage, 0>>
Mixed == <<NoImage, 1>>
Blocks == {<<i, k>> : i \in Images, k \in 0..(AppCap + DataCap)}

(* Base addresses, and the two sectors of each area. *)
APP == 0
DATA == AppCap
AppSector(s) == IF s = 1 THEN 1..AppSect1 ELSE (AppSect1 + 1)..AppCap
DataSector(s) == IF s = 1 THEN (DATA + 1)..(DATA + DataSect1)
                          ELSE (DATA + DataSect1 + 1)..(DATA + DataCap)

SegCount(i) == IF i \in Image THEN Size[i] ELSE 0

(* calculate_crc32 over the area at base gives the CRC32 of image i. *)
Whole(base, i) ==
    i \in Image /\ \A k \in 1..Size[i] : flash[base + k] = Block(i, k)

EraseBlocks(S) == flash' = [a \in Addr |-> IF a \in S THEN Erased ELSE flash[a]]

(* Programming can only clear bits of what is there.  A segment is           *)
(* programmed as a whole: gdf_write_data_by_word drops the last len % 4      *)
(* bytes, so this is for images of whole words, which it asks for.           *)
Program(a, b) == flash' = [flash EXCEPT ![a] = IF @ \in {Erased, b} THEN b ELSE Mixed]

NoInfo == [img |-> NoImage, status |-> "none"]

(* mbox_post: lost when the mailbox was not created or holds two messages. *)
Post(m) == mb' = IF mb.ok /\ Len(mb.q) < 2 THEN [mb EXCEPT !.q = Append(@, m)] ELSE mb

(* What RAM holds when the application starts. *)
RamInit ==
    /\ fw = [img |-> NoImage, status |-> "none", seg |-> 0]
    /\ mb = [ok |-> FALSE, q |-> <<>>]
    /\ boxes = 0 /\ pend = 0
    /\ task = "idle" /\ req = 0 /\ retry = 0
    /\ cmd = "none" /\ reset = FALSE /\ timers = TRUE

RamLost ==
    /\ fw' = [img |-> NoImage, status |-> "none", seg |-> 0]
    /\ mb' = [ok |-> FALSE, q |-> <<>>]
    /\ boxes' = 0 /\ pend' = 0
    /\ task' = "idle" /\ req' = 0 /\ retry' = 0
    /\ cmd' = "none" /\ reset' = FALSE /\ timers' = TRUE

Init ==
    /\ flash = [a \in Addr |-> IF a <= Size[Old] THEN Block(Old, a) ELSE Erased]
    /\ info = NoInfo
    /\ run = "off" /\ pos = 0
    /\ RamInit
    /\ net = {}
    /\ passed = {} /\ acked = NoImage /\ overlapped = FALSE
    /\ notifies = 0 /\ cancels = 0 /\ cuts = 0

-----------------------------------------------------------------------------
(* The boot loader. *)

(* The firmware information page counts only with its CRC32 intact, a size   *)
(* and status CHECK_PASS, and only if the firmware itself has its CRC32.     *)
Staged ==
    /\ info.status = "check_pass"
    /\ SegCount(info.img) # 0
    /\ Whole(DATA, info.img)

Boot ==
    /\ run = "off"
    /\ run' = IF Staged THEN "erase1" ELSE "app"
    /\ pos' = 0
    /\ UNCHANGED <<flash, info, ram_vars, host_vars>>

BootErase_ClearFirst ==
    \/ /\ run = "erase1"
       /\ EraseBlocks(AppSector(1))
       /\ info' = [info EXCEPT !.status = "finished"]
       /\ run' = "erase2"
       /\ UNCHANGED <<pos, ram_vars, host_vars>>
    \/ /\ run = "erase2"
       /\ EraseBlocks(AppSector(2))
       /\ run' = "copy"
       /\ UNCHANGED <<info, pos, ram_vars, host_vars>>

BootErase ==
    /\ \/ run = "erase1" /\ EraseBlocks(AppSector(1)) /\ run' = "erase2"
       \/ run = "erase2" /\ EraseBlocks(AppSector(2)) /\ run' = "copy"
    /\ UNCHANGED <<info, pos, ram_vars, host_vars>>

(* Nothing stops the copy at the end of the application area. *)
BootCopy ==
    /\ run = "copy"
    /\ IF pos < Size[info.img]
       THEN /\ Program(APP + pos + 1, flash[DATA + pos + 1])
            /\ pos' = pos + 1
            /\ UNCHANGED run
       ELSE /\ run' = "check"
            /\ UNCHANGED <<flash, pos>>
    /\ UNCHANGED <<info, ram_vars, host_vars>>

BootCheck_KeepInfo ==
    /\ run = "check"
    /\ run' = "off"
    /\ UNCHANGED <<flash, info, pos, ram_vars, host_vars>>

(* A correct application is started and the information page rewritten with  *)
(* a new status but the old CRC32, which no later boot accepts; otherwise    *)
(* the device resets and tries again.                                        *)
BootCheck ==
    /\ run = "check"
    /\ IF Whole(APP, info.img)
       THEN run' = "app" /\ info' = NoInfo
       ELSE run' = "off" /\ UNCHANGED info
    /\ UNCHANGED <<flash, pos, ram_vars, host_vars>>

-----------------------------------------------------------------------------
(* upgrade_task. *)

TaskRuns == run = "app" /\ cmd \in {"none", "data"}

Over ==
    /\ fw' = [fw EXCEPT !.status = "finished"]
    /\ task' = "idle"

(* A new mailbox replaces the old one, which is never deleted. *)
TaskStart ==
    /\ TaskRuns /\ task = "idle" /\ pend > 0
    /\ pend' = pend - 1
    /\ IF boxes < MaxBoxes
       THEN mb' = [ok |-> TRUE, q |-> <<>>] /\ boxes' = boxes + 1
       ELSE mb' = [ok |-> FALSE, q |-> <<>>] /\ UNCHANGED boxes
    /\ fw' = [fw EXCEPT !.status = "trans"]
    /\ task' = "erase1"
    /\ UNCHANGED <<flash, info, boot_vars, req, retry, cmd, reset, timers, host_vars>>

TaskErase ==
    /\ TaskRuns
    /\ \/ task = "erase1" /\ EraseBlocks(DataSector(1)) /\ task' = "erase2"
       \/ task = "erase2" /\ EraseBlocks(DataSector(2)) /\ task' = "loop"
    /\ UNCHANGED <<info, boot_vars, fw, mb, boxes, pend, req, retry, cmd, reset,
                   timers, host_vars>>

(* The loop over the segments. *)
TaskLoop ==
    /\ TaskRuns /\ task = "loop"
    /\ IF fw.seg < SegCount(fw.img) /\ fw.status # "canceled"
       THEN /\ req' = fw.seg /\ retry' = Retries
            /\ task' = "send"
            /\ UNCHANGED fw
       ELSE Over /\ UNCHANGED <<req, retry>>
    /\ UNCHANGED <<flash, info, boot_vars, mb, boxes, pend, cmd, reset, timers,
                   host_vars>>

(* A request for segment req; the request or the answer may be lost. *)
TaskSend ==
    /\ TaskRuns /\ task = "send"
    /\ IF fw.status = "canceled"
       THEN Over /\ UNCHANGED net
       ELSE /\ task' = "wait"
            /\ \/ UNCHANGED net
               \/ req < SegCount(fw.img) /\ net' = net \cup {Block(fw.img, req)}
            /\ UNCHANGED fw
    /\ UNCHANGED <<flash, info, boot_vars, mb, boxes, pend, req, retry, cmd,
                   reset, timers, passed, acked, overlapped, notifies,
                   cancels, cuts>>

Missed_NoCount ==
    /\ task' = "send"
    /\ UNCHANGED <<retry, fw>>

Missed ==
    /\ retry' = retry - 1
    /\ IF retry = 1 THEN Over ELSE task' = "send" /\ UNCHANGED fw

(* mbox_fetch returns a message, or nothing after FW_DATA_TIMEOUT_PC (at     *)
(* once if there is no mailbox).                                             *)
TaskFetch ==
    /\ TaskRuns /\ task = "wait"
    /\ IF mb.q # <<>>
       THEN /\ mb' = [mb EXCEPT !.q = Tail(@)]
            /\ IF Head(mb.q) = "recv" THEN task' = "loop" /\ UNCHANGED <<retry, fw>>
                                      ELSE Missed
       ELSE Missed /\ UNCHANGED mb
    /\ UNCHANGED <<flash, info, boot_vars, boxes, pend, req, cmd, reset, timers,
                   host_vars>>

-----------------------------------------------------------------------------
(* Command handlers. *)

Idle == run = "app" /\ cmd = "none"

(* The information page is written without a new CRC32, so the boot loader   *)
(* ignores it from here on, be the write completed or not.                   *)
CMD_UP_notify(i) ==
    /\ Idle
    /\ notifies < MaxNotify
    /\ overlapped' = (task # "idle" \/ pend # 0 \/ net # {})
    /\ fw' = [img |-> i, status |-> "start", seg |-> 0]
    /\ info' = NoInfo
    /\ timers' = FALSE
    /\ pend' = pend + 1
    /\ notifies' = notifies + 1
    /\ acked' = NoImage
    /\ UNCHANGED <<flash, boot_vars, mb, boxes, task, req, retry, cmd, reset, net,
                   passed, cancels, cuts>>

SameVersion(i) == i \in Image /\ fw.img \in Image /\ Version[i] = Version[fw.img]

(* A packet that does not carry the expected segment is ignored. *)
CMD_UP_data(p) ==
    /\ Idle
    /\ p \in net
    /\ net' = net \ {p}
    /\ IF SameVersion(p[1]) /\ p[2] = fw.seg
       THEN /\ Program(DATA + fw.seg + 1, Block(p[1], p[2] + 1))
            /\ fw' = [fw EXCEPT !.seg = @ + 1]
            /\ cmd' = "data"
       ELSE UNCHANGED <<flash, fw, cmd>>
    /\ UNCHANGED <<info, boot_vars, task_vars, reset, timers, passed, acked,
                   overlapped, notifies, cancels, cuts>>

(* The handler has slept and tells upgrade_task. *)
DataReceived ==
    /\ run = "app" /\ cmd = "data"
    /\ Post("recv")
    /\ cmd' = "none"
    /\ UNCHANGED <<flash, info, boot_vars, fw, boxes, pend, task, req, retry,
                   reset, timers, host_vars>>

FinishError(i) ==
    IF ~SameVersion(i) \/ Size[i] # SegCount(fw.img) THEN 1
    ELSE IF fw.seg # SegCount(fw.img) THEN 2
    ELSE IF ~Whole(DATA, fw.img) THEN 3
    ELSE IF fw.img \notin Product THEN 4
    ELSE 0

CMD_UP_finish_AckFirst(i) ==
    LET error == FinishError(i)
    IN  /\ Idle
        /\ IF error = 0
           THEN /\ fw' = [fw EXCEPT !.status = "check_pass"]
                /\ passed' = passed \cup {fw.img}
                /\ acked' = fw.img
                /\ cmd' = "ack"
           ELSE UNCHANGED <<fw, passed, acked, cmd>>
        /\ info' = NoInfo
        /\ UNCHANGED <<flash, boot_vars, task_vars, reset, timers, net, overlapped, notifies, cancels, cuts>>

(* Checks the firmware and erases the information page ...  A host that       *)
(* sends the command again relies on the new answer.                         *)
CMD_UP_finish(i) ==
    LET error == FinishError(i)
    IN  /\ Idle
        /\ CASE error = 0 -> /\ fw' = [fw EXCEPT !.status = "check_pass"]
                             /\ passed' = passed \cup {fw.img}
             [] error \in {3, 4} -> /\ fw' = [fw EXCEPT !.status = "check_fail"]
                                    /\ UNCHANGED passed
             [] OTHER -> UNCHANGED <<fw, passed>>
        /\ info' = NoInfo
        /\ cmd' = IF error = 0 THEN "ack" ELSE "nack"
        /\ acked' = NoImage
        /\ UNCHANGED <<flash, boot_vars, task_vars, reset, timers, net, overlapped, notifies, cancels, cuts>>

(* ... and writes it, answers and asks for a reset. *)
FinishReturns ==
    /\ run = "app" /\ cmd \in {"ack", "nack"}
    /\ info' = [img |-> fw.img, status |-> fw.status]
    /\ reset' = (reset \/ fw.status = "check_pass")
    /\ acked' = IF cmd = "ack" THEN fw.img ELSE acked
    /\ cmd' = "none"
    /\ UNCHANGED <<flash, boot_vars, fw, task_vars, timers, net, passed, overlapped, notifies, cancels, cuts>>

CMD_UP_cancel ==
    /\ Idle
    /\ cancels < MaxCancel
    /\ Post("stop")
    /\ fw' = [fw EXCEPT !.status = "canceled"]
    /\ timers' = TRUE
    /\ cancels' = cancels + 1
    /\ UNCHANGED <<flash, info, boot_vars, boxes, pend, task, req, retry, cmd,
                   reset, net, passed, acked, overlapped, notifies, cuts>>

-----------------------------------------------------------------------------
(* sys_cmd_handler, called by service_task from the agent that handles       *)
(* serial commands too.  reset stands for sys_op.reset and sys_op.valid      *)
(* together: that the end of another command takes valid away again is the   *)
(* subject of Service, for commands that overlap.                            *)
Reset ==
    /\ Idle
    /\ reset
    /\ run' = "off"
    /\ RamLost
    /\ UNCHANGED <<flash, info, pos, host_vars>>

(* Addresses that are being erased or programmed. *)
Busy ==
    CASE run = "erase1" -> AppSector(1)
      [] run = "erase2" -> AppSector(2)
      [] run = "copy" /\ pos < Size[info.img] -> {APP + pos + 1}
      [] run = "app" /\ task = "erase1" -> DataSector(1)
      [] run = "app" /\ task = "erase2" -> DataSector(2)
      [] run = "app" /\ task \notin {"erase1", "erase2"} -> {DATA + fw.seg + 1}
      [] OTHER -> {}

PowerCut ==
    /\ run # "off"
    /\ cuts < MaxCut
    /\ cuts' = cuts + 1
    /\ run' = "off"
    /\ RamLost
    /\ \/ UNCHANGED flash
       \/ flash' = [a \in Addr |-> IF a \in Busy THEN Mixed ELSE flash[a]]
    /\ UNCHANGED <<info, pos, net, passed, acked, overlapped, notifies,
                   cancels>>

BootNext == Boot \/ BootErase \/ BootCopy \/ BootCheck
TaskNext == TaskStart \/ TaskErase \/ TaskLoop \/ TaskSend \/ TaskFetch
HandlerNext == DataReceived \/ FinishReturns

Next ==
    \/ BootNext \/ TaskNext \/ HandlerNext
    \/ \E i \in Image : CMD_UP_notify(i) \/ CMD_UP_finish(i)
    \/ \E p \in net : CMD_UP_data(p)
    \/ CMD_UP_cancel
    \/ Reset \/ PowerCut

(* Boot loader and handlers run to completion.  service_task and             *)
(* upgrade_task share the processor with the handlers and get their turn     *)
(* however often the host sends commands.                                    *)
Fairness ==
    /\ WF_vars(BootNext) /\ WF_vars(HandlerNext)
    /\ SF_vars(TaskNext) /\ SF_vars(Reset)

SafeSpec == Init /\ [][Next]_vars
Spec == SafeSpec /\ Fairness

-----------------------------------------------------------------------------
(* The mailbox holds at most the two messages it was created for, and no     *)
(* transfer counts past the received-firmware area.                          *)
TypeOK ==
    /\ flash \in [Addr -> Blocks]
    /\ info \in [img : Images, status : Status]
    /\ run \in {"off", "erase1", "erase2", "copy", "check", "app"}
    /\ pos \in 0..DataCap
    /\ fw \in [img : Images, status : Status, seg : 0..DataCap]
    /\ mb.ok \in BOOLEAN /\ Len(mb.q) <= 2
    /\ boxes \in 0..MaxBoxes /\ pend \in 0..MaxNotify
    /\ task \in {"idle", "erase1", "erase2", "loop", "send", "wait"}
    /\ req \in 0..DataCap /\ retry \in 0..Retries
    /\ cmd \in {"none", "data", "ack", "nack"}
    /\ reset \in BOOLEAN /\ timers \in BOOLEAN
    /\ net \subseteq Blocks
    /\ passed \subseteq Image /\ acked \in Images
    /\ overlapped \in BOOLEAN

(* The boot loader never starts anything but a complete application: the     *)
(* original one or one that CMD_UP_FINISH has found correct, wherever power  *)
(* was cut during the transfer or while the boot loader was copying.  This   *)
(* needs images that fit into sectors 4 and 5, which no line of the code     *)
(* checks.                                                                   *)
Fits == \A i \in Image : Size[i] <= AppCap
Bootable == \E i \in {Old} \cup passed : Whole(APP, i)
StartsWholeApp == run = "app" => Bootable

(* "设备收到命令后重启，由bootloader完成固件升级": once CMD_UP_FINISH has      *)
(* been acknowledged, the application that runs after the reset is the new   *)
(* one.                                                                      *)
InstalledAfterAck ==
    run = "app" /\ ~reset /\ acked # NoImage => Whole(APP, acked)

(* That holds for a host that lets a transfer end before it notifies the     *)
(* device of another one.                                                    *)
AckedIsInstalled == ~overlapped => InstalledAfterAck

(* An acknowledged upgrade does get installed, power cuts or not, unless the *)
(* host begins another one.                                                  *)
Installs ==
    \A i \in Image :
        acked = i ~> \/ acked # i \/ overlapped
                     \/ run = "app" /\ ~reset /\ Whole(APP, i)

(* upgrade_task gives Agent-MD, which also serves keys and display, back.    *)
TaskEnds == task # "idle" ~> task = "idle"

=============================================================================
