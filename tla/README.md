# LED102-V3 pyrometer firmware: formal specification

The repository is the firmware of an infrared thermometer on a GD32F427: a boot
loader, an application on FreeRTOS and lwIP, and drivers. Its own code is in
`src/src/app` and `src/src/bsp`; the rest of `src/src` is vendored. This
directory specifies the parts whose mistakes a test bench hardly shows: what is
left after a power cut, what happens when an interrupt or another task comes in
between, what a repeated, late or missing command does.

Paths below are relative to `src/src/app` unless they say otherwise.

## 1. Inventory

| component | state | operations | works with |
|---|---|---|---|
| parameter store `para/para.c` | user area (flash), backup area (EEPROM), factory area (flash), `sys_para` in RAM | `para_init`, `pmm_save_group`, `pmm_restore_to_default`, `pmm_restore_to_factory`, `pmm_save_to_factory`, `pmm_save_to_backup` | commands and menus modify `sys_para`; storage layer |
| agents `arch/agent.c` | a ring of functions and a counting semaphore for each of three tasks | `agent_post` (tasks and interrupts), `agent_flush`, `agent_task` | everything that defers work |
| periodic scheduler `arch/ostimer.c` | table of timers (enabled, start, period) | register, open, close, restart, set period; the scan of `ostimer_task` | posts to the agents; the upgrade closes and opens timers |
| firmware upgrade `sys/upgrade.c` | `fw_info` in RAM and in sector 1, received firmware in sectors 6 and 7, mailbox | `CMD_UP_NOTIFY`, `_DATA`, `_FINISH`, `_CANCEL`, `upgrade_task` | host, Agent-MD, boot loader, reset in `sys/system.c` |
| boot loader `boot_main.c` | application in sectors 4 and 5, information page | `upgrade`, `start_app` | what the upgrade has left in flash |
| mailboxes `arch/mail_box.c` | message queues of two entries, at most `MBOX_MAX_COUNT` | create, post, fetch, clear | only the upgrade uses them |
| serial port `arch/serial.c`, `comm/pc.c` | receive and transmit ring, DMA channels, UART flags | `com_send`, `com_recv`, `com_init`, the idle, DMA and TC interrupts | agents, protocols |
| TCP server `comm/tcp_server.c` | server state, client slots, shared buffers, `client_count` | `server_task`, `client_thread`, `tcp_server_send_low` | lwIP, `comm_mgr`, protocols, burst |
| communication groups `comm/comm_cfg.c` | groups and their channels | `comm_group_create`, `comm_channel_add`, `comm_channel_remove`, `proto_process` | serial port, TCP server |
| panel `ui/key.c`, `ui/ui.c`, `ui/display.c` | key flags, current menu and page, edit buffer | key scan, `menu_navigate`, one function per page | one agent runs scan and menus; pages write `sys_para` and save |
| system services `sys/system.c` | `sys_op` (recover, reset, valid), watchdog | `service_task`, `sys_cmd_handler` | commands leave their wish in `sys_op`; parameter store |
| measurement and gain `sys/measure.c`, `sys/tiag.c` | range of each channel, switch counters, samples to replace, history | `temp_task`, `gain_switch_process`, `tiag_switch`; commands SN, SW, SM | sampling task, warm start |
| outputs `sys/self_check.c`, `sys/analogout.c`, `sys/alarm.c`, `sys/heater.c` | error word, alarm flags, relay, current | `error_state_upgrade`, `anolog_output`, `alarm_task`, `heater_task` | sampling task and an agent write the same word |
| record `record/record.c` | index and ring of records in EEPROM | init, clear, save, load | never gets as far as a write, see section 5 |
| storage `arch/storage.c`, `src/src/bsp/dev/eeprom.c`, `src/src/bsp/periph/gd32_fmc.c` | EEPROM mutex, flash controller | read, write, erase | parameter store, record, upgrade |
| protocols `proto/` | none between commands | parse, dispatch, answer | all of the above |
| burst, camera, console (`sys/`) | a few flags each | format and send, text commands | serial port, TCP server |
| message queue `arch/message.c`, SPI link `arch/scom.c` | rings | enqueue, dequeue | nothing uses them |
| drivers `src/src/bsp` | registers | init, read, write | hardware |

Priorities: lwIP 28 to 31; `server_task` of the two ports 24 and 23, their client
threads 22 down to 15 in the order of creation (`arch/thread.c:45`); sampling 23;
scheduler 22; agents 21 (service, alarm, heater, serial commands), 20 (panel,
upgrade, burst) and 19 (records). A command is processed inside a critical section whether it comes from a serial port
(`comm/pc.c:97`) or over TCP (`comm/tcp_server.c:359`); the panel's pages are not.

What is hard in this code:

* **power cuts** during the erase and the write of parameters, of the received
  firmware, of the application, of the information page, and during the repair
  of what an earlier cut has left;
* **interleavings**: three agents, the scheduler, the sampling task, one task
  per TCP client, and interrupts share rings, buffers and flags; some are
  protected by critical sections, some only in part;
* **unreliable peers**: lost and repeated upgrade commands, data packets that
  arrive after their time-out, clients that leave in the middle of a command;
* **limits**: rings that fill up, a tick that wraps around, buffers whose full
  and empty states look alike, images larger than the area they are copied to.

What makes the components correct: saved parameters survive (Para); a deferred
call is executed once, in order, and not forgotten (Agent); a periodic function
is called neither early nor late (OsTimer); the device always boots a complete
application and an acknowledged upgrade is the one that runs (Upgrade); packets
are handed over and sent in order and whole (SerialRx, SerialTx); a client talks to its own
thread over its own connection and leaves nothing behind (TcpServer); what is
edited on the panel is what was shown, and only that is stored (Panel); an
acknowledged system command is executed once, and what is in use is what the
next start loads (Service); a voltage is scaled by the factor of the range it was
converted at, and the ranges come to rest (Gain); current output and relay end up
telling the state of the measurement (Outputs).

## 2. Modules

| module | models | proofs | instances |
|---|---|---|---|
| `Para` | parameter store and how flash and EEPROM writes break off | `ParaProofs` | `MCPara`, `Para.cfg` |
| `ParaStore` | what the parameter store promises: saved contents survive | | |
| `AgentFifo` | what an agent promises: a bounded queue of calls | | |
| `Agent` | one agent: ring, semaphore, callers, `agent_task` | `AgentProofs` | `MCAgent`, `Agent.cfg` |
| `OsTimer` | the scheduler with its wrapping tick | `OsTimerProofs` | `MCOsTimer`, `OsTimer.cfg` |
| `Upgrade` | commands, `upgrade_task`, mailbox, reset, boot loader | `UpgradeProofs` | `MCUpgrade`, `Upgrade.cfg` |
| `SerialRx` | reception: DMA, idle interrupt, `pc_rx_packet_task` | `CommProofs` | `MCSerialRx`, `SerialRx.cfg` |
| `SerialTx` | transmission: `com_send`, DMA and TC interrupts | `CommProofs` | `MCSerialTx`, `SerialTx.cfg` |
| `TcpServer` | `server_task`, client threads, shared buffer | `CommProofs` | `MCTcpServer`, `TcpServer.cfg` |
| `Panel` | key flags, `menu_navigate`, what the pages do to parameters | `PanelProofs` | `MCPanel`, `Panel.cfg` |
| `Service` | `service_task`, commands and panel around it, the `pmm_` functions | `ServiceProofs` | `MCService`, `Service.cfg` |
| `Gain` | range switching, the pass of `temp_task` that depends on it, SN, SW, SM | `GainProofs` | `MCGain`, `Gain.cfg` |
| `Outputs` | error word, current output, alarm relay | `GainProofs` | `MCOutputs`, `Outputs.cfg`, `OutputsHeated.cfg` |

Actions have the names of the functions they model; a function in which
something else can happen is split there. An operator `Op_Variant`, or one
commented as a mutant, stands in front of the operator it belongs to and is a
plausible mistake in it; replacing the operator by it must violate a property,
which shows that the property depends on that line of the code.

Every module of a component defines a type invariant, `TypeOK` (`TxTypeOK`,
`RxTypeOK`). The runs spend their time on the
other properties; `INVARIANT TypeOK` can be added to any `.cfg` and holds on the
same instance. It is also proved.

Some properties hold only as long as the environment keeps a rule that the code
relies on, or name the one case in which the code does not keep them. Such a rule
is a history variable (`forced`, `flushed`, `preempted`, `overlapped`, `late`,
`calm`, `apart`, `cmds`, `rx_late`, `rx_refused`, `rx_calm`, `unsaved`, `spoilt`)
that is set when the rule is broken, not a guard, so that each run explores both
sides and the properties that do not depend on the rule are checked on both.

### Para, ParaStore

`user`, `backup` and `factory` are areas: a magic word, and for every group its
data and its CRC word. `ram` is `sys_para`. `toUser`, `toBackup`, `toFactory`
are the cells the running save has still to write, written one by one in the
order of the addresses (`ImageRank`) or, for the group-wise save of the EEPROM,
data before CRC (`GroupRank`); `op` is the running operation. A flash cell that a
cut interrupts is as good as erased, an EEPROM cell may be torn. A CRC word is
the value it was computed from, so collisions are left out. `acc` is history:
the values a group may have after the next boot, narrowed to one when a save
returns. `ParaStore` is the same without media: the device is up or not, runs on
`ram` and comes up again with something from `acc`; cutting the power changes
nothing.

### Agent, AgentFifo

The ring with `head`, `tail` and `count`, the semaphore `tokens`, the callers
between `Enqueue` and `Give`, and `agent_task` in `Take`, `Fetch`, `Return`. A
caller in an interrupt runs to its end before any task does. `AgentFifo` is the
abstract queue; its `queue` is the part of the ring from `head`.

### OsTimer

`ostimer_task` reads the tick once (`Wake`), then compares and posts timer by
timer (`Check`, `Post`); commands may come between any two steps, from the TCP
threads of the same priority. The tick wraps modulo `Wrap`. `age` is history:
the real time since a timer was started.

### Upgrade

Flash is a row of blocks: application area and, right behind it, received
firmware. A block is a segment of an image, erased, or mixed. `info` is the
information page as the boot loader judges it, `fw` the one in RAM. The handlers
of `CMD_UP_DATA` and `CMD_UP_FINISH` are split where they sleep or where the
flash is between two states. `reset` stands for `sys_op.reset` and `sys_op.valid`
together: that another command's end clears `valid` again (`system.c:457`) is
`Service`'s subject. Images consist of whole words: `gdf_write_data_by_word` leaves
the last `len % 4` bytes unwritten (`src/src/bsp/periph/gd32_fmc.c:109`). `net` holds data packets on their way, in any
order. `PowerCut` is possible everywhere.

### SerialRx, SerialTx

Bytes are numbers counted up modulo twice the buffer, so that any mix-up shows.
The variables of the two modules begin with `rx_` and `tx_`; `rx_read` and `rx_count`
are `read_idx` and `count` of `rx_fifo`. In `SerialRx` packets and noise arrive at
any time, also while the idle interrupt of the last packet is held back by a
critical section: it then counts the first bytes of the next packet too, and notes
that in `rx_late`. `ring` is the ring of the agent of priority 21, shared with
`heater_task`, `alarm_task` and `service_task` ("other"); `rx_refused` says that it
was full of such calls when a packet was counted, so that `agent_post` refused the
only call that would have fetched it. `rx_owed` and `ends` are history: the bytes
that were not handed over yet, and where in them packets end. They are kept while
`rx_calm`: until bytes do not fit into the buffer, a packet comes behind a command
that sets the baud rate, or noise moves `read_idx` out of the buffer.
In `SerialTx` the UART holds two bytes, and a critical section may hold interrupts
back (`late`). The start of a message is three steps, `Size`, `Arm` and `Start`:
between them the DMA interrupt of an overlapping message may come in.

### TcpServer

A netconn is free, waiting to be accepted, open or closed. Each call that blocks
in lwIP ends an action. Priorities matter between copying a command into the
shared buffer and handling it (`Runs`). `thread[t].mine` is history: the
connection a thread was created for. Not every command that is handled is answered:
character commands are ignored while firmware is transferred (`comm_cfg.c:134`),
some have no answer (`comm_cfg.c:141`), and `tcp_server_send_low` gives the answer
up when the network is down, more than half of the send buffer is taken or
`tcp_write` fails (`tcp_server.c:461`, `486`, `491`). `result` is history: how the
last command ended, "silent", "refused", "answered", or "missed" when the answer
did not find the client that had asked. `lost` is history: the clients given up
because the network was down for too long.

### Panel

One pass of `menu_navigate` is a chain of updates of the record `ui` in the order
of the code: time-outs, RIGHT, DOWN, UP, SET, then the page on display (`Page`).
Key scan and pass alternate (`turn`): both are functions of one agent. A page is
one of seven kinds that treat the edit differently: two of them do not store every
value they show (`AsStored`): `do_baud_rate` stores 115200 for a rate that the port
does not support, and `do_temp_mode` leaves the narrow-band mode, which only a
command can choose, as it is. Commands change parameters at any time
(`SetParameter`), also the one that is being edited. `wild` says that a pass called
a null page or wrote behind an address; a reset follows. `apart` is history: no
pass has found two keys at once. A menu has at most 20 pages, the size of the
arrays of `ui.c`.

### Service

`op` is `sys_op`; `svc` is where `service_task` stands between two assignments,
where a TCP thread can come in; serial commands run on the same agent, before or
after a pass, once their packet is `queued`. `store` holds the parameters in use and the three
areas, each as one value: how a save breaks off is `Para`'s subject, here a
`pmm_` function is the one step that its critical section makes it. `panel` says
that a page has written its parameter and not saved it. `unsaved` is history:
something changed `sys_para` without a save, which a calibration that does not
converge, the end of a two-point calibration and the queries of the camera do
(`measure.c:737` and `811`, `proto_char_cfg.c:536`). `owed` is history: the
commands acknowledged and not executed; `calm`: none has come on top of another.
After the restore from a bad factory area the critical section stays entered:
`sys` is "hung" until the watchdog, or a reset that was pending, starts the
device again. No other task runs, but the agent goes on with a serial command that
is already in its ring; if that command saves, the mixture of two sets that the
restore has left is stored, and `spoilt` says so.

### Gain

A voltage is light times sensitivity times the amplification of the range, cut at
the end of the scale. `hw` is the analogue switch, `now` the variable `now_gain`
from which the factor is taken; `temp_task` converts and decides,
`volt_normalization` scales, replaces samples while a switch settles and feeds
the filter. `fed` and `since` are history: what the filter got, and how long after
the last switch; `cmds` counts the commands SN and SW.

### Outputs

`err` is the error word. A flag is set or cleared in two steps (`LoadFlags`,
`StoreFlags`), between which a pass of the sampling task may change the word and
be overwritten. `Evaluate` makes the three checks of `error_state_upgrade` one
after the other. `read` is the reading, any combination the sensor can give.

## 3. Runs

Passing runs, one for each component:

| run | instance | distinct states | shows |
|---|---|---|---|
| `para` | 2 groups, 3 values, any number of cuts, 1 media fault | 1.4 million | `Durable`: no cut brings back a group older than its last completed save. `RedundantWhenIdle`: after a boot both copies are valid again. `SurvivesOneFault`: one failing access without a cut is survived. |
| `agent` | ring of 3, 3 callers (one an interrupt), flush at any time | 13 thousand | `NoLostWakeup`, `GiveSucceeds`, `FifoOrder` and, with fairness, `ImplementsFifo` |
| `ostimer` | 2 timers and one unregistered, periods 1 and 3, tick modulo 9 | 2.4 million | `OnTime`, `NotEarly` across the wrap-around |
| `upgrade` | images of 1 and 2 segments, 2 notifications, 1 cancel, 1 cut | 430 thousand | `StartsWholeApp`, `AckedIsInstalled`, `Installs`, `TaskEnds` |
| `serialrx` | buffer of 5, packets of 2, 3 and 5, noise of 1, shared agent ring of 2 | 573 thousand | `NotStranded`, `Whole`, `HandedOver` |
| `serialtx` | buffer of 5, messages of 1 to 5, both modes | 37 thousand | `Faithful`, `DriverOn`, `Released` |
| `tcpserver` | 2 slots, 2 threads, 2 connections and one to be refused, 1 failure | 532 thousand | `OwnConn`, `OwnCommand`, `Tidy`, `ChannelsOnline`, `Answered`, `Freed` |
| `panel` | 4 menus of 1, 2, 1 and 1 pages, any keys, commands that change the mode | 492 thousand | `PagesExist`, `StoresWhatIsShown`, `EditStartsClean`, and `GoesHome`: an untouched panel returns to the first page |
| `service` | 3 sets of parameters, commands over TCP and the serial port, with and without a save, and panel edits at any time, good, bad or missing factory area | 1.2 million | `InUseIsStored`, `NoneLost`, `AsAsked`, `Executed` |
| `gain` | 2 channels of different sensitivity, 3 ranges, 2 levels of light, 1 command | 197 thousand | `ScaledRight`, `SlopeDefined`, `Settles`, `Obeys` |
| `outputs` | readings below, in and above the range, heater off, the target's and the internal alarm with dead bands, 3 relay modes | 187 thousand | `OutputFollows`, `RelaySettles`, `AlarmRises` |

Why the bounds are enough. Para: groups interact only through the common magic
word, the erase of the whole user area and "all groups valid", for which two
are enough; a third value is needed to tell "old", "new" and "address out of
range" apart. Beyond `Focus` in `MCPara` the properties are vacuous. Agent: a
ring of three is empty, partly full and full, and wraps. OsTimer: the tick wraps
several times within the longest period plus two scans. Upgrade: two segments
have a first and a last one; two notifications are one transfer after or on top
of another; the proof covers any number of cuts. Serial: every length meets
every position relative to the end of the buffer; a ring of two can be full of
other calls, hold one of each kind, or two of the port's. TcpServer: two slots are a
first one and another one; the second connection reuses what the first one left.
Panel: a menu followed by a shorter one is what the real tables have (6 pages and
3), and a page number past the end is then possible; two parts stand for the four
of an address, two values for a parameter that wraps or is clamped; of the two baud
rates the lower is one that the port does not support. Service: a
third value tells "default", "before" and "just written" apart. Gain: the two
levels put the channels into ranges whose thresholds touch and reach the end of
the scale; three samples per switch and one to replace are the shortest that have
a first, a middle and a last; a command is followed by every behaviour, including
a change of mode. Outputs: readings lie on both sides of every comparison; one
relay mode watches the target alone, one both alarms and one only the internal one,
with normally open and normally closed contacts among them.

Fairness. Agent: a caller that has queued goes on to give the semaphore (weak);
the agent's steps are strongly fair because interrupts and tasks of higher
priority leave it time again and again, but not continuously. Upgrade: the boot
loader and a begun handler run to their end (weak); `upgrade_task` and
`service_task` get the processor again and again between commands (strong).
Serial: the line finishes a packet it has begun, hardware and interrupts go on,
the agent runs (weak). TcpServer: the tasks go on with what they can do (weak);
no fairness is assumed of clients. Panel: `ui_task` is periodic and the watchdog
runs (weak); the key controller answers again and again (strong). Service: the
handler goes on, a page goes on to its save, watchdog and start need no program
(weak). Gain: the sampling task goes on, because only lwIP and `server_task`, which
block, come before it (weak); nothing is
assumed of light, commands and restarts. Outputs: `error_state_upgrade` goes on
(weak); `alarm_task` is posted for ever to an agent that is busy now and then
(strong); a pass that is carried through happens again and again while
`error_state_upgrade` is not under way (strong), because it takes microseconds in
a second and the passes twenty milliseconds. `Para` and `OsTimer` have safety
properties only.

`TcpServer.cfg` switches the deadlock check off: once connections have leaked
(below), a system with finitely many netconns can really come to a stop. All other
runs check for deadlock.

One run shows where the code does not do what the repository says of it:
`outputs_heated`. The error word starts with all flags set (`self_check.c:37`) and
nothing clears the two internal-temperature flags while a heater temperature is
set (`self_check.c:171`), which by default it is. So the current output never
reaches the branch "no error, normal output" (`analogout.c:76`): `NormalOutput` is
violated. The other properties of `Outputs` are therefore stated for a heater that
is off.

Other disagreements met while modelling, which the models contain and the
properties above exclude. Those with a property in brackets are violations TLC
finds when the property is put into a `.cfg` with the constants given:

* `pmm_save_to_backup` with unsaved changes, cut short, leaves a broken backup
  group that no later boot repairs, because only CRC words are compared
  (`para.c:155`) [`BootRepairs`; `Value <- TwoValues`, `BadAddr <- NoBadAddr`,
  `MaxFaults = 0`].
* A repeated `CMD_UP_NOTIFY`, which the protocol announces, queues a second
  `upgrade_task`; it may erase firmware that was just acknowledged
  (`upgrade.c:185`) [`InstalledAfterAck`].
* A stray byte at the end of the receive buffer leaves `read_idx` outside it; the
  next packet is corrupted (`serial.c:370`). A packet that begins before the idle
  interrupt of the last one is served is cut: its first bytes are handed over with
  the last one, the rest as a packet of its own (`serial.c:695`).
* A packet whose call `agent_post` refuses because the ring is full of other calls
  stays in the receive buffer until the next one comes (`pc.c:75`).
* A message sent before the last one has gone garbles both (`serial.c:464`)
  [`Faithful`; `Overlap = TRUE`]. The DMA interrupt of the last one between the
  computation of the size and `gd32_dma_start` makes the channel read past the end
  of the buffer (`serial.c:478` to `485`) [`TxTypeOK`; `Overlap = TRUE`].
* A slot is given to a new client while the old thread is still closing; it closes
  the new client's connection and leaks its own (`tcp_server.c:383`)
  [`SlotIsFree`].
* The FACTORY DEFAULT page restores the defaults when it shows NO and not when it
  shows YES (`display.c:606`) [`FactoryOnYes` in `Panel`].
* RIGHT and DOWN, or RIGHT and UP, found in one pass of `menu_navigate` select a
  page the new menu does not have, a call through a null pointer (`ui.c:213`).
* A command PR or RS on top of one that is being executed is acknowledged and
  wiped out (`system.c:443` and `457`).
* `pmm_restore_to_factory` with an incomplete factory area returns at `para.c:252`
  with `sys_para` changed, neither area written and the critical section still
  entered, although `para.h:95` says it overwrites both areas. A serial command that
  was waiting in the agent's ring may then save the mixture, which the next start
  loads.
* SN and SW in the automatic mode leave `now_gain` and the analogue switch apart,
  and, handled while `sample_task` sleeps between conversion and scaling
  (`measure.c:200`), scale a voltage by the factor of another range
  (`measure.c:453`).
* After a warm start in a lower range a bright target switches in the second pass,
  and the slope is divided by zero (`measure.c:502`). The same happens after a cold
  start when one channel is dark and the other at the end of the scale, and when
  GCN has set `cnt_thod` below 3, which it accepts (`proto_char_cfg.c:77`). `SlopeIsDefined` below states when it cannot. The table of weights is read
  one past its end (`measure.c:681`), and a window of 25 overruns
  `filter_buffer[ch][20]` (`measure.c:521`).
* A target above the range of the device is reported as 0, so the alarm that
  `para_cfg.h:170` describes as raised above its threshold drops out. The comments
  at `para_cfg.h:176` name the relay's contacts the other way round than
  `alarm.c:57`; the dead band is 1.0 where `para_cfg.c:218` speaks of 980.
* The heater keeps its last duty when it is switched off (`heater.c:49`).
* `CMD_UP_CANCEL` handled before `upgrade_task` has started is acknowledged and
  then forgotten (`upgrade.c:63`). A transfer that `upgrade_task` gives up leaves
  the periodic tasks closed (`upgrade.c:131`); only `CMD_UP_CANCEL` or a reset
  opens them.
* An image larger than sectors 4 and 5 is accepted, and the boot loader
  overwrites its source while it copies (`boot_main.c:103`). `StartsWholeApp`
  assumes images that fit (`Fits`).
* A packet of exactly `PC_MAX_LEN` bytes fills the receive buffer and counts as
  empty (`serial.c:695`). With interrupts held back until the UART runs dry, TC of
  the first part of a message that wraps turns the bus in the middle of the second
  (`serial.c:677`). `pc_init` from a menu re-initialises a port that is receiving
  or sending (`pc.c:48`), and `comm_send_chunk` ignores how much was taken
  (`comm_cfg.c:104`).
* Two TCP clients with commands at the same time overwrite each other's command
  and answer in the shared buffer (`tcp_server.c:348`). The buffer is given to lwIP
  without a copy (`tcp_server.c:491`), and a sender keeps a pointer to a connection
  that its owner may delete (`tcp_server.c:476`). After a failure of lwIP
  `server_task` restarts itself for ever without leaving `SERVER_STATE_RESTART`
  (`tcp_server.c:246`).
* A command over TCP in the middle of the timers' scan can make a timer due at
  once (`ostimer.c:160`).
* The EEPROM mutex is taken inside critical sections (`para.c:186`), where a task
  that holds it could never give it back, and a lock that cannot be taken counts
  as a successful write (`storage.c:159`). Nothing else takes the mutex in this
  build, because the record tasks never write.

## 4. Proofs

TLAPS proves the following for all values of the constants, from the `ASSUME`s
of the modules only.

* **Para** (`TypeCorrect`, `Invariance`, `Durability`, `RedundancyRestored`,
  `OneFaultSurvived`, `ImplementsStore`). `Durable` is not inductive: whether a cut is survived depends
  on both copies and on what the running save has still to write. The invariant says
  that user and backup copy of a group are never both broken, that a valid copy
  holds an acceptable value, and that every difference between an area and
  `sys_para` is accounted for by a cell still to be written, in the order of the
  write. `OneFaultSurvived` needs an invariant of its own, because a failing access
  breaks the first one (`OneFaultInv`): without a cut every write that does not fail
  ends, so before the fault both areas end up intact and after it one of them does,
  and what is in use is what that one holds or will hold. `ImplementsStore` is the
  refinement: in behaviours without media faults and without a forced backup, writes
  and repairs are stuttering steps of `ParaStore`, a boot is its `Start`, the
  handlers and restores its `Assign`, the end of a save its `Saved`, a cut its
  `Stop`. Each step follows from `Durable` before and after it.
* **Agent** (`TypeCorrect`, `Invariance`, `WakeupNotLost`, `PostIsHonest`, `Refinement`). The
  ring's indices agree with its count; tokens, callers about to give and a task
  about to fetch together cover the queued functions, and are equal to them
  until a flush. `Refinement` shows `FifoOrder` step by step.
* **OsTimer** (`TypeCorrect`, `Invariance`, `NeverLate`, `NeverEarly`). The age of an
  open timer is the wrapped difference of tick and start; a timer the scan has passed
  is younger than its period plus the time since the scan began; one it has not
  passed yet is younger than that plus the distance of two scans.
* **Upgrade** (`TypeCorrect`, `StartsWhole`, `AckedInstalled`), for images that fit.
  While the application area is incomplete, a complete image that has passed the
  check is staged behind an information page with status CHECK_PASS; the boot loader
  changes neither before the copy is complete. For `AckedIsInstalled` the invariant
  (`AckInv`) says that, of a host that waits for the end of a transfer, no packet of
  another image and no task that would erase is under way once CMD_UP_FINISH is
  answered, so that the received firmware stays as the check found it until the boot
  loader has copied it.
* **TcpServer** (`TypeCorrect`, `Invariance`, `ChannelsInStep`, `ConnIsOwn`,
  `CommandIsOwn`, `LeavesNothing`), in `CommProofs`. A slot has at most one thread
  that has not taken it offline, and a thread removes its channel before that; this
  holds always. The other three hold while it is calm, and none is inductive alone.
  Their invariant (`Quiet`) says that nobody is coming while somebody is leaving, that
  a slot has one thread at all, that slot and thread name the same connection until
  the thread has closed it, that every connection in use is that of a slot, and
  that at most one command is asked for, in the buffer or being answered.
* **SerialTx** (`SentFaithfully`, `BusStaysDriven`, `BusIsGivenBack`, `TxInBounds`), in
  `CommProofs`, for every size of the buffer and messages that
  fit into it and are sent one after the other (`Overlap = FALSE`). The bytes owed are those in the buffer from the address of the
  channel on, around the end of the buffer, and the channel works on the part up to
  that end. `DriverOn` also needs that TC stays clear from the start of the channel
  until the last byte has gone, which is where late interrupts matter. They do not
  matter for `BusIsGivenBack`, the safety part of `Released`: whenever the bus is
  driven, the interrupt that releases it is armed or about to be. Its invariant
  (`TxParts`) says that TC is not taken while a second part is waiting, because TC
  comes after the channel has finished and the DMA interrupt is served first.
  `TxInBounds`: what the channel is started with is the part up to the end of the
  buffer from where it starts, because nothing moves `read_idx` between `Size` and
  `Start`; with overlapping messages the interrupt of the one before does.
* **SerialRx** (`NoneStranded`, `HandsOverWhole`, `RxInBounds`), in `CommProofs`, for
  buffers of any size and whatever arrives, noise and packets longer than the buffer
  included. `NoneStranded` needs that `rx_len` and `rx_count` agree, because
  `com_recv` asks for the one where the other is meant, and that a refused call is
  either one of several or noted in `rx_refused`. For the other two the invariant
  (`RxOrder`, while `rx_calm`) says that what has arrived lies in the buffer
  between `rx_read` and the position of the channel, that `rx_count` covers bytes
  that have arrived, stands at the end of a packet unless `rx_late`, and is at least
  `MinLen`, so that no later interrupt takes what was counted for noise.
* **Panel** (`TypeCorrect`, `PagesAlwaysExist`, `OnlyShownIsStored`, `EditsStartClean`),
  for every table of menus. The invariant (`Sane`) says that with one key per pass the
  page on display exists and no step or store is pending between two passes, and that
  an edit is under way only on a page with parameters, blinking, with the part being
  edited inside the address. A parameter stays what its page can show or, of the
  mode, narrow-band. It also needs that a pass with a key in it sees no
  time-out (`PanelInv`): `count` is read before the time-outs and used after them.
* **Service** (`TypeCorrect`, `StoredCorrect`, `HangsCorrect`, `NoneLostCorrect`,
  `AsAskedCorrect`), for every set of parameters. The invariant has two
  independent parts. About the store: a call of a `pmm_` function that returns
  leaves the parameters in use as equal to the stored ones as they were; one that
  does not return found a factory area that is not valid (`HangsKnown`, proved
  only); and the mixture such a restore leaves is in no area that a start or a
  restore reads until a command has saved it (`MixedKnown`).
  About the commands, while
  they do not overlap: what the handler has passed is no longer owed, `valid` says
  while it sleeps whether something is, and `recover` names a command only while
  it is owed or being cleared. The last part is what makes `AsAsked` inductive.
* **Gain** (`TypeCorrect`, `ScaledCorrect`, `SlopeIsDefined`), for every light,
  sensitivity, factor and threshold. `ScaledRight` is not inductive: what a pass feeds depends on the range
  its voltages were converted at and on the samples left to replace. The invariant
  adds, as long as no command has come, that the pass under way was converted at
  the present ranges, and that for each channel the passes fed since the last
  switch and the samples still to be replaced together make up `Discard`. The slope
  is defined after a cold start without commands if `cnt_thod` is at least its default
  of 3 and no light leaves one channel dark while the other is at the end of the scale
  (`Together`); both conditions are part of the theorem, since nothing in the code
  enforces them.

* **Outputs** (`OutputsTyped`, `HeatedNeverShows`), in `GainProofs`, which takes
  `Outputs` as an instance, so that what `OutputsTyped` needs of the constants is a
  hypothesis. `HeatedNeverShows`: with the heater on from the start the current output never shows a
  temperature. This is the disagreement of `outputs_heated` for all readings and
  thresholds. The invariant (`Stuck`) says that the flag is in the error word and in
  the copy `error_state_upgrade` has loaded, and that no write under way clears it.

The hypotheses of the theorems about the serial port hold for the constants of the
firmware: buffers of 768 and 1056 bytes, `PC_MIN_LEN` 2, `PC_MAX_LEN` 1056.

Only model-checked: liveness (`ImplementsFifo`, `Installs`, `TaskEnds`,
`Answered`, `HandedOver`, `Released`, `Freed`, `GoesHome`, `Executed`, `Settles`, `Obeys`,
`OutputFollows`, `RelaySettles`, `AlarmRises`), which depends on fairness and is out of
the prover's reach. The safety part of `ImplementsFifo` is `FifoOrder`, which is
proved. Every other property of a passing run is stated by a theorem.

## 5. Not modelled

* **Record / black box.** `load_index` compares the 0 that `eeprom_read_lock`
  returns on success with a size (`record.c:282`), so every start sets
  `DEV_ERR_RECORD`, which nothing clears, and both record tasks return before they
  save (`record_cfg.c:76` and `113`). The record commands of the binary protocol
  are commented out. There is no behaviour to check until that is repaired.
* **Message queue, SPI link, `camera_task`**: nothing in the firmware calls them.
* **Arithmetic of the measurement** (curves, filters, calibration, holding modes),
  of the analogue output and of the heater's controller: floating point against a
  physical model, out of the reach of TLC and of the provers.
* **Framing and parsing** of both protocols, drawing, console, formatting: data.
  Burst output only formats values and hands them to senders that `SerialTx` and
  `TcpServer` have; its lengths are eight bits wide and wrap in `burst_build`, and
  an answer to a third command in one packet is written at the wrong offset.
* **Register-level drivers** in `src/src/bsp` and the sequence of start-up: their
  correctness is against data sheets, not against other code.
* **Vendored code** (FreeRTOS, lwIP, CMSIS, the GD32 library, SystemView), more than
  nine tenths of the lines under `src/src`: used as documented. Collisions of CRCs.

## 6. Plan

Done, in the order of what a fault costs: Para, Agent, OsTimer, Upgrade, SerialRx,
SerialTx, TcpServer, Service, Panel, Gain, Outputs. Left:

1. **Protocol**: dispatch of `proto/` with several commands in a packet, and
   `comm_send_chunk` as the sender in front of `SerialTx`.
2. **Record**, once it can write.
