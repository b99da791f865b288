----------------------------- MODULE CommProofs -----------------------------
(***************************************************************************)
(* The two ways into the device, TCP server and serial port.               *)
(*                                                                         *)
(* TCP server, for any number of slots, threads and connections, with      *)
(* connections coming and going at any moment and with all failures: the   *)
(* channels of comm_mgr are slots in use.  A slot is offered again as soon *)
(* as its thread has taken it offline, while the thread still has steps to *)
(* go.  The property holds because a thread removes the channel before     *)
(* that, and because a slot has at most one thread that has not yet taken  *)
(* it offline.  In calm times, in which no connection comes in while a     *)
(* client leaves and one command is under way at a time, a thread works on *)
(* the connection it was created for, the common buffer holds the command  *)
(* that is handled, and no connection is left behind.                      *)
(*                                                                         *)
(* Serial port, for buffers of any size and all lengths that fit: a        *)
(* message is sent byte by byte, the bus is driven until it has gone and   *)
(* then given back; no packet is stranded, and those handed over are       *)
(* whole, until something disturbs the line.  Both DMA channels stay in    *)
(* their buffers, that of the transmitter for messages that do not overlap. *)
(***************************************************************************)
EXTENDS TcpServer, SerialTx, SerialRx, SequenceTheorems, TLAPS

PCs == {"none", "run", "copied", "removed", "offline", "closing"}

(* Threads that have not yet taken their slot offline. *)
Active(t) == thread[t].pc \in {"run", "copied", "removed"}

TypeInv ==
    /\ client \in [Slot -> [online : BOOLEAN, conn : Conn \cup {NoConn},
                            state : {"init", "wait_data", "process", "disconnect"}]]
    /\ thread \in [Thread -> [pc : PCs, slot : Slot, mine : Conn \cup {NoConn}]]
    /\ cur \in Slot
    /\ channels \subseteq Slot

ActiveOnline == \A t \in Thread : Active(t) => client[thread[t].slot].online

OneActive == \A t, u \in Thread :
                Active(t) /\ Active(u) /\ thread[t].slot = thread[u].slot => t = u

RemovedChannel == \A t \in Thread :
                     thread[t].pc = "removed" => thread[t].slot \notin channels

SetupSlot == server = "setup" =>
                /\ client[cur].online
                /\ \A t \in Thread : Active(t) => thread[t].slot # cur

(* The inductive invariant. *)
IInv == /\ TypeInv /\ ActiveOnline /\ OneActive /\ RemovedChannel /\ SetupSlot
        /\ ChannelsOnline

(* It holds when no slot is in use. *)
LEMMA InitHolds == Init => IInv
  BY TcpServerAssumption
  DEF Init, IInv, TypeInv, ActiveOnline, OneActive, RemovedChannel, SetupSlot,
      ChannelsOnline, Active, PCs, Slot, NoThread

(* Steps of the network, and of server_task before it accepts, leave slots,  *)
(* threads and channels alone.                                               *)
LEMMA Elsewhere ==
    ASSUME IInv,
           UNCHANGED <<client, thread, channels, cur>>,
           server' = "setup" => server = "setup"
    PROVE  IInv'
  BY DEF IInv, TypeInv, ActiveOnline, OneActive, RemovedChannel, SetupSlot,
         ChannelsOnline, Active

(* server_task takes a slot that is offline. *)
LEMMA AcceptPreserves ==
    ASSUME IInv, NEW c \in Conn, Accept(c)
    PROVE  IInv'
  <1>1. PICK s \in Slot :
           /\ ~client[s].online
           /\ client' = [client EXCEPT ![s].conn = c, ![s].online = TRUE]
           /\ cur' = s
    BY DEF Accept, FreeSlot
  <1>2. UNCHANGED <<thread, channels>> /\ server' = "setup"
    BY DEF Accept
  <1>3. /\ client'[s].online
        /\ \A r \in Slot : client[r].online => client'[r].online
    BY <1>1 DEF IInv, TypeInv
  <1>4. TypeInv'
    BY <1>1, <1>2 DEF IInv, TypeInv
  <1>5. ActiveOnline' /\ OneActive' /\ RemovedChannel' /\ ChannelsOnline'
    BY <1>1, <1>2, <1>3
    DEF IInv, TypeInv, ActiveOnline, OneActive, RemovedChannel, ChannelsOnline, Active
  <1>6. SetupSlot'
    BY <1>1, <1>2, <1>3 DEF IInv, TypeInv, ActiveOnline, SetupSlot, Active
  <1>. QED  BY <1>4, <1>5, <1>6 DEF IInv

(* server_task adds the channel and creates the thread. *)
LEMMA SetupPreserves ==
    ASSUME IInv, Setup
    PROVE  IInv'
  <1>1. /\ server = "setup" /\ server' = "accept"
        /\ client' = [client EXCEPT ![cur].state = "init"]
        /\ channels' \subseteq channels \cup {cur}
        /\ UNCHANGED cur
    BY DEF Setup
  <1>2. \/ UNCHANGED thread
        \/ \E t \in Thread :
              /\ thread[t].pc = "none"
              /\ thread' = [thread EXCEPT ![t] = [pc |-> "run", slot |-> cur,
                                                  mine |-> client[cur].conn]]
    BY DEF Setup
  <1>3. \A r \in Slot : client'[r].online = client[r].online
    BY <1>1 DEF IInv, TypeInv
  <1>4. client[cur].online /\ \A t \in Thread : Active(t) => thread[t].slot # cur
    BY <1>1 DEF IInv, SetupSlot
  <1>5. ChannelsOnline' /\ SetupSlot'
    BY <1>1, <1>3, <1>4 DEF IInv, TypeInv, ChannelsOnline, SetupSlot
  <1>6. CASE UNCHANGED thread
    <2>1. TypeInv' /\ ActiveOnline' /\ OneActive' /\ RemovedChannel'
      BY <1>1, <1>3, <1>4, <1>6
      DEF IInv, TypeInv, ActiveOnline, OneActive, RemovedChannel, Active
    <2>. QED  BY <1>5, <2>1 DEF IInv
  <1>7. ASSUME NEW t \in Thread,
               thread' = [thread EXCEPT ![t] = [pc |-> "run", slot |-> cur,
                                                mine |-> client[cur].conn]]
        PROVE  IInv'
    <2>1. TypeInv'
      BY <1>1, <1>7 DEF IInv, TypeInv, PCs
    <2>2. /\ thread'[t].pc = "run" /\ thread'[t].slot = cur
          /\ \A u \in Thread \ {t} : thread'[u] = thread[u]
      BY <1>7 DEF IInv, TypeInv
    <2>3. ActiveOnline'
      BY <1>1, <1>3, <1>4, <2>2 DEF IInv, TypeInv, ActiveOnline, Active
    <2>4. OneActive'
      BY <1>4, <2>2 DEF IInv, OneActive, Active
    <2>5. RemovedChannel'
      BY <1>1, <1>4, <2>2 DEF IInv, RemovedChannel, Active
    <2>. QED  BY <1>5, <2>1, <2>3, <2>4, <2>5 DEF IInv
  <1>. QED  BY <1>2, <1>6, <1>7

(* The two records, and an update of one field of each. *)
LEMMA Typed ==
    ASSUME IInv
    PROVE  /\ client \in [Slot -> [online : BOOLEAN, conn : Conn \cup {NoConn},
                          state : {"init", "wait_data", "process", "disconnect"}]]
           /\ thread \in [Thread -> [pc : PCs, slot : Slot, mine : Conn \cup {NoConn}]]
  BY DEF IInv, TypeInv

LEMMA PcTyped ==
    ASSUME NEW f \in [Thread -> [pc : PCs, slot : Slot, mine : Conn \cup {NoConn}]],
           NEW t \in Thread, NEW p \in PCs
    PROVE  [f EXCEPT ![t].pc = p]
               \in [Thread -> [pc : PCs, slot : Slot, mine : Conn \cup {NoConn}]]
  OBVIOUS

LEMMA OnlineTyped ==
    ASSUME NEW f \in [Slot -> [online : BOOLEAN, conn : Conn \cup {NoConn},
                      state : {"init", "wait_data", "process", "disconnect"}]],
           NEW s \in Slot
    PROVE  [f EXCEPT ![s].online = FALSE]
               \in [Slot -> [online : BOOLEAN, conn : Conn \cup {NoConn},
                  state : {"init", "wait_data", "process", "disconnect"}]]
  OBVIOUS

(* A thread that only moves on in its slot, active before and after. *)
LEMMA ThreadGoesOn ==
    ASSUME IInv, NEW t \in Thread, NEW p \in {"run", "copied"},
           Active(t),
           \/ UNCHANGED thread
           \/ thread' = [thread EXCEPT ![t].pc = p],
           \/ UNCHANGED client
           \/ \E x \in {"wait_data", "process", "disconnect"} :
                 client' = [client EXCEPT ![thread[t].slot].state = x],
           UNCHANGED <<channels, cur, server>>
    PROVE  IInv'
  <1>0. thread[t].slot \in Slot /\ thread[t].pc \in {"run", "copied", "removed"}
    BY DEF IInv, TypeInv, Active
  <1>1. \A r \in Slot : client'[r].online = client[r].online
    <2>1. CASE UNCHANGED client
      BY <2>1
    <2>2. ASSUME NEW x \in {"wait_data", "process", "disconnect"},
                 client' = [client EXCEPT ![thread[t].slot].state = x],
                 NEW r \in Slot
          PROVE  client'[r].online = client[r].online
      BY <2>2, Typed
    <2>. QED  BY <2>1, <2>2
  <1>2. \A u \in Thread :
           \/ thread'[u] = thread[u]
           \/ u = t /\ thread'[u].slot = thread[u].slot /\ thread'[u].pc = p
    BY DEF IInv, TypeInv
  <1>3. \A u \in Thread : /\ thread'[u].slot = thread[u].slot
                          /\ Active(u)' => Active(u)
                          /\ thread'[u].pc = "removed" => thread[u].pc = "removed"
    BY <1>2 DEF Active
  <1>4. client' \in [Slot -> [online : BOOLEAN, conn : Conn \cup {NoConn},
                     state : {"init", "wait_data", "process", "disconnect"}]]
    <2>1. CASE UNCHANGED client
      BY <2>1 DEF IInv, TypeInv
    <2>2. ASSUME NEW x \in {"wait_data", "process", "disconnect"},
                 client' = [client EXCEPT ![thread[t].slot].state = x]
          PROVE  client' \in [Slot -> [online : BOOLEAN, conn : Conn \cup {NoConn},
                              state : {"init", "wait_data", "process", "disconnect"}]]
      BY <1>0, <2>2 DEF IInv, TypeInv
    <2>. QED  BY <2>1, <2>2
  <1>5. thread' \in [Thread -> [pc : PCs, slot : Slot, mine : Conn \cup {NoConn}]]
    <2>2. CASE UNCHANGED thread
      BY <2>2 DEF IInv, TypeInv
    <2>3. CASE thread' = [thread EXCEPT ![t].pc = p]
      <3>1. p \in PCs
        BY DEF PCs
      <3>. QED  BY <2>3, <3>1, Typed, PcTyped
    <2>. QED  BY <2>2, <2>3
  <1>6. TypeInv'
    BY <1>4, <1>5 DEF IInv, TypeInv
  <1>7. ActiveOnline' /\ OneActive' /\ RemovedChannel' /\ SetupSlot' /\ ChannelsOnline'
    BY <1>1, <1>3
    DEF IInv, TypeInv, ActiveOnline, OneActive, RemovedChannel, SetupSlot, ChannelsOnline
  <1>. QED  BY <1>6, <1>7 DEF IInv

(* The thread removes its channel. *)
LEMMA RemovePreserves ==
    ASSUME IInv, NEW t \in Thread, Remove(t)
    PROVE  IInv'
  <1>1. /\ thread[t].pc = "run"
        /\ thread' = [thread EXCEPT ![t].pc = "removed"]
        /\ channels' = channels \ {thread[t].slot}
        /\ UNCHANGED <<client, cur, server>>
    BY DEF Remove, At, server_vars
  <1>2. /\ thread'[t].pc = "removed" /\ thread'[t].slot = thread[t].slot
        /\ \A u \in Thread \ {t} : thread'[u] = thread[u]
    BY <1>1 DEF IInv, TypeInv
  <1>3. \A u \in Thread : Active(u)' => Active(u) /\ thread'[u].slot = thread[u].slot
    BY <1>1, <1>2 DEF Active
  <1>4. TypeInv'
    BY <1>1 DEF IInv, TypeInv, PCs
  <1>5. ActiveOnline' /\ OneActive' /\ SetupSlot' /\ ChannelsOnline'
    BY <1>1, <1>3 DEF IInv, ActiveOnline, OneActive, SetupSlot, ChannelsOnline
  <1>6. RemovedChannel'
    BY <1>1, <1>2 DEF IInv, RemovedChannel
  <1>. QED  BY <1>4, <1>5, <1>6 DEF IInv

(* The thread takes its slot offline; no other active thread has the slot.   *)
LEMMA OfflinePreserves ==
    ASSUME IInv, NEW t \in Thread, Offline(t)
    PROVE  IInv'
  <1>. DEFINE s == thread[t].slot
  <1>1. /\ thread[t].pc = "removed"
        /\ thread' = [thread EXCEPT ![t].pc = "offline"]
        /\ client' = [client EXCEPT ![s].online = FALSE]
        /\ UNCHANGED <<channels, cur, server>>
    BY DEF Offline, server_vars
  <1>2. /\ thread'[t].pc = "offline"
        /\ \A u \in Thread \ {t} : thread'[u] = thread[u]
        /\ \A r \in Slot \ {s} : client'[r] = client[r]
        /\ s \in Slot
    BY <1>1 DEF IInv, TypeInv
  <1>3. \A u \in Thread : Active(u)' => u # t /\ Active(u) /\ thread'[u] = thread[u]
    BY <1>1, <1>2 DEF Active
  <1>4. Active(t)
    BY <1>1 DEF Active
  <1>5. \A u \in Thread : Active(u)' => thread[u].slot # s
    BY <1>3, <1>4 DEF IInv, OneActive
  <1>6. s \notin channels
    BY <1>1 DEF IInv, RemovedChannel
  <1>7. server = "setup" => cur # s
    BY <1>4 DEF IInv, SetupSlot
  <1>8. TypeInv'
    <2>1. "offline" \in PCs
      BY DEF PCs
    <2>2. thread' \in [Thread -> [pc : PCs, slot : Slot, mine : Conn \cup {NoConn}]]
      BY <1>1, <2>1, Typed, PcTyped
    <2>3. client' \in [Slot -> [online : BOOLEAN, conn : Conn \cup {NoConn},
                       state : {"init", "wait_data", "process", "disconnect"}]]
      BY <1>1, <1>2, Typed, OnlineTyped
    <2>. QED  BY <1>1, <2>2, <2>3 DEF IInv, TypeInv
  <1>9. ActiveOnline'
    BY <1>2, <1>3, <1>5 DEF IInv, TypeInv, ActiveOnline
  <1>10. OneActive'
    BY <1>3 DEF IInv, OneActive
  <1>11. RemovedChannel'
    BY <1>1, <1>2 DEF IInv, RemovedChannel
  <1>12. SetupSlot'
    BY <1>1, <1>2, <1>3, <1>7 DEF IInv, TypeInv, SetupSlot
  <1>13. ChannelsOnline'
    BY <1>1, <1>2, <1>6 DEF IInv, TypeInv, ChannelsOnline
  <1>. QED  BY <1>8, <1>9, <1>10, <1>11, <1>12, <1>13 DEF IInv

(* The last two steps of a thread, which may hit a slot in use again: they   *)
(* touch its connection only.                                                *)
LEMMA EndPreserves ==
    ASSUME IInv, NEW t \in Thread, Close(t) \/ End(t)
    PROVE  IInv'
  <1>1. /\ ~Active(t)
        /\ \/ thread' = [thread EXCEPT ![t].pc = "closing"]
           \/ thread' = [thread EXCEPT ![t] = NoThread]
        /\ \/ UNCHANGED client
           \/ client' = [client EXCEPT ![thread[t].slot].conn = NoConn]
        /\ UNCHANGED <<channels, cur, server>>
    BY DEF Close, End, server_vars, Active
  <1>2. \A r \in Slot : client'[r].online = client[r].online
    BY <1>1 DEF IInv, TypeInv
  <1>3. /\ thread'[t].pc \in {"closing", "none"}
        /\ \A u \in Thread \ {t} : thread'[u] = thread[u]
    BY <1>1 DEF IInv, TypeInv, NoThread
  <1>4. \A u \in Thread : Active(u)' => Active(u) /\ thread'[u] = thread[u]
    BY <1>3 DEF Active
  <1>5. TypeInv'
    <2>1. NoThread \in [pc : PCs, slot : Slot, mine : Conn \cup {NoConn}]
      BY TcpServerAssumption DEF NoThread, PCs, Slot
    <2>2. thread' \in [Thread -> [pc : PCs, slot : Slot, mine : Conn \cup {NoConn}]]
      <3>1. CASE thread' = [thread EXCEPT ![t].pc = "closing"]
        BY <3>1 DEF IInv, TypeInv, PCs
      <3>2. CASE thread' = [thread EXCEPT ![t] = NoThread]
        BY <2>1, <3>2 DEF IInv, TypeInv
      <3>. QED  BY <1>1, <3>1, <3>2
    <2>3. client' \in [Slot -> [online : BOOLEAN, conn : Conn \cup {NoConn},
                       state : {"init", "wait_data", "process", "disconnect"}]]
      BY <1>1 DEF IInv, TypeInv
    <2>. QED  BY <1>1, <2>2, <2>3 DEF IInv, TypeInv
  <1>6. ActiveOnline' /\ OneActive' /\ SetupSlot' /\ ChannelsOnline'
    BY <1>1, <1>2, <1>4
    DEF IInv, TypeInv, ActiveOnline, OneActive, SetupSlot, ChannelsOnline
  <1>7. RemovedChannel'
    BY <1>1, <1>3 DEF IInv, RemovedChannel
  <1>. QED  BY <1>5, <1>6, <1>7 DEF IInv

(* Every step preserves the invariant. *)
LEMMA NextPreserves ==
    ASSUME IInv, [Next]_vars
    PROVE  IInv'
  <1>1. CASE UNCHANGED vars
    BY <1>1, Elsewhere DEF vars
  <1>2. ASSUME NEW c \in Conn, Connect(c) \/ Ask(c) \/ Leave(c)
        PROVE  IInv'
    BY <1>2, Elsewhere DEF Connect, Ask, Leave, server_vars
  <1>3. CASE LinkUp \/ Create \/ Bind \/ Listen \/ Restart \/ Fail
    BY <1>3, Elsewhere DEF LinkUp, Create, Bind, Listen, Restart, Fail, ServerStep
  <1>4. ASSUME NEW c \in Conn, TooMany(c)
        PROVE  IInv'
    BY <1>4, Elsewhere DEF TooMany, server_vars
  <1>5. ASSUME NEW t \in Thread,
               \/ ClientInit(t) \/ Receive(t) \/ ReceiveFails(t) \/ LinkLost(t)
               \/ Copy(t) \/ Handle(t)
        PROVE  IInv'
    <2>1. Active(t) /\ UNCHANGED <<channels, cur, server>>
      BY <1>5 DEF ClientInit, Receive, ReceiveFails, LinkLost, Copy, Handle, At, Active,
                  server_vars
    <2>2. \E p \in {"run", "copied"} :
             UNCHANGED thread \/ thread' = [thread EXCEPT ![t].pc = p]
      BY <1>5 DEF ClientInit, Receive, ReceiveFails, LinkLost, Copy, Handle
    <2>3. \/ UNCHANGED client
          \/ \E x \in {"wait_data", "process", "disconnect"} :
                client' = [client EXCEPT ![thread[t].slot].state = x]
      BY <1>5 DEF ClientInit, Receive, ReceiveFails, LinkLost, Copy, Handle
    <2>. QED  BY <2>1, <2>2, <2>3, ThreadGoesOn
  <1>. QED
    BY <1>1, <1>2, <1>3, <1>4, <1>5, AcceptPreserves, SetupPreserves,
       RemovePreserves, OfflinePreserves, EndPreserves
    DEF Next, ServerTask, ClientThread

(* The invariant holds in every reachable state. *)
THEOREM Invariance == Spec => []IInv
  <1>1. IInv /\ [Next]_vars => IInv'
    BY NextPreserves
  <1>. QED  BY InitHolds, <1>1, PTL DEF Spec

(* comm_channel_add and comm_channel_remove keep the group "TCP" in step     *)
(* with the slots, although slots are used again early.                      *)
THEOREM ChannelsInStep == Spec => []ChannelsOnline
  <1>1. IInv => ChannelsOnline
    BY DEF IInv
  <1>. QED  BY Invariance, <1>1, PTL

-----------------------------------------------------------------------------
(***************************************************************************)
(* What holds as long as calm does: no connection comes in while a client  *)
(* leaves, and one client at a time has a command under way.               *)
(***************************************************************************)
Clients == [online : BOOLEAN, conn : Conn \cup {NoConn},
            state : {"init", "wait_data", "process", "disconnect"}]
Threads == [pc : PCs, slot : Slot, mine : Conn \cup {NoConn}]

Types ==
    /\ conn \in [Conn -> {"free", "backlog", "open", "closed"}]
    /\ gone \subseteq Conn /\ waiting \subseteq Conn /\ asked \subseteq Conn
    /\ client \in [Slot -> Clients]
    /\ thread \in [Thread -> Threads]
    /\ server \in {"wait_link", "create", "bind", "listen", "accept", "setup", "restart"}
    /\ cur \in Slot /\ listener \in BOOLEAN /\ client_count \in 0..MaxClients
    /\ channels \subseteq Slot
    /\ rx_buffer \in Conn \cup {NoConn} /\ port \in Slot
    /\ fails \in 0..MaxFail /\ calm \in BOOLEAN

Exists(t) == thread[t].pc # "none"
Held(s) == client[s].conn # NoConn
Ending(t) == thread[t].pc \in {"offline", "closing"}

(* Coming and leaving exclude each other. *)
Apart == ~(Coming /\ Leaving)

OneThread ==
    \A t, u \in Thread : Exists(t) /\ Exists(u) /\ thread[t].slot = thread[u].slot => t = u

(* The connections of the slots are those that exist, each in one slot. *)
Owned ==
    /\ \A s \in Slot : Held(s) => conn[client[s].conn] \in {"open", "closed"}
    /\ \A s, r \in Slot : Held(s) /\ client[s].conn = client[r].conn => s = r
    /\ \A c \in Conn : conn[c] \in {"open", "closed"} => \E s \in Slot : client[s].conn = c

(* A slot holds a connection as long as it is online, and after that until   *)
(* its thread ends.                                                          *)
Keeps ==
    /\ \A s \in Slot : client[s].online => Held(s)
    /\ \A s \in Slot : Held(s) /\ ~client[s].online =>
                          \E t \in Thread : thread[t].slot = s /\ Ending(t)
    /\ \A t \in Thread : Ending(t) => ~client[thread[t].slot].online
    /\ \A t \in Thread : Exists(t) => Held(thread[t].slot)

(* Only a thread that is about to end has closed its connection. *)
ClosedLast ==
    \A c \in Conn : conn[c] = "closed" =>
        \E t \in Thread : thread[t].pc = "closing" /\ client[thread[t].slot].conn = c

OneCommand ==
    /\ \A c, d \in asked : c = d
    /\ \A s, r \in Slot : client[s].state = "process" /\ client[r].state = "process" => s = r
    /\ \A c \in asked, s \in Slot : client[s].state # "process"

InBuffer ==
    \A t \in Thread : thread[t].pc = "copied" =>
        /\ client[thread[t].slot].state = "process"
        /\ rx_buffer = client[thread[t].slot].conn /\ port = thread[t].slot

StillWaiting == asked \subseteq waiting \cup gone

Slots == SlotIsFree /\ OneThread /\ Owned /\ Keeps /\ ClosedLast
Commands == OneCommand /\ InBuffer /\ StillWaiting

Quiet == calm => Apart /\ Slots /\ Commands

(* An update of a field, entry by entry. *)
LEMMA ConnUpdate ==
    ASSUME NEW f \in [Slot -> Clients], NEW s \in Slot, NEW c \in Conn \cup {NoConn},
           NEW g, g = [f EXCEPT ![s].conn = c]
    PROVE  /\ g \in [Slot -> Clients]
           /\ g[s].conn = c /\ g[s].online = f[s].online /\ g[s].state = f[s].state
           /\ \A r \in Slot \ {s} : g[r] = f[r]
  BY DEF Clients

LEMMA NoThreadTyped == NoThread \in Threads
  BY TcpServerAssumption DEF NoThread, Threads, PCs, Slot

(* What is known of a slot and of a thread. *)
LEMMA Fields ==
    ASSUME Types
    PROVE  /\ \A s \in Slot : /\ client[s].conn \in Conn \cup {NoConn}
                              /\ client[s].online \in BOOLEAN
                              /\ client[s].state \in {"init", "wait_data", "process", "disconnect"}
           /\ \A t \in Thread : /\ thread[t].slot \in Slot /\ thread[t].pc \in PCs
                                /\ thread[t].mine \in Conn \cup {NoConn}
  BY DEF Types, Clients, Threads

(* It holds before the first client. *)
LEMMA InitQuiet == Init => Types /\ Quiet
  <1>. SUFFICES ASSUME Init PROVE Types /\ Quiet
    OBVIOUS
  <1>1. 1 \in Slot /\ 0 \in 0..MaxClients /\ 0 \in 0..MaxFail
    BY TcpServerAssumption DEF Slot
  <1>2. /\ \A s \in Slot : client[s].conn = NoConn /\ client[s].online = FALSE
                           /\ client[s].state = "init"
        /\ \A t \in Thread : thread[t].pc = "none" /\ thread[t].slot = 1
        /\ \A c \in Conn : conn[c] = "free"
    BY DEF Init, NoThread
  <1>3. client \in [Slot -> Clients]
    BY DEF Init, Clients
  <1>4. thread \in [Thread -> Threads]
    BY NoThreadTyped DEF Init
  <1>5. Types
    BY <1>1, <1>3, <1>4 DEF Init, Types
  <1>6. Apart
    BY <1>2 DEF Init, Apart, Coming
  <1>7. Slots
    BY <1>2 DEF Slots, SlotIsFree, OneThread, Owned, Keeps, ClosedLast, Exists, Held, Ending
  <1>8. Commands
    BY <1>2 DEF Init, Commands, OneCommand, InBuffer, StillWaiting
  <1>. QED  BY <1>5, <1>6, <1>7, <1>8 DEF Quiet

(* Leaving and Departing, where slots and threads stay as they are. *)
LEMMA SameDeparting ==
    ASSUME UNCHANGED <<client, thread>>
    PROVE  Departing' = Departing
  BY DEF Departing

LEMMA SameSlots ==
    ASSUME UNCHANGED <<client, thread, conn>>
    PROVE  Slots' = Slots
  BY DEF Slots, SlotIsFree, OneThread, Owned, Keeps, ClosedLast, Exists, Held, Ending

(* The network. *)
LEMMA ConnectQuiet ==
    ASSUME Types, Quiet, NEW c \in Conn, Connect(c)
    PROVE  Types' /\ Quiet'
  <1>1. /\ conn[c] = "free" /\ conn' = [conn EXCEPT ![c] = "backlog"]
        /\ calm' = (calm /\ ~Leaving)
        /\ UNCHANGED <<gone, asked, waiting, server, listener, cur, client_count, fails,
                       client, thread, channels, rx_buffer, port>>
    BY DEF Connect, server_vars, buffer_vars
  <1>2. Types'
    BY <1>1 DEF Types
  <1>3. SUFFICES ASSUME calm' PROVE Apart' /\ Slots' /\ Commands'
    BY <1>2 DEF Quiet
  <1>4. calm /\ ~Leaving /\ Apart /\ Slots /\ Commands
    BY <1>1, <1>3 DEF Quiet
  <1>5. Apart'
    BY <1>1, <1>4, SameDeparting DEF Apart, Leaving
  <1>6. /\ \A d \in Conn \ {c} : conn'[d] = conn[d]
        /\ conn'[c] = "backlog"
    BY <1>1 DEF Types
  <1>7. Slots'
    <2>1. SlotIsFree' /\ OneThread' /\ Keeps'
      BY <1>1, <1>4 DEF Slots, SlotIsFree, OneThread, Keeps, Exists, Held, Ending
    <2>2. Owned'
      BY <1>1, <1>4, <1>6, Fields DEF Slots, Owned, Held
    <2>3. ClosedLast'
      BY <1>1, <1>4, <1>6 DEF Slots, ClosedLast
    <2>. QED  BY <2>1, <2>2, <2>3 DEF Slots
  <1>8. Commands'
    BY <1>1, <1>4 DEF Commands, OneCommand, InBuffer, StillWaiting
  <1>. QED  BY <1>5, <1>7, <1>8

LEMMA AskQuiet ==
    ASSUME Types, Quiet, NEW c \in Conn, Ask(c)
    PROVE  Types' /\ Quiet'
  <1>1. /\ calm' = (calm /\ ~UnderWay)
        /\ asked' = asked \cup {c} /\ waiting' = waiting \cup {c}
        /\ UNCHANGED <<conn, gone, server, listener, cur, client_count, fails,
                       client, thread, channels, rx_buffer, port>>
    BY DEF Ask, server_vars, buffer_vars
  <1>2. Types'
    BY <1>1 DEF Types
  <1>3. SUFFICES ASSUME calm' PROVE Apart' /\ Slots' /\ Commands'
    BY <1>2 DEF Quiet
  <1>4. calm /\ ~UnderWay /\ Apart /\ Slots /\ Commands
    BY <1>1, <1>3 DEF Quiet
  <1>5. Apart'
    BY <1>1, <1>4, SameDeparting DEF Apart, Leaving, Coming
  <1>6. Slots'
    BY <1>1, <1>4, SameSlots
  <1>7. asked' = {c} /\ \A s \in Slot : client[s].state # "process"
    BY <1>1, <1>4 DEF UnderWay
  <1>8. Commands'
    BY <1>1, <1>4, <1>7 DEF Commands, OneCommand, InBuffer, StillWaiting
  <1>. QED  BY <1>5, <1>6, <1>8

LEMMA LeaveQuiet ==
    ASSUME Types, Quiet, NEW c \in Conn, Leave(c)
    PROVE  Types' /\ Quiet'
  <1>1. /\ calm' = (calm /\ ~Coming)
        /\ gone' = gone \cup {c} /\ waiting' = waiting \ {c}
        /\ UNCHANGED <<conn, asked, server, listener, cur, client_count, fails,
                       client, thread, channels, rx_buffer, port>>
    BY DEF Leave, server_vars, buffer_vars
  <1>2. Types'
    BY <1>1 DEF Types
  <1>3. SUFFICES ASSUME calm' PROVE Apart' /\ Slots' /\ Commands'
    BY <1>2 DEF Quiet
  <1>4. calm /\ ~Coming /\ Slots /\ Commands
    BY <1>1, <1>3 DEF Quiet
  <1>5. Apart'
    BY <1>1, <1>4 DEF Apart, Coming
  <1>6. Slots'
    BY <1>1, <1>4, SameSlots
  <1>7. Commands'
    BY <1>1, <1>4 DEF Commands, OneCommand, InBuffer, StillWaiting
  <1>. QED  BY <1>5, <1>6, <1>7

(* server_task before it accepts, and after a failure. *)
LEMMA ServerQuiet ==
    ASSUME Types, Quiet, LinkUp \/ Create \/ Bind \/ Listen \/ Restart \/ Fail
    PROVE  Types' /\ Quiet'
  <1>1. /\ server' \in {"create", "bind", "listen", "accept", "restart"}
        /\ UNCHANGED <<conn, gone, asked, waiting, cur, client, thread, client_count,
                       channels, rx_buffer, port, calm>>
    BY DEF LinkUp, Create, Bind, Listen, Restart, Fail, ServerStep, net_vars, buffer_vars
  <1>2. listener' \in BOOLEAN /\ fails' \in 0..MaxFail
    <2>1. CASE Fail
      BY <2>1, TcpServerAssumption DEF Fail, ServerStep, Types
    <2>2. CASE ~Fail
      BY <2>2 DEF LinkUp, Create, Bind, Listen, Restart, Types
    <2>. QED  BY <2>1, <2>2
  <1>3. Types'
    BY <1>1, <1>2 DEF Types
  <1>4. Apart => Apart'
    BY <1>1, SameDeparting DEF Apart, Coming, Leaving
  <1>5. Slots' = Slots
    BY <1>1, SameSlots
  <1>6. Commands' = Commands
    BY <1>1 DEF Commands, OneCommand, InBuffer, StillWaiting
  <1>. QED  BY <1>1, <1>3, <1>4, <1>5, <1>6 DEF Quiet

(* server_task accepts: nobody is leaving, so every thread is active and     *)
(* its slot online.                                                          *)
LEMMA NoneEnding ==
    ASSUME Types, IInv, Apart, Coming
    PROVE  \A t \in Thread : Exists(t) => Active(t) /\ client[thread[t].slot].online
  <1>1. ~Departing
    BY DEF Apart, Leaving
  <1>2. \A t \in Thread : Exists(t) => Active(t)
    BY <1>1, Fields DEF Departing, Exists, Active, PCs
  <1>. QED  BY <1>2 DEF IInv, ActiveOnline

LEMMA AcceptQuiet ==
    ASSUME Types, IInv, Quiet, NEW c \in Conn, Accept(c)
    PROVE  Types' /\ Quiet'
  <1>1. PICK s \in Slot :
           /\ ~client[s].online
           /\ client' = [client EXCEPT ![s].conn = c, ![s].online = TRUE]
           /\ cur' = s
    BY DEF Accept, FreeSlot
  <1>2. /\ conn[c] = "backlog" /\ conn' = [conn EXCEPT ![c] = "open"]
        /\ server' = "setup"
        /\ UNCHANGED <<gone, asked, waiting, listener, thread, client_count, channels,
                       rx_buffer, port, fails, calm>>
    BY DEF Accept, buffer_vars
  <1>3. /\ client' \in [Slot -> Clients]
        /\ client'[s].conn = c /\ client'[s].online /\ client'[s].state = client[s].state
        /\ \A r \in Slot \ {s} : client'[r] = client[r]
    <2>. DEFINE g == [client EXCEPT ![s].conn = c]
    <2>1. client \in [Slot -> Clients] /\ c \in Conn \cup {NoConn}
          /\ g = [client EXCEPT ![s].conn = c]
      BY DEF Types
    <2>3. client' = [g EXCEPT ![s].online = TRUE]
      BY <1>1
    <2>. HIDE DEF g
    <2>2. /\ g \in [Slot -> Clients]
          /\ g[s].conn = c /\ g[s].state = client[s].state
          /\ \A r \in Slot \ {s} : g[r] = client[r]
      BY <2>1, ConnUpdate
    <2>. QED  BY <2>2, <2>3 DEF Clients
  <1>4. Types'
    BY <1>1, <1>2, <1>3 DEF Types
  <1>5. SUFFICES ASSUME calm' PROVE Apart' /\ Slots' /\ Commands'
    BY <1>4 DEF Quiet
  <1>6. Coming /\ Apart /\ Slots /\ Commands
    BY <1>2, <1>5 DEF Quiet, Coming
  <1>7. \A t \in Thread : Exists(t) => Active(t) /\ client[thread[t].slot].online
    BY <1>6, NoneEnding
  <1>8. \A t \in Thread : Exists(t) => thread[t].slot # s /\ client'[thread[t].slot] = client[thread[t].slot]
    BY <1>1, <1>3, <1>7, Fields
  <1>9. ~Held(s)
    BY <1>1, <1>6, <1>7 DEF Slots, Keeps, Ending, Exists, Active
  <1>10. /\ \A d \in Conn \ {c} : conn'[d] = conn[d]
         /\ conn'[c] = "open"
    BY <1>2 DEF Types
  <1>11. \A r \in Slot : client[r].conn # c
    BY <1>2, <1>6, TcpServerAssumption DEF Slots, Owned, Held
  <1>12. Apart'
    <2>1. ~Departing /\ gone = {}
      BY <1>6 DEF Apart, Leaving
    <2>2. ~Departing'
      BY <1>2, <1>8, <2>1 DEF Departing, Exists
    <2>. QED  BY <1>2, <2>1, <2>2 DEF Apart, Leaving
  <1>13. SlotIsFree' /\ OneThread'
    BY <1>2, <1>6, <1>8 DEF Slots, SlotIsFree, OneThread, Exists
  <1>14. Owned'
    <2>1. \A r \in Slot : Held(r)' => conn'[client'[r].conn] \in {"open", "closed"}
      BY <1>3, <1>6, <1>10, <1>11, Fields DEF Slots, Owned, Held
    <2>2. \A q, r \in Slot : Held(q)' /\ client'[q].conn = client'[r].conn => q = r
      BY <1>3, <1>6, <1>11 DEF Slots, Owned, Held
    <2>3. \A d \in Conn : conn'[d] \in {"open", "closed"} => \E r \in Slot : client'[r].conn = d
      BY <1>3, <1>6, <1>9, <1>10, TcpServerAssumption DEF Slots, Owned, Held
    <2>. QED  BY <2>1, <2>2, <2>3 DEF Owned
  <1>15. Keeps'
    <2>1. \A r \in Slot : client'[r].online => Held(r)'
      BY <1>3, <1>6, TcpServerAssumption DEF Slots, Keeps, Held
    <2>2. \A t \in Thread : ~Ending(t)'
      BY <1>2, <1>7 DEF Ending, Exists, Active
    <2>3. \A r \in Slot : Held(r)' => client'[r].online
      BY <1>3, <1>6, <1>7 DEF Slots, Keeps, Held, Ending, Exists, Active
    <2>4. \A t \in Thread : Exists(t)' => Held(thread[t].slot)'
      BY <1>2, <1>6, <1>8 DEF Slots, Keeps, Held, Exists
    <2>. QED  BY <1>2, <2>1, <2>2, <2>3, <2>4 DEF Keeps
  <1>16. ClosedLast'
    BY <1>2, <1>6, <1>8, <1>10 DEF Slots, ClosedLast, Exists
  <1>17. Commands'
    <2>1. \A r \in Slot : client'[r].state = client[r].state
      BY <1>3
    <2>2. OneCommand'
      BY <1>2, <1>6, <2>1 DEF Commands, OneCommand
    <2>3. InBuffer'
      BY <1>2, <1>6, <1>8 DEF Commands, InBuffer, Exists
    <2>. QED  BY <1>2, <1>6, <2>2, <2>3 DEF Commands, StillWaiting
  <1>. QED  BY <1>12, <1>13, <1>14, <1>15, <1>16, <1>17 DEF Slots

LEMMA TooManyQuiet ==
    ASSUME Types, Quiet, NEW c \in Conn, TooMany(c)
    PROVE  Types' /\ Quiet'
  <1>1. /\ conn[c] = "backlog" /\ conn' = [conn EXCEPT ![c] = "free"]
        /\ gone' = gone \ {c} /\ asked' = asked \ {c} /\ waiting' = waiting \ {c}
        /\ UNCHANGED <<server, listener, cur, client_count, fails, client, thread,
                       channels, rx_buffer, port, calm>>
    BY DEF TooMany, Delete, server_vars, buffer_vars
  <1>2. Types'
    BY <1>1 DEF Types
  <1>3. SUFFICES ASSUME calm' PROVE Apart' /\ Slots' /\ Commands'
    BY <1>2 DEF Quiet
  <1>4. calm /\ Apart /\ Slots /\ Commands
    BY <1>1, <1>3 DEF Quiet
  <1>5. /\ \A d \in Conn \ {c} : conn'[d] = conn[d]
        /\ conn'[c] = "free"
    BY <1>1 DEF Types
  <1>6. Apart'
    BY <1>1, <1>4, <1>5, SameDeparting DEF Apart, Leaving, Coming
  <1>7. SlotIsFree' /\ OneThread' /\ Keeps'
    BY <1>1, <1>4 DEF Slots, SlotIsFree, OneThread, Keeps, Exists, Held, Ending
  <1>8. Owned'
    BY <1>1, <1>4, <1>5, Fields DEF Slots, Owned, Held
  <1>9. ClosedLast'
    BY <1>1, <1>4, <1>5 DEF Slots, ClosedLast
  <1>10. Commands'
    BY <1>1, <1>4 DEF Commands, OneCommand, InBuffer, StillWaiting
  <1>. QED  BY <1>6, <1>7, <1>8, <1>9, <1>10 DEF Slots

(* server_task goes on with the slot it has taken. *)
LEMMA SetupQuiet ==
    ASSUME Types, IInv, Quiet, Setup
    PROVE  Types' /\ Quiet'
  <1>1. /\ server = "setup" /\ server' = "accept"
        /\ client' = [client EXCEPT ![cur].state = "init"]
        /\ channels' \subseteq channels \cup {cur}
        /\ UNCHANGED <<conn, gone, asked, waiting, listener, cur, rx_buffer, port, calm>>
    BY DEF Setup, net_vars, buffer_vars
  <1>2. \/ UNCHANGED thread
        \/ \E t \in Thread :
              /\ thread[t].pc = "none"
              /\ thread' = [thread EXCEPT ![t] = [pc |-> "run", slot |-> cur,
                                                  mine |-> client[cur].conn]]
    BY DEF Setup
  <1>3. cur \in Slot
    BY DEF Types
  <1>4. /\ client' \in [Slot -> Clients]
        /\ client'[cur].state = "init" /\ client'[cur].conn = client[cur].conn
        /\ client'[cur].online = client[cur].online
        /\ \A r \in Slot \ {cur} : client'[r] = client[r]
    BY <1>1, <1>3 DEF Types, Clients
  <1>5. \A r \in Slot : /\ client'[r].conn = client[r].conn
                        /\ client'[r].online = client[r].online
                        /\ client'[r].state = "init" \/ client'[r].state = client[r].state
    BY <1>4
  <1>. DEFINE New(u) == /\ thread[u].pc = "none" /\ thread'[u].pc = "run"
                        /\ thread'[u].slot = cur /\ thread'[u].mine = client[cur].conn
  <1>6. /\ thread' \in [Thread -> Threads]
        /\ \A u \in Thread : thread'[u] = thread[u] \/ New(u)
        /\ \A u, v \in Thread : New(u) /\ New(v) => u = v
    <2>1. CASE UNCHANGED thread
      BY <2>1 DEF Types
    <2>2. ASSUME NEW t \in Thread, thread[t].pc = "none",
                 thread' = [thread EXCEPT ![t] = [pc |-> "run", slot |-> cur,
                                                  mine |-> client[cur].conn]]
          PROVE  /\ thread' \in [Thread -> Threads]
                 /\ \A u \in Thread : thread'[u] = thread[u] \/ New(u)
                 /\ \A u, v \in Thread : New(u) /\ New(v) => u = v
      <3>1. [pc |-> "run", slot |-> cur, mine |-> client[cur].conn] \in Threads
        BY <1>3, Fields DEF Threads, PCs
      <3>2. thread' \in [Thread -> Threads]
        BY <2>2, <3>1 DEF Types
      <3>3. New(t) /\ \A u \in Thread \ {t} : thread'[u] = thread[u]
        BY <2>2 DEF Types
      <3>. QED  BY <3>2, <3>3
    <2>. QED  BY <1>2, <2>1, <2>2
  <1>7. fails' \in 0..MaxFail /\ client_count' \in 0..MaxClients
    BY TcpServerAssumption DEF Setup, CountUp, Types
  <1>8. Types'
    BY <1>1, <1>3, <1>4, <1>6, <1>7 DEF Types
  <1>9. SUFFICES ASSUME calm' PROVE Apart' /\ Slots' /\ Commands'
    BY <1>8 DEF Quiet
  <1>10. Coming /\ Apart /\ Slots /\ Commands
    BY <1>1, <1>9 DEF Quiet, Coming
  <1>11. \A u \in Thread : Exists(u) => Active(u) /\ thread[u].slot # cur
    BY <1>1, <1>10, NoneEnding DEF IInv, SetupSlot
  <1>12. client[cur].online
    BY <1>1 DEF IInv, SetupSlot
  <1>13. Apart'
    <2>1. ~Departing /\ gone = {}
      BY <1>10 DEF Apart, Leaving
    <2>2. ASSUME NEW u \in Thread
          PROVE  ~ \/ thread'[u].pc \in {"removed", "offline", "closing"}
                   \/ thread'[u].pc = "run" /\ client'[thread'[u].slot].state = "disconnect"
      <3>1. CASE New(u)
        BY <1>4, <3>1
      <3>2. CASE thread'[u] = thread[u]
        <4>1. thread[u].slot \in Slot
          BY Fields
        <4>. QED  BY <1>5, <2>1, <3>2, <4>1 DEF Departing
      <3>. QED  BY <1>6, <3>1, <3>2
    <2>3. ~Departing'
      BY <2>2 DEF Departing
    <2>. QED  BY <1>1, <2>1, <2>3 DEF Apart, Leaving
  <1>14. \A u \in Thread : Exists(u)' => (thread'[u] = thread[u] /\ Exists(u)) \/ New(u)
    BY <1>6 DEF Exists
  <1>15. SlotIsFree'
    BY <1>3, <1>5, <1>10, <1>14, Fields DEF Slots, SlotIsFree, Exists
  <1>16. OneThread'
    BY <1>6, <1>10, <1>11, <1>14 DEF Slots, OneThread, Exists
  <1>17. Owned'
    BY <1>1, <1>5, <1>10 DEF Slots, Owned, Held
  <1>18. \A u \in Thread : (Ending(u)' <=> Ending(u)) /\ ~Ending(u)
    BY <1>6, <1>11 DEF Ending, Exists, Active
  <1>19. Keeps'
    <2>1. \A r \in Slot : Held(r)' <=> Held(r)
      BY <1>5 DEF Held
    <2>2. \A u \in Thread : Exists(u)' => Held(thread[u].slot)'
      BY <1>3, <1>4, <1>10, <1>12, <1>14, <2>1, Fields DEF Slots, Keeps, Held
    <2>. QED  BY <1>5, <1>10, <1>18, <2>1, <2>2 DEF Slots, Keeps
  <1>20. ClosedLast'
    BY <1>1, <1>10, <1>18 DEF Slots, ClosedLast, Ending
  <1>21. OneCommand'
    BY <1>1, <1>5, <1>10 DEF Commands, OneCommand
  <1>22. InBuffer'
    <2>1. ASSUME NEW u \in Thread, thread'[u].pc = "copied"
          PROVE  thread'[u] = thread[u] /\ client'[thread[u].slot] = client[thread[u].slot]
      BY <1>4, <1>6, <1>11, <2>1, Fields DEF Exists
    <2>2. rx_buffer' = rx_buffer /\ port' = port /\ InBuffer
      BY <1>1, <1>10 DEF Commands
    <2>3. ASSUME NEW u \in Thread, thread'[u].pc = "copied"
          PROVE  /\ client'[thread'[u].slot].state = "process"
                 /\ rx_buffer' = client'[thread'[u].slot].conn /\ port' = thread'[u].slot
      BY <2>1, <2>2, <2>3 DEF InBuffer
    <2>. QED  BY <2>3 DEF InBuffer
  <1>23. Commands'
    BY <1>1, <1>10, <1>21, <1>22 DEF Commands, StillWaiting
  <1>. QED  BY <1>13, <1>15, <1>16, <1>17, <1>19, <1>20, <1>23 DEF Slots

(* A thread that serves its client: the slots keep what they have. *)
LEMMA ServingSlots ==
    ASSUME Types, Slots, NEW t \in Thread, Active(t), NEW p \in {"run", "copied", "removed"},
           thread' \in [Thread -> Threads],
           \A u \in Thread \ {t} : thread'[u] = thread[u],
           thread'[t].slot = thread[t].slot /\ thread'[t].mine = thread[t].mine,
           thread'[t].pc = p,
           \A r \in Slot : client'[r].conn = client[r].conn /\ client'[r].online = client[r].online,
           UNCHANGED conn
    PROVE  Slots'
  <1>1. \A u \in Thread : /\ thread'[u].slot = thread[u].slot /\ thread[u].slot \in Slot
                          /\ thread'[u].mine = thread[u].mine
                          /\ Exists(u)' <=> Exists(u)
                          /\ Ending(u)' <=> Ending(u)
                          /\ thread'[u].pc = "closing" <=> thread[u].pc = "closing"
    BY Fields DEF Exists, Ending, Active
  <1>2. \A r \in Slot : Held(r)' <=> Held(r)
    BY DEF Held
  <1>3. SlotIsFree' /\ OneThread'
    BY <1>1 DEF Slots, SlotIsFree, OneThread, Exists
  <1>4. Owned'
    BY <1>2 DEF Slots, Owned
  <1>5. \A u \in Thread : Held(thread[u].slot)' <=> Held(thread[u].slot)
    BY <1>1 DEF Held
  <1>6. Keeps'
    BY <1>1, <1>2, <1>5 DEF Slots, Keeps
  <1>7. ClosedLast'
    BY <1>1 DEF Slots, ClosedLast
  <1>. QED  BY <1>3, <1>4, <1>6, <1>7 DEF Slots

LEMMA StateFacts ==
    ASSUME Types, NEW t \in Thread,
           NEW x \in {"init", "wait_data", "process", "disconnect"},
           client' = [client EXCEPT ![thread[t].slot].state = x]
    PROVE  /\ thread[t].slot \in Slot
           /\ client' \in [Slot -> Clients]
           /\ client'[thread[t].slot].state = x
           /\ \A r \in Slot : /\ client'[r].conn = client[r].conn
                              /\ client'[r].online = client[r].online
                              /\ r # thread[t].slot => client'[r].state = client[r].state
  <1>1. thread[t].slot \in Slot
    BY Fields
  <1>. QED  BY <1>1 DEF Types, Clients

LEMMA PcFacts ==
    ASSUME Types, NEW t \in Thread, NEW p \in PCs, thread' = [thread EXCEPT ![t].pc = p]
    PROVE  /\ thread' \in [Thread -> Threads]
           /\ thread'[t].pc = p /\ thread'[t].slot = thread[t].slot
           /\ thread'[t].mine = thread[t].mine
           /\ \A u \in Thread \ {t} : thread'[u] = thread[u]
  BY DEF Types, Threads

(* A thread that goes on serving its client does not begin to leave. *)
LEMMA ServingApart ==
    ASSUME Types, Apart, NEW t \in Thread,
           \A u \in Thread \ {t} : thread'[u] = thread[u],
           thread'[t].slot = thread[t].slot, thread'[t].pc \in {"run", "copied"},
           client'[thread[t].slot].state # "disconnect",
           \A r \in Slot : r # thread[t].slot => client'[r].state = client[r].state,
           UNCHANGED <<conn, gone, server>>
    PROVE  Apart'
  <1>1. ASSUME NEW u \in Thread,
               \/ thread'[u].pc \in {"removed", "offline", "closing"}
               \/ thread'[u].pc = "run" /\ client'[thread'[u].slot].state = "disconnect"
        PROVE  Departing
    <2>1. u # t
      BY <1>1
    <2>2. thread'[u] = thread[u] /\ thread[u].slot \in Slot
      BY <2>1, Fields
    <2>3. CASE thread[u].pc \in {"removed", "offline", "closing"}
      BY <2>3 DEF Departing
    <2>4. CASE thread[u].pc = "run" /\ client'[thread[u].slot].state = "disconnect"
      <3>1. client[thread[u].slot].state = "disconnect"
        BY <2>2, <2>4
      <3>. QED  BY <2>4, <3>1 DEF Departing
    <2>. QED  BY <1>1, <2>2, <2>3, <2>4
  <1>2. Departing' => Departing
    BY <1>1 DEF Departing
  <1>. QED  BY <1>2 DEF Apart, Leaving, Coming

(* The thread waits for data, or has got a command or an error. *)
LEMMA WaitQuiet ==
    ASSUME Types, IInv, Quiet, NEW t \in Thread,
           ClientInit(t) \/ Receive(t) \/ ReceiveFails(t) \/ LinkLost(t)
    PROVE  Types' /\ Quiet'
  <1>. DEFINE s == thread[t].slot
              c == client[s].conn
  <1>1. PICK x \in {"wait_data", "process", "disconnect"} :
           /\ client' = [client EXCEPT ![s].state = x]
           /\ \/ x = "wait_data" /\ UNCHANGED <<asked, calm>>
              \/ x = "process" /\ c \in asked /\ asked' = asked \ {c} /\ UNCHANGED calm
              \/ /\ x = "disconnect" /\ UNCHANGED asked
                 /\ calm' => calm /\ (Broken(c) \/ ~Coming)
    <2>. DEFINE P(x) ==
           /\ client' = [client EXCEPT ![s].state = x]
           /\ \/ x = "wait_data" /\ UNCHANGED <<asked, calm>>
              \/ x = "process" /\ c \in asked /\ asked' = asked \ {c} /\ UNCHANGED calm
              \/ /\ x = "disconnect" /\ UNCHANGED asked
                 /\ calm' => calm /\ (Broken(c) \/ ~Coming)
    <2>1. CASE ClientInit(t)
      <3>1. P("wait_data")
        BY <2>1 DEF ClientInit, net_vars
      <3>. QED  BY <3>1
    <2>2. CASE Receive(t)
      <3>1. P("process")
        BY <2>2 DEF Receive
      <3>. QED  BY <3>1
    <2>3. CASE ReceiveFails(t)
      <3>1. P("disconnect")
        BY <2>3 DEF ReceiveFails, net_vars
      <3>. QED  BY <3>1
    <2>4. CASE LinkLost(t)
      <3>1. calm' => calm /\ ~Coming
        BY <2>4 DEF LinkLost
      <3>2. P("disconnect")
        BY <2>4, <3>1 DEF LinkLost, net_vars
      <3>. QED  BY <3>2
    <2>. QED  BY <2>1, <2>2, <2>3, <2>4
  <1>2. /\ thread[t].pc = "run"
        /\ UNCHANGED <<conn, gone, waiting, server, listener, cur, client_count, fails,
                       thread, channels, rx_buffer, port>>
    BY DEF ClientInit, Receive, ReceiveFails, LinkLost, At, net_vars, server_vars, buffer_vars
  <1>3. /\ s \in Slot /\ client' \in [Slot -> Clients] /\ client'[s].state = x
        /\ \A r \in Slot : /\ client'[r].conn = client[r].conn
                           /\ client'[r].online = client[r].online
                           /\ r # s => client'[r].state = client[r].state
    BY <1>1, StateFacts
  <1>4. asked' \subseteq Conn /\ calm' \in BOOLEAN
    BY DEF ClientInit, Receive, ReceiveFails, LinkLost, net_vars, Types
  <1>5. Types'
    BY <1>2, <1>3, <1>4 DEF Types
  <1>6. SUFFICES ASSUME calm' PROVE Apart' /\ Slots' /\ Commands'
    BY <1>5 DEF Quiet
  <1>7. calm /\ Apart /\ Slots /\ Commands
    BY <1>1, <1>6 DEF Quiet
  <1>8. Slots'
    <2>1. Active(t) /\ thread' \in [Thread -> Threads]
      BY <1>2, <1>5 DEF Active, Types
    <2>. QED  BY <1>2, <1>3, <1>7, <2>1, ServingSlots
  <1>9. Apart'
    <2>1. CASE x # "disconnect"
      BY <1>2, <1>3, <1>7, <2>1, ServingApart
    <2>2. CASE x = "disconnect"
      <3>1. client[s].online
        BY <1>2 DEF IInv, ActiveOnline, Active
      <3>2. c # NoConn
        BY <1>3, <1>7, <3>1 DEF Slots, Keeps, Held
      <3>3. ASSUME c \in Conn, conn[c] = "closed" PROVE FALSE
        <4>1. PICK u \in Thread : thread[u].pc = "closing" /\ client[thread[u].slot].conn = c
          BY <1>7, <3>3 DEF Slots, ClosedLast
        <4>2. thread[u].slot = s
          BY <1>3, <1>7, <3>2, <4>1, Fields DEF Slots, Owned, Held
        <4>. QED  BY <1>2, <1>7, <4>1, <4>2 DEF Slots, OneThread, Exists
      <3>4. Broken(c) => gone # {}
        BY <3>2, <3>3 DEF Broken
      <3>5. ~Coming
        BY <1>1, <1>6, <1>7, <2>2, <3>4 DEF Apart, Leaving
      <3>. QED  BY <1>2, <3>5 DEF Apart, Coming
    <2>. QED  BY <2>1, <2>2
  <1>10. InBuffer'
    <2>1. ASSUME NEW u \in Thread, thread[u].pc = "copied"
          PROVE  thread[u].slot # s /\ thread[u].slot \in Slot
      <3>1. thread[u].slot \in Slot /\ u # t
        BY <1>2, <2>1, Fields
      <3>. QED  BY <1>2, <1>7, <2>1, <3>1 DEF Slots, OneThread, Exists
    <2>. QED  BY <1>2, <1>3, <1>7, <2>1 DEF Commands, InBuffer
  <1>11. OneCommand' /\ StillWaiting'
    <2>1. CASE x = "process"
      <3>1. c \in asked /\ asked' = {}
        BY <1>1, <1>7, <2>1 DEF Commands, OneCommand
      <3>2. \A r \in Slot : client'[r].state = "process" => r = s
        BY <1>3, <1>7, <3>1 DEF Commands, OneCommand
      <3>. QED  BY <3>1, <3>2 DEF OneCommand, StillWaiting
    <2>2. CASE x # "process"
      <3>1. asked' = asked
        BY <1>1, <2>2
      <3>2. \A r \in Slot : client'[r].state = "process" => client[r].state = "process"
        BY <1>3, <2>2
      <3>. QED  BY <1>2, <1>7, <3>1, <3>2 DEF Commands, OneCommand, StillWaiting
    <2>. QED  BY <2>1, <2>2
  <1>. QED  BY <1>8, <1>9, <1>10, <1>11 DEF Commands

(* The thread whose command is under way is the only one that copies it. *)
LEMMA CopyQuiet ==
    ASSUME Types, IInv, Quiet, NEW t \in Thread, Copy(t)
    PROVE  Types' /\ Quiet'
  <1>. DEFINE s == thread[t].slot
  <1>1. /\ thread[t].pc = "run" /\ client[s].state = "process"
        /\ rx_buffer' = client[s].conn /\ port' = s
        /\ thread' = [thread EXCEPT ![t].pc = "copied"]
        /\ UNCHANGED <<conn, gone, asked, waiting, server, listener, cur, client_count,
                       fails, client, channels, calm>>
    BY DEF Copy, At, net_vars, server_vars
  <1>2. "copied" \in PCs /\ s \in Slot /\ client[s].conn \in Conn \cup {NoConn}
    BY Fields DEF PCs
  <1>3. /\ thread' \in [Thread -> Threads]
        /\ thread'[t].pc = "copied" /\ thread'[t].slot = s /\ thread'[t].mine = thread[t].mine
        /\ \A u \in Thread \ {t} : thread'[u] = thread[u]
    BY <1>1, <1>2, PcFacts
  <1>4. Types'
    BY <1>1, <1>2, <1>3 DEF Types
  <1>5. SUFFICES ASSUME calm' PROVE Apart' /\ Slots' /\ Commands'
    BY <1>4 DEF Quiet
  <1>6. calm /\ Apart /\ Slots /\ Commands
    BY <1>1, <1>5 DEF Quiet
  <1>7. Slots'
    BY <1>1, <1>3, <1>6, ServingSlots DEF Active
  <1>8. Apart'
    BY <1>1, <1>3, <1>6, ServingApart
  <1>9. \A u \in Thread : thread'[u].pc = "copied" => u = t
    <2>1. SUFFICES ASSUME NEW u \in Thread, thread'[u].pc = "copied", u # t PROVE FALSE
      OBVIOUS
    <2>2. thread[u].pc = "copied" /\ client[thread[u].slot].state = "process"
          /\ thread[u].slot \in Slot
      BY <1>3, <1>6, <2>1, Fields DEF Commands, InBuffer
    <2>3. thread[u].slot = s
      BY <1>1, <1>2, <1>6, <2>2 DEF Commands, OneCommand
    <2>. QED  BY <1>1, <1>6, <2>1, <2>2, <2>3 DEF Slots, OneThread, Exists
  <1>10. InBuffer'
    BY <1>1, <1>3, <1>9 DEF InBuffer
  <1>11. OneCommand' /\ StillWaiting'
    BY <1>1, <1>6 DEF Commands, OneCommand, StillWaiting
  <1>. QED  BY <1>7, <1>8, <1>10, <1>11 DEF Commands

LEMMA HandleQuiet ==
    ASSUME Types, IInv, Quiet, NEW t \in Thread, Handle(t)
    PROVE  Types' /\ Quiet'
  <1>. DEFINE s == thread[t].slot
  <1>1. /\ thread[t].pc = "copied"
        /\ waiting' = waiting \ {rx_buffer}
        /\ thread' = [thread EXCEPT ![t].pc = "run"]
        /\ client' = [client EXCEPT ![s].state = "wait_data"]
        /\ UNCHANGED <<conn, gone, asked, server, listener, cur, client_count, fails,
                       channels, rx_buffer, port, calm>>
    BY DEF Handle, server_vars, buffer_vars
  <1>2. "run" \in PCs /\ "wait_data" \in {"init", "wait_data", "process", "disconnect"}
    BY DEF PCs
  <1>3. /\ thread' \in [Thread -> Threads]
        /\ thread'[t].pc = "run" /\ thread'[t].slot = s /\ thread'[t].mine = thread[t].mine
        /\ \A u \in Thread \ {t} : thread'[u] = thread[u]
    BY <1>1, <1>2, PcFacts
  <1>4. /\ s \in Slot /\ client' \in [Slot -> Clients] /\ client'[s].state = "wait_data"
        /\ \A r \in Slot : /\ client'[r].conn = client[r].conn
                           /\ client'[r].online = client[r].online
                           /\ r # s => client'[r].state = client[r].state
    BY <1>1, <1>2, StateFacts
  <1>5. Types'
    BY <1>1, <1>3, <1>4 DEF Types
  <1>6. SUFFICES ASSUME calm' PROVE Apart' /\ Slots' /\ Commands'
    BY <1>5 DEF Quiet
  <1>7. calm /\ Apart /\ Slots /\ Commands
    BY <1>1, <1>6 DEF Quiet
  <1>8. Slots'
    BY <1>1, <1>3, <1>4, <1>7, ServingSlots DEF Active
  <1>9. Apart'
    BY <1>1, <1>3, <1>4, <1>7, ServingApart
  <1>10. client[s].state = "process" /\ asked = {}
    BY <1>1, <1>4, <1>7 DEF Commands, OneCommand, InBuffer
  <1>11. \A r \in Slot : client'[r].state # "process"
    BY <1>4, <1>7, <1>10 DEF Commands, OneCommand
  <1>12. \A u \in Thread : thread'[u].pc # "copied"
    <2>1. SUFFICES ASSUME NEW u \in Thread, thread'[u].pc = "copied" PROVE FALSE
      OBVIOUS
    <2>2. u # t /\ thread[u].pc = "copied" /\ thread[u].slot \in Slot
      BY <1>3, <2>1, Fields
    <2>3. client[thread[u].slot].state = "process"
      BY <1>7, <2>2 DEF Commands, InBuffer
    <2>4. thread[u].slot = s
      BY <1>4, <1>7, <1>10, <2>2, <2>3 DEF Commands, OneCommand
    <2>. QED  BY <1>1, <1>7, <2>2, <2>4 DEF Slots, OneThread, Exists
  <1>13. Commands'
    BY <1>1, <1>10, <1>11, <1>12 DEF Commands, OneCommand, InBuffer, StillWaiting
  <1>. QED  BY <1>8, <1>9, <1>13

(* A thread that takes leave: nobody is coming in, and no command of the     *)
(* slot is under way.                                                        *)
LEMMA DepartingApart ==
    ASSUME Apart, Departing, UNCHANGED server,
           \A c \in Conn : conn'[c] = "backlog" => conn[c] = "backlog"
    PROVE  Apart'
  BY DEF Apart, Leaving, Coming

LEMMA RemoveQuiet ==
    ASSUME Types, IInv, Quiet, NEW t \in Thread, Remove(t)
    PROVE  Types' /\ Quiet'
  <1>1. /\ thread[t].pc = "run" /\ client[thread[t].slot].state = "disconnect"
        /\ thread' = [thread EXCEPT ![t].pc = "removed"]
        /\ channels' = channels \ {thread[t].slot}
        /\ UNCHANGED <<conn, gone, asked, waiting, server, listener, cur, client_count,
                       fails, client, rx_buffer, port, calm>>
    BY DEF Remove, At, net_vars, server_vars, buffer_vars
  <1>2. "removed" \in PCs
    BY DEF PCs
  <1>3. /\ thread' \in [Thread -> Threads]
        /\ thread'[t].pc = "removed" /\ thread'[t].slot = thread[t].slot
        /\ thread'[t].mine = thread[t].mine
        /\ \A u \in Thread \ {t} : thread'[u] = thread[u]
    BY <1>1, <1>2, PcFacts
  <1>4. Types'
    BY <1>1, <1>3 DEF Types
  <1>5. SUFFICES ASSUME calm' PROVE Apart' /\ Slots' /\ Commands'
    BY <1>4 DEF Quiet
  <1>6. calm /\ Apart /\ Slots /\ Commands
    BY <1>1, <1>5 DEF Quiet
  <1>7. Apart'
    <2>1. Departing
      BY <1>1 DEF Departing
    <2>. QED  BY <1>1, <1>6, <2>1, DepartingApart
  <1>8. Slots'
    BY <1>1, <1>3, <1>6, ServingSlots DEF Active
  <1>9. Commands'
    BY <1>1, <1>3, <1>6 DEF Commands, OneCommand, InBuffer, StillWaiting
  <1>. QED  BY <1>7, <1>8, <1>9

LEMMA OfflineQuiet ==
    ASSUME Types, IInv, Quiet, NEW t \in Thread, Offline(t)
    PROVE  Types' /\ Quiet'
  <1>. DEFINE s == thread[t].slot
  <1>1. /\ thread[t].pc = "removed"
        /\ thread' = [thread EXCEPT ![t].pc = "offline"]
        /\ client' = [client EXCEPT ![s].online = FALSE]
        /\ UNCHANGED <<conn, gone, asked, waiting, server, listener, cur, client_count,
                       fails, channels, rx_buffer, port, calm>>
    BY DEF Offline, net_vars, server_vars, buffer_vars
  <1>2. "offline" \in PCs /\ s \in Slot
    BY Fields DEF PCs
  <1>3. /\ thread' \in [Thread -> Threads]
        /\ thread'[t].pc = "offline" /\ thread'[t].slot = s
        /\ thread'[t].mine = thread[t].mine
        /\ \A u \in Thread \ {t} : thread'[u] = thread[u]
    BY <1>1, <1>2, PcFacts
  <1>4. /\ client' \in [Slot -> Clients]
        /\ ~client'[s].online /\ client'[s].conn = client[s].conn
        /\ client'[s].state = client[s].state
        /\ \A r \in Slot \ {s} : client'[r] = client[r]
    BY <1>1, <1>2 DEF Types, Clients
  <1>5. Types'
    BY <1>1, <1>3, <1>4 DEF Types
  <1>6. SUFFICES ASSUME calm' PROVE Apart' /\ Slots' /\ Commands'
    BY <1>5 DEF Quiet
  <1>7. calm /\ Apart /\ Slots /\ Commands
    BY <1>1, <1>6 DEF Quiet
  <1>8. Apart'
    <2>1. Departing
      BY <1>1 DEF Departing
    <2>. QED  BY <1>1, <1>7, <2>1, DepartingApart
  <1>9. \A r \in Slot : client'[r].conn = client[r].conn /\ client'[r].state = client[r].state
    BY <1>4
  <1>10. \A u \in Thread : /\ thread'[u].slot = thread[u].slot /\ thread[u].slot \in Slot
                           /\ thread'[u].mine = thread[u].mine
                           /\ Exists(u)' <=> Exists(u)
                           /\ Ending(u)' <=> Ending(u) \/ u = t
                           /\ thread'[u].pc = "closing" <=> thread[u].pc = "closing"
                           /\ thread'[u].pc = "copied" <=> thread[u].pc = "copied"
    BY <1>1, <1>3, Fields DEF Exists, Ending
  <1>11. SlotIsFree' /\ OneThread'
    BY <1>7, <1>9, <1>10 DEF Slots, SlotIsFree, OneThread, Exists
  <1>12. Owned'
    BY <1>1, <1>7, <1>9 DEF Slots, Owned, Held
  <1>13. ClosedLast'
    BY <1>1, <1>7, <1>9, <1>10 DEF Slots, ClosedLast
  <1>14. Keeps'
    <2>1. \A r \in Slot : Held(r)' <=> Held(r)
      BY <1>9 DEF Held
    <2>2. \A u \in Thread : Held(thread[u].slot)' <=> Held(thread[u].slot)
      BY <1>9, <1>10 DEF Held
    <2>3. \A r \in Slot : client'[r].online => client[r].online
      BY <1>4
    <2>4. ASSUME NEW r \in Slot, Held(r)', ~client'[r].online
          PROVE  \E u \in Thread : thread'[u].slot = r /\ Ending(u)'
      <3>1. CASE r = s
        BY <1>10, <3>1
      <3>2. CASE r # s
        BY <1>4, <1>7, <1>10, <2>1, <2>4, <3>2 DEF Slots, Keeps
      <3>. QED  BY <3>1, <3>2
    <2>5. ASSUME NEW u \in Thread, Ending(u)' PROVE ~client'[thread'[u].slot].online
      <3>1. CASE u = t
        BY <1>3, <1>4, <3>1
      <3>2. CASE u # t
        BY <1>7, <1>10, <2>3, <2>5, <3>2 DEF Slots, Keeps
      <3>. QED  BY <3>1, <3>2
    <2>. QED  BY <1>7, <1>10, <2>1, <2>2, <2>3, <2>4, <2>5 DEF Slots, Keeps
  <1>15. Commands'
    BY <1>1, <1>7, <1>9, <1>10 DEF Commands, OneCommand, InBuffer, StillWaiting
  <1>. QED  BY <1>8, <1>11, <1>12, <1>13, <1>14, <1>15 DEF Slots

LEMMA CloseQuiet ==
    ASSUME Types, IInv, Quiet, NEW t \in Thread, Close(t)
    PROVE  Types' /\ Quiet'
  <1>. DEFINE s == thread[t].slot
              c == client[s].conn
  <1>1. /\ thread[t].pc = "offline"
        /\ conn' = IF c = NoConn THEN conn ELSE [conn EXCEPT ![c] = "closed"]
        /\ thread' = [thread EXCEPT ![t].pc = "closing"]
        /\ UNCHANGED <<gone, asked, waiting, server, listener, cur, client_count,
                       fails, client, channels, rx_buffer, port, calm>>
    BY DEF Close, server_vars, buffer_vars
  <1>2. "closing" \in PCs /\ s \in Slot /\ c \in Conn \cup {NoConn}
    BY Fields DEF PCs
  <1>3. /\ thread' \in [Thread -> Threads]
        /\ thread'[t].pc = "closing" /\ thread'[t].slot = s
        /\ thread'[t].mine = thread[t].mine
        /\ \A u \in Thread \ {t} : thread'[u] = thread[u]
    BY <1>1, <1>2, PcFacts
  <1>4. /\ conn' \in [Conn -> {"free", "backlog", "open", "closed"}]
        /\ \A d \in Conn : IF d = c THEN conn'[d] = "closed" ELSE conn'[d] = conn[d]
    BY <1>1, <1>2, TcpServerAssumption DEF Types
  <1>5. Types'
    BY <1>1, <1>3, <1>4 DEF Types
  <1>6. SUFFICES ASSUME calm' PROVE Apart' /\ Slots' /\ Commands'
    BY <1>5 DEF Quiet
  <1>7. calm /\ Apart /\ Slots /\ Commands
    BY <1>1, <1>6 DEF Quiet
  <1>8. c \in Conn
    BY <1>1, <1>2, <1>7 DEF Slots, Keeps, Exists, Held
  <1>9. Apart'
    <2>1. Departing
      BY <1>1 DEF Departing
    <2>. QED  BY <1>1, <1>4, <1>7, <2>1, DepartingApart
  <1>10. \A u \in Thread : /\ thread'[u].slot = thread[u].slot /\ thread[u].slot \in Slot
                           /\ thread'[u].mine = thread[u].mine
                           /\ Exists(u)' <=> Exists(u)
                           /\ Ending(u)' <=> Ending(u)
                           /\ thread[u].pc = "closing" => thread'[u].pc = "closing"
                           /\ thread'[u].pc = "copied" <=> thread[u].pc = "copied"
    BY <1>1, <1>3, Fields DEF Exists, Ending
  <1>11. SlotIsFree' /\ OneThread'
    BY <1>1, <1>7, <1>10 DEF Slots, SlotIsFree, OneThread, Exists
  <1>12. Owned'
    <2>1. \A r \in Slot : Held(r)' => conn'[client'[r].conn] \in {"open", "closed"}
      BY <1>1, <1>4, <1>7, Fields DEF Slots, Owned, Held
    <2>2. \A d \in Conn : conn'[d] \in {"open", "closed"} => \E r \in Slot : client'[r].conn = d
      BY <1>1, <1>2, <1>4, <1>7 DEF Slots, Owned
    <2>. QED  BY <1>1, <1>7, <2>1, <2>2 DEF Slots, Owned, Held
  <1>13. ClosedLast'
    <2>1. ASSUME NEW d \in Conn, conn'[d] = "closed"
          PROVE  \E u \in Thread : thread'[u].pc = "closing" /\ client'[thread'[u].slot].conn = d
      <3>1. CASE d = c
        BY <1>1, <1>3, <3>1
      <3>2. CASE d # c
        BY <1>1, <1>4, <1>7, <1>10, <2>1, <3>2 DEF Slots, ClosedLast
      <3>. QED  BY <3>1, <3>2
    <2>. QED  BY <2>1 DEF ClosedLast
  <1>14. Keeps'
    <2>1. \A r \in Slot : Held(r)' <=> Held(r)
      BY <1>1 DEF Held
    <2>2. \A u \in Thread : Held(thread[u].slot)' <=> Held(thread[u].slot)
      BY <1>1, <1>10 DEF Held
    <2>. QED  BY <1>1, <1>7, <1>10, <2>1, <2>2 DEF Slots, Keeps
  <1>15. Commands'
    BY <1>1, <1>7, <1>10 DEF Commands, OneCommand, InBuffer, StillWaiting
  <1>. QED  BY <1>9, <1>11, <1>12, <1>13, <1>14, <1>15 DEF Slots

LEMMA EndQuiet ==
    ASSUME Types, IInv, Quiet, NEW t \in Thread, End(t)
    PROVE  Types' /\ Quiet'
  <1>. DEFINE s == thread[t].slot
              c == client[s].conn
  <1>1. /\ thread[t].pc = "closing"
        /\ IF c = NoConn THEN UNCHANGED <<conn, gone, asked, waiting>>
           ELSE /\ conn' = [conn EXCEPT ![c] = "free"]
                /\ gone' = gone \ {c} /\ asked' = asked \ {c} /\ waiting' = waiting \ {c}
        /\ client' = [client EXCEPT ![s].conn = NoConn]
        /\ thread' = [thread EXCEPT ![t] = NoThread]
        /\ UNCHANGED <<server, listener, cur, client_count, fails, channels, rx_buffer,
                       port, calm>>
    BY DEF End, Delete, net_vars, server_vars, buffer_vars
  <1>2. s \in Slot /\ c \in Conn \cup {NoConn}
    BY Fields
  <1>3. /\ thread' \in [Thread -> Threads] /\ thread'[t].pc = "none"
        /\ \A u \in Thread \ {t} : thread'[u] = thread[u]
    <2>1. thread' \in [Thread -> Threads] /\ thread'[t] = NoThread
          /\ \A u \in Thread \ {t} : thread'[u] = thread[u]
      BY <1>1, NoThreadTyped DEF Types
    <2>. QED  BY <2>1 DEF NoThread
  <1>4. /\ client' \in [Slot -> Clients]
        /\ client'[s].conn = NoConn /\ client'[s].state = client[s].state
        /\ client'[s].online = client[s].online
        /\ \A r \in Slot \ {s} : client'[r] = client[r]
    BY <1>1, <1>2 DEF Types, Clients
  <1>5. /\ conn' \in [Conn -> {"free", "backlog", "open", "closed"}]
        /\ \A d \in Conn : IF d = c THEN conn'[d] = "free" ELSE conn'[d] = conn[d]
        /\ gone' = gone \ {c} /\ asked' = asked \ {c} /\ waiting' = waiting \ {c}
    BY <1>1, <1>2, TcpServerAssumption DEF Types
  <1>6. Types'
    BY <1>1, <1>3, <1>4, <1>5 DEF Types
  <1>7. SUFFICES ASSUME calm' PROVE Apart' /\ Slots' /\ Commands'
    BY <1>6 DEF Quiet
  <1>8. calm /\ Apart /\ Slots /\ Commands
    BY <1>1, <1>7 DEF Quiet
  <1>9. Apart'
    <2>1. Departing
      BY <1>1 DEF Departing
    <2>. QED  BY <1>1, <1>5, <1>8, <2>1, DepartingApart
  <1>10. c \in Conn
    BY <1>1, <1>2, <1>8 DEF Slots, Keeps, Exists, Held
  <1>11. \A r \in Slot \ {s} : client[r].conn # c
    BY <1>2, <1>8, <1>10, TcpServerAssumption DEF Slots, Owned, Held
  <1>12. \A u \in Thread : Exists(u)' =>
            /\ u # t /\ Exists(u) /\ thread'[u] = thread[u]
            /\ thread[u].slot \in Slot \ {s}
            /\ client'[thread[u].slot] = client[thread[u].slot]
    <2>1. ASSUME NEW u \in Thread, thread'[u].pc # "none"
          PROVE  /\ u # t /\ Exists(u) /\ thread'[u] = thread[u]
                 /\ thread[u].slot \in Slot \ {s}
      <3>1. u # t /\ Exists(u) /\ thread'[u] = thread[u] /\ thread[u].slot \in Slot
        BY <1>3, <2>1, Fields DEF Exists
      <3>2. Exists(t)
        BY <1>1 DEF Exists
      <3>. QED  BY <1>8, <3>1, <3>2 DEF Slots, OneThread
    <2>. QED  BY <1>4, <2>1 DEF Exists
  <1>13. SlotIsFree' /\ OneThread'
    BY <1>8, <1>12 DEF Slots, SlotIsFree, OneThread, Exists
  <1>14. Owned'
    <2>1. \A r \in Slot : Held(r)' => r # s /\ Held(r) /\ client'[r].conn = client[r].conn
      BY <1>4 DEF Held
    <2>2. \A r \in Slot : Held(r)' => conn'[client'[r].conn] \in {"open", "closed"}
      BY <1>5, <1>8, <1>11, <2>1, Fields DEF Slots, Owned, Held
    <2>3. \A q, r \in Slot : Held(q)' /\ client'[q].conn = client'[r].conn => q = r
      BY <1>4, <1>8, <2>1 DEF Slots, Owned, Held
    <2>4. \A d \in Conn : conn'[d] \in {"open", "closed"} => \E r \in Slot : client'[r].conn = d
      BY <1>4, <1>5, <1>8 DEF Slots, Owned
    <2>. QED  BY <2>2, <2>3, <2>4 DEF Owned
  <1>15. ClosedLast'
    <2>1. ASSUME NEW d \in Conn, conn'[d] = "closed"
          PROVE  \E u \in Thread : thread'[u].pc = "closing" /\ client'[thread'[u].slot].conn = d
      <3>1. d # c /\ conn[d] = "closed"
        BY <1>5, <2>1
      <3>2. PICK u \in Thread : thread[u].pc = "closing" /\ client[thread[u].slot].conn = d
        BY <1>8, <3>1 DEF Slots, ClosedLast
      <3>3. u # t
        BY <3>1, <3>2
      <3>4. Exists(u)' /\ thread'[u] = thread[u]
        BY <1>3, <3>2, <3>3 DEF Exists
      <3>. QED  BY <1>12, <3>2, <3>4
    <2>. QED  BY <2>1 DEF ClosedLast
  <1>16. Keeps'
    <2>1. ~client[s].online
      BY <1>1, <1>8 DEF Slots, Keeps, Ending
    <2>2. ASSUME NEW r \in Slot, client'[r].online PROVE Held(r)'
      BY <1>4, <1>8, <2>1, <2>2 DEF Slots, Keeps, Held
    <2>3. ASSUME NEW r \in Slot, Held(r)', ~client'[r].online
          PROVE  \E u \in Thread : thread'[u].slot = r /\ Ending(u)'
      <3>1. r # s /\ Held(r) /\ ~client[r].online
        BY <1>4, <2>3 DEF Held
      <3>2. PICK u \in Thread : thread[u].slot = r /\ Ending(u)
        BY <1>8, <3>1 DEF Slots, Keeps
      <3>3. u # t
        BY <3>1, <3>2
      <3>. QED  BY <1>3, <3>2, <3>3 DEF Ending
    <2>4. ASSUME NEW u \in Thread, Ending(u)' PROVE ~client'[thread'[u].slot].online
      <3>1. Exists(u)' /\ Ending(u)
        BY <1>3, <2>4 DEF Ending, Exists
      <3>. QED  BY <1>8, <1>12, <3>1 DEF Slots, Keeps
    <2>5. ASSUME NEW u \in Thread, Exists(u)' PROVE Held(thread[u].slot)'
      BY <1>8, <1>12, <2>5 DEF Slots, Keeps, Held
    <2>. QED  BY <2>2, <2>3, <2>4, <2>5 DEF Keeps
  <1>17. OneCommand' /\ StillWaiting'
    <2>1. \A r \in Slot : client'[r].state = client[r].state
      BY <1>4
    <2>. QED  BY <1>5, <1>8, <2>1 DEF Commands, OneCommand, StillWaiting
  <1>18. InBuffer'
    BY <1>1, <1>8, <1>12 DEF Commands, InBuffer, Exists
  <1>. QED  BY <1>9, <1>13, <1>14, <1>15, <1>16, <1>17, <1>18 DEF Slots, Commands

(* Every step preserves it. *)
LEMMA StutterQuiet ==
    ASSUME Types, Quiet, UNCHANGED vars
    PROVE  Types' /\ Quiet'
  <1>1. Types'
    BY DEF vars, Types
  <1>2. Slots' = Slots /\ Departing' = Departing
    BY SameSlots, SameDeparting DEF vars
  <1>3. Apart' = Apart
    BY <1>2 DEF vars, Apart, Leaving, Coming
  <1>4. Commands' = Commands
    BY DEF vars, Commands, OneCommand, InBuffer, StillWaiting
  <1>. QED  BY <1>1, <1>2, <1>3, <1>4 DEF vars, Quiet

LEMMA NextQuiet ==
    ASSUME Types, IInv, Quiet, [Next]_vars
    PROVE  Types' /\ Quiet'
  <1>1. CASE UNCHANGED vars
    BY <1>1, StutterQuiet
  <1>2. ASSUME NEW c \in Conn, Connect(c) \/ Ask(c) \/ Leave(c)
        PROVE  Types' /\ Quiet'
    BY <1>2, ConnectQuiet, AskQuiet, LeaveQuiet
  <1>3. CASE ServerTask \/ Fail
    BY <1>3, ServerQuiet, AcceptQuiet, TooManyQuiet, SetupQuiet DEF ServerTask
  <1>4. ASSUME NEW t \in Thread, ClientThread(t) \/ LinkLost(t)
        PROVE  Types' /\ Quiet'
    BY <1>4, WaitQuiet, CopyQuiet, HandleQuiet, RemoveQuiet, OfflineQuiet, CloseQuiet,
       EndQuiet DEF ClientThread
  <1>. QED  BY <1>1, <1>2, <1>3, <1>4 DEF Next

LEMMA QuietInvariance == Spec => [](Types /\ Quiet)
  <1>1. IInv /\ IInv' /\ Types /\ Quiet /\ [Next]_vars => Types' /\ Quiet'
    BY NextQuiet
  <1>. QED  BY InitQuiet, <1>1, Invariance, PTL DEF Spec

(* What is known of the outcome of commands. *)
Outcomes ==
    /\ lost \subseteq Conn
    /\ result \in [conn : Conn \cup {NoConn}, how : Results]

(* Only a command that is handled and the next step of the network change    *)
(* the result.                                                               *)
LEMMA NextResult ==
    ASSUME Types, Outcomes, [Next]_vars
    PROVE  result' \in [conn : Conn \cup {NoConn}, how : Results]
  <1>1. NoResult \in [conn : Conn \cup {NoConn}, how : Results]
    BY DEF NoResult, Results
  <1>2. rx_buffer \in Conn \cup {NoConn}
    BY DEF Types
  <1>3. ASSUME NEW t \in Thread, Handle(t)
        PROVE  result' \in {NoResult} \cup [conn : Conn \cup {NoConn}, how : Results]
    <2>1. PICK how \in {"silent"} \cup SendLow(port) :
             result' = IF calm THEN [conn |-> rx_buffer, how |-> how] ELSE NoResult
      BY <1>3 DEF Handle
    <2>2. how \in Results
      BY DEF SendLow, Results
    <2>. QED  BY <1>2, <2>1, <2>2
  <1>4. \/ result' = NoResult \/ UNCHANGED result \/ \E t \in Thread : Handle(t)
    <2>1. ASSUME NEW c \in Conn, Connect(c) \/ Ask(c) \/ Leave(c) PROVE result' = NoResult
      BY <2>1 DEF Connect, Ask, Leave
    <2>2. CASE ServerTask \/ Fail
      BY <2>2 DEF ServerTask, Fail, LinkUp, Create, Bind, Listen, Restart, ServerStep,
                  Accept, TooMany, Setup, buffer_vars
    <2>3. ASSUME NEW t \in Thread, ClientThread(t) \/ LinkLost(t)
          PROVE  UNCHANGED result \/ Handle(t)
      BY <2>3 DEF ClientThread, ClientInit, Receive, ReceiveFails, LinkLost, Copy, Remove,
                  Offline, Close, End, buffer_vars
    <2>. QED  BY <2>1, <2>2, <2>3 DEF Next, vars
  <1>. QED  BY <1>1, <1>3, <1>4 DEF Outcomes

LEMMA NextOutcomes ==
    ASSUME Types, Outcomes, [Next]_vars
    PROVE  Outcomes'
  <1>1. lost' \subseteq lost \cup Conn
    <2>1. ASSUME NEW c \in Conn, Connect(c) \/ Ask(c) \/ Leave(c) PROVE UNCHANGED lost
      BY <2>1 DEF Connect, Ask, Leave
    <2>2. CASE ServerTask \/ Fail
      BY <2>2 DEF ServerTask, Fail, LinkUp, Create, Bind, Listen, Restart, ServerStep,
                  Accept, TooMany, Setup, Delete, net_vars
    <2>3. ASSUME NEW t \in Thread, ClientThread(t) PROVE lost' \subseteq lost
      BY <2>3 DEF ClientThread, ClientInit, Receive, ReceiveFails, Copy, Handle, Remove,
                  Offline, Close, End, Delete, net_vars
    <2>4. ASSUME NEW t \in Thread, LinkLost(t) PROVE lost' \subseteq lost \cup Conn
      BY <2>4 DEF LinkLost
    <2>. QED  BY <2>1, <2>2, <2>3, <2>4 DEF Next, vars
  <1>. QED  BY <1>1, NextResult DEF Outcomes

LEMMA OutcomeInvariance == Spec => []Outcomes
  <1>1. Init => Outcomes
    BY DEF Init, Outcomes, NoResult, Results
  <1>2. (Types /\ Quiet) /\ Outcomes /\ [Next]_vars => Outcomes'
    BY NextOutcomes
  <1>. QED  BY <1>1, <1>2, QuietInvariance, PTL DEF Spec

(* Every variable keeps its type, with all failures and in every order of    *)
(* events: server_task (tcp_server.c:105-256) never hands out a slot beyond  *)
(* client_list, and while it is calm an unread command is somebody's.        *)
THEOREM TypeCorrect == Spec => []TypeOK
  <1>1. (Types /\ Quiet) /\ Outcomes => TypeOK
    <2>. SUFFICES ASSUME Types, Quiet, Outcomes PROVE TypeOK
      OBVIOUS
    <2>1. calm => asked \subseteq waiting \cup gone
      BY DEF Quiet, Commands, StillWaiting
    <2>2. \A t \in Thread :
             /\ thread[t].pc \in {"none", "run", "copied", "removed", "offline", "closing"}
             /\ thread[t].slot \in Slot
      BY Fields DEF PCs
    <2>. QED  BY <2>1, <2>2 DEF Types, TypeOK, Clients, Outcomes
  <1>. QED  BY <1>1, QuietInvariance, OutcomeInvariance, PTL

(* client_thread works on the connection it was created for, in every step   *)
(* up to its end, as long as no connection is accepted while a client leaves *)
(* (tcp_server.c:369-406).                                                   *)
THEOREM ConnIsOwn == Spec => []OwnConn
  <1>1. Quiet => OwnConn
    BY DEF Quiet, Slots, OwnConn
  <1>. QED  BY <1>1, QuietInvariance, PTL

(* The common receive buffer and tcp_port belong to the thread that handles  *)
(* a command (tcp_server.c:347-362), as long as one client at a time has one *)
(* under way.                                                                *)
THEOREM CommandIsOwn == Spec => []OwnCommand
  <1>1. Quiet => OwnCommand
    BY DEF Quiet, Commands, InBuffer, OwnCommand
  <1>. QED  BY <1>1, QuietInvariance, PTL

(* Whatever sequence of clients has come and gone, server_task and the       *)
(* threads leave no connection behind and give none away that is in use.     *)
THEOREM LeavesNothing == Spec => []Tidy
  <1>1. Types /\ Quiet => Tidy
    <2>. SUFFICES ASSUME Types, Quiet, calm, ~Departing
                  PROVE  {c \in Conn : conn[c] \in {"open", "closed"}} =
                             {client[s].conn : s \in {u \in Slot : client[u].online}}
      BY DEF Tidy
    <2>1. Owned /\ Keeps
      BY DEF Quiet, Slots
    <2>2. \A t \in Thread : ~Ending(t)
      BY DEF Departing, Ending
    <2>3. \A s \in Slot : client[s].online <=> client[s].conn # NoConn
      BY <2>1, <2>2 DEF Keeps, Held
    <2>4. ASSUME NEW c \in Conn, conn[c] \in {"open", "closed"}
          PROVE  \E s \in Slot : client[s].online /\ client[s].conn = c
      BY <2>1, <2>3, <2>4, TcpServerAssumption DEF Owned
    <2>5. ASSUME NEW s \in Slot, client[s].online
          PROVE  client[s].conn \in Conn /\ conn[client[s].conn] \in {"open", "closed"}
      BY <2>1, <2>3, <2>5, Fields DEF Owned, Held
    <2>. QED  BY <2>4, <2>5
  <1>. QED  BY <1>1, QuietInvariance, PTL

-----------------------------------------------------------------------------
(* com_send, for a buffer of any size and messages that fit into it, each of *)
(* them sent after the last one has gone.                                    *)

TxFits == TxCap \in Nat \ {0} /\ TxLens \subseteq 1..TxCap /\ ~Overlap

(* The address k bytes behind a, and the n bytes from a on in a buffer b. *)
TxNth(a, k) == IF a + k < TxCap THEN a + k ELSE a + k - TxCap
Taken(b, a, n) == [k \in 1..n |-> b[TxNth(a, k - 1)]]

TxTypes ==
    /\ tx_buff \in [0..(TxCap - 1) -> TxByte \cup {TxCleared}]
    /\ tx_read \in 0..(TxCap - 1) /\ tx_write \in 0..(TxCap - 1)
    /\ tx_count \in 0..TxCap
    /\ tx_dma \in [addr : 0..TxCap, left : 0..TxCap, total : 0..TxCap]
    /\ caller \in {"out", "copy", "start", "arm", "go"}
    /\ rest \in TxLens \cup {0} /\ tx_size \in 0..TxCap /\ tx_next \in TxByte
    /\ shift \in 0..2

(* com_send has copied a message and not started the channel. *)
Starting == caller \in {"start", "arm", "go"}

(* Nothing is waiting to be sent. *)
TxEmpty ==
    tx_count = 0 => /\ ~Starting
                    /\ tx_dma.left = 0 /\ ~ftf /\ ~dma_ie /\ tx_owed = <<>>

(* The channel stands still, and the message is owed as it was copied. *)
TxFilled ==
    Starting => /\ tx_dma.left = 0 /\ ~ftf
                /\ tx_owed = Taken(tx_buff, tx_read, tx_count)
                /\ caller # "start" => tx_size = Chunk(tx_read, tx_count)
                /\ caller = "go" => dma_ie

(* The channel works on the part of the message up to the end of the buffer, *)
(* and what it has not handed over yet is owed.                              *)
TxRunning ==
    ~Starting /\ tx_count > 0 =>
        /\ dma_ie /\ (ftf <=> tx_dma.left = 0)
        /\ tx_dma.total = Chunk(tx_read, tx_count) /\ tx_dma.left <= tx_dma.total
        /\ tx_dma.addr = tx_read + tx_dma.total - tx_dma.left
        /\ tx_owed = Taken(tx_buff, tx_dma.addr, tx_count - (tx_dma.total - tx_dma.left))

(* A message begins on an idle line, and is copied as a whole. *)
TxBegun == /\ Starting \/ rest > 0 => shift = 0
           /\ caller \in {"start", "arm"} \/ rest > 0 => ~tcie
           /\ caller = "go" => tcie /\ ~tc
           /\ rest > 0 => caller = "copy" /\ tx_count = 0

TxData == TxTypes /\ TxEmpty /\ TxFilled /\ TxRunning /\ TxBegun /\ ~garbled

-----------------------------------------------------------------------------
(* Indices on the ring. *)

LEMMA TxMod ==
    ASSUME TxFits
    PROVE  /\ \A x \in 0..(TxCap - 1) : x % TxCap = x
           /\ \A x \in TxCap..(2 * TxCap - 1) : x % TxCap = x - TxCap
           /\ \A x \in (1 - TxCap)..(-1) : x % TxCap = x + TxCap
           /\ \A x \in Int : x % TxBytes \in TxByte
<1>1. \A x \in 0..(TxCap - 1) : x % TxCap = x
  BY DEF TxFits
<1>2. \A x \in TxCap..(2 * TxCap - 1) : x % TxCap = x - TxCap
  BY DEF TxFits
<1>3. \A x \in (1 - TxCap)..(-1) : x % TxCap = x + TxCap
  BY DEF TxFits
<1>4. \A x \in Int : x % TxBytes \in TxByte
  BY DEF TxFits, TxBytes, TxByte
<1>5. QED
  BY <1>1, <1>2, <1>3, <1>4

(* The bytes are a sequence, as long as all addresses lie in the buffer. *)
LEMMA TakenSeq ==
    ASSUME TxFits, NEW S, NEW b \in [0..(TxCap - 1) -> S],
           NEW a \in 0..TxCap, NEW n \in 0..TxCap
    PROVE  /\ Taken(b, a, n) \in Seq(S) /\ Len(Taken(b, a, n)) = n
           /\ \A k \in 1..n : Taken(b, a, n)[k] = b[TxNth(a, k - 1)]
<1>1. \A k \in 1..n : TxNth(a, k - 1) \in 0..(TxCap - 1)
  BY DEF TxNth, TxFits
<1>2. QED
  BY <1>1 DEF Taken, TxFits

(* Handing over the first byte leaves the others. *)
LEMMA TakenTail ==
    ASSUME TxFits, NEW S, NEW b \in [0..(TxCap - 1) -> S],
           NEW a \in 0..(TxCap - 1), NEW n \in 1..TxCap
    PROVE  /\ Taken(b, a, n) # <<>>
           /\ Head(Taken(b, a, n)) = b[a]
           /\ Tail(Taken(b, a, n)) = Taken(b, a + 1, n - 1)
<1> DEFINE s == Taken(b, a, n)
           t == Taken(b, a + 1, n - 1)
<1>1. /\ s \in Seq(S) /\ Len(s) = n /\ \A k \in 1..n : s[k] = b[TxNth(a, k - 1)]
  <2>1. a \in 0..TxCap /\ n \in 0..TxCap
    BY DEF TxFits
  <2>2. QED
    BY <2>1, TakenSeq
<1>2. /\ t \in Seq(S) /\ Len(t) = n - 1
      /\ \A k \in 1..(n - 1) : t[k] = b[TxNth(a + 1, k - 1)]
  <2>1. a + 1 \in 0..TxCap /\ n - 1 \in 0..TxCap
    BY DEF TxFits
  <2>2. QED
    BY <2>1, TakenSeq
<1> HIDE DEF s, t
<1>3. /\ s # <<>> /\ Head(s) = s[1] /\ Tail(s) \in Seq(S)
      /\ Len(Tail(s)) = n - 1 /\ \A k \in 1..(n - 1) : Tail(s)[k] = s[k + 1]
  BY <1>1
<1>4. s[1] = b[a]
  BY <1>1 DEF TxNth, TxFits
<1>5. \A k \in 1..(n - 1) : Tail(s)[k] = t[k]
  <2>1. TAKE k \in 1..(n - 1)
  <2>2. s[k + 1] = b[TxNth(a, k)] /\ TxNth(a + 1, k - 1) = TxNth(a, k)
    BY <1>1 DEF TxNth, TxFits
  <2>3. QED
    BY <1>2, <1>3, <2>2
<1>6. Tail(s) = t
  BY <1>2, <1>3, <1>5, SeqEqual
<1>7. QED
  BY <1>3, <1>4, <1>6 DEF s, t

LEMMA TakenNone == ASSUME NEW b, NEW a \in Int PROVE Taken(b, a, 0) = <<>>
  BY DEF Taken

-----------------------------------------------------------------------------
(* The steps of com_send. *)

LEMMA TxInitData == ASSUME TxFits, TxInit PROVE TxData
<1>1. tx_dma = [addr |-> 0, left |-> 0, total |-> 0]
  BY DEF TxInit, Off
<1>2. TxTypes
  BY <1>1 DEF TxInit, TxTypes, TxFits, TxByte, TxBytes
<1>3. TxEmpty /\ TxFilled /\ TxRunning /\ TxBegun /\ ~garbled
  BY <1>1 DEF TxInit, TxEmpty, TxFilled, TxRunning, TxBegun, Starting
<1>4. QED
  BY <1>2, <1>3 DEF TxData

(* Tasks that change neither the buffer nor the channel. *)
LEMMA TxSendData == ASSUME TxFits, TxData, NEW n \in TxLens, Send(n) PROVE TxData'
<1>1. /\ UNCHANGED <<tx_buff, tx_read, tx_write, tx_count, tx_dma, ftf, dma_ie, tcie, shift,
                     tx_size, tx_next, tx_owed, garbled>>
      /\ caller = "out" /\ caller' = "copy" /\ rest' = n
      /\ tx_count = 0 /\ shift = 0 /\ ~tcie
  BY DEF TxFits, Send, TxIdle, tx_fifo, tx_flags
<1>2. TxTypes'
  BY <1>1 DEF TxData, TxTypes, TxByte, TxBytes
<1>3. TxEmpty' /\ TxFilled' /\ TxRunning' /\ TxBegun' /\ ~garbled'
  BY <1>1 DEF TxData, TxTypes, TxEmpty, TxFilled, TxRunning, TxBegun, Starting
<1>4. QED
  BY <1>2, <1>3 DEF TxData

LEMMA TxReturnData == ASSUME TxFits, TxData, Return PROVE TxData'
<1>1. /\ UNCHANGED <<tx_buff, tx_read, tx_write, tx_count, tx_dma, ftf, dma_ie, tcie, shift,
                     tx_size, tx_next, tx_owed, garbled>>
      /\ caller = "copy" /\ caller' = "out" /\ rest' = 0
  BY DEF Return, tx_fifo, tx_flags
<1>2. TxTypes'
  BY <1>1 DEF TxData, TxTypes, TxByte, TxBytes
<1>3. TxEmpty' /\ TxFilled' /\ TxRunning' /\ TxBegun' /\ ~garbled'
  BY <1>1 DEF TxData, TxTypes, TxEmpty, TxFilled, TxRunning, TxBegun, Starting, Chunk, Least
<1>4. QED
  BY <1>2, <1>3 DEF TxData

(* Copy finds the buffer empty and takes the whole message. *)
LEMMA TxCopyData == ASSUME TxFits, TxData, TxCopy PROVE TxData'
<1> DEFINE value(k) == (tx_next + k) % TxBytes
           n == rest
           part == [k \in 1..n |-> value(k - 1)]
<1>1. /\ caller = "copy" /\ rest > 0 /\ rest \in 1..TxCap
      /\ Least(rest, TxCap - tx_count) = rest /\ tx_count = 0
  BY DEF TxData, TxTypes, TxBegun, TxFits, TxCopy, Least
<1>2. /\ tx_read' = tx_write
      /\ tx_buff' = [a \in 0..(TxCap - 1) |->
                       IF (a - tx_write) % TxCap < n THEN value((a - tx_write) % TxCap)
                                                     ELSE tx_buff[a]]
      /\ tx_write' = (tx_write + n) % TxCap
      /\ tx_count' = n /\ rest' = 0 /\ tx_next' = value(n)
      /\ tx_owed' = tx_owed \o part
      /\ caller' = "start"
      /\ UNCHANGED <<tx_dma, ftf, dma_ie, tcie, shift, tx_size, garbled>>
  BY <1>1 DEF TxCopy, tx_flags
<1>3. \A k \in Int : value(k) \in TxByte
  <2>1. TAKE k \in Int
  <2>2. tx_next + k \in Int
    BY DEF TxData, TxTypes, TxByte, TxFits, TxBytes
  <2>3. QED
    BY <2>2, TxMod
<1>4. part \in Seq(TxByte)
  BY <1>1, <1>3 DEF TxFits
<1>5. tx_owed' = part
  <2>1. tx_owed = <<>>
    BY <1>1 DEF TxData, TxEmpty
  <2>2. QED
    BY <1>2, <1>4, <2>1, ConcatEmptySeq
<1>6. tx_write \in 0..(TxCap - 1) /\ n \in 1..TxCap /\ TxCap \in Nat \ {0}
  BY <1>1 DEF TxData, TxTypes, TxFits
<1>7. tx_buff' \in [0..(TxCap - 1) -> TxByte \cup {TxCleared}]
  <2>1. \A a \in 0..(TxCap - 1) : (a - tx_write) % TxCap \in Int
    BY <1>6
  <2>2. tx_buff \in [0..(TxCap - 1) -> TxByte \cup {TxCleared}]
    BY DEF TxData, TxTypes
  <2>3. QED
    BY <1>2, <1>3, <2>1, <2>2
<1>8. tx_owed' = Taken(tx_buff', tx_write, n)
  <2>1. \A k \in 1..n : tx_buff'[TxNth(tx_write, k - 1)] = value(k - 1)
    <3>1. TAKE k \in 1..n
    <3>2. /\ TxNth(tx_write, k - 1) \in 0..(TxCap - 1)
          /\ (TxNth(tx_write, k - 1) - tx_write) % TxCap = k - 1
      BY <1>6, TxMod DEF TxNth
    <3>3. k - 1 < n
      BY <1>6
    <3>4. QED
      BY <1>2, <3>2, <3>3
  <2>2. QED
    BY <1>5, <2>1 DEF Taken
<1>9. tx_write' \in 0..(TxCap - 1) /\ tx_next' \in TxByte
  BY <1>2, <1>3, <1>6
<1> HIDE DEF value, part
<1>10. TxTypes'
  BY <1>2, <1>6, <1>7, <1>9 DEF TxData, TxTypes
<1>11. TxEmpty' /\ TxFilled' /\ TxRunning' /\ TxBegun' /\ ~garbled'
  BY <1>1, <1>2, <1>6, <1>8 DEF TxData, TxEmpty, TxFilled, TxRunning, TxBegun, Starting
<1>12. QED
  BY <1>10, <1>11 DEF TxData

(* Up to the start of the channel nothing else happens: it stands still and  *)
(* no interrupt is pending.                                                  *)
LEMMA TxSizeData == ASSUME TxFits, TxData, Size PROVE TxData'
<1>1. /\ UNCHANGED <<tx_buff, tx_read, tx_write, tx_count, tx_dma, ftf, dma_ie, tcie, shift,
                     rest, tx_next, tx_owed, garbled>>
      /\ caller = "start" /\ caller' = "arm" /\ tx_size' = Chunk(tx_read, tx_count)
  BY DEF Size, tx_fifo, tx_flags
<1>2. tx_size' \in 0..TxCap
  BY <1>1 DEF TxData, TxTypes, TxFits, Chunk, Least
<1>3. TxTypes'
  BY <1>1, <1>2 DEF TxData, TxTypes, TxByte, TxBytes
<1>4. tx_size' = Chunk(tx_read', tx_count')
  BY <1>1 DEF Chunk, Least
<1>5. TxEmpty' /\ TxFilled' /\ TxRunning' /\ TxBegun' /\ ~garbled'
  BY <1>1, <1>4 DEF TxData, TxEmpty, TxFilled, TxRunning, TxBegun, Starting
<1>6. QED
  BY <1>3, <1>5 DEF TxData

LEMMA TxArmData == ASSUME TxFits, TxData, Arm PROVE TxData'
<1>1. /\ UNCHANGED <<tx_buff, tx_read, tx_write, tx_count, tx_dma, ftf, shift, rest, tx_size,
                     tx_next, tx_owed, garbled>>
      /\ caller = "arm" /\ caller' = "go"
  BY DEF Arm, tx_fifo
<1>2. ~tc' /\ tcie' /\ dma_ie'
  BY DEF Arm
<1>3. TxTypes'
  BY <1>1 DEF TxData, TxTypes, TxByte, TxBytes
<1>4. TxEmpty' /\ TxFilled' /\ TxRunning' /\ TxBegun' /\ ~garbled'
  BY <1>1, <1>2 DEF TxData, TxEmpty, TxFilled, TxRunning, TxBegun, Starting, Chunk, Least
<1>5. QED
  BY <1>3, <1>4 DEF TxData

(* The channel is started on the part up to the end of the buffer. *)
LEMMA TxStartData == ASSUME TxFits, TxData, Start PROVE TxData'
<1> DEFINE n == Chunk(tx_read, tx_count)
<1>1. /\ caller = "go" /\ caller' = "copy" /\ rest = 0 /\ tx_size = n
      /\ tx_count > 0 /\ tx_owed = Taken(tx_buff, tx_read, tx_count)
  BY DEF TxData, TxTypes, TxEmpty, TxFilled, TxBegun, Starting, Start, TxFits
<1>2. /\ tx_dma' = [addr |-> tx_read, left |-> n, total |-> n]
      /\ UNCHANGED <<tx_buff, tx_read, tx_write, tx_count, shift, rest, tx_size, tx_next,
                     tx_owed, garbled>>
  BY <1>1 DEF Start, Started, tx_fifo
<1>3. dma_ie' /\ ~ftf'
  <2>1. dma_ie' = dma_ie /\ ftf' = FALSE
    BY DEF Start
  <2>2. dma_ie
    BY <1>1 DEF TxData, TxFilled, Starting
  <2>3. QED
    BY <2>1, <2>2
<1>4. /\ n \in 1..TxCap /\ tx_count \in 1..TxCap
      /\ tx_read \in 0..(TxCap - 1) /\ TxCap \in Nat \ {0}
  BY <1>1 DEF TxData, TxTypes, Chunk, Least, TxFits
<1> HIDE DEF n
<1>5. tx_dma'.addr = tx_read /\ tx_dma'.left = n /\ tx_dma'.total = n
  BY <1>2
<1>6. TxTypes'
  BY <1>1, <1>2, <1>4 DEF TxData, TxTypes
<1>7. tx_owed' = Taken(tx_buff', tx_dma'.addr, tx_count' - (tx_dma'.total - tx_dma'.left))
  <2>1. tx_count - (n - n) = tx_count
    BY <1>4
  <2>2. QED
    BY <1>1, <1>2, <1>5, <2>1
<1>8. TxRunning'
  <2>1. tx_dma'.total = Chunk(tx_read', tx_count')
    BY <1>2, <1>5 DEF n
  <2>2. /\ tx_dma'.left <= tx_dma'.total
        /\ tx_dma'.addr = tx_read' + tx_dma'.total - tx_dma'.left
        /\ ~(tx_dma'.left = 0)
    BY <1>2, <1>4, <1>5
  <2>3. dma_ie' /\ (ftf' <=> tx_dma'.left = 0)
    BY <1>3, <2>2
  <2>4. QED
    BY <1>7, <2>1, <2>2, <2>3 DEF TxRunning
<1>9. TxEmpty' /\ TxFilled' /\ TxBegun' /\ ~garbled'
  BY <1>1, <1>2, <1>4 DEF TxData, TxEmpty, TxFilled, TxBegun, Starting
<1>10. QED
  BY <1>6, <1>8, <1>9 DEF TxData

(* The port is initialised again only when everything has gone. *)
LEMMA TxInitAgainData == ASSUME TxFits, TxData, com_init PROVE TxData'
<1>1. /\ tx_dma' = [addr |-> 0, left |-> 0, total |-> 0]
      /\ tx_buff' = [a \in 0..(TxCap - 1) |-> TxCleared]
      /\ tx_read' = 0 /\ tx_write' = 0 /\ shift' = 0 /\ tx_owed' = <<>>
      /\ UNCHANGED <<tx_count, caller, rest, tx_size, tx_next, garbled>>
      /\ caller = "out" /\ tx_count = 0
  BY DEF TxFits, com_init, Off, TxIdle
<1>2. ~dma_ie' /\ ~tcie' /\ ~ftf'
  BY DEF com_init
<1>3. TxTypes'
  BY <1>1 DEF TxData, TxTypes, TxFits
<1>4. TxEmpty' /\ TxFilled' /\ TxRunning' /\ TxBegun' /\ ~garbled'
  BY <1>1, <1>2 DEF TxData, TxEmpty, TxFilled, TxRunning, TxBegun, Starting
<1>5. QED
  BY <1>3, <1>4 DEF TxData

-----------------------------------------------------------------------------
(* The hardware and its interrupts. *)

(* While the channel has bytes left, com_send has started it and the part it *)
(* works on ends in the buffer.                                              *)
LEMMA TxBusy ==
    ASSUME TxFits, TxData, tx_dma.left > 0 \/ (ftf /\ dma_ie)
    PROVE  /\ ~Starting /\ rest = 0 /\ tx_count \in 1..TxCap
           /\ dma_ie /\ (ftf <=> tx_dma.left = 0)
           /\ tx_dma.total = Chunk(tx_read, tx_count)
           /\ tx_dma.addr = tx_read + tx_dma.total - tx_dma.left
           /\ tx_owed = Taken(tx_buff, tx_dma.addr, tx_count - (tx_dma.total - tx_dma.left))
           /\ tx_dma.total \in 1..tx_count /\ tx_read + tx_dma.total \in 1..TxCap
           /\ tx_dma.left \in 0..tx_dma.total /\ tx_dma.addr \in 0..TxCap
           /\ tx_read \in 0..(TxCap - 1) /\ TxCap \in Nat \ {0}
<1>1. /\ tx_read \in 0..(TxCap - 1) /\ TxCap \in Nat \ {0} /\ tx_count \in 0..TxCap
      /\ tx_dma.left \in 0..TxCap /\ tx_dma.addr \in 0..TxCap
      /\ rest \in Nat
  BY DEF TxData, TxTypes, TxFits
<1>2. ~Starting /\ tx_count > 0
  BY <1>1 DEF TxData, TxEmpty, TxFilled
<1>3. rest = 0
  BY <1>1, <1>2 DEF TxData, TxBegun
<1>4. /\ dma_ie /\ (ftf <=> tx_dma.left = 0)
      /\ tx_dma.total = Chunk(tx_read, tx_count) /\ tx_dma.left <= tx_dma.total
      /\ tx_dma.addr = tx_read + tx_dma.total - tx_dma.left
      /\ tx_owed = Taken(tx_buff, tx_dma.addr, tx_count - (tx_dma.total - tx_dma.left))
  BY <1>2 DEF TxData, TxRunning
<1>5. tx_dma.total \in 1..tx_count /\ tx_read + tx_dma.total \in 1..TxCap
  BY <1>1, <1>2, <1>4 DEF Chunk, Least
<1>6. QED
  BY <1>1, <1>2, <1>3, <1>4, <1>5

LEMMA TxFeedData == ASSUME TxFits, TxData, Feed PROVE TxData'
<1> DEFINE m == tx_count - (tx_dma.total - tx_dma.left)
<1>1. /\ tx_dma.left > 0 /\ shift' = shift + 1 /\ shift < 2
      /\ tx_dma' = [tx_dma EXCEPT !.addr = @ + 1, !.left = @ - 1]
      /\ UNCHANGED <<tx_buff, tx_read, tx_write, tx_count, dma_ie, tcie, caller, rest,
                     tx_size, tx_next>>
      /\ IF tx_owed # <<>> /\ tx_dma.addr < TxCap /\ tx_buff[tx_dma.addr] = Head(tx_owed)
         THEN tx_owed' = Tail(tx_owed) /\ garbled' = garbled
         ELSE garbled' = TRUE /\ tx_owed' = tx_owed
  BY DEF Feed, tx_fifo
<1>2. ftf' <=> tx_dma.left = 1
  BY DEF Feed
<1>3. /\ ~Starting /\ rest = 0 /\ tx_count \in 1..TxCap
      /\ tx_dma.total = Chunk(tx_read, tx_count)
      /\ tx_dma.addr = tx_read + tx_dma.total - tx_dma.left
      /\ dma_ie /\ tx_owed = Taken(tx_buff, tx_dma.addr, m)
      /\ tx_dma.total \in 1..tx_count /\ tx_read + tx_dma.total \in 1..TxCap
      /\ tx_dma.left \in 1..tx_dma.total
      /\ tx_read \in 0..(TxCap - 1) /\ TxCap \in Nat \ {0}
  BY <1>1, TxBusy
<1>4. tx_dma.addr \in 0..(TxCap - 1) /\ m \in 1..TxCap
  BY <1>3
<1>5. tx_buff \in [0..(TxCap - 1) -> TxByte \cup {TxCleared}]
  BY DEF TxData, TxTypes
<1>6. /\ tx_owed # <<>> /\ Head(tx_owed) = tx_buff[tx_dma.addr]
      /\ Tail(tx_owed) = Taken(tx_buff, tx_dma.addr + 1, m - 1)
  <2>1. /\ Taken(tx_buff, tx_dma.addr, m) # <<>>
        /\ Head(Taken(tx_buff, tx_dma.addr, m)) = tx_buff[tx_dma.addr]
        /\ Tail(Taken(tx_buff, tx_dma.addr, m)) = Taken(tx_buff, tx_dma.addr + 1, m - 1)
    <3> HIDE DEF m
    <3>1. QED
      BY <1>4, <1>5, TakenTail
  <2>2. QED
    BY <1>3, <2>1
<1>7. tx_owed' = Taken(tx_buff, tx_dma.addr + 1, m - 1) /\ garbled' = garbled
  <2>1. tx_dma.addr < TxCap
    BY <1>3, <1>4
  <2>2. QED
    BY <1>1, <1>6, <2>1
<1>8. tx_dma \in [addr : 0..TxCap, left : 0..TxCap, total : 0..TxCap]
  BY DEF TxData, TxTypes
<1>9. /\ tx_dma' = [addr |-> tx_dma.addr + 1, left |-> tx_dma.left - 1,
                    total |-> tx_dma.total]
      /\ tx_dma'.addr = tx_dma.addr + 1 /\ tx_dma'.left = tx_dma.left - 1
      /\ tx_dma'.total = tx_dma.total
  BY <1>1, <1>8
<1>10. TxTypes'
  <2>1. /\ tx_dma.addr + 1 \in 0..TxCap /\ tx_dma.left - 1 \in 0..TxCap
        /\ tx_dma.total \in 0..TxCap
    BY <1>3, <1>4
  <2>2. tx_dma' \in [addr : 0..TxCap, left : 0..TxCap, total : 0..TxCap]
    BY <1>9, <2>1
  <2>3. shift' \in 0..2
    BY <1>1 DEF TxData, TxTypes
  <2>4. QED
    BY <1>1, <2>2, <2>3 DEF TxData, TxTypes
<1>11. TxRunning'
  <2>1. tx_count' - (tx_dma'.total - tx_dma'.left) = m - 1
    BY <1>1, <1>3, <1>9
  <2>2. tx_owed' = Taken(tx_buff', tx_dma'.addr, tx_count' - (tx_dma'.total - tx_dma'.left))
    <3> HIDE DEF m
    <3>1. QED
      BY <1>1, <1>7, <1>9, <2>1
  <2>3. /\ tx_dma'.total = Chunk(tx_read', tx_count')
        /\ tx_dma'.left <= tx_dma'.total
        /\ tx_dma'.addr = tx_read' + tx_dma'.total - tx_dma'.left
    BY <1>1, <1>3, <1>9
  <2>4. dma_ie' /\ (ftf' <=> tx_dma'.left = 0)
    BY <1>1, <1>2, <1>3, <1>9
  <2>5. QED
    BY <2>2, <2>3, <2>4 DEF TxRunning
<1>12. TxEmpty' /\ TxFilled' /\ TxBegun' /\ ~garbled'
  BY <1>1, <1>3, <1>7 DEF TxData, TxEmpty, TxFilled, TxBegun, Starting
<1>13. QED
  BY <1>10, <1>11, <1>12 DEF TxData

LEMMA TxShiftData == ASSUME TxFits, TxData, Shift PROVE TxData'
<1>1. /\ UNCHANGED <<tx_buff, tx_read, tx_write, tx_count, tx_dma, ftf, dma_ie, tcie, caller,
                     rest, tx_size, tx_next, tx_owed, garbled>>
      /\ shift > 0 /\ shift' = shift - 1
  BY DEF Shift, tx_fifo
<1>2. TxTypes'
  BY <1>1 DEF TxData, TxTypes, TxByte, TxBytes
<1>3. TxBegun'
  BY <1>1 DEF TxData, TxTypes, TxBegun, Starting
<1>4. TxEmpty' /\ TxFilled' /\ TxRunning' /\ ~garbled'
  BY <1>1 DEF TxData, TxEmpty, TxFilled, TxRunning, Starting, Chunk, Least
<1>5. QED
  BY <1>2, <1>3, <1>4 DEF TxData

(* on_dma_tx goes on at the beginning of the buffer, where the rest of what  *)
(* is owed lies, or finds that nothing is left.                              *)
LEMMA TxDmaData == ASSUME TxFits, TxData, on_dma_tx PROVE TxData'
<1> DEFINE r == (tx_read + tx_dma.total) % TxCap
           n == tx_count - tx_dma.total
<1>1. ftf /\ dma_ie
  BY DEF on_dma_tx, DmaPending
<1>2. /\ ~Starting /\ rest = 0 /\ tx_count \in 1..TxCap
      /\ tx_dma.left = 0 /\ tx_dma.total = Chunk(tx_read, tx_count)
      /\ tx_dma.addr = tx_read + tx_dma.total - tx_dma.left
      /\ tx_owed = Taken(tx_buff, tx_dma.addr, tx_count - (tx_dma.total - tx_dma.left))
      /\ tx_dma.total \in 1..tx_count /\ tx_read + tx_dma.total \in 1..TxCap
      /\ tx_read \in 0..(TxCap - 1) /\ TxCap \in Nat \ {0}
  BY <1>1, TxBusy
<1>3. tx_dma.addr = tx_read + tx_dma.total /\ tx_dma.total - tx_dma.left = tx_dma.total
  BY <1>2
<1>4. /\ tx_read' = r /\ tx_count' = n
      /\ UNCHANGED <<tx_buff, tx_write, tcie, shift, caller, rest, tx_size, tx_next,
                     tx_owed, garbled>>
      /\ n = 0 => tx_dma' = [tx_dma EXCEPT !.left = 0]
      /\ n # 0 => tx_dma' = [addr |-> r, left |-> Chunk(r, n), total |-> Chunk(r, n)]
  <2>1. /\ tx_count - (tx_dma.total - tx_dma.left) = n
        /\ (tx_read + (tx_dma.total - tx_dma.left)) % TxCap = r
    BY <1>3
  <2> HIDE DEF n, r
  <2>2. QED
    BY <2>1 DEF on_dma_tx, Started
<1>5. r \in 0..(TxCap - 1) /\ n \in 0..TxCap
  BY <1>2
<1>6. ASSUME n # 0 PROVE r = 0 /\ Chunk(r, n) = n /\ tx_dma.addr = TxCap
  <2>1. tx_read + tx_dma.total = TxCap /\ TxCap \in TxCap..(2 * TxCap - 1)
    BY <1>2, <1>6 DEF Chunk, Least
  <2>2. r = 0
    BY <1>2, <2>1, TxMod
  <2>3. QED
    BY <1>2, <1>3, <1>5, <2>1, <2>2 DEF Chunk, Least
<1>7. tx_dma \in [addr : 0..TxCap, left : 0..TxCap, total : 0..TxCap]
  BY DEF TxData, TxTypes
<1>8. CASE n = 0
  <2>1. tx_dma' = tx_dma /\ tx_count' = 0
    BY <1>2, <1>4, <1>7, <1>8
  <2>2. ~dma_ie' /\ ~ftf'
    <3>1. dma_ie' = FALSE /\ ftf' = FALSE
      BY <1>3, <1>8 DEF on_dma_tx
    <3>2. QED
      BY <3>1
  <2>3. tx_owed' = <<>>
    BY <1>2, <1>3, <1>4, <1>8, TakenNone
  <2>4. TxTypes'
    <3> HIDE DEF r
    <3>1. QED
      BY <1>4, <1>5, <1>8, <2>1 DEF TxData, TxTypes
  <2>5. TxEmpty' /\ TxFilled' /\ TxRunning' /\ TxBegun' /\ ~garbled'
    BY <1>2, <1>4, <2>1, <2>2, <2>3
       DEF TxData, TxEmpty, TxFilled, TxRunning, TxBegun, Starting
  <2>6. QED
    BY <2>4, <2>5 DEF TxData
<1>9. CASE n # 0
  <2>1. /\ tx_read' = 0 /\ tx_count' = n /\ n \in 1..TxCap
        /\ tx_dma' = [addr |-> 0, left |-> n, total |-> n]
        /\ tx_dma'.addr = 0 /\ tx_dma'.left = n /\ tx_dma'.total = n
    <3>1. r = 0 /\ Chunk(r, n) = n
      BY <1>6, <1>9
    <3> HIDE DEF r, n
    <3>2. QED
      BY <1>2, <1>4, <1>5, <1>9, <3>1
  <2>2. dma_ie' /\ ~ftf'
    <3>1. dma_ie' = dma_ie /\ ftf' = FALSE
      BY <1>3, <1>9 DEF on_dma_tx
    <3>2. QED
      BY <1>1, <3>1
  <2>3. Taken(tx_buff, TxCap, n) = Taken(tx_buff, 0, n)
    <3>1. \A k \in 1..n : TxNth(TxCap, k - 1) = TxNth(0, k - 1)
      BY <1>2, <2>1 DEF TxNth
    <3>2. QED
      BY <3>1 DEF Taken
  <2>4. tx_owed' = Taken(tx_buff', tx_dma'.addr, tx_count' - (tx_dma'.total - tx_dma'.left))
    <3>1. tx_owed = Taken(tx_buff, TxCap, n)
      BY <1>2, <1>3, <1>6, <1>9
    <3>2. tx_count' - (tx_dma'.total - tx_dma'.left) = n
      BY <2>1
    <3> HIDE DEF n
    <3>3. QED
      BY <1>4, <2>1, <2>3, <3>1, <3>2
  <2> HIDE DEF r, n
  <2>5. TxTypes'
    BY <1>2, <1>4, <1>7, <2>1 DEF TxData, TxTypes
  <2>6. TxRunning'
    <3>1. /\ tx_dma'.total = Chunk(tx_read', tx_count')
          /\ tx_dma'.left <= tx_dma'.total /\ tx_dma'.left # 0
          /\ tx_dma'.addr = tx_read' + tx_dma'.total - tx_dma'.left
      BY <1>2, <2>1 DEF Chunk, Least
    <3>2. QED
      BY <2>2, <2>4, <3>1 DEF TxRunning
  <2>7. TxEmpty' /\ TxFilled' /\ TxBegun' /\ ~garbled'
    BY <1>2, <1>4, <2>1 DEF TxData, TxEmpty, TxFilled, TxBegun, Starting
  <2>8. QED
    BY <2>5, <2>6, <2>7 DEF TxData
<1>10. QED
  BY <1>8, <1>9

LEMMA TxIrqData ==
    ASSUME TxFits, TxData, on_irq_tc \/ UNCHANGED tx_vars
    PROVE  TxData'
<1>1. UNCHANGED <<tx_buff, tx_read, tx_write, tx_count, tx_dma, ftf, dma_ie, tc, caller, rest,
                  tx_size, tx_next, tx_owed, garbled, shift>>
  BY DEF on_irq_tc, tx_vars, tx_fifo
<1>2. (tcie' => tcie) /\ (caller = "go" => tcie')
  <2>1. CASE on_irq_tc
    <3>1. tcie' = FALSE /\ tc
      BY <2>1 DEF on_irq_tc, TcPending
    <3>2. caller # "go"
      BY <3>1 DEF TxData, TxBegun
    <3>3. QED
      BY <3>1, <3>2
  <2>2. CASE UNCHANGED tx_vars
    BY <2>2 DEF tx_vars, TxData, TxBegun
  <2>3. QED
    BY <2>1, <2>2
<1>3. TxTypes'
  BY <1>1 DEF TxData, TxTypes, TxByte, TxBytes
<1>4. TxEmpty' /\ TxFilled' /\ TxRunning' /\ ~garbled'
  BY <1>1 DEF TxData, TxEmpty, TxFilled, TxRunning, Starting, Chunk, Least
<1>5. TxBegun'
  BY <1>1, <1>2 DEF TxData, TxBegun, Starting
<1>6. QED
  BY <1>3, <1>4, <1>5 DEF TxData

LEMMA TxNextData == ASSUME TxFits, TxData, [TxNext]_tx_vars PROVE TxData'
  BY TxSendData, TxCopyData, TxSizeData, TxArmData, TxStartData, TxReturnData,
     TxInitAgainData, TxFeedData, TxShiftData, TxDmaData, TxIrqData DEF TxNext

(* com_send "sends data through the FIFO": for a buffer of any size, messages *)
(* that fit into it, and interrupts held back as long as one likes, the bytes *)
(* given to the UART are those of the message, in order, and all of them are  *)
(* when transmission stops.                                                   *)
THEOREM SentFaithfully ==
    ASSUME ~Overlap, TxLens \subseteq 1..TxCap
    PROVE  TxSpec => []Faithful
<1>0. TxFits
  BY SerialTxAssumption DEF TxFits
<1>1. TxInit => TxData
  BY <1>0, TxInitData
<1>2. TxData /\ [TxNext]_tx_vars => TxData'
  BY <1>0, TxNextData
<1>3. TxData => Faithful
  BY DEF TxData, TxEmpty, Faithful, TxIdle
<1>4. QED
  BY <1>1, <1>2, <1>3, PTL DEF TxSpec

-----------------------------------------------------------------------------
(* The bus.  As long as no interrupt is late, TC stays clear from the start  *)
(* of the channel until the last byte of the message has gone.               *)

TxDriver ==
    /\ ~half => dir = "rxtx"
    /\ ~late /\ (tx_count > 0 \/ shift > 0) =>
           /\ dir # "rx"
           /\ caller \notin {"start", "arm"} => ~tc

LEMMA TxInitDriver == ASSUME TxInit PROVE TxDriver
  BY DEF TxInit, TxDriver, IdleDriver

LEMMA TxPasses == ASSUME Passes, ~late' PROVE ~late /\ ~(ftf /\ dma_ie)
  BY DEF Passes, DmaPending

(* com_send turns the bus before it starts the channel, and clears TC then. *)
LEMMA TxSendDriver ==
    ASSUME TxFits, TxData, TxDriver,
           \/ \E n \in TxLens : Send(n)
           \/ TxCopy \/ Size \/ Arm \/ Start \/ Return \/ com_init
    PROVE  TxDriver'
<1>1. CASE \E n \in TxLens : Send(n)
  <2>1. tx_count' = 0 /\ shift' = 0 /\ half' = half /\ dir' = dir
    BY <1>1 DEF TxFits, Send, TxIdle, tx_fifo
  <2>2. QED
    BY <2>1 DEF TxDriver
<1>2. CASE TxCopy
  <2>1. /\ half' = half /\ dir' = (IF half THEN "tx" ELSE dir) /\ caller' = "start"
    BY <1>2 DEF TxCopy, com_set_mode
  <2>2. QED
    BY <2>1 DEF TxDriver
<1>3. CASE Size \/ Arm \/ Start
  <2>1. half' = half /\ dir' = dir /\ tx_count' = tx_count /\ shift' = shift
    BY <1>3 DEF Size, Arm, Start, tx_fifo
  <2>2. ~late' => ~late
    BY <1>3, TxPasses DEF Size, Arm, Start
  <2>3. caller' \notin {"start", "arm"} => ~tc'
    <3>1. CASE Size
      BY <3>1 DEF Size
    <3>2. CASE Arm
      BY <3>2 DEF Arm
    <3>3. CASE Start
      BY <3>3 DEF Start, TxData, TxBegun
    <3>4. QED
      BY <1>3, <3>1, <3>2, <3>3
  <2>4. QED
    BY <2>1, <2>2, <2>3 DEF TxDriver
<1>4. CASE Return
  <2>1. /\ half' = half /\ dir' = dir /\ tx_count' = tx_count /\ shift' = shift
        /\ caller = "copy" /\ tc' = tc
    BY <1>4 DEF Return, tx_fifo, tx_flags
  <2>2. ~late' => ~late
    BY <1>4, TxPasses DEF Return
  <2>3. QED
    BY <2>1, <2>2 DEF TxDriver
<1>5. CASE com_init
  <2>1. tx_count' = 0 /\ shift' = 0
    BY <1>5 DEF TxFits, com_init, TxIdle
  <2>2. ~half' => dir' = "rxtx"
    BY <1>5 DEF com_init, IdleDriver
  <2>3. QED
    BY <2>1, <2>2 DEF TxDriver
<1>6. QED
  BY <1>1, <1>2, <1>3, <1>4, <1>5

(* While the channel works the UART is kept full, so that it runs dry, and   *)
(* sets TC, only after the interrupt that follows the last part.             *)
LEMMA TxLineDriver ==
    ASSUME TxFits, TxData, TxDriver, Feed \/ Shift
    PROVE  TxDriver'
<1>1. CASE Feed
  <2>1. /\ half' = half /\ dir' = dir /\ tx_count' = tx_count
        /\ caller' = caller /\ tc' = tc /\ tx_dma.left > 0
    BY <1>1 DEF Feed, tx_fifo
  <2>2. ~late' => ~late
    BY <1>1, TxPasses DEF Feed
  <2>3. tx_count > 0
    BY <2>1, TxBusy
  <2>4. QED
    BY <2>1, <2>2, <2>3 DEF TxDriver
<1>2. CASE Shift
  <2>1. /\ half' = half /\ dir' = dir /\ tx_count' = tx_count /\ caller' = caller
        /\ shift > 0 /\ shift' = shift - 1 /\ shift \in 0..2
        /\ tx_dma.left = 0 \/ shift = 2
    BY <1>2 DEF Shift, tx_fifo, TxData, TxTypes
  <2>2. tc' => tc \/ shift = 1
    BY <1>2 DEF Shift
  <2>3. ASSUME ~late' PROVE ~late /\ ~(ftf /\ dma_ie)
    BY <1>2, <2>3, TxPasses DEF Shift
  <2>4. ~Starting /\ caller \notin {"start", "arm"}
    BY <2>1 DEF TxData, TxBegun, Starting
  <2>5. ASSUME ~late', tx_count > 0 \/ shift - 1 > 0 PROVE dir # "rx" /\ ~tc'
    <3>1. dir # "rx" /\ ~tc
      BY <2>1, <2>3, <2>4, <2>5 DEF TxDriver
    <3>2. shift # 1
      <4>1. CASE tx_count > 0
        <5>1. tx_dma.left # 0
          BY <2>3, <2>4, <2>5, <4>1 DEF TxData, TxRunning
        <5>2. QED
          BY <2>1, <5>1
      <4>2. CASE shift - 1 > 0
        BY <4>2
      <4>3. QED
        BY <2>5, <4>1, <4>2
    <3>3. QED
      BY <2>2, <3>1, <3>2
  <2>6. QED
    BY <2>1, <2>5 DEF TxDriver
<1>3. QED
  BY <1>1, <1>2

LEMMA TxIrqDriver ==
    ASSUME TxFits, TxData, TxDriver, on_dma_tx \/ on_irq_tc
    PROVE  TxDriver'
<1>1. CASE on_dma_tx
  <2>1. /\ half' = half /\ shift' = shift /\ caller' = caller /\ tc' = tc /\ late' = late
    BY <1>1 DEF on_dma_tx
  <2>2. dir' = dir \/ dir' = IF half THEN "tx" ELSE dir
    BY <1>1 DEF on_dma_tx, com_set_mode
  <2>3. tx_count > 0
    BY <1>1, TxBusy DEF on_dma_tx, DmaPending
  <2>4. QED
    BY <2>1, <2>2, <2>3 DEF TxDriver
<1>2. CASE on_irq_tc
  <2>1. /\ half' = half /\ shift' = shift /\ caller' = caller /\ tx_count' = tx_count
        /\ late' = late /\ dir' = IF half THEN "rx" ELSE dir
    BY <1>2 DEF on_irq_tc, com_set_mode, tx_fifo
  <2>2. tc /\ tcie
    BY <1>2 DEF on_irq_tc, TcPending
  <2>3. caller \notin {"start", "arm"}
    BY <2>2 DEF TxData, TxBegun
  <2>4. late \/ ~(tx_count > 0 \/ shift > 0)
    BY <2>2, <2>3 DEF TxDriver
  <2>5. QED
    BY <2>1, <2>4 DEF TxDriver
<1>3. QED
  BY <1>1, <1>2

(* The bus is driven as long as a byte is in the UART, for a buffer of any   *)
(* size and messages that fit, unless a critical section has held an         *)
(* interrupt back: neither the TC of the part before the wrap-around nor that *)
(* of an earlier message turns the bus.                                      *)
THEOREM BusStaysDriven ==
    ASSUME ~Overlap, TxLens \subseteq 1..TxCap
    PROVE  TxSpec => []DriverOn
<1>0. TxFits
  BY SerialTxAssumption DEF TxFits
<1>1. TxInit => TxData /\ TxDriver
  BY <1>0, TxInitData, TxInitDriver
<1>2. TxData /\ TxDriver /\ [TxNext]_tx_vars => TxData' /\ TxDriver'
  <2>1. SUFFICES ASSUME TxData, TxDriver, [TxNext]_tx_vars PROVE TxData' /\ TxDriver'
    OBVIOUS
  <2>2. TxData'
    BY <1>0, <2>1, TxNextData
  <2>3. ASSUME UNCHANGED tx_vars PROVE TxDriver'
    BY <2>1, <2>3 DEF TxDriver, tx_vars
  <2>4. TxDriver'
    BY <1>0, <2>1, <2>3, TxSendDriver, TxLineDriver, TxIrqDriver DEF TxNext
  <2>5. QED
    BY <2>2, <2>4
<1>3. TxDriver => DriverOn
  BY DEF TxDriver, DriverOn
<1>4. QED
  BY <1>1, <1>2, <1>3, PTL DEF TxSpec

-----------------------------------------------------------------------------
(* The bus is given back by the TC interrupt, which com_send arms when it    *)
(* starts the channel and on_irq_all disarms.  on_dma_tx turns the bus to    *)
(* transmission again for the rest of a message and arms nothing: between    *)
(* the two parts TC must not have been taken for the end of the message.     *)
(* TC is set only by a UART that has run dry, that is after the channel has  *)
(* finished its part, and then on_dma_tx comes first.                        *)

TxHeld == dir = "tx" => half /\ (tcie \/ caller \in {"start", "arm"})

TxParts ==
    ~Starting /\ tx_count > tx_dma.total =>
        tcie /\ (tc => tx_dma.left = 0)

LEMMA TxInitParts == ASSUME TxInit PROVE TxHeld /\ TxParts
  BY DEF TxInit, TxHeld, TxParts, Starting, IdleDriver, Off

LEMMA TxSendParts ==
    ASSUME TxFits, TxData, TxHeld, TxParts,
           \/ \E n \in TxLens : Send(n)
           \/ TxCopy \/ Size \/ Arm \/ Start \/ Return \/ com_init
    PROVE  TxHeld' /\ TxParts'
<1>1. CASE \E n \in TxLens : Send(n)
  <2>1. /\ UNCHANGED <<half, dir, tx_count, tx_dma>> /\ (tcie' <=> tcie)
        /\ tx_count = 0 /\ caller = "out" /\ ~tcie
    BY <1>1 DEF TxFits, Send, TxIdle, tx_fifo, tx_flags
  <2>2. tx_dma.total \in Nat
    BY DEF TxData, TxTypes, TxFits
  <2>3. QED
    BY <2>1, <2>2 DEF TxHeld, TxParts, Starting
<1>2. CASE TxCopy
  <2>1. half' = half /\ dir' = (IF half THEN "tx" ELSE dir) /\ caller' = "start"
    BY <1>2 DEF TxCopy, com_set_mode
  <2>2. QED
    BY <2>1 DEF TxHeld, TxParts, Starting
<1>3. CASE Size \/ Arm \/ Start
  <2>1. half' = half /\ dir' = dir /\ caller \in {"start", "arm", "go"}
    BY <1>3 DEF Size, Arm, Start
  <2>2. CASE Size
    <3>1. caller' = "arm"
      BY <2>2 DEF Size
    <3>2. QED
      BY <2>1, <3>1 DEF TxHeld, TxParts, Starting
  <2>3. CASE Arm
    <3>1. caller' = "go" /\ tcie'
      BY <2>3 DEF Arm
    <3>2. QED
      BY <2>1, <3>1 DEF TxHeld, TxParts, Starting
  <2>4. CASE Start
    <3>1. tcie' /\ ~tc'
      BY <2>4 DEF Start, TxData, TxBegun
    <3>2. QED
      BY <2>1, <3>1 DEF TxHeld, TxParts, Starting
  <2>5. QED
    BY <1>3, <2>2, <2>3, <2>4
<1>4. CASE Return
  <2>1. /\ UNCHANGED <<half, dir, tx_count, tx_dma>>
        /\ caller = "copy"
    BY <1>4 DEF Return, tx_fifo, tx_flags
  <2>2. (tcie' <=> tcie) /\ (tc' <=> tc)
    BY <1>4 DEF Return, tx_flags
  <2>3. QED
    BY <2>1, <2>2 DEF TxHeld, TxParts, Starting
<1>5. CASE com_init
  <2>1. tx_count' = 0 /\ tx_dma'.total = 0
    BY <1>5 DEF TxFits, com_init, TxIdle, Off
  <2>2. dir' # "tx"
    BY <1>5 DEF com_init, IdleDriver
  <2>3. QED
    BY <2>1, <2>2 DEF TxHeld, TxParts, Starting
<1>6. QED
  BY <1>1, <1>2, <1>3, <1>4, <1>5

LEMMA TxLineParts ==
    ASSUME TxFits, TxData, TxHeld, TxParts, Feed \/ Shift \/ UNCHANGED tx_vars
    PROVE  TxHeld' /\ TxParts'
<1>1. CASE Feed
  <2>1. /\ UNCHANGED <<half, dir, tx_count, caller>> /\ tx_dma.left > 0
        /\ tx_dma' = [tx_dma EXCEPT !.addr = @ + 1, !.left = @ - 1]
    BY <1>1 DEF Feed, tx_fifo
  <2>2. (tcie' <=> tcie) /\ (tc' <=> tc)
    BY <1>1 DEF Feed
  <2>3. tx_dma'.total = tx_dma.total
    BY <2>1 DEF TxData, TxTypes
  <2>4. ASSUME ~Starting, tx_count > tx_dma.total PROVE tcie /\ ~tc
    <3>1. tcie /\ (tc => tx_dma.left = 0)
      BY <2>4 DEF TxParts
    <3>2. tx_dma.left # 0
      BY <2>1
    <3>3. QED
      BY <3>1, <3>2
  <2>5. QED
    BY <2>1, <2>2, <2>3, <2>4 DEF TxHeld, TxParts, Starting
<1>2. CASE Shift
  <2>1. /\ UNCHANGED <<half, dir, tx_count, tx_dma, caller>>
        /\ tx_dma.left = 0 \/ shift = 2
    BY <1>2 DEF Shift, tx_fifo
  <2>2. (tcie' <=> tcie) /\ (tc' <=> tc \/ shift = 1)
    BY <1>2 DEF Shift
  <2>3. QED
    BY <2>1, <2>2 DEF TxHeld, TxParts, Starting
<1>3. CASE UNCHANGED tx_vars
  BY <1>3 DEF TxHeld, TxParts, Starting, tx_vars
<1>4. QED
  BY <1>1, <1>2, <1>3

LEMMA TxIrqParts ==
    ASSUME TxFits, TxData, TxHeld, TxParts, on_dma_tx \/ on_irq_tc
    PROVE  TxHeld' /\ TxParts'
<1>1. CASE on_dma_tx
  <2> DEFINE r == (tx_read + tx_dma.total) % TxCap
             n == tx_count - tx_dma.total
  <2>1. ftf /\ dma_ie
    BY <1>1 DEF on_dma_tx, DmaPending
  <2>2. /\ ~Starting /\ tx_count \in 1..TxCap /\ tx_dma.left = 0
        /\ tx_dma.total = Chunk(tx_read, tx_count) /\ tx_dma.total \in 1..tx_count
        /\ tx_read \in 0..(TxCap - 1) /\ TxCap \in Nat \ {0}
    BY <2>1, TxBusy
  <2>3. /\ tx_dma.total - tx_dma.left = tx_dma.total
    BY <2>2
  <2>4. half' = half /\ caller' = caller /\ tx_count' = n
    BY <1>1, <2>3 DEF on_dma_tx
  <2>5. (tcie' <=> tcie) /\ (tc' <=> tc)
    BY <1>1 DEF on_dma_tx
  <2>6. CASE n = 0
    <3>1. dir' = dir /\ tx_dma' = [tx_dma EXCEPT !.left = 0]
      BY <1>1, <2>3, <2>6 DEF on_dma_tx
    <3>2. tx_dma'.total = tx_dma.total
      BY <3>1 DEF TxData, TxTypes
    <3>3. ~(tx_count' > tx_dma'.total)
      BY <2>2, <2>4, <2>6, <3>2
    <3>4. QED
      BY <2>4, <2>5, <3>1, <3>3 DEF TxHeld, TxParts, Starting
  <2>7. CASE n # 0
    <3>1. tx_read + tx_dma.total = TxCap /\ n \in 1..TxCap /\ tx_count > tx_dma.total
      BY <2>2, <2>7 DEF Chunk, Least
    <3>2. r = 0
      <4>1. TxCap \in TxCap..(2 * TxCap - 1) /\ TxCap - TxCap = 0
        BY <2>2
      <4>2. QED
        BY <3>1, <4>1, TxMod
    <3>3. Chunk(0, n) = n
      BY <2>2, <3>1 DEF Chunk, Least
    <3>4. tcie
      BY <2>2, <3>1 DEF TxParts
    <3> HIDE DEF n, r
    <3>5. dir' = IF half THEN "tx" ELSE dir
      BY <1>1, <2>3, <2>7 DEF on_dma_tx, com_set_mode, n
    <3>6. tx_dma' = Started(r, Chunk(r, n))
      BY <1>1, <2>3, <2>7 DEF on_dma_tx, n, r
    <3>7. tx_dma'.total = n
      BY <3>2, <3>3, <3>6 DEF Started
    <3>8. ~(tx_count' > tx_dma'.total)
      BY <2>4, <3>1, <3>7
    <3>9. QED
      BY <2>4, <2>5, <3>4, <3>5, <3>8 DEF TxHeld, TxParts, Starting
  <2>8. QED
    BY <2>6, <2>7
<1>2. CASE on_irq_tc
  <2>1. /\ UNCHANGED <<half, caller, tx_count, tx_dma>>
        /\ dir' = IF half THEN "rx" ELSE dir
    BY <1>2 DEF on_irq_tc, com_set_mode, tx_fifo
  <2>2. tc /\ tcie /\ ~(ftf /\ dma_ie)
    BY <1>2 DEF on_irq_tc, TcPending, DmaPending
  <2>3. TxHeld'
    BY <2>1 DEF TxHeld
  <2>4. ASSUME ~Starting, tx_count > tx_dma.total PROVE FALSE
    <3>1. tx_dma.left = 0
      BY <2>2, <2>4 DEF TxParts
    <3>2. tx_count > 0
      BY <2>4 DEF TxData, TxTypes, TxFits
    <3>3. QED
      BY <2>2, <2>4, <3>1, <3>2 DEF TxData, TxRunning
  <2>5. QED
    BY <2>1, <2>3, <2>4 DEF TxParts, Starting
<1>3. QED
  BY <1>1, <1>2

(* In half duplex the bus is driven only while com_send is about to start    *)
(* the channel or the interrupt that gives the bus back is armed, however    *)
(* long interrupts are held back: no message leaves the bus driven with      *)
(* nothing that would release it (com_send, on_dma_tx, on_irq_all).          *)
THEOREM BusIsGivenBack ==
    ASSUME ~Overlap, TxLens \subseteq 1..TxCap
    PROVE  TxSpec => [](dir = "tx" => tcie \/ caller \in {"start", "arm"})
<1>0. TxFits
  BY SerialTxAssumption DEF TxFits
<1>1. TxInit => TxData /\ TxHeld /\ TxParts
  BY <1>0, TxInitData, TxInitParts
<1>2. TxData /\ TxHeld /\ TxParts /\ [TxNext]_tx_vars => TxData' /\ TxHeld' /\ TxParts'
  BY <1>0, TxNextData, TxSendParts, TxLineParts, TxIrqParts DEF TxNext
<1>3. TxHeld => (dir = "tx" => tcie \/ caller \in {"start", "arm"})
  BY DEF TxHeld
<1>4. QED
  BY <1>1, <1>2, <1>3, PTL DEF TxSpec

-----------------------------------------------------------------------------
(* The variables that the argument above does not speak of. *)
TxFlags == /\ half \in BOOLEAN /\ ftf \in BOOLEAN /\ dma_ie \in BOOLEAN
           /\ tc \in BOOLEAN /\ tcie \in BOOLEAN
           /\ garbled \in BOOLEAN /\ late \in BOOLEAN
           /\ dir \in IF half THEN {"tx", "rx"} ELSE {"rxtx"}

TxSafe == TxData /\ TxFlags /\ tx_owed \in Seq(TxByte)

LEMMA TxNextFlags == ASSUME TxFlags, [TxNext]_tx_vars PROVE TxFlags'
<1>1. /\ half \in BOOLEAN /\ ftf \in BOOLEAN /\ dma_ie \in BOOLEAN
      /\ tc \in BOOLEAN /\ tcie \in BOOLEAN
      /\ garbled \in BOOLEAN /\ late \in BOOLEAN
      /\ dir \in IF half THEN {"tx", "rx"} ELSE {"rxtx"}
  BY DEF TxFlags
<1>2. Passes => late' \in BOOLEAN
  BY DEF Passes
<1>3. CASE \E n \in TxLens : Send(n)
  <2>1. UNCHANGED <<half, ftf, dma_ie, tc, tcie, garbled, dir>> /\ late' = FALSE
    BY <1>3 DEF Send, tx_flags
  <2>2. QED
    BY <1>1, <2>1 DEF TxFlags
<1>4. CASE TxCopy
  <2>1. UNCHANGED <<half, ftf, dma_ie, tc, tcie, garbled>> /\ late' \in BOOLEAN
    BY <1>2, <1>4 DEF TxCopy, tx_flags
  <2>2. dir' = IF half THEN "tx" ELSE dir
    BY <1>4 DEF TxCopy, com_set_mode
  <2>3. QED
    BY <1>1, <2>1, <2>2 DEF TxFlags
<1>5. CASE Size \/ Arm \/ Start
  <2>1. UNCHANGED <<half, garbled, dir>> /\ late' \in BOOLEAN
    BY <1>2, <1>5 DEF Size, Arm, Start
  <2>2. ftf' \in {ftf, FALSE} /\ dma_ie' \in {dma_ie, TRUE}
    BY <1>5 DEF Size, Arm, Start, tx_flags
  <2>3. tc' \in {tc, FALSE} /\ tcie' \in {tcie, TRUE}
    BY <1>5 DEF Size, Arm, Start, tx_flags
  <2>4. QED
    BY <1>1, <2>1, <2>2, <2>3 DEF TxFlags
<1>6. CASE Return
  BY <1>1, <1>2, <1>6 DEF TxFlags, Return, tx_flags
<1>7. CASE com_init
  BY <1>1, <1>7 DEF TxFlags, com_init, IdleDriver
<1>8. CASE Feed
  <2>1. UNCHANGED <<half, dma_ie, tc, tcie, dir>> /\ late' \in BOOLEAN
    BY <1>2, <1>8 DEF Feed
  <2>2. ftf' \in BOOLEAN
    BY <1>8 DEF Feed
  <2>3. garbled' \in BOOLEAN
    BY <1>1, <1>8 DEF Feed
  <2>4. QED
    BY <1>1, <2>1, <2>2, <2>3 DEF TxFlags
<1>9. CASE Shift
  <2>1. UNCHANGED <<half, ftf, dma_ie, tcie, garbled, dir>> /\ late' \in BOOLEAN
    BY <1>2, <1>9 DEF Shift
  <2>2. tc' \in BOOLEAN
    BY <1>9 DEF Shift
  <2>3. QED
    BY <1>1, <2>1, <2>2 DEF TxFlags
<1>10. CASE on_dma_tx
  <2>1. UNCHANGED <<half, tc, tcie, garbled, late>> /\ ftf' = FALSE
    BY <1>10 DEF on_dma_tx
  <2>2. dma_ie' \in {FALSE, dma_ie}
    BY <1>10 DEF on_dma_tx
  <2>3. dir' \in {dir, IF half THEN "tx" ELSE dir}
    BY <1>10 DEF on_dma_tx, com_set_mode
  <2>4. QED
    BY <1>1, <2>1, <2>2, <2>3 DEF TxFlags
<1>11. CASE on_irq_tc
  BY <1>1, <1>11 DEF TxFlags, on_irq_tc, com_set_mode
<1>12. CASE UNCHANGED tx_vars
  BY <1>1, <1>12 DEF TxFlags, tx_vars
<1>13. QED
  BY <1>3, <1>4, <1>5, <1>6, <1>7, <1>8, <1>9, <1>10, <1>11, <1>12 DEF TxNext

LEMMA TxOwedTyped ==
    ASSUME TxFits, TxData, tx_owed \in Seq(TxByte), [TxNext]_tx_vars
    PROVE  tx_owed' \in Seq(TxByte)
<1>1. CASE TxCopy
  <2> DEFINE n == Least(rest, TxCap - tx_count)
             more == [k \in 1..n |-> (tx_next + (k - 1)) % TxBytes]
  <2>1. n \in Nat
    BY DEF TxFits, TxData, TxTypes, Least
  <2>2. \A x \in Int : x % TxBytes \in TxByte
    BY DEF TxFits, TxBytes, TxByte
  <2>3. tx_next \in Int
    BY DEF TxFits, TxData, TxTypes, TxByte, TxBytes
  <2>4. \A k \in 1..n : (tx_next + (k - 1)) % TxBytes \in TxByte
    BY <2>1, <2>2, <2>3
  <2>5. tx_owed' = tx_owed \o more
    BY <1>1 DEF TxCopy
  <2> HIDE DEF n
  <2>6. more \in Seq(TxByte)
    BY <2>1, <2>4
  <2> HIDE DEF more
  <2>7. QED
    BY <2>5, <2>6, ConcatProperties
<1>2. CASE Feed
  <2>1. tx_owed' = tx_owed \/ (tx_owed # <<>> /\ tx_owed' = Tail(tx_owed))
    BY <1>2 DEF Feed
  <2>2. QED
    BY <2>1
<1>3. CASE com_init
  BY <1>3 DEF com_init
<1>4. CASE ~(TxCopy \/ Feed \/ com_init)
  <2>1. UNCHANGED tx_owed
    BY <1>4 DEF TxNext, Send, Size, Arm, Start, Return, Shift, on_dma_tx, on_irq_tc, tx_vars
  <2>2. QED
    BY <2>1
<1>5. QED
  BY <1>1, <1>2, <1>3, <1>4

(* The indices of the FIFO and the bytes the channel reads stay in the       *)
(* buffer, for a buffer of any size, messages that fit into it and           *)
(* interrupts held back as long as one likes.  Messages must not overlap:    *)
(* between the computation of the size and gd32_dma_start the interrupt of   *)
(* the one before would move read_idx.                                       *)
THEOREM TxInBounds ==
    ASSUME ~Overlap, TxLens \subseteq 1..TxCap
    PROVE  TxSpec => []TxTypeOK
<1>0. TxFits
  BY SerialTxAssumption DEF TxFits
<1>1. TxInit => TxSafe
  <2>1. TxInit => TxFlags
    BY DEF TxInit, TxFlags, IdleDriver
  <2>2. TxInit => tx_owed \in Seq(TxByte)
    BY DEF TxInit
  <2>3. QED
    BY <1>0, <2>1, <2>2, TxInitData DEF TxSafe
<1>2. TxSafe /\ [TxNext]_tx_vars => TxSafe'
  BY <1>0, TxNextData, TxNextFlags, TxOwedTyped DEF TxSafe
<1>3. TxSafe => TxTypeOK
  <2>1. ASSUME TxData
        PROVE  /\ tx_dma.addr \in 0..TxCap /\ tx_dma.left \in 0..TxCap
               /\ tx_dma.total \in 0..TxCap /\ tx_dma.addr + tx_dma.left <= TxCap
    <3>1. tx_dma.addr \in 0..TxCap /\ tx_dma.left \in 0..TxCap /\ tx_dma.total \in 0..TxCap
      BY <2>1 DEF TxData, TxTypes
    <3>2. CASE tx_dma.left = 0
      BY <1>0, <3>1, <3>2 DEF TxFits
    <3>3. CASE tx_dma.left > 0
      <4>1. /\ tx_dma.total = Chunk(tx_read, tx_count) /\ tx_dma.left <= tx_dma.total
            /\ tx_dma.addr = tx_read + tx_dma.total - tx_dma.left
        BY <1>0, <2>1, <3>3, TxBusy
      <4>2. tx_read \in 0..(TxCap - 1) /\ tx_count \in 0..TxCap
        BY <2>1 DEF TxData, TxTypes
      <4>3. QED
        BY <1>0, <3>1, <4>1, <4>2 DEF TxFits, Chunk, Least
    <3>4. QED
      BY <3>1, <3>2, <3>3
  <2>2. ASSUME TxFlags
        PROVE  /\ {half, ftf, dma_ie, tc, tcie, garbled, late} \subseteq BOOLEAN
               /\ dir \in IF half THEN {"tx", "rx"} ELSE {"rxtx"}
    BY <2>2 DEF TxFlags
  <2>3. TxLens \cup {0} \subseteq Nat
    BY SerialTxAssumption
  <2>4. QED
    BY <2>1, <2>2, <2>3 DEF TxSafe, TxData, TxTypes, TxTypeOK
<1>4. QED
  BY <1>1, <1>2, <1>3, PTL DEF TxSpec

-----------------------------------------------------------------------------
(* Reception, for a buffer, lengths and an agent's ring of any size, with    *)
(* noise, packets that do not fit and late interrupts.                       *)

RxConstants ==
    /\ RxCap \in Nat \ {0, 1} /\ RxCap < U16
    /\ MinLen \in Nat \ {0} /\ MaxLen \in Nat /\ RxCap <= MaxLen
    /\ RxLens \subseteq Nat \ {0}
    /\ Ring \in Nat \ {0}

(* Numbers and flags. *)
RxNumbers ==
    /\ rx_buff \in [0..(RxCap - 1) -> RxByte \cup {RxCleared}]
    /\ rx_dma \in 0..(RxCap - 1) /\ rx_write \in 0..(RxCap - 1)
    /\ rx_read \in 0..(U16 - 1)
    /\ rx_count \in 0..MaxLen /\ rx_len = rx_count
    /\ left \in Nat /\ rx_next \in RxByte

RxBits == /\ idle \in BOOLEAN /\ rx_late \in BOOLEAN
          /\ rx_refused \in BOOLEAN /\ rx_calm \in BOOLEAN

RxQueue == /\ ring \in Seq({"pc", "other"}) /\ Len(ring) <= Ring
           /\ task \in {"wait", "copy", "handle"}

RxTyped == RxNumbers /\ RxBits /\ RxQueue

LEMMA RxUnread ==
    ASSUME RxConstants, NEW w \in Nat, NEW r \in Nat
    PROVE  Unread(w, r) \in Nat
<1>1. \A d \in Int : d % RxCap \in Nat /\ d % U16 \in Nat
  BY DEF RxConstants, U16
<1>2. RxCap + w - r \in Int /\ r - w - RxCap \in Int
  BY DEF RxConstants
<1>3. (U16 - ((r - w - RxCap) % RxCap)) \in Int
  BY <1>1, <1>2 DEF U16
<1>4. QED
  BY <1>1, <1>2, <1>3 DEF Unread

LEMMA RxInitTyped == ASSUME RxConstants, RxInit PROVE RxTyped
<1>1. RxNumbers
  BY DEF RxConstants, RxInit, RxNumbers, RxByte, RxBytes, U16
<1>2. RxBits
  BY DEF RxInit, RxBits
<1>3. RxQueue
  BY DEF RxConstants, RxInit, RxQueue
<1>4. QED
  BY <1>1, <1>2, <1>3 DEF RxTyped

LEMMA RxNextNumbers ==
    ASSUME RxConstants, RxTyped, [RxNext]_rx_vars
    PROVE  RxNumbers'
<1>1. RxCap \in Nat \ {0, 1} /\ U16 \in Nat /\ RxCap < U16 /\ MaxLen \in Nat
  BY DEF RxConstants, U16
<1>2. /\ rx_buff \in [0..(RxCap - 1) -> RxByte \cup {RxCleared}]
      /\ rx_dma \in 0..(RxCap - 1) /\ rx_write \in 0..(RxCap - 1)
      /\ rx_read \in 0..(U16 - 1) /\ rx_count \in 0..MaxLen /\ rx_len = rx_count
      /\ left \in Nat /\ rx_next \in RxByte
  BY DEF RxTyped, RxNumbers
<1>3. CASE \E n \in RxLens : Arrive(n)
  <2>1. /\ UNCHANGED <<rx_buff, rx_dma, rx_write, rx_read, rx_count, rx_len, rx_next>>
        /\ left' \in RxLens
    BY <1>3 DEF Arrive, rx_fifo
  <2>2. left' \in Nat
    BY <2>1 DEF RxConstants
  <2>3. QED
    BY <1>2, <2>1, <2>2 DEF RxNumbers
<1>4. CASE RxReceive
  <2>1. /\ rx_dma' = (rx_dma + 1) % RxCap /\ rx_next' = (rx_next + 1) % RxBytes
        /\ left > 0 /\ left' = left - 1
        /\ rx_buff' = [rx_buff EXCEPT ![rx_dma] = rx_next]
        /\ UNCHANGED <<rx_write, rx_read, rx_count, rx_len>>
    BY <1>4 DEF RxReceive, rx_fifo
  <2>2. rx_dma' \in 0..(RxCap - 1) /\ left' \in Nat
    BY <1>1, <1>2, <2>1
  <2>3. rx_next' \in RxByte
    <3>1. RxBytes \in Nat \ {0} /\ rx_next \in Nat
      BY <1>1, <1>2 DEF RxByte, RxBytes
    <3>2. QED
      BY <2>1, <3>1 DEF RxByte
  <2>4. rx_buff' \in [0..(RxCap - 1) -> RxByte \cup {RxCleared}]
    BY <1>2, <2>1
  <2>5. QED
    BY <1>2, <2>1, <2>2, <2>3, <2>4 DEF RxNumbers
<1>5. CASE on_irq_idle
  <2> DEFINE n == Unread(rx_dma, rx_read)
  <2>1. n \in Nat
    BY <1>2, RxUnread
  <2>2. /\ UNCHANGED <<rx_buff, rx_dma, left, rx_next>> /\ rx_write' = rx_dma
        /\ rx_len' = rx_count'
    BY <1>5 DEF on_irq_idle, rx_line
  <2>3. \/ Accepted(n) /\ rx_count' = n /\ rx_read' = rx_read
        \/ rx_count' = 0 /\ rx_read' = (rx_read + n) % U16
    BY <1>5 DEF on_irq_idle
  <2> HIDE DEF n
  <2>4. rx_count' \in 0..MaxLen /\ rx_read' \in 0..(U16 - 1)
    <3>1. CASE Accepted(n) /\ rx_count' = n /\ rx_read' = rx_read
      BY <1>1, <1>2, <2>1, <3>1 DEF Accepted
    <3>2. CASE rx_count' = 0 /\ rx_read' = (rx_read + n) % U16
      BY <1>1, <1>2, <2>1, <3>2
    <3>3. QED
      BY <2>3, <3>1, <3>2
  <2>5. QED
    BY <1>2, <2>2, <2>4 DEF RxNumbers
<1>6. CASE RxCopy
  <2>1. UNCHANGED <<rx_buff, rx_dma, rx_write, left, rx_next>>
    BY <1>6 DEF RxCopy, rx_line
  <2>2. /\ rx_count' = 0 /\ rx_len' = rx_len - rx_count
        /\ rx_read' \in {rx_read, (rx_read + rx_count) % RxCap}
    BY <1>6 DEF RxCopy
  <2>3. rx_len' = 0 /\ 0 \in 0..MaxLen
    BY <1>1, <1>2, <2>2
  <2>4. rx_read' \in 0..(U16 - 1)
    <3>1. (rx_read + rx_count) % RxCap \in 0..(RxCap - 1)
      BY <1>1, <1>2
    <3>2. QED
      BY <1>1, <1>2, <2>2, <3>1
  <2>5. QED
    BY <1>2, <2>1, <2>2, <2>3, <2>4 DEF RxNumbers
<1>7. CASE RxHandle
  <2>1. UNCHANGED <<rx_count, rx_len, left, rx_next>>
    BY <1>7 DEF RxHandle, pc_init, rx_fifo, rx_line
  <2>2. /\ rx_buff' \in {rx_buff, [a \in 0..(RxCap - 1) |-> RxCleared]}
        /\ rx_dma' \in {rx_dma, 0} /\ rx_write' \in {rx_write, 0} /\ rx_read' \in {rx_read, 0}
    BY <1>7 DEF RxHandle, pc_init, rx_fifo
  <2>3. 0 \in 0..(RxCap - 1) /\ 0 \in 0..(U16 - 1)
    BY <1>1
  <2>4. QED
    BY <1>2, <2>1, <2>2, <2>3 DEF RxNumbers
<1>8. CASE OtherPost \/ OtherRun \/ com_recv \/ UNCHANGED rx_vars
  <2>1. UNCHANGED <<rx_buff, rx_dma, rx_write, rx_read, rx_count, rx_len, left, rx_next>>
    BY <1>8 DEF OtherPost, OtherRun, com_recv, rx_vars, rx_fifo, rx_line
  <2>2. QED
    BY <2>1 DEF RxTyped, RxNumbers
<1>9. QED
  BY <1>3, <1>4, <1>5, <1>6, <1>7, <1>8 DEF RxNext

LEMMA RxNextBits == ASSUME RxTyped, [RxNext]_rx_vars PROVE RxBits'
<1>1. /\ idle \in BOOLEAN /\ rx_late \in BOOLEAN
      /\ rx_refused \in BOOLEAN /\ rx_calm \in BOOLEAN
  BY DEF RxTyped, RxBits
<1>2. \A n : Gone(n) \/ Disturbed \/ UNCHANGED rx_past => rx_calm' \in BOOLEAN
  BY <1>1 DEF Gone, Disturbed, rx_past
<1>3. CASE \E n \in RxLens : Arrive(n)
  <2>1. UNCHANGED <<idle, rx_late, rx_refused>> /\ (UNCHANGED rx_calm \/ Disturbed)
    BY <1>3 DEF Arrive
  <2>2. QED
    BY <1>1, <1>2, <2>1 DEF RxBits
<1>4. CASE RxReceive
  <2>1. UNCHANGED <<rx_late, rx_refused, rx_past>>
    BY <1>4 DEF RxReceive
  <2>2. idle' \in BOOLEAN
    BY <1>4 DEF RxReceive
  <2>3. QED
    BY <1>1, <1>2, <2>1, <2>2 DEF RxBits
<1>5. CASE on_irq_idle
  <2> DEFINE n == Unread(rx_dma, rx_read)
  <2>1. idle' = FALSE
    BY <1>5 DEF on_irq_idle
  <2>2. Gone(n) \/ Disturbed \/ UNCHANGED rx_past
    <3>1. CASE Accepted(n)
      BY <1>5, <3>1 DEF on_irq_idle
    <3>2. CASE ~Accepted(n)
      BY <1>5, <3>2 DEF on_irq_idle
    <3>3. QED
      BY <3>1, <3>2
  <2>3. rx_late' \in BOOLEAN
    <3>1. CASE Accepted(n)
      <4>1. rx_late' = (left > 0)
        BY <1>5, <3>1 DEF on_irq_idle
      <4>2. QED
        BY <4>1
    <3>2. CASE ~Accepted(n)
      BY <1>1, <1>5, <3>2 DEF on_irq_idle
    <3>3. QED
      BY <3>1, <3>2
  <2>4. rx_refused' \in BOOLEAN
    BY <1>1, <1>5 DEF on_irq_idle
  <2>5. QED
    BY <1>2, <2>1, <2>2, <2>3, <2>4 DEF RxBits
<1>6. CASE RxCopy
  <2>1. Gone(rx_count) /\ rx_refused' = FALSE /\ UNCHANGED <<idle, rx_late>>
    BY <1>6 DEF RxCopy
  <2>2. QED
    BY <1>1, <1>2, <2>1 DEF RxBits
<1>7. CASE RxHandle
  <2>1. /\ idle' \in {idle, FALSE} /\ UNCHANGED <<rx_late, rx_refused>>
        /\ Disturbed \/ UNCHANGED rx_past
    BY <1>7 DEF RxHandle, pc_init
  <2>2. QED
    BY <1>1, <1>2, <2>1 DEF RxBits
<1>8. CASE OtherPost \/ OtherRun \/ com_recv \/ UNCHANGED rx_vars
  <2>1. UNCHANGED <<idle, rx_late, rx_refused, rx_calm>>
    BY <1>8 DEF OtherPost, OtherRun, com_recv, rx_vars, rx_past
  <2>2. QED
    BY <1>1, <2>1 DEF RxBits
<1>9. QED
  BY <1>3, <1>4, <1>5, <1>6, <1>7, <1>8 DEF RxNext

(* What the agent's ring does. *)
LEMMA RxRing ==
    ASSUME RxConstants, RxTyped, [RxNext]_rx_vars
    PROVE  /\ \/ UNCHANGED ring
              \/ Len(ring) < Ring /\ \E x \in {"pc", "other"} : ring' = Append(ring, x)
              \/ ring # <<>> /\ ring' = Tail(ring)
           /\ task' \in {task, "wait", "copy", "handle"}
<1>1. CASE \E n \in RxLens : Arrive(n)
  BY <1>1 DEF Arrive
<1>2. CASE RxReceive
  BY <1>2 DEF RxReceive
<1>3. CASE OtherPost \/ OtherRun
  BY <1>3 DEF OtherPost, OtherRun
<1>4. CASE on_irq_idle
  <2>1. task' = task /\ ring' \in {ring, Posted}
    BY <1>4 DEF on_irq_idle
  <2>2. QED
    BY <2>1 DEF Posted
<1>5. CASE com_recv
  BY <1>5 DEF com_recv
<1>6. CASE RxCopy \/ RxHandle
  BY <1>6 DEF RxCopy, RxHandle
<1>7. CASE UNCHANGED rx_vars
  BY <1>7 DEF rx_vars
<1>8. QED
  BY <1>1, <1>2, <1>3, <1>4, <1>5, <1>6, <1>7 DEF RxNext

LEMMA RxNextTyped ==
    ASSUME RxConstants, RxTyped, [RxNext]_rx_vars
    PROVE  RxTyped'
<1>1. ring \in Seq({"pc", "other"}) /\ Len(ring) <= Ring /\ Ring \in Nat
  BY DEF RxTyped, RxQueue, RxConstants
<1>2. ring' \in Seq({"pc", "other"}) /\ Len(ring') <= Ring
  <2>1. CASE UNCHANGED ring
    BY <1>1, <2>1
  <2>2. CASE Len(ring) < Ring /\ \E x \in {"pc", "other"} : ring' = Append(ring, x)
    <3>1. PICK x \in {"pc", "other"} : ring' = Append(ring, x)
      BY <2>2
    <3>2. QED
      BY <1>1, <2>2, <3>1, AppendProperties
  <2>3. CASE ring # <<>> /\ ring' = Tail(ring)
    BY <1>1, <2>3
  <2>4. QED
    BY <2>1, <2>2, <2>3, RxRing
<1>3. RxQueue'
  BY <1>2, RxRing DEF RxTyped, RxQueue
<1>4. QED
  BY <1>3, RxNextNumbers, RxNextBits DEF RxTyped

LEMMA RxNextDue ==
    ASSUME RxConstants, RxTyped, NotStranded, [RxNext]_rx_vars
    PROVE  NotStranded'
<1>1. /\ ring \in Seq({"pc", "other"}) /\ Len(ring) \in Nat /\ Ring \in Nat \ {0}
      /\ rx_count \in Nat /\ rx_len = rx_count /\ Len(ring) <= Ring
  BY DEF RxTyped, RxQueue, RxNumbers, RxConstants
<1>2. \A x : ring' = Append(ring, x) =>
        /\ ring'[Len(ring) + 1] = x /\ Len(ring') = Len(ring) + 1
        /\ \A i \in 1..Len(ring) : ring'[i] = ring[i]
  BY <1>1
<1>3. CASE OtherPost
  <2>1. ring' = Append(ring, "other") /\ UNCHANGED <<rx_count, task, rx_refused>>
    BY <1>3 DEF OtherPost, rx_fifo
  <2>2. Due => Due'
    BY <1>1, <1>2, <2>1 DEF Due
  <2>3. QED
    BY <2>1, <2>2 DEF NotStranded
<1>4. CASE OtherRun
  <2>1. /\ ring # <<>> /\ Head(ring) = "other" /\ ring' = Tail(ring)
        /\ UNCHANGED <<rx_count, task, rx_refused>>
    BY <1>4 DEF OtherRun, rx_fifo
  <2>2. ASSUME Due PROVE Due'
    <3>1. PICK i \in 1..Len(ring) : ring[i] = "pc"
      BY <2>2 DEF Due
    <3>2. i # 1
      BY <1>1, <2>1, <3>1
    <3>3. i - 1 \in 1..Len(Tail(ring)) /\ Tail(ring)[i - 1] = ring[i]
      BY <1>1, <2>1, <3>2
    <3>4. QED
      BY <2>1, <3>1, <3>3 DEF Due
  <2>3. QED
    BY <2>1, <2>2 DEF NotStranded
<1>5. CASE on_irq_idle
  <2>1. CASE Accepted(Unread(rx_dma, rx_read))
    <3>1. ring' = Posted
      BY <1>5, <2>1 DEF on_irq_idle
    <3>2. rx_refused' <=> Len(ring) = Ring /\ ~Due
      BY <1>5, <2>1 DEF on_irq_idle
    <3>3. CASE Len(ring) < Ring
      <4>1. ring' = Append(ring, "pc")
        BY <3>1, <3>3 DEF Posted
      <4>2. Len(ring) + 1 \in 1..Len(ring') /\ ring'[Len(ring) + 1] = "pc"
        BY <1>1, <1>2, <4>1
      <4>3. Due'
        BY <4>2 DEF Due
      <4>4. QED
        BY <4>3 DEF NotStranded
    <3>4. CASE ~(Len(ring) < Ring)
      <4>1. ring' = ring /\ Len(ring) = Ring
        BY <1>1, <3>1, <3>4 DEF Posted
      <4>2. Due' \/ rx_refused'
        BY <3>2, <4>1 DEF Due
      <4>3. QED
        BY <4>2 DEF NotStranded
    <3>5. QED
      BY <3>3, <3>4
  <2>2. CASE ~Accepted(Unread(rx_dma, rx_read))
    <3>1. rx_count' = 0
      BY <1>5, <2>2 DEF on_irq_idle
    <3>2. QED
      BY <3>1 DEF NotStranded
  <2>3. QED
    BY <2>1, <2>2
<1>6. CASE com_recv
  <2>1. rx_count' = rx_count /\ task' = IF rx_len = 0 THEN "wait" ELSE "copy"
    BY <1>6 DEF com_recv, rx_fifo
  <2>2. QED
    BY <1>1, <2>1 DEF NotStranded
<1>7. CASE RxCopy
  <2>1. rx_count' = 0
    BY <1>7 DEF RxCopy
  <2>2. QED
    BY <2>1 DEF NotStranded
<1>8. CASE RxHandle
  <2>1. task # "copy" /\ UNCHANGED <<rx_count, ring, rx_refused>>
    BY <1>8 DEF RxHandle, pc_init, rx_fifo
  <2>2. QED
    BY <2>1 DEF NotStranded, Due
<1>9. CASE (\E n \in RxLens : Arrive(n)) \/ RxReceive \/ UNCHANGED rx_vars
  <2>1. UNCHANGED <<rx_count, ring, task, rx_refused>>
    BY <1>9 DEF Arrive, RxReceive, rx_vars, rx_fifo
  <2>2. QED
    BY <2>1 DEF NotStranded, Due
<1>10. QED
  BY <1>3, <1>4, <1>5, <1>6, <1>7, <1>8, <1>9 DEF RxNext

(* However packets and noise arrive, are refused or overtake the agent, and  *)
(* whatever the agent's ring holds: while bytes are unread pc_rx_packet_task *)
(* is in the ring or about to read them, unless on_irq_all found the ring    *)
(* full of other calls.  A refused call of which one is already in the ring  *)
(* is not missed.                                                            *)
THEOREM NoneStranded == RxSpec => []NotStranded
<1>0. RxConstants
  BY SerialRxAssumption DEF RxConstants
<1>1. RxInit => RxTyped /\ NotStranded
  <2>1. RxInit => rx_count = 0
    BY DEF RxInit
  <2>2. rx_count = 0 => NotStranded
    BY DEF NotStranded
  <2>3. QED
    BY <1>0, <2>1, <2>2, RxInitTyped
<1>2. RxTyped /\ NotStranded /\ [RxNext]_rx_vars => RxTyped' /\ NotStranded'
  BY <1>0, RxNextTyped, RxNextDue
<1>3. QED
  BY <1>1, <1>2, PTL DEF RxSpec

-----------------------------------------------------------------------------
(* What com_recv copies, as long as it is calm.  Packets may arrive while    *)
(* the task runs and while the interrupt is held back.                       *)

(* The address k bytes behind a. *)
RxNth(a, k) == IF a + k < RxCap THEN a + k ELSE a + k - RxCap

(* Bytes that have arrived and were not copied. *)
Got == Len(rx_owed) - left

RxTypes ==
    /\ rx_buff \in [0..(RxCap - 1) -> RxByte \cup {RxCleared}]
    /\ rx_dma \in 0..(RxCap - 1) /\ rx_read \in 0..(RxCap - 1)
    /\ left \in 0..Len(rx_owed) /\ rx_next \in RxByte
    /\ rx_owed \in Seq(RxByte) /\ Len(rx_owed) < RxCap

(* They lie in the buffer from read_idx to where the channel writes next; the *)
(* rest of the packet is still to come.                                      *)
RxStored ==
    /\ rx_dma = RxNth(rx_read, Got)
    /\ \A k \in 1..Got : rx_owed[k] = rx_buff[RxNth(rx_read, k - 1)]
    /\ \A k \in 1..left : rx_owed[Got + k] = (rx_next + k - 1) % RxBytes

(* Only whole packets are on their way. *)
RxEnds ==
    /\ ends \subseteq 1..Len(rx_owed)
    /\ rx_owed # <<>> => Len(rx_owed) \in ends

(* count stands at the end of a packet, unless the interrupt was late.  What *)
(* it counts is enough for the filter, so that no later interrupt skips it.  *)
RxCount ==
    /\ rx_count \in 0..Got
    /\ rx_count \in ends \cup {0} \/ rx_late
    /\ rx_count > 0 => rx_count >= MinLen
    /\ task = "copy" => rx_count > 0

RxOrder == RxTypes /\ RxStored /\ RxEnds /\ RxCount

LEMMA RxValues ==
    ASSUME RxConstants, RxOrder
    PROVE  /\ RxCap \in Nat \ {0, 1} /\ MinLen \in Nat \ {0}
           /\ Len(rx_owed) \in 0..(RxCap - 1) /\ left \in 0..Len(rx_owed)
           /\ Got \in 0..Len(rx_owed) /\ Got = Len(rx_owed) - left
           /\ rx_read \in 0..(RxCap - 1) /\ rx_dma \in 0..(RxCap - 1)
           /\ rx_next \in 0..RxCap /\ RxBytes = RxCap + 1
           /\ RxByte = 0..RxCap
           /\ rx_count \in 0..Got /\ rx_count \in Nat
<1>1. /\ RxCap \in Nat \ {0, 1} /\ MinLen \in Nat \ {0}
      /\ RxBytes = RxCap + 1 /\ RxByte = 0..RxCap
  BY DEF RxConstants, RxBytes, RxByte
<1>2. /\ Len(rx_owed) \in Nat /\ Len(rx_owed) < RxCap /\ left \in 0..Len(rx_owed)
      /\ rx_read \in 0..(RxCap - 1) /\ rx_dma \in 0..(RxCap - 1) /\ rx_next \in RxByte
  BY DEF RxOrder, RxTypes
<1>3. Got \in 0..Len(rx_owed)
  BY <1>2 DEF Got
<1>4. rx_count \in Nat /\ rx_count <= Got
  BY <1>2, <1>3 DEF RxOrder, RxCount
<1>5. QED
  BY <1>1, <1>2, <1>3, <1>4 DEF Got

(* The numbers of the bytes go on across their wrap-around. *)
LEMMA ByteMod ==
    ASSUME NEW B \in Nat \ {0}, NEW x \in 0..(B - 1), NEW j \in 0..(B - 1)
    PROVE  (((x + 1) % B) + j) % B = (x + 1 + j) % B /\ x % B = x
<1>1. /\ \A y \in 0..(B - 1) : y % B = y
      /\ \A y \in B..(2 * B - 1) : y % B = y - B
  OBVIOUS
<1>2. CASE x + 1 < B
  BY <1>1, <1>2
<1>3. CASE x + 1 = B
  <2>1. (x + 1) % B = 0 /\ j % B = j /\ (x + 1 + j) % B = j
    BY <1>1, <1>3
  <2>2. QED
    BY <1>1, <2>1
<1>4. QED
  BY <1>2, <1>3

LEMMA RxInitOrder == ASSUME RxConstants, RxInit PROVE RxOrder
<1>1. /\ rx_owed = <<>> /\ Len(rx_owed) = 0 /\ left = 0 /\ Got = 0 /\ ends = {}
      /\ rx_dma = 0 /\ rx_read = 0 /\ rx_count = 0 /\ rx_next = 0 /\ task = "wait" /\ ~idle
      /\ rx_buff = [a \in 0..(RxCap - 1) |-> RxCleared]
  BY DEF RxInit, Got
<1>2. RxTypes
  BY <1>1 DEF RxTypes, RxConstants, RxByte, RxBytes
<1>3. RxStored
  BY <1>1 DEF RxStored, RxNth, RxConstants
<1>4. RxEnds /\ RxCount
  BY <1>1 DEF RxEnds, RxCount
<1>5. QED
  BY <1>2, <1>3, <1>4 DEF RxOrder

(* What the host sends comes behind what is there. *)
LEMMA RxArriveOrder ==
    ASSUME RxConstants, RxOrder, NEW n \in RxLens, Arrive(n), rx_calm'
    PROVE  RxOrder'
<1> DEFINE part == [k \in 1..n |-> (rx_next + k - 1) % RxBytes]
           L == Len(rx_owed)
<1>1. n \in Nat /\ n > 0
  BY DEF RxConstants
<1>2. /\ left = 0 /\ left' = n /\ L + n < RxCap
      /\ rx_owed' = rx_owed \o part /\ ends' = ends \cup {L + n}
      /\ UNCHANGED <<rx_buff, rx_dma, rx_read, rx_count, task, rx_next, rx_late>>
  <2>1. ~Disturbed
    BY DEF Disturbed
  <2>2. QED
    BY <2>1 DEF Arrive, rx_fifo
<1>3. /\ RxCap \in Nat \ {0, 1} /\ MinLen \in Nat \ {0}
      /\ L \in 0..(RxCap - 1) /\ Got = L /\ rx_next \in 0..RxCap
      /\ RxBytes = RxCap + 1 /\ RxByte = 0..RxCap /\ rx_count \in 0..L
  BY <1>2, RxValues
<1>4. part \in Seq(RxByte) /\ Len(part) = n
  <2>1. \A k \in 1..n : (rx_next + k - 1) % RxBytes \in RxByte
    BY <1>1, <1>3
  <2>2. QED
    BY <1>1, <2>1
<1>5. \A k \in 1..n : part[k] = (rx_next + k - 1) % RxBytes
  OBVIOUS
<1>6. rx_owed \in Seq(RxByte)
  BY DEF RxOrder, RxTypes
<1> HIDE DEF part
<1>7. /\ rx_owed' \in Seq(RxByte) /\ Len(rx_owed') = L + n
      /\ \A i \in 1..(L + n) : rx_owed'[i] = IF i <= L THEN rx_owed[i] ELSE part[i - L]
  BY <1>2, <1>4, <1>6, ConcatProperties
<1> HIDE DEF L
<1>8. L + n < RxCap
  BY <1>2 DEF L
<1>9. Got' = L
  BY <1>1, <1>2, <1>3, <1>7 DEF Got
<1>10. RxTypes'
  BY <1>1, <1>2, <1>3, <1>7, <1>8 DEF RxOrder, RxTypes
<1>11. RxStored'
  <2>1. rx_dma' = RxNth(rx_read', Got')
    BY <1>2, <1>3, <1>9 DEF RxOrder, RxStored
  <2>2. \A k \in 1..Got' : rx_owed'[k] = rx_buff'[RxNth(rx_read', k - 1)]
    <3>1. TAKE k \in 1..Got'
    <3>2. k \in 1..L /\ k \in 1..(L + n) /\ k <= L /\ k \in 1..Got
      BY <1>1, <1>3, <1>9
    <3>3. rx_owed[k] = rx_buff[RxNth(rx_read, k - 1)]
      BY <3>2 DEF RxOrder, RxStored
    <3>4. rx_owed'[k] = rx_owed[k]
      BY <1>7, <3>2
    <3>5. QED
      BY <1>2, <3>3, <3>4
  <2>3. \A k \in 1..left' : rx_owed'[Got' + k] = (rx_next' + k - 1) % RxBytes
    <3>1. TAKE k \in 1..left'
    <3>2. k \in 1..n /\ L + k \in 1..(L + n) /\ ~(L + k <= L) /\ L + k - L = k
      BY <1>1, <1>2, <1>3
    <3>3. rx_owed'[L + k] = part[k]
      <4>1. \A i \in 1..(L + n) : ~(i <= L) => rx_owed'[i] = part[i - L]
        BY <1>7
      <4>2. rx_owed'[L + k] = part[(L + k) - L]
        BY <3>2, <4>1
      <4>3. (L + k) - L = k
        BY <1>3, <3>2
      <4>4. QED
        BY <4>2, <4>3, Zenon
    <3>4. part[k] = (rx_next + k - 1) % RxBytes
      BY <1>5, <3>2
    <3>5. QED
      BY <1>2, <1>9, <3>3, <3>4
  <2>4. QED
    BY <2>1, <2>2, <2>3 DEF RxStored
<1>12. RxEnds'
  <2>1. ends \subseteq 1..L
    BY DEF RxOrder, RxEnds, L
  <2>2. ends' = ends \cup {L + n}
    BY <1>2 DEF L
  <2>3. ends' \subseteq 1..(L + n) /\ L + n \in ends'
    BY <1>1, <1>3, <2>1, <2>2
  <2>4. QED
    BY <1>7, <2>3 DEF RxEnds
<1>13. RxCount'
  <2>1. rx_count' \in 0..Got' /\ (rx_count' > 0 => rx_count' >= MinLen)
    BY <1>2, <1>3, <1>9 DEF RxOrder, RxCount
  <2>2. rx_count' \in ends' \cup {0} \/ rx_late'
    BY <1>2 DEF RxOrder, RxCount
  <2>3. task' = "copy" => rx_count' > 0
    BY <1>2 DEF RxOrder, RxCount
  <2>4. QED
    BY <2>1, <2>2, <2>3 DEF RxCount
<1>14. QED
  BY <1>10, <1>11, <1>12, <1>13 DEF RxOrder

(* The channel writes behind what is there and never over it. *)
LEMMA RxReceiveOrder == ASSUME RxConstants, RxOrder, RxReceive PROVE RxOrder'
<1> DEFINE g == Got
           B == RxBytes
<1>1. /\ left > 0 /\ rx_buff' = [rx_buff EXCEPT ![rx_dma] = rx_next]
      /\ rx_dma' = (rx_dma + 1) % RxCap /\ rx_next' = (rx_next + 1) % B /\ left' = left - 1
      /\ UNCHANGED <<rx_read, rx_count, task, rx_owed, ends, rx_late>>
  BY DEF RxReceive, rx_fifo, rx_past
<1>3. /\ RxCap \in Nat \ {0, 1} /\ Len(rx_owed) \in 0..(RxCap - 1) /\ left \in 1..Len(rx_owed)
      /\ g \in 0..(Len(rx_owed) - 1) /\ g = Len(rx_owed) - left
      /\ rx_read \in 0..(RxCap - 1) /\ rx_dma \in 0..(RxCap - 1)
      /\ rx_next \in 0..(B - 1) /\ B \in Nat \ {0} /\ B = RxCap + 1
      /\ RxByte = 0..(B - 1) /\ rx_count \in 0..g
  <2>1. left > 0
    BY <1>1
  <2>2. QED
    BY <2>1, RxValues
<1>4. Got' = g + 1
  BY <1>1, <1>3 DEF Got
<1>5. rx_dma = RxNth(rx_read, g)
  BY DEF RxOrder, RxStored
<1>6. \A k \in 1..left : rx_owed[g + k] = (rx_next + k - 1) % B
  BY DEF RxOrder, RxStored
<1>7. \A k \in 1..g : rx_owed[k] = rx_buff[RxNth(rx_read, k - 1)]
  BY DEF RxOrder, RxStored
<1>8. /\ rx_buff \in [0..(RxCap - 1) -> RxByte \cup {RxCleared}]
      /\ rx_owed \in Seq(RxByte)
  BY DEF RxOrder, RxTypes
<1> HIDE DEF g, B
<1>9. rx_dma' \in 0..(RxCap - 1) /\ rx_dma' = RxNth(rx_read, g + 1)
  <2>1. CASE rx_dma + 1 < RxCap
    <3>1. rx_dma' = rx_dma + 1
      BY <1>1, <1>3, <2>1
    <3>2. QED
      BY <1>3, <1>5, <2>1, <3>1 DEF RxNth
  <2>2. CASE rx_dma + 1 = RxCap
    <3>1. rx_dma' = 0
      BY <1>1, <1>3, <2>2
    <3>2. QED
      BY <1>3, <1>5, <2>2, <3>1 DEF RxNth
  <2>3. QED
    BY <1>3, <2>1, <2>2
<1>10. rx_next' \in 0..(B - 1)
  BY <1>1, <1>3
<1>11. RxTypes'
  <2>1. rx_buff' \in [0..(RxCap - 1) -> RxByte \cup {RxCleared}]
    BY <1>1, <1>3, <1>8
  <2>2. left' \in 0..Len(rx_owed')
    BY <1>1, <1>3
  <2>3. QED
    BY <1>1, <1>3, <1>8, <1>9, <1>10, <2>1, <2>2 DEF RxTypes
<1>12. RxStored'
  <2>1. \A k \in 1..(g + 1) : rx_owed[k] = rx_buff'[RxNth(rx_read, k - 1)]
    <3>1. TAKE k \in 1..(g + 1)
    <3>2. CASE k = g + 1
      <4>1. g + 1 \in Int /\ 1 \in 1..left /\ rx_next + 1 - 1 = rx_next
        BY <1>3
      <4>2. rx_owed[g + 1] = rx_next % B
        BY <1>6, <4>1
      <4>3. rx_next % B = rx_next
        BY <1>3
      <4>4. k - 1 = g
        BY <1>3, <3>2
      <4>5. rx_buff'[rx_dma] = rx_next
        BY <1>1, <1>3, <1>8
      <4>6. QED
        BY <1>5, <3>2, <4>2, <4>3, <4>4, <4>5
    <3>3. CASE k # g + 1
      <4>1. /\ k \in 1..g /\ RxNth(rx_read, k - 1) # rx_dma
            /\ RxNth(rx_read, k - 1) \in 0..(RxCap - 1)
        BY <1>3, <1>5, <3>3 DEF RxNth
      <4>2. QED
        BY <1>1, <1>7, <1>8, <4>1
    <3>4. QED
      BY <3>2, <3>3
  <2>2. \A k \in 1..(left - 1) : rx_owed[g + 1 + k] = (rx_next' + k - 1) % B
    <3>1. TAKE k \in 1..(left - 1)
    <3>2. /\ k + 1 \in 1..left /\ g + (k + 1) = g + 1 + k
          /\ rx_next + (k + 1) - 1 = rx_next + 1 + (k - 1)
          /\ k - 1 \in 0..(B - 1)
      BY <1>3
    <3>3. rx_owed[g + (k + 1)] = (rx_next + (k + 1) - 1) % B
      BY <1>6, <3>2
    <3>4. (((rx_next + 1) % B) + (k - 1)) % B = (rx_next + 1 + (k - 1)) % B
      BY <1>3, <3>2, ByteMod
    <3>5. rx_next' + k - 1 = ((rx_next + 1) % B) + (k - 1)
      BY <1>1, <1>3, <1>10, <3>2
    <3>6. QED
      BY <3>2, <3>3, <3>4, <3>5, Zenon
  <2>3. QED
    BY <1>1, <1>4, <1>9, <2>1, <2>2 DEF RxStored, B
<1>13. RxEnds'
  BY <1>1 DEF RxOrder, RxEnds
<1>14. RxCount'
  <2>1. /\ rx_count' \in ends' \cup {0} \/ rx_late'
        /\ task' = "copy" => rx_count' > 0
        /\ rx_count' > 0 => rx_count' >= MinLen
    BY <1>1 DEF RxOrder, RxCount
  <2>2. rx_count' \in 0..Got'
    BY <1>1, <1>3, <1>4
  <2>3. QED
    BY <2>1, <2>2 DEF RxCount
<1>15. QED
  BY <1>11, <1>12, <1>13, <1>14 DEF RxOrder

(* The k oldest bytes, copied or skipped, are given up: the others begin     *)
(* where read_idx is then.                                                   *)
LEMMA RxGoneOrder ==
    ASSUME RxConstants, RxOrder, NEW c \in 0..Got, Gone(c),
           rx_read' = RxNth(rx_read, c), rx_count' = 0, task' # "copy",
           UNCHANGED <<rx_buff, rx_dma, left, rx_next>>
    PROVE  RxOrder'
<1> DEFINE L == Len(rx_owed)
           g == Got
<1>1. /\ RxCap \in Nat \ {0, 1} /\ MinLen \in Nat \ {0}
      /\ L \in 0..(RxCap - 1) /\ g \in 0..L /\ g = L - left /\ left \in 0..L
      /\ rx_read \in 0..(RxCap - 1) /\ c \in 0..g
  BY RxValues
<1>2. /\ rx_owed' = SubSeq(rx_owed, c + 1, L)
      /\ ends' = {e - c : e \in {f \in ends : f > c}}
  BY DEF Gone
<1>4. /\ rx_dma = RxNth(rx_read, g)
      /\ \A k \in 1..g : rx_owed[k] = rx_buff[RxNth(rx_read, k - 1)]
      /\ \A k \in 1..left : rx_owed[g + k] = (rx_next + k - 1) % RxBytes
  BY DEF RxOrder, RxStored
<1>5. ends \subseteq 1..L /\ (rx_owed # <<>> => L \in ends)
  BY DEF RxOrder, RxEnds
<1>7. rx_owed \in Seq(RxByte)
  BY DEF RxOrder, RxTypes
<1>8. /\ rx_owed' \in Seq(RxByte) /\ Len(rx_owed') = L - c
      /\ \A k \in 1..(L - c) : rx_owed'[k] = rx_owed[c + k]
  <2>1. \A k \in (c + 1)..L : rx_owed[k] \in RxByte
    BY <1>1, <1>7
  <2> HIDE DEF L
  <2>2. c + 1 \in Int /\ L \in Int
    BY <1>1
  <2>3. /\ rx_owed' \in Seq(RxByte)
        /\ Len(rx_owed') = IF c + 1 <= L THEN L - (c + 1) + 1 ELSE 0
        /\ \A k \in 1..(L - (c + 1) + 1) : rx_owed'[k] = rx_owed[(c + 1) + k - 1]
    BY <1>2, <2>1, <2>2, SubSeqProperties
  <2>4. L - (c + 1) + 1 = L - c /\ \A k \in 1..(L - c) : (c + 1) + k - 1 = c + k
    BY <1>1
  <2>5. Len(rx_owed') = L - c
    BY <1>1, <2>3
  <2>6. QED
    BY <2>3, <2>4, <2>5
<1> HIDE DEF L, g
<1>9. /\ RxCap \in Nat \ {0, 1} /\ rx_read \in 0..(RxCap - 1)
      /\ L \in 0..(RxCap - 1) /\ g \in 0..L /\ left = L - g /\ left' = left /\ c \in 0..g
  BY <1>1
<1>10. Got' = g - c
  BY <1>8, <1>9 DEF Got
<1>11. rx_read' \in 0..(RxCap - 1)
  BY <1>9 DEF RxNth
<1>12. \A k \in 0..(g - c) : RxNth(rx_read', k) = RxNth(rx_read, c + k)
  BY <1>9, <1>11 DEF RxNth
<1>13. RxTypes'
  <2>1. left' \in 0..Len(rx_owed') /\ Len(rx_owed') < RxCap
    BY <1>8, <1>9
  <2>2. QED
    BY <1>8, <1>11, <2>1 DEF RxOrder, RxTypes
<1>14. RxStored'
  <2>1. rx_dma' = RxNth(rx_read', g - c)
    <3>1. g - c \in 0..(g - c) /\ c + (g - c) = g
      BY <1>9
    <3>2. QED
      BY <1>4, <1>12, <3>1
  <2>2. \A k \in 1..(g - c) : rx_owed'[k] = rx_buff'[RxNth(rx_read', k - 1)]
    <3>1. TAKE k \in 1..(g - c)
    <3>2. /\ k \in 1..(L - c) /\ c + k \in 1..g /\ k - 1 \in 0..(g - c)
          /\ c + (k - 1) = (c + k) - 1
      BY <1>9
    <3>3. RxNth(rx_read', k - 1) = RxNth(rx_read, (c + k) - 1)
      BY <1>12, <3>2
    <3>4. rx_owed[c + k] = rx_buff[RxNth(rx_read, (c + k) - 1)]
      BY <1>4, <3>2
    <3>5. QED
      BY <1>8, <3>2, <3>3, <3>4
  <2>3. \A k \in 1..left' : rx_owed'[g - c + k] = (rx_next' + k - 1) % RxBytes
    <3>1. TAKE k \in 1..left'
    <3>2. k \in 1..left /\ g - c + k \in 1..(L - c) /\ c + (g - c + k) = g + k
      BY <1>9
    <3>3. rx_owed'[g - c + k] = rx_owed[c + (g - c + k)]
      BY <1>8, <3>2
    <3>4. rx_owed[g + k] = (rx_next + k - 1) % RxBytes
      BY <1>4, <3>2
    <3>5. QED
      BY <3>2, <3>3, <3>4
  <2>4. QED
    BY <1>10, <2>1, <2>2, <2>3 DEF RxStored
<1>15. RxEnds'
  <2>1. ends' \subseteq 1..(L - c)
    BY <1>1, <1>2, <1>5 DEF L
  <2>2. ASSUME rx_owed' # <<>> PROVE L - c \in ends'
    <3>1. L > c
      BY <1>1, <1>8, <2>2
    <3>2. rx_owed # <<>>
      BY <1>1, <3>1 DEF L
    <3>3. QED
      BY <1>2, <1>5, <3>1, <3>2
  <2>3. QED
    BY <1>8, <2>1, <2>2 DEF RxEnds
<1>16. RxCount'
  BY <1>9, <1>10 DEF RxCount
<1>17. QED
  BY <1>13, <1>14, <1>15, <1>16 DEF RxOrder

(* The interrupt finds all that has arrived.  What the filter refuses is     *)
(* skipped, and nothing that was counted before is among it.                 *)
LEMMA RxIrqOrder == ASSUME RxConstants, RxOrder, on_irq_idle, rx_calm' PROVE RxOrder'
<1> DEFINE g == Got
           n == Unread(rx_dma, rx_read)
<1>1. /\ RxCap \in Nat \ {0, 1} /\ MinLen \in Nat \ {0} /\ g \in 0..(RxCap - 1)
      /\ rx_read \in 0..(RxCap - 1) /\ rx_dma \in 0..(RxCap - 1) /\ rx_count \in 0..g
  BY RxValues
<1>2. rx_dma = RxNth(rx_read, g)
  BY DEF RxOrder, RxStored
<1>3. RxCap <= MaxLen /\ MaxLen \in Nat /\ U16 \in Nat /\ RxCap < U16
  BY DEF RxConstants, U16
<1> HIDE DEF g
<1>4. n = g
  <2>1. RxCap + rx_dma - rx_read = g \/ RxCap + rx_dma - rx_read = RxCap + g
    BY <1>1, <1>2 DEF RxNth
  <2>2. g % RxCap = g /\ (RxCap + g) % RxCap = g
    BY <1>1
  <2>3. g >= 0 /\ RxCap + g >= 0
    BY <1>1
  <2>4. QED
    BY <2>1, <2>2, <2>3 DEF Unread
<1> HIDE DEF n
<1>5. UNCHANGED <<rx_buff, rx_dma, task, left, rx_next>>
  BY DEF on_irq_idle, rx_line
<1>6. CASE Accepted(n)
  <2>1. rx_count' = g /\ UNCHANGED <<rx_read, rx_owed, ends>> /\ g >= MinLen
    BY <1>4, <1>6 DEF on_irq_idle, rx_past, Accepted, n
  <2>2. rx_late' <=> left > 0
    BY <1>6 DEF on_irq_idle, n
  <2>3. Got' = Got
    BY <1>5, <2>1 DEF Got
  <2>4. RxTypes' /\ RxStored' /\ RxEnds'
    BY <1>5, <2>1, <2>3 DEF RxOrder, RxTypes, RxStored, RxEnds
  <2>5. rx_count' \in ends' \cup {0} \/ rx_late'
    <3>1. CASE left > 0
      BY <2>2, <3>1
    <3>2. CASE left = 0
      <4>1. g = Len(rx_owed) /\ Len(rx_owed) > 0
        BY <1>1, <2>1, <3>2, RxValues DEF g
      <4>2. g \in ends
        BY <4>1 DEF RxOrder, RxEnds
      <4>3. QED
        BY <2>1, <4>2
    <3>3. QED
      BY <3>1, <3>2, RxValues
  <2>6. rx_count' \in 0..Got' /\ rx_count' >= MinLen /\ rx_count' > 0
    BY <1>1, <2>1, <2>3 DEF g
  <2>7. QED
    BY <2>4, <2>5, <2>6 DEF RxOrder, RxCount
<1>7. CASE ~Accepted(n)
  <2>1. rx_count' = 0 /\ rx_read' = (rx_read + g) % U16
    BY <1>4, <1>7 DEF on_irq_idle, n
  <2>2. Gone(g) /\ rx_read + g < RxCap
    <3>1. ~Disturbed
      BY DEF Disturbed
    <3>2. QED
      BY <1>4, <1>7, <3>1 DEF on_irq_idle, n
  <2>3. rx_read' = RxNth(rx_read, g)
    <3>1. (rx_read + g) % U16 = rx_read + g
      BY <1>1, <1>3, <2>2
    <3>2. QED
      BY <2>1, <2>2, <3>1 DEF RxNth
  <2>4. rx_count = 0
    <3>1. g < MinLen
      BY <1>1, <1>3, <1>4, <1>7 DEF Accepted
    <3>2. QED
      BY <1>1, <3>1 DEF RxOrder, RxCount
  <2>5. task' # "copy"
    BY <1>5, <2>4 DEF RxOrder, RxCount
  <2>6. g \in 0..Got
    BY <1>1 DEF g
  <2>7. QED
    BY <1>5, <2>1, <2>2, <2>3, <2>5, <2>6, RxGoneOrder
<1>8. QED
  BY <1>6, <1>7

(* What com_recv is about to copy are the oldest bytes. *)
LEMMA RxCopiesWhole ==
    ASSUME RxConstants, RxOrder, task = "copy"
    PROVE  Oldest /\ rx_count \in 1..Got /\ (rx_count \in ends \/ rx_late)
<1>1. /\ RxCap \in Nat \ {0, 1} /\ Len(rx_owed) \in 0..(RxCap - 1) /\ Got \in 0..Len(rx_owed)
      /\ rx_read \in 0..(RxCap - 1) /\ rx_count \in 0..Got
  BY RxValues
<1>2. rx_count > 0
  BY DEF RxOrder, RxCount
<1>3. rx_owed \in Seq(RxByte) /\ \A k \in 1..Len(rx_owed) : rx_owed[k] \in RxByte
  <2>1. rx_owed \in Seq(RxByte)
    BY DEF RxOrder, RxTypes
  <2>2. QED
    BY <2>1
<1>4. \A k \in 1..rx_count :
         RxAt(IF k = 1 THEN rx_read ELSE (rx_read + k - 1) % RxCap) = rx_owed[k]
  <2>1. TAKE k \in 1..rx_count
  <2>2. /\ RxNth(rx_read, k - 1) \in 0..(RxCap - 1)
        /\ RxNth(rx_read, k - 1) = IF k = 1 THEN rx_read ELSE (rx_read + k - 1) % RxCap
    <3>1. CASE rx_read + k - 1 < RxCap
      BY <1>1, <3>1 DEF RxNth
    <3>2. CASE ~(rx_read + k - 1 < RxCap)
      BY <1>1, <3>2 DEF RxNth
    <3>3. QED
      BY <3>1, <3>2
  <2>3. rx_owed[k] = rx_buff[RxNth(rx_read, k - 1)]
    BY <1>1 DEF RxOrder, RxStored
  <2>4. QED
    BY <1>1, <2>2, <2>3 DEF RxAt
<1>5. Copied = [k \in 1..rx_count |-> rx_owed[k]]
  BY <1>4 DEF Copied
<1>6. [k \in 1..rx_count |-> rx_owed[k]] = SubSeq(rx_owed, 1, rx_count)
  <2> DEFINE s == [k \in 1..rx_count |-> rx_owed[k]]
  <2>1. s \in Seq(RxByte) /\ Len(s) = rx_count /\ \A k \in 1..rx_count : s[k] = rx_owed[k]
    BY <1>1, <1>3
  <2>2. /\ SubSeq(rx_owed, 1, rx_count) \in Seq(RxByte)
        /\ Len(SubSeq(rx_owed, 1, rx_count)) = rx_count
        /\ \A k \in 1..rx_count : SubSeq(rx_owed, 1, rx_count)[k] = rx_owed[k]
    BY <1>1, <1>2, <1>3
  <2> HIDE DEF s
  <2>3. s = SubSeq(rx_owed, 1, rx_count)
    BY <2>1, <2>2, SeqEqual
  <2>4. QED
    BY <2>3 DEF s
<1>7. rx_count \in ends \/ rx_late
  BY <1>1, <1>2 DEF RxOrder, RxCount
<1>8. QED
  BY <1>1, <1>2, <1>5, <1>6, <1>7 DEF Oldest

LEMMA RxCopyOrder == ASSUME RxConstants, RxOrder, RxCopy PROVE RxOrder'
<1>1. rx_count \in 1..Got
  BY RxCopiesWhole DEF RxCopy
<1>2. /\ RxCap \in Nat \ {0, 1} /\ Got \in 0..(RxCap - 1) /\ rx_read \in 0..(RxCap - 1)
  BY RxValues
<1>3. /\ rx_read' = (rx_read + rx_count) % RxCap
      /\ rx_count' = 0 /\ task' # "copy" /\ Gone(rx_count)
      /\ UNCHANGED <<rx_buff, rx_dma, left, rx_next>>
  BY <1>1, <1>2 DEF RxCopy, rx_line
<1>4. rx_read' = RxNth(rx_read, rx_count)
  <2>1. CASE rx_read + rx_count < RxCap
    <3>1. (rx_read + rx_count) % RxCap = rx_read + rx_count
      BY <1>1, <1>2, <2>1
    <3>2. QED
      BY <1>3, <2>1, <3>1 DEF RxNth
  <2>2. CASE ~(rx_read + rx_count < RxCap)
    <3>1. (rx_read + rx_count) % RxCap = rx_read + rx_count - RxCap
      BY <1>1, <1>2, <2>2
    <3>2. QED
      BY <1>3, <2>2, <3>1 DEF RxNth
  <2>3. QED
    BY <2>1, <2>2
<1>5. rx_count \in 0..Got
  BY <1>1, <1>2
<1>6. QED
  BY <1>3, <1>4, <1>5, RxGoneOrder

LEMMA RxRecvOrder ==
    ASSUME RxConstants, RxTyped, RxOrder,
           com_recv \/ OtherPost \/ OtherRun \/ UNCHANGED rx_vars
    PROVE  RxOrder'
<1>1. UNCHANGED <<rx_buff, rx_dma, rx_read, rx_count, left, rx_next, rx_owed, ends, rx_late>>
  BY DEF com_recv, OtherPost, OtherRun, rx_vars, rx_fifo, rx_line, rx_past
<1>2. task' = "copy" => rx_count > 0
  <2>1. CASE com_recv
    BY <2>1 DEF com_recv, RxTyped, RxNumbers, RxConstants
  <2>2. CASE OtherPost \/ OtherRun \/ UNCHANGED rx_vars
    BY <2>2 DEF OtherPost, OtherRun, rx_vars, RxOrder, RxCount
  <2>3. QED
    BY <2>1, <2>2
<1>3. Got' = Got
  BY <1>1 DEF Got
<1>4. QED
  BY <1>1, <1>2, <1>3 DEF RxOrder, RxTypes, RxStored, RxEnds, RxCount

(* The port is initialised again when nothing is under way. *)
LEMMA RxHandleOrder == ASSUME RxConstants, RxOrder, RxHandle, rx_calm' PROVE RxOrder'
<1>1. UNCHANGED <<rx_count, left, rx_next, rx_late>> /\ task' = "wait"
  BY DEF RxHandle, pc_init, rx_fifo, rx_line
<1>2. ~Disturbed
  BY DEF Disturbed
<1>3. UNCHANGED <<rx_owed, ends>>
  BY <1>2 DEF RxHandle, rx_past
<1>4. Got' = Got
  BY <1>1, <1>3 DEF Got
<1>5. CASE UNCHANGED <<rx_buff, rx_dma, rx_read>>
  BY <1>1, <1>3, <1>4, <1>5 DEF RxOrder, RxTypes, RxStored, RxEnds, RxCount
<1>6. CASE rx_owed = <<>> /\ pc_init
  <2>1. /\ rx_buff' = [a \in 0..(RxCap - 1) |-> RxCleared] /\ rx_dma' = 0 /\ rx_read' = 0
    BY <1>6 DEF pc_init
  <2>2. RxCap \in Nat \ {0, 1} /\ Len(rx_owed) = 0 /\ Got = 0 /\ left = 0
    BY <1>6, RxValues
  <2>3. RxTypes'
    BY <1>1, <1>3, <2>1, <2>2 DEF RxOrder, RxTypes
  <2>4. RxStored'
    BY <1>1, <1>4, <2>1, <2>2 DEF RxStored, RxNth
  <2>5. RxEnds' /\ RxCount'
    BY <1>1, <1>3, <1>4 DEF RxOrder, RxEnds, RxCount
  <2>6. QED
    BY <2>3, <2>4, <2>5 DEF RxOrder
<1>7. QED
  BY <1>2, <1>5, <1>6 DEF RxHandle, rx_fifo

(* In calm times the order is kept, and after them nothing is owed. *)
RxPast == /\ rx_calm => RxOrder
          /\ ~rx_calm => rx_owed = <<>> /\ ends = {}

LEMMA RxNextPast ==
    ASSUME RxConstants, RxTyped, RxPast, [RxNext]_rx_vars
    PROVE  RxPast'
<1>1. ASSUME rx_calm' PROVE rx_calm
  <2>1. CASE \E n \in RxLens : Arrive(n)
    BY <1>1, <2>1 DEF Arrive, Disturbed
  <2>2. CASE on_irq_idle
    BY <1>1, <2>2 DEF on_irq_idle, Disturbed, Gone, rx_past
  <2>3. CASE RxCopy
    BY <1>1, <2>3 DEF RxCopy, Gone
  <2>4. CASE RxHandle
    BY <1>1, <2>4 DEF RxHandle, Disturbed, rx_past
  <2>5. CASE RxReceive \/ OtherPost \/ OtherRun \/ com_recv \/ UNCHANGED rx_vars
    BY <1>1, <2>5 DEF RxReceive, OtherPost, OtherRun, com_recv, rx_vars, rx_past
  <2>6. QED
    BY <2>1, <2>2, <2>3, <2>4, <2>5 DEF RxNext
<1>2. ASSUME rx_calm' PROVE RxOrder'
  <2>1. RxOrder
    BY <1>1, <1>2 DEF RxPast
  <2>2. QED
    BY <1>2, <2>1, RxArriveOrder, RxReceiveOrder, RxIrqOrder, RxRecvOrder, RxCopyOrder,
       RxHandleOrder DEF RxNext
<1>3. ASSUME ~rx_calm' PROVE rx_owed' = <<>> /\ ends' = {}
  <2>1. CASE Disturbed
    BY <2>1 DEF Disturbed
  <2>2. CASE ~Disturbed
    <3>1. \A n : Gone(n) \/ UNCHANGED rx_past => ~rx_calm
      BY <1>3 DEF Gone, rx_past
    <3>2. ~rx_calm
      <4>1. CASE \E n \in RxLens : Arrive(n)
        BY <1>3, <2>2, <4>1 DEF Arrive
      <4>2. CASE on_irq_idle
        BY <2>2, <3>1, <4>2 DEF on_irq_idle
      <4>3. CASE RxCopy
        BY <3>1, <4>3 DEF RxCopy
      <4>4. CASE RxHandle
        BY <2>2, <3>1, <4>4 DEF RxHandle
      <4>5. CASE RxReceive \/ OtherPost \/ OtherRun \/ com_recv \/ UNCHANGED rx_vars
        BY <1>3, <4>5 DEF RxReceive, OtherPost, OtherRun, com_recv, rx_vars, rx_past
      <4>6. QED
        BY <4>1, <4>2, <4>3, <4>4, <4>5 DEF RxNext
    <3>3. rx_owed = <<>> /\ ends = {}
      BY <3>2 DEF RxPast
    <3>4. \/ UNCHANGED <<rx_owed, ends>>
          \/ \E n \in Nat : Gone(n)
      <4>1. CASE \E n \in RxLens : Arrive(n)
        BY <2>2, <3>2, <4>1 DEF Arrive
      <4>2. CASE on_irq_idle
        BY <2>2, <3>2, <4>2 DEF on_irq_idle, rx_past
      <4>3. CASE RxCopy
        BY <4>3 DEF RxCopy, RxTyped, RxNumbers, RxConstants
      <4>4. CASE RxHandle
        BY <2>2, <4>4 DEF RxHandle, rx_past
      <4>5. CASE RxReceive \/ OtherPost \/ OtherRun \/ com_recv \/ UNCHANGED rx_vars
        BY <4>5 DEF RxReceive, OtherPost, OtherRun, com_recv, rx_vars, rx_past
      <4>6. QED
        BY <4>1, <4>2, <4>3, <4>4, <4>5 DEF RxNext
    <3>5. ASSUME NEW n \in Nat, Gone(n) PROVE rx_owed' = <<>> /\ ends' = {}
      <4>1. ends' = {}
        BY <3>3, <3>5 DEF Gone
      <4>2. rx_owed' = SubSeq(<<>>, n + 1, 0)
        BY <3>3, <3>5 DEF Gone
      <4>3. SubSeq(<<>>, n + 1, 0) = <<>>
        BY <3>5
      <4>4. QED
        BY <4>1, <4>2, <4>3
    <3>6. QED
      BY <3>3, <3>4, <3>5
  <2>3. QED
    BY <2>1, <2>2
<1>4. QED
  BY <1>2, <1>3 DEF RxPast

RxSafe == RxTyped /\ RxPast

LEMMA RxSafety == RxSpec => []RxSafe
<1>0. RxConstants
  BY SerialRxAssumption DEF RxConstants
<1>1. RxInit => RxSafe
  <2>1. RxInit => rx_calm
    BY DEF RxInit
  <2>2. QED
    BY <1>0, <2>1, RxInitTyped, RxInitOrder DEF RxSafe, RxPast
<1>2. RxSafe /\ [RxNext]_rx_vars => RxSafe'
  BY <1>0, RxNextTyped, RxNextPast DEF RxSafe
<1>3. QED
  BY <1>1, <1>2, PTL DEF RxSpec

(* com_recv hands over the oldest bytes, unchanged and up to the end of a    *)
(* packet unless the interrupt was served while the next one came in: for a  *)
(* buffer of any size, packets and noise of any length, and every order of   *)
(* arrivals, interrupts and calls, until something disturbs the line.        *)
THEOREM HandsOverWhole == RxSpec => Whole
<1>0. RxConstants
  BY SerialRxAssumption DEF RxConstants
<1>1. RxSafe => (task = "copy" /\ rx_calm => Oldest /\ (rx_count \in ends \/ rx_late))
  BY <1>0, RxCopiesWhole DEF RxSafe, RxPast
<1>2. RxSafe /\ [RxNext]_rx_vars
        => [task = "copy" /\ task' # "copy" /\ rx_calm
              => Oldest /\ (rx_count \in ends \/ rx_late)]_rx_vars
  BY <1>1
<1>3. QED
  BY <1>2, RxSafety, PTL DEF RxSpec, Whole

(* Whatever arrives, noise and packets longer than the buffer included: the  *)
(* DMA channel and write_idx stay in the buffer, rx_len is the number of     *)
(* unread bytes and pc_rx_buffer holds them; read_idx, which is not reduced  *)
(* when noise is skipped, stays in the buffer as long as it is calm.         *)
THEOREM RxInBounds == RxSpec => []RxTypeOK
<1>0. RxConstants
  BY SerialRxAssumption DEF RxConstants
<1>1. RxSafe => RxTypeOK
  <2>1. SUFFICES ASSUME RxSafe PROVE RxTypeOK
    OBVIOUS
  <2>2. /\ rx_owed \in Seq(RxByte) /\ ends \subseteq 1..Len(rx_owed)
        /\ rx_calm => rx_read < RxCap
    <3>1. CASE rx_calm
      <4>1. RxOrder
        BY <2>1, <3>1 DEF RxSafe, RxPast
      <4>2. rx_read < RxCap
        BY <1>0, <4>1, RxValues
      <4>3. QED
        BY <4>1, <4>2 DEF RxOrder, RxTypes, RxEnds
    <3>2. CASE ~rx_calm
      <4>1. rx_owed = <<>> /\ ends = {}
        BY <2>1, <3>2 DEF RxSafe, RxPast
      <4>2. QED
        BY <3>2, <4>1
    <3>3. QED
      BY <3>1, <3>2
  <2>3. {idle, rx_late, rx_refused, rx_calm} \subseteq BOOLEAN
    BY <2>1 DEF RxSafe, RxTyped, RxBits
  <2>4. QED
    BY <2>1, <2>2, <2>3 DEF RxSafe, RxTyped, RxNumbers, RxQueue, RxTypeOK
<1>2. QED
  BY <1>1, RxSafety, PTL
=============================================================================
