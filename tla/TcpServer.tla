----------------------------- MODULE TcpServer -----------------------------
(***************************************************************************)
(* The TCP server of the work port, app/comm/tcp_server.c: server_task     *)
(* accepts connections and gives each one a slot of client_list and a      *)
(* thread; the threads receive commands into a buffer they share, handle   *)
(* them and answer.  lwIP is external: a connection is a netconn that is   *)
(* waiting to be accepted, open, closed, or deleted and so free again.     *)
(* Burst output to the first client (burst_tcp_enabled) is left out.       *)
(*                                                                         *)
(* Of these tasks server_task has the highest priority, then come the      *)
(* client threads in the order of their slots; those of lwIP are above all *)
(* of them.  They block in calls of lwIP, and others run meanwhile;        *)
(* between such calls a task is only interrupted by one of higher          *)
(* priority.                                                               *)
(*                                                                         *)
(* An operator named Op_Variant is Op with a mistake in it; no             *)
(* specification uses it.                                                  *)
(***************************************************************************)
EXTENDS Integers, FiniteSets

CONSTANTS
    Conn, NoConn,   \* netconns, and NULL
    MaxClients,     \* MAX_CLIENT_COUNT
    Thread,         \* client threads that fit into the heap
    MaxFail         \* bound on failures of lwIP and of thread_create

Slot == 1..MaxClients

ASSUME TcpServerAssumption ==
    /\ NoConn \notin Conn
    /\ MaxClients \in Nat \ {0}
    /\ MaxFail \in Nat

VARIABLES
    conn,           \* state of each netconn
    gone,           \* netconns whose peer has closed the connection
    asked,          \* netconns with a command that was not received yet
    waiting,        \* history: netconns with a command that was not handled yet
    lost,           \* history: netconns given up because the network was down
    server,         \* work_context.server_state, or "setup" after accepting
    cur,            \* slot being set up
    client,         \* work_context.client_list
    thread,         \* pc, slot and, as history, the netconn of each thread
    listener,       \* whether the netconn server_task listens on exists
    client_count,   \* work_context.client_count
    channels,       \* slots in tcp_group of comm_mgr
    rx_buffer,      \* server_rx_buffer: netconn its command came from
    port,           \* tcp_port.channel_idx, as a slot
    result,         \* history: whose command was handled last, and how, until
                    \* the network does something; kept while calm
    fails,
    calm            \* history: no connection has come in while a client was
                    \* leaving, and no two clients had commands under way at
                    \* the same time

net_vars == <<conn, gone, asked, waiting, lost>>
server_vars == <<server, listener, cur, client_count, fails>>
buffer_vars == <<rx_buffer, port, result>>
vars == <<conn, gone, asked, waiting, lost, server, listener, cur, client, thread,
          client_count, channels, rx_buffer, port, result, fails, calm>>

Results == {"none", "silent", "refused", "answered", "missed"}
NoResult == [conn |-> NoConn, how |-> "none"]

NoThread == [pc |-> "none", slot |-> 1, mine |-> NoConn]

Init ==
    /\ conn = [c \in Conn |-> "free"]
    /\ gone = {} /\ asked = {} /\ waiting = {} /\ lost = {}
    /\ server = "wait_link" /\ listener = FALSE /\ cur = 1
    /\ client = [s \in Slot |-> [online |-> FALSE, conn |-> NoConn, state |-> "init"]]
    /\ thread = [t \in Thread |-> NoThread]
    /\ client_count = 0
    /\ channels = {}
    /\ rx_buffer = NoConn /\ port = 1 /\ result = NoResult
    /\ fails = 0 /\ calm = TRUE

Coming == server = "setup" \/ \E c \in Conn : conn[c] = "backlog"
Departing ==
    \E t \in Thread :
        \/ thread[t].pc \in {"removed", "offline", "closing"}
        \/ thread[t].pc = "run" /\ client[thread[t].slot].state = "disconnect"
Leaving == gone # {} \/ Departing
UnderWay == waiting # {} \/ asked # {} \/ \E s \in Slot : client[s].state = "process"

-----------------------------------------------------------------------------
(* The network. *)

Connect(c) ==
    /\ conn[c] = "free" /\ server \in {"accept", "setup"}
    /\ calm' = (calm /\ ~Leaving)
    /\ conn' = [conn EXCEPT ![c] = "backlog"]
    /\ result' = NoResult
    /\ UNCHANGED <<gone, asked, waiting, lost, server_vars, client, thread, channels,
                   rx_buffer, port>>

Ask(c) ==
    /\ conn[c] = "open" /\ c \notin gone /\ c \notin waiting
    /\ calm' = (calm /\ ~UnderWay)
    /\ asked' = asked \cup {c}
    /\ waiting' = waiting \cup {c}
    /\ result' = NoResult
    /\ UNCHANGED <<conn, gone, lost, server_vars, client, thread, channels, rx_buffer, port>>

(* A client may leave without waiting for its answer. *)
Leave(c) ==
    /\ conn[c] = "open" /\ c \notin gone
    /\ calm' = (calm /\ ~Coming)
    /\ gone' = gone \cup {c}
    /\ waiting' = waiting \ {c}
    /\ result' = NoResult
    /\ UNCHANGED <<conn, asked, lost, server_vars, client, thread, channels, rx_buffer, port>>

(* netconn_delete: what is known of the connection is forgotten. *)
Delete(c) ==
    /\ conn' = [conn EXCEPT ![c] = "free"]
    /\ gone' = gone \ {c}
    /\ asked' = asked \ {c}
    /\ waiting' = waiting \ {c}
    /\ lost' = lost \ {c}

-----------------------------------------------------------------------------
(* server_task. *)

ServerStep(from, to) ==
    /\ server = from
    /\ server' = to
    /\ UNCHANGED <<net_vars, cur, client, thread, client_count, channels,
                   buffer_vars, calm>>

LinkUp == ServerStep("wait_link", "create") /\ UNCHANGED <<listener, fails>>
Create == ServerStep("create", "bind") /\ listener' = TRUE /\ UNCHANGED fails
Bind == ServerStep("bind", "listen") /\ UNCHANGED <<listener, fails>>
Listen == ServerStep("listen", "accept") /\ UNCHANGED <<listener, fails>>

(* netconn_new, netconn_bind, netconn_listen or netconn_accept fails. *)
Fail ==
    /\ fails < MaxFail
    /\ fails' = fails + 1
    /\ \E s \in {"create", "bind", "listen", "accept"} :
          /\ ServerStep(s, "restart")
          /\ listener' = (s = "accept")

FreeSlot_NotChecked(s) == s = 1

FreeSlot(s) == ~client[s].online /\ \A u \in Slot : u < s => client[u].online

(* The first slot that is not online, up to netconn_getaddr. *)
Accept(c) ==
    /\ server = "accept" /\ conn[c] = "backlog"
    /\ conn' = [conn EXCEPT ![c] = "open"]
    /\ \E s \in Slot :
          /\ FreeSlot(s)
          /\ client' = [client EXCEPT ![s].conn = c, ![s].online = TRUE]
          /\ cur' = s
    /\ server' = "setup"
    /\ UNCHANGED <<gone, asked, waiting, lost, listener, thread, client_count, channels,
                   buffer_vars, fails, calm>>

TooMany(c) ==
    /\ server = "accept" /\ conn[c] = "backlog"
    /\ \A s \in Slot : client[s].online
    /\ Delete(c)
    /\ UNCHANGED <<server_vars, client, thread, channels, buffer_vars, calm>>

(* client_count never comes down; only whether it exceeds an index matters. *)
CountUp == IF client_count < MaxClients THEN client_count + 1 ELSE client_count

(* The rest: state, comm_channel_add and thread_create, which both may find  *)
(* no memory; the client stays online all the same.                          *)
Setup ==
    /\ server = "setup"
    /\ client' = [client EXCEPT ![cur].state = "init"]
    /\ \E added, created \in BOOLEAN :
          /\ channels' = IF added THEN channels \cup {cur} ELSE channels
          /\ fails' = IF added /\ created THEN fails ELSE fails + 1
          /\ fails' <= MaxFail
          /\ IF created
             THEN /\ client_count' = CountUp
                  /\ \E t \in Thread :
                        /\ thread[t].pc = "none"
                        /\ thread' = [thread EXCEPT ![t] = [pc |-> "run", slot |-> cur,
                                                            mine |-> client[cur].conn]]
             ELSE UNCHANGED <<thread, client_count>>
    /\ server' = "accept"
    /\ UNCHANGED <<net_vars, listener, cur, buffer_vars, calm>>

(* The listening netconn is deleted and a new server_task created in place   *)
(* of this one, or this one goes on when thread_create refuses the number    *)
(* thread_num, which every client that leaves has counted down.  Either task *)
(* finds server_state as it was left.                                        *)
Restart ==
    /\ ServerStep("restart", "restart")
    /\ listener' = FALSE
    /\ UNCHANGED fails

-----------------------------------------------------------------------------
(* client_thread. *)

At(t, pc, state) ==
    /\ thread[t].pc = pc
    /\ client[thread[t].slot].state = state

ClientInit(t) ==
    /\ At(t, "run", "init")
    /\ client' = [client EXCEPT ![thread[t].slot].state = "wait_data"]
    /\ UNCHANGED <<net_vars, server_vars, thread, channels, buffer_vars, calm>>

(* netconn_recv reports an error: no connection, one that was closed, or one *)
(* whose peer is gone and whose data has been read.                          *)
Broken(c) ==
    \/ c = NoConn
    \/ c \in Conn /\ conn[c] = "closed"
    \/ c \in gone \ asked

(* netconn_recv returns a command, *)
Receive(t) ==
    LET s == thread[t].slot
        c == client[s].conn
    IN
    /\ At(t, "run", "wait_data")
    /\ c \in asked /\ ~Broken(c)
    /\ asked' = asked \ {c}
    /\ client' = [client EXCEPT ![s].state = "process"]
    /\ UNCHANGED <<conn, gone, waiting, lost, server_vars, thread, channels, buffer_vars,
                   calm>>

ReceiveFails_Again(t) ==
    /\ At(t, "run", "wait_data")
    /\ Broken(client[thread[t].slot].conn)
    /\ UNCHANGED vars

(* or an error. *)
ReceiveFails(t) ==
    LET s == thread[t].slot
        c == client[s].conn
    IN
    /\ At(t, "run", "wait_data")
    /\ Broken(c)
    /\ client' = [client EXCEPT ![s].state = "disconnect"]
    /\ UNCHANGED <<net_vars, server_vars, thread, channels, buffer_vars, calm>>

(* The network has been down for CLIENT_OFFLINE_TIMEO time-outs. *)
LinkLost(t) ==
    LET s == thread[t].slot IN
    /\ At(t, "run", "wait_data")
    /\ calm' = (calm /\ ~Coming)
    /\ lost' = lost \cup ({client[s].conn} \cap Conn)
    /\ client' = [client EXCEPT ![s].state = "disconnect"]
    /\ UNCHANGED <<conn, gone, asked, waiting, server_vars, thread, channels, buffer_vars>>

(* No thread of higher priority is between its two steps of processing. *)
Runs(t) == \A u \in Thread : thread[u].pc = "copied" => thread[u].slot > thread[t].slot

Copy_KeepPort(t) ==
    /\ At(t, "run", "process") /\ Runs(t)
    /\ rx_buffer' = client[thread[t].slot].conn
    /\ thread' = [thread EXCEPT ![t].pc = "copied"]
    /\ UNCHANGED <<net_vars, server_vars, client, channels, port, result, calm>>

(* The command is copied into the common buffer. *)
Copy(t) ==
    LET s == thread[t].slot IN
    /\ At(t, "run", "process") /\ Runs(t)
    /\ rx_buffer' = client[s].conn
    /\ port' = s
    /\ thread' = [thread EXCEPT ![t].pc = "copied"]
    /\ UNCHANGED <<net_vars, server_vars, client, channels, result, calm>>

Reachable_Below(s) == s < client_count /\ client[s].conn # NoConn

(* tcp_server_send_low: the client in slot s is found, *)
Reachable(s) == s <= client_count /\ client[s].conn # NoConn

(* and its answer goes out, unless the network is down, the send buffer of   *)
(* the connection is more than half full or tcp_write fails.                 *)
SendLow(s) ==
    {"refused",
     IF Reachable(s) /\ client[s].conn = rx_buffer THEN "answered" ELSE "missed"}

(* proto_process in its critical section: a character command is ignored     *)
(* while firmware is transferred, and some commands have no answer; other    *)
(* answers go to the slot in tcp_port.                                       *)
Handle(t) ==
    /\ thread[t].pc = "copied"
    /\ \A u \in Thread \ {t} : thread[u].pc = "copied" => thread[u].slot > thread[t].slot
    /\ \E how \in {"silent"} \cup SendLow(port) :
          result' = IF calm THEN [conn |-> rx_buffer, how |-> how] ELSE NoResult
    /\ waiting' = waiting \ {rx_buffer}
    /\ thread' = [thread EXCEPT ![t].pc = "run"]
    /\ client' = [client EXCEPT ![thread[t].slot].state = "wait_data"]
    /\ UNCHANGED <<conn, gone, asked, lost, server_vars, channels, rx_buffer, port, calm>>

Remove_KeepChannel(t) ==
    /\ At(t, "run", "disconnect")
    /\ thread' = [thread EXCEPT ![t].pc = "removed"]
    /\ UNCHANGED <<net_vars, server_vars, client, channels, buffer_vars, calm>>

(* comm_channel_remove. *)
Remove(t) ==
    /\ At(t, "run", "disconnect")
    /\ channels' = channels \ {thread[t].slot}
    /\ thread' = [thread EXCEPT ![t].pc = "removed"]
    /\ UNCHANGED <<net_vars, server_vars, client, buffer_vars, calm>>

Offline(t) ==
    /\ thread[t].pc = "removed"
    /\ client' = [client EXCEPT ![thread[t].slot].online = FALSE]
    /\ thread' = [thread EXCEPT ![t].pc = "offline"]
    /\ UNCHANGED <<net_vars, server_vars, channels, buffer_vars, calm>>

(* netconn_close on whatever connection the slot holds. *)
Close(t) ==
    LET c == client[thread[t].slot].conn IN
    /\ thread[t].pc = "offline"
    /\ conn' = IF c = NoConn THEN conn ELSE [conn EXCEPT ![c] = "closed"]
    /\ thread' = [thread EXCEPT ![t].pc = "closing"]
    /\ UNCHANGED <<gone, asked, waiting, lost, server_vars, client, channels, buffer_vars,
                   calm>>

End_NoDelete(t) ==
    LET s == thread[t].slot IN
    /\ thread[t].pc = "closing"
    /\ client' = [client EXCEPT ![s].conn = NoConn]
    /\ thread' = [thread EXCEPT ![t] = NoThread]
    /\ UNCHANGED <<net_vars, server_vars, channels, buffer_vars, calm>>

(* netconn_delete, and the thread ends. *)
End(t) ==
    LET s == thread[t].slot IN
    /\ thread[t].pc = "closing"
    /\ IF client[s].conn = NoConn THEN UNCHANGED net_vars ELSE Delete(client[s].conn)
    /\ client' = [client EXCEPT ![s].conn = NoConn]
    /\ thread' = [thread EXCEPT ![t] = NoThread]
    /\ UNCHANGED <<server_vars, channels, buffer_vars, calm>>

-----------------------------------------------------------------------------
ServerTask == \/ LinkUp \/ Create \/ Bind \/ Listen
              \/ \E c \in Conn : Accept(c) \/ TooMany(c)
              \/ Setup \/ Restart

ClientThread(t) == \/ ClientInit(t) \/ Receive(t) \/ ReceiveFails(t)
                   \/ Copy(t) \/ Handle(t)
                   \/ Remove(t) \/ Offline(t) \/ Close(t) \/ End(t)

Next == \/ \E c \in Conn : Connect(c) \/ Ask(c) \/ Leave(c)
        \/ ServerTask \/ Fail
        \/ \E t \in Thread : ClientThread(t) \/ LinkLost(t)

(* The tasks are scheduled, and a failure does not last. *)
Fairness == /\ WF_vars(ServerTask)
            /\ \A t \in Thread : WF_vars(ClientThread(t))

Spec == Init /\ [][Next]_vars /\ Fairness

-----------------------------------------------------------------------------
(* Types; a command that has not been received is one somebody waits for, or *)
(* of a client that has left.                                                *)
TypeOK ==
    /\ conn \in [Conn -> {"free", "backlog", "open", "closed"}]
    /\ gone \subseteq Conn /\ waiting \subseteq Conn /\ asked \subseteq Conn
    /\ lost \subseteq Conn
    /\ calm => asked \subseteq waiting \cup gone
    /\ server \in {"wait_link", "create", "bind", "listen", "accept", "setup", "restart"}
    /\ cur \in Slot
    /\ client \in [Slot -> [online : BOOLEAN, conn : Conn \cup {NoConn},
                            state : {"init", "wait_data", "process", "disconnect"}]]
    /\ \A t \in Thread :
          /\ thread[t].pc \in {"none", "run", "copied", "removed", "offline", "closing"}
          /\ thread[t].slot \in Slot
    /\ listener \in BOOLEAN /\ client_count \in 0..MaxClients
    /\ channels \subseteq Slot
    /\ rx_buffer \in Conn \cup {NoConn} /\ port \in Slot
    /\ result \in [conn : Conn \cup {NoConn}, how : Results]
    /\ fails \in 0..MaxFail /\ calm \in BOOLEAN

(* A slot that is given to a new client is really free: a thread that is     *)
(* still there works on the connection it was created for.                   *)
SlotIsFree == \A t \in Thread :
    thread[t].pc # "none" => client[thread[t].slot].conn = thread[t].mine

(* That holds as long as no connection comes in while a client leaves.       *)
OwnConn == calm => SlotIsFree

(* Whoever has a command handled gets the answer: the common buffer holds    *)
(* the command of the thread that handles it, as long as one client at a     *)
(* time has a command under way.                                             *)
OwnCommand ==
    calm => \A t \in Thread :
        thread[t].pc = "copied" =>
            rx_buffer = client[thread[t].slot].conn /\ port = thread[t].slot

(* A client that has left leaves nothing behind: the connections that exist  *)
(* are those of the slots in use.                                            *)
Tidy ==
    calm /\ server = "accept" /\ ~Departing =>
        {c \in Conn : conn[c] \in {"open", "closed"}} =
            {client[s].conn : s \in {u \in Slot : client[u].online}}

(* Only slots in use are channels of the group "TCP" of comm_mgr, whatever   *)
(* comes together and whatever fails.                                        *)
ChannelsOnline == \A s \in channels : client[s].online

(* The command of c was handled and its answer given to lwIP, or none was    *)
(* due, or lwIP did not take it.                                             *)
Settled(c) ==
    result.conn = c /\ result.how \in {"answered", "silent", "refused"}

(* Every command is received and handled, and the answer it has finds its    *)
(* client, unless the client leaves or is given up because the network was   *)
(* down.  This holds as long as nothing has failed: a client without a       *)
(* thread is not served, and makes client_count too small.                   *)
Answered ==
    \A c \in Conn : c \in waiting ~>
        Settled(c) \/ c \in gone \/ c \in lost \/ ~calm \/ fails > 0

(* The connection of a client that has left is deleted.                      *)
Freed == \A c \in Conn : c \in gone ~> c \notin gone \/ ~calm \/ fails > 0
=============================================================================
