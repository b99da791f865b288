---------------------------- MODULE MCTcpServer ----------------------------
(***************************************************************************)
(* Two slots, two threads and two connections; a third connection is there *)
(* to be refused when both slots are taken.  Failures, what breaks "calm"  *)
(* and commands without an answer are not combined.                        *)
(***************************************************************************)
EXTENDS TcpServer

CONSTANT spare

Focus ==
    /\ calm \/ fails = 0
    /\ (calm /\ fails = 0) \/ result.how \notin {"silent", "refused"}
    /\ \/ conn[spare] = "free"
       \/ conn[spare] = "backlog" /\ calm /\ \A s \in Slot : client[s].online
=============================================================================
