------------------------------ MODULE AgentFifo ------------------------------
(***************************************************************************)
(* What an agent (app/arch/agent.c) promises its callers: the functions    *)
(* that agent_post accepts are called one at a time, each exactly once, in *)
(* the order in which they were accepted, and none is kept waiting for     *)
(* ever.  Only agent_flush drops functions.                                *)
(***************************************************************************)
EXTENDS Naturals, Sequences

CONSTANTS Size, Func, NoFunc

VARIABLES queue, running

Init == queue = <<>> /\ running = NoFunc

Accept(f) ==
    /\ Len(queue) < Size
    /\ queue' = Append(queue, f)
    /\ UNCHANGED running

Start ==
    /\ running = NoFunc
    /\ queue # <<>>
    /\ running' = Head(queue)
    /\ queue' = Tail(queue)

Finish ==
    /\ running # NoFunc
    /\ running' = NoFunc
    /\ UNCHANGED queue

Clear ==
    /\ queue' = <<>>
    /\ UNCHANGED running

Next == (\E f \in Func : Accept(f)) \/ Start \/ Finish \/ Clear

SafeSpec == Init /\ [][Next]_<<queue, running>>

Spec == /\ SafeSpec
        /\ WF_<<queue, running>>(Start) /\ WF_<<queue, running>>(Finish)
=============================================================================
