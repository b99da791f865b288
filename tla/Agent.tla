-------------------------------- MODULE Agent --------------------------------
(***************************************************************************)
(* One agent of app/arch/agent.c: a ring of functions to call, filled by   *)
(* agent_post from tasks and interrupt handlers, emptied by agent_task,    *)
(* and a counting semaphore that tells the agent how many there are.  The  *)
(* ring is changed inside a critical section; the semaphore is given after *)
(* it and taken before it, so ring and semaphore disagree in between.      *)
(*                                                                         *)
(* The three agents (AGENT_PRIO_HI, _MD, _LO) share no state.              *)
(***************************************************************************)
EXTENDS Integers, FiniteSets

CONSTANTS
    Size,       \* AGENT_QUEUE_SIZE
    Func,       \* functions, with their arguments, that are posted
    NoFunc,     \* func_entry = 0
    Task, Isr   \* the callers of agent_post

Poster == Task \cup Isr

ASSUME AgentAssumption ==
    /\ Size \in Nat \ {0}
    /\ NoFunc \notin Func
    /\ IsFiniteSet(Task) /\ IsFiniteSet(Isr) /\ Task \cap Isr = {}

VARIABLES
    array, head, tail, count,   \* agent_queue_t; the pointers as indices
    sem,                        \* count of the semaphore
    posting,    \* callers of agent_post between EXIT_CRITICAL and the give
    agent,      \* where agent_task is: "wait", "fetch" or "call"
    func,       \* func_entry
    flushed     \* history: agent_flush has been called

queue_vars == <<array, head, tail, count>>
vars == <<array, head, tail, count, sem, posting, agent, func, flushed>>

Slot == 0..(Size - 1)

Advance_NoWrap(i) == IF i = Size - 1 THEN i ELSE i + 1

Advance(i) == IF i + 1 = Size THEN 0 ELSE i + 1

Init ==
    /\ array = [i \in Slot |-> NoFunc]
    /\ head = 0 /\ tail = 0 /\ count = 0
    /\ sem = 0
    /\ posting = {}
    /\ agent = "wait"
    /\ func = NoFunc
    /\ flushed = FALSE

(* A task runs only when no interrupt handler is in the middle of a post. *)
TaskRuns == posting \cap Isr = {}
Runs(p) == p \in Task => TaskRuns

Enqueue_FullGoesOn(p, f) ==
    /\ Runs(p) /\ p \notin posting
    /\ IF count # Size
       THEN /\ array' = [array EXCEPT ![tail] = f]
            /\ tail' = Advance(tail)
            /\ count' = count + 1
       ELSE UNCHANGED <<array, tail, count>>
    /\ posting' = posting \cup {p}
    /\ UNCHANGED <<head, sem, agent, func, flushed>>

(* A full ring makes agent_post return -1 without any effect. *)
Enqueue(p, f) ==
    /\ Runs(p) /\ p \notin posting
    /\ count # Size
    /\ array' = [array EXCEPT ![tail] = f]
    /\ tail' = Advance(tail)
    /\ count' = count + 1
    /\ posting' = posting \cup {p}
    /\ UNCHANGED <<head, sem, agent, func, flushed>>

Give_Once(p) ==
    /\ Runs(p) /\ p \in posting
    /\ sem' = IF sem = 0 THEN 1 ELSE sem
    /\ posting' = posting \ {p}
    /\ UNCHANGED <<queue_vars, agent, func, flushed>>

(* xSemaphoreGive fails, and agent_post returns -1, at the maximal count. *)
Give(p) ==
    /\ Runs(p) /\ p \in posting
    /\ sem' = IF sem < Size THEN sem + 1 ELSE sem
    /\ posting' = posting \ {p}
    /\ UNCHANGED <<queue_vars, agent, func, flushed>>

agent_flush_KeepTail ==
    /\ count' = 0 /\ head' = 0
    /\ flushed' = TRUE
    /\ UNCHANGED <<array, tail, sem, posting, agent, func>>

agent_flush ==
    /\ count' = 0 /\ head' = 0 /\ tail' = 0
    /\ flushed' = TRUE
    /\ UNCHANGED <<array, sem, posting, agent, func>>

Take ==
    /\ TaskRuns
    /\ agent = "wait"
    /\ sem > 0
    /\ sem' = sem - 1
    /\ agent' = "fetch"
    /\ UNCHANGED <<queue_vars, posting, func, flushed>>

(* The semaphore may promise more than the ring holds after agent_flush. *)
Fetch ==
    /\ TaskRuns
    /\ agent = "fetch"
    /\ IF count > 0
       THEN /\ func' = array[head]
            /\ head' = Advance(head)
            /\ count' = count - 1
            /\ agent' = "call"
       ELSE /\ agent' = "wait"
            /\ UNCHANGED <<func, head, count>>
    /\ UNCHANGED <<array, tail, sem, posting, flushed>>

(* The function returns. *)
Return ==
    /\ TaskRuns
    /\ agent = "call"
    /\ func' = NoFunc
    /\ agent' = "wait"
    /\ UNCHANGED <<queue_vars, sem, posting, flushed>>

Next ==
    \/ \E p \in Poster : Give(p) \/ \E f \in Func : Enqueue(p, f)
    \/ agent_flush
    \/ Take \/ Fetch \/ Return

(* Every call of agent_post goes on, interrupts leave the agent time to run  *)
(* however often they come, and the functions it calls return.               *)
Fairness ==
    /\ \A p \in Poster : WF_vars(Give(p))
    /\ SF_vars(Take) /\ SF_vars(Fetch) /\ SF_vars(Return)

SafeSpec == Init /\ [][Next]_vars
Spec == SafeSpec /\ Fairness

-----------------------------------------------------------------------------
(* The indices stay within the ring, and func_entry is set exactly while the *)
(* agent is calling it.                                                      *)
TypeOK ==
    /\ array \in [Slot -> Func \cup {NoFunc}]
    /\ head \in Slot /\ tail \in Slot /\ count \in 0..Size
    /\ sem \in 0..Size
    /\ posting \subseteq Poster
    /\ agent \in {"wait", "fetch", "call"}
    /\ func \in Func \cup {NoFunc}
    /\ agent = "call" <=> func # NoFunc
    /\ flushed \in BOOLEAN

Tokens == sem + Cardinality(posting) + (IF agent = "fetch" THEN 1 ELSE 0)

(* No lost wake-up: every function in the ring has a token, in the           *)
(* semaphore, with a caller about to give it or with the agent.              *)
NoLostWakeup == Tokens >= count

(* agent_post never reports failure for a function it has queued: when it    *)
(* gets to the semaphore the semaphore has room.  This relies on the tokens  *)
(* matching the ring exactly, which after agent_flush they need not.         *)
GiveSucceeds == ~flushed /\ posting # {} => sem < Size

(* The ring as a sequence. *)
At(i) == IF head + i - 1 < Size THEN head + i - 1 ELSE head + i - 1 - Size
Contents == [i \in 1..count |-> array[At(i)]]

Fifo == INSTANCE AgentFifo WITH queue <- Contents, running <- func

(* Calls happen in the order of acceptance, none twice and none lost, even   *)
(* when the ring is flushed under callers that are about to give.            *)
FifoOrder == Fifo!SafeSpec

(* The ring, the semaphore and the agent implement the queue of AgentFifo:   *)
(* accepted functions are called once each, in order, and eventually.        *)
ImplementsFifo == Fifo!Spec
=============================================================================
