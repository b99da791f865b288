----------------------------- MODULE AgentProofs -----------------------------
(***************************************************************************)
(* Proofs about one agent, for every ring size and every set of callers:   *)
(* no wake-up is lost, agent_post never reports failure for a function it  *)
(* has queued, and the ring implements the queue of AgentFifo (its safety  *)
(* part; that every accepted function is eventually called is checked by   *)
(* TLC only).                                                              *)
(***************************************************************************)
EXTENDS Agent, Sequences, FiniteSetTheorems, TLAPS

(* tail is count slots ahead of head, and the slots in between are filled. *)
Ring ==
    /\ tail = IF head + count < Size THEN head + count ELSE head + count - Size
    /\ \A i \in 1..count : array[At(i)] \in Func

IInv == TypeOK /\ Ring /\ NoLostWakeup /\ (~flushed => Tokens = count)

LEMMA PostingFinite ==
    ASSUME posting \subseteq Poster
    PROVE  IsFiniteSet(posting) /\ Cardinality(posting) \in Nat
<1>1. IsFiniteSet(Poster)
  BY AgentAssumption, FS_Union DEF Poster
<1>2. QED
  BY <1>1, FS_Subset, FS_CardinalityType

LEMMA InitIInv == Init => IInv
<1> SUFFICES ASSUME Init PROVE IInv
  OBVIOUS
<1>1. TypeOK
  <2>1. flushed \in BOOLEAN
    BY DEF Init
  <2>2. /\ array \in [Slot -> Func \cup {NoFunc}]
        /\ head \in Slot /\ tail \in Slot /\ count \in 0..Size /\ sem \in 0..Size
    BY AgentAssumption DEF Init, Slot
  <2>. QED
    BY <2>1, <2>2 DEF Init, TypeOK
<1>2. Ring
  BY AgentAssumption DEF Init, Ring
<1>3. Tokens = 0
  BY FS_EmptySet DEF Init, Tokens
<1>4. QED
  BY <1>1, <1>2, <1>3 DEF Init, IInv, NoLostWakeup

LEMMA EnqueueIInv ==
    ASSUME IInv, NEW p \in Poster, NEW f \in Func, Enqueue(p, f)
    PROVE  IInv'
<1>1. /\ p \notin posting /\ posting' = posting \cup {p} /\ count' = count + 1
      /\ sem' = sem /\ agent' = agent /\ head' = head /\ func' = func
      /\ array' = [array EXCEPT ![tail] = f] /\ tail' = Advance(tail)
      /\ count \in Nat /\ count < Size /\ flushed' = flushed
  BY AgentAssumption DEF Enqueue, IInv, TypeOK
<1>2. TypeOK'
  BY <1>1, AgentAssumption DEF IInv, TypeOK, Slot, Advance
<1>3. Ring'
  <2>1. tail' = IF head' + count' < Size THEN head' + count' ELSE head' + count' - Size
    BY <1>1, AgentAssumption DEF IInv, Ring, TypeOK, Slot, Advance
  <2>2. ASSUME NEW i \in 1..count' PROVE array'[At(i)'] \in Func
    <3>1. CASE i = count'
      BY <1>1, <3>1, AgentAssumption DEF IInv, Ring, TypeOK, Slot, At
    <3>2. CASE i # count'
      <4>1. i \in 1..count /\ At(i)' = At(i) /\ At(i) \in Slot /\ At(i) # tail
        BY <1>1, <3>2, AgentAssumption DEF IInv, Ring, TypeOK, Slot, At
      <4>2. QED
        BY <1>1, <4>1 DEF IInv, Ring, TypeOK
    <3>3. QED
      BY <3>1, <3>2
  <2>3. QED
    BY <2>1, <2>2 DEF Ring
<1>4. Cardinality(posting') = Cardinality(posting) + 1 /\ Cardinality(posting) \in Nat
  BY <1>1, PostingFinite, FS_AddElement DEF IInv, TypeOK
<1>5. Tokens' = Tokens + 1 /\ Tokens \in Nat
  BY <1>1, <1>4 DEF Tokens, IInv, TypeOK
<1>6. QED
  BY <1>1, <1>2, <1>3, <1>5 DEF IInv, NoLostWakeup

LEMMA GiveIInv ==
    ASSUME IInv, NEW p \in Poster, Give(p)
    PROVE  IInv'
<1>1. /\ p \in posting /\ posting' = posting \ {p} /\ UNCHANGED queue_vars
      /\ sem' = (IF sem < Size THEN sem + 1 ELSE sem)
      /\ agent' = agent /\ func' = func /\ flushed' = flushed
  BY DEF Give
<1>2. TypeOK' /\ Ring'
  BY <1>1, AgentAssumption DEF IInv, TypeOK, Ring, At, queue_vars
<1>3. /\ Cardinality(posting') = Cardinality(posting) - 1
      /\ Cardinality(posting) \in Nat /\ Cardinality(posting) # 0
  BY <1>1, PostingFinite, FS_RemoveElement, FS_EmptySet DEF IInv, TypeOK
<1>4. /\ sem \in 0..Size /\ count \in 0..Size /\ count' = count
      /\ Tokens >= count /\ (~flushed => Tokens = count)
  BY <1>1 DEF IInv, TypeOK, NoLostWakeup, queue_vars
<1>5. ~flushed => sem < Size
  BY <1>3, <1>4, AgentAssumption DEF Tokens
<1>6. sem < Size => Tokens' = Tokens
  BY <1>1, <1>3, <1>4 DEF Tokens
<1>7. sem = Size => Tokens' >= Size
  <2>1. Cardinality(posting') \in Nat
    BY <1>3
  <2>2. QED
    BY <1>1, <1>4, <2>1, AgentAssumption DEF Tokens
<1>8. NoLostWakeup' /\ (~flushed' => Tokens' = count')
  <2>1. CASE sem < Size
    BY <1>1, <1>4, <1>6, <2>1 DEF NoLostWakeup
  <2>2. CASE sem = Size
    <3>1. flushed' /\ Tokens' >= Size /\ Tokens' \in Int
      BY <1>1, <1>3, <1>4, <1>5, <1>7, <2>2, AgentAssumption DEF Tokens
    <3>2. QED
      BY <1>4, <3>1, AgentAssumption DEF NoLostWakeup
  <2>3. QED
    BY <1>4, <2>1, <2>2, AgentAssumption
<1>9. QED
  BY <1>2, <1>5, <1>8 DEF IInv

LEMMA FlushIInv ==
    ASSUME IInv, agent_flush PROVE IInv'
<1>1. /\ flushed' = TRUE /\ count' = 0 /\ head' = 0 /\ tail' = 0
      /\ UNCHANGED <<array, sem, posting, agent, func>>
  BY DEF agent_flush
<1>2. TypeOK' /\ Ring'
  BY <1>1, AgentAssumption DEF IInv, TypeOK, Ring, Slot
<1>3. Cardinality(posting) \in Nat
  BY PostingFinite DEF IInv, TypeOK
<1>4. NoLostWakeup'
  BY <1>1, <1>3 DEF IInv, TypeOK, NoLostWakeup, Tokens
<1>5. QED
  BY <1>1, <1>2, <1>4 DEF IInv

LEMMA TakeIInv ==
    ASSUME IInv, Take PROVE IInv'
<1>1. /\ agent = "wait" /\ agent' = "fetch" /\ sem > 0 /\ sem' = sem - 1
      /\ UNCHANGED <<array, head, tail, count, posting, func, flushed>>
  BY DEF Take, queue_vars
<1>2. TypeOK' /\ Ring'
  BY <1>1, AgentAssumption DEF IInv, TypeOK, Ring, At
<1>3. Cardinality(posting) \in Nat
  BY PostingFinite DEF IInv, TypeOK
<1>4. Tokens' = Tokens
  BY <1>1, <1>3 DEF IInv, TypeOK, Tokens
<1>5. QED
  BY <1>1, <1>2, <1>4 DEF IInv, NoLostWakeup

(* Taking the first function shifts the others down by one. *)
LEMMA FetchShifts ==
    ASSUME IInv, count > 0, head' = Advance(head), count' = count - 1
    PROVE  \A i \in 1..count' : i + 1 \in 1..count /\ At(i)' = At(i + 1)
BY AgentAssumption DEF IInv, TypeOK, Slot, Advance, At

LEMMA FetchIInv ==
    ASSUME IInv, Fetch PROVE IInv'
<1>1. agent = "fetch" /\ UNCHANGED <<array, tail, sem, posting, flushed>>
  BY DEF Fetch
<1>2. Cardinality(posting) \in Nat
  BY PostingFinite DEF IInv, TypeOK
<1>3. Tokens' = Tokens - 1 /\ Tokens \in Nat
  BY <1>1, <1>2 DEF Fetch, IInv, TypeOK, Tokens
<1>4. CASE count > 0
  <2>1. /\ func' = array[head] /\ head' = Advance(head) /\ count' = count - 1
        /\ agent' = "call"
    BY <1>4 DEF Fetch
  <2>2. At(1) = head /\ array[head] \in Func
    <3>1. 1 \in 1..count /\ At(1) = head
      BY <1>4, AgentAssumption DEF IInv, TypeOK, Slot, At
    <3>. QED
      BY <3>1 DEF IInv, Ring
  <2>3. TypeOK'
    <3>1. head' \in Slot /\ count' \in 0..Size
      BY <1>4, <2>1, AgentAssumption DEF IInv, TypeOK, Slot, Advance
    <3>2. func' \in Func /\ func' # NoFunc
      BY <2>1, <2>2, AgentAssumption
    <3>. QED
      BY <1>1, <2>1, <3>1, <3>2 DEF IInv, TypeOK
  <2>4. tail' = IF head' + count' < Size THEN head' + count' ELSE head' + count' - Size
    BY <1>1, <1>4, <2>1, AgentAssumption DEF IInv, TypeOK, Ring, Slot, Advance
  <2>5. \A i \in 1..count' : i + 1 \in 1..count /\ At(i)' = At(i + 1)
    BY <1>4, <2>1, FetchShifts
  <2>6. Ring'
    BY <1>1, <2>4, <2>5 DEF IInv, Ring
  <2>7. NoLostWakeup' /\ (~flushed' => Tokens' = count')
    BY <1>1, <1>3, <2>1 DEF IInv, TypeOK, NoLostWakeup
  <2>8. QED
    BY <2>3, <2>6, <2>7 DEF IInv
<1>5. CASE ~(count > 0)
  <2>1. count = 0 /\ UNCHANGED <<func, head, count>> /\ agent' = "wait"
    BY <1>5 DEF Fetch, IInv, TypeOK
  <2>2. TypeOK' /\ Ring'
    BY <1>1, <2>1, AgentAssumption DEF IInv, TypeOK, Ring, At
  <2>3. Tokens # 0
    BY <1>1, <1>2 DEF IInv, TypeOK, Tokens
  <2>4. NoLostWakeup' /\ (~flushed' => Tokens' = count')
    BY <1>1, <1>3, <2>1, <2>3 DEF IInv, NoLostWakeup
  <2>5. QED
    BY <2>2, <2>4 DEF IInv
<1>6. QED
  BY <1>4, <1>5

LEMMA ReturnIInv ==
    ASSUME IInv, Return \/ UNCHANGED vars PROVE IInv'
<1>1. UNCHANGED <<array, head, tail, count, sem, posting, flushed>>
  BY DEF Return, queue_vars, vars
<1>2. TypeOK' /\ Ring'
  BY <1>1, AgentAssumption DEF Return, vars, IInv, TypeOK, Ring, At
<1>3. Tokens' = Tokens
  BY <1>1 DEF Return, vars, Tokens
<1>4. QED
  BY <1>1, <1>2, <1>3 DEF IInv, NoLostWakeup

(* The inductive invariant: the ring is consistent, and until agent_flush is *)
(* called there are exactly as many tokens as functions in the ring.                *)
THEOREM Invariance == SafeSpec => []IInv
<1>1. IInv /\ [Next]_vars => IInv'
  <2> SUFFICES ASSUME IInv, [Next]_vars PROVE IInv'
    OBVIOUS
  <2>1. ASSUME NEW p \in Poster, Give(p) PROVE IInv'
    BY <2>1, GiveIInv
  <2>2. ASSUME NEW p \in Poster, NEW f \in Func, Enqueue(p, f) PROVE IInv'
    BY <2>2, EnqueueIInv
  <2>3. QED
    BY <2>1, <2>2, FlushIInv, TakeIInv, FetchIInv, ReturnIInv DEF Next
<1>2. QED
  BY <1>1, InitIInv, PTL DEF SafeSpec

(* The indices, the count and the semaphore stay within the ring, and the    *)
(* agent holds a function exactly while it calls one (agent.c).              *)
THEOREM TypeCorrect == SafeSpec => []TypeOK
<1>1. IInv => TypeOK
  BY DEF IInv
<1>2. QED
  BY <1>1, Invariance, PTL

(* No function in the ring is ever without a token that will wake the agent, *)
(* whatever the interleaving of agent_post, agent_flush and agent_task.      *)
THEOREM WakeupNotLost == SafeSpec => []NoLostWakeup
<1>1. IInv => NoLostWakeup
  BY DEF IInv
<1>2. QED
  BY <1>1, Invariance, PTL

(* Until agent_flush is called the semaphore always has room for the give of *)
(* agent_post, so a function that was queued is never reported as refused.   *)
THEOREM PostIsHonest == SafeSpec => []GiveSucceeds
<1>1. IInv => GiveSucceeds
  <2> SUFFICES ASSUME ~flushed, IInv, posting # {} PROVE sem < Size
    BY DEF GiveSucceeds
  <2>1. Cardinality(posting) \in Nat /\ Cardinality(posting) # 0
    BY PostingFinite, FS_EmptySet DEF IInv, TypeOK
  <2>2. QED
    BY <2>1, AgentAssumption DEF IInv, TypeOK, Tokens
<1>2. QED
  BY <1>1, Invariance, PTL

-----------------------------------------------------------------------------
(* The ring read as a sequence. *)
LEMMA ContentsSeq ==
    ASSUME IInv
    PROVE  /\ Contents \in Seq(Func) /\ Len(Contents) = count
           /\ \A i \in 1..count : Contents[i] = array[At(i)]
BY AgentAssumption DEF IInv, Ring, TypeOK, Contents

LEMMA ContentsSeqNext ==
    ASSUME IInv'
    PROVE  /\ Contents' \in Seq(Func) /\ Len(Contents') = count'
           /\ \A i \in 1..count' : Contents'[i] = array'[At(i)']
BY AgentAssumption DEF IInv, Ring, TypeOK, Contents

LEMMA EnqueueAccepts ==
    ASSUME IInv, IInv', NEW p \in Poster, NEW f \in Func, Enqueue(p, f)
    PROVE  Fifo!Accept(f)
<1>1. /\ count' = count + 1 /\ head' = head /\ func' = func
      /\ array' = [array EXCEPT ![tail] = f]
      /\ count \in Nat /\ count < Size
  BY AgentAssumption DEF Enqueue, IInv, TypeOK
<1>2. \A i \in 1..count : Contents'[i] = Contents[i]
  <2> TAKE i \in 1..count
  <2>1. At(i)' = At(i) /\ At(i) \in Slot /\ At(i) # tail
    BY <1>1, AgentAssumption DEF IInv, Ring, TypeOK, Slot, At
  <2>2. QED
    BY <1>1, <2>1, ContentsSeq, ContentsSeqNext DEF IInv, TypeOK
<1>3. Contents'[count'] = f
  <2>1. PICK n \in Nat : n = count + 1
    BY <1>1
  <2>2. n \in 1..count' /\ At(n)' = tail
    BY <1>1, <2>1, AgentAssumption DEF IInv, Ring, TypeOK, Slot, At
  <2>3. QED
    BY <1>1, <2>1, <2>2, ContentsSeqNext DEF IInv, TypeOK
<1>4. /\ Contents \in Seq(Func) /\ Len(Contents) = count
      /\ Contents' \in Seq(Func) /\ Len(Contents') = count + 1
  BY <1>1, ContentsSeq, ContentsSeqNext
<1>5. Contents' = Append(Contents, f)
  BY <1>1, <1>2, <1>3, <1>4
<1>6. QED
  BY <1>1, <1>4, <1>5 DEF Fifo!Accept

LEMMA FetchStarts ==
    ASSUME IInv, IInv', Fetch
    PROVE  Fifo!Start \/ UNCHANGED <<Contents, func>>
<1>1. CASE count > 0
  <2>1. /\ func' = array[head] /\ head' = Advance(head) /\ count' = count - 1
        /\ array' = array /\ agent = "fetch"
    BY <1>1 DEF Fetch
  <2>2. func = NoFunc
    BY <2>1 DEF IInv, TypeOK
  <2>3. /\ Contents \in Seq(Func) /\ Len(Contents) = count
        /\ Contents' \in Seq(Func) /\ Len(Contents') = count - 1
        /\ count \in Nat /\ 1 \in 1..count
    BY <1>1, <2>1, ContentsSeq, ContentsSeqNext DEF IInv, TypeOK
  <2>4. Contents # <<>> /\ Head(Contents) = Contents[1]
    BY <1>1, <2>3
  <2>5. Contents[1] = array[head]
    <3>1. At(1) = head
      BY <1>1, AgentAssumption DEF IInv, TypeOK, Slot, At
    <3>2. QED
      BY <2>3, <3>1, ContentsSeq
  <2>6. \A i \in 1..(count - 1) : Contents'[i] = Contents[i + 1]
    <3>1. \A i \in 1..count' : i + 1 \in 1..count /\ At(i)' = At(i + 1)
      BY <1>1, <2>1, FetchShifts
    <3>2. QED
      BY <2>1, <3>1, ContentsSeq, ContentsSeqNext
  <2>7. Contents' = Tail(Contents)
    BY <2>3, <2>4, <2>6
  <2>8. QED
    BY <2>1, <2>2, <2>4, <2>5, <2>7 DEF Fifo!Start
<1>2. CASE ~(count > 0)
  BY <1>2 DEF Fetch, Contents, At
<1>3. QED
  BY <1>1, <1>2

(* Any step of tasks, interrupt handlers and the agent is a step of the      *)
(* queue or leaves it alone: functions are called in the order in which      *)
(* agent_post accepted them, each once.                                      *)
THEOREM Refinement == SafeSpec => FifoOrder
<1>1. Init => Fifo!Init
  <2> SUFFICES ASSUME Init PROVE Fifo!Init
    OBVIOUS
  <2>1. IInv /\ count = 0
    BY InitIInv DEF Init
  <2>2. Contents = <<>>
    BY <2>1, ContentsSeq
  <2>3. QED
    BY <2>2 DEF Init, Fifo!Init
<1>2. IInv /\ IInv' /\ [Next]_vars => [Fifo!Next]_<<Contents, func>>
  <2> SUFFICES ASSUME IInv, IInv', [Next]_vars
               PROVE  Fifo!Next \/ UNCHANGED <<Contents, func>>
    OBVIOUS
  <2>1. ASSUME NEW p \in Poster, Give(p) PROVE UNCHANGED <<Contents, func>>
    BY <2>1 DEF Give, queue_vars, Contents, At
  <2>2. ASSUME NEW p \in Poster, NEW f \in Func, Enqueue(p, f) PROVE Fifo!Next
    BY <2>2, EnqueueAccepts DEF Fifo!Next
  <2>3. CASE agent_flush
    <3>1. count' = 0 /\ func' = func
      BY <2>3 DEF agent_flush
    <3>2. Contents' = <<>>
      BY <3>1, ContentsSeqNext
    <3>3. QED
      BY <3>1, <3>2 DEF Fifo!Next, Fifo!Clear
  <2>4. CASE Take \/ UNCHANGED vars
    BY <2>4 DEF Take, vars, queue_vars, Contents, At
  <2>5. CASE Fetch
    BY <2>5, FetchStarts DEF Fifo!Next
  <2>6. CASE Return
    <3>1. func # NoFunc /\ func' = NoFunc /\ UNCHANGED Contents
      BY <2>6 DEF Return, IInv, TypeOK, queue_vars, Contents, At
    <3>2. QED
      BY <3>1 DEF Fifo!Next, Fifo!Finish
  <2>7. QED
    BY <2>1, <2>2, <2>3, <2>4, <2>5, <2>6 DEF Next
<1>3. QED
  BY <1>1, <1>2, Invariance, PTL DEF SafeSpec, FifoOrder, Fifo!SafeSpec
=============================================================================
