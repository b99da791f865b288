--------------------------- MODULE ServiceProofs ---------------------------
(***************************************************************************)
(* Theorems about Service, for every set of parameters.                    *)
(***************************************************************************)
EXTENDS Service, TLAPS

(***************************************************************************)
(* Where a command is, as long as none overlapped another: what the        *)
(* handler has passed is no longer owed; while it sleeps, valid says that  *)
(* something is; and recover names a command only while that command is    *)
(* owed or is being cleared.                                               *)
(***************************************************************************)
CmdBody ==
    /\ \A k \in owed : op.valid /\ Holds(k)
    /\ svc \in {"clear", "reset", "end"} => owed \cap Recovers = {}
    /\ svc \in {"reset", "end"} => op.recover = "none"
    /\ svc = "end" => owed = {}
    /\ svc = "idle" /\ owed = {} => ~op.valid
    /\ op.recover # "none" => op.recover \in owed \/ svc = "clear"

CmdInv == calm /\ sys = "run" => CmdBody

(***************************************************************************)
(* The mixture an abandoned restore leaves is in use, or in an area that a *)
(* start or a restore reads, only after a command has saved it.            *)
(***************************************************************************)
MixedKnown ==
    \/ spoilt
    \/ /\ store.user # "mixed" /\ store.factory # "mixed"
       /\ sys = "run" => store.ram # "mixed"

\* What is in use and what is stored.
AsLoaded == sys = "run" => panel \/ unsaved \/ store.ram = store.user

Stores == [ram : Known, user : Known, backup : Known,
           factory : Known \cup {"bad", "void"}]

Ops == [recover : Recovers \cup {"none"}, reset : BOOLEAN, valid : BOOLEAN]

Svcs == {"idle", "act", "clear", "reset", "end"}

\* A call ends in a store, and does not return only for a factory area that
\* is not valid.
GoodCall(r) ==
    /\ r.store \in Stores /\ r.ok \in BOOLEAN
    /\ ~r.ok => r.store.factory \in {"bad", "void"}

\* A store without the mixture.
Pure(s) == s.ram # "mixed" /\ s.user # "mixed" /\ s.factory # "mixed"

----------------------------------------------------------------------------
(***************************************************************************)
(* The pmm_ functions.                                                     *)
(***************************************************************************)

\* Writing the backup area keeps the rest and always returns.
LEMMA ToBackupGood ==
    ASSUME NEW s \in Stores
    PROVE  /\ GoodCall(ToBackup(s)) /\ ToBackup(s).ok
           /\ ToBackup(s).store.ram = s.ram /\ ToBackup(s).store.user = s.user
           /\ ToBackup(s).store.factory = s.factory
<1>1. [s EXCEPT !.backup = s.ram] \in Stores
  BY DEF Stores
<1>2. /\ [s EXCEPT !.backup = s.ram].ram = s.ram
      /\ [s EXCEPT !.backup = s.ram].user = s.user
      /\ [s EXCEPT !.backup = s.ram].factory = s.factory
  BY DEF Stores
<1> QED
  BY <1>1, <1>2 DEF ToBackup, GoodCall

\* Saving to both areas leaves in the user area what is in use.
LEMMA ToBothGood ==
    ASSUME NEW s \in Stores
    PROVE  /\ GoodCall(ToBoth(s)) /\ ToBoth(s).ok
           /\ ToBoth(s).store.ram = s.ram /\ ToBoth(s).store.user = s.ram
           /\ ToBoth(s).store.factory = s.factory
<1> DEFINE u == [s EXCEPT !.user = s.ram]
<1>1. u \in Stores /\ u.ram = s.ram /\ u.user = s.ram /\ u.factory = s.factory
  BY DEF Stores
<1>2. /\ GoodCall(ToBackup(u)) /\ ToBackup(u).ok
      /\ ToBackup(u).store.ram = u.ram /\ ToBackup(u).store.user = u.user
      /\ ToBackup(u).store.factory = u.factory
  <2> HIDE DEF u
  <2> QED BY <1>1, ToBackupGood
<1> QED
  BY <1>1, <1>2 DEF ToBoth

\* What recover asks for: a restore that returns stores what it restored, a
\* save leaves what is in use and the user area alone, and no call that
\* returns brings the mixture where it was not.
LEMMA PmmGood ==
    ASSUME NEW s \in Stores, NEW k \in Recovers \cup {"none"}
    PROVE  /\ GoodCall(Pmm(k, s))
           /\ Pmm(k, s).ok /\ (s.ram = s.user \/ k \in {"factory", "default"})
                 => Pmm(k, s).store.ram = Pmm(k, s).store.user
           /\ Pure(s) /\ Pmm(k, s).ok => Pure(Pmm(k, s).store)
           /\ Pure(s) => /\ Pmm(k, s).store.user # "mixed"
                         /\ Pmm(k, s).store.factory # "mixed"
<1>1. CASE k = "factory" /\ s.factory = "bad"
  <2> DEFINE u == [s EXCEPT !.ram = "mixed"]
  <2>1. u \in Stores /\ u.factory = "bad" /\ u.user = s.user
    BY <1>1 DEF Stores, Known
  <2>2. Pmm(k, s) = [store |-> u, ok |-> FALSE]
    BY <1>1 DEF Pmm, pmm_restore_to_factory
  <2> HIDE DEF u
  <2> QED BY <2>1, <2>2 DEF GoodCall, Pure
<1>2. CASE k = "factory" /\ s.factory = "void"
  <2>1. Pmm(k, s) = [store |-> s, ok |-> FALSE]
    BY <1>2 DEF Pmm, pmm_restore_to_factory
  <2>2. Pmm(k, s).store = s /\ Pmm(k, s).ok = FALSE
    BY <2>1
  <2> QED BY <1>2, <2>2 DEF GoodCall, Pure
<1>3. CASE k = "factory" /\ s.factory \notin {"bad", "void"}
  <2> DEFINE u == [s EXCEPT !.ram = s.factory]
  <2>1. u \in Stores /\ u.ram = s.factory /\ u.factory = s.factory
    BY <1>3 DEF Stores
  <2>2. Pmm(k, s) = ToBoth(u)
    BY <1>3 DEF Pmm, pmm_restore_to_factory
  <2> HIDE DEF u
  <2> QED BY <2>1, <2>2, ToBothGood DEF Pure
<1>4. CASE k = "default"
  <2> DEFINE u == [s EXCEPT !.ram = Def]
  <2>1. u \in Stores /\ u.ram # "mixed" /\ u.factory = s.factory
    BY ServiceAssumption DEF Stores, Known
  <2>2. Pmm(k, s) = ToBoth(u)
    BY <1>4 DEF Pmm, pmm_restore_to_default
  <2> HIDE DEF u
  <2> QED BY <2>1, <2>2, ToBothGood DEF Pure
<1>5. CASE k = "keep"
  <2> DEFINE u == [s EXCEPT !.factory = s.ram]
  <2>1. u \in Stores /\ u.ram = s.ram /\ u.user = s.user /\ u.factory = s.ram
    BY DEF Stores
  <2>2. Pmm(k, s) = [store |-> u, ok |-> TRUE]
    BY <1>5 DEF Pmm, pmm_save_to_factory
  <2> HIDE DEF u
  <2>3. Pmm(k, s).store = u /\ Pmm(k, s).ok = TRUE
    BY <2>2
  <2> QED BY <1>5, <2>1, <2>3 DEF GoodCall, Pure
<1>6. CASE k = "backup"
  <2>1. Pmm(k, s) = ToBackup(s)
    BY <1>6 DEF Pmm, pmm_save_to_backup
  <2> QED BY <1>6, <2>1, ToBackupGood DEF Pure
<1>7. CASE k = "none"
  <2>1. Pmm(k, s) = [store |-> s, ok |-> TRUE]
    BY <1>7 DEF Pmm
  <2>2. Pmm(k, s).store = s /\ Pmm(k, s).ok = TRUE
    BY <2>1
  <2> QED BY <1>7, <2>2 DEF GoodCall, Pure
<1> QED
  BY <1>1, <1>2, <1>3, <1>4, <1>5, <1>6, <1>7 DEF Recovers

\* A parameter changed in the mixture leaves the mixture.
LEMMA ChangedGood ==
    ASSUME store \in Stores, NEW p \in Paras
    PROVE  /\ Changed(p) \in Stores
           /\ Changed(p).user = store.user /\ Changed(p).factory = store.factory
           /\ Changed(p).ram = "mixed" <=> store.ram = "mixed"
<1> DEFINE w == IF store.ram = "mixed" THEN store.ram ELSE p
<1>1. w \in Known /\ (w = "mixed" <=> store.ram = "mixed")
  BY ServiceAssumption DEF Known
<1>2. Changed(p) = [store EXCEPT !.ram = w]
  BY DEF Changed, Stores
<1> HIDE DEF w
<1> QED
  BY <1>1, <1>2 DEF Stores

----------------------------------------------------------------------------
(***************************************************************************)
(* The store: every action keeps AsLoaded, MixedKnown and HangsKnown.      *)
(***************************************************************************)
StoreInv == store \in Stores /\ AsLoaded /\ MixedKnown /\ HangsKnown

\* Actions that leave the store alone.
LEMMA StoreKept ==
    ASSUME StoreInv, UNCHANGED <<store, unsaved, spoilt>>,
           sys' = sys \/ sys' = "boot",
           sys' = "run" => panel' = panel
    PROVE  StoreInv'
  BY DEF StoreInv, AsLoaded, MixedKnown, HangsKnown

\* A save of the store s.
LEMMA StoreSaved ==
    ASSUME StoreInv, NEW s \in Stores, Do(ToBoth(s)), sys \in {"run", "hung"},
           s.factory = store.factory,
           sys = "run" /\ s.ram = "mixed" => store.ram = "mixed",
           ~spoilt' => ~spoilt /\ sys # "hung"
    PROVE  StoreInv'
<1>1. /\ sys' = sys /\ store' \in Stores /\ store'.ram = s.ram
      /\ store'.user = s.ram /\ store'.factory = store.factory
  BY ToBothGood DEF Do, GoodCall
<1>2. AsLoaded' /\ HangsKnown'
  BY <1>1 DEF StoreInv, AsLoaded, HangsKnown
<1>3. MixedKnown'
  <2>1. CASE spoilt'
    BY <2>1 DEF MixedKnown
  <2>2. CASE ~spoilt'
    <3>1. ~spoilt /\ sys # "hung"
      BY <2>2
    <3> QED BY <1>1, <3>1 DEF StoreInv, MixedKnown, HangsKnown
  <2> QED BY <2>1, <2>2
<1> QED
  BY <1>1, <1>2, <1>3 DEF StoreInv

LEMMA StoreStep ==
    ASSUME TypeOK, StoreInv, [Next]_vars
    PROVE  StoreInv'
<1>s. store \in Stores
  BY DEF StoreInv
<1>1. ASSUME NEW p \in Paras, Set(p) PROVE StoreInv'
  <2>1. Do(ToBoth(Changed(p))) /\ sys \in {"run", "hung"}
    BY <1>1 DEF Set, pmm_save_group, Received, Tcp, Serial, TypeOK
  <2>2. spoilt' = (spoilt \/ sys = "hung")
    BY <1>1 DEF Set
  <2> QED
    BY <1>s, <2>1, <2>2, ChangedGood, StoreSaved
<1>2. ASSUME NEW p \in Paras, PanelSet(p) \/ SetUnsaved(p) PROVE StoreInv'
  <2>1. /\ store' = Changed(p) /\ sys' = sys /\ spoilt' = spoilt
        /\ panel' \/ unsaved'
    BY <1>2 DEF PanelSet, SetUnsaved
  <2>2. /\ store' \in Stores
        /\ store'.user = store.user /\ store'.factory = store.factory
        /\ store'.ram = "mixed" <=> store.ram = "mixed"
    BY <1>s, <2>1, ChangedGood
  <2> QED
    BY <2>1, <2>2 DEF StoreInv, AsLoaded, MixedKnown, HangsKnown
<1>3. CASE PanelSave
  <2>1. Do(ToBoth(store)) /\ sys = "run" /\ spoilt' = spoilt
    BY <1>3 DEF PanelSave, PanelRuns, pmm_save_group
  <2> QED
    BY <1>s, <2>1, StoreSaved
<1>4. CASE PanelRestore
  <2> DEFINE u == [store EXCEPT !.ram = Def]
  <2>1. u \in Stores /\ u.ram # "mixed" /\ u.factory = store.factory
    BY <1>s, ServiceAssumption DEF Stores, Known
  <2>2. Do(ToBoth(u)) /\ sys = "run" /\ spoilt' = spoilt
    BY <1>4 DEF PanelRestore, PanelRuns, pmm_restore_to_default
  <2> HIDE DEF u
  <2> QED
    BY <2>1, <2>2, StoreSaved
<1>5. CASE HandleRecover
  <2> DEFINE r == Pmm(op.recover, store)
  <2>1. /\ Do(r) /\ sys = "run" /\ panel' = panel /\ spoilt' = spoilt
        /\ unsaved' <=> unsaved /\ op.recover \notin {"factory", "default"}
    BY <1>5 DEF HandleRecover
  <2>2. op.recover \in Recovers \cup {"none"}
    BY DEF TypeOK
  <2>3. /\ GoodCall(r)
        /\ r.ok /\ (store.ram = store.user \/ op.recover \in {"factory", "default"})
              => r.store.ram = r.store.user
        /\ Pure(store) /\ r.ok => Pure(r.store)
        /\ Pure(store) => r.store.user # "mixed" /\ r.store.factory # "mixed"
    BY <1>s, <2>2, PmmGood
  <2> HIDE DEF r
  <2>4. store' = r.store /\ (sys' = "run" <=> r.ok) /\ sys' \in {"run", "hung"}
    BY <2>1, <2>3 DEF Do, GoodCall
  <2>5. AsLoaded'
    BY <2>1, <2>3, <2>4 DEF StoreInv, AsLoaded
  <2>6. MixedKnown'
    <3>1. CASE spoilt
      BY <2>1, <3>1 DEF MixedKnown
    <3>2. CASE ~spoilt
      <4>1. Pure(store)
        BY <2>1, <3>2 DEF StoreInv, MixedKnown, Pure
      <4> QED BY <2>3, <2>4, <4>1 DEF MixedKnown, Pure
    <3> QED BY <3>1, <3>2
  <2> QED
    BY <2>3, <2>4, <2>5, <2>6 DEF StoreInv, HangsKnown, GoodCall
<1>6. CASE Boot
  <2>1. /\ store' \in Stores /\ store'.ram = store.user /\ store'.user = store.user
        /\ store'.factory = store.factory /\ sys' = "run" /\ spoilt' = spoilt
    BY <1>6, <1>s DEF Boot, Stores
  <2> QED
    BY <2>1 DEF StoreInv, AsLoaded, MixedKnown, HangsKnown
<1>7. ASSUME NEW k \in Cmds, Command(k) PROVE StoreInv'
  BY <1>7, StoreKept DEF Command
<1>8. CASE service_task \/ HandleClear \/ HandleReset \/ HandleEnd \/ Watchdog
             \/ Packet \/ OtherPacket \/ UNCHANGED vars
  BY <1>8, StoreKept DEF service_task, HandleClear, HandleReset, HandleEnd,
     Watchdog, Packet, OtherPacket, vars
<1> QED
  BY <1>1, <1>2, <1>3, <1>4, <1>5, <1>6, <1>7, <1>8 DEF Next, Handler

----------------------------------------------------------------------------
(***************************************************************************)
(* The types.                                                              *)
(***************************************************************************)

\* Writing a command keeps the type of sys_op.
LEMMA WriteType ==
    ASSUME op \in Ops, NEW k \in Cmds
    PROVE  Write(k) \in Ops /\ [Write(k) EXCEPT !.valid = TRUE] \in Ops
<1>1. CASE k = "reset"
  BY <1>1 DEF Write, Ops
<1>2. CASE k # "reset"
  <2>1. k \in Recovers
    BY <1>2 DEF Cmds
  <2> QED BY <1>2, <2>1 DEF Write, Ops
<1> QED
  BY <1>1, <1>2

\* What is left of TypeOK beside the store.
RestOK ==
    /\ sys \in {"run", "hung", "boot"} /\ op \in Ops
    /\ {panel, queued, unsaved, spoilt, calm} \subseteq BOOLEAN
    /\ svc \in Svcs /\ owed \subseteq Cmds

LEMMA TypeParts == TypeOK <=> RestOK /\ store \in Stores
  BY DEF TypeOK, RestOK, Ops, Svcs, Stores

LEMMA RestStep ==
    ASSUME RestOK, [Next]_vars
    PROVE  RestOK'
<1> USE DEF RestOK, cmdVars
<1>r. NoOp \in Ops
  BY DEF NoOp, Ops
<1>q. ASSUME Received PROVE queued' \in BOOLEAN
  BY <1>q DEF Received, Tcp, Serial
<1>1. ASSUME NEW k \in Cmds, Command(k) PROVE RestOK'
  <2>1. op' \in Ops
    BY <1>1, WriteType DEF Command
  <2>2. calm' \in BOOLEAN /\ queued' \in BOOLEAN
    BY <1>1, <1>q DEF Command
  <2> QED BY <1>1, <2>1, <2>2 DEF Command
<1>2. ASSUME NEW p \in Paras, Set(p) PROVE RestOK'
  <2>1. queued' \in BOOLEAN /\ unsaved' \in BOOLEAN /\ spoilt' \in BOOLEAN
    BY <1>2, <1>q DEF Set
  <2> QED BY <1>2, <2>1 DEF Set, Do
<1>3. ASSUME NEW p \in Paras, SetUnsaved(p) PROVE RestOK'
  <2>1. queued' \in BOOLEAN
    BY <1>3, <1>q DEF SetUnsaved
  <2> QED BY <1>3, <2>1 DEF SetUnsaved
<1>4. ASSUME NEW p \in Paras, PanelSet(p) PROVE RestOK'
  BY <1>4 DEF PanelSet
<1>5. CASE PanelSave \/ PanelRestore
  BY <1>5 DEF PanelSave, PanelRestore, Do
<1>6. CASE Watchdog \/ Packet \/ OtherPacket \/ UNCHANGED vars
  BY <1>6 DEF Watchdog, Packet, OtherPacket, Serial, vars
<1>7. CASE service_task \/ HandleReset
  BY <1>7 DEF service_task, HandleReset, Svcs
<1>8. CASE HandleRecover
  <2>1. unsaved' \in BOOLEAN
    BY <1>8 DEF HandleRecover
  <2> QED BY <1>8, <2>1 DEF HandleRecover, Svcs, Do
<1>9. CASE HandleClear \/ HandleEnd
  <2>1. op' \in Ops
    BY <1>9 DEF HandleClear, HandleEnd, Ops
  <2> QED BY <1>9, <2>1 DEF HandleClear, HandleEnd, Svcs
<1>10. CASE Boot
  BY <1>10, <1>r DEF Boot, Svcs
<1> QED
  BY <1>1, <1>2, <1>3, <1>4, <1>5, <1>6, <1>7, <1>8, <1>9, <1>10 DEF Next, Handler

----------------------------------------------------------------------------
(***************************************************************************)
(* The commands.                                                           *)
(***************************************************************************)

\* What Write changes.
LEMMA WriteHolds ==
    ASSUME op \in Ops, NEW k \in Cmds
    PROVE  /\ Write(k).valid = op.valid
           /\ IF k = "reset" THEN Write(k).reset /\ Write(k).recover = op.recover
              ELSE Write(k).recover = k
<1>1. CASE k = "reset"
  BY <1>1 DEF Write, Ops
<1>2. CASE k # "reset"
  BY <1>2 DEF Write, Ops
<1> QED
  BY <1>1, <1>2

\* A command that overlaps no other finds nothing owed and nothing written.
LEMMA NoOverlap ==
    ASSUME RestOK, CmdBody, ~Overlaps
    PROVE  owed = {} /\ svc = "idle" /\ ~op.valid /\ op.recover = "none"
<1>1. owed = {} /\ svc = "idle"
  BY DEF Overlaps, Handling, RestOK, Svcs
<1> QED
  BY <1>1 DEF CmdBody

\* A save always returns.
LEMMA ToBothOk == ASSUME NEW s PROVE ToBoth(s).ok = TRUE
  BY DEF ToBoth, ToBackup

LEMMA CmdStep ==
    ASSUME RestOK, CmdInv, [Next]_vars
    PROVE  CmdInv'
<1> SUFFICES ASSUME calm', sys' = "run"
             PROVE  CmdBody'
  BY DEF CmdInv
<1>op. op \in Ops
  BY DEF RestOK
<1>set. "reset" \notin Recovers /\ Recovers \subseteq Cmds
  BY DEF Cmds, Recovers
<1>1. ASSUME NEW k \in Cmds, Command(k) PROVE CmdBody'
  <2>1. calm /\ ~Overlaps /\ sys = "run"
    BY <1>1 DEF Command, Received, Tcp, Serial
  <2>2. owed = {} /\ svc = "idle" /\ op.recover = "none"
    BY <2>1, NoOverlap DEF CmdInv
  <2>3. op' = [Write(k) EXCEPT !.valid = TRUE] /\ owed' = {k} /\ svc' = "idle"
    BY <1>1, <2>2 DEF Command
  <2>4. Write(k) \in Ops
    BY <1>op, WriteType
  <2>5. op'.valid /\ op'.reset = Write(k).reset /\ op'.recover = Write(k).recover
    BY <2>3, <2>4 DEF Ops
  <2>6. Holds(k)'
    BY <1>op, <2>5, WriteHolds DEF Holds
  <2>7. op'.recover # "none" => op'.recover = k
    BY <1>op, <2>2, <2>5, WriteHolds
  <2> QED
    BY <2>3, <2>5, <2>6, <2>7 DEF CmdBody
<1>2. CASE Boot
  <2>1. owed' = {} /\ svc' = "idle" /\ op'.recover = "none" /\ ~op'.valid
    BY <1>2 DEF Boot, NoOp
  <2> QED
    BY <2>1 DEF CmdBody
<1>3. CASE HandleRecover
  <2>1. CmdBody /\ svc = "act" /\ svc' = "clear" /\ owed' = owed \ {op.recover}
        /\ op' = op
    BY <1>3 DEF HandleRecover, CmdInv
  <2>2. owed' \cap Recovers = {}
    BY <1>set, <2>1 DEF CmdBody, Holds
  <2> QED
    BY <2>1, <2>2 DEF CmdBody, Holds
<1>4. CASE HandleClear
  <2>1. CmdBody /\ svc = "clear" /\ svc' = "reset" /\ owed' = owed
    BY <1>4 DEF HandleClear, CmdInv, cmdVars
  <2>2. op'.valid = op.valid /\ op'.reset = op.reset /\ op'.recover = "none"
    BY <1>4, <1>op DEF HandleClear, Ops
  <2>3. owed \subseteq {"reset"}
    BY <2>1 DEF CmdBody, RestOK, Cmds
  <2> QED
    BY <2>1, <2>2, <2>3 DEF CmdBody, Holds
<1>5. CASE HandleReset
  <2>1. CmdBody /\ svc = "reset" /\ svc' = "end" /\ ~op.reset /\ owed' = owed
        /\ op' = op
    BY <1>5 DEF HandleReset, CmdInv
  <2>2. owed = {}
    BY <2>1 DEF CmdBody, Holds, RestOK, Cmds
  <2> QED
    BY <2>1, <2>2 DEF CmdBody, Holds
<1>6. CASE HandleEnd
  <2>1. CmdBody /\ svc = "end" /\ svc' = "idle" /\ owed' = owed
    BY <1>6 DEF HandleEnd, CmdInv, cmdVars
  <2>2. ~op'.valid /\ op'.recover = op.recover
    BY <1>6, <1>op DEF HandleEnd, Ops
  <2> QED
    BY <2>1, <2>2 DEF CmdBody
<1>7. CASE service_task
  <2>1. CmdBody /\ svc = "idle" /\ svc' = "act" /\ op.valid
        /\ owed' = owed /\ op' = op
    BY <1>7 DEF service_task, CmdInv, cmdVars
  <2>2. owed # {}
    BY <2>1 DEF CmdBody
  <2> QED
    BY <2>1, <2>2 DEF CmdBody, Holds
<1>8. ASSUME NEW p \in Paras, Set(p) PROVE CmdBody'
  <2>1. sys = "run"
    BY <1>8, ToBothOk DEF Set, Do, pmm_save_group
  <2> QED BY <1>8, <2>1 DEF Set, cmdVars, CmdInv, CmdBody, Holds
<1>9. ASSUME NEW p \in Paras, SetUnsaved(p) \/ PanelSet(p) PROVE CmdBody'
  BY <1>9 DEF SetUnsaved, PanelSet, cmdVars, CmdInv, CmdBody, Holds
<1>11. CASE PanelSave \/ PanelRestore
  <2>1. sys = "run" /\ UNCHANGED <<op, svc, owed, calm>>
    BY <1>11 DEF PanelSave, PanelRestore, PanelRuns, cmdVars
  <2> QED BY <2>1 DEF CmdInv, CmdBody, Holds
<1>12. CASE Packet \/ OtherPacket \/ UNCHANGED vars
  <2>1. UNCHANGED <<sys, op, svc, owed, calm>>
    BY <1>12 DEF Packet, OtherPacket, vars, cmdVars
  <2> QED BY <2>1 DEF CmdInv, CmdBody, Holds
<1>10. ~Watchdog
  BY DEF Watchdog
<1> QED
  BY <1>1, <1>2, <1>3, <1>4, <1>5, <1>6, <1>7, <1>8, <1>9, <1>10, <1>11, <1>12
     DEF Next, Handler

----------------------------------------------------------------------------
(***************************************************************************)
(* The inductive invariant and what follows from it.                       *)
(***************************************************************************)
IInv == RestOK /\ StoreInv /\ CmdInv

LEMMA IInvInit == Init => IInv
<1> SUFFICES ASSUME Init PROVE IInv
  OBVIOUS
<1>1. RestOK
  BY DEF Init, RestOK, NoOp, Ops, Svcs
<1>2. PICK p \in Paras, f \in {Def, "bad", "void"} :
         store = [ram |-> p, user |-> p, backup |-> p, factory |-> f]
  BY DEF Init
<1>3. StoreInv
  BY <1>2, ServiceAssumption
     DEF Init, StoreInv, Stores, Known, AsLoaded, MixedKnown, HangsKnown
<1> QED
  BY <1>1, <1>3 DEF IInv, CmdInv, Init

LEMMA IInvStep == IInv /\ [Next]_vars => IInv'
<1> SUFFICES ASSUME IInv, [Next]_vars PROVE IInv'
  OBVIOUS
<1>1. TypeOK
  BY TypeParts DEF IInv, StoreInv
<1>2. RestOK' /\ CmdInv'
  BY RestStep, CmdStep DEF IInv
<1>3. StoreInv'
  BY <1>1, StoreStep DEF IInv
<1> QED
  BY <1>2, <1>3 DEF IInv

LEMMA IInvAlways == Spec => []IInv
  BY IInvInit, IInvStep, PTL DEF Spec

\* Every reachable state of the command handler and of the three parameter
\* areas is of its type: in particular a factory area that is not valid is
\* never copied into the areas that a start reads.
THEOREM TypeCorrect == Spec => []TypeOK
<1>1. IInv => TypeOK
  BY DEF IInv, StoreInv, RestOK, TypeOK, Ops, Svcs, Stores
<1> QED
  BY <1>1, IInvAlways, PTL

\* Whatever restores, saves, unsaved changes, hangs and resets happen, in any
\* order, the running device uses what its next start loads, but for changes
\* that nobody has saved yet, and the mixture of an abandoned restore only
\* after a serial command left in the ring has saved it (para.c:185-290).
THEOREM StoredCorrect == Spec => []InUseIsStored
<1>1. IInv => InUseIsStored
  BY DEF IInv, StoreInv, AsLoaded, MixedKnown, InUseIsStored
<1> QED
  BY <1>1, IInvAlways, PTL

\* pmm_restore_to_factory with a bad factory area is the only call that leaves
\* its critical section entered (para.c:252).
THEOREM HangsCorrect == Spec => []HangsKnown
<1>1. IInv => HangsKnown
  BY DEF IInv, StoreInv
<1> QED
  BY <1>1, IInvAlways, PTL

\* sys_cmd_handler loses no acknowledged command unless commands overlap.
THEOREM NoneLostCorrect == Spec => []NoneLost
<1>1. IInv => NoneLost
  BY DEF IInv, CmdInv, CmdBody, NoneLost
<1> QED
  BY <1>1, IInvAlways, PTL

\* Without overlaps sys_cmd_handler executes only what it owes.
THEOREM AsAskedCorrect == Spec => AsAsked
<1>1. ASSUME IInv, calm, HandleRecover, op.recover # "none"
      PROVE  op.recover \in owed
  <2>1. CmdBody /\ svc = "act"
    BY <1>1 DEF IInv, CmdInv, HandleRecover
  <2>2. op.recover \in Cmds
    BY <1>1 DEF IInv, RestOK, Ops, Cmds
  <2> QED
    BY <1>1, <2>1, <2>2 DEF CmdBody
<1>2. IInv => [calm /\ HandleRecover /\ op.recover # "none" => op.recover \in owed]_vars
  BY <1>1
<1> QED
  BY <1>2, IInvAlways, PTL DEF AsAsked
=============================================================================
