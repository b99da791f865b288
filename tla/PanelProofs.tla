----------------------------- MODULE PanelProofs -----------------------------
(***************************************************************************)
(* Proofs about the front panel, for every table of menus and every range  *)
(* of values: type correctness, that only pages that exist are called, and *)
(* what a pass of ui_task may store and how it begins an edit.             *)
(*                                                                         *)
(* menu_navigate is a chain of updates of the ui record, so the proofs     *)
(* follow the chain: for every link one lemma says that the result is a ui *)
(* record and which fields it has changed; the invariant is then argued on *)
(* the fields.                                                             *)
(***************************************************************************)
EXTENDS Panel, FiniteSetTheorems, TLAPS

-----------------------------------------------------------------------------
(* The tables of ui.c. *)
LEMMA Tables ==
    /\ 0 \in Mains
    /\ \A m \in Mains : Count(m) \in 1 .. 20 /\ <<m, 0>> \in Pages
    /\ \A m \in Mains, s \in 0 .. 19 : <<m, s>> \in Pages <=> s < Count(m)
<1>1. Len(Menu) \in Nat \ {0}
  BY MenuAssumption
<1>2. \A m \in Mains : Count(m) \in 1 .. 20
  BY <1>1, MenuAssumption DEF Mains, Count
<1>3. 0 \in Mains
  BY <1>1 DEF Mains
<1>4. ASSUME NEW m \in Mains, NEW s \in 0 .. 19
      PROVE  <<m, s>> \in Pages <=> s < Count(m)
  BY DEF Pages
<1>5. ASSUME NEW m \in Mains PROVE <<m, 0>> \in Pages
  <2>1. 0 < Count(m) /\ 0 \in 0 .. 19
    BY <1>2
  <2>. QED  BY <1>4, <2>1
<1>. QED  BY <1>2, <1>3, <1>4, <1>5

LEMMA Kinded ==
    /\ \A pg \in Pages : Kind(pg) \in Kinds
    /\ \A s \in 0 .. 19 : <<0, s>> \in Pages => Kind(<<0, s>>) = "info"
<1>1. ASSUME NEW m \in Mains, NEW s \in 0 .. 19, <<m, s>> \in Pages
      PROVE  /\ m + 1 \in 1 .. Len(Menu) /\ s + 1 \in 1 .. Len(Menu[m + 1])
             /\ Kind(<<m, s>>) = Menu[m + 1][s + 1]
  <2>1. s < Len(Menu[m + 1])
    BY <1>1, Tables DEF Count
  <2>2. m + 1 \in 1 .. Len(Menu) /\ s + 1 \in 1 .. Len(Menu[m + 1])
    BY <2>1, MenuAssumption DEF Mains
  <2>. QED  BY <2>2 DEF Kind
<1>2. ASSUME NEW m \in Mains, NEW s \in 0 .. 19, <<m, s>> \in Pages
      PROVE  Kind(<<m, s>>) \in Kinds
  <2>1. /\ m + 1 \in 1 .. Len(Menu) /\ s + 1 \in 1 .. Len(Menu[m + 1])
        /\ Kind(<<m, s>>) = Menu[m + 1][s + 1]
    BY <1>1, <1>2
  <2>2. \A i \in 1 .. Len(Menu) : Menu[i] \in Seq(Kinds)
    BY MenuAssumption
  <2>3. Menu[m + 1] \in Seq(Kinds)
    BY <2>1, <2>2
  <2>. QED  BY <2>1, <2>3
<1>3. ASSUME NEW s \in 0 .. 19, <<0, s>> \in Pages PROVE Kind(<<0, s>>) = "info"
  <2>1. s + 1 \in 1 .. Len(Menu[0 + 1]) /\ Kind(<<0, s>>) = Menu[0 + 1][s + 1]
    BY <1>1, <1>3, Tables
  <2>2. 0 + 1 = 1
    OBVIOUS
  <2>. QED  BY <2>1, <2>2, MenuAssumption
<1>4. \A pg \in Pages : \E m \in Mains, s \in 0 .. 19 : pg = <<m, s>>
  BY DEF Pages
<1>. QED  BY <1>2, <1>3, <1>4

LEMMA ParaNums ==
    ASSUME NEW pg PROVE ParaNum(pg) \in 0 .. Segs
BY BoundAssumption DEF ParaNum

LEMMA ZeroSeg == 0 \in Seg
BY BoundAssumption DEF Seg

LEMMA ZeroValues == [i \in Seg |-> 0] \in Values /\ Default \in [Pages -> Stored]
BY BoundAssumption DEF Values, Default, Stored

(* A step never leaves the range of the parameter, whatever its size. *)
LEMMA BumpRange ==
    ASSUME NEW kind, NEW v \in 0 .. MaxVal, NEW d \in Int
    PROVE  Bump(kind, v, d) \in 0 .. MaxVal
<1>1. CASE kind = "address"
  <2>1. (v + d) % (MaxVal + 1) \in 0 .. MaxVal
    BY BoundAssumption
  <2>. QED  BY <1>1, <2>1 DEF Bump
<1>2. CASE kind \in {"clamp", "baud"}
  BY <1>2, BoundAssumption DEF Bump
<1>3. CASE kind # "address" /\ kind \notin {"clamp", "baud"}
  BY <1>3, BoundAssumption DEF Bump
<1>. QED  BY <1>1, <1>2, <1>3

-----------------------------------------------------------------------------
(* The ui record, written out. *)
Ui(main, sub, menu, mode, blink, set, cfg, num, idx, pidx, edit, para) ==
    [main |-> main, sub |-> sub, menu |-> menu, mode |-> mode, blink |-> blink,
     set |-> set, cfg |-> cfg, num |-> num, idx |-> idx, pidx |-> pidx,
     edit |-> edit, para |-> para]

Deltas == {0, 1, -1, LongStep, -LongStep}

LEMMA Fields ==
    ASSUME NEW u \in UiState
    PROVE  /\ u.main \in Mains /\ u.sub \in 0 .. 19 /\ u.menu \in BOOLEAN
           /\ u.mode \in {"GUIDE", "EDIT"} /\ u.blink \in BOOLEAN
           /\ u.set \in Deltas /\ u.cfg \in BOOLEAN /\ u.num \in 0 .. Segs + 1
           /\ u.idx \in Nat /\ u.pidx \in [Pages -> Nat] /\ u.edit \in Values
           /\ u.para \in [Pages -> Stored]
BY DEF UiState, Deltas

(* The links of the chain. *)
LEMMA CurPages ==
    ASSUME NEW u \in UiState
    PROVE  Cur(u) \in Pages <=> u.sub < Count(u.main)
BY Tables, Fields DEF Cur

LEMMA TimeOutFields ==
    ASSUME NEW u \in UiState
    PROVE  LET e == TimeOut(u)
           IN  /\ e \in UiState
               /\ e.set = u.set /\ e.cfg = u.cfg /\ e.num = u.num /\ e.idx = u.idx
               /\ e.pidx = u.pidx /\ e.edit = u.edit /\ e.para = u.para
               /\ idle = 1 => /\ e.main = 0 /\ e.sub = 0 /\ ~e.blink /\ ~e.menu
                              /\ e.mode = "GUIDE"
               /\ idle = 2 /\ u.menu => /\ e.main = u.main /\ e.sub = 0
                                        /\ ~e.blink /\ ~e.menu /\ e.mode = u.mode
               /\ idle # 1 /\ ~(idle = 2 /\ u.menu) => e = u
<1>1. CASE idle = 1
  <2>1. TimeOut(u) = Ui(0, 0, FALSE, "GUIDE", FALSE, u.set, u.cfg, u.num, u.idx,
                        u.pidx, u.edit, u.para)
    BY <1>1 DEF TimeOut, UiState, Ui
  <2>2. TimeOut(u) \in UiState
    <3>1. 0 \in Mains
      BY Tables
    <3>. QED  BY <2>1, <3>1, Fields DEF UiState, Ui, Deltas
  <2>. QED  BY <1>1, <2>1, <2>2 DEF Ui
<1>2. CASE idle # 1 /\ idle = 2 /\ u.menu
  <2>1. TimeOut(u) = Ui(u.main, 0, FALSE, u.mode, FALSE, u.set, u.cfg, u.num, u.idx,
                        u.pidx, u.edit, u.para)
    BY <1>2 DEF TimeOut, UiState, Ui
  <2>2. TimeOut(u) \in UiState
    BY <2>1, Fields DEF UiState, Ui, Deltas
  <2>. QED  BY <1>2, <2>1, <2>2 DEF Ui
<1>3. CASE idle # 1 /\ ~(idle = 2 /\ u.menu)
  BY <1>3 DEF TimeOut
<1>. QED  BY <1>1, <1>2, <1>3

LEMMA GuideEntryFields ==
    ASSUME NEW u \in UiState
    PROVE  LET e == GuideEntry(u)
           IN  /\ e \in UiState
               /\ e.main = u.main /\ e.sub = u.sub /\ e.menu = u.menu
               /\ e.mode = u.mode /\ e.blink = u.blink /\ e.set = u.set
               /\ e.cfg = u.cfg /\ e.edit = u.edit /\ e.para = u.para
               /\ e.num = ParaNum(Cur(u)) /\ e.idx = 0
               /\ Cur(u) \in Pages => e.pidx[Cur(u)] = 0
<1> DEFINE p == IF Cur(u) \in Pages THEN [u.pidx EXCEPT ![Cur(u)] = 0] ELSE u.pidx
<1>1. p \in [Pages -> Nat] /\ (Cur(u) \in Pages => p[Cur(u)] = 0)
  BY Fields
<1>2. ParaNum(Cur(u)) \in 0 .. Segs + 1
  BY ParaNums, BoundAssumption
<1>3. GuideEntry(u) = [u EXCEPT !.num = ParaNum(Cur(u)), !.idx = 0, !.pidx = p]
  BY DEF GuideEntry, UiState
<1> HIDE DEF p
<1>4. GuideEntry(u) = Ui(u.main, u.sub, u.menu, u.mode, u.blink, u.set, u.cfg,
                         ParaNum(Cur(u)), 0, p, u.edit, u.para)
  BY <1>3 DEF UiState, Ui
<1>5. GuideEntry(u) \in UiState
  BY <1>1, <1>2, <1>4, Fields DEF UiState, Ui, Deltas
<1>. QED  BY <1>1, <1>4, <1>5 DEF Ui

LEMMA NextMain ==
    ASSUME NEW m \in Mains PROVE (m + 1) % Len(Menu) \in Mains
<1>1. Len(Menu) \in Nat \ {0}
  BY MenuAssumption
<1>2. \A k \in Nat, n \in Nat \ {0} : k % n \in 0 .. n - 1
  OBVIOUS
<1>3. (m + 1) % Len(Menu) \in 0 .. Len(Menu) - 1
  <2>1. m + 1 \in Nat
    BY <1>1 DEF Mains
  <2>. QED  BY <1>1, <1>2, <2>1
<1>. QED  BY <1>3 DEF Mains

LEMMA NextMenuFields ==
    ASSUME NEW u \in UiState
    PROVE  LET e == NextMenu(u)
           IN  /\ e \in UiState
               /\ e.main \in Mains /\ e.sub = 0 /\ e.menu
               /\ ~e.blink /\ e.mode = u.mode /\ e.set = u.set
               /\ e.cfg = u.cfg /\ e.edit = u.edit /\ e.para = u.para
<1> DEFINE m == (u.main + 1) % Len(Menu)
<1>1. m \in Mains
  BY NextMain, Fields
<1>2. NextMenu(u) = [u EXCEPT !.main = m, !.sub = 0, !.menu = TRUE, !.blink = FALSE]
  BY DEF NextMenu, UiState
<1> HIDE DEF m
<1>3. NextMenu(u) = Ui(m, 0, TRUE, u.mode, FALSE, u.set, u.cfg, u.num, u.idx,
                       u.pidx, u.edit, u.para)
  BY <1>2 DEF UiState, Ui
<1>4. NextMenu(u) \in UiState
  BY <1>1, <1>3, Fields DEF UiState, Ui, Deltas
<1>. QED  BY <1>1, <1>3, <1>4 DEF Ui

LEMMA EditRightFields ==
    ASSUME NEW u \in UiState
    PROVE  LET e == EditRight(u)
           IN  /\ e \in UiState
               /\ e.main \in Mains /\ e.sub = 0 /\ e.menu
               /\ ~e.blink /\ e.mode = "GUIDE" /\ e.set = u.set
               /\ e.cfg = u.cfg /\ e.edit = u.edit /\ e.para = u.para
<1> DEFINE n == NextMenu(u)
<1>1. EditRight(u) = [n EXCEPT !.mode = "GUIDE"]
  BY DEF EditRight
<1>2. /\ n \in UiState
      /\ n.main \in Mains /\ n.sub = 0 /\ n.menu
      /\ ~n.blink /\ n.mode = u.mode /\ n.set = u.set
      /\ n.cfg = u.cfg /\ n.edit = u.edit /\ n.para = u.para
  BY NextMenuFields
<1> HIDE DEF n
<1>. QED  BY <1>1, <1>2 DEF UiState

(* Fields that KEY_UP and KEY_DOWN leave alone when they change the page. *)
Moved(u, e) ==
    /\ e.main = u.main /\ e.mode = u.mode /\ e.blink = u.blink
    /\ e.set = u.set /\ e.cfg = u.cfg /\ e.num = u.num /\ e.idx = u.idx
    /\ e.pidx = u.pidx /\ e.edit = u.edit /\ e.para = u.para

FirstPage(u) == [u EXCEPT !.sub = 0, !.menu = FALSE]

LEMMA FirstPageFields ==
    ASSUME NEW u \in UiState
    PROVE  /\ FirstPage(u) \in UiState /\ Moved(u, FirstPage(u))
           /\ FirstPage(u).sub = 0 /\ ~FirstPage(u).menu
<1>1. FirstPage(u) = Ui(u.main, 0, FALSE, u.mode, u.blink, u.set, u.cfg, u.num,
                        u.idx, u.pidx, u.edit, u.para)
  <2>1. ASSUME NEW w, w = [u EXCEPT !.sub = 0, !.menu = FALSE]
        PROVE  w = Ui(u.main, 0, FALSE, u.mode, u.blink, u.set, u.cfg, u.num,
                      u.idx, u.pidx, u.edit, u.para)
    BY <2>1 DEF UiState, Ui
  <2>. QED  BY <2>1 DEF FirstPage
<1>2. FirstPage(u) \in UiState
  BY <1>1, Fields DEF UiState, Ui, Deltas
<1>3. Moved(u, FirstPage(u)) /\ FirstPage(u).sub = 0 /\ ~FirstPage(u).menu
  BY <1>1 DEF Ui, Moved
<1>. QED  BY <1>2, <1>3

LEMMA GuideDownFields ==
    ASSUME NEW u \in UiState, NEW count \in 1 .. 20
    PROVE  LET e == GuideDown(u, count)
           IN  e \in UiState /\ Moved(u, e) /\ e.sub < count
<1>1. CASE u.menu
  <2>1. GuideDown(u, count) = FirstPage(u)
    BY <1>1 DEF GuideDown, FirstPage
  <2>. QED  BY <2>1, FirstPageFields
<1>2. CASE ~u.menu
  <2> DEFINE s == IF u.sub < count - 1 THEN u.sub + 1 ELSE 0
  <2>1. s \in 0 .. 19 /\ s < count
    BY Fields
  <2>2. GuideDown(u, count) = [u EXCEPT !.sub = s]
    BY <1>2 DEF GuideDown, UiState
  <2> HIDE DEF s
  <2>. QED  BY <2>1, <2>2 DEF UiState, Moved
<1>. QED  BY <1>1, <1>2

LEMMA GuideUpFields ==
    ASSUME NEW u \in UiState, NEW count \in 1 .. 20
    PROVE  LET e == GuideUp(u, count)
           IN  /\ e \in UiState /\ Moved(u, e) /\ e.menu = u.menu
               /\ u.sub < count => e.sub < count
<1> DEFINE s == IF u.sub > 0 THEN u.sub - 1 ELSE IF count > 0 THEN count - 1 ELSE u.sub
<1>1. s \in 0 .. 19 /\ (u.sub < count => s < count)
  BY Fields
<1>2. GuideUp(u, count) = [u EXCEPT !.sub = s]
  BY DEF GuideUp, UiState
<1> HIDE DEF s
<1>. QED  BY <1>1, <1>2 DEF UiState, Moved

(* One call of a page: the fields it never writes, and what it stores. *)
Displayed(u, e) ==
    /\ e.main = u.main /\ e.sub = u.sub /\ e.menu = u.menu /\ e.mode = u.mode
    /\ e.blink = u.blink /\ e.num = u.num /\ e.idx = u.idx /\ e.pidx = u.pidx

Buffer(u) ==
    IF u.set = 0 THEN Load(u)
    ELSE [Load(u) EXCEPT ![Target(u)] = Bump(Kind(Cur(u)), @, u.set)]

LEMMA DeltaInts == Deltas \subseteq Int
BY BoundAssumption DEF Deltas

LEMMA LoadType ==
    ASSUME NEW u \in UiState, Cur(u) \in Pages PROVE Load(u) \in Values
<1>1. \A i \in Seg : u.para[Cur(u)][i] \in {NarrowBand} \cup (0 .. MaxVal)
  BY Fields DEF Stored
<1>2. \A i \in Seg : AsShown(u.para[Cur(u)])[i] \in 0 .. MaxVal
  BY <1>1, BoundAssumption DEF AsShown
<1>3. AsShown(u.para[Cur(u)]) \in Values
  BY <1>2 DEF AsShown, Values
<1>. QED  BY <1>3, Fields, ZeroValues DEF Load

LEMMA BufferType ==
    ASSUME NEW u \in UiState, Runs(u), Kind(Cur(u)) # "info"
    PROVE  Buffer(u) \in Values
<1>1. Load(u) \in Values
  BY LoadType DEF Runs
<1>2. CASE u.set = 0
  BY <1>1, <1>2 DEF Buffer
<1>3. CASE u.set # 0
  <2> DEFINE t == Target(u)
             b == Bump(Kind(Cur(u)), Load(u)[t], u.set)
  <2>1. t \in Seg
    BY <1>3 DEF Runs
  <2>2. u.set \in Int
    BY Fields, DeltaInts
  <2>3. Load(u)[t] \in 0 .. MaxVal
    BY <1>1, <2>1 DEF Values
  <2>4. b \in 0 .. MaxVal
    BY <2>2, <2>3, BumpRange
  <2>5. Buffer(u) = [Load(u) EXCEPT ![t] = b]
    BY <1>3 DEF Buffer
  <2> HIDE DEF t, b
  <2>. QED  BY <1>1, <2>1, <2>4, <2>5 DEF Values
<1>. QED  BY <1>2, <1>3

LEMMA StoreType ==
    ASSUME NEW u \in UiState, Cur(u) \in Pages, NEW e \in Values
    PROVE  Store(u, e) \in [Pages -> Stored]
<1>1. u.para \in [Pages -> Stored] /\ Default \in [Pages -> Stored]
  BY Fields, ZeroValues
<1>2. e \in Stored /\ [e EXCEPT ![0] = MaxVal] \in Stored
  BY BoundAssumption DEF Values, Stored
<1>3. AsStored(Cur(u), u.para[Cur(u)], e) \in Stored
  BY <1>1, <1>2 DEF AsStored
<1>. QED  BY <1>1, <1>3 DEF Store

LEMMA PageFields ==
    ASSUME NEW u \in UiState
    PROVE  /\ Page(u) \in UiState
           /\ Displayed(u, Page(u))
           /\ ~u.cfg => Page(u).para = u.para
           /\ ~Runs(u) \/ Kind(Cur(u)) = "info" => Page(u) = u
           /\ Runs(u) /\ Kind(Cur(u)) # "info" =>
                 /\ Page(u).set = 0 /\ ~Page(u).cfg
                 /\ Page(u).edit = Buffer(u)
                 /\ u.cfg => Page(u).para = Store(u, Buffer(u))
<1>1. CASE ~Runs(u) \/ Kind(Cur(u)) = "info"
  BY <1>1 DEF Page, Displayed
<1>2. CASE Runs(u) /\ Kind(Cur(u)) # "info"
  <2> DEFINE e == Buffer(u)
             p == IF u.cfg THEN Store(u, e) ELSE u.para
  <2>1. e \in Values
    BY <1>2, BufferType
  <2>2. p \in [Pages -> Stored]
    BY <1>2, <2>1, StoreType, Fields DEF Runs
  <2>3. Page(u) = [u EXCEPT !.edit = e, !.set = 0, !.cfg = FALSE, !.para = p]
    BY <1>2 DEF Page, Buffer, UiState
  <2> HIDE DEF e, p
  <2>4. Page(u) = Ui(u.main, u.sub, u.menu, u.mode, u.blink, 0, FALSE, u.num,
                     u.idx, u.pidx, e, p)
    BY <2>3 DEF UiState, Ui
  <2>5. Page(u) \in UiState
    BY <2>1, <2>2, <2>4, Fields DEF UiState, Ui, Deltas
  <2>6. Displayed(u, Page(u))
    BY <2>4 DEF Ui, Displayed
  <2>7. Page(u).set = 0 /\ ~Page(u).cfg /\ Page(u).edit = e /\ Page(u).para = p
    BY <2>4 DEF Ui
  <2>. QED  BY <1>2, <2>5, <2>6, <2>7 DEF e, p
<1>. QED  BY <1>1, <1>2

LEMMA DeltaType == ASSUME long \in Steps PROVE Delta \in Deltas
<1>1. long["UP"] \in {0, 1, LongStep} /\ long["DOWN"] \in {0, 1, LongStep}
  BY DEF Steps
<1>. QED  BY <1>1 DEF Delta, Deltas

LEMMA EditStepFields ==
    ASSUME NEW u \in UiState, long \in Steps
    PROVE  LET e == EditStep(u)
           IN  /\ e \in UiState /\ Displayed(u, e)
               /\ e.cfg = u.cfg /\ e.edit = u.edit /\ e.para = u.para
               /\ Delta = 0 => e.set = u.set
<1> DEFINE d == IF Delta = 0 THEN u.set ELSE Delta
<1>1. d \in Deltas
  BY DeltaType, Fields
<1>2. EditStep(u) = [u EXCEPT !.set = d]
  BY DEF EditStep, UiState
<1>3. Delta = 0 => d = u.set
  OBVIOUS
<1> HIDE DEF d
<1>. QED  BY <1>1, <1>2, <1>3 DEF UiState, Displayed, Deltas

LEMMA AdvanceFields ==
    ASSUME NEW u \in UiState
    PROVE  LET e == Advance(u)
               n == ParaNum(Cur(u))
           IN  /\ e \in UiState
               /\ e.main = u.main /\ e.sub = u.sub /\ e.menu = u.menu
               /\ e.mode = u.mode /\ e.blink = u.blink /\ e.set = u.set
               /\ e.edit = u.edit /\ e.para = u.para /\ e.cfg /\ e.num = n
               /\ n # 0 => /\ e.idx = u.pidx[Cur(u)] + 1
                           /\ e.pidx[Cur(u)] = u.pidx[Cur(u)] + 1
<1> DEFINE n == ParaNum(Cur(u))
           c == Cur(u)
<1>1. n \in 0 .. Segs + 1
  BY ParaNums, BoundAssumption
<1>2. CASE n = 0
  <2>1. Advance(u) = Ui(u.main, u.sub, u.menu, u.mode, u.blink, u.set, TRUE, 0, 0,
                        u.pidx, u.edit, u.para)
    BY <1>2 DEF Advance, UiState, Ui
  <2>2. Advance(u) \in UiState
    BY <1>1, <1>2, <2>1, Fields, BoundAssumption DEF UiState, Ui, Deltas
  <2>. QED  BY <1>2, <2>1, <2>2 DEF Ui
<1>3. CASE n # 0
  <2> DEFINE i == u.pidx[c] + 1
             p == [u.pidx EXCEPT ![c] = i]
  <2>1. c \in Pages
    BY <1>3 DEF ParaNum
  <2>2. i \in Nat /\ p \in [Pages -> Nat] /\ p[c] = i
    BY <2>1, Fields
  <2>3. Advance(u) = [u EXCEPT !.num = n, !.idx = i, !.pidx = p, !.cfg = TRUE]
    BY <1>3 DEF Advance, UiState
  <2> HIDE DEF i, p, n, c
  <2>4. Advance(u) = Ui(u.main, u.sub, u.menu, u.mode, u.blink, u.set, TRUE, n, i,
                        p, u.edit, u.para)
    BY <2>3 DEF UiState, Ui
  <2>5. Advance(u) \in UiState
    BY <1>1, <2>2, <2>4, Fields DEF UiState, Ui, Deltas
  <2>6. /\ Advance(u).main = u.main /\ Advance(u).sub = u.sub
        /\ Advance(u).menu = u.menu /\ Advance(u).mode = u.mode
        /\ Advance(u).blink = u.blink /\ Advance(u).set = u.set
        /\ Advance(u).edit = u.edit /\ Advance(u).para = u.para
        /\ Advance(u).cfg /\ Advance(u).num = n
        /\ Advance(u).idx = i /\ Advance(u).pidx = p
    BY <2>4 DEF Ui
  <2>. QED  BY <2>2, <2>5, <2>6 DEF n, c, i
<1>. QED  BY <1>2, <1>3

LEMMA EditDoneFields ==
    ASSUME NEW u \in UiState
    PROVE  LET e == EditDone(u)
           IN  /\ e \in UiState
               /\ e.main = u.main /\ e.sub = u.sub /\ e.menu = u.menu
               /\ e.set = u.set /\ e.cfg = u.cfg /\ e.num = u.num /\ e.idx = u.idx
               /\ e.pidx = u.pidx /\ e.edit = u.edit /\ e.para = u.para
               /\ u.idx # u.num => e.mode = u.mode /\ e.blink = u.blink
               /\ u.idx = u.num => e.mode = "GUIDE" /\ (u.num # 0 => ~e.blink)
<1>1. CASE u.idx # u.num
  BY <1>1 DEF EditDone
<1>2. CASE u.idx = u.num
  <2> DEFINE b == u.blink /\ u.num = 0
  <2>1. b \in BOOLEAN /\ (u.num # 0 => ~b)
    OBVIOUS
  <2>2. EditDone(u) = [u EXCEPT !.mode = "GUIDE", !.blink = b]
    BY <1>2 DEF EditDone, UiState
  <2> HIDE DEF b
  <2>3. EditDone(u) = Ui(u.main, u.sub, u.menu, "GUIDE", b, u.set, u.cfg, u.num,
                         u.idx, u.pidx, u.edit, u.para)
    BY <2>2 DEF UiState, Ui
  <2>4. EditDone(u) \in UiState
    BY <2>1, <2>3, Fields DEF UiState, Ui, Deltas
  <2>. QED  BY <1>2, <2>1, <2>3, <2>4 DEF Ui
<1>. QED  BY <1>1, <1>2

LEMMA SettledFields ==
    ASSUME NEW u \in UiState
    PROVE  LET e == Settled(u)
           IN  /\ e \in UiState /\ Displayed(u, e)
               /\ e.cfg = u.cfg /\ e.edit = u.edit /\ e.para = u.para
               /\ e.set = IF Cur(u) = Cur(ui) THEN u.set ELSE 0
<1>1. CASE Cur(u) = Cur(ui)
  BY <1>1 DEF Settled, Displayed
<1>2. CASE Cur(u) # Cur(ui)
  BY <1>2 DEF Settled, Displayed, UiState
<1>. QED  BY <1>1, <1>2

Editing(u) == [u EXCEPT !.mode = "EDIT"]

LEMMA EditingFields ==
    ASSUME NEW u \in UiState
    PROVE  LET e == Editing(u)
           IN  /\ e \in UiState
               /\ e.main = u.main /\ e.sub = u.sub /\ e.menu = u.menu
               /\ e.mode = "EDIT" /\ e.blink = u.blink /\ e.set = u.set
               /\ e.cfg = u.cfg /\ e.num = u.num /\ e.idx = u.idx
               /\ e.pidx = u.pidx /\ e.edit = u.edit /\ e.para = u.para
BY DEF Editing, UiState

LEMMA GuideSetFields ==
    ASSUME NEW u \in UiState
    PROVE  LET e == GuideSet(u)
               p == Page(Editing(u))
           IN  /\ e \in UiState
               /\ u.menu => e = FirstPage(u)
               /\ ~u.menu /\ ~StartsEdit(u) => e = u
               /\ StartsEdit(u) =>
                     /\ e.main = p.main /\ e.sub = p.sub /\ e.menu = p.menu
                     /\ e.mode = "EDIT" /\ e.set = p.set /\ e.cfg = p.cfg
                     /\ e.num = p.num /\ e.idx = p.idx /\ e.pidx = p.pidx
                     /\ e.edit = p.edit /\ e.para = p.para
                     /\ u.main # 0 => e.blink
<1>1. CASE u.menu
  <2>1. GuideSet(u) = FirstPage(u) /\ ~StartsEdit(u)
    BY <1>1 DEF GuideSet, FirstPage, StartsEdit
  <2>. QED  BY <1>1, <2>1, FirstPageFields
<1>2. CASE ~u.menu /\ ~StartsEdit(u)
  BY <1>2 DEF GuideSet
<1>3. CASE ~u.menu /\ StartsEdit(u)
  <2> DEFINE p == Page(Editing(u))
             b == p.blink \/ u.main # 0
  <2>1. p \in UiState /\ p.mode = "EDIT"
    BY EditingFields, PageFields DEF Displayed
  <2>2. b \in BOOLEAN /\ (u.main # 0 => b)
    OBVIOUS
  <2>3. GuideSet(u) = [p EXCEPT !.blink = b]
    BY <1>3, <2>1 DEF GuideSet, Editing, UiState
  <2> HIDE DEF p, b
  <2>4. GuideSet(u) = Ui(p.main, p.sub, p.menu, p.mode, b, p.set, p.cfg, p.num,
                         p.idx, p.pidx, p.edit, p.para)
    BY <2>1, <2>3 DEF UiState, Ui
  <2>5. GuideSet(u) \in UiState
    BY <2>1, <2>2, <2>4, Fields DEF UiState, Ui, Deltas
  <2>6. /\ GuideSet(u).main = p.main /\ GuideSet(u).sub = p.sub
        /\ GuideSet(u).menu = p.menu /\ GuideSet(u).mode = "EDIT"
        /\ GuideSet(u).set = p.set /\ GuideSet(u).cfg = p.cfg
        /\ GuideSet(u).num = p.num /\ GuideSet(u).idx = p.idx
        /\ GuideSet(u).pidx = p.pidx /\ GuideSet(u).edit = p.edit
        /\ GuideSet(u).para = p.para /\ GuideSet(u).blink = b
    BY <2>1, <2>4 DEF Ui
  <2>. QED  BY <1>3, <2>2, <2>5, <2>6 DEF p
<1>. QED  BY <1>1, <1>2, <1>3

LEMMA EditSetType ==
    ASSUME NEW u \in UiState PROVE EditSet(u) \in UiState
BY AdvanceFields, PageFields, EditDoneFields DEF EditSet

LEMMA BeforeSetType ==
    ASSUME NEW u \in UiState, NEW count \in 1 .. 20, long \in Steps
    PROVE  BeforeSet(u, count) \in UiState
<1>1. CASE u.mode = "GUIDE"
  <2> DEFINE r == If("RIGHT" \in short, NextMenu(GuideEntry(u)), GuideEntry(u))
             d == If("DOWN" \in short, GuideDown(r, count), r)
             e == If("UP" \in short, GuideUp(d, count), d)
  <2>1. r \in UiState
    BY GuideEntryFields, NextMenuFields DEF If
  <2> HIDE DEF r
  <2>2. d \in UiState
    BY <2>1, GuideDownFields DEF If
  <2> HIDE DEF d
  <2>3. e \in UiState
    BY <2>2, GuideUpFields DEF If
  <2>. QED  BY <1>1, <2>3 DEF BeforeSet, d, r
<1>2. CASE u.mode # "GUIDE"
  BY <1>2, EditRightFields, EditStepFields DEF BeforeSet, If
<1>. QED  BY <1>1, <1>2

LEMMA AfterSetType ==
    ASSUME NEW u \in UiState, NEW b \in UiState PROVE AfterSet(u, b) \in UiState
BY GuideSetFields, EditSetType DEF AfterSet

(* What is left of the pass once the keys have been looked at. *)
Shown(b) == IF Settled(b).menu THEN Settled(b) ELSE Page(Settled(b))

LEMMA Pass ==
    ASSUME menu_navigate
    PROVE  LET u == TimeOut(ui)
               b == BeforeSet(u, Count(ui.main))
               a == AfterSet(u, b)
               c == Settled(a)
           IN  /\ ui' = Shown(a)
               /\ wild' = \E x \in CalledBySet(u, b) \cup (IF c.menu THEN {} ELSE {c}) :
                            ~Runs(x)
               /\ long' = IF u.mode = "EDIT" \/ "SET" \in short
                          THEN [k \in DOMAIN long |-> 0] ELSE long
               /\ apart' = (apart /\ Cardinality(short \cup
                       {k \in DOMAIN long : u.mode = "EDIT" /\ long[k] > 0}) <= 1)
               /\ short' = {}
BY DEF menu_navigate, Shown

LEMMA ShownType ==
    ASSUME NEW b \in UiState PROVE Shown(b) \in UiState
BY SettledFields, PageFields DEF Shown

-----------------------------------------------------------------------------
LEMMA InitType == Init => TypeOK
<1> SUFFICES ASSUME Init PROVE TypeOK
  OBVIOUS
<1>1. ui = Ui(0, 0, TRUE, "GUIDE", FALSE, 0, FALSE, 0, 0, [pg \in Pages |-> 0],
              [i \in Seg |-> 0], Default)
  BY DEF Init, Ui
<1>2. 0 \in Mains /\ 0 \in 0 .. Segs + 1
  BY Tables, BoundAssumption
<1>3. ui \in UiState
  BY <1>1, <1>2, ZeroValues DEF UiState, Ui, Deltas
<1>4. long \in Steps /\ short \subseteq Keys
  BY DEF Init, Steps
<1>5. quiet \in 0 .. LongIdle /\ idle \in 0 .. 2 /\ turn \in {"scan", "ui"}
  BY BoundAssumption DEF Init
<1>6. {lock, wild, apart} \subseteq BOOLEAN
  BY DEF Init
<1>. QED  BY <1>3, <1>4, <1>5, <1>6 DEF TypeOK

LEMMA KeyScanType == ASSUME TypeOK, KeyScan PROVE TypeOK'
<1>1. PICK s \in SUBSET Keys, l \in Steps, other \in BOOLEAN : key_task(s, l, other)
  BY DEF KeyScan
<1>2. short' \subseteq Keys
  BY <1>1 DEF key_task, TypeOK
<1>3. long' \in Steps
  <2>1. /\ DOMAIN long = {"UP", "DOWN"}
        /\ \A k \in {"UP", "DOWN"} : long[k] \in {0, 1, LongStep}
    BY DEF TypeOK, Steps
  <2>2. \A k \in {"UP", "DOWN"} : l[k] \in {0, 1, LongStep}
    BY DEF Steps
  <2>. QED  BY <1>1, <2>1, <2>2 DEF key_task, Steps
<1>4. quiet' \in 0 .. LongIdle /\ idle' \in 0 .. 2
  <2>1. CASE s # {} \/ other \/ \E k \in DOMAIN l : l[k] > 0
    BY <1>1, <2>1, BoundAssumption DEF key_task
  <2>2. CASE ~(s # {} \/ other \/ \E k \in DOMAIN l : l[k] > 0)
    BY <1>1, <2>2, BoundAssumption DEF key_task, TypeOK
  <2>. QED  BY <2>1, <2>2
<1>5. turn' = "ui" /\ UNCHANGED <<ui, lock, wild, apart>>
  BY <1>1 DEF key_task
<1>. QED  BY <1>2, <1>3, <1>4, <1>5 DEF TypeOK

LEMMA UiTaskType == ASSUME TypeOK, ui_task PROVE TypeOK'
<1> DEFINE u == TimeOut(ui)
           b == BeforeSet(u, Count(ui.main))
           a == AfterSet(u, b)
<1>1. u \in UiState /\ Count(ui.main) \in 1 .. 20
  BY TimeOutFields, Fields, Tables DEF TypeOK
<1>2. b \in UiState
  BY <1>1, BeforeSetType DEF TypeOK
<1>3. a \in UiState
  BY <1>1, <1>2, AfterSetType
<1>4. ui' \in UiState
  BY <1>3, Pass, ShownType DEF ui_task
<1>5. long' \in Steps
  <2>1. [k \in DOMAIN long |-> 0] \in Steps /\ long \in Steps
    BY DEF TypeOK, Steps
  <2>. QED  BY <2>1, Pass DEF ui_task
<1>6. short' = {} /\ turn' = "scan" /\ UNCHANGED <<quiet, idle, lock>>
  BY Pass DEF ui_task
<1>7. wild' \in BOOLEAN /\ apart' \in BOOLEAN
  BY DEF ui_task, menu_navigate
<1>. QED  BY <1>4, <1>5, <1>6, <1>7 DEF TypeOK

LEMMA ResetType == ASSUME TypeOK, Reset PROVE TypeOK'
<1>1. ui' = Ui(0, 0, TRUE, "GUIDE", FALSE, 0, FALSE, 0, 0, [pg \in Pages |-> 0],
               [i \in Seg |-> 0], ui.para)
  BY DEF Reset, Ui
<1>2. 0 \in Mains /\ 0 \in 0 .. Segs + 1 /\ ui.para \in [Pages -> Stored]
  BY Tables, Fields, BoundAssumption DEF TypeOK
<1>3. ui' \in UiState
  BY <1>1, <1>2, ZeroValues DEF UiState, Ui, Deltas
<1>4. long' \in Steps /\ short' = {}
  BY DEF Reset, TypeOK, Steps
<1>5. quiet' \in 0 .. LongIdle /\ idle' \in 0 .. 2 /\ turn' \in {"scan", "ui"}
  BY BoundAssumption DEF Reset
<1>6. lock' = lock /\ wild' = FALSE /\ apart' = TRUE
  BY DEF Reset
<1>. QED  BY <1>3, <1>4, <1>5, <1>6 DEF TypeOK

(* A command changes nothing of the panel but a parameter. *)
LEMMA SetParameterFields ==
    ASSUME ui \in UiState, SetParameter
    PROVE  ui' \in UiState /\ Displayed(ui, ui') /\ ui'.set = ui.set /\ ui'.cfg = ui.cfg
<1>1. PICK pg \in Pages : \E w \in Settable(pg) :
         ui' = [ui EXCEPT !.para = [@ EXCEPT ![pg] = w]]
  BY DEF SetParameter
<1>2. PICK w \in Settable(pg) : ui' = [ui EXCEPT !.para = [@ EXCEPT ![pg] = w]]
  BY <1>1
<1>3. w \in Stored
  BY DEF Settable, Stored, Values
<1> DEFINE p == [ui.para EXCEPT ![pg] = w]
<1>4. p \in [Pages -> Stored]
  BY <1>3, Fields
<1>5. ui' = [ui EXCEPT !.para = p]
  BY <1>2
<1> HIDE DEF p
<1>6. ui' = Ui(ui.main, ui.sub, ui.menu, ui.mode, ui.blink, ui.set, ui.cfg, ui.num,
               ui.idx, ui.pidx, ui.edit, p)
  BY <1>5 DEF UiState, Ui
<1>7. ui' \in UiState
  BY <1>4, <1>6, Fields DEF UiState, Ui, Deltas
<1>. QED  BY <1>6, <1>7 DEF Ui, Displayed

(* Type correctness, also for passes that find several keys: page numbers     *)
(* stay inside ui.c's arrays and every edited value inside its range.         *)
THEOREM TypeCorrect == Spec => []TypeOK
<1>1. TypeOK /\ [Next]_vars => TypeOK'
  <2> SUFFICES ASSUME TypeOK, [Next]_vars PROVE TypeOK'
    OBVIOUS
  <2>1. CASE KeyScan
    BY <2>1, KeyScanType
  <2>2. CASE KeyFail
    BY <2>2 DEF KeyFail, TypeOK
  <2>3. CASE ui_task
    BY <2>3, UiTaskType
  <2>4. CASE SetLock
    <3>1. UNCHANGED <<short, long, quiet, idle, ui, turn, wild, apart>>
      BY <2>4 DEF SetLock
    <3>2. lock' \in BOOLEAN
      BY <2>4 DEF SetLock
    <3>. QED  BY <3>1, <3>2 DEF TypeOK
  <2>5. CASE Reset
    BY <2>5, ResetType
  <2>6. CASE UNCHANGED vars
    BY <2>6 DEF vars, TypeOK
  <2>7. CASE SetParameter
    <3>1. ui' \in UiState
      BY <2>7, SetParameterFields DEF TypeOK
    <3>. QED  BY <2>7, <3>1 DEF SetParameter, TypeOK
  <2>. QED  BY <2>1, <2>2, <2>3, <2>4, <2>5, <2>6, <2>7 DEF Next
<1>. QED  BY <1>1, InitType, PTL DEF Spec

-----------------------------------------------------------------------------
(***************************************************************************)
(* One key per pass.  Between two passes the panel is on a page that       *)
(* exists and no step or store is pending; an edit is under way on a page  *)
(* with parameters, blinking, outside the menu list, and the part being    *)
(* edited is the page's own count of parts done.  The two conjuncts on the *)
(* key scan say that a pass with a key in it sees no time-out: count, read *)
(* before the time-outs, then belongs to the page the keys act on.         *)
(***************************************************************************)
Sane(u) ==
    /\ Cur(u) \in Pages
    /\ u.set = 0 /\ ~u.cfg
    /\ u.mode = "GUIDE" => ~u.blink
    /\ u.mode = "EDIT" => /\ ~u.menu /\ u.blink
                          /\ u.num = ParaNum(Cur(u)) /\ u.num > 0
                          /\ u.idx = u.pidx[Cur(u)] /\ u.idx < u.num

PanelInv ==
    /\ turn = "scan" => short = {}
    /\ wild => turn = "scan"
    /\ short # {} => idle = 0
    /\ apart => ~wild /\ Sane(ui)

(* What a pass does to the parameters, and how it begins an edit. *)
StoredRight ==
    ui'.para = IF ui.mode = "EDIT" /\ short = {"SET"} THEN Store(ui, ui.edit)
               ELSE ui.para

Started ==
    ui.mode = "GUIDE" /\ ui'.mode = "EDIT" =>
        /\ ui'.blink /\ ui'.pidx[Cur(ui')] = 0
        /\ ui'.edit = IF Kind(Cur(ui')) = "factory" THEN [i \in Seg |-> 0]
                      ELSE AsShown(ui'.para[Cur(ui')])
        /\ "SET" \in short

GoodPass == ~wild' /\ Sane(ui') /\ StoredRight /\ Started

LEMMA OneKey ==
    ASSUME NEW S \in SUBSET Keys, Cardinality(S) <= 1
    PROVE  \A j, k \in S : j = k
<1>1. IsFiniteSet(Keys)
  <2>1. IsFiniteSet({}) /\ \A T, x : IsFiniteSet(T) => IsFiniteSet(T \cup {x})
    BY FS_EmptySet, FS_AddElement
  <2>2. Keys = ((({} \cup {"UP"}) \cup {"DOWN"}) \cup {"SET"}) \cup {"RIGHT"}
    BY DEF Keys
  <2>. QED  BY <2>1, <2>2
<1>2. IsFiniteSet(S) /\ Cardinality(S) \in Nat
  BY <1>1, FS_Subset, FS_CardinalityType
<1>3. CASE Cardinality(S) = 0
  BY <1>2, <1>3, FS_EmptySet
<1>4. CASE Cardinality(S) = 1
  BY <1>2, <1>4, FS_Singleton
<1>. QED  BY <1>2, <1>3, <1>4

(* A page is not called with a step beyond its parts. *)
LEMMA QuietRuns ==
    ASSUME NEW u \in UiState, Sane(u) PROVE Runs(u)
BY DEF Sane, Runs

LEMMA TimeOutSane ==
    ASSUME TypeOK, Sane(ui)
    PROVE  /\ TimeOut(ui) \in UiState /\ Sane(TimeOut(ui))
           /\ idle = 0 => TimeOut(ui) = ui
           /\ TimeOut(ui).mode = "EDIT" => TimeOut(ui) = ui
           /\ TimeOut(ui).para = ui.para
<1> DEFINE u == TimeOut(ui)
<1>1. ui \in UiState
  BY DEF TypeOK
<1>2. /\ u \in UiState /\ u.set = ui.set /\ u.cfg = ui.cfg /\ u.para = ui.para
      /\ idle = 1 => /\ u.main = 0 /\ u.sub = 0 /\ ~u.blink /\ ~u.menu
                     /\ u.mode = "GUIDE"
      /\ idle = 2 /\ ui.menu => /\ u.main = ui.main /\ u.sub = 0
                                /\ ~u.blink /\ ~u.menu /\ u.mode = ui.mode
      /\ idle # 1 /\ ~(idle = 2 /\ ui.menu) => u = ui
  BY <1>1, TimeOutFields
<1> HIDE DEF u
<1>3. CASE idle = 1
  <2>1. Cur(u) \in Pages
    BY <1>2, <1>3, Tables DEF Cur
  <2>. QED  BY <1>2, <1>3, <2>1 DEF Sane, u
<1>4. CASE idle # 1 /\ idle = 2 /\ ui.menu
  <2>1. Cur(u) \in Pages
    BY <1>1, <1>2, <1>4, Fields, Tables DEF Cur
  <2>2. ui.mode = "GUIDE" /\ u.mode = "GUIDE"
    BY <1>1, <1>2, <1>4, Fields DEF Sane
  <2>. QED  BY <1>2, <1>4, <2>1, <2>2 DEF Sane, u
<1>5. CASE idle # 1 /\ ~(idle = 2 /\ ui.menu)
  BY <1>2, <1>5 DEF u
<1>. QED  BY <1>3, <1>4, <1>5

(* A record without a pending step passes the last call of the page unharmed. *)
LEMMA ShownSane ==
    ASSUME NEW b \in UiState, Sane(b)
    PROVE  LET c == Settled(b)
               e == Shown(b)
           IN  /\ Runs(c) /\ Sane(e) /\ Displayed(b, e) /\ e.para = b.para
               /\ b.mode = "EDIT" => e.edit = b.edit
<1> DEFINE c == Settled(b)
<1>1. /\ c \in UiState /\ Displayed(b, c) /\ c.set = 0
      /\ c.cfg = b.cfg /\ c.edit = b.edit /\ c.para = b.para
  BY SettledFields DEF Sane
<1> HIDE DEF c
<1>2. Cur(c) = Cur(b)
  BY <1>1 DEF Displayed, Cur
<1>3. Sane(c)
  BY <1>1, <1>2 DEF Sane, Displayed
<1>4. Runs(c)
  BY <1>1, <1>3, QuietRuns
<1>5. CASE c.menu
  <2>1. Shown(b) = c
    BY <1>5 DEF Shown, c
  <2>. QED  BY <1>1, <1>3, <1>4, <2>1 DEF c
<1>6. CASE ~c.menu
  <2> DEFINE e == Page(c)
  <2>1. Shown(b) = e
    BY <1>6 DEF Shown, c
  <2>2. /\ e \in UiState /\ Displayed(c, e) /\ e.para = c.para
        /\ Kind(Cur(c)) = "info" => e = c
        /\ Kind(Cur(c)) # "info" => e.set = 0 /\ ~e.cfg /\ e.edit = Buffer(c)
    BY <1>1, <1>3, <1>4, PageFields DEF Sane
  <2> HIDE DEF e
  <2>3. Cur(e) = Cur(c)
    BY <2>2 DEF Displayed, Cur
  <2>4. e.set = 0 /\ ~e.cfg
    BY <1>3, <2>2 DEF Sane
  <2>5. Sane(e)
    BY <1>3, <2>2, <2>3, <2>4 DEF Sane, Displayed
  <2>6. b.mode = "EDIT" => e.edit = b.edit
    <3>1. ASSUME b.mode = "EDIT" PROVE Buffer(c) = c.edit
      BY <1>1, <3>1 DEF Buffer, Load, Sane, Displayed
    <3>. QED  BY <1>1, <2>2, <3>1
  <2>7. Displayed(b, e)
    BY <1>1, <2>2 DEF Displayed
  <2>. QED  BY <1>1, <1>4, <2>1, <2>2, <2>5, <2>6, <2>7 DEF c
<1>. QED  BY <1>5, <1>6

(* A guide pass without KEY_SET: at most the page changes. *)
LEMMA GuidePass ==
    ASSUME NEW u \in UiState, Sane(u), u.mode = "GUIDE", NEW count \in 1 .. 20,
           short # {} => count = Count(u.main),
           \A j, k \in short : j = k
    PROVE  LET b == BeforeSet(u, count)
           IN  /\ b \in UiState /\ Sane(b) /\ b.mode = "GUIDE" /\ b.para = u.para
               /\ "SET" \in short => b = GuideEntry(u)
<1> DEFINE g == GuideEntry(u)
<1>1. /\ g \in UiState /\ g.main = u.main /\ g.sub = u.sub /\ g.mode = "GUIDE"
      /\ ~g.blink /\ g.set = 0 /\ ~g.cfg /\ g.para = u.para
  BY GuideEntryFields DEF Sane
<1> HIDE DEF g
<1>2. Cur(g) \in Pages /\ Sane(g)
  BY <1>1 DEF Sane, Cur
<1>3. CASE "RIGHT" \in short
  <2> DEFINE e == NextMenu(g)
  <2>1. BeforeSet(u, count) = e
    BY <1>3 DEF BeforeSet, If, g
  <2>2. /\ e \in UiState /\ e.main \in Mains /\ e.sub = 0 /\ ~e.blink
        /\ e.mode = "GUIDE" /\ e.set = 0 /\ ~e.cfg /\ e.para = u.para
    BY <1>1, NextMenuFields
  <2> HIDE DEF e
  <2>3. Cur(e) \in Pages
    BY <2>2, Tables DEF Cur
  <2>4. "SET" \notin short
    BY <1>3
  <2>. QED  BY <2>1, <2>2, <2>3, <2>4 DEF Sane
<1>4. CASE "DOWN" \in short
  <2> DEFINE e == GuideDown(g, count)
  <2>1. BeforeSet(u, count) = e
    BY <1>4 DEF BeforeSet, If, g
  <2>2. e \in UiState /\ Moved(g, e) /\ e.sub < count
    BY <1>1, GuideDownFields
  <2> HIDE DEF e
  <2>3. Cur(e) \in Pages
    BY <1>1, <1>4, <2>2, CurPages DEF Moved
  <2>4. "SET" \notin short
    BY <1>4
  <2>. QED  BY <1>1, <2>1, <2>2, <2>3, <2>4 DEF Sane, Moved
<1>5. CASE "UP" \in short
  <2> DEFINE e == GuideUp(g, count)
  <2>1. BeforeSet(u, count) = e
    BY <1>5 DEF BeforeSet, If, g
  <2>2. e \in UiState /\ Moved(g, e) /\ (g.sub < count => e.sub < count)
    BY <1>1, GuideUpFields
  <2> HIDE DEF e
  <2>3. Cur(e) \in Pages
    BY <1>1, <1>2, <1>5, <2>2, CurPages DEF Moved
  <2>4. "SET" \notin short
    BY <1>5
  <2>. QED  BY <1>1, <2>1, <2>2, <2>3, <2>4 DEF Sane, Moved
<1>6. CASE "RIGHT" \notin short /\ "DOWN" \notin short /\ "UP" \notin short
  <2>1. BeforeSet(u, count) = g
    BY <1>6 DEF BeforeSet, If, g
  <2>. QED  BY <1>1, <1>2, <2>1 DEF g
<1>. QED  BY <1>3, <1>4, <1>5, <1>6

(* KEY_SET outside an edit: the list of menus closes, or an edit begins with  *)
(* the stored value of the page.                                              *)
LEMMA GuideSetSane ==
    ASSUME NEW u \in UiState, Sane(u), u.mode = "GUIDE"
    PROVE  LET b == GuideEntry(u)
               e == GuideSet(b)
           IN  /\ e \in UiState /\ Sane(e) /\ e.para = u.para
               /\ StartsEdit(b) => Runs(Editing(b))
               /\ e.mode = "EDIT" =>
                     /\ e.pidx[Cur(e)] = 0
                     /\ e.edit = IF Kind(Cur(e)) = "factory" THEN [i \in Seg |-> 0]
                                 ELSE AsShown(e.para[Cur(e)])
<1> DEFINE b == GuideEntry(u)
           e == GuideSet(b)
<1>1. /\ b \in UiState /\ b.main = u.main /\ b.sub = u.sub /\ b.mode = "GUIDE"
      /\ ~b.blink /\ b.set = 0 /\ ~b.cfg /\ b.para = u.para
      /\ b.num = ParaNum(Cur(u)) /\ b.idx = 0 /\ b.pidx[Cur(u)] = 0
  BY GuideEntryFields DEF Sane
<1> HIDE DEF b
<1>2. Cur(b) = Cur(u) /\ Cur(b) \in Pages
  BY <1>1 DEF Cur, Sane
<1>3. CASE b.menu
  <2>1. e = FirstPage(b) /\ ~StartsEdit(b)
    BY <1>1, <1>3, GuideSetFields DEF StartsEdit
  <2>2. e \in UiState /\ Moved(b, e) /\ e.sub = 0
    BY <1>1, <2>1, FirstPageFields
  <2> HIDE DEF e
  <2>3. Cur(e) \in Pages
    BY <1>1, <2>2, Tables, Fields DEF Cur, Moved
  <2>4. Sane(e) /\ e.mode = "GUIDE" /\ e.para = u.para
    BY <1>1, <2>2, <2>3 DEF Sane, Moved
  <2>. QED  BY <2>1, <2>2, <2>4 DEF b, e
<1>4. CASE ~b.menu /\ ~StartsEdit(b)
  <2>1. e = b
    BY <1>1, <1>4, GuideSetFields
  <2>2. Sane(b)
    BY <1>1, <1>2 DEF Sane
  <2>. QED  BY <1>1, <1>4, <2>1, <2>2 DEF b, e
<1>5. CASE ~b.menu /\ StartsEdit(b)
  <2> DEFINE x == Editing(b)
             p == Page(x)
  <2>1. /\ x \in UiState /\ x.main = b.main /\ x.sub = b.sub /\ ~x.menu /\ ~x.blink
        /\ x.set = 0 /\ ~x.cfg /\ x.num = b.num /\ x.idx = 0 /\ x.pidx = b.pidx
        /\ x.para = b.para
    BY <1>1, <1>5, EditingFields
  <2> HIDE DEF x
  <2>2. Cur(x) = Cur(b)
    BY <2>1 DEF Cur
  <2>3. b.num > 0 /\ Kind(Cur(x)) # "info"
    BY <1>1, <1>2, <1>5, <2>2 DEF StartsEdit, ParaNum
  <2>4. Runs(x)
    BY <1>2, <2>1, <2>2 DEF Runs
  <2>5. /\ p \in UiState /\ Displayed(x, p) /\ p.para = x.para
        /\ p.set = 0 /\ ~p.cfg /\ p.edit = Buffer(x)
    BY <2>1, <2>3, <2>4, PageFields
  <2> HIDE DEF p
  <2>6. b.main # 0
    <3>1. Cur(b) = <<b.main, b.sub>> /\ b.sub \in 0 .. 19
      BY <1>1, Fields DEF Cur
    <3>. QED  BY <1>2, <2>2, <2>3, <3>1, Kinded
  <2>7. /\ e \in UiState /\ e.main = p.main /\ e.sub = p.sub /\ e.menu = p.menu
        /\ e.mode = "EDIT" /\ e.set = p.set /\ e.cfg = p.cfg
        /\ e.num = p.num /\ e.idx = p.idx /\ e.pidx = p.pidx
        /\ e.edit = p.edit /\ e.para = p.para /\ e.blink
    BY <1>1, <1>5, <2>6, GuideSetFields DEF p, x
  <2> HIDE DEF e
  <2>8. Cur(e) = Cur(b) /\ Cur(e) = Cur(x)
    BY <2>1, <2>5, <2>7 DEF Cur, Displayed
  <2>9. Sane(e)
    <3>1. e.num = b.num /\ e.idx = 0 /\ e.pidx = b.pidx /\ ~e.menu
      BY <2>1, <2>5, <2>7 DEF Displayed
    <3>. QED  BY <1>1, <1>2, <2>3, <2>5, <2>7, <2>8, <3>1 DEF Sane
  <2>10. e.pidx[Cur(e)] = 0 /\ e.para = u.para
    BY <1>1, <1>2, <2>1, <2>5, <2>7, <2>8 DEF Displayed
  <2>11. e.edit = IF Kind(Cur(e)) = "factory" THEN [i \in Seg |-> 0]
                  ELSE AsShown(e.para[Cur(e)])
    BY <2>1, <2>5, <2>7, <2>8 DEF Buffer, Load
  <2>. QED  BY <2>4, <2>7, <2>9, <2>10, <2>11 DEF b, e, x
<1>. QED  BY <1>3, <1>4, <1>5

(* KEY_UP, KEY_DOWN or no key while editing: the buffer changes, nothing else. *)
LEMMA EditStepSane ==
    ASSUME NEW u \in UiState, Sane(u), u.mode = "EDIT", Cur(u) = Cur(ui),
           long \in Steps
    PROVE  LET b == EditStep(u)
           IN  /\ Runs(Settled(b)) /\ Sane(Shown(b))
               /\ Shown(b).mode = "EDIT" /\ Shown(b).para = u.para
<1> DEFINE b == EditStep(u)
<1>1. /\ b \in UiState /\ Displayed(u, b)
      /\ b.cfg = u.cfg /\ b.edit = u.edit /\ b.para = u.para
  BY EditStepFields
<1> HIDE DEF b
<1>2. Cur(b) = Cur(u)
  BY <1>1 DEF Displayed, Cur
<1>3. Settled(b) = b
  BY <1>2 DEF Settled
<1>4. Kind(Cur(b)) # "info" /\ Cur(b) \in Pages
  BY <1>2 DEF Sane, ParaNum
<1>5. Target(b) \in Seg
  <2>1. CASE Kind(Cur(b)) = "address"
    <3>1. b.idx \in Nat /\ b.idx < Segs
      BY <1>1, <1>2, <1>4, <2>1, Fields DEF Sane, ParaNum, Displayed
    <3>. QED  BY <2>1, <3>1, BoundAssumption DEF Target, Seg
  <2>2. CASE Kind(Cur(b)) # "address"
    BY <2>2, ZeroSeg DEF Target
  <2>. QED  BY <2>1, <2>2
<1>6. Runs(b)
  BY <1>4, <1>5 DEF Runs
<1> DEFINE e == Page(b)
<1>7. Shown(b) = e
  BY <1>1, <1>3 DEF Shown, Displayed, Sane
<1>8. /\ e \in UiState /\ Displayed(b, e) /\ e.para = b.para
      /\ e.set = 0 /\ ~e.cfg
  BY <1>1, <1>4, <1>6, PageFields DEF Sane
<1> HIDE DEF e
<1>9. Cur(e) = Cur(u)
  BY <1>2, <1>8 DEF Displayed, Cur
<1>10. Sane(e)
  BY <1>1, <1>8, <1>9 DEF Sane, Displayed
<1>11. e.mode = "EDIT" /\ e.para = u.para
  BY <1>1, <1>8 DEF Displayed
<1>. QED  BY <1>3, <1>6, <1>7, <1>10, <1>11 DEF b

(* KEY_SET while editing: the page stores its buffer; after its last part it  *)
(* leaves the edit.                                                           *)
LEMMA EditSetSane ==
    ASSUME NEW u \in UiState, Sane(u), u.mode = "EDIT", long \in Steps, Delta = 0
    PROVE  LET b == EditStep(u)
               e == EditSet(b)
           IN  /\ Runs(Advance(b))
               /\ e \in UiState /\ Sane(e)
               /\ e.para = Store(u, u.edit)
<1> DEFINE b == EditStep(u)
<1>1. /\ b \in UiState /\ Displayed(u, b) /\ b.set = 0
      /\ b.cfg = u.cfg /\ b.edit = u.edit /\ b.para = u.para
  BY EditStepFields DEF Sane
<1> HIDE DEF b
<1>2. Cur(b) = Cur(u)
  BY <1>1 DEF Displayed, Cur
<1> DEFINE a == Advance(b)
           n == ParaNum(Cur(u))
           i == u.pidx[Cur(u)]
<1>3. n > 0 /\ n \in Nat /\ i \in Nat /\ i < n /\ Kind(Cur(u)) # "info"
  <2>1. n \in Nat
    BY ParaNums, BoundAssumption
  <2>. QED  BY <2>1, Fields DEF Sane, ParaNum
<1>4. /\ a \in UiState /\ a.main = u.main /\ a.sub = u.sub /\ ~a.menu
      /\ a.mode = "EDIT" /\ a.blink /\ a.set = 0 /\ a.edit = u.edit
      /\ a.para = u.para /\ a.cfg /\ a.num = n
      /\ a.idx = i + 1 /\ a.pidx[Cur(u)] = i + 1
  BY <1>1, <1>2, <1>3, AdvanceFields DEF Sane, Displayed
<1> HIDE DEF a, n, i
<1>5. Cur(a) = Cur(u)
  BY <1>4 DEF Cur
<1>6. Runs(a)
  BY <1>4, <1>5 DEF Runs, Sane
<1>7. Buffer(a) = u.edit /\ Store(a, u.edit) = Store(u, u.edit)
  BY <1>4, <1>5 DEF Buffer, Load, Store
<1> DEFINE p == Page(a)
<1>8. /\ p \in UiState /\ Displayed(a, p) /\ p.set = 0 /\ ~p.cfg
      /\ p.para = Store(u, u.edit)
  BY <1>3, <1>4, <1>5, <1>6, <1>7, PageFields
<1> HIDE DEF p
<1> DEFINE e == EditDone(p)
<1>9. /\ e \in UiState /\ e.main = p.main /\ e.sub = p.sub /\ e.menu = p.menu
      /\ e.set = p.set /\ e.cfg = p.cfg /\ e.num = p.num /\ e.idx = p.idx
      /\ e.pidx = p.pidx /\ e.edit = p.edit /\ e.para = p.para
      /\ p.idx # p.num => e.mode = p.mode /\ e.blink = p.blink
      /\ p.idx = p.num => e.mode = "GUIDE" /\ (p.num # 0 => ~e.blink)
  BY <1>8, EditDoneFields
<1>10. EditSet(b) = e
  BY DEF EditSet, p, a
<1> HIDE DEF e
<1>11. Cur(e) = Cur(u)
  BY <1>4, <1>8, <1>9 DEF Cur, Displayed
<1>12. Sane(e)
  <2>1. Cur(e) \in Pages /\ e.set = 0 /\ ~e.cfg /\ e.num = n /\ e.idx = i + 1
    BY <1>4, <1>8, <1>9, <1>11 DEF Sane, Displayed
  <2>2. CASE i + 1 = n
    <3>1. e.mode = "GUIDE" /\ ~e.blink
      BY <1>3, <1>4, <1>8, <1>9, <2>2 DEF Displayed
    <3>. QED  BY <2>1, <3>1 DEF Sane
  <2>3. CASE i + 1 # n
    <3>1. /\ e.mode = "EDIT" /\ e.blink /\ ~e.menu
          /\ e.pidx[Cur(e)] = i + 1 /\ n = ParaNum(Cur(e))
      BY <1>4, <1>8, <1>9, <1>11, <2>3 DEF Displayed, n
    <3>2. i + 1 < n
      BY <1>3, <2>3
    <3>. QED  BY <1>3, <2>1, <3>1, <3>2 DEF Sane
  <2>. QED  BY <2>2, <2>3
<1>. QED  BY <1>6, <1>8, <1>9, <1>10, <1>12 DEF a, b

(* A pass with at most one key. *)
LEMMA PassGood ==
    ASSUME TypeOK, PanelInv, apart, menu_navigate, apart'
    PROVE  GoodPass
<1> DEFINE u == TimeOut(ui)
           n == Count(ui.main)
           b == BeforeSet(u, n)
           a == AfterSet(u, b)
           c == Settled(a)
           L == {k \in DOMAIN long : u.mode = "EDIT" /\ long[k] > 0}
<1>1. Sane(ui) /\ ui \in UiState /\ n \in 1 .. 20 /\ long \in Steps
  BY Fields, Tables DEF PanelInv, TypeOK
<1>2. /\ u \in UiState /\ Sane(u) /\ u.para = ui.para
      /\ idle = 0 => u = ui
      /\ u.mode = "EDIT" => u = ui
  BY <1>1, TimeOutSane
<1>3. \A j, k \in short \cup L : j = k
  <2>1. Cardinality(short \cup L) <= 1
    BY Pass
  <2>2. short \cup L \in SUBSET Keys
    BY DEF TypeOK, Steps, Keys
  <2> HIDE DEF L
  <2>. QED  BY <2>1, <2>2, OneKey
<1>4. ui' = Shown(a)
  BY Pass
<1>5. wild' = \E x \in CalledBySet(u, b) \cup (IF c.menu THEN {} ELSE {c}) : ~Runs(x)
  BY Pass
<1> HIDE DEF u, n, b, a, c, L
<1>6. CASE u.mode = "GUIDE"
  <2>1. short # {} => n = Count(u.main)
    BY <1>2 DEF PanelInv, n
  <2> ~(ui.mode = "EDIT" /\ short = {"SET"})
    BY <1>2, <1>6 DEF PanelInv
  <2>2. /\ b \in UiState /\ Sane(b) /\ b.mode = "GUIDE" /\ b.para = ui.para
        /\ "SET" \in short => b = GuideEntry(u)
    <3>1. \A j, k \in short : j = k
      BY <1>3
    <3>. QED  BY <1>1, <1>2, <1>6, <2>1, <3>1, GuidePass DEF b
  <2>3. CASE "SET" \notin short
    <3>1. a = b /\ CalledBySet(u, b) = {}
      BY <2>3 DEF a, AfterSet, CalledBySet
    <3>2. Runs(c) /\ Sane(ui') /\ ui'.para = ui.para /\ ui'.mode = "GUIDE"
      BY <1>4, <2>2, <3>1, ShownSane DEF c, Displayed
    <3>3. ~wild'
      BY <1>5, <3>1, <3>2
    <3>. QED  BY <3>2, <3>3 DEF GoodPass, StoredRight, Started
  <2>4. CASE "SET" \in short
    <3>1. a = GuideSet(b)
      BY <1>6, <2>4 DEF a, AfterSet
    <3>2. CalledBySet(u, b) = {x \in {Editing(b)} : StartsEdit(b)}
      BY <1>6, <2>4 DEF CalledBySet, Editing
    <3>3. /\ a \in UiState /\ Sane(a) /\ a.para = ui.para
          /\ StartsEdit(b) => Runs(Editing(b))
          /\ a.mode = "EDIT" =>
                /\ a.pidx[Cur(a)] = 0
                /\ a.edit = IF Kind(Cur(a)) = "factory" THEN [i \in Seg |-> 0]
                            ELSE AsShown(a.para[Cur(a)])
      BY <1>2, <1>6, <2>2, <2>4, <3>1, GuideSetSane
    <3>4. /\ Runs(c) /\ Sane(ui') /\ Displayed(a, ui') /\ ui'.para = a.para
          /\ a.mode = "EDIT" => ui'.edit = a.edit
      BY <1>4, <3>3, ShownSane DEF c
    <3>5. ~wild'
      BY <1>5, <3>2, <3>3, <3>4
    <3>6. Cur(ui') = Cur(a) /\ ui'.mode = a.mode /\ ui'.pidx = a.pidx
      BY <3>4 DEF Displayed, Cur
    <3>7. Started
      BY <2>4, <3>3, <3>4, <3>6 DEF Started, Sane
    <3>. QED  BY <3>3, <3>4, <3>5, <3>7 DEF GoodPass, StoredRight
  <2>. QED  BY <2>3, <2>4
<1>7. CASE u.mode = "EDIT"
  <2>1. u = ui /\ ui.mode = "EDIT"
    BY <1>2, <1>7
  <2>2. Started
    BY <2>1 DEF Started
  <2>3. CASE "RIGHT" \in short
    <3>1. a = EditRight(u) /\ CalledBySet(u, b) = {}
      BY <1>7, <2>3 DEF a, b, AfterSet, BeforeSet, CalledBySet, Edits, If
    <3>2. /\ a \in UiState /\ a.main \in Mains /\ a.sub = 0 /\ ~a.blink
          /\ a.mode = "GUIDE" /\ a.set = 0 /\ ~a.cfg /\ a.para = ui.para
      BY <1>2, <3>1, EditRightFields DEF Sane
    <3>3. Sane(a)
      BY <3>2, Tables DEF Sane, Cur
    <3>4. Runs(c) /\ Sane(ui') /\ ui'.para = ui.para
      BY <1>4, <3>2, <3>3, ShownSane DEF c
    <3>5. ~wild'
      BY <1>5, <3>1, <3>4
    <3>. QED  BY <2>2, <2>3, <3>4, <3>5 DEF GoodPass, StoredRight
  <2>4. CASE "RIGHT" \notin short /\ "SET" \notin short
    <3>1. a = EditStep(u) /\ CalledBySet(u, b) = {}
      BY <1>7, <2>4 DEF a, b, AfterSet, BeforeSet, CalledBySet, If
    <3>2. Runs(c) /\ Sane(ui') /\ ui'.para = ui.para
      BY <1>1, <1>2, <1>4, <1>7, <2>1, <3>1, EditStepSane DEF c
    <3>3. ~wild'
      BY <1>5, <3>1, <3>2
    <3>. QED  BY <2>2, <2>4, <3>2, <3>3 DEF GoodPass, StoredRight
  <2>5. CASE "RIGHT" \notin short /\ "SET" \in short
    <3>1. short = {"SET"} /\ L \subseteq {"SET"}
      BY <1>3, <2>5
    <3>2. Delta = 0
      <4>1. /\ DOMAIN long = {"UP", "DOWN"}
            /\ long["UP"] \in {0, 1, LongStep} /\ long["DOWN"] \in {0, 1, LongStep}
        BY <1>1 DEF Steps
      <4>2. "UP" \notin L /\ "DOWN" \notin L
        BY <3>1
      <4>3. ~(long["UP"] > 0) /\ ~(long["DOWN"] > 0)
        BY <1>7, <4>1, <4>2 DEF L
      <4>. QED  BY <3>1, <4>3 DEF Delta
    <3>3. /\ b = EditStep(u) /\ a = EditSet(b)
          /\ CalledBySet(u, b) = {x \in {Advance(b)} : TRUE}
      BY <1>7, <2>5 DEF a, b, AfterSet, BeforeSet, CalledBySet, Edits, If
    <3>4. /\ Runs(Advance(b)) /\ a \in UiState /\ Sane(a)
          /\ a.para = Store(ui, ui.edit)
      BY <1>1, <1>2, <1>7, <2>1, <3>2, <3>3, EditSetSane
    <3>5. Runs(c) /\ Sane(ui') /\ ui'.para = a.para
      BY <1>4, <3>4, ShownSane DEF c
    <3>6. ~wild'
      BY <1>5, <3>3, <3>4, <3>5
    <3>. QED  BY <2>1, <2>2, <3>1, <3>4, <3>5, <3>6 DEF GoodPass, StoredRight
  <2>. QED  BY <2>3, <2>4, <2>5
<1>. QED  BY <1>2, <1>6, <1>7, Fields

-----------------------------------------------------------------------------
(* PanelInv is inductive. *)
LEMMA InitPanel == Init => PanelInv
<1> SUFFICES ASSUME Init PROVE PanelInv
  OBVIOUS
<1>1. Sane(ui)
  <2>1. Cur(ui) = <<0, 0>>
    BY DEF Init, Cur
  <2>. QED  BY <2>1, Tables DEF Init, Sane
<1>. QED  BY <1>1 DEF Init, PanelInv

LEMMA PanelInductive == TypeOK /\ PanelInv /\ [Next]_vars => PanelInv'
<1> SUFFICES ASSUME TypeOK, PanelInv, [Next]_vars PROVE PanelInv'
  OBVIOUS
<1>1. CASE KeyScan
  <2>1. PICK s \in SUBSET Keys, l \in Steps, other \in BOOLEAN : key_task(s, l, other)
    BY <1>1 DEF KeyScan
  <2>2. turn = "scan" /\ turn' = "ui" /\ UNCHANGED <<ui, wild, apart>>
    BY <2>1 DEF key_task
  <2>3. short' = s /\ (s # {} => idle' = 0)
    BY <2>1, <2>2 DEF key_task, PanelInv
  <2>4. Sane(ui)' <=> Sane(ui)
    BY <2>2 DEF Sane, Cur
  <2>5. ~wild
    BY <2>1 DEF key_task
  <2>. QED  BY <2>2, <2>3, <2>4, <2>5 DEF PanelInv
<1>2. CASE KeyFail
  BY <1>2 DEF KeyFail, PanelInv, Sane, Cur
<1>3. CASE ui_task
  <2>1. short' = {} /\ (apart' => apart)
    BY <1>3, Pass DEF ui_task
  <2>2. apart' => ~wild' /\ Sane(ui')
    BY <1>3, <2>1, PassGood DEF ui_task, GoodPass
  <2>3. turn' = "scan"
    BY <1>3 DEF ui_task
  <2>. QED  BY <2>1, <2>2, <2>3 DEF PanelInv
<1>4. CASE SetLock
  BY <1>4 DEF SetLock, PanelInv, Sane, Cur
<1>5. CASE Reset
  <2>1. short' = {} /\ ~wild'
    BY <1>5 DEF Reset
  <2>2. Sane(ui')
    <3>1. Cur(ui') = <<0, 0>>
      BY <1>5 DEF Reset, Cur
    <3>. QED  BY <1>5, <3>1, Tables DEF Reset, Sane
  <2>. QED  BY <2>1, <2>2 DEF PanelInv
<1>6. CASE UNCHANGED vars
  BY <1>6 DEF vars, PanelInv, Sane, Cur
<1>7. CASE SetParameter
  <2>1. Displayed(ui, ui') /\ ui'.set = ui.set /\ ui'.cfg = ui.cfg
    BY <1>7, SetParameterFields DEF TypeOK
  <2>2. Sane(ui) => Sane(ui')
    BY <2>1 DEF Displayed, Sane, Cur
  <2>. QED  BY <1>7, <2>2 DEF SetParameter, PanelInv
<1>. QED  BY <1>1, <1>2, <1>3, <1>4, <1>5, <1>6, <1>7 DEF Next

(* menu_navigate, for every table of menus: with one key at a time it never   *)
(* calls a page that does not exist and no address page writes beyond its     *)
(* parts.                                                                     *)
THEOREM PagesAlwaysExist == Spec => []PagesExist
<1>1. PanelInv => PagesExist
  BY DEF PanelInv, PagesExist
<1>. QED  BY <1>1, InitPanel, PanelInductive, TypeCorrect, PTL DEF Spec

(* What a pass that may change parameters or begin an edit does. *)
LEMMA StepGood ==
    ASSUME TypeOK, PanelInv, [Next]_vars, apart', ~wild
    PROVE  \/ ui_task /\ GoodPass
           \/ ui'.mode = ui.mode /\ ~(turn = "ui" /\ turn' = "scan")
<1>1. CASE ui_task
  <2>1. apart
    BY <1>1, Pass DEF ui_task
  <2>. QED  BY <1>1, <2>1, PassGood DEF ui_task
<1>2. CASE KeyScan
  BY <1>2 DEF KeyScan, key_task
<1>3. CASE KeyFail \/ SetLock \/ Reset \/ UNCHANGED vars
  BY <1>3 DEF KeyFail, SetLock, Reset, vars
<1>4. CASE SetParameter
  <2>1. Displayed(ui, ui')
    BY <1>4, SetParameterFields DEF TypeOK
  <2>. QED  BY <1>4, <2>1 DEF SetParameter, Displayed
<1>. QED  BY <1>1, <1>2, <1>3, <1>4 DEF Next

(* menu_navigate and the pages of display.c, for every table of menus, range  *)
(* of values, set of supported rates and commands in between: with one key at *)
(* a time a pass stores exactly when KEY_SET is pressed in an edit, only the  *)
(* parameter of the page on display, and what the page showed; a rate the     *)
(* port does not support is replaced and the narrow-band mode stays.          *)
THEOREM OnlyShownIsStored == Spec => StoresWhatIsShown
<1> DEFINE Shows ==
        ui'.para =
          IF ui.mode = "EDIT" /\ short = {"SET"}
          THEN CASE Kind(Cur(ui)) = "factory" -> Default
                 [] Kind(Cur(ui)) = "mode" /\ ui.para[Cur(ui)][0] = NarrowBand -> ui.para
                 [] Kind(Cur(ui)) = "baud" /\ ui.edit[0] \notin Rates ->
                      [ui.para EXCEPT ![Cur(ui)] = [ui.edit EXCEPT ![0] = MaxVal]]
                 [] OTHER -> [ui.para EXCEPT ![Cur(ui)] = ui.edit]
          ELSE ui.para
<1>1. TypeOK /\ PanelInv /\ [Next]_vars =>
        [turn = "ui" /\ turn' = "scan" /\ apart' => Shows]_vars
  <2> SUFFICES ASSUME TypeOK, PanelInv, [Next]_vars,
                      turn = "ui", turn' = "scan", apart'
               PROVE  Shows
    OBVIOUS
  <2>1. ~wild
    <3>1. CASE Reset
      BY <3>1 DEF Reset, PanelInv
    <3>2. CASE UNCHANGED vars
      BY <3>2 DEF vars
    <3>3. CASE KeyScan \/ KeyFail \/ ui_task \/ SetLock \/ SetParameter
      BY <3>3 DEF KeyScan, key_task, KeyFail, ui_task, SetLock, SetParameter
    <3>. QED  BY <3>1, <3>2, <3>3 DEF Next
  <2>2. StoredRight
    BY <2>1, StepGood DEF GoodPass
  <2>3. ui.para \in [Pages -> Stored]
    BY Fields DEF TypeOK
  <2>4. CASE Kind(Cur(ui)) = "mode" /\ ui.para[Cur(ui)][0] = NarrowBand
    BY <2>2, <2>3, <2>4 DEF StoredRight, Store, AsStored
  <2>5. CASE ~(Kind(Cur(ui)) = "mode" /\ ui.para[Cur(ui)][0] = NarrowBand)
    BY <2>2, <2>3, <2>5 DEF StoredRight, Store, AsStored
  <2>. QED  BY <2>4, <2>5
<1>. QED  BY <1>1, InitPanel, PanelInductive, TypeCorrect, PTL
          DEF Spec, StoresWhatIsShown

(* menu_navigate: an edit begins with the stored value of its own page, at    *)
(* its first part, and with no key left over from navigating.                 *)
THEOREM EditsStartClean == Spec => EditStartsClean
<1>1. TypeOK /\ PanelInv /\ [Next]_vars =>
        [apart' /\ ui.mode = "GUIDE" /\ ui'.mode = "EDIT" =>
           /\ ui'.blink /\ ui'.pidx[Cur(ui')] = 0
           /\ ui'.edit = IF Kind(Cur(ui')) = "factory" THEN [i \in Seg |-> 0]
                         ELSE AsShown(ui'.para[Cur(ui')])
           /\ short' = {} /\ \A k \in DOMAIN long : long'[k] = 0]_vars
  <2> SUFFICES ASSUME TypeOK, PanelInv, [Next]_vars, apart',
                      ui.mode = "GUIDE", ui'.mode = "EDIT"
               PROVE  /\ ui'.blink /\ ui'.pidx[Cur(ui')] = 0
                      /\ ui'.edit = IF Kind(Cur(ui')) = "factory"
                                    THEN [i \in Seg |-> 0] ELSE AsShown(ui'.para[Cur(ui')])
                      /\ short' = {} /\ \A k \in DOMAIN long : long'[k] = 0
    OBVIOUS
  <2>1. ~wild
    <3>1. CASE Reset
      BY <3>1 DEF Reset
    <3>2. CASE UNCHANGED vars
      BY <3>2 DEF vars
    <3>3. CASE KeyScan \/ KeyFail \/ ui_task \/ SetLock \/ SetParameter
      BY <3>3 DEF KeyScan, key_task, KeyFail, ui_task, SetLock, SetParameter
    <3>. QED  BY <3>1, <3>2, <3>3 DEF Next
  <2>2. ui_task /\ GoodPass
    BY <2>1, StepGood
  <2>3. short' = {} /\ ("SET" \in short => long' = [k \in DOMAIN long |-> 0])
    BY <2>2, Pass DEF ui_task
  <2>. QED  BY <2>2, <2>3 DEF GoodPass, Started
<1>. QED  BY <1>1, InitPanel, PanelInductive, TypeCorrect, PTL
          DEF Spec, EditStartsClean
=============================================================================
