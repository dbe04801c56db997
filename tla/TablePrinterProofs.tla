------------------------- MODULE TablePrinterProofs -------------------------
(***************************************************************************)
(* Proofs about TablePrinter, for any resources, plans and events.         *)
(***************************************************************************)
EXTENDS TablePrinter, WellFoundedInduction, TLAPS

LEMMA MaxIn ==
  ASSUME NEW n \in Nat, NEW S \in SUBSET (1..n), S # {}
  PROVE  Max(S) \in S /\ \A k \in S : k <= Max(S)
  <1> DEFINE T == {n - k : k \in S}
             R == OpToRel(<, Nat)
  <1>1. T \subseteq Nat /\ T # {}
    <2>1. \A k \in S : n - k \in Nat
      OBVIOUS
    <2>2. PICK k \in S : TRUE
      OBVIOUS
    <2>3. n - k \in T
      BY <2>2
    <2> QED BY <2>1, <2>3
  <1>2. PICK x \in T : \A y \in T : ~ (<<y, x>> \in R)
    <2> HIDE DEF T, R
    <2> QED BY <1>1, WFMin, NatLessThanWellFounded DEF R
  <1>3. PICK m \in S : x = n - m
    BY <1>2
  <1>4. \A k \in S : ~ (n - k < n - m)
    <2> SUFFICES ASSUME NEW k \in S, n - k < n - m
                 PROVE  FALSE
      OBVIOUS
    <2>1. n - k \in T /\ n - k \in Nat /\ n - m \in Nat
      OBVIOUS
    <2>2. <<n - k, n - m>> \in R
      BY <2>1 DEF OpToRel
    <2> QED BY <1>2, <1>3, <2>1, <2>2
  <1>5. \A k \in S : m >= k
    BY <1>4
  <1> QED BY <1>5 DEF Max

-----------------------------------------------------------------------------
(* The inductive invariant *)

TypeInv ==
  /\ rows \in [Ids -> Rows \union {NoRow}]
  /\ failures \in Nat
  /\ seen \in Seq(Events)
  /\ main \in {"init", "start", "listen", "drain", "join", "returned"}
  /\ listener \in {"off", "receive", "report", "closed"}
  /\ loop \in {"off", "select", "print", "last", "closed"}
  /\ ch \in {"open", "closed"} /\ stop \in BOOLEAN /\ err \in BOOLEAN

(* Who runs when.  The rows do not change once the listener has ended, and  *)
(* the print loop is stopped only then.                                     *)
PhaseInv ==
  /\ listener = "off" => seen = <<>> /\ failures = 0 /\ ~err
  /\ main \in {"init", "start", "listen"} => listener = "off"
  /\ main \in {"init", "start"} => loop = "off"
  /\ main = "join" => listener = "closed"
  /\ stop => listener = "closed"
  /\ loop = "last" => stop /\ snapshot = rows
  /\ loop = "closed" => stop /\ table = rows

(* The listener ends with the channel, or with an error that Print has.     *)
ErrorInv ==
  /\ \A n \in DOMAIN seen : seen[n] \in FatalEvents => listener = "report" \/ err
  /\ err => listener = "closed"
  /\ listener = "closed" /\ ~err => ch = "closed"

(* The stats count the failures of the resources that have a row.           *)
SomeFailed == \E n \in DOMAIN seen : Failing(seen[n]) /\ rows[seen[n].id] # NoRow

CountInv == failures > 0 <=> SomeFailed

ResultInv ==
  /\ result = "nil" => listener = "closed" /\ ~err /\ failures = 0
  /\ result = "failed" => listener = "closed" /\ ~err /\ failures > 0

(* A row holds the last result of either action.                            *)
ShowInv ==
  \A i \in Ids : rows[i] # NoRow =>
    rows[i].apply = ShouldShow(i, "apply") /\ rows[i].prune = ShouldShow(i, "prune")

IndInv == TypeInv /\ PhaseInv /\ ErrorInv /\ CountInv /\ ResultInv /\ ShowInv

-----------------------------------------------------------------------------
(* The rows of a plan: one for each resource announced, with no result yet. *)
LEMMA NewRowsType ==
  ASSUME NEW p \in Plans
  PROVE  /\ NewRows(p) \in [Ids -> Rows \union {NoRow}]
         /\ \A i \in Ids : NewRows(p)[i] # NoRow =>
              NewRows(p)[i].apply = "Pending" /\ NewRows(p)[i].prune = "Pending"
  <1>1. p \in Seq([action : Actions, ids : SUBSET Ids])
    BY TablePrinterAssumption
  <1> SUFFICES ASSUME NEW i \in Ids
               PROVE  \/ NewRows(p)[i] = NoRow
                      \/ /\ NewRows(p)[i] \in Rows
                         /\ NewRows(p)[i].apply = "Pending" /\ NewRows(p)[i].prune = "Pending"
    BY DEF NewRows
  <1> DEFINE g == {n \in DOMAIN p : p[n].action # "Wait" /\ i \in p[n].ids}
  <1>2. CASE g = {}
    BY <1>2 DEF NewRows
  <1>3. CASE g # {}
    <2>1. Len(p) \in Nat /\ g \in SUBSET (1..Len(p))
      BY <1>1
    <2>2. Max(g) \in g
      <3> HIDE DEF g
      <3> QED BY <1>3, <2>1, MaxIn
    <2>3. p[Max(g)] \in [action : Actions, ids : SUBSET Ids]
      <3> DEFINE G == [action : Actions, ids : SUBSET Ids]
      <3>1. \A n \in DOMAIN p : p[n] \in G
        <4>1. p \in Seq(G)
          BY <1>1
        <4> HIDE DEF G
        <4> QED BY <4>1
      <3> QED BY <2>2, <3>1
    <2>4. NewRows(p)[i] = [action |-> p[Max(g)].action, status |-> "Unknown",
                           apply |-> "Pending", prune |-> "Pending", wait |-> "Pending"]
      BY <1>3 DEF NewRows
    <2> QED BY <2>3, <2>4 DEF Rows, Results, WaitResults
  <1> QED BY <1>2, <1>3

(* An event changes the row of its resource, if there is one.               *)
LEMMA ProcessType ==
  ASSUME TypeInv, NEW e \in Events
  PROVE  /\ ProcessEvent(e) \in [Ids -> Rows \union {NoRow}]
         /\ \A i \in Ids :
              /\ ProcessEvent(e)[i] = NoRow <=> rows[i] = NoRow
              /\ rows[i] # NoRow =>
                   /\ ProcessEvent(e)[i].action = rows[i].action
                   /\ ProcessEvent(e)[i].apply = IF e.type = "apply" /\ e.id = i THEN e.status ELSE rows[i].apply
                   /\ ProcessEvent(e)[i].prune = IF e.type = "prune" /\ e.id = i THEN e.status ELSE rows[i].prune
  <1>1. CASE ~Known(e)
    BY <1>1 DEF ProcessEvent, TypeInv, Known
  <1>2. CASE Known(e)
    <2>0. e.id \in Ids /\ rows[e.id] \in Rows /\ NoRow \notin Rows
      BY <1>2, NoRowAssumption DEF Known, TypeInv
    <2>1. CASE e \in ApplyEvents
      <3>1. e.type = "apply" /\ e.status \in Results
        BY <2>1 DEF ApplyEvents
      <3>2. ProcessEvent(e) = [rows EXCEPT ![e.id].apply = e.status]
        BY <1>2, <3>1 DEF ProcessEvent, ProcessApply
      <3> QED BY <2>0, <3>1, <3>2 DEF TypeInv, Rows
    <2>2. CASE e \in PruneEvents
      <3>1. e.type = "prune" /\ e.status \in Results
        BY <2>2 DEF PruneEvents
      <3>2. ProcessEvent(e) = [rows EXCEPT ![e.id].prune = e.status]
        BY <1>2, <3>1 DEF ProcessEvent, ProcessPrune
      <3> QED BY <2>0, <3>1, <3>2 DEF TypeInv, Rows
    <2>3. CASE e \in WaitEvents
      <3>1. e.type = "wait" /\ e.status \in WaitResults
        BY <2>3, TablePrinterAssumption DEF WaitEvents
      <3>2. ProcessEvent(e) = [rows EXCEPT ![e.id].wait = e.status]
        BY <1>2, <3>1 DEF ProcessEvent, ProcessWait
      <3> QED BY <2>0, <3>1, <3>2 DEF TypeInv, Rows
    <2>4. CASE e \in StatusEvents
      <3>1. e.type = "status" /\ e.status \in Statuses
        BY <2>4 DEF StatusEvents
      <3>2. ProcessEvent(e) = [rows EXCEPT ![e.id].status = e.status]
        BY <1>2, <3>1 DEF ProcessEvent, ProcessStatus
      <3> QED BY <2>0, <3>1, <3>2 DEF TypeInv, Rows
    <2>5. CASE e \in ValidationEvents
      <3>1. e.type = "validation"
        BY <2>5 DEF ValidationEvents
      <3>2. ProcessEvent(e) = [rows EXCEPT ![e.id].status = "Invalid"]
        BY <1>2, <3>1 DEF ProcessEvent, ProcessValidation
      <3> QED BY <2>0, <3>1, <3>2 DEF TypeInv, Rows
    <2>6. CASE e \in FatalEvents
      BY <2>0, <2>6, NoRowAssumption DEF FatalEvents
    <2> QED BY <2>1, <2>2, <2>3, <2>4, <2>5, <2>6 DEF Events
  <1> QED BY <1>1, <1>2

(* What a row should show, after one more event.                            *)
LEMMA ShowNext ==
  ASSUME TypeInv, NEW e \in Events, seen' = Append(seen, e), NEW i \in Ids, NEW a
  PROVE  ShouldShow(i, a)' = IF e.type = a /\ e.id = i THEN e.status ELSE ShouldShow(i, a)
  <1>0. /\ seen \in Seq(Events) /\ Len(seen) \in Nat /\ DOMAIN seen = 1..Len(seen)
        /\ DOMAIN seen' = 1..(Len(seen) + 1) /\ seen'[Len(seen) + 1] = e
        /\ \A n \in 1..Len(seen) : seen'[n] = seen[n]
    BY DEF TypeInv
  <1> DEFINE own == EventsOf(a, i)
             new == EventsOf(a, i)'
  <1>1. own \in SUBSET (1..Len(seen)) /\ new \in SUBSET (1..(Len(seen) + 1))
    BY <1>0 DEF EventsOf
  <1>2. CASE e.type = a /\ e.id = i
    <2>1. Len(seen) + 1 \in new
      BY <1>0, <1>2 DEF EventsOf
    <2>2. Max(new) = Len(seen) + 1
      <3> HIDE DEF new
      <3>1. Len(seen) + 1 \in Nat /\ new # {}
        BY <1>0, <2>1
      <3>2. Max(new) \in new /\ \A k \in new : k <= Max(new)
        BY <1>1, <3>1, MaxIn
      <3>3. Max(new) \in 1..(Len(seen) + 1) /\ Len(seen) + 1 <= Max(new)
        BY <1>1, <2>1, <3>2
      <3> QED BY <3>1, <3>3
    <2>3. ShouldShow(i, a)' = seen'[Max(new)].status
      BY <2>1 DEF ShouldShow
    <2> QED BY <1>0, <1>2, <2>2, <2>3
  <1>3. CASE ~(e.type = a /\ e.id = i)
    <2>1. new = own
      BY <1>0, <1>3 DEF EventsOf
    <2>2. own # {} => Max(own) \in own
      <3> HIDE DEF own
      <3> QED BY <1>0, <1>1, MaxIn
    <2>3. own # {} => seen'[Max(own)] = seen[Max(own)]
      BY <1>0, <1>1, <2>2
    <2>4. ShouldShow(i, a)' = IF new = {} THEN "Pending" ELSE seen'[Max(new)].status
      BY DEF ShouldShow
    <2> QED BY <1>3, <2>1, <2>3, <2>4 DEF ShouldShow
  <1> QED BY <1>2, <1>3

-----------------------------------------------------------------------------
(* The steps *)

LEMMA InitInv == Init => IndInv
  <1> SUFFICES ASSUME Init
               PROVE  IndInv
    OBVIOUS
  <1>1. TypeInv
    <2>1. seen \in Seq(Events)
      BY DEF Init
    <2>2. rows \in [Ids -> Rows \union {NoRow}]
      BY DEF Init, NoTable
    <2> QED BY <2>1, <2>2 DEF Init, TypeInv
  <1>2. PhaseInv /\ ErrorInv /\ ResultInv
    BY DEF Init, PhaseInv, ErrorInv, ResultInv
  <1>3. CountInv
    BY DEF Init, CountInv, SomeFailed
  <1>4. ShowInv
    BY DEF Init, ShowInv, NoTable
  <1> QED BY <1>1, <1>2, <1>3, <1>4 DEF IndInv

(* Steps that leave the rows and the events processed alone.                *)
LEMMA SameRows ==
  ASSUME CountInv, ShowInv, UNCHANGED <<rows, failures, seen>>
  PROVE  CountInv' /\ ShowInv'
  BY DEF CountInv, SomeFailed, ShowInv, ShouldShow, EventsOf

LEMMA ApplierStep ==
  ASSUME IndInv, Close \/ \E e \in Events : AwaitInit(e)
  PROVE  IndInv'
  <1>1. /\ UNCHANGED <<listener, loop, snapshot, table, stop, rows, failures, err, seen>>
        /\ ch' \in {ch, "closed"}
        /\ \/ UNCHANGED <<main, result>>
           \/ main = "init" /\ main' = "returned" /\ result' = "fatal"
    BY DEF Close, AwaitInit, Sends, printer
  <1>2. TypeInv' /\ PhaseInv' /\ ErrorInv' /\ ResultInv'
    BY <1>1 DEF IndInv, TypeInv, PhaseInv, ErrorInv, ResultInv
  <1> QED BY <1>1, <1>2, SameRows DEF IndInv

LEMMA ReceiveInitStep ==
  ASSUME IndInv, NEW p \in Plans, ReceiveInit(p)
  PROVE  IndInv'
  <1>1. /\ UNCHANGED <<ch, listener, loop, snapshot, table, stop, failures, err, result, seen>>
        /\ main = "init" /\ main' = "start" /\ rows' = NewRows(p)
    BY DEF ReceiveInit, printer
  <1>2. listener = "off" /\ loop = "off" /\ seen = <<>> /\ failures = 0
    BY <1>1 DEF IndInv, PhaseInv
  <1>3. TypeInv'
    BY <1>1, NewRowsType DEF IndInv, TypeInv
  <1>4. PhaseInv' /\ ErrorInv' /\ ResultInv'
    BY <1>1, <1>2 DEF IndInv, PhaseInv, ErrorInv, ResultInv
  <1>5. CountInv'
    BY <1>1, <1>2 DEF CountInv, SomeFailed
  <1>6. ShowInv'
    <2>1. \A i, a : ShouldShow(i, a)' = "Pending"
      BY <1>1, <1>2 DEF ShouldShow, EventsOf
    <2> QED BY <1>1, <2>1, NewRowsType DEF ShowInv
  <1> QED BY <1>3, <1>4, <1>5, <1>6 DEF IndInv

LEMMA PrintStep ==
  ASSUME IndInv, ClosedBeforeInit \/ RunPrintLoop \/ Listen \/ ShutDown \/ Join
  PROVE  IndInv'
  <1>0. UNCHANGED <<ch, rows, failures, err, seen, snapshot>>
    BY DEF ClosedBeforeInit, RunPrintLoop, Listen, ShutDown, Join, printer
  <1>1. TypeInv'
    BY DEF ClosedBeforeInit, RunPrintLoop, Listen, ShutDown, Join, printer, IndInv, TypeInv
  <1>2. PhaseInv'
    BY DEF ClosedBeforeInit, RunPrintLoop, Listen, ShutDown, Join, printer, IndInv, PhaseInv
  <1>3. ErrorInv'
    BY DEF ClosedBeforeInit, RunPrintLoop, Listen, ShutDown, Join, printer, IndInv, PhaseInv, ErrorInv
  <1>4. ResultInv'
    BY DEF ClosedBeforeInit, RunPrintLoop, Listen, ShutDown, Join, printer, IndInv, TypeInv, PhaseInv, ResultInv
  <1> QED BY <1>0, <1>1, <1>2, <1>3, <1>4, SameRows DEF IndInv

LEMMA ReceiveStep ==
  ASSUME IndInv, NEW e \in Events, Receive(e)
  PROVE  IndInv'
  <1>0. TypeInv /\ PhaseInv /\ ErrorInv /\ CountInv /\ ResultInv /\ ShowInv
    BY DEF IndInv
  <1>1. /\ listener = "receive" /\ rows' = ProcessEvent(e) /\ failures' = Stats(e) /\ seen' = Append(seen, e)
        /\ listener' = (IF e \in FatalEvents THEN "report" ELSE "receive")
        /\ UNCHANGED <<ch, main, loop, snapshot, table, stop, err, result>> /\ Announced(e)
    BY DEF Receive, Sends, printer
  <1>2. /\ seen \in Seq(Events) /\ Len(seen) \in Nat /\ DOMAIN seen = 1..Len(seen)
        /\ DOMAIN seen' = 1..(Len(seen) + 1) /\ seen'[Len(seen) + 1] = e
        /\ \A n \in 1..Len(seen) : seen'[n] = seen[n] /\ seen[n] \in Events
    BY <1>0, <1>1 DEF TypeInv
  <1>3. TypeInv'
    <2>1. seen' \in Seq(Events)
      BY <1>1, <1>2
    <2>2. failures' \in Nat
      BY <1>0, <1>1 DEF TypeInv, Stats
    <2> QED BY <1>0, <1>1, <2>1, <2>2, ProcessType DEF TypeInv
  <1>4. PhaseInv'
    BY <1>0, <1>1 DEF PhaseInv, TypeInv
  <1>5. ErrorInv'
    BY <1>0, <1>1, <1>2 DEF ErrorInv
  <1>6. ResultInv'
    BY <1>0, <1>1 DEF ResultInv
  <1>7. CountInv'
    <2>1. \A i \in Ids : rows'[i] = NoRow <=> rows[i] = NoRow
      BY <1>0, <1>1, ProcessType
    <2>2. \A x \in Events : Failing(x) => x.id \in Ids
      BY DEF Failing, Events, ApplyEvents, PruneEvents, WaitEvents, StatusEvents, ValidationEvents, FatalEvents
    <2>3. failures' = IF Failing(e) /\ rows[e.id] # NoRow THEN failures + 1 ELSE failures
      BY <1>1, <2>2 DEF Stats, Known
    <2>4. SomeFailed' <=> SomeFailed \/ (Failing(e) /\ rows[e.id] # NoRow)
      BY <1>2, <2>1, <2>2 DEF SomeFailed
    <2> QED BY <1>0, <2>3, <2>4 DEF CountInv, TypeInv
  <1>8. ShowInv'
    BY <1>0, <1>1, ProcessType, ShowNext DEF ShowInv
  <1> QED BY <1>3, <1>4, <1>5, <1>6, <1>7, <1>8 DEF IndInv

LEMMA ListenerStep ==
  ASSUME IndInv, Report \/ ListenerEnds
  PROVE  IndInv'
  <1>1. /\ UNCHANGED <<ch, main, loop, snapshot, table, stop, rows, failures, result, seen>>
        /\ listener' = "closed" /\ listener \in {"report", "receive"}
        /\ \/ err' = TRUE /\ main = "drain"
           \/ err' = err /\ ch = "closed" /\ listener = "receive"
    BY DEF Report, ListenerEnds, printer
  <1>2. TypeInv' /\ PhaseInv' /\ ErrorInv' /\ ResultInv'
    BY <1>1 DEF IndInv, TypeInv, PhaseInv, ErrorInv, ResultInv
  <1> QED BY <1>1, <1>2, SameRows DEF IndInv

LEMMA LoopStep ==
  ASSUME IndInv, Tick \/ SelectTick \/ SelectStop \/ PrintTable
  PROVE  IndInv'
  <1>1. UNCHANGED <<ch, main, listener, stop, rows, failures, err, result, seen>>
    BY DEF Tick, SelectTick, SelectStop, PrintTable
  <1>2. TypeInv'
    BY <1>1 DEF Tick, SelectTick, SelectStop, PrintTable, IndInv, TypeInv
  <1>3. PhaseInv'
    BY <1>1 DEF Tick, SelectTick, SelectStop, PrintTable, IndInv, PhaseInv
  <1>4. ErrorInv' /\ ResultInv'
    BY <1>1 DEF IndInv, ErrorInv, ResultInv
  <1> QED BY <1>1, <1>2, <1>3, <1>4, SameRows DEF IndInv

LEMMA NextInv == IndInv /\ [Next]_vars => IndInv'
  <1> SUFFICES ASSUME IndInv, [Next]_vars
               PROVE  IndInv'
    OBVIOUS
  <1>1. CASE UNCHANGED vars
    <2>1. UNCHANGED <<ch, main, listener, loop, snapshot, table, stop, rows, failures, err, result, seen>>
      BY <1>1 DEF vars, printer
    <2>2. TypeInv' /\ PhaseInv' /\ ErrorInv' /\ ResultInv'
      BY <2>1 DEF IndInv, TypeInv, PhaseInv, ErrorInv, ResultInv
    <2> QED BY <2>1, <2>2, SameRows DEF IndInv
  <1> QED
    BY <1>1, ApplierStep, ReceiveInitStep, PrintStep, ReceiveStep, ListenerStep, LoopStep
    DEF Next, Returned

-----------------------------------------------------------------------------
(* Print's result says what the listener saw: the rows, the stats and the   *)
(* error are written by one goroutine and read by another, and Join reads   *)
(* them after the listener has ended (Printer.Print).                       *)
THEOREM HonestResultHolds == Spec => []HonestResult
  <1>1. IndInv => HonestResult
    BY DEF IndInv, HonestResult, ErrorInv, CountInv, SomeFailed, ResultInv, TypeInv
  <1> QED BY <1>1, InitInv, NextInv, PTL DEF Spec

(* Every resource of p's rows is to be applied or pruned: what an applier   *)
(* puts in an inventory group it has put in such a group, too.              *)
ActsOnAll(p) ==
  \A i \in Ids : NewRows(p)[i] # NoRow => NewRows(p)[i].action \in {"Apply", "Prune"}

RowActions == \A i \in Ids : rows[i] # NoRow => rows[i].action \in {"Apply", "Prune"}

LEMMA RowActionsNext ==
  ASSUME \A p \in Plans : ActsOnAll(p), IndInv, RowActions, [Next]_vars
  PROVE  RowActions'
  <1>1. CASE UNCHANGED rows
    BY <1>1 DEF RowActions
  <1>2. ASSUME NEW p \in Plans, ReceiveInit(p)
        PROVE  RowActions'
    BY <1>2 DEF ReceiveInit, RowActions, ActsOnAll
  <1>3. ASSUME NEW e \in Events, Receive(e)
        PROVE  RowActions'
    BY <1>3, ProcessType DEF Receive, RowActions, IndInv
  <1>4. \/ UNCHANGED rows
        \/ \E p \in Plans : ReceiveInit(p)
        \/ \E e \in Events : Receive(e)
    BY DEF Next, vars, Close, AwaitInit, ClosedBeforeInit, RunPrintLoop, Listen, ShutDown, Join, Report,
           ListenerEnds, Tick, SelectTick, SelectStop, PrintTable, Returned
  <1> QED BY <1>1, <1>2, <1>3, <1>4

(* The last table is the truth: no event is lost between the listener's     *)
(* last and the copy made for that table (runPrintLoop's stop case copies   *)
(* the rows again).                                                         *)
THEOREM FinalTableHolds ==
  ASSUME \A p \in Plans : ActsOnAll(p)
  PROVE  Spec => []FinalTable
  <1>1. IndInv /\ RowActions => FinalTable
    <2> SUFFICES ASSUME IndInv, RowActions, loop = "closed", NEW i \in Ids, rows[i] # NoRow
                 PROVE  /\ table[i] # NoRow
                        /\ Progress(table[i])[1] \in {"apply", "prune"}
                        /\ Progress(table[i])[2] = ShouldShow(i, Progress(table[i])[1])
      BY DEF FinalTable
    <2>1. table = rows
      BY DEF IndInv, PhaseInv
    <2>2. rows[i].apply = ShouldShow(i, "apply") /\ rows[i].prune = ShouldShow(i, "prune")
      BY DEF IndInv, ShowInv
    <2>3. CASE rows[i].action = "Apply"
      <3>1. Progress(table[i])[1] = "apply" /\ Progress(table[i])[2] = rows[i].apply
        BY <2>1, <2>3 DEF Progress
      <3> QED BY <2>1, <2>2, <3>1
    <2>4. CASE rows[i].action = "Prune"
      <3>1. Progress(table[i])[1] = "prune" /\ Progress(table[i])[2] = rows[i].prune
        BY <2>1, <2>4 DEF Progress
      <3> QED BY <2>1, <2>2, <3>1
    <2> QED BY <2>3, <2>4 DEF RowActions
  <1>2. Init => RowActions
    BY DEF Init, RowActions, NoTable
  <1>3. IndInv /\ RowActions /\ [Next]_vars => RowActions'
    BY RowActionsNext
  <1> QED BY <1>1, <1>2, <1>3, InitInv, NextInv, PTL DEF Spec

=============================================================================
