---------------------------- MODULE TablePrinter ----------------------------
(***************************************************************************)
(* The table printer of kpt live apply: three goroutines and the applier.  *)
(*                                                                         *)
(* The applier sends its events on an unbuffered channel and closes it.    *)
(* Print takes the events up to the init event itself, then starts a print *)
(* loop and a listener.  The listener applies each event to the            *)
(* collector's rows under a lock; the print loop copies the rows under the *)
(* same lock whenever its ticker fires, and once more when it is stopped.  *)
(* A send on an unbuffered channel and its receive are one step.           *)
(*                                                                         *)
(* The text of a row is abstracted to what it is made of: the action, the  *)
(* last result of that action and the last status.                         *)
(***************************************************************************)
EXTENDS Naturals, Sequences, FiniteSetsExt

CONSTANTS
  Ids,         \* resources
  Plans,       \* the action groups an init event may announce
  Statuses,    \* the statuses of a resource a status event may report
  Reported,    \* the results considered that an event may report
  MaxEvents,   \* bound: how many events the applier sends
  NoRow        \* the collector has no row for a resource

Actions == {"Apply", "Prune", "Wait", "Inventory"}

Results == {"Pending", "Successful", "Skipped", "Failed"}

WaitResults == Results \union {"Timeout"}

ASSUME TablePrinterAssumption ==
  /\ MaxEvents \in Nat
  /\ Plans \subseteq Seq([action : Actions, ids : SUBSET Ids])
  /\ Reported \subseteq WaitResults
  /\ {"Unknown", "Invalid"} \intersect Statuses = {}

Rows == [action : Actions, status : Statuses \union {"Unknown", "Invalid"},
         apply : Results, prune : Results, wait : WaitResults]

ASSUME NoRowAssumption == NoRow \notin Rows \union Ids

\* The events of an apply, by type.
ApplyEvents == {[type |-> "apply", id |-> i, status |-> s] : i \in Ids, s \in Reported \intersect Results}
PruneEvents == {[type |-> "prune", id |-> i, status |-> s] : i \in Ids, s \in Reported \intersect Results}
WaitEvents == {[type |-> "wait", id |-> i, status |-> s] : i \in Ids, s \in Reported}
StatusEvents == {[type |-> "status", id |-> i, status |-> s] : i \in Ids, s \in Statuses}
ValidationEvents == {[type |-> "validation", id |-> i, status |-> "Invalid"] : i \in Ids}

\* A validation event without identifiers, and an error event: both end the listener.
FatalEvents == {[type |-> "validation", id |-> NoRow, status |-> "Invalid"],
                [type |-> "error", id |-> NoRow, status |-> "Failed"]}

Events == ApplyEvents \union PruneEvents \union WaitEvents \union StatusEvents
            \union ValidationEvents \union FatalEvents

VARIABLES
  ch,        \* the event channel: "open", or "closed" by the applier
  fatal,     \* the applier has sent an error event, its last
  budget,    \* how many more events the applier sends
  main,      \* where Print is
  listener,  \* the listener: "off", "receive", "report", "closed"
  loop,      \* the print loop: "off", "select", "print", "last", "closed"
  tick,      \* the ticker's channel holds a tick
  stop,      \* the stop channel is closed
  rows,      \* the collector's resourceInfos
  failures,  \* the collector's stats: failed operations and waits
  snapshot,  \* the copy the print loop is about to print
  table,     \* the table last printed
  err,       \* the error the listener reported
  result,    \* what Print returned
  seen       \* history: the events the listener processed

printer == <<loop, tick, snapshot, table>>
vars == <<ch, fatal, budget, main, listener, printer, stop, rows, failures, err, result, seen>>

-----------------------------------------------------------------------------
(* The collector *)

NoTable == [i \in Ids |-> NoRow]

\* newResourceStateCollector: a later group replaces the row, waiting does not count.
NewRows(groups) ==
  [i \in Ids |->
     LET g == {n \in DOMAIN groups : groups[n].action # "Wait" /\ i \in groups[n].ids} IN
     IF g = {} THEN NoRow
     ELSE [action |-> groups[Max(g)].action, status |-> "Unknown",
           apply |-> "Pending", prune |-> "Pending", wait |-> "Pending"]]

Known(e) == e.id \in Ids /\ rows[e.id] # NoRow

ProcessValidation(e) == [rows EXCEPT ![e.id].status = "Invalid"]

ProcessStatus(e) == [rows EXCEPT ![e.id].status = e.status]

ProcessApply(e) == [rows EXCEPT ![e.id].apply = e.status]

ProcessPrune(e) == [rows EXCEPT ![e.id].prune = e.status]

ProcessWait(e) == [rows EXCEPT ![e.id].wait = e.status]

\* An event for a resource without a row changes nothing.
ProcessEvent(e) ==
  IF ~Known(e) THEN rows
  ELSE CASE e.type = "validation" -> ProcessValidation(e)
         [] e.type = "status"     -> ProcessStatus(e)
         [] e.type = "apply"      -> ProcessApply(e)
         [] e.type = "prune"      -> ProcessPrune(e)
         [] e.type = "wait"       -> ProcessWait(e)

\* What the stats count against the result.
Failing(e) == e.type \in {"apply", "prune", "wait"} /\ e.status \in {"Failed", "Timeout"}

\* The mutant of Stats counts only what was applied or pruned, not the waits.
StatsNoWait(e) == IF Known(e) /\ Failing(e) /\ e.type # "wait" THEN failures + 1 ELSE failures

Stats(e) == IF Known(e) /\ Failing(e) THEN failures + 1 ELSE failures

\* getProgress: what a row shows.  The status is shown of what has been applied.
Progress(r) ==
  CASE r.action = "Apply" -> <<"apply", r.apply, IF r.apply = "Successful" THEN r.status ELSE "">>
    [] r.action = "Prune" -> <<"prune", r.prune, "">>
    [] OTHER -> <<"unknown ResourceAction">>

-----------------------------------------------------------------------------
(* The applier (external) *)

Init ==
  /\ ch = "open" /\ fatal = FALSE /\ budget = MaxEvents
  /\ main = "init" /\ listener = "off" /\ loop = "off"
  /\ tick = FALSE /\ stop = FALSE /\ err = FALSE
  /\ rows = NoTable /\ snapshot = NoTable /\ table = NoTable
  /\ failures = 0 /\ result = "none" /\ seen = <<>>

\* It reports on the action it announced for a resource, and on the status of any.
Announced(e) ==
  /\ e.type = "apply" => rows[e.id] # NoRow /\ rows[e.id].action = "Apply"
  /\ e.type = "prune" => rows[e.id] # NoRow /\ rows[e.id].action = "Prune"
  /\ e.type = "wait" => rows[e.id] # NoRow

\* The applier is ready to send e: nothing follows an error event.
Sends(e) ==
  /\ ch = "open" /\ ~fatal /\ budget > 0
  /\ budget' = budget - 1
  /\ fatal' = (e.type = "error")
  /\ UNCHANGED ch

Close ==
  /\ ch = "open"
  /\ ch' = "closed"
  /\ UNCHANGED <<fatal, budget, main, listener, printer, stop, rows, failures, err, result, seen>>

-----------------------------------------------------------------------------
(* Print *)

\* Events before the init event are dropped, an error is returned at once.
AwaitInit(e) ==
  /\ main = "init"
  /\ Announced(e) /\ Sends(e)
  /\ IF e.type = "error"
       THEN main' = "returned" /\ result' = "fatal"
       ELSE UNCHANGED <<main, result>>
  /\ UNCHANGED <<listener, printer, stop, rows, failures, err, seen>>

ReceiveInit(groups) ==
  /\ main = "init" /\ ch = "open" /\ ~fatal
  /\ rows' = NewRows(groups)
  /\ main' = "start"
  /\ UNCHANGED <<ch, fatal, budget, listener, printer, stop, failures, err, result, seen>>

\* The channel is closed before an init event: Print goes on with no rows.
ClosedBeforeInit ==
  /\ main = "init" /\ ch = "closed"
  /\ main' = "start"
  /\ UNCHANGED <<ch, fatal, budget, listener, printer, stop, rows, failures, err, result, seen>>

\* runPrintLoop prints the first table before it starts the goroutine.
RunPrintLoop ==
  /\ main = "start"
  /\ table' = rows
  /\ loop' = "select"
  /\ main' = "listen"
  /\ UNCHANGED <<ch, fatal, budget, listener, tick, snapshot, stop, rows, failures, err, result, seen>>

Listen ==
  /\ main = "listen"
  /\ listener' = "receive"
  /\ main' = "drain"
  /\ UNCHANGED <<ch, fatal, budget, printer, stop, rows, failures, err, result, seen>>

\* A mutant: Print waits for the print loop without stopping it.
ShutDownSilent ==
  /\ main = "drain" /\ listener = "closed"
  /\ main' = "join"
  /\ UNCHANGED <<ch, fatal, budget, listener, printer, stop, rows, failures, err, result, seen>>

\* The channel of the listener is closed: its range loop ends.
ShutDown ==
  /\ main = "drain" /\ listener = "closed"
  /\ stop' = TRUE
  /\ main' = "join"
  /\ UNCHANGED <<ch, fatal, budget, listener, printer, rows, failures, err, result, seen>>

Join ==
  /\ main = "join" /\ loop = "closed"
  /\ result' = IF err THEN "fatal" ELSE IF failures > 0 THEN "failed" ELSE "nil"
  /\ main' = "returned"
  /\ UNCHANGED <<ch, fatal, budget, listener, printer, stop, rows, failures, err, seen>>

-----------------------------------------------------------------------------
(* The listener *)

Receive(e) ==
  /\ listener = "receive"
  /\ Announced(e) /\ Sends(e)
  /\ rows' = ProcessEvent(e)
  /\ failures' = Stats(e)
  /\ seen' = Append(seen, e)
  /\ listener' = IF e \in FatalEvents THEN "report" ELSE "receive"
  /\ UNCHANGED <<main, printer, stop, err, result>>

\* The error goes to Print, which is waiting for it; then the channel is closed.
Report ==
  /\ listener = "report" /\ main = "drain"
  /\ err' = TRUE
  /\ listener' = "closed"
  /\ UNCHANGED <<ch, fatal, budget, main, printer, stop, rows, failures, result, seen>>

ListenerEnds ==
  /\ listener = "receive" /\ ch = "closed"
  /\ listener' = "closed"
  /\ UNCHANGED <<ch, fatal, budget, main, printer, stop, rows, failures, err, result, seen>>

-----------------------------------------------------------------------------
(* The print loop *)

Tick ==
  /\ loop \in {"select", "print"} /\ ~tick
  /\ tick' = TRUE
  /\ UNCHANGED <<ch, fatal, budget, main, listener, loop, snapshot, table, stop, rows, failures, err, result, seen>>

SelectTick ==
  /\ loop = "select" /\ tick
  /\ tick' = FALSE
  /\ snapshot' = rows
  /\ loop' = "print"
  /\ UNCHANGED <<ch, fatal, budget, main, listener, table, stop, rows, failures, err, result, seen>>

\* A mutant: what was copied last is printed again.
SelectStopStale ==
  /\ loop = "select" /\ stop
  /\ loop' = "last"
  /\ UNCHANGED <<ch, fatal, budget, main, listener, tick, snapshot, table, stop, rows, failures, err, result, seen>>

SelectStop ==
  /\ loop = "select" /\ stop
  /\ snapshot' = rows
  /\ loop' = "last"
  /\ UNCHANGED <<ch, fatal, budget, main, listener, tick, table, stop, rows, failures, err, result, seen>>

PrintTable ==
  /\ loop \in {"print", "last"}
  /\ table' = snapshot
  /\ loop' = IF loop = "print" THEN "select" ELSE "closed"
  /\ UNCHANGED <<ch, fatal, budget, main, listener, tick, snapshot, stop, rows, failures, err, result, seen>>

\* Print has returned; the command ends with it.
Returned == main = "returned" /\ UNCHANGED vars

-----------------------------------------------------------------------------
Next ==
  \/ Close
  \/ \E e \in Events : AwaitInit(e) \/ Receive(e)
  \/ \E p \in Plans : ReceiveInit(p)
  \/ ClosedBeforeInit \/ RunPrintLoop \/ Listen \/ ShutDown \/ Join
  \/ Report \/ ListenerEnds
  \/ Tick \/ SelectTick \/ SelectStop \/ PrintTable
  \/ Returned

\* Every goroutine runs.  A select with several ready cases picks one at random, so
\* the stop case is not passed over for ever.  Nothing is assumed of the applier.
Fairness ==
  /\ WF_vars(ClosedBeforeInit \/ RunPrintLoop \/ Listen \/ ShutDown \/ Join)
  /\ WF_vars(Report \/ ListenerEnds)
  /\ WF_vars(PrintTable)
  /\ SF_vars(SelectStop)

Spec == Init /\ [][Next]_vars /\ Fairness

-----------------------------------------------------------------------------
(* Properties *)

EventsOf(type, i) == {n \in DOMAIN seen : seen[n].type = type /\ seen[n].id = i}

\* What a row should show after the events processed: the last result of its action.
ShouldShow(i, action) ==
  LET own == EventsOf(action, i) IN
  IF own = {} THEN "Pending" ELSE seen[Max(own)].status

\* The table left on the screen when Print returns shows the last result of every
\* resource the applier announced, even when the listener's last event, the stop
\* signal and a tick come together; and it has a text for each of them.
FinalTable ==
  main = "returned" /\ loop = "closed" =>
    \A i \in Ids : rows[i] # NoRow =>
      /\ table[i] # NoRow
      /\ Progress(table[i])[1] \in {"apply", "prune"}
      /\ Progress(table[i])[2] = ShouldShow(i, Progress(table[i])[1])

\* Print returns nil only when the applier has closed the channel and none of the
\* events of an announced resource was a failure or a timeout; and it reports failed
\* operations only if there were any.
HonestResult ==
  LET failed == \E n \in DOMAIN seen : Failing(seen[n]) /\ rows[seen[n].id] # NoRow IN
  /\ result = "nil" => ch = "closed" /\ ~failed
  /\ result = "failed" => failed /\ \A n \in DOMAIN seen : seen[n] \notin FatalEvents

\* Print returns once the applier has closed the channel or the listener has given
\* up, though the applier may then be blocked for ever on the event after.
PrintReturns == (ch = "closed" \/ listener = "report") ~> main = "returned"
=============================================================================
