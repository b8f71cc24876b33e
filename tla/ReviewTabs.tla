----------------------------- MODULE ReviewTabs -----------------------------
(***************************************************************************)
(* The review pages over the datastore: Fleet, Deployment logs and Audit   *)
(* trail (admin/web/src/FleetTab.tsx, LogsTab.tsx, AuditTab.tsx) under the *)
(* tabs of App.tsx, of which one is mounted at a time.                     *)
(*                                                                         *)
(* A request takes a connection of the browser, is read by the server and  *)
(* arrives, each at a time of its own: answers overtake each other.  The   *)
(* error alert is left out: a failure leaves the rows as they are.         *)
(***************************************************************************)
EXTENDS Telemetry, Sequences, SequencesExt

CONSTANTS
    Filters,     \* what the logs are filtered by: all machines, or one
    Connections, \* how many connections the browser opens
    PageSize,    \* PAGE_SIZE
    Limit        \* rows asked for

ASSUME ReviewAssumption ==
    /\ Machine \in Filters /\ Filters \subseteq SUBSET Machine
    /\ {Connections, PageSize, Limit} \subseteq Nat \ {0}

VARIABLES
    activeTab,
    items, loading,        \* of the mounted tab
    auto,                  \* Fleet: auto-refresh
    filter,                \* Logs: the serials asked for
    page,                  \* Audit: currentPageIndex
    flights,               \* flights[c]: a request of the mounted tab
    calm                   \* history, see LogsOwn

view == <<activeTab, items, loading, auto, filter, page, flights>>
vars == <<telemetry, view, calm>>

Tab == {"fleet", "logs", "audit"}
Asked(fs) == [pc |-> "sent", filter |-> fs, rows |-> {}]
AtRest == flights = <<>>

\* refresh() asks at once, whatever is still on its way.
Refresh(fs) ==
    /\ Len(flights) < Connections
    /\ flights' = Append(flights, Asked(fs))
    /\ loading' = TRUE

RefreshFleet == activeTab = "fleet" /\ Refresh(Machine)
RefreshLogs(fs) == activeTab = "logs" /\ Refresh(fs)
RefreshAudit == activeTab = "audit" /\ Refresh(Machine)

-----------------------------------------------------------------------------
(* The user and the timer *)

\* The old tab is unmounted: what it waits for is dropped, the timer with it.
\* The new one is mounted and fetches.
Switch(t) ==
    /\ t # activeTab
    /\ activeTab' = t
    /\ items' = {} /\ auto' = TRUE /\ filter' = Machine /\ page' = 1
    /\ loading' = TRUE /\ calm' = TRUE /\ flights' = <<Asked(Machine)>>

ClickRefresh ==
    /\ ~loading
    /\ RefreshFleet \/ RefreshLogs(filter) \/ RefreshAudit
    /\ UNCHANGED <<activeTab, items, auto, filter, page, calm>>

\* The toggle runs the effect again: it refreshes, and sets the interval or not.
ToggleAuto ==
    /\ auto' = ~auto
    /\ RefreshFleet
    /\ UNCHANGED <<activeTab, items, filter, page, calm>>

\* Faulty variant of Poll: the timer waits for an empty table.
PollEmpty ==
    /\ auto /\ items = {}
    /\ RefreshFleet
    /\ UNCHANGED <<activeTab, items, auto, filter, page, calm>>

\* Every five seconds, whether or not the last answer is there.
Poll ==
    /\ auto
    /\ RefreshFleet
    /\ UNCHANGED <<activeTab, items, auto, filter, page, calm>>

\* Faulty variant of SetFilter: the effect does not depend on the filter.
SetFilterSilent(fs) ==
    /\ activeTab = "logs" /\ fs # filter
    /\ filter' = fs
    /\ calm' = (calm /\ AtRest)
    /\ UNCHANGED <<activeTab, items, loading, auto, page, flights>>

\* Typing in the filter makes a new refresh(), which the effect runs.
SetFilter(fs) ==
    /\ fs # filter
    /\ filter' = fs
    /\ RefreshLogs(fs)
    /\ calm' = (calm /\ AtRest)
    /\ UNCHANGED <<activeTab, items, auto, page>>

PagesCount(rows) == Max({1, (Cardinality(rows) + PageSize - 1) \div PageSize})
PageItems == Newest(items, page * PageSize) \ Newest(items, (page - 1) * PageSize)

\* The pages stay in use while the trail is loading.
SetPage(i) ==
    /\ activeTab = "audit" /\ i # page
    /\ page' = i
    /\ UNCHANGED <<activeTab, items, loading, auto, filter, flights, calm>>

-----------------------------------------------------------------------------
(* Requests *)

\* The server reads the table in one statement; the answer may still be an error.
Read(c) ==
    /\ flights[c].pc = "sent"
    /\ flights' = [flights EXCEPT ![c].pc = "read", ![c].rows =
          CASE activeTab = "fleet" -> Fleet
            [] activeTab = "logs"  -> DeployEvents(flights[c].filter, Limit)
            [] activeTab = "audit" -> AuditEntries(Limit)]
    /\ UNCHANGED <<activeTab, items, loading, auto, filter, page, calm>>

\* What arrives is shown, whatever was asked for since.
AnswerFleet(c) == activeTab = "fleet" /\ items' = flights[c].rows /\ UNCHANGED page
AnswerLogs(c) == activeTab = "logs" /\ items' = flights[c].rows /\ UNCHANGED page

\* Faulty variant of AnswerAudit: the page stays where it was.
AnswerAuditSamePage(c) == activeTab = "audit" /\ items' = flights[c].rows /\ UNCHANGED page

AnswerAudit(c) == activeTab = "audit" /\ items' = flights[c].rows /\ page' = 1

Answer(c) == (AnswerFleet(c) \/ AnswerLogs(c) \/ AnswerAudit(c)) /\ UNCHANGED calm

Fails(c) ==
    /\ calm' = (calm /\ activeTab # "logs")
    /\ UNCHANGED <<items, page>>

Arrive(c) ==
    /\ flights[c].pc = "read"
    /\ Answer(c) \/ Fails(c)
    /\ flights' = RemoveAt(flights, c)
    /\ loading' = FALSE
    /\ UNCHANGED <<activeTab, auto, filter>>

-----------------------------------------------------------------------------
(* The Fleet page's metrics *)

CountOf(states) == Cardinality({r \in items : r.event.state \in states})
Counts == [total |-> Cardinality(items), imaging |-> CountOf({"progress", "start"}),
           success |-> CountOf({"success"}), failure |-> CountOf({"failure"})]

-----------------------------------------------------------------------------

\* The page is opened on the Fleet tab.
Init ==
    /\ TelemetryInit
    /\ activeTab = "fleet" /\ items = {} /\ loading = TRUE
    /\ auto = TRUE /\ filter = Machine /\ page = 1
    /\ flights = <<Asked(Machine)>>
    /\ calm = TRUE

User ==
    \/ \E t \in Tab : Switch(t)
    \/ \E fs \in Filters : SetFilter(fs)
    \/ \E i \in 1..PagesCount(items) : SetPage(i)
    \/ ClickRefresh \/ ToggleAuto

Page == User \/ Poll \/ \E c \in DOMAIN flights : Read(c) \/ Arrive(c)

Next ==
    \/ Page /\ UNCHANGED telemetry
    \/ TelemetryNext /\ UNCHANGED <<view, calm>>

\* Timers fire, servers read, answers arrive or fail - not all of them for ever.
Fairness ==
    /\ TelemetryFairness
    /\ WF_vars(Poll /\ UNCHANGED telemetry)
    /\ WF_vars(~AtRest /\ (Read(1) \/ Arrive(1)) /\ UNCHANGED telemetry)
    /\ SF_vars(\E c \in DOMAIN flights : Arrive(c) /\ Answer(c) /\ UNCHANGED telemetry)

Spec == Init /\ [][Next]_vars /\ Fairness

-----------------------------------------------------------------------------
(* What the pages promise *)

\* Types, of the pipeline and of the mounted page.
TypeOK ==
    /\ TelemetryTypeOK
    /\ activeTab \in Tab
    /\ items \subseteq Row
    /\ {loading, auto, calm} \subseteq BOOLEAN
    /\ filter \in Filters
    /\ flights \in Seq([pc: {"sent", "read"}, filter: Filters, rows: SUBSET Row])
    /\ Len(flights) <= Connections

\* If the filter was only changed while nothing was in flight, and nothing failed,
\* then the rows of a page at rest are of the machines its filter names.
LogsOwn ==
    activeTab = "logs" /\ calm /\ AtRest => \A r \in items : r.event.serial \in filter

\* The audit page shown exists and has rows whenever there are any, whatever a
\* refresh that arrives meanwhile brings.
PageInRange ==
    activeTab = "audit" => /\ page \in 1..PagesCount(items)
                           /\ items # {} => PageItems # {}

\* Reports come to an end; after that a board left on auto-refresh settles on
\* what the datastore holds, whatever polls fail or overtake each other.
FleetConverges ==
    <>[](activeTab = "fleet" /\ auto) => <>[](items = Fleet)

\* The metrics "Succeeded", "Failed" and "Imaging" tally the machines that
\* reported so: "imaging/succeeded/failed tallies, computed from the datastore".
TallyOfReports ==
    activeTab = "fleet" =>
        /\ Counts.success = CountOf({"succeeded"})
        /\ Counts.failure = CountOf({"failed"})
        /\ Counts.imaging = CountOf({"started", "progress"})
=============================================================================
