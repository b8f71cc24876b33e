----------------------------- MODULE Telemetry -----------------------------
(***************************************************************************)
(* The way of a report: a machine in WinPE posts to windep-api             *)
(* (api/main.go), which keeps a bounded snapshot and forwards to the admin *)
(* backend by a goroutine of its own; the admin stores it                  *)
(* (admin/main.go, admin/store.go), prunes, and answers the review pages.  *)
(*                                                                         *)
(* An event is numbered when it is posted (n); a row when it is inserted   *)
(* (id).  Payloads are left out but for the state of a deployment.         *)
(***************************************************************************)
EXTENDS FiniteSetsExt

CONSTANTS
    Machine,      \* serials
    Reported,     \* the states a machine reports
    Lines,        \* lines of a batch of logs
    MaxMachines,  \* maxMachines
    MaxInFlight,  \* capacity of ingestSem
    MaxRows,      \* DB_MAX_ROWS
    MaxEvents     \* bound on what is posted

ASSUME TelemetryAssumption ==
    /\ Reported \subseteq {"started", "progress", "succeeded", "failed"}
    /\ {Lines, MaxMachines, MaxInFlight, MaxRows} \subseteq Nat \ {0}
    /\ MaxEvents \in Nat

VARIABLES
    time,      \* events so far
    machines,  \* machines[s]: the last report of s in the snapshot, 0 for none
    ingestSem, \* forwards that hold a slot
    posts,     \* forwards the admin has not dealt with
    deploy_event, audit, \* the tables
    heard, last, clean   \* history, see SnapshotRecent and FleetLatest

telemetry == <<time, machines, ingestSem, posts, deploy_event, audit, heard, last, clean>>

Kind == {"status", "log", "audit"}
Event == [kind: Kind, serial: Machine \cup {"none"}, n: 1..MaxEvents, state: Reported \cup {"none"}]
Post == [event: Event, left: 1..Lines]
Row == [id: Nat \ {0}, event: Event]

\* Faulty variant of Newest: ORDER BY id without DESC.
NewestAscending(rows, k) == {r \in rows : Cardinality({q \in rows : q.id <= r.id}) <= k}

Newest(rows, k) == {r \in rows : Cardinality({q \in rows : q.id >= r.id}) <= k}

\* Faulty variant of NextId: ids of pruned rows are used again.
NextIdCount(rows) == 1 + Cardinality(rows)

NextId(rows) == 1 + (IF rows = {} THEN 0 ELSE Max({r.id : r \in rows}))

-----------------------------------------------------------------------------
(* windep-api *)

\* Faulty variant of RecordMachine: the map is never cut.
RecordMachineUnbounded(s, n) == machines' = [machines EXCEPT ![s] = n]

\* An unknown machine evicts the one updated longest ago once the map is full.
RecordMachine(s, n) ==
    LET known == {t \in Machine : machines[t] # 0}
        oldest == CHOOSE t \in known : \A u \in known : machines[t] <= machines[u] IN
    machines' = IF machines[s] = 0 /\ Cardinality(known) >= MaxMachines
                THEN [machines EXCEPT ![oldest] = 0, ![s] = n]
                ELSE [machines EXCEPT ![s] = n]

\* Best effort: without a slot the payload is dropped, and nobody is told.
ForwardIngest(e) ==
    IF Cardinality(ingestSem) < MaxInFlight
    THEN /\ ingestSem' = ingestSem \cup {e}
         /\ posts' = posts \cup {[event |-> e, left |-> IF e.kind = "log" THEN Lines ELSE 1]}
    ELSE UNCHANGED <<ingestSem, posts>>

New(kind, s, state) == [kind |-> kind, serial |-> s, n |-> time + 1, state |-> state]
Tick == time < MaxEvents /\ time' = time + 1
Pending(s) == {p \in posts : p.event.kind = "status" /\ p.event.serial = s}

HandleReport(s) ==
    /\ Tick
    /\ \E state \in Reported : ForwardIngest(New("status", s, state))
    /\ RecordMachine(s, time')
    /\ heard' = [heard EXCEPT ![s] = time'] /\ last' = [last EXCEPT ![s] = time']
    /\ clean' = [clean EXCEPT ![s] = @ /\ posts' # posts /\ Pending(s) = {}]
    /\ UNCHANGED <<deploy_event, audit>>

HandleLog(s) ==
    /\ Tick /\ ForwardIngest(New("log", s, "none"))
    /\ UNCHANGED <<machines, deploy_event, audit, heard, last, clean>>

\* A resolution of the machine's configuration, served or refused.
AuditResolve ==
    /\ Tick /\ ForwardIngest(New("audit", "none", "none"))
    /\ UNCHANGED <<machines, deploy_event, audit, heard, last, clean>>

\* Faulty variant of TimeOut: the error path keeps its slot.
TimeOutLeaks(e) == e \in ingestSem /\ UNCHANGED telemetry

\* Faulty variant of TimeOut: the payload is sent again.
TimeOutRetries(e) ==
    /\ e \in ingestSem
    /\ posts' = posts \cup {[event |-> e, left |-> IF e.kind = "log" THEN Lines ELSE 1]}
    /\ UNCHANGED <<time, machines, ingestSem, deploy_event, audit, heard, last, clean>>

\* The client gives up and its goroutine ends; the admin may still be at work.
TimeOut(e) ==
    /\ e \in ingestSem
    /\ ingestSem' = ingestSem \ {e}
    /\ UNCHANGED <<time, machines, posts, deploy_event, audit, heard, last, clean>>

\* A new pod: the snapshot and the goroutines are gone, and some of their posts.
Restart ==
    /\ machines' = [s \in Machine |-> 0] /\ heard' = machines'
    /\ ingestSem' = {}
    /\ posts' \in SUBSET posts
    /\ clean' = [s \in Machine |-> clean[s] /\ Pending(s) \subseteq posts']
    /\ UNCHANGED <<time, deploy_event, audit, last>>

-----------------------------------------------------------------------------
(* The admin backend *)

\* handleIngest...: one row per insert, a batch of logs line by line.  The answer
\* to the last one ends the goroutine.
Ingest(p) ==
    /\ p \in posts
    /\ IF p.event.kind = "audit"
       THEN audit' = audit \cup {[id |-> NextId(audit), event |-> p.event]} /\ UNCHANGED deploy_event
       ELSE deploy_event' = deploy_event \cup {[id |-> NextId(deploy_event), event |-> p.event]}
            /\ UNCHANGED audit
    /\ posts' = (posts \ {p}) \cup
                (IF p.left > 1 THEN {[p EXCEPT !.left = @ - 1]} ELSE {})
    /\ ingestSem' = IF p.left > 1 THEN ingestSem ELSE ingestSem \ {p.event}
    /\ UNCHANGED <<time, machines, heard, last, clean>>

\* The connection or the insert fails: what is left of the post is lost.
Lose(p) ==
    /\ p \in posts
    /\ posts' = posts \ {p} /\ ingestSem' = ingestSem \ {p.event}
    /\ clean' = [s \in Machine |-> clean[s] /\ p \notin Pending(s)]
    /\ UNCHANGED <<time, machines, deploy_event, audit, heard, last>>

\* auditMW: the admin's own operations are recorded without a detour.
AuditMW ==
    /\ Tick
    /\ audit' = audit \cup {[id |-> NextId(audit), event |-> New("audit", "none", "none")]}
    /\ UNCHANGED <<machines, ingestSem, posts, deploy_event, heard, last, clean>>

\* At startup and hourly.
Prune ==
    /\ deploy_event' = Newest(deploy_event, MaxRows)
    /\ audit' = Newest(audit, MaxRows)
    /\ UNCHANGED <<time, machines, ingestSem, posts, heard, last, clean>>

StatusRows(s) == {r \in deploy_event : r.event.kind = "status" /\ r.event.serial = s}

\* Faulty variant of fleet: GROUP BY without MAX.
FleetAny == {CHOOSE r \in StatusRows(s) : TRUE : s \in {t \in Machine : StatusRows(t) # {}}}

\* GET /api/fleet: the status row with the highest id of each machine.
Fleet == UNION {Newest(StatusRows(s), 1) : s \in Machine}

\* GET /api/logs and /api/audit: the newest rows, of one machine if asked.
DeployEvents(filter, limit) == Newest({r \in deploy_event : r.event.serial \in filter}, limit)
AuditEntries(limit) == Newest(audit, limit)

TelemetryInit ==
    /\ time = 0
    /\ machines = [s \in Machine |-> 0] /\ heard = machines /\ last = machines
    /\ ingestSem = {} /\ posts = {} /\ deploy_event = {} /\ audit = {}
    /\ clean = [s \in Machine |-> TRUE]

TelemetryNext ==
    \/ \E s \in Machine : HandleReport(s) \/ HandleLog(s)
    \/ AuditResolve \/ AuditMW
    \/ \E e \in ingestSem : TimeOut(e)
    \/ \E p \in posts : Ingest(p) \/ Lose(p)
    \/ Restart \/ Prune

\* The client's timeout ends every forward.
TelemetryFairness == WF_telemetry(\E e \in ingestSem : TimeOut(e))

TelemetrySpec == TelemetryInit /\ [][TelemetryNext]_telemetry /\ TelemetryFairness

-----------------------------------------------------------------------------
(* What the pipeline promises *)

\* Types of the queues, the tables and the snapshot; ids are the primary key.
TelemetryTypeOK ==
    /\ time \in 0..MaxEvents
    /\ {machines, heard, last} \subseteq [Machine -> 0..MaxEvents]
    /\ ingestSem \subseteq Event /\ Cardinality(ingestSem) <= MaxInFlight
    /\ posts \subseteq Post
    /\ \A tbl \in {deploy_event, audit} :
          /\ tbl \subseteq Row
          /\ \A r, q \in tbl : r.id = q.id => r = q
    /\ clean \in [Machine -> BOOLEAN]

\* The debug snapshot holds the machines heard last since the pod started, each
\* with its last report, and no more than fit.
SnapshotRecent ==
    \A s \in Machine :
        machines[s] = IF Cardinality({t \in Machine : heard[t] > heard[s]}) < MaxMachines
                      THEN heard[s] ELSE 0

\* "The latest status per machine": a machine whose reports were neither dropped
\* nor lost, and each stored before the next was posted, is shown with its last
\* one, until newer rows fill the table.
FleetLatest ==
    \A s \in Machine :
        clean[s] /\ last[s] # 0 /\ Pending(s) = {} =>
          LET shown == {r \in Fleet : r.event.serial = s} IN
          \/ \E r \in shown : r.event.n = last[s]
          \/ shown = {} /\ Cardinality(deploy_event) >= MaxRows

\* Nothing is stored more often than it was sent: a report or an audit record at
\* most once, a batch of logs at most line by line, and neither in both tables,
\* though handlers outlive the forwards that have given up on them.
Stored(n) == {r \in deploy_event \cup audit : r.event.n = n}
StoredOnce ==
    \A r \in deploy_event \cup audit :
        Cardinality(Stored(r.event.n)) <= IF r.event.kind = "log" THEN Lines ELSE 1

\* The forwards never stay stuck at the limit: a slot is always given back.
SlotsReturned == Cardinality(ingestSem) = MaxInFlight ~> Cardinality(ingestSem) < MaxInFlight

\* Refinement: each table is a log that grows at its end and is cut at its
\* beginning ("monotonic insert order"; "caps each table to its newest maxRows").
Deployments == INSTANCE EventLog WITH Entry <- Event, log <- deploy_event
Trail == INSTANCE EventLog WITH Entry <- Event, log <- audit

RefinesEventLog == Deployments!Spec /\ Trail!Spec
=============================================================================
