-------------------------- MODULE ReviewTabsProofs --------------------------
(***************************************************************************)
(* Proofs about ReviewTabs, for any number of machines, rows, connections  *)
(* and requests: types, the rows of the logs page, the page of the trail.  *)
(***************************************************************************)
EXTENDS ReviewTabs, TelemetryProofs

-----------------------------------------------------------------------------
(* Sequences and pages *)

\* Taking a request off the list keeps the others.
LEMMA RemoveAtKeeps ==
    ASSUME NEW S, NEW q \in Seq(S), NEW c \in DOMAIN q
    PROVE  /\ RemoveAt(q, c) \in Seq(S) /\ Len(RemoveAt(q, c)) = Len(q) - 1
           /\ \A d \in DOMAIN RemoveAt(q, c) : \E e \in DOMAIN q : RemoveAt(q, c)[d] = q[e]
  <1> DEFINE a == SubSeq(q, 1, c - 1)
             b == SubSeq(q, c + 1, Len(q))
  <1>1. c \in 1..Len(q) /\ Len(q) \in Nat
    OBVIOUS
  <1>2. a \in Seq(S) /\ Len(a) = c - 1 /\ \A d \in 1..(c - 1) : a[d] = q[d]
    BY <1>1
  <1>3. b \in Seq(S) /\ Len(b) = Len(q) - c /\ \A d \in 1..(Len(q) - c) : b[d] = q[c + d]
    BY <1>1
  <1> HIDE DEF a, b
  <1>4. a \o b \in Seq(S) /\ Len(a \o b) = Len(q) - 1
    BY <1>1, <1>2, <1>3
  <1>5. ASSUME NEW d \in 1..(Len(q) - 1) PROVE \E e \in DOMAIN q : (a \o b)[d] = q[e]
    <2>1. CASE d < c
      <3>1. (a \o b)[d] = q[d] /\ d \in DOMAIN q
        BY <1>1, <1>2, <1>3, <2>1
      <3> QED
        BY <3>1
    <2>2. CASE ~(d < c)
      <3>1. (a \o b)[d] = b[d - (c - 1)]
        BY <1>1, <1>2, <1>3, <2>2
      <3>2. d - (c - 1) \in 1..(Len(q) - c) /\ d + 1 \in DOMAIN q
        BY <1>1, <2>2
      <3>3. (a \o b)[d] = q[d + 1]
        BY <1>1, <1>3, <2>2, <3>1, <3>2
      <3> QED
        BY <3>2, <3>3
    <2> QED
      BY <2>1, <2>2
  <1>6. RemoveAt(q, c) = a \o b
    BY DEF RemoveAt, a, b
  <1>7. DOMAIN (a \o b) = 1..(Len(q) - 1)
    BY <1>4
  <1> QED
    BY <1>4, <1>5, <1>6, <1>7

LEMMA MaxOfTwo ==
    ASSUME NEW x \in Int, NEW y \in Int
    PROVE  Max({x, y}) = IF x >= y THEN x ELSE y
  <1>1. CASE x >= y
    BY <1>1 DEF Max
  <1>2. CASE ~(x >= y)
    BY <1>2 DEF Max
  <1> QED
    BY <1>1, <1>2

LEMMA Division ==
    ASSUME NEW n \in Nat, NEW p \in Nat \ {0}
    PROVE  n \div p \in Nat /\ (n \div p) * p <= n
  OBVIOUS

LEMMA Product ==
    ASSUME NEW i \in Nat, NEW j \in Nat, i <= j, NEW p \in Nat
    PROVE  i * p \in Nat /\ i * p <= j * p
  OBVIOUS

LEMMA Distribution ==
    ASSUME NEW i \in Nat \ {0}, NEW p \in Nat
    PROVE  i * p = (i - 1) * p + p /\ (i - 1) * p \in Nat
  OBVIOUS

LEMMA ReviewConstants ==
    ASSUME ReviewAssumption
    PROVE  /\ Machine \in Filters /\ Filters \subseteq SUBSET Machine
           /\ Connections \in Nat \ {0} /\ PageSize \in Nat \ {0} /\ Limit \in Nat \ {0}
  BY DEF ReviewAssumption

LEMMA PagesCountIs ==
    ASSUME ReviewAssumption, NEW rows, Table(rows)
    PROVE  /\ PagesCount(rows) \in Nat \ {0} /\ Cardinality(rows) \in Nat
           /\ PagesCount(rows) * PageSize <= Cardinality(rows) + PageSize - 1
              \/ PagesCount(rows) = 1
  <1>1. Cardinality(rows) \in Nat /\ PageSize \in Nat \ {0}
    BY ReviewConstants, FS_CardinalityType DEF Table
  <1> DEFINE n == Cardinality(rows) + PageSize - 1
  <1>2. n \in Nat
    BY <1>1
  <1>3. PagesCount(rows) = Max({1, n \div PageSize})
    BY DEF PagesCount
  <1> HIDE DEF n
  <1>4. n \div PageSize \in Nat /\ (n \div PageSize) * PageSize <= n
    BY <1>1, <1>2, Division
  <1>5. PagesCount(rows) = IF 1 >= n \div PageSize THEN 1 ELSE n \div PageSize
    BY <1>3, <1>4, MaxOfTwo
  <1> QED
    BY <1>1, <1>4, <1>5 DEF n

\* A page up to the last one has a row: the first that the pages before leave over.
LEMMA PageHasRows ==
    ASSUME ReviewAssumption, Table(items), items # {}, page \in 1..PagesCount(items)
    PROVE  PageItems # {}
  <1> DEFINE k == (page - 1) * PageSize + 1
             f == [r \in items |-> r.id]
             P == PagesCount(items)
             N == Cardinality(items)
  <1>1. /\ P \in Nat \ {0} /\ N \in Nat /\ PageSize \in Nat \ {0}
        /\ P * PageSize <= N + PageSize - 1 \/ P = 1
    BY PagesCountIs, ReviewConstants
  <1>2. page \in Nat \ {0} /\ page <= P
    BY <1>1
  <1>3. N >= 1
    BY <1>1, FS_EmptySet DEF Table
  <1> HIDE DEF P, N
  <1>4. page * PageSize = (page - 1) * PageSize + PageSize /\ (page - 1) * PageSize \in Nat
    BY <1>1, <1>2, Distribution
  <1>5. page * PageSize \in Nat /\ page * PageSize <= P * PageSize
    BY <1>1, <1>2, Product
  <1>6. P * PageSize \in Nat
    BY <1>1, Product
  <1>7. k \in Nat /\ 1 <= k
    BY <1>4
  <1>8. k <= N
    <2>1. CASE P = 1
      <3>1. page = 1
        BY <1>2, <2>1
      <3>2. k = 1
        BY <1>1, <3>1
      <3> QED
        BY <1>3, <3>2
    <2>2. CASE P * PageSize <= N + PageSize - 1
      BY <1>1, <1>4, <1>5, <1>6, <2>2
    <2> QED
      BY <1>1, <2>1, <2>2
  <1>9. f \in [items -> Int] /\ \A x, y \in items : f[x] = f[y] => x = y
    BY DEF Table, Row
  <1>10. PICK x \in items : Cardinality(UpTo(f, items, x)) = k
    <2> HIDE DEF f, k
    <2> QED
      BY <1>7, <1>8, <1>9, Ranked DEF Table, N
  <1>11. UpTo(f, items, x) = {q \in items : q.id >= x.id}
    BY DEF UpTo
  <1>12. Cardinality({q \in items : q.id >= x.id}) = k
    <2> HIDE DEF f, k
    <2> QED
      BY <1>10, <1>11
  <1>13. k <= page * PageSize /\ ~(k <= (page - 1) * PageSize)
    BY <1>1, <1>4
  <1> HIDE DEF f, k
  <1>14. x \in Newest(items, page * PageSize)
    BY <1>12, <1>13 DEF Newest
  <1>15. x \notin Newest(items, (page - 1) * PageSize)
    BY <1>12, <1>13 DEF Newest
  <1> QED
    BY <1>14, <1>15 DEF PageItems

-----------------------------------------------------------------------------
(* The invariant of the pages *)

Flight == [pc: {"sent", "read"}, filter: Filters, rows: SUBSET Row]

Own(rows, fs) == \A r \in rows : r.event.serial \in fs

\* What a page shows, and what is on its way to it, are tables of the datastore.
ViewTypes ==
    /\ activeTab \in Tab
    /\ loading \in BOOLEAN /\ auto \in BOOLEAN /\ calm \in BOOLEAN
    /\ filter \in Filters
    /\ Table(items)

FlightTypes ==
    /\ flights \in Seq(Flight) /\ Len(flights) <= Connections
    /\ \A c \in DOMAIN flights : Table(flights[c].rows)

\* While nothing was overtaken, whatever is on its way to the logs page was asked
\* for with the filter it has.
LogsInv ==
    activeTab = "logs" /\ calm =>
        /\ \A c \in DOMAIN flights : flights[c].filter = filter /\ Own(flights[c].rows, filter)
        /\ AtRest => Own(items, filter)

PageInv == activeTab = "audit" => page \in 1..PagesCount(items)

ViewInv == ViewTypes /\ FlightTypes /\ LogsInv /\ PageInv

ReviewInv == TypeInv /\ ViewInv

LEMMA InvImplies ==
    ASSUME ReviewAssumption, ReviewInv
    PROVE  TypeOK /\ LogsOwn /\ PageInRange
  <1> USE DEF ReviewInv, ViewInv
  <1>1. TypeOK
    BY TypeInvImpliesTypeOK DEF TypeOK, ViewTypes, FlightTypes, Flight, Table
  <1>2. LogsOwn
    BY DEF LogsOwn, LogsInv, Own
  <1>3. PageInRange
    BY PageHasRows DEF PageInRange, PageInv, ViewTypes
  <1> QED
    BY <1>1, <1>2, <1>3

LEMMA SubTable ==
    ASSUME NEW rows, Table(rows), NEW some, some \subseteq rows
    PROVE  Table(some)
  BY FS_Subset DEF Table

\* What the server answers is a part of its table, of the machines asked for.
LEMMA AnswersAreTables ==
    ASSUME TypeInv, ReviewAssumption
    PROVE  /\ Table(Fleet) /\ Table(AuditEntries(Limit))
           /\ \A fs : Table(DeployEvents(fs, Limit)) /\ Own(DeployEvents(fs, Limit), fs)
  <1>1. Fleet \subseteq deploy_event
    BY DEF Fleet, Newest, StatusRows
  <1>2. AuditEntries(Limit) \subseteq audit
    BY DEF AuditEntries, Newest
  <1>3. ASSUME NEW fs
        PROVE  DeployEvents(fs, Limit) \subseteq deploy_event /\ Own(DeployEvents(fs, Limit), fs)
    BY DEF DeployEvents, Newest, Own
  <1> QED
    BY <1>1, <1>2, <1>3, SubTable DEF TypeInv

LEMMA AskedFlight ==
    ASSUME NEW fs \in Filters
    PROVE  /\ Asked(fs) \in Flight /\ Asked(fs).filter = fs /\ Asked(fs).rows = {}
           /\ Table(Asked(fs).rows)
  <1>1. Asked(fs) \in Flight /\ Asked(fs).filter = fs /\ Asked(fs).rows = {}
    BY DEF Asked, Flight
  <1> QED
    BY <1>1, FS_EmptySet DEF Table

\* One request more, that has no rows yet.
LEMMA RefreshFlights ==
    ASSUME ReviewAssumption, FlightTypes, NEW fs \in Filters, Refresh(fs)
    PROVE  /\ FlightTypes' /\ ~AtRest' /\ loading' = TRUE
           /\ \A c \in DOMAIN flights' :
                 \/ c \in DOMAIN flights /\ flights'[c] = flights[c]
                 \/ flights'[c] = Asked(fs)
  <1>1. Asked(fs) \in Flight /\ Table(Asked(fs).rows)
    BY AskedFlight
  <1>2. flights' = Append(flights, Asked(fs)) /\ Len(flights) < Connections /\ loading' = TRUE
    BY DEF Refresh
  <1>3. flights \in Seq(Flight) /\ Len(flights) \in Nat /\ Connections \in Nat
    BY ReviewConstants DEF FlightTypes
  <1>4. flights' \in Seq(Flight) /\ Len(flights') = Len(flights) + 1
    BY <1>1, <1>2, <1>3
  <1>5. \A c \in DOMAIN flights' : \/ c \in DOMAIN flights /\ flights'[c] = flights[c]
                                   \/ flights'[c] = Asked(fs)
    BY <1>1, <1>2, <1>3
  <1>6. ~AtRest'
    BY <1>3, <1>4 DEF AtRest
  <1>7. FlightTypes'
    BY <1>1, <1>2, <1>3, <1>4, <1>5 DEF FlightTypes
  <1> QED
    BY <1>2, <1>5, <1>6, <1>7

-----------------------------------------------------------------------------
(* The steps *)

\* Asking with the filter in use, and nothing else but the timer's switch changed.
LEMMA RefreshInv ==
    ASSUME ReviewAssumption, ViewInv, NEW fs \in Filters, Refresh(fs),
           activeTab = "logs" => fs = filter, auto' \in BOOLEAN,
           UNCHANGED <<activeTab, items, filter, page, calm>>
    PROVE  ViewInv'
  <1> USE DEF ViewInv
  <1>1. /\ FlightTypes' /\ ~AtRest' /\ loading' = TRUE
        /\ \A c \in DOMAIN flights' :
              \/ c \in DOMAIN flights /\ flights'[c] = flights[c]
              \/ flights'[c] = Asked(fs)
    BY RefreshFlights
  <1>2. ViewTypes'
    BY <1>1 DEF ViewTypes
  <1>3. LogsInv'
    <2> SUFFICES ASSUME activeTab = "logs", calm, NEW c \in DOMAIN flights'
                 PROVE  flights'[c].filter = filter /\ Own(flights'[c].rows, filter)
      BY <1>1 DEF LogsInv
    <2>1. CASE c \in DOMAIN flights /\ flights'[c] = flights[c]
      BY <2>1 DEF LogsInv
    <2>2. CASE flights'[c] = Asked(fs)
      BY <2>2, AskedFlight DEF Own
    <2> QED
      BY <1>1, <2>1, <2>2
  <1>4. PageInv'
    BY DEF PageInv
  <1> QED
    BY <1>1, <1>2, <1>3, <1>4

LEMMA PagesFromOne ==
    ASSUME ReviewAssumption, NEW rows, Table(rows)
    PROVE  1 \in 1..PagesCount(rows)
  BY PagesCountIs

\* A single request, and no rows yet: a tab just opened.
LEMMA OpenedFlights ==
    ASSUME ReviewAssumption, flights = <<Asked(Machine)>>
    PROVE  /\ FlightTypes /\ ~AtRest
           /\ \A c \in DOMAIN flights : flights[c].filter = Machine /\ flights[c].rows = {}
  <1>1. /\ Asked(Machine) \in Flight /\ Asked(Machine).filter = Machine /\ Asked(Machine).rows = {}
        /\ Table(Asked(Machine).rows) /\ Connections \in Nat \ {0}
    BY AskedFlight, ReviewConstants
  <1>2. Len(flights) = 1 /\ \A c \in DOMAIN flights : flights[c] = Asked(Machine)
    OBVIOUS
  <1>3. flights \in Seq(Flight)
    BY <1>1
  <1>4. ~AtRest
    BY <1>2 DEF AtRest
  <1>5. Len(flights) <= Connections
    BY <1>1, <1>2
  <1>6. \A c \in DOMAIN flights : Table(flights[c].rows)
    BY <1>1, <1>2, Zenon
  <1>7. FlightTypes
    BY <1>3, <1>5, <1>6, Zenon DEF FlightTypes
  <1> QED
    BY <1>1, <1>2, <1>4, <1>7

\* The state of a tab when it is mounted.
Opened ==
    /\ activeTab \in Tab /\ items = {} /\ loading = TRUE /\ auto = TRUE
    /\ filter = Machine /\ page = 1 /\ flights = <<Asked(Machine)>> /\ calm = TRUE

LEMMA OpenedInv ==
    ASSUME ReviewAssumption, Opened
    PROVE  ViewInv
  <1> USE DEF Opened
  <1>1. Table(items)
    BY FS_EmptySet DEF Table
  <1>2. /\ FlightTypes /\ ~AtRest
        /\ \A c \in DOMAIN flights : flights[c].filter = Machine /\ flights[c].rows = {}
    BY OpenedFlights
  <1>3. LogsInv
    BY <1>2 DEF LogsInv, Own
  <1>4. PageInv
    BY <1>1, PagesFromOne DEF PageInv
  <1> QED
    BY <1>1, <1>2, <1>3, <1>4, ReviewConstants DEF ViewInv, ViewTypes

LEMMA OpenedInvNext ==
    ASSUME ReviewAssumption
    PROVE  Opened' => ViewInv'
  <1>1. Opened => ViewInv
    BY OpenedInv
  <1> QED
    BY <1>1, PTL

\* Only a refresh without anything in flight leaves the page calm.
LEMMA SetFilterInv ==
    ASSUME ReviewAssumption, ViewInv, NEW fs \in Filters, SetFilter(fs)
    PROVE  ViewInv'
  <1> USE DEF ViewInv
  <1>1. /\ activeTab = "logs" /\ Refresh(fs) /\ filter' = fs /\ calm' = (calm /\ AtRest)
        /\ UNCHANGED <<activeTab, items, auto, page>>
    BY DEF SetFilter, RefreshLogs
  <1>2. /\ FlightTypes' /\ ~AtRest' /\ loading' = TRUE
        /\ \A c \in DOMAIN flights' :
              \/ c \in DOMAIN flights /\ flights'[c] = flights[c]
              \/ flights'[c] = Asked(fs)
    BY <1>1, RefreshFlights
  <1>3. calm' \in BOOLEAN
    BY <1>1 DEF ViewTypes, AtRest
  <1>4. ViewTypes'
    BY <1>1, <1>2, <1>3 DEF ViewTypes
  <1>5. LogsInv'
    <2> SUFFICES ASSUME calm', NEW c \in DOMAIN flights'
                 PROVE  flights'[c].filter = filter' /\ Own(flights'[c].rows, filter')
      BY <1>2 DEF LogsInv
    <2>1. DOMAIN flights = {}
      <3>1. AtRest
        BY <1>1, Zenon
      <3> QED
        BY <3>1 DEF AtRest
    <2>2. flights'[c] = Asked(fs)
      BY <1>2, <2>1
    <2> QED
      BY <1>1, <2>2, AskedFlight DEF Own
  <1>6. PageInv'
    BY <1>1 DEF PageInv
  <1> QED
    BY <1>2, <1>4, <1>5, <1>6

LEMMA ReadInv ==
    ASSUME ReviewAssumption, ReviewInv, NEW c \in DOMAIN flights, Read(c)
    PROVE  ViewInv'
  <1> USE DEF ReviewInv, ViewInv
  <1> DEFINE rows == CASE activeTab = "fleet" -> Fleet
                       [] activeTab = "logs"  -> DeployEvents(flights[c].filter, Limit)
                       [] activeTab = "audit" -> AuditEntries(Limit)
  <1>1. Table(rows) /\ (activeTab = "logs" => Own(rows, flights[c].filter))
    BY AnswersAreTables DEF ViewTypes, Tab
  <1>2. /\ flights' = [flights EXCEPT ![c].pc = "read", ![c].rows = rows]
        /\ UNCHANGED <<activeTab, items, loading, auto, filter, page, calm>>
    BY DEF Read
  <1>3. flights \in Seq(Flight) /\ flights[c] \in Flight
    BY DEF FlightTypes
  <1> HIDE DEF rows
  <1>4. /\ flights' \in Seq(Flight) /\ Len(flights') = Len(flights)
        /\ DOMAIN flights' = DOMAIN flights
        /\ flights'[c].rows = rows /\ flights'[c].filter = flights[c].filter
        /\ \A d \in DOMAIN flights : d # c => flights'[d] = flights[d]
    <2>1. rows \subseteq Row
      BY <1>1 DEF Table
    <2>2. PICK new \in Flight : /\ flights' = [flights EXCEPT ![c] = new]
                                /\ new.rows = rows /\ new.filter = flights[c].filter
      <3> DEFINE old == flights[c]
                 mid == [old EXCEPT !.pc = "read"]
                 new == [mid EXCEPT !.rows = rows]
      <3>1. mid \in Flight /\ mid.filter = old.filter
        BY <1>3 DEF Flight
      <3>2. new \in Flight /\ new.rows = rows /\ new.filter = mid.filter
        <4> HIDE DEF mid
        <4> QED
          BY <2>1, <3>1 DEF Flight
      <3>3. flights' = [flights EXCEPT ![c] = new]
        BY <1>2, <1>3
      <3> HIDE DEF new, mid
      <3> QED
        BY <3>1, <3>2, <3>3
    <2> QED
      BY <1>3, <2>2
  <1>5. FlightTypes'
    BY <1>1, <1>4 DEF FlightTypes
  <1>6. LogsInv'
    <2>1. AtRest' => AtRest
      BY <1>3, <1>4 DEF AtRest
    <2> SUFFICES ASSUME activeTab = "logs", calm, NEW d \in DOMAIN flights
                 PROVE  flights'[d].filter = filter /\ Own(flights'[d].rows, filter)
      BY <1>2, <1>4, <2>1 DEF LogsInv
    <2>2. CASE d = c
      BY <1>1, <1>4, <2>2 DEF LogsInv
    <2>3. CASE d # c
      BY <1>4, <2>3 DEF LogsInv
    <2> QED
      BY <2>2, <2>3
  <1>7. ViewTypes' /\ PageInv'
    BY <1>2 DEF ViewTypes, PageInv
  <1> QED
    BY <1>5, <1>6, <1>7

LEMMA ArriveInv ==
    ASSUME ReviewAssumption, ViewInv, NEW c \in DOMAIN flights, Arrive(c)
    PROVE  ViewInv'
  <1> USE DEF ViewInv
  <1>1. /\ flights' = RemoveAt(flights, c) /\ loading' = FALSE
        /\ UNCHANGED <<activeTab, auto, filter>>
    BY DEF Arrive
  <1>2. /\ flights \in Seq(Flight) /\ flights' \in Seq(Flight) /\ Len(flights') = Len(flights) - 1
        /\ \A d \in DOMAIN flights' : \E e \in DOMAIN flights : flights'[d] = flights[e]
    BY <1>1, RemoveAtKeeps DEF FlightTypes
  <1>3. FlightTypes'
    <2>1. Len(flights') <= Connections
      BY <1>2, ReviewConstants DEF FlightTypes
    <2> QED
      BY <1>2, <2>1 DEF FlightTypes
  <1>4. CASE Answer(c)
    <2>1. items' = flights[c].rows /\ calm' = calm /\ (page' = page \/ page' = 1)
          /\ (activeTab = "audit" => page' = 1)
      BY <1>4 DEF Answer, AnswerFleet, AnswerLogs, AnswerAudit
    <2>2. Table(items')
      BY <2>1 DEF FlightTypes
    <2>3. ViewTypes'
      BY <1>1, <2>1, <2>2 DEF ViewTypes
    <2>4. PageInv'
      BY <1>1, <2>1, <2>2, PagesFromOne DEF PageInv
    <2>5. LogsInv'
      BY <1>1, <1>2, <2>1 DEF LogsInv
    <2> QED
      BY <1>3, <2>3, <2>4, <2>5
  <1>5. CASE Fails(c)
    <2>1. UNCHANGED <<items, page>> /\ calm' = (calm /\ activeTab # "logs")
      BY <1>5 DEF Fails
    <2>2. calm' \in BOOLEAN
      BY <2>1 DEF ViewTypes
    <2>3. ViewTypes' /\ PageInv'
      BY <1>1, <2>1, <2>2 DEF ViewTypes, PageInv
    <2>4. LogsInv'
      BY <1>1, <2>1 DEF LogsInv
    <2> QED
      BY <1>3, <2>3, <2>4
  <1> QED
    BY <1>4, <1>5 DEF Arrive

LEMMA NextViewInv ==
    ASSUME ReviewAssumption, ReviewInv, Page
    PROVE  ViewInv'
  <1> USE DEF ReviewInv
  <1>1. ASSUME NEW t \in Tab, Switch(t) PROVE ViewInv'
    <2>1. Opened'
      BY <1>1 DEF Switch, Opened
    <2> QED
      BY <2>1, OpenedInvNext
  <1>2. ASSUME NEW fs \in Filters, SetFilter(fs) PROVE ViewInv'
    BY <1>2, SetFilterInv
  <1>3. ASSUME NEW i \in 1..PagesCount(items), SetPage(i) PROVE ViewInv'
    <2>1. /\ activeTab = "audit" /\ page' = i
          /\ UNCHANGED <<activeTab, items, loading, auto, filter, flights, calm>>
      BY <1>3 DEF SetPage
    <2>2. ViewTypes' /\ FlightTypes'
      BY <2>1 DEF ViewInv, ViewTypes, FlightTypes
    <2>3. LogsInv'
      BY <2>1 DEF LogsInv
    <2>4. PageInv'
      BY <1>3, <2>1 DEF PageInv
    <2> QED
      BY <2>2, <2>3, <2>4, Zenon DEF ViewInv
  <1>4. CASE ClickRefresh
    <2>1. PICK fs \in {Machine, filter} : Refresh(fs) /\ (activeTab = "logs" => fs = filter)
      BY <1>4 DEF ClickRefresh, RefreshFleet, RefreshLogs, RefreshAudit
    <2>2. fs \in Filters /\ auto' \in BOOLEAN
      BY <1>4, ReviewConstants DEF ViewInv, ViewTypes, ClickRefresh
    <2> QED
      BY <1>4, <2>1, <2>2, RefreshInv DEF ClickRefresh
  <1>5. CASE ToggleAuto
    <2>1. Refresh(Machine) /\ activeTab # "logs" /\ auto' \in BOOLEAN /\ Machine \in Filters
      BY <1>5, ReviewConstants DEF ToggleAuto, RefreshFleet
    <2> QED
      BY <1>5, <2>1, RefreshInv DEF ToggleAuto
  <1>6. CASE Poll
    <2>1. Refresh(Machine) /\ activeTab # "logs" /\ auto' \in BOOLEAN /\ Machine \in Filters
      BY <1>6, ReviewConstants DEF Poll, RefreshFleet, ViewInv, ViewTypes
    <2> QED
      BY <1>6, <2>1, RefreshInv DEF Poll
  <1>7. ASSUME NEW c \in DOMAIN flights, Read(c) PROVE ViewInv'
    BY <1>7, ReadInv
  <1>8. ASSUME NEW c \in DOMAIN flights, Arrive(c) PROVE ViewInv'
    BY <1>8, ArriveInv
  <1> QED
    BY <1>1, <1>2, <1>3, <1>4, <1>5, <1>6, <1>7, <1>8 DEF Page, User

\* Every step of the system is one of the pipeline, or none of its concern.
LEMMA NextIsTelemetryStep == [Next]_vars => [TelemetryNext]_telemetry
  BY DEF Next, vars

LEMMA InitReviewInv ==
    ASSUME TelemetryAssumption, ReviewAssumption, Init
    PROVE  ReviewInv
  <1>1. activeTab \in Tab
    BY DEF Init, Tab
  <1> QED
    BY <1>1, InitTypeInv, OpenedInv DEF Init, Opened, ReviewInv

LEMMA NextReviewInv ==
    ASSUME TelemetryAssumption, ReviewAssumption, ReviewInv, [Next]_vars
    PROVE  ReviewInv'
  <1>1. TypeInv'
    BY NextTypeInv, NextIsTelemetryStep DEF ReviewInv
  <1>2. ViewInv'
    <2>1. CASE Page
      BY <2>1, NextViewInv
    <2>2. CASE UNCHANGED <<view, calm>>
      BY <2>2 DEF view, ReviewInv, ViewInv, ViewTypes, FlightTypes, LogsInv, PageInv, AtRest
    <2> QED
      BY <2>1, <2>2 DEF Next, vars
  <1> QED
    BY <1>1, <1>2 DEF ReviewInv

-----------------------------------------------------------------------------
(* Theorems *)

\* The three facts of an inductive invariant.
LEMMA ReviewInvariance ==
    ASSUME TelemetryAssumption, ReviewAssumption
    PROVE  Spec => []ReviewInv
  <1>1. Init => ReviewInv
    BY InitReviewInv
  <1>2. ReviewInv /\ [Next]_vars => ReviewInv'
    BY NextReviewInv
  <1> QED
    BY <1>1, <1>2, PTL DEF Spec

\* Types of the pipeline and of the mounted page, and the browser's limit of requests.
THEOREM ReviewTypeCorrect ==
    ASSUME TelemetryAssumption, ReviewAssumption
    PROVE  Spec => []TypeOK
  <1>1. ReviewInv => TypeOK
    BY InvImplies
  <1> QED
    BY <1>1, ReviewInvariance, PTL

\* LogsTab.tsx: the filter and the refresh it starts stay together, whatever the
\* timing, when the filter is changed at rest and nothing fails.
THEOREM LogsAreOfTheFilter ==
    ASSUME TelemetryAssumption, ReviewAssumption
    PROVE  Spec => []LogsOwn
  <1>1. ReviewInv => LogsOwn
    BY InvImplies
  <1> QED
    BY <1>1, ReviewInvariance, PTL

\* AuditTab.tsx: setPage(1) with the rows keeps the page in use within the trail,
\* for any page size, any number of rows and any answer that overtakes another.
THEOREM AuditPageInRange ==
    ASSUME TelemetryAssumption, ReviewAssumption
    PROVE  Spec => []PageInRange
  <1>1. ReviewInv => PageInRange
    BY InvImplies
  <1> QED
    BY <1>1, ReviewInvariance, PTL

\* The pages only read: with them the pipeline behaves as it does alone.
THEOREM ReviewImplementsTelemetry ==
    ASSUME TelemetryAssumption, ReviewAssumption
    PROVE  Spec => TelemetrySpec
  <1>1. Init => TelemetryInit
    BY DEF Init
  <1>2. [Next]_vars => [TelemetryNext]_telemetry
    BY NextIsTelemetryStep
  <1> QED
    BY <1>1, <1>2, PTL DEF Spec, Fairness, TelemetrySpec

\* The Fleet page asks a server that has the last report of each machine.
THEOREM ReviewFleetLatest ==
    ASSUME TelemetryAssumption, ReviewAssumption
    PROVE  Spec => []FleetLatest
  BY ReviewImplementsTelemetry, FleetShowsLatest, PTL

\* The snapshot is as SnapshotCorrect has it while the pages are in use.
THEOREM ReviewSnapshotRecent ==
    ASSUME TelemetryAssumption, ReviewAssumption, IsFiniteSet(Machine)
    PROVE  Spec => []SnapshotRecent
  BY ReviewImplementsTelemetry, SnapshotCorrect, PTL
\* Neither do they make the admin store anything twice.
THEOREM ReviewStoresOnce ==
    ASSUME TelemetryAssumption, ReviewAssumption
    PROVE  Spec => []StoredOnce
  BY ReviewImplementsTelemetry, NothingStoredTwice, PTL

\* What the pages query are logs: of two rows ever shown the one with the higher id
\* is the later one, and a refresh shows no new row among older ones.
THEOREM ReviewOfLogs ==
    ASSUME TelemetryAssumption, ReviewAssumption
    PROVE  Spec => RefinesEventLog
  BY ReviewImplementsTelemetry, TablesAreLogs, PTL
=============================================================================
