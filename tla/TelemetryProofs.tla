-------------------------- MODULE TelemetryProofs --------------------------
(***************************************************************************)
(* Proofs about Telemetry, for any number of machines, rows, slots and     *)
(* events: what the snapshot and the fleet view show.                      *)
(***************************************************************************)
EXTENDS Telemetry, FiniteSetTheorems, TLAPS

-----------------------------------------------------------------------------
(* Ranks in finite sets *)

\* The elements of S that f puts at x or above.
UpTo(f, S, x) == {y \in S : f[y] >= f[x]}

\* A finite set has an element that f puts highest: one with the fewest above it.
LEMMA Highest ==
    ASSUME NEW S, IsFiniteSet(S), S # {}, NEW f \in [S -> Int]
    PROVE  \E x \in S : \A y \in S : f[y] <= f[x]
  <1> DEFINE T == {UpTo(f, S, x) : x \in S}
             R == StrictSubsetOrdering(S)
  <1>1. IsWellFoundedOn(R, SUBSET S)
    BY FS_StrictSubsetOrderingWellFounded, FS_FiniteSubsetsOfFinite
  <1>2. T \subseteq SUBSET S /\ T # {}
    <2>1. \A x \in S : UpTo(f, S, x) \in SUBSET S
      BY DEF UpTo
    <2>2. PICK x \in S : TRUE
      OBVIOUS
    <2> QED
      BY <2>1, <2>2
  <1>3. PICK t \in T : \A u \in T : ~(<<u, t>> \in R)
    <2> HIDE DEF T, R
    <2> QED
      BY <1>1, <1>2, WFMin
  <1>4. PICK x \in S : t = UpTo(f, S, x)
    OBVIOUS
  <1>5. ASSUME NEW y \in S, f[y] > f[x] PROVE FALSE
    <2>1. UpTo(f, S, y) \subseteq UpTo(f, S, x)
      BY <1>5 DEF UpTo
    <2>2. x \in UpTo(f, S, x) /\ x \notin UpTo(f, S, y)
      BY <1>5 DEF UpTo
    <2>3. UpTo(f, S, y) \in SUBSET S /\ UpTo(f, S, x) \in SUBSET S
      BY DEF UpTo
    <2>4. <<UpTo(f, S, y), UpTo(f, S, x)>> \in R
      BY <2>1, <2>2, <2>3 DEF StrictSubsetOrdering
    <2> QED
      BY <1>3, <1>4, <2>4
  <1> QED
    BY <1>5

\* ... and one that f puts lowest.
LEMMA Lowest ==
    ASSUME NEW S, IsFiniteSet(S), S # {}, NEW f \in [S -> Int]
    PROVE  \E x \in S : \A y \in S : f[x] <= f[y]
  <1> DEFINE g == [x \in S |-> -f[x]]
  <1>1. g \in [S -> Int]
    OBVIOUS
  <1>2. PICK x \in S : \A y \in S : g[y] <= g[x]
    <2> HIDE DEF g
    <2> QED
      BY <1>1, Highest
  <1> QED
    BY <1>2

\* Every rank is taken: of n elements, told apart by f, some is the k-th from above.
LEMMA Ranked ==
    ASSUME NEW S, IsFiniteSet(S), NEW f \in [S -> Int], \A x, y \in S : f[x] = f[y] => x = y,
           NEW k \in Nat, 1 <= k, k <= Cardinality(S)
    PROVE  \E x \in S : Cardinality(UpTo(f, S, x)) = k
  <1>1. \A x \in S : IsFiniteSet(UpTo(f, S, x)) /\ Cardinality(UpTo(f, S, x)) \in Nat
    BY FS_Subset, FS_CardinalityType DEF UpTo
  <1> DEFINE T == {x \in S : Cardinality(UpTo(f, S, x)) >= k}
             U == {x \in S : Cardinality(UpTo(f, S, x)) < k}
  <1>2. IsFiniteSet(T) /\ IsFiniteSet(U) /\ Cardinality(S) \in Nat
    BY FS_Subset, FS_CardinalityType
  <1>3. T # {}
    <2>1. S # {}
      BY FS_EmptySet
    <2>2. PICK x \in S : \A y \in S : f[x] <= f[y]
      BY <2>1, Lowest
    <2>3. UpTo(f, S, x) = S
      BY <2>2 DEF UpTo
    <2> QED
      BY <2>3
  <1>4. PICK x \in T : \A y \in T : f[y] <= f[x]
    <2>1. [y \in T |-> f[y]] \in [T -> Int]
      OBVIOUS
    <2> HIDE DEF T
    <2>2. PICK x \in T : \A y \in T : [z \in T |-> f[z]][y] <= [z \in T |-> f[z]][x]
      BY <1>2, <1>3, <2>1, Highest
    <2> QED
      BY <2>2
  <1> DEFINE V == {y \in S : f[y] > f[x]}
  <1>5. V \subseteq U /\ IsFiniteSet(V) /\ Cardinality(V) \in Nat
    <2>1. V \subseteq U
      BY <1>1, <1>4
    <2> QED
      BY <1>2, <2>1, FS_Subset, FS_CardinalityType
  <1>6. Cardinality(UpTo(f, S, x)) = Cardinality(V) + 1
    <2>1. UpTo(f, S, x) = V \cup {x} /\ x \notin V
      BY DEF UpTo
    <2> HIDE DEF V
    <2> QED
      BY <1>5, <2>1, FS_AddElement
  <1>7. Cardinality(V) < k
    <2>1. CASE V = {}
      BY <2>1, FS_EmptySet
    <2>2. CASE V # {}
      <3>1. PICK v \in V : \A y \in V : f[v] <= f[y]
        <4>1. [y \in V |-> f[y]] \in [V -> Int]
          OBVIOUS
        <4>2. PICK v \in V : \A y \in V : [z \in V |-> f[z]][v] <= [z \in V |-> f[z]][y]
          <5> HIDE DEF V
          <5> QED
            BY <1>5, <2>2, <4>1, Lowest
        <4> QED
          BY <4>2
      <3>2. UpTo(f, S, v) = V
        BY <3>1 DEF UpTo
      <3> QED
        BY <1>5, <3>1, <3>2
    <2> QED
      BY <2>1, <2>2
  <1> QED
    BY <1>1, <1>4, <1>5, <1>6, <1>7
-----------------------------------------------------------------------------
(* Tables *)

\* Finitely many rows, told apart by their ids.
Table(rows) ==
    /\ rows \subseteq Row /\ IsFiniteSet(rows)
    /\ \A r, q \in rows : r.id = q.id => r = q

\* What a query or a prune keeps is a table, and closed towards the newer rows.
LEMMA NewestTable ==
    ASSUME NEW rows, Table(rows), NEW k \in Nat
    PROVE  /\ Newest(rows, k) \subseteq rows /\ Table(Newest(rows, k))
           /\ \A r \in Newest(rows, k) : \A q \in rows : q.id >= r.id => q \in Newest(rows, k)
  <1>1. Newest(rows, k) \subseteq rows
    BY DEF Newest
  <1>2. Table(Newest(rows, k))
    BY <1>1, FS_Subset DEF Table
  <1>3. ASSUME NEW r \in Newest(rows, k), NEW q \in rows, q.id >= r.id
        PROVE  q \in Newest(rows, k)
    <2> DEFINE A(x) == {y \in rows : y.id >= x.id}
    <2>1. r \in rows /\ \A x \in rows : x.id \in Nat
      BY <1>1 DEF Table, Row
    <2>2. A(q) \subseteq A(r) /\ A(r) \subseteq rows
      BY <1>3, <2>1
    <2>3. IsFiniteSet(A(r))
      BY <2>2, FS_Subset DEF Table
    <2>4. Cardinality(A(q)) <= Cardinality(A(r)) /\ Cardinality(A(q)) \in Nat /\ Cardinality(A(r)) \in Nat
      <3> HIDE DEF A
      <3> QED
        BY <2>2, <2>3, FS_Subset, FS_CardinalityType
    <2>5. Cardinality(A(r)) <= k
      BY DEF Newest
    <2>6. Cardinality(A(q)) <= k
      <3> HIDE DEF A
      <3> QED
        BY <2>4, <2>5
    <2> QED
      BY <2>6 DEF Newest
  <1> QED
    BY <1>1, <1>2, <1>3

\* Of k rows or more, the k newest are kept.
LEMMA NewestSize ==
    ASSUME NEW rows, Table(rows), NEW k \in Nat \ {0}, Cardinality(rows) >= k
    PROVE  Cardinality(Newest(rows, k)) >= k
  <1> DEFINE f == [r \in rows |-> r.id]
  <1>1. f \in [rows -> Int] /\ \A x, y \in rows : f[x] = f[y] => x = y
    BY DEF Table, Row
  <1>2. PICK x \in rows : Cardinality(UpTo(f, rows, x)) = k
    <2> HIDE DEF f
    <2> QED
      BY <1>1, Ranked DEF Table
  <1>3. UpTo(f, rows, x) = {q \in rows : q.id >= x.id}
    BY DEF UpTo
  <1>4. x \in Newest(rows, k)
    <2>1. Cardinality({q \in rows : q.id >= x.id}) = k
      <3> HIDE DEF f
      <3> QED
        BY <1>2, <1>3
    <2> HIDE DEF f
    <2> QED
      BY <2>1 DEF Newest
  <1>5. UpTo(f, rows, x) \subseteq Newest(rows, k) /\ IsFiniteSet(Newest(rows, k))
    BY <1>3, <1>4, NewestTable DEF Table
  <1> QED
    BY <1>2, <1>5, FS_Subset, FS_CardinalityType

\* A row is only left out when there are more than k.
LEMMA NewestFull ==
    ASSUME NEW rows, Table(rows), NEW k \in Nat, NEW r \in rows, r \notin Newest(rows, k)
    PROVE  Cardinality(rows) >= k
  <1> DEFINE A == {q \in rows : q.id >= r.id}
  <1>1. ~(Cardinality(A) <= k)
    BY DEF Newest
  <1>2. A \in SUBSET rows /\ IsFiniteSet(rows)
    BY DEF Table
  <1> HIDE DEF A
  <1> QED
    BY <1>1, <1>2, FS_Subset, FS_CardinalityType

\* The newest row of all is the first one kept.
LEMMA NewestFirst ==
    ASSUME NEW rows, Table(rows), NEW r \in rows, \A q \in rows : q.id <= r.id
    PROVE  r \in Newest(rows, 1)
  <1>1. {q \in rows : q.id >= r.id} = {r}
    BY DEF Table, Row
  <1>2. Cardinality({r}) = 1
    BY FS_Singleton
  <1> QED
    BY <1>1, <1>2 DEF Newest

\* An id that is not in use, and above all that are.
LEMMA NextIdFresh ==
    ASSUME NEW rows, Table(rows)
    PROVE  NextId(rows) \in Nat \ {0} /\ \A r \in rows : r.id < NextId(rows)
  <1>1. CASE rows = {}
    BY <1>1 DEF NextId
  <1>2. CASE rows # {}
    <2> DEFINE f == [r \in rows |-> r.id]
               M == {r.id : r \in rows}
    <2>1. f \in [rows -> Int] /\ M \subseteq Nat \ {0}
      BY DEF Table, Row
    <2>2. PICK x \in rows : \A y \in rows : f[y] <= f[x]
      <3> HIDE DEF f
      <3> QED
        BY <1>2, <2>1, Highest DEF Table
    <2>3. x.id \in M /\ \A m \in M : x.id >= m
      BY <2>2
    <2>4. Max(M) \in M /\ \A m \in M : Max(M) >= m
      <3> HIDE DEF M
      <3> QED
        BY <2>3 DEF Max
    <2>5. NextId(rows) = 1 + Max(M)
      BY <1>2 DEF NextId
    <2>6. \A r \in rows : r.id \in M
      OBVIOUS
    <2>7. Max(M) \in Nat \ {0} /\ \A r \in rows : r.id \in Nat
      <3> HIDE DEF M, f
      <3> QED
        BY <2>1, <2>4, <2>6
    <2> HIDE DEF M, f
    <2> QED
      BY <2>4, <2>5, <2>6, <2>7
  <1> QED
    BY <1>1, <1>2

\* An insert makes a table with one row more.
LEMMA InsertTable ==
    ASSUME NEW rows, Table(rows), NEW e \in Event
    PROVE  LET new == [id |-> NextId(rows), event |-> e] IN
           /\ Table(rows \cup {new}) /\ new \notin rows
           /\ Cardinality(rows \cup {new}) >= Cardinality(rows)
  <1> DEFINE i == NextId(rows)
             new == [id |-> i, event |-> e]
  <1>1. i \in Nat \ {0} /\ \A r \in rows : r.id < i /\ r.id \in Nat
    BY NextIdFresh DEF Table, Row
  <1>2. new \in Row /\ new.id = i
    BY <1>1 DEF Row
  <1>3. new \notin rows
    BY <1>1, <1>2
  <1>4. \A r, q \in rows \cup {new} : r.id = q.id => r = q
    BY <1>1, <1>2 DEF Table
  <1>5. IsFiniteSet(rows \cup {new}) /\ Cardinality(rows \cup {new}) = Cardinality(rows) + 1
        /\ Cardinality(rows) \in Nat
    <2> HIDE DEF new
    <2> QED
      BY <1>3, FS_AddElement, FS_CardinalityType DEF Table
  <1>6. rows \cup {new} \subseteq Row
    BY <1>2 DEF Table
  <1> QED
    BY <1>3, <1>4, <1>5, <1>6 DEF Table

-----------------------------------------------------------------------------
(* Type correctness *)

\* The parts of TelemetryTypeOK, and what they rest on.
Types ==
    /\ time \in 0..MaxEvents
    /\ machines \in [Machine -> 0..MaxEvents]
    /\ heard \in [Machine -> 0..MaxEvents]
    /\ last \in [Machine -> 0..MaxEvents]
    /\ clean \in [Machine -> BOOLEAN]

Queues ==
    /\ ingestSem \subseteq Event /\ IsFiniteSet(ingestSem)
    /\ Cardinality(ingestSem) <= MaxInFlight
    /\ posts \subseteq Post
    /\ \A p \in posts : p.event.kind # "log" => p.left = 1

TypeInv == Types /\ Queues /\ Table(deploy_event) /\ Table(audit)

LEMMA TypeInvImpliesTypeOK == TypeInv => TelemetryTypeOK
  BY DEF TypeInv, Types, Queues, Table, TelemetryTypeOK

LEMMA Constants ==
    ASSUME TelemetryAssumption
    PROVE  /\ Lines \in Nat \ {0} /\ MaxMachines \in Nat \ {0}
           /\ MaxInFlight \in Nat \ {0} /\ MaxRows \in Nat \ {0} /\ MaxEvents \in Nat
           /\ Reported \subseteq {"started", "progress", "succeeded", "failed"}
  BY DEF TelemetryAssumption

\* Another slot, or none, and another post with all of its lines to go, or none.
LEMMA ForwardQueues ==
    ASSUME TelemetryAssumption, Queues, NEW e \in Event, ForwardIngest(e)
    PROVE  /\ Queues'
           /\ posts \subseteq posts'
           /\ \A p \in posts' : p \in posts \/ p.event = e
  <1>1. CASE ~(Cardinality(ingestSem) < MaxInFlight)
    BY <1>1 DEF ForwardIngest, Queues
  <1>2. CASE Cardinality(ingestSem) < MaxInFlight
    <2> DEFINE new == [event |-> e, left |-> IF e.kind = "log" THEN Lines ELSE 1]
    <2>1. ingestSem' = ingestSem \cup {e} /\ posts' = posts \cup {new}
      BY <1>2 DEF ForwardIngest
    <2>2. new \in Post /\ new.event = e /\ (e.kind # "log" => new.left = 1)
      BY Constants DEF Post
    <2>3. ingestSem' \subseteq Event
      BY <2>1 DEF Queues
    <2>4. IsFiniteSet(ingestSem') /\ Cardinality(ingestSem') <= MaxInFlight
      <3>1. IsFiniteSet(ingestSem) /\ Cardinality(ingestSem) \in Nat /\ MaxInFlight \in Nat
        BY FS_CardinalityType, Constants DEF Queues
      <3> QED
        BY <1>2, <2>1, <3>1, FS_AddElement
    <2>5. posts' \subseteq Post /\ \A p \in posts' : p.event.kind # "log" => p.left = 1
      <3> HIDE DEF new
      <3> QED
        BY <2>1, <2>2 DEF Queues
    <2>6. posts \subseteq posts' /\ \A p \in posts' : p \in posts \/ p.event = e
      <3> HIDE DEF new
      <3> QED
        BY <2>1, <2>2
    <2> QED
      BY <2>3, <2>4, <2>5, <2>6 DEF Queues
  <1> QED
    BY <1>1, <1>2

LEMMA NewEvent ==
    ASSUME Types, TelemetryAssumption, time < MaxEvents, NEW kind \in Kind,
           NEW s \in Machine \cup {"none"}, NEW state \in Reported \cup {"none"}
    PROVE  /\ New(kind, s, state) \in Event
           /\ New(kind, s, state).kind = kind /\ New(kind, s, state).serial = s
           /\ New(kind, s, state).n = time + 1
  BY Constants DEF Types, New, Event

\* Giving slots back and dropping posts keeps the queues.
LEMMA ShrinkQueues ==
    ASSUME TelemetryAssumption, Queues, ingestSem' \subseteq ingestSem, posts' \subseteq posts
    PROVE  Queues'
  <1>1. IsFiniteSet(ingestSem') /\ Cardinality(ingestSem') <= Cardinality(ingestSem)
        /\ Cardinality(ingestSem') \in Nat /\ Cardinality(ingestSem) \in Nat
    BY FS_Subset, FS_CardinalityType DEF Queues
  <1>2. Cardinality(ingestSem') <= MaxInFlight
    BY <1>1, Constants DEF Queues
  <1> QED
    BY <1>1, <1>2 DEF Queues

LEMMA InitTypeInv ==
    ASSUME TelemetryAssumption, TelemetryInit
    PROVE  TypeInv
  <1>1. Types
    BY Constants DEF TelemetryInit, Types
  <1>2. Queues
    BY Constants, FS_EmptySet DEF TelemetryInit, Queues
  <1>3. Table({})
    BY FS_EmptySet DEF Table
  <1> QED
    BY <1>1, <1>2, <1>3 DEF TelemetryInit, TypeInv

\* What the admin stores: a row more in one of the tables, and the post has a line
\* less to go or is gone.
LEMMA IngestStep ==
    ASSUME TelemetryAssumption, TypeInv, NEW p \in posts, Ingest(p)
    PROVE  /\ TypeInv'
           /\ \A q \in posts' : q \in posts \/ (q.event = p.event /\ p.left > 1)
  <1>1. p \in Post /\ p.event \in Event /\ p.left \in 1..Lines
    BY DEF TypeInv, Queues, Post
  <1>2. Table(deploy_event)' /\ Table(audit)'
    <2>1. CASE p.event.kind = "audit"
      <3>1. Table(audit \cup {[id |-> NextId(audit), event |-> p.event]})
        BY <1>1, InsertTable DEF TypeInv
      <3>2. /\ audit' = audit \cup {[id |-> NextId(audit), event |-> p.event]}
            /\ UNCHANGED deploy_event
        BY <2>1 DEF Ingest
      <3> QED
        BY <3>1, <3>2 DEF TypeInv
    <2>2. CASE p.event.kind # "audit"
      <3>1. Table(deploy_event \cup {[id |-> NextId(deploy_event), event |-> p.event]})
        BY <1>1, InsertTable DEF TypeInv
      <3>2. /\ deploy_event' = deploy_event \cup {[id |-> NextId(deploy_event), event |-> p.event]}
            /\ UNCHANGED audit
        BY <2>2 DEF Ingest
      <3> QED
        BY <3>1, <3>2 DEF TypeInv
    <2> QED
      BY <2>1, <2>2
  <1>3. Types'
    BY DEF Ingest, TypeInv, Types
  <1>4. Queues' /\ \A q \in posts' : q \in posts \/ (q.event = p.event /\ p.left > 1)
    <2>1. CASE ~(p.left > 1)
      <3>1. ingestSem' \subseteq ingestSem /\ posts' \subseteq posts
        BY <2>1 DEF Ingest
      <3>2. Queues'
        BY <3>1, ShrinkQueues DEF TypeInv
      <3> QED
        BY <3>1, <3>2
    <2>2. CASE p.left > 1
      <3> DEFINE rest == [p EXCEPT !.left = @ - 1]
      <3>1. posts' = (posts \ {p}) \cup {rest} /\ ingestSem' = ingestSem
        BY <2>2 DEF Ingest
      <3>2. rest \in Post /\ rest.event = p.event
        BY <1>1, <2>2, Constants DEF Post
      <3>3. p.event.kind = "log"
        BY <2>2 DEF TypeInv, Queues
      <3> HIDE DEF rest
      <3> QED
        BY <2>2, <3>1, <3>2, <3>3 DEF TypeInv, Queues
    <2> QED
      BY <2>1, <2>2
  <1> QED
    BY <1>2, <1>3, <1>4 DEF TypeInv

\* Every step keeps the types, the bounds of the queues and the ids apart.
LEMMA NextTypeInv ==
    ASSUME TelemetryAssumption, TypeInv, [TelemetryNext]_telemetry
    PROVE  TypeInv'
  <1> USE DEF TypeInv
  <1>1. ASSUME NEW s \in Machine, HandleReport(s) PROVE TypeInv'
    <2>1. PICK state \in Reported : ForwardIngest(New("status", s, state))
      BY <1>1 DEF HandleReport
    <2>2. New("status", s, state) \in Event
      BY <1>1, NewEvent DEF HandleReport, Tick, Kind
    <2>3. Queues'
      BY <2>1, <2>2, ForwardQueues
    <2>4. time' \in 1..MaxEvents
      BY <1>1, Constants DEF HandleReport, Tick, Types
    <2>5. machines' \in [Machine -> 0..MaxEvents]
      <3> DEFINE known == {t \in Machine : machines[t] # 0}
                 oldest == CHOOSE t \in known : \A u \in known : machines[t] <= machines[u]
      <3>1. \/ machines' = [[machines EXCEPT ![oldest] = 0] EXCEPT ![s] = time']
            \/ machines' = [machines EXCEPT ![s] = time']
        BY <1>1 DEF HandleReport, RecordMachine
      <3> HIDE DEF known, oldest
      <3> QED
        BY <2>4, <3>1 DEF Types
    <2>6. /\ heard' \in [Machine -> 0..MaxEvents] /\ last' \in [Machine -> 0..MaxEvents]
          /\ clean' \in [Machine -> BOOLEAN]
      BY <1>1, <2>4 DEF HandleReport, Types
    <2>7. Types'
      BY <2>4, <2>5, <2>6 DEF Types
    <2> QED
      BY <1>1, <2>3, <2>7 DEF HandleReport
  <1>2. ASSUME NEW kind \in Kind, NEW s \in Machine \cup {"none"},
               Tick, ForwardIngest(New(kind, s, "none")),
               UNCHANGED <<machines, deploy_event, audit, heard, last, clean>>
        PROVE  TypeInv'
    <2>1. New(kind, s, "none") \in Event
      BY <1>2, NewEvent DEF Tick
    <2>2. Queues'
      BY <1>2, <2>1, ForwardQueues
    <2>3. Types'
      BY <1>2, Constants DEF Tick, Types
    <2> QED
      BY <1>2, <2>2, <2>3
  <1>3. ASSUME NEW s \in Machine, HandleLog(s) PROVE TypeInv'
    BY <1>2, <1>3 DEF HandleLog, Kind
  <1>4. CASE AuditResolve
    BY <1>2, <1>4 DEF AuditResolve, Kind
  <1>5. CASE AuditMW
    <2>1. New("audit", "none", "none") \in Event
      BY <1>5, NewEvent DEF AuditMW, Tick, Kind
    <2>2. Table(audit)'
      BY <1>5, <2>1, InsertTable DEF AuditMW
    <2>3. Types'
      BY <1>5, Constants DEF AuditMW, Tick, Types
    <2> QED
      BY <1>5, <2>2, <2>3 DEF AuditMW, Queues
  <1>6. ASSUME NEW e \in ingestSem, TimeOut(e) PROVE TypeInv'
    <2>1. Queues'
      BY <1>6, ShrinkQueues DEF TimeOut
    <2> QED
      BY <1>6, <2>1 DEF TimeOut, Types
  <1>7. ASSUME NEW p \in posts, Ingest(p) PROVE TypeInv'
    BY <1>7, IngestStep
  <1>8. ASSUME NEW p \in posts, Lose(p) PROVE TypeInv'
    <2>1. Queues'
      BY <1>8, ShrinkQueues DEF Lose
    <2>2. Types'
      BY <1>8 DEF Lose, Types
    <2> QED
      BY <1>8, <2>1, <2>2 DEF Lose
  <1>9. CASE Restart
    <2>1. Queues'
      BY <1>9, ShrinkQueues DEF Restart
    <2>2. Types'
      BY <1>9, Constants DEF Restart, Types
    <2> QED
      BY <1>9, <2>1, <2>2 DEF Restart
  <1>10. CASE Prune
    <2>1. Table(Newest(deploy_event, MaxRows)) /\ Table(Newest(audit, MaxRows))
      BY NewestTable, Constants
    <2>2. Table(deploy_event)' /\ Table(audit)'
      BY <1>10, <2>1 DEF Prune
    <2> QED
      BY <1>10, <2>2 DEF Prune, Types, Queues
  <1>11. CASE UNCHANGED telemetry
    BY <1>11 DEF telemetry, Types, Queues
  <1> QED
    BY <1>1, <1>3, <1>4, <1>5, <1>6, <1>7, <1>8, <1>9, <1>10, <1>11 DEF TelemetryNext

\* The queues stay within their limits and ids are never used twice in a table,
\* however many machines report and whatever is lost (main.go's ingestSem, the
\* primary keys of store.go).
THEOREM TelemetryTypeCorrect ==
    ASSUME TelemetryAssumption
    PROVE  TelemetrySpec => []TelemetryTypeOK
  <1>1. TelemetryInit => TypeInv
    BY InitTypeInv
  <1>2. TypeInv /\ [TelemetryNext]_telemetry => TypeInv'
    BY NextTypeInv
  <1>3. TypeInv => TelemetryTypeOK
    BY TypeInvImpliesTypeOK
  <1> QED
    BY <1>1, <1>2, <1>3, PTL DEF TelemetrySpec

-----------------------------------------------------------------------------
(* The fleet view *)

\* Of a machine nothing of which was dropped, lost or overtaken, the last report
\* is on its way, or stored last, or too old for the table.
OnItsWay(s) == \A p \in Pending(s) : p.event.n = last[s] /\ \A q \in Pending(s) : q = p

StoredLast(s) ==
    \/ \E r \in StatusRows(s) : r.event.n = last[s] /\ \A q \in StatusRows(s) : q.id <= r.id
    \/ StatusRows(s) = {} /\ Cardinality(deploy_event) >= MaxRows

FleetInv(s) == clean[s] => OnItsWay(s) /\ (Pending(s) = {} /\ last[s] # 0 => StoredLast(s))

\* FleetInv only looks at the posts and the rows of the machine.
LEMMA FleetFrame ==
    ASSUME NEW s \in Machine, FleetInv(s), clean'[s] => clean[s], last'[s] = last[s],
           Pending(s)' = Pending(s), StatusRows(s)' = StatusRows(s),
           Cardinality(deploy_event) >= MaxRows => Cardinality(deploy_event') >= MaxRows
    PROVE  FleetInv(s)'
  <1>1. OnItsWay(s)' = OnItsWay(s)
    BY DEF OnItsWay
  <1>2. StoredLast(s) => StoredLast(s)'
    BY DEF StoredLast
  <1> QED
    BY <1>1, <1>2 DEF FleetInv

LEMMA StatusTable ==
    ASSUME TypeInv, NEW s \in Machine
    PROVE  /\ StatusRows(s) \subseteq deploy_event /\ Table(StatusRows(s))
           /\ \A r \in deploy_event : r.id \in Nat
  <1>1. StatusRows(s) \subseteq deploy_event
    BY DEF StatusRows
  <1> QED
    BY <1>1, FS_Subset DEF TypeInv, Table, Row

\* The page shows a machine's row when it is the last one stored.
LEMMA FleetInvImpliesLatest ==
    ASSUME TypeInv, \A s \in Machine : FleetInv(s)
    PROVE  FleetLatest
  <1> SUFFICES ASSUME NEW s \in Machine, clean[s], last[s] # 0, Pending(s) = {}
               PROVE  LET shown == {r \in Fleet : r.event.serial = s} IN
                      \/ \E r \in shown : r.event.n = last[s]
                      \/ shown = {} /\ Cardinality(deploy_event) >= MaxRows
    BY DEF FleetLatest
  <1>1. StoredLast(s)
    BY DEF FleetInv
  <1>2. CASE \E r \in StatusRows(s) : r.event.n = last[s] /\ \A q \in StatusRows(s) : q.id <= r.id
    <2>1. PICK r \in StatusRows(s) : r.event.n = last[s] /\ \A q \in StatusRows(s) : q.id <= r.id
      BY <1>2
    <2>2. r \in Newest(StatusRows(s), 1)
      BY <2>1, StatusTable, NewestFirst
    <2>3. r \in Fleet /\ r.event.serial = s
      BY <2>2 DEF Fleet, StatusRows
    <2> QED
      BY <2>1, <2>3
  <1>3. CASE StatusRows(s) = {} /\ Cardinality(deploy_event) >= MaxRows
    <2>1. ASSUME NEW r \in Fleet, r.event.serial = s PROVE FALSE
      <3>1. PICK t \in Machine : r \in Newest(StatusRows(t), 1)
        BY DEF Fleet
      <3>2. r \in StatusRows(t)
        BY <3>1 DEF Newest
      <3>3. r \in StatusRows(s)
        BY <2>1, <3>2 DEF StatusRows
      <3> QED
        BY <1>3, <3>3
    <2> QED
      BY <1>3, <2>1
  <1> QED
    BY <1>1, <1>2, <1>3 DEF StoredLast

\* A post of another kind, or of another machine, is none of this one's.
LEMMA PendingFrame ==
    ASSUME NEW s \in Machine, NEW e, ~(e.kind = "status" /\ e.serial = s),
           posts \subseteq posts', \A p \in posts' : p \in posts \/ p.event = e
    PROVE  Pending(s)' = Pending(s)
  BY DEF Pending

LEMMA ReportFleet ==
    ASSUME TelemetryAssumption, TypeInv, NEW s \in Machine, NEW t \in Machine, FleetInv(s), HandleReport(t)
    PROVE  FleetInv(s)'
  <1> USE DEF TypeInv
  <1>1. PICK state \in Reported : ForwardIngest(New("status", t, state))
    BY DEF HandleReport
  <1> DEFINE e == New("status", t, state)
  <1>2. e \in Event /\ e.kind = "status" /\ e.serial = t /\ e.n = time + 1
    BY NewEvent DEF HandleReport, Tick, Kind
  <1>3. posts \subseteq posts' /\ \A p \in posts' : p \in posts \/ p.event = e
    BY <1>1, <1>2, ForwardQueues
  <1>4. StatusRows(s)' = StatusRows(s) /\ deploy_event' = deploy_event
    BY DEF HandleReport, StatusRows
  <1>5. CASE s # t
    <2>1. Pending(s)' = Pending(s)
      <3> HIDE DEF e
      <3> QED
        BY <1>2, <1>3, <1>5, PendingFrame
    <2>2. last'[s] = last[s] /\ clean'[s] = clean[s]
      BY <1>5 DEF HandleReport, Types
    <2> QED
      BY <1>4, <2>1, <2>2, FleetFrame
  <1>6. CASE s = t
    <2>1. last'[s] = time + 1
      BY <1>6 DEF HandleReport, Tick, Types
    <2>2. ASSUME clean'[s] PROVE posts' # posts /\ Pending(s) = {}
      BY <1>6, <2>2 DEF HandleReport, Types
    <2>3. ASSUME posts' # posts, Pending(s) = {}
          PROVE  OnItsWay(s)' /\ Pending(s)' # {}
      <3> DEFINE new == [event |-> e, left |-> 1]
      <3>1. posts' = posts \cup {new}
        <4> HIDE DEF e
        <4> QED
          BY <1>1, <1>2, <2>3 DEF ForwardIngest, e
      <3>2. new.event = e
        OBVIOUS
      <3> HIDE DEF new, e
      <3>3. Pending(s)' = {new}
        BY <1>2, <1>6, <2>3, <3>1, <3>2 DEF Pending
      <3> QED
        BY <1>2, <2>1, <3>2, <3>3 DEF OnItsWay
    <2> QED
      BY <2>2, <2>3 DEF FleetInv
  <1> QED
    BY <1>5, <1>6

\* The report stored is the newest row, and of this machine the only one missing.
LEMMA IngestFleet ==
    ASSUME TelemetryAssumption, TypeInv, NEW s \in Machine, FleetInv(s), NEW p \in posts, Ingest(p)
    PROVE  FleetInv(s)'
  <1> USE DEF TypeInv
  <1>1. p \in Post /\ p.event \in Event /\ (p.event.kind # "log" => p.left = 1)
    BY DEF Queues, Post
  <1>2. last' = last /\ clean' = clean
    BY DEF Ingest
  <1> DEFINE new == [id |-> NextId(deploy_event), event |-> p.event]
  <1>3. /\ Table(deploy_event \cup {new})
        /\ Cardinality(deploy_event \cup {new}) >= Cardinality(deploy_event)
    BY <1>1, InsertTable
  <1>4. Cardinality(deploy_event) \in Nat /\ Cardinality(deploy_event \cup {new}) \in Nat
    <2> HIDE DEF new
    <2> QED
      BY <1>3, FS_CardinalityType DEF Table
  <1>5. IF p.event.kind = "audit" THEN deploy_event' = deploy_event
                                  ELSE deploy_event' = deploy_event \cup {new}
    BY DEF Ingest
  <1>6. Cardinality(deploy_event) >= MaxRows => Cardinality(deploy_event') >= MaxRows
    <2> HIDE DEF new
    <2> QED
      BY <1>3, <1>4, <1>5, Constants
  <1>7. new.id = NextId(deploy_event) /\ new.event = p.event
    OBVIOUS
  <1>8. posts \ {p} \subseteq posts' /\ \A q \in posts' : q \in posts \ {p} \/ (q.event = p.event /\ p.left > 1)
    <2>1. CASE p.left > 1
      <3> DEFINE rest == [p EXCEPT !.left = @ - 1]
      <3>1. posts' = (posts \ {p}) \cup {rest}
        BY <2>1 DEF Ingest
      <3>2. rest.event = p.event
        BY <1>1 DEF Post
      <3> HIDE DEF rest
      <3> QED
        BY <2>1, <3>1, <3>2
    <2>2. CASE ~(p.left > 1)
      BY <2>2 DEF Ingest
    <2> QED
      BY <2>1, <2>2
  <1> HIDE DEF new
  <1>9. CASE p \notin Pending(s)
    <2>1. Pending(s)' = Pending(s)
      BY <1>8, <1>9 DEF Pending
    <2>2. StatusRows(s)' = StatusRows(s)
      BY <1>5, <1>7, <1>9 DEF Pending, StatusRows
    <2> QED
      BY <1>2, <1>6, <2>1, <2>2, FleetFrame
  <1>10. CASE p \in Pending(s)
    <2>1. p.event.kind = "status" /\ p.event.serial = s /\ p.left = 1
      BY <1>1, <1>10 DEF Pending
    <2>2. StatusRows(s)' = StatusRows(s) \cup {new}
      BY <1>5, <1>7, <2>1 DEF StatusRows
    <2>3. \A q \in StatusRows(s)' : q.id <= new.id
      BY <1>7, <2>2, NextIdFresh, StatusTable
    <2>4. ASSUME clean[s] PROVE p.event.n = last[s] /\ Pending(s) = {p}
      BY <1>10, <2>4 DEF FleetInv, OnItsWay
    <2>5. ASSUME clean[s] PROVE Pending(s)' = {}
      BY <1>8, <2>1, <2>4, <2>5 DEF Pending
    <2>6. ASSUME clean[s] PROVE StoredLast(s)'
      BY <1>2, <1>7, <2>2, <2>3, <2>4, <2>6 DEF StoredLast
    <2> QED
      BY <1>2, <2>5, <2>6 DEF FleetInv, OnItsWay
  <1> QED
    BY <1>9, <1>10

\* The row shown is pruned only with everything older, and then the table is full.
LEMMA PruneFleet ==
    ASSUME TelemetryAssumption, TypeInv, NEW s \in Machine, FleetInv(s), Prune
    PROVE  FleetInv(s)'
  <1> USE DEF TypeInv
  <1>1. deploy_event' = Newest(deploy_event, MaxRows) /\ MaxRows \in Nat \ {0}
    BY Constants DEF Prune
  <1>2. Cardinality(deploy_event) \in Nat
    BY FS_CardinalityType DEF Table
  <1>3. Cardinality(deploy_event) >= MaxRows => Cardinality(deploy_event') >= MaxRows
    BY <1>1, NewestSize
  <1>4. /\ deploy_event' \subseteq deploy_event
        /\ \A r \in deploy_event' : \A q \in deploy_event : q.id >= r.id => q \in deploy_event'
    BY <1>1, NewestTable
  <1>5. Pending(s)' = Pending(s) /\ last' = last /\ clean' = clean
    BY DEF Prune, Pending
  <1>6. OnItsWay(s)' = OnItsWay(s)
    BY <1>5 DEF OnItsWay
  <1>7. StatusRows(s)' = StatusRows(s) \cap deploy_event'
    BY <1>4 DEF StatusRows
  <1>8. ASSUME StoredLast(s) PROVE StoredLast(s)'
    <2>1. CASE StatusRows(s) = {} /\ Cardinality(deploy_event) >= MaxRows
      BY <1>3, <1>7, <2>1 DEF StoredLast
    <2>2. CASE \E r \in StatusRows(s) : r.event.n = last[s] /\ \A q \in StatusRows(s) : q.id <= r.id
      <3>1. PICK r \in StatusRows(s) : r.event.n = last[s] /\ \A q \in StatusRows(s) : q.id <= r.id
        BY <2>2
      <3>2. CASE r \in deploy_event'
        BY <1>5, <1>7, <3>1, <3>2 DEF StoredLast
      <3>3. CASE r \notin deploy_event'
        <4>1. r \in deploy_event
          BY StatusTable
        <4>2. Cardinality(deploy_event) >= MaxRows
          BY <1>1, <3>3, <4>1, NewestFull
        <4>3. ASSUME NEW q \in StatusRows(s)' PROVE FALSE
          <5>1. q \in StatusRows(s) /\ q \in deploy_event' /\ q \in deploy_event
            BY <1>4, <1>7, <4>3
          <5>2. r.id >= q.id
            BY <3>1, <4>1, <5>1, StatusTable
          <5> QED
            BY <1>4, <3>3, <4>1, <5>1, <5>2
        <4> QED
          BY <1>3, <4>2, <4>3 DEF StoredLast
      <3> QED
        BY <3>2, <3>3
    <2> QED
      BY <1>8, <2>1, <2>2 DEF StoredLast
  <1> QED
    BY <1>5, <1>6, <1>8 DEF FleetInv

LEMMA NextFleetInv ==
    ASSUME TelemetryAssumption, TypeInv, NEW s \in Machine, FleetInv(s), [TelemetryNext]_telemetry
    PROVE  FleetInv(s)'
  <1> USE DEF TypeInv
  <1>1. ASSUME NEW t \in Machine, HandleReport(t) PROVE FleetInv(s)'
    BY <1>1, ReportFleet
  <1>2. ASSUME NEW kind \in {"log", "audit"}, NEW t \in Machine \cup {"none"},
               Tick, ForwardIngest(New(kind, t, "none")),
               UNCHANGED <<deploy_event, last, clean>>
        PROVE  FleetInv(s)'
    <2>1. New(kind, t, "none") \in Event /\ New(kind, t, "none").kind = kind
      BY <1>2, NewEvent DEF Tick, Kind
    <2>2. /\ posts \subseteq posts'
          /\ \A p \in posts' : p \in posts \/ p.event = New(kind, t, "none")
      BY <1>2, <2>1, ForwardQueues
    <2>3. Pending(s)' = Pending(s)
      BY <2>1, <2>2, PendingFrame
    <2>4. StatusRows(s)' = StatusRows(s)
      BY <1>2 DEF StatusRows
    <2> QED
      BY <1>2, <2>3, <2>4, FleetFrame
  <1>3. ASSUME NEW t \in Machine, HandleLog(t) PROVE FleetInv(s)'
    BY <1>2, <1>3 DEF HandleLog
  <1>4. CASE AuditResolve
    BY <1>2, <1>4 DEF AuditResolve
  <1>5. ASSUME UNCHANGED <<posts, deploy_event, last, clean>> PROVE FleetInv(s)'
    <2>1. Pending(s)' = Pending(s) /\ StatusRows(s)' = StatusRows(s)
      BY <1>5 DEF Pending, StatusRows
    <2> QED
      BY <1>5, <2>1, FleetFrame
  <1>6. CASE AuditMW
    BY <1>5, <1>6 DEF AuditMW
  <1>7. ASSUME NEW e \in ingestSem, TimeOut(e) PROVE FleetInv(s)'
    BY <1>5, <1>7 DEF TimeOut
  <1>8. ASSUME NEW p \in posts, Ingest(p) PROVE FleetInv(s)'
    BY <1>8, IngestFleet
  <1>9. ASSUME posts' \subseteq posts, UNCHANGED <<deploy_event, last>>,
               clean'[s] => clean[s] /\ Pending(s) \subseteq posts'
        PROVE  FleetInv(s)'
    <2>1. CASE ~clean'[s]
      BY <2>1 DEF FleetInv
    <2>2. CASE clean'[s]
      <3>1. Pending(s)' = Pending(s)
        BY <1>9, <2>2 DEF Pending
      <3>2. StatusRows(s)' = StatusRows(s)
        BY <1>9 DEF StatusRows
      <3> QED
        BY <1>9, <2>2, <3>1, <3>2, FleetFrame
    <2> QED
      BY <2>1, <2>2
  <1>10. ASSUME NEW p \in posts, Lose(p) PROVE FleetInv(s)'
    <2>1. clean'[s] => clean[s] /\ p \notin Pending(s)
      BY <1>10 DEF Lose
    <2>2. posts' = posts \ {p} /\ UNCHANGED <<deploy_event, last>>
      BY <1>10 DEF Lose
    <2>3. Pending(s) \subseteq posts
      BY DEF Pending
    <2> QED
      BY <1>9, <2>1, <2>2, <2>3
  <1>11. CASE Restart
    <2>1. clean'[s] => clean[s] /\ Pending(s) \subseteq posts'
      BY <1>11 DEF Restart
    <2> QED
      BY <1>9, <1>11, <2>1 DEF Restart
  <1>12. CASE Prune
    BY <1>12, PruneFleet
  <1>13. CASE UNCHANGED telemetry
    BY <1>5, <1>13 DEF telemetry
  <1> QED
    BY <1>1, <1>3, <1>4, <1>6, <1>7, <1>8, <1>10, <1>11, <1>12, <1>13 DEF TelemetryNext

\* GET /api/fleet (store.go's fleet) shows a machine with its last report - or, once
\* newer rows fill the table, not at all - when none of its reports was dropped or
\* lost and each was stored before the next one was posted.
THEOREM FleetShowsLatest ==
    ASSUME TelemetryAssumption
    PROVE  TelemetrySpec => []FleetLatest
  <1> DEFINE FInv == TypeInv /\ \A s \in Machine : FleetInv(s)
  <1>1. TelemetryInit => FInv
    <2>1. ASSUME TelemetryInit, NEW s \in Machine PROVE FleetInv(s)
      BY <2>1 DEF TelemetryInit, FleetInv, OnItsWay, Pending
    <2> QED
      BY <2>1, InitTypeInv
  <1>2. FInv /\ [TelemetryNext]_telemetry => FInv'
    <2>1. ASSUME FInv, [TelemetryNext]_telemetry, NEW s \in Machine PROVE FleetInv(s)'
      BY <2>1, NextFleetInv
    <2> QED
      BY <2>1, NextTypeInv
  <1>3. FInv => FleetLatest
    BY FleetInvImpliesLatest
  <1> QED
    BY <1>1, <1>2, <1>3, PTL DEF TelemetrySpec

-----------------------------------------------------------------------------
(* The snapshot *)

\* The machines heard of later than s.
Above(h, s) == {t \in Machine : h[t] > h[s]}

Recent(m, h) ==
    \A s \in Machine : m[s] = IF Cardinality(Above(h, s)) < MaxMachines THEN h[s] ELSE 0

\* No two machines are heard of at a time.
SnapInv ==
    /\ \A s \in Machine : heard[s] <= time
    /\ \A s, t \in Machine : heard[s] # 0 /\ heard[s] = heard[t] => s = t
    /\ Recent(machines, heard)

\* The machines a snapshot holds.
Known(m) == {t \in Machine : m[t] # 0}

Distinct(h) == \A s, t \in Machine : h[s] # 0 /\ h[s] = h[t] => s = t

LEMMA AboveFinite ==
    ASSUME IsFiniteSet(Machine), NEW h \in [Machine -> Nat], NEW s \in Machine
    PROVE  /\ Above(h, s) \subseteq Machine /\ IsFiniteSet(Above(h, s))
           /\ Cardinality(Above(h, s)) \in Nat /\ s \notin Above(h, s)
  <1>1. Above(h, s) \subseteq Machine /\ s \notin Above(h, s)
    BY DEF Above
  <1> QED
    BY <1>1, FS_Subset, FS_CardinalityType

\* Whoever is heard of earlier has more machines above, by one at least.
LEMMA AboveOrder ==
    ASSUME IsFiniteSet(Machine), NEW h \in [Machine -> Nat],
           NEW s \in Machine, NEW t \in Machine
    PROVE  /\ h[s] <= h[t] => Cardinality(Above(h, t)) <= Cardinality(Above(h, s))
           /\ h[s] < h[t] => Cardinality(Above(h, t)) + 1 <= Cardinality(Above(h, s))
  <1>1. ASSUME h[s] <= h[t] PROVE Cardinality(Above(h, t)) <= Cardinality(Above(h, s))
    <2>1. Above(h, t) \subseteq Above(h, s)
      BY <1>1 DEF Above
    <2> QED
      BY <2>1, AboveFinite, FS_Subset
  <1>2. ASSUME h[s] < h[t] PROVE Cardinality(Above(h, t)) + 1 <= Cardinality(Above(h, s))
    <2>1. Above(h, t) \cup {t} \subseteq Above(h, s)
      BY <1>2 DEF Above
    <2>2. Cardinality(Above(h, t) \cup {t}) = Cardinality(Above(h, t)) + 1
      BY AboveFinite, FS_AddElement
    <2> QED
      BY <2>1, <2>2, AboveFinite, FS_Subset
  <1> QED
    BY <1>1, <1>2

\* As long as the snapshot is not full it holds every machine heard of.
LEMMA HeardKnown ==
    ASSUME TelemetryAssumption, IsFiniteSet(Machine), NEW h \in [Machine -> Nat], Distinct(h),
           NEW m, Recent(m, h), Cardinality({t \in Machine : m[t] # 0}) < MaxMachines
    PROVE  Cardinality({t \in Machine : h[t] # 0}) < MaxMachines
  <1> DEFINE H == {t \in Machine : h[t] # 0}
             K == {t \in Machine : m[t] # 0}
             f == [t \in H |-> h[t]]
  <1>1. IsFiniteSet(H) /\ IsFiniteSet(K) /\ Cardinality(H) \in Nat /\ Cardinality(K) \in Nat
    BY FS_Subset, FS_CardinalityType
  <1> SUFFICES ASSUME Cardinality(H) >= MaxMachines PROVE FALSE
    BY <1>1, Constants
  <1>2. f \in [H -> Int] /\ \A x, y \in H : f[x] = f[y] => x = y
    BY DEF Distinct
  <1>3. PICK x \in H : Cardinality(UpTo(f, H, x)) = MaxMachines
    <2> HIDE DEF f, H
    <2> QED
      BY <1>1, <1>2, Ranked, Constants
  <1>4. UpTo(f, H, x) \subseteq K
    <2> SUFFICES ASSUME NEW y \in UpTo(f, H, x) PROVE y \in K
      OBVIOUS
    <2>1. y \in Machine /\ h[y] # 0 /\ h[y] >= h[x] /\ x \in Machine
      BY DEF UpTo
    <2>2. Above(h, y) \cup {y} \subseteq UpTo(f, H, x)
      BY <2>1 DEF Above, UpTo
    <2>3. IsFiniteSet(UpTo(f, H, x))
      <3>1. UpTo(f, H, x) \subseteq H
        BY DEF UpTo
      <3> HIDE DEF H, f
      <3> QED
        BY <1>1, <3>1, FS_Subset
    <2> HIDE DEF H, f
    <2>4. Cardinality(Above(h, y) \cup {y}) <= Cardinality(UpTo(f, H, x))
      BY <2>2, <2>3, FS_Subset
    <2>5. Cardinality(Above(h, y) \cup {y}) = Cardinality(Above(h, y)) + 1
          /\ Cardinality(Above(h, y)) \in Nat
      BY <2>1, AboveFinite, FS_AddElement
    <2>6. Cardinality(Above(h, y)) < MaxMachines
      BY <1>3, <2>4, <2>5, Constants
    <2>7. m[y] = h[y]
      BY <2>1, <2>6 DEF Recent
    <2> QED
      BY <2>1, <2>7
  <1>5. Cardinality(UpTo(f, H, x)) <= Cardinality(K)
    <2> HIDE DEF K, f, H
    <2> QED
      BY <1>1, <1>4, FS_Subset
  <1> HIDE DEF K, f, H
  <1>6. Cardinality(K) < MaxMachines
    BY DEF K
  <1> QED
    BY <1>1, <1>3, <1>5, <1>6, Constants

\* Recording the machine heard of just now keeps the snapshot the most recent ones:
\* it was there, or there is room, or the one heard of longest ago goes.
LEMMA RecordRecent ==
    ASSUME TelemetryAssumption, IsFiniteSet(Machine), NEW h \in [Machine -> Nat], Distinct(h),
           NEW m \in [Machine -> Nat], Recent(m, h), NEW s \in Machine,
           NEW n \in Nat, \A t \in Machine : h[t] < n, NEW o,
           NEW m2, IF m[s] = 0 /\ Cardinality(Known(m)) >= MaxMachines
                   THEN /\ (\E t \in Machine : m[t] # 0) =>
                              /\ o \in Machine /\ m[o] # 0
                              /\ \A u \in Machine : m[u] # 0 => m[o] <= m[u]
                        /\ m2 = [m EXCEPT ![o] = 0, ![s] = n]
                   ELSE m2 = [m EXCEPT ![s] = n]
    PROVE  Recent(m2, [h EXCEPT ![s] = n])
  <1> DEFINE K == Known(m)
             h2 == [h EXCEPT ![s] = n]
             C(g, u) == Cardinality(Above(g, u))
  <1> USE DEF Known
  <1>1. MaxMachines \in Nat \ {0}
    BY Constants
  <1>2. \A u \in Machine : /\ C(h, u) \in Nat
                           /\ m[u] = IF C(h, u) < MaxMachines THEN h[u] ELSE 0
    BY AboveFinite DEF Recent
  <1>3. C(h2, s) = 0 /\ h2[s] = n
    <2>1. Above(h2, s) = {}
      BY DEF Above
    <2> HIDE DEF h2
    <2> QED
      BY <2>1, FS_EmptySet DEF h2
  \* s is on top now; the others have one more above them unless it was there before.
  <1>4. \A u \in Machine \ {s} :
           /\ h2[u] = h[u]
           /\ h[s] > h[u] => C(h2, u) = C(h, u)
           /\ h[s] <= h[u] => C(h2, u) = C(h, u) + 1
    <2> TAKE u \in Machine \ {s}
    <2>1. Above(h2, u) = Above(h, u) \cup {s} /\ h2[u] = h[u]
      BY DEF Above
    <2>2. h[s] > h[u] => Above(h2, u) = Above(h, u)
      BY <2>1 DEF Above
    <2>3. h[s] <= h[u] => s \notin Above(h, u)
      BY DEF Above
    <2> HIDE DEF h2
    <2>4. h[s] <= h[u] => C(h2, u) = C(h, u) + 1
      BY <2>1, <2>3, AboveFinite, FS_AddElement
    <2> QED
      BY <2>1, <2>2, <2>4
  <1>5. \A t, u \in Machine : /\ h[t] <= h[u] => C(h, u) <= C(h, t)
                              /\ h[t] < h[u] => C(h, u) + 1 <= C(h, t)
    BY AboveOrder
  <1>6. SUFFICES \A u \in Machine : m2[u] = IF C(h2, u) < MaxMachines THEN h2[u] ELSE 0
    BY DEF Recent
  <1>7. IsFiniteSet(K) /\ Cardinality(K) \in Nat
    BY FS_Subset, FS_CardinalityType
  <1>8. m2[s] = n
    OBVIOUS
  <1>9. CASE m[s] # 0
    <2>1. m2 = [m EXCEPT ![s] = n]
      BY <1>9
    <2>2. h[s] # 0 /\ C(h, s) < MaxMachines
      BY <1>2, <1>9
    <2>3. ASSUME NEW u \in Machine \ {s}
          PROVE  m2[u] = IF C(h2, u) < MaxMachines THEN h2[u] ELSE 0
      <3>1. m2[u] = m[u] /\ h[u] # h[s]
        BY <2>1, <2>2 DEF Distinct
      <3> HIDE DEF C, h2
      <3> QED
        BY <1>1, <1>2, <1>4, <1>5, <2>2, <3>1
    <2> HIDE DEF C, h2
    <2> QED
      BY <1>1, <1>3, <1>8, <2>3
  <1>10. CASE m[s] = 0 /\ Cardinality(K) < MaxMachines
    <2> DEFINE H == {t \in Machine : h[t] # 0}
    <2>1. m2 = [m EXCEPT ![s] = n]
      BY <1>7, <1>10, <1>1
    <2>2. Cardinality(H) < MaxMachines
      BY <1>10, HeardKnown
    <2>3. IsFiniteSet(H) /\ Cardinality(H) \in Nat
      BY FS_Subset, FS_CardinalityType
    <2>4. ASSUME NEW u \in Machine, h[u] # 0 PROVE C(h, u) + 1 <= Cardinality(H)
      <3>1. Above(h, u) \cup {u} \subseteq H
        BY <2>4 DEF Above
      <3>2. Cardinality(Above(h, u) \cup {u}) = Cardinality(Above(h, u)) + 1
        BY AboveFinite, FS_AddElement
      <3> HIDE DEF H
      <3> QED
        BY <2>3, <3>1, <3>2, FS_Subset
    <2>5. h[s] = 0
      <3> HIDE DEF C, h2, H
      <3> QED
        BY <1>1, <1>2, <1>10, <2>2, <2>3, <2>4
    <2>6. ASSUME NEW u \in Machine \ {s}
          PROVE  m2[u] = IF C(h2, u) < MaxMachines THEN h2[u] ELSE 0
      <3>1. m2[u] = m[u] /\ h[u] \in Nat
        BY <2>1
      <3> HIDE DEF C, h2, H
      <3> QED
        BY <1>1, <1>2, <1>4, <2>2, <2>3, <2>4, <2>5, <3>1
    <2> HIDE DEF C, h2
    <2> QED
      BY <1>1, <1>3, <1>8, <2>6
  <1>11. CASE m[s] = 0 /\ Cardinality(K) >= MaxMachines
    <2>1. m2 = [m EXCEPT ![o] = 0, ![s] = n]
      BY <1>11
    <2>2. K # {}
      BY <1>1, <1>11, FS_EmptySet
    <2>3. o \in Machine /\ m[o] # 0 /\ \A u \in Machine : m[u] # 0 => m[o] <= m[u]
      BY <1>11, <2>2
    <2>4. C(h, o) < MaxMachines /\ m[o] = h[o]
      BY <1>2, <2>3
    <2>5. h[s] <= h[o]
      <3> HIDE DEF C, h2
      <3> QED
        BY <1>1, <1>2, <1>5, <1>11, <2>3, <2>4
    <2>6. Cardinality(K) <= C(h, o) + 1
      <3>1. K \subseteq Above(h, o) \cup {o}
        <4> SUFFICES ASSUME NEW t \in K, t # o PROVE h[t] > h[o]
          BY DEF Above
        <4>1. h[t] = m[t] /\ h[t] >= h[o] /\ h[o] # 0
          BY <1>2, <2>3, <2>4
        <4> QED
          BY <2>3, <4>1 DEF Distinct
      <3>2. Cardinality(Above(h, o) \cup {o}) = Cardinality(Above(h, o)) + 1
            /\ IsFiniteSet(Above(h, o) \cup {o})
        BY <2>3, AboveFinite, FS_AddElement
      <3> HIDE DEF K
      <3> QED
        BY <3>1, <3>2, FS_Subset
    <2>7. ASSUME NEW u \in Machine \ {s}
          PROVE  m2[u] = IF C(h2, u) < MaxMachines THEN h2[u] ELSE 0
      <3>1. CASE u = o
        <4>1. m2[u] = 0
          BY <2>1, <3>1
        <4> HIDE DEF C, h2
        <4> QED
          BY <1>1, <1>2, <1>4, <1>7, <1>11, <2>5, <2>6, <3>1, <4>1
      <3>2. CASE u # o /\ m[u] # 0
        <4>1. m2[u] = m[u]
          BY <2>1, <3>2
        <4>2. h[u] > h[o]
          BY <1>2, <2>3, <2>4, <3>2 DEF Distinct
        <4> HIDE DEF C, h2
        <4> QED
          BY <1>1, <1>2, <1>4, <1>5, <2>3, <2>4, <2>5, <3>2, <4>1, <4>2
      <3>3. CASE u # o /\ m[u] = 0
        <4>1. m2[u] = 0
          BY <2>1, <3>3
        <4> HIDE DEF C, h2
        <4> QED
          BY <1>1, <1>2, <1>4, <3>3, <4>1
      <3> QED
        BY <3>1, <3>2, <3>3
    <2> HIDE DEF C, h2
    <2> QED
      BY <1>1, <1>3, <1>8, <2>7
  <1>12. \/ m[s] # 0
         \/ m[s] = 0 /\ Cardinality(K) < MaxMachines
         \/ m[s] = 0 /\ Cardinality(K) >= MaxMachines
    <2> HIDE DEF K
    <2> QED
      BY <1>1, <1>7
  <1> HIDE DEF C, h2, K
  <1> QED
    BY <1>9, <1>10, <1>11, <1>12

LEMMA NextSnapInv ==
    ASSUME TelemetryAssumption, IsFiniteSet(Machine), TypeInv, SnapInv, [TelemetryNext]_telemetry
    PROVE  SnapInv'
  <1> USE DEF TypeInv
  <1>1. ASSUME NEW s \in Machine, HandleReport(s) PROVE SnapInv'
    <2> DEFINE K == Known(machines)
               o == CHOOSE t \in K : \A u \in K : machines[t] <= machines[u]
    <2> USE DEF Known
    <2>1. /\ heard' = [heard EXCEPT ![s] = time'] /\ time' = time + 1 /\ time' \in Nat
          /\ heard \in [Machine -> Nat] /\ machines \in [Machine -> Nat] /\ time \in Nat
      BY <1>1, Constants DEF HandleReport, Tick, Types
    <2>2. \A t \in Machine : heard[t] < time'
      BY <2>1 DEF SnapInv
    <2>3. IF machines[s] = 0 /\ Cardinality(K) >= MaxMachines
          THEN machines' = [machines EXCEPT ![o] = 0, ![s] = time']
          ELSE machines' = [machines EXCEPT ![s] = time']
      BY <1>1 DEF HandleReport, RecordMachine
    <2>4. (\E t \in Machine : machines[t] # 0) =>
             o \in K /\ \A u \in K : machines[o] <= machines[u]
      <3>1. SUFFICES ASSUME K # {}
                     PROVE  \E t \in K : \A u \in K : machines[t] <= machines[u]
        BY Zenon
      <3>2. IsFiniteSet(K) /\ [t \in K |-> machines[t]] \in [K -> Int]
        BY <2>1, FS_Subset
      <3>3. PICK t \in K : \A u \in K : [x \in K |-> machines[x]][t] <= [x \in K |-> machines[x]][u]
        <4> HIDE DEF K
        <4> QED
          BY <3>1, <3>2, Lowest
      <3> QED
        BY <3>3
    <2>5. (\E t \in Machine : machines[t] # 0) =>
             /\ o \in Machine /\ machines[o] # 0
             /\ \A u \in Machine : machines[u] # 0 => machines[o] <= machines[u]
      <3> HIDE DEF o
      <3> QED
        BY <2>4
    <2>6. Recent(machines', heard')
      <3>1. Distinct(heard) /\ Recent(machines, heard)
        BY DEF SnapInv, Distinct
      <3>2. Recent(machines', [heard EXCEPT ![s] = time'])
        <4> HIDE DEF o, Known
        <4> QED
          BY <2>1, <2>2, <2>3, <2>5, <3>1, RecordRecent
      <3> QED
        BY <2>1, <3>2
    <2>7. /\ \A t \in Machine : heard'[t] <= time'
          /\ \A t, u \in Machine : heard'[t] # 0 /\ heard'[t] = heard'[u] => t = u
      BY <2>1, <2>2 DEF SnapInv
    <2> QED
      BY <2>6, <2>7 DEF SnapInv
  <1>2. ASSUME UNCHANGED <<machines, heard>>, time' = time \/ time' = time + 1 PROVE SnapInv'
    <2>1. \A t \in Machine : heard'[t] <= time'
      BY <1>2 DEF SnapInv, Types
    <2>2. Recent(machines', heard')
      BY <1>2 DEF SnapInv
    <2> QED
      BY <1>2, <2>1, <2>2 DEF SnapInv
  <1>3. ASSUME NEW s \in Machine, HandleLog(s) PROVE SnapInv'
    BY <1>2, <1>3 DEF HandleLog, Tick
  <1>4. CASE AuditResolve
    BY <1>2, <1>4 DEF AuditResolve, Tick
  <1>5. CASE AuditMW
    BY <1>2, <1>5 DEF AuditMW, Tick
  <1>6. ASSUME NEW e \in ingestSem, TimeOut(e) PROVE SnapInv'
    BY <1>2, <1>6 DEF TimeOut
  <1>7. ASSUME NEW p \in posts, Ingest(p) \/ Lose(p) PROVE SnapInv'
    BY <1>2, <1>7 DEF Ingest, Lose
  <1>8. CASE Restart
    <2>1. /\ machines' = [s \in Machine |-> 0] /\ heard' = [s \in Machine |-> 0]
          /\ time' = time /\ time \in Nat
      BY <1>8, Constants DEF Restart, Types
    <2> QED
      BY <2>1 DEF SnapInv, Recent
  <1>9. CASE Prune
    BY <1>2, <1>9 DEF Prune
  <1>10. CASE UNCHANGED telemetry
    BY <1>2, <1>10 DEF telemetry
  <1> QED
    BY <1>1, <1>3, <1>4, <1>5, <1>6, <1>7, <1>8, <1>9, <1>10 DEF TelemetryNext

\* The snapshot of windep-api (main.go's record) holds the machines heard of last
\* since the pod started, each with its last report, and never more than fit.
THEOREM SnapshotCorrect ==
    ASSUME TelemetryAssumption, IsFiniteSet(Machine)
    PROVE  TelemetrySpec => []SnapshotRecent
  <1> DEFINE SInv == TypeInv /\ SnapInv
  <1>1. TelemetryInit => SInv
    BY InitTypeInv DEF TelemetryInit, SnapInv, Recent
  <1>2. SInv /\ [TelemetryNext]_telemetry => SInv'
    BY NextTypeInv, NextSnapInv
  <1>3. SInv => SnapshotRecent
    BY DEF SnapInv, Recent, Above, SnapshotRecent
  <1> QED
    BY <1>1, <1>2, <1>3, PTL DEF TelemetrySpec
-----------------------------------------------------------------------------
(* The tables are logs *)

\* What a step does to a table: a row is inserted, the table is pruned, or nothing.
Inserted(rows, then) == \E e \in Event : then = rows \cup {[id |-> NextId(rows), event |-> e]}
Pruned(rows, then) == then = Newest(rows, MaxRows)

\* What EventLog allows.
Recorded(rows, then) ==
    \E row \in then :
        /\ row.id \in Nat /\ row.event \in Event
        /\ \A old \in rows : old.id < row.id
        /\ then = rows \cup {row}
Retained(rows, then) ==
    /\ then \subseteq rows
    /\ \A gone \in rows \ then : \A kept \in then : gone.id < kept.id
    /\ rows # {} => then # {}

LEMMA InsertRecords ==
    ASSUME NEW rows, Table(rows), NEW then, Inserted(rows, then)
    PROVE  Recorded(rows, then)
  <1>1. PICK e \in Event : then = rows \cup {[id |-> NextId(rows), event |-> e]}
    BY DEF Inserted
  <1> DEFINE row == [id |-> NextId(rows), event |-> e]
  <1>2. /\ row.id \in Nat /\ row.event \in Event /\ row \in then
        /\ \A old \in rows : old.id < row.id
    BY <1>1, NextIdFresh
  <1> HIDE DEF row
  <1> QED
    BY <1>1, <1>2 DEF Recorded, row

LEMMA PruneRetains ==
    ASSUME TelemetryAssumption, NEW rows, Table(rows), NEW then, Pruned(rows, then)
    PROVE  Retained(rows, then)
  <1>1. MaxRows \in Nat \ {0} /\ \A r \in rows : r.id \in Nat
    BY Constants DEF Table, Row
  <1>2. /\ then \subseteq rows
        /\ \A r \in then : \A q \in rows : q.id >= r.id => q \in then
    BY <1>1, NewestTable DEF Pruned
  <1>3. \A gone \in rows \ then : \A kept \in then : gone.id < kept.id
    BY <1>1, <1>2
  <1>4. ASSUME rows # {} PROVE then # {}
    <2>1. Cardinality(rows) \in Nat \ {0}
      BY <1>4, FS_CardinalityType, FS_EmptySet DEF Table
    <2>2. CASE Cardinality(rows) >= MaxRows
      <3>1. Cardinality(then) >= MaxRows
        BY <1>1, <2>2, NewestSize DEF Pruned
      <3> QED
        BY <1>1, <3>1, FS_EmptySet
    <2>3. CASE ~(Cardinality(rows) >= MaxRows)
      <3>1. PICK r \in rows : TRUE
        BY <1>4
      <3>2. r \in then
        BY <1>1, <2>3, NewestFull DEF Pruned
      <3> QED
        BY <3>2
    <2> QED
      BY <2>2, <2>3
  <1> QED
    BY <1>2, <1>3, <1>4 DEF Retained

\* Every step inserts into a table, prunes it or leaves it alone.
LEMMA TableSteps ==
    ASSUME TelemetryAssumption, TypeInv, [TelemetryNext]_telemetry
    PROVE  /\ \/ Inserted(deploy_event, deploy_event') \/ Pruned(deploy_event, deploy_event')
              \/ UNCHANGED deploy_event
           /\ Inserted(audit, audit') \/ Pruned(audit, audit') \/ UNCHANGED audit
  <1>1. CASE Prune
    BY <1>1 DEF Prune, Pruned
  <1>2. CASE AuditMW
    <2>1. New("audit", "none", "none") \in Event
      BY <1>2, NewEvent DEF AuditMW, Tick, Kind, TypeInv
    <2> QED
      BY <1>2, <2>1 DEF AuditMW, Inserted
  <1>3. ASSUME NEW p \in posts, Ingest(p)
        PROVE  \/ Inserted(audit, audit') /\ UNCHANGED deploy_event
               \/ Inserted(deploy_event, deploy_event') /\ UNCHANGED audit
    <2>1. p.event \in Event
      BY DEF TypeInv, Queues, Post
    <2> QED
      BY <1>3, <2>1 DEF Ingest, Inserted
  <1>4. CASE UNCHANGED <<deploy_event, audit>>
    BY <1>4
  <1> QED
    BY <1>1, <1>2, <1>3, <1>4 DEF TelemetryNext, telemetry, HandleReport, HandleLog,
       AuditResolve, TimeOut, Lose, Restart

\* Both tables of the datastore are logs: rows are only added above all others and
\* only the oldest go, whatever is forwarded, lost, batched or pruned between the
\* two (store.go's AUTOINCREMENT and prune).
THEOREM TablesAreLogs ==
    ASSUME TelemetryAssumption
    PROVE  TelemetrySpec => RefinesEventLog
  <1>1. TelemetryInit => TypeInv /\ Deployments!Init /\ Trail!Init
    BY InitTypeInv DEF TelemetryInit, Deployments!Init, Trail!Init
  <1>2. TypeInv /\ [TelemetryNext]_telemetry => TypeInv'
    BY NextTypeInv
  <1>3. ASSUME NEW rows, Table(rows), NEW then, Inserted(rows, then) \/ Pruned(rows, then)
        PROVE  Recorded(rows, then) \/ Retained(rows, then)
    BY <1>3, InsertRecords, PruneRetains
  <1>4. TypeInv /\ [TelemetryNext]_telemetry => [Deployments!Next]_deploy_event
    BY <1>3, TableSteps DEF TypeInv, Recorded, Retained, Deployments!Next, Deployments!Record,
       Deployments!Retain
  <1>5. TypeInv /\ [TelemetryNext]_telemetry => [Trail!Next]_audit
    BY <1>3, TableSteps DEF TypeInv, Recorded, Retained, Trail!Next, Trail!Record, Trail!Retain
  <1> QED
    BY <1>1, <1>2, <1>4, <1>5, PTL DEF TelemetrySpec, RefinesEventLog, Deployments!Spec, Trail!Spec
-----------------------------------------------------------------------------
(* Nothing is stored twice *)

Rows == deploy_event \cup audit

\* How many rows an event may have.
Quota(e) == IF e.kind = "log" THEN Lines ELSE 1

\* Numbers tell events apart, in the queue and in the tables, and what an event
\* has stored and has still to store is within its quota.
Numbered ==
    /\ \A p \in posts : p.event.n <= time
    /\ \A r \in Rows : r.event.n <= time
    /\ \A p, q \in posts : p.event.n = q.event.n => p = q
    /\ \A p \in posts : \A r \in Rows : r.event.n = p.event.n => r.event = p.event
    /\ \A r, q \in Rows : r.event.n = q.event.n => r.event = q.event

WithinQuota ==
    /\ \A p \in posts : Cardinality(Stored(p.event.n)) + p.left <= Quota(p.event)
    /\ \A r \in Rows : Cardinality(Stored(r.event.n)) <= Quota(r.event)

OnceInv == Numbered /\ WithinQuota

LEMMA QuotaType ==
    ASSUME TelemetryAssumption, NEW e
    PROVE  Quota(e) \in Nat \ {0}
  BY Constants DEF Quota

LEMMA StoredFinite ==
    ASSUME TypeInv, NEW n
    PROVE  IsFiniteSet(Stored(n)) /\ Cardinality(Stored(n)) \in Nat
  <1>1. IsFiniteSet(Rows) /\ Stored(n) \subseteq Rows
    BY FS_Union DEF TypeInv, Table, Rows, Stored
  <1> QED
    BY <1>1, FS_Subset, FS_CardinalityType

\* Numbers, of events, of the clock and of lines to go.
LEMMA OnceTypes ==
    ASSUME TelemetryAssumption, TypeInv
    PROVE  /\ time \in Nat
           /\ \A p \in posts : p.event \in Event /\ p.event.n \in Nat /\ p.left \in Nat \ {0}
           /\ \A r \in Rows : r.event \in Event /\ r.event.n \in Nat
  BY Constants DEF TypeInv, Types, Queues, Table, Post, Row, Event, Rows

\* Losing posts and rows makes room.
LEMMA OnceShrinks ==
    ASSUME TelemetryAssumption, TypeInv, TypeInv', OnceInv, posts' \subseteq posts,
           deploy_event' \subseteq deploy_event, audit' \subseteq audit, time' \in {time, time + 1}
    PROVE  OnceInv'
  <1>1. Rows' \subseteq Rows
    BY DEF Rows
  <1>2. ASSUME NEW n PROVE /\ Cardinality(Stored(n)') <= Cardinality(Stored(n))
                           /\ Cardinality(Stored(n)') \in Nat /\ Cardinality(Stored(n)) \in Nat
    <2>1. Stored(n)' \subseteq Stored(n)
      BY DEF Stored
    <2> QED
      BY <2>1, StoredFinite, FS_Subset, FS_CardinalityType
  <1>3. Numbered'
    BY <1>1, OnceTypes DEF OnceInv, Numbered
  <1>4. ASSUME NEW p \in posts' PROVE Cardinality(Stored(p.event.n)') + p.left <= Quota(p.event)
    <2>1. /\ Cardinality(Stored(p.event.n)) + p.left <= Quota(p.event)
          /\ p.left \in Nat /\ Quota(p.event) \in Nat
      BY OnceTypes, QuotaType DEF OnceInv, WithinQuota
    <2> QED
      BY <1>2, <2>1
  <1>5. ASSUME NEW r \in Rows' PROVE Cardinality(Stored(r.event.n)') <= Quota(r.event)
    <2>1. Cardinality(Stored(r.event.n)) <= Quota(r.event) /\ Quota(r.event) \in Nat
      BY <1>1, QuotaType DEF OnceInv, WithinQuota
    <2> QED
      BY <1>2, <2>1
  <1> QED
    BY <1>3, <1>4, <1>5 DEF OnceInv, WithinQuota, Quota

\* A new event is forwarded: nothing of it is stored yet.
LEMMA OnceForwards ==
    ASSUME TelemetryAssumption, TypeInv, TypeInv', OnceInv, NEW e \in Event, e.n = time + 1,
           time' = time + 1, ForwardIngest(e), UNCHANGED <<deploy_event, audit>>
    PROVE  OnceInv'
  <1> DEFINE new == [event |-> e, left |-> Quota(e)]
  <1>1. posts' \subseteq posts \/ posts' = posts \cup {new}
    BY DEF ForwardIngest, Quota
  <1>2. CASE posts' \subseteq posts
    BY <1>2, OnceShrinks
  <1>3. CASE posts' = posts \cup {new}
    <2>1. Rows' = Rows /\ new.event = e /\ new.left = Quota(e)
      BY DEF Rows
    <2>2. Stored(e.n) = {}
      BY OnceTypes DEF OnceInv, Numbered, Stored, Rows
    <2>3. \A n : Stored(n)' = Stored(n)
      BY DEF Stored
    <2> HIDE DEF new
    <2>4. Numbered'
      BY <1>3, <2>1, OnceTypes DEF OnceInv, Numbered
    <2>5. Cardinality(Stored(e.n)) = 0 /\ Quota(e) \in Nat
      BY <2>2, FS_EmptySet, QuotaType
    <2>6. \A p \in posts' : Cardinality(Stored(p.event.n)) + p.left <= Quota(p.event)
      BY <1>3, <2>1, <2>5 DEF OnceInv, WithinQuota
    <2>7. \A r \in Rows' : Cardinality(Stored(r.event.n)) <= Quota(r.event)
      BY <2>1 DEF OnceInv, WithinQuota
    <2> QED
      BY <2>3, <2>4, <2>6, <2>7 DEF OnceInv, WithinQuota, Quota
  <1> QED
    BY <1>1, <1>2, <1>3

\* A row of e is stored, which has room for it, and for what is still to come.
LEMMA OnceInserts ==
    ASSUME TelemetryAssumption, TypeInv, TypeInv', OnceInv, NEW e \in Event, NEW row, row.event = e,
           Rows' = Rows \cup {row}, time' \in {time, time + 1}, e.n <= time',
           \A r \in Rows : r.event.n = e.n => r.event = e,
           Cardinality(Stored(e.n)) + 1 <= Quota(e),
           \A p, q \in posts' : p.event.n = q.event.n => p = q,
           \A p \in posts' : \/ p \in posts /\ p.event.n # e.n
                             \/ /\ p.event = e /\ p.left \in Nat
                                /\ Cardinality(Stored(e.n)) + 1 + p.left <= Quota(e)
    PROVE  OnceInv'
  <1>1. ASSUME NEW n, n # e.n PROVE Stored(n)' = Stored(n)
    BY <1>1 DEF Stored, Rows
  <1>2. /\ Cardinality(Stored(e.n)') <= Cardinality(Stored(e.n)) + 1
        /\ Cardinality(Stored(e.n)') \in Nat /\ Cardinality(Stored(e.n)) \in Nat
    <2>1. Stored(e.n)' = Stored(e.n) \cup {row}
      BY DEF Stored, Rows
    <2>2. IsFiniteSet(Stored(e.n)) /\ Cardinality(Stored(e.n)) \in Nat
      BY StoredFinite
    <2>3. /\ IsFiniteSet(Stored(e.n)')
          /\ Cardinality(Stored(e.n)') = IF row \in Stored(e.n) THEN Cardinality(Stored(e.n))
                                                             ELSE Cardinality(Stored(e.n)) + 1
      BY <2>1, <2>2, FS_AddElement
    <2> QED
      BY <2>2, <2>3
  <1>3. Numbered'
    <2>1. /\ \A p \in posts' : p.event.n <= time'
          /\ \A r \in Rows' : r.event.n <= time'
      BY OnceTypes DEF OnceInv, Numbered
    <2>2. \A p \in posts' : \A r \in Rows' : r.event.n = p.event.n => r.event = p.event
      BY DEF OnceInv, Numbered
    <2>3. \A r, q \in Rows' : r.event.n = q.event.n => r.event = q.event
      BY DEF OnceInv, Numbered
    <2> QED
      BY <2>1, <2>2, <2>3 DEF Numbered
  <1>4. ASSUME NEW p \in posts' PROVE Cardinality(Stored(p.event.n)') + p.left <= Quota(p.event)
    <2>1. CASE p \in posts /\ p.event.n # e.n
      BY <1>1, <2>1 DEF OnceInv, WithinQuota
    <2>2. CASE p.event = e /\ p.left \in Nat /\ Cardinality(Stored(e.n)) + 1 + p.left <= Quota(e)
      BY <1>2, <2>2, QuotaType
    <2> QED
      BY <2>1, <2>2
  <1>5. ASSUME NEW r \in Rows' PROVE Cardinality(Stored(r.event.n)') <= Quota(r.event)
    <2>1. CASE r.event.n # e.n
      BY <1>1, <2>1 DEF OnceInv, WithinQuota
    <2>2. CASE r.event.n = e.n
      <3>1. r.event = e
        BY <2>2
      <3> QED
        BY <1>2, <3>1, QuotaType
    <2> QED
      BY <2>1, <2>2
  <1> QED
    BY <1>3, <1>4, <1>5 DEF OnceInv, WithinQuota, Quota

\* The admin stores a line of a post, which then has one less to go or is gone.
LEMMA OnceIngests ==
    ASSUME TelemetryAssumption, TypeInv, TypeInv', OnceInv, NEW p \in posts, Ingest(p)
    PROVE  OnceInv'
  <1> DEFINE e == p.event
  <1>1. /\ e \in Event /\ p \in Post /\ p.left \in Nat \ {0} /\ e.n \in Nat /\ time \in Nat
        /\ e.n <= time /\ \A r \in Rows : r.event.n = e.n => r.event = e
        /\ Cardinality(Stored(e.n)) + p.left <= Quota(e)
        /\ Cardinality(Stored(e.n)) \in Nat /\ Quota(e) \in Nat
    BY OnceTypes, StoredFinite, QuotaType DEF OnceInv, Numbered, WithinQuota, TypeInv, Queues
  <1>2. \E row : row.event = e /\ Rows' = Rows \cup {row}
    <2>1. CASE e.kind = "audit"
      <3>1. Rows' = Rows \cup {[id |-> NextId(audit), event |-> e]}
        BY <2>1 DEF Ingest, Rows
      <3> QED
        BY <3>1
    <2>2. CASE e.kind # "audit"
      <3>1. Rows' = Rows \cup {[id |-> NextId(deploy_event), event |-> e]}
        BY <2>2 DEF Ingest, Rows
      <3> QED
        BY <3>1
    <2> QED
      BY <2>1, <2>2
  <1>3. \A q \in posts : q # p => q.event.n # e.n
    BY DEF OnceInv, Numbered
  <1>4. \/ posts' = posts \ {p}
        \/ p.left > 1 /\ posts' = (posts \ {p}) \cup {[p EXCEPT !.left = @ - 1]}
    BY DEF Ingest
  <1>5. ASSUME p.left > 1
        PROVE  LET rest == [p EXCEPT !.left = @ - 1] IN
               rest.event = e /\ rest.left \in Nat /\ rest.left = p.left - 1
    BY <1>1, <1>5 DEF Post
  <1>6. /\ \A q \in posts' : \/ q \in posts /\ q.event.n # e.n
                             \/ /\ q.event = e /\ q.left \in Nat
                                /\ Cardinality(Stored(e.n)) + 1 + q.left <= Quota(e)
        /\ \A q, o \in posts' : q.event.n = o.event.n => q = o
    <2>1. CASE posts' = posts \ {p}
      BY <1>3, <2>1 DEF OnceInv, Numbered
    <2>2. CASE p.left > 1 /\ posts' = (posts \ {p}) \cup {[p EXCEPT !.left = @ - 1]}
      <3> DEFINE rest == [p EXCEPT !.left = @ - 1]
      <3>1. rest.event = e /\ rest.left \in Nat /\ rest.left = p.left - 1
        BY <1>5, <2>2
      <3>2. posts' = (posts \ {p}) \cup {rest}
        BY <2>2
      <3> HIDE DEF rest
      <3>3. Cardinality(Stored(e.n)) + 1 + rest.left <= Quota(e)
        <4> HIDE DEF e
        <4> QED
          BY <1>1, <3>1
      <3> QED
        BY <1>3, <3>1, <3>2, <3>3 DEF OnceInv, Numbered
    <2> QED
      BY <1>4, <2>1, <2>2
  <1>7. time' = time
    BY DEF Ingest
  <1>8. Cardinality(Stored(e.n)) + 1 <= Quota(e)
    <2> HIDE DEF e
    <2> QED
      BY <1>1
  <1> HIDE DEF e
  <1> QED
    BY <1>1, <1>2, <1>6, <1>7, <1>8, OnceInserts

\* Every step stays within the quotas.
LEMMA NextOnceInv ==
    ASSUME TelemetryAssumption, TypeInv, OnceInv, [TelemetryNext]_telemetry
    PROVE  OnceInv'
  <1>1. TypeInv'
    BY NextTypeInv
  <1>2. ASSUME NEW kind \in Kind, NEW s \in Machine \cup {"none"},
               NEW state \in Reported \cup {"none"}, Tick,
               ForwardIngest(New(kind, s, state)), UNCHANGED <<deploy_event, audit>>
        PROVE  OnceInv'
    <2>1. New(kind, s, state) \in Event /\ New(kind, s, state).n = time + 1 /\ time' = time + 1
      BY <1>2, NewEvent DEF Tick, TypeInv
    <2> QED
      BY <1>1, <1>2, <2>1, OnceForwards
  <1>3. ASSUME NEW s \in Machine, HandleReport(s) \/ HandleLog(s) PROVE OnceInv'
    BY <1>2, <1>3 DEF HandleReport, HandleLog, Kind
  <1>4. CASE AuditResolve
    BY <1>2, <1>4 DEF AuditResolve, Kind
  <1>5. CASE AuditMW
    <2> DEFINE e == New("audit", "none", "none")
               row == [id |-> NextId(audit), event |-> e]
    <2>1. e \in Event /\ e.n = time + 1 /\ e.kind = "audit" /\ time' = time + 1
      BY <1>5, NewEvent DEF AuditMW, Tick, Kind, TypeInv
    <2>2. Rows' = Rows \cup {row} /\ posts' = posts /\ row.event = e
      BY <1>5 DEF AuditMW, Rows
    <2> HIDE DEF e, row
    <2>3. \A r \in Rows : r.event.n # e.n
      BY <2>1, OnceTypes DEF OnceInv, Numbered
    <2>4. \A p \in posts : p.event.n # e.n
      BY <2>1, OnceTypes DEF OnceInv, Numbered
    <2>5. Stored(e.n) = {}
      BY <2>3 DEF Stored, Rows
    <2>6. Cardinality(Stored(e.n)) + 1 <= Quota(e)
      <3>1. Cardinality(Stored(e.n)) = 0 /\ Quota(e) = 1
        BY <2>1, <2>5, FS_EmptySet DEF Quota
      <3> QED
        BY <3>1
    <2>7. e.n <= time'
      BY <2>1, OnceTypes
    <2>8. \A p, q \in posts' : p.event.n = q.event.n => p = q
      BY <2>2 DEF OnceInv, Numbered
    <2> QED
      BY <1>1, <2>1, <2>2, <2>3, <2>4, <2>6, <2>7, <2>8, OnceInserts
  <1>6. ASSUME NEW p \in posts, Ingest(p) PROVE OnceInv'
    BY <1>1, <1>6, OnceIngests
  <1>7. CASE Prune
    <2>1. deploy_event' \subseteq deploy_event /\ audit' \subseteq audit
      BY <1>7 DEF Prune, Newest
    <2> QED
      BY <1>1, <1>7, <2>1, OnceShrinks DEF Prune
  <1>8. CASE posts' \subseteq posts /\ UNCHANGED <<deploy_event, audit, time>>
    BY <1>1, <1>8, OnceShrinks
  <1> QED
    BY <1>3, <1>4, <1>5, <1>6, <1>7, <1>8 DEF TelemetryNext, telemetry, TimeOut, Lose, Restart

\* No report is stored twice and no batch gets more rows than it has lines, though
\* the admin may still be at work on a forward that has timed out or whose pod is
\* gone (forwardIngest does not try again).
THEOREM NothingStoredTwice ==
    ASSUME TelemetryAssumption
    PROVE  TelemetrySpec => []StoredOnce
  <1>1. TelemetryInit => TypeInv /\ OnceInv
    BY InitTypeInv DEF TelemetryInit, OnceInv, Numbered, WithinQuota, Rows
  <1>2. TypeInv /\ OnceInv /\ [TelemetryNext]_telemetry => TypeInv' /\ OnceInv'
    BY NextTypeInv, NextOnceInv
  <1>3. OnceInv => StoredOnce
    BY DEF OnceInv, WithinQuota, Quota, StoredOnce, Rows
  <1> QED
    BY <1>1, <1>2, <1>3, PTL DEF TelemetrySpec
=============================================================================
