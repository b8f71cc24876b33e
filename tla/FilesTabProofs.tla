--------------------------- MODULE FilesTabProofs ---------------------------
(***************************************************************************)
(* Proofs about FilesTab, for any directories, files and number of clicks. *)
(* Section 6 of the README describes the argument.                         *)
(***************************************************************************)
EXTENDS FilesTab, FiniteSetTheorems, TLAPS

-----------------------------------------------------------------------------
(* The inductive invariant *)

\* At most one call of the mounted page runs, and busy says whether one does.
OneRunning == \A o, p \in ops : o.live /\ p.live => o = p
BusyRuns == busy <=> \E o \in ops : o.live

\* A listing an operation waits for belongs to the one that runs.
OpList ==
    /\ \A l \in lists : l.by = "op" => \E o \in ops : o.live /\ o.pc = "refresh"
    /\ \A l, k \in lists : l.by = "op" /\ k.by = "op" => l = k

\* A batch only shrinks; a new folder has none.
Batches == \A o \in ops : o.left \subseteq o.batch /\ (o.kind = "mkdir" => o.left = {})

\* In a smooth history all that is outstanding is about the directory shown.
Smooth ==
    smooth =>
        /\ \A l \in lists : l.dir = here
        /\ lists = {} => items.dir = here
        /\ \A o \in ops : o.live /\ o.dir = here
        /\ \A o \in ops : o.kind = "delete" /\ o.pc = "send" => items.dir = o.dir

\* All that a dialog shows or waits for is about the file it has asked for: the one
\* of its name in the directory shown, which no click under a dialog changes.
Asked == <<here, detail[2]>>
DialogOwn ==
    alone /\ detail # Nothing =>
        /\ {wim, notWim, verifyRes} \subseteq {Nothing, Asked}
        /\ \A q \in asks : q.file = Asked

IInv == TypeOK /\ TicksListed /\ OneRunning /\ BusyRuns /\ OpList /\ Batches /\ Smooth /\ DialogOwn

-----------------------------------------------------------------------------
(* Types *)

\* The root is a directory.
LEMMA RootIsPrefix == Root \in Prefix
<1>1. Root \in [1..0 -> Folder] BY DEF Root
<1>2. 0 \in 0..MaxDepth BY FilesAssumption
<1> QED BY <1>1, <1>2 DEF Prefix

\* What Start adds to the calls is a call.
LEMMA StartType ==
    ASSUME TypeOK, NEW kind \in {"upload", "delete", "mkdir"}, NEW batch \in SUBSET Name,
           Start(kind, batch)
    PROVE  ops' \subseteq Op /\ busy' = TRUE /\ error' = FALSE
<1>1. ops \subseteq Op /\ here \in Dir BY DEF TypeOK
<1>2. [kind |-> kind, dir |-> here, batch |-> batch, left |-> batch,
       pc |-> "send", live |-> TRUE] \in Op BY <1>1 DEF Op
<1> QED BY <1>1, <1>2 DEF Start

\* What Fire adds to the listings is a listing.
LEMMA FireType ==
    ASSUME TypeOK, NEW ds \in SUBSET Dir, NEW b \in {"page", "op"}, Fire(ds, b)
    PROVE  lists' \subseteq List /\ loading' = TRUE /\ error' = FALSE
<1>1. [dir: ds, by: {b}] \subseteq List BY DEF List
<1>2. lists \subseteq List BY DEF TypeOK
<1>3. lists' = lists \cup [dir: ds, by: {b}] /\ loading' = TRUE /\ error' = FALSE BY DEF Fire
<1> QED BY <1>1, <1>2, <1>3

\* Clicks are counted up to their bound.
LEMMA ClickType ==
    ASSUME TypeOK, Click
    PROVE  clicks' \in 0..MaxClicks
BY FilesAssumption DEF TypeOK, Click

\* A request of a dialog is about a file of the directory shown.
LEMMA AskType ==
    ASSUME TypeOK, NEW n \in Name, NEW kind \in {"wiminfo", "verify"},
           asks' = asks \cup {[kind |-> kind, file |-> <<here, n>>]}
    PROVE  asks' \subseteq Ask
BY DEF TypeOK, Ask

\* Carrying out one request keeps the volume a volume.
LEMMA EffectType ==
    ASSUME TypeOK, NEW o \in Op, NEW n \in Name, Effect(o, n)
    PROVE  store' \in [Dir -> SUBSET Name]
BY DEF TypeOK, Effect, Op

\* Every step keeps the types of the page and of what is in flight.
LEMMA TypeStep ==
    ASSUME TypeOK, [Next]_vars
    PROVE  TypeOK'
<1> USE FilesAssumption
<1>d. /\ \A p \in Prefix, c \in Cat : <<c, p>> \in Dir
      /\ cat \in Cat /\ prefix \in Prefix /\ Root \in Prefix
  BY RootIsPrefix DEF TypeOK, here, Dir
<1>1. ASSUME NEW p \in Prefix, GoTo(p) PROVE TypeOK'
  <2>1. {<<cat, p>>} \in SUBSET Dir BY <1>d
  <2>2. lists' \subseteq List /\ loading' = TRUE /\ error' = FALSE BY <1>1, <2>1, FireType DEF GoTo
  <2>c. clicks' \in 0..MaxClicks BY <1>1, ClickType DEF GoTo
  <2> QED BY <2>c, <1>1, <1>d, <2>2 DEF GoTo, TypeOK, here, dialogs
<1>2. ASSUME NEW c \in Cat, ChooseCategory(c) PROVE TypeOK'
  <2>1. {<<c, prefix>>, <<c, Root>>} \in SUBSET Dir BY <1>d
  <2>2. lists' \subseteq List /\ loading' = TRUE /\ error' = FALSE BY <1>2, <2>1, FireType DEF ChooseCategory
  <2>c. clicks' \in 0..MaxClicks BY <1>2, ClickType DEF ChooseCategory
  <2> QED BY <2>c, <1>2, <1>d, <2>2 DEF ChooseCategory, TypeOK, here, dialogs
<1>3. ASSUME NEW ns \in SUBSET Name, ChooseFiles(ns) PROVE TypeOK'
  <2>c. clicks' \in 0..MaxClicks BY <1>3, ClickType DEF ChooseFiles
  <2> QED BY <2>c, <1>3 DEF ChooseFiles, TypeOK, here, dialogs
<1>4. ASSUME NEW n \in Name, Tick(n) PROVE TypeOK'
  <2>c. clicks' \in 0..MaxClicks BY <1>4, ClickType DEF Tick
  <2> QED BY <2>c, <1>4 DEF Tick, TypeOK, here, dialogs
<1>5. ASSUME NEW n \in Name, OpenDetails(n) PROVE TypeOK'
  <2>1. asks' \subseteq Ask BY <1>5, AskType DEF OpenDetails
  <2>c. clicks' \in 0..MaxClicks BY <1>5, ClickType DEF OpenDetails
  <2> QED BY <2>c, <1>5, <2>1 DEF OpenDetails, TypeOK, here, page
<1>6. ASSUME NEW to \in {"closed", "blank", "named"}, NameFolder(to) PROVE TypeOK'
  <2>c. clicks' \in 0..MaxClicks BY <1>6, ClickType DEF NameFolder
  <2> QED BY <2>c, <1>6 DEF NameFolder, TypeOK, here, page
<1>7. CASE Refresh
  <2>1. {here} \in SUBSET Dir BY DEF TypeOK
  <2>2. lists' \subseteq List /\ loading' = TRUE /\ error' = FALSE BY <1>7, <2>1, FireType DEF Refresh
  <2>c. clicks' \in 0..MaxClicks BY <1>7, ClickType DEF Refresh
  <2> QED BY <2>c, <1>7, <2>2 DEF Refresh, TypeOK, here, dialogs
<1>8. CASE ClickUpload
  <2>1. ops' \subseteq Op /\ busy' = TRUE /\ error' = FALSE BY <1>8, StartType DEF ClickUpload, TypeOK
  <2>c. clicks' \in 0..MaxClicks BY <1>8, ClickType DEF ClickUpload
  <2> QED BY <2>c, <1>8, <2>1 DEF ClickUpload, TypeOK, here, dialogs
<1>9. CASE ClickDelete
  <2>1. ops' \subseteq Op /\ busy' = TRUE /\ error' = FALSE BY <1>9, StartType DEF ClickDelete, TypeOK
  <2>c. clicks' \in 0..MaxClicks BY <1>9, ClickType DEF ClickDelete
  <2> QED BY <2>c, <1>9, <2>1 DEF ClickDelete, TypeOK, here, dialogs
<1>10. CASE ClickCreate
  <2>1. ops' \subseteq Op /\ busy' = TRUE /\ error' = FALSE BY <1>10, StartType DEF ClickCreate
  <2>c. clicks' \in 0..MaxClicks BY <1>10, ClickType DEF ClickCreate
  <2> QED BY <2>c, <1>10, <2>1 DEF ClickCreate, TypeOK, here, dialogs
<1>11. CASE CloseDetails
  <2>c. clicks' \in 0..MaxClicks BY <1>11, ClickType DEF CloseDetails
  <2> QED BY <2>c, <1>11 DEF CloseDetails, TypeOK, here, page
<1>12. CASE ClickVerify
  <2>1. detail[2] \in Name BY <1>12 DEF ClickVerify, TypeOK
  <2>2. asks' \subseteq Ask BY <1>12, <2>1, AskType DEF ClickVerify
  <2>c. clicks' \in 0..MaxClicks BY <1>12, ClickType DEF ClickVerify
  <2> QED BY <2>c, <1>12, <2>2 DEF ClickVerify, TypeOK, here, page
<1>13. CASE Dismiss
  <2>c. clicks' \in 0..MaxClicks BY <1>13, ClickType DEF Dismiss
  <2> QED BY <2>c, <1>13 DEF Dismiss, TypeOK, here, dialogs
<1>14. CASE Leave
  <2>1. ops' \subseteq Op
    <3>1. ASSUME NEW o \in Op PROVE [o EXCEPT !.live = FALSE] \in Op BY DEF Op
    <3>2. ops \subseteq Op BY DEF TypeOK
    <3> QED BY <1>14, <3>1, <3>2 DEF Leave
  <2>2. <<First, Root>> \in Dir BY RootIsPrefix DEF First, Dir
  <2>3. lists' \subseteq List BY <1>14, <2>2 DEF Leave, FirstList, List
  <2>4. here' \in Dir BY <1>14, <2>2 DEF Leave, here
  <2>5. items' \in [dir: Dir, names: SUBSET Name] BY <1>14, <2>2 DEF Leave, Blank
  <2>c. clicks' \in 0..MaxClicks BY <1>14, ClickType DEF Leave
  <2> QED BY <2>c, <1>14, <2>1, <2>3, <2>4, <2>5 DEF Leave, TypeOK
<1>15. ASSUME NEW l \in lists, ListDone(l) PROVE TypeOK'
  <2>1. l.dir \in Dir /\ store[l.dir] \in SUBSET Name BY DEF TypeOK, List
  <2>2. items' \in [dir: Dir, names: SUBSET Name] /\ selected' \in SUBSET Name
    BY <1>15, <2>1 DEF ListDone, Answer, AnswerFails, TypeOK
  <2>3. ops' \subseteq Op /\ lists' \subseteq List BY <1>15 DEF ListDone, TypeOK
  <2> QED BY <1>15, <2>2, <2>3 DEF ListDone, Answer, AnswerFails, TypeOK, here, dialogs
<1>16. ASSUME NEW o \in ops, Step(o) PROVE TypeOK'
  <2>0. o \in Op /\ {o.dir} \in SUBSET Dir BY DEF TypeOK, Op
  <2>1. store' \in [Dir -> SUBSET Name]
    BY <1>16, <2>0, EffectType DEF Step, Op, TypeOK
  <2>2. \A n \in o.left : [o EXCEPT !.left = @ \ {n}] \in Op BY <2>0 DEF Op
  <2>3. [o EXCEPT !.left = {}, !.pc = "refresh"] \in Op BY <2>0 DEF Op
  <2>4. ops' \subseteq Op BY <1>16, <2>2, <2>3 DEF Step, Succeed, TypeOK
  <2>5. lists' \subseteq List
    BY <1>16, <2>0, FireType DEF Step, Succeed, TypeOK
  <2> QED BY <1>16, <2>1, <2>4, <2>5 DEF Step, Succeed, Fire, TypeOK, here
<1>17. ASSUME NEW o \in ops, StepFails(o) PROVE TypeOK'
  <2>0. o \in Op BY DEF TypeOK
  <2>1. store' \in [Dir -> SUBSET Name]
    BY <1>17, <2>0, EffectType DEF StepFails, Op, TypeOK
  <2> QED BY <1>17, <2>1 DEF StepFails, GiveUp, TypeOK, here, dialogs
<1>18. ASSUME NEW q \in asks, Catalogue(q) PROVE TypeOK'
  <2>1. q.file \in Dir \X Name BY DEF TypeOK, Ask
  <2> QED BY <1>18, <2>1 DEF Catalogue, TypeOK, here, page
<1>19. ASSUME NEW q \in asks, Verdict(q) PROVE TypeOK'
  <2>1. q.file \in Dir \X Name BY DEF TypeOK, Ask
  <2> QED BY <1>19, <2>1 DEF Verdict, TypeOK, here, page
<1>20. CASE UNCHANGED vars BY <1>20 DEF vars, TypeOK, here, page, dialogs
<1> QED
  BY <1>1, <1>2, <1>3, <1>4, <1>5, <1>6, <1>7, <1>8, <1>9, <1>10, <1>11, <1>12, <1>13, <1>14,
     <1>15, <1>16, <1>17, <1>18, <1>19, <1>20 DEF Next, User, Rest

-----------------------------------------------------------------------------
(* One operation at a time *)

\* The calls keep their records, and one operation runs under one busy flag.
LEMMA OneStep ==
    ASSUME TypeOK, OneRunning, BusyRuns, OpList, [Next]_vars
    PROVE  (OneRunning /\ BusyRuns /\ OpList)'
<1> DEFINE One == OneRunning /\ BusyRuns /\ OpList
<1> SUFFICES One' OBVIOUS
<1>u. ASSUME UNCHANGED <<ops, busy, lists>> PROVE One'
  BY <1>u DEF OneRunning, BusyRuns, OpList
<1>l. ASSUME NEW ds, UNCHANGED <<ops, busy>>, lists' = lists \cup [dir: ds, by: {"page"}] PROVE One'
  <2>1. \A l \in [dir: ds, by: {"page"}] : l.by # "op" OBVIOUS
  <2> QED BY <1>l, <2>1 DEF OneRunning, BusyRuns, OpList
<1>s. ASSUME NEW kind, NEW batch, ~busy, Start(kind, batch), UNCHANGED lists PROVE One'
  <2> DEFINE r == [kind |-> kind, dir |-> here, batch |-> batch, left |-> batch,
                   pc |-> "send", live |-> TRUE]
  <2>1. ops' = ops \cup {r} /\ busy' = TRUE /\ r.live BY <1>s DEF Start
  <2>2. \A o \in ops : ~o.live BY <1>s DEF BusyRuns
  <2>3. \A l \in lists : l.by # "op" BY <2>2 DEF OpList
  <2> HIDE DEF r
  <2> QED BY <1>s, <2>1, <2>2, <2>3 DEF OneRunning, BusyRuns, OpList
<1>1. ASSUME NEW p \in Prefix, GoTo(p) PROVE One'
  BY <1>1, <1>l DEF GoTo, Fire
<1>2. ASSUME NEW c \in Cat, ChooseCategory(c) PROVE One'
  BY <1>2, <1>l DEF ChooseCategory, Fire
<1>3. ASSUME NEW ns \in SUBSET Name, ChooseFiles(ns) PROVE One'
  BY <1>3, <1>u DEF ChooseFiles
<1>4. ASSUME NEW n \in Name, Tick(n) PROVE One'
  BY <1>4, <1>u DEF Tick
<1>5. ASSUME NEW n \in Name, OpenDetails(n) PROVE One'
  BY <1>5, <1>u DEF OpenDetails
<1>6. ASSUME NEW to \in {"closed", "blank", "named"}, NameFolder(to) PROVE One'
  BY <1>6, <1>u DEF NameFolder
<1>7. CASE Refresh BY <1>7, <1>l DEF Refresh, Fire
<1>8. CASE ClickUpload BY <1>8, <1>s DEF ClickUpload
<1>9. CASE ClickDelete BY <1>9, <1>s DEF ClickDelete
<1>10. CASE ClickCreate BY <1>10, <1>s DEF ClickCreate
<1>11. CASE CloseDetails BY <1>11, <1>u DEF CloseDetails
<1>12. CASE ClickVerify BY <1>12, <1>u DEF ClickVerify
<1>13. CASE Dismiss BY <1>13, <1>u DEF Dismiss
<1>14. CASE Leave
  <2>1. \A o \in ops' : ~o.live BY <1>14 DEF Leave, TypeOK, Op
  <2>2. \A l \in lists' : l.by = "page" BY <1>14 DEF Leave, FirstList
  <2>3. ~busy' BY <1>14 DEF Leave
  <2> QED BY <2>1, <2>2, <2>3 DEF OneRunning, BusyRuns, OpList
<1>15. ASSUME NEW l \in lists, ListDone(l) PROVE One'
  <2>1. CASE l.by = "op" BY <1>15, <2>1 DEF ListDone, Running, OneRunning, BusyRuns, OpList
  <2>2. CASE l.by # "op" BY <1>15, <2>2 DEF ListDone, OneRunning, BusyRuns, OpList
  <2> QED BY <2>1, <2>2
<1>16. ASSUME NEW o \in ops, Step(o) PROVE One'
  <2>0. o \in Op /\ o.pc = "send" BY <1>16 DEF Step, TypeOK
  <2>1. CASE Succeed(o) /\ o.live
    <3> DEFINE r == [o EXCEPT !.left = {}, !.pc = "refresh"]
    <3>1. r.live /\ r.pc = "refresh" BY <2>0, <2>1 DEF Op
    <3>2. ops' = (ops \ {o}) \cup {r} /\ lists' = lists \cup [dir: {o.dir}, by: {"op"}]
      BY <2>1 DEF Succeed, Fire
    <3>3. \A l \in lists : l.by # "op" BY <2>0, <2>1 DEF OneRunning, OpList
    <3>4. \A l, k \in [dir: {o.dir}, by: {"op"}] : l = k OBVIOUS
    <3>5. UNCHANGED busy BY <1>16 DEF Step
    <3> HIDE DEF r
    <3> QED BY <2>1, <3>1, <3>2, <3>3, <3>4, <3>5 DEF OneRunning, BusyRuns, OpList
  <2>2. CASE Succeed(o) /\ ~o.live
    <3>1. ops' = ops \ {o} /\ UNCHANGED <<lists, busy>> BY <1>16, <2>2 DEF Succeed, Step
    <3> QED BY <2>2, <3>1 DEF OneRunning, BusyRuns, OpList
  <2>3. ASSUME NEW n, ops' = (ops \ {o}) \cup {[o EXCEPT !.left = @ \ {n}]}, UNCHANGED lists
        PROVE One'
    <3> DEFINE r == [o EXCEPT !.left = @ \ {n}]
    <3>1. r.live = o.live /\ r.pc = "send" BY <2>0 DEF Op
    <3>2. UNCHANGED busy BY <1>16 DEF Step
    <3>3. ops' = (ops \ {o}) \cup {r} BY <2>3
    <3> HIDE DEF r
    <3> QED BY <2>0, <2>3, <3>1, <3>2, <3>3 DEF OneRunning, BusyRuns, OpList
  <2> QED BY <1>16, <2>1, <2>2, <2>3 DEF Step
<1>17. ASSUME NEW o \in ops, StepFails(o) PROVE One'
  <2>1. o.pc = "send" /\ ops' = ops \ {o} /\ UNCHANGED lists
        /\ (IF o.live THEN ~busy' ELSE UNCHANGED busy)
    BY <1>17 DEF StepFails, GiveUp
  <2> QED BY <2>1 DEF OneRunning, BusyRuns, OpList
<1>18. ASSUME NEW q \in asks, Catalogue(q) PROVE One'
  BY <1>18, <1>u DEF Catalogue
<1>19. ASSUME NEW q \in asks, Verdict(q) PROVE One'
  BY <1>19, <1>u DEF Verdict
<1>20. CASE UNCHANGED vars BY <1>20, <1>u DEF vars
<1> QED
  BY <1>1, <1>2, <1>3, <1>4, <1>5, <1>6, <1>7, <1>8, <1>9, <1>10, <1>11, <1>12, <1>13, <1>14,
     <1>15, <1>16, <1>17, <1>18, <1>19, <1>20 DEF Next, User, Rest

-----------------------------------------------------------------------------
(* Batches, smooth histories, ticks and dialogs *)

\* A call carries a part of its batch to its end; folders carry none.
LEMMA BatchStep ==
    ASSUME TypeOK, Batches, [Next]_vars
    PROVE  Batches'
<1>u. ASSUME UNCHANGED ops PROVE Batches' BY <1>u DEF Batches
<1>s. ASSUME NEW kind \in {"upload", "delete", "mkdir"}, NEW batch, kind = "mkdir" => batch = {},
             Start(kind, batch)
      PROVE Batches'
  BY <1>s DEF Start, Batches
<1>r. ASSUME NEW S, S \subseteq ops, ops' = S PROVE Batches' BY <1>r DEF Batches
<1>1. CASE ClickUpload BY <1>1, <1>s DEF ClickUpload
<1>2. CASE ClickDelete BY <1>2, <1>s DEF ClickDelete
<1>3. CASE ClickCreate BY <1>3, <1>s DEF ClickCreate
<1>4. CASE Leave
  <2>1. ASSUME NEW o \in ops
        PROVE LET p == [o EXCEPT !.live = FALSE] IN
              p.left \subseteq p.batch /\ (p.kind = "mkdir" => p.left = {})
    BY DEF TypeOK, Op, Batches
  <2> QED BY <1>4, <2>1 DEF Leave, Batches
<1>5. ASSUME NEW l \in lists, ListDone(l) PROVE Batches'
  BY <1>5 DEF ListDone, Batches
<1>6. ASSUME NEW o \in ops, Step(o) PROVE Batches'
  <2>0. o \in Op BY DEF TypeOK
  <2>1. ASSUME NEW left \in SUBSET o.left, NEW pc,
               ops' = (ops \ {o}) \cup {[o EXCEPT !.left = left, !.pc = pc]}
        PROVE Batches'
    <3> DEFINE r == [o EXCEPT !.left = left, !.pc = pc]
    <3>1. r.left = left /\ r.batch = o.batch /\ r.kind = o.kind BY <2>0 DEF Op
    <3>2. ops' = (ops \ {o}) \cup {r} BY <2>1
    <3> HIDE DEF r
    <3> QED BY <3>1, <3>2 DEF Batches
  <2>2. ASSUME NEW n PROVE [o EXCEPT !.left = @ \ {n}] = [o EXCEPT !.left = o.left \ {n}, !.pc = o.pc]
    BY <2>0 DEF Op
  <2>3. CASE Succeed(o) BY <2>1, <2>3, <1>r DEF Succeed
  <2> QED BY <1>6, <2>1, <2>2, <2>3 DEF Step
<1>7. ASSUME NEW o \in ops, StepFails(o) PROVE Batches'
  BY <1>7, <1>r DEF StepFails, GiveUp
<1>8. CASE UNCHANGED ops BY <1>8, <1>u
<1> QED
  BY <1>1, <1>2, <1>3, <1>4, <1>5, <1>6, <1>7, <1>8
     DEF Next, User, Rest, vars, GoTo, ChooseCategory, ChooseFiles, Tick, OpenDetails, NameFolder,
         Refresh, CloseDetails, ClickVerify, Dismiss, Catalogue, Verdict

\* Navigation and Delete keep a history smooth only when nothing is outstanding.
LEMMA SmoothStep ==
    ASSUME TypeOK, OneRunning, BusyRuns, Smooth, [Next]_vars
    PROVE  Smooth'
<1> USE DEF Smooth, here
<1>u. ASSUME UNCHANGED <<cat, prefix, items, smooth, lists, ops>> PROVE Smooth' BY <1>u
<1>s. ASSUME NEW kind \in {"upload", "delete", "mkdir"}, NEW batch, Start(kind, batch),
             UNCHANGED <<cat, prefix, items, lists>>,
             smooth' => smooth /\ (kind = "delete" => lists = {})
      PROVE Smooth'
  <2> DEFINE r == [kind |-> kind, dir |-> here, batch |-> batch, left |-> batch,
                   pc |-> "send", live |-> TRUE]
  <2>1. ops' = ops \cup {r} /\ r.live /\ r.dir = here /\ r.kind = kind BY <1>s DEF Start
  <2> HIDE DEF r
  <2> QED BY <1>s, <2>1
<1>1. ASSUME NEW p \in Prefix, GoTo(p) PROVE Smooth'
  <2>1. lists' = lists \cup [dir: {<<cat, p>>}, by: {"page"}] BY <1>1 DEF GoTo, Fire
  <2>2. \A l \in [dir: {<<cat, p>>}, by: {"page"}] : l.dir = <<cat, p>> OBVIOUS
  <2>3. [dir |-> <<cat, p>>, by |-> "page"] \in [dir: {<<cat, p>>}, by: {"page"}] OBVIOUS
  <2> QED BY <1>1, <2>1, <2>2, <2>3 DEF GoTo, AtRest
<1>2. ASSUME NEW c \in Cat, ChooseCategory(c) PROVE Smooth'
  <2> DEFINE L == [dir: {<<c, prefix>>, <<c, Root>>}, by: {"page"}]
  <2>1. lists' = lists \cup L BY <1>2 DEF ChooseCategory, Fire
  <2>2. \A l \in L : l.dir \in {<<c, prefix>>, <<c, Root>>} OBVIOUS
  <2>3. [dir |-> <<c, Root>>, by |-> "page"] \in L OBVIOUS
  <2>4. smooth' => ops = {} /\ lists = {} /\ prefix = Root BY <1>2 DEF ChooseCategory, AtRest
  <2>5. ops' = ops /\ cat' = c /\ prefix' = Root BY <1>2 DEF ChooseCategory
  <2> HIDE DEF L
  <2> QED BY <2>1, <2>2, <2>3, <2>4, <2>5
<1>3. CASE Refresh
  <2>1. lists' = lists \cup [dir: {here}, by: {"page"}] BY <1>3 DEF Refresh, Fire
  <2>2. \A l \in [dir: {here}, by: {"page"}] : l.dir = here OBVIOUS
  <2>3. [dir |-> here, by |-> "page"] \in [dir: {here}, by: {"page"}] OBVIOUS
  <2> QED BY <1>3, <2>1, <2>2, <2>3 DEF Refresh
<1>4. CASE ClickUpload BY <1>4, <1>s DEF ClickUpload
<1>5. CASE ClickDelete BY <1>5, <1>s DEF ClickDelete, AtRest
<1>6. CASE ClickCreate BY <1>6, <1>s DEF ClickCreate
<1>7. CASE Leave
  <2>1. lists' # {} /\ \A l \in lists' : l.dir = <<First, Root>> BY <1>7 DEF Leave, FirstList
  <2>2. smooth' => ops' = {} BY <1>7 DEF Leave
  <2>3. here' = <<First, Root>> BY <1>7 DEF Leave
  <2> QED BY <2>1, <2>2, <2>3
<1>8. ASSUME NEW l \in lists, ListDone(l) PROVE Smooth'
  <2>1. CASE Answer(l) BY <1>8, <2>1 DEF ListDone, Answer, Running
  <2>2. CASE AnswerFails(l) BY <1>8, <2>2 DEF ListDone, AnswerFails
  <2> QED BY <1>8, <2>1, <2>2 DEF ListDone
<1>9. ASSUME NEW o \in ops, Step(o) PROVE Smooth'
  <2>0. o \in Op /\ o.pc = "send" /\ UNCHANGED <<cat, prefix, items, smooth>>
    BY <1>9 DEF Step, TypeOK
  <2>1. CASE Succeed(o)
    <3> DEFINE r == [o EXCEPT !.left = {}, !.pc = "refresh"]
               L == [dir: {o.dir}, by: {"op"}]
    <3>1. r.live = o.live /\ r.pc = "refresh" /\ r.dir = o.dir BY <2>0 DEF Op
    <3>2. (\A l \in L : l.dir = o.dir) /\ [dir |-> o.dir, by |-> "op"] \in L OBVIOUS
    <3>3. smooth => ops' = (ops \ {o}) \cup {r} /\ lists' = lists \cup L
      BY <2>1 DEF Succeed, Fire
    <3> HIDE DEF r, L
    <3> QED BY <2>0, <3>1, <3>2, <3>3
  <2>2. ASSUME NEW n, ops' = (ops \ {o}) \cup {[o EXCEPT !.left = @ \ {n}]}, UNCHANGED lists
        PROVE Smooth'
    <3> DEFINE r == [o EXCEPT !.left = @ \ {n}]
    <3>1. r.live = o.live /\ r.pc = "send" /\ r.dir = o.dir /\ r.kind = o.kind BY <2>0 DEF Op
    <3>2. ops' = (ops \ {o}) \cup {r} BY <2>2
    <3> HIDE DEF r
    <3> QED BY <2>0, <2>2, <3>1, <3>2
  <2> QED BY <1>9, <2>1, <2>2 DEF Step
<1>10. ASSUME NEW o \in ops, StepFails(o) PROVE Smooth'
  BY <1>10 DEF StepFails, GiveUp
<1>11. CASE UNCHANGED <<cat, prefix, items, smooth, lists, ops>> BY <1>11, <1>u
<1> QED
  BY <1>1, <1>2, <1>3, <1>4, <1>5, <1>6, <1>7, <1>8, <1>9, <1>10, <1>11
     DEF Next, User, Rest, vars, page, ChooseFiles, Tick, OpenDetails, NameFolder,
         CloseDetails, ClickVerify, Dismiss, Catalogue, Verdict

\* Ticks are made in the rows on show and go with them.
LEMMA TickStep ==
    ASSUME TicksListed, [Next]_vars
    PROVE  TicksListed'
<1> USE DEF TicksListed
<1>1. ASSUME NEW n \in Name, Tick(n) PROVE TicksListed' BY <1>1 DEF Tick
<1>2. CASE Leave BY <1>2 DEF Leave
<1>3. ASSUME NEW l \in lists, ListDone(l) PROVE TicksListed'
  BY <1>3 DEF ListDone, Answer, AnswerFails
<1>4. CASE UNCHANGED <<items, selected>> BY <1>4
<1> QED
  BY <1>1, <1>2, <1>3, <1>4
     DEF Next, User, Rest, vars, page, GoTo, ChooseCategory, Refresh, ChooseFiles, ClickUpload,
         ClickDelete, ClickCreate, OpenDetails, NameFolder, CloseDetails, ClickVerify, Dismiss,
         Step, StepFails, Catalogue, Verdict

\* While a dialog is open the page beneath it stays, and what arrives is its own.
LEMMA DialogStep ==
    ASSUME TypeOK, DialogOwn, [Next]_vars
    PROVE  DialogOwn'
<1> USE DEF DialogOwn
<1>1. ASSUME NEW n \in Name, OpenDetails(n) PROVE DialogOwn'
  <2>1. here' = here /\ detail' = <<items.dir, n>> BY <1>1 DEF OpenDetails, page, here
  <2>2. Asked' = <<here, n>> BY <2>1 DEF Asked
  <2>3. {wim', notWim', verifyRes'} \subseteq {Nothing} BY <1>1 DEF OpenDetails
  <2>4. alone' => asks' = {[kind |-> "wiminfo", file |-> <<here, n>>]}
    BY <1>1 DEF OpenDetails
  <2>5. alone' => \A q \in asks' : q.file = Asked' BY <2>2, <2>4
  <2> QED BY <2>3, <2>5
<1>2. CASE CloseDetails BY <1>2 DEF CloseDetails
<1>3. CASE ClickVerify
  <2>1. Asked' = Asked /\ UNCHANGED <<detail, wim, notWim, alone>> /\ detail # Nothing
    BY <1>3 DEF ClickVerify, page, here, Asked
  <2>2. verifyRes' = Nothing BY <1>3 DEF ClickVerify
  <2>3. asks' = asks \cup {[kind |-> "verify", file |-> Asked]}
    BY <1>3 DEF ClickVerify, Asked
  <2>4. alone => \A q \in asks' : q.file = Asked BY <2>1, <2>3
  <2> QED BY <2>1, <2>2, <2>4
<1>4. ASSUME NEW q \in asks, Catalogue(q) PROVE DialogOwn'
  <2>1. Asked' = Asked /\ UNCHANGED <<detail, verifyRes, alone>> BY <1>4 DEF Catalogue, page, here, Asked
  <2>2. asks' \subseteq asks /\ {wim', notWim'} \subseteq {wim, notWim, q.file} BY <1>4 DEF Catalogue
  <2> QED BY <2>1, <2>2
<1>5. ASSUME NEW q \in asks, Verdict(q) PROVE DialogOwn'
  <2>1. Asked' = Asked /\ UNCHANGED <<detail, wim, notWim, alone>> BY <1>5 DEF Verdict, page, here, Asked
  <2>2. asks' \subseteq asks /\ verifyRes' \in {verifyRes, q.file} BY <1>5 DEF Verdict
  <2> QED BY <2>1, <2>2
<1>6. CASE detail' = Nothing BY <1>6
<1>7. CASE UNCHANGED <<cat, prefix, detail, wim, notWim, verifyRes, asks, alone>> BY <1>7 DEF here, Asked
<1> QED
  BY <1>1, <1>2, <1>3, <1>4, <1>5, <1>6, <1>7
     DEF Next, User, Rest, vars, page, dialogs, Clear, GoTo, ChooseCategory, Refresh, ChooseFiles,
         Tick, ClickUpload, ClickDelete, ClickCreate, NameFolder, Dismiss, Leave, ListDone, Step,
         StepFails

-----------------------------------------------------------------------------
(* Invariance *)

\* A page that has just been mounted satisfies the invariant.
LEMMA InitInv == Init => IInv
<1> SUFFICES ASSUME Init PROVE IInv OBVIOUS
<1> USE FilesAssumption DEF Init
<1>1. <<First, Root>> \in Dir BY RootIsPrefix DEF First, Dir
<1>2. lists \subseteq List /\ lists # {} /\ \A l \in lists : l.dir = here /\ l.by = "page"
  BY <1>1 DEF FirstList, List, here
<1>3. here \in Dir /\ items \in [dir: Dir, names: SUBSET Name] BY <1>1 DEF here, Blank
<1>4. clicks \in 0..MaxClicks OBVIOUS
<1>5. TypeOK BY <1>2, <1>3, <1>4 DEF TypeOK
<1>6. TicksListed /\ OneRunning /\ BusyRuns /\ OpList /\ Batches
  BY <1>2 DEF TicksListed, OneRunning, BusyRuns, OpList, Batches
<1>7. Smooth BY <1>2 DEF Smooth
<1>8. DialogOwn BY DEF DialogOwn
<1> QED BY <1>5, <1>6, <1>7, <1>8 DEF IInv

\* The invariant holds in every reachable state.
THEOREM Invariance == Spec => []IInv
<1>1. IInv /\ [Next]_vars => IInv'
  BY TypeStep, OneStep, BatchStep, SmoothStep, TickStep, DialogStep DEF IInv
<1> QED BY <1>1, InitInv, PTL DEF Spec

-----------------------------------------------------------------------------
(* The properties of section 4 *)

\* Every variable of the file browser keeps its type.
THEOREM TypeCorrect == Spec => []TypeOK
BY Invariance, PTL DEF IInv

\* The busy flag stands for exactly one running operation.
THEOREM OneOperation == Spec => []BusyExact
<1>1. IInv => BusyExact
  <2> SUFFICES ASSUME IInv PROVE BusyExact OBVIOUS
  <2>1. busy <=> Running # {} BY DEF IInv, BusyRuns, Running
  <2>2. CASE Running = {} BY <2>1, <2>2, FS_EmptySet DEF BusyExact
  <2>3. CASE Running # {}
    <3>1. PICK o \in ops : Running = {o} BY <2>3 DEF IInv, OneRunning, Running
    <3> QED BY <2>1, <3>1, FS_Singleton DEF BusyExact
  <2> QED BY <2>2, <2>3
<1> QED BY <1>1, Invariance, PTL

\* A tick never outlives the listing it was made in.
THEOREM TicksCorrect == Spec => []TicksListed
BY Invariance, PTL DEF IInv

\* After a smooth history a page at rest shows the directory its breadcrumb names.
THEOREM ListingCorrect == Spec => []ListingHere
<1>1. IInv => ListingHere BY DEF IInv, Smooth, ListingHere
<1> QED BY <1>1, Invariance, PTL

\* A dialog opened over rows of the directory shown, with nothing outstanding, shows
\* results of its own file only.
THEOREM ResultsCorrect == Spec => []ResultsOwn
<1>1. IInv => ResultsOwn
  <2> SUFFICES ASSUME IInv, alone, detail # Nothing, detail[1] = here
               PROVE  {CatalogueShown, VerdictShown} \subseteq {Nothing, detail}
    BY DEF ResultsOwn
  <2>1. detail = Asked BY DEF IInv, TypeOK, Asked
  <2> QED BY <2>1 DEF IInv, DialogOwn, CatalogueShown, VerdictShown
<1> QED BY <1>1, Invariance, PTL

\* Only the requests of running calls change the volume.
LEMMA StoreStep ==
    ASSUME TypeOK, [Next]_vars, NEW d \in Dir, store'[d] # store[d]
    PROVE  \E o \in ops : \E n \in o.left :
              /\ o \in Op /\ o.pc = "send" /\ o.dir = d
              /\ IF o.kind = "upload" THEN store'[d] = store[d] \cup {n} ELSE store'[d] = store[d] \ {n}
<1>1. ~UNCHANGED store OBVIOUS
<1>2. PICK o \in ops : Step(o) \/ StepFails(o)
  BY <1>1 DEF Next, User, Rest, vars, page, dialogs, GoTo, ChooseCategory, Refresh, ChooseFiles,
       Tick, ClickUpload, ClickDelete, ClickCreate, NameFolder, OpenDetails, CloseDetails,
       ClickVerify, Dismiss, Leave, ListDone, Catalogue, Verdict
<1>3. PICK n \in o.left : Effect(o, n) /\ o.pc = "send" BY <1>1, <1>2 DEF Step, StepFails
<1>4. o \in Op /\ o.dir \in Dir /\ store \in [Dir -> SUBSET Name] BY DEF TypeOK, Op
<1> QED BY <1>3, <1>4 DEF Effect

\* After a smooth history nothing is deleted but a file of the directory in which
\* the user saw it.
THEOREM DeletionsCorrect == Spec => DeletedWhereSeen
<1>1. IInv /\ [Next]_vars =>
        [\A d \in Dir : store[d] \ store'[d] # {} => ~smooth \/ items.dir = d]_vars
  <2> SUFFICES ASSUME IInv, [Next]_vars, NEW d \in Dir, store[d] \ store'[d] # {}, smooth
               PROVE  items.dir = d
    OBVIOUS
  <2>1. TypeOK /\ Batches /\ Smooth BY DEF IInv
  <2>2. store'[d] # store[d] OBVIOUS
  <2>3. PICK o \in ops : \E n \in o.left :
              /\ o \in Op /\ o.pc = "send" /\ o.dir = d
              /\ IF o.kind = "upload" THEN store'[d] = store[d] \cup {n} ELSE store'[d] = store[d] \ {n}
    BY <2>1, <2>2, StoreStep
  <2>4. o.kind = "delete" BY <2>1, <2>3 DEF Op, Batches
  <2> QED BY <2>1, <2>3, <2>4 DEF Smooth
<1> QED BY <1>1, Invariance, PTL DEF Spec, DeletedWhereSeen

\* Files land in the directory that was named when Upload was clicked.
THEOREM UploadsCorrect == Spec => LandsWhereSaid
<1>1. IInv /\ [Next]_vars =>
        [\A d \in Dir : \A n \in store'[d] \ store[d] :
            \E o \in ops : o.kind = "upload" /\ o.dir = d /\ n \in o.batch]_vars
  <2> SUFFICES ASSUME IInv, [Next]_vars, NEW d \in Dir, NEW n \in store'[d] \ store[d]
               PROVE  \E o \in ops : o.kind = "upload" /\ o.dir = d /\ n \in o.batch
    OBVIOUS
  <2>1. TypeOK /\ Batches BY DEF IInv
  <2>2. store'[d] # store[d] OBVIOUS
  <2>3. PICK o \in ops : \E m \in o.left :
              /\ o \in Op /\ o.pc = "send" /\ o.dir = d
              /\ IF o.kind = "upload" THEN store'[d] = store[d] \cup {m} ELSE store'[d] = store[d] \ {m}
    BY <2>1, <2>2, StoreStep
  <2>4. o.kind = "upload" /\ n \in o.left BY <2>3
  <2> QED BY <2>1, <2>3, <2>4 DEF Batches
<1> QED BY <1>1, Invariance, PTL DEF Spec, LandsWhereSaid

\* Only the user, a new page or an upload of the whole batch takes files out of
\* the queue.
THEOREM QueueCorrect == Spec => QueueKept
<1> DEFINE Emptied == \/ \E ns \in SUBSET Name : ChooseFiles(ns)
                      \/ Leave
                      \/ \E o \in Running : /\ o.kind = "upload"
                                            /\ \E n \in store'[o.dir] : o.left = {n}
<1>1. IInv /\ [Next]_vars => [upload' # upload => Emptied]_vars
  <2> SUFFICES ASSUME IInv, [Next]_vars, upload' # upload PROVE Emptied OBVIOUS
  <2>1. TypeOK BY DEF IInv
  <2>2. CASE \E ns \in SUBSET Name : ChooseFiles(ns) BY <2>2
  <2>3. CASE Leave BY <2>3
  <2>4. ASSUME NEW o \in ops, Step(o) PROVE Emptied
    <3>1. Succeed(o) /\ o.live /\ o.kind = "upload" BY <2>4 DEF Step, Succeed
    <3>2. PICK n \in o.left : o.left = {n} /\ Effect(o, n)
      <4>1. CASE \E n \in o.left : o.left = {n} /\ Effect(o, n) BY <4>1
      <4>2. CASE \E n \in o.left : o.left # {n} /\ UNCHANGED upload BY <4>2
      <4> QED BY <2>4, <3>1, <4>1, <4>2 DEF Step
    <3>3. o.dir \in Dir /\ store \in [Dir -> SUBSET Name] BY <2>1 DEF TypeOK, Op
    <3>4. n \in store'[o.dir] BY <3>1, <3>2, <3>3 DEF Effect
    <3> QED BY <3>1, <3>2, <3>4 DEF Running
  <2>5. CASE UNCHANGED upload BY <2>5
  <2> QED
    BY <2>2, <2>3, <2>4, <2>5
       DEF Next, User, Rest, vars, page, GoTo, ChooseCategory, Refresh, Tick, ClickUpload,
           ClickDelete, ClickCreate, NameFolder, OpenDetails, CloseDetails, ClickVerify, Dismiss,
           ListDone, StepFails, GiveUp, Catalogue, Verdict
<1> QED BY <1>1, Invariance, PTL DEF Spec, QueueKept
=============================================================================
