------------------------------ MODULE FilesTab ------------------------------
(***************************************************************************)
(* The file browser of the admin console (admin/web/src/FilesTab.tsx): a   *)
(* React component whose handlers are asynchronous.  A handler works with  *)
(* the state of the render it was created in (its closure), while the user *)
(* goes on clicking; what it sets when an answer arrives lands in whatever *)
(* the page shows by then.                                                 *)
(*                                                                         *)
(* One action is one click, with every effect it triggers, or the arrival  *)
(* of one answer.  Any request may fail; requests in flight are answered   *)
(* in any order.  Two equal requests in flight count as one.               *)
(***************************************************************************)
EXTENDS Naturals, Sequences, FiniteSets

CONSTANTS
    Cat,        \* CATEGORIES
    Folder,     \* names of folders, present at the root of every category
    MaxDepth,   \* bound on the length of a prefix
    Name,       \* file names
    Recorded,   \* names that were listed with a checksum
    Nothing,    \* null
    Initial,    \* Initial[d]: the files of directory d at the beginning
    MaxClicks,  \* bound on what the user does
    MaxLists    \* bound on listings the user keeps in flight

\* A prefix is the path of the directory shown; a row adds its name to it.
Prefix == UNION {[1..k -> Folder] : k \in 0..MaxDepth}
Root == <<>>
Dir == Cat \X Prefix

ASSUME FilesAssumption ==
    /\ Cat # {}
    /\ MaxDepth \in Nat
    /\ Nothing \notin Name \cup (Dir \X Name)
    /\ Recorded \subseteq Name
    /\ Initial \in [Dir -> SUBSET Name]
    /\ MaxClicks \in Nat /\ MaxLists \in Nat

VARIABLES
    cat, prefix,         \* the directory shown in the breadcrumb
    items,               \* the rows, and the directory they were listed in
    selected, upload,    \* ticked rows; files queued for upload
    loading, busy, error, newFolder,
    detail, wim, notWim, wimLoading, verifyRes, verifying, \* the Details dialog
    store,               \* the volume
    ops,                 \* running doUpload, doDelete and doCreateFolder calls
    lists,               \* listings in flight
    asks,                \* wiminfo and verify requests in flight
    clicks,
    smooth, alone        \* history, see AtRest and OpenDetails

page == <<cat, prefix, items, selected, upload, loading, error>>
dialogs == <<newFolder, detail, wim, notWim, wimLoading, verifyRes, verifying, asks, alone>>
vars == <<page, dialogs, busy, store, ops, lists, clicks, smooth>>

here == <<cat, prefix>>

\* A call of an asynchronous handler: what it closed over, how far it got, and
\* whether the component it belongs to is still mounted.
Op == [kind: {"upload", "delete", "mkdir"}, dir: Dir, batch: SUBSET Name,
       left: SUBSET Name, pc: {"send", "refresh"}, live: BOOLEAN]
List == [dir: Dir, by: {"page", "op"}]
Ask == [kind: {"wiminfo", "verify"}, file: Dir \X Name]

Running == {o \in ops : o.live}

\* A dialog covers the page and its tabs; a table that loads hides its rows.
Clear == detail = Nothing /\ newFolder = "closed"
RowsShown == Clear /\ ~loading

\* Nothing the page has asked for is outstanding.
AtRest == ops = {} /\ lists = {}

Click == clicks < MaxClicks /\ clicks' = clicks + 1

\* refresh() as called in directory ds: one request each, spinner on, error off.
Fire(ds, by) ==
    /\ lists' = lists \cup [dir: ds, by: {by}]
    /\ loading' = TRUE
    /\ error' = FALSE

-----------------------------------------------------------------------------
(* Navigation *)

\* A click in the breadcrumb, or on a folder row: the row's name is added to the
\* prefix shown by now, which need not be where the row was listed.
Leads(p) ==
    \/ \E k \in 0..Len(prefix) : k < Len(prefix) /\ p = SubSeq(prefix, 1, k)
    \/ RowsShown /\ items.dir[2] = Root /\ \E f \in Folder : p = Append(prefix, f)

\* Faulty variant of GoTo: refresh does not depend on the prefix.
GoToSilent(p) ==
    /\ Click /\ Clear /\ Leads(p)
    /\ prefix' = p
    /\ smooth' = (smooth /\ AtRest)
    /\ UNCHANGED <<cat, items, selected, upload, busy, loading, error, lists, dialogs, store, ops>>

\* The effect on [cat, prefix] lists the new directory.  Nothing else is reset:
\* rows and ticks stay until the answer arrives.
GoTo(p) ==
    /\ Click /\ Clear /\ Leads(p) /\ Cardinality(lists) < MaxLists
    /\ prefix' = p
    /\ Fire({<<cat, p>>}, "page")
    /\ smooth' = (smooth /\ AtRest)
    /\ UNCHANGED <<cat, items, selected, upload, busy, dialogs, store, ops>>

\* The first effect lists the new category under the old prefix, the second one
\* resets the prefix, which lists again.
ChooseCategory(c) ==
    /\ Click /\ Clear /\ c # cat /\ Cardinality(lists) < MaxLists
    /\ cat' = c /\ prefix' = Root
    /\ Fire({<<c, prefix>>, <<c, Root>>}, "page")
    /\ smooth' = (smooth /\ AtRest /\ prefix = Root)
    /\ UNCHANGED <<items, selected, upload, busy, dialogs, store, ops>>

Refresh ==
    /\ Click /\ RowsShown /\ Cardinality(lists) < MaxLists
    /\ Fire({here}, "page")
    /\ UNCHANGED <<cat, prefix, items, selected, upload, busy, dialogs, store, ops, smooth>>

\* Faulty variant of Answer: an empty directory lists as one null row.
AnswerNull(l) ==
    /\ items' = [dir |-> l.dir, names |-> IF store[l.dir] = {} THEN {Nothing} ELSE store[l.dir]]
    /\ selected' = {}
    /\ UNCHANGED <<error, smooth>>

\* Faulty variant of Answer: the ticks survive the new rows.
AnswerKeepsTicks(l) ==
    /\ items' = [dir |-> l.dir, names |-> store[l.dir]]
    /\ UNCHANGED <<selected, error, smooth>>

\* The listing arrives (a missing directory lists as empty), or fails.
Answer(l) ==
    /\ items' = [dir |-> l.dir, names |-> store[l.dir]]
    /\ selected' = {}
    /\ UNCHANGED <<error, smooth>>
AnswerFails(l) ==
    /\ error' = TRUE /\ smooth' = FALSE
    /\ UNCHANGED <<items, selected>>

\* Either way the spinner goes off, and the operation that awaited it is over.
ListDone(l) ==
    /\ l \in lists
    /\ Answer(l) \/ AnswerFails(l)
    /\ lists' = lists \ {l}
    /\ loading' = FALSE
    /\ IF l.by = "op"
       THEN ops' = ops \ {o \in Running : o.pc = "refresh"} /\ busy' = FALSE
       ELSE UNCHANGED <<ops, busy>>
    /\ UNCHANGED <<cat, prefix, upload, dialogs, store, clicks>>

-----------------------------------------------------------------------------
(* Operations: Upload, Delete and Create *)

Start(kind, batch) ==
    /\ ops' = ops \cup {[kind |-> kind, dir |-> here, batch |-> batch,
                         left |-> batch, pc |-> "send", live |-> TRUE]}
    /\ busy' = TRUE
    /\ error' = FALSE

ChooseFiles(ns) ==
    /\ Click /\ Clear /\ ns # upload
    /\ upload' = ns
    /\ UNCHANGED <<cat, prefix, items, selected, loading, error, busy, dialogs, store, ops, lists, smooth>>

Tick(n) ==
    /\ Click /\ RowsShown /\ n \in items.names
    /\ selected' = IF n \in selected THEN selected \ {n} ELSE selected \cup {n}
    /\ UNCHANGED <<cat, prefix, items, upload, loading, error, busy, dialogs, store, ops, lists, smooth>>

ClickUpload ==
    /\ Click /\ Clear /\ ~busy /\ upload # {}
    /\ Start("upload", upload)
    /\ UNCHANGED <<cat, prefix, items, selected, upload, loading, dialogs, store, lists, smooth>>

\* Faulty variant of ClickDelete: the button ignores busy.
ClickDeleteAlways ==
    /\ Click /\ Clear /\ selected # {}
    /\ Start("delete", selected)
    /\ smooth' = (smooth /\ AtRest)
    /\ UNCHANGED <<cat, prefix, items, selected, upload, loading, dialogs, store, lists>>

ClickDelete ==
    /\ Click /\ Clear /\ ~busy /\ selected # {}
    /\ Start("delete", selected)
    /\ smooth' = (smooth /\ AtRest)
    /\ UNCHANGED <<cat, prefix, items, selected, upload, loading, dialogs, store, lists>>

\* The name dialog, open with a blank or a proper name.
NameFolder(to) ==
    /\ Click /\ detail = Nothing /\ newFolder # to
    /\ newFolder = "closed" => to = "blank"
    /\ newFolder' = to
    /\ UNCHANGED <<page, detail, wim, notWim, wimLoading, verifyRes, verifying, asks,
                   alone, busy, store, ops, lists, smooth>>

ClickCreate ==
    /\ Click /\ ~busy /\ newFolder = "named"
    /\ Start("mkdir", {})
    /\ UNCHANGED <<cat, prefix, items, selected, upload, loading, dialogs, store, lists, smooth>>

\* Faulty variant of Effect: the directory is the one shown by now.
EffectHere(o, n) ==
    store' = [store EXCEPT ![here] = IF o.kind = "upload" THEN @ \cup {n} ELSE @ \ {n}]

\* The server carries out the request for n in the directory the call closed over.
Effect(o, n) ==
    store' = [store EXCEPT ![o.dir] = IF o.kind = "upload" THEN @ \cup {n} ELSE @ \ {n}]

\* The last answer was fine: the queue or the dialog is cleared and the closure's
\* own directory listed.  A call whose page is gone sets nothing any more.
Succeed(o) ==
    IF o.live
    THEN /\ ops' = (ops \ {o}) \cup {[o EXCEPT !.left = {}, !.pc = "refresh"]}
         /\ Fire({o.dir}, "op")
         /\ upload' = IF o.kind = "upload" THEN {} ELSE upload
         /\ newFolder' = IF o.kind = "mkdir" THEN "closed" ELSE newFolder
    ELSE ops' = ops \ {o} /\ UNCHANGED <<lists, loading, error, upload, newFolder>>

\* Files are taken one after the other; each is acknowledged before the next.
Step(o) ==
    /\ o \in ops /\ o.pc = "send"
    /\ \/ \E n \in o.left :
            /\ o.kind = "delete" => n \in store[o.dir]
            /\ Effect(o, n)
            /\ IF o.left = {n}
               THEN Succeed(o)
               ELSE /\ ops' = (ops \ {o}) \cup {[o EXCEPT !.left = @ \ {n}]}
                    /\ UNCHANGED <<lists, loading, error, upload, newFolder>>
       \/ o.kind = "mkdir" /\ Succeed(o) /\ UNCHANGED store
    /\ UNCHANGED <<cat, prefix, items, selected, busy, detail, wim, notWim, wimLoading,
                   verifyRes, verifying, asks, alone, clicks, smooth>>

\* Faulty variant of GiveUp: the queue is cleared on the way out.
GiveUpClears(o) ==
    /\ ops' = ops \ {o}
    /\ IF o.live THEN error' = TRUE /\ busy' = FALSE /\ upload' = {}
                 ELSE UNCHANGED <<error, busy, upload>>

\* Faulty variant of GiveUp: only the successful path resets busy.
GiveUpBusy(o) ==
    /\ ops' = ops \ {o}
    /\ error' = (error \/ o.live)
    /\ UNCHANGED <<busy, upload>>

\* catch and finally: the rest of the batch is abandoned.
GiveUp(o) ==
    /\ ops' = ops \ {o}
    /\ IF o.live THEN error' = TRUE /\ busy' = FALSE ELSE UNCHANGED <<error, busy>>
    /\ UNCHANGED upload

\* A request is refused (a deleted file is not there), or only its answer is lost.
StepFails(o) ==
    /\ o \in ops /\ o.pc = "send"
    /\ UNCHANGED store \/ \E n \in o.left : Effect(o, n)
    /\ GiveUp(o)
    /\ UNCHANGED <<cat, prefix, items, selected, loading, dialogs, lists, clicks, smooth>>

-----------------------------------------------------------------------------
(* The Details dialog *)

\* Faulty variant of OpenDetails: the old verdict is not cleared.
OpenDetailsKeeps(n) ==
    /\ Click /\ RowsShown /\ n \in items.names
    /\ detail' = <<items.dir, n>>
    /\ wim' = Nothing /\ notWim' = Nothing
    /\ wimLoading' = TRUE
    /\ asks' = asks \cup {[kind |-> "wiminfo", file |-> <<here, n>>]}
    /\ alone' = (asks = {})
    /\ UNCHANGED <<page, newFolder, verifyRes, verifying, busy, store, ops, lists, smooth>>

\* The dialog shows the clicked row, of the directory the rows were listed in; the
\* catalogue is asked for by name in the directory shown by now.
OpenDetails(n) ==
    /\ Click /\ RowsShown /\ n \in items.names
    /\ detail' = <<items.dir, n>>
    /\ wim' = Nothing /\ notWim' = Nothing /\ verifyRes' = Nothing
    /\ wimLoading' = TRUE
    /\ asks' = asks \cup {[kind |-> "wiminfo", file |-> <<here, n>>]}
    /\ alone' = (asks = {})
    /\ UNCHANGED <<page, newFolder, verifying, busy, store, ops, lists, smooth>>

CloseDetails ==
    /\ Click /\ detail # Nothing
    /\ detail' = Nothing
    /\ UNCHANGED <<page, newFolder, wim, notWim, wimLoading, verifyRes, verifying, asks,
                   alone, busy, store, ops, lists, smooth>>

ClickVerify ==
    /\ Click /\ detail # Nothing /\ ~verifying /\ detail[2] \in Recorded
    /\ verifying' = TRUE /\ verifyRes' = Nothing
    /\ asks' = asks \cup {[kind |-> "verify", file |-> <<here, detail[2]>>]}
    /\ UNCHANGED <<page, newFolder, detail, wim, notWim, wimLoading, alone, busy, store,
                   ops, lists, smooth>>

\* Answers are applied whatever the dialog shows by then: the catalogue, the
\* 422 of a file that is no WIM image, or an error that names no file.
Catalogue(q) ==
    /\ q \in asks /\ q.kind = "wiminfo"
    /\ asks' = asks \ {q}
    /\ wimLoading' = FALSE
    /\ \/ wim' = q.file /\ UNCHANGED notWim
       \/ notWim' = q.file /\ UNCHANGED wim
       \/ UNCHANGED <<wim, notWim>>
    /\ UNCHANGED <<page, newFolder, detail, verifyRes, verifying, alone, busy, store, ops,
                   lists, clicks, smooth>>

Verdict(q) ==
    /\ q \in asks /\ q.kind = "verify"
    /\ asks' = asks \ {q}
    /\ verifying' = FALSE
    /\ verifyRes' \in {q.file, verifyRes}
    /\ UNCHANGED <<page, newFolder, detail, wim, notWim, wimLoading, alone, busy, store, ops,
                   lists, clicks, smooth>>

\* The file whose catalogue, or lack of one, and whose verdict are on display.
CatalogueShown == IF wimLoading THEN Nothing ELSE IF notWim # Nothing THEN notWim ELSE wim
VerdictShown == verifyRes

-----------------------------------------------------------------------------
(* The component *)

Dismiss ==
    /\ Click /\ error
    /\ error' = FALSE
    /\ UNCHANGED <<cat, prefix, items, selected, upload, loading, busy, dialogs, store, ops, lists, smooth>>

First == CHOOSE c \in Cat : TRUE
Blank == [dir |-> <<First, Root>>, names |-> {}]
FirstList == {[dir |-> <<First, Root>>, by |-> "page"]}

\* The state hooks' initial values; the first effect lists the root.
Init ==
    /\ cat = First /\ prefix = Root /\ items = Blank /\ selected = {} /\ upload = {}
    /\ loading = TRUE /\ busy = FALSE /\ error = FALSE /\ newFolder = "closed"
    /\ detail = Nothing /\ wim = Nothing /\ notWim = Nothing /\ wimLoading = FALSE
    /\ verifyRes = Nothing /\ verifying = FALSE
    /\ store = Initial /\ ops = {} /\ lists = FirstList /\ asks = {}
    /\ clicks = 0 /\ smooth = TRUE /\ alone = TRUE

\* Leaving the tab unmounts the component, coming back mounts a new one: calls
\* that are still sending go on behind its back.
Leave ==
    /\ Click /\ Clear
    /\ cat' = First /\ prefix' = Root /\ items' = Blank /\ selected' = {} /\ upload' = {}
    /\ loading' = TRUE /\ busy' = FALSE /\ error' = FALSE /\ newFolder' = "closed"
    /\ detail' = Nothing /\ wim' = Nothing /\ notWim' = Nothing /\ wimLoading' = FALSE
    /\ verifyRes' = Nothing /\ verifying' = FALSE /\ asks' = {} /\ alone' = TRUE
    /\ ops' = {[o EXCEPT !.live = FALSE] : o \in {p \in ops : p.pc = "send"}}
    /\ lists' = FirstList
    /\ smooth' = (smooth /\ ops = {})
    /\ UNCHANGED store

\* Nothing is in flight and the user has had enough.
Rest == clicks = MaxClicks /\ AtRest /\ asks = {} /\ UNCHANGED vars

User ==
    \/ \E p \in Prefix : GoTo(p)
    \/ \E c \in Cat : ChooseCategory(c)
    \/ \E ns \in SUBSET Name : ChooseFiles(ns)
    \/ \E n \in Name : Tick(n) \/ OpenDetails(n)
    \/ \E to \in {"closed", "blank", "named"} : NameFolder(to)
    \/ Refresh \/ ClickUpload \/ ClickDelete \/ ClickCreate
    \/ CloseDetails \/ ClickVerify \/ Dismiss \/ Leave

Next ==
    \/ User \/ Rest
    \/ \E l \in lists : ListDone(l)
    \/ \E o \in ops : Step(o) \/ StepFails(o)
    \/ \E q \in asks : Catalogue(q) \/ Verdict(q)

\* Every request is answered or fails, and the browser runs what waits for it.
Fairness ==
    /\ \A l \in List : WF_vars(ListDone(l))
    /\ \A d \in Dir : WF_vars(\E o \in ops : o.dir = d /\ (Step(o) \/ StepFails(o)))
    /\ \A q \in Ask : WF_vars(Catalogue(q)) /\ WF_vars(Verdict(q))

Spec == Init /\ [][Next]_vars /\ Fairness

-----------------------------------------------------------------------------
(* What the page promises *)

\* Types, for the page, the dialogs, the volume and the calls in flight.
TypeOK ==
    /\ here \in Dir
    /\ items \in [dir: Dir, names: SUBSET Name]
    /\ selected \in SUBSET Name /\ upload \in SUBSET Name
    /\ {loading, busy, error, wimLoading, verifying, smooth, alone} \subseteq BOOLEAN
    /\ newFolder \in {"closed", "blank", "named"}
    /\ {detail, wim, notWim, verifyRes} \subseteq (Dir \X Name) \cup {Nothing}
    /\ store \in [Dir -> SUBSET Name]
    /\ ops \subseteq Op /\ lists \subseteq List /\ asks \subseteq Ask
    /\ clicks \in 0..MaxClicks

\* The one busy flag of three buttons is exact: it is on while a call of the
\* mounted page runs, and then exactly one does, whatever fails or is cancelled.
BusyExact ==
    /\ busy <=> Running # {}
    /\ Cardinality(Running) <= 1

\* Only rows on show are ticked: a tick never outlives the listing it was made in.
TicksListed == selected \subseteq items.names

\* If every navigation and every Delete found the page at rest and no listing
\* failed, then a page at rest shows the directory its breadcrumb names.
ListingHere == smooth /\ lists = {} => items.dir = here

\* Under the same care, nothing is deleted but a file of the directory in which
\* the user saw it.
DeletedWhereSeen ==
    [][\A d \in Dir : store[d] \ store'[d] # {} => ~smooth \/ items.dir = d]_vars

\* Files land in the directory the page named when Upload was clicked ("Uploads
\* land in ..."), wherever the user has gone meanwhile, on another tab too.
LandsWhereSaid ==
    [][\A d \in Dir : \A n \in store'[d] \ store[d] :
          \E o \in ops : o.kind = "upload" /\ o.dir = d /\ n \in o.batch]_vars

\* Only the user, a new page or an upload of the whole batch takes files out of
\* the queue: after a failure, Upload resumes all that is missing.
QueueKept ==
    [][upload' # upload =>
         \/ \E ns \in SUBSET Name : ChooseFiles(ns)
         \/ Leave
         \/ \E o \in Running : /\ o.kind = "upload"
                               /\ \E n \in store'[o.dir] : o.left = {n}]_vars

\* A dialog opened over rows of the directory shown, while no request of an earlier
\* dialog was outstanding, shows results of its own file only.  (Over rows that a
\* failed or overtaken listing left behind it does not: they are asked for by name
\* in the directory shown, beside the checksum of the row.)
ResultsOwn ==
    alone /\ detail # Nothing /\ detail[1] = here
    => {CatalogueShown, VerdictShown} \subseteq {Nothing, detail}

\* No spinner stays on.
SpinnersEnd ==
    /\ busy ~> ~busy
    /\ loading ~> ~loading
    /\ wimLoading ~> ~wimLoading
    /\ verifying ~> ~verifying
=============================================================================
