----------------------------- MODULE MachinesTab -----------------------------
(***************************************************************************)
(* Browsers with the machine editor open (admin/web/src/MachinesTab.tsx)   *)
(* over one ConfigStore.  As in FilesTab, one action is one click or the   *)
(* arrival of one answer, and an answer is applied to whatever the page    *)
(* shows by then.  Nothing ties a save to the version its form was loaded  *)
(* from: base remembers it, for the properties only.                       *)
(***************************************************************************)
EXTENDS ConfigStore

CONSTANTS
    Editor,     \* browsers
    Initial,    \* what the files may be at the beginning
    MaxClicks   \* bound on what the users do

ASSUME EditorAssumption ==
    /\ Initial \subseteq [Files -> Config \cup {Absent}]
    /\ MaxClicks \in Nat

VARIABLES
    rows,     \* rows[e]: the serials listed
    loading, busy, error,
    form,     \* form[e]: editing and isNew, or Absent when the dialog is closed
    calls,    \* calls[e]: handlers that await an answer, or have given up on it
    clicks,
    entered   \* history: the passwords entered for each file and field

ui == <<rows, loading, busy, error, form, calls>>
vars == <<file, rq, ui, clicks, entered>>

Form == [serial: Serial \cup {Absent}, isNew: BOOLEAN,
         join: BOOLEAN, domain: BOOLEAN,   \* the toggle; is JOINDOMAIN filled in?
         typed: [Field -> Password \cup {Absent}], set: [Field -> BOOLEAN],
         base: Config \cup {Absent}, touched: BOOLEAN]

\* prev: what the server has read for the call.  A call lists when its own
\* request is done and it awaits refresh().  One that is not awaited has failed in
\* the page while the server still works on it.
Call == [kind: {"list", "load", "save", "remove"}, serial: Serial \cup {Absent},
         pc: {"send", "read", "list"}, form: Form \cup {Absent},
         prev: Config \cup {Absent}, awaited: BOOLEAN]

NewCall(kind, s, pc, fm) ==
    [kind |-> kind, serial |-> s, pc |-> pc, form |-> fm, prev |-> Absent, awaited |-> TRUE]

Click == clicks < MaxClicks /\ clicks' = clicks + 1
RowsShown(e) == form[e] = Absent /\ ~loading[e]

-----------------------------------------------------------------------------
(* Between the form and the file *)

\* Faulty variant of SecretOut: a blank field is sent as blank.
SecretOutBlank(value, wasSet) == value

SecretOut(value, wasSet) == IF value # Absent THEN value ELSE IF wasSet THEN Keep ELSE Absent

\* Domain fields are written only when the join toggle is on.
ToConfig(fm) ==
    [join |-> fm.join /\ fm.domain, bom |-> FALSE,
     secret |-> [f \in Field |-> IF f = "DOMAINPASS" /\ ~fm.join THEN Absent
                                 ELSE SecretOut(fm.typed[f], fm.set[f])]]

\* Faulty variant of FromConfig: the join toggle always starts off.
FromConfigOff(s, masked, c) ==
    [serial |-> s, isNew |-> FALSE, join |-> FALSE, domain |-> masked.join,
     typed |-> Nowhere, set |-> [f \in Field |-> masked.secret[f] = Keep],
     base |-> c, touched |-> FALSE]

FromConfig(s, masked, c) ==
    [serial |-> s, isNew |-> FALSE, join |-> masked.join, domain |-> masked.join,
     typed |-> Nowhere, set |-> [f \in Field |-> masked.secret[f] = Keep],
     base |-> c, touched |-> FALSE]

EMPTY == [serial |-> Absent, isNew |-> TRUE, join |-> FALSE, domain |-> FALSE,
          typed |-> Nowhere, set |-> [f \in Field |-> FALSE], base |-> Absent, touched |-> FALSE]

-----------------------------------------------------------------------------
(* Clicks *)

Call1(e, c) == calls' = [calls EXCEPT ![e] = @ \cup {c}]

Refresh(e) ==
    /\ Click /\ RowsShown(e)
    /\ Call1(e, NewCall("list", Absent, "list", Absent))
    /\ loading' = [loading EXCEPT ![e] = TRUE] /\ error' = [error EXCEPT ![e] = FALSE]
    /\ UNCHANGED <<file, rq, rows, busy, form, entered>>

OpenEdit(e, s) ==
    /\ Click /\ RowsShown(e) /\ s \in rows[e]
    /\ Call1(e, NewCall("load", s, "send", Absent))
    /\ error' = [error EXCEPT ![e] = FALSE]
    /\ UNCHANGED <<file, rq, rows, loading, busy, form, entered>>

OpenNew(e) ==
    /\ Click /\ form[e] = Absent
    /\ form' = [form EXCEPT ![e] = EMPTY]
    /\ UNCHANGED <<file, rq, rows, loading, busy, error, calls, entered>>

Cancel(e) ==
    /\ Click /\ form[e] # Absent
    /\ form' = [form EXCEPT ![e] = Absent]
    /\ UNCHANGED <<file, rq, rows, loading, busy, error, calls, entered>>

Edited(e, fm) ==
    /\ form' = [form EXCEPT ![e] = [fm EXCEPT !.touched = TRUE]]
    /\ form' # form

\* The serial of a new machine, a password, the join toggle, the domain, or a field
\* the model leaves out.
Set(e) ==
    /\ Click /\ form[e] # Absent
    /\ LET fm == form[e] IN
       \/ \E s \in Serial : fm.isNew /\ Edited(e, [fm EXCEPT !.serial = s])
       \/ \E f \in Field, p \in Password :
             (f = "DOMAINPASS" => fm.join) /\ Edited(e, [fm EXCEPT !.typed[f] = p])
       \/ Edited(e, [fm EXCEPT !.join = ~fm.join])
       \/ fm.join /\ Edited(e, [fm EXCEPT !.domain = ~fm.domain])
       \/ Edited(e, fm)
    /\ UNCHANGED <<file, rq, rows, loading, busy, error, calls, entered>>

\* Without a serial the form only complains.
Save(e) ==
    /\ Click /\ form[e] # Absent /\ ~busy[e]
    /\ IF form[e].serial = Absent
       THEN error' = [error EXCEPT ![e] = TRUE] /\ UNCHANGED <<busy, calls, entered>>
       ELSE LET fm == form[e]
                body == ToConfig(fm) IN
            /\ Call1(e, NewCall("save", fm.serial, "send", fm))
            /\ busy' = [busy EXCEPT ![e] = TRUE] /\ error' = [error EXCEPT ![e] = FALSE]
            /\ entered' = entered \cup
                 {<<fm.serial, f, body.secret[f]>> : f \in {g \in Field : body.secret[g] \in Password}}
    /\ UNCHANGED <<file, rq, rows, loading, form>>

\* The Delete link of a row looks at no flag.
Remove(e, s) ==
    /\ Click /\ RowsShown(e) /\ s \in rows[e]
    /\ Call1(e, NewCall("remove", s, "send", Absent))
    /\ busy' = [busy EXCEPT ![e] = TRUE] /\ error' = [error EXCEPT ![e] = FALSE]
    /\ UNCHANGED <<file, rq, rows, loading, form, entered>>

\* default.json is replaced by a file uploaded as it is, through the Files tab.
ReplaceDefault(p) ==
    /\ Click /\ file[Default] # Absent
    /\ file' = [file EXCEPT ![Default].secret["LOCALADMINPASS"] = [form |-> "plain", pass |-> p]]
    /\ entered' = entered \cup {<<Default, "LOCALADMINPASS", p>>}
    /\ UNCHANGED <<rq, ui>>

-----------------------------------------------------------------------------
(* Answers *)

\* The call goes on to await refresh().
Relist(e, c) ==
    /\ calls' = [calls EXCEPT ![e] = (@ \ {c}) \cup {NewCall(c.kind, c.serial, "list", Absent)}]
    /\ loading' = [loading EXCEPT ![e] = TRUE] /\ error' = [error EXCEPT ![e] = FALSE]

\* Faulty variant of Over: only a successful call resets busy.
OverBusy(e, c, ok) ==
    /\ calls' = [calls EXCEPT ![e] = @ \ {c}]
    /\ error' = [error EXCEPT ![e] = @ \/ ~ok]
    /\ busy' = [busy EXCEPT ![e] = @ /\ ~(ok /\ c.kind \in {"save", "remove"})]

\* catch and finally of a call.
Over(e, c, ok) ==
    /\ calls' = [calls EXCEPT ![e] = @ \ {c}]
    /\ error' = [error EXCEPT ![e] = @ \/ ~ok]
    /\ busy' = [busy EXCEPT ![e] = @ /\ c.kind \notin {"save", "remove"}]

\* Nobody waits for the answer.
Unheard(e, c) ==
    /\ ~c.awaited
    /\ calls' = [calls EXCEPT ![e] = @ \ {c}]
    /\ UNCHANGED <<loading, busy, error, form>>

\* The request ends without effect.
Fails(e, c) ==
    /\ c.pc # "list"
    /\ \/ c.awaited /\ Over(e, c, FALSE) /\ UNCHANGED <<loading, form>>
       \/ Unheard(e, c)
    /\ UNCHANGED <<file, rows>>

\* The connection breaks while the server has the request: it goes on alone.
Abandoned(e, c) ==
    /\ c.awaited /\ c.pc # "list" /\ c.kind \in {"save", "remove"}
    /\ calls' = [calls EXCEPT ![e] = (@ \ {c}) \cup {[c EXCEPT !.awaited = FALSE]}]
    /\ error' = [error EXCEPT ![e] = TRUE] /\ busy' = [busy EXCEPT ![e] = FALSE]
    /\ UNCHANGED <<file, rows, loading, form>>

Listed(e, c) ==
    /\ c.pc = "list"
    /\ loading' = [loading EXCEPT ![e] = FALSE]
    /\ \/ /\ rows' = [rows EXCEPT ![e] = {s \in Serial : file[s] # Absent}]
          /\ Over(e, c, TRUE)
       \/ /\ UNCHANGED rows
          /\ Over(e, c, FALSE) /\ error'[e]
    /\ UNCHANGED <<file, form>>

\* Faulty variant of Loaded: a form that was opened meanwhile takes over the flags.
LoadedMixed(e, c) ==
    /\ c.kind = "load" /\ c.pc = "read"
    /\ LET new == FromConfig(c.serial, Mask(c.prev), c.prev) IN
       form' = [form EXCEPT ![e] = IF @ = Absent THEN new ELSE [@ EXCEPT !.set = new.set]]
    /\ calls' = [calls EXCEPT ![e] = @ \ {c}]
    /\ UNCHANGED <<file, rows, loading, busy, error>>

\* The form of an Edit opens, in place of one that was opened meanwhile.
Loaded(e, c) ==
    /\ c.kind = "load" /\ c.pc = "read"
    /\ form' = [form EXCEPT ![e] = FromConfig(c.serial, Mask(c.prev), c.prev)]
    /\ calls' = [calls EXCEPT ![e] = @ \ {c}]
    /\ UNCHANGED <<file, rows, loading, busy, error>>

\* handleConfigGet reads the file it masks, handleConfigPut the previous file.
ServerReads(e, c) ==
    /\ c.pc = "send" /\ (c.kind = "save" \/ (c.kind = "load" /\ file[c.serial] # Absent))
    /\ calls' = [calls EXCEPT ![e] = (@ \ {c}) \cup {[c EXCEPT !.pc = "read", !.prev = file[c.serial]]}]
    /\ UNCHANGED <<file, rows, loading, busy, error, form>>

\* The new file is published; the answer closes the dialog, or is lost.
PutDone(e, c) ==
    /\ c.kind = "save" /\ c.pc = "read"
    /\ file' = [file EXCEPT ![c.serial] = Encrypted(ToConfig(c.form), c.prev)]
    /\ \/ c.awaited /\ form' = [form EXCEPT ![e] = Absent] /\ Relist(e, c) /\ UNCHANGED busy
       \/ c.awaited /\ Over(e, c, FALSE) /\ UNCHANGED <<form, loading>>
       \/ Unheard(e, c)
    /\ UNCHANGED rows

DeleteDone(e, c) ==
    /\ c.kind = "remove" /\ c.pc = "send" /\ file[c.serial] # Absent
    /\ file' = [file EXCEPT ![c.serial] = Absent]
    /\ \/ c.awaited /\ Relist(e, c) /\ UNCHANGED <<busy, form>>
       \/ c.awaited /\ Over(e, c, FALSE) /\ UNCHANGED <<loading, form>>
       \/ Unheard(e, c)
    /\ UNCHANGED rows

Answer(e, c) ==
    /\ c \in calls[e]
    /\ \/ Fails(e, c) \/ Abandoned(e, c) \/ Listed(e, c) \/ Loaded(e, c)
       \/ ServerReads(e, c) \/ PutDone(e, c) \/ DeleteDone(e, c)
    /\ UNCHANGED <<rq, clicks, entered>>

Machine ==
    /\ (\E s \in Serial : AskConfig(s)) \/ ReadMachine \/ ReadDefault \/ Decide
    /\ UNCHANGED <<file, ui, clicks, entered>>

\* Both browsers have shown their first listing.
Init ==
    /\ file \in Initial /\ rq = Idle /\ clicks = 0
    /\ rows = [e \in Editor |-> {s \in Serial : file[s] # Absent}]
    /\ loading = [e \in Editor |-> FALSE] /\ busy = [e \in Editor |-> FALSE]
    /\ error = [e \in Editor |-> FALSE] /\ form = [e \in Editor |-> Absent]
    /\ calls = [e \in Editor |-> {}]
    /\ entered = {x \in Files \X Field \X Password :
                    /\ file[x[1]] # Absent /\ file[x[1]].secret[x[2]] # Absent
                    /\ file[x[1]].secret[x[2]].pass = x[3]}

User(e) ==
    \/ Refresh(e) \/ OpenNew(e) \/ Cancel(e) \/ Set(e) \/ Save(e)
    \/ \E s \in Serial : OpenEdit(e, s) \/ Remove(e, s)

Rest == clicks = MaxClicks /\ rq.pc = "answered" /\ (\A e \in Editor : calls[e] = {}) /\ UNCHANGED vars

Next ==
    \/ \E e \in Editor : User(e) \/ \E c \in calls[e] : Answer(e, c)
    \/ \E p \in Password : ReplaceDefault(p)
    \/ Machine \/ Rest

Spec == Init /\ [][Next]_vars

-----------------------------------------------------------------------------
(* What the editor promises *)

\* Types, for the files, the machine's request and the pages.
TypeOK ==
    /\ ConfigTypeOK
    /\ rows \in [Editor -> SUBSET Serial]
    /\ {loading, busy, error} \subseteq [Editor -> BOOLEAN]
    /\ form \in [Editor -> Form \cup {Absent}]
    /\ calls \in [Editor -> SUBSET Call]
    /\ clicks \in 0..MaxClicks
    /\ entered \subseteq Files \X Field \X Password

\* The forms open or being saved.
Forms == {form[e] : e \in Editor} \cup UNION {{c.form : c \in calls[e]} : e \in Editor}

\* No machine is ever given a credential that was not entered for it, or for
\* default.json, in that very field - through masked forms, late answers, kept
\* sentinels, overlapping saves and the merge.
DisclosedAsEntered ==
    rq.status = 200 => \A f \in Field :
        LET got == rq.cfg.secret[f] IN
        got = Absent \/ \E s \in {rq.serial, Default} : <<s, f, got.pass>> \in entered

\* Credentials leave the server in the clear only on an allow.
DisclosureGated ==
    rq.cfg # Absent /\ rq.pc = "answered" => rq.status = 200 /\ (PolicyUrl => rq.decision = "allow")

\* "Keep it" is claimed only by a form that was loaded from the file it saves to,
\* and only for a secret that file held then.
KeepOnlyLoaded ==
    \A fm \in Forms \ {Absent} : \A f \in Field :
        fm.set[f] => ~fm.isNew /\ fm.base # Absent /\ fm.base.secret[f] # Absent

\* A save loses or replaces a stored secret only if one was typed over it, if the
\* join toggle is off, or if the file - when the server merged or when it wrote -
\* was not the version the form was loaded from (a second editor, a deletion, a new
\* machine under an existing serial: no save carries a version), or begins with a
\* byte-order mark, which hides its secrets from the server's merge.
SecretsKept ==
    [][\A s \in Serial : \A f \in Field :
         file[s] # Absent /\ file'[s] # Absent /\ file[s].secret[f] # Absent
         /\ file'[s].secret[f] # file[s].secret[f] =>
           \E e \in Editor : \E c \in calls[e] :
              /\ c.kind = "save" /\ c.pc = "read" /\ c.serial = s
              /\ \/ file'[s].secret[f] = Seal(c.form.typed[f])
                 \/ f = "DOMAINPASS" /\ ~c.form.join
                 \/ c.form.base # c.prev \/ c.prev # file[s] \/ file[s].bom]_vars

\* A form saved as it was loaded leaves the credentials alone: "show the field
\* blank but remember it is set so an untouched save preserves it rather than
\* clearing it".
UntouchedKeeps ==
    [][\A e \in Editor : \A c \in calls[e] :
         LET s == c.serial IN
         /\ c.kind = "save" /\ c.pc = "read" /\ ~c.form.touched /\ c \notin calls'[e]
         /\ {c.form.base, c.prev} = {file[s]} /\ file'[s] # Absent
         => file'[s].secret = file[s].secret]_vars

\* Unless the file stores a domain password and joins no domain (which is how
\* UntouchedKeeps fails) or begins with a byte-order mark, a form saved as it was
\* loaded, over the version it was loaded from, writes the same domain and the same
\* envelopes: secrets go to the browser as flags, come back as sentinels and end as
\* what they were.
UntouchedRoundTrip ==
    [][\A e \in Editor : \A c \in calls[e] :
         LET old == file[c.serial] IN
         /\ c.kind = "save" /\ c.pc = "read" /\ ~c.form.touched /\ c \notin calls'[e]
         /\ old # Absent /\ c.form.base = old /\ c.prev = old
         /\ ~old.bom /\ (old.join \/ old.secret["DOMAINPASS"] = Absent)
         => file'[c.serial] = old]_vars

\* Neither spinner is left on when the calls it stands for are over, whatever
\* calls overlapped (busy may be off too early: Delete does not wait for it).
SpinnersSound ==
    \A e \in Editor :
        /\ busy[e] => \E c \in calls[e] : c.awaited /\ c.kind \in {"save", "remove"}
        /\ loading[e] => \E c \in calls[e] : c.pc = "list"
=============================================================================
