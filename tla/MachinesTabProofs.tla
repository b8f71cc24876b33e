------------------------- MODULE MachinesTabProofs -------------------------
(***************************************************************************)
(* Proofs about MachinesTab and the ConfigStore under it, for any          *)
(* machines, passwords, browsers, initial files and number of clicks.      *)
(* Section 6 of the README describes the argument.                         *)
(***************************************************************************)
EXTENDS MachinesTab, TLAPS

-----------------------------------------------------------------------------
(* The inductive invariant *)

\* Every secret of c was entered for s, in its own field.
EnteredFor(s, c) ==
    \A f \in Field : c.secret[f] # Absent => <<s, f, c.secret[f].pass>> \in entered

\* What the machine may be given: a secret entered for it or for default.json.
Legitimate(s, c) ==
    \A f \in Field :
        c.secret[f] # Absent => \E t \in {s, Default} : <<t, f, c.secret[f].pass>> \in entered

\* The flags of a form say what the file it was loaded from held.
FormSound(fm) ==
    \A f \in Field :
        /\ fm.base # Absent => (fm.set[f] <=> fm.base.secret[f] # Absent)
        /\ fm.set[f] => ~fm.isNew /\ fm.base # Absent

\* A call is about one machine; a save has its form and every password of it on
\* record; what the server read for a load or a save is the record of that machine.
CallSound(c) ==
    /\ c.kind # "list" => c.serial \in Serial
    /\ c.kind = "list" => c.pc = "list"
    /\ c.form # Absent => FormSound(c.form)
    /\ c.kind = "save" /\ c.pc # "list" =>
          /\ c.form \in Form /\ FormSound(c.form)
          /\ \A f \in Field : LET p == ToConfig(c.form).secret[f] IN
                p \in Password => <<c.serial, f, p>> \in entered
    /\ c.pc = "read" =>
          /\ c.prev # Absent => EnteredFor(c.serial, c.prev)
          /\ c.kind = "load" => c.prev # Absent

FilesSound == \A s \in Files : file[s] # Absent => EnteredFor(s, file[s])
FormsSound == \A e \in Editor : form[e] # Absent => FormSound(form[e])
CallsSound == \A e \in Editor : \A c \in calls[e] : CallSound(c)

\* The request has read only such files, and has no answer before the decision.
RequestSound ==
    /\ rq.pc # "answered" => rq.status = 0
    /\ rq.pc # "idle" => rq.serial \in Serial
    /\ rq.pc = "def" => rq.per \in Config /\ EnteredFor(rq.serial, rq.per)
    /\ rq.pc = "policy" \/ rq.status = 200 => rq.cfg \in Config /\ Legitimate(rq.serial, rq.cfg)

IInv == TypeOK /\ FilesSound /\ FormsSound /\ CallsSound /\ RequestSound /\ DisclosureGated /\ SpinnersSound

-----------------------------------------------------------------------------
(* The conversions *)

\* What the form sends: nothing, the sentinel or a password, in each field.
LEMMA ToConfigSecret ==
    ASSUME NEW fm \in Form, NEW f \in Field
    PROVE  /\ ToConfig(fm).secret[f] \in Password \cup {Absent, Keep}
           /\ ToConfig(fm).join \in BOOLEAN
           /\ fm.set[f] \in BOOLEAN /\ fm.typed[f] \in Password \cup {Absent}
           /\ (f # "DOMAINPASS" \/ fm.join) =>
                 ToConfig(fm).secret[f] = SecretOut(fm.typed[f], fm.set[f])
BY DEF Form, ToConfig, SecretOut

\* Sealing hides a password and does not change it.
LEMMA SealType ==
    ASSUME NEW p \in Password
    PROVE  Seal(p) \in Stored /\ Seal(p).pass = p
BY DEF Seal, Stored

\* The stored form of one field.
LEMMA ResolveSecretCases ==
    ASSUME NEW in \in Password \cup {Absent, Keep}, NEW prev \in Stored \cup {Absent}
    PROVE  /\ ResolveSecret(in, prev) \in Stored \cup {Absent}
           /\ in = Keep => ResolveSecret(in, prev) = prev
           /\ in = Absent => ResolveSecret(in, prev) = Absent
           /\ in \in Password => ResolveSecret(in, prev) = Seal(in)
BY ConfigAssumption, SealType DEF ResolveSecret

\* A stored field is a secret or empty.
LEMMA ConfigSecret ==
    ASSUME NEW c \in Config, NEW f \in Field
    PROVE  c.secret[f] \in Stored \cup {Absent} /\ c.join \in BOOLEAN
BY DEF Config

\* The secrets the server keeps from the file replaced are secrets of that file.
LEMMA PrevUnattendType ==
    ASSUME NEW prev \in Config \cup {Absent}, NEW f \in Field
    PROVE  /\ PrevUnattend(prev)[f] \in Stored \cup {Absent}
           /\ PrevUnattend(prev)[f] # Absent => prev # Absent /\ PrevUnattend(prev)[f] = prev.secret[f]
           /\ prev # Absent /\ ~prev.bom => PrevUnattend(prev)[f] = prev.secret[f]
BY ConfigSecret DEF PrevUnattend, Nowhere

\* The file a save stores, field by field.
LEMMA EncryptedType ==
    ASSUME NEW fm \in Form, NEW prev \in Config \cup {Absent}
    PROVE  /\ Encrypted(ToConfig(fm), prev) \in Config
           /\ \A f \in Field : Encrypted(ToConfig(fm), prev).secret[f] =
                 ResolveSecret(ToConfig(fm).secret[f], PrevUnattend(prev)[f])
<1> DEFINE old(f) == PrevUnattend(prev)[f]
           new == ToConfig(fm)
<1>1. \A f \in Field : old(f) \in Stored \cup {Absent} BY PrevUnattendType
<1>2. /\ new = [join |-> new.join, bom |-> new.bom, secret |-> new.secret]
      /\ {new.join, new.bom} \subseteq BOOLEAN
  BY DEF ToConfig, Form
<1>3. \A f \in Field : ResolveSecret(new.secret[f], old(f)) \in Stored \cup {Absent}
  BY <1>1, ToConfigSecret, ResolveSecretCases
<1>4. Encrypted(new, prev) =
        [join |-> new.join, bom |-> new.bom,
         secret |-> [f \in Field |-> ResolveSecret(new.secret[f], old(f))]]
  <2> HIDE DEF new
  <2> QED BY <1>2 DEF Encrypted
<1> HIDE DEF old, new
<1>5. Encrypted(new, prev) \in Config BY <1>2, <1>3, <1>4 DEF Config
<1>6. \A f \in Field : Encrypted(new, prev).secret[f] = ResolveSecret(new.secret[f], old(f))
  BY <1>4
<1> QED BY <1>5, <1>6 DEF old, new

\* The file a save stores holds passwords entered for it: typed ones, and kept ones.
LEMMA EncryptedEntered ==
    ASSUME NEW c \in Call, CallSound(c), c.kind = "save", c.pc = "read"
    PROVE  EnteredFor(c.serial, Encrypted(ToConfig(c.form), c.prev))
<1> DEFINE old(f) == PrevUnattend(c.prev)[f]
           in(f) == ToConfig(c.form).secret[f]
<1>1. c.form \in Form /\ c.prev \in Config \cup {Absent} BY DEF CallSound, Call
<1>2. ASSUME NEW f \in Field, ResolveSecret(in(f), old(f)) # Absent
      PROVE  <<c.serial, f, ResolveSecret(in(f), old(f)).pass>> \in entered
  <2>1. old(f) \in Stored \cup {Absent} BY <1>1, PrevUnattendType
  <2>2. in(f) \in Password \cup {Absent, Keep} BY <1>1, ToConfigSecret
  <2>3. old(f) # Absent => <<c.serial, f, old(f).pass>> \in entered
    BY <1>1, PrevUnattendType DEF CallSound, EnteredFor
  <2>4. in(f) \in Password => <<c.serial, f, in(f)>> \in entered BY DEF CallSound
  <2> HIDE DEF old, in
  <2>5. CASE in(f) \in Password BY <2>1, <2>2, <2>4, <2>5, ResolveSecretCases, SealType
  <2>6. CASE in(f) = Keep BY <1>2, <2>1, <2>2, <2>3, <2>6, ResolveSecretCases
  <2>7. CASE in(f) = Absent BY <1>2, <2>1, <2>2, <2>7, ResolveSecretCases
  <2> QED BY <2>2, <2>5, <2>6, <2>7
<1>3. \A f \in Field : Encrypted(ToConfig(c.form), c.prev).secret[f] = ResolveSecret(in(f), old(f))
  BY <1>1, EncryptedType
<1> QED BY <1>2, <1>3 DEF EnteredFor

\* The merge takes each field from one of the two files.
LEMMA MergedType ==
    ASSUME NEW def \in Config \cup {Absent}, NEW per \in Config
    PROVE  /\ Merged(def, per) \in Config
           /\ \A f \in Field : Merged(def, per).secret[f] =
                 IF per.secret[f] = Absent /\ def # Absent THEN def.secret[f] ELSE per.secret[f]
<1>1. \A f \in Field : (IF per.secret[f] = Absent /\ def # Absent THEN def.secret[f] ELSE per.secret[f])
                         \in Stored \cup {Absent}
  BY ConfigSecret
<1>2. (per.join \/ (def # Absent /\ def.join)) \in BOOLEAN OBVIOUS
<1> QED BY <1>1, <1>2 DEF Merged, Config

\* Opening the envelopes changes no password.
LEMMA DecryptedType ==
    ASSUME NEW c \in Config
    PROVE  /\ Decrypted(c) \in Config
           /\ \A f \in Field :
                 /\ c.secret[f] = Absent => Decrypted(c).secret[f] = Absent
                 /\ c.secret[f] # Absent => Decrypted(c).secret[f].pass = c.secret[f].pass
<1> DEFINE open(f) == IF c.secret[f] = Absent THEN Absent ELSE [form |-> "plain", pass |-> c.secret[f].pass]
<1>1. c = [join |-> c.join, bom |-> c.bom, secret |-> c.secret] /\ c.join \in BOOLEAN /\ c.bom \in BOOLEAN
  BY DEF Config
<1>2. \A f \in Field : open(f) \in Stored \cup {Absent} BY ConfigSecret DEF Stored
<1>3. Decrypted(c) = [join |-> c.join, bom |-> c.bom, secret |-> [f \in Field |-> open(f)]] BY <1>1 DEF Decrypted
<1>4. \A f \in Field : /\ c.secret[f] = Absent => open(f) = Absent
                       /\ c.secret[f] # Absent => open(f).pass = c.secret[f].pass
  OBVIOUS
<1> HIDE DEF open
<1>5. Decrypted(c) \in Config BY <1>1, <1>2, <1>3 DEF Config
<1>6. \A f \in Field : Decrypted(c).secret[f] = open(f) BY <1>3
<1> QED BY <1>4, <1>5, <1>6

-----------------------------------------------------------------------------
(* Types *)

\* A click is counted up to the bound.
LEMMA ClickType ==
    ASSUME TypeOK, Click
    PROVE  clicks' \in 0..MaxClicks
BY EditorAssumption DEF TypeOK, Click

\* A new call is a call.
LEMMA NewCallType ==
    ASSUME NEW kind \in {"list", "load", "save", "remove"}, NEW s \in Serial \cup {Absent},
           NEW pc \in {"send", "read", "list"}, NEW fm \in Form \cup {Absent}
    PROVE  NewCall(kind, s, pc, fm) \in Call
BY DEF NewCall, Call

\* A user's edit leaves a form a form and touches neither its flags nor their origin.
LEMMA EditedType ==
    ASSUME NEW e \in Editor, Set(e), form[e] \in Form
    PROVE  \E new \in Form :
              form' = [form EXCEPT ![e] = new] /\ (FormSound(form[e]) => FormSound(new))
<1> DEFINE fm == form[e]
           Good(new) == new \in Form /\ (FormSound(fm) => FormSound(new))
<1>0. Good(fm) OBVIOUS
<1>1. ASSUME NEW new, Good(new) PROVE Good([new EXCEPT !.touched = TRUE])
  BY <1>1 DEF Form, FormSound
<1>2. \A s \in Serial : Good([fm EXCEPT !.serial = s]) BY DEF Form, FormSound
<1>3. ASSUME NEW f \in Field, NEW p \in Password PROVE Good([fm EXCEPT !.typed[f] = p])
  <2>1. [fm.typed EXCEPT ![f] = p] \in [Field -> Password \cup {Absent}] BY DEF Form
  <2>2. [fm EXCEPT !.typed[f] = p] = [fm EXCEPT !.typed = [fm.typed EXCEPT ![f] = p]] OBVIOUS
  <2> QED BY <2>1, <2>2 DEF Form, FormSound
<1>4. \A b \in BOOLEAN : Good([fm EXCEPT !.join = b]) /\ Good([fm EXCEPT !.domain = b])
  BY DEF Form, FormSound
<1>5. Good([fm EXCEPT !.join = ~fm.join]) /\ Good([fm EXCEPT !.domain = ~fm.domain])
  <2>1. (~fm.join) \in BOOLEAN /\ (~fm.domain) \in BOOLEAN BY Zenon
  <2> HIDE DEF Good
  <2> QED BY <1>4, <2>1, Zenon
<1> HIDE DEF Good
<1>6. \E new : Good(new) /\ form' = [form EXCEPT ![e] = new]
  BY <1>0, <1>1, <1>2, <1>3, <1>5, Zenon DEF Set, Edited
<1> QED BY <1>6 DEF Good

\* The empty form, and the form of a masked file, are sound forms.
LEMMA OpenedType ==
    /\ EMPTY \in Form /\ FormSound(EMPTY)
    /\ \A s \in Serial, c \in Config \ {Absent} :
          FromConfig(s, Mask(c), c) \in Form /\ FormSound(FromConfig(s, Mask(c), c))
<1>1. EMPTY \in Form /\ FormSound(EMPTY)
  <2>1. Nowhere \in [Field -> Password \cup {Absent}] BY DEF Nowhere
  <2>2. [f \in Field |-> FALSE] \in [Field -> BOOLEAN] OBVIOUS
  <2> QED BY <2>1, <2>2 DEF EMPTY, Form, FormSound
<1>2. ASSUME NEW s \in Serial, NEW c \in Config \ {Absent}
      PROVE  FromConfig(s, Mask(c), c) \in Form /\ FormSound(FromConfig(s, Mask(c), c))
  <2> DEFINE fm == FromConfig(s, Mask(c), c)
  <2>1. c = [join |-> c.join, bom |-> c.bom, secret |-> c.secret] /\ c.join \in BOOLEAN BY DEF Config
  <2>2. Mask(c).join = c.join /\ \A f \in Field : Mask(c).secret[f] = Keep <=> c.secret[f] # Absent
    BY <2>1, ConfigAssumption DEF Mask
  <2>3. Nowhere \in [Field -> Password \cup {Absent}] BY DEF Nowhere
  <2>4. [f \in Field |-> Mask(c).secret[f] = Keep] \in [Field -> BOOLEAN] OBVIOUS
  <2>5. fm \in Form BY <2>1, <2>2, <2>3, <2>4 DEF FromConfig, Form
  <2>6. fm.base = c /\ fm.isNew = FALSE /\ \A f \in Field : fm.set[f] <=> c.secret[f] # Absent
    BY <2>2 DEF FromConfig
  <2> HIDE DEF fm
  <2>7. ASSUME NEW f \in Field
        PROVE  /\ fm.base # Absent => (fm.set[f] <=> fm.base.secret[f] # Absent)
               /\ fm.set[f] => ~fm.isNew /\ fm.base # Absent
    <3>1. (fm.set[f] <=> c.secret[f] # Absent) /\ fm.base = c /\ fm.isNew = FALSE BY <2>6
    <3> QED BY <3>1
  <2>8. fm \in Form /\ FormSound(fm) BY <2>5, <2>7 DEF FormSound
  <2> QED BY <2>8 DEF fm
<1> QED BY <1>1, <1>2

-----------------------------------------------------------------------------
(* Steps of the pages *)

Flags == [Editor -> BOOLEAN]

LEMMA FlagType ==
    ASSUME NEW flag \in Flags, NEW e \in Editor, NEW b \in BOOLEAN
    PROVE  [flag EXCEPT ![e] = b] \in Flags /\ [flag EXCEPT ![e] = b][e] = b
BY DEF Flags

\* The parts of TypeOK.
LEMMA Types ==
    TypeOK <=> /\ ConfigTypeOK /\ rows \in [Editor -> SUBSET Serial]
               /\ loading \in Flags /\ busy \in Flags /\ error \in Flags
               /\ form \in [Editor -> Form \cup {Absent}] /\ calls \in [Editor -> SUBSET Call]
               /\ clicks \in 0..MaxClicks /\ entered \subseteq Files \X Field \X Password
BY DEF TypeOK, Flags

LEMMA TypesNext ==
    TypeOK' <=> /\ ConfigTypeOK' /\ rows' \in [Editor -> SUBSET Serial]
                /\ loading' \in Flags /\ busy' \in Flags /\ error' \in Flags
                /\ form' \in [Editor -> Form \cup {Absent}] /\ calls' \in [Editor -> SUBSET Call]
                /\ clicks' \in 0..MaxClicks /\ entered' \subseteq Files \X Field \X Password
BY DEF TypeOK, Flags

\* What is on record stays on record, so a sound call stays sound.
LEMMA CallKept ==
    ASSUME NEW c, CallSound(c), entered \subseteq entered'
    PROVE  CallSound(c)'
BY DEF CallSound, EnteredFor

\* Calls come and go at one browser.
LEMMA CallsStep ==
    ASSUME TypeOK, CallsSound, entered \subseteq entered',
           NEW e \in Editor, NEW new \in SUBSET Call, calls' = [calls EXCEPT ![e] = new],
           \A c \in new \ calls[e] : CallSound(c)'
    PROVE  calls' \in [Editor -> SUBSET Call] /\ CallsSound'
<1>1. calls \in [Editor -> SUBSET Call] BY DEF TypeOK
<1>2. ASSUME NEW x \in Editor, NEW c \in calls'[x] PROVE CallSound(c)'
  <2>1. CASE x = e /\ c \notin calls[e] BY <1>1, <1>2, <2>1
  <2>2. CASE c \in calls[x] BY <2>2, CallKept DEF CallsSound
  <2> QED BY <1>1, <1>2, <2>1, <2>2
<1> QED BY <1>1, <1>2 DEF CallsSound

\* A form opens, changes or closes at one browser.
LEMMA FormsStep ==
    ASSUME TypeOK, FormsSound, NEW e \in Editor, NEW new \in Form \cup {Absent},
           form' = [form EXCEPT ![e] = new], new # Absent => FormSound(new)
    PROVE  form' \in [Editor -> Form \cup {Absent}] /\ FormsSound'
BY DEF TypeOK, FormsSound, FormSound

\* A step that leaves the files and the request alone.
LEMMA FilesFrame ==
    ASSUME IInv, file' = file, rq' = rq, entered \subseteq entered'
    PROVE  ConfigTypeOK' /\ FilesSound' /\ RequestSound' /\ DisclosureGated'
<1>1. ConfigTypeOK' BY DEF IInv, TypeOK, ConfigTypeOK
<1>2. FilesSound' BY DEF IInv, FilesSound, EnteredFor
<1>3. RequestSound' BY DEF IInv, RequestSound, EnteredFor, Legitimate
<1>4. DisclosureGated' BY DEF IInv, DisclosureGated
<1> QED BY <1>1, <1>2, <1>3, <1>4

\* A step in which no call ends: a spinner that was on keeps its call, and one that
\* goes on has a new one.
LEMMA SpinnersFrame ==
    ASSUME SpinnersSound, TypeOK, NEW e \in Editor, NEW new \in SUBSET Call,
           calls' = [calls EXCEPT ![e] = @ \cup new],
           NEW b \in BOOLEAN, NEW l \in BOOLEAN,
           busy' = [busy EXCEPT ![e] = b], loading' = [loading EXCEPT ![e] = l],
           b => busy[e] \/ \E c \in new : c.awaited /\ c.kind \in {"save", "remove"},
           l => loading[e] \/ \E c \in new : c.pc = "list"
    PROVE  SpinnersSound'
<1>1. calls \in [Editor -> SUBSET Call] /\ busy \in Flags /\ loading \in Flags BY Types
<1>2. ASSUME NEW x \in Editor, busy'[x]
      PROVE  \E c \in calls'[x] : c.awaited /\ c.kind \in {"save", "remove"}
  <2>1. CASE x = e BY <1>1, <1>2, <2>1 DEF SpinnersSound, Flags
  <2>2. CASE x # e BY <1>1, <1>2, <2>2 DEF SpinnersSound, Flags
  <2> QED BY <2>1, <2>2
<1>3. ASSUME NEW x \in Editor, loading'[x] PROVE \E c \in calls'[x] : c.pc = "list"
  <2>1. CASE x = e BY <1>1, <1>3, <2>1 DEF SpinnersSound, Flags
  <2>2. CASE x # e BY <1>1, <1>3, <2>2 DEF SpinnersSound, Flags
  <2> QED BY <2>1, <2>2
<1> QED BY <1>2, <1>3 DEF SpinnersSound

\* A click that starts a call.
LEMMA CallStarts ==
    ASSUME IInv, NEW e \in Editor, NEW c \in Call, Click, Call1(e, c), CallSound(c)',
           NEW b \in BOOLEAN, NEW l \in BOOLEAN,
           busy' = [busy EXCEPT ![e] = b], loading' = [loading EXCEPT ![e] = l],
           error' = [error EXCEPT ![e] = FALSE],
           b => busy[e] \/ (c.awaited /\ c.kind \in {"save", "remove"}), l => loading[e] \/ c.pc = "list",
           file' = file, rq' = rq, rows' = rows, form' = form,
           entered \subseteq entered', entered' \subseteq Files \X Field \X Password
    PROVE  IInv'
<1> USE DEF IInv
<1>1. clicks' \in 0..MaxClicks BY ClickType
<1>2. calls' = [calls EXCEPT ![e] = @ \cup {c}] BY DEF Call1
<1>3. calls[e] \cup {c} \in SUBSET Call BY Types
<1>4. calls' \in [Editor -> SUBSET Call] /\ CallsSound' BY <1>2, <1>3, CallsStep
<1>5. SpinnersSound' BY <1>2, SpinnersFrame
<1>6. FormsSound' BY DEF FormsSound, FormSound
<1>7. busy' \in Flags /\ loading' \in Flags /\ error' \in Flags BY Types, FlagType
<1>8. TypeOK' BY <1>1, <1>4, <1>7, FilesFrame, Types, TypesNext
<1> QED BY <1>4, <1>5, <1>6, <1>8, FilesFrame

\* A click that changes the form.
LEMMA FormChanges ==
    ASSUME IInv, NEW e \in Editor, NEW new \in Form \cup {Absent}, Click,
           form' = [form EXCEPT ![e] = new], new # Absent => FormSound(new),
           UNCHANGED <<file, rq, rows, loading, busy, error, calls, entered>>
    PROVE  IInv'
<1> USE DEF IInv
<1>1. clicks' \in 0..MaxClicks BY ClickType
<1>2. form' \in [Editor -> Form \cup {Absent}] /\ FormsSound' BY FormsStep
<1>3. CallsSound' /\ SpinnersSound' BY CallKept DEF CallsSound, SpinnersSound
<1>4. TypeOK' BY <1>1, <1>2, FilesFrame, Types, TypesNext
<1> QED BY <1>2, <1>3, <1>4, FilesFrame

\* Save records every password the form sends.
LEMMA SaveKeeps ==
    ASSUME IInv, NEW e \in Editor, Save(e)
    PROVE  IInv'
<1> USE DEF IInv
<1>0. Click /\ form[e] \in Form /\ FormSound(form[e]) BY Types DEF Save, FormsSound
<1>1. CASE form[e].serial = Absent
  <2>1. error' = [error EXCEPT ![e] = TRUE] /\ UNCHANGED <<file, rq, rows, loading, busy, form, calls, entered>>
    BY <1>1 DEF Save
  <2>2. FormsSound' /\ CallsSound' /\ SpinnersSound'
    BY <2>1, CallKept DEF FormsSound, FormSound, CallsSound, SpinnersSound
  <2>3. error' \in Flags BY <2>1, Types, FlagType
  <2>4. TypeOK' BY <1>0, <2>1, <2>3, ClickType, FilesFrame, Types, TypesNext
  <2> QED BY <2>1, <2>2, <2>4, FilesFrame
<1>2. CASE form[e].serial # Absent
  <2> DEFINE fm == form[e]
             body == ToConfig(fm)
  <2>1. NewCall("save", fm.serial, "send", fm) \in Call BY <1>0, <1>2, NewCallType DEF Form
  <2>2. PICK c \in Call : c = NewCall("save", fm.serial, "send", fm) BY <2>1
  <2>3. Call1(e, c) /\ busy' = [busy EXCEPT ![e] = TRUE] /\ error' = [error EXCEPT ![e] = FALSE]
        /\ UNCHANGED <<file, rq, rows, loading, form>>
    BY <1>2, <2>2 DEF Save
  <2>4. entered' = entered \cup
          {<<fm.serial, f, body.secret[f]>> : f \in {g \in Field : body.secret[g] \in Password}}
    BY <1>2 DEF Save
  <2>5. fm \in Form /\ fm.serial \in Serial /\ FormSound(fm) BY <1>0, <1>2 DEF Form
  <2>6. c.kind = "save" /\ c.serial = fm.serial /\ c.pc = "send" /\ c.form = fm
        /\ c.awaited
    BY <2>2 DEF NewCall
  <2>7. \A f \in Field : body.secret[f] \in Password => <<fm.serial, f, body.secret[f]>> \in entered'
    BY <2>4
  <2>8. /\ c.form \in Form /\ FormSound(c.form)
         /\ \A f \in Field : LET p == ToConfig(c.form).secret[f] IN
               p \in Password => <<c.serial, f, p>> \in entered'
    BY <2>5, <2>7, <2>6
  <2>9. CallSound(c)'
    <3> HIDE DEF fm, body
    <3> QED BY <2>5, <2>6, <2>8 DEF CallSound, FormSound
  <2>10. entered \subseteq entered' BY <2>4
  <2>11. entered' \subseteq Files \X Field \X Password BY <2>4, <2>5, Types DEF Files
  <2>12. loading' = [loading EXCEPT ![e] = loading[e]] /\ loading[e] \in BOOLEAN BY <2>3, Types DEF Flags
  <2> QED BY <1>0, <2>3, <2>6, <2>9, <2>10, <2>11, <2>12, CallStarts
<1> QED BY <1>1, <1>2

\* Every click keeps the invariant.
LEMMA UserKeeps ==
    ASSUME IInv, NEW e \in Editor, User(e)
    PROVE  IInv'
<1> USE DEF IInv
<1>b. /\ busy[e] \in BOOLEAN /\ busy = [busy EXCEPT ![e] = busy[e]]
      /\ loading[e] \in BOOLEAN /\ loading = [loading EXCEPT ![e] = loading[e]]
      /\ entered \subseteq Files \X Field \X Password
  BY Types DEF Flags
<1>1. CASE Refresh(e)
  <2> DEFINE c == NewCall("list", Absent, "list", Absent)
  <2>1. c \in Call BY NewCallType
  <2>2. c.kind = "list" /\ c.pc = "list" /\ c.form = Absent BY DEF NewCall
  <2>3. Call1(e, c) /\ Click /\ loading' = [loading EXCEPT ![e] = TRUE] /\ error' = [error EXCEPT ![e] = FALSE]
        /\ UNCHANGED <<file, rq, rows, busy, form, entered>>
    BY <1>1 DEF Refresh
  <2> HIDE DEF c
  <2>4. CallSound(c)' BY <2>2 DEF CallSound
  <2> QED BY <1>b, <2>1, <2>2, <2>3, <2>4, CallStarts
<1>2. ASSUME NEW s \in Serial, OpenEdit(e, s) PROVE IInv'
  <2> DEFINE c == NewCall("load", s, "send", Absent)
  <2>1. c \in Call BY NewCallType
  <2>2. c.kind = "load" /\ c.pc = "send" /\ c.form = Absent /\ c.serial = s BY DEF NewCall
  <2>3. Call1(e, c) /\ Click /\ error' = [error EXCEPT ![e] = FALSE]
        /\ UNCHANGED <<file, rq, rows, loading, busy, form, entered>>
    BY <1>2 DEF OpenEdit
  <2> HIDE DEF c
  <2>4. CallSound(c)' BY <2>2 DEF CallSound
  <2> QED BY <1>b, <2>1, <2>2, <2>3, <2>4, CallStarts
<1>3. ASSUME NEW s \in Serial, Remove(e, s) PROVE IInv'
  <2> DEFINE c == NewCall("remove", s, "send", Absent)
  <2>1. c \in Call BY NewCallType
  <2>2. c.kind = "remove" /\ c.pc = "send" /\ c.form = Absent /\ c.serial = s /\ c.awaited
    BY DEF NewCall
  <2>3. Call1(e, c) /\ Click /\ busy' = [busy EXCEPT ![e] = TRUE] /\ error' = [error EXCEPT ![e] = FALSE]
        /\ UNCHANGED <<file, rq, rows, loading, form, entered>>
    BY <1>3 DEF Remove
  <2> HIDE DEF c
  <2>4. CallSound(c)' BY <2>2 DEF CallSound
  <2> QED BY <1>b, <2>1, <2>2, <2>3, <2>4, CallStarts
<1>4. CASE OpenNew(e) BY <1>4, OpenedType, FormChanges DEF OpenNew
<1>5. CASE Cancel(e) BY <1>5, FormChanges DEF Cancel
<1>6. CASE Set(e)
  <2>1. form[e] \in Form /\ FormSound(form[e]) BY <1>6, Types DEF Set, FormsSound
  <2>2. PICK new \in Form : form' = [form EXCEPT ![e] = new] /\ FormSound(new)
    BY <1>6, <2>1, EditedType
  <2> QED BY <1>6, <2>2, FormChanges DEF Set
<1>7. CASE Save(e) BY <1>7, SaveKeeps
<1> QED BY <1>1, <1>2, <1>3, <1>4, <1>5, <1>6, <1>7 DEF User

-----------------------------------------------------------------------------
(* Answers *)

\* A call ends: busy goes off with it if the call is one that busy stands for.
LEMMA OverKeeps ==
    ASSUME IInv, NEW e \in Editor, NEW c \in calls[e], NEW ok \in BOOLEAN, Over(e, c, ok),
           entered' = entered,
           \/ c.pc # "list" /\ loading' = loading
           \/ loading' = [loading EXCEPT ![e] = FALSE]
    PROVE  /\ calls' \in [Editor -> SUBSET Call] /\ CallsSound'
           /\ loading' \in Flags /\ busy' \in Flags /\ error' \in Flags /\ SpinnersSound'
<1> USE DEF IInv
<1>1. calls[e] \ {c} \in SUBSET Call BY Types
<1>2. calls' \in [Editor -> SUBSET Call] /\ CallsSound' BY <1>1, CallsStep DEF Over
<1>3. (error[e] \/ ~ok) \in BOOLEAN /\ (busy[e] /\ c.kind \notin {"save", "remove"}) \in BOOLEAN
  BY Zenon
<1>4. busy' = [busy EXCEPT ![e] = busy[e] /\ c.kind \notin {"save", "remove"}]
      /\ error' = [error EXCEPT ![e] = error[e] \/ ~ok] /\ calls' = [calls EXCEPT ![e] = @ \ {c}]
  BY DEF Over
<1>5. busy' \in Flags /\ error' \in Flags BY <1>3, <1>4, Types, FlagType, Zenon
<1>6. loading' \in Flags BY Types, FlagType
<1>7. ASSUME NEW x \in Editor, busy'[x]
      PROVE  \E d \in calls'[x] : d.awaited /\ d.kind \in {"save", "remove"}
  <2>1. CASE x = e
    <3>1. busy'[e] = (busy[e] /\ c.kind \notin {"save", "remove"}) BY <1>4, Types, Zenon DEF Flags
    <3>2. busy[e] /\ c.kind \notin {"save", "remove"} BY <1>7, <2>1, <3>1
    <3>3. PICK d \in calls[e] : d.awaited /\ d.kind \in {"save", "remove"} BY <3>2 DEF SpinnersSound
    <3>4. d \in calls'[e] BY <1>4, <3>2, <3>3, Types
    <3> QED BY <2>1, <3>3, <3>4
  <2>2. CASE x # e
    <3>1. busy[x] /\ calls'[x] = calls[x] BY <1>4, <1>7, <2>2, Types DEF Flags
    <3> QED BY <3>1 DEF SpinnersSound
  <2> QED BY <2>1, <2>2
<1>8. ASSUME NEW x \in Editor, loading'[x] PROVE \E d \in calls'[x] : d.pc = "list"
  <2>1. x # e \/ (c.pc # "list" /\ loading' = loading) BY <1>8, Types DEF Flags
  <2>2. loading[x] BY <1>8, <2>1, Types DEF Flags
  <2>3. PICK d \in calls[x] : d.pc = "list" BY <2>2 DEF SpinnersSound
  <2>4. d \in calls'[x] BY <1>4, <2>1, <2>3, Types
  <2> QED BY <2>3, <2>4
<1> QED BY <1>2, <1>5, <1>6, <1>7, <1>8 DEF SpinnersSound

\* A call goes on to its next request.
LEMMA CallMoves ==
    ASSUME IInv, NEW e \in Editor, NEW c \in calls[e], NEW d \in Call, CallSound(d)', d.kind = c.kind, c.awaited => d.awaited,
           calls' = [calls EXCEPT ![e] = (@ \ {c}) \cup {d}], entered' = entered, busy' = busy,
           \/ c.pc # "list" /\ loading' = loading
           \/ d.pc = "list" /\ loading' = [loading EXCEPT ![e] = TRUE]
    PROVE  /\ calls' \in [Editor -> SUBSET Call] /\ CallsSound'
           /\ loading' \in Flags /\ SpinnersSound'
<1> USE DEF IInv
<1>1. (calls[e] \ {c}) \cup {d} \in SUBSET Call BY Types
<1>2. calls' \in [Editor -> SUBSET Call] /\ CallsSound'
  <2> DEFINE new == (calls[e] \ {c}) \cup {d}
  <2>1. \A b \in new \ calls[e] : b = d OBVIOUS
  <2>2. \A b \in new \ calls[e] : CallSound(b)' BY <2>1 DEF CallSound, EnteredFor
  <2>3. new \in SUBSET Call /\ calls' = [calls EXCEPT ![e] = new] BY <1>1
  <2> HIDE DEF new
  <2> QED BY <2>2, <2>3, CallsStep
<1>3. loading' \in Flags
  <2>1. loading \in Flags /\ [loading EXCEPT ![e] = TRUE] \in Flags BY Types, FlagType
  <2> QED BY <2>1
<1>4. ASSUME NEW x \in Editor, busy'[x]
      PROVE  \E b \in calls'[x] : b.awaited /\ b.kind \in {"save", "remove"}
  <2>1. PICK b \in calls[x] : b.awaited /\ b.kind \in {"save", "remove"} BY <1>4 DEF SpinnersSound
  <2>2. b \in calls'[x] \/ (x = e /\ b = c) BY <2>1, Types
  <2>3. d \in calls'[e] BY Types
  <2> QED BY <2>1, <2>2, <2>3
<1>5. ASSUME NEW x \in Editor, loading'[x] PROVE \E b \in calls'[x] : b.pc = "list"
  <2>1. CASE x = e /\ d.pc = "list" BY <2>1, Types
  <2>2. CASE x # e \/ (c.pc # "list" /\ loading' = loading)
    <3>1. loading[x] BY <1>5, <2>2, Types DEF Flags
    <3>2. PICK b \in calls[x] : b.pc = "list" BY <3>1 DEF SpinnersSound
    <3>3. b \in calls'[x] BY <2>2, <3>2, Types
    <3> QED BY <3>2, <3>3
  <2> QED BY <2>1, <2>2
<1> QED BY <1>2, <1>3, <1>4, <1>5 DEF SpinnersSound

\* ... to the listing, when its own is done.
LEMMA RelistKeeps ==
    ASSUME IInv, NEW e \in Editor, NEW c \in calls[e], Relist(e, c), entered' = entered, busy' = busy
    PROVE  /\ calls' \in [Editor -> SUBSET Call] /\ CallsSound'
           /\ loading' \in Flags /\ error' \in Flags /\ SpinnersSound'
<1> USE DEF IInv
<1>1. c \in Call /\ CallSound(c) BY Types DEF CallsSound
<1>2. NewCall(c.kind, c.serial, "list", Absent) \in Call BY <1>1, NewCallType DEF Call
<1>3. PICK d \in Call : d = NewCall(c.kind, c.serial, "list", Absent) BY <1>2
<1>4. d.kind = c.kind /\ d.serial = c.serial /\ d.pc = "list" /\ d.form = Absent /\ d.awaited
  BY <1>3 DEF NewCall
<1>5. CallSound(d)' BY <1>1, <1>4 DEF CallSound
<1>6. error' \in Flags BY Types, FlagType DEF Relist
<1> QED BY <1>3, <1>4, <1>5, <1>6, CallMoves DEF Relist

\* A call that nobody awaits ends.
LEMMA UnheardKeeps ==
    ASSUME IInv, NEW e \in Editor, NEW c \in calls[e], Unheard(e, c), c.pc # "list", entered' = entered
    PROVE  /\ calls' \in [Editor -> SUBSET Call] /\ CallsSound'
           /\ loading' \in Flags /\ busy' \in Flags /\ error' \in Flags /\ SpinnersSound'
<1> USE DEF IInv
<1>1. /\ ~c.awaited /\ calls' = [calls EXCEPT ![e] = @ \ {c}]
      /\ UNCHANGED <<loading, busy, error, form>>
  BY DEF Unheard
<1>2. calls[e] \ {c} \in SUBSET Call BY Types
<1>3. calls' \in [Editor -> SUBSET Call] /\ CallsSound' BY <1>1, <1>2, CallsStep
<1>4. ASSUME NEW x \in Editor, NEW d \in calls[x], d # c PROVE d \in calls'[x]
  BY <1>1, <1>4, Types
<1>5. SpinnersSound' BY <1>1, <1>4 DEF SpinnersSound
<1> QED BY <1>1, <1>3, <1>5, Types

\* A file is stored or deleted.
LEMMA FileStep ==
    ASSUME IInv, NEW s \in Files, NEW new \in Config \cup {Absent}, file' = [file EXCEPT ![s] = new],
           new # Absent => \A f \in Field :
               new.secret[f] # Absent => <<s, f, new.secret[f].pass>> \in entered',
           rq' = rq, entered \subseteq entered'
    PROVE  ConfigTypeOK' /\ FilesSound' /\ RequestSound' /\ DisclosureGated'
<1> USE DEF IInv
<1>1. file \in [Files -> Config \cup {Absent}] /\ rq \in Resolve BY DEF TypeOK, ConfigTypeOK
<1>2. ConfigTypeOK' BY <1>1 DEF ConfigTypeOK
<1>3. FilesSound' BY <1>1 DEF FilesSound, EnteredFor
<1>4. RequestSound' BY DEF RequestSound, EnteredFor, Legitimate
<1>5. DisclosureGated' BY DEF DisclosureGated
<1> QED BY <1>2, <1>3, <1>4, <1>5

\* Every answer keeps the invariant.
LEMMA AnswerKeeps ==
    ASSUME IInv, NEW e \in Editor, NEW c \in calls[e], Answer(e, c)
    PROVE  IInv'
<1> USE DEF IInv
<1>0. c \in Call /\ CallSound(c) BY Types DEF CallsSound
<1>q. rq' = rq /\ clicks' = clicks /\ entered' = entered BY DEF Answer
<1>f. ASSUME form' = form PROVE form' \in [Editor -> Form \cup {Absent}] /\ FormsSound'
  BY <1>f, Types DEF FormsSound, FormSound
<1>c. ASSUME form' = [form EXCEPT ![e] = Absent]
      PROVE  form' \in [Editor -> Form \cup {Absent}] /\ FormsSound'
  BY <1>c, FormsStep
<1>g. ASSUME file' = file PROVE ConfigTypeOK' /\ FilesSound' /\ RequestSound' /\ DisclosureGated'
  BY <1>g, <1>q, FilesFrame
<1>1. CASE Fails(e, c)
  <2>1. /\ c.pc # "list" /\ UNCHANGED <<file, rows, form>>
        /\ Unheard(e, c) \/ (Over(e, c, FALSE) /\ loading' = loading)
    BY <1>1 DEF Fails, Unheard
  <2>2. /\ calls' \in [Editor -> SUBSET Call] /\ CallsSound'
        /\ loading' \in Flags /\ busy' \in Flags /\ error' \in Flags /\ SpinnersSound'
    BY <2>1, <1>q, OverKeeps, UnheardKeeps
  <2> QED BY <1>q, <1>f, <1>g, <2>1, <2>2, Types, TypesNext
<1>2. CASE Listed(e, c)
  <2>1. loading' = [loading EXCEPT ![e] = FALSE] /\ UNCHANGED <<file, form>>
        /\ (Over(e, c, TRUE) \/ Over(e, c, FALSE))
    BY <1>2 DEF Listed
  <2>2. /\ calls' \in [Editor -> SUBSET Call] /\ CallsSound'
        /\ loading' \in Flags /\ busy' \in Flags /\ error' \in Flags /\ SpinnersSound'
    BY <2>1, <1>q, OverKeeps
  <2>3. rows' \in [Editor -> SUBSET Serial] BY <1>2, Types DEF Listed
  <2> QED BY <1>q, <1>f, <1>g, <2>1, <2>2, <2>3, Types, TypesNext
<1>3. CASE Loaded(e, c)
  <2>1. /\ c.kind = "load" /\ c.pc = "read"
        /\ form' = [form EXCEPT ![e] = FromConfig(c.serial, Mask(c.prev), c.prev)]
        /\ calls' = [calls EXCEPT ![e] = @ \ {c}]
        /\ UNCHANGED <<file, rows, loading, busy, error>>
    BY <1>3 DEF Loaded
  <2>2. c.serial \in Serial /\ c.prev \in Config \ {Absent} BY <1>0, <2>1 DEF CallSound, Call
  <2>3. form' \in [Editor -> Form \cup {Absent}] /\ FormsSound'
    BY <2>1, <2>2, OpenedType, FormsStep
  <2>4. calls[e] \ {c} \in SUBSET Call BY Types
  <2>5. calls' \in [Editor -> SUBSET Call] /\ CallsSound' BY <1>q, <2>1, <2>4, CallsStep
  <2>6. SpinnersSound'
    <3>1. ASSUME NEW x \in Editor, NEW d \in calls[x], d # c PROVE d \in calls'[x]
      BY <2>1, <3>1, Types
    <3> QED BY <2>1, <3>1 DEF SpinnersSound
  <2> QED BY <1>q, <1>g, <2>1, <2>3, <2>5, <2>6, Types, TypesNext
<1>4. CASE ServerReads(e, c)
  <2>1. /\ c.pc = "send" /\ (c.kind = "save" \/ (c.kind = "load" /\ file[c.serial] # Absent))
        /\ calls' = [calls EXCEPT ![e] = (@ \ {c}) \cup {[c EXCEPT !.pc = "read", !.prev = file[c.serial]]}]
        /\ UNCHANGED <<file, rows, loading, busy, error, form>>
    BY <1>4 DEF ServerReads
  <2>2. c.serial \in Serial BY <1>0, <2>1 DEF CallSound
  <2>3. file[c.serial] \in Config \cup {Absent}
        /\ (file[c.serial] # Absent => EnteredFor(c.serial, file[c.serial]))
    BY <2>2 DEF TypeOK, ConfigTypeOK, FilesSound, Files
  <2>4. [c EXCEPT !.pc = "read", !.prev = file[c.serial]] \in Call BY <1>0, <2>3 DEF Call
  <2>5. PICK d \in Call : d = [c EXCEPT !.pc = "read", !.prev = file[c.serial]] BY <2>4
  <2>6. d.kind = c.kind /\ d.serial = c.serial /\ d.form = c.form /\ d.pc = "read"
        /\ d.prev = file[c.serial] /\ d.awaited = c.awaited
    BY <1>0, <2>5 DEF Call
  <2>7. CallSound(d)' BY <1>0, <1>q, <2>1, <2>2, <2>3, <2>6 DEF CallSound, EnteredFor
  <2>8. /\ calls' \in [Editor -> SUBSET Call] /\ CallsSound'
        /\ loading' \in Flags /\ SpinnersSound'
    BY <1>q, <2>1, <2>5, <2>6, <2>7, CallMoves
  <2> QED BY <1>q, <1>f, <1>g, <2>1, <2>8, Types, TypesNext
<1>5. CASE PutDone(e, c)
  <2>1. /\ c.kind = "save" /\ c.pc = "read" /\ rows' = rows
        /\ file' = [file EXCEPT ![c.serial] = Encrypted(ToConfig(c.form), c.prev)]
        /\ \/ form' = [form EXCEPT ![e] = Absent] /\ Relist(e, c) /\ busy' = busy
           \/ Over(e, c, FALSE) /\ form' = form /\ loading' = loading
           \/ Unheard(e, c) /\ form' = form
    BY <1>5 DEF PutDone, Unheard
  <2>2. c.serial \in Serial /\ c.form \in Form /\ c.prev \in Config \cup {Absent}
    BY <1>0, <2>1 DEF CallSound, Call
  <2>3. ConfigTypeOK' /\ FilesSound' /\ RequestSound' /\ DisclosureGated'
    <3>1. \A f \in Field : LET new == Encrypted(ToConfig(c.form), c.prev) IN
            new.secret[f] # Absent => <<c.serial, f, new.secret[f].pass>> \in entered'
      BY <1>0, <1>q, <2>1, EncryptedEntered DEF EnteredFor
    <3>2. Encrypted(ToConfig(c.form), c.prev) \in Config BY <2>2, EncryptedType
    <3> QED BY <1>q, <2>1, <2>2, <3>1, <3>2, FileStep DEF Files
  <2>4. /\ calls' \in [Editor -> SUBSET Call] /\ CallsSound'
        /\ loading' \in Flags /\ busy' \in Flags /\ error' \in Flags /\ SpinnersSound'
    <3>1. CASE Relist(e, c) /\ busy' = busy BY <1>q, <3>1, RelistKeeps, Types
    <3>2. CASE Over(e, c, FALSE) /\ loading' = loading BY <1>q, <2>1, <3>2, OverKeeps
    <3>3. CASE Unheard(e, c) BY <1>q, <2>1, <3>3, UnheardKeeps
    <3> QED BY <2>1, <3>1, <3>2, <3>3
  <2>5. form' \in [Editor -> Form \cup {Absent}] /\ FormsSound' BY <1>f, <1>c, <2>1
  <2> QED BY <1>q, <2>1, <2>3, <2>4, <2>5, Types, TypesNext
<1>6. CASE DeleteDone(e, c)
  <2>1. /\ c.kind = "remove" /\ c.pc = "send" /\ rows' = rows /\ form' = form
        /\ file' = [file EXCEPT ![c.serial] = Absent]
        /\ \/ Relist(e, c) /\ busy' = busy
           \/ Over(e, c, FALSE) /\ loading' = loading
           \/ Unheard(e, c)
    BY <1>6 DEF DeleteDone, Unheard
  <2>2. c.serial \in Serial BY <1>0, <2>1 DEF CallSound
  <2>3. ConfigTypeOK' /\ FilesSound' /\ RequestSound' /\ DisclosureGated'
    BY <1>q, <2>1, <2>2, FileStep DEF Files
  <2>4. /\ calls' \in [Editor -> SUBSET Call] /\ CallsSound'
        /\ loading' \in Flags /\ busy' \in Flags /\ error' \in Flags /\ SpinnersSound'
    <3>1. CASE Relist(e, c) /\ busy' = busy BY <1>q, <3>1, RelistKeeps, Types
    <3>2. CASE Over(e, c, FALSE) /\ loading' = loading BY <1>q, <2>1, <3>2, OverKeeps
    <3>3. CASE Unheard(e, c) BY <1>q, <2>1, <3>3, UnheardKeeps
    <3> QED BY <2>1, <3>1, <3>2, <3>3
  <2> QED BY <1>q, <1>f, <2>1, <2>3, <2>4, Types, TypesNext
<1>7. CASE Abandoned(e, c)
  <2>1. /\ c.pc # "list" /\ UNCHANGED <<file, rows, loading, form>>
        /\ calls' = [calls EXCEPT ![e] = (@ \ {c}) \cup {[c EXCEPT !.awaited = FALSE]}]
        /\ error' = [error EXCEPT ![e] = TRUE] /\ busy' = [busy EXCEPT ![e] = FALSE]
    BY <1>7 DEF Abandoned
  <2>2. [c EXCEPT !.awaited = FALSE] \in Call BY <1>0 DEF Call
  <2>3. PICK d \in Call : d = [c EXCEPT !.awaited = FALSE] BY <2>2
  <2>4. d.kind = c.kind /\ d.serial = c.serial /\ d.form = c.form /\ d.pc = c.pc /\ d.prev = c.prev
    BY <1>0, <2>3 DEF Call
  <2>5. CallSound(d)' BY <1>0, <1>q, <2>4 DEF CallSound, EnteredFor
  <2>6. (calls[e] \ {c}) \cup {d} \in SUBSET Call /\ calls' = [calls EXCEPT ![e] = (@ \ {c}) \cup {d}]
    BY <2>1, <2>3, Types
  <2>7. calls' \in [Editor -> SUBSET Call] /\ CallsSound'
    <3> DEFINE new == (calls[e] \ {c}) \cup {d}
    <3>1. \A b \in new \ calls[e] : CallSound(b)' BY <2>5 DEF CallSound, EnteredFor
    <3>2. new \in SUBSET Call /\ calls' = [calls EXCEPT ![e] = new] BY <2>6
    <3> HIDE DEF new
    <3> QED BY <1>q, <3>1, <3>2, CallsStep
  <2>8. busy' \in Flags /\ error' \in Flags /\ loading' \in Flags /\ ~busy'[e]
    BY <2>1, Types, FlagType
  <2>9. SpinnersSound'
    <3>1. ASSUME NEW x \in Editor, NEW b \in calls[x], b # c \/ x # e PROVE b \in calls'[x]
      BY <2>6, <3>1, Types
    <3>2. \A x \in Editor : x # e => busy'[x] = busy[x] BY <2>1, Types DEF Flags
    <3> QED BY <2>1, <2>8, <3>1, <3>2 DEF SpinnersSound
  <2> QED BY <1>q, <1>f, <1>g, <2>1, <2>7, <2>8, <2>9, Types, TypesNext
<1> QED BY <1>1, <1>2, <1>3, <1>4, <1>5, <1>6, <1>7 DEF Answer

-----------------------------------------------------------------------------
(* default.json, and the machine *)

\* A password put into default.json is on record for it.
LEMMA ReplaceDefaultKeeps ==
    ASSUME IInv, NEW p \in Password, ReplaceDefault(p)
    PROVE  IInv'
<1> USE DEF IInv
<1> DEFINE f0 == "LOCALADMINPASS"
           stored == [form |-> "plain", pass |-> p]
           old == file[Default]
           new == [old EXCEPT !.secret[f0] = stored]
<1>1. old \in Config /\ Click /\ rq' = rq /\ UNCHANGED ui BY DEF ReplaceDefault, TypeOK, ConfigTypeOK, Files
<1>2. stored \in Stored /\ f0 \in Field BY DEF Stored, Field
<1>3. [old.secret EXCEPT ![f0] = stored] \in [Field -> Stored \cup {Absent}] BY <1>1, <1>2 DEF Config
<1>4. new = [join |-> old.join, bom |-> old.bom, secret |-> [old.secret EXCEPT ![f0] = stored]] BY <1>1 DEF Config
<1>5. new \in Config BY <1>1, <1>3, <1>4 DEF Config
<1>6. file' = [file EXCEPT ![Default] = new] BY DEF ReplaceDefault
<1>7. entered' = entered \cup {<<Default, f0, p>>} BY DEF ReplaceDefault
<1>8. file \in [Files -> Config \cup {Absent}] /\ Default \in Files BY DEF TypeOK, ConfigTypeOK, Files
<1>9. \A f \in Field : new.secret[f] = IF f = f0 THEN stored ELSE old.secret[f]
  BY <1>1, <1>4 DEF Config
<1>10. ASSUME NEW f \in Field, new.secret[f] # Absent
       PROVE  <<Default, f, new.secret[f].pass>> \in entered'
  <2>1. CASE f = f0 BY <1>7, <1>9, <2>1
  <2>2. CASE f # f0
    <3>1. new.secret[f] = old.secret[f] BY <1>9, <2>2
    <3>2. old # Absent BY DEF ReplaceDefault
    <3>3. <<Default, f, old.secret[f].pass>> \in entered
      BY <1>8, <1>10, <3>1, <3>2 DEF FilesSound, EnteredFor
    <3> QED BY <1>7, <3>1, <3>3
  <2> QED BY <2>1, <2>2
<1> HIDE DEF new, f0
<1>11. ConfigTypeOK' /\ FilesSound' /\ RequestSound' /\ DisclosureGated'
  BY <1>1, <1>5, <1>6, <1>7, <1>8, <1>10, FileStep
<1>12. FormsSound' /\ CallsSound' /\ SpinnersSound'
  BY <1>1, <1>7, CallKept DEF ui, FormsSound, FormSound, CallsSound, SpinnersSound
<1>13. entered' \subseteq Files \X Field \X Password BY <1>2, <1>7, <1>8, Types
<1>14. TypeOK' BY <1>1, <1>11, <1>13, ClickType, Types, TypesNext DEF ui
<1> QED BY <1>11, <1>12, <1>14

\* What an answer looks like.
LEMMA AnsweredType ==
    ASSUME rq \in Resolve, NEW st \in {200, 403, 404, 500}
    PROVE  /\ Answered(st) \in Resolve /\ Answered(st).pc = "answered" /\ Answered(st).status = st
           /\ Answered(st).serial = rq.serial /\ Answered(st).decision = rq.decision
           /\ Answered(st).cfg = IF st = 200 THEN rq.cfg ELSE Absent
<1> DEFINE cfg == IF st = 200 THEN rq.cfg ELSE Absent
<1>0. cfg \in Config \cup {Absent} BY DEF Resolve
<1>a. st \in {0, 200, 403, 404, 500} /\ Absent \in Config \cup {Absent} OBVIOUS
<1> HIDE DEF cfg
<1>1. PICK r1 \in Resolve : r1 = [rq EXCEPT !.pc = "answered"]
  <2>1. [rq EXCEPT !.pc = "answered"] \in Resolve BY DEF Resolve
  <2> QED BY <2>1
<1>2. PICK r2 \in Resolve : r2 = [r1 EXCEPT !.status = st]
  <2>1. [r1 EXCEPT !.status = st] \in Resolve BY <1>a DEF Resolve
  <2> QED BY <2>1
<1>3. PICK r3 \in Resolve : r3 = [r2 EXCEPT !.per = Absent]
  <2>1. [r2 EXCEPT !.per = Absent] \in Resolve BY DEF Resolve
  <2> QED BY <2>1
<1>4. PICK r4 \in Resolve : r4 = [r3 EXCEPT !.cfg = cfg]
  <2>1. [r3 EXCEPT !.cfg = cfg] \in Resolve BY <1>0 DEF Resolve
  <2> QED BY <2>1
<1>5. r1.pc = "answered" /\ r1.serial = rq.serial /\ r1.decision = rq.decision /\ r1.cfg = rq.cfg
  BY <1>1 DEF Resolve
<1>6. r2.pc = r1.pc /\ r2.serial = r1.serial /\ r2.decision = r1.decision /\ r2.cfg = r1.cfg /\ r2.status = st
  BY <1>2 DEF Resolve
<1>7. r3.pc = r2.pc /\ r3.serial = r2.serial /\ r3.decision = r2.decision /\ r3.cfg = r2.cfg
      /\ r3.status = r2.status
  BY <1>3 DEF Resolve
<1>8. r4.pc = r3.pc /\ r4.serial = r3.serial /\ r4.decision = r3.decision /\ r4.status = r3.status
      /\ r4.cfg = cfg
  BY <1>4 DEF Resolve
<1>9. Answered(st) = r4 BY <1>1, <1>2, <1>3, <1>4, <1>5, <1>6, <1>7 DEF Answered, cfg
<1> QED BY <1>5, <1>6, <1>7, <1>8, <1>9 DEF cfg

\* Reading, merging, deciding: the machine's steps keep the invariant.
LEMMA MachineKeeps ==
    ASSUME IInv, Machine
    PROVE  IInv'
<1> USE DEF IInv
<1>0. /\ UNCHANGED <<file, ui, clicks, entered>> /\ rq \in Resolve
      /\ file \in [Files -> Config \cup {Absent}]
  BY DEF Machine, TypeOK, ConfigTypeOK
<1>1. FilesSound' /\ FormsSound' /\ CallsSound' /\ SpinnersSound'
  BY <1>0, CallKept DEF ui, FilesSound, EnteredFor, FormsSound, FormSound, CallsSound, SpinnersSound
<1>2. ASSUME rq' \in Resolve, RequestSound', DisclosureGated' PROVE IInv'
  <2>1. ConfigTypeOK' BY <1>0, <1>2 DEF ConfigTypeOK
  <2> QED BY <1>0, <1>1, <1>2, <2>1, Types, TypesNext DEF ui
<1>3. ASSUME NEW s \in Serial, AskConfig(s) PROVE IInv'
  <2>1. PICK r \in Resolve : r = [rq EXCEPT !.pc = "per"]
    <3>1. [rq EXCEPT !.pc = "per"] \in Resolve BY <1>0 DEF Resolve
    <3> QED BY <3>1
  <2>2. rq' = [r EXCEPT !.serial = s] BY <1>3, <2>1 DEF AskConfig
  <2>3. rq' \in Resolve BY <2>2 DEF Resolve
  <2>4. rq'.pc = "per" /\ rq'.serial = s /\ rq'.status = rq.status /\ rq.status = 0
    BY <1>0, <1>3 DEF AskConfig, Resolve, RequestSound
  <2> QED BY <1>2, <2>3, <2>4 DEF RequestSound, DisclosureGated
<1>4. CASE ReadMachine
  <2>1. rq.pc = "per" /\ rq.serial \in Serial BY <1>4 DEF ReadMachine, RequestSound
  <2>2. CASE file[rq.serial] = Absent
    <3>1. rq' = Answered(404) BY <1>4, <2>2 DEF ReadMachine
    <3> QED BY <1>0, AnsweredType, <1>2, <2>1, <3>1 DEF RequestSound, DisclosureGated
  <2>3. CASE file[rq.serial] # Absent
    <3>1. file[rq.serial] \in Config /\ EnteredFor(rq.serial, file[rq.serial])
      BY <1>0, <2>1, <2>3 DEF FilesSound, Files
    <3>2. rq' = [rq EXCEPT !.pc = "def", !.per = file[rq.serial]] BY <1>4, <2>3 DEF ReadMachine
    <3>4. PICK r \in Resolve : r = [rq EXCEPT !.pc = "def"]
      <4>1. [rq EXCEPT !.pc = "def"] \in Resolve BY <1>0 DEF Resolve
      <4> QED BY <4>1
    <3>5. rq' = [r EXCEPT !.per = file[rq.serial]] BY <3>2, <3>4
    <3>6. rq' \in Resolve BY <3>1, <3>5 DEF Resolve
    <3>3. /\ rq'.pc = "def" /\ rq'.per = file[rq.serial]
          /\ rq'.serial = rq.serial /\ rq'.status = 0
      BY <1>0, <2>1, <3>1, <3>2 DEF Resolve, RequestSound
    <3> QED BY <1>0, <1>2, <2>1, <3>1, <3>3, <3>6 DEF RequestSound, DisclosureGated, EnteredFor
  <2> QED BY <2>2, <2>3
<1>5. CASE ReadDefault
  <2> DEFINE def == file[Default]
             merged == Merged(def, rq.per)
  <2>1. rq.pc = "def" /\ rq.serial \in Serial /\ rq.per \in Config /\ EnteredFor(rq.serial, rq.per)
    BY <1>5 DEF ReadDefault, RequestSound
  <2>2. def \in Config \cup {Absent} /\ (def # Absent => EnteredFor(Default, def))
    BY <1>0 DEF FilesSound, Files
  <2>3. merged \in Config /\ Decrypted(merged) \in Config BY <2>1, <2>2, MergedType, DecryptedType
  <2>4. Legitimate(rq.serial, Decrypted(merged))
    <3>1. ASSUME NEW f \in Field, Decrypted(merged).secret[f] # Absent
          PROVE  \E t \in {rq.serial, Default} : <<t, f, Decrypted(merged).secret[f].pass>> \in entered
      <4>1. merged.secret[f] # Absent /\ Decrypted(merged).secret[f].pass = merged.secret[f].pass
        BY <2>3, <3>1, DecryptedType
      <4>2. merged.secret[f] = IF rq.per.secret[f] = Absent /\ def # Absent
                               THEN def.secret[f] ELSE rq.per.secret[f]
        BY <2>1, <2>2, MergedType
      <4> HIDE DEF merged, def
      <4> QED BY <2>1, <2>2, <4>1, <4>2 DEF EnteredFor
    <3> QED BY <3>1 DEF Legitimate
  <2>5. CASE Decryptable(merged)
    <3>1. rq' = [rq EXCEPT !.pc = "policy", !.per = Absent, !.cfg = Decrypted(merged)]
      BY <1>5, <2>5 DEF ReadDefault
    <3>3. PICK r \in Resolve : r = [rq EXCEPT !.pc = "policy"]
      <4>1. [rq EXCEPT !.pc = "policy"] \in Resolve BY <1>0 DEF Resolve
      <4> QED BY <4>1
    <3>4. PICK q \in Resolve : q = [r EXCEPT !.per = Absent]
      <4>1. [r EXCEPT !.per = Absent] \in Resolve BY DEF Resolve
      <4> QED BY <4>1
    <3>5. rq' = [q EXCEPT !.cfg = Decrypted(merged)] BY <3>1, <3>3, <3>4
    <3>6. rq' \in Resolve BY <2>3, <3>5 DEF Resolve
    <3>2. /\ rq'.pc = "policy" /\ rq'.cfg = Decrypted(merged)
          /\ rq'.serial = rq.serial /\ rq'.status = 0
      BY <1>0, <2>1, <2>3, <3>1 DEF Resolve, RequestSound
    <3> QED BY <1>0, <1>2, <2>1, <2>3, <2>4, <3>2, <3>6 DEF RequestSound, DisclosureGated, Legitimate
  <2>6. CASE ~Decryptable(merged)
    <3>1. rq' = Answered(500) BY <1>5, <2>6 DEF ReadDefault
    <3> QED BY <1>0, AnsweredType, <1>2, <2>1, <3>1 DEF RequestSound, DisclosureGated
  <2> QED BY <2>5, <2>6
<1>6. CASE Decide
  <2>1. PICK d \in {"allow", "deny", "unclear"} :
           rq' = [Answered(IF EvalPolicy(d) THEN 200 ELSE 403) EXCEPT !.decision = d]
    BY <1>6 DEF Decide
  <2>2. rq.pc = "policy" /\ rq.serial \in Serial /\ rq.cfg \in Config /\ Legitimate(rq.serial, rq.cfg)
    BY <1>6 DEF Decide, RequestSound
  <2> DEFINE st == IF EvalPolicy(d) THEN 200 ELSE 403
  <2>3. st \in {200, 403} /\ (st = 200 => (PolicyUrl => d = "allow")) BY DEF EvalPolicy
  <2>4. /\ rq' \in Resolve /\ rq'.pc = "answered" /\ rq'.status = st /\ rq'.serial = rq.serial
        /\ rq'.decision = d /\ rq'.cfg = IF st = 200 THEN rq.cfg ELSE Absent
    <3> HIDE DEF st
    <3>1. rq' = [Answered(st) EXCEPT !.decision = d] BY <2>1 DEF st
    <3>2. Answered(st) \in Resolve BY <1>0, <2>3, AnsweredType
    <3>3. /\ rq'.pc = Answered(st).pc /\ rq'.status = Answered(st).status /\ rq'.cfg = Answered(st).cfg
          /\ rq'.serial = Answered(st).serial /\ rq'.decision = d
      BY <3>1, <3>2 DEF Resolve
    <3>4. d \in {"none", "allow", "deny", "unclear"} OBVIOUS
    <3>5. rq' \in Resolve BY <3>1, <3>2, <3>4 DEF Resolve
    <3>6. st \in {200, 403, 404, 500} BY <2>3
    <3> QED BY <1>0, <3>3, <3>5, <3>6, AnsweredType
  <2> HIDE DEF st
  <2> QED BY <1>0, <1>2, <2>2, <2>3, <2>4 DEF RequestSound, DisclosureGated, Legitimate
<1> QED BY <1>3, <1>4, <1>5, <1>6 DEF Machine

-----------------------------------------------------------------------------
(* The invariant *)

LEMMA InitInv == Init => IInv
<1> SUFFICES ASSUME Init PROVE IInv OBVIOUS
<1> USE EditorAssumption
<1>1. ASSUME NEW s \in Files, file[s] # Absent, NEW f \in Field, file[s].secret[f] # Absent
      PROVE  <<s, f, file[s].secret[f].pass>> \in entered
  <2>1. file[s] \in Config BY <1>1 DEF Init
  <2>2. file[s].secret[f].pass \in Password BY <1>1, <2>1, ConfigSecret DEF Stored
  <2>3. entered = {x \in Files \X Field \X Password :
                      /\ file[x[1]] # Absent /\ file[x[1]].secret[x[2]] # Absent
                      /\ file[x[1]].secret[x[2]].pass = x[3]}
    BY DEF Init
  <2> QED BY <1>1, <2>1, <2>2, <2>3
<1>2. FilesSound BY <1>1 DEF FilesSound, EnteredFor
<1>3. rq = Idle /\ Idle \in Resolve BY DEF Init, Idle, Resolve
<1>4. RequestSound /\ DisclosureGated BY <1>3 DEF Idle, RequestSound, DisclosureGated
<1>5. FormsSound /\ CallsSound /\ SpinnersSound
  BY DEF Init, FormsSound, CallsSound, SpinnersSound
<1>6. TypeOK
  <2>1. file \in [Files -> Config \cup {Absent}] BY DEF Init
  <2>2. rows \in [Editor -> SUBSET Serial] BY DEF Init
  <2>3. {loading, busy, error} \subseteq [Editor -> BOOLEAN] BY DEF Init
  <2>4. clicks \in 0..MaxClicks BY DEF Init
  <2>5. form \in [Editor -> Form \cup {Absent}] /\ calls \in [Editor -> SUBSET Call] BY DEF Init
  <2>6. entered \subseteq Files \X Field \X Password BY DEF Init
  <2> QED BY <1>3, <2>1, <2>2, <2>3, <2>4, <2>5, <2>6 DEF TypeOK, ConfigTypeOK
<1> QED BY <1>2, <1>4, <1>5, <1>6 DEF IInv

LEMMA NextInv == IInv /\ [Next]_vars => IInv'
<1> SUFFICES ASSUME IInv, [Next]_vars PROVE IInv' OBVIOUS
<1>1. ASSUME NEW e \in Editor, User(e) PROVE IInv' BY <1>1, UserKeeps
<1>2. ASSUME NEW e \in Editor, NEW c \in calls[e], Answer(e, c) PROVE IInv' BY <1>2, AnswerKeeps
<1>3. ASSUME NEW p \in Password, ReplaceDefault(p) PROVE IInv' BY <1>3, ReplaceDefaultKeeps
<1>4. CASE Machine BY <1>4, MachineKeeps
<1>5. CASE UNCHANGED vars
  <2>1. UNCHANGED <<file, rq, rows, loading, busy, error, form, calls, clicks, entered>>
    BY <1>5 DEF vars, ui
  <2>2. FormsSound' /\ CallsSound' /\ SpinnersSound'
    BY <2>1, CallKept DEF IInv, FormsSound, FormSound, CallsSound, SpinnersSound
  <2>3. ConfigTypeOK' /\ FilesSound' /\ RequestSound' /\ DisclosureGated' BY <2>1, FilesFrame
  <2>4. TypeOK' BY <2>1, <2>3, Types, TypesNext DEF IInv
  <2> QED BY <2>2, <2>3, <2>4 DEF IInv
<1> QED BY <1>1, <1>2, <1>3, <1>4, <1>5 DEF Next, Rest

-----------------------------------------------------------------------------
(* The theorems *)

\* What is stored, held, sent and answered is on record, always.
THEOREM Invariance == Spec => []IInv
BY InitInv, NextInv, PTL DEF Spec

\* Every variable keeps its type, whatever the browsers and the machine do.
THEOREM TypeCorrect == Spec => []TypeOK
<1>1. IInv => TypeOK BY DEF IInv
<1> QED BY <1>1, Invariance, PTL

\* A machine is given only credentials that were entered for it, or for default.json,
\* in that field.
THEOREM DisclosureCorrect == Spec => []DisclosedAsEntered
<1>1. IInv => DisclosedAsEntered BY DEF IInv, RequestSound, Legitimate, DisclosedAsEntered
<1> QED BY <1>1, Invariance, PTL

\* Credentials are answered only on an allow of the policy engine.
THEOREM GateCorrect == Spec => []DisclosureGated
<1>1. IInv => DisclosureGated BY DEF IInv
<1> QED BY <1>1, Invariance, PTL

\* A form claims to keep a secret only if the file it was loaded from held it.
THEOREM KeepCorrect == Spec => []KeepOnlyLoaded
<1>1. IInv => KeepOnlyLoaded
  <2> SUFFICES ASSUME IInv, NEW fm \in Forms \ {Absent}, NEW f \in Field, fm.set[f]
               PROVE  ~fm.isNew /\ fm.base # Absent /\ fm.base.secret[f] # Absent
    BY DEF KeepOnlyLoaded
  <2>1. FormSound(fm)
    <3>1. CASE \E e \in Editor : fm = form[e] BY <3>1 DEF IInv, FormsSound
    <3>2. CASE \E e \in Editor : \E c \in calls[e] : fm = c.form
      BY <3>2 DEF IInv, CallsSound, CallSound
    <3> QED BY <3>1, <3>2 DEF Forms
  <2> QED BY <2>1 DEF FormSound
<1> QED BY <1>1, Invariance, PTL

\* No spinner outlives its call.
THEOREM SpinnersCorrect == Spec => []SpinnersSound
<1>1. IInv => SpinnersSound BY DEF IInv
<1> QED BY <1>1, Invariance, PTL

\* What a save did to one secret that it lost or replaced.
LEMMA SaveLoses ==
    ASSUME NEW c \in Call, CallSound(c), c.kind = "save", c.pc = "read", NEW old \in Config \ {Absent},
           ~old.bom, c.form.base = c.prev, c.prev = old, NEW f \in Field, f # "DOMAINPASS" \/ c.form.join,
           old.secret[f] # Absent, Encrypted(ToConfig(c.form), c.prev).secret[f] # old.secret[f]
    PROVE  Encrypted(ToConfig(c.form), c.prev).secret[f] = Seal(c.form.typed[f])
<1> DEFINE fm == c.form
           in == ToConfig(fm).secret[f]
           kept == old.secret[f]
<1>1. fm \in Form /\ FormSound(fm) BY DEF CallSound
<1>2. kept \in Stored \cup {Absent} BY ConfigSecret
<1>3. Encrypted(ToConfig(fm), c.prev).secret[f] = ResolveSecret(in, kept)
  <2>1. c.prev \in Config \cup {Absent} /\ PrevUnattend(c.prev)[f] = kept BY PrevUnattendType
  <2> QED BY <1>1, <2>1, EncryptedType
<1>4. in \in Password \cup {Absent, Keep} /\ in = SecretOut(fm.typed[f], fm.set[f])
      /\ fm.set[f] \in BOOLEAN /\ fm.typed[f] \in Password \cup {Absent}
  BY <1>1, ToConfigSecret
<1>5. fm.set[f] BY <1>1 DEF FormSound
<1>6. CASE fm.typed[f] = Absent
  <2>1. in = Keep BY <1>4, <1>5, <1>6 DEF SecretOut
  <2>2. ResolveSecret(in, kept) = kept BY <2>1, <1>4, <1>2, ResolveSecretCases
  <2> QED BY <1>3, <2>2
<1>7. CASE fm.typed[f] # Absent
  <2>1. in = fm.typed[f] /\ in \in Password BY <1>4, <1>7 DEF SecretOut
  <2>2. ResolveSecret(in, kept) = Seal(in) BY <2>1, <1>4, <1>2, ResolveSecretCases
  <2> QED BY <1>3, <2>1, <2>2
<1> QED BY <1>6, <1>7

\* A save loses a stored secret only if the form said so or was out of date.
THEOREM SecretsCorrect == Spec => SecretsKept
<1> DEFINE Lost(s, f) == file[s] # Absent /\ file'[s] # Absent /\ file[s].secret[f] # Absent
                         /\ file'[s].secret[f] # file[s].secret[f]
           Excused(s, f) == \E e \in Editor : \E c \in calls[e] :
              /\ c.kind = "save" /\ c.pc = "read" /\ c.serial = s
              /\ \/ file'[s].secret[f] = Seal(c.form.typed[f])
                 \/ f = "DOMAINPASS" /\ ~c.form.join
                 \/ c.form.base # c.prev \/ c.prev # file[s] \/ file[s].bom
<1>1. IInv /\ [Next]_vars => [\A s \in Serial : \A f \in Field : Lost(s, f) => Excused(s, f)]_vars
  <2> SUFFICES ASSUME IInv, [Next]_vars, NEW s \in Serial, NEW f \in Field, Lost(s, f)
               PROVE  Excused(s, f)
    OBVIOUS
  <2>1. file'[s] # file[s] OBVIOUS
  <2>2. file \in [Files -> Config \cup {Absent}] /\ s \in Files /\ s # Default
    BY ConfigAssumption DEF IInv, TypeOK, ConfigTypeOK, Files
  <2>3. ASSUME NEW e \in Editor, NEW c \in calls[e], PutDone(e, c) PROVE Excused(s, f)
    <3>1. c.kind = "save" /\ c.pc = "read"
          /\ file' = [file EXCEPT ![c.serial] = Encrypted(ToConfig(c.form), c.prev)]
      BY <2>3 DEF PutDone
    <3>2. c \in Call /\ CallSound(c) BY Types DEF IInv, CallsSound
    <3>3. c.serial = s BY <2>1, <2>2, <3>1
    <3>4. file'[s] = Encrypted(ToConfig(c.form), c.prev) BY <2>2, <3>1, <3>3
    <3>5. c.form.base = c.prev /\ c.prev = file[s] /\ ~file[s].bom
          /\ (f # "DOMAINPASS" \/ c.form.join)
          => file'[s].secret[f] = Seal(c.form.typed[f])
      BY <2>2, <3>1, <3>2, <3>4, SaveLoses
    <3> QED BY <3>1, <3>3, <3>5
  <2>4. ASSUME NEW e \in Editor, NEW c \in calls[e], DeleteDone(e, c) PROVE FALSE
    BY <2>1, <2>2, <2>4 DEF DeleteDone
  <2>5. ASSUME NEW p \in Password, ReplaceDefault(p) PROVE FALSE
    BY <2>1, <2>2, <2>5 DEF ReplaceDefault
  <2>6. CASE file' = file BY <2>1, <2>6
  <2> HIDE DEF Lost, Excused
  <2> QED
    BY <2>3, <2>4, <2>5, <2>6
       DEF Next, User, Answer, Machine, Rest, vars, Refresh, OpenEdit, OpenNew, Cancel, Set, Save,
           Remove, Fails, Abandoned, Listed, Loaded, ServerReads
<1> QED BY <1>1, Invariance, PTL DEF Spec, SecretsKept

-----------------------------------------------------------------------------
(* A form that nobody touched *)

\* It says what it was loaded with.
FormFresh(fm) ==
    ~fm.touched => /\ fm.typed = Nowhere
                   /\ fm.base # Absent => fm.join = fm.base.join /\ fm.domain = fm.base.join

\* A save sends such a form.
FormSent(c) == c.kind = "save" /\ c.pc # "list" => FormFresh(c.form)

FreshInv ==
    /\ \A e \in Editor : form[e] # Absent => FormFresh(form[e])
    /\ \A e \in Editor : \A c \in calls[e] : FormSent(c)

\* The forms that open are fresh; one that is edited has been touched.
LEMMA OpenedFresh ==
    /\ FormFresh(EMPTY)
    /\ \A s \in Serial, c \in Config : FormFresh(FromConfig(s, Mask(c), c))
    /\ \A fm \in Form : FormFresh([fm EXCEPT !.touched = TRUE])
<1>1. FormFresh(EMPTY) BY DEF EMPTY, FormFresh
<1>2. ASSUME NEW s \in Serial, NEW c \in Config PROVE FormFresh(FromConfig(s, Mask(c), c))
  <2>1. Mask(c).join = c.join BY DEF Mask, Config
  <2>2. /\ FromConfig(s, Mask(c), c).typed = Nowhere
        /\ FromConfig(s, Mask(c), c).base = c
        /\ FromConfig(s, Mask(c), c).join = c.join
        /\ FromConfig(s, Mask(c), c).domain = c.join
    BY <2>1 DEF FromConfig
  <2> QED BY <2>2 DEF FormFresh
<1>3. \A fm \in Form : FormFresh([fm EXCEPT !.touched = TRUE]) BY DEF Form, FormFresh
<1> QED BY <1>1, <1>2, <1>3

\* An edit leaves a touched form.
LEMMA EditedFresh ==
    ASSUME NEW e \in Editor, Set(e), form[e] \in Form
    PROVE  \E new \in Form : FormFresh(new) /\ form' = [form EXCEPT ![e] = new]
<1> DEFINE fm == form[e]
<1>1. PICK new : form' = [form EXCEPT ![e] = [new EXCEPT !.touched = TRUE]] /\ new \in Form
  <2>1. \A s \in Serial : [fm EXCEPT !.serial = s] \in Form BY DEF Form
  <2>2. ASSUME NEW f \in Field, NEW p \in Password PROVE [fm EXCEPT !.typed[f] = p] \in Form
    <3>1. [fm.typed EXCEPT ![f] = p] \in [Field -> Password \cup {Absent}] BY DEF Form
    <3>2. [fm EXCEPT !.typed[f] = p] = [fm EXCEPT !.typed = [fm.typed EXCEPT ![f] = p]] OBVIOUS
    <3> QED BY <3>1, <3>2 DEF Form
  <2>3. \A b \in BOOLEAN : [fm EXCEPT !.join = b] \in Form /\ [fm EXCEPT !.domain = b] \in Form
    BY DEF Form
  <2>4. (~fm.join) \in BOOLEAN /\ (~fm.domain) \in BOOLEAN BY Zenon
  <2>5. [fm EXCEPT !.join = ~fm.join] \in Form /\ [fm EXCEPT !.domain = ~fm.domain] \in Form
    BY <2>3, <2>4, Zenon
  <2> QED BY <2>1, <2>2, <2>5, Zenon DEF Set, Edited
<1>2. [new EXCEPT !.touched = TRUE] \in Form BY <1>1 DEF Form
<1> QED BY <1>1, <1>2, OpenedFresh

\* Forms open fresh, are touched by edits, and are saved as they are.
LEMMA FreshStep ==
    ASSUME IInv, FreshInv, [Next]_vars
    PROVE  FreshInv'
<1> USE DEF FreshInv
<1>0. /\ form \in [Editor -> Form \cup {Absent}] /\ calls \in [Editor -> SUBSET Call]
      /\ CallsSound
  BY Types DEF IInv
<1>f. ASSUME NEW e \in Editor, NEW new, new # Absent => FormFresh(new),
             form' = [form EXCEPT ![e] = new]
      PROVE  \A x \in Editor : form'[x] # Absent => FormFresh(form'[x])
  BY <1>0, <1>f
<1>c. ASSUME NEW e \in Editor, NEW new, calls' = [calls EXCEPT ![e] = new],
             \A c \in new \ calls[e] : FormSent(c)
      PROVE  \A x \in Editor : \A c \in calls'[x] : FormSent(c)
  BY <1>0, <1>c
<1>n. \A kind, s, pc, fm : kind # "save" \/ pc = "list" => FormSent(NewCall(kind, s, pc, fm))
  BY DEF NewCall, FormSent
<1>1. ASSUME NEW e \in Editor, User(e) PROVE FreshInv'
  <2>1. CASE Refresh(e) BY <1>0, <1>c, <1>n, <2>1 DEF Refresh, Call1
  <2>2. ASSUME NEW s \in Serial, OpenEdit(e, s) \/ Remove(e, s) PROVE FreshInv'
    BY <1>0, <1>c, <1>n, <2>2 DEF OpenEdit, Remove, Call1
  <2>3. CASE OpenNew(e) BY <1>f, <2>3, OpenedFresh DEF OpenNew
  <2>4. CASE Cancel(e) BY <1>f, <2>4 DEF Cancel
  <2>5. CASE Set(e)
    <3>1. form[e] \in Form BY <1>0, <2>5 DEF Set
    <3> QED BY <1>f, <2>5, <3>1, EditedFresh DEF Set
  <2>6. CASE Save(e)
    <3>1. CASE UNCHANGED calls BY <2>6, <3>1 DEF Save
    <3>2. CASE ~UNCHANGED calls
      <4> DEFINE new == NewCall("save", form[e].serial, "send", form[e])
      <4>1. calls' = [calls EXCEPT ![e] = calls[e] \cup {new}] BY <2>6, <3>2 DEF Save, Call1
      <4>2. new.form = form[e] /\ FormFresh(form[e]) BY <2>6 DEF NewCall, Save
      <4>3. FormSent(new) BY <4>2 DEF FormSent
      <4> HIDE DEF new
      <4> QED BY <1>c, <2>6, <4>1, <4>3 DEF Save
    <3> QED BY <3>1, <3>2
  <2> QED BY <1>1, <2>1, <2>2, <2>3, <2>4, <2>5, <2>6 DEF User
<1>2. ASSUME NEW e \in Editor, NEW c \in calls[e], Answer(e, c) PROVE FreshInv'
  <2>0. c \in Call /\ CallSound(c) BY <1>0 DEF CallsSound
  <2>1. ASSUME calls' = [calls EXCEPT ![e] = @ \ {c}]
        PROVE  \A x \in Editor : \A d \in calls'[x] : FormSent(d)
    BY <1>c, <2>1
  <2>2. CASE Fails(e, c) \/ Listed(e, c) BY <2>1, <2>2 DEF Fails, Listed, Over, Unheard
  <2>3. CASE Loaded(e, c)
    <3>1. c.serial \in Serial /\ c.prev \in Config
      BY <2>0, <2>3 DEF Loaded, CallSound, Call
    <3> QED BY <1>f, <2>1, <2>3, <3>1, OpenedFresh DEF Loaded
  <2>4. CASE ServerReads(e, c)
    <3> DEFINE new == [c EXCEPT !.pc = "read", !.prev = file[c.serial]]
    <3>1. new.form = c.form /\ new.kind = c.kind /\ c.pc = "send" BY <2>0, <2>4 DEF Call, ServerReads
    <3>2. calls' = [calls EXCEPT ![e] = (calls[e] \ {c}) \cup {new}] /\ form' = form
      BY <2>4 DEF ServerReads
    <3>3. FormSent(new) BY <3>1 DEF FormSent
    <3> HIDE DEF new
    <3> QED BY <1>c, <3>2, <3>3
  <2>5. CASE PutDone(e, c) \/ DeleteDone(e, c)
    <3>1. CASE Relist(e, c)
      <4> DEFINE new == NewCall(c.kind, c.serial, "list", Absent)
      <4>1. calls' = [calls EXCEPT ![e] = (calls[e] \ {c}) \cup {new}] BY <3>1 DEF Relist
      <4>2. FormSent(new) BY <1>n
      <4> HIDE DEF new
      <4>3. \A x \in Editor : \A d \in calls'[x] : FormSent(d) BY <1>c, <4>1, <4>2
      <4>4. form' = form \/ form' = [form EXCEPT ![e] = Absent] BY <2>5 DEF PutDone, DeleteDone, Unheard
      <4> QED BY <1>f, <4>3, <4>4
    <3>2. CASE Over(e, c, FALSE) \/ Unheard(e, c)
      <4>1. form' = form \/ form' = [form EXCEPT ![e] = Absent]
        BY <2>5 DEF PutDone, DeleteDone, Unheard
      <4> QED BY <1>f, <2>1, <3>2, <4>1 DEF Over, Unheard
    <3> QED BY <2>5, <3>1, <3>2 DEF PutDone, DeleteDone
  <2>6. CASE Abandoned(e, c)
    <3> DEFINE new == [c EXCEPT !.awaited = FALSE]
    <3>1. new.form = c.form /\ new.kind = c.kind /\ new.pc = c.pc BY <2>0 DEF Call
    <3>2. calls' = [calls EXCEPT ![e] = (calls[e] \ {c}) \cup {new}] /\ form' = form
      BY <2>6 DEF Abandoned
    <3>3. FormSent(new) BY <3>1 DEF FormSent
    <3> HIDE DEF new
    <3> QED BY <1>c, <3>2, <3>3
  <2> QED BY <1>2, <2>2, <2>3, <2>4, <2>5, <2>6 DEF Answer
<1>3. CASE UNCHANGED <<form, calls>> BY <1>3
<1> QED
  BY <1>1, <1>2, <1>3 DEF Next, Machine, ReplaceDefault, Rest, vars, ui

\* The round trip of one file: masked into flags, sent as sentinels, merged back.
LEMMA RoundTrip ==
    ASSUME NEW fm \in Form, FormSound(fm), FormFresh(fm), ~fm.touched,
           NEW old \in Config \ {Absent}, fm.base = old, ~old.bom,
           old.join \/ old.secret["DOMAINPASS"] = Absent
    PROVE  Encrypted(ToConfig(fm), old) = old
<1>1. fm.join = old.join /\ fm.domain = old.join /\ old.join \in BOOLEAN
      /\ \A f \in Field : fm.typed[f] = Absent
  BY DEF FormFresh, Nowhere, Config
<1>2. ASSUME NEW f \in Field PROVE Encrypted(ToConfig(fm), old).secret[f] = old.secret[f]
  <2> DEFINE in == ToConfig(fm).secret[f]
             kept == old.secret[f]
  <2>1. in \in Password \cup {Absent, Keep} /\ kept \in Stored \cup {Absent}
    BY ToConfigSecret, ConfigSecret
  <2>2. Encrypted(ToConfig(fm), old).secret[f] = ResolveSecret(in, kept) BY EncryptedType, PrevUnattendType
  <2>3. fm.set[f] \in BOOLEAN /\ (fm.set[f] <=> kept # Absent)
    BY ToConfigSecret DEF FormSound
  <2>4. CASE f = "DOMAINPASS" /\ ~fm.join
    <3>1. in = Absent BY <2>4 DEF ToConfig
    <3>2. kept = Absent BY <1>1, <2>4
    <3>3. ResolveSecret(in, kept) = kept
      <4> HIDE DEF in, kept
      <4> QED BY <2>1, <3>1, <3>2, ResolveSecretCases
    <3> QED BY <2>2, <3>3
  <2>5. CASE f # "DOMAINPASS" \/ fm.join
    <3>1. in = IF fm.set[f] THEN Keep ELSE Absent BY <1>1, <2>5, ToConfigSecret DEF SecretOut
    <3>2. ResolveSecret(in, kept) = kept
      <4> HIDE DEF in, kept
      <4> QED BY <2>1, <2>3, <3>1, ResolveSecretCases
    <3> QED BY <2>2, <3>2
  <2> QED BY <2>4, <2>5
<1>3. Encrypted(ToConfig(fm), old) \in Config BY EncryptedType
<1>4. Encrypted(ToConfig(fm), old).join = old.join /\ Encrypted(ToConfig(fm), old).bom = old.bom
  <2>1. ToConfig(fm).join = (fm.join /\ fm.domain) BY DEF ToConfig
  <2>2. ToConfig(fm).join = old.join BY <1>1, <2>1
  <2>3. old.bom = FALSE BY DEF Config
  <2> QED BY <2>2, <2>3 DEF Encrypted, ToConfig
<1> QED BY <1>2, <1>3, <1>4 DEF Config

\* A call ends with an answer to it.
LEMMA CallEnds ==
    ASSUME TypeOK, [Next]_vars, NEW e \in Editor, NEW c \in calls[e], c \notin calls'[e]
    PROVE  Answer(e, c)
<1>1. calls \in [Editor -> SUBSET Call] BY DEF TypeOK
<1>2. ASSUME NEW x \in Editor, NEW new, calls' = [calls EXCEPT ![x] = @ \cup new] PROVE FALSE
  BY <1>1, <1>2
<1>3. ASSUME NEW x \in Editor, User(x) PROVE FALSE
  <2>1. CASE UNCHANGED calls BY <2>1
  <2>2. CASE \E d : Call1(x, d) BY <1>2, <2>2 DEF Call1
  <2> QED BY <1>3, <2>1, <2>2 DEF User, Refresh, OpenEdit, OpenNew, Cancel, Set, Save, Remove
<1>4. ASSUME NEW x \in Editor, NEW d \in calls[x], Answer(x, d) PROVE Answer(e, c)
  <2>1. PICK new : calls' = [calls EXCEPT ![x] = (@ \ {d}) \cup new]
    <3>1. ASSUME calls' = [calls EXCEPT ![x] = @ \ {d}]
          PROVE  calls' = [calls EXCEPT ![x] = (@ \ {d}) \cup {}]
      BY <3>1
    <3> QED
      BY <1>4, <3>1
         DEF Answer, Fails, Abandoned, Unheard, Listed, Loaded, ServerReads, PutDone, DeleteDone, Over, Relist
  <2>2. x = e /\ d = c BY <1>1, <2>1
  <2> QED BY <1>4, <2>2
<1> QED BY <1>3, <1>4 DEF Next, Machine, ReplaceDefault, Rest, vars, ui

\* A form saved as it was loaded writes what it was loaded from, unless the file
\* stores a domain password and joins no domain or begins with a byte-order mark.
THEOREM UntouchedCorrect == Spec => UntouchedRoundTrip
<1>1. Init => FreshInv BY DEF Init, FreshInv
<1>2. IInv /\ FreshInv /\ [Next]_vars => FreshInv' BY FreshStep
<1>3. IInv /\ FreshInv /\ [Next]_vars =>
        [\A e \in Editor : \A c \in calls[e] :
           LET old == file[c.serial] IN
           /\ c.kind = "save" /\ c.pc = "read" /\ ~c.form.touched /\ c \notin calls'[e]
           /\ old # Absent /\ c.form.base = old /\ c.prev = old
           /\ ~old.bom /\ (old.join \/ old.secret["DOMAINPASS"] = Absent)
           => file'[c.serial] = old]_vars
  <2> SUFFICES ASSUME IInv, FreshInv, [Next]_vars, NEW e \in Editor, NEW c \in calls[e],
                      c.kind = "save", c.pc = "read", ~c.form.touched, c \notin calls'[e],
                      file[c.serial] # Absent, c.form.base = file[c.serial],
                      c.prev = file[c.serial], ~file[c.serial].bom,
                      file[c.serial].join \/ file[c.serial].secret["DOMAINPASS"] = Absent
               PROVE  file'[c.serial] = file[c.serial]
    OBVIOUS
  <2> DEFINE old == file[c.serial]
  <2>1. /\ c \in Call /\ CallSound(c) /\ calls \in [Editor -> SUBSET Call]
        /\ file \in [Files -> Config \cup {Absent}]
    BY Types DEF IInv, CallsSound, ConfigTypeOK
  <2>2. /\ c.serial \in Files /\ c.form \in Form /\ FormSound(c.form)
        /\ old \in Config \ {Absent}
    BY <2>1 DEF CallSound, Files
  <2>3. FormFresh(c.form) BY DEF FreshInv, FormSent
  <2>4. Encrypted(ToConfig(c.form), old) = old BY <2>2, <2>3, RoundTrip
  <2>5. Fails(e, c) \/ Abandoned(e, c) \/ PutDone(e, c)
    <3>1. Answer(e, c) BY CallEnds DEF IInv
    <3> QED BY <3>1 DEF Answer, Listed, Loaded, ServerReads, DeleteDone
  <2> QED BY <2>1, <2>2, <2>4, <2>5 DEF Fails, Abandoned, PutDone
<1> QED BY <1>1, <1>2, <1>3, Invariance, PTL DEF Spec, UntouchedRoundTrip
=============================================================================
