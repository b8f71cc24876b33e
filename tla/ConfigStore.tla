---------------------------- MODULE ConfigStore ----------------------------
(***************************************************************************)
(* The machine configurations on the volume: how the admin backend masks   *)
(* and seals their secrets (admin/secret.go, the config handlers of        *)
(* admin/main.go), and how windep-api resolves one for a machine in WinPE  *)
(* (api/config.go, api/resolve.go).                                        *)
(*                                                                         *)
(* Of a configuration the model keeps what decides about credentials:      *)
(* whether JOINDOMAIN is set, the two secret fields, and whether the file  *)
(* begins with a byte-order mark (one edited in Notepad).  A sealed secret  *)
(* is an envelope of its password that only the key opens.                 *)
(***************************************************************************)
EXTENDS Naturals, FiniteSets

CONSTANTS
    Serial,     \* machines
    Default,    \* default.json
    Password,
    Absent,     \* no file, a missing field (neither writer stores an empty one)
    Keep,       \* the sentinel "__KEEP__"
    HasKey,     \* is CONFIG_KEY set, in both services?
    PolicyUrl   \* is POLICY_URL set?

ASSUME ConfigAssumption ==
    /\ Default \notin Serial
    /\ {Absent, Keep} \cap Password = {} /\ Absent # Keep
    /\ {HasKey, PolicyUrl} \subseteq BOOLEAN

Field == {"LOCALADMINPASS", "DOMAINPASS"}
Stored == [form: {"sealed", "plain"}, pass: Password]
Config == [join: BOOLEAN, bom: BOOLEAN, secret: [Field -> Stored \cup {Absent}]]
Nowhere == [f \in Field |-> Absent]
Files == Serial \cup {Default}

VARIABLES
    file,   \* the configuration files
    rq      \* a request to /api/ztp/resolve

-----------------------------------------------------------------------------
(* Secrets *)

\* What the browser gets to see: a byte-order mark is trimmed.
Mask(c) ==
    [c EXCEPT !.bom = FALSE,
              !.secret = [f \in Field |-> IF c.secret[f] = Absent THEN Absent ELSE Keep]]

Seal(p) == [form |-> IF HasKey THEN "sealed" ELSE "plain", pass |-> p]

\* Faulty variant of ResolveSecret: the sentinel is sealed like a password.
ResolveSecretStores(in, prev) == IF in = Absent THEN Absent ELSE Seal(in)

ResolveSecret(in, prev) ==
    IF in = Keep THEN prev ELSE IF in = Absent THEN Absent ELSE Seal(in)

\* The secrets of the file replaced: a byte-order mark is not trimmed here, such
\* a file does not parse and has none.
PrevUnattend(prev) == IF prev = Absent \/ prev.bom THEN Nowhere ELSE prev.secret

\* Faulty variant of Encrypted: every kept field is that of the first one.
EncryptedCross(new, prev) ==
    [new EXCEPT !.secret =
        [f \in Field |-> ResolveSecret(new.secret[f], PrevUnattend(prev)["LOCALADMINPASS"])]]

\* The file to store for a submitted configuration, given the one it replaces.
Encrypted(new, prev) ==
    [new EXCEPT !.secret =
        [f \in Field |-> ResolveSecret(new.secret[f], PrevUnattend(prev)[f])]]

\* The per-machine file over default.json, key by key.
Merged(def, per) ==
    [join |-> per.join \/ (def # Absent /\ def.join), bom |-> FALSE,
     secret |-> [f \in Field |-> IF per.secret[f] = Absent /\ def # Absent
                                 THEN def.secret[f] ELSE per.secret[f]]]

Decryptable(c) == HasKey \/ \A f \in Field : c.secret[f] = Absent \/ c.secret[f].form = "plain"
Decrypted(c) ==
    [c EXCEPT !.secret = [f \in Field |->
        IF c.secret[f] = Absent THEN Absent ELSE [form |-> "plain", pass |-> c.secret[f].pass]]]

-----------------------------------------------------------------------------
(* Resolution: two reads, one question to the policy engine *)

Idle == [pc |-> "idle", serial |-> Absent, per |-> Absent, cfg |-> Absent,
         status |-> 0, decision |-> "none"]

Resolve == [pc: {"idle", "per", "def", "policy", "answered"}, serial: Serial \cup {Absent},
            per: Config \cup {Absent}, cfg: Config \cup {Absent},
            status: {0, 200, 403, 404, 500}, decision: {"none", "allow", "deny", "unclear"}]

Answered(status) == [rq EXCEPT !.pc = "answered", !.status = status, !.per = Absent,
                               !.cfg = IF status = 200 THEN @ ELSE Absent]

\* Faulty variant of EvalPolicy: no answer passes for an allow.
EvalPolicyOpen(decision) == ~PolicyUrl \/ decision # "deny"

\* Fail-closed: unreachable, not 2xx, unparsable or empty is no allow.
EvalPolicy(decision) == ~PolicyUrl \/ decision = "allow"

AskConfig(s) ==
    /\ rq.pc = "idle"
    /\ rq' = [rq EXCEPT !.pc = "per", !.serial = s]

ReadMachine ==
    /\ rq.pc = "per"
    /\ rq' = IF file[rq.serial] = Absent THEN Answered(404)
             ELSE [rq EXCEPT !.pc = "def", !.per = file[rq.serial]]

ReadDefault ==
    /\ rq.pc = "def"
    /\ LET merged == Merged(file[Default], rq.per) IN
       rq' = IF Decryptable(merged)
             THEN [rq EXCEPT !.pc = "policy", !.per = Absent, !.cfg = Decrypted(merged)]
             ELSE Answered(500)

Decide ==
    /\ rq.pc = "policy"
    /\ \E d \in {"allow", "deny", "unclear"} :
          rq' = [Answered(IF EvalPolicy(d) THEN 200 ELSE 403) EXCEPT !.decision = d]

\* The types of the files and of the request (part of MachinesTab's TypeOK).
ConfigTypeOK ==
    /\ file \in [Files -> Config \cup {Absent}]
    /\ rq \in Resolve
=============================================================================
