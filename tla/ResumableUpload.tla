-------------------------- MODULE ResumableUpload --------------------------
(***************************************************************************)
(* One call of resumableUpload (admin/web/src/upload.ts), uploading version *)
(* Mine, against the handlers of PayloadStore.  Requests and answers may be *)
(* lost: the browser then sees a network error while the handler it had     *)
(* reached runs on, notices the dropped connection later, or finishes.      *)
(***************************************************************************)
EXTENDS PayloadStore

CONSTANTS
    Mine,         \* the version this call uploads
    Previous,     \* the version under the target's name before, or Absent
    MAX_ATTEMPTS, \* the bound of the retry loop
    MaxDrops      \* bound on requests and answers lost

ASSUME ClientAssumption ==
    /\ Mine \in File
    /\ Previous \in File \cup {Absent}
    /\ MAX_ATTEMPTS \in Nat \ {0}
    /\ MaxDrops \in Nat

VARIABLES
    pc,       \* where resumableUpload stands
    attempt,  \* its loop counter
    offset,   \* state.offset, the last offset the server confirmed
    slot,     \* the request it waits for, or Absent
    drops,    \* losses so far
    strays,   \* history: changes lost handlers made to the staged file, see Serve
    beside    \* history: has a PATCH gone to work beside a lost one?

client == <<pc, attempt, offset, slot, drops>>
history == <<strays, beside>>
allvars == <<vars, client, history>>

\* Resolved; thrown by the loop; rejected by a head() outside its try.
Outcomes == {"done", "failed", "rejected"}

Stop(outcome) == pc' = outcome /\ UNCHANGED <<attempt, offset>>

\* Faulty variants of NextAttempt: the confirmed offset is added to the old
\* one, or ignored.
NextAttemptAdds(off) ==
    /\ attempt' = attempt + 1
    /\ offset' = offset + off
    /\ pc' = IF attempt + 1 < MAX_ATTEMPTS THEN "patch" ELSE "failed"
NextAttemptStale(off) ==
    /\ attempt' = attempt + 1
    /\ offset' = offset
    /\ pc' = IF attempt + 1 < MAX_ATTEMPTS THEN "patch" ELSE "failed"

\* The loop goes round: for (...; attempt < MAX_ATTEMPTS; attempt++)
NextAttempt(off) ==
    /\ attempt' = attempt + 1
    /\ offset' = off
    /\ pc' = IF attempt + 1 < MAX_ATTEMPTS THEN "patch" ELSE "failed"

-----------------------------------------------------------------------------
(* Sending *)

SendHead(r) ==
    /\ pc \in {"head", "resync"} /\ slot = Absent
    /\ HeadArrive(r)
    /\ slot' = r
    /\ UNCHANGED <<pc, attempt, offset, drops, history>>

\* Nothing holds a PATCH back: a handler the client has lost may be at work still.
SendPatch(r) ==
    /\ pc = "patch" /\ slot = Absent
    /\ PatchStat(r, Mine, offset)
    /\ slot' = r
    /\ beside' = \/ beside
                 \/ Running(r)' /\ \E q \in Req : Running(q) /\ req[q].op = "patch"
    /\ UNCHANGED <<pc, attempt, offset, drops, strays>>

-----------------------------------------------------------------------------
(* Receiving *)

\* await head(url): complete means success at once, else the loop starts or
\* goes round with the offset of the answer.
HeadAnswered ==
    /\ pc \in {"head", "resync"} /\ slot # Absent
    /\ req[slot].pc = "replied"
    /\ Deliver(slot)
    /\ slot' = Absent
    /\ \/ req[slot].says = "complete" /\ Stop("done")
       \/ /\ req[slot].says # "complete" /\ pc = "head"
          /\ pc' = "patch" /\ offset' = req[slot].off /\ UNCHANGED attempt
       \/ /\ req[slot].says # "complete" /\ pc = "resync"
          /\ NextAttempt(req[slot].off)
    /\ UNCHANGED <<drops, history>>

\* A 2xx answer finishes the upload or moves on to the remainder.
PatchAccepted ==
    /\ pc = "patch" /\ slot # Absent
    /\ req[slot].pc = "replied" /\ req[slot].status \in {200, 204}
    /\ Deliver(slot)
    /\ slot' = Absent
    /\ IF req[slot].says = "complete" \/ req[slot].off >= Length[Mine]
       THEN Stop("done")
       ELSE NextAttempt(req[slot].off)
    /\ UNCHANGED <<drops, history>>

\* Faulty variant of PatchConflict: a staged file of full size passes for done.
PatchConflictDone ==
    /\ pc = "patch" /\ slot # Absent
    /\ req[slot].pc = "replied" /\ req[slot].status = 409
    /\ Deliver(slot)
    /\ slot' = Absent
    /\ Stop(IF req[slot].off >= Length[Mine] THEN "done" ELSE "resync")
    /\ UNCHANGED <<drops, history>>

\* A 409 falls through to the resync.
PatchConflict ==
    /\ pc = "patch" /\ slot # Absent
    /\ req[slot].pc = "replied" /\ req[slot].status = 409
    /\ Deliver(slot)
    /\ slot' = Absent
    /\ Stop("resync")
    /\ UNCHANGED <<drops, history>>

\* catch (e): the last attempt rethrows, the others back off and resync.
Caught == Stop(IF attempt = MAX_ATTEMPTS - 1 THEN "failed" ELSE "resync")

\* Any other status is thrown.
PatchRejected ==
    /\ pc = "patch" /\ slot # Absent
    /\ req[slot].pc = "replied" /\ req[slot].status \notin {200, 204, 409}
    /\ Deliver(slot)
    /\ slot' = Absent
    /\ Caught
    /\ UNCHANGED <<drops, history>>

\* A PATCH that never arrives, or whose connection breaks while the client
\* waits: xhr.onerror.
PatchLost ==
    /\ pc = "patch" /\ drops < MaxDrops
    /\ drops' = drops + 1
    /\ slot' = Absent
    /\ Caught
    /\ UNCHANGED <<vars, history>>

\* A HEAD that fails: no catch surrounds either call of head().
HeadLost ==
    /\ pc \in {"head", "resync"} /\ drops < MaxDrops
    /\ drops' = drops + 1
    /\ slot' = Absent
    /\ Stop("rejected")
    /\ UNCHANGED <<vars, history>>

\* A HEAD answered by something else than the handler (head() does not look at
\* r.ok): no headers, so num(null) reads as offset 0.
HeadWithoutHeaders ==
    /\ pc \in {"head", "resync"} /\ slot = Absent /\ drops < MaxDrops
    /\ drops' = drops + 1
    /\ IF pc = "head"
       THEN pc' = "patch" /\ offset' = 0 /\ UNCHANGED attempt
       ELSE NextAttempt(0)
    /\ UNCHANGED <<vars, slot, history>>

\* The pod restarts: every connection breaks.
Restart ==
    /\ Crash
    /\ slot' = Absent
    /\ IF slot = Absent
       THEN UNCHANGED <<pc, attempt, offset>>
       ELSE IF pc = "patch" THEN Caught ELSE Stop("rejected")
    /\ UNCHANGED <<drops, history>>

\* An answer nobody waits for any more.
Discard(r) ==
    /\ r # slot
    /\ Deliver(r)
    /\ UNCHANGED <<client, history>>

-----------------------------------------------------------------------------
\* A body only breaks off when its connection does; a complete one is read to
\* its end (the client sends the rest of the file in one PATCH).
Serve(r) ==
    /\ \/ PatchOpen(r) \/ PatchAppend(r) \/ PatchHash(r) \/ PatchRename(r)
       \/ PatchEnd(r) /\ req[r].n >= Length[Mine]
       \/ PatchDrop(r) /\ r # slot
       \/ PatchWriteFails(r)
       \/ SideTruncate(r) \/ SideWrite(r) \/ SideFail(r)
       \/ HeadPart(r)
    /\ strays' = IF r # slot /\ SizeOf(part)' # SizeOf(part) /\ strays < MAX_ATTEMPTS
                 THEN strays + 1 ELSE strays
    /\ UNCHANGED <<client, beside>>

UInit ==
    /\ faults = 0
    /\ req = [r \in Req |-> Idle]
    /\ IF Previous = Absent
       THEN dest = Absent /\ side = Absent
       ELSE dest \in Inode /\ side = Body(Previous)
    /\ part \in (Inode \ {dest}) \cup {Absent}
    /\ \E k \in 0..Length[Mine] :
          inode = [i \in Inode |-> IF i = dest THEN side
                                   ELSE IF i = part THEN Piece(Mine, k) ELSE <<>>]
    /\ pc = "head" /\ attempt = 0 /\ offset = 0 /\ slot = Absent /\ drops = 0
    /\ strays = 0 /\ beside = FALSE

Finished == pc \in Outcomes /\ (\A r \in Req : req[r].pc = "idle") /\ UNCHANGED allvars

UNext ==
    \/ \E r \in Req : SendHead(r) \/ SendPatch(r) \/ Serve(r) \/ Discard(r)
    \/ HeadAnswered \/ PatchAccepted \/ PatchConflict \/ PatchRejected
    \/ PatchLost \/ HeadLost \/ HeadWithoutHeaders \/ Restart
    \/ Finished

\* The browser goes on by itself, and so does every handler it has reached; the
\* environment need not lose anything.
Fairness ==
    /\ WF_allvars(HeadAnswered) /\ WF_allvars(PatchAccepted)
    /\ WF_allvars(PatchConflict) /\ WF_allvars(PatchRejected)
    /\ WF_allvars(\E r \in Req : SendHead(r)) /\ WF_allvars(\E r \in Req : SendPatch(r))
    /\ \A r \in Req : WF_allvars(Serve(r)) /\ WF_allvars(Discard(r))

USpec == UInit /\ [][UNext]_allvars /\ Fairness

-----------------------------------------------------------------------------
(* What resumableUpload promises *)

ClientTypeOK ==
    /\ TypeOK
    /\ pc \in {"head", "patch", "resync"} \cup Outcomes
    /\ attempt \in 0..MAX_ATTEMPTS
    /\ offset \in Nat /\ (offset <= Length[Mine] \/ beside)
    /\ slot \in Req \cup {Absent}
    /\ drops \in 0..MaxDrops
    /\ strays \in 0..MAX_ATTEMPTS /\ beside \in BOOLEAN

\* When the promise resolves, the target shows exactly the uploaded version,
\* whatever was lost, restarted or retried on the way, unless a PATCH of the retry
\* was let in beside one of a lost handler that had not ended (store_zombie shows
\* what the two of them may publish).
SuccessMeansPublished ==
    pc = "done" /\ ~beside => dest # Absent /\ inode[dest] = Body(Mine)

\* The offset the client believes in never exceeds what is staged, until the
\* target is published, whatever handler it has lost touch with is still at work:
\* a resume sends bytes again at worst and never skips any ("resumes from the
\* server's confirmed offset").
OffsetStaged == dest # Absent \/ offset <= SizeOf(part)

\* A loss the loop has already begun to recover from does not end the call
\* ("tolerates transient drops with bounded, backing-off retries"): the HEAD
\* that resyncs the offset may be retried like the PATCH.
ResyncSurvivesDrops == [][pc = "resync" => pc' # "rejected"]_allvars

\* An attempt is only ever spent on a lost request, a failed write, a restart, or a
\* change that a lost handler made to the staged file behind the client's back (which
\* makes a 409 of its next PATCH): while these are fewer than the attempts, the
\* upload gets through, unless a HEAD was lost.
UploadSucceeds ==
    <>(pc \in {"done", "rejected"} \/ drops + faults + strays >= MAX_ATTEMPTS)
=============================================================================
