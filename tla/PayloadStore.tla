---------------------------- MODULE PayloadStore ----------------------------
(***************************************************************************)
(* The payload file store of the admin backend (admin/main.go): one upload *)
(* target, with the three names the handlers derive from its path - the    *)
(* published file, its ".part" staging temp and its ".sha256" sidecar -    *)
(* and the HTTP handlers that run on it.  Targets share no state (every    *)
(* name a handler touches comes from its own path), so one is enough.      *)
(*                                                                         *)
(* The handlers hold no lock: they meet only in the file system.  Each     *)
(* file-system call is one step, names are bound to inodes, and an open    *)
(* descriptor keeps its inode through a rename or an unlink.  A version of *)
(* a file is its sequence of blocks; a SHA-256 digest stands for the       *)
(* content it was computed from.                                           *)
(***************************************************************************)
EXTENDS Naturals, Sequences

CONSTANTS
    File,           \* versions of the file that clients upload to the target
    Length,         \* Length[f]: the size of version f, in blocks
    Inode,          \* inodes of the volume
    Req,            \* slots for requests in service
    Absent,         \* nothing: an unbound name, an absent checksum
    Blank,          \* a sidecar created or truncated, and not yet written
    Hole,           \* a block of zeros left by a write past the end of file
    Overlaps,       \* sets of changing operations that may be in service at once
    ForeignResume,  \* may a client resume what was staged for another version?
    MaxFaults       \* bound on crashes and failed writes

Block == (File \X (Nat \ {0})) \cup {Hole}
Content == Seq(Block)

ASSUME StoreAssumption ==
    /\ Length \in [File -> Nat]
    /\ Absent \notin Inode \cup Content \cup File
    /\ Blank \notin Content \cup {Absent}
    /\ Hole \notin File \X (Nat \ {0})
    /\ ForeignResume \in BOOLEAN
    /\ MaxFaults \in Nat

VARIABLES
    inode,   \* the content of every inode; a freed inode is empty
    dest,    \* the inode the final name is bound to
    part,    \* the inode the ".part" name is bound to
    side,    \* the ".sha256" sidecar: the digest in it
    req,     \* the handlers
    faults   \* crashes and failed writes so far

vars == <<inode, dest, part, side, req, faults>>

-----------------------------------------------------------------------------
(* Contents *)

Piece(f, k) == [i \in 1..k |-> <<f, i>>]
Body(f) == Piece(f, Length[f])
Versions == {Body(f) : f \in File}

\* write(2) of one block at position p (from 1): zeros fill the gap a
\* truncation by somebody else has left.
WriteAt(s, p, b) ==
    [i \in 1..(IF p > Len(s) THEN p ELSE Len(s)) |->
        IF i = p THEN b ELSE IF i <= Len(s) THEN s[i] ELSE Hole]

\* What a name shows: os.Stat(name).Size(), 0 when the name is unbound.
SizeOf(name) == IF name = Absent THEN 0 ELSE Len(inode[name])

-----------------------------------------------------------------------------
(* Requests *)

Ops == {"none", "patch", "put", "delete", "verify", "head", "get"}
Changing == {"patch", "put", "delete"}
PCs == {"idle", "open", "body", "hash", "stream", "cleanup", "rename",
        "sidecar", "sidewrite", "unlink", "unside", "statpart", "unpart",
        "expect", "digest", "headpart", "fetch", "send", "replied"}

\* Upload-Complete (1 or 0) and the verdict of a verification.
Says == {"none", "complete", "partial", "match", "mismatch"}

Request == [op: Ops, pc: PCs, file: File \cup {Absent}, n: Nat,
            fd: Inode \cup {Absent}, sum: Content \cup {Absent},
            status: Nat, off: Nat, says: Says]

Idle == [op |-> "none", pc |-> "idle", file |-> Absent, n |-> 0, fd |-> Absent,
         sum |-> Absent, status |-> 0, off |-> 0, says |-> "none"]

\* In service and not yet answered.
Running(r) == req[r].pc \notin {"idle", "replied"}
At(r, op, pc) == req[r].op = op /\ req[r].pc = pc

\* The changing operations that may be in service next to one of kind op.
MayStart(op) ==
    \A q \in Req : Running(q) /\ req[q].op \in Changing => {op, req[q].op} \in Overlaps

\* An inode is freed with its last name and its last descriptor.
Live(i) == i = dest \/ i = part \/ \E r \in Req : req[r].fd = i
Free == {i \in Inode : ~Live(i)}
Store(c) == inode' = [i \in Inode |-> IF Live(i)' THEN c[i] ELSE <<>>]

Become(r, new) == req' = [req EXCEPT ![r] = new]
\* A request arrives and goes into service; goes on; is answered.
Start(r, op, pc, f, n, fd) ==
    Become(r, [Idle EXCEPT !.op = op, !.pc = pc, !.file = f, !.n = n, !.fd = fd])
Goto(r, pc) == Become(r, [req[r] EXCEPT !.pc = pc])
Advance(r, pc, n, fd, sum) ==
    Become(r, [req[r] EXCEPT !.pc = pc, !.n = n, !.fd = fd, !.sum = sum])
Answer(r, op, status, off, says, sum) ==
    Become(r, [Idle EXCEPT !.op = op, !.pc = "replied", !.status = status,
                           !.off = off, !.says = says, !.sum = sum])
Reply(r, op, status) == Answer(r, op, status, 0, "none", Absent)

-----------------------------------------------------------------------------
(* PATCH: handleUploadResume, appendStream, finishUpload, finalizePart *)

Offsets == UNION {0..Length[f] : f \in File}

\* Faulty variant of PatchStat: a 409 echoes the offset of the request.
PatchStatEchoes(r, f, offset) ==
    /\ req[r].pc = "idle"
    /\ IF offset = SizeOf(part)
       THEN Start(r, "patch", "open", f, offset, Absent)
       ELSE Answer(r, "patch", 409, offset, "none", Absent)
    /\ UNCHANGED <<inode, dest, part, side, faults>>

\* The handler stats ".part": a wrong offset is answered 409 with the staged
\* size, whoever else is in service.
PatchStat(r, f, offset) ==
    /\ req[r].pc = "idle"
    /\ IF offset = SizeOf(part)
       THEN Start(r, "patch", "open", f, offset, Absent)
       ELSE Answer(r, "patch", 409, SizeOf(part), "none", Absent)
    /\ UNCHANGED <<inode, dest, part, side, faults>>

\* The discipline of a target's clients: an upload goes on beside those operations
\* only that Overlaps admits, and, unless ForeignResume holds, only on top of bytes
\* staged from the same version.
PatchArrive(r, f, offset) ==
    /\ offset = SizeOf(part) =>
         /\ MayStart("patch")
         /\ ~ForeignResume /\ part # Absent => inode[part] = Piece(f, SizeOf(part))
    /\ PatchStat(r, f, offset)

\* os.OpenFile(path, O_WRONLY|O_CREATE|O_APPEND)
PatchOpen(r) ==
    /\ At(r, "patch", "open")
    /\ \E i \in IF part = Absent THEN Free ELSE {part} :
        /\ part' = i
        /\ Advance(r, "body", req[r].n, i, Absent)
        /\ UNCHANGED <<dest, side, faults>>
        /\ Store([inode EXCEPT ![i] = IF part = Absent THEN <<>> ELSE @])

\* One block of the body, capped at the remaining length, goes to the end of
\* the open file, wherever its name points by now.
PatchAppend(r) ==
    LET fd == req[r].fd  k == req[r].n + 1 IN
    /\ At(r, "patch", "body")
    /\ k <= Length[req[r].file]
    /\ Advance(r, "body", k, fd, Absent)
    /\ UNCHANGED <<dest, part, side, faults>>
    /\ Store([inode EXCEPT ![fd] = WriteAt(@, Len(@) + 1, <<req[r].file, k>>)])

\* Faulty variant of PatchEnd: one block too early.
PatchEndEarly(r) ==
    /\ At(r, "patch", "body")
    /\ IF req[r].n + 1 < Length[req[r].file]
       THEN Answer(r, "patch", 204, req[r].n, "partial", Absent)
       ELSE Advance(r, "hash", req[r].n, Absent, Absent)
    /\ UNCHANGED <<dest, part, side, faults>>
    /\ Store(inode)

\* The body ends: an intermediate chunk is answered 204 with the new size, the
\* last one goes on to finishUpload.
PatchEnd(r) ==
    /\ At(r, "patch", "body")
    /\ IF req[r].n < Length[req[r].file]
       THEN Answer(r, "patch", 204, req[r].n, "partial", Absent)
       ELSE Advance(r, "hash", req[r].n, Absent, Absent)
    /\ UNCHANGED <<dest, part, side, faults>>
    /\ Store(inode)

\* Faulty variant of PatchDrop: the temp is removed, as saveStream does.
PatchDropRemoves(r) ==
    /\ At(r, "patch", "body")
    /\ Answer(r, "patch", 500, req[r].n, "none", Absent)
    /\ part' = Absent
    /\ UNCHANGED <<dest, side, faults>>
    /\ Store(inode)

\* The connection drops mid-body: what was written stays staged.
PatchDrop(r) ==
    /\ At(r, "patch", "body")
    /\ Answer(r, "patch", 500, req[r].n, "none", Absent)
    /\ UNCHANGED <<dest, part, side, faults>>
    /\ Store(inode)

\* A write or a Sync fails: the block may be in the file, it is not counted.
PatchWriteFails(r) ==
    LET fd == req[r].fd  k == req[r].n + 1 IN
    /\ At(r, "patch", "body")
    /\ faults < MaxFaults /\ faults' = faults + 1
    /\ Answer(r, "patch", 500, req[r].n, "none", Absent)
    /\ UNCHANGED <<dest, part, side>>
    /\ \/ Store(inode)
       \/ /\ k <= Length[req[r].file]
          /\ Store([inode EXCEPT ![fd] = WriteAt(@, Len(@) + 1, <<req[r].file, k>>)])

\* Faulty variant of PatchHash: the digest is that of the bytes the client meant.
PatchHashIntended(r) ==
    /\ At(r, "patch", "hash")
    /\ IF part = Absent
       THEN Answer(r, "patch", 500, req[r].n, "none", Absent)
       ELSE Advance(r, "rename", req[r].n, Absent, Body(req[r].file))
    /\ UNCHANGED <<inode, dest, part, side, faults>>

\* finalizePart hashes whatever the ".part" name shows now.
PatchHash(r) ==
    /\ At(r, "patch", "hash")
    /\ IF part = Absent
       THEN Answer(r, "patch", 500, req[r].n, "none", Absent)
       ELSE Advance(r, "rename", req[r].n, Absent, inode[part])
    /\ UNCHANGED <<inode, dest, part, side, faults>>

\* Faulty variant of Publish: a link, so that ".part" keeps naming the file.
PublishByLink(r) ==
    /\ part # Absent
    /\ dest' = part
    /\ Goto(r, "sidecar")
    /\ UNCHANGED <<part, side, faults>>
    /\ Store(inode)

\* os.Rename(tmp, dest): replaces dest atomically, fails when tmp is gone.
Publish(r) ==
    /\ part # Absent
    /\ dest' = part /\ part' = Absent
    /\ Goto(r, "sidecar")
    /\ UNCHANGED <<side, faults>>
    /\ Store(inode)

\* Faulty variant of PatchRename: no sidecar is written.
PatchRenameOnly(r) ==
    /\ At(r, "patch", "rename")
    /\ part # Absent
    /\ dest' = part /\ part' = Absent
    /\ Answer(r, "patch", 200, req[r].n, "complete", Absent)
    /\ UNCHANGED <<side, faults>>
    /\ Store(inode)

PatchRename(r) ==
    /\ At(r, "patch", "rename")
    /\ \/ Publish(r)
       \/ /\ part = Absent
          /\ Answer(r, "patch", 500, req[r].n, "none", Absent)
          /\ UNCHANGED <<inode, dest, part, side, faults>>

-----------------------------------------------------------------------------
(* writeSidecar, shared by PATCH and PUT: os.WriteFile truncates, then writes *)

Done(r) ==
    IF req[r].op = "patch" THEN Answer(r, "patch", 200, req[r].n, "complete", Absent)
                           ELSE Reply(r, "put", 201)

SideTruncate(r) ==
    /\ req[r].pc = "sidecar"
    /\ side' = Blank
    /\ Goto(r, "sidewrite")
    /\ UNCHANGED <<inode, dest, part, faults>>

\* The write goes to the open file: nowhere, if the name is gone by now.
SideWrite(r) ==
    /\ req[r].pc = "sidewrite"
    /\ side' = IF side = Absent THEN Absent ELSE req[r].sum
    /\ Done(r)
    /\ UNCHANGED <<inode, dest, part, faults>>

\* Either call fails: the failure is logged, the upload is answered as done.
SideFail(r) ==
    /\ req[r].pc \in {"sidecar", "sidewrite"}
    /\ faults < MaxFaults
    /\ faults' = faults + 1
    /\ Done(r)
    /\ UNCHANGED <<inode, dest, part, side>>

-----------------------------------------------------------------------------
(* PUT: handleUpload, saveStream *)

\* Faulty variant of PutCreate: os.Create(dest).
PutCreateInPlace(r, f) ==
    /\ req[r].pc = "idle" /\ MayStart("put")
    /\ \E i \in IF dest = Absent THEN Free ELSE {dest} :
        /\ dest' = i
        /\ Start(r, "put", "stream", f, 0, i)
        /\ UNCHANGED <<part, side, faults>>
        /\ Store([inode EXCEPT ![i] = <<>>])

\* os.Create(tmp) truncates a staged file in place or makes a new one.
PutCreate(r, f) ==
    /\ req[r].pc = "idle" /\ MayStart("put")
    /\ \E i \in IF part = Absent THEN Free ELSE {part} :
        /\ part' = i
        /\ Start(r, "put", "stream", f, 0, i)
        /\ UNCHANGED <<dest, side, faults>>
        /\ Store([inode EXCEPT ![i] = <<>>])

\* One block at the descriptor's own position.
PutWrite(r) ==
    LET fd == req[r].fd  k == req[r].n + 1 IN
    /\ At(r, "put", "stream")
    /\ k <= Length[req[r].file]
    /\ Advance(r, "stream", k, fd, Absent)
    /\ UNCHANGED <<dest, part, side, faults>>
    /\ Store([inode EXCEPT ![fd] = WriteAt(@, k, <<req[r].file, k>>)])

\* The body is complete: the digest is that of the streamed bytes.
PutEnd(r) ==
    /\ At(r, "put", "stream")
    /\ req[r].n = Length[req[r].file]
    /\ Advance(r, "rename", req[r].n, Absent, Body(req[r].file))
    /\ UNCHANGED <<dest, part, side, faults>>
    /\ Store(inode)

PutDrop(r) ==
    /\ At(r, "put", "stream")
    /\ Advance(r, "cleanup", req[r].n, Absent, Absent)
    /\ UNCHANGED <<dest, part, side, faults>>
    /\ Store(inode)

PutRename(r) ==
    /\ At(r, "put", "rename")
    /\ \/ Publish(r)
       \/ /\ part = Absent
          /\ Goto(r, "cleanup")
          /\ UNCHANGED <<inode, dest, part, side, faults>>

\* The deferred os.Remove(tmp) of a failed PUT.
PutCleanup(r) ==
    /\ At(r, "put", "cleanup")
    /\ part' = Absent
    /\ Reply(r, "put", 500)
    /\ UNCHANGED <<dest, side, faults>>
    /\ Store(inode)

-----------------------------------------------------------------------------
(* DELETE: handleDelete *)

DeleteArrive(r) ==
    /\ req[r].pc = "idle" /\ MayStart("delete")
    /\ Start(r, "delete", IF dest = Absent THEN "statpart" ELSE "unlink", Absent, 0, Absent)
    /\ UNCHANGED <<inode, dest, part, side, faults>>

\* No final file: only an interrupted upload is left to discard.
DeleteStatPart(r) ==
    /\ At(r, "delete", "statpart")
    /\ IF part = Absent THEN Reply(r, "delete", 404) ELSE Goto(r, "unpart")
    /\ UNCHANGED <<inode, dest, part, side, faults>>

DeleteUnlink(r) ==
    /\ At(r, "delete", "unlink")
    /\ dest' = Absent
    /\ Goto(r, "unside")
    /\ UNCHANGED <<part, side, faults>>
    /\ Store(inode)

DeleteSide(r) ==
    /\ At(r, "delete", "unside")
    /\ side' = Absent
    /\ Goto(r, "unpart")
    /\ UNCHANGED <<inode, dest, part, faults>>

DeletePart(r) ==
    /\ At(r, "delete", "unpart")
    /\ part' = Absent
    /\ Reply(r, "delete", 204)
    /\ UNCHANGED <<dest, side, faults>>
    /\ Store(inode)

-----------------------------------------------------------------------------
(* HEAD, verify and download *)

\* handleUploadOffset: the published size, else (a second stat) the staged one.
HeadArrive(r) ==
    /\ req[r].pc = "idle"
    /\ IF dest # Absent
       THEN Answer(r, "head", 200, SizeOf(dest), "complete", Absent)
       ELSE Start(r, "head", "headpart", Absent, 0, Absent)
    /\ UNCHANGED <<inode, dest, part, side, faults>>

HeadPart(r) ==
    /\ At(r, "head", "headpart")
    /\ Answer(r, "head", 200, SizeOf(part), "partial", Absent)
    /\ UNCHANGED <<inode, dest, part, side, faults>>

\* handleVerify: stat, read the sidecar, then hash what the name shows.
VerifyArrive(r) ==
    /\ req[r].pc = "idle"
    /\ IF dest = Absent
       THEN Reply(r, "verify", 404)
       ELSE Start(r, "verify", "expect", Absent, SizeOf(dest), Absent)
    /\ UNCHANGED <<inode, dest, part, side, faults>>

VerifyExpect(r) ==
    /\ At(r, "verify", "expect")
    /\ IF side \in {Absent, Blank}
       THEN Reply(r, "verify", 404)
       ELSE Advance(r, "digest", req[r].n, Absent, side)
    /\ UNCHANGED <<inode, dest, part, side, faults>>

VerifyDigest(r) ==
    /\ At(r, "verify", "digest")
    /\ IF dest = Absent
       THEN Reply(r, "verify", 500)
       ELSE Answer(r, "verify", 200, req[r].n,
                   IF inode[dest] = req[r].sum THEN "match" ELSE "mismatch", inode[dest])
    /\ UNCHANGED <<inode, dest, part, side, faults>>

\* handleDownload: the length promised comes from a stat of the name, the bytes
\* from a descriptor opened after it and kept while they go out.
GetArrive(r) ==
    /\ req[r].pc = "idle"
    /\ IF dest = Absent
       THEN Reply(r, "get", 404)
       ELSE Start(r, "get", "fetch", Absent, SizeOf(dest), Absent)
    /\ UNCHANGED <<inode, dest, part, side, faults>>

GetOpen(r) ==
    /\ At(r, "get", "fetch")
    /\ IF dest = Absent
       THEN Reply(r, "get", 404)
       ELSE Advance(r, "send", req[r].n, dest, <<>>)
    /\ UNCHANGED <<inode, dest, part, side, faults>>

\* Faulty variant of GetSend: every block is read by name.
GetSendByName(r) ==
    LET sent == req[r].sum  file == IF dest = Absent THEN <<>> ELSE inode[dest] IN
    /\ At(r, "get", "send")
    /\ \/ /\ Len(sent) < req[r].n /\ Len(sent) < Len(file)
          /\ Advance(r, "send", req[r].n, req[r].fd, Append(sent, file[Len(sent) + 1]))
       \/ /\ Len(sent) = req[r].n
          /\ Answer(r, "get", 200, req[r].n, "none", sent)
       \/ /\ Len(sent) < req[r].n /\ Len(sent) >= Len(file)
          /\ Reply(r, "get", 500)
    /\ UNCHANGED <<dest, part, side, faults>>
    /\ Store(inode)

\* A file shorter than the promised length breaks the connection off.
GetSend(r) ==
    LET sent == req[r].sum  file == inode[req[r].fd] IN
    /\ At(r, "get", "send")
    /\ \/ /\ Len(sent) < req[r].n /\ Len(sent) < Len(file)
          /\ Advance(r, "send", req[r].n, req[r].fd, Append(sent, file[Len(sent) + 1]))
       \/ /\ Len(sent) = req[r].n
          /\ Answer(r, "get", 200, req[r].n, "none", sent)
       \/ /\ Len(sent) < req[r].n /\ Len(sent) >= Len(file)
          /\ Reply(r, "get", 500)
    /\ UNCHANGED <<dest, part, side, faults>>
    /\ Store(inode)

-----------------------------------------------------------------------------
\* The answer is delivered, or lost: the slot is free again.
Deliver(r) ==
    /\ req[r].pc = "replied"
    /\ Become(r, Idle)
    /\ UNCHANGED <<inode, dest, part, side, faults>>

\* The single pod dies: the handlers with it, the volume stays.
Crash ==
    /\ faults < MaxFaults
    /\ faults' = faults + 1
    /\ req' = [r \in Req |-> Idle]
    /\ UNCHANGED <<dest, part, side>>
    /\ Store(inode)

Init ==
    /\ inode = [i \in Inode |-> <<>>]
    /\ dest = Absent /\ part = Absent /\ side = Absent
    /\ req = [r \in Req |-> Idle]
    /\ faults = 0

Patch(r) ==
    \/ \E f \in File, offset \in Offsets : PatchArrive(r, f, offset)
    \/ PatchOpen(r) \/ PatchAppend(r) \/ PatchEnd(r) \/ PatchDrop(r)
    \/ PatchWriteFails(r) \/ PatchHash(r) \/ PatchRename(r)
Put(r) ==
    \/ \E f \in File : PutCreate(r, f)
    \/ PutWrite(r) \/ PutEnd(r) \/ PutDrop(r) \/ PutRename(r) \/ PutCleanup(r)
Sidecar(r) == SideTruncate(r) \/ SideWrite(r) \/ SideFail(r)
Delete(r) ==
    DeleteArrive(r) \/ DeleteStatPart(r) \/ DeleteUnlink(r) \/ DeleteSide(r) \/ DeletePart(r)
Read(r) ==
    \/ HeadArrive(r) \/ HeadPart(r)
    \/ VerifyArrive(r) \/ VerifyExpect(r) \/ VerifyDigest(r)
    \/ GetArrive(r) \/ GetOpen(r) \/ GetSend(r)

Next ==
    \/ \E r \in Req : Patch(r) \/ Put(r) \/ Sidecar(r) \/ Delete(r) \/ Read(r) \/ Deliver(r)
    \/ Crash

Spec == Init /\ [][Next]_vars

-----------------------------------------------------------------------------
(* What the store promises *)

\* Every variable keeps its type, and no inode has two names.
TypeOK ==
    /\ inode \in [Inode -> Content]
    /\ dest \in Inode \cup {Absent}
    /\ part \in Inode \cup {Absent}
    /\ dest # Absent => dest # part
    /\ side \in Content \cup {Absent, Blank}
    /\ req \in [Req -> Request]
    /\ faults \in 0..MaxFaults

\* What is visible under the final name is one complete version: never a
\* prefix, a mixture or a truncation (the purpose of ".part" and the rename).
PublishedIntact == dest # Absent => inode[dest] \in Versions

\* A published file never changes in place: readers that have it open, and
\* nginx, may keep reading it (saveStream and finalizePart only ever rename).
PublishedImmutable ==
    [][dest' = dest /\ dest # Absent => inode'[dest] = inode[dest]]_vars

\* Staged bytes outlive failures: only a DELETE or a PUT in service may cut or
\* discard them; a dropped body, a failed finalisation or a restart never does,
\* and a PATCH only adds to them or publishes them whole.
StagedKept ==
    [][part # Absent =>
         \/ \E r \in Req : req[r].op \in {"delete", "put"} /\ req[r].pc # "replied"
         \/ \E r \in Req : req'[r].op = "put" /\ req[r].pc = "idle"
         \/ dest' = part /\ part' = Absent /\ inode'[part] = inode[part]
         \/ /\ part' = part /\ Len(inode[part]) <= Len(inode'[part])
            /\ inode[part] = SubSeq(inode'[part], 1, Len(inode[part]))]_vars

\* A client told its upload is incomplete can go on from the offset in the
\* answer: it is the staged size the moment the answer is given (204, 409, and
\* the 500 of a dropped body carry Upload-Offset).  After a failed write more may be
\* staged than the answer says, never less: the client resyncs and skips nothing.
AckExact ==
    [][\A r \in Req :
         /\ req'[r].op = "patch" /\ req'[r].pc = "replied"
         /\ req[r].pc \in {"idle", "body"}
         => IF faults' = faults THEN req'[r].off = SizeOf(part)'
                                ELSE req'[r].off <= SizeOf(part)']_vars

\* Without crashes and failed sidecar writes, the recorded checksum never
\* contradicts the published bytes once no upload stands between its rename and
\* its sidecar write: verification raises no false alarm then.
SidecarMatches ==
    /\ faults = 0
    /\ \A r \in Req : req[r].pc \notin {"sidecar", "sidewrite"}
    => dest = Absent \/ side \in {Absent, Blank} \/ side = inode[dest]

\* A download answered in full never mixes versions, though the target may be
\* replaced and deleted while it runs.
DownloadUnmixed ==
    \A r \in Req :
        At(r, "get", "replied") /\ req[r].status = 200 =>
            \E f \in File : req[r].sum = Piece(f, req[r].off)

\* A verification that answers "ok" has confirmed one complete version (the
\* comment of handleVerify: "bit-for-bit what was uploaded").
VerifyConfirms ==
    \A r \in Req : At(r, "verify", "replied") /\ req[r].says = "match" => req[r].sum \in Versions

-----------------------------------------------------------------------------
\* Refinement: the target is one atomic file, and a download is a snapshot of it.
Target == INSTANCE AtomicTarget WITH
    Version <- Versions, Reader <- Req, None <- Absent,
    content <- IF dest = Absent THEN Absent ELSE inode[dest],
    view <- [r \in Req |-> IF At(r, "get", "send") THEN inode[req[r].fd] ELSE Absent]

\* Under the final name only whole versions appear, at one instant each, and an
\* open download never sees a change (rename in finalizePart and saveStream).
RefinesAtomicTarget == Target!Spec

\* The same when a DELETE may pull the temp away under a PATCH, whose tail is then
\* published alone: a version is whatever bytes a rename published.
Bytes == INSTANCE AtomicTarget WITH
    Version <- Content, Reader <- Req, None <- Absent,
    content <- IF dest = Absent THEN Absent ELSE inode[dest],
    view <- [r \in Req |-> IF At(r, "get", "send") THEN inode[req[r].fd] ELSE Absent]

\* Even then the name is one atomic register, and an open download a snapshot of
\* it: uploads write to inodes no reader can have open.
RefinesAtomicBytes == Bytes!Spec
=============================================================================
