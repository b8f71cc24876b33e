----------------------- MODULE ResumableUploadProofs -----------------------
(***************************************************************************)
(* Proofs about ResumableUpload, for a file of any size, any number of     *)
(* attempts, losses, faults and slots: what the client knows of the target *)
(* is right.  Hypotheses, beside those of PayloadStoreProofs: the target   *)
(* holds no other version (upload_replace shows what happens then).  The    *)
(* client itself keeps to no discipline: it may send a PATCH while one it   *)
(* has lost is at work, and what holds even then is proved for that case    *)
(* too (the offset it believes in, the staged bytes, the bounds).           *)
(***************************************************************************)
EXTENDS ResumableUpload, StoreSharedProofs

Fresh == Disciplined /\ Previous \in {Absent, Mine}

-----------------------------------------------------------------------------
(* The inductive invariant *)

\* Staged is the beginning of Mine, published is the whole of it.
StagedMine ==
    part # Absent => \E k \in 0..Length[Mine] : inode[part] = Piece(Mine, k)
PublishedMine == dest # Absent => inode[dest] = Body(Mine)

\* The handlers serve this client only, and none claims completion before the
\* rename; a full offset in an answer to a PATCH comes with the claim.
Serving(r) ==
    /\ req[r].op \in {"none", "patch", "head"}
    /\ req[r].op = "patch" /\ Running(r) => req[r].file = Mine /\ req[r].n \in 0..Length[Mine]
    /\ InWindow(r) => dest # Absent
    /\ req[r].pc = "replied" =>
        /\ req[r].off \in 0..Length[Mine]
        /\ req[r].says = "complete" => dest # Absent
        /\ req[r].op = "patch" /\ req[r].status \in {200, 204} /\ req[r].off = Length[Mine]
           => req[r].says = "complete"

ServerInv == IInv /\ StagedMine /\ PublishedMine /\ \A r \in Req : Serving(r)

\* The loop is entered with attempts left and waits for the request it has sent.
\* Unless a PATCH has gone to work beside a lost one, it resolves only when the file
\* is there, and believes in no more than the file.
LoopInv ==
    /\ pc \in {"head", "patch", "resync"} \cup Outcomes
    /\ attempt \in 0..MAX_ATTEMPTS
    /\ offset \in Nat
    /\ slot \in Req \cup {Absent}
    /\ drops \in 0..MaxDrops
    /\ strays \in 0..MAX_ATTEMPTS /\ beside \in BOOLEAN
    /\ IF pc \in Outcomes THEN slot = Absent ELSE attempt < MAX_ATTEMPTS
    /\ \/ beside
       \/ /\ offset \in 0..Length[Mine]
          /\ pc = "patch" /\ slot # Absent => req[slot].op = "patch"
          /\ pc = "done" => dest # Absent

UInv == Sound /\ LoopInv /\ (beside \/ ServerInv)

-----------------------------------------------------------------------------
(* Requests *)

\* What a request knows after it has arrived or gone on.
LEMMA StartKnows ==
    ASSUME TypeOK, NEW r \in Req, NEW op, NEW pc_, NEW f, NEW n, NEW fd,
           Start(r, op, pc_, f, n, fd)
    PROVE  Others(r) /\ req'[r].op = op /\ req'[r].pc = pc_ /\ req'[r].file = f /\ req'[r].n = n
  <1> DEFINE new == [Idle EXCEPT !.op = op, !.pc = pc_, !.file = f, !.n = n, !.fd = fd]
  <1>1. new.op = op /\ new.pc = pc_ /\ new.file = f /\ new.n = n
    BY DEF Idle
  <1>2. Become(r, new)
    BY DEF Start
  <1> HIDE DEF new
  <1> QED
    BY <1>1, <1>2, BecomeOthers

LEMMA GotoKnows ==
    ASSUME TypeOK, NEW r \in Req, NEW pc_, Goto(r, pc_)
    PROVE  /\ Others(r) /\ req'[r].op = req[r].op /\ req'[r].pc = pc_
           /\ req'[r].file = req[r].file /\ req'[r].n = req[r].n
  <1> DEFINE new == [req[r] EXCEPT !.pc = pc_]
  <1>1. new.op = req[r].op /\ new.pc = pc_ /\ new.file = req[r].file /\ new.n = req[r].n
    BY DEF TypeOK, Request
  <1>2. Become(r, new)
    BY DEF Goto
  <1> HIDE DEF new
  <1> QED
    BY <1>1, <1>2, BecomeOthers

LEMMA AdvanceKnows ==
    ASSUME TypeOK, NEW r \in Req, NEW pc_, NEW n, NEW fd, NEW sum, Advance(r, pc_, n, fd, sum)
    PROVE  /\ Others(r) /\ req'[r].op = req[r].op /\ req'[r].pc = pc_
           /\ req'[r].file = req[r].file /\ req'[r].n = n
  <1> DEFINE new == [req[r] EXCEPT !.pc = pc_, !.n = n, !.fd = fd, !.sum = sum]
  <1>1. new.op = req[r].op /\ new.pc = pc_ /\ new.file = req[r].file /\ new.n = n
    BY DEF TypeOK, Request
  <1>2. Become(r, new)
    BY DEF Advance
  <1> HIDE DEF new
  <1> QED
    BY <1>1, <1>2, BecomeOthers

-----------------------------------------------------------------------------
(* Steps of the server *)

\* A handler's step: of the store, with the target still there if it was, and the
\* temp a piece of Mine.
LEMMA HandlerStep ==
    ASSUME StoreAssumption, Fresh, ServerInv, NEW r \in Req, Next, Others(r),
           dest' = dest \/ (Publish(r) /\ inode[part] = Body(Mine)),
           StagedMine', Serving(r)'
    PROVE  ServerInv'
  <1>1. IInv'
    BY NextInv DEF ServerInv, Fresh
  <1>2. TypeOK /\ TypeOK'
    BY <1>1 DEF ServerInv, IInv
  <1>3. dest # Absent => dest' # Absent
    BY DEF Publish
  <1>4. ASSUME NEW q \in Req PROVE Serving(q)'
    <2>1. CASE q # r
      <3>1. req'[q] = req[q] /\ Serving(q)
        BY <2>1 DEF Others, ServerInv
      <3> QED
        BY <1>3, <3>1 DEF Serving, Running, InWindow
    <2> QED
      BY <2>1
  <1>5. PublishedMine'
    <2> SUFFICES ASSUME dest' # Absent PROVE inode'[dest'] = Body(Mine)
      BY DEF PublishedMine
    <2>1. CASE dest' = dest
      <3>1. dest \in Inode /\ dest # Absent
        BY <1>2, <2>1 DEF TypeOK
      <3>2. inode'[dest] = inode[dest]
        BY <2>1, <3>1, Untouched DEF ServerInv, Live
      <3> QED
        BY <2>1, <3>1, <3>2 DEF ServerInv, PublishedMine
    <2>2. CASE Publish(r) /\ inode[part] = Body(Mine)
      <3>1. dest' = part /\ part \in Inode /\ Store(inode)
        BY <1>2, <2>2 DEF TypeOK, Publish
      <3>2. inode'[part] = inode[part]
        BY <3>1 DEF Store, Live
      <3> QED
        BY <2>2, <3>1, <3>2
    <2> QED
      BY <2>1, <2>2
  <1> QED
    BY <1>1, <1>4, <1>5 DEF ServerInv

\* Dropping names and closing descriptors leaves what is staged alone.
LEMMA StagedStays ==
    ASSUME StoreAssumption, ServerInv, part' \in {part, Absent},
           Store(inode) \/ UNCHANGED inode
    PROVE  StagedMine'
  <1>1. TypeOK /\ StagedMine
    BY DEF ServerInv, IInv
  <1> SUFFICES ASSUME part' # Absent PROVE \E k \in 0..Length[Mine] : inode'[part'] = Piece(Mine, k)
    BY DEF StagedMine
  <1>2. part' = part /\ part \in Inode
    BY <1>1 DEF TypeOK
  <1>3. inode'[part] = inode[part]
    BY <1>2 DEF Store, Live
  <1> QED
    BY <1>1, <1>2, <1>3 DEF StagedMine

\* The size a stat of the temp shows.
LEMMA StagedSize ==
    ASSUME StoreAssumption, ClientAssumption, ServerInv
    PROVE  SizeOf(part) \in 0..Length[Mine]
  <1>1. CASE part = Absent
    BY <1>1 DEF SizeOf, StoreAssumption, ClientAssumption
  <1>2. CASE part # Absent
    <2>1. PICK k \in 0..Length[Mine] : inode[part] = Piece(Mine, k)
      BY <1>2 DEF ServerInv, StagedMine
    <2>2. Length[Mine] \in Nat /\ k \in Nat /\ Mine \in File
      BY DEF StoreAssumption, ClientAssumption
    <2> QED
      BY <1>2, <2>1, <2>2, PieceType DEF SizeOf
  <1> QED
    BY <1>1, <1>2

\* The target's size is that of Mine.
LEMMA PublishedSize ==
    ASSUME StoreAssumption, ClientAssumption, ServerInv, dest # Absent
    PROVE  SizeOf(dest) = Length[Mine]
  <1>1. inode[dest] = Piece(Mine, Length[Mine]) /\ Length[Mine] \in Nat /\ Mine \in File
    BY DEF ServerInv, PublishedMine, Body, StoreAssumption, ClientAssumption
  <1> QED
    BY <1>1, PieceType DEF SizeOf

\* HEAD: complete means published, and no offset exceeds the file.
LEMMA HeadServes ==
    ASSUME StoreAssumption, ClientAssumption, Fresh, ServerInv, NEW r \in Req,
           HeadArrive(r) \/ HeadPart(r)
    PROVE  ServerInv' /\ Others(r) /\ req'[r].op = "head"
  <1>1. TypeOK /\ UNCHANGED <<inode, dest, part, side, faults>>
    BY DEF ServerInv, IInv, HeadArrive, HeadPart
  <1>2. StagedMine' /\ Next
    BY <1>1, StagedStays DEF Next, Read
  <1>3. Length[Mine] \in Nat /\ SizeOf(part) \in 0..Length[Mine]
    BY StagedSize DEF StoreAssumption, ClientAssumption
  <1>4. CASE HeadArrive(r) /\ dest # Absent
    <2>1. Answer(r, "head", 200, SizeOf(dest), "complete", Absent)
      BY <1>4 DEF HeadArrive
    <2>2. /\ Others(r) /\ req'[r].op = "head" /\ req'[r].pc = "replied"
          /\ req'[r].off = SizeOf(dest) /\ SizeOf(dest) = Length[Mine]
      BY <1>1, <1>4, <2>1, AnswerSays, PublishedSize
    <2>3. Serving(r)'
      BY <1>1, <1>3, <1>4, <2>2 DEF Serving, Running, InWindow
    <2> QED
      BY <1>1, <1>2, <2>2, <2>3, HandlerStep
  <1>5. CASE HeadArrive(r) /\ dest = Absent
    <2>1. Start(r, "head", "headpart", Absent, 0, Absent)
      BY <1>5 DEF HeadArrive
    <2>2. Others(r) /\ req'[r].op = "head" /\ req'[r].pc = "headpart"
      BY <1>1, <2>1, StartKnows
    <2>3. Serving(r)'
      BY <2>2 DEF Serving, Running, InWindow
    <2> QED
      BY <1>1, <1>2, <2>2, <2>3, HandlerStep
  <1>6. CASE HeadPart(r)
    <2>1. Answer(r, "head", 200, SizeOf(part), "partial", Absent)
      BY <1>6 DEF HeadPart
    <2>2. /\ Others(r) /\ req'[r].op = "head" /\ req'[r].pc = "replied"
          /\ req'[r].off = SizeOf(part) /\ req'[r].says = "partial"
      BY <1>1, <2>1, AnswerSays
    <2>3. Serving(r)'
      BY <1>3, <2>2 DEF Serving, Running, InWindow
    <2> QED
      BY <1>1, <1>2, <2>2, <2>3, HandlerStep
  <1> QED
    BY <1>4, <1>5, <1>6

\* PATCH arrives: a wrong offset is answered with the staged size.
LEMMA PatchServes ==
    ASSUME StoreAssumption, ClientAssumption, Fresh, ServerInv, NEW r \in Req,
           NEW o \in 0..Length[Mine], PatchArrive(r, Mine, o)
    PROVE  ServerInv' /\ Others(r) /\ req'[r].op = "patch"
  <1>1. TypeOK /\ UNCHANGED <<inode, dest, part, side, faults>>
    BY DEF ServerInv, IInv, PatchArrive, PatchStat
  <1>2. Mine \in File /\ o \in Offsets
    BY DEF ClientAssumption, Offsets
  <1>3. StagedMine' /\ Next
    BY <1>1, <1>2, StagedStays DEF Next, Patch
  <1>4. SizeOf(part) \in 0..Length[Mine]
    BY StagedSize
  <1>5. CASE Start(r, "patch", "open", Mine, o, Absent)
    <2>1. /\ Others(r) /\ req'[r].op = "patch" /\ req'[r].pc = "open"
          /\ req'[r].file = Mine /\ req'[r].n = o
      BY <1>1, <1>5, StartKnows
    <2>2. Serving(r)'
      BY <2>1 DEF Serving, Running, InWindow
    <2> QED
      BY <1>1, <1>3, <2>1, <2>2, HandlerStep
  <1>6. CASE Answer(r, "patch", 409, SizeOf(part), "none", Absent)
    <2>1. /\ Others(r) /\ req'[r].op = "patch" /\ req'[r].pc = "replied"
          /\ req'[r].status = 409 /\ req'[r].off = SizeOf(part) /\ req'[r].says = "none"
      BY <1>1, <1>6, AnswerSays
    <2>2. Serving(r)'
      BY <1>4, <2>1 DEF Serving, Running, InWindow
    <2> QED
      BY <1>1, <1>3, <2>1, <2>2, HandlerStep
  <1> QED
    BY <1>5, <1>6 DEF PatchArrive, PatchStat

\* The client's next PATCH keeps the discipline of the target by itself, as long as
\* no other PATCH is at work.
LEMMA SendDisciplined ==
    ASSUME StoreAssumption, ClientAssumption, ServerInv, NEW r \in Req, SendPatch(r), ~beside'
    PROVE  PatchArrive(r, Mine, offset)
  <1>1. TypeOK /\ PatchStat(r, Mine, offset)
    BY DEF ServerInv, IInv, SendPatch
  <1>2. CASE offset # SizeOf(part)
    BY <1>1, <1>2 DEF PatchArrive
  <1>3. CASE offset = SizeOf(part)
    <2>1. Start(r, "patch", "open", Mine, offset, Absent)
      BY <1>1, <1>3 DEF PatchStat
    <2>2. req'[r].pc = "open"
      BY <1>1, <2>1, StartKnows
    <2>3. Running(r)'
      BY <2>2 DEF Running
    <2>4. \A q \in Req : ~(Running(q) /\ req[q].op = "patch")
      BY <2>3 DEF SendPatch
    <2>5. MayStart("patch")
      BY <2>4 DEF MayStart, Changing, ServerInv, Serving
    <2>6. ASSUME part # Absent PROVE inode[part] = Piece(Mine, SizeOf(part))
      <3>1. PICK k \in 0..Length[Mine] : inode[part] = Piece(Mine, k)
        BY <2>6 DEF ServerInv, StagedMine
      <3>2. k \in Nat /\ Mine \in File
        BY DEF StoreAssumption, ClientAssumption
      <3> QED
        BY <2>6, <3>1, <3>2, PieceType DEF SizeOf
    <2> QED
      BY <1>1, <2>5, <2>6 DEF PatchArrive
  <1> QED
    BY <1>2, <1>3

\* A PATCH in service knows its file and how far it is.
LEMMA InService ==
    ASSUME ServerInv, NEW r \in Req, NEW p \in {"open", "body", "hash", "rename"}, At(r, "patch", p)
    PROVE  /\ TypeOK /\ PatchInv(r) /\ req[r].op = "patch" /\ req[r].pc = p
           /\ req[r].file = Mine /\ req[r].n \in 0..Length[Mine]
  BY DEF ServerInv, IInv, Serving, At, Running

\* A PATCH that is broken off or fails.
LEMMA FailureServes ==
    ASSUME StoreAssumption, Fresh, ServerInv, NEW r \in Req, Next,
           NEW p \in {"open", "body", "hash", "rename"}, At(r, "patch", p),
           Answer(r, "patch", 500, req[r].n, "none", Absent),
           UNCHANGED <<dest, part>>, Store(inode) \/ UNCHANGED inode
    PROVE  ServerInv' /\ Others(r) /\ req'[r].op = req[r].op
  <1>1. TypeOK /\ req[r].op = "patch" /\ req[r].n \in 0..Length[Mine]
    BY InService
  <1>2. /\ Others(r) /\ req'[r].op = "patch" /\ req'[r].pc = "replied"
        /\ req'[r].status = 500 /\ req'[r].off = req[r].n /\ req'[r].says = "none"
    BY <1>1, AnswerSays
  <1>3. Serving(r)'
    BY <1>1, <1>2 DEF Serving, Running, InWindow
  <1> QED
    BY <1>1, <1>2, <1>3, StagedStays, HandlerStep

\* The temp is opened: a new one is empty.
LEMMA OpenServes ==
    ASSUME StoreAssumption, ClientAssumption, Fresh, ServerInv, NEW r \in Req, PatchOpen(r)
    PROVE  ServerInv' /\ Others(r) /\ req'[r].op = req[r].op
  <1>1. /\ TypeOK /\ PatchInv(r) /\ req[r].op = "patch" /\ req[r].pc = "open"
        /\ req[r].file = Mine /\ req[r].n \in 0..Length[Mine] /\ Next
    BY InService DEF PatchOpen, At, Next, Patch
  <1>2. PICK i \in IF part = Absent THEN Free ELSE {part} :
           /\ part' = i /\ Advance(r, "body", req[r].n, i, Absent) /\ UNCHANGED <<dest, side, faults>>
           /\ Store([inode EXCEPT ![i] = IF part = Absent THEN <<>> ELSE @])
    BY DEF PatchOpen
  <1>3. /\ Others(r) /\ req'[r].op = "patch" /\ req'[r].pc = "body"
        /\ req'[r].file = Mine /\ req'[r].n = req[r].n
    BY <1>1, <1>2, AdvanceKnows
  <1>4. Serving(r)'
    BY <1>1, <1>3 DEF Serving, Running, InWindow
  <1>5. i \in Inode
    BY <1>1, <1>2 DEF Free, TypeOK
  <1>6. inode'[i] = IF part = Absent THEN <<>> ELSE inode[i]
    BY <1>1, <1>2, <1>5 DEF Store, Live, TypeOK
  <1>7. StagedMine'
    <2>1. Mine \in File /\ 0 \in 0..Length[Mine]
      BY DEF ClientAssumption, StoreAssumption
    <2>2. \E k \in 0..Length[Mine] : inode'[i] = Piece(Mine, k)
      BY <1>2, <1>6, <2>1, EmptyPiece DEF ServerInv, StagedMine
    <2> QED
      BY <1>2, <2>2 DEF StagedMine
  <1> QED
    BY <1>1, <1>2, <1>3, <1>4, <1>7, HandlerStep

\* One more block is staged.
LEMMA AppendServes ==
    ASSUME StoreAssumption, ClientAssumption, Fresh, ServerInv, NEW r \in Req, PatchAppend(r)
    PROVE  ServerInv' /\ Others(r) /\ req'[r].op = req[r].op
  <1>1. /\ TypeOK /\ PatchInv(r) /\ req[r].op = "patch" /\ req[r].pc = "body"
        /\ req[r].file = Mine /\ req[r].n \in 0..Length[Mine] /\ Next
    BY InService DEF PatchAppend, At, Next, Patch
  <1>2. PICK n \in 0..Length[Mine] : n = req[r].n
    BY <1>1
  <1>3. /\ n + 1 <= Length[Mine] /\ Advance(r, "body", n + 1, part, Absent)
        /\ part # Absent /\ part \in Inode /\ inode[part] = Piece(Mine, n)
        /\ UNCHANGED <<dest, part, side, faults>>
        /\ Store([inode EXCEPT ![part] = WriteAt(@, Len(@) + 1, <<Mine, n + 1>>)])
    BY <1>1, <1>2 DEF PatchAppend, PatchInv, At, TypeOK
  <1>4. Length[Mine] \in Nat /\ n \in Nat /\ Mine \in File
    BY DEF StoreAssumption, ClientAssumption
  <1>5. /\ Others(r) /\ req'[r].op = "patch" /\ req'[r].pc = "body"
        /\ req'[r].file = Mine /\ req'[r].n = n + 1
    BY <1>1, <1>3, AdvanceKnows
  <1>6. n + 1 \in 0..Length[Mine]
    BY <1>3, <1>4
  <1>7. Serving(r)'
    BY <1>5, <1>6 DEF Serving, Running, InWindow
  <1>8. WriteAt(inode[part], Len(inode[part]) + 1, <<Mine, n + 1>>) = Piece(Mine, n + 1)
    BY <1>3, <1>4, PieceType, WriteAtPiece
  <1>9. inode'[part] = Piece(Mine, n + 1)
    BY <1>1, <1>3, <1>8 DEF Store, Live, TypeOK
  <1>10. StagedMine'
    BY <1>3, <1>6, <1>9 DEF StagedMine
  <1> QED
    BY <1>1, <1>3, <1>5, <1>7, <1>10, HandlerStep

\* The body ends, and the temp is hashed and renamed.
LEMMA FinishServes ==
    ASSUME StoreAssumption, ClientAssumption, Fresh, ServerInv, NEW r \in Req,
           PatchEnd(r) \/ PatchHash(r) \/ PatchRename(r)
    PROVE  ServerInv' /\ Others(r) /\ req'[r].op = req[r].op
  <1>1. PICK p \in {"body", "hash", "rename"} : At(r, "patch", p)
    BY DEF PatchEnd, PatchHash, PatchRename
  <1>2. /\ TypeOK /\ PatchInv(r) /\ req[r].op = "patch" /\ req[r].pc = p
        /\ req[r].file = Mine /\ req[r].n \in 0..Length[Mine] /\ Next
    BY <1>1, InService DEF Next, Patch
  <1>3. ASSUME NEW q \in {"hash", "rename"}, NEW sum, Advance(r, q, req[r].n, Absent, sum),
               UNCHANGED <<dest, part>>, Store(inode) \/ UNCHANGED inode
        PROVE  ServerInv' /\ Others(r) /\ req'[r].op = req[r].op
    <2>1. /\ Others(r) /\ req'[r].op = "patch" /\ req'[r].pc = q
          /\ req'[r].file = Mine /\ req'[r].n = req[r].n
      BY <1>2, <1>3, AdvanceKnows
    <2>2. Serving(r)'
      BY <1>2, <2>1 DEF Serving, Running, InWindow
    <2> QED
      BY <1>2, <1>3, <2>1, <2>2, StagedStays, HandlerStep
  <1>4. CASE PatchEnd(r)
    <2>1. UNCHANGED <<dest, part>> /\ Store(inode)
      BY <1>4 DEF PatchEnd
    <2>2. CASE ~(req[r].n < Length[Mine])
      BY <1>2, <1>3, <1>4, <2>1, <2>2 DEF PatchEnd
    <2>3. CASE req[r].n < Length[Mine]
      <3>1. Answer(r, "patch", 204, req[r].n, "partial", Absent)
        BY <1>2, <1>4, <2>3 DEF PatchEnd
      <3>2. /\ Others(r) /\ req'[r].op = "patch" /\ req'[r].pc = "replied"
            /\ req'[r].off = req[r].n /\ req'[r].says = "partial"
        BY <1>2, <3>1, AnswerSays
      <3>3. req[r].n # Length[Mine]
        BY <2>3 DEF StoreAssumption, ClientAssumption
      <3>4. Serving(r)'
        BY <1>2, <3>2, <3>3 DEF Serving, Running, InWindow
      <3> QED
        BY <1>2, <2>1, <3>2, <3>4, StagedStays, HandlerStep
    <2> QED
      BY <2>2, <2>3
  <1>5. CASE PatchHash(r)
    <2>1. UNCHANGED <<inode, dest, part>>
      BY <1>5 DEF PatchHash
    <2> QED
      BY <1>1, <1>2, <1>3, <1>5, <2>1, FailureServes DEF PatchHash
  <1>6. CASE PatchRename(r) /\ Publish(r)
    <2>1. At(r, "patch", "rename") /\ Goto(r, "sidecar") /\ part' = Absent
          /\ part # Absent /\ dest' = part
      BY <1>6 DEF PatchRename, Publish
    <2>2. inode[part] = Body(Mine)
      BY <1>2, <2>1 DEF PatchInv
    <2>3. /\ Others(r) /\ req'[r].op = "patch" /\ req'[r].pc = "sidecar"
          /\ req'[r].file = Mine /\ req'[r].n = req[r].n
      BY <1>2, <2>1, GotoKnows
    <2>4. Serving(r)'
      BY <1>2, <2>1, <2>3 DEF Serving, Running, InWindow
    <2>5. StagedMine'
      BY <2>1 DEF StagedMine
    <2> QED
      BY <1>2, <1>6, <2>2, <2>3, <2>4, <2>5, HandlerStep
  <1>7. CASE PatchRename(r) /\ ~Publish(r)
    BY <1>1, <1>2, <1>7, FailureServes DEF PatchRename
  <1> QED
    BY <1>4, <1>5, <1>6, <1>7

\* The sidecar is written, or not: the upload is answered as done.
LEMMA SidecarServes ==
    ASSUME StoreAssumption, ClientAssumption, Fresh, ServerInv, NEW r \in Req,
           SideTruncate(r) \/ SideWrite(r) \/ SideFail(r)
    PROVE  ServerInv' /\ Others(r) /\ req'[r].op = req[r].op
  <1>1. /\ TypeOK /\ UNCHANGED <<inode, dest, part>> /\ InWindow(r) /\ Next
    BY DEF ServerInv, IInv, SideTruncate, SideWrite, SideFail, InWindow, Next, Sidecar
  <1>2. Serving(r) /\ WindowInv(r)
    BY DEF ServerInv, IInv
  <1>3. /\ req[r].op = "patch" /\ req[r].file = Mine /\ req[r].n \in 0..Length[Mine]
        /\ dest # Absent
    BY <1>1, <1>2 DEF Serving, WindowInv, Running, InWindow, Writers
  <1>4. CASE Goto(r, "sidewrite")
    <2>1. /\ Others(r) /\ req'[r].op = "patch" /\ req'[r].pc = "sidewrite"
          /\ req'[r].file = Mine /\ req'[r].n = req[r].n
      BY <1>1, <1>3, <1>4, GotoKnows
    <2>2. Serving(r)'
      BY <1>1, <1>3, <2>1 DEF Serving, Running, InWindow
    <2> QED
      BY <1>1, <1>3, <2>1, <2>2, StagedStays, HandlerStep
  <1>5. CASE Done(r)
    <2>1. /\ Others(r) /\ req'[r].op = "patch" /\ req'[r].pc = "replied"
          /\ req'[r].off = req[r].n /\ req'[r].says = "complete"
      BY <1>1, <1>3, <1>5, AnswerSays DEF Done
    <2>2. Serving(r)'
      BY <1>1, <1>3, <2>1 DEF Serving, Running, InWindow
    <2> QED
      BY <1>1, <1>3, <2>1, <2>2, StagedStays, HandlerStep
  <1> QED
    BY <1>4, <1>5 DEF SideTruncate, SideWrite, SideFail

\* A write fails: one more block may be staged than the answer says.
LEMMA WriteFailServes ==
    ASSUME StoreAssumption, ClientAssumption, Fresh, Sound, ServerInv, NEW r \in Req,
           PatchWriteFails(r)
    PROVE  ServerInv' /\ Others(r) /\ req'[r].op = req[r].op
  <1>1. /\ TypeOK /\ PatchInv(r) /\ req[r].op = "patch" /\ req[r].pc = "body"
        /\ req[r].file = Mine /\ req[r].n \in 0..Length[Mine] /\ Next
    BY InService DEF PatchWriteFails, At, Next, Patch
  <1>2. PICK n \in 0..Length[Mine] : n = req[r].n
    BY <1>1
  <1>3. Length[Mine] \in Nat /\ n \in Nat /\ Mine \in File
    BY DEF StoreAssumption, ClientAssumption
  <1>4. Answer(r, "patch", 500, n, "none", Absent) /\ UNCHANGED <<dest, part>>
    BY <1>2 DEF PatchWriteFails
  <1>5. /\ Others(r) /\ req'[r].op = "patch" /\ req'[r].pc = "replied"
        /\ req'[r].status = 500 /\ req'[r].off = n /\ req'[r].says = "none"
    BY <1>1, <1>4, AnswerSays
  <1>6. Serving(r)'
    BY <1>5 DEF Serving, Running, InWindow
  <1>7. part # Absent /\ part \in Inode /\ req[r].fd = part /\ inode[part] = Piece(Mine, n)
    BY <1>1, <1>2 DEF PatchInv, At, TypeOK
  <1>8. PICK i \in Inode, k \in Nat \ {0} :
           /\ i = req[r].fd /\ k = req[r].n + 1
           /\ Live(i)' =>
                \/ inode'[i] = inode[i]
                \/ /\ k <= Length[req[r].file]
                   /\ inode'[i] = WriteAt(inode[i], Len(inode[i]) + 1, <<req[r].file, k>>)
    BY PatchFailEffect
  <1>9. i = part /\ k = n + 1 /\ Len(inode[part]) = n
    BY <1>2, <1>3, <1>7, <1>8, PieceType
  <1>10. Live(i)'
    BY <1>4, <1>9 DEF Live
  <1>11. StagedMine'
    <2>1. CASE inode'[part] = inode[part]
      BY <1>4, <1>7, <2>1 DEF StagedMine
    <2>2. CASE n + 1 <= Length[Mine] /\ inode'[part] = WriteAt(Piece(Mine, n), n + 1, <<Mine, n + 1>>)
      <3>1. n + 1 \in 0..Length[Mine] /\ inode'[part] = Piece(Mine, n + 1)
        BY <1>3, <2>2, WriteAtPiece
      <3> QED
        BY <1>4, <3>1 DEF StagedMine
    <2>3. ASSUME inode'[i] # inode[i]
          PROVE  k <= Length[Mine] /\ inode'[i] = WriteAt(inode[i], Len(inode[i]) + 1, <<Mine, k>>)
      BY <1>1, <1>8, <1>10, <2>3
    <2>4. ASSUME inode'[part] # inode[part]
          PROVE  /\ n + 1 <= Length[Mine]
                 /\ inode'[part] = WriteAt(Piece(Mine, n), n + 1, <<Mine, n + 1>>)
      BY <1>7, <1>9, <2>3, <2>4
    <2> QED
      BY <2>1, <2>2, <2>4
  <1> QED
    BY <1>1, <1>4, <1>5, <1>6, <1>11, HandlerStep

\* Every step of a handler.
LEMMA ServeServes ==
    ASSUME StoreAssumption, ClientAssumption, Fresh, Sound, ServerInv, NEW r \in Req, Serve(r)
    PROVE  ServerInv' /\ Others(r) /\ req'[r].op = req[r].op
  <1>1. CASE PatchDrop(r)
    <2>1. Next /\ At(r, "patch", "body") /\ Answer(r, "patch", 500, req[r].n, "none", Absent)
          /\ UNCHANGED <<dest, part>> /\ Store(inode)
      BY <1>1 DEF Next, Patch, PatchDrop
    <2> QED
      BY <2>1, FailureServes
  <1>2. CASE HeadPart(r)
    <2>1. req[r].op = "head"
      BY <1>2 DEF HeadPart, At
    <2> QED
      BY <1>2, <2>1, HeadServes
  <1> QED
    BY <1>1, <1>2, OpenServes, AppendServes, FinishServes, WriteFailServes, SidecarServes DEF Serve

\* An answer is delivered.
LEMMA DeliverServes ==
    ASSUME StoreAssumption, ClientAssumption, Fresh, ServerInv, NEW r \in Req, Deliver(r)
    PROVE  ServerInv' /\ Others(r)
  <1>1. TypeOK /\ UNCHANGED <<inode, dest, part>> /\ Next
    BY DEF ServerInv, IInv, Deliver, Next
  <1>2. Others(r) /\ req'[r] = Idle
    BY <1>1, BecomeOthers DEF Deliver
  <1>3. Serving(r)'
    BY <1>2 DEF Serving, Running, InWindow, Idle
  <1> QED
    BY <1>1, <1>2, <1>3, StagedStays, HandlerStep

\* The pod restarts.
LEMMA CrashServes ==
    ASSUME StoreAssumption, ClientAssumption, Fresh, ServerInv, Crash
    PROVE  ServerInv' /\ UNCHANGED dest
  <1>1. TypeOK /\ UNCHANGED <<dest, part>> /\ Store(inode) /\ Next /\ \A r \in Req : req'[r] = Idle
    BY DEF ServerInv, IInv, Crash, Next
  <1>2. IInv'
    BY <1>1, NextInv DEF ServerInv, Fresh
  <1>3. \A r \in Req : Serving(r)'
    BY <1>1 DEF Serving, Running, InWindow, Idle
  <1>4. dest # Absent => dest \in Inode /\ inode'[dest] = inode[dest]
    BY <1>1 DEF TypeOK, Store, Live
  <1>5. PublishedMine'
    BY <1>1, <1>4 DEF ServerInv, PublishedMine
  <1> QED
    BY <1>1, <1>2, <1>3, <1>5, StagedStays DEF ServerInv

\* A step that leaves the server alone.
LEMMA ServerStays ==
    ASSUME StoreAssumption, Fresh, ServerInv, UNCHANGED vars
    PROVE  ServerInv'
  <1>1. IInv'
    BY NextInv DEF ServerInv, Fresh
  <1> QED
    BY <1>1 DEF ServerInv, vars, StagedMine, PublishedMine, Serving, Running, InWindow
-----------------------------------------------------------------------------
(* Steps of the client *)

\* A published target stays published under the steps of a handler.
LEMMA TargetStays ==
    ASSUME NEW r \in Req, Serve(r) \/ HeadArrive(r) \/ PatchStat(r, Mine, offset) \/ Deliver(r),
           dest # Absent
    PROVE  dest' # Absent
  BY DEF Serve, PatchOpen, PatchAppend, PatchEnd, PatchDrop, PatchWriteFails, PatchHash, PatchRename,
     Publish, SideTruncate, SideWrite, SideFail, HeadArrive, HeadPart, PatchStat, Deliver

\* The client stands still while a handler moves.
LEMMA ClientWaits ==
    ASSUME LoopInv, NEW r \in Req, UNCHANGED <<pc, attempt, offset, drops>>,
           slot' = slot \/ slot' = Absent \/ (slot' = r /\ pc \notin Outcomes),
           strays' \in 0..MAX_ATTEMPTS, beside' \in BOOLEAN, beside => beside',
           ~beside' => Others(r),
           ~beside' /\ slot' = r /\ slot' # Absent /\ pc = "patch" => req'[r].op = "patch",
           dest # Absent => dest' # Absent
    PROVE  LoopInv'
  <1>1. ~beside' => (pc = "patch" /\ slot' # Absent => req'[slot'].op = "patch")
    BY DEF LoopInv, Others
  <1>2. pc' \in Outcomes => slot' = Absent
    BY DEF LoopInv
  <1>3. pc' \notin Outcomes => attempt' < MAX_ATTEMPTS
    BY DEF LoopInv
  <1>4. slot' \in Req \cup {Absent}
    BY DEF LoopInv
  <1> QED
    BY <1>1, <1>2, <1>3, <1>4 DEF LoopInv

\* The client moves on and waits for nothing.
LEMMA ClientMoves ==
    ASSUME LoopInv, slot' = Absent, drops' \in 0..MaxDrops, UNCHANGED history,
           pc' \in {"head", "patch", "resync"} \cup Outcomes,
           attempt' \in 0..MAX_ATTEMPTS, offset' \in Nat,
           beside \/ offset' \in 0..Length[Mine],
           pc' \notin Outcomes => attempt' < MAX_ATTEMPTS,
           beside \/ (pc' = "done" => dest' # Absent)
    PROVE  LoopInv'
  BY DEF LoopInv, history

\* The loop goes round, or ends.
LEMMA NextAttemptMoves ==
    ASSUME ClientAssumption, LoopInv, pc \notin Outcomes, NEW off \in Nat,
           beside \/ off \in 0..Length[Mine],
           NextAttempt(off), slot' = Absent, drops' \in 0..MaxDrops, UNCHANGED history
    PROVE  LoopInv'
  <1>1. attempt + 1 \in 0..MAX_ATTEMPTS
    BY DEF LoopInv, ClientAssumption
  <1>2. pc' \in {"patch", "failed"} /\ (pc' = "patch" => attempt + 1 < MAX_ATTEMPTS)
    BY DEF NextAttempt
  <1> QED
    BY <1>1, <1>2, ClientMoves DEF NextAttempt, Outcomes

\* The call stops, or waits for its next step.
LEMMA StopMoves ==
    ASSUME LoopInv, pc \notin Outcomes, NEW o \in {"resync", "failed", "rejected", "done"}, Stop(o),
           beside \/ (o = "done" => dest' # Absent), slot' = Absent, drops' \in 0..MaxDrops,
           UNCHANGED history
    PROVE  LoopInv'
  <1>1. /\ pc' = o /\ attempt' = attempt /\ offset' = offset /\ o \in {"resync"} \cup Outcomes
        /\ attempt \in 0..MAX_ATTEMPTS /\ attempt < MAX_ATTEMPTS /\ offset \in Nat
        /\ beside \/ offset \in 0..Length[Mine]
    BY DEF Stop, LoopInv, Outcomes
  <1> QED
    BY <1>1, ClientMoves

LEMMA CaughtMoves ==
    ASSUME LoopInv, pc \notin Outcomes, Caught, slot' = Absent, drops' \in 0..MaxDrops,
           UNCHANGED history
    PROVE  LoopInv'
  BY StopMoves DEF Caught

\* The answer to a HEAD.
LEMMA HeadAnsweredKeeps ==
    ASSUME StoreAssumption, ClientAssumption, Fresh, UInv, HeadAnswered
    PROVE  LoopInv' /\ (beside' \/ ServerInv')
  <1>1. /\ TypeOK /\ LoopInv /\ pc \in {"head", "resync"} /\ pc \notin Outcomes /\ slot \in Req
        /\ slot' = Absent /\ UNCHANGED <<dest, drops, history>> /\ drops' \in 0..MaxDrops
        /\ Deliver(slot)
    BY DEF UInv, Sound, LoopInv, HeadAnswered, Deliver, Outcomes
  <1>2. beside' = beside /\ (beside' \/ ServerInv')
    BY <1>1, DeliverServes DEF UInv, history
  <1>3. /\ beside \/ req[slot].off \in 0..Length[Mine]
        /\ beside \/ (req[slot].says = "complete" => dest # Absent)
    BY <1>1 DEF UInv, ServerInv, Serving, HeadAnswered
  <1>4. PICK off \in Nat : off = req[slot].off
    BY <1>1 DEF TypeOK, Request
  <1>5. CASE req[slot].says = "complete" /\ Stop("done")
    BY <1>1, <1>2, <1>3, <1>5, StopMoves
  <1>6. CASE pc' = "patch" /\ offset' = req[slot].off /\ UNCHANGED attempt
    BY <1>1, <1>2, <1>3, <1>4, <1>6, ClientMoves DEF LoopInv, Outcomes
  <1>7. CASE NextAttempt(req[slot].off)
    BY <1>1, <1>2, <1>3, <1>4, <1>7, NextAttemptMoves
  <1> QED
    BY <1>5, <1>6, <1>7 DEF HeadAnswered

\* The answer to a PATCH.
LEMMA PatchAnsweredKeeps ==
    ASSUME StoreAssumption, ClientAssumption, Fresh, UInv,
           PatchAccepted \/ PatchConflict \/ PatchRejected
    PROVE  LoopInv' /\ (beside' \/ ServerInv')
  <1>1. /\ TypeOK /\ LoopInv /\ pc = "patch" /\ pc \notin Outcomes /\ slot \in Req /\ slot # Absent
        /\ slot' = Absent /\ UNCHANGED <<dest, drops, history>> /\ drops' \in 0..MaxDrops
        /\ Deliver(slot) /\ req[slot].pc = "replied"
    BY DEF UInv, Sound, LoopInv, PatchAccepted, PatchConflict, PatchRejected, Deliver, Outcomes
  <1>2. beside' = beside /\ (beside' \/ ServerInv')
    BY <1>1, DeliverServes DEF UInv, history
  <1>3. beside \/ (Serving(slot) /\ req[slot].op = "patch")
    BY <1>1 DEF UInv, ServerInv, LoopInv
  <1>4. CASE PatchAccepted
    <2>1. PICK off \in Nat : off = req[slot].off
      BY <1>1 DEF TypeOK, Request
    <2>2. beside \/ off \in 0..Length[Mine]
      BY <1>1, <1>3, <2>1 DEF Serving
    <2>3. beside \/ (off >= Length[Mine] => off = Length[Mine])
      BY <2>2 DEF StoreAssumption, ClientAssumption
    <2>4. beside \/ (req[slot].says = "complete" \/ off >= Length[Mine] => dest # Absent)
      BY <1>1, <1>3, <1>4, <2>1, <2>3 DEF Serving, PatchAccepted
    <2>5. CASE (req[slot].says = "complete" \/ off >= Length[Mine]) /\ Stop("done")
      BY <1>1, <1>2, <2>4, <2>5, StopMoves
    <2>6. CASE NextAttempt(off)
      BY <1>1, <1>2, <2>2, <2>6, NextAttemptMoves
    <2> QED
      BY <1>4, <2>1, <2>5, <2>6 DEF PatchAccepted
  <1>5. CASE PatchConflict
    BY <1>1, <1>2, <1>5, StopMoves DEF PatchConflict
  <1>6. CASE PatchRejected
    BY <1>1, <1>2, <1>6, CaughtMoves DEF PatchRejected
  <1> QED
    BY <1>4, <1>5, <1>6

\* Losses, proxies and restarts.
LEMMA TroubleKeeps ==
    ASSUME StoreAssumption, ClientAssumption, Fresh, UInv,
           PatchLost \/ HeadLost \/ HeadWithoutHeaders \/ Restart
    PROVE  LoopInv' /\ (beside' \/ ServerInv')
  <1>1. LoopInv /\ (beside \/ ServerInv)
    BY DEF UInv
  <1>2. drops \in 0..MaxDrops /\ (drops < MaxDrops => drops + 1 \in 0..MaxDrops)
    BY <1>1 DEF LoopInv, ClientAssumption
  <1>3. UNCHANGED history /\ beside' = beside
    BY DEF PatchLost, HeadLost, HeadWithoutHeaders, Restart, history
  <1>4. ASSUME UNCHANGED vars PROVE beside' \/ ServerInv'
    BY <1>1, <1>3, <1>4, ServerStays
  <1>5. CASE PatchLost
    <2>1. drops' \in 0..MaxDrops /\ slot' = Absent /\ pc \notin Outcomes /\ Caught /\ UNCHANGED vars
      BY <1>2, <1>5 DEF PatchLost, Outcomes
    <2> QED
      BY <1>1, <1>3, <1>4, <2>1, CaughtMoves
  <1>6. CASE HeadLost
    <2>1. drops' \in 0..MaxDrops /\ slot' = Absent /\ pc \notin Outcomes /\ Stop("rejected") /\ UNCHANGED vars
      BY <1>2, <1>6 DEF HeadLost, Outcomes
    <2> QED
      BY <1>1, <1>3, <1>4, <2>1, StopMoves
  <1>7. CASE HeadWithoutHeaders
    <2>1. drops' \in 0..MaxDrops /\ slot' = Absent /\ pc \in {"head", "resync"} /\ UNCHANGED vars
      BY <1>2, <1>7 DEF HeadWithoutHeaders
    <2>2. pc \notin Outcomes /\ 0 \in 0..Length[Mine] /\ 0 \in Nat
      BY <2>1 DEF Outcomes, StoreAssumption, ClientAssumption
    <2>3. CASE pc' = "patch" /\ offset' = 0 /\ UNCHANGED attempt
      BY <1>1, <1>3, <1>4, <2>1, <2>2, <2>3, ClientMoves DEF LoopInv, Outcomes
    <2>4. CASE NextAttempt(0)
      BY <1>1, <1>3, <1>4, <2>1, <2>2, <2>4, NextAttemptMoves
    <2> QED
      BY <1>7, <2>3, <2>4 DEF HeadWithoutHeaders
  <1>8. CASE Restart
    <2>1. UNCHANGED <<dest, drops>> /\ slot' = Absent /\ drops' \in 0..MaxDrops
      BY <1>2, <1>8 DEF Restart, Crash
    <2>2. beside' \/ ServerInv'
      BY <1>1, <1>3, <1>8, CrashServes DEF Restart
    <2>3. CASE UNCHANGED <<pc, attempt, offset>>
      BY <1>1, <1>3, <2>1, <2>2, <2>3, ClientMoves DEF LoopInv
    <2>4. CASE pc \notin Outcomes /\ (Caught \/ Stop("rejected"))
      BY <1>1, <1>3, <2>1, <2>2, <2>4, CaughtMoves, StopMoves
    <2>5. slot # Absent => pc \notin Outcomes
      BY <1>1 DEF LoopInv
    <2> QED
      BY <1>8, <2>3, <2>4, <2>5 DEF Restart
  <1> QED
    BY <1>5, <1>6, <1>7, <1>8

\* Requests arrive and are served, and late answers are thrown away.
LEMMA ServerKeeps ==
    ASSUME StoreAssumption, ClientAssumption, Fresh, UInv, NEW r \in Req,
           SendHead(r) \/ SendPatch(r) \/ Serve(r) \/ Discard(r)
    PROVE  LoopInv' /\ (beside' \/ ServerInv')
  <1>1. /\ LoopInv /\ Sound /\ (beside \/ ServerInv) /\ drops \in 0..MaxDrops
        /\ strays \in 0..MAX_ATTEMPTS /\ beside \in BOOLEAN
        /\ beside \/ offset \in 0..Length[Mine]
    BY DEF UInv, LoopInv
  <1>2. CASE SendHead(r)
    <2>1. /\ UNCHANGED <<pc, attempt, offset, drops, strays, beside>> /\ slot' = r
          /\ pc \notin Outcomes /\ pc # "patch" /\ HeadArrive(r)
      BY <1>2 DEF SendHead, history, Outcomes
    <2>2. ~beside' => ServerInv' /\ Others(r)
      BY <1>1, <2>1, HeadServes
    <2>3. LoopInv'
      BY <1>1, <2>1, <2>2, ClientWaits, TargetStays
    <2> QED
      BY <2>2, <2>3
  <1>3. CASE SendPatch(r)
    <2>1. /\ UNCHANGED <<pc, attempt, offset, drops, strays>> /\ slot' = r
          /\ pc \notin Outcomes /\ beside' \in BOOLEAN /\ (beside => beside')
          /\ PatchStat(r, Mine, offset)
      BY <1>1, <1>3 DEF SendPatch, Outcomes
    <2>2. ~beside' => ServerInv' /\ Others(r) /\ req'[r].op = "patch"
      BY <1>1, <1>3, <2>1, SendDisciplined, PatchServes
    <2>3. LoopInv'
      BY <1>1, <2>1, <2>2, ClientWaits, TargetStays
    <2> QED
      BY <2>2, <2>3
  <1>4. CASE Serve(r)
    <2>1. UNCHANGED <<pc, attempt, offset, slot, drops, beside>>
      BY <1>4 DEF Serve, client
    <2>2. strays' \in 0..MAX_ATTEMPTS
      <3>1. strays' = strays \/ (strays < MAX_ATTEMPTS /\ strays' = strays + 1)
        BY <1>4 DEF Serve
      <3> QED
        BY <1>1, <3>1 DEF ClientAssumption
    <2>3. ~beside' => ServerInv' /\ Others(r) /\ req'[r].op = req[r].op
      BY <1>1, <1>4, <2>1, ServeServes
    <2>4. ~beside' /\ slot' = r /\ slot' # Absent /\ pc = "patch" => req'[r].op = "patch"
      BY <1>1, <2>1, <2>3 DEF LoopInv
    <2>5. LoopInv'
      BY <1>1, <1>4, <2>1, <2>2, <2>3, <2>4, ClientWaits, TargetStays
    <2> QED
      BY <2>3, <2>5
  <1>5. CASE Discard(r)
    <2>1. UNCHANGED <<pc, attempt, offset, slot, drops, strays, beside>> /\ slot' # r /\ Deliver(r)
      BY <1>5 DEF Discard, client, history
    <2>2. ~beside' => ServerInv' /\ Others(r)
      BY <1>1, <2>1, DeliverServes
    <2>3. LoopInv'
      BY <1>1, <2>1, <2>2, ClientWaits, TargetStays
    <2> QED
      BY <2>2, <2>3
  <1> QED
    BY <1>2, <1>3, <1>4, <1>5

-----------------------------------------------------------------------------
(* Whatever is at work beside what *)

\* What a handler of this client does after its request has arrived.
Handling(r) ==
    \/ PatchOpen(r) \/ PatchAppend(r) \/ PatchEnd(r) \/ PatchDrop(r) \/ PatchWriteFails(r)
    \/ PatchHash(r) \/ PatchRename(r)

\* A step of the server on behalf of the client: its requests are PATCH and HEAD.
ServerStep(r) ==
    \/ HeadArrive(r) \/ HeadPart(r) \/ PatchStat(r, Mine, offset) \/ Handling(r)
    \/ Sidecar(r) \/ Deliver(r)

LEMMA ClientRequests ==
    ASSUME LoopInv, [UNext]_allvars
    PROVE  (\E r \in Req : ServerStep(r)) \/ Crash \/ UNCHANGED vars
  <1>1. slot # Absent => slot \in Req
    BY DEF LoopInv
  <1>2. ASSUME NEW r \in Req, SendHead(r) \/ SendPatch(r) \/ Serve(r) \/ Discard(r)
        PROVE  ServerStep(r)
    BY <1>2 DEF SendHead, SendPatch, Serve, Discard, ServerStep, Handling, Sidecar
  <1>3. CASE HeadAnswered \/ PatchAccepted \/ PatchConflict \/ PatchRejected
    BY <1>1, <1>3 DEF HeadAnswered, PatchAccepted, PatchConflict, PatchRejected, ServerStep
  <1>4. CASE PatchLost \/ HeadLost \/ HeadWithoutHeaders \/ Finished \/ UNCHANGED allvars
    BY <1>4 DEF PatchLost, HeadLost, HeadWithoutHeaders, Finished, allvars
  <1>5. CASE Restart
    BY <1>5 DEF Restart
  <1> QED
    BY <1>2, <1>3, <1>4, <1>5 DEF UNext

\* The steps of the server that are steps of the store under any discipline.
LEMMA StoreSteps ==
    ASSUME NEW r \in Req, ServerStep(r), ~PatchStat(r, Mine, offset)
    PROVE  Next
  BY DEF ServerStep, Handling, Next, Patch, Read

\* A stat keeps the store well formed, whoever else is in service.
LEMMA StatSound ==
    ASSUME StoreAssumption, ClientAssumption, Sound, offset \in Nat, NEW r \in Req,
           PatchStat(r, Mine, offset)
    PROVE  Sound'
  <1>1. TypeOK /\ Mine \in File
    BY DEF Sound, ClientAssumption
  <1>2. /\ Moves(r) /\ req'[r].op = "patch" /\ Kept /\ UNCHANGED <<dest, part, side, faults>>
        /\ req'[r].pc = "replied" \/ (req'[r].pc = "open" /\ req'[r].file \in File)
    BY <1>1, PatchStatEffect
  <1>3. FieldsInv(r)'
    BY <1>2 DEF FieldsInv, Writing, Running, Holds, At, InWindow
  <1> QED
    BY <1>1, <1>2, <1>3, VolumeDrops, SoundStep

LEMMA UNextSound ==
    ASSUME StoreAssumption, ClientAssumption, Sound, LoopInv, [UNext]_allvars
    PROVE  Sound'
  <1>1. offset \in Nat
    BY DEF LoopInv
  <1>2. ASSUME NEW r \in Req, ServerStep(r) PROVE Sound'
    BY <1>1, <1>2, StatSound, StoreSteps, SoundNext
  <1>3. CASE Crash \/ UNCHANGED vars
    BY <1>3, SoundNext DEF Next
  <1> QED
    BY <1>2, <1>3, ClientRequests

-----------------------------------------------------------------------------

\* At first the target shows Mine or nothing, and any piece of Mine is staged.
LEMMA UInitServer ==
    ASSUME StoreAssumption, ClientAssumption, Fresh, UInit
    PROVE  ServerInv
  <1>1. Idle.pc = "idle" /\ Idle.op = "none" /\ Idle \in Request
    BY IdleType DEF Idle
  <1>2. \A r \in Req : req[r] = Idle
    BY DEF UInit
  <1>3. PICK k \in 0..Length[Mine] :
           inode = [i \in Inode |-> IF i = dest THEN side ELSE IF i = part THEN Piece(Mine, k) ELSE <<>>]
    BY DEF UInit
  <1>4. Mine \in File /\ Length[Mine] \in Nat /\ k \in Nat
    BY DEF StoreAssumption, ClientAssumption
  <1>5. /\ <<>> \in Content /\ Piece(Mine, k) \in Content /\ Body(Mine) \in Content
        /\ Body(Mine) \in Versions
    BY <1>4, PieceType, BodyType DEF Content
  <1>6. Absent \notin Inode /\ dest \in Inode \cup {Absent} /\ part \in Inode \cup {Absent}
        /\ (dest # Absent => dest # part)
    BY DEF UInit, StoreAssumption
  <1>7. IF dest = Absent THEN side = Absent ELSE side = Body(Mine)
    BY <1>6 DEF UInit, Fresh, StoreAssumption, ClientAssumption
  <1>8. dest # Absent => inode[dest] = Body(Mine)
    BY <1>3, <1>6, <1>7
  <1>9. part # Absent => inode[part] = Piece(Mine, k)
    BY <1>3, <1>6
  <1>10. TypeOK
    <2>1. inode \in [Inode -> Content]
      BY <1>3, <1>5, <1>6, <1>7
    <2>2. faults \in 0..MaxFaults /\ req \in [Req -> Request]
      BY <1>1 DEF UInit, StoreAssumption
    <2> QED
      BY <1>5, <1>6, <1>7, <2>1, <2>2 DEF TypeOK
  <1>11. Exclusive
    BY <1>1, <1>2 DEF Exclusive, Writing, Running
  <1>12. StagedPiece /\ PublishedIntact /\ SidecarMatches
    BY <1>4, <1>5, <1>7, <1>8, <1>9 DEF StagedPiece, PublishedIntact, SidecarMatches
  <1>13. \A r \in Req : PatchInv(r) /\ PutInv(r) /\ WindowInv(r) /\ GetInv(r)
    BY <1>1, <1>2 DEF PatchInv, PutInv, WindowInv, GetInv, InWindow, At
  <1>14. \A r \in Req : Serving(r)
    BY <1>1, <1>2 DEF Serving, InWindow, Running
  <1> QED
    BY <1>8, <1>9, <1>10, <1>11, <1>12, <1>13, <1>14 DEF ServerInv, IInv, StagedMine, PublishedMine

LEMMA UInitInv ==
    ASSUME StoreAssumption, ClientAssumption, Fresh, UInit
    PROVE  UInv
  <1>1. ServerInv /\ TypeOK
    BY UInitServer DEF ServerInv, IInv
  <1>2. Idle.pc = "idle" /\ \A r \in Req : req[r] = Idle
    BY DEF UInit, Idle
  <1>3. Sound
    BY <1>1, <1>2 DEF Sound, FieldsInv, Writing, Running, Holds, At, InWindow
  <1>4. Length[Mine] \in Nat /\ MAX_ATTEMPTS \in Nat \ {0} /\ MaxDrops \in Nat
    BY DEF StoreAssumption, ClientAssumption
  <1>5. /\ pc = "head" /\ attempt = 0 /\ offset = 0 /\ slot = Absent /\ drops = 0
        /\ strays = 0 /\ beside = FALSE
    BY DEF UInit
  <1>6. pc \in {"head", "patch", "resync"} \cup Outcomes /\ pc \notin Outcomes /\ pc # "patch" /\ pc # "done"
    BY <1>5 DEF Outcomes
  <1>7. /\ attempt \in 0..MAX_ATTEMPTS /\ attempt < MAX_ATTEMPTS /\ offset \in Nat
        /\ offset \in 0..Length[Mine] /\ drops \in 0..MaxDrops /\ strays \in 0..MAX_ATTEMPTS
    BY <1>4, <1>5
  <1>8. beside \in BOOLEAN /\ slot \in Req \cup {Absent}
    BY <1>5
  <1>9. LoopInv
    BY <1>6, <1>7, <1>8 DEF LoopInv
  <1> QED
    BY <1>1, <1>3, <1>9 DEF UInv

LEMMA UNextInv ==
    ASSUME StoreAssumption, ClientAssumption, Fresh, UInv, [UNext]_allvars
    PROVE  UInv'
  <1>1. Sound'
    BY UNextSound DEF UInv
  <1>2. CASE UNCHANGED allvars
    <2>1. beside' \/ ServerInv'
      BY <1>2, ServerStays DEF UInv, allvars, history
    <2> QED
      BY <1>1, <1>2, <2>1 DEF UInv, LoopInv, allvars, client, history, vars
  <1>3. CASE Finished
    BY <1>2, <1>3 DEF Finished
  <1>4. ASSUME LoopInv' /\ (beside' \/ ServerInv') PROVE UInv'
    BY <1>1, <1>4 DEF UInv
  <1> QED
    BY <1>2, <1>3, <1>4, ServerKeeps, HeadAnsweredKeeps, PatchAnsweredKeeps, TroubleKeeps DEF UNext

-----------------------------------------------------------------------------
(* The theorems *)

\* The invariant of the store and what the client knows hold whatever is lost,
\* retried or restarted, up to the moment a PATCH goes to work beside a lost one;
\* the volume stays well formed even then (resumableUpload against
\* handleUploadResume).
THEOREM ClientInvariance ==
    ASSUME StoreAssumption, ClientAssumption, Fresh
    PROVE  USpec => []UInv
  <1>1. UInit => UInv
    BY UInitInv
  <1>2. UInv /\ [UNext]_allvars => UInv'
    BY UNextInv
  <1> QED
    BY <1>1, <1>2, PTL DEF USpec

\* The attempts stay within MAX_ATTEMPTS and the offset within the file, whatever
\* the server or a proxy answers (the offset only until a PATCH of the retry is
\* let in beside a lost one).
THEOREM ClientTypeCorrect ==
    ASSUME StoreAssumption, ClientAssumption, Fresh
    PROVE  USpec => []ClientTypeOK
  <1>1. UInv => ClientTypeOK
    <2>1. Length[Mine] \in Nat
      BY DEF StoreAssumption, ClientAssumption
    <2> QED
      BY <2>1 DEF UInv, Sound, LoopInv, ClientTypeOK
  <1> QED
    BY <1>1, ClientInvariance, PTL

\* When the promise of resumableUpload resolves, and no PATCH of a retry has gone to
\* work beside a lost one, the target shows exactly the version it was called for.
THEOREM SuccessCorrect ==
    ASSUME StoreAssumption, ClientAssumption, Fresh
    PROVE  USpec => []SuccessMeansPublished
  <1>1. UInv => SuccessMeansPublished
    BY DEF UInv, ServerInv, LoopInv, PublishedMine, SuccessMeansPublished
  <1> QED
    BY <1>1, ClientInvariance, PTL

-----------------------------------------------------------------------------
(* What the client believes is staged *)

\* n blocks are staged, or the target is published.
Staged(n) == dest # Absent \/ n <= SizeOf(part)

\* They are after this step.
StagedThen(n) == dest' # Absent \/ n <= SizeOf(part)'

\* What stands behind a request: no answer that waits for delivery exceeds what is
\* staged, no handler counts more than that, and one that appends does it to the
\* temp; unless the target is published.
Backed(r) ==
    /\ req[r].pc = "replied" => Staged(req[r].off)
    /\ Running(r) => Staged(req[r].n)
    /\ At(r, "patch", "body") => dest # Absent \/ req[r].fd = part
    /\ InWindow(r) => dest # Absent

\* The same after this step.
BackedThen(r) ==
    /\ req'[r].pc = "replied" => StagedThen(req'[r].off)
    /\ Running(r)' => StagedThen(req'[r].n)
    /\ At(r, "patch", "body")' => dest' # Absent \/ req'[r].fd = part'
    /\ InWindow(r)' => dest' # Absent

\* So is the offset the client has taken from an answer.
Acknowledged == Staged(offset) /\ \A r \in Req : Backed(r)

\* What is staged stays, and more may follow it, or it is published whole.
LEMMA UploadStages ==
    ASSUME StoreAssumption, ClientAssumption, Sound, LoopInv, [UNext]_allvars, part # Absent
    PROVE  Extended \/ (dest' = part /\ part' = Absent /\ inode'[part] = inode[part])
  <1>1. TypeOK /\ offset \in Nat /\ Mine \in File
    BY DEF Sound, LoopInv, ClientAssumption
  <1>2. CASE UNCHANGED vars
    <2>1. part' = part /\ Kept
      BY <1>1, <1>2, UnchangedKeeps DEF vars
    <2> QED
      BY <1>1, <2>1, KeptExtends
  <1>3. CASE Crash
    BY <1>1, <1>3, CrashEffect, KeptExtends
  <1>4. ASSUME NEW r \in Req, Sidecar(r) \/ HeadArrive(r) \/ HeadPart(r) \/ Deliver(r) PROVE Extended
    BY <1>1, <1>4, SidecarEffect, ReadEffect, KeptExtends DEF Read
  <1>5. ASSUME NEW r \in Req, PatchStat(r, Mine, offset) PROVE Extended
    BY <1>1, <1>5, PatchStatEffect, KeptExtends
  <1>6. ASSUME NEW r \in Req, Handling(r) PROVE Patch(r)
    BY <1>6 DEF Handling, Patch
  <1> QED
    BY <1>2, <1>3, <1>4, <1>5, <1>6, ClientRequests, PatchStaged DEF ServerStep

\* A published target stays published.
LEMMA PublishedOn ==
    ASSUME StoreAssumption, Sound, LoopInv, [UNext]_allvars, dest # Absent
    PROVE  dest' # Absent
  <1>1. ASSUME NEW r \in Req, ServerStep(r) PROVE dest' # Absent
    <2>1. CASE Handling(r)
      BY <2>1 DEF Handling, PatchOpen, PatchAppend, PatchEnd, PatchDrop, PatchWriteFails,
         PatchHash, PatchRename, Publish
    <2>2. CASE Sidecar(r) \/ HeadArrive(r) \/ HeadPart(r) \/ Deliver(r)
      BY <2>2, SidecarEffect, ReadEffect DEF Read
    <2>3. CASE PatchStat(r, Mine, offset)
      BY <2>3 DEF PatchStat
    <2> QED
      BY <1>1, <2>1, <2>2, <2>3 DEF ServerStep
  <1> QED
    BY <1>1, ClientRequests DEF Crash, vars

\* A confirmed offset stays confirmed.
LEMMA StagedOn ==
    ASSUME StoreAssumption, ClientAssumption, Sound, LoopInv, [UNext]_allvars,
           NEW n \in Nat, Staged(n)
    PROVE  StagedThen(n)
  <1>1. TypeOK /\ TypeOK'
    BY UNextSound DEF Sound
  <1>2. CASE dest # Absent
    BY <1>2, PublishedOn DEF StagedThen
  <1>3. CASE part # Absent /\ n <= SizeOf(part)
    <2>1. /\ part \in Inode /\ part \notin {Absent}
          /\ Len(inode[part]) \in Nat /\ n <= Len(inode[part])
      BY <1>1, <1>3 DEF TypeOK, Content, SizeOf
    <2>2. CASE Extended
      <3>1. part' = part /\ Len(inode'[part]) \in Nat /\ Len(inode[part]) <= Len(inode'[part])
        BY <1>1, <2>1, <2>2 DEF Extended, TypeOK, Content
      <3> QED
        BY <2>1, <3>1 DEF StagedThen, SizeOf
    <2>3. CASE dest' = part
      BY <2>1, <2>3 DEF StagedThen
    <2> QED
      BY <1>3, <2>2, <2>3, UploadStages
  <1>4. CASE part = Absent /\ n <= SizeOf(part)
    <2>1. n = 0
      BY <1>4 DEF SizeOf
    <2>2. SizeOf(part)' \in Nat
      BY <1>1 DEF SizeOf, TypeOK, Content
    <2> QED
      BY <2>1, <2>2 DEF StagedThen
  <1> QED
    BY <1>2, <1>3, <1>4 DEF Staged

\* A handler that stands still keeps what stands behind it.
LEMMA StillBacked ==
    ASSUME StoreAssumption, ClientAssumption, Sound, LoopInv, [UNext]_allvars,
           NEW q \in Req, Backed(q), req'[q] = req[q]
    PROVE  BackedThen(q)
  <1>1. TypeOK /\ FieldsInv(q)
    BY DEF Sound
  <1>2. req[q].off \in Nat /\ req[q].n \in Nat
    BY <1>1 DEF TypeOK, Request
  <1>3. /\ req'[q].pc = "replied" => StagedThen(req'[q].off)
        /\ Running(q)' => StagedThen(req'[q].n)
        /\ InWindow(q)' => dest' # Absent
    BY <1>2, StagedOn, PublishedOn DEF Backed, Running, InWindow
  <1>4. ASSUME At(q, "patch", "body"), dest' = Absent PROVE req[q].fd = part'
    <2>1. dest = Absent /\ req[q].fd = part /\ part # Absent
      BY <1>1, <1>4, PublishedOn DEF Backed, FieldsInv, Holds, StoreAssumption
    <2>2. part \in Inode
      BY <1>1, <2>1 DEF TypeOK
    <2> QED
      BY <1>4, <2>1, <2>2, UploadStages DEF Extended, StoreAssumption
  <1> QED
    BY <1>3, <1>4 DEF BackedThen, At
\* A handler that moves keeps counting what is staged.
LEMMA HandlerConfirms ==
    ASSUME StoreAssumption, ClientAssumption, Sound, LoopInv, [UNext]_allvars,
           NEW r \in Req, Backed(r), ServerStep(r)
    PROVE  Others(r) /\ BackedThen(r)
  <1>1. TypeOK /\ TypeOK' /\ FieldsInv(r)
    BY UNextSound DEF Sound
  <1>2. req[r].n \in Nat /\ SizeOf(part) \in Nat /\ SizeOf(part)' \in Nat
    BY <1>1 DEF TypeOK, Request, SizeOf, Content
  <1>3. /\ Running(r) => StagedThen(req[r].n)
        /\ dest # Absent => dest' # Absent
    BY <1>2, StagedOn, PublishedOn DEF Backed
  <1>4. ASSUME NEW status, NEW off, NEW says, NEW op, Answer(r, op, status, off, says, Absent),
               StagedThen(off)
        PROVE  Others(r) /\ BackedThen(r)
    <2>1. Others(r) /\ req'[r].pc = "replied" /\ req'[r].off = off
      BY <1>1, <1>4, AnswerSays
    <2> QED
      BY <1>4, <2>1 DEF BackedThen, Running, At, InWindow
  <1>5. ASSUME NEW q \in {"hash", "rename"}, NEW sum, Advance(r, q, req[r].n, Absent, sum), Running(r)
        PROVE  Others(r) /\ BackedThen(r)
    <2>1. Others(r) /\ req'[r].pc = q /\ req'[r].n = req[r].n
      BY <1>1, <1>5, AdvanceKnows
    <2> QED
      BY <1>3, <1>5, <2>1 DEF BackedThen, Running, At, InWindow
  <1>6. CASE HeadArrive(r) /\ dest = Absent
    <2>1. Start(r, "head", "headpart", Absent, 0, Absent)
      BY <1>6 DEF HeadArrive
    <2>2. Others(r) /\ req'[r].pc = "headpart" /\ req'[r].n = 0
      BY <1>1, <2>1, StartKnows
    <2> QED
      BY <1>2, <2>2 DEF BackedThen, StagedThen, Running, At, InWindow
  <1>7. CASE HeadArrive(r) /\ dest # Absent
    <2>1. Answer(r, "head", 200, SizeOf(dest), "complete", Absent)
      BY <1>7 DEF HeadArrive
    <2> QED
      BY <1>3, <1>4, <1>7, <2>1 DEF StagedThen
  <1>8. ASSUME UNCHANGED <<inode, part>> PROVE StagedThen(SizeOf(part))
    BY <1>2, <1>8 DEF StagedThen, SizeOf
  <1>9. CASE HeadPart(r)
    BY <1>4, <1>8, <1>9 DEF HeadPart
  <1>10. CASE PatchStat(r, Mine, offset)
    <2>1. CASE Answer(r, "patch", 409, SizeOf(part), "none", Absent)
      BY <1>4, <1>8, <1>10, <2>1 DEF PatchStat
    <2>2. CASE offset = SizeOf(part) /\ Start(r, "patch", "open", Mine, offset, Absent)
      <3>1. Others(r) /\ req'[r].pc = "open" /\ req'[r].n = SizeOf(part)
        BY <1>1, <2>2, StartKnows
      <3>2. StagedThen(SizeOf(part))
        BY <1>8, <1>10 DEF PatchStat
      <3> QED
        BY <3>1, <3>2 DEF BackedThen, Running, At, InWindow
    <2> QED
      BY <1>10, <2>1, <2>2 DEF PatchStat
  <1>11. CASE PatchOpen(r)
    <2>1. PICK i \in Inode :
             /\ Moves(r) /\ req'[r].pc = "body" /\ req'[r].fd = i /\ req'[r].n = req[r].n /\ part' = i
      BY <1>1, <1>11, PatchOpenEffect
    <2>2. Running(r)
      BY <1>11 DEF PatchOpen, At, Running
    <2> QED
      BY <1>3, <2>1, <2>2 DEF Moves, Others, BackedThen, At, InWindow
  <1>12. CASE PatchAppend(r)
    <2>1. PICK i \in Inode, k \in Nat \ {0} :
             /\ i = req[r].fd /\ k = req[r].n + 1
             /\ Moves(r) /\ req'[r].pc = "body" /\ req'[r].fd = i /\ req'[r].n = k
             /\ UNCHANGED <<dest, part>>
             /\ inode'[i] = WriteAt(inode[i], Len(inode[i]) + 1, <<req[r].file, k>>)
      BY <1>12, PatchAppendEffect
    <2>2. At(r, "patch", "body") /\ Running(r)
      BY <1>12 DEF PatchAppend, At, Running
    <2>3. StagedThen(k)
      <3>1. CASE dest # Absent
        BY <1>3, <3>1 DEF StagedThen
      <3>2. CASE dest = Absent
        <4>1. part = i /\ part # Absent /\ inode[i] \in Content /\ req[r].n <= Len(inode[i])
          BY <1>1, <2>1, <2>2, <3>2 DEF Backed, Staged, SizeOf, TypeOK, StoreAssumption
        <4>2. Len(inode'[i]) = Len(inode[i]) + 1 /\ Len(inode[i]) \in Nat
          <5>1. Len(inode[i]) \in Nat
            BY <4>1 DEF Content
          <5> QED
            BY <2>1, <5>1 DEF WriteAt
        <4>3. SizeOf(part)' = Len(inode'[i])
          BY <2>1, <4>1 DEF SizeOf
        <4> QED
          BY <1>2, <2>1, <4>1, <4>2, <4>3 DEF StagedThen
      <3> QED
        BY <3>1, <3>2
    <2>4. dest' # Absent \/ req'[r].fd = part'
      BY <2>1, <2>2 DEF Backed
    <2> QED
      BY <2>1, <2>3, <2>4 DEF Moves, Others, BackedThen, At, InWindow
  <1>13. CASE PatchEnd(r) \/ PatchDrop(r) \/ PatchWriteFails(r) \/ PatchHash(r)
    <2>1. Running(r)
      BY <1>13 DEF PatchEnd, PatchDrop, PatchWriteFails, PatchHash, At, Running
    <2>2. \/ \E status, says : Answer(r, "patch", status, req[r].n, says, Absent)
          \/ \E q, sum : q \in {"hash", "rename"} /\ Advance(r, q, req[r].n, Absent, sum)
      <3>1. CASE PatchEnd(r)
        BY <3>1 DEF PatchEnd
      <3>2. CASE PatchHash(r)
        BY <3>2 DEF PatchHash
      <3>3. CASE PatchDrop(r) \/ PatchWriteFails(r)
        BY <3>3 DEF PatchDrop, PatchWriteFails
      <3> QED
        BY <1>13, <3>1, <3>2, <3>3
    <2> QED
      BY <1>3, <1>4, <1>5, <2>1, <2>2
  <1>14. CASE PatchRename(r) /\ ~Publish(r)
    <2>1. Running(r) /\ Answer(r, "patch", 500, req[r].n, "none", Absent)
      BY <1>14 DEF PatchRename, At, Running
    <2> QED
      BY <1>3, <1>4, <2>1
  <1>15. CASE PatchRename(r) /\ Publish(r)
    <2>1. Moves(r) /\ req'[r].pc = "sidecar" /\ part \in Inode /\ dest' = part
      BY <1>1, <1>15, PublishEffect
    <2>2. dest' # Absent
      BY <2>1 DEF StoreAssumption
    <2> QED
      BY <2>1, <2>2 DEF Moves, Others, BackedThen, StagedThen, At
  <1>16. CASE Sidecar(r)
    <2>1. InWindow(r) /\ Moves(r)
      BY <1>16, SidecarEffect
    <2>2. dest' # Absent
      BY <1>3, <2>1 DEF Backed
    <2> QED
      BY <2>1, <2>2 DEF Moves, Others, BackedThen, StagedThen
  <1>17. CASE Deliver(r)
    <2>1. Others(r) /\ req'[r].pc = "idle"
      BY <1>1, <1>17, BecomeOthers DEF Deliver, Idle
    <2> QED
      BY <2>1 DEF BackedThen, Running, At, InWindow
  <1> QED
    BY <1>6, <1>7, <1>9, <1>10, <1>11, <1>12, <1>13, <1>14, <1>15, <1>16, <1>17 DEF ServerStep, Handling

\* So it is behind every request after any step.
LEMMA AnswersConfirm ==
    ASSUME StoreAssumption, ClientAssumption, Sound, LoopInv, Acknowledged, [UNext]_allvars,
           NEW q \in Req
    PROVE  BackedThen(q)
  <1>1. TypeOK /\ Backed(q)
    BY DEF Sound, Acknowledged
  <1>2. ASSUME NEW r \in Req, ServerStep(r) PROVE BackedThen(q)
    <2>1. Others(r) /\ BackedThen(r)
      BY <1>2, HandlerConfirms DEF Acknowledged
    <2> QED
      BY <1>1, <2>1, StillBacked DEF Others
  <1>3. CASE Crash
    <2>1. req'[q].pc = "idle"
      BY <1>1, <1>3, CrashEffect DEF Idle
    <2> QED
      BY <2>1 DEF BackedThen, Running, At, InWindow
  <1>4. CASE UNCHANGED vars
    BY <1>1, <1>4, StillBacked DEF vars
  <1> QED
    BY <1>2, <1>3, <1>4, ClientRequests

\* What the client takes over comes from such an answer, or from none.
LEMMA OffsetConfirms ==
    ASSUME StoreAssumption, ClientAssumption, Sound, LoopInv, Acknowledged, [UNext]_allvars
    PROVE  StagedThen(offset')
  <1>1. TypeOK /\ Staged(offset) /\ offset \in Nat
    BY DEF Sound, Acknowledged, LoopInv
  <1>2. ASSUME offset' = offset PROVE StagedThen(offset')
    BY <1>1, <1>2, StagedOn
  <1>3. ASSUME slot # Absent, req[slot].pc = "replied", offset' = req[slot].off PROVE StagedThen(offset')
    <2>1. slot \in Req /\ req[slot].off \in Nat /\ Staged(req[slot].off)
      BY <1>1, <1>3 DEF LoopInv, TypeOK, Request, Acknowledged, Backed
    <2> QED
      BY <1>3, <2>1, StagedOn
  <1>4. ASSUME offset' = 0 PROVE StagedThen(offset')
    <2>1. Staged(0)
      BY <1>1 DEF Staged, SizeOf, TypeOK, Content
    <2> QED
      BY <1>4, <2>1, StagedOn
  <1>5. CASE HeadAnswered \/ PatchAccepted
    BY <1>2, <1>3, <1>5 DEF HeadAnswered, PatchAccepted, Stop, NextAttempt
  <1>6. CASE HeadWithoutHeaders
    BY <1>4, <1>6 DEF HeadWithoutHeaders, NextAttempt
  <1>7. CASE PatchConflict \/ PatchRejected \/ PatchLost \/ HeadLost \/ Restart
    BY <1>2, <1>7 DEF PatchConflict, PatchRejected, PatchLost, HeadLost, Restart, Caught, Stop
  <1>8. ASSUME NEW r \in Req, SendHead(r) \/ SendPatch(r) \/ Serve(r) \/ Discard(r)
        PROVE  offset' = offset
    BY <1>8 DEF SendHead, SendPatch, Serve, Discard, client
  <1>9. CASE Finished \/ UNCHANGED allvars
    BY <1>2, <1>9 DEF Finished, allvars, client
  <1> QED
    BY <1>2, <1>5, <1>6, <1>7, <1>8, <1>9 DEF UNext

\* The offset the client resumes from never exceeds what is staged: whatever
\* handlers it has lost touch with still append, fail or die, and even when two of
\* its PATCHes append at once, it sends bytes twice at worst and never leaves any
\* out.
THEOREM OffsetCorrect ==
    ASSUME StoreAssumption, ClientAssumption, Fresh
    PROVE  USpec => []OffsetStaged
  <1>1. UInit => Acknowledged
    <2> SUFFICES ASSUME UInit PROVE Acknowledged
      OBVIOUS
    <2>1. TypeOK
      BY UInitInv DEF UInv, Sound
    <2>2. offset = 0 /\ \A r \in Req : req[r].pc = "idle"
      BY DEF UInit, Idle
    <2> QED
      BY <2>1, <2>2 DEF Acknowledged, Backed, Staged, SizeOf, TypeOK, Content, Running, At, InWindow
  <1>2. UInv /\ Acknowledged /\ [UNext]_allvars => Acknowledged'
    <2> SUFFICES ASSUME UInv, Acknowledged, [UNext]_allvars PROVE Acknowledged'
      OBVIOUS
    <2>1. StagedThen(offset') /\ \A r \in Req : BackedThen(r)
      BY OffsetConfirms, AnswersConfirm DEF UInv
    <2> QED
      BY <2>1 DEF Acknowledged, Backed, BackedThen, Staged, StagedThen, At, Running, InWindow
  <1>3. Acknowledged => OffsetStaged
    BY DEF Acknowledged, Staged, OffsetStaged
  <1> QED
    BY <1>1, <1>2, <1>3, ClientInvariance, PTL DEF USpec

\* A whole call, with all its retries and all the handlers it has left behind,
\* keeps what earlier calls have staged: bytes are only added to it, or it is
\* published whole.
THEOREM UploadKeepsStaged ==
    ASSUME StoreAssumption, ClientAssumption, Fresh
    PROVE  USpec => [][part # Absent =>
                         Extended \/ (dest' = part /\ part' = Absent /\ inode'[part] = inode[part])]_vars
  <1>1. UInv /\ [UNext]_allvars =>
          [part # Absent =>
             Extended \/ (dest' = part /\ part' = Absent /\ inode'[part] = inode[part])]_vars
    BY UploadStages DEF UInv
  <1> QED
    BY <1>1, ClientInvariance, PTL DEF USpec
=============================================================================
