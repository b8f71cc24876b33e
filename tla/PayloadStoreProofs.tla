------------------------- MODULE PayloadStoreProofs -------------------------
(***************************************************************************)
(* Proofs about PayloadStore, for any number of versions, sizes, requests  *)
(* and faults.  They need the discipline the code itself does not enforce: *)
(* no client resumes what was staged for another version, and no PATCH or  *)
(* PUT is in service next to another one, nor a PATCH next to a DELETE.    *)
(***************************************************************************)
EXTENDS PayloadStore, TLAPS

Disciplined ==
    /\ ~ForeignResume
    /\ Overlaps \subseteq {{"delete"}, {"put", "delete"}}

-----------------------------------------------------------------------------
(* The inductive invariant *)

Writers == {"patch", "put"}
Writing(r) == Running(r) /\ req[r].op \in Writers
InWindow(r) == req[r].pc \in {"sidecar", "sidewrite"}

\* What the discipline leaves together.
Exclusive ==
    \A r, q \in Req :
        Writing(r) /\ Running(q) /\ q # r =>
            req[q].op \notin Writers /\ (req[q].op = "delete" => req[r].op = "put")

\* The temp holds the beginning of one version.
StagedPiece ==
    part # Absent => \E f \in File : \E k \in 0..Length[f] : inode[part] = Piece(f, k)

\* What a PATCH knows of the temp, from its stat to its rename.
PatchInv(r) ==
    LET f == req[r].file IN
    /\ At(r, "patch", "open") =>
        /\ f \in File /\ req[r].n \in 0..Length[f]
        /\ part = Absent => req[r].n = 0
        /\ part # Absent => inode[part] = Piece(f, req[r].n)
    /\ At(r, "patch", "body") =>
        /\ f \in File /\ req[r].n \in 0..Length[f]
        /\ part # Absent /\ req[r].fd = part
        /\ inode[part] = Piece(f, req[r].n)
    /\ At(r, "patch", "hash") =>
        f \in File /\ part # Absent /\ inode[part] = Body(f)
    /\ At(r, "patch", "rename") =>
        f \in File /\ part # Absent /\ inode[part] = Body(f) /\ req[r].sum = Body(f)

\* What a PUT knows of the inode it created, though a DELETE may unlink it.
PutInv(r) ==
    LET f == req[r].file IN
    /\ At(r, "put", "stream") =>
        /\ f \in File /\ req[r].n \in 0..Length[f]
        /\ req[r].fd # Absent /\ req[r].fd # dest
        /\ part # Absent => part = req[r].fd
        /\ inode[req[r].fd] = Piece(f, req[r].n)
    /\ At(r, "put", "rename") =>
        /\ f \in File /\ req[r].sum = Body(f)
        /\ part # Absent => inode[part] = Body(f)

\* Between rename and sidecar: an upload whose digest is that of the target.
WindowInv(r) ==
    InWindow(r) =>
        /\ req[r].op \in Writers
        /\ req[r].sum \in Content
        /\ dest # Absent => inode[dest] = req[r].sum

\* An upload that has its temp open.
Holds(r) == At(r, "patch", "body") \/ At(r, "put", "stream")

\* A download reads a whole version that no upload can reach, and has sent the
\* beginning of it.
GetInv(r) ==
    /\ At(r, "get", "send") =>
        /\ req[r].fd # Absent /\ req[r].fd # part
        /\ \A q \in Req : Holds(q) => req[q].fd # req[r].fd
        /\ \E f \in File : \E k \in 0..Length[f] :
              inode[req[r].fd] = Body(f) /\ req[r].sum = Piece(f, k) /\ k <= req[r].n
    /\ At(r, "get", "replied") /\ req[r].status = 200 =>
        \E f \in File : req[r].sum = Piece(f, req[r].off)

IInv ==
    /\ TypeOK
    /\ Exclusive
    /\ StagedPiece
    /\ PublishedIntact
    /\ SidecarMatches
    /\ \A r \in Req : PatchInv(r) /\ PutInv(r) /\ WindowInv(r) /\ GetInv(r)

-----------------------------------------------------------------------------
(* Contents *)

\* A piece of a version is a content of its length.
LEMMA PieceType ==
    ASSUME NEW f \in File, NEW k \in Nat
    PROVE  Piece(f, k) \in Content /\ Len(Piece(f, k)) = k
  BY DEF Piece, Content, Block

\* Writing a block keeps a file a sequence of blocks.
LEMMA WriteAtType ==
    ASSUME NEW s \in Content, NEW p \in Nat \ {0}, NEW b \in Block
    PROVE  WriteAt(s, p, b) \in Content
  BY DEF WriteAt, Content, Block

\* Writing the next block of a version at the end of a piece makes the next piece.
LEMMA WriteAtPiece ==
    ASSUME NEW f \in File, NEW k \in Nat
    PROVE  WriteAt(Piece(f, k), k + 1, <<f, k + 1>>) = Piece(f, k + 1)
  BY PieceType DEF Piece, WriteAt

\* A piece of one version that is a piece of another is no longer than either.
LEMMA PieceShared ==
    ASSUME StoreAssumption, NEW f \in File, NEW g \in File,
           NEW k \in 0..Length[g], NEW m \in Nat, Piece(g, k) = Piece(f, m)
    PROVE  m \in 0..Length[f]
  <1>1. k = m
    BY PieceType DEF StoreAssumption
  <1>2. CASE m = 0
    BY <1>2 DEF StoreAssumption
  <1>3. CASE m # 0
    <2>1. Piece(g, k)[1] = <<g, 1>> /\ Piece(f, m)[1] = <<f, 1>>
      BY <1>1, <1>3 DEF Piece
    <2>2. g = f
      BY <2>1
    <2> QED
      BY <1>1, <2>2
  <1> QED
    BY <1>2, <1>3

\* One more block of a version, read from the whole of it.
LEMMA AppendPiece ==
    ASSUME StoreAssumption, NEW f \in File, NEW k \in Nat, k < Length[f]
    PROVE  Append(Piece(f, k), Body(f)[k + 1]) = Piece(f, k + 1)
  BY PieceType DEF Piece, Body, StoreAssumption

\* Nothing of a version is the empty content.
LEMMA EmptyPiece ==
    ASSUME NEW f \in File
    PROVE  Piece(f, 0) = <<>>
  BY DEF Piece

\* A whole version is a content and a version.
LEMMA BodyType ==
    ASSUME StoreAssumption, NEW f \in File
    PROVE  Body(f) \in Content /\ Body(f) \in Versions
  BY PieceType DEF StoreAssumption, Body, Versions

-----------------------------------------------------------------------------
(* What MayStart excludes under the discipline *)

LEMMA StartPatch ==
    ASSUME Disciplined, MayStart("patch"), NEW q \in Req, Running(q)
    PROVE  req[q].op \notin Changing
  <1> SUFFICES ASSUME req[q].op \in Changing PROVE FALSE
    OBVIOUS
  <1>1. {"patch", req[q].op} \in {{"delete"}, {"put", "delete"}}
    BY DEF Disciplined, MayStart
  <1>2. "patch" \notin {"delete"} /\ "patch" \notin {"put", "delete"}
    OBVIOUS
  <1> QED
    BY <1>1, <1>2

LEMMA StartPut ==
    ASSUME Disciplined, MayStart("put"), NEW q \in Req, Running(q)
    PROVE  req[q].op \notin Writers
  <1> SUFFICES ASSUME req[q].op \in Writers PROVE FALSE
    OBVIOUS
  <1>1. {"put", req[q].op} \in {{"delete"}, {"put", "delete"}}
    BY DEF Disciplined, MayStart, Writers, Changing
  <1>2. "delete" \notin {"put", req[q].op}
    BY DEF Writers
  <1> QED
    BY <1>1, <1>2

LEMMA StartDelete ==
    ASSUME Disciplined, MayStart("delete"), NEW q \in Req, Writing(q)
    PROVE  req[q].op = "put"
  <1> SUFFICES ASSUME req[q].op = "patch" PROVE FALSE
    BY DEF Writing, Writers
  <1>1. {"delete", req[q].op} \in {{"delete"}, {"put", "delete"}}
    BY DEF Disciplined, MayStart, Writing, Changing
  <1>2. "patch" \notin {"delete"} /\ "patch" \notin {"put", "delete"}
    OBVIOUS
  <1> QED
    BY <1>1, <1>2

-----------------------------------------------------------------------------
(* Steps *)

\* Nothing a name or a descriptor still reaches has changed.
Kept ==
    /\ inode' \in [Inode -> Content]
    /\ \A i \in Inode : Live(i)' => inode'[i] = inode[i]

\* Closing a descriptor or dropping a name keeps what is still reached.
LEMMA StoreKeeps ==
    ASSUME StoreAssumption, TypeOK, Store(inode)
    PROVE  Kept
  BY DEF TypeOK, Store, Kept, Content

\* Leaving the volume alone keeps everything.
LEMMA UnchangedKeeps ==
    ASSUME TypeOK, UNCHANGED inode
    PROVE  Kept
  BY DEF TypeOK, Kept

\* Storing new content under i keeps the rest.
LEMMA StoreAt ==
    ASSUME StoreAssumption, TypeOK, NEW i \in Inode, NEW c \in Content,
           Store([inode EXCEPT ![i] = c]), Live(i)'
    PROVE  /\ inode' \in [Inode -> Content]
           /\ inode'[i] = c
           /\ \A j \in Inode : Live(j)' /\ j # i => inode'[j] = inode[j]
  BY DEF TypeOK, Store, Content

\* Only request r has moved.
Moves(r) ==
    /\ req' \in [Req -> Request]
    /\ \A q \in Req \ {r} : req'[q] = req[q]

\* A step that touches no inode a download reads does not disturb it: w is the
\* inode written to, or Absent.
LEMMA ReadersUndisturbed ==
    ASSUME StoreAssumption, IInv, NEW r \in Req, Moves(r), NEW q \in Req, q # r,
           NEW w \in Inode \cup {Absent},
           At(q, "get", "send") => w # req[q].fd,
           \A j \in Inode : Live(j)' /\ j # w => inode'[j] = inode[j],
           part' \in {part, Absent, w},
           Holds(r)' => req'[r].fd = w \/ (Holds(r) /\ req'[r].fd = req[r].fd)
    PROVE  GetInv(q)'
  <1>1. GetInv(q) /\ TypeOK /\ \A x \in Req \ {r} : req'[x] = req[x]
    BY DEF IInv, Moves
  <1>2. CASE At(q, "get", "send")
    <2>1. req[q].fd \in Inode /\ req[q].fd # Absent /\ req[q].fd # part
      BY <1>1, <1>2 DEF GetInv, TypeOK, Request
    <2>2. inode'[req[q].fd] = inode[req[q].fd]
      BY <1>1, <1>2, <2>1 DEF Live
    <2>3. ASSUME NEW x \in Req, Holds(x)' PROVE req'[x].fd # req'[q].fd
      BY <1>1, <1>2, <2>3 DEF GetInv, Holds, At
    <2> QED
      BY <1>1, <1>2, <2>1, <2>2, <2>3 DEF GetInv, At
  <1>3. CASE ~At(q, "get", "send")
    BY <1>1, <1>3 DEF GetInv, At
  <1> QED
    BY <1>2, <1>3

\* A step of a handler that neither is nor becomes an upload in progress, and
\* only ever drops names, keeps the invariant.
LEMMA ShrinkStep ==
    ASSUME StoreAssumption, IInv, NEW r \in Req, Moves(r),
           ~Writing(r)', ~InWindow(r)', ~InWindow(r), GetInv(r)',
           Running(r)' /\ req'[r].op = "delete" =>
               \A q \in Req \ {r} : Writing(q) => req[q].op = "put",
           dest' \in {dest, Absent}, side' \in {side, Absent}, part' \in {part, Absent},
           part' = part \/ \A q \in Req \ {r} : Writing(q) => req[q].op = "put",
           faults' = faults, Kept
    PROVE  IInv'
  <1>1. TypeOK'
    BY DEF Moves, IInv, TypeOK, Kept
  <1>2. \A q \in Req \ {r} : req'[q] = req[q]
    BY DEF Moves
  <1>3. \A q \in Req \ {r} : Writing(q)' = Writing(q) /\ Running(q)' = Running(q)
    BY <1>2 DEF Writing, Running
  <1>4. Exclusive'
    <2> SUFFICES ASSUME NEW x \in Req, NEW q \in Req, Writing(x)', Running(q)', q # x
                 PROVE  /\ req'[q].op \notin Writers
                        /\ req'[q].op = "delete" => req'[x].op = "put"
      BY DEF Exclusive
    <2>1. x # r /\ req'[x] = req[x] /\ Writing(x)
      BY <1>2, <1>3
    <2>2. CASE q = r
      BY <1>2, <2>1, <2>2 DEF Writing
    <2>3. CASE q # r
      BY <1>2, <1>3, <2>1, <2>3 DEF IInv, Exclusive
    <2> QED
      BY <2>2, <2>3
  <1>5. dest' # Absent => dest' = dest /\ inode'[dest] = inode[dest]
    BY DEF Kept, IInv, TypeOK, Live
  <1>6. part' # Absent => part' = part /\ inode'[part] = inode[part]
    BY DEF Kept, IInv, TypeOK, Live
  <1>7. StagedPiece' /\ PublishedIntact'
    BY <1>5, <1>6 DEF IInv, StagedPiece, PublishedIntact
  <1>8. SidecarMatches'
    BY <1>2, <1>5 DEF IInv, SidecarMatches, InWindow
  <1>9. ASSUME NEW q \in Req PROVE PatchInv(q)' /\ PutInv(q)' /\ WindowInv(q)' /\ GetInv(q)'
    <2>1. CASE q = r
      BY <1>2, <2>1 DEF PatchInv, PutInv, WindowInv, At, Writing, Running, Writers
    <2>2. CASE q # r
      <3>1. req'[q] = req[q] /\ PatchInv(q) /\ PutInv(q) /\ WindowInv(q)
        BY <1>2, <2>2 DEF IInv
      <3>2. PatchInv(q)'
        <4>1. Writing(q) /\ req[q].op = "patch" => part' = part
          BY <2>2
        <4>2. \A pc \in {"open", "body", "hash", "rename"} : At(q, "patch", pc) => part' = part
          BY <4>1 DEF At, Writing, Running, Writers
        <4> QED
          BY <1>6, <3>1, <4>2 DEF PatchInv, At
      <3>3. PutInv(q)'
        <4>1. At(q, "put", "stream") => req[q].fd \in Inode
          BY <3>1 DEF PutInv, IInv, TypeOK, Request
        <4>2. At(q, "put", "stream") => inode'[req[q].fd] = inode[req[q].fd]
          BY <3>1, <4>1 DEF Kept, Live
        <4> QED
          BY <1>5, <1>6, <3>1, <4>2 DEF PutInv, At
      <3>4. WindowInv(q)'
        BY <1>5, <3>1 DEF WindowInv, InWindow
      <3>5. GetInv(q)'
        <4>1. ~Holds(r)'
          BY DEF Holds, At, Writing, Running, Writers
        <4>2. At(q, "get", "send") => Absent # req[q].fd
          BY DEF IInv, GetInv
        <4> QED
          BY <2>2, <4>1, <4>2, ReadersUndisturbed DEF Kept
      <3> QED
        BY <3>2, <3>3, <3>4, <3>5
    <2> QED
      BY <2>1, <2>2
  <1> QED
    BY <1>1, <1>4, <1>7, <1>8, <1>9 DEF IInv

\* A step of the only upload in progress keeps the invariant if it keeps what
\* concerns the volume and itself.
LEMMA WriterStep ==
    ASSUME StoreAssumption, IInv, NEW r \in Req, Moves(r),
           Running(r)' => req'[r].op \in Writers,
           \A q \in Req \ {r} : Running(q) =>
               req[q].op \notin Writers /\ (req[q].op = "delete" => req'[r].op = "put"),
           TypeOK', StagedPiece', PublishedIntact', SidecarMatches',
           PatchInv(r)', PutInv(r)', WindowInv(r)', \A q \in Req : GetInv(q)'
    PROVE  IInv'
  <1>1. \A q \in Req \ {r} : req'[q] = req[q]
    BY DEF Moves
  <1>2. Exclusive'
    BY <1>1 DEF Exclusive, Writing, Running, Writers
  <1>3. ASSUME NEW q \in Req, q # r PROVE PatchInv(q)' /\ PutInv(q)' /\ WindowInv(q)'
    <2>1. req'[q] = req[q]
      BY <1>1, <1>3
    <2>2. ~(Running(q) /\ req[q].op \in Writers)
      BY <1>3
    <2>3. ~InWindow(q)
      BY <2>2 DEF IInv, WindowInv, InWindow, Running
    <2> QED
      BY <2>1, <2>2, <2>3 DEF PatchInv, PutInv, WindowInv, InWindow, At, Running, Writers
  <1> QED
    BY <1>2, <1>3 DEF IInv

-----------------------------------------------------------------------------
(* How a request moves *)

\* A free slot is a request.
LEMMA IdleType ==
    ASSUME StoreAssumption
    PROVE  Idle \in Request
  BY DEF Idle, Request, Ops, PCs, Says

\* The values the actions give to the fields of a request.
LEMMA Literals ==
    /\ "patch" \in Ops /\ "put" \in Ops /\ "delete" \in Ops
    /\ "verify" \in Ops /\ "head" \in Ops /\ "get" \in Ops
    /\ "open" \in PCs /\ "body" \in PCs /\ "hash" \in PCs /\ "rename" \in PCs
    /\ "stream" \in PCs /\ "cleanup" \in PCs /\ "sidecar" \in PCs /\ "sidewrite" \in PCs
    /\ "unlink" \in PCs /\ "unside" \in PCs /\ "statpart" \in PCs /\ "unpart" \in PCs
    /\ "expect" \in PCs /\ "digest" \in PCs /\ "headpart" \in PCs
    /\ "fetch" \in PCs /\ "send" \in PCs
    /\ "none" \in Says /\ "complete" \in Says /\ "partial" \in Says
    /\ "match" \in Says /\ "mismatch" \in Says
    /\ 0 \in Nat /\ 200 \in Nat /\ 201 \in Nat /\ 204 \in Nat
    /\ 404 \in Nat /\ 409 \in Nat /\ 500 \in Nat
    /\ Absent \in Content \cup {Absent} /\ Absent \in Inode \cup {Absent}
    /\ Absent \in File \cup {Absent}
  BY DEF Ops, PCs, Says

\* Assigning a request moves just that request.
LEMMA BecomeMoves ==
    ASSUME TypeOK, NEW r \in Req, NEW new \in Request, Become(r, new)
    PROVE  Moves(r) /\ req'[r] = new
  BY DEF TypeOK, Become, Moves

LEMMA StartMoves ==
    ASSUME StoreAssumption, TypeOK, NEW r \in Req, NEW op \in Ops, NEW pc \in PCs,
           NEW f \in File \cup {Absent}, NEW n \in Nat, NEW fd \in Inode \cup {Absent},
           Start(r, op, pc, f, n, fd)
    PROVE  /\ Moves(r) /\ req'[r].op = op /\ req'[r].pc = pc
           /\ req'[r].file = f /\ req'[r].n = n /\ req'[r].fd = fd
  <1> DEFINE new == [Idle EXCEPT !.op = op, !.pc = pc, !.file = f, !.n = n, !.fd = fd]
  <1>1. new \in Request
    BY IdleType DEF Request
  <1>2. new.op = op /\ new.pc = pc /\ new.file = f /\ new.n = n /\ new.fd = fd
    BY DEF Idle
  <1>3. Become(r, new)
    BY DEF Start
  <1> HIDE DEF new
  <1> QED
    BY <1>1, <1>2, <1>3, BecomeMoves

LEMMA GotoMoves ==
    ASSUME TypeOK, NEW r \in Req, NEW pc \in PCs, Goto(r, pc)
    PROVE  /\ Moves(r) /\ req'[r].op = req[r].op /\ req'[r].pc = pc
           /\ req'[r].file = req[r].file /\ req'[r].n = req[r].n
           /\ req'[r].fd = req[r].fd /\ req'[r].sum = req[r].sum
  <1> DEFINE new == [req[r] EXCEPT !.pc = pc]
  <1>1. req[r] \in Request
    BY DEF TypeOK
  <1>2. new \in Request
    BY <1>1 DEF Request
  <1>3. /\ new.op = req[r].op /\ new.pc = pc /\ new.file = req[r].file
        /\ new.n = req[r].n /\ new.fd = req[r].fd /\ new.sum = req[r].sum
    BY <1>1 DEF Request
  <1>4. Become(r, new)
    BY DEF Goto
  <1> HIDE DEF new
  <1> QED
    BY <1>2, <1>3, <1>4, BecomeMoves

LEMMA AdvanceMoves ==
    ASSUME TypeOK, NEW r \in Req, NEW pc \in PCs, NEW n \in Nat,
           NEW fd \in Inode \cup {Absent}, NEW sum \in Content \cup {Absent},
           Advance(r, pc, n, fd, sum)
    PROVE  /\ Moves(r) /\ req'[r].op = req[r].op /\ req'[r].pc = pc
           /\ req'[r].file = req[r].file /\ req'[r].n = n
           /\ req'[r].fd = fd /\ req'[r].sum = sum
  <1> DEFINE new == [req[r] EXCEPT !.pc = pc, !.n = n, !.fd = fd, !.sum = sum]
  <1>1. req[r] \in Request
    BY DEF TypeOK
  <1>2. new \in Request
    BY <1>1 DEF Request
  <1>3. /\ new.op = req[r].op /\ new.pc = pc /\ new.file = req[r].file
        /\ new.n = n /\ new.fd = fd /\ new.sum = sum
    BY <1>1 DEF Request
  <1>4. Become(r, new)
    BY DEF Advance
  <1> HIDE DEF new
  <1> QED
    BY <1>2, <1>3, <1>4, BecomeMoves

LEMMA AnswerMoves ==
    ASSUME StoreAssumption, TypeOK, NEW r \in Req, NEW op \in Ops, NEW status \in Nat,
           NEW off \in Nat, NEW says \in Says, NEW sum \in Content \cup {Absent},
           Answer(r, op, status, off, says, sum)
    PROVE  /\ Moves(r) /\ req'[r].op = op /\ req'[r].pc = "replied"
           /\ req'[r].status = status /\ req'[r].off = off /\ req'[r].sum = sum
  <1> DEFINE new == [Idle EXCEPT !.op = op, !.pc = "replied", !.status = status,
                                 !.off = off, !.says = says, !.sum = sum]
  <1>1. new \in Request
    BY DEF Idle, Request, PCs
  <1>2. /\ new.op = op /\ new.pc = "replied" /\ new.status = status
        /\ new.off = off /\ new.sum = sum
    BY DEF Idle
  <1>3. Become(r, new)
    BY DEF Answer
  <1> HIDE DEF new
  <1> QED
    BY <1>1, <1>2, <1>3, BecomeMoves

LEMMA ReplyMoves ==
    ASSUME StoreAssumption, TypeOK, NEW r \in Req, NEW op \in Ops, NEW status \in Nat,
           Reply(r, op, status)
    PROVE  /\ Moves(r) /\ req'[r].op = op /\ req'[r].pc = "replied"
           /\ req'[r].status = status
  BY AnswerMoves, Literals DEF Reply

-----------------------------------------------------------------------------
(* The operations that only read *)

\* How the slot of a reader moves: it never becomes a changing operation.
ReaderMoves(r) ==
    /\ Moves(r) /\ ~InWindow(r)' /\ GetInv(r)'
    /\ Running(r)' => req'[r].op \notin Changing

\* Anything but a download has moved to a state outside the windows.
LEMMA NoGet ==
    ASSUME NEW r \in Req, Moves(r), ~InWindow(r)', req'[r].op # "get",
           req'[r].pc = "replied" \/ req'[r].op \notin Changing
    PROVE  ReaderMoves(r)
  BY DEF ReaderMoves, GetInv, At, Running

\* HEAD
LEMMA HeadMoves ==
    ASSUME StoreAssumption, TypeOK, NEW r \in Req, HeadArrive(r) \/ HeadPart(r)
    PROVE  ReaderMoves(r)
  <1>1. SizeOf(dest) \in Nat /\ SizeOf(part) \in Nat
    BY DEF TypeOK, Content, SizeOf
  <1>2. /\ "head" \in Ops /\ "headpart" \in PCs /\ 0 \in Nat /\ 200 \in Nat
        /\ "complete" \in Says /\ "partial" \in Says
        /\ Absent \in Content \cup {Absent} /\ Absent \in File \cup {Absent}
        /\ Absent \in Inode \cup {Absent}
    BY Literals
  <1>3. CASE HeadArrive(r) /\ dest # Absent
    <2>1. Answer(r, "head", 200, SizeOf(dest), "complete", Absent)
      BY <1>3 DEF HeadArrive
    <2>2. Moves(r) /\ req'[r].op = "head" /\ req'[r].pc = "replied"
      BY <1>1, <1>2, <2>1, AnswerMoves
    <2> QED
      BY <2>2, NoGet DEF InWindow
  <1>4. CASE HeadArrive(r) /\ dest = Absent
    <2>1. Start(r, "head", "headpart", Absent, 0, Absent)
      BY <1>4 DEF HeadArrive
    <2>2. Moves(r) /\ req'[r].op = "head" /\ req'[r].pc = "headpart"
      BY <1>2, <2>1, StartMoves
    <2> QED
      BY <2>2, NoGet DEF InWindow, Changing
  <1>5. CASE HeadPart(r)
    <2>1. Answer(r, "head", 200, SizeOf(part), "partial", Absent)
      BY <1>5 DEF HeadPart
    <2>2. Moves(r) /\ req'[r].op = "head" /\ req'[r].pc = "replied"
      BY <1>1, <1>2, <2>1, AnswerMoves
    <2> QED
      BY <2>2, NoGet DEF InWindow
  <1> QED
    BY <1>3, <1>4, <1>5

\* Verify
LEMMA VerifyMoves ==
    ASSUME StoreAssumption, TypeOK, NEW r \in Req,
           VerifyArrive(r) \/ VerifyExpect(r) \/ VerifyDigest(r)
    PROVE  ReaderMoves(r)
  <1> PICK n \in Nat : n = req[r].n
    BY DEF TypeOK, Request
  <1>1. /\ "verify" \in Ops /\ "expect" \in PCs /\ "digest" \in PCs
        /\ SizeOf(dest) \in Nat /\ 200 \in Nat /\ 404 \in Nat /\ 500 \in Nat
        /\ Absent \in File \cup {Absent} /\ Absent \in Inode \cup {Absent}
    BY Literals DEF TypeOK, Content, SizeOf
  <1>2. ASSUME Reply(r, "verify", 404) \/ Reply(r, "verify", 500) PROVE ReaderMoves(r)
    <2>1. Moves(r) /\ req'[r].op = "verify" /\ req'[r].pc = "replied"
      BY <1>1, <1>2, ReplyMoves
    <2> QED
      BY <2>1, NoGet DEF InWindow
  <1>3. CASE VerifyArrive(r)
    <2>1. ASSUME Start(r, "verify", "expect", Absent, SizeOf(dest), Absent) PROVE ReaderMoves(r)
      <3>1. Moves(r) /\ req'[r].op = "verify" /\ req'[r].pc = "expect"
        BY <1>1, <2>1, StartMoves
      <3> QED
        BY <3>1, NoGet DEF InWindow, Changing
    <2> QED
      BY <1>2, <1>3, <2>1 DEF VerifyArrive
  <1>4. CASE VerifyExpect(r)
    <2>1. ASSUME side \notin {Absent, Blank}, Advance(r, "digest", n, Absent, side)
          PROVE  ReaderMoves(r)
      <3>1. req[r].op = "verify"
        BY <1>4 DEF VerifyExpect, At
      <3>2. side \in Content \cup {Absent}
        BY <2>1 DEF TypeOK
      <3>3. Moves(r) /\ req'[r].op = req[r].op /\ req'[r].pc = "digest"
        BY <1>1, <2>1, <3>2, AdvanceMoves
      <3> QED
        BY <3>1, <3>3, NoGet DEF InWindow, Changing
    <2> QED
      BY <1>2, <1>4, <2>1 DEF VerifyExpect
  <1>5. CASE VerifyDigest(r) /\ dest = Absent
    BY <1>2, <1>5 DEF VerifyDigest
  <1>6. CASE VerifyDigest(r) /\ dest # Absent
    <2> DEFINE verdict == IF inode[dest] = req[r].sum THEN "match" ELSE "mismatch"
    <2>1. inode[dest] \in Content \cup {Absent}
      BY <1>6 DEF TypeOK
    <2>2. verdict \in Says
      BY DEF Says
    <2>3. Answer(r, "verify", 200, n, verdict, inode[dest])
      BY <1>6 DEF VerifyDigest
    <2> HIDE DEF verdict
    <2>4. Moves(r) /\ req'[r].op = "verify" /\ req'[r].pc = "replied"
      BY <1>1, <2>1, <2>2, <2>3, AnswerMoves
    <2> QED
      BY <2>4, NoGet DEF InWindow
  <1> QED
    BY <1>3, <1>4, <1>5, <1>6

\* A download that has not opened the file, or has failed.
LEMMA GetOther ==
    ASSUME NEW r \in Req, Moves(r), req'[r].op = "get",
           \/ req'[r].pc = "replied" /\ req'[r].status # 200
           \/ req'[r].pc = "fetch"
    PROVE  ReaderMoves(r)
  BY DEF ReaderMoves, InWindow, GetInv, At, Changing

\* The stat of a download, and its open of a published version.
LEMMA GetOpenMoves ==
    ASSUME StoreAssumption, IInv, NEW r \in Req, GetArrive(r) \/ GetOpen(r)
    PROVE  ReaderMoves(r)
  <1>1. TypeOK /\ SizeOf(dest) \in Nat /\ req[r] \in Request
    BY DEF IInv, TypeOK, Content, SizeOf
  <1>2. /\ "get" \in Ops /\ "fetch" \in PCs /\ "send" \in PCs /\ 404 \in Nat
        /\ Absent \in File \cup {Absent} /\ Absent \in Inode \cup {Absent}
        /\ req[r].n \in Nat
    BY <1>1, Literals DEF Request
  <1>3. ASSUME Reply(r, "get", 404) PROVE ReaderMoves(r)
    <2>1. Moves(r) /\ req'[r].op = "get" /\ req'[r].pc = "replied" /\ req'[r].status = 404
      BY <1>1, <1>2, <1>3, ReplyMoves
    <2> QED
      BY <2>1, GetOther
  <1>4. CASE GetArrive(r)
    <2>1. ASSUME Start(r, "get", "fetch", Absent, SizeOf(dest), Absent) PROVE ReaderMoves(r)
      <3>1. Moves(r) /\ req'[r].op = "get" /\ req'[r].pc = "fetch"
        BY <1>1, <1>2, <2>1, StartMoves
      <3> QED
        BY <3>1, GetOther
    <2> QED
      BY <1>3, <1>4, <2>1 DEF GetArrive
  <1>5. CASE GetOpen(r) /\ dest = Absent
    BY <1>3, <1>5 DEF GetOpen
  <1>6. CASE GetOpen(r) /\ dest # Absent
    <2>1. /\ dest \in Inode \cup {Absent} /\ <<>> \in Content \cup {Absent}
          /\ req[r].op = "get" /\ Advance(r, "send", req[r].n, dest, <<>>)
      BY <1>1, <1>6 DEF TypeOK, Content, GetOpen, At
    <2>2. /\ Moves(r) /\ req'[r].op = req[r].op /\ req'[r].pc = "send"
          /\ req'[r].n = req[r].n /\ req'[r].fd = dest /\ req'[r].sum = <<>>
      BY <1>1, <1>2, <2>1, AdvanceMoves
    <2>3. PICK f \in File : inode[dest] = Body(f)
      BY <1>6 DEF IInv, PublishedIntact, Versions
    <2>4. inode' = inode /\ dest # part /\ part' = part
      BY <1>1, <1>6 DEF GetOpen, TypeOK
    <2>5. ASSUME NEW q \in Req, Holds(q)' PROVE req'[q].fd # dest
      <3>1. q # r /\ req'[q] = req[q]
        BY <2>1, <2>2, <2>5 DEF Holds, At, Moves
      <3>2. PatchInv(q) /\ PutInv(q)
        BY DEF IInv
      <3> QED
        BY <2>4, <2>5, <3>1, <3>2 DEF Holds, At, PatchInv, PutInv
    <2>6. <<>> = Piece(f, 0) /\ 0 \in 0..Length[f] /\ 0 <= req[r].n
      BY <1>2, EmptyPiece DEF StoreAssumption
    <2>7. GetInv(r)'
      BY <1>6, <2>1, <2>2, <2>3, <2>4, <2>5, <2>6 DEF GetInv, At
    <2> QED
      BY <2>1, <2>2, <2>7 DEF ReaderMoves, InWindow, Changing
  <1> QED
    BY <1>4, <1>5, <1>6

\* Each block a download sends is the next one of the version it has opened.
LEMMA SendBlock ==
    ASSUME StoreAssumption, IInv, NEW r \in Req, At(r, "get", "send"), Store(inode),
           UNCHANGED part, NEW n \in Nat, n = req[r].n, NEW fd \in Inode, fd = req[r].fd,
           NEW f \in File, NEW k \in Nat, k < Length[f], k < n, inode[fd] = Body(f),
           Advance(r, "send", n, fd, Piece(f, k + 1))
    PROVE  ReaderMoves(r)
  <1>1. TypeOK /\ GetInv(r) /\ req[r].op = "get"
    BY DEF IInv, At
  <1>2. /\ "send" \in PCs /\ fd \in Inode \cup {Absent}
        /\ Piece(f, k + 1) \in Content \cup {Absent}
    <2>1. k + 1 \in Nat
      OBVIOUS
    <2>2. Piece(f, k + 1) \in Content
      BY <2>1, PieceType
    <2> QED
      BY <2>2, Literals
  <1>3. /\ Moves(r) /\ req'[r].op = req[r].op /\ req'[r].pc = "send"
        /\ req'[r].n = n /\ req'[r].fd = fd /\ req'[r].sum = Piece(f, k + 1)
    BY <1>1, <1>2, AdvanceMoves
  <1>4. Live(fd)'
    BY <1>3 DEF Live
  <1>5. inode'[fd] = Body(f)
    BY <1>1, <1>4, StoreKeeps DEF Kept
  <1>6. ASSUME NEW q \in Req, Holds(q)' PROVE req'[q].fd # fd
    <2>1. q # r /\ req'[q] = req[q]
      BY <1>1, <1>3, <1>6 DEF Holds, At, Moves
    <2>2. Holds(q)
      BY <1>6, <2>1 DEF Holds, At
    <2> QED
      BY <1>1, <2>1, <2>2 DEF GetInv
  <1>7. k + 1 \in 0..Length[f] /\ k + 1 <= n
    BY DEF StoreAssumption
  <1>8. fd # Absent /\ fd # part'
    BY <1>1 DEF GetInv
  <1>9. GetInv(r)'
    BY <1>3, <1>5, <1>6, <1>7, <1>8 DEF GetInv, At
  <1> QED
    BY <1>1, <1>3, <1>9 DEF ReaderMoves, InWindow, Changing

\* A download that is answered in full has sent what it announced.
LEMMA SendDone ==
    ASSUME StoreAssumption, TypeOK, NEW r \in Req, NEW n \in Nat, NEW sent \in Content,
           \E f \in File : sent = Piece(f, n), Answer(r, "get", 200, n, "none", sent)
    PROVE  ReaderMoves(r)
  <1>1. "get" \in Ops /\ "none" \in Says /\ 200 \in Nat /\ sent \in Content \cup {Absent}
    BY Literals
  <1>2. /\ Moves(r) /\ req'[r].op = "get" /\ req'[r].pc = "replied"
        /\ req'[r].off = n /\ req'[r].sum = sent
    BY <1>1, AnswerMoves
  <1>3. \E f \in File : req'[r].sum = Piece(f, req'[r].off)
    BY <1>2
  <1>4. ~At(r, "get", "send")'
    BY <1>2 DEF At
  <1>5. GetInv(r)'
    BY <1>3, <1>4 DEF GetInv
  <1> QED
    BY <1>2, <1>5 DEF ReaderMoves, InWindow, Running

\* A download that is broken off.
LEMMA SendBroken ==
    ASSUME StoreAssumption, TypeOK, NEW r \in Req, Reply(r, "get", 500)
    PROVE  ReaderMoves(r)
  <1>1. "get" \in Ops /\ 500 \in Nat
    BY Literals
  <1>2. Moves(r) /\ req'[r].op = "get" /\ req'[r].pc = "replied" /\ req'[r].status = 500
    BY <1>1, ReplyMoves
  <1> QED
    BY <1>2, GetOther

\* The sending of a download.
LEMMA GetSendMoves ==
    ASSUME StoreAssumption, IInv, NEW r \in Req, GetSend(r)
    PROVE  ReaderMoves(r)
  <1>1. /\ TypeOK /\ req[r] \in Request /\ At(r, "get", "send") /\ GetInv(r)
        /\ Store(inode) /\ UNCHANGED part
    BY DEF IInv, TypeOK, GetSend
  <1>2. PICK fd \in Inode : fd = req[r].fd
    BY <1>1 DEF Request, GetInv
  <1>3. PICK n \in Nat : n = req[r].n
    BY <1>1 DEF Request
  <1>4. PICK f \in File : \E k \in 0..Length[f] :
            inode[fd] = Body(f) /\ req[r].sum = Piece(f, k) /\ k <= n
    BY <1>1, <1>2, <1>3 DEF GetInv
  <1>5. PICK k \in 0..Length[f] :
            inode[fd] = Body(f) /\ req[r].sum = Piece(f, k) /\ k <= n
    BY <1>4
  <1>6. Length[f] \in Nat /\ k \in Nat /\ Len(Piece(f, k)) = k /\ Len(Body(f)) = Length[f]
    BY PieceType DEF StoreAssumption, Body
  <1>7. \/ k < n /\ k < Length[f]
           /\ Advance(r, "send", n, fd, Append(Piece(f, k), Body(f)[k + 1]))
        \/ k = n /\ Answer(r, "get", 200, n, "none", Piece(f, k))
        \/ Reply(r, "get", 500)
    BY <1>2, <1>3, <1>5, <1>6 DEF GetSend
  <1>8. CASE k < n /\ k < Length[f]
             /\ Advance(r, "send", n, fd, Append(Piece(f, k), Body(f)[k + 1]))
    <2>1. Append(Piece(f, k), Body(f)[k + 1]) = Piece(f, k + 1)
      BY <1>6, <1>8, AppendPiece
    <2>2. Advance(r, "send", n, fd, Piece(f, k + 1)) /\ k < n /\ k < Length[f]
      BY <1>8, <2>1
    <2> QED
      BY <1>1, <1>2, <1>3, <1>5, <1>6, <2>2, SendBlock
  <1>9. CASE k = n /\ Answer(r, "get", 200, n, "none", Piece(f, k))
    BY <1>1, <1>6, <1>9, PieceType, SendDone
  <1> QED
    BY <1>1, <1>7, <1>8, <1>9, SendBroken

\* Every step of HEAD, verify and download, and the delivery of an answer.
LEMMA ReadKeeps ==
    ASSUME StoreAssumption, IInv, NEW r \in Req, Read(r) \/ Deliver(r)
    PROVE  IInv'
  <1>1. TypeOK
    BY DEF IInv
  <1>2. ~InWindow(r) /\ UNCHANGED <<dest, part, side, faults>>
    BY DEF At, InWindow, Read, Deliver, HeadArrive, HeadPart, VerifyArrive, VerifyExpect,
           VerifyDigest, GetArrive, GetOpen, GetSend
  <1>3. Kept
    <2>1. CASE GetSend(r)
      BY <1>1, <2>1, StoreKeeps DEF GetSend
    <2>2. CASE ~GetSend(r)
      BY <1>1, <2>2, UnchangedKeeps DEF Read, Deliver, HeadArrive, HeadPart, VerifyArrive,
           VerifyExpect, VerifyDigest, GetArrive, GetOpen
    <2> QED
      BY <2>1, <2>2
  <1>4. ReaderMoves(r)
    <2>1. CASE Deliver(r)
      <3>1. Idle \in Request /\ Idle.pc = "idle" /\ Idle.op = "none"
        BY IdleType DEF Idle
      <3>2. Become(r, Idle)
        BY <2>1 DEF Deliver
      <3>3. Moves(r) /\ req'[r] = Idle
        BY <1>1, <3>1, <3>2, BecomeMoves
      <3> QED
        BY <3>1, <3>3, NoGet DEF InWindow, Changing
    <2>2. CASE Read(r)
      BY <1>1, <2>2, HeadMoves, VerifyMoves, GetOpenMoves, GetSendMoves DEF Read
    <2> QED
      BY <2>1, <2>2
  <1>5. ~Writing(r)' /\ (Running(r)' /\ req'[r].op = "delete" =>
               \A q \in Req \ {r} : Writing(q) => req[q].op = "put")
    BY <1>4 DEF ReaderMoves, Writing, Writers, Changing
  <1> QED
    BY <1>2, <1>3, <1>4, <1>5, ShrinkStep DEF ReaderMoves

-----------------------------------------------------------------------------
(* DELETE, and uploads that fail or pause *)

\* What may be in service next to an upload of kind op in slot r.
Alone(r, op) ==
    \A q \in Req \ {r} : Running(q) =>
        req[q].op \notin Writers /\ (req[q].op = "delete" => op = "put")

\* An upload in service is alone.
LEMMA WritingAlone ==
    ASSUME IInv, NEW r \in Req, Writing(r)
    PROVE  Alone(r, req[r].op)
  BY DEF IInv, Exclusive, Alone

\* An operation that is answered, or a DELETE that goes on, keeps the invariant
\* if no PATCH is in service next to it when it drops the temp.
LEMMA DropStep ==
    ASSUME StoreAssumption, IInv, NEW r \in Req, Moves(r), ~InWindow(r), ~InWindow(r)',
           req'[r].op # "get", req'[r].pc = "replied" \/ req'[r].op = "delete",
           \A q \in Req \ {r} : Writing(q) => req[q].op = "put",
           dest' \in {dest, Absent}, side' \in {side, Absent}, part' \in {part, Absent},
           faults' = faults, Kept
    PROVE  IInv'
  <1>1. GetInv(r)' /\ ~Writing(r)'
    BY DEF GetInv, At, Writing, Running, Writers
  <1> QED
    BY <1>1, ShrinkStep

\* DELETE
LEMMA DeleteKeeps ==
    ASSUME StoreAssumption, Disciplined, IInv, NEW r \in Req, Delete(r)
    PROVE  IInv'
  <1>1. /\ TypeOK /\ "delete" \in Ops /\ "unlink" \in PCs /\ "unside" \in PCs
        /\ "statpart" \in PCs /\ "unpart" \in PCs /\ 0 \in Nat /\ 204 \in Nat /\ 404 \in Nat
        /\ Absent \in File \cup {Absent} /\ Absent \in Inode \cup {Absent}
    BY Literals DEF IInv
  <1>2. \A q \in Req \ {r} : Writing(q) => req[q].op = "put"
    <2>1. CASE MayStart("delete")
      BY <2>1, StartDelete
    <2>2. CASE req[r].op = "delete" /\ Running(r)
      BY <2>2 DEF IInv, Exclusive
    <2> QED
      BY <2>1, <2>2 DEF Delete, DeleteArrive, DeleteStatPart, DeleteUnlink, DeleteSide,
           DeletePart, At, Running
  <1>3. /\ dest' \in {dest, Absent} /\ side' \in {side, Absent} /\ part' \in {part, Absent}
        /\ faults' = faults /\ ~InWindow(r)
    BY DEF Delete, DeleteArrive, DeleteStatPart, DeleteUnlink, DeleteSide, DeletePart,
           At, InWindow
  <1>4. Kept
    <2>1. CASE UNCHANGED inode
      BY <1>1, <2>1, UnchangedKeeps
    <2>2. CASE Store(inode)
      BY <1>1, <2>2, StoreKeeps
    <2> QED
      BY <2>1, <2>2 DEF Delete, DeleteArrive, DeleteStatPart, DeleteUnlink, DeleteSide,
           DeletePart
  <1>5. ASSUME Moves(r), req'[r].op = "delete",
               req'[r].pc \in {"statpart", "unlink", "unside", "unpart", "replied"}
        PROVE  IInv'
    BY <1>2, <1>3, <1>4, <1>5, DropStep DEF InWindow
  <1>6. ASSUME Reply(r, "delete", 404) \/ Reply(r, "delete", 204) PROVE IInv'
    <2>1. Moves(r) /\ req'[r].op = "delete" /\ req'[r].pc = "replied"
      BY <1>1, <1>6, ReplyMoves
    <2> QED
      BY <1>5, <2>1
  <1>7. ASSUME req[r].op = "delete", Goto(r, "unside") \/ Goto(r, "unpart") PROVE IInv'
    <2>1. Moves(r) /\ req'[r].op = req[r].op /\ req'[r].pc \in {"unside", "unpart"}
      BY <1>1, <1>7, GotoMoves
    <2> QED
      BY <1>5, <1>7, <2>1
  <1>8. CASE DeleteArrive(r)
    <2> DEFINE pc == IF dest = Absent THEN "statpart" ELSE "unlink"
    <2>1. pc \in PCs /\ pc \in {"statpart", "unlink"}
      BY <1>1
    <2>2. Start(r, "delete", pc, Absent, 0, Absent)
      BY <1>8 DEF DeleteArrive
    <2> HIDE DEF pc
    <2>3. Moves(r) /\ req'[r].op = "delete" /\ req'[r].pc = pc
      BY <1>1, <2>1, <2>2, StartMoves
    <2> QED
      BY <1>5, <2>1, <2>3
  <1>9. CASE ~DeleteArrive(r)
    BY <1>6, <1>7, <1>9 DEF Delete, DeleteStatPart, DeleteUnlink, DeleteSide, DeletePart, At
  <1> QED
    BY <1>8, <1>9

\* An upload that is answered before it publishes anything.
LEMMA AnsweredKeeps ==
    ASSUME StoreAssumption, IInv, NEW r \in Req, Moves(r), ~InWindow(r),
           req'[r].op \in Writers, req'[r].pc = "replied",
           \A q \in Req \ {r} : Writing(q) => req[q].op = "put",
           part' \in {part, Absent}, UNCHANGED <<dest, side, faults>>, Kept
    PROVE  IInv'
  BY DropStep DEF InWindow, Writers

\* A PATCH that is refused disturbs nobody, whoever is in service.
LEMMA RefusedKeeps ==
    ASSUME StoreAssumption, IInv, NEW r \in Req, req[r].pc = "idle",
           NEW n \in Nat, Answer(r, "patch", 409, n, "none", Absent),
           UNCHANGED <<inode, dest, part, side, faults>>
    PROVE  IInv'
  <1>1. /\ TypeOK /\ "patch" \in Ops /\ 409 \in Nat /\ "none" \in Says
        /\ Absent \in Content \cup {Absent}
    BY Literals DEF IInv
  <1>2. Moves(r) /\ req'[r].op = "patch" /\ req'[r].pc = "replied"
    BY <1>1, AnswerMoves
  <1>3. ReaderMoves(r) /\ ~Running(r)'
    BY <1>2, NoGet DEF InWindow, Running
  <1>4. Kept
    BY <1>1, UnchangedKeeps
  <1> QED
    BY <1>3, <1>4, ShrinkStep DEF ReaderMoves, InWindow, Writing

\* An upload in service that fails, or a PATCH that pauses between two chunks.
LEMMA FailureKeeps ==
    ASSUME StoreAssumption, IInv, NEW r \in Req, Writing(r), ~InWindow(r),
           NEW says \in Says, NEW n \in Nat, NEW status \in Nat, req[r].op \in Ops,
           Answer(r, req[r].op, status, n, says, Absent),
           part' \in {part, Absent}, UNCHANGED <<dest, side, faults>>,
           UNCHANGED inode \/ Store(inode)
    PROVE  IInv'
  <1>1. TypeOK /\ Absent \in Content \cup {Absent}
    BY DEF IInv
  <1>2. Moves(r) /\ req'[r].op = req[r].op /\ req'[r].pc = "replied"
    BY <1>1, AnswerMoves
  <1>3. \A q \in Req \ {r} : ~Writing(q)
    BY WritingAlone DEF Alone, Writing
  <1>4. Kept
    BY <1>1, UnchangedKeeps, StoreKeeps
  <1> QED
    BY <1>2, <1>3, <1>4, AnsweredKeeps DEF Writing

-----------------------------------------------------------------------------
(* Uploads at work on the temp *)

\* A step that works on the temp, or on the inode w behind it, keeps the
\* invariant if it keeps what the upload itself knows.
LEMMA TempStep ==
    ASSUME StoreAssumption, IInv, NEW r \in Req, Moves(r), ~InWindow(r), ~InWindow(r)',
           req'[r].op \in Writers, Alone(r, req'[r].op),
           NEW w \in Inode \cup {Absent}, w # Absent => w # dest,
           \A q \in Req : At(q, "get", "send") => w # req[q].fd,
           inode' \in [Inode -> Content],
           \A j \in Inode : Live(j)' /\ j # w => inode'[j] = inode[j],
           part' \in {part, w}, UNCHANGED <<dest, side>>,
           faults' = faults \/ faults' \in 1..MaxFaults,
           Holds(r)' => req'[r].fd = w \/ (Holds(r) /\ req'[r].fd = req[r].fd),
           StagedPiece', PatchInv(r)', PutInv(r)'
    PROVE  IInv'
  <1>1. TypeOK /\ \A q \in Req \ {r} : req'[q] = req[q]
    BY DEF IInv, Moves
  <1>2. TypeOK'
    BY <1>1 DEF TypeOK, Moves, StoreAssumption
  <1>3. dest # Absent => inode'[dest] = inode[dest]
    BY <1>1 DEF TypeOK, Live
  <1>4. PublishedIntact'
    BY <1>3 DEF IInv, PublishedIntact
  <1>5. SidecarMatches'
    BY <1>1, <1>3 DEF IInv, SidecarMatches, InWindow
  <1>6. WindowInv(r)'
    BY DEF WindowInv
  <1>7. ASSUME NEW q \in Req PROVE GetInv(q)'
    <2>1. CASE q = r
      BY <2>1 DEF GetInv, At, Writers
    <2>2. CASE q # r
      <3>1. part' \in {part, Absent, w}
        OBVIOUS
      <3> QED
        BY <2>2, <3>1, ReadersUndisturbed
    <2> QED
      BY <2>1, <2>2
  <1>8. Running(r)' => req'[r].op \in Writers
    OBVIOUS
  <1>9. \A q \in Req \ {r} : Running(q) =>
            req[q].op \notin Writers /\ (req[q].op = "delete" => req'[r].op = "put")
    BY DEF Alone
  <1> QED
    BY <1>2, <1>4, <1>5, <1>6, <1>7, <1>8, <1>9, WriterStep

\* A step that only moves the upload from one stage to the next.
LEMMA StageStep ==
    ASSUME StoreAssumption, IInv, NEW r \in Req, Moves(r), ~InWindow(r), ~InWindow(r)',
           req'[r].op \in Writers, Alone(r, req'[r].op), ~Holds(r)',
           Kept, UNCHANGED <<dest, part, side, faults>>,
           part # Absent /\ inode'[part] = inode[part] => PatchInv(r)' /\ PutInv(r)',
           part = Absent => PatchInv(r)' /\ PutInv(r)'
    PROVE  IInv'
  <1>1. part # Absent => inode'[part] = inode[part]
    BY DEF IInv, TypeOK, Kept, Live
  <1>2. StagedPiece' /\ PatchInv(r)' /\ PutInv(r)'
    BY <1>1 DEF IInv, StagedPiece
  <1>3. \A q \in Req : At(q, "get", "send") => Absent # req[q].fd
    BY DEF IInv, GetInv
  <1>4. Absent \in Inode \cup {Absent}
    OBVIOUS
  <1> QED
    BY <1>2, <1>3, <1>4, TempStep DEF Kept

\* PATCH goes into service: on top of bytes of its own version.
LEMMA PatchStartKeeps ==
    ASSUME StoreAssumption, Disciplined, IInv, NEW r \in Req, NEW f \in File,
           NEW offset \in Offsets, PatchArrive(r, f, offset)
    PROVE  IInv'
  <1>1. TypeOK /\ offset \in Nat /\ SizeOf(part) \in Nat
    BY DEF IInv, TypeOK, Offsets, SizeOf, Content, StoreAssumption
  <1>2. CASE Answer(r, "patch", 409, SizeOf(part), "none", Absent)
    BY <1>1, <1>2, RefusedKeeps DEF PatchArrive, PatchStat
  <1>3. CASE offset = SizeOf(part) /\ Start(r, "patch", "open", f, offset, Absent)
    <2>1. /\ "patch" \in Ops /\ "open" \in PCs
          /\ f \in File \cup {Absent} /\ Absent \in Inode \cup {Absent}
      BY Literals
    <2>2. /\ Moves(r) /\ req'[r].op = "patch" /\ req'[r].pc = "open"
          /\ req'[r].file = f /\ req'[r].n = offset
      BY <1>1, <1>3, <2>1, StartMoves
    <2>3. Alone(r, "patch") /\ ~InWindow(r)
      BY <1>3, StartPatch DEF PatchArrive, PatchStat, Alone, Writers, Changing, InWindow
    <2>4. part = Absent => offset = 0 /\ offset \in 0..Length[f]
      BY <1>3 DEF SizeOf, StoreAssumption
    <2>5. part # Absent => inode[part] = Piece(f, offset)
      BY <1>3 DEF PatchArrive, Disciplined
    <2>6. part # Absent => offset \in 0..Length[f]
      <3> SUFFICES ASSUME part # Absent PROVE offset \in 0..Length[f]
        OBVIOUS
      <3>1. PICK g \in File : \E k \in 0..Length[g] : inode[part] = Piece(g, k)
        BY DEF IInv, StagedPiece
      <3>2. PICK k \in 0..Length[g] : inode[part] = Piece(g, k)
        BY <3>1
      <3> QED
        BY <1>1, <2>5, <3>2, PieceShared
    <2>7. PatchInv(r)' /\ PutInv(r)'
      BY <2>2, <2>4, <2>5, <2>6 DEF PatchInv, PutInv, At, PatchArrive, PatchStat
    <2>8. Kept /\ UNCHANGED <<dest, part, side, faults>>
      BY <1>1, UnchangedKeeps DEF PatchArrive, PatchStat
    <2>9. ~Holds(r)' /\ ~InWindow(r)' /\ "patch" \in Writers
      BY <2>2 DEF Holds, At, InWindow, Writers
    <2> QED
      BY <2>2, <2>3, <2>7, <2>8, <2>9, StageStep
  <1> QED
    BY <1>2, <1>3 DEF PatchArrive, PatchStat

\* The temp an upload has open holds a piece of its version after the step.
LEMMA HoldStep ==
    ASSUME StoreAssumption, IInv, NEW r \in Req, Moves(r), ~InWindow(r),
           NEW i \in Inode, i # dest, \A q \in Req : At(q, "get", "send") => i # req[q].fd,
           NEW f \in File, NEW n \in 0..Length[f],
           Store([inode EXCEPT ![i] = Piece(f, n)]),
           part' \in {part, i}, part' # Absent => part' = i,
           UNCHANGED <<dest, side, faults>>, Alone(r, req'[r].op),
           \/ req'[r].op = "patch" /\ req'[r].pc = "body" /\ part' = i
           \/ req'[r].op = "put" /\ req'[r].pc = "stream",
           req'[r].file = f, req'[r].n = n, req'[r].fd = i
    PROVE  IInv'
  <1>1. TypeOK /\ n \in Nat /\ i # Absent
    BY DEF IInv, StoreAssumption
  <1>2. Piece(f, n) \in Content /\ Live(i)'
    BY <1>1, PieceType DEF Live
  <1>3. /\ inode' \in [Inode -> Content] /\ inode'[i] = Piece(f, n)
        /\ \A j \in Inode : Live(j)' /\ j # i => inode'[j] = inode[j]
    BY <1>1, <1>2, StoreAt
  <1>4. StagedPiece'
    BY <1>3 DEF StagedPiece
  <1>5. PatchInv(r)'
    BY <1>1, <1>3 DEF PatchInv, At
  <1>6. PutInv(r)'
    BY <1>1, <1>3 DEF PutInv, At
  <1>7. ~InWindow(r)' /\ req'[r].op \in Writers /\ i \in Inode \cup {Absent}
    BY DEF InWindow, Writers
  <1> QED
    BY <1>3, <1>4, <1>5, <1>6, <1>7, TempStep

\* PATCH opens the temp, or makes a new one.
LEMMA PatchOpenKeeps ==
    ASSUME StoreAssumption, IInv, NEW r \in Req, PatchOpen(r)
    PROVE  IInv'
  <1>1. TypeOK /\ req[r] \in Request /\ PatchInv(r) /\ At(r, "patch", "open")
    BY DEF IInv, TypeOK, PatchOpen
  <1>2. PICK f \in File : f = req[r].file
    BY <1>1 DEF PatchInv
  <1>3. PICK n \in 0..Length[f] : n = req[r].n
    BY <1>1, <1>2 DEF PatchInv
  <1>4. PICK i \in IF part = Absent THEN Free ELSE {part} :
            /\ part' = i
            /\ Advance(r, "body", n, i, Absent)
            /\ UNCHANGED <<dest, side, faults>>
            /\ Store([inode EXCEPT ![i] = IF part = Absent THEN <<>> ELSE @])
    BY <1>3 DEF PatchOpen
  <1>5. i \in Inode /\ n \in Nat
    BY <1>1, <1>3, <1>4 DEF TypeOK, Free, StoreAssumption
  <1>6. Piece(f, n) = IF part = Absent THEN <<>> ELSE inode[i]
    <2>1. CASE part = Absent
      BY <1>1, <1>3, <2>1, EmptyPiece DEF PatchInv
    <2>2. CASE part # Absent
      BY <1>1, <1>2, <1>3, <1>4, <2>2 DEF PatchInv
    <2> QED
      BY <2>1, <2>2
  <1>7. Store([inode EXCEPT ![i] = Piece(f, n)])
    BY <1>1, <1>4, <1>5, <1>6 DEF TypeOK
  <1>8. "body" \in PCs /\ i \in Inode \cup {Absent} /\ Absent \in Content \cup {Absent}
    BY <1>5, Literals
  <1>9. /\ Moves(r) /\ req'[r].op = req[r].op /\ req'[r].pc = "body"
        /\ req'[r].file = req[r].file /\ req'[r].n = n /\ req'[r].fd = i
    BY <1>1, <1>4, <1>5, <1>8, AdvanceMoves
  <1>10. i # dest /\ \A q \in Req : At(q, "get", "send") => i # req[q].fd
    <2>1. CASE part = Absent
      BY <1>4, <2>1 DEF Free, Live
    <2>2. CASE part # Absent
      BY <1>1, <1>4, <2>2 DEF IInv, TypeOK, GetInv
    <2> QED
      BY <2>1, <2>2
  <1>11. req[r].op = "patch" /\ Alone(r, "patch") /\ ~InWindow(r)
    BY <1>1, WritingAlone DEF At, Writing, Running, Writers, InWindow
  <1>12. part' = i /\ UNCHANGED <<dest, side, faults>> /\ req'[r].file = f
    BY <1>2, <1>4, <1>9
  <1>13. part' \in {part, i} /\ req'[r].op = "patch"
    BY <1>9, <1>11, <1>12
  <1> QED
    BY <1>5, <1>7, <1>9, <1>10, <1>11, <1>12, <1>13, HoldStep

\* PATCH appends a block.
LEMMA PatchAppendKeeps ==
    ASSUME StoreAssumption, IInv, NEW r \in Req, PatchAppend(r)
    PROVE  IInv'
  <1>1. TypeOK /\ req[r] \in Request /\ PatchInv(r) /\ At(r, "patch", "body")
    BY DEF IInv, TypeOK, PatchAppend
  <1>2. PICK f \in File : f = req[r].file
    BY <1>1 DEF PatchInv
  <1>3. PICK n \in 0..Length[f] : n = req[r].n
    BY <1>1, <1>2 DEF PatchInv
  <1>4. PICK fd \in Inode : fd = req[r].fd /\ fd = part /\ fd # dest
    BY <1>1 DEF PatchInv, TypeOK
  <1>5. inode[fd] = Piece(f, n) /\ n \in Nat /\ Len(Piece(f, n)) = n
    BY <1>1, <1>2, <1>3, <1>4, PieceType DEF PatchInv, StoreAssumption
  <1>6. /\ n + 1 <= Length[f] /\ Advance(r, "body", n + 1, fd, Absent)
        /\ Store([inode EXCEPT ![fd] = WriteAt(@, Len(@) + 1, <<f, n + 1>>)])
        /\ UNCHANGED <<dest, part, side, faults>>
    BY <1>2, <1>3, <1>4 DEF PatchAppend
  <1>7. Store([inode EXCEPT ![fd] = Piece(f, n + 1)])
    BY <1>1, <1>5, <1>6, WriteAtPiece DEF TypeOK
  <1>8. /\ "body" \in PCs /\ fd \in Inode \cup {Absent} /\ Absent \in Content \cup {Absent}
        /\ n + 1 \in Nat /\ n + 1 \in 0..Length[f]
    BY <1>5, <1>6, Literals DEF StoreAssumption
  <1>9. /\ Moves(r) /\ req'[r].op = req[r].op /\ req'[r].pc = "body"
        /\ req'[r].file = req[r].file /\ req'[r].n = n + 1 /\ req'[r].fd = fd
    BY <1>1, <1>6, <1>8, AdvanceMoves
  <1>10. \A q \in Req : At(q, "get", "send") => fd # req[q].fd
    BY <1>4 DEF IInv, GetInv
  <1>11. req[r].op = "patch" /\ Alone(r, "patch") /\ ~InWindow(r)
    BY <1>1, WritingAlone DEF At, Writing, Running, Writers, InWindow
  <1>12. /\ part' = fd /\ UNCHANGED <<dest, side, faults>> /\ req'[r].file = f
         /\ part' \in {part, fd} /\ req'[r].op = "patch"
    BY <1>2, <1>4, <1>6, <1>9, <1>11
  <1> QED
    BY <1>4, <1>7, <1>8, <1>9, <1>10, <1>11, <1>12, HoldStep

\* PATCH ends its body: it pauses, or goes on with the whole version staged.
LEMMA PatchEndKeeps ==
    ASSUME StoreAssumption, IInv, NEW r \in Req, PatchEnd(r)
    PROVE  IInv'
  <1>1. TypeOK /\ req[r] \in Request /\ PatchInv(r) /\ At(r, "patch", "body")
    BY DEF IInv, TypeOK, PatchEnd
  <1>2. PICK f \in File : f = req[r].file
    BY <1>1 DEF PatchInv
  <1>3. PICK n \in 0..Length[f] : n = req[r].n
    BY <1>1, <1>2 DEF PatchInv
  <1>4. /\ req[r].op = "patch" /\ Alone(r, "patch") /\ ~InWindow(r) /\ Writing(r)
    BY <1>1, WritingAlone DEF At, Writing, Running, Writers, InWindow
  <1>5. n \in Nat /\ "patch" \in Ops /\ 204 \in Nat /\ "partial" \in Says
    BY <1>3, Literals DEF StoreAssumption
  <1>6. UNCHANGED <<dest, part, side, faults>> /\ Store(inode)
    BY DEF PatchEnd
  <1>7. CASE Answer(r, "patch", 204, n, "partial", Absent)
    <2>1. part' \in {part, Absent} /\ UNCHANGED <<dest, side, faults>>
      BY <1>6
    <2> QED
      BY <1>4, <1>5, <1>6, <1>7, <2>1, FailureKeeps
  <1>8. CASE ~(n < Length[f]) /\ Advance(r, "hash", n, Absent, Absent)
    <2>1. "hash" \in PCs /\ Absent \in Inode \cup {Absent} /\ Absent \in Content \cup {Absent}
      BY Literals
    <2>2. /\ Moves(r) /\ req'[r].op = req[r].op /\ req'[r].pc = "hash"
          /\ req'[r].file = req[r].file
      BY <1>1, <1>5, <1>8, <2>1, AdvanceMoves
    <2>3. part # Absent /\ inode[part] = Body(f)
      <3>1. n = Length[f]
        BY <1>3, <1>8 DEF StoreAssumption
      <3> QED
        BY <1>1, <1>2, <1>3, <3>1 DEF PatchInv, Body
    <2>4. Kept
      BY <1>1, <1>6, StoreKeeps
    <2>5. inode'[part] = inode[part] => PatchInv(r)' /\ PutInv(r)'
      BY <1>2, <1>4, <1>6, <2>2, <2>3 DEF PatchInv, PutInv, At
    <2>6. ~Holds(r)' /\ ~InWindow(r)' /\ "patch" \in Writers /\ req'[r].op = "patch"
      BY <1>4, <2>2 DEF Holds, At, InWindow, Writers
    <2> QED
      BY <1>4, <1>6, <2>2, <2>3, <2>4, <2>5, <2>6, StageStep
  <1> QED
    BY <1>2, <1>3, <1>7, <1>8 DEF PatchEnd

\* PATCH loses its connection: the temp stays.
LEMMA PatchDropKeeps ==
    ASSUME StoreAssumption, IInv, NEW r \in Req, PatchDrop(r)
    PROVE  IInv'
  <1>1. /\ req[r].op = "patch" /\ ~InWindow(r) /\ Writing(r) /\ req[r] \in Request
        /\ part' \in {part, Absent} /\ UNCHANGED <<dest, side, faults>> /\ Store(inode)
    BY DEF PatchDrop, At, Writing, Running, Writers, InWindow, IInv, TypeOK
  <1>2. PICK n \in Nat : n = req[r].n
    BY <1>1 DEF Request
  <1>3. "patch" \in Ops /\ 500 \in Nat /\ "none" \in Says
    BY Literals
  <1>4. Answer(r, "patch", 500, n, "none", Absent)
    BY <1>2 DEF PatchDrop
  <1> QED
    BY <1>1, <1>3, <1>4, FailureKeeps

\* PATCH fails to write: the temp holds what was staged, or one block more.
LEMMA PatchWriteFailsKeeps ==
    ASSUME StoreAssumption, IInv, NEW r \in Req, PatchWriteFails(r)
    PROVE  IInv'
  <1>1. TypeOK /\ req[r] \in Request /\ PatchInv(r) /\ At(r, "patch", "body")
    BY DEF IInv, TypeOK, PatchWriteFails
  <1>2. PICK f \in File : f = req[r].file
    BY <1>1 DEF PatchInv
  <1>3. PICK n \in 0..Length[f] : n = req[r].n
    BY <1>1, <1>2 DEF PatchInv
  <1>4. PICK fd \in Inode : fd = req[r].fd /\ fd = part /\ fd # dest
    BY <1>1 DEF PatchInv, TypeOK
  <1>5. /\ inode[fd] = Piece(f, n) /\ n \in Nat /\ Len(Piece(f, n)) = n
        /\ n + 1 \in Nat /\ fd # Absent
    BY <1>1, <1>2, <1>3, <1>4, PieceType DEF PatchInv, StoreAssumption
  <1>6. /\ "patch" \in Ops /\ 500 \in Nat /\ "none" \in Says
        /\ Absent \in Content \cup {Absent}
    BY Literals
  <1>7. Answer(r, "patch", 500, n, "none", Absent)
    BY <1>3 DEF PatchWriteFails
  <1>8. Moves(r) /\ req'[r].op = "patch" /\ req'[r].pc = "replied"
    BY <1>1, <1>5, <1>6, <1>7, AnswerMoves
  <1>9. UNCHANGED <<dest, part, side>> /\ faults' \in 1..MaxFaults
    BY <1>1 DEF PatchWriteFails, TypeOK, StoreAssumption
  <1>10. PICK k \in 0..Length[f] : Store([inode EXCEPT ![fd] = Piece(f, k)])
    <2>1. CASE Store(inode)
      <3>1. [inode EXCEPT ![fd] = Piece(f, n)] = inode
        BY <1>1, <1>5 DEF TypeOK
      <3>2. Store([inode EXCEPT ![fd] = Piece(f, n)])
        BY <2>1, <3>1
      <3> QED
        BY <3>2
    <2>2. CASE ~Store(inode)
      <3>1. n + 1 <= Length[f] /\ Store([inode EXCEPT ![fd] = WriteAt(@, Len(@) + 1, <<f, n + 1>>)])
        BY <1>2, <1>3, <1>4, <2>2 DEF PatchWriteFails
      <3>2. Store([inode EXCEPT ![fd] = Piece(f, n + 1)])
        BY <1>1, <1>5, <3>1, WriteAtPiece DEF TypeOK
      <3>3. n + 1 \in 0..Length[f]
        BY <1>5, <3>1 DEF StoreAssumption
      <3> QED
        BY <3>2, <3>3
    <2> QED
      BY <2>1, <2>2
  <1>11. Piece(f, k) \in Content /\ Live(fd)'
    BY <1>4, <1>9, <1>10, PieceType DEF Live, StoreAssumption
  <1>12. /\ inode' \in [Inode -> Content] /\ inode'[fd] = Piece(f, k)
         /\ \A j \in Inode : Live(j)' /\ j # fd => inode'[j] = inode[j]
    BY <1>1, <1>10, <1>11, StoreAt
  <1>13. StagedPiece' /\ PatchInv(r)' /\ PutInv(r)'
    BY <1>4, <1>8, <1>9, <1>12 DEF StagedPiece, PatchInv, PutInv, At
  <1>14. \A q \in Req : At(q, "get", "send") => fd # req[q].fd
    BY <1>4 DEF IInv, GetInv
  <1>15. /\ Alone(r, "patch") /\ ~InWindow(r) /\ ~InWindow(r)' /\ ~Holds(r)'
         /\ "patch" \in Writers
    BY <1>1, <1>8, WritingAlone DEF At, Writing, Running, Writers, InWindow, Holds
  <1> QED
    BY <1>4, <1>5, <1>8, <1>9, <1>12, <1>13, <1>14, <1>15, TempStep

\* PATCH hashes the temp: the digest is that of the whole version.
LEMMA PatchHashKeeps ==
    ASSUME StoreAssumption, IInv, NEW r \in Req, PatchHash(r)
    PROVE  IInv'
  <1>1. TypeOK /\ req[r] \in Request /\ PatchInv(r) /\ At(r, "patch", "hash")
    BY DEF IInv, TypeOK, PatchHash
  <1>2. PICK f \in File : f = req[r].file /\ part # Absent /\ inode[part] = Body(f)
    BY <1>1 DEF PatchInv
  <1>3. PICK n \in Nat : n = req[r].n
    BY <1>1 DEF Request
  <1>4. Advance(r, "rename", n, Absent, Body(f)) /\ UNCHANGED <<inode, dest, part, side, faults>>
    BY <1>2, <1>3 DEF PatchHash
  <1>5. /\ "rename" \in PCs /\ Absent \in Inode \cup {Absent}
        /\ Body(f) \in Content \cup {Absent}
    BY BodyType, Literals
  <1>6. /\ Moves(r) /\ req'[r].op = req[r].op /\ req'[r].pc = "rename"
        /\ req'[r].file = req[r].file /\ req'[r].sum = Body(f)
    BY <1>1, <1>4, <1>5, AdvanceMoves
  <1>7. /\ req[r].op = "patch" /\ Alone(r, "patch") /\ ~InWindow(r)
    BY <1>1, WritingAlone DEF At, Writing, Running, Writers, InWindow
  <1>8. PatchInv(r)' /\ PutInv(r)'
    BY <1>2, <1>4, <1>6, <1>7 DEF PatchInv, PutInv, At
  <1>9. Kept
    BY <1>1, <1>4, UnchangedKeeps
  <1>10. ~Holds(r)' /\ ~InWindow(r)' /\ "patch" \in Writers /\ req'[r].op = "patch"
    BY <1>6, <1>7 DEF Holds, At, InWindow, Writers
  <1> QED
    BY <1>4, <1>6, <1>7, <1>8, <1>9, <1>10, StageStep

\* PUT creates its temp, or truncates the one that is there.
LEMMA PutCreateKeeps ==
    ASSUME StoreAssumption, Disciplined, IInv, NEW r \in Req, NEW f \in File, PutCreate(r, f)
    PROVE  IInv'
  <1>1. TypeOK
    BY DEF IInv
  <1>2. PICK i \in IF part = Absent THEN Free ELSE {part} :
            /\ part' = i
            /\ Start(r, "put", "stream", f, 0, i)
            /\ UNCHANGED <<dest, side, faults>>
            /\ Store([inode EXCEPT ![i] = <<>>])
    BY DEF PutCreate
  <1>3. i \in Inode
    BY <1>1, <1>2 DEF TypeOK, Free
  <1>4. /\ "put" \in Ops /\ "stream" \in PCs /\ f \in File \cup {Absent} /\ 0 \in Nat
        /\ i \in Inode \cup {Absent} /\ 0 \in 0..Length[f]
    BY <1>3, Literals DEF StoreAssumption
  <1>5. /\ Moves(r) /\ req'[r].op = "put" /\ req'[r].pc = "stream"
        /\ req'[r].file = f /\ req'[r].n = 0 /\ req'[r].fd = i
    BY <1>1, <1>2, <1>4, StartMoves
  <1>6. Store([inode EXCEPT ![i] = Piece(f, 0)])
    BY <1>2, EmptyPiece
  <1>7. i # dest /\ \A q \in Req : At(q, "get", "send") => i # req[q].fd
    <2>1. CASE part = Absent
      BY <1>2, <2>1 DEF Free, Live
    <2>2. CASE part # Absent
      BY <1>1, <1>2, <2>2 DEF IInv, TypeOK, GetInv
    <2> QED
      BY <2>1, <2>2
  <1>8. Alone(r, "put") /\ ~InWindow(r)
    BY StartPut DEF PutCreate, Alone, InWindow
  <1>9. part' = i /\ part' \in {part, i} /\ UNCHANGED <<dest, side, faults>>
    BY <1>2
  <1> QED
    BY <1>3, <1>4, <1>5, <1>6, <1>7, <1>8, <1>9, HoldStep

\* PUT writes a block.
LEMMA PutWriteKeeps ==
    ASSUME StoreAssumption, IInv, NEW r \in Req, PutWrite(r)
    PROVE  IInv'
  <1>1. TypeOK /\ req[r] \in Request /\ PutInv(r) /\ At(r, "put", "stream")
    BY DEF IInv, TypeOK, PutWrite
  <1>2. PICK f \in File : f = req[r].file
    BY <1>1 DEF PutInv
  <1>3. PICK n \in 0..Length[f] : n = req[r].n
    BY <1>1, <1>2 DEF PutInv
  <1>4. PICK fd \in Inode : fd = req[r].fd /\ fd # dest /\ (part # Absent => part = fd)
    BY <1>1 DEF PutInv, Request
  <1>5. inode[fd] = Piece(f, n) /\ n \in Nat /\ Len(Piece(f, n)) = n
    BY <1>1, <1>2, <1>3, <1>4, PieceType DEF PutInv, StoreAssumption
  <1>6. /\ n + 1 <= Length[f] /\ Advance(r, "stream", n + 1, fd, Absent)
        /\ Store([inode EXCEPT ![fd] = WriteAt(@, n + 1, <<f, n + 1>>)])
        /\ UNCHANGED <<dest, part, side, faults>>
    BY <1>2, <1>3, <1>4 DEF PutWrite
  <1>7. Store([inode EXCEPT ![fd] = Piece(f, n + 1)])
    BY <1>1, <1>5, <1>6, WriteAtPiece DEF TypeOK
  <1>8. /\ "stream" \in PCs /\ fd \in Inode \cup {Absent} /\ Absent \in Content \cup {Absent}
        /\ n + 1 \in Nat /\ n + 1 \in 0..Length[f]
    BY <1>5, <1>6, Literals DEF StoreAssumption
  <1>9. /\ Moves(r) /\ req'[r].op = req[r].op /\ req'[r].pc = "stream"
        /\ req'[r].file = req[r].file /\ req'[r].n = n + 1 /\ req'[r].fd = fd
    BY <1>1, <1>6, <1>8, AdvanceMoves
  <1>10. \A q \in Req : At(q, "get", "send") => fd # req[q].fd
    BY <1>1, <1>4 DEF IInv, GetInv, Holds
  <1>11. req[r].op = "put" /\ Alone(r, "put") /\ ~InWindow(r)
    BY <1>1, WritingAlone DEF At, Writing, Running, Writers, InWindow
  <1>12. /\ UNCHANGED <<dest, side, faults>> /\ req'[r].file = f
         /\ part' \in {part, fd} /\ (part' # Absent => part' = fd) /\ req'[r].op = "put"
    BY <1>2, <1>4, <1>6, <1>9, <1>11
  <1> QED
    BY <1>4, <1>7, <1>8, <1>9, <1>10, <1>11, <1>12, HoldStep

\* PUT ends its body, or loses its connection.
LEMMA PutEndKeeps ==
    ASSUME StoreAssumption, IInv, NEW r \in Req, PutEnd(r) \/ PutDrop(r)
    PROVE  IInv'
  <1>1. /\ TypeOK /\ req[r] \in Request /\ PutInv(r) /\ At(r, "put", "stream")
        /\ UNCHANGED <<dest, part, side, faults>> /\ Store(inode)
    BY DEF IInv, TypeOK, PutEnd, PutDrop
  <1>2. PICK f \in File : f = req[r].file
    BY <1>1 DEF PutInv
  <1>3. PICK n \in 0..Length[f] : n = req[r].n
    BY <1>1, <1>2 DEF PutInv
  <1>4. /\ req[r].op = "put" /\ Alone(r, "put") /\ ~InWindow(r)
    BY <1>1, WritingAlone DEF At, Writing, Running, Writers, InWindow
  <1>5. Kept /\ n \in Nat
    BY <1>1, <1>3, StoreKeeps DEF StoreAssumption
  <1>6. /\ "rename" \in PCs /\ "cleanup" \in PCs /\ Absent \in Inode \cup {Absent}
        /\ Body(f) \in Content \cup {Absent} /\ Absent \in Content \cup {Absent}
    BY BodyType, Literals
  <1>7. ASSUME Moves(r), req'[r].op = req[r].op, req'[r].pc \in {"rename", "cleanup"},
               part # Absent /\ inode'[part] = inode[part] => PutInv(r)',
               part = Absent => PutInv(r)'
        PROVE  IInv'
    <2>1. PatchInv(r)' /\ ~Holds(r)' /\ ~InWindow(r)' /\ req'[r].op = "put" /\ "put" \in Writers
      BY <1>4, <1>7 DEF PatchInv, Holds, At, InWindow, Writers
    <2> QED
      BY <1>1, <1>4, <1>5, <1>7, <2>1, StageStep
  <1>8. CASE PutEnd(r)
    <2>1. n = Length[f] /\ Advance(r, "rename", n, Absent, Body(f))
      BY <1>2, <1>3, <1>8 DEF PutEnd
    <2>2. /\ Moves(r) /\ req'[r].op = req[r].op /\ req'[r].pc = "rename"
          /\ req'[r].file = req[r].file /\ req'[r].sum = Body(f)
      BY <1>1, <1>5, <1>6, <2>1, AdvanceMoves
    <2>3. part # Absent => inode[part] = Body(f)
      BY <1>1, <1>2, <1>3, <2>1 DEF PutInv, Body
    <2>4. part # Absent /\ inode'[part] = inode[part] => PutInv(r)'
      BY <1>1, <1>2, <2>2, <2>3 DEF PutInv, At
    <2>5. part = Absent => PutInv(r)'
      BY <1>1, <1>2, <2>2 DEF PutInv, At
    <2> QED
      BY <1>7, <2>2, <2>4, <2>5
  <1>9. CASE PutDrop(r)
    <2>1. Advance(r, "cleanup", n, Absent, Absent)
      BY <1>3, <1>9 DEF PutDrop
    <2>2. Moves(r) /\ req'[r].op = req[r].op /\ req'[r].pc = "cleanup"
      BY <1>1, <1>5, <1>6, <2>1, AdvanceMoves
    <2>3. PutInv(r)'
      BY <2>2 DEF PutInv, At
    <2> QED
      BY <1>7, <2>2, <2>3
  <1> QED
    BY <1>8, <1>9

\* The failed PUT removes the temp.
LEMMA PutCleanupKeeps ==
    ASSUME StoreAssumption, IInv, NEW r \in Req, PutCleanup(r)
    PROVE  IInv'
  <1>1. /\ TypeOK /\ Writing(r) /\ ~InWindow(r)
        /\ Reply(r, "put", 500) /\ part' \in {part, Absent}
        /\ UNCHANGED <<dest, side, faults>> /\ Store(inode)
    BY DEF PutCleanup, At, Writing, Running, Writers, InWindow, IInv
  <1>2. "put" \in Ops /\ 500 \in Nat
    BY Literals
  <1>3. Moves(r) /\ req'[r].op = "put" /\ req'[r].pc = "replied"
    BY <1>1, <1>2, ReplyMoves
  <1>4. \A q \in Req \ {r} : ~Writing(q)
    BY <1>1, WritingAlone DEF Alone, Writing
  <1>5. Kept
    BY <1>1, StoreKeeps
  <1> QED
    BY <1>1, <1>3, <1>4, <1>5, AnsweredKeeps DEF Writers

-----------------------------------------------------------------------------
(* Publication *)

\* The rename publishes the whole version the temp holds.
LEMMA PublishKeeps ==
    ASSUME StoreAssumption, IInv, NEW r \in Req, Publish(r),
           At(r, "patch", "rename") \/ At(r, "put", "rename")
    PROVE  IInv'
  <1>1. /\ TypeOK /\ PatchInv(r) /\ PutInv(r) /\ Goto(r, "sidecar") /\ Store(inode)
        /\ part # Absent /\ dest' = part /\ part' = Absent /\ UNCHANGED <<side, faults>>
    BY DEF IInv, Publish
  <1>2. PICK f \in File : inode[part] = Body(f) /\ req[r].sum = Body(f)
    BY <1>1 DEF PatchInv, PutInv
  <1>3. "sidecar" \in PCs
    BY Literals
  <1>4. /\ Moves(r) /\ req'[r].op = req[r].op /\ req'[r].pc = "sidecar"
        /\ req'[r].sum = req[r].sum
    BY <1>1, <1>3, GotoMoves
  <1>5. req[r].op \in Writers /\ Alone(r, req[r].op) /\ ~InWindow(r)
    BY WritingAlone DEF At, Writing, Running, Writers, InWindow
  <1>6. Kept
    BY <1>1, StoreKeeps
  <1>7. part \in Inode /\ inode'[part] = Body(f)
    BY <1>1, <1>2, <1>6 DEF TypeOK, Kept, Live
  <1>8. TypeOK' /\ StagedPiece' /\ PublishedIntact'
    BY <1>1, <1>4, <1>6, <1>7, BodyType DEF TypeOK, StagedPiece, PublishedIntact, Kept, Moves
  <1>9. SidecarMatches'
    BY <1>4 DEF SidecarMatches
  <1>10. PatchInv(r)' /\ PutInv(r)'
    BY <1>4 DEF PatchInv, PutInv, At
  <1>11. WindowInv(r)'
    BY <1>1, <1>2, <1>4, <1>5, <1>7, BodyType DEF WindowInv
  <1>12. ASSUME NEW q \in Req PROVE GetInv(q)'
    <2>1. CASE q = r
      BY <1>4, <1>5, <2>1 DEF GetInv, At, Writers
    <2>2. CASE q # r
      <3>1. ~Holds(r)' /\ Absent \in Inode \cup {Absent}
        BY <1>4 DEF Holds, At
      <3>2. At(q, "get", "send") => Absent # req[q].fd
        BY DEF IInv, GetInv
      <3>3. part' \in {part, Absent} /\ \A j \in Inode : Live(j)' => inode'[j] = inode[j]
        BY <1>1, <1>6 DEF Kept
      <3> QED
        BY <1>4, <2>2, <3>1, <3>2, <3>3, ReadersUndisturbed
    <2> QED
      BY <2>1, <2>2
  <1>13. /\ Running(r)' => req'[r].op \in Writers
         /\ \A q \in Req \ {r} : Running(q) =>
                req[q].op \notin Writers /\ (req[q].op = "delete" => req'[r].op = "put")
    BY <1>4, <1>5 DEF Alone
  <1> QED
    BY <1>4, <1>8, <1>9, <1>10, <1>11, <1>12, <1>13, WriterStep

\* The rename of a PATCH: its temp is still there.
LEMMA PatchRenameKeeps ==
    ASSUME StoreAssumption, IInv, NEW r \in Req, PatchRename(r)
    PROVE  IInv'
  <1>1. At(r, "patch", "rename") /\ PatchInv(r)
    BY DEF IInv, PatchRename
  <1>2. part # Absent
    BY <1>1 DEF PatchInv
  <1>3. Publish(r)
    BY <1>2 DEF PatchRename
  <1> QED
    BY <1>1, <1>3, PublishKeeps

\* The rename of a PUT, which fails when a DELETE has removed the temp.
LEMMA PutRenameKeeps ==
    ASSUME StoreAssumption, IInv, NEW r \in Req, PutRename(r)
    PROVE  IInv'
  <1>1. At(r, "put", "rename") /\ TypeOK
    BY DEF IInv, PutRename
  <1>2. CASE Publish(r)
    BY <1>1, <1>2, PublishKeeps
  <1>3. CASE Goto(r, "cleanup") /\ UNCHANGED <<inode, dest, part, side, faults>>
    <2>1. "cleanup" \in PCs
      BY Literals
    <2>2. Moves(r) /\ req'[r].op = req[r].op /\ req'[r].pc = "cleanup"
      BY <1>1, <1>3, <2>1, GotoMoves
    <2>3. req[r].op = "put" /\ Alone(r, "put") /\ ~InWindow(r)
      BY <1>1, WritingAlone DEF At, Writing, Running, Writers, InWindow
    <2>4. /\ PatchInv(r)' /\ PutInv(r)' /\ ~Holds(r)' /\ ~InWindow(r)'
          /\ "put" \in Writers /\ req'[r].op = "put"
      BY <2>2, <2>3 DEF PatchInv, PutInv, Holds, At, InWindow, Writers
    <2>5. Kept
      BY <1>1, <1>3, UnchangedKeeps
    <2> QED
      BY <1>3, <2>2, <2>3, <2>4, <2>5, StageStep
  <1> QED
    BY <1>2, <1>3 DEF PutRename

\* The sidecar is truncated, written, or given up.
LEMMA SidecarKeeps ==
    ASSUME StoreAssumption, IInv, NEW r \in Req, Sidecar(r)
    PROVE  IInv'
  <1>1. /\ TypeOK /\ req[r] \in Request /\ InWindow(r) /\ WindowInv(r)
        /\ UNCHANGED <<inode, dest, part>>
    BY DEF IInv, TypeOK, Sidecar, SideTruncate, SideWrite, SideFail, InWindow
  <1>2. /\ req[r].op \in Writers /\ req[r].sum \in Content
        /\ dest # Absent => inode[dest] = req[r].sum
    BY <1>1 DEF WindowInv
  <1>3. Alone(r, req[r].op)
    BY <1>1, <1>2, WritingAlone DEF Writing, Running, InWindow
  <1>4. ASSUME Moves(r), req'[r].op = req[r].op, req'[r].pc \in {"sidewrite", "replied"},
               TypeOK', SidecarMatches', WindowInv(r)'
        PROVE  IInv'
    <2>1. StagedPiece' /\ PublishedIntact'
      BY <1>1 DEF IInv, StagedPiece, PublishedIntact
    <2>2. PatchInv(r)' /\ PutInv(r)'
      BY <1>4 DEF PatchInv, PutInv, At
    <2>3. ASSUME NEW q \in Req PROVE GetInv(q)'
      <3>1. CASE q = r
        BY <1>2, <1>4, <3>1 DEF GetInv, At, Writers
      <3>2. CASE q # r
        <4>1. ~Holds(r)' /\ Absent \in Inode \cup {Absent}
          BY <1>4 DEF Holds, At
        <4>2. At(q, "get", "send") => Absent # req[q].fd
          BY DEF IInv, GetInv
        <4>3. part' \in {part, Absent} /\ \A j \in Inode : Live(j)' => inode'[j] = inode[j]
          BY <1>1
        <4> QED
          BY <1>4, <3>2, <4>1, <4>2, <4>3, ReadersUndisturbed
      <3> QED
        BY <3>1, <3>2
    <2>4. /\ Running(r)' => req'[r].op \in Writers
          /\ \A q \in Req \ {r} : Running(q) =>
                 req[q].op \notin Writers /\ (req[q].op = "delete" => req'[r].op = "put")
      BY <1>2, <1>3, <1>4 DEF Alone
    <2> QED
      BY <1>4, <2>1, <2>2, <2>3, <2>4, WriterStep
  <1>5. CASE SideTruncate(r)
    <2>1. "sidewrite" \in PCs
      BY Literals
    <2>2. Goto(r, "sidewrite") /\ side' = Blank /\ faults' = faults
      BY <1>5 DEF SideTruncate
    <2>3. /\ Moves(r) /\ req'[r].op = req[r].op /\ req'[r].pc = "sidewrite"
          /\ req'[r].sum = req[r].sum
      BY <1>1, <2>1, <2>2, GotoMoves
    <2>4. TypeOK' /\ SidecarMatches'
      BY <1>1, <2>2, <2>3 DEF TypeOK, SidecarMatches, Moves
    <2>5. WindowInv(r)'
      BY <1>1, <1>2, <2>3 DEF WindowInv
    <2> QED
      BY <1>4, <2>3, <2>4, <2>5
  <1>6. ASSUME Done(r) PROVE Moves(r) /\ req'[r].op = req[r].op /\ req'[r].pc = "replied"
    <2>1. /\ "patch" \in Ops /\ "put" \in Ops /\ 200 \in Nat /\ 201 \in Nat
          /\ "complete" \in Says /\ Absent \in Content \cup {Absent}
      BY Literals
    <2>2. PICK n \in Nat : n = req[r].n
      BY <1>1 DEF Request
    <2>3. CASE req[r].op = "patch"
      <3>1. Answer(r, "patch", 200, n, "complete", Absent)
        BY <1>6, <2>2, <2>3 DEF Done
      <3>2. Moves(r) /\ req'[r].op = "patch" /\ req'[r].pc = "replied"
        BY <1>1, <2>1, <3>1, AnswerMoves
      <3> QED
        BY <2>3, <3>2
    <2>4. CASE req[r].op = "put"
      <3>1. Reply(r, "put", 201)
        BY <1>6, <2>4 DEF Done
      <3>2. Moves(r) /\ req'[r].op = "put" /\ req'[r].pc = "replied"
        BY <1>1, <2>1, <3>1, ReplyMoves
      <3> QED
        BY <2>4, <3>2
    <2> QED
      BY <1>2, <2>3, <2>4 DEF Writers
  <1>7. CASE SideWrite(r)
    <2>1. Done(r) /\ side' \in {Absent, req[r].sum} /\ faults' = faults
      BY <1>7 DEF SideWrite
    <2>2. Moves(r) /\ req'[r].op = req[r].op /\ req'[r].pc = "replied"
      BY <1>6, <2>1
    <2>3. TypeOK'
      BY <1>1, <1>2, <2>1, <2>2 DEF TypeOK, Moves
    <2>4. SidecarMatches'
      BY <1>1, <1>2, <2>1 DEF SidecarMatches
    <2>5. WindowInv(r)'
      BY <2>2 DEF WindowInv, InWindow
    <2> QED
      BY <1>4, <2>2, <2>3, <2>4, <2>5
  <1>8. CASE SideFail(r)
    <2>1. Done(r) /\ side' = side /\ faults < MaxFaults /\ faults' = faults + 1
      BY <1>8 DEF SideFail
    <2>2. Moves(r) /\ req'[r].op = req[r].op /\ req'[r].pc = "replied"
      BY <1>6, <2>1
    <2>3. faults' \in 0..MaxFaults /\ faults' # 0
      BY <1>1, <2>1 DEF TypeOK, StoreAssumption
    <2>4. TypeOK'
      BY <1>1, <2>1, <2>2, <2>3 DEF TypeOK, Moves
    <2>5. SidecarMatches'
      BY <2>3 DEF SidecarMatches
    <2>6. WindowInv(r)'
      BY <2>2 DEF WindowInv, InWindow
    <2> QED
      BY <1>4, <2>2, <2>4, <2>5, <2>6
  <1> QED
    BY <1>5, <1>7, <1>8 DEF Sidecar

-----------------------------------------------------------------------------
(* Restart, and the invariant *)

\* A restart keeps what is on the volume.
LEMMA CrashKeeps ==
    ASSUME StoreAssumption, IInv, Crash
    PROVE  IInv'
  <1>1. TypeOK /\ Kept /\ UNCHANGED <<dest, part, side>>
    BY StoreKeeps DEF IInv, Crash
  <1>2. \A r \in Req : req'[r] = Idle
    BY DEF Crash
  <1>3. Idle.pc = "idle" /\ Idle.op = "none" /\ Idle \in Request
    BY IdleType DEF Idle
  <1>4. faults' \in 0..MaxFaults /\ faults' # 0
    BY <1>1 DEF Crash, TypeOK, StoreAssumption
  <1>5. req' \in [Req -> Request]
    BY <1>3 DEF Crash
  <1>6. TypeOK'
    BY <1>1, <1>4, <1>5 DEF TypeOK, Kept
  <1>7. Exclusive'
    BY <1>2, <1>3 DEF Exclusive, Writing, Running
  <1>8. StagedPiece' /\ PublishedIntact'
    BY <1>1 DEF IInv, TypeOK, StagedPiece, PublishedIntact, Kept, Live
  <1>9. SidecarMatches'
    BY <1>4 DEF SidecarMatches
  <1>10. \A r \in Req : PatchInv(r)' /\ PutInv(r)' /\ WindowInv(r)' /\ GetInv(r)'
    BY <1>2, <1>3 DEF PatchInv, PutInv, WindowInv, GetInv, InWindow, At
  <1> QED
    BY <1>6, <1>7, <1>8, <1>9, <1>10 DEF IInv

\* The empty store satisfies the invariant.
LEMMA InitInv ==
    ASSUME StoreAssumption, Init
    PROVE  IInv
  <1>1. Idle.pc = "idle" /\ Idle.op = "none" /\ Idle \in Request
    BY IdleType DEF Idle
  <1>2. \A r \in Req : req[r] = Idle
    BY DEF Init
  <1>3. TypeOK
    <2>1. <<>> \in Content
      BY DEF Content
    <2>2. faults \in 0..MaxFaults /\ side \in Content \cup {Absent}
      BY DEF Init, StoreAssumption
    <2> QED
      BY <1>1, <2>1, <2>2 DEF Init, TypeOK
  <1>4. Exclusive
    BY <1>1, <1>2 DEF Exclusive, Writing, Running
  <1>5. StagedPiece /\ PublishedIntact /\ SidecarMatches
    BY DEF Init, StagedPiece, PublishedIntact, SidecarMatches
  <1>6. \A r \in Req : PatchInv(r) /\ PutInv(r) /\ WindowInv(r) /\ GetInv(r)
    BY <1>1, <1>2 DEF PatchInv, PutInv, WindowInv, GetInv, InWindow, At
  <1> QED
    BY <1>3, <1>4, <1>5, <1>6 DEF IInv

\* Every step keeps the invariant.
LEMMA NextInv ==
    ASSUME StoreAssumption, Disciplined, IInv, [Next]_vars
    PROVE  IInv'
  <1>1. ASSUME NEW r \in Req, Patch(r) PROVE IInv'
    BY <1>1, PatchStartKeeps, PatchOpenKeeps, PatchAppendKeeps, PatchEndKeeps,
       PatchDropKeeps, PatchWriteFailsKeeps, PatchHashKeeps, PatchRenameKeeps DEF Patch
  <1>2. ASSUME NEW r \in Req, Put(r) PROVE IInv'
    BY <1>2, PutCreateKeeps, PutWriteKeeps, PutEndKeeps, PutRenameKeeps, PutCleanupKeeps DEF Put
  <1>3. CASE UNCHANGED vars
    BY <1>3 DEF vars, IInv, TypeOK, Exclusive, Writing, Running, StagedPiece,
       PublishedIntact, SidecarMatches, PatchInv, PutInv, WindowInv, GetInv, InWindow,
       Holds, At
  <1> QED
    BY <1>1, <1>2, <1>3, SidecarKeeps, DeleteKeeps, ReadKeeps, CrashKeeps DEF Next

\* Every reachable state of a disciplined store satisfies the invariant.
THEOREM Invariance ==
    ASSUME StoreAssumption, Disciplined
    PROVE  Spec => []IInv
  <1>1. Init => IInv
    BY InitInv
  <1>2. IInv /\ [Next]_vars => IInv'
    BY NextInv
  <1> QED
    BY <1>1, <1>2, PTL DEF Spec

\* Type correctness: no handler leaves the volume, a name or a request malformed,
\* and the final name and the temp never share an inode.
THEOREM TypeCorrect ==
    ASSUME StoreAssumption, Disciplined
    PROVE  Spec => []TypeOK
  <1>1. IInv => TypeOK
    BY DEF IInv
  <1> QED
    BY <1>1, Invariance, PTL

\* Under the final name only complete versions are ever visible, whatever drops,
\* fails, restarts or is deleted meanwhile (saveStream and finalizePart rename).
THEOREM Integrity ==
    ASSUME StoreAssumption, Disciplined
    PROVE  Spec => []PublishedIntact
  <1>1. IInv => PublishedIntact
    BY DEF IInv
  <1> QED
    BY <1>1, Invariance, PTL

\* Without faults the recorded checksum never contradicts the published bytes
\* (writeSidecar follows the rename with the digest of what was renamed).
THEOREM SidecarCorrect ==
    ASSUME StoreAssumption, Disciplined
    PROVE  Spec => []SidecarMatches
  <1>1. IInv => SidecarMatches
    BY DEF IInv
  <1> QED
    BY <1>1, Invariance, PTL

\* A download answered in full is the beginning of one version (handleDownload
\* serves one descriptor).
THEOREM DownloadCorrect ==
    ASSUME StoreAssumption, Disciplined
    PROVE  Spec => []DownloadUnmixed
  <1>1. IInv => DownloadUnmixed
    BY DEF IInv, GetInv, DownloadUnmixed
  <1> QED
    BY <1>1, Invariance, PTL

-----------------------------------------------------------------------------
(* Published bytes do not change in place *)

\* No step writes to an inode that is published or that a download reads: a
\* handler writes to a temp of its own, or to a new inode.
LEMMA Untouched ==
    ASSUME StoreAssumption, IInv, Next, NEW i \in Inode, Live(i)',
           i = dest \/ \E q \in Req : At(q, "get", "send") /\ req[q].fd = i
    PROVE  inode'[i] = inode[i]
  <1>1. TypeOK
    BY DEF IInv
  <1>2. i # part /\ i \notin Free /\ i # Absent
    BY <1>1 DEF IInv, GetInv, TypeOK, Live, Free, StoreAssumption
  <1>3. ASSUME NEW r \in Req, Holds(r) PROVE i # req[r].fd
    BY <1>1, <1>2, <1>3 DEF IInv, GetInv, PatchInv, PutInv, Holds, At
  <1>4. ASSUME NEW k, NEW c, k # i, Store([inode EXCEPT ![k] = c]) PROVE inode'[i] = inode[i]
    BY <1>1, <1>4 DEF Store, TypeOK
  <1>5. ASSUME Store(inode) PROVE inode'[i] = inode[i]
    BY <1>5 DEF Store
  <1>6. ASSUME NEW r \in Req, PatchOpen(r) PROVE inode'[i] = inode[i]
    BY <1>2, <1>4, <1>6 DEF PatchOpen
  <1>7. ASSUME NEW r \in Req, PatchAppend(r) PROVE inode'[i] = inode[i]
    BY <1>3, <1>4, <1>7 DEF PatchAppend, Holds
  <1>8. ASSUME NEW r \in Req, PatchWriteFails(r) PROVE inode'[i] = inode[i]
    BY <1>3, <1>4, <1>5, <1>8 DEF PatchWriteFails, Holds
  <1>9. ASSUME NEW r \in Req, NEW f \in File, PutCreate(r, f) PROVE inode'[i] = inode[i]
    BY <1>2, <1>4, <1>9 DEF PutCreate
  <1>10. ASSUME NEW r \in Req, PutWrite(r) PROVE inode'[i] = inode[i]
    BY <1>3, <1>4, <1>10 DEF PutWrite, Holds
  <1>11. ASSUME NEW r \in Req, Patch(r) PROVE inode'[i] = inode[i]
    BY <1>5, <1>6, <1>7, <1>8, <1>11 DEF Patch, PatchArrive, PatchStat, PatchEnd, PatchDrop,
       PatchHash, PatchRename, Publish
  <1>12. ASSUME NEW r \in Req, Put(r) PROVE inode'[i] = inode[i]
    BY <1>5, <1>9, <1>10, <1>12 DEF Put, PutEnd, PutDrop, PutRename, PutCleanup, Publish
  <1>13. ASSUME NEW r \in Req, Sidecar(r) \/ Delete(r) \/ Read(r) \/ Deliver(r)
         PROVE  inode'[i] = inode[i]
    BY <1>5, <1>13 DEF Sidecar, SideTruncate, SideWrite, SideFail, Delete, DeleteArrive,
       DeleteStatPart, DeleteUnlink, DeleteSide, DeletePart, Read, HeadArrive, HeadPart,
       VerifyArrive, VerifyExpect, VerifyDigest, GetArrive, GetOpen, GetSend, Deliver
  <1>14. CASE Crash
    BY <1>5, <1>14 DEF Crash
  <1> QED
    BY <1>11, <1>12, <1>13, <1>14 DEF Next

\* A published file never changes in place: readers that have it open keep
\* reading the version they opened (uploads only ever rename over it).
THEOREM Immutability ==
    ASSUME StoreAssumption, Disciplined
    PROVE  Spec => PublishedImmutable
  <1>1. IInv /\ [Next]_vars =>
            [dest' = dest /\ dest # Absent => inode'[dest] = inode[dest]]_vars
    <2> SUFFICES ASSUME IInv, Next, dest' = dest, dest # Absent
                 PROVE  inode'[dest] = inode[dest]
      OBVIOUS
    <2>1. dest \in Inode /\ Live(dest)'
      BY DEF IInv, TypeOK, Live
    <2> QED
      BY <2>1, Untouched
  <1> QED
    BY <1>1, Invariance, PTL DEF Spec, PublishedImmutable

-----------------------------------------------------------------------------
(* The target is an atomic file *)

\* A step of slot r leaves the other slots alone.
Others(r) == \A q \in Req \ {r} : req'[q] = req[q]

LEMMA BecomeOthers ==
    ASSUME TypeOK, NEW r \in Req, NEW new, Become(r, new)
    PROVE  Others(r) /\ req'[r] = new
  BY DEF TypeOK, Become, Others

\* How the operation of a request changes, whatever its other fields become.
LEMMA StartOp ==
    ASSUME TypeOK, NEW r \in Req, NEW op, NEW pc, NEW f, NEW n, NEW fd,
           Start(r, op, pc, f, n, fd)
    PROVE  Others(r) /\ req'[r].op = op /\ req'[r].pc = pc
  <1> DEFINE new == [Idle EXCEPT !.op = op, !.pc = pc, !.file = f, !.n = n, !.fd = fd]
  <1>1. new.op = op /\ new.pc = pc
    BY DEF Idle
  <1>2. Become(r, new)
    BY DEF Start
  <1> HIDE DEF new
  <1> QED
    BY <1>1, <1>2, BecomeOthers

LEMMA GotoOp ==
    ASSUME TypeOK, NEW r \in Req, NEW pc, Goto(r, pc)
    PROVE  Others(r) /\ req'[r].op = req[r].op /\ req'[r].pc = pc
  <1> DEFINE new == [req[r] EXCEPT !.pc = pc]
  <1>1. new.op = req[r].op /\ new.pc = pc
    BY DEF TypeOK, Request
  <1>2. Become(r, new)
    BY DEF Goto
  <1> HIDE DEF new
  <1> QED
    BY <1>1, <1>2, BecomeOthers

LEMMA AdvanceOp ==
    ASSUME TypeOK, NEW r \in Req, NEW pc, NEW n, NEW fd, NEW sum, Advance(r, pc, n, fd, sum)
    PROVE  /\ Others(r) /\ req'[r].op = req[r].op /\ req'[r].pc = pc /\ req'[r].fd = fd
  <1> DEFINE new == [req[r] EXCEPT !.pc = pc, !.n = n, !.fd = fd, !.sum = sum]
  <1>1. new.op = req[r].op /\ new.pc = pc /\ new.fd = fd
    BY DEF TypeOK, Request
  <1>2. Become(r, new)
    BY DEF Advance
  <1> HIDE DEF new
  <1> QED
    BY <1>1, <1>2, BecomeOthers

LEMMA AnswerOp ==
    ASSUME TypeOK, NEW r \in Req, NEW op, NEW status, NEW off, NEW says, NEW sum,
           Answer(r, op, status, off, says, sum) \/ Reply(r, op, status)
    PROVE  Others(r) /\ req'[r].pc = "replied"
  <1>1. PICK o, s, c : Answer(r, op, status, o, s, c)
    BY DEF Reply
  <1> DEFINE new == [Idle EXCEPT !.op = op, !.pc = "replied", !.status = status,
                                 !.off = o, !.says = s, !.sum = c]
  <1>2. new.pc = "replied"
    BY DEF Idle
  <1>3. Become(r, new)
    BY <1>1 DEF Answer
  <1> HIDE DEF new
  <1> QED
    BY <1>2, <1>3, BecomeOthers

\* What a download in slot r shows of the target.
View(r) == IF At(r, "get", "send") THEN inode[req[r].fd] ELSE Absent
Views == [q \in Req |-> View(q)]
Shown == IF dest = Absent THEN Absent ELSE inode[dest]

\* A download in progress has a file open.
Sending == \A q \in Req : At(q, "get", "send") => req[q].fd \in Inode

\* The step writes to nothing that is published or that a download reads.
Undisturbed ==
    \A i \in Inode :
        /\ Live(i)'
        /\ i = dest \/ \E q \in Req : At(q, "get", "send") /\ req[q].fd = i
        => inode'[i] = inode[i]

\* Downloads that stay open keep showing the same version.
LEMMA ViewStays ==
    ASSUME Sending, Undisturbed, NEW q \in Req, At(q, "get", "send"), req'[q] = req[q]
    PROVE  View(q)' = View(q)
  <1>1. req[q].fd \in Inode
    BY DEF Sending
  <1>2. Live(req[q].fd)'
    BY DEF Live
  <1>3. inode'[req[q].fd] = inode[req[q].fd]
    BY <1>1, <1>2 DEF Undisturbed
  <1> QED
    BY <1>3 DEF View, At

\* The operations that change the target, and the readers that open nothing.
Plain(r) ==
    \/ Patch(r) \/ Put(r) \/ Sidecar(r) \/ Delete(r) \/ Deliver(r)
    \/ HeadArrive(r) \/ HeadPart(r) \/ VerifyArrive(r) \/ VerifyExpect(r) \/ VerifyDigest(r)
    \/ GetArrive(r)

LEMMA PlainMoves ==
    ASSUME TypeOK, NEW r \in Req, Plain(r)
    PROVE  Others(r) /\ req[r].pc # "send" /\ req'[r].pc # "send"
  <1>1. CASE Patch(r)
    <2>1. ASSUME NEW f \in File, NEW o \in Offsets, PatchArrive(r, f, o)
          PROVE  Others(r) /\ req[r].pc # "send" /\ req'[r].pc # "send"
      BY <2>1, StartOp, AnswerOp DEF PatchArrive, PatchStat
    <2>2. CASE PatchOpen(r)
      BY <2>2, AdvanceOp DEF PatchOpen, At
    <2>3. CASE \/ PatchAppend(r) \/ PatchEnd(r) \/ PatchDrop(r)
               \/ PatchWriteFails(r) \/ PatchHash(r)
      BY <2>3, AdvanceOp, AnswerOp DEF PatchAppend, PatchEnd, PatchDrop, PatchWriteFails,
         PatchHash, At
    <2>4. CASE PatchRename(r)
      BY <2>4, GotoOp, AnswerOp DEF PatchRename, Publish, At
    <2> QED
      BY <1>1, <2>1, <2>2, <2>3, <2>4 DEF Patch
  <1>2. CASE Put(r)
    <2>1. ASSUME NEW f \in File, PutCreate(r, f)
          PROVE  Others(r) /\ req[r].pc # "send" /\ req'[r].pc # "send"
      BY <2>1, StartOp DEF PutCreate
    <2>2. CASE PutWrite(r) \/ PutEnd(r) \/ PutDrop(r)
      BY <2>2, AdvanceOp DEF PutWrite, PutEnd, PutDrop, At
    <2>3. CASE PutRename(r) \/ PutCleanup(r)
      BY <2>3, GotoOp, AnswerOp DEF PutRename, PutCleanup, Publish, At
    <2> QED
      BY <1>2, <2>1, <2>2, <2>3 DEF Put
  <1>3. CASE Sidecar(r)
    BY <1>3, GotoOp, AnswerOp DEF Sidecar, SideTruncate, SideWrite, SideFail, Done
  <1>4. CASE Delete(r)
    BY <1>4, StartOp, GotoOp, AnswerOp DEF Delete, DeleteArrive, DeleteStatPart,
       DeleteUnlink, DeleteSide, DeletePart, At
  <1>5. CASE Deliver(r)
    <2>1. Idle.pc = "idle"
      BY DEF Idle
    <2> QED
      BY <1>5, <2>1, BecomeOthers DEF Deliver
  <1>6. CASE HeadArrive(r) \/ HeadPart(r) \/ GetArrive(r)
    BY <1>6, StartOp, AnswerOp DEF HeadArrive, HeadPart, GetArrive, At
  <1>7. CASE VerifyArrive(r) \/ VerifyExpect(r) \/ VerifyDigest(r)
    BY <1>7, StartOp, AdvanceOp, AnswerOp DEF VerifyArrive, VerifyExpect, VerifyDigest, At
  <1> QED
    BY <1>1, <1>2, <1>3, <1>4, <1>5, <1>6, <1>7 DEF Plain

\* Views after a step of r that has r keep, open or close its own.
LEMMA ViewsOf ==
    ASSUME Sending, Undisturbed, NEW r \in Req, Others(r), NEW v, v = View(r)'
    PROVE  Views' = [Views EXCEPT ![r] = v]
  <1>1. \A q \in Req \ {r} : View(q)' = View(q)
    BY ViewStays DEF Others, View, At
  <1> QED
    BY <1>1, Zenon DEF Views

\* What a step shows of the target and of the downloads: only one of the two
\* changes, and a download opens what is published, closes, or stays.
Shows ==
    \/ Views' = Views
    \/ Shown' = Shown /\ Views' = [q \in Req |-> Absent]
    \/ \E r \in Req : Shown' = Shown /\ Views' = [Views EXCEPT ![r] = Absent]
    \/ \E r \in Req : /\ Views[r] = Absent /\ Shown # Absent /\ Shown' = Shown
                      /\ Views' = [Views EXCEPT ![r] = Shown]

LEMMA StepShows ==
    ASSUME StoreAssumption, TypeOK, Sending, Undisturbed, Next
    PROVE  Shows
  <1>1. ASSUME dest' = dest PROVE Shown' = Shown
    <2>1. CASE dest # Absent
      <3>1. PICK i \in Inode : i = dest
        BY <2>1 DEF TypeOK
      <3>2. Live(i)'
        BY <1>1, <3>1 DEF Live
      <3>3. inode'[dest] = inode[dest]
        BY <3>1, <3>2 DEF Undisturbed
      <3> QED
        BY <1>1, <3>3 DEF Shown
    <2>2. CASE dest = Absent
      BY <1>1, <2>2 DEF Shown
    <2> QED
      BY <2>1, <2>2
  <1>2. ASSUME NEW r \in Req, Plain(r) PROVE Shows
    <2>1. Others(r) /\ View(r)' = View(r)
      BY <1>2, PlainMoves DEF View, At
    <2>2. \A q \in Req \ {r} : View(q)' = View(q)
      BY <2>1, ViewStays DEF Others, View, At
    <2> QED
      BY <2>1, <2>2 DEF Shows, Views
  <1>3. ASSUME NEW r \in Req, GetOpen(r) PROVE Shows
    <2>1. View(r) = Absent /\ dest' = dest /\ inode' = inode /\ req[r].op = "get"
      BY <1>3 DEF GetOpen, View, At
    <2>2. CASE dest = Absent
      <3>1. Reply(r, "get", 404)
        BY <1>3, <2>2 DEF GetOpen
      <3>2. Others(r) /\ View(r)' = Absent
        BY <3>1, AnswerOp DEF View, At
      <3> QED
        BY <1>1, <2>1, <3>2, ViewsOf DEF Shows
    <2>3. CASE dest # Absent
      <3>1. Advance(r, "send", req[r].n, dest, <<>>)
        BY <1>3, <2>3 DEF GetOpen
      <3>2. Others(r) /\ View(r)' = inode[dest]
        BY <2>1, <3>1, AdvanceOp DEF View, At
      <3>3. Views' = [Views EXCEPT ![r] = inode[dest]]
        BY <3>2, ViewsOf
      <3>4. Shown' = Shown /\ Shown = inode[dest] /\ Shown # Absent
        BY <1>1, <2>1, <2>3 DEF Shown, TypeOK, StoreAssumption
      <3>5. Views[r] = Absent
        BY <2>1 DEF Views
      <3> QED
        BY <3>3, <3>4, <3>5 DEF Shows
    <2> QED
      BY <2>2, <2>3
  <1>4. ASSUME NEW r \in Req, GetSend(r) PROVE Shows
    <2>1. dest' = dest /\ At(r, "get", "send")
      BY <1>4 DEF GetSend
    <2>2. ASSUME NEW sum, Advance(r, "send", req[r].n, req[r].fd, sum) PROVE Shows
      <3>1. Others(r) /\ req'[r].op = "get" /\ req'[r].pc = "send" /\ req'[r].fd = req[r].fd
        BY <2>1, <2>2, AdvanceOp DEF At
      <3>2. req[r].fd \in Inode /\ Live(req[r].fd)'
        BY <2>1, <3>1 DEF Sending, Live
      <3>3. View(r)' = View(r)
        BY <2>1, <3>1, <3>2 DEF View, At, Undisturbed
      <3>4. \A q \in Req : View(q)' = View(q)
        BY <3>1, <3>3, ViewStays DEF Others, View, At
      <3> QED
        BY <3>4 DEF Shows, Views
    <2>3. ASSUME NEW off, NEW says, NEW sum,
                 Answer(r, "get", 200, off, says, sum) \/ Reply(r, "get", 500)
          PROVE  Shows
      <3>1. Others(r) /\ View(r)' = Absent
        BY <2>3, AnswerOp DEF View, At
      <3> QED
        BY <1>1, <2>1, <3>1, ViewsOf DEF Shows
    <2> QED
      BY <1>4, <2>2, <2>3 DEF GetSend
  <1>5. CASE Crash
    <2>1. Idle.pc = "idle" /\ dest' = dest /\ \A q \in Req : req'[q] = Idle
      BY <1>5 DEF Crash, Idle
    <2>2. Views' = [q \in Req |-> Absent]
      BY <2>1 DEF Views, View, At
    <2> QED
      BY <1>1, <2>1, <2>2 DEF Shows
  <1> QED
    BY <1>2, <1>3, <1>4, <1>5 DEF Next, Plain, Read

\* Every step of the store is a step of the atomic file.
LEMMA StepRefines ==
    ASSUME StoreAssumption, IInv, IInv', Next
    PROVE  Target!Next
  <1>1. TypeOK /\ Shown' \in Versions \cup {Absent}
    BY DEF IInv, Shown, PublishedIntact
  <1>2. Sending
    BY DEF IInv, TypeOK, Request, GetInv, Sending
  <1>3. Undisturbed
    BY Untouched DEF Undisturbed
  <1>4. Shows
    BY <1>1, <1>2, <1>3, StepShows
  <1>5. CASE Views' = Views
    BY <1>1, <1>5 DEF Target!Next, Target!Publish, Target!Remove, Views, View, Shown
  <1>6. CASE Shown' = Shown /\ Views' = [q \in Req |-> Absent]
    BY <1>6 DEF Target!Next, Target!Restart, Views, View, Shown
  <1>7. ASSUME NEW r \in Req, Shown' = Shown, Views' = [Views EXCEPT ![r] = Absent]
        PROVE  Target!Next
    BY <1>7 DEF Target!Next, Target!Close, Views, View, Shown
  <1>8. ASSUME NEW r \in Req, Views[r] = Absent, Shown # Absent, Shown' = Shown,
               Views' = [Views EXCEPT ![r] = Shown]
        PROVE  Target!Next
    BY <1>8 DEF Target!Next, Target!Open, Views, View, Shown
  <1> QED
    BY <1>4, <1>5, <1>6, <1>7, <1>8 DEF Shows

\* The store implements the atomic file: under the final name whole versions
\* appear and disappear at one instant each, and a download never sees a change.
THEOREM Refinement ==
    ASSUME StoreAssumption, Disciplined
    PROVE  Spec => RefinesAtomicTarget
  <1>1. Init => Target!Init
    <2>1. Idle.pc = "idle"
      BY DEF Idle
    <2> QED
      BY <2>1 DEF Init, Target!Init, At
  <1>2. IInv /\ IInv' /\ [Next]_vars =>
            [Target!Next]_<<IF dest = Absent THEN Absent ELSE inode[dest],
                            [r \in Req |-> IF At(r, "get", "send") THEN inode[req[r].fd]
                                                                   ELSE Absent]>>
    <2>1. CASE UNCHANGED vars
      BY <2>1 DEF vars, At
    <2> QED
      BY <2>1, StepRefines
  <1> QED
    BY <1>1, <1>2, Invariance, PTL DEF Spec, RefinesAtomicTarget, Target!Spec
=============================================================================
