-------------------------- MODULE StoreSharedProofs --------------------------
(***************************************************************************)
(* What the payload store promises when requests share a target more       *)
(* freely than PayloadStoreProofs allows.  First without any discipline:   *)
(* every operation may be in service next to every other one, and clients  *)
(* resume whatever is staged.  Then with one upload at a time that a       *)
(* DELETE may pull the temp away from, which is what cancelling an upload  *)
(* in the file browser does.                                               *)
(***************************************************************************)
EXTENDS PayloadStoreProofs

-----------------------------------------------------------------------------
(* No discipline: what every handler keeps on its own *)

\* What a handler knows of its own fields, whoever else is at work.
FieldsInv(r) ==
    /\ Writing(r) => req[r].file \in File
    /\ Holds(r) => req[r].fd \in Inode
    /\ At(r, "get", "send") => req[r].fd \in Inode /\ req[r].sum \in Content
    /\ Writing(r) /\ req[r].pc = "rename" => req[r].sum \in Content
    /\ InWindow(r) => req[r].op \in Writers /\ req[r].sum \in Content

Sound == TypeOK /\ \A r \in Req : FieldsInv(r)

\* The volume and the names after a step are well formed.
VolumeOK ==
    /\ inode \in [Inode -> Content]
    /\ dest \in Inode \cup {Absent}
    /\ part \in Inode \cup {Absent}
    /\ dest # Absent => dest # part
    /\ side \in Content \cup {Absent, Blank}
    /\ faults \in 0..MaxFaults

\* A step of r that keeps the volume well formed and what r knows of itself.
LEMMA SoundStep ==
    ASSUME Sound, NEW r \in Req, Moves(r), FieldsInv(r)', VolumeOK'
    PROVE  Sound'
  <1>1. TypeOK'
    BY DEF Moves, VolumeOK, TypeOK
  <1>2. ASSUME NEW q \in Req \ {r} PROVE FieldsInv(q)'
    BY DEF Sound, Moves, FieldsInv, Writing, Running, Holds, InWindow, At
  <1> QED
    BY <1>1, <1>2 DEF Sound

\* A handler that is neither an upload nor sends a file knows nothing.
LEMMA FieldsFree ==
    ASSUME NEW r \in Req, ~Writing(r), ~InWindow(r), ~At(r, "get", "send")
    PROVE  FieldsInv(r)
  BY DEF FieldsInv, Writing, Running, Holds, At, Writers

\* Dropping names and closing descriptors keeps the volume well formed.
LEMMA VolumeDrops ==
    ASSUME TypeOK, Kept, dest' \in {dest, Absent}, part' \in {part, Absent},
           side' \in {side, Absent}, faults' = faults
    PROVE  VolumeOK'
  BY DEF TypeOK, Kept, VolumeOK

\* Storing new content under an inode that may be freed by the same step.
LEMMA StoreMaybe ==
    ASSUME StoreAssumption, TypeOK, NEW i \in Inode, NEW c \in Content,
           Store([inode EXCEPT ![i] = c])
    PROVE  /\ inode' \in [Inode -> Content]
           /\ Live(i)' => inode'[i] = c
           /\ \A j \in Inode : Live(j)' /\ j # i => inode'[j] = inode[j]
  BY DEF TypeOK, Store, Content

\* What a PATCH does to its slot: its stat, whatever offset it claims.
LEMMA PatchStatEffect ==
    ASSUME StoreAssumption, TypeOK, NEW r \in Req, NEW f \in File, NEW offset \in Nat,
           PatchStat(r, f, offset)
    PROVE  /\ Moves(r) /\ req'[r].op = "patch"
           /\ \/ req'[r].pc = "replied" /\ req'[r].off = SizeOf(part)
              \/ /\ req'[r].pc = "open" /\ req'[r].file = f /\ req'[r].n = offset
                 /\ offset = SizeOf(part)
           /\ Kept /\ UNCHANGED <<inode, dest, part, side, faults>>
  <1>1. SizeOf(part) \in Nat
    BY DEF TypeOK, SizeOf, Content
  <1>2. /\ "patch" \in Ops /\ "open" \in PCs /\ 409 \in Nat /\ "none" \in Says
        /\ f \in File \cup {Absent} /\ Absent \in Inode \cup {Absent}
        /\ Absent \in Content \cup {Absent}
    BY Literals
  <1>3. Kept /\ UNCHANGED <<inode, dest, part, side, faults>>
    BY UnchangedKeeps DEF PatchStat
  <1>4. CASE Answer(r, "patch", 409, SizeOf(part), "none", Absent)
    <2>1. /\ Moves(r) /\ req'[r].op = "patch" /\ req'[r].pc = "replied"
          /\ req'[r].off = SizeOf(part)
      BY <1>1, <1>2, <1>4, AnswerMoves
    <2> QED
      BY <1>3, <2>1
  <1>5. CASE offset = SizeOf(part) /\ Start(r, "patch", "open", f, offset, Absent)
    <2>1. /\ Moves(r) /\ req'[r].op = "patch" /\ req'[r].pc = "open"
          /\ req'[r].file = f /\ req'[r].n = offset
      BY <1>1, <1>2, <1>5, StartMoves
    <2> QED
      BY <1>3, <1>5, <2>1
  <1> QED
    BY <1>4, <1>5 DEF PatchStat

LEMMA PatchArriveEffect ==
    ASSUME StoreAssumption, TypeOK, NEW r \in Req, NEW f \in File, NEW offset \in Offsets,
           PatchArrive(r, f, offset)
    PROVE  /\ Moves(r) /\ req'[r].op = "patch"
           /\ \/ req'[r].pc = "replied" /\ req'[r].off = SizeOf(part)
              \/ /\ req'[r].pc = "open" /\ req'[r].file = f /\ req'[r].n = offset
                 /\ offset = SizeOf(part)
           /\ Kept /\ UNCHANGED <<inode, dest, part, side, faults>>
  <1>1. offset \in Nat
    BY DEF Offsets, StoreAssumption
  <1> QED
    BY <1>1, PatchStatEffect DEF PatchArrive

LEMMA PatchOpenEffect ==
    ASSUME StoreAssumption, TypeOK, NEW r \in Req, PatchOpen(r)
    PROVE  \E i \in Inode :
             /\ Moves(r) /\ req'[r].op = "patch" /\ req'[r].pc = "body"
             /\ req'[r].file = req[r].file /\ req'[r].fd = i /\ req'[r].n = req[r].n
             /\ part' = i /\ UNCHANGED <<dest, side, faults>>
             /\ part = Absent => i \in Free
             /\ part # Absent => i = part
             /\ inode' \in [Inode -> Content]
             /\ inode'[i] = IF part = Absent THEN <<>> ELSE inode[i]
             /\ \A j \in Inode : Live(j)' /\ j # i => inode'[j] = inode[j]
  <1>1. PICK i \in IF part = Absent THEN Free ELSE {part} :
            /\ part' = i
            /\ Advance(r, "body", req[r].n, i, Absent)
            /\ UNCHANGED <<dest, side, faults>>
            /\ Store([inode EXCEPT ![i] = IF part = Absent THEN <<>> ELSE @])
    BY DEF PatchOpen
  <1>2. i \in Inode /\ req[r].n \in Nat /\ req[r].op = "patch"
    BY <1>1 DEF TypeOK, Free, Request, PatchOpen, At
  <1>3. "body" \in PCs /\ i \in Inode \cup {Absent} /\ Absent \in Content \cup {Absent}
    BY <1>2, Literals
  <1>4. /\ Moves(r) /\ req'[r].op = req[r].op /\ req'[r].pc = "body"
        /\ req'[r].file = req[r].file /\ req'[r].fd = i /\ req'[r].n = req[r].n
    BY <1>1, <1>2, <1>3, AdvanceMoves
  <1> DEFINE c == IF part = Absent THEN <<>> ELSE inode[i]
  <1>5. c \in Content
    BY <1>2 DEF TypeOK, Content
  <1>6. Store([inode EXCEPT ![i] = c])
    BY <1>1, <1>2 DEF TypeOK
  <1>7. Live(i)'
    BY <1>1 DEF Live
  <1>8. /\ inode' \in [Inode -> Content] /\ inode'[i] = c
        /\ \A j \in Inode : Live(j)' /\ j # i => inode'[j] = inode[j]
    <2> HIDE DEF c
    <2> QED
      BY <1>2, <1>5, <1>6, <1>7, StoreAt
  <1> QED
    BY <1>1, <1>2, <1>4, <1>8

LEMMA PatchAppendEffect ==
    ASSUME StoreAssumption, Sound, NEW r \in Req, PatchAppend(r)
    PROVE  \E i \in Inode, k \in Nat \ {0} :
             /\ Holds(r) /\ i = req[r].fd /\ k = req[r].n + 1 /\ k <= Length[req[r].file]
             /\ Moves(r) /\ req'[r].op = "patch" /\ req'[r].pc = "body"
             /\ req'[r].file = req[r].file /\ req'[r].fd = i /\ req'[r].n = k
             /\ UNCHANGED <<dest, part, side, faults>>
             /\ inode' \in [Inode -> Content]
             /\ inode'[i] = WriteAt(inode[i], Len(inode[i]) + 1, <<req[r].file, k>>)
             /\ \A j \in Inode : Live(j)' /\ j # i => inode'[j] = inode[j]
  <1>1. /\ TypeOK /\ req[r] \in Request /\ At(r, "patch", "body") /\ Holds(r)
        /\ Writing(r) /\ FieldsInv(r)
    BY DEF Sound, TypeOK, PatchAppend, At, Holds, Writing, Running, Writers
  <1>2. PICK i \in Inode : i = req[r].fd
    BY <1>1 DEF FieldsInv
  <1>3. PICK k \in Nat \ {0} : k = req[r].n + 1
    BY <1>1 DEF Request
  <1>4. req[r].file \in File /\ inode[i] \in Content /\ Len(inode[i]) + 1 \in Nat \ {0}
    BY <1>1 DEF FieldsInv, TypeOK, Content
  <1>5. /\ Advance(r, "body", k, i, Absent) /\ UNCHANGED <<dest, part, side, faults>>
        /\ Store([inode EXCEPT ![i] = WriteAt(@, Len(@) + 1, <<req[r].file, k>>)])
        /\ k <= Length[req[r].file]
    BY <1>2, <1>3 DEF PatchAppend
  <1>6. /\ "body" \in PCs /\ i \in Inode \cup {Absent} /\ Absent \in Content \cup {Absent}
        /\ k \in Nat
    BY Literals
  <1>7. /\ Moves(r) /\ req'[r].op = req[r].op /\ req'[r].pc = "body"
        /\ req'[r].file = req[r].file /\ req'[r].fd = i /\ req'[r].n = k
    BY <1>1, <1>5, <1>6, AdvanceMoves
  <1> DEFINE c == WriteAt(inode[i], Len(inode[i]) + 1, <<req[r].file, k>>)
  <1>8. c \in Content
    <2>1. <<req[r].file, k>> \in Block
      BY <1>4 DEF Block
    <2> QED
      BY <1>4, <2>1, WriteAtType
  <1>9. Store([inode EXCEPT ![i] = c])
    BY <1>1, <1>5 DEF TypeOK
  <1>10. Live(i)'
    BY <1>7 DEF Live
  <1>11. /\ inode' \in [Inode -> Content] /\ inode'[i] = c
         /\ \A j \in Inode : Live(j)' /\ j # i => inode'[j] = inode[j]
    <2> HIDE DEF c
    <2> QED
      BY <1>1, <1>8, <1>9, <1>10, StoreAt
  <1> QED
    BY <1>1, <1>2, <1>3, <1>5, <1>7, <1>11 DEF At

LEMMA PatchPauseEffect ==
    ASSUME StoreAssumption, TypeOK, NEW r \in Req, PatchEnd(r) \/ PatchDrop(r)
    PROVE  /\ At(r, "patch", "body") /\ Moves(r) /\ req'[r].op = "patch"
           /\ \/ req'[r].pc = "replied" /\ req'[r].off = req[r].n
              \/ /\ req'[r].pc = "hash" /\ req'[r].file = req[r].file
                 /\ ~(req[r].n < Length[req[r].file])
           /\ Kept /\ UNCHANGED <<dest, part, side, faults>>
  <1>1. At(r, "patch", "body") /\ req[r] \in Request /\ UNCHANGED <<dest, part, side, faults>>
    BY DEF TypeOK, PatchEnd, PatchDrop
  <1>2. Kept
    BY StoreKeeps DEF PatchEnd, PatchDrop
  <1>3. PICK n \in Nat : n = req[r].n
    BY <1>1 DEF Request
  <1>4. /\ "patch" \in Ops /\ "hash" \in PCs /\ 204 \in Nat /\ 500 \in Nat
        /\ "partial" \in Says /\ "none" \in Says
        /\ Absent \in Inode \cup {Absent} /\ Absent \in Content \cup {Absent}
    BY Literals
  <1>5. ASSUME NEW status \in Nat, NEW says \in Says, Answer(r, "patch", status, n, says, Absent)
        PROVE  Moves(r) /\ req'[r].op = "patch" /\ req'[r].pc = "replied" /\ req'[r].off = n
    BY <1>4, <1>5, AnswerMoves
  <1>6. ASSUME Advance(r, "hash", n, Absent, Absent)
        PROVE  Moves(r) /\ req'[r].op = req[r].op /\ req'[r].pc = "hash"
               /\ req'[r].file = req[r].file
    BY <1>4, <1>6, AdvanceMoves
  <1> QED
    BY <1>1, <1>2, <1>3, <1>4, <1>5, <1>6 DEF PatchEnd, PatchDrop, At

\* A failed write: the block may be in the file, the answer does not count it.
LEMMA PatchFailEffect ==
    ASSUME StoreAssumption, Sound, NEW r \in Req, PatchWriteFails(r)
    PROVE  \E i \in Inode, k \in Nat \ {0} :
             /\ At(r, "patch", "body") /\ Holds(r) /\ i = req[r].fd /\ k = req[r].n + 1
             /\ Moves(r) /\ req'[r].op = "patch" /\ req'[r].pc = "replied"
             /\ req'[r].off = req[r].n
             /\ UNCHANGED <<dest, part, side>> /\ faults' \in 1..MaxFaults /\ faults' # faults
             /\ inode' \in [Inode -> Content]
             /\ Live(i)' =>
                  \/ inode'[i] = inode[i]
                  \/ /\ k <= Length[req[r].file]
                     /\ inode'[i] = WriteAt(inode[i], Len(inode[i]) + 1, <<req[r].file, k>>)
             /\ \A j \in Inode : Live(j)' /\ j # i => inode'[j] = inode[j]
  <1>1. /\ TypeOK /\ req[r] \in Request /\ At(r, "patch", "body") /\ Holds(r)
        /\ Writing(r) /\ FieldsInv(r)
    BY DEF Sound, TypeOK, PatchWriteFails, At, Holds, Writing, Running, Writers
  <1>2. PICK i \in Inode : i = req[r].fd
    BY <1>1 DEF FieldsInv
  <1>3. PICK n \in Nat : n = req[r].n
    BY <1>1 DEF Request
  <1>4. PICK k \in Nat \ {0} : k = n + 1
    OBVIOUS
  <1>5. req[r].file \in File /\ inode[i] \in Content /\ Len(inode[i]) + 1 \in Nat \ {0}
    BY <1>1 DEF FieldsInv, TypeOK, Content
  <1>6. /\ "patch" \in Ops /\ 500 \in Nat /\ "none" \in Says
        /\ Absent \in Content \cup {Absent}
    BY Literals
  <1>7. /\ Answer(r, "patch", 500, n, "none", Absent) /\ UNCHANGED <<dest, part, side>>
        /\ faults < MaxFaults /\ faults' = faults + 1
    BY <1>3 DEF PatchWriteFails
  <1>8. /\ Moves(r) /\ req'[r].op = "patch" /\ req'[r].pc = "replied"
        /\ req'[r].off = n
    BY <1>1, <1>6, <1>7, AnswerMoves
  <1>9. faults' \in 1..MaxFaults /\ faults' # faults
    BY <1>1, <1>7 DEF TypeOK, StoreAssumption
  <1>10. CASE Store(inode)
    <2>1. Kept
      BY <1>1, <1>10, StoreKeeps
    <2> QED
      BY <1>1, <1>2, <1>3, <1>4, <1>7, <1>8, <1>9, <2>1 DEF Kept
  <1>11. CASE ~Store(inode)
    <2> DEFINE c == WriteAt(inode[i], Len(inode[i]) + 1, <<req[r].file, k>>)
    <2>1. c \in Content
      <3>1. <<req[r].file, k>> \in Block
        BY <1>5 DEF Block
      <3> QED
        BY <1>5, <3>1, WriteAtType
    <2>2. /\ k <= Length[req[r].file]
          /\ Store([inode EXCEPT ![i] = WriteAt(@, Len(@) + 1, <<req[r].file, k>>)])
      BY <1>2, <1>3, <1>4, <1>11 DEF PatchWriteFails
    <2>3. Store([inode EXCEPT ![i] = c])
      BY <1>1, <2>2 DEF TypeOK
    <2>4. /\ inode' \in [Inode -> Content]
          /\ Live(i)' => inode'[i] = c
          /\ \A j \in Inode : Live(j)' /\ j # i => inode'[j] = inode[j]
      <3> HIDE DEF c
      <3> QED
        BY <1>1, <2>1, <2>3, StoreMaybe
    <2> QED
      BY <1>1, <1>2, <1>3, <1>4, <1>7, <1>8, <1>9, <2>2, <2>4
  <1> QED
    BY <1>10, <1>11

LEMMA PatchHashEffect ==
    ASSUME StoreAssumption, TypeOK, NEW r \in Req, PatchHash(r)
    PROVE  /\ At(r, "patch", "hash") /\ Moves(r) /\ req'[r].op = "patch"
           /\ \/ req'[r].pc = "replied"
              \/ /\ req'[r].pc = "rename" /\ req'[r].file = req[r].file
                 /\ part # Absent /\ req'[r].sum = inode[part]
           /\ Kept /\ UNCHANGED <<inode, dest, part, side, faults>>
  <1>1. /\ At(r, "patch", "hash") /\ req[r] \in Request
        /\ UNCHANGED <<inode, dest, part, side, faults>>
    BY DEF TypeOK, PatchHash
  <1>2. Kept
    BY <1>1, UnchangedKeeps
  <1>3. PICK n \in Nat : n = req[r].n
    BY <1>1 DEF Request
  <1>4. /\ "patch" \in Ops /\ "rename" \in PCs /\ 500 \in Nat /\ "none" \in Says
        /\ Absent \in Inode \cup {Absent} /\ Absent \in Content \cup {Absent}
    BY Literals
  <1>5. CASE Answer(r, "patch", 500, n, "none", Absent)
    <2>1. Moves(r) /\ req'[r].op = "patch" /\ req'[r].pc = "replied"
      BY <1>4, <1>5, AnswerMoves
    <2> QED
      BY <1>1, <1>2, <2>1
  <1>6. CASE part # Absent /\ Advance(r, "rename", n, Absent, inode[part])
    <2>1. inode[part] \in Content \cup {Absent}
      BY <1>6 DEF TypeOK
    <2>2. /\ Moves(r) /\ req'[r].op = req[r].op /\ req'[r].pc = "rename"
          /\ req'[r].file = req[r].file /\ req'[r].sum = inode[part]
      BY <1>4, <1>6, <2>1, AdvanceMoves
    <2> QED
      BY <1>1, <1>2, <1>6, <2>2 DEF At
  <1> QED
    BY <1>3, <1>5, <1>6 DEF PatchHash

\* The rename, which both uploads share.
LEMMA PublishEffect ==
    ASSUME StoreAssumption, TypeOK, NEW r \in Req, Publish(r)
    PROVE  /\ Moves(r) /\ req'[r].op = req[r].op /\ req'[r].pc = "sidecar"
           /\ req'[r].file = req[r].file /\ req'[r].sum = req[r].sum
           /\ part \in Inode /\ dest' = part /\ part' = Absent
           /\ UNCHANGED <<side, faults>> /\ Kept /\ inode'[part] = inode[part]
  <1>1. /\ Goto(r, "sidecar") /\ Store(inode) /\ part \in Inode
        /\ dest' = part /\ part' = Absent /\ UNCHANGED <<side, faults>>
    BY DEF Publish, TypeOK
  <1>2. "sidecar" \in PCs
    BY Literals
  <1>3. /\ Moves(r) /\ req'[r].op = req[r].op /\ req'[r].pc = "sidecar"
        /\ req'[r].file = req[r].file /\ req'[r].sum = req[r].sum
    BY <1>1, <1>2, GotoMoves
  <1>4. Kept
    BY <1>1, StoreKeeps
  <1> QED
    BY <1>1, <1>3, <1>4 DEF Kept, Live

\* A rename that finds no temp.
LEMMA RenameFailEffect ==
    ASSUME StoreAssumption, TypeOK, NEW r \in Req, PatchRename(r) \/ PutRename(r), ~Publish(r)
    PROVE  /\ req[r].pc = "rename" /\ Moves(r) /\ req'[r].op = req[r].op
           /\ \/ req'[r].pc = "replied"
              \/ req'[r].op = "put" /\ req'[r].pc = "cleanup" /\ req'[r].file = req[r].file
           /\ Kept /\ UNCHANGED <<inode, dest, part, side, faults>>
  <1>1. req[r].pc = "rename" /\ req[r] \in Request /\ UNCHANGED <<inode, dest, part, side, faults>>
    BY DEF TypeOK, PatchRename, PutRename, At
  <1>2. Kept
    BY <1>1, UnchangedKeeps
  <1>3. PICK n \in Nat : n = req[r].n
    BY <1>1 DEF Request
  <1>4. /\ "patch" \in Ops /\ "cleanup" \in PCs /\ 500 \in Nat /\ "none" \in Says
        /\ Absent \in Content \cup {Absent}
    BY Literals
  <1>5. CASE PatchRename(r)
    <2>1. req[r].op = "patch" /\ Answer(r, "patch", 500, n, "none", Absent)
      BY <1>3, <1>5 DEF PatchRename, At
    <2>2. Moves(r) /\ req'[r].op = "patch" /\ req'[r].pc = "replied"
      BY <1>4, <2>1, AnswerMoves
    <2> QED
      BY <1>1, <1>2, <2>1, <2>2
  <1>6. CASE PutRename(r)
    <2>1. req[r].op = "put" /\ Goto(r, "cleanup")
      BY <1>6 DEF PutRename, At
    <2>2. /\ Moves(r) /\ req'[r].op = req[r].op /\ req'[r].pc = "cleanup"
          /\ req'[r].file = req[r].file
      BY <1>4, <2>1, GotoMoves
    <2> QED
      BY <1>1, <1>2, <2>1, <2>2
  <1> QED
    BY <1>5, <1>6

\* What a PUT does to its slot.
LEMMA PutCreateEffect ==
    ASSUME StoreAssumption, TypeOK, NEW r \in Req, NEW f \in File, PutCreate(r, f)
    PROVE  \E i \in Inode :
             /\ Moves(r) /\ req'[r].op = "put" /\ req'[r].pc = "stream"
             /\ req'[r].file = f /\ req'[r].n = 0 /\ req'[r].fd = i
             /\ part' = i /\ UNCHANGED <<dest, side, faults>>
             /\ part = Absent => i \in Free
             /\ part # Absent => i = part
             /\ inode' \in [Inode -> Content] /\ inode'[i] = <<>>
             /\ \A j \in Inode : Live(j)' /\ j # i => inode'[j] = inode[j]
  <1>1. PICK i \in IF part = Absent THEN Free ELSE {part} :
            /\ part' = i
            /\ Start(r, "put", "stream", f, 0, i)
            /\ UNCHANGED <<dest, side, faults>>
            /\ Store([inode EXCEPT ![i] = <<>>])
    BY DEF PutCreate
  <1>2. i \in Inode /\ <<>> \in Content
    BY <1>1 DEF TypeOK, Free, Content
  <1>3. /\ "put" \in Ops /\ "stream" \in PCs /\ f \in File \cup {Absent} /\ 0 \in Nat
        /\ i \in Inode \cup {Absent}
    BY <1>2, Literals
  <1>4. /\ Moves(r) /\ req'[r].op = "put" /\ req'[r].pc = "stream"
        /\ req'[r].file = f /\ req'[r].n = 0 /\ req'[r].fd = i
    BY <1>1, <1>3, StartMoves
  <1>5. Live(i)'
    BY <1>1 DEF Live
  <1>6. /\ inode' \in [Inode -> Content] /\ inode'[i] = <<>>
        /\ \A j \in Inode : Live(j)' /\ j # i => inode'[j] = inode[j]
    BY <1>1, <1>2, <1>5, StoreAt
  <1> QED
    BY <1>1, <1>2, <1>4, <1>6

LEMMA PutWriteEffect ==
    ASSUME StoreAssumption, Sound, NEW r \in Req, PutWrite(r)
    PROVE  \E i \in Inode, k \in Nat \ {0} :
             /\ At(r, "put", "stream") /\ i = req[r].fd /\ k = req[r].n + 1
             /\ k <= Length[req[r].file]
             /\ Moves(r) /\ req'[r].op = "put" /\ req'[r].pc = "stream"
             /\ req'[r].file = req[r].file /\ req'[r].fd = i /\ req'[r].n = k
             /\ UNCHANGED <<dest, part, side, faults>>
             /\ inode' \in [Inode -> Content]
             /\ inode'[i] = WriteAt(inode[i], k, <<req[r].file, k>>)
             /\ \A j \in Inode : Live(j)' /\ j # i => inode'[j] = inode[j]
  <1>1. /\ TypeOK /\ req[r] \in Request /\ At(r, "put", "stream") /\ Holds(r)
        /\ Writing(r) /\ FieldsInv(r)
    BY DEF Sound, TypeOK, PutWrite, At, Holds, Writing, Running, Writers
  <1>2. PICK i \in Inode : i = req[r].fd
    BY <1>1 DEF FieldsInv
  <1>3. PICK k \in Nat \ {0} : k = req[r].n + 1
    BY <1>1 DEF Request
  <1>4. req[r].file \in File /\ inode[i] \in Content
    BY <1>1 DEF FieldsInv, TypeOK
  <1>5. /\ Advance(r, "stream", k, i, Absent) /\ UNCHANGED <<dest, part, side, faults>>
        /\ Store([inode EXCEPT ![i] = WriteAt(@, k, <<req[r].file, k>>)])
        /\ k <= Length[req[r].file]
    BY <1>2, <1>3 DEF PutWrite
  <1>6. /\ "stream" \in PCs /\ i \in Inode \cup {Absent} /\ Absent \in Content \cup {Absent}
        /\ k \in Nat
    BY Literals
  <1>7. /\ Moves(r) /\ req'[r].op = req[r].op /\ req'[r].pc = "stream"
        /\ req'[r].file = req[r].file /\ req'[r].fd = i /\ req'[r].n = k
    BY <1>1, <1>5, <1>6, AdvanceMoves
  <1> DEFINE c == WriteAt(inode[i], k, <<req[r].file, k>>)
  <1>8. c \in Content
    <2>1. <<req[r].file, k>> \in Block
      BY <1>4 DEF Block
    <2> QED
      BY <1>4, <2>1, WriteAtType
  <1>9. Store([inode EXCEPT ![i] = c])
    BY <1>1, <1>5 DEF TypeOK
  <1>10. Live(i)'
    BY <1>7 DEF Live
  <1>11. /\ inode' \in [Inode -> Content] /\ inode'[i] = c
         /\ \A j \in Inode : Live(j)' /\ j # i => inode'[j] = inode[j]
    <2> HIDE DEF c
    <2> QED
      BY <1>1, <1>8, <1>9, <1>10, StoreAt
  <1> QED
    BY <1>1, <1>2, <1>3, <1>5, <1>7, <1>11 DEF At

LEMMA PutEndEffect ==
    ASSUME StoreAssumption, Sound, NEW r \in Req, PutEnd(r) \/ PutDrop(r)
    PROVE  /\ At(r, "put", "stream") /\ Moves(r) /\ req'[r].op = "put"
           /\ req'[r].file = req[r].file
           /\ \/ req'[r].pc = "cleanup"
              \/ /\ req'[r].pc = "rename" /\ req'[r].sum = Body(req[r].file)
                 /\ req[r].n = Length[req[r].file]
           /\ Kept /\ UNCHANGED <<dest, part, side, faults>>
  <1>1. /\ TypeOK /\ At(r, "put", "stream") /\ req[r] \in Request /\ req[r].file \in File
        /\ UNCHANGED <<dest, part, side, faults>>
    BY DEF Sound, TypeOK, PutEnd, PutDrop, FieldsInv, Writing, Running, Writers, At
  <1>2. Kept
    BY <1>1, StoreKeeps DEF PutEnd, PutDrop
  <1>3. PICK n \in Nat : n = req[r].n
    BY <1>1 DEF Request
  <1>4. /\ "rename" \in PCs /\ "cleanup" \in PCs /\ Absent \in Inode \cup {Absent}
        /\ Absent \in Content \cup {Absent} /\ Body(req[r].file) \in Content \cup {Absent}
    BY <1>1, BodyType, Literals
  <1>5. CASE PutEnd(r)
    <2>1. n = Length[req[r].file] /\ Advance(r, "rename", n, Absent, Body(req[r].file))
      BY <1>3, <1>5 DEF PutEnd
    <2>2. /\ Moves(r) /\ req'[r].op = req[r].op /\ req'[r].pc = "rename"
          /\ req'[r].file = req[r].file /\ req'[r].sum = Body(req[r].file)
      BY <1>1, <1>4, <2>1, AdvanceMoves
    <2> QED
      BY <1>1, <1>2, <1>3, <2>1, <2>2 DEF At
  <1>6. CASE PutDrop(r)
    <2>1. Advance(r, "cleanup", n, Absent, Absent)
      BY <1>3, <1>6 DEF PutDrop
    <2>2. /\ Moves(r) /\ req'[r].op = req[r].op /\ req'[r].pc = "cleanup"
          /\ req'[r].file = req[r].file
      BY <1>1, <1>4, <2>1, AdvanceMoves
    <2> QED
      BY <1>1, <1>2, <2>2 DEF At
  <1> QED
    BY <1>5, <1>6

LEMMA PutCleanupEffect ==
    ASSUME StoreAssumption, TypeOK, NEW r \in Req, PutCleanup(r)
    PROVE  /\ At(r, "put", "cleanup") /\ Moves(r) /\ req'[r].op = "put"
           /\ req'[r].pc = "replied" /\ part' = Absent
           /\ Kept /\ UNCHANGED <<dest, side, faults>>
  <1>1. "put" \in Ops /\ 500 \in Nat
    BY Literals
  <1>2. Moves(r) /\ req'[r].op = "put" /\ req'[r].pc = "replied"
    BY <1>1, ReplyMoves DEF PutCleanup
  <1> QED
    BY <1>2, StoreKeeps DEF PutCleanup

\* What the sidecar write does to the slot of its upload.
LEMMA SidecarEffect ==
    ASSUME StoreAssumption, Sound, NEW r \in Req, Sidecar(r)
    PROVE  /\ InWindow(r) /\ Moves(r) /\ req'[r].op = req[r].op
           /\ Kept /\ UNCHANGED <<inode, dest, part>>
           /\ \/ /\ req'[r].pc = "sidewrite" /\ req'[r].sum = req[r].sum
                 /\ req'[r].file = req[r].file /\ side' = Blank /\ faults' = faults
              \/ /\ req'[r].pc = "replied" /\ side' \in {Absent, req[r].sum}
                 /\ faults' = faults
              \/ /\ req'[r].pc = "replied" /\ side' = side
                 /\ faults' = faults + 1 /\ faults < MaxFaults
  <1>1. /\ TypeOK /\ req[r] \in Request /\ InWindow(r) /\ FieldsInv(r)
        /\ UNCHANGED <<inode, dest, part>>
    BY DEF Sound, TypeOK, Sidecar, SideTruncate, SideWrite, SideFail, InWindow
  <1>2. Kept /\ req[r].op \in Writers
    BY <1>1, UnchangedKeeps DEF FieldsInv
  <1>3. /\ "patch" \in Ops /\ "put" \in Ops /\ 200 \in Nat /\ 201 \in Nat
        /\ "complete" \in Says /\ Absent \in Content \cup {Absent} /\ "sidewrite" \in PCs
    BY Literals
  <1>4. PICK n \in Nat : n = req[r].n
    BY <1>1 DEF Request
  <1>5. ASSUME Done(r) PROVE Moves(r) /\ req'[r].op = req[r].op /\ req'[r].pc = "replied"
    <2>1. CASE req[r].op = "patch"
      <3>1. Answer(r, "patch", 200, n, "complete", Absent)
        BY <1>4, <1>5, <2>1 DEF Done
      <3>2. Moves(r) /\ req'[r].op = "patch" /\ req'[r].pc = "replied"
        BY <1>1, <1>3, <3>1, AnswerMoves
      <3> QED
        BY <2>1, <3>2
    <2>2. CASE req[r].op = "put"
      <3>1. Reply(r, "put", 201)
        BY <1>5, <2>2 DEF Done
      <3>2. Moves(r) /\ req'[r].op = "put" /\ req'[r].pc = "replied"
        BY <1>1, <1>3, <3>1, ReplyMoves
      <3> QED
        BY <2>2, <3>2
    <2> QED
      BY <1>2, <2>1, <2>2 DEF Writers
  <1>6. CASE SideTruncate(r)
    <2>1. Goto(r, "sidewrite") /\ side' = Blank /\ faults' = faults
      BY <1>6 DEF SideTruncate
    <2>2. /\ Moves(r) /\ req'[r].op = req[r].op /\ req'[r].pc = "sidewrite"
          /\ req'[r].sum = req[r].sum /\ req'[r].file = req[r].file
      BY <1>1, <1>3, <2>1, GotoMoves
    <2> QED
      BY <1>1, <1>2, <2>1, <2>2
  <1>7. CASE SideWrite(r) \/ SideFail(r)
    BY <1>1, <1>2, <1>5, <1>7 DEF SideWrite, SideFail
  <1> QED
    BY <1>6, <1>7 DEF Sidecar

\* A DELETE drops one name, or the sidecar, at a time.
LEMMA DeleteEffect ==
    ASSUME StoreAssumption, TypeOK, NEW r \in Req, Delete(r)
    PROVE  /\ ~Writing(r) /\ ~InWindow(r) /\ Moves(r) /\ req'[r].op = "delete" /\ ~InWindow(r)'
           /\ DeleteArrive(r) \/ (Running(r) /\ req[r].op = "delete")
           /\ Kept /\ faults' = faults
           /\ dest' \in {dest, Absent} /\ part' \in {part, Absent} /\ side' \in {side, Absent}
           /\ DeleteArrive(r) => UNCHANGED <<inode, dest, part, side>>
  <1>1. /\ "delete" \in Ops /\ "unlink" \in PCs /\ "unside" \in PCs
        /\ "statpart" \in PCs /\ "unpart" \in PCs /\ 0 \in Nat /\ 204 \in Nat /\ 404 \in Nat
        /\ Absent \in File \cup {Absent} /\ Absent \in Inode \cup {Absent}
    BY Literals
  <1>2. /\ ~Writing(r) /\ ~InWindow(r) /\ faults' = faults
        /\ DeleteArrive(r) \/ (Running(r) /\ req[r].op = "delete")
        /\ dest' \in {dest, Absent} /\ part' \in {part, Absent} /\ side' \in {side, Absent}
        /\ DeleteArrive(r) => UNCHANGED <<inode, dest, part, side>>
    BY DEF Delete, DeleteArrive, DeleteStatPart, DeleteUnlink, DeleteSide, DeletePart,
           At, InWindow, Writing, Running, Writers
  <1>3. Kept
    <2>1. UNCHANGED inode \/ Store(inode)
      BY DEF Delete, DeleteArrive, DeleteStatPart, DeleteUnlink, DeleteSide, DeletePart
    <2> QED
      BY <2>1, UnchangedKeeps, StoreKeeps
  <1>4. Moves(r) /\ req'[r].op = "delete" /\ ~InWindow(r)'
    <2>1. ASSUME Reply(r, "delete", 404) \/ Reply(r, "delete", 204)
          PROVE  Moves(r) /\ req'[r].op = "delete" /\ req'[r].pc = "replied"
      BY <1>1, <2>1, ReplyMoves
    <2>2. ASSUME Goto(r, "unside") \/ Goto(r, "unpart")
          PROVE  Moves(r) /\ req'[r].op = req[r].op /\ req'[r].pc \in {"unside", "unpart"}
      BY <1>1, <2>2, GotoMoves
    <2>3. CASE DeleteArrive(r)
      <3> DEFINE pc == IF dest = Absent THEN "statpart" ELSE "unlink"
      <3>1. pc \in PCs /\ pc \notin {"sidecar", "sidewrite"}
        BY <1>1
      <3>2. Start(r, "delete", pc, Absent, 0, Absent)
        BY <2>3 DEF DeleteArrive
      <3> HIDE DEF pc
      <3>3. Moves(r) /\ req'[r].op = "delete" /\ req'[r].pc = pc
        BY <1>1, <3>1, <3>2, StartMoves
      <3> QED
        BY <3>1, <3>3 DEF InWindow
    <2>4. CASE ~DeleteArrive(r)
      <3>1. req[r].op = "delete"
        BY <2>4 DEF Delete, DeleteStatPart, DeleteUnlink, DeleteSide, DeletePart, At
      <3>2. \/ Reply(r, "delete", 404) \/ Reply(r, "delete", 204)
            \/ Goto(r, "unside") \/ Goto(r, "unpart")
        BY <2>4 DEF Delete, DeleteStatPart, DeleteUnlink, DeleteSide, DeletePart
      <3> QED
        BY <2>1, <2>2, <3>1, <3>2 DEF InWindow
    <2> QED
      BY <2>3, <2>4
  <1> QED
    BY <1>2, <1>3, <1>4

\* What the readers and a delivered answer do: nothing to the volume.
LEMMA ReadEffect ==
    ASSUME StoreAssumption, Sound, NEW r \in Req, Read(r) \/ Deliver(r)
    PROVE  /\ ~Writing(r) /\ ~InWindow(r) /\ Moves(r) /\ ~Writing(r)' /\ ~InWindow(r)'
           /\ FieldsInv(r)' /\ (Running(r)' => req'[r].op \notin Changing)
           /\ Kept /\ UNCHANGED <<dest, part, side, faults>>
  <1>1. TypeOK /\ req[r] \in Request
    BY DEF Sound, TypeOK
  <1>2. /\ ~Writing(r) /\ ~InWindow(r) /\ UNCHANGED <<dest, part, side, faults>>
    BY DEF At, InWindow, Writing, Running, Writers, Read, Deliver, HeadArrive, HeadPart,
           VerifyArrive, VerifyExpect, VerifyDigest, GetArrive, GetOpen, GetSend
  <1>3. Kept
    <2>1. UNCHANGED inode \/ Store(inode)
      BY DEF Read, Deliver, HeadArrive, HeadPart, VerifyArrive, VerifyExpect, VerifyDigest,
             GetArrive, GetOpen, GetSend
    <2> QED
      BY <1>1, <2>1, UnchangedKeeps, StoreKeeps
  <1>4. ASSUME Moves(r), ~InWindow(r)', Running(r)' => req'[r].op \notin Changing,
               At(r, "get", "send")' => req'[r].fd \in Inode /\ req'[r].sum \in Content
        PROVE  Moves(r) /\ ~Writing(r)' /\ ~InWindow(r)' /\ FieldsInv(r)'
               /\ (Running(r)' => req'[r].op \notin Changing)
    BY <1>4 DEF FieldsInv, Writing, Holds, At, Writers, Changing, Running
  <1>5. CASE HeadArrive(r) \/ HeadPart(r) \/ VerifyArrive(r) \/ VerifyExpect(r) \/ VerifyDigest(r)
    <2>1. ReaderMoves(r)
      BY <1>1, <1>5, HeadMoves, VerifyMoves
    <2>2. ~At(r, "get", "send")'
      <3>1. Others(r) /\ req'[r].pc # "send"
        BY <1>1, <1>5, PlainMoves DEF Plain
      <3> QED
        BY <3>1 DEF At
    <2> QED
      BY <1>2, <1>3, <1>4, <2>1, <2>2 DEF ReaderMoves
  <1>6. CASE Deliver(r)
    <2>1. Idle \in Request /\ Idle.pc = "idle"
      BY IdleType DEF Idle
    <2>2. Moves(r) /\ req'[r] = Idle
      BY <1>1, <1>6, <2>1, BecomeMoves DEF Deliver
    <2> QED
      BY <1>2, <1>3, <1>4, <2>1, <2>2 DEF InWindow, Running, At
  <1>7. /\ "get" \in Ops /\ "fetch" \in PCs /\ "send" \in PCs /\ 404 \in Nat /\ 500 \in Nat
        /\ 200 \in Nat /\ "none" \in Says /\ Absent \in File \cup {Absent}
        /\ Absent \in Inode \cup {Absent} /\ SizeOf(dest) \in Nat
        /\ <<>> \in Content \cup {Absent} /\ <<>> \in Content
    BY <1>1, Literals DEF TypeOK, Content, SizeOf
  <1>8. PICK n \in Nat : n = req[r].n
    BY <1>1 DEF Request
  <1>9. ASSUME Moves(r), req'[r].op = "get", req'[r].pc \in {"fetch", "replied"}
        PROVE  ~InWindow(r)' /\ ~At(r, "get", "send")' /\ (Running(r)' => req'[r].op \notin Changing)
    BY <1>9 DEF InWindow, At, Running, Changing
  <1>10. CASE GetArrive(r)
    <2>1. ASSUME Reply(r, "get", 404)
          PROVE  Moves(r) /\ req'[r].op = "get" /\ req'[r].pc = "replied"
      BY <1>1, <1>7, <2>1, ReplyMoves
    <2>2. ASSUME Start(r, "get", "fetch", Absent, SizeOf(dest), Absent)
          PROVE  Moves(r) /\ req'[r].op = "get" /\ req'[r].pc = "fetch"
      BY <1>1, <1>7, <2>2, StartMoves
    <2> QED
      BY <1>2, <1>3, <1>4, <1>9, <1>10, <2>1, <2>2 DEF GetArrive
  <1>11. CASE GetOpen(r) \/ GetSend(r)
    <2>1. req[r].op = "get"
      BY <1>11 DEF GetOpen, GetSend, At
    <2>2. ASSUME Reply(r, "get", 404) \/ Reply(r, "get", 500)
          PROVE  Moves(r) /\ req'[r].op = "get" /\ req'[r].pc = "replied"
      BY <1>1, <1>7, <2>2, ReplyMoves
    <2>3. ASSUME NEW sent \in Content, Answer(r, "get", 200, n, "none", sent)
          PROVE  Moves(r) /\ req'[r].op = "get" /\ req'[r].pc = "replied"
      BY <1>1, <1>7, <2>3, AnswerMoves
    <2>4. ASSUME NEW fd \in Inode, NEW sum \in Content, Advance(r, "send", n, fd, sum)
          PROVE  /\ Moves(r) /\ req'[r].op = "get" /\ ~InWindow(r)'
                 /\ req'[r].fd \in Inode /\ req'[r].sum \in Content
      <3>1. fd \in Inode \cup {Absent} /\ sum \in Content \cup {Absent}
        OBVIOUS
      <3>2. /\ Moves(r) /\ req'[r].op = req[r].op /\ req'[r].pc = "send"
            /\ req'[r].fd = fd /\ req'[r].sum = sum
        BY <1>1, <1>7, <2>4, <3>1, AdvanceMoves
      <3> QED
        BY <2>1, <3>2 DEF InWindow
    <2>5. CASE GetOpen(r)
      <3>1. Reply(r, "get", 404) \/ (dest \in Inode /\ Advance(r, "send", n, dest, <<>>))
        BY <1>1, <1>8, <2>5 DEF GetOpen, TypeOK
      <3> QED
        BY <1>2, <1>3, <1>4, <1>7, <1>9, <2>2, <2>4, <3>1 DEF Changing
    <2>6. CASE GetSend(r)
      <3>1. /\ req[r].fd \in Inode /\ req[r].sum \in Content /\ inode[req[r].fd] \in Content
        BY <1>1, <2>6 DEF Sound, FieldsInv, GetSend, TypeOK
      <3> DEFINE next == Append(req[r].sum, inode[req[r].fd][Len(req[r].sum) + 1])
      <3>2. ASSUME Len(req[r].sum) < Len(inode[req[r].fd]) PROVE next \in Content
        BY <3>1, <3>2 DEF Content
      <3>3. \/ next \in Content /\ Advance(r, "send", n, req[r].fd, next)
            \/ Answer(r, "get", 200, n, "none", req[r].sum)
            \/ Reply(r, "get", 500)
        BY <1>8, <2>6, <3>2 DEF GetSend
      <3> HIDE DEF next
      <3> QED
        BY <1>2, <1>3, <1>4, <1>9, <2>2, <2>3, <2>4, <3>1, <3>3 DEF Changing
    <2> QED
      BY <1>11, <2>5, <2>6
  <1> QED
    BY <1>5, <1>6, <1>10, <1>11 DEF Read

LEMMA CrashEffect ==
    ASSUME StoreAssumption, TypeOK, Crash
    PROVE  /\ \A r \in Req : req'[r] = Idle
           /\ Kept /\ UNCHANGED <<dest, part, side>>
           /\ faults' \in 0..MaxFaults /\ faults' # 0 /\ TypeOK'
  <1>1. Kept /\ UNCHANGED <<dest, part, side>> /\ req' = [r \in Req |-> Idle]
    BY StoreKeeps DEF Crash
  <1>2. faults' \in 0..MaxFaults /\ faults' # 0
    BY DEF Crash, TypeOK, StoreAssumption
  <1>3. TypeOK'
    BY <1>1, <1>2, IdleType DEF TypeOK, Kept
  <1> QED
    BY <1>1, <1>2, <1>3

\* The rename keeps the volume well formed: the temp is not the published file.
LEMMA PublishSound ==
    ASSUME StoreAssumption, Sound, NEW r \in Req, Publish(r),
           At(r, "patch", "rename") \/ At(r, "put", "rename")
    PROVE  Sound'
  <1>1. TypeOK /\ FieldsInv(r) /\ Writing(r) /\ req[r].pc = "rename"
    BY DEF Sound, Writing, Running, At, Writers
  <1>2. /\ Moves(r) /\ req'[r].op = req[r].op /\ req'[r].pc = "sidecar"
        /\ req'[r].file = req[r].file /\ req'[r].sum = req[r].sum
        /\ part \in Inode /\ dest' = part /\ part' = Absent
        /\ UNCHANGED <<side, faults>> /\ Kept
    BY <1>1, PublishEffect
  <1>3. FieldsInv(r)'
    BY <1>1, <1>2 DEF FieldsInv, Writing, Running, Holds, At, InWindow
  <1>4. VolumeOK'
    BY <1>1, <1>2 DEF VolumeOK, TypeOK, Kept, StoreAssumption
  <1> QED
    BY <1>2, <1>3, <1>4, SoundStep

\* Each kind of operation keeps the volume well formed.
LEMMA PatchSound ==
    ASSUME StoreAssumption, Sound, NEW r \in Req, Patch(r)
    PROVE  Sound'
  <1>1. TypeOK /\ FieldsInv(r)
    BY DEF Sound
  <1>2. ASSUME Moves(r), req'[r].pc = "replied", Kept, UNCHANGED <<dest, part, side, faults>>
        PROVE  Sound'
    <2>1. FieldsInv(r)'
      BY <1>2 DEF FieldsInv, Writing, Running, Holds, At, InWindow
    <2> QED
      BY <1>1, <1>2, <2>1, VolumeDrops, SoundStep
  <1>3. ASSUME NEW f \in File, NEW o \in Offsets, PatchArrive(r, f, o) PROVE Sound'
    <2>1. /\ Moves(r) /\ req'[r].op = "patch" /\ Kept /\ UNCHANGED <<dest, part, side, faults>>
          /\ req'[r].pc = "replied" \/ (req'[r].pc = "open" /\ req'[r].file \in File)
      BY <1>1, <1>3, PatchArriveEffect
    <2>2. FieldsInv(r)'
      BY <2>1 DEF FieldsInv, Writing, Running, Holds, At, InWindow
    <2> QED
      BY <1>1, <2>1, <2>2, VolumeDrops, SoundStep
  <1>4. CASE PatchOpen(r)
    <2>1. PICK i \in Inode :
             /\ Moves(r) /\ req'[r].op = "patch" /\ req'[r].pc = "body"
             /\ req'[r].file = req[r].file /\ req'[r].fd = i
             /\ part' = i /\ UNCHANGED <<dest, side, faults>>
             /\ part = Absent => i \in Free
             /\ part # Absent => i = part
             /\ inode' \in [Inode -> Content]
      BY <1>1, <1>4, PatchOpenEffect
    <2>2. req[r].file \in File
      BY <1>1, <1>4 DEF FieldsInv, PatchOpen, At, Writing, Running, Writers
    <2>3. FieldsInv(r)'
      BY <2>1, <2>2 DEF FieldsInv, Writing, Running, Holds, At, InWindow
    <2>4. VolumeOK'
      BY <1>1, <2>1 DEF VolumeOK, TypeOK, Free, Live
    <2> QED
      BY <2>1, <2>3, <2>4, SoundStep
  <1>5. CASE PatchAppend(r)
    <2>1. PICK i \in Inode :
             /\ Holds(r) /\ Moves(r) /\ req'[r].op = "patch" /\ req'[r].pc = "body"
             /\ req'[r].file = req[r].file /\ req'[r].fd = i
             /\ UNCHANGED <<dest, part, side, faults>> /\ inode' \in [Inode -> Content]
      BY <1>5, PatchAppendEffect
    <2>2. req[r].file \in File
      BY <1>1, <2>1 DEF FieldsInv, Holds, At, Writing, Running, Writers
    <2>3. FieldsInv(r)'
      BY <2>1, <2>2 DEF FieldsInv, Writing, Running, Holds, At, InWindow
    <2>4. VolumeOK'
      BY <1>1, <2>1 DEF VolumeOK, TypeOK
    <2> QED
      BY <2>1, <2>3, <2>4, SoundStep
  <1>6. CASE PatchEnd(r) \/ PatchDrop(r)
    <2>1. /\ At(r, "patch", "body") /\ Moves(r) /\ req'[r].op = "patch"
          /\ \/ req'[r].pc = "replied"
             \/ req'[r].pc = "hash" /\ req'[r].file = req[r].file
          /\ Kept /\ UNCHANGED <<dest, part, side, faults>>
      BY <1>1, <1>6, PatchPauseEffect
    <2>2. req[r].file \in File
      BY <1>1, <2>1 DEF FieldsInv, At, Writing, Running, Writers
    <2>3. FieldsInv(r)'
      BY <2>1, <2>2 DEF FieldsInv, Writing, Running, Holds, At, InWindow
    <2> QED
      BY <1>1, <2>1, <2>3, VolumeDrops, SoundStep
  <1>7. CASE PatchHash(r)
    <2>1. /\ At(r, "patch", "hash") /\ Moves(r) /\ req'[r].op = "patch"
          /\ \/ req'[r].pc = "replied"
             \/ /\ req'[r].pc = "rename" /\ req'[r].file = req[r].file
                /\ part # Absent /\ req'[r].sum = inode[part]
          /\ Kept /\ UNCHANGED <<dest, part, side, faults>>
      BY <1>1, <1>7, PatchHashEffect
    <2>2. req[r].file \in File /\ (part # Absent => inode[part] \in Content)
      BY <1>1, <2>1 DEF FieldsInv, At, Writing, Running, Writers, TypeOK
    <2>3. FieldsInv(r)'
      BY <2>1, <2>2 DEF FieldsInv, Writing, Running, Holds, At, InWindow
    <2> QED
      BY <1>1, <2>1, <2>3, VolumeDrops, SoundStep
  <1>8. CASE PatchRename(r) /\ ~Publish(r)
    <2>1. req[r].op = "patch"
      BY <1>8 DEF PatchRename, At
    <2> QED
      BY <1>1, <1>2, <1>8, <2>1, RenameFailEffect
  <1>9. CASE PatchRename(r) /\ Publish(r)
    BY <1>9, PublishSound DEF PatchRename
  <1>10. CASE PatchWriteFails(r)
    <2>1. /\ Moves(r) /\ req'[r].pc = "replied" /\ UNCHANGED <<dest, part, side>>
          /\ faults' \in 1..MaxFaults /\ inode' \in [Inode -> Content]
      BY <1>10, PatchFailEffect
    <2>2. FieldsInv(r)'
      BY <2>1 DEF FieldsInv, Writing, Running, Holds, At, InWindow
    <2>3. VolumeOK'
      BY <1>1, <2>1 DEF VolumeOK, TypeOK, StoreAssumption
    <2> QED
      BY <2>1, <2>2, <2>3, SoundStep
  <1> QED
    BY <1>3, <1>4, <1>5, <1>6, <1>7, <1>8, <1>9, <1>10 DEF Patch

LEMMA PutSound ==
    ASSUME StoreAssumption, Sound, NEW r \in Req, Put(r)
    PROVE  Sound'
  <1>1. TypeOK /\ FieldsInv(r)
    BY DEF Sound
  <1>2. ASSUME NEW f \in File, PutCreate(r, f) PROVE Sound'
    <2>1. PICK i \in Inode :
             /\ Moves(r) /\ req'[r].op = "put" /\ req'[r].pc = "stream"
             /\ req'[r].file = f /\ req'[r].fd = i
             /\ part' = i /\ UNCHANGED <<dest, side, faults>>
             /\ part = Absent => i \in Free
             /\ part # Absent => i = part
             /\ inode' \in [Inode -> Content]
      BY <1>1, <1>2, PutCreateEffect
    <2>2. FieldsInv(r)'
      BY <2>1 DEF FieldsInv, Writing, Running, Holds, At, InWindow
    <2>3. VolumeOK'
      BY <1>1, <2>1 DEF VolumeOK, TypeOK, Free, Live
    <2> QED
      BY <2>1, <2>2, <2>3, SoundStep
  <1>3. CASE PutWrite(r)
    <2>1. PICK i \in Inode :
             /\ At(r, "put", "stream")
             /\ Moves(r) /\ req'[r].op = "put" /\ req'[r].pc = "stream"
             /\ req'[r].file = req[r].file /\ req'[r].fd = i
             /\ UNCHANGED <<dest, part, side, faults>> /\ inode' \in [Inode -> Content]
      BY <1>3, PutWriteEffect
    <2>2. req[r].file \in File
      BY <1>1, <2>1 DEF FieldsInv, At, Writing, Running, Writers
    <2>3. FieldsInv(r)'
      BY <2>1, <2>2 DEF FieldsInv, Writing, Running, Holds, At, InWindow
    <2>4. VolumeOK'
      BY <1>1, <2>1 DEF VolumeOK, TypeOK
    <2> QED
      BY <2>1, <2>3, <2>4, SoundStep
  <1>4. CASE PutEnd(r) \/ PutDrop(r)
    <2>1. /\ At(r, "put", "stream") /\ Moves(r) /\ req'[r].op = "put"
          /\ req'[r].file = req[r].file
          /\ \/ req'[r].pc = "cleanup"
             \/ req'[r].pc = "rename" /\ req'[r].sum = Body(req[r].file)
          /\ Kept /\ UNCHANGED <<dest, part, side, faults>>
      BY <1>4, PutEndEffect
    <2>2. req[r].file \in File
      BY <1>1, <2>1 DEF FieldsInv, At, Writing, Running, Writers
    <2>3. Body(req[r].file) \in Content
      BY <2>2, BodyType
    <2>4. FieldsInv(r)'
      BY <2>1, <2>2, <2>3 DEF FieldsInv, Writing, Running, Holds, At, InWindow
    <2> QED
      BY <1>1, <2>1, <2>4, VolumeDrops, SoundStep
  <1>5. CASE PutRename(r) /\ ~Publish(r)
    <2>1. /\ req[r].pc = "rename" /\ req[r].op = "put" /\ Moves(r) /\ req'[r].op = req[r].op
          /\ \/ req'[r].pc = "replied"
             \/ req'[r].pc = "cleanup" /\ req'[r].file = req[r].file
          /\ Kept /\ UNCHANGED <<dest, part, side, faults>>
      BY <1>1, <1>5, RenameFailEffect DEF PutRename, At
    <2>2. FieldsInv(r)'
      BY <1>1, <2>1 DEF FieldsInv, Writing, Running, Writers, Holds, At, InWindow
    <2> QED
      BY <1>1, <2>1, <2>2, VolumeDrops, SoundStep
  <1>6. CASE PutRename(r) /\ Publish(r)
    BY <1>6, PublishSound DEF PutRename
  <1>7. CASE PutCleanup(r)
    <2>1. /\ Moves(r) /\ req'[r].pc = "replied" /\ part' = Absent
          /\ Kept /\ UNCHANGED <<dest, side, faults>>
      BY <1>1, <1>7, PutCleanupEffect
    <2>2. FieldsInv(r)'
      BY <2>1 DEF FieldsInv, Writing, Running, Holds, At, InWindow
    <2> QED
      BY <1>1, <2>1, <2>2, VolumeDrops, SoundStep
  <1> QED
    BY <1>2, <1>3, <1>4, <1>5, <1>6, <1>7 DEF Put

LEMMA SidecarSound ==
    ASSUME StoreAssumption, Sound, NEW r \in Req, Sidecar(r)
    PROVE  Sound'
  <1>1. TypeOK /\ FieldsInv(r)
    BY DEF Sound
  <1>2. /\ InWindow(r) /\ Moves(r) /\ req'[r].op = req[r].op
        /\ Kept /\ UNCHANGED <<inode, dest, part>>
        /\ \/ /\ req'[r].pc = "sidewrite" /\ req'[r].sum = req[r].sum
              /\ req'[r].file = req[r].file /\ side' = Blank /\ faults' = faults
           \/ /\ req'[r].pc = "replied" /\ side' \in {Absent, req[r].sum}
              /\ faults' = faults
           \/ /\ req'[r].pc = "replied" /\ side' = side
              /\ faults' = faults + 1 /\ faults < MaxFaults
    BY SidecarEffect
  <1>3. FieldsInv(r)'
    BY <1>1, <1>2 DEF FieldsInv, Writing, Running, Writers, Holds, At, InWindow
  <1>4. side' \in Content \cup {Absent, Blank}
    BY <1>1, <1>2 DEF FieldsInv, TypeOK
  <1>5. faults' \in 0..MaxFaults
    BY <1>1, <1>2 DEF TypeOK, StoreAssumption
  <1>6. VolumeOK'
    BY <1>1, <1>2, <1>4, <1>5 DEF VolumeOK, TypeOK
  <1> QED
    BY <1>2, <1>3, <1>6, SoundStep

LEMMA DeleteSound ==
    ASSUME StoreAssumption, Sound, NEW r \in Req, Delete(r)
    PROVE  Sound'
  <1>1. /\ TypeOK /\ Moves(r) /\ req'[r].op = "delete" /\ ~InWindow(r)'
        /\ Kept /\ faults' = faults
        /\ dest' \in {dest, Absent} /\ part' \in {part, Absent} /\ side' \in {side, Absent}
    BY DeleteEffect DEF Sound
  <1>2. FieldsInv(r)'
    BY <1>1 DEF FieldsInv, Writing, Holds, At, Writers
  <1> QED
    BY <1>1, <1>2, VolumeDrops, SoundStep

LEMMA ReadSound ==
    ASSUME StoreAssumption, Sound, NEW r \in Req, Read(r) \/ Deliver(r)
    PROVE  Sound'
  <1>1. /\ TypeOK /\ Moves(r) /\ FieldsInv(r)'
        /\ Kept /\ UNCHANGED <<dest, part, side, faults>>
    BY ReadEffect DEF Sound
  <1> QED
    BY <1>1, VolumeDrops, SoundStep

LEMMA SoundInit ==
    ASSUME StoreAssumption, Init
    PROVE  Sound
  <1>1. TypeOK
    BY InitInv DEF IInv
  <1>2. Idle.pc = "idle" /\ \A r \in Req : req[r] = Idle
    BY DEF Init, Idle
  <1> QED
    BY <1>1, <1>2 DEF Sound, FieldsInv, Writing, Running, Holds, At, InWindow

LEMMA SoundNext ==
    ASSUME StoreAssumption, Sound, [Next]_vars
    PROVE  Sound'
  <1>1. CASE Crash
    <2>1. Idle.pc = "idle"
      BY DEF Idle
    <2>2. TypeOK' /\ \A r \in Req : req'[r] = Idle
      BY <1>1, CrashEffect DEF Sound
    <2> QED
      BY <2>1, <2>2 DEF Sound, FieldsInv, Writing, Running, Holds, At, InWindow
  <1>2. CASE UNCHANGED vars
    BY <1>2 DEF vars, Sound, TypeOK, FieldsInv, Writing, Running, Holds, At, InWindow
  <1> QED
    BY <1>1, <1>2, PatchSound, PutSound, SidecarSound, DeleteSound, ReadSound DEF Next

LEMMA SoundAlways ==
    ASSUME StoreAssumption
    PROVE  Spec => []Sound
  <1>1. Init => Sound
    BY SoundInit
  <1>2. Sound /\ [Next]_vars => Sound'
    BY SoundNext
  <1> QED
    BY <1>1, <1>2, PTL DEF Spec

\* Type correctness without any discipline: however many uploads and deletes meet
\* on the target, no handler leaves the volume, a name or a request malformed, and
\* no step gives the temp and the published file the same inode.
THEOREM TypeCorrectShared ==
    ASSUME StoreAssumption
    PROVE  Spec => []TypeOK
  <1>1. Sound => TypeOK
    BY DEF Sound
  <1> QED
    BY <1>1, SoundAlways, PTL

-----------------------------------------------------------------------------
(* No discipline: staged bytes outlive failures *)

\* A content is its own beginning.
LEMMA WholePrefix ==
    ASSUME NEW s \in Content
    PROVE  Len(s) <= Len(s) /\ s = SubSeq(s, 1, Len(s))
  BY DEF Content

\* A block at the end of a file leaves what was there where it was.
LEMMA AppendGrows ==
    ASSUME NEW s \in Content, NEW b \in Block, NEW t, t = WriteAt(s, Len(s) + 1, b)
    PROVE  Len(s) <= Len(t) /\ s = SubSeq(t, 1, Len(s))
  <1>1. Len(s) \in Nat /\ t = [i \in 1..(Len(s) + 1) |-> IF i = Len(s) + 1 THEN b ELSE s[i]]
    BY DEF Content, WriteAt
  <1>2. t \in Content
    BY WriteAtType DEF Content
  <1>3. Len(t) = Len(s) + 1
    BY <1>1, <1>2 DEF Content
  <1>4. \A i \in 1..Len(s) : t[i] = s[i]
    BY <1>1
  <1> QED
    BY <1>1, <1>2, <1>3, <1>4 DEF Content

\* The staged bytes are still there, perhaps with more after them.
Extended ==
    /\ part' = part /\ Len(inode[part]) <= Len(inode'[part])
    /\ inode[part] = SubSeq(inode'[part], 1, Len(inode[part]))

\* A step that writes nothing and leaves the temp its name.
LEMMA KeptExtends ==
    ASSUME TypeOK, part # Absent, part' = part, Kept
    PROVE  Extended
  <1>1. part \in Inode /\ inode[part] \in Content /\ inode'[part] = inode[part]
    BY DEF TypeOK, Kept, Live
  <1> QED
    BY <1>1, WholePrefix DEF Extended

\* A PATCH in service only adds to the temp, or publishes it whole.
LEMMA PatchStaged ==
    ASSUME StoreAssumption, Sound, NEW r \in Req, Patch(r), part # Absent
    PROVE  Extended \/ (dest' = part /\ part' = Absent /\ inode'[part] = inode[part])
  <1>1. TypeOK /\ part \in Inode /\ inode[part] \in Content
    BY DEF Sound, TypeOK
  <1>2. ASSUME NEW f \in File, NEW o \in Offsets, PatchArrive(r, f, o) PROVE Extended
    BY <1>1, <1>2, PatchArriveEffect, KeptExtends
  <1>3. CASE PatchOpen(r)
    <2>1. PICK i \in Inode : /\ i = part /\ part' = i
                             /\ inode'[i] = IF part = Absent THEN <<>> ELSE inode[i]
      BY <1>1, <1>3, PatchOpenEffect
    <2> QED
      BY <1>1, <2>1, WholePrefix DEF Extended
  <1>4. CASE PatchAppend(r)
    <2>1. PICK i \in Inode, k \in Nat \ {0} :
             /\ Holds(r) /\ part' = part
             /\ inode'[i] = WriteAt(inode[i], Len(inode[i]) + 1, <<req[r].file, k>>)
             /\ \A j \in Inode : Live(j)' /\ j # i => inode'[j] = inode[j]
      BY <1>4, PatchAppendEffect
    <2>2. <<req[r].file, k>> \in Block
      BY <2>1 DEF Sound, FieldsInv, Holds, Writing, Running, Writers, At, Block
    <2>3. CASE i = part
      BY <1>1, <2>1, <2>2, <2>3, AppendGrows DEF Extended
    <2>4. CASE i # part
      BY <1>1, <2>1, <2>4, WholePrefix DEF Extended, Live
    <2> QED
      BY <2>3, <2>4
  <1>5. CASE PatchEnd(r) \/ PatchDrop(r)
    BY <1>1, <1>5, PatchPauseEffect, KeptExtends
  <1>6. CASE PatchHash(r)
    BY <1>1, <1>6, PatchHashEffect, KeptExtends
  <1>7. CASE PatchRename(r) /\ ~Publish(r)
    BY <1>1, <1>7, RenameFailEffect, KeptExtends
  <1>8. CASE PatchRename(r) /\ Publish(r)
    BY <1>1, <1>8, PublishEffect
  <1>9. CASE PatchWriteFails(r)
    <2>1. PICK i \in Inode, k \in Nat \ {0} :
             /\ Holds(r) /\ part' = part
             /\ Live(i)' =>
                  \/ inode'[i] = inode[i]
                  \/ inode'[i] = WriteAt(inode[i], Len(inode[i]) + 1, <<req[r].file, k>>)
             /\ \A j \in Inode : Live(j)' /\ j # i => inode'[j] = inode[j]
      BY <1>9, PatchFailEffect
    <2>2. <<req[r].file, k>> \in Block
      BY <2>1 DEF Sound, FieldsInv, Holds, Writing, Running, Writers, At, Block
    <2>3. Live(part)'
      BY <2>1 DEF Live
    <2>4. CASE inode'[part] = inode[part]
      BY <1>1, <2>1, <2>4, WholePrefix DEF Extended
    <2>5. CASE i = part /\ inode'[part] # inode[part]
      <3>1. inode'[part] = WriteAt(inode[part], Len(inode[part]) + 1, <<req[r].file, k>>)
        BY <2>1, <2>3, <2>5
      <3> QED
        BY <1>1, <2>1, <2>2, <3>1, AppendGrows DEF Extended
    <2> QED
      BY <1>1, <2>1, <2>3, <2>4, <2>5
  <1> QED
    BY <1>2, <1>3, <1>4, <1>5, <1>6, <1>7, <1>8, <1>9 DEF Patch

\* Staged bytes outlive failures, whatever clients and handlers meet on the
\* target: dropped bodies, failed finalisations and restarts keep them, and two
\* PATCH handlers at once cannot take from each other what is staged.  Only a
\* DELETE or a PUT cuts or discards them.
THEOREM StagedBytesKept ==
    ASSUME StoreAssumption
    PROVE  Spec => StagedKept
  <1>1. ASSUME Sound, Next, part # Absent
        PROVE  \/ \E r \in Req : req[r].op \in {"delete", "put"} /\ req[r].pc # "replied"
               \/ \E r \in Req : req'[r].op = "put" /\ req[r].pc = "idle"
               \/ dest' = part /\ part' = Absent /\ inode'[part] = inode[part]
               \/ Extended
    <2>1. TypeOK
      BY <1>1 DEF Sound
    <2>2. ASSUME NEW r \in Req, Patch(r)
          PROVE  Extended \/ (dest' = part /\ part' = Absent /\ inode'[part] = inode[part])
      BY <1>1, <2>2, PatchStaged
    <2>3. ASSUME NEW r \in Req, Put(r)
          PROVE  \/ req[r].op = "put" /\ req[r].pc # "replied"
                 \/ req'[r].op = "put" /\ req[r].pc = "idle"
      <3>1. ASSUME NEW f \in File, PutCreate(r, f) PROVE req'[r].op = "put" /\ req[r].pc = "idle"
        <4>1. req'[r].op = "put"
          BY <2>1, <3>1, PutCreateEffect
        <4> QED
          BY <3>1, <4>1 DEF PutCreate
      <3>2. CASE ~\E f \in File : PutCreate(r, f)
        BY <2>3, <3>2 DEF Put, PutWrite, PutEnd, PutDrop, PutRename, PutCleanup, At
      <3> QED
        BY <3>1, <3>2
    <2>4. ASSUME NEW r \in Req, Sidecar(r) PROVE Extended
      BY <1>1, <2>1, <2>4, SidecarEffect, KeptExtends
    <2>5. ASSUME NEW r \in Req, Delete(r)
          PROVE  Extended \/ (req[r].op = "delete" /\ req[r].pc # "replied")
      BY <1>1, <2>1, <2>5, DeleteEffect, KeptExtends DEF Running
    <2>6. ASSUME NEW r \in Req, Read(r) \/ Deliver(r) PROVE Extended
      BY <1>1, <2>1, <2>6, ReadEffect, KeptExtends
    <2>7. CASE Crash
      BY <1>1, <2>1, <2>7, CrashEffect, KeptExtends
    <2> QED
      BY <1>1, <2>2, <2>3, <2>4, <2>5, <2>6, <2>7 DEF Next
  <1>2. Sound /\ [Next]_vars =>
          [part # Absent =>
             \/ \E r \in Req : req[r].op \in {"delete", "put"} /\ req[r].pc # "replied"
             \/ \E r \in Req : req'[r].op = "put" /\ req[r].pc = "idle"
             \/ dest' = part /\ part' = Absent /\ inode'[part] = inode[part]
             \/ /\ part' = part /\ Len(inode[part]) <= Len(inode'[part])
                /\ inode[part] = SubSeq(inode'[part], 1, Len(inode[part]))]_vars
    BY <1>1 DEF Extended
  <1> QED
    BY <1>2, SoundAlways, PTL DEF Spec, StagedKept

-----------------------------------------------------------------------------
(* One upload at a time, which a DELETE may disturb *)

\* Deletes run next to anything, uploads not next to each other; what a PATCH
\* resumes may have been staged for any version.
OneUploader == Overlaps \subseteq {{"delete"}, {"put", "delete"}, {"patch", "delete"}}

OneWriter == \A r, q \in Req : Writing(r) /\ Writing(q) => r = q

\* The inode an upload has open is not the published one, and the temp has no
\* other inode; what a PATCH renames is what it has hashed.
TempInv(r) ==
    /\ Holds(r) => req[r].fd # dest /\ (part # Absent => part = req[r].fd)
    /\ At(r, "patch", "rename") /\ part # Absent => inode[part] = req[r].sum

SharedInv ==
    /\ Sound
    /\ OneWriter
    /\ SidecarMatches
    /\ \A r \in Req : TempInv(r) /\ PutInv(r) /\ WindowInv(r)

\* An upload starts only when no other one is in service.
LEMMA StartAlone ==
    ASSUME OneUploader, NEW op \in Writers, MayStart(op), NEW q \in Req
    PROVE  ~Writing(q)
  <1> SUFFICES ASSUME Writing(q) PROVE FALSE
    OBVIOUS
  <1>1. {op, req[q].op} \in {{"delete"}, {"put", "delete"}, {"patch", "delete"}}
    BY DEF OneUploader, MayStart, Writing, Writers, Changing
  <1>2. "delete" \notin {op, req[q].op}
    BY DEF Writing, Writers
  <1> QED
    BY <1>1, <1>2

\* A handler between its rename and its sidecar is an upload in service.
LEMMA WindowWrites ==
    ASSUME Sound, NEW r \in Req, InWindow(r)
    PROVE  Writing(r)
  BY DEF Sound, FieldsInv, InWindow, Writing, Running

\* The sidecar stays right as long as nothing is published or recorded.
LEMMA SidecarStays ==
    ASSUME SidecarMatches, NEW r \in Req, Moves(r), ~InWindow(r),
           dest' \in {dest, Absent}, side' \in {side, Absent}, faults' = faults,
           dest' # Absent => inode'[dest] = inode[dest]
    PROVE  SidecarMatches'
  BY DEF SidecarMatches, Moves, InWindow

\* A step that only drops names, of a handler that is then no upload.
LEMMA SharedDrop ==
    ASSUME StoreAssumption, SharedInv, Sound', NEW r \in Req, Moves(r), ~InWindow(r), ~Writing(r)', Kept,
           dest' \in {dest, Absent}, part' \in {part, Absent}, side' \in {side, Absent},
           faults' = faults
    PROVE  SharedInv'
  <1>1. TypeOK /\ \A q \in Req \ {r} : req'[q] = req[q]
    BY DEF SharedInv, Sound, Moves
  <1>2. OneWriter'
    BY <1>1 DEF SharedInv, OneWriter, Writing, Running
  <1>3. /\ dest' # Absent => dest' = dest /\ inode'[dest] = inode[dest]
        /\ part' # Absent => part' = part /\ inode'[part] = inode[part]
    BY <1>1 DEF Kept, TypeOK, Live
  <1>4. SidecarMatches'
    BY <1>3, SidecarStays DEF SharedInv
  <1>5. ASSUME NEW q \in Req PROVE TempInv(q)' /\ PutInv(q)' /\ WindowInv(q)'
    <2>1. CASE q = r
      <3>1. ~InWindow(r)'
        BY WindowWrites DEF Sound, FieldsInv, InWindow, Writing, Running
      <3> QED
        BY <2>1, <3>1 DEF TempInv, PutInv, WindowInv, Holds, At, Writing, Running, Writers
    <2>2. CASE q # r
      <3>1. req'[q] = req[q] /\ TempInv(q) /\ PutInv(q) /\ WindowInv(q)
        BY <1>1, <2>2 DEF SharedInv
      <3>2. Holds(q) => req[q].fd \in Inode
        BY DEF SharedInv, Sound, FieldsInv
      <3>3. Holds(q) => inode'[req[q].fd] = inode[req[q].fd]
        BY <3>1, <3>2 DEF Kept, Live
      <3>4. TempInv(q)'
        BY <1>3, <3>1, <3>2 DEF TempInv, Holds, At, StoreAssumption
      <3>5. PutInv(q)'
        BY <1>3, <3>1, <3>3 DEF PutInv, Holds, At
      <3>6. WindowInv(q)'
        BY <1>3, <3>1 DEF WindowInv, InWindow
      <3> QED
        BY <3>4, <3>5, <3>6
    <2> QED
      BY <2>1, <2>2
  <1> QED
    BY <1>2, <1>4, <1>5 DEF SharedInv

\* A step of the only upload in service keeps the invariant if it keeps what
\* concerns itself and the sidecar.
LEMMA SharedWriter ==
    ASSUME SharedInv, Sound', NEW r \in Req, Moves(r), \A q \in Req \ {r} : ~Writing(q),
           SidecarMatches', TempInv(r)', PutInv(r)', WindowInv(r)'
    PROVE  SharedInv'
  <1>1. \A q \in Req \ {r} : req'[q] = req[q]
    BY DEF Moves
  <1>2. OneWriter'
    BY <1>1 DEF OneWriter, Writing, Running
  <1>3. ASSUME NEW q \in Req, q # r PROVE TempInv(q)' /\ PutInv(q)' /\ WindowInv(q)'
    <2>1. req'[q] = req[q] /\ ~Writing(q) /\ ~InWindow(q)
      BY <1>1, <1>3, WindowWrites DEF SharedInv
    <2> QED
      BY <2>1 DEF TempInv, PutInv, WindowInv, Holds, At, InWindow, Writing, Running, Writers
  <1> QED
    BY <1>2, <1>3 DEF SharedInv

\* An upload in service is the only one.
LEMMA OnlyWriter ==
    ASSUME SharedInv, NEW r \in Req, Writing(r)
    PROVE  \A q \in Req \ {r} : ~Writing(q)
  BY DEF SharedInv, OneWriter

\* The rename publishes what was hashed or streamed.
LEMMA PublishShared ==
    ASSUME StoreAssumption, SharedInv, NEW r \in Req, Publish(r),
           At(r, "patch", "rename") \/ At(r, "put", "rename")
    PROVE  SharedInv'
  <1>1. /\ Sound /\ TypeOK /\ Sound' /\ FieldsInv(r) /\ TempInv(r) /\ PutInv(r)
        /\ Writing(r) /\ req[r].pc = "rename"
    BY PublishSound DEF SharedInv, Sound, At, Writing, Running, Writers
  <1>2. /\ Moves(r) /\ req'[r].op = req[r].op /\ req'[r].pc = "sidecar"
        /\ req'[r].sum = req[r].sum /\ part \in Inode /\ dest' = part
        /\ inode'[part] = inode[part]
    BY <1>1, PublishEffect
  <1>3. part # Absent /\ inode[part] = req[r].sum
    BY <1>1, <1>2 DEF TempInv, PutInv, At, StoreAssumption
  <1>4. TempInv(r)' /\ PutInv(r)'
    BY <1>2 DEF TempInv, PutInv, Holds, At
  <1>5. WindowInv(r)'
    BY <1>1, <1>2, <1>3 DEF WindowInv, Writing, FieldsInv
  <1>6. SidecarMatches'
    BY <1>2 DEF SidecarMatches
  <1> QED
    BY <1>1, <1>2, <1>4, <1>5, <1>6, OnlyWriter, SharedWriter

\* PATCH under the weaker discipline.
LEMMA PatchShared ==
    ASSUME StoreAssumption, OneUploader, SharedInv, NEW r \in Req, Patch(r)
    PROVE  SharedInv'
  <1>1. Sound /\ TypeOK /\ Sound' /\ FieldsInv(r) /\ TempInv(r) /\ SidecarMatches
    BY PatchSound DEF SharedInv, Sound
  <1>2. ASSUME Moves(r), req'[r].pc = "replied", ~InWindow(r), Kept,
               UNCHANGED <<dest, part, side, faults>>
        PROVE  SharedInv'
    <2>1. ~Writing(r)'
      BY <1>2 DEF Writing, Running
    <2> QED
      BY <1>1, <1>2, <2>1, SharedDrop
  <1>3. ASSUME NEW f \in File, NEW o \in Offsets, PatchArrive(r, f, o) PROVE SharedInv'
    <2>1. /\ Moves(r) /\ req'[r].op = "patch" /\ Kept /\ UNCHANGED <<inode, dest, part, side, faults>>
          /\ req'[r].pc = "replied" \/ (req'[r].pc = "open" /\ o = SizeOf(part))
      BY <1>1, <1>3, PatchArriveEffect
    <2>2. /\ ~InWindow(r) /\ "patch" \in Writers
          /\ o = SizeOf(part) => MayStart("patch")
      BY <1>3 DEF PatchArrive, PatchStat, InWindow, Writers
    <2>3. CASE req'[r].pc = "open" /\ o = SizeOf(part)
      <3>1. TempInv(r)' /\ PutInv(r)' /\ WindowInv(r)'
        BY <2>1, <2>3 DEF TempInv, PutInv, WindowInv, Holds, At, InWindow
      <3>2. SidecarMatches'
        BY <1>1, <2>1, <2>2, SidecarStays
      <3> QED
        BY <1>1, <2>1, <2>2, <2>3, <3>1, <3>2, StartAlone, SharedWriter
    <2> QED
      BY <1>2, <2>1, <2>2, <2>3
  <1>4. CASE PatchOpen(r)
    <2>1. PICK i \in Inode :
             /\ Moves(r) /\ req'[r].op = "patch" /\ req'[r].pc = "body"
             /\ req'[r].fd = i /\ part' = i /\ UNCHANGED <<dest, side, faults>>
             /\ part = Absent => i \in Free
             /\ part # Absent => i = part
             /\ \A j \in Inode : Live(j)' /\ j # i => inode'[j] = inode[j]
      BY <1>1, <1>4, PatchOpenEffect
    <2>2. Writing(r) /\ ~InWindow(r)
      BY <1>4 DEF PatchOpen, At, Writing, Running, Writers, InWindow
    <2>3. i # dest
      BY <1>1, <2>1 DEF TypeOK, Free, Live
    <2>4. TempInv(r)' /\ PutInv(r)' /\ WindowInv(r)'
      BY <2>1, <2>3 DEF TempInv, PutInv, WindowInv, Holds, At, InWindow
    <2>5. dest # Absent => inode'[dest] = inode[dest]
      BY <1>1, <2>1, <2>3 DEF TypeOK, Live
    <2>6. SidecarMatches'
      BY <1>1, <2>1, <2>2, <2>5, SidecarStays
    <2> QED
      BY <1>1, <2>1, <2>2, <2>4, <2>6, OnlyWriter, SharedWriter
  <1>5. CASE PatchAppend(r)
    <2>1. PICK i \in Inode, k \in Nat \ {0} :
             /\ Holds(r) /\ i = req[r].fd
             /\ Moves(r) /\ req'[r].op = "patch" /\ req'[r].pc = "body" /\ req'[r].fd = i
             /\ UNCHANGED <<dest, part, side, faults>>
             /\ \A j \in Inode : Live(j)' /\ j # i => inode'[j] = inode[j]
      BY <1>1, <1>5, PatchAppendEffect
    <2>2. Writing(r) /\ ~InWindow(r)
      BY <1>5 DEF PatchAppend, At, Writing, Running, Writers, InWindow
    <2>3. i # dest /\ (part # Absent => part = i)
      BY <1>1, <2>1 DEF TempInv
    <2>4. TempInv(r)' /\ PutInv(r)' /\ WindowInv(r)'
      BY <2>1, <2>3 DEF TempInv, PutInv, WindowInv, Holds, At, InWindow
    <2>5. dest # Absent => inode'[dest] = inode[dest]
      BY <1>1, <2>1, <2>3 DEF TypeOK, Live
    <2>6. SidecarMatches'
      BY <1>1, <2>1, <2>2, <2>5, SidecarStays
    <2> QED
      BY <1>1, <2>1, <2>2, <2>4, <2>6, OnlyWriter, SharedWriter
  <1>6. CASE PatchEnd(r) \/ PatchDrop(r) \/ PatchHash(r)
    <2>1. /\ Moves(r) /\ req'[r].op = "patch" /\ Kept /\ UNCHANGED <<dest, part, side, faults>>
          /\ \/ req'[r].pc = "replied"
             \/ req'[r].pc = "hash"
             \/ /\ req'[r].pc = "rename" /\ req'[r].sum = inode[part]
                /\ part # Absent /\ inode' = inode
      BY <1>1, <1>6, PatchPauseEffect, PatchHashEffect
    <2>2. Writing(r) /\ ~InWindow(r)
      BY <1>6 DEF PatchEnd, PatchDrop, PatchHash, At, Writing, Running, Writers, InWindow
    <2>3. CASE req'[r].pc # "replied"
      <3>1. TempInv(r)' /\ PutInv(r)' /\ WindowInv(r)'
        BY <2>1, <2>3 DEF TempInv, PutInv, WindowInv, Holds, At, InWindow
      <3>2. dest # Absent => inode'[dest] = inode[dest]
        BY <1>1, <2>1 DEF TypeOK, Kept, Live
      <3>3. SidecarMatches'
        BY <1>1, <2>1, <2>2, <3>2, SidecarStays
      <3> QED
        BY <1>1, <2>1, <2>2, <3>1, <3>3, OnlyWriter, SharedWriter
    <2> QED
      BY <1>2, <2>1, <2>2, <2>3
  <1>7. CASE PatchRename(r) /\ ~Publish(r)
    <2>1. req[r].op = "patch"
      BY <1>7 DEF PatchRename, At
    <2> QED
      BY <1>1, <1>2, <1>7, <2>1, RenameFailEffect DEF InWindow
  <1>8. CASE PatchRename(r) /\ Publish(r)
    BY <1>8, PublishShared DEF PatchRename
  <1>9. CASE PatchWriteFails(r)
    <2>1. /\ At(r, "patch", "body") /\ Moves(r) /\ req'[r].pc = "replied"
          /\ faults' \in 1..MaxFaults
      BY <1>1, <1>9, PatchFailEffect
    <2>2. Writing(r) /\ faults' # 0
      BY <2>1 DEF At, Writing, Running, Writers, StoreAssumption
    <2>3. TempInv(r)' /\ PutInv(r)' /\ WindowInv(r)'
      BY <2>1 DEF TempInv, PutInv, WindowInv, Holds, At, InWindow
    <2>4. SidecarMatches'
      BY <2>2 DEF SidecarMatches
    <2> QED
      BY <1>1, <2>1, <2>2, <2>3, <2>4, OnlyWriter, SharedWriter
  <1> QED
    BY <1>3, <1>4, <1>5, <1>6, <1>7, <1>8, <1>9 DEF Patch

\* PUT under the weaker discipline.
LEMMA PutShared ==
    ASSUME StoreAssumption, OneUploader, SharedInv, NEW r \in Req, Put(r)
    PROVE  SharedInv'
  <1>1. Sound /\ TypeOK /\ Sound' /\ FieldsInv(r) /\ TempInv(r) /\ PutInv(r) /\ SidecarMatches
    BY PutSound DEF SharedInv, Sound
  <1>2. ASSUME NEW f \in File, PutCreate(r, f) PROVE SharedInv'
    <2>1. PICK i \in Inode :
             /\ Moves(r) /\ req'[r].op = "put" /\ req'[r].pc = "stream"
             /\ req'[r].file = f /\ req'[r].n = 0 /\ req'[r].fd = i
             /\ part' = i /\ UNCHANGED <<dest, side, faults>>
             /\ part = Absent => i \in Free
             /\ part # Absent => i = part
             /\ inode'[i] = <<>>
             /\ \A j \in Inode : Live(j)' /\ j # i => inode'[j] = inode[j]
      BY <1>1, <1>2, PutCreateEffect
    <2>2. ~InWindow(r) /\ "put" \in Writers /\ MayStart("put")
      BY <1>2 DEF PutCreate, InWindow, Writers
    <2>3. i # dest /\ i # Absent
      BY <1>1, <2>1 DEF TypeOK, Free, Live, StoreAssumption
    <2>4. inode'[i] = Piece(f, 0) /\ 0 \in 0..Length[f]
      BY <2>1, EmptyPiece DEF StoreAssumption
    <2>5. TempInv(r)' /\ PutInv(r)' /\ WindowInv(r)'
      BY <2>1, <2>3, <2>4 DEF TempInv, PutInv, WindowInv, Holds, At, InWindow
    <2>6. dest # Absent => inode'[dest] = inode[dest]
      BY <1>1, <2>1, <2>3 DEF TypeOK, Live
    <2>7. SidecarMatches'
      BY <1>1, <2>1, <2>2, <2>6, SidecarStays
    <2> QED
      BY <1>1, <2>1, <2>2, <2>5, <2>7, StartAlone, SharedWriter
  <1>3. CASE PutWrite(r)
    <2>1. PICK i \in Inode, k \in Nat \ {0} :
             /\ At(r, "put", "stream") /\ i = req[r].fd /\ k = req[r].n + 1
             /\ k <= Length[req[r].file]
             /\ Moves(r) /\ req'[r].op = "put" /\ req'[r].pc = "stream"
             /\ req'[r].file = req[r].file /\ req'[r].fd = i /\ req'[r].n = k
             /\ UNCHANGED <<dest, part, side, faults>>
             /\ inode'[i] = WriteAt(inode[i], k, <<req[r].file, k>>)
             /\ \A j \in Inode : Live(j)' /\ j # i => inode'[j] = inode[j]
      BY <1>1, <1>3, PutWriteEffect
    <2>2. PICK f \in File : f = req[r].file
      BY <1>1, <2>1 DEF PutInv
    <2>3. PICK n \in Nat : n = req[r].n
      BY <1>1 DEF TypeOK, Request
    <2>4. inode[i] = Piece(f, n)
      BY <1>1, <2>1, <2>2, <2>3 DEF PutInv
    <2>5. inode'[i] = Piece(f, k) /\ k \in 0..Length[f]
      <3>1. k = n + 1 /\ k <= Length[f]
        BY <2>1, <2>2, <2>3
      <3>2. inode'[i] = WriteAt(Piece(f, n), n + 1, <<f, n + 1>>)
        BY <2>1, <2>2, <2>4, <3>1
      <3> QED
        BY <3>1, <3>2, WriteAtPiece DEF StoreAssumption
    <2>6. Writing(r) /\ ~InWindow(r) /\ i # dest /\ i # Absent /\ (part # Absent => part = i)
      BY <1>1, <2>1 DEF At, Writing, Running, Writers, InWindow, PutInv
    <2>7. TempInv(r)' /\ PutInv(r)' /\ WindowInv(r)'
      BY <2>1, <2>2, <2>5, <2>6 DEF TempInv, PutInv, WindowInv, Holds, At, InWindow
    <2>8. dest # Absent => inode'[dest] = inode[dest]
      BY <1>1, <2>1, <2>6 DEF TypeOK, Live
    <2>9. SidecarMatches'
      BY <1>1, <2>1, <2>6, <2>8, SidecarStays
    <2> QED
      BY <1>1, <2>1, <2>6, <2>7, <2>9, OnlyWriter, SharedWriter
  <1>4. CASE PutEnd(r) \/ PutDrop(r)
    <2>1. /\ At(r, "put", "stream") /\ Moves(r) /\ req'[r].op = "put"
          /\ req'[r].file = req[r].file
          /\ \/ req'[r].pc = "cleanup"
             \/ /\ req'[r].pc = "rename" /\ req'[r].sum = Body(req[r].file)
                /\ req[r].n = Length[req[r].file]
          /\ Kept /\ UNCHANGED <<dest, part, side, faults>>
      BY <1>1, <1>4, PutEndEffect
    <2>2. /\ Writing(r) /\ ~InWindow(r) /\ req[r].file \in File
          /\ part # Absent => inode[part] = Piece(req[r].file, req[r].n)
      BY <1>1, <2>1 DEF At, Writing, Running, Writers, InWindow, PutInv
    <2>3. /\ dest # Absent => inode'[dest] = inode[dest]
          /\ part # Absent => inode'[part] = inode[part]
      BY <1>1, <2>1 DEF TypeOK, Kept, Live
    <2>4. TempInv(r)' /\ PutInv(r)' /\ WindowInv(r)'
      BY <2>1, <2>2, <2>3 DEF TempInv, PutInv, WindowInv, Holds, At, InWindow, Body
    <2>5. SidecarMatches'
      BY <1>1, <2>1, <2>2, <2>3, SidecarStays
    <2> QED
      BY <1>1, <2>1, <2>2, <2>4, <2>5, OnlyWriter, SharedWriter
  <1>5. CASE PutRename(r) /\ ~Publish(r)
    <2>1. /\ req[r].pc = "rename" /\ req[r].op = "put" /\ Moves(r) /\ req'[r].op = req[r].op
          /\ req'[r].pc \in {"replied", "cleanup"}
          /\ Kept /\ UNCHANGED <<inode, dest, part, side, faults>>
      BY <1>1, <1>5, RenameFailEffect DEF PutRename, At
    <2>2. Writing(r) /\ ~InWindow(r)
      BY <2>1 DEF Writing, Running, Writers, InWindow
    <2>3. TempInv(r)' /\ PutInv(r)' /\ WindowInv(r)'
      BY <2>1 DEF TempInv, PutInv, WindowInv, Holds, At, InWindow
    <2>4. SidecarMatches'
      BY <1>1, <2>1, <2>2, SidecarStays
    <2> QED
      BY <1>1, <2>1, <2>2, <2>3, <2>4, OnlyWriter, SharedWriter
  <1>6. CASE PutRename(r) /\ Publish(r)
    BY <1>6, PublishShared DEF PutRename
  <1>7. CASE PutCleanup(r)
    <2>1. /\ At(r, "put", "cleanup") /\ Moves(r) /\ req'[r].pc = "replied" /\ part' = Absent
          /\ Kept /\ UNCHANGED <<dest, side, faults>>
      BY <1>1, <1>7, PutCleanupEffect
    <2>2. ~InWindow(r) /\ ~Writing(r)'
      BY <2>1 DEF At, InWindow, Writing, Running
    <2> QED
      BY <1>1, <2>1, <2>2, SharedDrop
  <1> QED
    BY <1>2, <1>3, <1>4, <1>5, <1>6, <1>7 DEF Put

\* The sidecar write under the weaker discipline.
LEMMA SidecarShared ==
    ASSUME StoreAssumption, SharedInv, NEW r \in Req, Sidecar(r)
    PROVE  SharedInv'
  <1>1. Sound /\ TypeOK /\ Sound' /\ WindowInv(r) /\ SidecarMatches
    BY SidecarSound DEF SharedInv, Sound
  <1>2. /\ InWindow(r) /\ Moves(r) /\ req'[r].op = req[r].op
        /\ Kept /\ UNCHANGED <<inode, dest, part>>
        /\ \/ req'[r].pc = "sidewrite" /\ req'[r].sum = req[r].sum
           \/ /\ req'[r].pc = "replied" /\ side' \in {Absent, req[r].sum}
              /\ faults' = faults
           \/ req'[r].pc = "replied" /\ faults' = faults + 1
    BY <1>1, SidecarEffect
  <1>3. Writing(r) /\ (dest # Absent => inode[dest] = req[r].sum) /\ req[r].sum \in Content
    BY <1>1, <1>2, WindowWrites DEF WindowInv
  <1>4. TempInv(r)' /\ PutInv(r)'
    BY <1>2 DEF TempInv, PutInv, Holds, At
  <1>5. WindowInv(r)'
    BY <1>1, <1>2, <1>3 DEF WindowInv, InWindow
  <1>6. SidecarMatches'
    <2>1. CASE req'[r].pc = "sidewrite"
      BY <2>1 DEF SidecarMatches
    <2>2. CASE side' \in {Absent, req[r].sum}
      BY <1>2, <1>3, <2>2 DEF SidecarMatches
    <2>3. CASE faults' = faults + 1
      <3>1. faults' # 0
        BY <1>1, <2>3 DEF TypeOK, StoreAssumption
      <3> QED
        BY <3>1 DEF SidecarMatches
    <2> QED
      BY <1>2, <2>1, <2>2, <2>3
  <1> QED
    BY <1>1, <1>2, <1>3, <1>4, <1>5, <1>6, OnlyWriter, SharedWriter

LEMMA SharedInit ==
    ASSUME StoreAssumption, Init
    PROVE  SharedInv
  <1>1. Sound /\ \A r \in Req : PutInv(r) /\ WindowInv(r)
    BY SoundInit, InitInv DEF IInv
  <1>2. Idle.pc = "idle" /\ \A r \in Req : req[r] = Idle
    BY DEF Init, Idle
  <1>3. OneWriter /\ SidecarMatches /\ \A r \in Req : TempInv(r)
    BY <1>2, InitInv DEF OneWriter, Writing, Running, TempInv, Holds, At, IInv
  <1> QED
    BY <1>1, <1>3 DEF SharedInv

LEMMA SharedNext ==
    ASSUME StoreAssumption, OneUploader, SharedInv, [Next]_vars
    PROVE  SharedInv'
  <1>1. Sound /\ TypeOK /\ Sound'
    BY SoundNext DEF SharedInv, Sound
  <1>2. ASSUME NEW r \in Req, Delete(r) PROVE SharedInv'
    <2>1. /\ ~InWindow(r) /\ Moves(r) /\ req'[r].op = "delete"
          /\ Kept /\ faults' = faults
          /\ dest' \in {dest, Absent} /\ part' \in {part, Absent} /\ side' \in {side, Absent}
      BY <1>1, <1>2, DeleteEffect
    <2>2. ~Writing(r)'
      BY <2>1 DEF Writing, Writers
    <2> QED
      BY <1>1, <2>1, <2>2, SharedDrop
  <1>3. ASSUME NEW r \in Req, Read(r) \/ Deliver(r) PROVE SharedInv'
    <2>1. /\ ~InWindow(r) /\ Moves(r) /\ ~Writing(r)'
          /\ Kept /\ UNCHANGED <<dest, part, side, faults>>
      BY <1>1, <1>3, ReadEffect
    <2> QED
      BY <1>1, <2>1, SharedDrop
  <1>4. CASE Crash
    <2>1. Idle.pc = "idle" /\ faults' # 0 /\ \A r \in Req : req'[r] = Idle
      BY <1>1, <1>4, CrashEffect DEF Idle
    <2>2. OneWriter' /\ \A r \in Req : TempInv(r)' /\ PutInv(r)' /\ WindowInv(r)'
      BY <2>1 DEF OneWriter, TempInv, PutInv, WindowInv, Holds, At, InWindow, Writing, Running
    <2>3. SidecarMatches'
      BY <2>1 DEF SidecarMatches
    <2> QED
      BY <1>1, <2>2, <2>3 DEF SharedInv
  <1>5. CASE UNCHANGED vars
    BY <1>1, <1>5 DEF vars, SharedInv, OneWriter, SidecarMatches, TempInv, PutInv, WindowInv,
       Holds, At, InWindow, Writing, Running
  <1> QED
    BY <1>2, <1>3, <1>4, <1>5, PatchShared, PutShared, SidecarShared DEF Next

LEMMA SharedAlways ==
    ASSUME StoreAssumption, OneUploader
    PROVE  Spec => []SharedInv
  <1>1. Init => SharedInv
    BY SharedInit
  <1>2. SharedInv /\ [Next]_vars => SharedInv'
    BY SharedNext
  <1> QED
    BY <1>1, <1>2, PTL DEF Spec

\* With one upload at a time, deletes at any moment and resumes of anything that
\* is staged, verification raises no false alarm without faults: finalizePart
\* records what it has hashed, not what the client meant.
THEOREM SidecarCorrectShared ==
    ASSUME StoreAssumption, OneUploader
    PROVE  Spec => []SidecarMatches
  <1>1. SharedInv => SidecarMatches
    BY DEF SharedInv
  <1> QED
    BY <1>1, SharedAlways, PTL

\* Only what is staged is written to: an inode that is in use, is not the temp and
\* is not open in an upload keeps its content as long as it stays in use.
LEMMA SharedWrites ==
    ASSUME StoreAssumption, SharedInv, Next, NEW j \in Inode, Live(j), Live(j)', j # part,
           \A q \in Req : Holds(q) => req[q].fd # j
    PROVE  inode'[j] = inode[j]
  <1>1. Sound /\ TypeOK
    BY DEF SharedInv, Sound
  <1>2. ASSUME NEW i, i # j, \A x \in Inode : Live(x)' /\ x # i => inode'[x] = inode[x]
        PROVE  inode'[j] = inode[j]
    BY <1>2
  <1>3. ASSUME Kept PROVE inode'[j] = inode[j]
    BY <1>3 DEF Kept
  <1>4. ASSUME NEW r \in Req, Patch(r) PROVE inode'[j] = inode[j]
    <2>1. CASE PatchOpen(r)
      <3>1. PICK i \in Inode :
               /\ part = Absent => i \in Free
               /\ part # Absent => i = part
               /\ \A x \in Inode : Live(x)' /\ x # i => inode'[x] = inode[x]
        BY <1>1, <2>1, PatchOpenEffect
      <3>2. i # j
        BY <3>1 DEF Free
      <3> QED
        BY <1>2, <3>1, <3>2
    <2>2. CASE PatchAppend(r)
      <3>1. PICK i \in Inode, k \in Nat \ {0} :
               /\ Holds(r) /\ i = req[r].fd
               /\ \A x \in Inode : Live(x)' /\ x # i => inode'[x] = inode[x]
        BY <1>1, <2>2, PatchAppendEffect
      <3> QED
        BY <1>2, <3>1
    <2>3. CASE PatchWriteFails(r)
      <3>1. PICK i \in Inode, k \in Nat \ {0} :
               /\ Holds(r) /\ i = req[r].fd
               /\ \A x \in Inode : Live(x)' /\ x # i => inode'[x] = inode[x]
        BY <1>1, <2>3, PatchFailEffect
      <3> QED
        BY <1>2, <3>1
    <2>4. CASE ~PatchOpen(r) /\ ~PatchAppend(r) /\ ~PatchWriteFails(r)
      <3>1. Kept
        BY <1>1, <1>4, <2>4, PatchArriveEffect, PatchPauseEffect, PatchHashEffect,
           RenameFailEffect, PublishEffect DEF Patch
      <3> QED
        BY <1>3, <3>1
    <2> QED
      BY <2>1, <2>2, <2>3, <2>4
  <1>5. ASSUME NEW r \in Req, Put(r) PROVE inode'[j] = inode[j]
    <2>1. ASSUME NEW f \in File, PutCreate(r, f) PROVE inode'[j] = inode[j]
      <3>1. PICK i \in Inode :
               /\ part = Absent => i \in Free
               /\ part # Absent => i = part
               /\ \A x \in Inode : Live(x)' /\ x # i => inode'[x] = inode[x]
        BY <1>1, <2>1, PutCreateEffect
      <3>2. i # j
        BY <3>1 DEF Free
      <3> QED
        BY <1>2, <3>1, <3>2
    <2>2. CASE PutWrite(r)
      <3>1. PICK i \in Inode, k \in Nat \ {0} :
               /\ At(r, "put", "stream") /\ i = req[r].fd
               /\ \A x \in Inode : Live(x)' /\ x # i => inode'[x] = inode[x]
        BY <1>1, <2>2, PutWriteEffect
      <3> QED
        BY <1>2, <3>1 DEF Holds
    <2>3. CASE PutEnd(r) \/ PutDrop(r) \/ PutRename(r) \/ PutCleanup(r)
      <3>1. Kept
        BY <1>1, <2>3, PutEndEffect, RenameFailEffect, PublishEffect, PutCleanupEffect
      <3> QED
        BY <1>3, <3>1
    <2> QED
      BY <1>5, <2>1, <2>2, <2>3 DEF Put
  <1>6. ASSUME NEW r \in Req, Sidecar(r) \/ Delete(r) \/ Read(r) \/ Deliver(r)
        PROVE  inode'[j] = inode[j]
    BY <1>1, <1>3, <1>6, SidecarEffect, DeleteEffect, ReadEffect
  <1>7. CASE Crash
    BY <1>1, <1>3, <1>7, CrashEffect
  <1> QED
    BY <1>4, <1>5, <1>6, <1>7 DEF Next

\* A published file never changes in place, though a DELETE may pull the temp
\* away under a running upload: every upload writes to an inode of its own.
THEOREM ImmutabilityShared ==
    ASSUME StoreAssumption, OneUploader
    PROVE  Spec => PublishedImmutable
  <1>1. SharedInv /\ [Next]_vars =>
            [dest' = dest /\ dest # Absent => inode'[dest] = inode[dest]]_vars
    <2> SUFFICES ASSUME SharedInv, Next, dest' = dest, dest # Absent
                 PROVE  inode'[dest] = inode[dest]
      OBVIOUS
    <2>1. PICK i \in Inode : i = dest
      BY DEF SharedInv, Sound, TypeOK
    <2>2. Live(i) /\ Live(i)' /\ i # part /\ \A q \in Req : Holds(q) => req[q].fd # i
      BY <2>1 DEF SharedInv, Sound, TypeOK, TempInv, Live
    <2> QED
      BY <2>1, <2>2, SharedWrites
  <1> QED
    BY <1>1, SharedAlways, PTL DEF Spec, PublishedImmutable

-----------------------------------------------------------------------------
(* One upload at a time: the target is an atomic register *)

\* What a download has open is neither staged nor open in an upload.
SnapInv(r) ==
    At(r, "get", "send") =>
        req[r].fd # part /\ \A q \in Req : Holds(q) => req[q].fd # req[r].fd

SnapsInv == SharedInv /\ \A r \in Req : SnapInv(r)

\* Downloads stay clear of a step that stages only in the temp or in an inode that
\* was free, and opens for reading only what is published.
LEMMA SnapStep ==
    ASSUME StoreAssumption, SnapsInv, SharedInv', NEW r \in Req, Moves(r),
           part' \in {part, Absent} \/ part' \in Free,
           Holds(r)' => req'[r].fd = part' \/ (Holds(r) /\ req'[r].fd = req[r].fd),
           At(r, "get", "send")' =>
               (req'[r].fd = dest /\ part' = part)
               \/ (At(r, "get", "send") /\ req'[r].fd = req[r].fd)
    PROVE  SnapsInv'
  <1>1. /\ TypeOK /\ \A q \in Req : TempInv(q) /\ FieldsInv(q) /\ SnapInv(q)
        /\ \A q \in Req : FieldsInv(q)'
        /\ \A q \in Req \ {r} : req'[q] = req[q]
    BY DEF SnapsInv, SharedInv, Sound, Moves
  <1>2. ASSUME NEW q \in Req, At(q, "get", "send")'
        PROVE  /\ req'[q].fd \in Inode /\ req'[q].fd # part'
               /\ \A x \in Req : Holds(x) => req[x].fd # req'[q].fd
    <2>1. req'[q].fd \in Inode
      BY <1>1, <1>2 DEF FieldsInv, At
    <2>2. CASE At(q, "get", "send") /\ req'[q].fd = req[q].fd
      <3>1. req[q].fd # part /\ Live(req[q].fd) /\ req[q].fd # Absent
        BY <1>1, <2>1, <2>2 DEF SnapInv, Live, StoreAssumption
      <3>2. req'[q].fd # part'
        BY <2>2, <3>1 DEF Free
      <3> QED
        BY <1>1, <2>1, <2>2, <3>2 DEF SnapInv
    <2>3. CASE q = r /\ req'[q].fd = dest /\ part' = part
      <3>1. req'[q].fd # part'
        BY <1>1, <2>1, <2>3 DEF TypeOK, StoreAssumption
      <3>2. \A x \in Req : Holds(x) => req[x].fd # dest
        BY <1>1 DEF TempInv
      <3> QED
        BY <2>1, <2>3, <3>1, <3>2
    <2> QED
      BY <1>1, <1>2, <2>2, <2>3 DEF At
  <1>3. ASSUME NEW q \in Req, At(q, "get", "send")', NEW x \in Req, Holds(x)'
        PROVE  req'[x].fd # req'[q].fd
    <2>1. req'[x].fd = part' \/ (Holds(x) /\ req'[x].fd = req[x].fd)
      BY <1>1, <1>3 DEF Holds, At
    <2> QED
      BY <1>2, <1>3, <2>1
  <1>4. \A q \in Req : SnapInv(q)'
    BY <1>2, <1>3 DEF SnapInv, Holds, At
  <1> QED
    BY <1>4 DEF SnapsInv

\* What an upload has open for writing after a step of its own.
LEMMA PatchHolds ==
    ASSUME StoreAssumption, Sound, NEW r \in Req, Patch(r)
    PROVE  /\ Moves(r) /\ req'[r].op = "patch"
           /\ part' \in {part, Absent} \/ part' \in Free
           /\ Holds(r)' => req'[r].fd = part' \/ (Holds(r) /\ req'[r].fd = req[r].fd)
  <1>1. TypeOK
    BY DEF Sound
  <1>2. ASSUME NEW f \in File, NEW o \in Offsets, PatchArrive(r, f, o)
        PROVE  /\ Moves(r) /\ req'[r].op = "patch" /\ req'[r].pc \in {"open", "replied"}
               /\ part' = part
    BY <1>1, <1>2, PatchArriveEffect
  <1>3. CASE PatchOpen(r)
    <2>1. PICK i \in Inode :
             /\ Moves(r) /\ req'[r].op = "patch" /\ req'[r].fd = i /\ part' = i
             /\ part = Absent => i \in Free
             /\ part # Absent => i = part
      BY <1>1, <1>3, PatchOpenEffect
    <2> QED
      BY <2>1
  <1>4. CASE PatchAppend(r)
    <2>1. PICK i \in Inode, k \in Nat \ {0} :
             /\ Holds(r) /\ i = req[r].fd /\ Moves(r) /\ req'[r].op = "patch"
             /\ req'[r].fd = i /\ part' = part
      BY <1>4, PatchAppendEffect
    <2> QED
      BY <2>1
  <1>5. CASE PatchEnd(r) \/ PatchDrop(r) \/ PatchHash(r)
    <2>1. /\ Moves(r) /\ req'[r].op = "patch" /\ part' = part
          /\ req'[r].pc \in {"replied", "hash", "rename"}
      BY <1>1, <1>5, PatchPauseEffect, PatchHashEffect
    <2> QED
      BY <2>1 DEF Holds, At
  <1>6. CASE PatchRename(r)
    <2>1. /\ Moves(r) /\ req'[r].op = req[r].op /\ req[r].op = "patch"
          /\ part' \in {part, Absent} /\ req'[r].pc \in {"replied", "cleanup", "sidecar"}
      BY <1>1, <1>6, RenameFailEffect, PublishEffect DEF PatchRename, At
    <2> QED
      BY <2>1 DEF Holds, At
  <1>7. CASE PatchWriteFails(r)
    <2>1. Moves(r) /\ req'[r].op = "patch" /\ part' = part /\ req'[r].pc = "replied"
      BY <1>7, PatchFailEffect
    <2> QED
      BY <2>1 DEF Holds, At
  <1> QED
    BY <1>2, <1>3, <1>4, <1>5, <1>6, <1>7 DEF Patch, Holds, At

LEMMA PutHolds ==
    ASSUME StoreAssumption, Sound, NEW r \in Req, Put(r)
    PROVE  /\ Moves(r) /\ req'[r].op = "put"
           /\ part' \in {part, Absent} \/ part' \in Free
           /\ Holds(r)' => req'[r].fd = part' \/ (Holds(r) /\ req'[r].fd = req[r].fd)
  <1>1. TypeOK
    BY DEF Sound
  <1>2. ASSUME NEW f \in File, PutCreate(r, f)
        PROVE  /\ Moves(r) /\ req'[r].op = "put" /\ req'[r].fd = part'
               /\ part' = part \/ part' \in Free
    <2>1. PICK i \in Inode :
             /\ Moves(r) /\ req'[r].op = "put" /\ req'[r].fd = i /\ part' = i
             /\ part = Absent => i \in Free
             /\ part # Absent => i = part
      BY <1>1, <1>2, PutCreateEffect
    <2> QED
      BY <2>1
  <1>3. CASE PutWrite(r)
    <2>1. PICK i \in Inode, k \in Nat \ {0} :
             /\ At(r, "put", "stream") /\ i = req[r].fd /\ Moves(r) /\ req'[r].op = "put"
             /\ req'[r].fd = i /\ part' = part
      BY <1>3, PutWriteEffect
    <2> QED
      BY <2>1 DEF Holds
  <1>4. CASE PutEnd(r) \/ PutDrop(r) \/ PutCleanup(r)
    <2>1. /\ Moves(r) /\ req'[r].op = "put" /\ part' \in {part, Absent}
          /\ req'[r].pc \in {"replied", "cleanup", "rename"}
      BY <1>1, <1>4, PutEndEffect, PutCleanupEffect
    <2> QED
      BY <2>1 DEF Holds, At
  <1>5. CASE PutRename(r)
    <2>1. /\ Moves(r) /\ req'[r].op = req[r].op /\ req[r].op = "put"
          /\ part' \in {part, Absent} /\ req'[r].pc \in {"replied", "cleanup", "sidecar"}
      BY <1>1, <1>5, RenameFailEffect, PublishEffect DEF PutRename, At
    <2> QED
      BY <2>1 DEF Holds, At
  <1> QED
    BY <1>2, <1>3, <1>4, <1>5 DEF Put

\* A download opens what is published, and keeps what it has open.
LEMMA ReadOpens ==
    ASSUME StoreAssumption, Sound, NEW r \in Req, Read(r) \/ Deliver(r), At(r, "get", "send")'
    PROVE  req'[r].fd = dest \/ (At(r, "get", "send") /\ req'[r].fd = req[r].fd)
  <1>1. TypeOK
    BY DEF Sound
  <1>2. GetOpen(r) \/ GetSend(r)
    BY <1>1, PlainMoves DEF Plain, Read, At
  <1>3. ASSUME NEW off, NEW says, NEW sum, NEW status,
               Answer(r, "get", status, off, says, sum) \/ Reply(r, "get", status)
        PROVE  FALSE
    BY <1>1, <1>3, AnswerOp DEF At
  <1>4. CASE GetOpen(r)
    <2>1. Advance(r, "send", req[r].n, dest, <<>>)
      BY <1>3, <1>4 DEF GetOpen
    <2> QED
      BY <1>1, <2>1, AdvanceOp
  <1>5. CASE GetSend(r)
    <2>1. PICK sum : Advance(r, "send", req[r].n, req[r].fd, sum)
      BY <1>3, <1>5 DEF GetSend
    <2> QED
      BY <1>1, <1>5, <2>1, AdvanceOp DEF GetSend
  <1> QED
    BY <1>2, <1>4, <1>5

LEMMA SnapsNext ==
    ASSUME StoreAssumption, OneUploader, SnapsInv, [Next]_vars
    PROVE  SnapsInv'
  <1>1. Sound /\ TypeOK /\ SharedInv /\ SharedInv'
    BY SharedNext DEF SnapsInv, SharedInv, Sound
  <1>2. ASSUME NEW r \in Req, Patch(r) \/ Put(r) PROVE SnapsInv'
    <2>1. /\ Moves(r) /\ req'[r].op # "get"
          /\ part' \in {part, Absent} \/ part' \in Free
          /\ Holds(r)' => req'[r].fd = part' \/ (Holds(r) /\ req'[r].fd = req[r].fd)
      BY <1>1, <1>2, PatchHolds, PutHolds
    <2>2. ~At(r, "get", "send")'
      BY <2>1 DEF At
    <2> QED
      BY <1>1, <2>1, <2>2, SnapStep
  <1>3. ASSUME NEW r \in Req, Sidecar(r) \/ Delete(r) PROVE SnapsInv'
    <2>1. /\ Moves(r) /\ part' \in {part, Absent}
          /\ req'[r].op \in {"patch", "put", "delete"}
          /\ req'[r].op = "delete" \/ req'[r].pc \in {"sidewrite", "replied"}
      BY <1>1, <1>3, SidecarEffect, DeleteEffect DEF Sound, FieldsInv, Writers
    <2>2. ~At(r, "get", "send")' /\ ~Holds(r)'
      BY <2>1 DEF At, Holds
    <2> QED
      BY <1>1, <2>1, <2>2, SnapStep
  <1>4. ASSUME NEW r \in Req, Read(r) \/ Deliver(r) PROVE SnapsInv'
    <2>1. Moves(r) /\ ~Writing(r)' /\ part' = part
      BY <1>1, <1>4, ReadEffect
    <2>2. ~Holds(r)'
      BY <2>1 DEF Holds, Writing, Running, Writers, At
    <2>3. At(r, "get", "send")' =>
              req'[r].fd = dest \/ (At(r, "get", "send") /\ req'[r].fd = req[r].fd)
      BY <1>1, <1>4, ReadOpens
    <2> QED
      BY <1>1, <2>1, <2>2, <2>3, SnapStep
  <1>5. CASE Crash
    <2>1. Idle.pc = "idle" /\ \A r \in Req : req'[r] = Idle
      BY <1>1, <1>5, CrashEffect DEF Idle
    <2> QED
      BY <1>1, <2>1 DEF SnapsInv, SnapInv, At
  <1>6. CASE UNCHANGED vars
    BY <1>1, <1>6 DEF vars, SnapsInv, SnapInv, Holds, At
  <1> QED
    BY <1>2, <1>3, <1>4, <1>5, <1>6 DEF Next

LEMMA SnapsAlways ==
    ASSUME StoreAssumption, OneUploader
    PROVE  Spec => []SnapsInv
  <1>1. Init => SnapsInv
    <2>1. Init => Idle.pc = "idle" /\ \A r \in Req : req[r] = Idle
      BY DEF Init, Idle
    <2> QED
      BY <2>1, SharedInit DEF SnapsInv, SnapInv, At
  <1>2. SnapsInv /\ [Next]_vars => SnapsInv'
    BY SnapsNext
  <1> QED
    BY <1>1, <1>2, PTL DEF Spec

\* Every step of the store is a step of the atomic register.
LEMMA StepRefinesBytes ==
    ASSUME StoreAssumption, SnapsInv, SnapsInv', Next
    PROVE  Bytes!Next
  <1>1. TypeOK /\ TypeOK' /\ SharedInv /\ \A q \in Req : FieldsInv(q) /\ TempInv(q) /\ SnapInv(q)
    BY DEF SnapsInv, SharedInv, Sound
  <1>2. Shown' \in Content \cup {Absent}
    BY <1>1 DEF TypeOK, Shown
  <1>3. Sending
    BY <1>1 DEF FieldsInv, Sending
  <1>4. Undisturbed
    <2> SUFFICES ASSUME NEW i \in Inode, Live(i)',
                        i = dest \/ \E q \in Req : At(q, "get", "send") /\ req[q].fd = i
                 PROVE  inode'[i] = inode[i]
      BY DEF Undisturbed
    <2>1. Live(i)
      BY DEF Live
    <2>2. i # part /\ \A q \in Req : Holds(q) => req[q].fd # i
      BY <1>1 DEF TypeOK, TempInv, SnapInv, StoreAssumption
    <2> QED
      BY <1>1, <2>1, <2>2, SharedWrites
  <1>5. Shows
    BY <1>1, <1>3, <1>4, StepShows
  <1>6. CASE Views' = Views
    BY <1>2, <1>6 DEF Bytes!Next, Bytes!Publish, Bytes!Remove, Views, View, Shown
  <1>7. CASE Shown' = Shown /\ Views' = [q \in Req |-> Absent]
    BY <1>7 DEF Bytes!Next, Bytes!Restart, Views, View, Shown
  <1>8. ASSUME NEW r \in Req, Shown' = Shown, Views' = [Views EXCEPT ![r] = Absent]
        PROVE  Bytes!Next
    BY <1>8 DEF Bytes!Next, Bytes!Close, Views, View, Shown
  <1>9. ASSUME NEW r \in Req, Views[r] = Absent, Shown # Absent, Shown' = Shown,
               Views' = [Views EXCEPT ![r] = Shown]
        PROVE  Bytes!Next
    BY <1>9 DEF Bytes!Next, Bytes!Open, Views, View, Shown
  <1> QED
    BY <1>5, <1>6, <1>7, <1>8, <1>9 DEF Shows

\* With one upload at a time and deletes at any moment, the final name is an atomic
\* register and every open download a snapshot of it: though a DELETE pulls the
\* temp away under a PATCH, no reader sees a file change under it.
THEOREM SnapshotsShared ==
    ASSUME StoreAssumption, OneUploader
    PROVE  Spec => RefinesAtomicBytes
  <1>1. Init => Bytes!Init
    <2>1. Idle.pc = "idle"
      BY DEF Idle
    <2> QED
      BY <2>1 DEF Init, Bytes!Init, At
  <1>2. SnapsInv /\ SnapsInv' /\ [Next]_vars =>
            [Bytes!Next]_<<IF dest = Absent THEN Absent ELSE inode[dest],
                           [r \in Req |-> IF At(r, "get", "send") THEN inode[req[r].fd]
                                                                  ELSE Absent]>>
    <2>1. CASE UNCHANGED vars
      BY <2>1 DEF vars, At
    <2> QED
      BY <2>1, StepRefinesBytes
  <1> QED
    BY <1>1, <1>2, SnapsAlways, PTL DEF Spec, RefinesAtomicBytes, Bytes!Spec

-----------------------------------------------------------------------------
(* The offsets a disciplined client is told *)

\* A reader that arrives is a reader.
LEMMA ReaderArrives ==
    ASSUME StoreAssumption, TypeOK, NEW r \in Req,
           HeadArrive(r) \/ VerifyArrive(r) \/ GetArrive(r)
    PROVE  req'[r].op \in {"head", "verify", "get"}
  <1>1. /\ "head" \in Ops /\ "verify" \in Ops /\ "get" \in Ops /\ "headpart" \in PCs
        /\ "expect" \in PCs /\ "fetch" \in PCs /\ 0 \in Nat /\ 200 \in Nat /\ 404 \in Nat
        /\ "complete" \in Says /\ SizeOf(dest) \in Nat /\ Absent \in Content \cup {Absent}
        /\ Absent \in File \cup {Absent} /\ Absent \in Inode \cup {Absent}
    BY Literals DEF TypeOK, Content, SizeOf
  <1>2. CASE HeadArrive(r)
    <2>1. \/ Answer(r, "head", 200, SizeOf(dest), "complete", Absent)
          \/ Start(r, "head", "headpart", Absent, 0, Absent)
      BY <1>2 DEF HeadArrive
    <2> QED
      BY <1>1, <2>1, AnswerMoves, StartMoves
  <1>3. CASE VerifyArrive(r)
    <2>1. \/ Reply(r, "verify", 404)
          \/ Start(r, "verify", "expect", Absent, SizeOf(dest), Absent)
      BY <1>3 DEF VerifyArrive
    <2> QED
      BY <1>1, <2>1, ReplyMoves, StartMoves
  <1>4. CASE GetArrive(r)
    <2>1. \/ Reply(r, "get", 404)
          \/ Start(r, "get", "fetch", Absent, SizeOf(dest), Absent)
      BY <1>4 DEF GetArrive
    <2> QED
      BY <1>1, <2>1, ReplyMoves, StartMoves
  <1> QED
    BY <1>2, <1>3, <1>4

\* A client told its upload is incomplete can go on from the offset in the answer:
\* the 204 and the 500 of a dropped body count what this handler has appended, and
\* that is all there is staged as long as no other upload or DELETE meets it; after a
\* failed write one block more may be staged, never less.
THEOREM OffsetsExact ==
    ASSUME StoreAssumption, Disciplined
    PROVE  Spec => AckExact
  <1> DEFINE Exact(r) == IF faults' = faults THEN req'[r].off = SizeOf(part)'
                                             ELSE req'[r].off <= SizeOf(part)'
  <1>1. ASSUME IInv, Sound, Next, NEW r \in Req,
               req'[r].op = "patch", req'[r].pc = "replied", req[r].pc \in {"idle", "body"}
        PROVE  Exact(r)
    <2>1. TypeOK /\ PatchInv(r)
      BY <1>1 DEF IInv
    <2>2. ASSUME NEW q \in Req, q # r PROVE ~Moves(q)
      BY <1>1, <2>2 DEF Moves
    <2>3. CASE Patch(r)
      <3>1. ASSUME NEW f \in File, NEW o \in Offsets, PatchArrive(r, f, o)
            PROVE  Exact(r)
        <4>1. req'[r].off = SizeOf(part) /\ UNCHANGED <<inode, part, faults>>
          BY <1>1, <2>1, <3>1, PatchArriveEffect
        <4> QED
          BY <4>1 DEF SizeOf
      <3>2. CASE PatchEnd(r) \/ PatchDrop(r)
        <4>1. /\ At(r, "patch", "body") /\ req'[r].off = req[r].n /\ Kept
              /\ UNCHANGED <<part, faults>>
          BY <1>1, <2>1, <3>2, PatchPauseEffect
        <4>2. part \in Inode /\ part # Absent /\ inode[part] = Piece(req[r].file, req[r].n)
          BY <2>1, <4>1 DEF PatchInv, TypeOK
        <4>3. inode'[part] = inode[part]
          BY <4>1, <4>2 DEF Kept, Live
        <4>4. Len(Piece(req[r].file, req[r].n)) = req[r].n
          BY <2>1, <4>1, PieceType DEF PatchInv, TypeOK, Request
        <4> QED
          BY <4>1, <4>2, <4>3, <4>4 DEF SizeOf
      <3>3. req'[r].pc # "body"
        BY <1>1
      <3>4. CASE PatchOpen(r) \/ PatchAppend(r) \/ PatchHash(r) \/ PatchRename(r)
        BY <1>1, <2>1, <3>3, <3>4, PatchOpenEffect, PatchAppendEffect
           DEF PatchHash, PatchRename, At
      <3>5. CASE PatchWriteFails(r)
        <4>1. PICK i \in Inode, k \in Nat \ {0} :
                 /\ At(r, "patch", "body") /\ i = req[r].fd /\ k = req[r].n + 1
                 /\ req'[r].off = req[r].n /\ part' = part /\ faults' # faults
                 /\ Live(i)' =>
                      \/ inode'[i] = inode[i]
                      \/ inode'[i] = WriteAt(inode[i], Len(inode[i]) + 1, <<req[r].file, k>>)
          BY <1>1, <3>5, PatchFailEffect
        <4>2. PICK f \in File : f = req[r].file
          BY <2>1, <4>1 DEF PatchInv
        <4>3. PICK n \in Nat : n = req[r].n
          BY <2>1 DEF TypeOK, Request
        <4>4. i = part /\ part # Absent /\ inode[i] = Piece(f, n) /\ Live(i)'
          BY <2>1, <4>1, <4>2, <4>3 DEF PatchInv, Live
        <4>5. inode'[i] = Piece(f, n) \/ inode'[i] = Piece(f, n + 1)
          <5>1. Len(inode[i]) = n
            BY <4>4, PieceType
          <5>2. inode'[i] = Piece(f, n) \/ inode'[i] = WriteAt(Piece(f, n), n + 1, <<f, n + 1>>)
            BY <4>1, <4>2, <4>3, <4>4, <5>1
          <5> QED
            BY <5>2, WriteAtPiece
        <4>6. Len(Piece(f, n)) = n /\ Len(Piece(f, n + 1)) = n + 1
          BY PieceType
        <4>7. SizeOf(part)' = Len(inode'[i])
          BY <4>1, <4>4 DEF SizeOf
        <4> QED
          BY <4>1, <4>3, <4>5, <4>6, <4>7
      <3> HIDE DEF Exact
      <3> QED
        BY <2>3, <3>1, <3>2, <3>4, <3>5 DEF Patch
    <2>4. ASSUME NEW q \in Req, Patch(q) PROVE q = r
      <3>1. Moves(q)
        BY <1>1, <2>1, <2>4, PatchArriveEffect, PatchOpenEffect, PatchAppendEffect,
           PatchPauseEffect, PatchFailEffect, PatchHashEffect, RenameFailEffect, PublishEffect
           DEF Patch
      <3> QED
        BY <2>2, <3>1
    <2>5. ASSUME NEW q \in Req, Put(q) PROVE FALSE
      <3>1. Moves(q) /\ req'[q].op = "put"
        <4>1. req[q].op = "put" \/ \E f \in File : PutCreate(q, f)
          BY <2>5 DEF Put, PutWrite, PutEnd, PutDrop, PutRename, PutCleanup, At
        <4> QED
          BY <1>1, <2>1, <2>5, <4>1, PutCreateEffect, PutWriteEffect, PutEndEffect,
             RenameFailEffect, PublishEffect, PutCleanupEffect DEF Put, PutRename, At
      <3> QED
        BY <1>1, <2>2, <3>1
    <2>6. ASSUME NEW q \in Req, Sidecar(q) \/ Delete(q) PROVE FALSE
      <3>1. Moves(q) /\ (InWindow(q) \/ req'[q].op = "delete")
        BY <1>1, <2>1, <2>6, SidecarEffect, DeleteEffect
      <3> QED
        BY <1>1, <2>2, <3>1 DEF InWindow
    <2>7. ASSUME NEW q \in Req, Read(q) \/ Deliver(q) PROVE FALSE
      <3>1. Moves(q)
        BY <1>1, <2>7, ReadEffect
      <3>2. q = r
        BY <2>2, <3>1
      <3>3. HeadArrive(r) \/ VerifyArrive(r) \/ GetArrive(r)
        BY <1>1, <2>7, <3>2 DEF Read, Deliver, HeadPart, VerifyExpect, VerifyDigest, GetOpen,
           GetSend, At
      <3> QED
        BY <1>1, <2>1, <3>3, ReaderArrives
    <2>8. CASE Crash
      <3>1. req'[r] = Idle /\ Idle.pc = "idle"
        BY <2>1, <2>8, CrashEffect DEF Idle
      <3> QED
        BY <1>1, <3>1
    <2> QED
      BY <1>1, <2>3, <2>4, <2>5, <2>6, <2>7, <2>8 DEF Next
  <1>2. IInv /\ Sound /\ [Next]_vars =>
          [\A r \in Req : /\ req'[r].op = "patch" /\ req'[r].pc = "replied"
                          /\ req[r].pc \in {"idle", "body"}
                          => IF faults' = faults THEN req'[r].off = SizeOf(part)'
                                                 ELSE req'[r].off <= SizeOf(part)']_vars
    BY <1>1
  <1> QED
    BY <1>2, Invariance, SoundAlways, PTL DEF Spec, AckExact
-----------------------------------------------------------------------------
(* What a verification confirms *)

\* What an answer carries.
LEMMA AnswerSays ==
    ASSUME TypeOK, NEW r \in Req, NEW op, NEW status, NEW off, NEW says, NEW sum,
           Answer(r, op, status, off, says, sum)
    PROVE  /\ Others(r) /\ req'[r].op = op /\ req'[r].pc = "replied" /\ req'[r].status = status
           /\ req'[r].off = off /\ req'[r].says = says /\ req'[r].sum = sum
  <1> DEFINE new == [Idle EXCEPT !.op = op, !.pc = "replied", !.status = status,
                                 !.off = off, !.says = says, !.sum = sum]
  <1>1. /\ new.op = op /\ new.pc = "replied" /\ new.status = status
        /\ new.off = off /\ new.says = says /\ new.sum = sum
    BY DEF Idle
  <1>2. Become(r, new)
    BY DEF Answer
  <1> HIDE DEF new
  <1> QED
    BY <1>1, <1>2, BecomeOthers

\* A reader answers "match" only about the bytes it has just hashed.
LEMMA MatchHashed ==
    ASSUME TypeOK, NEW r \in Req, Read(r) \/ Deliver(r),
           At(r, "verify", "replied")', req'[r].says = "match"
    PROVE  dest # Absent /\ req'[r].sum = inode[dest]
  <1>1. req'[r].op = "verify" /\ req'[r].pc = "replied"
    BY DEF At
  <1>2. ASSUME NEW op, NEW status, Reply(r, op, status) PROVE FALSE
    <2>1. req'[r].says = "none"
      BY <1>2, AnswerSays DEF Reply
    <2> QED
      BY <2>1
  <1>3. ASSUME NEW op, NEW status, NEW off, NEW says, NEW sum,
               Answer(r, op, status, off, says, sum), op # "verify"
        PROVE  FALSE
    BY <1>1, <1>3, AnswerSays
  <1>4. ASSUME NEW op, NEW pc, NEW f, NEW n, NEW fd, Start(r, op, pc, f, n, fd), pc # "replied"
        PROVE  FALSE
    BY <1>1, <1>4, StartOp
  <1>5. ASSUME NEW pc, NEW n, NEW fd, NEW sum, Advance(r, pc, n, fd, sum), pc # "replied"
        PROVE  FALSE
    BY <1>1, <1>5, AdvanceOp
  <1>6. CASE HeadArrive(r) \/ HeadPart(r)
    BY <1>3, <1>4, <1>6 DEF HeadArrive, HeadPart
  <1>7. CASE VerifyArrive(r) \/ VerifyExpect(r)
    BY <1>2, <1>4, <1>5, <1>7 DEF VerifyArrive, VerifyExpect
  <1>8. CASE VerifyDigest(r)
    <2>1. dest # Absent /\ \E says : Answer(r, "verify", 200, req[r].n, says, inode[dest])
      BY <1>2, <1>8 DEF VerifyDigest
    <2> QED
      BY <2>1, AnswerSays
  <1>9. CASE GetArrive(r) \/ GetOpen(r) \/ GetSend(r)
    BY <1>2, <1>3, <1>4, <1>5, <1>9 DEF GetArrive, GetOpen, GetSend
  <1>10. CASE Deliver(r)
    BY <1>1, <1>10, BecomeOthers DEF Deliver, Idle
  <1> QED
    BY <1>6, <1>7, <1>8, <1>9, <1>10 DEF Read

LEMMA VerdictStep ==
    ASSUME StoreAssumption, IInv, Sound, VerifyConfirms, Next
    PROVE  VerifyConfirms'
  <1> SUFFICES ASSUME NEW r \in Req, At(r, "verify", "replied")', req'[r].says = "match"
               PROVE  req'[r].sum \in Versions
    BY DEF VerifyConfirms
  <1>1. TypeOK /\ PublishedIntact /\ (At(r, "verify", "replied") /\ req[r].says = "match"
                                      => req[r].sum \in Versions)
    BY DEF IInv, VerifyConfirms
  <1>2. ASSUME NEW q \in Req, Moves(q), q = r => req'[q].op # "verify"
        PROVE  req'[r].sum \in Versions
    <2>1. req'[r] = req[r]
      BY <1>2 DEF Moves, At
    <2> QED
      BY <1>1, <2>1 DEF At
  <1>3. ASSUME NEW q \in Req, Patch(q) \/ Put(q) \/ Sidecar(q) \/ Delete(q)
        PROVE  req'[r].sum \in Versions
    <2>1. Moves(q) /\ req'[q].op \in {"patch", "put", "delete"}
      BY <1>1, <1>3, PatchHolds, PutHolds, SidecarEffect, DeleteEffect
         DEF Sound, FieldsInv, Writers
    <2> QED
      BY <1>2, <2>1
  <1>4. ASSUME NEW q \in Req, Read(q) \/ Deliver(q) PROVE req'[r].sum \in Versions
    <2>1. Moves(q)
      BY <1>4, ReadEffect
    <2>2. CASE q = r
      BY <1>1, <1>4, <2>2, MatchHashed DEF PublishedIntact
    <2> QED
      BY <1>2, <2>1, <2>2
  <1>5. CASE Crash
    <2>1. req'[r] = Idle /\ Idle.pc = "idle"
      BY <1>1, <1>5, CrashEffect DEF Idle
    <2> QED
      BY <2>1 DEF At
  <1> QED
    BY <1>3, <1>4, <1>5 DEF Next

\* A verification that answers "ok" has confirmed one complete version: it hashes
\* what is published, and nothing else is ever published.  Without the discipline
\* this fails.
THEOREM VerifyCorrect ==
    ASSUME StoreAssumption, Disciplined
    PROVE  Spec => []VerifyConfirms
  <1>1. Init => VerifyConfirms
    <2>1. Init => Idle.pc = "idle" /\ \A r \in Req : req[r] = Idle
      BY DEF Init, Idle
    <2> QED
      BY <2>1 DEF VerifyConfirms, At
  <1>2. IInv /\ Sound /\ VerifyConfirms /\ [Next]_vars => VerifyConfirms'
    <2>1. CASE UNCHANGED vars
      BY <2>1 DEF vars, VerifyConfirms, At
    <2> QED
      BY <2>1, VerdictStep
  <1> QED
    BY <1>1, <1>2, Invariance, SoundAlways, PTL DEF Spec
=============================================================================
