------------------------- MODULE RntpSessionsProofs -------------------------
(***************************************************************************)
(* Proofs about the RNTP sessions, for every number of slots, every export  *)
(* size, every geometry and every set of request frames.                    *)
(***************************************************************************)
EXTENDS RntpSessions, FiniteSetTheorems, TLAPS

-----------------------------------------------------------------------------
(* Lemmas about the operators of the model.                                 *)

\* Sector 0 exists: the export is never empty.
LEMMA BootIsSector == 0 \in LBA
  BY SizeAssumption DEF LBA

\* The free-cluster count of an image with a valid geometry is a number.
LEMMA FreeClustersType ==
  ASSUME NEW img, img[0] \in DOMAIN Fat
  PROVE  FreeClusters(img) \in Nat
<1> DEFINE F == {s \in Fat[img[0]] : img[s] = FreeEntry}
<1>1. F \subseteq LBA
  BY FatAssumption
<1>2. IsFiniteSet(LBA)
  BY SizeAssumption, FS_Interval DEF LBA
<1>3. IsFiniteSet(F)
  BY <1>1, <1>2, FS_Subset
<1> QED
  BY <1>3, FS_CardinalityType DEF FreeClusters

\* rntp_free_space yields a number or leaves one alone.
LEMMA FreeSpaceType ==
  ASSUME NEW img, NEW old \in Nat
  PROVE  FreeSpace(img, old) \in Nat
  BY FreeClustersType DEF FreeSpace

\* The records of a request carry sector contents.
LEMMA RecordsType ==
  ASSUME NEW r \in Request
  PROVE  Records(r) \in Seq(Record)
<1>1. r.lba \in Nat /\ r.data \in Data /\ r.writes \in Seq(Record)
  BY DEF Request
<1>2. [lba |-> r.lba, data |-> r.data] \in Record
  BY <1>1 DEF Record
<1> QED
  BY <1>1, <1>2 DEF Records

\* Copying records into an image gives an image.
LEMMA WrittenType ==
  ASSUME NEW img \in [LBA -> Data], NEW records \in Seq(Record)
  PROVE  Written(img, records) \in [LBA -> Data]
<1> SUFFICES ASSUME NEW s \in LBA, LastWrite(records, s) # {}
             PROVE  records[CHOOSE i \in LastWrite(records, s) : TRUE].data \in Data
  BY DEF Written
<1> DEFINE i == CHOOSE j \in LastWrite(records, s) : TRUE
<1>1. i \in DOMAIN records
  BY DEF LastWrite
<1>2. records[i] \in Record
  BY <1>1
<1> QED
  BY <1>2 DEF Record

\* Copying records into an image changes no sector the records do not name.
LEMMA WrittenElsewhere ==
  ASSUME NEW img, NEW records, NEW s \in LBA,
         \A i \in DOMAIN records : records[i].lba # s
  PROVE  Written(img, records)[s] = img[s]
  BY DEF Written, LastWrite

\* The status of a reply is one of the four of protocol.h.
LEMMA StatusType ==
  ASSUME NEW p, NEW r
  PROVE  /\ Status(p, r) \in {"OK", "BUSY", "INVALID", "STALE"}
         /\ HandleStatus(r) \in {"OK", "INVALID"}
<1>1. HandleStatus(r) \in {"OK", "INVALID"}
  BY DEF HandleStatus
<1>2. HelloStatus(p, r) \in {"OK", "BUSY", "INVALID"}
  BY DEF HelloStatus
<1>3. LockStatus(p, r) \in {"OK", "BUSY", "INVALID"}
  BY DEF LockStatus
<1>4. BlockStatus(p, r) \in {"OK", "BUSY", "INVALID"}
  BY <1>1 DEF BlockStatus
<1> QED
  BY <1>1, <1>2, <1>3, <1>4 DEF Status

\* The revision stays a 64-bit number, and a commit never makes it 0 or leaves
\* it as it was.
LEMMA RevisionStep ==
  ASSUME revision \in 0 .. RevisionMod - 1
  PROVE  /\ NextRevision \in 1 .. RevisionMod - 1
         /\ NextRevision # revision
         /\ (revision + 1) % RevisionMod \in 0 .. RevisionMod - 1
         /\ (revision + 1) % RevisionMod # revision
<1>1. CASE revision + 1 < RevisionMod
  <2>1. (revision + 1) % RevisionMod = revision + 1
    BY <1>1, SizeAssumption
  <2> QED
    BY <1>1, <2>1, SizeAssumption DEF NextRevision
<1>2. CASE revision + 1 = RevisionMod
  <2>1. (revision + 1) % RevisionMod = 0
    BY <1>2, SizeAssumption
  <2> QED
    BY <1>2, <2>1, SizeAssumption DEF NextRevision
<1> QED
  BY <1>1, <1>2, SizeAssumption

\* A reply frame is well typed when its parts are.
LEMMA AnswerType ==
  ASSUME NEW r \in Request, NEW status \in {"OK", "BUSY", "INVALID", "STALE"},
         NEW number \in Nat, NEW sectors \in Seq(Data),
         Answer(r, status, number, sectors)
  PROVE  reply' \in Reply
  BY DEF Answer, Reply, Request

\* finish() keeps every field in its type.
LEMMA FinishType ==
  ASSUME TypeOK, NEW commit \in BOOLEAN, Finish(commit)
  PROVE  /\ image' \in [LBA -> Data]
         /\ undo' \in [LBA -> Data]
         /\ dirty' \in SUBSET LBA
         /\ modified' \in BOOLEAN
         /\ revision' \in 0 .. RevisionMod - 1
         /\ committed_free' \in Nat
         /\ locked' \in Peers \cup {None}
<1> USE DEF TypeOK
<1>1. RolledBack \in [LBA -> Data]
  BY DEF RolledBack
<1>2. FreeSpace(image, committed_free) \in Nat
  BY FreeSpaceType
<1>3. NextRevision \in 0 .. RevisionMod - 1
  BY RevisionStep
<1> QED
  BY <1>1, <1>2, <1>3 DEF Finish

-----------------------------------------------------------------------------
(* Type correctness.                                                        *)

\* Every request, accepted or refused, keeps every field in its type.
LEMMA HandleType ==
  ASSUME TypeOK, NEW p \in Peers, NEW r \in Requests, Handle(p, r)
  PROVE  TypeOK'
<1> USE DEF TypeOK
<1> r \in Request
  BY RequestsAssumption
<1>e. <<>> \in Seq(Data)
  OBVIOUS
<1>1. CASE Refuse(p, r)
  <2>1. reply' \in Reply
    BY <1>1, <1>e, StatusType, AnswerType DEF Refuse
  <2> QED
    BY <1>1, <2>1 DEF Refuse, state, diskState
<1>2. CASE Hello(p, r)
  <2>1. <<image[0]>> \in Seq(Data)
    BY BootIsSector
  <2>2. reply' \in Reply
    BY <1>2, <2>1, AnswerType, SizeAssumption DEF Hello
  <2> QED
    BY <1>2, <2>2 DEF Hello, diskState
<1>3. CASE Probe(p, r)
  <2>1. reply' \in Reply
    BY <1>3, <1>e, AnswerType DEF Probe
  <2> QED
    BY <1>3, <2>1 DEF Probe, state, diskState
<1>4. CASE Stat(p, r)
  <2>1. reply' \in Reply
    BY <1>4, <1>e, AnswerType DEF Stat
  <2> QED
    BY <1>4, <2>1 DEF Stat, state, diskState
<1>5. CASE Lock(p, r)
  <2>0. revision \in Nat
    BY SizeAssumption
  <2>1. reply' \in Reply
    BY <1>5, <1>e, <2>0, AnswerType DEF Lock
  <2> QED
    BY <1>5, <2>1 DEF Lock, diskState
<1>6. CASE Unlock(p, r)
  <2>1. Finish(r.op = "UNLOCK")
    BY <1>6 DEF Unlock
  <2>2. /\ image' \in [LBA -> Data] /\ undo' \in [LBA -> Data] /\ dirty' \in SUBSET LBA
        /\ modified' \in BOOLEAN /\ revision' \in 0 .. RevisionMod - 1
        /\ committed_free' \in Nat /\ locked' \in Peers \cup {None}
    BY <2>1, FinishType
  <2> revision' \in Nat
    BY <2>2, SizeAssumption
  <2>3. reply' \in Reply
    BY <1>6, <1>e, AnswerType DEF Unlock
  <2> QED
    BY <1>6, <2>2, <2>3 DEF Unlock
<1>7. CASE Read(p, r)
  <2> DEFINE n == IF r.op = "READ" THEN 1 ELSE r.count
  <2>1. HandleStatus(r) = "OK"
    BY <1>7 DEF Read, Status, BlockStatus, HelloOps, LockOps
  <2>2. r.lba \in Nat /\ r.count \in Nat
    BY DEF Request
  <2>3. n \in Nat /\ \A i \in 1 .. n : r.lba + i - 1 \in LBA
    <3>1. CASE r.op = "READ"
      <4>1. r.lba < Sectors
        BY <2>1, <3>1 DEF HandleStatus
      <4> QED
        BY <2>2, <3>1, <4>1, SizeAssumption DEF LBA
    <3>2. CASE r.op = "READ_BATCH"
      <4>1. r.lba < Sectors /\ r.count <= Sectors - r.lba
        BY <2>1, <3>2 DEF HandleStatus
      <4> QED
        BY SMTT(60), <2>2, <3>2, <4>1, SizeAssumption DEF LBA
    <3> QED
      BY <1>7, <3>1, <3>2 DEF Read
  <2>4. [i \in 1 .. n |-> image[r.lba + i - 1]] \in Seq(Data)
    BY <2>3
  <2>5. reply' \in Reply
    BY <1>7, <2>4, AnswerType DEF Read
  <2> QED
    BY <1>7, <2>5 DEF Read, state, diskState
<1>8. CASE SharedWrite(p, r)
  <2> DEFINE touched == {Records(r)[i].lba : i \in DOMAIN Records(r)}
  <2>1. touched \subseteq LBA
    BY <1>8 DEF SharedWrite, SavesUndo, WriteChecked
  <2>2. Written(image, Records(r)) \in [LBA -> Data]
    BY RecordsType, WrittenType
  <2>3. reply' \in Reply
    BY <1>8, <1>e, StatusType, AnswerType DEF SharedWrite
  <2> QED
    BY <1>8, <2>1, <2>2, <2>3 DEF Remember, SharedWrite
<1>9. CASE LegacyWrite(p, r)
  <2>1. image' \in [LBA -> Data]
    BY <1>9, RecordsType, WrittenType DEF LegacyWrite
  <2>2. revision' \in 0 .. RevisionMod - 1
    BY <1>9, RevisionStep DEF LegacyWrite
  <2>3. committed_free' \in Nat
    BY <1>9, FreeSpaceType DEF LegacyWrite
  <2>4. reply' \in Reply
    BY <1>9, <1>e, AnswerType DEF LegacyWrite
  <2> QED
    BY <1>9, <2>1, <2>2, <2>3, <2>4 DEF LegacyWrite
<1> QED
  BY <1>1, <1>2, <1>3, <1>4, <1>5, <1>6, <1>7, <1>8, <1>9 DEF Handle

\* So does the release of a slot.
LEMMA ReleaseType ==
  ASSUME TypeOK, NEW p \in Peers, Release(p)
  PROVE  TypeOK'
<1> USE DEF TypeOK
<1>1. CASE locked = p
  BY <1>1, FinishType DEF Release
<1>2. CASE locked # p
  BY <1>2 DEF Release, diskState
<1> QED
  BY <1>1, <1>2

\* rntp_sessions_init establishes the types.
LEMMA InitType == Init => TypeOK
<1> SUFFICES ASSUME Init PROVE TypeOK
  OBVIOUS
<1>1. committed_free \in Nat
  BY FreeClustersType DEF Init
<1>2. reply \in Reply
  BY DEF Init, NoReply, Reply, Ops
<1>3. revision \in 0 .. RevisionMod - 1
  BY SizeAssumption DEF Init
<1> QED
  BY <1>1, <1>2, <1>3 DEF Init, TypeOK

\* Every field of RntpSessions keeps its type, whatever frames arrive in
\* whatever order: the undo bitmap never leaves the export and the revision
\* never leaves its 64 bits.
THEOREM TypeCorrect == Spec => []TypeOK
<1>1. Init => TypeOK
  BY InitType
<1>2. TypeOK /\ [Next]_vars => TypeOK'
  <2> SUFFICES ASSUME TypeOK, [Next]_vars PROVE TypeOK'
    OBVIOUS
  <2>1. CASE Next
    BY <2>1, HandleType, ReleaseType DEF Next
  <2>2. CASE UNCHANGED vars
    BY <2>2 DEF TypeOK, vars, state, diskState
  <2> QED
    BY <2>1, <2>2
<1> QED
  BY <1>1, <1>2, PTL DEF Spec

-----------------------------------------------------------------------------
(* The inductive invariant.  Exclusion says who may be inside a transaction; *)
(* UndoOwned ties the undo records to that peer, which is what makes the     *)
(* rollback of a lost connection exact; FreeIsCommitted then follows the     *)
(* committed image.                                                          *)

IInv == TypeOK /\ Exclusion /\ UndoOwned /\ FreeIsCommitted

\* Without undo records the committed image is the image.
LEMMA CleanIsCommitted ==
  ASSUME TypeOK, dirty = {}
  PROVE  Committed = image
<1>1. Committed = [s \in LBA |-> image[s]]
  BY DEF Committed, RolledBack
<1> QED
  BY <1>1 DEF TypeOK

\* A rollback restores the committed image and a commit publishes the image.
LEMMA FinishCommitted ==
  ASSUME TypeOK, UndoOwned, NEW commit \in BOOLEAN, Finish(commit)
  PROVE  /\ Committed' = image'
         /\ commit => image' = image
         /\ ~commit => image' = Committed
<1>1. image' \in [LBA -> Data] /\ dirty' = {}
  BY FinishType DEF Finish
<1>2. Committed' = [s \in LBA |-> image'[s]]
  BY <1>1 DEF Committed, RolledBack
<1>3. Committed' = image'
  BY <1>1, <1>2
<1>4. commit => image' = image
  BY DEF Finish
<1>5. ASSUME ~commit PROVE image' = Committed
  <2>1. CASE modified
    BY <1>5, <2>1 DEF Finish, Committed
  <2>2. CASE ~modified
    BY <1>5, <2>2, CleanIsCommitted DEF Finish, UndoOwned
  <2> QED
    BY <2>1, <2>2
<1> QED
  BY <1>3, <1>4, <1>5

\* A write inside a transaction leaves the committed image alone.
LEMMA SharedWriteCommitted ==
  ASSUME TypeOK, NEW p, NEW r \in Request, SharedWrite(p, r)
  PROVE  Committed' = Committed
<1> DEFINE touched == {Records(r)[i].lba : i \in DOMAIN Records(r)}
<1>1. undo' = [s \in LBA |-> IF s \in touched \ dirty THEN image[s] ELSE undo[s]]
  BY DEF Remember, SharedWrite
<1>2. dirty' = dirty \cup touched
  BY DEF Remember, SharedWrite
<1>3. \A s \in LBA : s \notin touched => image'[s] = image[s]
  BY WrittenElsewhere DEF SharedWrite
<1>4. ASSUME NEW s \in LBA
      PROVE  (IF s \in dirty' THEN undo'[s] ELSE image'[s])
              = (IF s \in dirty THEN undo[s] ELSE image[s])
  BY <1>1, <1>2, <1>3
<1> QED
  BY <1>4 DEF Committed, RolledBack

\* Steps that touch neither image, undo nor dirty leave the committed image.
LEMMA SameCommitted ==
  ASSUME image' = image, undo' = undo, dirty' = dirty
  PROVE  Committed' = Committed
  BY DEF Committed, RolledBack

\* No transaction is open while a legacy peer is attached.
LEMMA LegacyIsClean ==
  ASSUME IInv, NEW p \in Peers, peers[p] = "legacy"
  PROVE  locked = None /\ dirty = {}
<1> USE DEF IInv
<1>1. legacy = p /\ p # None
  BY PeersAssumption DEF Exclusion
<1>2. \A q \in Peers : peers[q] # "shared"
  BY <1>1 DEF Exclusion
<1>3. locked = None
  BY <1>2 DEF Exclusion, TypeOK
<1> QED
  BY <1>3 DEF UndoOwned

\* finish() leaves the free space figure of the committed image.
LEMMA FinishFree ==
  ASSUME IInv, NEW commit \in BOOLEAN, Finish(commit)
  PROVE  FreeIsCommitted'
<1> USE DEF IInv
<1>0. /\ Committed' = image'
      /\ commit => image' = image
      /\ ~commit => image' = Committed
  BY FinishCommitted
<1>1. CASE modified /\ commit
  BY <1>0, <1>1 DEF Finish, FreeIsCommitted, FreeSpace, FreeClusters
<1>2. CASE ~(modified /\ commit)
  <2>1. Committed' = Committed
    BY <1>0, <1>2, CleanIsCommitted DEF UndoOwned
  <2>2. committed_free' = committed_free
    BY <1>2 DEF Finish
  <2> QED
    BY <2>1, <2>2 DEF FreeIsCommitted, FreeClusters
<1> QED
  BY <1>1, <1>2

\* Every request preserves the inductive invariant, action by action.
LEMMA HandleInv ==
  ASSUME IInv, NEW p \in Peers, NEW r \in Requests, Handle(p, r)
  PROVE  IInv'
<1> USE DEF IInv
<1> r \in Request
  BY RequestsAssumption
<1>t. TypeOK'
  BY HandleType
<1>u. ASSUME UNCHANGED state PROVE IInv'
  <2>1. Exclusion' /\ UndoOwned'
    BY <1>u DEF state, diskState, Exclusion, UndoOwned
  <2>2. FreeIsCommitted'
    <3>1. Committed' = Committed /\ committed_free' = committed_free
      BY <1>u, SameCommitted DEF state, diskState
    <3> QED
      BY <3>1 DEF FreeIsCommitted, FreeClusters
  <2> QED
    BY <1>t, <2>1, <2>2
<1>1. CASE Refuse(p, r)
  BY <1>1, <1>u DEF Refuse
<1>2. CASE Hello(p, r)
  <2> HelloStatus(p, r) = "OK"
    BY <1>2 DEF Hello, Status
  <2>1. peers[p] = "none" /\ legacy = None
    BY DEF HelloStatus
  <2>2. r.op = "HELLO" => \A q \in Peers : peers[q] = "none"
    BY DEF HelloStatus
  <2>3. locked # p
    BY <2>1 DEF Exclusion, TypeOK
  <2>4. r.op = "HELLO" => locked = None
    BY <2>2 DEF Exclusion, TypeOK
  <2>5. Exclusion'
    <3>1. CASE r.op = "HELLO"
      BY <1>2, <2>2, <2>4, <3>1, PeersAssumption DEF Hello, Exclusion, TypeOK
    <3>2. CASE r.op = "HELLO_SHARED"
      BY <1>2, <2>1, <2>3, <3>2, PeersAssumption DEF Hello, Exclusion, TypeOK
    <3> QED
      BY <1>2, <3>1, <3>2 DEF Hello, HelloOps
  <2>6. UndoOwned'
    BY <1>2 DEF Hello, diskState, UndoOwned
  <2>7. FreeIsCommitted'
    <3>1. Committed' = Committed /\ committed_free' = committed_free
      BY <1>2, SameCommitted DEF Hello, diskState
    <3> QED
      BY <3>1 DEF FreeIsCommitted, FreeClusters
  <2> QED
    BY <1>t, <2>5, <2>6, <2>7
<1>3. CASE Probe(p, r)
  BY <1>3, <1>u DEF Probe
<1>4. CASE Stat(p, r)
  BY <1>4, <1>u DEF Stat
<1>5. CASE Lock(p, r)
  <2> LockStatus(p, r) = "OK"
    BY <1>5 DEF Lock, Status, HelloOps, LockOps
  <2>1. peers[p] = "shared" /\ locked = None
    BY <1>5 DEF LockStatus, Lock
  <2>2. Exclusion'
    BY <1>5, <2>1 DEF Lock, Exclusion
  <2>3. UndoOwned'
    BY <1>5, <2>1, PeersAssumption DEF Lock, diskState, UndoOwned
  <2>4. FreeIsCommitted'
    <3>1. Committed' = Committed /\ committed_free' = committed_free
      BY <1>5, SameCommitted DEF Lock, diskState
    <3> QED
      BY <3>1 DEF FreeIsCommitted, FreeClusters
  <2> QED
    BY <1>t, <2>2, <2>3, <2>4
<1>6. CASE Unlock(p, r)
  <2>1. Finish(r.op = "UNLOCK")
    BY <1>6 DEF Unlock
  <2>2. Exclusion'
    BY <1>6, <2>1 DEF Unlock, Finish, Exclusion
  <2>3. UndoOwned'
    BY <2>1 DEF Finish, UndoOwned
  <2>4. FreeIsCommitted'
    BY <2>1, FinishFree
  <2> QED
    BY <1>t, <2>2, <2>3, <2>4
<1>7. CASE Read(p, r)
  BY <1>7, <1>u DEF Read
<1>8. CASE SharedWrite(p, r)
  <2>1. Exclusion'
    BY <1>8 DEF SharedWrite, Exclusion
  <2>2. Records(r) # <<>> /\ Records(r) \in Seq(Record)
    <3>1. CASE r.op = "WRITE"
      BY <3>1, RecordsType DEF Records
    <3>2. CASE r.op = "WRITE_BATCH"
      <4>1. Len(r.writes) \in 1 .. MaxWrites
        BY <1>8, <3>2 DEF SharedWrite, SavesUndo, WriteChecked
      <4>2. Records(r) = r.writes
        BY <3>2 DEF Records
      <4> QED
        BY <4>1, <4>2, RecordsType
    <3> QED
      BY <1>8, <3>1, <3>2 DEF SharedWrite, SavesUndo, WriteOps
  <2>3. 1 \in DOMAIN Records(r)
    BY <2>2
  <2>4. UndoOwned'
    BY <1>8, <2>3, PeersAssumption DEF Remember, SharedWrite, SavesUndo, WriteChecked, UndoOwned
  <2>5. FreeIsCommitted'
    <3>1. Committed' = Committed /\ committed_free' = committed_free
      BY <1>8, SharedWriteCommitted DEF SharedWrite
    <3> QED
      BY <3>1 DEF FreeIsCommitted, FreeClusters
  <2> QED
    BY <1>t, <2>1, <2>4, <2>5
<1>9. CASE LegacyWrite(p, r)
  <2>1. Exclusion'
    BY <1>9 DEF LegacyWrite, Exclusion
  <2>2. locked = None /\ dirty = {}
    BY <1>9, LegacyIsClean DEF LegacyWrite
  <2>3. UndoOwned'
    BY <1>9 DEF LegacyWrite, UndoOwned
  <2>4. Committed' = image'
    <3>1. dirty' = {} /\ image' \in [LBA -> Data]
      BY <1>9, <1>t, <2>2 DEF LegacyWrite, TypeOK
    <3>2. Committed' = [s \in LBA |-> image'[s]]
      BY <3>1 DEF Committed, RolledBack
    <3> QED
      BY <3>1, <3>2
  <2>5. FreeIsCommitted'
    BY <1>9, <2>4 DEF LegacyWrite, FreeIsCommitted, FreeSpace, FreeClusters
  <2> QED
    BY <1>t, <2>1, <2>3, <2>5
<1> QED
  BY <1>1, <1>2, <1>3, <1>4, <1>5, <1>6, <1>7, <1>8, <1>9 DEF Handle

\* So does the release of a slot, inside or outside a transaction.
LEMMA ReleaseInv ==
  ASSUME IInv, NEW p \in Peers, Release(p)
  PROVE  IInv'
<1> USE DEF IInv
<1>t. TypeOK'
  BY ReleaseType
<1>1. Exclusion'
  <2>1. CASE locked = p
    BY <2>1, PeersAssumption DEF Release, Finish, Exclusion, TypeOK
  <2>2. CASE locked # p
    BY <2>2, PeersAssumption DEF Release, Exclusion, TypeOK
  <2> QED
    BY <2>1, <2>2
<1>2. UndoOwned'
  BY DEF Release, Finish, diskState, UndoOwned
<1>3. FreeIsCommitted'
  <2>1. CASE locked = p
    <3>1. Finish(FALSE)
      BY <2>1 DEF Release
    <3> QED
      BY <3>1, FinishFree
  <2>2. CASE locked # p
    <3>1. Committed' = Committed /\ committed_free' = committed_free
      BY <2>2, SameCommitted DEF Release, diskState
    <3> QED
      BY <3>1 DEF FreeIsCommitted, FreeClusters
  <2> QED
    BY <2>1, <2>2
<1> QED
  BY <1>t, <1>1, <1>2, <1>3

\* The server starts with no transaction and nobody attached.
LEMMA InitInv == Init => IInv
<1> SUFFICES ASSUME Init PROVE IInv
  OBVIOUS
<1>1. TypeOK
  BY InitType
<1>2. Exclusion
  BY PeersAssumption DEF Init, Exclusion
<1>3. UndoOwned
  BY DEF Init, UndoOwned
<1>4. FreeIsCommitted
  BY <1>1, CleanIsCommitted DEF Init, FreeIsCommitted
<1> QED
  BY <1>1, <1>2, <1>3, <1>4 DEF IInv

\* Every step preserves the inductive invariant.
LEMMA NextInv == IInv /\ [Next]_vars => IInv'
<1> SUFFICES ASSUME IInv, [Next]_vars PROVE IInv'
  OBVIOUS
<1>1. CASE Next
  BY <1>1, HandleInv, ReleaseInv DEF Next
<1>2. CASE UNCHANGED vars
  BY <1>2 DEF vars, state, diskState, IInv, TypeOK, Exclusion, UndoOwned,
              FreeIsCommitted, FreeClusters, Committed, RolledBack
<1> QED
  BY <1>1, <1>2

\* The exclusion of the two protocols, the ownership of the undo records and
\* the published free space hold in every reachable state, whatever order the
\* frames, disconnects and slot reuses of any number of peers come in.
THEOREM SessionsSafe == Spec => [](Exclusion /\ UndoOwned /\ FreeIsCommitted)
<1>1. Init => IInv
  BY InitInv
<1>2. IInv /\ [Next]_vars => IInv'
  BY NextInv
<1>3. IInv => Exclusion /\ UndoOwned /\ FreeIsCommitted
  BY DEF IInv
<1> QED
  BY <1>1, <1>2, <1>3, PTL DEF Spec

-----------------------------------------------------------------------------
(* The sessions implement the transactional disk.                           *)

\* Every accepted or refused request is a step of the disk or none.
LEMMA HandleRefines ==
  ASSUME IInv, NEW p \in Peers, NEW r \in Requests, Handle(p, r)
  PROVE  Disk!Next \/ UNCHANGED Disk!diskVars
<1> USE DEF IInv
<1> r \in Request
  BY RequestsAssumption
<1>t. TypeOK'
  BY HandleType
<1>u. ASSUME UNCHANGED state PROVE UNCHANGED Disk!diskVars
  BY <1>u, SameCommitted DEF state, diskState, Disk!diskVars
<1>1. CASE Refuse(p, r)
  BY <1>1, <1>u DEF Refuse
<1>2. CASE Hello(p, r)
  <2> HelloStatus(p, r) = "OK"
    BY <1>2 DEF Hello, Status
  <2>1. peers[p] = "none" /\ legacy = None
    BY DEF HelloStatus
  <2>2. r.op = "HELLO" => \A q \in Peers : peers[q] = "none"
    BY DEF HelloStatus
  <2>3. \A q \in Peers : peers[q] # "none" => peers[q] = "shared"
    BY <2>1, PeersAssumption DEF Exclusion, TypeOK
  <2>4. Committed' = Committed /\ image' = image /\ locked' = locked
    BY <1>2, SameCommitted DEF Hello, diskState
  <2> DEFINE mode == IF r.op = "HELLO_SHARED" THEN "shared" ELSE "legacy"
  <2>5. peers' = [peers EXCEPT ![p] = mode] /\ mode \in {"legacy", "shared"}
    BY <1>2 DEF Hello
  <2>6. \A q \in Peers : peers[q] # "none" => mode = "shared" /\ peers[q] = "shared"
    BY <1>2, <2>2, <2>3 DEF Hello, HelloOps
  <2>7. Disk!Attach(p)
    BY <2>1, <2>4, <2>5, <2>6 DEF Disk!Attach
  <2> QED
    BY <2>7 DEF Disk!Next
<1>3. CASE Probe(p, r)
  BY <1>3, <1>u DEF Probe
<1>4. CASE Stat(p, r)
  BY <1>4, <1>u DEF Stat
<1>5. CASE Lock(p, r)
  <2> LockStatus(p, r) = "OK"
    BY <1>5 DEF Lock, Status, HelloOps, LockOps
  <2>1. peers[p] = "shared" /\ locked = None
    BY <1>5 DEF LockStatus, Lock
  <2>2. Committed' = Committed
    BY <1>5, SameCommitted DEF Lock, diskState
  <2>3. Disk!Begin(p)
    BY <1>5, <2>1, <2>2 DEF Lock, diskState, Disk!Begin, Disk!Idle
  <2> QED
    BY <2>3 DEF Disk!Next
<1>6. CASE Unlock(p, r)
  <2> LockStatus(p, r) = "OK"
    BY <1>6 DEF Unlock, Status, HelloOps, LockOps
  <2>1. locked = p
    BY <1>6 DEF LockStatus, Unlock
  <2>2. Finish(r.op = "UNLOCK")
    BY <1>6 DEF Unlock
  <2>3. /\ Committed' = image'
        /\ r.op = "UNLOCK" => image' = image
        /\ r.op # "UNLOCK" => image' = Committed
    BY <2>2, FinishCommitted
  <2>4. locked' = None /\ peers' = peers
    BY <1>6, <2>2 DEF Finish, Unlock
  <2>5. CASE r.op = "UNLOCK"
    BY <2>1, <2>3, <2>4, <2>5 DEF Disk!Publish, Disk!Next
  <2>6. CASE r.op # "UNLOCK"
    BY <2>1, <2>3, <2>4, <2>6 DEF Disk!Discard, Disk!Next
  <2> QED
    BY <2>5, <2>6
<1>7. CASE Read(p, r)
  BY <1>7, <1>u DEF Read
<1>8. CASE SharedWrite(p, r)
  <2>1. Committed' = Committed
    BY <1>8, SharedWriteCommitted
  <2>2. \A i \in DOMAIN Records(r) : Records(r)[i].lba # 0
    BY <1>8 DEF SharedWrite, SavesUndo, WriteChecked
  <2>3. image'[0] = image[0]
    BY <1>8, <2>2, BootIsSector, WrittenElsewhere DEF SharedWrite
  <2>4. Disk!Edit(p)
    BY <1>8, <1>t, <2>1, <2>3 DEF SharedWrite, SavesUndo, TypeOK, Disk!Edit
  <2> QED
    BY <2>4 DEF Disk!Next
<1>9. CASE LegacyWrite(p, r)
  <2>1. dirty' = {} /\ image' \in [LBA -> Data]
    BY <1>9, <1>t, LegacyIsClean DEF LegacyWrite, TypeOK
  <2>2. Committed' = [s \in LBA |-> image'[s]]
    BY <2>1 DEF Committed, RolledBack
  <2>3. Committed' = image'
    BY <2>1, <2>2
  <2>4. Disk!WriteThrough(p)
    BY <1>9, <2>1, <2>3 DEF LegacyWrite, Disk!WriteThrough
  <2> QED
    BY <2>4 DEF Disk!Next
<1> QED
  BY <1>1, <1>2, <1>3, <1>4, <1>5, <1>6, <1>7, <1>8, <1>9 DEF Handle

\* The release of a slot discards the transaction of that slot, and no other.
LEMMA ReleaseRefines ==
  ASSUME IInv, NEW p \in Peers, Release(p)
  PROVE  Disk!Next
<1> USE DEF IInv
<1>1. CASE locked = p
  <2>1. Finish(FALSE)
    BY <1>1 DEF Release
  <2>2. Committed' = image' /\ image' = Committed
    BY <2>1, FinishCommitted
  <2>3. Disk!Discard(p)
    BY <1>1, <2>1, <2>2 DEF Release, Finish, Disk!Discard
  <2> QED
    BY <2>3 DEF Disk!Next
<1>2. CASE locked # p
  <2>1. Committed' = Committed
    BY <1>2, SameCommitted DEF Release, diskState
  <2>2. Disk!Detach(p)
    BY <1>2, <2>1 DEF Release, diskState, Disk!Detach
  <2> QED
    BY <2>2 DEF Disk!Next
<1> QED
  BY <1>1, <1>2

\* The sessions implement the transactional disk of RntpDisk: a transaction is
\* published whole by UNLOCK or leaves no trace, however its connection ends.
THEOREM SessionsImplementDisk == Spec => ImplementsDisk
<1>1. Init => Disk!Init
  <2> SUFFICES ASSUME Init PROVE Disk!Init
    OBVIOUS
  <2>1. Committed = image
    BY InitType, CleanIsCommitted DEF Init
  <2> QED
    BY <2>1 DEF Init, Disk!Init
<1>2. IInv /\ [Next]_vars => [Disk!Next]_(Disk!diskVars)
  <2> SUFFICES ASSUME IInv, [Next]_vars
               PROVE  Disk!Next \/ UNCHANGED Disk!diskVars
    OBVIOUS
  <2>1. CASE Next
    BY <2>1, HandleRefines, ReleaseRefines DEF Next
  <2>2. CASE UNCHANGED vars
    BY <2>2, SameCommitted DEF vars, state, diskState, Disk!diskVars
  <2> QED
    BY <2>1, <2>2
<1>3. Init => IInv
  BY InitInv
<1>4. IInv /\ [Next]_vars => IInv'
  BY NextInv
<1> QED
  BY <1>1, <1>2, <1>3, <1>4, PTL DEF Spec, ImplementsDisk, Disk!Spec

-----------------------------------------------------------------------------
(* What a step may never do.                                                *)

\* The checks of sessions.c are at least as strict as those of rntp_handle, so
\* a write whose sectors were saved is never refused afterwards.
LEMMA CheckedIsAccepted ==
  ASSUME NEW p, NEW r \in Request, SavesUndo(p, r)
  PROVE  HandleStatus(r) = "OK"
<1>1. WriteChecked(r) /\ r.op \in WriteOps
  BY DEF SavesUndo
<1>2. CASE r.op = "WRITE"
  <2>1. Records(r)[1].lba = r.lba /\ 1 \in DOMAIN Records(r)
    BY <1>2 DEF Records
  <2>2. r.lba \in LBA /\ r.fits
    BY <1>1, <2>1 DEF WriteChecked
  <2>3. r.lba < Sectors
    BY <2>2, SizeAssumption DEF LBA
  <2> QED
    BY <1>2, <2>2, <2>3 DEF HandleStatus
<1>3. CASE r.op = "WRITE_BATCH"
  <2>1. Records(r) = r.writes
    BY <1>3 DEF Records
  <2>2. \A i \in DOMAIN r.writes : r.writes[i].lba \in LBA
    BY <1>1, <2>1 DEF WriteChecked
  <2>3. \A i \in DOMAIN r.writes : r.writes[i].lba < Sectors
    BY <2>2, SizeAssumption DEF LBA
  <2>4. Blank(r) /\ Len(r.writes) \in 1 .. MaxWrites
    BY <1>1, <1>3 DEF WriteChecked, Blank
  <2> QED
    BY <1>3, <2>3, <2>4 DEF HandleStatus
<1> QED
  BY <1>1, <1>2, <1>3 DEF WriteOps

\* A refused request leaves no trace, undo records included.
THEOREM RefusalHarmless == Spec => RefusalLeavesNoTrace
<1>1. [Next]_vars => [reply' # reply /\ reply'.status # "OK" => UNCHANGED state]_vars
  <2> SUFFICES ASSUME Next, reply' # reply, reply'.status # "OK"
               PROVE  UNCHANGED state
    OBVIOUS
  <2>1. PICK p \in Peers : Release(p) \/ \E r \in Requests : Handle(p, r)
    BY DEF Next
  <2>2. ~Release(p)
    BY DEF Release
  <2>3. PICK r \in Requests : Handle(p, r)
    BY <2>1, <2>2
  <2>4. CASE Refuse(p, r)
    BY <2>4 DEF Refuse
  <2>5. CASE SharedWrite(p, r)
    <3>1. HandleStatus(r) = "OK"
      BY <2>5, RequestsAssumption, CheckedIsAccepted DEF SharedWrite
    <3> QED
      BY <2>5, <3>1 DEF SharedWrite, Answer
  <2> QED
    BY <2>3, <2>4, <2>5
       DEF Handle, Hello, Probe, Stat, Lock, Unlock, Read, LegacyWrite, Answer
<1> QED
  BY <1>1, PTL DEF Spec, RefusalLeavesNoTrace

\* The committed image never changes under an unchanged revision: a client that
\* compares revisions cannot keep a stale cache across one step.
THEOREM RevisionTracks == Spec => RevisionTracksDisk
<1>1. IInv /\ [Next]_vars => [Committed' # Committed => revision' # revision]_vars
  <2> SUFFICES ASSUME IInv, Next, Committed' # Committed
               PROVE  revision' # revision
    OBVIOUS
  <2> USE DEF IInv
  <2>0. PICK p \in Peers : Release(p) \/ \E r \in Requests : Handle(p, r)
    BY DEF Next
  <2>1. ~Release(p)
    <3> SUFFICES ASSUME Release(p) PROVE FALSE
      OBVIOUS
    <3>1. CASE locked = p
      <4>1. Finish(FALSE)
        BY <3>1 DEF Release
      <4> QED
        BY <4>1, FinishCommitted
    <3>2. CASE locked # p
      BY <3>2, SameCommitted DEF Release, diskState
    <3> QED
      BY <3>1, <3>2
  <2>2. PICK r \in Requests : Handle(p, r)
    BY <2>0, <2>1
  <2>3. CASE Unlock(p, r)
    <3>1. Finish(r.op = "UNLOCK")
      BY <2>3 DEF Unlock
    <3>2. /\ Committed' = image'
          /\ r.op = "UNLOCK" => image' = image
          /\ r.op # "UNLOCK" => image' = Committed
      BY <3>1, FinishCommitted
    <3>3. r.op = "UNLOCK" /\ modified
      BY <3>2, CleanIsCommitted DEF UndoOwned
    <3>4. revision' = NextRevision
      BY <3>1, <3>3 DEF Finish
    <3> QED
      BY <3>4, RevisionStep DEF TypeOK
  <2>4. CASE LegacyWrite(p, r)
    BY <2>4, RevisionStep DEF LegacyWrite, TypeOK
  <2>5. CASE SharedWrite(p, r)
    BY <2>5, SharedWriteCommitted, RequestsAssumption
  <2>6. CASE Refuse(p, r) \/ Probe(p, r) \/ Stat(p, r) \/ Read(p, r)
    BY <2>6, SameCommitted DEF Refuse, Probe, Stat, Read, state, diskState
  <2>7. CASE Hello(p, r) \/ Lock(p, r)
    BY <2>7, SameCommitted DEF Hello, Lock, diskState
  <2> QED
    BY <2>2, <2>3, <2>4, <2>5, <2>6, <2>7 DEF Handle
<1> QED
  BY <1>1, InitInv, NextInv, PTL DEF Spec, RevisionTracksDisk

\* No step changes sector 0 under a shared peer that stays attached.
THEOREM GeometryKept == Spec => GeometryStable
<1> DEFINE Kept == (\E p \in Peers : peers[p] = "shared" /\ peers'[p] = "shared")
                     => image'[0] = image[0]
<1>1. IInv /\ [Next]_vars => [Kept]_vars
  <2> SUFFICES ASSUME IInv, Next, NEW q \in Peers, peers[q] = "shared"
               PROVE  image'[0] = image[0]
    OBVIOUS
  <2> USE DEF IInv
  <2>0. Committed[0] = image[0]
    BY BootIsSector DEF UndoOwned, Committed, RolledBack
  <2>1. PICK p \in Peers : Release(p) \/ \E r \in Requests : Handle(p, r)
    BY DEF Next
  <2>2. CASE Release(p)
    <3>1. CASE locked = p
      <4>1. Finish(FALSE)
        BY <2>2, <3>1 DEF Release
      <4> QED
        BY <2>0, <4>1, FinishCommitted
    <3>2. CASE locked # p
      BY <2>2, <3>2 DEF Release, diskState
    <3> QED
      BY <3>1, <3>2
  <2>3. CASE \E r \in Requests : Handle(p, r)
    <3>1. PICK r \in Requests : Handle(p, r)
      BY <2>3
    <3>2. CASE Unlock(p, r)
      <4>1. Finish(r.op = "UNLOCK")
        BY <3>2 DEF Unlock
      <4> QED
        BY <2>0, <4>1, FinishCommitted
    <3>3. CASE SharedWrite(p, r)
      <4>1. \A i \in DOMAIN Records(r) : Records(r)[i].lba # 0
        BY <3>3 DEF SharedWrite, SavesUndo, WriteChecked
      <4> QED
        BY <3>3, <4>1, BootIsSector, WrittenElsewhere DEF SharedWrite
    <3>4. ~LegacyWrite(p, r)
      <4>1. legacy = None
        BY DEF Exclusion, TypeOK
      <4> QED
        BY <4>1, PeersAssumption DEF LegacyWrite, Exclusion
    <3>5. CASE Refuse(p, r) \/ Probe(p, r) \/ Stat(p, r) \/ Read(p, r)
      BY <3>5 DEF Refuse, Probe, Stat, Read, state, diskState
    <3>6. CASE Hello(p, r) \/ Lock(p, r)
      BY <3>6 DEF Hello, Lock, diskState
    <3> QED
      BY <3>1, <3>2, <3>3, <3>4, <3>5, <3>6 DEF Handle
  <2> QED
    BY <2>1, <2>2, <2>3
<1> QED
  BY <1>1, InitInv, NextInv, PTL DEF Spec, GeometryStable

-----------------------------------------------------------------------------
(* What a frame does, as the clients' proofs need it.                        *)

\* The lock and the exclusive claim are never in two hands.
LEMMA OneOwner ==
  ASSUME Exclusion, NEW p \in Peers, locked = p \/ legacy = p, NEW q \in Peers, q # p
  PROVE  legacy # q /\ locked # q
<1>1. p # None /\ q # None
  BY PeersAssumption
<1>2. legacy = q => peers[p] = "none" /\ locked = p
  BY <1>1 DEF Exclusion
<1>3. locked = p => peers[p] = "shared"
  BY <1>1 DEF Exclusion
<1>4. locked = q => peers[q] = "shared" /\ legacy = p
  BY <1>1 DEF Exclusion
<1>5. legacy = p => peers[q] = "none"
  BY <1>1 DEF Exclusion
<1> QED
  BY <1>2, <1>3, <1>4, <1>5

\* While a slot holds the lock or the exclusive claim, no frame of another slot
\* touches the disk, the lock or the claim.
LEMMA Undisturbed ==
  ASSUME IInv, NEW p \in Peers, locked = p \/ legacy = p,
         NEW q \in Peers, q # p, NEW r \in Request, Handle(q, r)
  PROVE  UNCHANGED <<image, locked, legacy>> /\ Committed' = Committed
<1>0. Exclusion /\ UndoOwned /\ TypeOK /\ p # None
  BY PeersAssumption DEF IInv
<1>1. legacy # q /\ locked # q
  BY <1>0, OneOwner
<1>2. legacy = p => peers[q] = "none"
  BY <1>0 DEF Exclusion
<1>3. locked = p => locked # None
  BY <1>0
<1>4. ASSUME UNCHANGED <<image, undo, dirty, locked, legacy>>
      PROVE  UNCHANGED <<image, locked, legacy>> /\ Committed' = Committed
  BY <1>4, SameCommitted
<1>5. CASE Refuse(q, r) \/ Probe(q, r) \/ Stat(q, r) \/ Read(q, r)
  BY <1>4, <1>5 DEF Refuse, Probe, Stat, Read, state, diskState
<1>6. CASE Hello(q, r)
  <2>1. HelloStatus(q, r) = "OK"
    BY <1>6 DEF Hello, Status
  <2>2. r.op = "HELLO" => \A x \in Peers : peers[x] = "none"
    BY <2>1 DEF HelloStatus
  <2>3. legacy = None
    BY <2>1 DEF HelloStatus
  <2>4. locked = p /\ peers[p] = "shared"
    BY <1>0, <2>3 DEF Exclusion
  <2>5. r.op # "HELLO"
    BY <2>2, <2>4
  <2> QED
    BY <1>4, <1>6, <2>5 DEF Hello, diskState
<1>7. CASE Lock(q, r) \/ Unlock(q, r)
  <2>1. LockStatus(q, r) = "OK" /\ r.op \in LockOps
    BY <1>7 DEF Lock, Unlock, Status, LockOps, HelloOps
  <2>2. peers[q] = "shared" /\ (locked = None \/ locked = q)
    BY <2>1 DEF LockStatus
  <2> QED
    BY <1>0, <1>1, <1>2, <2>2
<1>8. CASE SharedWrite(q, r)
  BY <1>1, <1>8 DEF SharedWrite, SavesUndo
<1>9. CASE LegacyWrite(q, r)
  BY <1>0, <1>1, <1>9 DEF LegacyWrite, Exclusion
<1> QED
  BY <1>5, <1>6, <1>7, <1>8, <1>9 DEF Handle

\* Nor does the release of another slot.
LEMMA UndisturbedRelease ==
  ASSUME IInv, NEW p \in Peers, locked = p \/ legacy = p,
         NEW q \in Peers, q # p, Release(q)
  PROVE  UNCHANGED <<image, locked, legacy>> /\ Committed' = Committed
<1>0. Exclusion /\ p # None
  BY PeersAssumption DEF IInv
<1>1. legacy # q /\ locked # q
  BY <1>0, OneOwner
<1>2. UNCHANGED <<image, undo, dirty, locked, legacy>>
  BY <1>1 DEF Release, diskState
<1> QED
  BY <1>2, SameCommitted

\* What a frame does for the slot it came from.
LEMMA OwnFrame ==
  ASSUME IInv, NEW p \in Peers, NEW r \in Request, Handle(p, r)
  PROVE  /\ legacy = p => legacy' = p
         /\ locked = p /\ r.op \notin {"UNLOCK", "ABORT"} => locked' = p
         /\ r.op \notin WriteOps \cup {"UNLOCK", "ABORT"} => image' = image
<1>0. Exclusion
  BY DEF IInv
<1>1. CASE Refuse(p, r) \/ Probe(p, r) \/ Stat(p, r) \/ Read(p, r)
  BY <1>1 DEF Refuse, Probe, Stat, Read, state, diskState
<1>2. CASE Hello(p, r)
  BY <1>2 DEF Hello, diskState
<1>3. CASE Lock(p, r)
  BY <1>3 DEF Lock, diskState
<1>4. CASE Unlock(p, r)
  BY <1>4 DEF Unlock
<1>5. CASE SharedWrite(p, r)
  BY <1>5 DEF SharedWrite, SavesUndo
<1>6. CASE LegacyWrite(p, r)
  BY <1>6 DEF LegacyWrite
<1> QED
  BY <1>1, <1>2, <1>3, <1>4, <1>5, <1>6 DEF Handle

\* What a frame has done when it is answered with success.
LEMMA OwnSuccess ==
  ASSUME IInv, NEW p \in Peers, NEW r \in Request, Handle(p, r), reply'.status = "OK"
  PROVE  /\ r.op = "LOCK" => locked' = p /\ image' = image /\ Committed' = image
         /\ r.op = "HELLO" => legacy' = p /\ image' = image /\ Committed' = image
         /\ r.op = "UNLOCK" => Committed' = image
         /\ r.op \in WriteOps => /\ image' = Written(image, Records(r))
                                 /\ legacy = p => Committed' = image'
         /\ r.op = "READ_BATCH" =>
              /\ reply'.sectors = [i \in 1 .. r.count |-> image[r.lba + i - 1]]
              /\ \A i \in 1 .. r.count : r.lba + i - 1 \in LBA
<1>0. Exclusion /\ UndoOwned /\ TypeOK
  BY DEF IInv
<1> USE DEF Answer
<1>1. CASE Refuse(p, r)
  BY <1>1 DEF Refuse
<1>2. CASE Probe(p, r) \/ Stat(p, r)
  BY <1>2 DEF Probe, Stat, WriteOps
<1>3. CASE Hello(p, r)
  <2>1. ASSUME r.op = "HELLO" PROVE legacy' = p /\ image' = image /\ Committed' = image
    <3>1. \A q \in Peers : peers[q] = "none"
      BY <1>3, <2>1 DEF Hello, Status, HelloStatus
    <3>2. locked = None
      BY <1>0, <3>1 DEF TypeOK, Exclusion
    <3>3. dirty = {}
      BY <1>0, <3>2 DEF UndoOwned
    <3>4. UNCHANGED <<image, undo, dirty>> /\ legacy' = p
      BY <1>3, <2>1 DEF Hello, diskState
    <3> QED
      BY <1>0, <3>3, <3>4, CleanIsCommitted, SameCommitted
  <2> QED
    BY <1>3, <2>1 DEF Hello, HelloOps, WriteOps
<1>4. CASE Lock(p, r)
  <2>1. LockStatus(p, r) = "OK" /\ r.op = "LOCK"
    BY <1>4 DEF Lock, Status, LockOps, HelloOps
  <2>2. locked = None
    BY <2>1 DEF LockStatus
  <2>3. dirty = {}
    BY <1>0, <2>2 DEF UndoOwned
  <2>4. UNCHANGED <<image, undo, dirty>> /\ locked' = p
    BY <1>4 DEF Lock, diskState
  <2> QED
    BY <1>0, <2>1, <2>3, <2>4, CleanIsCommitted, SameCommitted DEF WriteOps
<1>5. CASE Unlock(p, r)
  <2>1. r.op = "UNLOCK" => Committed' = image
    BY <1>0, <1>5, FinishCommitted DEF Unlock
  <2> QED
    BY <1>5, <2>1 DEF Unlock, WriteOps
<1>6. CASE Read(p, r)
  <2>1. r.op \in {"READ", "READ_BATCH"}
    BY <1>6 DEF Read
  <2>2. ASSUME r.op = "READ_BATCH"
        PROVE  /\ reply'.sectors = [i \in 1 .. r.count |-> image[r.lba + i - 1]]
               /\ \A i \in 1 .. r.count : r.lba + i - 1 \in LBA
    <3>1. HandleStatus(r) = "OK"
      BY <1>6, <2>2 DEF Read, Status, BlockStatus, HelloOps, LockOps
    <3>2. r.lba \in Nat /\ r.count \in Nat
      BY DEF Request
    <3>3. r.lba < Sectors /\ r.count <= Sectors - r.lba
      BY <2>2, <3>1 DEF HandleStatus
    <3> QED
      BY SMTT(60), <1>6, <2>2, <3>2, <3>3, SizeAssumption DEF Read, LBA
  <2> QED
    BY <2>1, <2>2 DEF WriteOps
<1>7. CASE SharedWrite(p, r)
  <2>1. HandleStatus(r) = "OK" /\ r.op \in WriteOps
    BY <1>7, CheckedIsAccepted DEF SharedWrite, SavesUndo
  <2>2. image' = Written(image, Records(r))
    BY <1>7, <2>1 DEF SharedWrite
  <2>3. legacy # p
    BY <1>0, <1>7 DEF SharedWrite, SavesUndo, Exclusion
  <2> QED
    BY <2>1, <2>2, <2>3 DEF WriteOps
<1>8. CASE LegacyWrite(p, r)
  <2>1. image' = Written(image, Records(r)) /\ UNCHANGED <<undo, dirty>> /\ r.op \in WriteOps
    BY <1>8 DEF LegacyWrite
  <2>2. dirty = {}
    BY <1>8, LegacyIsClean DEF LegacyWrite
  <2>3. image' \in [LBA -> Data]
    BY <1>0, <2>1, RecordsType, WrittenType DEF TypeOK
  <2>4. Committed' = [s \in LBA |-> image'[s]]
    BY <2>1, <2>2 DEF Committed, RolledBack
  <2> QED
    BY <2>1, <2>3, <2>4 DEF WriteOps
<1> QED
  BY <1>1, <1>2, <1>3, <1>4, <1>5, <1>6, <1>7, <1>8 DEF Handle

=============================================================================
