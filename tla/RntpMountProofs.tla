-------------------------- MODULE RntpMountProofs ---------------------------
(***************************************************************************)
(* Proofs about mounts that share one RNTP server, for every number of      *)
(* machines, slots and sectors, every cache and buffer size and every       *)
(* number of mounts and operations.                                         *)
(***************************************************************************)
EXTENDS RntpMount, TLAPS

\* The proofs about the sessions, for a server that may be sent any frame.
Proved == INSTANCE RntpSessionsProofs WITH Requests <- Server!Request

-----------------------------------------------------------------------------
(* The inductive invariant of the transactions.                             *)

States == Waiting \cup {"off", "dead", "idle", "retry", "run", "old"}
Record == [lba : LBA \ {0}, data : Data]
Todo   == [kind : {"none", "read", "write", "unlock"}, lba : LBA, data : Data \cup {Nil}]
Letter == [frame : Server!Reply, disk : [LBA -> Data]]

Types ==
    /\ peerOf \in [Peers -> Clients \cup {None}]
    /\ inbound \in [Peers -> Seq(Server!Request)]
    /\ fd \in [Clients -> Peers \cup {None}]
    /\ pc \in [Clients -> States]
    /\ held \in [Clients -> BOOLEAN]
    /\ rev \in [Clients -> Nat]
    /\ cache \in [Clients -> [LBA -> Data \cup {Nil}]]
    /\ writes \in [Clients -> Seq(Record)]
    /\ todo \in [Clients -> Todo]
    /\ inbox \in [Clients -> Seq(Letter)]
    /\ base \in [Clients -> [LBA -> Data]]
    /\ view \in [Clients -> [LBA -> Data]]
    /\ outcome \in [Clients -> {"none", "open", "dropped", "committed"}]

ServerOK ==
    /\ Server!TypeOK
    /\ Server!Exclusion
    /\ Server!UndoOwned
    /\ Server!FreeIsCommitted

\* The mount has been told that the server did what it asked.
Granted(c) == inbox[c] # <<>> /\ Answer(c).status = "OK"

\* The operation of the frame a mount is waiting for an answer to.
AskedOp(state) ==
    CASE state = "hello"    -> "HELLO_SHARED"
      [] state = "caps"     -> "CAPS"
      [] state = "ping"     -> "PING"
      [] state = "lock"     -> "LOCK"
      [] state = "flush"    -> "WRITE_BATCH"
      [] state = "fetch"    -> "READ_BATCH"
      [] state = "stat"     -> "STAT"
      [] state = "unlock"   -> "UNLOCK"
      [] state = "abort"    -> "ABORT"
      [] state = "oldhello" -> "HELLO"
      [] OTHER              -> "WRITE"

AtMostOne(queue) == queue # <<>> => Tail(queue) = <<>>

\* One request at a time: while a mount waits, its frame is on the way to the
\* server or the answer on the way back, and never both.
OneRequest(c) ==
    /\ AtMostOne(inbox[c])
    /\ pc[c] \notin Waiting => inbox[c] = <<>>
    /\ Connected(c) =>
        \/ pc[c] \in Waiting /\ inbox[c] # <<>> /\ inbound[fd[c]] = <<>>
        \/ pc[c] \notin Waiting /\ inbound[fd[c]] = <<>>
        \/ /\ pc[c] \in Waiting
           /\ inbox[c] = <<>>
           /\ inbound[fd[c]] # <<>> /\ AtMostOne(inbound[fd[c]])
           /\ Head(inbound[fd[c]]).op = AskedOp(pc[c])
           /\ pc[c] = "flush" => Head(inbound[fd[c]]).writes = writes[c]
           /\ pc[c] = "fetch" => Head(inbound[fd[c]]).lba = todo[c].lba

\* What a mount keeps in which state.
Kept(c) ==
    /\ held[c] <=> pc[c] \in {"run", "stat", "flush", "fetch", "unlock", "abort"}
    /\ pc[c] \notin {"run", "stat", "flush"} => writes[c] = <<>>
    /\ pc[c] \in {"off", "dead"} => fd[c] = None
    /\ todo[c].kind = "write" => todo[c].lba # 0 /\ todo[c].data \in Data
    /\ \A i, j \in DOMAIN writes[c] : writes[c][i].lba = writes[c][j].lba => i = j
    /\ \A i \in DOMAIN writes[c] : writes[c][i].data = view[c][writes[c][i].lba]

\* The server's draft lacks nothing but what the mount still buffers.
Ahead(c) == \A s \in LBA : Buffered(c, s) = {} => image[s] = view[c][s]

\* A mount that is inside an operation, and whose connection the server has not
\* given up, holds the lock of a disk that is still the one it started from.
InsideLock(c) ==
    Connected(c) =>
        /\ pc[c] = "lock" /\ Granted(c) =>
             locked = fd[c] /\ dirty = {} /\ image = Head(inbox[c]).disk
        /\ pc[c] \in {"run", "stat", "flush", "fetch"} =>
             locked = fd[c] /\ Committed = base[c] /\ Ahead(c)
        /\ pc[c] = "flush" /\ Granted(c) => image = view[c]
        /\ pc[c] = "unlock" /\ Granted(c) => locked # fd[c]

\* What has been fetched is the operation's view of the disk, connection or not.
Fetched(c) ==
    pc[c] = "fetch" /\ Granted(c) =>
        \A i \in DOMAIN Answer(c).sectors : Answer(c).sectors[i] = view[c][todo[c].lba + i - 1]

\* What the mount is told about its commit.
Told(c) ==
    /\ pc[c] \in {"run", "flush", "fetch", "stat", "abort"} => outcome[c] # "committed"
    /\ pc[c] = "unlock" /\ Granted(c) => outcome[c] = "committed"

\* An UNLOCK that is under way on the slot that holds the lock commits what its
\* mount saw and wrote, even when that mount has given up waiting: it cannot have
\* begun anything else.
Sealed(p) ==
    peerOf[p] # None /\ locked = p /\ inbound[p] # <<>> /\ Head(inbound[p]).op = "UNLOCK" =>
        LET c == peerOf[p]
        IN  /\ base[c] = Committed
            /\ view[c] = image
            /\ fd[c] # p => ~held[c] /\ ~(pc[c] = "lock" /\ Granted(c))

Mount(c) == OneRequest(c) /\ Kept(c) /\ InsideLock(c) /\ Fetched(c) /\ Told(c)
Slot(p)  == AtMostOne(inbound[p]) /\ Sealed(p)

TxnInv ==
    /\ Types
    /\ ServerOK
    /\ \A c \in Clients : Mount(c)
    /\ \A p \in Peers : Slot(p)

-----------------------------------------------------------------------------
(* The inductive invariant of the caches, on top of that.                   *)

\* Every sector in the cache is that of disk.
Within(c, disk) == \A s \in LBA : cache[c][s] \in {Nil, disk[s]}

Coherent(c) ==
    /\ rev[c] <= revision
    /\ pc[c] \in {"idle", "ping", "lock", "retry"} /\ rev[c] = revision => Within(c, Committed)
    /\ pc[c] \in {"off", "dead", "hello", "caps", "old", "oldhello", "oldwrite", "abort"}
         => cache[c] = NoCache
    /\ pc[c] \in {"lock", "unlock", "abort"} /\ Granted(c) => Answer(c).number <= revision
    /\ pc[c] = "lock" /\ Granted(c) /\ Answer(c).number = rev[c] => Within(c, Head(inbox[c]).disk)
    /\ pc[c] = "unlock" /\ Granted(c) /\ Answer(c).number = revision => Within(c, Committed)
    /\ held[c] => \A s \in LBA : Buffered(c, s) = {} => cache[c][s] \in {Nil, view[c][s]}

CacheInv == \A c \in Clients : Coherent(c)

-----------------------------------------------------------------------------
(* The server.  Proved and Server are two instances of one module: what is   *)
(* proved of the first holds of the second.                                  *)

LEMMA SameNames ==
  /\ Proved!Request = Server!Request
  /\ Proved!LBA = LBA
  /\ LBA = 0 .. Sectors - 1
  /\ Proved!Committed = Committed
  /\ Committed = Server!RolledBack
  /\ Committed = [s \in LBA |-> IF s \in dirty THEN undo[s] ELSE image[s]]
<1>1. Proved!Request = Server!Request
  BY DEF Proved!Request, Server!Request, Proved!Ops, Server!Ops, Proved!Record, Server!Record,
         Proved!ControlOps, Server!ControlOps, Proved!HelloOps, Server!HelloOps,
         Proved!LockOps, Server!LockOps, Proved!BlockOps, Server!BlockOps,
         Proved!WriteOps, Server!WriteOps
<1>2. Proved!LBA = LBA /\ LBA = 0 .. Sectors - 1
  BY DEF Proved!LBA, Server!LBA, LBA
<1>3. /\ Proved!Committed = Committed
      /\ Committed = Server!RolledBack
      /\ Committed = [s \in LBA |-> IF s \in dirty THEN undo[s] ELSE image[s]]
  BY <1>2 DEF Proved!Committed, Server!Committed, Committed, LBA, Proved!LBA, Server!LBA,
              Proved!RolledBack, Server!RolledBack
<1> QED
  BY <1>1, <1>2, <1>3

LEMMA SameFree ==
  ASSUME NEW img, NEW old
  PROVE  /\ Proved!FreeClusters(img) = Server!FreeClusters(img)
         /\ Proved!FreeSpace(img, old) = Server!FreeSpace(img, old)
  BY DEF Proved!FreeClusters, Server!FreeClusters, Proved!FreeSpace, Server!FreeSpace,
         Proved!Cardinality, Server!Cardinality, Proved!IsFiniteSet, Server!IsFiniteSet

LEMMA SameInvariant ==
  Proved!IInv <=> ServerOK
<1>1. Proved!TypeOK <=> Server!TypeOK
  BY DEF Proved!TypeOK, Server!TypeOK, Proved!LBA, Server!LBA, Proved!Reply, Server!Reply,
         Proved!Ops, Server!Ops, Proved!ControlOps, Server!ControlOps, Proved!HelloOps,
         Server!HelloOps, Proved!LockOps, Server!LockOps, Proved!BlockOps, Server!BlockOps,
         Proved!WriteOps, Server!WriteOps
<1>2. Proved!Exclusion <=> Server!Exclusion
  BY DEF Proved!Exclusion, Server!Exclusion
<1>3. Proved!UndoOwned <=> Server!UndoOwned
  BY DEF Proved!UndoOwned, Server!UndoOwned
<1>4. Proved!FreeIsCommitted <=> Server!FreeIsCommitted
  BY SameFree, SameNames DEF Proved!FreeIsCommitted, Server!FreeIsCommitted, Committed
<1> QED
  BY <1>1, <1>2, <1>3, <1>4 DEF Proved!IInv, ServerOK

LEMMA SameStatus ==
  ASSUME NEW p, NEW r
  PROVE  /\ Proved!HandleStatus(r) = Server!HandleStatus(r)
         /\ Proved!Records(r) = Server!Records(r)
         /\ Proved!SavesUndo(p, r) <=> Server!SavesUndo(p, r)
         /\ Proved!Status(p, r) = Server!Status(p, r)
<1> USE DEF Proved!Blank, Server!Blank, Proved!Records, Server!Records, Proved!LBA, Server!LBA,
            Proved!HelloOps, Server!HelloOps, Proved!LockOps, Server!LockOps,
            Proved!BlockOps, Server!BlockOps, Proved!WriteOps, Server!WriteOps
<1>1. Proved!HandleStatus(r) = Server!HandleStatus(r)
  BY DEF Proved!HandleStatus, Server!HandleStatus
<1>2. Proved!WriteChecked(r) <=> Server!WriteChecked(r)
  BY DEF Proved!WriteChecked, Server!WriteChecked
<1>3. Proved!SavesUndo(p, r) <=> Server!SavesUndo(p, r)
  BY <1>2 DEF Proved!SavesUndo, Server!SavesUndo
<1>4. Proved!HelloStatus(p, r) = Server!HelloStatus(p, r)
  BY DEF Proved!HelloStatus, Server!HelloStatus
<1>5. Proved!LockStatus(p, r) = Server!LockStatus(p, r)
  BY DEF Proved!LockStatus, Server!LockStatus
<1>6. Proved!BlockStatus(p, r) = Server!BlockStatus(p, r)
  BY <1>1, <1>2 DEF Proved!BlockStatus, Server!BlockStatus
<1>7. Proved!Status(p, r) = Server!Status(p, r)
  BY <1>4, <1>5, <1>6 DEF Proved!Status, Server!Status
<1> QED
  BY <1>1, <1>3, <1>7

LEMMA SameFinish ==
  ASSUME NEW commit
  PROVE  Proved!Finish(commit) <=> Server!Finish(commit)
<1>1. Proved!RolledBack = Server!RolledBack
  BY DEF Proved!RolledBack, Server!RolledBack, Proved!LBA, Server!LBA
<1>2. Proved!NextRevision = Server!NextRevision
  BY DEF Proved!NextRevision, Server!NextRevision
<1> QED
  BY <1>1, <1>2, SameFree DEF Proved!Finish, Server!Finish

LEMMA SameHandle ==
  ASSUME NEW p, NEW r
  PROVE  /\ Proved!Handle(p, r) <=> Server!Handle(p, r)
         /\ Proved!SharedWrite(p, r) <=> Server!SharedWrite(p, r)
         /\ Proved!Release(p) <=> Server!Release(p)
<1> USE SameStatus DEF Proved!Answer, Server!Answer, Proved!state, Server!state,
                       Proved!diskState, Server!diskState, Proved!HelloOps, Server!HelloOps,
                       Proved!WriteOps, Server!WriteOps
<1>w. ASSUME NEW img, NEW records PROVE Proved!Written(img, records) = Server!Written(img, records)
  BY DEF Proved!Written, Server!Written, Proved!LastWrite, Server!LastWrite,
         Proved!LBA, Server!LBA
<1>1. Proved!Refuse(p, r) <=> Server!Refuse(p, r)
  BY DEF Proved!Refuse, Server!Refuse
<1>2. Proved!Hello(p, r) <=> Server!Hello(p, r)
  BY DEF Proved!Hello, Server!Hello
<1>3. Proved!Probe(p, r) <=> Server!Probe(p, r)
  BY DEF Proved!Probe, Server!Probe
<1>4. Proved!Stat(p, r) <=> Server!Stat(p, r)
  BY DEF Proved!Stat, Server!Stat
<1>5. Proved!Lock(p, r) <=> Server!Lock(p, r)
  BY DEF Proved!Lock, Server!Lock
<1>6. Proved!Unlock(p, r) <=> Server!Unlock(p, r)
  BY SameFinish DEF Proved!Unlock, Server!Unlock
<1>7. Proved!Read(p, r) <=> Server!Read(p, r)
  BY DEF Proved!Read, Server!Read
<1>8. Proved!SharedWrite(p, r) <=> Server!SharedWrite(p, r)
  BY <1>w DEF Proved!SharedWrite, Server!SharedWrite, Proved!Remember, Server!Remember,
              Proved!LBA, Server!LBA
<1>9. Proved!LegacyWrite(p, r) <=> Server!LegacyWrite(p, r)
  BY <1>w, SameFree DEF Proved!LegacyWrite, Server!LegacyWrite
<1>10. Proved!Release(p) <=> Server!Release(p)
  BY SameFinish DEF Proved!Release, Server!Release
<1> QED
  BY <1>1, <1>2, <1>3, <1>4, <1>5, <1>6, <1>7, <1>8, <1>9, <1>10 DEF Proved!Handle, Server!Handle

\* Every frame and every release keeps the invariant of the sessions.
LEMMA ServerStepOK ==
  ASSUME ServerOK, NEW p \in Peers
  PROVE  /\ \A r \in Server!Request : Server!Handle(p, r) => ServerOK'
         /\ Server!Release(p) => ServerOK'
<1>0. Proved!IInv /\ (Proved!IInv' <=> ServerOK')
  <2>1. Proved!IInv <=> ServerOK
    BY SameInvariant
  <2>2. Proved!IInv' <=> ServerOK'
    BY SameInvariant, PTL
  <2> QED
    BY <2>1, <2>2
<1>1. ASSUME NEW r \in Server!Request, Server!Handle(p, r) PROVE ServerOK'
  <2>1. Proved!Handle(p, r)
    BY <1>1, SameHandle
  <2>2. Proved!IInv'
    BY <1>0, <2>1, Proved!HandleInv, SameNames, ServerAssumption, NamesAssumption
  <2> QED
    BY <1>0, <2>2
<1>2. ASSUME Server!Release(p) PROVE ServerOK'
  <2>1. Proved!Release(p)
    BY <1>2, SameHandle
  <2>2. Proved!IInv'
    BY <1>0, <2>1, Proved!ReleaseInv, SameNames, ServerAssumption, NamesAssumption
  <2> QED
    BY <1>0, <2>2
<1> QED
  BY <1>1, <1>2

\* finish() commits the draft or restores the disk.
LEMMA FinishFacts ==
  ASSUME ServerOK, NEW commit \in BOOLEAN, Server!Finish(commit)
  PROVE  /\ Committed' = image'
         /\ commit => image' = image
         /\ ~commit => image' = Committed /\ revision' = revision
         /\ ~modified => image' = Committed /\ revision' = revision
         /\ locked' = None
<1>1. Proved!IInv /\ Proved!Finish(commit)
  BY SameInvariant, SameFinish
<1>2. Proved!TypeOK /\ Proved!UndoOwned
  BY <1>1 DEF Proved!IInv
<1>3. Proved!Committed' = Committed'
  BY DEF Proved!Committed, Committed, Server!Committed, Proved!RolledBack, Server!RolledBack,
         Proved!LBA, Server!LBA
<1>4. /\ Proved!Committed' = image'
      /\ commit => image' = image
      /\ ~commit => image' = Proved!Committed
  BY <1>1, <1>2, Proved!FinishCommitted, SameNames, ServerAssumption, NamesAssumption
<1>5. ~modified => Proved!Committed = image
  BY <1>2, Proved!CleanIsCommitted, SameNames, ServerAssumption, NamesAssumption DEF Proved!UndoOwned
<1>6. (~modified => image' = image) /\ (~(modified /\ commit) => revision' = revision)
  BY DEF Server!Finish
<1>7. locked' = None
  BY DEF Server!Finish
<1> QED
  BY <1>3, <1>4, <1>5, <1>6, <1>7, SameNames

\* The release of a slot never touches the committed disk, and touches nothing
\* of a transaction of another slot.
LEMMA ReleaseFacts ==
  ASSUME ServerOK, NEW p \in Peers, Server!Release(p)
  PROVE  /\ Committed' = Committed /\ revision' = revision
         /\ locked # p => image' = image /\ dirty' = dirty /\ locked' = locked
         /\ locked = p => locked' = None
<1>1. CASE locked = p
  <2>1. Server!Finish(FALSE)
    BY <1>1 DEF Server!Release
  <2> QED
    BY <1>1, <2>1, FinishFacts
<1>2. CASE locked # p
  <2>1. UNCHANGED <<image, undo, dirty, revision, locked>>
    BY <1>2 DEF Server!Release, Server!diskState
  <2>2. Committed' = Committed
    BY <2>1 DEF Committed, Server!Committed, Server!RolledBack
  <2> QED
    BY <1>2, <2>1, <2>2
<1> QED
  BY <1>1, <1>2

\* Steps that touch neither image, undo nor dirty leave the committed disk.
LEMMA SameDisk ==
  ASSUME image' = image, undo' = undo, dirty' = dirty
  PROVE  Committed' = Committed
  BY DEF Committed, Server!Committed, Server!RolledBack

\* Without undo records the committed disk is the draft.
LEMMA CleanDisk ==
  ASSUME ServerOK, dirty = {}
  PROVE  Committed = image
<1>1. Proved!TypeOK
  BY SameInvariant DEF Proved!IInv
<1> QED
  BY <1>1, Proved!CleanIsCommitted, SameNames, ServerAssumption, NamesAssumption

\* A request that is refused changes nothing but the reply.
LEMMA RefusedFacts ==
  ASSUME ServerOK, NEW p \in Peers, NEW r \in Server!Request, Server!Handle(p, r),
         reply'.status # "OK"
  PROVE  /\ UNCHANGED <<image, undo, dirty, revision, locked>>
         /\ Committed' = Committed
<1>1. CASE Server!SharedWrite(p, r)
  <2>1. Proved!SavesUndo(p, r) /\ r \in Proved!Request
    BY <1>1, SameStatus, SameNames DEF Server!SharedWrite
  <2>2. Server!HandleStatus(r) = "OK"
    BY <2>1, Proved!CheckedIsAccepted, SameStatus, SameNames, ServerAssumption, NamesAssumption
  <2> QED
    BY <1>1, <2>2 DEF Server!SharedWrite, Server!Answer
<1>2. CASE Server!Refuse(p, r)
  BY <1>2, SameDisk DEF Server!Refuse, Server!state, Server!diskState
<1> QED
  BY <1>1, <1>2 DEF Server!Handle, Server!Hello, Server!Probe, Server!Stat, Server!Lock,
                    Server!Unlock, Server!Read, Server!LegacyWrite, Server!Answer

\* A request that is accepted, by operation.
LEMMA AcceptedFacts ==
  ASSUME ServerOK, NEW p \in Peers, NEW r \in Server!Request, Server!Handle(p, r),
         reply'.status = "OK"
  PROVE  /\ r.op \notin {"WRITE", "WRITE_BATCH", "LOCK", "UNLOCK", "ABORT"} =>
              UNCHANGED <<image, undo, dirty, revision, locked>>
         /\ r.op = "LOCK" =>
              /\ UNCHANGED <<image, undo, dirty, revision>>
              /\ locked = None /\ locked' = p /\ dirty = {}
              /\ reply'.number = revision
         /\ r.op \in {"UNLOCK", "ABORT"} =>
              /\ locked = p
              /\ Server!Finish(r.op = "UNLOCK")
              /\ reply'.number = revision'
         /\ r.op = "READ_BATCH" =>
              /\ reply'.sectors = [i \in 1 .. r.count |-> image[r.lba + i - 1]]
              /\ r.count \in Nat
              /\ \A i \in 1 .. r.count : r.lba + i - 1 \in LBA
         /\ r.op \in {"WRITE", "WRITE_BATCH"} => Server!SharedWrite(p, r) \/ Server!LegacyWrite(p, r)
<1> USE DEF Server!Answer
<1>1. CASE Server!Refuse(p, r)
  BY <1>1 DEF Server!Refuse
<1>2. CASE Server!Hello(p, r)
  BY <1>2 DEF Server!Hello, Server!HelloOps, Server!diskState
<1>3. CASE Server!Probe(p, r)
  BY <1>3 DEF Server!Probe, Server!state, Server!diskState
<1>4. CASE Server!Stat(p, r)
  BY <1>4 DEF Server!Stat, Server!state, Server!diskState
<1>5. CASE Server!Lock(p, r)
  <2>1. r.op = "LOCK" /\ UNCHANGED <<image, undo, dirty, revision>> /\ locked' = p
        /\ reply'.number = revision
    BY <1>5 DEF Server!Lock, Server!diskState
  <2>2. Server!LockStatus(p, r) = "OK"
    BY <1>5 DEF Server!Lock, Server!Status, Server!HelloOps, Server!LockOps
  <2>3. locked = None
    BY <2>1, <2>2 DEF Server!LockStatus
  <2>4. dirty = {}
    BY <2>3 DEF ServerOK, Server!UndoOwned
  <2> QED
    BY <2>1, <2>3, <2>4
<1>6. CASE Server!Unlock(p, r)
  <2>1. Server!LockStatus(p, r) = "OK" /\ r.op \in {"UNLOCK", "ABORT"}
    BY <1>6 DEF Server!Unlock, Server!Status, Server!HelloOps, Server!LockOps
  <2>2. locked = p
    BY <2>1 DEF Server!LockStatus
  <2> QED
    BY <1>6, <2>1, <2>2 DEF Server!Unlock
<1>7. CASE Server!Read(p, r)
  <2>1. r.op \in {"READ", "READ_BATCH"} /\ UNCHANGED <<image, undo, dirty, revision, locked>>
    BY <1>7 DEF Server!Read, Server!state, Server!diskState
  <2>2. ASSUME r.op = "READ_BATCH"
        PROVE  /\ reply'.sectors = [i \in 1 .. r.count |-> image[r.lba + i - 1]]
               /\ r.count \in Nat
               /\ \A i \in 1 .. r.count : r.lba + i - 1 \in LBA
    <3>1. Server!HandleStatus(r) = "OK"
      BY <1>7, <2>2 DEF Server!Read, Server!Status, Server!BlockStatus, Server!HelloOps, Server!LockOps
    <3>2. r.lba \in Nat /\ r.count \in Nat
      BY DEF Server!Request
    <3>3. r.lba < Sectors /\ r.count <= Sectors - r.lba
      BY <2>2, <3>1 DEF Server!HandleStatus
    <3>4. \A i \in 1 .. r.count : r.lba + i - 1 \in LBA
      BY <3>2, <3>3, SameNames, ServerAssumption
    <3> QED
      BY <1>7, <2>2, <3>2, <3>4 DEF Server!Read
  <2> QED
    BY <2>1, <2>2
<1>8. CASE Server!SharedWrite(p, r)
  <2>1. r.op \in {"WRITE", "WRITE_BATCH"}
    BY <1>8 DEF Server!SharedWrite, Server!SavesUndo, Server!WriteOps
  <2> QED
    BY <1>8, <2>1
<1>9. CASE Server!LegacyWrite(p, r)
  <2>1. r.op \in {"WRITE", "WRITE_BATCH"}
    BY <1>9 DEF Server!LegacyWrite, Server!WriteOps
  <2> QED
    BY <1>9, <2>1
<1> QED
  BY <1>1, <1>2, <1>3, <1>4, <1>5, <1>6, <1>7, <1>8, <1>9 DEF Server!Handle

\* A write inside a transaction goes to the draft only.
LEMMA SharedWriteFacts ==
  ASSUME ServerOK, NEW p \in Peers, NEW r \in Server!Request, Server!SharedWrite(p, r)
  PROVE  /\ locked = p
         /\ UNCHANGED <<locked, revision>>
         /\ Committed' = Committed
         /\ r.op = "WRITE_BATCH" => image' = Server!Written(image, r.writes)
<1>1. locked = p /\ UNCHANGED <<locked, revision>>
  BY DEF Server!SharedWrite, Server!SavesUndo
<1>2. Proved!TypeOK /\ Proved!SharedWrite(p, r) /\ r \in Proved!Request
  BY SameInvariant, SameHandle, SameNames DEF Proved!IInv
<1>3. Proved!Committed' = Proved!Committed
  BY <1>2, Proved!SharedWriteCommitted, SameNames, ServerAssumption, NamesAssumption
<1>4. Committed' = Committed
  BY <1>3 DEF Proved!Committed, Committed, Server!Committed, Proved!RolledBack,
              Server!RolledBack, Proved!LBA, Server!LBA
<1>5. Proved!SavesUndo(p, r)
  BY SameStatus DEF Server!SharedWrite
<1>6. Server!HandleStatus(r) = "OK"
  BY <1>2, <1>5, Proved!CheckedIsAccepted, SameStatus, SameNames, ServerAssumption, NamesAssumption
<1>7. r.op = "WRITE_BATCH" => image' = Server!Written(image, r.writes)
  BY <1>6 DEF Server!SharedWrite, Server!Records
<1> QED
  BY <1>1, <1>4, <1>7

\* A write of the exclusive protocol is a commit of its own, outside transactions.
LEMMA LegacyWriteFacts ==
  ASSUME ServerOK, NEW p \in Peers, NEW r \in Server!Request, Server!LegacyWrite(p, r)
  PROVE  /\ legacy # None /\ locked = None /\ locked' = None
         /\ revision' # revision
         /\ revision + 1 < RevisionMod => revision' = revision + 1
<1>1. legacy = p /\ p # None
  BY NamesAssumption DEF Server!LegacyWrite, ServerOK, Server!Exclusion
<1>2. Proved!IInv
  BY SameInvariant
<1>3. locked = None
  BY <1>2, Proved!LegacyIsClean, SameNames, ServerAssumption, NamesAssumption DEF Server!LegacyWrite
<1>4. revision \in 0 .. RevisionMod - 1
  BY DEF ServerOK, Server!TypeOK
<1>5. (revision + 1) % RevisionMod # revision
  BY <1>4, Proved!RevisionStep, SameNames, ServerAssumption, NamesAssumption
<1>6. revision + 1 < RevisionMod => (revision + 1) % RevisionMod = revision + 1
  BY <1>4, ServerAssumption
<1> QED
  BY <1>1, <1>3, <1>5, <1>6 DEF Server!LegacyWrite

\* The revision after UNLOCK or ABORT.
LEMMA FinishRevision ==
  ASSUME ServerOK, NEW commit \in BOOLEAN, Server!Finish(commit)
  PROVE  /\ revision' = revision => Committed' = Committed
         /\ revision + 1 < RevisionMod => revision' \in {revision, revision + 1}
<1>1. revision \in 0 .. RevisionMod - 1
  BY DEF ServerOK, Server!TypeOK
<1>2. CASE modified /\ commit
  <2>1. revision' = Server!NextRevision
    BY <1>2 DEF Server!Finish
  <2>2. Proved!NextRevision # revision
    BY <1>1, Proved!RevisionStep, SameNames, ServerAssumption, NamesAssumption
  <2>3. revision' # revision
    BY <2>1, <2>2 DEF Proved!NextRevision, Server!NextRevision
  <2>4. revision + 1 < RevisionMod => (revision + 1) % RevisionMod = revision + 1
    BY <1>1, ServerAssumption
  <2> QED
    BY <1>1, <2>1, <2>3, <2>4 DEF Server!NextRevision
<1>3. CASE ~(modified /\ commit)
  BY <1>3, FinishFacts
<1> QED
  BY <1>2, <1>3

\* What any frame of slot p can do to the disk, the revision and the lock.
LEMMA HandleFacts ==
  ASSUME ServerOK, NEW p \in Peers, NEW r \in Server!Request, Server!Handle(p, r)
  PROVE  /\ locked \notin {None, p} => UNCHANGED <<image, dirty, revision, locked>> /\ Committed' = Committed
         /\ r.op \notin {"UNLOCK", "ABORT"} /\ locked = p =>
              locked' = p /\ Committed' = Committed
         /\ r.op \notin {"WRITE", "WRITE_BATCH", "UNLOCK", "ABORT"} =>
              UNCHANGED <<image, dirty, revision>> /\ Committed' = Committed
         /\ locked' \in {locked, None, p}
         /\ Committed' # Committed \/ revision' # revision =>
              legacy # None \/ (r.op = "UNLOCK" /\ locked = p /\ Committed' = image)
         /\ revision' = revision => Committed' = Committed
         /\ revision + 1 < RevisionMod => revision' \in {revision, revision + 1}
<1>p. p # None
  BY NamesAssumption
<1>0. CASE reply'.status # "OK"
  BY <1>0, RefusedFacts
<1>1. CASE reply'.status = "OK" /\ r.op \notin {"WRITE", "WRITE_BATCH", "LOCK", "UNLOCK", "ABORT"}
  <2>1. UNCHANGED <<image, undo, dirty, revision, locked>>
    BY <1>1, AcceptedFacts
  <2> QED
    BY <1>1, <2>1, SameDisk
<1>2. CASE reply'.status = "OK" /\ r.op = "LOCK"
  <2>1. UNCHANGED <<image, undo, dirty, revision>> /\ locked = None /\ locked' = p
    BY <1>2, AcceptedFacts
  <2> QED
    BY <1>2, <1>p, <2>1, SameDisk
<1>3. CASE reply'.status = "OK" /\ r.op \in {"UNLOCK", "ABORT"}
  <2>1. locked = p /\ Server!Finish(r.op = "UNLOCK")
    BY <1>3, AcceptedFacts
  <2>2. /\ Committed' = image'
        /\ r.op = "UNLOCK" => image' = image
        /\ r.op # "UNLOCK" => image' = Committed /\ revision' = revision
        /\ locked' = None
    BY <2>1, FinishFacts
  <2>3. /\ revision' = revision => Committed' = Committed
        /\ revision + 1 < RevisionMod => revision' \in {revision, revision + 1}
    BY <2>1, FinishRevision
  <2> QED
    BY <1>3, <1>p, <2>1, <2>2, <2>3
<1>4. CASE reply'.status = "OK" /\ r.op \in {"WRITE", "WRITE_BATCH"}
  <2>1. CASE Server!SharedWrite(p, r)
    BY <1>4, <2>1, <1>p, SharedWriteFacts
  <2>2. CASE Server!LegacyWrite(p, r)
    BY <1>4, <2>2, <1>p, LegacyWriteFacts
  <2> QED
    BY <1>4, <2>1, <2>2, AcceptedFacts
<1> QED
  BY <1>0, <1>1, <1>2, <1>3, <1>4

-----------------------------------------------------------------------------
(* What a step of one mount leaves to the others.                            *)

\* Nothing of mount d changes.
SameMount(d) ==
    /\ pc'[d] = pc[d] /\ fd'[d] = fd[d] /\ held'[d] = held[d] /\ inbox'[d] = inbox[d]
    /\ writes'[d] = writes[d] /\ todo'[d] = todo[d] /\ cache'[d] = cache[d] /\ rev'[d] = rev[d]
    /\ base'[d] = base[d] /\ view'[d] = view[d] /\ outcome'[d] = outcome[d]

\* A step of mount c on its own connection.
Own(c) ==
    /\ UNCHANGED serverVars
    /\ \A d \in Clients : d # c => SameMount(d)
    /\ \A p \in Peers : peerOf[p] # c => inbound'[p] = inbound[p]

\* The claims about a mount survive a step that changes neither it nor its
\* connection nor the disk.
LEMMA MountFrame ==
  ASSUME NEW d \in Clients, SameMount(d), UNCHANGED <<image, undo, dirty, locked, revision>>,
         Connected(d)' <=> Connected(d),
         Connected(d) => inbound'[fd[d]] = inbound[fd[d]]
  PROVE  /\ Mount(d) => Mount(d)'
         /\ Coherent(d) => Coherent(d)'
<1>c. Committed' = Committed
  BY SameDisk
<1>g. Granted(d)' <=> Granted(d)
  BY DEF Granted, Answer, SameMount
<1>b. \A s : Buffered(d, s)' = Buffered(d, s)
  BY DEF Buffered, SameMount
<1>1. OneRequest(d) => OneRequest(d)'
  BY DEF OneRequest, SameMount
<1>2. Kept(d) => Kept(d)'
  BY DEF Kept, SameMount
<1>3. InsideLock(d) => InsideLock(d)'
  BY <1>c, <1>g, <1>b DEF InsideLock, Ahead, SameMount
<1>4. Fetched(d) => Fetched(d)'
  BY <1>g DEF Fetched, Answer, SameMount
<1>5. Told(d) => Told(d)'
  BY <1>g DEF Told, SameMount
<1>6. Coherent(d) => Coherent(d)'
  BY <1>c, <1>g, <1>b DEF Coherent, Within, Answer, SameMount
<1> QED
  BY <1>1, <1>2, <1>3, <1>4, <1>5, <1>6 DEF Mount

\* A step of c on its own connection is none of the other mounts' business.
LEMMA OwnFrame ==
  ASSUME TxnInv, NEW c \in Clients, Own(c), UNCHANGED peerOf,
         NEW d \in Clients, d # c
  PROVE  /\ Mount(d)'
         /\ Coherent(d) => Coherent(d)'
<1>1. SameMount(d) /\ UNCHANGED <<image, undo, dirty, locked, revision>>
  BY DEF Own, serverVars
<1>2. Connected(d)' <=> Connected(d)
  BY <1>1 DEF Connected, SameMount
<1>3. Connected(d) => inbound'[fd[d]] = inbound[fd[d]]
  BY DEF Connected, Own, TxnInv, Types
<1> QED
  BY <1>1, <1>2, <1>3, MountFrame DEF TxnInv

LEMMA AskedUnlock ==
  ASSUME NEW state \in Waiting
  PROVE  AskedOp(state) = "UNLOCK" <=> state = "unlock"
  BY DEF AskedOp, Waiting

\* The slots keep their promise when c takes a step on its own connection.
LEMMA OwnSlots ==
  ASSUME TxnInv, NEW c \in Clients, Own(c), UNCHANGED peerOf, OneRequest(c)',
         \A p \in Peers : p # fd[c] => inbound'[p] = inbound[p],
         fd'[c] # fd[c] => fd'[c] = None /\ inbound' = inbound,
         ~(pc'[c] = "lock" /\ Granted(c)'),
         held'[c] => held[c] \/ (pc[c] = "lock" /\ Granted(c)),
         fd'[c] # fd[c] => ~held'[c],
         \/ base'[c] = base[c] /\ view'[c] = view[c]
         \/ fd'[c] = fd[c] /\ held[c]
         \/ fd'[c] = fd[c] /\ pc[c] = "lock" /\ Granted(c),
         fd'[c] = fd[c] /\ Connected(c) /\ pc'[c] = "unlock" /\ locked = fd[c] =>
            base'[c] = Committed /\ view'[c] = image
  PROVE  \A p \in Peers : Slot(p)'
<1> SUFFICES ASSUME NEW p \in Peers PROVE Slot(p)'
  OBVIOUS
<1>0. /\ Slot(p) /\ OneRequest(c)
      /\ UNCHANGED <<image, locked, peerOf>>
      /\ Committed' = Committed
  BY SameDisk DEF TxnInv, Mount, Own, serverVars
<1>1. CASE peerOf[p] # c
  <2>1. inbound'[p] = inbound[p]
    BY <1>1 DEF Own
  <2>2. CASE peerOf[p] = None
    BY <1>0, <2>1, <2>2 DEF Slot, Sealed
  <2>3. CASE peerOf[p] # None
    <3>1. peerOf[p] \in Clients /\ SameMount(peerOf[p])
      BY <1>1, <2>3 DEF TxnInv, Types, Own
    <3> QED
      BY <1>0, <2>1, <3>1 DEF Slot, Sealed, SameMount, Granted, Answer
  <2> QED
    BY <2>2, <2>3
<1>2. CASE peerOf[p] = c /\ fd[c] # p
  <2>1. inbound'[p] = inbound[p] /\ fd'[c] # p
    BY <1>2, NamesAssumption
  <2> QED
    BY <1>0, <1>2, <2>1 DEF Slot, Sealed
<1>3. CASE peerOf[p] = c /\ fd[c] = p /\ fd'[c] # p
  <2>1. inbound'[p] = inbound[p]
    BY <1>3
  <2> QED
    BY <1>0, <1>3, <2>1 DEF Slot, Sealed
<1>4. CASE peerOf[p] = c /\ fd[c] = p /\ fd'[c] = p
  <2>1. Connected(c) /\ Connected(c)'
    BY <1>0, <1>4, NamesAssumption DEF Connected
  <2>2. AtMostOne(inbound'[p])
    BY <1>4, <2>1 DEF OneRequest, AtMostOne
  <2>3. inbound'[p] # <<>> /\ Head(inbound'[p]).op = "UNLOCK" => pc'[c] = "unlock"
    BY <1>4, <2>1, AskedUnlock DEF OneRequest
  <2> QED
    BY <1>0, <1>4, <2>1, <2>2, <2>3 DEF Slot, Sealed
<1> QED
  BY <1>1, <1>2, <1>3, <1>4

-----------------------------------------------------------------------------
(* Frames.                                                                   *)

LEMMA OneFrame ==
  ASSUME NEW x
  PROVE  /\ Append(<<>>, x) = <<x>>
         /\ <<x>> # <<>> /\ Head(<<x>>) = x /\ AtMostOne(<<x>>)
         /\ AtMostOne(<<>>)
  BY DEF AtMostOne

\* The operations a client of either protocol sends.
ClientOps == {"HELLO", "HELLO_SHARED", "CAPS", "PING", "STAT", "LOCK", "UNLOCK", "ABORT",
              "READ_BATCH", "WRITE_BATCH", "WRITE"}

LEMMA FrameType ==
  ASSUME NEW op \in ClientOps
  PROVE  Frame(op) \in Server!Request /\ Frame(op).op = op
<1>1. op \in Server!Ops
  BY DEF ClientOps, Server!Ops, Server!ControlOps, Server!LockOps, Server!HelloOps,
         Server!BlockOps, Server!WriteOps
<1>2. (CHOOSE d \in Data : TRUE) \in Data
  BY NamesAssumption
<1>3. (IF op \in {"HELLO", "HELLO_SHARED"} THEN 0 ELSE Generation) \in Nat
  BY ServerAssumption
<1>4. <<>> \in Seq(Server!Record)
  OBVIOUS
<1> QED
  BY <1>1, <1>2, <1>3, <1>4 DEF Frame, Server!Request

LEMMA FetchType ==
  ASSUME NEW s \in LBA
  PROVE  /\ Fetch(s) \in Server!Request /\ Fetch(s).op = "READ_BATCH" /\ Fetch(s).lba = s
<1>1. Frame("READ_BATCH") \in Server!Request /\ Frame("READ_BATCH").op = "READ_BATCH"
  BY FrameType DEF ClientOps
<1>2. s \in Nat
  BY SameNames, ServerAssumption
<1>3. FetchCount(s) \in Nat
  BY <1>2, SameNames, ServerAssumption, LayoutAssumption DEF FetchCount
<1> QED
  BY <1>1, <1>2, <1>3 DEF Fetch, Server!Request

LEMMA BatchType ==
  ASSUME Types, NEW c \in Clients
  PROVE  /\ Batch(c) \in Server!Request /\ Batch(c).op = "WRITE_BATCH"
         /\ Batch(c).writes = writes[c]
<1>1. Frame("WRITE_BATCH") \in Server!Request /\ Frame("WRITE_BATCH").op = "WRITE_BATCH"
  BY FrameType DEF ClientOps
<1>2. writes[c] \in Seq(Server!Record)
  <2>1. Record \subseteq Server!Record
    BY SameNames, ServerAssumption DEF Record, Server!Record
  <2>2. writes[c] \in Seq(Record)
    BY DEF Types
  <2> QED
    BY <2>1, <2>2
<1> QED
  BY <1>1, <1>2 DEF Batch, Server!Request

LEMMA OldWriteType ==
  ASSUME NEW s \in LBA, NEW d \in Data
  PROVE  LET r == [Frame("WRITE") EXCEPT !.lba = s, !.data = d]
         IN  r \in Server!Request /\ r.op = "WRITE"
<1>1. Frame("WRITE") \in Server!Request /\ Frame("WRITE").op = "WRITE"
  BY FrameType DEF ClientOps
<1>2. s \in Nat
  BY SameNames, ServerAssumption
<1> QED
  BY <1>1, <1>2 DEF Server!Request

\* rpc() puts its frame on an idle connection, or loses it.
LEMMA SendFacts ==
  ASSUME Types, NEW c \in Clients, NEW r \in Server!Request, Send(c, r),
         Connected(c) => inbound[fd[c]] = <<>>
  PROVE  /\ inbound' \in [Peers -> Seq(Server!Request)]
         /\ \A p \in Peers : p # fd[c] \/ peerOf[p] # c => inbound'[p] = inbound[p]
         /\ Connected(c) => /\ inbound'[fd[c]] # <<>>
                            /\ AtMostOne(inbound'[fd[c]])
                            /\ Head(inbound'[fd[c]]) = r
<1>1. CASE Connected(c)
  <2>1. fd[c] \in Peers
    BY <1>1 DEF Connected, Types
  <2>2. inbound' = [inbound EXCEPT ![fd[c]] = <<r>>]
    BY <1>1, OneFrame DEF Send
  <2>3. <<r>> \in Seq(Server!Request)
    OBVIOUS
  <2>4. inbound' \in [Peers -> Seq(Server!Request)]
    BY <2>1, <2>2, <2>3 DEF Types
  <2>5. inbound'[fd[c]] = <<r>>
    BY <2>1, <2>2 DEF Types
  <2>6. \A p \in Peers : p # fd[c] \/ peerOf[p] # c => inbound'[p] = inbound[p]
    BY <1>1, <2>1, <2>2 DEF Types, Connected
  <2> QED
    BY <2>4, <2>5, <2>6, OneFrame
<1>2. CASE ~Connected(c)
  BY <1>2 DEF Send, Types
<1> QED
  BY <1>1, <1>2

-----------------------------------------------------------------------------
(* The steps of the mounts.                                                  *)

\* The invariant of the sessions is about the server's own state.
LEMMA ServerUnchanged ==
  ASSUME ServerOK, UNCHANGED serverVars
  PROVE  ServerOK'
<1>1. Server!TypeOK'
  BY DEF ServerOK, serverVars, Server!TypeOK
<1>2. Server!Exclusion' /\ Server!UndoOwned'
  BY DEF ServerOK, serverVars, Server!Exclusion, Server!UndoOwned
<1>3. Server!FreeIsCommitted'
  BY DEF ServerOK, serverVars, Server!FreeIsCommitted, Server!FreeClusters, Server!Committed,
         Server!RolledBack
<1> QED
  BY <1>1, <1>2, <1>3 DEF ServerOK

\* What remains to be shown of a step of c on its own connection.
LEMMA OwnStep ==
  ASSUME TxnInv, NEW c \in Clients, Own(c), UNCHANGED peerOf, Types', Mount(c)',
         \A p \in Peers : Slot(p)'
  PROVE  /\ TxnInv'
         /\ CacheInv /\ (Coherent(c) => Coherent(c)') => CacheInv'
<1>1. ServerOK'
  BY ServerUnchanged DEF TxnInv, Own
<1>2. \A d \in Clients : d # c => Mount(d)' /\ (Coherent(d) => Coherent(d)')
  BY OwnFrame
<1>3. \A d \in Clients : Mount(d)'
  BY <1>2
<1>4. CacheInv /\ (Coherent(c) => Coherent(c)') => CacheInv'
  BY <1>2 DEF CacheInv
<1> QED
  BY <1>1, <1>3, <1>4 DEF TxnInv

\* A reply that is taken from the connection leaves it quiet.
LEMMA TakeReply ==
  ASSUME TxnInv, NEW c \in Clients, inbox[c] # <<>>,
         inbox' = [inbox EXCEPT ![c] = Tail(@)]
  PROVE  /\ inbox' = [inbox EXCEPT ![c] = <<>>]
         /\ pc[c] \in Waiting
         /\ Connected(c) => inbound[fd[c]] = <<>>
<1>1. OneRequest(c)
  BY DEF TxnInv, Mount
<1> QED
  BY <1>1 DEF OneRequest, AtMostOne

\* A mount that is not waiting has a quiet connection.
LEMMA Quiet ==
  ASSUME TxnInv, NEW c \in Clients, pc[c] \notin Waiting
  PROVE  /\ inbox = [inbox EXCEPT ![c] = <<>>]
         /\ inbox[c] = <<>>
         /\ Connected(c) => inbound[fd[c]] = <<>>
<1>1. OneRequest(c) /\ inbox \in [Clients -> Seq(Letter)]
  BY DEF TxnInv, Mount, Types
<1>2. inbox[c] = <<>>
  BY <1>1 DEF OneRequest
<1> QED
  BY <1>1, <1>2 DEF OneRequest

\* Moves that change nothing but the state of the mount and its connection.
PlainMoves ==
    LET between == {"idle", "ping", "lock", "retry"}
        inside  == {"run", "stat"}
        before  == {"hello", "caps", "old", "oldhello", "oldwrite"}
    IN  (between \X between) \cup (inside \X inside)
          \cup (before \X {"caps", "idle", "old", "oldwrite"})

LEMMA PlainStep ==
  ASSUME TxnInv, NEW c \in Clients, NEW to, <<pc[c], to>> \in PlainMoves, Move(c, to),
         UNCHANGED <<serverVars, peerOf, cacheVars, fd, held, todo, historyVars>>,
         inbox' = [inbox EXCEPT ![c] = <<>>],
         inbound' \in [Peers -> Seq(Server!Request)],
         \A p \in Peers : p # fd[c] \/ peerOf[p] # c => inbound'[p] = inbound[p],
         Connected(c) =>
            \/ to \notin Waiting /\ inbound'[fd[c]] = <<>>
            \/ /\ to \in Waiting
               /\ inbound'[fd[c]] # <<>>
               /\ AtMostOne(inbound'[fd[c]])
               /\ Head(inbound'[fd[c]]).op = AskedOp(to)
  PROVE  TxnInv' /\ (CacheInv => CacheInv')
<1>t. Types /\ Mount(c)
  BY DEF TxnInv
<1>1. to \in States /\ pc'[c] = to /\ inbox'[c] = <<>>
  BY <1>t DEF PlainMoves, States, Waiting, Move, Types
<1>2. Types'
  BY <1>t, <1>1 DEF Types, cacheVars, historyVars, Move
<1>3. Own(c)
  BY <1>t DEF Own, SameMount, Types, cacheVars, historyVars, Move
<1>4. OneRequest(c)'
  <2>1. (Connected(c)' <=> Connected(c)) /\ to \notin {"flush", "fetch"}
    BY DEF Connected, PlainMoves
  <2> QED
    BY <1>1, <2>1, OneFrame DEF OneRequest
<1>5. Kept(c)'
  BY <1>t, <1>1 DEF Mount, Kept, PlainMoves, cacheVars, historyVars
<1>6. ~Granted(c)'
  BY <1>1 DEF Granted
<1>7. InsideLock(c)'
  <2>1. to \in {"run", "stat", "flush", "fetch"} => pc[c] \in {"run", "stat"}
    BY DEF PlainMoves
  <2>2. Committed' = Committed /\ UNCHANGED <<image, locked, dirty, base, view, writes, fd>>
    BY SameDisk DEF serverVars, cacheVars, historyVars
  <2>3. (Connected(c)' <=> Connected(c)) /\ (Ahead(c)' <=> Ahead(c))
    BY <2>2 DEF Connected, Ahead, Buffered
  <2> QED
    BY <1>t, <1>1, <1>6, <2>1, <2>2, <2>3 DEF Mount, InsideLock
<1>8. Fetched(c)' /\ Told(c)'
  <2>1. to \in {"run", "flush", "fetch", "stat", "abort"} => pc[c] \in {"run", "stat"}
    BY DEF PlainMoves
  <2> QED
    BY <1>t, <1>1, <1>6, <2>1 DEF Mount, Fetched, Told, historyVars
<1>9. \A p \in Peers : Slot(p)'
  <2>1. to # "unlock"
    BY DEF PlainMoves
  <2>2. fd'[c] = fd[c] /\ held'[c] = held[c] /\ base'[c] = base[c] /\ view'[c] = view[c]
    BY DEF historyVars
  <2>3. \A p \in Peers : p # fd[c] => inbound'[p] = inbound[p]
    OBVIOUS
  <2> QED
    BY <1>1, <1>3, <1>4, <1>6, <2>1, <2>2, <2>3, OwnSlots
<1>10. Coherent(c) => Coherent(c)'
  <2>1. Committed' = Committed /\ UNCHANGED <<revision, cache, rev, view, writes, held>>
    BY SameDisk DEF serverVars, cacheVars, historyVars
  <2>2. \A s : Buffered(c, s)' = Buffered(c, s)
    BY <2>1 DEF Buffered
  <2>3. ASSUME Coherent(c), to \in {"idle", "ping", "lock", "retry"}, rev[c] = revision
        PROVE  Within(c, Committed)'
    BY <2>1, <2>3 DEF Coherent, Within, NoCache, PlainMoves
  <2>4. to \in {"off", "dead", "hello", "caps", "old", "oldhello", "oldwrite", "abort"} =>
          pc[c] \in {"hello", "caps", "old", "oldhello", "oldwrite"}
    BY DEF PlainMoves
  <2> QED
    BY <1>1, <1>6, <2>1, <2>2, <2>3, <2>4 DEF Coherent
<1> QED
  BY <1>2, <1>3, <1>4, <1>5, <1>7, <1>8, <1>9, <1>10, OwnStep DEF Mount, CacheInv

\* Taking a reply that changes nothing.
LEMMA PlainReplies ==
  ASSUME TxnInv, NEW c \in Clients,
         CapsReply(c) \/ PingReply(c) \/ OldReply(c) \/ FreeReply(c) \/ LockBusy(c)
  PROVE  TxnInv' /\ (CacheInv => CacheInv')
<1>1. PICK to : /\ Move(c, to)
                /\ <<pc[c], to>> \in PlainMoves
                /\ to \notin Waiting
                /\ inbox[c] # <<>>
                /\ inbox' = [inbox EXCEPT ![c] = Tail(@)]
                /\ UNCHANGED <<serverVars, socketVars, cacheVars, fd, held, todo, historyVars>>
  <2>1. CASE CapsReply(c)
    BY <2>1 DEF CapsReply, Accepted, PlainMoves, Waiting
  <2>2. CASE PingReply(c)
    BY <2>2 DEF PingReply, Accepted, PlainMoves, Waiting
  <2>3. CASE OldReply(c)
    BY <2>3 DEF OldReply, Accepted, PlainMoves, Waiting
  <2>4. CASE FreeReply(c)
    BY <2>4 DEF FreeReply, Accepted, PlainMoves, Waiting
  <2>5. CASE LockBusy(c)
    BY <2>5 DEF LockBusy, PlainMoves, Waiting
  <2> QED
    BY <2>1, <2>2, <2>3, <2>4, <2>5
<1>2. inbox' = [inbox EXCEPT ![c] = <<>>] /\ (Connected(c) => inbound[fd[c]] = <<>>)
  BY <1>1, TakeReply
<1>3. inbound' = inbound /\ inbound \in [Peers -> Seq(Server!Request)] /\ UNCHANGED peerOf
  BY <1>1 DEF socketVars, TxnInv, Types
<1> QED
  BY <1>1, <1>2, <1>3, PlainStep

LEMMA GiveUpStep ==
  ASSUME TxnInv, NEW c \in Clients, GiveUp(c)
  PROVE  TxnInv' /\ (CacheInv => CacheInv')
<1>1. pc[c] = "retry" /\ Move(c, "idle")
      /\ UNCHANGED <<serverVars, peerOf, inbound, cacheVars, fd, held, todo, inbox, historyVars>>
  BY DEF GiveUp, socketVars
<1>2. "idle" \notin Waiting /\ "retry" \notin Waiting /\ <<pc[c], "idle">> \in PlainMoves
  BY <1>1 DEF Waiting, PlainMoves
<1>3. inbox' = [inbox EXCEPT ![c] = <<>>] /\ (Connected(c) => inbound[fd[c]] = <<>>)
  BY <1>1, <1>2, Quiet
<1>4. inbound' \in [Peers -> Seq(Server!Request)]
  BY <1>1 DEF TxnInv, Types
<1> QED
  BY <1>1, <1>2, <1>3, <1>4, PlainStep

\* Sending a request of a frame only.
LEMMA PlainSends ==
  ASSUME TxnInv, NEW c \in Clients,
         \/ HelloReply(c) \/ Heartbeat(c) \/ Begin(c) \/ Retry(c) \/ Free(c)
         \/ \E s \in LBA \ {0}, d \in Data : OldWrite(c, s, d)
  PROVE  TxnInv' /\ (CacheInv => CacheInv')
<1>0. Types
  BY DEF TxnInv
<1>1. PICK to \in Waiting, r \in Server!Request :
                /\ Move(c, to)
                /\ <<pc[c], to>> \in PlainMoves
                /\ Send(c, r)
                /\ r.op = AskedOp(to)
                /\ inbox' = [inbox EXCEPT ![c] = <<>>]
                /\ Connected(c) => inbound[fd[c]] = <<>>
                /\ UNCHANGED <<serverVars, peerOf, cacheVars, fd, held, todo, historyVars>>
  <2>1. CASE HelloReply(c)
    <3>1. pc[c] = "hello" /\ inbox[c] # <<>> /\ inbox' = [inbox EXCEPT ![c] = Tail(@)]
          /\ Move(c, "caps") /\ Send(c, Frame("CAPS"))
      BY <2>1 DEF HelloReply, Accepted
    <3>2. inbox' = [inbox EXCEPT ![c] = <<>>] /\ (Connected(c) => inbound[fd[c]] = <<>>)
      BY <3>1, TakeReply
    <3>3. "caps" \in Waiting /\ AskedOp("caps") = "CAPS" /\ <<pc[c], "caps">> \in PlainMoves
      BY <3>1 DEF Waiting, AskedOp, PlainMoves
    <3>4. Frame("CAPS") \in Server!Request /\ Frame("CAPS").op = "CAPS"
      BY FrameType DEF ClientOps
    <3> QED
      BY <2>1, <3>1, <3>2, <3>3, <3>4 DEF HelloReply
  <2>2. ASSUME pc[c] \notin Waiting, UNCHANGED inbox
        PROVE  inbox' = [inbox EXCEPT ![c] = <<>>] /\ (Connected(c) => inbound[fd[c]] = <<>>)
    BY <2>2, Quiet
  <2>3. CASE Heartbeat(c)
    <3>1. pc[c] = "idle" /\ pc[c] \notin Waiting /\ "ping" \in Waiting /\ AskedOp("ping") = "PING"
          /\ <<pc[c], "ping">> \in PlainMoves
      BY <2>3 DEF Heartbeat, Waiting, AskedOp, PlainMoves
    <3>2. Frame("PING") \in Server!Request /\ Frame("PING").op = "PING"
      BY FrameType DEF ClientOps
    <3> QED
      BY <2>2, <2>3, <3>1, <3>2 DEF Heartbeat
  <2>4. CASE Begin(c) \/ Retry(c)
    <3>1. pc[c] \in {"idle", "retry"} /\ pc[c] \notin Waiting /\ "lock" \in Waiting
          /\ AskedOp("lock") = "LOCK" /\ <<pc[c], "lock">> \in PlainMoves
      BY <2>4 DEF Begin, Retry, Waiting, AskedOp, PlainMoves
    <3>2. Frame("LOCK") \in Server!Request /\ Frame("LOCK").op = "LOCK"
      BY FrameType DEF ClientOps
    <3> QED
      BY <2>2, <2>4, <3>1, <3>2 DEF Begin, Retry
  <2>5. CASE Free(c)
    <3>1. pc[c] = "run" /\ pc[c] \notin Waiting /\ "stat" \in Waiting /\ AskedOp("stat") = "STAT"
          /\ <<pc[c], "stat">> \in PlainMoves
      BY <2>5 DEF Free, Call, Waiting, AskedOp, PlainMoves
    <3>2. Frame("STAT") \in Server!Request /\ Frame("STAT").op = "STAT"
      BY FrameType DEF ClientOps
    <3> QED
      BY <2>2, <2>5, <3>1, <3>2 DEF Free
  <2>6. CASE \E s \in LBA \ {0}, d \in Data : OldWrite(c, s, d)
    <3>0. PICK s \in LBA \ {0}, d \in Data : OldWrite(c, s, d)
      BY <2>6
    <3> DEFINE r == [Frame("WRITE") EXCEPT !.lba = s, !.data = d]
    <3>1. pc[c] = "old" /\ pc[c] \notin Waiting /\ "oldwrite" \in Waiting
          /\ AskedOp("oldwrite") = "WRITE" /\ <<pc[c], "oldwrite">> \in PlainMoves
      BY <3>0 DEF OldWrite, Waiting, AskedOp, PlainMoves
    <3>2. r \in Server!Request /\ r.op = "WRITE"
      BY OldWriteType
    <3>3. /\ Send(c, r) /\ Move(c, "oldwrite") /\ UNCHANGED inbox
          /\ UNCHANGED <<serverVars, peerOf, cacheVars, fd, held, todo, historyVars>>
      BY <3>0 DEF OldWrite
    <3> HIDE DEF r
    <3> QED
      BY <2>2, <3>1, <3>2, <3>3
  <2> QED
    BY <2>1, <2>3, <2>4, <2>5, <2>6
<1>2. /\ inbound' \in [Peers -> Seq(Server!Request)]
      /\ \A p \in Peers : p # fd[c] \/ peerOf[p] # c => inbound'[p] = inbound[p]
      /\ Connected(c) => /\ inbound'[fd[c]] # <<>>
                         /\ AtMostOne(inbound'[fd[c]])
                         /\ Head(inbound'[fd[c]]) = r
  BY <1>0, <1>1, SendFacts
<1> QED
  BY <1>1, <1>2, PlainStep

LEMMA NoTodoType == NoTodo \in Todo /\ NoCache \in [LBA -> Data \cup {Nil}]
<1>1. 0 \in LBA
  BY SameNames, ServerAssumption
<1> QED
  BY <1>1 DEF NoTodo, Todo, NoCache

\* A connection that is closed leaves a mount with nothing.
LEMMA ForgetStep ==
  ASSUME TxnInv, NEW c \in Clients, Fail(c) \/ Unmount(c)
  PROVE  TxnInv' /\ (CacheInv => CacheInv')
<1>t. Types
  BY DEF TxnInv
<1>1. PICK to \in {"off", "dead"} : pc' = [pc EXCEPT ![c] = to]
  BY DEF Fail, Unmount
<1>2. /\ Forget(c)
      /\ UNCHANGED <<serverVars, socketVars, rev, historyVars>>
  BY DEF Fail, Unmount
<1>3. /\ pc'[c] = to /\ fd'[c] = None /\ ~held'[c] /\ cache'[c] = NoCache
      /\ writes'[c] = <<>> /\ inbox'[c] = <<>> /\ todo'[c] = NoTodo
  BY <1>t, <1>1, <1>2 DEF Forget, Types
<1>4. Types'
  BY <1>t, <1>1, <1>2, NoTodoType DEF Forget, Types, States, socketVars, historyVars
<1>5. Own(c)
  BY <1>t, <1>1, <1>2 DEF Own, SameMount, Forget, Types, socketVars, historyVars
<1>6. to \notin Waiting
  BY DEF Waiting
<1>7. Mount(c)'
  <2>1. OneRequest(c)'
    BY <1>3, <1>6, OneFrame DEF OneRequest, Connected
  <2>2. Kept(c)'
    BY <1>3 DEF Kept, NoTodo
  <2>3. InsideLock(c)' /\ Fetched(c)' /\ Told(c)'
    BY <1>3 DEF InsideLock, Fetched, Told, Connected
  <2> QED
    BY <2>1, <2>2, <2>3 DEF Mount
<1>8. \A p \in Peers : Slot(p)'
  <2>1. ~Granted(c)' /\ OneRequest(c)'
    BY <1>3, <1>7 DEF Granted, Mount
  <2>2. inbound' = inbound /\ peerOf' = peerOf /\ base' = base /\ view' = view
    BY <1>2 DEF socketVars, historyVars
  <2>3. pc'[c] # "unlock"
    BY <1>3
  <2> QED
    BY <1>3, <1>5, <2>1, <2>2, <2>3, OwnSlots
<1>9. Coherent(c) => Coherent(c)'
  <2>1. revision' = revision /\ rev' = rev /\ ~Granted(c)'
    BY <1>2, <1>3 DEF serverVars, Granted
  <2> QED
    BY <1>3, <2>1 DEF Coherent
<1>10. peerOf' = peerOf
  BY <1>2 DEF socketVars
<1> QED
  BY <1>4, <1>5, <1>7, <1>8, <1>9, <1>10, OwnStep DEF CacheInv

\* What the reply at hand is made of.
LEMMA ReplyType ==
  ASSUME TxnInv, NEW c \in Clients, inbox[c] # <<>>
  PROVE  /\ Answer(c) \in Server!Reply
         /\ Head(inbox[c]).disk \in [LBA -> Data]
<1>1. inbox[c] \in Seq(Letter)
  BY DEF TxnInv, Types
<1>2. Head(inbox[c]) \in Letter
  BY <1>1
<1> QED
  BY <1>2 DEF Letter, Answer

\* begin() succeeds: the operation starts from the disk the server had when it
\* granted the lock.
LEMMA LockReplyStep ==
  ASSUME TxnInv, NEW c \in Clients, LockReply(c)
  PROVE  TxnInv' /\ (CacheInv => CacheInv')
<1> DEFINE disk == Head(inbox[c]).disk
           n == Answer(c).number
<1>t. Types /\ Mount(c) /\ ServerOK
  BY DEF TxnInv
<1>1. /\ pc[c] = "lock" /\ Granted(c) /\ inbox[c] # <<>>
      /\ inbox' = [inbox EXCEPT ![c] = Tail(@)]
      /\ UNCHANGED <<serverVars, socketVars, writes, fd, todo>>
  BY DEF LockReply, Accepted, Granted, Answer
<1>2. /\ inbox' = [inbox EXCEPT ![c] = <<>>] /\ (Connected(c) => inbound[fd[c]] = <<>>)
      /\ peerOf' = peerOf /\ inbound' = inbound
  BY <1>1, TakeReply DEF socketVars
<1>3. disk \in [LBA -> Data] /\ n \in Nat
  BY <1>1, ReplyType DEF Server!Reply
<1>4. /\ cache' = IF n # rev[c] THEN [cache EXCEPT ![c] = NoCache] ELSE cache
      /\ rev' = [rev EXCEPT ![c] = n]
      /\ held' = [held EXCEPT ![c] = TRUE]
      /\ pc' = [pc EXCEPT ![c] = "run"]
      /\ base' = [base EXCEPT ![c] = disk]
      /\ view' = [view EXCEPT ![c] = disk]
      /\ outcome' = [outcome EXCEPT ![c] = "open"]
  BY DEF LockReply, Move
<1> HIDE DEF disk, n
<1>5. /\ pc'[c] = "run" /\ held'[c] /\ base'[c] = disk /\ view'[c] = disk /\ outcome'[c] = "open"
      /\ rev'[c] = n /\ inbox'[c] = <<>> /\ fd'[c] = fd[c] /\ todo'[c] = todo[c]
      /\ cache'[c] = IF n # rev[c] THEN NoCache ELSE cache[c]
  BY <1>t, <1>1, <1>2, <1>4 DEF Types
<1>6. writes'[c] = <<>>
  BY <1>t, <1>1 DEF Mount, Kept
<1>7. Types'
  BY <1>t, <1>1, <1>2, <1>3, <1>4, NoTodoType DEF Types, States
<1>8. Own(c)
  BY <1>t, <1>1, <1>2, <1>4 DEF Own, SameMount, Types
<1>9. Mount(c)'
  <2>1. OneRequest(c)'
    BY <1>2, <1>5, OneFrame DEF OneRequest, Waiting, Connected
  <2>2. Kept(c)'
    BY <1>t, <1>5, <1>6 DEF Mount, Kept
  <2>3. InsideLock(c)'
    <3> SUFFICES ASSUME Connected(c)'
                 PROVE  locked' = fd'[c] /\ Committed' = base'[c] /\ Ahead(c)'
      BY <1>5 DEF InsideLock
    <3>1. Connected(c)
      BY <1>2, <1>5 DEF Connected
    <3>2. locked = fd[c] /\ dirty = {} /\ image = disk
      BY <1>t, <1>1, <3>1 DEF Mount, InsideLock, disk
    <3>3. Committed = image
      BY <1>t, <3>2, CleanDisk
    <3>4. Committed' = Committed /\ UNCHANGED <<image, locked>>
      BY <1>1, SameDisk DEF serverVars
    <3> QED
      BY <1>5, <3>2, <3>3, <3>4 DEF Ahead
  <2>4. Fetched(c)' /\ Told(c)'
    BY <1>5 DEF Fetched, Told
  <2> QED
    BY <2>1, <2>2, <2>3, <2>4 DEF Mount
<1>10. \A p \in Peers : Slot(p)'
  <2>1. OneRequest(c)'
    BY <1>9 DEF Mount
  <2> QED
    BY <1>1, <1>2, <1>5, <1>8, <2>1, OwnSlots
<1>11. Coherent(c) => Coherent(c)'
  <2> SUFFICES ASSUME Coherent(c) PROVE Coherent(c)'
    OBVIOUS
  <2>1. revision' = revision
    BY <1>1 DEF serverVars
  <2>2. n <= revision
    BY <1>1 DEF Coherent, n
  <2>3. \A s \in LBA : cache'[c][s] \in {Nil, disk[s]}
    <3>1. CASE n = rev[c]
      BY <1>1, <1>5, <3>1 DEF Coherent, Within, n, disk
    <3>2. CASE n # rev[c]
      BY <1>5, <3>2 DEF NoCache
    <3> QED
      BY <3>1, <3>2
  <2> QED
    BY <1>5, <2>1, <2>2, <2>3 DEF Coherent
<1> QED
  BY <1>2, <1>7, <1>8, <1>9, <1>10, <1>11, OwnStep DEF CacheInv

\* A request inside an operation that leaves cache, buffer and view alone: a
\* fetch, a flush or the UNLOCK of a mount with nothing to flush.
LEMMA AskInside ==
  ASSUME TxnInv, NEW c \in Clients, pc[c] = "run",
         NEW to \in {"fetch", "flush", "unlock"}, Move(c, to),
         NEW r \in Server!Request, Send(c, r), r.op = AskedOp(to),
         NEW job \in Todo, todo' = [todo EXCEPT ![c] = job],
         job.kind = "write" => job.lba # 0 /\ job.data \in Data,
         to # "flush" => writes[c] = <<>>,
         to = "flush" => r.writes = writes[c],
         to = "fetch" => r.lba = job.lba,
         UNCHANGED <<serverVars, peerOf, cacheVars, fd, held, inbox, historyVars>>
  PROVE  TxnInv' /\ (CacheInv => CacheInv')
<1>t. Types /\ Mount(c)
  BY DEF TxnInv
<1>0. pc[c] \notin Waiting /\ to \in Waiting
  BY DEF Waiting
<1>1. inbox[c] = <<>> /\ (Connected(c) => inbound[fd[c]] = <<>>)
  BY <1>0, Quiet
<1>2. /\ inbound' \in [Peers -> Seq(Server!Request)]
      /\ \A p \in Peers : p # fd[c] \/ peerOf[p] # c => inbound'[p] = inbound[p]
      /\ Connected(c) => /\ inbound'[fd[c]] # <<>>
                         /\ AtMostOne(inbound'[fd[c]])
                         /\ Head(inbound'[fd[c]]) = r
  BY <1>t, <1>1, SendFacts
<1>3. /\ pc'[c] = to /\ todo'[c] = job /\ inbox'[c] = <<>> /\ fd'[c] = fd[c] /\ writes'[c] = writes[c]
      /\ held'[c] = held[c] /\ view'[c] = view[c] /\ base'[c] = base[c] /\ outcome'[c] = outcome[c]
      /\ cache'[c] = cache[c] /\ rev'[c] = rev[c] /\ (Connected(c)' <=> Connected(c))
  BY <1>t, <1>1 DEF Types, Move, cacheVars, historyVars, Connected
<1>4. Types'
  BY <1>t, <1>0, <1>2 DEF Types, States, Move, cacheVars, historyVars
<1>5. Own(c)
  BY <1>t, <1>2 DEF Own, SameMount, Types, Move, cacheVars, historyVars
<1>6. ~Granted(c)'
  BY <1>3 DEF Granted
<1>i. InsideLock(c) /\ (Connected(c) => locked = fd[c] /\ Committed = base[c] /\ Ahead(c))
  BY <1>t DEF Mount, InsideLock
<1>7. Mount(c)'
  <2>1. OneRequest(c)'
    BY <1>0, <1>2, <1>3, OneFrame DEF OneRequest
  <2>2. Kept(c)'
    BY <1>t, <1>3 DEF Mount, Kept
  <2>3. InsideLock(c)'
    <3>1. Committed' = Committed /\ UNCHANGED <<image, locked, dirty>>
      BY SameDisk DEF serverVars
    <3>2. Ahead(c)' <=> Ahead(c)
      BY <1>3, <3>1 DEF Ahead, Buffered
    <3> QED
      BY <1>3, <1>6, <1>i, <3>1, <3>2 DEF InsideLock
  <2>4. Fetched(c)' /\ Told(c)'
    BY <1>t, <1>3, <1>6 DEF Mount, Fetched, Told
  <2> QED
    BY <2>1, <2>2, <2>3, <2>4 DEF Mount
<1>8. \A p \in Peers : Slot(p)'
  <2>1. OneRequest(c)'
    BY <1>7 DEF Mount
  <2>2. Connected(c) /\ pc'[c] = "unlock" => base'[c] = Committed /\ view'[c] = image
    <3> SUFFICES ASSUME Connected(c), to = "unlock" PROVE base[c] = Committed /\ view[c] = image
      BY <1>3
    <3>1. writes[c] = <<>>
      OBVIOUS
    <3>2. \A s \in LBA : Buffered(c, s) = {}
      BY <3>1 DEF Buffered
    <3>3. \A s \in LBA : image[s] = view[c][s]
      BY <1>i, <3>2 DEF Ahead
    <3>4. image \in [LBA -> Data] /\ view[c] \in [LBA -> Data]
      BY <1>t DEF Types, TxnInv, ServerOK, Server!TypeOK, LBA
    <3> QED
      BY <1>i, <3>3, <3>4
  <2> QED
    BY <1>2, <1>3, <1>5, <1>6, <2>1, <2>2, OwnSlots
<1>9. Coherent(c) => Coherent(c)'
  <2>1. revision' = revision /\ (\A s : Buffered(c, s)' = Buffered(c, s))
    BY <1>3 DEF serverVars, Buffered
  <2> QED
    BY <1>3, <1>6, <2>1 DEF Coherent
<1> QED
  BY <1>4, <1>5, <1>7, <1>8, <1>9, OwnStep DEF CacheInv

LEMMA ReadMissStep ==
  ASSUME TxnInv, NEW c \in Clients, NEW s \in LBA \ {0}, ReadMiss(c, s)
  PROVE  TxnInv' /\ (CacheInv => CacheInv')
<1> DEFINE job == [NoTodo EXCEPT !.kind = "read", !.lba = s]
<1>1. /\ pc[c] = "run"
      /\ todo' = [todo EXCEPT ![c] = job]
      /\ UNCHANGED <<serverVars, peerOf, cacheVars, fd, held, inbox, historyVars>>
  BY DEF ReadMiss, Call
<1>2. job \in Todo /\ job.lba = s /\ job.kind = "read"
  BY NoTodoType DEF NoTodo, Todo
<1> HIDE DEF job
<1>3. CASE writes[c] = <<>>
  <2>1. Send(c, Fetch(s)) /\ Move(c, "fetch")
    BY <1>3 DEF ReadMiss
  <2>2. Fetch(s) \in Server!Request /\ Fetch(s).op = AskedOp("fetch") /\ Fetch(s).lba = s
    BY FetchType DEF AskedOp
  <2> QED
    BY <1>1, <1>2, <1>3, <2>1, <2>2, AskInside
<1>4. CASE writes[c] # <<>>
  <2>1. Send(c, Batch(c)) /\ Move(c, "flush")
    BY <1>4 DEF ReadMiss
  <2>2. Batch(c) \in Server!Request /\ Batch(c).op = AskedOp("flush") /\ Batch(c).writes = writes[c]
    BY BatchType DEF AskedOp, TxnInv
  <2> QED
    BY <1>1, <1>2, <2>1, <2>2, AskInside
<1> QED
  BY <1>3, <1>4

LEMMA CommitStep ==
  ASSUME TxnInv, NEW c \in Clients, Commit(c)
  PROVE  TxnInv' /\ (CacheInv => CacheInv')
<1>1. pc[c] = "run" /\ UNCHANGED <<serverVars, peerOf, cacheVars, fd, held, inbox, historyVars>>
  BY DEF Commit
<1>2. CASE writes[c] = <<>>
  <2>1. Send(c, Frame("UNLOCK")) /\ Move(c, "unlock") /\ todo' = todo
    BY <1>2 DEF Commit
  <2>2. Frame("UNLOCK") \in Server!Request /\ Frame("UNLOCK").op = AskedOp("unlock")
    BY FrameType DEF AskedOp, ClientOps
  <2>3. todo' = [todo EXCEPT ![c] = todo[c]] /\ todo[c] \in Todo
        /\ (todo[c].kind = "write" => todo[c].lba # 0 /\ todo[c].data \in Data)
    BY <2>1 DEF TxnInv, Types, Mount, Kept
  <2> QED
    BY <1>1, <1>2, <2>1, <2>2, <2>3, AskInside
<1>3. CASE writes[c] # <<>>
  <2> DEFINE job == [NoTodo EXCEPT !.kind = "unlock"]
  <2>1. Send(c, Batch(c)) /\ Move(c, "flush") /\ todo' = [todo EXCEPT ![c] = job]
    BY <1>3 DEF Commit
  <2>2. Batch(c) \in Server!Request /\ Batch(c).op = AskedOp("flush") /\ Batch(c).writes = writes[c]
    BY BatchType DEF AskedOp, TxnInv
  <2>3. job \in Todo /\ job.kind = "unlock"
    BY NoTodoType DEF NoTodo, Todo
  <2> HIDE DEF job
  <2> QED
    BY <1>1, <2>1, <2>2, <2>3, AskInside
<1> QED
  BY <1>2, <1>3

LEMMA AbortStep ==
  ASSUME TxnInv, NEW c \in Clients, Abort(c)
  PROVE  TxnInv' /\ (CacheInv => CacheInv')
<1>t. Types /\ Mount(c)
  BY DEF TxnInv
<1>0. /\ pc[c] = "run" /\ pc[c] \notin Waiting /\ "abort" \in Waiting
      /\ pc' = [pc EXCEPT ![c] = "abort"]
      /\ writes' = [writes EXCEPT ![c] = <<>>]
      /\ cache' = [cache EXCEPT ![c] = NoCache]
      /\ Send(c, Frame("ABORT"))
      /\ UNCHANGED <<serverVars, peerOf, rev, fd, held, todo, inbox, historyVars>>
  BY DEF Abort, Move, Waiting
<1>1. inbox[c] = <<>> /\ (Connected(c) => inbound[fd[c]] = <<>>)
  BY <1>0, Quiet
<1>r. Frame("ABORT") \in Server!Request /\ Frame("ABORT").op = AskedOp("abort")
  BY FrameType DEF AskedOp, ClientOps
<1>2. /\ inbound' \in [Peers -> Seq(Server!Request)]
      /\ \A p \in Peers : p # fd[c] \/ peerOf[p] # c => inbound'[p] = inbound[p]
      /\ Connected(c) => /\ inbound'[fd[c]] # <<>>
                         /\ AtMostOne(inbound'[fd[c]])
                         /\ Head(inbound'[fd[c]]) = Frame("ABORT")
  BY <1>t, <1>0, <1>1, <1>r, SendFacts
<1>3. /\ pc'[c] = "abort" /\ todo'[c] = todo[c] /\ inbox'[c] = <<>> /\ fd'[c] = fd[c] /\ writes'[c] = <<>>
      /\ held'[c] = held[c] /\ view'[c] = view[c] /\ base'[c] = base[c] /\ outcome'[c] = outcome[c]
      /\ cache'[c] = NoCache /\ rev'[c] = rev[c] /\ (Connected(c)' <=> Connected(c))
  BY <1>t, <1>0, <1>1 DEF Types, historyVars, Connected
<1>4. Types'
  BY <1>t, <1>0, <1>2, NoTodoType DEF Types, States, historyVars
<1>5. Own(c)
  BY <1>t, <1>0, <1>2 DEF Own, SameMount, Types, historyVars
<1>6. ~Granted(c)'
  BY <1>3 DEF Granted
<1>7. Mount(c)'
  <2>1. OneRequest(c)'
    BY <1>0, <1>2, <1>3, <1>r, OneFrame DEF OneRequest
  <2>2. Kept(c)'
    BY <1>t, <1>0, <1>3 DEF Mount, Kept
  <2>3. InsideLock(c)' /\ Fetched(c)' /\ Told(c)'
    BY <1>t, <1>0, <1>3, <1>6 DEF Mount, InsideLock, Fetched, Told
  <2> QED
    BY <2>1, <2>2, <2>3 DEF Mount
<1>8. \A p \in Peers : Slot(p)'
  <2>1. OneRequest(c)'
    BY <1>7 DEF Mount
  <2> QED
    BY <1>0, <1>2, <1>3, <1>5, <1>6, <2>1, OwnSlots
<1>9. Coherent(c) => Coherent(c)'
  <2>1. revision' = revision
    BY <1>0 DEF serverVars
  <2> QED
    BY <1>3, <1>6, <2>1 DEF Coherent, NoCache
<1> QED
  BY <1>0, <1>4, <1>5, <1>7, <1>8, <1>9, OwnStep DEF CacheInv

\* finish() returns: the cache is kept under the revision the server reported.
LEMMA FinishReplyStep ==
  ASSUME TxnInv, NEW c \in Clients, FinishReply(c)
  PROVE  TxnInv' /\ (CacheInv => CacheInv')
<1> DEFINE n == Answer(c).number
<1>t. Types /\ Mount(c)
  BY DEF TxnInv
<1>0. /\ pc[c] \in {"unlock", "abort"} /\ inbox[c] # <<>> /\ Granted(c)
      /\ inbox' = [inbox EXCEPT ![c] = Tail(@)]
      /\ rev' = [rev EXCEPT ![c] = n]
      /\ held' = [held EXCEPT ![c] = FALSE]
      /\ pc' = [pc EXCEPT ![c] = "idle"]
      /\ UNCHANGED <<serverVars, peerOf, inbound, cache, writes, fd, todo, historyVars>>
  BY DEF FinishReply, Accepted, Answer, Granted, Move, socketVars
<1>1. inbox' = [inbox EXCEPT ![c] = <<>>] /\ (Connected(c) => inbound[fd[c]] = <<>>)
  BY <1>0, TakeReply
<1>2. n \in Nat
  BY <1>0, ReplyType DEF Server!Reply
<1> HIDE DEF n
<1>3. /\ pc'[c] = "idle" /\ todo'[c] = todo[c] /\ inbox'[c] = <<>> /\ fd'[c] = fd[c]
      /\ writes'[c] = writes[c] /\ ~held'[c] /\ view'[c] = view[c] /\ base'[c] = base[c]
      /\ cache'[c] = cache[c] /\ rev'[c] = n /\ (Connected(c)' <=> Connected(c))
  BY <1>t, <1>0, <1>1 DEF Types, historyVars, Connected
<1>4. Types'
  BY <1>t, <1>0, <1>1, <1>2 DEF Types, States, historyVars
<1>5. Own(c)
  BY <1>t, <1>0, <1>1 DEF Own, SameMount, Types, historyVars
<1>6. ~Granted(c)'
  BY <1>3 DEF Granted
<1>7. Mount(c)'
  <2>1. OneRequest(c)'
    BY <1>0, <1>1, <1>3, OneFrame DEF OneRequest, Waiting
  <2>2. Kept(c)'
    BY <1>t, <1>0, <1>3 DEF Mount, Kept
  <2>3. InsideLock(c)' /\ Fetched(c)' /\ Told(c)'
    BY <1>3 DEF InsideLock, Fetched, Told
  <2> QED
    BY <2>1, <2>2, <2>3 DEF Mount
<1>8. \A p \in Peers : Slot(p)'
  <2>1. OneRequest(c)'
    BY <1>7 DEF Mount
  <2> QED
    BY <1>0, <1>3, <1>5, <1>6, <2>1, OwnSlots
<1>9. Coherent(c) => Coherent(c)'
  <2> SUFFICES ASSUME Coherent(c) PROVE Coherent(c)'
    OBVIOUS
  <2>1. revision' = revision /\ Committed' = Committed
    BY <1>0, SameDisk DEF serverVars
  <2>2. n <= revision
    BY <1>0 DEF Coherent, n
  <2>3. n = revision => Within(c, Committed)
    BY <1>0 DEF Coherent, Within, NoCache, n
  <2>4. Within(c, Committed)' <=> Within(c, Committed)
    BY <1>3, <2>1 DEF Within
  <2> QED
    BY <1>3, <1>6, <2>1, <2>2, <2>3, <2>4 DEF Coherent
<1> QED
  BY <1>0, <1>4, <1>5, <1>7, <1>8, <1>9, OwnStep DEF CacheInv

\* cache_put leaves in a slot the new sector, the old one or none.
LEMMA CachePutWithin ==
  ASSUME NEW old, NEW new, NEW f \in CachePut(old, new), NEW s \in LBA
  PROVE  f[s] \in {Nil, IF new[s] # Nil THEN new[s] ELSE old[s]}
  BY DEF CachePut

LEMMA CachePutType ==
  ASSUME NEW old, NEW new, NEW f \in CachePut(old, new)
  PROVE  f \in [LBA -> Data \cup {Nil}]
  BY DEF CachePut

\* The fetched sectors enter the cache.
LEMMA FetchReplyStep ==
  ASSUME TxnInv, NEW c \in Clients, FetchReply(c)
  PROVE  TxnInv' /\ (CacheInv => CacheInv')
<1> DEFINE from == todo[c].lba
           got == Answer(c).sectors
           new == [t \in LBA |-> IF t - from + 1 \in DOMAIN got THEN got[t - from + 1] ELSE Nil]
<1>t. Types /\ Mount(c)
  BY DEF TxnInv
<1>0. PICK f \in CachePut(cache[c], new) :
      /\ pc[c] = "fetch" /\ inbox[c] # <<>> /\ Granted(c)
      /\ inbox' = [inbox EXCEPT ![c] = Tail(@)]
      /\ cache' = [cache EXCEPT ![c] = f]
      /\ todo' = [todo EXCEPT ![c] = NoTodo]
      /\ pc' = [pc EXCEPT ![c] = "run"]
      /\ UNCHANGED <<serverVars, peerOf, inbound, rev, writes, fd, held, historyVars>>
  BY DEF FetchReply, Accepted, Answer, Granted, Move, socketVars
<1>1. inbox' = [inbox EXCEPT ![c] = <<>>] /\ (Connected(c) => inbound[fd[c]] = <<>>)
  BY <1>0, TakeReply
<1>2. f \in [LBA -> Data \cup {Nil}]
  BY CachePutType
<1>3. /\ pc'[c] = "run" /\ todo'[c] = NoTodo /\ inbox'[c] = <<>> /\ fd'[c] = fd[c]
      /\ writes'[c] = writes[c] /\ held'[c] = held[c] /\ view'[c] = view[c] /\ base'[c] = base[c]
      /\ cache'[c] = f /\ rev'[c] = rev[c] /\ outcome'[c] = outcome[c]
      /\ (Connected(c)' <=> Connected(c))
  BY <1>t, <1>0, <1>1 DEF Types, historyVars, Connected
<1>4. Types'
  BY <1>t, <1>0, <1>1, <1>2, NoTodoType DEF Types, States, historyVars
<1>5. Own(c)
  BY <1>t, <1>0, <1>1 DEF Own, SameMount, Types, historyVars
<1>6. ~Granted(c)'
  BY <1>3 DEF Granted
<1>7. Mount(c)'
  <2>1. OneRequest(c)'
    BY <1>0, <1>1, <1>3, OneFrame DEF OneRequest, Waiting
  <2>2. Kept(c)'
    BY <1>t, <1>0, <1>3 DEF Mount, Kept, NoTodo
  <2>3. InsideLock(c)'
    <3>1. Committed' = Committed /\ UNCHANGED <<image, locked>>
      BY <1>0, SameDisk DEF serverVars
    <3>2. Ahead(c)' <=> Ahead(c)
      BY <1>3, <3>1 DEF Ahead, Buffered
    <3> QED
      BY <1>t, <1>0, <1>3, <1>6, <3>1, <3>2 DEF Mount, InsideLock
  <2>4. Fetched(c)' /\ Told(c)'
    BY <1>t, <1>0, <1>3 DEF Mount, Fetched, Told
  <2> QED
    BY <2>1, <2>2, <2>3, <2>4 DEF Mount
<1>8. \A p \in Peers : Slot(p)'
  <2>1. OneRequest(c)'
    BY <1>7 DEF Mount
  <2> QED
    BY <1>0, <1>3, <1>5, <1>6, <2>1, OwnSlots
<1>9. Coherent(c) => Coherent(c)'
  <2> SUFFICES ASSUME Coherent(c) PROVE Coherent(c)'
    OBVIOUS
  <2>1. revision' = revision
    BY <1>0 DEF serverVars
  <2>2. writes[c] = <<>> /\ held[c]
    BY <1>t, <1>0 DEF Mount, Kept
  <2>3. \A s \in LBA : Buffered(c, s) = {}
    BY <2>2 DEF Buffered
  <2>4. ASSUME NEW s \in LBA PROVE f[s] \in {Nil, view[c][s]}
    <3>1. cache[c][s] \in {Nil, view[c][s]}
      BY <2>2, <2>3 DEF Coherent
    <3>2. new[s] \in {Nil, view[c][s]}
      <4>1. CASE s - from + 1 \in DOMAIN got
        <5>1. got[s - from + 1] = view[c][from + (s - from + 1) - 1]
          BY <1>t, <1>0, <4>1 DEF Mount, Fetched
        <5>2. from + (s - from + 1) - 1 = s
          BY SMTT(60), <1>t, SameNames, ServerAssumption DEF Types, Todo
        <5> QED
          BY <4>1, <5>1, <5>2
      <4>2. CASE s - from + 1 \notin DOMAIN got
        BY <4>2
      <4> QED
        BY <4>1, <4>2
    <3>3. cache[c] \in [LBA -> Data \cup {Nil}]
      BY <1>t DEF Types
    <3> HIDE DEF new
    <3> QED
      BY <3>1, <3>2, <3>3, CachePutWithin
  <2> QED
    BY <1>3, <1>6, <2>1, <2>4 DEF Coherent
<1> QED
  BY <1>0, <1>4, <1>5, <1>7, <1>8, <1>9, OwnStep DEF CacheInv

\* A write into the buffer, which becomes w: the view gets the sector, and so
\* does the buffer.
Buffering(c, s, d, w) ==
    /\ pc[c] = "run"
    /\ writes' = [writes EXCEPT ![c] = w]
    /\ view' = [view EXCEPT ![c][s] = d]
    /\ \A i, j \in DOMAIN w : w[i].lba = w[j].lba => i = j
    /\ \A i \in DOMAIN w : w[i].data = IF w[i].lba = s THEN d ELSE view[c][w[i].lba]
    /\ \E i \in DOMAIN w : w[i].lba = s
    /\ \A t \in LBA : t # s /\ Buffered(c, t) # {} => \E i \in DOMAIN w : w[i].lba = t
    /\ UNCHANGED <<serverVars, peerOf, inbound, rev, cache, fd, held, inbox, base, outcome, pc, todo>>

LEMMA WriteInside ==
  ASSUME TxnInv, NEW c \in Clients, NEW s \in LBA \ {0}, NEW d \in Data, NEW w \in Seq(Record),
         Buffering(c, s, d, w)
  PROVE  TxnInv' /\ (CacheInv => CacheInv')
<1> USE DEF Buffering
<1>t. Types /\ Mount(c)
  BY DEF TxnInv
<1>0. pc[c] \notin Waiting
  BY DEF Waiting
<1>1. inbox[c] = <<>> /\ (Connected(c) => inbound[fd[c]] = <<>>)
  BY <1>0, Quiet
<1>2. /\ writes'[c] = w
      /\ view[c] \in [LBA -> Data]
      /\ view'[c] = [view[c] EXCEPT ![s] = d]
      /\ view' \in [Clients -> [LBA -> Data]]
  BY <1>t DEF Types
<1>3. \A t \in LBA : view'[c][t] = IF t = s THEN d ELSE view[c][t]
  BY <1>2
<1>4. /\ Buffered(c, s)' # {}
      /\ \A t \in LBA : Buffered(c, t)' = {} => t # s /\ Buffered(c, t) = {}
  BY SMTT(60), <1>2 DEF Buffered
<1>5. Types'
  BY <1>t, <1>2 DEF Types
<1>6. Own(c)
  BY <1>t DEF Own, SameMount, Types
<1>7. ~Granted(c)'
  BY <1>1 DEF Granted
<1>8. Mount(c)'
  <2>1. OneRequest(c)'
    BY <1>0, <1>1, OneFrame DEF OneRequest, Connected
  <2>2. Kept(c)'
    <3>0. \A i \in DOMAIN w : w[i] \in Record
      OBVIOUS
    <3>1. \A i \in DOMAIN w : w[i].lba \in LBA
      BY <3>0 DEF Record
    <3>2. \A i \in DOMAIN w : w[i].data = view'[c][w[i].lba]
      BY <1>3, <3>1
    <3> QED
      BY <1>t, <1>2, <3>2 DEF Mount, Kept
  <2>3. InsideLock(c)'
    <3>1. Committed' = Committed /\ UNCHANGED <<image, locked>>
      BY SameDisk DEF serverVars
    <3>2. Ahead(c) => Ahead(c)'
      BY <1>3, <1>4, <3>1 DEF Ahead
    <3> QED
      BY <1>t, <1>7, <3>1, <3>2 DEF Mount, InsideLock, Connected
  <2>4. Fetched(c)' /\ Told(c)'
    BY <1>t DEF Mount, Fetched, Told
  <2> QED
    BY <2>1, <2>2, <2>3, <2>4 DEF Mount
<1>9. \A p \in Peers : Slot(p)'
  <2>1. OneRequest(c)' /\ held[c]
    BY <1>t, <1>8 DEF Mount, Kept
  <2> QED
    BY <1>6, <1>7, <2>1, OwnSlots
<1>10. Coherent(c) => Coherent(c)'
  <2>1. revision' = revision
    BY DEF serverVars
  <2> QED
    BY <1>3, <1>4, <1>7, <2>1 DEF Coherent
<1> QED
  BY <1>5, <1>6, <1>8, <1>9, <1>10, OwnStep DEF CacheInv

LEMMA WriteStep ==
  ASSUME TxnInv, NEW c \in Clients, NEW s \in LBA \ {0}, NEW d \in Data, Write(c, s, d)
  PROVE  TxnInv' /\ (CacheInv => CacheInv')
<1>t. Types /\ Kept(c)
  BY DEF TxnInv, Mount
<1>0. pc[c] = "run" /\ UNCHANGED <<serverVars, peerOf, rev, cache, fd, held, inbox, base, outcome>>
  BY DEF Write, Call
<1>r. [lba |-> s, data |-> d] \in Record
  BY DEF Record
<1>w. /\ writes[c] \in Seq(Record)
      /\ \A i, j \in DOMAIN writes[c] : writes[c][i].lba = writes[c][j].lba => i = j
      /\ \A i \in DOMAIN writes[c] : writes[c][i].data = view[c][writes[c][i].lba]
  BY <1>t DEF Types, Kept
<1>1. CASE /\ Buffered(c, s) # {}
           /\ writes' = [writes EXCEPT ![c] =
                            [i \in DOMAIN @ |-> IF @[i].lba = s THEN [lba |-> s, data |-> d] ELSE @[i]]]
           /\ view' = [view EXCEPT ![c][s] = d]
           /\ UNCHANGED <<inbound, pc, todo>>
  <2> DEFINE old == writes[c]
             w == [i \in DOMAIN old |-> IF old[i].lba = s THEN [lba |-> s, data |-> d] ELSE old[i]]
  <2>0. view' = [view EXCEPT ![c][s] = d] /\ UNCHANGED <<inbound, pc, todo>>
    BY <1>1
  <2>1. writes' = [writes EXCEPT ![c] = w]
    BY <1>1
  <2>2. DOMAIN w = DOMAIN old /\ \A i \in DOMAIN old : w[i].lba = old[i].lba
    OBVIOUS
  <2>3. w \in Seq(Record)
    BY <1>w, <1>r
  <2>4. \A i \in DOMAIN w : w[i].data = IF w[i].lba = s THEN d ELSE view[c][w[i].lba]
    BY <1>w
  <2>5. \A i, j \in DOMAIN w : w[i].lba = w[j].lba => i = j
    BY <1>w, <2>2
  <2> HIDE DEF w
  <2>6. /\ \E i \in DOMAIN w : w[i].lba = s
        /\ \A t \in LBA : t # s /\ Buffered(c, t) # {} => \E i \in DOMAIN w : w[i].lba = t
    BY <1>1, <2>2 DEF Buffered
  <2>7. Buffering(c, s, d, w)
    BY <1>0, <2>0, <2>1, <2>4, <2>5, <2>6 DEF Buffering
  <2> QED
    BY <2>3, <2>7, WriteInside
<1>2. CASE /\ Buffered(c, s) = {}
           /\ writes' = [writes EXCEPT ![c] = Append(@, [lba |-> s, data |-> d])]
           /\ view' = [view EXCEPT ![c][s] = d]
           /\ UNCHANGED <<inbound, pc, todo>>
  <2> DEFINE old == writes[c]
             rec == [lba |-> s, data |-> d]
             w == Append(old, rec)
  <2>0. view' = [view EXCEPT ![c][s] = d] /\ UNCHANGED <<inbound, pc, todo>>
    BY <1>2
  <2>1. writes' = [writes EXCEPT ![c] = w]
    BY <1>2
  <2>2. w \in Seq(Record) /\ Len(old) \in Nat /\ DOMAIN old = 1 .. Len(old)
        /\ DOMAIN w = 1 .. Len(old) + 1
        /\ w[Len(old) + 1] = rec /\ \A i \in DOMAIN old : w[i] = old[i]
    BY <1>w, <1>r
  <2>3. \A i \in DOMAIN old : old[i].lba # s
    BY <1>2 DEF Buffered
  <2>4. rec.lba = s /\ rec.data = d
    OBVIOUS
  <2> HIDE DEF w, rec
  <2>n. \A i \in DOMAIN w : i \in DOMAIN old \/ i = Len(old) + 1
    BY <2>2
  <2>5. \A i, j \in DOMAIN w : w[i].lba = w[j].lba => i = j
    BY <1>w, <2>2, <2>3, <2>4, <2>n
  <2>6. \A i \in DOMAIN w : w[i].data = IF w[i].lba = s THEN d ELSE view[c][w[i].lba]
    BY <1>w, <2>2, <2>3, <2>4, <2>n
  <2>7. \E i \in DOMAIN w : w[i].lba = s
    BY <2>2, <2>4
  <2>8. \A t \in LBA : t # s /\ Buffered(c, t) # {} => \E i \in DOMAIN w : w[i].lba = t
    BY <2>2 DEF Buffered
  <2>9. Buffering(c, s, d, w)
    BY <1>0, <2>0, <2>1, <2>5, <2>6, <2>7, <2>8 DEF Buffering
  <2> QED
    BY <2>2, <2>9, WriteInside
<1>3. CASE /\ Send(c, Batch(c))
           /\ Move(c, "flush")
           /\ todo' = [todo EXCEPT ![c] = [kind |-> "write", lba |-> s, data |-> d]]
           /\ UNCHANGED <<writes, view>>
  <2> DEFINE job == [kind |-> "write", lba |-> s, data |-> d]
  <2>1. Batch(c) \in Server!Request /\ Batch(c).op = AskedOp("flush") /\ Batch(c).writes = writes[c]
    BY <1>t, BatchType DEF AskedOp
  <2>2. job \in Todo /\ job.lba # 0 /\ job.data \in Data
    BY DEF Todo
  <2>3. todo' = [todo EXCEPT ![c] = job]
    BY <1>3
  <2>4. UNCHANGED <<serverVars, peerOf, cacheVars, fd, held, inbox, historyVars>>
    BY <1>0, <1>3 DEF cacheVars, historyVars
  <2> HIDE DEF job
  <2> QED
    BY <1>0, <1>3, <2>1, <2>2, <2>3, <2>4, AskInside
<1> QED
  BY <1>1, <1>2, <1>3 DEF Write

\* What a flush that succeeded puts into the cache is the operation's view.
LEMMA FlushFill ==
  ASSUME TxnInv, NEW c \in Clients, held[c], Coherent(c),
         NEW f \in CachePut(cache[c], BufferedSectors(c)), NEW s \in LBA
  PROVE  f[s] \in {Nil, view[c][s]}
<1>t. /\ cache[c] \in [LBA -> Data \cup {Nil}] /\ writes[c] \in Seq(Record)
      /\ \A i \in DOMAIN writes[c] : writes[c][i].data = view[c][writes[c][i].lba]
  BY DEF TxnInv, Types, Mount, Kept
<1>1. CASE Buffered(c, s) = {}
  <2>1. BufferedSectors(c)[s] = Nil
    BY <1>1 DEF BufferedSectors
  <2>2. cache[c][s] \in {Nil, view[c][s]}
    BY <1>1 DEF Coherent
  <2> QED
    BY <1>t, <2>1, <2>2, CachePutWithin
<1>2. CASE Buffered(c, s) # {}
  <2> DEFINE i == CHOOSE j \in Buffered(c, s) : TRUE
  <2>1. i \in Buffered(c, s) /\ BufferedSectors(c)[s] = writes[c][i].data
    BY <1>2 DEF BufferedSectors
  <2>2. i \in DOMAIN writes[c] /\ writes[c][i].lba = s
    BY <2>1 DEF Buffered
  <2>3. writes[c][i] \in Record
    BY <1>t, <2>2
  <2>4. BufferedSectors(c)[s] = view[c][s] /\ BufferedSectors(c)[s] # Nil
    BY <1>t, <2>1, <2>2, <2>3, NamesAssumption DEF Record
  <2> HIDE DEF i
  <2> QED
    BY <1>t, <2>4, CachePutWithin
<1> QED
  BY <1>1, <1>2

\* What FlushReply(c) has in common in its three continuations.
Flushed(c, f) ==
    /\ f \in CachePut(cache[c], BufferedSectors(c))
    /\ pc[c] = "flush" /\ inbox[c] # <<>> /\ Granted(c)
    /\ inbox' = [inbox EXCEPT ![c] = <<>>]
    /\ cache' = [cache EXCEPT ![c] = f]
    /\ UNCHANGED <<serverVars, peerOf, rev, fd, held, base, outcome>>

\* The flush is followed by a request of the frame r.
LEMMA FlushThenAsk ==
  ASSUME TxnInv, NEW c \in Clients, NEW f, Flushed(c, f),
         Connected(c) => inbound[fd[c]] = <<>>,
         NEW to \in {"fetch", "unlock"}, Move(c, to),
         NEW r \in Server!Request, Send(c, r), r.op = AskedOp(to),
         NEW job \in Todo, todo' = [todo EXCEPT ![c] = job], job.kind # "write",
         to = "fetch" => r.lba = job.lba,
         writes' = [writes EXCEPT ![c] = <<>>], view' = view
  PROVE  TxnInv' /\ (CacheInv => CacheInv')
<1> USE DEF Flushed
<1>t. Types /\ Mount(c)
  BY DEF TxnInv
<1>0. to \in Waiting /\ held[c]
  BY <1>t DEF Waiting, Mount, Kept
<1>f. f \in [LBA -> Data \cup {Nil}]
  BY CachePutType
<1>2. /\ inbound' \in [Peers -> Seq(Server!Request)]
      /\ \A p \in Peers : p # fd[c] \/ peerOf[p] # c => inbound'[p] = inbound[p]
      /\ Connected(c) => /\ inbound'[fd[c]] # <<>>
                         /\ AtMostOne(inbound'[fd[c]])
                         /\ Head(inbound'[fd[c]]) = r
  BY <1>t, SendFacts
<1>3. /\ pc'[c] = to /\ todo'[c] = job /\ inbox'[c] = <<>> /\ fd'[c] = fd[c] /\ writes'[c] = <<>>
      /\ held'[c] = held[c] /\ view'[c] = view[c] /\ base'[c] = base[c] /\ outcome'[c] = outcome[c]
      /\ cache'[c] = f /\ rev'[c] = rev[c] /\ (Connected(c)' <=> Connected(c))
  BY <1>t DEF Types, Move, Connected
<1>4. Types'
  BY <1>t, <1>0, <1>2, <1>f DEF Types, States, Move
<1>5. Own(c)
  BY <1>t, <1>2 DEF Own, SameMount, Types, Move
<1>6. ~Granted(c)'
  BY <1>3 DEF Granted
<1>i. Connected(c) => locked = fd[c] /\ Committed = base[c] /\ image = view[c]
  BY <1>t DEF Mount, InsideLock
<1>7. Mount(c)'
  <2>1. OneRequest(c)'
    BY <1>0, <1>2, <1>3, OneFrame DEF OneRequest
  <2>2. Kept(c)'
    BY <1>t, <1>3 DEF Mount, Kept
  <2>3. InsideLock(c)'
    <3>1. Committed' = Committed /\ UNCHANGED <<image, locked, dirty>>
      BY SameDisk DEF serverVars
    <3> QED
      BY <1>3, <1>6, <1>i, <3>1 DEF InsideLock, Ahead
  <2>4. Fetched(c)' /\ Told(c)'
    BY <1>t, <1>3, <1>6 DEF Mount, Fetched, Told
  <2> QED
    BY <2>1, <2>2, <2>3, <2>4 DEF Mount
<1>8. \A p \in Peers : Slot(p)'
  <2>1. OneRequest(c)'
    BY <1>7 DEF Mount
  <2> QED
    BY <1>i, <1>2, <1>3, <1>5, <1>6, <2>1, OwnSlots
<1>9. Coherent(c) => Coherent(c)'
  <2> SUFFICES ASSUME Coherent(c) PROVE Coherent(c)'
    OBVIOUS
  <2>1. revision' = revision
    BY DEF serverVars
  <2>2. \A s \in LBA : f[s] \in {Nil, view[c][s]}
    BY <1>0, FlushFill
  <2> QED
    BY <1>3, <1>6, <2>1, <2>2 DEF Coherent
<1> QED
  BY <1>4, <1>5, <1>7, <1>8, <1>9, OwnStep DEF CacheInv

\* The flush is followed by the write that had no room.
LEMMA FlushThenWrite ==
  ASSUME TxnInv, NEW c \in Clients, NEW f, Flushed(c, f),
         Connected(c) => inbound[fd[c]] = <<>>,
         Move(c, "run"),
         NEW s \in LBA \ {0}, NEW d \in Data, NEW rec \in Record, rec.lba = s, rec.data = d,
         writes' = [writes EXCEPT ![c] = <<rec>>],
         view' = [view EXCEPT ![c][s] = d],
         todo' = [todo EXCEPT ![c] = NoTodo], inbound' = inbound
  PROVE  TxnInv' /\ (CacheInv => CacheInv')
<1> USE DEF Flushed
<1>t. Types /\ Mount(c)
  BY DEF TxnInv
<1>0. "run" \notin Waiting /\ held[c]
  BY <1>t DEF Waiting, Mount, Kept
<1>f. f \in [LBA -> Data \cup {Nil}]
  BY CachePutType
<1>w. <<rec>> \in Seq(Record) /\ DOMAIN <<rec>> = {1} /\ <<rec>>[1] = rec
  OBVIOUS
<1>3. /\ pc'[c] = "run" /\ todo'[c] = NoTodo /\ inbox'[c] = <<>> /\ fd'[c] = fd[c]
      /\ held'[c] = held[c] /\ base'[c] = base[c] /\ outcome'[c] = outcome[c]
      /\ cache'[c] = f /\ rev'[c] = rev[c] /\ (Connected(c)' <=> Connected(c))
  BY <1>t DEF Types, Move, Connected
<1>2. /\ writes'[c] = <<rec>>
      /\ view[c] \in [LBA -> Data]
      /\ view'[c] = [view[c] EXCEPT ![s] = d]
      /\ view' \in [Clients -> [LBA -> Data]]
  BY <1>t DEF Types
<1>v. \A t \in LBA : view'[c][t] = IF t = s THEN d ELSE view[c][t]
  BY <1>2
<1>b. \A t \in LBA : Buffered(c, t)' = {} => t # s
  BY <1>2, <1>w DEF Buffered
<1>4. Types'
  BY <1>t, <1>2, <1>w, <1>f, NoTodoType DEF Types, States, Move
<1>5. Own(c)
  BY <1>t DEF Own, SameMount, Types, Move
<1>6. ~Granted(c)'
  BY <1>3 DEF Granted
<1>i. Connected(c) => locked = fd[c] /\ Committed = base[c] /\ image = view[c]
  BY <1>t DEF Mount, InsideLock
<1>7. Mount(c)'
  <2>1. OneRequest(c)'
    BY <1>0, <1>3, OneFrame DEF OneRequest
  <2>2. Kept(c)'
    BY <1>t, <1>2, <1>3, <1>w, <1>v DEF Mount, Kept, NoTodo
  <2>3. InsideLock(c)'
    <3>1. Committed' = Committed /\ UNCHANGED <<image, locked, dirty>>
      BY SameDisk DEF serverVars
    <3>2. Connected(c) => Ahead(c)'
      BY <1>i, <1>v, <1>b, <3>1 DEF Ahead
    <3> QED
      BY <1>3, <1>6, <1>i, <3>1, <3>2 DEF InsideLock
  <2>4. Fetched(c)' /\ Told(c)'
    BY <1>t, <1>3, <1>6 DEF Mount, Fetched, Told
  <2> QED
    BY <2>1, <2>2, <2>3, <2>4 DEF Mount
<1>8. \A p \in Peers : Slot(p)'
  <2>1. OneRequest(c)'
    BY <1>7 DEF Mount
  <2> QED
    BY <1>0, <1>3, <1>5, <1>6, <2>1, OwnSlots
<1>9. Coherent(c) => Coherent(c)'
  <2> SUFFICES ASSUME Coherent(c) PROVE Coherent(c)'
    OBVIOUS
  <2>1. revision' = revision
    BY DEF serverVars
  <2>2. \A t \in LBA : f[t] \in {Nil, view[c][t]}
    BY <1>0, FlushFill
  <2>3. \A t \in LBA : Buffered(c, t)' = {} => f[t] \in {Nil, view'[c][t]}
    BY <1>v, <1>b, <2>2
  <2> QED
    BY <1>3, <1>6, <2>1, <2>3 DEF Coherent
<1> QED
  BY <1>4, <1>5, <1>7, <1>8, <1>9, OwnStep DEF CacheInv

LEMMA FlushReplyStep ==
  ASSUME TxnInv, NEW c \in Clients, FlushReply(c)
  PROVE  TxnInv' /\ (CacheInv => CacheInv')
<1>t. Types /\ Kept(c)
  BY DEF TxnInv, Mount
<1>0. /\ inbox[c] # <<>>
      /\ inbox' = [inbox EXCEPT ![c] = Tail(@)]
  BY DEF FlushReply, Accepted
<1>1. inbox' = [inbox EXCEPT ![c] = <<>>] /\ (Connected(c) => inbound[fd[c]] = <<>>)
  BY <1>0, TakeReply
<1>2. PICK f : Flushed(c, f)
  BY <1>1 DEF FlushReply, Accepted, Flushed, Granted, Answer
<1>j. todo[c] \in Todo
  BY <1>t DEF Types
<1>3. CASE /\ todo[c].kind = "read"
           /\ Send(c, Fetch(todo[c].lba))
           /\ Move(c, "fetch")
           /\ writes' = [writes EXCEPT ![c] = <<>>]
           /\ UNCHANGED <<todo, view>>
  <2>1. todo' = [todo EXCEPT ![c] = todo[c]] /\ todo[c].lba \in LBA
    BY <1>3, <1>t, <1>j DEF Types, Todo
  <2>2. Fetch(todo[c].lba) \in Server!Request /\ Fetch(todo[c].lba).op = AskedOp("fetch")
        /\ Fetch(todo[c].lba).lba = todo[c].lba
    BY <2>1, FetchType DEF AskedOp
  <2> QED
    BY <1>1, <1>2, <1>3, <1>j, <2>1, <2>2, FlushThenAsk
<1>4. CASE /\ todo[c].kind = "write"
           /\ Move(c, "run")
           /\ writes' = [writes EXCEPT ![c] = <<[lba |-> todo[c].lba, data |-> todo[c].data]>>]
           /\ view' = [view EXCEPT ![c][todo[c].lba] = todo[c].data]
           /\ todo' = [todo EXCEPT ![c] = NoTodo]
           /\ UNCHANGED inbound
  <2> DEFINE s == todo[c].lba
             d == todo[c].data
             rec == [lba |-> s, data |-> d]
  <2>1. s \in LBA \ {0} /\ d \in Data
    BY <1>4, <1>t, <1>j DEF Todo, Kept
  <2>2. rec \in Record /\ rec.lba = s /\ rec.data = d
    BY <2>1 DEF Record
  <2>3. /\ Move(c, "run")
        /\ writes' = [writes EXCEPT ![c] = <<rec>>]
        /\ view' = [view EXCEPT ![c][s] = d]
        /\ todo' = [todo EXCEPT ![c] = NoTodo]
        /\ inbound' = inbound
    BY <1>4
  <2> HIDE DEF s, d, rec
  <2> QED
    BY <1>1, <1>2, <2>1, <2>2, <2>3, FlushThenWrite
<1>5. CASE /\ todo[c].kind = "unlock"
           /\ Send(c, Frame("UNLOCK"))
           /\ Move(c, "unlock")
           /\ writes' = [writes EXCEPT ![c] = <<>>]
           /\ todo' = [todo EXCEPT ![c] = NoTodo]
           /\ UNCHANGED view
  <2>1. NoTodo \in Todo /\ NoTodo.kind # "write"
    BY NoTodoType DEF NoTodo
  <2>2. Frame("UNLOCK") \in Server!Request /\ Frame("UNLOCK").op = AskedOp("unlock")
    BY FrameType DEF AskedOp, ClientOps
  <2> QED
    BY <1>1, <1>2, <1>5, <2>1, <2>2, FlushThenAsk
<1> QED
  BY <1>3, <1>4, <1>5 DEF FlushReply

\* A new connection: a fresh mount on a free slot.
LEMMA ConnectStep ==
  ASSUME TxnInv, NEW c \in Clients, NEW q \in Peers, Connect(c, q)
  PROVE  TxnInv' /\ (CacheInv => CacheInv')
<1>t. Types /\ Mount(c) /\ ServerOK
  BY DEF TxnInv
<1>0. /\ pc[c] = "off" /\ peerOf[q] = None
      /\ peerOf' = [peerOf EXCEPT ![q] = c]
      /\ fd' = [fd EXCEPT ![c] = q]
      /\ rev' = [rev EXCEPT ![c] = 0]
      /\ UNCHANGED <<serverVars, cache, writes, held, todo, inbox, historyVars>>
  BY DEF Connect
<1>1. PICK to \in {"hello", "oldhello"}, r \in Server!Request :
         /\ r.op = AskedOp(to)
         /\ inbound' = [inbound EXCEPT ![q] = <<r>>]
         /\ pc' = [pc EXCEPT ![c] = to]
  <2>1. Frame("HELLO_SHARED") \in Server!Request /\ Frame("HELLO_SHARED").op = AskedOp("hello")
    BY FrameType DEF AskedOp, ClientOps
  <2>2. Frame("HELLO") \in Server!Request /\ Frame("HELLO").op = AskedOp("oldhello")
    BY FrameType DEF AskedOp, ClientOps
  <2> QED
    BY <2>1, <2>2 DEF Connect
<1>2. /\ to \in Waiting /\ pc[c] \notin Waiting /\ to \in States /\ q # None /\ c # None
  BY <1>0, NamesAssumption DEF Waiting, States
<1>3. inbox[c] = <<>>
  BY <1>2, Quiet
<1>4. /\ pc'[c] = to /\ todo'[c] = todo[c] /\ inbox'[c] = <<>> /\ fd'[c] = q /\ writes'[c] = writes[c]
      /\ held'[c] = held[c] /\ view'[c] = view[c] /\ base'[c] = base[c]
      /\ cache'[c] = cache[c] /\ rev'[c] = 0
      /\ inbound'[q] = <<r>> /\ peerOf'[q] = c
  BY <1>t, <1>0, <1>1, <1>3 DEF Types, historyVars
<1>p. /\ inbound' \in [Peers -> Seq(Server!Request)]
      /\ \A p \in Peers : p # q => inbound'[p] = inbound[p] /\ peerOf'[p] = peerOf[p]
  <2>1. <<r>> \in Seq(Server!Request)
    OBVIOUS
  <2> QED
    BY <1>t, <1>0, <1>1, <2>1 DEF Types
<1>5. Types'
  BY <1>t, <1>0, <1>1, <1>2, <1>p DEF Types, historyVars
<1>s. UNCHANGED <<image, undo, dirty, locked, revision>> /\ Committed' = Committed
  BY <1>0, SameDisk DEF serverVars
<1>6. ServerOK'
  BY <1>t, <1>0, ServerUnchanged
<1>7. ASSUME NEW d \in Clients, d # c PROVE Mount(d)' /\ (Coherent(d) => Coherent(d)')
  <2>1. SameMount(d)
    BY <1>t, <1>0, <1>1, <1>7 DEF SameMount, Types, historyVars
  <2>2. Connected(d)' <=> Connected(d)
    BY <1>0, <1>4, <1>p, <1>7, <2>1, <1>t, NamesAssumption DEF Connected, SameMount, Types
  <2>3. Connected(d) => inbound'[fd[d]] = inbound[fd[d]]
    BY <1>0, <1>p, <1>7, <1>t, NamesAssumption DEF Connected, Types
  <2> QED
    BY <1>s, <2>1, <2>2, <2>3, MountFrame DEF TxnInv
<1>g. ~Granted(c)'
  BY <1>4 DEF Granted
<1>8. Mount(c)'
  <2>1. OneRequest(c)'
    BY <1>1, <1>2, <1>4, OneFrame DEF OneRequest
  <2>2. Kept(c)'
    BY <1>t, <1>0, <1>4 DEF Mount, Kept
  <2>3. InsideLock(c)' /\ Fetched(c)' /\ Told(c)'
    BY <1>4, <1>g DEF InsideLock, Fetched, Told
  <2> QED
    BY <2>1, <2>2, <2>3 DEF Mount
<1>9. ASSUME NEW p \in Peers PROVE Slot(p)'
  <2>1. CASE p = q
    <3>1. Head(inbound'[p]).op # "UNLOCK"
      BY <1>1, <1>2, <1>4, <2>1, OneFrame, AskedUnlock
    <3> QED
      BY <1>4, <2>1, <3>1, OneFrame DEF Slot, Sealed
  <2>2. CASE p # q
    <3>1. Slot(p) /\ inbound'[p] = inbound[p] /\ peerOf'[p] = peerOf[p] /\ UNCHANGED <<image, locked>>
      BY <1>p, <1>s, <2>2 DEF TxnInv
    <3>2. CASE peerOf[p] = c
      <4>1. fd'[c] # p /\ ~held[c]
        BY <1>t, <1>0, <1>4, <2>2 DEF Mount, Kept
      <4> QED
        BY <1>4, <1>g, <1>s, <3>1, <3>2, <4>1 DEF Slot, Sealed
    <3>3. CASE peerOf[p] = None
      BY <3>1, <3>3 DEF Slot, Sealed
    <3>4. CASE peerOf[p] \in Clients /\ peerOf[p] # c
      <4>1. SameMount(peerOf[p])
        BY <1>t, <1>0, <1>1, <3>4 DEF SameMount, Types, historyVars
      <4> QED
        BY <1>s, <3>1, <4>1 DEF Slot, Sealed, SameMount, Granted, Answer
    <3> QED
      BY <1>t, <3>2, <3>3, <3>4 DEF Types
  <2> QED
    BY <2>1, <2>2
<1>10. Coherent(c) => Coherent(c)'
  <2>1. 0 <= revision
    BY <1>t, ServerAssumption DEF ServerOK, Server!TypeOK
  <2>2. ~held'[c]
    BY <1>t, <1>0, <1>4 DEF Mount, Kept
  <2> QED
    BY <1>0, <1>4, <1>g, <1>s, <2>1, <2>2 DEF Coherent
<1>11. \A d \in Clients : Mount(d)'
  BY <1>7, <1>8
<1>12. CacheInv => CacheInv'
  BY <1>7, <1>10 DEF CacheInv
<1> QED
  BY <1>5, <1>6, <1>9, <1>11, <1>12 DEF TxnInv

-----------------------------------------------------------------------------
(* The steps of the server.                                                  *)

\* The revision is a number that has not come to the end of its 64 bits.
NoWrap == revision + 1 < RevisionMod

\* The claims of a mount about the lock survive what the server does for others.
LEMMA BystanderLock ==
  ASSUME NEW d \in Clients, InsideLock(d),
         pc'[d] = pc[d], fd'[d] = fd[d], inbox'[d] = inbox[d], writes'[d] = writes[d],
         base'[d] = base[d], view'[d] = view[d],
         Connected(d)' => Connected(d),
         Connected(d)' /\ locked = fd[d] =>
            UNCHANGED <<image, dirty, locked>> /\ Committed' = Committed,
         Connected(d)' /\ locked # fd[d] => locked' # fd[d]
  PROVE  InsideLock(d)'
<1>1. (Granted(d)' <=> Granted(d)) /\ \A s : Buffered(d, s)' = Buffered(d, s)
  BY DEF Granted, Answer, Buffered
<1>2. CASE ~Connected(d)'
  BY <1>2 DEF InsideLock
<1>3. CASE Connected(d)' /\ locked = fd[d]
  <2>1. Ahead(d)' <=> Ahead(d)
    BY <1>1, <1>3 DEF Ahead
  <2> QED
    BY <1>1, <1>3, <2>1 DEF InsideLock
<1>4. CASE Connected(d)' /\ locked # fd[d]
  BY <1>1, <1>4 DEF InsideLock
<1> QED
  BY <1>2, <1>3, <1>4

\* A connection is given up: its mount keeps what it has and claims nothing
\* about the server any more.
LEMMA ResetStep ==
  ASSUME TxnInv, NEW p \in Peers, peerOf[p] # None, Reset(p)
  PROVE  TxnInv' /\ (CacheInv => CacheInv')
<1>t. Types /\ ServerOK
  BY DEF TxnInv
<1>0. /\ Server!Release(p)
      /\ peerOf' = [peerOf EXCEPT ![p] = None]
      /\ inbound' = [inbound EXCEPT ![p] = <<>>]
      /\ UNCHANGED <<fd, pc, held, todo, inbox, rev, cache, writes, base, view>>
  BY DEF Reset, processVars, cacheVars
<1>1. ServerOK'
  BY <1>t, <1>0, ServerStepOK
<1>2. /\ Committed' = Committed /\ revision' = revision
      /\ locked # p => image' = image /\ dirty' = dirty /\ locked' = locked
      /\ locked = p => locked' = None
  BY <1>t, <1>0, ReleaseFacts
<1>3. /\ outcome' \in [Clients -> {"none", "open", "dropped", "committed"}]
      /\ \A d \in Clients : outcome'[d] = outcome[d] \/
                             (outcome'[d] = "dropped" /\ locked = p /\ fd[d] = p /\ peerOf[p] = d)
  BY <1>t DEF Reset, Types
<1>4. /\ inbound' \in [Peers -> Seq(Server!Request)] /\ inbound'[p] = <<>> /\ peerOf'[p] = None
      /\ \A q \in Peers : q # p => inbound'[q] = inbound[q] /\ peerOf'[q] = peerOf[q]
  BY <1>t, <1>0 DEF Types
<1>5. Types'
  BY <1>t, <1>0, <1>3, <1>4 DEF Types
<1>6. ASSUME NEW d \in Clients PROVE Mount(d)' /\ (Coherent(d) => Coherent(d)')
  <2>t. Mount(d) /\ fd[d] \in Peers \cup {None} /\ d # None
    BY <1>t, NamesAssumption DEF TxnInv, Types
  <2>g. (Granted(d)' <=> Granted(d)) /\ Answer(d)' = Answer(d) /\ \A s : Buffered(d, s)' = Buffered(d, s)
    BY <1>0 DEF Granted, Answer, Buffered
  <2>c. Connected(d)' <=> Connected(d) /\ fd[d] # p
    BY <1>0, <1>4, <2>t DEF Connected
  <2>1. OneRequest(d)'
    BY <1>0, <1>4, <2>t, <2>c DEF Mount, OneRequest, Connected
  <2>2. Kept(d)'
    BY <1>0, <2>t DEF Mount, Kept
  <2>3. InsideLock(d)'
    <3>1. Connected(d)' /\ locked = fd[d] =>
            UNCHANGED <<image, dirty, locked>> /\ Committed' = Committed
      BY <1>2, <2>c
    <3>2. Connected(d)' /\ locked # fd[d] => locked' # fd[d]
      BY <1>0, <1>2 DEF Connected
    <3> QED
      BY <1>0, <2>t, <2>c, <3>1, <3>2, BystanderLock DEF Mount
  <2>4. Fetched(d)'
    BY <1>0, <2>t, <2>g DEF Mount, Fetched
  <2>5. Told(d)'
    <3>1. pc[d] = "unlock" /\ Granted(d) /\ Connected(d) => locked # fd[d]
      BY <2>t DEF Mount, InsideLock
    <3>2. fd[d] = p /\ peerOf[p] = d => Connected(d)
      BY NamesAssumption DEF Connected
    <3> QED
      BY <1>0, <1>3, <2>t, <2>g, <3>1, <3>2 DEF Mount, Told
  <2>6. Coherent(d) => Coherent(d)'
    BY <1>0, <1>2, <2>g DEF Coherent, Within
  <2> QED
    BY <2>1, <2>2, <2>3, <2>4, <2>5, <2>6 DEF Mount
<1>7. ASSUME NEW q \in Peers PROVE Slot(q)'
  <2>1. CASE q = p
    BY <1>4, <2>1, OneFrame DEF Slot, Sealed
  <2>2. CASE q # p
    <3>1. Slot(q) /\ inbound'[q] = inbound[q] /\ peerOf'[q] = peerOf[q]
      BY <1>4, <2>2 DEF TxnInv
    <3>2. locked' = q => locked = q /\ image' = image
      BY <1>2, NamesAssumption
    <3> QED
      BY <1>0, <1>2, <3>1, <3>2 DEF Slot, Sealed, Granted, Answer
  <2> QED
    BY <2>1, <2>2
<1> QED
  BY <1>1, <1>5, <1>6, <1>7 DEF TxnInv, CacheInv

\* A batch of buffered writes turns the draft into the operation's view.
LEMMA BatchWritten ==
  ASSUME TxnInv, NEW c \in Clients, Ahead(c)
  PROVE  Server!Written(image, writes[c]) = view[c]
<1> DEFINE w == writes[c]
<1>0. /\ w \in Seq(Record) /\ view[c] \in [LBA -> Data]
      /\ \A i, j \in DOMAIN w : w[i].lba = w[j].lba => i = j
      /\ \A i \in DOMAIN w : w[i].data = view[c][w[i].lba]
  BY DEF TxnInv, Types, Mount, Kept
<1>1. ASSUME NEW s \in LBA
      PROVE  (IF Server!LastWrite(w, s) = {} THEN image[s]
              ELSE w[CHOOSE i \in Server!LastWrite(w, s) : TRUE].data) = view[c][s]
  <2>1. CASE Server!LastWrite(w, s) = {}
    <3>1. \A i, j \in DOMAIN w : j > i => i # j
      BY <1>0
    <3>2. \A i \in DOMAIN w : w[i].lba # s
      BY <1>0, <2>1, <3>1 DEF Server!LastWrite
    <3>3. Buffered(c, s) = {}
      BY <3>2 DEF Buffered
    <3> QED
      BY <2>1, <3>3 DEF Ahead
  <2>2. CASE Server!LastWrite(w, s) # {}
    <3> DEFINE i == CHOOSE j \in Server!LastWrite(w, s) : TRUE
    <3>1. i \in Server!LastWrite(w, s)
      BY <2>2
    <3>2. i \in DOMAIN w /\ w[i].lba = s
      BY <3>1 DEF Server!LastWrite
    <3> HIDE DEF i
    <3>3. w[i].data = view[c][s]
      BY <1>0, <3>2
    <3> QED
      BY <2>2, <3>3 DEF i
  <2> QED
    BY <2>1, <2>2
<1>2. Server!Written(image, w) = [s \in LBA |-> view[c][s]]
  BY <1>1 DEF Server!Written, LBA
<1> QED
  BY <1>0, <1>2

\* The frame r of mount c, on slot p, has been handled.
Served(p, c, r) ==
    /\ peerOf[p] = c /\ inbound[p] # <<>> /\ Head(inbound[p]) = r
    /\ Server!Handle(p, r)
    /\ inbound'[p] = <<>>
    /\ \A q \in Peers : q # p => inbound'[q] = inbound[q]
    /\ UNCHANGED <<peerOf, fd, pc, held, todo, rev, cache, writes, base, view>>
    /\ \A d \in Clients : d # c \/ fd[d] # p => inbox'[d] = inbox[d] /\ outcome'[d] = outcome[d]

\* ... and its mount, which is still waiting, is sent the answer.
Replied(c, r) ==
    /\ pc[c] \in Waiting /\ inbox[c] = <<>> /\ r.op = AskedOp(pc[c])
    /\ pc[c] = "flush" => r.writes = writes[c]
    /\ pc[c] = "fetch" => r.lba = todo[c].lba
    /\ inbox'[c] = <<[frame |-> reply', disk |-> Committed]>>
    /\ outcome'[c] = IF reply'.status # "OK" THEN outcome[c]
                     ELSE IF r.op = "UNLOCK" THEN "committed"
                     ELSE IF r.op = "ABORT" THEN "dropped" ELSE outcome[c]

LEMMA DiskTypes ==
  ASSUME ServerOK
  PROVE  /\ image \in [LBA -> Data] /\ Committed \in [LBA -> Data]
         /\ revision \in Nat /\ reply \in Server!Reply
<1>1. image \in [LBA -> Data] /\ undo \in [LBA -> Data] /\ reply \in Server!Reply
  BY DEF ServerOK, Server!TypeOK, LBA
<1>2. revision \in Nat
  BY ServerAssumption DEF ServerOK, Server!TypeOK
<1> QED
  BY <1>1, <1>2, SameNames

LEMMA ServeFacts ==
  ASSUME TxnInv, NEW p \in Peers, Serve(p)
  PROVE  /\ Types'
         /\ \E c \in Clients, r \in Server!Request : Served(p, c, r) /\ (fd[c] = p => Replied(c, r))
<1> DEFINE c == peerOf[p]
           r == Head(inbound[p])
<1>t. Types /\ ServerOK
  BY DEF TxnInv
<1>0. /\ c # None /\ inbound[p] # <<>>
      /\ Server!Handle(p, r)
      /\ inbound' = [inbound EXCEPT ![p] = Tail(@)]
      /\ UNCHANGED <<peerOf, fd, pc, held, todo, rev, cache, writes, base, view>>
  BY DEF Serve, cacheVars
<1>1. c \in Clients /\ r \in Server!Request
  <2>1. inbound[p] \in Seq(Server!Request)
    BY <1>t DEF Types
  <2> QED
    BY <1>t, <1>0, <2>1 DEF Types
<1>2. inbound'[p] = <<>> /\ \A q \in Peers : q # p => inbound'[q] = inbound[q]
  <2>1. AtMostOne(inbound[p])
    BY DEF TxnInv, Slot
  <2> QED
    BY <1>t, <1>0, <2>1 DEF Types, AtMostOne
<1>3. inbound' \in [Peers -> Seq(Server!Request)]
  <2>1. Tail(inbound[p]) \in Seq(Server!Request)
    BY <1>t, <1>0 DEF Types
  <2> QED
    BY <1>t, <1>0, <2>1 DEF Types
<1>4. ServerOK'
  BY <1>t, <1>0, <1>1, ServerStepOK
<1>5. Committed \in [LBA -> Data] /\ reply' \in Server!Reply
  <2>1. Committed \in [LBA -> Data]
    BY <1>t, DiskTypes
  <2>2. reply' \in Server!Reply
    BY <1>4 DEF ServerOK, Server!TypeOK
  <2> QED
    BY <2>1, <2>2
<1> DEFINE letter == [frame |-> reply', disk |-> Committed]
<1>6. letter \in Letter
  BY <1>5 DEF Letter
<1>7. CASE fd[c] = p
  <2>1. inbox' = [inbox EXCEPT ![c] = Append(@, letter)]
    BY <1>7 DEF Serve
  <2>2. Connected(c) /\ OneRequest(c) /\ inbound[fd[c]] # <<>>
    BY <1>0, <1>1, <1>7, NamesAssumption DEF Connected, TxnInv, Mount
  <2>3. /\ pc[c] \in Waiting /\ inbox[c] = <<>> /\ r.op = AskedOp(pc[c])
        /\ pc[c] = "flush" => r.writes = writes[c]
        /\ pc[c] = "fetch" => r.lba = todo[c].lba
    BY <1>7, <2>2 DEF OneRequest
  <2> HIDE DEF letter, c, r
  <2>4. inbox' = [inbox EXCEPT ![c] = <<letter>>]
    BY <1>t, <1>1, <2>1, <2>3, OneFrame DEF Types
  <2>5. <<letter>> \in Seq(Letter)
    BY <1>6
  <2>6. inbox' \in [Clients -> Seq(Letter)] /\ inbox'[c] = <<letter>>
    BY <1>t, <1>1, <2>4, <2>5 DEF Types
  <2>7. \A d \in Clients : d # c => inbox'[d] = inbox[d]
    BY <1>t, <2>4 DEF Types
  <2>8. outcome' = IF reply'.status = "OK" /\ r.op \in {"UNLOCK", "ABORT"}
                   THEN [outcome EXCEPT ![c] = IF r.op = "UNLOCK" THEN "committed" ELSE "dropped"]
                   ELSE outcome
    BY <1>7 DEF Serve, c, r
  <2>9. /\ outcome' \in [Clients -> {"none", "open", "dropped", "committed"}]
        /\ \A d \in Clients : d # c => outcome'[d] = outcome[d]
        /\ outcome'[c] = IF reply'.status # "OK" THEN outcome[c]
                         ELSE IF r.op = "UNLOCK" THEN "committed"
                         ELSE IF r.op = "ABORT" THEN "dropped" ELSE outcome[c]
    BY <1>t, <1>1, <2>8 DEF Types
  <2>10. Types'
    BY <1>t, <1>0, <1>3, <2>6, <2>9 DEF Types
  <2>11. Served(p, c, r)
    BY <1>0, <1>2, <1>7, <2>7, <2>9 DEF Served, c, r
  <2>12. Replied(c, r)
    BY <2>3, <2>6, <2>9 DEF Replied, letter
  <2> QED
    BY <1>1, <2>10, <2>11, <2>12
<1>8. CASE fd[c] # p
  <2>1. inbox' = inbox /\ outcome' = outcome
    BY <1>8 DEF Serve
  <2>2. Types'
    BY <1>t, <1>0, <1>3, <2>1 DEF Types
  <2>3. Served(p, c, r)
    BY <1>0, <1>2, <2>1 DEF Served
  <2> QED
    BY <1>1, <1>8, <2>2, <2>3
<1> QED
  BY <1>7, <1>8

\* The other mounts, and the mount of an earlier connection of the slot.
LEMMA ServedBystander ==
  ASSUME TxnInv, NEW p \in Peers, NEW c \in Clients, NEW r \in Server!Request, Served(p, c, r),
         NEW d \in Clients, d # c \/ fd[d] # p
  PROVE  /\ Mount(d)'
         /\ Coherent(d) /\ NoWrap => Coherent(d)'
<1>t. Types /\ ServerOK /\ Mount(d)
  BY DEF TxnInv
<1>0. /\ Server!Handle(p, r) /\ peerOf[p] = c
      /\ \A q \in Peers : q # p => inbound'[q] = inbound[q]
      /\ UNCHANGED <<peerOf, fd, pc, held, todo, rev, cache, writes, base, view>>
      /\ inbox'[d] = inbox[d] /\ outcome'[d] = outcome[d]
  BY DEF Served
<1>1. /\ locked \notin {None, p} => UNCHANGED <<image, dirty, revision, locked>> /\ Committed' = Committed
      /\ locked' \in {locked, None, p}
      /\ revision' = revision => Committed' = Committed
      /\ NoWrap => revision' \in {revision, revision + 1}
  BY <1>t, <1>0, HandleFacts DEF NoWrap
<1>2. /\ Granted(d)' <=> Granted(d)
      /\ Answer(d)' = Answer(d)
      /\ \A s : Buffered(d, s)' = Buffered(d, s)
      /\ Connected(d)' <=> Connected(d)
  BY <1>0 DEF Granted, Answer, Buffered, Connected
<1>3. Connected(d) => fd[d] \in Peers /\ fd[d] # p /\ inbound'[fd[d]] = inbound[fd[d]]
  BY <1>t, <1>0 DEF Connected, Types
<1>4. OneRequest(d)'
  BY <1>t, <1>0, <1>2, <1>3 DEF Mount, OneRequest
<1>5. Kept(d)'
  BY <1>t, <1>0 DEF Mount, Kept
<1>6. InsideLock(d)'
  <2>1. Connected(d)' /\ locked = fd[d] =>
          UNCHANGED <<image, dirty, locked>> /\ Committed' = Committed
    BY <1>1, <1>2, <1>3 DEF Connected
  <2>2. Connected(d)' /\ locked # fd[d] => locked' # fd[d]
    BY <1>1, <1>2, <1>3 DEF Connected
  <2> QED
    BY <1>t, <1>0, <1>2, <2>1, <2>2, BystanderLock DEF Mount
<1>7. Fetched(d)' /\ Told(d)'
  BY <1>t, <1>0, <1>2 DEF Mount, Fetched, Told
<1>8. ASSUME Coherent(d), NoWrap PROVE Coherent(d)'
  <2>1. revision \in Nat /\ rev[d] \in Nat /\ rev[d] <= revision
    BY <1>t, <1>8, DiskTypes DEF Types, Coherent
  <2>2. rev'[d] <= revision' /\ (rev[d] = revision' => rev[d] = revision /\ Committed' = Committed)
    BY <1>0, <1>1, <1>8, <2>1
  <2>3. Granted(d) => Answer(d).number \in Nat
    <3>1. inbox[d] \in Seq(Letter)
      BY <1>t DEF Types
    <3>2. Granted(d) => Head(inbox[d]) \in Letter
      BY <3>1 DEF Granted
    <3> QED
      BY <3>2, ServerAssumption DEF Letter, Answer, Server!Reply
  <2>4. Granted(d) /\ Answer(d).number <= revision =>
          /\ Answer(d).number <= revision'
          /\ Answer(d).number = revision' => Answer(d).number = revision /\ Committed' = Committed
    BY <1>1, <1>8, <2>1, <2>3
  <2> QED
    BY <1>0, <1>2, <1>8, <2>2, <2>4 DEF Coherent, Within
<1> QED
  BY <1>4, <1>5, <1>6, <1>7, <1>8 DEF Mount

LEMMA AskedOps ==
  ASSUME NEW state \in Waiting
  PROVE  /\ AskedOp(state) = "LOCK" <=> state = "lock"
         /\ AskedOp(state) = "UNLOCK" <=> state = "unlock"
         /\ AskedOp(state) = "ABORT" <=> state = "abort"
         /\ AskedOp(state) = "READ_BATCH" <=> state = "fetch"
         /\ AskedOp(state) = "WRITE_BATCH" <=> state = "flush"
         /\ AskedOp(state) = "STAT" <=> state = "stat"
  BY DEF AskedOp, Waiting

\* What the answer says about the lock and the draft.
LEMMA ServedLock ==
  ASSUME TxnInv, NEW p \in Peers, NEW c \in Clients, NEW r \in Server!Request, Served(p, c, r),
         fd[c] = p, Replied(c, r)
  PROVE  /\ pc[c] = "lock" /\ reply'.status = "OK" =>
              locked' = p /\ dirty' = {} /\ image' = Committed /\ revision' = revision
              /\ reply'.number = revision
         /\ pc[c] \in {"stat", "flush", "fetch"} =>
              locked' = p /\ Committed' = base[c] /\ Committed' = Committed
         /\ pc[c] \in {"stat", "fetch"} => Ahead(c) /\ image' = image
         /\ pc[c] = "flush" /\ reply'.status # "OK" => Ahead(c) /\ image' = image
         /\ pc[c] = "flush" /\ reply'.status = "OK" => image' = view[c]
         /\ pc[c] = "unlock" /\ reply'.status = "OK" =>
              /\ locked' = None /\ Committed' = view[c]
              /\ reply'.number = revision'
         /\ pc[c] = "abort" /\ reply'.status = "OK" => reply'.number = revision'
         /\ pc[c] = "fetch" /\ reply'.status = "OK" =>
              \A i \in DOMAIN reply'.sectors : reply'.sectors[i] = view[c][todo[c].lba + i - 1]
<1>t. Types /\ ServerOK /\ Mount(c) /\ Slot(p)
  BY DEF TxnInv
<1>0. /\ Server!Handle(p, r) /\ peerOf[p] = c /\ inbound[p] # <<>> /\ Head(inbound[p]) = r
      /\ pc[c] \in Waiting /\ r.op = AskedOp(pc[c])
      /\ pc[c] = "flush" => r.writes = writes[c]
      /\ pc[c] = "fetch" => r.lba = todo[c].lba
      /\ p # None /\ c # None
  BY NamesAssumption DEF Served, Replied
<1>1. Connected(c)
  BY <1>0 DEF Connected
<1>2. pc[c] = "lock" /\ reply'.status = "OK" =>
        locked' = p /\ dirty' = {} /\ image' = Committed /\ revision' = revision
        /\ reply'.number = revision
  BY ZenonT(60), <1>t, <1>0, AskedOps, AcceptedFacts, CleanDisk
<1>3. ASSUME pc[c] \in {"stat", "flush", "fetch"}
      PROVE  /\ locked = p /\ locked' = p /\ Committed' = base[c] /\ Committed' = Committed
             /\ Ahead(c)
  <2>1. locked = p /\ Committed = base[c] /\ Ahead(c)
    BY <1>t, <1>1, <1>3 DEF Mount, InsideLock
  <2>2. r.op \notin {"UNLOCK", "ABORT"}
    BY <1>0, <1>3, AskedOps
  <2>3. locked' = p /\ Committed' = Committed
    BY <1>t, <1>0, <2>1, <2>2, HandleFacts
  <2> QED
    BY <2>1, <2>3
<1>4. pc[c] \in {"stat", "fetch"} => image' = image
  <2>1. pc[c] \in {"stat", "fetch"} => r.op \notin {"WRITE", "WRITE_BATCH", "UNLOCK", "ABORT"}
    BY <1>0 DEF AskedOp
  <2> QED
    BY <1>t, <1>0, <2>1, HandleFacts
<1>5. pc[c] = "flush" /\ reply'.status # "OK" => image' = image
  BY <1>t, <1>0, RefusedFacts
<1>6. ASSUME pc[c] = "flush", reply'.status = "OK" PROVE image' = view[c]
  <2>1. r.op = "WRITE_BATCH" /\ r.writes = writes[c]
    BY <1>0, <1>6, AskedOps
  <2>2. Server!SharedWrite(p, r) \/ Server!LegacyWrite(p, r)
    BY <1>t, <1>0, <1>6, <2>1, AcceptedFacts
  <2>3. ~Server!LegacyWrite(p, r)
    BY <1>t, <1>0, <1>3, <1>6, LegacyWriteFacts
  <2>4. image' = Server!Written(image, r.writes)
    BY <1>t, <2>1, <2>2, <2>3, SharedWriteFacts
  <2> QED
    BY <1>3, <1>6, <2>1, <2>4, BatchWritten
<1>7. ASSUME pc[c] = "unlock", reply'.status = "OK"
      PROVE  locked' = None /\ Committed' = view[c] /\ reply'.number = revision'
  <2>1. r.op = "UNLOCK"
    BY <1>0, <1>7, AskedOps
  <2>2. locked = p /\ Server!Finish(TRUE) /\ reply'.number = revision'
    BY <1>t, <1>0, <1>7, <2>1, AcceptedFacts
  <2>3. Committed' = image /\ locked' = None
    BY <1>t, <2>2, FinishFacts
  <2>4. view[c] = image
    BY <1>t, <1>0, <2>1, <2>2 DEF Slot, Sealed
  <2> QED
    BY <2>2, <2>3, <2>4
<1>8. pc[c] = "abort" /\ reply'.status = "OK" => reply'.number = revision'
  BY ZenonT(60), <1>t, <1>0, AskedOps, AcceptedFacts
<1>9. ASSUME pc[c] = "fetch", reply'.status = "OK"
      PROVE  \A i \in DOMAIN reply'.sectors : reply'.sectors[i] = view[c][todo[c].lba + i - 1]
  <2>1. r.op = "READ_BATCH" /\ r.lba = todo[c].lba
    BY <1>0, <1>9, AskedOps
  <2>2. /\ reply'.sectors = [i \in 1 .. r.count |-> image[r.lba + i - 1]]
        /\ \A i \in 1 .. r.count : r.lba + i - 1 \in LBA
    BY <1>t, <1>0, <1>9, <2>1, AcceptedFacts
  <2>3. \A s \in LBA : image[s] = view[c][s]
    <3>1. writes[c] = <<>>
      BY <1>t, <1>9 DEF Mount, Kept
    <3>2. \A s \in LBA : Buffered(c, s) = {}
      BY <3>1 DEF Buffered
    <3> QED
      BY <1>3, <1>9, <3>2 DEF Ahead
  <2> QED
    BY <2>1, <2>2, <2>3
<1> QED
  BY <1>2, <1>3, <1>4, <1>5, <1>6, <1>7, <1>8, <1>9

\* The mount that is sent the answer.
LEMMA ServedOwner ==
  ASSUME TxnInv, NEW p \in Peers, NEW c \in Clients, NEW r \in Server!Request, Served(p, c, r),
         fd[c] = p, Replied(c, r)
  PROVE  /\ Mount(c)'
         /\ Coherent(c) /\ NoWrap => Coherent(c)'
<1>t. Types /\ ServerOK /\ Mount(c)
  BY DEF TxnInv
<1>0. /\ Server!Handle(p, r) /\ peerOf[p] = c /\ p # None
      /\ inbound'[p] = <<>>
      /\ UNCHANGED <<peerOf, fd, pc, held, todo, rev, cache, writes, base, view>>
      /\ pc[c] \in Waiting /\ r.op = AskedOp(pc[c])
      /\ outcome'[c] = IF reply'.status # "OK" THEN outcome[c]
                       ELSE IF r.op = "UNLOCK" THEN "committed"
                       ELSE IF r.op = "ABORT" THEN "dropped" ELSE outcome[c]
  BY NamesAssumption DEF Served, Replied
<1>1. /\ inbox'[c] # <<>> /\ AtMostOne(inbox'[c])
      /\ Head(inbox'[c]).frame = reply' /\ Head(inbox'[c]).disk = Committed
  <2> DEFINE letter == [frame |-> reply', disk |-> Committed]
  <2>1. inbox'[c] = <<letter>>
    BY DEF Replied
  <2>2. letter.frame = reply' /\ letter.disk = Committed
    OBVIOUS
  <2> HIDE DEF letter
  <2> QED
    BY <2>1, <2>2, OneFrame
<1>2. /\ Granted(c)' <=> reply'.status = "OK"
      /\ Answer(c)' = reply'
      /\ \A s : Buffered(c, s)' = Buffered(c, s)
      /\ Connected(c)
  BY <1>0, <1>1 DEF Granted, Answer, Buffered, Connected
<1>3. OneRequest(c)'
  BY <1>0, <1>1 DEF OneRequest
<1>4. Kept(c)'
  BY <1>t, <1>0 DEF Mount, Kept
<1>5. InsideLock(c)'
  <2>1. pc[c] = "lock" /\ reply'.status = "OK" => locked' = p /\ dirty' = {} /\ image' = Committed
    BY ServedLock
  <2>2. pc[c] \in {"stat", "flush", "fetch"} => locked' = p /\ Committed' = base[c]
    BY ServedLock
  <2>3. pc[c] \in {"stat", "flush", "fetch"} => Ahead(c)'
    <3>1. pc[c] \in {"stat", "flush", "fetch"} => (Ahead(c) /\ image' = image) \/ image' = view[c]
      BY ServedLock
    <3> QED
      BY <1>0, <1>2, <3>1 DEF Ahead
  <2>4. pc[c] = "flush" /\ reply'.status = "OK" => image' = view[c]
    BY ServedLock
  <2>5. pc[c] = "unlock" /\ reply'.status = "OK" => locked' = None
    BY ServedLock
  <2>6. pc[c] # "run"
    BY <1>0 DEF Waiting
  <2> QED
    BY <1>0, <1>1, <1>2, <2>1, <2>2, <2>3, <2>4, <2>5, <2>6 DEF InsideLock
<1>6. Fetched(c)'
  BY <1>0, <1>2, ServedLock DEF Fetched
<1>7. Told(c)'
  BY <1>t, <1>0, <1>2, AskedOps DEF Mount, Told
<1>8. ASSUME Coherent(c), NoWrap PROVE Coherent(c)'
  <2>1. revision \in Nat /\ rev[c] \in Nat /\ rev[c] <= revision
    BY <1>t, <1>8, DiskTypes DEF Types, Coherent
  <2>2. /\ revision' = revision => Committed' = Committed
        /\ revision' \in {revision, revision + 1}
    BY <1>t, <1>0, <1>8, HandleFacts DEF NoWrap
  <2>3. /\ rev'[c] <= revision'
        /\ rev[c] = revision' => rev[c] = revision /\ Committed' = Committed
    BY <1>0, <2>1, <2>2
  <2>4. pc[c] \in {"lock", "unlock", "abort"} /\ reply'.status = "OK" =>
          reply'.number = revision' /\ reply'.number <= revision'
    <3>1. pc[c] \in {"lock", "unlock", "abort"} /\ reply'.status = "OK" => reply'.number = revision'
      BY ServedLock
    <3> QED
      BY <2>1, <2>2, <3>1
  <2>5. pc[c] = "lock" /\ reply'.status = "OK" /\ reply'.number = rev[c] => Within(c, Committed)
    <3>1. pc[c] = "lock" /\ reply'.status = "OK" => reply'.number = revision
      BY ServedLock
    <3> QED
      BY <1>8, <3>1 DEF Coherent
  <2>6. pc[c] = "unlock" /\ reply'.status = "OK" => \A s \in LBA : cache[c][s] \in {Nil, Committed'[s]}
    <3>1. pc[c] = "unlock" => held[c] /\ writes[c] = <<>>
      BY <1>t DEF Mount, Kept
    <3>2. pc[c] = "unlock" => \A s \in LBA : Buffered(c, s) = {}
      BY <3>1 DEF Buffered
    <3>3. pc[c] = "unlock" /\ reply'.status = "OK" => Committed' = view[c]
      BY ServedLock
    <3> QED
      BY <1>8, <3>1, <3>2, <3>3 DEF Coherent
  <2> QED
    BY <1>0, <1>1, <1>2, <1>8, <2>3, <2>4, <2>5, <2>6 DEF Coherent, Within
<1> QED
  BY <1>3, <1>4, <1>5, <1>6, <1>7, <1>8 DEF Mount

\* A commit that is under way on another slot is not disturbed.
LEMMA ServedSlot ==
  ASSUME TxnInv, NEW p \in Peers, NEW c \in Clients, NEW r \in Server!Request, Served(p, c, r),
         fd[c] = p => Replied(c, r), NEW q \in Peers
  PROVE  Slot(q)'
<1>t. Types /\ ServerOK /\ Slot(q)
  BY DEF TxnInv
<1>0. /\ Server!Handle(p, r) /\ peerOf[p] = c /\ p # None /\ q # None
      /\ inbound'[p] = <<>>
      /\ q # p => inbound'[q] = inbound[q]
      /\ UNCHANGED <<peerOf, fd, pc, held, base, view>>
  BY NamesAssumption DEF Served
<1>1. CASE q = p
  BY <1>0, <1>1, OneFrame DEF Slot, Sealed
<1>2. CASE q # p /\ (locked' # q \/ peerOf[q] = None)
  BY <1>t, <1>0, <1>2 DEF Slot, Sealed
<1>3. CASE q # p /\ locked' = q /\ peerOf[q] # None
  <2> DEFINE e == peerOf[q]
  <2>1. locked = q /\ image' = image /\ Committed' = Committed
    BY <1>t, <1>0, <1>3, HandleFacts
  <2>2. e \in Clients
    BY <1>t, <1>3 DEF Types
  <2>3. CASE e # c \/ fd[e] # p
    <3>1. inbox'[e] = inbox[e]
      BY <2>2, <2>3 DEF Served
    <3>2. Granted(e)' <=> Granted(e)
      BY <1>0, <3>1 DEF Granted, Answer
    <3> QED
      BY <1>t, <1>0, <1>3, <2>1, <3>2 DEF Slot, Sealed
  <2>4. CASE e = c /\ fd[e] = p
    <3>1. reply'.status = "OK" => r.op # "LOCK"
      BY <1>t, <1>0, <2>1, AcceptedFacts
    <3>2. Replied(c, r)
      BY <2>4
    <3>3. Granted(c)' => reply'.status = "OK"
      <4> DEFINE letter == [frame |-> reply', disk |-> Committed]
      <4>1. inbox'[c] = <<letter>> /\ letter.frame = reply'
        BY <3>2 DEF Replied
      <4> HIDE DEF letter
      <4> QED
        BY <4>1, OneFrame DEF Granted, Answer
    <3>4. ~(pc'[c] = "lock" /\ Granted(c)')
      BY <1>0, <3>1, <3>2, <3>3, AskedOps DEF Replied
    <3>5. inbound[q] # <<>> /\ Head(inbound[q]).op = "UNLOCK" =>
            base[c] = Committed /\ view[c] = image /\ ~held[c]
      BY <1>t, <1>3, <2>1, <2>4 DEF Slot, Sealed
    <3> QED
      BY <1>t, <1>0, <1>3, <2>1, <2>4, <3>4, <3>5 DEF Slot, Sealed
  <2> QED
    BY <2>3, <2>4
<1> QED
  BY <1>1, <1>2, <1>3

\* One frame of one slot.
LEMMA ServeStep ==
  ASSUME TxnInv, NEW p \in Peers, Serve(p)
  PROVE  TxnInv' /\ (CacheInv /\ NoWrap => CacheInv')
<1>1. PICK c \in Clients, r \in Server!Request :
         Served(p, c, r) /\ (fd[c] = p => Replied(c, r))
  BY ServeFacts
<1>2. Types'
  BY ServeFacts
<1>3. ServerOK'
  BY <1>1, ServerStepOK DEF Served, TxnInv
<1>4. ASSUME NEW d \in Clients PROVE Mount(d)' /\ (Coherent(d) /\ NoWrap => Coherent(d)')
  <2>1. CASE d # c \/ fd[d] # p
    BY <1>1, <2>1, ServedBystander
  <2>2. CASE d = c /\ fd[d] = p
    BY <1>1, <2>2, ServedOwner
  <2> QED
    BY <2>1, <2>2
<1>5. \A q \in Peers : Slot(q)'
  BY <1>1, ServedSlot
<1> QED
  BY <1>2, <1>3, <1>4, <1>5 DEF TxnInv, CacheInv

-----------------------------------------------------------------------------
(* The invariants.                                                           *)

\* The server starts with nobody attached, and no machine has mounted.
LEMMA MountInit == Init => TxnInv /\ CacheInv
<1> SUFFICES ASSUME Init PROVE TxnInv /\ CacheInv
  OBVIOUS
<1>1. ServerOK
  <2>1. Proved!Init
    BY SameFree DEF Init, Server!Init, Proved!Init, Proved!LBA, Server!LBA,
                    Proved!NoReply, Server!NoReply
  <2>2. Proved!IInv
    BY <2>1, Proved!InitInv, SameNames, ServerAssumption, NamesAssumption
  <2> QED
    BY <2>2, SameInvariant
<1>2. image \in [LBA -> Data] /\ revision \in Nat
  BY <1>1, DiskTypes
<1>3. NoTodo \in Todo /\ NoCache \in [LBA -> Data \cup {Nil}] /\ "off" \in States
  BY NoTodoType DEF States
<1>4. Types
  BY <1>2, <1>3 DEF Init, Types
<1>5. ASSUME NEW c \in Clients PROVE Mount(c) /\ Coherent(c)
  <2>1. /\ pc[c] = "off" /\ fd[c] = None /\ inbox[c] = <<>> /\ writes[c] = <<>>
        /\ held[c] = FALSE /\ todo[c] = NoTodo /\ cache[c] = NoCache /\ rev[c] = 0
    BY DEF Init
  <2>2. ~Connected(c) /\ ~Granted(c)
    BY <2>1 DEF Connected, Granted
  <2>3. OneRequest(c)
    BY <2>1, <2>2, OneFrame DEF OneRequest, Waiting
  <2>4. Kept(c)
    BY <2>1 DEF Kept, NoTodo
  <2>5. InsideLock(c) /\ Fetched(c) /\ Told(c)
    BY <2>1, <2>2 DEF InsideLock, Fetched, Told
  <2>6. 0 <= revision
    BY <1>2
  <2>7. Coherent(c)
    BY <2>1, <2>2, <2>6 DEF Coherent
  <2> QED
    BY <2>3, <2>4, <2>5, <2>7 DEF Mount
<1>6. \A p \in Peers : Slot(p)
  BY OneFrame DEF Init, Slot, Sealed
<1> QED
  BY <1>1, <1>4, <1>5, <1>6 DEF TxnInv, CacheInv

\* What a mount does by itself, answers included.
LEMMA ProgressStep ==
  ASSUME TxnInv, NEW c \in Clients, Progress(c) \/ GiveUp(c) \/ Ask(c)
  PROVE  TxnInv' /\ (CacheInv => CacheInv')
<1>1. CASE Ask(c)
  <2>1. CASE \E p \in Peers : Connect(c, p)
    BY <2>1, ConnectStep
  <2>2. CASE Unmount(c)
    BY <2>2, ForgetStep
  <2>3. CASE Heartbeat(c) \/ Begin(c) \/ Free(c) \/ \E s \in LBA \ {0}, d \in Data : OldWrite(c, s, d)
    BY <2>3, PlainSends
  <2>4. ASSUME NEW s \in LBA \ {0}, ReadMiss(c, s) PROVE TxnInv' /\ (CacheInv => CacheInv')
    BY <2>4, ReadMissStep
  <2>5. ASSUME NEW s \in LBA \ {0}, NEW d \in Data, Write(c, s, d)
        PROVE  TxnInv' /\ (CacheInv => CacheInv')
    BY <2>5, WriteStep
  <2> QED
    BY <1>1, <2>1, <2>2, <2>3, <2>4, <2>5 DEF Ask
<1>2. CASE GiveUp(c)
  BY <1>2, GiveUpStep
<1>3. CASE Progress(c)
  <2>1. CASE CapsReply(c) \/ PingReply(c) \/ OldReply(c) \/ FreeReply(c) \/ LockBusy(c)
    BY <2>1, PlainReplies
  <2>2. CASE HelloReply(c) \/ Retry(c)
    BY <2>2, PlainSends
  <2>3. CASE LockReply(c)
    BY <2>3, LockReplyStep
  <2>4. CASE FetchReply(c)
    BY <2>4, FetchReplyStep
  <2>5. CASE FlushReply(c)
    BY <2>5, FlushReplyStep
  <2>6. CASE FinishReply(c)
    BY <2>6, FinishReplyStep
  <2>7. CASE Commit(c)
    BY <2>7, CommitStep
  <2>8. CASE Abort(c)
    BY <2>8, AbortStep
  <2>9. CASE Fail(c)
    BY <2>9, ForgetStep
  <2> QED
    BY <1>3, <2>1, <2>2, <2>3, <2>4, <2>5, <2>6, <2>7, <2>8, <2>9 DEF Progress
<1> QED
  BY <1>1, <1>2, <1>3

\* Every step keeps the invariants; that of the caches as long as the revision
\* does not come round.
LEMMA MountNext ==
  ASSUME TxnInv, [Next]_vars
  PROVE  TxnInv' /\ (CacheInv /\ NoWrap => CacheInv')
<1>1. ASSUME NEW p \in Peers, ServerStep(p) \/ LeaseExpires(p)
      PROVE  TxnInv' /\ (CacheInv /\ NoWrap => CacheInv')
  <2>1. CASE Serve(p)
    BY <2>1, ServeStep
  <2>2. CASE CloseAfter(p) \/ NoticeLoss(p) \/ LeaseExpires(p)
    <3>1. peerOf[p] # None /\ Reset(p)
      BY <2>2 DEF CloseAfter, NoticeLoss, LeaseExpires
    <3> QED
      BY <3>1, ResetStep
  <2> QED
    BY <1>1, <2>1, <2>2 DEF ServerStep
<1>2. ASSUME NEW c \in Clients, Progress(c) \/ GiveUp(c) \/ Ask(c)
      PROVE  TxnInv' /\ (CacheInv /\ NoWrap => CacheInv')
  BY <1>2, ProgressStep
<1>3. CASE UNCHANGED vars
  <2>0. UNCHANGED <<serverVars, socketVars, cacheVars, processVars, historyVars>>
    BY <1>3 DEF vars
  <2>1. /\ UNCHANGED <<peerOf, inbound, fd, pc, held, rev, cache, writes, todo, inbox>>
        /\ UNCHANGED <<base, view, outcome, image, undo, dirty, locked, revision>>
    BY <2>0 DEF serverVars, socketVars, cacheVars, processVars, historyVars
  <2>2. Types'
    BY <2>1 DEF TxnInv, Types
  <2>3. ServerOK'
    BY <2>0, ServerUnchanged DEF TxnInv
  <2>4. ASSUME NEW d \in Clients PROVE Mount(d)' /\ (Coherent(d) => Coherent(d)')
    <3>1. SameMount(d)
      BY <2>1 DEF SameMount
    <3>2. Connected(d)' <=> Connected(d)
      BY <2>1 DEF Connected
    <3> QED
      BY <2>1, <3>1, <3>2, MountFrame DEF TxnInv
  <2>5. ASSUME NEW p \in Peers PROVE Slot(p)'
    BY <2>1, SameDisk DEF TxnInv, Slot, Sealed, Granted, Answer
  <2> QED
    BY <2>2, <2>3, <2>4, <2>5 DEF TxnInv, CacheInv
<1> QED
  BY <1>1, <1>2, <1>3 DEF Next

-----------------------------------------------------------------------------
(* The theorems.                                                             *)

\* Only the handling of a frame can change the committed disk or the revision.
LEMMA CommitIsServed ==
  ASSUME TxnInv, [Next]_vars, Committed' # Committed \/ revision' # revision
  PROVE  \E p \in Peers : Serve(p)
<1>s. ASSUME UNCHANGED serverVars PROVE FALSE
  BY <1>s, SameDisk DEF serverVars
<1>1. ASSUME NEW p \in Peers, Reset(p) PROVE FALSE
  BY <1>1, ReleaseFacts DEF Reset, TxnInv
<1>2. ASSUME NEW c \in Clients, Progress(c) \/ GiveUp(c) \/ Ask(c) PROVE FALSE
  <2>1. CASE Progress(c) \/ GiveUp(c)
    BY <1>s, <2>1 DEF Progress, GiveUp, HelloReply, CapsReply, PingReply, OldReply, LockReply,
         LockBusy, Retry, FetchReply, FlushReply, FreeReply, FinishReply, Commit, Abort, Fail
  <2>2. CASE Ask(c)
    BY <1>s, <2>2 DEF Ask, Connect, Unmount, Heartbeat, Begin, Free, ReadMiss, Write, OldWrite
  <2> QED
    BY <1>2, <2>1, <2>2
<1>3. CASE UNCHANGED vars
  BY <1>3, <1>s DEF vars
<1> QED
  BY <1>1, <1>2, <1>3 DEF Next, ServerStep, CloseAfter, NoticeLoss, LeaseExpires

\* A frame that changes a shared disk is the UNLOCK of a whole operation.
LEMMA CommitIsWhole ==
  ASSUME TxnInv, [Next]_vars, Committed' # Committed \/ revision' # revision, legacy = None
  PROVE  /\ locked # None
         /\ Committed = base[peerOf[locked]]
         /\ Committed' = view[peerOf[locked]]
<1>1. PICK p \in Peers : Serve(p)
  BY CommitIsServed
<1>2. PICK c \in Clients, r \in Server!Request : Served(p, c, r)
  BY <1>1, ServeFacts
<1>3. r.op = "UNLOCK" /\ locked = p /\ Committed' = image
  <2>1. Server!Handle(p, r) /\ ServerOK
    BY <1>2 DEF Served, TxnInv
  <2> QED
    BY <2>1, HandleFacts
<1>4. peerOf[p] = c /\ c # None /\ p # None /\ inbound[p] # <<>> /\ Head(inbound[p]) = r
  BY <1>2, NamesAssumption DEF Served
<1>5. Sealed(p)
  BY DEF TxnInv, Slot
<1> QED
  BY <1>3, <1>4, <1>5 DEF Sealed

\* finish() returns success only on the server's word.
LEMMA CommitIsTold ==
  ASSUME TxnInv, [Next]_vars, NEW c \in Clients, pc[c] = "unlock", pc'[c] = "idle"
  PROVE  outcome[c] = "committed"
<1>t. pc \in [Clients -> States]
  BY DEF TxnInv, Types
<1>s. pc' # pc
  OBVIOUS
<1>1. ASSUME NEW p \in Peers, ServerStep(p) \/ LeaseExpires(p) PROVE FALSE
  BY <1>s, <1>1 DEF ServerStep, Serve, CloseAfter, NoticeLoss, LeaseExpires, Reset, processVars
<1>2. ASSUME NEW d \in Clients, Progress(d) \/ GiveUp(d) \/ Ask(d) PROVE d = c /\ FinishReply(c)
  <2>1. CASE Ask(d)
    BY <1>t, <2>1 DEF Ask, Connect, Unmount, Heartbeat, Begin, Free, Call, ReadMiss, Write, OldWrite,
                      Move
  <2>2. CASE GiveUp(d)
    BY <1>t, <2>2 DEF GiveUp, Move
  <2>3. CASE Progress(d)
    <3>1. CASE HelloReply(d) \/ CapsReply(d) \/ PingReply(d) \/ OldReply(d) \/ LockReply(d)
               \/ LockBusy(d) \/ Retry(d)
      BY <1>t, <3>1 DEF HelloReply, CapsReply, PingReply, OldReply, LockReply, LockBusy, Retry,
                        Accepted, Move
    <3>2. CASE FetchReply(d) \/ FlushReply(d) \/ FreeReply(d) \/ Commit(d) \/ Abort(d) \/ Fail(d)
      BY <1>t, <3>2 DEF FetchReply, FlushReply, FreeReply, Commit, Abort, Fail, Accepted, Move
    <3>3. CASE FinishReply(d)
      BY <1>t, <3>3 DEF FinishReply, Move
    <3> QED
      BY <2>3, <3>1, <3>2, <3>3 DEF Progress
  <2> QED
    BY <1>2, <2>1, <2>2, <2>3
<1>3. ASSUME UNCHANGED vars PROVE FALSE
  BY <1>s, <1>3 DEF vars, processVars
<1>4. FinishReply(c)
  BY <1>1, <1>2, <1>3 DEF Next
<1>5. Granted(c)
  BY <1>4 DEF FinishReply, Accepted, Granted, Answer
<1> QED
  BY <1>5 DEF TxnInv, Mount, Told

\* c/rntp/sessions.c and c/rntp/linux/client.c: whatever the connections, leases and
\* timeouts do, a shared disk changes by whole operations only, each based on the very
\* disk it replaces, and finish() reports a commit only when it has happened.
THEOREM CommitsAreSerial == Spec => SerialCommits
<1> DEFINE Step ==
      /\ (Committed' # Committed \/ revision' # revision) /\ legacy = None =>
             /\ locked # None
             /\ Committed = base[peerOf[locked]]
             /\ Committed' = view[peerOf[locked]]
      /\ \A c \in Clients :
             /\ pc'[c] \in {"run", "flush", "fetch", "stat", "abort"} => outcome'[c] # "committed"
             /\ pc[c] = "unlock" /\ pc'[c] = "idle" => outcome[c] = "committed"
<1>1. Init => TxnInv
  BY MountInit
<1>2. TxnInv /\ [Next]_vars => TxnInv'
  BY MountNext
<1>3. TxnInv /\ TxnInv' /\ [Next]_vars => Step
  <2> SUFFICES ASSUME TxnInv, TxnInv', [Next]_vars PROVE Step
    OBVIOUS
  <2>1. (Committed' # Committed \/ revision' # revision) /\ legacy = None =>
             /\ locked # None
             /\ Committed = base[peerOf[locked]]
             /\ Committed' = view[peerOf[locked]]
    BY CommitIsWhole
  <2>2. ASSUME NEW c \in Clients, pc'[c] \in {"run", "flush", "fetch", "stat", "abort"}
        PROVE  outcome'[c] # "committed"
    BY <2>2 DEF TxnInv, Mount, Told
  <2>3. ASSUME NEW c \in Clients, pc[c] = "unlock", pc'[c] = "idle" PROVE outcome[c] = "committed"
    BY <2>3, CommitIsTold
  <2> QED
    BY <2>1, <2>2, <2>3
<1> QED
  BY <1>1, <1>2, <1>3, PTL DEF Spec, SerialCommits

\* c/rntp/linux/client.c keeps its cache across operations when the revision LOCK reports
\* is the one it remembers: until the 64-bit revision comes round, such a cache holds
\* nothing but the committed disk.
THEOREM CachesAreCoherent == Spec /\ []NoWrap => []CacheCoherent
<1>1. Init => TxnInv /\ CacheInv
  BY MountInit
<1>2. TxnInv /\ CacheInv /\ NoWrap /\ [Next]_vars => (TxnInv /\ CacheInv)'
  BY MountNext
<1>3. TxnInv /\ CacheInv => CacheCoherent
  BY DEF CacheInv, Coherent, Within, CacheCoherent
<1> QED
  BY <1>1, <1>2, <1>3, PTL DEF Spec

\* What Local finds is in the buffer or in the cache, and either is the view's.
LEMMA LocalIsView ==
  ASSUME TxnInv, CacheInv, NEW c \in Clients, held[c], NEW s \in LBA, Local(c, s) # Nil
  PROVE  Local(c, s) = view[c][s]
<1>0. Kept(c) /\ Coherent(c)
  BY DEF TxnInv, Mount, CacheInv
<1>1. CASE Buffered(c, s) = {}
  BY <1>0, <1>1 DEF Coherent, Local
<1>2. CASE Buffered(c, s) # {}
  <2> DEFINE i == CHOOSE j \in Buffered(c, s) : TRUE
  <2>1. i \in Buffered(c, s)
    BY <1>2
  <2>2. i \in DOMAIN writes[c] /\ writes[c][i].lba = s
    BY <2>1 DEF Buffered
  <2>3. Local(c, s) = writes[c][i].data
    BY <1>2 DEF Local
  <2> HIDE DEF i
  <2> QED
    BY <1>0, <2>2, <2>3 DEF Kept
<1> QED
  BY <1>1, <1>2

\* c/rntp/linux/client.c, rntp_client_read: every sector an operation is given, from its
\* buffer, its cache or the server, is the one of the disk at the time of its LOCK with
\* its own writes on top, even when the server has given the lock away since.
THEOREM ReadsAreSnapshots == Spec /\ []NoWrap => []SnapshotReads
<1>1. Init => TxnInv /\ CacheInv
  BY MountInit
<1>2. TxnInv /\ CacheInv /\ NoWrap /\ [Next]_vars => (TxnInv /\ CacheInv)'
  BY MountNext
<1>3. TxnInv /\ CacheInv => SnapshotReads
  <2> SUFFICES ASSUME TxnInv, CacheInv, NEW c \in Clients, held[c]
               PROVE  /\ \A s \in LBA : Local(c, s) # Nil => Local(c, s) = view[c][s]
                      /\ pc[c] = "fetch" /\ inbox[c] # <<>> /\ Answer(c).status = "OK"
                           => \A i \in DOMAIN Answer(c).sectors :
                                  Answer(c).sectors[i] = view[c][todo[c].lba + i - 1]
    BY DEF SnapshotReads
  <2>1. \A s \in LBA : Local(c, s) # Nil => Local(c, s) = view[c][s]
    BY LocalIsView
  <2>2. Fetched(c)
    BY DEF TxnInv, Mount
  <2> QED
    BY <2>1, <2>2 DEF Fetched, Granted
<1> QED
  BY <1>1, <1>2, <1>3, PTL DEF Spec

=============================================================================
