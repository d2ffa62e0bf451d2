-------------------------- MODULE RntpDeviceProofs --------------------------
(***************************************************************************)
(* Proofs about the R2 client, for every number of slots and sectors, every *)
(* size of batch and read-ahead, every kernel and every number of requests. *)
(***************************************************************************)
EXTENDS RntpDevice, TLAPS

\* The proofs about the sessions, for a server that may be sent any frame.
Proved == INSTANCE RntpSessionsProofs WITH Requests <- Server!Request

-----------------------------------------------------------------------------
(* The inductive invariant.                                                 *)

KernelOpNames == {"READ"} \cup Clearing
KernelRequest == [op : KernelOpNames, lba : LBA, data : Data, writes : Seq(Server!Record)]
Letter        == [frame : Server!Reply, disk : [LBA -> Data]]
RunType       == [lba : Nat, sectors : Seq(Data)]

Types ==
    /\ user \in [Peers -> {"none", "daemon", "other"}]
    /\ inbound \in [Peers -> Seq(Server!Request)]
    /\ inbox \in Seq(Letter)
    /\ sock \in Peers \cup {None}
    /\ shared \in BOOLEAN
    /\ inside \in BOOLEAN
    /\ stage \in {"start", "greet", "caps", "mount", "attached", "detach", "exit"}
    /\ reads \in RunType
    /\ request # None => request \in KernelRequest
    /\ view \in [LBA -> Data]

\* The answer has arrived and is no error.
Granted == inbox # <<>> /\ Answer.status = "OK"

\* What the daemon waits for at which stage, and what it has before and after.
Stages ==
    /\ stage \in {"start", "exit"} => sock = None
    /\ stage \in {"start", "detach", "exit"} => expected_op = None /\ ~retrying
    /\ stage = "greet" => expected_op = Hello
    /\ stage = "caps" => expected_op \in {None, "CAPS"}
    /\ stage = "mount" => expected_op \in {None, "STAT"}
    /\ stage = "attached" => expected_op \in {None, "STAT", "READ_BATCH"} \cup Clearing
    /\ stage \notin {"attached", "detach"} => mount = "none" /\ request = None /\ ~inside
    /\ stage # "attached" => reads = Cleared
    /\ stage \in {"start", "greet", "caps", "mount"} => done = Cleared

\* One exchange at a time: the request is on its way, or its answer, and while a
\* busy LOCK waits for its next try there is neither.
Exchange == stage # "detach" =>
    /\ \A i \in DOMAIN inbox : inbox[i] = Head(inbox)
    /\ expected_op = None => inbox = <<>>
    /\ retrying => expected_op = "LOCK" /\ inbox = <<>>
    /\ Connected =>
        /\ expected_op = None \/ retrying \/ inbox # <<>> => inbound[sock] = <<>>
        /\ inbound[sock] # <<>> =>
             LET r == Head(inbound[sock])
             IN  /\ r.op = expected_op
                 /\ expected_op = "READ_BATCH" => r.lba = request.lba
                 /\ expected_op = "WRITE_BATCH" => r.writes = request.writes
                 /\ expected_op = "WRITE" => r.lba = request.lba /\ r.data = request.data

\* What the kernel may have asked for, and what the daemon is doing about it.
Asked ==
    /\ request # None =>
        /\ request.op = "LOCK" => shared /\ ~inside
        /\ request.op \in {"UNLOCK", "ABORT"} => shared /\ inside
        /\ request.op \in {"READ", "WRITE", "WRITE_BATCH"} => ~shared \/ inside
    /\ expected_op \in Clearing => request # None /\ request.op = expected_op /\ reads = Cleared
    /\ expected_op = "READ_BATCH" => request # None /\ request.op = "READ"

\* The daemon's slot owns the disk: by the lock, or by the exclusive claim.
Active == stage \in {"caps", "mount", "attached"} /\ (~shared \/ inside)
Owns   == IF shared THEN locked = sock ELSE legacy = sock

\* While the server has not given the connection up, its disk is the kernel's.
Owner ==
    Connected =>
        /\ Active /\ (expected_op \in Clearing \ {"LOCK"} => inbox = <<>>) => Owns /\ image = view
        /\ Active /\ expected_op \in Server!WriteOps /\ Granted => Owns /\ image = Expected
        /\ expected_op = "LOCK" /\ Granted => locked = sock /\ image = Head(inbox).disk
        /\ stage = "greet" /\ ~shared /\ Granted => legacy = sock /\ image = Head(inbox).disk

\* The sectors that were read, on their way and in the buffer, connection or not.
Fetched ==
    /\ expected_op = "READ_BATCH" /\ Granted =>
         \A i \in DOMAIN Answer.sectors : Answer.sectors[i] = view[request.lba + i - 1]
    /\ \A i \in DOMAIN reads.sectors : reads.sectors[i] = view[reads.lba + i - 1]

DeviceInv ==
    /\ Types
    /\ Proved!IInv
    /\ Stages
    /\ Exchange
    /\ Asked
    /\ Owner
    /\ Fetched
    /\ ReadsCurrent
    /\ AckedIsStored

-----------------------------------------------------------------------------
(* The server.  Proved and Server are two instances of one module: what is   *)
(* proved of the first holds of the second.                                  *)

LEMMA SameNames ==
  /\ Proved!Request = Server!Request
  /\ Proved!LBA = LBA
  /\ LBA = 0 .. Sectors - 1
  /\ Proved!Committed = Committed
  /\ Committed = Server!RolledBack
  /\ Committed = [s \in LBA |-> IF s \in dirty THEN undo[s] ELSE image[s]]
<1>1. Proved!Request = Server!Request
  BY DEF Proved!Request, Server!Request, Proved!Ops, Server!Ops, Proved!Record, Server!Record,
         Proved!ControlOps, Server!ControlOps, Proved!HelloOps, Server!HelloOps,
         Proved!LockOps, Server!LockOps, Proved!BlockOps, Server!BlockOps,
         Proved!WriteOps, Server!WriteOps
<1>2. Proved!LBA = LBA /\ LBA = 0 .. Sectors - 1
  BY DEF Proved!LBA, Server!LBA, LBA
<1>3. /\ Proved!Committed = Committed
      /\ Committed = Server!RolledBack
      /\ Committed = [s \in LBA |-> IF s \in dirty THEN undo[s] ELSE image[s]]
  BY <1>2 DEF Proved!Committed, Server!Committed, Committed, LBA, Proved!LBA, Server!LBA,
              Proved!RolledBack, Server!RolledBack
<1> QED
  BY <1>1, <1>2, <1>3

LEMMA SameFree ==
  ASSUME NEW img, NEW old
  PROVE  /\ Proved!FreeClusters(img) = Server!FreeClusters(img)
         /\ Proved!FreeSpace(img, old) = Server!FreeSpace(img, old)
  BY DEF Proved!FreeClusters, Server!FreeClusters, Proved!FreeSpace, Server!FreeSpace,
         Proved!Cardinality, Server!Cardinality, Proved!IsFiniteSet, Server!IsFiniteSet

LEMMA SameWritten ==
  ASSUME NEW img, NEW records
  PROVE  Proved!Written(img, records) = Server!Written(img, records)
  BY DEF Proved!Written, Server!Written, Proved!LastWrite, Server!LastWrite,
         Proved!LBA, Server!LBA

LEMMA SameStatus ==
  ASSUME NEW p, NEW r
  PROVE  /\ Proved!HandleStatus(r) = Server!HandleStatus(r)
         /\ Proved!Records(r) = Server!Records(r)
         /\ Proved!SavesUndo(p, r) <=> Server!SavesUndo(p, r)
         /\ Proved!Status(p, r) = Server!Status(p, r)
<1> USE DEF Proved!Blank, Server!Blank, Proved!Records, Server!Records, Proved!LBA, Server!LBA,
            Proved!HelloOps, Server!HelloOps, Proved!LockOps, Server!LockOps,
            Proved!BlockOps, Server!BlockOps, Proved!WriteOps, Server!WriteOps
<1>1. Proved!HandleStatus(r) = Server!HandleStatus(r)
  BY DEF Proved!HandleStatus, Server!HandleStatus
<1>2. Proved!WriteChecked(r) <=> Server!WriteChecked(r)
  BY DEF Proved!WriteChecked, Server!WriteChecked
<1>3. Proved!SavesUndo(p, r) <=> Server!SavesUndo(p, r)
  BY <1>2 DEF Proved!SavesUndo, Server!SavesUndo
<1>4. Proved!HelloStatus(p, r) = Server!HelloStatus(p, r)
  BY DEF Proved!HelloStatus, Server!HelloStatus
<1>5. Proved!LockStatus(p, r) = Server!LockStatus(p, r)
  BY DEF Proved!LockStatus, Server!LockStatus
<1>6. Proved!BlockStatus(p, r) = Server!BlockStatus(p, r)
  BY <1>1, <1>2 DEF Proved!BlockStatus, Server!BlockStatus
<1>7. Proved!Status(p, r) = Server!Status(p, r)
  BY <1>4, <1>5, <1>6 DEF Proved!Status, Server!Status
<1> QED
  BY <1>1, <1>3, <1>7

LEMMA SameFinish ==
  ASSUME NEW commit
  PROVE  Proved!Finish(commit) <=> Server!Finish(commit)
<1>1. Proved!RolledBack = Server!RolledBack
  BY DEF Proved!RolledBack, Server!RolledBack, Proved!LBA, Server!LBA
<1>2. Proved!NextRevision = Server!NextRevision
  BY DEF Proved!NextRevision, Server!NextRevision
<1> QED
  BY <1>1, <1>2, SameFree DEF Proved!Finish, Server!Finish

LEMMA SameHandle ==
  ASSUME NEW p, NEW r
  PROVE  /\ Proved!Handle(p, r) <=> Server!Handle(p, r)
         /\ Proved!SharedWrite(p, r) <=> Server!SharedWrite(p, r)
         /\ Proved!Release(p) <=> Server!Release(p)
<1> USE SameStatus DEF Proved!Answer, Server!Answer, Proved!state, Server!state,
                       Proved!diskState, Server!diskState, Proved!HelloOps, Server!HelloOps,
                       Proved!WriteOps, Server!WriteOps
<1>w. ASSUME NEW img, NEW records PROVE Proved!Written(img, records) = Server!Written(img, records)
  BY SameWritten
<1>1. Proved!Refuse(p, r) <=> Server!Refuse(p, r)
  BY DEF Proved!Refuse, Server!Refuse
<1>2. Proved!Hello(p, r) <=> Server!Hello(p, r)
  BY DEF Proved!Hello, Server!Hello
<1>3. Proved!Probe(p, r) <=> Server!Probe(p, r)
  BY DEF Proved!Probe, Server!Probe
<1>4. Proved!Stat(p, r) <=> Server!Stat(p, r)
  BY DEF Proved!Stat, Server!Stat
<1>5. Proved!Lock(p, r) <=> Server!Lock(p, r)
  BY DEF Proved!Lock, Server!Lock
<1>6. Proved!Unlock(p, r) <=> Server!Unlock(p, r)
  BY SameFinish DEF Proved!Unlock, Server!Unlock
<1>7. Proved!Read(p, r) <=> Server!Read(p, r)
  BY DEF Proved!Read, Server!Read
<1>8. Proved!SharedWrite(p, r) <=> Server!SharedWrite(p, r)
  BY <1>w DEF Proved!SharedWrite, Server!SharedWrite, Proved!Remember, Server!Remember,
              Proved!LBA, Server!LBA
<1>9. Proved!LegacyWrite(p, r) <=> Server!LegacyWrite(p, r)
  BY <1>w, SameFree DEF Proved!LegacyWrite, Server!LegacyWrite
<1>10. Proved!Release(p) <=> Server!Release(p)
  BY SameFinish DEF Proved!Release, Server!Release
<1> QED
  BY <1>1, <1>2, <1>3, <1>4, <1>5, <1>6, <1>7, <1>8, <1>9, <1>10 DEF Proved!Handle, Server!Handle

\* Steps that leave the server alone keep its invariant.
LEMMA ServerKept ==
  ASSUME Proved!IInv, UNCHANGED serverVars
  PROVE  Proved!IInv'
<1>1. UNCHANGED Proved!vars
  BY DEF serverVars, Proved!vars, Proved!state, Proved!diskState
<1> QED
  BY <1>1, Proved!NextInv, SameNames, ServerAssumption, NamesAssumption

\* A frame of a slot, or its release, keeps the invariant of the sessions and leaves
\* a disk that another slot owns alone.
LEMMA OtherHandled ==
  ASSUME Proved!IInv, NEW p \in Peers,
         Server!Release(p) \/ \E r \in Server!Request : Server!Handle(p, r)
  PROVE  /\ Proved!IInv'
         /\ \A q \in Peers : q # p /\ (locked = q \/ legacy = q) => UNCHANGED <<image, locked, legacy>>
<1>1. CASE Server!Release(p)
  <2>1. Proved!Release(p)
    BY <1>1, SameHandle
  <2>2. Proved!IInv'
    BY <2>1, Proved!ReleaseInv, SameNames, ServerAssumption, NamesAssumption
  <2>3. ASSUME NEW q \in Peers, q # p, locked = q \/ legacy = q PROVE UNCHANGED <<image, locked, legacy>>
    BY <2>1, <2>3, Proved!UndisturbedRelease, SameNames, ServerAssumption, NamesAssumption
  <2> QED
    BY <2>2, <2>3
<1>2. CASE \E r \in Server!Request : Server!Handle(p, r)
  <2>1. PICK r \in Server!Request : Server!Handle(p, r)
    BY <1>2
  <2>2. Proved!Handle(p, r) /\ r \in Proved!Request
    BY <2>1, SameHandle, SameNames
  <2>3. Proved!IInv'
    BY <2>2, Proved!HandleInv, SameNames, ServerAssumption, NamesAssumption
  <2>4. ASSUME NEW q \in Peers, q # p, locked = q \/ legacy = q PROVE UNCHANGED <<image, locked, legacy>>
    BY <2>2, <2>4, Proved!Undisturbed, SameNames, ServerAssumption, NamesAssumption
  <2> QED
    BY <2>3, <2>4
<1> QED
  BY <1>1, <1>2
-----------------------------------------------------------------------------
(* Frames.                                                                   *)

LEMMA OpNames ==
  /\ None \notin {"HELLO", "HELLO_SHARED", "CAPS", "STAT", "READ_BATCH", "WRITE_BATCH", "WRITE",
                  "LOCK", "UNLOCK", "ABORT"}
  /\ Clearing \subseteq Server!Ops
  /\ Server!WriteOps = {"WRITE", "WRITE_BATCH"}
  /\ Hello \in {"HELLO", "HELLO_SHARED"}
  BY NamesAssumption DEF Clearing, Hello, Server!Ops, Server!ControlOps, Server!LockOps,
     Server!HelloOps, Server!BlockOps, Server!WriteOps

LEMMA FrameType ==
  ASSUME NEW op \in Server!Ops
  PROVE  Frame(op) \in Server!Request /\ Frame(op).op = op
<1>1. (CHOOSE d \in Data : TRUE) \in Data
  BY NamesAssumption
<1>2. (IF op \in {"HELLO", "HELLO_SHARED"} THEN 0 ELSE Generation) \in Nat
  BY ServerAssumption
<1>3. <<>> \in Seq(Server!Record)
  OBVIOUS
<1> QED
  BY <1>1, <1>2, <1>3 DEF Frame, Server!Request

\* The frame of a write or lock request says what the kernel said.
LEMMA RequestFrameType ==
  ASSUME request \in KernelRequest, request.op \in Clearing
  PROVE  /\ RequestFrame \in Server!Request
         /\ RequestFrame.op = request.op /\ RequestFrame.lba = request.lba
         /\ RequestFrame.data = request.data /\ RequestFrame.writes = request.writes
<1>1. Frame(request.op) \in Server!Request /\ Frame(request.op).op = request.op
  BY FrameType, OpNames
<1>2. request.lba \in Nat /\ request.data \in Data /\ request.writes \in Seq(Server!Record)
  BY SameNames, ServerAssumption DEF KernelRequest
<1> QED
  BY <1>1, <1>2 DEF RequestFrame, Server!Request

LEMMA ReadAheadType ==
  ASSUME NEW s \in LBA
  PROVE  ReadAheadCount(s) \in Nat /\ ReadAheadCount(s) >= 1
  BY SameNames, ServerAssumption, LayoutAssumption DEF ReadAheadCount

LEMMA ReadFrameType ==
  ASSUME NEW s \in LBA
  PROVE  LET r == [Frame("READ_BATCH") EXCEPT !.lba = s, !.count = ReadAheadCount(s)]
         IN  r \in Server!Request /\ r.op = "READ_BATCH" /\ r.lba = s
<1>1. "READ_BATCH" \in Server!Ops
  BY DEF Server!Ops, Server!BlockOps
<1>2. Frame("READ_BATCH") \in Server!Request /\ Frame("READ_BATCH").op = "READ_BATCH"
  BY <1>1, FrameType
<1>3. s \in Nat /\ ReadAheadCount(s) \in Nat
  BY ReadAheadType, SameNames, ServerAssumption
<1> QED
  BY <1>2, <1>3 DEF Server!Request

LEMMA OneLetter ==
  ASSUME NEW x
  PROVE  /\ <<x>> # <<>> /\ Head(<<x>>) = x
         /\ \A i \in DOMAIN <<x>> : <<x>>[i] = x
  OBVIOUS

LEMMA ClearedType == Cleared \in RunType /\ DOMAIN Cleared.sectors = {}
<1>1. <<>> \in Seq(Data) /\ DOMAIN <<>> = {}
  OBVIOUS
<1> QED
  BY <1>1 DEF Cleared, Run, RunType

-----------------------------------------------------------------------------
(* The steps of the daemon.                                                  *)

\* A request starts on its way: an idle connection takes it, a lost one drops it.
LEMMA AskStep ==
  ASSUME DeviceInv, NEW r \in Server!Request, Ask(r),
         expected_op = None \/ retrying, ~retrying',
         UNCHANGED <<serverVars, user, inbox, sock, shared, stage, mount, request, inside, done, view>>,
         reads' \in {reads, Cleared},
         \/ stage = "caps" /\ r.op = "CAPS"
         \/ stage = "mount" /\ r.op = "STAT"
         \/ stage = "attached" /\ r.op \in {"STAT", "READ_BATCH"} \cup Clearing,
         r.op = "READ_BATCH" => request # None /\ request.op = "READ" /\ r.lba = request.lba,
         r.op \in Clearing => request # None /\ request.op = r.op /\ reads' = Cleared,
         r.op = "WRITE_BATCH" => r.writes = request.writes,
         r.op = "WRITE" => r.lba = request.lba /\ r.data = request.data
  PROVE  DeviceInv'
<1>t. Types /\ Proved!IInv /\ Stages /\ Exchange /\ Asked /\ Owner /\ Fetched /\ ReadsCurrent
  BY DEF DeviceInv
<1>0. expected_op' = r.op /\ inbox = <<>> /\ (Connected' <=> Connected)
  BY <1>t DEF Ask, Exchange, Connected
<1>1. r.op # None
  BY NamesAssumption DEF Server!Request
<1>2. /\ inbound' \in [Peers -> Seq(Server!Request)]
      /\ Connected => inbound'[sock] = <<r>>
  <2>1. CASE Connected
    <3>1. sock \in Peers /\ inbound' = [inbound EXCEPT ![sock] = <<r>>]
      BY <1>t, <2>1 DEF Ask, Connected, Types
    <3>2. <<r>> \in Seq(Server!Request)
      OBVIOUS
    <3> QED
      BY <1>t, <3>1, <3>2 DEF Types
  <2>2. CASE ~Connected
    BY <1>t, <2>2 DEF Ask, Types
  <2> QED
    BY <2>1, <2>2
<1>3. Types'
  BY <1>t, <1>2, ClearedType DEF Types
<1>4. Proved!IInv'
  BY <1>t, ServerKept
<1>5. Stages'
  BY <1>t, <1>0, <1>1 DEF Stages
<1>6. Exchange'
  BY <1>t, <1>0, <1>1, <1>2, OneLetter DEF Exchange
<1>7. Asked'
  BY <1>t, <1>0 DEF Asked
<1>8. Owner'
  <2>1. ~Granted'
    BY <1>0 DEF Granted
  <2>2. Active' <=> Active
    BY DEF Active
  <2>3. Owns' <=> Owns
    BY DEF Owns, serverVars
  <2> QED
    BY <1>t, <1>0, <2>1, <2>2, <2>3 DEF Owner, serverVars
<1>9. Fetched' /\ ReadsCurrent' /\ AckedIsStored'
  <2>1. ~Granted' /\ DOMAIN inbox' = {}
    BY <1>0 DEF Granted
  <2> QED
    BY <1>t, <2>1, ClearedType DEF Fetched, ReadsCurrent, AckedIsStored
<1> QED
  BY <1>3, <1>4, <1>5, <1>6, <1>7, <1>8, <1>9 DEF DeviceInv

\* Out of the loop: nothing is claimed about the server any more.
LEMMA QuitStep ==
  ASSUME DeviceInv, NEW fallback \in BOOLEAN, Quit(fallback), stage \notin {"detach", "exit"},
         UNCHANGED <<serverVars, user, inbound, mount, request, inside, done, view>>
  PROVE  DeviceInv'
<1>t. Types /\ Proved!IInv /\ Stages /\ Asked /\ ReadsCurrent
  BY DEF DeviceInv
<1>0. /\ expected_op' = None /\ ~retrying' /\ inbox' = <<>> /\ reads' = Cleared
      /\ \/ stage = "attached" /\ stage' = "detach" /\ UNCHANGED <<sock, shared>>
         \/ /\ stage # "attached" /\ stage' \in {"start", "exit"} /\ sock' = None
            /\ shared' = (shared /\ ~fallback)
  BY DEF Quit
<1>1. shared' \in BOOLEAN
  BY <1>t, <1>0, Zenon DEF Types
<1>2. <<>> \in Seq(Letter)
  OBVIOUS
<1>3. Types'
  BY <1>t, <1>0, <1>1, <1>2, ClearedType DEF Types
<1>4. Proved!IInv'
  BY <1>t, ServerKept
<1>5. Stages'
  <2>1. CASE stage = "attached" /\ stage' = "detach"
    BY <1>0, <2>1 DEF Stages
  <2>2. CASE stage # "attached" /\ stage' \in {"start", "exit"} /\ sock' = None
    BY <1>t, <1>0, <2>2 DEF Stages, Types
  <2> QED
    BY <1>0, <2>1, <2>2
<1>6. Exchange'
  <2>1. stage' # "detach" => ~Connected'
    BY <1>0 DEF Connected
  <2> QED
    BY <1>0, <2>1 DEF Exchange
<1>7. Asked'
  <2>1. None \notin Clearing \cup {"READ_BATCH"}
    BY OpNames DEF Clearing
  <2>2. CASE stage = "attached" /\ UNCHANGED shared
    BY <1>t, <1>0, <2>1, <2>2 DEF Asked
  <2>3. CASE stage # "attached"
    BY <1>t, <1>0, <2>1, <2>3 DEF Asked, Stages
  <2> QED
    BY <1>0, <2>2, <2>3
<1>8. Owner'
  <2>1. ~Granted' /\ expected_op' # "LOCK" /\ ~Active'
    BY <1>0, OpNames DEF Granted, Active
  <2> QED
    BY <2>1 DEF Owner
<1>9. Fetched' /\ ReadsCurrent' /\ AckedIsStored'
  <2>1. ~Granted' /\ DOMAIN inbox' = {}
    BY <1>0 DEF Granted
  <2> QED
    BY <1>t, <1>0, <2>1, ClearedType DEF Fetched, ReadsCurrent, AckedIsStored
<1> QED
  BY <1>3, <1>4, <1>5, <1>6, <1>7, <1>8, <1>9 DEF DeviceInv

\* A success that changes nothing but the stage.
LEMMA PlainReply ==
  ASSUME DeviceInv, Idle, expected_op \in {"CAPS", "STAT"}, inbox # <<>>, ~retrying',
         UNCHANGED <<serverVars, user, inbound, sock, shared, reads, request, inside, done, view>>,
         \/ stage = "caps" /\ stage' = "mount" /\ mount' = mount
         \/ stage = "mount" /\ stage' = "attached"
         \/ stage = "attached" /\ stage' = "attached"
  PROVE  DeviceInv'
<1>t. Types /\ Proved!IInv /\ Stages /\ Exchange /\ Asked /\ Owner /\ Fetched /\ ReadsCurrent
  BY DEF DeviceInv
<1>0. inbox' = <<>> /\ expected_op' = None /\ (Connected' <=> Connected)
  BY DEF Idle, Connected
<1>1. None \notin Clearing \cup {"READ_BATCH", "LOCK"}
  BY OpNames DEF Clearing
<1>2. <<>> \in Seq(Letter)
  OBVIOUS
<1>3. Types'
  BY <1>t, <1>0, <1>2 DEF Types
<1>4. Proved!IInv'
  BY <1>t, ServerKept
<1>5. Stages'
  BY <1>t, <1>0 DEF Stages
<1>6. Exchange'
  BY <1>t, <1>0 DEF Exchange
<1>7. Asked'
  BY <1>t, <1>0, <1>1 DEF Asked
<1>8. Owner'
  <2>1. ~Granted' /\ (Owns' <=> Owns) /\ (Active' => Active)
    BY <1>0 DEF Granted, Owns, Active, serverVars
  <2>2. expected_op \notin Clearing \ {"LOCK"}
    BY DEF Clearing
  <2> QED
    BY <1>t, <1>0, <1>1, <2>1, <2>2 DEF Owner, serverVars
<1>9. Fetched' /\ ReadsCurrent' /\ AckedIsStored'
  <2>1. ~Granted' /\ DOMAIN inbox' = {}
    BY <1>0 DEF Granted
  <2> QED
    BY <1>t, <2>1 DEF Fetched, ReadsCurrent, AckedIsStored
<1> QED
  BY <1>3, <1>4, <1>5, <1>6, <1>7, <1>8, <1>9 DEF DeviceInv

\* The greeting: an exclusive client owns the disk from now on.
LEMMA HelloReplyStep == ASSUME DeviceInv, HelloReply PROVE DeviceInv'
<1>t. Types /\ Proved!IInv /\ Stages /\ Exchange /\ Asked /\ Owner /\ Fetched /\ ReadsCurrent
  BY DEF DeviceInv
<1>0. /\ inbox' = <<>> /\ expected_op' = None /\ stage' = "caps" /\ view' = Head(inbox).disk
      /\ expected_op = Hello /\ Granted
      /\ UNCHANGED <<serverVars, user, inbound, sock, shared, retrying, reads, mount, request, inside, done>>
  BY DEF HelloReply, Accepted, Idle, Granted, Answer, socketVars, kernelVars
<1>1. /\ stage = "greet"
      /\ None \notin Clearing \cup {"READ_BATCH", "LOCK"} /\ expected_op \notin Clearing \cup {"LOCK"}
  BY <1>t, <1>0, OpNames DEF Stages, Types, Clearing
<1>2. <<>> \in Seq(Letter)
  OBVIOUS
<1>v. Head(inbox).disk \in [LBA -> Data]
  <2>1. Head(inbox) \in Letter
    BY <1>t, <1>0 DEF Types, Granted
  <2> QED
    BY <2>1 DEF Letter
<1>c. Connected' <=> Connected
  BY <1>0 DEF Connected
<1>3. Types'
  BY <1>t, <1>0, <1>2, <1>v DEF Types
<1>4. Proved!IInv'
  BY <1>t, <1>0, ServerKept
<1>5. Stages'
  BY <1>t, <1>0, <1>1 DEF Stages
<1>6. Exchange'
  BY <1>t, <1>0, <1>1, <1>c DEF Exchange, Granted
<1>7. Asked'
  BY <1>t, <1>0, <1>1 DEF Asked
<1>8. Owner'
  <2>1. ~Granted' /\ ~inside
    BY <1>t, <1>0, <1>1 DEF Granted, Stages
  <2>2. Connected' /\ Active' => Owns' /\ image' = view'
    BY <1>t, <1>0, <1>1, <1>c, <2>1 DEF Owner, Owns, Active, serverVars
  <2> QED
    BY <1>0, <1>1, <2>1, <2>2 DEF Owner
<1>9. Fetched' /\ ReadsCurrent' /\ AckedIsStored'
  <2>1. ~Granted' /\ DOMAIN inbox' = {} /\ reads' = Cleared /\ done' = Cleared
    BY <1>t, <1>0, <1>1 DEF Granted, Stages
  <2> QED
    BY <2>1, ClearedType DEF Fetched, ReadsCurrent, AckedIsStored
<1> QED
  BY <1>3, <1>4, <1>5, <1>6, <1>7, <1>8, <1>9 DEF DeviceInv

\* One sector for the kernel.
LEMMA ShowOne ==
  ASSUME NEW s \in Nat, NEW x, x = view[s], done' = Run(s, <<x>>), view' = view
  PROVE  ReadsCurrent'
<1>1. done'.lba = s /\ done'.sectors = <<x>>
  BY DEF Run
<1>2. DOMAIN <<x>> = {1} /\ <<x>>[1] = x /\ s + 1 - 1 = s
  OBVIOUS
<1> QED
  BY <1>1, <1>2 DEF ReadsCurrent

\* A read from the buffer.
LEMMA TakeBufferedStep == ASSUME DeviceInv, TakeBuffered PROVE DeviceInv'
<1>t. Types /\ Proved!IInv /\ Stages /\ Exchange /\ Asked /\ Owner /\ Fetched /\ AckedIsStored
  BY DEF DeviceInv
<1>0. /\ stage = "attached" /\ expected_op = None /\ request # None /\ InRun(reads, request.lba)
      /\ done' = Run(request.lba, <<At(reads, request.lba)>>) /\ request' = None
      /\ UNCHANGED <<serverVars, user, inbound, inbox, sock, shared, stage, expected_op, retrying, reads>>
      /\ UNCHANGED <<mount, inside, view>>
  BY DEF TakeBuffered, Wanted, Polling, socketVars, daemonVars
<1>1. None \notin Clearing \cup {"READ_BATCH", "LOCK", "UNLOCK"} \cup Server!WriteOps
  BY OpNames DEF Clearing
<1>c. (Connected' <=> Connected) /\ inbox = <<>>
  BY <1>t, <1>0 DEF Connected, Exchange
<1>3. Types'
  BY <1>t, <1>0 DEF Types
<1>4. Proved!IInv'
  BY <1>t, <1>0, ServerKept
<1>5. Stages'
  BY <1>t, <1>0 DEF Stages
<1>6. Exchange'
  BY <1>t, <1>0, <1>c DEF Exchange
<1>7. Asked'
  BY <1>t, <1>0, <1>1 DEF Asked
<1>8. Owner'
  BY <1>t, <1>0, <1>1, <1>c DEF Owner, Owns, Active, Granted, serverVars
<1>9. Fetched' /\ AckedIsStored'
  BY <1>t, <1>0, <1>1 DEF Fetched, AckedIsStored
<1>10. ReadsCurrent'
  <2> DEFINE s == request.lba
             i == s - reads.lba + 1
  <2>1. s \in Nat /\ reads.lba \in Nat /\ reads.sectors \in Seq(Data)
    BY <1>t, <1>0, SameNames, ServerAssumption DEF Types, KernelRequest, RunType
  <2>2. i \in DOMAIN reads.sectors /\ reads.lba + i - 1 = s
    BY <1>0, <2>1 DEF InRun
  <2>3. At(reads, s) = view[s]
    BY <1>t, <2>2 DEF Fetched, At
  <2> QED
    BY <1>0, <2>1, <2>3, ShowOne
<1> QED
  BY <1>3, <1>4, <1>5, <1>6, <1>7, <1>8, <1>9, <1>10 DEF DeviceInv

\* A read from the server, whole or one sector of it.
LEMMA ReadReplyStep == ASSUME DeviceInv, ReadReply PROVE DeviceInv'
<1>t. Types /\ Proved!IInv /\ Stages /\ Exchange /\ Asked /\ Owner /\ Fetched
  BY DEF DeviceInv
<1> DEFINE s == request.lba
           got == Answer.sectors
<1>0. /\ expected_op = "READ_BATCH" /\ Granted /\ Len(got) = ReadAheadCount(s)
      /\ inbox' = <<>> /\ expected_op' = None /\ request' = None
      /\ \/ done' = Run(s, got) /\ reads' = Cleared
         \/ done' = Run(s, <<At(Run(s, got), s)>>) /\ reads' = Run(s, got)
      /\ UNCHANGED <<serverVars, user, inbound, sock, shared, stage, retrying, mount, inside, view>>
  BY DEF ReadReply, Accepted, Idle, Granted, Answer, socketVars
<1>1. None \notin Clearing \cup {"READ_BATCH", "LOCK", "UNLOCK"} \cup Server!WriteOps
  BY OpNames DEF Clearing
<1>2. stage = "attached" /\ request # None
  BY <1>t, <1>0, OpNames DEF Stages, Types, Asked
<1>c. Connected' <=> Connected
  BY <1>0 DEF Connected
<1>g. s \in LBA /\ s \in Nat /\ got \in Seq(Data)
  <2>1. Head(inbox) \in Letter
    BY <1>t, <1>0 DEF Types, Granted
  <2>2. Head(inbox).frame \in Server!Reply
    BY <2>1 DEF Letter
  <2> QED
    BY <1>t, <1>2, <2>2, SameNames, ServerAssumption DEF Types, KernelRequest, Answer, Server!Reply
<1>r. /\ Run(s, got) \in RunType /\ Run(s, got).lba = s /\ Run(s, got).sectors = got
      /\ At(Run(s, got), s) = got[1] /\ 1 \in DOMAIN got
  <2>1. Run(s, got) \in RunType /\ Run(s, got).lba = s /\ Run(s, got).sectors = got
    BY <1>g DEF Run, RunType
  <2>2. At(Run(s, got), s) = got[s - s + 1] /\ s - s + 1 = 1
    BY <1>g, <2>1 DEF At
  <2>3. Len(got) \in Nat /\ Len(got) >= 1
    BY <1>0, <1>g, ReadAheadType
  <2> QED
    BY <1>g, <2>1, <2>2, <2>3
<1>f. \A i \in DOMAIN got : got[i] = view[s + i - 1]
  BY <1>t, <1>0 DEF Fetched
<1> HIDE DEF s, got
<1>3. Types'
  <2>1. <<>> \in Seq(Letter)
    OBVIOUS
  <2>2. reads' \in RunType
    BY <1>0, <1>r, ClearedType
  <2> QED
    BY <1>t, <1>0, <2>1, <2>2 DEF Types
<1>4. Proved!IInv'
  BY <1>t, <1>0, ServerKept
<1>5. Stages'
  BY <1>t, <1>0, <1>2 DEF Stages
<1>6. Exchange'
  BY <1>t, <1>0, <1>2, <1>c DEF Exchange, Granted
<1>7. Asked'
  BY <1>t, <1>0, <1>1 DEF Asked
<1>8. Owner'
  <2>1. ~Granted' /\ (Owns' <=> Owns) /\ (Active' <=> Active)
    BY <1>0 DEF Granted, Owns, Active, serverVars
  <2>2. expected_op \notin Clearing
    BY <1>0 DEF Clearing
  <2> QED
    BY <1>t, <1>0, <1>1, <1>c, <2>1, <2>2 DEF Owner, serverVars
<1>9. Fetched' /\ AckedIsStored'
  <2>1. ~Granted' /\ DOMAIN inbox' = {}
    BY <1>0 DEF Granted
  <2> QED
    BY <1>0, <1>r, <1>f, <2>1, ClearedType DEF Fetched, AckedIsStored
<1>10. ReadsCurrent'
  <2>1. CASE done' = Run(s, got)
    BY <1>0, <1>r, <1>f, <2>1 DEF ReadsCurrent
  <2>2. CASE done' = Run(s, <<At(Run(s, got), s)>>)
    <3>1. s + 1 - 1 = s
      BY <1>g
    <3>2. got[1] = view[s]
      BY <1>r, <1>f, <3>1
    <3> QED
      BY <1>0, <1>g, <1>r, <2>2, <3>2, ShowOne
  <2> QED
    BY <1>0, <2>1, <2>2
<1> QED
  BY <1>3, <1>4, <1>5, <1>6, <1>7, <1>8, <1>9, <1>10 DEF DeviceInv

\* What the kernel expects after a success is a disk.
LEMMA ExpectedType ==
  ASSUME DeviceInv, expected_op \in Clearing, Granted
  PROVE  Expected \in [LBA -> Data]
<1>t. Types /\ Asked
  BY DEF DeviceInv
<1>1. request \in KernelRequest
  BY <1>t DEF Types, Asked
<1>2. Head(inbox).disk \in [LBA -> Data]
  <2>1. Head(inbox) \in Letter
    BY <1>t DEF Types, Granted
  <2> QED
    BY <2>1 DEF Letter
<1>3. Server!Written(view, request.writes) \in [LBA -> Data]
  <2>1. request.writes \in Seq(Proved!Record) /\ view \in [Proved!LBA -> Data]
    BY <1>t, <1>1, SameNames DEF KernelRequest, Types, Server!Record, Proved!Record
  <2>2. Proved!Written(view, request.writes) \in [Proved!LBA -> Data]
    BY <2>1, Proved!WrittenType, SameNames, ServerAssumption, NamesAssumption
  <2> QED
    BY <2>2, SameWritten, SameNames
<1>4. [view EXCEPT ![request.lba] = request.data] \in [LBA -> Data]
  BY <1>t, <1>1 DEF Types, KernelRequest
<1> QED
  BY <1>t, <1>2, <1>3, <1>4 DEF Expected, Types

\* Completion of a write or a lock operation: the kernel's view moves on.
LEMMA OtherReplyStep == ASSUME DeviceInv, OtherReply PROVE DeviceInv'
<1>t. Types /\ Proved!IInv /\ Stages /\ Exchange /\ Asked /\ Owner
  BY DEF DeviceInv
<1>0. /\ expected_op \in Clearing /\ Granted
      /\ inbox' = <<>> /\ expected_op' = None /\ request' = None /\ view' = Expected /\ done' = Cleared
      /\ inside' = IF expected_op = "LOCK" THEN TRUE
                   ELSE IF expected_op \in {"UNLOCK", "ABORT"} THEN FALSE ELSE inside
      /\ UNCHANGED <<serverVars, user, inbound, sock, shared, stage, retrying, reads, mount>>
  BY DEF OtherReply, Accepted, Idle, Granted, Answer, socketVars
<1>1. None \notin Clearing \cup {"READ_BATCH", "LOCK", "UNLOCK"} \cup Server!WriteOps
  BY OpNames DEF Clearing
<1>2. stage = "attached" /\ request # None /\ request.op = expected_op /\ reads = Cleared
  BY <1>t, <1>0, <1>1, OpNames DEF Stages, Types, Asked, Clearing
<1>c. Connected' <=> Connected
  BY <1>0 DEF Connected
<1>3. Types'
  <2>1. <<>> \in Seq(Letter)
    OBVIOUS
  <2>2. view' \in [LBA -> Data]
    BY <1>0, ExpectedType
  <2>3. inside \in BOOLEAN
    BY <1>t DEF Types
  <2>4. inside' \in BOOLEAN
    <3>1. CASE inside' = TRUE \/ inside' = FALSE
      BY <3>1
    <3>2. CASE inside' = inside
      BY <2>3, <3>2
    <3> QED
      BY <1>0, <3>1, <3>2, Zenon
  <2> QED
    BY <1>t, <1>0, <2>1, <2>2, <2>4 DEF Types
<1>4. Proved!IInv'
  BY <1>t, <1>0, ServerKept
<1>5. Stages'
  BY <1>t, <1>0, <1>2 DEF Stages
<1>6. Exchange'
  BY <1>t, <1>0, <1>2, <1>c DEF Exchange, Granted
<1>7. Asked'
  BY <1>t, <1>0, <1>1 DEF Asked
<1>8. Owner'
  <2>1. ~Granted' /\ (Owns' <=> Owns)
    BY <1>0 DEF Granted, Owns, serverVars
  <2>2. ASSUME Connected', Active' PROVE Owns' /\ image' = view'
    <3>1. CASE expected_op = "LOCK"
      <4>1. locked = sock /\ image = Head(inbox).disk /\ shared
        BY <1>t, <1>0, <1>2, <1>c, <2>2, <3>1 DEF Owner, Asked
      <4>2. view' = Head(inbox).disk
        BY <1>0, <1>2, <3>1 DEF Expected
      <4> QED
        BY <1>0, <2>1, <4>1, <4>2 DEF Owns, serverVars
    <3>2. CASE expected_op \in {"UNLOCK", "ABORT"}
      <4>1. shared /\ ~inside'
        BY <1>t, <1>0, <1>2, <3>2 DEF Asked
      <4> QED
        BY <1>0, <2>2, <4>1 DEF Active
    <3>3. CASE expected_op \in Server!WriteOps
      <4>1. expected_op \notin {"LOCK", "UNLOCK", "ABORT"}
        BY <3>3, OpNames
      <4>2. Active /\ Connected
        BY <1>0, <1>c, <2>2, <4>1 DEF Active
      <4> QED
        BY <1>t, <1>0, <2>1, <3>3, <4>2 DEF Owner, serverVars
    <3> QED
      BY <1>0, <3>1, <3>2, <3>3, OpNames DEF Clearing
  <2> QED
    BY <1>0, <1>1, <2>1, <2>2 DEF Owner
<1>9. Fetched' /\ ReadsCurrent' /\ AckedIsStored'
  <2>1. ~Granted' /\ DOMAIN inbox' = {}
    BY <1>0 DEF Granted
  <2> QED
    BY <1>0, <1>2, <2>1, ClearedType DEF Fetched, ReadsCurrent, AckedIsStored
<1> QED
  BY <1>3, <1>4, <1>5, <1>6, <1>7, <1>8, <1>9 DEF DeviceInv

\* The lock is in foreign hands: the request waits for its next try.
LEMMA LockBusyStep == ASSUME DeviceInv, LockBusy PROVE DeviceInv'
<1>t. Types /\ Proved!IInv /\ Stages /\ Exchange /\ Asked /\ Owner /\ Fetched /\ ReadsCurrent
  BY DEF DeviceInv
<1>0. /\ expected_op = "LOCK" /\ inbox # <<>> /\ inbox' = <<>> /\ retrying'
      /\ UNCHANGED <<serverVars, user, inbound, sock, shared, stage, expected_op, reads>>
      /\ UNCHANGED <<mount, request, inside, done, view>>
  BY DEF LockBusy, socketVars, kernelVars, otherVars
<1>1. stage \notin {"start", "detach", "exit"} /\ request # None /\ shared /\ ~inside
  <2>1. "LOCK" \in Clearing /\ None # "LOCK"
    BY OpNames DEF Clearing
  <2> QED
    BY <1>t, <1>0, <2>1 DEF Stages, Asked
<1>c. Connected' <=> Connected
  BY <1>0 DEF Connected
<1>3. Types'
  <2>1. <<>> \in Seq(Letter)
    OBVIOUS
  <2> QED
    BY <1>t, <1>0, <2>1 DEF Types
<1>4. Proved!IInv'
  BY <1>t, <1>0, ServerKept
<1>5. Stages'
  <2>1. Hello' = Hello
    BY <1>0 DEF Hello
  <2> QED
    BY <1>t, <1>0, <1>1, <2>1 DEF Stages
<1>6. Exchange'
  BY <1>t, <1>0, <1>1, <1>c DEF Exchange
<1>7. Asked'
  BY <1>t, <1>0 DEF Asked
<1>8. Owner'
  <2>1. ~Granted' /\ ~Active'
    BY <1>0, <1>1 DEF Granted, Active
  <2> QED
    BY <2>1 DEF Owner
<1>9. Fetched' /\ ReadsCurrent' /\ AckedIsStored'
  <2>1. ~Granted' /\ DOMAIN inbox' = {}
    BY <1>0 DEF Granted
  <2> QED
    BY <1>t, <1>0, <2>1 DEF Fetched, ReadsCurrent, AckedIsStored
<1> QED
  BY <1>3, <1>4, <1>5, <1>6, <1>7, <1>8, <1>9 DEF DeviceInv

\* The connection is gone and nothing is asked: what is left to keep.
LEMMA GoneStep ==
  ASSUME DeviceInv, stage \in {"start", "detach"}, stage' = "exit", sock' = None, inbox' = <<>>,
         mount' = "none", request' = None, ~inside', inside' \in BOOLEAN,
         UNCHANGED <<serverVars, user, inbound, shared, expected_op, retrying, reads, done, view>>
  PROVE  DeviceInv'
<1>t. Types /\ Proved!IInv /\ Stages /\ Fetched /\ ReadsCurrent
  BY DEF DeviceInv
<1>1. expected_op = None /\ ~retrying /\ reads = Cleared /\ ~Connected'
  BY <1>t DEF Stages, Connected
<1>2. None \notin Clearing \cup {"READ_BATCH", "LOCK", "UNLOCK"} \cup Server!WriteOps
  BY OpNames DEF Clearing
<1>3. Types'
  <2>1. <<>> \in Seq(Letter)
    OBVIOUS
  <2> QED
    BY <1>t, <2>1 DEF Types
<1>4. Proved!IInv'
  BY <1>t, ServerKept
<1>5. Stages' /\ Exchange' /\ Asked' /\ Owner'
  BY <1>t, <1>1, <1>2 DEF Stages, Exchange, Asked, Owner
<1>6. Fetched' /\ ReadsCurrent' /\ AckedIsStored'
  BY <1>t, <1>1, <1>2 DEF Fetched, ReadsCurrent, AckedIsStored
<1> QED
  BY <1>3, <1>4, <1>5, <1>6 DEF DeviceInv

\* A new connection carries the greeting.
LEMMA DialStep == ASSUME DeviceInv, NEW p \in Peers, Dial(p) PROVE DeviceInv'
<1>t. Types /\ Proved!IInv /\ Stages /\ Exchange /\ Asked /\ Fetched /\ ReadsCurrent
  BY DEF DeviceInv
<1>0. /\ stage = "start" /\ stage' = "greet" /\ sock' = p /\ expected_op' = Hello
      /\ user' = [user EXCEPT ![p] = "daemon"]
      /\ inbound' = [inbound EXCEPT ![p] = <<Frame(Hello)>>]
      /\ UNCHANGED <<serverVars, inbox, shared, retrying, reads, mount, request, inside, done, view>>
  BY DEF Dial, kernelVars, otherVars
<1>1. /\ inbox = <<>> /\ ~retrying /\ reads = Cleared /\ done = Cleared
      /\ request = None /\ ~inside /\ mount = "none"
  BY <1>t, <1>0 DEF Stages, Exchange
<1>2. Hello \in Server!Ops /\ Hello' = Hello /\ Hello \in {"HELLO", "HELLO_SHARED"}
  BY <1>0, OpNames DEF Hello, Server!Ops, Server!ControlOps, Server!HelloOps
<1>3. Frame(Hello) \in Server!Request /\ Frame(Hello).op = Hello
  BY <1>2, FrameType
<1>4. Hello \notin Clearing \cup {"READ_BATCH", "LOCK", "UNLOCK"} \cup Server!WriteOps
  BY <1>2, OpNames DEF Clearing
<1>5. inbound'[p] = <<Frame(Hello)>> /\ inbound'[p] # <<>> /\ Head(inbound'[p]) = Frame(Hello)
  BY <1>t, <1>0, OneLetter DEF Types
<1>6. Types'
  <2>1. <<Frame(Hello)>> \in Seq(Server!Request)
    BY <1>3
  <2> QED
    BY <1>t, <1>0, <2>1 DEF Types
<1>7. Proved!IInv'
  BY <1>t, <1>0, ServerKept
<1>8. Stages'
  BY <1>0, <1>1, <1>2 DEF Stages
<1>9. Exchange'
  BY <1>0, <1>1, <1>3, <1>4, <1>5, OpNames DEF Exchange
<1>10. Asked'
  BY <1>0, <1>1, <1>4 DEF Asked
<1>11. Owner'
  <2>1. ~Granted' /\ ~Active'
    BY <1>0, <1>1 DEF Granted, Active
  <2> QED
    BY <2>1 DEF Owner
<1>12. Fetched' /\ ReadsCurrent' /\ AckedIsStored'
  <2>1. ~Granted' /\ DOMAIN inbox' = {}
    BY <1>0, <1>1 DEF Granted
  <2> QED
    BY <1>0, <1>1, <2>1, ClearedType DEF Fetched, ReadsCurrent, AckedIsStored
<1> QED
  BY <1>6, <1>7, <1>8, <1>9, <1>10, <1>11, <1>12 DEF DeviceInv

-----------------------------------------------------------------------------
(* The kernel.                                                               *)

LEMMA KernelWriteType ==
  ASSUME NEW s \in LBA, NEW d \in Data
  PROVE  KernelWrite(s, d) \in KernelRequest /\ KernelWrite(s, d).op = "WRITE"
<1>1. (CHOOSE x \in Data : TRUE) \in Data /\ 0 \in LBA /\ <<>> \in Seq(Server!Record)
  BY NamesAssumption, ServerAssumption, SameNames
<1>2. "WRITE" \in KernelOpNames
  BY DEF KernelOpNames, Clearing
<1>3. NoArg("WRITE") \in KernelRequest /\ NoArg("WRITE").op = "WRITE"
  BY <1>1, <1>2 DEF NoArg, KernelRequest
<1> DEFINE r == NoArg("WRITE")
<1>4. r \in KernelRequest /\ r.op = "WRITE" /\ KernelWrite(s, d) = [r EXCEPT !.lba = s, !.data = d]
  BY <1>3 DEF KernelWrite
<1> HIDE DEF r
<1> QED
  BY <1>4 DEF KernelRequest

\* What the kernel asks for, and when.
LEMMA KernelRequestType ==
  ASSUME Types, NEW r,
         r \in IF shared /\ ~inside THEN {NoArg("LOCK")}
               ELSE KernelOps \cup IF shared THEN {NoArg("UNLOCK"), NoArg("ABORT")} ELSE {}
  PROVE  /\ r \in KernelRequest
         /\ r.op = "LOCK" => shared /\ ~inside
         /\ r.op \in {"UNLOCK", "ABORT"} => shared /\ inside
         /\ r.op \in {"READ", "WRITE", "WRITE_BATCH"} => ~shared \/ inside
<1>d. (CHOOSE d \in Data : TRUE) \in Data /\ 0 \in LBA /\ <<>> \in Seq(Server!Record)
  BY NamesAssumption, ServerAssumption, SameNames
<1>n. ASSUME NEW op \in KernelOpNames
      PROVE  NoArg(op) \in KernelRequest /\ NoArg(op).op = op
  BY <1>d DEF NoArg, KernelRequest
<1>o. {"READ", "WRITE", "WRITE_BATCH", "LOCK", "UNLOCK", "ABORT"} \subseteq KernelOpNames
  BY DEF KernelOpNames, Clearing
<1>w. Batches \subseteq Seq(Server!Record)
  <2>r. ASSUME NEW s \in LBA, NEW d \in Data PROVE [lba |-> s, data |-> d] \in Server!Record
    BY SameNames, ServerAssumption DEF Server!Record
  <2>1. ASSUME NEW w \in Batches PROVE w \in Seq(Server!Record)
    <3>1. CASE \E s \in LBA \ {0}, d \in Data : w = <<[lba |-> s, data |-> d]>>
      BY <2>r, <3>1
    <3>2. CASE \E s \in LBA \ {0}, d \in Data :
                  s + 1 \in LBA /\ w = <<[lba |-> s, data |-> d], [lba |-> s + 1, data |-> d]>>
      BY <2>r, <3>2
    <3> QED
      BY <3>1, <3>2 DEF Batches
  <2> QED
    BY <2>1
<1>1. CASE r = NoArg("LOCK") /\ shared /\ ~inside
  BY <1>n, <1>o, <1>1
<1>2. CASE r \in {NoArg("UNLOCK"), NoArg("ABORT")} /\ shared /\ inside
  BY <1>n, <1>o, <1>2
<1>3. CASE r \in KernelOps /\ (~shared \/ inside)
  <2> DEFINE Reading == {[NoArg("READ") EXCEPT !.lba = s] : s \in LBA \ {0}}
             Batching == {[NoArg("WRITE_BATCH") EXCEPT !.writes = w] : w \in Batches}
             Writing == {KernelWrite(s, d) : s \in LBA \ {0}, d \in Data}
             Fine(x) == x \in KernelRequest /\ x.op \in {"READ", "WRITE", "WRITE_BATCH"}
  <2>a. KernelOps = Reading \cup IF batch_capable THEN Batching ELSE Writing
    BY DEF KernelOps
  <2>b. ASSUME NEW x \in Reading PROVE Fine(x)
    BY <1>n, <1>o DEF KernelRequest
  <2>c. ASSUME NEW x \in Batching PROVE Fine(x)
    BY SMTT(60), <1>n, <1>o, <1>w DEF KernelRequest
  <2>d. ASSUME NEW x \in Writing PROVE Fine(x)
    <3>1. PICK s \in LBA, d \in Data : x = KernelWrite(s, d)
      OBVIOUS
    <3> QED
      BY <3>1, KernelWriteType
  <2> HIDE DEF Reading, Batching, Writing
  <2>1. Fine(r)
    BY <1>3, <2>a, <2>b, <2>c, <2>d
  <2> QED
    BY <1>3, <2>1
<1> QED
  BY <1>1, <1>2, <1>3, Zenon DEF Types

\* A request: nothing has been handed over for it yet.
LEMMA KernelAsksStep == ASSUME DeviceInv, KernelAsks PROVE DeviceInv'
<1>t. Types /\ Proved!IInv /\ Stages /\ Exchange /\ Asked /\ Owner /\ Fetched /\ AckedIsStored
  BY DEF DeviceInv
<1>0. /\ mount = "up" /\ request = None /\ done' = Cleared
      /\ request' \in IF shared /\ ~inside THEN {NoArg("LOCK")}
                      ELSE KernelOps \cup IF shared THEN {NoArg("UNLOCK"), NoArg("ABORT")} ELSE {}
      /\ UNCHANGED <<serverVars, user, inbound, inbox, sock, shared, stage, expected_op, retrying>>
      /\ UNCHANGED <<reads, mount, inside, view>>
  BY DEF KernelAsks, socketVars, daemonVars
<1>1. stage \in {"attached", "detach"} /\ expected_op \notin Clearing \cup {"READ_BATCH"}
  BY <1>t, <1>0 DEF Stages, Asked
<1>2. expected_op \notin {"UNLOCK", "LOCK", "WRITE_BATCH", "WRITE", "READ_BATCH"} \cup Server!WriteOps
  BY <1>1, OpNames DEF Clearing
<1>c. (Connected' <=> Connected) /\ (Granted' <=> Granted)
  BY <1>0 DEF Connected, Granted, Answer
<1>r. /\ request' \in KernelRequest
      /\ request'.op = "LOCK" => shared /\ ~inside
      /\ request'.op \in {"UNLOCK", "ABORT"} => shared /\ inside
      /\ request'.op \in {"READ", "WRITE", "WRITE_BATCH"} => ~shared \/ inside
  BY <1>t, <1>0, KernelRequestType
<1>3. Types'
  BY <1>t, <1>0, <1>r DEF Types
<1>4. Proved!IInv'
  BY <1>t, <1>0, ServerKept
<1>5. Stages'
  <2>1. Hello' = Hello
    BY <1>0 DEF Hello
  <2> QED
    BY <1>t, <1>0, <1>1, <2>1 DEF Stages
<1>6. Exchange'
  BY <1>t, <1>0, <1>2, <1>c DEF Exchange
<1>7. Asked'
  BY <1>0, <1>1, <1>r DEF Asked
<1>8. Owner'
  <2>1. (Active' <=> Active) /\ (Owns' <=> Owns) /\ image' = image
    BY <1>0 DEF Active, Owns, serverVars
  <2> QED
    BY <1>t, <1>0, <1>1, <1>2, <1>c, <2>1 DEF Owner, serverVars
<1>9. Fetched' /\ ReadsCurrent' /\ AckedIsStored'
  BY <1>t, <1>0, <1>2, ClearedType DEF Fetched, ReadsCurrent, AckedIsStored
<1> QED
  BY <1>3, <1>4, <1>5, <1>6, <1>7, <1>8, <1>9 DEF DeviceInv

\* The kernel unmounts: the daemon will notice.
LEMMA KernelStopsStep == ASSUME DeviceInv, KernelStops PROVE DeviceInv'
<1>0. /\ mount = "up" /\ UNCHANGED serverVars
      /\ UNCHANGED <<user, inbound, inbox, sock, shared, stage, expected_op, retrying>>
      /\ UNCHANGED <<reads, request, inside, done, view>>
  BY DEF KernelStops, socketVars, daemonVars, otherVars
<1>1. Types' /\ Stages' /\ Asked'
  BY <1>0 DEF DeviceInv, Types, Stages, Asked, Hello
<1>2. Proved!IInv'
  BY <1>0, ServerKept DEF DeviceInv
<1>3. (Connected' <=> Connected) /\ (Granted' <=> Granted) /\ Expected' = Expected
  BY <1>0 DEF Connected, Granted, Answer, Expected, Server!Written, Server!LastWrite, Server!LBA
<1>4. Exchange'
  BY <1>0, <1>3 DEF DeviceInv, Exchange
<1>5. Owner'
  <2>1. (Active' <=> Active) /\ (Owns' <=> Owns) /\ image' = image /\ locked' = locked /\ legacy' = legacy
    BY <1>0 DEF Active, Owns, serverVars
  <2> QED
    BY <1>0, <1>3, <2>1 DEF DeviceInv, Owner
<1>6. Fetched' /\ ReadsCurrent' /\ AckedIsStored'
  BY <1>0, <1>3 DEF DeviceInv, Fetched, ReadsCurrent, AckedIsStored, Answer
<1> QED
  BY <1>1, <1>2, <1>4, <1>5, <1>6 DEF DeviceInv

-----------------------------------------------------------------------------
(* The server.                                                               *)

\* A step of another slot, or the end of the daemon's own connection.
LEMMA OthersStep ==
  ASSUME DeviceInv, NEW p \in Peers,
         Server!Release(p) \/ \E r \in Server!Request : Server!Handle(p, r),
         Connected' => Connected /\ sock # p /\ inbound'[sock] = inbound[sock],
         user' \in [Peers -> {"none", "daemon", "other"}],
         inbound' \in [Peers -> Seq(Server!Request)],
         UNCHANGED daemonVars, UNCHANGED kernelVars, UNCHANGED <<done, view>>
  PROVE  DeviceInv'
<1>t. Types /\ Proved!IInv /\ Stages /\ Exchange /\ Asked /\ Owner /\ Fetched /\ ReadsCurrent /\ AckedIsStored
  BY DEF DeviceInv
<1>0. UNCHANGED <<inbox, sock, shared, stage, expected_op, retrying, reads, mount, request, inside, done, view>>
  BY DEF daemonVars, kernelVars
<1>1. /\ Proved!IInv'
      /\ \A q \in Peers : q # p /\ (locked = q \/ legacy = q) => UNCHANGED <<image, locked, legacy>>
  BY <1>t, OtherHandled
<1>2. (Granted' <=> Granted) /\ Expected' = Expected /\ Hello' = Hello /\ (Active' <=> Active)
  BY <1>0 DEF Granted, Answer, Expected, Server!Written, Server!LastWrite, Server!LBA, Hello, Active
<1>3. Types'
  BY <1>t, <1>0 DEF Types
<1>4. Stages' /\ Asked'
  BY <1>t, <1>0, <1>2 DEF Stages, Asked
<1>5. Exchange'
  BY <1>t, <1>0 DEF Exchange
<1>6. Owner'
  <2> SUFFICES ASSUME Connected' PROVE Owner'
    BY DEF Owner
  <2>1. Connected /\ sock \in Peers /\ sock # p
    BY <1>t DEF Connected, Types
  <2>2. Owns \/ locked = sock \/ legacy = sock => UNCHANGED <<image, locked, legacy>>
    BY <1>1, <2>1 DEF Owns
  <2>3. Owns \/ locked = sock \/ legacy = sock => (Owns' <=> Owns)
    BY <1>0, <2>2 DEF Owns
  <2> QED
    BY <1>t, <1>0, <1>2, <2>1, <2>2, <2>3 DEF Owner
<1>7. Fetched' /\ ReadsCurrent' /\ AckedIsStored'
  BY <1>t, <1>0, <1>2 DEF Fetched, ReadsCurrent, AckedIsStored, Answer
<1> QED
  BY <1>1, <1>3, <1>4, <1>5, <1>6, <1>7 DEF DeviceInv

\* One record is one sector.
LEMMA WrittenOne ==
  ASSUME NEW img \in [LBA -> Data], NEW s \in LBA, NEW d
  PROVE  Server!Written(img, <<[lba |-> s, data |-> d]>>) = [img EXCEPT ![s] = d]
<1> DEFINE records == <<[lba |-> s, data |-> d]>>
<1>1. DOMAIN records = {1} /\ records[1].lba = s /\ records[1].data = d
  OBVIOUS
<1> HIDE DEF records
<1>2. ASSUME NEW t \in LBA PROVE Server!LastWrite(records, t) = IF t = s THEN {1} ELSE {}
  <2>1. ASSUME NEW i PROVE i \in Server!LastWrite(records, t) <=> i = 1 /\ t = s
    BY <1>1 DEF Server!LastWrite
  <2> QED
    BY <2>1
<1>3. (CHOOSE i \in {1} : TRUE) = 1
  OBVIOUS
<1>4. ASSUME NEW t \in LBA
      PROVE  (IF Server!LastWrite(records, t) = {} THEN img[t]
              ELSE records[CHOOSE i \in Server!LastWrite(records, t) : TRUE].data)
             = [img EXCEPT ![s] = d][t]
  BY <1>1, <1>2, <1>3
<1>5. Server!LBA = LBA
  BY DEF LBA
<1>6. Server!Written(img, records) = [t \in LBA |-> [img EXCEPT ![s] = d][t]]
  BY <1>4, <1>5, Zenon DEF Server!Written
<1> QED
  BY <1>6 DEF records

\* The answer to the frame of slot p, with the disk the server then vouches for.
NewLetter == [frame |-> reply', disk |-> Committed']

\* The daemon's own frame: what the server does with it, and the answer.
LEMMA OwnHandled ==
  ASSUME Proved!IInv, NEW p \in Peers, NEW r \in Server!Request, Server!Handle(p, r)
  PROVE  /\ Proved!IInv'
         /\ NewLetter \in Letter
         /\ legacy = p => legacy' = p
         /\ locked = p /\ r.op \notin {"UNLOCK", "ABORT"} => locked' = p
         /\ r.op \notin Server!WriteOps \cup {"UNLOCK", "ABORT"} => image' = image
         /\ reply'.status = "OK" =>
              /\ r.op = "LOCK" => locked' = p /\ image' = Committed'
              /\ r.op = "HELLO" => legacy' = p /\ image' = Committed'
              /\ r.op = "UNLOCK" => Committed' = image
              /\ r.op \in Server!WriteOps =>
                   /\ image' = Server!Written(image, Server!Records(r))
                   /\ legacy = p => Committed' = image'
              /\ r.op = "READ_BATCH" =>
                   \A i \in DOMAIN reply'.sectors : reply'.sectors[i] = image[r.lba + i - 1]
<1>1. Proved!Handle(p, r) /\ r \in Proved!Request
  BY SameHandle, SameNames
<1>2. Proved!IInv'
  BY <1>1, Proved!HandleInv, SameNames, ServerAssumption, NamesAssumption
<1>3. Proved!Committed' = Committed'
  BY DEF Proved!Committed, Committed, Server!Committed, Proved!RolledBack, Server!RolledBack,
         Proved!LBA, Server!LBA
<1>4. Proved!WriteOps = Server!WriteOps
  BY DEF Proved!WriteOps, Server!WriteOps
<1>5. NewLetter \in Letter
  <2>1. /\ reply' \in Proved!Reply /\ image' \in [LBA -> Data]
        /\ undo' \in [LBA -> Data]
    BY <1>2, SameNames DEF Proved!IInv, Proved!TypeOK
  <2>2. Proved!Reply = Server!Reply
    BY DEF Proved!Reply, Server!Reply, Proved!Ops, Server!Ops,
           Proved!ControlOps, Server!ControlOps, Proved!HelloOps, Server!HelloOps,
           Proved!LockOps, Server!LockOps, Proved!BlockOps, Server!BlockOps,
           Proved!WriteOps, Server!WriteOps
  <2>3. Committed' = [s \in LBA |-> IF s \in dirty' THEN undo'[s] ELSE image'[s]]
    BY DEF Committed, Server!Committed, Server!RolledBack, LBA
  <2>4. Committed' \in [LBA -> Data]
    BY <2>1, <2>3
  <2> QED
    BY <2>1, <2>2, <2>4 DEF NewLetter, Letter
<1>6. /\ legacy = p => legacy' = p
      /\ locked = p /\ r.op \notin {"UNLOCK", "ABORT"} => locked' = p
      /\ r.op \notin Server!WriteOps \cup {"UNLOCK", "ABORT"} => image' = image
  BY <1>1, <1>4, Proved!OwnFrame, SameNames, ServerAssumption, NamesAssumption
<1>7. ASSUME reply'.status = "OK"
      PROVE  /\ r.op = "LOCK" => locked' = p /\ image' = Committed'
             /\ r.op = "HELLO" => legacy' = p /\ image' = Committed'
             /\ r.op = "UNLOCK" => Committed' = image
             /\ r.op \in Server!WriteOps =>
                  /\ image' = Server!Written(image, Server!Records(r))
                  /\ legacy = p => Committed' = image'
             /\ r.op = "READ_BATCH" =>
                  \A i \in DOMAIN reply'.sectors : reply'.sectors[i] = image[r.lba + i - 1]
  <2>1. /\ r.op = "LOCK" => locked' = p /\ image' = image /\ Proved!Committed' = image
        /\ r.op = "HELLO" => legacy' = p /\ image' = image /\ Proved!Committed' = image
        /\ r.op = "UNLOCK" => Proved!Committed' = image
        /\ r.op \in Proved!WriteOps =>
             /\ image' = Proved!Written(image, Proved!Records(r))
             /\ legacy = p => Proved!Committed' = image'
        /\ r.op = "READ_BATCH" => reply'.sectors = [i \in 1 .. r.count |-> image[r.lba + i - 1]]
    BY SMTT(60), <1>1, <1>7, Proved!OwnSuccess, SameNames, ServerAssumption, NamesAssumption
  <2>2. Proved!Written(image, Proved!Records(r)) = Server!Written(image, Server!Records(r))
    BY SameStatus, SameWritten
  <2> QED
    BY <1>3, <1>4, <2>1, <2>2
<1> QED
  BY <1>2, <1>5, <1>6, <1>7

\* A daemon that has left its loop does not look at the answer.
LEMMA ServeLeft ==
  ASSUME DeviceInv, NEW p \in Peers, Serve(p), p = sock, stage = "detach"
  PROVE  DeviceInv'
<1>t. Types /\ Proved!IInv /\ Stages /\ Asked /\ Fetched /\ ReadsCurrent
  BY DEF DeviceInv
<1>0. /\ Server!Handle(p, Head(inbound[p])) /\ inbound[p] # <<>>
      /\ inbound' = [inbound EXCEPT ![p] = <<>>] /\ inbox' = <<NewLetter>>
      /\ UNCHANGED <<user, sock, shared, stage, expected_op, retrying, reads, mount>>
      /\ UNCHANGED <<request, inside, done, view>>
  BY DEF Serve, NewLetter, kernelVars, otherVars
<1>1. Head(inbound[p]) \in Server!Request
  BY <1>t, <1>0 DEF Types
<1>2. Proved!IInv' /\ NewLetter \in Letter
  BY <1>t, <1>0, <1>1, OwnHandled
<1>3. expected_op = None /\ None \notin Clearing \cup {"READ_BATCH", "LOCK", "UNLOCK"} \cup Server!WriteOps
  BY <1>t, OpNames DEF Stages, Clearing
<1> DEFINE letter == NewLetter
<1>4. inbox' = <<letter>> /\ letter \in Letter
  BY <1>0, <1>2
<1> HIDE DEF letter
<1>5. Types'
  <2>1. <<letter>> \in Seq(Letter) /\ <<>> \in Seq(Server!Request)
    BY <1>4
  <2> QED
    BY <1>t, <1>0, <1>4, <2>1 DEF Types
<1>6. Stages' /\ Asked' /\ Exchange' /\ Owner'
  BY <1>t, <1>0, <1>3 DEF Stages, Asked, Exchange, Owner, Active
<1>7. Fetched' /\ ReadsCurrent' /\ AckedIsStored'
  BY <1>t, <1>0, <1>3 DEF Fetched, ReadsCurrent, AckedIsStored
<1> QED
  BY <1>2, <1>5, <1>6, <1>7 DEF DeviceInv

\* The answer to the request the daemon waits for.
LEMMA ServeOwn ==
  ASSUME DeviceInv, NEW p \in Peers, Serve(p), p = sock, stage # "detach"
  PROVE  DeviceInv'
<1>t. Types /\ Proved!IInv /\ Stages /\ Exchange /\ Asked /\ Owner /\ Fetched /\ ReadsCurrent
  BY DEF DeviceInv
<1> DEFINE r == Head(inbound[p])
           letter == NewLetter
<1>0. /\ Server!Handle(p, r) /\ inbound[p] # <<>> /\ user[p] = "daemon"
      /\ inbound' = [inbound EXCEPT ![p] = <<>>] /\ inbox' = <<letter>>
      /\ UNCHANGED <<user, sock, shared, stage, expected_op, retrying, reads, mount>>
      /\ UNCHANGED <<request, inside, done, view>>
  BY DEF Serve, NewLetter, kernelVars, otherVars
<1>1. r \in Server!Request
  BY <1>t, <1>0 DEF Types
<1>2. Connected /\ Connected' /\ sock \in Peers
  BY <1>0, NamesAssumption DEF Connected
<1>3. /\ inbox = <<>> /\ expected_op # None /\ ~retrying /\ r.op = expected_op
      /\ expected_op = "READ_BATCH" => r.lba = request.lba
      /\ expected_op = "WRITE_BATCH" => r.writes = request.writes
      /\ expected_op = "WRITE" => r.lba = request.lba /\ r.data = request.data
  BY <1>t, <1>0, <1>2 DEF Exchange
<1>l. letter.frame = reply' /\ letter.disk = Committed'
  BY DEF NewLetter
<1>h. /\ Proved!IInv' /\ letter \in Letter
      /\ legacy = p => legacy' = p
      /\ locked = p /\ r.op \notin {"UNLOCK", "ABORT"} => locked' = p
      /\ r.op \notin Server!WriteOps \cup {"UNLOCK", "ABORT"} => image' = image
  BY <1>t, <1>0, <1>1, OwnHandled
<1>k. letter.frame.status = "OK" =>
        /\ r.op = "LOCK" => locked' = p /\ image' = letter.disk
        /\ r.op = "HELLO" => legacy' = p /\ image' = letter.disk
        /\ r.op = "UNLOCK" => letter.disk = image
        /\ r.op \in Server!WriteOps =>
             /\ image' = Server!Written(image, Server!Records(r))
             /\ legacy = p => letter.disk = image'
        /\ r.op = "READ_BATCH" =>
             \A i \in DOMAIN letter.frame.sectors : letter.frame.sectors[i] = image[r.lba + i - 1]
  BY <1>t, <1>0, <1>1, <1>l, OwnHandled
<1> HIDE DEF letter, r
<1>4. /\ inbox' # <<>> /\ Head(inbox') = letter /\ \A i \in DOMAIN inbox' : inbox'[i] = letter
      /\ (Granted' <=> letter.frame.status = "OK") /\ Answer' = letter.frame
  BY <1>0, OneLetter DEF Granted, Answer
<1>5. Active' <=> Active
  BY <1>0 DEF Active
<1>6. stage \notin {"start", "exit"} /\ (expected_op \in Clearing \cup {"READ_BATCH"} => stage = "attached")
  <2>1. {"HELLO", "HELLO_SHARED", "CAPS", "STAT"} \cap (Clearing \cup {"READ_BATCH"}) = {}
    BY DEF Clearing
  <2>2. None \notin Clearing \cup {"READ_BATCH"}
    BY OpNames DEF Clearing
  <2> QED
    BY <1>t, <1>3, <2>1, <2>2, OpNames DEF Stages, Types
\* Before the answer, the disk of a client that owns it is the kernel's.
<1>7. Active => Owns /\ image = view
  BY <1>t, <1>2, <1>3 DEF Owner
<1>8. expected_op \in {"UNLOCK", "ABORT", "READ_BATCH"} \cup Server!WriteOps => Active
  <2>1. {"UNLOCK", "ABORT"} \cup Server!WriteOps \subseteq Clearing
    BY OpNames DEF Clearing
  <2> QED
    BY <1>t, <1>6, <2>1, OpNames DEF Active, Asked
<1>9. Types'
  <2>1. <<letter>> \in Seq(Letter) /\ <<>> \in Seq(Server!Request)
    BY <1>h
  <2> QED
    BY <1>t, <1>0, <2>1 DEF Types
<1>10. Stages' /\ Asked'
  BY <1>t, <1>0 DEF Stages, Asked, Hello
<1>11. Exchange'
  <2>1. inbound'[sock'] = <<>>
    BY <1>t, <1>0 DEF Types
  <2> QED
    BY <1>0, <1>3, <1>4, <2>1 DEF Exchange
<1>12. ASSUME Active, expected_op \in Server!WriteOps, Granted'
       PROVE  image' = Expected'
  <2>1. request \in KernelRequest /\ request.op = expected_op /\ view \in [LBA -> Data]
    BY <1>t, <1>12, OpNames DEF Asked, Types, Clearing
  <2>2. image' = Server!Written(view, Server!Records(r))
    BY <1>3, <1>4, <1>7, <1>12, <1>k
  <2>3. CASE expected_op = "WRITE_BATCH"
    <3>1. Expected' = Server!Written(view, request.writes)
      BY <1>0, <2>1, <2>3 DEF Expected, Server!Written, Server!LastWrite, Server!LBA
    <3>2. Server!Records(r) = request.writes
      BY <1>3, <2>3 DEF Server!Records
    <3> QED
      BY <2>2, <3>1, <3>2
  <2>4. CASE expected_op = "WRITE"
    <3>1. Expected' = [view EXCEPT ![request.lba] = request.data]
      BY <1>0, <2>1, <2>4 DEF Expected
    <3>2. Server!Records(r) = <<[lba |-> request.lba, data |-> request.data]>>
      BY <1>3, <2>4 DEF Server!Records
    <3>3. request.lba \in LBA
      BY <2>1 DEF KernelRequest
    <3> QED
      BY <2>1, <2>2, <3>1, <3>2, <3>3, WrittenOne
  <2> QED
    BY <1>12, <2>3, <2>4, OpNames
<1>13. Owner'
  <2>1. ASSUME Active, r.op \notin {"UNLOCK", "ABORT"} PROVE Owns'
    BY <1>0, <1>7, <1>h, <2>1 DEF Owns
  <2>2. ASSUME Active, expected_op \notin Clearing \ {"LOCK"} PROVE image' = view'
    <3>1. r.op \notin Server!WriteOps \cup {"UNLOCK", "ABORT"}
      BY <1>3, <2>2, OpNames DEF Clearing
    <3> QED
      BY <1>0, <1>7, <1>h, <2>2, <3>1
  <2>3. expected_op \in Server!WriteOps => r.op \notin {"UNLOCK", "ABORT"}
    BY <1>3, OpNames
  <2>4. expected_op \notin Clearing \ {"LOCK"} => r.op \notin {"UNLOCK", "ABORT"}
    BY <1>3 DEF Clearing
  <2>5. expected_op' = "LOCK" /\ Granted' => locked' = sock' /\ image' = Head(inbox').disk
    BY <1>0, <1>3, <1>4, <1>k
  <2>6. stage' = "greet" /\ ~shared' /\ Granted' => legacy' = sock' /\ image' = Head(inbox').disk
    <3>1. stage = "greet" /\ ~shared => r.op = "HELLO"
      BY <1>t, <1>3 DEF Stages, Hello
    <3> QED
      BY <1>0, <1>4, <1>k, <3>1
  <2> QED
    BY <1>0, <1>4, <1>5, <1>12, <2>1, <2>2, <2>3, <2>4, <2>5, <2>6 DEF Owner
<1>14. Fetched'
  BY <1>t, <1>0, <1>3, <1>4, <1>7, <1>8, <1>k DEF Fetched
<1>15. ReadsCurrent'
  BY <1>t, <1>0 DEF ReadsCurrent
<1>16. AckedIsStored'
  <2>1. ASSUME expected_op = "UNLOCK", letter.frame.status = "OK" PROVE letter.disk = Expected'
    <3>1. request.op = "UNLOCK"
      BY <1>t, <2>1 DEF Asked, Clearing
    <3>2. Expected' = view
      BY <1>0, <3>1 DEF Expected
    <3> QED
      BY <1>3, <1>7, <1>8, <1>k, <2>1, <3>2
  <2>2. ASSUME ~shared, expected_op \in Server!WriteOps, letter.frame.status = "OK"
        PROVE  letter.disk = Expected'
    <3>1. legacy = p
      BY <1>7, <1>8, <2>2 DEF Owns
    <3> QED
      BY <1>3, <1>4, <1>8, <1>12, <1>k, <2>2, <3>1
  <2> QED
    BY <1>0, <1>4, <2>1, <2>2 DEF AckedIsStored
<1> QED
  BY <1>h, <1>9, <1>10, <1>11, <1>13, <1>14, <1>15, <1>16 DEF DeviceInv

\* The server on behalf of any slot of the daemon.
LEMMA ServeStep == ASSUME DeviceInv, NEW p \in Peers, Serve(p) PROVE DeviceInv'
<1>1. CASE p = sock
  BY <1>1, ServeLeft, ServeOwn
<1>2. CASE p # sock
  <2>t. Types
    BY DEF DeviceInv
  <2>0. /\ Server!Handle(p, Head(inbound[p])) /\ inbound[p] # <<>>
        /\ inbound' = [inbound EXCEPT ![p] = <<>>]
        /\ UNCHANGED <<user, daemonVars, kernelVars, otherVars>>
    BY <1>2 DEF Serve, daemonVars
  <2>1. Head(inbound[p]) \in Server!Request /\ <<>> \in Seq(Server!Request)
    BY <2>t, <2>0 DEF Types
  <2>2. inbound' \in [Peers -> Seq(Server!Request)] /\ user' \in [Peers -> {"none", "daemon", "other"}]
    BY <2>t, <2>0, <2>1 DEF Types
  <2>3. Connected' => Connected /\ sock # p /\ inbound'[sock] = inbound[sock]
    BY <1>2, <2>t, <2>0 DEF Connected, Types, daemonVars
  <2> QED
    BY <2>0, <2>1, <2>2, <2>3, OthersStep DEF otherVars
<1> QED
  BY <1>1, <1>2

LEMMA ResetStep == ASSUME DeviceInv, NEW p \in Peers, Reset(p) PROVE DeviceInv'
<1>t. Types
  BY DEF DeviceInv
<1>0. /\ Server!Release(p) /\ user' = [user EXCEPT ![p] = "none"]
      /\ inbound' = [inbound EXCEPT ![p] = <<>>]
      /\ UNCHANGED <<daemonVars, kernelVars, otherVars>>
  BY DEF Reset
<1>1. <<>> \in Seq(Server!Request)
  OBVIOUS
<1>2. inbound' \in [Peers -> Seq(Server!Request)] /\ user' \in [Peers -> {"none", "daemon", "other"}]
  BY <1>t, <1>0, <1>1 DEF Types
<1>3. Connected' => Connected /\ sock # p /\ inbound'[sock] = inbound[sock]
  BY <1>t, <1>0 DEF Connected, Types, daemonVars
<1> QED
  BY <1>0, <1>2, <1>3, OthersStep DEF otherVars

LEMMA OtherWriteType ==
  ASSUME NEW s \in LBA, NEW d \in Data
  PROVE  OtherWrite(s, d) \in Server!Request
<1> DEFINE r == Frame("WRITE")
<1>1. "WRITE" \in Server!Ops
  BY OpNames DEF Clearing
<1>2. r \in Server!Request /\ OtherWrite(s, d) = [r EXCEPT !.lba = s, !.data = d]
  BY <1>1, FrameType DEF OtherWrite
<1>3. s \in Nat
  BY SameNames, ServerAssumption
<1> HIDE DEF r
<1> QED
  BY <1>2, <1>3 DEF Server!Request

\* The other machine: its frames are frames, and its slot is not the daemon's.
LEMMA OtherMachineStep == ASSUME DeviceInv, NEW p \in Peers, OtherMachine(p) PROVE DeviceInv'
<1>t. Types
  BY DEF DeviceInv
<1>1. CASE Reset(p)
  BY <1>1, ResetStep
<1>2. ASSUME user[p] # "daemon", user' \in {user, [user EXCEPT ![p] = "other"]},
             NEW r \in Server!Request, OtherSends(p, r)
      PROVE  DeviceInv'
  <2>1. Server!Handle(p, r) /\ UNCHANGED <<inbound, daemonVars, kernelVars, done, view>>
    BY <1>2 DEF OtherSends
  <2>2. inbound' \in [Peers -> Seq(Server!Request)] /\ user' \in [Peers -> {"none", "daemon", "other"}]
    BY <1>t, <1>2, <2>1 DEF Types
  <2>3. Connected' => Connected /\ sock # p /\ inbound'[sock] = inbound[sock]
    BY <1>t, <1>2, <2>1 DEF Connected, Types, daemonVars
  <2> QED
    BY <1>2, <2>1, <2>2, <2>3, OthersStep
<1>3. {"HELLO", "HELLO_SHARED", "LOCK", "UNLOCK"} \subseteq Server!Ops
  BY DEF Server!Ops, Server!HelloOps, Server!LockOps
<1>4. ASSUME NEW op \in {"HELLO", "HELLO_SHARED", "LOCK", "UNLOCK"} PROVE Frame(op) \in Server!Request
  BY <1>3, <1>4, FrameType
<1>5. OtherFrames \subseteq Server!Request
  <2> DEFINE Writing == {OtherWrite(s, d) : s \in LBA \ {0}, d \in Data}
             Locking == {Frame(op) : op \in {"LOCK", "UNLOCK"}}
  <2>1. OtherFrames = Locking \cup IF foreign < MaxForeign THEN Writing ELSE {}
    BY DEF OtherFrames
  <2>2. Writing \subseteq Server!Request
    BY OtherWriteType
  <2>3. Locking \subseteq Server!Request
    BY <1>4
  <2> HIDE DEF Writing, Locking
  <2> QED
    BY <2>1, <2>2, <2>3
<1>6. CASE /\ user[p] = "none" /\ user' = [user EXCEPT ![p] = "other"]
           /\ \E op \in {"HELLO", "HELLO_SHARED"} : OtherSends(p, Frame(op))
  BY <1>2, <1>4, <1>6
<1>7. CASE user[p] = "other" /\ UNCHANGED user /\ \E r \in OtherFrames : OtherSends(p, r)
  BY <1>2, <1>5, <1>7
<1> QED
  BY <1>1, <1>6, <1>7 DEF OtherMachine

-----------------------------------------------------------------------------
(* Every step.                                                               *)

\* The requests the daemon makes by itself, and the repeated LOCK.
LEMMA OwnAsks ==
  ASSUME DeviceInv, Introduce \/ Heartbeat \/ Resend
  PROVE  DeviceInv'
<1>t. Types /\ Stages /\ Exchange /\ Asked
  BY DEF DeviceInv
<1>1. {"CAPS", "STAT", "LOCK"} \subseteq Server!Ops
  BY DEF Server!Ops, Server!ControlOps, Server!LockOps
<1>2. {"CAPS", "STAT"} \cap ({"READ_BATCH", "WRITE_BATCH", "WRITE"} \cup Clearing) = {} /\ "LOCK" \in Clearing
  BY DEF Clearing
<1>3. ASSUME NEW op \in {"CAPS", "STAT", "LOCK"} PROVE Frame(op) \in Server!Request /\ Frame(op).op = op
  BY <1>1, <1>3, FrameType
<1>4. CASE Introduce
  <2>1. /\ stage \in {"caps", "mount"} /\ expected_op = None
        /\ Ask(Frame(IF stage = "caps" THEN "CAPS" ELSE "STAT"))
        /\ UNCHANGED <<serverVars, user, inbox, sock, shared, stage, retrying, reads>>
        /\ UNCHANGED <<mount, request, inside, done, view>>
    BY <1>4 DEF Introduce, kernelVars, otherVars
  <2>2. ~retrying'
    BY <1>t, <2>1, OpNames DEF Exchange
  <2>3. CASE stage = "caps"
    <3>1. Ask(Frame("CAPS"))
      BY <2>1, <2>3
    <3> QED
      BY <1>2, <1>3, <2>1, <2>2, <2>3, <3>1, AskStep
  <2>4. CASE stage = "mount"
    <3>1. Ask(Frame("STAT"))
      BY <2>1, <2>4
    <3> QED
      BY <1>2, <1>3, <2>1, <2>2, <2>4, <3>1, AskStep
  <2> QED
    BY <2>1, <2>3, <2>4
<1>5. CASE Heartbeat
  <2>1. /\ stage = "attached" /\ expected_op = None /\ Ask(Frame("STAT"))
        /\ UNCHANGED <<serverVars, user, inbox, sock, shared, stage, retrying, reads>>
        /\ UNCHANGED <<mount, request, inside, done, view>>
    BY <1>5 DEF Heartbeat, Polling, kernelVars, otherVars
  <2>2. ~retrying'
    BY <1>t, <2>1, OpNames DEF Exchange
  <2> QED
    BY <1>2, <1>3, <2>1, <2>2, AskStep
<1>6. CASE Resend
  <2>1. /\ retrying /\ Ask(Frame("LOCK")) /\ ~retrying'
        /\ UNCHANGED <<serverVars, user, inbox, sock, shared, stage, reads>>
        /\ UNCHANGED <<mount, request, inside, done, view>>
    BY <1>6 DEF Resend, kernelVars, otherVars
  <2>2. expected_op = "LOCK" /\ stage = "attached"
    <3>1. stage # "detach"
      BY <1>t, <2>1 DEF Stages
    <3>2. expected_op = "LOCK" /\ "LOCK" # None /\ Hello # "LOCK"
      BY <1>t, <2>1, <3>1, OpNames DEF Exchange
    <3> QED
      BY <1>t, <3>2 DEF Stages, Types
  <2>3. request # None /\ request.op = "LOCK" /\ reads = Cleared
    BY <1>t, <1>2, <2>2 DEF Asked
  <2> QED
    BY <1>2, <1>3, <2>1, <2>2, <2>3, AskStep
<1> QED
  BY <1>4, <1>5, <1>6

\* The requests of the kernel.
LEMMA KernelTaken ==
  ASSUME DeviceInv, TakeRead \/ TakeOther
  PROVE  DeviceInv'
<1>t. Types /\ Exchange
  BY DEF DeviceInv
<1>1. CASE TakeRead
  <2> DEFINE r == [Frame("READ_BATCH") EXCEPT !.lba = request.lba, !.count = ReadAheadCount(request.lba)]
  <2>1. /\ stage = "attached" /\ expected_op = None /\ request # None /\ request.op = "READ" /\ Ask(r)
        /\ UNCHANGED <<serverVars, user, inbox, sock, shared, stage, retrying, reads>>
        /\ UNCHANGED <<mount, request, inside, done, view>>
    BY <1>1 DEF TakeRead, Wanted, Polling, kernelVars, otherVars
  <2>2. request.lba \in LBA
    BY <1>t, <2>1 DEF Types, KernelRequest
  <2>3. r \in Server!Request /\ r.op = "READ_BATCH" /\ r.lba = request.lba
    BY <2>2, ReadFrameType
  <2>4. ~retrying'
    BY <1>t, <2>1, OpNames DEF Exchange
  <2>5. "READ_BATCH" \notin Clearing \cup {"WRITE", "WRITE_BATCH"}
    BY DEF Clearing
  <2> HIDE DEF r
  <2> QED
    BY <2>1, <2>3, <2>4, <2>5, AskStep
<1>2. CASE TakeOther
  <2>1. /\ stage = "attached" /\ expected_op = None /\ request # None /\ request.op \in Clearing
        /\ Ask(RequestFrame) /\ reads' = Cleared
        /\ UNCHANGED <<serverVars, user, inbox, sock, shared, stage, retrying>>
        /\ UNCHANGED <<mount, request, inside, done, view>>
    BY <1>2 DEF TakeOther, Wanted, Polling, kernelVars, otherVars
  <2>2. /\ RequestFrame \in Server!Request /\ RequestFrame.op = request.op
        /\ RequestFrame.lba = request.lba /\ RequestFrame.data = request.data
        /\ RequestFrame.writes = request.writes
    BY <1>t, <2>1, RequestFrameType DEF Types
  <2>3. ~retrying'
    BY <1>t, <2>1, OpNames DEF Exchange
  <2>4. "READ_BATCH" \notin Clearing
    BY DEF Clearing
  <2> QED
    BY <2>1, <2>2, <2>3, <2>4, AskStep
<1> QED
  BY <1>1, <1>2

\* Giving up.
LEMMA QuitSteps ==
  ASSUME DeviceInv, AttachRefused \/ Refused \/ BridgeFails \/ HangUp
  PROVE  DeviceInv'
<1>t. Types /\ Stages
  BY DEF DeviceInv
<1>1. ASSUME NEW fallback \in BOOLEAN, Quit(fallback), stage \notin {"detach", "exit"},
             UNCHANGED <<serverVars, socketVars, batch_capable, kernelVars, otherVars>>
      PROVE  DeviceInv'
  BY <1>1, QuitStep DEF socketVars, kernelVars, otherVars
<1>2. CASE AttachRefused
  BY <1>1, <1>2 DEF AttachRefused
<1>3. CASE Refused
  <2>1. stage \notin {"detach", "exit"}
    BY <1>t, <1>3 DEF Refused, Stages
  <2> QED
    BY <1>1, <1>3, <2>1 DEF Refused
<1>4. CASE BridgeFails
  BY <1>1, <1>4 DEF BridgeFails
<1>5. CASE HangUp
  <2>1. stage \notin {"detach", "exit"}
    BY <1>t, <1>5 DEF HangUp, Stages
  <2> QED
    BY <1>1, <1>5, <2>1 DEF HangUp
<1> QED
  BY <1>2, <1>3, <1>4, <1>5

\* Answers that only move the daemon on.
LEMMA PlainSteps ==
  ASSUME DeviceInv, CapsReply \/ Attach \/ UsageReply
  PROVE  DeviceInv'
<1>t. Types /\ Stages /\ Exchange
  BY DEF DeviceInv
<1>1. {"CAPS", "STAT"} \cap (Clearing \cup {"READ_BATCH", "HELLO", "HELLO_SHARED", "LOCK"}) = {}
  BY DEF Clearing
<1>2. CASE CapsReply
  <2>1. /\ expected_op = "CAPS" /\ inbox # <<>> /\ Idle /\ stage' = "mount"
        /\ UNCHANGED <<serverVars, user, inbound, sock, shared, retrying, reads>>
        /\ UNCHANGED <<mount, request, inside, done, view>>
    BY <1>2 DEF CapsReply, Accepted, socketVars, kernelVars, otherVars
  <2>2. stage = "caps"
    BY <1>t, <1>1, <2>1, OpNames DEF Stages, Types
  <2>3. ~retrying'
    BY <1>t, <2>1, <2>2 DEF Exchange
  <2> QED
    BY <2>1, <2>2, <2>3, PlainReply
<1>3. CASE Attach
  <2>1. /\ stage = "mount" /\ stage' = "attached" /\ expected_op = "STAT" /\ inbox # <<>> /\ Idle
        /\ UNCHANGED <<serverVars, user, inbound, sock, shared, retrying, reads>>
        /\ UNCHANGED <<request, inside, done, view>>
    BY <1>3 DEF Attach, Accepted, socketVars, otherVars
  <2>2. ~retrying'
    BY <1>t, <2>1 DEF Exchange
  <2> QED
    BY <2>1, <2>2, PlainReply
<1>4. CASE UsageReply
  <2>1. /\ stage = "attached" /\ expected_op = "STAT" /\ inbox # <<>>
        /\ UNCHANGED <<serverVars, user, inbound>> /\ UNCHANGED <<mount, request, inside, done, view>>
        /\ \/ Idle /\ UNCHANGED <<sock, shared, stage, retrying, reads>>
           \/ Quit(FALSE)
    BY <1>4 DEF UsageReply, Accepted, socketVars, kernelVars, otherVars
  <2>2. ~retrying
    BY <1>t, <2>1 DEF Exchange
  <2>3. CASE Quit(FALSE)
    BY <2>1, <2>3, QuitStep
  <2>4. CASE Idle /\ UNCHANGED <<sock, shared, stage, retrying, reads>>
    BY <2>1, <2>2, <2>4, PlainReply
  <2> QED
    BY <2>1, <2>3, <2>4
<1> QED
  BY <1>2, <1>3, <1>4

\* The end: unmounted, or never connected.
LEMMA GoneSteps == ASSUME DeviceInv, Detach \/ DialFails PROVE DeviceInv'
<1>1. CASE Detach
  BY <1>1, GoneStep DEF Detach, socketVars, otherVars
<1>2. CASE DialFails
  <2>1. /\ stage = "start" /\ stage' = "exit"
        /\ UNCHANGED <<serverVars, user, inbound, inbox, sock, shared, expected_op, retrying, reads>>
        /\ UNCHANGED <<mount, request, inside, done, view>>
    BY <1>2 DEF DialFails, socketVars, kernelVars, otherVars
  <2>2. /\ sock = None /\ mount = "none" /\ request = None /\ ~inside /\ inside \in BOOLEAN
        /\ inbox = <<>>
    BY <2>1 DEF DeviceInv, Stages, Exchange, Types
  <2> QED
    BY <2>1, <2>2, GoneStep
<1> QED
  BY <1>1, <1>2

LEMMA DeviceInit == Init => DeviceInv
<1> SUFFICES ASSUME Init PROVE DeviceInv
  OBVIOUS
<1>1. Proved!IInv
  <2>1. Proved!Init
    BY SameFree DEF Init, Server!Init, Proved!Init, Proved!LBA, Server!LBA,
                    Proved!NoReply, Server!NoReply
  <2> QED
    BY <2>1, Proved!InitInv, SameNames, ServerAssumption, NamesAssumption
<1>2. /\ user = [p \in Peers |-> "none"] /\ inbound = [p \in Peers |-> <<>>] /\ inbox = <<>>
      /\ sock = None /\ shared = TRUE /\ stage = "start" /\ expected_op = None /\ retrying = FALSE
      /\ reads = Cleared /\ mount = "none" /\ request = None /\ inside = FALSE /\ done = Cleared
      /\ view = image /\ ~Connected
  BY DEF Init, Connected
<1>3. image \in [LBA -> Data] /\ <<>> \in Seq(Letter) /\ <<>> \in Seq(Server!Request)
  BY <1>1, SameNames DEF Proved!IInv, Proved!TypeOK
<1>4. None \notin Clearing \cup {"READ_BATCH", "LOCK", "UNLOCK"} \cup Server!WriteOps
  BY OpNames DEF Clearing
<1>5. Types
  BY <1>2, <1>3, ClearedType DEF Types
<1>6. Stages /\ Exchange /\ Asked /\ Owner
  BY <1>2, <1>4 DEF Stages, Exchange, Asked, Owner
<1>7. Fetched /\ ReadsCurrent /\ AckedIsStored
  BY <1>2, <1>4, ClearedType DEF Fetched, ReadsCurrent, AckedIsStored
<1> QED
  BY <1>1, <1>5, <1>6, <1>7 DEF DeviceInv

LEMMA DeviceNext == DeviceInv /\ [Next]_vars => DeviceInv'
<1> SUFFICES ASSUME DeviceInv, [Next]_vars PROVE DeviceInv'
  OBVIOUS
<1>1. ASSUME NEW p \in Peers, ServerStep(p) \/ LeaseExpires(p) \/ Dial(p) \/ OtherMachine(p)
      PROVE  DeviceInv'
  BY <1>1, ServeStep, ResetStep, DialStep, OtherMachineStep
     DEF ServerStep, CloseAfter, NoticeLoss, LeaseExpires
<1>2. CASE Loop
  BY <1>2, OwnAsks, HelloReplyStep, PlainSteps, QuitSteps, ReadReplyStep, OtherReplyStep,
     LockBusyStep, GoneSteps DEF Loop
<1>3. CASE Take
  BY <1>3, TakeBufferedStep, KernelTaken DEF Take
<1>4. CASE HangUp \/ Heartbeat \/ DialFails
  BY <1>4, QuitSteps, OwnAsks, GoneSteps
<1>5. CASE KernelAsks \/ KernelStops
  BY <1>5, KernelAsksStep, KernelStopsStep
<1>6. CASE UNCHANGED vars
  <2>1. /\ UNCHANGED serverVars /\ UNCHANGED <<user, inbound, inbox, sock, shared, stage, expected_op>>
        /\ UNCHANGED <<retrying, reads, mount, request, inside, done, view>>
    BY <1>6 DEF vars, socketVars, daemonVars, kernelVars, otherVars
  <2>2. Proved!IInv'
    BY <2>1, ServerKept DEF DeviceInv
  <2>3. Types' /\ Stages' /\ Asked'
    BY <2>1 DEF DeviceInv, Types, Stages, Asked, Hello
  <2>4. (Connected' <=> Connected) /\ (Granted' <=> Granted) /\ Expected' = Expected
    BY <2>1 DEF Connected, Granted, Answer, Expected, Server!Written, Server!LastWrite, Server!LBA
  <2>5. Exchange'
    BY <2>1, <2>4 DEF DeviceInv, Exchange
  <2>6. (Active' <=> Active) /\ (Owns' <=> Owns) /\ image' = image /\ locked' = locked /\ legacy' = legacy
    BY <2>1 DEF Active, Owns, serverVars
  <2>7. Owner'
    BY <2>1, <2>4, <2>6 DEF DeviceInv, Owner
  <2>8. Fetched' /\ ReadsCurrent' /\ AckedIsStored'
    BY <2>1, <2>4 DEF DeviceInv, Fetched, ReadsCurrent, AckedIsStored, Answer
  <2> QED
    BY <2>2, <2>3, <2>5, <2>7, <2>8 DEF DeviceInv
<1> QED
  BY <1>1, <1>2, <1>3, <1>4, <1>5, <1>6 DEF Next

-----------------------------------------------------------------------------
(* The theorems.                                                             *)

\* What connect_disk hands the kernel, straight from a READ_BATCH or later from the
\* read-ahead buffer of c/rntp/read_ahead.c, is the disk as the lock found it (as
\* the greeting found it, in the exclusive protocol) with the kernel's own writes:
\* for every size of disk and batch, every age of kernel, any number of requests,
\* connections, lost answers, refused locks and writes of the other machine.
THEOREM ReadsAreCurrent == Spec => []ReadsCurrent
<1>1. Init => DeviceInv
  BY DeviceInit
<1>2. DeviceInv /\ [Next]_vars => DeviceInv'
  BY DeviceNext
<1>3. DeviceInv => ReadsCurrent
  BY DEF DeviceInv
<1> QED
  BY <1>1, <1>2, <1>3, PTL DEF Spec

\* A success the server of c/rntp/sessions.c sends for an UNLOCK, or for a write of
\* the exclusive protocol, was sent with exactly the kernel's view on the disk: no
\* write of the operation is missing, repeated or mixed with another machine's.
THEOREM AckedWritesAreStored == Spec => []AckedIsStored
<1>1. Init => DeviceInv
  BY DeviceInit
<1>2. DeviceInv /\ [Next]_vars => DeviceInv'
  BY DeviceNext
<1>3. DeviceInv => AckedIsStored
  BY DEF DeviceInv
<1> QED
  BY <1>1, <1>2, <1>3, PTL DEF Spec

=============================================================================
