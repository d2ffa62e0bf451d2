---------------------------- MODULE RntpSessions ----------------------------
(***************************************************************************)
(* The state machine of the RNTP server: c/rntp/sessions.c with the block   *)
(* operations of c/rntp/protocol.c.  One action per request the server      *)
(* accepts, one for the requests it refuses, and one for the release of a   *)
(* connection slot (disconnect, reset, lease timeout, slot reuse).          *)
(*                                                                          *)
(* A request is a decoded frame.  Its fields are abstracted to what the     *)
(* code tests: framed says that id is not zero, status is zero and the      *)
(* response bit is clear; fits says that length is the one the operation    *)
(* calls for; count is the sector count of a READ_BATCH, writes are the     *)
(* records of a WRITE_BATCH and data is the sector of a WRITE.  A frame     *)
(* that rntp_decode rejects gets no reply: the server resets the            *)
(* connection, which is Release.                                            *)
(***************************************************************************)
EXTENDS Integers, Sequences, FiniteSets

CONSTANTS Peers,        \* RNTP_PEERS connection slots
          None,         \* the -1 of legacy and locked
          Sectors,      \* size of the export
          Data,         \* sector contents
          FreeEntry,    \* the contents of a FAT sector that holds a free cluster
          Fat,          \* valid boot sector -> the FAT sectors its geometry names
          Generation,   \* generation of this run of the server
          MaxWrites,    \* RNTP_MAX_WRITES
          RevisionMod,  \* 2^64, the range of revision
          Requests      \* the frames clients may send

LBA == 0 .. Sectors - 1

ControlOps == {"CAPS", "STAT", "PING"}
LockOps    == {"LOCK", "UNLOCK", "ABORT"}
HelloOps   == {"HELLO", "HELLO_SHARED"}
WriteOps   == {"WRITE", "WRITE_BATCH"}
BlockOps   == WriteOps \cup {"READ", "READ_BATCH"}
Ops        == ControlOps \cup LockOps \cup HelloOps \cup BlockOps \cup {"UNKNOWN"}

Record  == [lba : Nat, data : Data]
Request == [op : Ops, framed : BOOLEAN, fits : BOOLEAN, gen : Nat, lba : Nat,
            count : Nat, data : Data, writes : Seq(Record)]
Reply   == [op : Ops, status : {"OK", "BUSY", "INVALID", "STALE"},
            number : Nat, sectors : Seq(Data)]

ASSUME SizeAssumption ==
    /\ Sectors \in Nat \ {0}
    /\ MaxWrites \in Nat \ {0}
    /\ RevisionMod \in Nat \ {0, 1, 2}
    /\ Generation \in Nat \ {0}
ASSUME PeersAssumption == None \notin Peers
ASSUME FatAssumption ==
    /\ DOMAIN Fat \subseteq Data
    /\ \A boot \in DOMAIN Fat : Fat[boot] \subseteq LBA
ASSUME RequestsAssumption == \A r \in Requests : r \in Request

VARIABLES image,           \* the exported sectors, uncommitted edits included
          undo,            \* what the dirty sectors held before the transaction
          dirty,           \* the bitmap of sectors saved in undo
          modified,        \* the transaction has written
          revision,        \* counts commits
          committed_free,  \* free space of the committed image
          peers,           \* 0, 1, 2: "none", "legacy", "shared"
          legacy,          \* the exclusive peer
          locked,          \* the peer inside a transaction
          reply            \* the last frame the handler wrote

diskState == <<image, undo, dirty, modified, revision, committed_free>>
state == <<diskState, peers, legacy, locked>>
vars  == <<state, reply>>

-----------------------------------------------------------------------------
(* Free space.  A FAT sector stands for one cluster: it is free when its    *)
(* entry is.  An image whose boot sector is not a valid geometry leaves the *)
(* caller's counter alone.                                                  *)

FreeClusters(img) == Cardinality({s \in Fat[img[0]] : img[s] = FreeEntry})

FreeSpace(img, old) == IF img[0] \in DOMAIN Fat THEN FreeClusters(img) ELSE old

(* Records are copied in order, so the last one for a sector wins.          *)
LastWrite(records, s) ==
    {i \in DOMAIN records : /\ records[i].lba = s
                            /\ \A j \in DOMAIN records : j > i => records[j].lba # s}

Written(img, records) ==
    [s \in LBA |-> IF LastWrite(records, s) = {}
                   THEN img[s]
                   ELSE records[CHOOSE i \in LastWrite(records, s) : TRUE].data]

Records(r) == IF r.op = "WRITE" THEN <<[lba |-> r.lba, data |-> r.data]>> ELSE r.writes

-----------------------------------------------------------------------------
(* Which requests are refused, and how.                                     *)

Blank(r) == r.fits /\ r.lba = 0

\* The status rntp_handle gives the requests that sessions.c passes on to it.
HandleStatus(r) ==
    LET accepted ==
          CASE r.op = "PING"        -> Blank(r)
            [] r.op = "READ_BATCH"  -> /\ r.fits
                                       /\ r.count \in 1 .. MaxWrites
                                       /\ r.lba < Sectors
                                       /\ r.count <= Sectors - r.lba
            [] r.op = "WRITE_BATCH" -> /\ Blank(r)
                                       /\ Len(r.writes) \in 1 .. MaxWrites
                                       /\ \A i \in DOMAIN r.writes : r.writes[i].lba < Sectors
            [] r.op \in {"READ", "WRITE"} -> r.fits /\ r.lba < Sectors
            [] OTHER                -> FALSE
    IN  IF accepted THEN "OK" ELSE "INVALID"

\* Faulty variant: a legacy peer is admitted beside shared ones.
HelloStatusMixed(p, r) ==
    IF ~Blank(r) \/ r.gen # 0 \/ peers[p] # "none" THEN "INVALID"
    ELSE IF legacy # None THEN "BUSY" ELSE "OK"

HelloStatus(p, r) ==
    IF ~Blank(r) \/ r.gen # 0 \/ peers[p] # "none" THEN "INVALID"
    ELSE IF legacy # None \/ (r.op = "HELLO" /\ \E q \in Peers : peers[q] # "none")
         THEN "BUSY" ELSE "OK"

\* Faulty variant: LOCK does not ask whether somebody holds the lock.
LockStatusSteals(p, r) ==
    IF peers[p] # "shared" \/ ~Blank(r) THEN "INVALID"
    ELSE IF r.op # "LOCK" /\ locked # p THEN "INVALID" ELSE "OK"

LockStatus(p, r) ==
    IF peers[p] # "shared" \/ ~Blank(r) THEN "INVALID"
    ELSE IF r.op = "LOCK" THEN (IF locked # None THEN "BUSY" ELSE "OK")
    ELSE IF locked # p THEN "INVALID" ELSE "OK"

\* Faulty variant: sector number Sectors passes.
WriteCheckedOffByOne(r) ==
    /\ r.fits
    /\ r.op = "WRITE_BATCH" => r.lba = 0 /\ Len(r.writes) \in 1 .. MaxWrites
    /\ \A i \in DOMAIN Records(r) : Records(r)[i].lba \in 1 .. Sectors

\* Faulty variant: only the first record of a batch is checked.
WriteCheckedFirstOnly(r) ==
    /\ r.fits
    /\ r.op = "WRITE_BATCH" => r.lba = 0 /\ Len(r.writes) \in 1 .. MaxWrites
    /\ Records(r)[1].lba \in LBA \ {0}

\* Faulty variant: sector 0 is writable in shared mode.
WriteCheckedBootOpen(r) ==
    /\ r.fits
    /\ r.op = "WRITE_BATCH" => r.lba = 0 /\ Len(r.writes) \in 1 .. MaxWrites
    /\ \A i \in DOMAIN Records(r) : Records(r)[i].lba \in LBA

\* The whole frame of a shared write is checked before any sector is saved.
\* Sector 0 is immutable in shared mode.
WriteChecked(r) ==
    /\ r.fits
    /\ r.op = "WRITE_BATCH" => r.lba = 0 /\ Len(r.writes) \in 1 .. MaxWrites
    /\ \A i \in DOMAIN Records(r) : Records(r)[i].lba \in LBA \ {0}

BlockStatus(p, r) ==
    IF r.op \in BlockOps /\ peers[p] = "shared" /\ locked # p THEN "BUSY"
    ELSE IF r.op \in WriteOps /\ peers[p] = "shared" /\ ~WriteChecked(r) THEN "INVALID"
    ELSE HandleStatus(r)

Status(p, r) ==
    IF ~r.framed THEN "INVALID"
    ELSE IF r.op \in HelloOps THEN HelloStatus(p, r)
    ELSE IF peers[p] = "none" THEN "BUSY"
    ELSE IF r.gen # Generation THEN "STALE"
    ELSE IF r.op \in {"CAPS", "STAT"} THEN (IF Blank(r) THEN "OK" ELSE "INVALID")
    ELSE IF r.op \in LockOps THEN LockStatus(p, r)
    ELSE BlockStatus(p, r)

\* A shared write that passed the checks of sessions.c: remember() runs before
\* rntp_handle decides.
SavesUndo(p, r) ==
    /\ r.framed
    /\ r.gen = Generation
    /\ r.op \in WriteOps
    /\ peers[p] = "shared"
    /\ locked = p
    /\ WriteChecked(r)

-----------------------------------------------------------------------------
(* The handlers.                                                            *)

Answer(r, status, number, sectors) ==
    reply' = [op |-> r.op, status |-> status, number |-> number, sectors |-> sectors]

RolledBack == [s \in LBA |-> IF s \in dirty THEN undo[s] ELSE image[s]]

NextRevision == LET next == (revision + 1) % RevisionMod
                IN  IF next = 0 THEN 1 ELSE next

\* Faulty variant: the bitmap of the finished transaction is not cleared.
FinishKeepsDirty(commit) ==
    /\ image' = IF modified /\ ~commit THEN RolledBack ELSE image
    /\ revision' = IF modified /\ commit THEN NextRevision ELSE revision
    /\ committed_free' = IF modified /\ commit
                         THEN FreeSpace(image, committed_free) ELSE committed_free
    /\ modified' = FALSE
    /\ locked' = None
    /\ UNCHANGED <<undo, dirty>>

\* Faulty variant: free space is counted before the rollback, on abort as well.
FinishCountsDraft(commit) ==
    /\ image' = IF modified /\ ~commit THEN RolledBack ELSE image
    /\ revision' = IF modified /\ commit THEN NextRevision ELSE revision
    /\ committed_free' = IF modified THEN FreeSpace(image, committed_free) ELSE committed_free
    /\ dirty' = {}
    /\ modified' = FALSE
    /\ locked' = None
    /\ UNCHANGED undo

\* Faulty variant: a commit does not advance the revision.
FinishKeepsRevision(commit) ==
    /\ image' = IF modified /\ ~commit THEN RolledBack ELSE image
    /\ committed_free' = IF modified /\ commit
                         THEN FreeSpace(image, committed_free) ELSE committed_free
    /\ dirty' = {}
    /\ modified' = FALSE
    /\ locked' = None
    /\ UNCHANGED <<undo, revision>>

\* Faulty variant: the transaction of a lost connection is kept as it is.
FinishKeepsDraft(commit) ==
    /\ revision' = IF modified THEN NextRevision ELSE revision
    /\ committed_free' = IF modified THEN FreeSpace(image, committed_free) ELSE committed_free
    /\ dirty' = {}
    /\ modified' = FALSE
    /\ locked' = None
    /\ UNCHANGED <<image, undo>>

\* finish() of sessions.c.
Finish(commit) ==
    /\ image' = IF modified /\ ~commit THEN RolledBack ELSE image
    /\ revision' = IF modified /\ commit THEN NextRevision ELSE revision
    /\ committed_free' = IF modified /\ commit
                         THEN FreeSpace(image, committed_free) ELSE committed_free
    /\ dirty' = {}
    /\ modified' = FALSE
    /\ locked' = None
    /\ UNCHANGED undo

Refuse(p, r) ==
    /\ Status(p, r) # "OK"
    /\ ~SavesUndo(p, r)
    /\ Answer(r, Status(p, r), 0, <<>>)
    /\ UNCHANGED state

Hello(p, r) ==
    /\ r.op \in HelloOps
    /\ Status(p, r) = "OK"
    /\ peers' = [peers EXCEPT ![p] = IF r.op = "HELLO_SHARED" THEN "shared" ELSE "legacy"]
    /\ legacy' = IF r.op = "HELLO" THEN p ELSE legacy
    /\ Answer(r, "OK", Sectors, <<image[0]>>)
    /\ UNCHANGED <<diskState, locked>>

\* CAPS always offers batch, shared and read-batch; PING has no payload.
Probe(p, r) ==
    /\ r.op \in {"CAPS", "PING"}
    /\ Status(p, r) = "OK"
    /\ Answer(r, "OK", 0, <<>>)
    /\ UNCHANGED state

Stat(p, r) ==
    /\ r.op = "STAT"
    /\ Status(p, r) = "OK"
    /\ Answer(r, "OK", committed_free, <<>>)
    /\ UNCHANGED state

Lock(p, r) ==
    /\ r.op = "LOCK"
    /\ Status(p, r) = "OK"
    /\ locked' = p
    /\ Answer(r, "OK", revision, <<>>)
    /\ UNCHANGED <<diskState, peers, legacy>>

\* UNLOCK commits, ABORT rolls back; both report the resulting revision.
Unlock(p, r) ==
    /\ r.op \in {"UNLOCK", "ABORT"}
    /\ Status(p, r) = "OK"
    /\ Finish(r.op = "UNLOCK")
    /\ Answer(r, "OK", revision', <<>>)
    /\ UNCHANGED <<peers, legacy>>

Read(p, r) ==
    /\ r.op \in {"READ", "READ_BATCH"}
    /\ Status(p, r) = "OK"
    /\ LET n == IF r.op = "READ" THEN 1 ELSE r.count
       IN  Answer(r, "OK", 0, [i \in 1 .. n |-> image[r.lba + i - 1]])
    /\ UNCHANGED state

\* Faulty variant: a sector is saved again every time it is written.
RememberAgain(touched) ==
    /\ undo' = [s \in LBA |-> IF s \in touched THEN image[s] ELSE undo[s]]
    /\ dirty' = dirty \cup touched
    /\ modified' = TRUE

\* remember() saves a sector the first time the transaction touches it.
Remember(touched) ==
    /\ undo' = [s \in LBA |-> IF s \in touched \ dirty THEN image[s] ELSE undo[s]]
    /\ dirty' = dirty \cup touched
    /\ modified' = TRUE

\* Save the sectors of a checked frame, then let rntp_handle write them.
SharedWrite(p, r) ==
    /\ SavesUndo(p, r)
    /\ Remember({Records(r)[i].lba : i \in DOMAIN Records(r)})
    /\ image' = IF HandleStatus(r) = "OK" THEN Written(image, Records(r)) ELSE image
    /\ Answer(r, HandleStatus(r), 0, <<>>)
    /\ UNCHANGED <<revision, committed_free, peers, legacy, locked>>

\* Faulty variant: a legacy write does not advance the revision.
LegacyWriteKeepsRevision(p, r) ==
    /\ r.op \in WriteOps
    /\ peers[p] = "legacy"
    /\ Status(p, r) = "OK"
    /\ image' = Written(image, Records(r))
    /\ committed_free' = FreeSpace(image', committed_free)
    /\ Answer(r, "OK", 0, <<>>)
    /\ UNCHANGED <<undo, dirty, modified, revision, peers, legacy, locked>>

\* The exclusive peer writes through; every write counts as a commit.
LegacyWrite(p, r) ==
    /\ r.op \in WriteOps
    /\ peers[p] = "legacy"
    /\ Status(p, r) = "OK"
    /\ image' = Written(image, Records(r))
    /\ revision' = (revision + 1) % RevisionMod
    /\ committed_free' = FreeSpace(image', committed_free)
    /\ Answer(r, "OK", 0, <<>>)
    /\ UNCHANGED <<undo, dirty, modified, peers, legacy, locked>>

\* rntp_sessions_handle.
Handle(p, r) ==
    \/ Refuse(p, r)
    \/ Hello(p, r)
    \/ Probe(p, r)
    \/ Stat(p, r)
    \/ Lock(p, r)
    \/ Unlock(p, r)
    \/ Read(p, r)
    \/ SharedWrite(p, r)
    \/ LegacyWrite(p, r)

\* Faulty variant: the transaction of a lost connection stays open.
ReleaseKeepsLock(p) ==
    /\ UNCHANGED <<diskState, locked>>
    /\ legacy' = IF legacy = p THEN None ELSE legacy
    /\ peers' = [peers EXCEPT ![p] = "none"]
    /\ UNCHANGED reply

\* rntp_sessions_release.
Release(p) ==
    /\ IF locked = p THEN Finish(FALSE) ELSE UNCHANGED <<diskState, locked>>
    /\ legacy' = IF legacy = p THEN None ELSE legacy
    /\ peers' = [peers EXCEPT ![p] = "none"]
    /\ UNCHANGED reply

NoReply == [op |-> "UNKNOWN", status |-> "OK", number |-> 0, sectors |-> <<>>]

\* rntp_sessions_init; undo is allocated and not written, so it holds anything.
Init ==
    /\ image \in [LBA -> Data]
    /\ image[0] \in DOMAIN Fat
    /\ undo \in [LBA -> Data]
    /\ dirty = {}
    /\ modified = FALSE
    /\ revision = 1
    /\ committed_free = FreeClusters(image)
    /\ peers = [p \in Peers |-> "none"]
    /\ legacy = None
    /\ locked = None
    /\ reply = NoReply

Next ==
    \E p \in Peers :
        \/ Release(p)
        \/ \E r \in Requests : Handle(p, r)

Spec == Init /\ [][Next]_vars

-----------------------------------------------------------------------------
(* Properties.                                                              *)

\* What the disk would hold if the open transaction were rolled back now.
Committed == RolledBack

Disk == INSTANCE RntpDisk WITH disk <- Committed, draft <- image,
                               holder <- locked, members <- peers

\* Types of the fields of RntpSessions and of the reply frame.
TypeOK ==
    /\ image \in [LBA -> Data]
    /\ undo \in [LBA -> Data]
    /\ dirty \in SUBSET LBA
    /\ modified \in BOOLEAN
    /\ revision \in 0 .. RevisionMod - 1
    /\ committed_free \in Nat
    /\ peers \in [Peers -> {"none", "legacy", "shared"}]
    /\ legacy \in Peers \cup {None}
    /\ locked \in Peers \cup {None}
    /\ reply \in Reply

\* The legacy protocol excludes everybody else, and only an attached shared
\* peer is inside a transaction: no order of HELLO, LOCK and release leaves a
\* lock or an exclusive claim behind for the next user of a slot.
Exclusion ==
    /\ \A p \in Peers : (legacy = p) <=> (peers[p] = "legacy")
    /\ legacy # None => \A p \in Peers : p # legacy => peers[p] = "none"
    /\ locked # None => peers[locked] = "shared"

\* Undo records exist exactly while a transaction that has written is open,
\* and never for sector 0.
UndoOwned ==
    /\ modified <=> dirty # {}
    /\ modified => locked # None
    /\ 0 \notin dirty

\* The free space that STAT publishes is that of the committed image, never of
\* the edits of an open transaction.  A boot sector that a legacy peer has made
\* invalid leaves the last figure in place.
FreeIsCommitted ==
    Committed[0] \in DOMAIN Fat => committed_free = FreeClusters(Committed)

\* A change of the committed image is a change of revision, which is all a
\* client looks at to decide whether its cache is still good.
RevisionTracksDisk == [][Committed' # Committed => revision' # revision]_vars

\* A request that is answered with an error leaves no trace, undo records
\* included: the whole frame is validated before anything is saved.
RefusalLeavesNoTrace ==
    [][reply' # reply /\ reply'.status # "OK" => UNCHANGED state]_vars

\* The geometry in sector 0 does not change under an attached shared peer.
GeometryStable ==
    [][(\E p \in Peers : peers[p] = "shared" /\ peers'[p] = "shared")
          => image'[0] = image[0]]_vars

\* The sessions of c/rntp/sessions.c implement the transactional disk: with the
\* undo buffer laid over the dirty sectors as the published contents, every
\* handler and every release is one step of RntpDisk or none.
ImplementsDisk == Disk!Spec
=============================================================================
