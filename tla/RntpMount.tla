----------------------------- MODULE RntpMount ------------------------------
(***************************************************************************)
(* Linux mounts (c/rntp/linux/client.c under c/rntp/linux/main.c) sharing   *)
(* one RNTP server (the serve loop of c/rntp/main.c around RntpSessions).   *)
(*                                                                          *)
(* A mount runs one filesystem operation at a time: begin() takes the       *)
(* server's lock, the operation reads and writes sectors through a cache    *)
(* and a write buffer, and finish() commits or aborts.  Between operations  *)
(* a heartbeat keeps the connection alive.  All of it is one request at a   *)
(* time over one TCP connection; after any error the mount closes the       *)
(* connection and never opens another, so a new connection is a new mount.  *)
(*                                                                          *)
(* TCP keeps the bytes of a connection in order but may lose the rest of    *)
(* it: either end can give up at any moment, and what the other end still   *)
(* had in flight may or may not have arrived.  A slot whose mount is gone   *)
(* stays in use at the server until the loss is noticed.                    *)
(***************************************************************************)
EXTENDS Integers, Sequences, FiniteSets

CONSTANTS Peers, None, Sectors, Data, FreeEntry, Fat, Generation,
          MaxWrites,    \* RNTP_MAX_WRITES: buffer of a mount, records of a frame
          RevisionMod,
          Clients,      \* machines that mount the export
          OldMachines,  \* the ones among them that also have a client of the exclusive protocol
          Nil,          \* no sector contents: an EMPTY cache slot
          MetadataEnd,  \* first sector behind boot sector, FATs and root directory
          MetaSlots,    \* 192: cache slots for metadata sectors
          DataSlots,    \* 32: cache slots for the others
          MaxMounts,    \* bound: mounts, of all the machines together
          MaxTxns,      \* bound: filesystem operations, likewise
          MaxCalls      \* bound: sector reads and writes of an operation

\* What main.c and rntp_sessions_init establish before the first connection.
ASSUME ServerAssumption ==
    /\ Sectors \in Nat \ {0}
    /\ MaxWrites \in Nat \ {0}
    /\ RevisionMod \in Nat \ {0, 1, 2}
    /\ Generation \in Nat \ {0}
    /\ DOMAIN Fat \subseteq Data
    /\ \A boot \in DOMAIN Fat : Fat[boot] \subseteq 0 .. Sectors - 1
ASSUME NamesAssumption ==
    /\ None \notin Peers
    /\ None \notin Clients
    /\ Nil \notin Data
    /\ Data # {}
ASSUME LayoutAssumption == MetadataEnd \in Nat

VARIABLES image, undo, dirty, modified, revision, committed_free,
          peers, legacy, locked, reply,
          peerOf,       \* server: the machine a slot's connection came from, or None
          inbound,      \* server: the request frames on their way to a slot
          closing,      \* server: close_after
          fd,           \* mount: the slot it is connected to, or None
          pc,           \* mount: what it is doing
          held,         \* mount: locked
          rev,          \* mount: revision of its cache
          cache,        \* mount: the cached sectors
          writes,       \* mount: writes not sent yet
          todo,         \* mount: what interrupted call waits for a flush
          inbox,        \* mount: the reply frames on their way to it
          mounts, txns, \* bounds: mounts and operations so far
          calls,        \* bound: calls of this operation
          base,         \* history: the disk when the lock was granted
          view,         \* history: base with the operation's own writes
          outcome       \* history: what became of the mount's last transaction

Server == INSTANCE RntpSessions WITH Requests <- {}

serverVars  == <<image, undo, dirty, modified, revision, committed_free,
                 peers, legacy, locked, reply>>
socketVars  == <<peerOf, inbound, closing>>
cacheVars   == <<rev, cache, writes>>
processVars == <<fd, pc, held, todo, inbox>>
historyVars == <<base, view, outcome>>
boundVars   == <<mounts, txns, calls>>
vars == <<serverVars, socketVars, cacheVars, processVars, historyVars, boundVars>>

LBA       == Server!LBA
Committed == Server!Committed

NoTodo == [kind |-> "none", lba |-> 0, data |-> Nil]

\* The states in which a client waits for the reply to a request, and the ones
\* among them in which the process ends when there is none.
Waiting == {"hello", "caps", "ping", "lock", "flush", "fetch", "stat", "unlock", "abort",
            "oldhello", "oldwrite"}
Exiting == {"hello", "caps", "oldhello", "oldwrite"}

-----------------------------------------------------------------------------
(* The cache: two pools that evict their least recently used sector.  Which *)
(* one that is is left open.                                                *)

Pool(s) == {t \in LBA : (t < MetadataEnd) <=> (s < MetadataEnd)}
Slots(s) == IF s < MetadataEnd THEN MetaSlots ELSE DataSlots
Used(f, s) == Cardinality({t \in Pool(s) : f[t] # Nil})

NoCache == [s \in LBA |-> Nil]

\* The caches that can result from cache_put of all the sectors of new.
CachePut(old, new) ==
    LET all == [s \in LBA |-> IF new[s] # Nil THEN new[s] ELSE old[s]]
    IN  {f \in [LBA -> Data \cup {Nil}] :
            \A s \in LBA :
                /\ f[s] \in {all[s], Nil}
                /\ Used(f, s) = IF Used(all, s) < Slots(s) THEN Used(all, s) ELSE Slots(s)}

Buffered(c, s) == {i \in DOMAIN writes[c] : writes[c][i].lba = s}

\* What a read of sector s finds without asking the server.
Local(c, s) ==
    IF Buffered(c, s) # {} THEN writes[c][CHOOSE i \in Buffered(c, s) : TRUE].data
    ELSE cache[c][s]

\* The buffered writes as a cache fill.
BufferedSectors(c) ==
    [s \in LBA |-> IF Buffered(c, s) = {} THEN Nil
                   ELSE writes[c][CHOOSE i \in Buffered(c, s) : TRUE].data]

-----------------------------------------------------------------------------
(* Frames and connections.                                                  *)

Frame(op) == [op |-> op, framed |-> TRUE, fits |-> TRUE,
              gen |-> IF op \in {"HELLO", "HELLO_SHARED"} THEN 0 ELSE Generation,
              lba |-> 0, count |-> 0, data |-> CHOOSE d \in Data : TRUE, writes |-> <<>>]

Batch(c) == [Frame("WRITE_BATCH") EXCEPT !.writes = writes[c]]

\* Read up to 32 sectors, but not across the end of the metadata.
FetchCount(s) ==
    LET room == IF s < MetadataEnd THEN MetadataEnd - s ELSE Sectors - s
    IN  IF room < MaxWrites THEN room ELSE MaxWrites

Fetch(s) == [Frame("READ_BATCH") EXCEPT !.lba = s, !.count = FetchCount(s)]

Connected(c) == fd[c] # None /\ peerOf[fd[c]] = c

\* rpc() sends a frame; it is lost when the server has reset the connection.
Send(c, frame) ==
    inbound' = IF Connected(c) THEN [inbound EXCEPT ![fd[c]] = Append(@, frame)] ELSE inbound

\* fail() of client.c: the connection is closed and nothing is kept.
Forget(c) ==
    /\ fd' = [fd EXCEPT ![c] = None]
    /\ held' = [held EXCEPT ![c] = FALSE]
    /\ cache' = [cache EXCEPT ![c] = NoCache]
    /\ writes' = [writes EXCEPT ![c] = <<>>]
    /\ inbox' = [inbox EXCEPT ![c] = <<>>]
    /\ todo' = [todo EXCEPT ![c] = NoTodo]

-----------------------------------------------------------------------------
(* The server.                                                              *)

\* One frame of a slot: handle it and start sending the reply.  A frame that is
\* refused closes the connection once the reply is out, except a LOCK that is
\* merely busy.  The reply reaches a mount that is still there.
Serve(p) ==
    /\ peerOf[p] # None
    /\ ~closing[p]
    /\ inbound[p] # <<>>
    /\ LET c == peerOf[p]
           r == Head(inbound[p])
       IN  /\ Server!Handle(p, r)
           /\ inbound' = [inbound EXCEPT ![p] = Tail(@)]
           /\ closing' = [closing EXCEPT ![p] =
                             /\ reply'.status # "OK"
                             /\ ~(r.op = "LOCK" /\ reply'.status = "BUSY")]
           /\ inbox' = IF fd[c] = p
                       THEN [inbox EXCEPT ![c] = Append(@, [frame |-> reply', disk |-> Committed])]
                       ELSE inbox
           /\ outcome' = IF fd[c] = p /\ reply'.status = "OK" /\ r.op \in {"UNLOCK", "ABORT"}
                         THEN [outcome EXCEPT ![c] =
                                  IF r.op = "UNLOCK" THEN "committed" ELSE "dropped"]
                         ELSE outcome
    /\ UNCHANGED <<peerOf, fd, pc, held, todo, cacheVars, base, view, boundVars>>

\* reset() of a slot, and the release that follows a socket freed by a packet.
Reset(p) ==
    /\ Server!Release(p)
    /\ outcome' = IF locked = p /\ fd[peerOf[p]] = p
                  THEN [outcome EXCEPT ![peerOf[p]] = "dropped"] ELSE outcome
    /\ peerOf' = [peerOf EXCEPT ![p] = None]
    /\ inbound' = [inbound EXCEPT ![p] = <<>>]
    /\ closing' = [closing EXCEPT ![p] = FALSE]
    /\ UNCHANGED <<processVars, cacheVars, base, view, boundVars>>

\* The end of a refused exchange.
CloseAfter(p) == peerOf[p] # None /\ closing[p] /\ Reset(p)

\* Faulty variant: the lease does not run while the slot holds the lock.
NoticeLossOfIdle(p) ==
    /\ peerOf[p] # None
    /\ fd[peerOf[p]] # p
    /\ locked # p
    /\ Reset(p)

\* The connection is gone at the other end: FIN or RST, or silence until the
\* lease of LEASE_TIMEOUT runs out.
NoticeLoss(p) == peerOf[p] # None /\ fd[peerOf[p]] # p /\ Reset(p)

\* The mount is there but stalled, or its packets are lost, for LEASE_TIMEOUT.
LeaseExpires(p) == peerOf[p] # None /\ fd[peerOf[p]] = p /\ Reset(p)

-----------------------------------------------------------------------------
(* The mount.                                                               *)

\* rntp_client_connect: a fresh client on a free slot of the server.
Connect(c, p) ==
    /\ pc[c] = "off"
    /\ mounts < MaxMounts
    /\ mounts' = mounts + 1
    /\ peerOf[p] = None
    /\ peerOf' = [peerOf EXCEPT ![p] = c]
    /\ fd' = [fd EXCEPT ![c] = p]
    /\ rev' = [rev EXCEPT ![c] = 0]
    /\ \/ /\ inbound' = [inbound EXCEPT ![p] = <<Frame("HELLO_SHARED")>>]
          /\ pc' = [pc EXCEPT ![c] = "hello"]
       \/ /\ c \in OldMachines
          /\ inbound' = [inbound EXCEPT ![p] = <<Frame("HELLO")>>]
          /\ pc' = [pc EXCEPT ![c] = "oldhello"]
    /\ UNCHANGED <<serverVars, closing, cache, writes, held, todo, inbox, historyVars, txns, calls>>

\* Faulty variant: no deadline, only a refusal ends a wait.
FailOnRefusal(c) ==
    /\ pc[c] \in Waiting
    /\ inbox[c] # <<>>
    /\ Head(inbox[c]).frame.status # "OK"
    /\ Forget(c)
    /\ pc' = [pc EXCEPT ![c] = IF @ \in Exiting THEN "off" ELSE "dead"]
    /\ UNCHANGED <<serverVars, socketVars, rev, historyVars, boundVars>>

\* Any request may end in a timeout, a reset or a refusal; the operation that
\* was running fails with it.  A mount that has not finished connecting exits,
\* and so does an exclusive client.
Fail(c) ==
    /\ pc[c] \in Waiting
    /\ Forget(c)
    /\ pc' = [pc EXCEPT ![c] = IF @ \in Exiting THEN "off" ELSE "dead"]
    /\ UNCHANGED <<serverVars, socketVars, rev, historyVars, boundVars>>

\* rntp_client_close at unmount, or the end of the process.
Unmount(c) ==
    /\ pc[c] \in {"idle", "dead", "old"}
    /\ Forget(c)
    /\ pc' = [pc EXCEPT ![c] = "off"]
    /\ UNCHANGED <<serverVars, socketVars, rev, historyVars, boundVars>>

\* The reply the mount waits for has arrived and is no error.
Accepted(c, state) ==
    /\ pc[c] = state
    /\ inbox[c] # <<>>
    /\ Head(inbox[c]).frame.status = "OK"
    /\ inbox' = [inbox EXCEPT ![c] = Tail(@)]

Answer(c) == Head(inbox[c]).frame

Move(c, state) == pc' = [pc EXCEPT ![c] = state]

HelloReply(c) ==
    /\ Accepted(c, "hello")
    /\ Send(c, Frame("CAPS"))
    /\ Move(c, "caps")
    /\ UNCHANGED <<serverVars, peerOf, closing, cacheVars, fd, held, todo, historyVars, boundVars>>

CapsReply(c) ==
    /\ Accepted(c, "caps")
    /\ Move(c, "idle")
    /\ UNCHANGED <<serverVars, socketVars, cacheVars, fd, held, todo, historyVars, boundVars>>

Heartbeat(c) ==
    /\ pc[c] = "idle"
    /\ Send(c, Frame("PING"))
    /\ Move(c, "ping")
    /\ UNCHANGED <<serverVars, peerOf, closing, cacheVars, fd, held, todo, inbox,
                   historyVars, boundVars>>

PingReply(c) ==
    /\ Accepted(c, "ping")
    /\ Move(c, "idle")
    /\ UNCHANGED <<serverVars, socketVars, cacheVars, fd, held, todo, historyVars, boundVars>>

\* The exclusive protocol, as far as the other machines can tell: attach, write
\* single sectors through, leave.
OldReply(c) ==
    /\ Accepted(c, "oldhello") \/ Accepted(c, "oldwrite")
    /\ Move(c, "old")
    /\ UNCHANGED <<serverVars, socketVars, cacheVars, fd, held, todo, historyVars, boundVars>>

OldWrite(c, s, d) ==
    /\ pc[c] = "old"
    /\ txns < MaxTxns
    /\ txns' = txns + 1
    /\ Send(c, [Frame("WRITE") EXCEPT !.lba = s, !.data = d])
    /\ Move(c, "oldwrite")
    /\ UNCHANGED <<serverVars, peerOf, closing, cacheVars, fd, held, todo, inbox,
                   historyVars, mounts, calls>>

\* rntp_client_begin.
Begin(c) ==
    /\ pc[c] = "idle"
    /\ txns < MaxTxns
    /\ Send(c, Frame("LOCK"))
    /\ Move(c, "lock")
    /\ txns' = txns + 1
    /\ calls' = [calls EXCEPT ![c] = 0]
    /\ UNCHANGED <<serverVars, peerOf, closing, cacheVars, fd, held, todo, inbox,
                   historyVars, mounts>>

LockBusy(c) ==
    /\ pc[c] = "lock"
    /\ inbox[c] # <<>>
    /\ Answer(c).status = "BUSY"
    /\ inbox' = [inbox EXCEPT ![c] = Tail(@)]
    /\ Move(c, "retry")
    /\ UNCHANGED <<serverVars, socketVars, cacheVars, fd, held, todo, historyVars, boundVars>>

Retry(c) ==
    /\ pc[c] = "retry"
    /\ Send(c, Frame("LOCK"))
    /\ Move(c, "lock")
    /\ UNCHANGED <<serverVars, peerOf, closing, cacheVars, fd, held, todo, inbox,
                   historyVars, boundVars>>

\* Five seconds of BUSY: the operation fails, the connection stays.
GiveUp(c) ==
    /\ pc[c] = "retry"
    /\ Move(c, "idle")
    /\ UNCHANGED <<serverVars, socketVars, cacheVars, fd, held, todo, inbox,
                   historyVars, boundVars>>

\* The cache survives only when nobody committed since it was filled.
LockReply(c) ==
    /\ Accepted(c, "lock")
    /\ Answer(c).number # 0
    /\ cache' = IF Answer(c).number # rev[c] THEN [cache EXCEPT ![c] = NoCache] ELSE cache
    /\ rev' = [rev EXCEPT ![c] = Answer(c).number]
    /\ held' = [held EXCEPT ![c] = TRUE]
    /\ Move(c, "run")
    /\ base' = [base EXCEPT ![c] = Head(inbox[c]).disk]
    /\ view' = [view EXCEPT ![c] = Head(inbox[c]).disk]
    /\ outcome' = [outcome EXCEPT ![c] = "open"]
    /\ UNCHANGED <<serverVars, socketVars, writes, fd, todo, boundVars>>

\* One call of the running operation.
Call(c) ==
    /\ pc[c] = "run"
    /\ calls[c] < MaxCalls
    /\ calls' = [calls EXCEPT ![c] = @ + 1]
    /\ UNCHANGED <<mounts, txns>>

\* rntp_client_read of a sector that is not at hand: flush, then fetch.
ReadMiss(c, s) ==
    /\ Call(c)
    /\ Local(c, s) = Nil
    /\ IF writes[c] = <<>>
       THEN /\ Send(c, Fetch(s))
            /\ Move(c, "fetch")
       ELSE /\ Send(c, Batch(c))
            /\ Move(c, "flush")
    /\ todo' = [todo EXCEPT ![c] = [NoTodo EXCEPT !.kind = "read", !.lba = s]]
    /\ UNCHANGED <<serverVars, peerOf, closing, cacheVars, fd, held, inbox, historyVars>>

FetchReply(c) ==
    /\ Accepted(c, "fetch")
    /\ LET s   == todo[c].lba
           got == Answer(c).sectors
           new == [t \in LBA |-> IF t - s + 1 \in DOMAIN got THEN got[t - s + 1] ELSE Nil]
       IN  \E f \in CachePut(cache[c], new) : cache' = [cache EXCEPT ![c] = f]
    /\ todo' = [todo EXCEPT ![c] = NoTodo]
    /\ Move(c, "run")
    /\ UNCHANGED <<serverVars, socketVars, rev, writes, fd, held, historyVars, boundVars>>

\* rntp_client_write: the last write to a sector replaces the one before; a full
\* buffer is flushed first.
Write(c, s, d) ==
    /\ Call(c)
    /\ \/ /\ Buffered(c, s) # {}
          /\ writes' = [writes EXCEPT ![c] =
                           [i \in DOMAIN @ |-> IF @[i].lba = s THEN [lba |-> s, data |-> d] ELSE @[i]]]
          /\ view' = [view EXCEPT ![c][s] = d]
          /\ UNCHANGED <<inbound, pc, todo>>
       \/ /\ Buffered(c, s) = {}
          /\ Len(writes[c]) < MaxWrites
          /\ writes' = [writes EXCEPT ![c] = Append(@, [lba |-> s, data |-> d])]
          /\ view' = [view EXCEPT ![c][s] = d]
          /\ UNCHANGED <<inbound, pc, todo>>
       \/ /\ Buffered(c, s) = {}
          /\ Len(writes[c]) = MaxWrites
          /\ Send(c, Batch(c))
          /\ Move(c, "flush")
          /\ todo' = [todo EXCEPT ![c] = [kind |-> "write", lba |-> s, data |-> d]]
          /\ UNCHANGED <<writes, view>>
    /\ UNCHANGED <<serverVars, peerOf, closing, rev, cache, fd, held, inbox, base, outcome>>

\* flush() succeeded: the written sectors enter the cache and the call that
\* needed the flush goes on.
FlushReply(c) ==
    /\ Accepted(c, "flush")
    /\ \E f \in CachePut(cache[c], BufferedSectors(c)) : cache' = [cache EXCEPT ![c] = f]
    /\ \/ /\ todo[c].kind = "read"
          /\ Send(c, Fetch(todo[c].lba))
          /\ Move(c, "fetch")
          /\ writes' = [writes EXCEPT ![c] = <<>>]
          /\ UNCHANGED <<todo, view>>
       \/ /\ todo[c].kind = "write"
          /\ Move(c, "run")
          /\ writes' = [writes EXCEPT ![c] = <<[lba |-> todo[c].lba, data |-> todo[c].data]>>]
          /\ view' = [view EXCEPT ![c][todo[c].lba] = todo[c].data]
          /\ todo' = [todo EXCEPT ![c] = NoTodo]
          /\ UNCHANGED inbound
       \/ /\ todo[c].kind = "unlock"
          /\ Send(c, Frame("UNLOCK"))
          /\ Move(c, "unlock")
          /\ writes' = [writes EXCEPT ![c] = <<>>]
          /\ todo' = [todo EXCEPT ![c] = NoTodo]
          /\ UNCHANGED view
    /\ UNCHANGED <<serverVars, peerOf, closing, rev, fd, held, base, outcome, boundVars>>

\* rntp_client_free, the call of statfs.
Free(c) ==
    /\ Call(c)
    /\ Send(c, Frame("STAT"))
    /\ Move(c, "stat")
    /\ UNCHANGED <<serverVars, peerOf, closing, cacheVars, fd, held, todo, inbox, historyVars>>

FreeReply(c) ==
    /\ Accepted(c, "stat")
    /\ Move(c, "run")
    /\ UNCHANGED <<serverVars, socketVars, cacheVars, fd, held, todo, historyVars, boundVars>>

\* rntp_client_finish after an operation that succeeded: flush, then UNLOCK.
Commit(c) ==
    /\ pc[c] = "run"
    /\ IF writes[c] = <<>>
       THEN /\ Send(c, Frame("UNLOCK"))
            /\ Move(c, "unlock")
            /\ UNCHANGED todo
       ELSE /\ Send(c, Batch(c))
            /\ Move(c, "flush")
            /\ todo' = [todo EXCEPT ![c] = [NoTodo EXCEPT !.kind = "unlock"]]
    /\ UNCHANGED <<serverVars, peerOf, closing, cacheVars, fd, held, inbox, historyVars, boundVars>>

\* Faulty variant: what a failed operation wrote stays in the cache.
AbortKeepsCache(c) ==
    /\ pc[c] = "run"
    /\ writes' = [writes EXCEPT ![c] = <<>>]
    /\ Send(c, Frame("ABORT"))
    /\ Move(c, "abort")
    /\ UNCHANGED <<serverVars, peerOf, closing, rev, cache, fd, held, todo, inbox, historyVars, boundVars>>

\* rntp_client_finish after an operation that failed.
Abort(c) ==
    /\ pc[c] = "run"
    /\ writes' = [writes EXCEPT ![c] = <<>>]
    /\ cache' = [cache EXCEPT ![c] = NoCache]
    /\ Send(c, Frame("ABORT"))
    /\ Move(c, "abort")
    /\ UNCHANGED <<serverVars, peerOf, closing, rev, fd, held, todo, inbox, historyVars, boundVars>>

FinishReply(c) ==
    /\ Accepted(c, "unlock") \/ Accepted(c, "abort")
    /\ Answer(c).number # 0
    /\ rev' = [rev EXCEPT ![c] = Answer(c).number]
    /\ held' = [held EXCEPT ![c] = FALSE]
    /\ Move(c, "idle")
    /\ UNCHANGED <<serverVars, socketVars, cache, writes, fd, todo, historyVars, boundVars>>

-----------------------------------------------------------------------------
Init ==
    /\ Server!Init
    /\ peerOf = [p \in Peers |-> None]
    /\ inbound = [p \in Peers |-> <<>>]
    /\ closing = [p \in Peers |-> FALSE]
    /\ fd = [c \in Clients |-> None]
    /\ pc = [c \in Clients |-> "off"]
    /\ held = [c \in Clients |-> FALSE]
    /\ rev = [c \in Clients |-> 0]
    /\ cache = [c \in Clients |-> NoCache]
    /\ writes = [c \in Clients |-> <<>>]
    /\ todo = [c \in Clients |-> NoTodo]
    /\ inbox = [c \in Clients |-> <<>>]
    /\ mounts = 0
    /\ txns = 0
    /\ calls = [c \in Clients |-> 0]
    /\ base = [c \in Clients |-> image]
    /\ view = [c \in Clients |-> image]
    /\ outcome = [c \in Clients |-> "none"]

ServerStep(p) == Serve(p) \/ CloseAfter(p) \/ NoticeLoss(p)

\* What a mount does without being asked anything new.
Progress(c) ==
    \/ HelloReply(c) \/ CapsReply(c) \/ PingReply(c) \/ OldReply(c)
    \/ LockReply(c) \/ LockBusy(c) \/ Retry(c)
    \/ FetchReply(c) \/ FlushReply(c) \/ FreeReply(c) \/ FinishReply(c)
    \/ Commit(c) \/ Abort(c)
    \/ Fail(c)

\* fat.c takes the boot sector from HELLO, and reads and writes only the others.
Ask(c) ==
    \/ \E p \in Peers : Connect(c, p)
    \/ Unmount(c) \/ Heartbeat(c) \/ Begin(c) \/ Free(c)
    \/ \E s \in LBA \ {0} :
        \/ ReadMiss(c, s)
        \/ \E d \in Data : Write(c, s, d) \/ OldWrite(c, s, d)

Next ==
    \/ \E p \in Peers : ServerStep(p) \/ LeaseExpires(p)
    \/ \E c \in Clients : Progress(c) \/ GiveUp(c) \/ Ask(c)

Spec == Init /\ [][Next]_vars

\* Scheduling: the serve loop visits every slot for ever, a mount works off what
\* it has begun, and every wait ends at its deadline (five seconds for a reply
\* and for a busy lock, LEASE_TIMEOUT for a lost mount).
Fairness ==
    /\ \A p \in Peers : WF_vars(ServerStep(p))
    /\ \A c \in Clients : WF_vars(Progress(c)) /\ SF_vars(GiveUp(c))

FairSpec == Spec /\ Fairness

-----------------------------------------------------------------------------
(* Properties.                                                              *)

\* Types of the mounts, the connections and the history.
TypeOK ==
    /\ Server!TypeOK
    /\ peerOf \in [Peers -> Clients \cup {None}]
    /\ \A p \in Peers : inbound[p] \in Seq(Server!Request) /\ Len(inbound[p]) <= 1
    /\ closing \in [Peers -> BOOLEAN]
    /\ fd \in [Clients -> Peers \cup {None}]
    /\ pc \in [Clients -> Waiting \cup {"off", "dead", "idle", "retry", "run", "old"}]
    /\ held \in [Clients -> BOOLEAN]
    /\ rev \in [Clients -> 0 .. RevisionMod - 1]
    /\ cache \in [Clients -> [LBA -> Data \cup {Nil}]]
    /\ \A c \in Clients :
        /\ Len(writes[c]) <= MaxWrites
        /\ \A i \in DOMAIN writes[c] : writes[c][i].lba \in LBA \ {0} /\ writes[c][i].data \in Data
        /\ \A i, j \in DOMAIN writes[c] : writes[c][i].lba = writes[c][j].lba => i = j
        /\ Len(inbox[c]) <= 1

\* A cache whose revision is the server's holds committed data only, however
\* many commits, aborts and lost connections there were in between.
CacheCoherent ==
    \A c \in Clients :
        pc[c] \in {"idle", "ping", "lock", "retry"} /\ rev[c] = revision
            => \A s \in LBA : cache[c][s] \in {Nil, Committed[s]}

\* Every sector an operation reads, at hand or fetched, is the one of the disk
\* at the time its lock was granted, with the operation's own writes: even when
\* the server has long given the lock to somebody else.
SnapshotReads ==
    \A c \in Clients : held[c] =>
        /\ \A s \in LBA : Local(c, s) # Nil => Local(c, s) = view[c][s]
        /\ pc[c] = "fetch" /\ inbox[c] # <<>> /\ Answer(c).status = "OK"
            => \A i \in DOMAIN Answer(c).sectors :
                   Answer(c).sectors[i] = view[c][todo[c].lba + i - 1]

\* What changes a shared disk is one whole operation: it was based on the very disk
\* it replaces (no update is lost) and all of its writes, in their last version,
\* arrive together.  An operation that has not asked for a commit is not committed,
\* whatever ends it, and a commit that is reported as done has been done.
SerialCommits ==
    [][/\ (Committed' # Committed \/ revision' # revision) /\ legacy = None =>
             /\ locked # None
             /\ Committed = base[peerOf[locked]]
             /\ Committed' = view[peerOf[locked]]
       /\ \A c \in Clients :
             /\ pc'[c] \in {"run", "flush", "fetch", "stat", "abort"} => outcome'[c] # "committed"
             /\ pc[c] = "unlock" /\ pc'[c] = "idle" => outcome[c] = "committed"]_vars

\* No lock is held for ever: not by a mount that timed out while its LOCK was
\* still under way, nor by one that died inside an operation.
LockReleased == locked # None ~> locked = None

\* begin() returns: with the lock, with EBUSY or with an error.
BeginReturns ==
    \A c \in Clients : pc[c] = "lock" ~> pc[c] \notin {"lock", "retry"}

-----------------------------------------------------------------------------
\* Values nothing will read again do not tell states apart: the last reply, undo
\* records of clean sectors, and the leftovers of an operation that has ended.
Live(c) == held[c] \/ (locked # None /\ peerOf[locked] = c)

View ==
    << image, [s \in dirty |-> undo[s]], modified, revision, committed_free, peers, legacy, locked,
       socketVars, processVars, cache, writes, mounts, txns,
       [c \in Clients |-> IF pc[c] \in {"off", "dead"} THEN 0 ELSE rev[c]],
       [c \in Clients |-> IF held[c] THEN <<calls[c], outcome[c]>> ELSE <<>>],
       [c \in Clients |-> IF Live(c) THEN <<base[c], view[c]>> ELSE <<>>] >>
=============================================================================
