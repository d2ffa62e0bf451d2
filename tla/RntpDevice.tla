----------------------------- MODULE RntpDevice -----------------------------
(***************************************************************************)
(* The R2 client, `rntp connect`: connect_disk() of c/rntp/main.c with the  *)
(* read-ahead buffer of c/rntp/read_ahead.c, between the block-request      *)
(* bridge of the R2 kernel and the RNTP server.                             *)
(*                                                                          *)
(* The daemon greets the server, asks for its capabilities and free space,  *)
(* mounts the disk in the kernel and then carries one request at a time:    *)
(* its own STAT every two seconds, or a request of the kernel.  It first    *)
(* tries the shared protocol; a server or a kernel that will not have it    *)
(* makes it hang up and start again with the exclusive one.  Whatever goes  *)
(* wrong after the mount ends in an unmount.                                *)
(*                                                                          *)
(* The kernel is not part of this repository: its side of the bridge is     *)
(* modelled from the calls of connect_disk, and level is its age (0 knows   *)
(* single sectors, 1 batches, 2 shared mounts, 3 read-ahead completions).   *)
(* A second machine, whose frames always arrive, competes for the server.   *)
(***************************************************************************)
EXTENDS Integers, Sequences, FiniteSets

CONSTANTS Peers, None, Sectors, Data, FreeEntry, Fat, Generation, MaxWrites, RevisionMod,
          DataStart,    \* data_start: first sector behind the metadata
          Levels,       \* ages of the kernel
          MaxAsked,     \* bound: requests of the kernel
          MaxForeign    \* bound: writes of the other machine

VARIABLES image, undo, dirty, modified, revision, committed_free,
          peers, legacy, locked, reply,
          user,         \* server: whose connection a slot carries
          inbound,      \* server: the request on its way to a slot
          closing,      \* server: close_after
          inbox,        \* daemon: the reply on its way to it
          sock,         \* daemon: the slot it is connected to, or None
          shared,       \* daemon: the protocol it tries
          stage,        \* daemon: how far the connection has come
          expected_op,  \* daemon: the request that is waiting, or None
          retrying,     \* daemon: retry_at is set
          batch_capable,\* daemon: kernel and server take batches
          reads,        \* daemon: the read-ahead buffer
          level,        \* kernel: its age
          mount,        \* kernel: "none", "up" or, when it refuses calls, "down"
          request,      \* kernel: the request it waits for, or None
          inside,       \* kernel: a filesystem operation holds the lock
          asked, foreign,  \* bounds: requests and foreign writes so far
          done,         \* history: the sectors handed to the kernel for its last request
          view          \* history: the disk as the kernel may expect it

Server == INSTANCE RntpSessions WITH Requests <- {}

\* What main.c and rntp_sessions_init establish before the first connection.
ASSUME ServerAssumption ==
    /\ Sectors \in Nat \ {0}
    /\ MaxWrites \in Nat \ {0}
    /\ RevisionMod \in Nat \ {0, 1, 2}
    /\ Generation \in Nat \ {0}
    /\ DOMAIN Fat \subseteq Data
    /\ \A boot \in DOMAIN Fat : Fat[boot] \subseteq 0 .. Sectors - 1
ASSUME NamesAssumption ==
    /\ None \notin Peers
    /\ None \notin Server!Ops
    /\ Data # {}
ASSUME LayoutAssumption == DataStart \in Nat

LBA       == Server!LBA
Committed == Server!Committed

serverVars == <<image, undo, dirty, modified, revision, committed_free,
                peers, legacy, locked, reply>>
socketVars == <<user, inbound, closing>>
daemonVars == <<inbox, sock, shared, stage, expected_op, retrying, batch_capable, reads>>
kernelVars == <<level, mount, request, inside>>
otherVars  == <<asked, foreign, done, view>>
vars == <<serverVars, socketVars, daemonVars, kernelVars, otherVars>>

-----------------------------------------------------------------------------
(* The read-ahead buffer.                                                   *)

Run(s, sectors) == [lba |-> s, sectors |-> sectors]
Cleared == Run(0, <<>>)

InRun(run, s) == s >= run.lba /\ s - run.lba < Len(run.sectors)

At(run, s) == run.sectors[s - run.lba + 1]

\* Fetch to the end of the export, the end of the metadata or 32 sectors,
\* whichever comes first.
ReadAheadCount(s) ==
    LET rest == IF Sectors - s > MaxWrites THEN MaxWrites ELSE Sectors - s
    IN  IF s < DataStart /\ rest > DataStart - s THEN DataStart - s ELSE rest

-----------------------------------------------------------------------------
(* Frames and connections.                                                  *)

Frame(op) == [op |-> op, framed |-> TRUE, fits |-> TRUE,
              gen |-> IF op \in {"HELLO", "HELLO_SHARED"} THEN 0 ELSE Generation,
              lba |-> 0, count |-> 0, data |-> CHOOSE d \in Data : TRUE, writes |-> <<>>]

Hello == IF shared THEN "HELLO_SHARED" ELSE "HELLO"

Connected == sock # None /\ user[sock] = "daemon"

\* make_request() and outgoing(): the request starts on its way and is waited for.
Ask(frame) ==
    /\ inbound' = IF Connected THEN [inbound EXCEPT ![sock] = <<frame>>] ELSE inbound
    /\ expected_op' = frame.op

\* Leaving the loop.  A mounted disk is unmounted first; otherwise the socket is
\* reset, and the exclusive protocol gets its turn when the shared one was not
\* wanted.
Quit(fallback) ==
    /\ \/ /\ stage = "attached"
          /\ stage' = "detach"
          /\ UNCHANGED <<sock, shared>>
       \/ /\ stage # "attached"
          /\ stage' = IF fallback THEN "start" ELSE "exit"
          /\ shared' = (shared /\ ~fallback)
          /\ sock' = None
    /\ expected_op' = None
    /\ retrying' = FALSE
    /\ inbox' = <<>>
    /\ reads' = Cleared

-----------------------------------------------------------------------------
(* The server: as in RntpMount, for the slots of the daemon.                *)

Serve(p) ==
    /\ user[p] = "daemon"
    /\ ~closing[p]
    /\ inbound[p] # <<>>
    /\ LET r == Head(inbound[p])
       IN  /\ Server!Handle(p, r)
           /\ inbound' = [inbound EXCEPT ![p] = <<>>]
           /\ closing' = [closing EXCEPT ![p] =
                             /\ reply'.status # "OK"
                             /\ ~(r.op = "LOCK" /\ reply'.status = "BUSY")]
           /\ inbox' = IF sock = p THEN <<[frame |-> reply', disk |-> Committed']>> ELSE inbox
    /\ UNCHANGED <<user, sock, shared, stage, expected_op, retrying, batch_capable, reads,
                   kernelVars, otherVars>>

Reset(p) ==
    /\ Server!Release(p)
    /\ user' = [user EXCEPT ![p] = "none"]
    /\ inbound' = [inbound EXCEPT ![p] = <<>>]
    /\ closing' = [closing EXCEPT ![p] = FALSE]
    /\ UNCHANGED <<daemonVars, kernelVars, otherVars>>

CloseAfter(p) == user[p] = "daemon" /\ closing[p] /\ Reset(p)

NoticeLoss(p) == user[p] = "daemon" /\ sock # p /\ Reset(p)

LeaseExpires(p) == user[p] = "daemon" /\ sock = p /\ Reset(p)

-----------------------------------------------------------------------------
(* The daemon: connecting.                                                  *)

\* TCP connection to a free slot of the server, then the greeting.
Dial(p) ==
    /\ stage = "start"
    /\ user[p] = "none"
    /\ user' = [user EXCEPT ![p] = "daemon"]
    /\ inbound' = [inbound EXCEPT ![p] = <<Frame(Hello)>>]
    /\ sock' = p
    /\ stage' = "greet"
    /\ expected_op' = Hello
    /\ UNCHANGED <<serverVars, closing, inbox, shared, retrying, batch_capable, reads,
                   kernelVars, otherVars>>

DialFails ==
    /\ stage = "start"
    /\ stage' = "exit"
    /\ UNCHANGED <<serverVars, socketVars, inbox, sock, shared, expected_op, retrying,
                   batch_capable, reads, kernelVars, otherVars>>

\* Once greeted: CAPS, then STAT for the free space of the mount.
Introduce ==
    /\ stage \in {"caps", "mount"}
    /\ expected_op = None
    /\ Ask(Frame(IF stage = "caps" THEN "CAPS" ELSE "STAT"))
    /\ UNCHANGED <<serverVars, user, closing, inbox, sock, shared, stage, retrying,
                   batch_capable, reads, kernelVars, otherVars>>

\* The reply the daemon waits for has arrived and is no error.
Accepted(op) ==
    /\ expected_op = op
    /\ inbox # <<>>
    /\ Head(inbox).frame.status = "OK"

Answer == Head(inbox).frame

Idle == inbox' = <<>> /\ expected_op' = None

HelloReply ==
    /\ Accepted(Hello)
    /\ Idle
    /\ stage' = "caps"
    /\ view' = Head(inbox).disk
    /\ UNCHANGED <<serverVars, socketVars, sock, shared, retrying, batch_capable, reads,
                   kernelVars, asked, foreign, done>>

\* The server of this repository offers everything.
CapsReply ==
    /\ Accepted("CAPS")
    /\ Idle
    /\ stage' = "mount"
    /\ batch_capable' = TRUE
    /\ UNCHANGED <<serverVars, socketVars, sock, shared, retrying, reads, kernelVars, otherVars>>

\* The kernel takes the mount: as a shared one, with batches, or sector by sector.
Attach ==
    /\ stage = "mount"
    /\ Accepted("STAT")
    /\ shared => level >= 2
    /\ Idle
    /\ stage' = "attached"
    /\ mount' = "up"
    /\ batch_capable' = (level >= 1)
    /\ UNCHANGED <<serverVars, socketVars, sock, shared, retrying, reads,
                   level, request, inside, otherVars>>

\* It is too old for a shared mount, or refuses (busy or invalid FAT).
AttachRefused ==
    /\ stage = "mount"
    /\ Accepted("STAT")
    /\ Quit(shared /\ level < 2)
    /\ UNCHANGED <<serverVars, socketVars, batch_capable, kernelVars, otherVars>>

-----------------------------------------------------------------------------
(* The daemon: carrying requests.                                           *)

Polling == stage = "attached" /\ expected_op = None

Heartbeat ==
    /\ Polling
    /\ Ask(Frame("STAT"))
    /\ UNCHANGED <<serverVars, user, closing, inbox, sock, shared, stage, retrying,
                   batch_capable, reads, kernelVars, otherVars>>

UsageReply ==
    /\ stage = "attached"
    /\ Accepted("STAT")
    /\ \/ mount = "up" /\ Idle /\ UNCHANGED <<sock, shared, stage, retrying, reads>>
       \/ mount = "down" /\ Quit(FALSE)
    /\ UNCHANGED <<serverVars, socketVars, batch_capable, kernelVars, otherVars>>

Wanted(op) == Polling /\ mount = "up" /\ request # None /\ request.op = op

\* A read the buffer can answer takes no exchange.
TakeBuffered ==
    /\ Wanted("READ")
    /\ InRun(reads, request.lba)
    /\ done' = Run(request.lba, <<At(reads, request.lba)>>)
    /\ request' = None
    /\ UNCHANGED <<serverVars, socketVars, daemonVars, level, mount, inside,
                   asked, foreign, view>>

TakeRead ==
    /\ Wanted("READ")
    /\ ~InRun(reads, request.lba)
    /\ Ask([Frame("READ_BATCH") EXCEPT !.lba = request.lba, !.count = ReadAheadCount(request.lba)])
    /\ UNCHANGED <<serverVars, user, closing, inbox, sock, shared, stage, retrying,
                   batch_capable, reads, kernelVars, otherVars>>

\* Faulty variant: the last record of a batch is left out.
RequestFrameDropsLast ==
    [Frame(request.op) EXCEPT !.lba = request.lba, !.data = request.data,
                              !.writes = IF Len(request.writes) > 1 THEN <<Head(request.writes)>>
                                         ELSE request.writes]

\* The frame of a write or lock request of the kernel.
RequestFrame ==
    [Frame(request.op) EXCEPT !.lba = request.lba, !.data = request.data,
                              !.writes = request.writes]

Clearing == {"WRITE_BATCH", "WRITE", "LOCK", "UNLOCK", "ABORT"}

\* Faulty variant: only a batch of writes empties the buffer.
TakeOtherKeepsReads ==
    /\ \E op \in Clearing : Wanted(op)
    /\ reads' = IF request.op = "WRITE_BATCH" THEN Cleared ELSE reads
    /\ Ask(RequestFrame)
    /\ UNCHANGED <<serverVars, user, closing, inbox, sock, shared, stage, retrying,
                   batch_capable, kernelVars, otherVars>>

\* Anything but a read empties the buffer and goes to the server.
TakeOther ==
    /\ \E op \in Clearing : Wanted(op)
    /\ reads' = Cleared
    /\ Ask(RequestFrame)
    /\ UNCHANGED <<serverVars, user, closing, inbox, sock, shared, stage, retrying,
                   batch_capable, kernelVars, otherVars>>

\* The whole run goes to a kernel that takes it; an older one gets its sector,
\* and the daemon keeps the run.
ReadReply ==
    /\ Accepted("READ_BATCH")
    /\ mount = "up"
    /\ Len(Answer.sectors) = ReadAheadCount(request.lba)
    /\ LET run == Run(request.lba, Answer.sectors)
       IN  \/ /\ level >= 3
              /\ done' = run
              /\ reads' = Cleared
           \/ /\ level < 3
              /\ done' = Run(request.lba, <<At(run, request.lba)>>)
              /\ reads' = run
    /\ Idle
    /\ request' = None
    /\ UNCHANGED <<serverVars, socketVars, sock, shared, stage, retrying, batch_capable,
                   level, mount, inside, asked, foreign, view>>

\* The view of the kernel after a request succeeded.
Expected ==
    IF request.op = "LOCK" THEN Head(inbox).disk
    ELSE IF request.op = "WRITE_BATCH" THEN Server!Written(view, request.writes)
    ELSE IF request.op = "WRITE" THEN [view EXCEPT ![request.lba] = request.data]
    ELSE view

\* Completion of a write or of a lock operation.
OtherReply ==
    /\ \E op \in Clearing : Accepted(op)
    /\ mount = "up"
    /\ Idle
    /\ view' = Expected
    /\ done' = Cleared
    /\ inside' = IF expected_op = "LOCK" THEN TRUE
                 ELSE IF expected_op \in {"UNLOCK", "ABORT"} THEN FALSE ELSE inside
    /\ request' = None
    /\ UNCHANGED <<serverVars, socketVars, sock, shared, stage, retrying, batch_capable, reads,
                   level, mount, asked, foreign>>

\* The kernel does not take the completion, or has nothing to say any more.
BridgeFails ==
    /\ stage = "attached"
    /\ mount = "down"
    /\ \/ expected_op = None
       \/ \E op \in Server!BlockOps \cup Server!LockOps : Accepted(op)
    /\ Quit(FALSE)
    /\ UNCHANGED <<serverVars, socketVars, batch_capable, kernelVars, otherVars>>

LockBusy ==
    /\ expected_op = "LOCK"
    /\ inbox # <<>>
    /\ Answer.status = "BUSY"
    /\ inbox' = <<>>
    /\ retrying' = TRUE
    /\ UNCHANGED <<serverVars, socketVars, sock, shared, stage, expected_op, batch_capable, reads,
                   kernelVars, otherVars>>

Resend ==
    /\ retrying
    /\ Ask(Frame("LOCK"))
    /\ retrying' = FALSE
    /\ UNCHANGED <<serverVars, user, closing, inbox, sock, shared, stage, batch_capable, reads,
                   kernelVars, otherVars>>

\* Any other refusal ends the connection.
Refused ==
    /\ expected_op # None
    /\ inbox # <<>>
    /\ Answer.status # "OK"
    /\ ~(expected_op = "LOCK" /\ Answer.status = "BUSY")
    /\ Quit(shared /\ expected_op = Hello /\ Answer.status \in {"INVALID", "BUSY"})
    /\ UNCHANGED <<serverVars, socketVars, batch_capable, kernelVars, otherVars>>

\* Faulty variant: a busy lock starts the clock anew.
HangUpUnlessBusy ==
    /\ \/ expected_op # None /\ ~retrying
       \/ sock # None /\ stage # "detach" /\ ~Connected
    /\ Quit(FALSE)
    /\ UNCHANGED <<serverVars, socketVars, batch_capable, kernelVars, otherVars>>

\* The exchange, retries of LOCK included, has taken EXCHANGE_TIMEOUT, or the
\* server has reset the connection.
HangUp ==
    /\ \/ expected_op # None
       \/ sock # None /\ stage # "detach" /\ ~Connected
    /\ Quit(FALSE)
    /\ UNCHANGED <<serverVars, socketVars, batch_capable, kernelVars, otherVars>>

\* netdisk_call(4), which fails the request the kernel still waits for; then the
\* socket is reset and the daemon exits.
Detach ==
    /\ stage = "detach"
    /\ stage' = "exit"
    /\ sock' = None
    /\ inbox' = <<>>
    /\ mount' = "none"
    /\ request' = None
    /\ inside' = FALSE
    /\ UNCHANGED <<serverVars, socketVars, shared, expected_op, retrying, batch_capable, reads,
                   level, otherVars>>

-----------------------------------------------------------------------------
(* The kernel and the other machine.                                        *)

Batches == {<<[lba |-> s, data |-> d]>> : s \in LBA \ {0}, d \in Data}
           \cup {<<[lba |-> s, data |-> d], [lba |-> s + 1, data |-> d]>> :
                    s \in {t \in LBA \ {0} : t + 1 \in LBA /\ MaxWrites > 1}, d \in Data}

NoArg(op)  == [op |-> op, lba |-> 0, data |-> CHOOSE d \in Data : TRUE, writes |-> <<>>]

KernelWrite(s, d) == [NoArg("WRITE") EXCEPT !.lba = s, !.data = d]

\* Sector operations; in a shared mount they happen under the lock.
KernelOps ==
    {[NoArg("READ") EXCEPT !.lba = s] : s \in LBA \ {0}}
    \cup IF batch_capable
         THEN {[NoArg("WRITE_BATCH") EXCEPT !.writes = w] : w \in Batches}
         ELSE {KernelWrite(s, d) : s \in LBA \ {0}, d \in Data}

KernelAsks ==
    /\ mount = "up"
    /\ request = None
    /\ asked < MaxAsked
    /\ asked' = asked + 1
    /\ request' \in IF shared /\ ~inside THEN {NoArg("LOCK")}
                    ELSE KernelOps \cup IF shared THEN {NoArg("UNLOCK"), NoArg("ABORT")} ELSE {}
    /\ done' = Cleared
    /\ UNCHANGED <<serverVars, socketVars, daemonVars, level, mount, inside, foreign, view>>

\* Unmounted from the other side.
KernelStops ==
    /\ mount = "up"
    /\ mount' = "down"
    /\ UNCHANGED <<serverVars, socketVars, daemonVars, level, request, inside, otherVars>>

OtherWrite(s, d) == [Frame("WRITE") EXCEPT !.lba = s, !.data = d]

OtherFrames ==
    {Frame(op) : op \in {"LOCK", "UNLOCK"}}
    \cup IF foreign < MaxForeign
         THEN {OtherWrite(s, d) : s \in LBA \ {0}, d \in Data}
         ELSE {}

OtherSends(p, r) ==
    /\ Server!Status(p, r) = "OK"
    /\ Server!Handle(p, r)
    /\ foreign' = IF r.op = "WRITE" THEN foreign + 1 ELSE foreign
    /\ UNCHANGED <<inbound, closing, daemonVars, kernelVars, asked, done, view>>

OtherMachine(p) ==
    \/ /\ \A q \in Peers : user[q] # "other"
       /\ user[p] = "none"
       /\ user' = [user EXCEPT ![p] = "other"]
       /\ \E op \in {"HELLO", "HELLO_SHARED"} : OtherSends(p, Frame(op))
    \/ /\ user[p] = "other"
       /\ UNCHANGED user
       /\ \E r \in OtherFrames : OtherSends(p, r)
    \/ user[p] = "other" /\ Reset(p)

-----------------------------------------------------------------------------
Init ==
    /\ Server!Init
    /\ user = [p \in Peers |-> "none"]
    /\ inbound = [p \in Peers |-> <<>>]
    /\ closing = [p \in Peers |-> FALSE]
    /\ inbox = <<>>
    /\ sock = None
    /\ shared = TRUE
    /\ stage = "start"
    /\ expected_op = None
    /\ retrying = FALSE
    /\ batch_capable = FALSE
    /\ reads = Cleared
    /\ level \in Levels
    /\ mount = "none"
    /\ request = None
    /\ inside = FALSE
    /\ asked = 0
    /\ foreign = 0
    /\ done = Cleared
    /\ view = image

ServerStep(p) == Serve(p) \/ CloseAfter(p) \/ NoticeLoss(p)

\* A request of the kernel is picked up.
Take == TakeBuffered \/ TakeRead \/ TakeOther

\* The rest of the daemon's loop.
Loop ==
    \/ Introduce \/ HelloReply \/ CapsReply \/ Attach \/ AttachRefused
    \/ UsageReply \/ ReadReply \/ OtherReply
    \/ LockBusy \/ Resend \/ Refused \/ BridgeFails \/ Detach

Next ==
    \/ \E p \in Peers : ServerStep(p) \/ LeaseExpires(p) \/ Dial(p) \/ OtherMachine(p)
    \/ Loop \/ Take \/ HangUp \/ Heartbeat \/ DialFails
    \/ KernelAsks \/ KernelStops

Spec == Init /\ [][Next]_vars

\* Scheduling: server and daemon loop for ever, an exchange ends at its deadline,
\* and a STAT every two seconds leaves room for the kernel's requests.
Fairness ==
    /\ \A p \in Peers : WF_vars(ServerStep(p))
    /\ WF_vars(Loop) /\ WF_vars(HangUp) /\ SF_vars(Take)

FairSpec == Spec /\ Fairness

-----------------------------------------------------------------------------
(* Properties.                                                              *)

\* Types of the connection, the daemon and the bridge.
TypeOK ==
    /\ Server!TypeOK
    /\ user \in [Peers -> {"none", "daemon", "other"}]
    /\ \A p \in Peers : inbound[p] \in Seq(Server!Request) /\ Len(inbound[p]) <= 1
    /\ closing \in [Peers -> BOOLEAN]
    /\ Len(inbox) <= 1
    /\ sock \in Peers \cup {None}
    /\ shared \in BOOLEAN
    /\ stage \in {"start", "greet", "caps", "mount", "attached", "detach", "exit"}
    /\ expected_op \in Server!Ops \cup {None}
    /\ retrying \in BOOLEAN
    /\ batch_capable \in BOOLEAN
    /\ Len(reads.sectors) <= MaxWrites
    /\ reads.lba + Len(reads.sectors) <= Sectors
    /\ mount \in {"none", "up", "down"}
    /\ inside \in BOOLEAN

\* What the kernel is given to read, from the server or from the read-ahead
\* buffer, is the disk as it was when the lock was granted (when the daemon
\* attached, in the exclusive protocol) with the kernel's own writes.  A run that
\* outlived its operation would show what another machine has replaced since.
ReadsCurrent ==
    \A i \in DOMAIN done.sectors : done.sectors[i] = view[done.lba + i - 1]

\* What is reported as stored is stored: when the server confirms an UNLOCK, or a
\* write of the exclusive protocol, its disk is the kernel's view with every
\* write of the operation and nothing else.
AckedIsStored ==
    (expected_op = "UNLOCK" \/ (~shared /\ expected_op \in Server!WriteOps))
        => \A i \in DOMAIN inbox : inbox[i].frame.status = "OK" => inbox[i].disk = Expected

\* A request of the kernel is completed, or failed by an unmount, though the
\* server may be lost or the lock in foreign hands for ever.
RequestAnswered == request # None ~> request = None

-----------------------------------------------------------------------------
\* Values nothing will read again do not tell states apart: undo records of clean
\* sectors, the revision, and all but the bridge once the daemon has left its loop.
View ==
    IF stage \in {"detach", "exit"} THEN <<stage, mount, request>>
    ELSE << image, [s \in dirty |-> undo[s]], modified, committed_free, peers, legacy, locked,
            socketVars, daemonVars, kernelVars, asked, foreign, done,
            IF stage = "start" THEN <<>> ELSE view >>
=============================================================================
