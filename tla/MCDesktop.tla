----------------------------- MODULE MCDesktop ------------------------------
(* Programs and windows of the desktop, the heap they allocate from, the    *)
(* stream of its screen, and what serves it, one at a time: `part` names    *)
(* the one a behaviour is of, and the variables of the others are 0.        *)
EXTENDS Integers, Sequences

VARIABLES part,   \* the component this behaviour is of
          \* Commander
          fs, pane, active, mode, action, op, filesOps,
          \* TelegramClient
          chats, cur, outbox, chatPhoto, bot, setup, named, offset, request, stale, chatJob, inbox,
          shown, arrived, unsent, changes,
          \* TelegramPictures
          total, picsPhoto, slots, wanted, mp4, menu, reply,
          \* IrcLines
          partial, sent, lines,
          \* IrcChannel
          win, driver, syn, toServer, toClient, srv, ghosts, members, ircOps, events,
          \* TntXfer
          xferJob, at, s, conn, wire, client,
          \* StreamFrames
          screen, buf, framesCache, tx, enc, framesSent, frames, framesWire,
          \* R2Heap
          hdr, list, regions, used, live, room, held

HeapArena == [base |-> 3, size |-> 19]

Files == INSTANCE Commander WITH Names <- {"x", "y"}, MaxDepth <- 2, MaxOps <- 2, RemoveFails <- FALSE,
    ops <- filesOps
\* Connections that are kept, and a token that is changed.
Chat == INSTANCE TelegramClient WITH People <- {"p1", "p2"}, MaxChats <- 2, MaxOut <- 2, Bots <- {1},
    MaxUpdates <- 2, MaxTyped <- 2, Kept <- TRUE, MaxChanges <- 1, photo <- chatPhoto, job <- chatJob
\* A connection for every request, and one person more than the list has rows.
Once == INSTANCE TelegramClient WITH People <- {"p1", "p2", "p3"}, MaxChats <- 2, MaxOut <- 2, Bots <- {1},
    MaxUpdates <- 3, MaxTyped <- 2, Kept <- FALSE, MaxChanges <- 0, photo <- chatPhoto, job <- chatJob
Pics == INSTANCE TelegramPictures WITH MaxMsgs <- 3, MaxPhotos <- 2, MaxWanted <- 2, MaxAnimated <- 1, Total <- 5,
    StillFails <- FALSE, photo <- picsPhoto
Lines == INSTANCE IrcLines WITH Letters <- {"a", "b"}, MaxLine <- 3, MaxSegment <- 3, MaxSent <- 6
Irc == INSTANCE IrcChannel WITH Others <- {2, 4, 12}, Long <- {}, Me <- 4, MaxUnder <- 2, MaxUsers <- 6, Every <- 2,
    MaxEvents <- 3, ops <- ircOps
\* A file of two blocks, for a client with room.
Xfer == INSTANCE TntXfer WITH Seg <- 2, CwndMax <- 2, CacheCap <- 2, HeadLen <- 1, Lengths <- {3}, Windows <- {4},
    Base <- 3, FinTries <- 1, job <- xferJob
\* A file of one block, for a client that may have none.
Probe == INSTANCE TntXfer WITH Seg <- 2, CwndMax <- 2, CacheCap <- 2, HeadLen <- 1, Lengths <- {2}, Windows <- {0, 4},
    Base <- 3, FinTries <- 1, job <- xferJob
\* One JPEG fits the first buffer, one makes it grow and one is too large.
Frames == INSTANCE StreamFrames WITH Pictures <- {1, 3, 5}, InitialCap <- 2, MaxCap <- 4, Mss <- 2, TxWindow <- 2,
    Batch <- 2, MaxSnap <- 2, MaxSent <- 4, cache <- framesCache,
    sent <- framesSent, wire <- framesWire
\* An arena that is not aligned, two regions right behind it, and a size that wraps.
Heap == INSTANCE R2Heap WITH Unit <- 2, SizeMod <- 64, First <- HeapArena, KernelEnd <- 43, KernelRoom <- 21,
    GrowBytes <- 11, MaxRegions <- 3, Sizes <- {0, 3, 9, 63}, Aligns <- {4}, MaxHeld <- 3

Init ==
    /\ part \in {"files", "chat", "once", "pictures", "lines", "irc", "get", "probe", "frames", "heap"}
    /\ IF part = "files" THEN Files!Init ELSE fs = 0 /\ pane = 0 /\ active = 0 /\ mode = 0 /\ action = 0 /\ op = 0
       /\ filesOps = 0
    /\ IF part = "chat" THEN Chat!Init ELSE IF part = "once" THEN Once!Init ELSE chats = 0 /\ cur = 0
       /\ outbox = 0 /\ chatPhoto = 0 /\ bot = 0 /\ setup = 0 /\ named = 0 /\ offset = 0 /\ request = 0 /\ stale = 0
       /\ chatJob = 0 /\ inbox = 0 /\ shown = 0 /\ arrived = 0 /\ unsent = 0 /\ changes = 0
    /\ IF part = "pictures" THEN Pics!Init ELSE total = 0 /\ picsPhoto = 0 /\ slots = 0 /\ wanted = 0 /\ mp4 = 0
       /\ menu = 0 /\ reply = 0
    /\ IF part = "lines" THEN Lines!Init ELSE partial = 0 /\ sent = 0 /\ lines = 0
    /\ IF part = "irc" THEN Irc!Init ELSE win = 0 /\ driver = 0 /\ syn = 0 /\ toServer = 0 /\ toClient = 0 /\ srv = 0
       /\ ghosts = 0 /\ members = 0 /\ ircOps = 0 /\ events = 0
    /\ IF part = "get" THEN Xfer!Init /\ (client.says = "GET" \/ xferJob.keep) /\ xferJob.size \in
       {3, 4} ELSE IF part = "probe" THEN Probe!Init /\ client.says # "GET" /\ ~xferJob.keep /\
       xferJob.size \in {-1, 1, 2} ELSE xferJob = 0 /\ at = 0 /\ s = 0 /\ conn = 0 /\ wire = 0 /\ client = 0
    /\ IF part = "frames" THEN Frames!Init ELSE screen = 0 /\ buf = 0 /\ framesCache = 0 /\ tx = 0 /\ enc = 0
       /\ framesSent = 0 /\ frames = 0 /\ framesWire = 0
    /\ IF part = "heap" THEN Heap!Init ELSE hdr = 0 /\ list = 0 /\ regions = 0 /\ used = 0 /\ live = 0 /\ room = 0
       /\ held = 0

files_vars == <<fs, pane, active, mode, action, op, filesOps>>
chat_vars == <<chats, cur, outbox, chatPhoto, bot, setup, named, offset, request, stale, chatJob,
               inbox, shown, arrived, unsent, changes>>
pics_vars == <<total, picsPhoto, slots, wanted, mp4, menu, reply>>
lines_vars == <<partial, sent, lines>>
irc_vars == <<win, driver, syn, toServer, toClient, srv, ghosts, members, ircOps, events>>
xfer_vars == <<xferJob, at, s, conn, wire, client>>
frames_vars == <<screen, buf, framesCache, tx, enc, framesSent, frames, framesWire>>
heap_vars == <<hdr, list, regions, used, live, room, held>>

\* The other components stand still.
Rest ==
    /\ part' = part
    /\ IF part = "files" THEN TRUE ELSE UNCHANGED files_vars
    /\ IF part \in {"chat", "once"} THEN TRUE ELSE UNCHANGED chat_vars
    /\ IF part = "pictures" THEN TRUE ELSE UNCHANGED pics_vars
    /\ IF part = "lines" THEN TRUE ELSE UNCHANGED lines_vars
    /\ IF part = "irc" THEN TRUE ELSE UNCHANGED irc_vars
    /\ IF part \in {"get", "probe"} THEN TRUE ELSE UNCHANGED xfer_vars
    /\ IF part = "frames" THEN TRUE ELSE UNCHANGED frames_vars
    /\ IF part = "heap" THEN TRUE ELSE UNCHANGED heap_vars

Next ==
    \/ part = "files" /\ Files!Next /\ Rest
    \/ part = "chat" /\ Chat!Next /\ Rest
    \/ part = "once" /\ Once!Next /\ Rest
    \/ part = "pictures" /\ Pics!Next /\ Rest
    \/ part = "lines" /\ Lines!Next /\ Rest
    \/ part = "irc" /\ Irc!Next /\ Rest
    \/ part = "get" /\ Xfer!Next /\ Rest
    \/ part = "probe" /\ Probe!Next /\ Rest
    \/ part = "frames" /\ Frames!Next /\ Rest
    \/ part = "heap" /\ Heap!Next /\ Rest

vars == <<part, files_vars, chat_vars, pics_vars, lines_vars, irc_vars,
         xfer_vars, frames_vars, heap_vars>>

Spec == Init /\ [][Next]_vars

-----------------------------------------------------------------------------
\* mount_window.cpp: a file disappears or shrinks only when a question about it is
\* answered, when it is renamed, or when a move has made a whole copy of it; a
\* copy that finishes is the file that was copied.
NothingLost == [][part = "files" => Files!PaneSomewhere /\ Files!NothingLost /\ Files!CopyExact]_vars

\* go/telegram: what is typed goes to the chat it was typed in, waits, or is shown as not
\* sent, and no update is shown twice.  It arrives once, unless the kept connection it went
\* out on ends before the answer or the token is changed meanwhile; a message for the last row
\* of a full list may go to whom that row was given.
RightPerson == /\ part = "chat" => /\ Chat!RightPerson /\ Chat!NothingForgotten
                                   /\ Chat!ArrivesOnce /\ Chat!ShownOnce
               /\ part = "once" => Once!RightPerson /\ Once!ArrivesOnce /\ Once!OffsetIsRead

\* go/telegram: under a message is its own picture, however often slots and rows are
\* used again, and no picture is kept that no message can show.
PictureIsOwn ==
    part = "pictures" => Pics!PictureIsOwn /\ Pics!NoneLost /\ Pics!FewAnimated /\ Pics!MenuInRing

\* irc_window.cpp: however the stream is cut into segments, the lines processed are the
\* lines of this connection, in order; the list is who is in the channel, sorted, through
\* joins, parts, kicks, renames and reconnections, and the nick shown is the one the
\* server knows.
ChannelTrue == /\ part = "lines" => Lines!LinesWhole
               /\ part = "irc" => /\ Irc!ListedAreThere /\ Irc!EveryoneListed
                                  /\ Irc!ListSorted /\ Irc!NickTrue

\* tnt/xfer.c: whatever the network does, the client holds the beginning of the stream; a
\* transfer reported as done has brought all of it, with the right length and CRC; one
\* stopped over the session leaves it where the client is; only a client that has gone
\* away resets it; and while it is not through, something is out for the timer.
XferTrue == /\ part = "get" => /\ Xfer!StreamExact /\ Xfer!ReportTrue
                               /\ Xfer!OnlyResetResets /\ Xfer!NeverStuck
            /\ part = "probe" => /\ Probe!StreamExact /\ Probe!ReportTrue
                                 /\ Probe!OnlyResetResets /\ Probe!NeverStuck

\* streamd: the stream is whole frames, each of them its length and the JPEG captured for
\* it; what is sent again is what was sent first, and the buffer in the encoder's hands is
\* nobody else's.
StreamWhole == part = "frames" => Frames!FramesWhole /\ Frames!SameBytes /\ Frames!EncoderOwnsSlot

\* heap.cpp: the tags agree, the free list is the free blocks and no two of them are
\* neighbours, and every block in use is one allocation, inside it.
HeapSound == part = "heap" => Heap!HeapSound

\* streamd: the browser's window is never overrun.  heap.cpp: a region asked of
\* the kernel serves the allocation it was asked for.
StepsKeep ==
    [][/\ part = "frames" => Frames!WindowKept
       /\ part = "heap" => Heap!GrowthServes]_vars
=============================================================================
