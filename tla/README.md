# A TLA+ development for the r2 applications

This directory keeps a formal model beside the applications of the rou2exOS kernel.
The heart of it is the RNTP network disk (`c/rntp`), the part of the repository in
which several machines change one piece of state: a RAM disk with a FAT filesystem,
exported by one machine and mounted by others. Around it are the components that
meet a network that loses and repeats, other processes, or a user who changes his
mind: the TCP stacks, the daemons, the package installer, the windows of the desktop
and the DOS machine. The modules follow the source; the header of each says which
files it stands for, and `PROJECT.json` gives the lines behind every definition, the
hazards at their lines and the reason for what is left out.

## Inventory

| Part | State | Operations | What makes it correct |
|---|---|---|---|
| RNTP sessions (`c/rntp/sessions.c`, `protocol.c`) | image, undo image, dirty bitmap, revision, free space, role of each slot, exclusive slot, lock holder | HELLO, HELLO_SHARED, CAPS, PING, STAT, LOCK, UNLOCK, ABORT, reads, writes, release | a transaction is published whole or leaves no trace; the two protocols exclude each other; revision and free space describe the committed disk |
| RNTP serve loop (`c/rntp/main.c`) | sockets, streams, close_after, activity | accept, handle, transmit, close after refusal, lease, release | a slot never carries a session over to its next user; every lock is released |
| Linux client (`c/rntp/linux/client.c`, `main.c`) | connection, sector cache in two pools, write buffer, revision, lock flag | connect, begin, read, write, free, finish, heartbeat, close | an operation reads one snapshot; operations of all the machines are serial; reported success is a commit |
| R2 client (`c/rntp/main.c: connect_disk`, `read_ahead.c`) | protocol, handshake stage, outstanding request, read-ahead run | connect, mount, heartbeat, take and complete kernel requests, fall back, unmount | reads are current; what is acknowledged is stored; every kernel request is answered |
| FAT driver (`c/rntp/linux/fat.c`) | the volume | create, remove, rename, read, write, truncate, list | chains stay disjoint and reachable; a failed call fails for a reason that holds |
| libcr2 TCP (`c/libcr2/net.c`) | socket pool, sequence numbers, receive buffers | on_tcp_packet, tcp_connect, tcp_read, tcp_write, tcp_close, reap | the stream arrives in order, once; a full pool costs no live connection |
| r2net TCP (`go/r2net`) | connection state, pending segment, reorder queue | Dial, Write, Read, Close, segments | likewise; a Write that returned has arrived |
| browser network (`web/net_r2.cpp`, `netmux.cpp`) | connections, ports, resolver and its cache, rings of frames | connect, send, recv, close, resolve, claim, sort | whole replies; the address of the name asked for; ports given back; each stack gets its own frames |
| eth (`c/eth/main.c`) | DHCP state, address, gateway, its MAC, what is published | discover, request, renew, expire, fall back, refuse | others are told the address in use; a lease is used only while it runs |
| mdnsd (`c/mdnsd`) | records with their time to live, own names | announce, answer, browse, refresh, say goodbye | the list is what is served, within the life of a record |
| streamd (`c/streamd/main.c`) | two frame buffers, transmit queue, snapshot | capture, encode, queue, acknowledge, drop | whole frames; a buffer has one owner |
| tnt transfers (`c/tnt/xfer.c`) | stream position, windows, CRC, timers | start, pump, acknowledge, go back, finish, reset | exact stream; truthful report; never stuck |
| theM (`c/them`) | registers, PIC, keyboard, DOS arena and handles, screen, VGA planes | instructions, interrupts, INT 21h, mode changes, drawing | the instructions compute what an 8086 computes; handlers do not nest; blocks do not overlap; the screen is current |
| jug (`cpp/jug`) | program, staged file, backup, registry; window model and queue | install, uninstall, roll back, check, refresh | a working program survives any failure; jobs stand |
| desktop windows (`cpp/memento-hello/windows`) | panes and jobs of the commander; lines, channel and nick of IRC; shared block of hosted programs | see the modules | nothing is lost unasked; the list is who is there; a picture is the program's own |
| libc++r2 heap (`heap.cpp`) | blocks with two tags, free list, regions | allocate, free, reallocate, grow | tags and list agree; no two free neighbours; a block is one allocation |
| Telegram client (`go/telegram`) | chats, outbox, offset, worker's job, pictures | type, send, poll, change the token, show | to the right person; once; a picture under its own message |

How the RNTP parts interact. A client opens a TCP connection to the server and sends
one request at a time. The serve loop reads a whole frame, calls
`rntp_sessions_handle` and sends the reply; nothing else touches the sessions but
`rntp_sessions_release`, which runs when a connection ends for whatever reason. The
Linux client runs under FUSE, single-threaded, with a second thread for heartbeats; one
mutex covers both. The R2 client is a daemon between the server and the kernel, which
queues requests of its filesystem. Everything else on the machine reaches the network
through eth, which publishes the address, and through one of three TCP stacks: libcr2
(C programs), r2net (Go), net_r2 (the desktop, over netmux).

What is hard: the two ends of a connection learn of its loss at different times; a
live client may be thrown out by its lease; caches outlive transactions; a slot, port
or row is reused while something still names its former user; segments come late, twice or
never, and sequence numbers wrap; an install may fail between any two of its steps;
two processes share a block of memory without a lock.

## Modules

The RNTP disk, composed: `RntpMount` and `RntpDevice` each instantiate `RntpSessions` as
`Server`, and `RntpSessions` implements `RntpDisk`.

| Module | Stands for |
|---|---|
| `RntpDisk` | the promise: a disk edited in transactions, one at a time, or written through by an only member |
| `RntpSessions` | `sessions.c` and `protocol.c`, one action per kind of request |
| `RntpMount` | Linux clients, their connections and the serve loop |
| `RntpDevice` | the R2 client, the kernel's bridge and another machine |
| `RntpCache` | the slots of `cache_put` and `cache_find` with their stamps, for which `RntpMount` allows any eviction |
| `FatDriver` | `linux/fat.c` on a volume of a few clusters, FAT12 and FAT16, against the tree the user made |
| `Cr2Stream`, `Cr2Sockets` | one direction of a connection byte by byte; the socket pool of libcr2 |
| `R2NetTcp` | the client TCP of go/r2net |
| `WebStream`, `WebDns`, `WebPool`, `NetMux` | the browser's connection, resolver and pool; the sharing of the NIC |
| `EthDhcp`, `MdnsBrowse`, `StreamFrames`, `TntXfer` | the daemons |
| `TheAlu`, `TheStrings`, `TheIrq`, `TheArena`, `TheFiles`, `TheScreen`, `TheVga` | theM |
| `JugStore`, `JugWindow` | the installer, and its window |
| `Commander`, `IrcLines`, `IrcChannel`, `HostedWindow` | windows of memento-hello |
| `TelegramClient`, `TelegramPictures` | go/telegram |
| `R2Heap` | the arena allocator of libc++r2 |
| `MCRntpSessions`, `MCRntpMount`, `MCRntpDevice`, `MCNetwork`, `MCPrograms`, `MCDesktop`, `MCLive` | instances for TLC |
| `RntpSessionsProofs`, `RntpMountProofs`, `RntpDeviceProofs`, `Cr2StreamProofs`, `NetworkProofs`, `ProgramsProofs`, and the ends of `RntpCache` and `EthDhcp` | the theorems |

Definitions named "Faulty variant" in a comment are what a plausible mistake in the code
would look like. They are part of no specification; substituted for the definition that
follows, each makes TLC report the property it belongs to.

### RntpSessions

The variables are the fields of `RntpSessions` with the same names; `reply` is the last
frame written. `dirty` is the bitmap as a set, `legacy` and `locked` are slots or `None` for
-1, `peers` is 0, 1, 2 as "none", "legacy", "shared". A request is a decoded frame reduced to
what the code tests: whether id, status and response bit are in order (`framed`), whether
length is right for the operation (`fits`), generation, sector number, and the records.
`Status` follows the order of the tests in `rntp_sessions_handle` and `rntp_handle`; `Refuse`
is every path to an error, the other actions are one accepted operation each. `Finish` is
`finish()`, `Release` is `rntp_sessions_release`. A FAT sector stands for one cluster entry, so
that free space is a count over some sectors that depends on the boot sector.

The revision has `RevisionMod` values (2^64 in the code). A commit skips 0; the exclusive
protocol's increment does not, and neither does the model.

### RntpMount

Each machine mounts, works and dies as often as the bounds allow. `pc` says which request
it waits for, `cache`, `writes`, `rev`, `held` and `fd` are the fields of `RntpClient`, and a call
that must flush first is remembered in `todo`. A connection is a slot and the machine it
came from (`peerOf`); frames on it are in `inbound` and `inbox`. The two ends fail
independently: a client fails at any wait (timeout, reset, refusal), the server resets a slot
whose client is gone (`NoticeLoss`) or is silent for `LEASE_TIMEOUT` (`LeaseExpires`), and a
request that was under way when its client gave up is still served. `OldMachines` are
machines whose mount may speak the exclusive protocol, reduced to what others notice of
it. `base`, `view` and `outcome` are history: the disk when the lock was granted, the disk as
the operation should see it, and what became of the transaction.

### RntpDevice

`stage` folds `generation`, `caps_checked` and `attached` into how far the handshake has come;
`expected_op` is the outstanding request, and `None` when `waiting` is 0. `Quit` is every `break`
out of the loop with what follows it, the fallback of `main()` included. The kernel's side is
external: `level` is how much of the bridge it knows, `request` the request it waits for, and in
a shared mount it brackets sector requests with LOCK and UNLOCK or ABORT. The other
machine's frames reach the server at once.

### The other modules

Each keeps the names of the code's fields. Networks are sets of segments of which any may be
received, repeated, or lost, with a named bound on how many are under way. Kernels, servers
and peers are external and reduced to what the code can notice of them. Clocks are counted
in the ticks the code counts. What the code overwrites and a property needs (the stream as it
should be, the builds that were checked) is kept in a variable that only the properties read.

## What TLC checks

| Run | Module | Instance | What it shows |
|---|---|---|---|
| `sessions` | `MCRntpSessions` | three slots, three sectors, two contents, records of two, a revision of 3 values | type correctness, the two protocols apart, a new revision for a new content, refinement of `RntpDisk` |
| `mount` | `MCRntpMount` | two machines that mount three times with either protocol, two slots, two sectors, one cache slot for each pool, two transactions of two calls | coherent caches, snapshots, serial and truthfully reported commits |
| `mount_live` | `MCRntpMount` | as above, shared protocol, fairness | locks are released, `begin()` returns |
| `device` | `MCRntpDevice` | kernels of four levels, four sectors of which two are metadata, three requests, one foreign transaction | reads are current, what is acknowledged is stored |
| `device_live` | `MCRntpDevice` | levels 0 and 3, fairness | every request of the kernel is answered |
| `network` | `MCNetwork` | libcr2, net_r2, netmux, eth, mdnsd, the sector cache, jug's installs and its window | see the comments at the properties |
| `programs` | `MCPrograms` | r2net; theM: instructions, strings, interrupts, DOS memory and files, screens of eight machines, the VGA's write logic; hosted programs and their windows; the FAT driver | likewise |
| `desktop` | `MCDesktop` | commander, Telegram, IRC, tnt, streamd, the heap | likewise |
| `live` | `MCLive` | six components, fairness | frames are delivered, names resolved, messages sent, leases got, nicks registered |
| `jug_two` | `JugStore` | two jugs, no other faults | violated: see Disagreements |
| `xfer_window` | `TntXfer` | a client with little room | violated |
| `sockets_half_close` | `Cr2Sockets` | one peer that repeats its FIN | violated |

`MCNetwork`, `MCPrograms`, `MCDesktop` and `MCLive` put components side by side that do not
interact. `part`, chosen by Init and never changed, names the component a behaviour is of;
the variables of the others are 0 and stand still. A property says for each part what that
component promises, so one run asks one question of each, and its state space is the sum, not
the product, of theirs.

Bounds. Each is named in its module or chosen in the MC module, where a comment says what
it makes happen: sequence numbers wrap within the first frame, the pool of sockets runs full,
rings of two fill and wrap, buffers are smaller than what is sent, a JPEG makes its buffer
grow and another is too large, the arena of the heap is not aligned, the table of DOS blocks
runs full, a FAT entry lies in two sectors, one person more writes than the list of chats has rows.
theM's screen is looked at on eight machines (`AnyMachine`): a window, a VESA frame buffer, VGAs that grant both
graphics modes, either one or none, and a machine without a display; each with the guest modes and geometries that
tell its paths apart, text modes 1 and 3, the CGA's and every planar size among them. Two machines are enough for the RNTP runs
because the server serves one transaction at a time and the third party to any conflict is a
slot that is free, reused or legacy, and three sectors because a boot sector, a FAT sector and
a data sector are treated differently; the theorems below remove these bounds for the
properties that matter most. Symmetry is used where a set of model values is only
compared for equality, and never in a run with a liveness property. A VIEW leaves out
counters and history that is already right. `CHECK_DEADLOCK FALSE` is given where a behaviour
ends because its bounds are used up; `sessions` has no such end and checks deadlock.

### Fairness

`mount_live` and `device_live` assume that the serve loop goes round (WF of `ServerStep`), that
the client's own code runs (WF of `Progress`, `Loop`, `HangUp`), that a client whose wait is
again and again over its timeout gives up (SF of `GiveUp`), and that the daemon, polling in
every turn of its loop, gets a kernel request that is again and again offered (SF of
`Take`). Nothing is assumed of a user, of the kernel, of the other machine or of the
lease of a client that is alive. In `live`, idle loops, workers and servers go round (WF), and
a segment or answer that is sent again and again is received at last (SF): that is what a
retransmission is for, and without it a network could lose everything for ever. The timer of
the resolver, the repaint of a window and the peer's acceptance of a SYN are strongly fair
because they are tried again by code that never gives up. `Joined` promises nothing to an IRC window
whose server closed the connection with a FIN behind a last line (`Stranded`): libcr2 then leaves the socket in
CLOSE_WAIT, `pollNet()` looks for SOCK_CLOSED only (`irc_window.cpp:931`), and no fairness gets it out.

### What the properties do not say

A Linux client whose connection breaks while UNLOCK is under way reports an error although
the commit may have happened; `SerialCommits` says that what is reported as done is done
and that a failure reported before UNLOCK was sent has left no trace. `SnapshotReads`
covers a client that was thrown out by its lease too: what it has read until it notices is
still one snapshot. `ReadsCurrent` is about reads under a lock or in exclusive protocol.

Where the code does something else than it should, a property names the case and says what happens instead of
leaving a whole class of states out:

- `InstructionsRight`: a repeated comparison whose slice ends with the pass that decides it begins anew from there, with
  an element more (`past` of `TheStrings` is where it began); every other one ends as if it had not been cut. IDIV of
  80000000h by -1 is left out: C does not define it, and the host's processor answers with an exception that
  ends the emulator (`op_codes.c:1765`).
- `ScreenRight`: text on a VGA in a graphics mode is hidden (`TextHidden`); a large mode is not shown on a VGA that
  refuses 12h (`ModeRefused`); on a VGA that started in 12h the picture is in its memory and seen through the hardware's
  attribute map (`Recoloured`); a geometry that was set since the last frame, which marks nothing dirty, is
  seen with the next; and a VGA that was put into a graphics mode in which nothing was shown stays in it
  at the end (`TooEarly`). The CGA modes show one colour whatever is in memory (`decode_row()`), and so does the model.
- `RightPerson`: what waits for the last row of a full list may go to whom the row was given (`GivenAway`), and a message
  arrives a second time only when the kept connection it went out on ended before the answer, or the token was changed
  while it was on its way (`changes.again`).
- `Joined`: an IRC window whose connection ended with a FIN behind a last line (`Stranded`, see above).

## What is proved

All theorems hold for every value of the constants that satisfies the named assumptions of
the modules: sizes are positive, the generation is not 0, `None` is not a slot and `Nil` not
a content, the FAT lies inside the export, `DataStart` and `MetadataEnd` are numbers.

**`RntpSessionsProofs`**. `TypeCorrect`, `SessionsSafe`, `RevisionTracks`, `SessionsImplementDisk`,
`RefusalHarmless`, `GeometryKept`. The inductive invariant `IInv` is `TypeOK`, `Exclusion`,
`UndoOwned` (the dirty bitmap and the undo image speak of the lock holder's writes only) and
`FreeIsCommitted` (the cached count of free clusters is that of the committed disk).
`Exclusion` alone is not inductive, because `finish()` restores from the undo image and one
must know that it is the committed disk where it is dirty; nor is the refinement
provable without the free count, which STAT reports. Lemmas follow the code: `LegacyIsClean`,
`CleanIsCommitted`, `FinishCommitted`, `SharedWriteCommitted`, `CheckedIsAccepted`. The refinement maps
an initial state to an initial state of `RntpDisk` and each action to one of its actions or a
stutter.

**`RntpMountProofs`**. `CommitsAreSerial`, `CachesAreCoherent`, `ReadsAreSnapshots`. `TxnInv` has the
types of the composition, the server's `IInv` and, per mount, `OneRequest` (at most one
request or its reply is under way, and which), `Kept` (what a mount remembers of its slot
while it may still be served there), `InsideLock` (between the grant and the reply to
UNLOCK, the disk of the lock holder is `base` with the writes that were flushed), `Fetched`
(a reply under way carries what the server had) and `Told` (what a grant told of revision
and free space); and per slot `Sealed`: a request that outlived its client, a late UNLOCK in
particular, still publishes only what that client had written. `CacheInv` adds that a cached
sector is the disk's content at the client's revision. The last two theorems are under
`[]NoWrap`, the revision does not come round. It is needed and not a convenience: `RntpMount`
takes any `RevisionMod`, and with a small one a client that slept through a whole cycle
would keep a cache that is stale. In the code the cycle is 2^64 commits.

**`RntpDeviceProofs`**. `ReadsAreCurrent`, `AckedWritesAreStored`. `DeviceInv` has the types, the
server's `IInv`, `Stages` (what the handshake has established at each stage, and that the
read-ahead run is empty outside an operation), `Exchange` (one request under way and whose
reply may come), `Asked` (the kernel's request the daemon has taken is the one it is
working on), `Owner` (as long as the daemon holds the lock or is the only member, the
server's disk is what the kernel has been told it is), `Fetched` (a reply under way and the
run kept from it hold what that disk holds). The hard step is the read-ahead: a run
fetched under one lock must not be served under the next, nor survive a write to one of its
sectors.

`Server`, in the composed modules, and `Proved`, in their proofs, are two instances of
`RntpSessions` with the same substitutions; lemmas such as `SameNames` and `SameHandle` carry the
theorems of `RntpSessionsProofs` from the one to the other.

**`RntpCache`** (end of the module). `LookupIsNewest`, `OldestGoes`: with cache pools of any size, a
lookup finds what was put last, and a new sector replaces the one not used for the longest
time in its pool. This justifies that `RntpMount` lets any sector be evicted and none be stale.
The invariant needs `EmptyLast`: the empty slots of a pool are behind the others, or the
first that is empty or the sector's own could be the wrong one of the two.

**`EthDhcp`** (end of the module). `EveryoneIsTold`: any servers, lease, delays, refusals and
restarts. `LeasedIsHeld`: a leased address is used only while its server keeps it, but for the
time the acknowledgment was under way. The argument is `Good`: an acknowledgment under way is
as old as the promise it carries, so what the client counts from its arrival is at most
`Delay` late. The hypothesis `KeptLeases` has two parts the code needs: servers do not take a
lease back (after a NAK the address stays in use, see Disagreements), and a lease is at least
two ticks (half of one tick is none, and RENEWING would begin when it is over).

**`Cr2StreamProofs`**. `StreamArrives`, `NothingForgotten`, `FlightIsInOrder`: one direction of a
connection, for any sizes of frame, segment, burst and buffers, any loss, repetition and
reordering, and sequence numbers that start and wrap anywhere. `StreamInv` ties the numbers on
the wire to positions in the stream: sender, receiver and every segment and acknowledgment
under way stand at a position, of which their number is the remainder. The hypothesis `Sizes` says
that sizes are positive and that the whole stream is shorter than one cycle of sequence
numbers: in the model a segment may be under way for ever, and a copy a whole cycle old could
not be told from a new one. TCP's answer to this is the lifetime of a segment, which
the model does not have.

**`NetworkProofs`** extends `MCNetwork`, whose instances take their sizes from CONSTANTS, so that a theorem
can state the very property the run checks.

- The resolver, `NobodyMisled` and `OneQuery`: any number of loaders, names and cache entries.
  The invariant says that an answer with the transaction's id is about its name, that a finished
  query's answer is its name's address or an error, and that so is every cache entry.
- The pool of the browser's connections, `HandlesAreOwn`, `PortsAreOwn`, `PortsAreReturned`: any numbers of loaders,
  slots, ports and kernel entries (`ConnSizes`). `Sound` is said of the pool as it is and as it is
  in the middle of `connect()`, where a slot may have to be evicted: each open connection has a port that the
  kernel has not kept from an earlier one, and the kernel's entries are these ports and the kept ones.
- The browser's connection, `PagesAreIntact` and `SentIsKept`: requests and replies of any length in segments of any size, lost,
  repeated and reordered, through buffers of any size (`PageSizes`; the window announced fits the ring). Bytes carry
  their number. `PageInv` says that the send buffer is what was accepted and not acknowledged, the ring what was received and not read,
  that a segment on the wire holds accepted bytes and a FIN follows the last of them, that the server
  has a prefix of the request, and `ToldRoom`: the peer knows of all but less than a segment of the room.
- The sockets of libcr2, `LiveSocketsKept` and `PoolIsSound`: any slots, hosts, request and buffer (`PoolSizes`). `SocketInv`
  adds to one owner per tuple that one slot listens for good and that nothing is received before the SYN-ACK.
- netmux, `FramesAreShared`: rings of any size and any bound on a call (`MuxSizes`). `MuxInv`: the frames of a ring are numbered in
  the order they came in, after the one its stack was given last and before those the kernel holds, and a stack that asks the
  kernel has an empty ring.
- mdnsd, in `WhatIsToldIsTrue` and `StepsAreSound`: any services, names and lives of records (`MdnsSizes`). `MdnsInv`: frames on the way announce
  what is served, what is left of a record and the time its service is gone are at most its life, and while no frame is lost,
  what is listed is served or its goodbye is on the way.
- jug's window, `JobsAreKept`: any programs and builds. Its invariant ties the queue to the job and the job to the list.
- jug's installs, `InstallIsSafe`: one jug, any faults, builds of any size (`StoreSizes`). With two jugs it is
  false, which `jug_two` shows.
- `FramesAreIntact`, `LoadersAreServed`, `WhatIsToldIsTrue`, `CacheIsNewest`, `StepsAreSound` and those above state all the
  properties of the run `network`. `PartStays` says that a step of `MCNetwork` is one of the component `part` names, or
  leaves it alone; with it the invariant of each component is one of the whole.

**`ProgramsProofs`** does the same for `MCPrograms`.

- theM's screen, `ScreensAreRight`. `DisplayKnown` says, for what is not marked dirty, which of the host's modes, palette
  and memory are those of the guest's picture; it is needed because a change of mode makes some of them stale
  without marking the others, and it follows the attribute map, which `choose_backend()` leaves as the hardware
  made it and `host_vga_enter()` makes the identity. `ScreenSizes` says only that the kinds of display are those gfx.c
  knows: the modes granted, the modes and geometries the guest sets and the values are any.
- Hosted programs, `WindowsAreRight`: any number of windows and programs, at every interleaving of the loads and stores of
  the two processes that share a block (`HostedSizes`: the ring's indices wrap at a multiple of its length, slots are numbers).
  `HostedInv` is `SlotOwned` (a program that can still touch its block is the only one, and the slot names
  it), and for the block what each side may be in the middle of: `FramesOk`, `DrawOk`, `ReadOk` (of the two frames one is
  whole, and which, while the other is drawn or shown), `RingOk`, `SendOk` (head, tail and what was taken are positions in
  what was sent), `SizeOk` (the size sent last is the last one in the ring), `ClipOk`, `CopyOk`.
- theM's interrupts, `InterruptsAreRight`: any stack, queue, nesting of programs and number of keys (`IrqSizes`). `HeldOk` is
  the heart: a line is held exactly while one frame of its handler exists, at the depth, stack and height that were
  noted when it was entered, in the machine that runs or in one that EXEC has put aside. The guest may leave a handler
  by IRET, by dropping its stack or by ending the program, and only the noted place tells the code so.
  Ticks waiting are at most `MaxPending`; the keys seen, the one in the port and those in the queue are together the keys
  accepted.
- theM's memory and files, `MemoryIsRight`. `Placed`: blocks lie in the arena one behind the other; `next` is behind
  all of them; owners are programs that run or wait. That a refused program is told the largest hole
  (`LargestIs`) holds because a hole begins at the start of the arena or where a block ends; a block that was resized to
  nothing breaks this, so the property leaves that case out while the runs and the theorem allow it to happen. `ArenaSizes`
  are relations among the segments of `int21.c`: an .EXE ends above every place a program may be loaded at, a .COM fits
  there. For handles, `DosInv` is that a file's count of references is the number of handles that name it, in the table
  of the running program and in those put aside; `DosSizes` says that the handles are finitely many.

### Only model-checked

- Liveness: the prover has neither fairness nor ENABLED.
- What a recursive definition or a fold computes: theM's arithmetic, strings and planes (`InstructionsRight`), the
  heap (`HeapSound`, whose first fit walks a list), the FAT driver, the lines of IRC. It would take an induction over data.
- `GoStreamIntact`: like `StreamInv`, with reordering, a single pending segment and both ends' close in one machine; the
  invariant has not been worked out. `StreamWhole` and `StepsKeep` concatenate frames of any length, again a fold.
- The components of `MCDesktop`. It reaches recursive operators (the lines of IRC), so a theorem
  about one of its properties would have to be stated of the component alone.

## Disagreements met while modelling

Three are runs that are violated, with the comment they contradict quoted in `PROJECT.json`:
`jug_two` (two instances install through one staged file, `cpp/jug/store.cpp:406`), `xfer_window` (the
advertised window is swapped twice, `c/tnt/xfer.c:164`) and `sockets_half_close` (a repeated FIN frees a
socket before the reply is written, `c/libcr2/net.c:1103`). The others were seen in counterexamples of
properties that were then stated with the case named, and are noted at the definitions:

- `c/them/gfx.c:598`: the backend is chosen before the mode is looked at, so that on a plain VGA the text of a guest goes
  to a console nobody sees, though "Text mode goes to the kernel console" (`:399`); `:292`: a VGA that starts in 12h keeps
  the hardware's attribute map, though `:304-305` speak of an identity map; `:331`: a VGA without 12h shows nothing of a
  large mode, though it "is still sampled down there" (`:22`).
- `c/them/op_codes.c:746`: a repeated comparison whose slice ends with the pass that decides it is resumed, though
  stopping partway "is what the instruction is supposed to do" (`:691-693`).
- `go/telegram/app.go:387`: what waits for the last row of a full list goes to whom the row was given, though the
  README says of a chat "What you type is sent back as the bot" (`:12-13`); `net.go:183`: a POST is repeated though the
  server may have acted on it ("since then it was not read").
- `c/libcr2/net.c:1100`: a FIN is acknowledged with the bytes before it, whether or not they are
  in order and fit; `:941`: a late copy of a SYN sets `ack_num` back on a connection whose
  request was read and not yet answered.
- `go/r2net/tcp.go:668`: a FIN carries no data, so the test for `pending == nil` closes the
  connection before the FIN is acknowledged.
- `web/net_r2.cpp:1305`: data after `close()` gets no ACK, though the comment speaks of one below.
- `cpp/jug/window.cpp:349`: the stamp is taken when the last row has been hashed, so it covers
  changes to rows that were hashed before them.
- `mount_window.cpp:1194`: `beginCopy()` ignores that the file to be replaced could not be removed,
  and the tail of the old one stays behind the copy.
- `mount_window.cpp:1206`: without memory for the copy `beginCopy()` ends after the file to be replaced was removed,
  and the panes go on listing it.
- `go/telegram`: a new token keeps the offset of the bot before (`app.go:355`); `keepAnimations()` frees
  a slot its message still points at (`:1165`).
- `c/eth/main.c:583`: after a NAK the address stays in use; `:152`: the fallback address may get the
  gateway of a lease that has run out.
- `irc_window.cpp:867`: the rest of a line that is too long is skipped in its segment only; `:468`: our
  own JOIN comes before NAMES, so our operator's mark is not set; `:219`: a nick over sixteen characters
  is never removed from the list; `:931`: a FIN behind a last line leaves CLOSE_WAIT, which nothing looks for, and the
  window neither says that it is disconnected nor connects again.
- theM: files over 512 bytes are
  cut at save though `int21.c:1451-1455` says refused, and two opens of a file overwrite each
  other; DUP gives the same handle with no reference; a block resized to 0 hides
  the hole behind it from `block_room()` (`int21.c:123` calls what it returns the size of the hole); `next_free_seg` stays moved when
  `block_add` fails; a mode set clears the planes and not the memory of mode 13h.
- FAT driver: a directory that fills the whole volume and has no end mark makes `find()` answer EIO.
- heap: `reallocate()` lacks the overflow guard of `allocate()`.
- hosted programs: a frame may for a moment be followed by an older one; a text copied just
  before the program ends without a word is lost; a process id used again lets
  `hostedAlive()` answer for a stranger.

## Not modelled

The encoding of frames (a frame is what its decoder tests); the R2 kernel beyond its bridge,
whose detach is taken to succeed; a kernel that lacks eth's configuration call or stays Busy through
all fifty tries of it (`c/eth/main.c:108`, `125-133`); frames netmux cannot read, which go to the fallback
(`netmux.cpp:103-115`); reactions of the Telegram client, which wait with a row number as messages do; servers that offer fewer capabilities than this one;
of theM's instructions IMUL with an immediate, PUSHA and POPA, BOUND, ENTER, and the
vertical retrace; notifications of hosted programs. Of the repository's remaining lines most
draw, lay out, parse or decode (the web engine, CSS, JPEG and MPEG, the shells and compilers),
wrap system calls, or are vendored; they keep no state that two actors share. The
components are listed with their reasons in `PROJECT.json`.

## Plan

What is left to prove: r2net's stream (`R2NetTcp`), the encoder's slot of streamd (`StreamFrames`), and the commander
and Telegram, for which `MCDesktop` would have to be divided into the components that recurse and those that do not.
