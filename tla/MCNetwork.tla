----------------------------- MODULE MCNetwork ------------------------------
(* The network stacks of the repository, the daemons that lease the address *)
(* they use and announce it, and what is kept of what comes over the        *)
(* network: the sectors of an rntp export and the programs jug installs, by *)
(* itself and from its window.  One at a time: `part` names the one a       *)
(* behaviour is of, and the variables of the others are 0.                  *)
EXTENDS Integers, Sequences, TLC

CONSTANTS Machines,                                      \* hosts that connect, or loaders
          FrameLen, MaxFrames, Mss, Burst, SmallBuffer, Buffer, SeqMod, First, MaxNet,   \* Cr2Stream
          PoolSlots, Request, RxBuffer,                  \* Cr2Sockets
          PageRequest, TxCap, SegMax, PageReply, RxCap, RxWindow, MssIn, MaxRetries,     \* WebStream
          Loaders, Hosts, CacheSize,                     \* WebDns
          MaxConns, PortCount, KernelPorts,              \* WebPool
          Stash, KernelQueue, PullBurst, MaxArrived,     \* NetMux
          Keepers, KeeperRestarts,                       \* EthDhcp, with servers that keep their word
          Refusers, RefuserRestarts,                     \* and with servers that may not
          Own, Lease, RetryMax, FallbackAfter, Delay,
          CacheSlots, Split, Sectors, MetadataEnd, Data, MaxClock,   \* RntpCache
          Jugs, Versions, Pieces, MaxFaults,             \* JugStore
          Programs, Memento, MaxVersion,                 \* JugWindow
          Announcers, MachineNames, MachineAddrs, PtrTtl, HostTtl, Refreshes, Asks, MaxChanges   \* MdnsBrowse

\* The loaders that resolve names at the same time, in the order of their turns.
Tabs == <<"page", "script">>

VARIABLES part,   \* the component this behaviour is of
          \* Cr2Stream
          frames, tx_len, tx_pos, flight, flight_seq, seq_num, tx_acked, peer_window, capacity,
          ack_num, rx_len, stream, taken, net,
          \* Cr2Sockets
          sock, poolGot, event,
          \* WebStream
          c, given, read, pageWire, server, answer,
          \* WebDns
          dns, cache, next, want, misled, turn, dnsWire,
          \* WebPool
          pool, nextPort, driver, others, held,
          \* NetMux
          kernel, ring, listening, arrived, asking, muxGot,
          \* EthDhcp
          dhcpState, dhcpIp, gw, mac, source, fallback, onFallback, round, offered, dhcpServer,
          resend, backoff, waited, dhcpLeft, pub, dhcpNet, granted, restarts,
          \* RntpCache
          sectorCache, clock, newest,
          \* JugStore
          disk, reg, jug, faults, have,
          \* JugWindow
          list, file, jugReg, model, jugJob, queue, confirm, mementoUpdated, restamp, diskSeen, due,
          \* MdnsBrowse
          running, name, addr, mdnsHost, mdnsIp, mdnsKnown, mdnsLeft, mdnsNet, mdnsCache, hosts, since,
          lost, changes

\* A connection whose sequence numbers wrap within its first frame (Cr2Stream, with its invariant).
Frames == INSTANCE Cr2StreamProofs
\* A listener and two more slots; three hosts, so that the pool runs full.
Pool == INSTANCE Cr2Sockets WITH Slots <- PoolSlots, Hosts <- Machines, Buffer <- RxBuffer, got <- poolGot
\* The ring is smaller than the reply, so that a segment can find room for a part of it.
Page == INSTANCE WebStream WITH Request <- PageRequest, Reply <- PageReply, Mss <- MssIn, wire <- pageWire
\* Each loader asks for either name.
Dns == INSTANCE WebDns WITH wire <- dnsWire
\* Loaders, slots, ports and kernel entries are all too few for one another.
Conns == INSTANCE WebPool WITH Loaders <- Machines
\* Rings of two, so that they fill and wrap.
Mux == INSTANCE NetMux WITH Queue <- KernelQueue, Burst <- PullBurst, MaxFrames <- MaxArrived, got <- muxGot
\* Two servers.
Dhcp == INSTANCE EthDhcp WITH Servers <- Keepers, Naks <- FALSE, MaxRestarts <- KeeperRestarts, state <- dhcpState,
    ip <- dhcpIp, server <- dhcpServer, left <- dhcpLeft, net <- dhcpNet
\* One server that may refuse, and a daemon that starts again.
Again == INSTANCE EthDhcp WITH Servers <- Refusers, Naks <- TRUE, MaxRestarts <- RefuserRestarts, state <- dhcpState,
    ip <- dhcpIp, server <- dhcpServer, left <- dhcpLeft, net <- dhcpNet
\* Three slots for four sectors of metadata, one for two of data.
Cache == INSTANCE RntpCache WITH Slots <- CacheSlots, cache <- sectorCache
\* A download and the update that replaces it.
Store == INSTANCE JugStore WITH Chunks <- Pieces
\* The desktop itself and one more program; the list changes, and so does the disk under the window.
Window == INSTANCE JugWindow WITH Names <- Programs, server <- list, reg <- jugReg, job <- jugJob
\* Two servers on a machine that is renamed and moved.
Mdns == INSTANCE MdnsBrowse WITH Servers <- Announcers, Names <- MachineNames, Addrs <- MachineAddrs,
    host <- mdnsHost, ip <- mdnsIp, known <- mdnsKnown, left <- mdnsLeft, net <- mdnsNet, cache <- mdnsCache

Init ==
    /\ part \in {"frames", "pool", "page", "dns", "conns", "mux", "lease", "restart", "cache", "store",
                "window", "mdns"}
    /\ IF part = "frames" THEN Frames!Init ELSE frames = 0 /\ tx_len = 0 /\ tx_pos = 0 /\ flight = 0
       /\ flight_seq = 0 /\ seq_num = 0 /\ tx_acked = 0 /\ peer_window = 0 /\ capacity = 0 /\ ack_num = 0 /\ rx_len = 0
       /\ stream = 0 /\ taken = 0 /\ net = 0
    /\ IF part = "pool" THEN Pool!Init ELSE sock = 0 /\ poolGot = 0 /\ event = 0
    /\ IF part = "page" THEN Page!Init ELSE c = 0 /\ given = 0 /\ read = 0 /\ pageWire = 0 /\ server = 0 /\ answer = 0
    /\ IF part = "dns" THEN Dns!Init ELSE dns = 0 /\ cache = 0 /\ next = 0 /\ want = 0 /\ misled = 0 /\ turn = 0
       /\ dnsWire = 0
    /\ IF part = "conns" THEN Conns!Init ELSE pool = 0 /\ nextPort = 0 /\ driver = 0 /\ others = 0 /\ held = 0
    /\ IF part = "mux" THEN Mux!Init ELSE kernel = 0 /\ ring = 0 /\ listening = 0 /\ arrived = 0 /\ asking = 0
       /\ muxGot = 0
    /\ IF part = "lease" THEN Dhcp!Init ELSE IF part = "restart" THEN Again!Init ELSE dhcpState = 0
       /\ dhcpIp = 0 /\ gw = 0 /\ mac = 0 /\ source = 0 /\ fallback = 0 /\ onFallback = 0 /\ round = 0 /\ offered = 0
       /\ dhcpServer = 0 /\ resend = 0 /\ backoff = 0 /\ waited = 0 /\ dhcpLeft = 0 /\ pub = 0 /\ dhcpNet = 0
       /\ granted = 0 /\ restarts = 0
    /\ IF part = "cache" THEN Cache!Init ELSE sectorCache = 0 /\ clock = 0 /\ newest = 0
    /\ IF part = "store" THEN Store!Init ELSE disk = 0 /\ reg = 0 /\ jug = 0 /\ faults = 0 /\ have = 0
    /\ IF part = "window" THEN Window!Init ELSE list = 0 /\ file = 0 /\ jugReg = 0 /\ model = 0 /\ jugJob = 0
       /\ queue = 0 /\ confirm = 0 /\ mementoUpdated = 0 /\ restamp = 0 /\ diskSeen = 0 /\ due = 0
    /\ IF part = "mdns" THEN Mdns!Init ELSE running = 0 /\ name = 0 /\ addr = 0 /\ mdnsHost = 0 /\ mdnsIp = 0
       /\ mdnsKnown = 0 /\ mdnsLeft = 0 /\ mdnsNet = 0 /\ mdnsCache = 0 /\ hosts = 0 /\ since = 0 /\ lost = 0 /\ changes = 0

frames_vars == <<frames, tx_len, tx_pos, flight, flight_seq, seq_num, tx_acked, peer_window,
                 capacity, ack_num, rx_len, stream, taken, net>>
pool_vars == <<sock, poolGot, event>>
page_vars == <<c, given, read, pageWire, server, answer>>
dns_vars == <<dns, cache, next, want, misled, turn, dnsWire>>
conns_vars == <<pool, nextPort, driver, others, held>>
mux_vars == <<kernel, ring, listening, arrived, asking, muxGot>>
dhcp_vars == <<dhcpState, dhcpIp, gw, mac, source, fallback, onFallback, round, offered, dhcpServer,
               resend, backoff, waited, dhcpLeft, pub, dhcpNet, granted, restarts>>
cache_vars == <<sectorCache, clock, newest>>
store_vars == <<disk, reg, jug, faults, have>>
window_vars == <<list, file, jugReg, model, jugJob, queue, confirm, mementoUpdated, restamp,
                 diskSeen, due>>
mdns_vars == <<running, name, addr, mdnsHost, mdnsIp, mdnsKnown, mdnsLeft, mdnsNet, mdnsCache, hosts,
               since, lost, changes>>

\* The other components stand still.
Rest ==
    /\ part' = part
    /\ IF part = "frames" THEN TRUE ELSE UNCHANGED frames_vars
    /\ IF part = "pool" THEN TRUE ELSE UNCHANGED pool_vars
    /\ IF part = "page" THEN TRUE ELSE UNCHANGED page_vars
    /\ IF part = "dns" THEN TRUE ELSE UNCHANGED dns_vars
    /\ IF part = "conns" THEN TRUE ELSE UNCHANGED conns_vars
    /\ IF part = "mux" THEN TRUE ELSE UNCHANGED mux_vars
    /\ IF part \in {"lease", "restart"} THEN TRUE ELSE UNCHANGED dhcp_vars
    /\ IF part = "cache" THEN TRUE ELSE UNCHANGED cache_vars
    /\ IF part = "store" THEN TRUE ELSE UNCHANGED store_vars
    /\ IF part = "window" THEN TRUE ELSE UNCHANGED window_vars
    /\ IF part = "mdns" THEN TRUE ELSE UNCHANGED mdns_vars

Next ==
    \/ part = "frames" /\ Frames!Next /\ Rest
    \/ part = "pool" /\ Pool!Next /\ Rest
    \/ part = "page" /\ Page!Next /\ Rest
    \/ part = "dns" /\ Dns!Next /\ Rest
    \/ part = "conns" /\ Conns!Next /\ Rest
    \/ part = "mux" /\ Mux!Next /\ Rest
    \/ part = "lease" /\ Dhcp!Next /\ Rest
    \/ part = "restart" /\ Again!Next /\ Rest
    \/ part = "cache" /\ Cache!Next /\ Rest
    \/ part = "store" /\ Store!Next /\ Rest
    \/ part = "window" /\ Window!Next /\ Rest
    \/ part = "mdns" /\ Mdns!Next /\ Rest

vars == <<part, frames_vars, pool_vars, page_vars, dns_vars, conns_vars, mux_vars,
          dhcp_vars, cache_vars, store_vars, window_vars, mdns_vars>>

Spec == Init /\ [][Next]_vars

Symmetry == Permutations(Machines)

-----------------------------------------------------------------------------
\* rntp frames over libcr2 (serve(), transmit(), on_tcp_packet()): the receiver has the
\* bytes of the stream in order, each once, and the sender forgets a byte only when the
\* receiver has it, whatever is lost, repeated or did not fit.
FramesIntact == part = "frames" => Frames!StreamIntact /\ Frames!AckedIsReceived /\ Frames!FlightInOrder

\* libcr2's socket pool: a tuple belongs to one connection, and an open one has
\* acknowledged exactly the prefix of the request it holds.
PoolSound == part = "pool" => Pool!OneOwner /\ Pool!DataAcked

\* web/net_r2.cpp, a connection: the server gets what send() accepted and its end last,
\* the loader reads the server's stream and is told its end when it has all of it.
PageIntact ==
    part = "page" => /\ Page!ServerGetsRequest /\ Page!FinComesLast
                     /\ Page!ReplyIntact /\ Page!EndIsEnd /\ Page!WindowReopened

\* web/net_r2.cpp: resolve() tells a loader the address of the name it asked for, however
\* late answers come and whoever started the query; a loader's connection is its own until
\* it closes it, and the kernel's port entries are all given back.
LoadersServed == /\ part = "dns" => Dns!RightAddress
                 /\ part = "conns" => Conns!HandleIsOwn /\ Conns!PortsDiffer /\ Conns!NoLeak

\* eth: everyone is told the address in use, and a leased one is used only while its server
\* keeps it for us.  mdnsd: a listed service was served not longer ago than its records
\* live, and is gone two seconds after it stops when no frame is lost.
AnnouncedTrue == /\ part = "lease" => Dhcp!PublishedTrue /\ Dhcp!LeaseHeld
                 /\ part = "restart" => Again!PublishedTrue
                 /\ part = "mdns" => Mdns!StaleBounded /\ Mdns!GoneSoon

\* rntp/linux/client.c: whichever slot a lookup finds first holds what was last put for
\* the sector, so no sector is cached twice.
LookupNewest == part = "cache" => Cache!LookupNewest

\* jug/store.cpp: the file that runs is one whole build however an install is cut short,
\* a download is not lost by a failed update of it, what the user is told of a failure is
\* so, and what is left behind makes no later install fail.
InstallSafe == part = "store" => Store!InstallSafe

\* jug/window.cpp: the window installs no build other than the one its list has, and a
\* user's job is taken away by its own end and Escape only.
JobsStand ==
    [][part = "window" => Window!QueueIsWorkedOn /\ Window!InstallsTheListed /\ Window!UsersJobStands]_vars

\* netmux.cpp: each stack is given the frames it claimed, in the order they came in,
\* none of them twice, whoever took them from the kernel, and an ARP frame waits for
\* every stack that listens.
FramesShared == [][part = "mux" => Mux!RightStack /\ Mux!GivenInOrder /\ Mux!ArpReachesAll]_vars

\* libcr2: a full pool never costs a live connection, nor a FIN a request that was not
\* read.  web/net_r2.cpp: a query under way is not replaced.  rntp/linux/client.c: what a
\* new sector replaces in the cache is what was not used for the longest time.  mdnsd:
\* while no frame is lost, a service that is served stays on the list.
StepsSound ==
    [][/\ part = "pool" => Pool!LiveNotEvicted /\ Pool!UnreadKept
       /\ part = "dns" => Dns!QueryStands
       /\ part = "cache" => Cache!RecentStays
       /\ part = "mdns" => Mdns!KeptAlive]_vars
=============================================================================
