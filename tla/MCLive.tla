------------------------------- MODULE MCLive -------------------------------
(* What must happen in the end, in six components, one at a time: `part`    *)
(* names the one a behaviour is of, and the variables of the others are 0.  *)
(* The k-th fairness condition of every component is one condition here:    *)
(* `part` never changes, so it says of each behaviour what its own          *)
(* component says.                                                          *)
EXTENDS Integers, Sequences, TLC

VARIABLES part,   \* the component this behaviour is of
          \* Cr2Stream
          frames, tx_len, tx_pos, flight, flight_seq, seq_num, tx_acked, peer_window, capacity,
          ack_num, rx_len, stream, taken, framesNet,
          \* WebDns
          dns, cache, next, want, misled, turn, wire,
          \* TelegramClient
          chats, cur, outbox, photo, bot, setup, named, offset, request, stale, job, inbox, shown,
          arrived, unsent, changes,
          \* EthDhcp
          state, ip, gw, mac, source, fallback, onFallback, round, offered, server, resend, backoff,
          waited, left, pub, dhcpNet, granted, restarts,
          \* HostedWindow
          blk, slot, wnd, prog, count,
          \* IrcChannel
          win, driver, syn, toServer, toClient, srv, ghosts, members, ops, events

Frames == INSTANCE Cr2Stream WITH FrameLen <- 4, MaxFrames <- 2, Mss <- 2, Burst <- 2, SmallBuffer <- 5, Buffer <- 5,
    SeqMod <- 32, First <- 30, MaxNet <- 2, net <- framesNet
Dns == INSTANCE WebDns WITH Loaders <- <<"page", "script">>, Hosts <- {"a", "b"}, CacheSize <- 1
Chat == INSTANCE TelegramClient WITH People <- {"p1"}, MaxChats <- 1, MaxOut <- 2, Bots <- {1}, MaxUpdates <- 1,
    MaxTyped <- 2, Kept <- TRUE, MaxChanges <- 1
Dhcp == INSTANCE EthDhcp WITH Servers <- {1}, Own <- 9, Lease <- 4, RetryMax <- 16, FallbackAfter <- 3, Delay <- 1,
    Naks <- FALSE, MaxRestarts <- 0, net <- dhcpNet
Hosted == INSTANCE HostedWindow WITH Slots <- {1}, Queue <- 2, IndexMod <- 4, MaxLaunches <- 1,
    Bounds <- {[slots |-> {1}, launches |-> 1, frames |-> 2, commands |-> 0, copies |-> 0, sizes |-> {1}]}
Irc == INSTANCE IrcChannel WITH Others <- {4}, Long <- {}, Me <- 4, MaxUnder <- 3, MaxUsers <- 2, Every <- 2,
    MaxEvents <- 2

Init ==
    /\ part \in {"frames", "dns", "chat", "dhcp", "hosted", "irc"}
    /\ IF part = "frames" THEN Frames!Init ELSE frames = 0 /\ tx_len = 0 /\ tx_pos = 0 /\ flight = 0
       /\ flight_seq = 0 /\ seq_num = 0 /\ tx_acked = 0 /\ peer_window = 0 /\ capacity = 0 /\ ack_num = 0 /\ rx_len = 0
       /\ stream = 0 /\ taken = 0 /\ framesNet = 0
    /\ IF part = "dns" THEN Dns!Init ELSE dns = 0 /\ cache = 0 /\ next = 0 /\ want = 0 /\ misled = 0 /\ turn = 0
       /\ wire = 0
    /\ IF part = "chat" THEN Chat!Init ELSE chats = 0 /\ cur = 0 /\ outbox = 0 /\ photo = 0 /\ bot = 0 /\ setup = 0
       /\ named = 0 /\ offset = 0 /\ request = 0 /\ stale = 0 /\ job = 0 /\ inbox = 0 /\ shown = 0 /\ arrived = 0 /\ unsent = 0
       /\ changes = 0
    /\ IF part = "dhcp" THEN Dhcp!Init ELSE state = 0 /\ ip = 0 /\ gw = 0 /\ mac = 0 /\ source = 0 /\ fallback = 0
       /\ onFallback = 0 /\ round = 0 /\ offered = 0 /\ server = 0 /\ resend = 0 /\ backoff = 0 /\ waited = 0 /\ left = 0
       /\ pub = 0 /\ dhcpNet = 0 /\ granted = 0 /\ restarts = 0
    /\ IF part = "hosted" THEN Hosted!Init ELSE blk = 0 /\ slot = 0 /\ wnd = 0 /\ prog = 0 /\ count = 0
    /\ IF part = "irc" THEN Irc!Init ELSE win = 0 /\ driver = 0 /\ syn = 0 /\ toServer = 0 /\ toClient = 0 /\ srv = 0
       /\ ghosts = 0 /\ members = 0 /\ ops = 0 /\ events = 0

frames_vars == <<frames, tx_len, tx_pos, flight, flight_seq, seq_num, tx_acked, peer_window,
                 capacity, ack_num, rx_len, stream, taken, framesNet>>
dns_vars == <<dns, cache, next, want, misled, turn, wire>>
chat_vars == <<chats, cur, outbox, photo, bot, setup, named, offset, request, stale, job, inbox,
               shown, arrived, unsent, changes>>
dhcp_vars == <<state, ip, gw, mac, source, fallback, onFallback, round, offered, server, resend,
               backoff, waited, left, pub, dhcpNet, granted, restarts>>
hosted_vars == <<blk, slot, wnd, prog, count>>
irc_vars == <<win, driver, syn, toServer, toClient, srv, ghosts, members, ops, events>>

\* The other components stand still.
Rest ==
    /\ part' = part
    /\ IF part = "frames" THEN TRUE ELSE UNCHANGED frames_vars
    /\ IF part = "dns" THEN TRUE ELSE UNCHANGED dns_vars
    /\ IF part = "chat" THEN TRUE ELSE UNCHANGED chat_vars
    /\ IF part = "dhcp" THEN TRUE ELSE UNCHANGED dhcp_vars
    /\ IF part = "hosted" THEN TRUE ELSE UNCHANGED hosted_vars
    /\ IF part = "irc" THEN TRUE ELSE UNCHANGED irc_vars

Next ==
    \/ part = "frames" /\ Frames!Next /\ Rest
    \/ part = "dns" /\ Dns!Next /\ Rest
    \/ part = "chat" /\ Chat!Next /\ Rest
    \/ part = "dhcp" /\ Dhcp!Next /\ Rest
    \/ part = "hosted" /\ Hosted!Next /\ Rest
    \/ part = "irc" /\ Irc!Next /\ Rest

vars == <<part, frames_vars, dns_vars, chat_vars, dhcp_vars, hosted_vars, irc_vars>>

\* The idle loop of each goes round, and its worker, the server's answers and a segment
\* that is sent again and again get through.
Weak(k) ==
    CASE part = "frames" /\ k = 1 -> Frames!Incoming
      [] part = "frames" /\ k = 2 -> Frames!Transmit(TRUE)
      [] part = "dns" /\ k = 1 -> Dns!Next /\ turn' # turn
      [] part = "chat" /\ k = 1 -> Chat!Idle
      [] part = "chat" /\ k = 2 -> Chat!Handled
      [] part = "chat" /\ k = 3 -> Chat!Finished
      [] part = "dhcp" /\ k = 1 -> Dhcp!Tick
      [] part = "hosted" /\ k = 1 -> Hosted!Window
      [] part = "hosted" /\ k = 2 -> Hosted!Idle
      [] part = "hosted" /\ k = 3 -> Hosted!Program(1)
      [] part = "irc" /\ k = 1 -> Irc!Idle
      [] part = "irc" /\ k = 2 -> Irc!Receive
      [] part = "irc" /\ k = 3 -> Irc!Handle
      [] part = "irc" /\ k = 4 -> Irc!GhostQuits
      [] OTHER -> FALSE

Strong(k) ==
    CASE part = "frames" /\ k = 1 -> \E s \in framesNet : Frames!ReceiveAck(s) /\ s.ack = ack_num /\ framesNet' = framesNet \ {s}
      [] part = "frames" /\ k = 2 -> \E s \in framesNet : Frames!ReceiveData(s) /\ s.seq = ack_num /\ Frames!Once(s)
      [] part = "frames" /\ k = 3 -> \E s \in framesNet : Frames!ReceiveData(s) /\ s.seq = flight_seq /\ Frames!Once(s)
      [] part = "dns" /\ k = 1 -> Dns!TimesOut
      [] part = "dhcp" /\ k = 1 -> \E m \in dhcpNet : Dhcp!Offers(1, m)
      [] part = "dhcp" /\ k = 2 -> \E m \in dhcpNet : Dhcp!Grants(1, m)
      [] part = "dhcp" /\ k = 3 -> \E m \in dhcpNet : Dhcp!Offer(m)
      [] part = "dhcp" /\ k = 4 -> \E m \in dhcpNet : Dhcp!Ack(m)
      [] part = "hosted" /\ k = 1 -> Hosted!Paint(wnd.want)
      [] part = "irc" /\ k = 1 -> Irc!Accept(TRUE)
      [] OTHER -> FALSE

Spec == /\ Init /\ [][Next]_vars
        /\ \A k \in 1 .. 4 : WF_vars(Weak(k) /\ Rest)
        /\ \A k \in 1 .. 4 : SF_vars(Strong(k) /\ Rest)


-----------------------------------------------------------------------------
\* rntp and libcr2: a frame is delivered and its buffer released, if segments are not lost
\* for ever.
FrameDelivered == (part = "frames" /\ tx_len > 0) ~> (part = "frames" => tx_len = 0 /\ taken = frames * 4)

\* A loader that waits for a name is answered, and a message typed goes out, whatever else
\* is asked for.  A frame a hosted program publishes is shown, and the size of its window
\* is sent to it, unless it ends or the window is closed.
Served ==
    /\ \A l \in {"page", "script"} :
          (part = "dns" /\ want[l] # Dns!NoHost) ~> (part = "dns" => want[l] = Dns!NoHost)
    /\ \A n \in 1 .. 2 : (part = "chat" /\ named /\ Chat!Waits(n)) ~> (part = "chat" => setup \/ ~Chat!Waits(n))
    /\ \A n \in 1 .. 2 : (part = "hosted" /\ Hosted!Unshown(n)) ~> (part = "hosted" => ~Hosted!Unshown(n))
    /\ (part = "hosted" /\ Hosted!Untold(1)) ~> (part = "hosted" => ~Hosted!Untold(1))

\* eth gets a lease from a server that answers, and an IRC window registers, through
\* refusals, lost SYNs, taken nicks, resets and connections that end with a bare FIN.  One
\* that ends with a FIN behind a last line strands the window: pollNet() looks for
\* SOCK_CLOSED only, and libcr2 leaves the socket in CLOSE_WAIT.
Joined ==
    /\ (part = "dhcp" /\ state = "discovering") ~> (part = "dhcp" => state = "bound")
    /\ (part = "irc" /\ win.phase = "CHAT" /\ win.sock # "none")
          ~> (part = "irc" => win.registered \/ Irc!Stranded \/ win.phase # "CHAT")
=============================================================================
