----------------------------- MODULE IrcChannel -----------------------------
(***************************************************************************)
(* memento-hello/windows/irc_window.cpp: the IRC window, its connection and *)
(* the list of who is in the channel, with a server that others use too.    *)
(*                                                                         *)
(* Nicks are even numbers in alphabetical order; what is kept of one longer *)
(* than USER_LEN sorts just before it.  The window's nick with k            *)
(* underscores is Me + 2 * k.                                               *)
(***************************************************************************)
EXTENDS Integers, Sequences, SequencesExt, FiniteSets, FiniteSetsExt

CONSTANTS Others, Long,     \* nicks of others, those that are cut
          Me, MaxUnder,     \* the nick asked for; underscores that fit
          MaxUsers,         \* MAX_USERS
          Every,            \* polls between two SYNs: 5
          MaxEvents         \* bound: what others do, and what the server breaks

VARIABLES win,          \* the window
          driver,       \* netDriverInit, static
          syn,          \* a SYN is on its way to the server
          toServer, toClient,
          srv,          \* the server's side of the connection
          ghosts,       \* nicks of connections the server does not know are dead
          members, ops, \* the channel
          events

network == <<syn, toServer, toClient>>
server == <<srv, ghosts, members, ops>>
vars == <<win, driver, network, server, events>>

Mine == {Me + 2 * k : k \in 0 .. MaxUnder}
NoConn == [up |-> FALSE, nick |-> 0, user |-> FALSE, in |-> FALSE]
Fresh == [phase |-> "IP", sock |-> "none", connected |-> FALSE, registered |-> FALSE,
          nick |-> Me, retries |-> 0, users |-> <<>>, out |-> <<>>]

Init == /\ win = Fresh /\ driver = FALSE
        /\ syn = FALSE /\ toServer = <<>> /\ toClient = <<>>
        /\ srv = NoConn /\ ghosts = {} /\ members \in SUBSET Others /\ ops = members \cap {Min(Others)} /\ events = 0

Line(cmd, nick, to, names) == [cmd |-> cmd, nick |-> nick, to |-> to, names |-> names]
Cmd(cmd) == Line(cmd, 0, 0, <<>>)
Named(cmd, nick) == Line(cmd, nick, 0, <<>>)

\* ircSend(): nothing, unless the connection is up.
IrcSend(w, m) == IF w.sock = "ESTABLISHED" THEN [w EXCEPT !.out = Append(@, m)] ELSE w

-----------------------------------------------------------------------------
(* The user list: entries with their op marker.                             *)

Entry(nick, op) == [nick |-> nick, op |-> op]
Kept(nick) == IF nick \in Long THEN nick - 1 ELSE nick

\* userRank(), nickCmp().
Before(a, b) == (a.op /\ ~b.op) \/ (a.op = b.op /\ a.nick <= b.nick)

\* userIndex().
Index(users, nick) == {i \in 1 .. Len(users) : users[i].nick = nick}

UserAdd(users, e) ==
    IF Len(users) >= MaxUsers \/ Index(users, e.nick) # {} THEN users
    ELSE LET at == Max({0} \cup {i \in 1 .. Len(users) : Before(users[i], e)})
         IN SubSeq(users, 1, at) \o <<[e EXCEPT !.nick = Kept(@)]>> \o SubSeq(users, at + 1, Len(users))

UserRemove(users, nick) == IF Index(users, nick) = {} THEN users ELSE RemoveAt(users, Min(Index(users, nick)))

UserRename(users, from, to) ==
    LET is == Index(users, from)
    IN IF is = {} THEN UserAdd(users, Entry(to, FALSE))
       ELSE UserAdd(UserRemove(users, from), Entry(to, users[Min(is)].op))

\* userAddList(): names are cut before they are looked up.
UserAddList(users, names) == FoldLeft(LAMBDA us, e : UserAdd(us, Entry(Kept(e.nick), e.op)), users, names)

-----------------------------------------------------------------------------
(* processLine().                                                           *)

\* Faulty variant: the list of the connection before is kept.
OnWelcomeKeeps(w) == [w EXCEPT !.registered = TRUE]

OnWelcome(w) == [w EXCEPT !.registered = TRUE, !.users = <<>>]

\* NICK: our own rename is followed too.
OnNick(w, m) == [w EXCEPT !.users = UserRename(@, m.nick, m.to), !.nick = IF @ = m.nick THEN m.to ELSE @]

\* Faulty variant: the same nick is asked for again.
NextNickSame(nick) == nick

\* 433: an underscore more, while it fits.
NextNick(nick) == IF nick < Me + 2 * MaxUnder THEN nick + 2 ELSE nick

ProcessLine(w, m) ==
    CASE m.cmd = "PING" -> IrcSend(w, Cmd("PONG"))
      [] m.cmd = "001" -> IF w.registered THEN w ELSE IrcSend(OnWelcome(w), Cmd("JOIN"))
      [] m.cmd = "433" -> IrcSend([w EXCEPT !.nick = NextNick(@)], Named("NICK", NextNick(w.nick)))
      [] m.cmd = "JOIN" -> [w EXCEPT !.users = UserAdd(@, Entry(m.nick, FALSE))]
      [] m.cmd \in {"PART", "QUIT", "KICK"} -> [w EXCEPT !.users = UserRemove(@, m.nick)]
      [] m.cmd = "NICK" -> OnNick(w, m)
      [] m.cmd = "353" -> [w EXCEPT !.users = UserAddList(@, m.names)]
      [] OTHER -> w

-----------------------------------------------------------------------------
(* pollNet().                                                               *)

\* A packet, or none: its lines are read while there are any.
Packet(w, m) ==
    CASE m.cmd = "none" -> w
      [] m.cmd = "SYNACK" -> [w EXCEPT !.sock = IF @ = "SYN_SENT" THEN "ESTABLISHED" ELSE @]
      [] m.cmd \in {"RST", "FIN"} -> [w EXCEPT !.sock = "CLOSED"]
      [] m.cmd = "LASTFIN" -> [w EXCEPT !.sock = "CLOSE_WAIT"]      \* with a line in it
      [] OTHER -> IF w.sock = "ESTABLISHED" THEN ProcessLine(w, m) ELSE w

Reconnect(w) == [w EXCEPT !.sock = "SYN_SENT", !.retries = 1 % Every]

\* What follows a packet, or none: a connection is made, asked for again, used, or missed.
After(w) ==
    CASE ~w.connected /\ w.sock = "CLOSED" -> Reconnect(w)
      [] ~w.connected /\ w.sock = "SYN_SENT" -> [w EXCEPT !.retries = (@ + 1) % Every]
      [] ~w.connected /\ w.sock = "ESTABLISHED" ->
            [w EXCEPT !.connected = TRUE, !.retries = 0, !.out = @ \o <<Named("NICK", w.nick), Cmd("USER")>>]
      [] w.connected /\ w.sock = "CLOSED" -> [w EXCEPT !.connected = FALSE, !.registered = FALSE]
      [] OTHER -> w

Poll(m) ==
    /\ win.phase = "CHAT" /\ win.sock # "none"
    /\ \E p \in {Packet(win, m)} : \E w \in {After(p)} :
          /\ win' = [w EXCEPT !.out = <<>>]
          /\ toServer' = IF srv.up THEN toServer \o w.out ELSE <<>>
          /\ syn' = (syn \/ (w.sock = "SYN_SENT" /\ (w.retries = 0 \/ win.sock # "SYN_SENT")))
    /\ UNCHANGED <<driver, server, events>>

Idle == Poll(Cmd("none")) /\ UNCHANGED toClient
Receive == toClient # <<>> /\ Poll(Head(toClient)) /\ toClient' = Tail(toClient)

-----------------------------------------------------------------------------
(* Keys.                                                                    *)

\* initNet(): the port is bound once for all windows, the SYN sent.
InitNet(w, bound) == IF ~bound THEN w ELSE [w EXCEPT !.sock = "SYN_SENT"]

Enter == /\ win.phase \in {"IP", "NICK", "CHAN"}
         /\ \E bound \in {driver, TRUE} :
              /\ win' = CASE win.phase = "IP" -> [win EXCEPT !.phase = "NICK"]
                          [] win.phase = "NICK" -> [win EXCEPT !.phase = "CHAN", !.nick = Me]
                          [] OTHER -> InitNet([win EXCEPT !.phase = "CHAT"], bound)
              /\ driver' = (driver \/ (win.phase = "CHAN" /\ bound))
              /\ syn' = (syn \/ (win.phase = "CHAN" /\ bound))
         /\ UNCHANGED <<toServer, toClient, server, events>>

\* A line typed: a message, or /quit.
Say == /\ win.phase = "CHAT" /\ win.connected /\ win.registered /\ events < MaxEvents
       /\ srv.up /\ toServer' = toServer \o IrcSend(win, Cmd("PRIVMSG")).out
       /\ events' = events + 1
       /\ UNCHANGED <<win, driver, syn, toClient, server>>

\* Escape goes back, or closes the connection and the window; another is opened later.
Back == /\ win.phase \in {"NICK", "CHAN"} /\ events < MaxEvents /\ events' = events + 1
        /\ win' = [win EXCEPT !.phase = IF @ = "NICK" THEN "IP" ELSE "NICK"]
        /\ UNCHANGED <<driver, network, server>>

\* The server does not hear of the end of a connection at once.
Haunted == ghosts \cup ({srv.nick} \ {0})

Leave == /\ win.phase = "CHAT" /\ events < MaxEvents /\ events' = events + 1
         /\ win' = Fresh /\ syn' = FALSE /\ toServer' = <<>> /\ toClient' = <<>>
         /\ srv' = NoConn /\ ghosts' = Haunted
         /\ UNCHANGED <<driver, members, ops>>

-----------------------------------------------------------------------------
(* The server and the others.                                               *)

Taken == Others \cup ghosts

Accept(ok) == /\ syn /\ syn' = FALSE
              /\ IF win.sock = "SYN_SENT"
                 THEN /\ toServer' = <<>> /\ toClient' = <<Cmd(IF ok THEN "SYNACK" ELSE "RST")>>
                      /\ srv' = [NoConn EXCEPT !.up = ok] /\ ghosts' = Haunted
                 ELSE UNCHANGED <<toServer, toClient, srv, ghosts>>
              /\ events' = IF ok THEN events ELSE events + 1
              /\ events' <= MaxEvents
              /\ UNCHANGED <<win, driver, members, ops>>

SynLost == syn /\ syn' = FALSE /\ UNCHANGED <<win, driver, toServer, toClient, server, events>>

Names == LET all == SetToSortSeq(members', LAMBDA a, b : a > b)
         IN [i \in 1 .. Len(all) |-> Entry(all[i], all[i] \in ops')]

Handle ==
    /\ toServer # <<>> /\ toServer' = Tail(toServer)
    /\ LET m == Head(toServer)
           ok == m.cmd = "NICK" /\ m.nick \notin Taken
           welcome == (srv.nick = 0 /\ ok /\ srv.user) \/ (m.cmd = "USER" /\ srv.nick # 0)
       IN /\ srv' = [srv EXCEPT !.nick = IF ok THEN m.nick ELSE @, !.user = @ \/ m.cmd = "USER",
                                !.in = @ \/ m.cmd = "JOIN"]
          /\ members' = IF m.cmd = "JOIN" THEN members \cup {srv.nick} ELSE members
          /\ ops' = IF m.cmd = "JOIN" /\ members = {} THEN {srv.nick} ELSE ops
          /\ toClient' = toClient \o (CASE m.cmd = "NICK" /\ ~ok -> <<Cmd("433")>>
                                      [] welcome -> <<Cmd("001"), Cmd("PING")>>
                                      [] m.cmd = "JOIN" -> <<Named("JOIN", srv.nick), Line("353", 0, 0, Names)>>
                                      [] OTHER -> <<>>)
    /\ UNCHANGED <<win, driver, syn, ghosts, events>>

\* What the window is told while it is in the channel.
Tell(m) == toClient' = IF srv.in THEN Append(toClient, m) ELSE toClient

Other == /\ events < MaxEvents /\ events' = events + 1
         /\ \/ \E n \in Others \ members : members' = members \cup {n} /\ ops' = ops /\ Tell(Named("JOIN", n))
            \/ \E n \in Others \cap members, cmd \in {"PART", "KICK"} :
                 members' = members \ {n} /\ ops' = ops \ {n} /\ Tell(Named(cmd, n))
            \/ \E n \in Others \cap members, to \in Others \ members :
                 /\ members' = (members \ {n}) \cup {to}
                 /\ ops' = IF n \in ops THEN (ops \ {n}) \cup {to} ELSE ops
                 /\ Tell(Line("NICK", n, to, <<>>))
         /\ UNCHANGED <<win, driver, syn, toServer, srv, ghosts>>

\* The window's user is renamed or kicked.
Forced == /\ srv.in /\ events < MaxEvents /\ events' = events + 1
          /\ \/ \E to \in Mine \ (Taken \cup {srv.nick}) :
                  /\ members' = (members \ {srv.nick}) \cup {to} /\ srv' = [srv EXCEPT !.nick = to]
                  /\ ops' = IF srv.nick \in ops THEN (ops \ {srv.nick}) \cup {to} ELSE ops
                  /\ Tell(Line("NICK", srv.nick, to, <<>>))
             \/ /\ members' = members \ {srv.nick} /\ ops' = ops \ {srv.nick} /\ srv' = [srv EXCEPT !.in = FALSE]
                /\ Tell(Named("KICK", srv.nick))
          /\ UNCHANGED <<win, driver, syn, toServer, ghosts>>

\* A connection ends: reset on its way, or closed by the server, with a last line or without.
Break == /\ srv.up /\ win.sock = "ESTABLISHED" /\ events < MaxEvents /\ events' = events + 1
         /\ toServer' = <<>> /\ srv' = NoConn
         /\ \/ toClient' = <<Cmd("RST")>> /\ ghosts' = Haunted /\ UNCHANGED <<members, ops>>
            \/ \E fin \in {"FIN", "LASTFIN"} :
                 /\ toClient' = Append(toClient, Cmd(fin)) /\ ghosts' = ghosts
                 /\ members' = members \ {srv.nick} /\ ops' = ops \ {srv.nick}
         /\ UNCHANGED <<win, driver, syn>>

GhostQuits == /\ \E g \in ghosts :
                   /\ ghosts' = ghosts \ {g} /\ members' = members \ {g} /\ ops' = ops \ {g}
                   /\ IF g \in members THEN Tell(Named("QUIT", g)) ELSE toClient' = toClient
              /\ UNCHANGED <<win, driver, syn, toServer, srv, events>>

Next == \/ Idle \/ Receive \/ Enter \/ Say \/ Back \/ Leave
        \/ (\E ok \in BOOLEAN : Accept(ok)) \/ SynLost \/ Handle \/ Other \/ Forced \/ Break \/ GhostQuits

-----------------------------------------------------------------------------
\* The server has closed the connection with a last line, and the window takes it for one
\* that is up: it shows no end of it and makes no other.
Stranded == win.sock = "CLOSE_WAIT" /\ win.connected /\ ~srv.up

\* Nothing is on its way to a window whose user is in the channel.
Quiet == win.sock = "ESTABLISHED" /\ srv.in /\ toClient = <<>>
Listed == {win.users[i].nick : i \in 1 .. Len(win.users)}

\* Who has left, or had another nick, or was there before a reconnection, is not listed.
ListedAreThere == Quiet => Listed \subseteq members

\* Everyone in the channel is listed, while the list has room.
EveryoneListed == Quiet /\ Cardinality(members) <= MaxUsers => {Kept(n) : n \in members} \subseteq Listed

\* Ops first, each part in order, nobody twice, after any joins, parts and renames.
ListSorted == \A i, j \in 1 .. Len(win.users) :
                 LET a == win.users[i]  b == win.users[j]
                 IN i < j => (b.op => a.op) /\ (a.op = b.op => a.nick < b.nick) /\ a.nick # b.nick

\* The nick the window says it has is the one the server knows it by.
NickTrue == Quiet => win.nick = srv.nick
=============================================================================
