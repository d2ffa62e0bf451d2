------------------------------ MODULE WebPool ------------------------------
(***************************************************************************)
(* The connections and local ports of cpp/memento-hello/web/net_r2.cpp:     *)
(* allocConn(), allocPort(), freeConn(), connect() and close(), with the    *)
(* kernel's table of bound ports, which every process of the machine shares.*)
(***************************************************************************)
EXTENDS Integers, FiniteSets, FiniteSetsExt

CONSTANTS MaxConns,      \* MAX_CONNS
          PortCount,     \* PORT_COUNT
          KernelPorts,   \* entries of the kernel's table
          Loaders        \* those that hold connections

Slots == 0 .. MaxConns - 1
Ports == 0 .. PortCount - 1
NoPort == PortCount

VARIABLES pool,       \* conns_, per slot: state, failed, lport; boundPorts_; ports the kernel would not release
          nextPort,   \* nextPort_
          driver,     \* driver_: this process drives the NIC and binds no ports
          others,     \* entries of the kernel's table other processes have
          held        \* per loader: its connection, or none

vars == <<pool, nextPort, driver, others, held>>

FreeSlot == [state |-> "FREE", failed |-> FALSE, lport |-> NoPort]
conns == pool.conns
Live(p) == {i \in Slots : p.conns[i].state # "FREE"}

Init == /\ pool = [conns |-> [i \in Slots |-> FreeSlot], bound |-> {}, stuck |-> {}]
        /\ nextPort \in Ports /\ driver \in BOOLEAN
        /\ others = 0 /\ held = [l \in Loaders |-> MaxConns]

-----------------------------------------------------------------------------
\* The kernel takes a port back.
Unbound(p, port) == p.bound \ {port}

\* freeConn() of slot i with that port: the binding goes with the connection, or
\* the kernel refuses to release it.
Freed(p, i, port) ==
    LET q == [p EXCEPT !.conns[i] = FreeSlot]
    IN  {[q EXCEPT !.bound = Unbound(p, port)]}
            \cup (IF port \in p.bound THEN {[q EXCEPT !.stuck = @ \cup {port}]} ELSE {})

\* Faulty variant: a connection whose loader still holds it gives way.
ClosingAny == {i \in Slots : conns[i].state \in {"FIN_WAIT", "CLOSE_WAIT"}}

\* Connections that only wait for the peer to finish.
Closing == {i \in Slots : conns[i].state = "FIN_WAIT"}

\* allocConn(): a free slot, or the first closing one, which is freed.
Slot == IF Live(pool) # Slots THEN Min(Slots \ Live(pool)) ELSE IF Closing # {} THEN Min(Closing) ELSE MaxConns

Vacated == IF Live(pool) # Slots THEN {pool} ELSE Freed(pool, Slot, conns[Slot].lport)

InUse(p, port) == \E i \in Live(p) : p.conns[i].lport = port

\* allocPort(): round robin from nextPort_ over the ports not in use, binding the
\* first that can be bound; ports of other processes take entries too.
PortAt(k) == (nextPort + k) % PortCount
Tries(p) == {k \in Ports : /\ ~InUse(p, PortAt(k))
                           /\ driver \/ PortAt(k) \in p.bound \/ Cardinality(p.bound) + others < KernelPorts}

\* A port that was bound still serves again.
Bound(p, port) == IF driver THEN p ELSE [p EXCEPT !.bound = @ \cup {port}, !.stuck = @ \ {port}]

\* connect() by l: a slot, a port, and memory, or nothing of it.
Connect(l) ==
    /\ held[l] = MaxConns /\ Slot \in Slots
    /\ \E p \in Vacated :
        IF Tries(p) = {} THEN pool' = p /\ UNCHANGED <<nextPort, held>>
        ELSE LET k    == Min(Tries(p))
                 port == PortAt(k)
             IN  /\ nextPort' = (nextPort + k + 1) % PortCount
                 /\ \/ /\ pool' = [Bound(p, port) EXCEPT !.conns[Slot] =
                                        [state |-> "SYN_SENT", failed |-> FALSE, lport |-> port]]
                       /\ held' = [held EXCEPT ![l] = Slot]
                    \/ pool' \in Freed(Bound(p, port), Slot, port) /\ UNCHANGED held
    /\ UNCHANGED <<driver, others>>

-----------------------------------------------------------------------------
(* What the connection does meanwhile.                                      *)

Moves(i, from, to) ==
    /\ conns[i].state = from /\ ~conns[i].failed
    /\ pool' = [pool EXCEPT !.conns[i].state = to]
    /\ UNCHANGED <<nextPort, driver, others, held>>

\* A reset, or no answer: a closing connection is gone, another has failed.
Fails(i) ==
    /\ conns[i].state # "FREE" /\ ~conns[i].failed
    /\ IF conns[i].state = "FIN_WAIT" THEN pool' \in Freed(pool, i, conns[i].lport)
       ELSE pool' = [pool EXCEPT !.conns[i].failed = TRUE]
    /\ UNCHANGED <<nextPort, driver, others, held>>

\* The peer has finished too, or FIN_WAIT_MS is over.
Finishes(i) ==
    /\ conns[i].state = "FIN_WAIT" /\ pool' \in Freed(pool, i, conns[i].lport)
    /\ UNCHANGED <<nextPort, driver, others, held>>

\* close() by the loader that holds it.
CloseBy(l) ==
    /\ held[l] \in Slots
    /\ IF conns[held[l]].failed \/ conns[held[l]].state = "SYN_SENT"
       THEN pool' \in Freed(pool, held[l], conns[held[l]].lport)
       ELSE pool' = [pool EXCEPT !.conns[held[l]].state = "FIN_WAIT"]
    /\ held' = [held EXCEPT ![l] = MaxConns]
    /\ UNCHANGED <<nextPort, driver, others>>

\* Another process binds a port or gives one back.
OthersBind == /\ others' \in {others - 1, others + 1} \cap Nat
              /\ Cardinality(pool.bound) + others' <= KernelPorts
              /\ UNCHANGED <<pool, nextPort, driver, held>>

Next == \/ \E l \in Loaders : Connect(l) \/ CloseBy(l)
        \/ \E i \in Slots : \/ Moves(i, "SYN_SENT", "ESTABLISHED") \/ Moves(i, "ESTABLISHED", "CLOSE_WAIT")
                            \/ Fails(i) \/ Finishes(i)
        \/ OthersBind

Spec == Init /\ [][Next]_vars

-----------------------------------------------------------------------------
\* A connection a loader holds is its own: it is not freed, evicted or given to
\* another before the loader closes it.
HandleIsOwn ==
    \A l \in Loaders : held[l] \in Slots =>
        /\ conns[held[l]].state \notin {"FREE", "FIN_WAIT"}
        /\ \A m \in Loaders \ {l} : held[m] # held[l]

\* No two connections share a local port, so a segment finds its own.
PortsDiffer == \A i, j \in Live(pool) : i # j => conns[i].lport # conns[j].lport

\* The kernel's entries are given back: this process has bound the ports of its
\* connections and those the kernel would not release, and no more.
NoLeak == pool.bound = (IF driver THEN {} ELSE {conns[i].lport : i \in Live(pool)}) \cup pool.stuck
=============================================================================
