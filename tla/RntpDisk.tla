------------------------------ MODULE RntpDisk ------------------------------
(***************************************************************************)
(* What the RNTP export promises to the machines that share it, with none   *)
(* of the bookkeeping that c/rntp/sessions.c uses to keep the promise.      *)
(*                                                                          *)
(* There is one disk.  Its members are attached either exclusively (the     *)
(* legacy, single-client protocol) or shared.  A shared member works in a   *)
(* transaction: it becomes the holder, edits a private draft, and either    *)
(* publishes the whole draft or drops the whole of it, whatever way its     *)
(* connection ends.                                                         *)
(***************************************************************************)
EXTENDS Integers

CONSTANTS Peers,     \* connection slots of the server
          None,      \* no peer
          LBA,       \* sector numbers
          Data       \* sector contents

VARIABLES disk,      \* the published contents
          draft,     \* the contents the holder sees and edits
          holder,    \* the member inside a transaction, or None
          members    \* how each slot is attached

diskVars == <<disk, draft, holder, members>>

Idle == holder = None

Init ==
    /\ disk \in [LBA -> Data]
    /\ draft = disk
    /\ holder = None
    /\ members = [p \in Peers |-> "none"]

\* A member attaches: exclusively to a disk nobody uses, or shared to a disk
\* that no exclusive member uses.
Attach(p) ==
    /\ members[p] = "none"
    /\ \E mode \in {"legacy", "shared"} :
        /\ \A q \in Peers : members[q] # "none" => mode = "shared" /\ members[q] = "shared"
        /\ members' = [members EXCEPT ![p] = mode]
    /\ UNCHANGED <<disk, draft, holder>>

Begin(p) ==
    /\ Idle
    /\ members[p] = "shared"
    /\ holder' = p
    /\ UNCHANGED <<disk, draft, members>>

\* The holder edits its draft; sector 0, whose geometry every mount relies on,
\* is out of reach.
Edit(p) ==
    /\ holder = p
    /\ draft' \in [LBA -> Data]
    /\ draft'[0] = draft[0]
    /\ UNCHANGED <<disk, holder, members>>

Publish(p) ==
    /\ holder = p
    /\ disk' = draft
    /\ holder' = None
    /\ UNCHANGED <<draft, members>>

\* The transaction ends without a trace, on request or with its connection.
Discard(p) ==
    /\ holder = p
    /\ draft' = disk
    /\ holder' = None
    /\ \/ UNCHANGED members
       \/ members' = [members EXCEPT ![p] = "none"]
    /\ UNCHANGED disk

Detach(p) ==
    /\ holder # p
    /\ members' = [members EXCEPT ![p] = "none"]
    /\ UNCHANGED <<disk, draft, holder>>

\* The exclusive member writes through.
WriteThrough(p) ==
    /\ members[p] = "legacy"
    /\ disk' \in [LBA -> Data]
    /\ draft' = disk'
    /\ UNCHANGED <<holder, members>>

Next ==
    \E p \in Peers :
        \/ Attach(p) \/ Begin(p) \/ Edit(p) \/ Publish(p)
        \/ Discard(p) \/ Detach(p) \/ WriteThrough(p)

Spec == Init /\ [][Next]_diskVars
=============================================================================
