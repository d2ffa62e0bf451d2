------------------------------ MODULE JugWindow ------------------------------
(***************************************************************************)
(* The Jug window, cpp/jug/window.cpp, over the Model of store.cpp, with a  *)
(* user at the keys, the server's list changing, and the console's jug      *)
(* changing /mnt/tmp/jug.  install() and uninstall() are single steps here  *)
(* (JugStore has their own); versions of a program stand for its sums, all  *)
(* of one size, so a change shows in the stamp only through the registry.   *)
(***************************************************************************)
EXTENDS Integers

CONSTANTS Names,        \* the programs, as numbers: the order of the rows
          Memento,      \* the one of them that is the desktop
          MaxVersion    \* bound on the builds of a program

NoList == [p \in Names |-> 0]
Unread == [p \in Names |-> 0]

VARIABLES server,    \* the list on the server: the build of each program
          file,      \* /mnt/tmp/jug: the build downloaded, 0 for none
          reg,       \* JUG.REG on the disk
          model,     \* catalog, registry, dirty; here: the files as last scanned; sum: as hashed, 0 not yet
          job,       \* what, checking, current, data: the build on its way
          queue,     \* what getAll() found and is not fetched yet: names in the order of the rows
          confirm, mementoUpdated, restamp, diskSeen, due

vars == <<server, file, reg, model, job, queue, confirm, mementoUpdated, restamp, diskSeen, due>>
disk == <<file, reg>>
asks == <<confirm, mementoUpdated>>

NoJob == [what |-> "NO_JOB", checking |-> FALSE, current |-> 0, data |-> 0]
Busy == job.what # "NO_JOB"
NoQuestion == 0

-----------------------------------------------------------------------------
(* The model of store.cpp.                                                  *)

\* downloads_stamp(): the names here and what the registry knows of them.
Stamp == [p \in Names |-> IF file[p] = 0 THEN -1 ELSE reg[p]]

\* rescan(), rebuild(): downloads are hashed again whatever the registry says.
Rescanned(m) == [m EXCEPT !.here = file', !.sum = Unread]

\* judge().
State(p) == IF model.catalog[p] = 0 THEN "Gone"
            ELSE IF model.here[p] = 0 THEN "Available"
            ELSE IF model.sum[p] = 0 THEN "Unknown"
            ELSE IF model.sum[p] = model.catalog[p] THEN "Current" ELSE "Outdated"

Rows(s) == {p \in Names : State(p) = s}

\* The first in the order of the rows.
FirstRow(S) == CHOOSE p \in S : \A q \in S : p <= q

\* local_digest() of the next row not read; the file may have gone since the scan.
HashNext ==
    LET p == FirstRow(Rows("Unknown")) IN
    /\ Rows("Unknown") # {}
    /\ model' = IF file[p] # 0
                THEN [model EXCEPT !.sum[p] = file[p], !.registry[p] = file[p], !.dirty = TRUE]
                ELSE [model EXCEPT !.here[p] = 0]                      \* unreadable
    /\ UNCHANGED <<server, file, reg, job, queue, asks, restamp, diskSeen, due>>

\* Registry::save() once all rows are read.
HashSaves ==
    /\ Rows("Unknown") = {} /\ model.dirty
    /\ reg' = model.registry
    /\ model' = [model EXCEPT !.dirty = FALSE]

-----------------------------------------------------------------------------
(* Jobs.                                                                    *)

StartList(automatic) == /\ job' = [NoJob EXCEPT !.what = "LIST", !.checking = automatic]
                        /\ queue' = {}

\* startProgram(), and nextInQueue() over names: the first that is still on the list is
\* fetched, and those before it are dropped.
Fetching(names) ==
    LET listed == {p \in names : model'.catalog[p] # 0}
        next == FirstRow(listed)
    IN  IF listed = {} THEN job' = NoJob /\ queue' = {}
        ELSE /\ job' = [NoJob EXCEPT !.what = "PROGRAM", !.current = next, !.data = server[next]]
             /\ queue' = {p \in names : p > next}

\* yieldCheck(): only a check nobody asked for gives way; it is due again at once.
Yields == job.what = "LIST" /\ job.checking

Get(p) ==
    /\ confirm' = NoQuestion
    /\ due' = (due \/ Yields)
    /\ IF Busy /\ ~Yields THEN UNCHANGED <<job, queue, model>>
       ELSE /\ UNCHANGED model
            /\ IF model.catalog[p] # 0 /\ State(p) # "Current" THEN Fetching({p})
               ELSE job' = NoJob /\ UNCHANGED queue
    /\ UNCHANGED <<server, disk, mementoUpdated, restamp, diskSeen>>

GetAll ==
    /\ confirm' = NoQuestion
    /\ due' = (due \/ Yields)
    /\ IF Busy /\ ~Yields THEN UNCHANGED <<job, queue, model>>
       ELSE /\ UNCHANGED model
            /\ IF Rows("Unknown") = {} THEN Fetching(Rows("Outdated"))
               ELSE job' = NoJob /\ UNCHANGED queue
    /\ UNCHANGED <<server, disk, mementoUpdated, restamp, diskSeen>>

\* U: a list now, or the check under way becomes the user's own.
Update ==
    /\ confirm' = NoQuestion
    /\ IF ~Busy THEN StartList(FALSE)
       ELSE job' = (IF job.what = "LIST" THEN [job EXCEPT !.checking = FALSE] ELSE job) /\ UNCHANGED queue
    /\ UNCHANGED <<server, disk, model, mementoUpdated, restamp, diskSeen, due>>

StoppedQueue == {}

Escape ==
    /\ Busy /\ confirm = NoQuestion
    /\ job' = NoJob /\ queue' = StoppedQueue
    /\ due' = (due /\ job.what # "LIST")
    /\ UNCHANGED <<server, disk, model, asks, restamp, diskSeen>>

\* finishJob() for a list: a failed fetch changes nothing, and neither does the
\* same list again; a check's list is told only when it differs.
FinishList ==
    /\ job.what = "LIST"
    /\ job' = NoJob /\ due' = FALSE
    /\ \/ UNCHANGED <<model, restamp, confirm>>
       \/ /\ ~(job.checking /\ server = model.catalog)
          /\ model' = [model EXCEPT !.catalog = server, !.sum = Unread]
          /\ restamp' = TRUE /\ confirm' = NoQuestion
    /\ UNCHANGED <<server, disk, queue, mementoUpdated, diskSeen>>

\* Faulty variant: what came is not compared with the list.
IsListedAny(p) == TRUE

\* install() takes what came only if it is what the list has now.
IsListed(p) == job.data = model.catalog[p]

\* finishJob() for a program: install() if what came is what the list has now, the
\* next of the queue, and after the last the question about the desktop.
FinishProgram ==
    /\ job.what = "PROGRAM"
    /\ LET p == job.current
           updated == mementoUpdated \/ (p = Memento /\ file' # file)
       IN  /\ \/ UNCHANGED <<file, reg, model, restamp>>
              \/ /\ model.catalog[p] # 0 /\ IsListed(p)
                 /\ file' = [file EXCEPT ![p] = job.data]
                 /\ reg' = [model.registry EXCEPT ![p] = job.data]
                 /\ model' = Rescanned([model EXCEPT !.registry[p] = job.data])
                 /\ restamp' = TRUE
           /\ Fetching(queue)
           /\ mementoUpdated' = (updated /\ job'.what = "PROGRAM")
           /\ confirm' = IF updated /\ job' = NoJob THEN Memento ELSE confirm
    /\ UNCHANGED <<server, diskSeen, due>>

-----------------------------------------------------------------------------
(* The rest of onIdle(), when no job is under way and all rows are read.    *)

Read == ~Busy /\ Rows("Unknown") = {}

Restamp ==
    /\ Read /\ restamp
    /\ IF model.dirty THEN HashSaves ELSE UNCHANGED <<reg, model>>
    /\ restamp' = FALSE
    /\ diskSeen' = [p \in Names |-> IF file[p] = 0 THEN -1 ELSE reg'[p]]
    /\ UNCHANGED <<server, file, job, queue, asks, due>>

\* The look at /mnt/tmp/jug; not while a question is open.
LookAtDisk ==
    /\ Read /\ ~restamp /\ confirm = NoQuestion
    /\ Stamp # diskSeen
    /\ UNCHANGED disk
    /\ model' = [Rescanned(model) EXCEPT !.registry = reg, !.dirty = FALSE]
    /\ restamp' = TRUE
    /\ UNCHANGED <<server, job, queue, asks, diskSeen, due>>

\* The next check, unless a question is open.
Check ==
    /\ Read /\ due /\ confirm = NoQuestion
    /\ StartList(TRUE)
    /\ UNCHANGED <<server, disk, model, asks, restamp, diskSeen, due>>

ComesDue == /\ ~due /\ due' = TRUE
            /\ UNCHANGED <<server, disk, model, job, queue, asks, restamp, diskSeen>>

-----------------------------------------------------------------------------
(* Restart and removal.                                                     *)

Ask(p) == /\ confirm' = p
          /\ UNCHANGED <<server, disk, model, job, queue, mementoUpdated, restamp, diskSeen, due>>

\* Y restarts the program asked about, any other key does not.
Answer == /\ confirm # NoQuestion /\ confirm' = NoQuestion
          /\ UNCHANGED <<server, disk, model, job, queue, mementoUpdated, restamp, diskSeen, due>>

RemoveDownload(p) ==
    /\ confirm' = NoQuestion
    /\ file[p] # 0
    /\ file' = [file EXCEPT ![p] = 0]
    /\ reg' = [model.registry EXCEPT ![p] = 0]
    /\ model' = Rescanned([model EXCEPT !.registry[p] = 0])
    /\ restamp' = TRUE
    /\ UNCHANGED <<server, job, queue, mementoUpdated, diskSeen, due>>

-----------------------------------------------------------------------------
(* Everybody else.                                                          *)

\* The console's jug installs the server's build, and records it.
Console(p) ==
    /\ server[p] # 0 /\ file[p] # server[p]
    /\ file' = [file EXCEPT ![p] = server[p]]
    /\ reg' = [reg EXCEPT ![p] = server[p]]
    /\ UNCHANGED <<server, model, job, queue, asks, restamp, diskSeen, due>>

Released(p) ==
    /\ server[p] < MaxVersion
    /\ server' = [server EXCEPT ![p] = @ + 1]
    /\ UNCHANGED <<disk, model, job, queue, asks, restamp, diskSeen, due>>

Init ==
    /\ server = [p \in Names |-> 1]
    /\ file \in [Names -> {0, 1}] /\ reg = file
    /\ model = [catalog |-> NoList, registry |-> reg, here |-> file, sum |-> Unread, dirty |-> FALSE]
    /\ job = [NoJob EXCEPT !.what = "LIST"] /\ queue = {}
    /\ confirm = NoQuestion /\ mementoUpdated = FALSE
    /\ restamp = TRUE /\ diskSeen = NoList /\ due = FALSE

Idle == FinishList \/ FinishProgram \/ (~Busy /\ HashNext) \/ Restamp \/ LookAtDisk \/ Check

User == \/ \E p \in Names : Get(p) \/ Ask(p) \/ RemoveDownload(p)
        \/ GetAll \/ Update \/ Escape \/ Answer

Others == ComesDue \/ \E p \in Names : Console(p) \/ Released(p)

Next == Idle \/ User \/ Others

-----------------------------------------------------------------------------
\* What is queued is being worked on: no program waits behind a job that was
\* stopped, and no list is fetched over it.
QueueIsWorkedOn == queue # {} => job.what = "PROGRAM"

\* A user's job is never stopped by a key for another one, or by a check: only its
\* own end and Escape take it away.
UsersJobStands ==
    Busy /\ ~job.checking /\ job' # job => Escape \/ FinishList \/ FinishProgram

\* The window never installs a build other than the one its list has.
InstallsTheListed == \A p \in Names : file'[p] # file[p] /\ ~Console(p) => file'[p] \in {0, model.catalog[p]}
=============================================================================
