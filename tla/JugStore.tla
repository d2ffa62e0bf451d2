------------------------------ MODULE JugStore ------------------------------
(***************************************************************************)
(* Installing a download, cpp/jug/store.cpp: install(), uninstall(),        *)
(* replaceFile() and the registry, for one program, with one or more jugs   *)
(* (the window, the console) on the same RAM disk.                          *)
(*                                                                         *)
(* A file is absent (None) or a sequence of Chunks pieces, each of one      *)
(* version of the program or not written (0).  Every operation on the disk  *)
(* is a step and may fail, and a jug may be killed between any two.         *)
(***************************************************************************)
EXTENDS Integers

CONSTANTS Jugs,       \* the instances of jug
          Versions,   \* builds of the program the list has had, 1 ..
          Chunks,     \* writes a build takes
          MaxFaults   \* bound on failures and kills

None == <<>>

VARIABLES disk,     \* the files path, staged and backup
          reg,      \* JUG.REG on the disk: the version it vouches for, or 0
          jug,      \* per instance: step, version, done, older, its registry, its message
          faults,   \* failures and kills so far
          have      \* history: a download was put in place and not removed since

vars == <<disk, reg, jug, faults, have>>

Contents == [1 .. Chunks -> Versions \cup {0}]
Build(v) == [c \in 1 .. Chunks |-> v]
Whole(f) == \E v \in Versions : f = Build(v)
Exists(name) == disk[name] # None

Idle == [step |-> "idle", v |-> 0, done |-> 0, older |-> FALSE, was |-> None, mem |-> 0, says |-> "", hurt |-> FALSE]

Init == /\ disk = [name \in {"path", "staged", "backup"} |-> None]
        /\ reg = 0
        /\ jug = [j \in Jugs |-> Idle]
        /\ faults = 0 /\ have = FALSE

-----------------------------------------------------------------------------
(* The file system.                                                         *)

Removed(name) == [disk EXCEPT ![name] = None]
Renamed(from, to) == [disk EXCEPT ![from] = None, ![to] = disk[from]]

\* Nothing is renamed over a file that exists.
CanRename(from, to) == Exists(from) /\ ~Exists(to)

\* write_at() of one piece; the first one is of a new file, since replaceFile()
\* removes an older one.
Put(name, v, c) ==
    LET old == IF Exists(name) /\ c > 1 THEN disk[name] ELSE Build(0)
    IN  [disk EXCEPT ![name] = [old EXCEPT ![c] = v]]

Goes(j, step) == jug' = [jug EXCEPT ![j].step = step]
Ends(j, says) == jug' = [jug EXCEPT ![j].step = "idle", ![j].says = says]

\* An operation that fails although nothing on the disk is against it.
Fault(j) == faults < MaxFaults /\ faults' = faults + 1
Broken(j, step) == jug' = [jug EXCEPT ![j].step = step, ![j].hurt = TRUE]

-----------------------------------------------------------------------------
(* install().                                                               *)

\* The list has v, and what was fetched has its size, its sum and is an ELF.
\* A staged file of an earlier attempt goes first.
Begin(j, v) ==
    /\ jug[j].step = "idle"
    /\ disk' = Removed("staged")
    /\ jug' = [jug EXCEPT ![j] = [Idle EXCEPT !.step = "write", !.v = v, !.mem = jug[j].mem,
                                              !.older = Exists("path"), !.was = disk["path"]]]
    /\ UNCHANGED <<reg, faults, have>>

\* Not clearable, or no room: nothing has been touched.
BeginFails(j) ==
    /\ jug[j].step = "idle" /\ Fault(j)
    /\ Ends(j, "refused")
    /\ UNCHANGED <<disk, reg, have>>

Unwritten(j) == jug[j].done < Chunks

\* replaceFile() of the staged copy.
Write(j) ==
    /\ jug[j].step = "write" /\ Unwritten(j)
    /\ \/ disk' = Put("staged", jug[j].v, jug[j].done + 1) /\ UNCHANGED faults
       \/ disk' = Put("staged", 0, jug[j].done + 1) /\ Fault(j)     \* garbled on the way
    /\ jug' = [jug EXCEPT ![j].done = @ + 1, ![j].hurt = @ \/ faults' # faults]
    /\ UNCHANGED <<reg, have>>

WriteFails(j) ==
    /\ jug[j].step = "write" /\ Fault(j)
    /\ \E left \in {disk, Removed("staged")} : disk' = left
    /\ jug' = [jug EXCEPT ![j].step = "idle", ![j].says = "unchanged", ![j].hurt = TRUE]
    /\ UNCHANGED <<reg, have>>

\* Faulty variant: what was written is not read back.
ReadsBackNot(j) == TRUE

ReadsBack(j) == disk["staged"] = Build(jug[j].v)

Verify(j) ==
    /\ jug[j].step = "write" /\ jug[j].done = Chunks
    /\ IF ReadsBack(j)
       THEN Goes(j, IF jug[j].older THEN "clear" ELSE "publish") /\ UNCHANGED disk
       ELSE Ends(j, "unchanged") /\ disk' = Removed("staged")
    /\ UNCHANGED <<reg, faults, have>>

OldBackupGoes(j) == Removed("backup")

ClearBackup(j) ==
    /\ jug[j].step = "clear"
    /\ disk' = OldBackupGoes(j)
    /\ Goes(j, "keep")
    /\ UNCHANGED <<reg, faults, have>>

KeptAside == Renamed("path", "backup")

Keep(j) ==
    /\ jug[j].step = "keep"
    /\ IF CanRename("path", "backup")
       THEN disk' = KeptAside /\ Goes(j, "publish")
       ELSE disk' = Removed("staged") /\ Ends(j, "unchanged")
    /\ UNCHANGED <<reg, faults, have>>

KeepFails(j) ==
    /\ jug[j].step \in {"clear", "keep"} /\ Fault(j)
    /\ \E left \in {disk, Removed("staged")} : disk' = left
    /\ jug' = [jug EXCEPT ![j].step = "idle", ![j].says = "unchanged", ![j].hurt = TRUE]
    /\ UNCHANGED <<reg, have>>

Publish(j) ==
    /\ jug[j].step = "publish"
    /\ IF CanRename("staged", "path")
       THEN disk' = Renamed("staged", "path") /\ Goes(j, "tidy") /\ have' = TRUE
       ELSE Goes(j, "restore") /\ UNCHANGED <<disk, have>>
    /\ UNCHANGED <<reg, faults>>

PublishFails(j) ==
    /\ jug[j].step = "publish" /\ Fault(j)
    /\ Broken(j, "restore")
    /\ UNCHANGED <<disk, reg, have>>

Says(j, restored) == IF restored THEN "kept" ELSE "in .BAK"

\* The older copy goes back to its place, if it can, and the staged one goes.
Restore(j) ==
    /\ jug[j].step = "restore"
    /\ LET back == jug[j].older /\ CanRename("backup", "path")
       IN  \/ /\ disk' = [(IF back THEN Renamed("backup", "path") ELSE disk) EXCEPT !["staged"] = None]
             /\ Ends(j, Says(j, jug[j].older => back))
             /\ UNCHANGED faults
          \/ /\ back /\ Fault(j)
             /\ disk' = Removed("staged")
             /\ Ends(j, Says(j, FALSE))
    /\ UNCHANGED <<reg, have>>

\* The backup is not needed any more; whether it goes is not looked at.
Tidy(j) ==
    /\ jug[j].step = "tidy"
    /\ \/ disk' = (IF jug[j].older THEN Removed("backup") ELSE disk) /\ UNCHANGED faults
       \/ Fault(j) /\ UNCHANGED disk
    /\ jug' = [jug EXCEPT ![j].step = "erase", ![j].mem = jug[j].v, ![j].says = "installed"]
    /\ UNCHANGED <<reg, have>>

\* Registry::save(), replaceFile() of JUG.REG: the old one goes, the new one is
\* written; what fails is not looked at.
Erase(j) ==
    /\ jug[j].step = "erase"
    /\ \/ reg' = 0 /\ Goes(j, "record") /\ UNCHANGED faults
       \/ Fault(j) /\ Goes(j, "idle") /\ UNCHANGED reg
    /\ UNCHANGED <<disk, have>>

Record(j) ==
    /\ jug[j].step = "record"
    /\ \/ reg' = jug[j].mem /\ UNCHANGED faults
       \/ Fault(j) /\ UNCHANGED reg
    /\ Goes(j, "idle")
    /\ UNCHANGED <<disk, have>>

-----------------------------------------------------------------------------
\* uninstall(): the download goes, and its record with it.
Uninstall(j) ==
    /\ jug[j].step = "idle" /\ Exists("path")
    /\ disk' = Removed("path")
    /\ have' = FALSE
    /\ jug' = [jug EXCEPT ![j].step = "erase", ![j].mem = 0, ![j].says = "removed"]
    /\ UNCHANGED <<reg, faults>>

\* Registry::load() when a jug starts or sees that the disk has changed.
Load(j) ==
    /\ jug[j].step = "idle"
    /\ jug' = [jug EXCEPT ![j].mem = reg]
    /\ UNCHANGED <<disk, reg, faults, have>>

\* A jug is killed, and started again.
Killed(j) ==
    /\ jug[j].step # "idle" /\ Fault(j)
    /\ jug' = [jug EXCEPT ![j] = [Idle EXCEPT !.mem = reg]]
    /\ UNCHANGED <<disk, reg, have>>

Step(j) == \/ Write(j) \/ WriteFails(j) \/ Verify(j) \/ ClearBackup(j) \/ Keep(j) \/ KeepFails(j)
           \/ Publish(j) \/ PublishFails(j) \/ Restore(j) \/ Tidy(j) \/ Erase(j) \/ Record(j)

Next == \E j \in Jugs :
    \/ \E v \in Versions : Begin(j, v)
    \/ BeginFails(j) \/ Step(j) \/ Uninstall(j) \/ Load(j) \/ Killed(j)

Spec == Init /\ [][Next]_vars

-----------------------------------------------------------------------------
\* "What the next fg will load is what was checked": the file that runs is one
\* whole build, at every moment and however an install was cut short.
RunsWhatWasChecked == Exists("path") => Whole(disk["path"])

\* A download that was put in place is not lost by an update of it that fails or
\* is cut short: it, or what replaced it, is whole under one of its two names.
NeverLost == have => \E name \in {"path", "backup"} : Whole(disk[name])

\* What the user is told of a failed install is so: the older copy runs as before,
\* or it is in .BAK.
ToldTheTruth ==
    \A j \in Jugs : jug[j].step = "idle" =>
        /\ jug[j].says \in {"unchanged", "kept"} => disk["path"] = jug[j].was
        /\ jug[j].says = "in .BAK" => disk["backup"] = jug[j].was /\ Whole(jug[j].was)

\* What failed or killed attempts have left behind never makes a later one fail.
LeftoversHarmless ==
    \A j \in Jugs : jug[j].says \in {"unchanged", "kept", "in .BAK"} => jug[j].hurt

\* All of it, for an instance that has the disk to itself.
InstallSafe == RunsWhatWasChecked /\ NeverLost /\ ToldTheTruth /\ LeftoversHarmless
=============================================================================
