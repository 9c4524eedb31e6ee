----------------------------- MODULE PrivateFile -----------------------------
(***************************************************************************)
(* util.WritePrivateFile (internal/util/atomic.go): concurrent calls, of   *)
(* one process or of several, that replace one path in one directory by    *)
(* way of a temporary file.  config.yaml, every cached source and both     *)
(* metadata files are written this way.                                    *)
(*                                                                         *)
(* The directory maps names to files.  A file is named by the call that    *)
(* created it, so it also stands for the payload that call writes.  The    *)
(* kernel's view (entry, data) is what processes see; the disk's view      *)
(* (diskEntry, diskData) is what a power loss leaves.  fsync copies the    *)
(* one to the other, and the kernel may do so by itself at any time.       *)
(* Of other programs only one act is modelled: a symbolic link put at the  *)
(* path while calls are running.                                           *)
(***************************************************************************)
EXTENDS Naturals

CONSTANTS
    Calls,      \* calls of WritePrivateFile, each made at most once
    TempNames,  \* the names os.CreateTemp may draw for ".mcb-*"
    Dest,       \* the path being written
    Old,        \* what the path held before: a complete file, or nothing
    Link,       \* a symbolic link
    Absent,     \* no entry
    NoName      \* a call that has drawn no temporary name

ASSUME DistinctNames ==
    /\ Dest \notin TempNames /\ NoName \notin TempNames
    /\ {Old, Link, Absent} \cap Calls = {}
    /\ Old # Link /\ Old # Absent /\ Link # Absent

VARIABLES
    pc,         \* where each call is
    tmp,        \* tmp[c]: the temporary name drawn by c
    entry,      \* the directory as processes see it
    data,       \* data[c]: how much of its payload c has written
    diskEntry,  \* the directory as it is on disk
    diskData,   \* data as it is on disk
    stamp,      \* history: the order in which Dest was replaced, 0 for never
    blind       \* history: calls bound to rename whose check for a link could
                \* not see it: it failed, or was over when the link was put there

vars == <<pc, tmp, entry, data, diskEntry, diskData, stamp, blind>>

Names  == TempNames \union {Dest}
Amount == {"none", "part", "whole"}
Running == {"create", "write", "sync", "rename", "dirsync", "removeOk", "removeErr"}
Checked == {"create", "write", "sync", "rename"}   \* the rename to come
Locations == {"idle", "ok", "failed", "littered", "killed"} \union Running

(* The position of a file among those that replaced Dest. *)
Stamp(e) == IF e \in Calls \union {Link} THEN stamp[e] ELSE 0

TypeOK ==
    /\ pc \in [Calls -> Locations]
    /\ tmp \in [Calls -> TempNames \union {NoName}]
    /\ entry \in [Names -> Calls \union {Old, Link, Absent}]
    /\ data \in [Calls -> Amount]
    /\ diskEntry \in [Names -> Calls \union {Old, Link, Absent}]
    /\ diskData \in [Calls -> Amount]
    /\ stamp \in [Calls \union {Link} -> Nat]
    /\ blind \subseteq Calls

Init ==
    /\ pc = [c \in Calls |-> "idle"]
    /\ tmp = [c \in Calls |-> NoName]
    /\ \E d \in {Old, Link} :
           entry = [n \in Names |-> IF n = Dest THEN d ELSE Absent]
    /\ data = [c \in Calls |-> "none"]
    /\ diskEntry = entry
    /\ diskData = data
    /\ stamp = [e \in Calls \union {Link} |-> 0]
    /\ blind = {}

Goto(c, l) ==
    /\ pc' = [pc EXCEPT ![c] = l]
    /\ blind' = IF l \in Checked THEN blind ELSE blind \ {c}

-----------------------------------------------------------------------------
(* Mistakes that one could make in the actions below, for mutation checks.  *)

(* os.Stat instead of os.Lstat *)
StatOnly(c) ==
    /\ pc[c] = "idle"
    /\ Goto(c, "create")
    /\ UNCHANGED <<tmp, entry, data, diskEntry, diskData, stamp>>

(* the path itself is opened for writing *)
OpenInPlace(c) ==
    /\ pc[c] = "create"
    /\ entry' = [entry EXCEPT ![Dest] = c]
    /\ tmp' = [tmp EXCEPT ![c] = Dest]
    /\ Goto(c, "write")
    /\ UNCHANGED <<data, diskEntry, diskData, stamp>>

(* the deferred removal is registered only after the write *)
DeferLate(c) ==
    /\ pc[c] = "write"
    /\ \/ data[c] = "none" /\ data' = [data EXCEPT ![c] = "part"] /\ UNCHANGED <<pc, blind>>
       \/ data[c] = "part" /\ data' = [data EXCEPT ![c] = "whole"] /\ Goto(c, "sync")
       \/ Goto(c, "failed") /\ data' = data
    /\ UNCHANGED <<tmp, entry, diskEntry, diskData, stamp>>

(* no f.Sync *)
CloseOnly(c) ==
    /\ pc[c] = "sync"
    /\ Goto(c, "rename") \/ Goto(c, "removeErr")
    /\ UNCHANGED <<tmp, entry, data, diskEntry, diskData, stamp>>

(* os.Link instead of os.Rename *)
LinkTemp(c) ==
    /\ pc[c] = "rename"
    /\ entry[tmp[c]] # Absent
    /\ entry' = [entry EXCEPT ![Dest] = entry[tmp[c]]]
    /\ stamp' = [stamp EXCEPT ![c] = Stamp(entry[Dest]) + 1]
    /\ Goto(c, "dirsync")
    /\ UNCHANGED <<tmp, data, diskEntry, diskData>>

(* no dir.Sync *)
NoSyncDir(c) ==
    /\ pc[c] = "dirsync"
    /\ Goto(c, "removeOk")
    /\ UNCHANGED <<tmp, entry, data, diskEntry, diskData, stamp>>

-----------------------------------------------------------------------------
(* os.Lstat: a symbolic link is refused.  A missing path is not an error,   *)
(* and neither is any other failure of Lstat: the call goes on unchecked.   *)
Lstat(c) ==
    /\ pc[c] = "idle"
    /\ \/ Goto(c, IF entry[Dest] = Link THEN "failed" ELSE "create")
       \/ pc' = [pc EXCEPT ![c] = "create"] /\ blind' = blind \union {c}
    /\ UNCHANGED <<tmp, entry, data, diskEntry, diskData, stamp>>

(* os.CreateTemp draws random names until one is free (O_EXCL).  That a name *)
(* freed by one call is drawn again by another that is still running takes   *)
(* the same 32 random bits twice: names are not drawn twice here.            *)
CreateTemp(c) ==
    /\ pc[c] = "create"
    /\ \/ \E n \in TempNames :
              /\ entry[n] = Absent
              /\ \A d \in Calls : tmp[d] # n
              /\ entry' = [entry EXCEPT ![n] = c]
              /\ tmp' = [tmp EXCEPT ![c] = n]
              /\ Goto(c, "write")
       \/ Goto(c, "failed") /\ UNCHANGED <<entry, tmp>>
    /\ UNCHANGED <<data, diskEntry, diskData, stamp>>

(* f.Write reaches the file piece by piece and may fail half-way. *)
Write(c) ==
    /\ pc[c] = "write"
    /\ \/ data[c] = "none" /\ data' = [data EXCEPT ![c] = "part"] /\ UNCHANGED <<pc, blind>>
       \/ data[c] = "part" /\ data' = [data EXCEPT ![c] = "whole"] /\ Goto(c, "sync")
       \/ Goto(c, "removeErr") /\ data' = data
    /\ UNCHANGED <<tmp, entry, diskEntry, diskData, stamp>>

(* f.Sync, then f.Close; either may fail. *)
SyncClose(c) ==
    /\ pc[c] = "sync"
    /\ \/ Goto(c, "rename") /\ diskData' = [diskData EXCEPT ![c] = data[c]]
       \/ Goto(c, "removeErr") /\ UNCHANGED diskData
    /\ UNCHANGED <<tmp, entry, data, diskEntry, stamp>>

(* os.Rename moves whatever the temporary name refers to by now. *)
Rename(c) ==
    /\ pc[c] = "rename"
    /\ \/ /\ entry[tmp[c]] # Absent
          /\ entry' = [entry EXCEPT ![Dest] = entry[tmp[c]], ![tmp[c]] = Absent]
          /\ stamp' = [stamp EXCEPT ![c] = Stamp(entry[Dest]) + 1]
          /\ Goto(c, "dirsync")
       \/ Goto(c, "removeErr") /\ UNCHANGED <<entry, stamp>>
    /\ UNCHANGED <<tmp, data, diskEntry, diskData>>

(* os.Open of the directory and dir.Sync.  A failure of either is returned *)
(* although Dest has been replaced.                                        *)
SyncDir(c) ==
    /\ pc[c] = "dirsync"
    /\ \/ Goto(c, "removeOk") /\ diskEntry' = entry
       \/ Goto(c, "removeErr") /\ UNCHANGED diskEntry
    /\ UNCHANGED <<tmp, entry, data, diskData, stamp>>

(* The deferred os.Remove(tmp) and the return.  The error of Remove is      *)
(* ignored: a call that failed then returns with its temporary file there.  *)
RemoveTemp(c) ==
    /\ pc[c] \in {"removeOk", "removeErr"}
    /\ \/ /\ entry' = [entry EXCEPT ![tmp[c]] = Absent]
          /\ Goto(c, IF pc[c] = "removeOk" THEN "ok" ELSE "failed")
       \/ /\ entry' = entry
          /\ Goto(c, IF pc[c] = "removeOk" THEN "ok" ELSE "littered")
    /\ UNCHANGED <<tmp, data, diskEntry, diskData, stamp>>

Call(c) == \/ Lstat(c) \/ CreateTemp(c) \/ Write(c) \/ SyncClose(c)
           \/ Rename(c) \/ SyncDir(c) \/ RemoveTemp(c)

-----------------------------------------------------------------------------
(* The process is killed: no deferred call runs. *)
Kill(c) ==
    /\ pc[c] \in Running
    /\ Goto(c, "killed")
    /\ UNCHANGED <<tmp, entry, data, diskEntry, diskData, stamp>>

(* The kernel writes a file back, or commits the directory. *)
FlushData(c) ==
    /\ diskData[c] # data[c]
    /\ diskData' = [diskData EXCEPT ![c] = data[c]]
    /\ UNCHANGED <<pc, tmp, entry, data, diskEntry, stamp, blind>>

FlushDir ==
    /\ diskEntry # entry
    /\ diskEntry' = entry
    /\ UNCHANGED <<pc, tmp, entry, data, diskData, stamp, blind>>

(* Everything that was not on disk is gone, with every running process. *)
PowerLoss ==
    /\ entry' = diskEntry
    /\ data' = diskData
    /\ blind' = {}
    /\ pc' = [c \in Calls |-> IF pc[c] \in Running THEN "killed" ELSE pc[c]]
    /\ stamp' = [e \in Calls \union {Link} |->
                   IF stamp[e] > Stamp(diskEntry[Dest]) THEN 0 ELSE stamp[e]]
    /\ UNCHANGED <<tmp, diskEntry, diskData>>

(* Another program puts a symbolic link at the path; the calls between      *)
(* their check and their rename do not notice.                              *)
PlaceLink ==
    /\ Link \notin {entry[Dest], diskEntry[Dest]}
    /\ entry' = [entry EXCEPT ![Dest] = Link]
    /\ stamp' = [stamp EXCEPT ![Link] = Stamp(entry[Dest]) + 1]
    /\ blind' = blind \union {c \in Calls : pc[c] \in Checked}
    /\ UNCHANGED <<pc, tmp, data, diskEntry, diskData>>

Next ==
    \/ \E c \in Calls : Call(c) \/ Kill(c) \/ FlushData(c)
    \/ FlushDir
    \/ PowerLoss
    \/ PlaceLink

Spec == Init /\ [][Next]_vars

-----------------------------------------------------------------------------
(* A reader of the path never finds a file that is still being written,     *)
(* whatever calls interleave and whichever of them fail or are killed.      *)
DestComplete == entry[Dest] \in Calls => data[entry[Dest]] = "whole"

(* After a power loss at any instant the path holds a complete file: the    *)
(* fsync of the file precedes the rename that makes it reachable.           *)
DiskComplete == diskEntry[Dest] \in Calls => diskData[diskEntry[Dest]] = "whole"

(* A call that returned nil is on disk for good: what a power loss leaves   *)
(* at the path is its file or the file of a call that replaced it later.    *)
AckedDurable ==
    \A c \in Calls : pc[c] = "ok" =>
        /\ stamp[c] > 0
        /\ Stamp(diskEntry[Dest]) >= stamp[c]

(* A call that returned nil leaves no temporary file, and no power loss     *)
(* brings one back: subscription credentials do not pile up in ".mcb-*".    *)
NoLitter ==
    \A c \in Calls : pc[c] = "ok" =>
        \A n \in TempNames : entry[n] # c /\ diskEntry[n] # c

(* A call that fails takes its temporary file with it, wherever it fails,   *)
(* unless removing the file fails as well.  A killed call leaves its file.  *)
Cleanup ==
    [][\A c \in Calls : pc[c] # "failed" /\ pc'[c] = "failed" =>
           \A n \in TempNames : entry'[n] # c]_vars

(* A symbolic link at the path is replaced only by a call that did not see  *)
(* it: whose Lstat failed, or was over before the link was put there.       *)
LinkKept ==
    [][\A c \in Calls :
           entry[Dest] = Link /\ entry'[Dest] = c /\ pc'[c] \in Running =>
               c \in blind]_vars

-----------------------------------------------------------------------------
(* The register that the calls implement.  A torn file would not be in its  *)
(* type, so the mapping makes one visible as a value of its own.  That a    *)
(* link is refused is no part of the register: it rests on Lstat, whose     *)
(* answer may fail to come and is not atomic with the rename (LinkKept).    *)
Visible(e, d) == IF e \in Calls /\ d[e] # "whole" THEN "torn" ELSE e

Register == INSTANCE DurableRegister WITH
    Origin   <- {Old, Link},
    value    <- Visible(entry[Dest], data),
    stable   <- Visible(diskEntry[Dest], diskData),
    volatile <- {c \in Calls : stamp[c] > Stamp(diskEntry[Dest])},
    settled  <- {c \in Calls : stamp[c] > 0 /\ stamp[c] <= Stamp(diskEntry[Dest])},
    acked    <- {c \in Calls : pc[c] = "ok"}

(* WritePrivateFile implements the durable register.                        *)
ImplementsRegister == Register!Spec
==============================================================================
