-------------------------- MODULE PrivateFileProofs --------------------------
(***************************************************************************)
(* Proofs about PrivateFile for any number of calls and names.             *)
(***************************************************************************)
EXTENDS PrivateFile, TLAPS

(* Between CreateTemp and the return, a call knows the name it drew. *)
Drawn == \A c \in Calls :
             pc[c] \in Running \ {"create"} => tmp[c] \in TempNames

(* A temporary name refers to the file of the one call that drew it. *)
Owned ==
    /\ \A c \in Calls : pc[c] \in {"idle", "create"} => tmp[c] = NoName
    /\ \A c, d \in Calls : tmp[c] = tmp[d] /\ tmp[c] # NoName => c = d
    /\ \A n \in TempNames : entry[n] # Absent =>
           entry[n] \in Calls /\ tmp[entry[n]] = n
    /\ \A n \in TempNames : diskEntry[n] # Absent =>
           diskEntry[n] \in Calls /\ tmp[diskEntry[n]] = n

Early == {"idle", "create", "write", "sync", "rename"}

(* A file is complete in memory before it is closed, complete on disk before *)
(* it is renamed, and never written again.                                   *)
Written ==
    /\ \A c \in Calls : pc[c] = "sync" => data[c] = "whole"
    /\ \A c \in Calls : pc[c] \in {"rename", "dirsync", "removeOk", "ok"} =>
           data[c] = "whole" /\ diskData[c] = "whole"
    /\ \A e \in Calls : e \in {entry[Dest], diskEntry[Dest]} =>
           data[e] = "whole" /\ diskData[e] = "whole" /\ pc[e] \notin Early

(* The path holds the last file renamed onto it, the disk at least the last *)
(* one whose directory was synced.                                          *)
Ordered ==
    /\ \A e \in Calls \union {Link} : stamp[e] <= Stamp(entry[Dest])
    /\ \A c \in Calls : pc[c] \in Early => stamp[c] = 0
    /\ \A c \in Calls : pc[c] = "dirsync" => stamp[c] > 0
    /\ \A c \in Calls : pc[c] \in {"removeOk", "ok"} =>
           stamp[c] > 0 /\ stamp[c] <= Stamp(diskEntry[Dest])

(* Once its directory entry has moved to Dest, a temporary name is free. *)
Moved ==
    /\ \A c \in Calls : pc[c] \in {"dirsync", "removeOk", "ok"} =>
           \A n \in TempNames : entry[n] # c
    /\ \A c \in Calls : pc[c] \in {"removeOk", "ok"} =>
           \A n \in TempNames : diskEntry[n] # c

(* While a link is at the path, a call on its way to the rename is blind. *)
Linked == entry[Dest] = Link => \A c \in Calls : pc[c] \in Checked => c \in blind

IInv == TypeOK /\ Drawn /\ Owned /\ Written /\ Ordered /\ Moved /\ Linked

-----------------------------------------------------------------------------
(* Type correctness: every call of WritePrivateFile keeps the state well     *)
(* formed, and never renames or removes a name it did not draw.              *)
THEOREM Typing == Spec => [](TypeOK /\ Drawn)
<1>1. Init => TypeOK /\ Drawn
  BY DistinctNames DEF Init, TypeOK, Drawn, Names, Locations, Running, Amount
<1>2. TypeOK /\ Drawn /\ [Next]_vars => TypeOK' /\ Drawn'
  <2> SUFFICES ASSUME TypeOK, Drawn, [Next]_vars PROVE TypeOK' /\ Drawn'
    OBVIOUS
  <2> USE DEF TypeOK, Drawn, Names, Locations, Running, Checked, Amount, Goto
  <2>1. ASSUME NEW c \in Calls, Lstat(c) PROVE TypeOK' /\ Drawn'
    BY <2>1 DEF Lstat
  <2>2. ASSUME NEW c \in Calls, CreateTemp(c) PROVE TypeOK' /\ Drawn'
    BY <2>2 DEF CreateTemp
  <2>3. ASSUME NEW c \in Calls, Write(c) PROVE TypeOK' /\ Drawn'
    BY <2>3 DEF Write
  <2>4. ASSUME NEW c \in Calls, SyncClose(c) PROVE TypeOK' /\ Drawn'
    BY <2>4 DEF SyncClose
  <2>5. ASSUME NEW c \in Calls, Rename(c) PROVE TypeOK' /\ Drawn'
    BY <2>5 DEF Rename, Stamp
  <2>6. ASSUME NEW c \in Calls, SyncDir(c) PROVE TypeOK' /\ Drawn'
    BY <2>6 DEF SyncDir
  <2>7. ASSUME NEW c \in Calls, RemoveTemp(c) PROVE TypeOK' /\ Drawn'
    BY <2>7 DEF RemoveTemp
  <2>8. ASSUME NEW c \in Calls, Kill(c) PROVE TypeOK' /\ Drawn'
    BY <2>8 DEF Kill
  <2>9. ASSUME NEW c \in Calls, FlushData(c) PROVE TypeOK' /\ Drawn'
    BY <2>9 DEF FlushData
  <2>10. CASE FlushDir
    BY <2>10 DEF FlushDir
  <2>11. CASE PowerLoss
    BY <2>11 DEF PowerLoss, Stamp
  <2>12. CASE UNCHANGED vars
    BY <2>12 DEF vars
  <2>13. CASE PlaceLink
    BY <2>13 DEF PlaceLink, Stamp
  <2>14. QED
    BY <2>1, <2>2, <2>3, <2>4, <2>5, <2>6, <2>7, <2>8, <2>9, <2>10, <2>11, <2>12, <2>13
    DEF Next, Call
<1>3. QED
  BY <1>1, <1>2, PTL DEF Spec

-----------------------------------------------------------------------------
LEMMA InitIInv == Init => IInv
BY DistinctNames
DEF Init, IInv, TypeOK, Drawn, Owned, Written, Ordered, Moved, Linked, Stamp,
    Names, Locations, Running, Checked, Amount, Early

(* Without name reuse the file a call renames is its own, and complete. *)
LEMMA OwnFile ==
  ASSUME IInv, NEW c \in Calls, pc[c] = "rename", entry[tmp[c]] # Absent
  PROVE  /\ tmp[c] \in TempNames
         /\ entry[tmp[c]] = c
         /\ data[c] = "whole" /\ diskData[c] = "whole"
BY DistinctNames DEF IInv, TypeOK, Drawn, Owned, Written, Running

LEMMA StepIInv ==
  ASSUME IInv, TypeOK', Drawn', [Next]_vars PROVE IInv'
<1> USE DistinctNames DEF Names, Locations, Running, Checked, Amount, Goto, Early
<1>1. ASSUME NEW c \in Calls, Lstat(c) PROVE IInv'
  <2>1. Owned'
    BY <1>1 DEF Lstat, IInv, TypeOK, Owned
  <2>2. Written'
    BY <1>1 DEF Lstat, IInv, TypeOK, Written
  <2>3. Ordered'
    BY <1>1 DEF Lstat, IInv, TypeOK, Ordered, Stamp
  <2>4. Moved'
    BY <1>1 DEF Lstat, IInv, TypeOK, Moved
  <2>5. Linked'
    BY <1>1 DEF Lstat, IInv, TypeOK, Linked
  <2>6. QED
    BY <2>1, <2>2, <2>3, <2>4, <2>5 DEF IInv
<1>2. ASSUME NEW c \in Calls, CreateTemp(c) PROVE IInv'
  <2>1. Owned'
    BY <1>2 DEF CreateTemp, IInv, TypeOK, Owned
  <2>2. Written'
    BY <1>2 DEF CreateTemp, IInv, TypeOK, Written
  <2>3. Ordered'
    BY <1>2 DEF CreateTemp, IInv, TypeOK, Ordered, Stamp
  <2>4. Moved'
    BY <1>2 DEF CreateTemp, IInv, TypeOK, Moved
  <2>5. Linked'
    BY <1>2 DEF CreateTemp, IInv, TypeOK, Linked
  <2>6. QED
    BY <2>1, <2>2, <2>3, <2>4, <2>5 DEF IInv
<1>3. ASSUME NEW c \in Calls, Write(c) PROVE IInv'
  <2>1. Owned'
    BY <1>3 DEF Write, IInv, TypeOK, Owned
  <2>2. Written'
    BY <1>3 DEF Write, IInv, TypeOK, Written
  <2>3. Ordered'
    BY <1>3 DEF Write, IInv, TypeOK, Ordered, Stamp
  <2>4. Moved'
    BY <1>3 DEF Write, IInv, TypeOK, Moved
  <2>5. Linked'
    BY <1>3 DEF Write, IInv, TypeOK, Linked
  <2>6. QED
    BY <2>1, <2>2, <2>3, <2>4, <2>5 DEF IInv
<1>4. ASSUME NEW c \in Calls, SyncClose(c) PROVE IInv'
  <2>1. Owned'
    BY <1>4 DEF SyncClose, IInv, TypeOK, Owned
  <2>2. Written'
    BY <1>4 DEF SyncClose, IInv, TypeOK, Written
  <2>3. Ordered'
    BY <1>4 DEF SyncClose, IInv, TypeOK, Ordered, Stamp
  <2>4. Moved'
    BY <1>4 DEF SyncClose, IInv, TypeOK, Moved
  <2>5. Linked'
    BY <1>4 DEF SyncClose, IInv, TypeOK, Linked
  <2>6. QED
    BY <2>1, <2>2, <2>3, <2>4, <2>5 DEF IInv
<1>5. ASSUME NEW c \in Calls, Rename(c) PROVE IInv'
  <2>1. Owned'
    <3>1. CASE UNCHANGED entry
      BY <1>5, <3>1 DEF Rename, IInv, TypeOK, Owned
    <3>2. CASE entry[tmp[c]] # Absent
      <4>1. \A n \in TempNames : entry'[n] \in {entry[n], Absent}
        BY <1>5, <3>2, OwnFile DEF Rename, IInv, TypeOK
      <4>2. QED
        BY <1>5, <4>1 DEF Rename, IInv, TypeOK, Owned
    <3>3. QED
      BY <1>5, <3>1, <3>2 DEF Rename
  <2>2. Written'
    BY <1>5, OwnFile DEF Rename, IInv, TypeOK, Written, Drawn
  <2>3. Ordered'
    BY <1>5, OwnFile DEF Rename, IInv, TypeOK, Ordered, Stamp, Drawn
  <2>4. Moved'
    <3>1. CASE UNCHANGED entry /\ Goto(c, "removeErr")
      BY <1>5, <3>1 DEF Rename, IInv, TypeOK, Moved
    <3>2. CASE entry[tmp[c]] # Absent /\ Goto(c, "dirsync")
      <4>1. \A n \in TempNames : entry[n] = c => n = tmp[c]
        BY DEF IInv, Owned
      <4>2. entry'[tmp[c]] = Absent
        BY <1>5, <3>2, OwnFile DEF Rename, IInv, TypeOK
      <4>3. \A n \in TempNames : entry'[n] \in {entry[n], Absent}
        BY <1>5, <3>2, OwnFile DEF Rename, IInv, TypeOK
      <4>4. QED
        BY <1>5, <3>2, <4>1, <4>2, <4>3 DEF Rename, IInv, TypeOK, Moved
    <3>3. QED
      BY <1>5, <3>1, <3>2 DEF Rename
  <2>5. Linked'
    BY <1>5, OwnFile DEF Rename, IInv, TypeOK, Linked, Drawn
  <2>6. QED
    BY <2>1, <2>2, <2>3, <2>4, <2>5 DEF IInv
<1>6. ASSUME NEW c \in Calls, SyncDir(c) PROVE IInv'
  <2>1. Owned'
    BY <1>6 DEF SyncDir, IInv, TypeOK, Owned
  <2>2. Written'
    BY <1>6 DEF SyncDir, IInv, TypeOK, Written
  <2>3. Ordered'
    BY <1>6 DEF SyncDir, IInv, TypeOK, Ordered, Stamp
  <2>4. Moved'
    BY <1>6 DEF SyncDir, IInv, TypeOK, Moved
  <2>5. Linked'
    BY <1>6 DEF SyncDir, IInv, TypeOK, Linked
  <2>6. QED
    BY <2>1, <2>2, <2>3, <2>4, <2>5 DEF IInv
<1>7. ASSUME NEW c \in Calls, RemoveTemp(c) PROVE IInv'
  <2>1. Owned'
    BY <1>7 DEF RemoveTemp, IInv, TypeOK, Owned, Drawn
  <2>2. Written'
    BY <1>7 DEF RemoveTemp, IInv, TypeOK, Written, Drawn
  <2>3. Ordered'
    BY <1>7 DEF RemoveTemp, IInv, TypeOK, Ordered, Stamp, Drawn
  <2>4. Moved'
    BY <1>7 DEF RemoveTemp, IInv, TypeOK, Moved, Drawn
  <2>5. Linked'
    BY <1>7 DEF RemoveTemp, IInv, TypeOK, Linked, Drawn
  <2>6. QED
    BY <2>1, <2>2, <2>3, <2>4, <2>5 DEF IInv
<1>8. ASSUME NEW c \in Calls, Kill(c) PROVE IInv'
  <2>1. Owned'
    BY <1>8 DEF Kill, IInv, TypeOK, Owned
  <2>2. Written'
    BY <1>8 DEF Kill, IInv, TypeOK, Written
  <2>3. Ordered'
    BY <1>8 DEF Kill, IInv, TypeOK, Ordered, Stamp
  <2>4. Moved'
    BY <1>8 DEF Kill, IInv, TypeOK, Moved
  <2>5. Linked'
    BY <1>8 DEF Kill, IInv, TypeOK, Linked
  <2>6. QED
    BY <2>1, <2>2, <2>3, <2>4, <2>5 DEF IInv
<1>9. ASSUME NEW c \in Calls, FlushData(c) PROVE IInv'
  <2>1. Owned'
    BY <1>9 DEF FlushData, IInv, TypeOK, Owned
  <2>2. Written'
    BY <1>9 DEF FlushData, IInv, TypeOK, Written
  <2>3. Ordered'
    BY <1>9 DEF FlushData, IInv, TypeOK, Ordered, Stamp
  <2>4. Moved'
    BY <1>9 DEF FlushData, IInv, TypeOK, Moved
  <2>5. Linked'
    BY <1>9 DEF FlushData, IInv, TypeOK, Linked
  <2>6. QED
    BY <2>1, <2>2, <2>3, <2>4, <2>5 DEF IInv
<1>10. CASE FlushDir
  <2>1. Owned'
    BY <1>10 DEF FlushDir, IInv, TypeOK, Owned
  <2>2. Written'
    BY <1>10 DEF FlushDir, IInv, TypeOK, Written
  <2>3. Ordered'
    BY <1>10 DEF FlushDir, IInv, TypeOK, Ordered, Stamp
  <2>4. Moved'
    BY <1>10 DEF FlushDir, IInv, TypeOK, Moved
  <2>5. Linked'
    BY <1>10 DEF FlushDir, IInv, TypeOK, Linked
  <2>6. QED
    BY <2>1, <2>2, <2>3, <2>4, <2>5 DEF IInv
<1>11. CASE PowerLoss
  <2>1. Owned'
    BY <1>11 DEF PowerLoss, IInv, TypeOK, Owned
  <2>2. Written'
    BY <1>11 DEF PowerLoss, IInv, TypeOK, Written
  <2>3. Ordered'
    BY <1>11 DEF PowerLoss, IInv, TypeOK, Ordered, Stamp
  <2>4. Moved'
    BY <1>11 DEF PowerLoss, IInv, TypeOK, Moved
  <2>5. Linked'
    BY <1>11 DEF PowerLoss, IInv, TypeOK, Linked
  <2>6. QED
    BY <2>1, <2>2, <2>3, <2>4, <2>5 DEF IInv
<1>12. CASE UNCHANGED vars
  BY <1>12 DEF vars, IInv, TypeOK, Owned, Written, Ordered, Moved, Linked, Stamp
<1>13. CASE PlaceLink
  <2>1. Owned'
    BY <1>13 DEF PlaceLink, IInv, TypeOK, Owned
  <2>2. Written'
    BY <1>13 DEF PlaceLink, IInv, TypeOK, Written
  <2>3. Ordered'
    BY <1>13 DEF PlaceLink, IInv, TypeOK, Ordered, Stamp
  <2>4. Moved'
    BY <1>13 DEF PlaceLink, IInv, TypeOK, Moved
  <2>5. Linked'
    BY <1>13 DEF PlaceLink, IInv, TypeOK, Linked
  <2>6. QED
    BY <2>1, <2>2, <2>3, <2>4, <2>5 DEF IInv
<1>14. QED
  BY <1>1, <1>2, <1>3, <1>4, <1>5, <1>6, <1>7, <1>8, <1>9, <1>10, <1>11, <1>12, <1>13
  DEF Next, Call

LEMMA Inductive == Spec => []IInv
<1>1. IInv /\ (TypeOK /\ Drawn)' /\ [Next]_vars => IInv'
  BY StepIInv
<1>2. QED
  BY InitIInv, Typing, <1>1, PTL DEF Spec

-----------------------------------------------------------------------------
(* No reader ever finds a file that is still being written, however the      *)
(* calls interleave, fail, are killed or lose power.                         *)
THEOREM NeverTorn == Spec => []DestComplete
<1>1. IInv => DestComplete
  BY DEF IInv, Written, DestComplete
<1>2. QED
  BY <1>1, Inductive, PTL

(* A power loss never exposes an incomplete file at the path. *)
THEOREM NeverTornOnDisk == Spec => []DiskComplete
<1>1. IInv => DiskComplete
  BY DEF IInv, Written, DiskComplete
<1>2. QED
  BY <1>1, Inductive, PTL

(* A write that was reported successful survives every later power loss,     *)
(* unless a later write replaced it.                                         *)
THEOREM Durability == Spec => []AckedDurable
<1>1. IInv => AckedDurable
  BY DEF IInv, TypeOK, Ordered, AckedDurable, Stamp
<1>2. QED
  BY <1>1, Inductive, PTL

(* A write that was reported successful leaves no temporary file behind. *)
THEOREM Tidy == Spec => []NoLitter
<1>1. IInv => NoLitter
  BY DEF IInv, Moved, NoLitter
<1>2. QED
  BY <1>1, Inductive, PTL

(* A call that fails, at whichever system call, has removed its temporary    *)
(* file when it returns, unless the removal failed too.                      *)
THEOREM FailedTidy == Spec => Cleanup
<1> DEFINE Fails(c) == pc[c] # "failed" /\ pc'[c] = "failed"
<1>1. ASSUME IInv, Next, NEW c \in Calls, Fails(c), NEW n \in TempNames
      PROVE  entry'[n] # c
  <2> USE DistinctNames DEF Goto, Running, Names
  <2>1. CASE Lstat(c) \/ CreateTemp(c)
    <3>1. UNCHANGED entry /\ tmp[c] = NoName
      BY <1>1, <2>1 DEF Lstat, CreateTemp, IInv, TypeOK, Owned
    <3>2. QED
      BY <1>1, <3>1 DEF IInv, Owned
  <2>2. CASE RemoveTemp(c)
    <3>1. entry' = [entry EXCEPT ![tmp[c]] = Absent]
      BY <1>1, <2>2 DEF RemoveTemp, IInv, TypeOK
    <3>2. entry[n] = c => n = tmp[c]
      BY <1>1 DEF IInv, Owned
    <3>3. QED
      BY <1>1, <3>1, <3>2 DEF IInv, TypeOK
  <2>3. Lstat(c) \/ CreateTemp(c) \/ RemoveTemp(c)
    <3>1. ASSUME NEW d \in Calls, Call(d) \/ Kill(d) \/ FlushData(d)
          PROVE  d = c /\ (Lstat(c) \/ CreateTemp(c) \/ RemoveTemp(c))
      BY <1>1, <3>1
      DEF Call, Lstat, CreateTemp, Write, SyncClose, Rename, SyncDir, RemoveTemp,
          Kill, FlushData, IInv, TypeOK
    <3>2. ~FlushDir /\ ~PowerLoss /\ ~PlaceLink
      BY <1>1 DEF FlushDir, PowerLoss, PlaceLink, IInv, TypeOK
    <3>3. QED
      BY <1>1, <3>1, <3>2 DEF Next
  <2>4. QED
    BY <2>1, <2>2, <2>3
<1>2. IInv /\ [Next]_vars =>
        [\A c \in Calls : Fails(c) => \A n \in TempNames : entry'[n] # c]_vars
  BY <1>1
<1>3. QED
  BY <1>2, Inductive, PTL DEF Cleanup, Spec

(* A call that saw the link refuses it; one that replaces a link could not   *)
(* see it, for its check failed or was over before the link was there.       *)
THEOREM LinkSafety == Spec => LinkKept
<1> DEFINE Replaces(c) == entry[Dest] = Link /\ entry'[Dest] = c /\ pc'[c] \in Running
<1>1. ASSUME IInv, Next, NEW c \in Calls, Replaces(c) PROVE c \in blind
  <2> USE DistinctNames DEF Names
  <2>1. ~PowerLoss /\ ~FlushDir /\ ~PlaceLink
    BY <1>1 DEF PowerLoss, FlushDir, PlaceLink, IInv, TypeOK, Running
  <2>2. \A d \in Calls : ~(Kill(d) \/ FlushData(d) \/ Lstat(d) \/ CreateTemp(d) \/ Write(d)
                            \/ SyncClose(d) \/ SyncDir(d))
    BY <1>1 DEF Kill, FlushData, Lstat, CreateTemp, Write, SyncClose, SyncDir,
                IInv, TypeOK
  <2>3. \A d \in Calls : ~RemoveTemp(d)
    BY <1>1 DEF RemoveTemp, IInv, TypeOK, Drawn, Running
  <2>4. PICK d \in Calls : Rename(d)
    BY <1>1, <2>1, <2>2, <2>3 DEF Next, Call
  <2>5. entry[tmp[d]] # Absent /\ pc[d] = "rename"
    BY <1>1, <2>4 DEF Rename
  <2>6. d = c
    BY <1>1, <2>4, <2>5, OwnFile DEF Rename, IInv, TypeOK
  <2>7. QED
    BY <1>1, <2>5, <2>6 DEF IInv, Linked, Checked
<1>2. IInv /\ [Next]_vars => [\A c \in Calls : Replaces(c) => c \in blind]_vars
  BY <1>1
<1>3. QED
  BY <1>2, Inductive, PTL DEF LinkKept, Spec

-----------------------------------------------------------------------------
(* What readers see, now and after a power loss, under the invariant. *)
LEMMA Seen ==
  ASSUME IInv
  PROVE  /\ Visible(entry[Dest], data) = entry[Dest]
         /\ Visible(diskEntry[Dest], diskData) = diskEntry[Dest]
BY DEF IInv, TypeOK, Written, Visible

LEMMA SeenNext ==
  ASSUME IInv'
  PROVE  /\ Visible(entry[Dest], data)' = entry'[Dest]
         /\ Visible(diskEntry[Dest], diskData)' = diskEntry'[Dest]
BY DEF IInv, TypeOK, Written, Visible

(* Every step of the calls and of the kernel is a step of the register, or   *)
(* leaves it alone.                                                          *)
LEMMA StepRegister ==
  ASSUME IInv, IInv', [Next]_vars PROVE [Register!Next]_(Register!vars)
<1> USE Seen, SeenNext
<1> DEFINE quiet == UNCHANGED <<entry[Dest], diskEntry[Dest], stamp>>
           acks  == {c \in Calls : pc[c] = "ok"}
<1>1. ASSUME quiet, acks' = acks PROVE UNCHANGED Register!vars
  BY <1>1 DEF Register!vars, Stamp
<1>2. ASSUME NEW c \in Calls, Rename(c), ~quiet PROVE Register!Put(c)
  <2>1. /\ entry'[Dest] = c
        /\ stamp' = [stamp EXCEPT ![c] = Stamp(entry[Dest]) + 1]
        /\ stamp[c] = 0 /\ diskEntry[Dest] # c
        /\ UNCHANGED diskEntry
    BY <1>2, OwnFile, DistinctNames
    DEF Rename, IInv, TypeOK, Drawn, Ordered, Written, Early, Running, Names
  <2>2. Stamp(diskEntry[Dest])' = Stamp(diskEntry[Dest])
    BY <2>1 DEF IInv, TypeOK, Stamp
  <2>3. Stamp(diskEntry[Dest]) \in Nat /\ Stamp(diskEntry[Dest]) <= Stamp(entry[Dest])
    BY DEF IInv, TypeOK, Ordered, Stamp
  <2>4. stamp'[c] > Stamp(diskEntry[Dest]) /\ Stamp(entry[Dest]) \in Nat
    BY <2>1, <2>3 DEF IInv, TypeOK, Stamp
  <2>5. acks' = acks
    BY <1>2 DEF Rename, Goto, IInv, TypeOK
  <2>6. QED
    BY <2>1, <2>2, <2>3, <2>4, <2>5 DEF Register!Put, IInv, TypeOK
<1>3. ASSUME diskEntry' = entry, UNCHANGED <<entry, stamp>>, acks' = acks
      PROVE Register!Persist
  <2>1. Stamp(diskEntry[Dest])' = Stamp(entry[Dest])
    BY <1>3, DistinctNames DEF Stamp, Names
  <2>2. \A c \in Calls : stamp[c] \in Nat /\ stamp[c] <= Stamp(entry[Dest])
    BY DEF IInv, TypeOK, Ordered
  <2>3. Stamp(entry[Dest]) \in Nat /\ Stamp(diskEntry[Dest]) \in Nat
    BY DEF IInv, TypeOK, Stamp
  <2>4. QED
    BY <1>3, <2>1, <2>2, <2>3 DEF Register!Persist
<1>4. ASSUME NEW c \in Calls, RemoveTemp(c), pc[c] = "removeOk"
      PROVE Register!Ack(c)
  <2>1. quiet
    BY <1>4, DistinctNames DEF RemoveTemp, IInv, TypeOK, Drawn, Running, Names
  <2>2. acks' = acks \union {c}
    BY <1>4 DEF RemoveTemp, Goto, IInv, TypeOK
  <2>3. stamp[c] > 0 /\ stamp[c] <= Stamp(diskEntry[Dest])
    BY <1>4 DEF IInv, Ordered
  <2>4. QED
    BY <2>1, <2>2, <2>3 DEF Register!Ack, Stamp
<1>5. CASE PowerLoss
  <2>1. acks' = acks
    BY <1>5 DEF PowerLoss, IInv, TypeOK, Running
  <2>2. Stamp(diskEntry[Dest])' = Stamp(diskEntry[Dest]) /\ Stamp(diskEntry[Dest]) \in Nat
    BY <1>5 DEF PowerLoss, IInv, TypeOK, Stamp
  <2>3. \A c \in Calls : stamp'[c] = IF stamp[c] > Stamp(diskEntry[Dest]) THEN 0 ELSE stamp[c]
    BY <1>5 DEF PowerLoss
  <2>4. {c \in Calls : stamp[c] > Stamp(diskEntry[Dest])}' = {}
    BY <2>2, <2>3 DEF IInv, TypeOK
  <2>5. UNCHANGED {c \in Calls : stamp[c] > 0 /\ stamp[c] <= Stamp(diskEntry[Dest])}
    BY <2>2, <2>3 DEF IInv, TypeOK
  <2>6. UNCHANGED diskEntry /\ entry' = diskEntry
    BY <1>5 DEF PowerLoss
  <2>7. Register!PowerLoss
    BY <2>1, <2>4, <2>5, <2>6 DEF Register!PowerLoss
  <2>8. QED
    BY <2>7 DEF Register!Next
<1>6. ASSUME NEW c \in Calls, \/ Lstat(c) \/ CreateTemp(c) \/ Write(c)
                              \/ SyncClose(c) \/ Kill(c) \/ FlushData(c)
      PROVE  quiet /\ acks' = acks
  BY <1>6, DistinctNames
  DEF Lstat, CreateTemp, Write, SyncClose, Kill, FlushData, Goto, IInv, TypeOK,
      Names, Running
<1>7. ASSUME NEW c \in Calls, SyncDir(c)
      PROVE  acks' = acks /\ UNCHANGED <<entry, stamp>>
  BY <1>7 DEF SyncDir, Goto, IInv, TypeOK
<1>8. ASSUME NEW c \in Calls, RemoveTemp(c), pc[c] = "removeErr"
      PROVE  quiet /\ acks' = acks
  BY <1>8, DistinctNames DEF RemoveTemp, Goto, IInv, TypeOK, Drawn, Running, Names
<1>9. ASSUME NEW c \in Calls, Rename(c), quiet PROVE acks' = acks
  BY <1>9 DEF Rename, Goto, IInv, TypeOK
<1>10. ASSUME NEW c \in Calls, Call(c) PROVE [Register!Next]_(Register!vars)
  <2>1. CASE SyncDir(c)
    BY <1>1, <1>3, <1>7, <2>1 DEF SyncDir, Register!Next
  <2>2. CASE RemoveTemp(c)
    BY <1>1, <1>4, <1>8, <2>2 DEF RemoveTemp, Register!Next
  <2>3. CASE Rename(c)
    BY <1>1, <1>2, <1>9, <2>3 DEF Register!Next
  <2>4. QED
    BY <1>1, <1>6, <1>10, <2>1, <2>2, <2>3 DEF Call
<1>11. CASE FlushDir
  BY <1>3, <1>11 DEF FlushDir, Register!Next
<1>12. CASE UNCHANGED vars
  BY <1>1, <1>12 DEF vars
<1>13. CASE PlaceLink
  <2>1. acks' = acks /\ entry'[Dest] = Link /\ UNCHANGED diskEntry
    BY <1>13 DEF PlaceLink, IInv, TypeOK, Names
  <2>2. \A c \in Calls : stamp'[c] = stamp[c]
    BY <1>13, DistinctNames DEF PlaceLink, IInv, TypeOK
  <2>3. Stamp(diskEntry[Dest])' = Stamp(diskEntry[Dest])
    BY <1>13, <2>1, <2>2 DEF PlaceLink, Stamp
  <2>4. Register!Displace
    BY <2>1, <2>2, <2>3 DEF Register!Displace
  <2>5. QED
    BY <2>4 DEF Register!Next
<1>14. QED
  BY <1>1, <1>5, <1>6, <1>10, <1>11, <1>12, <1>13 DEF Next, Register!Next

(* WritePrivateFile implements the durable register: "commits complete       *)
(* output atomically", for any number of concurrent calls and failures.      *)
THEOREM Refinement == Spec => ImplementsRegister
<1>1. Init => Register!Init
  BY DistinctNames DEF Init, Register!Init, Visible, Names, Stamp
<1>2. IInv /\ IInv' /\ [Next]_vars => [Register!Next]_(Register!vars)
  BY StepRegister
<1>3. QED
  BY <1>1, <1>2, Inductive, PTL DEF Spec, ImplementsRegister, Register!Spec

==============================================================================
