--------------------------- MODULE CoreUnixProofs --------------------------
(***************************************************************************)
(* Proofs about LockFileNfs and Daemon, the two parts of core_unix whose   *)
(* processes meet in the file system, a pipe and their exit statuses: the  *)
(* two models have no variable in common.                                  *)
(***************************************************************************)
EXTENDS LockFileNfs, Daemon, TLAPS

-----------------------------------------------------------------------------
(***************************************************************************)
(* The lock of Lock_file_blocking.Nfs excludes, for any number of machines *)
(* with one program on each, whatever is killed and whichever call fails.  *)
(***************************************************************************)

(* A file at path that is not the lock has nothing in it. *)
FreshPath == path # NoFile /\ path # lock_path => content[path] = Empty

(* Where path has been removed, a file that is there again is another one. *)
PathGone == \A p \in Procs : pc[p] \in {"unlink_lock", "undo_lock"} => path # lock_path

(* What was read about this host is still what the lock file says. *)
ReadIsCurrent == \A p \in Procs :
    pc[p] = "decide" /\ info[p].host = HostOf[p] =>
        lock_path # NoFile /\ content[lock_path] = info[p]

(* What is removed is the file that was read, and no one has the lock. *)
RemovesStale == \A p \in Procs :
    pc[p] \in {"unlink", "unlink_lock"} =>
        /\ lock_path # NoFile /\ content[lock_path] = info[p]
        /\ info[p].host = HostOf[p]
        /\ \A q \in Procs : ~ Holds(q)

(* A process that unlocks has let go, a dead one has nothing, and one that
   has just linked did not have the lock before. *)
CallOK == \A p \in Procs :
    /\ pc[p] \in Unlocking /\ call[p] # "create" => ~ locked[p]
    /\ pc[p] = "dead" => ~ locked[p]
    /\ pc[p] \in Linked => ~ locked[p]

(* What is written does not go to a file at path that is not the lock. *)
WritesLock == \A p \in Procs :
    pc[p] \in Linked => fd[p] = lock_path \/ fd[p] # path

Safe == /\ Exclusion /\ LockIsOurs /\ FreshPath /\ PathGone
        /\ ReadIsCurrent /\ RemovesStale /\ CallOK /\ WritesLock

IInv == TypeOK /\ Safe

USE DEF Unlocking, Creating, Linked, Alive

LEMMA InfoType ==
    ASSUME TypeOK, NEW p \in Procs
    PROVE  Info(p) \in Infos /\ Info(p) # Empty /\ Info(p).host = HostOf[p]
  BY LockFileAssumption DEF TypeOK, Info, Infos, Hosts

LEMMA InitIInv == Init => IInv
  BY LockFileAssumption DEF Init, IInv, Safe, TypeOK, Exclusion, LockIsOurs, FreshPath, PathGone,
     ReadIsCurrent, RemovesStale, CallOK, WritesLock, Holds

(* What becomes of a process at the end of a call, or of its life. *)
Returned(p) ==
    /\ \E to \in {"dead", "idle"}, b \in BOOLEAN :
          /\ pc' = [pc EXCEPT ![p] = to]
          /\ locked' = [locked EXCEPT ![p] = b]
          /\ b => locked[p] /\ to # "dead"
    /\ call' = [call EXCEPT ![p] = "none"]
    /\ fd' = [fd EXCEPT ![p] = NoFile]
    /\ info' = [info EXCEPT ![p] = Empty]
    /\ at_exit' \in [Procs -> BOOLEAN]
    /\ UNCHANGED life

LEMMA ReturnIsReturned ==
    ASSUME TypeOK, NEW p \in Procs, pc[p] # "dead" \/ ~ locked[p],
           Return(p) \/ (End(p) /\ UNCHANGED life)
    PROVE  Returned(p)
  <1>1. CASE End(p) /\ UNCHANGED life
    BY <1>1 DEF End, Returned, TypeOK
  <1>2. CASE Return(p) /\ call[p] # "exit"
    BY <1>2, locked[p] \in BOOLEAN, locked = [locked EXCEPT ![p] = locked[p]]
       DEF Return, Returned, TypeOK, life
  <1> QED
    BY <1>1, <1>2 DEF Return

LEMMA ReturnedType ==
    ASSUME TypeOK, NEW p \in Procs, Returned(p),
           path' \in {path, NoFile}, lock_path' \in {lock_path, NoFile},
           content' \in [Inodes -> Infos \cup {Empty}], errors' \in 0 .. MaxErrors
    PROVE  TypeOK'
  BY LockFileAssumption DEF TypeOK, Returned, life

LEMMA TypeStep ==
    ASSUME TypeOK, [Next]_vars
    PROVE  TypeOK'
  <1> USE LockFileAssumption
  <1> USE DEF TypeOK, Goto
  <1>1. ASSUME NEW p \in Procs, Start(p) PROVE TypeOK'
    BY <1>1 DEF Start, files
  <1>2. ASSUME NEW p \in Procs, FileExists(p) PROVE TypeOK'
    BY <1>2, ReturnIsReturned, ReturnedType DEF FileExists, Unlocked, Local, files, life
  <1>3. ASSUME NEW p \in Procs, OfFile(p) PROVE TypeOK'
    BY <1>3, ReturnIsReturned, ReturnedType DEF OfFile, Local, files, life
  <1>4. ASSUME NEW p \in Procs, Decide(p) PROVE TypeOK'
    BY <1>4, ReturnIsReturned, ReturnedType DEF Decide, Local, files, life
  <1>5. ASSUME NEW p \in Procs, Unlink(p) PROVE TypeOK'
    BY <1>5 DEF Unlink, Local, life
  <1>6. ASSUME NEW p \in Procs, UnlinkLock(p) PROVE TypeOK'
    BY <1>6, ReturnIsReturned, ReturnedType DEF UnlinkLock, Unlocked, Local, life
  <1>7. ASSUME NEW p \in Procs, Openfile(p) PROVE TypeOK'
    BY <1>7 DEF Openfile, Local, life
  <1>8. ASSUME NEW p \in Procs, Link(p) PROVE TypeOK'
    BY <1>8, ReturnIsReturned, ReturnedType DEF Link, Local, life
  <1>9. ASSUME NEW p \in Procs, Ftruncate(p) PROVE TypeOK'
    BY <1>9 DEF Ftruncate, Local, life
  <1>10. ASSUME NEW p \in Procs, Fprintf(p) PROVE TypeOK'
    BY <1>10, InfoType DEF Fprintf, life
  <1>11. ASSUME NEW p \in Procs, Undo(p) PROVE TypeOK'
    BY <1>11, ReturnIsReturned, ReturnedType, InfoType DEF Undo, CloseOut, Local, life
  <1>12. ASSUME NEW p \in Procs, UndoLock(p) PROVE TypeOK'
    BY <1>12, ReturnIsReturned, ReturnedType, InfoType DEF UndoLock, CloseOut, life
  <1>13. ASSUME NEW p \in Procs, Error(p) PROVE TypeOK'
    BY <1>13, ReturnIsReturned, ReturnedType, InfoType DEF Error, CloseOut, Local, life
  <1>14. ASSUME NEW p \in Procs, Kill(p) \/ Quit(p) PROVE TypeOK'
    BY <1>14, ReturnIsReturned, ReturnedType DEF Kill, Quit, files
  <1>15. ASSUME NEW p \in Procs, NEW c \in {"create", "unlock", "exit"}, Call(p, c) PROVE TypeOK'
    BY <1>15 DEF Call, files, life
  <1>16. CASE UNCHANGED vars
    BY <1>16 DEF vars, files, life
  <1> QED
    BY <1>1, <1>2, <1>3, <1>4, <1>5, <1>6, <1>7, <1>8, <1>9, <1>10, <1>11, <1>12, <1>13, <1>14, <1>15, <1>16 DEF Next, Step

(* A step that ends a call, or a life, and leaves the files alone. *)
LEMMA ReturnedSafe ==
    ASSUME IInv, TypeOK', NEW p \in Procs, Returned(p), UNCHANGED files
    PROVE  Safe'
  <1>1. \A q \in Procs : (Holds(q))' => Holds(q)
    BY DEF Returned, Holds, IInv, TypeOK
  <1>2. \A q \in Procs : (Info(q))' = Info(q)
    BY DEF Returned, Info, life
  <1>3. \A q \in Procs : pc'[q] \notin {"dead", "idle"} =>
            pc'[q] = pc[q] /\ info'[q] = info[q] /\ fd'[q] = fd[q] /\ call'[q] = call[q] /\ locked'[q] = locked[q]
    BY DEF Returned, IInv, TypeOK
  <1>4. Exclusion' /\ LockIsOurs' /\ FreshPath'
    BY <1>1, <1>2 DEF IInv, Safe, Exclusion, LockIsOurs, FreshPath, files
  <1>5. PathGone' /\ ReadIsCurrent' /\ RemovesStale' /\ WritesLock'
    BY <1>1, <1>3 DEF IInv, Safe, PathGone, ReadIsCurrent, RemovesStale, WritesLock, files
  <1>6. CallOK'
    BY <1>3 DEF IInv, Safe, CallOK, Returned, TypeOK
  <1> QED
    BY <1>4, <1>5, <1>6 DEF Safe

LEMMA StartSafe ==
    ASSUME IInv, TypeOK', OneProgram, NEW p \in Procs, Start(p)
    PROVE  Safe'
  <1>1. Exclusion'
    BY DEF IInv, Safe, Start, Exclusion, Holds
  <1>2. LockIsOurs'
    BY DEF IInv, Safe, Start, files, Info, LockIsOurs, CallOK, Holds
  <1>3. FreshPath'
    BY DEF IInv, Safe, Start, files, FreshPath
  <1>4. PathGone'
    BY DEF IInv, Safe, Start, files, PathGone
  <1>5. ReadIsCurrent'
    BY DEF IInv, Safe, Start, files, ReadIsCurrent
  <1>6. RemovesStale'
    BY DEF IInv, Safe, Start, files, RemovesStale, Holds
  <1>7. CallOK'
    BY DEF IInv, Safe, Start, CallOK
  <1>8. WritesLock'
    BY DEF IInv, Safe, Start, files, WritesLock
  <1> QED
    BY <1>1, <1>2, <1>3, <1>4, <1>5, <1>6, <1>7, <1>8 DEF Safe

LEMMA UnlinkSafe ==
    ASSUME IInv, TypeOK', OneProgram, NEW p \in Procs, Unlink(p)
    PROVE  Safe'
  <1>1. Exclusion'
    BY DEF IInv, Safe, Goto, Unlink, Local, Exclusion, Holds
  <1>2. LockIsOurs'
    BY DEF IInv, Safe, Goto, Unlink, Local, LockIsOurs, RemovesStale, Holds
  <1>3. FreshPath'
    BY DEF IInv, Unlink, FreshPath
  <1>4. PathGone'
    BY DEF IInv, Safe, Goto, Unlink, PathGone, RemovesStale
  <1>5. ReadIsCurrent'
    BY DEF IInv, Safe, Goto, Unlink, ReadIsCurrent
  <1>6. RemovesStale'
    BY DEF IInv, Safe, Goto, Unlink, Local, RemovesStale, Holds
  <1>7. CallOK'
    BY DEF IInv, Safe, Goto, Unlink, Local, CallOK
  <1>8. WritesLock'
    BY DEF IInv, TypeOK, Unlink, WritesLock
  <1> QED
    BY <1>1, <1>2, <1>3, <1>4, <1>5, <1>6, <1>7, <1>8 DEF Safe

LEMMA OpenfileSafe ==
    ASSUME IInv, TypeOK', OneProgram, NEW p \in Procs, Openfile(p)
    PROVE  Safe'
  <1>1. Exclusion'
    BY DEF IInv, Safe, Goto, Openfile, Local, Exclusion, Holds
  <1>2. LockIsOurs'
    BY DEF IInv, Safe, TypeOK, Goto, Openfile, Local, life, Info, LockIsOurs, Holds
  <1>3. FreshPath'
    BY DEF IInv, Safe, TypeOK, Openfile, FreshPath
  <1>4. PathGone'
    BY DEF IInv, Safe, Goto, Openfile, PathGone
  <1>5. ReadIsCurrent'
    BY DEF IInv, Safe, TypeOK, Openfile, ReadIsCurrent, RemovesStale
  <1>6. RemovesStale'
    BY DEF IInv, Safe, TypeOK, Goto, Openfile, Local, RemovesStale, Holds
  <1>7. CallOK'
    BY DEF IInv, Safe, Goto, Openfile, Local, CallOK
  <1>8. WritesLock'
    BY DEF IInv, Safe, TypeOK, Goto, Openfile, WritesLock
  <1> QED
    BY <1>1, <1>2, <1>3, <1>4, <1>5, <1>6, <1>7, <1>8 DEF Safe

LEMMA FtruncateSafe ==
    ASSUME IInv, TypeOK', OneProgram, NEW p \in Procs, Ftruncate(p)
    PROVE  Safe'
  <1>1. Exclusion'
    BY DEF IInv, Safe, Goto, Ftruncate, Local, Exclusion, Holds
  <1>2. LockIsOurs'
    BY DEF IInv, Safe, Goto, Ftruncate, Local, life, Info, LockIsOurs, Holds
  <1>3. FreshPath'
    BY DEF IInv, Safe, Ftruncate, FreshPath
  <1>4. PathGone'
    BY DEF IInv, Safe, Goto, Ftruncate, PathGone
  <1>5. ReadIsCurrent'
    BY InfoType DEF IInv, Safe, OneProgram, Goto, Ftruncate, LockIsOurs, ReadIsCurrent, Holds
  <1>6. RemovesStale'
    BY DEF IInv, Safe, Goto, Ftruncate, RemovesStale, Holds
  <1>7. CallOK'
    BY DEF IInv, Safe, Goto, Ftruncate, Local, CallOK
  <1>8. WritesLock'
    BY DEF IInv, Safe, Goto, Ftruncate, WritesLock
  <1> QED
    BY <1>1, <1>2, <1>3, <1>4, <1>5, <1>6, <1>7, <1>8 DEF Safe

LEMMA FprintfSafe ==
    ASSUME IInv, TypeOK', OneProgram, NEW p \in Procs, Fprintf(p)
    PROVE  Safe'
  <1>1. Exclusion'
    BY DEF IInv, Safe, Goto, Fprintf, Exclusion, Holds
  <1>2. LockIsOurs'
    BY DEF IInv, Safe, Goto, Fprintf, life, Info, Exclusion, LockIsOurs, Holds
  <1>3. FreshPath'
    BY DEF IInv, Safe, Goto, Fprintf, FreshPath, WritesLock
  <1>4. PathGone'
    BY DEF IInv, Safe, Goto, Fprintf, PathGone
  <1>5. ReadIsCurrent'
    BY DEF IInv, Safe, TypeOK, Goto, Fprintf, LockIsOurs, ReadIsCurrent, Holds
  <1>6. RemovesStale'
    BY DEF IInv, Safe, Goto, Fprintf, RemovesStale, Holds
  <1>7. CallOK'
    BY DEF IInv, Safe, TypeOK, Goto, Fprintf, CallOK
  <1>8. WritesLock'
    BY DEF IInv, Safe, TypeOK, Goto, Fprintf, WritesLock
  <1> QED
    BY <1>1, <1>2, <1>3, <1>4, <1>5, <1>6, <1>7, <1>8 DEF Safe

LEMMA CallSafe ==
    ASSUME IInv, TypeOK', OneProgram, NEW p \in Procs, NEW c \in {"create", "unlock", "exit"}, Call(p, c)
    PROVE  Safe'
  <1>1. Exclusion'
    BY DEF IInv, Safe, TypeOK, Goto, Call, Exclusion, Holds
  <1>2. LockIsOurs'
    BY DEF IInv, Safe, TypeOK, Goto, Call, files, life, Info, LockIsOurs, Holds
  <1>3. FreshPath'
    BY DEF IInv, Safe, Call, files, FreshPath
  <1>4. PathGone'
    BY DEF IInv, Safe, Goto, Call, files, PathGone
  <1>5. ReadIsCurrent'
    BY DEF IInv, Safe, Goto, Call, files, ReadIsCurrent
  <1>6. RemovesStale'
    BY DEF IInv, Safe, TypeOK, Goto, Call, files, RemovesStale, Holds
  <1>7. CallOK'
    <2>1. c # "create" => ~ locked'[p]
      <3>1. locked' = [locked EXCEPT ![p] = locked[p] /\ c = "create"]
        BY Zenon DEF Call
      <3>2. locked \in [Procs -> BOOLEAN]
        BY Zenon DEF IInv, TypeOK
      <3>3. locked'[p] = (locked[p] /\ c = "create")
        BY <3>1, <3>2, Zenon
      <3> QED
        BY <3>3, Zenon
    <2>2. pc'[p] = "file_exists" /\ call'[p] = c
      BY DEF Call, Goto, IInv, TypeOK
    <2>3. \A q \in Procs : q # p => pc'[q] = pc[q] /\ call'[q] = call[q] /\ locked'[q] = locked[q]
      BY DEF Call, Goto, IInv, TypeOK
    <2> QED
      BY <2>1, <2>2, <2>3 DEF CallOK, IInv, Safe
  <1>8. WritesLock'
    BY DEF IInv, Safe, Goto, Call, files, WritesLock
  <1> QED
    BY <1>1, <1>2, <1>3, <1>4, <1>5, <1>6, <1>7, <1>8 DEF Safe

LEMMA FileExistsSafe ==
    ASSUME IInv, TypeOK', OneProgram, NEW p \in Procs, FileExists(p)
    PROVE  Safe'
  <1>1. CASE Return(p) /\ UNCHANGED files
    BY <1>1, ReturnIsReturned, ReturnedSafe DEF FileExists, IInv, Safe, CallOK
  <1>2. CASE ~ Return(p)
    <2>1. Exclusion'
      BY <1>2 DEF IInv, Safe, TypeOK, Goto, FileExists, Unlocked, Local, Exclusion, Holds
    <2>2. LockIsOurs'
      BY <1>2 DEF IInv, Safe, TypeOK, Goto, FileExists, Unlocked, Local, files, life, Info, LockIsOurs, Holds
    <2>3. FreshPath'
      BY DEF IInv, Safe, FileExists, files, FreshPath
    <2>4. PathGone'
      BY <1>2 DEF IInv, Safe, TypeOK, Goto, FileExists, Unlocked, files, PathGone
    <2>5. ReadIsCurrent'
      BY <1>2 DEF IInv, Safe, TypeOK, FileExists, Unlocked, files, ReadIsCurrent, RemovesStale
    <2>6. RemovesStale'
      BY <1>2 DEF IInv, Safe, TypeOK, Goto, FileExists, Unlocked, Local, files, RemovesStale, Holds
    <2>7. CallOK'
      BY <1>2 DEF IInv, Safe, TypeOK, Goto, FileExists, Unlocked, Local, CallOK
    <2>8. WritesLock'
      BY <1>2 DEF IInv, Safe, TypeOK, Goto, FileExists, Unlocked, files, WritesLock
    <2> QED
      BY <2>1, <2>2, <2>3, <2>4, <2>5, <2>6, <2>7, <2>8 DEF Safe
  <1> QED
    BY <1>1, <1>2 DEF FileExists, Unlocked, files

LEMMA OfFileSafe ==
    ASSUME IInv, TypeOK', OneProgram, NEW p \in Procs, OfFile(p)
    PROVE  Safe'
  <1>1. CASE Return(p) /\ UNCHANGED files
    BY <1>1, ReturnIsReturned, ReturnedSafe DEF OfFile, IInv, Safe, CallOK
  <1>2. CASE ~ Return(p)
    <2>1. Exclusion'
      BY <1>2 DEF IInv, Safe, TypeOK, Goto, OfFile, Local, Exclusion, Holds
    <2>2. LockIsOurs'
      BY <1>2 DEF IInv, Safe, TypeOK, Goto, OfFile, Local, files, life, Info, LockIsOurs, Holds
    <2>3. FreshPath'
      BY DEF IInv, Safe, OfFile, files, FreshPath
    <2>4. PathGone'
      BY <1>2 DEF IInv, Safe, TypeOK, Goto, OfFile, files, PathGone
    <2>5. ReadIsCurrent'
      BY <1>2 DEF IInv, Safe, TypeOK, OfFile, files, ReadIsCurrent, RemovesStale
    <2>6. RemovesStale'
      BY <1>2 DEF IInv, Safe, TypeOK, Goto, OfFile, Local, files, RemovesStale, Holds
    <2>7. CallOK'
      BY <1>2 DEF IInv, Safe, TypeOK, Goto, OfFile, Local, CallOK
    <2>8. WritesLock'
      BY <1>2 DEF IInv, Safe, TypeOK, Goto, OfFile, files, WritesLock
    <2> QED
      BY <2>1, <2>2, <2>3, <2>4, <2>5, <2>6, <2>7, <2>8 DEF Safe
  <1> QED
    BY <1>1, <1>2 DEF OfFile, Unlocked, files

LEMMA DecideSafe ==
    ASSUME IInv, TypeOK', OneProgram, NEW p \in Procs, Decide(p)
    PROVE  Safe'
  <1>1. CASE Return(p) /\ UNCHANGED files
    BY <1>1, ReturnIsReturned, ReturnedSafe DEF Decide, IInv, Safe, CallOK
  <1>2. CASE ~ Return(p)
    <2>1. Exclusion'
      BY <1>2 DEF IInv, Safe, TypeOK, Goto, Decide, Local, Exclusion, Holds
    <2>2. LockIsOurs'
      BY <1>2 DEF IInv, Safe, TypeOK, Goto, Decide, Local, files, life, Info, LockIsOurs, Holds
    <2>3. FreshPath'
      BY DEF IInv, Safe, Decide, files, FreshPath
    <2>4. PathGone'
      BY <1>2 DEF IInv, Safe, TypeOK, Goto, Decide, files, PathGone
    <2>5. ReadIsCurrent'
      BY <1>2 DEF IInv, Safe, TypeOK, Decide, files, ReadIsCurrent, RemovesStale
    <2>6. RemovesStale'
      <3>1. /\ info[p].host = HostOf[p] /\ pc[p] = "decide" /\ info[p] # Empty
            /\ pc' = [pc EXCEPT ![p] = "unlink"] /\ UNCHANGED <<files, info, locked>>
            /\ \E exists \in LockingPidExists(info[p]) :
                  (call[p] # "create" /\ IsLockedByMe(info[p], p)) \/ ~ exists
        BY <1>2 DEF Decide, Goto, Local, IInv, TypeOK
      <3>2. lock_path # NoFile /\ content[lock_path] = info[p]
        BY <3>1 DEF IInv, Safe, ReadIsCurrent
      <3>3. ASSUME NEW q \in Procs, Holds(q) PROVE FALSE
        <4>1. info[p] = Info(q)
          BY <3>1, <3>2, <3>3 DEF IInv, Safe, LockIsOurs
        <4>2. q = p
          BY <3>1, <4>1 DEF Info, OneProgram
        <4>3. locked[p] /\ call[p] = "create"
          BY <3>1, <3>3, <4>2 DEF Holds, IInv, Safe, CallOK
        <4>4. IsLockedByMe(info[p], p)
          BY <4>1, <4>2 DEF IsLockedByMe, StartMatches, Info
        <4>5. LockingPidExists(info[p]) = {TRUE}
          BY <3>1, <4>4 DEF LockingPidExists
        <4> QED
          BY <3>1, <4>3, <4>5
      <3>4. \A q \in Procs : (Holds(q))' => Holds(q)
        BY <3>1 DEF Holds, IInv, TypeOK
      <3> QED
        BY <3>1, <3>2, <3>3, <3>4 DEF RemovesStale, IInv, Safe, TypeOK, files
    <2>7. CallOK'
      BY <1>2 DEF IInv, Safe, TypeOK, Goto, Decide, Local, CallOK
    <2>8. WritesLock'
      BY <1>2 DEF IInv, Safe, TypeOK, Goto, Decide, files, WritesLock
    <2> QED
      BY <2>1, <2>2, <2>3, <2>4, <2>5, <2>6, <2>7, <2>8 DEF Safe
  <1> QED
    BY <1>1, <1>2 DEF Decide, Unlocked, files

LEMMA LinkSafe ==
    ASSUME IInv, TypeOK', OneProgram, NEW p \in Procs, Link(p)
    PROVE  Safe'
  <1>1. CASE Return(p) /\ UNCHANGED files
    BY <1>1, ReturnIsReturned, ReturnedSafe DEF Link, IInv, Safe, CallOK
  <1>2. CASE path # NoFile /\ lock_path = NoFile
    <2>1. Exclusion'
      BY <1>2 DEF IInv, Safe, TypeOK, Goto, Link, Local, Exclusion, LockIsOurs, Holds
    <2>2. LockIsOurs'
      BY <1>2 DEF IInv, Safe, Link, LockIsOurs, FreshPath
    <2>3. FreshPath'
      BY <1>2 DEF IInv, Link, FreshPath
    <2>4. PathGone'
      BY <1>2 DEF IInv, Safe, TypeOK, Goto, Link, LockIsOurs, PathGone, RemovesStale, Holds
    <2>5. ReadIsCurrent'
      BY <1>2 DEF IInv, Safe, TypeOK, Link, ReadIsCurrent, RemovesStale
    <2>6. RemovesStale'
      BY <1>2 DEF IInv, Safe, TypeOK, Goto, Link, RemovesStale
    <2>7. CallOK'
      BY <1>2 DEF IInv, Safe, Link, Local, LockIsOurs, CallOK, Holds
    <2>8. WritesLock'
      BY <1>2 DEF IInv, Link, WritesLock
    <2> QED
      BY <2>1, <2>2, <2>3, <2>4, <2>5, <2>6, <2>7, <2>8 DEF Safe
  <1> QED
    BY <1>1, <1>2 DEF Link, Unlocked, files

(* A step that ends create_exn after a line that could not be written. *)
LEMMA ClosedSafe ==
    ASSUME IInv, TypeOK', OneProgram, NEW p \in Procs, pc[p] \in {"undo", "undo_lock"},
           Returned(p), CloseOut(p), UNCHANGED path,
           lock_path' = lock_path \/ (pc[p] = "undo_lock" /\ lock_path' = NoFile)
    PROVE  Safe'
  <1> USE DEF Returned
  <1>1. Exclusion'
    BY DEF IInv, Safe, Exclusion, Holds
  <1>2. LockIsOurs'
    BY DEF IInv, Safe, TypeOK, Exclusion, LockIsOurs, CallOK, Holds
  <1>3. FreshPath'
    BY DEF IInv, Safe, TypeOK, CloseOut, FreshPath, PathGone, WritesLock
  <1>4. PathGone'
    BY DEF IInv, Safe, TypeOK, Exclusion, PathGone, RemovesStale, Holds
  <1>5. ReadIsCurrent'
    BY InfoType DEF IInv, Safe, TypeOK, OneProgram, LockIsOurs, ReadIsCurrent, Holds
  <1>6. RemovesStale'
    BY DEF IInv, Safe, RemovesStale, Holds
  <1>7. CallOK'
    BY DEF IInv, Safe, CallOK
  <1>8. WritesLock'
    BY DEF IInv, Safe, TypeOK, PathGone, WritesLock
  <1> QED
    BY <1>1, <1>2, <1>3, <1>4, <1>5, <1>6, <1>7, <1>8 DEF Safe

LEMMA UndoLockSafe ==
    ASSUME IInv, TypeOK', OneProgram, NEW p \in Procs, UndoLock(p)
    PROVE  Safe'
  BY ReturnIsReturned, ClosedSafe DEF UndoLock, IInv, Safe

LEMMA UndoSafe ==
    ASSUME IInv, TypeOK', OneProgram, NEW p \in Procs, Undo(p)
    PROVE  Safe'
  <1>1. CASE path = NoFile
    BY <1>1, ReturnIsReturned, ClosedSafe DEF Undo, IInv, Safe
  <1>2. CASE path # NoFile
    <2>1. Exclusion'
      BY <1>2 DEF IInv, Safe, TypeOK, Undo, Goto, Local, Exclusion, Holds
    <2>2. LockIsOurs'
      BY <1>2 DEF IInv, Safe, TypeOK, Undo, Goto, Local, life, Info, LockIsOurs, Holds
    <2>3. FreshPath'
      BY DEF IInv, Undo, FreshPath
    <2>4. PathGone'
      BY DEF IInv, Safe, Undo, LockIsOurs, PathGone, Holds
    <2>5. ReadIsCurrent'
      BY <1>2 DEF IInv, Safe, TypeOK, Undo, ReadIsCurrent, RemovesStale
    <2>6. RemovesStale'
      BY <1>2 DEF IInv, Safe, TypeOK, Undo, Goto, RemovesStale, Holds
    <2>7. CallOK'
      BY <1>2 DEF IInv, Safe, Undo, Local, Exclusion, CallOK, Holds
    <2>8. WritesLock'
      BY DEF IInv, TypeOK, Undo, WritesLock
    <2> QED
      BY <2>1, <2>2, <2>3, <2>4, <2>5, <2>6, <2>7, <2>8 DEF Safe
  <1> QED
    BY <1>1, <1>2

LEMMA UnlinkLockSafe ==
    ASSUME IInv, TypeOK', OneProgram, NEW p \in Procs, UnlinkLock(p)
    PROVE  Safe'
  <1>1. lock_path # NoFile /\ \A q \in Procs : ~ Holds(q)
    BY DEF UnlinkLock, IInv, Safe, RemovesStale
  <1>2. CASE call[p] # "create"
    <2> Returned(p)
      BY <1>1, <1>2, ReturnIsReturned DEF UnlinkLock, Unlocked, IInv, Safe
    <2> USE DEF Returned
    <2>1. Exclusion'
      BY <1>1 DEF IInv, Exclusion, Holds
    <2>2. LockIsOurs'
      BY <1>1 DEF IInv, LockIsOurs, Holds
    <2>3. FreshPath'
      BY DEF IInv, Safe, UnlinkLock, FreshPath, PathGone
    <2>4. PathGone'
      BY DEF IInv, Safe, TypeOK, OneProgram, UnlinkLock, PathGone, RemovesStale, Holds
    <2>5. ReadIsCurrent'
      BY DEF IInv, Safe, OneProgram, UnlinkLock, ReadIsCurrent, RemovesStale
    <2>6. RemovesStale'
      BY DEF IInv, Safe, TypeOK, OneProgram, UnlinkLock, RemovesStale
    <2>7. CallOK'
      BY <1>1 DEF IInv, CallOK, Holds
    <2>8. WritesLock'
      BY <1>1 DEF IInv, WritesLock, Holds
    <2> QED
      BY <2>1, <2>2, <2>3, <2>4, <2>5, <2>6, <2>7, <2>8 DEF Safe
  <1>3. CASE call[p] = "create"
    <2>1. Exclusion'
      BY <1>1, <1>3 DEF IInv, TypeOK, UnlinkLock, Unlocked, Local, Exclusion, Holds
    <2>2. LockIsOurs'
      BY <1>1, <1>3 DEF IInv, TypeOK, UnlinkLock, Unlocked, Local, LockIsOurs, Holds
    <2>3. FreshPath'
      BY DEF IInv, Safe, UnlinkLock, FreshPath, PathGone
    <2>4. PathGone'
      BY <1>3 DEF IInv, Safe, TypeOK, OneProgram, UnlinkLock, Unlocked, PathGone, RemovesStale, Holds
    <2>5. ReadIsCurrent'
      BY <1>3 DEF IInv, Safe, TypeOK, OneProgram, UnlinkLock, Unlocked, ReadIsCurrent, RemovesStale
    <2>6. RemovesStale'
      BY <1>3 DEF IInv, Safe, TypeOK, OneProgram, UnlinkLock, Unlocked, RemovesStale
    <2>7. CallOK'
      BY <1>1, <1>3 DEF IInv, UnlinkLock, Unlocked, Local, CallOK, Holds
    <2>8. WritesLock'
      BY <1>1, <1>3 DEF IInv, TypeOK, UnlinkLock, Unlocked, WritesLock, Holds
    <2> QED
      BY <2>1, <2>2, <2>3, <2>4, <2>5, <2>6, <2>7, <2>8 DEF Safe
  <1> QED
    BY <1>2, <1>3

LEMMA ErrorSafe ==
    ASSUME IInv, TypeOK', OneProgram, NEW p \in Procs, Error(p)
    PROVE  Safe'
  <1>1. CASE Return(p) /\ UNCHANGED files /\ pc[p] # "dead"
    BY <1>1, ReturnIsReturned, ReturnedSafe DEF IInv, Safe
  <1>2. CASE pc[p] \in {"undo", "undo_lock"}
    BY <1>2, ReturnIsReturned, ClosedSafe DEF Error, Goto, IInv, Safe
  <1>3. CASE Goto(p, "fprintf", "undo") /\ UNCHANGED <<content, fd, info, Local>>
    <2>1. Exclusion'
      BY <1>3 DEF IInv, Safe, Goto, Local, Exclusion, Holds
    <2>2. LockIsOurs'
      BY <1>3 DEF IInv, Safe, Error, Goto, Local, life, Info, LockIsOurs, Holds
    <2>3. FreshPath'
      BY <1>3 DEF IInv, Safe, Error, FreshPath
    <2>4. PathGone'
      BY <1>3 DEF IInv, Safe, Goto, Exclusion, PathGone, RemovesStale, Holds
    <2>5. ReadIsCurrent'
      BY <1>3 DEF IInv, Safe, Error, Goto, ReadIsCurrent
    <2>6. RemovesStale'
      BY <1>3 DEF IInv, Safe, Goto, RemovesStale, Holds
    <2>7. CallOK'
      BY <1>3 DEF IInv, Safe, Goto, Local, CallOK
    <2>8. WritesLock'
      BY <1>3 DEF IInv, Safe, Error, Goto, WritesLock
    <2> QED
      BY <2>1, <2>2, <2>3, <2>4, <2>5, <2>6, <2>7, <2>8 DEF Safe
  <1> QED
    BY <1>1, <1>2, <1>3 DEF Error, files

LEMMA StepIInv ==
    ASSUME IInv, OneProgram, [Next]_vars
    PROVE  IInv'
  <1>1. TypeOK'
    BY TypeStep DEF IInv, Safe
  <1>2. ASSUME NEW p \in Procs, Kill(p) \/ Quit(p) PROVE Safe'
    BY <1>1, <1>2, ReturnIsReturned, ReturnedSafe DEF Kill, Quit, IInv, Safe
  <1>3. ASSUME NEW p \in Procs, Step(p) PROVE Safe'
    BY <1>1, <1>3, FileExistsSafe, OfFileSafe, DecideSafe, UnlinkSafe, UnlinkLockSafe, OpenfileSafe,
       LinkSafe, FtruncateSafe, FprintfSafe, UndoSafe, UndoLockSafe DEF Step
  <1>4. CASE UNCHANGED vars
    <2> (\A q \in Procs : (Holds(q))' = Holds(q)) /\ (\A q \in Procs : (Info(q))' = Info(q))
      BY <1>4 DEF vars, files, life, Info, Holds
    <2>1. Exclusion' /\ LockIsOurs' /\ FreshPath' /\ PathGone'
      BY <1>4 DEF vars, files, IInv, Safe, Exclusion, LockIsOurs, FreshPath, PathGone
    <2>2. ReadIsCurrent' /\ RemovesStale'
      BY <1>4 DEF vars, files, IInv, Safe, ReadIsCurrent, RemovesStale
    <2>3. CallOK' /\ WritesLock'
      BY <1>4 DEF vars, files, IInv, Safe, CallOK, WritesLock
    <2> QED
      BY <1>1, <2>1, <2>2, <2>3 DEF Safe, IInv
  <1> QED
    BY <1>1, <1>2, <1>3, <1>4, StartSafe, CallSafe, ErrorSafe DEF Next, IInv

LEMMA AlwaysIInv ==
    ASSUME OneProgram
    PROVE  Spec => []IInv
  <1>1. IInv /\ [Next]_vars => IInv'
    BY StepIInv
  <1> QED
    BY <1>1, InitIInv, PTL DEF Spec

(***************************************************************************)
(* The variables of the processes keep their types, on any machines.       *)
(***************************************************************************)
THEOREM TypeCorrect == Spec => []TypeOK
  <1>1. Init => TypeOK
    BY InitIInv DEF IInv
  <1>2. TypeOK /\ [Next]_vars => TypeOK'
    BY TypeStep
  <1> QED
    BY <1>1, <1>2, PTL DEF Spec

(***************************************************************************)
(* With one program on each machine, two programs never have the lock at   *)
(* once, whatever processes are killed and start again, with or without    *)
(* start times to tell pids that are used again, and whichever system call *)
(* fails (create_exn, unlock_safely_exn).                                  *)
(***************************************************************************)
THEOREM ExclusionHolds ==
    ASSUME OneProgram
    PROVE  Spec => []Exclusion
  BY AlwaysIInv, PTL DEF IInv, Safe

(***************************************************************************)
(* With one program on each machine, the file that a program has locked    *)
(* stays at lock_path and names no other one.                              *)
(***************************************************************************)
THEOREM LockStaysOurs ==
    ASSUME OneProgram
    PROVE  Spec => []LockIsOurs
  BY AlwaysIInv, PTL DEF IInv, Safe

-----------------------------------------------------------------------------
(***************************************************************************)
(* What the shell is told by daemonize_wait is true, for any exit codes    *)
(* and signals.                                                            *)
(***************************************************************************)

(* A process is there only after its parent has forked. *)
Order == /\ place["started"] = "fork" => place["watcher"] = "absent"
         /\ place["watcher"] \in {"absent", "pipe", "fork"} => place["daemon"] = "absent"

(* What is in the pipe was sent, after the fds were redirected, and is sent
   with SIGPIPE ignored. *)
Messages == /\ pipe => release # "no"
            /\ release # "no" => stdio = 3
            /\ place["daemon"] \in {"ignore", "write", "restore", "close"} => stdio = 3
            /\ place["daemon"] = "write" => sigpipe = "ignore"

(* The status of the watcher is the one it should have. *)
WatcherTruthful ==
    status["watcher"].how = "exit" =>
        IF status["watcher"].n = 0 THEN release # "no" \/ status["daemon"] = Exited(0)
        ELSE status["watcher"].n = Uncaught \/ status["daemon"] \notin {Running, Exited(0)}

DaemonIInv == /\ DaemonTypeOK /\ Order /\ Messages /\ WatcherTruthful
              /\ VerdictJustified /\ ReleaseHarmless

USE DEF Processes

(* The three kinds of status. *)
LEMMA StatusFacts ==
    /\ Running.how = "running" /\ Running \in Statuses
    /\ \A n \in Int : /\ Exited(n) \in Statuses /\ Exited(n) # Running
                      /\ Exited(n).how = "exit" /\ Exited(n).n = n % 256
                      /\ Exited(n) # Signalled(SIGPIPE)
    /\ \A s \in Signals \cup {SIGPIPE} :
          /\ Signalled(s) \in Statuses /\ Signalled(s) # Running
          /\ Signalled(s).how = "signal" /\ Signalled(s).n = s
          /\ Signalled(s) # Exited(0)
    /\ \A s \in Signals : Signalled(s) # Signalled(SIGPIPE)
  <1>1. \A n \in Int : n % 256 \in 0 .. 255 /\ (n % 256) % 256 = n % 256
    OBVIOUS
  <1>2. \A n \in Int : Exited(n % 256) = Exited(n)
    BY <1>1 DEF Exited
  <1>3. \A n \in Int : Exited(n) \in Statuses
    BY <1>1, <1>2 DEF Statuses
  <1> QED
    BY <1>3, DaemonAssumption, ZenonT(60) DEF Statuses, Running, Exited, Signalled

(* A code that is not 0 comes from a process that did not end well. *)
LEMMA CodeFacts ==
    ASSUME NEW s \in Statuses, s # Running
    PROVE  /\ process_status_to_exit_code(s) \in Int
           /\ Exited(process_status_to_exit_code(s)).n = 0 <=> s = Exited(0)
           /\ s.how = "exit" => Exited(process_status_to_exit_code(s)).n = s.n
  <1>1. CASE \E n \in 0 .. 255 : s = Exited(n)
    <2>1. PICK n \in 0 .. 255 : s = Exited(n)
      BY <1>1
    <2>2. n % 256 = n
      OBVIOUS
    <2> QED
      BY <2>1, <2>2 DEF Exited, process_status_to_exit_code
  <1>2. CASE \E x \in Signals \cup {SIGPIPE} : s = Signalled(x)
    BY <1>2, DaemonAssumption DEF Exited, Signalled, SIGPIPE, process_status_to_exit_code
  <1> QED
    BY <1>1, <1>2 DEF Statuses

LEMMA DaemonInitIInv == DaemonInit => DaemonIInv
  <1> SUFFICES ASSUME DaemonInit PROVE DaemonIInv
    OBVIOUS
  <1>1. status \in [Processes -> Statuses] /\ \A p \in Processes : status[p] = Running
    BY StatusFacts DEF DaemonInit
  <1>2. /\ DOMAIN place = Processes
        /\ place["started"] = "fork" /\ place["watcher"] = "absent" /\ place["daemon"] = "absent"
    BY DEF DaemonInit
  <1>3. DaemonTypeOK
    <2>1. /\ place \in [Processes -> UNION {Places[p] : p \in Processes}]
          /\ \A p \in Processes : place[p] \in Places[p] /\ place[p] # "ended"
      BY <1>2 DEF DaemonInit, Places
    <2>2. pipe \in BOOLEAN /\ inherited \in BOOLEAN
      BY Zenon DEF DaemonInit
    <2>3. /\ sigpipe \in {"default", "ignore"} /\ release \in {"no", "sent", "over"}
          /\ stdio \in 0 .. 3
      BY DEF DaemonInit
    <2> QED
      BY <1>1, <2>1, <2>2, <2>3 DEF DaemonTypeOK
  <1>4. Order /\ Messages
    BY <1>2 DEF DaemonInit, Order, Messages
  <1>5. WatcherTruthful /\ VerdictJustified /\ ReleaseHarmless
    BY <1>1, StatusFacts DEF WatcherTruthful, VerdictJustified, ReleaseHarmless
  <1> QED
    BY <1>3, <1>4, <1>5 DEF DaemonIInv

-----------------------------------------------------------------------------
(* Moves and ends of one process. *)

LEMMA GotoType ==
    ASSUME DaemonTypeOK, NEW p \in Processes, NEW from, NEW to \in Places[p] \ {"ended"},
           Go(p, from, to), from # "ended", UNCHANGED status
    PROVE  /\ place' \in [Processes -> UNION {Places[q] : q \in Processes}]
           /\ \A q \in Processes : place'[q] \in Places[q]
           /\ status' \in [Processes -> Statuses]
           /\ \A q \in Processes : place'[q] = "ended" <=> status'[q] # Running
           /\ place'[p] = to /\ \A q \in Processes \ {p} : place'[q] = place[q]
  BY DEF DaemonTypeOK, Go

LEMMA EndType ==
    ASSUME DaemonTypeOK, NEW p \in Processes, NEW how \in Statuses \ {Running}, Finish(p, how)
    PROVE  /\ place' \in [Processes -> UNION {Places[q] : q \in Processes}]
           /\ \A q \in Processes : place'[q] \in Places[q]
           /\ status' \in [Processes -> Statuses]
           /\ \A q \in Processes : place'[q] = "ended" <=> status'[q] # Running
           /\ place'[p] = "ended" /\ status'[p] = how
           /\ \A q \in Processes \ {p} : place'[q] = place[q] /\ status'[q] = status[q]
  <1>1. "ended" \in Places[p]
    BY DEF Places
  <1> QED
    BY <1>1 DEF DaemonTypeOK, Finish

(* No process ends, and nobody appears behind a verdict. *)
LEMMA MoveKeeps ==
    ASSUME DaemonIInv, UNCHANGED status, release # "no" => release' # "no",
           status["started"].how = "exit" /\ place["watcher"] = "absent" => place'["watcher"] = "absent"
    PROVE  WatcherTruthful' /\ VerdictJustified' /\ ReleaseHarmless'
  BY DEF DaemonIInv, WatcherTruthful, VerdictJustified, ReleaseHarmless, WatcherFailed

(* The daemon ends. *)
LEMMA DaemonEnds ==
    ASSUME DaemonIInv, Present("daemon"), UNCHANGED Others,
           NEW how \in Statuses \ {Running, Signalled(SIGPIPE)}, Finish("daemon", how)
    PROVE  DaemonIInv'
  <1>1. /\ place'["daemon"] = "ended" /\ status'["daemon"] = how
        /\ \A q \in Processes \ {"daemon"} : place'[q] = place[q] /\ status'[q] = status[q]
    BY EndType DEF DaemonIInv
  <1>2. DaemonTypeOK'
    BY EndType DEF DaemonIInv, DaemonTypeOK, Others
  <1>3. Order' /\ Messages'
    BY <1>1 DEF DaemonIInv, Order, Messages, Others, Present
  <1>4. status["daemon"] = Running
    BY DEF DaemonIInv, DaemonTypeOK, Present
  <1>5. WatcherTruthful' /\ VerdictJustified' /\ ReleaseHarmless'
    BY <1>1, <1>4, StatusFacts
       DEF DaemonIInv, WatcherTruthful, VerdictJustified, ReleaseHarmless, WatcherFailed, Others
  <1> QED
    BY <1>2, <1>3, <1>5 DEF DaemonIInv

(* The watcher ends, and what its status says is so. *)
LEMMA WatcherEnds ==
    ASSUME DaemonIInv, Present("watcher"), UNCHANGED <<inherited, sigpipe, stdio, release>>,
           UNCHANGED pipe \/ pipe' = FALSE,
           NEW how \in Statuses \ {Running}, Finish("watcher", how),
           how.how = "exit" =>
               IF how.n = 0 THEN release # "no" \/ status["daemon"] = Exited(0)
               ELSE how.n = Uncaught \/ status["daemon"] \notin {Running, Exited(0)}
    PROVE  DaemonIInv'
  <1>1. /\ place'["watcher"] = "ended" /\ status'["watcher"] = how
        /\ \A q \in Processes \ {"watcher"} : place'[q] = place[q] /\ status'[q] = status[q]
    BY EndType DEF DaemonIInv
  <1>2. DaemonTypeOK'
    <2>1. pipe' \in BOOLEAN
      BY DEF DaemonIInv, DaemonTypeOK
    <2> QED
      BY <2>1, EndType DEF DaemonIInv, DaemonTypeOK
  <1>3. Order' /\ Messages'
    <2>1. pipe' => pipe
      OBVIOUS
    <2>2. Order'
      BY <1>1 DEF DaemonIInv, Order, Present
    <2> QED
      BY <1>1, <2>1, <2>2 DEF DaemonIInv, Messages
  <1>4. status["watcher"] = Running /\ place["watcher"] # "absent"
    BY DEF DaemonIInv, DaemonTypeOK, Present
  <1>5. WatcherTruthful'
    BY <1>1 DEF WatcherTruthful
  <1>6. VerdictJustified' /\ ReleaseHarmless'
    BY <1>1, <1>4 DEF DaemonIInv, VerdictJustified, ReleaseHarmless, WatcherFailed, Running, Uncaught
  <1> QED
    BY <1>2, <1>3, <1>5, <1>6 DEF DaemonIInv

(* The process that was started ends. *)
LEMMA StartedEnds ==
    ASSUME DaemonIInv, UNCHANGED Others,
           NEW how \in Statuses \ {Running}, Finish("started", how),
           how.how = "exit" =>
               IF how.n = 0 THEN release # "no" \/ status["daemon"] = Exited(0)
               ELSE WatcherFailed \/ status["daemon"] \notin {Running, Exited(0)}
    PROVE  DaemonIInv'
  <1>1. /\ place'["started"] = "ended" /\ status'["started"] = how
        /\ \A q \in Processes \ {"started"} : place'[q] = place[q] /\ status'[q] = status[q]
    BY EndType DEF DaemonIInv
  <1>2. DaemonTypeOK'
    BY EndType DEF DaemonIInv, DaemonTypeOK, Others
  <1>3. Order' /\ Messages'
    BY <1>1 DEF DaemonIInv, Order, Messages, Others
  <1>4. WatcherTruthful' /\ VerdictJustified' /\ ReleaseHarmless'
    BY <1>1 DEF DaemonIInv, WatcherTruthful, VerdictJustified, ReleaseHarmless, WatcherFailed, Others
  <1> QED
    BY <1>2, <1>3, <1>4 DEF DaemonIInv

-----------------------------------------------------------------------------

LEMMA KillStep ==
    ASSUME DaemonIInv, NEW p \in Processes, KillProcess(p)
    PROVE  DaemonIInv'
  <1>1. PICK s \in Signals : Finish(p, Signalled(s)) /\ UNCHANGED Others /\ Present(p)
    BY DEF KillProcess
  <1>2. /\ Signalled(s) \in Statuses \ {Running, Signalled(SIGPIPE)}
        /\ Signalled(s).how # "exit"
    BY StatusFacts
  <1>3. CASE p = "daemon"
    BY <1>1, <1>2, <1>3, DaemonEnds
  <1>4. CASE p = "watcher"
    BY <1>1, <1>2, <1>4, WatcherEnds DEF Others
  <1>5. CASE p = "started"
    BY <1>1, <1>2, <1>5, StartedEnds
  <1> QED
    BY <1>3, <1>4, <1>5

LEMMA UncaughtStatus == Exited(Uncaught) \in Statuses \ {Running} /\ Exited(Uncaught).n = Uncaught
                        /\ Exited(Uncaught) # Signalled(SIGPIPE) /\ Uncaught # 0
  BY StatusFacts DEF Uncaught

LEMMA ForkWatcherStep ==
    ASSUME DaemonIInv, ForkWatcher
    PROVE  DaemonIInv'
  <1>1. place["started"] = "fork" /\ place["watcher"] = "absent" /\ UNCHANGED Others
    BY DEF ForkWatcher, Fork, DaemonIInv, Order
  <1>2. CASE Finish("started", Exited(Uncaught))
    BY <1>1, <1>2, UncaughtStatus, StartedEnds DEF WatcherFailed
  <1>3. CASE place' = [place EXCEPT !["started"] = "waitpid", !["watcher"] = "pipe"] /\ UNCHANGED status
    <2>1. /\ place'["started"] = "waitpid" /\ place'["watcher"] = "pipe" /\ place'["daemon"] = place["daemon"]
          /\ place' \in [Processes -> UNION {Places[q] : q \in Processes}]
          /\ \A q \in Processes : place'[q] \in Places[q]
      BY <1>3 DEF DaemonIInv, DaemonTypeOK, Places
    <2>2. DaemonTypeOK'
      BY <1>1, <1>3, <2>1 DEF DaemonIInv, DaemonTypeOK, Others
    <2>3. Order' /\ Messages'
      BY <1>1, <2>1 DEF DaemonIInv, Order, Messages, Others
    <2>4. status["started"].how # "exit"
      BY <1>1, StatusFacts DEF DaemonIInv, DaemonTypeOK
    <2> QED
      BY <1>1, <1>3, <2>2, <2>3, <2>4, MoveKeeps DEF DaemonIInv, Others
  <1> QED
    BY <1>2, <1>3 DEF ForkWatcher, Fork

LEMMA WaitpidStep ==
    ASSUME DaemonIInv, Waitpid
    PROVE  DaemonIInv'
  <1> DEFINE s == status["watcher"]
             code == process_status_to_exit_code(s)
  <1>1. /\ s \in Statuses /\ s # Running
        /\ Finish("started", Exited(code)) /\ UNCHANGED Others
    BY DEF Waitpid, DaemonIInv, DaemonTypeOK
  <1>2. /\ code \in Int
        /\ Exited(code).n = 0 <=> s = Exited(0)
        /\ s.how = "exit" => Exited(code).n = s.n
    BY <1>1, CodeFacts
  <1>3. Exited(code) \in Statuses \ {Running} /\ Exited(0).how = "exit"
    BY <1>2, StatusFacts
  <1>4. CASE s.how = "exit"
    BY <1>1, <1>2, <1>3, <1>4, StartedEnds DEF DaemonIInv, WatcherTruthful, WatcherFailed
  <1>5. CASE s.how # "exit"
    <2>1. s.how = "signal"
      BY <1>1, <1>5 DEF Statuses, Exited, Signalled
    <2>2. Exited(code).n # 0 /\ WatcherFailed
      BY <1>2, <1>3, <1>5, <2>1 DEF WatcherFailed
    <2> QED
      BY <1>1, <1>3, <2>2, StartedEnds
  <1> QED
    BY <1>4, <1>5

-----------------------------------------------------------------------------
(* The watcher. *)

(* The watcher raises. *)
LEMMA WatcherRaises ==
    ASSUME DaemonIInv, Present("watcher"), Finish("watcher", Exited(Uncaught)), UNCHANGED Others
    PROVE  DaemonIInv'
  BY UncaughtStatus, WatcherEnds DEF Others

(* The watcher goes on, once the daemon is there or where it cannot be yet. *)
LEMMA WatcherMoves ==
    ASSUME DaemonIInv, NEW from, NEW to \in Places["watcher"] \ {"absent", "ended"},
           Go("watcher", from, to), from \notin {"absent", "ended"},
           to \in {"pipe", "fork"} => from \in {"pipe", "fork"},
           UNCHANGED <<status, pipe, inherited, sigpipe, stdio, release>>
    PROVE  DaemonIInv'
  <1>1. /\ place["watcher"] = from /\ place'["watcher"] = to
        /\ place'["started"] = place["started"] /\ place'["daemon"] = place["daemon"]
    BY GotoType DEF DaemonIInv, Go
  <1>2. DaemonTypeOK'
    BY GotoType DEF DaemonIInv, DaemonTypeOK
  <1>3. Order'
    BY <1>1 DEF DaemonIInv, Order
  <1>4. Messages'
    BY <1>1 DEF DaemonIInv, Messages
  <1> QED
    BY <1>1, <1>2, <1>3, <1>4, MoveKeeps DEF DaemonIInv

LEMMA WatchStep ==
    ASSUME DaemonIInv, Watch
    PROVE  DaemonIInv'
  <1>1. CASE MakePipe
    <2>1. UNCHANGED Others /\ place["watcher"] = "pipe"
      BY <1>1 DEF MakePipe, Go
    <2>2. CASE Go("watcher", "pipe", "fork") /\ UNCHANGED status
      BY <2>1, <2>2, WatcherMoves DEF Places, Others
    <2>3. CASE Finish("watcher", Exited(Uncaught))
      BY <2>1, <2>3, WatcherRaises DEF Present
    <2> QED
      BY <1>1, <2>2, <2>3 DEF MakePipe
  <1>2. CASE ForkDaemon
    <2>1. UNCHANGED Others /\ place["watcher"] = "fork" /\ place["daemon"] = "absent"
      BY <1>2 DEF ForkDaemon, Fork, DaemonIInv, Order
    <2>2. CASE place' = [place EXCEPT !["watcher"] = "close_write", !["daemon"] = "setup"] /\ UNCHANGED status
      <3>1. /\ place'["watcher"] = "close_write" /\ place'["daemon"] = "setup" /\ place'["started"] = place["started"]
            /\ place' \in [Processes -> UNION {Places[q] : q \in Processes}]
            /\ \A q \in Processes : place'[q] \in Places[q]
        BY <2>2 DEF DaemonIInv, DaemonTypeOK, Places, Watching, Releasing
      <3>2. DaemonTypeOK'
        BY <2>1, <2>2, <3>1 DEF DaemonIInv, DaemonTypeOK, Others
      <3>3. Order' /\ Messages'
        BY <2>1, <3>1 DEF DaemonIInv, Order, Messages, Others
      <3> QED
        BY <2>1, <2>2, <3>2, <3>3, MoveKeeps DEF DaemonIInv, Others
    <2>3. CASE Finish("watcher", Exited(Uncaught))
      BY <2>1, <2>3, WatcherRaises DEF Present
    <2> QED
      BY <1>2, <2>2, <2>3 DEF ForkDaemon, Fork
  <1>3. CASE CloseWrite
    BY <1>3, WatcherMoves DEF CloseWrite, Places, Watching, Others
  <1>4. CASE WaitNohang
    <2>1. CASE place["daemon"] = "ended"
      <3> DEFINE s == status["daemon"]
                 code == process_status_to_exit_code(s)
      <3>1. /\ s \in Statuses /\ s # Running
            /\ Finish("watcher", Exited(code)) /\ UNCHANGED Others /\ Present("watcher")
        BY <1>4, <2>1 DEF WaitNohang, DaemonIInv, DaemonTypeOK, Present
      <3>2. code \in Int /\ (Exited(code).n = 0 <=> s = Exited(0))
        BY <3>1, CodeFacts
      <3>3. Exited(code) \in Statuses \ {Running}
        BY <3>2, StatusFacts
      <3> QED
        BY <3>1, <3>2, <3>3, WatcherEnds DEF Others
    <2>2. CASE place["daemon"] # "ended"
      BY <1>4, <2>2, WatcherMoves DEF WaitNohang, Places, Watching, Others
    <2> QED
      BY <2>1, <2>2
  <1>5. CASE Select
    <2>1. UNCHANGED Others
      BY <1>5 DEF Select
    <2>2. CASE Go("watcher", "select", "read") /\ UNCHANGED status
      BY <2>1, <2>2, WatcherMoves DEF Places, Watching, Others
    <2>3. CASE Go("watcher", "select", "wait_nohang") /\ UNCHANGED status
      BY <2>1, <2>3, WatcherMoves DEF Places, Watching, Others
    <2>4. CASE place["watcher"] = "select" /\ Finish("watcher", Exited(Uncaught))
      BY <2>1, <2>4, WatcherRaises DEF Present
    <2> QED
      BY <1>5, <2>2, <2>3, <2>4 DEF Select
  <1>6. CASE Read
    <2>1. pipe' = FALSE /\ UNCHANGED <<inherited, sigpipe, stdio, release>>
      BY <1>6 DEF Read
    <2>2. CASE pipe
      <3>1. place["watcher"] = "read" /\ Finish("watcher", Exited(0))
        BY <1>6, <2>2 DEF Read
      <3>2. release # "no"
        BY <2>2 DEF DaemonIInv, Messages
      <3>3. Exited(0) \in Statuses \ {Running} /\ Exited(0).n = 0
        BY StatusFacts
      <3> QED
        BY <2>1, <3>1, <3>2, <3>3, WatcherEnds DEF Present
    <2>3. CASE ~ pipe
      <3>1. Go("watcher", "read", "wait_nohang") /\ UNCHANGED status
        BY <1>6, <2>3 DEF Read
      <3>2. UNCHANGED pipe
        <4>1. pipe \in BOOLEAN
          BY DEF DaemonIInv, DaemonTypeOK
        <4> QED
          BY <2>1, <2>3, <4>1
      <3> QED
        BY <2>1, <3>1, <3>2, WatcherMoves DEF Places, Watching
    <2> QED
      BY <2>2, <2>3
  <1> QED
    BY <1>1, <1>2, <1>3, <1>4, <1>5, <1>6 DEF Watch

-----------------------------------------------------------------------------
(* The daemon. *)

(* The daemon goes on, and what it does with the fds, the pipe and SIGPIPE
   keeps to the order of release. *)
LEMMA DaemonMoves ==
    ASSUME DaemonIInv, NEW from, NEW to \in Places["daemon"] \ {"absent", "ended"},
           Go("daemon", from, to), from \notin {"absent", "ended"},
           UNCHANGED <<status, inherited>>,
           pipe' \in BOOLEAN, sigpipe' \in {"default", "ignore"},
           stdio' \in 0 .. 3, release' \in {"no", "sent", "over"},
           release # "no" => release' # "no",
           Messages'
    PROVE  DaemonIInv'
  <1>1. /\ place["daemon"] = from /\ place'["daemon"] = to
        /\ place'["started"] = place["started"] /\ place'["watcher"] = place["watcher"]
    BY GotoType DEF DaemonIInv, Go
  <1>2. DaemonTypeOK'
    BY GotoType DEF DaemonIInv, DaemonTypeOK
  <1>3. Order'
    BY <1>1 DEF DaemonIInv, Order
  <1> QED
    BY <1>1, <1>2, <1>3, MoveKeeps DEF DaemonIInv

(* Only the children of the daemon change. *)
LEMMA ChildrenKeep ==
    ASSUME DaemonIInv, inherited' \in BOOLEAN,
           UNCHANGED <<place, status, pipe, sigpipe, stdio, release>>
    PROVE  DaemonIInv'
  BY DEF DaemonIInv, DaemonTypeOK, Order, Messages, WatcherTruthful, VerdictJustified, WatcherFailed,
         ReleaseHarmless

LEMMA ProgramStep ==
    ASSUME DaemonIInv, Setup \/ StartChild \/ ChildEnds \/ ExitProgram
    PROVE  DaemonIInv'
  <1>1. CASE Setup
    <2>1. UNCHANGED Others /\ place["daemon"] = "setup"
      BY <1>1 DEF Setup, Go
    <2>2. CASE Go("daemon", "setup", "program") /\ UNCHANGED status
      <3>1. place'["daemon"] = "program"
        BY <2>2, GotoType DEF DaemonIInv, Places
      <3>2. Messages'
        BY <2>1, <3>1 DEF DaemonIInv, Messages, Others
      <3> QED
        BY <2>1, <2>2, <3>2, DaemonMoves DEF DaemonIInv, DaemonTypeOK, Places, Others
    <2>3. CASE Finish("daemon", Exited(Uncaught))
      BY <2>1, <2>3, UncaughtStatus, DaemonEnds DEF Present
    <2> QED
      BY <1>1, <2>2, <2>3 DEF Setup
  <1>2. CASE StartChild
    BY <1>2, ChildrenKeep DEF StartChild
  <1>3. CASE ChildEnds
    BY <1>3, ChildrenKeep DEF ChildEnds
  <1>4. CASE ExitProgram
    <2>1. PICK n \in Codes : Finish("daemon", Exited(n))
      BY <1>4 DEF ExitProgram
    <2>2. n \in Int
      BY DaemonAssumption
    <2>3. Exited(n) \in Statuses \ {Running, Signalled(SIGPIPE)}
      BY <2>2, StatusFacts
    <2> QED
      BY <1>4, <2>1, <2>3, DaemonEnds DEF ExitProgram, Present
  <1> QED
    BY <1>1, <1>2, <1>3, <1>4

LEMMA ReleaseStep ==
    ASSUME DaemonIInv, Release \/ InRelease
    PROVE  DaemonIInv'
  <1>0. /\ pipe \in BOOLEAN /\ sigpipe \in {"default", "ignore"}
        /\ stdio \in 0 .. 3 /\ release \in {"no", "sent", "over"}
    BY DEF DaemonIInv, DaemonTypeOK
  <1>1. CASE Release
    <2>1. Go("daemon", "program", "redirect") /\ UNCHANGED <<status, Others>>
      BY <1>1 DEF Release
    <2>2. place'["daemon"] = "redirect"
      BY <2>1, GotoType DEF DaemonIInv, Places, Releasing
    <2>3. Messages'
      BY <2>1, <2>2 DEF DaemonIInv, Messages, Others
    <2> QED
      BY <1>0, <2>1, <2>3, DaemonMoves DEF Places, Releasing, Others
  <1>2. CASE Redirect
    <2>1. UNCHANGED <<status, pipe, inherited, sigpipe, release>> /\ place["daemon"] = "redirect"
      BY <1>2 DEF Redirect
    <2>2. CASE stdio < 3 /\ stdio' = stdio + 1 /\ UNCHANGED place
      <3>1. DaemonTypeOK'
        BY <1>0, <2>1, <2>2 DEF DaemonIInv, DaemonTypeOK
      <3>2. Order' /\ Messages'
        BY <1>0, <2>1, <2>2 DEF DaemonIInv, Order, Messages
      <3> QED
        BY <2>1, <2>2, <3>1, <3>2, MoveKeeps DEF DaemonIInv
    <2>3. CASE stdio = 3 /\ Go("daemon", "redirect", "ignore") /\ UNCHANGED stdio
      <3>1. place'["daemon"] = "ignore"
        BY <2>1, <2>3, GotoType DEF DaemonIInv, Places, Releasing
      <3>2. Messages'
        BY <2>1, <2>3, <3>1 DEF DaemonIInv, Messages
      <3> QED
        BY <1>0, <2>1, <2>3, <3>2, DaemonMoves DEF Places, Releasing
    <2>4. CASE Go("daemon", "redirect", "program") /\ UNCHANGED stdio
      <3>1. place'["daemon"] = "program"
        BY <2>1, <2>4, GotoType DEF DaemonIInv, Places
      <3>2. Messages'
        BY <2>1, <2>4, <3>1 DEF DaemonIInv, Messages
      <3> QED
        BY <1>0, <2>1, <2>4, <3>2, DaemonMoves DEF Places
    <2> QED
      BY <1>2, <2>2, <2>3, <2>4 DEF Redirect
  <1>3. CASE IgnoreSigpipe
    <2>1. /\ Go("daemon", "ignore", "write") /\ sigpipe' = "ignore"
          /\ UNCHANGED <<status, pipe, inherited, stdio, release>>
      BY <1>3 DEF IgnoreSigpipe
    <2>2. place["daemon"] = "ignore" /\ place'["daemon"] = "write"
      BY <2>1, GotoType DEF DaemonIInv, Places, Releasing, Go
    <2>3. Messages'
      BY <2>1, <2>2 DEF DaemonIInv, Messages
    <2> QED
      BY <1>0, <2>1, <2>3, DaemonMoves DEF Places, Releasing
  <1>4. CASE Write
    <2>1. place["daemon"] = "write" /\ sigpipe = "ignore" /\ stdio = 3
      BY <1>4 DEF Write, DaemonIInv, Messages
    <2>2. /\ Go("daemon", "write", "restore")
          /\ pipe' = Present("watcher")
          /\ release' = IF Present("watcher") THEN "sent" ELSE release
          /\ UNCHANGED <<status, inherited, sigpipe, stdio>>
      BY <1>4, <2>1 DEF Write
    <2>3. place'["daemon"] = "restore"
      BY <2>2, GotoType DEF DaemonIInv, Places, Releasing
    <2>4. pipe' \in BOOLEAN
      BY <2>2 DEF Present
    <2>5. pipe' => release' # "no"
      BY <2>2
    <2>6. Messages'
      BY <2>1, <2>2, <2>3, <2>5 DEF Messages
    <2> QED
      BY <1>0, <2>2, <2>4, <2>6, DaemonMoves DEF Places, Releasing
  <1>5. CASE RestoreSigpipe
    <2>1. /\ Go("daemon", "restore", "close") /\ sigpipe' = "default"
          /\ UNCHANGED <<status, pipe, inherited, stdio, release>>
      BY <1>5 DEF RestoreSigpipe
    <2>2. place["daemon"] = "restore" /\ place'["daemon"] = "close"
      BY <2>1, GotoType DEF DaemonIInv, Places, Releasing, Go
    <2>3. Messages'
      BY <2>1, <2>2 DEF DaemonIInv, Messages
    <2> QED
      BY <1>0, <2>1, <2>3, DaemonMoves DEF Places, Releasing
  <1>6. CASE Close
    <2>1. /\ Go("daemon", "close", "program") /\ release' = "over"
          /\ UNCHANGED <<status, pipe, inherited, sigpipe, stdio>>
      BY <1>6 DEF Close
    <2>2. place["daemon"] = "close" /\ place'["daemon"] = "program"
      BY <2>1, GotoType DEF DaemonIInv, Places, Go
    <2>3. Messages'
      BY <2>1, <2>2 DEF DaemonIInv, Messages
    <2> QED
      BY <1>0, <2>1, <2>3, DaemonMoves DEF Places
  <1> QED
    BY <1>1, <1>2, <1>3, <1>4, <1>5, <1>6 DEF InRelease

-----------------------------------------------------------------------------

LEMMA NextIInv == DaemonIInv /\ [DaemonNext]_daemonVars => DaemonIInv'
  <1> SUFFICES ASSUME DaemonIInv, [DaemonNext]_daemonVars PROVE DaemonIInv'
    OBVIOUS
  <1>1. CASE UNCHANGED daemonVars
    BY <1>1 DEF daemonVars, DaemonIInv, DaemonTypeOK, Order, Messages, WatcherTruthful, VerdictJustified,
                WatcherFailed, ReleaseHarmless
  <1>2. CASE Done
    BY <1>1, <1>2 DEF Done
  <1>3. CASE \E p \in Processes : KillProcess(p)
    BY <1>3, KillStep
  <1> QED
    BY <1>1, <1>2, <1>3, ForkWatcherStep, WaitpidStep, WatchStep, ProgramStep, ReleaseStep
       DEF DaemonNext

LEMMA Inductive == DaemonSpec => []DaemonIInv
  BY DaemonInitIInv, NextIInv, PTL DEF DaemonSpec

\* The processes, the pipe and the descriptors of daemonize_wait stay in the
\* states the code has for them.
THEOREM DaemonTypeCorrect == DaemonSpec => []DaemonTypeOK
  BY Inductive, PTL DEF DaemonIInv

\* What daemonize_wait tells the shell is true, for any exit codes of the
\* program and any signals that kill the three processes.
THEOREM ShellIsToldTheTruth == DaemonSpec => []VerdictJustified
  BY Inductive, PTL DEF DaemonIInv

\* To call release never kills the daemon by SIGPIPE.
THEOREM ReleaseNeverKills == DaemonSpec => []ReleaseHarmless
  BY Inductive, PTL DEF DaemonIInv

\* A daemon that runs when its shell goes on has redirected all three
\* standard descriptors: the first status was 0, which a running daemon can
\* only have caused by its message.
THEOREM ShellGoesOnDetached == DaemonSpec => []DetachedWhenTold
  <1>1. DaemonIInv => DetachedWhenTold
    <2> SUFFICES ASSUME DaemonIInv, status["started"] = Exited(0), Present("daemon") PROVE stdio = 3
      BY DEF DetachedWhenTold
    <2>1. status["daemon"] # Exited(0)
      BY StatusFacts DEF DaemonIInv, DaemonTypeOK, Present
    <2>2. Exited(0).how = "exit" /\ Exited(0).n = 0
      BY StatusFacts
    <2> QED
      BY <2>1, <2>2 DEF DaemonIInv, VerdictJustified, Messages
  <1> QED
    BY <1>1, Inductive, PTL
=============================================================================
