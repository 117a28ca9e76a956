----------------------------- MODULE LockFileNfs -----------------------------
(***************************************************************************)
(* Lock_file_blocking.Nfs (core_unix/lock_file_blocking): a lock for       *)
(* programs on several machines, made of two names in a shared directory.  *)
(* create_exn opens path, links lock_path to it, and writes its host and   *)
(* pid into what it has opened; unlock_safely_exn reads lock_path and      *)
(* removes both names if the writer is this process or is dead.  Every     *)
(* system call is a step, a process may be killed between any two, and may *)
(* be started again, with a pid that was in use before.                    *)
(***************************************************************************)
EXTENDS Naturals, FiniteSets

CONSTANTS Procs,
          HostOf,      (* the machine of each process                        *)
          Pids,
          Inodes,      (* the files there can be, under a name or opened     *)
          NoFile, Empty,
          HasSysinfo,  (* Linux_ext.Sysinfo.sysinfo is there                 *)
          MaxEnds,     (* how many lives of processes end                    *)
          MaxErrors    (* how many system calls fail for another reason      *)
                       (* than the state of the two names                    *)

Hosts == {HostOf[p] : p \in Procs}
Infos == [host : Hosts, pid : Pids, start_time : Nat]

ASSUME LockFileAssumption == /\ DOMAIN HostOf = Procs
                             /\ NoFile \notin Inodes
                             /\ Empty \notin Infos
                             /\ HasSysinfo \in BOOLEAN
                             /\ MaxEnds \in Nat
                             /\ MaxErrors \in Nat

VARIABLES path, lock_path,  (* the files the two names stand for             *)
          content,          (* of each file                                  *)
          clock,            (* the last start time                           *)
          pid, start_time,  (* of the present or the last life of a process  *)
          pc,               (* where each process is                         *)
          call,             (* what it is doing there                        *)
          fd,               (* the file it has opened in create_exn          *)
          info,             (* what it has read in unlock_safely_exn         *)
          locked,           (* create_exn has returned, and it has not begun *)
                            (* to unlock                                     *)
          at_exit,          (* create_exn has returned in this life          *)
          errors

files == <<path, lock_path, content>>
life  == <<clock, pid, start_time>>
vars  == <<files, life, pc, call, fd, info, locked, at_exit, errors>>

Unlocking == {"file_exists", "of_file", "decide", "unlink", "unlink_lock"}
Creating  == {"openfile", "link"}
Linked    == {"ftruncate", "fprintf", "undo", "undo_lock"}

TypeOK == /\ path \in Inodes \cup {NoFile} /\ lock_path \in Inodes \cup {NoFile}
          /\ content \in [Inodes -> Infos \cup {Empty}]
          /\ clock \in Nat
          /\ pid \in [Procs -> Pids] /\ start_time \in [Procs -> Nat]
          /\ pc \in [Procs -> {"dead", "idle"} \cup Unlocking \cup Creating \cup Linked]
          /\ call \in [Procs -> {"none", "create", "unlock", "exit"}]
          /\ fd \in [Procs -> Inodes \cup {NoFile}]
          /\ info \in [Procs -> Infos \cup {Empty}]
          /\ locked \in [Procs -> BOOLEAN] /\ at_exit \in [Procs -> BOOLEAN]
          /\ errors \in 0 .. MaxErrors
          /\ \A p \in Procs : /\ call[p] = "none" <=> pc[p] \in {"dead", "idle"}
                              /\ pc[p] \in Creating \cup Linked => call[p] = "create"
                              /\ fd[p] # NoFile <=> pc[p] \in {"link"} \cup Linked
                              /\ info[p] # Empty <=> pc[p] \in {"decide", "unlink", "unlink_lock"}

Init == /\ path = NoFile /\ lock_path = NoFile
        /\ content = [i \in Inodes |-> Empty]
        /\ clock = 0
        /\ pid \in [Procs -> Pids]
        /\ start_time = [p \in Procs |-> 0]
        /\ pc = [p \in Procs |-> "dead"]
        /\ call = [p \in Procs |-> "none"]
        /\ fd = [p \in Procs |-> NoFile]
        /\ info = [p \in Procs |-> Empty]
        /\ locked = [p \in Procs |-> FALSE] /\ at_exit = [p \in Procs |-> FALSE]
        /\ errors = 0

-----------------------------------------------------------------------------
(* The processes. *)

Alive(p) == pc[p] # "dead"
MayEnd   == clock - Cardinality({p \in Procs : Alive(p)}) < MaxEnds

\* A process is started, with a pid no living process of its host has.
Start(p) == /\ ~ Alive(p)
            /\ \E n \in Pids :
                  /\ \A q \in Procs : Alive(q) /\ HostOf[q] = HostOf[p] => pid[q] # n
                  /\ pid' = [pid EXCEPT ![p] = n]
            /\ clock' = clock + 1
            /\ start_time' = [start_time EXCEPT ![p] = clock + 1]
            /\ pc' = [pc EXCEPT ![p] = "idle"]
            /\ UNCHANGED <<files, call, fd, info, locked, at_exit, errors>>

\* What becomes of a process that has ended: its files are closed.
End(p) == /\ pc' = [pc EXCEPT ![p] = "dead"]
          /\ call' = [call EXCEPT ![p] = "none"]
          /\ fd' = [fd EXCEPT ![p] = NoFile]
          /\ info' = [info EXCEPT ![p] = Empty]
          /\ locked' = [locked EXCEPT ![p] = FALSE]
          /\ at_exit' = [at_exit EXCEPT ![p] = FALSE]

\* It is killed, at any point.
Kill(p) == /\ Alive(p) /\ MayEnd
           /\ End(p)
           /\ UNCHANGED <<files, life, errors>>

\* Info.create.
Info(p) == [host |-> HostOf[p], pid |-> pid[p], start_time |-> start_time[p]]

\* Mutant: only pids are compared.
StartMatchesAlways(i, p) == TRUE

\* pid_start_matches_lock: without sysinfo there is nothing to compare.
StartMatches(i, p) == HasSysinfo => i.start_time = start_time[p]

\* is_locked_by_me.
IsLockedByMe(i, p) == i.pid = pid[p] /\ StartMatches(i, p)

\* What locking_pid_exists can answer on the host of i.  A pid that none of
\* these processes has may be that of any other program; the start time of
\* such a program is not the one in the file.
LockingPidExists(i) ==
    IF \E q \in Procs : Alive(q) /\ HostOf[q] = i.host /\ IsLockedByMe(i, q) THEN {TRUE}
    ELSE IF HasSysinfo THEN {FALSE} ELSE BOOLEAN

-----------------------------------------------------------------------------
(* unlock_safely_exn and create_exn *)

Goto(p, from, to) == pc[p] = from /\ pc' = [pc EXCEPT ![p] = to]

Local == <<life, call, locked, at_exit>>

\* create_exn, unlock_exn, or exit with the at_exit handler of create_exn; a
\* process that has created nothing just ends.  blocking_create and
\* critical_section make these calls, the former again and again.
Call(p, c) ==
    /\ Goto(p, "idle", "file_exists")
    /\ c = "exit" => at_exit[p] /\ MayEnd
    /\ call' = [call EXCEPT ![p] = c]
    /\ locked' = [locked EXCEPT ![p] = @ /\ c = "create"]
    /\ UNCHANGED <<files, life, fd, info, at_exit, errors>>

Quit(p) == /\ pc[p] = "idle" /\ ~ at_exit[p] /\ MayEnd
           /\ End(p)
           /\ UNCHANGED <<files, life, errors>>

\* A call returns or raises, the fd closed by finally.  After the handler of
\* at_exit, which ignores errors, the process ends.
Return(p) ==
    IF call[p] = "exit" THEN End(p) /\ UNCHANGED life
    ELSE /\ pc' = [pc EXCEPT ![p] = "idle"]
         /\ call' = [call EXCEPT ![p] = "none"]
         /\ fd' = [fd EXCEPT ![p] = NoFile]
         /\ info' = [info EXCEPT ![p] = Empty]
         /\ UNCHANGED <<life, locked, at_exit>>

\* The end of unlock_safely_exn.
Unlocked(p) ==
    IF call[p] = "create"
    THEN /\ pc' = [pc EXCEPT ![p] = "openfile"]
         /\ info' = [info EXCEPT ![p] = Empty]
         /\ UNCHANGED <<fd, Local>>
    ELSE Return(p)

FileExists(p) ==
    /\ pc[p] = "file_exists"
    /\ IF lock_path = NoFile THEN Unlocked(p)
       ELSE Goto(p, "file_exists", "of_file") /\ UNCHANGED <<fd, info, Local>>
    /\ UNCHANGED <<files, errors>>

\* Info.of_file lock_path; the file may be gone again, or have nothing in it.
OfFile(p) ==
    /\ pc[p] = "of_file"
    /\ IF lock_path = NoFile \/ content[lock_path] = Empty THEN Return(p)
       ELSE /\ Goto(p, "of_file", "decide")
            /\ info' = [info EXCEPT ![p] = content[lock_path]]
            /\ UNCHANGED <<fd, Local>>
    /\ UNCHANGED <<files, errors>>

Decide(p) ==
    /\ pc[p] = "decide"
    /\ \E exists \in LockingPidExists(info[p]) :
          IF /\ info[p].host = HostOf[p]
             /\ (call[p] # "create" /\ IsLockedByMe(info[p], p)) \/ ~ exists
          THEN Goto(p, "decide", "unlink") /\ UNCHANGED <<fd, info, Local>>
          ELSE Return(p)
    /\ UNCHANGED <<files, errors>>

\* Mutant: path is left where it is.
UnlinkNothing(p) ==
    /\ Goto(p, "unlink", "unlink_lock")
    /\ UNCHANGED <<files, fd, info, Local, errors>>

\* Unix.unlink path; that it is not there does not matter.
Unlink(p) ==
    /\ Goto(p, "unlink", "unlink_lock")
    /\ path' = NoFile
    /\ UNCHANGED <<lock_path, content, fd, info, Local, errors>>

UnlinkLock(p) ==
    /\ pc[p] = "unlink_lock"
    /\ IF lock_path = NoFile THEN Return(p) ELSE Unlocked(p)
    /\ lock_path' = NoFile
    /\ UNCHANGED <<path, content, errors>>

\* openfile with O_CREAT: a new file is one that has no name and is not open.
Openfile(p) ==
    /\ Goto(p, "openfile", "link")
    /\ \/ /\ path # NoFile
          /\ fd' = [fd EXCEPT ![p] = path]
          /\ UNCHANGED <<path, content>>
       \/ /\ path = NoFile
          /\ \E i \in Inodes :
                /\ i # lock_path /\ \A q \in Procs : fd[q] # i
                /\ path' = i
                /\ fd' = [fd EXCEPT ![p] = i]
                /\ content' = [content EXCEPT ![i] = Empty]
    /\ UNCHANGED <<lock_path, info, Local, errors>>

\* Mutant: the name is given even if it is taken, as rename would.
LinkOver(p) ==
    /\ pc[p] = "link"
    /\ IF path # NoFile
       THEN /\ Goto(p, "link", "ftruncate")
            /\ lock_path' = path
            /\ UNCHANGED <<fd, info, Local>>
       ELSE Return(p) /\ UNCHANGED lock_path
    /\ UNCHANGED <<path, content, errors>>

\* Unix.link, of the file that has the name path by now.
Link(p) ==
    /\ pc[p] = "link"
    /\ IF path # NoFile /\ lock_path = NoFile
       THEN /\ Goto(p, "link", "ftruncate")
            /\ lock_path' = path
            /\ UNCHANGED <<fd, info, Local>>
       ELSE Return(p) /\ UNCHANGED lock_path
    /\ UNCHANGED <<path, content, errors>>

Ftruncate(p) ==
    /\ Goto(p, "ftruncate", "fprintf")
    /\ content' = [content EXCEPT ![fd[p]] = Empty]
    /\ UNCHANGED <<path, lock_path, fd, info, Local, errors>>

\* The line is written, the channel closed, and the handler of at_exit added.
Fprintf(p) ==
    /\ Goto(p, "fprintf", "idle")
    /\ content' = [content EXCEPT ![fd[p]] = Info(p)]
    /\ call' = [call EXCEPT ![p] = "none"]
    /\ fd' = [fd EXCEPT ![p] = NoFile]
    /\ locked' = [locked EXCEPT ![p] = TRUE]
    /\ at_exit' = [at_exit EXCEPT ![p] = TRUE]
    /\ UNCHANGED <<path, lock_path, life, info, errors>>

\* finally after a line that could not be written: close_out_noerr writes what
\* is left in the buffer if it can.
CloseOut(p) == content' \in {content, [content EXCEPT ![fd[p]] = Info(p)]}

\* The line could not be written: both names are removed again.
Undo(p) ==
    /\ pc[p] = "undo"
    /\ IF path # NoFile THEN Goto(p, "undo", "undo_lock") /\ UNCHANGED <<content, fd, info, Local>>
       ELSE CloseOut(p) /\ Return(p)
    /\ path' = NoFile
    /\ UNCHANGED <<lock_path, errors>>

UndoLock(p) ==
    /\ pc[p] = "undo_lock"
    /\ lock_path' = NoFile
    /\ CloseOut(p) /\ Return(p)
    /\ UNCHANGED <<path, errors>>

\* A system call fails for a reason of its own.  Part of a line is no info, so
\* a file with it is as good as empty.
Error(p) ==
    /\ errors < MaxErrors /\ errors' = errors + 1
    /\ \/ /\ pc[p] \in (Unlocking \ {"decide"}) \cup Creating \cup {"ftruncate"}
          /\ Return(p) /\ UNCHANGED content
       \/ /\ Goto(p, "fprintf", "undo")
          /\ UNCHANGED <<content, fd, info, Local>>
       \/ /\ pc[p] \in {"undo", "undo_lock"}
          /\ CloseOut(p) /\ Return(p)
    /\ UNCHANGED <<path, lock_path>>

-----------------------------------------------------------------------------

Step(p) == \/ FileExists(p) \/ OfFile(p) \/ Decide(p) \/ Unlink(p) \/ UnlinkLock(p)
           \/ Openfile(p) \/ Link(p) \/ Ftruncate(p) \/ Fprintf(p)
           \/ Undo(p) \/ UndoLock(p)

Next == \E p \in Procs :
            \/ Start(p) \/ Kill(p) \/ Quit(p)
            \/ \E c \in {"create", "unlock", "exit"} : Call(p, c)
            \/ Step(p) \/ Error(p)

Spec == Init /\ [][Next]_vars

\* A call that has begun goes on, a program that has ended is started again,
\* and tries to get the lock: blocking_create.
Fairness == \A p \in Procs :
    WF_vars(Step(p)) /\ WF_vars(Start(p)) /\ WF_vars(Call(p, "create"))

FairSpec == Spec /\ Fairness

-----------------------------------------------------------------------------

\* The use the library is made for: one program on each machine.
OneProgram == \A p, q \in Procs : HostOf[p] = HostOf[q] => p = q

\* p has the lock, in create_exn or after it.
Holds(p) == pc[p] \in Linked \/ locked[p]

\* With one program on each machine two never have the lock: neither a program
\* that was killed and runs again, nor one that finds a dead lock, removes a
\* lock that is held, whatever the others do between the reading of lock_path
\* and its removal (unlock_safely_exn, create_exn).
Exclusion ==
    \A p, q \in Procs : Holds(p) /\ Holds(q) => p = q

\* The file a process has locked is never one that says it is another's, which
\* is what protects it from being cleaned up (create_exn, unlock_safely_exn).
LockIsOurs ==
    \A p \in Procs : Holds(p) =>
        lock_path # NoFile /\ content[lock_path] \in {Empty, Info(p)}

\* The lock of a life that has ended.
Stale(p) == /\ lock_path # NoFile /\ content[lock_path] # Empty
            /\ content[lock_path].host = HostOf[p]
            /\ content[lock_path].start_time # start_time[p] \/ ~ Alive(p)

\* The lock of a program that was killed is removed once the program runs
\* again, even when its pid is in use again (process_start_time).
StaleReclaimed == \A p \in Procs : Stale(p) ~> ~ Stale(p)
=============================================================================
