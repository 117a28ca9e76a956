-------------------------------- MODULE Daemon -------------------------------
(***************************************************************************)
(* Daemon.daemonize_wait (core_unix/daemon).  Three processes: the one     *)
(* that was started, which waits for its child; that child, which watches  *)
(* the daemon through its status and a pipe; and the daemon, which runs    *)
(* the program and calls release when it has started.  The status of the   *)
(* first tells the shell whether the daemon is up.  Each system call is a  *)
(* step, and every process can be killed before any of them.               *)
(***************************************************************************)
EXTENDS Integers

CONSTANTS Codes,    (* with which the program may exit                       *)
          Signals   (* OCaml's numbers of the signals others kill with       *)

Uncaught == 2   (* the code of an exception nobody handles, and of           *)
                (* handle_unix_error                                         *)
SIGPIPE  == -8

ASSUME DaemonAssumption == /\ Codes \subseteq 0 .. 255
                           /\ Signals \subseteq Int \ {SIGPIPE}
                           /\ \A s \in Signals : s % 256 # 0

Processes == {"started", "watcher", "daemon"}

VARIABLES place,     (* where each process is, or why it is not there        *)
          status,    (* of each process that has ended                       *)
          pipe,      (* whether "done" is in the pipe                        *)
          inherited, (* a child of the daemon has the write end too          *)
          sigpipe,   (* what the daemon does on SIGPIPE                      *)
          stdio,     (* how many standard fds of the daemon are redirected   *)
          release    (* how far release has come for the others: it has sent *)
                     (* the message, or closed the pipe too                  *)

daemonVars == <<place, status, pipe, inherited, sigpipe, stdio, release>>

Watching  == {"close_write", "wait_nohang", "select", "read"}
Releasing == {"redirect", "ignore", "write", "restore", "close"}

Running      == [how |-> "running", n |-> 0]
Exited(n)    == [how |-> "exit", n |-> n % 256]
Signalled(s) == [how |-> "signal", n |-> s]

Statuses == {Running} \cup {Exited(n) : n \in 0 .. 255}
                      \cup {Signalled(s) : s \in Signals \cup {SIGPIPE}}

\* Where each process can be.
Places == [started |-> {"fork", "waitpid", "ended"},
           watcher |-> {"absent", "pipe", "fork", "ended"} \cup Watching,
           daemon  |-> {"absent", "setup", "program", "ended"} \cup Releasing]

DaemonTypeOK == /\ place \in [Processes -> UNION {Places[p] : p \in Processes}]
                /\ \A p \in Processes : place[p] \in Places[p]
                /\ status \in [Processes -> Statuses]
                /\ pipe \in BOOLEAN /\ inherited \in BOOLEAN
                /\ sigpipe \in {"default", "ignore"} /\ release \in {"no", "sent", "over"}
                /\ stdio \in 0 .. 3
                /\ \A p \in Processes : place[p] = "ended" <=> status[p] # Running

DaemonInit == /\ place = [p \in Processes |-> IF p = "started" THEN "fork" ELSE "absent"]
              /\ status = [p \in Processes |-> Running]
              /\ pipe = FALSE /\ inherited = FALSE
              /\ sigpipe = "default"
              /\ stdio = 0
              /\ release = "no"

Present(p) == place[p] \notin {"absent", "ended"}

Go(p, from, to) == place[p] = from /\ place' = [place EXCEPT ![p] = to]

Finish(p, how) == /\ place' = [place EXCEPT ![p] = "ended"]
                  /\ status' = [status EXCEPT ![p] = how]

Others == <<pipe, inherited, sigpipe, stdio, release>>

KillProcess(p) == /\ Present(p)
                  /\ \E s \in Signals : Finish(p, Signalled(s))
                  /\ UNCHANGED Others

\* A child begins where its parent has forked.
Fork(p, to, child, at) ==
    /\ place[p] = "fork"
    /\ \/ place' = [place EXCEPT ![p] = to, ![child] = at] /\ UNCHANGED status
       \/ Finish(p, Exited(Uncaught))
    /\ UNCHANGED Others

-----------------------------------------------------------------------------
(* The process that was started. *)

ForkWatcher == Fork("started", "waitpid", "watcher", "pipe")

process_status_to_exit_code(s) == s.n

Waitpid == /\ place["started"] = "waitpid" /\ place["watcher"] = "ended"
           /\ Finish("started", Exited(process_status_to_exit_code(status["watcher"])))
           /\ UNCHANGED Others

-----------------------------------------------------------------------------
(* The watcher. *)

MakePipe == /\ \/ Go("watcher", "pipe", "fork") /\ UNCHANGED status
               \/ place["watcher"] = "pipe" /\ Finish("watcher", Exited(Uncaught))
            /\ UNCHANGED Others

ForkDaemon == Fork("watcher", "close_write", "daemon", "setup")

CloseWrite == /\ Go("watcher", "close_write", "wait_nohang")
              /\ UNCHANGED <<status, Others>>

\* Mutant: the pipe alone is to tell.
WaitNohangNot == /\ Go("watcher", "wait_nohang", "select")
                 /\ UNCHANGED <<status, Others>>

WaitNohang ==
    /\ IF place["daemon"] = "ended"
       THEN /\ place["watcher"] = "wait_nohang"
            /\ Finish("watcher", Exited(process_status_to_exit_code(status["daemon"])))
       ELSE Go("watcher", "wait_nohang", "select") /\ UNCHANGED status
    /\ UNCHANGED Others

\* The write end is open in the daemon until it closes it, and in the children
\* it was passed to.
HasWriter == (Present("daemon") /\ release # "over") \/ inherited

Readable == pipe \/ ~ HasWriter

\* select returns when there is something to read or the end of the file,
\* after a tenth of a second without, or with EINTR, which is not handled.
Select ==
    /\ \/ Go("watcher", "select", "read") /\ Readable /\ UNCHANGED status
       \/ Go("watcher", "select", "wait_nohang") /\ ~ Readable /\ UNCHANGED status
       \/ place["watcher"] = "select" /\ Finish("watcher", Exited(Uncaught))
    /\ UNCHANGED Others

\* Mutant: the end of the file is as good as a message.
ReadAnything == /\ place["watcher"] = "read"
                /\ Finish("watcher", Exited(0))
                /\ pipe' = FALSE
                /\ UNCHANGED <<inherited, sigpipe, stdio, release>>

Read == /\ IF pipe THEN place["watcher"] = "read" /\ Finish("watcher", Exited(0))
           ELSE Go("watcher", "read", "wait_nohang") /\ UNCHANGED status
        /\ pipe' = FALSE
        /\ UNCHANGED <<inherited, sigpipe, stdio, release>>

Watch == MakePipe \/ ForkDaemon \/ CloseWrite \/ WaitNohang \/ Select \/ Read

-----------------------------------------------------------------------------
(* The daemon. *)

\* The read end is closed; chdir may raise.
Setup == /\ \/ Go("daemon", "setup", "program") /\ UNCHANGED status
            \/ place["daemon"] = "setup" /\ Finish("daemon", Exited(Uncaught))
         /\ UNCHANGED Others

\* The program starts a process, which inherits the write end, or exits.
StartChild == /\ place["daemon"] = "program" /\ release # "over"
              /\ inherited' = TRUE
              /\ UNCHANGED <<place, status, pipe, sigpipe, stdio, release>>

ChildEnds == /\ inherited
             /\ inherited' = FALSE
             /\ UNCHANGED <<place, status, pipe, sigpipe, stdio, release>>

ExitProgram == /\ place["daemon"] = "program"
               /\ \E n \in Codes : Finish("daemon", Exited(n))
               /\ UNCHANGED Others

Release == /\ Go("daemon", "program", "redirect") /\ release # "over"
           /\ UNCHANGED <<status, Others>>

\* Mutant: the message is sent first.
RedirectLast ==
    /\ Go("daemon", "redirect", "ignore")
    /\ UNCHANGED <<status, Others>>

\* redirect_stdio_fds, one fd after the other; a file that cannot be opened
\* makes release raise, and the program may call it again.
Redirect ==
    /\ place["daemon"] = "redirect"
    /\ \/ stdio < 3 /\ stdio' = stdio + 1 /\ UNCHANGED place
       \/ stdio = 3 /\ Go("daemon", "redirect", "ignore") /\ UNCHANGED stdio
       \/ Go("daemon", "redirect", "program") /\ UNCHANGED stdio
    /\ UNCHANGED <<status, pipe, inherited, sigpipe, release>>

\* Mutant: SIGPIPE is left as it was.
IgnoreSigpipeNot == /\ Go("daemon", "ignore", "write")
                    /\ UNCHANGED <<status, Others>>

IgnoreSigpipe == /\ Go("daemon", "ignore", "write")
                 /\ sigpipe' = "ignore"
                 /\ UNCHANGED <<status, pipe, inherited, stdio, release>>

\* write_substring: nobody may be left to read.  Its exceptions are ignored.
Write ==
    /\ place["daemon"] = "write"
    /\ IF Present("watcher") \/ sigpipe = "ignore"
       THEN Go("daemon", "write", "restore") /\ UNCHANGED status
       ELSE Finish("daemon", Signalled(SIGPIPE))
    /\ pipe' = Present("watcher")
    /\ release' = IF Present("watcher") THEN "sent" ELSE release
    /\ UNCHANGED <<inherited, sigpipe, stdio>>

RestoreSigpipe == /\ Go("daemon", "restore", "close")
                  /\ sigpipe' = "default"
                  /\ UNCHANGED <<status, pipe, inherited, stdio, release>>

Close == /\ Go("daemon", "close", "program")
         /\ release' = "over"
         /\ UNCHANGED <<status, pipe, inherited, sigpipe, stdio>>

InRelease == Redirect \/ IgnoreSigpipe \/ Write \/ RestoreSigpipe \/ Close

-----------------------------------------------------------------------------

Done == /\ \A p \in Processes : ~ Present(p)
        /\ ~ inherited
        /\ UNCHANGED daemonVars

DaemonNext == \/ ForkWatcher \/ Waitpid
              \/ Watch
              \/ Setup \/ StartChild \/ ChildEnds \/ ExitProgram \/ Release \/ InRelease
              \/ \E p \in Processes : KillProcess(p)
              \/ Done

DaemonSpec == DaemonInit /\ [][DaemonNext]_daemonVars

\* The first two processes go on.  Nothing obliges the program to call release,
\* to exit or to end its children.
DaemonFairness == /\ WF_daemonVars(ForkWatcher) /\ WF_daemonVars(Waitpid)
                  /\ WF_daemonVars(Watch)

DaemonFairSpec == DaemonSpec /\ DaemonFairness

-----------------------------------------------------------------------------

\* The watcher has not watched to the end: it was killed, or raised.
WatcherFailed == place["watcher"] = "absent" \/ status["watcher"].how = "signal"
                                          \/ status["watcher"].n = Uncaught

\* What the shell is told is true: 0 means that the daemon has sent its message
\* or has ended well, anything else that it or the watcher has ended badly, for
\* every order of message, end, poll and kill (daemonize_wait,
\* process_status_to_exit_code).
VerdictJustified ==
    status["started"].how = "exit" =>
        IF status["started"].n = 0 THEN release # "no" \/ status["daemon"] = Exited(0)
        ELSE WatcherFailed \/ status["daemon"] \notin {Running, Exited(0)}

\* When the shell goes on and the daemon runs, the daemon has let go of the
\* terminal (release).
DetachedWhenTold ==
    status["started"] = Exited(0) /\ Present("daemon") => stdio = 3

\* To release is never fatal, even when those who waited are gone (release).
ReleaseHarmless == status["daemon"] # Signalled(SIGPIPE)

\* The shell is told once the daemon has released or ended, though a child of
\* the daemon may keep the pipe open for ever (daemonize_wait: loop).
VerdictReached ==
    (release = "over" \/ place["daemon"] = "ended") ~> place["started"] = "ended"
=============================================================================
