----------------------------- MODULE InitScript -----------------------------
(***************************************************************************)
(* /etc/init.d/preset-server and the processes it manages.                 *)
(*                                                                         *)
(* start runs  sh -c "exec DAEMON ... | logger"  in the background.  A     *)
(* shell runs each side of a pipeline in a process of its own, so the pid  *)
(* that start-stop-daemon records is that of the shell, which lives until  *)
(* logger sees the end of the daemon's output; a signal to the shell does  *)
(* not reach the daemon.                                                   *)
(*                                                                         *)
(* One element of proc stands for a daemon and its shell.  Times are       *)
(* abstracted: start gives up after a minute, which is longer than         *)
(* -mount-wait, so it does not give up on a daemon that waits for the      *)
(* stick.                                                                  *)
(***************************************************************************)
CONSTANTS
  Procs,     \* bound on the daemons alive at the same time
  Versions,  \* builds of the binary
  Torn,      \* a file whose copy is not complete
  Nil        \* no file, no process, no pid file

VARIABLES
  bin,      \* /mnt/nv/preset-server
  conf,     \* is there a stick or a cache that Load accepts?
  proc,     \* daemons and their shells
  pidfile,  \* /var/run/preset-server.pid
  ctl       \* what the init script did last, or is doing

initVars == <<bin, conf, proc, pidfile, ctl>>

ASSUME InitScriptAssumption == Torn \notin Versions /\ Nil \notin Versions \cup Procs

Phases == {"mount", "serving", "draining"}
Processes == [exe : Versions, phase : Phases, shell : BOOLEAN]

NoProcs == [p \in Procs |-> Nil]

Alive(p) == proc[p] # Nil
InPhase(phase) == {p \in Procs : Alive(p) /\ proc[p].phase = phase}

\* Somebody answers /healthz on port 8000.
Healthy == InPhase("serving") # {}

\* kill -0 of the recorded pid.
Running == pidfile # Nil /\ Alive(pidfile) /\ proc[pidfile].shell

InitScriptInit ==
  /\ bin \in Versions
  /\ conf = TRUE
  /\ proc = NoProcs
  /\ pidfile = Nil
  /\ ctl = "idle"

-----------------------------------------------------------------------------
(* The script.                                                             *)

\* start-stop-daemon --start does nothing while the recorded process runs.
\* What is no complete program is not executed, and its shell ends at once.
Spawn ==
  IF Running THEN UNCHANGED <<proc, pidfile>>
  ELSE IF bin \in Versions
    THEN \E p \in Procs :
           /\ ~Alive(p)
           /\ proc' = [proc EXCEPT
                ![p] = [exe |-> bin, phase |-> "mount", shell |-> TRUE]]
           /\ pidfile' = p
    ELSE pidfile' = Nil /\ UNCHANGED proc

\* test -x "$DAEMON" ends any command without a binary.
Start ==
  /\ ctl # "starting"
  /\ IF bin = Nil
       THEN ctl' = "failed" /\ UNCHANGED <<proc, pidfile>>
       ELSE ctl' = "starting" /\ Spawn
  /\ UNCHANGED <<bin, conf>>

\* The poll of /healthz, and its end.
StartUp ==
  /\ ctl = "starting"
  /\ \/ Healthy /\ ctl' = "started"
     \/ ~Healthy /\ InPhase("mount") = {} /\ ctl' = "failed"
  /\ UNCHANGED <<bin, conf, proc, pidfile>>

\* The shell gets SIGTERM and ends; the pid file is removed.
StopShell ==
  /\ proc' = IF Running THEN [proc EXCEPT ![pidfile].shell = FALSE] ELSE proc
  /\ pidfile' = Nil

Stop ==
  /\ ctl # "starting"
  /\ IF bin = Nil
       THEN ctl' = "failed" /\ UNCHANGED <<proc, pidfile>>
       ELSE ctl' = "stopped" /\ StopShell
  /\ UNCHANGED <<bin, conf>>

-----------------------------------------------------------------------------
(* The daemon (main.go).                                                   *)

\* After WaitForFile and Load it listens; log.Fatalf without a configuration
\* or when the port is taken.
Listen(p) ==
  /\ Alive(p) /\ proc[p].phase = "mount"
  /\ proc' = [proc EXCEPT ![p] =
                IF conf /\ ~Healthy THEN [@ EXCEPT !.phase = "serving"]
                                    ELSE Nil]
  /\ UNCHANGED <<bin, conf, pidfile, ctl>>

\* SIGTERM: Shutdown closes the listener and waits for requests in progress.
\* Before the daemon listens it is not caught.
Term(p) ==
  proc' = [proc EXCEPT ![p] =
             IF @.phase = "mount" THEN Nil ELSE [@ EXCEPT !.phase = "draining"]]

Drained(p) ==
  /\ Alive(p) /\ proc[p].phase = "draining"
  /\ proc' = [proc EXCEPT ![p] = Nil]
  /\ UNCHANGED <<bin, conf, pidfile, ctl>>

DaemonStep == \E p \in Procs : Listen(p) \/ Drained(p)

InitScriptNext == Start \/ StartUp \/ Stop \/ DaemonStep

InitScriptSpec == InitScriptInit /\ [][InitScriptNext]_initVars

-----------------------------------------------------------------------------
(* Properties.                                                             *)

InitScriptTypeOK ==
  /\ bin \in Versions \cup {Torn, Nil}
  /\ conf \in BOOLEAN
  /\ proc \in [Procs -> Processes \cup {Nil}]
  /\ pidfile \in Procs \cup {Nil}
  /\ ctl \in {"idle", "starting", "started", "failed", "stopped"}

\* preset-server.init:33-34: "exec replaces /bin/sh so --make-pidfile records
\* the daemon's PID": what start has started, stop stops.  Does not hold: the
\* recorded pid is the shell's, and the daemon keeps serving.
StopStops == ctl = "stopped" => ~Healthy

=============================================================================
