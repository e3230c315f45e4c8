------------------------------- MODULE Deploy -------------------------------
(***************************************************************************)
(* scripts/deploy.sh, which an operator runs again and again from another  *)
(* machine, against the processes of InitScript, a speaker that may be     *)
(* power-cycled at any step and boots the init script on its own, a        *)
(* connection that may break and copies that may fail.                     *)
(*                                                                         *)
(* step is the command of deploy.sh that runs next.  Under set -e an error *)
(* ends the script, except where the code says || true: then the script    *)
(* goes on without what the command should have done.  The commands        *)
(* between mount -o remount,rw and its trap run in one shell of the        *)
(* speaker, which a broken connection does not end.                        *)
(***************************************************************************)
EXTENDS InitScript, Naturals

CONSTANT MaxFaults   \* bound on power cycles, errors and commands by hand

ASSUME DeployAssumption ==
  /\ MaxFaults \in Nat
  /\ Nil # Torn
  /\ Nil \notin {"stock", "redirected", "ok"}
  /\ Torn \notin {"stock", "redirected", "ok"}

VARIABLES
  init,    \* /etc/init.d/preset-server: Nil, Torn or "ok"
  links,   \* the rc.d links of update-rc.d
  xml,     \* SoundTouchSdkPrivateCfg.xml: "stock", Torn or "redirected"
  orig,    \* /mnt/nv/SoundTouchSdkPrivateCfg.xml.orig: those, or Nil
  rootfs,  \* how / is mounted: "ro" or "rw"
  booting, \* has init still to start what the links name?
  step,    \* where deploy.sh is
  build,   \* the binary it has built
  faults   \* faults so far

disk == <<init, links, xml, orig, rootfs>>
deployVars == <<initVars, disk, booting, step, build, faults>>

Window == {"init", "orig", "xml"}
Steps == Window \cup
  {"idle", "stop", "kill", "push", "copy", "rest", "rw", "links", "start",
   "poll", "verify", "done"}

\* A speaker that was never deployed to, or whose /mnt/nv was wiped.
DeployInit ==
  /\ bin = Nil
  /\ conf = FALSE
  /\ proc = NoProcs
  /\ pidfile = Nil
  /\ ctl = "idle"
  /\ \/ init = Nil /\ links = FALSE /\ xml = "stock"
     \/ init = "ok" /\ links \in BOOLEAN /\ xml = "redirected"
  /\ orig = Nil
  /\ rootfs = "ro"
  /\ booting = FALSE
  /\ step = "idle"
  /\ build = Nil
  /\ faults = 0

-----------------------------------------------------------------------------
(* deploy.sh.                                                              *)

Goto(s) == step' = s /\ UNCHANGED <<booting, build, faults>>

\* 0 and 1: sources, connection, build.
Preflight ==
  /\ step \in {"idle", "done"}
  /\ \E v \in Versions : build' = v
  /\ step' = "stop"
  /\ ctl' = "idle"
  /\ UNCHANGED <<bin, conf, proc, pidfile, disk, booting, faults>>

\* 2: the init script if there is one (a torn one does nothing), || true.
StopInstance ==
  /\ step = "stop"
  /\ Goto("kill")
  /\ IF init = "ok" THEN Stop ELSE UNCHANGED initVars
  /\ UNCHANGED disk

\* The listener of port 8000, if any; a daemon that does not listen yet is
\* not found.
KillNothing ==
  /\ step = "kill"
  /\ Goto("push")
  /\ UNCHANGED <<initVars, disk>>
KillListener ==
  /\ step = "kill"
  /\ Goto("push")
  /\ IF Healthy THEN \E p \in InPhase("serving") : Term(p) ELSE UNCHANGED proc
  /\ UNCHANGED <<bin, conf, pidfile, ctl, disk>>

\* 3: scp opens the binary for writing, which fails while it is executed
\* (ETXTBSY), and truncates it.
PushOpensBusy ==
  /\ step = "push"
  /\ Goto("copy")
  /\ bin' = Torn
  /\ UNCHANGED <<conf, proc, pidfile, ctl, disk>>
PushOpens ==
  /\ step = "push"
  /\ IF \E p \in Procs : Alive(p)
       THEN Goto("idle") /\ UNCHANGED bin
       ELSE Goto("copy") /\ bin' = Torn
  /\ UNCHANGED <<conf, proc, pidfile, ctl, disk>>

\* An error of scp is an Abort; a copy that differs is found by its md5.
PushCopies ==
  /\ step = "copy"
  /\ Goto("rest")
  /\ bin' = build
  /\ UNCHANGED <<conf, proc, pidfile, ctl, disk>>

\* presets.conf and the files that are only staged; the md5 of the binary.
PushRestUnverified ==
  /\ step = "rest"
  /\ conf' = TRUE
  /\ Goto("rw")
  /\ UNCHANGED <<bin, proc, pidfile, ctl, disk>>
PushRest ==
  /\ step = "rest"
  /\ conf' = TRUE
  /\ IF bin = build THEN Goto("rw") ELSE Goto("idle")
  /\ UNCHANGED <<bin, proc, pidfile, ctl, disk>>

\* 4: the guard on the fields of the live configuration passes.
RemountRW ==
  /\ step = "rw"
  /\ Goto("init")
  /\ rootfs' = "rw"
  /\ UNCHANGED <<initVars, init, links, xml, orig>>

InstallInit ==
  /\ step = "init"
  /\ Goto("orig")
  /\ init' = "ok"
  /\ UNCHANGED <<initVars, links, xml, orig, rootfs>>

\* grep -q '127.0.0.1:8000': the beginning of a redirected file may lack it.
Marked == xml = "redirected"
Unmarked == xml # "redirected"

BackUpAlways ==
  /\ step = "orig"
  /\ Goto("xml")
  /\ orig' = IF orig = Nil THEN xml ELSE orig
  /\ UNCHANGED <<initVars, init, links, xml, rootfs>>
BackUp ==
  /\ step = "orig"
  /\ Goto("xml")
  /\ \/ orig = Nil /\ Unmarked /\ orig' = xml
     \/ (orig # Nil \/ Marked \/ xml = Torn) /\ UNCHANGED orig
  /\ UNCHANGED <<initVars, init, links, xml, rootfs>>

\* The trap of the window remounts; / may refuse that (a file on it is open
\* for writing), || true.
Trap == rootfs' = "ro" \/ UNCHANGED rootfs

\* The redirect, and the trap.
Redirect ==
  /\ step = "xml"
  /\ Goto("links")
  /\ xml' = "redirected"
  /\ Trap
  /\ UNCHANGED <<initVars, init, links, orig>>

\* update-rc.d, || true: the links are files of /, which the trap has closed.
\* The stage is removed and SSH kept enabled.
UpdateLinks ==
  /\ step = "links"
  /\ Goto("start")
  /\ links' \in {links} \cup IF rootfs = "rw" THEN {TRUE} ELSE {}
  /\ UNCHANGED <<initVars, init, xml, orig, rootfs>>

\* 5: init start, which ends by itself.
StartInstance ==
  /\ step = "start"
  /\ Goto("poll")
  /\ Start
  /\ UNCHANGED disk

PollInstance ==
  /\ step = "poll"
  /\ StartUp
  /\ IF ctl' = "started" THEN Goto("verify") ELSE Goto("idle")
  /\ UNCHANGED disk

\* 6: /healthz once more.
Verify ==
  /\ step = "verify"
  /\ IF Healthy THEN Goto("done") ELSE Goto("idle")
  /\ UNCHANGED <<initVars, disk>>

Script ==
  \/ StopInstance
  \/ KillListener
  \/ PushOpens
  \/ PushCopies
  \/ PushRest
  \/ RemountRW
  \/ InstallInit
  \/ BackUp
  \/ Redirect
  \/ UpdateLinks
  \/ StartInstance
  \/ PollInstance
  \/ Verify

-----------------------------------------------------------------------------
(* What goes wrong, boots, and commands by hand.                           *)

Fault == faults < MaxFaults /\ faults' = faults + 1

\* The connection breaks, or a command of deploy.sh fails, outside of the
\* window.  What scp had not finished stays as it is.
Abort ==
  /\ Fault
  /\ step \in Steps \ (Window \cup {"idle", "done"})
  /\ step' = "idle"
  /\ ctl' = "idle"
  /\ UNCHANGED <<bin, conf, proc, pidfile, disk, booting, build>>

\* The connection breaks while an instance is stopped, || true.
StopMissed ==
  /\ Fault
  /\ \/ step = "stop" /\ step' = "kill"
     \/ step = "kill" /\ step' = "push"
  /\ UNCHANGED <<initVars, disk, booting, build>>

\* What the cp of a step in the window leaves when it fails or the power
\* goes: nothing of it, or a part.
Damage ==
  /\ init' \in {init} \cup IF step = "init" THEN {Torn} ELSE {}
  /\ orig' \in {orig} \cup
       IF step = "orig" /\ orig = Nil /\ Unmarked THEN {Torn} ELSE {}
  /\ xml' \in {xml} \cup IF step = "xml" THEN {Torn} ELSE {}
  /\ UNCHANGED links

\* The mount or a cp fails: set -e ends the remote shell, by its trap.
CommandFails ==
  /\ Fault
  /\ step \in {"rw"} \cup Window
  /\ Damage
  /\ Trap
  /\ step' = "idle"
  /\ UNCHANGED <<initVars, booting, build>>

\* scp ends well, and yet the binary is not what was sent.
CopySpoiled ==
  /\ Fault
  /\ step = "copy"
  /\ step' = "rest"
  /\ UNCHANGED <<initVars, disk, booting, build>>

\* The speaker goes down and boots; deploy.sh loses its connection.
Boot ==
  /\ proc' = NoProcs
  /\ pidfile' = Nil
  /\ ctl' = "idle"
  /\ rootfs' = "ro"
  /\ booting' = TRUE
  /\ step' = "idle"
  /\ UNCHANGED build

PowerCycle == Fault /\ Boot /\ Damage /\ UNCHANGED <<bin, conf>>

\* 7: the operator lets deploy.sh reboot the speaker.
Reboot ==
  /\ step = "done"
  /\ Boot
  /\ UNCHANGED <<bin, conf, init, links, xml, orig, faults>>

\* The links start the service, in parallel with whoever has logged in.
BootStarts ==
  /\ booting
  /\ booting' = FALSE
  /\ IF links /\ init = "ok" /\ bin # Nil
       THEN Spawn ELSE UNCHANGED <<proc, pidfile>>
  /\ UNCHANGED <<bin, conf, ctl, disk, step, build, faults>>

\* The operator starts or stops the service without deploying.
ByHand ==
  /\ Fault
  /\ step = "idle"
  /\ Start \/ Stop
  /\ UNCHANGED <<disk, booting, step, build>>

Daemons == DaemonStep /\ UNCHANGED <<disk, booting, step, build, faults>>

DeployRest ==
  \/ Script
  \/ Abort
  \/ StopMissed
  \/ CommandFails
  \/ CopySpoiled
  \/ PowerCycle
  \/ Reboot
  \/ BootStarts
  \/ ByHand
  \/ Daemons

DeployNext == Preflight \/ DeployRest

DeploySpec == DeployInit /\ [][DeployNext]_deployVars

-----------------------------------------------------------------------------
(* Properties.                                                             *)

Files == {"stock", "redirected", Torn}

FaultsBounded == faults \in 0..MaxFaults

DeployTypeOK ==
  /\ InitScriptTypeOK
  /\ init \in {Nil, Torn, "ok"}
  /\ links \in BOOLEAN
  /\ xml \in Files
  /\ orig \in Files \cup {Nil}
  /\ rootfs \in {"ro", "rw"}
  /\ booting \in BOOLEAN
  /\ step \in Steps
  /\ build \in Versions \cup {Nil}
  /\ FaultsBounded

\* deploy.sh that says "Deploy complete" has deployed: what serves is the
\* binary it has just built, never one that an earlier run, a boot or a stop
\* that missed it has left behind (deploy.sh:109-112, 158-168).
DeployedIsServed ==
  step = "done" =>
    /\ \E p \in InPhase("serving") : proc[p].exe = build
    /\ bin = build /\ init = "ok" /\ xml = "redirected"

\* What a run of deploy.sh has done when it is at a later step: from the push
\* of the binary on nothing but that binary runs, also if the speaker boots
\* meanwhile, the files of / are copied while it is writable, and every file is
\* in place before the service starts.
Installed   == {"init", "orig", "xml", "links", "start", "poll", "verify", "done"}
Redirected  == {"links", "start", "poll", "verify", "done"}
Progress ==
  /\ step \in {"copy", "rest", "rw"} \cup Installed =>
       \A p \in Procs : Alive(p) => proc[p].exe = build
  /\ step = "copy" => bin = Torn
  /\ step = "rest" => bin \in {build, Torn}
  /\ step \in {"rw"} \cup Installed => bin = build
  /\ step \in Window => rootfs = "rw"
  /\ step \in Installed \ {"init"} => init = "ok"
  /\ step \in Redirected => xml = "redirected"
  /\ step = "done" => Healthy

\* deploy.sh:5-6: deploy.sh "installs boot persistence", and line 153 reports
\* "init installed + rc.d symlinks": a speaker that was deployed to starts the
\* service when it boots.  Does not hold: update-rc.d runs after the trap has
\* made / read-only again, and its failure is not shown.
StartsAtBoot == step = "done" => links

\* "so we never snapshot a redirected file as the '.orig' that recovery
\* restores from" (deploy.sh:139-141): a whole one.
BackupIsNotRedirected == orig # "redirected"

\* "It is idempotent: safe to re-run" (deploy.sh:7-9): the stock file, in its
\* place or as the backup that an undo restores, is never lost.  Does not
\* hold: what an interrupted copy has left counts as the backup, and the next
\* run overwrites the original.
StockSurvives ==
  [][xml = "stock" \/ orig = "stock"
       => xml' = "stock" \/ orig' = "stock"]_deployVars

=============================================================================
