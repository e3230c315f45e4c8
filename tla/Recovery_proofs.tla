--------------------------- MODULE Recovery_proofs ---------------------------
(***************************************************************************)
(* For any number of daemons, builds and faults: what "Deploy complete"    *)
(* and "WiFi profile accepted" promise, and what an interrupted run leaves *)
(* behind.                                                                 *)
(***************************************************************************)
EXTENDS Recovery, TLAPS

USE InitScriptAssumption, DeployAssumption, WifiAssumption

USE DEF RecoveryIInv, RecoveryTypeOK, DeployTypeOK, InitScriptTypeOK, WifiTypeOK,
        Progress, BackupIsNotRedirected, NeverMistakenForSuccess, Files, Steps, Window, Installed, Redirected

\* The count of faults is only ever moved by a fault.
LEMMA StepFaults ==
  ASSUME FaultsBounded, UNCHANGED faults \/ Fault
  PROVE  FaultsBounded'
  BY DEF FaultsBounded, Fault

\* A speaker that was never deployed to, or was reset, keeps the invariant.
LEMMA InitIInv == RecoveryInit => RecoveryIInv
  <1>1. RecoveryInit => FaultsBounded
    BY DEF RecoveryInit, DeployInit, FaultsBounded
  <1> QED
    BY <1>1 DEF RecoveryInit, DeployInit, WifiInit, NoProcs, Alive

\* What Spawn leaves: a daemon of the installed binary more, or none.
LEMMA SpawnIs ==
  ASSUME RecoveryIInv, Spawn
  PROVE  /\ proc' \in [Procs -> Processes \cup {Nil}]
         /\ pidfile' \in Procs \cup {Nil}
         /\ \A p \in Procs : proc'[p] # Nil =>
              proc'[p] = proc[p] \/ (bin \in Versions /\ proc'[p].exe = bin)
         /\ Healthy => Healthy'
  <1> USE DEF Alive
  <1>1. CASE UNCHANGED <<proc, pidfile>>
    BY <1>1 DEF Healthy, InPhase
  <1>2. CASE pidfile' = Nil /\ UNCHANGED proc
    BY <1>2 DEF Healthy, InPhase
  <1>3. ASSUME NEW q \in Procs, ~Alive(q), bin \in Versions, pidfile' = q,
               proc' = [proc EXCEPT ![q] =
                 [exe |-> bin, phase |-> "mount", shell |-> TRUE]]
        PROVE  /\ proc' \in [Procs -> Processes \cup {Nil}]
               /\ \A p \in Procs : p # q => proc'[p] = proc[p]
               /\ proc'[q].exe = bin
               /\ Healthy => Healthy'
    <2>1. proc' \in [Procs -> Processes \cup {Nil}]
      BY <1>3 DEF Processes, Phases
    <2>2. \A p \in Procs : p # q => proc'[p] = proc[p]
      BY <1>3
    <2>3. proc'[q].exe = bin
      BY <1>3
    <2> QED
      BY <1>3, <2>1, <2>2, <2>3 DEF Healthy, InPhase
  <1> QED
    BY <1>1, <1>2, <1>3 DEF Spawn

\* The shell of a daemon ends, and the daemon stays what it is.
LEMMA StopShellIs ==
  ASSUME RecoveryIInv, StopShell
  PROVE  /\ proc' \in [Procs -> Processes \cup {Nil}]
         /\ pidfile' = Nil
         /\ \A p \in Procs : proc'[p] # Nil =>
              proc[p] # Nil /\ proc'[p].exe = proc[p].exe
  <1>1. CASE proc' = proc /\ pidfile' = Nil
    BY <1>1
  <1>2. CASE /\ Running
             /\ proc' = [proc EXCEPT ![pidfile].shell = FALSE]
             /\ pidfile' = Nil
    <2>1. pidfile \in Procs /\ proc[pidfile] \in Processes
      BY <1>2 DEF Running, Alive
    <2> DEFINE rec == [proc[pidfile] EXCEPT !.shell = FALSE]
    <2>2. proc' = [proc EXCEPT ![pidfile] = rec]
      BY <1>2
    <2>3. rec \in Processes /\ rec.exe = proc[pidfile].exe
      BY <2>1 DEF Processes
    <2>4. proc[pidfile] # Nil
      BY <1>2 DEF Running, Alive
    <2> HIDE DEF rec
    <2> QED
      BY <1>2, <2>1, <2>2, <2>3, <2>4
  <1> QED
    BY <1>1, <1>2 DEF StopShell

\* Every command of deploy.sh keeps the invariant.
LEMMA ScriptIInv ==
  ASSUME RecoveryIInv, Script, UNCHANGED wifiVars
  PROVE  RecoveryIInv'
  <1> USE StepFaults DEF Goto, disk, initVars, wifiVars, Alive
  <1>1. CASE StopInstance
    BY <1>1, StopShellIs DEF StopInstance, Stop
  <1>2. CASE KillListener
    BY <1>2 DEF KillListener, Term, InPhase, Processes, Phases
  <1>3. CASE PushOpens
    BY <1>3 DEF PushOpens
  <1>4. CASE PushCopies
    BY <1>4 DEF PushCopies
  <1>5. CASE PushRest
    BY <1>5 DEF PushRest
  <1>6. CASE RemountRW
    BY <1>6 DEF RemountRW
  <1>7. CASE InstallInit
    BY <1>7 DEF InstallInit
  <1>8. CASE BackUp
    BY <1>8 DEF BackUp, Unmarked
  <1>9. CASE Redirect
    BY <1>9 DEF Redirect, Trap
  <1>10. CASE UpdateLinks
    <2>1. links' \in BOOLEAN
      BY <1>10 DEF UpdateLinks
    <2> QED
      BY <1>10, <2>1 DEF UpdateLinks
  <1>11. CASE StartInstance
    BY <1>11, SpawnIs DEF StartInstance, Start
  <1>12. CASE PollInstance
    BY <1>12 DEF PollInstance, StartUp
  <1>13. CASE Verify
    BY <1>13 DEF Verify, Healthy, InPhase
  <1> QED
    BY <1>1, <1>2, <1>3, <1>4, <1>5, <1>6, <1>7, <1>8, <1>9, <1>10, <1>11,
       <1>12, <1>13 DEF Script

\* Daemons start to listen, end, and are started by a boot.
LEMMA DaemonsIInv ==
  ASSUME RecoveryIInv, Daemons \/ BootStarts, UNCHANGED wifiVars
  PROVE  RecoveryIInv'
  <1> USE StepFaults DEF disk, wifiVars, Alive
  <1>1. ASSUME NEW p \in Procs, Listen(p), Daemons
        PROVE  RecoveryIInv'
    BY <1>1 DEF Listen, Daemons, Healthy, InPhase, Processes, Phases
  <1>2. ASSUME NEW p \in Procs, Drained(p), Daemons
        PROVE  RecoveryIInv'
    BY <1>2 DEF Drained, Daemons, Healthy, InPhase, Processes, Phases
  <1>3. CASE BootStarts
    <2>1. /\ booting' \in BOOLEAN
          /\ UNCHANGED <<bin, conf, ctl, disk, step, build, faults>>
          /\ Spawn \/ UNCHANGED <<proc, pidfile>>
      BY <1>3, Zenon DEF BootStarts
    <2>2. /\ proc' \in [Procs -> Processes \cup {Nil}]
          /\ pidfile' \in Procs \cup {Nil}
          /\ \A p \in Procs : proc'[p] # Nil =>
               proc'[p] = proc[p] \/ (bin \in Versions /\ proc'[p].exe = bin)
          /\ Healthy => Healthy'
      BY <2>1, SpawnIs DEF Healthy, InPhase
    <2>3. RecoveryTypeOK'
      BY <2>1, <2>2
    <2>4. Progress'
      BY <2>1, <2>2
    <2> QED
      BY <2>1, <2>3, <2>4
  <1> QED
    BY <1>1, <1>2, <1>3 DEF Daemons, DaemonStep

\* Broken connections, failing copies, power cycles and the operator.
LEMMA FaultsIInv ==
  ASSUME RecoveryIInv, UNCHANGED wifiVars,
         \/ Abort \/ StopMissed \/ CommandFails \/ CopySpoiled
         \/ PowerCycle \/ Reboot \/ ByHand
  PROVE  RecoveryIInv'
  <1> USE StepFaults DEF disk, initVars, wifiVars, Alive
  <1>1. CASE Abort
    BY <1>1 DEF Abort
  <1>2. CASE CommandFails
    BY <1>2 DEF CommandFails, Trap, Damage
  <1>3. CASE CopySpoiled
    BY <1>3 DEF CopySpoiled
  <1>4. CASE PowerCycle
    BY <1>4 DEF PowerCycle, Boot, Damage, NoProcs
  <1>5. CASE Reboot
    BY <1>5 DEF Reboot, Boot, NoProcs
  <1>6. CASE ByHand
    <2>1. CASE Start
      BY <1>6, <2>1, SpawnIs DEF ByHand, Start
    <2>2. CASE Stop
      BY <1>6, <2>2, StopShellIs DEF ByHand, Stop
    <2> QED
      BY <1>6, <2>1, <2>2 DEF ByHand
  <1>7. CASE StopMissed
    BY <1>7 DEF StopMissed
  <1> QED
    BY <1>1, <1>2, <1>3, <1>4, <1>5, <1>6, <1>7

\* Every step keeps the invariant.
LEMMA NextIInv == RecoveryIInv /\ [RecoveryNext]_recoveryVars => RecoveryIInv'
  <1> SUFFICES ASSUME RecoveryIInv, [RecoveryNext]_recoveryVars
               PROVE  RecoveryIInv'
    OBVIOUS
  <1>1. CASE Redeploy
    BY <1>1, StepFaults DEF Redeploy, Preflight, disk, wifiVars, Alive
  <1>2. CASE DeployStep
    BY <1>2, ScriptIInv, DaemonsIInv, FaultsIInv DEF DeployStep, DeployRest
  <1>3. CASE Provision
    <2> USE DEF Return
    <2>1. /\ FaultsBounded'
          /\ UNCHANGED <<initVars, disk, booting, step, build>> /\ step = "idle"
      BY <1>3, StepFaults DEF Provision
    <2>2. WifiTypeOK' /\ NeverMistakenForSuccess'
      <3>1. CASE PostProfile
        BY <3>1 DEF PostProfile
      <3>2. CASE Accepted
        BY <3>2 DEF Accepted
      <3>3. CASE Rejected
        BY <3>3 DEF Rejected
      <3>4. CASE TransportError
        <4>0. joined' = joined \/ joined' = TRUE
          BY <3>4 DEF TransportError
        <4>1. joined' \in BOOLEAN /\ (joined => joined')
          BY <4>0, Zenon
        <4>2. attempt' \in {0, 1, 2} /\ (told' = told \/ told' = 1)
          BY <3>4 DEF TransportError
        <4> QED
          BY <4>1, <4>2
      <3> QED
        BY <1>3, <3>1, <3>2, <3>3, <3>4 DEF Provision
    <2> QED
      BY <2>1, <2>2 DEF initVars, disk, Alive
  <1>4. CASE FactoryReset
    BY <1>4, StepFaults DEF FactoryReset, Boot, NoProcs, Alive
  <1>5. CASE UNCHANGED recoveryVars
    BY <1>5, StepFaults DEF recoveryVars, deployVars, initVars, disk, wifiVars, Alive,
                Healthy, InPhase
  <1> QED
    BY <1>1, <1>2, <1>3, <1>4, <1>5 DEF RecoveryNext

\* The inductive invariant holds throughout.
THEOREM Invariance == RecoverySpec => []RecoveryIInv
  BY InitIInv, NextIInv, PTL DEF RecoverySpec

\* "Deploy complete" is said only when the new binary serves, whatever the
\* runs before, boots and power cycles have left (deploy.sh:158-168).
THEOREM DeployedServes == RecoverySpec => []DeployedIsServed
  <1>1. RecoveryIInv => DeployedIsServed
    BY DEF DeployedIsServed, Healthy, InPhase, Alive
  <1> QED
    BY Invariance, <1>1, PTL

\* A whole redirected file never becomes the backup (deploy.sh:139-141).
THEOREM BackupStaysStock == RecoverySpec => []BackupIsNotRedirected
  <1>1. RecoveryIInv => BackupIsNotRedirected
    OBVIOUS
  <1> QED
    BY Invariance, <1>1, PTL

\* An accepted profile is never only reported (provision-wifi.sh:55-62).
THEOREM SuccessIsTrue == RecoverySpec => []NeverMistakenForSuccess
  <1>1. RecoveryIInv => NeverMistakenForSuccess
    OBVIOUS
  <1> QED
    BY Invariance, <1>1, PTL

=============================================================================
