------------------------------ MODULE Recovery ------------------------------
(***************************************************************************)
(* The way back after a factory reset, with all scripts composed: the      *)
(* speaker has lost its WiFi profile and /mnt/nv, the operator provisions  *)
(* it (ProvisionWifi) and deploys (Deploy), over and over.                 *)
(***************************************************************************)
EXTENDS Deploy, ProvisionWifi

recoveryVars == <<deployVars, wifiVars>>

RecoveryInit == DeployInit /\ WifiInit

\* /mnt/nv is wiped; the root file system may be, too.  SSH is enabled with a
\* stick (SERVICE.md:59-76).
FactoryReset ==
  /\ Fault
  /\ Boot
  /\ bin' = Nil /\ conf' = FALSE
  /\ orig' = Nil
  /\ \/ UNCHANGED <<init, links, xml>>
     \/ init' = Nil /\ links' = FALSE /\ xml' = "stock"
  /\ joined' = FALSE /\ attempt' = 0 /\ told' = Unknown

\* A speaker without WiFi is not reached by deploy.sh.
Redeploy ==
  /\ joined /\ attempt = 0
  /\ Preflight
  /\ UNCHANGED wifiVars

DeployStep == DeployRest /\ UNCHANGED wifiVars

\* The setup network is used while no deployment runs, and until the speaker
\* turns up in the WiFi, whatever the script has told.
Provision ==
  /\ step = "idle"
  /\ \/ ((~joined /\ PostProfile) \/ Accepted) /\ UNCHANGED faults
     \/ ~joined /\ (Rejected \/ TransportError) /\ Fault
     \/ joined /\ TransportError /\ UNCHANGED faults
  /\ UNCHANGED <<initVars, disk, booting, step, build>>

RecoveryNext == Redeploy \/ DeployStep \/ Provision \/ FactoryReset

\* As in Deploy; an operator whose speaker is not in the WiFi tries again.
RecoveryFairness ==
  /\ WF_recoveryVars(Redeploy /\ step = "idle")
  /\ WF_recoveryVars(Script /\ UNCHANGED wifiVars)
  /\ WF_recoveryVars(Daemons /\ UNCHANGED wifiVars)
  /\ WF_recoveryVars(BootStarts /\ UNCHANGED wifiVars)
  /\ WF_recoveryVars(Provision)

RecoverySpec == RecoveryInit /\ [][RecoveryNext]_recoveryVars /\ RecoveryFairness

-----------------------------------------------------------------------------
(* Properties.                                                             *)

RecoveryTypeOK == DeployTypeOK /\ WifiTypeOK

\* The inductive invariant.
RecoveryIInv ==
  /\ RecoveryTypeOK
  /\ Progress
  /\ BackupIsNotRedirected
  /\ NeverMistakenForSuccess

\* From any factory reset, broken connection, power cycle or failed copy an
\* operator who keeps trying gets the service deployed again, whatever
\* daemons, pid files, half-copied files and lost answers are left, and also
\* if provision-wifi.sh has told that a speaker that has joined the WiFi
\* could not be reached (deploy.sh:7-9, provision-wifi.sh:11-17).
Recovers == []<>(step = "done")

=============================================================================
