------------------------- MODULE ConfigStore_proofs -------------------------
(***************************************************************************)
(* For every set of files, every parser and every crash: what the reload   *)
(* loop remembers is what is served, and the cache backs the served        *)
(* configuration up between two loads unless a warning says it does not.   *)
(***************************************************************************)
EXTENDS ConfigStore, TLAPS

USE ContentsAssumption, StoreNilAssumption, FaultsAssumption

\* A process that has not started keeps the invariant.
LEMMA InitIInv == Init => IInv
  BY DEF Init, IInv, TypeOK, LastTracksServed, DataUsable, BackedUp, PCs

\* Every step of the operator, the process, the kernel and the power keeps it.
LEMMA NextIInv == IInv /\ [Next]_vars => IInv'
  <1> SUFFICES ASSUME IInv, [Next]_vars
               PROVE  IInv'
    OBVIOUS
  <1> USE DEF IInv, TypeOK, LastTracksServed, DataUsable, BackedUp, PCs, Usable
  <1>1. ASSUME NEW f \in Editions \cup {Unreadable}, Plug(f)
        PROVE  IInv'
    BY <1>1 DEF Plug, process
  <1>2. CASE Unplug
    BY <1>2 DEF Unplug, process
  <1>3. ASSUME NEW f \in Pushes, Push(f)
        PROVE  IInv'
    BY <1>3 DEF Push, process
  <1>4. CASE Sync
    BY <1>4 DEF Sync, process
  <1>17. CASE DiskTurns
    BY <1>17 DEF DiskTurns, process
  <1>5. CASE Start
    BY <1>5 DEF Start
  <1>6. CASE WaitForFile
    BY <1>6 DEF WaitForFile
  <1>7. CASE ReadUSB
    BY <1>7 DEF ReadUSB
  <1>8. CASE CompareCache
    BY <1>8 DEF CompareCache
  <1>9. CASE WriteCache
    BY <1>9 DEF WriteCache
  <1>10. CASE LoadedFromUSB
    BY <1>10, StoreFingerprintAssumption DEF LoadedFromUSB, Apply
  <1>11. CASE LoadedFromCache
    BY <1>11, StoreFingerprintAssumption DEF LoadedFromCache, Apply
  <1>12. CASE LoadFails
    BY <1>12 DEF LoadFails
  <1>13. CASE Tick
    BY <1>13 DEF Tick
  <1>14. CASE Kill
    BY <1>14 DEF Kill, Die
  <1>15. CASE PowerCut
    BY <1>15 DEF PowerCut, Die
  <1>16. CASE UNCHANGED vars
    BY <1>16 DEF vars, process
  <1> QED
    BY <1>1, <1>2, <1>3, <1>4, <1>5, <1>6, <1>7, <1>8, <1>9, <1>10, <1>11,
       <1>12, <1>13, <1>14, <1>15, <1>16, <1>17 DEF Next, Run

\* The inductive invariant holds throughout.
THEOREM Invariance == Spec => []IInv
  BY InitIInv, NextIInv, PTL DEF Spec

\* No step of main, Load or the reload loop leaves a variable without a
\* value of its type.
THEOREM TypeCorrect == Spec => []TypeOK
  <1>1. IInv => TypeOK
    BY DEF IInv
  <1> QED
    BY Invariance, <1>1, PTL

\* Between two loads the cache holds what is served, or a warning has said
\* that it does not (config.go:130-134, 148-150).
THEOREM BackedUpBetweenLoads == Spec => []BackedUp
  <1>1. IInv => BackedUp
    BY DEF IInv
  <1> QED
    BY Invariance, <1>1, PTL

\* A cache that is loaded while the process serves is the one it serves from.
LEMMA StepFromTheStick ==
  ASSUME IInv, [Next]_vars, ~warned,
         served # Nil, served' # Nil, served' # served
  PROVE  pc = "loaded"
  <1> USE DEF IInv, TypeOK, LastTracksServed, DataUsable, BackedUp, Usable
  <1>1. ~LoadedFromCache
    <2> SUFFICES ASSUME LoadedFromCache
                 PROVE  FALSE
      OBVIOUS
    <2>1. Parse(cache) = served /\ last = FingerprintOf(served)
      BY DEF LoadedFromCache
    <2> QED
      BY <2>1 DEF LoadedFromCache, Apply
  <1>2. LoadedFromUSB => pc = "loaded"
    BY DEF LoadedFromUSB
  <1>3. ~(Kill \/ PowerCut)
    BY DEF Kill, PowerCut, Die
  <1>4. ASSUME served' = served PROVE FALSE
    BY <1>4
  <1> QED
    BY <1>1, <1>2, <1>3, <1>4
    DEF Next, Run, Plug, Unplug, Push, Sync, DiskTurns, Start, WaitForFile, ReadUSB,
        CompareCache, WriteCache, LoadFails, Tick, vars, process

\* Neither a stick that is taken out nor an unusable one changes what a
\* running process serves, as long as copying to the cache has not failed
\* (config.go:130-134).
THEOREM StationsFromTheStick == Spec => OnlyTheStickChangesStations
  <1>1. IInv /\ [Next]_vars
          => [served # Nil /\ served' # Nil /\ served' # served
                => pc = "loaded" \/ warned]_vars
    BY StepFromTheStick
  <1> QED
    BY Invariance, <1>1, PTL DEF Spec, OnlyTheStickChangesStations

-----------------------------------------------------------------------------
(* The configuration that is kept.                                         *)

\* A start without a stick finds what a usable cache parses to, or nothing.
LEMMA KeptIs ==
  /\ \A f : Kept(f) \in Configs \cup {Nil}
  /\ \A f : Usable(f) => Kept(f) = Parse(f) /\ Kept(f) # Nil
  /\ \A f : ~Usable(f) => Kept(f) = Nil
  /\ Kept(Nil) = Nil /\ Kept(Absent) = Nil /\ Kept(EmptyFile) = Nil
  BY DEF Kept, Usable

\* What is left of a file may be left of its configuration.
LEMMA CutsDamage ==
  ASSUME NEW f \in Contents, NEW g \in Cut(f) \cup {EmptyFile}
  PROVE  Kept(g) \in DamagedTo(Kept(f))
  BY DEF DamagedTo

LEMMA KeeperInit == IInv /\ Init => Keeper!Init
  BY KeptIs DEF Init, Keeper!Init

\* Main and the reload loop: each step is one of the abstract keeper.
LEMMA KeeperRun ==
  ASSUME IInv, Run
  PROVE  [Keeper!Next]_Keeper!vars
  <1> USE DEF IInv, TypeOK, DataUsable
  <1>1. CASE WaitForFile \/ LoadFails \/ Tick
    BY <1>1 DEF WaitForFile, LoadFails, Tick, Keeper!vars
  <1>2. CASE ReadUSB
    <2>1. Kept(data) = Nil
      BY <1>2, KeptIs DEF ReadUSB
    <2>2. CASE Usable(usb)
      <3>1. Kept(data') \in Configs /\ Kept(data') # Nil
        BY <1>2, <2>2, KeptIs DEF ReadUSB
      <3>2. Keeper!Take(Kept(data'))
        BY <1>2, <2>1 DEF ReadUSB, Keeper!Take
      <3> QED
        BY <3>1, <3>2 DEF Keeper!Next
    <2>3. CASE ~Usable(usb)
      BY <1>2, <2>3 DEF ReadUSB, Keeper!vars
    <2> QED
      BY <2>2, <2>3
  <1>3. CASE CompareCache
    <2>1. Kept(data) # Nil
      BY <1>3, KeptIs DEF CompareCache
    <2>2. CASE cache = data /\ warned' = FALSE /\ UNCHANGED <<cache, synced>>
      <3>1. Keeper!Find
        BY <1>3, <2>1, <2>2 DEF CompareCache, Keeper!Find
      <3> QED
        BY <3>1 DEF Keeper!Next
    <2>3. CASE warned' = TRUE /\ UNCHANGED <<cache, synced>>
      <3>1. Keeper!FailToKeep
        BY <1>3, <2>1, <2>3 DEF CompareCache, Keeper!FailToKeep
      <3> QED
        BY <3>1 DEF Keeper!Next
    <2>4. CASE cache' = EmptyFile /\ synced' = FALSE /\ UNCHANGED warned
      <3>1. Keeper!Clear
        BY <1>3, <2>1, <2>4, KeptIs DEF CompareCache, Keeper!Clear
      <3> QED
        BY <3>1 DEF Keeper!Next
    <2> QED
      BY <1>3, <2>2, <2>3, <2>4 DEF CompareCache
  <1>4. CASE WriteCache
    <2>1. Kept(data) # Nil /\ data \in Contents
      BY <1>4, KeptIs DEF WriteCache, Usable
    <2>2. CASE cache' = data /\ warned' = FALSE
      <3>1. Keeper!Keep
        BY <1>4, <2>1, <2>2 DEF WriteCache, Keeper!Keep
      <3> QED
        BY <3>1 DEF Keeper!Next
    <2>3. CASE cache' \in Cut(data) /\ warned' = TRUE
      <3>1. Kept(cache') \in DamagedTo(Kept(data))
        BY <2>1, <2>3, CutsDamage
      <3>2. Keeper!FailToKeep
        BY <1>4, <2>1, <2>3, <3>1 DEF WriteCache, Keeper!FailToKeep
      <3> QED
        BY <3>2 DEF Keeper!Next
    <2> QED
      BY <1>4, <2>2, <2>3 DEF WriteCache
  <1>5. CASE LoadedFromUSB
    <2>1. Kept(data) # Nil /\ Kept(data) = Parse(data) /\ Parse(data) \in Configs
      BY <1>5, KeptIs DEF LoadedFromUSB, Usable
    <2>2. Kept(cache) = Kept(data) \/ warned
      BY <1>5 DEF LoadedFromUSB, BackedUp
    <2>3. served' = Kept(data)
      BY <1>5, <2>1, StoreFingerprintAssumption
      DEF LoadedFromUSB, Apply, LastTracksServed
    <2>4. Keeper!Serve
      BY <1>5, <2>1, <2>2, <2>3, KeptIs DEF LoadedFromUSB, Apply, Keeper!Serve
    <2> QED
      BY <2>4 DEF Keeper!Next
  <1>6. CASE LoadedFromCache
    <2>1. Kept(data) = Nil
      BY <1>6, KeptIs DEF LoadedFromCache
    <2>2. Kept(cache) # Nil /\ Kept(cache) = Parse(cache) /\ Parse(cache) \in Configs
      BY <1>6, KeptIs DEF LoadedFromCache, Usable
    <2>3. served \in {Nil, Kept(cache)} \/ warned
      BY <1>6, <2>2 DEF LoadedFromCache, BackedUp
    <2>4. served' = Kept(cache)
      BY <1>6, <2>2, StoreFingerprintAssumption
      DEF LoadedFromCache, Apply, LastTracksServed
    <2>5. Keeper!Resume
      BY <1>6, <2>1, <2>2, <2>3, <2>4, KeptIs
      DEF LoadedFromCache, Apply, Keeper!Resume
    <2> QED
      BY <2>5 DEF Keeper!Next
  <1> QED
    BY <1>1, <1>2, <1>3, <1>4, <1>5, <1>6 DEF Run

\* A process that dies, whatever it was about.
LEMMA KeeperDies ==
  ASSUME IInv, Kill \/ PowerCut
  PROVE  Keeper!Next
  <1> USE DEF IInv, TypeOK, DataUsable
  <1>1. Keeper!Stop
    BY KeptIs DEF Kill, PowerCut, Die, Keeper!Stop
  <1>2. CASE Kill
    <2>1. CASE cache' = cache
      <3>1. Keeper!Crash
        BY <1>1, <1>2, <2>1 DEF Kill, Keeper!Crash
      <3> QED
        BY <3>1 DEF Keeper!Next
    <2>2. CASE pc = "write" /\ cache' \in Cut(data)
      <3>1. Kept(data) # Nil /\ data \in Contents
        BY <2>2, KeptIs DEF Usable
      <3>2. Kept(cache') \in DamagedTo(Kept(data))
        BY <2>2, <3>1, CutsDamage
      <3>3. Keeper!Crash
        BY <1>1, <1>2, <3>1, <3>2 DEF Kill, Keeper!Crash
      <3> QED
        BY <3>3 DEF Keeper!Next
    <2> QED
      BY <1>2, <2>1, <2>2 DEF Kill
  <1>3. CASE PowerCut
    <2>1. CASE cache' = cache
      <3>1. Keeper!LosePower
        BY <1>1, <1>3, <2>1 DEF PowerCut, Keeper!LosePower
      <3> QED
        BY <3>1 DEF Keeper!Next
    <2>2. CASE ~synced /\ cache # Absent /\ cache' \in Cut(cache) \cup {EmptyFile}
      <3>1. cache \in Contents
        BY <2>2
      <3>2. Kept(cache') \in DamagedTo(Kept(cache))
        BY <2>2, <3>1, CutsDamage
      <3>3. Keeper!LosePower
        BY <1>1, <1>3, <2>2, <3>2 DEF PowerCut, Keeper!LosePower
      <3> QED
        BY <3>3 DEF Keeper!Next
    <2> QED
      BY <1>3, <2>1, <2>2 DEF PowerCut
  <1> QED
    BY <1>2, <1>3

\* Every step of the operator, the kernel, the process and the power is a
\* step of the abstract keeper, or none.
LEMMA KeeperNext == IInv /\ [Next]_vars => [Keeper!Next]_Keeper!vars
  <1> SUFFICES ASSUME IInv, [Next]_vars
               PROVE  [Keeper!Next]_Keeper!vars
    OBVIOUS
  <1>1. ASSUME NEW f \in Editions \cup {Unreadable}, Plug(f)
        PROVE  UNCHANGED Keeper!vars
    BY <1>1 DEF Plug, process, Keeper!vars
  <1>2. CASE Unplug \/ DiskTurns \/ Start \/ UNCHANGED vars
    BY <1>2 DEF Unplug, DiskTurns, Start, vars, process, Keeper!vars
  <1>3. ASSUME NEW f \in Pushes, Push(f)
        PROVE  Keeper!Next
    <2>1. served = Nil /\ Kept(data) = Nil
      BY <1>3, KeptIs DEF Push, IInv, DataUsable
    <2>2. Keeper!Deploy(Kept(f))
      BY <1>3, <2>1 DEF Push, process, Keeper!Deploy
    <2> QED
      BY <2>2, KeptIs DEF Keeper!Next
  <1>4. CASE Sync
    BY <1>4 DEF Sync, process, Keeper!Flush, Keeper!Next
  <1>5. CASE Run
    BY <1>5, KeeperRun
  <1>6. CASE Kill \/ PowerCut
    BY <1>6, KeeperDies
  <1> QED
    BY <1>1, <1>2, <1>3, <1>4, <1>5, <1>6 DEF Next

\* Loading, caching and reloading keep their promise: one configuration is
\* served and one is kept, and only a usable stick changes them, or a crash
\* at the one moment the code is exposed to it (config.go:123-152).
THEOREM KeepsItsPromise == Spec => ImplementsKeeper
  BY Invariance, InitIInv, KeeperInit, KeeperNext, PTL
  DEF Spec, ImplementsKeeper, Keeper!Spec

=============================================================================
