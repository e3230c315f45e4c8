------------------------- MODULE PresetSystem_proofs -------------------------
(***************************************************************************)
(* For any number of handlers, any files and any configurations: the       *)
(* composed daemon is at the same time a ConfigStore and a PresetServer,   *)
(* so what is proved of them holds of it, and the speaker never loses all  *)
(* of its buttons.                                                         *)
(***************************************************************************)
EXTENDS PresetSystem, TLAPS

USE SystemAssumption

\* The document of a configuration that can be encoded assigns its buttons.
LEMMA RenderedButtons ==
  ASSUME NEW c \in Configs \ Unencodable, NEW b, NEW a, NEW id, NEW now
  PROVE  OfOneConfiguration(ButtonsIn(Server!FullDoc(a, c, b, id, now)))
  <1> DEFINE doc == Server!FullDoc(a, c, b, id, now)
  <1>1. /\ doc.presets = [i \in 1..Len(c) |-> [button |-> i, station |-> c[i], base |-> b]]
        /\ DOMAIN c = 1..Len(c)
    BY DEF Server!FullDoc, Server!RenderItems
  <1>2. [i \in DOMAIN doc.presets |-> doc.presets[i].station] = [i \in 1..Len(c) |-> c[i]]
    BY <1>1
  <1>3. [i \in 1..Len(c) |-> c[i]] = c
    BY <1>1
  <1> HIDE DEF doc
  <1>4. ButtonsIn(doc) = ButtonsOf(c)
    BY <1>2, <1>3 DEF ButtonsIn
  <1> QED
    BY <1>4 DEF OfOneConfiguration, doc

\* A configuration leaves no speaker without buttons.
LEMMA NotEmpty ==
  ASSUME NEW b, OfOneConfiguration(b)
  PROVE  b # NoButtons
  <1>1. PICK c \in Configs : b = ButtonsOf(c)
    BY DEF OfOneConfiguration
  <1>2. c \in Seq(Stations) /\ c # << >> /\ DOMAIN c \subseteq Buttons
    OBVIOUS
  <1>3. 1 \in DOMAIN c /\ c[1] \in Stations
    BY <1>2
  <1>4. 1 \in Buttons /\ ButtonsOf(c)[1] = c[1]
    BY <1>2, <1>3 DEF ButtonsOf
  <1>5. NoButtons[1] = Nil
    BY <1>4 DEF NoButtons
  <1> QED
    BY <1>1, <1>3, <1>4, <1>5

LEMMA InitIInv == Init => IInv
  BY DEF Init, IInv, Store!Init, Server!Init, Server!PCs

-----------------------------------------------------------------------------
(* The daemon.                                                             *)

\* What the reload loop serves is a configuration, and what it has read from
\* a stick parsed.
LEMMA StoreStep ==
  ASSUME IInv, Store!Next
  PROVE  /\ served' \in Configs \cup {Nil}
         /\ pc' \in {"compare", "write", "loaded"} => Store!Usable(data')
  <1> USE DEF IInv, Store!Usable
  <1>1. ASSUME NEW f, Store!Plug(f) \/ Store!Push(f)
        PROVE  UNCHANGED <<pc, data, served>>
    BY <1>1 DEF Store!Plug, Store!Push, Store!process
  <1>2. CASE Store!Unplug \/ Store!Sync \/ Store!DiskTurns
    BY <1>2 DEF Store!Unplug, Store!Sync, Store!DiskTurns, Store!process
  <1>3. CASE Store!Start \/ Store!WaitForFile \/ Store!LoadFails \/ Store!Tick
    BY <1>3 DEF Store!Start, Store!WaitForFile, Store!LoadFails, Store!Tick
  <1>4. CASE Store!ReadUSB
    BY <1>4 DEF Store!ReadUSB
  <1>5. CASE Store!CompareCache \/ Store!WriteCache
    BY <1>5 DEF Store!CompareCache, Store!WriteCache
  <1>6. ASSUME NEW c \in Configs, Store!Apply(c)
        PROVE  served' \in Configs \cup {Nil} /\ pc' = "ready"
    BY <1>6 DEF Store!Apply
  <1>7. CASE Store!LoadedFromUSB
    <2>1. Parse(data) \in Configs
      BY <1>7 DEF Store!LoadedFromUSB
    <2> QED
      BY <1>6, <1>7, <2>1 DEF Store!LoadedFromUSB
  <1>8. CASE Store!LoadedFromCache
    <2>1. Parse(cache) \in Configs
      BY <1>8 DEF Store!LoadedFromCache
    <2> QED
      BY <1>6, <1>8, <2>1 DEF Store!LoadedFromCache
  <1>9. CASE Store!Kill \/ Store!PowerCut
    BY <1>9 DEF Store!Kill, Store!PowerCut, Store!Die
  <1> QED
    BY <1>1, <1>2, <1>3, <1>4, <1>5, <1>7, <1>8, <1>9
    DEF Store!Next, Store!Run

\* What the server does when the process loads, reloads or dies.
LEMMA FollowIs ==
  ASSUME IInv, served' \in Configs \cup {Nil}, Follow
  PROVE  \/ UNCHANGED serverVars /\ served' = served
         \/ \E c \in Configs : Server!SetConfig(c) /\ served' = c
         \/ \E c \in Configs : Server!Restart(c) /\ served' = Nil
  BY DEF IInv, Follow

\* Loading, reloading and dying keep the invariant.
LEMMA DaemonIInv ==
  ASSUME IInv, Store!Next, Follow, UNCHANGED buttons
  PROVE  IInv'
  <1>1. /\ served' \in Configs \cup {Nil}
        /\ pc' \in {"compare", "write", "loaded"} => Store!Usable(data')
    BY StoreStep
  <1> USE DEF IInv
  <1>2. CASE UNCHANGED serverVars /\ served' = served
    BY <1>1, <1>2 DEF serverVars, Store!Usable
  <1>3. ASSUME NEW c \in Configs, Server!SetConfig(c), served' = c
        PROVE  IInv'
    BY <1>1, <1>3
    DEF Server!SetConfig, Server!ident, Server!cache, Server!locals, Store!Usable
  <1>4. ASSUME NEW c \in Configs, Server!Restart(c), served' = Nil
        PROVE  IInv'
    BY <1>1, <1>4 DEF Server!Restart, Server!PCs, Store!Usable
  <1> QED
    BY <1>1, <1>2, <1>3, <1>4, FollowIs

-----------------------------------------------------------------------------
(* The handlers, and the speaker.                                          *)

\* Every step of handleAccountFull keeps the invariant.
LEMMA HandleIInv ==
  ASSUME IInv, NEW h \in Handlers, Handle(h)
  PROVE  IInv'
  <1> USE DEF IInv, storeVars, Store!Usable, Server!served, Server!ident, Server!cache,
              Server!locals, Server!PCs, Server!Snaps
  <1>0. UNCHANGED <<storeVars, buttons>> /\ served # Nil
    BY DEF Handle, Listening
  <1>1. CASE Server!FullSnapshot(h)
    BY <1>0, <1>1 DEF Server!FullSnapshot
  <1>2. CASE Server!FullHit(h)
    BY <1>0, <1>2 DEF Server!FullHit, Server!CacheHit
  <1>3. CASE Server!FullMiss(h)
    BY <1>0, <1>3 DEF Server!FullMiss
  <1>4. CASE Server!FullIdentity(h)
    BY <1>0, <1>4 DEF Server!FullIdentity
  <1>5. CASE Server!FullBuild(h)
    <2>1. PICK now \in Times :
            fullBody' = Server!FullDoc(req[h], snap[h].cfg, snap[h].base, idResolved, now)
      BY <1>5 DEF Server!FullBuild, Server!Store
    <2>2. snap[h].cfg \in Configs \ Unencodable
      BY <1>5 DEF Server!FullBuild
    <2>3. OfOneConfiguration(ButtonsIn(fullBody'))
      BY <2>1, <2>2, RenderedButtons
    <2>4. \A k \in Handlers :
            /\ at'[k] \in {"lock", "identity", "build", "persist"}
                 => snap'[k] \in Server!Snaps
            /\ out'[k] # Nil => OfOneConfiguration(ButtonsIn(out'[k].doc))
      BY <1>5 DEF Server!FullBuild
    <2>5. /\ UNCHANGED <<served, cfg, pc, data, snap, baseURL, out, buttons>>
          /\ at' \in [Handlers -> Server!PCs]
      BY <1>0, <1>5 DEF Server!FullBuild
    <2> QED
      BY <2>3, <2>4, <2>5
  <1>6. CASE Server!FullBuildFails(h)
    BY <1>0, <1>6 DEF Server!FullBuildFails
  <1>7. CASE Server!FullPersist(h)
    BY <1>0, <1>7 DEF Server!FullPersist
  <1>8. CASE Server!ReplyLost(h)
    BY <1>0, <1>8 DEF Server!ReplyLost, Server!Finish
  <1> QED
    BY <1>1, <1>2, <1>3, <1>4, <1>5, <1>6, <1>7, <1>8 DEF Handle, Server!FullStep

\* The speaker asks, and takes its buttons from an answer or keeps them.
LEMMA SpeakerIInv ==
  ASSUME IInv, NEW h \in Handlers, Poll(h) \/ Adopt(h)
  PROVE  IInv'
  <1> USE DEF IInv, storeVars, Store!Usable, Server!served, Server!ident, Server!cache,
              Server!locals, Server!PCs, Server!Snaps
  <1>1. CASE Poll(h)
    BY <1>1 DEF Poll, Server!Arrive
  <1>2. CASE Adopt(h)
    BY <1>2 DEF Adopt, Server!Reply, Server!Finish
  <1> QED
    BY <1>1, <1>2

\* Every step keeps the invariant.
LEMMA NextIInv == IInv /\ [Next]_vars => IInv'
  <1>1. ASSUME IInv, DaemonStep
        PROVE  IInv'
    BY <1>1, DaemonIInv DEF DaemonStep
  <1>2. ASSUME IInv, UNCHANGED vars
        PROVE  IInv'
    BY <1>2 DEF IInv, vars, storeVars, serverVars, Store!Usable
  <1> QED
    BY <1>1, <1>2, HandleIInv, SpeakerIInv DEF Next

\* The inductive invariant holds throughout.
THEOREM Invariance == Spec => []IInv
  BY InitIInv, NextIInv, PTL DEF Spec

\* Whatever becomes of the stick, the cache, the daemon and its answers, a
\* speaker that has buttons keeps some (full.go:14-24, config.go:86-91).
THEOREM SpeakerKeepsButtons == Spec => NeverWiped
  <1>1. ASSUME IInv, [Next]_vars, buttons # NoButtons
        PROVE  buttons' # NoButtons
    <2>1. ASSUME NEW h \in Handlers, Adopt(h)
          PROVE  buttons' # NoButtons
      BY <1>1, <2>1, NotEmpty DEF Adopt, IInv
    <2>2. CASE UNCHANGED buttons
      BY <1>1, <2>2
    <2> QED
      BY <1>1, <2>1, <2>2 DEF Next, DaemonStep, Handle, Poll, vars
  <1>2. IInv /\ [Next]_vars
        => [buttons # NoButtons => buttons' # NoButtons]_vars
    BY <1>1
  <1> QED
    BY Invariance, <1>2, PTL DEF Spec, NeverWiped

-----------------------------------------------------------------------------
(* The composition and its parts.                                          *)

\* The daemon of the composition is a ConfigStore: what the server and the
\* speaker do never disturbs loading and reloading.
THEOREM LoadsAsConfigStore == Spec => Store!Spec
  <1>1. Init => Store!Init
    BY DEF Init
  <1>2. [Next]_vars => [Store!Next]_(Store!vars)
    BY DEF Next, DaemonStep, Handle, Poll, Adopt, vars, storeVars, Store!vars,
           Store!process
  <1> QED
    BY <1>1, <1>2, PTL DEF Spec, Store!Spec

\* And it is a PresetServer: the reload loop drives the server only as
\* PresetServer allows, so its invariants, ImplementsService included, hold
\* of the composition.
THEOREM ServesAsPresetServer == Spec => Server!Spec
  <1>1. Init => Server!Init
    BY DEF Init
  <1>2. IInv /\ IInv' /\ [Next]_vars => [Server!Next]_(Server!vars)
    <2> SUFFICES ASSUME IInv, IInv', [Next]_vars
                 PROVE  [Server!Next]_(Server!vars)
      OBVIOUS
    <2> USE DEF Server!Next, Server!vars, Server!served, Server!ident, Server!cache,
                Server!locals, serverVars
    <2>1. CASE DaemonStep
      BY <2>1, FollowIs DEF DaemonStep, IInv
    <2>2. ASSUME NEW h \in Handlers, Handle(h)
          PROVE  Server!Next
      BY <2>2 DEF Handle
    <2>3. ASSUME NEW h \in Handlers, Poll(h) \/ Adopt(h)
          PROVE  Server!Next
      BY <2>3 DEF Poll, Adopt, Server!Resources
    <2>4. CASE UNCHANGED vars
      BY <2>4 DEF vars
    <2> QED
      BY <2>1, <2>2, <2>3, <2>4 DEF Next
  <1> QED
    BY <1>1, <1>2, Invariance, PTL DEF Spec, Server!Spec

=============================================================================
