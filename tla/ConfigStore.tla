---------------------------- MODULE ConfigStore ----------------------------
(***************************************************************************)
(* How the daemon gets its configuration and keeps it: main's start        *)
(* (cmd/preset-server/main.go), WaitForFile, Load, loadCache and           *)
(* writeCacheIfChanged (internal/preset/config.go) and the reload loop,    *)
(* against an operator who plugs, unplugs and edits the stick and deploys, *)
(* a disk that fails and recovers, and a process and a speaker that may    *)
(* die at any step.                                                        *)
(*                                                                         *)
(* There is one process and one goroutine that loads, so pc is the point   *)
(* it has reached; served is what SetConfig last gave to the server.       *)
(* os.WriteFile truncates the file before it writes: two steps here.       *)
(***************************************************************************)
CONSTANTS
  Contents,        \* contents presets.conf can have, stick or cache
  EmptyFile,       \* the content of a file that was just truncated
  Editions,        \* contents an operator may put on the stick
  Pushes,          \* contents deploy.sh may push to the cache
  Configs,         \* configurations
  Parse(_),        \* ParseConfig: a configuration, or Nil
  FingerprintOf(_),  \* config.go Fingerprint
  Cut(_),          \* what is left of a content whose write was cut short
  Absent,          \* there is no such file
  Unreadable,      \* there is one, and reading it fails
  Nil,
  WriteFaults,     \* may opening or writing the cache fail at times?
  PowerFaults      \* may the power fail?

VARIABLES
  usb,     \* /media/sda1/presets.conf
  cache,   \* /mnt/nv/presets.conf
  synced,  \* has the cache reached the flash?
  pushed,  \* what deploy.sh pushed since the stick was last plugged
  nvFails, \* do opening and writing the cache fail now?
  pc,      \* where main or the reload loop is
  data,    \* bytes Load read from the stick
  warned,  \* did the last copy of a stick to the cache fail (Warnings)?
  served,  \* the configuration of the server
  last     \* fingerprint the reload loop remembers

process == <<pc, data, warned, served, last>>
vars == <<usb, cache, synced, pushed, nvFails, process>>

ASSUME ContentsAssumption ==
  /\ EmptyFile \in Contents
  /\ Editions \subseteq Contents
  /\ Pushes \subseteq Contents
  /\ \A f \in Contents : Cut(f) \subseteq Contents /\ Parse(f) \in Configs \cup {Nil}
  /\ Parse(EmptyFile) = Nil

ASSUME StoreNilAssumption ==
  /\ Absent \notin Contents /\ Unreadable \notin Contents
  /\ Absent # Unreadable
  /\ Nil \notin Configs \cup Contents \cup {FingerprintOf(c) : c \in Configs}

ASSUME StoreFingerprintAssumption ==
  \A c, d \in Configs : FingerprintOf(c) = FingerprintOf(d) => c = d

ASSUME FaultsAssumption == WriteFaults \in BOOLEAN /\ PowerFaults \in BOOLEAN

Init ==
  /\ usb \in Editions \cup {Absent}
  /\ cache \in Pushes \cup {Absent}
  /\ synced = TRUE
  /\ pushed = Nil
  /\ nvFails = FALSE
  /\ pc = "down"
  /\ data = Nil
  /\ warned = FALSE
  /\ served = Nil
  /\ last = Nil

-----------------------------------------------------------------------------
(* The operator, and the file system of /mnt/nv.                           *)

Plug(f) ==
  /\ usb' = f
  /\ pushed' = Nil
  /\ UNCHANGED <<cache, synced, nvFails, process>>

Unplug ==
  /\ usb' = Absent
  /\ UNCHANGED <<cache, synced, pushed, nvFails, process>>

\* deploy.sh stops the daemon before it copies presets.conf to the cache.
Push(f) ==
  /\ pc = "down"
  /\ cache' = f
  /\ synced' = FALSE
  /\ pushed' = f
  /\ UNCHANGED <<usb, nvFails, process>>

\* The kernel writes the cache back.
Sync ==
  /\ synced' = TRUE
  /\ UNCHANGED <<usb, cache, pushed, nvFails, process>>

\* The disk fills up or turns read-only, and recovers.
DiskTurns ==
  /\ WriteFaults
  /\ nvFails' = ~nvFails
  /\ UNCHANGED <<usb, cache, synced, pushed, process>>

-----------------------------------------------------------------------------
(* The process.                                                            *)

Start ==
  /\ pc = "down"
  /\ pc' = "wait"
  /\ UNCHANGED <<usb, cache, synced, pushed, nvFails, data, warned, served, last>>

\* WaitForFile returns when the file exists or -mount-wait has passed; what
\* it returns is only logged, and the stick may come or go right after.
WaitForFile ==
  /\ pc = "wait"
  /\ pc' = "load"
  /\ UNCHANGED <<usb, cache, synced, pushed, nvFails, data, warned, served, last>>

\* Load reads the stick: a valid file is the configuration, and anything
\* else (no file, an unreadable one, an invalid one) leads to the cache.
Usable(f) == f \in Contents /\ Parse(f) # Nil

ReadUSBUnchecked ==
  /\ pc = "load"
  /\ IF usb \in Contents
       THEN pc' = "compare" /\ data' = usb
       ELSE pc' = "cache" /\ data' = data
  /\ UNCHANGED <<usb, cache, synced, pushed, nvFails, warned, served, last>>
ReadUSB ==
  /\ pc = "load"
  /\ IF Usable(usb)
       THEN pc' = "compare" /\ data' = usb
       ELSE pc' = "cache" /\ data' = data
  /\ UNCHANGED <<usb, cache, synced, pushed, nvFails, warned, served, last>>

\* writeCacheIfChanged: nothing to do, or the file is opened (it is created
\* or truncated), or it cannot be opened, which only yields a warning.
CompareCacheSkips ==
  /\ pc = "compare"
  /\ pc' = "loaded"
  /\ warned' = FALSE
  /\ UNCHANGED <<usb, cache, synced, pushed, nvFails, data, served, last>>
CompareCacheIfAbsent ==
  /\ pc = "compare"
  /\ warned' = FALSE
  /\ IF cache # Absent
       THEN pc' = "loaded" /\ UNCHANGED <<cache, synced>>
       ELSE pc' = "write" /\ cache' = EmptyFile /\ synced' = FALSE
  /\ UNCHANGED <<usb, pushed, nvFails, data, served, last>>
CompareCacheAborts ==
  /\ pc = "compare"
  /\ \/ /\ cache = data
        /\ pc' = "loaded"
        /\ warned' = FALSE
        /\ UNCHANGED <<cache, synced, data>>
     \/ /\ cache # data /\ nvFails
        /\ pc' = "cache"
        /\ data' = Nil
        /\ warned' = TRUE
        /\ UNCHANGED <<cache, synced>>
     \/ /\ cache # data
        /\ pc' = "write"
        /\ cache' = EmptyFile
        /\ synced' = FALSE
        /\ UNCHANGED <<data, warned>>
  /\ UNCHANGED <<usb, pushed, nvFails, served, last>>
CompareCache ==
  /\ pc = "compare"
  /\ \/ /\ cache = data
        /\ pc' = "loaded"
        /\ warned' = FALSE
        /\ UNCHANGED <<cache, synced>>
     \/ /\ cache # data /\ nvFails
        /\ pc' = "loaded"
        /\ warned' = TRUE
        /\ UNCHANGED <<cache, synced>>
     \/ /\ cache # data
        /\ pc' = "write"
        /\ cache' = EmptyFile
        /\ synced' = FALSE
        /\ UNCHANGED warned
  /\ UNCHANGED <<usb, pushed, nvFails, data, served, last>>

\* The bytes are written; an error leaves some of them and a warning.
WriteCacheSilent ==
  /\ pc = "write"
  /\ cache' \in {data} \cup IF nvFails THEN Cut(data) ELSE {}
  /\ warned' = FALSE
  /\ synced' = FALSE
  /\ pc' = "loaded"
  /\ UNCHANGED <<usb, pushed, nvFails, data, served, last>>
WriteCache ==
  /\ pc = "write"
  /\ \/ cache' = data /\ warned' = FALSE
     \/ nvFails /\ cache' \in Cut(data) /\ warned' = TRUE
  /\ synced' = FALSE
  /\ pc' = "loaded"
  /\ UNCHANGED <<usb, pushed, nvFails, data, served, last>>

\* main serves what Load returned; reloadOnce swaps it in if it differs
\* from what it remembers.
ApplyForgetful(c) ==
  /\ IF served # Nil /\ FingerprintOf(c) = last
       THEN UNCHANGED <<served, last>>
       ELSE served' = c /\ last' = IF last = Nil THEN FingerprintOf(c) ELSE last
  /\ data' = Nil
  /\ pc' = "ready"
Apply(c) ==
  /\ IF FingerprintOf(c) = last
       THEN UNCHANGED <<served, last>>
       ELSE served' = c /\ last' = FingerprintOf(c)
  /\ data' = Nil
  /\ pc' = "ready"

LoadedFromUSB ==
  /\ pc = "loaded"
  /\ Apply(Parse(data))
  /\ UNCHANGED <<usb, cache, synced, pushed, nvFails, warned>>

LoadedFromCache ==
  /\ pc = "cache"
  /\ Usable(cache)
  /\ Apply(Parse(cache))
  /\ warned' = FALSE
  /\ UNCHANGED <<usb, cache, synced, pushed, nvFails>>

\* Neither a stick nor a cache: log.Fatalf at the start, no change later.
LoadFails ==
  /\ pc = "cache"
  /\ ~Usable(cache)
  /\ pc' = IF served = Nil THEN "down" ELSE "ready"
  /\ UNCHANGED <<usb, cache, synced, pushed, nvFails, data, warned, served, last>>

\* The ticker of the reload loop.
Tick ==
  /\ pc = "ready"
  /\ pc' = "load"
  /\ UNCHANGED <<usb, cache, synced, pushed, nvFails, data, warned, served, last>>

Die ==
  /\ pc # "down"
  /\ pc' = "down"
  /\ data' = Nil
  /\ warned' = FALSE
  /\ served' = Nil
  /\ last' = Nil

\* SIGTERM, SIGKILL or a crash, in the middle of a write too.
Kill ==
  /\ Die
  /\ cache' \in {cache} \cup IF pc = "write" THEN Cut(data) ELSE {}
  /\ UNCHANGED <<usb, synced, pushed, nvFails>>

\* What had not been written back may be lost, in part or altogether.
PowerCut ==
  /\ PowerFaults
  /\ Die
  /\ cache' \in {cache} \cup
       (IF synced \/ cache = Absent THEN {} ELSE Cut(cache) \cup {EmptyFile})
  /\ synced' = TRUE
  /\ UNCHANGED <<usb, pushed, nvFails>>

Run ==
  \/ WaitForFile
  \/ ReadUSB
  \/ CompareCache
  \/ WriteCache
  \/ LoadedFromUSB
  \/ LoadedFromCache
  \/ LoadFails
  \/ Tick

Next ==
  \/ \E f \in Editions \cup {Unreadable} : Plug(f)
  \/ Unplug
  \/ \E f \in Pushes : Push(f)
  \/ Sync
  \/ DiskTurns
  \/ Start
  \/ Run
  \/ Kill
  \/ PowerCut

Spec == Init /\ [][Next]_vars

\* A process that runs is scheduled and its ticker ticks.  Nothing restarts
\* it when it is down: only a boot or an operator does.
FairSpec == Spec /\ WF_vars(Run)

-----------------------------------------------------------------------------
(* Properties.                                                             *)

PCs == {"down", "wait", "load", "compare", "write", "loaded", "cache", "ready"}

\* Every variable holds a value its Go or file counterpart can have.
TypeOK ==
  /\ usb \in Contents \cup {Absent, Unreadable}
  /\ cache \in Contents \cup {Absent}
  /\ synced \in BOOLEAN
  /\ pushed \in Pushes \cup {Nil}
  /\ nvFails \in BOOLEAN
  /\ pc \in PCs
  /\ data \in Contents \cup {Nil}
  /\ warned \in BOOLEAN
  /\ served \in Configs \cup {Nil}
  /\ last \in {FingerprintOf(c) : c \in Configs} \cup {Nil}

\* What the reload loop remembers is what the server serves, so a change is
\* neither missed nor applied over and over (main.go:115-130).
LastTracksServed ==
  last = IF served = Nil THEN Nil ELSE FingerprintOf(served)

\* The bytes between the stick and the server are a file that parsed.
DataUsable ==
  /\ pc \in {"compare", "write", "loaded"} => Usable(data)
  /\ pc \notin {"compare", "write", "loaded"} => data = Nil
  /\ pc \in {"down", "wait"} => served = Nil
  /\ pc = "ready" => served # Nil

\* Between two loads, the cache holds the configuration that is served: the
\* stick may go, or the process die, and a bad edit cost nothing
\* (config.go:130-134).  If copying the stick failed, there is a warning.
BackedUp ==
  ~warned =>
    /\ pc \in {"ready", "load", "compare", "cache"} /\ served # Nil
         => Usable(cache) /\ Parse(cache) = served
    /\ pc = "loaded" => cache = data

\* The inductive invariant.
IInv ==
  /\ TypeOK
  /\ LastTracksServed
  /\ DataUsable
  /\ BackedUp

\* A process that serves changes its stations only to those of a stick it
\* has just read: taking the stick out, an unreadable or an invalid one
\* never brings an older configuration back (config.go:130-134).  Only after
\* a copy to the cache has failed, and been warned of, can that happen.
OnlyTheStickChangesStations ==
  [][served # Nil /\ served' # Nil /\ served' # served
       => pc = "loaded" \/ warned]_vars

\* A usable stick that stays plugged in is eventually served and cached, for
\* good, whatever state an earlier crash or a disk that failed left the cache
\* in, and the flash is then left alone (config.go:146-151, 175-183).
StickSettles ==
  \A f \in Editions : Parse(f) # Nil =>
    (<>[](usb = f /\ pc # "down" /\ ~nvFails)
       => <>[](served = Parse(f) /\ cache = f /\ pc # "write" /\ ~warned))

\* Even if the disk keeps failing, a usable stick that stays plugged in is
\* eventually served: the copy is best effort (config.go:146-152).
StickIsServed ==
  \A f \in Editions : Parse(f) # Nil =>
    (<>[](usb = f /\ pc # "down") => <>[](served = Parse(f)))

\* config.go:130-132: "it is copied to cachePath so the most recent good
\* config survives the stick being removed": a cache that was once filled
\* never fails to load.  Does not hold: the file is truncated first.
CacheStaysUsable == pc = "cache" /\ cache # Absent => Usable(cache)

\* README.md:72-73: "or re-run scripts/deploy.sh to push it to the on-device
\* cache": once the daemon is up again it serves what was pushed.  Does not
\* hold: a stick that was left in wins, and overwrites what was pushed.
PushIsServed == pc = "ready" /\ pushed # Nil => served = Parse(pushed)

-----------------------------------------------------------------------------
(* What the files, the ticker and the fingerprints implement.              *)

\* The configuration a start without a stick finds in a cache with f.
Kept(f) == IF Usable(f) THEN Parse(f) ELSE Nil

DamagedTo(c) ==
  UNION {{Kept(g) : g \in Cut(f) \cup {EmptyFile}} :
           f \in {file \in Contents : Kept(file) = c}}

Keeper == INSTANCE ConfigKeeper WITH
  NoConfig <- Nil,
  Damaged  <- DamagedTo,
  serving  <- served,
  kept     <- Kept(cache),
  taking   <- Kept(data),
  safe     <- synced,
  doubt    <- warned

\* One configuration is served and one is kept, a stick is what changes them,
\* what is served is kept first or there is a warning, and nothing that is
\* safe on the flash is lost while no stick is read, whatever is edited,
\* unplugged, killed or switched off in between (config.go:123-152).
ImplementsKeeper == Keeper!Spec

=============================================================================
