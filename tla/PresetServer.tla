---------------------------- MODULE PresetServer ----------------------------
(***************************************************************************)
(* The in-memory HTTP service of internal/preset: the presets endpoint     *)
(* (server.go) and the account document /full (full.go), served by         *)
(* concurrent net/http goroutines while the reload loop swaps the          *)
(* configuration under them.                                               *)
(*                                                                         *)
(*  - s.mu guards cfg, baseURL, items and etag.  Every critical section of *)
(*    s.mu is straight-line code on those fields only, so each is one      *)
(*    atomic action here.                                                  *)
(*  - s.fullMu guards the one-slot cache of the /full document.  It is     *)
(*    held across the :8090/info fetch and the write of last-full.xml, so  *)
(*    it is a variable, and the steps made under it are separate actions.  *)
(*  - handleAccountFull reads the configuration BEFORE it takes fullMu:    *)
(*    what it builds or compares with may be out of date by then.          *)
(*                                                                         *)
(* Data is abstracted to what the properties tell apart.  A document is a  *)
(* record of what it carries; the encoding of a station in its location    *)
(* URL is the station itself (it is opaque to this component).             *)
(***************************************************************************)
EXTENDS Naturals, Sequences

CONSTANTS
  Handlers,        \* goroutines that can serve a request at the same time
  Accounts,        \* values of {account} in /streaming/account/{account}/full
  Presets,         \* the presets resource
  Stations,        \* what one preset button can play
  Configs,         \* configurations: sequences of stations
  Unencodable,     \* those of Configs that encodeStationData rejects
  BaseURLs,        \* values of -base-url and SetBaseURL
  Times,           \* readings of nowBose(); the wall clock may be stepped
  IdFields,        \* fields of Identity
  Empty,           \* the empty string
  IdDefaults,      \* identity given by the command-line flags
  InfoAnswers,     \* identities fetchDeviceInfo may return; {} disables it
  DiskFaults,      \* may writing last-full.xml fail?
  Torn,            \* content of a file whose write did not complete
  Nil,             \* Go's nil, and a cleared local
  FingerprintOf(_),  \* config.go Fingerprint
  MakeETag(_)      \* server.go makeETag

VARIABLES
  cfg, baseURL, items, etag,                    \* under s.mu
  idDone, idResolved,                           \* s.idOnce and its result
  fullMu,                                       \* handler that holds s.fullMu
  fullAccount, fullFP, fullBody, fullETag,      \* under s.fullMu
  lastFull,                                     \* the file at -last-full
  pc, req, copy, snap, out,                     \* locals of the handlers
  held                                          \* the speaker's own copies

served == <<cfg, baseURL, items, etag>>
ident  == <<idDone, idResolved>>
cache  == <<fullAccount, fullFP, fullBody, fullETag>>
locals == <<req, copy, snap, out>>
vars   == <<served, ident, fullMu, cache, lastFull, pc, locals, held>>

Resources == Accounts \cup {Presets}

-----------------------------------------------------------------------------
(* Documents.                                                              *)

\* renderPresetItems: preset i+1 is the i-th station; nil and an encoding
\* error both degrade to no items.
RenderItems(c, b) ==
  IF c = Nil \/ c \in Unencodable
    THEN << >>
    ELSE [i \in 1..Len(c) |-> [button |-> i, station |-> c[i], base |-> b]]

\* The presets document.  Its ETag is taken over the items alone: the echoed
\* device id is not part of it.
PresetsDoc(its) ==
  [resource |-> Presets, presets |-> its, identity |-> Nil, created |-> Nil]

\* buildFull
FullDoc(a, c, b, id, now) ==
  [resource |-> a, presets |-> RenderItems(c, b), identity |-> id,
   created |-> now]

\* mergeIdentity: a fetched field wins unless it is empty.
MergeIdentityNoFallback(base, over) == over
MergeIdentity(base, over) ==
  [f \in IdFields |-> IF over[f] # Empty THEN over[f] ELSE base[f]]

Identities ==
  {IdDefaults} \cup {MergeIdentity(IdDefaults, info) : info \in InfoAnswers}

PresetsDocs ==
  {PresetsDoc(RenderItems(c, b)) : c \in Configs \cup {Nil}, b \in BaseURLs}

FullDocs ==
  {FullDoc(a, c, b, id, now) :
     a \in Accounts, c \in Configs \ Unencodable, b \in BaseURLs,
     id \in Identities, now \in Times}

Docs == PresetsDocs \cup FullDocs

ETags == {MakeETag(d) : d \in Docs}

\* What a client keeps of a 200: the document and the ETag it came with.
Copies == [doc : Docs, etag : ETags]

\* The station each button plays according to document d.
ButtonsIn(d) == {<<d.presets[i].button, d.presets[i].station>> :
                    i \in DOMAIN d.presets}

-----------------------------------------------------------------------------
(* Assumptions on the constants.                                           *)

ASSUME ConfigsAssumption ==
  /\ Configs \subseteq Seq(Stations)
  /\ Unencodable \subseteq Configs

\* main.go gives every -device-* flag a non-empty default.
ASSUME IdentityAssumption ==
  /\ \A f \in IdFields : IdDefaults[f] # Empty
  /\ IdDefaults = [f \in IdFields |-> IdDefaults[f]]

ASSUME NilAssumption ==
  /\ Nil \notin Configs
  /\ Nil \notin Docs \cup ETags \cup Copies
  /\ Nil \notin Handlers
  /\ Nil \notin Resources
  /\ Nil \notin {FingerprintOf(c) : c \in Configs}
  /\ Torn \notin Docs \cup {Nil}
  /\ Presets \notin Accounts

\* Line-by-line concatenation with '|' and '\n' is injective because parsed
\* fields contain neither.
ASSUME FingerprintAssumption ==
  \A c, d \in Configs : FingerprintOf(c) = FingerprintOf(d) => c = d

\* FNV-1a is taken to be collision free on the documents of one deployment.
ASSUME ETagAssumption ==
  \A d, e \in Docs : MakeETag(d) = MakeETag(e) => d = e

-----------------------------------------------------------------------------
(* The state a process starts in: NewServer, then SetIdentity, before any  *)
(* request is served.  Only tests start without a configuration.           *)

\* rerenderLocked: items and etag always follow cfg and baseURL.
RerenderKeepsETag(c, b) ==
  /\ items' = RenderItems(c, b)
  /\ etag' = etag
Rerender(c, b) ==
  /\ items' = RenderItems(c, b)
  /\ etag' = MakeETag(PresetsDoc(RenderItems(c, b)))

Init ==
  /\ cfg \in Configs \cup {Nil}
  /\ baseURL \in BaseURLs
  /\ items = RenderItems(cfg, baseURL)
  /\ etag = MakeETag(PresetsDoc(items))
  /\ idDone = FALSE
  /\ idResolved = Nil
  /\ fullMu = Nil
  /\ fullAccount = Nil /\ fullFP = Nil /\ fullBody = Nil /\ fullETag = Nil
  /\ lastFull = Nil
  /\ pc = [h \in Handlers |-> "idle"]
  /\ req = [h \in Handlers |-> Nil]
  /\ copy = [h \in Handlers |-> Nil]
  /\ snap = [h \in Handlers |-> Nil]
  /\ out = [h \in Handlers |-> Nil]
  /\ held = [r \in Resources |-> Nil]

-----------------------------------------------------------------------------
(* The reload loop, and whoever else reconfigures a running server.        *)

SetConfig(c) ==
  /\ cfg' = c
  /\ Rerender(c, baseURL)
  /\ UNCHANGED <<baseURL, ident, fullMu, cache, lastFull, pc, locals, held>>

SetBaseURL(b) ==
  /\ baseURL' = b
  /\ Rerender(cfg, b)
  /\ UNCHANGED <<cfg, ident, fullMu, cache, lastFull, pc, locals, held>>

-----------------------------------------------------------------------------
(* A request.  The client may or may not send the ETag of the copy it      *)
(* holds; the body it would keep on a 304 travels with it as copy[h].      *)

Arrive(h, r) ==
  /\ pc[h] = "idle"
  /\ pc' = [pc EXCEPT ![h] = "start"]
  /\ req' = [req EXCEPT ![h] = r]
  /\ \E c \in {Nil, held[r]} : copy' = [copy EXCEPT ![h] = c]
  /\ UNCHANGED <<served, ident, fullMu, cache, lastFull, snap, out, held>>

\* handlePresets reads cfg, items and etag in one section of s.mu.
PresetsRead(h) ==
  /\ pc[h] = "start"
  /\ req[h] = Presets
  /\ out' = [out EXCEPT ![h] =
               IF cfg = Nil THEN Nil
                            ELSE [doc |-> PresetsDoc(items), etag |-> etag]]
  /\ pc' = [pc EXCEPT ![h] = "reply"]
  /\ UNCHANGED <<served, ident, fullMu, cache, lastFull, req, copy, snap, held>>

\* handleAccountFull: s.snapshot(), outside fullMu.
FullSnapshot(h) ==
  /\ pc[h] = "start"
  /\ req[h] \in Accounts
  /\ IF cfg = Nil
       THEN /\ pc' = [pc EXCEPT ![h] = "reply"]
            /\ UNCHANGED snap
       ELSE /\ pc' = [pc EXCEPT ![h] = "lock"]
            /\ snap' = [snap EXCEPT ![h] = [cfg |-> cfg, base |-> baseURL]]
  /\ UNCHANGED <<served, ident, fullMu, cache, lastFull, req, copy, out, held>>

\* The cached document may be reused: same account, same configuration.
\* The base URL of the snapshot is not part of the key.
CacheHitAnyAccount(h) ==
  /\ fullBody # Nil
  /\ fullFP = FingerprintOf(snap[h].cfg)
CacheHitAnyConfig(h) ==
  /\ fullBody # Nil
  /\ fullAccount = req[h]
CacheHitNever(h) == FALSE /\ pc[h] = "lock"
CacheHit(h) ==
  /\ fullBody # Nil
  /\ fullAccount = req[h]
  /\ fullFP = FingerprintOf(snap[h].cfg)

\* fullMu is taken, the slot is read, and fullMu is released.
FullHit(h) ==
  /\ pc[h] = "lock"
  /\ fullMu = Nil
  /\ CacheHit(h)
  /\ out' = [out EXCEPT ![h] = [doc |-> fullBody, etag |-> fullETag]]
  /\ pc' = [pc EXCEPT ![h] = "reply"]
  /\ UNCHANGED <<served, ident, fullMu, cache, lastFull, req, copy, snap, held>>

\* fullMu is taken and kept until the document is built and persisted.
FullMiss(h) ==
  /\ pc[h] = "lock"
  /\ fullMu = Nil
  /\ ~CacheHit(h)
  /\ fullMu' = h
  /\ pc' = [pc EXCEPT ![h] = "identity"]
  /\ UNCHANGED <<served, ident, cache, lastFull, locals, held>>

\* identity(): the fetch of :8090/info happens in the first call only; a
\* fetch that is disabled, fails or times out leaves the defaults for good.
ResolveEachTime ==
  /\ idDone' = TRUE
  /\ idResolved' \in Identities
ResolveOnce ==
  IF idDone
    THEN UNCHANGED ident
    ELSE /\ idDone' = TRUE
         /\ idResolved' \in Identities

FullIdentity(h) ==
  /\ pc[h] = "identity"
  /\ ResolveOnce
  /\ pc' = [pc EXCEPT ![h] = "build"]
  /\ UNCHANGED <<served, fullMu, cache, lastFull, locals, held>>

\* What the slot holds after document d was built for account a from c.
StoreKeepsETag(a, c, d) ==
  /\ fullAccount' = a
  /\ fullFP' = FingerprintOf(c)
  /\ fullBody' = d
  /\ fullETag' = IF fullETag = Nil THEN MakeETag(d) ELSE fullETag
Store(a, c, d) ==
  /\ fullAccount' = a
  /\ fullFP' = FingerprintOf(c)
  /\ fullBody' = d
  /\ fullETag' = MakeETag(d)

FullBuildUnlocks(h) ==
  /\ pc[h] = "build"
  /\ snap[h].cfg \notin Unencodable
  /\ \E now \in Times :
       Store(req[h], snap[h].cfg,
             FullDoc(req[h], snap[h].cfg, snap[h].base, idResolved, now))
  /\ fullMu' = Nil
  /\ pc' = [pc EXCEPT ![h] = "persist"]
  /\ UNCHANGED <<served, ident, lastFull, locals, held>>
FullBuildDegrades(h) ==
  /\ pc[h] = "build"
  /\ \E now \in Times :
       Store(req[h], snap[h].cfg,
             FullDoc(req[h], snap[h].cfg, snap[h].base, idResolved, now))
  /\ pc' = [pc EXCEPT ![h] = "persist"]
  /\ UNCHANGED <<served, ident, fullMu, lastFull, locals, held>>
FullBuild(h) ==
  /\ pc[h] = "build"
  /\ snap[h].cfg \notin Unencodable
  /\ \E now \in Times :
       Store(req[h], snap[h].cfg,
             FullDoc(req[h], snap[h].cfg, snap[h].base, idResolved, now))
  /\ pc' = [pc EXCEPT ![h] = "persist"]
  /\ UNCHANGED <<served, ident, fullMu, lastFull, locals, held>>

\* The error path: the slot is left alone and fullMu is released.
FullBuildFailsLocked(h) ==
  /\ pc[h] = "build"
  /\ snap[h].cfg \in Unencodable
  /\ pc' = [pc EXCEPT ![h] = "reply"]
  /\ UNCHANGED <<served, ident, fullMu, cache, lastFull, locals, held>>
FullBuildFails(h) ==
  /\ pc[h] = "build"
  /\ snap[h].cfg \in Unencodable
  /\ fullMu' = Nil
  /\ pc' = [pc EXCEPT ![h] = "reply"]
  /\ UNCHANGED <<served, ident, cache, lastFull, locals, held>>

\* last-full.xml is written, an error of the write is ignored, and the slot
\* is read before fullMu is released.
FullPersist(h) ==
  /\ pc[h] = "persist"
  /\ lastFull' \in {fullBody} \cup IF DiskFaults THEN {lastFull, Torn} ELSE {}
  /\ out' = [out EXCEPT ![h] = [doc |-> fullBody, etag |-> fullETag]]
  /\ fullMu' = Nil
  /\ pc' = [pc EXCEPT ![h] = "reply"]
  /\ UNCHANGED <<served, ident, cache, req, copy, snap, held>>

Finish(h) ==
  /\ pc' = [pc EXCEPT ![h] = "idle"]
  /\ req' = [req EXCEPT ![h] = Nil]
  /\ copy' = [copy EXCEPT ![h] = Nil]
  /\ snap' = [snap EXCEPT ![h] = Nil]
  /\ out' = [out EXCEPT ![h] = Nil]
  /\ UNCHANGED <<served, ident, fullMu, cache, lastFull>>

\* 304 when the client's ETag is the document's: no body is sent.
NotModified(h) == copy[h] # Nil /\ out[h] # Nil /\ copy[h].etag = out[h].etag

\* 304, 200 with the body, or an error status (503 or 500).
Reply(h) ==
  /\ pc[h] = "reply"
  /\ held' = [held EXCEPT ![req[h]] =
                IF out[h] = Nil THEN @
                ELSE IF NotModified(h) THEN copy[h] ELSE out[h]]
  /\ Finish(h)

\* The connection broke: the error of w.Write is ignored.
ReplyLost(h) ==
  /\ pc[h] = "reply"
  /\ UNCHANGED held
  /\ Finish(h)

\* The process dies (a write in progress may be cut short) and main starts a
\* new one from configuration c.  Connections are dropped with it.
Restart(c) ==
  /\ cfg' = c
  /\ baseURL' \in BaseURLs
  /\ Rerender(c, baseURL')
  /\ idDone' = FALSE
  /\ idResolved' = Nil
  /\ fullMu' = Nil
  /\ fullAccount' = Nil /\ fullFP' = Nil /\ fullBody' = Nil /\ fullETag' = Nil
  /\ lastFull' \in
       {lastFull} \cup
       IF \E h \in Handlers : pc[h] = "persist" THEN {fullBody, Torn} ELSE {}
  /\ pc' = [h \in Handlers |-> "idle"]
  /\ req' = [h \in Handlers |-> Nil]
  /\ copy' = [h \in Handlers |-> Nil]
  /\ snap' = [h \in Handlers |-> Nil]
  /\ out' = [h \in Handlers |-> Nil]
  /\ UNCHANGED held

FullStep(h) ==
  \/ FullSnapshot(h)
  \/ FullHit(h)
  \/ FullMiss(h)
  \/ FullIdentity(h)
  \/ FullBuild(h)
  \/ FullBuildFails(h)
  \/ FullPersist(h)

Next ==
  \/ \E c \in Configs : SetConfig(c) \/ Restart(c)
  \/ \E b \in BaseURLs : SetBaseURL(b)
  \/ \E h \in Handlers :
        \/ \E r \in Resources : Arrive(h, r)
        \/ PresetsRead(h)
        \/ FullStep(h)
        \/ Reply(h)
        \/ ReplyLost(h)

Spec == Init /\ [][Next]_vars

\* A goroutine that can run is scheduled.  Waiting for fullMu is strongly
\* fair: after 1 ms of waiting a sync.Mutex hands the lock to its waiter.
Fairness ==
  \A h \in Handlers :
    /\ WF_vars(PresetsRead(h) \/ FullSnapshot(h) \/ FullIdentity(h)
               \/ FullBuild(h) \/ FullBuildFails(h) \/ FullPersist(h)
               \/ Reply(h) \/ ReplyLost(h))
    /\ SF_vars(FullHit(h) \/ FullMiss(h))

FairSpec == Spec /\ Fairness

-----------------------------------------------------------------------------
(* Properties.                                                             *)

PCs == {"idle", "start", "lock", "identity", "build", "persist", "reply"}
Snaps == [cfg : Configs, base : BaseURLs]

\* Every variable holds a value the Go declarations and the renderers allow.
TypeOK ==
  /\ cfg \in Configs \cup {Nil}
  /\ baseURL \in BaseURLs
  /\ PresetsDoc(items) \in PresetsDocs
  /\ etag \in ETags
  /\ idDone \in BOOLEAN
  /\ idResolved \in Identities \cup {Nil}
  /\ fullMu \in Handlers \cup {Nil}
  /\ fullAccount \in Accounts \cup {Nil}
  /\ fullFP \in {FingerprintOf(c) : c \in Configs} \cup {Nil}
  /\ fullBody \in FullDocs \cup {Nil}
  /\ fullETag \in ETags \cup {Nil}
  /\ lastFull \in FullDocs \cup {Nil, Torn}
  /\ pc \in [Handlers -> PCs]
  /\ req \in [Handlers -> Resources \cup {Nil}]
  /\ copy \in [Handlers -> Copies \cup {Nil}]
  /\ snap \in [Handlers -> Snaps \cup {Nil}]
  /\ out \in [Handlers -> Copies \cup {Nil}]
  /\ held \in [Resources -> Copies \cup {Nil}]

\* fullMu is held exactly by the handler that is resolving the identity,
\* building or persisting, on every path through handleAccountFull.
LockDiscipline ==
  \A h \in Handlers : pc[h] \in {"identity", "build", "persist"} <=> fullMu = h

\* The precomputed presets are those of the configuration in force.
ItemsCoherent ==
  /\ items = RenderItems(cfg, baseURL)
  /\ etag = MakeETag(PresetsDoc(items))

\* d was built for account a from configuration c and the final identity.
BuiltFrom(d, a, c) ==
  /\ d.resource = a
  /\ d.identity = idResolved
  /\ \E b \in BaseURLs : d.presets = RenderItems(c, b)

\* The four fields of the /full slot describe one document: its account, the
\* configuration its presets were built from, its ETag (full.go:286).
CacheCoherent ==
  \/ fullBody = Nil /\ fullAccount = Nil /\ fullFP = Nil /\ fullETag = Nil
  \/ /\ fullBody \in FullDocs
     /\ fullETag = MakeETag(fullBody)
     /\ idDone
     /\ \E c \in Configs \ Unencodable :
          fullFP = FingerprintOf(c) /\ BuiltFrom(fullBody, fullAccount, c)

\* The identity is there once it was resolved.
IdentityCoherent == idDone => idResolved \in Identities

\* What each handler has in its locals at each point of its way.
LocalsCoherent ==
  \A h \in Handlers :
    /\ pc[h] = "idle" <=> req[h] = Nil
    /\ pc[h] \in {"idle", "start"} => snap[h] = Nil
    /\ pc[h] # "reply" => out[h] = Nil
    /\ pc[h] = "idle" => copy[h] = Nil
    /\ pc[h] \in {"lock", "identity", "build", "persist"}
         => req[h] \in Accounts /\ snap[h] \in Snaps
    /\ pc[h] \in {"identity", "build"} => ~CacheHit(h)
    /\ pc[h] \in {"build", "persist"} => idDone
    /\ pc[h] = "persist" =>
         /\ fullBody # Nil
         /\ fullAccount = req[h]
         /\ fullFP = FingerprintOf(snap[h].cfg)

\* An answer carries the ETag of its document, which is a document of the
\* resource asked for; of /full, one built from the snapshot of the handler.
AnswersCoherent ==
  \A h \in Handlers : out[h] # Nil =>
    /\ out[h].etag = MakeETag(out[h].doc)
    /\ out[h].doc.resource = req[h]
    /\ req[h] \in Accounts =>
         /\ out[h].doc \in FullDocs
         /\ snap[h] \in Snaps
         /\ snap[h].cfg \notin Unencodable
         /\ idDone
         /\ BuiltFrom(out[h].doc, req[h], snap[h].cfg)

\* What a client keeps, and revalidates, is a document with its own ETag.
CopiesCoherent ==
  /\ \A r \in Resources : held[r] # Nil =>
       held[r].etag = MakeETag(held[r].doc) /\ held[r].doc.resource = r
  /\ \A h \in Handlers : copy[h] # Nil =>
       copy[h].etag = MakeETag(copy[h].doc) /\ copy[h].doc.resource = req[h]

\* The inductive invariant: nothing a handler carries from one step to the
\* next is contradicted by what other handlers, the reload loop or a restart
\* did in between.
IInv ==
  /\ TypeOK
  /\ LockDiscipline
  /\ ItemsCoherent
  /\ CacheCoherent
  /\ IdentityCoherent
  /\ LocalsCoherent
  /\ AnswersCoherent
  /\ CopiesCoherent

\* A 304 is only sent to a client whose copy is byte for byte the document a
\* 200 would have carried, however the configuration, the slot and the
\* process changed since it was fetched (server.go:244-248, full.go:296-299).
NotModifiedSound ==
  \A h \in Handlers :
    pc[h] = "reply" /\ NotModified(h) => copy[h].doc = out[h].doc

\* No /full document is ever handed out with an empty identity field: the
\* speaker would abort its sync and wipe its presets (full.go:14-19).
RequiredFieldsPresent ==
  \A h \in Handlers, f \in IdFields :
    pc[h] = "reply" /\ out[h] # Nil /\ req[h] \in Accounts
      => out[h].doc.identity[f] # Empty

\* Within one process the identity in /full is decided once: two documents
\* built in the same life carry the same identity, whatever :8090/info
\* answers later (full.go:55).
IdentityIsFinal ==
  [][fullBody # Nil /\ fullBody' # Nil
       => fullBody'.identity = fullBody.identity]_vars

\* The slot is rebuilt only for another account or another configuration
\* than it was built from, so that polls see a stable ETag, also when
\* several handlers miss it at the same time (full.go:275-279).
RebuildOnlyOnChange ==
  [][fullBody # Nil /\ fullBody' # fullBody /\ fullBody' # Nil
       => <<fullAccount', fullFP'>> # <<fullAccount, fullFP>>]_vars

\* With a disk that works, last-full.xml is the document in the slot
\* whenever no handler is building one (full.go:286-289).
LastFullIsCached ==
  ~DiskFaults /\ fullMu = Nil /\ fullBody # Nil => lastFull = fullBody

\* Every request is answered, also the one that waits behind a slow build
\* and the one whose build fails (full.go:278-292), or its process dies.
EveryRequestAnswered ==
  \A h \in Handlers : pc[h] # "idle" ~> pc[h] = "idle"

-----------------------------------------------------------------------------
(* The service the cache, the ETags and the locks implement.               *)

Serves(r, c) == c # Nil /\ (r = Presets \/ c \notin Unencodable)

ConfigButtons(r, c) ==
  IF c \in Unencodable THEN {} ELSE {<<i, c[i]>> : i \in 1..Len(c)}

NoAnswer == [ok |-> FALSE, resource |-> Nil, buttons |-> {}]

\* How far a request is: its answer is decided when the configuration it
\* will be served from has been read.
StateOf(h) ==
  CASE pc[h] = "idle"  -> "idle"
    [] pc[h] = "start" -> "asked"
    [] OTHER           -> "decided"

AnswerOf(h) ==
  CASE pc[h] \in {"idle", "start"} -> NoAnswer
    [] pc[h] = "reply" ->
         [ok       |-> out[h] # Nil,
          resource |-> req[h],
          buttons  |-> IF out[h] = Nil THEN {} ELSE ButtonsIn(out[h].doc)]
    [] OTHER ->
         [ok       |-> Serves(req[h], snap[h].cfg),
          resource |-> req[h],
          buttons  |-> IF Serves(req[h], snap[h].cfg)
                         THEN ConfigButtons(req[h], snap[h].cfg) ELSE {}]

ViewOf(r) ==
  IF held[r] = Nil
    THEN NoAnswer
    ELSE [ok |-> TRUE, resource |-> held[r].doc.resource,
          buttons |-> ButtonsIn(held[r].doc)]

Service == INSTANCE PresetService WITH
  NoResource <- Nil,
  NoConfig   <- Nil,
  Buttons    <- ConfigButtons,
  config     <- cfg,
  resource   <- req,
  state      <- [h \in Handlers |-> StateOf(h)],
  answer     <- [h \in Handlers |-> AnswerOf(h)],
  view       <- [r \in Resources |-> ViewOf(r)]

\* Through the one-slot cache, the ETags and the interleavings of handlers
\* with the reload loop, each answer is what one configuration in force
\* while the request was served would give for the resource it asked for,
\* and the speaker ends up with it, by a 200 or by a 304.
ImplementsService == Service!Spec

=============================================================================
