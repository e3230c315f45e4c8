------------------------ MODULE PresetServer_proofs ------------------------
(***************************************************************************)
(* For any number of handlers, accounts, configurations and documents: the *)
(* inductive invariant of PresetServer, and what follows from it.          *)
(***************************************************************************)
EXTENDS PresetServer, TLAPS

\* A rendered configuration is a presets document.
LEMMA PresetsDocType ==
  ASSUME NEW c \in Configs \cup {Nil}, NEW b \in BaseURLs
  PROVE  PresetsDoc(RenderItems(c, b)) \in PresetsDocs
  BY DEF PresetsDocs

\* buildFull yields a document with the account, the buttons and the identity
\* it was given.
LEMMA FullDocType ==
  ASSUME NEW a \in Accounts, NEW c \in Configs \ Unencodable,
         NEW b \in BaseURLs, NEW id \in Identities, NEW now \in Times
  PROVE  /\ FullDoc(a, c, b, id, now) \in FullDocs
         /\ FullDoc(a, c, b, id, now).resource = a
         /\ FullDoc(a, c, b, id, now).presets = RenderItems(c, b)
         /\ FullDoc(a, c, b, id, now).identity = id
  <1>1. FullDoc(a, c, b, id, now) \in FullDocs
    BY DEF FullDocs
  <1> QED
    BY <1>1 DEF FullDoc

\* A document with its ETag is something a client can keep.
LEMMA CopyType ==
  ASSUME NEW d \in Docs
  PROVE  /\ MakeETag(d) \in ETags
         /\ [doc |-> d, etag |-> MakeETag(d)] \in Copies
  BY DEF ETags, Copies

\* A server that was just created satisfies the invariant.
LEMMA InitIInv == Init => IInv
  <1> SUFFICES ASSUME Init
               PROVE  IInv
    OBVIOUS
  <1>1. TypeOK
    <2>1. PresetsDoc(items) \in PresetsDocs /\ PresetsDoc(items) \in Docs
      BY PresetsDocType DEF Init, Docs
    <2>2. etag \in ETags
      BY <2>1, CopyType DEF Init
    <2> QED
      BY <2>1, <2>2 DEF Init, TypeOK, PCs
  <1>2. LockDiscipline
    BY NilAssumption DEF Init, LockDiscipline
  <1>3. ItemsCoherent /\ CacheCoherent /\ IdentityCoherent
    BY DEF Init, ItemsCoherent, CacheCoherent, IdentityCoherent
  <1>4. LocalsCoherent /\ AnswersCoherent /\ CopiesCoherent
    BY DEF Init, LocalsCoherent, AnswersCoherent, CopiesCoherent
  <1> QED
    BY <1>1, <1>2, <1>3, <1>4 DEF IInv

\* The precomputed presets follow the new configuration; nobody else's state moves.
LEMMA SetConfigStep ==
  ASSUME IInv, NEW c \in Configs, SetConfig(c)
  PROVE  IInv'
  <1> USE DEF SetConfig, Rerender, served, ident, cache, locals
  <1>1. TypeOK'
    <2>1. PresetsDoc(items') \in PresetsDocs /\ PresetsDoc(items') \in Docs
      BY PresetsDocType DEF IInv, TypeOK, Docs
    <2>2. etag' \in ETags
      BY <2>1, CopyType
    <2> QED
      BY <2>1, <2>2 DEF IInv, TypeOK, PCs
  <1>2. LockDiscipline'
    BY NilAssumption DEF IInv, TypeOK, LockDiscipline
  <1>3. ItemsCoherent'
    BY NilAssumption DEF IInv, TypeOK, ItemsCoherent
  <1>4. CacheCoherent'
    BY NilAssumption DEF IInv, TypeOK, CacheCoherent, BuiltFrom
  <1>5. IdentityCoherent'
    BY NilAssumption DEF IInv, TypeOK, IdentityCoherent
  <1>6. LocalsCoherent'
    BY NilAssumption DEF IInv, TypeOK, LocalsCoherent, CacheHit
  <1>7. AnswersCoherent'
    BY NilAssumption DEF IInv, TypeOK, AnswersCoherent, BuiltFrom
  <1>8. CopiesCoherent'
    BY NilAssumption DEF IInv, TypeOK, CopiesCoherent
  <1> QED
    BY <1>1, <1>2, <1>3, <1>4, <1>5, <1>6, <1>7, <1>8 DEF IInv

\* So they do for a new base URL; the /full slot is not touched.
LEMMA SetBaseURLStep ==
  ASSUME IInv, NEW b \in BaseURLs, SetBaseURL(b)
  PROVE  IInv'
  <1> USE DEF SetBaseURL, Rerender, served, ident, cache, locals
  <1>1. TypeOK'
    <2>1. PresetsDoc(items') \in PresetsDocs /\ PresetsDoc(items') \in Docs
      BY PresetsDocType DEF IInv, TypeOK, Docs
    <2>2. etag' \in ETags
      BY <2>1, CopyType
    <2> QED
      BY <2>1, <2>2 DEF IInv, TypeOK, PCs
  <1>2. LockDiscipline'
    BY NilAssumption DEF IInv, TypeOK, LockDiscipline
  <1>3. ItemsCoherent'
    BY NilAssumption DEF IInv, TypeOK, ItemsCoherent
  <1>4. CacheCoherent'
    BY NilAssumption DEF IInv, TypeOK, CacheCoherent, BuiltFrom
  <1>5. IdentityCoherent'
    BY NilAssumption DEF IInv, TypeOK, IdentityCoherent
  <1>6. LocalsCoherent'
    BY NilAssumption DEF IInv, TypeOK, LocalsCoherent, CacheHit
  <1>7. AnswersCoherent'
    BY NilAssumption DEF IInv, TypeOK, AnswersCoherent, BuiltFrom
  <1>8. CopiesCoherent'
    BY NilAssumption DEF IInv, TypeOK, CopiesCoherent
  <1> QED
    BY <1>1, <1>2, <1>3, <1>4, <1>5, <1>6, <1>7, <1>8 DEF IInv

\* A request starts with no snapshot and no answer, whatever copy it carries.
LEMMA ArriveStep ==
  ASSUME IInv, NEW h \in Handlers, NEW r \in Resources, Arrive(h, r)
  PROVE  IInv'
  <1> USE DEF Arrive, served, ident, cache, locals
  <1>1. TypeOK'
    BY NilAssumption DEF IInv, TypeOK, PCs
  <1>2. LockDiscipline'
    BY NilAssumption DEF IInv, TypeOK, LockDiscipline
  <1>3. ItemsCoherent'
    BY NilAssumption DEF IInv, TypeOK, ItemsCoherent
  <1>4. CacheCoherent'
    BY NilAssumption DEF IInv, TypeOK, CacheCoherent, BuiltFrom
  <1>5. IdentityCoherent'
    BY NilAssumption DEF IInv, TypeOK, IdentityCoherent
  <1>6. LocalsCoherent'
    BY NilAssumption DEF IInv, TypeOK, LocalsCoherent, CacheHit
  <1>7. AnswersCoherent'
    BY NilAssumption DEF IInv, TypeOK, LocalsCoherent, AnswersCoherent, BuiltFrom
  <1>8. CopiesCoherent'
    BY NilAssumption DEF IInv, TypeOK, CopiesCoherent
  <1> QED
    BY <1>1, <1>2, <1>3, <1>4, <1>5, <1>6, <1>7, <1>8 DEF IInv

\* items and etag are read together, so the answer carries its own ETag.
LEMMA PresetsReadStep ==
  ASSUME IInv, NEW h \in Handlers, PresetsRead(h)
  PROVE  IInv'
  <1> USE DEF PresetsRead, served, ident, cache, locals
  <1>1. TypeOK'
    <2>1. PresetsDoc(items) \in Docs /\ etag = MakeETag(PresetsDoc(items))
      BY DEF IInv, TypeOK, ItemsCoherent, Docs
    <2>2. [doc |-> PresetsDoc(items), etag |-> etag] \in Copies
      BY <2>1, CopyType
    <2> QED
      BY <2>2 DEF IInv, TypeOK, PCs
  <1>2. LockDiscipline'
    BY NilAssumption DEF IInv, TypeOK, LockDiscipline
  <1>3. ItemsCoherent'
    BY NilAssumption DEF IInv, TypeOK, ItemsCoherent
  <1>4. CacheCoherent'
    BY NilAssumption DEF IInv, TypeOK, CacheCoherent, BuiltFrom
  <1>5. IdentityCoherent'
    BY NilAssumption DEF IInv, TypeOK, IdentityCoherent
  <1>6. LocalsCoherent'
    BY NilAssumption DEF IInv, TypeOK, LocalsCoherent, CacheHit
  <1>7. AnswersCoherent'
    BY NilAssumption
    DEF IInv, TypeOK, ItemsCoherent, LocalsCoherent, AnswersCoherent, BuiltFrom,
        PresetsDoc
  <1>8. CopiesCoherent'
    BY NilAssumption DEF IInv, TypeOK, CopiesCoherent
  <1> QED
    BY <1>1, <1>2, <1>3, <1>4, <1>5, <1>6, <1>7, <1>8 DEF IInv

\* The snapshot is a configuration and a base URL in force.
LEMMA FullSnapshotStep ==
  ASSUME IInv, NEW h \in Handlers, FullSnapshot(h)
  PROVE  IInv'
  <1> USE DEF FullSnapshot, served, ident, cache, locals
  <1>1. TypeOK'
    BY DEF IInv, TypeOK, PCs, Snaps
  <1>2. LockDiscipline'
    BY NilAssumption DEF IInv, TypeOK, LockDiscipline
  <1>3. ItemsCoherent'
    BY NilAssumption DEF IInv, TypeOK, ItemsCoherent
  <1>4. CacheCoherent'
    BY NilAssumption DEF IInv, TypeOK, CacheCoherent, BuiltFrom
  <1>5. IdentityCoherent'
    BY NilAssumption DEF IInv, TypeOK, IdentityCoherent
  <1>6. LocalsCoherent'
    BY NilAssumption DEF IInv, TypeOK, LocalsCoherent, CacheHit, Snaps
  <1>7. AnswersCoherent'
    BY NilAssumption DEF IInv, TypeOK, LocalsCoherent, AnswersCoherent, BuiltFrom
  <1>8. CopiesCoherent'
    BY NilAssumption DEF IInv, TypeOK, CopiesCoherent
  <1> QED
    BY <1>1, <1>2, <1>3, <1>4, <1>5, <1>6, <1>7, <1>8 DEF IInv

\* The slot is reused only if its key is that of the snapshot, so the document
\* in it was built from an equal configuration.
LEMMA FullHitStep ==
  ASSUME IInv, NEW h \in Handlers, FullHit(h)
  PROVE  IInv'
  <1> USE DEF FullHit, CacheHit, served, ident, cache, locals
  <1>1. TypeOK'
    <2>1. fullBody \in Docs /\ fullETag = MakeETag(fullBody)
      BY DEF IInv, CacheCoherent, LocalsCoherent, Docs
    <2>2. [doc |-> fullBody, etag |-> fullETag] \in Copies
      BY <2>1, CopyType
    <2> QED
      BY <2>1, <2>2 DEF IInv, TypeOK, PCs
  <1>2. LockDiscipline'
    BY NilAssumption DEF IInv, TypeOK, LockDiscipline
  <1>3. ItemsCoherent'
    BY NilAssumption DEF IInv, TypeOK, ItemsCoherent
  <1>4. CacheCoherent'
    BY NilAssumption DEF IInv, TypeOK, CacheCoherent, BuiltFrom
  <1>5. IdentityCoherent'
    BY NilAssumption DEF IInv, TypeOK, IdentityCoherent
  <1>6. LocalsCoherent'
    BY NilAssumption DEF IInv, TypeOK, LocalsCoherent, CacheHit
  <1>7. AnswersCoherent'
    <2>1. PICK c \in Configs \ Unencodable :
            fullFP = FingerprintOf(c) /\ BuiltFrom(fullBody, fullAccount, c)
      BY DEF IInv, CacheCoherent
    <2>2. snap[h] \in Snaps /\ snap[h].cfg = c
      BY <2>1, FingerprintAssumption DEF IInv, LocalsCoherent, Snaps
    <2>3. /\ fullETag = MakeETag(fullBody) /\ fullBody \in FullDocs /\ idDone
          /\ BuiltFrom(fullBody, req[h], snap[h].cfg)
      BY <2>1, <2>2 DEF IInv, CacheCoherent
    <2> QED
      BY <2>2, <2>3 DEF IInv, TypeOK, AnswersCoherent, BuiltFrom
  <1>8. CopiesCoherent'
    BY NilAssumption DEF IInv, TypeOK, CopiesCoherent
  <1> QED
    BY <1>1, <1>2, <1>3, <1>4, <1>5, <1>6, <1>7, <1>8 DEF IInv

\* fullMu is free, so no handler is inside the critical section.
LEMMA FullMissStep ==
  ASSUME IInv, NEW h \in Handlers, FullMiss(h)
  PROVE  IInv'
  <1> USE DEF FullMiss, served, ident, cache, locals
  <1>1. TypeOK'
    BY NilAssumption DEF IInv, TypeOK, PCs
  <1>2. LockDiscipline'
    BY NilAssumption DEF IInv, TypeOK, LockDiscipline
  <1>3. ItemsCoherent'
    BY NilAssumption DEF IInv, TypeOK, ItemsCoherent
  <1>4. CacheCoherent'
    BY NilAssumption DEF IInv, TypeOK, CacheCoherent, BuiltFrom
  <1>5. IdentityCoherent'
    BY NilAssumption DEF IInv, TypeOK, IdentityCoherent
  <1>6. LocalsCoherent'
    BY NilAssumption DEF IInv, TypeOK, LocalsCoherent, CacheHit
  <1>7. AnswersCoherent'
    BY NilAssumption DEF IInv, TypeOK, AnswersCoherent, BuiltFrom
  <1>8. CopiesCoherent'
    BY NilAssumption DEF IInv, TypeOK, CopiesCoherent
  <1> QED
    BY <1>1, <1>2, <1>3, <1>4, <1>5, <1>6, <1>7, <1>8 DEF IInv

\* The identity does not change once a document carries it.
LEMMA FullIdentityStep ==
  ASSUME IInv, NEW h \in Handlers, FullIdentity(h)
  PROVE  IInv'
  <1> USE DEF FullIdentity, ResolveOnce, served, ident, cache, locals
  <1>1. TypeOK'
    BY NilAssumption DEF IInv, TypeOK, PCs
  <1>2. LockDiscipline'
    BY NilAssumption DEF IInv, TypeOK, LockDiscipline
  <1>3. ItemsCoherent'
    BY NilAssumption DEF IInv, TypeOK, ItemsCoherent
  <1>4. CacheCoherent'
    BY NilAssumption DEF IInv, TypeOK, CacheCoherent, BuiltFrom
  <1>5. IdentityCoherent'
    BY NilAssumption DEF IInv, TypeOK, IdentityCoherent
  <1>6. LocalsCoherent'
    BY DEF IInv, TypeOK, LocalsCoherent, CacheHit
  <1>7. AnswersCoherent'
    BY NilAssumption DEF IInv, TypeOK, AnswersCoherent, BuiltFrom
  <1>8. CopiesCoherent'
    BY NilAssumption DEF IInv, TypeOK, CopiesCoherent
  <1> QED
    BY <1>1, <1>2, <1>3, <1>4, <1>5, <1>6, <1>7, <1>8 DEF IInv

\* The slot is filled as a whole, while nobody else is inside.
LEMMA FullBuildStep ==
  ASSUME IInv, NEW h \in Handlers, FullBuild(h)
  PROVE  IInv'
  <1> USE DEF FullBuild, Store, served, ident, cache, locals
  <1>1. TypeOK'
    <2>1. /\ idDone /\ idResolved \in Identities
          /\ req[h] \in Accounts
          /\ snap[h].cfg \in Configs \ Unencodable /\ snap[h].base \in BaseURLs
      BY DEF IInv, LocalsCoherent, IdentityCoherent, Snaps
    <2>2. /\ fullBody' \in FullDocs
          /\ BuiltFrom(fullBody', req[h], snap[h].cfg)
          /\ fullETag' = MakeETag(fullBody')
      BY <2>1, FullDocType DEF BuiltFrom
    <2>3. fullETag' \in ETags
      BY <2>2, CopyType DEF Docs
    <2> QED
      BY <2>1, <2>2, <2>3 DEF IInv, TypeOK, PCs
  <1>2. LockDiscipline'
    BY NilAssumption DEF IInv, TypeOK, LockDiscipline
  <1>3. ItemsCoherent'
    BY NilAssumption DEF IInv, TypeOK, ItemsCoherent
  <1>4. CacheCoherent'
    <2>1. /\ idDone /\ idResolved \in Identities
          /\ req[h] \in Accounts
          /\ snap[h].cfg \in Configs \ Unencodable /\ snap[h].base \in BaseURLs
      BY DEF IInv, LocalsCoherent, IdentityCoherent, Snaps
    <2>2. /\ fullBody' \in FullDocs
          /\ BuiltFrom(fullBody', req[h], snap[h].cfg)
          /\ fullETag' = MakeETag(fullBody')
      BY <2>1, FullDocType DEF BuiltFrom
    <2> QED
      BY <2>1, <2>2 DEF CacheCoherent, BuiltFrom
  <1>5. IdentityCoherent'
    BY NilAssumption DEF IInv, TypeOK, IdentityCoherent
  <1>6. LocalsCoherent'
    <2>1. /\ idDone /\ idResolved \in Identities
          /\ req[h] \in Accounts
          /\ snap[h].cfg \in Configs \ Unencodable /\ snap[h].base \in BaseURLs
      BY DEF IInv, LocalsCoherent, IdentityCoherent, Snaps
    <2>2. /\ fullBody' \in FullDocs
          /\ BuiltFrom(fullBody', req[h], snap[h].cfg)
          /\ fullETag' = MakeETag(fullBody')
      BY <2>1, FullDocType DEF BuiltFrom
    <2>3. \A g \in Handlers \ {h} : pc[g] \notin {"identity", "build", "persist"}
      BY NilAssumption DEF IInv, LockDiscipline
    <2> QED
      BY <2>1, <2>2, <2>3, NilAssumption
      DEF IInv, TypeOK, LocalsCoherent, CacheHit, Docs
  <1>7. AnswersCoherent'
    BY NilAssumption DEF IInv, TypeOK, AnswersCoherent, BuiltFrom
  <1>8. CopiesCoherent'
    BY NilAssumption DEF IInv, TypeOK, CopiesCoherent
  <1> QED
    BY <1>1, <1>2, <1>3, <1>4, <1>5, <1>6, <1>7, <1>8 DEF IInv

\* The error path leaves the slot and gives fullMu back.
LEMMA FullBuildFailsStep ==
  ASSUME IInv, NEW h \in Handlers, FullBuildFails(h)
  PROVE  IInv'
  <1> USE DEF FullBuildFails, served, ident, cache, locals
  <1>1. TypeOK'
    BY NilAssumption DEF IInv, TypeOK, PCs
  <1>2. LockDiscipline'
    BY NilAssumption DEF IInv, TypeOK, LockDiscipline
  <1>3. ItemsCoherent'
    BY NilAssumption DEF IInv, TypeOK, ItemsCoherent
  <1>4. CacheCoherent'
    BY NilAssumption DEF IInv, TypeOK, CacheCoherent, BuiltFrom
  <1>5. IdentityCoherent'
    BY NilAssumption DEF IInv, TypeOK, IdentityCoherent
  <1>6. LocalsCoherent'
    BY NilAssumption DEF IInv, TypeOK, LocalsCoherent, CacheHit
  <1>7. AnswersCoherent'
    BY NilAssumption DEF IInv, TypeOK, AnswersCoherent, BuiltFrom
  <1>8. CopiesCoherent'
    BY NilAssumption DEF IInv, TypeOK, CopiesCoherent
  <1> QED
    BY <1>1, <1>2, <1>3, <1>4, <1>5, <1>6, <1>7, <1>8 DEF IInv

\* What was built is still in the slot, because fullMu was kept.
LEMMA FullPersistStep ==
  ASSUME IInv, NEW h \in Handlers, FullPersist(h)
  PROVE  IInv'
  <1> USE DEF FullPersist, served, ident, cache, locals
  <1>1. TypeOK'
    <2>1. fullBody \in Docs /\ fullETag = MakeETag(fullBody)
      BY DEF IInv, CacheCoherent, LocalsCoherent, Docs
    <2>2. [doc |-> fullBody, etag |-> fullETag] \in Copies
      BY <2>1, CopyType
    <2> QED
      BY <2>1, <2>2 DEF IInv, TypeOK, PCs
  <1>2. LockDiscipline'
    BY NilAssumption DEF IInv, TypeOK, LockDiscipline
  <1>3. ItemsCoherent'
    BY NilAssumption DEF IInv, TypeOK, ItemsCoherent
  <1>4. CacheCoherent'
    BY NilAssumption DEF IInv, TypeOK, CacheCoherent, BuiltFrom
  <1>5. IdentityCoherent'
    BY NilAssumption DEF IInv, TypeOK, IdentityCoherent
  <1>6. LocalsCoherent'
    BY NilAssumption DEF IInv, TypeOK, LocalsCoherent, CacheHit
  <1>7. AnswersCoherent'
    <2>1. PICK c \in Configs \ Unencodable :
            fullFP = FingerprintOf(c) /\ BuiltFrom(fullBody, fullAccount, c)
      BY DEF IInv, CacheCoherent, LocalsCoherent
    <2>2. snap[h] \in Snaps /\ snap[h].cfg = c /\ fullAccount = req[h]
      BY <2>1, FingerprintAssumption DEF IInv, LocalsCoherent, Snaps
    <2>3. /\ fullETag = MakeETag(fullBody) /\ fullBody \in FullDocs /\ idDone
          /\ BuiltFrom(fullBody, req[h], snap[h].cfg)
      BY <2>1, <2>2 DEF IInv, CacheCoherent, LocalsCoherent
    <2> QED
      BY <2>2, <2>3 DEF IInv, TypeOK, AnswersCoherent, BuiltFrom
  <1>8. CopiesCoherent'
    BY NilAssumption DEF IInv, TypeOK, CopiesCoherent
  <1> QED
    BY <1>1, <1>2, <1>3, <1>4, <1>5, <1>6, <1>7, <1>8 DEF IInv

\* The client keeps the document of the answer, or the copy it revalidated.
LEMMA ReplyStep ==
  ASSUME IInv, NEW h \in Handlers, Reply(h)
  PROVE  IInv'
  <1> USE DEF Reply, Finish, served, ident, cache, locals
  <1>1. TypeOK'
    BY NilAssumption DEF IInv, TypeOK, PCs
  <1>2. LockDiscipline'
    BY NilAssumption DEF IInv, TypeOK, LockDiscipline
  <1>3. ItemsCoherent'
    BY NilAssumption DEF IInv, TypeOK, ItemsCoherent
  <1>4. CacheCoherent'
    BY NilAssumption DEF IInv, TypeOK, CacheCoherent, BuiltFrom
  <1>5. IdentityCoherent'
    BY NilAssumption DEF IInv, TypeOK, IdentityCoherent
  <1>6. LocalsCoherent'
    BY NilAssumption DEF IInv, TypeOK, LocalsCoherent, CacheHit
  <1>7. AnswersCoherent'
    BY NilAssumption DEF IInv, TypeOK, AnswersCoherent, BuiltFrom
  <1>8. CopiesCoherent'
    <2>1. req[h] \in Resources
      BY DEF IInv, TypeOK, LocalsCoherent
    <2>2. held'[req[h]] # Nil =>
            /\ held'[req[h]].etag = MakeETag(held'[req[h]].doc)
            /\ held'[req[h]].doc.resource = req[h]
      BY <2>1 DEF IInv, TypeOK, AnswersCoherent, CopiesCoherent, NotModified
    <2> QED
      BY <2>1, <2>2 DEF IInv, TypeOK, CopiesCoherent
  <1> QED
    BY <1>1, <1>2, <1>3, <1>4, <1>5, <1>6, <1>7, <1>8 DEF IInv

\* The client keeps what it had.
LEMMA ReplyLostStep ==
  ASSUME IInv, NEW h \in Handlers, ReplyLost(h)
  PROVE  IInv'
  <1> USE DEF ReplyLost, Finish, served, ident, cache, locals
  <1>1. TypeOK'
    BY NilAssumption DEF IInv, TypeOK, PCs
  <1>2. LockDiscipline'
    BY NilAssumption DEF IInv, TypeOK, LockDiscipline
  <1>3. ItemsCoherent'
    BY NilAssumption DEF IInv, TypeOK, ItemsCoherent
  <1>4. CacheCoherent'
    BY NilAssumption DEF IInv, TypeOK, CacheCoherent, BuiltFrom
  <1>5. IdentityCoherent'
    BY NilAssumption DEF IInv, TypeOK, IdentityCoherent
  <1>6. LocalsCoherent'
    BY NilAssumption DEF IInv, TypeOK, LocalsCoherent, CacheHit
  <1>7. AnswersCoherent'
    BY NilAssumption DEF IInv, TypeOK, AnswersCoherent, BuiltFrom
  <1>8. CopiesCoherent'
    BY NilAssumption DEF IInv, TypeOK, CopiesCoherent
  <1> QED
    BY <1>1, <1>2, <1>3, <1>4, <1>5, <1>6, <1>7, <1>8 DEF IInv

\* A new process starts from nothing; only the file and the copies survive.
LEMMA RestartStep ==
  ASSUME IInv, NEW c \in Configs, Restart(c)
  PROVE  IInv'
  <1> USE DEF Restart, Rerender, served, ident, cache, locals
  <1>1. TypeOK'
    <2>1. PresetsDoc(items') \in PresetsDocs /\ PresetsDoc(items') \in Docs
      BY PresetsDocType DEF IInv, TypeOK, Docs
    <2>2. etag' \in ETags
      BY <2>1, CopyType
    <2> QED
      BY <2>1, <2>2 DEF IInv, TypeOK, PCs
  <1>2. LockDiscipline'
    BY NilAssumption DEF IInv, TypeOK, LockDiscipline
  <1>3. ItemsCoherent'
    BY NilAssumption DEF IInv, TypeOK, ItemsCoherent
  <1>4. CacheCoherent'
    BY NilAssumption DEF IInv, TypeOK, CacheCoherent, BuiltFrom
  <1>5. IdentityCoherent'
    BY NilAssumption DEF IInv, TypeOK, IdentityCoherent
  <1>6. LocalsCoherent'
    BY NilAssumption DEF IInv, TypeOK, LocalsCoherent, CacheHit
  <1>7. AnswersCoherent'
    BY NilAssumption DEF IInv, TypeOK, AnswersCoherent, BuiltFrom
  <1>8. CopiesCoherent'
    BY NilAssumption DEF IInv, TypeOK, CopiesCoherent
  <1> QED
    BY <1>1, <1>2, <1>3, <1>4, <1>5, <1>6, <1>7, <1>8 DEF IInv

-----------------------------------------------------------------------------
(* The invariant, and the properties it implies.                           *)

\* No step of a handler, the reload loop or a restart breaks the invariant.
LEMMA NextIInv == IInv /\ [Next]_vars => IInv'
  <1> SUFFICES ASSUME IInv, [Next]_vars
               PROVE  IInv'
    OBVIOUS
  <1>1. CASE UNCHANGED vars
    BY <1>1
    DEF vars, served, ident, cache, locals, IInv, TypeOK, LockDiscipline,
        ItemsCoherent, CacheCoherent, IdentityCoherent, LocalsCoherent,
        AnswersCoherent, CopiesCoherent, BuiltFrom, CacheHit
  <1>2. ASSUME NEW c \in Configs, SetConfig(c) \/ Restart(c)
        PROVE  IInv'
    BY <1>2, SetConfigStep, RestartStep
  <1>3. ASSUME NEW b \in BaseURLs, SetBaseURL(b)
        PROVE  IInv'
    BY <1>3, SetBaseURLStep
  <1>4. ASSUME NEW h \in Handlers, NEW r \in Resources, Arrive(h, r)
        PROVE  IInv'
    BY <1>4, ArriveStep
  <1>5. ASSUME NEW h \in Handlers, FullStep(h)
        PROVE  IInv'
    BY <1>5, FullSnapshotStep, FullHitStep, FullMissStep, FullIdentityStep,
       FullBuildStep, FullBuildFailsStep, FullPersistStep DEF FullStep
  <1>6. ASSUME NEW h \in Handlers, PresetsRead(h) \/ Reply(h) \/ ReplyLost(h)
        PROVE  IInv'
    BY <1>6, PresetsReadStep, ReplyStep, ReplyLostStep
  <1> QED
    BY <1>1, <1>2, <1>3, <1>4, <1>5, <1>6 DEF Next

\* The inductive invariant holds throughout, for every value of the
\* constants.
THEOREM Invariance == Spec => []IInv
  BY InitIInv, NextIInv, PTL DEF Spec

\* No interleaving of the handlers leaves a variable without a value of its
\* Go type.
THEOREM TypeCorrect == Spec => []TypeOK
  <1>1. IInv => TypeOK
    BY DEF IInv
  <1> QED
    BY Invariance, <1>1, PTL

\* Equal ETags mean equal documents, and each copy has the ETag of its own.
LEMMA NotModifiedFromIInv == IInv => NotModifiedSound
  <1> SUFFICES ASSUME IInv, NEW h \in Handlers, NotModified(h)
               PROVE  copy[h].doc = out[h].doc
    BY DEF NotModifiedSound
  <1>1. /\ copy[h].doc \in Docs /\ copy[h].etag = MakeETag(copy[h].doc)
        /\ out[h].doc \in Docs /\ out[h].etag = MakeETag(out[h].doc)
    BY DEF NotModified, IInv, TypeOK, AnswersCoherent, CopiesCoherent, Copies
  <1> QED
    BY <1>1, ETagAssumption DEF NotModified

\* A 304 never hides a change from the client (server.go:245, full.go:296).
THEOREM NotModifiedIsSound == Spec => []NotModifiedSound
  BY Invariance, NotModifiedFromIInv, PTL

\* A merged identity has every field the defaults have, whatever the device
\* answered.
LEMMA IdentitiesComplete ==
  ASSUME NEW id \in Identities, NEW f \in IdFields
  PROVE  id[f] # Empty
  <1>1. CASE id = IdDefaults
    BY <1>1, IdentityAssumption
  <1>2. CASE \E info \in InfoAnswers : id = MergeIdentity(IdDefaults, info)
    BY <1>2, IdentityAssumption DEF MergeIdentity
  <1> QED
    BY <1>1, <1>2 DEF Identities

\* No /full document is handed out with an empty identity field, so none
\* makes the speaker wipe its presets (full.go:14-19, 54-85).
THEOREM RequiredFieldsArePresent == Spec => []RequiredFieldsPresent
  <1>1. IInv => RequiredFieldsPresent
    <2> SUFFICES ASSUME IInv, NEW h \in Handlers, NEW f \in IdFields,
                        out[h] # Nil, req[h] \in Accounts
                 PROVE  out[h].doc.identity[f] # Empty
      BY DEF RequiredFieldsPresent
    <2>1. out[h].doc.identity = idResolved /\ idResolved \in Identities
      BY DEF IInv, AnswersCoherent, IdentityCoherent, BuiltFrom
    <2> QED
      BY <2>1, IdentitiesComplete
  <1> QED
    BY Invariance, <1>1, PTL

\* Two documents built by one process carry the same identity (full.go:55).
THEOREM IdentityStays == Spec => IdentityIsFinal
  <1>1. IInv /\ [Next]_vars
          => [fullBody # Nil /\ fullBody' # Nil
                => fullBody'.identity = fullBody.identity]_vars
    <2> SUFFICES ASSUME IInv, [Next]_vars, fullBody # Nil, fullBody' # Nil
                 PROVE  fullBody'.identity = fullBody.identity
      OBVIOUS
    <2>1. fullBody.identity = idResolved /\ idDone
      BY DEF IInv, CacheCoherent, BuiltFrom
    <2>2. fullBody'.identity = idResolved'
      BY NextIInv DEF IInv, CacheCoherent, BuiltFrom
    <2>3. idResolved' = idResolved
      BY <2>1
      DEF Next, FullStep, SetConfig, SetBaseURL, Arrive, PresetsRead,
          FullSnapshot, FullHit, FullMiss, FullIdentity, ResolveOnce,
          FullBuild, FullBuildFails, FullPersist, Reply, ReplyLost, Finish,
          Restart, vars, ident
    <2> QED
      BY <2>1, <2>2, <2>3
  <1> QED
    BY Invariance, <1>1, PTL DEF Spec, IdentityIsFinal

\* Several handlers that miss the slot at the same time build one document,
\* not one each (full.go:275-286).
THEOREM RebuildsOnlyOnChange == Spec => RebuildOnlyOnChange
  <1>1. IInv /\ [Next]_vars
          => [fullBody # Nil /\ fullBody' # fullBody /\ fullBody' # Nil
                => <<fullAccount', fullFP'>> # <<fullAccount, fullFP>>]_vars
    <2> SUFFICES ASSUME IInv, [Next]_vars,
                        fullBody # Nil, fullBody' # fullBody, fullBody' # Nil
                 PROVE  <<fullAccount', fullFP'>> # <<fullAccount, fullFP>>
      OBVIOUS
    <2>1. PICK h \in Handlers : FullBuild(h)
      BY DEF Next, FullStep, SetConfig, SetBaseURL, Arrive, PresetsRead,
          FullSnapshot, FullHit, FullMiss, FullIdentity,
          FullBuildFails, FullPersist, Reply, ReplyLost, Finish,
          Restart, vars, cache
    <2>2. ~CacheHit(h)
      BY <2>1 DEF IInv, LocalsCoherent, FullBuild
    <2> QED
      BY <2>1, <2>2 DEF FullBuild, Store, CacheHit
  <1> QED
    BY Invariance, <1>1, PTL DEF Spec, RebuildOnlyOnChange

\* last-full.xml follows the slot, except between the build and the write.
LastFullFollows ==
  ~DiskFaults /\ fullBody # Nil /\ (\A h \in Handlers : pc[h] # "persist")
    => lastFull = fullBody

\* Only the handler that holds fullMu touches the slot, and it leaves the
\* critical section over the write.
LEMMA LastFullStep ==
  ASSUME IInv, LastFullFollows, [Next]_vars
  PROVE  LastFullFollows'
  <1> USE DEF LastFullFollows, served, cache, locals
  <1>1. CASE UNCHANGED vars
    BY <1>1 DEF vars
  <1>2. ASSUME NEW c \in Configs, SetConfig(c)
        PROVE  LastFullFollows'
    BY <1>2 DEF SetConfig
  <1>3. ASSUME NEW c \in Configs, Restart(c)
        PROVE  LastFullFollows'
    BY <1>3 DEF Restart
  <1>4. ASSUME NEW b \in BaseURLs, SetBaseURL(b)
        PROVE  LastFullFollows'
    BY <1>4 DEF SetBaseURL
  <1>5. ASSUME NEW h \in Handlers, FullBuild(h)
        PROVE  LastFullFollows'
    <2>1. pc'[h] = "persist"
      BY <1>5 DEF FullBuild, IInv, TypeOK
    <2> QED
      BY <2>1
  <1>6. ASSUME NEW h \in Handlers, FullPersist(h)
        PROVE  LastFullFollows'
    BY <1>6 DEF FullPersist
  <1>7. ASSUME NEW h \in Handlers,
               \/ \E r \in Resources : Arrive(h, r)
               \/ PresetsRead(h) \/ FullSnapshot(h) \/ FullHit(h)
               \/ FullMiss(h) \/ FullIdentity(h) \/ FullBuildFails(h)
               \/ Reply(h) \/ ReplyLost(h)
        PROVE  LastFullFollows'
    <2>1. UNCHANGED <<fullBody, lastFull>>
      BY <1>7 DEF Arrive, PresetsRead, FullSnapshot, FullHit, FullMiss,
                  FullIdentity, FullBuildFails, Reply, ReplyLost, Finish
    <2>2. pc[h] # "persist" /\ \A g \in Handlers \ {h} : pc'[g] = pc[g]
      BY <1>7 DEF Arrive, PresetsRead, FullSnapshot, FullHit, FullMiss,
                  FullIdentity, FullBuildFails, Reply, ReplyLost, Finish,
                  IInv, TypeOK
    <2> QED
      BY <2>1, <2>2
  <1> QED
    BY <1>1, <1>2, <1>3, <1>4, <1>5, <1>6, <1>7 DEF Next, FullStep

\* While no handler builds a document, last-full.xml is the document that is
\* handed out, if the disk works (full.go:286-292).
THEOREM LastFullStays == Spec => []LastFullIsCached
  <1>1. Init => LastFullFollows
    BY DEF Init, LastFullFollows
  <1>2. IInv /\ LastFullFollows => LastFullIsCached
    BY NilAssumption
    DEF IInv, TypeOK, LockDiscipline, LastFullFollows, LastFullIsCached
  <1> QED
    BY Invariance, LastFullStep, <1>1, <1>2, PTL DEF Spec

-----------------------------------------------------------------------------
(* PresetServer implements PresetService.                                  *)

\* The buttons of a rendered configuration are its stations, in order.
LEMMA RenderedButtons ==
  ASSUME NEW c \in Configs, NEW b \in BaseURLs, NEW d,
         d.presets = RenderItems(c, b), NEW r
  PROVE  ButtonsIn(d) = ConfigButtons(r, c)
  <1>1. CASE c \in Unencodable
    BY <1>1 DEF RenderItems, ButtonsIn, ConfigButtons
  <1>2. CASE c \notin Unencodable
    <2>1. /\ DOMAIN d.presets = 1..Len(c)
          /\ \A i \in 1..Len(c) : /\ d.presets[i].button = i
                                  /\ d.presets[i].station = c[i]
      BY <1>2, NilAssumption DEF RenderItems
    <2> QED
      BY <1>2, <2>1 DEF ButtonsIn, ConfigButtons
  <1> QED
    BY <1>1, <1>2

\* A server that was just created is a service that was asked nothing.
LEMMA InitRefines == Init => Service!Init
  BY DEF Init, Service!Init, StateOf, AnswerOf, ViewOf, NoAnswer,
         Service!NoAnswer

\* The reload loop reconfigures the service.
LEMMA SetConfigRefines ==
  ASSUME NEW c \in Configs, SetConfig(c)
  PROVE  Service!Reconfigure(c)
  BY DEF SetConfig, locals, Service!Reconfigure, StateOf, AnswerOf, ViewOf

\* A request arrives.
LEMMA ArriveRefines ==
  ASSUME IInv, NEW h \in Handlers, NEW r \in Resources, Arrive(h, r)
  PROVE  Service!Ask(h, r)
  <1> USE DEF Arrive, served, IInv, TypeOK
  <1>1. StateOf(h) = "idle"
    BY DEF StateOf
  <1>2. [g \in Handlers |-> StateOf(g)]'
          = [[g \in Handlers |-> StateOf(g)] EXCEPT ![h] = "asked"]
    BY DEF StateOf
  <1>3. [g \in Handlers |-> AnswerOf(g)]' = [g \in Handlers |-> AnswerOf(g)]
    BY DEF AnswerOf
  <1> QED
    BY <1>1, <1>2, <1>3 DEF Service!Ask, ViewOf

\* The presets handler decides what to answer when it reads the items.
LEMMA PresetsReadRefines ==
  ASSUME IInv, NEW h \in Handlers, PresetsRead(h)
  PROVE  Service!Decide(h)
  <1> USE DEF PresetsRead, served, IInv, TypeOK
  <1>1. StateOf(h) = "asked"
    BY DEF StateOf
  <1>2. [g \in Handlers |-> StateOf(g)]'
          = [[g \in Handlers |-> StateOf(g)] EXCEPT ![h] = "decided"]
    BY DEF StateOf
  <1>3. AnswerOf(h)' = Service!Answer(req[h], cfg)
    <2>1. CASE cfg = Nil
      BY <2>1 DEF AnswerOf, Service!Answer, Serves
    <2>2. CASE cfg # Nil
      <3>1. out'[h] # Nil /\ out'[h].doc = PresetsDoc(items)
        <4>1. PresetsDoc(items) \in Docs /\ etag = MakeETag(PresetsDoc(items))
          BY DEF ItemsCoherent, Docs
        <4>2. [doc |-> PresetsDoc(items), etag |-> etag] \in Copies
          BY <4>1, CopyType
        <4> QED
          BY <2>2, <4>2, NilAssumption
      <3>2. ButtonsIn(PresetsDoc(items)) = ConfigButtons(Presets, cfg)
        BY <2>2, RenderedButtons DEF ItemsCoherent, PresetsDoc
      <3> QED
        BY <2>2, <3>1, <3>2 DEF AnswerOf, Service!Answer, Serves
    <2> QED
      BY <2>1, <2>2
  <1>4. [g \in Handlers |-> AnswerOf(g)]'
          = [[g \in Handlers |-> AnswerOf(g)] EXCEPT
               ![h] = Service!Answer(req[h], cfg)]
    BY <1>3 DEF AnswerOf
  <1> QED
    BY <1>1, <1>2, <1>4 DEF Service!Decide, ViewOf

\* The /full handler decides when it takes its snapshot, before fullMu.
LEMMA FullSnapshotRefines ==
  ASSUME IInv, NEW h \in Handlers, FullSnapshot(h)
  PROVE  Service!Decide(h)
  <1> USE DEF FullSnapshot, served, IInv, TypeOK
  <1>1. StateOf(h) = "asked"
    BY DEF StateOf
  <1>2. [g \in Handlers |-> StateOf(g)]'
          = [[g \in Handlers |-> StateOf(g)] EXCEPT ![h] = "decided"]
    BY DEF StateOf
  <1>3. AnswerOf(h)' = Service!Answer(req[h], cfg)
    <2>1. CASE cfg = Nil
      <3>1. pc'[h] = "reply" /\ out'[h] = Nil /\ req'[h] = req[h]
        BY <2>1 DEF LocalsCoherent
      <3> QED
        BY <2>1, <3>1 DEF AnswerOf, Service!Answer, Serves
    <2>2. CASE cfg # Nil
      <3>1. pc'[h] = "lock" /\ snap'[h].cfg = cfg /\ req'[h] = req[h]
        BY <2>2
      <3> QED
        BY <3>1 DEF AnswerOf, Service!Answer, Serves
    <2> QED
      BY <2>1, <2>2
  <1>4. [g \in Handlers |-> AnswerOf(g)]'
          = [[g \in Handlers |-> AnswerOf(g)] EXCEPT
               ![h] = Service!Answer(req[h], cfg)]
    BY <1>3 DEF AnswerOf
  <1> QED
    BY <1>1, <1>2, <1>4 DEF Service!Decide, ViewOf

\* Behind fullMu nothing is decided any more: the document in the slot gives
\* the answer the snapshot stands for.
LEMMA SlotRefines ==
  ASSUME IInv, IInv', NEW h \in Handlers, FullHit(h) \/ FullPersist(h)
  PROVE  UNCHANGED Service!vars
  <1> USE DEF FullHit, FullPersist, served, IInv, TypeOK
  <1>1. out'[h] # Nil /\ req'[h] \in Accounts
    <2>1. fullBody \in Docs /\ fullETag = MakeETag(fullBody)
      BY DEF CacheCoherent, CacheHit, LocalsCoherent, Docs
    <2>2. [doc |-> fullBody, etag |-> fullETag] \in Copies
      BY <2>1, CopyType
    <2> QED
      BY <2>2, NilAssumption DEF LocalsCoherent
  <1>2. /\ ButtonsIn(out'[h].doc) = ConfigButtons(req'[h], snap'[h].cfg)
        /\ Serves(req'[h], snap'[h].cfg)
    <2>1. /\ snap'[h].cfg \in Configs \ Unencodable
          /\ \E b \in BaseURLs :
               out'[h].doc.presets = RenderItems(snap'[h].cfg, b)
      BY <1>1 DEF AnswersCoherent, BuiltFrom, Snaps
    <2> QED
      BY <2>1, RenderedButtons, NilAssumption DEF Serves
  <1>3. AnswerOf(h)' = AnswerOf(h)
    BY <1>1, <1>2 DEF AnswerOf, Serves
  <1>4. [g \in Handlers |-> AnswerOf(g)]' = [g \in Handlers |-> AnswerOf(g)]
    BY <1>3 DEF AnswerOf
  <1>5. [g \in Handlers |-> StateOf(g)]' = [g \in Handlers |-> StateOf(g)]
    BY DEF StateOf
  <1> QED
    BY <1>4, <1>5 DEF Service!vars, ViewOf

\* Nor is it while the document is built, or cannot be.
LEMMA BuildRefines ==
  ASSUME IInv, NEW h \in Handlers,
         \/ FullMiss(h) \/ FullIdentity(h) \/ FullBuild(h) \/ FullBuildFails(h)
  PROVE  UNCHANGED Service!vars
  <1> USE DEF FullMiss, FullIdentity, FullBuild, FullBuildFails, served, locals,
              IInv, TypeOK
  <1>1. AnswerOf(h)' = AnswerOf(h)
    <2>1. CASE FullBuildFails(h)
      <3>1. pc[h] = "build" /\ pc'[h] = "reply" /\ out'[h] = Nil
        BY <2>1 DEF LocalsCoherent
      <3>2. Serves(req[h], snap[h].cfg) = FALSE
        BY <2>1, NilAssumption DEF LocalsCoherent, Serves
      <3> QED
        BY <2>1, <3>1, <3>2 DEF AnswerOf
    <2>2. CASE ~FullBuildFails(h)
      <3>1. /\ pc[h] \notin {"idle", "start", "reply"}
            /\ pc'[h] \notin {"idle", "start", "reply"}
            /\ req'[h] = req[h] /\ snap'[h] = snap[h]
        BY <2>2
      <3> QED
        BY <3>1 DEF AnswerOf, Serves
    <2> QED
      BY <2>1, <2>2
  <1>2. [g \in Handlers |-> AnswerOf(g)]' = [g \in Handlers |-> AnswerOf(g)]
    <2>1. UNCHANGED <<req, snap, out>> /\ \A g \in Handlers \ {h} : pc'[g] = pc[g]
      OBVIOUS
    <2>2. \A g \in Handlers \ {h} : AnswerOf(g)' = AnswerOf(g)
      BY <2>1 DEF AnswerOf, Serves
    <2> QED
      BY <1>1, <2>2
  <1>3. [g \in Handlers |-> StateOf(g)]' = [g \in Handlers |-> StateOf(g)]
    BY DEF StateOf
  <1> QED
    BY <1>2, <1>3 DEF Service!vars, ViewOf

\* When a request ends, however it ends, its handler forgets it.
LEMMA FinishRefines ==
  ASSUME IInv, NEW h \in Handlers, pc[h] = "reply", Finish(h)
  PROVE  /\ [g \in Handlers |-> StateOf(g)]'
              = [[g \in Handlers |-> StateOf(g)] EXCEPT ![h] = "idle"]
         /\ [g \in Handlers |-> AnswerOf(g)]'
              = [[g \in Handlers |-> AnswerOf(g)] EXCEPT ![h] = NoAnswer]
         /\ StateOf(h) = "decided"
         /\ req' = [req EXCEPT ![h] = Nil]
         /\ cfg' = cfg
  <1> USE DEF Finish, served, IInv, TypeOK
  <1>1. [g \in Handlers |-> StateOf(g)]'
          = [[g \in Handlers |-> StateOf(g)] EXCEPT ![h] = "idle"]
    BY DEF StateOf
  <1>2. [g \in Handlers |-> AnswerOf(g)]'
          = [[g \in Handlers |-> AnswerOf(g)] EXCEPT ![h] = NoAnswer]
    BY DEF AnswerOf
  <1> QED
    BY <1>1, <1>2 DEF StateOf

\* The answer reaches the client by a 200, or by a 304 that stands for it.
LEMMA ReplyRefines ==
  ASSUME IInv, NEW h \in Handlers, Reply(h)
  PROVE  Service!Tell(h)
  <1> DEFINE view == [r \in Resources |-> ViewOf(r)]
             sent == [ok |-> TRUE, resource |-> req[h],
                      buttons |-> ButtonsIn(out[h].doc)]
  <1>1. req[h] \in Resources
    BY NilAssumption DEF Reply, IInv, TypeOK, LocalsCoherent
  <1>2. pc[h] = "reply" /\ Finish(h)
    BY DEF Reply
  <1>3. view' = IF AnswerOf(h).ok THEN [view EXCEPT ![req[h]] = AnswerOf(h)]
                                  ELSE view
    <2>1. CASE out[h] = Nil
      <3>1. held' = held
        BY <1>1, <2>1 DEF Reply, IInv, TypeOK
      <3>2. AnswerOf(h).ok = FALSE
        BY <1>2, <2>1 DEF AnswerOf
      <3> QED
        BY <3>1, <3>2 DEF ViewOf
    <2>2. CASE out[h] # Nil
      <3>1. /\ held'[req[h]] # Nil
            /\ held'[req[h]].doc = out[h].doc
            /\ out[h].doc.resource = req[h]
            /\ \A r \in Resources \ {req[h]} : held'[r] = held[r]
        <4>1. NotModified(h) => copy[h].doc = out[h].doc
          BY <1>2, NotModifiedFromIInv DEF NotModifiedSound
        <4> QED
          BY <1>1, <2>2, <4>1
          DEF Reply, IInv, TypeOK, AnswersCoherent, NotModified
      <3>2. AnswerOf(h) = sent
        BY <1>2, <2>2 DEF AnswerOf
      <3>3. \A r \in {req[h]} : ViewOf(r)' = sent
        BY <3>1 DEF ViewOf
      <3>4. \A r \in Resources \ {req[h]} : ViewOf(r)' = ViewOf(r)
        BY <3>1 DEF ViewOf
      <3>5. view' = [view EXCEPT ![req[h]] = sent]
        BY <1>1, <3>3, <3>4
      <3> QED
        BY <3>2, <3>5
    <2> QED
      BY <2>1, <2>2
  <1>4. [g \in Handlers |-> AnswerOf(g)][h] = AnswerOf(h)
    OBVIOUS
  <1> QED
    BY <1>2, <1>3, <1>4, FinishRefines
    DEF Service!Tell, Service!NoAnswer, NoAnswer

\* An answer that is lost leaves the client with what it had.
LEMMA ReplyLostRefines ==
  ASSUME IInv, NEW h \in Handlers, ReplyLost(h)
  PROVE  Service!Lose(h)
  BY FinishRefines
  DEF ReplyLost, Service!Lose, Service!NoAnswer, NoAnswer, ViewOf

\* A restart forgets every request, and nothing the client has.
LEMMA RestartRefines ==
  ASSUME NEW c \in Configs, Restart(c)
  PROVE  Service!Restart(c)
  BY DEF Restart, Service!Restart, Service!NoAnswer, NoAnswer, StateOf,
         AnswerOf, ViewOf

\* Every step is a step of the service, or invisible to it.
LEMMA NextRefines ==
  ASSUME IInv, IInv', [Next]_vars
  PROVE  [Service!Next]_(Service!vars)
  <1>1. CASE UNCHANGED vars
    BY <1>1 DEF vars, served, locals, Service!vars, StateOf, AnswerOf, ViewOf
  <1>2. ASSUME NEW c \in Configs, SetConfig(c) \/ Restart(c)
        PROVE  Service!Next
    BY <1>2, SetConfigRefines, RestartRefines DEF Service!Next
  <1>3. ASSUME NEW b \in BaseURLs, SetBaseURL(b)
        PROVE  UNCHANGED Service!vars
    BY <1>3 DEF SetBaseURL, locals, Service!vars, StateOf, AnswerOf, ViewOf
  <1>4. ASSUME NEW h \in Handlers, NEW r \in Resources, Arrive(h, r)
        PROVE  Service!Next
    BY <1>4, ArriveRefines DEF Service!Next
  <1>5. ASSUME NEW h \in Handlers, FullStep(h)
        PROVE  [Service!Next]_(Service!vars)
    BY <1>5, FullSnapshotRefines, SlotRefines, BuildRefines
    DEF FullStep, Service!Next
  <1>6. ASSUME NEW h \in Handlers, PresetsRead(h) \/ Reply(h) \/ ReplyLost(h)
        PROVE  Service!Next
    BY <1>6, PresetsReadRefines, ReplyRefines, ReplyLostRefines
    DEF Service!Next
  <1> QED
    BY <1>1, <1>2, <1>3, <1>4, <1>5, <1>6 DEF Next

\* With its slot, its ETags, its locks and its reloads, the server is the
\* service the speaker expects (server.go:233-262, full.go:266-301).
THEOREM Refinement == Spec => ImplementsService
  <1>1. IInv /\ IInv' /\ [Next]_vars => [Service!Next]_(Service!vars)
    BY NextRefines
  <1> QED
    BY InitRefines, Invariance, <1>1, PTL
    DEF Spec, Service!Spec, ImplementsService

=============================================================================
