# Verification of the SoundTouch preset server

TLA+ models, TLC checks and TLAPS proofs for the daemon that replaces Bose's
cloud on a SoundTouch speaker. Source lines are those of `src/`; Go files are
named without their directory (`internal/preset/`, `main.go` in
`cmd/preset-server/`).

## 1. The system

| Component | State | Operations | Interacts with |
|---|---|---|---|
| Preset server (`server.go`, `full.go`) | `cfg`, `baseURL`, `items`, `etag` under `s.mu`; `idOnce`, `idResolved`; the one-slot `/full` cache under `s.fullMu`; the file `last-full.xml` | `SetConfig`, `SetBaseURL`, `handlePresets`, `handleAccountFull`, `identity` | the speaker's requests (one goroutine each), the reload loop (`SetConfig`), the speaker's `:8090/info`, the disk |
| Configuration file (`config.go`) | none (pure) | `ParseConfig`, `validateStreamURL`, `Fingerprint` | `Load`, the reload loop, the key of the `/full` slot |
| Configuration store (`config.go`, `main.go`) | stick and cache files, the served configuration, the remembered fingerprint | `main`'s start, `WaitForFile`, `Load`, `loadCache`, `writeCacheIfChanged`, `reloadOnce` | the operator (stick, deployments), the disk, the preset server |
| Stations (`encoding.go`, `handleStation`) | none | encode and decode the `?data=` blob | the speaker relays the blob from `/presets` or `/full` |
| Boot stubs (`marge.go`), BMX/Orion (`bmx.go`) | none | constant answers | the speaker |
| The speaker | six buttons, its copy of `/full` with an ETag, the catalog | polls, presses | everything above; external |
| Access logging (`server.go:142-172`) | a flag | log lines | syslog |
| Init script (`preset-server.init`) | PID file, processes | start, stop, restart, status | the daemon, `/healthz`, `deploy.sh`, the boot |
| Deployment (`deploy.sh`) | files on the speaker, rootfs rw/ro | stop, push, verify, back up, redirect, start | the init script, the cache |
| WiFi provisioning (`provision-wifi.sh`) | none | POST with one retry | the speaker's setup API |
| Preset repair (`set_presets.sh`) | none | six POSTs | the speaker's own API |

What is hard here, and what would make it right:

* **Concurrency.** The speaker's requests and the reload loop run at the same
  time under two locks. `handleAccountFull` reads the configuration under
  `s.mu`, lets go of it, and only then takes `fullMu`; `fullMu` is held across
  a network fetch and a file write. Right means: each answer is one some
  configuration in force during the request would give, a 304 never hides a
  change, an ETag stays put while nothing changes, and nobody waits for ever.
* **Failure.** Answers get lost, the daemon and the power die, the cache write
  is not atomic, the stick comes late, goes early or holds garbage. Right
  means: a bad stick never costs the stations that are served, a good one that
  stays is eventually served, cached and on the buttons. Deployments break off
  at any command, over daemons and files that earlier ones left. Right means: a
  success that is reported is one, nothing is left that a re-run cannot repair.
* **Boundaries.** Empty files, the seventh station, lines cut in the middle,
  identities that come back in part.

The hazards, line by line, are in `PROJECT.json`.

## 2. Modules

| Module | What it is |
|---|---|
| `PresetService` | Abstract: ask, decide in one instant, tell or lose; no caches, locks or ETags |
| `PresetServer` | `server.go` and `full.go`: the handlers as steps of goroutines, and the mapping onto `PresetService` |
| `Values` | The two values that files and stations have in common: no text, no value |
| `ConfigFile` | `ParseConfig`, `validateStreamURL`, `Fingerprint` as functions of a file; what a cut leaves of a file |
| `StationData` | `encoding.go`, `handleStation`, `bmx.go`, `marge.go` and the routes as operators; what a press needs of them |
| `FileToButton` | `ConfigFile` and `StationData` together: files grow line by line, and what holds of each of them |
| `ConfigKeeper` | Abstract: one configuration served, one kept, only a stick makes a change; no files, ticker or fingerprints |
| `ConfigStore` | `main.go`, `Load` and its cache, the reload loop, operator, disk and crashes, and the mapping onto `ConfigKeeper` |
| `PresetSystem` | `ConfigStore` driving `PresetServer`, and the speaker with its buttons |
| `InitScript` | `preset-server.init`, the PID file, shells and daemons |
| `Deploy` | extends `InitScript` with `deploy.sh`, boots and faults |
| `ProvisionWifi` | `post_profile` of `provision-wifi.sh` |
| `Recovery` | `Deploy` and `ProvisionWifi` after a factory reset, by an operator who keeps trying |
| `*_proofs` | The proofs about `PresetServer`, `ConfigFile`, `StationData`, `FileToButton`, `ConfigStore`, `PresetSystem` and `Recovery` |
| `MC*` | Small instances for TLC; in all of them `ConfigFile` gives the fingerprints, the parser and the torn files |

### PresetServer and the code

`s.mu` guards straight-line code on its own fields, so each of its critical
sections is one atomic action: `SetConfig`, `SetBaseURL` (both with
`rerenderLocked`), `PresetsRead`, `FullSnapshot`. `fullMu` is a variable. A
request for `/full` goes through

    idle --Arrive--> start --FullSnapshot--> lock --FullHit--> reply --> idle
                                               \--FullMiss--> identity
         identity --FullIdentity--> build --FullBuild--> persist --FullPersist--> reply
                                         \--FullBuildFails--> reply

and one for the presets through `idle, start, reply`. `Reply` is a 200, a 304
or an error; `ReplyLost` is the ignored error of `w.Write`. `Restart` ends the
process at any point and starts a new one, whose slot and identity are empty;
the files and the speaker's own copies stay. The speaker keeps the last
document with its ETag (`held`) and sends the ETag or not. A document is a
record of what it carries: resource, buttons (with station and base URL),
identity and creation time.

A reading of four places:

* The encoding of a station is opaque, but it may fail: the code has error
  paths for that (`server.go:94-98`, `full.go:281-285`), although its comment
  says JSON marshalling of strings does not fail. `Unencodable` is the set of
  configurations that take these paths.
* The identity fetch either yields nothing (the defaults stay, for good) or an
  identity with any fields empty that the constant `InfoAnswers` lists.
* A handler reads the configuration before it takes `fullMu` (`full.go:267`).
  Overtaken by a reload and by a handler that fills the slot from the new
  configuration, it finds a slot with another fingerprint and rebuilds it from
  the old one, and the next poll rebuilds again. "Rebuild only when the requested
  account or the config changes" (`full.go:275-277`) is true of the slot's key
  (`RebuildOnlyOnChange`), not of the configuration in force; the answers are
  those of `PresetService` all the same.
* `MakeETag` is a 32-bit hash; `ETagAssumption` says it does not collide. What
  a collision does is plain (a 304 for a changed document) and not modelled.

### ConfigFile, FileToButton and the code

A file is its sequence of lines: blank, comment, too long for the scanner, or
fields. A field is a text from a small set of which some are URLs the code
accepts. `ParseLine` is one turn of the scanner loop, `Scan` what the loop has
after each line, `ParseConfig` the whole. `Fingerprint` is the sequence of what
it writes: texts, which are atoms, and the separators between them; no text
contains a separator, since `ParseConfig` splits and scans at them
(`SeparatorsAssumption`). `CutFiles` is what the file system leaves of a file
whose write or copy was cut short: whole lines, and perhaps the beginning of one.

None of this has a state of its own. `FileToButton` has one variable, a file
that an operator writes line by line, so that every file is a state and every
claim about files an invariant; its properties go from the line of a file to
the stream that its button plays.

### ConfigStore and the code

There is one goroutine that loads (`main` first, the reload loop then), so `pc`
is where it is: `down, wait` (`WaitForFile`), `load` (read the stick),
`compare` and `write` (`writeCacheIfChanged`), `loaded` or `cache` (which
source), `ready` (between ticks). `os.WriteFile` truncates and then writes:
`CompareCache` ends with an empty file open, `WriteCache` fills it. `Apply` is
both `main`'s first use of the result and `reloadOnce`; `warned` is whether the
last `Load` returned a warning about the copy. The operator plugs, unplugs and
edits the stick at any moment and deploys while the daemon is stopped;
`DiskTurns` makes the writes of `/mnt/nv` fail and work again; `Kill` may come
between any two steps or within a write; `PowerCut` loses what was not written
back, `Sync` is that write-back. A power cut that brings an older, complete
content of the cache back is not modelled, nor are `-reload-interval=0` and an
empty `-last-full`.

`ConfigKeeper` is what all this is for. It knows configurations only: the one
that is served, the one that is kept for a start without a stick, the one that
was just found on a stick, whether what is kept would survive a loss of power,
and whether there was a warning. The mapping reads what is kept off the cache
(`Kept(cache)`: what `loadCache` would yield) and what was found off the bytes
in hand; the page cache is `safe`, the warning is `doubt`. Ticks, plugging and
failed loads are stutters, `CompareCache` is a `Find`, a `Clear` or a
`FailToKeep`, `WriteCache` a `Keep` or a `FailToKeep`, `Apply` a `Serve` or a
`Resume`. What it promises: a configuration is served only if it is kept, or
the user was warned; without a stick, what is served changes only after a
warning; and what is kept changes only to what was found on a stick or deployed
to a speaker whose process is down, or to what a write of the two leaves when it
is broken off or had not reached the flash.

### PresetSystem and the code

`PresetServer.SetConfig` takes any configuration at any time. Here the only
caller is the loop of `ConfigStore`: whenever `served` changes, `Follow` does
`SetConfig` (load, reload) or, when the process dies, `Restart`. Handlers run
only while a configuration is served, as `main` listens after the first `Load`.
The speaker polls `/full` and takes all six buttons from a 200; a 304 or an
error leaves them alone (`SERVICE.md:50-57`).

### StationData and the code

A JSON payload is opaque. Of its base64 text the model keeps what its decoding
and the query string depend on: the length of the payload modulo 3, the use of
the two characters in which the alphabets differ, and the padding. That is
enough to decide which of the four decoders accepts it and whether a `+` that
was not escaped becomes a space. `Marshal` is not the identity: text that is not
UTF-8 is changed by `json.Marshal`. `Press` is the flow of `bmx.go:18-21` and
`marge.go:11-16`: the catalog (perhaps one known from an earlier boot, which is
a 304), the registry, the token, the location. The catalog is cut to three of
its 43 entries; no preset refers to another. The constant stubs are a table of
statuses.

### InitScript, Deploy and the code

`sh -c "exec DAEMON ... | logger"` runs each side of the pipeline in a process
of its own, so what `--make-pidfile` records is the shell that waits for both.
An element of `proc` is a daemon and that shell: `stop` ends the shell, the
daemon goes on. A daemon is in `mount` (`WaitForFile`; not listening, and
SIGTERM ends it), `serving`, or `draining` (`Shutdown`). The port has one
listener; a second daemon ends with `log.Fatalf`.

`step` is the command of `deploy.sh` that runs next; each is an action. Where the
script says `|| true` a failure is not an end but a way on: `StopMissed` is a
connection that breaks while the old instance is stopped (lines 84 and 89-92),
`Trap` a remount that is refused because a file of `/` is open for writing (line
134; `/` then stays writable until the next trap or boot), and `UpdateLinks`
makes the rc.d links, which are files of `/`, only if `/` is still writable and
`update-rc.d` works (line 151). A refused remount and an `update-rc.d` that fails
may happen any number of times; they are not counted by `MaxFaults`. `scp`
truncates its target when it opens it, and cannot open a binary that is being
executed (ETXTBSY): then the run ends. Between `remount,rw` and its trap the
commands run in one shell on the speaker, which a broken connection does not
end; elsewhere `Abort` may come before any command. `CommandFails` is the mount
or a `cp` that fails in the window (and the trap), `CopySpoiled` a copy that `scp` reports as
good and is not, `PowerCycle` and `Reboot` start the speaker again, which starts
the service from its rc.d links while somebody may already be deploying.
`FactoryReset` wipes `/mnt/nv`, and perhaps the root file system.

Abstracted here: durations (`start` polls for a minute, which is longer than the
30 s of `-mount-wait`, so it does not give up on a daemon that still waits; what
the operator's clock does is left out); files that are only staged;
the guard on fields of the live configuration, which ends the run before the
window opens and changes nothing; files that `/mnt/nv` loses in a power cut
after `scp` has returned.

### ProvisionWifi and the code

One `post_profile`: `curl` gets 2xx, another status, or fails. When it fails the
request may have been lost, or only its answer; a speaker that has accepted has
left its setup network, so the retry fails too. The comment at
`provision-wifi.sh:119` ("Never reached the endpoint") is then not true; what
`post_profile` itself promises of its return codes (lines 55-62) is.

## 3. Runs

| Run | Question | Bounds | Result |
|---|---|---|---|
| `service` | Is each answer, through slot, ETags and locks, one of `PresetService`, and each 304 exact? | 2 handlers, 2 accounts, 2 configurations with buttons swapped, restarts, lost answers; 372k states | holds |
| `polling` | Do slot, ETag, `last-full.xml` and locals stay coherent, is the identity complete and final, and do polls leave the slot alone? | 2 handlers, 1 account, 2 configurations with buttons swapped, 2 build times, a device that answers in part; 663k states | holds |
| `answers` | Is every request answered? | 2 handlers, one of 2 configurations cannot be rendered, failing builds, failing writes; 39k states, fair | holds |
| `parse` (`FileToButton`) | Is `ParseConfig` what its comment says? Do cut files keep buttons? Are fingerprints injective? Does each button of each file play its station, and does a blob of any encoding? | all files of at most 4 lines of 12 kinds, 3 buttons, all shapes of blobs; 22,621 files | holds |
| `keeps` | Is the store a `ConfigKeeper`? Does the cache back what is served unless a copy failed with a warning, does only the stick change it, is a stick served, and does it settle? | 3 files and all their cuts, a disk that fails and recovers, kills, power cuts; 3,524 states, fair | holds |
| `system` | Does a stick that stays end up on the buttons, and are the buttons never all lost? | 1 handler, 3 files, one of which cannot be encoded, kills, lost answers; 158k states, fair | holds |
| `deploy` | Does the daemon serve that `deploy.sh` reports, is what `provision-wifi.sh` reports true, and does an operator who keeps trying succeed? | 3 daemons at once, 2 builds, 4 faults (power cycles, resets, broken connections, bad copies, commands by hand), remounts that are refused; 949k states, fair | holds |
| `crash` | "the most recent good config survives the stick being removed" (`config.go:130-131`) | as `keeps`, kills only | **violated** |
| `push` | "or re-run `scripts/deploy.sh` to push it to the on-device cache" (`README.md:72-73`) | as `keeps`, no faults | **violated** |
| `pidfile` | "exec replaces /bin/sh so --make-pidfile records the daemon's PID" (`preset-server.init:33-34`) | 2 daemons | **violated** |
| `backup` | "It is idempotent: safe to re-run" (`deploy.sh:7-9`) | 2 daemons, 1 fault | **violated** |
| `links` | "installs boot persistence" (`deploy.sh:5-7`), "init installed + rc.d symlinks" (`deploy.sh:153`) | 2 daemons, no fault | **violated** |

Why these bounds are enough. Two handlers: the slot has one key and `fullMu`
one holder, so one handler inside and one that overtook or waits show every
race; the proofs below do not depend on the number. Two accounts and two
configurations: a wrong key needs one other value of each. One base URL, as no
program changes it after the start; the proofs are for any number. The buttons of the
configurations are swapped, or one is a prefix of the other, so that a document
built from the wrong one differs. Times: two, so that a rebuild yields another
document. In `parse`, four lines are one more than the three buttons, so the
off-by-one and the error after it are reached. In `system` one handler is
enough, as the races of several are those of `polling` and `service`, and the
files differ in the number of buttons they assign. In `deploy` three daemons are
one that serves, one that drains and one that a boot starts meanwhile; two
builds tell the new binary from the old one; four faults are enough for an
interruption, a repair that is interrupted again, and a reset or a boot beside
them. `MaxFaults` also says that faults end: `Recovers` is a promise to an
operator whose luck turns. `SYMMETRY` permutes handlers in the runs that check
no liveness. Only `parse` turns the deadlock check off: a file stops growing at
`MaxLines`.

The five disagreements:

* `crash`: the daemon is killed after the truncation of the cache; without the
  stick it does not start any more (`log.Fatalf`). With the stick it heals:
  `StickSettles`.
* `push`: with a stick in the speaker, `Load` prefers it and copies it over the
  cache that was pushed.
* `pidfile`: after `stop` the daemon still serves. `deploy.sh` is not harmed: it
  also ends the listener of port 8000 (`KillListener`), without which `Recovers`
  fails; that is the mutant of this property.
* `backup`: a power cut during the copy of the stock file leaves a part of it as
  `.orig`; the next run sees that a backup exists and overwrites the original.
  What does hold is `BackupIsNotRedirected`.
* `links`: the script leaves the window first and runs `update-rc.d` in a new
  `ssh` after that, when `/` is read-only; the failure goes to `/dev/null` and
  `|| true`. A fresh speaker is reported as deployed, serves, and does not start
  the service at its next boot, although its cloud URLs point at it. Links that
  were made by hand stay. What does hold of "Deploy complete" is
  `DeployedIsServed`, which therefore does not speak of links.

That the root file system is writable in its window only is not a property
either: `deploy.sh:132` says that it is always restored, but a remount that fails
is ignored, the run ends well, and `/` is writable until the next trap or boot
(`Trap`). What the invariant says is the other half, that every copy to `/` is
made while it is writable.

Each property of a passing run has a mutant of the code in the module it is
about, named for the mistake it is (for example `StoreKeepsETag`,
`FullBuildFailsLocked`, `ParseLineOffByOne`, `CompareCacheSkips`), under which
TLC finds it violated.

### Fairness

`PresetServer.Fairness`: a goroutine that can run is scheduled (WF of each
handler's steps; the identity fetch has a 5 s timeout, so it ends). Waiting for
`fullMu` is strongly fair: after 1 ms of waiting, Go's `sync.Mutex` hands the
lock to the waiter. Requests, reloads, restarts need not happen.
`ConfigStore.FairSpec`: a process that runs takes its steps and its ticker
ticks. Nothing restarts a process that died, so the liveness properties assume
it eventually stays up; `StickSettles` also assumes that the disk does not fail
for ever, `StickIsServed` does not.
`PresetSystem.Fairness`: the same for both, and the speaker polls again and
again; `Adopt` is strongly fair, for an answer may be lost any number of times,
but not always.
`RecoveryFairness`: daemons and boots go on, a script that runs goes on to its
next command, and the operator starts `provision-wifi.sh` again while the
speaker is not in the WiFi, and `deploy.sh` again while it has not succeeded.

## 4. Proofs

For every value of the constants that satisfies the `ASSUME`s (any number of
handlers, accounts, configurations, files):

* `PresetServer_proofs`: `Invariance` (`Spec => []IInv`), `TypeCorrect`,
  `NotModifiedIsSound`, `RequiredFieldsArePresent`, `IdentityStays`,
  `RebuildsOnlyOnChange`, `LastFullStays`, and `Refinement`
  (`Spec => ImplementsService`).
* `ConfigFile_proofs`, for files and configurations of any length:
  `ParsedStations`, `CutsKeepButtons`, `ParsesAsCommented`,
  `FingerprintInjective`, and `FilesMeetAssumptions`, which says that
  presets.conf, `ParseConfig`, `Fingerprint` and `CutFiles` are files, a parser,
  a fingerprint and cuts as `ConfigStore`, `PresetServer` and `PresetSystem`
  assume them.
* `FileToButton_proofs`: each of the six properties of `parse` as a theorem,
  `AlwaysDocumented`, `AlwaysWellformed`, `ButtonsStay`, `FingerprintsDiffer`,
  `PressesPlay`, `EncodingsPlay`.
* `ConfigStore_proofs`: `Invariance`, `TypeCorrect`, `BackedUpBetweenLoads`,
  `StationsFromTheStick`, and `KeepsItsPromise` (`Spec => ImplementsKeeper`),
  whatever the disk does.
* `PresetSystem_proofs`: `Invariance`, `SpeakerKeepsButtons`
  (`Spec => NeverWiped`), and `LoadsAsConfigStore` and `ServesAsPresetServer`:
  the composition implements both parts, so the theorems about them, the
  refinement of `PresetService` included, hold of the composed daemon.
* `StationData_proofs`, for every station and every shape of its blob:
  `OwnBlobsPlay`, `EscapedBlobsPlay`, `AnyBlobPlays` (a blob of any encoding
  plays its station or is refused) and `PressPlays` (the whole press, with the
  catalog, the registry and the token).
* `Recovery_proofs`: `Invariance`, `DeployedServes`, `BackupStaysStock`,
  `SuccessIsTrue`, for any number of daemons, builds and faults, and whether or
  not `/` lets itself be remounted.

Assumptions: the ETag is injective on documents, the flags give every identity
field a default (`main.go:32-36`), no text contains a separator, what
`json.Marshal` makes of a text that is not empty is not empty, and the
placeholders (`Nil`, `Absent`, ...) are different from real values. That the
fingerprint is injective, that an empty file has no configuration, and that
whatever is parsed has between one and `MaxPresets` stations are assumptions
of the modules in which a file is opaque, and theorems of `ConfigFile_proofs`
(`FilesMeetAssumptions`).

The argument for `PresetServer`. Type correctness is not inductive: what
`FullHit` hands out is a document only because the slot holds one. `IInv` adds:
`fullMu` is held exactly by the handler in its critical section
(`LockDiscipline`); `items` and `etag` follow `cfg` and `baseURL`
(`ItemsCoherent`); the slot's fields describe one document built from a
configuration with that fingerprint (`CacheCoherent`); a handler that was sent
into the critical section still misses the slot when it builds, because nobody
else can have filled it (`LocalsCoherent`) - this gives `RebuildOnlyOnChange`;
an answer was built from the handler's own snapshot (`AnswersCoherent`) - this
gives the refinement, with injective fingerprints on a hit; and every ETag in
sight is that of its document (`CopiesCoherent`) - this gives
`NotModifiedSound`. In the refinement a request is decided when its
configuration is read; everything behind `fullMu` is a stutter; a 304 is the
same `Tell` as a 200. `LastFullStays` needs one more conjunct: the file follows
the slot unless a handler is between the build and the write.

The argument for `ConfigStore`. `IInv` says that the loop remembers the
fingerprint of what is served, that the bytes in hand parse, and that, unless
the last `Load` warned of a failed copy, between loads the cache holds a file
that parses to what is served; so loading from the cache changes nothing. The
refinement rests on the same invariant. When `Apply` follows a load from the
stick, the cache has been written from the bytes in hand or there was a
warning, which is what `Serve` asks; when it follows a load from the cache,
`Resume` wants what is served to be what is kept, or a warning, and that is
`BackedUp`. A process that dies leaves the cache, or a cut of the bytes in hand
if it was writing them; power that fails leaves the cache, or a cut of it if it
had not been written back: both are what `Damaged` names for that
configuration.

The argument for `ConfigFile`. It is about loops over files of any length. The
induction theorems of the library take an operator as a parameter and cannot be
used, but its theorem that a non-empty set has a minimal element (`WFMin`) takes
sets, which gives induction for a set of naturals (`SetInduction`): prove that
the n for which the claim holds are such a set. That a recursive function over
0..n exists, the other thing tlapm does not know, is a lemma about functions
(`Recursion`), used for the loops of `ParseConfig` (`ScanSteps`) and
`Fingerprint` (`WrittenSteps`). `CutsKeepButtons`: the scan of a file depends on
the lines read so far (`ScanLocal`) and later lines only append to it
(`ScanExtends`), so a cut differs from the file in the line that was cut, which
is the last and can give no more than the last button. `ParsesAsCommented`: the
scan has a station for the `Button(file, n)` lines before n that are not
ignored, or has failed, from the first line that does not fit.
`FingerprintInjective` takes the stations off from the end. What stands before
the last line feed is a separator if the last station has no image and the image
if it has one, and no text is a separator; so two equal fingerprints agree on how
much of them the last station wrote, hence on its texts and on the rest
(`LastStation`).

The argument for `FileToButton`. The invariant is that a file has lines only
(`FileInvariant`); everything else is an instance of the theorems about files,
and of those about presses, of which there is one for each station, as a station
that was parsed has a name and a stream, and so a blob that is something
(`StationsHaveBlobs`). `PressPlays` goes through the routes one by one: that a
known catalog is a 304 and a new one has the provider, that the registry names
the endpoint the location is relative to, and that the blob, whatever its bytes,
decodes to its station with the alphabet it was written in and with no other
(`OwnBlob`). `AnyBlobPlays` adds what happens to a `+` that was not escaped: it
is a space, and no alphabet has spaces (`SpacesAreRefused`).

The argument for `PresetSystem`. `NeverWiped` speaks of buttons only, and needs
the whole way: the server has the configuration the loop remembers, the bytes
in hand parse, snapshots are configurations, and the slot, the answers and the
buttons are each those of one configuration that was parsed and could be
encoded, hence not empty. With `served # Nil => cfg = served`, a step of the
loop is a `SetConfig` or a `Restart` of the server, which gives
`ServesAsPresetServer`.

The argument for `Recovery`. "Deploy complete" is about the daemon that serves,
but the script only ever asks `/healthz`. What makes it true is `Progress`: once
`scp` could open the binary nothing runs that is not the binary being pushed
(ETXTBSY), while it is copied the file is torn, so that a boot in between starts
nothing, and after the md5 every daemon, also one that a boot starts beside the
script, is the new one. The conjuncts name what each step of the script may rely
on.

Only model-checked: liveness under fairness (`EveryRequestAnswered`,
`StickSettles`, `StickIsServed`, `SpeakerConverges`, `Recovers`), which is out of
the prover's reach, and the five violations, each of which is one behaviour.
Every other property of a passing run is a theorem.

## 5. Not modelled

* `set_presets.sh`: it stores buttons through the speaker's own API, one by one,
  and the speaker's `storePreset` is not in this repository. One thing can be
  said from the code: the buttons it stores are not those of the `/full`
  document that the speaker holds an ETag of, and a poll with that ETag is
  answered 304 as long as the configuration does not change.
* Access logging: it has no effect but log lines.
* XML and JSON layout, the wording of errors, the prompts of the scripts, the
  escaping of SSID and password.
* Collisions of the 32-bit ETag (`ETagAssumption`), `SetBaseURL` followed by
  `/full` (no program calls it after the start), `-reload-interval=0`.
* The durations of the init script against `-mount-wait`.
* What `/mnt/nv` loses of a deployment in a power cut after `scp` returned.

What could come next: the composition of `PresetSystem` with files instead of
opaque configurations, so that one theorem says that a button the speaker holds
plays the station of a line of a file that was on a stick.
`FilesMeetAssumptions` and `PressPlays` are the two halves of it.
