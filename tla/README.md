# A TLA+ model of creator-server

`creator-server` hands out VPN configurations. A creator registers configs and
mints share links on a dashboard; recipients redeem a link for an envelope, and
their devices fetch the config itself at connection time. This directory models
the parts of the program that keep state, checks them with TLC on small
instances, and proves the main properties with TLAPS for all instances.

`PROJECT.json` lists every run, the source lines behind every definition
(`map`), the faults each property catches (`mutants`), the places in the code
where things can go wrong (`hazards`), and the disagreements between code and
documentation the runs found (`findings`).

## 1. The system

Two kinds of process share one state directory.

* **The server** (systemd, `Restart=on-failure`) serves `POST /v1/redeem`,
  `POST /v1/issue`, `GET /v1/attestation-challenge`, the public key and a health
  check. Every request runs in its own goroutine.
* **Dashboards** (`npv-creator`) edit the same files: they register, replace and
  remove configs, mint and burn links, install the service, write backups.

| Component | State | Operations | Hard because | Right if |
|---|---|---|---|---|
| Redemption (`redeem.go`, `state.go`) | token map and its mtime in memory under `State.mu`, `redemption-tokens.json` | poll, look up, mint, charge, persist | the poll loads the file without the lock; the file is rewritten whole; writes fail; the process dies | no link is redeemed more often than it allows, none loses redemptions, every request ends |
| Token file and dashboards (`menu.go`, `share_link.go`, `state.go`) | a token map of each dashboard | mint, burn | dashboards never poll; the only coordination is the mtime | burned links stay burned, counts only fall |
| Issuance (`server.go`, `attestation_challenge.go`) | replay cache, current challenge, both in memory | challenge, issue | duplicates, clock readings outside the lock, purge, restart empties both | a strictly attested request is granted once |
| Config registry (`state.go`, `configedit.go`) | registry and mtime in memory, `configs.json` | reload, look up, append, replace, remove | racing reloads, invalid files, edits during a start, two dashboards | an edit takes effect on the next connect, or at least is not lost |
| Rate limiter (`ratelimit.go`) | a bucket of timestamps per key | allow, sweep | clock readings outside the lock, unsorted buckets, limits that change | never more than the limit per window, `Retry-After` suffices |
| Attestation (`policy.go`, `aka.go`, `app_attest.go`, `server.go`) | none of its own: reads registry and challenge | admit a policy, demand a binding, verify, evaluate | two formats, arms, four modes; what one step checks another relies on, while registry and challenge change | strict grants only what is attested and bound; stricter never means more |
| File replacement, backup (`atomicfile.go`, `backup.go`) | temporary files, owner, mode | replace, walk | crash between steps, files that come and go | a file is replaced at once or not at all, the service keeps access |
| Setup and service control (`setup.go`, `service.go`, `lifecycle.go`, `menu.go`, `install.sh`) | unit file, what systemd has loaded and runs, `console.json` and its copy in each dashboard | install, adopt, repair, enable, start, stop | many steps that fail or die half way, dashboards with old settings, an installer beside them | unit, service and dashboard agree; a repair keeps the command; setup run again always helps |
| Creator key, audit salt (`state.go`) | two files, and a copy in each process | read or make at a start | several first starts at once, files that cannot be read | one key, and never another |
| In-flight cap, shutdown (`server.go`, `main.go`) | a semaphore, open connections | admit, release, drain | the limit, the deadline, listeners that fail, handlers that run meanwhile | slots come back, a graceful stop loses nothing |
| Envelope, certificate and CBOR decoding, audit, screens | none | — | pure functions, I/O, presentation | — |

How they interact: `/v1/redeem` polls the token file, asks the limiter, looks up
the configs in the registry and charges the token. `/v1/issue` reloads the
registry, goes through the replay cache, the registry, the challenge check, the
limiter and the policy. Both run behind the in-flight cap, and shutdown waits
for them. Dashboards meet the server in the files and their modification times,
and through systemd, which they ask to start, stop and restart it.

## 2. The modules

| Module | Models | Extended by |
|---|---|---|
| `Redeem` | redemption on the server | `RedeemConsole`, `Server`, `MCRedeem` |
| `RedeemConsole` | `Redeem` composed with dashboards | `RedeemProofs`, `MCRedeemConsole` |
| `ShareLinks` | what share links promise: one registry, no files and no copies | instantiated by `Redeem` and `RedeemConsole` |
| `Server` | `Redeem` behind the in-flight cap, and the end of the process | `ServerProofs`, `MCServer` |
| `Issue` | issuance, replay cache, challenge | `IssueProofs`, `MCIssue` |
| `ConfigRegistry` | server, dashboards and `configs.json` | `ConfigRegistryProofs`, `MCConfigRegistry` |
| `RateLimiter` | `Allow` and `Sweep` | `RateLimiterProofs`, `MCRateLimiter` |
| `Attestation` | policies, verifiers and their use by `/v1/issue` | `AttestationProofs`, `MCAttestation` |
| `StateFile` | `atomicWriteFile` and the backup, with power loss; implements `AtomicFile` | `StateFileProofs`, `MCStateFile` |
| `AtomicFile` | what callers of `atomicWriteFile` rely on | instantiated by `StateFile` |
| `Deployment` | setup, repair, systemd, and the first start | `DeploymentProofs`, `MCDeployment` |

An action is what one goroutine or process does between two points where others
can run: taking or releasing a lock, a file operation, a clock reading. Code
between them, early returns and error paths included, is one action. Definitions
whose comment begins with "Fault:" are mutants: no specification uses them.

**Redeem.** `pc[r]` says where request `r` is. `Arrive`, `StatTokens`,
`LoadTokens`, `InstallTokens` are `ReloadRedemptionTokensIfChanged`;
`ClearTokens` its deleted-file branch and `LoadFails` its error returns, after
which the handler goes on. `Screen`/`Refuse`/`Lookup`/`Mint`/`MintFails` are the
handler up to the charge. `Charge`, `RenameFile`, `RestatFile`, `PersistFails`
and `ChargeDenied` are `ConsumeRedemptionToken`, which holds the write lock
(`lock`) from the charge to the stat. `Crash` kills the process at any point and
loads the file again, `BootStat` caches the mtime. `clock` stamps files;
`0 \in Ticks` is a file system on which two writes can get the same stamp.
`overtaken`, `regressed`, `deleted` and `unsaved` are history: a loaded map that
the file has moved past, that such a map was installed, that the file was
deleted, and that a write failed, so that a charge is in memory only. `Sound`
says that none of the last three has happened.

**RedeemConsole.** A dashboard opens the state (`Open`), mints and burns in its
own map (`MintLink`, `BurnLink`) and rewrites the file (`ConsoleWrites`). It has
no poll. `synced` and `disturbed` are history and say when a dashboard wrote at
a moment it should not have.

**ShareLinks.** No files, mtimes, locks or copies of the map: a link has so many
redemptions left, and a request takes one at an instant (`Take`) and gets its
answer later (`Grant`), or is turned away for a reason that is true at that
instant (`TurnAway`). `Create` and `Burn` are the dashboards', `Die` is the end
of the process under its handlers, which costs answers and no redemptions.
`Redeem` maps `file.counts` to `left` and the phase of a request to its fate
(`FateAt`): a redemption is taken when the file is renamed, so after the decrement
in memory and before the answer. `RedeemConsole` maps the links that are in the
file or were burned to `ever`.

**Server.** `slot[r]` is the connection of request `r` as `limitInFlight` sees
it: `Admit` and `Busy` are the two arms of its `select`, `Release` the deferred
receive. `Handle` takes one step of the handler of `Redeem` in a slot. `life` is
the process: `Terminate` is the signal, `Drained` and `Deadline` the two ways
`Shutdown` returns, `ListenerFails` the exit from a listener's goroutine, and
`CloseState` takes `State.mu` once more before the process ends. `Crash` of
`Redeem` is off (`OneRunAssumption`): the module is about one life of the process.

**Issue.** A delivery carries a version, a replay key (device, config, nonce)
and a challenge: two deliveries with the same key and challenge are the same
signed request. `usedAt` and `validAt` are the clock readings a goroutine takes
before it gets the lock. The limiter and the policy have the last word in
`Decide`. `Restart` empties the cache and the challenge.

**ConfigRegistry.** A registration is the number of the edit that wrote it.
`Arrive` to `Install` are `ReloadConfigsIfChanged`, `Lookup` is `ConfigByID`.
`StartSave`, `WriteTemp`, `Rename` are a dashboard's read, change and rewrite.
`HandEdit` makes the file invalid and valid again. `world` is fixed at the start
and says what can happen besides single edits and single requests: edits or
requests that overlap, an invalid file, I/O errors, restarts. So a property can
be stated for the worlds in which it holds and refuted in one in which it does
not, and one run covers several worlds.

**RateLimiter.** An event is the call that appended it; its stamp is
`readAt`. `turn` numbers the appends, so the bucket order is known although a
bucket is a set. Time is in whole units; `Retry-After` is at least one.

**Attestation.** Operators do the work: `Admissible` is what `loadConfigsFile`
demands of a policy, `ArmFor` the arm of a platform, `AndroidVerdict` and
`AppleVerdict` the two verifiers, `Attested` and `Lifetime` the evaluation. A
certificate is a key and what its attestation extension says, a token a chain of
them that is linked and anchored or not, or garbled. The actions follow one
request through `handleIssue` (`NotFound`, `Resolve`, `Limited`, `Evaluate`)
while `Load`, `Unload` and `NewChallenge` replace the registry and the challenge
between its steps. One request at a time is enough: requests share nothing here
but the registry and the challenge, and those change at any time anyway. When a
challenge expires is in `Issue`; here it may be replaced at any moment. The
default package and signer of an arm are filled in (`"ours"`).

**StateFile.** One action per system call of `atomicWriteFile` that can fail or
be followed by a kill. `file` is what a reader finds, `survives` what a power
loss may leave: the new file and every older one since the last sync of the
directory, torn if its data was not synced. A version stands for the data of one
write and for its writer. `Header` and `Copy` are the two looks the backup takes
at the file: one for the length, one for the data. `quiet` is history: no write
has been under way since the backup began, only temporary files that killed
writers left may lie about.

**AtomicFile.** No temporary files, syncs or directories: a call replaces the
content at once or ends in an error having changed nothing, and a power loss
brings back a content the file has had, at the earliest the last settled one.
`StateFile` maps its `file` to `content`, `survives` to `fallback`, and the
writers' steps to how far a call is for its caller (`Seen`, `Outcome`).

**Deployment.** Dashboards, the installer, the server and systemd. A start, of
the server or of a dashboard, reads or makes the key, then the salt
(`ReadSecret`, `MakeSecret`, `SecretFails`). A dashboard then reads its settings
and compares them with the unit (`LoadSettings`, `Detect`: adoption). A setup is
`Setup` or `InstallerSetup`, then `Truncate` and `Fill` (`os.WriteFile` empties
the file first), `DaemonReload`, `EnableNow`, and `RecordSetup` in a dashboard;
a repair ends in `InstallerRestart` instead. `StepFails`, `StartFails`, `Kill`
and `Reboot` come between any two of these. `loaded` is the unit as systemd
knows it, `running` the line it started the server with. A command line is a
function from its flags to their values; `Line` renders one, `Recover` is
`parseExecStart`. Paths, the account and the other directives of a unit are the
same for all and left out. `calm`, `stale`, `overlapped` and `kept` are history:
whether anybody got in another's way or broke off half way, whether the running
server predates a setup, whether two first starts made one file at once, and the
unit that no setup has replaced yet.

## 3. The runs

Passing:

| Run | Properties | Shows |
|---|---|---|
| `redeem_books` | `TypeOK`, `Accounting`, `RedeemedAtOnce`, `CachedIsCurrent` | unless a write failed, the file was deleted or a stale map was installed, what is left and what was charged add up, and every step is one of `ShareLinks`: a redemption or a refusal happens at one instant; unless a write failed, a server at rest that would not reload has what the file has even then |
| `redeem_answered` | `ServerTypeOK`, `NothingLost`, `BooksClosed`, `LastRedemptionOnce`, `SlotsComeBack`, `StopEnds` | behind the cap and with a stop at any time, concurrent requests get the last redemption once; every request ends, whatever fails, and gives its slot back, so no error path keeps the lock; a graceful stop ends, has answered everybody and leaves exact books |
| `console` | `ConsoleTypeOK`, `CalmWritesAreSafe` | no copy of the map, in any process, is ever out of its bounds; a dashboard that writes only at calm moments does no harm |
| `issue` | `TypeOK`, `GrantedOnce`, `NonceWindow` | a strict request is granted once; a nonce is refused for its whole window |
| `config_registry` | `TypeOK`, `StaleIsVisible`, `NextEditIsSeen`, `NextConnect` | a stale registry is noticed by the next request, unless the load of that file failed; no race of restart and edit hides the next edit; edits take effect on the next connect if requests do not overlap |
| `limiter` | `TypeOK`, `WithinLimit`, `RetrySuffices` | no call is allowed beyond its limit, lowered limits included, and `Retry-After` suffices |
| `attestation` | `TypeOK`, `StrictGrantIsBacked`, `GradedModes`, `LeavesAddNothing`, `FlatPoliciesDecide` | strict grants only what is attested, bound and of a challenge made here; a stricter mode never grants more; a certificate issued below the attested one adds nothing; a policy without arms is always decided |
| `state_file` | `TypeOK`, `AlwaysWhole`, `OwnerKept`, `AckedSurvives`, `ArchiveIsWhole`, `QuietBackupCompletes`, `ReplacedAtOnce` | a file is whole at any time and after any power loss, keeps its owner, is not changed by a write that failed, and is archived whole; left-over temporary files stop no backup; every step is one of `AtomicFile`, so an error means that nothing was changed |
| `deployment` | `TypeOK`, `OneIdentity`, `IdentityKept`, `CommandKept`, `InStep`, `WayBack` | a key or salt is never replaced, and all processes share it; adoption and repair keep the command; unit, service, settings and dashboard agree if one party at a time is at work; whoever keeps running setup gets a running service, from whatever was left behind |

Violated, each with an entry under `findings`:

| Run | Property | Counterexample |
|---|---|---|
| `redeem_overdraw` | `NoOverdraw` | a slow reload takes another request's charge back: three redemptions of a link with two |
| `console_burn` | `BurnedLinkRefused` | the server rewrites the file from a map without the burn, and grants the burned link |
| `attestation_arms` | `LoadedPoliciesDecide` | an arm naming an unknown verifier is loaded and answers every request of its platform with 500 |

**Bounds.** TLC explores each instance completely.

* *Redeem, RedeemConsole.* Two requests race and a third comes after, which is
  what the counterexamples need and one more than a lost update needs. Links
  have one or two uses: with one, the last redemption is contested; with two, a
  charge can be taken back and spent again. In `redeem_books` the disk may fail,
  the process may die and the file may be deleted; one of its two links may
  expire. `Ticks` says how far the file clock
  moves at a write; 0 allows two writes with one stamp. `MaxClock` stops the
  dashboard after three or four writes. `MayDelete`, `MayCrash` and
  `DiskMayFail` say what the operator, the system and the disk may do. One
  dashboard suffices to race the server.
* *Server.* Three requests and a cap of two: one is turned away, or gets the slot
  that another gave back. One link of one use, a disk that may fail, a file that
  may be deleted.
* *Issue.* Lifetimes of 2 and 3 stand for 24h and 25h, and `MaxTime` = 4 lets
  both pass. `CONSTRAINT TwoDeliveriesOrNoChallenge` keeps two kinds of
  behaviour: two deliveries of one nonce with challenges, and three deliveries
  of two nonces without any. The first is a replay, the second a purge by one
  nonce of the other's entry.
* *ConfigRegistry.* `MaxEdits` = 3: two edits for a reload to fall behind and one
  to bring it back. `config_registry` runs in the three worlds of `AllWorlds`,
  each of which has a single editor.
* *RateLimiter.* Four calls exceed limits of two and one, `MaxTime` is two windows.
  `RetrySuffices` is stated for calls with the highest limit of their key
  (`Highest`), as a call under a lower limit waits for events it cannot count.
* *Attestation.* `MCEntries` has flat policies with every arm of `Arms`, policies
  with the arms the dashboard writes, with an unknown verifier, and ones the
  loader must refuse. `MCRequests` has an honest request of each platform and
  its departures in one respect or two. Lifetimes are 1 to 9, with defaults of 6
  and 3, so that the soft lifetime is below, at and above the config's.
* *StateFile.* Three writers, run by root, by the owner and by someone else, one
  of them with data of another length; the file is there at first or not. With
  three, a second rename comes between another's rename and its sync, and a third
  is killed meanwhile.
* *Deployment.* One dashboard, the installer and the server. `MaxTrouble` = 2
  bounds failures, deaths, stops, reboots and runs of the installer together:
  one may hit the setup that another has left unfinished. Of the two choices of
  options one has what only built-in TLS uses, the other what only a proxy uses;
  at first there is no unit or one written by hand. Two dashboards exceed what
  TLC can explore (tens of millions of states); the safety theorems of section 4
  hold for any number of them, and `InStep` excludes by `calm` what two of them
  do to each other.

**Fairness.** Two runs need it.

* `redeem_answered`: a connection that is open is admitted, turned away or timed
  out (`ReadHeaderTimeout`), a handler in a slot keeps running, a returning
  handler gives its slot back, and `main` goes on once `Shutdown` or the lock
  lets it. Nobody is obliged to connect, to stop the process, or to wait for the
  deadline. Locks need no strong fairness: a request waiting for `State.mu` is
  enabled again for good once the finitely many others are done.
* `deployment`: processes go on with what they have begun, systemd restarts what
  died (`Restart=on-failure`), and an operator whose server does not run opens a
  dashboard and sends the setup form again, however often it fails. The form
  needs strong fairness, as the dashboard may be killed under it. Nobody is
  obliged to close a dashboard, to stop the server or to run the installer.

**Disagreements that no run shows.** Met while modelling, outside what the
models tell apart or not worth a run of their own:

* Two dashboards, or a dashboard and a hand edit, overwrite each other's edits of
  `configs.json` (`configedit.go:283`); a dashboard that mints writes the counts
  back that it read when it was opened (`state.go:783`).
* An edit is promised to take effect "on their next connect" (`configedit.go:99`,
  `:122`). A reload that read the file before it can install its registry after
  another request's newer one (`state.go:658`), and a request that arrives after
  the edit gets the old entry. `NextConnect` shows that it needs overlapping
  requests, `StaleIsVisible` that the next request mends it.
* Setup on a running server changes the unit but does not restart it: `enable
  --now` starts what is not active (`service.go`, `EnableNow`). The screen says
  "Installed and started" and the server keeps its old options until it is
  restarted; `stale` is what `InStep` has to except.
* `install.sh` with a domain installs a unit and records nothing in
  `console.json`: a dashboard that has a deployment recorded keeps showing the
  old one (`Unrecorded`).
* A dashboard saves the deployment it has in memory when it mints
  (`menu.go:421`), and so writes back what another one has replaced.
* A hand-written unit with `-cert` and no `-domain` is taken for one behind a
  proxy (`parseExecStart`).
* A share link of a removed config answers 500 (`redeem.go:128`), while
  `configedit.go:122` promises "not found".
* A start loads a file before it takes its mtime (`state.go:266-275`), and a
  redemption takes the mtime after its write (`state.go:761`): an edit in
  between stays unknown until the next one.
* `backup.go:14` says that `.tmp` scratch files are skipped; `backup.go:42` looks
  for names that end in `.tmp`, and those of `atomicWriteFile` end in random
  digits.
* `policy.go:260` says 0 means no limit; `server.go:170` then applies its default.
* `armFor` ignores the case of a platform, the verifiers do not (`aka.go:52`,
  `app_attest.go:63`): a platform of `"android"` finds an arm and fails it.
* App Attest authenticator data that does not parse gives a verdict with
  `Verified` as the chain is and without hardware (`app_attest.go:168`). The arm
  the dashboard writes demands hardware; `AppleEvidence` asks for the data only
  of arms that do.

## 4. The proofs

| Module | Theorems |
|---|---|
| `RedeemProofs` | `Typing`, `LastRedemption`, `Books`, `ExhaustedForGood`, `CacheIsCurrent`, `Linearizable`; with dashboards `ConsoleTyping`, `CalmWrites`, `SharedRegistry` |
| `IssueProofs` | `IssueTyping`, `NonceOnce`, `StrictGrantOnce` |
| `ConfigRegistryProofs` | `ConfigTyping`, `EditsAreSeen`, `StaleVisible`, `NextConnectIsServed` |
| `RateLimiterProofs` | `LimiterTyping`, `LimitHolds`, `RetryIsEnough` |
| `AttestationProofs` | `Typing`, `StrictGrants`, `ModesAreGraded`, `FlatPolicies`, `LeavesAreIdle` |
| `StateFileProofs` | `Typing`, `Wholeness`, `Ownership`, `Failures`, `Durability`, `Backups`, `QuietBackups`, `Refinement` |
| `ServerProofs` | `CapHolds`, `GracefulStop`, `LastRedemptionServed`, `ExactBooks`, `ServedAtOnce` |
| `DeploymentProofs` | `Installed`, `OneKey`, `KeyStays`, `CommandSurvives`, `OneDeployment` |

They hold for any number of requests, tokens, configs, calls, keys, writers and
dashboards and any limits and lifetimes that satisfy the `ASSUME`s of the modules. The
arguments:

* *Redeem.* With one link of one use, once the charge is in memory no copy of
  the map that can still be installed counts it as unspent, unless no write has
  succeeded, in which case nothing is loaded at all. `Books` follows the sum of
  remaining and charged over every copy of the map: in memory, in the file, and
  in the hands of requests between load and install. `CacheIsCurrent` holds even
  where the books do not: while stamps grow, a new stamp is ahead of every one in
  memory, in the file or in flight, so equal stamps mean equal counts (`FInv`).
* *Redeem as ShareLinks.* `Linearizable` rests on `SeesFile`, which follows from
  the invariant of `Books`: who looks a link up, or charges it, with the lock
  free has the file's counts before it, and at the rename the map in memory is
  the file's with one redemption less. So a refusal speaks of the file, a rename
  takes one redemption from it, and everything else leaves it alone. The two
  looks at the token, before the mint and after it, may see different counts;
  only the one that turns the request away, or the rename, is its instant.
  `ServedAtOnce` carries this through every kind of stop: an exit under the
  handlers is `Die`, and nothing moves after it. `ExhaustedForGood` is a
  theorem about the answers once given, which no run checks.
* *RedeemConsole.* `ConsoleTyping` holds however dashboards write: limits bound
  every copy by themselves. `CalmWrites` needs `ConsoleInv`, which TLC checked on
  the bounds of `console` and on larger ones first. As long as nothing has been
  disturbed the map in memory is the file's but for the charge being written
  (`MemoryIsFile`), or a dashboard has just written and the server is behind the
  file in a way its next poll must notice (`MemoryIsBehind`: an older mtime, and
  nobody past the poll).
  `LoadedIsFile` says the same of what requests have loaded, `DesksAreCurrent` of
  the dashboards that have the file's map, `LinkBooks` bounds what was handed out,
  and `LateRefused` keeps requests that arrive after a burn away from the charge.
  None of these is inductive alone: a request that arrives while the server is
  behind must load (so `LateRefused` needs `MemoryIsBehind`), and it is behind only
  because stamps are ordered (`StampsInOrder`). `SharedRegistry` then gives
  `OneRegistry`, which no run checks: `SeesFile` again for the server's steps, and
  `DesksAreCurrent` for a minting, which adds one link there has never been, and
  a burn, which removes one that is there.
* *Issue.* A replay entry is stamped with a time not before its challenge's
  maker read the clock, and lives as long or longer (`TimesAssumption`). So if the
  entry is gone or expired for a goroutine, the challenge is dead for it too,
  however old the time it acts on. Across restarts the challenge is of no use.
* *ConfigRegistry.* With one editor at a time stamps grow with renames, so a
  cached mtime equal to the file's means the same content. Every copy in flight
  pairs content with an mtime not newer than it; installing one cannot claim to
  be newer than it is.
* *RateLimiter.* Who trims a bucket has read a time that has come, so an event
  still in the window was trimmed by nobody and its key not swept.
* *Attestation.* The invariant is `TypeOK`, what `Resolve` has seen to when a
  request goes on (`Passed`: on Android with a strict policy, a nonce, a proof
  and the device the request is signed with), and that an answer is the verdict
  on the entry that was read (`Decided`). `Passed` makes the optional checks of
  `BoundTo` real; the challenge need not be current any more, but was made here.
  `ModesAreGraded` follows from the bounds the loader puts on lifetimes.
  `LeavesAreIdle` needs that a chain has a last attesting certificate: the
  largest index, which exists because the order on the naturals is well founded,
  and moves up by one when a leaf is put below.
* *StateFile.* Everything a power loss may leave is `Sound`: whole, owned as the
  file was, by no writer that failed, at most as new as the last rename. A
  temporary file has all that by the time it is renamed (`Prepared`), and no
  writer fails after that. Without the order of sync and rename `Prepared` is
  not inductive, nor is it if an error could follow the rename. With these
  invariants the refinement is one lemma per system call: the rename is the
  abstract replacement, the sync of the directory its settling, a stutter if a
  later rename has come between, and all else changes nothing a caller sees.
* *Server.* Every active handler holds a slot and at most the cap are held; with
  the connections closed no handler is active, so none can be when the process
  ends the graceful way. `ExactBooks` adds the invariant behind `Books` of
  `RedeemProofs` and that, while the books are `Sound`, the file and the map in
  memory differ only by the charge being written.
* *Deployment.* `DInv` says that whoever is at the end of an installation has an
  options record and a line, and that an active service has a line to run.
  `OneKey` and `KeyStays` rest on `OneMaker`: without an overlap, who is making a
  file is alone in that and the file is not there; that a file which cannot be
  read ends the start is what makes it inductive. `CommandSurvives` needs
  `OnlyRepairs`: until a setup begins, all who install anything install what
  there was. `OneDeployment` needs the state of an installation at each of its
  steps (`AtRest`, `UnderRepair`, `UnderSetup`): which of unit, loaded unit,
  running line and settings are ahead of which. `RoundTrip` says that adoption
  reads back what setup wrote, from `ChoicesAssumption`: a form has a hostname,
  and a proxy an address.

Only model-checked: liveness (`SlotsComeBack`, `StopEnds`, `WayBack`), which is
beyond the prover, and the violations. Every other property of a run is a
theorem.

## 5. Not modelled, and the plan

Not modelled: the byte layout and encryption of envelopes, the decoding of
certificates and CBOR and the validation of certificate paths (their outcomes
are data of `Attestation`), the audit log, the forms, tables and status probes of
the screens (`lifecycle.go` reads what the models write), flags, ACME and TLS,
and what the installer does to accounts, downloads and sudoers. They keep no
state of their own; here they can only fail.

What could still be added:

1. Links to several configs across reloads of the registry: the bundle is put
   together one lookup at a time (`redeem.go:126`).
2. What two editors of `configs.json` can still rely on (`configedit.go:283`).
