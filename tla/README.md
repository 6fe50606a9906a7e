# A verification project for ikev2-panel

TLA+ models of the IKEv2 panel (a Go program that manages strongSwan users,
pools, profiles, certificates and a DDNS record), their TLC runs, and proofs
checked by TLAPS. Paths below are relative to the repository root (`src/` in the
map of `PROJECT.json`).

## 1. The system

The panel is one process in a container next to charon. HTTP handlers run
concurrently, one goroutine each; a handful of background goroutines run until
shutdown. State is spread over places that have no common transaction:

| place | kept by | lives as long as |
|---|---|---|
| SQLite tables (users, sessions, admins, audit) | `internal/store` | the data volume |
| `conf.d/<user>.conf`, one EAP secret per user | `internal/swanctl/writer.go` | the container run (tmpfs) |
| `swanctl.conf`: pools, local address | `scripts/entrypoint.sh`, `writer.go`, `ipv6watch.go` | rebuilt at each start |
| `limits/<user>` | `internal/limit/limiter.go` | the container's layer |
| charon: loaded secrets, pools, certificate, established SAs and their counters | `swanctl --load-all`, vici | the charon process |
| panel state files: subnet, DDNS, settings, certificate mode, access key, profile defaults | `internal/panelstate`, `internal/ddns/statefile.go` | the data volume |
| `ratelimit.json`, the initial password file | `internal/auth/ratelimit.go`, `main.go` | the data volume |
| certificates: CA, server, panel, `/data/le` | `internal/cert/generate.go`, acme.sh, `renew-cert.sh` | the data volume |
| install links, flash messages, login buckets, byte samples, caches of the files | memory of the panel | the process |
| DNS records at the provider | alidns API | outside |

### Components, their operations, and what makes them correct

| component | operations | hard part | correct means | model |
|---|---|---|---|---|
| user pipelines (`user_pipeline.go`, `handlers_users.go`) | create, reset password, enable, disable, delete | four systems changed one after the other, any of which can fail; rollback; no lock per user; a client that leaves cancels the rollback too | a reported success is true; a failed file operation leaves nothing; names unique | `UserPipeline` |
| swanctl manager (`loader.go`, `writer.go`, `terminate.go`) | write/remove + load under `reloadMu`, pools + load, terminate | several writers, one charon; a load killed at its deadline | charon holds the newest files whenever the mutex is free | `UserPipeline`, `SwanctlConf` |
| expiry checker (`expiry.go`) | scan; terminate and disable each row | the list ages while it works | only due rows are disabled, and all of them in the end | `UserPipeline` |
| EAP backfill (`main.go`) | rebuild conf.d from the table at start | runs after a stop anywhere | exactly the enabled rows are served | `UserPipeline` |
| subnet page, IPv6 watcher, pools of the entrypoint | save, clear; read, detect, write, reload; choose | cache, file, swanctl.conf and charon; a copy written back without the mutex | confirmed pools stay; page = subnet.conf, file = charon, and the saved pools are in all of them and in the next start | `SwanctlConf` |
| DDNS synchroniser (`internal/ddns`) | tick, toggle, family, config, create-record, load | two goroutines per tick, state file written outside the mutex, throttle across restarts, late answers | record follows the address; one round per window; the panel reports truly | `DdnsSync` |
| login rate limiter (`auth/ratelimit.go`) | check, fail, succeed, save, load | three mutexes, a persisted copy, requests past the check | guesses are bounded; a lock outlives a restart | `Login` |
| sessions, account (`handlers_auth.go`, `handlers_account.go`) | login, logout, expire, sweep, change password, first start | hash read before the session is made; the initial password file | a session is earned; the warning is true | `Login` |
| settings, certificate mode, access key (`panelstate`, `runtime`, their handlers) | save, clear, read, merge, apply | file and cache changed apart; what holds now and what after a restart | card = file = running panel | `PanelStores` |
| profiles (`mobileconfig*.go`), links (`installtoken`), messages (`flash.go`) | options, defaults, clear; issue, consume, age, sweep; leave, show | three layers validated apart; one-time use under concurrency | profiles follow the files; once, to the owner, or never | `Profiles`, `OneTime` |
| traffic collector (`limit/collector.go`) | sample, add increments | charon goes on between sample and increments; keys used again | no byte is invented, none lost without a cause | `Traffic` |
| certificates (`generate.go`, `renew-cert.sh`, `ikev2-reload.sh`, SIGHUP) | make, issue, renew, roll back, copy, reload | a pair replaced one file at a time, stops in between | the CA in the profiles stays; the served pair is the one on disk | `Certs` |
| SA listener, updown hook, address detection, pages, metrics, host scripts | | | | not modelled (section 5) |

Interactions. Handlers call the manager, the store and the limiter; the expiry
goroutine calls the store and the manager's Terminate (not `reloadMu`); the
collector reads charon and adds to the table the pipelines change; the
subnet handlers and the watcher share `swanctl.conf`, and every load of any of
them loads all files; the DDNS handlers and the tick share `Sync.mu` and the
state file; pages of one session take messages the handlers left; the renewal
scripts and the panel share the certificate files and a signal; the container
restart cuts all of them anywhere.

## 2. Modules

| module | role |
|---|---|
| `UserPipeline` | table, conf.d, limit files, charon's secrets and SAs; handlers, expiry, clients, restart |
| `UserPipelineProofs` | theorems about `UserPipeline` |
| `SwanctlConf` | swanctl.conf, subnet.conf, charon's copy; subnet handlers, watcher, other reloads, restart |
| `SwanctlConfProofs` | theorems about `SwanctlConf` |
| `DdnsSync` | configuration, throttle windows, state file, tick, records, handlers, restart |
| `DdnsSyncProofs` | theorems about `DdnsSync` |
| `Login` | limiter and its file, login, change of the password, sessions, first administrator |
| `LoginProofs` | theorems about `Login` |
| `PanelStores` | settings, certificate mode and access key: file, cache, environment, running values |
| `PanelStoresProofs` | theorems about `PanelStores` |
| `Profiles` | options in three layers, stores of the defaults, links, messages |
| `OneTime` | abstract: what works once; `Profiles` implements it twice |
| `ProfilesProofs` | both refinements, and theorems about the options |
| `Traffic` | charon's counters, samples, increments, totals |
| `TrafficProofs` | lemmas on sums over finite sets, theorems about `Traffic` |
| `Certs` | pairs on disk, installed, loaded and served; start, renewal, rollback, hook, SIGHUP |
| `CertsProofs` | theorems about `Certs` |
| `MC...` | symmetry sets and definitions for the configurations |

The modules share no variable: what one component needs of another is an input
chosen from a small set (the addresses `DdnsSync` detects, the rows `Traffic`
counts for). Where two components write the same place they are in one module:
pipelines and expiry, handlers and watcher, scripts and panel.

### UserPipeline

One record per handler (`req[r]`) with a program counter; each action is one
call into one of the systems, because between two calls another goroutine may
run. `WriteConf`/`RemoveConf` take `reloadMu` and run up to the moment swanctl
has read the directory (`read[r]`), `WriteLoad`/`RemoveLoad` are the end of
`--load-all` and of the critical section. A load that fails has applied any part
of what it read (`LoadPart`). Every `...Fails` action is the error path of the
call beside it and goes where the Go code goes: create undoes by deleting the
row, reset by writing the old password, disable by enabling, delete by
`RecoverUser`. `Disconnect` cancels the request's context; steps marked
`WorksCtx`/`FailsCtx` take that context, file operations do not.

A password is the number of its generation: `ResetRead` and `CreateInsert` draw
a new one, which is what the 32^12 random words amount to. A row keeps its
last value after its id left the table, since the expiry loop and the rollback of a delete still
work from it. Dates are "never", "later" and "past"; `Expire` moves a row on.

`solo`, `hit` and `pre` are history: whether a request met another one (or the
expiry loop) on its user, which failures it met, what conf.d and charon held
when it began. They guard no action. `UniqueNames` is an invariant of the module
that is proved and not run.

### SwanctlConf

The file is `[v4, v6, addr]`. A handler is at `cache` (subnet.conf written),
`unlink`, `lock` (waits for the mutex), `write`, `load`, `restore`. Save and clear
differ in the order of file and cache, as in `subnet.go`. The watcher runs only
if `IKEV2_IPV6_ONLY` is set (`watching`); it keeps its copy from `WatchRead` to
`WatchWrite`, neither of which takes `mu`. `OtherReload` stands for the loads of
the user pipelines. `Restart` is the entrypoint's choice of pools plus `main()`
loading the store.

`SavedIsInForce` compares five places: the page (`cache`), `subnet.conf`, the
file, charon, and the pools the next start takes (`BootPools(disk)`). For pools that
are saved all five agree. An empty v6 field and a clear put back the pools of
this start (`startup`), and only there nothing is claimed of the next start: after a
save, a restart and a clear the file still has the saved pools, which are this
start's, while the next start takes the environment's.

### DdnsSync

`fam[f]` is the tick's work for one family. Detection is finished for both
families before either goroutine runs; each goroutine stamps the window under
`mu`, writes the state file after it, then finds, adds or updates. `Save` is a
handler's change under `mu`, `SaveWrite` its file write after it. `verdict`
is `LastSync.Success` together with the `LAST_DDNS_FAILED` mark.

A press of sync-now is kept in `trigger`, the channel of length one: a second
press is dropped, the loop takes one between two ticks (`TickNow`) and runs the
tick that the timer runs, throttle included.

Abstractions. A tick of the timer may start at any time, as does the one at
start-up. The throttle is a set of families within their
window, and `WindowEnds` lets a window expire in memory, on disk and in records still
to be written, all at once: they carry the same or an older stamp. Domain,
host name and period are constant. Record ids are not modelled: a name's records
are the set of their values, and two make `FindRecord` refuse. A given-up update
may arrive later (`late`) or never. `stamped` and `clean` are history.

### Login

A request is at the step after the call it made last: `row` (name read), `verify`,
`session`, then for either outcome `count`/`reset` (the bucket, under its
mutex), `persist` (the copy, under the limiter's), `copy` (the snapshot of all
copies) and `write` (the file, under `saveMu`). The account page is `old`, `change`,
`clear`. Buckets are made when a client is first seen, from the file's copy.
Time is `Tick`: deadlines are the ticks left, so a tick ages memory, file and
snapshots alike. An entry the code deletes is `Zero`, which reads the same.

`guesses`, `inTurn`, `changed`, `strayed` and `during` are history. `inTurn` names
the case in which the code promises nothing: two records of outcomes that
overlap may write the older snapshot last, a failed or interrupted write keeps
the old file.

### PanelStores

A store is a file and a cache: `Rename` then `SetCache`, or `Forget` then
`Remove`, none of which excludes another handler; a read without a cache loads
the file. Settings go on to `ReadBack`, `StoreSnapshot` and `SetLogLevel`. `base`
is what the start merged; `EnablePlaintextHTTP` comes after the panel serves.
Of the fields, the cookie flag stands for those that are applied by the
snapshot, the log level for those that are variables of the process, the
certificate mode for those that wait for a start. `apart` and `early` are history: they
exclude overlapping handlers of one store and a handler caught between
choosing and storing its cookie flag.

### Profiles and OneTime

Options are records with four fields that differ in their rules: a name,
On-Demand, its rule, the network's name. Rules other than `home` and `manual` count as
`always`; the independent fields stand as the name. `Valid`, `ValidDefaults`,
`EffectiveMobileConfigOpts` and `OnDemandRules` are the functions of
`mobileconfig.go` on them. `tokens` and `flash` are the stores, `hand` the
requests that take more than one step; `links` and `notes` are history: every link and
message made, for whom, and whom it reached.

`OneTime` says what a thing that works once may do: be made for an owner, reach
that owner, lapse, and nothing after it is gone. `Links` and `Notes` are
`INSTANCE OneTime` with the stage of a link (in the store and not old, or in
the hands of the request that took it) and of a message (in a slot and not old).
Several things may move in one step, because a new message replaces another
and one page takes the messages of all its cards.

### Traffic

`Sas` are the keys `uniqueid/child` of the collector, and charon may use a key again. One
counter stands for bytes in and bytes out. Charon's part (`Carry`, `Rekey`,
`Rekeyed`, `RekeyChild`, `Close`) is external and moves at any time, also
between a sample and its increments (`pending`). `Restart` takes charon along,
since the panel is process 1 of its container; `RestartPanel` is the panel
alone, outside the image. `owed` counts what the tunnels carried and, after
`RestartPanel`, what is counted a second time (`Again`); `calm` is false once a byte had
no way to be counted. They are history.

### Certs

A certificate is its number, the key it is for and the CA that signed it. The
start goes through `look`, `cert`, `key` for each pair it makes or copies, written in
place, so a `Crash` may leave the file `Empty`. `renew` is `renew-cert.sh` with acme.sh
inside it, `hook` is `ikev2-reload.sh` with one action per rename. `DaysLeft` is
what `check_days_left` prints. `ReadCert` and `ReloadPanelTLSCert` are the two reads
of the SIGHUP handler; a signal is kept while one is handled. Cron hands no
`IKEV2_DOMAIN` to the hook (`HookRefuses`); a renewal by hand does. `enrolled`,
`synced`, `ended` and `prior` are history.

## 3. Runs

All runs fit in five minutes with two workers; the largest are `traffic` with 0.9
million states, `profiles` and `panel_stores` with some half a million.

| run | instance | shows |
|---|---|---|
| `users_files` | 2 users, 2 handlers, 1 failure of any kind, no expiry | `CharonTracksConfD`, `SoleSuccessKeepsItsPromise`, `SingleFileFaultRollsBack` |
| `users_access` | 1 name with 2 lives, expiry, clients, 2 failures, 1 restart | expiry disables only due rows; a restart serves exactly the enabled rows |
| `users_progress` | fair scheduling, 2 handlers, 1 failure | every request is answered; expired users end disabled |
| `swanctl_conf` | both modes, 2 handlers (1 while the watcher runs), 1 failure, 1 restart | charon tracks the file; confirmed pools stay; saved pools are in force and the next start's; the file's address settles |
| `ddns_sync` | A and AAAA, 1 handler, 1 change or press, 1 failure, 1 restart | the state file brings memory back; one round per window |
| `ddns_follows` | one family, 3 changes or presses, 2 failures, 1 restart, fair | record follows the address; the failure banner goes away |
| `login` | 2 clients, 2 requests, 4 arrivals, 1 tick, 1 fault or crash | guesses are bounded and locks outlive restarts; the warning is true; sessions are earned |
| `panel_stores` | 2 handlers, 3 requests, 1 failure, 1 restart, with and without plain HTTP | card, file and running panel agree; the cookie works; half a key keeps the other |
| `profiles` | 2 requests, 2 sessions, 1 link, 2 messages, 2 saves, 1 failure, 1 restart | profiles follow the files; own rules are whole; links and messages implement `OneTime` |
| `traffic` | 2 users, 2 keys, 3 SAs or rekeyings, 1 deletion, failure or restart | nothing is invented, and nothing lost without a cause |
| `certs` | 2 renewals, 1 crash, 1 failed command, 1 lost file | the enrolled CA stays; a renewal settles |
| `certs_renew_doc` | 1 renewal, nothing fails; expected to fail | a certificate that is good for a month is rolled back |

Bounds. Two handlers or requests are enough for every pairwise race, and no
property is about three (in `login`, `GuessesBounded` is stated for any number:
the excess is the number of requests past the check). Two lives of one name
(`MaxId = 2`) are what a reused name or id needs; two keys and three SAs what a
reused or rekeyed counter needs; two messages a replaced one. One failure
exercises each error path; a second one the failure of its rollback
(`users_access`, and in `users_files` a client that goes away, which fails every
later step of its request; that run with two failures has 2.1 million states
and finds no error either); in `SwanctlConf` a restore that fails counts
together with the load that failed before it. One restart separates before from
after; nothing counts restarts. `certs` with two crashes has 2.4 million
states and passes as well. `MaxNew` is as many keys as the renewals, losses and
first starts of the instance can ask for. Two pools and two addresses tell
"old" from "new". `Threshold = 2` and windows of one tick stand for five failures and
five minutes: a first failure, one that locks and one beyond. `MaxAttempts = 2`
stands for the code's 3; with two failures in `ddns_follows` the attempts do
run out. `MaxWatched` limits handlers in flight while the watcher runs: the
watcher is the second actor there.

Deadlock is checked in `users_access`, `users_progress`, `swanctl_conf`, `traffic`
and `certs`. The other systems rest when their requests are used up, the loop
is off, or everything bounded is spent.

Fairness. `UserPipeline`: goroutines are scheduled, every external call has a
deadline (`withTimeout`), `sync.Mutex` hands over to a waiter that has starved
for 1 ms, tickers fire. So each handler's `Step`, the expiry loop and the boot
are weakly fair. A handler that waits for `reloadMu` can be overtaken, yet the
runs bound how many others come, and the mutex itself guarantees it
otherwise. `SwanctlConf`: the watcher and handlers in flight. `DdnsSync`: the loop,
its goroutines, and the end of a window; not the handlers' pending writes or
the late updates, which may stay on their way for ever.
No fairness is assumed of admins, clients, crashes, addresses or failures.

### The renewal that never stays (`certs_renew_doc`)

`check_days_left` (`renew-cert.sh:35`) discards the errors of
`openssl x509 -checkend` and not its output, so it prints "Certificate will not
expire" before "ok". The comparison with "ok" never holds: a certificate that
is not due is renewed all the same (line 43), and a renewal that worked is rolled
back and marked failed (line 60), against the header of the script (lines 8-10).
The other properties of `Certs` are about what then happens.

### Where documents and code part: clear and sync-now

The header of `handlers_subnet.go` (lines 6 and 15-16) says that a clear removes
subnet.conf only and leaves swanctl.conf as it is, and docs/API.md:305 that the
environment's pools come back with a restart. `handleSubnetClear` calls
`UpdatePoolsAndReload` with the pools of the start (line 190), as the comment on the
function (lines 157-164) says. The model and `SavedIsInForce`
follow the code: after a clear the file has the pools of the start.

docs/API.md:275 says that sync-now passes the throttle by. The loop runs an
ordinary tick for it (`sync.go:720-726`), and a family within its window is
skipped; the comments at `sync.go:722` and `handlers_ddns.go:341` and
docs/TROUBLESHOOTING.md:1493 say so too. The model and `OneRoundPerWindow`
follow the code: a press within the window tries no family.

### Met while modelling

Part of the modelled behaviour, or excluded by name in a property.

Users and charon
- Two requests on one user may order the UPDATE and the conf.d write
  differently (`user_pipeline.go:127`; the header says that the three systems stay consistent).
- Disabling leaves the conf.d file (`user_pipeline.go:146`; docs/API.md:184 says it goes).
- A create whose reload fails deletes the row and leaves the file
  (`user_pipeline.go:80`; the comment at `handlers_users.go:159` promises otherwise);
  a delete whose reload fails recovers the row although the file is gone.
- The rollback of disable enables a user that was disabled before
  (`user_pipeline.go:160`); enabling a user whose file a restart did not rebuild
  changes the table only; an error while listing SAs is read as the end of the
  list (`terminate.go:106`).
- The watcher writes back a copy of swanctl.conf without the mutex and may undo
  a subnet save (`ipv6watch.go:131`); it compares with the file and not with
  charon, so a failed reload is not retried (`ipv6watch.go:118`).
- A subnet.conf without a v6 pool leaves the word `auto` as the pool
  (`entrypoint.sh:551-555`). A failed save leaves subnet.conf saved.
- A clear goes back to the pools of this start, which after a save and a
  restart are the saved ones; the environment's come with the next start.

DDNS
- A throttled family's empty result counts as a success (`sync.go:884`).
- Both families switched off come back on at the next start (`sync.go:279`);
  `RestartKeepsState` names that exception. Overlapping writes of the state
  file may leave the older record in it, without a stamp or a switch
  (`sync.go:764`); both properties of `ddns_sync` leave that case out (`clean`). `create-record` adds without looking.
- The loop keeps a key store of its own, whose cache the pages never drop: a
  changed key waits for a restart (`main.go:544`, against the comment at `main.go:505`
  and the card's text at `handlers_aliyun.go:127`).

Login and account
- An older snapshot of `ratelimit.json` may be written last
  (`ratelimit.go:251`), and a failure recorded before a success may persist after it (`ratelimit.go:202`).
- The old password is checked against the hash the middleware read
  (`handlers_account.go:109`), so two changes at once both succeed.
- A stop between the first administrator and its password file
  (`main.go:160-186`) leaves no file, and no later start writes one, whatever
  `handlers_account.go:159-160` says. One between the change of a password and the
  removal of that file (line 134), or a removal that fails, leaves the file and the
  warning for good: `BannerTellsTheTruth` leaves both out (`strayed`). Logout ignores the error of the delete.

Settings and stores
- Half an access key is merged with the half read before another handler's
  write, and undoes it (`handlers_aliyun.go:91`, `104`); `OtherHalfStays`, like the
  other properties of the stores, is about handlers that do not overlap (`apart`).
- A page read between the two halves of a clear refills the cache with what is
  then removed (`settings.go:485-494`, `mobileconfig_default.go:370-379`).
- After a clear the log level falls to the value merged at the start, not the
  environment's (`main.go:650`).
- A save that chose its cookie flag before the plain listener came up stores it
  after (`main.go:756`, `914`).
- An access key from the environment alone is dropped by shadowed fields
  (`runtime.go:29-31`, `70`).

Profiles
- The defaults take the home rule without a network's name
  (`mobileconfig_default.go:169`); the profile then has a rule without one.
  `OwnRulesAreWhole` is therefore about the user's own rule.
- Defaults with On-Demand on over a user's manual rule give On-Demand with no rules.
- A read error of the defaults while rendering leaves the layer out
  (`handlers_config.go:29-34`); the options page shows the built-in values behind
  an empty field, not the defaults (`handlers_mobileconfig_options.go:56`).
- A token is spent by an install that fails later (`handlers_config.go:188`).
- Messages belong to a session's slot, not to a user's page: a new password
  can be dropped by another page that takes the slot (`handlers_users.go:327`,
  `handlers_home.go:206`).

Traffic
- A first sample counts the whole counter (`collector.go:155`), against the
  comment at line 61; that matters only when the panel restarts without charon.
- Bytes after the last sample of an SA, and those of a failed increment, are
  not counted.

Certificates and shutdown
- `renew-cert.sh:58` uses `/root/.acme.sh` while the entrypoint issues under
  `/data/acme-sh`; cron hands no domain to the hook, which then exits at once.
- `set -e` can end a rollback between its two copies, without the mark; a mixed
  pair in `/data/le` is backed up and restored by later runs, and the next
  start exits on it, again and again. `RenewalSettles` is about rollbacks that
  come to their end.
- The message about half a CA pair tells the operator to delete the rest; the
  server pair then stays signed by the old CA.
- The plain listener is one of the goroutines the shutdown waits for, and its
  own shutdown is deferred until after that wait, so the wait always runs into its
  deadline (`main.go:927`, `968`).
- The updown hook's `down` deletes the filters of priority 1, which are all
  users' filters (`scripts/ikev2-updown:130-144`; line 21 says only that user's class goes).

## 4. Proofs

Every invariant and every action property that a passing run checks is also
proved, for all values of the constants. The theorems have the name of the
property with `Holds`, or one of their own where the tables say so. None of the
properties is inductive: most speak of a moment when nobody is at work, and the
invariant has to say what is the case at each step in between. Each of these invariants
was checked by TLC before it was proved. Assumptions on
constants are named and stand in the module that declares them: bounds are
natural numbers, the values for "none" and "free" are no members of what they stand
beside, a choice is among the known ones.

`UserPipelineProofs` proves, for any set of users and handlers, any bounds, any
admin operations and any selection of faults (assumptions of `UserPipeline`:
at least one user, natural bounds, `Free` is not a handler, operations and
faults among the known ones):

| theorem | establishes |
|---|---|
| `TypeCorrect` | `Spec => []TypeOK` |
| `NamesAreUnique` | `Spec => []UniqueNames` |
| `CharonTracks` | `Spec => []CharonTracksConfD` |
| `ExpiryIsSafe` | `Spec => ExpiryDisablesOnlyDue` |
| `RestartForgets` | `Spec => RestartDropsOrphans` |
| `RestartServes` | `Spec => RestartServesEnabled` |
| `SoleSuccess` | `Spec => []SoleSuccessKeepsItsPromise` |
| `SingleFault` | `Spec => []SingleFileFaultRollsBack` |
| `Invariance` | the inductive invariant `Inv` all but the last two need |

None of these is inductive alone. `Inv` adds:

- rows: ids in the table are at most `seq`, so the next id is new; two live rows
  differ in name; and a delete in flight carries an id and a name that belong
  together, since its rollback inserts them;
- lock: a handler in a load step holds `mu` and has `read[r] = conf`. Without this a finishing load could bring back older files. With it, a
  good load ends with `charon = conf`;
- restart: while the panel is down, conf.d, charon and the handlers are empty,
  so what the boot writes is all there is;
- due list: every row on the expiry loop's list is past its date, in the table
  or not. That is stable because an id is never handed out twice and a
  recovered row keeps its date.

The induction has one step per action. Action properties follow from `Inv` and
the one action that can disturb them.

The two properties of a request that is alone on its user come from
`OutcomeInv`, which adds three parts to `Inv`. `Asked`: a handler's step, id,
name and remembered row belong together, so that what it does later is done to the user
it was asked about. `Apart`: while a handler counts as alone, nobody else in
flight, nor the expiry loop, works on its user; nobody can thus undo what
it has done. `Alone`: such a handler is in the `Stage` of its operation, that is,
at each program counter row, file, loaded secret, limit file and SAs are what its calls up to
there have made of them, on the way forward and on the way back.

`SwanctlConfProofs` proves every invariant the run checks, for any handlers,
pools, addresses and bounds, and any mixture of modes (assumptions of
`SwanctlConf`: the bounds are natural, `Free` is not a handler, `Unset` is
neither a pool nor the content of a subnet.conf):

| theorem | establishes |
|---|---|
| `TypesHold` | `Spec => []TypeOK` |
| `CharonTracksTheFile` | `Spec => []CharonTracksFile` |
| `FailedChangesAreRolledBack` | `Spec => []ConfirmedPoolsStay` |
| `SavedPoolsAreInForce` | `Spec => []SavedIsInForce` |

Again none is inductive alone, since each speaks of moments when the mutex is
free or nobody is at work. `TypeInv` adds that a handler between its two stores
holds pools; `LoadInv`, that the holder of the mutex is the one handler inside
`UpdatePoolsAndReload`, that without a line written and not yet loaded charon
holds the file, and that one who rolls back met a failed load. `PoolInv` says what
the holder's copy is worth without the watcher: before its write the file
itself, after it the confirmed pools, while the file has its target. `CleanInv`
says the same of page and start: how far a handler has come that is alone and met
no failure, at each of its steps. That charon holds the file then comes from
`LoadInv` and `CleanIsSynced`, that the last load was good unless a call failed; that the
next start takes the saved pools, from `BootPools` on what is in subnet.conf.

`ProfilesProofs` proves, for any users, tokens, messages, sessions and
requests (`None` is none of these, no entry of a store, and not `Unset`), the
two refinements and the properties of the options:

| theorem | establishes |
|---|---|
| `LinksImplementOneTime` | `Spec => LinksAreOneTime`, that is `Links!Spec` |
| `MessagesImplementOneTime` | `Spec => MessagesAreOneTime`, that is `Notes!Spec` |
| `LinksAreUnspent` | `Spec => []LinkInv` |
| `TypeOKHolds` | `Spec => []TypeOK` |
| `ProfilesFollowTheFilesHolds` | `Spec => []ProfilesFollowTheFiles` |
| `OwnRulesAreWholeHolds` | `Spec => []OwnRulesAreWhole` |
| `ProfileInvHolds` | the inductive invariant `ProfileInv` of the last three |

Initial states map to initial states, and every step to one move, or none, of
each thing. What makes a step of the code a step of `OneTime` is in `LinkInv`:
a token in the store, or in the hands of a request, belongs to a link that has
reached nobody, names its owner, and no two requests hold one token. `NoteInv` says
the same of slots: what is in one was left by its session and has not been seen, and
no message is in two. A third invariant, that a request over the
defaults knows its session, is what lets its message be one of `OneTime`'s.
Actions are grouped by what they do to a link: they keep what is served, let
it lapse, issue, take, end or restart; one lemma for each group.

Of the options, `OwnInv` says that what is stored says something and passed
`Validate`, and `CacheInv` where file and cache of the defaults may differ while no
two requests over them overlap: a renamed file waits for the cache, an emptied
cache for the file to go. A lemma on `EffectiveMobileConfigOpts`, that a field is the first
one set in the layers, does the rest.

`DdnsSyncProofs`, for any families, addresses, handlers and bounds:

| theorem | inductive invariant | why it is needed |
|---|---|---|
| `TypeOKHolds` | `TypeInv` | a family holds an address from its stamp on, and a record exactly while it writes one |
| `RestartKeepsStateHolds` | `FileInv` | the property is about moments without a writer; in between every writer must hold what memory has, and when the last one is done the file has it |
| `OneRoundPerWindowHolds` | `WindowInv` | memory knows the open windows, and a family on its way to the stamp is outside its own, whether timer or button started the tick |

`LoginProofs`, for any clients, requests, passwords, sessions, threshold and
window (finitely many requests, since guesses are bounded by their number; a
threshold of at least two and a lock no shorter than the window, as the code's
constants are):

| theorem | inductive invariant | why it is needed |
|---|---|---|
| `TypeOKHolds` | `TypeInv` | a request under way has a client, and nothing is under way unless the panel serves |
| `SessionsAreEarnedHolds` | `Earning` | what a login carries at each step was in force while it ran |
| `BannerTellsTheTruthHolds` | `BannerInv` | the file and the change tell of each other, but for a request between the two and a start that has not written the file yet |
| `FileKeepsLocksHolds` | `CopiesInv` | one request records at a time; bucket, copy and snapshot agree as far as it has come |
| `GuessesBoundedHolds` | `CountInv` | below the lock guesses are no more than the bucket's failures; under it, together with the requests that may still guess, no more than the bound |

The last one counts with cardinalities: what one request past the check may still add
is taken from a set that it leaves by its outcome.

`PanelStoresProofs`, for any handlers, forms, keys, certificates and bounds:

| theorem | inductive invariant | why it is needed |
|---|---|---|
| `TypeOKHolds` | `TypeInv` | a handler's new content is of its own store |
| `PageShowsTheFileHolds` | `StoreInv` | the cache is empty or the file, but between rename and cache; in a clear it is empty |
| `SettingsInForceHolds` | `ForceInv` | what is on its way from the file to the process is what the file has, and how far it has come |
| `PlainCookieWorksHolds` | `CookieInv` | nobody is about to set the flag beside plain HTTP |
| `OtherHalfStaysHolds` | `HalfInv` | what a request kept of the key is still in the file when it renames |

`TrafficProofs`, for any users, any finite set of keys and any bounds (no SA is
not an SA, no sample is not a number):

| theorem | establishes |
|---|---|
| `TypeOKHolds` | `Spec => []TypeOK` |
| `NoTrafficInventedHolds` | `Spec => []NoTrafficInvented` |
| `EveryByteIsCountedHolds` | `Spec => []EveryByteIsCounted` |
| `TrafficInvHolds` | the inductive invariant `TrafficInv` they come from |

The properties speak of sums, and a sum is a fold, defined by recursion. The
module therefore begins with an induction stated over sets, for which no
operator parameter is needed: a family of subsets of a finite set that
holds the empty set, and each set all of whose parts with one element less it
holds, holds them all (`Subsets`, from the library's fact that a well-founded relation has minimal
elements). From it follow that the fold exists, that any element can be
taken out first (`SumTake`), that sums add up (`SumPlus`), that the sum over
a part is one over the whole with zeros (`SumPart`), and that a change of one element is
the sum's change (`SumChange`). `Ahead` then is a sum over all keys, moved by a step of
charon by the part of one key, emptied by a sample or a restart, and
raised by a restart of the panel by `Again`. `TrafficInv` adds to the two properties
`NoticeInv`: a sampled key is still counted and its counter has not gone down
unless it is in `unnoticed`. Without it, a counter below its sample could be the same
SA's, and a byte that catches up with the sample would be lost unseen.

`CertsProofs`, for any bounds:

| theorem | inductive invariant | why it is needed |
|---|---|---|
| `TypeOKHolds` | types with `OutcomeInv` | a renewal starts from a whole pair, so the key that acme.sh may keep is one |
| `EnrolledCaStaysHolds` | `EnrolInv` | as long as the operator has not given it up, the server pair keeps half of its CA beside it, and a CA is made only where neither is |
| `RenewalSettlesHolds` | `OutcomeInv`, `AgreeInv` | what a renewal has backed up and put back; how far start and hook have brought the pair, and that the panel has noticed it or will |

All of them rest on `QuietInv` (renewals, hooks and signals are of a running panel with
Let's Encrypt) and `StartInv` (which pair a start is at, and what it has by
then); `CertsInvHolds` puts them together.

Only model-checked: liveness (`RequestsEnd`, `ExpiredAreDisabled`,
`FileAddressSettles`, `RecordFollowsAddress`, `BannerClears`), since fairness and
ENABLED are outside what the prover handles. `GoodRenewalsStay` is what the
script's header says, and the code refutes it.

## 5. Not modelled

- Traffic shaping hook: a shell script over the kernel's tc tables.
- SA lifecycle listener: writes audit lines, keeps no state that is read back;
  events between two sessions are missing from the log.
- Address detection: HTTP requests and parsing; its answers are inputs.
- Pages, metrics, logging: read state and render it.
- Deployment scripts: run by hand on the host.

In the modelled components: time as a number, formats of files and of HTTP
answers, CSRF tokens, password hashing, forwarded-for parsing, the unsynced
directory after a rename, retries inside the vici client, panics, damaged panel
state files and errors of reading them, the chain files beside a leaf, the
move of a child SA with its counter at an IKE rekeying.

## 6. Plan

1. An abstract store, changed atomically, implemented by `PanelStores` and by the
   defaults of `Profiles` for handlers that come one after the other; with
   `StoreInv` and `CacheInv` its proof is one step per action.
2. An abstract directory of users, implemented by `UserPipeline` for requests
   that meet nobody, on top of `OutcomeInv`.
3. An abstract account book, one total that grows by what a tunnel carried,
   implemented by `Traffic` while `calm` holds.
4. Shutdown, with the plain listener.
