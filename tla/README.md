# DevHerd in TLA+

DevHerd is a local development tool written in Go: one binary that registers
projects, runs them with Docker Compose, publishes them through a reverse proxy and
`/etc/hosts`, keeps a few shared services, and runs *Observe*, a small error
collector with its own SQLite database. This directory specifies the parts of it
that keep state, checks them with TLC on small instances and proves their main
safety properties with TLAPS for every instance.

Reading order. Observe: `AlertRules`, `ObserveStore`, `ObserveTx`,
`CollectorSessions`, `LogBackfill`, `ContainerWatch`, `ObserveAttach`. The rest:
`Detection`, `ProjectRegistry`, `ManagedBlocks`, `ExternalProxy`, `ServiceFiles`. Each
starts with the tables or processes it models; its actions have the names of the Go
functions; its properties come last. `PROJECT.json` maps every definition to source
lines. Definitions preceded by "Mutant:" are wrong on purpose: plausible bugs, each of
which breaks the property it is listed with.

## Inventory

| Component | State | Operations | Interacts with |
|---|---|---|---|
| Alert engine (`observe/store.go`, `cli/observe.go`) | tables `alerts`, `alert_deliveries` | alert add, alert remove, match, silence, deliver, forget | called inside the transactions of the two stores below |
| Issue and event store (`observe/store.go`, `event.go`) | tables `issues`, `events` | `StoreEvent`, `Cleanup`, queries | HTTP handlers write, CLI and metrics read, cleanup deletes |
| Availability record (`observe/heartbeat.go`, `server.go`) | table `collector_sessions`, one goroutine per collector | `StartCollectorSession`, `Heartbeat`, `CoverageGaps` | `observe status` and `/metrics` read it |
| Log capture (`observe/server.go`, `store.go`, `docker.go`) | `container_logs`, `events.logs_backfilled` | first pass in the handler, second pass in the poller | Docker, the poller, the event store |
| Container inventory (`observe/store.go`, `docker.go`) | `containers`, `container_events` | `ObservedContainers` then `StoreContainers` | poller, handlers and `observe scan`; fires alerts |
| Metrics (`observe/metrics.go`, `expose.go`) | none: read at every scrape | `Metrics`, the exposition text | reads all the tables |
| HTTP collector (`observe/server.go`) | listeners, handlers, poller, heartbeat | start, ingest, poll, shutdown | all of the above |
| Normalisation, correlation (`event.go`, `correlation.go`) | none | one payload to one event; event to container | Docker snapshots |
| Schema and migrations (`schema.sql`, `migrations.go`) | the database's columns | `Ensure` on every open | every process that opens the database |
| Observe networking (`observe/network.go`, `override.go`, `firewall.go`, `reachability.go`, `daemon.go`, `cli/observe.go`) | compose overrides, the systemd unit, ufw rules, bound addresses | attach, detach, start, daemon install and uninstall, firewall, status | Docker's networks, up and down of projects |
| Reporter, panel (`observe/reporter.go`, `panel.go`) | none | one POST; render | collector |
| Project detection (`detector/*`) | none | directories to projects | registry |
| Project registry (`database/*`, `cli/park.go`, `cli/domain.go`) | `projects`, `project_domains` | park, prune, set domain | all project commands |
| Shared services (`services/*`, `cli/service.go`) | configuration files and their copies, `.env`, containers, `infra_net` | start, stop | Docker Compose, the user, the proxy |
| Reverse proxy (`proxy/*`, `cli/proxy.go`) | Caddyfile with managed blocks, what Caddy serves, aliases of containers | apply, publish, withdraw, bootstrap, reload | registry, Compose, Caddy |
| Hosts (`dns/hosts.go`) | managed block of `/etc/hosts` | sync | sudo |
| Compose runtime (`compose/*`, `cli/up.go`, `down.go`, `stop.go`) | containers, the proxy override | up, stop, down | Docker |
| Scaffold, preflight, doctor | template files; none | write once; read and report | Docker |
| Coverage (`coverage/*`) | none | parse, merge, report | test runners |
| Config and paths, command line, templates | one config file | init, flags, printing | everything |

The hard behaviour is in Observe. An HTTP handler per event, a poller every ten
seconds, a heartbeat goroutine and any number of CLI processes work on one SQLite
file; several collectors may share it. They read the time when they enter and
commit later, talk to Docker between transactions, and can stop or die between any
two of them. Clients stamp events with their own clocks and offsets. Whether an event
arrives at all depends on plans made by different commands at different times over
networks that Docker creates and numbers.

The rest of DevHerd is commands over files, a registry and containers, each a
sequence of steps without a transaction around it. The difficulty is a step that
fails halfway, what another command or the user does in between, and what earlier
commands left behind. `PROJECT.json` lists the hazards by line.

What makes each component correct:

- *alert engine*: a rule with a cooldown never speaks twice within it, and never
  stays silent when it has something to say outside it; rows stay consistent.
- *issue store*: after any mixture of events and cleanups the tables refer to each
  other, no issue is left without evidence, counts cover what is stored.
- *availability record*: it neither claims nor hides time.
- *log capture*: no line twice per event, "done" means captured, a verdict is
  final, and every event gets one.
- *container inventory*: the timeline explains the inventory; exits are announced.
- *Observe networking*: what attach writes is an address somebody listens on and the
  project can reach, it survives a `down`, and an "ok" of status means so.
- *registry*: names, paths and domains are unique, custom domains survive a park, and
  a park leaves below its root what is on the disk, as far down as it looks.
- *proxy and hosts*: what was reported as applied stays served until the project
  itself changes or something else is published under its domain, and the user's own
  lines survive.
- *shared services*: what the user saved can be found again after a forced start, and
  a restart does not invalidate Jupyter's token.

## Modules

    AlertRules ------+--> ObserveStore --+--> ObserveMetrics
                     |                   +--> ObserveTx  (refines ObserveStore)
                     +--> ContainerWatch
    CollectorSessions       LogBackfill       ObserveAttach

    Detection --> ProjectRegistry --+
    ManagedBlocks ------------------+--> ExternalProxy
    ServiceFiles

    AlertRulesProofs --> ObserveStoreProofs      (ObserveStore and ContainerWatch)
    ObserveTx --> ObserveTxProofs                LogBackfill --> LogBackfillProofs
    CollectorSessions --> CollectorSessionsProofs
    ServiceFiles --> ServiceFilesProofs          ObserveAttach --> AttachProofs
    ExternalProxy --> RegistryProofs             (ProjectRegistry and ExternalProxy)

**AlertRules** holds the two alert tables and the operations on them. Both stores
extend it, as in the code both transactions call `matchingAlerts`,
`alertIsSilenced` and `insertAlertDelivery`. Tables are sets of records and
AUTOINCREMENT counters are variables that only grow. The deliveries that one
transaction inserts share its number as their id: the code compares delivery ids
only to find the last one of a rule. An operation picks a reading of the time up
to `MaxLag` behind the clock, so transactions commit out of the order of their
readings. Flags are in ticks, `TicksPerSecond` to the second, so that truncation
to seconds is visible.

**ObserveStore** has `StoreEvent` (uniqueness of event_id, whether the issue is
new, the upsert, the event, the alerts) and `Cleanup` with both cascades, one
action per transaction. A timestamp is an instant and the offset it was written
with, because the code compares it as text with a UTC bound in one place
(`InWindow`) and as an instant elsewhere (`Cleanup`).

**ObserveMetrics** adds the `events_total` counter computed from the issues.

**ObserveTx** is the same store statement by statement. A handler reads the time,
looks its issue up (the first statement, which takes the snapshot), and upserts,
inserts and delivers rule by rule on a private copy that `Commit` publishes. The
rules of SQLite are external: one writer at a time, and a transaction that has read
before it writes is refused at once if somebody writes or has committed since its
snapshot, whatever `busy_timeout` says. Cleanup writes first, so it waits instead.
Requests die at any statement. The module states no property of its own: it
implements `ObserveStore` under the mapping that takes the committed tables for the
abstract ones (`RefinesStore == Store!Spec`), so that everything checked and proved
of the atomic store holds of it. The abstract `MaxLag` is the time between reading
the clock and committing.

**CollectorSessions** runs any number of collectors through off, opening, beating
or unrecorded, and closing. The clock counts heartbeats and waits for a write that
is due, as its timeout is well below the interval; the write may fail, and
the process may crash in any phase. `heard` is a history variable: the
intervals in which a collector with a session was listening. `CoverageGaps`
and `Metrics` are operators over the table, as in the code.

**LogBackfill** splits ingestion into the reading of Docker's log (`Receive`), the
event (`StoreEvent`) and the first pass (`StoreFirstPass`), and a poller round into
the query with its expired events (`PendingLogBackfills`), and for each ready event
`Fetch`, `StoreSecondPass` and `MarkLogBackfill`. Every call can fail the way the
code handles it. A line is the instant it was printed at; `copy` in the rows of
`logs` tells two equal rows apart, so that a duplicate is visible in a set.
`LogsBetween` is what `docker logs --since --until --tail` answers: Docker takes the
tail of the whole log and then cuts the range out of it. `crowded` is a history
variable: the events that some round left for the next because its batch was full.

**ContainerWatch** has Docker as an environment that creates, stops, starts,
restarts and removes containers, snapshotters that read it (all of it, or one
project) and later store what they read, and cleanup. Its specification is
`WatchSpec`: with names of its own the module can be extended beside `ObserveStore`,
and both rest on one set of lemmas about the rules.

**ObserveAttach** has the networks of Docker with their gateways, projects whose
services are on some of them, the override that attach writes, what the running
containers carry since their last `up`, a collector in a terminal and one under
systemd, the unit, and the rules of ufw. A plan (`planObserveAddrs`) is computed by
each command from what Docker shows then: `PlanNetworks`, `Matches`
(`selectMatch`), `DSNs`, `ExtraBinds`. `Arrives` says when a request from a container
gets to a collector; it is external, and follows from what the code and
`docs/observe.md` say of gateways and ufw. `--addr` may be any address that is there
to be bound, a gateway too, as `cli/observe.go:1220` advises; the extra addresses of a
collector are bound one by one, and one that another collector holds is passed over.
Applying the firewall may stop after any
rule. Ports, `--dsn`, `--reporter`, a network that vanishes between inspection and
bind, and a reboot of the host (which would keep rules and unit) are left out.

**Detection** is `Discover`: which directories at or one level below a root are
projects, and of which framework, from the marks their files leave.

**ProjectRegistry** has the two tables and `park` as the code runs it: a reading of
the disk, one transaction per project in order of name, and a prune at the end that
uses what was read at the start. The disk changes and other terminals act between
any two of them; a park may fail or die. `Like`, what the pattern of the prune
matches, is a constant because `LIKE` may match more than the subtree. `calm` is a
history variable that says which parks ran undisturbed. An instance may start with
registered rows (`InitialRows`); they agree with each other and with the names of the
disk, as rows that parks have left do (`InitialRowsAgree`). The table `parks`, which
nothing reads, is left out.

**ManagedBlocks** has the file operations as functions on sequences of lines: what
lies outside marked blocks, the merge for the Caddyfile and for `/etc/hosts`. A whole
site is one line. What a strip keeps is a set of positions (`InBlock`) taken in their
order (`LinesAt`), which says what the scan of the code returns and can be reasoned
about; sites without marks are recognised by their header.

**ExternalProxy** composes the registry with containers, the Caddyfile, Caddy and
`/etc/hosts`. A project may have a manifest, which can name a domain. `proxy apply`
is: read the registry, connect each project, read and merge the Caddyfile, write it,
validate and reload (one step), read and merge `/etc/hosts`, copy it; `down` and the
publication of a shared service share its middle. `promised` is a history variable:
the domain last reported as "applied" for a project, until the project itself is
changed by an `up`, a `down`, `domain set`, a park or `bootstrap --force`, or a shared
service is published under that domain. Every step may be the last.

**ServiceFiles** has, of `service start`, the list of files with the token and the
address they will hold, and for each file the steps of `ensureFile`: `ReadFile`
decides, and then `CreateFile`, or `CopyFile` and `RestoreFile`, write what was
decided, whatever has become of the file since (`config.go:279-317` takes no lock and
does not look again). Then the network and `compose up`; `service stop`; and the user
who saves files, edits or deletes `.env` and removes the network. One write of a file
is one step. What Compose makes of the variables of its file is external. The token a
start generates is the number of its command, so two tokens differ. Two histories name
what such steps can do to each other: `edited` forgets what was saved while a start had
the file in hand, and `raced` holds from the moment two starts both saw no `.env` until
Jupyter starts again with nobody about to write it.

MC modules add only symmetry and named constant values.

## Runs

Deadlock is checked in `attach`; every other instance ends, as clocks and counters
stop at their bounds. States are distinct states.

| Run | Checks | Bounds, and why they are enough | States |
|---|---|---|---|
| `store` | `TypeOK`, `AlertIntegrity`, `CooldownSpacing`, `StoreIntegrity`, `LastSeenIsStored`, `CountCoversEvents`, `NewIssueIsAnnounced`, `ErrorRateIsAnnounced`, `IssueHistoryGrows` | 3 events over 2 fingerprints (an issue with two events beside another one), one rule of either kind, timestamps before, at and after the cutoff, lag 1, up to 3 issues so that one is reopened after cleanup | 0.8 M |
| `collectors` | `TypeOK`, `SessionsAreTrue`, `OutagesAreReported`, `GapsAreDeaf`, `GapsAreDisjoint`, `LiveIsRunning` | 2 collectors, 3 sessions (two neighbours and one nested or ahead of the window), one lost write, time beyond the window | 0.8 M |
| `backfill` | `TypeOK`, `NoDuplicateLines`, `DoneMeansCaptured`, `HealthyMeansFilled`, `VerdictIsFinal` | 2 events with clients behind, at and ahead of our clock and a batch of 1, so that one event crowds the other out; 2 lines with a limit of 1 per capture, so that a line after the window hides one inside it; one failure, one stop, rounds that outlast their tick | 4.3 M |
| `backfill_two` | `EventuallySettled` | 2 collectors over 2 events with batches of 1, so that one is ahead of the other; one failure, one stop | 0.3 M |
| `containers` | `CooldownSpacing`, `TimelineAgrees`, `ExitIsAnnounced` | 2 containers, 2 snapshotters, 2 changes by Docker, 4 stores, so that a stale snapshot follows a newer one and one snapshot can hold two exits | 1.7 M |
| `store_tx` | `RefinesStore` | 3 handlers and a cleanup, 2 event ids (one is repeated), one fingerprint, one rule of either kind: a reader, a writer and a committer at once | 0.8 M |
| `attach` | `AttachTypeOK`, `DSNOutlivesDown`, `AttachedIsHeard`, `OkMeansHeard` | the project measured in `docs/observe.md` with one service of each kind: one on the proxy's network, one on that of the services, both on a private one; one gateway more than networks, so that a network can come back under another address; one gateway and all addresses as `--addr`; both collectors; with and without ufw. Nothing is bounded | 1.2 M |
| `registry` | `RegistryTypeOK`, `RegistryIntegrity`, `ParkKeepsDomains`, `ParkMirrorsDisk` | 2 terminals; a root, two directories in it and one below with the name of another, two names with one default domain; 3 changes of the disk, 3 rows | 0.8 M |
| `proxy` | `ProxyTypeOK`, `PromiseKept`, `UserLinesSurvive` | 2 projects below one root, one with a domain of its manifest, and a shared service whose domain is that of the other; 4 commands that may stop at each step, one edit by the user, restarts of Caddy | 0.6 M |
| `services` | `ServiceTypeOK`, `EditRecoverable`, `JupyterTokenAgrees` | 2 terminals, 3 commands, 2 acts of the user, 3 services, 2 gateways: two starts with one file in hand while the user saves, and two forced starts after a save | 3.1 M |

What two rules do beside each other, and types, uniqueness and captured lines for two
collectors, are not runs: the theorems cover any number of both.

In `proxy` there is one terminal on purpose: the Caddyfile is rewritten without a
lock, and with two `proxy apply` at once the second takes the route of the first
away. `PromiseKept` is about what one terminal, the user and Caddy can do.

Two more runs end in a counterexample, each to a sentence of the documentation or of
a string of the program:

| Run | Sentence | What happens |
|---|---|---|
| `events_total` (`EventsTotalNeverDrops`) | `expose.go:36`, a counter since the database was created | cleanup deletes the issues it is summed from |
| `status_ok` (`StatusMeansHeard`) | `docs/observe.md:125`, status verifies from inside a container, in the project's network | attach before the first `up` takes the gateway of the first network; later status plans anew, by coverage, probes that other address and says ok, while the containers' own address leads to a network they are not on. `OkMeansHeard` says when the ok is right: attach saw the containers |

### Disagreements without a run

Found while modelling, and reproducible from the modules or by reading the lines:

- `heartbeat.go:164`, "Dos corridas solapadas [...] no dejan hueco": a gap is computed
  from the session that started last, so a short session nested in a longer one
  leaves a gap while the longer one listened. `GapsAreDeaf` excludes nesting.
- `cli/observe.go:825`, "Remove Observe data older than this many days": `last_seen`
  moves back with an event that arrives late (`store.go:244`), and the cascade then
  takes newer events.
- `cli/observe.go:682`, "Window for error-rate alerts": `store.go:992` compares
  timestamps as text, so events of clients west of UTC fall out of the window.
- `docs/observe.md:445`, second pass once the event is 30 s old: each round takes 25
  events (`store.go:632`), so of a burst of more than some 700 events, or behind 25
  events stamped far in the future, the rest expires, with no fault anywhere.
  `HealthyMeansFilled` exempts the events a full batch left out (`crowded`).
- `docs/observe.md:447`, a noisy container no longer exhausts the budget before what
  happened after the error: `docker.go:127` passes `--tail 200`, which Docker takes of
  the whole log before it cuts the window out. A container that prints 200 lines
  between the end of the window and the round leaves nothing to capture, and the event
  is marked done. `DoneMeansCaptured` therefore speaks of what is in the tail.
- A window below one second gets a default cooldown of zero (`cli/observe.go:641`);
  of two collectors the one that started last decides whether one is running
  (`heartbeat.go:119`); a stale snapshot lowers the restart counter of `/metrics`
  (`store.go:362`); a collector that returns within five minutes does fill the events
  whose window closed while it was off, which `docs/observe.md:458` denies.
- `docs/USAGE.md:257`: after `domain set`, `proxy apply` is enough. A container that is
  on the proxy network keeps its alias (`external.go:193` takes "already exists" for
  success), so the new route ends nowhere until the next `up`. `Applied` in
  `ExternalProxy` therefore asks that the alias fits.
- `docs/USAGE.md:1105`, the manifest's `proxy.domain` is the project's domain: it is
  published (`external.go:277`), but `/etc/hosts` gets the registry's domains only
  (`cli/proxy.go:175`), and "proxy status: applied" is printed for a name that does
  not resolve. `Applied` leaves such projects out.
- `proxy/shared.go:43-45`, publishing a service removes no project's route: not of two
  commands at once, and not if the project has the service's domain.
  `SharedServiceDomain` (`shared.go:31`) uses the TLD of the projects, and neither it nor
  `ensureDomainAvailable` (`database/projects.go:273`) compares the two: a directory
  called `grafana`, or `domain set`, leads there. The next `proxy apply` of the project
  takes the domain back from the service.
- `docs/USAGE.md:644` appends the Slack webhook to `.env`: if that creates the file,
  Jupyter's token is never written, because a generated file that exists is left
  alone (`services/config.go:295`). And as Compose resolves `${JUPYTER_TOKEN:?...}`
  (`shared-services.compose.yml:114`) for every command, no shared service starts on
  a fresh install before Jupyter has (`ComposeLoads`).
- `services/config.go:301`, the user's edit is in command: what is saved between the
  reading of a file and its writing (`:279-317`) is lost. A forced start overwrites it and
  copies what it read before; a start without `--force` that saw no file overwrites
  what another start created and the user then edited, with no copy at all; a webhook
  appended to `.env` in the gap goes the same way. Two first starts of Jupyter that both
  saw no `.env` may leave it with the token of the one and Jupyter running with that
  of the other (`:281`). `EditRecoverable` and `JupyterTokenAgrees` exempt these cases
  and no others.
- A second forced start replaces the copy of the user's file by DevHerd's
  (`services/config.go:310`); `EditRecoverable` stops at the second copy. A file of
  an older template is reported as "your edited" file.
- `docs/USAGE.md:215-219`, park removes detected projects that no longer exist, and
  projects with a domain of their own keep it: `park` looks two levels down and then
  prunes everything in the subtree that it did not find (`database/projects.go:97-118`).
  In the tree of the run, `park api`, `domain set` for `api/web` and `park dev` remove
  `api/web`, which is still on the disk, together with its domain; a root that owns its
  children takes them too. `ParkMirrorsDisk` protects the two levels that were scanned.
- The same paragraph: a project deleted from the disk leaves the registry. One that was
  moved within the root makes every park fail at its UNIQUE name, before the prune.
- `down` in a directory that is not registered withdraws the route of its derived
  domain, whoever owns it; `down` and `stop` also act on the legacy Compose name, the
  base name of the directory (`compose/project.go:160`).
- `cli/observe.go:1220` advises the same reachable `--addr` for collector and attach: a
  second collector that is started with the defaults cannot bind that gateway and says
  so in a log line only (`server.go:79-89`); when the first one ends, nobody hears that
  network. `AttachedIsHeard` exempts the addresses another collector had been given.
- Reinstalling the daemon with another address takes effect at its next start only
  (`daemon.go:100`). A second attach counts only containers labelled by the first, so
  with another `--service` it may choose a network that the new service is not on.
- `cli/observe.go:173` wants the total and the largest gaps; the first five are listed.

Bounds (`MaxTime`, `MaxAlerts`, `MaxIssues`, `MaxCount`, `MaxSessions`, `MaxLost`,
`MaxRound`, `MaxLines`, `MaxFaults`, `MaxStops`, `MaxChanges`, `MaxStores`,
`MaxProjects`, `MaxCommands`, `MaxEdits`) appear only as guards. `MaxLag` is a
modelling parameter: the delay between a reading and its commit. In `containers` it is
0, because cleanup goes by the time of an entry while the timeline goes by its id; the
engine's behaviour under lag is covered by `store` and by the proofs.

**Fairness.** Only `backfill_two` needs it. `FairSpec` has weak fairness of the
clock, of each handler (`net/http` runs it to its end) and of the poller of each
running collector (a goroutine in a loop over a ticker, every call of which has a
timeout). Nothing is fair that the code does not schedule: no client has to send,
and nothing restarts a collector, so `EventuallySettled` assumes that one
stays up.

## Proofs

Every safety property of the passing runs is stated by a theorem, for arbitrary
constants that satisfy the named assumptions of the modules: `AlertConstants`,
`StoreConstants`, `TxConstants`, `WatchConstants`, `CollectorConstants`,
`BackfillConstants`, `AttachConstants`, `DetectionConstants`, `RegistryConstants`,
`InitialRowsAgree`, `ProxyConstants`, `ServiceConstants`, `AbsentIsNoFile`. Six
theorems assume more, and say so in their statements:

| Theorem | Assumes | Because |
|---|---|---|
| `ErrorRateAnnounced` | `Zones = {0}` | the code compares timestamps as text: false with other offsets |
| `TimelineHolds` | `MaxLag = 0` | cleanup goes by time, the timeline by id |
| `VerdictsStand` | one collector | `MarkLogBackfill` overwrites the verdict of another one |
| `HealthyAreFilled` | `RoundsKeepUp` | rounds that take as long as `MaxAge` come too late |
| `PromisesLast` | one terminal | two that rewrite the Caddyfile lose an update |
| `TokenSurvives` | `"jupyter" \in Services` | the property is about that service |

**AlertRulesProofs, ObserveStoreProofs.** `CooldownSpacing` is not inductive: what
`alertIsSilenced` reads is the last delivery of the rule *by id*, and with readings
out of order nothing obvious relates it to the earlier ones. `EngineInv` adds
`SpacingByRule` (any two deliveries of a rule with a cooldown are apart in the order
of their ids), that every rule with deliveries has a last one (`LastDeliveryExists`:
it survives `Cleanup`, which deletes by time and not by id, because of the spacing),
the types and the integrity of rows. One lemma per engine operation preserves it
(`AddAlertEngine`, `RemoveAlertEngine`, `DeliverEngine`, `ForgetEngine`,
`TickEngine`), so that a component that composes the engine only cites them.
`StoreInv` ties issues to events; opening and touching an issue are separate lemmas,
and `LastSeenIsStored` is preserved by `Cleanup` because the issue and the event that
dates it are trimmed by the same comparison. Results: `StoreInvariant`, `TypeCorrect`,
`SpacingHolds`, `IntegrityHolds`, `AlertRowsAgree`, `NoHollowIssue`, `CountCovers`,
and `HistoryGrows` by what each transaction does to an issue that stays. The other
action properties follow from the invariant: `NewIssueAnnounced` and, for clients in
UTC (`Zones = {0}`), `ErrorRateAnnounced`. The second needs that the events counted in
the code's window include those of the property's window, hence the finiteness of
`events` and monotonicity of cardinality.

The same module proves the inventory of containers. `WatchInv` is `EngineInv`, by the
same lemmas, and `InventoryInv`: types, one row per container, and that entries of
the timeline are numbered by transactions already made. `TimelineAgrees` is not
inductive, as cleanup might delete the last entry of a container and leave an earlier
one to speak for it; `TimelineInv` adds `HistoryInOrder` (a later id has no earlier
time), which holds when times are read as the transaction commits. Results:
`WatchInvariant`, `WatchSpacing`, `TimelineHolds`, `ExitAnnounced`.

**ObserveTxProofs.** `TransactionsAreAtomic` is `Spec => RefinesStore`: every step of
the statements maps to a step of `ObserveStore` or leaves its tables alone. `TxInv`
says of each transaction in progress that its private copy is what the atomic action
computes from the *committed* tables, as far as it has got: the issue it found, the
upserted row, the rules already fired (`Upserting`, `Delivering`, `Cleaning`,
`Committing`). A reader that has not written may hold an old snapshot, and is then
refused when it writes; one that has written holds the lock, so nothing it has read
can have changed. Both halves are SQLite's rules and not the code's. `Commit` is then one
`StoreEvent` or one `Cleanup`, at the instant the clock was read; everything else
stutters. With the theorems of the store it follows that interleaved statements,
refusals and dying requests break none of them.

**CollectorSessionsProofs.** `SessionInv` adds to `SessionsAreTrue` that a live
collector's session has been heard without a break since it started: this is what
makes it true to move its `last_seen` to the clock. `SessionsTyped` and `RecordIsTrue`
follow.
`NoHiddenOutage` is proved outright from the definition of the gaps: of the
sessions in the window take the first that starts after the outage and the last
before it (least and greatest elements by well-founded induction); they are
neighbours, and the first cannot have been seen after the outage began, by
`SessionsAreTrue`. `GapsNeverOverlap` orders gaps by the sessions they end at.
The converse needs a second invariant, `RecordFollows`: the row of a live collector,
and what was heard, lag behind by no more than the writes lost so far and the one
that is due. With it `NoInventedOutage` and `LiveIsReported` follow by comparing
neighbours, which is why both need that no session is nested in another.

**LogBackfillProofs.** `DoneMeansCaptured` is about the last of four steps of a
poller that works on copies of rows, while handlers, other pollers and the container
go on. `RoundOK` says what a poller may rely on at each step: every row of its queue
still exists with its time and its window is over; from `Fetch` on it holds the
whole second half of its head, and from `StoreSecondPass` on the table does.
`EventsOK` says the same of rows marked done, and that a request has one row at most.
All of it rests on `SecondHalfShrinks`: lines printed once the window is over are
outside it, and can only push lines out of the tail (the line printed in the window's
last instant, which may come after the reading, is excluded by the property for that
reason). Each action is a lemma;
`RoundKeeps`, `InsertKeeps`, `MarkKeeps` and `AdvanceKeeps` carry what they share.
Results: `BackfillInvariant`, `BackfillTypes`, `NeverTwice`, `DoneIsCaptured`.
The proof admits several collectors working on one event: the insert is one
statement, so it needs no lock between them. With one collector a round holds only
pending rows (`QueueInv`), as nobody else marks them, and `VerdictsStand` follows.

`HealthyAreFilled` is about time, without fairness: clocks do not pass what is due.
Nothing is given up if `Fetch` is reached before a row expires. `Reached` counts the
ticks a poller still needs to get to a row: what is left of its round if that holds
the row, otherwise also the tick and the length of the next. `RequestsInTime` says
that a handler stores its event early enough for this. Each action has a lemma that
preserves it (`...InTime`). `RoundsKeepUp` asks that two rounds in a row fit between
the end of the window and the expiry, whatever the offset of the client's clock; the
instance of `backfill` meets it with nothing to spare. A row that a round does not
take is in `crowded`, so the argument is about rows that every round since their
window closed has taken. A second collector helps or does nothing: it delays no round
of the first.

**ServiceFilesProofs.** `ServiceInv` types every file, every container and what a job
carries. `EditRecoverable` is not inductive: a forced start writes what it decided
earlier and copies what it read then. `EditInv` says of every start what it may still do
to what the user saved (`SafeEdit`): until the first copy the file itself is what was
saved, no start is about to create it, and one about to copy it has read just that; a
save while some start has the file in hand puts it out of the invariant. For
`JupyterTokenAgrees`, `TokenInv` adds the shapes of `.env` and of the containers and,
unless `raced`, that at most one start is about to create `.env`, and none once Jupyter
runs with it (`FirstStarts`): there is no `.env` only before Jupyter first ran or after
the user removed it. Results: `EditIsRecoverable`, `TokenSurvives`, `ServicesTyped`.

**RegistryProofs.** `RegistryInv` has four parts. `TablesOK` is the integrity of the
two tables together with one fact that makes it inductive: every row has the name of
its directory, so that a row found by path can only clash with others by name or by
domain, which `UpsertProject` checks. `UpsertKeeps`, `RemoveKeeps` and `SetKeeps`
are the lemmas of the three operations on the tables, and say what becomes of the
domains. `ParksOK` types what a park carries. `CalmParks` says that a park nothing
has disturbed still keeps what `Discover` finds, and that each of those directories
is either still to be upserted or registered: at the prune nothing is left to do,
and by `DiscoverInReach` nothing else is in its reach. Results: `RegistryAgrees`,
`RegistryTyped`, `DomainsStay`, `ParkMirrors`, for any `Like` that holds at least the
subtree.

The proxy extends the registry and its proof cites that invariant. It needs to know
what a merge of files of any length keeps. The lemmas on `InOrder` say that the
positions of a set come out each once and in order. A file is `Closed` when every
mark that opens a block is followed by one site and the mark that closes it
(`HostsClosed` for `/etc/hosts`); DevHerd only ever writes such files, and then a
strip takes the blocks of the domains it is asked for and nothing of the user's. `ProxyInv`
carries this through every step of any number of terminals, for the files and for
what each is about to write: `ProxyStays`, `ProxyTyped`, `UserLinesStay`.

A promise is kept by five places at once, which is why `PromiseKept` is not
inductive. `PromiseInv` adds that the site of what was promised is in the Caddyfile
*and* in whatever content a command is about to write, that Caddy serves it or is
off (and then reads the file at its start), that the name is in `/etc/hosts` and that
the registry still has the domain, so that the names of the next `apply` hold it. A
`down` withdraws only what it has first unpromised. The result, `PromisesLast`, is for
one terminal: content read before another one wrote would not hold that one's site.

**AttachProofs.** The extra addresses of a collector are best effort, so a second
collector could keep the first from one of them. `HeardInv` says when it does: a
collector without `--addr` starts on the loopback, so that whoever runs beside it has
been given an address, listens nowhere else (`BindsGiven`), and can keep it from that
one address only (`HearsShared`); and the gateway of a shared network never changes,
while that of a project's network does (`Down`, `Up`). Result: `AttachedHears`.

`DSNOutlivesDown` and `OkMeansHeard` depend on which address `attach` chose.
`AttachInv` types the networks, files, containers, collectors and unit, and `Kept`
names where the address of an override came from: the network that the plan for the
services of the file chooses (`Chosen`, the first that covers the most). If attach saw
the containers, this is a shared network that one of the services is on, and no `down`
takes its gateway away. The containers carry its label since they came up, so status
matches this network again (`MatchIsChosen`), and what its probe hears they are heard by.
Results: `AttachTyped`, `AddressOutlivesDown`, `OkIsHeard`.

**Model-checked only.** `EventuallySettled` is a liveness property under fairness,
which is out of the reach of the installed provers. The two counterexamples are
TLC's. Four theorems stop where their properties become false, as the table above
says: text comparison of other zones, the verdict of two collectors on one event,
rounds too slow for `MaxAge`, and two terminals that rewrite one Caddyfile.

## Plan

Done: the modules, runs and proofs above. Left, in this order:

1. `Cleanup` inside `LogBackfill`: an event that is deleted while a poller holds it.
   `container_logs` has no foreign key, so the lines are stored all the same, and go
   by their own age (`store.go:889`).
2. Two terminals in the proofs of `ExternalProxy` with what remains true of them: no
   update of a command that ran alone is lost.
3. A model of `Ensure` with its column migrations, whose hazards are listed.
4. Of scaffold, preflight and doctor only the order of writes in scaffold has state.

## Not modelled

Normalisation and fingerprints of events, the preference between candidate
containers, the panel, the exposition format, the reporter, the parsers of coverage
reports and the templates of scaffold are conversions without state. Preflight and
doctor read and print. Column migrations (`observe/migrations.go`) run once per
upgrade from versions whose source is not here; their hazard is listed: a crash
between ALTER and UPDATE leaves the default for good, and of two processes that
both see the column missing one fails. The host driver of the proxy (`caddy.go`)
renders its whole file and reloads it, with nothing of the user's to keep.

Within the modelled parts: payload columns, size limits, listing order, and the
several listeners of one process are abstracted. `Cleanup` does not act in
`LogBackfill`, so its properties are about events that are still stored; it acts in
`ObserveStore`, `ObserveTx` and `ContainerWatch`. A transaction is one step in every
module but `ObserveTx`, which shows for the largest of them that it may be. Damaged
marks of managed blocks, containers of Compose projects outside DevHerd, and
observed networks of other projects are not in the states of their modules.
