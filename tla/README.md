# A specification of vault-cert-agent

vault-cert-agent is a one-shot program that a systemd timer starts every hour.
A run logs in to Vault, walks the certs of its config, decides from the files
on disk which are due, fetches and writes those, and tells their consumers to
reload. This directory holds TLA+ modules of that program, the TLC
configurations that check them, and proofs for TLAPS.

    tlc -workers 2 -config MCRenewal.cfg MCRenewer.tla
    tlapm WriterProofs.tla

A configuration `MCX.cfg` belongs to the module of the same name, to `MCX.tla`,
or, where there is no such module, to the one PROJECT.json names (`runs`).

## The system

| Component | State | Operations |
|---|---|---|
| `internal/writer` | the files of a cert; one temp file per commit; `Result.Changed` | `Write`: per declared slot `commitFile`, which reads the file in place and then either `enforcePerms` (same content) or `atomicWrite` (temp file, fsync, chmod, chown, rename) |
| `internal/renewer` | none of its own: it reads the files | `Run` over the certs, `processCert`, `decide` (audit of the slots' shape, lifetime of the first block, names) |
| `cmd/vault-cert-agent`, the service and the timer | exit code; context cancelled by SIGTERM | load the config, log in, `Run`, exit 0, 1 or 2; the timer starts it, `TimeoutStartSec` ends it |
| `internal/reload` | a cached D-Bus connection | run a command, or queue a job per unit and await its result |
| `internal/source` | none; the Let's Encrypt plugin stores an issue per path | `Fetch`: PKI issues on every request, the plugin answers from its store |
| `internal/vault` | a token; two credential files | `NewClient` (read both files, log in), `Read`, `Write`; one retry, 30 s per call |
| `internal/config` | the config | load, defaults, validate |
| `packaging` | enabled and started timers, what dpkg knows | post-install, pre- and post-remove scripts |

How they interact: `main` builds the client, the writer and the reload manager
and hands them to the renewer, which calls them in turn, one cert after the
other, in one goroutine. What connects two runs is only the disk (what was
written), the plugin's store and the config. Concurrency comes from outside:
an operator's `-force` run beside the timer's, consumers reading the files at
any moment, other actors touching them, systemd working on jobs, signals,
kills and power losses.

What is hard about it, and what must hold:

- *writer*: readers never see partial content or foreign perms, whatever
  system call fails and wherever the process or the machine stops; the result
  tells truly whether a consumer must reload; no staged key is left behind.
- *renewer*: the leaf in use never expires while only a bounded number of runs
  fail; what was written is accepted by the next decision; a set of files that
  is not whole, or a consumer that was not reloaded, made a run fail loudly;
  one cert never takes another down.
- *main, systemd*: a run of the service ends, whatever a reload does.
- *reload*: every unit is told, a dead connection does not stay.
- *sources, client*: what they return is whole and lasts; a retry is harmless.
- *config*: what validation accepts is what the other parts assume.
- *packaging*: an upgrade keeps the timers that were on; a removal leaves none.

The list of hazards with their source lines is in PROJECT.json, `hazards`.

## Modules

| Module | What it is |
|---|---|
| `Layout` | pure data: material, slots, the bytes each slot gets, and how `renewer` reads them back |
| `AtomicFiles` | abstract: what the writer promises to readers of its files |
| `Writer` | `internal/writer`, one system call per action; implements `AtomicFiles` |
| `Renewer` | runs over time: timer, `Run`, `decide`, fetch, commit, reload, failures, signals, operators |
| `Notify` | abstract: what the reload manager promises to `processCert` |
| `Reloader` | `internal/reload` with systemd, the bus, commands and operators; implements `Notify` |
| `Issuing` | abstract: what a call to `Fetch` returns, and how many issues it costs |
| `Requests` | `internal/source` and the client's retry, with Vault behind a lossy network; implements `Issuing` |
| `Login` | `vault.NewClient`: credential files read while they are rotated, and the login |
| `Deadline` | a run against its two clocks, 30 s per request and 120 s per run |
| `Config` | `internal/config`: operators edit the file, every start loads it; what acceptance means to the others |
| `Package` | the maintainer scripts and timers under dpkg, operators and reboots |
| `MCWriter`, `MCRenewer`, `MCReloader`, `MCRequests`, `MCDeadline`, `MCConfig` | small instances for TLC |
| `RenewerProofs` | proofs about `Renewer`, and about the operators of `Layout` it rests on |
| `WriterProofs`, `ReloaderProofs`, `RequestsProofs`, `LoginProofs`, `DeadlineProofs`, `ConfigProofs`, `PackageProofs` | proofs about the modules they are named after |

Seams between the modules, where one takes for a step what another takes apart:

- `Writer`, `Renewer` and `Config` extend `Layout`. `Renewer` treats a commit as
  one step, which is what `Writer` shows it to be for anyone who looks at one
  path. It is a seam per file, and `Renewer` keeps the steps between the files of
  one cert apart.
- `Renewer` treats a reload as a call that succeeds, fails, hangs until the
  context is cancelled, or hangs on a pipe: `Reloader` shows that success means
  what `stale` takes it to mean (`NilMeansFresh`), and that a hang ends with the
  context unless a descendant holds the command's output (`CancelEnds`).
- `Renewer` treats a fetch as one whole issue or an error, with the source served
  or not: `Requests` shows that, for the retry and for late copies.
- `Renewer` and `Writer` assume a config's shape (`ConfigAssumption`,
  `WriterAssumption`): `ConfigProofs` proves it of every block that `Validate`
  accepts (`AcceptedShape`).
- `Renewer` counts lost runs (`MaxBad`): `Deadline` shows which certs a slow or
  stuck neighbour costs their run, and which it does not.

### Layout

A file's content is a sequence of PEM blocks; a block has its PEM type, its
role (leaf, key, chain) and the identity of the issue it came with. Chain
blocks have the identity of the issuer, which all issues share: two issues of
one issuer have byte-equal chains, and a `ca` file is unchanged by a renewal.
`CheckLeafOnly`, `CheckLeafPlusChain`, `CheckExists` and `LoadLeafOK` are the
audit's checks and `loadLeaf` on such contents; names are compared as
multisets, as `slicesEqualUnordered` does.

### Writer

State: `dir` (what each path leads to: kind, content, mode, owner, whether its
data was synced) and `durable` (the directory as the journal last committed
it); per process its program counter, its job, the slots left, its temp file,
whether the inode it enforces perms on is still at its path, and
`Result.Changed`. One action per system call: `Read`; `Create`, `Fill`, `Sync`,
`Chmod`, `Chown`, `Close`, `Rename`; `Open`, `FChmod`, `FChown`; an error path
for each (`ReadFails`, `StageFails`, `EnforceFails`), the failing `Remove` of a
cleanup included. The temp file is not in `dir`: its name is random, and no
reader is given it. An operator, a kill and a power loss (`Meddle`, `Kill`,
`PowerLoss`, `Flush`) may come between any two steps. An inode whose data was
not synced comes back with torn content.

`before` and `author` are ghosts: what the call started from, and which process
put the file where it is.

### Renewer

State: the deployed config and the files per cert, what is `left` of each
issue's lifetime, the `names` of its leaf, what the plugin has `stored`, ticks
`since` the timer last fired; and the state of the run (`pc`, `opt`, `cur`,
`got`, `todo`, `changed`, `failures`, `cancelled`), which is that of the local
variables of `run`, `Run`, `processCert` and `Write`.

| Code | Actions |
|---|---|
| `main.run` | `StartTimer`, `StartManual` (`-force`, `-dry-run`), `LoginFails` (exit 1), `Finish` (exit 0 or 2) |
| `processCert` | `Skip`, `DryRun`, `Renew` |
| `Fetch` | `Fetch`, `FetchFails` (also: the answer lost after the source served it) |
| `writeSplit`, `writeCombined` | `Commit` per slot, `CommitFails` (drops the rest of the slots, and `Changed` with them) |
| `Reload` | `NoReload`, `CallReload`, `ReloadOK`, `ReloadFails`; `pc = "hung"` when nobody will ever answer, `pc = "held"` when a descendant holds the command's output, until `PipeCloses` |
| SIGTERM | `Timeout` (systemd, when a reload takes a timer's run past `TimeoutStartSec`), `Interrupt` (at any other moment, or to an operator's run) |
| SIGKILL | `Abort` (systemd, after `TimeoutStopSec`, of a cancelled timer's run that is held), `Kill` (any other, and power losses) |
| between runs | `Tick`, `Reconfigure`, `Displace`, `Reperm` |

An operator's run takes no time of its own: it may start at any moment between
two timer runs, and is over before the next; if its reload hangs, it leaves the
model for good (`StepAside`, with the exit code nobody will see counted as a
failure): it waits at no file, and the timer's runs go on beside it. A hung reload of an earlier cert
and a hung or failing reliable cert are told apart by `MayLose`: a step that
costs reliable certs their run is taken only while they have runs to lose.

Ghosts: `bad` (timer runs since the cert was last processed), `checked` and
`kept` (processed, written whole, since its config or files were last meddled
with), `stale` (the consumer has not been reloaded since a file changed) and
`told` (some run has ended in failure since a file changed).

### Reloader and Notify

`Reloader` has the run's loop reduced to "this cert was written, call `Reload`",
and `reload.go` whole: the state is the connection `m.bus` (`conn`), the unit
`runSystemdJob` is at (`k`), what the job's channel holds (`result`), the command
(`proc`) and who holds its output pipe (`held`); on the other side running units
(`up`), the jobs queued for them (`job`), and which cert's present files each has
read (`read`).

| Code | Actions |
|---|---|
| `Reload` | `NoReload`, or one of the two below |
| `connect` | `Connect` (opened once, kept even when broken), `ConnectFails` |
| `runSystemdJob` | `Invoke`, `InvokeFails` (the job may be queued all the same), `Await`, `AwaitFails`, `AwaitCancelled` |
| `reloadExec` | `Exec`, `ExecFails`, `ExecKilled` (`CommandContext`), `ExecReturns` (`CombinedOutput` waits for the pipe to close) |
| systemd, operators (external) | `JobDone`, `JobSkipped`, `JobFails`, `Replace`, `OpStart`, `OpStop`, `BusBreaks`, `Exits`, `PipeCloses` |
| signals | `Cancel`, `Kill` |

`Notify` has units, the files they have read, and calls: success only when every
running unit of the cert has read them, no start of a unit nobody asks to start.

### Requests and Issuing

A call to `Fetch` is a request with a number of sends: `Redial` (`net/http` sends
a GET again when the pooled connection was dead), `ConnectionBreaks`,
`ServerError`, `Retry` (`MaxRetries = 1`), `Refused`, `Answered` (where `Parsed` is
the checks of `pki.go` and `letsencrypt.go`), `Expire` and `GiveUp` (the 30 s, or
the run's context). Requests travel on their own: `pending` may be served by
Vault at any later time, even after the call has returned; only what comes back
on the present connection is an `answer`. `ServePki` issues each time;
`ServeStored` and `ServeIssued` are the plugin's one issue per path. `Issuing` says
that a call returns one whole issue that fits what it asked for, or an error, and
that PKI issues at most twice for a call (`MaxSends`).

### Login

`readSecret` a system call at a time (`Open` with `O_NOFOLLOW`, `Stat` on the open
file, `Read`) for `role_id` and then `secret_id`, then `Login`. Configuration
management replaces, truncates and rewrites, chmods and removes the files
between any two of them, and Vault's side of a rotation comes when it comes.

### Deadline

Ticks of 10 s: `Tick` passes while the step the run is at may last (`Limit`);
`Terminate` is systemd's SIGTERM after `StartTimeout`. `Slow` certs do not get an
answer, `Stuck` ones a reload that ends. `NextRun` starts over with what is
still due. The second signal, SIGKILL after `TimeoutStopSec`, is `Renewer`'s `Abort`.

### Config

A field is a class of values: absent, malformed in the ways `validate.go` tells
apart, or fine. Operators edit a field, paste or remove a block (`EditField`,
`Paste`, ...), the agent loads (`Accept`, `Reject`). The properties compare
`Validates` with `Usable`, which is written from the other side: what
`resolvePerms`, `writeSplit`, `bundleParts`, the sources and `Reload` do with a
config (`Works`), and which block `loadLeaf` will find in front of the file they
lay down (`LeafRead`), in the terms of `Layout`.

### Package

A maintainer script is one step, with those of its systemctl calls that fail;
dpkg's part (`Unpack`, `version`, abort-remove, `RemoveUnprepared`, which runs no
prerm) is external. `will` is what an
operator last asked of a timer, `excused` the timers the last removal could not
have stopped.

## What the runs check

| Run | Instance | Distinct states |
|---|---|---|
| `writer_crash` | 1 process, cert and key, 2 issues, 2 faults | 386 000 |
| `writer_race` | 2 processes, cert and key, 2 issues, 2 configs that differ in perms, failing calls | 917 000 |
| `renewal` | 1 PKI cert with 2 configs, 3 issues, lifetime 10 ticks | 895 000 |
| `fleet` | 2 certs, 4 issues, lifetime 4 ticks | 161 000 |
| `liveness` | 1 Let's Encrypt bundle, 3 issues, lifetime 4 ticks | 13 000 |
| `reload` | 4 certs (command, none, 2 with units), 2 shared units | 217 000 |
| `requests` | 2 calls to either source, 2 requests on their way, 6 and 5 shapes of answers | 141 000 |
| `login` | 2 versions of the credentials, 3 changes to the files | 186 000 |
| `deadline_met` | 4 certs: 2 slow, 1 healthy, 1 stuck | 2 000 |
| `config` | up to 3 edits of a split PKI cert and a combined Let's Encrypt one | 256 000 |
| `package` | the main timer and 2 templated ones | 8 000 |
| `chain_first` | expected to fail, see below | |

Writer and renewer:

- **WriteApplied**: a call that returned without error, undisturbed, left every
  declared file with its material under its perms.
- **ChangedIsTruthful**, **EveryChangeReported**: `Changed` is true exactly when
  the call changed something; with two agents at work, whoever put a file in
  place reports it.
- **PermsSettle**: overlapping calls leave no file with a mode or an owner that no
  config asks for at its path.
- **TempAccounted**: a temp file outlives its call only by a kill, a power loss
  or a failed remove.
- **ImplementsAtomicFiles**: refinement of `AtomicFiles`; a path changes content
  only by receiving one whole version, with its mode and owner.
- **ServedLeafValid**: the leaf a reliable cert serves has not expired.
- **QuietIsSound**: between runs, files that are not one whole set, or a consumer
  that runs on older ones, have made a run end in failure. It does not say that
  the *next* run fails: that one finds the leaf fresh and exits with 0, which
  is what an operator who reads exit codes has to know.
- **ReloadSeesWholeSet**: no consumer is told to reload on a partial set.
- **SettledIsSkipped**: what a run writes, `decide` accepts.
- **NamesServed**: an operator's change of `alt_names` is served by the first run
  that processes the cert.
- **RunEnds**, **StaleIsReloaded**: liveness, below.

Reload manager:

- **NilMeansFresh**: when `Reload` returned nil, every running unit of the cert has
  read the cert's present files, whatever jobs of other certs and of operators
  came between, and whatever became of the connection.
- **ImplementsNotify**: refinement of `Notify`; in particular a `try-` method
  starts nothing that was stopped.
- **CancelEnds**: a cancelled run ends, unless a descendant of a command holds the
  command's output open. The exception is the code's: `CombinedOutput` waits
  for the pipe, and no `WaitDelay` is set. systemd's SIGKILL ends that.

Sources and client:

- **ImplementsIssuing**: refinement of `Issuing`: the answer to one request is
  never taken for that to another, and a retry costs one issue more at most.
- **OmittedIssuesOnce**: reads without `alt_names` cause one issue, ever.
- **FetchReturns**: a call returns, even if Vault never answers.
- **OnlyVettedIsSent**: what goes to Vault was read from files found to be private.
- **RotationHeals**: once files and Vault agree again, runs log in again.

Deadline, config, package:

- **HealthyServed**: a cert with nothing wrong, which the certs before it leave
  enough of the 120 s, is renewed by every run that logs in.
- **AcceptedIsUsable**, **RejectedForAReason**: `Validate` accepts only configs the
  other packages can work with, and turns down no other without a reason. What
  decides about a renewal is the first block of the leaf file; a bundle that starts
  with its key or its chain is accepted and has no leaf there, which is the one
  exception (`LeafBehind`) and what `chain_first` and `MCKeyFirst` show.
- **WillKept**: a timer stays as an operator left it through upgrades and boots.
- **NoOrphans**: after a removal no timer is left running, save one that could not
  be stopped or was started without being enabled (`preremove.sh` walks links), and
  save all of them when dpkg removes a package that it unpacked and did not
  configure, for which no prerm runs.

`TypeOK` of each module is one invariant that also ties the program counter to
the state its steps need.

### Bounds, and why they are enough

- *Writer.* In the race run each call has one of two configs, as when the perms
  were edited between the starts of two agents. Two slots are the least with a state between two commits, and with a
  slot under perms of its own. Two issues let a file be absent, up to date or
  stale. The calls of a process repeat without bound, so that earlier results
  are what later calls find. Two faults allow a kill followed by a power loss, or a
  failed remove after a foreign change. Without them two processes interleave freely; the
  race run has `MaxFaults = 0`, failing calls being no fault.
- *Time.* `Ttl`, `Interval`, `RunMax` and the threshold are chosen so that
  `Den * Lapse = Num * Ttl` exactly, where `Lapse = Interval * (MaxBad + 1) +
  RunMax`: one tick less and `ServedLeafValid` fails, which the run's mutant
  of the inclusive comparison shows. In reality `Lapse` is a few hours and a
  quarter of a lifetime many days.
- *Issues.* `Ids` is one more than the files, the plugin and a fetch can hold at
  a time, so that a source is never out of issues; those nobody holds are
  forgotten and used again. Runs and renewals are without bound.
- *Failures.* `MaxBad` bounds the timer runs in a row that may fail a reliable
  cert. That is the promise's hypothesis, not the code's behaviour: no code
  could keep a leaf valid with Vault gone for ever. Unreliable certs, and manual
  runs, fail without bound.
- *Reloads.* Two certs that share a unit are the least where one cert's job
  replaces another's; two units per cert the least where the first failure drops
  the rest. `u1` is stopped but never started by operators, so that a start of it
  is the agent's fault; `u2` they start and replace.
- *Requests.* The second call meets what the first has left on its way and in the
  store. `MaxPending = 2` lets a late copy race the present one. A third call
  would only repeat that. The answers are whole, or lack one thing each; the theorem
  is for any.
- *Login.* Three changes are a replacement of both files and the rotation of Vault's
  side, in any order, or a truncation, its rewrite and a chmod. The third inode
  lets a new file come to a path while the old is open.
- *Deadline.* `StartTimeout` is 12 ticks and `RequestTimeout` 3, the code's 120 s and
  30 s: the healthy cert has `Start[3] + Cost(3) = 11 < 12`, and one slow cert
  more takes its time away.
- *Config.* Three edits reach every pair of blocks with a field changed in one;
  most rules relate two fields of a block, `SplitFilesOK` more, which the
  proof covers for any number of edits.
- *Package.* Two templated timers allow one that is enabled beside one that is
  only started.
- *Symmetry.* Issues (`AnyNames`) and writing agents (`AnyAgents`) are
  interchangeable; symmetry is used in runs of safety properties only.
- *Configs.* `Configs` gives each cert those an operator may deploy:
  `renewal` turns a cert file into a fullchain file and back, which is the
  change the audit exists for; `fleet` changes `alt_names`.

`Reperm` in `renewal` and `fleet` leaves perms that some config uses, since
nothing tells them apart there. Deadlock is checked in every run but `requests`,
where the system stops after its last call.

### Fairness

`FairSpec` assumes: time passes and the timer fires (`OnCalendar=hourly`,
`Persistent=true`); the process is scheduled, so a run that can go on does;
systemd cancels a run of the service whose reload hangs (`TimeoutStartSec=120s`,
`Timeout`) and kills it when that does not end it (`TimeoutStopSec`, `Abort`), and
nothing of the kind for an operator's run; reloads that are called again and again are answered some time, and work some time (strong
fairness: both are interrupted by failures); and from some time on nobody
interrupts or kills the agent. No fairness is assumed of a hung reload itself, nor
of a descendant that holds a command's output: that `RunEnds` holds is due to the
select on the context in `runSystemdJob`, to `exec.CommandContext`, and where
those do not help to systemd. It makes an exception of an operator's run that
hangs (`LeftHanging`): `main` sets no deadline, so it ends when he interrupts it
or the descendant lets go. The fairness of `StepAside`, which takes such a run
out of the model, stands for no step of a program: it lets the timer's runs,
which do not wait for it, go on. Fetches need none beyond the scheduler's, for a
reliable cert loses at most `MaxBad` runs in a row.

`StaleIsReloaded` holds because a leaf ages and its next renewal changes the
files again; nothing retries the reload itself.

The other modules assume less:

- `Reloader`, `WF(Agent)`: the process is scheduled. Nothing is assumed of
  systemd, the bus or commands.
- `Requests`, `WF(Agent)` and `WF(Expire)`: the process is scheduled and its timer
  fires. Vault may never answer.
- `Login`, `WF(Start)`, `WF(NewClient \/ LoginFails)` and `SF(Login)`: the timer
  starts runs, they are scheduled, and of the logins that Vault would accept not
  every one fails to reach it.

## What is proved

| Theorem | For any | Hypotheses |
|---|---|---|
| `WriterProofs!Typing`, `TempAccountedHolds`, `EveryChangeReportedHolds`, `PermsSettleHolds`, `WriteAppliedHolds`, `ChangedIsTruthfulHolds` | processes, paths, configs, material, faults | none |
| `WriterProofs!ImplementsAtomicFilesHolds` | the same | none |
| `RenewerProofs!Typing`, `ReloadSeesWholeSetHolds` | certs, configs, timing | none |
| `RenewerProofs!QuietIsSoundHolds` | the same | `ReloadKept` |
| `RenewerProofs!ServedLeafHolds` | the same | `WindowOpen`, `LeafFirst` |
| `RenewerProofs!NamesServedHolds` | the same | `AltNamesStay`, `LeafInFront` |
| `RenewerProofs!SettledIsSkippedHolds` | the same | those two and `Recognised` |
| `ReloaderProofs!Typing`, `NilMeansFreshHolds`, `ImplementsNotifyHolds` | certs, units, methods | none |
| `RequestsProofs!Typing`, `ImplementsIssuingHolds`, `OmittedIssuesOnceHolds` | calls, names, answers | none |
| `LoginProofs!Typing`, `OnlyVettedIsSentHolds` | credentials, rotations | none |
| `ConfigProofs!Typing`, `AcceptedShape`, `AcceptedIsUsableHolds`, `RejectedForAReasonHolds` | names, files, edits | none |
| `DeadlineProofs!Typing`, `HealthyServedHolds` | certs, time-outs | none |
| `PackageProofs!Typing`, `WillKeptHolds`, `NoOrphansHolds` | templated timers | none |

With these, every invariant and every refinement that a passing run checks is a
theorem.

`WriterProofs`. `TypeInv` adds to `TypeOK` how far each call has got with its staged
file (`Partial`: filled before it is synced, synced before its mode is set, and so
on, so that what `Rename` puts in place is whole), that a call only works on slots
of its config, that an inode whose perms are being enforced is a regular one while
it is in place (`CallOK`), and `AllSynced`: no inode comes to a path before its data
was synced, which is why no power loss tears one. `ImplementsAtomicFilesHolds`
maps `Rename`, `FChmod` and `FChown` to `AtomicFiles`' steps on one path, the
operator's and the power loss's to theirs, and every other step to a stutter.
Three more invariants carry the rest:

- `AuthorKnows` (`EveryChangeReportedHolds`): whoever put a file where it is has
  `changed` set, in the middle of its call too.
- `Trust` (`WriteAppliedHolds`, `ChangedIsTruthfulHolds`): as long as nobody disturbs a
  call, it is alone, the slots it is done with are as they must be (`Laid`), the
  file it faces is still what `Read` found (`Facing`), and `changed` tells whether
  a slot dealt with differs from `before` while those left do not (`Truthful`).
  That the paths of a config's slots are distinct is what keeps `Laid`.
- `SettleInv` (`PermsSettleHolds`): a slot dealt with has a mode and an owner some
  config asks for at its path; no step of any writer takes that away (`AskedKept`),
  for what is renamed there was staged for that path.

`RenewerProofs!Typing`: `Spec => []TypeOK`. `TypeOK` is not inductive. The
invariant `TypeInv` adds that failures never outnumber the certs left behind
(`failures <= N` rests on it), that the slots left are declared by the config
being read, that `disk` is a function on the certs, and how many runs each
cert may have lost at each point of a run.

`RenewerProofs!ServedLeafHolds`: `WindowOpen /\ LeafFirst => (Spec =>
[]ServedLeafValid)`, for any number of certs, any configs, any number of issues
and any timing. Its two hypotheses are

- `WindowOpen`: a lifetime fraction at the threshold, and the life left in
  anything a source returns, are longer than `Lapse`;
- `LeafFirst`: nothing one of a cert's configs puts where another of them reads
  the leaf begins with a certificate that is not a leaf. It fails for the two
  bundle orders that begin with the chain, and for a cert whose `ca` file takes
  the name of its `cert` file.

The argument: `Provenance` (what is at a path was written there for some config
and some issue, so a first block that is a certificate is a leaf, by
`LeafFirst`, and every other leaf block is of the same issue, by
`ContentBlocks`) gives that a skip happens only on a leaf with more
than `Lapse` left. `GotLasts` says the same of what was fetched, and that it is
in the leaf file once its slot is committed. `CheckedLasts` is the bound that
travels through time:

    left[i] + since + Interval * bad[c] > Lapse

A tick moves one from `left` to `since`; the timer moves at most `Interval` from
`since` to `Interval * bad[c]`; processing the cert starts over with `bad = 0`.
As `bad <= MaxBad + 1`, and a run in progress has `since <= RunMax`, `left` is
positive. The negative check was made: with `Lapse` one interval shorter the
last step fails.

`RenewerProofs!ReloadSeesWholeSetHolds`: `InPlace` says that the slots a `Write`
call is done with hold its material until the cert is left; a commit disturbs no
other slot of the cert since their paths differ (`ConfigAssumption`).

`RenewerProofs!QuietIsSoundHolds`: `QuietIsSound` speaks of the time between runs
only. `Quiet` extends it to every moment: what is not whole, or stale, and not told of
is being written, or waits for its reload with `changed` set, or is already
counted in `failures`. The hypothesis `ReloadKept` is that no deployed config
drops the reload an earlier one had: after such a change there is nobody to tell,
and a consumer left stale before it stays so in silence.

`RenewerProofs!NamesServedHolds` and `SettledIsSkippedHolds` share `NamesInv`: what
the plugin stores is for names some config of the cert asked for (`StoredNames`),
what was fetched is for those the present config asks for (`GotNames`), and a
processed Let's Encrypt cert has, in front of its leaf file, the leaf of an issue
for those names (`NamedAt`); names of what is in use do not change (`NamesStand`).
Their hypotheses are on the configs an operator may deploy, and each has a
counterexample configuration without it (next section):

- `AltNamesStay`: a config without `alt_names` does not follow one that has some
  other name, as the plugin then goes on with the stored names (`MCNamesDropped`).
- `LeafInFront`: a Let's Encrypt bundle begins with the cert; `decide` compares the
  names of the first certificate.
- `Recognised`: a `fullchain` file is for a source that returns a chain
  (`MCLeafOnly`), a bundle begins with a certificate, and the list of fqdn and
  `alt_names` names nothing twice (`MCFqdnListed`).

The configs of `fleet`, which checks `NamesServed`, and of `renewal`, which checks
`SettledIsSkipped`, satisfy them.

`ReloaderProofs`: the invariant behind `NilMeansFresh` is that the units before
`k` have read the files of `cur`, or do not run (`Acked`), that so does the `k`-th
once its channel holds a success (`Answered`), and all of them once a command has
ended well (`CommandDone`). `CallsStartClean` is needed for the first two: `k` and
the channel are those of the present call. The refinement rests on `JobsAsked`: a
job that starts a stopped unit is only ever queued for one of `Startable`.

`RequestsProofs`: `Counted` bounds the sends of a call by its attempts, `Unserved`
and `Numbered` give each send one issue at most, `AnswerFits` says that what is on
the connection is for the present call. `OmittedIssuesOnceHolds` adds `Kept`: a
plugin that has issued has an issue stored, and a read without names reuses it.

`LoginProofs`: `Progress` says what `readSecret` has done when it is where it is:
the inode it has open was vetted once `Stat` is behind it, and a file that was read
has its origin in `vetted` and is not empty; `role_id` is through when the run is at
`secret_id`. A rotation may replace the file under the open descriptor, which
changes the path and not the inode.

`DeadlineProofs`: `OnTime` bounds the clock by `Start[cur]` and the time spent in
the present step, `CancelledLate` says that only the clock cancels, and `Passed`
that the healthy certs left behind in time are renewed.

`ConfigProofs`: `AcceptedShape` goes from `CertOK`, field by field, to the paths
`Deployed` derives, `AcceptedLeaf` on to the first block of the file `decide` looks
at, and `WorksAccepted` the other way, from what the consumers need and no idle
setting to `CertOK`. `Current` ties the outcome to the file as it is;
without it a rejection after an acceptance could keep the old config.
`PackageProofs`: an operator's will is kept by each script
because `Configure` enables on a first install only, before anybody had a will.

Assumptions on constants (`CertsAssumption`, `TimeAssumption`,
`ConfigAssumption`, `WriterAssumption`, ...) are evaluated by TLC on every instance;
those on configs are what `validate.go` guarantees (declared slots, distinct names, a
leaf slot, a known bundle order and source). The inductive invariants of `Writer`
and `Renewer` were checked by TLC on the instances of their runs before they were
proved.

Only model-checked: the properties under fairness, `RunEnds`, `StaleIsReloaded`,
`CancelEnds`, `FetchReturns` and `RotationHeals`. Liveness rests on `ENABLED`, which
the installed provers do not reach.

## Where documents and code disagree

One run is expected to fail: `chain_first`. `decide` takes the first block for
the leaf ("the first block is always the leaf in both layouts",
`renewer.go:198-201`), but two of the six bundle orders begin with the chain, and a
cert with one of them is renewed by the lifetime of its issuer; with the two
that begin with the key there is no leaf to decide by, and every run fetches.
PROJECT.json, `findings`, has it too.

Seven more configurations end in a counterexample, each to a sentence of the
repository. They are for `MCRenewer.tla`, the last two for `MCConfig.tla` and
`MCDeadline.tla`:

| Configuration | Violates | The sentence |
|---|---|---|
| `MCFqdnListed.cfg` | `SettledIsSkipped` | `renewer.go:359-362`, the "union of [fqdn, ...cert.AltNames]": the two are concatenated, and an fqdn listed in `alt_names` is renewed on every run |
| `MCLeafOnly.cfg` | `SettledIsSkipped` | `renewer.go:305-306`, two certificates are "the shape the writer emits for the fullchain slot": not for an answer without a chain |
| `MCDrift.cfg` | `PermsReenforced` | `README.md:254`, "Permissions are re-enforced on every run even when the content hasn't changed": not while the leaf is fresh |
| `MCNamesDropped.cfg` | `NamesServed` | `config.example.hcl:76`, "Changing alt_names triggers a re-issue.": not their removal |
| `MCSwapped.cfg` | `ShapesMatch` | `renewer.go:146-147`, every slot is on disk "with a shape that matches the slot's semantics": `key` and `ca` need only exist |
| `MCKeyFirst.cfg` | `AcceptedHasLeaf` | `validate.go:215-218`, without a leaf to compute the lifetime of "every run would refetch unconditionally [...] Forbid the corner case here": not for bundles that start with their key |
| `MCDeadlineMissed.cfg` | `OthersRan` | `README.md:293`, "partial failure - at least one cert failed; others ran": four sources that do not answer leave a healthy cert no time |

## Limits

- `AtomicFiles` is per file. Two agents writing the same split cert at the same
  time may leave the leaf of one beside the key of the other, both content.
- The audit checks `key` and `ca` files for existence, and the lifetime of the
  `cert` file only: a set left mixed by a failure stays until the next renewal.
- A forced run of a Let's Encrypt cert after a lost reload fetches the same
  material, changes nothing and reloads nothing.
- A leaf's `names` matter for Let's Encrypt only, as in `decide`.
- Wrong material from a source (a key that does not fit) is not modelled; nothing
  in the code looks at it. Clocks do not jump.
- Each cert of `Renewer` has paths of its own; `Validate` does not ask for that.
- 429 and 412, which the client library repeats as well, count as 5xx in
  `Requests`. The token's lifetime is not modelled: a run is shorter.
- A Let's Encrypt read with names that is served after its call has failed puts the
  plugin's store back to those names; the next read with names puts that right.
- In `Package` a script is not cut in its middle.
- An operator's run that hangs leaves `Renewer`. If its pipe closes later, it goes on
  with its remaining certs beside a run of the timer; two agents at a time are
  modelled by `Writer` only.
- `ConditionPathExists`, which skips a run silently, and the timer's random delay
  are not modelled; the delay is within `Interval`.

## Not modelled

HCL decoding, PEM and X.509 parsing, HTTP and TLS, D-Bus framing, user and group
lookups, logging, flags other than `-force` and `-dry-run`, and the sandboxing
of the unit: libraries, or pure conversions no property is about. Build files,
tests and example files are not part of the system.

## Plan

Done: every component of the table above has its module, its runs and its
theorems. What is left:

1. Two certs that share a path, and two agents on one config, composed with
   `Renewer`: `Validate` allows the first, nothing locks out the second.
2. The safety half of the liveness properties: what a hung reload waits for is
   there to be cancelled (`RunEnds`, `CancelEnds`), each try of a call has a bound
   (`FetchReturns`), as invariants that can be proved.
3. `Renewer` and `Writer` composed: that a `Commit` of the one is a `Write` slot of the
   other, as a refinement and not as a seam.
