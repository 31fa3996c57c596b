# Verification of StrataOS

StrataOS is a small capability-based runtime. A **supervisor** starts and
watches three services, **registry**, **identity** and **fs**, which talk to
each other and to clients in length-prefixed JSON over Unix sockets. Identity
issues signed capability tokens; fs verifies them locally, asks the **policy**
layer what they allow, and hands out file handles bound to them.

This directory holds TLA+ models of that code, TLC configurations that check
them on small instances, and TLAPS proofs of the properties that matter most for
every instance. `PROJECT.json` maps every definition to the lines it models and
lists runs, mutants, findings, hazards and theorems.

## Inventory

| Part | State | Operations | What makes it hard | What must hold |
|---|---|---|---|---|
| Service manager (`internal/supervisor`) | per service: state, `Cmd`, `done`, crash window; crash channel, restart timers | StartAll, StartService, StopService, StopAll, Run, handleCrash, start, monitor, stopLocked | locks released in the middle of start and stop, fields read without the lock, timers never cancelled, reports that carry only a name | no crash goes unreported, stopped stays stopped, no two processes of a service, no double close, stops return |
| Backoff and quarantine (`backoff.go`, `quarantine.go`, `handleCrash`) | crash count, crash times, timers | ComputeDelay, ShouldQuarantine, pruning | two clock readings, a count never reset, manual starts in between | quarantined exactly when the window is full, documented delays |
| Dependency sort (`topoSort`) | in-degrees, dependents, queue, order | one pass of Kahn's algorithm | map iteration order | the result is a dependency order, an error is right |
| Supervisor program (`cmd/supervisor`) | phase of main | start-up, control methods, shutdown, registration | shutdown races recovery | shutdown ends |
| Identity (`cmd/identity`, `internal/auth`) | key pair, public key file | issue, revoke, restart | a new key at every start, revocation sent once | a revocation takes effect |
| File service (`cmd/fs`) | key, handle table, revoked set | open, read, list, revoke, shutdown, restart | concurrent handlers, check then use, state lost at restart | reads only what was granted, opens under the prefix, handles not reused |
| Policy (`internal/policy`) | token buckets | Authorize, path prefix, rate limit | eviction, lazy refill, clock, fractional rates, paths written in many ways | the answers of an ideal limiter, free refusals, paths resolve under their prefix |
| Registry (`cmd/registry`, `internal/registry`) | entries | register, resolve, list | entries lost at restart, registration sent once | healthy services can be found |
| IPC (`internal/ipc`) | socket, connections | Start, Stop, handleConn, SendRequest, frames | no deadlines, frame limit, connections that break | every request ends |
| Client (`cmd/strata-ctl`) | none | resolve, send | registry down, empty, restarting | reaches a service that listens |

## Modules

| Module | Models |
|---|---|
| `ServiceState` | states and transition table of `state.go` |
| `Supervisor`, `MCSupervisor` | the manager and the main goroutine of the supervisor |
| `Lifecycle` | abstract: what the manager promises about processes |
| `CrashPolicy` | backoff, quarantine window and restart timers with a clock |
| `TopoSort` | `topoSort`, loop by loop |
| `Capabilities`, `MCCapabilities` | identity and fs together |
| `PathPolicy` | `enforcePathPrefix` and the path functions it uses |
| `RateLimit` | `enforceRateLimit` with a clock |
| `TokenBucket` | abstract: a limiter without eviction or lazy refill |
| `Policy`, `MCPolicy` | `Authorize` as a whole, with `PathPolicy`, and `RateLimit` as its last check |
| `Discovery`, `MCDiscovery` | registry, the supervisor's registrations, strata-ctl and the ipc package between them, over the processes of `Lifecycle` |
| `Manager_proofs`, `Recovery_proofs` | proofs about `Supervisor`, the second extending the first |
| `CrashPolicy_proofs`, `TopoSort_proofs`, `Capabilities_proofs`, `Discovery_proofs` | proofs about the others |
| `Policy_proofs` | proofs about `Policy` and `RateLimit` |
| `NatRecursion_proofs` | induction over the natural numbers, and what functions defined by recursion are |

Definitions named `Mut_...` are deliberate bugs. No specification uses them; they
show that each checked property can fail when the code is wrong.

### Supervisor

Each successful `cmd.Start()` makes one *incarnation* of a service: its process,
its `done` channel, its monitor goroutine and the `start()` call that polls for
its socket, all with the same number. `Cmd[s]` is the incarnation that `se.Cmd`
and `se.done` belong to at the moment. What the code does under `se.mu` is one
step; what it does after releasing the lock (the polling and the drain wait in
`start` and `stopLocked`, the monitor's reads of `se.Cmd` and `se.done`, `Kill`)
is a step of its own, so that others get in between. A second close of a channel
panics and ends the supervisor, as in Go.

Time is left out: ready timeouts, drain timeouts and restart timers may fire at
any moment after they are armed, and how many earlier crashes are still inside
the quarantine window is a free choice. This covers every timing, including those
the configured durations make unlikely.

`CheckDependencies` is one step. The code locks the dependencies one after the
other, which is the same for the services it declares: none has more than one.

`Init` chooses any dependency order for `m.order`; `TopoSort` shows that this is
what `topoSort` returns.

`Lifecycle` is what is left of this when goroutines, channels, timers and locks
are taken away: a process is spawned when its service has none and is not in
quarantine, the first time after the dependencies have been; it ends; a service
may be quarantined. `Supervisor` implements it without `svc.start` requests:
`spawned` is `Cmd`, a service is running when some incarnation of it is, and held
when its crash window is full. `Discovery` in turn runs its processes by
`Lifecycle`, so that the two processes of one service that a `svc.start` may leave
side by side do not occur there.

### CrashPolicy

One service with a clock. `start()` is one step here and its races are left to
`Supervisor`; in return the delays, the pruning of the crash times and the two
clock readings of `handleCrash` and `ShouldQuarantine` are exact. The clock may
move between the two, by at most `MaxPause`. Crashes are numbered, `CrashWindow` holds the numbers of
those whose times the code keeps, and the histories `at` and `judged` hold the
times of all of them, so that what was pruned can be compared with what should
count.

### TopoSort

The three loops of `topoSort` with every order in which Go may iterate its maps,
and every declaration as an input, cycles and unknown names included.
`DependsOn` is a set here; a name listed twice is counted up twice and down twice
by the code.

### Capabilities

Identity and fs with their restarts. Keys are numbered by the starts of identity;
a token is the number of the key that signed it, and `Verify` compares it with
the key fs has loaded. `os.WriteFile` is two steps, so fs can meet an empty
`identity.pub`. Every handler of fs is a sequence of steps, one for each lock it
takes: authorize, look the handle up, `IsRevoked`, open and draw an id, store. An
`fs.read` keeps the entry it has looked up, as the code keeps the pointer, whatever
becomes of the table.

A file is named by its absolute path. `Authorize` checks the path of a request as
resolved under `path_prefix`; `os.Open` and the entry in the handle table take it
from the working directory, `wd`. The two are kept apart, and `OpensUnderPrefix`
compares them.

`fs.revoke` asks for no token, and so comes from identity or from any other client.
`identity.revoke` is three: call, what becomes of `fs.revoke`, answer. A request
of identity that fs has not read yet when identity dies is still handled
(`orphan`). `late` and `acked` are history variables: they record whether a
revocation had been answered when a request came, and whether fs knew of it.
Revoking the same capability twice at the same time is left out. `Revocable` bounds
the capabilities that are revoked, or expire; the proofs are for any such set.

### RateLimit

Token buckets with exact arithmetic: a tick adds `Rate[c]` units, a request costs
`Second * Den`. `float64` rounding is left out. `mark` and `count` are history
variables: an observer may begin to count at any moment. `TokenBucket` has neither
eviction nor lazy refill: a level for each capability that rises at every tick.
The refinement mapping takes as level what the capability could spend if it asked
now (`Available`).

### Policy

`Authorize` with its checks in their order. A path (`PathPolicy`) is the sequence of
what stands between its slashes, so that `a//b`, `./a` and `..hidden` are different
inputs, and `Abs` cleans it name by name as `filepath.Abs` does. Symbolic links and
the file system are not part of the check and not of the model.

What is said here is about the answer of `Authorize`. `PathsAsGranted` follows a path
from the directory of the prefix, as `Authorize` does; where fs opens it is a question
of `Capabilities`. `RefusalsAreFree` is about refusals by `Authorize`: fs asks
`IsRevoked` after it, so a request that is refused as revoked has spent a token.

### Discovery

A call of `SendRequest` is a sequence of steps: dial, the handler's answer, the
answer's arrival, each of which others may get in between. The listener may close,
the process may end or restart at any point; the connection then breaks. A client
makes two calls, `registry.resolve` and the request itself; the supervisor one for
each time a service becomes healthy. Sizes are in units of which a frame holds
one, enough for a request or an answer to fit or not. The registry begins empty
after each start. `gone` is a history variable: the service that the client calls
did not listen all the time.

## Runs

| Run | Instance | Shows |
|---|---|---|
| `sup_full` | one service, start and stop requests, failing spawns, 2 incarnations, 2 crashes to quarantine, crash channel of 1 | types; every crash of a Starting or Healthy service is reported (`NoLostCrash`); a Stopped service comes back only through StartService once no `start()` is under way (`StoppedIsFinal`) |
| `sup_recovery` | one service, stop requests, 3 incarnations, fair | one process at a time; the socket file is the current process's; `done` means exited; no panic; a returned stop means dead; crashes are noticed and recovered; stops return |
| `sup_deps` | identity and fs, no requests, 2 incarnations each | `StartAllOrder`; the manager implements `Lifecycle` |
| `crash_policy` | one service, base delay 1, maximum 4, quarantine at 3 crashes in 8 ticks, 18 ticks, up to 2 between the clock readings, 5 crashes, one manual start | types; quarantine exactly when the window is full; only early crashes lead to it; delays are the documented ones and are waited for |
| `topo` | three services and one unknown name, all 4096 declarations | a sorted order or the right error |
| `cap_serve` | two capabilities with different rights and prefixes, one of them revocable, two calls at once, a relative and an absolute path, 2 handles, 2 identity starts, any number of fs restarts | types; no access after a revocation that fs has handled; a read is of the file its handle still names, opened by its own capability by a path it may open; handles keep their meaning; `identity.revoke` never waits for an fs that is gone |
| `policy` | tokens of 2rps, 1.5rps, a bad rate and none, with four kinds of prefix; seven paths; half-second ticks, 2.5 s, TTL 1 s | types; rate bound; the limiter implements `TokenBucket`; refusals cost nothing; granted paths, followed from their prefix, stay under it and plain ones are granted |
| `discovery` | registry and fs, 2 processes each, one client with five commands, fair | types; a command reaches a listening service whatever the registry does; registrations arrive; commands end |
| `v_...` | see Findings | a documented property that the code does not have |

Why the bounds are enough: the races in the manager need a process, its successor
and the goroutines left over from the first, which two incarnations give; a third
adds a crash after a restart and the quarantine. A crash channel of 1 makes
monitors block, which the code's 16 would do only with more services. Two
identity starts give a stale key, two calls and two handles every overlap of two
opens and a revocation, and the second capability reads with the handles of the
first. The calls of `cap_serve` are interchangeable, and only safety is checked
there, so that symmetry is sound. The TTL of 1 s is not shorter than a second, which is what
the argument about eviction needs of the five minutes, and lets eviction happen
within the bound. In `crash_policy` the longest delay and the window are in the
ratio of the defaults (one crash less than the quarantine takes fills the window
with the longest delays), and five crashes go past the last one that can lead to
quarantine. In `discovery` two processes of each service give every order of a
restart of either and a call; one client is enough, since calls meet only in the
entries, which the registrations also write. The theorems remove these bounds for
the properties they cover.

All passing runs check for deadlock. A supervisor that has exited or panicked
stutters, and so does a clock at its bound.

Fairness: the Go scheduler runs every goroutine that can run, timers and timeouts
expire, and `Wait` returns when the process has ended: weak fairness of every
`start`, `monitor` and `stop` call, of the restart timers, `handleCrash`, the main
goroutine and a StartService call that has begun. Nothing obliges clients to send
requests or processes to come up, to heed SIGTERM or to crash. `Capabilities` is
checked without fairness: that a waiting `identity.revoke` has an fs to answer it is
an invariant (`RevokeNotStranded`). An fs that lives and hangs would hold up the call,
which has no deadline. In `Discovery` weak fairness is on the steps of each call, a
live process answering what it has accepted, and on `start()` seeing a socket that
stays; nothing obliges a process to start, to listen or to end.

## Findings

Each run below is expected to fail: TLC finds a behaviour of the code that
violates what a document or comment says.

* `v_StoppedNotRestarted`: a service stopped while starting can come back without
  `svc.start`; the `start()` that gives up overwrites Stopped by Crashed.
* `v_RevokeIsEffective`: an answered revocation is lost when fs is down or restarts,
  and later requests with the revoked token are served.
* `v_OpensUnderPrefix`: `Authorize` checks a relative path as resolved under
  `path_prefix`, and fs opens it relative to its working directory, so that the file is
  another one, outside the prefix unless fs runs there. The protocol says of `fs.open`
  that the final resolved path must remain under the prefix, and steps 6 and 7 of the
  smoke test expect files under it.
* `v_HealthyIsRegistered`: a service that comes up before the registry, or a
  registry that restarts, leaves the service unregistered as long as both live. Go's
  map order decides whether identity is started before the registry.

Also seen in the models, without a run of their own:

* The late write of a `start()` that gives up can also cancel a restart that
  handleCrash has scheduled; the service then stays Crashed, and `svc.start` does
  not accept Crashed. The same holds after a restart whose `cmd.Start()` fails.
* A restart timer that fires behind StopAll leaves a process that outlives the
  supervisor.
* With `svc.start` requests a monitor can close the `done` channel of a newer
  process, or close one twice, which panics: it reads `se.done` after `Wait`.
* A `start()` that saw the socket of its process and takes the lock late may find a
  newer incarnation Starting and mark that one Healthy, before it has bound its
  socket. It takes three incarnations.
* A `svc.start` in the drain time of a stop is accepted, and the kill at its end hits
  the new process.
* StopService on a Starting service takes a transition that the table in
  `state.go` does not list; a restart does not look at the dependencies, and
  StartService looks at them before it takes the lock of the service.
* With the default configuration, and without manual starts, only the 5th to the
  9th crash can lead to quarantine: from the 10th on the delays alone fill the
  window (`QuarantineOnlyEarly`, `DefaultsQuarantineEarly`). After a manual start of a quarantined
  service one more crash within the window quarantines it again, and a timer of an
  earlier crash that is still pending may restart the service before the delay of the
  new crash is over.
* After an identity restart fs goes on verifying with the old key, and the new
  tokens are refused.
* A rate below 1rps never admits a request: the bucket holds less than its cost. The
  rates `NaNrps` and `Infrps` are accepted by `parseRate` and never refuse one; the
  model leaves them out.
* The path prefix `/` admits only `/` itself.
* A read of `maxReadSize` never fits a frame, whose limit includes the envelope and
  the encoding.

## Proofs

All proofs are checked by TLAPS, from the named assumptions on the constants
(`ConstantsAssumption`, `CapabilitiesAssumption`, `DeclarationAssumption`,
`RateAssumption`, `PolicyAssumption`, `PathAssumption`, `ClaimsAssumption`,
`DiscoveryAssumption`, `CallersAssumption`), for any sets and bounds. The last four
only say of what kind things are: prefixes and paths are sequences of strings, `..` is one of the names that contain `..`, a client is not
one of the supervisor's registrations, and commands are for services. The theorems of
`Recovery_proofs` also assume that clients send no `svc.start`.

Every safety property that a passing run checks is stated by a theorem.

* **Types** (`TypeCorrect`, `CapTypeCorrect`, `RateTypeCorrect`,
  `TopoTypeCorrect`, `PolicyTypeCorrect`, `DiscoveryTypeCorrect`). `TypeInv` of
  the supervisor also says that nothing works on an incarnation before `Cmd`
  counts it and how StartAll and StopAll move `pos`; `TypeOK` alone is not
  inductive.
* **`CrashesAreReported`**: `WatchInv` says that a service shown as Starting or
  Healthy has a process whose monitor is still to report, or whose report is
  queued. Only a spawn makes a service Starting, and it brings a new monitor; only
  a Starting one becomes Healthy; and handling a report, or a monitor that reads
  Stopped and gives up, leaves the service in another state.
* **`StartsInDependencyOrder`**: StartAll has started exactly a prefix of `order`
  and all of it is Healthy, since crash reports wait until Run.
* **`StoppedStaysStopped`**: handleCrash returns early for a Stopped service, a
  restart timer wants Restarting, and monitors do not write `State`. What is left is
  a `start()` under way, which the property excludes, and StartService;
  `LeavesStopped` goes through the actions one by one.
* **`RestartsDoNotOverlap`, `DoneIsExit`, `NothingPanics`, `StopIsComplete`**: `RecoveryInvariant`
  says that the monitors of past incarnations have ended, that each `done` channel
  is closed by the monitor of its own process after that has exited, that a service
  has at most one report under way, and that where a spawn is possible the last
  report has been taken. So the timer never meets an incarnation that is still
  watched.
* **`ManagerImplementsLifecycle`**: the refinement, from the same invariant.
  `StepKinds` sorts the steps of the manager by what they do to `Cmd`, the processes
  and the crash windows: a spawn, the end of a process, a crash that is counted, or
  none of these; each is a step of `Lifecycle` or leaves its variables alone.
* **`SocketsAreCurrent`**: since past processes are over, nobody but the current
  one can bind, and every spawn removes the file first.
* **`QuarantineIsExact`**: `WindowInv` says that a crash whose number is missing from
  `CrashWindow` was already too old when the last crash was taken, and the clock only
  moves on (`PruneExact`). **`BackoffIsKept`**: without manual starts at most one of
  process, report and timer exists, so that the timer that fires is that of the last
  crash (`OneAtATime`).
* **`QuarantineComesEarly`, `DefaultsQuarantineEarly`**: `SpacedInv` says that without
  manual starts each crash came at least its predecessor's delay after that, and that
  a process or report there is now came after the delay of the last crash. So
  crashes `m` and `n` are at least `slept(m, n)` apart (`CrashesApart`, by induction
  over `n`), and a full window holds the last `MaxCrashes` crashes (`FullWindow`). For
  the defaults the delays are computed: 30 s from the sixth crash on
  (`DefaultDelays`), four of which are the window of 2 minutes.
* **`DelayIsAsDocumented`**: the loop of `ComputeDelay` computes
  `min(base * 2^(count-1), max)` for every count, by induction over its rounds
  (`DelayClosedForm`). The maximum must not be below the base: for the first crash the
  code returns the base as it is.
* **`TopoSortCorrect`, `CyclesAreReal`**: `inDegree[s]` is the number of
  dependencies of `s` not yet in `order`, or whose visit of `s` is pending; the
  services with in-degree 0 are exactly those queued or in `order`. When the queue
  is empty, those left over each depend on one of them.
* **`RevocationHolds`, `HandlesAreBound`, `HandlesNeverReused`,
  `RevokersNotStranded`**: `CapInv` says
  that a revocation acknowledged as handled is in `revoked`; every handle was
  stored by an authorized open of its capability; ids drawn and not stored yet are
  distinct, at most `nextID`, and not in the table; so an entry that a read has looked
  up is not replaced before the read is over. `HandlesAreBound` names the file by the
  path as the working directory resolves it: it does not say that the file is under the
  prefix, which `v_OpensUnderPrefix` refutes. A file service that does not serve has no handlers, no handles and
  nobody waiting for it, which is `RevokersNotStranded`.
* **`RateIsBounded`, `LimiterIsIdeal`**: admitted requests times their cost, plus
  what is available now, is at most one burst plus the refill since `mark`. What is
  available is the level of the abstract bucket; the key lemma is `StaleIsFull`: an
  evicted bucket would have been full, because the TTL is at least a second.
* **`PolicyImplementsRateLimit`, `RefusalsCostNothing`**: every answer of `Authorize`
  is a step of the limiter or does not touch it, so that the theorems about the
  limiter hold of `Authorize`; a refusal by the limiter itself takes no token.
* **`PathsStayUnderPrefix`, `PlainPathsAreGranted`**: `GrantInv` says how the last
  answer came about: a grant passed `enforcePathPrefix`, a denial of a permitted method
  failed it. What that means is a fact about `Clean`: entering a name other than `..`
  leads from a directory under the prefix to another one (`EnterUnder`), and so does a
  path without `..`, by induction over its names (`CleanUnder`, `AbsUnder`).
* **`RegistryNotNeeded`**: `DiscoveryInv` says that an entry is an endpoint the
  supervisor or a client registered for that service, that the second call of a command
  goes to the service's own socket or to what a client registered for it, and that a
  command whose service listened all the time has reached its present process. A
  failure of the first call never ends the command, as it falls back to convention
  (`FailsOnlyOnce`).

The provers cannot use induction schemes with an operator as parameter, nor a
recursive definition as it stands. `NatRecursion_proofs` goes around both: `Induction`
is about a set of numbers, proved from the well-foundedness of `<`, and
`RecursionExists` shows that a function with the recursive equations exists, so that
the one the definition chooses satisfies them (`DoubledDef`, `AllSleptDef`, `WalkDef`).

Only model-checked: liveness (`CrashNoticed`, `CrashRecovered`, `StopTerminates`,
`RegistrationLands`, `CommandEnds`), as fairness and `ENABLED` are out
of the prover's reach.

## Not modelled

* File contents, JSON, cryptography and logging: data that no property tells apart.
* `ErrorResponse` codes beyond those of `Authorize`, the protocol version check, and
  several requests on one connection: no client in the repository sends them.
* `supervisor.status`, `svc.list`, `Registry.List`'s contents: they only read.
  `Registry.Remove` and `RevocationList.IsRevoked` are called by nothing.
* Environment variables and the lookup of binaries (`findServiceBinary`): one pass
  over the file system before anything runs.
* `log.Fatal` in the middle of StartAll: what the services started so far do without
  a supervisor.
* `float64` rounding in the limiter, and the width of `time.Duration`: the delay is
  compared with its maximum after every doubling, so it stays below twice that.
* Nix packaging, the development shell and the smoke test: no state of the running
  system.
