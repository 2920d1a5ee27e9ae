# Verification of packer-plugin-olvm

TLA+ models of the OLVM builder plugin (`src/builder/olvm`), checked with TLC
and, where TLAPS reaches, proved for every value of their constants.

## The system

The plugin builds VM templates: it creates a VM on the OLVM engine from a
template or from a clone of a disk, boots and provisions it, stops it, makes a
template of it, optionally exports the template as an OVA, and deletes the VM.

| Part | State | Operations | Right when |
|---|---|---|---|
| `Builder` (builder.go) | the `Config`; the state bag of a run | `Prepare`, `Run` | an artifact is a finished template; every failure is returned; an interruption ends the build |
| Runner (SDK `multistep.BasicRunner`) | current step, deferred cleanups, `StateCancelled` | run steps in order, break on halt or cancellation, clean up | an interruption leads to the cleanups, and these to the end |
| Steps (step_*.go) | locals; `vm_id`, `template_id`, `error` in the bag | `Run`, `Cleanup` | the VM is stopped and complete when the template is taken; nothing is left behind unannounced |
| `ConnectionWrapper` | the shared connection | `GetConnection`, `reconnect`, `ExecuteWithReconnect`, `Close` | bounded retries over a live connection; no session leaked |
| `WaitForState` (state.go) | none | poll until target, error, cancellation or unexpected state | ends with the verdict the caller needs |
| `Artifact` | template id | `Id`, `Destroy` | |
| Configuration (config.go, source_config.go, access_config.go) | the parsed configuration | `NewConfig`, the three `Prepare` | accepts what is documented; keeps what is given; leaves the steps nothing to doubt |
| `commHost` (ssh.go) | none | | |
| OLVM engine (external) | VM, interfaces, disks, template, OVA | requests over HTTP; launches, stops, copies and exports by itself | |

The program is sequential but for the runner's goroutine, which marks a
cancelled context in the state bag while a step or a cleanup runs. What makes it
hard is outside: answers are lost after the engine has acted, `ExecuteWithReconnect`
sends requests again, the engine changes status by itself between two
requests, and the user interrupts at any moment. `packer build` runs the builds
of a template in parallel, and they share the engine: their clones are told
apart by a name only.

## Modules

| Module | Models |
|---|---|
| `RetriedCall` | what a step may rely on when it hands a closure to `ExecuteWithReconnect` (abstract) |
| `ConnectionWrapper` | connection_wrapper.go in full |
| `MCConnectionWrapper` | its instances |
| `ConnectionWrapperProofs` | theorems about it, and that it implements `RetriedCall` |
| `StateChange` | one turn of `WaitForState` and the `StateChangeConf` of every wait |
| `Engine` | the OLVM engine as the steps use it (external) |
| `Build` | `Builder.Run`, the runner and all ten steps against the engine |
| `MCBuild` | its instances |
| `BuildProofs` | theorems about it |
| `BuildPromise` | what one build promises: a machine, its image and an outcome (abstract) |
| `BuildPromiseProofs` | that `Build` implements it |
| `BuildCleanProofs` | that a build nothing went wrong in leaves the engine as configured |
| `BuildAdvanceProofs` | that no step of a build leads back, or finds the engine unready |
| `BuildConfig` | the options `Build` depends on, shared with `Configuration` |
| `CloneDisk`, `MCCloneDisk` | `cloneDisk` and `attachDiskToVM`, run by several builds at once |
| `CloneDiskProofs` | theorems about it |
| `Configuration`, `MCConfiguration` | from the parameters to the requests that carry them |
| `ConfigurationProofs` | theorems about it |
| `Lookups`, `MCLookups` | how names become the engine's objects |
| `LookupsProofs` | theorems about them |

**ConnectionWrapper.** `connection` is `cw.connection`, a number in the order of
construction; `open` the sessions not yet closed; `attempt` the loop variable
(0 before the loop). `GetConnection` is the test before a call, `Rebuild` and
`Retest` the two halves of `reconnect`, `ReconnectFailed` its caller's reaction,
`Operate` the closure, and `Succeed`, `Refused`, `Retry`, `GiveUp` the branches on
its error. Errors are the five classes the code distinguishes; the text matching
of `isRetryableError` is abstracted to the classes. A closure is of one of three
kinds, because steps use all three: it sends through the connection it is given,
it stores a service object of it, or it sends through a service object stored by
an earlier call.

**Build.** `pc` names the request the build makes next. A request is one call of
`ExecuteWithReconnect` with the outcomes `RetriedCall` allows: answered (the named
action, e.g. `AddVM`, `StartVM`, `RemoveNic`), or failed with or without its effect
(`RequestFails`), or refused because the engine's state does not allow it
(`RequestRefused`). A Copy sent twice makes two disks, whether its answer arrives in
the end or not. `Cleanup` makes requests only for a VM in the state bag. `Halt` is the
`state.Put("error"); return ActionHalt` of every step, `Tell` the
`ui.Error; return` of `Cleanup`. `Enter` and `Leave` are the runner's loop, `Mark` its
goroutine, `Interrupt` the cancellation of Run's context, `Panic` a Must method on
an incomplete response. `Read` is a lookup (cluster, source template or disk, network and
vNIC profile, template to export, host), the capture of a service object, or the
update of the VM's cloud-init data: nothing the model keeps changes, it may
fail, and what a lookup searches for may be missing (`"missing"` in
`Environment`). The list of networks, of the cluster's networks and of the vNIC
profiles are one `Read`. `told`, `cleanupPanicked` and `faults`
record what the user was told by `Cleanup`, whether `Cleanup` itself panicked (a panic of
a step leaves it to run, and to tell) and how many requests failed. `NewConfig` always
sets `network_name`, so the network step always runs.

**Engine.** It is not part of the repository; it is modelled from what the code
relies on. Assumed: requests take effect when they are answered or lost, never
later; the locks of a VM's images and of the template made from them are
released together; a failed export returns the template to `ok`; `Remove` deletes
the attached disk; a second `Add` of the same object is refused, a second `Copy` is
not. A disk still being copied is not relied on to be refused when it is attached: the
poll has to see to that (`BootDiskReady`). `Environment` switches on what may additionally go wrong.

**BuildPromise.** `Machine`, `Image`, `Package` and `Noticed` in `Build` map the engine's
objects, the cancelled context, the panic and the messages to the abstract
state. The promise orders what steps, runner and cleanups do in different
places: one machine is created; once its image is captured it is never started
again; an export is of a finished image of a stopped machine, and only if asked
for; the machine is deleted only stopped, if asked for, and never under an image
still being made; and what `Run` returns fits what became of them. Every
notice may come at any time: the promise says what follows from it.

**CloneDisk.** Several builders share the engine. A builder is configured with a
disk and the value of `source_disk_name`, which is empty when the disk is given by
`source_disk_id`; the clone's name is the pair of it and the second of the clock.
`Begin` chooses the name, `GetSourceDisk`, `CopyDisk`, `Poll` and `AttachDisk` are the
requests, `Turn` counts a turn of the poll loop, and `Listed` is what the search by
name returns, in any order. A `Copy` whose answer is lost may be carried out up to
`Repeats` times. `maker` and `attached` are the engine's view, with which the
properties compare what the builder believes. In `Build` the same code runs once,
within the whole build; here it meets itself.

**Configuration.** A parameter not given has its zero value, as the decoder leaves
it; a `*bool` is `Nil` or points to a value. `AccessConfigPrepare`,
`SourceConfigPrepare`, `NewConfig`, `CommPrepare` (external), `SSHTimeout` and
`BuilderPrepare` run in the order of the code and change `config` in place; `errs` is
the set of parameters complained of. `CreateVM`, `ManageNetworkInterfaces` and
`SetupInitialRun` build the requests of the accepted configuration. `url.Parse` and
`uuid.Parse` refuse the value `Malformed` and no other. `gateway`, `tls_insecure` and the
remaining communicator options are passed through and left out.

**Lookups.** One action per lookup of `stepCreateVM`. Any matching object may be the
first one listed, so `Take` chooses any. A source template or disk given by id is
used as it is and fails when its details are asked for.

The SDK's runner and its communicator steps are external too: modelled as
breaking on `StateCancelled` after a step, checking the context before one,
deferring `Cleanup` after `Run`, and halting without an error on a cancelled context.

## Runs

| Run | Checks | Bounds |
|---|---|---|
| `ConnectionWrapper` | `TypeOK`, `NoSessionLeaked`, `RetryOnOpenConnection`, `SendsBounded`, `BudgetSpent`; action property `CallAdvances`; liveness `CallReturns`; refinement `ImplementsPromise` | 2 retries: a first, a middle and a last attempt; or -1, which `NewConfig` accepts and which takes the return behind the loop; 3 calls: one captures, two use |
| `BuildFaults` | `TypeOK`, `ArtifactSound`, `FailureReported`, `LeftoverAnnounced`, `CleanSuccess`, `BootDiskReady`, `RemoveOnlyStopped`, `EngineReady`; action property `BuildAdvances`; refinement `ImplementsPromise`; liveness `Terminates` (if the engine ends what it began), `CancelReturns` (whatever the engine does) | all 16 configurations, 3 failed requests, every environment, 2 inherited interfaces, 2 clones, 2 clone polls |
| `CloneDisk` | `TypeOK`, `RightContent`, `FailureExplained`, `LeftoverExplained`; action property `CallsAdvance` | 2 builders over 2 disks, each by name or id; 4 clones, 2 polls, Copy carried out twice, 2 seconds |
| `Configuration` | `TypeOK`, `AcceptedIffDocumented`, `MeetsAssumptions`, `GivenKept`, `RequestsAsDocumented` | six groups of related parameters, all combinations within a group; 4 environments, 4 templates |
| `Lookups` | `FindsWhatIsThere` | every subset of 13 objects in 2 data centers, 4 requests for them |

Two failed requests allow one in a step and one in the cleanup after it; a third
can only fail in an already failed cleanup. Two clones are what a doubled Copy
makes. Two polls stand for 30 (`ClonePolls`): one that goes on and the last. Four
clones let both of two builders' Copy be repeated; one second is enough for
names to collide and two for them to differ. The clones of `CloneDisk` are
symmetric: nothing tells them apart but what is recorded of them. The parameters
of different groups of `Configuration` do not meet in any condition of the code;
the proofs take all of them together.

These runs show disagreements, each recorded as a finding:

| Run | What the code does |
|---|---|
| `ConnectionWrapperCaptured` | a request through a captured service object is retried over the connection that was closed |
| `BuildCancelledCleanup` | in an interrupted build the cleanup's own wait is interrupted, and the VM not deleted |
| `BuildOrphan` | a failure of `stepCreateVM` after the VM was added leaves the VM: `vm_id` is stored last |
| `BuildExportFails` | a failed export is reported as completed |
| `ConnectionWrapperReconnect` | the reconnect before the first run of a closure is tried once, whatever `max_retries` |
| `CloneDiskSameSecond` | builds of different disks given by id, begun in one second, boot each other's disk |
| `ConfigurationDns` | `dns_servers` without `address`, as in both documented examples, are dropped |

**Fairness.** `Progress` of the wrapper: every request is answered or times out
(`Timeout(10s)`), every sleep ends. `Program` and `Mark` of the build: the plugin
process and its goroutine are scheduled and every request ends; connecting has
the SDK's timeout, and provisioners are assumed to return (after an
interruption nothing is assumed of them). `Terminates` also takes the engine to end
what it began, which is its premise (`FairEngine`); `CancelReturns` does not.
`CloneDisk`, `Configuration` and `Lookups` have safety properties only and need no
fairness: `CallsAdvance` bounds the steps of a clone, and its end is part of `Terminates`.

**Measures.** `CallAdvances`, `BuildAdvances` and `CallsAdvance` are the halves of the
liveness properties that need no fairness. Each names a `Distance`, a number made of
the program points, attempts, poll turns and interfaces still ahead, and says that
every step of the program lowers it. A retry that starts over, a wait that asks
again, or a builder that goes back to its poll would break it. What is left to
liveness is that a wait for the engine ends.

## Proofs

`ConnectionWrapperProofs` proves, for every retry budget `NewConfig` lets through
(any integer but 0: `Retries` is a set of them, and a behaviour begins by choosing one)
and every number of calls: `TypeCorrect`, `SessionSafety`, `FreshRetry`,
`BoundedSends`, `FullBudget`, `EveryCallAdvances`, and `Implementation` (the wrapper implements
`RetriedCall`). The safety properties are not inductive: that no session leaks
needs to know which sessions are open at each half of `reconnect`, and that
`NotFound` means one run needs to know how many runs a program point can have
behind it. `IInv` adds these as `Sessions`, `Course` and `Accounts`; `InitInv` and
`NextInv` show it inductive, and each theorem follows from it. `EveryCallAdvances` (`CallAdvances`)
needs from it that `attempt` stays within the budget, also a negative one, for which
the loop is never entered: `Nearer` computes how far each step of the loop comes.
The refinement uses the same invariant: `PromiseNext` shows every step to be `Begin`, `Send`,
`Return` or invisible. Assumed: `RetriesAssumption`, `MaxCallsAssumption`.

`BuildProofs` proves, for every set of configurations, every number of clones,
polls and failed requests and every environment, the safety properties of
`BuildFaults` but `CleanSuccess` and `EngineReady`: `TypeCorrect`, `SoundArtifact`, `NoSilentFailure`,
`NoSilentLeftover`, `CompleteBootDisk` and `SafeRemoval`. Its `IInv` adds to the types what each property depends on:

- `EngineInv`: a stopping VM runs, an attached clone is complete, an export locks
  its template. `EngineMoves` shows that what the engine does by itself keeps
  this and takes away nothing the build relies on.
- `Course`: every program point belongs to one step; `Polling`: the counter of the
  clone poll and what the poll returns.
- `Bag`: which steps imply `vm_id` and `template_id`, and that a VM the engine has
  and the bag does not know means `createVM` is still running or has failed.
- `Booting`, `Taking`, `Exporting`: what is true of the boot disk, the interfaces
  and the export between the step that establishes it and the one that uses it.
- `Panics`: a panic of `Cleanup` is one of the build.
- `Ending`: what is known at each point of `Cleanup` and of the end of `Run`; `Cleanup`
  goes beyond its first point only for a VM in the bag, so a VM it leaves is
  announced by its own message and never by a step's error alone.

`Kept` summarises what any step may do to the engine; one lemma per part then
goes through the actions. Assumed:
`ConfigsAssumption`, `ClonePollsAssumption`, `MaxFaultsAssumption` and
`ClonesAssumption` (a clone's identity is not one of the two words the model
uses for other boot disks).

`BuildPromiseProofs` proves `Implementation`: `Spec => ImplementsPromise`. What `IInv`
knows at the end of a build is not enough to place every step in the promise's
order; `Fates` adds what the engine's objects have been through: a template comes
with the last two steps and leaves the VM stopped, the VM is removed at the
very end, a VM is locked as long as its template is being made, and nothing is
exported unasked. Three lemmas map the steps: `PromiseReturn` the two places where
`Run` returns, `PromiseRequest` the requests and their failures, `PromiseEngine` what
the engine does by itself.

`BuildCleanProofs` proves `CleanEngine`: `CleanSuccess` for every instance. `Tidy` says
that there is at most one clone while nothing failed and that it goes with the
VM (`OneClone`), that a VM whose template is made is not locked (`Unlocked`), and which
way `Cleanup` takes when there is a template (`Removal`). `CleanSuccess` needs both
sides: that `Cleanup` reaches the removal, and that the removal takes every disk.

`BuildAdvanceProofs` proves `EveryStepAdvances` (`BuildAdvances`). `PointAdvances` and
`GivingUpAdvances` cover the steps within a step of the build; the runner, the clone
poll and the removal of interfaces have lemmas of their own, for they raise one
part of the measure while they lower another: the next step begins with all its
points ahead, and the list of interfaces comes into being. `IInv` supplies which step
a program point belongs to and that the poll has turns left. Assumed besides:
`SourceNicsAssumption`, a VM has finitely many interfaces.

It also proves `NeverUnready` (`EngineReady`). A request of the model waits for what the
engine needs of it, unless the code can meet the opposite (`Refused`). `EngineReady` says
that what `Refused` leaves out never happens: so a build is not held up, in the model,
where the code would go on to an error. `NoWayBack` gives the order within a
step in terms of the measure; with it `Pristine` is inductive: what a request adds is
not there before it (`StillAbsent`), and the VM is not started and has neither boot
disk nor second interface while its parts are put together (`StillBuilding`). That no
clone is there before the `Copy`, and that the interfaces listed are the VM's, comes
from `Tidy` and `IInv`. Assumed besides: `NewNicAssumption`, the added interface is not one
of the template's.

`CloneDiskProofs` proves, for any number of builders, clones, polls and seconds,
`TypeCorrect`, `Isolation` (`RightContent`), `ExplainedFailures` (`FailureExplained`),
`ExplainedLeftovers` (`LeftoverExplained`) and `EveryCallAdvances` (`CallsAdvance`). What
makes them inductive is `Making` (a disk carries the name its maker chose) and
`Attaching` (what is attached carries the name of the builder it is attached to):
so two builders meet in a disk only if they chose the same name.
`ExplainedLeftovers` counts. `Counting` says that a disk's maker has sent its `Copy`
(`Sending`), that a builder whose `Copy` was not repeated made one disk at most
(`OneCopy`), that an attached builder holds the disk it found (`Holding`), and that only
finitely many builders have begun (`FewBegun`), which is what the constants need not
say. If all builders of a name hold a disk and none had its `Copy` repeated, then
"the maker of the disk I hold" is injective among them, hence onto (`AllTaken`), and no
disk of that name is left. Assumed:
`ClonePollsAssumption`, `RepeatsAssumption`, `LastSecondAssumption`, and that "nobody" and
"nothing" are no identities.

`ConfigurationProofs` proves, for every set of parameters and environments,
`TypeCorrect`, `Acceptance` (`AcceptedIffDocumented`), `AssumptionsMet` (`MeetsAssumptions`),
`NothingOverridden` (`GivenKept`) and `RequestsCarryTheStated` (`RequestsAsDocumented`). The invariant follows Prepare's parts: which
parameters are still as given at which stage (`Unfilled`), so that a check made late
is a check of what was given; what the complaints so far amount to (`Complaining`);
what is filled in (`Filled`); that what is filled in is what the documentation
states (`Defaulted`); and which of the two SSH timeouts is left at which stage
(`Timeouts`). For `RequestsCarryTheStated`, `Carried` follows the accepted
configuration into the requests, one conjunct per request; `Defaulted` gives the
values of the parameters with a default, `Unfilled` those of the others.
Assumed: the shape of the parameters
(`GivenAssumption`) and of the environment (`EnvironmentsAssumption`).

`LookupsProofs` proves `RightSource` (`FindsWhatIsThere`) for any objects, in any number of
data centers, and any request. `SourceMatches` shows that the sources looked for are
those asked for, `SecondSearchFindsNothing` that the cluster's networks add nothing to
all networks.
Assumed: `WantedAssumption`, the source is a template or a disk, which is what
`MeetsAssumptions` gives.

Model-checked only: liveness (`CallReturns`, `Terminates`, `CancelReturns`), which is
out of the prover's reach. Its safety half, that every step comes nearer to the
end, is proved. Every other property of the passing runs is a theorem.

## Hazards and properties

The hazards are listed in `PROJECT.json` at their lines. The main ones: requests
lost after they were carried out and then repeated; steps that fail half way
with their resources not yet in the state bag; a cancellation that meets a
step or a cleanup in the middle of a wait; statuses read before they are acted
on; a clone found by a name that need not be unique; defaults that hide from
later code what was given.

## Further disagreements

Met while modelling, visible in the modules, and not given a run of their own:

- A negative `max_retries` reaches the return of `ExecuteWithReconnect` that "should not"
  be reached (connection_wrapper.go:149; the run `ConnectionWrapper` takes that way).
- The empty state that the refresh functions return for an object not found yet
  (state.go:73) is an unexpected state of every wait, and fails the build (`"lag"`).
- `Artifact.Destroy` deletes nothing (artifact.go:40).
- `ssh_wait_timeout` replaces `ssh_timeout` in the communicator's Prepare, before
  NewConfig clears it "to prevent override" (config.go:146-161; `CommPrepare`).
- The resources of the source template are never used: the defaults of 1 CPU
  and 1024 MB come first (config.go:112, step_create_vm.go:307; `getVMResources`).
- Without `address` there is no host to connect to (ssh.go:9; `commHost`), and both
  examples have none.
- The network and the vNIC profile are the first of their names, of any data
  center and of any network; "Try to find network in the cluster"
  (step_create_vm.go:634) is reached only when no network has the name.

## Not modelled

- The generated HCL2 specification (builder.hcl2spec.go) and the entry point: no
  state and no decisions of the plugin's own.
- The SDK's debug runner and `-on-error=abort` or `ask`, which `NewRunner` may choose:
  they change when and whether cleanups run, in code outside the repository.
- Key material, authentication, `gateway`, `tls_insecure`, user name and key in the
  cloud-init data, logging: passed through without a decision.
- Time: retry intervals, the poll interval and timeouts are nondeterministic. How
  long an outage a build survives is not asked.
- What the engine does with two templates of one name (the default name holds
  the second of the clock): it may refuse any request, and no more is assumed.
- Requests that take effect after the client gave up.
- The refresh functions for disks and attachments, and those without the wrapper
  (state.go): nothing calls them.

## Plan

1. Done: wrapper, state waiting, engine, build, the promise of a build, concurrent
   clones, configuration, lookups, and the proofs above.
2. Requests that take effect late, after the build went on.
3. The runner's abort and debug modes.
