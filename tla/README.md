# Verification of oai-free5gc-testbed

This directory holds TLA+ models of the testbed in `testbed/`, the TLC runs that
check them, and proofs checked by TLAPS. Paths below are relative to the
repository; `README.md:n` means the repository's own README.

## 1. The system

The testbed renders a scenario (one file that names networks, slices, UPFs,
gNBs, UEs, services and flows) into a Docker Compose project, brings it up in
stages, measures it, and lets two outside principals act on it through an HTTP
gateway. All state that outlives a process is in files of the *run directory*
and in Docker. Nothing is transactional, and only the gateway's actions take a
lock.

| Component | Code | State it keeps | Operations |
| --- | --- | --- | --- |
| Run state | `state/models.py`, `state/run_store.py` | `current-state.json`, `state.jsonl`: phase, sequence, reset generation, failed phase | initialize, advance, fail, stop, recover, reset |
| Run lifecycle | `cli.py`, `orchestration/launcher.py`, `gateway/control_worker.py` | none of its own; what a process is doing | render, start, resume, stop, reset (export, status read only) |
| Readiness and Docker | `orchestration/readiness.py`, `adapters/` | containers, their logs, Compose volumes | compose up/create/rm/stop/down, start, stop, restart, update; waits with a deadline |
| Rendering | `rendering/`, `artifacts/manifest_writer.py` | the run directory's artifacts | render_run |
| Scenario | `scenario/` | none | load, validate, compile |
| Slice catalog | `state/slice_store.py`, `gateway/slice_manager.py` | `slice-state.json`, `slice-state.jsonl`; the UPF containers | create, start, stop, delete, update resources, reconcile |
| Action gateway | `gateway/api.py`, `executor.py`, `action_arbiter.py`, `state/lock_store.py` | `locks/`, `actions.jsonl`, `receipts.jsonl` | policy, resource, lifecycle, slice-lifecycle, slice-resource, dispatch of reset and stop |
| Policy actions | `policy_translator.py`, `policy_watchdog.py`, `flow_allocation_store.py`, `subscriber_adapter.py` | the subscriber documents in free5GC, `flow-allocations.json` | update_policy, allocate, verify |
| Telemetry | `telemetry/` | `session-observations.json`, `snapshots.jsonl`, a database table, a counter | collect sessions, build a snapshot periodically and on events, latest, health |
| Traffic sidecars | `traffic/` | counters per flow, child processes | tcp, udp, http and ping workers, shutdown |

How they interact:

* A CLI command and the containers `testbed-reset-<run>` and
  `testbed-stop-<run>`, which the gateway starts, all run `Launcher` on the same
  run directory and Compose project. `docker run --name` keeps a second worker
  of one name away; nothing else excludes anything.
* `render_run` initialises both state files; `Launcher._bring_up` calls the
  Docker adapter, the readiness waits and, late, `SliceManager.reconcile_initial`.
* Each gateway request runs in a thread, checks the caller, the age of the
  snapshot it refers to and its target, takes a `TargetLock`, changes Docker or
  the subscriber data, asks the snapshot builder for a snapshot, and appends a
  receipt.
* The session tracker writes a file the snapshot builder reads; the builder
  also reads the slice catalog and the flow allocations without a lock.

What is hard here: two commands on one run; a process killed between two
writes; a command that fails while it records a failure; evidence read from logs
older than the thing it is evidence for; an action that fails half way; a lock
that outlives its holder; locks that name the same container differently; an
action whose success needs what another action took away. `PROJECT.json` lists
each of these hazards at its line.

What makes each component correct:

* *Run state*: the visible state is in the history; every recorded state comes
  by an allowed transition from a recorded one; sequence and generation are
  steady; a failed stage is recorded; RUNNING and STOPPED mean what they say.
* *Slice catalog*: one writer; a history of single moves; phase and containers
  agree after a bring-up; a running slice's UPFs run and are not removed.
* *Gateway*: locks are exclusive and are given back; a verified receipt is true.
* *Policy*: no verified rule or allocation is lost.
* *Telemetry*: snapshots keep coming while the gateway depends on them; what a
  snapshot shows is not older than it claims.
* *Traffic*: counters account for every packet; workers end when told to.
* *Scenario*: what validation accepts has the bindings the rest assumes.

## 2. Modules

| Module | What it is |
| --- | --- |
| `RunState` | the run record and the record each `RunStore` method makes of another; `Derives` is one allowed transition |
| `RunPhases` | abstract specification: the state of a run as one atomic variable |
| `RunLifecycle` | the processes that share a run, step by step |
| `MCRunLifecycle` | symmetry and a constraint for TLC |
| `RunLifecycle_proofs` | theorems about `RunLifecycle`, with or without overlap |
| `RunSerial_proofs` | theorems about `RunLifecycle` when commands do not overlap; its refinement of `RunPhases` |
| `SliceState` | the slice catalog and the catalogs `SliceStore` makes |
| `SlicePhases` | abstract specification: the catalog as one atomic variable |
| `SliceCatalog` | gateway requests, UPF containers, locks and the launcher beside them |
| `MCSliceCatalog` | two slices, their sessions and initial phases for TLC |
| `SliceCatalog_proofs` | theorems about the catalog and its lock; the refinement of `SlicePhases` |
| `SliceRepair_proofs` | theorems about the containers and the locks of `SliceCatalog` |
| `PolicyState` | flows, their UEs and policies |
| `FlowPolicies` | abstract specification: a rule and an allocation for each flow |
| `PolicyActions` | policy requests, subscriber documents, sessions, the session tracker, the allocation file, and the launcher beside them |
| `MCPolicyActions` | two flows of one UE and two policies for TLC |
| `PolicyActions_proofs` | theorems about `PolicyActions` |
| `SnapshotBuilder` | builds of snapshots under their lock, the files they read and write, the gateway that accepts actions on them and asks for more |
| `MCSnapshotBuilder` | symmetry for TLC |
| `SnapshotBuilder_proofs` | theorems about `SnapshotBuilder` |
| `UdpFlow` | the packet accounting of one UDP flow, over a network that loses, duplicates, reorders and delays |
| `TrafficSidecar` | the threads, children and main thread of one UE's sidecar; its UDP flow is `UdpFlow` |
| `MCTrafficSidecar` | two UEs and a flow of each protocol for TLC |
| `TrafficSidecar_proofs` | theorems about both |
| `ScenarioValidation` | what `validate_scenario` accepts, as a predicate |
| `ScenarioRendering` | from a scenario file to the files of a run, and the author who edits it |
| `MCScenarioRendering` | three scenarios and the values an author may put into them for TLC |
| `ScenarioRendering_proofs` | theorems about both |

Operators whose comment begins with "Mutant" are faulty variants of the
definition that follows them. No specification uses them; substituted for it,
each makes TLC report the property that `PROJECT.json` pairs it with, which shows
that the property depends on the code being as it is.

### RunLifecycle

A process is a CLI command or a worker. `cmd[p]` holds its next step (`at`), its
command, the stage of `_bring_up` it is at, the phase of the failure it handles
and the record it is writing. `layout`, `slices`, `current` and `history` are
the run directory, `up` is the set of container groups that run. The UPFs are a group of their own, apart from
the rest of the core: of the slices the model keeps whether all of them are RUNNING, and `reconcile_initial`, the ninth
stage, stops or removes the UPFs of those that are not (`Halts`). `SliceAction` stands for the gateway's slice actions between two
commands, which take UPFs down or bring them up and rewrite the catalog; `SliceCatalog` has them step by step.

`RunStore` is not atomic in the code and not in the model: `ReadCurrent` computes
the next record, `AppendHistory` appends it, `TruncateCurrent` and
`OverwriteCurrent` are the two halves of `write_text`. Between any two of these
other processes may run, a process may be killed and the host may restart. `write_text` opens the
file, which empties it, and writes on closing it: when two commands have opened it before either
writes, the shorter text is followed by the end of the longer, which no reader can parse.

`Plan` lists the ten steps of `_bring_up`: the groups `compose_up` leaves running, with those they depend on,
the value of `expected_phase`, and the phase handed to `on_ready`. What a stage waits for is given no
weight, since it is mostly read from logs, which outlive the process that wrote them. A stage that fails, or whose process is
killed in the middle of it, may leave any part of what it starts running and any part of what it halts stopped (`CutShort`).

### SliceCatalog

A request goes through the docker calls of `SliceManager.lifecycle` one container
at a time, then `SliceStore.advance` in four steps (read, append, truncate,
overwrite), then the receipt. `locks` is the set of lock files; a crash does not
remove them. `attached` is the set of sessions established through the UPF
process that now runs: a restart of the UPF or of the SMF ends them and a restart of the
UE establishes them again if the UPF runs. This behaviour of free5GC and OAI is not in the
repository; it is the reason `start_slice` restarts all of them. It is also why a resume of a run that runs may fail at its
pings: `compose up` starts a UPF that was stopped and leaves the UEs that run alone, so their sessions stay down. PFCP associations are
not kept: the wait for them counts log lines that survive the restart.

The two resource actions go container by container too, `update_slice_resources` under
`slice-catalog` and `update_container_resources` under the container's own lock. The limits
are data, but not that setting them may fail: docker may refuse a limit, and
`DockerAdapter.update_resources` raises when it reads back what an action under the
other lock has set in between. `Impossible` therefore lets them raise on a healthy host as well.

The launcher appears only with what it does to UPFs, gateway and slices:
`compose down`, `stop` and `up` (also those of the gNBs, UEs and sidecars, which start the UPFs they depend on), the pings, and `reconcile_initial` call by call.
Which of its commands the run's phase admits is `RunLifecycle`'s subject; here any of
them may come.

### PolicyActions

A request goes through `ActionExecutor.policy`: read the subscriber document (`GetSubscriber`
keeps it in `req[p].copy`), write it, read it back, restart the UE, wait for the UE's sessions
and then for every flow, poll snapshots until the 5QI is as asked, and rewrite
`flow-allocations.json` in its three steps (read, truncate, write). `rules` is what the
documents say, `session` what each PDU session was set up with, `observed` what the session
tracker wrote last; a snapshot shows `observed`, so `Verify` compares with that. The truncation empties `allocations`
(`Lost`): until it is written again no snapshot can be built and the file cannot be read, and a gateway or a host that dies
in between leaves it so. Two requests that write at once may leave the two texts in it (`Garbled`). `FlowPolicies` has this
loss as its `Crash`; it sees what the writer is about to put back (`Known`) where the file is empty because someone writes it.

A policy is reduced to the 5QI, which snapshots show, and one bandwidth, which they do not.
`Establish` is free5GC and the UE: a session is set up under the rules of the document as it is
then. The launcher puts the declared documents back (`ProvisionUe`), brings the UEs up one by
one and starts the tracker unless it runs; `compose down` empties the subscriber database.
The snapshot a request refers to is taken to be as old as the tracker's last file; its age
limit is left to `SnapshotBuilder`. A session has one flow.

### SnapshotBuilder

`build[b]` is a build of the periodic task or of a caller's request: it takes `build_lock`
(`Begin`, which also fixes the window), reads the session, allocation and catalog files in that order
(`ReadFile`), appends its line in two steps (`StartLine`, `EndLine`) and inserts it into the database
(`Insert`, which also answers). A file is the time of its last write, and a snapshot the end of
its window with the versions of the files it read, so that "older" has a meaning. `torn` are the files that
cannot be read. `log` is what `SnapshotStore.get` can parse: the lines of `snapshots.jsonl` up to the
first broken one, since it parses every line before the one it looks for; `tail` says what follows them.

`seen[n]` is when Prometheus last had a sample of UPF `n`. If a UPF has none in the window when the
build begins, the build raises, because the mean it divides is None. `Leave` releases
the lock; `Raise` also ends the periodic task for good, as the exception ends its `while`. A
builder that dies is not restarted but by the next bring-up, and leaves half a line if it dies within one.

A gateway request is reduced to what concerns snapshots: it is accepted on a recent one (`Accept`),
stops or starts UPFs, rewrites the catalog or the allocations, asks for a snapshot and waits as long as
`action_timeout_seconds`; after that the build it asked for goes on without it (`GiveUp`), and the model
lets the same thread ask again only when that build has ended. One `Tick` may bring new samples of all running
containers and a new file of the session tracker. The interval of the periodic task is any time of at
least one tick. Whether a later write keeps what an earlier one put into a file is the subject of
`PolicyActions`, not of this module.

### UdpFlow and TrafficSidecar

`UdpFlow` follows the loop of `_udp_worker`: `Send` (a datagram if one is due), `Receive` (at most one answer),
`ExpireHead` (the head of `sent_order`, as often as it has expired) and `Report` (the window counters are
reported and reset). The network is two sets of datagrams, to the server and back: what is in
a set may be delivered again and again, in any order, or be lost. Times are left out; whether a
datagram is due, has expired or a report is due may be answered either way each time the loop asks. This admits a
thread that is late at any point, and an answer that was in the socket's buffer before its datagram expired.

`TrafficSidecar` has one thread per flow for its traffic and one for its pings, each with the child it reads
from, the event `stop`, the shared gauge, and `main`, which waits for the first exception, sets `stop`
and waits for the rest. A child writes lines, ends or stays silent as it likes. A thread
that reads waits for the next line without a deadline and looks at `stop` only then, as `for line in process.stdout`
does; the UDP and HTTP threads look at it in each round. `CleanUp` is the `finally`: a child that outlasts its
grace makes the thread fail.

### ScenarioValidation and ScenarioRendering

A scenario is a record of lists of records with the names of `schema.py`; an address is a number and a CIDR an
interval. `WellFormed` is what the schema demands of the fields the model has, `Accepted` the conjunction of the checks of
`validate_scenario`. The code looks items up in two ways, and the model keeps them apart: a dictionary made from a
list keeps the last item with an id (`Item`), a template that walks the list meets the first (`Position`).

`Author` changes a field or drops an item of a file; `Load`, `Compile` and `Render` are the
steps of `render_run`, which raise where a lookup fails or where the fragments of the compose file conflict: `_merge` raises when
two of them have a service of one name (`FragmentsMerge`), the testbed's own services included. A container's name is taken for the text
it is; YAML reads some, such as 123 or null, as something else. The files they write are operators: the topology's edges
(`Topology`) and slice bindings (`Bindings`), a UE's requests (`Request`), the subscriber's
`SmfSelection`, the SMF's `SnssaiInfos` and `UpNodes`, and the traffic `Profile`. The properties say
that these files, which different functions derive from the scenario by different lookups, agree.

## 3. Runs

| Run | Question | Bounds |
| --- | --- | --- |
| `RunSerial` | do commands that do not overlap implement `RunPhases`, whatever is killed? is every failure recorded and does every bring-up settle if nothing is? | 3 commands, 2 faults, logs may be unreadable |
| `RunConcurrent` | what survives when commands overlap? | 2 operators and 2 workers, 2 commands from an empty run directory, 1 fault, bring-ups followed to stage 4 |
| `RunLostFailure` | is FAILED recorded when logs cannot be read? (it is not) | 2 commands |
| `SliceOverlap` | are slice actions exclusive, and is the catalog's history legal, with everything overlapping? | 2 slices of one UE, 2 threads, 3 requests, 3 launches, 1 crash, faults |
| `SliceRepair` | does a bring-up repair what failed actions left, and what holds where nothing fails? | 4 requests, 3 launches, 1 crash, a host chosen in `Init` to be faulty or not; one slice declared deleted |
| `SliceTwoStopped` | can a stopped slice always be started? (it cannot) | 1 thread, 3 requests one after the other, no faults |
| `PolicySerial` | are receipts true, does one action leave other flows alone, and what does a crash lose? | 2 flows of one UE, 2 policies, 3 requests, 2 launches, 1 crash, faults; no overlap |
| `PolicyLost` | are receipts true when two actions overlap? (they are not) | 2 requests at once, no faults |
| `PolicyNewQos` | is a policy that changes the 5QI verified when it is in force? (it is not) | 1 request, no faults |
| `Snapshots` | are snapshots in order, findable, and evidence of what they answer for; are actions accepted on recent evidence? | 1 UPF, 2 callers and the periodic task, 2 requests, 4 seconds, window 1, age limit 0, 1 death of the builder, faults |
| `Traffic` | is every datagram counted once and resolved, and does one failure or a signal end the sidecar cleanly? | a UE with a UDP flow, a UE with a TCP and an HTTP flow, 2 datagrams |
| `Scenarios` | can what is accepted be rendered, and do the rendered files agree with each other? | every scenario within 3 edits of a good one, of one with a copied entry and of one with a container named like a service of the testbed; 2 sites, slices, UPFs, UEs, services |

Why the bounds suffice. In `RunSerial` three commands are needed for a render or start, something that spoils it,
and the command that has to cope. `RunConcurrent` is a sample of overlaps: with two commands from an empty
directory, the one that renders, alone or at the beginning of a start, meets any other command; a reset never meets
a stop, nor a resume a stop, since neither of them makes a run. With bring-ups cut off after stage 4 (`MaxStage`), the
gateway is never up, so that no worker is dispatched and no slice action happens there. What the run checks is proved for any number
of commands and stages (section 5), these pairs included. One kill at any step shows every torn pair of writes. For slices, two slices on one UE are the smallest catalog in which one can
disturb the other; three requests allow stop, stop, start and start (failing), delete,
create; one crash shows every step after which a lock can be left. For policies, two flows of
one UE share everything that flows can share; three requests allow one that fails half way, one on the
other flow and one more on the first; one policy keeps the 5QI the sessions start with and one changes
it, since only the first kind passes the watchdog once the tracker has stopped looking. For snapshots, the periodic task and two callers are the shortest queue in which an answer
could go to the wrong one; with a window of one second and an age limit of none, a UPF that is stopped outlasts both
within the four seconds, and a caller's time-out passes while its build waits. The sequence numbers
need no bound of their own, as only commands and requests raise them. For traffic, two datagrams are the
fewest that can be answered out of order or expire while a later one is waited for; each UE of the run has one
kind of flow the other has not, and the theorems cover any flows and any number of datagrams. For scenarios, a
disagreement between two lookups needs two entries to choose from and at most three edits to pass the
validator: with the duplicated id already in the file, the edits are left for its consequences.

CHECK_DEADLOCK is off throughout: once the bounded commands are used up, a run
that rests is in order.

Fairness. In `RunLifecycle` and `SliceCatalog`, `FairSpec` gives each process that is not killed weak fairness on its next
step. The code justifies it: every `docker` call has a timeout
(`adapters/docker_adapter.py:24`), every wait a deadline (`orchestration/readiness.py:21`),
and nothing waits for a lock, which is either taken at once or refused. No
fairness is assumed of operators, callers or faults. In `TrafficSidecar` each thread and `main` go on when they can
(weak fairness), and the head of `sent_order` does not go unexpired for ever, since time passes; this is strong
fairness because each round of the loop takes that step's guard away and gives it back. Nothing is assumed of
the network, the children or the operator. That a child may stay silent for ever, and with it the sidecar, is the
premise of `StopEndsTheSidecar`; Docker kills the container after its grace period, which is not modelled.

The five-minute scale of the runs: `RunSerial` has about 3 450 000 distinct
states, `Scenarios` about 1 080 000, `RunConcurrent` about 1 040 000, `Snapshots` about 930 000, `SliceOverlap` about 810 000,
`SliceRepair` about 700 000, `PolicySerial` about 630 000.

## 4. What the runs found

Four statements of the repository do not hold; each has a run that shows it and
an entry under `findings` in `PROJECT.json`:

1. a failed stage is not recorded as FAILED if collecting its logs fails too;
2. with two slices of a UE stopped, `start_slice` cannot succeed for either, on a host where nothing fails and nothing else
   happens;
3. of two policy actions at once on flows of one UE, one can lose its rule or its
   allocation and still be verified;
4. a policy that changes the 5QI is put into force and then reported as failed, because the session
   tracker looks only until it has seen every session once.

More facts follow from the same models and have no run, because they contradict nothing the repository
says:

* a process killed between the append to `state.jsonl` and the overwrite leaves a line that never was the
  state (`HistoryIsAChain` holds only without kills);
* a stop that overlaps a reset puts the old generation back, for which `ResetIsNotUndone` needs the absence
  of overlap that `RunSerial` assumes;
* a reset keeps the slice phases of the run before it, since nothing initialises `slice-state.json` again;
* `delete_slice` removes stopped containers only and does not look: after a `start_slice` that failed
  half way the slice can be recorded as deleted, with a verified receipt, while its UPF runs;
* while a UPF is stopped no snapshot can be built; once the last one is too old, no action is accepted,
  the `start_slice` that would end this included (`AcceptedOnRecentEvidence`). An operator's resume starts the UPF, but leaves
  UEs that run alone, whose sessions are down: its pings may fail, which records FAILED. Only a reset makes UEs start anew;
* the periodic task ends at its first failed build, one that met a file the gateway was rewriting included;
* half a line in `snapshots.jsonl` hides every later snapshot from the gateway;
* two policy actions that write `flow-allocations.json` at once, or a crash between its truncation and its write, leave it
  unreadable for good, with the allocations of all flows lost;
* RUNNING does not mean that every UPF runs: `reconcile_initial` has just taken those of stopped and deleted slices down, which
  is what it is for. `RunningIsRecordedOnlyWhenUp` says so;
* the validator compares the names of containers with each other and not with the testbed's own services. A container named like a
  service of another fragment makes the rendering of an accepted scenario raise, after the run directory has been made. Within one fragment
  the later of the two silently replaces the earlier: a UPF named `free5gc-amf` replaces the AMF;
* the validator compares ids as keys of dictionaries, where duplicates are already gone: a file in which a UE is declared
  twice passes, and the first declaration, which no later check has seen, may make the renderers raise or be
  rendered as it is. `IdsDiffer` is therefore a premise of the properties of `Scenarios`, and `NamesFree` of the one about rendering;
* two slices with one S-NSSAI are accepted, and the grants of the second replace those of the first in the subscriber's
  document: the premise of `SessionsAreGranted`;
* a UE without flows is accepted, and its sidecar ends at once with an error: `EveryUeHasAFlow`, an assumption of
  `TrafficSidecar`, is met by the repository's scenarios and not ensured by the validator;
* an iperf3 or ping child that writes nothing more holds up the shutdown of the whole sidecar;
* an answer that reaches the socket in time can still be counted as lost if the thread is late, and one more
  answer to a datagram that was given up counts for nothing.

## 5. Proofs

`RunLifecycle_proofs` proves, for any set of operators, any bounds, with or without
overlap:

* `TypeCorrect`: `Spec => []TypeOK`;
* `CurrentAlwaysLogged`: `Spec => []CurrentIsLogged`;
* `HistoryAlwaysDerived`: `Spec => []HistoryIsDerived`;
* `AlwaysRenderedWhenBroughtUp`: `Spec => []BroughtUpOnlyWhenRendered`.

Neither `CurrentIsLogged` nor `HistoryIsDerived` is inductive: what will be written next is in `cmd[p].rec`.
`LogInv` strengthens them with what holds of it. A record that a
process is about to append is a created record or derives from one in the history;
a record it is about to write to `current-state.json` is in the history already, because the
append comes first; and a record read from `current-state.json` is in the history. So a
process may compute from a state that is long overwritten, but never from
one that was not recorded. The lemma per action shows that an action keeps `LogInv`, and that
appending keeps every earlier line and its origin.
`AlwaysRenderedWhenBroughtUp` rests on `LayoutInv`: whoever is past `render_run` or the check of the phase finds every artifact of the
run written, and a state file exists only in a rendered directory (`slice-state.json` is written after that); a render beside it can
only begin where there is none.

`RunSerial_proofs` proves, for any operators and bounds, under `~Overlapping`:

* `SerialInvariant`: `Spec => []SerialInv`;
* `RunningAlwaysMeansUp`: `Spec => []RunningIsRecordedOnlyWhenUp`;
* `StoppedAlwaysMeansDown`: `Spec => []StoppedMeansDown`;
* `FailureAlwaysRecorded`: `Spec => []FailureIsRecordedIfLogsAre`;
* `HistoryAlwaysAChain`: `Spec => []HistoryIsAChain`;
* `ResetIsNeverUndone`: `Spec => []ResetIsNotUndone`;
* `SerialRefinesRunPhases`: `Spec => ImplementsRunPhases`.

None of them is inductive: that the containers run when RUNNING is written is the work of ten earlier stages. `SerialInv`
has a clause for each thing a command has made by the step it is at. `Alone`: at most one process is at work. `Course`: how far
a process can be with which command, and what phase it can be writing. `BuiltUp`: the groups of
every stage that is behind it run, the UPFs excepted; these run from the first stage on, until `reconcile_initial` has found a slice that is not RUNNING,
and after that they do not. `Standing`: a stop that records has stopped everything; what a process is
about to append is one transition from the state file, and what it has appended is the last line, so that
`current-state.json` while it is torn stands for that line. This is the refinement: appending is no
step of `RunPhases` and truncating is one. The clauses under `faults = 0` (`Unharmed`) are what a kill between the
two writes destroys: the state file is the last line, each line comes from the one before it, and the last
line has the highest generation. TLC checked `SerialInv` under the constants of `RunSerial` before it was
proved. Overlap takes all of this away, and `RunConcurrent` checks only what is left.

`SliceCatalog_proofs` proves, for any slices, sessions and requests, any bounds, with
overlap, faults and crashes:

* `CatalogTypeCorrect`: `Spec => []TypeOK`;
* `OneSliceActionAtATime`: `Spec => []OneCatalogWriter`;
* `UnlockedCatalogAlwaysCurrent`: `Spec => []UnlockedCatalogIsCurrent`;
* `CatalogRefinesSlicePhases`: `Spec => ImplementsSlicePhases`.

The inductive invariant `CatalogInv` says that a request inside a slice action implies that the lock file exists
(the converse is false after a crash); that at most one is inside; that while the file is free, or
its holder has not begun to write, the catalog is whole and is the last line of the history; and that
the record being written is one legal move away from the last line before it is appended, and is the
last line after. A crash ends the request and leaves the lock, so the clause about the
free lock stays true vacuously: the proof rests on nothing ever removing a lock file but its holder.

`SliceRepair_proofs` proves, for any slices, sessions and requests and any bounds:

* `ActionsKeepTheirCourse`: `Spec => []CourseInv`, with any overlap;
* `BringUpAlwaysRestoresSlices`: `~Overlapping` implies `Spec => []ReconcileRestoresSlices`;
* `OnlyInactiveUpfsEverVanish`: `~Overlapping` implies `Spec => OnlyInactiveUpfsVanish`;
* `RunningSlicesAreAlwaysUp`: `~Overlapping` implies `Spec => []RunningSlicesAreUp`;
* `LocksAlwaysHaveHolders`: `~Overlapping` implies `Spec => []LocksHaveHolders`.

`CourseInv` says what the check of the phase is good for: as long as a lifecycle action
runs, its slice has the phase it required, the containers it has still to call are its slice's, and the
catalog it writes is its own move from the present one, since whoever could change that needs the lock.
`RepairInv` adds that the launcher works alone and how far it is: all UPFs run once the core is up, the phases it
listed are those of the catalog, and for each UPF the calls still to make (`Due`) say what state it is in. That no
two slices share a UPF is needed here, so that calls for one slice miss the others. The action property follows:
`delete_slice` removes containers of its own, stopped slice, `reconcile_initial` those of deleted ones.

`RunningSlicesAreUp` says nothing of a slice that an action is at work on, and so does not tell
whether an action can give up with half of the UPFs stopped. `UpInv` adds that it cannot where nothing fails or
dies: a `stop_slice` that has begun has its remaining UPFs running, finds the catalog whole and the phase unchanged, and so comes to its
last write; a `start_slice` has every UPF of its slice running before it writes; and no other request stops a
running container. A launcher that overlaps breaks each of these: it may start the UPFs a request stops, or
remove the UPF of a slice that was started after it listed the phases. No code excludes that; `~Overlapping` is a
premise, and what survives without it is in `SliceOverlap` and `SliceCatalog_proofs`. TLC checked `RepairInv` and
`UpInv` under the constants of `SliceRepair` before they were proved.

`LocksAlwaysHaveHolders` is the part of `LocksAreReleased` that is an invariant: while nothing has died, each lock file
is that of a request being served. That the request ends is liveness, and TLC's.

`PolicyActions_proofs` proves, for any flows, UEs, policies and requests and any bounds:

* `PolicyTypeCorrect`: `Spec => []TypeOK`, with any overlap;
* `SerialReceiptsAreTrue`: `~Overlapping` implies `Spec => ReceiptIsTrue`;
* `SerialRefinesFlowPolicies`: `~Overlapping` implies `Spec => ImplementsFlowPolicies`, with the loss of all allocations in a crash
  that comes between the truncation and the write, and in no other step.

That a request under way has its lock file is not inductive: releasing a lock could take it from
another request. `RequestsOK` adds that no two requests have the same flow. `SerialInv` adds, for the
one request that can be under way, the evidence it has gathered so far: the document it read
is still the document when it writes; after the read-back the rule is in force and stays so; after the
restart the session is down or has the new rule, and after the wait it has it; the allocations it read
are still those of the file until it truncates it, and then the file is empty until it writes it. In the refinement the truncation is no step
(`Known` is then the writer's copy, which nobody else can have changed), the write allocates, and a death in between is the abstract
crash that loses the allocations. `PolicyLost` shows that two of these fail when requests overlap.

`SnapshotBuilder_proofs` proves, for any containers, callers, windows, age limits and bounds:

* `SnapshotTypeCorrect`: `Spec => []TypeOK`, of which the part to prove is that at most one build is between
  taking the lock and releasing it;
* `SnapshotsAlwaysInOrder`: `Spec => []SnapshotsAreInOrder`;
* `SnapshotsAlwaysFound`: `Spec => FoundStaysFound`;
* `ActionsAcceptedOnRecentEvidence`: `Spec => AcceptedOnRecentEvidence`;
* `AnswersAlwaysFound`: `Spec => []AnswersCanBeFound`;
* `AnswersAlwaysShowTheEffect`: `Spec => AnswerShowsTheEffect`.

The order of the lines is not inductive: the next line is still in the build that holds the lock.
The invariant adds that no line and no build has read a file newer than the file is, and that what the build
under way has read is not older than any line; as only the lock's holder
appends, the last line stays the greatest. For the age of the evidence it adds that the window of a build that is
going to append, and of every line, held a sample of every UPF when it ended: samples only get newer, so an
action accepted on a line not older than `MaxAge` rests on samples not older than `Window + MaxAge`.
For the answers, `CompleteInv` adds that while no builder has died the last line is half written only while a build is at it,
so that the next one never lands behind half a line, and that a build at its insert has its line in the log. `EffectInv`
follows a request from its write to its answer: the file it wrote is not older than what it wrote, the build it asked for began
after it asked, and what that build has already read of the file is not older than what was written.

`TrafficSidecar_proofs` proves, for any finite set of flows, any UEs and any number of datagrams:

* `SidecarTypeCorrect`: `Spec => []TypeOK`;
* `PacketsAlwaysAccounted`: `Spec => []EveryPacketIsAccounted`;
* `PendingAlwaysExpires`: `Spec => []PendingWillExpire`;
* `FlagAlwaysMeansTraffic`: `Spec => []FlagMeansTraffic`;
* `ExitIsAlwaysClean`: `Spec => []CleanExit`.

The accounting is inductive only together with the facts that what is pending, or on its way, has been sent, and that
`pending` is finite (`FlowInv`); a late or second answer then meets a number that is not pending and is ignored. `SidecarInv` adds
who owns a child and that the UDP loop is open just while its thread runs. That the exit is clean rests on
`main` leaving its first wait only when every thread has finished or one has failed, and in the second case raising.

`ScenarioRendering_proofs` proves, for any files, any edits and any number of them:

* `RenderingTypeCorrect`: `Spec => []TypeOK`;
* `AcceptedAlwaysRenders`: `Spec => []AcceptedScenariosRender`;
* `SlicesAlwaysHaveTheirUpfs`: `Spec => []SlicesHaveTheirUpfs`;
* `FlowsAlwaysReachTheirServices`: `Spec => []FlowsReachTheirServices`;
* `SessionsAreAlwaysGranted`: `Spec => []SessionsAreGranted`;
* `AddressesAreAlwaysUnambiguous`: `Spec => []AddressesAreUnambiguous`.

`RenderingInv` says how far each outcome has come: what has passed the validator is accepted, and what raised failed a lookup of the topology or
of the renderers, or a merge of the compose fragments. Fragments merge because the owners of accepted containers have different names
(`OwnersNamesApart`) and, by the premise `NamesFree`, none of the testbed's own. The rest is one lemma per lookup: in a list with distinct ids the
first item with an id is the last one, so the dictionaries and the lists agree. `SlicesHaveTheirUpfs` is what `SliceCatalog`
assumes of its constants.
For `SessionsAreGranted` the entry of the subscriber's document that survives is found: with distinct S-NSSAIs no later
slice replaces it, and the UPF that the SMF's configuration offers to it is the one the bindings name. For
`AddressesAreUnambiguous` the interfaces of the topology are listed kind by kind; the proof needs that every address and
CIDR is one that parses (`AddressesParse`, which the schema's `IPv4Text` and `CIDRText` demand), since the validator compares
the values.

Assumptions on constants are those named in the modules: the workers are not operators, the lock
names differ, the switches are Boolean and the bounds natural, what `validate_scenario` checks of
sessions, that there are flows, that every flow has a UE and every policy a 5QI, that the periodic task is no caller, that the flows are finitely many with known protocols, at most one of them UDP in a
sidecar, and that every UE has one.

Every invariant and every action property that a passing run checks is now stated by a theorem. Only model-checked are the
liveness properties, which TLAPS does not cover: `BringUpSettles`, `LocksAreReleased`, `EveryPacketIsResolved` and
`StopEndsTheSidecar`.

## 6. Plan

In this order; what is done is in sections 2 to 5.

1. **Run lifecycle** (done, its serial theorems and the refinement of `RunPhases` included).
2. **Slice catalog** (done, containers and locks included).
3. **Policy actions** (done).
4. **Snapshot builder** (done). What is left of it: its composition with the slice phases, to say how long a slice may be stopped and still be started.
5. **Traffic sidecars** (done: `UdpFlow`, `TrafficSidecar`).
6. **Scenario validation and rendering** (done: `ScenarioValidation`, `ScenarioRendering`).
7. **Readiness evidence and sessions**: logs that outlive their process, to state when a wait shows something, and when a
   gNB's log lines, which carry session ids only, may be put down to a UE.

## 7. Not modelled

The text of rendered configuration, log and metric parsing, dashboards, the host checks and
network setup (read-only or idempotent commands), the read-only adapters of free5GC and OAI, image
building and scripts. Of the traffic sidecars: what ping, iperf3 and HTTP count (gauges set from one line of output), the
main loop of the application server, the link emulator (a few `tc` and `iptables` commands), and `controller.py` and
`flow_registry.py`, which nothing in the testbed calls. Of the rendering: the AMF's, gNBs' and Prometheus' files, which copy fields, and the addresses Docker
gives to containers that declare none. Of resource actions: the values of the limits, on which neither the run state nor
the slices' phases depend. `artifacts/patch-backups/` is an old copy of some of the code. Authentication
is a table lookup without state.
