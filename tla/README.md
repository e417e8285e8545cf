# A formal model of the Gauntlet runtime

These TLA+ modules model the runtime of this repository: the Python tools under
`tools/` that keep a frozen evaluation inside its budget, store evidence, decide
whether a research task may be released, watch a session, and keep what is known about
the person who works with them. TLC checks the modules on small instances;
TLAPS proves the central results for every instance.

The tools are short-lived processes (hooks that a host starts for each tool call or
turn, and commands a person runs) that share files. Almost nothing is kept in memory
between two calls, so the questions worth asking are about files: who reads and writes
them in which order, under which lock, and what is left when a process dies or gives up.

## 1. The system

| Component | State it keeps | Operations | What makes it correct |
|---|---|---|---|
| Task guard, `foil_task_guard.py` | `<state>` (budget ledger with a hash-chained event list), `<state>.tmp`, `<state>.lock`, `<state>.sessions.json` | `start`, `guarded_operation` (reserve, run the caller's block, commit), `close`, `attest` | budgets hold for any number of processes; each reservation is settled once, with the right outcome; `attest` accepts whatever is saved |
| Tool broker, `foil_tool_broker.py` | none of its own; the ledger, and the environment | `handle` one PreToolUse payload | fails closed; what the host runs has been paid for; decisions are journalled; it always answers |
| Evidence store, `egrt_store.py`, `private_io.py`, `egrt_types.py` | `tasks/`, `receipts/`, `seq_counter.json`, `active_task`, `events.jsonl`, named states | `write_task`, `write_receipt`, `receipts_for`, `append_event`, `file_lock` | files are whole; receipts have one order, consistent with real time |
| Research orchestrator, `soul_runtime.py` | task files | `start_task`, `add_obligation`, `release_gate`, `release_task` | a task is released only on current evidence for each of its obligations |
| Evidence review panel, `council_runtime.py` | named state `council/<id>` | `commit`, `reveal`, `record_cross_critique`, `record_control`, `finalize` | a CLEARED review was blind, complete, bound to its commitments and controlled |
| Adversarial review, `blackgem_runtime.py` | named state, raw artifact | `create_strike`, `probe_canary`, `run_strike`, `finalize` | never clears; the receipt describes the run whose transcript is stored |
| Turn-boundary monitor, `gauntlet_boundary.py` | `gauntlet_boundary.json` | `evaluate` one turn, reset | one incident does not block twice within its refractory turns |
| Authority monitor and hooks, `gauntlet_monitor.py`, `gauntlet_hook.py` | `gauntlet_monitor.json` | `snapshot`, `check`, hook modes | a write that is not asked about meets a state that a snapshot saw |
| Event log and its monitors, `gauntlet_runtime.py`, `egrt_runtime.py`, `egrt_hook.py` | `events/`, receipts | `append_event`, `run_monitor`, `emit_probe`, hook events | an audit that clears agrees with the receipts; an issue is taken back only on evidence |
| FOIL profile, estimator and calibration, `foil_profile.py`, `foil_evidence.py`, `foil_assessment.py`, `foil_calibration.py`, `foil_layer2.py` | profile files, pointer to the active one | init, observe, declare, migrate, bootstrap, apply a screen, plan and record a probe | claims rest on checked, own work, fresh when classified (the facet lines and later prompts do not keep this: section 3); a write that nothing overlaps loses nothing; plans can be recorded |
| Intervention ledger, `foil_interventions.py` | one ledger file, one temporary file | new, gap, intervention, outcome, status | a later verified loss supersedes an earlier pass; the file stays whole |
| FOIL bridge, `foil_runtime_bridge.py`, `foil_hook.py` | receipts of ADAPTATION obligations | a prompt, its routing, the probes | an obligation is cleared by the last prompt of its task or by nobody |
| Authority and policy, `foil_authority.py`, `foil_policy.py` | none (pure decisions over a moving environment) | `decide_authority`, `decide_admission`, `RuntimePolicyV2.decide` | what is committed was checked as it is; the person changes one complement only |
| Receipt producers: `mind`, `power`, `space`, `time`, `reality`, `meditate`, `verify_ledger` | receipts | compute one verdict, file one receipt | the verdict follows from the input |

How they interact. The broker calls the task guard, in the same process, for each
budgeted tool; several broker processes and an operator share one ledger. Every
producer of evidence files receipts through the store; the panel and the adversarial
review do so too. The Stop hook calls the gate of the task that the `active_task`
pointer names. There is no message passing and no callback across processes: all
interaction is through files, under advisory locks that only some of the code takes.

What is hard here: load-modify-save sequences of several processes; the lock that is
given up between the reservation and the commit; a kill between the temporary file and
the rename; the lock's five-second deadline; equal time stamps, and events that are filed
late; a check whose result is used after the files may have changed; a `start` over a run
in progress; lists that are cut while counters beside them are not; verdicts that become
input of the next verdict; calls that no phase check keeps from being repeated.
`PROJECT.json` lists these hazards, each at its line, with the properties that look for it.

## 2. Modules

| Module | Models | Notes |
|---|---|---|
| `BudgetPool` | what the ledger promises: a pool of units | abstract specification |
| `TaskGuard` | the ledger, its lock and its processes | the core |
| `TaskGuardPool` | `TaskGuard` with the mapping to `BudgetPool` | refinement |
| `TaskGuardRestart` | `TaskGuard` plus `start` over a live ledger | |
| `ToolBroker` | hook processes over `TaskGuard` | EXTENDS `TaskGuard`, refines it |
| `ReleaseGate` | evidence store and release gate | |
| `CouncilReview` | the review panel, and the gate's reading of its receipts | |
| `BlackGemStrike` | the adversarial review and its transcript | |
| `EventTrace` | the event log, `run_monitor` and the ten monitors | |
| `BoundaryMonitor`, `AuthorityWatch` | the two other components that watch a session | |
| `AdaptationBridge` | the bridge between prompts and ADAPTATION obligations | |
| `FoilEvidence`, `FoilProfile`, `FoilCalibration`, `FoilStore` | estimator; one profile; what the screens write into it; files, pointer and processes | each EXTENDS the one before |
| `InterventionLedger` | the ledger of gaps, interventions and outcomes | |
| `FoilPolicy`, `FoilAuthority` | decisions over a task, and over a candidate, that move on | |
| `Absence` | `None`, the value of what is not there | shared constant |
| `TaskGuardProofs`, `PoolProofs` | theorems about `TaskGuard`, and that it implements `BudgetPool` | proofs only |
| `BrokerProofs` | that `ToolBroker` implements `TaskGuard`, and what hooks may rely on | proofs only |
| `GateProofs`, `CouncilProofs` | theorems about `ReleaseGate` and `CouncilReview` | proofs only |
| `StrikeProofs` | theorems about `BlackGemStrike` | proofs only |
| `SessionProofs` | theorems about `EventTrace`, `BoundaryMonitor`, `AuthorityWatch` and `AdaptationBridge` | proofs only |
| `FoilProofs` | theorems about `InterventionLedger`, `FoilPolicy`, `FoilAuthority` and `FoilStore` | proofs only |
| `MC*` | instances for TLC | `MCReviews` (`ReleaseGate`, `CouncilReview`), `MCSessionHooks` (the three that watch a session, `BlackGemStrike`) and `MCFoil` follow one of several components (`focus`) |

### TaskGuard

One worker is one process, and `phase` and `step` say where it is. A `with
exclusive_state_lock(path)` block is `Acquire` (or `LockTimeout`), one mutating step on a
private copy `buf`, `WriteTemp`, `Replace` and `Unlock`. The mutating steps are the
bodies of the code: `Reserve`, `RefuseBinding` and `RefuseBudget` are `authorize` with its
checks in their order, `Commit` is `_commit`, `CloseRun` and `RefuseClose` are `close`,
`Journal` is the broker's `_record`. Load and mutate are one step because both only read
the file, and only the holder of the lock renames over it. The caller's block is
`Perform` (the operation happens, or does not) and `LeaveBody` (it raises, or does not).
`Crash` may strike at every step: the kernel drops the `flock` and a torn temporary file may
stay.

Abstractions. A digest is the pair of run and position, so that two events of two runs
differ and the link check of `attest` is a comparison of tips. A request is an
operation, whether its binding (task, condition, prompt digest) is that of the run, and
`spend_on_error`. Time stamps and notes are left out. `BLOCKED_BUDGET` is appended to the
copy and never saved, as in the code.

### ToolBroker

`Hooks` are workers; each handles one payload. `env` is the environment the session was started
with: no run, a broken configuration, or a run whose binding is this one's or another's.
`HandleBudgeted`, the ledger's own steps, `ChargeEnds` and `Decide` are the charged path;
`Unreadable`, `Nameless`, `Misconfigured`, `NotBrokered` and `HandleWrite` are the others. `tool`
is what the payload names and `asked` what the host runs after an allow: they differ where the
payload could not be read, or is an object without a `tool_name`, which the code allows even
inside a run (`Nameless`). The remaining workers are operators that close the run. `RunTool` is
the host, which runs a tool once its hook allowed it. That the block inside `guarded_operation` is
`pass` shows in `EmptyBody`: it cannot raise.

### ReleaseGate

Each process (`Starters`, `Adders`, `Writers`, `Releasers`) makes one call: `start_task` (task
file, then pointer), `add_obligation` (under the task's lock), `write_receipt` (stamp, number
under the counter's lock, file) or `release_task` (gate, second read, write, compare the pointer,
unlink). The gate reads the task, then the receipts of one obligation after the other, as separate
steps. The wall clock stands still or advances between any two steps, so receipts may tie. A
`Claim` is the content of a receipt; the instance has good and bad news from the right module and
receipts the gate must not accept. `seen`, `acked` and `prior` are history variables.

### CouncilReview

Each call is `Load` (check and compute the new state, `Change`) and `Store`; `finalize` is
`LoadFinalize`, `Store` and `FileReceipt`; `filed` are its receipts. A commitment stands for its
SHA-256 by being the submission itself. `overlaps` counts calls that began while another was in
progress. Only some properties survive an overlap, and each says so: `ClearedIsEarned` holds
whatever calls overlap; the protocol order (`CommitsAreBlind`, `RevealsAreBound`, `ClosedIsFinal`)
holds until two calls overlap, since the runtime takes no lock.

### BlackGemStrike

`Probe` and `Run` load the strike and talk to the models; `Save` writes the copy back, and
`StashRead` and `StashWrite` put the replies into the transcript, a second file. `Finalize`,
`Cite`, `Close` and `FileVerdict` are the steps of `finalize`, and `RunnerDies` may come between
any two. No step asks for a phase: a closed strike may be probed and run again, as in the code. A
reply is silence, an answer or an echo of the planted directive; who is asked for a
cross-critique, who synthesises and what `_participation` counts follow the code
(`Participation`). `Solid` says what a reader of the transcript would call a solid run, without
the code's counts, and `TrustIsEarned` compares the two. `truth` numbers the calls and keeps what
the replies to each were.

### EventTrace

The log is a sequence in the order `iter_events` reads it. A writer takes the time of an
event (`Stamp`) and files it later (`AppendEvent`), so an event can land before ones that were
written earlier; equal times land in either order. `RunMonitor` judges the log as it is,
`StoreVerdict` stores the receipt afterwards, and its announcement is an `obligation.state`
event that the next audit reads. A writer may die between any two steps (`WriterDies`).
`blurred` remembers equal instants, writers that overlapped, and deaths. A behaviour watches
one operation, and the log holds only event types that its monitor reads.

### BoundaryMonitor, AuthorityWatch, AdaptationBridge

`BoundaryMonitor`: an evaluation loads the state, may wait for the judge, and saves; `mixed`
counts overlaps. A message is its fingerprint and what the patterns find. `ActionLoop` is the
code's rule order.

`AuthorityWatch`: a snapshot or a check asks git for the head, which may fail or time out
(`None`), and then reads the governing files one per step (`BuildFile`) while `world`
changes; a check has read the stored snapshot before that. `shots` keeps what snapshots
stored.

`AdaptationBridge`: a prompt reads the active task (`SubmitPrompt`), then its obligations
(`ReadObligations`), then writes one receipt after the other (`RecordAdaptation`), and
returns; a routing is `RouteRedteam` and `RecordRouting`, and `Snapshot` files what never
clears. The task runtime moves on in between. `crossed` remembers calls that overlapped,
and calls that died.

### FoilEvidence to FoilStore

`FoilEvidence` weighs observations by tier and age; the two tails of the Beta posterior are
constant relations `Strong` and `Weak`, of which the modules assume only that both cannot hold.
`FoilProfile` has the operations on one profile: the cap on observations beside counters that are
never cut, the stored classification, the migration from v1. `FoilCalibration` adds what the
screens write. `FoilStore` runs them as commands that load, change a copy and save it under no
lock; `lossy` remembers that a copy was written over another's write. A profile file starts new,
or as one of v1, whose events and rows are no later than the clock's first tick and whose probe
numbers fit their counts, as they do where no write was lost before. Of the sources of an
observation the code tells the two screens from all others, for which `"usage"` stands. A prompt
prints domain lines (`DomainLines`) and facet lines (`FacetLines`); what is shown of the former
does not hold of the latter. A probe that is recorded comes from a plan, perhaps an old one: ids
typed by hand are left out, and one of them could be the next that a plan proposes, so
`PlanIsRecordable` is about planned ids.

### InterventionLedger

A save is `OpenTemp`, `WriteTemp` and `ReplaceBook` on one shared temporary file. `scribe[s].file`
says which file the handle of `s` writes to: after another process has renamed the
temporary file, that is the ledger itself. `overlapped` remembers two saves at once.

### FoilPolicy, FoilAuthority

`Decide` and `Action`, `Admission` are the pure decisions; the actions are the environment that asks
them again while it changes: uncertainties resolved, verifiers done, external actions used, an answer
that moves on under its certificate.

## 3. Runs

| Run | Instance | Shows |
|---|---|---|
| `taskguard_safety` | 3 workers, 1 call each, one operation with 1 unit, one that is not budgeted; crashes | type, budget, attestation, single settlement, no reservation after close, no lost update, that the ledger implements `BudgetPool`, that the lock becomes free whoever dies in it, and that a reservation is settled with the right outcome |
| `taskguard_restart` | 3 workers, 1 restart | counterexample: a restart breaks the budget |
| `toolbroker_safety` | 2 hooks, 1 operator, every environment and payload | executed tools that their payload named stay within the budget; a denied call committed nothing; each unsettled unit is that of one hook; every hook answers; the broker uses the ledger as `TaskGuard` says |
| `toolbroker_journal` | the same | counterexample: an allow without a journal row |
| `toolbroker_payload` | the same | counterexample: a payload without a tool name lets a budgeted tool run uncharged |
| `reviews_safety` | gate: 2 tasks, 2 obligations (one load-bearing), 1 starter, 2 adders, 2 writers, 1 releaser, clock 0..1, at most 2 calls in progress; panel: 3 seats, 2 submissions, 2 callers, 1 overlap, 2 receipts | releases are justified; receipts have one order, and one that was on disk before comes before; additions survive; the pointer is not stale; the panel's guarantees |
| `releasegate_lost` | the gate of it | counterexample: `release_task` drops an obligation |
| `council_control` | the panel of it | counterexample: a control receipt clears the REVIEW obligation |
| `session_safety` | 2 processes per component, up to 5 events or receipts, 2 governing files; reviews of 2 or 3 seats, 2 callers, 1 overlap, crashes, 2 probes or runs, 1 or 2 finalizations | audits agree with receipts and judge themselves; an issue is taken back on evidence only; blocks are spaced; silence is earned; trust is earned by the replies; the verdict is that of the run; a receipt cites the transcript of its own calls unless something was disturbed |
| `foil_safety` | 1 domain, 2 names, 2 clients, 2 scribes, 3 parties, 2 sessions | domain claims are earned; nothing is lost alone; plans can be recorded; statuses rest on own work; the ledger is whole without overlap; the profile complements and no more; what is committed was checked; prompts clear what they asked for |
| `foil_facets` | the same, a history of 5 and two seeds | counterexample: screens alone make a facet a strength |
| `foil_stale` | the same as `foil_safety` | counterexample: a claim is printed when all its evidence is stale |

The seven counterexamples are behaviours of the code that contradict a sentence of the
repository; `PROJECT.json` quotes each sentence under `findings`. Three of them bound what the
passing runs may say. `NamedCallsWithinBudget` counts calls whose payload names the tool, since
`ExecutedWithinBudget`, which counts all, is false. `DomainClaimsAreEarned` is about domain lines
and about the time a row was last classified, since the facet lines take the counters that layer-2
screens raise for real work (`FacetClaimsAreOwnWork` is false), and the class is not computed again
when a prompt prints it (`ClaimsAreFresh` is false).

**Bounds.** A single unit makes every admission a contest for the last slot, and three workers are
enough for one to hold, one to refund and one to be admitted in between. With one call per worker
a process stands for a fresh one, which is what hooks are: further calls are further workers. The
broker needs two ledger calls per hook, one to charge and one to journal. The gate needs two
writers to tie or reorder receipts and two adders to lose an obligation; two calls in progress at
a time cover each pairwise interleaving, and the third process runs before or after them. In the
panel the minimum of three seats, two submissions (one to commit, one to cheat with) and one
overlap give each pair of calls that can race. `Adders`, `Writers`, `Seats`, `Submissions` and
`Callers` are symmetric in the safety runs (in `reviews_safety` one set of model values stands for
adders and callers, one for writers and submissions, since a behaviour has only one kind of them);
runs with liveness use no symmetry. In `taskguard_safety` the workers begin in a fixed order
instead, each when the one before it has left its first wait for the lock: they differ in name
only, and beginning a call changes nothing that others read. A process that dies outside a call is
one that makes no further call.

`reviews_safety`, `session_safety` and `foil_safety` put together components that share no
modelled state. A behaviour follows one of them (`focus`) and the others stand still, so their
states add up instead of multiplying; interleaving them would only show products of the same
states.

In `session_safety` (7.4 million states) five writes are what an audit, its receipt, the
announcement and an answer take (`MaxWrites`: 5 for `audit`, 3 for `explain` and `costume`, 4 for
the others). The boundary has four turns, `Refractory` 1 and a ledger of 2 entries, the
least that `BoundaryAssumption` allows (the code has 64 entries for a window of 3).
The watch has two governing files, two contents each, two changes and three hooks: enough for
a file to change between two reads, for two snapshots to overtake each other, and for a check
that began before a snapshot to end after it.

In `foil_safety` (1.1 million states) the store is followed twice: over time (`MaxClock` 3, one
process that observes, `MaxCommands` 5) and without time (two processes that do everything, two
commands). An observation's weight halves per tick in units of 1/40, so the half-lives of the
code are whole numbers here, and `Least` is 160 and `Horizon` 2 in these units; `Strong` and
`Weak` are straight lines that agree with the Beta tails of the code for up to five
observations. `Kept` is 4 (40 in the code) and `HistoryCap` 2 (300), so that both caps are
met. The intervention ledger has two scribes and three entries, the authority three parties and
two proposals over two versions of the answer, the bridge two calls and two receipts.

**Deadlock.** The configurations turn the check off, since every process makes a bounded
number of calls and then stops; `HookAnswers` and `LockIsFreed` look for real blocking.

**Fairness.** Weak fairness of a waiting process's `Acquire \/ LockTimeout`: the loop in
`exclusive_state_lock` retries every 10 ms until it gets the lock or its deadline passes,
so it ends one way or the other. Weak fairness of what runs under the lock: straight-line
code. No fairness of `Perform` or `LeaveBody` in `TaskGuard`: a caller's block may run for
ever. In `ToolBroker` the block is empty, so it is fair there; a hook that has started is
assumed to be scheduled, and nobody is assumed to start one. Strong fairness of the lock
is nowhere assumed: a process may lose every race, and then times out.

## 4. Proofs

Eight modules hold the theorems; `PROJECT.json` lists them with what each establishes. All are
for any set of processes and any values of the constants that the named assumptions allow.

| Theorem | Module | Says |
|---|---|---|
| `Invariant`, `TypeCorrect` | `TaskGuardProofs` | `Spec => []IInv`, `[]TypeOK` |
| `BudgetSafe` | | `Spec => []BudgetNeverExceeded` |
| `BlocksAreReserved` | | `Spec => []RunsUnderReservation` |
| `SettlesOnce` | | `Spec => []SettledOnce` |
| `ClosedAdmitsNone` | | `Spec => []NoReservationAfterClose` |
| `SavesExtend` | | `Spec => ChainGrowsByOne` |
| `AttestedFile` | | `Spec => []FileAttests` |
| `RefinesPool` | `PoolProofs` | `Nat \subseteq Tickets => (Spec => ImplementsPool)` |
| `BrokerRefines` | `BrokerProofs` | `BSpec => ImplementsTaskGuard` |
| `BrokerInvariant` | | `BSpec => []BInv` |
| `AdmittedHolds` | | `BSpec => []AdmittedHoldsItsUnit` |
| `NamedBounded` | | `BSpec => []NamedCallsWithinBudget` |
| `DeniedUncommitted` | | `BSpec => []DeniedIsNotCommitted` |
| `UnsettledExplained` | | `BSpec => []UnsettledIsExplained` |
| `OrderInvariant`, `ReceiptsOrdered` | `GateProofs` | `Spec => []OrderInv`, `[]ReceiptsAreOrdered` |
| `ReleaseJustified` | | `Spec => []ReleaseIsJustified` |
| `AdditionsKept` | | `Spec => []OnlyReleaseLosesObligations` |
| `PointerCurrent` | | `Spec => []PointerIsCurrent` |
| `ClearedEarned` | `CouncilProofs` | `CouncilSpec => []ClearedIsEarned` |
| `RevealsBound`, `CommitsBlind`, `ClosedFinal` | | `CouncilSpec => []RevealsAreBound`, `[]CommitsAreBlind`, `ClosedIsFinal` |
| `StrikeInvariant`, `TrustEarned` | `StrikeProofs` | `StrikeSpec => []StrikeInv`, `[]TrustIsEarned` |
| `VerdictFollows`, `ReceiptCurrent` | | `StrikeSpec => []VerdictFollowsRun`, `[]ReceiptIsCurrent` |
| `TraceInvariant`, `AuditMatches`, `AuditOwnVerdicts` | `SessionProofs` | `[]TraceInv`, `[]ClearedAuditMatchesReceipts`, `[]AuditJudgesItself` |
| `IssueRemedied` | | `TraceSpec => IssueNeedsRemedy` |
| `BoundaryInvariant`, `BlocksSpaced` | | `[]BoundaryInv`, `[]BlocksAreSpaced` |
| `WatchInvariant`, `SilenceEarned` | | `[]WatchInv`, `[]SilenceIsEarned` |
| `AdaptInvariant`, `ClearedByLast` | | `[]AdaptInv`, `[]ClearedByTheLastPrompt` |
| `WholeWhileAlone`, `ClaimsRest` | `FoilProofs` | `[]GarbledNeedsOverlap`, `[]ClaimRestsOnOwnWork` |
| `PolicyIgnoresPerson`, `CommitIsCurrent` | | `[]ProfileOnlyComplements`, `[]CommittableIsCurrent` |
| `StoreInvariant`, `DomainClaimsEarned`, `PlanRecordable` | | `StoreSpec => []StoreInv`, `[]DomainClaimsAreEarned`, `[]PlanIsRecordable` |
| `NothingLost` | | `StoreSpec => NothingLostAlone` |

Assumptions: `ConstantsAssumption` of `TaskGuard`, `BrokerAssumption` of `ToolBroker`,
`StoreAssumption` of `ReleaseGate` (where `"seq"`, the name of the counter's lock, is no task id),
`CouncilAssumption`, `StrikeAssumption` and `NoneAssumption` of `BlackGemStrike` (a strike is not the
value that stands for its absence), `TraceAssumption`, `BoundaryAssumption`, `WatchAssumption` and
`BridgeAssumption` of the four components of `SessionProofs`, `LedgerAssumption` of
`InterventionLedger`, and `EvidenceAssumption` of `FoilEvidence` with `StoreAssumption` of `FoilStore`:
an observation weighs at most what it weighed when fresh, no kind of probe is called `layer2`, no
domain is called as a step of a command is, a file there before the start is new or of v1 with
probe numbers within their counts (or a full history), and what is not there is no profile and no row.
`RefinesPool` also takes the
tickets of the pool to include every position of the chain, of which the runs only need the
first few. The arguments, module by module:

**`TaskGuardProofs`, `PoolProofs`.**

- None of the safety properties is inductive. `BudgetNeverExceeded` counts reservations in
  the event list while `authorize` looks at the counter, so the invariant has to say that
  the two are equal, and that a commit refunds only a reservation that is held.
- `Sound` collects what is true of one ledger: the counter of an operation is the number of its
  held reservations and at most its budget, outcomes fit the reservations they name, and nothing
  is reserved after a close. It is about data only; the first part of `TaskGuardProofs` shows that
  `Reserve`, `Commit`, `CloseRun` and `Journal` keep it, and the rest never looks inside again.
- `IInv` relates processes and files: only the lock's holder is inside (`Mutex`), a live
  reservation is in the file and unsettled (`LiveHeld`), two workers have two reservations
  (`LiveDistinct`), and the holder's copy is a sound ledger that extends the file by one
  event (`CopySound`, `CopyReserves`), keeps the others' reservations (`CopyHolds`), and
  is what the temporary file holds (`TempIsCopy`).
- Each action has a lemma. The rename makes the copy the file, and everything needed of
  it there was said of the copy before.
- `FileAttests` compares each counter with what the chain replays to, and the replay is a recursive
  function over the positions of the chain. That appending an event changes the replay by that event's
  charge (`UsedAfter`) is an induction over those positions. It is carried out as a search for
  the least position where two replays of one chain differ (`ReplayUnique`, `ReplayExists`). `GiveBack`
  stops at zero where the replay does, so a refund keeps the two together also there. `AttestInv` then
  says the same of the file and of the copy about to replace it.
- For the refinement the invariant gets one more part, `CopyMoves`: the copy is one move of the
  pool, or a journal row, ahead of the file. The rename is then that move, and every other
  step a stutter.

**`BrokerProofs`.** `BrokerRefines` needs only that the environment keeps its type; it carries
every theorem about the ledger over to the broker. The broker's own properties need more
than the ledger knows: `BInv` is `IInv` with `Control` (where a hook's charge can be, given
where its worker is) and `Money`. `Money` says that no unit was ever refunded, since the block is
empty and `spend_on_error` is set; that a worker's copy holds the next event of that worker and
no other (`CopyIsNext`); that the reservations of paid hooks are in the file, distinct and open
or spent as their outcome says (`PaidBooked`, `PaidDistinct`, `LeftOpen`, `CommitSettles`); and that
any open one belongs to a hook (`Explained`). `NamedCallsWithinBudget` then follows by an injection from
executed calls into the reservations that count against the budget.

**`GateProofs`.** `OrderInv` (`Typed`, `Holders`, `Drawn`, `Distinct`, `Earlier`) says which lock
is held from which step to which, that drawn numbers are within the counter and no two are equal,
and that what preceded a receipt when it was stamped has been stored. `GateInv` says that what a
gate has judged so far is justified by receipts that are still there. `ObligationInv` says of each
task that it was rewritten by a release, or that its file and every copy about to be written back
hold what callers were told is added. `PointerInv` says that a task which is named anywhere has
been started, that a task being started is new and nobody else's (`Begun`), and that a pointed-to
task that is released, or about to be written back as released, has a releaser on the way to
unlink it.

**`CouncilProofs`.** `EarnedInv` holds whichever calls overlap, since it speaks of the state a
verdict was computed from and not of what the file became. `SerialInv` holds while `overlaps`
is 0: the one copy in progress is the file with one change.

**`StrikeProofs`.** A receipt is written from a strike that some process read some time ago, and
the strike from replies that are gone. So each strike carries the numbers of the probe and the run
it counts, and `AllTrue` says of every strike, in the file or in a process's memory, and of every
receipt, that it says of those calls what their replies were (`CanaryIsTrue`, `RunIsTrue`,
`TrustJustified`, `VerdictJustified`). It holds whatever calls overlap or die, and `RunIsRecorded`
connects the counts of `_participation` with what the replies were. `Undisturbed` holds until two
calls overlap or one dies: every strike that matters counts the last probe and the last run
(`Counts`), and the transcript is theirs (`Whole`).

**`SessionProofs`.** Each of its four components has its own invariant.

- `TraceInv`: the types always. Until the log is blurred, one writer at a time has an event that
  is later than those of the log (`Sequential`). For the audit, what the log says of an
  obligation, or a writer is about to say, is the verdict of its last receipt (`Linked`), and an
  audit that objected has its own receipt to answer (`Judged`). `IssueNeedsRemedy` needs the types
  only: a late event that lands in the middle of the log moves the positions behind it (`Moved`),
  and the monitors are compared on the two logs.
- `BoundaryInv`: while evaluations follow one another, incidents are of different past turns, so
  at most one is filed per turn and the cut of the ledger forgets only those that are too old to
  matter (`Remembers`, `Rested`).
- `WatchInv`: what a check compares with is a snapshot that was stored, as one piece.
- `AdaptInv`: a prompt writes only about obligations of its task (`Owned`). Until calls cross,
  what a prompt cleared is what the last one asked for, or the one being written has still to
  overwrite it (`Answers`).

**`FoilProofs`.** `FileInv` (`Typed`, `Opened`, `Alone`) says that until two saves of the
intervention ledger overlap one process saves, its handle is on the temporary file, and that
file's content follows its steps. A status is a computation over the outcomes in the book, whoever
wrote them and in whatever order. `SignalOnlyComplements` compares `Decide` with and without a
signal, for every task and signal, so no invariant of the loop is needed. For the authority,
`ChecksTyped` says that a check is absent or has a status of the code, and the conditions of
`Admission` give the rest (`CommitRests`). The profile files take the largest part of the module:

- The properties of `FoilStore` are about a file and a copy a command made of an earlier file,
  perhaps long ago, in an operation that may be a whole report. `Grown(p, now, careful)` is what
  any operation may make of a profile `p`: a profile whose rows are sound (`RowsAt`: each tier is
  the one `Tier` gives, each stored claim is `Earned`), which continues `p`, and which, if
  `careful`, keeps probe numbers within counts (`Keeps`). Every operation stays in it
  (`ObserveGrown`, `RecordGrown`, `AssessmentGrown`, `LayerTwoGrown` and the rest); for the two
  that replay a report this is an induction over its items (`Iterates`, `StaysIn`).
- A claim is earned because the estimator's sum over the real work is at most its number times
  the weight of a fresh one (`EffectiveBound`), by another induction over observations.
- That `q` continues `p` allows for the cap, which cuts the oldest observations: what is left of `p` is
  a prefix of `q`, and `q` is full (`Remains`). One more observation keeps that (`ObsContinue`).
- A v1 file is migrated anew by every reader, each at its own time, and only the classification
  depends on it. `SameHistory` says so, and `LoadedGrown` makes the two readings interchangeable.
- `StoreInv` then says: a copy that is neither fresh nor stale is in `Grown` of its file
  (`CopiesFit`), and without a lost write the numbers of recorded and of planned probes fit the
  counts of the file (`NumbersFit`). A save makes all other copies of that file stale, so the
  rename needs nothing else.

`IInv`, `BInv`, `PointerInv` and `StoreInv` were checked with TLC, on small instances of their modules,
before or beside their proofs.

**Model-checked only.** The liveness properties, which are beyond the prover. The recursive functions
(the sum of weights, a report applied item by item, the replay of a chain) are no obstacle: their
recursion is over the positions of a sequence, and an induction there is a search for the least
position where the claim fails (`LeastIn`).

## 5. What is not modelled

- `_claim_isolation_session` (`start` of a run that names its isolation session). A model of
  it would need the directory of sidecar files, read one by one, and starts that each write
  one; two starts with one session id that both scan first both succeed, and no sentence of the
  repository says what should follow.
- The lock-file variant of `file_lock` and `exclusive_state_lock` for systems without `fcntl`.
- Text: domain inference, patterns, fingerprints and their similarity, prompts, messages,
  `Brier` terms, goals and preferences. Where a decision depends on them, the model chooses freely
  among the outcomes.
- Statistics on one input: the sequential test and the design helpers of `foil_evidence.py`,
  item generation and scoring in `foil_assessment.py`, the tails of the Beta posterior (two constant
  relations), and the tool policy and capability tables of `foil_policy.py`.
- Other receipt producers: each computes a verdict from one input and files one receipt,
  and the receipt is modelled. Configuration loading, provider adapters, network callers, benchmark
  and research scripts, prose.
- Corruption by others than these programs: an edited ledger, a deleted file.

Some behaviour of the code is in the models as it is, or known from reading, with no property, since
the repository states nothing it would contradict, or the model does not tell it apart:

- Any exception of a guarded block refunds its unit, also one raised after the operation
  had its effect (`foil_task_guard.py:541`); `BLOCKED_BUDGET` is never saved (`:495`); `attest` does
  not look at fields outside the chain (`:145`).
- A receipt's time is taken before its number, so a slow writer files an old verdict late
  (`egrt_store.py:137`). The clock of the model never steps back; where it does, a later receipt is
  listed first.
- `release_task` compares the pointer and then unlinks it: a `start_task` in between loses its new
  pointer (`soul_runtime.py:157`). `PointerIsCurrent` is about the other direction only.
- The panel's `finalize` stores CLOSED and files the receipt afterwards: a process that dies in
  between leaves a closed review without a receipt (`council_runtime.py:313`).
- The key of a growing loop contains the count, so each further round is a new incident
  (`gauntlet_boundary.py:169`).
- The receipt of a routing may name another task than the active one (`foil_runtime_bridge.py:299`).
- Files without a lock lose one of two overlapping changes: the profile, the review, the turn
  counter of the boundary monitor, the strike. The models have these losses, and the properties of
  those components are stated until calls overlap, or exempt the write that was overlapped; the
  hazards in `PROJECT.json` say which. A governing file that changes after a check has read it is
  overwritten unseen (`gauntlet_monitor.py:93`).
- A history of probes at its cap makes plans propose ids it refuses (`foil_calibration.py:216`); a
  missing pointer makes a prompt overwrite the default profile (`foil_profile.py:365`).
- An assessment report applied twice counts twice (`foil_assessment.py:549`).

## 6. What is left

1. Concurrent starts over one run directory (`_claim_isolation_session`), as described above.
2. A composition of the bridge with the release gate: both are checked against the receipts'
   order, each with its own model of the other.
