# Verification of the aftersales ticket gate

TLA+ models, TLC checks and TLAPS proofs for the service in `src/`: a FastAPI
and LangGraph program that turns a station's fault report into a work order
draft, stops for the station chief where rules demand it, and files a ticket at
a destination (`data/outbox` or the mock inbox of the knowledge source).

Run `tlc -config <cfg> <module>` for the runs of `PROJECT.json`, and
`tlapm <module>` for the eight modules whose name ends in `_proofs`.

## The system

| part | code | state it keeps | operations | hard behaviour |
|---|---|---|---|---|
| gate rules | `policy/gates.py`, `policy/hitl_layers.py`, `policy/role_graph.py` | none | eligibility, pending layers, role matrix | three functions that must agree on every layer |
| quality check | `quality/rules.py` | none | `run_quality_checks` | hard and soft reasons depend on conflicts |
| supervisor, workers | `graph/nodes.py`, `graph/state.py` | one `CopilotState` per run | seven nodes | failing workers, pass limit, partial results |
| engines | `graph/runner.py`, `graph/builder.py` | LangGraph checkpoints | run, pause, resume, fall back | exceptions at any node, recursion limit, restart from an older copy |
| HTTP service | `main.py`, `api/schemas.py` | none of its own | create, decide, cancel, repair, playbooks | request threads without a claim on the run |
| stores | `tracing/store.py` | `runs.db`, traces | save, load, expire, audit, repair | several stores, no transaction; crashes; mutual recursion of saving and expiring |
| destinations | `tools/submit_destination.py` | `data/outbox`, the inbox | submit | replay, a file cut by a crash, delivery before a timeout |
| circuit breaker | `tools/circuit_breaker.py`, used by `tools/rag_client.py` | one circuit per source | allow, success, failure | late outcomes, half-open |
| client factory, live guards | `tools/rag_factory.py`, `main.py` | reachability cache | probe, build, guard | unlocked cache, probes that end out of order, a source that goes away between two guards |
| parts | `tools/parts_ledger.py`, `domain/parts_master.py`, `domain/parts_catalog.py` | two shared caches, the ledger file | pre-check, reload, edit | reset under a reader, a file edited or half written during a check, a WMS that fails |
| certificate | `policy/decision_certificate.py` | none | build, validate | phase |
| intent, ticket, station | `domain/*.py` | profile cache | text rules | none that interleaves |
| configuration | `config.py` | settings | modes, startup checks | none that interleaves |
| playbooks | `playbooks` | none | run, validate | a validation runs the graph without saving the run |
| evidence | `app/eval`, most of `scripts` | the files of `data/eval` | build, verify, score, drill | scripts of a dozen requests while source and service come and go; killed halfway; files of other scripts read as they lie |
| user interface | `ui`, `branding.py` | none | a client of the service | none |

How they interact: a request handler runs in a thread of the pool. `create_run`
calls the engine, which calls the nodes, which call the knowledge source
through the breaker; every node's result is written as a checkpoint; at the end
the run is saved as a row of `runs.db` and, if it has ended, its checkpoint is
cleared. `decide_hitl` reads the row, checks it, and resumes the checkpoint.
Saving a row looks for overdue waits and fails them. The startup audits both
stores and repairs what does not fit. The parts node reads two module-wide
caches of the ledger file that all threads share; the client factory keeps one
verdict on the source for all threads. The evidence scripts call the service
and the source over HTTP and read each other's files.

What makes each part correct:

* gate: no ticket without a complete approval or a chief's own clean request;
  what the chief is asked is exactly what blocks; an approval is honoured; a
  rejection leaves no ticket; a decision is never lost or replaced;
* engines: every run comes to rest, a failing worker is not called without end,
  falling back loses no decision and leaves no row without its ticket;
* stores: the row tells the truth about the ticket, a run that waits can be
  resumed, a closed run stays closed, a startup leaves a workable state, every
  request ends;
* breaker: failures are bounded, and the source is let back in;
* client factory: the cached verdict is recent, a run that must be live is asked
  of the source only;
* parts: a cache never passes an old file for the current one, a clean verdict
  has stock behind it, a listed part is found;
* evidence: no file claims what was not seen, whatever happened on the way.

## The modules

**GatePolicy** - the rules as operators on a run's record: `CanSubmit`,
`CanCreateDraft` (role matrix), `FactLayers` and `ComputePendingLayers`
(`compute_pending_layers`), `Blocked` (`evaluate_submit_eligible`), `NeedHitl`
and `AutoSubmitAfterGates` (`_evaluate_hitl_gates`), `RunQualityChecks`. Texts,
policy tags and part numbers are gone; a field is kept only as the truth value
a rule asks for. `ledger_degraded`, `unknown_parts` and `model_mismatch` are
asked for together by every rule and are one value, `unverified`. Three
functions test the same facts, each in its own words; where the tests coincide
they share an operator (`WeatherRaised`, `VagueDispatch`, `SlaRaised`), elsewhere
each is translated by itself.

**GateRun** (extends GatePolicy) - one run. `s` is the `CopilotState`; an action
is one node call, and the supervisor's early returns are actions whose guards
exclude each other in the order of the code. `node` is where the engine goes
next, `steps` counts node calls of one LangGraph invocation, `base` is the state
the engine was handed and goes back to when it raises, `saved` the row,
`tickets` what reached the destination. `AfterWorker` is the edge every worker
has back to the supervisor (or the stop of the fallback engine). Branches no
reachable state takes (spinning, a supervisor called while the run waits, a
submission already made) are kept as disjuncts of actions that do occur.
`Pauses` and `ChiefDecides` are the interrupt and the resumption, with the
check of the ticked layers of `decide_hitl`; where the engine is lenient the
checkpoint may be missing, and the fallback engine takes the decision on (what a
strict one does then is `ChecksCheckpoint` of RunStore). `EngineRaises` is any
exception: strict, the run fails as it was handed over; otherwise the fallback
engine starts from there. `SubmitFailed` is the refusal of the gate and an
exception of the destination. After `work_order_submit` is set (`nodes.py:1022`)
`submit_node` only formats what the state holds (the summary, the certificate,
the trace; the feedback has an `except` of its own): an exception there, which
would leave a failed run that names its ticket, is not modelled, as no state of
the program was found that raises it.

**RunStore** - the service around the runs. A handler is a stack of tasks
(`todo`); a task is the code between two accesses to a store, and calling
`save_run_snapshot`, `_persist`, `repair_persistence` or
`expire_stale_hitl_waits` pushes their tasks, so the recursion of saving and
expiring is there as it is. `row`, `checkpoint` and `outbox` are the three
stores. Inside a run only the accesses to stores are left (GateRun has the
rest): a new run asks, files, or ends; a decided run files or ends. Filing is
three tasks: is there a file, open (and so empty) it, fill it; a file is
`"cut"` in between, and one that a crash left so makes every replay raise.
`ValidatePlaybook` starts the same graph with `keep` off (`persist=False`): its
checkpoint never gets a row. `Crashes` drops every stack and leaves the stores;
the startup handler audits and repairs before requests are served. The engine
is the strict one, the default. What a resumed graph does with a decision
depends on where its checkpoint stands: at the chief's node the decision is
taken in, elsewhere LangGraph goes on from the checkpoint and ignores it, and
without one it raises. Loading the checkpoint and writing the next are two
tasks, for two requests may resume the same one.

**RunLifecycle** - what callers may rely on: a run waits at most once, closes
once, has at most one ticket, filed while it is open; a rejected run has none;
only cancelling touches a closed run. RunStore implements it with the statuses
of the rows for `status` and the outbox for `filed` (`ImplementsLifecycle`).

**CircuitBreaker** - one circuit, called by overlapping callers: the lock makes
each `circuit_*` call atomic, between being let through and recording the
outcome a call holds nothing. `attempts[c]` are the tries a call has left, so
the retry loop of `rag_client._request` is here too. Time is the flag `cooled`.

**KnowledgeSource** (extends CircuitBreaker) - how the service reaches the
source. `job[c]` is the request a thread is in: creating a run, deciding on one,
asking `/health`, reading the inbox; its `pc` names the code that asks next
(`_guard_live_linkage`, `build_rag_client`, `_guard_live_client`, the trace, then
the questions, the submission, the feedback). `cache` is the verdict of
`is_rag_reachable` with the age of its stamp; a probe is a call through the
breaker and its result is stored in a step of its own, so that probes overlap
and end out of order. Time is `Tick`; an age counts to `Ttl` and stops.
`run[r].asked` and `.ticket` say which client served the run. `lastUp` and
`lastTrouble` are histories the properties need.

**PartsDesk** - the parts pre-check of overlapping runs. `book` is the history of
the ledger file, a version an index of it; `cat` and `master` are the caches of
`parts_catalog` and `parts_master`, each with the version its data is of and the
version its stamp is of, which may differ. `th[t]` is the pre-check of thread
`t`: which of the four places that normalise hints it is in (`stage`), which
index it wants, what it has read. A step is the code between two points where
CPython 3.11, the version of the Dockerfile, may switch threads (calls and
backward jumps); globals assigned one after the other without a call are one
value. `WmsAnswers` is `HttpPartsLedger` with its fallback on the local file,
`Edit` somebody saving the file, also half of it.

**EvidencePack** - the files of `data/eval` (`disk`) and the scripts around them.
`job` is the script that talks to the source (`rag`) and the service (`cop`), one
request a step, each of which may also be answered with other than 200;
`RunsPartsAB`, `RunsAclMatrix`, `RunsGateEval`, `RunsDrill`, the scorecard and
`RunsSnapshot` need no answer and run in a second terminal in the middle of it. A
commit is known by what the in-process evaluations find right in it (`Works`). A
write may be cut (`Torn`) with the end of its script.

The scorecard takes two steps, as `build_scorecard` does: `ScoresReports`
evaluates the metrics (lines 395-408), `WritesScorecard` has git say the commit,
takes the mtimes (413-417) and writes. `newer` stands for the mtimes it compares;
a checkout makes every file younger than the scorecard in it. Three things those
mtimes do not tell, and `missed` is the history of them: a report written between
the two steps, one written twice within the half second of line 450, and one
deleted (`Deletes`; line 448 passes over it). `scorecard_is_stale` calls such a
card current, and the code promises no more than to compare mtimes; so
`ScorecardIsCurrent` speaks of the time without one of the three. The metrics read
their files in one step, and a write that falls between the mtimes and the end of
the card's own writing counts as missed, though the code would notice it.

`run_joint_verify` has its options: `--offline-only`, `--pack`,
`--skip-allowlist` (`checked` is FALSE, and the report shows that the allowlist
was not looked at) and `--rag-base` (`other`: the health and the contract are
asked of a source the model knows nothing of, while the strict check and the pack
ask the one on :8001, which is hard-coded in them). What the sibling repository's
allowlist script finds, where it is there, is part of `AllowlistFits`. The model's
`rag` and `cop` are the pair a script is pointed at; that `run_l1_linkage` may be
pointed at another pair changes nothing in it. `witness` is a history: what the
last pack and the last L1 report really saw.

**MCGateRun**, **MCKnowledgeSource**, **MCPartsDesk**, **MCEvidencePack** - small
worlds for the runs.

**GateRun_proofs**, **GateRunTickets_proofs**, **RunStore_proofs**,
**RunStoreClosed_proofs**, **RunStoreAlone_proofs**, **KnowledgeSource_proofs**,
**PartsDesk_proofs**, **EvidencePack_proofs** - the theorems. Each of the second
and third of GateRun and RunStore extends the one before it.

Operators marked "Mutant" in a comment belong to no specification: each is a
plausible mistake in the definition below it, and with it in place TLC finds
the property named in `PROJECT.json` violated.

## The runs

| run | question | bounds | states |
|---|---|---|---|
| `gate_strict` | does the gate hold under LangGraph with an inbox that may take a ticket and fail? | 3 roles, 5 tickets, 6 answers, 3 stock results, 6 sets of ticks, pass limits 5 and 8, recursion limit 25, 1 exception; one request with pass limit 20 | 304,000 |
| `gate_fallback` | and when the fallback engine takes over, out of a resumption too? | the same, recursion limit 13, lenient | 268,000 |
| `store_crash` | do the stores stay consistent through crashes, faults, overdue waits, repairs, validations? | 2 runs, 4 requests one at a time, 2 crashes, 2 overdue waits, 1 exception | 650,000 |
| `store_threads` | what survives two requests at once? | 2 runs, 2 threads, 4 requests, 1 overdue wait | 1,120,000 |
| `parts` | do caches, verdicts and lookups survive resets, reloads and edits under a reader? | 2 threads, 2 pre-checks, 1 edit among 3 contents, 3 requests, 4 answers of the WMS | 3,270,000 |
| `source` | is the verdict recent, a live run asked of the source only, the failure count bounded, the source let back in? | 2 callers, 1 run, ttl 1, threshold 2, 1 retry, 4 settings | 920,000 |
| `evidence` | do the files claim only what was seen? | 2 scripts, 4 commits, 3 sources, the files of the repository to begin with | 3,200,000 |

The bounds: a pass limit of 5 ends a dispatch before, 8 after its shortest way
to the ticket, so both sides of the limit occur; 13 node calls end an invocation
in mid-run, 25 (LangGraph's default, which `build_langgraph` does not change)
leaves it to the pass limit, except for the request with the largest
`max_iterations` the API takes, 20 (`schemas.py:38`), which runs into it. Two
runs suffice for a save that expires another run, and two overdue ones for its
recursion; two threads for every race of two reads and two writes; four requests
create two runs and decide or repair both. Two crashes let one hit the startup's
own repair. `store_threads` has neither crashes nor exceptions: with them
`NoPhantomTicket` fails when two handlers resume the same run and the second,
writing the file over, is cut (see `FilesComeFirst` below for what holds then).
Two pre-checks and one edit give every order of stat, read, store, reset and
edit of two threads; a third thread could only repeat what the second does to
the first. In `source` a ttl of one tick has both sides of the comparison, a
threshold of two and one retry the breaker opening within a call and between two
calls; two callers are a probe and its rival. The settings are those of
`.env.demo`, of a developer, of both, and offline. Two scripts are one that
talks and one in the second terminal, or one after the other, over the files
that come with the repository, all green and claimed live, so that what is there
may be stale in every way; any the scorecard is made of may be deleted, and any
that a script writes may be cut. The commits: one that is right, one whose gate
lets a degraded run through, one whose `.env.demo` does not demand live, and one
whose allowlist does not fit the ledger, so that each part of
`LiveClaimIsBacked` has a commit that fails it. The sources: the contract stub
and the real one with and without its token.

Five more properties are what a comment, a document or a test says and the code
does not do; their runs end in a counterexample:

* `filed_not_failed`: submission is not the last node; the pass after it may
  exceed the limit and fail a run whose ticket is filed;
* `reject_race`: an approval and a rejection at the same time both pass the
  status check and both resume; the row says rejected, the ticket is filed;
* `repair_race`: a repair between the checkpoint and the row of a new run clears
  the checkpoint, and the run waits for a decision it cannot take in;
* `no_body`: the WMS answers without a body, the code makes `{}` of it, and the
  parts pass as checked by the WMS;
* `live_fixture`: the client of a decision is not guarded; with the fallback on
  and the source gone, the ticket of a run that must be live goes to the
  fixture, which makes up a `ticket_id`.

Met while modelling, without a run of their own: the cycle detection never sees
a failing worker (`nodes.py:765` sets `next_action` to `end`; the pass limit ends
the run, `RetriesBounded`); a ticket nobody decided on is sent with phase
`resolved`; after its cooldown the breaker lets everybody through, not one
probe; `synergy_checks.py:1` wants no portfolio claim when a required check
fails, but `apply_synergy_to_claimability` only withdraws the claim of a pack
that is `live_verified`, and for L1 `enforce_pack_tier_rules` sets it back to
`l1_verified`, the offline A/B forgotten; the required checks take the files of
other scripts whatever commit or source they are of, and a strict check that was
skipped falls back on an old contract report; a contract check whose health
request is not answered with 200 leaves the previous report in place; `/health`
repeats the `live_verified` of the pack on disk also while it is linked to the
stub.

`RejectedIsNotFiled` and `WaitingIsResumable` hold with one request at a time,
crashes included (`store_crash`), and fail with two: the code relies on
requests that do not overlap, which a pool of threads does not provide.

`CHECK_DEADLOCK FALSE` stands where the system may stop: a run that has ended,
or a service that gets no more requests within its bounds.

## Fairness

`GateRun!FairSpec`: the engine's loop calls the next node (`Step`), and an
invocation at its recursion limit raises (`LimitRaises`). No fairness for the
chief, and none for other exceptions. `RunStore!FairSpec`: a handler that has
work goes on (a running thread), so does the startup; no request need come, no
crash need happen. `KnowledgeSource!SourceFairSpec`: a request goes on, for each
call has a timeout; time passes; and callers keep asking, which is the premise
of letting anyone back in (`Recovers`) and not something the code could promise.
PartsDesk and EvidencePack state no liveness: their loops end by their shape.

## The proofs

`GateRun_proofs` proves for all requests, answers, settings, limits and numbers
of exceptions, from `SettingsAssumption`, `RequestAssumption` and
`WorldAssumption` alone:

* `TypesAreKept`: `Spec => []TypeOK`, one lemma per kind of action;
* `DecisionsAreKept`: `Spec => DecisionStands`. The step to look at is
  `EngineRaises`, which goes back to `base`: `base` must hold the same decision.
  The invariant is `DecisionKept`;
* `NoTicketBeforeTheGate`: `Spec => []GatedTickets`. A ticket is sent from a
  state `EvaluateSubmitEligible` holds of, but that alone does not give the
  gate, for a forced confirmation (`force_hitl`) has no blocker of its own
  layer. `GateInv` adds that the quality report is coherent with the facts it
  was made from (`Coherent`) until the parts are known, so that a forced
  confirmation has a layer behind it;
* `TheQuestionSuffices`: `Spec => []AskIsEnough`. While the run pauses, the
  layers shown are the ones its facts raise (`AskInv`), so approving them lifts
  every blocker;
* `RetriesAreBounded`: `Spec => []RetriesBounded`, since a dispatch in a row
  costs a pass each (`RetryInv`).

`GateRunTickets_proofs` goes on from there, with three more parts of one
invariant (`RunInv`, `HonourInv`):

* `RowsAreBacked`: `Spec => []NoPhantomTicket`. `TicketInv` ties the run's memory
  of its ticket, the row's and the destination's together; after an exception
  the memory is gone (`base` is restored) while the ticket is still there;
* `NoTicketAgainstTheChief`: `Spec => []ChiefsNoHolds`. `RefusalInv` says that
  while the chief is asked nothing has been sent, which needs the gate: a run
  that had sent something was one the gate let go, and those are never asked;
* `ApprovalsAreHonoured`: `Spec => []ApprovalIsHonoured`. `HonourInv`: when the
  chief is asked no worker is missing, so that after the approval the supervisor
  has nowhere to go but to the submission, and by `AskIsEnough` the submission is
  not blocked.

`RunStore_proofs`, for any number of runs, threads, requests, crashes and
exceptions: `StoresAreSafe` (`Spec => []StoreInv`) and from it
`StoresHaveTheirType`, `OnlyApprovedRunsAreFiled` (`Spec => []FiledIsApproved`)
and `FilesComeFirst`: no row names a ticket whose file was not begun. The
invariant is about the tasks on the stacks (`SafeTasks`): what is on its way to
the outbox is approved, and what a task remembers as filed has a file; a
checkpoint in the middle of a run must be approved too, for a later request may
go on from it. `CutFilesAreInHand` (`CutInv`) adds that as long as nothing has
crashed or raised, a cut file is one a handler is at; both give
`TicketsSurviveRivals`: with no crashes and no exceptions, which is what
`store_threads` runs, `Spec => []NoPhantomTicket` for any number of threads.

`RunStoreClosed_proofs`: `ClosedRunsStayClosed` (`Spec => NeverWaitsAgain`), again
for any number of threads, crashes and exceptions. What could bring a closed run
back is a save of a state that still waits; `ClosedInv`
(`GraphsOfClosedRunsAreDone`) says that only a graph whose run has no row yet
holds one, that a run without a row is in the hands of the one handler which
drew its id, and that nothing below the top of any stack is of that kind.

`RunStoreAlone_proofs` is about a handler that works alone.
`StartupLeavesNoOrphans` (`Spec => HealthyStart`) needs no hypothesis, for the
startup serves nobody before it has ended, and rests on `StartupInv`: an audit is
still on the stack, or for every orphan and every hopeless wait there is a task
that mends it, and no clear comes before the save that ends its wait
(`Ordered`). With `OneThread`, that is, one request at a time, and any number of
runs, requests, crashes, exceptions and overdue waits, `OneAtATime` proves
`[]AloneInv`: the stack of whoever works either tends to the stores (`Tended`) or
leads one run (`Led`), whose row, checkpoint and file are then known for each of
its tasks (`Leads`), and what the stores say of every run fits together (`Fits`).
From it follow `RejectedRunsAreNotFiled`, `WaitsAreResumable`, `TicketsAreWhole`
and the refinement `RunsLiveAsPromised` (`Spec => ImplementsLifecycle`), step by
step: a save closes an open run, lets a new one wait, cancels one with a row or
says again that it failed; a file opened is the first of an open run; all else
is a stutter. `OneThread` is not something the code sees to: with two threads
the first two are false, and `reject_race` and `repair_race` show how.

`KnowledgeSource_proofs`, for any number of callers and runs, any settings, ttl,
threshold and retries: `SourceIsSafe` (`SourceSpec => []SourceInv`) and from it
`SourceHasItsType`, `FailuresAreBounded`, `VerdictsAreRecent` and
`LiveRunsAskTheSource`. `SourceInv` needs, for the verdict, that a request in the
middle of a probe is as old as its reading of the clock (`RecentJob`), and for
live runs, that no request between the second guard and its last question holds
the fixture (`RightJob`); the breaker's bound needs that an open breaker which has not cooled
lets no new call through.

`PartsDesk_proofs`, for any number of threads, pre-checks and edits, any contents
of the ledger and answers of the WMS: `DeskIsSound` (`Spec => []DeskInv`) and from
it `DeskHasItsType`, `CachesFollowTheFile`, `CleanPartsAreInStock`,
`ListedPartsAreFound` and `ResetsRaiseNothing`. `CachesAreCurrent` needs that a
stamp is never younger than the data it stands for, in the caches and in what a
thread has yet to store there (`Timely`); the verdicts need that what a pre-check
has read is of a version from after its start, that no hint gets lost on the
way through the four places that normalise them (`Covered`), that none appears
from nowhere (`Sourced`), and that what it kept as resolved or unknown was so in
some version of its own time. `HintsAssumption` says of the requests only that
they bring sequences of hints about `Parts`.

`EvidencePack_proofs`, for any commits, sources, checkouts and number of scripts:
`EvidenceIsSound` (`Spec => []EvidenceInv`) and from it `EvidenceHasItsType`,
`EvidenceIsEarned`, `SnapshotsClaimNothing`, `ScorecardsAreCurrent` and
`LiveClaimsAreBacked`. `EvidenceInv` says of the script at work what it knows at
each of its requests: the tier of the pack it builds is the one of the source
that is still there (`PackIsSound`, for a source is not exchanged while a script
works), a ticket in the inbox is its own (`LoopIsSound`), a green matrix has
seen, on :8001, the token gate (the strict check does, wherever `--rag-base` led
the others), V3 hold and, if it was asked to look, the allowlist fit
(`MatrixIsSound`). `ScorecardIsCurrent` alone is not inductive: a checkout may go
away and come back, so `CardIsSound` speaks of the commit the scorecard names and
not of the one at hand; and the card is made in two steps, so `ScoreIsSound` says
that the verdict of one in the making is that of the files as they lie, unless
one of them was written since.
`SourcesAssumption`: the contract stub says of itself that it is L1
(`rag_contract_stub.py:90`). `DisksAssumption`: the files that come with a
checkout are works of these scripts, that is, a snapshot among them claims
nothing, a live claim in the matrix had its backing as its report shows it, and a
scorecard came after some report.

The inductive invariants were checked by TLC on the small worlds before they
were proved. So every invariant and safety property of the passing runs is a
theorem, four of RunStore under a hypothesis: `NoPhantomTicket` with one thread or
without crashes and exceptions, `RejectedIsNotFiled`, `WaitingIsResumable` and
the refinement with one thread, as in the runs that check them. Model-checked
only: liveness (`Rests`, `RequestsAreAnswered`, `Recovers`), which is out of the
prover's reach.

## Assumed of what is outside

LangGraph: a checkpoint after every node, in order; `get_state` returns the
latest; a crash loses at most the node in progress; `Command(resume)` as above.
SQLite: a statement is atomic. The file system: opening a file for writing
empties it, and its text is there once it is closed. CPython switches threads
between bytecodes only where 3.11 does. The source: it answers, or it does not;
what it answers is an input.

## Not modelled

Texts: intent rules, ticket extraction, station profile, prompts, traces,
views, certificates beyond their phase. Reading endpoints. The UI, a client of
the service, and branding. Keys: a run starts with the role its key resolved
to. `reset_all_persistence`, and the fallback of the checkpoints to memory. Of
the scripts: the standalone profile of the scorecard, `demo_preflight`,
`live_function_test` (whose report is only read), `live_integration_manual`,
comparison and replay reports, the intent evaluation, the feedback round trip,
the tests of the UI and of the documents: each prints or writes a report nothing
modelled here reads. Two scripts that both talk to the service at once. Startup
checks of the settings, and the connection pool.

## Plan

Done: GatePolicy, GateRun, RunStore with the lifecycle it implements,
CircuitBreaker under KnowledgeSource, PartsDesk and EvidencePack, each with its
safety properties proved. Next:

1. lemmas on GatePolicy alone: that the rules which decide on a ticket and the
   rules which ask the chief agree on every record, not only on reachable ones;
2. what of the lifecycle survives several threads: a refinement of a weaker
   RunLifecycle, without the promise on rejected runs, for any number of them;
3. `EvidencePack`: two scripts that talk at the same time, and the standalone
   profile of the scorecard;
4. `IntentRules` as a decision table against a reference definition, and the
   startup checks of `config.py`.
