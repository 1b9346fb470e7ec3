# Kentaurai: a TLA+ model of the import, settlement, analysis and cleanup core

Kentaurai is a Cloudflare Worker that collects official trotting data and X-Labs
telemetry, keeps every original in R2 and the facts in D1, and supports the analysis
of V85/V86 rounds. Almost all of its work is done by *bounded steps*: an invocation
of the worker reads a job row, takes a lease, does one unit of work in several
separate D1 and R2 writes, stores a checkpoint and ends. Invocations may overlap
(cron, operator, retries), may be killed between any two writes, and may outlive
their lease. The model is about exactly that, and about the pure computations whose
answers the analyses rest on.

Paths below are relative to the repository; the implementation is in `src/src`.

## 1. Inventory

| Component | State | Operations | Interaction | What makes it correct |
|---|---|---|---|---|
| Official historical and daily backfill (`import/official-historical-backfill.js`) | a row of `historical_backfill_jobs`: date and race checkpoint, error count, lease; archived sources; normalization and gap rows | create, step, batch, resume | started by the cron and by HTTP; its facts are the prerequisite of X-Labs | a checkpoint never passes an unhandled race |
| X-Labs backfill (`import/xlabs-backfill.js`) | a row of `xlabs_backfill_jobs`, telemetry rows, gaps, derived intervals | ensure daily job, step, batch, resume, restart | waits for the official import of the date; queued by settlement and by the cron | history stays behind the official import; an uncovered day is reopened |
| Post-race settlement (`post-race-settlement-v1.js`, `game-final-result-v1.js`) | `post_race_settlement_jobs`, `game_round_final_results`, markets | ensure jobs, step, batch | captures races itself, queues X-Labs | a final result is earned, and stays |
| Live game normalization (`import/official-live-scheduled.js`, `-sequential.js`, `-chunked.js`) | `official_live_normalization_state`, observations per start, the mark `normalized_*` of a source | automatic step, operator's step, finalize | works on the newest capture of a game | cursors and marks claim only whole starts |
| Official snapshots and their cleanup (`import/official-snapshots.js`, `storage-cleanup-*.js`, `migrations/0057`, `0067`) | snapshots, observations, dataset revision, audit runs and pages, sessions, batches | promote a source; start, step, settle an audit; bind it; checkpoint; execute | SQL triggers on every import table advance the revision | a batch changes no as-of answer; only a clean, current audit authorizes it |
| Historical provenance recovery (`storage-historical-*.js`) | recovery runs, receipts, pages, epoch | start, inventory, back up, restore a page, audit | reads R2, writes provenance rows | the counters, the receipts and the rows agree |
| Sealed analysis v3 (`analysis-pack-v3*`, `analysis-step1-lock-v1`, `-revision-v1`, `analysis-market-pack-v3`, `analysis-step2-integration-v1`) | `analysis_step1_locks` and their revisions, `analysis_v3_runs` | export a pack, seal a lock, import a revision, export a market pack, import a Step 2 result | reads what normalization stores; an AI outside the program answers between export and import | a lock knows every fact known when it was sealed |
| External analysis flow (`external-analysis-flow-v1.js`) | audited exports, registered runs | export Step 1 and Step 2, import a system | the default workflow; reads the market rows | provenance and timing of a registration |
| Post-race review and learning evidence (`post-race-review-v2.js`, `external-analysis-evidence-v1.js`) | reviews, their links to learning evidence | review a run leg by leg, link misses | reads registrations and results | no hindsight; one teacher per round, as long as its start stays |
| Statistics data backfill (`statistics-data-backfill-v1.js`) | a row per round: audit, retry controls, lease, next check | queue, step | repairs the closing market, replays Horse Form | what is decided stands; nothing is given up that can be repaired |
| X-Labs derivations (`xlabs-intervals-v2.js`, `xlabs-position-reconstruction-v1.js`, `xlabs-trip-classification-v1.js`) | position jobs, derived rows | derive a capture, create and step a job | reads the telemetry of the backfill | a completed job covered its range; paces agree |
| Decision probability and optimizer (`analysis-decision-probability-v1`, `analysis-optimizer-v1`) | none beyond fingerprinted rows | decide, search | called by the Step 2 import and by replays | the best system is played |
| Replay calibration (`replay-calibration-v1.js`) | none beyond stored runs | fold, score, replay | reads locks, decisions, results | a fold is tested on what came after it |
| Features and priors (`relevant-history-v1.js`, `performance-features-v3.js`, `race-priors-v1.js`, ...) | none | compute what is known at a cutoff | feed the packs | nothing after the cutoff counts |
| Statistics queries (`statistics/*.js`, `entity-detail-*.js`) | none | rank, summarize | read only | pages agree with rankings |
| Morning orchestrator (`index.js`, `handleScheduled`) | none of its own | seven parts in sequence behind the automation switch and a cost stop; the backfills get a few bounded batches for the jobs of the last three dates | calls all of the above | a date gets its share of the morning whatever the others do |

The remaining components (HTTP API and worker entry points, settings, live capture, contracts and prompts, analysis exchange v2, routes,
web application, authentication, reference import, track enrichment, track and proposition arithmetic) are listed in
`PROJECT.json` with the reason why they are not modelled.

Behaviour that is hard to test, and where the properties are aimed:

* the job row is read before the lease is acquired and used after it; position jobs and reviews have no lease at all;
* a lease is four or five minutes long and nothing stops an invocation that is slower;
* facts, membership, marks and checkpoint are separate writes, and a kill may fall between any two of them;
* the same column (`lease_until`) carries the lease and the retry delay;
* lists (races of a date, starts of a game, captures of a range) are queried afresh by every step and indexed with a stored position;
* the caller of a job stops calling: a date leaves the window of the morning run, a batch that throws costs the job its morning;
* completed work is reopened or superseded (a late settlement, a newer capture, a second import);
* an audit walks over tables in pages while imports write to them, and its verdict is used later;
* packs are pulled, judged outside the program and posted back much later, while facts arrive and other clients seal, revise or resend;
* what is "known before" is decided by several clocks: capture, storage, race date, planned start.

The full list, with lines and the properties that cover each item, is `hazards` in `PROJECT.json`.

## 2. Modules

| Module | Models | Used by |
|---|---|---|
| `OfficialBackfill` | one job of the official backfill with overlapping invocations | runs `official_*` |
| `DayImport` | abstract specification: what a one-day import promises | refined by `OfficialBackfill` |
| `XlabsBackfill` | one X-Labs job in either scope, with the callers that queue and reopen it | runs `xlabs_*` |
| `MorningRuns` | who calls the backfills: the morning run with its window, its capped batches and its stops | run `morning_runs` |
| `Settlement` | the settlement jobs and overlapping batches | run `settlement_jobs` |
| `RoundClosing` | abstract specification: what the settlement of saved rounds promises | refined by `Settlement` |
| `LiveNormalize` | one game: captures, the automatic normalizer, the operator's route | run `live_round` |
| `SealedAnalysis` | one V85/V86 round: late facts, locks, revisions, market packs, Step 2 analyses | run `sealed_analysis` |
| `SnapshotStore` | one partition of snapshots: promotion and as-of reads | extended by `StorageCleanup` |
| `StorageCleanup` | audits, sessions and batches over a `SnapshotStore` | run `storage_cleanup` |
| `ProvenanceRecovery` | recovery runs with receipts, epoch and count audit | run `provenance_recovery` |
| `ExternalRuns` | exports and imports of the external analysis flow | extended by `PostRaceReview` |
| `PostRaceReview` | results, reviews and learning links over `ExternalRuns` | run `post_race_review` |
| `StatisticsBackfill` | the statistics step of one or more rounds | run `statistics_rounds` |
| `PositionJobs` | jobs that derive positions, without leases | run `calculations` |
| `Telemetry` | intervals, paces, checkpoints, episodes and places of one race | `Calculations` |
| `RelevantHistory`, `Features`, `Populations` | what is known at a cutoff, the features built from it, priors and evidence profiles with their shards | `Calculations` |
| `Statistics`, `EntityPages` | rankings; form indices, trend, pages of a horse, driver or trainer | `Calculations` |
| `DecisionOptimizer` | decision probabilities and the search for the best system | `ReplayCalibration`, `Calculations` |
| `ReplayCalibration` | folds, scores and replays | `Calculations` |
| `Calculations` | the promises of all pure modules, asked of small instances | run `calculations` |
| `MC*` (11) | instances for TLC: symmetry, small constants, constraints | the configurations |
| `OfficialBackfill_proofs`, `XlabsBackfill_proofs`, `Settlement_proofs`, `LiveNormalize_proofs`, `SealedAnalysis_proofs`, `StorageCleanup_proofs`, `Analyses_proofs`, `OperatorJobs_proofs` | inductive invariants and theorems | TLAPS |

### Conventions

Every table column that matters is a VARIABLE or a field of a row. An invocation is a process with a
program counter; its labels are the points between two writes (or between a read
and the write that uses it), so that every interleaving the Worker and D1 allow is a
behaviour. A single SQL statement, or one `DB.batch`, is atomic; a fenced `UPDATE ... WHERE lease_token = ?`
that changes no row is modelled as the error that the code throws for it. Local
variables keep what the invocation read, however stale it has become. An invocation
that ends forgets its locals.

`lease_until` is one of `"null"`, `"live"`, `"past"`: a clock step turns `"live"` into
`"past"`. While the holder is at work this is an overrun lease and counts as a *mishap*,
as does a killed invocation; `MaxMishaps` bounds their number. Payloads are reduced to the outcome they
have in the code (usable, permanently missing, malformed, failing), chosen by `\E` at each attempt.

Below the action definitions of some modules stand operators under the heading "plausible bugs": variants of an
action or helper that the properties have to notice (`mutants` in `PROJECT.json`). No specification uses them.

### Correspondence with the code
* `OfficialBackfill`. `status`, `next_date`, `next_race_index`, `consecutive_errors`,
  `lease_token` and `lease_until` are the columns of the job; `calendar` and `source` stand for the archived
  calendars and race records, `facts`, `observed` and `gaps` for what normalization has stored. `StartJob`
  and `ResumeJob` are `startHistoricalBackfill`; `LoadJob` to `CheckpointRace` are
  `runHistoricalBackfillStep` from its first read to the fenced write, one action per stretch
  between two writes, and `Throw`/`RecordError` its catch. A calendar of a past date does not change.
* `XlabsBackfill`. As above; `EnsureDaily` and `RestartDaily` are the two halves (read, write) of
  queueing a daily job, `CheckPrerequisite`, `DeferJob` and `CompleteExpired` the wait for the official
  side, which is an environment (`OfficialChanges`) that imports entries and may add eligible races.
* `MorningRuns`. A batch is one action that says how far a job came; what its steps do is in the two modules above. `BeginOfficial` and `BeginXlabs` queue the jobs of the
  window (`Window`), `OfficialTurn` is the `for` loop that hands out `OfficialRuns` batches among the jobs that still run, in which a batch that throws or finds the
  lease taken drops its job for the morning (`OfficialBatchBreaks`); each X-Labs job has one batch (`XlabsBatch`, `XlabsBatchBreaks`). `MorningLost` and `RunStops` are the
  automation switch, the cost stop, a kill or a run that does not come. `RoundsNormalized`, `RoundsChange` and `SettlementQueues` happen between the parts. `owed` is a history: the steps
  that the mornings that did not break a date's own batches promised it. What an operator invokes by hand only adds steps and is left out.
* `Settlement`. `EnsureJobs` and `SelectJob` are what a step does before it takes the lease, `ReadState` counts
  decided legs, `CaptureRace`, `NormalizeStart`, `FinalizeGame`, `RepairMarket`, `PersistFinal`, `QueueXlabs`
  are the writes in the order of the code. `Upsert` is what the import of one start does to its placing (`placing = excluded.placing`): the batch's own race
  goes start by start, and `OtherImport` writes or corrects any start at any time, so a dead heat may be half written and a winner taken away. `decided` and
  `peak` are histories that nothing reads. `Leaves` ends a step, and `MarkCompleted`, `MarkManualReview`,
  `ReleaseWaiting`, `ReleasePending`, `RecordError` its fenced outcomes.
* `LiveNormalize`. `CaptureScheduled` and `CaptureByHand` add a snapshot of the game; the automatic worker selects
  the newest one (`Select`), bootstraps its checkpoint from the audit log when it has no state row (`ReadCursor`),
  maps one start in two writes (`Observe`, `Fill`), stores the cursor (`StoreProgress`) and finalizes (`Finalize`, `StoreCompleted`);
  the operator's route (`Request`) does the same without the state row, behind the guard of `official-live-sequential.js`. `CaptureFinal` and `MarkFinal` are the post-race
  settlement, which captures a final source of its own and later marks it `normalized_verified_subset` without mapping a start (`post-race-settlement-v1.js:226`).
* `SealedAnalysis`. A fact is one normalized observation with the time it was made (`fetched_at` of its source)
  and the second in which it was stored. A pack is its `as_of`, the time requested and, per leg, the facts it rests on; this
  stands for its id and fingerprint, which hash all three (`analysis-pack-v3.js:256`, `762`). `ReplaySafe` is
  `assertAnalysisPackReplaySafe`, which compares current rows with old observations. A request is taken up
  (`started` is its `created_at`), rebuilds and compares packs in one or more steps, and writes in one:
  `PostLock`, `LookUpLock`, `PrepareLock`, `InsertLock` for a root; `PostRevision`, `BindParent`, `ComparePacks`,
  `CommitRevision` for a revision; `PostStep2`, `CompareFacts`, `CommitAnalysis` for a Step 2 result. A pack is read in
  one step, and the look-up of the revision's id just before the batch is part of the batch. A client keeps
  its payload after an answer, which covers lost answers and resent requests.
* `SnapshotStore`, `StorageCleanup`. A source is named by the time it was fetched, a row by the source that owns it; an
  observation points at the row it repeats. `Look`, `InsertRow`, `Observe`, `Verify`, `MarkSource` are the calls of
  `official-snapshots.js` in order; `Legacy` sources own a row each, as they did before observations existed. `StartAudit`, `PreparePage`,
  `ApplyPage`, `SettlePage` are `storage-cleanup-audit.js`: a page is read in one call, applied in another under a compare-and-set on the
  cursor, and settled after its cost is known; the cost budgets are a verdict chosen by `\E`. `StartSession`, `BindAudit`, `Checkpoint` are
  `storage-cleanup-session.js`, `Plan` and `ExecuteBatch` the read and the guarded batch of `storage-cleanup-executor.js`.
  Every write to an audited table moves `revision` on while a live audit rests on it, which is what the triggers of migrations 0057 and 0067 do.
* `ProvenanceRecovery`. A cell is a fact a source told in a family of tables, `direct` the cells with a row of their own. `Start`,
  `InventoryStep`, `Backup`, `Enter`, `Prepare`, `Restore`, `Finish`, `AuditStep` are the phases of `storage-historical-recovery-run.js`; a request
  loads the run, works on it, and may be cut (`CutOff`) between any two of them. `OtherWrite`, `OriginalChanges`, `Deploy` are what moves the epoch or
  the build under it.
* `ExternalRuns`, `PostRaceReview`. The clock counts hours. An export is audited with its hour and cutoff; an import begins
  (`BeginImport`), reads the previous run (`ReadPrevious`) and stores (`StoreRun`) within the hour in which it began. A review begins from what is due
  (`BeginExternal`, `BeginSealed`): the round's newest external run or, where there is none, the newest analysis sealed before the start known now (`SealedAt`), whose other
  times are checked again (`LineageSound`; if they fail, every request throws on that round). The sealed analyses are constants: one made after the results lies before no start.
  A review answers one leg per call (`ReviewLeg`, whose insert is ignored when the leg is there, and which then
  compares), and links (`LinkExternal`, `ObserveSealed`, `LinkSealed`). `StoreResults`, `CorrectResult`, `MoveStart` are the facts beneath it; `history` and
  `knownStarts` remember the outcomes and the starts a round had.
* `StatisticsBackfill`. Times in a row are ticks from now. `BeginNext` and `BeginNamed` choose and lease a round in one step, `FirstAudit`, `RepairMarket`,
  `AfterRepair`, `ReplayForm`, `AfterReplay` are the calls of the step, `Persist` and `FailAudit` its fenced ends. `Control` is the retry control shared
  by market and form.
* `PositionJobs`. `LoadJob` reads the row, `Choose` finds the next capture after the cursor that was read, `Derive` and `Store` write the batches,
  `Advance`, `Quarantine`, `Finish` and `Fail` write the row without a condition.
* The pure modules define one operator per function or query of the code, over a *book* of starts and observations or over the frames of a race; a mean or a
  rate is kept as its sample, so that two means are equal when their samples are. Probabilities are whole parts of `One`.

The exact lines of every definition are in `map` in `PROJECT.json`.

## 3. Runs

| Run | Question | Properties (all hold) |
|---|---|---|
| `official_day` | Two overlapping invocations, two races, errors, kills and overruns on a one-day job, which is what the schedule runs: may a race be passed unhandled, may a stranger move the checkpoint, does the job implement `DayImport`? | `PassedRacesHandled`, `CheckpointFenced`, `DayRefinement` |
| `official_range` | Can the limit on dates without races ever stop a job? | `EmptyDatesNeverStopJob` |
| `xlabs_job` | A daily and a two-date historical job: is a completed daily job with an uncovered race reopened, does history stay behind the official import? | `UncoveredReopens`, `NeverOutrunsOfficial` |
| `morning_runs` | Three mornings of the schedule with long and short days, breaking batches and lost mornings: does each morning that does not break a date's own batches bring it the steps of its share, whatever the other dates do? | `OfficialKeepsUp`, `XlabsKeepsUp` |
| `settlement_jobs` | Two overlapping batches on one round of two legs: is what is stored as final earned, do the jobs implement `RoundClosing`, was the count a batch writes a fact under its lease, although results are written start by start and corrected? | `FinalResultEarned`, `RoundRefinement`, `SettledNeverOverstated` |
| `live_round` | Two snapshots, an automatic worker and an operator: with final sources that the settlement captures and marks itself: do checkpoints and marks of the others ever claim an unmapped start, is the newest snapshot normalized in the end? | `CheckpointIsWhole`, `NormalizedIsWhole`, `NewestSettles` |
| `sealed_analysis` | Two overlapping clients, two late facts, a cutoff that is passed: does a lock or an analysis ever rest on less than the program knew, does a superseded lock become the newest again, is a revision refused without a later fact? | `SupersededNeverNewest`, `LockKnowsFacts`, `AnalysisKnowsFacts`, `RefusedOnlyForCause` |
| `storage_cleanup` | A promotion beside two audits, overlapping audit steps, a session and an executor: does whatever represents a source tell its fact, does an audit that can authorize vouch for clean data, does a batch change an as-of answer? | `EventsKeepFacts`, `AuthorizedMeansClean`, `CleanupKeepsAsOf` |
| `provenance_recovery` | Two families, a source that lost two facts, overlapping and cut requests, a lost original, a deployment: do the counters agree with receipts and rows, is one run active, does the final audit count what is there? | `Accounted`, `OneActive`, `AuditTellsTruth` |
| `post_race_review` | From the exports to the learning evidence with two sealed analyses, overlapping imports and reviews and one change of the facts: is an answer what is stored, does anything teach with hindsight, does a round have one teacher unless its start moves, does a complete review tell one outcome? | `AnsweredIsStored`, `NoHindsight`, `OneTeacher`, `CoherentReview` |
| `statistics_rounds` | Overlapping, expired and failing requests while facts change: is a market given up only when the archive cannot close it, do decisions and failure counts survive? | `GivenUpRightly`, `DecisionsStand` |
| `calculations` | Thousands of small instances of the computations; and, side by side, position jobs with overlapping, failing and killed requests while captures arrive | `PlayedIsBest`, `TestedAfterTrained`, `ReplayIsStorable`, `FutureChangesNothing`, `ShardsAddUp`, `ReasonsRepresented`, `ExclusiveByVotes`, `PacesAgree`, `PagesAgree`, `CompletedMeansCovered` |

Bounds. Two invocations are enough for every pairwise race of a reader and a writer, and
the holder of a lease has at most one successor that matters; two races, legs, starts or sources give a
list a first, a last and an order. `MaxErrors = 2` scales the three consecutive errors of the code so that the limit is
reached and also missed. One or two mishaps let a kill and an overrun combine. In detail:

* `official_day`: one date, two races, two errors, two mishaps; `official_range`: three dates of one race each, one mishap.
* `xlabs_job`: two invocations, one caller, two daily races, two historical dates, one mishap; official data become ready and may change once more
  (`MaxChanges = 1`); `Narrow` follows what callers reopen then up to the next invocation, since the properties say nothing of a changed list.
* `morning_runs`: the schedule scaled down with its proportions: a window of three dates; four official batches, one more than a full turn of them (the code has ten, again one
  more than a number of full turns), of two steps; three X-Labs batches, one per date; days longer and shorter than their share; two disturbances. `Narrow` lets the second
  date be the short one.
* `settlement_jobs`: one round of two legs of two starts (a half-written dead heat and a correction), new or completed before final results were kept; two
  steps per batch, one mishap. A batch that goes on stands where an operator's step begins, so the constraint `Narrow` follows budgets of two steps in one
  batch at a time and until the mishap.
* `live_round`: two snapshots of two starts, each the provider's or the settlement's own, so that one supersedes the other; the operator is careless with the second source only; two mishaps.
* `sealed_analysis`: seconds 0 to 2 with the cutoff at 1, so that requests fall before, on and after it and packs are clamped; two ids give two
  competing roots, or a root and its revision; two facts give an affected and an unaffected leg and an observation stored late (`MaxLag`). Chains of
  several revisions and past `as_of` values are beyond these bounds and covered by the proofs.
* `storage_cleanup`: three sources, two of them legacy, one importer, pages of three and batches of two, one continuation. The constraint
  `Narrow` allows three of {started runs, pages in hand} at a time. Deadlock is checked here: the clock always moves some run or session.
* `provenance_recovery`: two families and two sources, pages of one, one change and one cut; a run that follows another is watched only from beside it.
* `post_race_review`: one round, two legs of two horses, two submissions and contents, two sealed analyses of which a start moved forward leaves the older, hours 0 to 2, one change; what `Narrow` leaves out is said in `MCPostRaceReview`.
* `statistics_rounds`: one round, two entries, two changes or one mishap; one form failure fewer than the code allows; while two requests are at work the facts stay.
* `calculations`: the constants of `Calculations.cfg`, chosen so that every window, limit and threshold of the code is reached and missed; books of up to
  four days; two races and two captures for the jobs.

Runs with a liveness property use no symmetry. Where deadlock is not checked, a finished job with all invocations at rest has nothing to do.

Fairness. Only `LiveNormalize` states a liveness property that a run checks (`NewestSettles`). Its `FairSpec` asks that the morning run comes back to the newest
unnormalized source of the game (`runLiveNormalizationMorning`, `index.js:648`, up to 16 batches of 12 starts, until nothing is pending), and that an
invocation which is not killed takes its next step. Nothing is assumed about operators or about the success of a request. The code grants this to a game that is upcoming or
at most three days old (`official-live-scheduled.js:263`), more than once on most mornings; an older game is selected no longer, and `NewestSettles` promises nothing for it.

The backfills are not called that often. `handleScheduled` (`index.js:664-747`) serves a date on the three mornings after it, with ten official batches of at most three
checkpoints shared in turn among the dates of the window, and with one X-Labs batch of three checkpoints for each; a batch that throws costs its job the rest of that part. A
day of more races than that is left `running` with nobody to call it. `MorningRuns` therefore promises amounts and not an end: `OfficialKeepsUp` and
`XlabsKeepsUp` say that a job that still runs has come at least as far as its mornings owed it. `Settlement` has a `FairSpec` for the divergence in section 5 only.

## 4. Proofs

The eight `*_proofs` modules prove their theorems for every value of the constants: any number of invocations, dates, races, sources,
pages, errors, kills and overrun leases. The assumptions are the named ASSUMEs of the component modules and what is said below. A property is
seldom inductive, because an invocation decides on what it read and writes later; each invariant says what the *remembered* values are worth.

`OfficialBackfill_proofs`:

* `TypeCorrect`, from the inductive invariant `IInv`, which adds to `TypeOK` that an invocation's
  remembered checkpoint is within bounds and that a worker at a fenced write has read a running job;
* `EmptyDatesHarmless`: the part of `IInv` about the error count; `CheckpointIsFenced`: the action property, one step per action;
* `DayCheckpointSound`, `DayCompletedIsComplete` for `StartDate = EndDate`: the invariant `DayInv` says that every index
  that an invocation remembers or is about to write is covered by handled races, which
  is inductive because handled races are never taken back. On a range it fails: the remembered index says nothing about another date (section 5);
* `DayJobImplementsDayImport`: every step of a one-day job is a step of `DayImport` or a stutter.

`XlabsBackfill_proofs`:

* `TypeCorrect`, with the errors below the limit while a job runs, only running jobs leased, and every index in its list;
* `HistoricalFollowsOfficial`: `HistoricalInv` says of the stored and of every remembered date that all later dates were ready, and of an
  invocation past the prerequisite that its own date is;
* `UncoveredDailyReopens`: the property is about days whose official data have not changed since the first answer (`changes = 0`); after a change it would be
  false (section 5). `DailyInv` says that every cursor, stored or remembered, has only handled races before it, that nothing is counted before the answer and before a page
  was archived, and that the holder who is about to complete the job has covered the list or leaves a count below it. `PositionOrders` is the
  lemma about lists: an index names one race;
* `JobIsFenced`: only the holder moves the checkpoint, and a completed job is written to only by reopening.

`Settlement_proofs`:

* `TypeCorrect`, `FinalResultsAreEarned`, `CompletedJobsAreFinal`. The invariant `IInv` says what a batch at each label has read: that all legs of its
  round were decided at one moment, the market it repaired, the payout it stored. Placings come and go under it, so nothing says that what it read still holds:
  the histories `decided` and `peak` remember that it held (`Witnessed`), and an upsert only adds to them (`UpsertNoted`);
* `SettledLegsAreFactual`: the count a holder carries is at most the most legs decided at one moment of its lease (`HasCounted`). This rests on the fence:
  `peak` starts anew when the lease changes hands, and a batch without its token writes nothing;
* `ClosedJobsStayClosed`, `SettlementIsFenced`: these rest on the lease too. `FenceInv` says that a row that is not open is held by nobody (a lease is only
  taken on an open row, and the write that closes one gives it back) and that a held row has a deadline. So a late batch meets a closed row without its token;
* `JobsImplementRoundClosing`: every step of the jobs is a step of `RoundClosing` or a stutter. `IInv` gives the guards about facts, `FenceInv` those about
  the stage. `RoundClosing` subsumes `CompletedIsFinal` and `ClosedStaysClosed`, which the run therefore does not list.

`LiveNormalize_proofs` proves `LiveTypeCorrect`, `CheckpointsAreWhole`, `MarksAreWhole`
and `CompletedRowsAreMarked`. The inductive invariant adds `AuditIsWhole` (every cursor
in the audit log is covered) and `InvocationsSound` (so is every cursor an invocation
remembers); rows of a start are never deleted, so covered stays covered. The hypothesis is
that operators of the source only send cursors they were given (`Careless` excludes sources). `MarksAreWhole` is about the sources the settlement does not own: those it marks
itself (`MarkFinal`), and the automatic worker and the promotion of start points take the mark at its word (section 5).

`SealedAnalysis_proofs` proves `SealedTypeCorrect`, `SupersededLocksNeverNewest`, `LocksKnowFacts`, `AnalysesKnowFacts` and
`RefusalsHaveCause` for any lag and any cutoff. What a lock knows is decided when the pack is rebuilt and stored later. The invariant therefore carries
`Exact(pack, t)` from the comparison to the row: the pack holds every fact seen by `t` that it may hold, no compared
field contradicts it, and only a fact seen after `t` can make it irreproducible. `LocksExact` says the same of all rows and
that the judgement covers the whole pack, which for a revision follows because legs that are not sent out are equal in both packs.
`LineageOrdered` (a child is at least a second younger) is what `SupersededNeverNewest` needs; it rests on
`RevisionFollows` and on `ThinkTime \in Nat \ {0}`: at least one second passes between reading a revision input and posting
the revision, the time in which an AI judges it. Without that assumption the order of `created_at`, cut to seconds, is decided by the ids.

`StorageCleanup_proofs` (with `SnapshotStore`):

* `EventsTellFacts`: whatever row represents a source tells the source's fact. The invariant `FactsKept` also covers the row an importer has looked up, which
  cannot be deleted under it because a batch keeps every row that observations point at or rewires them to one that tells the same (`RewiredTells`);
* `AuditsAreFenced`, `AuthorizedAuditsAreClean`: `WritesStale` (a write to what an audit rests on leaves no audit live) means that a live audit has walked over the data as
  they are now. `Thorough` says of its counters that they add up what lies up to its cursor, `Sound` the same of a page that was read and not yet
  applied; `PageIsAnInterval` makes the next page begin where the last ended, `WalkThorough` adds it, and `ThoroughIsClean` turns a full walk without an anomaly into clean data;
* `CleanupKeepsAnswers`: from clean data a batch leaves every as-of answer (`BatchLeavesClean`, `RewiredTells`).

  The invariant was model-checked first, with pages of one and of three. `FenceHolds` has no run: it is what the proof is about, and `AuthorizedMeansClean` is its use.

`Analyses_proofs` is about what is learnt and what is calculated.

* `PostRaceReview` (with `ExternalRuns`): `TypesAreKept`, `AnswersAreTrue`, `LearningHasNoHindsight`, `RoundsHaveOneTeacher`, `ReviewsAreCoherent`. Two facts carry
  them: an import registers in the hour in which it began (the abstraction of `ExternalRuns`), so no run older than the results appears after them; and a review goes
  on only over verdicts equal to its own, so that the legs of a lineage are filled in order by requests that agree. `Teaches` names the lineages that may be learnt from:
  the newest run registered before the results, which never changes again, or where there is none the newest analysis sealed before a start the round has had since.
  `RoundsHaveOneTeacher` follows: two lineages of a round teach only if both are sealed and the start moved between them (`SealedNewest`, `StartsGrow`).
* `Calculations`: `QuestionSpec` asks any question, and an invariant of it (`WellAskedReplay`, `WellAskedPaces`, `WellAskedVotes`, `WellAskedKnowledge`, `WellAskedHistory`) says which data a question was
  computed from. What is promised is proved of all such data first, and of the questions then:
  * replays: `FoldsAreChronological`, `StorableReplays`, with them `TestedLater` and `ReplaysAreStorable`. Blocks of a replay are the groups of one instant in the order of instants
    (`BlocksAreOrdered`), and a fold is three intervals of blocks;
  * paces: `PacesAddUp`, `RanksFollowPaces`, with them `PacesAgreeAlways`. An endpoint is the same frame for both intervals that share it, because it is chosen by its place and not by the interval;
  * places: `PlacesAreExclusive`, with it `PlacedByVotes`. At a checkpoint an exclusive place has one horse (`OneIsPlaced`); the window is 200 metres long and the
    checkpoints in it are frames of different marks, so that there are at most three (`ThreeInView`), and two horses cannot have two votes each;
  * no hindsight: `NothingIsForeseen` for any book (`IsBook`: starts with ids of their own, rows stored no earlier than they were made), with it `NothingLateCounts`. The book
    as it was known then has a twin of every start (`Twin`), without the result if that came later. One lemma per feature shows that it reads only kept rows
    (`KnownAsKnown`), results that were seen (`SeenStarts`), and of other starts what lasts (`TwinLasts`) or how many there are (`SameNumber`). Sums and folds are never opened:
    they are computed from equal arguments. Forms need one fact of arithmetic more: what started before an instant was over by it (`StartedIsOver`), so the lifetime figures
    of that moment are in both books;
  * histories: `ReasonsAreShown` for any book (`Datable`: finitely many starts, with instants and ids of their own), with it `ReasonsAreRepresented`. What is shown is a recursive function
    over the pools it is filled from. That there is one, and what holds all along it, is proved from a first index that fails (`Upwards`, `GrowthExists`, `GrowthIs`), so that no
    induction theorem is needed. Before the pool of a reason, no more rows were added than reasons came before it (`RepresentedIn`), so there is room for its best row.

  Their assumptions are named in the modules: `CalculationsAssumption` (policies of whole numbers, distances and days that are numbers), `HistoryAssumption`, `StatisticsAssumption`.

`OperatorJobs_proofs` is about the three jobs an operator drives request by request. They share neither state nor steps, and each part has its own invariant.

* `PositionJobs` (`PositionIInv`): `PositionTypeCorrect`, `CompletedJobsCover`. A cursor may go back and nobody looks at anybody else; what holds is that whatever lies at or before a
  cursor anyone has read, or before a capture anyone has chosen, is covered. A capture that arrives behind such a cursor counts as late, and is not promised.
* `ProvenanceRecovery` (`RecoveryIInv`): `RecoveryTypeCorrect`, `RecoveryOneActive`, `RecoveryAccounted`, `RecoveryAuditTellsTruth` and the action property `RecoveryRestoresOnce`
  (no configuration lists `RestoresOnce`; it holds within the bounds of `provenance_recovery`). `RunSound` says of a run what has been counted up to its cursor in each phase (`Inventoried`, `Counted`,
  `AccountOf`) and that its additions are still there while the epoch is its own (`RowsThere`); `RequestSound` says what a request that still meets the run and the
  epoch it loaded may rely on: nobody has moved the run (`MovedOn`), the receipt in hand is the one stored (`HeldIsStored`), and what is left to restore is proved and not there (`TodoIsProved`). A sum
  over receipts is the cardinality of a union of disjoint sets (`SumOf`), so no induction over data is needed;
* `StatisticsBackfill` (`StatisticsIInv`): `StatisticsGivenUpRightly`, the action property `StatisticsDecisionsStand`. `Justified` says that the input on which a market was given up is of the past or
  one the archive cannot close; `HolderSound`, that the request whose token a row carries has in hand what the row says, so that its fenced write keeps the decision and the failures counted on the same input. One
  assumption joins those of the constants, `NoneAssumption`: NULL is no caller, class or fingerprint.

Only model-checked:

* liveness (`NewestSettles`): fairness and ENABLED are beyond the prover;
* three promises of `Calculations`: `PlayedIsBest`, `ShardsAddUp` and `PagesAgree` open a search, a fold or a sum over data, and need induction over it;
* `OfficialKeepsUp` and `XlabsKeepsUp`: what a date is owed is a sum over its mornings, checked for the scaled schedule only;
* the type invariant of `StatisticsBackfill`: its retry times rest on `2 ^ n`, which needs induction; the proof carries the part without times (`ShapesOK`).

## 5. Known divergences

Properties that the code does not have. Each is a definition of its module that no configuration lists, or a stronger form of one that is listed; naming it as an INVARIANT or PROPERTY of the run's
configuration shows a counterexample, with the change given here where one is needed.

| Property | How | What happens |
|---|---|---|
| `UncoveredReopens` without `changes = 0` | `xlabs_job` without `Narrow` | A race that becomes eligible in front of the cursor shifts the list (`xlabs-backfill.js:83`); one race is processed twice, the new one never, and the counts agree. `docs/DECISIONS.md:279`: full settlement "queues/reopens exact-date X-Labs enrichment". |
| `PassedRacesHandled` | `official_day` on two dates | `official-historical-backfill.js:231`: an invocation that read the row before another one advanced the date writes its old index on the new date, and races are skipped. One-day jobs are proved safe. |
| `EveryRoundTaken` | `settlement_jobs`, two rounds, `FairSpec` | `post-race-settlement-v1.js:132`, `377`: the newest due round is always first and ends the batch while it waits or fails, so an older one may starve. `docs/DECISIONS.md:275`: "Older unresolved saved rounds are recovery candidates immediately." |
| `PayoutOverUniqueWinners` | `settlement_jobs` | Results are stored start by start with `placing = excluded.placing` (`official-historical-race.js:253`, `338`). A batch cut short inside a dead heat leaves one winner, and the next one counts the leg as settled; or a correction takes a winner away between the state read and the payout, or after it. `docs/DECISIONS.md:277`: "Exactly one factual winner per leg is required for automatic round completion". What holds is `FinalResultEarned`: there was a moment with one winner in each leg. |
| `AppliedIsRestored` | `provenance_recovery` | A receipt whose candidates can no longer be proved when its last page is done (an original lost after the inventory) is closed as applied although less than planned was restored: `storage-historical-recovery-run.js:535` asks only that no candidate is left. `docs/DECISIONS.md:52`: quarantine. |
| `PausedIsAccounted` | `provenance_recovery`, `MaxDisturbances = 2` | A run is paused while a request has its next receipt in hand; the receipt is closed, and the counters of the run no longer follow. |
| `RestoresAsPlanned` | `provenance_recovery`, three sources | The drift check (`storage-historical-recovery-run.js:481`) compares the candidates found with the whole `candidate_count`, also when some are restored already: a fact that becomes restorable in between is restored on top. |
| `CompleteRepresented` | `storage_cleanup` | An import that looked up its row before a batch removed it marks the source complete afterwards; the source has no representation until a later audit notices (`docs/DECISIONS.md:469`). |
| `OneTeacher` as `v.of = w.of` alone | `post_race_review` | `candidateV3Round` takes the newest analysis made before the start known *now* (`post-race-review-v2.js:38`), and reviews are keyed by that analysis (`:69`, `:323`). When a start is moved forward after the review, an older analysis of the round becomes due, is reviewed too, and its misses teach as well. |
| `MissesLinked` | `post_race_review` | A request cut off after its last leg leaves an eligible miss unlinked, and the lineage is no longer due. |
| `RetriesAreDelayed` | `statistics_rounds` | The audit after a replay is compared with the row as it was first read. If entries have changed so that the Form is pending on the same input, its old retry time, already past, is stored again and the row is due at once. |

Behaviour that the models contain and that a reader of the code may not expect:

* The cursor the guard names safe (`official-live-sequential.js:20`) may count a start of which only the observation is stored; `CheckpointIsWhole` is about
  the sources whose operators send only cursors they were given, and fails without that exclusion.
* A late change of a compared field (driver, scratch, lane) blocks the revision and the export of a sealed lock (`analysis-step1-revision-v1.js:179`);
  `RefusedOnlyForCause` bounds the damage.
* A game that is not normalized by the third day after it is left unmapped (`official-live-scheduled.js:263`); the model of one game ends there.
* A day that is longer than its three mornings, or whose batches break, leaves the window of the morning run as `running`, and nothing calls it again but an operator
  (`index.js:664-747`; `docs/DECISIONS.md:451` and `456` name the bounded window). A settlement that closes a round late may queue or reopen the X-Labs job of a date that has left it.
* The post-race settlement marks its own final source `normalized_verified_subset` although it maps no start (`post-race-settlement-v1.js:226-230`); where promotions look for normalized
  sources they find it too (`import/official-snapshots.js:507`, `import/official-start-points.js:170`). `docs/DECISIONS.md:427-434` gives these sources to the settlement.
* Position jobs: a failing step may write `running` on a job another has completed; `consecutive_errors` is counted from a stale read; a
  capture stored behind the cursor, or behind a cursor some request has read, is missed; rows of one source can mix two versions of the official entries (DO NOTHING).
* `ReplayIsStorable` asks what the code can store: `assertReplayAggregateConsistency` (641-773) knows the configured exclusions only, while
  `runDecisionReplayV1` (1402-1412) also excludes rounds by itself, and `worker-v074.js:39-48` can never store such a replay.
* Cutoffs: results are upserted, so a result seen earlier vanishes from as-of views when it is overwritten; starts have no seen time; `loadRaceContexts` (332-350) reads
  entries, scratchings and prizes without a cutoff; breakdowns have no bound within the year; the period "all" of a horse has no upper date; `latest_x` of the horse
  patterns (`horse-patterns.js:107`) uses telemetry stored after the asked day; in a new year `populationDateBounds` leaves out the cutoff's own day.
* An unknown hour is the end of the day in relevant history and priors, and its beginning in performance development and X-Labs evidence.
* Samples that contain one another: the second prior of gallop risk and the equipment response include the direct sample, wider prior levels and X-Labs populations
  the narrower one; the person windows shrink towards the year they are part of.
* A newest equipment row without known parts hides the older one for the horse and not for trainer rows; a missing extra distance counts as 0 metres in
  horse form; trainer rest rankings leave starts without a trainer out of the gaps, other pages keep them; a second leader needs a single sighting.
* Analysis exchange v2: the check of a digest and its insert are separate calls (not modelled).

## 6. Not modelled

* Display counters, `import_runs` rows where nothing reads them back, formatting, logging.
* `retry_after` of X-Labs jobs (ignored when a job is named explicitly, which is how every caller names it).
* The `source_gap` branch of the automatic live step: no validation raises its error.
* The orchestrator beyond its two backfill parts: the parts share no state but the automation switch and the cost stop, both of which only leave work undone; the switch
  fails closed. The amounts behind the cost stop are a verdict chosen at any point.
* Storage cleanup, sealed and v2 routes that are switched off at present: `index.js:84` answers 403 for the destructive cleanup paths, `worker-v076.js` 410 for
  sealed mutations and v2 imports unless `ANALYSIS_WORKFLOW_MODE` is `legacy_v2`. The functions behind the first two are modelled, the v2 import is not.
* Cost budgets are a chosen verdict; the past `as_of` of a market file, payout, KAI, ABCD and spike metrics of the statistics audit, rows older than migration 0041,
  the target limit of replays, floating point, rounding, confidence formulas and texts are left out.
* The hashes and ids by which `assertLineage` recognizes a sealed lineage: rows of an analysis are immutable and inserted in one batch.
* Abstractions of time: an import of an external run begins and ends within its hour; a tick of the statistics backfill outlasts a lease; an audit of a round is
  read in one step, and choosing and leasing a round is one step; counts above `MaxCount` are alike.
* Abstractions of data: telemetry is a straight stretch in quarters of a metre with whole per cents; scores are whole per cents; pages and set-mode queries share one definition.
* Presentation, authentication and read-only routes: no protocol state.

## 7. Plan

Done: the job models, storage cleanup and recovery, the external flow with its reviews, statistics backfill, position jobs, and the pure algorithms; the
safety theorems of ten of the components, which state every safety property of the runs except three promises of `Calculations` and those of `MorningRuns`; two refinements. Left, in this order:

1. The three promises of `Calculations` that are left: each needs induction over a fold, a sum or the search, to be written as recursive functions first, as the rows of a history are.
2. An atomic audited deletion as an abstract specification of `StorageCleanup`, refined in the existing proof module.
3. An inductive invariant for `MorningRuns`, so that what a date is owed is proved for the real numbers of batches and checkpoints.
4. The v2 exchange, if the rollback mode is to stay.
