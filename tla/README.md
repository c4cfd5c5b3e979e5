# Formal models of the moderation and mail-audit system

TLA+ modules that model this repository's programs, TLC runs that check them on
small instances, and TLAPS proofs that hold for every value of the constants.
`PROJECT.json` maps every definition to the lines it models.

## 1. Inventory

The repository holds two libraries, `fake_review_detector` (moderation of
reviews) and `src/inboxready` (mail-authentication audits), and `webui`, a Flask
application over both, run by several gunicorn workers with several threads.

| Component | State it keeps | Operations | What makes it hard | What makes it correct |
|---|---|---|---|---|
| SQLite store (`sqlite_store.py`) | `queue_items`, `audit_records`, `audit_head`, `rate_limits`, SQLite's write lock | enqueue, claim, release, resolve, snapshot, get, stats, read, verify | workers and command-line runs on one database; busy timeouts; failing statements; death before or after COMMIT | log, head and queue are one consistent history; every call is atomic; damage stays visible |
| Queue rules (`queue.py`) | an item: decision, state, holder, verdict | claim, release, resolve, order, page | resubmission, order of work | items move forward only; the front is handed out first |
| Audit chain (`audit.py`) | log file, anchor file | append, verify, re-anchor, replay | three files written one after the other; readers without a lock | no append launders a truncation; every interruption is reported |
| File and memory stores (`webui/moderation.py`) | process lock, `queue.json`, `decisions.jsonl`, anchor | the store operations | one process lock, none in the command line; crashes between files | nothing queued that was not logged; no lost update by the web alone |
| Rate limiter (`webui/ratelimit.py`) | token buckets in memory or in SQLite | check, evict | cap on clients, idle eviction, clocks that step back, several processes | never more than the allowance; a promised retry is honoured |
| Audit service (`webui/audits.py`) | slots, thread pool, per-audit resolver | run, cancel, close | timeout racing the answer; work that goes on after the timeout | slots are conserved; no query after cancellation or over budget |
| DNS resolver (`inboxready/dnsresolver.py`) | positive and negative cache, query count | query | caching of failures | transient failures are not cached; a name costs at most one real lookup |
| Backups (`backup.py`, `operations.py`) | backup directory, partial files | back up, verify, prune, latest | concurrent runs, crash between steps, clock stepping back | only verified databases are published; the newest is never pruned |
| SPF (`checks/spf.py`) | visited set, running counts, recursion | count lookups, judge the record | include loops, diamonds, depth, failing queries | the counts are those of the whole graph; a walk that is cut off is over the limit anyway |
| Other mail checks (`dmarc`, `dkim`, `network`, `reputation`, `message`, `domains`) | none (functions of answers and facts) | one check after the other into one report | precedence of rules, early returns, queries that fail | "ready" is deserved; a failed query is not an absent record |
| Near-duplicates (`dedupe`) | candidate pairs, partner lists | scan | partner cap, bucket windows | a pair is missed only beside a full list, and the report says so |
| Scoring and moderation (`signals`, `policy`, `engine`, `validation`, `models`) | rows walked so far, ids seen | validate, score, decide | invalid and repeated rows, sorting | the first valid row of an id decides; the batch only adds evidence |
| Calibration, evaluation | the halves, the best threshold so far | load labels, split, sweep, measure | ties, order, evidence across the split | the threshold rests on the training half alone |
| Web application (`app.py`, `config.py`, `observability.py`) | session, metrics | routes | order of admission checks | a refused request changes nothing |
| Operational checks (`operations.py`) | none (reads the deployment) | check the store, find and verify the newest backup | retention between two reads | – |
| Command lines, report, detector, deployment | none | parsing, printing, infrastructure | – | – |

Components interact by calls (the web handlers and the command line call the
stores and the audit service), by shared files (the SQLite database is shared by
web workers, command line, rate limiter and backups; the JSON files by web and
command line), and by callbacks (a finished audit returns its slot). Within an
audit the checks hand each other facts: the SPF walk shares the resolver's cache,
DMARC's policy decides what BIMI finds, the `From:` domain what the signatures
must align with. Within a moderation job rows become reviews, duplicates and
batch signals become a score, and the score a decision.

## 2. Plan

Most important behaviour first; each step is modules, their runs, their theorems.

1. Store (done): `QueueItems`, `AuditChain`, `SQLiteStore`, abstract
   specification `ModerationLedger`, proofs in `SQLiteStore_proofs`.
2. File store (done): `FileStore` over the same `QueueItems` and `AuditChain`.
3. Rate limiters (done): `TokenBucket`, `MemoryRateLimiter`, `SQLiteRateLimiter`,
   abstract specification `IdealLimiter`.
4. Audit service (done): `AuditService`.
5. Backups (done): `Backup`. Left: the status check as a reader beside it.
6. Mail audit (done): `DomainNames`, `Findings`, `SpfWalk`, `DomainChecks`,
   `MessageCheck`, composed by `MailAudit`; proofs in `MailAudit_proofs`.
7. Reviews (done): `Duplicates`, `Scoring`, composed by `ReviewJobs`; proofs in
   `ReviewJobs_proofs`.
8. Proofs of the concurrent parts (done): `SQLiteStore_proofs`,
   `FileStore_proofs`, `MemoryRateLimiter_proofs`, `SQLiteRateLimiter_proofs`,
   `AuditService_proofs`, `Backup_proofs`.

Left: the status check as a reader beside `Backup`; the bootstrap of the SQLite
store (several workers creating one database); the order of admission checks in
the web handlers; rebuilding a queue from the log (`replay`).

## How to run

`tlc -config X.cfg M` for a row of the table in section 11; `tlapm M.tla` for the
proofs, where M is one of the eight modules of section 12. In every module
the definitions under the comment `Mutation:` are wrong on purpose: each is what a plausible bug in the code
would make of the definition after it, is used nowhere, and is listed in
`PROJECT.json` with the property that catches it when it replaces that definition.

## 3. The store

`SQLiteStore` has one action per statement group of the code. A worker is a
thread of a web worker or a command-line run; its record in `txn` is its open
connection: what it was asked, the view its transaction reads and writes, the
running sequence and hash of `enqueue`. BEGIN IMMEDIATE takes the one write lock
(`writer`) and the view together; COMMIT replaces `db` by the view; an exception,
a refusal or a dead process drops it. Readers take a snapshot and block nobody.
Data is abstracted: a review id is its rank in string order, a timestamp a
natural, the hash of a record the sequence of everything hashed so far, so that
two hashes agree exactly when their histories do (collisions are left out).
Fields nothing reads back (`note`, `claimed_at`, `recorded_at`) are left out.

Every statement may fail (`Fail`: disk full, I/O error) and every process may die
(`Crash`), before or after COMMIT. `Accident` is outside the program: a stored
record is lost or edited behind the store's back; it is enabled only in the run
`store_accidents`. `ModerationLedger` is the same storage as its callers see it:
one indivisible step per call. `ImplementsLedger` maps the ledger's queue to
`db.items` and its decisions to the decisions in `db.log`.

Fairness: `WF(Step(w))` for every worker, because a thread that is scheduled
executes its next statement, and SQLite's busy handler gives up after its
timeout (`Busy` is a step). Crashes and accidents are not fair.

## 4. The file store

`FileStore` is one process's use of three files: queue, log, anchor. A call is the
list of file operations still to be done (`todo`), taken from `enqueue` and the
other calls of `webui/moderation.py`; the steps of `AuditLog.append`
(check, write, anchor) are separate because a crash can come between them.
`Workers` are web threads, which hold the process lock for the whole call;
`Operators` are command-line runs, which hold nothing and log before they load.
A score command writes to the files it is given (`ScoreSteps`, `Destinations`): with
`--queue` and without `--audit-log` it queues what it never logs.

`CutShort` is a write that ends after a line, just before a line's newline, or inside
a line. `disk.log` is the sequence of whole records in the file; `disk.ended` says
that its last line has its newline, `disk.spoiled` that some line is not one whole
record, where every reader gives up. Text appended after an unended line is glued to
it and spoils it. `ReAnchor` is the operator's repair of a log that can be read.
Replacing a file by `os.replace` is atomic in the model, as in the code.

A write cut just before its newline has a consequence that the code does not guard
against. Before the first anchor, or once an operator re-anchors that log, it
verifies; the next record is glued to its last line, the anchor advances, the queue
is saved, and from then on the log cannot be read. The properties are worded for
that: `QueuedOnlyIfLogged` and `AnchorDescribesAPrefix` are about what was written to
the file, not about what can be read back from it, and `InterruptedLogIsNotExtended`
about a log that has an anchor, until an operator replaces it.

The web alone loses no verdict and queues nothing that it did not log (run
`file_store`). Two things the comments say do not
hold: see section 10.

Not modelled: the `fsync` order below the file system interface (a power loss that
reorders writes).

## 5. The rate limiters

`TokenBucket` holds the arithmetic both share, in integer units: one clock tick
refills exactly `PerMinute` units, a token is `60 * TicksPerSecond` of them.
`MemoryRateLimiter` is one step per check, since the code holds a lock for all of
it; its buckets are a sequence in the order of the dictionary, which is the order
of last use. `SQLiteRateLimiter` has one action per phase of the transaction,
several workers, a wall clock that may be set back at any time, failures and
deaths; its rows outlive the workers.

`IdealLimiter` never evicts. `ImplementsIdeal` shows that dropping refilled
buckets is invisible and that, above the cap, serving one client resets at most
one other. `allowance` in `SQLiteRateLimiter` is a history variable: what a client
may still be granted, computed from true elapsed time and not from the rows.

Not modelled: a wall clock set forward by hand (it refills early; nothing in the
code bounds it) and the rounding of floating-point token counts.

## 6. The audit service

`AuditService` has one action per step of `run()` that another thread can see:
taking a slot, building the resolver, submitting, registering the callback that
returns the slot, waiting, cancelling the resolver, cancelling the future. The
pool has as many threads as there are slots. A live audit asks DNS through
`_BudgetedResolver`: the query is counted, checked against deadline and budget and
then sent, and time may pass or a cancellation arrive between these steps.

A slot belongs to the task and not to its caller, so a caller that timed out
leaves it taken until the task ends. Fairness: weak on `Tick`, on the pool's
`Take` and on every caller's steps (the operating system schedules threads, time
passes). Nothing is assumed of the audit itself for `EveryCallIsAnswered`; a
lookup may hang for ever and the caller is still answered. `ServiceRecovers`
needs the audits to go on, and says so in its antecedent (`AuditsGoOn`):
backend lookups have a timeout of their own.

Not modelled: a pool that cannot start a thread. `submit` (`audits.py:379`) puts the
task in the pool's queue before it starts a thread for it, so when the start fails
the slot is given back while the task may still be run by a thread that exists: what
is said here of slots holds as long as threads can be started.

## 7. Backups

`Backup` follows `backup_database`: name chosen, copy in pieces, verification,
publication by rename, listing, unlinking, report. The live database is the number
of its last commit; some commits have an audit history that does not verify.
SQLite starts the copy over when another connection has committed in between. The
wall clock is any value of `Times` at any step, so names need not grow. Two runs
(the timer's and an operator's) overlap freely, and each step may fail or be the
last of a dying process. `made` and `since` are history.

## 8. The mail audit

`MailAudit` is `run_audit`: the checks of a domain one after the other, then those
of a sample message and of the sender's figures, each an action that adds its
findings to the report. Only the worst finding is kept, because the verdict looks
at nothing else; the score is left out. A DNS answer, and every fact of a message,
is chosen when it is read, and any query may fail for the moment.

- `SpfWalk` is the SPF lookup count. The recursion of `_count_lookups` is a stack
  of suspended calls (`stack`: the record, and the term it is at), its arguments
  and results `call`, `lookups` and `voids`. Names go through the resolver's
  `cache`, which remembers definitive answers only.
- `DomainChecks` and `MessageCheck` hold what each check finds, as a set of
  findings decided by facts: what a record or a header says once it is parsed.
  How often a finding is repeated, and in which order, only the score and the
  layout of the report could tell.
- `DomainNames` is the public suffix, the organizational domain and alignment,
  over labels; `Findings` are severities, reports and the verdict.

What the code does that a reader may not expect, and the model with it:

- explicit DKIM selectors that all fail to answer are reported as `DKIM_MISSING`,
  a blocker, and so `NoBlockerFromFailure` names MX, SPF, DMARC and PTR only;
- MTA-STS and TLS-RPT are reported missing when their query fails, a failing
  forward lookup of a PTR name is critical, and a failing PTR lookup is silent;
- a `redirect=` is followed and counted also when the record has an `all`;
- a diamond (two includes of the same name) is reported as a loop
  (`spf.py:242`): `LookupsAreExact` counts references, not cycles;
- a walk cut off at the recursion limit adds no finding, though the docstring
  (`spf.py:238`) says it does. `DepthCutIsReported` shows that it never matters:
  such a record is over the lookup limit, which is reported.

`ReadyMeansCompliant` compares the verdict with `complied`, which every check
updates from its facts and without looking at severities or findings.
Fairness: `WF(Next)`. An audit is sequential and each query has a timeout, so it
always takes its next step; for the records' sake the walk might still go on for
ever, and `AuditEnds` says it does not.

Not modelled: the text of records and messages (what is a tag, a header, an
address), the score, the rendering of reports.

## 9. Reviews

`ReviewJobs` has three jobs over the same pipeline: moderate a batch, evaluate a
policy on labelled rows, calibrate a threshold. Rows are walked one at a time
(`Reject`, `Accept`, `StopAtLimit`), the duplicate scan of `Duplicates` looks at
one pair at a time in the order of the code, and `Scoring` makes signals, alone
and in the batch, into a score and a decision. Calibration splits the rows by
author, scores each half as a batch of its own, sweeps the thresholds on one and
measures on the other.

What two texts have in common is a parameter: `Alike` is the similarity
(`SequenceMatcher` over the threshold), `Bands` the buckets of a text (MinHash).
So are the assignment of authors to halves (`TestAuthors`, a hash in the code), the
policies and the days. `ThresholdRestsOnTraining` compares the choice with the training
half and keeps near-duplicate evidence apart; the figures measured on the held-out half
are computed and not checked against a second definition. Objectives are exact fractions, where the code computes
floats: ties that rounding makes or breaks are left out. Ids are numbers, since
only their order matters; the sorted scores are given by their places (`PlaceOf`), one
each because ids break every tie.

What the code does that a reader may not expect:

- in a dense cluster the cap can leave a review without any partner: of 27 equal
  texts with a cap of 25, one is not flagged (26 are; of 53, 52). The comments at
  `dedupe.py:108` and `dedupe.py:279` say such a review is still reported, while the
  docstring at `dedupe.py:239` says the cap can omit matches.
  `MissedOnlyBesideFullOnes` is what does hold, of the pairs that can be detected
  (`Detectable`): all similar pairs of a batch up to `exact_dedupe_max_batch`, and
  above it those with a common bucket of at most one window;
- any other similar pair may be missed without a word: texts without a common bucket
  are never compared, and a larger bucket is cut into windows, so that two equal texts
  on either side of a cut meet nowhere and `truncated` stays false;
- with `precision_at_recall`, when no threshold reaches the recall floor,
  calibration reports the lowest threshold with the value -1; the docstring at
  `calibration.py:228` calls such candidates rejected outright.

Not modelled: Unicode normalisation, what makes one row valid, the phrases and
scripts a text is searched for, the MinHash values, evidence and digests attached
to a decision, an empty range of thresholds, the Wilson intervals and the
recommendation built on them, the prevalence estimate.

## 10. Where code and comments differ

| Run | What it shows |
|---|---|
| `file_store_interrupted` | an append interrupted before the log has its first anchor verifies as valid and is extended (`audit.py:222` says it is reported) |
| `file_store_operator` | a web thread that loaded the queue before an operator's command saved it overwrites the operator's verdict (`webui/moderation.py:143` says it does not; the repository's `README.md:537` does call the files single-writer) |
| `backup_last_one` | with `--keep 1`, two overlapping runs remove each other's backup and none is left, after one reported success. The deployment keeps 14, where two runs cannot do this |

Without a run of its own: the comment at `webui/ratelimit.py:24` says an overflow
of the limiter's table costs one extra request of a client not seen for a while;
the bucket dropped is the one used least recently, which may be empty and in use a
moment ago, and its client gets a whole burst. `IdealLimiter` allows for exactly
that. The other two are in sections 8 and 9.

## 11. The runs

| Run | Configuration and bounds | Checked |
|---|---|---|
| `store` | `MCSQLiteStore.cfg`: 2 workers, 2 reviews, 2 moderators, batches of 2 and 1, log of at most 3, pages of 1 | types; head, queue and log agree; truthful verifier; page agrees with count; items only move forward; claims are not stolen and take the front; the ledger is implemented |
| `store_accidents` | `MCSQLiteStoreAccidents.cfg`: 2 workers, 1 review, log of at most 2, one record lost and one edited | damage stays visible; every call ends |
| `file_store` | `MCFileStore.cfg`: 2 threads, no operator, 2 reviews, batches of 1 and 2, log of at most 4 | the record of what is queued was written to the log's file; the anchor promises no more than was written; nothing is added to an interrupted log that has an anchor; verdicts are kept |
| `memory_limiter` | `MCMemoryRateLimiter.cfg`: 3 clients, cap 2, burst 2, 7 half-second ticks | table bounded; no refilled bucket kept; retry promise; the ideal limiter is implemented |
| `sqlite_limiter` | `MCSQLiteRateLimiter.cfg`: 2 workers, 3 clients, cap 2, burst 1, clock 0..3 | nobody over-granted; rows bounded; retry promise kept by every worker |
| `audits` | `MCAuditService.cfg`: 2 callers, 1 slot, budget 2, 2 names, deadline 1 | slots cover running work; none leaks; exact budget; at most one late query; every call answered; service recovers |
| `backup` | `MCBackup.cfg`: 2 runs, keep 2, 4 names, 2 pieces, 2 live commits | published is verified; never without a backup; retention bounded |
| `mail_audit` | `MCMailAudit.cfg`: 3 names, 15 records, limits 1/1/1, 2 selectors, 1 address, 2 audited and 4 named domains, up to 2 signatures | exact lookup counts; a cut is reported; one query a name; no blocker of MX, SPF, DMARC or PTR from a failed query; ready is deserved; the audit ends |
| `reviews` | `MCReviewJobs.cfg`: every submission of up to 4 of 8 rows, 3 texts, exact scan up to 3, 1 partner, window 3, 4 thresholds, 3 objectives, 2 policies | no detectable duplicate lost unnoticed; the first valid row decides; the threshold rests on the training scores and neither half gains a near-duplicate signal from the other |

and the three runs of section 10, each of one property.

Why the bounds are enough. Two workers are the fewest that interleave, and the
code gives a third nothing of another kind: it meets one write lock, one process
lock or one slot like the second does. A log of three records holds a batch of two
followed by another, or a resubmission after the item was worked; the file log of
four holds an interrupted batch of two and what would be appended to it. Two reviews with
distinct scores make an order, and one client more than the cap forces the
overflow. In the memory limiter a bucket refills in 5 ticks of 7, so it is
evicted both refilled and empty; in the shared one it refills in 2 of 3, and a
clock set back from 3 to 0 covers every distance. A deadline of one tick lets it pass before and
after every step of a caller. Four names with `Keep = 2` leave room for the kept, the
expired and the current backup of both runs. Three names with a recursion limit of
one make chains one longer than the limit, cycles through the root and beside it,
diamonds and names without a record; a lookup limit of one is exceeded by two
terms. The rows of the submissions hold three equal texts (one more than a cap of one
can pair), one similar text, a repeated id, an invalid and an unlabelled row, both
authors and both labels; a batch of four is past the exact scan and goes through
buckets and windows: a bucket of three fits its window, one of four is cut. The volumes and spam rates are the thresholds of the code and
their neighbours. Counters without a bound in the code
are bounded by `MaxLog`, `MaxTime` and `MaxVersion`, in the guards of the actions
that would exceed them; `MaxSelectors`, `MaxAddresses` and `Signatures` bound inputs.
Symmetry is used for workers, threads, runs, clients and moderators; the runs that check liveness
(`audits`, `mail_audit`, `store_accidents`) use none.

## 12. What is proved

For every finite or infinite set of workers, callers, runs, reviews, clients and
names, every value of the limits and any interleaving, failure and death:

| Module | Theorem | Says |
|---|---|---|
| `SQLiteStore_proofs` | `TypeCorrect` | `Spec => []TypeOK` |
| | `HeadAlwaysMatches` | `Spec => []HeadMatchesLog` |
| | `BatchesAreWhole` | `Spec => []LoggedAndQueuedTogether` |
| | `VerifierIsTruthful` | `Spec => []NoFalseAlarm` |
| | `StoreIsALedger` | `Spec => ImplementsLedger`, if `Accidents = {}` |
| | `ItemsMoveForward` | `Spec => ItemsOnlyMoveForward` |
| | `ClaimsAreNotStolen` | `Spec => ClaimIsNotStolen` |
| | `ClaimsTakeTheFront` | `Spec => ClaimTakesTheFront` |
| | `DamageIsNeverLaundered` | `Spec => []DamageStaysVisible` |
| | `PagesAreWhole` | `Spec => []PageAgreesWithCount` |
| | `CallsRunOut` | every step of a call lessens `StepsLeft`, and `Spec => []LockInUse` |
| `FileStore_proofs` | `TypeCorrect` | `Spec => []TypeOK` |
| | `QueuedWasLogged` | `Spec => []QueuedOnlyIfLogged`, if `EverybodyLogs` |
| | `AnchorNeverLeads` | `Spec => []AnchorDescribesAPrefix`, if `Operators = {}` |
| | `InterruptionStops` | `Spec => InterruptedLogIsNotExtended`, if `Operators = {}` |
| | `VerdictsStay` | `Spec => VerdictsAreKept`, if `Operators = {}` |
| | `ReportedOnceAnchored` | an interrupted log that had an anchor does not verify, if `Operators = {}` |
| `MemoryRateLimiter_proofs` | `TypeCorrect` | `Spec => []TypeOK` |
| | `TableIsBounded` | `Spec => []BucketsBounded` |
| | `FrontIsEnough` | `Spec => NothingIdleIsKept` |
| | `PromisesAreKept` | `Spec => RetryIsHonoured` |
| | `ForgettingIsUnseen` | `Spec => ImplementsIdeal` |
| `SQLiteRateLimiter_proofs` | `TypeCorrect` | `Spec => []TypeOK` |
| | `NobodyIsOverGranted` | `Spec => []NeverOverGranted` |
| | `PromisesAreKept` | `Spec => []RetryIsHonoured` |
| | `TableIsBounded` | `Spec => []RowsBounded` |
| `AuditService_proofs` | `TypeCorrect` | `Spec => []TypeOK` |
| | `RunningWorkIsCovered` | `Spec => []AdmissionCoversRunningWork` |
| | `SlotsComeBack` | `Spec => []NoSlotLeaks` |
| | `BudgetIsKept` | `Spec => []BudgetIsExact` |
| | `OneQueryIsLate` | `Spec => []AtMostOneLateQuery` |
| `Backup_proofs` | `TypeCorrect` | `Spec => []TypeOK` |
| | `BackupsAreVerified` | `Spec => []PublishedIsVerified` |
| | `LastBackupStays` | `Spec => []NeverWithoutBackup`, if `Keep >= 2` |
| | `RetentionIsKept` | `Spec => RetentionBounded` |
| `MailAudit_proofs` | `TypeCorrect` | `Spec => []TypeOK` |
| | `CutsAreReported` | `Spec => []DepthCutIsReported` |
| | `NamesAskedOnce` | `Spec => []AskedOnce` |
| | `CountsAreExact` | `Spec => []LookupsAreExact` |
| | `FailuresBlockNothing` | `Spec => []NoBlockerFromFailure` |
| | `ReadyIsTrue` | `Spec => []ReadyMeansCompliant` |
| | `StepsLeaveLess` | every step lessens `Remaining`, and nothing does so forever |
| `ReviewJobs_proofs` | `NoDuplicateIsMissedUnnoticed` | `Spec => []MissedOnlyBesideFullOnes` |
| | `ThresholdIsTrained` | `Spec => []ThresholdRestsOnTraining` |
| | `FirstRowWins` | `Spec => []FirstValidRowDecides` |

The proofs assume only what the constants are: `QueueAssumption`,
`NoItemAssumption`, `StoreAssumption`, `FileStoreAssumption`, `BucketAssumption`,
`LimiterAssumption`, `NoRowAssumption`, `ServiceAssumption`, `BackupAssumption`,
`NoFileAssumption`, `SpfAssumption`, `AuditAssumption`, `DuplicatesAssumption` and
`JobsAssumption`. All are evaluated by the runs. That two hashes of different
histories differ is built into the model of a hash. Four conditions are no
assumptions on the constants but the settings in which the claim is true; where one
fails, a run or the code shows what happens instead:

- `Accidents = {}`: the refinement is about the code, not about a file that
  somebody edited; what damage does is `DamageIsNeverLaundered`, which has no
  such condition.
- `Operators = {}`: the files belong to the threads of one web process, which
  share the lock of `FileStore`. A command line takes no lock, and beside it an
  anchor may lead the log and a verdict may be lost.
- `EverybodyLogs`: every score command that writes to these files names the log; one
  that names only the queue queues what it does not log (`cli.py:90`). The web
  always logs, so without operators the condition holds.
- `Keep >= 2`: with one backup to keep, two runs that overlap may each delete the
  other's.

None of the properties is inductive as it stands; this is what strengthens them.

**The store agrees with itself.** While a batch is being written, the view of its
transaction is deliberately inconsistent. The invariant is `TypeOK /\ Agreement`:
the committed database agrees with itself and every open transaction is sound
(`SoundTransaction`), where sound depends on how far it is. Between two decisions
the records inserted so far verify against the running `tail` and not yet against
the stored head; after a record and before its queue entry, the queue matches the
log *once the current decision is queued*.

**The store is a ledger.** `Carrying` says what a write transaction carries: its
worker holds the lock, and its view is the committed database with exactly what the
call has written so far (`EnqueueView`, `MovedView`). The lock is what makes it
stable: while one worker carries, nobody else commits, and accidents only happen to
a database nobody is writing. A commit is then one step of `ModerationLedger`, or
nothing (`CommitIsOneStep`), everything else changes nothing, and the three action
properties are what a ledger step does to the items (`InOrder`); that a claim takes
the front rests on the working order being transitive (`RankFollowsOrder`).

**Damage shows.** Which of the verifier's rules catches the damage depends on its
history: after an edit some record does not match its hash while the numbering is
whole; after a loss a number is wrong or the log is shorter than the head says, also
when the record that was edited is the one lost (`Shows`). An append keeps either,
because records are numbered from the stored head.

**Pages.** A page is the slice of a ranking of the items that match the request. The
proof needs that the rank is a bijection from those items to `1..n`
(`RanksArePlaces`), which holds because the working order is total on entries of
different reviews; so every entry is filed under its own review (`Own`), in the
database and in every open transaction. A page is then as long as its part of the
count, and the count read in the same transaction is of the same queue (`PageFits`).

**Calls run out.** `EveryCallEnds` rests on a number that every call has left
(`StepsLeft`): two steps for each decision of its batch still to be inserted and those
around them. Every step of the call lessens it, a failed statement and the end of its
process included, and no other worker raises it (`CallsGetShorter`). That it is never
less than zero needs that an insertion is not past the end of its batch (`InPlace`),
which with `Carrying` is inductive. The write lock belongs to a call that is writing
(`LockInUse`), so it comes back with the end of that call. What stays with TLC is that
a running call can always take a step, and that it is fair to it.

**The file store.** That a queued review is logged needs to know what a call has in
hand: the records it is about to queue are in the log by the time it saves, and the
queue it read held only logged reviews, which the log, only growing, keeps
(`Sound`). With the files to itself (`AloneInv`) the log is numbered from one, the
anchor describes a prefix of it, and after an interrupted append either a line is
spoiled or the anchor is behind (`Owing`). All this holds between calls only with the
lock: a call past its first step holds it, and what it read is what is on disk
(`Orderly`, `Right`). What a whole batch appends and queues is a recursive function
over its length, by induction on the natural numbers (`StepByStep`).

**The limiter in memory.** The buckets are in the order they were last used, one for
a client, none used later than now (`Ordered`); so those that refilled are at the
front, and looking at the front is enough. The level of a client without a bucket is
a full one, and a bucket with a promise will hold enough when it is due (`Keeps`).
An action of `IdealLimiter` follows because what `_evict` drops is a bucket whose
level is full, or the one the specification lets it forget.

**The limiter in the database.** A transaction's holder is the writer; what a row
lets its client spend never exceeds its true allowance (`Covered`), also for a
client without a row, whose bucket had refilled or whose row was dropped at the cap;
and the row of a client with a promise will hold enough when the promise is due
(`Promised`). The arithmetic lemmas say what a tick, a clock set back and a wait do
to a bucket. For the cap: a transaction that is about to write its row has made room
for it (`RoomMade`), because the oldest rows it deletes are as many as there are too
many (`OverflowIsEnough`, by counting).

**The audit service.** Slots are conserved: free slots and holders add up to
`AuditWorkers`, a holder being a call until its callback is registered and then the
task. Each audit's query count, sent queries and cancellation are related by where
its lookup stands.

**Backups.** A run has copied nothing newer than the current version, a copy that
passed verification is one good committed version, and so is every published file.
The newest backup is never on a list of files to delete, or something newer was
published meanwhile (`Outlived`); what is left once a list is worked off is at most
what is to be kept and what was published since the list was made (`PruneSound`).

**The mail audit.** Every suspended call of the SPF walk but the first was paid for
by a counted term (`DepthPaid`), so a stack deeper than the recursion limit means
more lookups than the limit; a name that was not called with has cost no query yet,
and the domain's own record is at hand when the walk asks for it (`AskedBefore`).

The counts are compared with sums over the set of names that the records lead to,
an order-free reading of a walk whose order the records decide. The invariant
(`CountInv`) relates three things, as long as the limit has not cut the walk:

- the *passed* places, the pairs of a name and of a term that the walk is beyond: of
  a name that has returned all of them, of one still on the stack those before its
  frame's, of one not called none (`Passed`). The suspended names are distinct and
  were all called, so a place belongs to one frame (`FramesOpen`);
- the counters, which are cardinalities: `lookups` of the costly passed places,
  `voids` of the names but the first without a usable record; and every passed place
  that refers to a name has led to a first visit, to a loop or to the call that is
  pending, so that `loops` is what the references have over the names (`Tallied`);
- the names: any set that holds the audited domain and is closed under following
  references holds every name called (`Grounded`), and what a passed place refers to
  was called (`Pursued`).

When the stack is empty every place of a called name is passed, so the names called
are closed themselves and, by `Grounded`, the least closed set: `Reachable`. What is
left is to turn the sums of the property into cardinalities, a place at a time over
the names (`FoldCounts`): a finite set of names for which they differ would have a
least one, and taking a name from it gives one that is smaller (`CostsSum`,
`ReferencesSum`). That the walk ends is not needed for it.

That it ends is `AuditEnds`, whose part without fairness is proved (`StepsLeaveLess`).
What is left of an audit (`Remaining`) is a row of numbers, compared at the first
place where two rows differ: the checks ahead; the selectors or addresses still to be
checked; then, for each depth of the walk from the outside in, the terms its record
still has and a call that is pending. A call adds work only to the right of the term
that it takes away, and a row has no more places than the recursion limit allows, so
rows cannot become less forever (`NoEndlessShortening`, by the least value of each
place in turn). The set of visited names has no part in this, and the names may be
infinitely many: it is the limit on the depth that makes a cycle of includes end, and
the visited set that keeps the walk short. What stays with TLC is that an audit that
has not ended can take a step, and that it is fair to it.

For the failures: the MX, SPF, DMARC and PTR checks leave no blocker on a failed
query (DKIM does, section 8). For the verdict, the
report is one of the five ranks and below critical only while every requirement read
so far was met (`Judged`); each check that finds a requirement unmet adds a critical
finding or a blocker (`Tells`), and the worst finding never improves.

**Duplicates.** Every pair scanned so far is reported, not similar, or excused: one
of its two had a full list and the report is marked truncated (`PassedOver`). Lists
only grow and stop at the cap, so a list that was full stays full; and every
detectable pair is among the candidates that are scanned: a bucket of at most one
window is not cut (`OneWindow`).

**Thresholds.** Accepted reviews have ids of their own, so the halves share none
(`Unmixed`); every pair found in a batch resembles each other, and a score's
near-duplicate is one of the half that was being scored (`Scored`). The best threshold
so far is the lowest of the best among those tried, which are the lowest ones
(`Swept`, `Chosen`); that a better one also beats all that were tried before it is
transitivity of the order on fractions (`BelowPasses`).

**Rows, scores and decisions.** The rows are the labelled items in their order
(`Lined`), and every accepted one is the first valid row of its id (`FirstOnes`). A
score is the sum of the weights of its signals (`FoldIsSum`, against the sum written
out), which more signals do not lower; the places of the order of urgency are taken by
one score each (`PlacesAreTaken`), so a decision has the content and the score of one
accepted review (`Decided`).

Every invariant and every safety property of a step that a run checks is stated by
a theorem. Only model-checked is liveness (`EveryCallEnds`, `EveryCallIsAnswered`,
`ServiceRecovers`, `AuditEnds`): proofs from fairness and of `ENABLED` are beyond
the prover, which reaches only the measures that `EveryCallEnds` and `AuditEnds` rest
on.

## 13. What is not modelled

Listed with its reason, component by component, in `PROJECT.json`. In short:

- text: Unicode normalisation, message, record and policy parsing, reports;
- floating-point statistics: MinHash, Wilson intervals, prevalence, the audit score;
- argument parsing, HTTP routing, CSRF, metrics and infrastructure;
- the status check of `operations.py`, which finds the newest backup and verifies
  it afterwards, and may find it removed by retention in between;
- the bootstrap of the SQLite store and `replay`;
- a thread pool that cannot start a thread;
- a power loss that reorders writes below the file system interface.
