# Formal verification of the BankInsight query service

The repository is a natural-language query service over bank metrics: a Python
package (`text2sql`, FastAPI over two SQLite files) with a browser front end. A
question is turned into a plan, the plan into SQL, the SQL is run against the
metric database, and the result is kept in a product database together with
history, shares, audit events, alerts and freezes.

This directory holds TLA+ models of the parts of the service whose correctness
depends on the order of steps (of threads, of clients, of crashes), and of the
way from a question to its answer, whose correctness depends on several
components agreeing about what a plan means. Line numbers below and in
`PROJECT.json` are those of the source under `src/`.

## How the server runs

The endpoints of `api.py` are synchronous functions: each request runs in a
worker thread, so any two methods of the shared services interleave. Services
are created lazily, by `lru_cache` functions that do not serialise their first
callers (`api.py:203`). `ProductStore` opens one SQLite connection per call; a
`with self._connect()` block commits at its end and rolls back on an exception,
SELECTs outside a write transaction see whatever is committed at that instant,
and a blocked statement fails after ten seconds. Locks exist only inside one
process: `_security_lock` (alerts), the lock of the in-memory session store, the
token lock, and the database lock of the metric file. A restart keeps the files
and loses threads, locks, tokens and memory.

## Inventory

| Component | State | Operations | What is hard | Correct means |
|---|---|---|---|---|
| Security alerts and freezes (`product_service.py` 1487-1713, `product_store.py` 511-972) | `audit_events`, `security_alerts`, `user_freezes`, `_security_lock` | freeze check, append event, evaluate rule, raise alert, unfreeze | event appended outside the lock, clock read before or inside it, unfreeze without it, failures and restarts in between | alerts are spaced, a burst is noticed, the third denial freezes, the lock comes free |
| Audit chain (`product_store.py` 32-64, 511-625) | `audit_events` with hashes, `audit_chain_state` | `add_audit`, `verify_audit_chain` | verification reads in two statements, outside edits | TRUE means untampered, a deletion stops the log |
| Opening the store (`product_store.py` 68-295) | schema, legacy rows, anchor | `_initialize`, `_backfill_audit_chain`, `_sync_audit_chain_state` | each statement commits alone, two openers at once, crashes | an open store accepts events, a lost anchor stays refused |
| Sessions and clarifications (`pending_query.py`, `session_store.py`, `service.py` 578-711, `product_service.py` 173-339) | pending query in memory and in `pending_sessions`, 20 turns | ask, clarify, cancel, persist, restore, clear | memory and disk change in separate steps | after a restart the user goes on where they were |
| Final answer (`product_service.py` 659-795, `final_answer.py`) | answer, insight, status and warnings of a record | begin, chunk, store, fall back, disconnect | a generator stands still at a yield, two streams of one query | a delivered answer is what the record holds |
| Access control and masking (`product_models.py`, `product_service.py` 1286-1465) | role, organization, metric rights of a user | authorize plan, sanitize record | rights change after a record is stored | nobody reads what their present rights forbid |
| Shares, history, export (`product_service.py` 481-653, 797-922) | `query_history`, `shares` | share, resolve, export one or many | expiry, limits, partial batches | a share shows what its owner may still show |
| Time drill (`product_service.py` 341-479, 1733-1817, `QueryResult.tsx` 38-120) | a stored record | drill year, quarter, month | boundaries of ranges | a drill covers its parent period exactly |
| Tokens (`product_auth.py`) | token table, expiry | login, lookup, logout | expiry racing use | an expired token is never accepted |
| Metric import (`metric_data_import.py`, `database_lock.py`) | metric database | preview, publish | values read before the transaction, failures in it, other threads and processes | all of an import or none of it, nothing overwritten unconfirmed, the report true |
| Query execution (`executor.py`) | none | preflight, execute | lock taken twice, the file replaced in between | an answer comes from a whole file |
| Data file building (`data_builder.py`, `datasource.py`) | `.building` and final file | compare with the workbook, build, replace | crash at each step, a second process beside the server | a whole file is there or the next start builds one, what was published stays |
| Question pipeline (`service.py`, `llm_planner.py`, `llm_client.py`, `context_router.py`) | the turn's plan and attempts, the dialogue's focus | classify, plan by rules, rewrite, plan by the model, retry | order of attempts and fallbacks, plans of three origins | only a checked plan is executed, inside the rights of who asks |
| Rule planner and semantic catalog (`rule_planner.py`, `business_rules.py`, `semantic_catalog.py`) | none | a plan for a question | some thirty cases whose order decides | the plan is about what was named |
| SQL compiler (`sql_compiler.py`) | none | SQL for a plan | each operation has a population of its own | what coverage takes an operation to do, its SQL does |
| Plan and SQL validation (`validators.py`) | none | coverage, plan, statement, alignment, result | lists that must match the compiler's | whatever passes is confined and complete |
| Date resolution (`date_resolver.py`) | none | dates, comparison dates | ends of months, quarters and years | the calendar |
| Answers and charts, command line, documentation tool | none, or presentation | | | not modelled, `PROJECT.json` gives the reason for each |

Interactions: `ProductQueryService` calls the question pipeline under the rights
of the user, stores the outcome in the product store, appends an audit event and
evaluates the rules of that event. The session store is shared by all threads.
The final answer is produced by a separate request that streams, after the query
was stored. Import and execution share the metric file's lock. A drill starts from
a stored record, by a button or a click of the page; every way back to a record
(history, export, share, drill, view) asks the present rights again.

## Modules

| Module | Models | State ↔ code | Actions ↔ code |
|---|---|---|---|
| `AlertRules` | what the counting rules promise, without threads: each event is judged at most once, in one step | the tables, and `judged`: the instant of each event's evaluation | `Log`: `add_audit`; `Judge`: a whole evaluation; `Unfreeze` |
| `SecurityAlerts` | the four counting rules, and that they implement `AlertRules` | `events`, `alerts`, `freeze` are the tables; `lock` is `_security_lock`; `req` the locals of a request | `Admit`: `_ensure_not_frozen`; `Stamp`, `Record`: `_audit`, `add_audit`; `ReadNow`, `Acquire`, `Count`, `Check`, `Raise`: the five steps of `_record_access_denied` and its siblings, one per SELECT or transaction; `Respond`, `StoreError`: how a request ends; `Unfreeze`, `Restart`, `Tick` |
| `AuditChain` | the hash chain, and that it implements `AuditLog` | `rows`, `anchor` are the tables, `seen` what a verifier has read | `AddAudit` is one write transaction; `VerifyRows`, `VerifyAnchor` are its two SELECTs; `EditRow`, `DeleteRow` come from outside |
| `AuditLog` | what an auditor may rely on: every event kept twice, a verification compares the copies | `written`, `stored`: the two copies; `calls`: verifications under way | `Write`: `add_audit`; `Look`, `Answer`: the two halves of `verify_audit_chain` |
| `StoreOpen` | opening and migrating | `table`, `columns`, `rows`, `anchor` are the file; `local` the variables of `_initialize` | one action per committing statement or SELECT; `Interrupt` ends an attempt at any of them |
| `PendingSession` | the incomplete query of one session | `memory`, `durable` are its two copies; `msg`, `seen` the locals of a request | `Begin`, `Restore…`, `Ask`, `Resolve…`, `Succeed`, `Fail`, `StartPending`, `ClearDurable`, `Persist…` follow `query()`; `ClearMemory`, `Wipe` are `clear_session` |
| `FinalAnswer` | the answer stream of one record | `record` is the row; `fallback`, `chunks` the locals of a generator | `Start`, `Begin`, `Chunk`, `ModelEnds`, `Store`, `Audit`, `FallBack`, `AuditFallBack` follow the generator; `Leave` is a client that goes at a yield |
| `MetricStore` | what importers and readers may rely on: one table, changed by whole permitted publications or given anew from the workbook | `store` is the table of the file that the database's name leads to, `requests` the publications under way | `Publish`: `publish` as one step |
| `MetricData` | the metric file, all that opens it, and that it implements `MetricStore` | `files`, `path`: the files and the two names; `opened`: DuckDB connections; `lock`: `database_lock`; `new`, `existing`, `tx`: locals of a build and of a publication | `Start` … `Tidy`, `BuildFails`: `ensure_database`; `Load`: `SemanticCatalog`; `Ask` … `Close`: `publish`; `Preflight`, `Execute`, `QueryEnds`: the executor; `Stop`: a process ends or is killed |
| `Questions` | what the planners see of a question: what it names, the phrases it says; the duties, the need for history and the missing slots that follow | `NoMemory` and its kind are a `SessionState` | operators: `Obligations`: `answer_obligations`; `Classify`: `ContextRouter.classify`; `ShouldStartPending`, `IsSlotOnlyReply`: `pending_query.py` |
| `RulePlanner` | `RulePlanner.plan` | | `Plan(q, memory, context)`: the draft's organizations, metrics, dates and scope, then the operation in the order of the code's cases |
| `RuleSql` | the SQL compiler | | `RuleSql(p)`: of each compiled query, what later checks can tell of it |
| `PlanChecks` | coverage, plan, rights, statement, alignment, scope view and result | | `Covers`, `ValidPlan`, `Authorized`, `Guarded`, `Aligned`, `Cells`, `ResultAccepted`, one operator per validator |
| `QueryPipeline` | `Text2SQLService.ask` under `ProductQueryService.query`, for a dialogue of one session | `memory`, `pending`: the session; `stage`, `question`, `planning`, `attempts`: locals of `_ask` | `Request`, `Return`, `ClearSession`; `RuleAttempt`: rules and context rules; `Rewrite`, `ModelAttempt`, `ModelFails`, `ModelBreaks`, `ModelUnsure`: the retry loops; `Attempt`: `_validated_execute` |
| `Calendar` | the date arithmetic of `date_resolver.py` and `_drill_range` | | operators on dates |
| `TimeDrill` | a record and what is drilled from it while data is published | `data`: the publications; `drilling`: locals of a drill between its two reads; `records`: what was saved | `PressButton`, `DrillRange`, `Click` (`handlePointSelect` of the page): `time_drill` up to its range, by the button, by a caller and by the page; `Execute`: the rows are read and saved; `Raises`; `Publish` |
| `ProductAccess` | accounts, tokens, records, shares, the clearing of sessions | `env`: the configured accounts; `tokens`, `context`: memory of the process; `records`, `shares`: tables; `requests`: locals | `AskQuestion`, `Answer`, `SaveQuery`, `TimeDrill`, `GetQuery`, `History`, `ExportRecord`, `BatchExport`, `CheckShare`, `InsertShare`, `OpenShare`, `LoadShared`, `ClearMemory`, `SelectQueries`, `DeleteSession`, `Audit`, `End`, `Login`, `Restart` |
| `MCSecurityAlerts`, `MCAuditChain`, `MCMetricData`, `MCQueryPipeline`, `MCTimeDrill`, `MCProductAccess` | instances for TLC | | |
| `SecurityAlerts_proof`, `AuditChain_proof`, `StoreOpen_proof`, `FinalAnswer_proof`, `MetricData_proof`, `QueryPipeline_proof`, `Session_proof`, `ProductAccess_proof` | theorems and proofs | | |

`QueryPipeline` and `ProductAccess` both extend `PlanChecks`, which extends
`RuleSql`, `RulePlanner` and `Questions`: the rights that confine an answer and
those that guard a stored record are one operator, `Authorized`, as in the code.

Variables marked "history" in a module exist only to state properties: no guard
reads them. Definitions that begin with `Mutant` are not part of a model. Each
changes one definition as a plausible mistake would (a dropped guard, a missing
reset, a forgotten count), and the property it is listed with in `PROJECT.json`
is violated when it takes that definition's place: this is the evidence that the
property says something about the code.

### Abstractions

- *SecurityAlerts.* Instants are small numbers and thresholds are scaled down;
  an event carries its user, the rule that counts it, its time and its rows. The
  S3 rule counts two actions with two SELECTs, modelled as one. A request brings
  one event of one rule. The alerts that are never merged (`LARGE_EXPORT`,
  `OFF_HOURS…`, `MULTI_METRIC…`) are left out: they are one unconditional insert.
- *AuditChain.* SHA-256 is an injective function (`HashAssumption`).
- *StoreOpen.* A hash is the number of events it covers.
- *PendingSession.* A message is its kind and the set of slots that can be
  recognised in it; how Chinese text is parsed is left out. An administrator's
  clearing of a session comes from any thread.
- *MetricData.* A table is a function on a few keys; an upload is what `_parse`
  makes of it, and an invalid one is a publication that fails. A file is bare (no
  tables), partial or whole. A file without a name stays as long as someone has it
  open, as POSIX has it; where the system refuses to remove an open file, `Unlink`
  fails, which `BuildFails` covers. Previews and the metric list open the file
  under the lock as a query does and are not separate.
- *Questions, RulePlanner.* A question is what it names (organizations, metrics, a
  day, a quarter or a year) and a set of phrases from a vocabulary of forty; a
  regular expression is the set of the phrases that match it. Where the code looks
  at the order of words, phrases stand in the order of the vocabulary after what is
  named. `ZB012` is never named in a question, since its name contains a word of
  comparison. A date is one of `day`, `period_start`, `period_end`, `year_start`,
  `mom`, `yoy`; what day those are is in `Calendar`.
- *RuleSql.* A query is the organizations, metrics and dates it shows and names, the
  organizations its ranks and averages are taken over, its columns, what one row
  stands for, and the features that the alignment looks for. Values are left out: a
  condition on values picks any part of the organizations. How many rows a Top-N
  keeps is not modelled. The organizations that a question joins to the dialogue's
  focus follow it in an order that no check and no query depends on.
- *QueryPipeline.* The language model may fail, break, be unsure, or give any of the
  listed rewritings, plans and statements. An increment may have brought a day
  before every organization has reported (`reported`).
- *TimeDrill.* One metric of one organization; a value is told by its day. `_drill_range`
  and the rows are two reads with a connection and a turn at the lock each, so a
  publication may fall between them. The rows and the saving of the record are one
  step: what was read is the thread's own until it is saved.
- *ProductAccess.* An account has one session. A batch exports every record of its
  account. `End` may end a request at any step and stands for a frozen account, a
  failing statement, an expired token or share, and a logout. Titles, file formats
  and limits of a batch are left out.
- *FinalAnswer.* The text so far is one value; an insight is told by its summary.

## Runs

Every run finishes within about two minutes. A run that expects a violation checks a single
property, a sentence of the documents or tests, and shows that the code does
something else; `PROJECT.json` ("findings") quotes both.

| Run | Shows |
|---|---|
| `SecurityAlerts_denied` | Two threads, one user, three instants, four denials, threshold two, with unfreezing, failing statements and restarts. An evaluation under the lock is as good as one step (`AlertRules`), a denial at the threshold leaves the account frozen, no burst goes unnoticed. |
| `SecurityAlerts_rules` | Spacing and bursts for share links (window) and daily exports (row sum since midnight), whose evaluations read the clock under the lock; and liveness: each return and exception releases `_security_lock`. |
| `AuditChain_tampered` | Two verifiers, three events, two contents, edits and deletions at any time: TRUE means the log was read as logged; a deletion stops the log; the chain implements `AuditLog`, so that FALSE without tampering means that an append came between the two reads. |
| `StoreOpen_files` | Two openers of a new file or an older one with up to two events, interruptions everywhere: older events are linked as a whole, a removed anchor is never rebuilt, and an opened store accepts events as long as the two did not overlap. |
| `PendingSession_one` | One request of a session at a time, failures and restarts at every step: disk holds what the user was told; the user is asked again at most twice in a row. |
| `PendingSession_restart` | *Violation.* A question that is denied after a restart erases the pending query. |
| `FinalAnswer_streams` | Two streams with disconnects, failures, deletion and restarts: the columns of the record agree, the core formatter's answer is never lost; while the streams do not overlap, a delivered answer stays and its fallback warning is true. |
| `MetricData_processes` | The server with two publications and a query, and a second process that starts, builds, fails or dies at any time: the metric file implements `MetricStore`; a publication reports the values it replaced; no answer comes from a half-built file unless two processes build at once; published values stay unless a rebuild is asked for or a process builds beside a running one. |
| `QueryPipeline_questions` | A dialogue of up to two answers: every phrase alone and every two together open it, follow-ups lean on it, replies complete it, the model answers anything from its lists. An answer is confined to the rights of who asks; ranks and averages of the province are over all of it; an answer of the rules has a column for every duty and is about what was named; no fallback leads back and attempts are counted. |
| `TimeDrill_periods` | Three drills in a row by button, click and given range over days on the edges of months, quarters and years, with a publication between drills or between the two reads of one: a drill shows the last day of every period it should, a year drill of every period in the range it read before, a click opens the period that was clicked, comparison dates are the calendar's. |
| `ProductAccess_shares` | Two requests at a time of a staff member, a reader and an administrator, two records and a share, restarts with another configuration: what is handed out with its values is within the present rights, a share keeps its record, audited requests have their event before the response, a cleared session is forgotten. |
| `MetricData_beside` | *Violation.* A second process that starts beside the server finds no file, or a locked one, rebuilds it unasked, and published values are gone. |

### Known limits that other runs step around

These disagreements are excluded from the properties by a condition, or left
outside the model's inputs, instead of being shown by a run of their own; those
that contradict a document or a test are quoted in `PROJECT.json` ("findings").

Order of steps:

- Three denials after an administrator's unfreeze do not freeze the account again
  while the alert of the first three is in its window: the alert is merged, and
  only a new alert freezes (`product_service.py` 1523-1569). `ThirdDenialFrozen`
  speaks of accounts that were not unfrozen within the window.
- An append between the two reads of `verify_audit_chain` makes it answer FALSE on
  an untouched log. `AuditLog` answers FALSE then too; `QuietAnswerTrue` and
  `FalseIsAnAppend` say that it is the only cause.
- A migration that is interrupted between the columns and the anchor leaves a file
  that is refused for ever although nobody touched it; and of two first requests
  that open the store at once, the slower may write an older count and hash over
  the anchor, and every later event is refused. `OpenAccepts` is stated for a
  store that did open, and for openers that did not overlap.
- Of two overlapping requests of one session, the later persist erases the pending
  query that the other was told of. `PendingSession_one` has one thread.
- A second answer stream that read the record earlier undoes a delivered answer.
  `DeliveredKept` and `WarningTrue` are stated for streams that did not overlap.
- A question or a drill of a session that is under way while the session is cleared
  puts its context and its record back. `ClearedForgets` excepts those sessions.

Answers:

- The average of the province is taken over the organizations that have reported,
  except where its column is named `province_average` (`RuleSql`, `TrueAverages`).
  `PopulationWhole` compares with what was reported.
- For four duties the coverage goes by a flag that the rules take from the words of the
  question, whatever the operation: `rank_population_all` counts as a rank,
  `regulatory_check` as a threshold, `needs_summary` as a profile and `include_extrema`
  as the extremes. So the value of a metric asked whether it is 达标 has no
  `threshold_met`, a threshold asked with an overall judgement no rank. `reconcile` counts
  as the sum also for the NPL rate. `DutiesServed` leaves out these five cases
  (`Overlooked`), each of which does occur, and demands a column of its own for each
  other duty, the rank included; a count or a threshold is also served by rows that a
  condition picks. The difference of two organizations whose values are both shown
  counts as shown.
- A profile of a whole year, a ratio asked with a threshold, and several malformed
  answers of the model end in errors that are none of the service's own: they are
  the outcome `crashed`. So would be an operation or a profile that the compiler does
  not know (`CompileFails`), which no plan of the rules is.
- A year drill reads the first and the last day of the data, and then its rows, in two
  statements: when a publication comes in between, the later rows are cut to the
  earlier range. `PeriodEnds` says of a year drill that it shows every year within the
  range it has read; that these are all years holds, and is proved (`ShowsWholeYears`),
  of drills that no publication divides. `ClickedPeriod` excepts days outside of the
  range of the drill above.
- The rows of a drill are cut at 200 and the record says `truncated: false`. Both
  properties of drilled rows except records that the model marks as cut.
- The date of a drilled record is the end of its range, so the button below it shows
  the last quarter or month of that range. `PeriodEnds` is stated of that date.
- Single records and a session's records are handed out without an audit event, and
  clearing a session's focus alone writes none. `Accounted` speaks of the requests that
  have one, the deletion of a session's records among them. The deletion is committed
  before its event: a process that dies in between has told nobody and leaves no event.

### Bounds

`MaxTime`, `MaxEvents` (in `SecurityAlerts`, `AuditChain`, `StoreOpen`),
`MaxFiles` (files of metric values that exist at once, in `MetricData`),
`MaxTurns` (in `QueryPipeline`), `MaxDrills` and `MaxEditions` (in `TimeDrill`, where
also only the latest record is drilled: a drill reads its source and no other
record) are the only bounds in guards. Two threads suffice for the races: every one is between a
request that stands still and one that overtakes it; in `SecurityAlerts` four
events at threshold two let a burst start a second time after an alert, and three
instants with a window of one let windows overlap, slide and expire. A log of
three events has a first, a middle and a last one, so edits and deletions hit
each kind, and a deletion followed by an append could restore the count. Two
legacy rows are enough for one linked and one unlinked row to coexist. Two
questions tell a kept pending query from a replaced one; the three slots and the
limit of three clarifications are the code's own. Two texts tell a delivered
answer from a later one. In `MetricData` two keys, one of them in the first
version of the workbook, make the one upload overwrite and insert; two files let
one be built, or be held open without a name, beside the current one; file numbers
are used again, so the number of builds is not bounded. Its `VIEW` leaves out the
content of free numbers, and the published values once the properties say nothing
of them. Threads are interchangeable in `SecurityAlerts_denied`, importers in
`MetricData_processes`, and both use that symmetry; the run with a liveness
property does not.

In `QueryPipeline` the second turn is the one that leans on a first; a third would
lean on a second in the same way, since the memory holds one answer. One retry tells
a counted attempt from a forgotten one. Three organizations of which two have
reported, and a user of one of them, tell the whole province from what was
selected, what is permitted and what is there; the branch user also lacks a metric.
The openings are each phrase with everything a question may name, and pairs of
phrases with a few names, since an operation is decided by at most a phrase and what
overrides it. In `TimeDrill` one thread drills, since drills share nothing but the
order of their records (the proofs are of any number); a limit of four rows cuts some
drills and not others;
three drills lead from the years to the days, and the days include the last ones of
February of a leap year. In `ProductAccess` two requests give every race between one
that has checked and one that changes, two records and one share let a record be
saved and shared while another is deleted, two configurations differ in role,
organization and metrics of both accounts that ask. Requests and records are
interchangeable there, and the run uses that symmetry.

`CHECK_DEADLOCK FALSE` stands in the runs whose bounds stop the system when the
log is full, the clock has run out or no drill is left, or whose system may really stop: a record
that is completed or deleted, a file that stays refused.

### Fairness

Only `SecurityAlerts!FairSpec` states fairness: weak fairness of `Evaluate` for
each thread. A thread inside `with self._security_lock` waits only for SQLite,
whose wait ends after ten seconds by an answer or an exception, so it always
takes its next step. The question pipeline ends by a variant instead (`LeadsOn`). No user, administrator or client is assumed to do anything.

## Proofs

TLAPS checks the theorems of the eight proof modules for every value of the
constants that satisfies the named assumptions. Every property that a passing run
checks is proved, except the liveness of `SecurityAlerts` (see "Only model-checked").

Where a property is not inductive, the proof module defines the stronger `IInv` and
proves `Init => IInv`, `IInv /\ [Next]_vars => IInv'` with one step per action, and
`IInv => ` the property.

`SecurityAlerts_proof` (assumptions: nonempty users and rules, natural bounds,
midnight never after an instant nor moving back, a freeze longer than the window
of denials, `NoThread` no thread).
- `Inductive`: `Spec => []Inv`.
- `Spacing`: `Spec => []AlertsSpaced`, for any number of threads, users, rules.
- `Freezing`: `Spec => []ThirdDenialFrozen`.
- `Bursting`: `Spec => []BurstAlerted`.
- `Refinement`: `Spec => Implements`, the threads implement `AlertRules`.
- `HolderGoesOn`: `Spec => [][HolderStep]_vars`, the thread inside the lock comes out of
  it after at most three steps of its own. It is what `LockReleased` needs beside
  fairness.

`AlertsSpaced` is not inductive. What makes it so is that a thread about to
insert knows the window to be empty (`Deduplicated`), which stays true only
because no other thread inserts meanwhile (`LockHeld`) and because the alert of a
late denial is older than the clock but inserted with the instant whose window
was searched (`RequestOK`, `at <= clock`). `FreezeBacked` says that each denial
alert has its freeze until an administrator lifts it; from it `Freezing` follows:
an evaluation over the threshold ends with a recent alert, its own or another's,
and that alert's freeze outlasts the window. For `Bursting` the argument is about the
evaluation of a burst that finishes last: every request records its event before it
evaluates it and counts events of its own user and rule (`OwnEvent`), so that
evaluation has counted the whole burst, reached the threshold, and has raised an alert
or met one that is at most one window old. `DailyExport`, whose measure is a sum of
rows, is not a burst in this sense and `BurstAlerted` is not about it.

The refinement takes the tables as they are, with `judged`, and drops threads, lock and
locals. An evaluation maps to one step, `Judge`, where it ends; everything it did before
is a stutter. What it counted is older than that step, so `AlertRules` lets an event be
judged by the log as it was at any moment from that event on (`KnowsEvent` carries that
moment from `Count` to `Raise`); that the window holds no alert is true at the step
itself (`Deduplicated`). `OwnEventAlone` keeps one request from judging another's event.
No property of the measure is used, so this covers the sums of `DailyExport` too.

`AuditChain_proof` (assumptions: `HashAssumption`, `BoundAssumption`).
- `Inductive`: `Spec => []Inv`.
- `Soundness`: `Spec => []TrueMeansHonest`.
- `DeletionIsFinal`: `Spec => DeletionStopsLog`.
- `FalseHasACause`: `Spec => []QuietAnswerTrue`, which no run checks by itself since
  `Implements` includes it.
- `Refinement`: `Spec => Implements`, hashes and anchor implement `AuditLog`.
- `NeverRefused`: `UntouchedSpec => []Consistent`; `FalseIsAnAppend`:
  `UntouchedSpec => []VerdictExact`: on a file that nobody edits no event is refused,
  and a FALSE means exactly that an event was appended between the two reads.

The invariant keeps the log as it was written (`honest`) beside the log as it is
stored: the stored one, and each copy that a verifier holds, is shorter, or has
the same hashes and differs only in bodies (`EditOf`). A verification that finds
as many rows as the anchor counts and all links intact then has equal bodies by
injectivity, position by position. After a deletion the stored log is shorter
than the anchor says, `Consistent` fails, and nothing can make it longer.

The refinement forgets hashes and anchor: `written` are the bodies of the honest log,
`stored` those of the stored one, and a call of a verifier remembers whether the two
were equal at its first SELECT. That equal bodies mean equal rows is `SameBodies` (an
edit keeps the hashes, so equal bodies leave nothing to differ). The second SELECT is
the step that needs everything: the abstract answer is an equality, `Soundness` gives
one direction of it and `FalseHasACause` the other. `AuditLog` lets a tamperer leave
any events that are not more than before, so the chain detects more than the edits
and deletions of `AuditChain` need.

`StoreOpen_proof` (assumption: `BoundAssumption`).
- `WholeMigration`: `Spec => []Inv`, in which an older file with an anchor is linked
  from its first event to its last.
- `OpenIsUsable`: `Spec => []OpenAccepts`.
- `LostIsRefused`: `Spec => LostStaysRefused`.

For any number of openers, interrupted anywhere. `OldFile` says of a file with an
event that is not linked that it has no anchor and that every opener under way has
seen the table; so none of them takes it for new, and the one that is about to link
the events has read all of them. It is what makes two openers of one older file
harmless to the links. The anchor is another matter: that it describes the log
(`Described`) holds only where openers did not overlap (`Alone`), since what the
second has counted is no longer true when it writes it. `Lost` is an invariant of its
own: once the anchor is gone and no opener is past its check, none can pass it.

`FinalAnswer_proof` (assumption: `TextsAssumption`, the two absent texts are no texts
of the model).
- `Agreement`: `Spec => []Inv`, the columns of the record agree.
- `NetNeverLost`: `Spec => []NetHolds`.
- `DeliveredIsKept`, `WarningIsTrue`: `Spec => []DeliveredKept`, `[]WarningTrue`.

For any number of generators. The core formatter's answer is never lost because every
generator at work has read a record that still had one (`NetBelow`), which in turn
holds because no UPDATE empties it (`NetHolds`): each needs the other. Without
overlapping, `Written` follows what a generator is about to send from its UPDATE to
its `answer_done`, and `Settled` and `Warned` say that afterwards nobody is left that
writes.

`MetricData_proof` (assumptions: `ActorsAssumption`; `DataAssumption`: the workbook has
a first version, whose rows and those of an upload are values of keys;
`NothingAssumption`: no request and no table is the absent one).
- `LockCoversAlways`: `Spec => []Inv`; `AnswersAreWhole`: `Spec => []AnswerWhole`;
  `ReportIsTrue`: `Spec => []ReportTrue`; `PublicationsSurvive`:
  `Spec => []PublishedSurvives`.
- `Refinement`: `Spec => Implements`, the metric file implements `MetricStore`.

For any number of processes and threads. Inside a process `database_lock` keeps the
threads apart (`LockHeld`, `LockCovers`), between processes DuckDB's own lock does
(`Exclusive`): together they give that what a publication compared is what its
transaction replaces (`Compared`), from which the report and the confirmation are
true. A name may lead away from a file that is still open; that the file under
construction is never one that a thread reads is `Names`. `BuiltWhole` holds while no
two processes build at once, `Undisturbed` while no process builds beside a running
one; both conditions are those of the properties. The refinement maps `store` to the
table of the file that the name leads to and `requests` to the publications between
their call and their COMMIT. The COMMIT is the one step that maps to `Publish`, and
only if the file is still the database: a publication into a file that has lost its
name maps to `Drop`, like one that fails. A file that comes to or leaves the name maps
to `Rebuild` or `TakeAway`, everything else to a stutter, `Ask` or `Drop`.

`QueryPipeline_proof` (assumptions: `PipelineAssumption`; `DialogueAssumption`, a
question names organizations of the catalog and a reply of the model that parses is a
plan with the fields of one; the vocabulary, the questions and what the model writes
are otherwise arbitrary).
- `Inductive`: `Spec => []IInv`; `TypeCorrect`: `Spec => []TypeOK`.
- `Confinement`: `Spec => []Confined`.
- `Unconfined`: `Spec => []PopulationWhole`.
- `Dutiful`: `Spec => []DutiesServed`.
- `Named`: `Spec => []AboutWhatWasNamed`.
- `Progress`: `Spec => LeadsOn`.
- `BoundedEffort`: `Effort`, a natural number of at most `5 * LlmRetries + 9`, falls
  with every step of a request under way.
- `NothingUnchecked`: `Spec => []AnswerPassed`; `AskedWithinRights`:
  `Spec => []QuestionPermitted`.

`Confinement` and `Unconfined` rest on the checks alone. A statement that passes `Guarded` can only name the
view, the view holds only the scope, and the scope of an authorized plan is within
the rights (`ViewOnly`, `ScopeWithin`). A plan that covers a rank or an average has an
operation or a flag that `SpansProvince` knows (`CoveredSpans`: the coverage's list
and the rights' list agree), so it is authorized only for users of the whole
province, and its scope is all of it (`SpanningScope`). `Progress` says that
every step leads on, `BoundedEffort` counts how often: a thread that takes its next
step comes to an outcome; fairness is not needed to state it. `NothingUnchecked` says
that an answer, by whichever of the paths through `_ask`, has passed each check of its
final plan and statement; it is what `ProductAccess` supposes of an answer it stores.
`AskedWithinRights` is about `_authorize_question`, which sees a reply alone and not
the question that the reply completes.

`Dutiful` compares two lists that the code keeps apart, the validator's and the
compiler's: `Columns` says of each of the 28 compiled operations which columns its
query has, `Served` that they include one for each duty that the coverage grants the
operation. Where the coverage goes by a flag instead, `Flagged` says for which
operations the rules set it; a plan is remembered, so this is invariant of the
dialogue's memory too (`WellMade`). `Named` follows the organizations and the date
from the question through the rewriting (`Related`: what is planned names what was
asked) and the planner, with and without the dialogue's focus (`About`), into the
answer. `Picking` says that the joint conditions do pick their rows. This found three gaps of
the model: an unknown operation, the difference that is told from two values, and what
is `Overlooked`.

`Session_proof`, the drills (assumptions: `DrillAssumption`, what is held is finitely many days,
a metric's among all; `CalendarAssumption`, no data is of the year 1, whose dates have
none of the last year to be compared with; the theorems about dates need neither).
- `PreviousMonth`, `PreviousQuarter`: the comparison date is the day before the first
  of the month or quarter. `SameDay`: the same period of the last year is that day or
  the end of its month.
- `MonthCovered`, `QuarterCovered`, `YearCovered`: a date lies in the default range of
  a drill if and only if it lies in the month, quarter or year of the focus. The
  argument compares dates by year, month and day (`Ordered`) and then months
  (`MonthsBetween`).
- `PageAgrees`: the range that the page computes for a clicked year, quarter or month
  is the one that the server would take for any date of it.
- `Types`, `ShowsPeriodEnds`, `ClickOpens`, `ComparedAsNamed`: `Spec => []TypeOK`,
  `[]PeriodEnds`, `[]ClickedPeriod`, `[]Comparisons`.
- `ShowsWholeYears`: a year drill whose range and rows were read from the same edition
  shows the last day of every year that has data.

They are for any number of threads, any data, any publications and any drills. `IInv`
says of every drill under way that it has its range from a record and an edition of the
data, and of every record after the first that it was made from such a drill and from an
edition not earlier (`Made`); records are never changed, so a step adds one and keeps the
others. What a
record of a given range shows is then a statement about data alone: the rows are the
latest days of the periods, in order, and the three calendar theorems tell which days
those are.

`Session_proof`, the pending query (assumptions: `QuestionsAssumption`, there is a
question; `NoPendingAssumption`, the absence of a pending query is none).
- `SessionTypes`: `SessionSpec => []SessionTypeOK`, for any number of requests at once.
- `SessionInductive`, `AskedAgain`, `GoesOnWhereTold`: `SessionSpec /\ []OneAtATime =>`
  `[]SessionIInv`, `[]Inv`, `[]ResumesWhereTold`.

`OneAtATime` says that at most one request of the session is under way; with one
thread, as in the run, it always holds (`SingleThread`). It is a hypothesis because the
properties are false without it (see "Known limits"). The invariant follows the two
copies of the pending query through a request: `Copies` says that SQLite holds what
the user was told and that neither copy has forgotten a clarification, `Serves` how the
request under way stands to both copies at each of its steps, in particular that one
that was not served and finds nothing in memory has nothing to erase. That last part
fails after a request that ended before it restored the session; the history variable
`lost` marks it, and the violating run shows it.

`ProductAccess_proof` (assumption: `PlansAssumption`, plans are records of the
types that the code gives their fields).
- `Inductive`: `Spec => []IInv`; `TypeCorrect`: `Spec => []TypeOK`.
- `Entitled`: `Spec => []WithinRights`, for any number of accounts, requests,
  records, shares and configurations.
- `SharesKept`: `Spec => []NoOrphanShare`.
- `EventFirst`: `Spec => []Accounted`, deletions included.
- `Forgotten`: `Spec => []ClearedForgets`.

What a request holds was checked under the rights of its token, and these are the
configured ones because a restart drops tokens and requests together: `SoundIn` says
of each step of each kind of request what it has checked so far, and is kept by
every other request because records never change once saved. `Quiet` says of a
clearing that no request has worked on its session since, which is what makes
"forgotten" stay true between the deletion and the response.

### Only model-checked

- `LockReleased`: liveness under fairness is out of the prover's reach; `HolderGoesOn`
  is its safety part.
- Which operation the rules choose for which phrases. The theorems hold of whatever
  plan the cases of the planner give; that the cases are met, and in which order, is
  seen on the questions of the run.

## Plan

Done: the components above and the proofs of their runs' properties. Left, in order of
importance.

1. An abstract specification of `PendingSession` with one request at a time (one
   durable pending query), and `AuditLog` for what `StoreOpen` leaves behind.
2. The choice of a chart (`chart_recommender.py`) and of the answers that need no
   model (`answerer.py` 60-147) as functions of plan and result.

## Not modelled

The recognition of phrases, names and dates in a Chinese text (string matching
without state), arithmetic on values, the number of rows of a Top-N, the wording of
answers, the text of generated SQL, the layout of pages and documents, the command
line and the documentation tool. The language model is an environment that may
answer anything in the lists it is given; the proofs hold for any lists.
