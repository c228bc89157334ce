# A formal model of learn-cli

TLA+ modules, TLC configurations and TLAPS proofs for the core logic of learn-cli:
the `learn-api` Worker (D1 rows, KV revocation entries, stateless tokens), the voice
bridge, the CLI's local store and sign-in, the motivation layer, the subject conformance
gate with its schema validator, the site export, and the launch gate. Every definition is
translated from the source; `PROJECT.json` maps each to its lines.

## The system

Learners sign in with GitHub, accept the terms, record results, and - once an admin
approves them - use text tutoring and voice sessions. The same API serves a static site
and an offline-first CLI.

| component | state it keeps | operations | talks to |
|---|---|---|---|
| learn-api Worker (`workers/learn-api/src`) | none between requests | one handler per route | D1, KV, GitHub, the tutor upstream |
| D1 (`schema.sql`) | `learners` (with a JSON blob: visibility, approved, voice_usage), `records`, `consents` | single statements, one erasing batch | Worker |
| KV `SESSIONS` | `revoked:<sid>`, `revoked_uid:<uid>`, with expiry | put, get | Worker |
| session and voice tokens | signed payloads held by clients | issue, verify, slide | all |
| voice bridge (`infra/voice_bridge`) | session rows and frame rows in DynamoDB | `$connect`, `$default`, `$disconnect`, the session holder's pump | Worker's voice tokens, Bedrock |
| CLI profile (`learn/profile`) | `ledger.jsonl`, `sync.json`, `auth.json` | append, push, save cursor, device sign-in | Worker |
| motivation layer (`learn/motivation`) | none, pure functions of the ledger | scores, streaks, decay, review, what next | CLI |
| subjects (`learn/subjects`), contract (`learn/contract`) | none | run a subject's verbs, validate its JSON, the conformance gate | subject CLIs |
| front door (`learn/front`) | the files of the exported site | export, MCP tools | subject CLIs |
| launch gate (`tools/launch-gate`) | the results file of one run | producers append rows, the report reads them | everything, as a black box |
| site scripts (`site-astro/src/scripts`) | one page's session objects | tutor, voice, consent, learner panel | Worker, bridge |
| static checks, deploy workflows | build artefacts | build | - |

What is hard here is **concurrency between requests**: the Worker is stateless, every
`await` on D1 or KV lets another request of the same learner run, and there is no
transaction across two statements. Then **partial failure** (each handler is a sequence
of independent writes), **time** (month rollover, token and tombstone expiry, equal
milliseconds and seconds), **lost and repeated calls** (CLI pushes, the bridge's
asynchronous launch), and **crashes** (files of the CLI's store).

What makes each component correct:

* *learner row* - the voice budget of a month is never overrun; withdrawn approval stays
  withdrawn; a booking is computed from the row it overwrites; a refused mint means a
  spent budget.
* *account* - nothing is stored before consent and nothing without consent after an
  erasure; a signed-out token stays out; an erasure signs the learner out everywhere.
* *voice bridge* - no stream without a genuine token, no more live streams than the cap,
  every slot given back, frames in order.
* *CLI sync* - every ledger row reaches the server, in order; the cursor never skips a
  row; what may be duplicated.
* *device sign-in* - only a full session is stored, a code confirmed in time is honoured,
  no session is left that no sign-out reaches, the loop ends.
* *motivation* - streaks, scores, queue and advice mean what their documentation says at
  every threshold.
* *conformance gate, validator* - healthy means conformant, but for what the gate does not
  look for; valid means what the schema says.
* *site export* - a missing subject never fails it, and its files agree.
* *launch gate* - green means that every check was made and passed, but for those that leave
  no row.

The list of hazards with their lines is `hazards` in `PROJECT.json`.

## Modules

| module | what it is | status |
|---|---|---|
| `LearnerRow` | one row of `learners` under concurrent requests | done |
| `VoiceBudget` | abstract: seconds granted atomically within the cap | done |
| `MCLearnerRow`, `row_*.cfg` | TLC instances of `LearnerRow` | done |
| `LearnerRowProofs` | proofs for every value of the constants | done |
| `Account` | consent, learner row, records, tokens and KV entries of one account | done |
| `MCAccount`, `account*.cfg` | TLC instances of `Account` | done |
| `AccountProofs` | proofs for every value of the constants | done |
| `VoiceBridge` | the bridge's router, table, launches and session holders | done |
| `VoiceGate` | abstract: a stream only after a genuine token | done |
| `MCVoiceBridge`, `bridge*.cfg` | TLC instances of `VoiceBridge` | done |
| `VoiceBridgeProofs` | proofs for every value of the constants | done |
| `Positions`, `PositionsProofs` | picking entries of a sequence by their indices, with its lemmas | done |
| `ProfileStore`, `MCProfileStore`, `profile.cfg` | ledger, cursor, push, crashes, commands at once | done |
| `ProfileStoreProofs` | proofs for every value of the constants | done |
| `DeviceLogin`, `DeviceLoginProofs` | sign-in and sign-out of the CLI | done |
| `Conformance` | `learn subject doctor` | done |
| `SchemaValidator` | the contract's JSON Schema validator | done |
| `Motivation`, `StreakCounter` | the pure functions over a growing ledger; abstract: a streak counter | done |
| `SiteExport` | `learn site export` | done |
| `LaunchGate`, `LaunchGateProofs` | the acceptance run | done |
| `StudyProofs` | proofs about `SiteExport`, `Conformance`, `Motivation` and `SchemaValidator` | done |
| `MCStudy`, `study.cfg` | TLC instance of `DeviceLogin` and the five models after it | done |

`LearnerRow` and `Account` look at the same Worker from two sides and meet at the gates:
`Account` models what `requireAuth`, `requireConsented` and sign-in decide, `LearnerRow`
starts its requests after them and assumes nothing of them later, since a gate only
speaks of the moment it read. That is why both have a sign-in's upsert and an erasure.

### LearnerRow

State: `row` (does it exist, its decoded blob, its `updated_at`), `clock` in
milliseconds, `month`, and for every request the handler's local variables: the row it
read (`seen`), the month a mint fixed at its start, the attempt number, and the time its
last I/O returned (`since`: `new Date()` is taken after that and before the write).

| action | code |
|---|---|
| `Start` | a routed request, named by its operation; a visibility request by its value |
| `UpsertLearner`, `DeleteLearnerData` | `db.js` `upsertLearner`, the `learners` part of `deleteLearnerData` |
| `RequireKnownLearner` | the admin handlers' lookup, 404 without a row |
| `ReadForUpdate`, `SetLearnerVisibility`, `SetLearnerApproved` | the read and the unconditional write of the two plain read-then-write helpers |
| `HandleTutor` | the approval gate of `/api/tutor`; the upstream call follows it |
| `HandleVoiceToken` | `/api/voice/token` up to its first booking |
| `SetLearnerVoiceUsage` (`WinBooking`, `LoseBooking`) | the compare-and-swap, its success and its retry or refusal |
| `BookAgain` | the re-read of a later attempt and its cap check |
| `Tick` | time passes, possibly into the next month |

A clock millisecond is a value of `updated_at`, so equal milliseconds are equal stamps.
`UniqueStamps = TRUE` excludes them and is the one assumption the compare-and-swap's
contract needs; `FALSE` allows them. A revoke deletes the key and a missing key reads as
not approved: both are `FALSE` here. A token whose booking failed is never returned, so
minting is part of the booking. An attempt by a learner whose row is gone binds
`undefined`, which D1 refuses: the handler answers 500.

History variables: `granted` (seconds of tokens returned per month since the row was last
erased), `clobbered` (a write discarded state it had not read: a plain write over a
changed blob, or a booking of an earlier month over a later one), `withdrawn` (approval was
taken away and no approve request is or was running since), `stamps` (all stamps used).

### Account

State: the newest consent version, whether the learner row exists and is approved,
whether a record exists, every token issued (named by the request that issued it), the
second at which KV drops each token's tombstone, the erasure marker with its value and
its expiry, and each request's position. One action is one D1 or KV call, except that
`RequireAuth` is one step: the entries it reads only ever appear during a token's life,
so the earliest moment of its three reads is as permissive, and the latest as strict, as
any interleaving of them. `SignIn` stands for the web callback and the device poll, which
differ in how they hand the token over. `Fail` ends a handler at any call (the Worker's
500). `PublishTerms` is a deployment with a new terms version. A record inserted for a
learner without a row is refused by the foreign key (`schema.sql:44`), which D1 enforces.
(The comment at `db.js:341` says that key is not declared; the schema declares it.)

`disturbed` is history: an erasure overlapped another request of the learner, failed
halfway, or fell in the very second in which another session was issued (which the
marker spares on purpose, `auth.js:62-69`).

### VoiceBridge

One Lambda in two modes that meet in one DynamoDB table: the router of a WebSocket API,
and - invoked asynchronously by itself - the holder of a Bedrock stream. Every table
operation is a step, so invocations interleave between them.

| action | code |
|---|---|
| `Unauthorised`, `Connect` | `$connect`: verify the token, count the active rows, compare with the cap, fix the deadline |
| `PutSession`, `LaunchSession` | the row, then the self-invoke, which may be refused or accepted without an answer |
| `FrameArrives`, `StoreFrame` | `$default`: look for the row, then store the frame |
| `HangUp`, `Disconnect` | the client leaves; `$disconnect` deletes the row, if it comes |
| `Deliver` | Lambda starts a holder for a launch, a second time for `Redelivered` |
| `OpenStream`, `OpenFails` | `open_stream` and the setup events |
| `TakeFrames`, `ClearFrames`, `SendFrame` | one poll: query, deletes, `order_frames`, one event per frame |
| `DeadlineReached`, `StreamClosed`, `PumpRaises` | the three ways out of the pump |
| `CleanUp` | `_run_session`'s `finally` |
| `Crash`, `LambdaTimeout`, `Purge`, `Tick` | the platform |

A row is its `expires_at` (0: no row). An asynchronous invocation that fails is retried by
Lambda (the template has no `EventInvokeConfig`); one retry is modelled. The count query is
eventually consistent, which adds nothing to a count that may be stale anyway. A failure of
the setup events, raised before the pump's `try`, leaves the stream to the SDK: `OpenFails`
counts it as never opened. A receiver task that dies leaves the pump deaf until the
deadline: it sends on, as `SendFrame` does. That a token may be shown twice is documented
(`voice.js`: the mint is capped, not the use), so `VoiceGate` asks for a genuine token, not
for a fresh one.

History: `disturbed` (a row put on a stale count, a slot freed under a launch or a running
holder, a second delivery, a delivery after the deadline) and `overtaken` (frames stored
after a later one was taken). `disturbed` names exactly what the cap does not survive.

### ProfileStore

One process per `learn record`, over `ledger.jsonl`, `sync.json` and `auth.json`; no locks.
A ledger line is who wrote to it and whether it parses: a write cut short leaves a line
unended (`ended`), the next append continues it, and two objects on one line are neither. A
line cut inside a character makes the file undecodable for every reader (`Decodes`). The
rows a reader gets are the lines that hold one, picked by index (`Positions`). The
cursor file is emptied, then written (`TruncateCursor`, `WriteCursor`); in between, or after
a kill, it is unreadable and counts as zero. `PushFails` is an `ApiError` - refused, not
reached, or inserted without an answer; `PushRaises` is a broken connection, which
`_request` does not translate. `Refused` rows are refused always. Which account a row went
to is not followed: the cursor is not reset when the learner signs in as another.

### DeviceLogin

The polling loop (`Sleep`, then `Pending`, `Complete`, `UnexpectedStatus` or `PollFails`),
the session file's two writes (`OpenAuth`, `WriteAuth`), and logout (`LoadAuth`, `Revoke`,
`FindAuth`, `UnlinkAuth`). Commands overlap and die anywhere. A file opened by one login and
deleted by a logout takes the login's bytes with it (`opened`). `Confirm` and `Consent` are
the learner's. Time counts in default intervals, and a code is confirmed only while it
lives. `mishaps` lists what may put a session out of reach.

### Conformance and SchemaValidator

`Conformance` runs the probes in order; a probe's answer is one of the ways `_run` and
`_probe_verb` tell answers apart. Output that does not decode is not one of them: `_run`
raises, and `GateRaises` ends the gate at that probe or in the middle of the stories, without a
verdict. The loop over the stories is a step per story, with the
variables of `_probe_cloze_items`; the answers and the stories read are kept as history.
The loops inside one exercise are quantifiers. A cloze exercise is its placeholders and its blanks, a
field `Missing` or `Odd` (of the wrong type) where the code looks for that. The structural
checks are the operators of the same names. `HealthyMeansConformant` compares the verdict
with the contract's 3.6.1, written without the code's accumulators: `WellFormed` is what it
has doctor check inside an item, `IdsUnique` that no two items of the subject, in one story or
two, share an id. The code compares ids of different stories only, so the verdict is the
contract's except for `IdsOverlooked`, which the property names. The half of 3.6.1 that is left
to a schema (patterns, words that are not empty) is abstracted; no schema is applied to a story.
`SchemaValidator` is `_check` with the walk of `unsupported_keywords`; `Allows` says which
values a schema allows, keyword by keyword. Regular expressions are sets of strings. The
code recurs; the module has recursive functions, so that it can be proved about: `Parts` are
the schemas anywhere in a file, each with the file its local `$ref`s are resolved in, a query
is a value held against a part, and `CheckValue` of a query is what `CheckAll` makes of the
results of its `Calls`. `Depth` and `Height` say that both recursions end: files are
finite, and no `$ref` reaches itself with the same value, where the code ends in a
`RecursionError`. TLC computes both for the instance and so checks that they exist.

### Motivation

A ledger grows by `Practice`, days pass by `NextDay`, and every function of
`learn/motivation` is an operator over it. Retention is compared through its logarithm: the
age of an item in days plus its level's head start in half lives, in units of 1/10000, which
orders the same and meets the thresholds on the same day. The review queue is given by
rank - its n-th item is the one with n - 1 due items before it - which is what the code's
sort by (retention, time, name) returns. A run of days is given by its length: the largest
number of days on end that are active, which is where the loop that counts back stops. Rows of one day are in ledger
order, as their time stamps are; a row with the clock of another day is left out, and so
are the subject's own mastery levels, which only `progress` passes on. `what_next` is
checked for every combination of what two subjects may report, none among them.

### SiteExport

The export file by file: `meta`, one row per subject (availability, then its overview), and
one story file per available subject. `Drive` is what the driver makes of a subject: its
payload, a `CliError`, or an exception that is neither. A registry is `sound`, `refused` (a
`CliError`: it cannot be opened, is no JSON, or holds an entry that is refused) or `raises` (no
text, or no list where one is gone through). `WriteFails` ends an export at any directory or
file it cannot make or write, `Kill` anywhere; both may leave the file torn (`Torn`), and
exports are started again over what is left. Subjects come and go during an export. `raised`
and `unwritten` are history: whose call raised, and whether a write failed.

### LaunchGate

Producers in turn, each of a kind. The bar, `walk.mjs` ("browser") and `consent_walk.mjs`
("walk") keep their rows until the end, shell checks and tests append each as it is made
(`MakeCheck`, `Finish`). Not every check leaves a row. `conftest.py` records the call phase only,
so a test whose setup fails leaves none, nor does a shell step whose append fails (`LeaveNoRow`).
`walk.mjs` without a browser writes SKIP for the checks on its list, nothing for those it leaves
out, and makes the fallback's checks instead (`NoBrowser`). After a failure in the browser the
checks that build on it are not made. `Raise` and `Die` end a producer early and `run.sh` goes
on (`|| true`); a walk that throws appends a FAIL row for itself, and one that was appending
may leave a part of its rows and a cut line. A line that is no JSON makes the report fail.
`died`, `blind` and `lost` are history: the producers that ended early, the walks without a
browser, and the checks that left no row. `Checks` are those of the mode `run.sh` is in, local
or live. A check on the list stands for it in every viewport.

### MCStudy

`DeviceLogin`, `Conformance`, `SchemaValidator`, `Motivation`, `SiteExport` and `LaunchGate`
share no state with each other. One instance holds them all: a variable says which part is
at work, the others stay at an initial state, and each property speaks of its own part. It
extends the components, so that their properties keep their names. Values are chosen so that no two are equal in Python and different in JSON.

## Runs

| run | instance | shows |
|---|---|---|
| `row_all` | three requests of all eight kinds, cap for one session, two attempts, four milliseconds, one rollover | `BookingIsFresh`, `BudgetUnlessClobbered`, `WithdrawnUnlessClobbered` |
| `row_mints` | three mints, sign-ins or erasures, cap for two sessions, three attempts, one month | `LearnerRow` implements `VoiceBudget` (`BookingIsAtomic`); `RefusedOnlyWhenSpent` |
| `row_ties` | two requests of all kinds, equal milliseconds allowed | `MeterWithinCap`, `EveryRequestAnswered` |
| `row_budget` | mints and one plain writer | the budget is overrun (finding 1) |
| `row_revoke` | tutor, revoke and a plain writer | a revoke is undone (finding 2) |
| `account` | three requests of all eight kinds, failures, one terms bump, six seconds with a TTL of two | `SignedOutStaysOut`, `ZeroTraceUntilAccepted`, `NothingWithoutConsentUndisturbed`, `LoggedOutEverywhereUndisturbed` |
| `account_erasure` | a sign-in and an erasure | a learner row without consent (finding 3) |
| `account_logout` | `/me` and an erasure | a session outlives the erasure (finding 4) |
| `bridge` | two connections, one slot, five tokens, one launch repeated, two frames, three ticks | `VoiceBridge` implements `VoiceGate` (`GateIsTheOnlyEntry`); `StreamsWithinCapUnlessDisturbed`, `AudioOnceInOrder`, `SlotsComeBack` |
| `bridge_cap` | the same without audio or repeated launches | two streams with a cap of one (finding 5) |
| `profile` | three `learn record`, one of a row the API refuses, with cuts, kills, lost answers, sign-in and sign-out at any time | `CursorCountsPushedRows`, `PushedInOrder`, `OkMeansPushed`, `OnceUnlessDisturbed` |
| `study` | `MCStudy`, see below | one to five properties of each of six modules |

The parts of `study`:

| part | instance | properties |
|---|---|---|
| sign-in | two logins, one logout, codes of two intervals, intervals up to three | `OnlyFullSessionsStored`, `TimedOutMeansUnconfirmed`, `SessionsInReach`, `LoginEnds` |
| conformance | up to two stories and one bad answer; a first story with every shape of two blanks, or of two sample exercises | `HealthyMeansConformant`, `NoCheckSkipped` |
| motivation | three outcomes in four days over two subjects, thresholds scaled down to fit | `ReviewsComeFirst`, `MaintenanceMeansDone`, `MeanMovesTowards`, `QueueMovesAlone`; `Motivation` implements `StreakCounter` (`StreaksAreCounters`) |
| schema | every leaf keyword, every combinator around each, choices of two, against scalars, one level of arrays and objects | `GuardedSchemasMeanWhatTheySay` |
| export | two subjects, four registries, two exports, one kill or failed write, one listing of all four kinds of entries | `MissingSubjectsAreHarmless`, `StoriesFollowTheListing`, `FilesAgreeUnlessChanged` |
| gate | a shell step, the bar, pytest and the walk in the browser, with a check on the list of skips, one that is not, and one of the fallback | `GreenMeansRunUnlessLost` |

**Bounds.** Every bad state of this code we know of is reached by two or three requests
(seeing it served, after an erasure and a new sign-up, takes a fourth), and three leave
room for two rivals of a mint, which is what it takes to exhaust two attempts (`row_all`)
and to lose twice and win with three (`row_mints`). Each request is
used once and the names are interchangeable, hence the symmetry; `row_ties` checks
liveness and uses none. `MaxClock` gives every write of three requests a stamp of its
own; it only ends time. `MaxSession = 2, MonthlyCap = 3` leaves a remainder too small for a
session, the boundary of the cap check. In `account`, tombstones live twice the TTL of
two seconds and `MaxNow = 5` lets a token of the first second, its refresh and the
entries that must catch them all expire.

In `bridge` two connections and one slot are enough for a stale count, a freed slot under a
running holder, and a repeated or late launch; a third connection would only be refused. With
`MaxSession = 1, Timeout = 1, Grace = 2, Horizon = 3` a token, a session, a holder's time and
a row can all expire, in the order of the deployed values. One connection talks, with two frames, which is what a reordering
takes; the other one's launch may be repeated. In `profile` one command's row is refused
always and the other two race. In `study` the thresholds of the motivation layer are scaled so that a ledger of
three entries reaches both sides of each (backlog, batch, half life, story recency), and
the sets of stories, schemas and values hold each case the code tells apart and, where order
or nesting matters, pairs. Deadlock checking is off everywhere: a behavior ends when its
requests are answered and time has run out.

**Fairness.** `EveryRequestAnswered` assumes weak fairness of every request's next step:
the platform runs an accepted request to its end, and D1 answers. Nothing is assumed of
time or of arrivals. The property is checked with equal stamps allowed, since excluding
them makes a write wait for the bounded clock. `SlotsComeBack` (the bridge's `FairSpec`)
assumes only that time passes, which here includes Lambda ending a holder at its timeout and rows expiring;
nothing is assumed of the bridge's own code, of clients or of deliveries. `LoginEnds` assumes
that the process of a started login runs on and that its calls end, as the CLI's HTTP timeout
sees to; nothing about the learner, the API's answers or any other command.

### Findings

1. `setLearnerVisibility` (`db.js:261`) writes back the blob it read. A booking between
   its read and its write is erased, and its seconds are granted again, although
   `index.js:743-745` says the booking "can only succeed at most once per booking's worth
   of headroom no matter how many requests race here".
2. The same write restores `approved: true` over a revoke that ran in between, although
   `index.js:916-917` says a revoke "takes effect on the learner's very next /api/tutor
   call".
3. The sign-in paths check the consent and then upsert the learner; an erasure between
   the two leaves a row without consent, against `schema.sql:7-9`.
4. A sliding refresh authenticated before an erasure issues its token after the marker
   was stamped; the token is accepted until it expires, against "delete logs me out
   everywhere" (`index.js:996-997`, `auth.js:58-59`).
5. The bridge counts the rows, compares and puts its own in three steps (`handler.py:93`);
   overlapping connects are all admitted, against "Hard cap on simultaneous voice sessions"
   (`infra/template.yaml:78-87`) and `config.py:16-18`.

Four more scenarios need no run of their own; the constants below reproduce them from
`row_budget.cfg` or `row_revoke.cfg`:

* a retry of a booking after the month rolled over writes the old month over the new one
  (`README.md:853` of the Worker calls the rollover free): `row_budget` with `Ops = {"mint"}`
  and `MaxMonth = 1`;
* two bookings in the millisecond of the row's stamp both land (`db.js:310-312` says a
  winner "invalidates every loser's stamp"): `row_budget` with two requests,
  `Ops = {"mint"}`, `MaxClock = 1`, `UniqueStamps = FALSE`;
* a mint that lost its booking to a revoke retries without looking at the approval:
  `row_revoke` with two requests and `Ops = {"mint", "revoke"}`;
* a plain write that read the blob before an erasure lands on the re-created row
  (`README.md:157` says "approval never survives deletion"): `row_revoke` with four requests,
  `Ops = {"tutor", "public", "delete", "signin"}`, `MaxClock = 4`.

They are why the proved properties carry `~clobbered` and `UniqueStamps`: these are
exactly the circumstances the code's promises need. In the same way every property named
"Unless..." or "...Undisturbed" excuses what its history flag records: it does not catch these
hazards, it shows that there are no others. The notes of `hazards` in `PROJECT.json` say where.

Writing the other modules met further differences between code and text, which the models
contain (as a value, a history flag or an action) but no run is spent on:

* *CLI store.* A row that parses but was cut before its newline is counted by the cursor, and
  merged away by the next append, so a later row is skipped (`_syncstate.py:7-10`,
  `_ledger.py:14-16` say the cursor never skips); `_request` does not translate a connection
  broken while the answer is awaited, so `learn record` fails after having recorded
  (`record.py:8-10`, "never raises" of `_sync.py`); a line cut inside a character makes every
  reader raise `UnicodeDecodeError` (`_ledger.py:12-14`).
* *Device sign-in.* `consent_required` is reported as an unexpected status although the
  Worker (`index.js:289-290`) hands the CLI a pending session for it; a login over an old
  session never revokes that one; of two overlapping logouts one can end in
  `FileNotFoundError`.
* *Conformance gate.* The text says that the schema check on `story_read` covers the
  exercises' shape (`conformance.py:328-331`, `365-366`), but no schema is ever applied to
  `story_read`; a placeholder that occurs twice counts once, two equal options count as two;
  an unreadable story fails the reuse check only when another story has items. The contract
  asks for an exercise's `id` to be unique among all of the subject's cloze items
  (`docs/specs/subject-plugin-contract.md:184-186`, `226`); the code compares the stories an id
  is used in (`conformance.py:392`), so two items with one id in one story pass, as do items
  without an id (`IdsOverlooked` in `HealthyMeansConformant`). Output that does not decode ends
  the whole gate with `UnicodeDecodeError` (`conformance.py:97-108` catches a timeout and a
  failed spawn only), and the checks after it are never made (`GateRaises`, `NoCheckSkipped`).
* *Motivation.* With no subject known the advice is a fresh story in mode "maintenance", with
  "everything is mastered", although nothing is: `_models.py:229` explains that mode as "all
  done", and `_all_done` asks for at least one subject. `what_next` gets there by having no new
  material and no queue (`MaintenanceMeansDone`); a malformed `at` stops `progress` and `next`; a row dated in the
  future counts into the current streak.
* *Validator.* Python's `True == 1` shows through `enum` and `const`, `1.0` is no integer, a
  schema whose `$ref` reaches itself ends in `RecursionError`, against "Semantics follow draft
  2020-12".
* *Site export.* The story file of a removed subject stays; a failed `story list` publishes an
  empty list; undecodable output raises where `_driver.py:9-13` promises a `CliError`, and the
  exit status is then 1 where `_errors.py:16-20` says 2. So it is for a registry that is no
  text, or holds no list where `subjects/__init__.py:78`, `95` or the loop over the entries goes
  through one, although "a malformed registry is an environment error (exit 2)"
  (`subjects/__init__.py:75-76`), and for a directory or a file that cannot be made or written
  (`_export.py:41`, `133-136`, `159-163`); `MissingSubjectsAreHarmless` names all three.
* *Launch gate.* `tools/launch-gate/README.md:40` says "the gate never silently passes an un-run
  check", and `tests/e2e/conftest.py:10-12` that each test's outcome is appended. The verdict is
  PASS without the checks of a producer that died, as `|| true` lets the run go on; without a
  test whose setup failed (`conftest.py:53`); and, when no browser starts, without "web write
  lands in /api/progress" and "CLI 'learn record' syncs to the API", which the list of skips
  (`walk.mjs:299-312`) leaves out. `GreenMeansRunUnlessLost` names all three, and shows that
  there is no other way.

## Proofs

`LearnerRowProofs`, for every set of requests, cap, session length, number of attempts
and clock bound (`RowAssumption`: naturals, positive where the code's defaults make them so):

* `TypeCorrect` - the type invariant; it includes that no booking exceeds its attempts.
* `BookingContract` (`BookingIsFresh`) - from `StampInv`: the row's and every snapshot's
  stamp was drawn before, and a snapshot with the row's stamp holds the row's blob. Every
  step does one of three things to a snapshot (`SnapshotStep`) and one of three to the
  row (`RowStep`); a new stamp is one no snapshot carries.
* `BudgetHolds` (`BudgetUnlessClobbered`) - `BudgetWithinCap` alone is not inductive: the
  next booking is checked against the meter, not against `granted`. `BudgetInv` adds that a
  handler about to book has room in its own snapshot, and that without a blind overwrite
  the meter is the account of what was granted in its month and nothing was granted in
  later months. With `StampInv` the snapshot is the row.
* `WithdrawalHolds` (`WithdrawnUnlessClobbered`) - while an approve runs `withdrawn` is
  false; every other writer carries the flag it read, which is the row's flag unless the
  write is a blind one.
* `MeterHolds` (`MeterWithinCap`) - needs neither distinct stamps nor the absence of
  overwrites: every meter written was read from the row or passed the cap check.
* `BookingImplementsBudget` (`BookingIsAtomic`) - where only mints, sign-ins and erasures
  run and the month does not change, nothing is ever clobbered, so each step is a `Book`,
  an `Erase` or a stutter of `VoiceBudget`.
* `BooksUntilClobbered` - the same, step by step, for any mixture of operations and any
  number of months: with distinct stamps, each step until a write discards state it had not
  read.
* `RefusalHolds` (`RefusedOnlyWhenSpent`), for finite `Requests` - a handler that writes the
  row is done with that step, so each attempt lost stands for one more rival that is done
  (`RaceInv`), and with fewer rivals than attempts the attempts are never used up by races
  alone; so the refusal came from a meter read. `CoverInv`: a meter shows no more than what
  was granted. That needs `MeterNeverRestored`: either nothing is erased, or stamps are
  distinct and no plain writer runs. Otherwise a write of an earlier blob can put a meter
  back that an erasure had reset, and a refusal can be wrong.
* `StuckNever` and `AnswersHold` - `EveryRequestAnswered` without its fairness. `HandlerInv`
  says where each handler may be; then every request in flight stands at a call it can make,
  and `CallsLeft`, the calls it has yet to make, goes down with each and up with nothing: a
  mint that loses all its races makes `2 * MaxAttempts` of them.

`AccountProofs`, for every set of requests and TTLs with `0 < PendingTTL <= DefaultTTL`
(`AccountAssumption`):

* `TypeCorrect`.
* `SignOutHolds` (`SignedOutStaysOut`) - strengthened with how long each token can live
  compared with the tombstone or marker that caught it: an issued token expires within
  `DefaultTTL` of its issue, the entry lives `2 * DefaultTTL` from a later moment, and a
  token issued by a request that has ended is never issued anew.
* `ZeroTraceHolds` (`ZeroTraceUntilAccepted`) - strengthened with the positions a handler
  cannot be in before an acceptance.
* `ConsentHolds` (`NothingWithoutConsentUndisturbed`) - strengthened with the positions
  that rest on a consent read earlier: without an overlapping erasure that consent is
  still there.
* `LogoutHolds` (`LoggedOutEverywhereUndisturbed`) - from `LogoutInv`: an undisturbed erasure
  runs alone, and where no consent is left no handler is on its way to a full session and,
  once the erasure has answered, every full session is signed out. `SignOutHolds` then says
  that it stays so.

`VoiceBridgeProofs`, for every set of connections and tokens, cap, session length and frame
count, with a Lambda timeout below the row's grace (`BridgeAssumption`; the deployed 360 s and 3600 s
satisfy it):

* `TypeCorrect`.
* `OnlyEntry` (`GateIsTheOnlyEntry`) - the refinement of `VoiceGate`. `LaunchInv` and
  `GateInv` carry the genuine token from `Connect` through the row, the launch and its
  deliveries to the stream.
* `CapUnlessDisturbed` (`StreamsWithinCapUnlessDisturbed`) - a bound on
  streams is not inductive. `CapInv` says that while nothing went wrong the served
  rows are within the cap and (`SlotInv`) every launched or running connection has one, which
  outlives its holder: this is where `Timeout < Grace` is used.
* `AudioInOrder` (`AudioOnceInOrder`) - from `AudioInv`: every frame is in one place, and
  those on their way are sorted behind those sent, except the overtaken.
* `SlotsBounded` and `SlotsTakenOnce` - `SlotsComeBack` without the passing of time. From
  `TermInv`, a row expires one grace after a deadline fixed at the gate, so it counts for no
  longer than a session and a grace from now, however late it was put; and a connection past
  its `put_session` never gets its row back or prolonged.

`DeviceLoginProofs`, for every set of logins and logouts, code life and interval
(`LoginAssumption`):

* `TypeCorrect`, `OnlyFullSessions` (`OnlyFullSessionsStored`) and `TimedOut`
  (`TimedOutMeansUnconfirmed`), all from `LoginInv`, that is `TypeOK`, `CodeInv` (a session in
  a command's hands or in the file comes from a spent code and is not pending) and `TimeInv`
  (a loop past the code's life finds the code still open).
* `InReach` (`SessionsInReach`) - from `ReachInv`, one clause for each place an active session
  can be in on its way to `auth.json` and out of it, with `StepInv` for what a command
  between two of its steps holds.
* `LoginsGoOn` and `LoginsEndInSight` - `LoginEnds` without its fairness: a running login
  is always in a step that waits for nothing, and `StepsLeft`, two for each round the code's
  life leaves room for, goes down with each. A loop that counted anew after a `slow_down`
  would not have it.

`LaunchGateProofs`, for every list of producers (`GateAssumption`): `TypeCorrect` and
`GreenMeansRun` (`GreenMeansRunUnlessLost`), from `Accounted` (each check that a producer which
is through has made left its row, is lost, or was spared after a failure whose row is there),
`BlindInv` (only a walk whose turn has come found no browser) and `VerdictInv`. The producers'
names are assumed to differ.

`ProfileStoreProofs`, for every finite set of commands, any refused rows and any accounts
(`StoreAssumption`: the file states are told apart):

* `TypeCorrect`, `CursorCounts` (`CursorCountsPushedRows`), `OrderHolds` (`PushedInOrder`),
  `OkHolds` (`OkMeansPushed`) and `OnceHolds` (`OnceUnlessDisturbed`), all from one invariant,
  `IInv`. None of the four is inductive alone, because a command works on a snapshot of the
  ledger while others append, push and save. `Placed`: a row stands at one place, the same in
  the ledger and in every snapshot. `Counted`: as long as no row lost its line, the cursor
  counts pushed rows and a snapshot is the beginning of the ledger. `Alone`: as long as
  nothing worse than a lost line happened, one command pushes at a time and nothing beyond
  where it stands (or beyond the cursor) is on the server.
* What one write does to the rows read (`OneWrite`): none or one more at the end, or, where a
  cut line is continued, one less. It rests on the lemmas of `PositionsProofs`: an appended
  entry is picked last or not at all, the others keep their places.

`StudyProofs`, the site export, for every set of registries, listings and subjects
(`ExportAssumption`):

* `ExportTypeCorrect`, `MissingHolds` (`MissingSubjectsAreHarmless`), `StoriesHold`
  (`StoriesFollowTheListing`) and `FilesHold` (`FilesAgreeUnlessChanged`), from `ExportIInv`. The
  properties speak of a finished export; the invariant says how far a running one is. The rows
  made are those of the first entries (`Loaded`) and each is still true of a subject that did
  not change (`RowsHold`); the entries gone through that were there have their file (`Listed`);
  every file written follows its last listing except the one being written (`FilesFollow`),
  whose stories are those wanted of the part read (`TellingFollows`).

`StudyProofs`, the conformance gate, for every list of stories and every content of a story
(`ConformanceAssumption`: an exercise is one of the shapes the code tells apart):

* `DoctorTypeCorrect`, `HealthyHolds` (`HealthyMeansConformant`) and `SkippedHolds`
  (`NoCheckSkipped`), from `DoctorIInv`. The checks are a function of the probe and the answers
  (`ChecksFollow`); the stories are read in turn and all of them (`ReadInTurn`). The three
  accumulators of `_probe_cloze_items` are tied to what was read: `FoundCounts`,
  `FlawedTells` and `FirstTells`. The last one is what makes the second correct: an id used
  again is flawed exactly if it is remembered under another story, so two stories sharing an
  id are found out however far apart they are - and two items of one story never, which is what
  `Overlooked` adds. `RaisedTells`: the gate only ends without a verdict on output that does not
  decode.

`StudyProofs`, the motivation layer, for every set of events, half-life, backlog, batch and
recency (`MotivationAssumption`) and ledgers of any length:

* `MotivationTypeCorrect`: rows are not of days to come and scores are between 0 and 100.
* `QueueHolds` (`QueueMovesAlone`) - the queue is defined by counting, so the first thing to
  prove is that it exists: in a finite set with a strict total order the number of elements
  before one is a bijection to 0..n-1 (`RanksAscend`, `RanksFill`). Hence the queue holds
  every due item once, and one is ahead of another exactly if it precedes it (`QueueInOrder`).
  A row changes age and last entry of its own item only (`PracticeKeepsOthers`); a night makes
  every item older by the same amount (`NightKeepsOrder`).
* `ReviewsHold` (`ReviewsComeFirst`) - what is pressing is due (`PressingIsDue`), and the first
  items of the queue are the oldest (`TheBatch`).
* `MaintenanceHolds` (`MaintenanceMeansDone`) - by the cases of `WhatNext` (`TheAdvice`): a
  subject with new material exists whenever one is open (`LessonIsOpen`), and so does the
  oldest mastered item (`RepeatIsMastered`), which is not due, as the queue is empty by then;
  `NothingKnown` is the case of no known subject.
* `MeanMoves` (`MeanMovesTowards`) - one more row adds its score to the sum (`TotalGrows`), and
  the two rounded quotients are compared by their bounds (`MeansMove`).
* `StreaksImplementCounters` (`StreaksAreCounters`) - `Motivation` implements `StreakCounter`: a
  row adds its day to the active days of its subject and of all (`PracticeDates`); the first row
  of a day makes the run before it one longer (`RunSteps`, `DayAdded`); a night leaves the days
  alone and ends the streaks without a row the day before (`NightAdded`).

`StudyProofs`, the schema validator, for every set of payloads, schemas and siblings with the
two measures (`ValidatorAssumption`):

* `WalkUnfolds`, `CheckUnfolds` and `AllowsUnfolds` - the three recursive functions exist, that
  is, they satisfy the equations they are defined by.
* `ValidatorTypeCorrect` - errors are named by keywords the validator knows.
* `SchemasHold` (`GuardedSchemasMeanWhatTheySay`), from `VerdictIsMeaning`, which says the same of
  every part of every file the recursion may come to. A part the guard passes only calls for
  parts the guard passes (`CleanCalls`, with `TheCalls`: this is where a walk that skips a
  keyword would be found out), and if the calls agree with what they should say, the keywords
  agree one by one (`KeywordsAgree`): an early return on a wrong type changes no verdict,
  under `not` or anywhere else.

Induction over data is avoided throughout: filters are picked by index, sorted lists are
given by rank, runs by their length, and where a function is recursive (the sums of `Totals`,
the validator) the least counterexample takes the place of an induction: `LeastElement`, every set of
naturals that is not empty has a least element.

Only model-checked:

* liveness under fairness (`EveryRequestAnswered`, `SlotsComeBack`, `LoginEnds`), which is out
  of the prover's reach: the measures that go down are proved, that fairness takes the steps
  is not;
* `StudyTypeOK`, the types of the composed instance: the parts' types are proved one by one,
  each in the module of its component.

Each property comes with a mutant, an operator marked `Mutant:` in the module, that
breaks it the way a plausible bug would.

## Not modelled

* Admin listing, export and progress change nothing; export's three separate reads are
  listed as a hazard.
* GitHub's endpoints, HMAC and base64url, cookies, CORS and routing by path: the modules
  take a named user and an unforgeable token.
* The tutor's upstream call after its gate.
* `display_name` and the order of consent rows: no property tells them apart.
* KV's eventual consistency. `Account` reads a tombstone or a marker as soon as it is written;
  KV may serve the old value elsewhere for a while, and a revoked session or a spent device code
  is accepted that much longer.
* The front door's MCP tools (each is one call of the driver `SiteExport` models), argument
  parsing, output and help texts.
* `deriveProgress`: a pure function; its one hazard (time stamps compared as text) is listed.
* Site scripts, static site, deploy workflows. The voice page's session object has a hazard of
  its own, which is listed and would be worth a module.

## Plan

1. The voice page: start, stop and a socket's events around the awaits of `voice.js`.
2. `deriveProgress` next to the motivation layer, over the same ledgers.

## Running

    tlc -workers 2 -config row_all.cfg MCLearnerRow.tla
    tlc -workers 2 -config account.cfg MCAccount.tla
    tlc -workers 2 -config bridge.cfg MCVoiceBridge.tla
    tlc -workers 2 -config profile.cfg MCProfileStore.tla
    tlc -workers 2 -config study.cfg MCStudy.tla
    tlapm LearnerRowProofs.tla
    tlapm AccountProofs.tla
    tlapm VoiceBridgeProofs.tla
    tlapm DeviceLoginProofs.tla
    tlapm LaunchGateProofs.tla
    tlapm PositionsProofs.tla
    tlapm ProfileStoreProofs.tla
    tlapm StudyProofs.tla

The passing runs take from seconds to three minutes, the proofs from half a minute to a few
minutes each.
