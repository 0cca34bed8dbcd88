# Specifications of the starter app and its tools

TLA+ models of the FastAPI backend, the iOS client and the developer tools of
this repository, the TLC runs that check them on small instances, and TLAPS
proofs for any size.

```
tlc -workers 2 -config MCAuthSafety.cfg MCAuthLogging.tla     # one run
tlapm AuthBackendProofs.tla                                   # the proofs of one module
```

`PROJECT.json` lists the components, the runs, a mutant of the model for each
property, the source lines behind each definition, the findings, the hazards
and the theorems.

## 1. Inventory

Paths are relative to the repository; `app/` is `backend/app/`, `ios/` is
`ios/StarterApp/StarterApp/`, `sc/` is `.agents/skills/skill-creator/`.

| component | state | operations | talks to | what makes it correct |
|---|---|---|---|---|
| auth routes (`app/api/v1/auth.py`, repositories, `db/session.py`) | tables `users`, `profiles`, `refresh_tokens`; one transaction per request | register, login, refresh, logout, me | PostgreSQL, a pool of 15 connections, the limiter | one account per address; a registration is whole or absent; a rotated or logged-out token is dead; a session ends only when asked to; an error leaves nothing behind |
| notes routes (`app/api/v1/notes.py`, `notes_service.py`, `notes_repo.py`) | table `notes` | list, create, get, update, delete | PostgreSQL, access tokens | private to the owner; at most five per user; PATCH changes what it supplies and nothing else |
| profile routes (`app/api/v1/router.py`, `profile_repo.py`) | table `profiles` | read, PATCH | PostgreSQL | omitted fields stay; `is_pro` is not writable by the user |
| RevenueCat webhook (`app/api/v1/webhooks.py`) | `profiles.is_pro` | one POST per event | RevenueCat, which retries and reorders | events sent one after the other are obeyed in that order; nothing but an event sets `is_pro` |
| rate limiter (`app/core/rate_limit.py`, slowapi) | counters per caller and path, in memory | one hit per request | every route | at most n per window; nobody pays for another |
| middleware and logging (`app/middleware`, `exception_handlers.py`, `logging_config.py`) | context variables; the line being written | per request | every route | one answer, one access line, one request id however a request ends; which secrets a line may show |
| settings (`app/core/config.py`) | the environment, read at start | load | the limiter, CORS, logging | refuses a placeholder secret |
| migrations (`backend/alembic`) | schema and `alembic_version` | upgrade, downgrade | PostgreSQL | the head is what `models.py` declares |
| iOS session (`ios/Services/AuthService.swift`, `KeychainTokenStore.swift`) | access token, user, refresh task; the Keychain | restore, sign in, register, sign out, refresh | auth routes | one refresh at a time; memory, Keychain and backend agree |
| iOS API client (`ios/Services/BackendAPIService.swift`) | none of its own | request with one retry after a 401 | the session, all routes | the retry is done once, for the same user |
| iOS view model (`ios/ViewModels/ContentViewModel.swift`) | the list on screen, profile, flags | fetch, create, update, delete | API client | the list agrees with the server |
| iOS purchases (`ios/Services/PurchaseService.swift`, `StarterAppApp.swift`) | `customerInfo`, the SDK's identity | identify, reset, purchase, restore | RevenueCat, the session | no entitlement for an anonymous or a previous user |
| schema generator (`scripts/sync_models.py`) | `GeneratedModels.swift` | sync, `--check` | Pydantic schemas, migrations | a file that passes the check has every schema, and if it compiles it decodes every answer |
| trigger evaluation (`sc/scripts/run_eval.py`) | command files, child processes | one run per query and repetition, in a pool | `claude` | the verdict of a run is its own claude's; nothing stays behind |
| description tuning (`sc/scripts/run_loop.py`, `improve_description.py`) | history of scores | score, improve, choose | trigger evaluation, `claude` | held-out queries judge and do not teach |
| review viewer (`sc/eval-viewer`) | `feedback.json`; the page | autosave, submit, reload, restart | the browser | what was said is in the file |
| MCP evaluation (`.agents/skills/mcp-builder/scripts/evaluation.py`) | one connection, one conversation per question | connect, ask, call tools, report | Claude's API, the server | the report is of its conversations, their last responses and their calls; the connection is closed |
| trace recorder (`.agents/skills/swiftui-expert-skill/scripts/record_trace.py`) | a child in its own process group | start, wait, stop, kill | `xctrace` | a recording that is asked to stop ends, with its child |
| e-mail, codecs, shell scripts, report and trace readers, documents | – | – | – | see section 7 |

How they interact: the client calls the backend over HTTP; the backend's routes
meet only in PostgreSQL, through committed rows and the locks of open
transactions, and in the pool; the client's tasks meet on the main actor,
between awaits; client and backend share the refresh token, which every refresh
replaces. The tools of the developers are processes of their own that meet in
files.

The behaviour that is hard to test, with its lines, is the list `hazards` of
`PROJECT.json`. Most of it comes from these facts of the code:

* `get_db` commits *after* the response has been sent (the locked FastAPI runs
  the exit of a dependency with `yield` then) and rolls back before an error
  response. A client may act on a response whose transaction is still open, or
  will never commit.
* handlers check by a SELECT and write some awaits later, with no lock
  (address, number of notes, refresh token); only the unique index, the primary
  keys and row locks stand behind them.
* `AuthService` loads the stored token when a task starts and applies the reply
  whenever it comes, whatever the session has become; `PurchaseService` and
  `ContentViewModel` do the same with theirs.
* the tools race a child process, a timer or a second process over one file.

## 2. Modules

| module | models | state and actions against the code |
|---|---|---|
| `SessionLedger` | what the auth routes promise, with no requests and no failures | `accounts`, `issued`, `live`; Register, Login, Rotate, Logout |
| `AuthBackend` | the five auth routes over PostgreSQL | `pc[r]` is the await request `r` is at, `tx[r]` its uncommitted writes, `users`, `profiles`, `tokens` the committed rows, `resp[r]` the response sent. One action per step between two awaits, one per error branch; `Commit` and `Abort` are the two exits of `get_db` |
| `NoteShelf` | what the notes routes promise | `shelf`, `used`; Create, Patch, Delete |
| `NotesBackend` | the five notes routes over PostgreSQL | as `AuthBackend`; `tx[r].gone` holds the rows `r` has replaced or deleted, which are the rows it has locked |
| `ProfileCards` | what the profile routes and the webhook promise | `cards`; Open, Change |
| `ProfileBackend` | registration's row of `profiles`, GET and PATCH /me/profile, and the webhook, over PostgreSQL | as `AuthBackend`; `tx[r]` is the version of the row that `r` has written, and locked; `before[r]` records which requests had been answered when `r` arrived |
| `AuthBackendProofs`, `NotesBackendProofs`, `ProfileBackendProofs`, `AuthClientProofs` | theorems about the four | see section 5 |
| `PipelineProofs`, `AppProofs`, `MigrationsProofs`, `ToolsProofs` | theorems about `RequestPipeline`; `Purchases` and `NotesScreen`; `Migrations`; `TriggerEval`, `SkillTuning`, `SyncModels`, `McpEvaluation` and `ReviewViewer` | see section 5 |
| `Settings` | the environment to settings, and whether the process starts | pure operators: `DefaultsFor`, `Bool`, `RejectPlaceholder`, `Load`, `Starts` |
| `RequestPipeline` | the four middlewares, the exception handlers and the counters around every route; extends `Settings` | `req[r].at` is the layer a request is in, `window` the counter per caller and path, `answer` what the last answer carried and the lines it left; `Start` and `Stop` lose the counters; `Preflight` is answered outside of all of them |
| `LogRedaction` | `mask_sensitive_data` and `safe_log_dict` over JSON values of any depth (`Depth`), objects and arrays of any shape (`KeySets`, `Lengths`) | `MaskIn`, `SafeIn`: a call of either on a dict, `inner` being what its calls of itself give; `MaskDict`, `SafeLogDict` the functions called from outside; `body` and `query` come in, `line` is the access line and `warning` that of a body which the route rejects, with the `input` it names |
| `Migrations` | the three revisions and `env.py` | `schema` is a set of tables, columns, indexes and constraints by name; one action per DDL statement, the commit, a rejected statement, a kill |
| `AuthClient` | AuthService, the retry of BackendAPIService, the Keychain, against a ledger of tokens | `keychain`, `access`, `user`, `refreshTask` are the fields of that name; a task (refresh, call, sign-in, sign-out) moves through scheduled, sent, replied, done; one action per stretch of main-actor code between two awaits; `Kill` restarts the app |
| `Purchases` | identify and reset as tasks, offerings, purchase, restore, against the SDK's queue of requests | `user`, `shown` (what SwiftUI has drawn), `sync[s]` and `buy[b]` the tasks, `identity`, `info`, `entitled` RevenueCat's side |
| `NotesScreen` | fetch, create, update, delete of the list against the server's | `call[c]` an action of the view model, `notes` the list, `server` the rows |
| `SyncModels` | discovery, type mapping, output, `--check`, drift report | `edited`, `broken` what the developer did, `file` the Swift file, `outcome` the exit code; a schema says what it is made of, models, skipped models and enums included |
| `TriggerEval` | `run_eval.py` | `run[j]` a worker's local state and its child; a chunk of the stream is read and parsed in one step, as in the code |
| `SkillTuning` | `run_loop.py`, `improve_description.py` | `history`, `prompt`, `output`; which queries pass is open |
| `ReviewViewer` | `generate_review.py` and the saving in `viewer.html` | `page` the tab with its map, text and timer, from the fetch of the comments on, `open` the connections, `feedback` the file; `ServeNoFeedback`, `SaveFails` and `Stop` are what may fail; `behind` marks a page drawn without the file |
| `McpEvaluation` | `evaluation.py`, `connections.py` | `stack` the exit stack of the connection, `turns`, `answers`, `report`; a message of Claude is a sequence of text blocks, each with its <response> elements; `served` records each conversation |
| `TraceRecording` | `record_trace.py` | `script` where main is, `xctrace` the child, `output` the trace |
| `MCAuthBackend`, `MCNotesBackend` | instances of one module | symmetry sets |
| `MCAuthLogging`, `MCNotesPipeline`, `MCAuthClient`, `MCLiveness`, `MCPlatform` | instances of several | see below |

An operator whose comment begins with "Slip" is a variant of the operator that
follows it, with a bug a change of the code could plausibly introduce. No
specification uses it; `PROJECT.json` names the property that notices each.

Five instances hold several modules that share no state. A variable `part`,
chosen at the start, says which of them a behaviour is of; the others stay as
they start. The reachable states are the sum of those of the parts, and a
property of a module is checked in every behaviour of it.

| instance | parts |
|---|---|
| `MCAuthLogging` | `AuthBackend`, `LogRedaction` |
| `MCNotesPipeline` | `NotesBackend`, `RequestPipeline` |
| `MCAuthClient` | `AuthClient`, `Purchases`, `NotesScreen` |
| `MCLiveness` | `AuthBackend`, `NotesBackend`, `AuthClient`, `TraceRecording`, with their fairness |
| `MCPlatform` | `ProfileBackend`, `Migrations`, `SyncModels`, `TriggerEval`, `SkillTuning`, `McpEvaluation`, `ReviewViewer` |

### How PostgreSQL is modelled

READ COMMITTED: a statement sees the rows committed when it runs and the
transaction's own writes. An INSERT waits for every open transaction that has
inserted the same unique key, and fails if that one commits. A DELETE or UPDATE
waits for the transaction that has changed its row and then looks at the row
again: it finds it gone if the other deleted it and committed, and as it was if
the other rolled back. The models do this with a guard (`EmailLockedByOther`,
`RowLockedByOther`) and by reading the committed rows once the guard holds.
DDL is transactional: in `Migrations` the first statement of a run waits for the
open transaction of the other.

### What is abstracted

* Password, hash and JWT are reduced to verdicts: a login may find its password
  wrong, an access token may have expired.
* Random values (uuids, refresh tokens) never collide; each is named after the
  request that draws it. A refresh token and its SHA-256 are one name.
* An access token and the refresh token it came with share one name in
  `AuthClient`.
* Addresses are compared after `lower()`, which both the SELECT and the INSERT
  apply.
* `Disabled` is fixed: an operator sets `is_active` outside the program. The
  code looks at it at login only, and so does the model.
* In `NotesBackend` and `ProfileBackend` a crash is not an action of its own: it
  aborts every open request, which `StatementFails` and `CommitFails` do one at
  a time.
* In `AuthClient` the backend serves one request at a time. What several
  requests at once can do to a token is the subject of `AuthBackend`.
* `Purchases` and `NotesScreen` leave open who is signed in when, so they hold
  under any session.
* In `ProfileBackend` the name of an event is reduced to what the handler does
  with it (set, clear, ignore, refuse), registration to the row it inserts in
  `profiles`, and a 401, a 429 and a 422 of the request schema to one refusal
  before the handler.
* `RequestPipeline` reduces a route to how it may end (2xx, an HTTP error, an
  invalid body, a refusal of its own limit, an unhandled exception).
* A text is a member of a small set named for what the code tells apart: the
  values of an environment variable, the keys of a log entry by their words, the
  blocks of a message of Claude, the fragments of a tool's input.
* In `TriggerEval` to read a command file and to call the skill are one tool
  call: the parser treats them alike.
* `updated_at`, `created_at` and the order of the backend's list are left out.

## 3. Runs

| run | instance | distinct states | shows |
|---|---|---|---|
| `auth_safety` | 4 requests, 2 addresses (one disabled), 3 connections, 1 crash, faults; log bodies three deep, objects of one key or none, arrays of one entry or none | 923,481 | the invariants of accounts and sessions; refinement of `SessionLedger`; which secrets of a body, a query or a rejected value are readable in the lines |
| `rotation_reuse` | 3 requests | – | finding 1 |
| `logout_race` | 3 requests | – | finding 2 |
| `duplicate_email` | 3 requests | – | finding 3 |
| `notes_safety` | notes: 3 requests, 2 users, 1 note allowed, 2 connections, faults; pipeline: 3 requests, one user and one address, limits 2 and 1, a window of 2 ticks, restarts, four environments | 360,421 | privacy; the overrun is bounded; one delete succeeds; refinement of `NoteShelf`; what the limiter admits and refuses; one answer and one line per request that is no preflight |
| `notes_overrun` | 3 requests | – | finding 4 |
| `notes_patch_race` | 3 requests | – | finding 5 |
| `client_session` | session: 2 calls, 1 sign-out, 2 users, 3 token pairs, 2 refreshes, 2 launches; store: 2 users, 3 changes of user, 1 purchase; screen: 3 operations | 1,172,923 | session, Keychain and backend agree; RevenueCat's identity and entitlements follow the account; the list agrees with the server |
| `anonymous_purchase` | as `client_session` | – | finding 6 |
| `liveness` | 3 requests on 2 connections; 2 calls, 3 refreshes, 2 launches; a recording with 2 interrupts | 396,049 | every request, call, launch and stopped recording ends |
| `platform` | profiles: 3 requests, 2 connections, faults; 2 migration runs; 1 edited field of any type, references to a model, a skipped model and an enum included, and one broken module; 1 query in 2 runs by 2 workers; 4 queries, 3 iterations; 2 questions of 2 tool turns; 2 reviewed runs | 317,711 | callers are obeyed in order; refinement of `ProfileCards`; the properties of the tools |
| `review_overwritten` | as `platform` | – | finding 7 |

Why these bounds are enough. A hazard of the backend needs two requests racing
and one or two that set the scene (the registration that creates the account,
the request that mints the token): four requests include every pair after every
pair. Two connections for three requests make the pool a resource to wait for.
One crash is enough because nothing survives it but the committed rows, from
which a second crash starts again. `MaxNotes = 1` over two connections reaches
the overrun: two creates past the count of an empty table; the third request is
another create, a PATCH or a DELETE of either note, or the other user's. For a
profile, the registration and two requests that race or follow one another are
every way in which a field can be written twice. In the pipeline, a window of
two ticks and a clock that goes past its end have hits on both sides of the
boundary, and a request that is refused early or late. In the client, three
token pairs are a sign-in, a refresh of it and the sign-in of the next user; two
calls are a creator and a joiner of one refresh; a second launch finds what the
first left in the Keychain and in the network. In the store three changes of
user are a sign-in, a sign-out and the next sign-in, with a purchase anywhere
between; on the screen three operations are a fetch crossing a change, or two
changes whose answers cross before a fetch. The liveness run has as many refresh
tasks as calls and restores can start, so that no task waits for the bound. Two
migration runs walk up and down the three revisions any number of times and
overlap at every statement. Two runs of one query by two workers are a worker
that sees the command file of another. Four queries split 60 to 40 leave both
sides non-empty, and three iterations have a middle one that is the best. Two
reviewed runs are one to turn away from and one to turn to, with two connections
open for a save and the submit. Two questions of two turns, whose last messages
have no text block, one or two, with a right and a wrong response in either order,
are a report in which one conversation could leak into the next.

The bounds of the modules are `Requests` (each is used once), `MaxCrashes`
(AuthBackend), `MaxTime` (RequestPipeline), `Tokens`, `Calls`, `Refreshes`,
`SignOuts`, `MaxLaunches` (AuthClient), `Syncs`, `Buys` (Purchases), `Calls`
(NotesScreen), `MigrationRuns`, `Runs`, `Workers` (TriggerEval), `MaxIterations`
(the code's own, SkillTuning), `Questions`, `MaxTurns` (McpEvaluation),
`MaxOpen` (ReviewViewer, where the user types only on a page that is drawn and
not under the dialog), `MaxInterrupts` (TraceRecording), one broken module at a
time and one edit of the field's type or default at a time (SyncModels), `Depth`, `KeySets`, `Lengths` (LogRedaction). A key, a nesting and
a list are masked apart from their neighbours, so objects of one key and arrays
of one entry, three deep, meet every case of the two passes: a dict in a dict,
in a list, in a list of a list, under a name that is masked and one that is not.
The texts are a plain one, a secret and the mask.

The two limits of the pipeline's routes and the length of the window are
constants, with the assumptions that they are positive (`LimitsAssumption`) and
that no counter is the value for none (`NoWindowAssumption`); the instances name
what else the proofs rest on (`NobodyAssumption`, `BeforeAssumption`,
`TuneAssumption`, `AnswerAssumption`, `RunsAssumption`, `ElsewhereAssumption`,
`ReviewedAssumption`, `DepthAssumption`, `KeysAssumption`: a value that stands for
"none", "before" or "elsewhere" is none of the others, the numbers of
repetitions and questions, the depth and the lengths are numbers, the runs to
review are finitely many numbers, and the keys are those the module knows, an
object with a harmless key alone among them). TLC evaluates them.

Deadlock is checked in the backend runs (`Quiescent`, `Silent`: the server
waiting for its next request; `Written`: the line of the log is out). It is not in the others: an app whose user does
nothing, and a tool that has ended, are at rest.

### Fairness

`AuthBackend!FairSpec` and `NotesBackend!FairSpec` assume weak fairness of
`Handle(r)` for each request: asyncio runs every task that is ready and
PostgreSQL answers every statement that is not blocked. Arrivals, failures and
crashes are not fair. That a waiting request is not starved of the connection it
waits for is a matter of the finite number of requests in the model; in the code
the pool gives up after its timeout, which is `PoolTimeout`.

`AuthClient!FairSpec` assumes that the main actor runs each task that is ready
and that URLSession ends each request, at the latest with its timeout. The user
need not do anything. The main queue is first in, first out, which the model
uses in one place: a job in the queue runs before the network brings a reply
that was not there yet (`Enqueued`). Without it a finished refresh could be
joined by a call of the next user, who would get a token of the previous one;
the code relies on the resumption of the creator, which forgets the task, being
prompt.

`TraceRecording!FairSpec` assumes that main goes on: it polls every half second
and its last wait has a timeout of a minute. xctrace owes nothing; a child that
ignores the interrupt is killed.

`MCLiveness!PartsSpec` states the same conditions for the part a behaviour is of.
`RoutesEnd` is `[]<>` of "all served" because each request of the model arrives
once.

## 4. Findings

Each of the first seven is a run that TLC refutes, of a property that states what
a test, a comment or a docstring says. The other five were met in stating a
property of a run that passes: it says exactly how far the code goes, and that is
less than its document says.

1. `rotation_reuse`: two refreshes with one token that both find it before
   either commits both answer with a new pair. The DELETE of the second waits,
   matches nothing, and its count is ignored (`app/api/v1/auth.py:80`).
2. `logout_race`: a token is sent before it is committed; a logout in between
   deletes nothing, answers 204, and the token lives (`auth.py:89`).
3. `duplicate_email`: two registrations that both pass the SELECT; the second
   INSERT raises an IntegrityError that nobody handles: 500, not 409
   (`auth.py:46`).
4. `notes_overrun`: two creates that count before either commits
   (`notes_service.py:27`).
5. `notes_patch_race`: a PATCH whose UPDATE runs before, and whose SELECT runs
   after, the commit of the note: 200, unchanged (`notes_repo.py:54`).
6. `anonymous_purchase`: identify is a task of its own; the paywall can be
   opened, and a purchase begun, before `logIn` has been sent
   (`ios/StarterAppApp.swift:72`).
7. `review_overwritten`: the submit does not clear the autosave's timer, which
   fires after it and saves the reviews as in progress over the complete ones
   (`sc/eval-viewer/viewer.html:683`).

8. `LineIsRedacted`: "sensitive keys masked" (`backend/README.md:64`), but
   `mask_sensitive_data` does not enter an array in an array
   (`logging_config.py:66`) and `safe_log_dict` enters none, so a credential there
   is logged in clear.
9. `LineIsRedacted`: the warning of a rejected request logs each error's `input`,
   and a password of the wrong length is one (`exception_handlers.py:64`,
   `schemas/auth.py:8`): under that key nothing recognises it.
10. `CheckedFileDecodes`: "A $ref points at another generated model"
    (`scripts/sync_models.py:124`), but it may point at an enum or a skipped schema,
    whose names are never generated (126-128), and unions and untyped values give
    `AnyCodable` and `AnyJSON`, which the app does not define (140, 165-171).
    `--check` passes on a file that does not compile.
11. `ReportIsOfItsConversations`: "Your response should go last" (`evaluation.py:53`),
    but the first text block of the last message is the one that is read (147):
    in a message of several blocks the last response may be right and score 0, or
    wrong and score 1.
12. `SavedIsShown`: a failed fetch of the comments is taken for "first run, no
    feedback yet" (`viewer.html:671`) and the page is drawn blank beside a file
    that has comments; a key that turns the page before they have come has the same
    effect. The next save drops them. The property excepts such a page, which is
    `behind`, until then.

What holds in spite of them is as useful: the unique index keeps addresses
unique (`UniqueEmail`), a rotated token is dead from the first commit on
(`RotatedTokenDead`), the overrun of the notes is less than the number of
connections (`OverrunBounded`), a purchase begun once RevenueCat knows the user
is written to that user's account if the session lasts
(`EntitlementsFollowTheAccount`), and the text of a comment reaches the file
whatever the order of the saves (`SavedIsShown`).

Reading the code against its documents showed more, which the models contain or
leave out as noted and no run refutes:

* `RATE_LIMIT_ENABLED=false` does not switch off the limits of the routes'
  decorators (`RequestPipeline`;
  `backend/README.md:63`), and `on`, unlike `1`, `true` and
  `yes`, means false (`Settings`).
* `Retry-After` is always 0: the handler subtracts the time of day from
  `get_expiry`, which is the length of the window and not its end
  (`exception_handlers.py:111-117`; `RequestPipeline`).
* A CORS preflight is answered outside of the other middlewares: it has no request
  id and no access line (`main.py:79`; `RequestPipeline!Preflight`).
* `AuthService` applies a late reply of a logout or a refresh to whatever session
  there is by then (94, 123; `AuthClient`): the next session may be cleared or
  replaced. Memory, Keychain and backend stay in step, so no property of a run
  is broken, and nothing in the repository says what should happen instead.
* `ALLOWED_ORIGINS` that mixes `*` with names keeps credentials on (`Settings`).
* `sync_models.py` promises a warning about drift between SQL and schemas
  (231-232) that it never gives (260), and a schema module that does not import
  is left out of the output with a message, so `--check` passes on what is left
  (80; `SyncModels`); with no schema left it succeeds whatever the file, although
  `notes/makefile.md:92` says that it is always enforced. The header it writes
  names `.iso8601`; the app decodes dates with `APIDateCoding.swift`.
* `run_eval.py` drops what the buffer holds without a newline when the child
  ends (103; `TriggerEval`). Small evaluation sets leave the train side empty, and
  the loop then stops at once as "all passed" (`SkillTuning`).
* `improve_description.py` asks once for a shorter description and takes what
  comes, which may exceed the limit again (`SkillTuning`).
* `evaluation.py` answers one tool call of a message that may hold several
  (110), reads the text of a last message that may have none (168), and cannot
  serialise the content objects that MCP returns, so a tool's non-empty result
  reaches Claude as an error (117; `McpEvaluation`).
* An interrupt of `record_trace.py` between Popen and the try leaves xctrace
  running (111; `TraceRecording`).
* The sign of the delta in `aggregate_benchmark.py` depends on the order in which
  the configurations are found (207-209; not modelled). `generate_review.py` sorts
  runs with and without an `eval_id` by keys that do not compare, and the request
  fails (64; `ReviewViewer`).
* The page of the review viewer, beside a previous iteration, starts blank after
  a reload, so that the next save drops what was saved (`viewer.html:662`;
  `ReviewViewer` does it; the page is `behind`, as in finding 12, but here a comment
  asks for it). A tab left open from
  another workspace posts into the new one: `ReviewViewer` has one tab.

## 5. Proofs

`AuthBackendProofs` proves, for any number of requests, addresses, connections
and crashes, every safety property of `auth_safety`:

* `Invariance`: `Spec => []IInv`. None of the properties is inductive alone. The
  invariant ties what a transaction has staged, and what is committed, to the
  step its request has reached (`StagedRows`, `CommittedRows`), says which user a
  request acts for (`SeenUsers`), which rows a rotation holds (`Rotating`), and
  that uncommitted addresses are apart from each other and from the committed
  ones (`EmailsApart`), which is what the unique index buys.
* `TypeCorrect`, `EmailsUnique`, `RegistrationAtomic`, `ErrorsHarmless`,
  `RotatedTokensStayDead`, `SessionsNeverLost`: each from `IInv`.
* `LedgerRefined`: `Spec => LedgerSpec`. Every step but a commit leaves the
  ledger alone (`BeforeCommit`); a commit is one step of it or none
  (`CommitIsLedgerStep`).

The proofs use the assumptions on the constants named in `AuthBackend`
(`NoneAssumption`, `BoundsAssumption`) and nothing about the size of the sets.
There is one lemma per action; a step touches one request (`OthersStand`), so
each lemma looks at the request that moves and takes the others over.

`AuthBackendProofs` also holds `LoggedIsRedacted`, for values of any depth, with
objects of any keys and arrays of any length: what can be read in a line. Where a
secret is looked for is independent of the code (`Clear`: it is nowhere in the
value); what the code keeps is stated apart (`Guarded`: every secret is under a
credential's name, reached through objects and arrays of objects alone). The
core is that the two meet: what `mask_sensitive_data` makes of a value is clear
exactly if the value was guarded (`MaskedIsClear`), and what `safe_log_dict` makes of
a guarded one is guarded still (`SafeIsValue`). `RedactionInv` says of both lines that
they are what `mask_sensitive_data` makes of an event whose parts are values.

`ProfileBackendProofs` proves the same of `ProfileBackend`, for any number of
requests and connections: `Invariance`, `TypeCorrect`, `CardsRefined`, and
`ObeyedInOrder`, which is the delicate one. A response is sent before its
commit, so a second event may arrive while the first, answered, is still
uncommitted; if it could commit first, the older event would win. What prevents
it is that the first holds the lock of the row from its UPDATE on (`RowsLocked`:
two open transactions never hold new versions of one row), so whoever commits on
a row had no earlier-answered writer of it still open (`NotOvertaken`).

`NotesBackendProofs` proves the safety properties of the notes, for any number
of requests, users and connections and any limit: `Invariance`,
`TypeCorrect`, `NotesPrivate`, `NotesShownToOwners`, `NotesDeletedOnce`,
`ShelfRefined`, and
`LimitOverrunBounded`, by counting: a create that has passed the count holds a
connection until its note is committed, so when one more passes, with the limit
not reached, at most `PoolSize` have passed (`CountStep`); a commit turns one of
them into a note (`CommitCounts`). It needs `Requests` to be finite.

`AuthClientProofs` proves the safety properties of the session, for any number
of tokens, users, calls, refreshes, sign-outs and launches: `TypeCorrect`,
`RefreshesOnce`, `OneStory`, `SessionsAreAlive` and `RequestsActForTheirCaller`,
all from `Invariance`. The invariant says how memory, Keychain, the tasks in
flight and the backend's tokens fit together:

* only the task `AuthService` knows is active, and it knows the task until the
  creator has resumed (`OneTask`);
* a pair on its way to the client is live and nobody else holds it (`InFlight`,
  `Fresh`): this is where a rotation whose reply is late is told from one whose
  reply is lost;
* a token in use that is dead is about to be noticed, by a reply that has not
  been looked at (`DeadIsNoticed`);
* a stored pair that is not in use is one the launch has still to try, and no
  call runs before it has (`Told`);
* a call acts with tokens of its own user, and so is the pair of every refresh
  that it awaits or may yet join, unless the session has changed hands
  (`CallsAct`). This step needs the order of the main queue (`Enqueued`, see
  Fairness).

It uses `NoneAssumption`, `LaunchesAssumption` and `RestoreAssumption`, that the
values which stand for "none" and "the launch" are none of the others.

`PipelineProofs` proves `PipelineFewerThanTwice`, `PipelineRefusedOnlyWhenFull`
(an action property) and `PipelineAnsweredIsTraced`, for any number of callers,
addresses and requests, any window and any positive limits. `LimiterInv` says of
the hits that were admitted that each has the opening of its window
(`HitsHaveOpenings`), that two openings of one caller on one path are a window
apart (`OpeningsApart`), and that under one opening no number is given twice and
none exceeds the limit (`OneHitPerNumber`, `NumbersFit`); `CountersCount` ties
this to the counters in memory, up to the restart that loses them. Any stretch
shorter than a window then meets at most two openings, and its hits inject into
two intervals, one of which the first hit shortens. `RequestsInv` says what an
answer may still become on its way out through the layers, which is why exactly
one access line and one request id go with it, unless it is a preflight.

`AppProofs` has two parts.

* The store: `AppSignedInIsIdentified` and `AppEntitlementsFollowTheAccount`, for
  any users and any number of changes, purchases and restores. The queue of the
  SDK is first in, first out; `StoreInv` says that with the view drawn for a
  user the last request of an identity in the queue is that user's
  (`LastIsTheUsers`), or none is left and the identity is (`Identified`), and
  that a purchase begun then stays on that account (`SettledStays`).
* The screen: `AppListAgrees`, for any number of operations and lists of any
  length. Nothing about the list alone is inductive while answers are under way.
  `ScreenInv` says that applying them to the list, in any order the network may
  choose, gives the server's: without the notes whose deletion is answered
  (`Kept`), with the one retitling (`Settles`) and below the one new note
  (`Tops`). That they may be applied in any order rests on lemmas about filters:
  they commute, with each other and with a retitling, and keep their order
  under a note in front (`SiftTwice`, `RetitledSift`, `SiftBehindHead`).

`MigrationsProofs` proves `PlatformSchemaIsOfItsVersion` for any number of
overlapping Alembic runs. For each revision the proof lists the schemas that its
statements pass through, up (`Up(v)`) and down (`Down(v)`), and shows of every
statement that it leads from one to the next if it is not rejected (`Leads`);
`MigrationsInv` keeps each run on the trail of its revision. That the head is
what `models.py` declares is `HeadIsMetadata`.

`ToolsProofs` proves the properties of the developer tools:

* `PlatformNothingLeftBehind`: every way out of a run of the trigger evaluation
  removes the command file and the child.
* `PlatformVerdictIsItsOwnCall`: for any queries, repetitions and workers. The
  reader takes chunks of any length at any time, so `VerdictInv` says how far it
  has come: of the lines of its own claude's talk some were taken, those are
  what the reader has pending and collected, and the rest is in the pipe
  (`Watched`, `Stands`, `Follows`). A line then tells, rightly, or leaves it
  standing (`LineTaken`), and so does a chunk (`ChunkTaken`). The parent's side
  is a count: as many verdicts of a query as runs gathered, as many true ones as
  gathered runs that triggered (`Counted`), whatever order the pool ends them in.
* `PlatformHeldOutJudges`, `PlatformFinalWasScored`: `TuningInv` ties every entry
  of the history to the split it was scored on and the best entry to the
  history.
* `PlatformCheckedFileDecodes`: a name that is emitted is known to the app or to
  the file exactly where the generator supports the member (`LeafIsKnown`), a
  union never gives one (`UnionType`), and a field of one thing decodes whatever
  its schema allows (`FieldDecodes`). `SyncInv` says only that a check which
  passes has found the file to be the output.
* `PlatformReportIsOfItsConversations`: for any number of questions and turns;
  `McpInv` places the conversation among the questions and grades each result
  that was taken by what its conversation ended with (`Graded`), which is told
  from the blocks and not by the code's extraction (`Extraction`); `SumsUp` and
  `CallsSumUp` do the sums.
* `PlatformSavedIsShown`: `ViewerInv` follows the text of a comment from the page
  through connections that the server takes in order to the file and back to a
  reloaded page (`QueueShape`, `PageTells`, `LastSays`), whatever fails on the way
  and whenever the page is turned, for any number of runs
  to review and of open connections.

Besides the assumptions on the constants the proofs assume nothing. The instances
explore their modules part by part; the theorems of the last four modules and
that of the redaction are about the specifications of the instances, so that each names the very property
the run checks, and begin by taking the part out (`PipelinePart`, `StorePart`,
`EvalPart` and so on).

A sum, a filter, a fold over a sequence or a pass over nested data is a recursive
function in the modules (`Total`, `Without`, `Read`, `Nested`, `Masks`, `Safes`):
what it gives for every length or depth is shown by a least
counterexample (`LeastOne`), as induction is not at hand.

Only model-checked are the four liveness properties, which need fairness and
ENABLED: out of the prover's reach. Every other property of a run that passes is
a theorem.

## 6. Plan

Done: the backend's routes, the client's session, the store, the screen, the
request pipeline, the migrations, the schema generator and the tools that have
processes, timers or files to race over, with the proofs of their safety
properties and refinements.

Left, the most important first:

1. Composition of `AuthClient` with `AuthBackend`'s commit after the response: a
   refresh whose commit fails after its reply.
2. A common account of the transactions of the three backend modules, so that
   what is proved of locks and commits is proved once.
3. More promises worth a theorem where the model has the state for them: that a
   409 or a 404 of the notes is deserved, that the exit stack of the MCP
   evaluation closes the connection, that the trace recorder leaves no child.
4. A second tab in `ReviewViewer`.

## 7. Not modelled

The e-mail service (one stateless call, used by no route), iOS codecs and
configuration (stateless; `GeneratedModels.swift` is the output of `SyncModels`),
the shell scripts (around docker and xcodebuild), the readers of reports,
benchmarks and traces (`aggregate_benchmark.py`, `generate_report.py`,
`analyze_trace.py`: files in, text out, with no state and nothing concurrent),
and the documents of `.agents`. Of modelled components: the profile card, the
ping and the secure test of the view model (each a value replaced by a reply, as
the list is), `quick_validate.py` and `package_skill.py`, and a second tab of the
review viewer. `delete_expired` of the refresh-token repository is never called,
so expired rows stay, as in the model.
