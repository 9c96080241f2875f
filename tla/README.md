# Warder: models and proofs

Warder keeps application secrets. People administer them through a dashboard;
applications obtain them at start-up with short-lived credentials. This
directory holds TLA+ models of the parts of Warder whose correctness depends on
the order of events, TLC configurations that explore small instances of them,
and TLAPS proofs of what must hold for every instance. Paths below are relative
to the repository.

    tlc -workers 2 -config SecretVersions_safety.cfg MCSecretVersions.tla
    tlapm VersionRegisterProofs.tla

## 1. The system

One Go process (`cmd/warder-api`) serves two listeners over one PostgreSQL
database. The *admin API* is called by the dashboard's backend with a service
token and a person's browser session. The *runtime API* is called by the
command line client and by applications with machine tokens, command line
sessions, or the runtime sessions exchanged for either. Handlers run
concurrently, one goroutine per request, possibly in several processes; they
share no memory but the rate limiter's, so **all other shared state is in the
database**, at isolation level
READ COMMITTED (`internal/store/common.go`, `InTx`, never raises it). A request
typically reads in autocommitted statements, decides, and then writes in a
transaction. The hard behaviours of the core follow from that shape.

The dashboard (`web/`) is a Next.js application: React components in the
browser, and a backend of its own that keeps no state but two cookies in the
reader's browser and turns each call into a call of the admin API. Here the hard
behaviours are those of an asynchronous user interface: **answers arrive late, in
another order, or never, and the reader has gone on meanwhile**; several tabs
share one cookie jar; timers outlive what started them.

| Component | State | Operations | What makes it correct |
|---|---|---|---|
| Secret versions (`internal/secrets`, `store/secrets.go`) | `secret_versions`, `secret_material` | create, rotate, roll back, revoke, set expiry, deliver, reveal | one active version, never a gap, material opens, revocation is final, no barred value leaves |
| Policy engine (`internal/authz`, `internal/domain`) | none | Authorize | deny by default, no plaintext by role, ceilings only narrow |
| Access grants (`handlers_access.go`, `store/grants.go`) | `access_grants` | give, revoke | authority is only handed on by those who have it |
| Memberships (`handlers_auth.go`, `store/accounts.go`) | `memberships` | create, remove, expire | a removal takes everything with it |
| Runtime credentials (`runtime.go`, `identity`, `store/machines.go`) | `machine_identities`, `machine_tokens`, `runtime_sessions` | create, exchange, deliver, revoke, disable, purge | ceilings are inherited, revocation reaches what was derived |
| Accounts and sessions (`handlers_auth.go`, `handlers_signup.go`) | `users`, `user_sessions` | sign up, sign in, sign out, change password | a new password ends what the old one began |
| Passkeys, second factor (`handlers_passkeys.go`, `handlers_passwordless.go`) | `webauthn_*`, `mfa_pending` | register, assert, finish, remove | a challenge is spent once, a registered key is asked for |
| Recovery (`handlers_recovery.go`, `handlers_admin_recovery.go`) | `recovery_codes`, `account_recoveries` | issue, redeem, reset | single use, and what was spent brings something |
| Browser sessions (`web/lib`, `web/app/api`) | two cookies, the core's sessions | 50 routes, page loads, redirects | the cookies belong together, the token names the session, a session ends before its cookies are cleared *(refuted)* |
| Dialogs and row actions (`web/components`) | per component: open, draft, result, error, pending | open, fill in, send, close, leave | one request at a time, answers meet their question |
| Sign-in pages (`web/components/*-form.tsx`) | screen, password field, pending | eleven asynchronous functions | no password is left, one ceremony at a time |
| Environment page (`secrets-table.tsx`) | listing, filter, revealed values, intervals | filter, reveal, tick, switch, refresh | a value is only there while it is counted down |
| Adding secrets (`add-secrets-dialog.tsx`, `dotenv.ts`) | rows, batch under way, messages | type, paste, send | messages stay with their rows, values are not shredded |
| Token keys (`secret-key-picker.tsx`) | keys offered and chosen, fetches | fetch, choose, submit | a token names keys of its environment |
| Toasts (`toast.tsx`, `animated-toast-stack.tsx`) | list, timers | show, dismiss, time out | one timer each, and all go |
| Perimeter (`connection.ts`, `env.ts`, `csrf.ts`, `middleware.ts`) | the parsed connection | serve | production is closed whatever the configuration |
| Access page (`access-grid.tsx`, `access-matrix.tsx`) | none | compute | what it shows is what the core allows |
| Rate limiter (`internal/ratelimit`) | a bucket for each key, in memory | allow, refuse, sweep | no window holds more than the burst and what came back, no refusal without a moment to return |
| Migrations (`store/migrate.go`) | the schema, `schema_migrations`, an advisory lock | apply | each file once, whole, and on top of what its build has before it |
| Invitations, organizations and projects, audit trail, encryption, process, command line | | | see section 5 |

Components meet in the database and in the policy engine: secrets, grants, and
the runtime API all ask `Authorize`, which reads the caller's grants afresh on
every question. Removing a member ends rows of three components in one
transaction; revoking a token ends rows of `runtime_sessions`. The dashboard
meets the core in HTTP calls whose answers carry the cookies.

Hard behaviours, each listed with its line under "hazards" in `PROJECT.json`:

- a decision and the write it allows are separate moments (gate and INSERT of a
  grant, authentication and INSERT of a session, a code spent and the password it
  is for, the hash verified and the hash upgraded);
- statements of two transactions interleave row by row, wait for each other's
  rows and unique index entries, re-evaluate their WHERE clauses, and deadlock;
- an UPDATE that cascades only reaches the rows its snapshot contains;
- time passes between any two steps, so that grants, versions, memberships,
  links, challenges and sessions expire under a running request;
- a request may fail, be cancelled or lose its process between any two steps;
- the dashboard's backend answers for a core that is still at work, and the work
  may be done after the reader was told that it was not;
- a React component keeps its state across renders and loses it with its row,
  while requests and timers started by it live on.

## 2. Modules

| Module | Models | Extends / instantiates |
|---|---|---|
| `SecretVersions` | the version lifecycle of one secret, statement by statement | Instance of `VersionRegister` as abstraction |
| `VersionRegister` | abstract: what a secret's versions promise | |
| `Authz` | the policy engine, as operators | |
| `AccessControl` | grants, revocations, removals | `Authz` |
| `AccessView` | what the access page computes from the grants | `AccessControl` |
| `RuntimeAccess` | machine tokens, runtime sessions, cascades, delivery | `Authz` |
| `Accounts` | one account: passwords, passkeys, codes, links, sessions | Instance of `SingleUse` as abstraction |
| `SingleUse` | abstract: what codes, links and challenges promise | |
| `BrowserSessions` | cookies, tabs, the backend's routes, the core's sessions | |
| `DashboardForms` | eighteen dialogs and row actions | |
| `SignInPages` | the forms one gets in by | |
| `EnvironmentPage` | the table of secrets and revealed values | |
| `SecretRows` | the dialog that adds secrets, and the .env parser | |
| `TokenKeys` | the key picker in the token dialog | |
| `Toasts` | messages and their timers | |
| `Perimeter` | connection string, origin and token checks, headers | |
| `RateLimiter` | the token buckets before every handler | Instance of `Allowance` as abstraction |
| `Allowance` | abstract: what a rate limit promises | |
| `Migrations` | `warder-api migrate`, by several processes and builds | |
| `MCSecretVersions`, `MCAccessControl`, `MCRuntimeAccess` | constants and symmetry for TLC | the module they name |
| `MCCredentials` | `RuntimeAccess` and `Accounts` together | both |
| `MCServer` | grants, rate limiter and migrations together | `MCAccessControl`, `AccessView`, `RateLimiter`, `Migrations` |
| `MCDashboard` | the eight modules of the dashboard together | all eight |
| `SecretVersionsProofs`, `RuntimeAccessProofs`, `AccountsProofs`, `BrowserSessionsProofs` | theorems | the module they name |
| `AccessControlProofs` | theorems of grants and of the access page | `AccessControl`, `AccessView` |
| `ServerProofs` | theorems of the rate limiter and of the migrations | `RateLimiter`, `Migrations` |
| `VersionRegisterProofs` | no gap, no lost rotation, the refinement | `SecretVersionsProofs` |
| `DashboardProofs` | theorems of the dashboard | `MCDashboard`, `BrowserSessionsProofs` |

`AccessView` is composed with `AccessControl` and `Authz` in earnest: it compares
what the browser computes with what the engine decides, on the rows that the
requests of `AccessControl` leave. `MCCredentials`, `MCServer` and `MCDashboard` only put
modules that share no variable side by side, so that one run answers one question
about all of them: a variable `part` says which of them moves, and the rest stay
in one initial state.

### SecretVersions

The state is the table `secret_versions` for one secret plus one record of
progress per request. `rows` are the committed rows, `dirty` the newest tuple of
each row whether committed or not, `lock` the open transaction that wrote it.
`View(t)` is what a statement of transaction `t` sees.

- `Locate`: `GetSecret` or `ResolveForDelivery`, autocommitted, before anything
  else. The summary (`seen`, `seenRow`) is the request's stale knowledge.
- `Stamp`: the one reading of the clock of `Deliver` and of the validation of an
  expiry (`futureTime`). `Authorize`, `Deny`: the answer of the policy engine,
  here free, because its rules are `Authz`.
- `Release`, `Withhold`: `Deliver` and `Reveal` judge the summary and open the
  material under the version number as authenticated data.
- `SupersedeStart`, `SupersedeRow`: the UPDATE that `CreateVersion` and
  `ActivateVersion` begin with. The snapshot is one step and each matched row is
  another, taken when nobody else holds the row, re-evaluating `status =
  'ACTIVE'` on the newest tuple: this is PostgreSQL's READ COMMITTED behaviour.
- `InsertStart`, `EnterIndex`, `Conflict`: the INSERT chooses `max(version) + 1`
  in its snapshot, then meets the unique index on `(secret_id, version)` and the
  partial unique index on active versions; it waits for an uncommitted entry and
  fails on a committed one. Rollback's second UPDATE meets the second index too.
- `TargetStart`, `TargetRow`, `TargetMissing`: the UPDATE of a single row in
  `ActivateVersion`, `RevokeVersion` and `SetVersionExpiry`.
- `Refuse`, `Commit`: `Rotate`'s comparison of the number it bound into the
  ciphertext with the number it was given, and COMMIT.
- `Abort`, `DeadlockVictim`: ROLLBACK, for a lost process or a deadlock.

A value is not represented; a version stands for it. `aad` is the number bound
into the ciphertext, computed from the summary exactly as `Rotate` computes it.

### Authz

`Authorize(p, capability, organization, resource, grants, time)` follows
`Engine.Authorize`: known capability, same organization, the credential's
ceiling, then role, then grants. A resource has one field for every level of the
tree, `Nil` where the question is asked at a broader level. Capabilities are the
repository's own ten; roles map to them as in `CapabilitiesForRole`.

### AccessControl and AccessView

`grants` is `access_grants` in order of insertion, `left` the revoked
memberships. A request goes through `Authenticate` (the membership is read
afresh), `Gate` (`Server.allow`, and the validation of a grant's body) and one
of `WriteGrant`, `WriteRevoke`, or `SweepGrants` and `CommitRemoval`. `Refuse` is
any denial, missing row, error or rollback. The UPDATE of `access_grants` in
`RevokeMembership` ends the grants `mark` counted; rows it holds (`Swept`) block
a concurrent revocation. Membership roles do not change in Warder (no handler
updates them), which is why `RoleOf` is a constant.

`AccessView` adds no state. `ListForProject` is the query the access page is
rendered from, `Reaches` the cells of the grid and the two dots in the secrets
table, `Groups` the headings under which grants are read and revoked.
`GridShowsEveryReach` compares them with `MayUse`, the engine's own decision.

### RuntimeAccess

`token`, `identity`, `member`, `cli` and `session` are the credential rows,
`granted` the live grants. `Arrive` is authentication (`Usable` per provider) and
`resolveRuntimeScope`; `Exchange` the INSERT of `handleRuntimeAuth`; `Decide` and
`Release` the two halves of a delivery. `Sweep`, `CommitSweep` and `AbandonSweep`
are the transactions of `RevokeToken` and `DisableIdentity`: the sessions found
by the second statement end at commit. `Lapse` is time: any token, identity,
membership or session may expire at any moment, with no clock. Rows are never
reused (`Slots` bounds how many there are), as session ids are not. `fair`,
`crossing` and `late` are history: whose subject held the grant since the request
arrived, which requests overlap a revocation of what they presented, which
sessions such requests minted.

### Accounts

One person's rows in eight tables, and the handlers under way. A handler is a
record in `requests` whose field `at` names the statement or transaction it runs
next; `Arrives` creates it with everything the code does before the first write
that another request can see, `Continues` runs one statement, `CutOff` loses it
between two. Passwords are numbered in the order they were set, so that `stored`
(whose password the hash is of) can be compared with `chosen` (the last one set).
A proof is what a request spends: a code, a link, a challenge.

- `handleLogin`, `Rehash`, `CountPasskeys`, `CreatePendingMFA`, `completeSignIn`:
  the password is verified against the row as read; the upgrade of an old hash
  writes back the password that was *verified*, later; the number of keys is asked
  after that; the session is inserted without another look at the account.
- `BeginCeremony`, `ClearChallenges`, `StoreChallenge`: `SaveChallenge` is a DELETE
  and an INSERT, autocommitted. `TakeChallenge` is DELETE ... RETURNING, which
  removes every row of its purpose and decides by the first returned.
  `CheckKey`, `CreatePasskey`, `ConsumePendingMFA` are what follows.
- `Spend` is the transaction that marks a code or a link used (a link takes the
  passkeys and the waiting sign-ins with it); `setPassword` is the second one,
  which sets the password and ends every session.
- `handleChangePassword` changes nothing: see section 5.
- `Reissue` and `Retire` move a session to another organization, as an INSERT and
  an UPDATE whose failure is logged.

`spent`, `outcomes` and `cut` are history: the proofs that were spent, what they
brought, and those that brought nothing because their request was cut off or then
refused. `SingleUse` is the promise without tables or statements: a proof is spent at
most once, is held by one attempt, and brings one thing that its kind is good for (a
session or a password, a password, a session or a key), or is lost. `Ledger` maps
`Accounts` to it: held are the proofs of the requests that have got past the statement
that spends them (`Holds`).

### BrowserSessions

`jar` is the cookie jar, `sess` the core's sessions, `tab` the tab that is followed
from page to page, `calls` the calls under way. All 50 routes of `web/app/api`, those
that only read included, are records of what distinguishes them (gate, credential,
whether a body can be refused, what the core is asked for); `Api` is their set.

- `Fetch` is `apiFetch` up to `fetch()`: it reads the CSRF token from
  `document.cookie`. `Attach` is the moment the request goes out: the browser attaches
  the cookies the jar holds by then, which another tab's answer may have replaced, and
  `Backend` judges what it got (the gate, the schema, whether there is a session cookie).
- `Authenticate`, `Refuse` and `Work` are the core's steps: the session is looked up
  once, before the handler runs, and may end under it; `Refuse` is a 429, a 500, a row
  that is not there, or a 401 of any origin; `Acts` is what each kind of route does to
  the table of sessions.
- `Answer` applies Set-Cookie and the page's continuation, in any order of the calls.
  A call that the backend gave up on after fifteen seconds, or whose connection broke,
  stays as `late` and may still be carried out. `Reported` is what the browser is told:
  sign-out and the account control say "ok" whatever the core answered.
- `LoadSignIn`, `LoadWelcome`, `LoadLayout`, `LoadPage` are the server components with
  their redirects. `LoadPage` shows the error page for every failure of its reads.

Other tabs are calls that may carry any page's view. Which rows a handler finds by the
organization of its session is one condition of each query and is not represented.

### DashboardForms, SignInPages

Both are tables of traits plus one state machine. A dialog is a record of the ways
out when idle and while it waits, the ways that clear it, the state it carries, and
what the `try` and `finally` blocks do; the eighteen records are the eighteen
components. A function of a sign-in form is a record of the screen it starts from,
what it awaits in turn (posts, prompts of the browser), whether it sends the
password, and where success and a 401 lead. `Settle` and `Succeed`/`Fail` are the
continuations after `await`, which act on whatever is mounted by then.

### EnvironmentPage, SecretRows, TokenKeys, Toasts

`EnvironmentPage`: `Rerender` is React's rule that rows which leave the list lose
their state (`RowsAfter`) and that answers to them find no row (`Orphaned`);
`AskReveal`, `ServeReveal`, `RevealAnswered`, `Tick` are a reveal and its countdown. An
answer to a row that is no longer mounted still runs `startCountdown`, after the
clean-up of its effect: the interval it starts is one of `strays`, which tick for good
beside no value, since the updater that would clear them never runs.
`RenderPage` is a refresh or a switch answered with the core's present. `SecretRows`:
`parseDotenv` is the loop of the parser as a recursive function over the kinds of
line it tells apart: what a line is by itself, the key and whether a value follows
(`KEY=` has none), the quote that opens a value, and the quotes of either kind that any
line, a comment too, may hold when it stands inside one. The rows are a set: each has an id that is given once and grows,
so that their order is the order of their ids and `IndexIn` and `At` are the index of
a row in an array and back. `PasteIntoKey`, `CloseRows` (the reset of every closing,
which leaves the messages of the last attempt), the batch (`sending` holds the rows as
the closure does) and its answer by index. `TokenKeys`: the effect that fetches keys with its
clean-up (`Cancelled`), which holds the choice as it was when it ran. `Toasts`: the
list (a set, in the order of its ids), the effect that starts and clears timers as an action of its own, and time.

### Perimeter

A connection string is represented by what the parser looks at, all combinations of
it, and none. `Serve` parses it if nothing is cached, checks origin and token where the
path is one of the API's, and records what reaches the core, which a page rendered by
the server calls as well, and with which cookies and headers. One request is
served at a time, because nothing but the cache is shared.

### RateLimiter and Allowance

`buckets` is the map of `limiter.go`, with `None` where a key has no entry. Time is
counted in ticks in each of which one unit of the allowance comes back; an action
takes `Cost` units, and with ticks of a nanosecond this is the arithmetic of every rule
in the code. `Allow` and `Deny` are `Allow` of the code as the middleware calls it, one
step each because `mu` is held throughout; `refilled` is computed from the last touch,
as there. `SweepIdle` may come at any moment. `taken` and `permitted` are history.

`Allowance` is the promise in the simplest form: a level for every key that rises by
itself, at every tick, up to the burst; an action takes its cost or is refused with a
moment to come back that is not too early and at most a second late. It knows of no
buckets, so that a bucket refilled only when touched, or forgotten and replaced by a
full one, must not be seen in any answer.

### Migrations

A process is off, connected, holds the lock, goes through its files, or has executed
one; `build` is what it was compiled from, `recorded` the table as it read it, once,
after it had the lock. `Execute` and `Commit` are the two halves of the transaction of
a file; `schema` is the files whose transactions were committed. A file has a name, of which only the order
counts, and a body; the files of a build are sorted by name. `Close` is every return of the function and
every lost connection: nothing of an open transaction stays, and the lock is free.

## 3. Runs

Bounds are CONSTANTS of the configurations, and every one appears as a guard or
a set in its module; the third version of `versions_safety` is confined by the
CONSTRAINT of its configuration (`ReadsOfFewer`), which keeps the clock, the reads and
the deadlines to what two versions allow.

| Run | Question | Bounds |
|---|---|---|
| `versions_safety` | do two writers keep one active version, openable material, final revocation, no gap, no lost rotation, and the abstract register? does a read ever release what was barred when it began? | 2 requests; 2 versions, clock 0..1, all operations; 3 versions where nothing is read or expires |
| `versions_liveness` | does every request end? | 2 requests, 2 versions, fair |
| `versions_refusal` | is a rotation refused only when overtaken? *(no)* | 2 requests, 3 versions |
| `access_delegation` | where does the authority to grant come from? is a removal thorough about what it saw? | 2 requests, 2 grants, 3 members, clock 0..1 |
| `server_tables` | on every reachable table of grants: where does the permission to read a value come from, do ceilings only narrow, does the access page agree with the engine? rate limiter: does any window hold too much (`InAnyWindow`), is it an allowance (`ImplementsAllowance`)? migrations: is each file executed once and on its base (`EachFileOnItsBase`)? | access: 1 request, 2 grants; limiter: 2 callers, bursts of 2 actions of 2 units, clock 0..5, sweeps of what was idle for 0, 1 or 5 ticks; migrations: 2 processes, 4 builds of up to 3 files |
| `credentials_races` | runtime: do ceilings pass down chains of exchanges, do grants decide each delivery, which sessions escape a revocation? account: is every proof single-use (`ProofsAreSingleUse`, the refinement of `SingleUse`), are keys asked for, what does a new password end, what overwrites it? | runtime: 1 token, 2 sessions, 1 request beside 2 revocations, 2 environments; account: 4 requests, 2 sessions, 1 passkey, 2 sets of codes, 2 challenges, 1 link |
| `runtime_renewed` | does revoking a token reach the sessions exchanged for its sessions? *(no)* | 1 token, 2 sessions, 1 request |
| `dashboard_safety` | thirteen properties of the dashboard's parts | 2 openings, 2 calls, 2 sessions, 3 tries, 2 environments and secrets, 2 reveals, 3 toasts; every connection string; a file of up to 3 lines pasted as the dialog opens, one of 1 line later, 2 rows |
| `dashboard_liveness` | does everything on screen settle? | the same, 1 call over 4 routes, 1 reveal, fair |
| `dashboard_redirects` | is whoever was removed sent to sign-in? *(no)* | 1 call, 2 sessions, fair |
| `dashboard_refused` | does a recovery form show why it was refused? *(no)* | 3 tries |
| `dashboard_signout` | is a session ended before its cookies are cleared? *(no)* | 2 calls, 2 sessions |

Why the bounds are enough to be interesting:

- two versions make a rotation, a rollback, and a revocation of either possible;
  the third is needed for a rotation after a rollback;
- two values of the clock give a deadline that has not passed and has;
- the organization has an administrator, a member who can be made a delegate and
  a member whose membership expires at 1; two environments of one project and
  one of another, so that a grant can be too narrow and can be elsewhere;
- two grants allow the chain administrator, delegate, value; for longer chains
  of delegates `Provenance` is proved;
- a burst of two actions and a cost of two units let a bucket hold a part of an action;
  five ticks are one more than an empty bucket needs to be full and swept;
- two processes wait for one lock, of every two of four builds: a release, the next one
  with a file more, one that rewrote the first file and goes on, and a branch whose
  file sorts before what others may have applied;
- two session rows allow a session exchanged for a session;
- four requests on an account are two races at once: two ceremonies need four
  (begin, begin, finish, finish), a reset between the verification and the upgrade
  of a hash needs two. Two challenges make `SaveChallenge` collide, two sets of
  codes make a set replaced while one of its codes is being spent. What holds for
  any number is proved (section 4);
- six routes stand for all: one for each combination of traits that leads to
  another branch (sign-in, recovery, sign-out, a move, something changed, the account
  control). Two calls let one change the jar between another's reading of the token
  and its sending. The proofs are about all routes;
- two openings and two requests let an answer meet the wrong opening; two mountings
  let it meet another component. Two reveals let one be lost to a filter and
  another be asked for in the same row;
- three lines are an opening quote, a line inside, and a line that may end it. A paste
  of that length is taken into the dialog as it opens, where it meets no other rows;
  what meets them is a later, short one. `ParserKeepsValuesWhole` is proved for texts of
  any length;
- three toasts are one more than are visible (`MaxVisible` is 2 instead of 3), so that
  one is pushed out of sight. Ticks stand for seconds: `RevealSeconds` is 2 and toasts
  live 1 and 2 ticks, which keeps the first, the last and, for errors, a middle tick.

Requests (and session rows, callers of the limiter, migrating processes) are interchangeable, so the safety runs with more
than one use symmetry; the liveness runs do not. Deadlock is an error in all
runs of `SecretVersions` and in `runtime_renewed`. It is not looked for where the
system really may stop: in `AccessControl`, once the clock stands still and nobody
is a member any more, no request authenticates; an account whose requests have
ended, and a page that nobody touches, are at rest.

Every property of a passing run is paired with a mutant: a plausible mistake in
one definition (marked "Mutant" in the modules) under which TLC refutes it.

### Fairness

- `SecretVersions!FairSpec` adds, for each request, weak fairness of its own
  progress, because a goroutine runs on while it can; strong fairness of the steps
  that take a row or an index entry, because PostgreSQL queues waiting transactions
  and wakes them in order; and weak fairness of `DeadlockVictim`, because the
  deadlock detector runs after `deadlock_timeout`. Nothing makes requests arrive,
  abort, or the clock advance.
- `FormFairness`, and the second conjunct of `SessionFairness`: a call is answered,
  because the backend gives the core fifteen seconds (`core-api.ts:109`) and a broken
  connection rejects the fetch. Nothing is assumed of the core.
- The first and third conjuncts of `SessionFairness`: the browser sends a request it
  was given; it follows redirects, and the server renders what it is asked for.
- `PagesFairness`: posts are answered, and a prompt of the browser ends by a touch, a
  dismissal, or the time-out the WebAuthn options carry.
- `PageFairness`, `ToastFairness`: intervals and time-outs fire, effects run after a
  render. A reader who does nothing is always possible.

### What the violated properties show

1. `RefusedOnlyIfOvertaken`. `Rotate` numbers its ciphertext from the *active*
   version, the database from the *newest*. After a rollback, or after the newest
   version was revoked, the two disagree for ever and every rotation is refused
   with "concurrent rotation detected; retry". `MaterialOpens` is what this check
   protects, and it holds; the message and the availability are wrong.
2. `RevocationReachesRenewals`. A session exchanged for a session records the
   session as its source, and the cascade looks for the token.
3. `SentToSignIn`. The layout sends a person without a session to `/login`, and
   `/login` sends whoever has the cookie of one to `/projects`; neither clears it. A
   session that ended elsewhere makes the browser go round until the cookie lapses.
   `LoadsSettle`, part of `dashboard_liveness`, says that this is the only case.
4. `RefusalIsShown`. `apiFetch` takes every 401 for the end of a session, also the
   one that answers a wrong recovery code or a spent link.
5. `EndedBeforeCleared`. The sign-out route revokes the session first and says why:
   clearing the cookie alone would leave a working credential behind. It then clears
   the cookies in every case: a 429, a failing database and fifteen seconds without an
   answer are caught and ignored, and the session that the browser forgets lives on.

## 4. Theorems

| Theorem | States |
|---|---|
| `SecretVersionsProofs!TypeCorrect`, `!Inductive` | `Spec => []TypeOK`, `Spec => []IInv` |
| `SecretVersionsProofs!OneActiveAlways`, `!MaterialOpensAlways` | `Spec => []OneActive`, `Spec => []MaterialOpens` |
| `SecretVersionsProofs!RevocationIsFinal` | `Spec => RevokedForGood` |
| `VersionRegisterProofs!LedgerInductive` | `Spec => []LInv` |
| `VersionRegisterProofs!NeverAGap`, `!NoRotationIsLost`, `!NothingBarredIsReleased` | `Spec => NoGap`, `Spec => NoLostRotation`, `Spec => NoBarredPlaintext` |
| `VersionRegisterProofs!SecretsAreARegister` | `Spec => ImplementsRegister` |
| `AccessControlProofs!Inductive` | `Spec => []IInv` |
| `AccessControlProofs!AuthorityHasProvenance` | `Spec => []Provenance` |
| `AccessControlProofs!RemovalIsThorough`, `!CeilingHolds` | `Spec => []RemovalTakesGrants`, `Spec => []CeilingOnlyNarrows` |
| `AccessControlProofs!ValuesAreTraced` | `Spec => []SecretsTraced` |
| `AccessControlProofs!GridAgrees` | `Spec => []GridShowsEveryReach` |
| `RuntimeAccessProofs!Inductive`, `!TypeCorrect` | `Spec => []IInv`, `Spec => []TypeOK` |
| `RuntimeAccessProofs!NothingGainedByExchange`, `!DeliveriesAreGranted`, `!SurvivorsRaced` | `Spec => []` of `CeilingInherited`, `DeliveryIsGranted`, `OnlyRacersSurvive` |
| `AccountsProofs!AccountsInductive`, `!AccountsTypeCorrect` | `AccountSpec => []IInv`, `AccountSpec => []AccountsTypeOK` |
| `AccountsProofs!ProofsAreSpentOnce`, `!ProofsAreAccountedFor`, `!PasskeysAreAsked`, `!ChangesCutOff`, `!UpgradesOverwrite` | `AccountSpec => []` of `EachProofOnce`, `NothingVanishes`, `NoKeySkipped`, `CutOffByChange`, `OnlyAnUpgradeOverwrites` |
| `AccountsProofs!ProofsAreUsedOnce` | `AccountSpec => ProofsAreSingleUse`: `Accounts` implements `SingleUse` |
| `ServerProofs!LimiterInductive` | `LimiterSpec => []WInv` |
| `ServerProofs!WindowsAreBounded`, `!LimiterKeepsItsPromise` | `LimiterSpec => []InAnyWindow`, `LimiterSpec => ImplementsAllowance` |
| `ServerProofs!MigrationsInductive`, `!EachFileIsOnItsBase` | `MigrateSpec => []MInv`, `MigrateSpec => EachFileOnItsBase` |
| `ServerProofs!NoNameTwice`, `!SchemaIsOneBuilds` | under the lock no name is recorded twice; where builds number their files alike, the schema is always the beginning of one build's |
| `BrowserSessionsProofs!Inductive`, `!SessionsTypeCorrect` | `SessionSpec => []IInv`, `SessionSpec => []SessionTypeOK` |
| `BrowserSessionsProofs!TheJarIsAPair`, `!TheTokenNamesTheSession` | `SessionSpec => []JarIsAPair`, `SessionSpec => []TokenNamesTheSession` |
| `DashboardProofs!DashboardInductive`, `!DashboardTypeCorrect` | `DashboardSpec => []DashboardInv`, `DashboardSpec => []DashboardTypeOK` |
| `DashboardProofs!OneEach`, `!CreationsHappenOnce`, `!AnswersMeetTheirVisits`, `!PasswordsGo`, `!ValuesAreTimed` | `DashboardSpec => []` of `OneAtATime`, `CreatedOnce`, `AnswerMeetsItsVisit`, `PasswordNotKept`, `ShownOnlyWhileTimed` |
| `DashboardProofs!ComplaintsStay`, `!ValuesAreKeptWhole`, `!KeysBelong`, `!MessagesAreTimed`, `!ProductionStaysClosed` | `DashboardSpec => []` of `ErrorStaysWithItsRow`, `ParserKeepsValuesWhole`, `KeysOfTheirEnvironment`, `OneTimerEach`, `ProductionIsClosed` |

The assumptions are those named in the modules: `Nobody` is no request, bounds
are natural numbers, `Nil` is no name of anything, every environment belongs to
a project and every secret to an environment, tokens, slots and the CLI session
are different credentials, routes are among the backend's, kinds of dialog among
the eighteen, the screens one enters by among those of the sign-in forms, secrets on
a page are finitely many; a burst and the cost of an action are at least one, and what a
build embeds is a sequence of files sorted by name. TLC evaluates each of them.

**Versions.** `OneActive` speaks of committed rows only and is not inductive: a
commit publishes tuples written long before. The invariant therefore speaks of
uncommitted tuples and of who holds them. `Exclusive` is the heart: two rows that
both claim the active slot, committed or not, are held by one transaction, which
supersedes one of them and activates the other. It is preserved by `EnterIndex`
because of the index check and by `Commit` because the transaction publishes both
rows at once. `Sealed` says that an uncommitted new version is bound to
`seen + 1`, so that `Commit`'s guard (`Rotate`'s comparison) makes it the row's
own number; `Creation` covers creation, which has no such guard and needs none.
`Marked`, `NotUndone` and `Restoring` keep revocation final: the revocation mark
and the status agree, no tuple forgets a mark, and a rollback that reaches the
index holds an unrevoked row that nobody can revoke any more. `Quiet` and `Held`
tie locks to tuples and to the progress of transactions. Each action has a lemma
(`SupersedeStep`, `EnterIndexStep`, `TargetRowStep`, `CommitStep`, `RollbackStep`,
and `LocalStep` for those that write no row).

What the abstract register promises needs to know more, `LInv`. `Dense`: the
versions committed are exactly 1 up to the number issued, and an uncommitted new one
is the next. `Written` and `Changes` say what the tuple of a transaction can differ
in from the committed row, so that a commit shows what it does to the register: one
version issued, one brought back, one taken out, or nothing that the register sees.
`Informed` ties what a request read to the past it remembers: the numbers it knows
were issued, and what was barred then it has seen barred or will find expired.
`SecretsAreARegister` maps every commit to `Issue`, `Restore` or `Withdraw` and every
other step to a stutter; `NeverAGap` and `NoRotationIsLost` are about one commit each,
and `NothingBarredIsReleased` about `Release` under `Informed`.

**Access.** `Provenance` holds although the gate and the INSERT are separate
steps because grants are never deleted: `GatePassed` remembers for a request past
the gate that its user administers, or that a delegation over that very project
is on record, live or not. `GateGives` derives this from the policy engine:
a question about a whole project is only covered by a grant that names no
environment and no secret (`WholeProject`). `MarksExist` bounds what a removal
counted by the length of the table; `WellKinded`, that a grant's subject type is
its subject's, is what lets a removal find the grants of a user by type.
`CeilingHolds` needs no history: it is a fact of `Authz` over every table.
`GridAgrees` needs `WellKinded` and that every grant on record names a project: the
engine's levels and the grid's two comparisons then cover the same grants, and what
the grid shows in excess has lapsed. `ValuesAreTraced` speaks of chains of grants of
any length, given by a function that is defined by recursion along the table. Were
some grant not at the end of a chain that an administrator began, there would be a
first one (`Least`); `Provenance` gives it an earlier grant as its authority, which is
at the end of such a chain, and so is the first one then (`AllRooted`).

**Runtime.** `CeilingInherited` follows a chain of exchanges that a property of
states cannot walk; `CallersDerive` and `SessionsDerive` say of each link that it
has the subject and environment of the one before, which is what a step preserves.
`SweepFinds` is the heart of `OnlyRacersSurvive`: between a revocation's second
statement and its commit, a live session derived from the token has been found, or
was minted by a request that overlaps; `OutlivesCrossing` puts every request that
survives its credential among those.

**Accounts.** Between two statements anything may have happened, so the invariant
says of each request what is still true. `RequestFits` ties the statement it is at
to what it is and what it spends; the clause for `mint` (none of the keys seen with
the password are there) is `NoKeySkipped` one statement early, and stays true
because keys are only added with new numbers. `Gone` says what "spent" means in the
tables: the code is not there, the link is not open, no row holds the challenge; so
a second request fails its DELETE or UPDATE. `ProofsFit` counts: a proof that was
spent is held by exactly one request, or has brought exactly one thing, or was cut
off. `Grows` is what every step has in common (numbers go up, rows of links and
sessions stay, nothing old comes back), and `FitStays` and `GoneStays` show that
this is enough for the requests that do not move; then each action has one
short lemma. `CutOffByChange` is inductive by itself.

`ProofsAreUsedOnce` maps the steps to those of `SingleUse`. That a proof is not spent
twice is `Gone`; that nobody else holds what a request brings or loses is `ProofsFit`;
`Claim` adds what kind of proof each request holds, and so what it may bring. A
request that arrives holds nothing yet, and every step between its spending and its
end leaves the ledger alone. `EachProofOnce` and `NothingVanishes`, which say the same
of single states, are proved beside it and have no run of their own.

That passwords and sessions stay within the bounds of their types is a matter of
counting. `Tally` says that the passwords set, the sessions inserted and the requests
that may still do either (`Due`) are together no more than the requests that were
made: a request that sets a password ends with it, one that inserts a session ends or
has only the old one left to retire. `AInv` is `Tally` with the bounds and types of
everything else, and is inductive relative to `IInv`.

**Rate limiter.** `InAnyWindow` compares two actions with all of time between them.
What a step preserves is `Reserve`: what a key was allowed since one of its actions,
together with what it could spend at once now, is within the burst and the ticks since.
`ElapseBringsBack` (a bucket that nobody touches rises by one unit at a tick, although
nothing is written), `TouchStores` (writing the refilled bucket changes nothing that can
be seen) and `SweepIsUnseen` (a bucket that is forgotten would have been full) are what
both theorems need: by them each step of the buckets is a step of `Allowance` on
`TokensOf`, or a stutter. `RetryAfterFits` bounds the moment that a refusal names. All
of it holds for every burst, cost, length of a second and pattern of sweeps.

**Migrations.** `EachFileOnItsBase` is about one commit, and needs to know that what a
process read long before is still enough. `Holding`: whoever is past the lock holds it,
so nobody else commits between its reading and its last commit. `TableTells`: the rows
of `schema_migrations` are the files executed, because a file and its row are of one
transaction. `Position`: the table is what a process read of it and the files it has gone
through since (`Behind`), and a file it executes is in neither, the latter because names
are sorted. A process that crashes is `off`, and reads again. The code does not ask
whether the table has files that a build does not know: two builds that add different files
under different names both get theirs applied, and the schema is then neither's. It is
one build's where they number their files alike (`SchemaIsOneBuilds`), as the files
under `migrations/` are numbered.

**Browser sessions.** A call reads the token at one moment and gets its cookies at
another. `Carries` says that the two cookies are of one session, whichever the jar was
of when the request went out, and `Sound` that the gate has judged them against the token
the page had read; both are fixed once the request is out, and `Same` is what every later
step leaves alone. `JarFits` (both cookies of one session that was minted, or none)
then follows for any order of answers, because an answer sets or clears both. So the
comparison of two numbers in `csrf.ts` is one of sessions: a page that read its token
before another tab signed in anew, or moved to another organization, is refused, and no
other is.

**Dashboard.** The invariants of the eight modules concern modules that share no
variable, and are combined by `PartSteps`; types and the facts that a step preserves
are proved together where one needs the other.

- *Dialogs.* The countings (`Cardinality` of the requests of one mounting, of the
  reveals of one row) are turned into statements about singletons, which a step can
  preserve. `CreatedOnce` counts the requests of an opening that the core carried out
  against those answered with a failure. It follows from `OnceEach`: all requests of
  one opening but one have failed, and where one succeeded the form is closed or shows
  the result, so that it sends no other before the next opening.
- *Cookies and calls.* `Bounded` adds to the invariant above how many sessions and
  calls there are, from which `SessionTypeOK` follows.
- *Sign-in forms.* `PagesInv`, with the bounds on attempts.
- *The parser.* It is a function defined by recursion over the lines. That there is
  one is shown by the first line from which the recursion can be carried out to the
  end of the text (were it not line 1, the line before would do as well); likewise,
  the other way round, for `Inside`, the reference definition. They agree: of the lines
  outside every value from which the parser went wrong, take the one nearest the end;
  it reads whole values and goes on outside, where it is right. So
  `ParserKeepsValuesWhole` holds of texts of any length.
- *Rows.* Ids are given once (`r.id < nextRowId`, no two rows of a batch with one id),
  so the index of a filled row leads back to that row and no other.
- *Key picker.* At most one fetch has not been cleaned up, and it is for the
  environment that is shown.
- *Messages.* Ids are given once, so a timer names one message; the effect starts the
  missing timers and clears those without a message.
- *Environment page and perimeter.* `PageInv` and `PerimeterInv`.

**Only model-checked**: everything about liveness (`EveryRequestEnds`,
`EverythingSettles`), which rests on fairness and needs ENABLED. Every invariant,
action property and refinement of a passing run is a theorem. The inductive invariants
themselves are proved and need no run. What a recursive definition
computes is in general proved by an induction whose hypothesis is an operator, which
the installed provers cannot instantiate; where it was needed (chains of grants, the
parser) the argument is by a least counterexample instead, because the library's
theorem on well-founded relations that yields one takes a set.

## 5. Not modelled

- In the modelled components: listing and searching; deleting a secret; the bulk
  import on the core's side except for its validation (`SecretRows`); key patterns and
  IP restrictions of tokens; the hourly purge of runtime sessions that have been
  expired for more than an hour (they are refused before); audit events except where a
  transaction contains one; field validation that does not decide between outcomes;
  in the dashboard, layout, animation and the detail pane of the environment page.
- Components with status `not_modelled` in `PROJECT.json`. Invitations, organizations
  and projects are single transactions guarded by unique indexes: a model would
  restate PostgreSQL. The audit trail is only written. The ciphers, password hashing and WebAuthn signatures
  are libraries. The command line client is a sequential caller of the two APIs.

- The rate limiter's `float64`: the model counts whole units, which the rules of the code
  allow; a rounding error of the order of 1e-15 of an action is left out. So is the
  wording of a wait. A limiter is one process's, and a restart forgets it, as
  `limiter.go` says. Nothing under `src/` calls `StartSweeper`, so that the server as it
  stands never sweeps and keeps a bucket for every address it has seen; the model sweeps at
  any moment, which includes never.
- Migrations: what a file does to the tables is one value. A pooler in the address is refused before anything is sent.

What the properties are limited to:

- `CreatedOnce` allows a repeat after every answer that was a failure. Where the core had
  done the work all the same (it was only late), it is done twice; nothing in the code
  could tell.
- `AnswerMeetsItsVisit` is about the forms that cannot be closed while they wait. The
  other dialogs do show the answer to an earlier opening.
- `KeysOfTheirEnvironment` is about tokens submitted while the picker is neither loading
  nor in error. Nothing in the code waits for the listing, so that a token submitted
  earlier may name keys of the environment chosen before. A choice from which the
  listing dropped the last key is an empty one, which asks for every key; the property
  says nothing of it.
- `ShownOnlyWhileTimed` is about rows: the intervals of `strays` belong to none, and
  nothing promises that they end.
- That conflicts are among the keys stored (`SecretRows`) holds because no secret is
  deleted in the model.

What the models contain without a run of their own, because no document promises
otherwise or because nothing that a property could relate changes:

- `handleChangePassword` (`handlers_recovery.go:121`) loads the account with a query
  that does not select the hash it then verifies, so that every change is refused;
- a link stays usable after its issuer was removed (`handlers_admin_recovery.go:167`);
- a grant can be inserted for a member whose removal took its snapshot before; it
  gives nothing while the membership is revoked;
- runtime sessions of a person outlive the expiry of the membership; an exchange that
  authenticated before a revocation inserts its session after the cascade
  (`OnlyRacersSurvive` says that nothing else escapes);
- in the dashboard: Cancel in the dialog that adds secrets bypasses the reset its
  cross runs; a token or a link minted while the dialog is closed is shown at the
  next opening; the value typed into a row is dropped when a file is pasted into its
  key; a revealed value stays beside the number of a newer version until its
  countdown ends; the access grid shows grants that have lapsed.

## 6. State of the plan

Done, in the order of what matters most for a secrets broker: versions, policy
engine, grants and removal, runtime credentials, accounts with passkeys and recovery;
then the dashboard from its cookies to its dialogs; then the rate limiter and the
migrations; and the proofs of section 4 for all of them.

Possible continuations: a register of memberships with invitations, if the documents
come to promise who may return; the detail pane of the environment page; the import of
secrets on the side of the core, of which only the validation is in `SecretRows`.
