# Formal models of frankai.online

TLA+ models of the parts of this repository whose correctness depends on order,
interleaving and failure: the authentication control plane on PostgreSQL
(sessions, accounts, administrators, MFA, invitations, rate limits), the platform
configuration, the voice sessions, the memory queue with its search index, and the
chat services. Every definition is
translated from the source; the file and lines it stands for are listed in
`PROJECT.json` under `map`.

`tlc -workers 2 -config X.cfg M` checks a run, `tlapm M.tla` checks the proofs of a
module. Paths below are relative to `src/`.

## 1. The system

A Next.js site whose route handlers under `app/api` are the control plane, with
PostgreSQL (or, for local use, JSON files) as its only shared state; a memory queue
and index kept in two files; and a chat path, Fastify gateway -> orchestrator ->
OpenAI (`responses.create`). The processes are request handlers. Node runs one at a
time up to the next `await`, several Node processes may serve the same database, and
between two statements of a handler anything may happen. There is no background
worker and no queue consumer: what a handler does not finish is never finished.

| Part | Files | State | Operations | What is hard |
|---|---|---|---|---|
| Refresh sessions | `app/api/auth/{refresh,login,signup,logout,logout-all,sessions/[id]}`, `lib/auth/{service,store,http}.ts` | `refresh_sessions` | rotate, refuse, end a family, sign in, sign out, revoke, delete | whole-table upserts of a stale list; concurrent refresh against replay |
| Administrator safety | `app/api/admin/users/*`, `lib/auth/{admin,mfa}.ts` | roles, status, verification, MFA enrolment, recovery codes | change role or status, delete, unlock, reset MFA, revoke sessions | write skew between two administrators; writers outside the guard |
| Account access | `app/api/auth/{login,password,email}`, `lib/auth/{jwt,http,service}.ts` | password, status, failure count and versions of an account; its mailed tokens, sessions and access tokens | sign in, count failures, lock, unlock, reset, verify, disable, issue and accept tokens | a check before an `await`, used after it; what a reset or a disablement must end |
| Invitations | `app/api/admin/invitations/*`, `app/api/auth/invitations/*` | `invitations`, the accounts they make | create, resend, revoke, redeem | duplicate check before insert; mail and session after the commit |
| MFA and re-authentication | `app/api/admin/{mfa,reauth}/*`, `lib/auth/mfa.ts` | `admin_mfa_secrets`, `mfa_recovery_codes`, `admin_reauth_assurances` | set up, confirm, challenge, recover, re-authenticate | secret checked outside the transaction that confirms it; a security version copied into a token several awaits later |
| Rate limiting | `lib/auth/rate-limit.ts` | `rate_limit_buckets` | one fixed window per key | window boundary; refused requests count too |
| E-mail | `lib/auth/email.ts` | `email_outbox` | send, record | record lost after the message was sent; nothing retries |
| Memory queue, index and search | `app/api/memory/*`, `app/api/webhooks/hostinger-mail`, `lib/memory/*`, `scripts/rebuild-memory-index.mjs` | `events.jsonl`, `index.json`, temporary files | append, rebuild, search | rebuilds that overlap; short writes; crashes; what must and must not be found; two builders of one index |
| Platform configuration | `lib/platform/*`, `app/api/admin/platform`, `components/platform` | one JSON file, what a console shows | edit, save draft, publish | read-modify-write of a file written in place; validation that changes what it accepts |
| Voice sessions | `lib/voice/realtime.ts`, `app/api/voice/*` | `voice_sessions` | start, connect, end | limit counted before the insert; provider asked outside the transaction; a row nobody ends |
| Chat path | `services/{api,orchestrator}`, `agents/frank-core`, `packages/contracts` | a request and its timers | validate, forward, time out, answer | three time limits, one answer per request |
| File-store deployment, scripts, pages | the rest | | | see section 8 |

The parts meet in a few tables. `users` is written by administrator transactions
under row locks, and by sign-in and sign-up with a save of every row they read
(`lib/auth/store.ts:30`). `refresh_sessions` is written in the same two ways
(`store.ts:32`). Access tokens copy `role_version` and `security_version` out of
`users`, and every authenticated request compares them. MFA enrolment and recovery
codes decide who counts as a recoverable administrator. The chat path and the memory
files share nothing with the rest.

What makes each part correct, in one line each: a token family has one live token and
an ended family none; an administrator who can recover the system is left; a reset, a
disablement and a lockout keep out whom they should; what the index answered as
searchable stays searchable, and message bodies stay out of it; an invitation makes
one account; a reset of MFA ends what was proved before it; a recovery code counts once;
a place for a voice session comes back; a stored configuration can be read; a chat client gets one true answer or a closed
connection. The hazards behind these, each at its line, are in `PROJECT.json`.

## 2. Modules

| Module | Models | Checked by | Proofs |
|---|---|---|---|
| `RefreshSessions` | every handler that writes `refresh_sessions` | `refresh_rotation`, `reuse_revokes_family` | `RefreshSessionsProofs` |
| `AdminGuard` | the final-administrator guard and every writer of the rows it counts | `admin_guard` | `AdminGuardProofs` |
| `AccountAccess` | sign-in, lockout, mailed tokens, administrator's changes, sessions and access tokens | `account_access`, `must_sign_in_again` | `AccountAccessProofs` |
| `AdminMfa` | set-up, confirmation, challenge, recovery codes, re-authentication and reset of MFA | `admin_mfa` | `AdminMfaProofs` |
| `Invitations` | creation, resending, revocation, redemption, their mail and its outbox | `invitations` | `InvitationsProofs` |
| `PlatformDocument` | the configuration as a document, its default and its validation | through `PlatformConfig` | `PlatformConfigProofs` |
| `PlatformConfig` | consoles, both mutating routes and the file | `platform_config` | `PlatformConfigProofs` |
| `RateLimit` | one bucket of `rate_limit_buckets` | through `VoiceSessions` | `AssistantProofs` |
| `VoiceSessions` | realtime sessions under a rate limit | `voice_sessions` | `AssistantProofs` |
| `MemoryIndex` | queue, rebuilds, the files under the index, search availability | `memory_index` | `MemoryProofs` |
| `MemorySearch` | what an event puts into the index, and what a search returns | `memory_search` | `MemoryProofs` |
| `ChatContract` | what a client of `POST /v1/chat` is promised | through `ChatService` | `AssistantProofs` |
| `ChatService` | gateway, orchestrator, agent, their timers | `chat_service` | `AssistantProofs` |

`MC*` modules extend the module they check with symmetry sets and the small
constants. The four modules about accounts look at the same handlers from four
sides, each keeping the columns its properties depend on: the rows of
`refresh_sessions` with their chain; role, status and recovery state of all accounts
under the guard; password, counters and versions of an account; an administrator's
enrolment with its version. Each repeats the
whole-table save, because each property has to survive it.

### RefreshSessions

`rows` is the table: a function from the ids in it to records (account, family,
revoked, successor). A row's id stands for its token too, because no statement
changes the token of a row; a random `token_family` is named by the session that
opened the family. `issued` remembers every session ever created, hence every token
that somebody may still hold. `expired` is the part of `expires_at` the handlers
look at. `pending` holds the whole-table requests: what each read, and the list it
will save.

* *Atomic steps.* `RefreshRotate`, `RefreshConcurrent` and `RefreshReuse` are the
  three outcomes of the transaction of the refresh handler. One action each is
  faithful because the transaction locks the session row and the users row (`FOR UPDATE
  OF s, u`) before it decides. `RevokeUserSessions` (reset, administrator) and
  `DeleteUser` lock the same users row, and an insert into `refresh_sessions` takes
  a key-share lock on it, so they exclude one another.
* *Two-step requests.* `ReadForLogin`, `ReadForLogoutAll`, `ReadForSessionDelete`
  and `ReadForLogout` are the read of `sessions()` with the change in memory; `Save`
  is `saveSessions`; `Authenticate` is the earlier check of the account. Any step of
  any other handler may fall in between. `Save` is one step: it is one database
  transaction and each of its statements overwrites its row with no condition on it.
* *Failure.* `Abort` ends a request at any point: process end, database error,
  refusal. The foreign key makes `Save` impossible when it would re-insert a
  session of a deleted account, and possible again once a sign-in has restored
  the account (`RestoreUser`).
* *History variables.* `lost` records that a save overwrote a row which had changed
  since it was read. `ended` records the families that a sign-out, a reset, an
  administrator or a reuse has ended. No guard reads either.

Properties: `ChainOK` (rotation chains are well formed, stale saves included);
`OneLivePerFamily` and `EndedStaysEnded` (as long as no save was stale);
`GrowsOnlyByRotation` (a token enters an old family only by replacing a usable one in
the same step); `FamilyRevocationIsIdle` (without a stale save, the family revocation
on reuse finds no live token but the one presented, so the defence fires only on a
table that is already damaged, on an expired token or on an account that is not
ACTIVE).

### AdminGuard

`users` holds role, status, verification, enrolment and lock of each row; `codes`
counts unused recovery codes; `request` is where each administrator request is.
`Authorise` is `requireRecentAdmin`, checked once and before the transaction;
`LockMembership` takes the advisory lock and the row locks; `Decide` counts and lets
the operation pass or not; `Commit` writes. `RowLocked` stops every other writer of a
locked row, as PostgreSQL does. `LoginRead`, `SignUpRead` and `LoginSave` are the
whole-table save; `ConsumeCode`, `ConfirmSetup` and `VerifyEmail` are the other
unguarded writers. `bypassed` records that an unguarded write has taken a recoverable
administrator away, for instance five failed sign-ins of the last one: the lockout is
outside the guard, and without `bypassed` no invariant holds.

Properties: `GuardHolds` (guarded operations never take the last recoverable
administrator); `DecisionStands` (the count is not stale at the commit);
`RevocationLeavesAnother` (signing out an administrator leaves another).

### AccountAccess

One row of `users` is a record of password, security version, status, failure count,
lock and verification. A password is named by the epoch it was chosen in, so that "an
older password" can be said. A sign-in runs over four awaits: it reads the whole users
table and checks the password, saves the whole table, reads all the sessions, saves
them with one more (`ReadForLogin`, `SaveUsers`, `ReadForSession`, `SaveSessions`).
`login` holds the table it read and whether it has saved it, `saving` the sessions it
read and will save. `createUser` takes the same way for an account outside `User`
(`ReadForSignUp`), and logout, logout-all and the end of one session read all the
sessions and save them with some revoked (`ReadForSignOut`). Each may stop at any await
(`Aborts`). `mailing` is a token request between the statement that
retires older tokens and the one that inserts its own. `tokens`, `sessions` and
`access` hold what is usable; equal sessions count once, because nothing tells them
apart here. The other actions are one transaction each, on rows they lock.

`epoch` counts resets and changes of role, status or MFA; `chosen`, `tries`,
`disabled` and `barred` (locked by failures, and by no administrator let in since)
remember what owner and administrator did; `lost`, `late` and `crossed`
record the overlaps under which the promises stop holding: a users table saved that had
changed since it was read; a session saved for an account whose password was reset
after it was checked or the list was read; two requests for one kind of token at once.
No step depends on any of them except `epoch`, which names passwords and carries the bound.

Properties: `ResetSignsOut` (as long as neither table was saved stale),
`VoidTokensStayVoid`, `DisabledStaysOut`, `OnlyAdministratorUnlocks`
(each as long as no stale users table was saved) and `OneLiveToken` (as long as two requests
for it did not overlap). They need several steps to break: `DisabledStaysOut` for
instance depends on what failed sign-ins, a verified address, a reset and a role
change each do to a status that is already DISABLED or LOCKED. `OnlyAdministratorUnlocks`
says how long a lock lasts in the code, which is not what the documentation says (section
6): `locked_until` may be over or not at every sign-in (`running` in `Admits`), and neither
its end nor a reset takes the status back.

### AdminMfa

`secret` is the row of `admin_mfa_secrets` by its `confirmed_at`; which secret it is
matters only for whether a code was checked against it, and `verified` remembers that.
`codes` are the unused recovery codes, by the confirmation that made them. A request
reads its administrator once (`Begin`: `requireUser`) and ends several awaits later with
a token that copies the version it read (`Answer`). `work` is where it stands.
`VerifyPending`, `StartConfirmation` and `CommitConfirmation` are `confirmSetup`: the
check, the transaction's UPDATE and DELETE with the rows they lock (`held`, `gone`), and
the rest with its commit. `checkTotp`, `TryRecovery` and `consumeRecoveryCode` are what
challenge, recovery and re-authentication call; `Assure` inserts the assurance before
the token is answered. `Abort` ends a request at any await. `ResetMfa` is the
administrator's transaction, which waits for locked rows; `ReadUsers` and `SaveUsers` are
the whole-table save of a sign-in, which brings an old version or enrolment back. A code
is right or wrong for a secret: windows and encryption are left out, and a code of the
confirmed secret may be used again at any time, as in the code.

`crossed` records a set-up or reset that overtook a confirmation, `lost` a row that a
stale save has overwritten. Without either exception each of the first two properties is
violated: TLC reaches those cases.

Properties: `EnrolmentConsistent` (a confirmed secret was checked, the codes are of one
enrolment, enrolment and secret agree); `ResetEndsProofs` (an accepted token with the
mfa claim goes back to something proved after the last reset); `ProofsCountOnce` (a
recovery code gives one token, and an assurance belongs to the token of its
re-authentication).

### Invitations

`invitations` are the rows, `handler` what each request is about to do: a creation that
has looked for an active invitation and has not inserted yet, a mail that is not sent or
not recorded yet, a redemption that has locked its row and not committed, an account
whose session is not opened yet. `queueEmail` is `Send`, `Record` and `Trouble`; the
provider is SMTP or the log, chosen at the start. Tokens are numbered; `inbox` are those
that arrived. `SignUp` and `DeleteAccount` change who has an account meanwhile, `Expire`
ends an invitation. `overlapped` records two creations that looked at the same time,
`troubled` an invitation whose handler failed after its commit.

Properties: `SpentOnce` (one account at most, for the link sent last, never with a
revocation, and signed in unless its handler failed); `OneActiveUnlessOverlapped`;
`WorkingLinkArrives` (the link that works has arrived, or its handler is at it or
failed; the outbox says SENT only of what arrived).

### PlatformDocument and PlatformConfig

A JSON value is a pair of type and content, and of a text only what `trim` and the
enumerations tell apart is kept. The parsers of the four kinds of item are one
definition over a table of fields. A console edits what it shows, saves it or publishes;
a request reads the file, and writes it in place: `Truncate` empties it,
`WritePlatformConfig` writes from the start, and two writes that overlap leave one
document with the tail of the other. `stored` is what the requests run one by one would
have left, `raced` and `overlapped` record that two of them met.

Properties: `WhatIsWrittenCanBeRead` (what validation accepted it accepts again,
unchanged, and the file is whole unless writes overlapped or failed); `AsIfOneByOne`
(unless requests raced); `WedgedForGood` (no request repairs an incomplete file: each
reads it first and fails).

### RateLimit and VoiceSessions

`RateLimit` is one bucket, time left instead of a clock. `VoiceSessions` puts it in
front of `createRealtimeCall`: `Count` and `Insert` are the two statements of the
transaction (the row of the configuration is locked `FOR SHARE`, which excludes nobody),
then `ProviderAnswers`, `ProviderRefuses` or `Fail`. A user has one bucket: the key of a
bucket names the user and the source of the request (`rate-limit.ts:14`), and all requests
have one source as long as `TRUST_PROXY` is not set, and `.env.example` does not set it. With it set
there is a bucket for each source, and the bound is each bucket's, not the user's. The id of a session is told only
after the update to ACTIVE, so no end can come before it; a call that fails leaves its
row PENDING until its time is over. `VoiceTick` lets time pass for sessions and buckets.
`admitted` counts, for each number of ticks, the requests let through in that many last
ticks. The names that `ChatService` has too begin with `Voice` here, because one module
proves things about both.

Properties: `LimitExceededOnlyByOverlap`, `AtMostTwoWindows` (fewer than twice the limit of
a bucket in any span of one window) and, with fairness, `PlaceComesBack`.

### MemoryIndex

`queue` is `events.jsonl` as the pieces the appends left: whole lines, and the
prefixes a short write leaves, which spoil the line after them. A rebuild reads the
queue, opens a temporary file, writes it and renames it over the index; each is a step,
because each is an `await`. Files are inodes with names, so that two rebuilds under one
temporary name write one file, and a rename moves it from under the other. Handlers
share a process id and can meet in one millisecond; the script has a name of its own.
`faults` bounds short writes, failed rebuilds and crashes; `RoomLeft` says that the instance
has a temporary name and an inode left.

Properties: `WholeUnlessShared`, `IndexedStaysSearchable`, `LossBoundedByFaults`,
`NoPartialEventIndexed`.

### MemorySearch

A text is a sequence of words; `normal` and `lower` give what a written word becomes,
lengths are counted in words. `validateMemoryIngestPayload`, the index builders of server
and script with their own four helpers each, `scoreEntry`, `makeExcerpt` and
`searchMemoryIndex` are operators under the source's names. Metadata is a tree: `Json` is a
set of values closed under their parts, `depth` how deep each is nested, and what the source
computes by recursion is a recursive function on `Json`, so that it can be proved about. The
sort is `before` (its comparison, and the order of the index where that says equal) and
`rank`, the number of results before one. A word that every object inherits (`constructor`)
makes a count that is no number, and a query with it finds nothing; a phrase is looked for
inside words, so that `the` is found in `other`.

Properties: `MentionsAreFound` (a word of an event finds it, unless enough events that
rank as high are found instead), `BodiesDoNotMatter` (what metadata keeps under a
sensitive key, at any depth, has no influence on the index) and `SameIndexFromScript`.

### ChatContract and ChatService

`ChatContract` is what a client may count on: refused at once or admitted; an admitted
request is answered once or its connection closed, and it never waits for ever; a
success is a reply the model gave to this request. `ChatService` is the two servers and
the agent: admission, the orchestrator's checks, the call of the model with its limit,
the head and the body of the answer under the gateway's limit, the idle limit of both
servers' connections, and crashes of the orchestrator. Time passes in ticks, and a
timer that is due fires before time passes on. The orchestrator loads its bearer token
when it starts and reads the file of the OpenAI key at every request, so `tokens` lasts
from start to start and the key may be missing at any request. `limits` is part of the initial state,
so that one run covers every order of the limits.

Properties: `ImplementsContract` (refinement, with the contract's fairness),
`FailuresAreTrue`, `CallOutlivesAnswerOnlyIfLate`, `NoDropWithLongIdleLimit`.

The provider, its client library and `fetch` are outside the repository; they are
modelled by what the code relies on: an answer, an error or nothing, and an abort that
ends the waiting.

## 3. Runs and bounds

| Run | Instance | Shows |
|---|---|---|
| `refresh_rotation` | 2 accounts, 3 sessions, 1 whole-table request | all properties of `RefreshSessions` but its types |
| `reuse_revokes_family` | 1 account, 3 sessions, 1 request | violation: replay of a rotated token |
| `admin_guard` | 2 accounts, 2 requests, 1 sign-in or sign-up, 1 code | the guard under every pair of guarded operations and every other writer |
| `account_access` | 1 account, 1 sign-in, sign-up or sign-out at a time, 2 token requests, 2 tokens, limit 2, 1 epoch, 2 sessions and access tokens | all properties of `AccountAccess` but its types |
| `must_sign_in_again` | the same with 1 session and 1 access token | violation: a session saved after the reset |
| `memory_index` | 2 events, 2 handlers, 1 script, 2 faults | all properties of `MemoryIndex` |
| `admin_mfa` | 1 administrator, 2 requests, 1 sign-in, 1 code, 2 enrolments with 1 token or 1 enrolment with 2, 1 reset | all properties of `AdminMfa` but its types |
| `invitations` | 1 address, 2 roles, 2 handlers, 2 invitations, 3 tokens, 1 failure | all properties of `Invitations` |
| `platform_config` | 2 consoles, 2 edits, 1 publication, 1 failed write or crash | all properties of `PlatformDocument` and `PlatformConfig` |
| `voice_sessions` | 1 user, 2 calls, 1 session allowed, 2 seconds, 3 rows; 2 requests per window of 2, 3 counted | all properties of `RateLimit` and `VoiceSessions` |
| `memory_search` | every queue of up to 3 of 6 payloads, 7 queries, 3 limits, both builders | all properties of `MemorySearch` |
| `chat_service` | 1 request, limits 2 to 4 ticks in every combination, 1 crash | the contract and the other properties of `ChatService` |

Three sessions give a family with a live, a rotated and a twice rotated token, or two
families; with two accounts a save of one overwrites rows of the other. Two
administrators and two requests are the smallest instance of a write skew: each
request removes the other's last colleague. One account is enough for
`AccountAccess`, whose actions touch one account each, except the saves of whole
tables, which are stale in the same way for a second row as for the first, and sign-ups
and sign-outs save stale tables around an account they do not change; two failures
separate the failure before the limit from the one at it; one epoch is one reset or
one disablement, and unlocking enables the account again without another. Two
requests and a set-up or a reset between any two of their steps give every overtaking of
a confirmation, and two requests that present one code; a second token is drawn only
where there was one enrolment, no reset and no stale save, because only
`ProofsCountOnce` relates tokens, and it looks at none of these. Two handlers and one
address give two creations, two resends, or a redemption against each; a third token is
a second resend. Two consoles give every interleaving of two read-modify-writes; the two
edits are a text that is trimmed and a list that is empty once it is. Two calls and one
permitted session are the smallest overlap of two counts, and a row is left to expire
while two more are started; there is no symmetry in that run, because it checks
liveness. The six payloads have bodies at two depths, a word of every kind in `normal`,
a text that is cut, an event with nothing to say and one with a privacy that does not
exist; `Json` has the mail with other bodies too, with which `BodiesDoNotMatter` compares it.
Two
handlers and a script give overlapping rebuilds with and without a common name; two
faults give a short write and a crash. Chat requests share only the orchestrator's
process and its configuration, so one request and one crash give every order of the
three limits; ties between limits are included. Every bounded quantity
(passwords, epochs, faults, crashes, rows, tokens, enrolments, resets, publications,
events, requests of a window) is bounded by a named constant. `platform_config` and
`memory_search` check deadlock; the other models may come to rest when everything is
issued or idle, and their runs switch that check off. The types of `RefreshSessions`,
`AdminGuard`, `AccountAccess` and `AdminMfa` are proved for every instance, and the runs
spend their time on the other properties.

## 4. Fairness

`VoiceSessions` assumes that time passes (weak fairness on `VoiceTick`): a session's place
comes back because `expires_at` does, not because anybody ends it. `ChatService` assumes
that time passes, and a timer that is due in a running
process fires (weak fairness on `Tick`, `ApiLimitReached`, `ModelLimitReached`,
`CloseClient`, `CloseCall`). Node's event loop gives exactly this to a process that is
up. Nothing is assumed of the model, the network, the orchestrator's handlers or its
restart: that every admitted client is served or cut off follows from the gateway's
own timers. The other modules assume none: there is no scheduler and no retry that
would justify it, and their properties are safety properties.

## 5. Proofs

All theorems hold for any number of accounts, sessions, requests and tokens; nothing
is assumed but the named assumptions on constants.

* `RefreshSessionsProofs`: `TypeCorrect`, `RotationChain`, `OneLiveToken`,
  `EndedFamilies` (the four invariants), `FamilyGrowth` and `IdleFamilyRevocation`
  (the two action properties), from `NullAssumption` only. None of the invariants is
  inductive alone, because a save brings back a list read long ago. `IInv` therefore
  says of the table and of every list read or about to be saved that it is a set of
  well formed chains (`TablesInv`, `ListsInv`), and that any two of these tables agree
  on whatever neither may change: account and family of a row, and its successor once
  it has one (`ChainsInv`).
* `AdminGuardProofs`: types, `GuardHolds`, `DecisionStands` and
  `RevocationLeavesAnother`, from the finiteness of the set of accounts (the proof
  counts administrators). The strengthening says what a request in its transaction has
  locked: every administrator's row, so that what it counted can change only by its
  own commit or by a write that does not take an administrator away.
* `AccountAccessProofs`: types and the five invariants, from
  `NullAssumption` (Null is neither an account nor a token owner) and the assumptions on the bounds. `IInv`
  adds what a sign-in in flight has read (`AttemptsConsistent`: its epoch and password
  are not of the future, and its row agrees with them) and will write
  (`SavesConsistent`: a session it will write as live has the password its owner has
  now, or its owner has reset it since), that
  a security version counts epochs (`VersionsCountEpochs`), that whatever goes back to
  an older password is void by its epoch or of a `late` account (`PasswordsCurrent`),
  the statuses a disabled account can have, that the failure count keeps up with the
  failures, so that the one that reaches the limit locks (`FailuresCounted`), and that a token request in flight is alone unless it crossed another
  (`RequestsAlone`). `FreshSave` is the key lemma: a save of users that loses nothing
  changes at most one row, in one of two ways. TLC checked `IInv` as an invariant before it was proved.
* `AdminMfaProofs`: types and the three invariants, from the assumptions on the bounds.
  `IInv` adds that numbers are drawn once, so that what was spent or answered never
  comes back (`NumbersInv`); that, unless a save was stale, the security version counts
  the resets and lies between the version a request read and what it has proved
  (`ProofInv`); and what a confirmation that nothing overtook relies on: its secret is
  still the one it checked, it holds the row alone, and it deletes every code there is
  (`ConfirmInv`). A token accepted after a reset therefore has the number of that reset
  twice: as its version and as its proof.
* `InvitationsProofs`: types and the three invariants, from `BoundAssumption`,
  `RoleAssumption` and `NobodyAssumption`. `IInv` adds that a row which a redemption has
  locked stays open and is locked for it alone (`WorkInv`), that a token leads to one row
  and is in the hands of one handler (`TokenInv`), that a creation which looked alone
  inserts beside no active row (`LookInv`), and that what is about to be recorded as sent
  has arrived (`SentInv`).
* `PlatformConfigProofs`: `ValidatedTwice` (for every JSON value: what
  `validatePlatformConfig` accepts it accepts again and returns unchanged), the two
  invariants and the action property. `IInv` is made of `ShapeInv` (whatever waits to be
  written or is stored was validated), `WriterInv` (unless writes overlapped there is one
  writer, and the file is empty while it is at it) and `RequestInv` (unless requests
  raced there is one between its read and its write, and it will write what its effect
  on `stored` is).

* `AssistantProofs`, on `ChatService`: types, `FailuresAreTrue`,
  `CallOutlivesAnswerOnlyIfLate`, `NoDropWithLongIdleLimit`, and `ContractKept`, the safety
  part of the refinement: initial states are initial states of `ChatContract`, and every step
  is a step of it or changes nothing a client can see. From the assumptions on
  limits and crashes and `NullAssumption` (no response of the orchestrator, which is why a
  connection that broke cannot be mistaken for one). `IInv` adds where gateway, client and
  orchestrator can be at the same time (`PathInv`), the cause of every answer (`CauseInv`),
  that while a call runs the request is at most as much older than it as it was when the
  call began (`CallInv`), and that only a short idle limit drops a client (`DropInv`).
* `AssistantProofs`, on `VoiceSessions`: types, `LimitExceededOnlyByOverlap` and
  `AtMostTwoWindows`, from `VoiceAssumption` and `RateAssumption`. `VoiceInv` adds that a user
  without an overlap has one call at most that has counted, whose place is still free
  (`PlaceInv`), and where a window stands (`RateInv`): since it began no more passed than it
  counted, in its first tick something did, and in what of the last `Window` ticks lies before
  it less than the limit. The last holds because the window before it
  began with a request too, which is too old by then.
* `MemoryProofs`, on `MemoryIndex`: types and the four invariants, for any events, handlers, script runs,
  names and files, from the named assumptions (finitely many events; `Null` is not an event, a
  name or an inode; handlers are not scripts). `IInv` says that temporary names lead to
  different files, none of them the live index (`DirectoryInv`), what a worker holds at each
  step (`WorkerInv`), that without a shared name a writer's file is its own, empty before
  and whole after (`FileInv`), that without an overlap one rebuild is under way and has seen
  what was answered as searchable (`AloneInv`), and that what was answered stands in the
  queue and each unfinished piece is a fault (`QueueInv`). `LossBoundedByFaults` rests on
  `LostBehindBad`: just before every lost event stands an unfinished piece, a different one
  for each.

* `MemoryProofs`, on `MemorySearch`: `MentionsFound`, `BodiesStayOut` and `ScriptBuildsSameIndex`
  (the three invariants), for any vocabulary, payloads, queries, limits and metadata of any
  depth, from the assumptions on words, JSON values and requests (`WordAssumption`: search
  words come from written words; `JsonAssumption`: parts are nested less deep than what holds
  them; `RequestAssumption`: the types of `MemoryIngestPayload`, and limits that are positive).
  `SearchInv` says that every stored event was validated, carries its place as its id and can
  be read back, and that the index has the entries of the oldest events, as they would be made
  now. The rest is about the operators. A function defined by recursion over metadata exists
  and is unique (`RecursionOverDepth`, from a well-founded order of depths), hence both
  builders give a value the same text (`SearchTexts`), and values alike have one text
  (`AlikeSameText`) and keep the same entries (`AlikeSameMetadata`). The comparison of the
  sort is a strict total order on the results (`BeforeIsStrict`), so that each place has one
  result (`Ranks`), and one that is cut off has as many before it as were asked for
  (`HitsAreRanked`); an entry that has a word of the query has a positive score
  (`ScoreFacts`).

Every invariant and action property that a run checks is proved, and so is the safety part of
the refinement. Model-checked only: liveness (`PlaceComesBack`, and that of the chat
contract), which is beyond the prover (fairness, ENABLED).

## 6. Where code and documentation disagree

* `README.md:57` promises that replay revokes the family. `refresh/route.ts:31`
  treats every rotated token as a concurrent refresh and revokes nothing.
  Run `reuse_revokes_family`.
* `docs/authentication-procedure.md:323` says that after a reset the user must sign in
  again on every device. A sign-in that had checked the old password, and a sign-out of
  anybody that had read the sessions, save a session of the old password after the
  reset. Run `must_sign_in_again`.

The following have no run of their own. Where a property is named, the disagreement is
the exception it makes, or what it says.

* `docs/authentication-procedure.md:230-231` says that after the threshold of failed
  sign-ins "the account is locked for the configured lock period", and line 318 that a
  reset clears "failed-login and lock state". `login/route.ts:13` sets the status LOCKED
  too and refuses whatever is not ACTIVE, however long `locked_until` is over, and
  `password/reset/route.ts:7` clears the count and `locked_until` but not the status: the
  lock lasts until an administrator ends it (`OnlyAdministratorUnlocks` states this). Nor
  is the threshold exact: concurrent sign-ins, of any account, save older counts, and such
  failures are lost (`lost` there).
* `docs/realtime-voice-security.md:5` says that provider failures mark pending sessions
  rejected. A provider that answers with an error does; a `fetch` that throws
  (`lib/voice/realtime.ts:27`) leaves the row PENDING, and it keeps its place until
  `expires_at` (`Fail`; `PlaceComesBack` says that it does come back).
* `tests/vertical-slice/services.test.ts:68` expects MODEL_TIMEOUT of a call that ran into
  its limit, and throws a TimeoutError to show it. The client library reports the abort
  of its signal under a name of its own (APIUserAbortError), which `classifyModelError`
  (`services/orchestrator/src/server.ts:54`) takes for MODEL_FAILURE, and the gateway makes
  ORCHESTRATOR_UNAVAILABLE of it. The model has both outcomes (`ModelLimitReached`), and
  `FailuresAreTrue` speaks of the converse only: that MODEL_TIMEOUT is never said of
  anything else.
* `docs/authentication-procedure.md:461` says logout revokes the current session.
  A refresh between the read and the save of `revokeRefreshToken` leaves the
  successor live (`lost` in `EndedStaysEnded`).
* `docs/admin-security-controls.md:4` says an advisory lock serialises changes of
  administrator membership. A sign-in that read the table before such a change writes
  the old role back, without the lock (`bypassed` in `GuardHolds`).
* `docs/authentication-procedure.md:245` says duplicate active invitations are rejected.
  Two creations that look at the same time both insert (`overlapped` in
  `OneActiveUnlessOverlapped`).
* `docs/authentication-procedure.md:385` says that starting set-up again replaces the
  pending secret. `beginSetup` replaces a confirmed one too, and the enrolment stays: recovery
  codes still work, the old device no longer does. A set-up that overtakes a confirmation
  leaves a confirmed secret that nobody has checked a code of, and a reset that does
  leaves an enrolment with codes and without a secret (`crossed` in
  `EnrolmentConsistent`).
* `app/memory/page.tsx:13` says new memory becomes available after ingestion. A rebuild
  that read earlier and renames later drops it (`overlapped` in
  `IndexedStaysSearchable`).
* `app/api/memory/search/route.ts:40` asks for a rebuild when the index is
  unavailable. Two rebuilds under one temporary name leave an index that does not
  parse after both reported success (`shared` in `WholeUnlessShared`).
* `docs/vertical-slice.md:119` says the API returns only normalised model errors. The
  idle limit (10 s) is shorter than the other two (15 s, 16 s), and a slow request is
  cut off unanswered (the premise of `NoDropWithLongIdleLimit`).
* `lib/auth/email.ts:10` speaks of one bounded retry; nothing retries a message.
* `README.md:261` lists audit records for changes of the platform configuration; its
  routes write none.

Noticed while modelling, with no statement in the repository to check them against: a PATCH
to ACTIVE leaves the failure count where it was; unlocking activates disabled and
unverified accounts too; an account that is not ACTIVE, one in PENDING_VERIFICATION
included, cannot ask for another verification mail, because the route requires an ACTIVE
account; an account whose older verification tokens were retired by a request that then
failed has no usable token until its owner asks again; the confirmation mails after a
reset or an invitation are sent after the commit, and their failure answers 500 or
leaves a spent token; `docs/admin-route-security.json` lists a rate limit for PATCH
and DELETE of users that the routes do not apply; the mail webhook appends to the queue
and rebuilds nothing; a line cut short by a failed append takes the next event with it;
the console says "Changes published." although publishing sends no content, so that
only what was saved before is published; a publication between the read and the write of a draft is
overwritten; an incomplete configuration file fails every later request; `cleanupRateLimits`
has no caller; a search with a word that every object inherits finds nothing.

## 7. Plan

Done: the modules of section 2 and proofs of all of them. In this order from here:

1. Composition: an abstract life cycle of a session (open, ended) that
   `RefreshSessions` implements while no update is lost; a token with the mfa claim from
   `AdminMfa` as the right that `AdminGuard` asks for.
2. The file store of the local deployment, and with it `refresh/route.ts:52-63`.
3. The contact form, which answers and sends one mail.

## 8. Not modelled

The file store (`AUTH_DATABASE_ENABLED` unset) serves one local process and is left
to a later step, and with it `refresh/route.ts:52-63`. Cryptography, cookies, CSRF,
HTML, styles, the texts of mails and the three windows of a TOTP code are not state that
the properties tell apart. Health endpoints, start
and shutdown, and the logging of causes keep no state. Scripts and migrations are run
by one operator at a time; `scripts/admin-create.mjs`, which creates an administrator,
is in `AdminGuard` as the other creators are. The parts of the table in section 1
without a module are listed in `PROJECT.json` as `not_modelled`, with the reason.
