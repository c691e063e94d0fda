# infra-iam-casdoor in TLA+

infra-iam-casdoor is the identity member of a platform whose users live in
Casdoor, an external product. It binds Casdoor's users to its own accounts,
keeps browser sessions, signs access tokens, and is the authority for an
account's *status* (active, disabled, frozen) and *security version*. Casdoor
has no reliable change feed, so the member compares every account with Casdoor
periodically and before every echo of its account stream, and turns what
changed there into facts of its own.

This directory specifies that behaviour in TLA+, checks it with TLC on small
instances, and proves its main safety properties with TLAPS for every value of
the constants. Line numbers refer to the source at this commit.

## The system

| Component | State | Operations | Modelled by |
|---|---|---|---|
| Account row (`core/store.go`, migrations) | `iam_account`: status, mark, version, confirmation and evidence of the last change, baselines of Casdoor's password and factors, `local_change_at`; the published status record; `iam_status_evidence` | `changeEv`/`status`, `SetStatus`, `SecurityChange`, `ResetFactors`, `BaselinePassword`, `Fence`, `Compare`, `ConsoleIntent` | `AccountRow`, `AccountOperations` |
| Account operations (`accounts/accountops.go`) | the handlers in flight | disable, freeze, enable, forced logout, reset of the second factors | `AccountOperations`, `AccountPromises` |
| Password change (`sessions/sessions.go`) | the handler in flight | `ChangePassword`, `ownPassword` | `AccountOperations` |
| Comparison (`reconcile/reconcile.go`) | a run in flight: `readAt`, the users listed | `Reconcile` as the job `Pull` and as the step before an echo | `AccountOperations` |
| Evidence (`core/evidence.go`) | an intent: pending, effective, cancelled | `Intent`, `Effective`, `Settle`, `Concluded` | `AccountOperations` |
| Casdoor management client (`provider/product.go`, `casdoor.go`) | Casdoor's user | list, read, `SetForbidden`, `SetPassword`, `DeleteFactors`, `EndSessions` | `AccountOperations` (not Casdoor's own sessions) |
| Login and browser sessions (`login/login.go`, `core/store.go`) | `iam_login`, `iam_session` | `Begin`, `Take`, `Principal`, `Open`, `Use`, `End` | `Sessions` |
| Session exchange and ended stream (`sessions/sessions.go`) | the ended stream, the edge's cursor | `Exchange`, `Ended` | `Sessions`, `SessionPromises` |
| Recovery and replay (`replay/replay.go`, `core/store.go`) | the recovery generation; the evidence recorded, the backup, what is still to replay | `EndBeforeRecovery`, `ReplayStatus`, `ReplayLogout` | `Sessions` (the generation), `Recovery` (the replay); not `CheckCredential` and `Adopt` |
| Signing keys (`keys/keys.go`, `login/login.go`) | what each process parsed last of the two key files | `KeyRing.Keys`, called by `Jwks` and `Issue` | `SigningKeys` |
| Casdoor OIDC client (`provider/casdoor.go`) | the cached keys | `exchange`, `verify`, `keyfunc` | not modelled |
| Record reads (`accounts/accounts.go`), wiring, configuration, scripts, tests | | | not modelled |

How they interact. Handlers, the periodic job and the steps before echoes run
in the same process (and in others beside it) without any lock of their own.
They meet in two places. The first is the account's row: each operation is one
or several database transactions, each of which takes the row's lock with its
first write or with `FOR UPDATE`. The second is the user in Casdoor, reached by
calls that may fail, or take effect and lose their answer; `SetForbidden` is a
read of the whole user followed by a write of it. Casdoor's console changes the
same user at any time. Evidence intents are written before a tightening and
concluded in its transaction, or cancelled by a deferred `Settle`.

What is hard, and what makes each part correct:

- *Account operations.* An enable asks Casdoor first and commits here second, a
  tightening commits first and asks second; a comparison can run in between,
  with a user list read before any of it. `local_change_at` and `InFlight`
  decide whether it may judge. Correct: a verdict of the authorization member
  is applied to the very row it was given for; this member's own writes are
  never taken for a console's; what is disabled here ends up forbidden there.
- *Security changes.* Version, ended sessions, status record and evidence must
  move together. Correct: the record published last is the row's; a
  confirmation or an evidence record goes out with its own change only.
- *Comparison.* It reads Casdoor, then the row without a lock (the intent), then
  the row under its lock. Correct: a console disablement is taken in with its
  intent, a password changed in Casdoor is followed by a security change, and
  one changed through this member is not counted twice.
- *Evidence.* An intent that is not concluded stays open, and a recovery makes its change. Correct:
  an intent becomes effective with its change and only then, and what took effect is never
  cancelled, whatever fails in between.
- *Login and sessions.* The status is checked in one transaction and
  the session opened in another; timeouts, security changes and recovery all end
  sessions. Correct: a session ends once and is in the ended stream, no token
  outlives its session, a security change makes every token before it stale.
- *Recovery.* The disaster loses the database, and with it conclusions whose
  intents the evidence store keeps. Correct: no session of an older generation is
  used; an account that was closed does not come back open; a replay whose records
  are complete ends in the status record that was published last, its confirmation
  excepted.
- *Signing keys.* Two files are read one after the other, by processes that
  remember what they parsed, while an operator switches them. Correct: whoever
  fetches the published set in time can verify every token that is good.

## Modules

| Module | Kind | Contents |
|---|---|---|
| `AccountRow` | data, no variables | the row, Casdoor's user, the status record, `Changed` (one security change) and `ComparedRow` (the decision of a comparison) |
| `AccountOperations` | state machine | the operations, the comparisons, the console and time; properties |
| `AccountPromises` | abstract specification | what readers of the status records, the authorization member and the auditor may rely on; implemented by `AccountOperations` |
| `Sessions` | state machine | logins, sessions, tokens, the ended stream, the recovery generation; properties |
| `SessionPromises` | abstract specification | what the edge may rely on: tokens, live sessions, announced ends; implemented by `Sessions` |
| `Recovery` | state machine | changes that write evidence, backup, disaster, replay; properties |
| `SigningKeys` | state machine | the key files, the key ring of each process, a component's set; properties |
| `MCAccountOperations`, `MCSessions`, `MCRecovery`, `MCSigningKeys` | TLC | symmetries |
| `AccountRow_proofs` | TLAPS | lemmas about `AccountRow`'s operators |
| `AccountOperations_proofs` | TLAPS | type correctness, the inductive invariant, the theorems |
| `AccountComparisons_proofs` | TLAPS | no password change is missed; the member's own writes are not taken for a console's |
| `AccountPromises_proofs` | TLAPS | `AccountOperations` implements `AccountPromises` |
| `Sessions_proofs` | TLAPS | types and properties of `Sessions` |
| `SessionPromises_proofs` | TLAPS | `Sessions` implements `SessionPromises` |
| `Recovery_proofs` | TLAPS | types, `NeverMoreOpen` and `Restored` |
| `SigningKeys_proofs` | TLAPS | the inductive invariant and the three invariants |

`AccountOperations` and `Sessions` meet in the account's version and the sessions
a change ends. Each is the other's environment: `AccountOperations` keeps only
which sessions live, `Sessions` lets any security change and any status happen at
any time, which is more than `AccountOperations` does. What is proved of `Sessions`
therefore holds beside whatever the operations and comparisons do. `Recovery` uses the
same row and the same `Changed` and `ComparedRow` (it extends `AccountRow`) with each
operation as one transaction: the handlers' calls to Casdoor are
`AccountOperations`' matter, and their order does not change what is recorded.

### AccountOperations

The specification follows one account. Accounts share no state but Casdoor's
user list and the loop of `Reconcile`, and a step of one writes only its own row
and user, so the interesting interleavings are all inside one account.

*A step* is one database transaction or one call to Casdoor. Transactions are
atomic: each one locks the account's row before it decides anything, except
`ConsoleIntent`'s and `ManagedAccount`'s reads, which are steps of their own.

*State.* `row` is the account's row of `iam_account`, `record` the status record
written by the last `status` call, `kept` the latest row of
`iam_status_evidence`, `live` the sessions not ended, `user` Casdoor's user,
`req` and `cmp` the local variables of the handlers and comparisons in flight
(`pc` names the next call, `ev` the phase of the intent, `seen` what
`ManagedAccount` read, `copy` what `User` read), `since` the age of
`local_change_at`. `left` bounds the environment. `owed` is a history variable:
Casdoor's password changed since the first comparison and no security change of
the account followed yet.

*Abstractions.* A password is its change stamp, a number that grows; Casdoor's
stamps have a precision of one second, and two changes within a second are one
to the code. The second factors are their digest. `product_forbidden` is read
only for being NULL, and it is NULL exactly as long as the two baselines are.
The identity of an evidence record is the handler that wrote it. The mark,
status and confirmation are values of small sets.

*Time.* Ticks. A request's handler is younger than `Deadline` and a comparison
younger than `Timeout` (the job's two minutes) whenever time passes; the
comparison's `readAt` is its start. `Recent` is the code's
`local_change_at > readAt - InFlight` written with ages.
`TimeAssumption` asks `Deadline < InFlight`: the request inherits a deadline
from its caller, and a fence is worth something only as long as the request
that set it is gone within the minute. A request slower than that is outside
the model, and outside the code's protection.

*Faults.* `Fail` (a call fails before it takes effect), `CallLost` and
`RollbackLost` (it takes effect, the answer is lost; an idempotent call may be
sent again), `Unsealed` (the evidence writer could not seal), `Crash`. A pending intent
is cancelled when its handler returns, or stays open: `Settle` drops the error, and the
request's context may be over by then (`Settled`). A transaction whose commit is
ambiguous is not modelled: a handler that is told of a failure after its change took
effect cancels an intent that is effective. A crash ends one handler at a time; the
death of the process is several of them.

*The console* (`ConsoleEdit`) forbids, allows, marks deleted, removes, changes the
password or the factors. *Refusals* of the authorization member (denied,
confirmation required, unprovable) are one action: they all return.

### AccountPromises

The abstract side of `AccountOperations`, without Casdoor, comparisons in flight,
local variables, intents or time: the account (status, mark, version), the record
that went out last, the latest evidence, the live sessions, and what each request
relies on. Its promises are in what its actions cannot do. A status moves with the
version, the record, the end of the sessions and its evidence in one step (`Order`,
`TakeIn`). A request moves it only from the account it relies on, which it saw once and
which is still the account in force; it cannot look again. A comparison takes in a
disablement of an active account and nothing else; an enablement in Casdoor is witnessed and
moves nothing (`Witness`). Every other move of the version (`Secure`) keeps status, mark and
evidence, names nobody and leaves at most one session.

`Promises` in `AccountOperations` is the refinement mapping. `account` is `Seen`, the row without
its baselines; `relied` is what a status request read in its first transaction, from
there to its return, and nothing for a handler that does not run or runs another
operation. Fences, baselines, reads, writes of Casdoor's user, intents, edits and time are
stutters. `AccountAgreement` checks it for one handler's status requests against a comparison and
the console; the proof is of every operation and any number of handlers.

### Sessions

One account again: a session belongs to one account, and nothing but the sweep
touches the sessions of two.

*State.* `login` is `iam_login` (a row is "gone" once deleted; the `state` of a
login is a random number and never comes back), `session` is `iam_session`
with the times as ages, `account` the columns of `iam_account` that matter to a
session, `stream` the ended stream, `generation` the row of
`be_recovery_generation`, `closed` the recovery phase in which `Exchange` refuses.
`call` holds the callbacks in flight, `exch` the calls that use a session or sign a
development token: what `Use` returned to them, and the token they gave until it
expires. A callback opens at most one session, which has the callback's name.
`edge` is the reader of `Ended`: its cursor and the ends it knows. `swept` is a
history variable, the generation of the last sweep.

*Steps.* One transaction each: `Begin`, `Take`, `SignedIn` (Principal and the check of
the status it returned), `Use` and `UseTooLate` (the two ways `Store.Use` goes), `Logout`,
`SecurityChange`, `SetStatus`, `PasswordChange`, `Start`; and `Issue`, the signing after
`Use` committed. `Use` locks the session's row before it reads the version, and a
change that ends the session must wait for that lock before it commits, so
`Use` is atomic beside changes. `Open` is two steps, its INSERT with the generation
it read and its commit: the sweep of a start takes no lock an INSERT waits for.
`Abandon` and `GiveUp` are every failure, refusal and crash of a handler.

*Ages.* Ticks. A row's `created` and `seen` stop counting at the first tick past
their timeout, where nothing tells them apart any more. `until` and `left` are the
ticks to the end of the session and of the token as the call computed them, `left` is
0 when there is no token. An INSERT and its commit count as one instant for the
ages, and a transaction's `now()` is the instant of its step.

*External.* The stream's reading by position, the reset of a cursor of another
epoch and the advance of the generation are the SDK's and the platform's
(`events.ReadAfter`, `be_recovery_generation`); they are modelled from how this code
and its tests use them. A batch of `stream` is what one transaction wrote, and the
edge reads a batch at a time: a page's limit only delays it.

### SessionPromises

The abstract side of `Sessions`, without cookies, versions, timeouts or cursors: sets
of live sessions, announced ends, ends the edge knows, and pairs of a call and the
session its token is of. Its promises are in what its actions cannot do: a token
is granted only of a live session; a security change takes every token and every
live session but one in one step, and announces the ends in that step; an end
is announced when the session stops to live and not later; the edge learns
announced ends only; nothing is taken back.

`Promises` in `Sessions` is the refinement mapping. `live` is the rows that have not
ended, `over` all that the stream has carried, and a token counts from the `Use` that
grants it, whenever `Issue` signs it: a token signed after a security change from
what was read before does not count, since its version is stale (`Current`).

### Recovery

One account again, in three phases. *Running*: a change of the row is one
transaction, with the evidence it concludes; the intent before it is a step of its
own (`Intend`), so that a handler can die in between, cancel it (or fail to), or find the row
changed. A request's change carries a confirmation or none (`Confirmed`). `Unrecorded` is a tightening whose intent could not be sealed (`Intent` returns
nil and the change goes on). `TakeBackup` copies the database. *Replaying*: `Restore` is
the disaster and the restoration of the backup; the evidence store has every
sealed intent and the first `n` conclusions, any `n` not before the backup. `Replay`
applies them in the order of their commits, `ReplayIntent` the intents without a
conclusion after them, and `Reopen` opens the member. *Open*: comparisons with Casdoor, or a
sign-in. A status the replay set counts as a local change of now, so the comparisons leave
the status alone until `InFlight` has passed (`fresh`, `Later`, `CompareAgain`). Before the
disaster `fresh` is not followed: a comparison that judges the status may come at any time
there, which allows every order of the two kinds.

`ReplayedRow` is `ReplayStatus` and `ReplayLogout`: no precondition but the account's
existence, the current status skipped, the original record's identity named, no
confirmation passed on. A record without an account's status is answered with an error at
which the recovery stops (`Accepted`); this member writes none, which is for `ClosedAgain`
to show.

*State.* `hand` is a handler or comparison by the evidence record it writes, `log` the
conclusions in commit position, `backup` the database as backed up, `rest` and `todo`
what is still to replay. `since`, `lost` and `refused` are history: what of the changes
since the backup no record tells of, the status record that was destroyed with what of it was
recorded, and whether Casdoor has refused the user ever since and a comparison that judged
the status has seen it.

*External.* Order and content of the replay are the platform's
(`evidence.Replays`); they are modelled from `iam/module.go` and the comments of
`replay.go`: conclusions in commit order, then open intents; a record the database
already holds is not replayed. Casdoor is outside the recovery and changes at any
time.

### SigningKeys

Several processes of the member, one pair of key files, one component that verifies
tokens. `KeyRing.Keys` is two steps, the read of the current file and the read of the
standby, since the files may change in between; the process's mutex makes them
exclude each other within a process (`reading`). `Jwks` and `Issue` are its callers. The
cached parse is kept (`ring`): the standby is parsed again when its text changes, and
one that does not parse is none. A file's text is the key it holds, `None` when
empty, or "broken"; a `Current` that does not parse answers an error and changes
nothing, so that step is left out.

*External.* The operator follows the documented rotation (`BRICKKIT.md`: publish
as standby and wait an hour, swap, withdraw after the tokens' lifetime), both files
swapped at one instant, and may publish a broken file. A component fetches the set
again before it has gone by one for longer than `Refresh`; the rotation's wait is
longer than that (`RotationAssumption`), which is what the hour is for.

*History.* `good` is how long a token of a key is good at most; a set remembers which
keys had signed when its reading began (`live`) and whether the files changed during
it (`torn`).

## Properties and runs

### AccountOperations

These runs are of `MCAccountOperations`. Casdoor starts in agreement with a
never-compared account (`product_*` NULL), as after the first sign-in.

| Run | Instance | Properties |
|---|---|---|
| `AccountStatus` | 2 interchangeable handlers, 2 status requests, 1 confirmation, 1 comparison at a time, 1 console edit (forbid, allow, delete, remove), 1 fault; `InFlight` 2, `Deadline` 1, `Timeout` 2 | `TypeOK`, `PublishedIsRow`, `AskedOnThisRow`, `EvidenceIsOfThisStatus`, `DisablementHasIntent`, `NoVerdictOnEnable`, `NamesItsOwnChange`, `IntentsConcludedOnce` |
| `AccountCredentials` | 2 handlers (logout, reset), 2 requests, 2 comparisons, 2 console edits (password, factors, forbid), no time | `NeverAMissedChange`, `PublishedIsRow` |
| `AccountPasswords` | 1 handler (password, logout, reset), 2 requests, 2 sessions, 2 comparisons, 1 fault, no time, fairness | `NeverAMissedChange`, `PasswordChangeCounted`, `IntentsConcludedOnce` |
| `AccountAgreement` | 1 handler, 3 status requests one after the other, 1 comparison, 1 console edit, 1 fault, fairness | `Agreement`, `OwnWriteIsNoConsoleChange`, `OwnWriteIsNoRollback`, `Promised` |

Why these bounds are enough to be interesting: two handlers and a comparison
give every pairwise race on the row and on Casdoor, with a console change and a
failure at any point. A comparison that ended may start again without bound, so
a single comparison process is any number of comparisons one after the other.
`InFlight` 2 and `Timeout` 2 let a comparison's reading be older than the margin
alone and younger than margin and reading together, which is what the margin is
for (the mutants `RecentNow` and `RecentNoMargin` remove one or the other).
Deadlock is checked in every run: a comparison can always start.

The properties in words (their definitions carry the same comments):

- `PublishedIsRow`: the status record that went out last is the row's.
- `AskedOnThisRow`: as long as the row has the version a request read, it has the
  status and mark it read; with `SetStatus`'s version check, no verdict is
  applied to a row it was not given for.
- `EvidenceIsOfThisStatus`: the latest status evidence is of the row's status.
- `DisablementHasIntent`: a comparison about to take in a console disablement
  has an intent (or could not seal one). The unlocked read is harmless because
  whoever makes the account active in between also sets `local_change_at`.
- `NoVerdictOnEnable`: between an enable's fence and its commit no comparison
  judges the status.
- `NamesItsOwnChange`: a record naming a confirmation or an evidence record
  is of the step that set the status, one version on.
- `IntentsConcludedOnce`: an intent becomes effective in the step that makes its change and in
  no other, and is not cancelled after it when a later call of the handler fails.
- `Promised`: every behaviour is one of `AccountPromises` under the mapping above. Where
  `AskedOnThisRow` says what a version pins, `Promised` says it is used: the step that
  sets a status starts from the account its request saw (the mutant `FreshAlways` drops
  the comparison of versions).
- `OwnWriteIsNoConsoleChange`, `OwnWriteIsNoRollback`: with no console edit and no
  fault so far, no comparison takes in a disablement or sees a rollback. Stated
  for undisturbed behaviours, since after an edit or a fault there is something
  to take in.
- `NeverAMissedChange`: a password change in Casdoor that no security change has
  followed yet is still visible to the next comparison.
- `PasswordChangeCounted`: every one is followed by a security change.
- `Agreement`: when requests, edits and faults stop, Casdoor lets the user in
  exactly if the account is active, from some moment on.

*Fairness* (`Fairness`): a running handler takes its next step, `Tick` happens, and a
comparison starts and goes on. The job has an interval and `MaxAttempts:
Unlimited` (`iam/module.go:88`), a handler is a goroutine that nothing blocks
for ever, and the budgets of `left` end the faults. Requests, refusals and edits
are never required to happen. The fairness is weak and per process; nothing in
it forces the choice between `Allowed` and `Refused`.

### Sessions

These runs are of `MCSessions`. No account is bound at first and the edge has read
the (empty) stream.

| Run | Instance | Properties |
|---|---|---|
| `SessionTokens` | 2 logins, 2 callbacks, 2 calls (exchange with and without renewal, password, development token), forced logouts, disable and enable, versions up to 3; `Idle` 1, `Absolute` 2, `TTL` 2, `LoginTTL` 0 ticks | `TypeOK`, `EndedOnce`, `TokensGoStale`, `TokenWithinSession`, `OneCallbackPerLogin`, `EndIsFinal`, `Promised` |
| `SessionRecovery` | 2 logins, 2 callbacks, 1 exchange, 1 security change, 1 advance of the generation, starts in both phases at any time, fairness | `NoneLeftBehind`, `EndedOnce`, `EndsReachTheEdge`, `EndIsFinal`, `Promised` |

With `Idle` below `Absolute` and `TTL` not below either, each of the three ends a
token in some behaviour, and a session at exactly its timeout occurs. Two
sessions give one that is kept and one that is ended by a password change; three
versions let a change happen before, between and after `Use` and `Issue`. Deadlock
is checked: `Tick` is always possible.

- `EndedOnce`: a session has ended exactly if its end is in the stream, where it is
  once, although five kinds of steps end sessions and any two may race.
- `EndIsFinal`: no later ender overwrites the reason, no step revives a session.
- `TokensGoStale`: a token of the account's current version is of no session that a
  security change ended, and a development token of the current version is of an
  active account. A token may be signed after the change from what was read before.
- `TokenWithinSession`: a token ends no later than its session by either timeout,
  though other uses move the idle timeout and time passes between `Use` and `Issue`.
- `OneCallbackPerLogin`: of the callbacks with one `state` one is let in.
- `NoneLeftBehind`: after a member's start every session from before the generation it
  started in has ended, but one whose INSERT the sweep could not see, and no call
  ever uses that one (`Use` compares the generation itself).
- `Promised`: every behaviour is one of `SessionPromises` under the mapping above. It
  relates sessions, stream and tokens across a step, where the invariants speak of
  a state: a security change leaves no token and no end to a later step, and a
  token once stale never counts again.
- `EndsReachTheEdge`: the edge comes to know each end, by reading it or by a reset.

*Fairness* (`FairSpec`): the edge polls for ever (weak fairness of `Ended`). Nothing
else has to happen.

### Recovery

| Run | Instance | Properties |
|---|---|---|
| `Recovery` | 2 evidence records, versions up to 4 before the disaster, one mark, one confirmation, a backup at any time (also before the account exists), any number of conclusions lost, fairness | `TypeOK`, `NeverMoreOpen`, `Restored`, `ClosedAgain` |

Two records and three changes after the first sign-in give every order of two
recorded changes, a change without a record between or beside them, a cancelled or
abandoned intent, a record before and one after the backup, and any of them lost.
One disaster is followed: the model starts again with an empty evidence store after
it, so a second one would repeat the first. Deadlock is checked: Casdoor's user
may always change.

- `NeverMoreOpen`: an account that was disabled or frozen is not active when the member
  opens again if every tightening since the backup was recorded, whatever conclusions
  were lost; and if one was not, then not after a comparison that judged the status (not one
  within `InFlight` of the replay) with Casdoor refusing the user ever since the disaster. A lost conclusion turns its change
  into an open intent, replayed last: the replay may close an account that had been
  re-enabled, never open one that was closed.
- `Restored`: if nothing was lost and every change was recorded, the replay ends in the
  very status record published last: status, mark, version and evidence. Its confirmation
  stays when the backup has the change, and is gone when the replay made it (`ReplayStatus`
  passes none to `changeEv`). The exception for marks is the subject of `MarkRestored`.
- `ClosedAgain`: after a disaster, an account Casdoor goes on refusing is in the end not active
  here. It takes that no record this member wrote stops its own replay (the mutant of `Accepted`
  refuses a freeze), and that a comparison closes what the replay opened or the backup held
  open, although the first comparisons may leave the status alone.

*Fairness* (`FairSpec`): the recovery calls for the next record until there is none, and
opens the member then (weak fairness of `Replay`, `ReplayIntent` and `Reopen` together);
time passes (`Later`); the job compares again and again (`CompareAgain`: an interval and
`MaxAttempts: Unlimited`, `iam/module.go:88`). No disaster, sign-in or change of Casdoor
has to happen.

### SigningKeys

| Run | Instance | Properties |
|---|---|---|
| `SigningKeys` | 2 interchangeable processes, 3 keys; `Wait` 3, `TTL` 2, `Refresh` 2 ticks | `TypeOK`, `FetchedCoversSigned`, `SignedIsKnown` |

Three keys and no bound on the rotations: a third key is published while tokens of
the first may still be remembered, a key that was withdrawn comes back, and each
process holds a reading of another stage. Two ticks let a set and a token be fresh,
old and just over. Symmetry over the processes and over the keys but the first;
no liveness is checked. Deadlock is checked.

- `SignedIsKnown`: a component verifies every token that is good with the set it
  has, fetched before or after the signing. Excepted is a set whose two reads the
  switch fell between: it has the old key twice and not the new one, until it is
  fetched again. Nothing in this code rules that out, and no comment denies it.
- `FetchedCoversSigned`: even such a set has the keys of every token signed
  before it was asked for, for as long as they are good.

### Mutants

Every property of a passing run has a mutant in `PROJECT.json`: a change of one
definition the way a bug of the code would (the status record read before the
change, a baseline of a second too late, no fence, ...), under which the run
finds the property violated. The mutants stand before the definitions they
change and no other definition uses them.

### Where the code and its comments differ

| Run | Found | Source |
|---|---|---|
| `MissedPassword` | `ChangePassword` commits, the console changes the password, `ownPassword` reads that change back as the baseline: never counted | `sessions.go:136` "one more re-login, never a missed change" |
| `EchoAfterSkip` | a comparison leaves the status alone for `InFlight`, `Reconcile` returns nil, the echo is written | `reconcile.go:54` "the watermark does not pass what was not compared" |
| `DisabledSession` | the account is disabled between a callback's status check and its `Open`: the session lives, and `Use` gives it tokens of the new version, as it does not look at the status | `store.go:406` "a disabled account has no live session" |
| `MarkRestored` | a disabled account is disabled again with a mark after the backup; the replay finds the status already there and skips the record, so mark and evidence are the older ones | `replay.go:17` "applied again here as recorded"; `0007_status_evidence.up.sql:2` "keep their `signal_ref` across a full recovery" |

These runs check one property each and end at its counterexample. The passing
runs check the same properties where these races cannot occur:
`AccountCredentials` without password changes through this member or enablements in
Casdoor, and `AccountPasswords` without the console, for `NeverAMissedChange`,
`AccountAgreement` with one handler for `OwnWriteIsNoConsoleChange`, and `Recovery`'s
`Restored` without marks added to a disabled account.

The same specification with other constants shows three more, which no run of
this project repeats: a comparison between `SecurityChange` and `BaselinePassword` counts
the member's own password change a second time; one that meets a rollback
and a changed password handles the rollback and takes the new password for its
baseline (`NeverAMissedChange`); a disablement's `SetForbidden` that lands after a
concurrent enable committed is taken for a console disablement later
(`OwnWriteIsNoConsoleChange` with two handlers).

## Proofs

`AccountOperations_proofs` proves, for every set of requests, comparisons,
sessions, factors, confirmations and every value of the time bounds:

| Theorem | States |
|---|---|
| `TypeCorrect` | `Spec => []TypeOK` |
| `AlwaysPublished` | `Spec => []PublishedIsRow` |
| `AlwaysAskedOnThisRow` | `Spec => []AskedOnThisRow` |
| `EvidenceFollowsStatus` | `Spec => []EvidenceIsOfThisStatus` |
| `DisablementAlwaysHasIntent` | `Spec => []DisablementHasIntent` |
| `EnableIsFenced` | `Spec => []NoVerdictOnEnable` |
| `ChangesAreNamed` | `Spec => NamesItsOwnChange` |
| `IntentsAreConcluded` | `Spec => IntentsConcludedOnce` |

*Assumptions.* `NoneAssumption`, `NoFactorsAssumption` (AccountRow) and
`WritersAssumption`, `ProcessAssumption`, `InputAssumption`, `TimeAssumption`,
`BoundAssumption` (AccountOperations). None bounds a set or asks it to be finite.
The one that carries content is `Deadline < InFlight`, used by `EnableIsFenced`
only.

*The argument.* `IInv` conjoins the type invariant, the properties and what they
need to be inductive:

- `RequestShape`, `ComparisonShape`: what a handler's local variables are at each
  of its steps (a target at "fence" is active, an intent phase at "set" is one
  of three, ...). Without them `SetStatus` could name anything.
- `SeenOld`: the version a request read is not after the row's; with it and
  the fact that a step that keeps the version keeps status and mark,
  `AskedOnThisRow` is preserved.
- `FenceYoung`: between fence and commit `since` is at most the request's age.
  The age is at most `Deadline < InFlight`, hence `Recent` holds for every
  comparison whatever its own age: `NoVerdictOnEnable`.
- `DisablementHasIntent` is inductive with those: a step of another process that
  makes the row active sets `since` to 0 (`OthersLeaveIntent`), and `Recent` then
  keeps the comparison off.

One lemma per part says that every step preserves it (`RowStep`, `SeenStep`,
`FenceStep`, `IntentStep`, `AskedStep`, `ShapeStep`), each from a few facts about
what the actions do (`RequestMoves`, `ComparisonMoves`, `OwnChangeStep`), so that
the case analysis over the actions is made once. `IntentsAreConcluded` compares a handler's
intent before and after each of its steps and finds it effective exactly where the step
changes the row; the steps of others leave it. `AccountRow_proofs` holds the
facts about the pure operators; `ComparedRowFacts` is the one most cited.

`AccountComparisons_proofs` proves what the comparisons see and do not see. The code promises
these under conditions only, and each theorem states its own:

| Theorem | States | Provided |
|---|---|---|
| `ActiveChangesAreSeen` | `[]SeenWhileActive`: a password change in Casdoor that no security change has followed is visible to the next comparison while the account is active | `[][NoChangeInBetween]_vars`: no password changes in Casdoor while a `ChangePassword` is between its security change and its new baseline |
| `NoChangeIsMissed` | `Spec => []NeverAMissedChange` | `NobodyEnables` (no status requests, no console allow), and `OnePasswordWriter` (no `ChangePassword`, or no console password change and one handler) |
| `OwnWritesAreNoConsoleChange` | `OwnWriteIsNoConsoleChange` | no `ChangePassword`, and `[]OneAtATime`: one request runs at a time |
| `OwnWritesAreNoRollback` | `OwnWriteIsNoRollback` | the same |

Everything else is free: any number of comparisons with user lists of any age, edits and faults
(for the last two: until the first edit or fault, as the properties say), logouts
and resets. What the hypotheses exclude is what TLC finds the properties violated by:

- a change by the console in between becomes the baseline (run `MissedPassword`), hence
  `NoChangeInBetween` and `OnePasswordWriter`;
- a comparison that meets a rollback and a changed password handles the rollback and takes the new
  password for its baseline, hence "while active" and `NobodyEnables`;
- two racing status handlers: the older one's late write to Casdoor is found by a comparison
  that no fence keeps off any more, hence `OneAtATime`;
- a password changed through this member is counted by a comparison between an enable's write
  to Casdoor and its commit: the version moves, the enable is refused as stale, and its
  own write is seen as a rollback, hence no `ChangePassword` (`OwnWritesAreNoConsoleChange` is
  proved from the same invariant and shares the hypothesis).

The hypotheses of `NoChangeIsMissed` hold of the constants of `AccountCredentials` and
`AccountPasswords`. `AccountAgreement` runs one handler and no `ChangePassword`, those of the other two.

*Assumptions.* Those of `AccountOperations_proofs`; `Deadline < InFlight` carries the two `OwnWrites`.

*The argument.* `OnPath` (a handler's step is one of its operation) and `RequestPath` (how a handler
goes from step to step) hold of every behaviour and are shared. For the passwords, stamps grow
(`Stamps`): what a handler or a comparison read is no newer than Casdoor, so a baseline older than
a change is different from every later stamp; `OwedCompared` adds that an account that is owed
a security change has been compared and that no handler is about to rebaseline it. `Refusals` carries
`NoChangeIsMissed` past the rollback: an account that is not active is refused in Casdoor, and a
list that says otherwise was read before the change it would hide. For the member's own writes,
`CalmInv`: in the calm, the factors and the password are as bound, Casdoor agrees with the row or one
request is between its two writes and `since` is at most its age (`Agrees`), the enables are in order
(`Orders`), and a comparison's list agrees with the row or is too young to judge (`Looks`).

`AccountPromises_proofs` proves `AccountKeepsPromises`: `Spec => Promised`, from `IInv` and `OnPath`.
`ChangeMoves` maps each transaction of a security change to one move; `RequestRelies` says how a
request's step moves what it relies on; `SetStatusMaps` combines the comparison of versions with
`AskedOnThisRow` into `relied[r] = account`. Assumptions as in `AccountOperations_proofs`.

`Sessions_proofs` proves, for every set of logins, callbacks and calls and for all
lifetimes:

| Theorem | States |
|---|---|
| `SessionTypesCorrect` | `Spec => []TypeOK` |
| `EndsAreWrittenOnce` | `Spec => []EndedOnce` |
| `ChangesRevokeTokens` | `Spec => []TokensGoStale` |
| `TokensEndWithSession` | `Spec => []TokenWithinSession` |
| `LoginsAreTakenOnce` | `Spec => []OneCallbackPerLogin` |
| `SweepsAreComplete` | `Spec => []NoneLeftBehind` |
| `EndsAreFinal` | `Spec => EndIsFinal` |

*Assumptions.* `NamesAssumption`, `SessionInputAssumption`, `LifetimeAssumption` (natural
numbers in no particular order: not even `TTL <= Idle`) and
`SessionBoundAssumption`.

*The argument.* `SessionSteps` sorts the steps by what they do to the sessions: some end
sessions (all through `EndAll`), one opens one, the others keep them. With
`SessionShape` (a session that has not ended has no reason; one that is there was
opened by its callback's last step) `EndedOnce`, `EndIsFinal` and half of
`NoneLeftBehind` follow from that alone. `LoginShape` (a callback's login is gone)
makes `OneCallbackPerLogin` inductive. `CallOK` is what a call keeps between its use of
a session and its token's end; `Calm` is what every step but `Tick` grants to the
calls it does not make (the session does not grow older, and unless the version
rises nothing revokes it), and under `Tick` the session and the token age alike
(`CallsTick`). The bound of `TokenWithinSession` must be carried by `until` before the token
is signed, which is the only strengthening it needs.

`SessionPromises_proofs` proves `SessionsKeepPromises`: `Spec => Promised`. The mapping needs
no more of a state than `IInv` and `KnownOver` (the edge knows announced ends only);
`KeptMaps`, `OpenMaps` and `EndMaps` say what each kind of step does to the mapped sets,
and each action of `Sessions` is then one action of `SessionPromises` or a stutter.
It has the assumptions of `Sessions_proofs`.

`Recovery_proofs` proves, for any set of evidence records, any marks and any bound:

| Theorem | States |
|---|---|
| `RecoveryTypes` | `Spec => []TypeOK` |
| `NeverMoreOpenAlways` | `Spec => []NeverMoreOpen` |
| `RestoredAlways` | `Spec => []Restored` |

*Assumptions.* `RecoveryInputAssumption`, `RecoveryBoundAssumption` and those of
`AccountRow`. *The argument.* `Invariant` says, phase by phase, where the reason for a
closed account is, as long as every tightening since the backup was recorded. Running
(`Grounds`): it was closed in the backup and no conclusion opened it since, or by a
conclusion in the log after which none opens. Replaying: the row is closed and nothing still to come
opens it, or a conclusion that closes it is to come with none that opens it after, or an
open intent will close it. Since the log's prefix is cut at any point, the step that
matters is `RestoreReplaying`: a conclusion that is cut off leaves an open intent.

`RestoredAlways` needs more than where the reason for a closed account is: the very record. `Leads`
says that a sequence of conclusions, replayed in order, makes one status record of another, by
naming the records in between. `Recorded`: before the disaster the conclusions since the backup lead
from its row to the row, unless a change was not recorded or marked an account already
disabled; `ReplayedSoFar`: what is left to replay leads to the row that was lost. A
conclusion makes the chain one longer (`LeadsOn`), each replayed one makes it one shorter
(`LeadsAfter`), and at its end the two records are one (`LeadsNowhere`). The chain is by records
and not by rows, since the baselines are not restored, and by records without their confirmation
(`Bare`), since a replay passes none. The confirmation has an invariant of its own, `Confirmation`: before
the disaster a row at the backup's version has the backup's confirmation, since a step leaves the
record or raises the version (`VersionMoves`), and a change the replay makes leaves none
(`ApplyConfirmation`). `RecordIsRow` (the record that went out last is the row's) lets both speak of
the record alone.

`SigningKeys_proofs` proves, for any number of processes and keys and all lifetimes:

| Theorem | States |
|---|---|
| `KeyTypesCorrect` | `Spec => []TypeOK` |
| `SignedAlwaysKnown` | `Spec => []SignedIsKnown` |
| `FetchedAlwaysCovers` | `Spec => []FetchedCoversSigned` |

*Assumptions.* `KeysAssumption`, and `RotationAssumption`, of which `Refresh < Wait` carries
the content. *The argument.* `TokensOK`: a good token is of the current key or, after a
switch, of the standby, with less time left than the operator still waits.
`CacheOK`: a set has the current key and, once it is younger than the publication,
the standby; at a switch it must be, because `Wait` is longer than any set is kept.
`ReadingOK` carries both through a process between its two reads: the key it read is
current, or was until a switch in this very tick.

*Only model-checked:* the liveness properties (`Agreement`, `PasswordChangeCounted`,
`EndsReachTheEdge`, `ClosedAgain`), since liveness under fairness is out of the prover's
reach. Every invariant and every action property of a passing run is stated by a theorem,
three of them under the hypotheses named above.

## Not modelled

- More than one account, and the ordering of accounts inside a comparison.
- Several processes' different clocks; two uses of one session that straddle its
  idle timeout within their own duration (`Use`'s second UPDATE does not repeat the
  timeouts of the first, so the later one may end what the earlier one renewed).
- Ambiguous commits; the wall clock going backwards; a request slower than
  `InFlight`.
- Transactions that the database aborts: one that fails is a call that fails (`Fail`), and one
  that commits is a single step.
- Casdoor's own sessions (`EndSessions`), login attempts and lockout.
- The OIDC client (`exchange`, `verify`, `keyfunc`). It keeps Casdoor's keys and the
  time of their fetch, under a mutex, and asks for them again at most every 30
  seconds: a rotation shortly after a fetch refuses genuine sign-ins until then. No
  document promises otherwise, and a refused sign-in is repeated by its user. Keys
  that Casdoor withdraws stay accepted until some unknown key is met.
- `CheckCredential`: it compares three times and writes nothing, and the record's
  time comes from the SDK.
- `Adopt`: it serves accounts from before the first status record was written.
- In `Recovery`: the sessions (they are ended by the generation, module `Sessions`),
  `iam_status_evidence`, `local_change_at` before the disaster, and a second recovery.
- An unplanned switch of the signing keys without the wait (a leaked key): tokens
  of the new key are then unknown to components until they fetch the set.
- Record reads, wording, JSON and log lines; the wiring of `iam/module.go`.

## What could come next

`AccountOperations` with two accounts and the loop of `Reconcile`, whose error for one
account leaves the later ones uncompared; an abstract specification of what a recovery
may lose, for `Recovery` to implement; and `keyfunc` beside `SigningKeys`, if the throttle
becomes something a document speaks of.
