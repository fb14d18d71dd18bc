# Future Fashion rewards: a verification project

TLA+ modules, TLC runs and TLAPS proofs for the program under `src/`: a referral
rewards app. People sign up with a friend's code, verify through a Telegram bot,
and the friend earns a fixed reward out of a pool the company funds. From a
payout date on, rewards can be withdrawn to a bank account; an admin exports the
requests in batches and records what the bank did.

This file says what is modelled, what the runs and proofs show, and what is left.
Every definition is written from the code and `PROJECT.json` names the lines.

## 1. The system

| Part | State | Operations | Meets |
|---|---|---|---|
| Ledger (`services/ledger.py`) | accounts with a kept balance, transactions with a unique idempotency key, entries | `post`, `transfer`, `user_account` | everything that moves money |
| Wallet (`services/wallet.py`) | the user's pending and available accounts | `unlock_if_open`, `summary` | withdrawals, worker |
| Rewards (`services/rewards.py`) | `referral_rewards` | `credit_for_verified_user` | verification, pool, campaign |
| Withdrawals (`services/withdrawals.py`) | `withdrawal_requests`, `payout_batches` | `create`, `create_batch`, `mark_paid`, `mark_failed` | wallet, bank, flags, suspension |
| Bank details (`services/bank.py`) | `bank_accounts` | `save` | withdrawals (locked while one is active), risk |
| Risk (`services/risk.py`) | open flags | `after_verification`, `after_bank_details`, resolve | batches |
| Campaign (`services/campaign.py`, admin) | the current campaign row, the pool | save, fund, `gates` | rewards, wallet, sign-up |
| Sign-up and login (`services/auth.py`) | users | `signup` (may replace a pending account), `login` | idempotency, captcha, sessions, referrals |
| Verification (`services/verification.py`, `telegram/`) | verification sessions, membership counter | `open_session`, start / check / contact updates, `complete` | rewards, bots, housekeeping |
| Bots (`services/bots.py`) | health, failures | pick, mark, recover | verification |
| Sessions (`services/sessions.py`) | token families | issue, authenticate, refresh, revoke | client, suspension |
| Mobile client (`mobile/lib/core`) | tokens, idempotency key of a form | send, single-flight refresh, retry | sessions, idempotency |
| Idempotency (`services/idempotency.py`) | (scope, key) rows | lookup, begin, complete, expiry | sign-up, bank, withdrawals |
| Worker and jobs (`worker.py`, `services/jobs.py`) | job rows | enqueue, claim, finish, unlock chain, housekeeping | wallet, users, sessions |
| Referrals (`services/referrals.py`) | edges to four levels, snapshots | bind, qualify, count | sign-up, verification |
| Launch gate (`services/launch_gate.py`) | nonces and passes in Redis | challenge, complete, has_pass | every verified route |
| Limits (`security/`) | Redis counters, captcha answers | hit, verify | sign-up, login |

Hard behaviours. The database is PostgreSQL at READ COMMITTED, so a check and the
write that depends on it are one step only under a row lock, a unique index or a
constraint. Requests, Telegram updates, admin forms and worker jobs run
concurrently. Telegram redelivers, clients retry, forms are resubmitted, and a
handler can fail at any point with its transaction rolled back. `with_for_update`
does not refresh an object the session has already loaded. `PROJECT.json` lists
each place where one of these bites ("hazards"), with the property that watches it.

What makes each part correct:

- ledger: a balance is the sum of its entries; a key moves money once; only the
  company's account may be negative;
- rewards: one per verified friend, to the friend's referrer, never beyond the pool;
- withdrawals: one active per user, money held exactly while active, settled once
  and the way the status says, in at most one batch;
- wallet: everything earned is pending, available, in withdrawal or withdrawn;
- bank details: do not change while a withdrawal is active; a shared account is flagged;
- verification: an account is verified by one Telegram account that showed its
  number, once; a user has one open session; an expired sign-up frees its number;
- sessions: a login has one working session, each refresh token works once, a
  suspended user's login is never renewed, and an app that lost no answer is not
  taken for a thief;
- jobs: one job is run by one worker unless its lock ran out, and every pending
  balance is unlocked in the end;
- sign-up: a key makes one account, an account costs a captcha, nobody is let into
  an account with another password, and no order of calls waits for itself;
- referrals: the closure table says what the chain of referrers says, and a
  snapshot never shows more than there is;
- bots: a healthy bot is not taken out for failures it did not have, and one that
  works again comes back;
- launch gate: a pass is had with one's own Telegram and link only, a saved
  setting reaches every process, and nobody is kept out without a way in.

## 2. Modules

`Ledger.tla` is the ledger as operators on a *book*: the set of transactions and
the balance kept on every account. All transactions of the program have two
postings (`ledger.transfer`), so one is a source, a destination and an amount.
`Post` is `ledger.post`: a key already posted changes nothing. `Solvent` is the
constraint `no_negative_balance`; `Covers` is when it lets a posting through.

`Payouts.tla` is the money path over that ledger. What an action is follows the
locks:

| Code | Action | Why one step, or not |
|---|---|---|
| `_on_contact` → `verification.complete` → `credit_for_verified_user` | `ReadContact`, `AdmitVerify`, `CommitVerify` | the user is read under the session lock only, then locked without being read again (`RowLocked`); referrer status and campaign are read unlocked, the pool is locked before the budget check |
| `wallet.unlock_if_open` (`GET /wallet`, worker) | `UnlockWallet` | the pending account is locked |
| `POST /withdrawals`, `withdrawals.create` | `AdmitWithdrawal`, `HoldWithdrawal` | status, date, bank row and minimum are read unlocked; unlock, balance, row and hold are under the account locks and `one_active` |
| `bank.save`, `risk.after_bank_details` | `AdmitBank`, `ScanBank`, `SaveBank` | active withdrawal read unlocked; other owners read among committed rows; row and flags commit together |
| `create_batch` | `CreateBatch` | rows locked, `SKIP LOCKED` |
| `mark_paid`, `mark_failed` | `MarkPaid`, `MarkFailed` | row locked first |
| admin forms | `CampaignSave`, `Fund`, `Suspend`, `Unsuspend`, `ResolveFlag` | one row each |
| `signup` | `SignUp` | code and campaign gate only |
| any failure in flight | `Abort` | the transaction rolls back |

`handler` holds what each request in flight has read: it is the state a torn
check-then-act depends on. Abstractions: `create_batch` takes the oldest rows, but
`SKIP LOCKED` passes over any row another transaction holds, so any eligible rows
within the limit may be the ones taken; the flagging of at most 20 other owners
takes any of them, as the code orders nothing; `LastEntry` counts an account's
entries where the code takes the largest entry id, which changes at exactly the
same moments; inside `create` the unlock does not look at the clock again, since
the clock does not go back; `unlock_batch` unlocks many users in one transaction
and is here one `UnlockWallet` per user; open flags are a set. A person's row is
created once here; `Verification` has the replacement of unverified sign-ups.

`Wallet.tla` is the abstract specification: a pool, two amounts per user and a
table of withdrawals, with no ledger, key, lock, handler or clock. `Payouts`
implements it under the mapping of `Promise` (balances of the pool, pending and
available accounts; rows without account and batch): `KeepsPromise`. It says that
no status changes without its money and no money moves without its row, though the
code writes both separately and goes on when a key was already used.

`Verification.tla` is accounts and their Telegram verification, without money:

| Code | Action | Why one step, or not |
|---|---|---|
| `auth.signup` | `SignUp` | the existing row is locked and deleted and the new one inserted in one transaction; `phone` is unique |
| `POST /telegram/verification-session` | `AdmitOpen`, `OpenSession` | the user is read, then the latest session and the user's row are locked; the expiry compared is the one read first |
| `/start <token>` | `Start` | session locked by `find_by_token` |
| the check button | `CheckChannels` | session locked by `_session_for` |
| a contact | `ContactChannelLeft`, `ContactMismatch`; `ContactMatches`, `LockUser`, `Complete` | session locked throughout, user read before it is locked, `telegram_user_id` unique at the write |
| `user_suspend`, `user_unsuspend` | `Suspend`, `Unsuspend` | row locked |
| `worker.housekeeping` | `FindExpired`, `DeleteExpired`, `CleaningFails` | the ids are read, then deleted without repeating the condition; cascades to sessions and proofs |
| a bot fails, recovers, is switched | `BotChange` | one row |
| rows that refer to a verified user | `Keep` | foreign keys without cascade make the deletion fail |
| a handler fails | `Abort` | rolled back; the webhook answers 200 and the update is lost |

A deleted row stays in the table with status `DELETED`, so ids are not used twice.
An update is enabled at any time, so a second delivery, a late one and one that
never comes are behaviours of the model; the Redis key that drops most
repetitions only removes some. `NumbersOf` says which numbers the own contact of
a Telegram account may show: more than one, because people change numbers. Which
channels were joined, and so what a check answers, is free. Where the code would
deadlock on session and user rows (`complete` takes the session first, a deletion
the user first) the database aborts one of the two, which is `Abort` or
`CleaningFails`. Capacity is checked at sign-up only, as in the code.

`Sessions.tla` is logins and the app that keeps one. A call is one slot from the
moment the app sends it to the moment it reads the answer, or stops waiting for it
while the server handles it all the same.

| Code | Action | Why one step, or not |
|---|---|---|
| `auth.login` | `Login`, `AdmitLogin`, `IssueLogin` | the status is read in one transaction, the session issued in a later one from the same copy |
| `ApiClient._refreshOnce` | `AskRefresh` | single flight per app; the token sent is the one stored then |
| `sessions.refresh` | `LockRefresh`, `Rotate`, `AbortRotate` | decided under the row lock, committed later |
| `revoke_family` | `RevokeFamily`, or `RevokeWaits` and `RevokeResumes` | one `UPDATE`: it sees what was committed when it began, waits for a locked row, and looks again only at the rows it saw |
| `POST /auth/logout` | `Logout`, `AuthenticateLogout` | authenticated in an earlier transaction |
| `user_suspend` | `Suspend`, `Unsuspend` | locks the user, waits for a rotation of one of the user's sessions |
| the app reads an answer, a logout fails, the app gives up, is killed | `Deliver`, `LogoutFails`, `GiveUp`, `Restart` | only the stored pair outlives the app, and a failed logout clears it too |

`Worker.tla` is the queue and the workers, at work on the chain of unlock batches.
A job's row is one element under its dedupe key. Time is one flag per job: its
timer (`run_at`, `locked_until`, the week of a done job) has run out. `Claim`,
`UnlockBatch` or `HandlerFails`, and `Finish` are three transactions with a crash
or a second worker possible between them; `Housekeeping` deletes old jobs and
enqueues the start of the chain once payouts are open. `finish` asks nobody whose
job it is, and so does the model.

`Signups.tla` is one sign-up at the grain of its awaits: `Lookup`, `LimitHit` or
`Admit` (the captcha), `Begin` and `ReadRecord` (the key, which makes a second
transaction wait), `FindExisting` and `WaitEnds` (the number's row under `FOR
UPDATE`), `Insert` (the unique number), `Commit`, and for a repetition `Replay`
and `IssueReplay`. What a transaction wrote counts at its `Commit`; `HoldsKey` and
`HoldsPhone` say for whom it holds which row until then. After a wait the row is
looked at again, and a row inserted meanwhile is not seen, as at READ COMMITTED.
Housekeeping's deletion of a pending account is one step here.

`Referrals.tla` keeps the tree twice, as `users.referrer_id` and as
`referral_edges`. `Above` is the reference definition, along `referrer_id`.
A snapshot is computed in two steps (`FirstVisit` or `SnapshotRefresh`, then
`Upsert`), because its two reads are two statements. Housekeeping is `FindExpired`,
`DeleteExpired`, `CleaningFails`, as in `Verification`. An admin may suspend a user
who never verified, whose edges stay `PENDING` and who comes back as pending; so it is
`verified`, the users with a `verified_at`, that says which edges count, and not the
status. A contact that read the user before the suspension verifies all the same.

`Bots.tla` is the health of one bot. SQLAlchemy writes at commit the columns that
differ from what was loaded, the sessions do not expire their objects at commit
(`db.py:28`), and a webhook runs several transactions with one session; so each
caller has a `base` and a `copy` of the row and `Merged` is what its commit
leaves; `Rollback` forgets both. `register`, `Toggle` and housekeeping's `recover` (the caller `Probe`)
write the same row.

`LaunchGate.tla` is nonces and passes in Redis and the copy of the setting that
each server process keeps. `complete` is `Match`, `GetNonce`, `DeleteNonce`,
`SetPass`, with timers, suspensions and failures in between. `_gate_state` reads
in one step and stores in another (`LoadGate`, `StoreGate`), so a slow request may
store an old value. Nothing calls `clear_pass`, so nothing in the model does: a
pass survives a suspension, during which the user has no session to use it with.

`AccountLocks.tla` is the money path once more, one statement at a time. A
transaction is the list of statements it has still to make (`todo`) and the rows it
has locked, with what it wrote there (`written`); others read what is committed. It
is seen from its first lock on, and ends with `Commit` or `Rollback`.

| Code | Statements |
|---|---|
| `ledger.transfer` | `Update` of the two accounts in the order of their ids, each refused if it would leave less than nothing |
| `wallet.unlock_if_open` | `Unlock`: lock the pending account, then transfer whatever is there |
| `withdrawals.create` | unlock, `Select` the available account, `Insert` the request under `one_active`, transfer to clearing |
| `mark_paid`, `mark_failed` | `LockRequest`, look at the status, transfer from clearing |
| `credit_for_verified_user` | `Select` the pool, transfer to the referrer's pending account |
| `campaign_fund`, `summary` | a transfer; an unlock |
| `worker.unlock_batch` | the list of accounts is read before any lock, then one `Unlock` after the other in one transaction |
| `create_batch` | locks the requests nobody holds, waits for none |

The ids of the accounts matter, since they are the order of locking: the company's
come first (migration 0001 inserts them), and a user's pending account before the
available one, which the first unlock creates. An insert under `one_active` waits
for who is about to end the active row. Amounts are 1, payouts are open, and of
rewards and idempotency keys nothing is kept: `Payouts` has those. The rows of
users are left out: `complete` locks a user before it locks accounts, but no reward
can refer to that user before it commits, and a suspension locks no account. What `Payouts`
joins into one step is justified here: whatever open transactions do between each
other's statements, `CommittedMoneyAddsUp`.

`PayoutsProofs`, `EarningProofs`, `VerificationProofs`, `SessionsProofs`,
`WorkerProofs`, `SignupsProofs`, `ReferralsProofs` and `ServicesProofs` hold the
proofs, `EarningProofs` those of `AccountLocks`, the last those of `Bots` and `LaunchGate` and of their composition with
sign-ups and tree. `MC*.tla` with their `.cfg` files instantiate
the modules. Three of them put together parts that share no state, and choose at the
start which one moves, so that the sum of their states is explored and not the
product, which would show nothing more: `MCEarning` has `Payouts` and `AccountLocks`
(`grain`), `MCWorker` has the queue and the housekeeping of `Verification` (`duty`),
and `MCServices` composes `Signups`, `Referrals`, `Bots` and `LaunchGate` (`focus`).
For the tree and the gate there are two choices each, so that
the tree can have one user more when no snapshot is made (four are the least for
an ancestor beyond `MaxLevel`), and the crossings of the gate are not multiplied
by the cached copies.

## 3. Runs

| Run | Constants | Shows |
|---|---|---|
| `earning` | one referrer, two friends, two handlers, two funding forms of 3, rewards 2 or 3, clock 0..2, pause | the second friend may find the pool one short, or raised beyond it, while both are in flight: `PromisesFunded`, `RewardBacked`, `LedgerReconciles`. At the grain of statements, two users, three open transactions and funding of 3: `CommittedMoneyAddsUp`, `DeadlockNeedsBatch` |
| `paying` | an earner and a friend, two handlers, amounts 1 and 2, two withdrawals, one bank account both may save, batches of one | concurrent requests, return and second request, batch and settlement, flags, suspension: the six invariants, `RowsAreFinal`, `KeepsPromise` |
| `verification` | two numbers, `t1` that had both and `t2` with the second, two handlers, two accounts, two sessions, one failing bot, clock 0..1 | forwarded links, changed numbers, racing contacts, session replacement, suspension, housekeeping: `OneOpenSession`, `LinkedByOwnNumber`, `PendingOutlivesSession`, `SessionsEnd` |
| `suspension` | one user, no clock | **violated**: docs/ADMIN.md:70 says a suspended account is blocked; a contact that read the user before the suspension makes the account ACTIVE after it |
| `counter` | one number, one Telegram account, one handler, clock 0..2 | **violated**: docs/API.md:156 says the counter is the real count of verified users; housekeeping deletes by id a user who verified since it looked |
| `bank_lock` | as `paying`, two bank accounts | **violated**: docs/API.md:60 says bank details cannot change while a withdrawal is being paid; `bank.save` checks without a lock |
| `shared_account` | two users without referrer, one bank account | **violated**: docs/ADMIN.md:87 says a shared account is flagged; two concurrent saves both scan before either commits |
| `sessions` | one user, one phone, two calls, two lifetimes of an access token, four sessions, one lost answer | rotation against reuse, logout, suspension, expiry and a restarted app: `OneLivePerFamily`, `EachTokenOnce`, `NoFalseAlarm`, `SuspendedNeverRenews`, `RevokesAllButRacing` |
| `worker` | two workers, two accounts in batches of one, two attempts, two faults, two rewards | dead workers, overrun locks, failed handlers and reused keys: `SharedOnlyAfterOverrun`, `JobsKeepTrying`, `DoneStaysDone`, `AllUnlocked`. Or one number, one Telegram account, two accounts and two sessions, clock 0..2: `NumberFreed`, an expired sign-up does not stay |
| `services` | sign-ups: five forms, two calls, three accounts, one deleted record per key; tree: four users, two levels; snapshots: three users, two computations at once; a bot, a webhook and the probe, two errors; gate: two users, two processes, two nonces, two crossings | `OneAccountPerKey`, `CaptchaPerAccount`, `EachToItsOwner`, `CallsEnd`; `GraphIsTrue`, `SnapshotNeverAhead`; `FailsOnlyByErrors`, `BotRecovers`; `PassIsOwn`, `GateConverges` |
| `trap` | one user, two processes, one nonce | **violated**: `launch_gate.py:78` says "don't trap the user" and tests/test_launch_gate.py:2 that a misconfiguration never does; with the gate on and no watcher bot there is no link, and every data route still demands a pass |
| `deadlock` | two users, three open transactions, funding of 3 | **violated**: ledger.py:94 says that accounts are locked in id order "so concurrent postings can't deadlock"; a transaction makes several postings, and three of them wait in a circle |

`suspension` and `counter` are defects of the code, each in a window of one
transaction. In the first, the withdrawals of the account are no longer held out
of batches either, until an admin suspends it again. In the second the user loses
the account, and the capacity gate counts a member who does not exist.

In `trap` the fix is one condition: `deps.verified` and `status` would have to ask,
as `challenge` does, whether there is a watcher.

In `deadlock` the batch of unlocks holds user 1's accounts and wants user 2's, the
request of user 2 holds those and wants clearing, and a failed settlement of user 1
holds clearing and wants user 1's available account. PostgreSQL ends one of the
three: a batch is tried again by the queue, a request or an admin's form gets an
error, and no money is lost (`CommittedMoneyAddsUp`). `DeadlockNeedsBatch` says that
it takes the batch: `create` and `mark_failed` of one user, which take clearing and
the available account in opposite orders, are kept apart by `one_active` alone.
One commit per account in `unlock_batch` would end it.

In `bank_lock` the money is safe: a withdrawal pays the details copied when it was
asked for (`RowsAreFinal` has that, proved).

Bounds. Two handlers are enough for every pairwise race, which is what the
hazards are; the third party is always an admin form or the worker, which needs no
handler. Two withdrawals are the least for "return, then ask again" and for two
users in one table. A reward of 2 with funding of 3 makes the pool run short; amounts 1 and 2
make a request that leaves a remainder and one that does not. The clock needs the
moments before and after the payout date and, for the burst window, one more.
Bounds in the specification: `MaxTime` stops `Tick`, `MaxWithdrawals` stops
`HoldWithdrawal`; `MaxUsers` and `MaxSessions` stop `SignUp` and `OpenSession` in
`Verification`. There, two accounts and two sessions are the least for one
replacing the other, and one step of the clock passes every expiry given at 0.
Symmetry is used where no liveness property is checked: of connections in `earning`
and `deadlock`, of handlers in `verification`, of calls in `sessions`.

In `sessions` three sessions are the least for a reuse racing a rotation, the fourth
is the next login. In `worker` two links show the chain going on, a key met again
and a batch that is not full; two faults with two attempts reach `FAILED`. In
`services` the forms are chosen so that each pair differs in one thing that
matters: the captcha, the key and password, or the number under a key already
used. In its tree one user at a time is suspended, verified or not, and while
snapshots are made none is: neither a count nor an income reads a status (the proofs
have any number of both). At the
grain of statements two users, three connections and funding of 3 are the least for
the circle of `deadlock`: a pending reward each for the batch to hold and want, and
one more on its way back. Further bounds are `MaxLost`, `MaxFaults`, `MaxEarned`, `MaxAccounts`,
`MaxPurged`, `MaxErrors`, `Expiring` (whose sign-ups expire in the tree), `Viewers`, and
the sets of calls, computations, nonces and crossings.

Deadlock is checked in every run but two. In `sessions` everything may really
stop: the tokens are expired, the clock is at its bound and no call is left. In
`services` a sign-up may have used its last account, the components that are not
in focus do not move, and nonces run out.

Fairness is assumed in `worker` and `services`. In the cleaning half of `worker` the
worker loop comes to housekeeping every minute (`WF FindExpired`), a handler ends
(`WF Step`: commit or rollback), and a deletion that is possible again and again is
not refused for ever (`SF DeleteExpired`: PostgreSQL queues lock waiters, and a
failed run is tried again a minute later). In the other half timers run out, housekeeping
comes round (`WF`), a worker goes on with what it claimed (`WF`), and no ready job
is passed over for ever (`SF Claim`: jobs are claimed in the order of `run_at`). In
`services` a request goes on (`SF Step`, since row locks are granted in the order
of waiting), a probe, the end of a rate limit and of a webhook come (`WF`), of the
probes, one a minute, not every one is rolled back (`SF Commit`), and five seconds pass
(`WF CacheExpires`, `WF StoreGate`). Nothing else of the money path must happen
without an admin or a user.

What these properties had to leave out is what the code leaves open, and worth
knowing:

- a pending account outlives its session only while the admin leaves
  `verification_session_minutes` alone: `open_session` dates the account with the
  setting of its own request, so that of two racing requests the one with the shorter
  setting may save last (`PendingOutlives` assumes `SettingStays`; the run has one value);
- a rotation that commits while a reuse or a logout revokes the family survives it
  (`RevokesAllButRacing` says exactly that); docs/API.md:221 says the family is revoked;
- a login admitted before a suspension and issued after it has a session that works
  until its access token expires, and is not renewed;
- an answer to a refresh that arrives after the logout puts tokens back in the
  app's store;
- two workers run one job when its lock runs out under the first (jobs.py:5-6 says
  there is no double processing); `unlock_if_open` makes it harmless to money;
- the key of a finished batch (`unlock:<account>`) stands for a week: a chain that
  comes to it stops there until it is deleted, so balances earned behind it wait;
- two copies of a bot's row can leave `RATE_LIMITED` without a time: neither the
  picker nor `recover` then looks at it, until somebody toggles it or its webhook
  calls again (`Stranded`);
- a snapshot's income may be newer than its counts, and an older computation may
  overwrite a newer one;
- a user who verified while housekeeping was deleting the sign-up takes away a friend
  a snapshot has shown (`undone`), the defect of run `counter` seen from here;
- a refresh whose answer was lost, sent again, signs the user out, as docs/API.md:221
  says of a token used twice: `NoFalseAlarm` is about apps that lost no answer;
- an unlock batch that failed for good stops the chain behind it, and nothing tries it
  again: `AllUnlocked` leaves failed jobs out, `JobsKeepTrying` says when a job is one;
- two callbacks of the watcher may both find one nonce and write the same pass twice:
  `PassIsOwn` says whose it is, not how often it was written;
- the same sign-up form twice at the same moment: the second is refused for its
  captcha, which the first has consumed; idempotency.py:9 says it waits.

Every property of a passing run has a seeded bug (`PROJECT.json`, "mutants")
that breaks it:

- money: balances move although the key conflicts, budget or balance is not checked,
  the reward row re-reads the campaign, a key forgets the withdrawal, the active
  check forgets REQUESTED rows, a batch takes rows again, a settled row is settled
  again; a balance from a plain read is written back, the index `one_active` is
  missing;
- verification: an unusable session stays open, its account is not kept alive, a
  Telegram account is linked twice, one wrong number too many is allowed, closed
  sessions are closed again, housekeeping passes accounts over;
- sessions: an old token goes on working, a refresh does not lock, a revocation does
  not wait, a suspension goes on without the lock, a revocation sees rows that did
  not exist when it began, a lost answer counts as received;
- jobs: the lock of a running job is not looked at or never runs out, attempts end one early, a done job is queued again;
- sign-up, tree, bots and gate: a key is not held, a captcha is not deleted, a
  password is not compared, a row is not waited for, an edge is left out, counts
  take everybody, a failure counts before the row is read, `recover` forgets a
  status, anybody's nonce is accepted, a copy never expires.

They stand before the definition they change, marked "Seeded bug", and nothing uses
them.

## 4. Proofs

For all values of the constants that meet the assumption named in each module, and
for any number of steps: the bounds on time, rows and faults are constants too.

| Theorem | Statement | Assumes |
|---|---|---|
| `PayoutsProofs!Typing` | `Spec => []TypeOK` | `NoUserAssumption`, `PayoutsAssumption` |
| `Settlement` | `Spec => []SettlementMatchesStatus` | |
| `RewardedOnce` | `Spec => []RewardBacked` | |
| `AtMostOneWithdrawal` | `Spec => []OneActive` | |
| `FinalRows` | `Spec => RowsAreFinal` | |
| `Refinement` | `Spec => KeepsPromise` | |
| `Reconciliation` | `Spec => []LedgerReconciles` | |
| `FundedPromises` | `Spec => []PromisesFunded` | |
| `ClearingMatches` | `Spec => []ClearingHoldsActive` | |
| `EarningsAddUp` | `Spec => []EarningsAccounted` | |
| `BatchesStand` | `Spec => []BatchMatchesRows` | |
| `EarningProofs!CommittedMoneyHolds` | `MCSpec => []CommittedMoneyAddsUp` | `AccountLocksAssumption` |
| `OnlyBatchesDeadlock` | `MCSpec => []DeadlockNeedsBatch` | |
| `VerificationProofs!VerificationTyping` | `Spec => []TypeOK` | `VerificationAssumption` |
| `OneOpen` | `Spec => []OneOpenSession` | |
| `OwnNumberLinks` | `Spec => []LinkedByOwnNumber` | |
| `SessionsStayOver` | `Spec => SessionsEnd` | |
| `PendingOutlives` | `Spec => []PendingOutlivesSession` | `SettingStays`: one session length |
| `SessionsProofs!SessionTyping` | `Spec => []TypeOK` | `SessionsAssumption` |
| `OneLive` | `Spec => []OneLivePerFamily` | |
| `TokenOnce` | `Spec => []EachTokenOnce` | |
| `NoRenewal` | `Spec => []SuspendedNeverRenews` | |
| `RevocationHolds` | `Spec => RevokesAllButRacing` | |
| `NeverTakenForThief` | `Spec => []NoFalseAlarm` | |
| `WorkerProofs!OneRunPerLock` | `Spec => []SharedOnlyAfterOverrun` | `WorkerAssumption` |
| `AttemptsSpentByFaults` | `Spec => []JobsKeepTrying` | |
| `DoneForGood` | `Spec => DoneStaysDone` | |
| `SignupsProofs!SignupTyping` | `Spec => []TypeOK` | `SignupsAssumption` |
| `KeysMakeOne` | `Spec => []OneAccountPerKey` | |
| `CaptchaEach` | `Spec => []CaptchaPerAccount` | |
| `NumbersKept` | `Spec => []EachToItsOwner` | |
| `ReferralsProofs!TreeTyping` | `Spec => []TypeOK` | `ReferralsAssumption`: finitely many users |
| `TreeIsTold` | `Spec => []GraphIsTrue` | |
| `NeverAhead` | `Spec => []SnapshotNeverAhead` | |
| `ServicesProofs!ServicesTyping` | `MCSpec => []AllTyped` | the two above, `BotsAssumption`, `LaunchGateAssumption` |
| `TreeIsTold`, `NeverAhead` | the two of the tree, for `MCSpec` | |
| `FailingIsEarned` | `MCSpec => []FailsOnlyByErrors` | |
| `OwnPass` | `MCSpec => []PassIsOwn` | |

No set of users, handlers, devices, workers or forms has to be finite, save the
users of the tree and the calls of `Sessions`.

**Money.** The argument. None of these is inductive alone. `Safe` joins:

- `Typed`: `TypeOK`, finitely many transactions (a cardinality makes the unlock key) and typed tasks;
- `VerifyingOK`: the user of a contact in flight has signed up and is not yet
  verified (though perhaps suspended since it was read), and no second contact of
  that user is in flight: the session lock carries this, not the status read. Without it the reward row could be
  written for a user whose reward already exists;
- `UnlockKeysUsed`: an unlock key in the book is for a number of entries the
  pending account has already exceeded. So the next unlock key is fresh and an
  unlock always moves the money it says: the heart of `Refinement`'s `Unlock`;
- `SettlementMatchesStatus`: an active row's settle key is unused, so `mark_paid`
  and `mark_failed` always move the money with the status, and a new row's hold key is unused;
- `AtMostOneActive`, the pairwise form of `OneActive`;
- `RewardBacked`: a reward key is used exactly when the row exists.

`Safe` was model-checked before it was proved. Each action has a lemma; each lemma
one step per part it can disturb. The lemmas at the start state once what `Post` does:
`PostTyped`, `PostKeys` (which keys are used), `PostMoves` (source, destination and
no other account), `LastEntryGrows`. `Refinement` then matches steps: sign-up, clock, flags,
admissions and aborts stutter; `Fund`, `CommitVerify`, `UnlockWallet`,
`HoldWithdrawal` (unlock and hold in one), `CreateBatch`, `MarkPaid` and
`MarkFailed` are `Fund`, `Earn`, `Unlock`, `Ask`, `Export`, `Pay` and `GiveBack`.

**Sums.** The conservation laws speak of `SumFunctionOnSet`. That it is what one
expects is no theorem of the library, and the library's induction takes an operator
argument. The proof goes around it: `SetInduction` is induction over a *set* of
numbers (from the least element of its complement), and from it follow `SumPut`,
`SumOut`, `SumSame` and `SumNone`: what a sum is when an element is added, taken out or left
alone. Then the laws are ordinary invariants beside `Safe`. `UnlockFacts`,
`FundFacts`, `EarnFacts`, `HoldFacts` and `SettleFacts` say what each step does to
five figures (recorded funding, pool, clearing, settled, what a user has). `PoolOK`
is the exact form of `PromisesFunded` (recorded funding is the pool and all rewards),
`ClearingOK` says that clearing is the sum over active rows, and `EarningsOK` that what a
user has, with all rows that did not fail, is what was earned. `PromisesFunded` follows as the
pool is never below zero. `BatchesOK` adds to the recorded number and sum that a row which was
never exported is in no batch: its rows can only leave `PROCESSING`, so the sum stands.

**Statements.** In `EarningProofs` the invariant, `Held`, says of each open transaction
where it is. `Shape` lists, for each kind, the points it passes: the statements it has
left, the rows it has locked, what its changes add up to so far and what they are to
clearing. The changes of a reward add up to nothing, then to -1 between its two updates, and to nothing again
at its end; a batch, which may have any number of users left, is described by
what is in front of its list. A request or settlement that has looked at the row of the
request also remembers what it saw. Beside the shapes:

- `Exclusive`: no row is locked by two. So what a transaction has read is what is
  committed when it commits, and a commit leaves the shapes of the others as they were
  (`SameShape`). An insert locks no row first, so that it keeps `Exclusive` needs `NobodyHas`: whoever
  has the row of a request holds that user's available account or looks at an active request;
- `Solid`: no account but the company's is negative in what a transaction has written;
- the sum of the committed balances, and clearing against the active requests.

`Ran` is what one statement does to all of this, `EndsSo` what a transaction without
statements left has done, `CommitHeld` adds its changes to what was committed
(`TotalAdds`). `CircleNeedsBatch` needs no rank: `Positions` says which row each kind may
want next and what it holds by then, and in a circle without a batch one row after the
other turns out to be one that nobody there wants. First an insert, since whoever it waits
for has only to commit. Then settled, which nobody holds who still wants something; then
the available account of a user whose request is being ended, since its holder would have
found that user without a request; then clearing, the available accounts, the pending ones,
the pool, the company and the requests.

**Verification.** `Linked` joins `TypeOK`, the two statements proved and

- `RowsOK`: sessions are of users that were made, a pending account is not verified, and
  an open session has a wrong number left;
- `OpenIsLatest`: an open session is its user's last one. `OneOpenSession` alone is not
  inductive, since nothing would say which row `open_session` replaces;
- `ContactsOK`: from a contact's first look to its commit its session is open and its
  own, its user exists, is not verified and has a number of that Telegram account, and no
  second contact has the session. The session's row lock keeps that true; the user's
  status, which has no lock, may change meanwhile, and is not in it;
- `ProofsOK`: who is proved is verified, and by that Telegram account.

`Ageing` is `SessionsEnd` of one step. `PendingOutlives` needs `LivesOK`: the two
times are set by the same request or by one that waited for it.

**Sessions.** `SessionsAssumption` is needed for its types, an app to exist and
finitely many calls (slots are handed out one by one). `Kept` joins the table of
rows and what its readers rely on:

- `RowsOK`, `OneChild`: families and parents are rows that exist, a row is rotated
  exactly when it has a child, and one child at most;
- `RenewalsOK`: from its check to its commit a refresh holds the row lock, so the
  session works, is not rotated, its user is not suspended, and no second refresh is
  there. Without it nothing says that the row a rotation writes is still the one it
  checked, and none of `OneLive`, `TokenOnce` and `NoRenewal` is inductive;
- the types of slots and apps, which refer to rows that exist.

`RevocationHolds` speaks of a revocation from its first look to its end. `WaitsOK`
carries it: while the `UPDATE` waits, whatever works in the family is among what it
saw or newer than some of it; `Grows` (rows keep their family, those that are over never
work again, new ones come last) is why every other step keeps that.

`NeverTakenForThief` follows a token through server, answer and store. While no answer
is lost every call is waited for (`AllWaitedFor`), and a token not yet rotated is in one
place: in a store (`StoresHeld`), in a refresh that asks with it (`AskingHeld`) or in an
answer under way (`AnswersHeld`). The app's single refresh is what makes the places exclude each other.

**Worker.** `LocksOK`: a job not among those whose lock ran out is run by one worker
at most, and its row says `RUNNING`. `AttemptsOK`: its attempts are at most the faults
already reported for it, and one more while a worker may still end; the faults no worker has reported yet
are a cardinality, so each step says how the set of erring workers changes.

**Sign-ups.** `RoomOK` (a call that is under way has room for its account) and
`CaptchasOK` (accounts made, and calls that have paid, are fewer than captchas
spent) count, the second over all calls at once. `KeysOK` says that a call at work under a key is the
only one and finds no record, `NumbersOK` that what it replaces is the only account with its number,
`PasswordsOK` that between the comparison and the session the account keeps its
password, `IdsOK` that ids are not used again.

**Tree.** `Above` is a recursive function, so `ChainIs` first shows that it exists
and is determined. `TreeOK` describes the closure table by one step instead
(`ClosureOK`: what the referrer has, one level up) and excludes circles (`NoLoops`);
`GraphFollows` derives `GraphIsTrue` by induction on levels. What is inductive is that
an edge counts exactly when the user below is in `verified`, that whoever is not suspended is
active exactly then (`StandingOK`: without it nothing says that an active referrer verified,
or that a pending one did not), and that a new user has nobody below: so binding disturbs no chain but their own, and a
deletion only takes away who is nobody's referrer. `SnapshotsOK` says of a snapshot, and
of what a computation has read, that it stays within the tree's count; counts only grow
(`Rises`) for everybody whose friends were not deleted after being verified (`undone`).

**Bots.** `Honest` says of the row and of every base and copy, column by column,
that it counts no more errors than there were; per column, because a merge takes
some columns from one and some from another.

**Launch gate.** `Gate`: a nonce in Redis is the one minted, a crossing past its
reads belongs to the user its nonce was minted for, and past its delete the nonce is
spent, so that the pass it is about to write keeps its ground.

**The four together.** `Services` is the conjunction. `StepOfEach` shows that a step of
`MCSpec` is a step of each component or leaves it alone, so the lemmas of the
components carry over; the tree's come through `INSTANCE ReferralsProofs`.

Every invariant and every action property of the runs is proved. Liveness (`NumberFreed`,
`AllUnlocked`, `CallsEnd`, `BotRecovers`, `GateConverges`) and ENABLED are out of the
prover's reach and stay with TLC.

## 5. Not modelled

Formatting, validation of text, encryption, passwords, captcha images, templates,
the audit log (append-only text nothing reads back), the admin's own sign-in (rows
nothing else reads), the CSV export, the Flutter screens, ads, Android glue,
benchmarks and deployment: data or pure I/O. Of the parts marked `partly`, what is
left out are forms that overwrite a row nothing in the models reads, public reads,
the windows of the rate limits (a limit is a refusal that may come at any time), the
Redis key that drops repeated updates (it only removes behaviours) and the routes of
the app.

Four hazards have no property, and `PROJECT.json` says why: in each the code does
what no document denies (a status read one transaction earlier, a capacity passed by
those who signed up before, two open flags of one kind,
an answer whose numbers were read in several statements).

## 6. Plan

Done: `Ledger`, `Payouts`, `Wallet`, `Verification`, `Sessions` with the app, `Worker`,
`Signups`, `Referrals`, `Bots` and `LaunchGate`, each with the proofs of its invariants
and action properties; `AccountLocks`, the money path at the grain of statements.

Left: nothing that the prover can reach of what the runs check. What it cannot reach
is the liveness listed in section 4.
