------------------------------ MODULE Payouts ------------------------------
(***************************************************************************)
(* The money path: rewards, the wallet, bank details, withdrawals, payout  *)
(* batches and the admin actions on them, over the ledger.                 *)
(*                                                                         *)
(* A database transaction that locks what it reads before it writes is one *)
(* action.  The three handlers that decide on state they do not lock       *)
(* (verification, withdrawal, bank details) are split at those reads: the  *)
(* "Admit" step checks and remembers, a later step locks, re-checks what   *)
(* the code re-checks, and commits.  Anything may happen in between.       *)
(***************************************************************************)
EXTENDS Ledger, Sequences

CONSTANTS
  Referrer,            \* Referrer[u]: whose code u types at sign-up, or NoUser
  BankAccounts,        \* account numbers people may save
  NoAccount,           \* no bank details
  Handlers,            \* requests and Telegram updates handled concurrently
  FundingAmounts,      \* amounts the admin may record into the pool
  WithdrawalAmounts,   \* amounts a user may ask for
  Settings,            \* campaign settings the admin may save
  BatchLimit,          \* create_batch's limit (1000)
  BurstThreshold,      \* REFERRAL_BURST_THRESHOLD (30)
  BurstWindow,         \* REFERRAL_BURST_WINDOW (one hour)
  SharedFlagLimit,     \* how many of the other owners after_bank_details flags (20)
  MaxTime,             \* bound: the clock stops here
  MaxWithdrawals       \* bound: withdrawal rows ever created

Campaigns == [starts : Nat, ends : Nat, opens : Nat, paused : BOOLEAN,
              reward : Nat \ {0}, minimum : Nat \ {0}]

ASSUME PayoutsAssumption ==
  /\ Referrer \in [Users -> Users \cup {NoUser}]
  /\ NoAccount \notin BankAccounts
  /\ FundingAmounts \subseteq Nat \ {0}
  /\ WithdrawalAmounts \subseteq Nat \ {0}
  /\ Settings \subseteq Campaigns
  /\ \A c \in Settings : c.starts < c.ends
  /\ MaxTime \in Nat /\ MaxWithdrawals \in Nat /\ BatchLimit \in Nat
  /\ BurstThreshold \in Nat /\ BurstWindow \in Nat /\ SharedFlagLimit \in Nat

VARIABLES
  now,          \* timeutil.now()
  campaign,     \* the current campaign row
  status,       \* users.status, "NONE" before sign-up
  verified,     \* the users with a verified_at
  bank,         \* bank_accounts: the account number saved by each user
  flags,        \* open risk flags: <<user, kind>>
  book,         \* ledger_transactions and ledger_accounts
  rewards,      \* referral_rewards rows
  withdrawals,  \* withdrawal_requests rows; the index is the id
  batches,      \* payout_batches rows; the index is the id
  handler       \* what each handler in flight has read so far

vars == <<now, campaign, status, verified, bank, flags, book, rewards,
          withdrawals, batches, handler>>

money == <<book, rewards, withdrawals, batches>>

Statuses  == {"NONE", "PENDING_VERIFICATION", "ACTIVE", "SUSPENDED"}
FlagKinds == {"REFERRAL_BURST", "SHARED_BANK_ACCOUNT"}
Rewards   == [source : Users, beneficiary : Users, amount : Nat, at : Nat]

WithdrawalRows == [user : Users, amount : Nat, account : BankAccounts, batch : Nat,
                   status : {"REQUESTED", "PROCESSING", "PAID", "FAILED"}]

Tasks == [op : {"idle", "contact", "verify", "withdraw", "bank", "flag"},
          user : Users \cup {NoUser}, amount : Nat,
          account : BankAccounts \cup {NoAccount}, others : SUBSET Users]

Idle == [op |-> "idle", user |-> NoUser, amount |-> 0, account |-> NoAccount, others |-> {}]

Task(op, u, amount, account) ==
  [Idle EXCEPT !.op = op, !.user = u, !.amount = amount, !.account = account]

-----------------------------------------------------------------------------
(* What the code reads.                                                    *)
Ids == DOMAIN withdrawals

Active(w) == withdrawals[w].status \in {"REQUESTED", "PROCESSING"}

ActiveOf(u) == {w \in Ids : withdrawals[w].user = u /\ Active(w)}

(* Seeded bug: requests not exported yet are not counted.                  *)
HasActiveProcessing(u) == \E w \in ActiveOf(u) : withdrawals[w].status = "PROCESSING"

HasActive(u) == ActiveOf(u) # {}

(* campaign.status = "ACTIVE"; the other statuses are told apart nowhere.   *)
CampaignActive == now >= campaign.starts /\ now < campaign.ends /\ ~campaign.paused

Flagged(u) == \E kind \in FlagKinds : <<u, kind>> \in flags

Bursting(u, paid) ==
  Cardinality({r \in paid : r.beneficiary = u /\ r.at + BurstWindow >= now}) >= BurstThreshold

(* The user row a verification holds FOR UPDATE until it commits, and the   *)
(* user's one open verification session, which it holds from the start.    *)
RowLocked(u) == \E h \in Handlers : handler[h].op = "verify" /\ handler[h].user = u

SessionLocked(u) ==
  \E h \in Handlers : handler[h].op \in {"contact", "verify"} /\ handler[h].user = u

-----------------------------------------------------------------------------
Init ==
  /\ now = 0
  /\ campaign \in Settings
  /\ status = [u \in Users |-> "NONE"]
  /\ verified = {}
  /\ bank = [u \in Users |-> NoAccount]
  /\ flags = {}
  /\ book = EmptyBook
  /\ rewards = {}
  /\ withdrawals = <<>>
  /\ batches = <<>>
  /\ handler = [h \in Handlers |-> Idle]

Tick ==
  /\ now < MaxTime
  /\ now' = now + 1
  /\ UNCHANGED <<campaign, status, verified, bank, flags, money, handler>>

(* admin campaign_save.                                                    *)
CampaignSave(c) ==
  /\ campaign' = c
  /\ UNCHANGED <<now, status, verified, bank, flags, money, handler>>

(* admin campaign_fund: a resubmitted form has the same nonce.             *)
Fund(nonce, amount) ==
  /\ book' = Post(book, Transfer("FUNDING", FundingKey(nonce), Funding, Pool, amount))
  /\ UNCHANGED <<now, campaign, status, verified, bank, flags,
                 rewards, withdrawals, batches, handler>>

(* auth.signup with a referral code: the code must be an active user's.    *)
SignUp(u) ==
  /\ status[u] = "NONE"
  /\ CampaignActive
  /\ Referrer[u] # NoUser => status[Referrer[u]] = "ACTIVE"
  /\ status' = [status EXCEPT ![u] = "PENDING_VERIFICATION"]
  /\ UNCHANGED <<now, campaign, verified, bank, flags, money, handler>>

-----------------------------------------------------------------------------
(* A contact reaches the bot: flow._on_contact locks the session and reads *)
(* the user.                                                               *)
ReadContact(h, u) ==
  /\ handler[h] = Idle
  /\ ~SessionLocked(u)
  /\ status[u] = "PENDING_VERIFICATION"
  /\ handler' = [handler EXCEPT ![h] = Task("contact", u, 0, NoAccount)]
  /\ UNCHANGED <<now, campaign, status, verified, bank, flags, money>>

(* verification.complete, up to the pool lock of credit_for_verified_user: *)
(* the user's row is locked, the referrer and the campaign are only read.  *)
(* An offer of 0 is a reward skipped for one of those reads.  The lock     *)
(* does not refresh the user the session has loaded, so the status that    *)
(* complete checks is the one ReadContact saw.                             *)
Offer(u) ==
  IF /\ Referrer[u] # NoUser
     /\ ~\E r \in rewards : r.source = u
     /\ status[Referrer[u]] = "ACTIVE"
     /\ CampaignActive
  THEN campaign.reward
  ELSE 0

AdmitVerify(h) ==
  LET u == handler[h].user IN
  /\ handler[h].op = "contact"
  /\ handler' = [handler EXCEPT ![h] = Task("verify", u, Offer(u), NoAccount)]
  /\ UNCHANGED <<now, campaign, status, verified, bank, flags, money>>

RewardTxn(u, amount) ==
  Transfer("REFERRAL_REWARD", RewardKey(u), Pool, Pending(Referrer[u]), amount)

(* Seeded bug: no budget check under the lock.                             *)
FundedUnchecked(offer) == offer > 0

(* The budget check, made with the pool locked.                            *)
Funded(offer) == offer > 0 /\ book.balance[Pool] >= offer

(* Seeded bug: the row says what the campaign offers now.                  *)
RewardRowReread(u, amount) ==
  [source |-> u, beneficiary |-> Referrer[u], amount |-> campaign.reward, at |-> now]

RewardRow(u, amount) ==
  [source |-> u, beneficiary |-> Referrer[u], amount |-> amount, at |-> now]

(* With the pool locked: the budget check, the credit, the reward row,     *)
(* risk.after_verification, and the commit that also shows the new status. *)
CommitVerify(h) ==
  LET u      == handler[h].user
      offer  == handler[h].amount
      pays   == Funded(offer) /\ ~Posted(book, RewardKey(u))
  IN
  /\ handler[h].op = "verify"
  /\ status' = [status EXCEPT ![u] = "ACTIVE"]
  /\ verified' = verified \cup {u}
  /\ IF pays
     THEN /\ book' = Post(book, RewardTxn(u, offer))
          /\ rewards' = rewards \cup {RewardRow(u, offer)}
     ELSE UNCHANGED <<book, rewards>>
  /\ flags' = IF Referrer[u] # NoUser /\ Bursting(Referrer[u], rewards')
              THEN flags \cup {<<Referrer[u], "REFERRAL_BURST">>}
              ELSE flags
  /\ handler' = [handler EXCEPT ![h] = Idle]
  /\ UNCHANGED <<now, campaign, bank, withdrawals, batches>>

-----------------------------------------------------------------------------
(* wallet.unlock_if_open, after its date check: the whole pending balance  *)
(* moves, under the lock of the pending account.                           *)
UnlockTxn(u) ==
  Transfer("REWARDS_UNLOCK", UnlockKey(u, LastEntry(book, Pending(u))),
           Pending(u), Available(u), book.balance[Pending(u)])

Unlocked(u) ==
  IF book.balance[Pending(u)] > 0 THEN Post(book, UnlockTxn(u)) ELSE book

(* GET /wallet, and one user of the worker's unlock_batch.                 *)
UnlockWallet(u) ==
  /\ now >= campaign.opens
  /\ book' = Unlocked(u)
  /\ UNCHANGED <<now, campaign, status, verified, bank, flags,
                 rewards, withdrawals, batches, handler>>

(* POST /withdrawals: signed in as an active user, then the checks of      *)
(* withdrawals.create that no lock protects.  The bank row is read once.   *)
AdmitWithdrawal(h, u, amount) ==
  /\ handler[h] = Idle
  /\ status[u] = "ACTIVE"
  /\ now >= campaign.opens
  /\ bank[u] # NoAccount
  /\ amount >= campaign.minimum
  /\ handler' = [handler EXCEPT ![h] = Task("withdraw", u, amount, bank[u])]
  /\ UNCHANGED <<now, campaign, status, verified, bank, flags, money>>

(* Seeded bug: the balance is not looked at.                               *)
EnoughUnchecked(u, amount) == amount > 0

(* The available account is locked and compared after the unlock.          *)
Enough(u, amount) == Unlocked(u).balance[Available(u)] >= amount

HoldTxn(w, u, amount) ==
  Transfer("WITHDRAWAL_HOLD", HoldKey(w), Available(u), Clearing, amount)

(* The rest of create, under the wallet's account locks: unlock, the       *)
(* balance check, the row (unique among the user's active ones), the hold. *)
HoldWithdrawal(h) ==
  LET u      == handler[h].user
      amount == handler[h].amount
      w      == Len(withdrawals) + 1
      row    == [user |-> u, amount |-> amount, account |-> handler[h].account,
                 batch |-> 0, status |-> "REQUESTED"]
  IN
  /\ handler[h].op = "withdraw"
  /\ Len(withdrawals) < MaxWithdrawals
  /\ Enough(u, amount)
  /\ ~HasActive(u)
  /\ withdrawals' = Append(withdrawals, row)
  /\ book' = Post(Unlocked(u), HoldTxn(w, u, amount))
  /\ handler' = [handler EXCEPT ![h] = Idle]
  /\ UNCHANGED <<now, campaign, status, verified, bank, flags, rewards, batches>>

-----------------------------------------------------------------------------
(* PUT of bank details: bank.save looks for an active withdrawal first ... *)
AdmitBank(h, u, account) ==
  /\ handler[h] = Idle
  /\ status[u] = "ACTIVE"
  /\ ~HasActive(u)
  /\ handler' = [handler EXCEPT ![h] = Task("bank", u, 0, account)]
  /\ UNCHANGED <<now, campaign, status, verified, bank, flags, money>>

(* ... then, holding the user's bank row, looks for the other owners of    *)
(* the account number among the committed rows ...                         *)
ScanBank(h) ==
  LET u == handler[h].user
      owners == {v \in Users \ {u} : bank[v] = handler[h].account}
  IN
  /\ handler[h].op = "bank"
  /\ ~\E g \in Handlers : handler[g].op = "flag" /\ handler[g].user = u
  /\ handler' = [handler EXCEPT ![h].op = "flag", ![h].others = owners]
  /\ UNCHANGED <<now, campaign, status, verified, bank, flags, money>>

(* ... and commits the row and the flags together.                         *)
SaveBank(h) ==
  LET u == handler[h].user
      others == handler[h].others
  IN
  /\ handler[h].op = "flag"
  /\ bank' = [bank EXCEPT ![u] = handler[h].account]
  /\ IF others = {}
     THEN flags' = flags
     ELSE \E hit \in SUBSET others :
            /\ Cardinality(hit) <= SharedFlagLimit
            /\ hit # others => Cardinality(hit) = SharedFlagLimit
            /\ flags' = flags \cup ((hit \cup {u}) \X {"SHARED_BANK_ACCOUNT"})
  /\ handler' = [handler EXCEPT ![h] = Idle]
  /\ UNCHANGED <<now, campaign, status, verified, money>>

(* A handler in flight fails (an error response, a lost connection, a      *)
(* crash) and its transaction rolls back.                                  *)
Abort(h) ==
  /\ handler[h] # Idle
  /\ handler' = [handler EXCEPT ![h] = Idle]
  /\ UNCHANGED <<now, campaign, status, verified, bank, flags, money>>

-----------------------------------------------------------------------------
(* Seeded bugs: rows that were returned, or that a batch already has, are  *)
(* taken again.                                                            *)
EligibleReturned == {w \in Ids : withdrawals[w].status \in {"REQUESTED", "FAILED"}}
EligibleBatched  == {w \in Ids : Active(w)}

(* withdrawals.create_batch.  The oldest rows are taken first, but SKIP    *)
(* LOCKED passes over any row another transaction holds, so any eligible   *)
(* rows within the limit can be the ones taken.                            *)
Eligible == {w \in Ids : /\ withdrawals[w].status = "REQUESTED"
                         /\ ~Flagged(withdrawals[w].user)
                         /\ status[withdrawals[w].user] # "SUSPENDED"}

RowTotal(rows) == SumFunctionOnSet([w \in rows |-> withdrawals[w].amount], rows)

CreateBatch ==
  \E chosen \in SUBSET Eligible :
    /\ chosen # {}
    /\ Cardinality(chosen) <= BatchLimit
    /\ withdrawals' = [w \in Ids |->
         IF w \in chosen
         THEN [withdrawals[w] EXCEPT !.status = "PROCESSING", !.batch = Len(batches) + 1]
         ELSE withdrawals[w]]
    /\ batches' = Append(batches, [count |-> Cardinality(chosen), total |-> RowTotal(chosen)])
    /\ UNCHANGED <<now, campaign, status, verified, bank, flags, book, rewards, handler>>

PaidTxn(w) ==
  Transfer("WITHDRAWAL_PAID", SettleKey(w), Clearing, Settled, withdrawals[w].amount)

ReturnTxn(w) ==
  Transfer("WITHDRAWAL_RETURNED", SettleKey(w), Clearing,
           Available(withdrawals[w].user), withdrawals[w].amount)

(* Seeded bugs: a settled row is settled again.                            *)
MarkPaidAgain(w) ==
  /\ withdrawals[w].status # "REQUESTED"
  /\ Covers(book, PaidTxn(w))
  /\ book' = Post(book, PaidTxn(w))
  /\ withdrawals' = [withdrawals EXCEPT ![w].status = "PAID"]
  /\ UNCHANGED <<now, campaign, status, verified, bank, flags, rewards, batches, handler>>

MarkFailedAgain(w) ==
  /\ Covers(book, ReturnTxn(w))
  /\ book' = Post(book, ReturnTxn(w))
  /\ withdrawals' = [withdrawals EXCEPT ![w].status = "FAILED"]
  /\ UNCHANGED <<now, campaign, status, verified, bank, flags, rewards, batches, handler>>

(* withdrawals.mark_paid and mark_failed: the row is locked first.         *)
MarkPaid(w) ==
  /\ withdrawals[w].status = "PROCESSING"
  /\ Covers(book, PaidTxn(w))
  /\ book' = Post(book, PaidTxn(w))
  /\ withdrawals' = [withdrawals EXCEPT ![w].status = "PAID"]
  /\ UNCHANGED <<now, campaign, status, verified, bank, flags, rewards, batches, handler>>

MarkFailed(w) ==
  /\ withdrawals[w].status \in {"REQUESTED", "PROCESSING"}
  /\ Covers(book, ReturnTxn(w))
  /\ book' = Post(book, ReturnTxn(w))
  /\ withdrawals' = [withdrawals EXCEPT ![w].status = "FAILED"]
  /\ UNCHANGED <<now, campaign, status, verified, bank, flags, rewards, batches, handler>>

-----------------------------------------------------------------------------
(* admin user_suspend and user_unsuspend: the user's row is locked.        *)
Suspend(u) ==
  /\ status[u] # "NONE"
  /\ ~RowLocked(u)
  /\ status' = [status EXCEPT ![u] = "SUSPENDED"]
  /\ UNCHANGED <<now, campaign, verified, bank, flags, money, handler>>

Unsuspend(u) ==
  /\ status[u] = "SUSPENDED"
  /\ ~RowLocked(u)
  /\ status' = [status EXCEPT ![u] = IF u \in verified THEN "ACTIVE" ELSE "PENDING_VERIFICATION"]
  /\ UNCHANGED <<now, campaign, verified, bank, flags, money, handler>>

(* admin flags_resolve.                                                    *)
ResolveFlag(flag) ==
  /\ flag \in flags
  /\ flags' = flags \ {flag}
  /\ UNCHANGED <<now, campaign, status, verified, bank, money, handler>>

-----------------------------------------------------------------------------
Request(h) ==
  \/ \E u \in Users :
       \/ ReadContact(h, u)
       \/ \E amount \in WithdrawalAmounts : AdmitWithdrawal(h, u, amount)
       \/ \E account \in BankAccounts : AdmitBank(h, u, account)
  \/ AdmitVerify(h)
  \/ CommitVerify(h)
  \/ HoldWithdrawal(h)
  \/ ScanBank(h)
  \/ SaveBank(h)
  \/ Abort(h)

Admin ==
  \/ \E c \in Settings : CampaignSave(c)
  \/ \E nonce \in Nonces, amount \in FundingAmounts : Fund(nonce, amount)
  \/ \E u \in Users : Suspend(u) \/ Unsuspend(u)
  \/ \E flag \in flags : ResolveFlag(flag)
  \/ CreateBatch
  \/ \E w \in Ids : MarkPaid(w) \/ MarkFailed(w)

Next ==
  \/ Tick
  \/ Admin
  \/ \E u \in Users : SignUp(u) \/ UnlockWallet(u)
  \/ \E h \in Handlers : Request(h)

Spec == Init /\ [][Next]_vars
-----------------------------------------------------------------------------
(* Types, with the CHECK no_negative_balance constraint.                   *)
TypeOK ==
  /\ now \in Nat
  /\ campaign \in Settings
  /\ status \in [Users -> Statuses]
  /\ verified \subseteq Users
  /\ bank \in [Users -> BankAccounts \cup {NoAccount}]
  /\ flags \subseteq Users \X FlagKinds
  /\ book \in Books /\ Solvent(book)
  /\ rewards \subseteq Rewards
  /\ withdrawals \in Seq(WithdrawalRows)
  /\ batches \in Seq(Range(batches))  \* what a batch says: BatchMatchesRows
  /\ handler \in [Handlers -> Tasks]

(* The balance kept on every account row is what its ledger entries add up *)
(* to (the admin's ledger page recounts it): no retry of a transaction     *)
(* moves money again and no posting is half applied.                       *)
LedgerReconciles ==
  \A a \in Accounts : book.balance[a] = Recounted(book, a)

(* The clearing account holds exactly the active withdrawals and the       *)
(* settled account exactly the paid ones, through requests, batches and    *)
(* settlements in any order: mark_paid and mark_failed never find the      *)
(* clearing account short.                                                 *)
ClearingHoldsActive ==
  /\ book.balance[Clearing] = RowTotal({w \in Ids : Active(w)})
  /\ book.balance[Settled] = RowTotal({w \in Ids : withdrawals[w].status = "PAID"})

(* What wallet.summary shows adds up: everything a user earned is pending, *)
(* available, in withdrawal or withdrawn, at every moment.                 *)
EarningsAccounted ==
  \A u \in Users :
    SumFunctionOnSet([r \in rewards |-> r.amount], {r \in rewards : r.beneficiary = u})
      = book.balance[Pending(u)] + book.balance[Available(u)]
        + RowTotal({w \in Ids : withdrawals[w].user = u /\ withdrawals[w].status # "FAILED"})

(* Every reward comes out of money the admin recorded: the pool is the     *)
(* recorded funding less the rewards, and it is never overdrawn although   *)
(* verifications check the budget concurrently.                            *)
PromisesFunded ==
  /\ book.balance[Pool] = Total({t \in book.txns : t.kind = "FUNDING"})
                            - SumFunctionOnSet([r \in rewards |-> r.amount], rewards)
  /\ book.balance[Pool] >= 0

(* A withdrawal row and the ledger agree: each row has its hold, an active *)
(* row has no settlement yet, a PAID row was paid out and a FAILED row was *)
(* returned, with the row's amount; nothing else was held or settled.      *)
SettlementMatchesStatus ==
  /\ \A w \in Ids :
       /\ HoldTxn(w, withdrawals[w].user, withdrawals[w].amount) \in book.txns
       /\ Active(w) <=> ~Posted(book, SettleKey(w))
       /\ withdrawals[w].status = "PAID" <=> PaidTxn(w) \in book.txns
       /\ withdrawals[w].status = "FAILED" <=> ReturnTxn(w) \in book.txns
  /\ \A t \in book.txns : t.key.op \in {"hold", "settle"} => t.key.ref \in Ids

(* A reward is paid at most once for a person, only to the one whose code  *)
(* they signed up with, only once they verified, and its row and its       *)
(* ledger transaction say the same, whatever retries and races happen.     *)
RewardBacked ==
  /\ \A r \in rewards : /\ r.beneficiary = Referrer[r.source]
                        /\ r.source \in verified
                        /\ RewardTxn(r.source, r.amount) \in book.txns
  /\ \A r, q \in rewards : r.source = q.source => r = q
  /\ \A t \in book.txns : t.key.op = "reward" =>
       \E r \in rewards : r.source = t.key.ref /\ r.amount = t.amount

(* The partial unique index one_active: two concurrent requests of a user  *)
(* never both hold money.                                                  *)
OneActive == \A u \in Users : Cardinality(ActiveOf(u)) <= 1

(* A payout batch still says what it said when it was exported: its rows   *)
(* are the ones counted, and a request is in at most one batch and is not  *)
(* PAID outside one.                                                       *)
BatchMatchesRows ==
  /\ \A b \in DOMAIN batches :
       LET rows == {w \in Ids : withdrawals[w].batch = b}
       IN  batches[b] = [count |-> Cardinality(rows), total |-> RowTotal(rows)]
  /\ \A w \in Ids :
       /\ withdrawals[w].batch \in 0 .. Len(batches)
       /\ withdrawals[w].status = "REQUESTED" => withdrawals[w].batch = 0
       /\ withdrawals[w].status \in {"PROCESSING", "PAID"} => withdrawals[w].batch # 0

(* What a row said cannot be rewritten: its owner, amount and the copied   *)
(* bank account stay, PAID and FAILED are final, a batched row is never    *)
(* moved to another batch and never goes back to REQUESTED.                *)
RowsAreFinal ==
  [][\A w \in Ids :
       /\ w \in DOMAIN withdrawals'
       /\ withdrawals'[w].user = withdrawals[w].user
       /\ withdrawals'[w].amount = withdrawals[w].amount
       /\ withdrawals'[w].account = withdrawals[w].account
       /\ ~Active(w) => withdrawals'[w] = withdrawals[w]
       /\ withdrawals[w].batch # 0 => /\ withdrawals'[w].batch = withdrawals[w].batch
                                      /\ withdrawals'[w].status # "REQUESTED"]_vars

(* "Can't change bank details while a withdrawal is being paid"            *)
(* (docs/API.md, error BANK_DETAILS_LOCKED): while a user has an active    *)
(* withdrawal the saved account stays what it is.                          *)
BankLockedWhilePaying ==
  [][\A u \in Users : HasActive(u) => bank'[u] = bank[u]]_vars

(* "several accounts saved the same bank account" is a fraud signal        *)
(* (docs/ADMIN.md, SHARED_BANK_ACCOUNT): whoever saves an account somebody *)
(* else has is flagged by that very save.                                  *)
SharedAccountFlagged ==
  [][\A u, v \in Users :
       (u # v /\ bank'[u] # bank[u] /\ bank'[u] = bank'[v])
         => <<u, "SHARED_BANK_ACCOUNT">> \in flags']_vars

(* "You can **suspend** an account, which signs it out everywhere, blocks  *)
(* the app" (docs/ADMIN.md:70): a suspended account that never verified    *)
(* becomes active only after an admin lifts the suspension.                *)
SuspensionHolds ==
  [][\A u \in Users : status[u] = "SUSPENDED" /\ status'[u] = "ACTIVE" => u \in verified]_vars

-----------------------------------------------------------------------------
(* What the money path promises: the wallet of Wallet.tla.                 *)
Promise == INSTANCE Wallet WITH
  pool      <- book.balance[Pool],
  pending   <- [u \in Users |-> book.balance[Pending(u)]],
  available <- [u \in Users |-> book.balance[Available(u)]],
  requests  <- [w \in Ids |-> [user |-> withdrawals[w].user,
                               amount |-> withdrawals[w].amount,
                               status |-> withdrawals[w].status]]

(* Whatever is retried, raced or aborted, and whichever idempotency key is *)
(* already used, every step of the money path is one step of the wallet or *)
(* changes nothing in it: no status changes without its money, no money    *)
(* moves without its row.                                                  *)
KeepsPromise == Promise!Spec

=============================================================================
