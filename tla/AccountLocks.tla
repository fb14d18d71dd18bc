---------------------------- MODULE AccountLocks -----------------------------
(***************************************************************************)
(* The money path statement by statement: which rows a transaction locks,  *)
(* in which order, and what it leaves in them.  Payouts joins the          *)
(* statements of a transaction into one step; this module shows what that  *)
(* joins, and which transactions can end up waiting for each other.        *)
(*                                                                         *)
(* A row is its id: ledger_accounts has the four of the company first, and *)
(* a user's pending account before the available one, which the first      *)
(* unlock creates.  The request of user u is -u.  Every amount a user asks *)
(* for and every reward is 1.  Payouts are open.                           *)
(* Rows of users are left out: who locks one and then accounts verifies a  *)
(* user that no reward refers to yet.                                      *)
(***************************************************************************)
EXTENDS Integers, Sequences, FiniteSets

CONSTANTS
  LastUser,      \* users are 1 .. LastUser
  Connections,  \* bound: transactions open at once, one on each
  MaxFunded      \* bound: what the company puts into the pool

(* What the constants are; the module that instantiates this one assumes it. *)
AccountLocksAssumption == {LastUser, MaxFunded} \subseteq Nat

VARIABLES
  balance,   \* ledger_accounts.balance_paise, as committed
  request,   \* each user's active withdrawal, as committed
  open       \* the open transactions

lockVars == <<balance, request, open>>

UserIds == 1 .. LastUser

Company  == 1
Pool     == 2
Clearing == 3
Settled  == 4
Pending(u)   == 3 + 2 * u
Available(u) == 4 + 2 * u
Request(u)   == -u

LedgerAccounts == 1 .. 4 + 2 * LastUser

Closed == [kind |-> "none", todo |-> <<>>, written |-> <<>>, status |-> "none"]

-----------------------------------------------------------------------------
(* What a transaction has locked, and reads: its own writes, else what is  *)
(* committed, which the lock keeps as it is.                               *)
LockedBy(t) == DOMAIN open[t].written

FreeAlways(t, row) == TRUE  \* seeded bug: a balance from a plain read is written back

Free(t, row) == \A s \in Connections \ {t} : row \notin LockedBy(s)

Value(trx, row) == IF row \in DOMAIN trx.written THEN trx.written[row] ELSE balance[row]

(* Statements: SELECT FOR UPDATE with what must be there, UPDATE of a      *)
(* balance, and the lock, insert or unlock that a request or a pending     *)
(* account is.                                                             *)
Select(row, least) == [do |-> "select", row |-> row, n |-> least]
Update(row, by)    == [do |-> "update", row |-> row, n |-> by]
Unlock(u)          == [do |-> "unlock", row |-> Pending(u), n |-> u]
Insert(u)          == [do |-> "insert", row |-> Request(u), n |-> u]
LockRequest(u)     == [do |-> "lock", row |-> Request(u), n |-> u]

(* ledger.transfer: the two accounts in the order of their ids.            *)
transfer(source, destination, amount) ==
  IF source < destination THEN <<Update(source, -amount), Update(destination, amount)>>
                          ELSE <<Update(destination, amount), Update(source, -amount)>>

(* wallet.unlock_if_open, once the pending account is locked: what it has  *)
(* goes to the available account.                                          *)
unlock_if_open(u, amount) ==
  IF amount > 0 THEN transfer(Pending(u), Available(u), amount) ELSE <<>>

-----------------------------------------------------------------------------
(* A settlement that has written the new status, and only has to commit.   *)
Settling(s, u) ==
  open[s].kind \in {"paid", "failed"} /\ Request(u) \in LockedBy(s) /\ open[s].todo = <<>>

InsertUnchecked(t, u) == TRUE  \* seeded bug: the index one_active is missing

(* one_active refuses the row while another is committed, and waits for    *)
(* who is about to end that one.                                           *)
Insertable(t, u) == request[u] = "none" /\ \A s \in Connections \ {t} : ~Settling(s, u)

(* The row of a settlement is looked at again after the wait.              *)
Settleable(trx, u) ==
  request[u] \in IF trx.kind = "paid" THEN {"PROCESSING"} ELSE {"REQUESTED", "PROCESSING"}

(* Whether the next statement of a transaction goes through ...            *)
Possible(t, trx) ==
  LET s == Head(trx.todo) IN
  CASE s.do = "select" -> Free(t, s.row) /\ Value(trx, s.row) >= s.n
    [] s.do = "update" -> Free(t, s.row) /\ (s.row = Company \/ Value(trx, s.row) + s.n >= 0)
    [] s.do = "unlock" -> Free(t, s.row)
    [] s.do = "insert" -> Insertable(t, s.n)
    [] s.do = "lock"   -> Free(t, s.row) /\ Settleable(trx, s.n)

(* ... and the transaction after it.                                       *)
After(trx) ==
  LET s == Head(trx.todo)
      value == CASE s.do = "update" -> Value(trx, s.row) + s.n
                 [] s.do \in {"insert", "lock"} -> 0
                 [] OTHER -> Value(trx, s.row)
  IN [trx EXCEPT
        !.written = [r \in DOMAIN @ \cup {s.row} |-> IF r = s.row THEN value ELSE @[r]],
        !.todo = (IF s.do = "unlock" THEN unlock_if_open(s.n, value) ELSE <<>>) \o Tail(@)]

-----------------------------------------------------------------------------
Init ==
  /\ balance = [a \in LedgerAccounts |-> 0]
  /\ request = [u \in UserIds |-> "none"]
  /\ open = [t \in Connections |-> Closed]

(* A transaction is not seen before its first lock, and begins with it.    *)
Begin(t, kind, todo, status) ==
  LET trx == [Closed EXCEPT !.kind = kind, !.todo = todo, !.status = status] IN
  /\ open[t] = Closed
  /\ Possible(t, trx)
  /\ open' = [open EXCEPT ![t] = After(trx)]
  /\ UNCHANGED <<balance, request>>

campaign_fund(t) ==
  /\ -balance[Company] < MaxFunded
  /\ Begin(t, "fund", transfer(Company, Pool, 1), "none")

(* rewards.credit_for_verified_user.                                       *)
credit(t, u) ==
  Begin(t, "reward", <<Select(Pool, 1)>> \o transfer(Pool, Pending(u), 1), "none")

summary(t, u) == Begin(t, "wallet", <<Unlock(u)>>, "none")

(* withdrawals.create.                                                     *)
create(t, u) ==
  Begin(t, "create",
        <<Unlock(u), Select(Available(u), 1), Insert(u)>>
          \o transfer(Available(u), Clearing, 1),
        "REQUESTED")

mark_paid(t, u) ==
  Begin(t, "paid", <<LockRequest(u)>> \o transfer(Clearing, Settled, 1), "none")

mark_failed(t, u) ==
  Begin(t, "failed", <<LockRequest(u)>> \o transfer(Clearing, Available(u), 1), "none")

Due == {u \in UserIds : balance[Pending(u)] > 0}

(* worker.unlock_batch: whoever has a pending balance when it looks, in    *)
(* the order of the accounts, in one transaction.                          *)
unlock_batch(t) ==
  /\ open[t] = Closed /\ Due # {}
  /\ \E due \in [1 .. Cardinality(Due) -> Due] :
       /\ \A i, j \in DOMAIN due : i < j => due[i] < due[j]
       /\ open' = [open EXCEPT ![t] =
            [Closed EXCEPT !.kind = "batch", !.todo = [i \in DOMAIN due |-> Unlock(due[i])]]]
  /\ UNCHANGED <<balance, request>>

(* withdrawals.create_batch waits for no row.                              *)
create_batch(t, users) ==
  /\ users # {} /\ \A u \in users : request[u] = "REQUESTED" /\ Free(t, Request(u))
  /\ open[t] = Closed
  /\ open' = [open EXCEPT ![t] =
       [Closed EXCEPT !.kind = "export", !.status = "PROCESSING",
                      !.written = [row \in {Request(u) : u \in users} |-> 0]]]
  /\ UNCHANGED <<balance, request>>

-----------------------------------------------------------------------------
Statement(t) ==
  /\ open[t].todo # <<>> /\ Possible(t, open[t])
  /\ open' = [open EXCEPT ![t] = After(@)]
  /\ UNCHANGED <<balance, request>>

Commit(t) ==
  /\ open[t] # Closed /\ open[t].todo = <<>>
  /\ balance' = [a \in LedgerAccounts |-> Value(open[t], a)]
  /\ request' =
       [u \in UserIds |-> IF Request(u) \in LockedBy(t) THEN open[t].status ELSE request[u]]
  /\ open' = [open EXCEPT ![t] = Closed]

(* A statement is refused, the caller is gone, or the database ends a wait *)
(* in a circle: the transaction rolls back.                                *)
Rollback(t) ==
  /\ open[t] # Closed
  /\ open' = [open EXCEPT ![t] = Closed]
  /\ UNCHANGED <<balance, request>>

Next ==
  \E t \in Connections :
    \/ campaign_fund(t) \/ unlock_batch(t)
    \/ \E u \in UserIds : credit(t, u) \/ summary(t, u) \/ create(t, u)
                        \/ mark_paid(t, u) \/ mark_failed(t, u)
    \/ \E users \in SUBSET UserIds : create_batch(t, users)
    \/ Statement(t) \/ Commit(t) \/ Rollback(t)

Spec == Init /\ [][Next]_lockVars

-----------------------------------------------------------------------------
(* Who waits for whom.  Nobody waits for the row of a request that is not  *)
(* committed; an insert waits only for who is about to commit.             *)
WaitsFor(t, s) ==
  /\ s # t /\ open[t].todo # <<>>
  /\ LET next == Head(open[t].todo) IN
     CASE next.do = "insert" -> Settling(s, next.n)
       [] next.do = "lock" -> next.row \in LockedBy(s) /\ request[next.n] # "none"
       [] OTHER -> next.row \in LockedBy(s)

Stuck(set) == set # {} /\ \A t \in set : \E s \in set : WaitsFor(t, s)

(* Type invariant: accounts but the company's are not negative, and an     *)
(* open transaction has written rows of its own only.                      *)
TypeOK ==
  /\ balance \in [LedgerAccounts -> Int]
  /\ \A a \in LedgerAccounts \ {Company} : balance[a] >= 0
  /\ request \in [UserIds -> {"none", "REQUESTED", "PROCESSING"}]
  /\ DOMAIN open = Connections

(* "Lock accounts in id order so concurrent postings can't deadlock"       *)
(* (ledger.py:94).                                                         *)
PostingsCannotDeadlock == \A set \in SUBSET Connections : ~Stuck(set)

(* Requests, rewards, wallets and settlements never wait in a circle       *)
(* among themselves, though create locks the available account before the  *)
(* clearing account and mark_failed after it: it takes a batch that holds  *)
(* one user's accounts while it wants another's.                           *)
DeadlockNeedsBatch ==
  \A set \in SUBSET Connections : Stuck(set) => \E t \in set : open[t].kind = "batch"

(* Whatever the statements of open transactions do between each other, the *)
(* committed balances add up to nothing and clearing holds exactly the     *)
(* active withdrawals: no update is lost and no check is out of date.      *)
CommittedMoneyAddsUp ==
  /\ balance[Clearing] = Cardinality({u \in UserIds : request[u] # "none"})
  /\ LET sum[a \in 0 .. 4 + 2 * LastUser] == IF a = 0 THEN 0 ELSE sum[a - 1] + balance[a]
     IN sum[4 + 2 * LastUser] = 0
=============================================================================
