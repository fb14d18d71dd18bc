------------------------------- MODULE Ledger -------------------------------
(***************************************************************************)
(* The double-entry ledger of services/ledger.py, as operators on a "book":*)
(* the transactions posted so far and the balance kept on every account    *)
(* row.  Every transaction the program posts has two postings, made by     *)
(* ledger.transfer, so a transaction is a source, a destination and an     *)
(* amount.  The wording of memos, references and audit rows is left out.   *)
(***************************************************************************)
EXTENDS Integers, FiniteSets, Functions

CONSTANTS
  Users,      \* the people who can hold an account
  NoUser,     \* the owner of a system account
  Nonces      \* the nonces of the admin's funding form

ASSUME NoUserAssumption == NoUser \notin Users

SystemKinds == {"COMPANY_FUNDING", "PROMO_POOL", "WITHDRAWAL_CLEARING", "PAYOUT_SETTLED"}
UserKinds   == {"USER_PENDING", "USER_AVAILABLE"}

Accounts == [kind : SystemKinds, owner : {NoUser}] \cup [kind : UserKinds, owner : Users]

System(kind) == [kind |-> kind, owner |-> NoUser]
Funding      == System("COMPANY_FUNDING")
Pool         == System("PROMO_POOL")
Clearing     == System("WITHDRAWAL_CLEARING")
Settled      == System("PAYOUT_SETTLED")
Pending(u)   == [kind |-> "USER_PENDING", owner |-> u]
Available(u) == [kind |-> "USER_AVAILABLE", owner |-> u]

TxnKinds == {"FUNDING", "REFERRAL_REWARD", "REWARDS_UNLOCK",
             "WITHDRAWAL_HOLD", "WITHDRAWAL_PAID", "WITHDRAWAL_RETURNED"}

-----------------------------------------------------------------------------
(* Idempotency keys: "funding:<nonce>", "reward:<user>:1",                 *)
(* "unlock:<user>:<last entry>", "withdrawal:<id>:hold" and                *)
(* "withdrawal:<id>:settle".  PAID and RETURNED share the settle key.      *)
Keys == [op : {"funding", "reward", "unlock", "hold", "settle"},
         ref : Nonces \cup Users \cup Nat, seq : Nat]

(* Seeded bugs: keys that do not name the withdrawal.                      *)
HoldKeyNoId(w)   == [op |-> "hold", ref |-> 0, seq |-> 0]
SettleKeyNoId(w) == [op |-> "settle", ref |-> 0, seq |-> 0]

FundingKey(nonce) == [op |-> "funding", ref |-> nonce, seq |-> 0]
RewardKey(u)      == [op |-> "reward", ref |-> u, seq |-> 1]
UnlockKey(u, n)   == [op |-> "unlock", ref |-> u, seq |-> n]
HoldKey(w)        == [op |-> "hold", ref |-> w, seq |-> 0]
SettleKey(w)      == [op |-> "settle", ref |-> w, seq |-> 0]

Transactions == [kind : TxnKinds, key : Keys, src : Accounts, dst : Accounts, amount : Nat]

Transfer(kind, key, src, dst, amount) ==
  [kind |-> kind, key |-> key, src |-> src, dst |-> dst, amount |-> amount]

-----------------------------------------------------------------------------
Books == [txns : SUBSET Transactions, balance : [Accounts -> Int]]

(* CHECK no_negative_balance: only COMPANY_FUNDING may go below zero.      *)
Solvent(book) == \A a \in Accounts \ {Funding} : book.balance[a] >= 0

EmptyBook == [txns |-> {}, balance |-> [a \in Accounts |-> 0]]

Posted(book, key) == \E t \in book.txns : t.key = key

(* The transactions that touch an account.                                 *)
Entries(book, a) == {t \in book.txns : t.src = a \/ t.dst = a}

(* The last ledger entry of an account, as the unlock key uses it: the     *)
(* code takes max(ledger_entries.id), which grows exactly when an entry is *)
(* added to the account, and so does the number of its entries.            *)
LastEntry(book, a) == Cardinality(Entries(book, a))

(* What that constraint lets through; a refused update aborts the caller's *)
(* whole transaction.  A key already posted updates no balance.            *)
Covers(book, t) ==
  \/ Posted(book, t.key)
  \/ t.src = Funding
  \/ book.balance[t.src] >= t.amount

(* Seeded bug: the conflict on the key is ignored and the balances move.   *)
PostAgain(book, t) ==
  [txns    |-> book.txns \cup {t},
   balance |-> [book.balance EXCEPT ![t.src] = @ - t.amount, ![t.dst] = @ + t.amount]]

(* ledger.post: a key already posted changes nothing and its caller goes on. *)
Post(book, t) ==
  IF Posted(book, t.key)
  THEN book
  ELSE [txns    |-> book.txns \cup {t},
        balance |-> [book.balance EXCEPT ![t.src] = @ - t.amount,
                                         ![t.dst] = @ + t.amount]]

-----------------------------------------------------------------------------
(* Sums, for the properties.                                               *)
Total(txns) == SumFunctionOnSet([t \in txns |-> t.amount], txns)

Recounted(book, a) ==
  Total({t \in book.txns : t.dst = a}) - Total({t \in book.txns : t.src = a})
=============================================================================
