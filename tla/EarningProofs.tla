---------------------------- MODULE EarningProofs ----------------------------
(* The money path at the grain of statements, with any number of users,    *)
(* connections and funding.                                                *)
EXTENDS MCEarning, SequenceTheorems, FiniteSetTheorems, NaturalsInduction, TLAPS

-----------------------------------------------------------------------------
(* Part 1: what the accounts add up to.                                    *)
LastAccount == 4 + 2 * LastUser

Amounts == [L!LedgerAccounts -> Int]

(* The sum of CommittedMoneyAddsUp, for any amounts.                       *)
SumsUp(sum, f) ==
sum = [a \in 0 .. LastAccount |-> IF a = 0 THEN 0 ELSE sum[a - 1] + f[a]]

TotalOf(f) == (CHOOSE sum : SumsUp(sum, f))[LastAccount]

(* The instance has a Cardinality of its own.                              *)
LEMMA SameCardinality == \A S : L!Cardinality(S) = Cardinality(S)
BY DEF L!Cardinality, Cardinality

LEMMA AddsUpIs ==
  L!CommittedMoneyAddsUp <=>
  /\ balance[L!Clearing] = Cardinality({u \in L!UserIds : request[u] # "none"})
  /\ TotalOf(balance) = 0
<1> DEFINE active == {u \in L!UserIds : request[u] # "none"}
<1>1. L!CommittedMoneyAddsUp <=> balance[L!Clearing] = L!Cardinality(active) /\ TotalOf(balance) = 0
  BY Zenon DEF L!CommittedMoneyAddsUp, TotalOf, SumsUp, LastAccount
<1>2. L!Cardinality(active) = Cardinality(active)
  BY SameCardinality
<1> HIDE DEF active
<1>3. L!CommittedMoneyAddsUp <=> balance[L!Clearing] = Cardinality(active) /\ TotalOf(balance) = 0
  BY <1>1, <1>2, Zenon
<1> QED BY <1>3 DEF active

LEMMA SetInduction ==
  ASSUME NEW P \in SUBSET Nat, 0 \in P, \A n \in P : n + 1 \in P
  PROVE  P = Nat
<1> DEFINE R == OpToRel(<, Nat)
<1> SUFFICES ASSUME Nat \ P # {} PROVE FALSE
  OBVIOUS
<1>1. IsWellFoundedOn(R, Nat)
  BY NatLessThanWellFounded
<1>2. \A x, y \in Nat : x < y => <<x, y>> \in R
  BY DEF OpToRel
<1> HIDE DEF R
<1>3. PICK n \in Nat \ P : \A m \in Nat \ P : ~(<<m, n>> \in R)
  BY <1>1, WFMin
<1>4. n # 0 /\ n - 1 \in Nat
  BY <1>3
<1>5. n - 1 < n /\ n \in Nat
  BY <1>3
<1>6. <<n - 1, n>> \in R
  BY <1>2, <1>4, <1>5
<1>7. n - 1 \in P
  BY <1>3, <1>4, <1>6
<1> QED BY <1>3, <1>4, <1>7

LEMMA AccountsAre ==
  ASSUME L!AccountLocksAssumption
  PROVE  /\ LastAccount \in Nat /\ LastAccount > 0 /\ L!LedgerAccounts = 1 .. LastAccount
         /\ L!LedgerAccounts \subseteq Nat
BY DEF L!AccountLocksAssumption, LastAccount, L!LedgerAccounts

LEMMA TotalIs ==
  ASSUME L!AccountLocksAssumption, NEW f \in Amounts
  PROVE  \E sum \in [0 .. LastAccount -> Int] :
           /\ sum[0] = 0 /\ TotalOf(f) = sum[LastAccount]
           /\ \A a \in L!LedgerAccounts : sum[a] = sum[a - 1] + f[a]
<1> DEFINE UpTo(n) == {s \in [0 .. n -> Int] :
                         s[0] = 0 /\ \A a \in 1 .. n : s[a] = s[a - 1] + f[a]}
           P == {n \in Nat : n <= LastAccount => UpTo(n) # {}}
<1>1. 0 \in P
  <2>1. [a \in 0 .. 0 |-> 0] \in UpTo(0)
    OBVIOUS
  <2> QED BY <2>1
<1>2. ASSUME NEW n \in P PROVE n + 1 \in P
  <2> SUFFICES ASSUME n + 1 <= LastAccount PROVE UpTo(n + 1) # {}
    OBVIOUS
  <2>1. n \in Nat /\ n <= LastAccount /\ n + 1 \in L!LedgerAccounts /\ f[n + 1] \in Int
    BY AccountsAre DEF Amounts
  <2>2. PICK s \in [0 .. n -> Int] : s[0] = 0 /\ \A a \in 1 .. n : s[a] = s[a - 1] + f[a]
    BY <2>1
  <2> DEFINE more == [a \in 0 .. n + 1 |-> IF a = n + 1 THEN s[n] + f[n + 1] ELSE s[a]]
  <2>3. more \in [0 .. n + 1 -> Int]
    BY <2>1, <2>2
  <2>4. more[0] = 0 /\ \A a \in 1 .. n + 1 : more[a] = more[a - 1] + f[a]
    BY <2>1, <2>2
  <2> QED BY <2>3, <2>4
<1>3. P = Nat
  <2> HIDE DEF P
  <2>1. P \subseteq Nat
    BY DEF P
  <2> QED BY <1>1, <1>2, <2>1, SetInduction
<1>4. PICK s \in UpTo(LastAccount) : TRUE
  <2>1. LastAccount \in P
    BY <1>3, AccountsAre
  <2>2. UpTo(LastAccount) # {}
    <3> HIDE DEF UpTo
    <3> QED BY <2>1, AccountsAre
  <2> QED BY <2>2
<1>5. SumsUp(s, f)
  BY <1>4, AccountsAre DEF SumsUp
<1> DEFINE sum == CHOOSE s1 : SumsUp(s1, f)
<1>6. SumsUp(sum, f)
  BY <1>5
<1>7. sum = s
  <2> DEFINE Q == {n \in Nat : n <= LastAccount => sum[n] = s[n]}
  <2> HIDE DEF sum
  <2>1. 0 \in Q
    BY <1>4, <1>6, AccountsAre DEF SumsUp
  <2>2. ASSUME NEW n \in Q PROVE n + 1 \in Q
    BY <1>4, <1>6, AccountsAre DEF SumsUp
  <2>3. Q = Nat
    <3> HIDE DEF Q
    <3>1. Q \subseteq Nat
      BY DEF Q
    <3> QED BY <2>1, <2>2, <3>1, SetInduction
  <2>4. \A n \in 0 .. LastAccount : sum[n] = s[n]
    BY <2>3
  <2> QED BY <1>4, <1>6, <2>4, AccountsAre DEF SumsUp
<1>8. TotalOf(f) = sum[LastAccount]
  BY DEF TotalOf
<1> HIDE DEF sum
<1> QED BY <1>4, <1>7, <1>8, AccountsAre

LEMMA TotalAdds ==
  ASSUME L!AccountLocksAssumption, NEW f \in Amounts, NEW g \in Amounts, NEW h \in Amounts,
         \A a \in L!LedgerAccounts : h[a] = f[a] + g[a]
  PROVE  TotalOf(h) = TotalOf(f) + TotalOf(g)
<1>1. PICK p \in [0 .. LastAccount -> Int] :
        /\ p[0] = 0 /\ TotalOf(f) = p[LastAccount]
        /\ \A a \in L!LedgerAccounts : p[a] = p[a - 1] + f[a]
  BY TotalIs
<1>2. PICK q \in [0 .. LastAccount -> Int] :
        /\ q[0] = 0 /\ TotalOf(g) = q[LastAccount]
        /\ \A a \in L!LedgerAccounts : q[a] = q[a - 1] + g[a]
  BY TotalIs
<1>3. PICK r \in [0 .. LastAccount -> Int] :
        /\ r[0] = 0 /\ TotalOf(h) = r[LastAccount]
        /\ \A a \in L!LedgerAccounts : r[a] = r[a - 1] + h[a]
  BY TotalIs
<1> DEFINE P == {n \in Nat : n <= LastAccount => r[n] = p[n] + q[n]}
<1>4. 0 \in P
  BY <1>1, <1>2, <1>3
<1>5. ASSUME NEW n \in P PROVE n + 1 \in P
  <2> SUFFICES ASSUME n + 1 <= LastAccount PROVE r[n + 1] = p[n + 1] + q[n + 1]
    OBVIOUS
  <2>1. n \in Nat /\ n <= LastAccount /\ n + 1 \in L!LedgerAccounts /\ n \in 0 .. LastAccount
        /\ (n + 1) - 1 = n
    BY AccountsAre
  <2>2. r[n + 1] = r[n] + h[n + 1] /\ p[n + 1] = p[n] + f[n + 1] /\ q[n + 1] = q[n] + g[n + 1]
    BY <1>1, <1>2, <1>3, <2>1
  <2>3. /\ p[n] \in Int /\ q[n] \in Int /\ r[n] = p[n] + q[n]
        /\ f[n + 1] \in Int /\ g[n + 1] \in Int /\ h[n + 1] = f[n + 1] + g[n + 1]
    BY <2>1 DEF Amounts
  <2> QED BY <2>2, <2>3
<1>6. P = Nat
  <2> HIDE DEF P
  <2>1. P \subseteq Nat
    BY DEF P
  <2> QED BY <1>4, <1>5, <2>1, SetInduction
<1> QED BY <1>1, <1>2, <1>3, <1>6, AccountsAre

(* One account more or less.                                               *)
LEMMA TotalChanges ==
  ASSUME L!AccountLocksAssumption, NEW f \in Amounts, NEW g \in Amounts, NEW r \in L!LedgerAccounts,
         NEW d \in Int, g[r] = f[r] + d, \A a \in L!LedgerAccounts \ {r} : g[a] = f[a]
  PROVE  TotalOf(g) = TotalOf(f) + d
<1>1. PICK p \in [0 .. LastAccount -> Int] :
        /\ p[0] = 0 /\ TotalOf(f) = p[LastAccount]
        /\ \A a \in L!LedgerAccounts : p[a] = p[a - 1] + f[a]
  BY TotalIs
<1>2. PICK q \in [0 .. LastAccount -> Int] :
        /\ q[0] = 0 /\ TotalOf(g) = q[LastAccount]
        /\ \A a \in L!LedgerAccounts : q[a] = q[a - 1] + g[a]
  BY TotalIs
<1>0. r \in 1 .. LastAccount
  BY AccountsAre
<1> DEFINE P == {n \in Nat : n <= LastAccount => q[n] = p[n] + IF n >= r THEN d ELSE 0}
<1>3. 0 \in P
  BY <1>0, <1>1, <1>2
<1>4. ASSUME NEW n \in P PROVE n + 1 \in P
  <2> SUFFICES ASSUME n + 1 <= LastAccount
               PROVE  q[n + 1] = p[n + 1] + IF n + 1 >= r THEN d ELSE 0
    OBVIOUS
  <2>1. n \in Nat /\ n <= LastAccount /\ n + 1 \in L!LedgerAccounts /\ n \in 0 .. LastAccount
        /\ (n + 1) - 1 = n
    BY AccountsAre
  <2>2. p[n + 1] = p[n] + f[n + 1] /\ q[n + 1] = q[n] + g[n + 1]
    BY <1>1, <1>2, <2>1
  <2>3. /\ p[n] \in Int /\ q[n] = p[n] + IF n >= r THEN d ELSE 0
        /\ f[n + 1] \in Int /\ g[n + 1] = f[n + 1] + IF n + 1 = r THEN d ELSE 0
    BY <2>1 DEF Amounts
  <2> QED BY <1>0, <2>1, <2>2, <2>3
<1>5. P = Nat
  <2> HIDE DEF P
  <2>1. P \subseteq Nat
    BY DEF P
  <2> QED BY <1>3, <1>4, <2>1, SetInduction
<1>6. q[LastAccount] = p[LastAccount] + d
  BY <1>0, <1>5, AccountsAre
<1> QED BY <1>1, <1>2, <1>6

LEMMA TotalNone ==
  ASSUME L!AccountLocksAssumption, NEW f \in Amounts, \A a \in L!LedgerAccounts : f[a] = 0
  PROVE  TotalOf(f) = 0
<1>1. TotalOf(f) = TotalOf(f) + TotalOf(f)
  BY TotalAdds
<1>2. TotalOf(f) \in Int
  BY TotalIs, AccountsAre
<1>3. \A n \in Int : n = n + n => n = 0
  OBVIOUS
<1> QED BY <1>1, <1>2, <1>3

-----------------------------------------------------------------------------
(* Part 2: what one statement does.                                        *)
Kinds == {"none", "fund", "reward", "wallet", "create", "paid", "failed", "batch", "export"}

Rows == L!LedgerAccounts \cup {L!Request(u) : u \in L!UserIds}

Statements ==
  {s \in [do : {"select", "update", "unlock", "insert", "lock"}, row : Rows, n : Int] :
     /\ s.do \in {"select", "update"} => s.row \in L!LedgerAccounts
     /\ s.do \in {"unlock", "insert", "lock"} => s.n \in L!UserIds
     /\ s.do = "unlock" => s.row = L!Pending(s.n)
     /\ s.do \in {"insert", "lock"} => s.row = L!Request(s.n)}

Trx ==
  [kind : Kinds, todo : Seq(Statements),
   written : UNION {[locked -> Int] : locked \in SUBSET Rows},
   status : {"none", "REQUESTED", "PROCESSING"}]

(* What a transaction has changed of balances that were bal.               *)
Change(trx, bal) ==
  [a \in L!LedgerAccounts |-> IF a \in DOMAIN trx.written THEN trx.written[a] - bal[a] ELSE 0]

Covered(bal) == \A a \in L!LedgerAccounts \ {L!Company} : bal[a] >= 0

Solid(trx) ==
  \A a \in L!LedgerAccounts \ {L!Company} : a \in DOMAIN trx.written => trx.written[a] >= 0

(* The two updates of an unlock, once it knows how much there is.          *)
Moves(u, v) == <<L!Update(L!Pending(u), -v), L!Update(L!Available(u), v)>>

(* The rows are all different.                                             *)
LEMMA RowFacts ==
  ASSUME L!AccountLocksAssumption
  PROVE  /\ {L!Company, L!Pool, L!Clearing, L!Settled} \subseteq L!LedgerAccounts
         /\ L!Company # L!Pool /\ L!Company # L!Clearing /\ L!Company # L!Settled
         /\ L!Pool # L!Clearing /\ L!Pool # L!Settled /\ L!Clearing # L!Settled
         /\ \A u \in L!UserIds :
              /\ L!Pending(u) \in L!LedgerAccounts /\ L!Available(u) \in L!LedgerAccounts
              /\ L!Pending(u) < L!Available(u)
              /\ L!Pending(u) \notin {L!Company, L!Pool, L!Clearing, L!Settled}
              /\ L!Available(u) \notin {L!Company, L!Pool, L!Clearing, L!Settled}
              /\ L!Request(u) \notin L!LedgerAccounts
              /\ \A v \in L!UserIds :
                   /\ L!Pending(u) # L!Available(v)
                   /\ u # v => L!Pending(u) # L!Pending(v) /\ L!Available(u) # L!Available(v)
                               /\ L!Request(u) # L!Request(v)
BY DEF L!AccountLocksAssumption, L!LedgerAccounts, L!UserIds, L!Company, L!Pool, L!Clearing, L!Settled,
       L!Pending, L!Available, L!Request

LEMMA StatementsAre ==
  ASSUME L!AccountLocksAssumption
  PROVE  /\ \A a \in L!LedgerAccounts, n \in Int :
              /\ L!Select(a, n) \in Statements /\ L!Update(a, n) \in Statements
         /\ \A u \in L!UserIds :
              L!Unlock(u) \in Statements /\ L!Insert(u) \in Statements /\ L!LockRequest(u) \in Statements
<1>1. \A u \in L!UserIds : u \in Int
  BY DEF L!UserIds, L!AccountLocksAssumption
<1> QED BY <1>1, RowFacts DEF Statements, Rows, L!Select, L!Update, L!Unlock, L!Insert, L!LockRequest

LEMMA ChangeTyped ==
  ASSUME NEW bal \in Amounts, NEW trx \in Trx
  PROVE  Change(trx, bal) \in Amounts
BY DEF Change, Amounts, Trx

LEMMA MovesAre ==
  ASSUME L!AccountLocksAssumption, NEW u \in L!UserIds, NEW v \in Int
  PROVE  /\ L!unlock_if_open(u, v) \in {Moves(u, v), <<>>}
         /\ Moves(u, v) \in Seq(Statements)
<1>1. -v \in Int
  OBVIOUS
<1> QED BY <1>1, RowFacts, StatementsAre DEF L!unlock_if_open, L!transfer, Moves

LEMMA Ran ==
  ASSUME L!AccountLocksAssumption, balance \in Amounts, Covered(balance),
         NEW t, NEW trx \in Trx, trx.todo # <<>>, Solid(trx), L!Possible(t, trx),
         NEW s, s = Head(trx.todo)
  PROVE  /\ s \in Statements /\ L!After(trx) \in Trx /\ Solid(L!After(trx))
         /\ L!After(trx).kind = trx.kind /\ L!After(trx).status = trx.status
         /\ DOMAIN L!After(trx).written = DOMAIN trx.written \cup {s.row}
         /\ s.do # "unlock" => L!After(trx).todo = Tail(trx.todo)
         /\ s.do = "unlock" => \/ L!After(trx).todo = Tail(trx.todo)
                               \/ \E v \in Int : L!After(trx).todo = Moves(s.n, v) \o Tail(trx.todo)
         /\ TotalOf(Change(L!After(trx), balance))
              = TotalOf(Change(trx, balance)) + IF s.do = "update" THEN s.n ELSE 0
         /\ Change(L!After(trx), balance)[L!Clearing]
              = Change(trx, balance)[L!Clearing]
                + IF s.do = "update" /\ s.row = L!Clearing THEN s.n ELSE 0
<1> DEFINE w == trx.written
           value == CASE s.do = "update" -> L!Value(trx, s.row) + s.n
                      [] s.do \in {"insert", "lock"} -> 0
                      [] OTHER -> L!Value(trx, s.row)
           new == [r \in DOMAIN w \cup {s.row} |-> IF r = s.row THEN value ELSE w[r]]
           rest == (IF s.do = "unlock" THEN L!unlock_if_open(s.n, value) ELSE <<>>) \o Tail(trx.todo)
           x == [kind |-> trx.kind, todo |-> rest, written |-> new, status |-> trx.status]
<1>1. /\ trx.todo \in Seq(Statements) /\ s \in Statements /\ Tail(trx.todo) \in Seq(Statements)
      /\ w \in [DOMAIN w -> Int] /\ DOMAIN w \subseteq Rows
      /\ trx.kind \in Kinds /\ trx.status \in {"none", "REQUESTED", "PROCESSING"}
      /\ trx = [kind |-> trx.kind, todo |-> trx.todo, written |-> trx.written, status |-> trx.status]
  <2>1. trx.todo \in Seq(Statements)
    BY DEF Trx
  <2>2. s \in Statements /\ Tail(trx.todo) \in Seq(Statements)
    BY <2>1, HeadTailProperties
  <2> QED BY <2>1, <2>2 DEF Trx
<1>3. s.do \in {"select", "update", "unlock"} => L!Value(trx, s.row) \in Int /\ s.row \in L!LedgerAccounts
  <2>1. \A u \in L!UserIds : L!Pending(u) \in L!LedgerAccounts
    BY RowFacts
  <2>2. s.do \in {"select", "update", "unlock"} => s.row \in L!LedgerAccounts
    BY <1>1, <2>1 DEF Statements
  <2> QED BY <1>1, <2>2 DEF L!Value, Amounts
<1>4. value \in Int /\ s.row \in Rows /\ s.n \in Int
  BY <1>1, <1>3 DEF Statements
<1>5. new \in [DOMAIN w \cup {s.row} -> Int] /\ DOMAIN w \cup {s.row} \in SUBSET Rows
  <2> HIDE DEF value
  <2> QED BY <1>1, <1>4
<1>6. /\ rest \in Seq(Statements)
      /\ s.do # "unlock" => rest = Tail(trx.todo)
      /\ s.do = "unlock" => rest = Tail(trx.todo) \/ \E v \in Int : rest = Moves(s.n, v) \o Tail(trx.todo)
  <2> HIDE DEF value
  <2>1. s.do = "unlock" => s.n \in L!UserIds
    BY <1>1 DEF Statements
  <2>2. CASE s.do = "unlock"
    <3>1. /\ L!unlock_if_open(s.n, value) \in {Moves(s.n, value), <<>>}
          /\ Moves(s.n, value) \in Seq(Statements)
      BY <1>4, <2>1, <2>2, MovesAre
    <3>2. <<>> \o Tail(trx.todo) = Tail(trx.todo)
      BY <1>1, ConcatEmptySeq
    <3>3. Moves(s.n, value) \o Tail(trx.todo) \in Seq(Statements)
      BY <1>1, <3>1, ConcatProperties
    <3> QED BY <1>1, <1>4, <2>2, <3>1, <3>2, <3>3
  <2>3. CASE s.do # "unlock"
    BY <1>1, <2>3, ConcatEmptySeq
  <2> QED BY <2>2, <2>3
<1>7. x \in Trx
  <2> HIDE DEF new, rest
  <2> QED BY <1>1, <1>5, <1>6 DEF Trx
<1>2. L!After(trx) = x
  <2> DEFINE y == [trx EXCEPT !.written = new, !.todo = rest]
  <2>1. L!After(trx) = y
    BY DEF L!After
  <2> HIDE DEF new, rest
  <2>2. y \in Trx
    BY <1>5, <1>6 DEF Trx
  <2>3. y.kind = trx.kind /\ y.todo = rest /\ y.written = new /\ y.status = trx.status
    BY DEF Trx
  <2> HIDE DEF y
  <2> QED BY <1>7, <2>1, <2>2, <2>3 DEF Trx
<1> HIDE DEF rest
<1>8. x.written = new /\ DOMAIN new = DOMAIN w \cup {s.row}
  <2> HIDE DEF value
  <2> QED OBVIOUS
<1>9. Solid(x)
  <2>1. s.row \in L!LedgerAccounts \ {L!Company} => value >= 0
    <3>1. s.row \in L!LedgerAccounts \ {L!Company} => L!Value(trx, s.row) >= 0
      BY DEF L!Value, Covered, Solid
    <3>2. s.do = "update" => s.row = L!Company \/ L!Value(trx, s.row) + s.n >= 0
      BY DEF L!Possible
    <3> QED BY <1>3, <3>1, <3>2
  <2> HIDE DEF value
  <2> QED BY <1>8, <2>1 DEF Solid
<1>10. /\ Change(x, balance) \in Amounts /\ Change(trx, balance) \in Amounts
       /\ \A a \in L!LedgerAccounts : Change(x, balance)[a] = Change(trx, balance)[a]
            + IF a = s.row /\ s.do = "update" THEN s.n ELSE 0
  <2>1. Change(x, balance) \in Amounts /\ Change(trx, balance) \in Amounts
    BY <1>7, ChangeTyped
  <2> SUFFICES ASSUME NEW a \in L!LedgerAccounts
               PROVE  Change(x, balance)[a] = Change(trx, balance)[a]
                        + IF a = s.row /\ s.do = "update" THEN s.n ELSE 0
    BY <2>1
  <2>2. Change(trx, balance)[a] \in Int /\ balance[a] \in Int
    BY <2>1 DEF Amounts
  <2>3. CASE a # s.row
    <3> HIDE DEF value
    <3> QED BY <1>8, <2>2, <2>3 DEF Change
  <2>4. CASE a = s.row
    <3>1. Change(x, balance)[a] = value - balance[a]
      <4> HIDE DEF value
      <4> QED BY <1>8, <2>4 DEF Change
    <3>2. Change(trx, balance)[a] = L!Value(trx, a) - balance[a] /\ L!Value(trx, a) \in Int
      BY <1>1, <2>2 DEF Change, L!Value
    <3>3. s.do \notin {"insert", "lock"}
      BY <1>1, <2>4, RowFacts DEF Statements
    <3>4. value = L!Value(trx, a) + IF s.do = "update" THEN s.n ELSE 0
      BY <2>4, <3>2, <3>3
    <3>5. PICK n \in Int : n = IF s.do = "update" THEN s.n ELSE 0
      BY <1>4
    <3>6. value = L!Value(trx, a) + n
      BY <3>4, <3>5
    <3> HIDE DEF value, x
    <3>7. Change(x, balance)[a] = (L!Value(trx, a) + n) - balance[a]
      BY <3>1, <3>6
    <3>8. Change(x, balance)[a] = Change(trx, balance)[a] + n
      BY <2>2, <3>2, <3>5, <3>7
    <3> QED BY <2>4, <3>5, <3>8
  <2> QED BY <2>3, <2>4
<1>11. TotalOf(Change(x, balance))
         = TotalOf(Change(trx, balance)) + IF s.do = "update" THEN s.n ELSE 0
  <2> DEFINE d == IF s.do = "update" THEN s.n ELSE 0
  <2>1. PICK r \in L!LedgerAccounts : (s.do = "update" => r = s.row) /\ (s.do # "update" => r = L!Company)
    BY <1>3, RowFacts
  <2>2. d \in Int
    BY <1>4
  <2> HIDE DEF x
  <2>3. /\ Change(x, balance)[r] = Change(trx, balance)[r] + d
        /\ \A a \in L!LedgerAccounts \ {r} : Change(x, balance)[a] = Change(trx, balance)[a]
    <3>1. \A a \in L!LedgerAccounts : Change(trx, balance)[a] \in Int
      BY <1>10 DEF Amounts
    <3>2. \A a \in L!LedgerAccounts : Change(x, balance)[a] = Change(trx, balance)[a]
            + IF a = r THEN d ELSE 0
      BY <1>3, <1>10, <2>1
    <3> QED BY <2>2, <3>1, <3>2
  <2> HIDE DEF d
  <2>4. TotalOf(Change(x, balance)) = TotalOf(Change(trx, balance)) + d
    BY <1>10, <2>2, <2>3, TotalChanges
  <2> QED BY <2>4 DEF d
<1>12. Change(x, balance)[L!Clearing] = Change(trx, balance)[L!Clearing]
         + IF s.do = "update" /\ s.row = L!Clearing THEN s.n ELSE 0
  <2> HIDE DEF x
  <2> QED BY <1>10, RowFacts
<1> HIDE DEF new
<1> QED BY <1>1, <1>2, <1>6, <1>7, <1>8, <1>9, <1>11, <1>12

-----------------------------------------------------------------------------
(* Part 3: how far each kind of transaction may have come.  What it has    *)
(* still to do, which rows it has locked, what its changes add up to and   *)
(* what they are to clearing.                                              *)
Reached(x, bal, todo, locked, made, cleared) ==
  /\ x.todo = todo /\ DOMAIN x.written = locked
  /\ TotalOf(Change(x, bal)) = made /\ Change(x, bal)[L!Clearing] = cleared

FundList      == <<L!Update(L!Company, -1), L!Update(L!Pool, 1)>>
PayList(u)    == <<L!Update(L!Pool, -1), L!Update(L!Pending(u), 1)>>
HoldList(u)   == <<L!Update(L!Clearing, 1), L!Update(L!Available(u), -1)>>
SettleList(a) == <<L!Update(L!Clearing, -1), L!Update(a, 1)>>

Filling(x, bal) ==
\/ Reached(x, bal, FundList, {}, 0, 0)
\/ Reached(x, bal, <<L!Update(L!Pool, 1)>>, {L!Company}, -1, 0)
\/ Reached(x, bal, <<>>, {L!Company, L!Pool}, 0, 0)

Rewarding(x, bal, u) ==
  \/ Reached(x, bal, <<L!Select(L!Pool, 1)>> \o PayList(u), {}, 0, 0)
  \/ Reached(x, bal, PayList(u), {L!Pool}, 0, 0)
  \/ Reached(x, bal, <<L!Update(L!Pending(u), 1)>>, {L!Pool}, -1, 0)
  \/ Reached(x, bal, <<>>, {L!Pool, L!Pending(u)}, 0, 0)

Unlocking(x, bal, u, rest) ==
  \/ /\ x.todo # <<>> /\ Head(x.todo) = L!Unlock(u) /\ Tail(x.todo) = rest
     /\ Reached(x, bal, x.todo, {}, 0, 0)
  \/ \E v \in Int : \/ Reached(x, bal, Moves(u, v) \o rest, {L!Pending(u)}, 0, 0)
                    \/ Reached(x, bal, <<L!Update(L!Available(u), v)>> \o rest, {L!Pending(u)}, -v, 0)

Freed(x, bal, u, rest) ==
\/ Reached(x, bal, rest, {L!Pending(u)}, 0, 0)
\/ Reached(x, bal, rest, {L!Pending(u), L!Available(u)}, 0, 0)

Asking(x, bal, req, u) ==
  LET own == {L!Pending(u), L!Available(u), L!Request(u)} IN
  \/ Unlocking(x, bal, u, <<L!Select(L!Available(u), 1), L!Insert(u)>> \o HoldList(u))
  \/ Freed(x, bal, u, <<L!Select(L!Available(u), 1), L!Insert(u)>> \o HoldList(u))
  \/ Reached(x, bal, <<L!Insert(u)>> \o HoldList(u), {L!Pending(u), L!Available(u)}, 0, 0)
  \/ /\ req[u] = "none"
     /\ \/ Reached(x, bal, HoldList(u), own, 0, 0)
        \/ Reached(x, bal, <<L!Update(L!Available(u), -1)>>, own \cup {L!Clearing}, 1, 1)
        \/ Reached(x, bal, <<>>, own \cup {L!Clearing}, 0, 1)

Ending(x, bal, req, u, a) ==
  \/ Reached(x, bal, <<L!LockRequest(u)>> \o SettleList(a), {}, 0, 0)
  \/ /\ req[u] # "none"
     /\ \/ Reached(x, bal, SettleList(a), {L!Request(u)}, 0, 0)
        \/ Reached(x, bal, <<L!Update(a, 1)>>, {L!Request(u), L!Clearing}, -1, -1)
        \/ Reached(x, bal, <<>>, {L!Request(u), L!Clearing, a}, 0, -1)

UserAccounts == {L!Pending(u) : u \in L!UserIds} \cup {L!Available(u) : u \in L!UserIds}

Unlocks == {L!Unlock(u) : u \in L!UserIds}

Batching(x, bal) ==
  /\ DOMAIN x.written \subseteq UserAccounts
  /\ \E rest \in Seq(Unlocks) :
       \/ x.todo = rest /\ TotalOf(Change(x, bal)) = 0
       \/ \E u \in L!UserIds, v \in Int :
            \/ x.todo = Moves(u, v) \o rest /\ TotalOf(Change(x, bal)) = 0
            \/ x.todo = <<L!Update(L!Available(u), v)>> \o rest /\ TotalOf(Change(x, bal)) = -v

Exporting(x, req) ==
  /\ x.todo = <<>> /\ DOMAIN x.written \subseteq {L!Request(u) : u \in L!UserIds}
  /\ \A u \in L!UserIds : L!Request(u) \in DOMAIN x.written => req[u] = "REQUESTED"

Shape(x, bal, req) ==
  \/ x = L!Closed
  \/ x.kind = "fund" /\ x.status = "none" /\ Filling(x, bal)
  \/ x.kind = "reward" /\ x.status = "none" /\ \E u \in L!UserIds : Rewarding(x, bal, u)
  \/ x.kind = "wallet" /\ x.status = "none"
       /\ \E u \in L!UserIds : Unlocking(x, bal, u, <<>>) \/ Freed(x, bal, u, <<>>)
  \/ x.kind = "create" /\ x.status = "REQUESTED" /\ \E u \in L!UserIds : Asking(x, bal, req, u)
  \/ x.kind = "paid" /\ x.status = "none" /\ \E u \in L!UserIds : Ending(x, bal, req, u, L!Settled)
  \/ x.kind = "failed" /\ x.status = "none"
       /\ \E u \in L!UserIds : Ending(x, bal, req, u, L!Available(u))
  \/ x.kind = "batch" /\ x.status = "none" /\ Batching(x, bal)
  \/ x.kind = "export" /\ x.status = "PROCESSING" /\ Exporting(x, req)

(* Lists of statements, one statement on.                                  *)
LEMMA ListSteps ==
  ASSUME NEW S, NEW a \in S, NEW b \in S, NEW c \in S, NEW r \in Seq(S)
  PROVE  /\ <<a>> # <<>> /\ Head(<<a>>) = a /\ Tail(<<a>>) = <<>>
         /\ <<a, b>> # <<>> /\ Head(<<a, b>>) = a /\ Tail(<<a, b>>) = <<b>>
         /\ <<a>> \o r # <<>> /\ Head(<<a>> \o r) = a /\ Tail(<<a>> \o r) = r
         /\ <<a, b>> \o r # <<>> /\ Head(<<a, b>> \o r) = a /\ Tail(<<a, b>> \o r) = <<b>> \o r
         /\ <<a, b, c>> \o r # <<>> /\ Head(<<a, b, c>> \o r) = a
         /\ Tail(<<a, b, c>> \o r) = <<b, c>> \o r
<1>1. /\ <<a>> # <<>> /\ Head(<<a>>) = a /\ Tail(<<a>>) = <<>>
      /\ <<a, b>> # <<>> /\ Head(<<a, b>>) = a /\ Tail(<<a, b>>) = <<b>>
  OBVIOUS
<1>2. <<a>> \o r # <<>> /\ Head(<<a>> \o r) = a /\ Tail(<<a>> \o r) = r
  OBVIOUS
<1>3. <<a, b>> \o r # <<>> /\ Head(<<a, b>> \o r) = a /\ Tail(<<a, b>> \o r) = <<b>> \o r
  OBVIOUS
<1>4. /\ <<a, b, c>> \o r # <<>> /\ Head(<<a, b, c>> \o r) = a
      /\ Tail(<<a, b, c>> \o r) = <<b, c>> \o r
  OBVIOUS
<1> QED BY <1>1, <1>2, <1>3, <1>4

LEMMA ListsAre ==
  ASSUME L!AccountLocksAssumption, NEW u \in L!UserIds
  PROVE  /\ L!transfer(L!Company, L!Pool, 1) = FundList /\ L!transfer(L!Pool, L!Pending(u), 1) = PayList(u)
         /\ L!transfer(L!Available(u), L!Clearing, 1) = HoldList(u)
         /\ L!transfer(L!Clearing, L!Settled, 1) = SettleList(L!Settled)
         /\ L!transfer(L!Clearing, L!Available(u), 1) = SettleList(L!Available(u))
         /\ FundList \in Seq(Statements) /\ PayList(u) \in Seq(Statements)
         /\ HoldList(u) \in Seq(Statements)
         /\ \A a \in L!LedgerAccounts : SettleList(a) \in Seq(Statements)
<1>1. /\ L!Company < L!Pool /\ L!Pool < L!Pending(u) /\ L!Clearing < L!Available(u) /\ L!Clearing < L!Settled
  BY DEF L!AccountLocksAssumption, L!UserIds, L!Company, L!Pool, L!Clearing, L!Settled, L!Pending, L!Available
<1>2. /\ L!transfer(L!Company, L!Pool, 1) = FundList /\ L!transfer(L!Pool, L!Pending(u), 1) = PayList(u)
      /\ L!transfer(L!Clearing, L!Settled, 1) = SettleList(L!Settled)
      /\ L!transfer(L!Clearing, L!Available(u), 1) = SettleList(L!Available(u))
  BY <1>1 DEF L!transfer, FundList, PayList, SettleList
<1>3. L!transfer(L!Available(u), L!Clearing, 1) = HoldList(u)
  <2>1. ~(L!Available(u) < L!Clearing)
    BY <1>1 DEF L!AccountLocksAssumption, L!UserIds, L!Clearing, L!Available
  <2> QED BY <2>1 DEF L!transfer, HoldList
<1>4. /\ FundList \in Seq(Statements) /\ PayList(u) \in Seq(Statements)
      /\ HoldList(u) \in Seq(Statements)
      /\ \A a \in L!LedgerAccounts : SettleList(a) \in Seq(Statements)
  BY RowFacts, StatementsAre DEF FundList, PayList, HoldList, SettleList
<1> QED BY <1>2, <1>3, <1>4

(* A transaction whose next statement goes through.                        *)
Runs(t, trx) ==
  /\ L!AccountLocksAssumption /\ balance \in Amounts /\ Covered(balance)
  /\ trx \in Trx /\ trx.todo # <<>> /\ Solid(trx) /\ L!Possible(t, trx)

LEMMA OneStep ==
  ASSUME NEW t, NEW trx, Runs(t, trx), NEW todo, NEW locked, NEW made, NEW cleared,
         Reached(trx, balance, todo, locked, made, cleared), NEW s, s = Head(todo),
         s.do # "unlock"
  PROVE  Reached(L!After(trx), balance, Tail(todo), locked \cup {s.row},
                 made + IF s.do = "update" THEN s.n ELSE 0,
                 cleared + IF s.do = "update" /\ s.row = L!Clearing THEN s.n ELSE 0)
BY Ran DEF Reached, Runs

LEMMA Selected ==
  ASSUME NEW t, NEW trx, Runs(t, trx), NEW todo, NEW locked, NEW made \in Int, NEW cleared \in Int,
         Reached(trx, balance, todo, locked, made, cleared),
         NEW a, NEW least, Head(todo) = L!Select(a, least),
         NEW rest, rest = Tail(todo), NEW all, all = locked \cup {a}
  PROVE  Reached(L!After(trx), balance, rest, all, made, cleared)
<1> DEFINE s == L!Select(a, least)
<1>1. s.do = "select" /\ s.row = a
  BY DEF L!Select
<1> HIDE DEF s
<1>2. Reached(L!After(trx), balance, Tail(todo), locked \cup {s.row},
              made + IF s.do = "update" THEN s.n ELSE 0,
              cleared + IF s.do = "update" /\ s.row = L!Clearing THEN s.n ELSE 0)
  BY <1>1, OneStep DEF s
<1> QED BY <1>1, <1>2

LEMMA Updated ==
  ASSUME NEW t, NEW trx, Runs(t, trx), NEW todo, NEW locked, NEW made \in Int, NEW cleared \in Int,
         Reached(trx, balance, todo, locked, made, cleared),
         NEW a, NEW by \in Int, Head(todo) = L!Update(a, by),
         NEW rest, rest = Tail(todo), NEW all, all = locked \cup {a},
         NEW sum \in Int, sum = made + by
  PROVE  /\ a # L!Clearing => Reached(L!After(trx), balance, rest, all, sum, cleared)
         /\ a = L!Clearing => Reached(L!After(trx), balance, rest, all, sum, cleared + by)
<1> DEFINE s == L!Update(a, by)
<1>1. s.do = "update" /\ s.row = a /\ s.n = by
  BY DEF L!Update
<1> HIDE DEF s
<1>2. Reached(L!After(trx), balance, Tail(todo), locked \cup {s.row},
              made + IF s.do = "update" THEN s.n ELSE 0,
              cleared + IF s.do = "update" /\ s.row = L!Clearing THEN s.n ELSE 0)
  BY <1>1, OneStep DEF s
<1> QED BY <1>1, <1>2

LEMMA Noted ==
  ASSUME NEW t, NEW trx, Runs(t, trx), NEW todo, NEW locked, NEW made \in Int, NEW cleared \in Int,
         Reached(trx, balance, todo, locked, made, cleared),
         NEW u, Head(todo) = L!Insert(u) \/ Head(todo) = L!LockRequest(u),
         NEW rest, rest = Tail(todo), NEW all, all = locked \cup {L!Request(u)}
  PROVE  Reached(L!After(trx), balance, rest, all, made, cleared)
<1> DEFINE s == Head(todo)
<1>1. s.do \in {"insert", "lock"} /\ s.row = L!Request(u)
  BY DEF L!Insert, L!LockRequest
<1> HIDE DEF s
<1>2. Reached(L!After(trx), balance, Tail(todo), locked \cup {s.row},
              made + IF s.do = "update" THEN s.n ELSE 0,
              cleared + IF s.do = "update" /\ s.row = L!Clearing THEN s.n ELSE 0)
  BY <1>1, OneStep DEF s
<1> QED BY <1>1, <1>2

LEMMA Numbers == 0 \in Int /\ 1 \in Int /\ -1 \in Int /\ 0 + -1 = -1 /\ -1 + 1 = 0 /\ 0 + 1 = 1
                 /\ 1 + -1 = 0
OBVIOUS

LEMMA FillingOn ==
  ASSUME NEW t, NEW trx, Runs(t, trx), Filling(trx, balance)
  PROVE  Filling(L!After(trx), balance)
<1>0. L!Company # L!Clearing /\ L!Pool # L!Clearing
  BY RowFacts DEF Runs
<1>1. CASE Reached(trx, balance, FundList, {}, 0, 0)
  <2>1. Head(FundList) = L!Update(L!Company, -1) /\ <<L!Update(L!Pool, 1)>> = Tail(FundList)
    BY DEF FundList
  <2>2. {L!Company} = {} \cup {L!Company} /\ -1 = 0 + -1 /\ 0 \in Int /\ -1 \in Int
    OBVIOUS
  <2>3. Reached(L!After(trx), balance, <<L!Update(L!Pool, 1)>>, {L!Company}, -1, 0)
    BY <1>0, <1>1, <2>1, <2>2, Updated, ZenonT(20)
  <2> QED BY <2>3 DEF Filling
<1>2. CASE Reached(trx, balance, <<L!Update(L!Pool, 1)>>, {L!Company}, -1, 0)
  <2>1. Head(<<L!Update(L!Pool, 1)>>) = L!Update(L!Pool, 1) /\ <<>> = Tail(<<L!Update(L!Pool, 1)>>)
    OBVIOUS
  <2>2. {L!Company, L!Pool} = {L!Company} \cup {L!Pool} /\ 0 = -1 + 1 /\ 0 \in Int /\ -1 \in Int
        /\ 1 \in Int
    OBVIOUS
  <2>3. Reached(L!After(trx), balance, <<>>, {L!Company, L!Pool}, 0, 0)
    BY <1>0, <1>2, <2>1, <2>2, Updated, ZenonT(20)
  <2> QED BY <2>3 DEF Filling
<1>3. CASE Reached(trx, balance, <<>>, {L!Company, L!Pool}, 0, 0)
  BY <1>3 DEF Reached, Runs
<1> QED BY <1>1, <1>2, <1>3 DEF Filling

LEMMA RewardingOn ==
  ASSUME NEW t, NEW trx, Runs(t, trx), NEW u \in L!UserIds, Rewarding(trx, balance, u)
  PROVE  Rewarding(L!After(trx), balance, u)
<1>0. L!Pending(u) # L!Clearing /\ L!Pool # L!Clearing
  BY RowFacts DEF Runs
<1>1. CASE Reached(trx, balance, <<L!Select(L!Pool, 1)>> \o PayList(u), {}, 0, 0)
  <2>1. /\ Head(<<L!Select(L!Pool, 1)>> \o PayList(u)) = L!Select(L!Pool, 1)
        /\ PayList(u) = Tail(<<L!Select(L!Pool, 1)>> \o PayList(u))
    <3>1. L!Select(L!Pool, 1) \in Statements /\ PayList(u) \in Seq(Statements)
      BY ListsAre, StatementsAre, RowFacts DEF Runs
    <3> QED BY <3>1, ListSteps
  <2>2. {L!Pool} = {} \cup {L!Pool}
    OBVIOUS
  <2>3. Reached(L!After(trx), balance, PayList(u), {L!Pool}, 0, 0)
    BY <1>1, <2>1, <2>2, Numbers, Selected, Zenon
  <2> QED BY <2>3 DEF Rewarding
<1>2. CASE Reached(trx, balance, PayList(u), {L!Pool}, 0, 0)
  <2>1. Head(PayList(u)) = L!Update(L!Pool, -1) /\ <<L!Update(L!Pending(u), 1)>> = Tail(PayList(u))
    BY DEF PayList
  <2>2. {L!Pool} = {L!Pool} \cup {L!Pool} /\ -1 = 0 + -1
    OBVIOUS
  <2>3. Reached(L!After(trx), balance, <<L!Update(L!Pending(u), 1)>>, {L!Pool}, -1, 0)
    BY <1>0, <1>2, <2>1, <2>2, Numbers, Updated, ZenonT(20)
  <2> QED BY <2>3 DEF Rewarding
<1>3. CASE Reached(trx, balance, <<L!Update(L!Pending(u), 1)>>, {L!Pool}, -1, 0)
  <2>1. /\ Head(<<L!Update(L!Pending(u), 1)>>) = L!Update(L!Pending(u), 1)
        /\ <<>> = Tail(<<L!Update(L!Pending(u), 1)>>)
    OBVIOUS
  <2>2. {L!Pool, L!Pending(u)} = {L!Pool} \cup {L!Pending(u)} /\ 0 = -1 + 1
    OBVIOUS
  <2>3. Reached(L!After(trx), balance, <<>>, {L!Pool, L!Pending(u)}, 0, 0)
    BY <1>0, <1>3, <2>1, <2>2, Numbers, Updated, ZenonT(20)
  <2> QED BY <2>3 DEF Rewarding
<1>4. CASE Reached(trx, balance, <<>>, {L!Pool, L!Pending(u)}, 0, 0)
  BY <1>4 DEF Reached, Runs
<1> QED BY <1>1, <1>2, <1>3, <1>4 DEF Rewarding

LEMMA UnlockingOn ==
  ASSUME NEW t, NEW trx, Runs(t, trx), NEW u \in L!UserIds, NEW rest \in Seq(Statements),
         Unlocking(trx, balance, u, rest)
  PROVE  \/ Unlocking(L!After(trx), balance, u, rest)
         \/ Freed(L!After(trx), balance, u, rest)
<1>0. /\ L!Pending(u) # L!Clearing /\ L!Available(u) # L!Clearing
      /\ L!Pending(u) \in L!LedgerAccounts /\ L!Available(u) \in L!LedgerAccounts
  BY RowFacts DEF Runs
<1>1. CASE /\ Head(trx.todo) = L!Unlock(u) /\ Tail(trx.todo) = rest
           /\ Reached(trx, balance, trx.todo, {}, 0, 0)
  <2>1. L!Unlock(u).do = "unlock" /\ L!Unlock(u).row = L!Pending(u) /\ L!Unlock(u).n = u
    BY DEF L!Unlock
  <2>2. /\ DOMAIN L!After(trx).written = {L!Pending(u)}
        /\ TotalOf(Change(L!After(trx), balance)) = 0 /\ Change(L!After(trx), balance)[L!Clearing] = 0
        /\ \/ L!After(trx).todo = rest
           \/ \E v \in Int : L!After(trx).todo = Moves(u, v) \o rest
    <3>0. PICK s : s = Head(trx.todo)
      OBVIOUS
    <3>1. s.do = "unlock" /\ s.row = L!Pending(u) /\ s.n = u
      BY <1>1, <2>1, <3>0
    <3>2. /\ DOMAIN L!After(trx).written = DOMAIN trx.written \cup {s.row}
          /\ TotalOf(Change(L!After(trx), balance))
               = TotalOf(Change(trx, balance)) + IF s.do = "update" THEN s.n ELSE 0
          /\ Change(L!After(trx), balance)[L!Clearing]
               = Change(trx, balance)[L!Clearing]
                 + IF s.do = "update" /\ s.row = L!Clearing THEN s.n ELSE 0
      BY <3>0, Ran DEF Runs
    <3>6. \/ L!After(trx).todo = Tail(trx.todo)
          \/ \E v \in Int : L!After(trx).todo = Moves(s.n, v) \o Tail(trx.todo)
      BY <3>0, <3>1, Ran DEF Runs
    <3>3. /\ DOMAIN trx.written = {} /\ TotalOf(Change(trx, balance)) = 0
          /\ Change(trx, balance)[L!Clearing] = 0 /\ Tail(trx.todo) = rest
      BY <1>1 DEF Reached
    <3>4. s.do # "update"
      BY <3>1
    <3>5. TotalOf(Change(L!After(trx), balance)) = 0 /\ Change(L!After(trx), balance)[L!Clearing] = 0
      BY <3>2, <3>3, <3>4
    <3> QED BY <3>1, <3>2, <3>3, <3>5, <3>6
  <2> QED BY <2>2 DEF Unlocking, Freed, Reached
<1>2. ASSUME NEW v \in Int, Reached(trx, balance, Moves(u, v) \o rest, {L!Pending(u)}, 0, 0)
      PROVE  Unlocking(L!After(trx), balance, u, rest)
  <2>1. /\ Head(Moves(u, v) \o rest) = L!Update(L!Pending(u), -v)
        /\ <<L!Update(L!Available(u), v)>> \o rest = Tail(Moves(u, v) \o rest)
    BY <1>0, ListSteps, StatementsAre DEF Runs, Moves
  <2>2. {L!Pending(u)} = {L!Pending(u)} \cup {L!Pending(u)} /\ -v = 0 + -v /\ -v \in Int
    OBVIOUS
  <2>3. Reached(L!After(trx), balance, <<L!Update(L!Available(u), v)>> \o rest, {L!Pending(u)}, -v, 0)
    BY <1>0, <1>2, <2>1, <2>2, Numbers, Updated, ZenonT(20)
  <2> QED BY <2>3 DEF Unlocking
<1>3. ASSUME NEW v \in Int,
             Reached(trx, balance, <<L!Update(L!Available(u), v)>> \o rest, {L!Pending(u)}, -v, 0)
      PROVE  Freed(L!After(trx), balance, u, rest)
  <2>1. /\ Head(<<L!Update(L!Available(u), v)>> \o rest) = L!Update(L!Available(u), v)
        /\ rest = Tail(<<L!Update(L!Available(u), v)>> \o rest)
    BY <1>0, ListSteps, StatementsAre DEF Runs
  <2>2. /\ {L!Pending(u), L!Available(u)} = {L!Pending(u)} \cup {L!Available(u)}
        /\ 0 = (-v) + v /\ -v \in Int /\ v \in Int
    OBVIOUS
  <2>3. Reached(L!After(trx), balance, rest, {L!Pending(u), L!Available(u)}, 0, 0)
    <3>1. PICK m \in Int : m = -v
      BY <2>2
    <3>2. Reached(trx, balance, <<L!Update(L!Available(u), v)>> \o rest, {L!Pending(u)}, m, 0)
      BY <1>3, <3>1
    <3>3. 0 = m + v
      BY <3>1
    <3> QED BY <1>0, <2>1, <2>2, <3>2, <3>3, Numbers, Updated, ZenonT(40)
  <2> QED BY <2>3 DEF Freed
<1> QED BY <1>1, <1>2, <1>3 DEF Unlocking

LEMMA AskingOn ==
  ASSUME NEW t, NEW trx, Runs(t, trx), NEW u \in L!UserIds, Asking(trx, balance, request, u)
  PROVE  Asking(L!After(trx), balance, request, u)
<1> DEFINE own  == {L!Pending(u), L!Available(u), L!Request(u)}
           rest == <<L!Select(L!Available(u), 1), L!Insert(u)>> \o HoldList(u)
<1>0. /\ L!Available(u) # L!Clearing /\ L!Available(u) \in L!LedgerAccounts /\ L!AccountLocksAssumption
      /\ L!Select(L!Available(u), 1) \in Statements /\ L!Insert(u) \in Statements
      /\ HoldList(u) \in Seq(Statements)
  BY RowFacts, StatementsAre, ListsAre DEF Runs
<1>1. /\ rest \in Seq(Statements) /\ Head(rest) = L!Select(L!Available(u), 1)
      /\ <<L!Insert(u)>> \o HoldList(u) = Tail(rest)
  <2>1. <<L!Select(L!Available(u), 1), L!Insert(u)>> \in Seq(Statements)
    BY <1>0
  <2> QED BY <1>0, <2>1, ListSteps, ConcatProperties
<1>2. CASE Unlocking(trx, balance, u, rest)
  <2>1. Unlocking(L!After(trx), balance, u, rest) \/ Freed(L!After(trx), balance, u, rest)
    <3> HIDE DEF rest
    <3> QED BY <1>1, <1>2, UnlockingOn
  <2> QED BY <2>1 DEF Asking
<1>3. CASE Freed(trx, balance, u, rest)
  <2>1. PICK locked \in {{L!Pending(u)}, {L!Pending(u), L!Available(u)}} :
          Reached(trx, balance, rest, locked, 0, 0)
    BY <1>3 DEF Freed
  <2>2. {L!Pending(u), L!Available(u)} = locked \cup {L!Available(u)}
    BY <2>1
  <2>3. Reached(L!After(trx), balance, <<L!Insert(u)>> \o HoldList(u), {L!Pending(u), L!Available(u)}, 0, 0)
    <3> HIDE DEF rest
    <3> QED BY <1>1, <2>1, <2>2, Numbers, Selected, Zenon
  <2> QED BY <2>3 DEF Asking
<1>4. CASE Reached(trx, balance, <<L!Insert(u)>> \o HoldList(u), {L!Pending(u), L!Available(u)}, 0, 0)
  <2>1. /\ Head(<<L!Insert(u)>> \o HoldList(u)) = L!Insert(u)
        /\ HoldList(u) = Tail(<<L!Insert(u)>> \o HoldList(u))
    BY <1>0, ListSteps
  <2>2. own = {L!Pending(u), L!Available(u)} \cup {L!Request(u)}
    OBVIOUS
  <2>3. Head(trx.todo) = L!Insert(u) /\ L!Insert(u).do = "insert" /\ L!Insert(u).n = u
    BY <1>4, <2>1 DEF Reached, L!Insert
  <2>4. request[u] = "none"
    BY <2>3 DEF Runs, L!Possible, L!Insertable
  <2>5. Reached(L!After(trx), balance, HoldList(u), own, 0, 0)
    <3> HIDE DEF own
    <3> QED BY <1>4, <2>1, <2>2, Numbers, Noted, Zenon
  <2> QED BY <2>4, <2>5 DEF Asking
<1>5. CASE request[u] = "none" /\ Reached(trx, balance, HoldList(u), own, 0, 0)
  <2>1. /\ Head(HoldList(u)) = L!Update(L!Clearing, 1)
        /\ <<L!Update(L!Available(u), -1)>> = Tail(HoldList(u))
    BY DEF HoldList
  <2>2. own \cup {L!Clearing} = own \cup {L!Clearing} /\ 1 = 0 + 1 /\ 0 + 1 = 1
    OBVIOUS
  <2>3. Reached(L!After(trx), balance, <<L!Update(L!Available(u), -1)>>, own \cup {L!Clearing}, 1, 0 + 1)
    <3> HIDE DEF own
    <3> QED BY <1>5, <2>1, <2>2, Numbers, Updated, ZenonT(20)
  <2>4. Reached(L!After(trx), balance, <<L!Update(L!Available(u), -1)>>, own \cup {L!Clearing}, 1, 1)
    BY <2>2, <2>3, Zenon
  <2> QED BY <1>5, <2>4 DEF Asking
<1>6. CASE /\ request[u] = "none"
           /\ Reached(trx, balance, <<L!Update(L!Available(u), -1)>>, own \cup {L!Clearing}, 1, 1)
  <2>1. /\ Head(<<L!Update(L!Available(u), -1)>>) = L!Update(L!Available(u), -1)
        /\ <<>> = Tail(<<L!Update(L!Available(u), -1)>>)
    OBVIOUS
  <2>2. own \cup {L!Clearing} = (own \cup {L!Clearing}) \cup {L!Available(u)} /\ 0 = 1 + -1
    OBVIOUS
  <2>3. Reached(L!After(trx), balance, <<>>, own \cup {L!Clearing}, 0, 1)
    <3> HIDE DEF own
    <3> QED BY <1>0, <1>6, <2>1, <2>2, Numbers, Updated, ZenonT(20)
  <2> QED BY <1>6, <2>3 DEF Asking
<1>7. CASE Reached(trx, balance, <<>>, own \cup {L!Clearing}, 0, 1)
  BY <1>7 DEF Reached, Runs
<1> QED BY <1>2, <1>3, <1>4, <1>5, <1>6, <1>7 DEF Asking

LEMMA EndingOn ==
  ASSUME NEW t, NEW trx, Runs(t, trx), NEW u \in L!UserIds, NEW a \in L!LedgerAccounts \ {L!Clearing},
         Ending(trx, balance, request, u, a)
  PROVE  Ending(L!After(trx), balance, request, u, a)
<1>0. L!LockRequest(u) \in Statements /\ SettleList(a) \in Seq(Statements)
  BY RowFacts, StatementsAre, ListsAre DEF Runs
<1>1. CASE Reached(trx, balance, <<L!LockRequest(u)>> \o SettleList(a), {}, 0, 0)
  <2>1. /\ Head(<<L!LockRequest(u)>> \o SettleList(a)) = L!LockRequest(u)
        /\ SettleList(a) = Tail(<<L!LockRequest(u)>> \o SettleList(a))
    BY <1>0, ListSteps
  <2>2. {L!Request(u)} = {} \cup {L!Request(u)}
    OBVIOUS
  <2>3. Head(trx.todo) = L!LockRequest(u) /\ L!LockRequest(u).do = "lock" /\ L!LockRequest(u).n = u
    BY <1>1, <2>1 DEF Reached, L!LockRequest
  <2>4. L!Settleable(trx, u)
    BY <2>3 DEF Runs, L!Possible
  <2>5. request[u] # "none"
    BY <2>4 DEF L!Settleable
  <2>6. Reached(L!After(trx), balance, SettleList(a), {L!Request(u)}, 0, 0)
    BY <1>1, <2>1, <2>2, Numbers, Noted, Zenon
  <2> QED BY <2>5, <2>6 DEF Ending
<1>2. CASE request[u] # "none" /\ Reached(trx, balance, SettleList(a), {L!Request(u)}, 0, 0)
  <2>1. /\ Head(SettleList(a)) = L!Update(L!Clearing, -1)
        /\ <<L!Update(a, 1)>> = Tail(SettleList(a))
    BY DEF SettleList
  <2>2. {L!Request(u), L!Clearing} = {L!Request(u)} \cup {L!Clearing} /\ -1 = 0 + -1 /\ 0 + -1 = -1
    OBVIOUS
  <2>3. Reached(L!After(trx), balance, <<L!Update(a, 1)>>, {L!Request(u), L!Clearing}, -1, 0 + -1)
    BY <1>2, <2>1, <2>2, Numbers, Updated, ZenonT(20)
  <2>4. Reached(L!After(trx), balance, <<L!Update(a, 1)>>, {L!Request(u), L!Clearing}, -1, -1)
    BY <2>2, <2>3, Zenon
  <2> QED BY <1>2, <2>4 DEF Ending
<1>3. CASE /\ request[u] # "none"
           /\ Reached(trx, balance, <<L!Update(a, 1)>>, {L!Request(u), L!Clearing}, -1, -1)
  <2>1. Head(<<L!Update(a, 1)>>) = L!Update(a, 1) /\ <<>> = Tail(<<L!Update(a, 1)>>)
    OBVIOUS
  <2>2. {L!Request(u), L!Clearing, a} = {L!Request(u), L!Clearing} \cup {a} /\ 0 = -1 + 1 /\ a # L!Clearing
    OBVIOUS
  <2>3. Reached(L!After(trx), balance, <<>>, {L!Request(u), L!Clearing, a}, 0, -1)
    BY <1>3, <2>1, <2>2, Numbers, Updated, ZenonT(20)
  <2> QED BY <1>3, <2>3 DEF Ending
<1>4. CASE Reached(trx, balance, <<>>, {L!Request(u), L!Clearing, a}, 0, -1)
  BY <1>4 DEF Reached, Runs
<1> QED BY <1>1, <1>2, <1>3, <1>4 DEF Ending

LEMMA UnlocksAre ==
  ASSUME L!AccountLocksAssumption, NEW rest \in Seq(Unlocks)
  PROVE  /\ rest \in Seq(Statements)
         /\ rest # <<>> => Tail(rest) \in Seq(Unlocks) /\ \E u \in L!UserIds : Head(rest) = L!Unlock(u)
<1>1. Unlocks \subseteq Statements
  BY StatementsAre DEF Unlocks
<1>2. rest \in [1 .. Len(rest) -> Unlocks] /\ Len(rest) \in Nat
  BY LenProperties
<1>3. rest \in [1 .. Len(rest) -> Statements]
  BY <1>1, <1>2
<1>4. rest \in Seq(Statements)
  BY <1>2, <1>3, SeqDef
<1>5. rest # <<>> => Tail(rest) \in Seq(Unlocks) /\ Head(rest) \in Unlocks
  BY HeadTailProperties
<1> QED BY <1>4, <1>5 DEF Unlocks

LEMMA BatchingOn ==
  ASSUME NEW t, NEW trx, Runs(t, trx), Batching(trx, balance)
  PROVE  Batching(L!After(trx), balance)
<1>0. L!AccountLocksAssumption
  BY DEF Runs
<1>1. PICK s : s = Head(trx.todo)
  OBVIOUS
<1>2. /\ DOMAIN L!After(trx).written = DOMAIN trx.written \cup {s.row}
      /\ TotalOf(Change(L!After(trx), balance))
           = TotalOf(Change(trx, balance)) + IF s.do = "update" THEN s.n ELSE 0
      /\ s.do # "unlock" => L!After(trx).todo = Tail(trx.todo)
  BY <1>1, Ran DEF Runs
<1>4. PICK rest \in Seq(Unlocks) :
        \/ trx.todo = rest /\ TotalOf(Change(trx, balance)) = 0
        \/ \E u \in L!UserIds, v \in Int :
             \/ trx.todo = Moves(u, v) \o rest /\ TotalOf(Change(trx, balance)) = 0
             \/ trx.todo = <<L!Update(L!Available(u), v)>> \o rest /\ TotalOf(Change(trx, balance)) = -v
  BY DEF Batching
<1>5. DOMAIN trx.written \subseteq UserAccounts
  BY DEF Batching
<1>6. CASE trx.todo = rest /\ TotalOf(Change(trx, balance)) = 0
  <2>1. PICK u \in L!UserIds : Head(rest) = L!Unlock(u)
    BY <1>0, <1>6, UnlocksAre DEF Runs
  <2>2. s.do = "unlock" /\ s.row = L!Pending(u) /\ s.n = u
    BY <1>1, <1>6, <2>1 DEF L!Unlock
  <2>3. TotalOf(Change(L!After(trx), balance)) = 0
    BY <1>2, <1>6, <2>2
  <2>4. DOMAIN L!After(trx).written \subseteq UserAccounts
    BY <1>2, <1>5, <2>2 DEF UserAccounts
  <2>5. Tail(rest) \in Seq(Unlocks)
    BY <1>0, <1>6, UnlocksAre DEF Runs
  <2>6. \/ L!After(trx).todo = Tail(rest)
        \/ \E v \in Int : L!After(trx).todo = Moves(u, v) \o Tail(rest)
    <3>1. \/ L!After(trx).todo = Tail(trx.todo)
          \/ \E v \in Int : L!After(trx).todo = Moves(s.n, v) \o Tail(trx.todo)
      BY <1>1, <2>2, Ran DEF Runs
    <3> QED BY <1>6, <2>2, <3>1
  <2> QED BY <2>3, <2>4, <2>5, <2>6 DEF Batching
<1>7. ASSUME NEW u \in L!UserIds, NEW v \in Int, trx.todo = Moves(u, v) \o rest,
             TotalOf(Change(trx, balance)) = 0
      PROVE  Batching(L!After(trx), balance)
  <2>1. /\ L!Update(L!Pending(u), -v) \in Statements /\ L!Update(L!Available(u), v) \in Statements
        /\ rest \in Seq(Statements)
    BY <1>0, RowFacts, StatementsAre, UnlocksAre
  <2>2. s = L!Update(L!Pending(u), -v) /\ Tail(trx.todo) = <<L!Update(L!Available(u), v)>> \o rest
    <3>1. /\ Head(Moves(u, v) \o rest) = L!Update(L!Pending(u), -v)
          /\ Tail(Moves(u, v) \o rest) = <<L!Update(L!Available(u), v)>> \o rest
      BY <2>1, ListSteps DEF Moves
    <3> QED BY <1>1, <1>7, <3>1
  <2>3. s.do = "update" /\ s.row = L!Pending(u) /\ s.n = -v
    BY <2>2 DEF L!Update
  <2>4. /\ TotalOf(Change(L!After(trx), balance)) = -v
        /\ L!After(trx).todo = <<L!Update(L!Available(u), v)>> \o rest
    <3>1. TotalOf(Change(L!After(trx), balance)) = 0 + s.n /\ 0 + -v = -v
      BY <1>2, <1>7, <2>3
    <3> QED BY <1>2, <2>2, <2>3, <3>1
  <2>5. DOMAIN L!After(trx).written \subseteq UserAccounts
    BY <1>2, <1>5, <2>3 DEF UserAccounts
  <2> QED BY <2>4, <2>5 DEF Batching
<1>8. ASSUME NEW u \in L!UserIds, NEW v \in Int, trx.todo = <<L!Update(L!Available(u), v)>> \o rest,
             TotalOf(Change(trx, balance)) = -v
      PROVE  Batching(L!After(trx), balance)
  <2>1. L!Update(L!Available(u), v) \in Statements /\ rest \in Seq(Statements)
    BY <1>0, RowFacts, StatementsAre, UnlocksAre
  <2>2. s = L!Update(L!Available(u), v) /\ Tail(trx.todo) = rest
    BY <1>1, <1>8, <2>1, ListSteps
  <2>3. s.do = "update" /\ s.row = L!Available(u) /\ s.n = v
    BY <2>2 DEF L!Update
  <2>4. TotalOf(Change(L!After(trx), balance)) = 0 /\ L!After(trx).todo = rest
    <3>1. TotalOf(Change(L!After(trx), balance)) = TotalOf(Change(trx, balance)) + s.n
      BY <1>2, <2>3
    <3>2. TotalOf(Change(trx, balance)) + s.n = (-v) + v /\ (-v) + v = 0
      BY <1>8, <2>3
    <3> QED BY <1>2, <2>2, <2>3, <3>1, <3>2
  <2>5. DOMAIN L!After(trx).written \subseteq UserAccounts
    BY <1>2, <1>5, <2>3 DEF UserAccounts
  <2> QED BY <2>4, <2>5 DEF Batching
<1> QED BY <1>4, <1>6, <1>7, <1>8

(* Every kind of transaction, one statement on.                            *)
LEMMA ShapeOn ==
  ASSUME NEW t, NEW trx, Runs(t, trx), Shape(trx, balance, request)
  PROVE  Shape(L!After(trx), balance, request)
<1>1. L!After(trx).kind = trx.kind /\ L!After(trx).status = trx.status /\ trx.todo # <<>>
  BY Ran DEF Runs
<1>2. trx # L!Closed /\ ~Exporting(trx, request)
  BY <1>1 DEF L!Closed, Exporting
<1>3. /\ L!Settled \in L!LedgerAccounts \ {L!Clearing} /\ <<>> \in Seq(Statements)
      /\ \A u \in L!UserIds : L!Available(u) \in L!LedgerAccounts \ {L!Clearing}
  BY RowFacts DEF Runs
<1>4. \A u \in L!UserIds : Unlocking(trx, balance, u, <<>>) =>
        Unlocking(L!After(trx), balance, u, <<>>) \/ Freed(L!After(trx), balance, u, <<>>)
  BY <1>3, UnlockingOn
<1>5. \A u \in L!UserIds : ~Freed(trx, balance, u, <<>>)
  BY <1>1 DEF Freed, Reached
<1> QED BY <1>1, <1>2, <1>3, <1>4, <1>5, FillingOn, RewardingOn, AskingOn, EndingOn, BatchingOn DEF Shape

-----------------------------------------------------------------------------
(* Part 4: how transactions begin.                                         *)
Untouched(trx) == DOMAIN trx.written \cap L!LedgerAccounts = {}

LEMMA UntouchedMeans ==
  ASSUME L!AccountLocksAssumption, balance \in Amounts, NEW trx \in Trx, Untouched(trx)
  PROVE  /\ TotalOf(Change(trx, balance)) = 0 /\ Change(trx, balance)[L!Clearing] = 0
         /\ Solid(trx)
<1>1. \A a \in L!LedgerAccounts : Change(trx, balance)[a] = 0
  BY DEF Untouched, Change
<1>2. Change(trx, balance) \in Amounts
  BY ChangeTyped
<1>3. Solid(trx)
  BY DEF Solid, Untouched
<1> QED BY <1>1, <1>2, <1>3, TotalNone, RowFacts

LEMMA ClosedTyped ==
  /\ L!Closed \in Trx /\ DOMAIN L!Closed.written = {} /\ L!Closed.todo = <<>>
  /\ L!Closed = [kind |-> "none", todo |-> <<>>, written |-> <<>>, status |-> "none"]
<1>1. DOMAIN <<>> = {} /\ <<>> \in [{} -> Int]
  OBVIOUS
<1>2. <<>> \in UNION {[locked -> Int] : locked \in SUBSET Rows}
  BY <1>1
<1>3. <<>> \in Seq(Statements)
  OBVIOUS
<1> QED BY <1>1, <1>2, <1>3 DEF L!Closed, Trx, Kinds

New(kind, todo, outcome) == [L!Closed EXCEPT !.kind = kind, !.todo = todo, !.status = outcome]

LEMMA Fresh ==
  ASSUME L!AccountLocksAssumption, balance \in Amounts, NEW kind \in Kinds,
         NEW todo \in Seq(Statements), NEW outcome \in {"none", "REQUESTED", "PROCESSING"},
         NEW trx, trx = New(kind, todo, outcome)
  PROVE  /\ trx \in Trx /\ Solid(trx) /\ trx.kind = kind /\ trx.todo = todo
         /\ trx.status = outcome /\ DOMAIN trx.written = {}
         /\ Reached(trx, balance, todo, {}, 0, 0)
<1>1. trx \in Trx
  BY ClosedTyped DEF Trx, New
<1>2. trx.kind = kind /\ trx.todo = todo /\ trx.status = outcome /\ trx.written = L!Closed.written
  BY ClosedTyped DEF Trx, New
<1>3. DOMAIN trx.written = {}
  BY <1>2, ClosedTyped
<1>4. /\ TotalOf(Change(trx, balance)) = 0 /\ Change(trx, balance)[L!Clearing] = 0
      /\ Solid(trx)
  BY <1>1, <1>3, UntouchedMeans DEF Untouched
<1> QED BY <1>1, <1>2, <1>3, <1>4 DEF Reached

(* What a transaction that begins does with its first statement.           *)
Opens(t, kind, todo, outcome) ==
  /\ open[t] = L!Closed
  /\ \E trx \in Trx :
       /\ Reached(trx, balance, todo, {}, 0, 0) /\ trx.kind = kind /\ trx.status = outcome
       /\ Runs(t, trx) /\ open' = [open EXCEPT ![t] = L!After(trx)]

LEMMA Begins ==
  ASSUME L!AccountLocksAssumption, balance \in Amounts, Covered(balance), NEW t,
         NEW kind \in Kinds, NEW todo \in Seq(Statements), todo # <<>>,
         NEW outcome \in {"none", "REQUESTED", "PROCESSING"}, L!Begin(t, kind, todo, outcome)
  PROVE  Opens(t, kind, todo, outcome) /\ UNCHANGED <<balance, request>>
<1>1. PICK trx : trx = New(kind, todo, outcome)
  OBVIOUS
<1>2. /\ trx \in Trx /\ Solid(trx) /\ trx.kind = kind /\ trx.todo = todo
      /\ trx.status = outcome /\ Reached(trx, balance, todo, {}, 0, 0)
  BY <1>1, Fresh
<1>3. /\ open[t] = L!Closed /\ L!Possible(t, trx) /\ open' = [open EXCEPT ![t] = L!After(trx)]
      /\ UNCHANGED <<balance, request>>
  BY <1>1 DEF L!Begin, New
<1> QED BY <1>2, <1>3 DEF Opens, Runs

(* Whoever runs a statement of a transaction with its shape.               *)
Runner(t) ==
  \E trx \in Trx :
    /\ Runs(t, trx) /\ Shape(trx, balance, request)
    /\ open' = [open EXCEPT ![t] = L!After(trx)] /\ UNCHANGED <<balance, request>>
    /\ \/ open[t] = L!Closed /\ DOMAIN trx.written = {}
       \/ open[t] = trx

LEMMA OpensRuns ==
  ASSUME NEW t, NEW kind, NEW todo, NEW outcome, Opens(t, kind, todo, outcome),
         UNCHANGED <<balance, request>>,
         \A trx \in Trx : Reached(trx, balance, todo, {}, 0, 0) /\ trx.kind = kind
                         /\ trx.status = outcome => Shape(trx, balance, request)
  PROVE  Runner(t)
<1>1. PICK trx \in Trx :
        /\ Reached(trx, balance, todo, {}, 0, 0) /\ trx.kind = kind /\ trx.status = outcome
        /\ Runs(t, trx) /\ open' = [open EXCEPT ![t] = L!After(trx)] /\ open[t] = L!Closed
  BY DEF Opens
<1>2. Shape(trx, balance, request) /\ DOMAIN trx.written = {}
  BY <1>1 DEF Reached
<1> QED BY <1>1, <1>2 DEF Runner

LEMMA BeginRuns ==
  ASSUME L!AccountLocksAssumption, balance \in Amounts, Covered(balance), NEW t,
         \/ L!campaign_fund(t)
         \/ \E u \in L!UserIds : L!credit(t, u) \/ L!summary(t, u) \/ L!create(t, u)
                               \/ L!mark_paid(t, u) \/ L!mark_failed(t, u)
  PROVE  Runner(t)
<1>1. CASE L!campaign_fund(t)
  <2>1. /\ L!Update(L!Company, -1) \in Statements /\ L!Update(L!Pool, 1) \in Statements
        /\ L!Company < L!Pool
    BY RowFacts, StatementsAre DEF L!Company, L!Pool
  <2>2. /\ L!transfer(L!Company, L!Pool, 1) = FundList /\ FundList \in Seq(Statements)
        /\ FundList # <<>>
    BY <2>1 DEF L!transfer, FundList
  <2>3. Opens(t, "fund", FundList, "none") /\ UNCHANGED <<balance, request>>
    BY <1>1, <2>2, Begins DEF L!campaign_fund, Kinds
  <2> QED BY <2>3, OpensRuns DEF Shape, Filling
<1>2. ASSUME NEW u \in L!UserIds, L!credit(t, u) PROVE Runner(t)
  <2>1. L!Select(L!Pool, 1) \in Statements /\ PayList(u) \in Seq(Statements)
    BY RowFacts, StatementsAre, ListsAre
  <2>2. /\ <<L!Select(L!Pool, 1)>> \o PayList(u) \in Seq(Statements)
        /\ <<L!Select(L!Pool, 1)>> \o PayList(u) # <<>>
    BY <2>1, ListSteps, ConcatProperties
  <2>3. /\ Opens(t, "reward", <<L!Select(L!Pool, 1)>> \o PayList(u), "none")
        /\ UNCHANGED <<balance, request>>
    BY <1>2, <2>2, Begins, ListsAre DEF L!credit, Kinds
  <2> QED BY <2>3, OpensRuns DEF Shape, Rewarding
<1>3. ASSUME NEW u \in L!UserIds, L!summary(t, u) PROVE Runner(t)
  <2>1. /\ <<L!Unlock(u)>> \in Seq(Statements) /\ <<L!Unlock(u)>> # <<>>
        /\ Head(<<L!Unlock(u)>>) = L!Unlock(u) /\ Tail(<<L!Unlock(u)>>) = <<>>
    BY StatementsAre
  <2>2. Opens(t, "wallet", <<L!Unlock(u)>>, "none") /\ UNCHANGED <<balance, request>>
    BY <1>3, <2>1, Begins DEF L!summary, Kinds
  <2>3. \A trx \in Trx : Reached(trx, balance, <<L!Unlock(u)>>, {}, 0, 0)
          => Unlocking(trx, balance, u, <<>>)
    BY <2>1 DEF Reached, Unlocking
  <2> QED BY <2>2, <2>3, OpensRuns DEF Shape
<1>4. ASSUME NEW u \in L!UserIds, L!create(t, u) PROVE Runner(t)
  <2> DEFINE rest == <<L!Select(L!Available(u), 1), L!Insert(u)>> \o HoldList(u)
             todo == <<L!Unlock(u), L!Select(L!Available(u), 1), L!Insert(u)>> \o HoldList(u)
  <2>1. /\ L!Unlock(u) \in Statements /\ L!Select(L!Available(u), 1) \in Statements
        /\ L!Insert(u) \in Statements /\ HoldList(u) \in Seq(Statements)
    BY RowFacts, StatementsAre, ListsAre
  <2>2. todo # <<>> /\ Head(todo) = L!Unlock(u) /\ Tail(todo) = rest
    BY <2>1, ListSteps
  <2>3. todo \in Seq(Statements)
    <3>1. <<L!Unlock(u), L!Select(L!Available(u), 1), L!Insert(u)>> \in Seq(Statements)
      BY <2>1
    <3> QED BY <2>1, <3>1, ConcatProperties
  <2>4. L!Begin(t, "create", todo, "REQUESTED")
    BY <1>4, ListsAre DEF L!create
  <2> HIDE DEF todo
  <2>5. Opens(t, "create", todo, "REQUESTED") /\ UNCHANGED <<balance, request>>
    BY <2>2, <2>3, <2>4, Begins DEF Kinds
  <2>6. \A trx \in Trx : Reached(trx, balance, todo, {}, 0, 0) => Unlocking(trx, balance, u, rest)
    <3> HIDE DEF rest
    <3> QED BY <2>2 DEF Reached, Unlocking
  <2> QED BY <2>5, <2>6, OpensRuns DEF Shape, Asking
<1>5. ASSUME NEW u \in L!UserIds, L!mark_paid(t, u) \/ L!mark_failed(t, u) PROVE Runner(t)
  <2>1. PICK a \in L!LedgerAccounts, kind \in {"paid", "failed"} :
          /\ kind = "paid" => a = L!Settled
          /\ kind = "failed" => a = L!Available(u)
          /\ L!Begin(t, kind, <<L!LockRequest(u)>> \o SettleList(a), "none")
    BY <1>5, RowFacts, ListsAre DEF L!mark_paid, L!mark_failed
  <2>2. L!LockRequest(u) \in Statements /\ SettleList(a) \in Seq(Statements)
    BY StatementsAre, ListsAre
  <2>3. /\ <<L!LockRequest(u)>> \o SettleList(a) \in Seq(Statements)
        /\ <<L!LockRequest(u)>> \o SettleList(a) # <<>>
    BY <2>2, ListSteps, ConcatProperties
  <2>4. /\ Opens(t, kind, <<L!LockRequest(u)>> \o SettleList(a), "none")
        /\ UNCHANGED <<balance, request>>
    BY <2>1, <2>3, Begins DEF Kinds
  <2>5. \A trx \in Trx : Reached(trx, balance, <<L!LockRequest(u)>> \o SettleList(a), {}, 0, 0)
          => Ending(trx, balance, request, u, a)
    BY DEF Ending
  <2> QED BY <2>1, <2>4, <2>5, OpensRuns DEF Shape
<1> QED BY <1>1, <1>2, <1>3, <1>4, <1>5

-----------------------------------------------------------------------------
(* Part 5: what an open transaction may want next, and what it has locked  *)
(* by then.                                                                *)
Wants(x, deeds, row, locked) ==
  Head(x.todo).do \in deeds /\ Head(x.todo).row = row /\ DOMAIN x.written = locked

WantsOwn(x) ==
  Head(x.todo).do \in {"select", "update", "unlock"} /\ Head(x.todo).row \in DOMAIN x.written

Position(x, req) ==
  \/ WantsOwn(x)
  \/ x.kind = "batch" /\ Head(x.todo).do \in {"unlock", "update"}
  \/ Wants(x, {"update"}, L!Company, {})
  \/ Wants(x, {"update"}, L!Pool, {L!Company})
  \/ Wants(x, {"select"}, L!Pool, {})
  \/ \E u \in L!UserIds :
       \/ Wants(x, {"update"}, L!Pending(u), {L!Pool})
       \/ Wants(x, {"unlock"}, L!Pending(u), {})
       \/ Wants(x, {"select", "update"}, L!Available(u), {L!Pending(u)})
       \/ Wants(x, {"insert"}, L!Request(u), {L!Pending(u), L!Available(u)}) /\ Head(x.todo).n = u
       \/ /\ Wants(x, {"update"}, L!Clearing, {L!Pending(u), L!Available(u), L!Request(u)})
          /\ req[u] = "none"
       \/ Wants(x, {"lock"}, L!Request(u), {}) /\ Head(x.todo).n = u
       \/ Wants(x, {"update"}, L!Clearing, {L!Request(u)}) /\ req[u] # "none"
       \/ Wants(x, {"update"}, L!Settled, {L!Request(u), L!Clearing})
       \/ Wants(x, {"update"}, L!Available(u), {L!Request(u), L!Clearing}) /\ req[u] # "none"

LEMMA UnlockingWants ==
  ASSUME L!AccountLocksAssumption, NEW x, NEW bal, NEW u \in L!UserIds, NEW rest \in Seq(Statements),
         Unlocking(x, bal, u, rest)
  PROVE  \/ WantsOwn(x) \/ Wants(x, {"unlock"}, L!Pending(u), {})
         \/ Wants(x, {"select", "update"}, L!Available(u), {L!Pending(u)})
<1>0. L!Pending(u) \in L!LedgerAccounts /\ L!Available(u) \in L!LedgerAccounts
  BY RowFacts
<1>1. CASE /\ x.todo # <<>> /\ Head(x.todo) = L!Unlock(u) /\ Tail(x.todo) = rest
           /\ Reached(x, bal, x.todo, {}, 0, 0)
  BY <1>1 DEF Reached, Wants, L!Unlock
<1>2. ASSUME NEW v \in Int, Reached(x, bal, Moves(u, v) \o rest, {L!Pending(u)}, 0, 0)
      PROVE  WantsOwn(x)
  <2>1. Head(Moves(u, v) \o rest) = L!Update(L!Pending(u), -v)
    BY <1>0, ListSteps, StatementsAre DEF Moves
  <2>2. x.todo = Moves(u, v) \o rest /\ DOMAIN x.written = {L!Pending(u)}
    BY <1>2 DEF Reached
  <2>3. L!Update(L!Pending(u), -v).do = "update" /\ L!Update(L!Pending(u), -v).row = L!Pending(u)
    BY DEF L!Update
  <2> QED BY <2>1, <2>2, <2>3 DEF WantsOwn
<1>3. ASSUME NEW v \in Int,
             Reached(x, bal, <<L!Update(L!Available(u), v)>> \o rest, {L!Pending(u)}, -v, 0)
      PROVE  Wants(x, {"select", "update"}, L!Available(u), {L!Pending(u)})
  <2>1. Head(<<L!Update(L!Available(u), v)>> \o rest) = L!Update(L!Available(u), v)
    BY <1>0, ListSteps, StatementsAre
  <2> QED BY <1>3, <2>1 DEF Reached, Wants, L!Update
<1> QED BY <1>1, <1>2, <1>3 DEF Unlocking

LEMMA Positions ==
  ASSUME L!AccountLocksAssumption, NEW x \in Trx, NEW bal, NEW req, Shape(x, bal, req), x.todo # <<>>
  PROVE  Position(x, req)
<1>1. x # L!Closed /\ ~Exporting(x, req) /\ \A u \in L!UserIds : ~Freed(x, bal, u, <<>>)
  BY DEF L!Closed, Exporting, Freed, Reached
<1>2. CASE Filling(x, bal)
  <2>1. /\ Head(FundList) = L!Update(L!Company, -1) /\ Head(<<L!Update(L!Pool, 1)>>) = L!Update(L!Pool, 1)
    BY DEF FundList
  <2> QED BY <1>2, <2>1 DEF Filling, Reached, Position, Wants, L!Update
<1>3. ASSUME NEW u \in L!UserIds, Rewarding(x, bal, u) PROVE Position(x, req)
  <2>1. /\ Head(PayList(u)) = L!Update(L!Pool, -1)
        /\ Head(<<L!Update(L!Pending(u), 1)>>) = L!Update(L!Pending(u), 1)
    BY DEF PayList
  <2>2. L!Select(L!Pool, 1) \in Statements /\ PayList(u) \in Seq(Statements)
    BY RowFacts, StatementsAre, ListsAre
  <2>3. Head(<<L!Select(L!Pool, 1)>> \o PayList(u)) = L!Select(L!Pool, 1)
    BY <2>2, ListSteps
  <2> QED BY <1>3, <2>1, <2>3 DEF Rewarding, Reached, Position, Wants, WantsOwn, L!Update, L!Select
<1>4. ASSUME NEW u \in L!UserIds, NEW rest \in Seq(Statements), Unlocking(x, bal, u, rest)
      PROVE  Position(x, req)
  <2>1. \/ WantsOwn(x) \/ Wants(x, {"unlock"}, L!Pending(u), {})
        \/ Wants(x, {"select", "update"}, L!Available(u), {L!Pending(u)})
    BY <1>4, UnlockingWants
  <2> QED BY <2>1 DEF Position
<1>5. ASSUME NEW u \in L!UserIds, Asking(x, bal, req, u) PROVE Position(x, req)
  <2> DEFINE rest == <<L!Select(L!Available(u), 1), L!Insert(u)>> \o HoldList(u)
             own  == {L!Pending(u), L!Available(u), L!Request(u)}
  <2>1. /\ L!Select(L!Available(u), 1) \in Statements
        /\ L!Insert(u) \in Statements /\ HoldList(u) \in Seq(Statements)
    BY RowFacts, StatementsAre, ListsAre
  <2>2. rest \in Seq(Statements) /\ Head(rest) = L!Select(L!Available(u), 1)
    <3>1. <<L!Select(L!Available(u), 1), L!Insert(u)>> \in Seq(Statements)
      BY <2>1
    <3> QED BY <2>1, <3>1, ListSteps, ConcatProperties
  <2>3. /\ Head(<<L!Insert(u)>> \o HoldList(u)) = L!Insert(u)
        /\ Head(HoldList(u)) = L!Update(L!Clearing, 1)
        /\ Head(<<L!Update(L!Available(u), -1)>>) = L!Update(L!Available(u), -1)
    BY <2>1, ListSteps DEF HoldList
  <2> HIDE DEF rest
  <2>4. CASE Unlocking(x, bal, u, rest)
    BY <1>4, <2>2, <2>4
  <2>5. CASE Freed(x, bal, u, rest)
    BY <2>2, <2>5 DEF Freed, Reached, Position, Wants, WantsOwn, L!Select
  <2>6. CASE Reached(x, bal, <<L!Insert(u)>> \o HoldList(u), {L!Pending(u), L!Available(u)}, 0, 0)
    BY <2>3, <2>6 DEF Reached, Position, Wants, L!Insert
  <2>7. CASE req[u] = "none" /\ Reached(x, bal, HoldList(u), own, 0, 0)
    BY <2>3, <2>7 DEF Reached, Position, Wants, L!Update
  <2>8. CASE Reached(x, bal, <<L!Update(L!Available(u), -1)>>, own \cup {L!Clearing}, 1, 1)
    BY <2>3, <2>8 DEF Reached, Position, WantsOwn, L!Update
  <2>9. CASE Reached(x, bal, <<>>, own \cup {L!Clearing}, 0, 1)
    BY <2>9 DEF Reached
  <2> QED BY <1>5, <2>4, <2>5, <2>6, <2>7, <2>8, <2>9 DEF Asking, rest
<1>6. ASSUME NEW u \in L!UserIds, NEW a \in {L!Settled, L!Available(u)}, Ending(x, bal, req, u, a)
      PROVE  Position(x, req)
  <2>1. L!LockRequest(u) \in Statements /\ SettleList(a) \in Seq(Statements)
    BY RowFacts, StatementsAre, ListsAre
  <2>2. /\ Head(<<L!LockRequest(u)>> \o SettleList(a)) = L!LockRequest(u)
        /\ Head(SettleList(a)) = L!Update(L!Clearing, -1)
        /\ Head(<<L!Update(a, 1)>>) = L!Update(a, 1)
    BY <2>1, ListSteps DEF SettleList
  <2> QED BY <1>6, <2>2 DEF Ending, Reached, Position, Wants, L!Update, L!LockRequest
<1>7. ASSUME x.kind = "batch", Batching(x, bal) PROVE Position(x, req)
  <2>1. PICK rest \in Seq(Unlocks) :
          \/ x.todo = rest
          \/ \E u \in L!UserIds, v \in Int :
               \/ x.todo = Moves(u, v) \o rest
               \/ x.todo = <<L!Update(L!Available(u), v)>> \o rest
    BY <1>7 DEF Batching
  <2>2. CASE x.todo = rest
    <3>1. PICK u \in L!UserIds : Head(x.todo) = L!Unlock(u)
      BY <2>2, UnlocksAre
    <3> QED BY <1>7, <3>1 DEF Position, L!Unlock
  <2>3. ASSUME NEW u \in L!UserIds, NEW v \in Int,
               \/ x.todo = Moves(u, v) \o rest
               \/ x.todo = <<L!Update(L!Available(u), v)>> \o rest
        PROVE  Position(x, req)
    <3>1. /\ L!Update(L!Pending(u), -v) \in Statements /\ L!Update(L!Available(u), v) \in Statements
          /\ rest \in Seq(Statements)
      BY RowFacts, StatementsAre, UnlocksAre
    <3>2. /\ Head(Moves(u, v) \o rest) = L!Update(L!Pending(u), -v)
          /\ Head(<<L!Update(L!Available(u), v)>> \o rest) = L!Update(L!Available(u), v)
      BY <3>1, ListSteps DEF Moves
    <3>3. Head(x.todo).do = "update"
      BY <2>3, <3>2 DEF L!Update
    <3> QED BY <1>7, <3>3 DEF Position
  <2> QED BY <2>1, <2>2, <2>3
<1>8. <<>> \in Seq(Statements)
  OBVIOUS
<1> QED BY <1>1, <1>2, <1>3, <1>4, <1>5, <1>6, <1>7, <1>8 DEF Shape

-----------------------------------------------------------------------------
(* Part 6: the invariant.  Nobody has a row that another has locked, so    *)
(* what a transaction has read stays as it is until it commits.            *)
Exclusive ==
  \A s, t \in Connections : s # t => DOMAIN open[s].written \cap DOMAIN open[t].written = {}

ActiveRequests == {u \in L!UserIds : request[u] # "none"}

Steady ==
  /\ balance \in Amounts /\ Covered(balance)
  /\ request \in [L!UserIds -> {"none", "REQUESTED", "PROCESSING"}]
  /\ open \in [Connections -> Trx]
  /\ \A t \in Connections : Solid(open[t]) /\ Shape(open[t], balance, request)
  /\ Exclusive

Held ==
  /\ Steady
  /\ TotalOf(balance) = 0
  /\ balance[L!Clearing] = Cardinality(ActiveRequests)

(* Inserting a request locks no row that another has: who ends the active  *)
(* one finds one, and who makes one has the available account.             *)
LEMMA NobodyHas ==
  ASSUME L!AccountLocksAssumption, Steady, NEW t \in Connections, NEW trx, Runs(t, trx),
         Shape(trx, balance, request), DOMAIN trx.written = {} \/ trx = open[t],
         NEW s \in Connections \ {t}
  PROVE  Head(trx.todo).row \notin DOMAIN open[s].written
<1>1. Head(trx.todo).do \in {"select", "update", "unlock", "lock"} => L!Free(t, Head(trx.todo).row)
  BY DEF Runs, L!Possible
<1>2. L!Free(t, Head(trx.todo).row) => Head(trx.todo).row \notin DOMAIN open[s].written
  BY DEF L!Free, L!LockedBy
<1>3. trx \in Trx /\ trx.todo # <<>> /\ Position(trx, request)
  BY Positions DEF Runs
<1>4. CASE Head(trx.todo).do # "insert"
  <2>1. Head(trx.todo).do \in {"select", "update", "unlock", "lock"}
    BY <1>3, <1>4 DEF Position, Wants, WantsOwn
  <2> QED BY <1>1, <1>2, <2>1
<1>5. CASE Head(trx.todo).do = "insert"
  <2>1. PICK u \in L!UserIds :
          /\ Head(trx.todo).row = L!Request(u) /\ Head(trx.todo).n = u
          /\ DOMAIN trx.written = {L!Pending(u), L!Available(u)}
    BY <1>3, <1>5 DEF Position, Wants, WantsOwn
  <2>2. request[u] = "none" /\ ~L!Settling(s, u)
    BY <1>5, <2>1 DEF Runs, L!Possible, L!Insertable
  <2>3. trx = open[t] /\ L!Available(u) \notin DOMAIN open[s].written
    BY <2>1 DEF Steady, Exclusive
  <2> SUFFICES ASSUME L!Request(u) \in DOMAIN open[s].written PROVE FALSE
    BY <2>1
  <2>4. Shape(open[s], balance, request)
    BY DEF Steady
  <2> DEFINE x == open[s]
  <2>5. ~(x.kind = "create" /\ \E v \in L!UserIds : Asking(x, balance, request, v))
    <3> SUFFICES ASSUME NEW v \in L!UserIds, Asking(x, balance, request, v) PROVE FALSE
      OBVIOUS
    <3>1. DOMAIN x.written \subseteq {L!Pending(v), L!Available(v), L!Request(v), L!Clearing}
      BY DEF Asking, Unlocking, Freed, Reached
    <3>2. v = u
      BY <3>1, RowFacts
    <3>3. L!Request(v) \in DOMAIN x.written => L!Available(v) \in DOMAIN x.written
      <4>1. L!Request(v) # L!Pending(v) /\ L!Request(v) # L!Available(v)
        BY RowFacts
      <4> QED BY <4>1 DEF Asking, Unlocking, Freed, Reached
    <3> QED BY <2>3, <3>2, <3>3
  <2>6. \A v \in L!UserIds : \A a \in {L!Settled, L!Available(v)} : ~Ending(x, balance, request, v, a)
    <3> SUFFICES ASSUME NEW v \in L!UserIds, NEW a \in {L!Settled, L!Available(v)},
                        Ending(x, balance, request, v, a)
                 PROVE  FALSE
      OBVIOUS
    <3>1. DOMAIN x.written \subseteq {L!Request(v), L!Clearing, a}
      BY DEF Ending, Reached
    <3>2. v = u
      BY <3>1, RowFacts
    <3>3. request[v] # "none"
      BY <3>2 DEF Ending, Reached
    <3> QED BY <2>2, <3>2, <3>3
  <2>7. ~Exporting(x, request)
    BY <2>2 DEF Exporting
  <2>8. \A v \in L!UserIds : L!Request(u) \notin {L!Pending(v), L!Available(v), L!Pool, L!Company, L!Clearing}
    BY RowFacts
  <2>9. ~Filling(x, balance) /\ \A v \in L!UserIds : ~Rewarding(x, balance, v)
    BY <2>8 DEF Filling, Rewarding, Reached
  <2>10. \A v \in L!UserIds : ~Unlocking(x, balance, v, <<>>) /\ ~Freed(x, balance, v, <<>>)
    BY <2>8 DEF Unlocking, Freed, Reached
  <2>11. ~Batching(x, balance)
    BY <2>8 DEF Batching, UserAccounts
  <2>12. x # L!Closed
    BY ClosedTyped
  <2> QED BY <2>4, <2>5, <2>6, <2>7, <2>9, <2>10, <2>11, <2>12 DEF Shape
<1> QED BY <1>4, <1>5

LEMMA RunnerKeeps ==
  ASSUME L!AccountLocksAssumption, Steady, NEW t \in Connections, Runner(t)
  PROVE  Steady' /\ UNCHANGED <<balance, request>>
<1>1. PICK trx \in Trx :
        /\ Runs(t, trx) /\ Shape(trx, balance, request)
        /\ open' = [open EXCEPT ![t] = L!After(trx)] /\ UNCHANGED <<balance, request>>
        /\ DOMAIN trx.written = {} \/ trx = open[t]
  BY DEF Runner
<1>2. /\ L!After(trx) \in Trx /\ Solid(L!After(trx))
      /\ DOMAIN L!After(trx).written = DOMAIN trx.written \cup {Head(trx.todo).row}
  BY <1>1, Ran DEF Runs
<1>3. Shape(L!After(trx), balance, request)
  BY <1>1, ShapeOn
<1>4. /\ open' \in [Connections -> Trx] /\ open'[t] = L!After(trx)
      /\ \A s \in Connections \ {t} : open'[s] = open[s]
  BY <1>1, <1>2 DEF Steady
<1>5. \A s \in Connections : Solid(open'[s]) /\ Shape(open'[s], balance', request')
  BY <1>1, <1>2, <1>3, <1>4 DEF Steady
<1>6. \A s \in Connections \ {t} : DOMAIN open'[t].written \cap DOMAIN open[s].written = {}
  <2> SUFFICES ASSUME NEW s \in Connections \ {t}
               PROVE  DOMAIN open'[t].written \cap DOMAIN open[s].written = {}
    OBVIOUS
  <2>1. Head(trx.todo).row \notin DOMAIN open[s].written
    BY <1>1, NobodyHas
  <2>2. DOMAIN trx.written \cap DOMAIN open[s].written = {}
    BY <1>1 DEF Steady, Exclusive
  <2> QED BY <1>2, <1>4, <2>1, <2>2
<1>7. Exclusive'
  BY <1>4, <1>6 DEF Steady, Exclusive
<1> QED BY <1>1, <1>4, <1>5, <1>7 DEF Steady

(* A transaction whose rows nobody changes keeps its shape.                *)
LEMMA SameShape ==
  ASSUME NEW x \in Trx, NEW bal, NEW new, NEW req, NEW ask, Shape(x, bal, req),
         \A a \in L!LedgerAccounts : a \in DOMAIN x.written => new[a] = bal[a],
         \A u \in L!UserIds : L!Request(u) \in DOMAIN x.written => ask[u] = req[u]
  PROVE  Shape(x, new, ask)
<1>1. Change(x, new) = Change(x, bal)
  BY DEF Change
<1>2. \A todo, locked, made, cleared : Reached(x, bal, todo, locked, made, cleared)
        => Reached(x, new, todo, locked, made, cleared) /\ DOMAIN x.written = locked
  BY <1>1 DEF Reached
<1>3. Filling(x, bal) => Filling(x, new)
  BY <1>2 DEF Filling
<1>4. \A u \in L!UserIds : Rewarding(x, bal, u) => Rewarding(x, new, u)
  BY <1>2 DEF Rewarding
<1>5. \A u \in L!UserIds : \A rest : /\ Unlocking(x, bal, u, rest) => Unlocking(x, new, u, rest)
                                     /\ Freed(x, bal, u, rest) => Freed(x, new, u, rest)
  BY <1>2 DEF Unlocking, Freed
<1>6. \A u \in L!UserIds : Asking(x, bal, req, u) => Asking(x, new, ask, u)
  <2> SUFFICES ASSUME NEW u \in L!UserIds, Asking(x, bal, req, u) PROVE Asking(x, new, ask, u)
    OBVIOUS
  <2> DEFINE own == {L!Pending(u), L!Available(u), L!Request(u)}
  <2>1. req[u] = "none" /\ L!Request(u) \in DOMAIN x.written => ask[u] = "none"
    OBVIOUS
  <2>2. CASE /\ req[u] = "none"
             /\ \/ Reached(x, bal, HoldList(u), own, 0, 0)
                \/ Reached(x, bal, <<L!Update(L!Available(u), -1)>>, own \cup {L!Clearing}, 1, 1)
                \/ Reached(x, bal, <<>>, own \cup {L!Clearing}, 0, 1)
    <3>1. DOMAIN x.written = own \/ DOMAIN x.written = own \cup {L!Clearing}
      BY <2>2, <1>2
    <3>2. ask[u] = "none"
      BY <2>1, <2>2, <3>1
    <3> HIDE DEF own
    <3>3. \/ Reached(x, new, HoldList(u), own, 0, 0)
          \/ Reached(x, new, <<L!Update(L!Available(u), -1)>>, own \cup {L!Clearing}, 1, 1)
          \/ Reached(x, new, <<>>, own \cup {L!Clearing}, 0, 1)
      BY <1>2, <2>2
    <3> QED BY <3>2, <3>3 DEF Asking, own
  <2> DEFINE rest == <<L!Select(L!Available(u), 1), L!Insert(u)>> \o HoldList(u)
  <2> HIDE DEF own, rest
  <2>3. CASE Unlocking(x, bal, u, rest) \/ Freed(x, bal, u, rest)
    <3>1. Unlocking(x, new, u, rest) \/ Freed(x, new, u, rest)
      BY <1>5, <2>3
    <3> QED BY <3>1 DEF Asking, rest
  <2>4. CASE Reached(x, bal, <<L!Insert(u)>> \o HoldList(u), {L!Pending(u), L!Available(u)}, 0, 0)
    <3>1. Reached(x, new, <<L!Insert(u)>> \o HoldList(u), {L!Pending(u), L!Available(u)}, 0, 0)
      BY <1>2, <2>4
    <3> QED BY <3>1 DEF Asking
  <2> QED BY <2>2, <2>3, <2>4 DEF Asking, own, rest
<1>7. \A u \in L!UserIds :
        /\ Ending(x, bal, req, u, L!Settled) => Ending(x, new, ask, u, L!Settled)
        /\ Ending(x, bal, req, u, L!Available(u)) => Ending(x, new, ask, u, L!Available(u))
  BY <1>2 DEF Ending
<1>8. Batching(x, bal) => Batching(x, new)
  BY <1>1 DEF Batching
<1>9. Exporting(x, req) => Exporting(x, ask)
  BY DEF Exporting
<1>10. \A u \in L!UserIds : Unlocking(x, bal, u, <<>>) \/ Freed(x, bal, u, <<>>)
         => Unlocking(x, new, u, <<>>) \/ Freed(x, new, u, <<>>)
  BY <1>5
<1>11. CASE x = L!Closed
  BY <1>11 DEF Shape
<1>12. CASE x.kind = "fund" /\ x.status = "none" /\ Filling(x, bal)
  BY <1>3, <1>12 DEF Shape
<1>13. CASE x.kind = "reward" /\ x.status = "none" /\ \E u \in L!UserIds : Rewarding(x, bal, u)
  BY <1>4, <1>13 DEF Shape
<1>14. CASE x.kind = "wallet" /\ x.status = "none"
              /\ \E u \in L!UserIds : Unlocking(x, bal, u, <<>>) \/ Freed(x, bal, u, <<>>)
  BY <1>10, <1>14 DEF Shape
<1>15. CASE x.kind = "create" /\ x.status = "REQUESTED" /\ \E u \in L!UserIds : Asking(x, bal, req, u)
  BY <1>6, <1>15 DEF Shape
<1>16. CASE x.kind = "paid" /\ x.status = "none" /\ \E u \in L!UserIds : Ending(x, bal, req, u, L!Settled)
  <2>1. PICK u \in L!UserIds : Ending(x, bal, req, u, L!Settled)
    BY <1>16
  <2>2. Ending(x, new, ask, u, L!Settled)
    BY <1>7, <2>1
  <2> QED BY <1>16, <2>2 DEF Shape
<1>17. CASE x.kind = "failed" /\ x.status = "none"
              /\ \E u \in L!UserIds : Ending(x, bal, req, u, L!Available(u))
  <2>1. PICK u \in L!UserIds : Ending(x, bal, req, u, L!Available(u))
    BY <1>17
  <2>2. Ending(x, new, ask, u, L!Available(u))
    BY <1>7, <2>1
  <2> QED BY <1>17, <2>2 DEF Shape
<1>18. CASE x.kind = "batch" /\ x.status = "none" /\ Batching(x, bal)
  BY <1>8, <1>18 DEF Shape
<1>19. CASE x.kind = "export" /\ x.status = "PROCESSING" /\ Exporting(x, req)
  BY <1>9, <1>19 DEF Shape
<1> QED BY <1>11, <1>12, <1>13, <1>14, <1>15, <1>16, <1>17, <1>18, <1>19 DEF Shape

(* What a transaction that has come to its end does to the active ones.    *)
Ends(x, by, outcome, users) ==
  /\ TotalOf(Change(x, balance)) = 0 /\ Change(x, balance)[L!Clearing] = by
  /\ x.status = outcome /\ \A v \in L!UserIds : L!Request(v) \in DOMAIN x.written <=> v \in users

LEMMA EndsSo ==
  ASSUME L!AccountLocksAssumption, balance \in Amounts, NEW x \in Trx, x # L!Closed, x.todo = <<>>,
         Shape(x, balance, request)
  PROVE  \/ Ends(x, 0, "none", {})
         \/ \E users \in SUBSET L!UserIds : /\ \A u \in users : request[u] = "REQUESTED"
                                            /\ Ends(x, 0, "PROCESSING", users)
         \/ \E u \in L!UserIds : request[u] = "none" /\ Ends(x, 1, "REQUESTED", {u})
         \/ \E u \in L!UserIds : request[u] # "none" /\ Ends(x, -1, "none", {u})
<1>0. /\ \A u, v \in L!UserIds :
           L!Request(u) \notin {L!Pending(v), L!Available(v), L!Pool, L!Company, L!Clearing, L!Settled}
      /\ \A u, v \in L!UserIds : u # v => L!Request(u) # L!Request(v)
      /\ \A v \in L!UserIds : L!Clearing \notin {L!Pending(v), L!Available(v)}
      /\ \A v \in L!UserIds : L!Clearing # L!Request(v)
  BY RowFacts
<1>1. CASE x.status = "none" /\ Filling(x, balance)
  BY <1>0, <1>1 DEF Filling, Reached, Ends, FundList
<1>2. ASSUME x.status = "none", NEW u \in L!UserIds, Rewarding(x, balance, u)
      PROVE  Ends(x, 0, "none", {})
  <2>1. PayList(u) # <<>> /\ <<L!Select(L!Pool, 1)>> \o PayList(u) # <<>>
    <3>1. L!Select(L!Pool, 1) \in Statements /\ PayList(u) \in Seq(Statements)
      BY RowFacts, StatementsAre, ListsAre
    <3> QED BY <3>1, ListSteps DEF PayList
  <2> QED BY <1>0, <1>2, <2>1 DEF Rewarding, Reached, Ends
<1>3. ASSUME NEW u \in L!UserIds, NEW rest \in Seq(Statements), Unlocking(x, balance, u, rest)
      PROVE  FALSE
  <2>1. \A v \in Int : /\ Moves(u, v) \o rest # <<>>
                       /\ <<L!Update(L!Available(u), v)>> \o rest # <<>>
    <3> TAKE v \in Int
    <3>1. L!Update(L!Pending(u), -v) \in Statements /\ L!Update(L!Available(u), v) \in Statements
      BY RowFacts, StatementsAre
    <3> QED BY <3>1, ListSteps DEF Moves
  <2> QED BY <1>3, <2>1 DEF Unlocking, Reached
<1>4. ASSUME x.status = "none", NEW u \in L!UserIds, Freed(x, balance, u, <<>>)
      PROVE  Ends(x, 0, "none", {})
  BY <1>0, <1>4 DEF Freed, Reached, Ends
<1>5. ASSUME x.status = "REQUESTED", NEW u \in L!UserIds, Asking(x, balance, request, u)
      PROVE  request[u] = "none" /\ Ends(x, 1, "REQUESTED", {u})
  <2> DEFINE rest == <<L!Select(L!Available(u), 1), L!Insert(u)>> \o HoldList(u)
  <2>1. /\ L!Select(L!Available(u), 1) \in Statements
        /\ L!Insert(u) \in Statements /\ HoldList(u) \in Seq(Statements)
    BY RowFacts, StatementsAre, ListsAre
  <2>2. /\ rest \in Seq(Statements) /\ rest # <<>> /\ <<L!Insert(u)>> \o HoldList(u) # <<>>
        /\ HoldList(u) # <<>>
    <3>1. <<L!Select(L!Available(u), 1), L!Insert(u)>> \in Seq(Statements)
      BY <2>1
    <3> QED BY <2>1, <3>1, ListSteps, ConcatProperties DEF HoldList
  <2> HIDE DEF rest
  <2>3. ~Unlocking(x, balance, u, rest) /\ ~Freed(x, balance, u, rest)
    BY <1>3, <2>2 DEF Freed, Reached
  <2>4. /\ request[u] = "none"
        /\ Reached(x, balance, <<>>, {L!Pending(u), L!Available(u), L!Request(u)} \cup {L!Clearing}, 0, 1)
    BY <1>5, <2>2, <2>3 DEF Asking, Reached, rest
  <2> QED BY <1>0, <1>5, <2>4 DEF Reached, Ends
<1>6. ASSUME x.status = "none", NEW u \in L!UserIds, NEW a \in {L!Settled, L!Available(u)},
             Ending(x, balance, request, u, a)
      PROVE  request[u] # "none" /\ Ends(x, -1, "none", {u})
  <2>1. L!LockRequest(u) \in Statements /\ SettleList(a) \in Seq(Statements)
    BY RowFacts, StatementsAre, ListsAre
  <2>2. <<L!LockRequest(u)>> \o SettleList(a) # <<>> /\ SettleList(a) # <<>>
    BY <2>1, ListSteps DEF SettleList
  <2> QED BY <1>0, <1>6, <2>2 DEF Ending, Reached, Ends
<1>7. ASSUME x.status = "none", Batching(x, balance) PROVE Ends(x, 0, "none", {})
  <2>1. \A u \in L!UserIds : L!Request(u) \notin DOMAIN x.written
    BY <1>0, <1>7 DEF Batching, UserAccounts
  <2>2. L!Clearing \notin DOMAIN x.written
    BY <1>0, <1>7 DEF Batching, UserAccounts
  <2>3. Change(x, balance)[L!Clearing] = 0
    BY <2>2, RowFacts DEF Change
  <2>4. \A rest \in Seq(Unlocks), u \in L!UserIds, v \in Int :
          Moves(u, v) \o rest # <<>> /\ <<L!Update(L!Available(u), v)>> \o rest # <<>>
    <3> TAKE rest \in Seq(Unlocks), u \in L!UserIds, v \in Int
    <3>1. /\ L!Update(L!Pending(u), -v) \in Statements /\ L!Update(L!Available(u), v) \in Statements
          /\ rest \in Seq(Statements)
      BY RowFacts, StatementsAre, UnlocksAre
    <3> QED BY <3>1, ListSteps DEF Moves
  <2>5. TotalOf(Change(x, balance)) = 0
    BY <1>7, <2>4 DEF Batching
  <2> QED BY <1>7, <2>1, <2>3, <2>5 DEF Ends
<1>8. ASSUME x.status = "PROCESSING", Exporting(x, request)
      PROVE  \E users \in SUBSET L!UserIds : /\ \A u \in users : request[u] = "REQUESTED"
                                            /\ Ends(x, 0, "PROCESSING", users)
  <2> DEFINE users == {u \in L!UserIds : L!Request(u) \in DOMAIN x.written}
  <2>1. \A a \in L!LedgerAccounts : a \notin DOMAIN x.written
    BY <1>8, RowFacts DEF Exporting
  <2>2. TotalOf(Change(x, balance)) = 0 /\ Change(x, balance)[L!Clearing] = 0
    BY <2>1, UntouchedMeans DEF Untouched
  <2>3. Ends(x, 0, "PROCESSING", users)
    BY <1>8, <2>2 DEF Ends
  <2> QED BY <1>8, <2>3 DEF Exporting
<1>9. <<>> \in Seq(Statements)
  OBVIOUS
<1> QED BY <1>1, <1>2, <1>3, <1>4, <1>5, <1>6, <1>7, <1>8, <1>9 DEF Shape

-----------------------------------------------------------------------------
(* Part 7: every step keeps the invariant.                                 *)

(* A transaction takes the place of another, or of none.                   *)
LEMMA Joined ==
  ASSUME Steady, NEW t \in Connections, NEW x \in Trx, Solid(x), Shape(x, balance, request),
         open' = [open EXCEPT ![t] = x], UNCHANGED <<balance, request>>,
         \A s \in Connections \ {t} : DOMAIN x.written \cap DOMAIN open[s].written = {}
  PROVE  Steady'
<1>1. /\ open' \in [Connections -> Trx] /\ open'[t] = x
      /\ \A s \in Connections \ {t} : open'[s] = open[s]
  BY DEF Steady
<1>2. \A s \in Connections : Solid(open'[s]) /\ Shape(open'[s], balance', request')
  BY <1>1 DEF Steady
<1>3. Exclusive'
  BY <1>1 DEF Steady, Exclusive
<1> QED BY <1>1, <1>2, <1>3 DEF Steady

LEMMA UsersFinite ==
  ASSUME L!AccountLocksAssumption, NEW S \in SUBSET L!UserIds
  PROVE  IsFiniteSet(S) /\ Cardinality(S) \in Nat
<1>1. IsFiniteSet(L!UserIds)
  BY FS_Interval DEF L!UserIds, L!AccountLocksAssumption
<1>2. IsFiniteSet(S)
  BY <1>1, FS_Subset
<1> QED BY <1>2, FS_CardinalityType

LEMMA RollbackKeeps ==
  ASSUME L!AccountLocksAssumption, Steady, NEW t \in Connections, L!Rollback(t)
  PROVE  Steady' /\ UNCHANGED <<balance, request>>
<1>1. Solid(L!Closed) /\ Shape(L!Closed, balance, request)
  BY ClosedTyped DEF Solid, Shape
<1> QED BY <1>1, ClosedTyped, Joined DEF L!Rollback

LEMMA UnlockBatchKeeps ==
  ASSUME L!AccountLocksAssumption, Steady, NEW t \in Connections, L!unlock_batch(t)
  PROVE  Steady' /\ UNCHANGED <<balance, request>>
<1>1. PICK due \in [1 .. Cardinality(L!Due) -> L!Due] :
        /\ open' = [open EXCEPT ![t] =
             [L!Closed EXCEPT !.kind = "batch", !.todo = [i \in DOMAIN due |-> L!Unlock(due[i])]]]
        /\ UNCHANGED <<balance, request>>
  <2>1. L!Cardinality(L!Due) = Cardinality(L!Due)
    BY SameCardinality
  <2> QED BY <2>1 DEF L!unlock_batch
<1> DEFINE list == [i \in DOMAIN due |-> L!Unlock(due[i])]
           x == [L!Closed EXCEPT !.kind = "batch", !.todo = list]
<1>2. Cardinality(L!Due) \in Nat
  BY UsersFinite DEF L!Due
<1>3. list \in [1 .. Cardinality(L!Due) -> Unlocks]
  BY <1>1 DEF Unlocks, L!Due
<1>4. list \in Seq(Unlocks)
  <2> HIDE DEF list
  <2> QED BY <1>2, <1>3, SeqDef
<1> HIDE DEF list
<1>5. list \in Seq(Statements)
  BY <1>4, UnlocksAre
<1>6. x \in Trx
  BY <1>5, ClosedTyped DEF Trx, Kinds
<1>7. /\ x.kind = "batch" /\ x.todo = list /\ x.status = "none" /\ x.written = L!Closed.written
  BY ClosedTyped
<1> HIDE DEF x
<1>8. DOMAIN x.written = {}
  BY <1>7, ClosedTyped
<1>9. TotalOf(Change(x, balance)) = 0 /\ Solid(x)
  BY <1>6, <1>8, UntouchedMeans DEF Untouched, Steady
<1>10. Shape(x, balance, request)
  BY <1>4, <1>7, <1>8, <1>9 DEF Shape, Batching
<1>11. open' = [open EXCEPT ![t] = x]
  BY <1>1 DEF x, list
<1> QED BY <1>1, <1>6, <1>8, <1>9, <1>10, <1>11, Joined

LEMMA CreateBatchKeeps ==
  ASSUME L!AccountLocksAssumption, Steady, NEW t \in Connections, NEW users \in SUBSET L!UserIds,
         L!create_batch(t, users)
  PROVE  Steady' /\ UNCHANGED <<balance, request>>
<1> DEFINE rows == {L!Request(u) : u \in users}
           noted == [row \in rows |-> 0]
           x == [L!Closed EXCEPT !.kind = "export", !.status = "PROCESSING", !.written = noted]
<1>1. /\ \A u \in users : request[u] = "REQUESTED" /\ L!Free(t, L!Request(u))
      /\ open' = [open EXCEPT ![t] = x] /\ UNCHANGED <<balance, request>>
  BY DEF L!create_batch
<1>2. rows \in SUBSET Rows /\ \A row \in rows : row \notin L!LedgerAccounts
  BY RowFacts DEF Rows
<1>3. \A u \in L!UserIds : L!Request(u) \in rows => u \in users
  BY RowFacts
<1>4. noted \in [rows -> Int] /\ DOMAIN noted = rows
  OBVIOUS
<1> HIDE DEF rows, noted
<1>5. noted \in UNION {[locked -> Int] : locked \in SUBSET Rows}
  BY <1>2, <1>4
<1>6. x \in Trx
  BY <1>5, ClosedTyped DEF Trx, Kinds
<1>7. /\ x.kind = "export" /\ x.todo = <<>> /\ x.status = "PROCESSING" /\ x.written = noted
  BY ClosedTyped
<1> HIDE DEF x
<1>8. Untouched(x)
  BY <1>2, <1>4, <1>7 DEF Untouched
<1>9. Solid(x)
  BY <1>6, <1>8, UntouchedMeans DEF Steady
<1>10. Exporting(x, request)
  <2>1. rows \subseteq {L!Request(u) : u \in L!UserIds}
    BY DEF rows
  <2> QED BY <1>1, <1>3, <1>4, <1>7, <2>1 DEF Exporting
<1>11. Shape(x, balance, request)
  BY <1>7, <1>10 DEF Shape
<1>12. \A s \in Connections \ {t} : DOMAIN x.written \cap DOMAIN open[s].written = {}
  BY <1>1, <1>4, <1>7 DEF L!Free, L!LockedBy, rows
<1> QED BY <1>1, <1>6, <1>9, <1>11, <1>12, Joined

LEMMA StatementRuns ==
  ASSUME L!AccountLocksAssumption, Steady, NEW t \in Connections, L!Statement(t)
  PROVE  Runner(t)
<1>1. PICK trx : trx = open[t]
  OBVIOUS
<1>2. trx \in Trx /\ Solid(trx) /\ Shape(trx, balance, request)
  BY <1>1 DEF Steady
<1>3. /\ trx.todo # <<>> /\ L!Possible(t, trx) /\ open' = [open EXCEPT ![t] = L!After(trx)]
      /\ UNCHANGED <<balance, request>>
  BY <1>1 DEF L!Statement
<1>4. Runs(t, trx)
  BY <1>2, <1>3 DEF Runs, Steady
<1> QED BY <1>1, <1>2, <1>3, <1>4 DEF Runner

(* What a commit makes of the balances and of the requests.                *)
LEMMA CommitWrites ==
  ASSUME L!AccountLocksAssumption, Steady, NEW t \in Connections, L!Commit(t)
  PROVE  /\ balance' \in Amounts /\ Covered(balance')
         /\ \A a \in L!LedgerAccounts :
              /\ balance'[a] = balance[a] + Change(open[t], balance)[a]
              /\ a \notin DOMAIN open[t].written => balance'[a] = balance[a]
         /\ request' \in [L!UserIds -> {"none", "REQUESTED", "PROCESSING"}]
         /\ \A u \in L!UserIds :
              request'[u] = IF L!Request(u) \in DOMAIN open[t].written THEN open[t].status
                                                                      ELSE request[u]
<1>1. PICK x : x = open[t]
  OBVIOUS
<1>2. x \in Trx /\ Solid(x) /\ balance \in Amounts /\ Covered(balance)
  BY <1>1 DEF Steady
<1>3. /\ balance' = [a \in L!LedgerAccounts |-> L!Value(x, a)]
      /\ request' = [u \in L!UserIds |-> IF L!Request(u) \in DOMAIN x.written THEN x.status
                                                                             ELSE request[u]]
  BY <1>1 DEF L!Commit, L!LockedBy
<1>4. \A a \in L!LedgerAccounts :
        /\ balance[a] \in Int
        /\ a \in DOMAIN x.written => x.written[a] \in Int
  BY <1>2 DEF Amounts, Trx
<1>5. \A a \in L!LedgerAccounts :
        balance'[a] = IF a \in DOMAIN x.written THEN x.written[a] ELSE balance[a]
  BY <1>3 DEF L!Value
<1>6. balance' \in Amounts
  <2>1. \A a \in L!LedgerAccounts : L!Value(x, a) \in Int
    BY <1>4 DEF L!Value
  <2> QED BY <1>3, <2>1 DEF Amounts
<1>7. Covered(balance')
  BY <1>2, <1>5 DEF Covered, Solid
<1>8. \A a \in L!LedgerAccounts : balance'[a] = balance[a] + Change(x, balance)[a]
  BY <1>4, <1>5 DEF Change
<1>9. request' \in [L!UserIds -> {"none", "REQUESTED", "PROCESSING"}]
  BY <1>2, <1>3 DEF Trx, Steady
<1> QED BY <1>1, <1>3, <1>5, <1>6, <1>7, <1>8, <1>9

LEMMA CommitSteady ==
  ASSUME L!AccountLocksAssumption, Steady, NEW t \in Connections, L!Commit(t)
  PROVE  Steady'
<1>1. /\ balance' \in Amounts /\ Covered(balance')
      /\ \A a \in L!LedgerAccounts :
           a \notin DOMAIN open[t].written => balance'[a] = balance[a]
      /\ request' \in [L!UserIds -> {"none", "REQUESTED", "PROCESSING"}]
      /\ \A u \in L!UserIds : L!Request(u) \notin DOMAIN open[t].written => request'[u] = request[u]
  BY CommitWrites
<1>2. /\ open' \in [Connections -> Trx] /\ open'[t] = L!Closed
      /\ \A s \in Connections \ {t} : open'[s] = open[s]
  BY ClosedTyped DEF Steady, L!Commit
<1>3. Solid(L!Closed) /\ Shape(L!Closed, balance', request')
  BY ClosedTyped DEF Solid, Shape
<1>4. ASSUME NEW s \in Connections \ {t}
      PROVE  Solid(open[s]) /\ Shape(open[s], balance', request')
  <2>1. DOMAIN open[s].written \cap DOMAIN open[t].written = {}
    BY DEF Steady, Exclusive
  <2>2. open[s] \in Trx /\ Solid(open[s]) /\ Shape(open[s], balance, request)
    BY DEF Steady
  <2>3. \A a \in L!LedgerAccounts : a \in DOMAIN open[s].written => balance'[a] = balance[a]
    BY <1>1, <2>1
  <2>4. \A u \in L!UserIds : L!Request(u) \in DOMAIN open[s].written => request'[u] = request[u]
    BY <1>1, <2>1
  <2> QED BY <2>2, <2>3, <2>4, SameShape
<1>5. \A s \in Connections : Solid(open'[s]) /\ Shape(open'[s], balance', request')
  BY <1>2, <1>3, <1>4
<1>6. Exclusive'
  BY <1>2, ClosedTyped DEF Steady, Exclusive
<1> QED BY <1>1, <1>2, <1>5, <1>6 DEF Steady

(* A commit keeps the books, and clearing with the active requests.        *)
LEMMA CommitHeld ==
  ASSUME L!AccountLocksAssumption, Held, NEW t \in Connections, L!Commit(t)
  PROVE  TotalOf(balance') = 0 /\ balance'[L!Clearing] = Cardinality(ActiveRequests')
<1>0. Steady /\ TotalOf(balance) = 0 /\ balance[L!Clearing] = Cardinality(ActiveRequests)
  BY DEF Held
<1>1. PICK x : x = open[t]
  OBVIOUS
<1>2. /\ x \in Trx /\ x # L!Closed /\ x.todo = <<>> /\ Shape(x, balance, request)
      /\ balance \in Amounts
  BY <1>0, <1>1 DEF L!Commit, Steady
<1>3. /\ balance' \in Amounts /\ Change(x, balance) \in Amounts
      /\ \A a \in L!LedgerAccounts : balance'[a] = balance[a] + Change(x, balance)[a]
      /\ \A u \in L!UserIds :
           request'[u] = IF L!Request(u) \in DOMAIN x.written THEN x.status ELSE request[u]
  BY <1>0, <1>1, <1>2, CommitWrites, ChangeTyped
<1>4. TotalOf(balance') = TotalOf(balance) + TotalOf(Change(x, balance))
  BY <1>2, <1>3, TotalAdds
<1>5. balance'[L!Clearing] = Cardinality(ActiveRequests) + Change(x, balance)[L!Clearing]
  BY <1>0, <1>3, RowFacts
<1>6. IsFiniteSet(ActiveRequests) /\ Cardinality(ActiveRequests) \in Nat
  BY UsersFinite DEF ActiveRequests
<1>7. ActiveRequests' = {u \in L!UserIds : request'[u] # "none"}
  BY DEF ActiveRequests
<1>8. ASSUME NEW by, NEW outcome, NEW users, Ends(x, by, outcome, users)
      PROVE  /\ TotalOf(balance') = 0 /\ balance'[L!Clearing] = Cardinality(ActiveRequests) + by
             /\ \A u \in L!UserIds : request'[u] = IF u \in users THEN outcome ELSE request[u]
  <2>1. /\ TotalOf(Change(x, balance)) = 0 /\ Change(x, balance)[L!Clearing] = by
        /\ x.status = outcome
        /\ \A u \in L!UserIds : L!Request(u) \in DOMAIN x.written <=> u \in users
    BY <1>8 DEF Ends
  <2>2. TotalOf(balance') = 0
    BY <1>0, <1>4, <2>1
  <2> QED BY <1>3, <1>5, <2>1, <2>2
<1>9. CASE Ends(x, 0, "none", {})
  <2>0. \A u \in L!UserIds : request'[u] = request[u]
    BY <1>8, <1>9
  <2>1. ActiveRequests' = ActiveRequests
    BY <1>7, <2>0 DEF ActiveRequests
  <2> QED BY <1>6, <1>8, <1>9, <2>1
<1>10. ASSUME NEW users \in SUBSET L!UserIds, \A u \in users : request[u] = "REQUESTED",
              Ends(x, 0, "PROCESSING", users)
       PROVE  TotalOf(balance') = 0 /\ balance'[L!Clearing] = Cardinality(ActiveRequests')
  <2>0. \A u \in L!UserIds : request'[u] = IF u \in users THEN "PROCESSING" ELSE request[u]
    BY <1>8, <1>10
  <2>1. ActiveRequests' = ActiveRequests
    BY <1>7, <1>10, <2>0 DEF ActiveRequests
  <2> QED BY <1>6, <1>8, <1>10, <2>1
<1>11. ASSUME NEW u \in L!UserIds, request[u] = "none", Ends(x, 1, "REQUESTED", {u})
       PROVE  TotalOf(balance') = 0 /\ balance'[L!Clearing] = Cardinality(ActiveRequests')
  <2>0. \A v \in L!UserIds : request'[v] = IF v \in {u} THEN "REQUESTED" ELSE request[v]
    BY <1>8, <1>11
  <2>1. ActiveRequests' = ActiveRequests \cup {u} /\ u \notin ActiveRequests
    BY <1>7, <1>11, <2>0 DEF ActiveRequests
  <2>2. Cardinality(ActiveRequests') = Cardinality(ActiveRequests) + 1
    BY <1>6, <2>1, FS_AddElement
  <2> QED BY <1>8, <1>11, <2>2
<1>12. ASSUME NEW u \in L!UserIds, request[u] # "none", Ends(x, -1, "none", {u})
       PROVE  TotalOf(balance') = 0 /\ balance'[L!Clearing] = Cardinality(ActiveRequests')
  <2>0. \A v \in L!UserIds : request'[v] = IF v \in {u} THEN "none" ELSE request[v]
    BY <1>8, <1>12
  <2>1. ActiveRequests' = ActiveRequests \ {u} /\ u \in ActiveRequests
    BY <1>7, <1>12, <2>0 DEF ActiveRequests
  <2>2. Cardinality(ActiveRequests') = Cardinality(ActiveRequests) - 1
    BY <1>6, <2>1, FS_RemoveElement
  <2>3. balance'[L!Clearing] = Cardinality(ActiveRequests) + -1
    BY <1>8, <1>12
  <2> QED BY <1>6, <1>8, <1>12, <2>2, <2>3
<1> QED BY <1>0, <1>2, <1>9, <1>10, <1>11, <1>12, EndsSo

LEMMA HeldInit ==
  ASSUME L!AccountLocksAssumption, L!Init
  PROVE  Held
<1>1. balance \in Amounts /\ Covered(balance) /\ \A a \in L!LedgerAccounts : balance[a] = 0
  BY DEF L!Init, Amounts, Covered
<1>2. open \in [Connections -> Trx] /\ \A t \in Connections : open[t] = L!Closed
  BY ClosedTyped DEF L!Init
<1>3. \A t \in Connections : Solid(open[t]) /\ Shape(open[t], balance, request)
  BY <1>2, ClosedTyped DEF Solid, Shape
<1>4. Exclusive
  BY <1>2, ClosedTyped DEF Exclusive
<1>5. request \in [L!UserIds -> {"none", "REQUESTED", "PROCESSING"}] /\ ActiveRequests = {}
  BY DEF L!Init, ActiveRequests
<1>6. TotalOf(balance) = 0
  BY <1>1, TotalNone
<1>7. balance[L!Clearing] = Cardinality(ActiveRequests)
  BY <1>1, <1>5, RowFacts, FS_EmptySet
<1> QED BY <1>1, <1>2, <1>3, <1>4, <1>5, <1>6, <1>7 DEF Held, Steady

LEMMA HeldNext ==
  ASSUME L!AccountLocksAssumption, Held, [L!Next]_L!lockVars
  PROVE  Held'
<1>0. Steady
  BY DEF Held
<1>1. Steady' /\ UNCHANGED <<balance, request>> => Held'
  BY DEF Held, ActiveRequests
<1>2. ASSUME NEW t \in Connections, L!Commit(t) PROVE Held'
  BY <1>0, <1>2, CommitSteady, CommitHeld DEF Held
<1>3. ASSUME NEW t \in Connections, Runner(t) PROVE Held'
  BY <1>0, <1>1, <1>3, RunnerKeeps
<1>4. ASSUME NEW t \in Connections,
             \/ L!campaign_fund(t)
             \/ \E u \in L!UserIds : L!credit(t, u) \/ L!summary(t, u) \/ L!create(t, u)
                                   \/ L!mark_paid(t, u) \/ L!mark_failed(t, u)
      PROVE  Held'
  BY <1>0, <1>3, <1>4, BeginRuns DEF Steady
<1>5. ASSUME NEW t \in Connections, L!Statement(t) PROVE Held'
  BY <1>0, <1>3, <1>5, StatementRuns
<1>6. ASSUME NEW t \in Connections, L!unlock_batch(t) PROVE Held'
  BY <1>0, <1>1, <1>6, UnlockBatchKeeps
<1>7. ASSUME NEW t \in Connections, NEW users \in SUBSET L!UserIds, L!create_batch(t, users)
      PROVE  Held'
  BY <1>0, <1>1, <1>7, CreateBatchKeeps
<1>8. ASSUME NEW t \in Connections, L!Rollback(t) PROVE Held'
  BY <1>0, <1>1, <1>8, RollbackKeeps
<1>9. CASE UNCHANGED L!lockVars
  BY <1>0, <1>1, <1>9 DEF L!lockVars, Steady, Exclusive
<1> QED BY <1>2, <1>4, <1>5, <1>6, <1>7, <1>8, <1>9 DEF L!Next

-----------------------------------------------------------------------------
(* Part 8: who can be part of a circle of waiting transactions.  Without a *)
(* batch there is none: going up the order in which the others lock rows,  *)
(* each row turns out to be one that nobody of the circle waits for.       *)
LEMMA CircleNeedsBatch ==
  ASSUME L!AccountLocksAssumption, Steady, NEW set \in SUBSET Connections, L!Stuck(set)
  PROVE  \E t \in set : open[t].kind = "batch"
<1> SUFFICES ASSUME \A t \in set : open[t].kind # "batch" PROVE FALSE
  OBVIOUS
<1> DEFINE row(t) == Head(open[t].todo).row
           has(t) == DOMAIN open[t].written
<1>1. \A t \in set : open[t].todo # <<>> /\ Position(open[t], request)
  <2> TAKE t \in set
  <2>1. open[t].todo # <<>>
    BY DEF L!Stuck, L!WaitsFor
  <2>2. open[t] \in Trx /\ Shape(open[t], balance, request)
    BY DEF Steady
  <2> QED BY <2>1, <2>2, Positions
<1>2. \A t \in set : Head(open[t].todo).do # "insert"
  <2> SUFFICES ASSUME NEW t \in set, Head(open[t].todo).do = "insert" PROVE FALSE
    OBVIOUS
  <2>1. PICK s \in set : L!WaitsFor(t, s)
    BY DEF L!Stuck
  <2>2. open[s].todo = <<>>
    BY <2>1 DEF L!WaitsFor, L!Settling
  <2> QED BY <1>1, <2>2
<1>3. \A t \in set : \E s \in set : s # t /\ row(t) \in has(s)
  <2> TAKE t \in set
  <2>1. PICK s \in set : L!WaitsFor(t, s)
    BY DEF L!Stuck
  <2>2. s # t /\ Head(open[t].todo).row \in L!LockedBy(s)
    BY <1>2, <2>1 DEF L!WaitsFor
  <2> QED BY <2>2 DEF L!LockedBy
<1>4. \A t \in set :
        \/ row(t) = L!Company /\ has(t) = {}
        \/ row(t) = L!Pool /\ has(t) \in {{L!Company}, {}}
        \/ \E u \in L!UserIds :
             \/ row(t) = L!Pending(u) /\ has(t) \in {{L!Pool}, {}}
             \/ row(t) = L!Available(u) /\ has(t) = {L!Pending(u)}
             \/ row(t) = L!Clearing /\ has(t) = {L!Pending(u), L!Available(u), L!Request(u)}
                  /\ request[u] = "none"
             \/ row(t) = L!Request(u) /\ has(t) = {}
             \/ row(t) = L!Clearing /\ has(t) = {L!Request(u)} /\ request[u] # "none"
             \/ row(t) = L!Settled /\ has(t) = {L!Request(u), L!Clearing}
             \/ row(t) = L!Available(u) /\ has(t) = {L!Request(u), L!Clearing} /\ request[u] # "none"
  <2> TAKE t \in set
  <2>1. row(t) \notin has(t)
    BY <1>3 DEF Steady, Exclusive
  <2>2. ~WantsOwn(open[t]) /\ open[t].kind # "batch"
    BY <2>1 DEF WantsOwn
  <2>3. Position(open[t], request) /\ Head(open[t].todo).do # "insert"
    BY <1>1, <1>2
  <2> QED BY <2>2, <2>3 DEF Position, Wants
<1> HIDE DEF row, has
<1>5. \A s \in set :
        /\ L!Settled \notin has(s)
        /\ L!Clearing \in has(s) =>
           row(s) = L!Settled \/ \E u \in L!UserIds : row(s) = L!Available(u) /\ L!Clearing \in has(s)
        /\ L!Pool \in has(s) => \E u \in L!UserIds : row(s) = L!Pending(u)
        /\ L!Company \in has(s) => row(s) = L!Pool
        /\ \A u \in L!UserIds :
             /\ L!Available(u) \in has(s) => row(s) = L!Clearing /\ request[u] = "none"
             /\ L!Pending(u) \in has(s) => row(s) \in {L!Available(u), L!Clearing}
             /\ L!Request(u) \in has(s) => row(s) \in {L!Clearing, L!Settled, L!Available(u)}
  BY <1>4, RowFacts
<1>6. \A t \in set : row(t) # L!Settled
  BY <1>3, <1>5
<1>7. \A t \in set, u \in L!UserIds : row(t) = L!Available(u) => L!Clearing \notin has(t)
  <2> SUFFICES ASSUME NEW t \in set, NEW u \in L!UserIds, row(t) = L!Available(u), L!Clearing \in has(t)
               PROVE  FALSE
    OBVIOUS
  <2>1. request[u] # "none"
    BY <1>4, RowFacts
  <2> QED BY <1>3, <1>5, <2>1
<1>8. \A t \in set : row(t) # L!Clearing
  BY <1>3, <1>5, <1>6, <1>7
<1>9. \A t \in set, u \in L!UserIds : row(t) # L!Available(u)
  BY <1>3, <1>5, <1>8
<1>10. \A t \in set, u \in L!UserIds : row(t) # L!Pending(u)
  BY <1>3, <1>5, <1>8, <1>9
<1>11. \A t \in set : row(t) # L!Pool
  BY <1>3, <1>5, <1>10
<1>12. \A t \in set : row(t) # L!Company
  BY <1>3, <1>5, <1>11
<1>13. \A t \in set, u \in L!UserIds : row(t) # L!Request(u)
  BY <1>3, <1>5, <1>6, <1>8, <1>9
<1>14. set # {}
  BY DEF L!Stuck
<1> QED BY <1>4, <1>6, <1>8, <1>9, <1>10, <1>11, <1>12, <1>13, <1>14

LEMMA HeldMeans ==
  ASSUME L!AccountLocksAssumption, Held
  PROVE  DeadlockNeedsBatch /\ CommittedMoneyAddsUp
<1>1. Steady /\ TotalOf(balance) = 0 /\ balance[L!Clearing] = Cardinality(ActiveRequests)
  BY DEF Held
<1>2. L!DeadlockNeedsBatch
  BY <1>1, CircleNeedsBatch DEF L!DeadlockNeedsBatch
<1>3. L!CommittedMoneyAddsUp
  BY <1>1, AddsUpIs DEF ActiveRequests
<1>4. L!TypeOK
  BY <1>1 DEF L!TypeOK, Steady, Amounts, Covered
<1> QED BY <1>2, <1>3, <1>4 DEF DeadlockNeedsBatch, CommittedMoneyAddsUp

(* The invariant, in every behaviour of this grain, and in those of the    *)
(* other, in which these variables stay as they began.                     *)
LEMMA AlwaysHeld == MCSpec => []Held
<1> DEFINE Step == \/ grain = "transactions" /\ Next /\ UNCHANGED <<grain, balance, request, open>>
                   \/ grain = "statements" /\ L!Next /\ UNCHANGED <<grain, vars>>
<1>1. MCSpec => L!Init /\ [][Step]_<<grain, vars, L!lockVars>>
  BY DEF MCSpec
<1>2. [Step]_<<grain, vars, L!lockVars>> => [L!Next]_L!lockVars
  BY DEF L!lockVars
<1> HIDE DEF Step
<1>3. L!Init => Held
  BY HeldInit, EarningAssumption
<1>4. Held /\ [L!Next]_L!lockVars => Held'
  BY HeldNext, EarningAssumption
<1> QED BY <1>1, <1>2, <1>3, <1>4, PTL

-----------------------------------------------------------------------------
(* Whoever waits for whom, with any number of users and of transactions    *)
(* open at once: a circle has a batch of unlocks in it.                    *)
THEOREM OnlyBatchesDeadlock == MCSpec => []DeadlockNeedsBatch
<1>1. Held => DeadlockNeedsBatch
  BY HeldMeans, EarningAssumption
<1> QED BY <1>1, AlwaysHeld, PTL

(* However the statements of open transactions come between each other,    *)
(* what is committed adds up to nothing, clearing has the active requests, *)
(* and no account but the company's is negative.                           *)
THEOREM CommittedMoneyHolds == MCSpec => []CommittedMoneyAddsUp
<1>1. Held => CommittedMoneyAddsUp
  BY HeldMeans, EarningAssumption
<1> QED BY <1>1, AlwaysHeld, PTL
=============================================================================
