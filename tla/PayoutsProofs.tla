--------------------------- MODULE PayoutsProofs ---------------------------
(* Theorems about Payouts, for any users, amounts, settings and bounds.    *)
EXTENDS Payouts, FiniteSetTheorems, SequenceTheorems, TLAPS

-----------------------------------------------------------------------------
(* Before the parts: what Post does to a book, for every book and every    *)
(* transaction, and sums.                                                  *)

(* The system accounts and the accounts of users are accounts, all         *)
(* different: a transfer between two of them moves money.                  *)
LEMMA AccountFacts ==
  /\ Funding \in Accounts /\ Pool \in Accounts /\ Clearing \in Accounts /\ Settled \in Accounts
  /\ \A u \in Users : Pending(u) \in Accounts /\ Available(u) \in Accounts
  /\ Funding # Pool /\ Funding # Clearing /\ Funding # Settled
  /\ Pool # Clearing /\ Pool # Settled /\ Clearing # Settled
  /\ \A u : Pending(u) \notin {Funding, Pool, Clearing, Settled}
  /\ \A u : Available(u) \notin {Funding, Pool, Clearing, Settled}
  /\ \A u, v : Pending(u) # Available(v)
  /\ \A u, v : u # v => Pending(u) # Pending(v) /\ Available(u) # Available(v)
BY DEF Funding, Pool, Clearing, Settled, Pending, Available, System, Accounts,
       SystemKinds, UserKinds

(* ledger.post keeps a book a book, and keeps it solvent when the check    *)
(* constraint lets the posting through.                                    *)
LEMMA PostTyped ==
  ASSUME NEW b \in Books, NEW t \in Transactions
  PROVE  /\ Post(b, t) \in Books
         /\ Solvent(b) /\ Covers(b, t) => Solvent(Post(b, t))
<1>1. Post(b, t) \in Books
  BY DEF Post, Books, Transactions
<1>2. ASSUME Solvent(b), Covers(b, t) PROVE Solvent(Post(b, t))
  BY <1>2 DEF Post, Books, Transactions, Solvent, Covers
<1> QED BY <1>1, <1>2

(* ledger.post is idempotent by key, and only ever adds transactions.      *)
LEMMA PostKeys ==
  ASSUME NEW b \in Books, NEW t \in Transactions
  PROVE  /\ Posted(b, t.key) => Post(b, t) = b
         /\ ~Posted(b, t.key) => Post(b, t).txns = b.txns \cup {t}
         /\ Posted(Post(b, t), t.key)
         /\ \A k : k # t.key => (Posted(Post(b, t), k) <=> Posted(b, k))
BY DEF Post, Posted, Books, Transactions

(* A fresh transfer between two accounts moves its amount and nothing else. *)
LEMMA PostMoves ==
  ASSUME NEW b \in Books, NEW t \in Transactions, ~Posted(b, t.key), t.src # t.dst
  PROVE  /\ Post(b, t).balance[t.src] = b.balance[t.src] - t.amount
         /\ Post(b, t).balance[t.dst] = b.balance[t.dst] + t.amount
         /\ \A a \in Accounts \ {t.src, t.dst} : Post(b, t).balance[a] = b.balance[a]
BY DEF Post, Books, Transactions

(* The last entry of an account never goes back, and a fresh transaction   *)
(* that touches the account moves it on: an unlock key is not used twice.  *)
LEMMA LastEntryGrows ==
  ASSUME NEW b \in Books, NEW t \in Transactions, NEW a \in Accounts, IsFiniteSet(b.txns)
  PROVE  /\ IsFiniteSet(Post(b, t).txns)
         /\ LastEntry(b, a) \in Nat
         /\ LastEntry(Post(b, t), a) \in Nat
         /\ LastEntry(Post(b, t), a) >= LastEntry(b, a)
         /\ ~Posted(b, t.key) /\ (t.src = a \/ t.dst = a)
              => LastEntry(Post(b, t), a) = LastEntry(b, a) + 1
<1> DEFINE before == Entries(b, a)
           after  == Entries(Post(b, t), a)
<1>1. IsFiniteSet(Post(b, t).txns) /\ b.txns \subseteq Post(b, t).txns
  BY FS_AddElement DEF Post
<1>2. before \subseteq after /\ before \subseteq b.txns /\ after \subseteq Post(b, t).txns
  BY <1>1 DEF Entries
<1>3. IsFiniteSet(before) /\ IsFiniteSet(after)
  BY <1>1, <1>2, FS_Subset
<1>4. Cardinality(before) \in Nat /\ Cardinality(after) \in Nat /\ Cardinality(before) <= Cardinality(after)
  BY <1>2, <1>3, FS_CardinalityType, FS_Subset
<1>5. ASSUME ~Posted(b, t.key), t.src = a \/ t.dst = a
      PROVE  Cardinality(after) = Cardinality(before) + 1
  <2>1. after = before \cup {t} /\ t \notin before
    BY <1>5 DEF Post, Entries, Posted, Books
  <2> QED BY <2>1, <1>3, FS_AddElement
<1> HIDE DEF before, after
<1> QED BY <1>1, <1>4, <1>5 DEF LastEntry, before, after

-----------------------------------------------------------------------------
(* Sums over finite sets.                                                  *)

(* A set of natural numbers has a least one: induction without a predicate. *)
LEMMA LeastNatural ==
  ASSUME NEW T \in SUBSET Nat, T # {}
  PROVE  \E n \in T : \A m \in T : n <= m
<1> DEFINE R == OpToRel(<, Nat)
<1>1. IsWellFoundedOn(R, Nat)
  BY NatLessThanWellFounded
<1>2. \A x, y \in Nat : x < y => <<x, y>> \in R
  BY DEF OpToRel
<1> HIDE DEF R
<1>3. PICK n \in T : \A m \in T : ~(<<m, n>> \in R)
  BY <1>1, WFMin
<1>4. ASSUME NEW m \in T PROVE n <= m
  <2>1. ~(m < n)
    BY <1>2, <1>3
  <2> QED BY <2>1
<1> QED BY <1>4

(* Induction on natural numbers, for a set of them.                        *)
LEMMA SetInduction ==
  ASSUME NEW P \in SUBSET Nat, 0 \in P, \A n \in P : n + 1 \in P
  PROVE  P = Nat
<1> SUFFICES ASSUME Nat \ P # {} PROVE FALSE
  OBVIOUS
<1>1. PICK n \in Nat \ P : \A m \in Nat \ P : n <= m
  BY LeastNatural
<1>2. n # 0 /\ n - 1 \in Nat
  BY <1>1
<1>3. n - 1 \in P
  BY <1>1, <1>2
<1> QED BY <1>1, <1>2, <1>3

-----------------------------------------------------------------------------
(* SumFunctionOnSet takes the elements of a set one by one, in an order    *)
(* that CHOOSE fixes: it is the recursive function on the subsets below.   *)
First(s) == CHOOSE x \in s : TRUE

AddsUp(f, fun, D) ==
  f = [s \in D |-> IF s = {} THEN 0 ELSE fun[First(s)] + f[s \ {First(s)}]]

LEMMA SumIs ==
  ASSUME NEW fun, NEW S
  PROVE  SumFunctionOnSet(fun, S) = (CHOOSE f : AddsUp(f, fun, SUBSET S))[S]
BY Zenon DEF SumFunctionOnSet, FoldFunctionOnSet, MapThenFoldSet, AddsUp, First

LEMMA Smaller ==
  ASSUME NEW s, IsFiniteSet(s), s # {}
  PROVE  /\ First(s) \in s /\ IsFiniteSet(s \ {First(s)})
         /\ Cardinality(s) \in Nat \ {0}
         /\ Cardinality(s \ {First(s)}) = Cardinality(s) - 1
<1>1. First(s) \in s
  BY DEF First
<1>2. Cardinality(s) \in Nat \ {0}
  BY FS_CardinalityType, FS_EmptySet
<1> QED BY <1>1, <1>2, FS_RemoveElement

(* Such a function exists, built up by the number of elements.             *)
LEMMA SumExists ==
  ASSUME NEW fun, NEW S, IsFiniteSet(S)
  PROVE  \E f : AddsUp(f, fun, SUBSET S)
<1> DEFINE Upto(n) == {s \in SUBSET S : Cardinality(s) <= n}
           P == {n \in Nat : \E f : AddsUp(f, fun, Upto(n))}
<1>0. \A s \in SUBSET S : IsFiniteSet(s) /\ Cardinality(s) \in Nat /\ Cardinality(s) <= Cardinality(S)
  BY FS_Subset, FS_CardinalityType
<1>1. 0 \in P
  <2> DEFINE g == [s \in Upto(0) |-> 0]
  <2>1. \A s \in Upto(0) : s = {}
    BY <1>0, FS_EmptySet
  <2>2. AddsUp(g, fun, Upto(0))
    BY <2>1 DEF AddsUp
  <2> QED BY <2>2
<1>2. ASSUME NEW n \in P PROVE n + 1 \in P
  <2>1. PICK f : AddsUp(f, fun, Upto(n))
    OBVIOUS
  <2> DEFINE g == [s \in Upto(n + 1) |-> IF s = {} THEN 0 ELSE fun[First(s)] + f[s \ {First(s)}]]
  <2>2. \A s \in Upto(n) : s \in Upto(n + 1)
    BY <1>0
  <2>3. \A s \in Upto(n) : g[s] = f[s]
    BY <2>1, <2>2 DEF AddsUp
  <2>4. \A s \in Upto(n + 1) : s # {} => s \ {First(s)} \in Upto(n)
    BY <1>0, Smaller
  <2>5. AddsUp(g, fun, Upto(n + 1))
    BY <2>3, <2>4 DEF AddsUp
  <2>6. \E h : AddsUp(h, fun, Upto(n + 1))
    <3> HIDE DEF g, Upto
    <3> QED BY <2>5
  <2> HIDE DEF Upto
  <2> QED BY <2>6
<1>3. P = Nat
  <2> HIDE DEF P
  <2>1. P \in SUBSET Nat
    BY DEF P
  <2> QED BY <1>1, <1>2, <2>1, SetInduction
<1>4. Cardinality(S) \in P
  BY <1>0, <1>3
<1>5. Upto(Cardinality(S)) = SUBSET S
  BY <1>0
<1> QED BY <1>4, <1>5

(* What a sum is made of: one element, and the sum of the rest.            *)
LEMMA SumFirst ==
  ASSUME NEW fun, NEW S, IsFiniteSet(S)
  PROVE  \E f : AddsUp(f, fun, SUBSET S) /\ SumFunctionOnSet(fun, S) = f[S]
<1>1. PICK f : AddsUp(f, fun, SUBSET S)
  BY SumExists
<1> DEFINE g == CHOOSE h : AddsUp(h, fun, SUBSET S)
<1>2. AddsUp(g, fun, SUBSET S)
  BY <1>1
<1> QED BY <1>2, SumIs

(* On a subset it is the function of the subset.                           *)
LEMMA SumUnique ==
  \A fun, S, T, f, g :
    IsFiniteSet(S) /\ T \subseteq S /\ AddsUp(f, fun, SUBSET S) /\ AddsUp(g, fun, SUBSET T)
      => f[T] = g[T]
<1> SUFFICES ASSUME NEW fun, NEW S, IsFiniteSet(S), NEW T, T \subseteq S, NEW f, NEW g,
                    AddsUp(f, fun, SUBSET S), AddsUp(g, fun, SUBSET T)
             PROVE  f[T] = g[T]
  OBVIOUS
<1> DEFINE P == {n \in Nat : \A s \in SUBSET T : Cardinality(s) = n => f[s] = g[s]}
<1>0. \A s \in SUBSET T : IsFiniteSet(s) /\ Cardinality(s) \in Nat /\ s \in SUBSET S
  BY FS_Subset, FS_CardinalityType
<1>1. 0 \in P
  <2>1. \A s \in SUBSET T : Cardinality(s) = 0 => s = {}
    BY <1>0, FS_EmptySet
  <2> QED BY <2>1, <1>0 DEF AddsUp
<1>2. ASSUME NEW n \in P PROVE n + 1 \in P
  <2> SUFFICES ASSUME NEW s \in SUBSET T, Cardinality(s) = n + 1 PROVE f[s] = g[s]
    OBVIOUS
  <2>1. s # {} /\ IsFiniteSet(s) /\ n \in Nat
    BY <1>0, FS_EmptySet
  <2>2. Cardinality(s \ {First(s)}) = n /\ s \ {First(s)} \in SUBSET T
    <3>1. Cardinality(s \ {First(s)}) = Cardinality(s) - 1
      BY <2>1, Smaller
    <3> QED BY <2>1, <3>1
  <2>3. f[s \ {First(s)}] = g[s \ {First(s)}]
    BY <2>2
  <2>4. f[s] = fun[First(s)] + f[s \ {First(s)}] /\ g[s] = fun[First(s)] + g[s \ {First(s)}]
    BY <1>0, <2>1 DEF AddsUp
  <2> QED BY <2>3, <2>4
<1>3. P = Nat
  <2> HIDE DEF P
  <2>1. P \in SUBSET Nat
    BY DEF P
  <2> QED BY <1>1, <1>2, <2>1, SetInduction
<1>4. Cardinality(T) \in P
  BY <1>0, <1>3
<1> QED BY <1>4

LEMMA SumRest ==
  ASSUME NEW fun, NEW S, IsFiniteSet(S), NEW T, T \subseteq S, NEW f, AddsUp(f, fun, SUBSET S)
  PROVE  SumFunctionOnSet(fun, T) = f[T]
<1>1. IsFiniteSet(T)
  BY FS_Subset
<1>2. PICK g : AddsUp(g, fun, SUBSET T) /\ SumFunctionOnSet(fun, T) = g[T]
  BY <1>1, SumFirst
<1>3. f[T] = g[T]
  BY <1>2, SumUnique
<1> QED BY <1>2, <1>3

LEMMA SumStep ==
  ASSUME NEW fun, NEW S, IsFiniteSet(S)
  PROVE  SumFunctionOnSet(fun, S) =
           IF S = {} THEN 0 ELSE fun[First(S)] + SumFunctionOnSet(fun, S \ {First(S)})
<1>1. PICK f : AddsUp(f, fun, SUBSET S) /\ SumFunctionOnSet(fun, S) = f[S]
  BY SumFirst
<1>2. CASE S = {}
  BY <1>1, <1>2 DEF AddsUp
<1>3. CASE S # {}
  <2> DEFINE T == S \ {First(S)}
  <2>1. SumFunctionOnSet(fun, T) = f[T]
    BY <1>1, SumRest
  <2>2. f[S] = fun[First(S)] + f[T]
    BY <1>1, <1>3 DEF AddsUp
  <2> QED BY <1>1, <1>3, <2>1, <2>2
<1> QED BY <1>2, <1>3

(* Of equal summands the sum is the same.                                  *)
LEMMA SumSame ==
  ASSUME NEW fun, NEW gun, NEW S, IsFiniteSet(S), \A x \in S : fun[x] = gun[x]
  PROVE  SumFunctionOnSet(fun, S) = SumFunctionOnSet(gun, S)
<1> DEFINE P == {n \in Nat : \A s \in SUBSET S : Cardinality(s) = n =>
                             SumFunctionOnSet(fun, s) = SumFunctionOnSet(gun, s)}
<1>0. \A s \in SUBSET S : IsFiniteSet(s) /\ Cardinality(s) \in Nat
  BY FS_Subset, FS_CardinalityType
<1>1. 0 \in P
  <2>1. \A s \in SUBSET S : Cardinality(s) = 0 => s = {}
    BY <1>0, FS_EmptySet
  <2>2. SumFunctionOnSet(fun, {}) = 0 /\ SumFunctionOnSet(gun, {}) = 0
    BY SumStep, FS_EmptySet
  <2> QED BY <2>1, <2>2
<1>2. ASSUME NEW n \in P PROVE n + 1 \in P
  <2> SUFFICES ASSUME NEW s \in SUBSET S, Cardinality(s) = n + 1
               PROVE  SumFunctionOnSet(fun, s) = SumFunctionOnSet(gun, s)
    OBVIOUS
  <2>1. s # {} /\ IsFiniteSet(s) /\ n \in Nat
    BY <1>0, FS_EmptySet
  <2> DEFINE T == s \ {First(s)}
  <2>2. Cardinality(T) = n /\ T \in SUBSET S /\ First(s) \in S
    BY <2>1, Smaller
  <2>3. SumFunctionOnSet(fun, T) = SumFunctionOnSet(gun, T)
    BY <2>2
  <2> QED BY <2>1, <2>2, <2>3, SumStep
<1>3. P = Nat
  <2> HIDE DEF P
  <2>1. P \in SUBSET Nat
    BY DEF P
  <2> QED BY <1>1, <1>2, <2>1, SetInduction
<1>4. Cardinality(S) \in P
  BY <1>0, <1>3
<1> QED BY <1>4

LEMMA SumType ==
  ASSUME NEW fun, NEW S, IsFiniteSet(S), \A x \in S : fun[x] \in Int
  PROVE  SumFunctionOnSet(fun, S) \in Int
<1> DEFINE P == {n \in Nat : \A s \in SUBSET S : Cardinality(s) = n => SumFunctionOnSet(fun, s) \in Int}
<1>0. \A s \in SUBSET S : IsFiniteSet(s) /\ Cardinality(s) \in Nat
  BY FS_Subset, FS_CardinalityType
<1>1. 0 \in P
  <2>1. \A s \in SUBSET S : Cardinality(s) = 0 => s = {}
    BY <1>0, FS_EmptySet
  <2>2. SumFunctionOnSet(fun, {}) = 0
    BY SumStep, FS_EmptySet
  <2> QED BY <2>1, <2>2
<1>2. ASSUME NEW n \in P PROVE n + 1 \in P
  <2> SUFFICES ASSUME NEW s \in SUBSET S, Cardinality(s) = n + 1
               PROVE  SumFunctionOnSet(fun, s) \in Int
    OBVIOUS
  <2>1. s # {} /\ IsFiniteSet(s) /\ n \in Nat
    BY <1>0, FS_EmptySet
  <2> DEFINE T == s \ {First(s)}
  <2>2. Cardinality(T) = n /\ T \in SUBSET S /\ First(s) \in S
    BY <2>1, Smaller
  <2>3. SumFunctionOnSet(fun, T) \in Int /\ fun[First(s)] \in Int
    BY <2>2
  <2> QED BY <2>1, <2>3, SumStep
<1>3. P = Nat
  <2> HIDE DEF P
  <2>1. P \in SUBSET Nat
    BY DEF P
  <2> QED BY <1>1, <1>2, <2>1, SetInduction
<1>4. Cardinality(S) \in P
  BY <1>0, <1>3
<1> QED BY <1>4

(* The order does not matter: any element may be taken first.              *)
LEMMA SumTake ==
  ASSUME NEW fun, NEW S, IsFiniteSet(S), \A x \in S : fun[x] \in Int, NEW x \in S
  PROVE  SumFunctionOnSet(fun, S) = fun[x] + SumFunctionOnSet(fun, S \ {x})
<1> DEFINE P == {n \in Nat : \A s \in SUBSET S : Cardinality(s) = n =>
                  \A y \in s : SumFunctionOnSet(fun, s) = fun[y] + SumFunctionOnSet(fun, s \ {y})}
<1>0. \A s \in SUBSET S : IsFiniteSet(s) /\ Cardinality(s) \in Nat
  BY FS_Subset, FS_CardinalityType
<1>1. 0 \in P
  <2>1. \A s \in SUBSET S : Cardinality(s) = 0 => s = {}
    BY <1>0, FS_EmptySet
  <2> QED BY <2>1
<1>2. ASSUME NEW n \in P PROVE n + 1 \in P
  <2> SUFFICES ASSUME NEW s \in SUBSET S, Cardinality(s) = n + 1, NEW y \in s
               PROVE  SumFunctionOnSet(fun, s) = fun[y] + SumFunctionOnSet(fun, s \ {y})
    OBVIOUS
  <2>1. s # {} /\ IsFiniteSet(s) /\ n \in Nat
    BY <1>0, FS_EmptySet
  <2> DEFINE z == First(s)
  <2>2. z \in s /\ Cardinality(s \ {z}) = n /\ s \ {z} \in SUBSET S
    <3>1. z \in s /\ Cardinality(s \ {z}) = Cardinality(s) - 1
      BY <2>1, Smaller
    <3> QED BY <2>1, <3>1
  <2>3. SumFunctionOnSet(fun, s) = fun[z] + SumFunctionOnSet(fun, s \ {z})
    BY <2>1, SumStep
  <2> HIDE DEF z
  <2>4. CASE y = z
    BY <2>3, <2>4
  <2>5. CASE y # z
    <3>1. Cardinality(s \ {y}) = n /\ s \ {y} \in SUBSET S
      <4>1. Cardinality(s \ {y}) = Cardinality(s) - 1
        BY <2>1, FS_RemoveElement
      <4> QED BY <2>1, <4>1
    <3>2. y \in s \ {z} /\ z \in s \ {y} /\ (s \ {z}) \ {y} = (s \ {y}) \ {z}
      BY <2>2, <2>5
    <3> DEFINE rest == SumFunctionOnSet(fun, (s \ {z}) \ {y})
    <3>3. SumFunctionOnSet(fun, s \ {z}) = fun[y] + rest
      BY <2>2, <3>2
    <3>4. SumFunctionOnSet(fun, s \ {y}) = fun[z] + rest
      BY <3>1, <3>2
    <3>5. rest \in Int /\ fun[y] \in Int /\ fun[z] \in Int
      <4>1. IsFiniteSet((s \ {z}) \ {y}) /\ \A w \in (s \ {z}) \ {y} : fun[w] \in Int
        BY <1>0
      <4> QED BY <2>2, <4>1, SumType
    <3> HIDE DEF rest
    <3> QED BY <2>3, <3>3, <3>4, <3>5
  <2> QED BY <2>4, <2>5
<1>3. P = Nat
  <2> HIDE DEF P
  <2>1. P \in SUBSET Nat
    BY DEF P
  <2> QED BY <1>1, <1>2, <2>1, SetInduction
<1>4. Cardinality(S) \in P
  BY <1>0, <1>3
<1> QED BY <1>4

LEMMA SumPut ==
  ASSUME NEW fun, NEW gun, NEW S, IsFiniteSet(S), NEW x, x \notin S, gun[x] \in Int,
         \A y \in S : fun[y] \in Int /\ gun[y] = fun[y]
  PROVE  /\ SumFunctionOnSet(gun, S \cup {x}) = SumFunctionOnSet(fun, S) + gun[x]
         /\ SumFunctionOnSet(fun, S) \in Int
<1> DEFINE more == S \cup {x}
<1>1. IsFiniteSet(more) /\ x \in more /\ more \ {x} = S /\ \A y \in more : gun[y] \in Int
  BY FS_AddElement
<1>2. SumFunctionOnSet(fun, S) \in Int /\ SumFunctionOnSet(gun, S) = SumFunctionOnSet(fun, S)
  BY SumType, SumSame
<1> HIDE DEF more
<1>3. SumFunctionOnSet(gun, more) = gun[x] + SumFunctionOnSet(gun, more \ {x})
  BY <1>1, SumTake
<1>4. SumFunctionOnSet(gun, more \ {x}) = SumFunctionOnSet(fun, S)
  BY <1>1, <1>2
<1>5. SumFunctionOnSet(gun, more) = SumFunctionOnSet(fun, S) + gun[x]
  BY <1>2, <1>3, <1>4
<1> QED BY <1>2, <1>5 DEF more

LEMMA SumOut ==
  ASSUME NEW fun, NEW gun, NEW S, IsFiniteSet(S), NEW x \in S, \A y \in S : fun[y] \in Int,
         \A y \in S \ {x} : gun[y] = fun[y]
  PROVE  /\ SumFunctionOnSet(gun, S \ {x}) = SumFunctionOnSet(fun, S) - fun[x]
         /\ SumFunctionOnSet(fun, S) \in Int
<1> DEFINE less == S \ {x}
<1>1. IsFiniteSet(less) /\ \A y \in less : fun[y] \in Int /\ gun[y] = fun[y]
  BY FS_RemoveElement
<1>2. SumFunctionOnSet(fun, S) = fun[x] + SumFunctionOnSet(fun, less)
  BY SumTake
<1> HIDE DEF less
<1>3. SumFunctionOnSet(fun, less) \in Int /\ SumFunctionOnSet(gun, less) = SumFunctionOnSet(fun, less)
  BY <1>1, SumType, SumSame
<1> QED BY <1>2, <1>3 DEF less

LEMMA SumNone == \A fun : SumFunctionOnSet(fun, {}) = 0
BY SumStep, FS_EmptySet

-----------------------------------------------------------------------------
(* Totals of transactions.                                                 *)
LEMMA TotalPut ==
  ASSUME NEW txns, IsFiniteSet(txns), txns \subseteq Transactions, NEW t \in Transactions, t \notin txns
  PROVE  /\ Total(txns \cup {t}) = Total(txns) + t.amount
         /\ Total(txns) \in Int /\ t.amount \in Nat
<1> DEFINE fun == [s \in txns |-> s.amount]
           gun == [s \in txns \cup {t} |-> s.amount]
<1>1. /\ \A s \in txns : fun[s] \in Int /\ gun[s] = fun[s]
      /\ gun[t] = t.amount /\ t.amount \in Nat
  BY DEF Transactions
<1> HIDE DEF fun, gun
<1>2. /\ SumFunctionOnSet(gun, txns \cup {t}) = SumFunctionOnSet(fun, txns) + gun[t]
      /\ SumFunctionOnSet(fun, txns) \in Int
  BY <1>1, SumPut
<1> QED BY <1>1, <1>2 DEF Total, fun, gun

(* ledger.post keeps every balance what its entries add up to.             *)
Reconciled(b) == \A a \in Accounts : b.balance[a] = Recounted(b, a)

LEMMA PostReconciled ==
  ASSUME NEW b \in Books, NEW t \in Transactions, IsFiniteSet(b.txns), t.src # t.dst, Reconciled(b)
  PROVE  Reconciled(Post(b, t))
<1>1. CASE Posted(b, t.key)
  BY <1>1, PostKeys
<1>2. CASE ~Posted(b, t.key)
  <2> SUFFICES ASSUME NEW a \in Accounts PROVE Post(b, t).balance[a] = Recounted(Post(b, t), a)
    BY DEF Reconciled
  <2> DEFINE into == {s \in b.txns : s.dst = a}
             from == {s \in b.txns : s.src = a}
             into2 == {s \in Post(b, t).txns : s.dst = a}
             from2 == {s \in Post(b, t).txns : s.src = a}
  <2>1. Post(b, t).txns = b.txns \cup {t} /\ t \notin b.txns /\ b.txns \subseteq Transactions
    BY <1>2, PostKeys DEF Posted, Books
  <2>2. /\ IsFiniteSet(into) /\ into \subseteq Transactions /\ t \notin into
        /\ IsFiniteSet(from) /\ from \subseteq Transactions /\ t \notin from
    BY <2>1, FS_Subset
  <2>3. /\ into2 = IF t.dst = a THEN into \cup {t} ELSE into
        /\ from2 = IF t.src = a THEN from \cup {t} ELSE from
    BY <2>1
  <2>4. b.balance[a] = Total(into) - Total(from)
    BY DEF Reconciled, Recounted
  <2>5. Recounted(Post(b, t), a) = Total(into2) - Total(from2)
    BY DEF Recounted
  <2>6. /\ Post(b, t).balance[t.src] = b.balance[t.src] - t.amount
        /\ Post(b, t).balance[t.dst] = b.balance[t.dst] + t.amount
        /\ a \notin {t.src, t.dst} => Post(b, t).balance[a] = b.balance[a]
    BY <1>2, PostMoves
  <2> HIDE DEF into, from, into2, from2
  <2>7. /\ Total(into \cup {t}) = Total(into) + t.amount
        /\ Total(from \cup {t}) = Total(from) + t.amount
        /\ Total(into) \in Int /\ Total(from) \in Int /\ t.amount \in Nat
    BY <2>2, TotalPut
  <2>8. CASE t.src = a
    <3>1. Total(into2) = Total(into) /\ Total(from2) = Total(from) + t.amount
      BY <2>3, <2>7, <2>8
    <3> QED BY <2>4, <2>5, <2>6, <2>7, <2>8, <3>1
  <2>9. CASE t.dst = a
    <3>1. Total(into2) = Total(into) + t.amount /\ Total(from2) = Total(from)
      BY <2>3, <2>7, <2>9
    <3> QED BY <2>4, <2>5, <2>6, <2>7, <2>9, <3>1
  <2>10. CASE a \notin {t.src, t.dst}
    BY <2>3, <2>4, <2>5, <2>6, <2>10
  <2> QED BY <2>8, <2>9, <2>10
<1> QED BY <1>1, <1>2

(* What was recorded into the pool.                                        *)
Recorded(b) == {t \in b.txns : t.kind = "FUNDING"}

LEMMA PostRecorded ==
  ASSUME NEW b \in Books, NEW t \in Transactions, IsFiniteSet(b.txns), ~Posted(b, t.key)
  PROVE  /\ Total(Recorded(b)) \in Int /\ t.amount \in Nat
         /\ t.kind = "FUNDING" => Total(Recorded(Post(b, t))) = Total(Recorded(b)) + t.amount
         /\ t.kind # "FUNDING" => Recorded(Post(b, t)) = Recorded(b)
<1>1. Post(b, t).txns = b.txns \cup {t} /\ t \notin b.txns /\ b.txns \subseteq Transactions
  BY PostKeys DEF Posted, Books
<1>2. IsFiniteSet(Recorded(b)) /\ Recorded(b) \subseteq Transactions /\ t \notin Recorded(b)
  BY <1>1, FS_Subset DEF Recorded
<1>3. Recorded(Post(b, t)) = IF t.kind = "FUNDING" THEN Recorded(b) \cup {t} ELSE Recorded(b)
  BY <1>1 DEF Recorded
<1>4. Total(Recorded(b) \cup {t}) = Total(Recorded(b)) + t.amount /\ Total(Recorded(b)) \in Int
      /\ t.amount \in Nat
  BY <1>2, TotalPut
<1> QED BY <1>3, <1>4

-----------------------------------------------------------------------------
(* Sums of the amounts of rows: of a set of them, where one more row joins *)
(* the table, and of a table indexed by ids, where one row comes or goes.  *)
LEMMA AmountsPut ==
  ASSUME NEW R, IsFiniteSet(R), NEW row, row \notin R, row.amount \in Int,
         \A r \in R : r.amount \in Int, NEW S, S \subseteq R
  PROVE  LET before == [r \in R |-> r.amount]
             after  == [r \in R \cup {row} |-> r.amount]
         IN  /\ SumFunctionOnSet(after, S \cup {row}) = SumFunctionOnSet(before, S) + row.amount
             /\ SumFunctionOnSet(after, S) = SumFunctionOnSet(before, S)
             /\ SumFunctionOnSet(before, S) \in Int
<1> DEFINE before == [r \in R |-> r.amount]
           after  == [r \in R \cup {row} |-> r.amount]
<1>1. IsFiniteSet(S) /\ row \notin S
  BY FS_Subset
<1>2. \A r \in S : before[r] \in Int /\ after[r] = before[r]
  OBVIOUS
<1>3. after[row] = row.amount
  OBVIOUS
<1> HIDE DEF before, after
<1>4. /\ SumFunctionOnSet(after, S \cup {row}) = SumFunctionOnSet(before, S) + after[row]
      /\ SumFunctionOnSet(before, S) \in Int
  BY <1>1, <1>2, <1>3, SumPut
<1>5. SumFunctionOnSet(before, S) = SumFunctionOnSet(after, S)
  BY <1>1, <1>2, SumSame
<1> QED BY <1>3, <1>4, <1>5 DEF before, after

RowSum(table, rows) == SumFunctionOnSet([w \in rows |-> table[w].amount], rows)

LEMMA RowSumSame ==
  ASSUME NEW table, NEW after, NEW rows, IsFiniteSet(rows),
         \A w \in rows : table[w].amount \in Int /\ after[w].amount = table[w].amount
  PROVE  RowSum(after, rows) = RowSum(table, rows) /\ RowSum(table, rows) \in Int
<1> DEFINE fun == [w \in rows |-> table[w].amount]
           gun == [w \in rows |-> after[w].amount]
<1>1. \A w \in rows : fun[w] \in Int /\ gun[w] = fun[w]
  OBVIOUS
<1> HIDE DEF fun, gun
<1>2. SumFunctionOnSet(gun, rows) = SumFunctionOnSet(fun, rows) /\ SumFunctionOnSet(fun, rows) \in Int
  BY <1>1, SumSame, SumType
<1> QED BY <1>2 DEF RowSum, fun, gun

LEMMA RowSumPut ==
  ASSUME NEW table, NEW after, NEW rows, IsFiniteSet(rows), NEW w, w \notin rows,
         after[w].amount \in Int,
         \A v \in rows : table[v].amount \in Int /\ after[v].amount = table[v].amount
  PROVE  /\ RowSum(after, rows \cup {w}) = RowSum(table, rows) + after[w].amount
         /\ RowSum(table, rows) \in Int
<1> DEFINE fun == [v \in rows |-> table[v].amount]
           gun == [v \in rows \cup {w} |-> after[v].amount]
<1>1. \A v \in rows : fun[v] \in Int /\ gun[v] = fun[v]
  OBVIOUS
<1>2. gun[w] = after[w].amount
  OBVIOUS
<1> HIDE DEF fun, gun
<1>3. /\ SumFunctionOnSet(gun, rows \cup {w}) = SumFunctionOnSet(fun, rows) + gun[w]
      /\ SumFunctionOnSet(fun, rows) \in Int
  BY <1>1, <1>2, SumPut
<1> QED BY <1>2, <1>3 DEF RowSum, fun, gun

LEMMA RowSumOut ==
  ASSUME NEW table, NEW after, NEW rows, IsFiniteSet(rows), NEW w \in rows,
         \A v \in rows : table[v].amount \in Int,
         \A v \in rows \ {w} : after[v].amount = table[v].amount
  PROVE  /\ RowSum(after, rows \ {w}) = RowSum(table, rows) - table[w].amount
         /\ RowSum(table, rows) \in Int
<1> DEFINE fun == [v \in rows |-> table[v].amount]
           gun == [v \in rows \ {w} |-> after[v].amount]
<1>1. (\A v \in rows : fun[v] \in Int) /\ (\A v \in rows \ {w} : gun[v] = fun[v])
  OBVIOUS
<1>2. fun[w] = table[w].amount
  OBVIOUS
<1> HIDE DEF fun, gun
<1>3. /\ SumFunctionOnSet(gun, rows \ {w}) = SumFunctionOnSet(fun, rows) - fun[w]
      /\ SumFunctionOnSet(fun, rows) \in Int
  BY <1>1, SumOut
<1> QED BY <1>2, <1>3 DEF RowSum, fun, gun

-----------------------------------------------------------------------------
(* Part 1: types.  Beyond TypeOK the step needs to know that the ledger is *)
(* finite (the unlock key counts entries) and what a handler in flight     *)
(* remembers.                                                              *)
TasksOK ==
  \A h \in Handlers :
    /\ handler[h].op # "idle" => handler[h].user \in Users
    /\ handler[h].op \in {"withdraw", "bank", "flag"} => handler[h].account \in BankAccounts
    /\ handler[h].op = "withdraw" => handler[h].amount > 0
    /\ handler[h].op = "verify" /\ handler[h].amount > 0
         => Referrer[handler[h].user] \in Users

Typed == TypeOK /\ IsFiniteSet(book.txns) /\ TasksOK

(* Each transaction the program builds is one, between two accounts.       *)
LEMMA TxnsTyped ==
  ASSUME Typed
  PROVE  /\ \A nonce \in Nonces, amount \in Nat :
              Transfer("FUNDING", FundingKey(nonce), Funding, Pool, amount) \in Transactions
         /\ \A u \in Users, amount \in Nat : Referrer[u] \in Users =>
              RewardTxn(u, amount) \in Transactions
         /\ \A u \in Users : UnlockTxn(u) \in Transactions
         /\ \A w \in Nat, u \in Users, amount \in Nat : HoldTxn(w, u, amount) \in Transactions
         /\ \A w \in Ids : PaidTxn(w) \in Transactions /\ ReturnTxn(w) \in Transactions
<1> USE AccountFacts DEF Typed, TypeOK, Transfer, Transactions, Keys, TxnKinds
<1>1. \A nonce \in Nonces, amount \in Nat :
        Transfer("FUNDING", FundingKey(nonce), Funding, Pool, amount) \in Transactions
  BY DEF FundingKey
<1>2. \A u \in Users, amount \in Nat : Referrer[u] \in Users =>
        RewardTxn(u, amount) \in Transactions
  BY DEF RewardTxn, RewardKey
<1>3. \A u \in Users : UnlockTxn(u) \in Transactions
  <2> TAKE u \in Users
  <2>1. LastEntry(book, Pending(u)) \in Nat
    <3>1. IsFiniteSet(Entries(book, Pending(u)))
      BY FS_Subset DEF Entries
    <3> QED BY <3>1, FS_CardinalityType DEF LastEntry
  <2>2. book.balance[Pending(u)] \in Nat
    BY DEF Books, Solvent
  <2> QED BY <2>1, <2>2 DEF UnlockTxn, UnlockKey
<1>4. \A w \in Nat, u \in Users, amount \in Nat : HoldTxn(w, u, amount) \in Transactions
  BY DEF HoldTxn, HoldKey
<1>5. \A w \in Ids : PaidTxn(w) \in Transactions /\ ReturnTxn(w) \in Transactions
  <2> TAKE w \in Ids
  <2>1. w \in Nat /\ withdrawals[w] \in WithdrawalRows
    BY DEF Ids
  <2> QED BY <2>1 DEF PaidTxn, ReturnTxn, SettleKey, WithdrawalRows
<1> QED BY <1>1, <1>2, <1>3, <1>4, <1>5

LEMMA BookTyped ==
  ASSUME NEW b \in Books, NEW t \in Transactions, Solvent(b), IsFiniteSet(b.txns), Covers(b, t)
  PROVE  Post(b, t) \in Books /\ Solvent(Post(b, t)) /\ IsFiniteSet(Post(b, t).txns)
BY PostTyped, FS_AddElement DEF Post

(* Unlocking keeps the book a book and leaves nothing negative.            *)
LEMMA UnlockedTyped ==
  ASSUME Typed, NEW u \in Users
  PROVE  Unlocked(u) \in Books /\ Solvent(Unlocked(u)) /\ IsFiniteSet(Unlocked(u).txns)
<1>1. UnlockTxn(u) \in Transactions
  BY TxnsTyped
<1>2. Covers(book, UnlockTxn(u))
  BY AccountFacts DEF Typed, TypeOK, Covers, UnlockTxn, Transfer, Books
<1>3. Post(book, UnlockTxn(u)) \in Books /\ Solvent(Post(book, UnlockTxn(u)))
      /\ IsFiniteSet(Post(book, UnlockTxn(u)).txns)
  BY <1>1, <1>2, BookTyped DEF Typed, TypeOK
<1> QED BY <1>3 DEF Unlocked, Typed, TypeOK

(* The two tables are sequences.                                           *)
LEMMA TablesTyped ==
  ASSUME Typed
  PROVE  /\ Len(withdrawals) \in Nat /\ Ids = 1 .. Len(withdrawals)
         /\ withdrawals \in [1 .. Len(withdrawals) -> WithdrawalRows]
         /\ Len(batches) \in Nat /\ DOMAIN batches = 1 .. Len(batches)
<1>1. withdrawals \in Seq(WithdrawalRows) /\ batches \in Seq(Range(batches))
  BY DEF Typed, TypeOK
<1> QED BY <1>1, LenProperties DEF Ids

LEMMA BatchesTyped ==
  ASSUME Typed, NEW b
  PROVE  Append(batches, b) \in Seq(Range(Append(batches, b)))
<1> DEFINE more == Append(batches, b)
<1>1. more \in Seq(Range(batches) \cup {b})
  <2>1. batches \in Seq(Range(batches) \cup {b})
    BY SeqMonotonic DEF Typed, TypeOK
  <2> QED BY <2>1, AppendProperties
<1> HIDE DEF more
<1>2. Len(more) \in Nat /\ DOMAIN more = 1 .. Len(more) /\ more = [i \in DOMAIN more |-> more[i]]
  BY <1>1, LenProperties
<1>3. more \in [1 .. Len(more) -> Range(more)]
  BY <1>2 DEF Range
<1>4. more \in Seq(Range(more))
  BY <1>2, <1>3
<1> QED BY <1>4 DEF more

LEMMA FunctionIsSeq ==
  ASSUME NEW S, NEW n \in Nat, NEW f \in [1 .. n -> S]
  PROVE  f \in Seq(S) /\ Len(f) = n
OBVIOUS

(* Putting rows in a batch keeps the table a table.                        *)
LEMMA BatchedTyped ==
  ASSUME Typed, NEW chosen
  PROVE  [w \in Ids |->
           IF w \in chosen
           THEN [withdrawals[w] EXCEPT !.status = "PROCESSING", !.batch = Len(batches) + 1]
           ELSE withdrawals[w]] \in Seq(WithdrawalRows)
<1> DEFINE moved(w) == [withdrawals[w] EXCEPT !.status = "PROCESSING", !.batch = Len(batches) + 1]
           table == [w \in Ids |-> IF w \in chosen THEN moved(w) ELSE withdrawals[w]]
<1>1. ASSUME NEW w \in Ids PROVE withdrawals[w] \in WithdrawalRows /\ moved(w) \in WithdrawalRows
  <2>1. withdrawals[w] \in WithdrawalRows /\ Len(batches) + 1 \in Nat
    BY TablesTyped
  <2> QED BY <2>1 DEF WithdrawalRows
<1> HIDE DEF moved
<1>2. table \in [Ids -> WithdrawalRows]
  BY <1>1
<1> HIDE DEF table
<1>3. table \in Seq(WithdrawalRows)
  BY <1>2, TablesTyped, FunctionIsSeq
<1> QED BY <1>3 DEF table, moved

LEMMA TypedInit == Init => Typed
<1> SUFFICES ASSUME Init PROVE Typed
  OBVIOUS
<1> USE PayoutsAssumption DEF Init
<1>1. Idle \in Tasks
  BY DEF Idle, Tasks
<1>2. EmptyBook \in Books /\ Solvent(EmptyBook) /\ IsFiniteSet(EmptyBook.txns)
  BY FS_EmptySet DEF EmptyBook, Books, Solvent
<1>3. withdrawals \in Seq(WithdrawalRows) /\ batches \in Seq(Range(batches))
  BY EmptySeq
<1>4. TypeOK
  BY <1>1, <1>2, <1>3 DEF TypeOK, Statuses
<1>5. TasksOK
  BY DEF TasksOK, Idle
<1> QED BY <1>2, <1>4, <1>5 DEF Typed

(* A withdrawal row is rewritten in place: the table stays a table.        *)
LEMMA RowsTyped ==
  ASSUME Typed, NEW w \in Ids, NEW s \in {"REQUESTED", "PROCESSING", "PAID", "FAILED"}
  PROVE  [withdrawals EXCEPT ![w].status = s] \in Seq(WithdrawalRows)
<1>1. w \in 1 .. Len(withdrawals) /\ withdrawals[w] \in WithdrawalRows
  BY DEF Typed, TypeOK, Ids
<1>2. [withdrawals[w] EXCEPT !.status = s] \in WithdrawalRows
  BY <1>1 DEF WithdrawalRows
<1> QED BY <1>1, <1>2, ExceptSeq DEF Typed, TypeOK

LEMMA TypedNext == Typed /\ [Next]_vars => Typed'
<1> SUFFICES ASSUME Typed, [Next]_vars PROVE Typed'
  OBVIOUS
<1> USE PayoutsAssumption DEF Typed, TypeOK, money
<1>1. CASE Tick
  BY <1>1 DEF Tick, TasksOK
<1>2. ASSUME NEW c \in Settings, CampaignSave(c) PROVE Typed'
  BY <1>2 DEF CampaignSave, TasksOK
<1>3. ASSUME NEW nonce \in Nonces, NEW amount \in FundingAmounts, Fund(nonce, amount) PROVE Typed'
  <2> DEFINE t == Transfer("FUNDING", FundingKey(nonce), Funding, Pool, amount)
  <2>1. t \in Transactions
    BY TxnsTyped
  <2>2. Covers(book, t)
    BY DEF Covers, Transfer
  <2>3. book' \in Books /\ Solvent(book') /\ IsFiniteSet(book'.txns)
    BY <1>3, <2>1, <2>2, BookTyped DEF Fund
  <2> QED BY <1>3, <2>3 DEF Fund, TasksOK
<1>4. ASSUME NEW u \in Users, SignUp(u) PROVE Typed'
  BY <1>4 DEF SignUp, TasksOK, Statuses
<1>5. ASSUME NEW u \in Users, UnlockWallet(u) PROVE Typed'
  BY <1>5, UnlockedTyped DEF UnlockWallet, TasksOK
<1>6. ASSUME NEW u \in Users, Suspend(u) PROVE Typed'
  BY <1>6 DEF Suspend, TasksOK, Statuses
<1>7. ASSUME NEW u \in Users, Unsuspend(u) PROVE Typed'
  BY <1>7 DEF Unsuspend, TasksOK, Statuses
<1>8. ASSUME NEW flag \in flags, ResolveFlag(flag) PROVE Typed'
  BY <1>8 DEF ResolveFlag, TasksOK
<1>9. CASE CreateBatch
  <2> PICK chosen \in SUBSET Eligible :
        /\ withdrawals' = [w \in Ids |->
             IF w \in chosen
             THEN [withdrawals[w] EXCEPT !.status = "PROCESSING", !.batch = Len(batches) + 1]
             ELSE withdrawals[w]]
        /\ batches' = Append(batches, [count |-> Cardinality(chosen), total |-> RowTotal(chosen)])
    BY <1>9 DEF CreateBatch
  <2>1. UNCHANGED <<now, campaign, status, verified, bank, flags, book, rewards, handler>>
    BY <1>9 DEF CreateBatch
  <2>2. withdrawals' \in Seq(WithdrawalRows)
    BY BatchedTyped
  <2>3. batches' \in Seq(Range(batches'))
    BY BatchesTyped
  <2> QED BY <2>1, <2>2, <2>3 DEF TasksOK
<1>10. ASSUME NEW w \in Ids, MarkPaid(w) PROVE Typed'
  <2>1. book' \in Books /\ Solvent(book') /\ IsFiniteSet(book'.txns)
    BY <1>10, TxnsTyped, BookTyped DEF MarkPaid
  <2>2. withdrawals' \in Seq(WithdrawalRows)
    BY <1>10, RowsTyped DEF MarkPaid
  <2> QED BY <1>10, <2>1, <2>2 DEF MarkPaid, TasksOK
<1>11. ASSUME NEW w \in Ids, MarkFailed(w) PROVE Typed'
  <2>1. book' \in Books /\ Solvent(book') /\ IsFiniteSet(book'.txns)
    BY <1>11, TxnsTyped, BookTyped DEF MarkFailed
  <2>2. withdrawals' \in Seq(WithdrawalRows)
    BY <1>11, RowsTyped DEF MarkFailed
  <2> QED BY <1>11, <2>1, <2>2 DEF MarkFailed, TasksOK
<1>12. ASSUME NEW h \in Handlers, AdmitVerify(h) PROVE Typed'
  <2>u. PICK u \in Users : u = handler[h].user
    BY <1>12 DEF AdmitVerify, TasksOK
  <2>1. Offer(u) \in Nat /\ (Offer(u) > 0 => Referrer[u] \in Users)
    BY DEF Offer, Campaigns
  <2>2. Task("verify", u, Offer(u), NoAccount) \in Tasks
    BY <2>1 DEF Task, Tasks, Idle
  <2> QED BY <1>12, <2>u, <2>1, <2>2 DEF AdmitVerify, TasksOK, Task, Idle
<1>13. ASSUME NEW h \in Handlers, NEW u \in Users, NEW amount \in WithdrawalAmounts,
              AdmitWithdrawal(h, u, amount)
       PROVE  Typed'
  <2>1. Task("withdraw", u, amount, bank[u]) \in Tasks /\ bank[u] \in BankAccounts
    BY <1>13 DEF Task, Tasks, Idle, AdmitWithdrawal
  <2> QED BY <1>13, <2>1 DEF AdmitWithdrawal, TasksOK, Task, Idle
<1>14. ASSUME NEW h \in Handlers, NEW u \in Users, NEW account \in BankAccounts,
              AdmitBank(h, u, account)
       PROVE  Typed'
  <2>1. Task("bank", u, 0, account) \in Tasks
    BY DEF Task, Tasks, Idle
  <2> QED BY <1>14, <2>1 DEF AdmitBank, TasksOK, Task, Idle
<1>15. ASSUME NEW h \in Handlers, CommitVerify(h) PROVE Typed'
  <2> DEFINE u == handler[h].user
             offer == handler[h].amount
             reward == RewardRow(u, offer)
  <2>1. u \in Users /\ offer \in Nat /\ (offer > 0 => Referrer[u] \in Users)
    BY <1>15 DEF CommitVerify, TasksOK, Tasks
  <2>2. book' \in Books /\ Solvent(book') /\ IsFiniteSet(book'.txns) /\ rewards' \subseteq Rewards
    <3>1. CASE book' = Post(book, RewardTxn(u, offer)) /\ rewards' = rewards \cup {reward}
               /\ offer > 0 /\ book.balance[Pool] >= offer
      <4>1. RewardTxn(u, offer) \in Transactions /\ Covers(book, RewardTxn(u, offer))
        BY <2>1, <3>1, TxnsTyped DEF Covers, RewardTxn, Transfer
      <4>2. reward \in Rewards
        BY <2>1, <3>1 DEF Rewards, RewardRow
      <4> QED BY <3>1, <4>1, <4>2, BookTyped
    <3>2. CASE UNCHANGED <<book, rewards>>
      BY <3>2
    <3> QED BY <1>15, <3>1, <3>2 DEF CommitVerify, Funded
  <2>3. flags' \subseteq Users \X FlagKinds
    BY <1>15, <2>1 DEF CommitVerify, FlagKinds
  <2>4. status' \in [Users -> Statuses] /\ verified' \subseteq Users
    BY <1>15, <2>1 DEF CommitVerify, Statuses
  <2>5. handler' \in [Handlers -> Tasks] /\ TasksOK'
    BY <1>15 DEF CommitVerify, TasksOK, Idle, Tasks
  <2>6. UNCHANGED <<now, campaign, bank, withdrawals, batches>>
    BY <1>15 DEF CommitVerify
  <2> QED BY <2>2, <2>3, <2>4, <2>5, <2>6
<1>16. ASSUME NEW h \in Handlers, HoldWithdrawal(h) PROVE Typed'
  <2> DEFINE u == handler[h].user
             amount == handler[h].amount
             w == Len(withdrawals) + 1
             row == [user |-> u, amount |-> amount, account |-> handler[h].account,
                     batch |-> 0, status |-> "REQUESTED"]
  <2>1. u \in Users /\ amount \in Nat /\ handler[h].account \in BankAccounts
    BY <1>16 DEF HoldWithdrawal, TasksOK, Tasks
  <2>2. book' \in Books /\ Solvent(book') /\ IsFiniteSet(book'.txns)
    <3>1. HoldTxn(w, u, amount) \in Transactions
      BY <2>1, TxnsTyped, TablesTyped
    <3>2. Covers(Unlocked(u), HoldTxn(w, u, amount))
      BY <1>16 DEF HoldWithdrawal, Enough, Covers, HoldTxn, Transfer
    <3> QED BY <1>16, <2>1, <3>1, <3>2, UnlockedTyped, BookTyped DEF HoldWithdrawal
  <2>3. row \in WithdrawalRows
    BY <2>1 DEF WithdrawalRows
  <2>4. withdrawals' \in Seq(WithdrawalRows)
    BY <1>16, <2>3, AppendProperties DEF HoldWithdrawal
  <2>5. handler' \in [Handlers -> Tasks] /\ TasksOK'
    BY <1>16 DEF HoldWithdrawal, TasksOK, Idle, Tasks
  <2>6. UNCHANGED <<now, campaign, status, verified, bank, flags, rewards, batches>>
    BY <1>16 DEF HoldWithdrawal
  <2> QED BY <2>2, <2>4, <2>5, <2>6
<1>17. ASSUME NEW h \in Handlers, ScanBank(h) PROVE Typed'
  <2> DEFINE owners == {v \in Users \ {handler[h].user} : bank[v] = handler[h].account}
             task   == [handler[h] EXCEPT !.op = "flag", !.others = owners]
  <2>1. handler' = [handler EXCEPT ![h] = task]
    BY <1>17 DEF ScanBank
  <2>2. task \in Tasks
    BY DEF Tasks
  <2>3. handler' \in [Handlers -> Tasks] /\ TasksOK'
    <3>1. h \in Handlers /\ handler \in [Handlers -> Tasks] /\ task.op \notin {"verify", "contact"}
      BY DEF TasksOK
    <3>2. handler' \in [Handlers -> Tasks]
      BY <2>1, <2>2, <3>1
    <3> HIDE DEF task
    <3>3. handler'[h] = task /\ \A g \in Handlers \ {h} : handler'[g] = handler[g]
      BY <2>1, <3>1
    <3> QED BY <1>17, <2>2, <3>1, <3>2, <3>3 DEF ScanBank, TasksOK
  <2> QED BY <1>17, <2>3 DEF ScanBank
<1>18. ASSUME NEW h \in Handlers, SaveBank(h) PROVE Typed'
  <2>1. handler[h].user \in Users /\ handler[h].account \in BankAccounts
        /\ handler[h].others \subseteq Users
    BY <1>18 DEF SaveBank, TasksOK, Tasks
  <2>2. flags' \subseteq Users \X FlagKinds
    BY <1>18, <2>1 DEF SaveBank, FlagKinds
  <2>3. handler' \in [Handlers -> Tasks] /\ TasksOK'
    BY <1>18 DEF SaveBank, TasksOK, Idle, Tasks
  <2> QED BY <1>18, <2>1, <2>2, <2>3 DEF SaveBank
<1>19. ASSUME NEW h \in Handlers, Abort(h) PROVE Typed'
  BY <1>19 DEF Abort, TasksOK, Idle, Tasks
<1>20. CASE UNCHANGED vars
  BY <1>20 DEF vars, TasksOK
<1>21. ASSUME NEW h \in Handlers, NEW u \in Users, ReadContact(h, u) PROVE Typed'
  <2>1. Task("contact", u, 0, NoAccount) \in Tasks
    BY DEF Task, Tasks, Idle
  <2> QED BY <1>21, <2>1 DEF ReadContact, TasksOK, Task, Idle
<1> QED
  BY <1>1, <1>2, <1>3, <1>4, <1>5, <1>6, <1>7, <1>8, <1>9, <1>10, <1>11, <1>12, <1>13,
     <1>14, <1>15, <1>16, <1>17, <1>18, <1>19, <1>20, <1>21
  DEF Next, Admin, Request
(* Type correctness, with no account but the company's below zero.         *)
THEOREM Typing == Spec => []TypeOK
<1>1. Typed => TypeOK
  BY DEF Typed
<1> QED BY TypedInit, TypedNext, <1>1, PTL DEF Spec

-----------------------------------------------------------------------------
(* Part 2: safety.  The inductive invariant says who is being verified,    *)
(* which idempotency keys are used, and that the rows and the ledger agree. *)

(* A verification in flight is alone with its user, who is still pending.  *)
Verifying(h) == handler[h].op \in {"contact", "verify"}

VerifyingOK ==
  /\ \A u \in Users : status[u] \in {"NONE", "PENDING_VERIFICATION"} => u \notin verified
  /\ \A h \in Handlers : Verifying(h) => /\ handler[h].user \notin verified
                                        /\ status[handler[h].user] # "NONE"
  /\ \A g, h \in Handlers :
       Verifying(g) /\ Verifying(h) /\ handler[g].user = handler[h].user => g = h

(* Every unlock key in a book names an entry before the account's last.    *)
UnlockKeysUsed(b) ==
  \A t \in b.txns : t.key.op = "unlock" =>
    t.key.ref \in Users /\ t.key.seq < LastEntry(b, Pending(t.key.ref))

AtMostOneActive ==
  \A v, w \in Ids : Active(v) /\ Active(w) /\ withdrawals[v].user = withdrawals[w].user => v = w

Safe ==
  /\ Typed
  /\ VerifyingOK
  /\ UnlockKeysUsed(book)
  /\ SettlementMatchesStatus
  /\ AtMostOneActive
  /\ RewardBacked

LEMMA KeyFacts ==
  /\ \A n : FundingKey(n).op = "funding"
  /\ \A u : RewardKey(u).op = "reward" /\ RewardKey(u).ref = u
  /\ \A u, n : UnlockKey(u, n).op = "unlock" /\ UnlockKey(u, n).ref = u /\ UnlockKey(u, n).seq = n
  /\ \A w : HoldKey(w).op = "hold" /\ HoldKey(w).ref = w
  /\ \A w : SettleKey(w).op = "settle" /\ SettleKey(w).ref = w
BY DEF FundingKey, RewardKey, UnlockKey, HoldKey, SettleKey

LEMMA TxnKeyFacts ==
  /\ \A u, amount : RewardTxn(u, amount).key = RewardKey(u)
  /\ \A u : UnlockTxn(u).key = UnlockKey(u, LastEntry(book, Pending(u)))
  /\ \A w, u, amount : HoldTxn(w, u, amount).key = HoldKey(w)
  /\ \A w : PaidTxn(w).key = SettleKey(w) /\ ReturnTxn(w).key = SettleKey(w)
  /\ \A w : PaidTxn(w) # ReturnTxn(w)
BY DEF RewardTxn, UnlockTxn, HoldTxn, PaidTxn, ReturnTxn, Transfer

(* Steps that touch no money and verify nobody.                            *)
Quiet == UNCHANGED <<verified, book, rewards, withdrawals>>

LEMMA MoneySteps ==
  ASSUME [Next]_vars
  PROVE  \/ Quiet
         \/ \E nonce \in Nonces, amount \in FundingAmounts : Fund(nonce, amount)
         \/ \E u \in Users : UnlockWallet(u)
         \/ \E h \in Handlers : CommitVerify(h) \/ HoldWithdrawal(h)
         \/ CreateBatch
         \/ \E w \in Ids : MarkPaid(w) \/ MarkFailed(w)
<1> USE DEF Quiet, money
<1>1. CASE UNCHANGED vars
  BY <1>1 DEF vars
<1>2. CASE Tick
  BY <1>2 DEF Tick
<1>3. CASE Admin
  BY <1>3 DEF Admin, CampaignSave, Suspend, Unsuspend, ResolveFlag
<1>4. CASE \E u \in Users : SignUp(u) \/ UnlockWallet(u)
  BY <1>4 DEF SignUp
<1>5. CASE \E h \in Handlers : Request(h)
  BY <1>5 DEF Request, ReadContact, AdmitVerify, AdmitWithdrawal, AdmitBank, ScanBank, SaveBank, Abort
<1> QED BY <1>1, <1>2, <1>3, <1>4, <1>5 DEF Next

LEMMA VerifyingNext == Typed /\ VerifyingOK /\ [Next]_vars => VerifyingOK'
<1> SUFFICES ASSUME Typed, VerifyingOK, [Next]_vars PROVE VerifyingOK'
  OBVIOUS
<1> USE DEF Typed, TypeOK, TasksOK, VerifyingOK, Verifying, money
<1>1. ASSUME NEW u \in Users, SignUp(u) PROVE VerifyingOK'
  BY <1>1 DEF SignUp
<1>2. ASSUME NEW u \in Users, Suspend(u) PROVE VerifyingOK'
  BY <1>2 DEF Suspend, RowLocked
<1>3. ASSUME NEW u \in Users, Unsuspend(u) PROVE VerifyingOK'
  BY <1>3 DEF Unsuspend, RowLocked
<1>4. ASSUME NEW h \in Handlers, AdmitVerify(h) PROVE VerifyingOK'
  BY <1>4 DEF AdmitVerify, Task, Idle
<1>11. ASSUME NEW h \in Handlers, NEW u \in Users, ReadContact(h, u) PROVE VerifyingOK'
  BY <1>11 DEF ReadContact, SessionLocked, Task, Idle
<1>5. ASSUME NEW h \in Handlers, CommitVerify(h) PROVE VerifyingOK'
  BY <1>5 DEF CommitVerify, Idle
<1>6. ASSUME UNCHANGED <<status, verified>>,
             \A h \in Handlers : Verifying(h)' => handler'[h] = handler[h]
      PROVE  VerifyingOK'
  BY <1>6
<1>7. ASSUME NEW h \in Handlers, NEW u \in Users, NEW amount \in WithdrawalAmounts,
             AdmitWithdrawal(h, u, amount)
      PROVE  VerifyingOK'
  BY <1>7 DEF AdmitWithdrawal, Task, Idle
<1>8. ASSUME NEW h \in Handlers, NEW u \in Users, NEW account \in BankAccounts,
             AdmitBank(h, u, account)
      PROVE  VerifyingOK'
  BY <1>8 DEF AdmitBank, Task, Idle
<1>9. ASSUME NEW h \in Handlers, HoldWithdrawal(h) \/ ScanBank(h) \/ SaveBank(h) \/ Abort(h)
      PROVE  VerifyingOK'
  <2>1. UNCHANGED <<status, verified>>
    BY <1>9 DEF HoldWithdrawal, ScanBank, SaveBank, Abort
  <2>2. \A g \in Handlers : Verifying(g)' => handler'[g] = handler[g]
    <3>1. CASE ScanBank(h)
      <4>1. handler'[h].op = "flag"
        BY <3>1 DEF ScanBank, Tasks
      <4> QED BY <3>1, <4>1 DEF ScanBank
    <3>2. CASE HoldWithdrawal(h) \/ SaveBank(h) \/ Abort(h)
      <4>1. handler' = [handler EXCEPT ![h] = Idle]
        BY <3>2 DEF HoldWithdrawal, SaveBank, Abort
      <4> QED BY <4>1 DEF Idle
    <3> QED BY <1>9, <3>1, <3>2
  <2> QED BY <1>6, <2>1, <2>2
<1>10. ASSUME \/ UNCHANGED vars
              \/ Tick
              \/ \E c \in Settings : CampaignSave(c)
              \/ \E nonce \in Nonces, amount \in FundingAmounts : Fund(nonce, amount)
              \/ \E flag \in flags : ResolveFlag(flag)
              \/ CreateBatch
              \/ \E w \in Ids : MarkPaid(w) \/ MarkFailed(w)
              \/ \E u \in Users : UnlockWallet(u)
       PROVE  VerifyingOK'
  <2>1. UNCHANGED <<status, verified, handler>>
    BY <1>10 DEF vars, Tick, CampaignSave, Fund, ResolveFlag, CreateBatch, MarkPaid, MarkFailed,
                 UnlockWallet
  <2> QED BY <1>6, <2>1
<1> QED BY <1>1, <1>2, <1>3, <1>4, <1>5, <1>7, <1>8, <1>9, <1>10, <1>11 DEF Next, Admin, Request


(* Posting anything but an unlock keeps the used unlock keys behind, and   *)
(* so does an unlock keyed by the last entry of the account it empties.    *)
LEMMA UnlockKeysKept ==
  ASSUME NEW b \in Books, NEW t \in Transactions, IsFiniteSet(b.txns), UnlockKeysUsed(b),
         t.key.op = "unlock" =>
           /\ t.key.ref \in Users
           /\ t.src = Pending(t.key.ref)
           /\ t.key.seq = LastEntry(b, Pending(t.key.ref))
  PROVE  UnlockKeysUsed(Post(b, t))
<1> SUFFICES ASSUME NEW s \in Post(b, t).txns, s.key.op = "unlock"
             PROVE  s.key.ref \in Users /\ s.key.seq < LastEntry(Post(b, t), Pending(s.key.ref))
  BY DEF UnlockKeysUsed
<1> DEFINE u == s.key.ref
<1>1. s \in b.txns \/ (~Posted(b, t.key) /\ s = t)
  BY DEF Post
<1>2. CASE s \in b.txns
  <2>1. u \in Users /\ s.key.seq < LastEntry(b, Pending(u)) /\ s.key.seq \in Nat
    BY <1>2 DEF UnlockKeysUsed, Books, Transactions, Keys
  <2>2. LastEntry(Post(b, t), Pending(u)) >= LastEntry(b, Pending(u))
        /\ LastEntry(b, Pending(u)) \in Nat /\ LastEntry(Post(b, t), Pending(u)) \in Nat
    BY <2>1, AccountFacts, LastEntryGrows
  <2> QED BY <2>1, <2>2
<1>3. CASE ~Posted(b, t.key) /\ s = t
  <2>1. u \in Users /\ t.src = Pending(u) /\ t.key.seq = LastEntry(b, Pending(u))
    BY <1>3
  <2>2. LastEntry(Post(b, t), Pending(u)) = LastEntry(b, Pending(u)) + 1
        /\ LastEntry(b, Pending(u)) \in Nat
    BY <1>3, <2>1, AccountFacts, LastEntryGrows
  <2> QED BY <1>3, <2>1, <2>2
<1> QED BY <1>1, <1>2, <1>3

LEMMA UnlockedKeys ==
  ASSUME Typed, UnlockKeysUsed(book), NEW u \in Users
  PROVE  UnlockKeysUsed(Unlocked(u)) /\ ~Posted(book, UnlockTxn(u).key)
<1>1. UnlockTxn(u) \in Transactions
  BY TxnsTyped
<1>2. UnlockTxn(u).key = UnlockKey(u, LastEntry(book, Pending(u))) /\ UnlockTxn(u).src = Pending(u)
  BY DEF UnlockTxn, Transfer
<1>3. UnlockKeysUsed(Post(book, UnlockTxn(u)))
  BY <1>1, <1>2, KeyFacts, UnlockKeysKept DEF Typed, TypeOK
<1>4. LastEntry(book, Pending(u)) \in Nat
  BY AccountFacts, LastEntryGrows, <1>1 DEF Typed, TypeOK
<1>5. ~Posted(book, UnlockTxn(u).key)
  BY <1>2, <1>4, KeyFacts DEF Posted, UnlockKeysUsed
<1> QED BY <1>3, <1>5 DEF Unlocked

LEMMA UnlockKeysNext ==
  Typed /\ UnlockKeysUsed(book) /\ [Next]_vars => UnlockKeysUsed(book)'
<1> SUFFICES ASSUME Typed, UnlockKeysUsed(book), [Next]_vars
             PROVE  UnlockKeysUsed(book')
  OBVIOUS
<1> USE DEF Typed, TypeOK
<1>1. ASSUME NEW t \in Transactions, t.key.op # "unlock", book' = Post(book, t)
      PROVE  UnlockKeysUsed(book')
  BY <1>1, UnlockKeysKept
<1>2. CASE Quiet \/ CreateBatch
  BY <1>2 DEF Quiet, CreateBatch
<1>3. ASSUME NEW nonce \in Nonces, NEW amount \in FundingAmounts, Fund(nonce, amount)
      PROVE  UnlockKeysUsed(book')
  <2>1. Transfer("FUNDING", FundingKey(nonce), Funding, Pool, amount) \in Transactions
    BY TxnsTyped, PayoutsAssumption
  <2> QED BY <1>1, <1>3, <2>1, KeyFacts DEF Fund, Transfer
<1>4. ASSUME NEW u \in Users, UnlockWallet(u) PROVE UnlockKeysUsed(book')
  BY <1>4, UnlockedKeys DEF UnlockWallet
<1>5. ASSUME NEW h \in Handlers, CommitVerify(h) PROVE UnlockKeysUsed(book')
  <2> DEFINE u == handler[h].user
             t == RewardTxn(u, handler[h].amount)
  <2>1. CASE book' = book
    BY <2>1
  <2>2. CASE book' = Post(book, t) /\ handler[h].amount > 0
    <3>1. t \in Transactions
      BY <1>5, <2>2, TxnsTyped DEF CommitVerify, TasksOK, Tasks
    <3> QED BY <1>1, <2>2, <3>1, KeyFacts, TxnKeyFacts
  <2> QED BY <1>5, <2>1, <2>2 DEF CommitVerify, Funded
<1>6. ASSUME NEW h \in Handlers, HoldWithdrawal(h) PROVE UnlockKeysUsed(book')
  <2> DEFINE u == handler[h].user
             t == HoldTxn(Len(withdrawals) + 1, u, handler[h].amount)
  <2>1. u \in Users /\ t \in Transactions
    BY <1>6, TxnsTyped, TablesTyped DEF HoldWithdrawal, TasksOK, Tasks
  <2>2. t.key.op # "unlock"
    BY KeyFacts, TxnKeyFacts
  <2>3. Unlocked(u) \in Books /\ IsFiniteSet(Unlocked(u).txns) /\ UnlockKeysUsed(Unlocked(u))
    BY <2>1, UnlockedTyped, UnlockedKeys
  <2>4. UnlockKeysUsed(Post(Unlocked(u), t))
    BY <2>1, <2>2, <2>3, UnlockKeysKept
  <2> QED BY <1>6, <2>4 DEF HoldWithdrawal
<1>7. ASSUME NEW w \in Ids, MarkPaid(w) \/ MarkFailed(w) PROVE UnlockKeysUsed(book')
  <2>1. PaidTxn(w) \in Transactions /\ ReturnTxn(w) \in Transactions
    BY TxnsTyped
  <2>2. PaidTxn(w).key.op # "unlock" /\ ReturnTxn(w).key.op # "unlock"
    BY KeyFacts, TxnKeyFacts
  <2>3. book' = Post(book, PaidTxn(w)) \/ book' = Post(book, ReturnTxn(w))
    BY <1>7 DEF MarkPaid, MarkFailed
  <2> QED BY <1>1, <2>1, <2>2, <2>3
<1> QED BY <1>2, <1>3, <1>4, <1>5, <1>6, <1>7, MoneySteps


(* Rows and ledger keep agreeing when a transaction of another kind is     *)
(* posted and no row changes.                                              *)
LEMMA SettlementKept ==
  ASSUME SettlementMatchesStatus, withdrawals' = withdrawals,
         NEW t, t.key.op \notin {"hold", "settle"},
         book'.txns = book.txns \/ book'.txns = book.txns \cup {t}
  PROVE  SettlementMatchesStatus'
<1> USE KeyFacts, TxnKeyFacts
<1>1. Ids' = Ids /\ \A w \in Ids : /\ Active(w)' = Active(w)
                                   /\ PaidTxn(w)' = PaidTxn(w)
                                   /\ ReturnTxn(w)' = ReturnTxn(w)
  BY DEF Ids, Active, PaidTxn, ReturnTxn
<1>2. \A w, u, amount : HoldTxn(w, u, amount) \in book'.txns <=> HoldTxn(w, u, amount) \in book.txns
  OBVIOUS
<1>3. \A w \in Ids : /\ PaidTxn(w) \in book'.txns <=> PaidTxn(w) \in book.txns
                     /\ ReturnTxn(w) \in book'.txns <=> ReturnTxn(w) \in book.txns
                     /\ Posted(book', SettleKey(w)) <=> Posted(book, SettleKey(w))
  BY DEF Posted
<1> QED BY <1>1, <1>2, <1>3 DEF SettlementMatchesStatus

LEMMA UnlockedTxns ==
  ASSUME NEW u
  PROVE  Unlocked(u).txns = book.txns \/ Unlocked(u).txns = book.txns \cup {UnlockTxn(u)}
BY DEF Unlocked, Post

(* A settlement in hand: the row is active, so its settle key is free, and *)
(* the posted transaction carries it.                                      *)
LEMMA SettlementSettled ==
  ASSUME Typed, SettlementMatchesStatus, NEW w \in Ids, Active(w), NEW t, NEW s,
         \/ t = PaidTxn(w) /\ s = "PAID"
         \/ t = ReturnTxn(w) /\ s = "FAILED",
         book' = Post(book, t),
         withdrawals' = [withdrawals EXCEPT ![w].status = s]
  PROVE  SettlementMatchesStatus'
<1> USE KeyFacts, TxnKeyFacts
<1>1. ~Posted(book, SettleKey(w)) /\ t.key = SettleKey(w)
  BY DEF SettlementMatchesStatus
<1>2. book'.txns = book.txns \cup {t}
  BY <1>1 DEF Post
<1>3. /\ Ids' = Ids
      /\ \A v \in Ids : withdrawals'[v] = IF v = w THEN [withdrawals[v] EXCEPT !.status = s]
                                                   ELSE withdrawals[v]
  BY TablesTyped DEF Ids
<1>4. \A v \in Ids : /\ withdrawals[v] \in WithdrawalRows
                     /\ withdrawals'[v].user = withdrawals[v].user
                     /\ withdrawals'[v].amount = withdrawals[v].amount
                     /\ withdrawals'[v].status = IF v = w THEN s ELSE withdrawals[v].status
  BY <1>3, TablesTyped DEF WithdrawalRows
<1>5. \A v \in Ids : /\ PaidTxn(v)' = PaidTxn(v)
                     /\ ReturnTxn(v)' = ReturnTxn(v)
                     /\ Active(v)' = (v # w /\ Active(v))
  BY <1>4 DEF PaidTxn, ReturnTxn, Active
<1>6. \A v, u, amount : HoldTxn(v, u, amount) \in book'.txns <=> HoldTxn(v, u, amount) \in book.txns
  BY <1>1, <1>2
<1>7. \A v \in Ids \ {w} : /\ PaidTxn(v) \in book'.txns <=> PaidTxn(v) \in book.txns
                           /\ ReturnTxn(v) \in book'.txns <=> ReturnTxn(v) \in book.txns
                           /\ Posted(book', SettleKey(v)) <=> Posted(book, SettleKey(v))
  BY <1>1, <1>2 DEF Posted
<1>8. /\ Posted(book', SettleKey(w))
      /\ PaidTxn(w) \in book'.txns <=> t = PaidTxn(w)
      /\ ReturnTxn(w) \in book'.txns <=> t = ReturnTxn(w)
  BY <1>1, <1>2 DEF Posted
<1>9. ASSUME NEW v \in Ids'
       PROVE
         /\ HoldTxn(v, withdrawals'[v].user, withdrawals'[v].amount) \in book'.txns
         /\ Active(v)' <=> ~Posted(book', SettleKey(v))
         /\ withdrawals'[v].status = "PAID" <=> PaidTxn(v)' \in book'.txns
         /\ withdrawals'[v].status = "FAILED" <=> ReturnTxn(v)' \in book'.txns
  <2>1. v \in Ids
    BY <1>3
  <2>2. HoldTxn(v, withdrawals'[v].user, withdrawals'[v].amount) \in book'.txns
    BY <2>1, <1>4, <1>6 DEF SettlementMatchesStatus
  <2>3. Active(v)' <=> ~Posted(book', SettleKey(v))
    BY <2>1, <1>5, <1>7, <1>8 DEF SettlementMatchesStatus
  <2>4. /\ withdrawals'[v].status = "PAID" <=> PaidTxn(v)' \in book'.txns
        /\ withdrawals'[v].status = "FAILED" <=> ReturnTxn(v)' \in book'.txns
    <3>1. CASE v = w
      BY <3>1, <2>1, <1>4, <1>5, <1>8
    <3>2. CASE v # w
      BY <3>2, <2>1, <1>4, <1>5, <1>7 DEF SettlementMatchesStatus
    <3> QED BY <3>1, <3>2
  <2> QED BY <2>2, <2>3, <2>4
<1>10. \A x \in book'.txns : x.key.op \in {"hold", "settle"} => x.key.ref \in Ids'
  BY <1>1, <1>2, <1>3 DEF SettlementMatchesStatus
<1> QED BY <1>9, <1>10 DEF SettlementMatchesStatus

(* A new row comes with its hold: its id, and so its hold key, is new.     *)
LEMMA SettlementHeld ==
  ASSUME Typed, SettlementMatchesStatus,
         NEW u, NEW amount, NEW account, NEW w, NEW row, NEW hold,
         w = Len(withdrawals) + 1,
         row = [user |-> u, amount |-> amount, account |-> account, batch |-> 0,
                status |-> "REQUESTED"],
         hold = HoldTxn(w, u, amount),
         withdrawals' = Append(withdrawals, row),
         book' = Post(Unlocked(u), hold)
  PROVE  SettlementMatchesStatus'
<1> USE KeyFacts, TxnKeyFacts
<1> DEFINE unlock == UnlockTxn(u)
<1>1. /\ w \notin Ids /\ Ids' = Ids \cup {w}
      /\ withdrawals'[w] = row
      /\ \A v \in Ids : withdrawals'[v] = withdrawals[v]
  BY TablesTyped DEF Ids
<1>2. ~Posted(Unlocked(u), HoldKey(w))
  BY <1>1, UnlockedTxns DEF Posted, SettlementMatchesStatus
<1>3. \/ book'.txns = book.txns \cup {hold}
      \/ book'.txns = book.txns \cup {unlock, hold}
  BY <1>2, UnlockedTxns DEF Post
<1>4. unlock.key.op = "unlock" /\ hold.key = HoldKey(w)
  OBVIOUS
<1>5. \A v \in Ids : /\ PaidTxn(v)' = PaidTxn(v)
                     /\ ReturnTxn(v)' = ReturnTxn(v)
                     /\ Active(v)' = Active(v)
  BY <1>1 DEF PaidTxn, ReturnTxn, Active
<1> HIDE DEF unlock
<1>6. \A v : /\ PaidTxn(v) \in book'.txns <=> PaidTxn(v) \in book.txns
             /\ ReturnTxn(v) \in book'.txns <=> ReturnTxn(v) \in book.txns
             /\ Posted(book', SettleKey(v)) <=> Posted(book, SettleKey(v))
  BY <1>3, <1>4 DEF Posted
<1>7. hold = HoldTxn(w, row.user, row.amount) /\ row.status = "REQUESTED"
  OBVIOUS
<1>8. Active(w)' /\ PaidTxn(w)' # hold /\ ReturnTxn(w)' # hold /\ ~Posted(book, SettleKey(w))
  <2>1. Active(w)'
    BY <1>1, <1>7 DEF Active
  <2>2. PaidTxn(w)'.key = SettleKey(w) /\ ReturnTxn(w)'.key = SettleKey(w)
    BY DEF PaidTxn, ReturnTxn, Transfer
  <2>3. ~Posted(book, SettleKey(w))
    BY <1>1 DEF Posted, SettlementMatchesStatus
  <2> QED BY <2>1, <2>2, <2>3, <1>4
<1>9. ASSUME NEW v \in Ids'
       PROVE
         /\ HoldTxn(v, withdrawals'[v].user, withdrawals'[v].amount) \in book'.txns
         /\ Active(v)' <=> ~Posted(book', SettleKey(v))
         /\ withdrawals'[v].status = "PAID" <=> PaidTxn(v)' \in book'.txns
         /\ withdrawals'[v].status = "FAILED" <=> ReturnTxn(v)' \in book'.txns
  <2>1. CASE v \in Ids
    <3>1. HoldTxn(v, withdrawals'[v].user, withdrawals'[v].amount) \in book'.txns
      BY <2>1, <1>1, <1>3 DEF SettlementMatchesStatus
    <3>2. Active(v)' <=> ~Posted(book', SettleKey(v))
      BY <2>1, <1>5, <1>6 DEF SettlementMatchesStatus
    <3>3. /\ withdrawals'[v].status = "PAID" <=> PaidTxn(v)' \in book'.txns
          /\ withdrawals'[v].status = "FAILED" <=> ReturnTxn(v)' \in book'.txns
      <4>1. PaidTxn(v)' = PaidTxn(v) /\ ReturnTxn(v)' = ReturnTxn(v) /\ withdrawals'[v] = withdrawals[v]
        BY <2>1, <1>1, <1>5
      <4>2. /\ PaidTxn(v) \in book'.txns <=> PaidTxn(v) \in book.txns
            /\ ReturnTxn(v) \in book'.txns <=> ReturnTxn(v) \in book.txns
        BY <1>6
      <4>3. /\ withdrawals[v].status = "PAID" <=> PaidTxn(v) \in book.txns
            /\ withdrawals[v].status = "FAILED" <=> ReturnTxn(v) \in book.txns
        BY <2>1 DEF SettlementMatchesStatus
      <4> QED BY <4>1, <4>2, <4>3
    <3> QED BY <3>1, <3>2, <3>3
  <2>2. CASE v = w
    <3>1. PaidTxn(w)' \notin book'.txns /\ ReturnTxn(w)' \notin book'.txns
      <4>1. PaidTxn(w)'.key = SettleKey(w) /\ ReturnTxn(w)'.key = SettleKey(w)
        BY DEF PaidTxn, ReturnTxn, Transfer
      <4> QED BY <4>1, <1>6, <1>8 DEF Posted
    <3>2. hold \in book'.txns
      BY <1>3
    <3> QED BY <2>2, <3>1, <3>2, <1>1, <1>6, <1>7, <1>8
  <2> QED BY <2>1, <2>2, <1>1
<1>10. \A x \in book'.txns : x.key.op \in {"hold", "settle"} => x.key.ref \in Ids'
  BY <1>1, <1>3, <1>4 DEF SettlementMatchesStatus
<1> QED BY <1>9, <1>10 DEF SettlementMatchesStatus

(* A batch changes no row's owner or amount, takes REQUESTED rows only and *)
(* leaves them active.                                                     *)
LEMMA BatchFacts ==
  ASSUME Typed, CreateBatch
  PROVE  /\ Ids' = Ids /\ book' = book
         /\ \A w \in Ids :
              /\ withdrawals'[w].user = withdrawals[w].user
              /\ withdrawals'[w].amount = withdrawals[w].amount
              /\ withdrawals'[w].account = withdrawals[w].account
              /\ \/ withdrawals'[w] = withdrawals[w]
                 \/ /\ withdrawals[w].status = "REQUESTED"
                    /\ withdrawals'[w].status = "PROCESSING"
<1>1. PICK chosen \in SUBSET Eligible :
        withdrawals' = [w \in Ids |->
          IF w \in chosen
          THEN [withdrawals[w] EXCEPT !.status = "PROCESSING", !.batch = Len(batches) + 1]
          ELSE withdrawals[w]]
  BY DEF CreateBatch
<1>2. \A w \in Ids : withdrawals[w] \in WithdrawalRows
  BY TablesTyped
<1>3. Ids' = Ids /\ book' = book
  BY <1>1 DEF CreateBatch, Ids
<1>4. ASSUME NEW w \in Ids
      PROVE  /\ withdrawals'[w].user = withdrawals[w].user
             /\ withdrawals'[w].amount = withdrawals[w].amount
             /\ withdrawals'[w].account = withdrawals[w].account
             /\ \/ withdrawals'[w] = withdrawals[w]
                \/ /\ withdrawals[w].status = "REQUESTED"
                   /\ withdrawals'[w].status = "PROCESSING"
  <2>1. CASE w \in chosen
    <3>1. withdrawals'[w] = [withdrawals[w] EXCEPT !.status = "PROCESSING", !.batch = Len(batches) + 1]
      BY <1>1, <2>1
    <3>2. withdrawals[w].status = "REQUESTED"
      BY <2>1 DEF Eligible
    <3> QED BY <1>2, <3>1, <3>2 DEF WithdrawalRows
  <2>2. CASE w \notin chosen
    BY <1>1, <2>2
  <2> QED BY <2>1, <2>2
<1> QED BY <1>3, <1>4

LEMMA SettlementNext ==
  Safe /\ [Next]_vars => SettlementMatchesStatus'
<1> SUFFICES ASSUME Safe, [Next]_vars PROVE SettlementMatchesStatus'
  OBVIOUS
<1> USE DEF Safe
<1>1. CASE Quiet
  BY <1>1 DEF Quiet, SettlementMatchesStatus, Ids, Active, PaidTxn, ReturnTxn
<1>2. ASSUME NEW nonce \in Nonces, NEW amount \in FundingAmounts, Fund(nonce, amount)
      PROVE  SettlementMatchesStatus'
  <2> DEFINE t == Transfer("FUNDING", FundingKey(nonce), Funding, Pool, amount)
  <2>1. t.key.op = "funding"
    BY KeyFacts DEF Transfer
  <2>2. withdrawals' = withdrawals /\ (book'.txns = book.txns \/ book'.txns = book.txns \cup {t})
    BY <1>2 DEF Fund, Post
  <2> QED BY <2>1, <2>2, SettlementKept
<1>3. ASSUME NEW u \in Users, UnlockWallet(u) PROVE SettlementMatchesStatus'
  BY <1>3, UnlockedTxns, KeyFacts, TxnKeyFacts, SettlementKept DEF UnlockWallet
<1>4. ASSUME NEW h \in Handlers, CommitVerify(h) PROVE SettlementMatchesStatus'
  <2> DEFINE t == RewardTxn(handler[h].user, handler[h].amount)
  <2>1. withdrawals' = withdrawals /\ (book'.txns = book.txns \/ book'.txns = book.txns \cup {t})
    BY <1>4 DEF CommitVerify, Post
  <2>2. t.key.op = "reward"
    BY KeyFacts, TxnKeyFacts
  <2> QED BY <2>1, <2>2, SettlementKept
<1>5. ASSUME NEW h \in Handlers, HoldWithdrawal(h) PROVE SettlementMatchesStatus'
  BY <1>5, SettlementHeld DEF HoldWithdrawal
<1>6. CASE CreateBatch
  <2>1. /\ Ids' = Ids /\ book' = book
        /\ \A w \in Ids : /\ withdrawals'[w].user = withdrawals[w].user
                          /\ withdrawals'[w].amount = withdrawals[w].amount
                          /\ Active(w)' = Active(w)
                          /\ withdrawals'[w].status = "PAID" <=> withdrawals[w].status = "PAID"
                          /\ withdrawals'[w].status = "FAILED" <=> withdrawals[w].status = "FAILED"
    BY <1>6, BatchFacts DEF Active
  <2> QED BY <2>1 DEF SettlementMatchesStatus, PaidTxn, ReturnTxn
<1>7. ASSUME NEW w \in Ids, MarkPaid(w) \/ MarkFailed(w) PROVE SettlementMatchesStatus'
  BY <1>7, SettlementSettled DEF MarkPaid, MarkFailed, Active
<1> QED BY <1>1, <1>2, <1>3, <1>4, <1>5, <1>6, <1>7, MoneySteps


LEMMA AtMostOneNext ==
  Safe /\ [Next]_vars => AtMostOneActive'
<1> SUFFICES ASSUME Safe, [Next]_vars PROVE AtMostOneActive'
  OBVIOUS
<1> USE DEF Safe
<1>1. ASSUME Ids' = Ids,
             \A w \in Ids : withdrawals'[w].user = withdrawals[w].user /\ (Active(w)' => Active(w))
      PROVE  AtMostOneActive'
  BY <1>1 DEF AtMostOneActive
<1>2. CASE UNCHANGED withdrawals
  BY <1>1, <1>2 DEF Ids, Active
<1>3. CASE CreateBatch
  BY <1>1, <1>3, BatchFacts DEF Active
<1>4. ASSUME NEW w \in Ids, MarkPaid(w) \/ MarkFailed(w) PROVE AtMostOneActive'
  <2>1. PICK s \in {"PAID", "FAILED"} : withdrawals' = [withdrawals EXCEPT ![w].status = s]
    BY <1>4 DEF MarkPaid, MarkFailed
  <2>2. Ids' = Ids /\ \A v \in Ids : withdrawals[v] \in WithdrawalRows
    BY <2>1, TablesTyped DEF Ids
  <2>3. \A v \in Ids : withdrawals'[v] = IF v = w THEN [withdrawals[v] EXCEPT !.status = s]
                                                 ELSE withdrawals[v]
    BY <2>1 DEF Ids
  <2>4. \A v \in Ids : withdrawals'[v].user = withdrawals[v].user /\ (Active(v)' => Active(v))
    BY <2>2, <2>3 DEF WithdrawalRows, Active
  <2> QED BY <1>1, <2>2, <2>4
<1>5. ASSUME NEW h \in Handlers, HoldWithdrawal(h) PROVE AtMostOneActive'
  <2>1. PICK w, row : /\ w = Len(withdrawals) + 1
                      /\ row.user = handler[h].user
                      /\ withdrawals' = Append(withdrawals, row)
    BY <1>5 DEF HoldWithdrawal
  <2>2. /\ w \notin Ids /\ Ids' = Ids \cup {w}
        /\ withdrawals'[w] = row
        /\ \A v \in Ids : withdrawals'[v] = withdrawals[v]
    BY <2>1, TablesTyped DEF Ids
  <2>3. \A v \in Ids : Active(v) => withdrawals[v].user # row.user
    BY <1>5, <2>1 DEF HoldWithdrawal, HasActive, ActiveOf
  <2> QED BY <2>2, <2>3 DEF AtMostOneActive, Active
<1> QED
  BY <1>2, <1>3, <1>4, <1>5, MoneySteps DEF Quiet, Fund, UnlockWallet, CommitVerify

(* Rewards stay backed when nobody is rewarded.                            *)
LEMMA RewardsKept ==
  ASSUME RewardBacked, rewards' = rewards, verified \subseteq verified', book.txns \subseteq book'.txns,
         \A t \in book'.txns \ book.txns : t.key.op # "reward"
  PROVE  RewardBacked'
BY DEF RewardBacked, RewardTxn

LEMMA RewardNext ==
  Safe /\ [Next]_vars => RewardBacked'
<1> SUFFICES ASSUME Safe, [Next]_vars PROVE RewardBacked'
  OBVIOUS
<1> USE KeyFacts, TxnKeyFacts DEF Safe
<1>1. ASSUME NEW t, t.key.op # "reward", UNCHANGED <<rewards, verified>>,
             book'.txns = book.txns \/ book'.txns = book.txns \cup {t}
      PROVE  RewardBacked'
  BY <1>1, RewardsKept
<1>2. CASE Quiet \/ CreateBatch
  BY <1>2, RewardsKept DEF Quiet, CreateBatch
<1>3. ASSUME NEW nonce \in Nonces, NEW amount \in FundingAmounts, Fund(nonce, amount)
      PROVE  RewardBacked'
  <2> DEFINE t == Transfer("FUNDING", FundingKey(nonce), Funding, Pool, amount)
  <2>1. t.key.op = "funding"
    BY DEF Transfer
  <2>2. book'.txns = book.txns \/ book'.txns = book.txns \cup {t}
    BY <1>3 DEF Fund, Post
  <2> QED BY <1>1, <1>3, <2>1, <2>2 DEF Fund
<1>4. ASSUME NEW u \in Users, UnlockWallet(u) PROVE RewardBacked'
  BY <1>1, <1>4, UnlockedTxns DEF UnlockWallet
<1>5. ASSUME NEW h \in Handlers, CommitVerify(h) PROVE RewardBacked'
  <2> DEFINE u == handler[h].user
             offer == handler[h].amount
  <2>1. u \in Users /\ u \notin verified
    BY <1>5 DEF CommitVerify, VerifyingOK, Verifying, Typed, TasksOK
  <2>2. \A r \in rewards : r.source # u
    BY <2>1 DEF RewardBacked
  <2>3. CASE UNCHANGED <<book, rewards>>
    BY <1>5, <2>3, RewardsKept DEF CommitVerify
  <2>4. CASE ~UNCHANGED <<book, rewards>>
    <3>1. PICK r : /\ r = [source |-> u, beneficiary |-> Referrer[u], amount |-> offer, at |-> now]
                   /\ rewards' = rewards \cup {r}
                   /\ book' = Post(book, RewardTxn(u, offer))
                   /\ verified' = verified \cup {u}
                   /\ ~Posted(book, RewardKey(u))
      BY <1>5, <2>4 DEF CommitVerify, RewardRow
    <3>2. book'.txns = book.txns \cup {RewardTxn(u, offer)}
      BY <3>1 DEF Post
    <3>3. RewardTxn(u, offer).amount = offer /\ RewardTxn(u, offer).key.ref = u
      BY DEF RewardTxn, Transfer
    <3>4. r.source = u /\ r.beneficiary = Referrer[u] /\ r.amount = offer
      BY <3>1
    <3>5. \A q \in rewards' : /\ q.beneficiary = Referrer[q.source]
                              /\ q.source \in verified'
                              /\ RewardTxn(q.source, q.amount) \in book'.txns
      BY <3>1, <3>2, <3>4 DEF RewardBacked
    <3>6. \A p, q \in rewards' : p.source = q.source => p = q
      BY <3>1, <3>4, <2>2 DEF RewardBacked
    <3>7. \A t \in book'.txns : t.key.op = "reward" =>
            \E q \in rewards' : q.source = t.key.ref /\ q.amount = t.amount
      BY <3>1, <3>2, <3>3, <3>4 DEF RewardBacked
    <3> QED BY <3>5, <3>6, <3>7 DEF RewardBacked, RewardTxn
  <2> QED BY <2>3, <2>4
<1>6. ASSUME NEW h \in Handlers, HoldWithdrawal(h) PROVE RewardBacked'
  <2>1. PICK u, hold : /\ hold.key.op = "hold"
                       /\ book' = Post(Unlocked(u), hold)
                       /\ UNCHANGED <<verified, rewards>>
    BY <1>6 DEF HoldWithdrawal
  <2>2. book'.txns \subseteq book.txns \cup {UnlockTxn(u), hold} /\ book.txns \subseteq book'.txns
    BY <2>1, UnlockedTxns DEF Post
  <2> QED BY <2>1, <2>2, RewardsKept
<1>7. ASSUME NEW w \in Ids, MarkPaid(w) \/ MarkFailed(w) PROVE RewardBacked'
  <2>1. PICK t \in {PaidTxn(w), ReturnTxn(w)} : book' = Post(book, t)
    BY <1>7 DEF MarkPaid, MarkFailed
  <2>2. UNCHANGED <<rewards, verified>>
    BY <1>7 DEF MarkPaid, MarkFailed
  <2> QED BY <1>1, <2>1, <2>2 DEF Post
<1> QED BY <1>2, <1>3, <1>4, <1>5, <1>6, <1>7, MoneySteps

LEMMA SafeInit == Init => Safe
<1> SUFFICES ASSUME Init PROVE Safe
  OBVIOUS
<1>1. Typed
  BY TypedInit
<1>2. VerifyingOK
  BY <1>1 DEF Init, VerifyingOK, Verifying, Idle
<1>3. book.txns = {} /\ Ids = {}
  BY DEF Init, EmptyBook, Ids
<1> QED BY <1>1, <1>2, <1>3
  DEF Init, Safe, UnlockKeysUsed, SettlementMatchesStatus, AtMostOneActive, RewardBacked

LEMMA SafeNext == Safe /\ [Next]_vars => Safe'
BY TypedNext, VerifyingNext, UnlockKeysNext, SettlementNext, AtMostOneNext, RewardNext DEF Safe

LEMMA Safety == Spec => []Safe
BY SafeInit, SafeNext, PTL DEF Spec

(* Withdrawal rows and ledger agree, whatever is retried or raced.         *)
THEOREM Settlement == Spec => []SettlementMatchesStatus
<1>1. Safe => SettlementMatchesStatus
  BY DEF Safe
<1> QED BY Safety, <1>1, PTL

(* A person is rewarded for at most once, and only when verified.          *)
THEOREM RewardedOnce == Spec => []RewardBacked
<1>1. Safe => RewardBacked
  BY DEF Safe
<1> QED BY Safety, <1>1, PTL

(* A user never has two withdrawals in progress.                           *)
THEOREM AtMostOneWithdrawal == Spec => []OneActive
<1>1. Safe => OneActive
  <2> SUFFICES ASSUME Safe, NEW u \in Users PROVE Cardinality(ActiveOf(u)) <= 1
    BY DEF OneActive
  <2>1. CASE ActiveOf(u) = {}
    BY <2>1, FS_EmptySet
  <2>2. CASE ActiveOf(u) # {}
    <3>1. PICK w : w \in ActiveOf(u)
      BY <2>2
    <3>2. ActiveOf(u) = {w}
      BY <3>1 DEF Safe, AtMostOneActive, ActiveOf
    <3> QED BY <3>2, FS_Singleton
  <2> QED BY <2>1, <2>2
<1> QED BY Safety, <1>1, PTL


-----------------------------------------------------------------------------
(* Part 3: the rows are final.                                             *)
RequestedUnbatched == \A w \in Ids : withdrawals[w].status = "REQUESTED" => withdrawals[w].batch = 0

(* How a step changes the rows: not at all, one more row, one settled row, *)
(* or a batch.                                                             *)
LEMMA RowSteps ==
  ASSUME Typed, [Next]_vars
  PROVE  \/ UNCHANGED withdrawals
         \/ /\ Ids' = Ids \cup {Len(withdrawals) + 1}
            /\ withdrawals'[Len(withdrawals) + 1].batch = 0
            /\ \A w \in Ids : withdrawals'[w] = withdrawals[w]
         \/ \E w \in Ids, s \in {"PAID", "FAILED"} :
              /\ Active(w)
              /\ withdrawals' = [withdrawals EXCEPT ![w].status = s]
         \/ CreateBatch
<1>1. ASSUME NEW h \in Handlers, HoldWithdrawal(h)
      PROVE  /\ Ids' = Ids \cup {Len(withdrawals) + 1}
             /\ withdrawals'[Len(withdrawals) + 1].batch = 0
             /\ \A w \in Ids : withdrawals'[w] = withdrawals[w]
  <2>1. PICK row : row.batch = 0 /\ withdrawals' = Append(withdrawals, row)
    BY <1>1 DEF HoldWithdrawal
  <2> QED BY <2>1, TablesTyped DEF Ids
<1>2. ASSUME NEW w \in Ids, MarkPaid(w) \/ MarkFailed(w)
      PROVE  \E s \in {"PAID", "FAILED"} :
               Active(w) /\ withdrawals' = [withdrawals EXCEPT ![w].status = s]
  BY <1>2 DEF MarkPaid, MarkFailed, Active
<1> QED BY <1>1, <1>2, MoneySteps DEF Quiet, Fund, UnlockWallet, CommitVerify

LEMMA UnbatchedInit == Init => RequestedUnbatched
BY DEF Init, RequestedUnbatched, Ids

LEMMA SettledRow ==
  ASSUME Typed, NEW w \in Ids, NEW s, withdrawals' = [withdrawals EXCEPT ![w].status = s]
  PROVE  /\ Ids' = Ids
         /\ \A v \in Ids \ {w} : withdrawals'[v] = withdrawals[v]
         /\ withdrawals'[w].status = s
         /\ withdrawals'[w].user = withdrawals[w].user
         /\ withdrawals'[w].amount = withdrawals[w].amount
         /\ withdrawals'[w].account = withdrawals[w].account
         /\ withdrawals'[w].batch = withdrawals[w].batch
<1>1. withdrawals[w] \in WithdrawalRows
  BY TablesTyped
<1>2. withdrawals'[w] = [withdrawals[w] EXCEPT !.status = s]
  BY TablesTyped
<1> QED BY <1>1, <1>2, TablesTyped DEF Ids, WithdrawalRows

LEMMA UnbatchedNext == Typed /\ RequestedUnbatched /\ [Next]_vars => RequestedUnbatched'
<1> SUFFICES ASSUME Typed, RequestedUnbatched, [Next]_vars PROVE RequestedUnbatched'
  OBVIOUS
<1>1. CASE UNCHANGED withdrawals
  BY <1>1 DEF RequestedUnbatched, Ids
<1>2. CASE /\ Ids' = Ids \cup {Len(withdrawals) + 1}
           /\ withdrawals'[Len(withdrawals) + 1].batch = 0
           /\ \A w \in Ids : withdrawals'[w] = withdrawals[w]
  BY <1>2 DEF RequestedUnbatched
<1>3. ASSUME NEW w \in Ids, NEW s \in {"PAID", "FAILED"},
             withdrawals' = [withdrawals EXCEPT ![w].status = s]
      PROVE  RequestedUnbatched'
  <2>1. /\ Ids' = Ids /\ withdrawals'[w].status # "REQUESTED"
        /\ \A v \in Ids \ {w} : withdrawals'[v] = withdrawals[v]
    BY <1>3, SettledRow
  <2> QED BY <2>1 DEF RequestedUnbatched
<1>4. CASE CreateBatch
  BY <1>4, BatchFacts DEF RequestedUnbatched
<1> QED BY <1>1, <1>2, <1>3, <1>4, RowSteps

(* A withdrawal row keeps its owner, amount and bank account, keeps its    *)
(* batch once it has one, and does not change at all once PAID or FAILED.  *)
THEOREM FinalRows == Spec => RowsAreFinal
<1> DEFINE Kept(w) ==
       /\ w \in DOMAIN withdrawals'
       /\ withdrawals'[w].user = withdrawals[w].user
       /\ withdrawals'[w].amount = withdrawals[w].amount
       /\ withdrawals'[w].account = withdrawals[w].account
       /\ ~Active(w) => withdrawals'[w] = withdrawals[w]
       /\ withdrawals[w].batch # 0 => /\ withdrawals'[w].batch = withdrawals[w].batch
                                      /\ withdrawals'[w].status # "REQUESTED"
<1>1. ASSUME Typed, RequestedUnbatched, [Next]_vars PROVE [\A w \in Ids : Kept(w)]_vars
  <2> SUFFICES ASSUME NEW w \in Ids PROVE Kept(w)
    OBVIOUS
  <2>1. withdrawals[w].batch # 0 => withdrawals[w].status # "REQUESTED"
    BY <1>1 DEF RequestedUnbatched
  <2>2. CASE UNCHANGED withdrawals
    BY <2>1, <2>2 DEF Ids
  <2>3. CASE Ids' = Ids \cup {Len(withdrawals) + 1} /\ \A v \in Ids : withdrawals'[v] = withdrawals[v]
    BY <2>1, <2>3 DEF Ids
  <2>4. ASSUME NEW v \in Ids, NEW s \in {"PAID", "FAILED"}, Active(v),
               withdrawals' = [withdrawals EXCEPT ![v].status = s]
        PROVE  Kept(w)
    <3>1. CASE v = w
      BY <1>1, <2>4, <3>1, SettledRow DEF Ids
    <3>2. CASE v # w
      BY <1>1, <2>1, <2>4, <3>2, SettledRow DEF Ids
    <3> QED BY <3>1, <3>2
  <2>5. CASE CreateBatch
    BY <1>1, <2>1, <2>5, BatchFacts DEF Ids, Active
  <2> QED BY <1>1, <2>2, <2>3, <2>4, <2>5, RowSteps
<1> HIDE DEF Kept
<1>2. Typed /\ RequestedUnbatched /\ [Next]_vars => [\A w \in Ids : Kept(w)]_vars
  BY <1>1
<1>3. Spec => [][\A w \in Ids : Kept(w)]_vars
  BY <1>2, TypedInit, TypedNext, UnbatchedInit, UnbatchedNext, PTL DEF Spec
<1> QED BY <1>3 DEF RowsAreFinal, Kept


-----------------------------------------------------------------------------
(* Part 4: the money path implements the wallet.                           *)

(* What the wallet sees of a book.                                         *)
PendingIn(b)   == [u \in Users |-> b.balance[Pending(u)]]
AvailableIn(b) == [u \in Users |-> b.balance[Available(u)]]
Requests       == [w \in Ids |-> [user |-> withdrawals[w].user,
                                  amount |-> withdrawals[w].amount,
                                  status |-> withdrawals[w].status]]

LEMMA PromiseInit == Init => Promise!Init
<1> SUFFICES ASSUME Init PROVE Promise!Init
  OBVIOUS
<1>1. \A a \in Accounts : book.balance[a] = 0
  BY DEF Init, EmptyBook
<1>2. Requests = <<>>
  BY DEF Init, Ids, Requests
<1> QED BY <1>1, <1>2, AccountFacts DEF Promise!Init, Requests

(* Unlocking moves what is pending, all of it, and nothing else.           *)
LEMMA UnlockedMoves ==
  ASSUME Typed, UnlockKeysUsed(book), NEW u \in Users
  PROVE  /\ Unlocked(u).balance[Pool] = book.balance[Pool]
         /\ PendingIn(Unlocked(u)) = [PendingIn(book) EXCEPT ![u] = 0]
         /\ AvailableIn(Unlocked(u)) =
              [AvailableIn(book) EXCEPT ![u] = @ + book.balance[Pending(u)]]
<1> USE AccountFacts DEF Typed, TypeOK, PendingIn, AvailableIn
<1>1. \A a \in Accounts : book.balance[a] \in Int
  BY DEF Books
<1>2. CASE book.balance[Pending(u)] > 0
  <2> DEFINE b == Post(book, UnlockTxn(u))
  <2>1. UnlockTxn(u) \in Transactions /\ ~Posted(book, UnlockTxn(u).key)
    BY TxnsTyped, UnlockedKeys
  <2>2. UnlockTxn(u).src = Pending(u) /\ UnlockTxn(u).dst = Available(u)
        /\ UnlockTxn(u).amount = book.balance[Pending(u)]
    BY DEF UnlockTxn, Transfer
  <2>3. /\ b.balance[Pending(u)] = book.balance[Pending(u)] - book.balance[Pending(u)]
        /\ b.balance[Available(u)] = book.balance[Available(u)] + book.balance[Pending(u)]
        /\ \A a \in Accounts \ {Pending(u), Available(u)} : b.balance[a] = book.balance[a]
    BY <2>1, <2>2, PostMoves
  <2> HIDE DEF b
  <2>4. /\ b.balance[Pool] = book.balance[Pool]
        /\ b.balance[Pending(u)] = 0
        /\ b.balance[Available(u)] = book.balance[Available(u)] + book.balance[Pending(u)]
        /\ \A v \in Users \ {u} : /\ b.balance[Pending(v)] = book.balance[Pending(v)]
                                  /\ b.balance[Available(v)] = book.balance[Available(v)]
    BY <1>1, <2>3
  <2>5. Unlocked(u) = b
    BY <1>2 DEF Unlocked, b
  <2> QED BY <2>4, <2>5
<1>3. CASE ~(book.balance[Pending(u)] > 0)
  <2>1. Unlocked(u) = book /\ book.balance[Pending(u)] = 0
    BY <1>1, <1>3 DEF Unlocked, Solvent
  <2>2. book.balance[Available(u)] + book.balance[Pending(u)] = book.balance[Available(u)]
    BY <1>1, <2>1
  <2>3. PendingIn(book) = [PendingIn(book) EXCEPT ![u] = 0]
    BY <2>1
  <2>4. AvailableIn(book) = [AvailableIn(book) EXCEPT ![u] = @ + book.balance[Pending(u)]]
    BY <2>2
  <2> QED BY <2>1, <2>3, <2>4
<1> QED BY <1>2, <1>3

LEMMA PromiseFund ==
  ASSUME Typed, NEW nonce \in Nonces, NEW amount \in FundingAmounts, Fund(nonce, amount)
  PROVE  [Promise!Next]_(Promise!vars)
<1> USE AccountFacts DEF Typed, TypeOK
<1> DEFINE t == Transfer("FUNDING", FundingKey(nonce), Funding, Pool, amount)
<1>1. t \in Transactions /\ amount \in Nat \ {0} /\ book' = Post(book, t)
  BY TxnsTyped, PayoutsAssumption DEF Fund
<1>2. t.src = Funding /\ t.dst = Pool /\ t.amount = amount
  BY DEF Transfer
<1>3. withdrawals' = withdrawals
  BY DEF Fund
<1> HIDE DEF t
<1>4. CASE Posted(book, t.key)
  BY <1>1, <1>3, <1>4, PostKeys DEF Promise!vars, Ids
<1>5. CASE ~Posted(book, t.key)
  <2>1. /\ book'.balance[Pool] = book.balance[Pool] + amount
        /\ \A a \in Accounts \ {Funding, Pool} : book'.balance[a] = book.balance[a]
    BY <1>1, <1>2, <1>5, PostMoves
  <2>2. book.balance[Pool] \in Nat
    BY DEF Books, Solvent
  <2>3. book'.balance[Pool] \in Nat /\ book'.balance[Pool] > book.balance[Pool]
    BY <1>1, <2>1, <2>2
  <2>4. Promise!Fund
    BY <1>3, <2>1, <2>3 DEF Promise!Fund, Ids
  <2> QED BY <2>4 DEF Promise!Next
<1> QED BY <1>4, <1>5

LEMMA PromiseUnlock ==
  ASSUME Safe, NEW u \in Users, UnlockWallet(u)
  PROVE  [Promise!Next]_(Promise!vars)
<1>1. /\ book'.balance[Pool] = book.balance[Pool]
      /\ PendingIn(book') = [PendingIn(book) EXCEPT ![u] = 0]
      /\ AvailableIn(book') = [AvailableIn(book) EXCEPT ![u] = @ + PendingIn(book)[u]]
  BY UnlockedMoves DEF Safe, UnlockWallet, PendingIn
<1>2. Promise!Unlock(u)
  BY <1>1 DEF Promise!Unlock, PendingIn, AvailableIn, UnlockWallet, Ids
<1> QED BY <1>2 DEF Promise!Next

LEMMA PromiseEarn ==
  ASSUME Typed, NEW h \in Handlers, CommitVerify(h)
  PROVE  [Promise!Next]_(Promise!vars)
<1> USE AccountFacts DEF Typed, TypeOK
<1> DEFINE u == handler[h].user
           offer == handler[h].amount
           t == RewardTxn(u, offer)
<1>1. withdrawals' = withdrawals
  BY DEF CommitVerify
<1>2. CASE book' = book
  BY <1>1, <1>2 DEF Promise!vars, Ids
<1>3. CASE /\ offer > 0 /\ book.balance[Pool] >= offer
           /\ ~Posted(book, RewardKey(u)) /\ book' = Post(book, t)
  <2>1. u \in Users /\ Referrer[u] \in Users /\ offer \in Nat
    BY <1>3 DEF TasksOK, Tasks, CommitVerify
  <2>2. t \in Transactions /\ ~Posted(book, t.key)
    BY <1>3, <2>1, TxnsTyped, TxnKeyFacts
  <2>3. t.src = Pool /\ t.dst = Pending(Referrer[u]) /\ t.amount = offer
    BY DEF RewardTxn, Transfer
  <2> DEFINE v == Referrer[u]
  <2>4. /\ book'.balance[Pool] = book.balance[Pool] - offer
        /\ book'.balance[Pending(v)] = book.balance[Pending(v)] + offer
        /\ \A a \in Accounts \ {Pool, Pending(v)} : book'.balance[a] = book.balance[a]
    BY <1>3, <2>1, <2>2, <2>3, PostMoves
  <2>5. /\ PendingIn(book') = [PendingIn(book) EXCEPT ![v] = @ + offer]
        /\ AvailableIn(book') = AvailableIn(book)
    BY <2>1, <2>4 DEF PendingIn, AvailableIn
  <2>6. offer \in 1 .. book.balance[Pool]
    BY <1>3, <2>1 DEF Books
  <2>7. Promise!Earn(v, offer)
    BY <1>1, <2>4, <2>5 DEF Promise!Earn, PendingIn, AvailableIn, Ids
  <2> QED BY <2>1, <2>6, <2>7 DEF Promise!Next
<1> QED BY <1>2, <1>3 DEF CommitVerify, Funded


(* Asking for money: what is pending is unlocked first, then the amount is *)
(* held, under a key no row has used.                                      *)
LEMMA PromiseAsk ==
  ASSUME Safe, NEW h \in Handlers, HoldWithdrawal(h)
  PROVE  [Promise!Next]_(Promise!vars)
<1> USE AccountFacts DEF Safe
<1>1. PICK u, amount, w, row, t :
        /\ u = handler[h].user /\ amount = handler[h].amount
        /\ w = Len(withdrawals) + 1
        /\ row = [user |-> u, amount |-> amount, account |-> handler[h].account,
                  batch |-> 0, status |-> "REQUESTED"]
        /\ t = HoldTxn(w, u, amount)
        /\ Unlocked(u).balance[Available(u)] >= amount
        /\ ActiveOf(u) = {}
        /\ withdrawals' = Append(withdrawals, row)
        /\ book' = Post(Unlocked(u), t)
  BY DEF HoldWithdrawal, Enough, HasActive
<1>2. u \in Users /\ amount \in Nat /\ amount > 0
  BY <1>1 DEF HoldWithdrawal, Typed, TypeOK, TasksOK, Tasks
<1>3. Unlocked(u) \in Books /\ Solvent(Unlocked(u))
  BY <1>2, UnlockedTyped
<1>4. t \in Transactions /\ t.key = HoldKey(w)
      /\ t.src = Available(u) /\ t.dst = Clearing /\ t.amount = amount
  BY <1>1, <1>2, TxnsTyped, TablesTyped DEF HoldTxn, Transfer
<1>5. ~Posted(Unlocked(u), t.key)
  <2>1. w \notin Ids
    BY <1>1, TablesTyped
  <2> QED BY <2>1, <1>4, UnlockedTxns, KeyFacts, TxnKeyFacts DEF Posted, SettlementMatchesStatus
<1>6. /\ book'.balance[Available(u)] = Unlocked(u).balance[Available(u)] - amount
      /\ book'.balance[Pool] = Unlocked(u).balance[Pool]
      /\ \A v \in Users : book'.balance[Pending(v)] = Unlocked(u).balance[Pending(v)]
      /\ \A v \in Users \ {u} : book'.balance[Available(v)] = Unlocked(u).balance[Available(v)]
  <2>1. /\ book'.balance[Available(u)] = Unlocked(u).balance[Available(u)] - amount
        /\ \A a \in Accounts \ {Available(u), Clearing} :
             book'.balance[a] = Unlocked(u).balance[a]
    BY <1>1, <1>2, <1>3, <1>4, <1>5, PostMoves
  <2> QED BY <1>2, <2>1
<1>7. /\ Unlocked(u).balance[Pool] = book.balance[Pool]
      /\ PendingIn(Unlocked(u)) = [PendingIn(book) EXCEPT ![u] = 0]
      /\ AvailableIn(Unlocked(u)) =
           [AvailableIn(book) EXCEPT ![u] = @ + book.balance[Pending(u)]]
  BY <1>2, UnlockedMoves
<1>8. Unlocked(u).balance[Available(u)] = book.balance[Available(u)] + book.balance[Pending(u)]
  BY <1>2, <1>7 DEF AvailableIn
<1>9. PendingIn(book') = [PendingIn(book) EXCEPT ![u] = 0]
  BY <1>6, <1>7 DEF PendingIn
<1>10. AvailableIn(book') =
         [AvailableIn(book) EXCEPT ![u] = @ + PendingIn(book)[u] - amount]
  <2>1. \A v \in Users \ {u} : book'.balance[Available(v)] = book.balance[Available(v)]
    BY <1>6, <1>7 DEF AvailableIn
  <2>2. book'.balance[Available(u)] = book.balance[Available(u)] + book.balance[Pending(u)] - amount
    <3>1. book.balance[Available(u)] \in Int /\ book.balance[Pending(u)] \in Int
      BY <1>2 DEF Typed, TypeOK, Books
    <3> QED BY <3>1, <1>2, <1>6, <1>8
  <2> QED BY <1>2, <2>1, <2>2 DEF AvailableIn, PendingIn
<1>11. Requests' = Append(Requests, [user |-> u, amount |-> amount, status |-> "REQUESTED"])
  <2>1. /\ Ids = 1 .. Len(withdrawals) /\ Len(withdrawals) \in Nat
        /\ Ids' = 1 .. Len(withdrawals) + 1
        /\ withdrawals'[w] = row
        /\ \A v \in Ids : withdrawals'[v] = withdrawals[v]
    BY <1>1, TablesTyped DEF Ids
  <2>2. Requests' = [v \in Ids' |-> [user |-> withdrawals'[v].user,
                                     amount |-> withdrawals'[v].amount,
                                     status |-> withdrawals'[v].status]]
    BY DEF Requests
  <2> DEFINE Rows == [user : Users, amount : Nat, status : {"REQUESTED", "PROCESSING", "PAID", "FAILED"}]
             new == [user |-> u, amount |-> amount, status |-> "REQUESTED"]
  <2>3. Requests \in Seq(Rows) /\ Len(Requests) = Len(withdrawals) /\ new \in Rows
    <3>1. Requests \in [1 .. Len(withdrawals) -> Rows]
      BY <2>1, TablesTyped DEF Requests, WithdrawalRows
    <3>2. new \in Rows
      BY <1>2
    <3> HIDE DEF Rows, new
    <3> QED BY <2>1, <3>1, <3>2, FunctionIsSeq
  <2>4. Requests' \in Seq(Rows) /\ Len(Requests') = Len(withdrawals) + 1
    <3>1. \A v \in Ids' : [user |-> withdrawals'[v].user, amount |-> withdrawals'[v].amount,
                           status |-> withdrawals'[v].status] \in Rows
      BY <1>1, <1>2, <2>1, TablesTyped DEF WithdrawalRows
    <3>2. Requests' \in [1 .. Len(withdrawals) + 1 -> Rows]
      BY <2>1, <2>2, <3>1
    <3>3. Len(withdrawals) + 1 \in Nat
      BY <2>1
    <3> HIDE DEF Rows
    <3> QED BY <3>2, <3>3, FunctionIsSeq
  <2>5. \A v \in 1 .. Len(withdrawals) + 1 : Requests'[v] = Append(Requests, new)[v]
    <3>1. ASSUME NEW v \in Ids PROVE Requests'[v] = Append(Requests, new)[v]
      <4>1. Append(Requests, new)[v] = Requests[v]
        BY <2>1, <2>3, AppendProperties
      <4> QED BY <2>1, <2>2, <4>1 DEF Requests
    <3>2. Requests'[w] = Append(Requests, new)[w]
      <4>1. Append(Requests, new)[w] = new
        BY <1>1, <2>3, AppendProperties
      <4>2. w \in Ids' /\ withdrawals'[w] = row
        BY <1>1, <2>1
      <4>3. Requests'[w] = new
        BY <1>1, <2>2, <4>2
      <4> QED BY <4>1, <4>3
    <3>3. 1 .. Len(withdrawals) + 1 = Ids \cup {w}
      BY <1>1, <2>1
    <3> QED BY <3>1, <3>2, <3>3
  <2>6. Append(Requests, new) \in Seq(Rows) /\ Len(Append(Requests, new)) = Len(withdrawals) + 1
    BY <2>3, AppendProperties
  <2> QED BY <2>4, <2>5, <2>6, SeqEqual
<1>12. amount \in 1 .. PendingIn(book)[u] + AvailableIn(book)[u]
  BY <1>1, <1>2, <1>8 DEF PendingIn, AvailableIn, Typed, TypeOK, Books
<1>13. \A v \in Ids : Requests[v].user = u => ~(Requests[v].status \in {"REQUESTED", "PROCESSING"})
  BY <1>1 DEF Requests, ActiveOf, Active
<1>14. Promise!Ask(u, amount)
  BY <1>6, <1>7, <1>9, <1>10, <1>11, <1>13
  DEF Promise!Ask, Promise!InProgress, PendingIn, AvailableIn, Requests
<1> QED BY <1>2, <1>12, <1>14 DEF Promise!Next, PendingIn, AvailableIn


LEMMA PromiseExport ==
  ASSUME Typed, CreateBatch
  PROVE  [Promise!Next]_(Promise!vars)
<1>1. PICK chosen \in SUBSET Eligible :
        withdrawals' = [w \in Ids |->
          IF w \in chosen
          THEN [withdrawals[w] EXCEPT !.status = "PROCESSING", !.batch = Len(batches) + 1]
          ELSE withdrawals[w]]
  BY DEF CreateBatch
<1>2. Ids' = Ids /\ book' = book
  BY <1>1 DEF CreateBatch, Ids
<1>3. chosen \subseteq Ids /\ \A w \in chosen : Requests[w].status = "REQUESTED"
  BY DEF Eligible, Requests
<1>4. \A w \in Ids : Requests'[w] = IF w \in chosen THEN [Requests[w] EXCEPT !.status = "PROCESSING"]
                                                    ELSE Requests[w]
  <2> TAKE w \in Ids
  <2>1. withdrawals[w] \in WithdrawalRows
    BY TablesTyped
  <2>2. CASE w \in chosen
    <3>1. withdrawals'[w] = [withdrawals[w] EXCEPT !.status = "PROCESSING", !.batch = Len(batches) + 1]
      BY <1>1, <2>2
    <3>2. /\ withdrawals'[w].user = withdrawals[w].user
          /\ withdrawals'[w].amount = withdrawals[w].amount
          /\ withdrawals'[w].status = "PROCESSING"
      BY <2>1, <3>1 DEF WithdrawalRows
    <3> QED BY <1>2, <2>2, <3>2 DEF Requests
  <2>3. CASE w \notin chosen
    BY <1>1, <1>2, <2>3 DEF Requests
  <2> QED BY <2>2, <2>3
<1>5. DOMAIN Requests = Ids /\ Requests' = [w \in Ids |-> Requests'[w]]
  BY <1>2 DEF Requests
<1>6. Requests' = [w \in DOMAIN Requests |->
        IF w \in chosen THEN [Requests[w] EXCEPT !.status = "PROCESSING"] ELSE Requests[w]]
  BY <1>4, <1>5
<1>7. Promise!Export(chosen)
  BY <1>2, <1>3, <1>6 DEF Promise!Export, Requests
<1> QED BY <1>3, <1>5, <1>7 DEF Promise!Next, Requests

(* A settled row: the settle key is free, so the money moves with it.      *)
LEMMA PromiseSettle ==
  ASSUME Safe, NEW w \in Ids, MarkPaid(w) \/ MarkFailed(w)
  PROVE  [Promise!Next]_(Promise!vars)
<1> USE AccountFacts DEF Safe
<1>1. book \in Books /\ \A a \in Accounts : book.balance[a] \in Int
  BY DEF Typed, TypeOK, Books
<1>2. ~Posted(book, SettleKey(w)) /\ withdrawals[w] \in WithdrawalRows
  BY TablesTyped DEF SettlementMatchesStatus, Active, MarkPaid, MarkFailed
<1>3. PaidTxn(w) \in Transactions /\ ReturnTxn(w) \in Transactions
  BY TxnsTyped
<1>4. ASSUME NEW s, withdrawals' = [withdrawals EXCEPT ![w].status = s]
      PROVE  Requests' = [Requests EXCEPT ![w].status = s]
  <2>1. /\ Ids' = Ids
        /\ \A v \in Ids \ {w} : withdrawals'[v] = withdrawals[v]
        /\ withdrawals'[w].status = s
        /\ withdrawals'[w].user = withdrawals[w].user
        /\ withdrawals'[w].amount = withdrawals[w].amount
    BY <1>4, SettledRow
  <2>2. \A v \in Ids : Requests'[v] = IF v = w THEN [Requests[w] EXCEPT !.status = s] ELSE Requests[v]
    BY <2>1 DEF Requests
  <2>3. Requests' = [v \in Ids |-> Requests'[v]] /\ DOMAIN Requests = Ids
    BY <2>1 DEF Requests
  <2> QED BY <2>2, <2>3 DEF Requests
<1>5. CASE MarkPaid(w)
  <2>1. PaidTxn(w).src = Clearing /\ PaidTxn(w).dst = Settled /\ PaidTxn(w).key = SettleKey(w)
    BY DEF PaidTxn, Transfer
  <2>2. \A a \in Accounts \ {Clearing, Settled} : book'.balance[a] = book.balance[a]
    BY <1>1, <1>2, <1>3, <1>5, <2>1, PostMoves DEF MarkPaid
  <2>3. Requests' = [Requests EXCEPT ![w].status = "PAID"] /\ Requests[w].status = "PROCESSING"
    BY <1>4, <1>5 DEF MarkPaid, Requests
  <2>4. Promise!Pay(w)
    BY <2>2, <2>3 DEF Promise!Pay, Requests
  <2> QED BY <2>4 DEF Promise!Next, Ids
<1>6. CASE MarkFailed(w)
  <2> DEFINE u == withdrawals[w].user
             amount == withdrawals[w].amount
  <2>1. /\ ReturnTxn(w).src = Clearing /\ ReturnTxn(w).dst = Available(u)
        /\ ReturnTxn(w).key = SettleKey(w) /\ ReturnTxn(w).amount = amount
    BY DEF ReturnTxn, Transfer
  <2>2. u \in Users
    BY <1>2 DEF WithdrawalRows
  <2>3. /\ book'.balance[Available(u)] = book.balance[Available(u)] + amount
        /\ \A a \in Accounts \ {Clearing, Available(u)} : book'.balance[a] = book.balance[a]
    BY <1>1, <1>2, <1>3, <1>6, <2>1, <2>2, PostMoves DEF MarkFailed
  <2>4. AvailableIn(book') = [AvailableIn(book) EXCEPT ![u] = @ + amount]
    BY <2>2, <2>3 DEF AvailableIn
  <2>5. PendingIn(book') = PendingIn(book) /\ book'.balance[Pool] = book.balance[Pool]
    BY <2>2, <2>3 DEF PendingIn
  <2>6. /\ Requests' = [Requests EXCEPT ![w].status = "FAILED"]
        /\ Requests[w].user = u /\ Requests[w].amount = amount
        /\ Requests[w].status \in {"REQUESTED", "PROCESSING"}
    BY <1>4, <1>6 DEF MarkFailed, Requests
  <2>7. Promise!GiveBack(w)
    BY <2>4, <2>5, <2>6 DEF Promise!GiveBack, Promise!InProgress, Requests, AvailableIn, PendingIn
  <2> QED BY <2>7 DEF Promise!Next, Ids
<1> QED BY <1>5, <1>6

(* Every step of the money path is one step of the wallet, or none.        *)
LEMMA PromiseNext == Safe /\ [Next]_vars => [Promise!Next]_(Promise!vars)
<1> SUFFICES ASSUME Safe, [Next]_vars PROVE [Promise!Next]_(Promise!vars)
  OBVIOUS
<1>1. CASE Quiet
  BY <1>1 DEF Quiet, Promise!vars, Ids
<1> QED BY <1>1, MoneySteps, PromiseFund, PromiseUnlock, PromiseEarn, PromiseAsk, PromiseExport,
           PromiseSettle DEF Safe

(* Payouts implements Wallet.                                              *)
THEOREM Refinement == Spec => KeepsPromise
BY PromiseInit, PromiseNext, Safety, PTL DEF Spec, KeepsPromise, Promise!Spec

-----------------------------------------------------------------------------
(* Part 5: where the money is.  First what each step does to the book.     *)
LEMMA BookFacts ==
  ASSUME Safe
  PROVE  /\ book \in Books /\ IsFiniteSet(book.txns) /\ Solvent(book)
         /\ \A a \in Accounts : book.balance[a] \in Int
BY DEF Safe, Typed, TypeOK, Books

(* What a user has and has not asked for.                                  *)
Has(b, u) == b.balance[Pending(u)] + b.balance[Available(u)]

LEMMA UnlockFacts ==
  ASSUME Safe, NEW u \in Users, NEW b, b = Unlocked(u)
  PROVE  /\ b \in Books /\ IsFiniteSet(b.txns) /\ \A a \in Accounts : b.balance[a] \in Int
         /\ Recorded(b) = Recorded(book)
         /\ \A a \in {Pool, Clearing, Settled} : b.balance[a] = book.balance[a]
         /\ \A v \in Users : Has(b, v) = Has(book, v)
<1> USE AccountFacts, BookFacts
<1>1. b \in Books /\ IsFiniteSet(b.txns) /\ \A a \in Accounts : b.balance[a] \in Int
  BY UnlockedTyped DEF Safe, Books
<1>2. CASE b = book
  BY <1>1, <1>2
<1>3. CASE b = Post(book, UnlockTxn(u))
  <2>1. UnlockTxn(u) \in Transactions /\ ~Posted(book, UnlockTxn(u).key)
    BY TxnsTyped, UnlockedKeys DEF Safe
  <2>2. /\ UnlockTxn(u).src = Pending(u) /\ UnlockTxn(u).dst = Available(u)
        /\ UnlockTxn(u).amount = book.balance[Pending(u)] /\ UnlockTxn(u).kind # "FUNDING"
    BY DEF UnlockTxn, Transfer
  <2>3. /\ b.balance[Pending(u)] = book.balance[Pending(u)] - book.balance[Pending(u)]
        /\ b.balance[Available(u)] = book.balance[Available(u)] + book.balance[Pending(u)]
        /\ \A a \in Accounts \ {Pending(u), Available(u)} : b.balance[a] = book.balance[a]
    BY <1>3, <2>1, <2>2, PostMoves
  <2>4. Recorded(b) = Recorded(book)
    BY <1>3, <2>1, <2>2, PostRecorded
  <2>5. ASSUME NEW v \in Users PROVE Has(b, v) = Has(book, v)
    <3>1. CASE v = u
      BY <2>3, <3>1 DEF Has
    <3>2. CASE v # u
      BY <2>3, <3>2 DEF Has
    <3> QED BY <3>1, <3>2
  <2> QED BY <1>1, <2>3, <2>4, <2>5
<1> QED BY <1>2, <1>3 DEF Unlocked

LEMMA FundFacts ==
  ASSUME Safe, NEW nonce \in Nonces, NEW amount \in FundingAmounts, Fund(nonce, amount)
  PROVE  \/ book' = book
         \/ /\ Total(Recorded(book)) \in Int /\ amount \in Nat
            /\ Total(Recorded(book')) = Total(Recorded(book)) + amount
            /\ book'.balance[Pool] = book.balance[Pool] + amount
            /\ \A a \in Accounts \ {Funding, Pool} : book'.balance[a] = book.balance[a]
<1> USE AccountFacts, BookFacts
<1> DEFINE t == Transfer("FUNDING", FundingKey(nonce), Funding, Pool, amount)
<1>1. t \in Transactions /\ amount \in Nat /\ book' = Post(book, t)
  BY TxnsTyped, PayoutsAssumption DEF Fund, Safe
<1>2. t.src = Funding /\ t.dst = Pool /\ t.amount = amount /\ t.kind = "FUNDING"
  BY DEF Transfer
<1> HIDE DEF t
<1>3. CASE Posted(book, t.key)
  BY <1>1, <1>3, PostKeys
<1>4. CASE ~Posted(book, t.key)
  BY <1>1, <1>2, <1>4, PostMoves, PostRecorded
<1> QED BY <1>3, <1>4

LEMMA EarnFacts ==
  ASSUME Safe, NEW h \in Handlers, CommitVerify(h)
  PROVE  \/ UNCHANGED <<book, rewards>>
         \/ \E v \in Users, row \in Rewards :
              /\ row \notin rewards /\ rewards' = rewards \cup {row} /\ row.beneficiary = v
              /\ Recorded(book') = Recorded(book)
              /\ book'.balance[Pool] = book.balance[Pool] - row.amount
              /\ book'.balance[Pending(v)] = book.balance[Pending(v)] + row.amount
              /\ \A a \in Accounts \ {Pool, Pending(v)} : book'.balance[a] = book.balance[a]
<1> USE AccountFacts, BookFacts
<1> DEFINE u == handler[h].user
           offer == handler[h].amount
           t == RewardTxn(u, offer)
           row == RewardRow(u, offer)
<1>1. CASE /\ offer > 0 /\ ~Posted(book, RewardKey(u))
           /\ book' = Post(book, t) /\ rewards' = rewards \cup {row}
  <2>1. u \in Users /\ Referrer[u] \in Users /\ offer \in Nat /\ now \in Nat /\ u \notin verified
    BY <1>1 DEF Safe, VerifyingOK, Verifying, Typed, TypeOK, TasksOK, Tasks, CommitVerify
  <2>2. t \in Transactions /\ ~Posted(book, t.key)
    BY <1>1, <2>1, TxnsTyped, TxnKeyFacts DEF Safe
  <2>3. t.src = Pool /\ t.dst = Pending(Referrer[u]) /\ t.amount = offer /\ t.kind # "FUNDING"
    BY DEF RewardTxn, Transfer
  <2>4. row \in Rewards /\ row.source = u /\ row.beneficiary = Referrer[u] /\ row.amount = offer
    BY <2>1 DEF RewardRow, Rewards
  <2>5. row \notin rewards
    BY <2>1, <2>4 DEF Safe, RewardBacked
  <2>6. /\ book'.balance[Pool] = book.balance[Pool] - offer
        /\ book'.balance[Pending(Referrer[u])] = book.balance[Pending(Referrer[u])] + offer
        /\ \A a \in Accounts \ {Pool, Pending(Referrer[u])} : book'.balance[a] = book.balance[a]
    BY <1>1, <2>1, <2>2, <2>3, PostMoves
  <2>7. Recorded(book') = Recorded(book)
    BY <1>1, <2>2, <2>3, PostRecorded
  <2> HIDE DEF row
  <2> QED BY <1>1, <2>1, <2>4, <2>5, <2>6, <2>7
<1> QED BY <1>1 DEF CommitVerify, Funded

LEMMA HoldFacts ==
  ASSUME Safe, NEW h \in Handlers, HoldWithdrawal(h)
  PROVE  \E u \in Users, amount \in Nat, w \in Nat, row \in WithdrawalRows :
           /\ row.user = u /\ row.amount = amount /\ row.batch = 0 /\ row.status = "REQUESTED"
           /\ w \notin Ids /\ Ids' = Ids \cup {w} /\ withdrawals'[w] = row
           /\ \A x \in Ids : withdrawals'[x] = withdrawals[x]
           /\ Recorded(book') = Recorded(book)
           /\ book'.balance[Clearing] = book.balance[Clearing] + amount
           /\ \A a \in {Pool, Settled} : book'.balance[a] = book.balance[a]
           /\ Has(book', u) = Has(book, u) - amount
           /\ \A v \in Users \ {u} : Has(book', v) = Has(book, v)
<1> USE AccountFacts DEF Safe
<1>1. PICK u, amount, w, row, t, b :
        /\ u = handler[h].user /\ amount = handler[h].amount
        /\ w = Len(withdrawals) + 1
        /\ row = [user |-> u, amount |-> amount, account |-> handler[h].account,
                  batch |-> 0, status |-> "REQUESTED"]
        /\ t = HoldTxn(w, u, amount)
        /\ b = Unlocked(u)
        /\ withdrawals' = Append(withdrawals, row)
        /\ book' = Post(b, t)
  BY DEF HoldWithdrawal
<1>2. u \in Users /\ amount \in Nat
  BY <1>1 DEF HoldWithdrawal, Typed, TypeOK, TasksOK, Tasks
<1>3. /\ b \in Books /\ IsFiniteSet(b.txns) /\ \A a \in Accounts : b.balance[a] \in Int
      /\ Recorded(b) = Recorded(book)
      /\ \A a \in {Pool, Clearing, Settled} : b.balance[a] = book.balance[a]
      /\ \A v \in Users : Has(b, v) = Has(book, v)
  BY <1>1, <1>2, UnlockFacts
<1>0. w \in Nat
  BY <1>1, TablesTyped
<1>4. /\ t \in Transactions /\ t.key = HoldKey(w) /\ t.src = Available(u) /\ t.dst = Clearing
      /\ t.amount = amount /\ t.kind # "FUNDING"
  <2>1. t \in Transactions
    BY <1>0, <1>1, <1>2, TxnsTyped
  <2>2. /\ t.key = HoldKey(w) /\ t.src = Available(u) /\ t.dst = Clearing
        /\ t.amount = amount /\ t.kind # "FUNDING"
    BY <1>1 DEF HoldTxn, Transfer
  <2> QED BY <2>1, <2>2
<1>5. /\ w \in Nat /\ w \notin Ids /\ Ids' = Ids \cup {w} /\ withdrawals'[w] = row
      /\ \A x \in Ids : withdrawals'[x] = withdrawals[x]
  BY <1>1, TablesTyped DEF Ids
<1>6. ~Posted(b, t.key)
  BY <1>1, <1>4, <1>5, UnlockedTxns, KeyFacts, TxnKeyFacts DEF Posted, SettlementMatchesStatus
<1>7. /\ book'.balance[Available(u)] = b.balance[Available(u)] - amount
      /\ book'.balance[Clearing] = b.balance[Clearing] + amount
      /\ \A a \in Accounts \ {Available(u), Clearing} : book'.balance[a] = b.balance[a]
  <2>1. /\ t.src # t.dst /\ book' = Post(b, t) /\ b \in Books /\ t \in Transactions
    BY <1>1, <1>2, <1>3, <1>4
  <2> QED BY <1>4, <1>6, <2>1, PostMoves
<1>8. Recorded(book') = Recorded(book)
  BY <1>1, <1>3, <1>4, <1>6, PostRecorded
<1>9. Has(book', u) = Has(book, u) - amount
  <2>1. book'.balance[Pending(u)] = b.balance[Pending(u)]
    BY <1>2, <1>7
  <2>2. b.balance[Pending(u)] \in Int /\ b.balance[Available(u)] \in Int
    BY <1>2, <1>3
  <2>3. Has(book', u) = Has(b, u) - amount
    BY <1>2, <1>7, <2>1, <2>2 DEF Has
  <2> QED BY <1>2, <1>3, <2>3
<1>10. ASSUME NEW v \in Users \ {u} PROVE Has(book', v) = Has(book, v)
  <2>1. book'.balance[Pending(v)] = b.balance[Pending(v)]
        /\ book'.balance[Available(v)] = b.balance[Available(v)]
    BY <1>2, <1>7
  <2> QED BY <1>3, <2>1 DEF Has
<1>11. /\ row.user = u /\ row.amount = amount /\ row.batch = 0 /\ row.status = "REQUESTED"
       /\ row \in WithdrawalRows
  BY <1>1, <1>2 DEF HoldWithdrawal, Typed, TypeOK, TasksOK, Tasks, WithdrawalRows
<1>12. /\ book'.balance[Clearing] = book.balance[Clearing] + amount
       /\ \A a \in {Pool, Settled} : book'.balance[a] = book.balance[a]
  BY <1>2, <1>3, <1>7
<1> QED BY <1>2, <1>5, <1>8, <1>9, <1>10, <1>11, <1>12

LEMMA SettleFacts ==
  ASSUME Safe, NEW w \in Ids, MarkPaid(w) \/ MarkFailed(w)
  PROVE  LET u == withdrawals[w].user
             amount == withdrawals[w].amount IN
         /\ u \in Users /\ amount \in Nat /\ Active(w)
         /\ Recorded(book') = Recorded(book)
         /\ book'.balance[Pool] = book.balance[Pool]
         /\ book'.balance[Clearing] = book.balance[Clearing] - amount
         /\ \/ /\ withdrawals' = [withdrawals EXCEPT ![w].status = "PAID"]
               /\ book'.balance[Settled] = book.balance[Settled] + amount
               /\ \A v \in Users : Has(book', v) = Has(book, v)
            \/ /\ withdrawals' = [withdrawals EXCEPT ![w].status = "FAILED"]
               /\ book'.balance[Settled] = book.balance[Settled]
               /\ Has(book', u) = Has(book, u) + amount
               /\ \A v \in Users \ {u} : Has(book', v) = Has(book, v)
<1> USE AccountFacts, BookFacts DEF Safe
<1> DEFINE u == withdrawals[w].user
           amount == withdrawals[w].amount
<1>1. u \in Users /\ amount \in Nat
  BY TablesTyped DEF WithdrawalRows
<1>2. ~Posted(book, SettleKey(w)) /\ Active(w)
  BY DEF SettlementMatchesStatus, Active, MarkPaid, MarkFailed
<1>3. PaidTxn(w) \in Transactions /\ ReturnTxn(w) \in Transactions
  BY TxnsTyped
<1>4. /\ PaidTxn(w).src = Clearing /\ PaidTxn(w).dst = Settled /\ PaidTxn(w).key = SettleKey(w)
      /\ PaidTxn(w).amount = amount /\ PaidTxn(w).kind # "FUNDING"
  BY DEF PaidTxn, Transfer
<1>5. /\ ReturnTxn(w).src = Clearing /\ ReturnTxn(w).dst = Available(u)
      /\ ReturnTxn(w).key = SettleKey(w)
      /\ ReturnTxn(w).amount = amount /\ ReturnTxn(w).kind # "FUNDING"
  BY DEF ReturnTxn, Transfer
<1> HIDE DEF u, amount
<1>6. CASE MarkPaid(w)
  <2>1. book' = Post(book, PaidTxn(w)) /\ withdrawals' = [withdrawals EXCEPT ![w].status = "PAID"]
    BY <1>6 DEF MarkPaid
  <2>2. /\ book'.balance[Clearing] = book.balance[Clearing] - amount
        /\ book'.balance[Settled] = book.balance[Settled] + amount
        /\ \A a \in Accounts \ {Clearing, Settled} : book'.balance[a] = book.balance[a]
    BY <1>2, <1>3, <1>4, <2>1, PostMoves
  <2>3. Recorded(book') = Recorded(book)
    BY <1>2, <1>3, <1>4, <2>1, PostRecorded
  <2>4. \A v \in Users : Has(book', v) = Has(book, v)
    BY <2>2 DEF Has
  <2> QED BY <1>1, <1>2, <2>1, <2>2, <2>3, <2>4 DEF u, amount
<1>7. CASE MarkFailed(w)
  <2>1. book' = Post(book, ReturnTxn(w)) /\ withdrawals' = [withdrawals EXCEPT ![w].status = "FAILED"]
    BY <1>7 DEF MarkFailed
  <2>2. /\ book'.balance[Clearing] = book.balance[Clearing] - amount
        /\ book'.balance[Available(u)] = book.balance[Available(u)] + amount
        /\ \A a \in Accounts \ {Clearing, Available(u)} : book'.balance[a] = book.balance[a]
    BY <1>1, <1>2, <1>3, <1>5, <2>1, PostMoves
  <2>3. Recorded(book') = Recorded(book)
    BY <1>2, <1>3, <1>5, <2>1, PostRecorded
  <2>4. Has(book', u) = Has(book, u) + amount
    BY <1>1, <2>2 DEF Has
  <2>5. \A v \in Users \ {u} : Has(book', v) = Has(book, v)
    BY <1>1, <2>2 DEF Has
  <2> QED BY <1>1, <1>2, <2>1, <2>2, <2>3, <2>4, <2>5 DEF u, amount
<1> QED BY <1>6, <1>7

-----------------------------------------------------------------------------
(* The balances are what the entries add up to.                            *)
LEMMA ReconciledNext ==
  ASSUME Safe, Reconciled(book), [Next]_vars
  PROVE  Reconciled(book')
<1> USE AccountFacts, BookFacts DEF Safe
<1>1. CASE book' = book
  BY <1>1
<1>2. ASSUME NEW t \in Transactions, t.src # t.dst, book' = Post(book, t)
      PROVE  Reconciled(book')
  BY <1>2, PostReconciled
<1>3. ASSUME NEW nonce \in Nonces, NEW amount \in FundingAmounts, Fund(nonce, amount)
      PROVE  Reconciled(book')
  <2> DEFINE t == Transfer("FUNDING", FundingKey(nonce), Funding, Pool, amount)
  <2>1. t \in Transactions /\ book' = Post(book, t)
    BY <1>3, TxnsTyped, PayoutsAssumption DEF Fund
  <2>2. t.src # t.dst
    BY DEF Transfer
  <2> QED BY <1>2, <2>1, <2>2
<1>4. ASSUME NEW u \in Users PROVE Reconciled(Unlocked(u))
  <2>1. UnlockTxn(u) \in Transactions
    BY TxnsTyped
  <2>2. UnlockTxn(u).src # UnlockTxn(u).dst
    BY DEF UnlockTxn, Transfer
  <2>3. Reconciled(Post(book, UnlockTxn(u)))
    BY <2>1, <2>2, PostReconciled
  <2> QED BY <2>3 DEF Unlocked
<1>5. ASSUME NEW h \in Handlers, CommitVerify(h)
      PROVE  Reconciled(book')
  <2> DEFINE u == handler[h].user
             offer == handler[h].amount
             t == RewardTxn(u, offer)
  <2>1. CASE offer > 0 /\ book' = Post(book, t)
    <3>1. u \in Users /\ Referrer[u] \in Users /\ offer \in Nat
      BY <1>5, <2>1 DEF Typed, TypeOK, TasksOK, Tasks, CommitVerify
    <3>2. t \in Transactions
      BY <3>1, TxnsTyped
    <3>3. t.src # t.dst
      BY <3>1 DEF RewardTxn, Transfer
    <3> QED BY <1>2, <2>1, <3>2, <3>3
  <2> QED BY <1>1, <1>5, <2>1 DEF CommitVerify, Funded
<1>6. ASSUME NEW h \in Handlers, HoldWithdrawal(h)
      PROVE  Reconciled(book')
  <2>1. PICK u, amount, w, t :
          /\ u = handler[h].user /\ amount = handler[h].amount
          /\ w = Len(withdrawals) + 1 /\ t = HoldTxn(w, u, amount)
          /\ book' = Post(Unlocked(u), t)
    BY <1>6 DEF HoldWithdrawal
  <2>2. u \in Users /\ amount \in Nat /\ w \in Nat
    BY <1>6, <2>1, TablesTyped DEF HoldWithdrawal, Typed, TypeOK, TasksOK, Tasks
  <2>3. t \in Transactions
    BY <2>1, <2>2, TxnsTyped
  <2>4. t.src # t.dst
    BY <2>1, <2>2 DEF HoldTxn, Transfer
  <2>5. Unlocked(u) \in Books /\ IsFiniteSet(Unlocked(u).txns)
    BY <2>2, UnlockedTyped
  <2> QED BY <1>4, <2>1, <2>2, <2>3, <2>4, <2>5, PostReconciled
<1>7. ASSUME NEW w \in Ids, MarkPaid(w) \/ MarkFailed(w)
      PROVE  Reconciled(book')
  <2>1. PaidTxn(w) \in Transactions /\ ReturnTxn(w) \in Transactions
    BY TxnsTyped
  <2>2. withdrawals[w].user \in Users
    BY TablesTyped DEF WithdrawalRows
  <2>3. PaidTxn(w).src # PaidTxn(w).dst /\ ReturnTxn(w).src # ReturnTxn(w).dst
    BY <2>2 DEF PaidTxn, ReturnTxn, Transfer
  <2> QED BY <1>2, <1>7, <2>1, <2>3 DEF MarkPaid, MarkFailed
<1>8. CASE Quiet \/ CreateBatch
  BY <1>1, <1>8 DEF Quiet, CreateBatch
<1>9. ASSUME NEW u \in Users, UnlockWallet(u)
      PROVE  Reconciled(book')
  BY <1>4, <1>9 DEF UnlockWallet
<1> QED BY <1>3, <1>5, <1>6, <1>7, <1>8, <1>9, MoneySteps

(* Every balance is what its ledger entries add up to, whatever is retried. *)
THEOREM Reconciliation == Spec => []LedgerReconciles
<1>1. Init => Reconciled(book)
  <2> SUFFICES ASSUME Init, NEW a \in Accounts PROVE book.balance[a] = Recounted(book, a)
    BY DEF Reconciled
  <2>1. book.balance[a] = 0 /\ {t \in book.txns : t.dst = a} = {} /\ {t \in book.txns : t.src = a} = {}
    BY DEF Init, EmptyBook
  <2>2. Total({}) = 0
    BY SumNone DEF Total
  <2> QED BY <2>1, <2>2 DEF Recounted
<1>2. Safe /\ Reconciled(book) /\ [Next]_vars => Reconciled(book)'
  BY ReconciledNext
<1>3. Reconciled(book) => LedgerReconciles
  BY DEF Reconciled, LedgerReconciles
<1> QED BY <1>1, <1>2, <1>3, Safety, PTL DEF Spec

-----------------------------------------------------------------------------
(* The pool is what was recorded less what was rewarded.                   *)
Paid(rows) == SumFunctionOnSet([r \in rows |-> r.amount], rows)

PoolOK ==
  /\ IsFiniteSet(rewards)
  /\ book.balance[Pool] = Total(Recorded(book)) - Paid(rewards)

LEMMA RewardPut ==
  ASSUME Safe, IsFiniteSet(rewards), NEW row \in Rewards, row \notin rewards
  PROVE  /\ IsFiniteSet(rewards \cup {row})
         /\ Paid(rewards \cup {row}) = Paid(rewards) + row.amount
         /\ Paid(rewards) \in Int /\ row.amount \in Nat
<1>1. row.amount \in Nat /\ \A r \in rewards : r.amount \in Int
  BY DEF Safe, Typed, TypeOK, Rewards
<1>2. IsFiniteSet(rewards \cup {row})
  BY FS_AddElement
<1>3. /\ SumFunctionOnSet([r \in rewards \cup {row} |-> r.amount], rewards \cup {row})
           = SumFunctionOnSet([r \in rewards |-> r.amount], rewards) + row.amount
      /\ SumFunctionOnSet([r \in rewards |-> r.amount], rewards) \in Int
  <2>1. rewards \subseteq rewards
    OBVIOUS
  <2> QED BY <1>1, <2>1, AmountsPut
<1> QED BY <1>1, <1>2, <1>3 DEF Paid

LEMMA PoolNext ==
  ASSUME Safe, PoolOK, [Next]_vars
  PROVE  PoolOK'
<1> USE AccountFacts, BookFacts DEF PoolOK
<1>0. Total(Recorded(book)) \in Int /\ Paid(rewards) \in Int
  <2>1. IsFiniteSet(Recorded(book)) /\ \A t \in Recorded(book) : t.amount \in Int
    BY FS_Subset DEF Recorded, Books, Transactions
  <2>2. \A r \in rewards : r.amount \in Int
    BY DEF Safe, Typed, TypeOK, Rewards
  <2> QED BY <2>1, <2>2, SumType DEF Total, Paid
<1>1. ASSUME Recorded(book') = Recorded(book), book'.balance[Pool] = book.balance[Pool],
             rewards' = rewards
      PROVE  PoolOK'
  BY <1>1
<1>2. CASE Quiet \/ CreateBatch
  BY <1>1, <1>2 DEF Quiet, CreateBatch
<1>3. ASSUME NEW nonce \in Nonces, NEW amount \in FundingAmounts, Fund(nonce, amount)
      PROVE  PoolOK'
  <2>1. rewards' = rewards
    BY <1>3 DEF Fund
  <2> QED BY <1>0, <1>1, <1>3, <2>1, FundFacts
<1>4. ASSUME NEW u \in Users, UnlockWallet(u) PROVE PoolOK'
  <2>1. rewards' = rewards /\ book' = Unlocked(u)
    BY <1>4 DEF UnlockWallet
  <2>2. Recorded(book') = Recorded(book) /\ book'.balance[Pool] = book.balance[Pool]
    BY <2>1, UnlockFacts
  <2> QED BY <1>1, <2>1, <2>2
<1>5. ASSUME NEW h \in Handlers, CommitVerify(h) PROVE PoolOK'
  <2>1. CASE UNCHANGED <<book, rewards>>
    BY <1>1, <2>1
  <2>2. ASSUME NEW v \in Users, NEW row \in Rewards, row \notin rewards,
               rewards' = rewards \cup {row}, Recorded(book') = Recorded(book),
               book'.balance[Pool] = book.balance[Pool] - row.amount
        PROVE  PoolOK'
    BY <1>0, <2>2, RewardPut
  <2> QED BY <1>5, <2>1, <2>2, EarnFacts
<1>6. ASSUME NEW h \in Handlers, HoldWithdrawal(h) PROVE PoolOK'
  <2>1. rewards' = rewards
    BY <1>6 DEF HoldWithdrawal
  <2> QED BY <1>1, <1>6, <2>1, HoldFacts
<1>7. ASSUME NEW w \in Ids, MarkPaid(w) \/ MarkFailed(w) PROVE PoolOK'
  <2>1. rewards' = rewards
    BY <1>7 DEF MarkPaid, MarkFailed
  <2> QED BY <1>1, <1>7, <2>1, SettleFacts
<1> QED BY <1>2, <1>3, <1>4, <1>5, <1>6, <1>7, MoneySteps

(* Every reward is paid from recorded funding, and the pool never overdrawn. *)
THEOREM FundedPromises == Spec => []PromisesFunded
<1>1. Init => PoolOK
  <2>1. Total({}) = 0 /\ Paid({}) = 0
    BY SumNone DEF Total, Paid
  <2>2. Init => Recorded(book) = {} /\ book.balance[Pool] = 0 /\ rewards = {}
    BY AccountFacts DEF Init, EmptyBook, Recorded
  <2> QED BY <2>1, <2>2, FS_EmptySet DEF PoolOK
<1>2. Safe /\ PoolOK /\ [Next]_vars => PoolOK'
  BY PoolNext
<1>3. Safe /\ PoolOK => PromisesFunded
  BY AccountFacts, BookFacts DEF PoolOK, PromisesFunded, Solvent, Recorded, Paid
<1> QED BY <1>1, <1>2, <1>3, Safety, PTL DEF Spec

-----------------------------------------------------------------------------
(* What is in withdrawal is in the clearing account.                       *)
InProgress == {w \in Ids : Active(w)}
PaidOut    == {w \in Ids : withdrawals[w].status = "PAID"}

ClearingOK ==
  /\ book.balance[Clearing] = RowSum(withdrawals, InProgress)
  /\ book.balance[Settled] = RowSum(withdrawals, PaidOut)

(* The rows of a table that is typed have amounts, and are finitely many.  *)
LEMMA RowFacts ==
  ASSUME Typed
  PROVE  /\ \A rows \in SUBSET Ids : IsFiniteSet(rows)
         /\ \A w \in Ids : withdrawals[w].amount \in Nat /\ withdrawals[w].batch \in Nat
<1>1. IsFiniteSet(Ids)
  BY TablesTyped, FS_Interval
<1> QED BY <1>1, TablesTyped, FS_Subset DEF WithdrawalRows

LEMMA ClearingNext ==
  ASSUME Safe, ClearingOK, [Next]_vars
  PROVE  ClearingOK'
<1> USE AccountFacts, BookFacts DEF ClearingOK
<1>0. Typed
  BY DEF Safe
<1>01. /\ IsFiniteSet(InProgress) /\ IsFiniteSet(PaidOut)
       /\ \A w \in InProgress \cup PaidOut : withdrawals[w].amount \in Int
  BY <1>0, RowFacts DEF InProgress, PaidOut
<1>1. ASSUME book'.balance[Clearing] = book.balance[Clearing],
             book'.balance[Settled] = book.balance[Settled],
             Ids' = Ids,
             \A w \in Ids : /\ withdrawals'[w].amount = withdrawals[w].amount
                            /\ Active(w)' <=> Active(w)
                            /\ withdrawals'[w].status = "PAID" <=> withdrawals[w].status = "PAID"
      PROVE  ClearingOK'
  <2>1. InProgress' = InProgress /\ PaidOut' = PaidOut
    BY <1>1 DEF InProgress, PaidOut
  <2>2. \A w \in InProgress \cup PaidOut : withdrawals'[w].amount = withdrawals[w].amount
    BY <1>1 DEF InProgress, PaidOut
  <2>3. RowSum(withdrawals', InProgress) = RowSum(withdrawals, InProgress)
    BY <1>01, <2>2, RowSumSame
  <2>4. RowSum(withdrawals', PaidOut) = RowSum(withdrawals, PaidOut)
    BY <1>01, <2>2, RowSumSame
  <2> QED BY <1>1, <2>1, <2>3, <2>4
<1>2. ASSUME UNCHANGED withdrawals,
             book'.balance[Clearing] = book.balance[Clearing],
             book'.balance[Settled] = book.balance[Settled]
      PROVE  ClearingOK'
  BY <1>1, <1>2 DEF Ids, Active
<1>3. CASE Quiet
  BY <1>2, <1>3 DEF Quiet
<1>4. CASE CreateBatch
  BY <1>0, <1>1, <1>4, BatchFacts DEF Active
<1>5. ASSUME NEW nonce \in Nonces, NEW amount \in FundingAmounts, Fund(nonce, amount)
      PROVE  ClearingOK'
  BY <1>2, <1>5, FundFacts DEF Fund
<1>6. ASSUME NEW u \in Users, UnlockWallet(u) PROVE ClearingOK'
  BY <1>2, <1>6, UnlockFacts DEF UnlockWallet
<1>7. ASSUME NEW h \in Handlers, CommitVerify(h) PROVE ClearingOK'
  <2>1. UNCHANGED withdrawals
    BY <1>7 DEF CommitVerify
  <2>2. book'.balance[Clearing] = book.balance[Clearing] /\ book'.balance[Settled] = book.balance[Settled]
    BY <1>7, EarnFacts
  <2> QED BY <1>2, <2>1, <2>2
<1>8. ASSUME NEW h \in Handlers, HoldWithdrawal(h) PROVE ClearingOK'
  <2>1. PICK amount \in Nat, w \in Nat, row \in WithdrawalRows :
          /\ row.amount = amount /\ row.status = "REQUESTED"
          /\ w \notin Ids /\ Ids' = Ids \cup {w} /\ withdrawals'[w] = row
          /\ \A x \in Ids : withdrawals'[x] = withdrawals[x]
          /\ book'.balance[Clearing] = book.balance[Clearing] + amount
          /\ book'.balance[Settled] = book.balance[Settled]
    BY <1>8, HoldFacts
  <2>2. InProgress' = InProgress \cup {w} /\ PaidOut' = PaidOut /\ w \notin InProgress
    BY <2>1 DEF InProgress, PaidOut, Active
  <2>3. \A x \in InProgress \cup PaidOut : withdrawals'[x] = withdrawals[x]
    BY <2>1 DEF InProgress, PaidOut
  <2>4. /\ RowSum(withdrawals', InProgress \cup {w}) = RowSum(withdrawals, InProgress) + withdrawals'[w].amount
        /\ RowSum(withdrawals, InProgress) \in Int
    <3>1. withdrawals'[w].amount \in Int
      BY <2>1
    <3>2. \A x \in InProgress : withdrawals[x].amount \in Int /\ withdrawals'[x].amount = withdrawals[x].amount
      BY <1>01, <2>3
    <3> QED BY <1>01, <2>2, <3>1, <3>2, RowSumPut
  <2>5. RowSum(withdrawals', PaidOut) = RowSum(withdrawals, PaidOut)
    BY <1>01, <2>3, RowSumSame
  <2> QED BY <2>1, <2>2, <2>4, <2>5
<1>9. ASSUME NEW w \in Ids, MarkPaid(w) \/ MarkFailed(w) PROVE ClearingOK'
  <2> DEFINE amount == withdrawals[w].amount
  <2>0. PICK s \in {"PAID", "FAILED"} :
          /\ withdrawals' = [withdrawals EXCEPT ![w].status = s]
          /\ Active(w) /\ amount \in Nat
          /\ book'.balance[Clearing] = book.balance[Clearing] - amount
          /\ book'.balance[Settled] =
               IF s = "PAID" THEN book.balance[Settled] + amount ELSE book.balance[Settled]
    BY <1>9, SettleFacts
  <2>1. /\ Ids' = Ids /\ withdrawals'[w].status = s /\ withdrawals'[w].amount = amount
        /\ \A x \in Ids \ {w} : withdrawals'[x] = withdrawals[x]
    BY <1>0, <2>0, SettledRow
  <2>2. w \in InProgress /\ w \notin PaidOut
    BY <2>0 DEF InProgress, PaidOut, Active
  <2>3. InProgress' = InProgress \ {w}
    BY <2>1 DEF InProgress, Active
  <2>4. PaidOut' = IF s = "PAID" THEN PaidOut \cup {w} ELSE PaidOut
    BY <2>1, <2>2 DEF PaidOut
  <2>5. /\ RowSum(withdrawals', InProgress \ {w}) = RowSum(withdrawals, InProgress) - amount
    <3>1. \A x \in InProgress \ {w} : withdrawals'[x].amount = withdrawals[x].amount
      BY <2>1 DEF InProgress
    <3> QED BY <1>01, <2>2, <3>1, RowSumOut
  <2>6. /\ RowSum(withdrawals', PaidOut) = RowSum(withdrawals, PaidOut)
        /\ RowSum(withdrawals', PaidOut \cup {w}) = RowSum(withdrawals, PaidOut) + amount
    <3>1. \A x \in PaidOut : withdrawals'[x].amount = withdrawals[x].amount
      BY <2>1, <2>2 DEF PaidOut
    <3>2. withdrawals'[w].amount \in Int
      BY <2>0, <2>1
    <3>3. RowSum(withdrawals', PaidOut) = RowSum(withdrawals, PaidOut)
      BY <1>01, <3>1, RowSumSame
    <3>4. RowSum(withdrawals', PaidOut \cup {w}) = RowSum(withdrawals, PaidOut) + withdrawals'[w].amount
      BY <1>01, <2>2, <3>1, <3>2, RowSumPut
    <3> QED BY <2>1, <3>3, <3>4
  <2> HIDE DEF amount
  <2> QED BY <2>0, <2>3, <2>4, <2>5, <2>6
<1> QED BY <1>3, <1>4, <1>5, <1>6, <1>7, <1>8, <1>9, MoneySteps

(* The clearing account never lacks what a settlement takes from it.       *)
THEOREM ClearingMatches == Spec => []ClearingHoldsActive
<1>1. Init => ClearingOK
  <2>1. \A table : RowSum(table, {}) = 0
    BY SumNone DEF RowSum
  <2>2. Init => InProgress = {} /\ PaidOut = {} /\ book.balance[Clearing] = 0 /\ book.balance[Settled] = 0
    BY AccountFacts DEF Init, EmptyBook, InProgress, PaidOut, Ids
  <2> QED BY <2>1, <2>2 DEF ClearingOK
<1>2. Safe /\ ClearingOK /\ [Next]_vars => ClearingOK'
  BY ClearingNext
<1>3. ClearingOK => ClearingHoldsActive
  BY DEF ClearingOK, ClearingHoldsActive, RowTotal, RowSum, InProgress, PaidOut
<1> QED BY <1>1, <1>2, <1>3, Safety, PTL DEF Spec

-----------------------------------------------------------------------------
(* What a person earned is theirs, in withdrawal or withdrawn.             *)
Earned(u)   == SumFunctionOnSet([r \in rewards |-> r.amount], {r \in rewards : r.beneficiary = u})
Standing(u) == {w \in Ids : withdrawals[w].user = u /\ withdrawals[w].status # "FAILED"}

EarningsOK ==
  /\ IsFiniteSet(rewards)
  /\ \A u \in Users : Earned(u) = Has(book, u) + RowSum(withdrawals, Standing(u))

LEMMA EarnedFacts ==
  ASSUME Safe, IsFiniteSet(rewards), NEW u \in Users
  PROVE  /\ Earned(u) \in Int /\ Has(book, u) \in Int
         /\ IsFiniteSet(Standing(u)) /\ RowSum(withdrawals, Standing(u)) \in Int
         /\ \A w \in Standing(u) : withdrawals[w].amount \in Int
<1>1. Has(book, u) \in Int
  BY AccountFacts, BookFacts DEF Has
<1>2. IsFiniteSet(Standing(u)) /\ \A w \in Standing(u) : withdrawals[w].amount \in Int
  BY RowFacts DEF Standing, Safe
<1>3. RowSum(withdrawals, Standing(u)) \in Int
  BY <1>2, RowSumSame
<1> DEFINE fun == [r \in rewards |-> r.amount]
           mine == {r \in rewards : r.beneficiary = u}
<1>4. IsFiniteSet(mine) /\ \A r \in mine : fun[r] \in Int
  BY FS_Subset DEF Safe, Typed, TypeOK, Rewards
<1> HIDE DEF fun, mine
<1>5. SumFunctionOnSet(fun, mine) \in Int
  BY <1>4, SumType
<1> QED BY <1>1, <1>2, <1>3, <1>5 DEF Earned, fun, mine

(* A reward is earned by its beneficiary and by nobody else.               *)
LEMMA EarnedMore ==
  ASSUME Safe, IsFiniteSet(rewards), NEW row \in Rewards, row \notin rewards,
         rewards' = rewards \cup {row}, NEW u \in Users
  PROVE  Earned(u)' = IF u = row.beneficiary THEN Earned(u) + row.amount ELSE Earned(u)
<1> DEFINE before == [r \in rewards |-> r.amount]
           after == [r \in rewards \cup {row} |-> r.amount]
           mine == {r \in rewards : r.beneficiary = u}
<1>1. row.amount \in Int /\ mine \subseteq rewards /\ \A r \in rewards : r.amount \in Int
  BY DEF Safe, Typed, TypeOK, Rewards
<1>2. /\ SumFunctionOnSet(after, mine \cup {row}) = SumFunctionOnSet(before, mine) + row.amount
      /\ SumFunctionOnSet(after, mine) = SumFunctionOnSet(before, mine)
  BY <1>1, AmountsPut
<1>3. Earned(u)' = SumFunctionOnSet(after, {r \in rewards \cup {row} : r.beneficiary = u})
  BY DEF Earned
<1>4. {r \in rewards \cup {row} : r.beneficiary = u}
        = IF u = row.beneficiary THEN mine \cup {row} ELSE mine
  OBVIOUS
<1>5. Earned(u) = SumFunctionOnSet(before, mine)
  BY DEF Earned
<1> HIDE DEF before, after, mine
<1> QED BY <1>2, <1>3, <1>4, <1>5

LEMMA EarningsNext ==
  ASSUME Safe, EarningsOK, [Next]_vars
  PROVE  EarningsOK'
<1> USE DEF EarningsOK
<1>0. Typed
  BY DEF Safe
<1>1. ASSUME rewards' = rewards, \A u \in Users : Has(book', u) = Has(book, u), Ids' = Ids,
             \A w \in Ids : /\ withdrawals'[w].amount = withdrawals[w].amount
                            /\ withdrawals'[w].user = withdrawals[w].user
                            /\ withdrawals'[w].status = "FAILED" <=> withdrawals[w].status = "FAILED"
      PROVE  EarningsOK'
  <2> SUFFICES ASSUME NEW u \in Users
               PROVE  Earned(u)' = Has(book', u) + RowSum(withdrawals', Standing(u)')
    BY <1>1
  <2>1. Standing(u)' = Standing(u) /\ Earned(u)' = Earned(u)
    BY <1>1 DEF Standing, Earned
  <2>2. \A w \in Standing(u) : withdrawals'[w].amount = withdrawals[w].amount
    BY <1>1 DEF Standing
  <2>3. RowSum(withdrawals', Standing(u)) = RowSum(withdrawals, Standing(u))
    BY <2>2, EarnedFacts, RowSumSame
  <2> QED BY <1>1, <2>1, <2>3
<1>2. ASSUME UNCHANGED <<rewards, withdrawals>>, \A u \in Users : Has(book', u) = Has(book, u)
      PROVE  EarningsOK'
  BY <1>1, <1>2 DEF Ids
<1>3. CASE Quiet
  BY <1>2, <1>3 DEF Quiet
<1>4. CASE CreateBatch
  <2>1. rewards' = rewards /\ book' = book
    BY <1>4 DEF CreateBatch
  <2>2. /\ Ids' = Ids
        /\ \A w \in Ids : /\ withdrawals'[w].amount = withdrawals[w].amount
                          /\ withdrawals'[w].user = withdrawals[w].user
                          /\ withdrawals'[w].status = "FAILED" <=> withdrawals[w].status = "FAILED"
    BY <1>0, <1>4, BatchFacts
  <2> QED BY <1>1, <2>1, <2>2
<1>5. ASSUME NEW nonce \in Nonces, NEW amount \in FundingAmounts, Fund(nonce, amount)
      PROVE  EarningsOK'
  <2>1. UNCHANGED <<rewards, withdrawals>>
    BY <1>5 DEF Fund
  <2>2. \A u \in Users : Has(book', u) = Has(book, u)
    BY <1>5, FundFacts, AccountFacts DEF Has
  <2> QED BY <1>2, <2>1, <2>2
<1>6. ASSUME NEW u \in Users, UnlockWallet(u) PROVE EarningsOK'
  BY <1>2, <1>6, UnlockFacts DEF UnlockWallet
<1>7. ASSUME NEW h \in Handlers, CommitVerify(h) PROVE EarningsOK'
  <2>0. UNCHANGED withdrawals
    BY <1>7 DEF CommitVerify
  <2>1. CASE UNCHANGED <<book, rewards>>
    BY <1>2, <2>0, <2>1
  <2>2. ASSUME NEW v \in Users, NEW row \in Rewards, row \notin rewards,
               rewards' = rewards \cup {row}, row.beneficiary = v,
               book'.balance[Pending(v)] = book.balance[Pending(v)] + row.amount,
               \A a \in Accounts \ {Pool, Pending(v)} : book'.balance[a] = book.balance[a]
        PROVE  EarningsOK'
    <3>0. IsFiniteSet(rewards') /\ row.amount \in Nat
      BY <2>2, RewardPut
    <3> SUFFICES ASSUME NEW u \in Users
                 PROVE  Earned(u)' = Has(book', u) + RowSum(withdrawals', Standing(u)')
      BY <3>0
    <3>1. Earned(u)' = IF u = v THEN Earned(u) + row.amount ELSE Earned(u)
      BY <2>2, EarnedMore
    <3>2. Standing(u)' = Standing(u)
      BY <2>0 DEF Standing, Ids
    <3>3. Has(book', u) = IF u = v THEN Has(book, u) + row.amount ELSE Has(book, u)
      <4>1. /\ book.balance[Pending(u)] \in Int /\ book.balance[Available(u)] \in Int
            /\ book'.balance[Available(u)] = book.balance[Available(u)]
        BY <2>2, AccountFacts, BookFacts
      <4>2. CASE u = v
        BY <2>2, <3>0, <4>1, <4>2 DEF Has
      <4>3. CASE u # v
        BY <2>2, <4>1, <4>3, AccountFacts DEF Has
      <4> QED BY <4>2, <4>3
    <3>4. /\ Earned(u) = Has(book, u) + RowSum(withdrawals, Standing(u))
          /\ Has(book, u) \in Int /\ RowSum(withdrawals, Standing(u)) \in Int
      BY EarnedFacts
    <3>5. RowSum(withdrawals', Standing(u)') = RowSum(withdrawals, Standing(u))
      BY <2>0, <3>2
    <3>6. CASE u = v
      BY <3>0, <3>1, <3>3, <3>4, <3>5, <3>6
    <3>7. CASE u # v
      BY <3>1, <3>3, <3>4, <3>5, <3>7
    <3> QED BY <3>6, <3>7
  <2> QED BY <1>7, <2>1, <2>2, EarnFacts
<1>8. ASSUME NEW h \in Handlers, HoldWithdrawal(h) PROVE EarningsOK'
  <2>0. rewards' = rewards
    BY <1>8 DEF HoldWithdrawal
  <2>1. PICK u \in Users, amount \in Nat, w \in Nat, row \in WithdrawalRows :
          /\ row.user = u /\ row.amount = amount /\ row.status = "REQUESTED"
          /\ w \notin Ids /\ Ids' = Ids \cup {w} /\ withdrawals'[w] = row
          /\ \A x \in Ids : withdrawals'[x] = withdrawals[x]
          /\ Has(book', u) = Has(book, u) - amount
          /\ \A v \in Users \ {u} : Has(book', v) = Has(book, v)
    BY <1>8, HoldFacts
  <2> SUFFICES ASSUME NEW v \in Users
               PROVE  Earned(v)' = Has(book', v) + RowSum(withdrawals', Standing(v)')
    BY <2>0
  <2>2. /\ Earned(v) = Has(book, v) + RowSum(withdrawals, Standing(v))
        /\ Has(book, v) \in Int /\ RowSum(withdrawals, Standing(v)) \in Int
        /\ Earned(v)' = Earned(v)
    BY <2>0, EarnedFacts DEF Earned
  <2>3. \A x \in Standing(v) : withdrawals[x].amount \in Int /\ withdrawals'[x].amount = withdrawals[x].amount
    BY <2>1, EarnedFacts DEF Standing
  <2>4. CASE v = u
    <3>1. Standing(v)' = Standing(v) \cup {w} /\ w \notin Standing(v)
      BY <2>1, <2>4 DEF Standing
    <3>2. withdrawals'[w].amount \in Int /\ withdrawals'[w].amount = amount
      BY <2>1
    <3>3. RowSum(withdrawals', Standing(v) \cup {w}) = RowSum(withdrawals, Standing(v)) + withdrawals'[w].amount
      BY <2>3, <3>1, <3>2, EarnedFacts, RowSumPut
    <3> QED BY <2>1, <2>2, <2>4, <3>1, <3>2, <3>3
  <2>5. CASE v # u
    <3>1. Standing(v)' = Standing(v)
      BY <2>1, <2>5 DEF Standing
    <3>2. RowSum(withdrawals', Standing(v)) = RowSum(withdrawals, Standing(v))
      BY <2>3, EarnedFacts, RowSumSame
    <3> QED BY <2>1, <2>2, <2>5, <3>1, <3>2
  <2> QED BY <2>4, <2>5
<1>9. ASSUME NEW w \in Ids, MarkPaid(w) \/ MarkFailed(w) PROVE EarningsOK'
  <2> DEFINE u == withdrawals[w].user
             amount == withdrawals[w].amount
  <2>0. rewards' = rewards /\ u \in Users /\ amount \in Nat /\ Active(w)
    BY <1>9, SettleFacts DEF MarkPaid, MarkFailed
  <2>1. CASE /\ withdrawals' = [withdrawals EXCEPT ![w].status = "PAID"]
             /\ \A v \in Users : Has(book', v) = Has(book, v)
    <3>1. /\ Ids' = Ids /\ withdrawals'[w].status = "PAID"
          /\ withdrawals'[w].amount = amount /\ withdrawals'[w].user = u
          /\ \A x \in Ids \ {w} : withdrawals'[x] = withdrawals[x]
      BY <1>0, <2>1, SettledRow
    <3>2. withdrawals[w].status # "FAILED"
      BY <2>0 DEF Active
    <3> QED BY <1>1, <2>0, <2>1, <3>1, <3>2
  <2>2. CASE /\ withdrawals' = [withdrawals EXCEPT ![w].status = "FAILED"]
             /\ Has(book', u) = Has(book, u) + amount
             /\ \A v \in Users \ {u} : Has(book', v) = Has(book, v)
    <3>1. /\ Ids' = Ids /\ withdrawals'[w].status = "FAILED"
          /\ withdrawals'[w].amount = amount /\ withdrawals'[w].user = u
          /\ \A x \in Ids \ {w} : withdrawals'[x] = withdrawals[x]
      BY <1>0, <2>2, SettledRow
    <3> SUFFICES ASSUME NEW v \in Users
                 PROVE  Earned(v)' = Has(book', v) + RowSum(withdrawals', Standing(v)')
      BY <2>0
    <3>2. /\ Earned(v) = Has(book, v) + RowSum(withdrawals, Standing(v))
          /\ Has(book, v) \in Int /\ RowSum(withdrawals, Standing(v)) \in Int
          /\ Earned(v)' = Earned(v)
      BY <2>0, EarnedFacts DEF Earned
    <3>3. CASE v = u
      <4>1. w \in Standing(v) /\ Standing(v)' = Standing(v) \ {w}
        BY <2>0, <3>1, <3>3 DEF Standing, Active
      <4>2. \A x \in Standing(v) \ {w} : withdrawals'[x].amount = withdrawals[x].amount
        BY <3>1 DEF Standing
      <4>3. RowSum(withdrawals', Standing(v) \ {w}) = RowSum(withdrawals, Standing(v)) - withdrawals[w].amount
        <5> DEFINE rows == Standing(v)
        <5>1. w \in rows /\ IsFiniteSet(rows) /\ \A x \in rows : withdrawals[x].amount \in Int
          BY <4>1, EarnedFacts
        <5>2. \A x \in rows \ {w} : withdrawals'[x].amount = withdrawals[x].amount
          BY <4>2
        <5> HIDE DEF EarningsOK, rows
        <5>3. RowSum(withdrawals', rows \ {w}) = RowSum(withdrawals, rows) - withdrawals[w].amount
          BY <5>1, <5>2, RowSumOut
        <5> QED BY <5>3 DEF rows
      <4> HIDE DEF u
      <4> QED BY <2>0, <2>2, <3>2, <3>3, <4>1, <4>3
    <3>4. CASE v # u
      <4>1. Standing(v)' = Standing(v) /\ w \notin Standing(v)
        BY <3>1, <3>4 DEF Standing
      <4>2. \A x \in Standing(v) : withdrawals'[x].amount = withdrawals[x].amount
        BY <3>1, <4>1 DEF Standing
      <4>3. RowSum(withdrawals', Standing(v)) = RowSum(withdrawals, Standing(v))
        BY <4>2, EarnedFacts, RowSumSame
      <4> HIDE DEF u, amount
      <4> QED BY <2>2, <3>2, <3>4, <4>1, <4>3
    <3> QED BY <3>3, <3>4
  <2> QED BY <1>9, <2>1, <2>2, SettleFacts
<1> QED BY <1>3, <1>4, <1>5, <1>6, <1>7, <1>8, <1>9, MoneySteps

(* What a user earned is pending, available, in withdrawal or withdrawn.   *)
THEOREM EarningsAddUp == Spec => []EarningsAccounted
<1>1. Init => EarningsOK
  <2> SUFFICES ASSUME Init PROVE EarningsOK
    OBVIOUS
  <2>1. \A table : RowSum(table, {}) = 0
    BY SumNone DEF RowSum
  <2>2. rewards = {} /\ IsFiniteSet(rewards)
    BY FS_EmptySet DEF Init
  <2>3. ASSUME NEW u \in Users
        PROVE  Earned(u) = Has(book, u) + RowSum(withdrawals, Standing(u))
    <3>1. {r \in rewards : r.beneficiary = u} = {} /\ Standing(u) = {}
      BY DEF Init, Standing, Ids
    <3>2. Has(book, u) = 0
      BY AccountFacts DEF Init, EmptyBook, Has
    <3> QED BY <2>1, <3>1, <3>2, SumNone DEF Earned
  <2> QED BY <2>2, <2>3 DEF EarningsOK
<1>2. Safe /\ EarningsOK /\ [Next]_vars => EarningsOK'
  BY EarningsNext
<1>3. Safe /\ EarningsOK => EarningsAccounted
  BY AccountFacts, BookFacts, EarnedFacts
     DEF EarningsOK, EarningsAccounted, Earned, Has, Standing, RowTotal, RowSum
<1> QED BY <1>1, <1>2, <1>3, Safety, PTL DEF Spec

-----------------------------------------------------------------------------
(* What a batch says when it is exported stays so.                         *)
InBatch(b) == {w \in Ids : withdrawals[w].batch = b}

BatchesOK ==
  /\ \A b \in DOMAIN batches :
       batches[b] = [count |-> Cardinality(InBatch(b)), total |-> RowSum(withdrawals, InBatch(b))]
  /\ \A w \in Ids :
       /\ withdrawals[w].batch \in 0 .. Len(batches)
       /\ withdrawals[w].status = "REQUESTED" => withdrawals[w].batch = 0
       /\ withdrawals[w].status \in {"PROCESSING", "PAID"} => withdrawals[w].batch # 0

LEMMA BatchSums ==
  ASSUME Typed, NEW b
  PROVE  IsFiniteSet(InBatch(b)) /\ \A w \in InBatch(b) : w \in Ids /\ withdrawals[w].amount \in Int
BY RowFacts DEF InBatch

(* A batch whose rows stay the same, with their amounts, says the same.    *)
LEMMA BatchKept ==
  ASSUME Typed, BatchesOK, NEW b \in DOMAIN batches,
         InBatch(b)' = InBatch(b), batches'[b] = batches[b],
         \A w \in Ids : withdrawals'[w].amount = withdrawals[w].amount
  PROVE  batches'[b] = [count |-> Cardinality(InBatch(b)'), total |-> RowSum(withdrawals', InBatch(b)')]
<1>1. RowSum(withdrawals', InBatch(b)) = RowSum(withdrawals, InBatch(b))
  BY BatchSums, RowSumSame
<1> QED BY <1>1 DEF BatchesOK

(* The export itself.                                                      *)
LEMMA BatchExported ==
  ASSUME Typed, BatchesOK, CreateBatch
  PROVE  BatchesOK'
<1>1. PICK chosen \in SUBSET Eligible :
        /\ withdrawals' = [w \in Ids |->
             IF w \in chosen
             THEN [withdrawals[w] EXCEPT !.status = "PROCESSING", !.batch = Len(batches) + 1]
             ELSE withdrawals[w]]
        /\ batches' = Append(batches, [count |-> Cardinality(chosen), total |-> RowTotal(chosen)])
  BY DEF CreateBatch
<1>0. PICK new : new = Len(batches) + 1
  OBVIOUS
<1>2. /\ Len(batches) \in Nat /\ DOMAIN batches = 1 .. Len(batches)
      /\ Len(batches') = new /\ DOMAIN batches' = (DOMAIN batches) \cup {new}
      /\ \A b \in DOMAIN batches : batches'[b] = batches[b]
      /\ batches'[new] = [count |-> Cardinality(chosen), total |-> RowTotal(chosen)]
  <2> DEFINE entry == [count |-> Cardinality(chosen), total |-> RowTotal(chosen)]
             S == Range(batches) \cup {entry}
  <2>1. batches \in Seq(S) /\ entry \in S
    BY SeqMonotonic DEF Typed, TypeOK
  <2>2. batches' = Append(batches, entry)
    BY <1>1
  <2> HIDE DEF entry, S
  <2> USE <1>0
  <2>3. /\ Len(batches) \in Nat /\ DOMAIN batches = 1 .. Len(batches)
        /\ Len(batches') = new /\ DOMAIN batches' = (DOMAIN batches) \cup {new}
        /\ \A b \in DOMAIN batches : batches'[b] = batches[b]
        /\ batches'[new] = entry
    <3>1. /\ batches' \in Seq(S) /\ Len(batches') = Len(batches) + 1
          /\ \A i \in 1 .. Len(batches) : batches'[i] = batches[i]
          /\ batches'[Len(batches) + 1] = entry
      BY <2>1, <2>2, AppendProperties
    <3>2. /\ Len(batches) \in Nat /\ DOMAIN batches = 1 .. Len(batches)
          /\ DOMAIN batches' = 1 .. Len(batches')
      BY <2>1, <3>1, LenProperties
    <3> QED BY <3>1, <3>2
  <2> QED BY <2>3 DEF entry
<1>3. chosen \subseteq Ids /\ \A w \in chosen : withdrawals[w].status = "REQUESTED"
  BY DEF Eligible
<1>4. /\ Ids' = Ids
      /\ \A w \in Ids : withdrawals'[w].amount = withdrawals[w].amount
  BY BatchFacts
<1>5. ASSUME NEW w \in Ids
      PROVE  /\ w \in chosen => withdrawals'[w].batch = new /\ withdrawals'[w].status = "PROCESSING"
             /\ w \notin chosen => withdrawals'[w] = withdrawals[w]
  <2>1. CASE w \in chosen
    <3>1. withdrawals'[w] = [withdrawals[w] EXCEPT !.status = "PROCESSING", !.batch = new]
      BY <1>0, <1>1, <2>1
    <3>2. withdrawals[w] \in WithdrawalRows
      BY TablesTyped
    <3> QED BY <2>1, <3>1, <3>2 DEF WithdrawalRows
  <2>2. CASE w \notin chosen
    BY <1>1, <2>2
  <2> QED BY <2>1, <2>2
<1>6. \A w \in Ids : /\ withdrawals[w].batch \in 0 .. Len(batches)
                     /\ w \in chosen => withdrawals[w].batch = 0
  BY <1>3 DEF BatchesOK
<1>7. InBatch(new)' = chosen
  <2>1. \A w \in Ids : withdrawals'[w].batch = new <=> w \in chosen
    BY <1>0, <1>2, <1>5, <1>6
  <2> QED BY <1>3, <1>4, <2>1 DEF InBatch
<1>8. batches'[new] = [count |-> Cardinality(InBatch(new)'), total |-> RowSum(withdrawals', InBatch(new)')]
  <2>1. IsFiniteSet(chosen) /\ \A w \in chosen : /\ withdrawals[w].amount \in Int
                                                 /\ withdrawals'[w].amount = withdrawals[w].amount
    BY <1>3, <1>4, RowFacts
  <2>2. RowSum(withdrawals', chosen) = RowSum(withdrawals, chosen)
    BY <2>1, RowSumSame
  <2> QED BY <1>2, <1>7, <2>2 DEF RowTotal, RowSum
<1>9. ASSUME NEW b \in DOMAIN batches
      PROVE  batches'[b] = [count |-> Cardinality(InBatch(b)'), total |-> RowSum(withdrawals', InBatch(b)')]
  <2>1. \A w \in Ids : withdrawals'[w].batch = b <=> withdrawals[w].batch = b
    BY <1>0, <1>2, <1>5, <1>6
  <2>2. InBatch(b)' = InBatch(b)
    BY <1>4, <2>1 DEF InBatch
  <2> QED BY <1>2, <1>4, <2>2, BatchKept
<1>10. ASSUME NEW w \in Ids
       PROVE  /\ withdrawals'[w].batch \in 0 .. Len(batches')
              /\ withdrawals'[w].status = "REQUESTED" => withdrawals'[w].batch = 0
              /\ withdrawals'[w].status \in {"PROCESSING", "PAID"} => withdrawals'[w].batch # 0
  BY <1>0, <1>2, <1>5 DEF BatchesOK
<1>11. \A b \in DOMAIN batches' :
         batches'[b] = [count |-> Cardinality(InBatch(b)'), total |-> RowSum(withdrawals', InBatch(b)')]
  BY <1>2, <1>8, <1>9
<1> QED BY <1>4, <1>10, <1>11 DEF BatchesOK

LEMMA BatchesNext ==
  ASSUME Typed, BatchesOK, [Next]_vars
  PROVE  BatchesOK'
<1>1. CASE UNCHANGED <<withdrawals, batches>>
  BY <1>1 DEF BatchesOK, InBatch, Ids
<1>2. CASE CreateBatch
  BY <1>2, BatchExported
<1>3. ASSUME batches' = batches,
             \A b \in DOMAIN batches : InBatch(b)' = InBatch(b),
             \A w \in Ids : withdrawals'[w].amount = withdrawals[w].amount,
             \A w \in Ids' :
               /\ withdrawals'[w].batch \in 0 .. Len(batches)
               /\ withdrawals'[w].status = "REQUESTED" => withdrawals'[w].batch = 0
               /\ withdrawals'[w].status \in {"PROCESSING", "PAID"} => withdrawals'[w].batch # 0
      PROVE  BatchesOK'
  <2>1. \A b \in DOMAIN batches :
          batches'[b] = [count |-> Cardinality(InBatch(b)'), total |-> RowSum(withdrawals', InBatch(b)')]
    BY <1>3, BatchKept
  <2> QED BY <1>3, <2>1 DEF BatchesOK
<1>4. ASSUME NEW h \in Handlers, HoldWithdrawal(h) PROVE BatchesOK'
  <2>1. PICK row, w : /\ w = Len(withdrawals) + 1 /\ row.batch = 0 /\ row.status = "REQUESTED"
                      /\ withdrawals' = Append(withdrawals, row) /\ batches' = batches
    <3> DEFINE asked == [user |-> handler[h].user, amount |-> handler[h].amount,
                         account |-> handler[h].account, batch |-> 0, status |-> "REQUESTED"]
    <3>1. asked.batch = 0 /\ asked.status = "REQUESTED" /\ withdrawals' = Append(withdrawals, asked)
          /\ batches' = batches
      BY <1>4 DEF HoldWithdrawal
    <3> HIDE DEF asked
    <3> QED BY <3>1
  <2>2. /\ Ids' = Ids \cup {w} /\ withdrawals'[w] = row
        /\ \A x \in Ids : withdrawals'[x] = withdrawals[x]
    BY <2>1, TablesTyped DEF Ids
  <2>3. Len(batches) \in Nat /\ DOMAIN batches = 1 .. Len(batches)
    BY TablesTyped
  <2>4. \A b \in DOMAIN batches : InBatch(b)' = InBatch(b)
    <3> SUFFICES ASSUME NEW b \in DOMAIN batches PROVE InBatch(b)' = InBatch(b)
      OBVIOUS
    <3>1. withdrawals'[w].batch # b
      BY <2>1, <2>2, <2>3
    <3>2. w \in Ids => w \notin InBatch(b)
      BY <2>2, <3>1 DEF InBatch
    <3> QED BY <2>2, <3>1, <3>2 DEF InBatch
  <2>5. \A x \in Ids' :
          /\ withdrawals'[x].batch \in 0 .. Len(batches)
          /\ withdrawals'[x].status = "REQUESTED" => withdrawals'[x].batch = 0
          /\ withdrawals'[x].status \in {"PROCESSING", "PAID"} => withdrawals'[x].batch # 0
    <3>1. 0 \in 0 .. Len(batches)
      BY <2>3
    <3>2. \A x \in Ids : withdrawals'[x] = withdrawals[x]
      BY <2>2
    <3>3. withdrawals'[w].batch = 0 /\ withdrawals'[w].status = "REQUESTED"
      BY <2>1, <2>2
    <3> QED BY <2>2, <3>1, <3>2, <3>3 DEF BatchesOK
  <2> QED BY <1>3, <2>1, <2>2, <2>4, <2>5
<1>5. ASSUME NEW w \in Ids, MarkPaid(w) \/ MarkFailed(w) PROVE BatchesOK'
  <2>0. PICK s \in {"PAID", "FAILED"} :
          /\ withdrawals' = [withdrawals EXCEPT ![w].status = s] /\ batches' = batches
          /\ s = "PAID" => withdrawals[w].status = "PROCESSING"
    BY <1>5 DEF MarkPaid, MarkFailed
  <2>1. /\ Ids' = Ids /\ withdrawals'[w].status = s
        /\ withdrawals'[w].amount = withdrawals[w].amount
        /\ withdrawals'[w].batch = withdrawals[w].batch
        /\ \A x \in Ids \ {w} : withdrawals'[x] = withdrawals[x]
    BY <2>0, SettledRow
  <2>2. \A x \in Ids : /\ withdrawals'[x].amount = withdrawals[x].amount
                       /\ withdrawals'[x].batch = withdrawals[x].batch
    BY <2>1
  <2>3. \A b \in DOMAIN batches : InBatch(b)' = InBatch(b)
    BY <2>1, <2>2 DEF InBatch
  <2>4. \A x \in Ids' :
          /\ withdrawals'[x].batch \in 0 .. Len(batches)
          /\ withdrawals'[x].status = "REQUESTED" => withdrawals'[x].batch = 0
          /\ withdrawals'[x].status \in {"PROCESSING", "PAID"} => withdrawals'[x].batch # 0
    <3> SUFFICES ASSUME NEW x \in Ids
                 PROVE  /\ withdrawals'[x].batch \in 0 .. Len(batches)
                        /\ withdrawals'[x].status = "REQUESTED" => withdrawals'[x].batch = 0
                        /\ withdrawals'[x].status \in {"PROCESSING", "PAID"} => withdrawals'[x].batch # 0
      BY <2>1
    <3>1. CASE x = w
      BY <2>0, <2>1, <3>1 DEF BatchesOK
    <3>2. CASE x # w
      BY <2>1, <3>2 DEF BatchesOK
    <3> QED BY <3>1, <3>2
  <2> QED BY <1>3, <2>0, <2>2, <2>3, <2>4
<1>6. ASSUME ~UNCHANGED <<withdrawals, batches>>
      PROVE  \/ CreateBatch
             \/ \E h \in Handlers : HoldWithdrawal(h)
             \/ \E w \in Ids : MarkPaid(w) \/ MarkFailed(w)
  <2>1. CASE UNCHANGED vars
    BY <1>6, <2>1 DEF vars
  <2>2. CASE Tick \/ \E u \in Users : SignUp(u) \/ UnlockWallet(u)
    BY <1>6, <2>2 DEF Tick, SignUp, UnlockWallet, money
  <2>3. CASE Admin
    BY <1>6, <2>3 DEF Admin, CampaignSave, Fund, Suspend, Unsuspend, ResolveFlag, money
  <2>4. ASSUME NEW h \in Handlers, Request(h)
        PROVE  HoldWithdrawal(h)
    BY <1>6, <2>4 DEF Request, ReadContact, AdmitWithdrawal, AdmitBank, AdmitVerify,
                      CommitVerify, ScanBank, SaveBank, Abort, money
  <2> QED BY <2>1, <2>2, <2>3, <2>4 DEF Next
<1> QED BY <1>1, <1>2, <1>4, <1>5, <1>6

(* A batch keeps saying what was exported, and a row is in one batch.      *)
THEOREM BatchesStand == Spec => []BatchMatchesRows
<1>1. Init => BatchesOK
  BY DEF Init, BatchesOK, Ids
<1>2. Typed /\ BatchesOK /\ [Next]_vars => BatchesOK'
  BY BatchesNext
<1>3. BatchesOK => BatchMatchesRows
  BY DEF BatchesOK, BatchMatchesRows, InBatch, RowTotal, RowSum
<1>4. Safe => Typed
  BY DEF Safe
<1> QED BY <1>1, <1>2, <1>3, <1>4, Safety, PTL DEF Spec
=============================================================================
