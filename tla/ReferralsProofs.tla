--------------------------- MODULE ReferralsProofs ---------------------------
(* The referral tree, for any number of users, levels and page views: the  *)
(* closure table is the tree of referrers, and a snapshot is never ahead.  *)
EXTENDS Referrals, FiniteSetTheorems, NaturalsInduction, TLAPS

-----------------------------------------------------------------------------
(* Part 1: chains of referrers.                                            *)
LEMMA LeastNumber ==
  ASSUME NEW T \in SUBSET Nat, T # {}
  PROVE  \E n \in T : \A m \in T : n <= m
<1> DEFINE R == OpToRel(<, Nat)
<1>1. IsWellFoundedOn(R, Nat)
  BY NatLessThanWellFounded
<1>2. \A x, y \in Nat : x < y => <<x, y>> \in R
  BY DEF OpToRel
<1> HIDE DEF R
<1>3. PICK n \in T : \A m \in T : ~(<<m, n>> \in R)
  BY <1>1, WFMin
<1>4. ASSUME NEW m \in T PROVE n <= m
  <2>1. ~(m < n)
    BY <1>2, <1>3
  <2> QED BY <2>1
<1> QED BY <1>4

(* Induction on natural numbers, for a set of them.                        *)
LEMMA NumbersInduction ==
  ASSUME NEW P \in SUBSET Nat, 0 \in P, \A n \in P : n + 1 \in P
  PROVE  P = Nat
<1> SUFFICES ASSUME Nat \ P # {} PROVE FALSE
  OBVIOUS
<1>1. PICK n \in Nat \ P : \A m \in Nat \ P : n <= m
  BY LeastNumber
<1>2. n # 0 /\ n - 1 \in Nat
  BY <1>1
<1>3. n - 1 \in P
  BY <1>1, <1>2
<1> QED BY <1>1, <1>2, <1>3

(* One step up the tree that ref is.                                       *)
OneUp(ref, v) == IF v = Nobody THEN Nobody ELSE ref[v]

IsChain(f, ref, u) == f = [n \in Nat |-> IF n = 0 THEN u ELSE OneUp(ref, f[n - 1])]

Chain(ref, u) == CHOOSE f : IsChain(f, ref, u)

IsPart(g, k, ref, u) == g = [n \in 0 .. k |-> IF n = 0 THEN u ELSE OneUp(ref, g[n - 1])]

LEMMA PartExists ==
  ASSUME NEW ref, NEW u
  PROVE  \A k \in Nat : \E g : IsPart(g, k, ref, u)
<1> DEFINE P == {k \in Nat : \E g : IsPart(g, k, ref, u)}
<1>1. 0 \in P
  <2> DEFINE g == [n \in 0 .. 0 |-> u]
  <2>1. IsPart(g, 0, ref, u)
    BY DEF IsPart
  <2> QED BY <2>1
<1>2. ASSUME NEW k \in P PROVE k + 1 \in P
  <2>1. PICK g : IsPart(g, k, ref, u)
    OBVIOUS
  <2> DEFINE h == [n \in 0 .. k + 1 |-> IF n = k + 1 THEN OneUp(ref, g[k]) ELSE g[n]]
  <2>2. \A n \in 0 .. k : h[n] = g[n] /\ (n # 0 => h[n] = OneUp(ref, h[n - 1]))
    BY <2>1 DEF IsPart
  <2>3. h[0] = u /\ h[k + 1] = OneUp(ref, h[k])
    BY <2>1 DEF IsPart
  <2>4. h = [n \in 0 .. k + 1 |-> h[n]]
    OBVIOUS
  <2> HIDE DEF h
  <2>5. \A n \in 0 .. k + 1 : h[n] = IF n = 0 THEN u ELSE OneUp(ref, h[n - 1])
    BY <2>2, <2>3
  <2>6. IsPart(h, k + 1, ref, u)
    BY <2>4, <2>5 DEF IsPart
  <2> QED BY <2>6
<1> HIDE DEF P
<1>3. P = Nat
  BY <1>1, <1>2, NumbersInduction DEF P
<1> QED BY <1>3 DEF P

LEMMA PartsAgree ==
  ASSUME NEW ref, NEW u, NEW k \in Nat, NEW m \in Nat, k <= m,
         NEW g, IsPart(g, k, ref, u), NEW h, IsPart(h, m, ref, u)
  PROVE  \A n \in 0 .. k : g[n] = h[n]
<1> DEFINE P == {n \in Nat : n <= k => g[n] = h[n]}
<1>1. 0 \in P
  BY DEF IsPart
<1>2. ASSUME NEW n \in P PROVE n + 1 \in P
  <2> SUFFICES ASSUME n + 1 <= k PROVE g[n + 1] = h[n + 1]
    OBVIOUS
  <2>1. g[n] = h[n]
    OBVIOUS
  <2>2. g[n + 1] = OneUp(ref, g[n]) /\ h[n + 1] = OneUp(ref, h[n])
    BY DEF IsPart
  <2> QED BY <2>1, <2>2
<1> HIDE DEF P
<1>3. P = Nat
  BY <1>1, <1>2, NumbersInduction DEF P
<1> QED BY <1>3 DEF P

(* The recursive definition defines a function: the chain of u.            *)
LEMMA ChainIs ==
  ASSUME NEW ref, NEW u
  PROVE  /\ Chain(ref, u)[0] = u
         /\ \A n \in Nat : Chain(ref, u)[n + 1] = OneUp(ref, Chain(ref, u)[n])
<1> DEFINE part(k) == CHOOSE g : IsPart(g, k, ref, u)
           f == [n \in Nat |-> part(n)[n]]
<1>1. \A k \in Nat : IsPart(part(k), k, ref, u)
  BY PartExists
<1> HIDE DEF part
<1>2. f[0] = u
  BY <1>1 DEF IsPart
<1>3. ASSUME NEW n \in Nat PROVE f[n + 1] = OneUp(ref, f[n])
  <2>1. part(n + 1)[n + 1] = OneUp(ref, part(n + 1)[n])
    BY <1>1 DEF IsPart
  <2>2. part(n + 1)[n] = part(n)[n]
    BY <1>1, PartsAgree
  <2> QED BY <2>1, <2>2
<1>4. f = [n \in Nat |-> f[n]]
  OBVIOUS
<1> HIDE DEF f
<1>5. \A n \in Nat : f[n] = IF n = 0 THEN u ELSE OneUp(ref, f[n - 1])
  <2> TAKE n \in Nat
  <2>1. CASE n = 0
    BY <1>2, <2>1
  <2>2. CASE n # 0
    <3>1. n - 1 \in Nat /\ (n - 1) + 1 = n
      BY <2>2
    <3> QED BY <1>3, <2>2, <3>1
  <2> QED BY <2>1, <2>2
<1>6. IsChain(f, ref, u)
  BY <1>4, <1>5 DEF IsChain
<1>7. PICK c : c = Chain(ref, u)
  OBVIOUS
<1>8. IsChain(c, ref, u)
  BY <1>6, <1>7 DEF Chain
<1>9. c[0] = u /\ \A n \in Nat : c[n + 1] = OneUp(ref, c[n])
  BY <1>8 DEF IsChain
<1> QED BY <1>7, <1>9

LEMMA AboveIsChain == \A u : Above(u) = Chain(referrer, u)
BY Zenon DEF Above, Chain, IsChain, OneUp

Trees == [Users -> Users \cup {Nobody}]

LEMMA ChainTyped ==
  ASSUME NEW ref \in Trees, NEW u \in Users \cup {Nobody}
  PROVE  \A n \in Nat : Chain(ref, u)[n] \in Users \cup {Nobody}
<1> DEFINE P == {n \in Nat : Chain(ref, u)[n] \in Users \cup {Nobody}}
<1>1. 0 \in P
  BY ChainIs
<1>2. ASSUME NEW n \in P PROVE n + 1 \in P
  BY ChainIs DEF OneUp, Trees
<1> HIDE DEF P
<1>3. P = Nat
  BY <1>1, <1>2, NumbersInduction DEF P
<1> QED BY <1>3 DEF P

(* Who is above u is who is above its referrer, one level lower.           *)
LEMMA ChainShift ==
  ASSUME NEW ref, NEW u
  PROVE  \A n \in Nat : Chain(ref, u)[n + 1] = Chain(ref, OneUp(ref, u))[n]
<1> DEFINE P == {n \in Nat : Chain(ref, u)[n + 1] = Chain(ref, OneUp(ref, u))[n]}
<1>1. 0 \in P
  <2>1. Chain(ref, u)[0 + 1] = OneUp(ref, u) /\ Chain(ref, OneUp(ref, u))[0] = OneUp(ref, u)
    BY ChainIs
  <2> QED BY <2>1
<1>2. ASSUME NEW n \in P PROVE n + 1 \in P
  <2>1. /\ Chain(ref, u)[(n + 1) + 1] = OneUp(ref, Chain(ref, u)[n + 1])
        /\ Chain(ref, OneUp(ref, u))[n + 1] = OneUp(ref, Chain(ref, OneUp(ref, u))[n])
    BY ChainIs
  <2> QED BY <2>1
<1> HIDE DEF P
<1>3. P = Nat
  BY <1>1, <1>2, NumbersInduction DEF P
<1> QED BY <1>3 DEF P

LEMMA NobodyAboveNobody == ASSUME NEW ref PROVE \A n \in Nat : Chain(ref, Nobody)[n] = Nobody
<1> DEFINE P == {n \in Nat : Chain(ref, Nobody)[n] = Nobody}
<1>1. 0 \in P /\ \A n \in P : n + 1 \in P
  BY ChainIs DEF OneUp
<1> HIDE DEF P
<1>2. P = Nat
  BY <1>1, NumbersInduction DEF P
<1> QED BY <1>2 DEF P

(* A change of the referrer of x, whom nobody has as a referrer, is seen   *)
(* by no chain but the one of x.                                           *)
LEMMA ChainKept ==
  ASSUME NEW ref \in Trees, NEW x \in Users, \A v \in Users : ref[v] # x,
         NEW new, \A v \in Users : v # x => new[v] = ref[v],
         NEW u \in Users \cup {Nobody}, u # x, Nobody \notin Users
  PROVE  \A n \in Nat : Chain(new, u)[n] = Chain(ref, u)[n] /\ Chain(ref, u)[n] # x
<1> DEFINE P == {n \in Nat : Chain(new, u)[n] = Chain(ref, u)[n] /\ Chain(ref, u)[n] # x}
<1>1. 0 \in P
  BY ChainIs
<1>2. ASSUME NEW n \in P PROVE n + 1 \in P
  <2>1. PICK v : v = Chain(ref, u)[n]
    OBVIOUS
  <2>2. v \in Users \cup {Nobody} /\ v # x /\ Chain(new, u)[n] = v
    BY <2>1, ChainTyped
  <2>3. Chain(new, u)[n + 1] = OneUp(new, v) /\ Chain(ref, u)[n + 1] = OneUp(ref, v)
    BY <2>1, <2>2, ChainIs
  <2>4. OneUp(new, v) = OneUp(ref, v) /\ OneUp(ref, v) # x
    BY <2>2 DEF OneUp
  <2> QED BY <2>3, <2>4
<1> HIDE DEF P
<1>3. P = Nat
  BY <1>1, <1>2, NumbersInduction DEF P
<1> QED BY <1>3 DEF P

NoLoops(ref) == \A u \in Users : \A n \in Nat \ {0} : Chain(ref, u)[n] # u

LEMMA NoLoopsKept ==
  ASSUME NEW ref \in Trees, NoLoops(ref), Nobody \notin Users,
         NEW x \in Users, \A v \in Users : ref[v] # x,
         NEW r \in Users \cup {Nobody}, r # x
  PROVE  NoLoops([ref EXCEPT ![x] = r])
<1> DEFINE new == [ref EXCEPT ![x] = r]
<1>1. new[x] = r /\ \A v \in Users : v # x => new[v] = ref[v]
  BY DEF Trees
<1> HIDE DEF new
<1>2. ASSUME NEW u \in Users, NEW n \in Nat \ {0} PROVE Chain(new, u)[n] # u
  <2>1. CASE u # x
    <3>1. Chain(new, u)[n] = Chain(ref, u)[n]
      BY <1>1, <2>1, ChainKept
    <3> QED BY <3>1 DEF NoLoops
  <2>2. CASE u = x
    <3>1. PICK m \in Nat : n = m + 1
      <4>1. n - 1 \in Nat /\ n = (n - 1) + 1
        OBVIOUS
      <4> QED BY <4>1
    <3>2. OneUp(new, x) = r
      BY <1>1 DEF OneUp
    <3>3. Chain(new, x)[n] = Chain(new, r)[m]
      BY <3>1, <3>2, ChainShift
    <3>4. Chain(new, r)[m] # x
      <4>1. \A k \in Nat : Chain(new, r)[k] = Chain(ref, r)[k] /\ Chain(ref, r)[k] # x
        BY <1>1, ChainKept
      <4> QED BY <4>1
    <3> QED BY <2>2, <3>3, <3>4
  <2> QED BY <2>1, <2>2
<1>3. NoLoops(new)
  BY <1>2 DEF NoLoops
<1> QED BY <1>3 DEF new

-----------------------------------------------------------------------------
(* Part 2: the inductive invariant of the tree.                            *)

(* Who is not suspended is active exactly when verified.                   *)
StandingOK ==
  \A u \in Users : status[u] # "suspended" => (status[u] = "active" <=> u \in verified)

Counted(u, ver) == IF u \in ver THEN "QUALIFIED" ELSE "PENDING"

(* An edge counts exactly when the user at its lower end is verified.      *)
EdgesOK == \A e \in edges : e.status = Counted(e.descendant, verified)

(* A referrer is verified, suspended since or not, and stays: neither      *)
(* replaced nor deleted.                                                   *)
ReferrersOK == \A u \in Users : referrer[u] # Nobody => referrer[u] \in verified

RewardsOK == rewarded \subseteq verified

Covers(E, a, d, l) == \E e \in E : e.ancestor = a /\ e.descendant = d /\ e.level = l

(* The closure, one level at a time: what the referrer has, one level up.  *)
ClosureOK ==
  \A a, d \in Users :
    /\ Covers(edges, a, d, 1) <=> referrer[d] = a
    /\ \A l \in Levels \ {1} : Covers(edges, a, d, l) <=> Covers(edges, a, referrer[d], l - 1)

TreeOK ==
  /\ status \in [Users -> {"none", "pending", "active", "suspended"}] /\ verified \subseteq Users
  /\ referrer \in Trees /\ edges \subseteq ReferralEdge /\ rewarded \subseteq Users
  /\ StandingOK /\ EdgesOK /\ ReferrersOK /\ RewardsOK /\ ClosureOK /\ NoLoops(referrer)

(* The edges that a new user gets: the one to the referrer, and those of   *)
(* the referrer one level further.                                         *)
LEMMA BindFacts ==
  ASSUME ReferralsAssumption, TreeOK, NEW u \in Users, NEW r \in Users
  PROVE  /\ \A e \in bind(u, r) : e \in ReferralEdge /\ e.descendant = u /\ e.status = "PENDING"
         /\ \A a \in Users :
              /\ Covers(bind(u, r), a, u, 1) <=> a = r
              /\ \A l \in Levels \ {1} : Covers(bind(u, r), a, u, l) <=> Covers(edges, a, r, l - 1)
<1>1. /\ MaxLevel \in Nat /\ MaxLevel >= 1 /\ 1 \in Levels
      /\ \A l \in Levels : l \in Nat /\ l >= 1 /\ l <= MaxLevel
      /\ \A l \in Levels \ {1} : l - 1 \in Levels /\ l - 1 < MaxLevel /\ (l - 1) + 1 = l
      /\ \A l \in Levels : l < MaxLevel => l + 1 \in Levels \ {1}
  BY DEF ReferralsAssumption, Levels
<1>2. /\ Direct(u, r) \in ReferralEdge /\ Direct(u, r).ancestor = r
      /\ Direct(u, r).descendant = u /\ Direct(u, r).level = 1 /\ Direct(u, r).status = "PENDING"
  BY <1>1 DEF Direct, ReferralEdge
<1>3. \A e \in edges : /\ e.level \in Levels /\ e.ancestor \in Users
                       /\ Shifted(u, e).ancestor = e.ancestor /\ Shifted(u, e).descendant = u
                       /\ Shifted(u, e).level = e.level + 1 /\ Shifted(u, e).status = "PENDING"
                       /\ e.level < MaxLevel => Shifted(u, e) \in ReferralEdge
  BY <1>1 DEF Shifted, ReferralEdge, TreeOK
<1>4. \A e : e \in bind(u, r) <=>
        \/ e = Direct(u, r)
        \/ \E f \in edges : f.descendant = r /\ f.level < MaxLevel /\ e = Shifted(u, f)
  BY DEF bind, UpTo
<1>5. \A e \in bind(u, r) : e \in ReferralEdge /\ e.descendant = u /\ e.status = "PENDING"
  BY <1>2, <1>3, <1>4
<1>6. ASSUME NEW a \in Users PROVE Covers(bind(u, r), a, u, 1) <=> a = r
  <2>1. ASSUME NEW e \in bind(u, r), e.level = 1 PROVE e.ancestor = r
    <3>1. ~(\E f \in edges : f.level < MaxLevel /\ e = Shifted(u, f))
      BY <1>1, <1>3, <2>1
    <3> QED BY <1>2, <1>4, <3>1
  <2>2. Direct(u, r) \in bind(u, r)
    BY <1>4
  <2> QED BY <1>2, <2>1, <2>2 DEF Covers
<1>7. ASSUME NEW a \in Users, NEW l \in Levels \ {1}
      PROVE  Covers(bind(u, r), a, u, l) <=> Covers(edges, a, r, l - 1)
  <2>1. ASSUME NEW e \in bind(u, r), e.ancestor = a, e.level = l
        PROVE  \E f \in edges : f.ancestor = a /\ f.descendant = r /\ f.level = l - 1
    <3>1. PICK f \in edges : f.descendant = r /\ e = Shifted(u, f)
      BY <1>2, <1>4, <2>1
    <3>2. f.ancestor = a /\ f.level = l - 1
      BY <1>1, <1>3, <2>1, <3>1
    <3> QED BY <3>1, <3>2
  <2>2. ASSUME NEW f \in edges, f.ancestor = a, f.descendant = r, f.level = l - 1
        PROVE  \E e \in bind(u, r) : e.ancestor = a /\ e.descendant = u /\ e.level = l
    <3>1. Shifted(u, f) \in bind(u, r)
      BY <1>1, <1>4, <2>2
    <3>2. /\ Shifted(u, f).ancestor = a /\ Shifted(u, f).descendant = u
          /\ Shifted(u, f).level = l
      BY <1>1, <1>3, <2>2
    <3> QED BY <3>1, <3>2
  <2> QED BY <2>1, <2>2, <1>5 DEF Covers
<1> QED BY <1>5, <1>6, <1>7

(* A sign-up is replaced or deleted: nobody is below it, so nobody else's  *)
(* edges go through it.                                                    *)
LEMMA Replanted ==
  ASSUME ReferralsAssumption, TreeOK, NEW u \in Users, NEW r \in (Users \ {u}) \cup {Nobody},
         \A v \in Users : referrer[v] # u, u \notin rewarded,
         r # Nobody => status[r] = "active",
         NEW now \in {"none", "pending"}, r # Nobody => now = "pending",
         NEW new, new = IF r = Nobody THEN {} ELSE bind(u, r),
         status' = [status EXCEPT ![u] = now], verified' = verified \ {u},
         referrer' = [referrer EXCEPT ![u] = r],
         edges' = (edges \ UpTo(u)) \cup new, rewarded' = rewarded
  PROVE  TreeOK'
<1> USE DEF ReferralsAssumption, TreeOK
<1>1. /\ status' \in [Users -> {"none", "pending", "active", "suspended"}]
      /\ status'[u] = now /\ \A v \in Users : v # u => status'[v] = status[v]
      /\ referrer' \in Trees /\ verified' \subseteq Users /\ u \notin verified'
      /\ referrer'[u] = r /\ \A v \in Users : v # u => referrer'[v] = referrer[v]
  BY DEF Trees
<1>2. /\ \A e \in new : e \in ReferralEdge /\ e.descendant = u /\ e.status = "PENDING"
      /\ new # {} => r \in Users
      /\ \A a \in Users :
           /\ Covers(new, a, u, 1) <=> a = r
           /\ \A l \in Levels \ {1} : Covers(new, a, u, l) <=> Covers(edges, a, r, l - 1)
  <2>1. CASE r = Nobody
    <3>1. \A a, l : ~Covers(new, a, u, l) /\ ~Covers(edges, a, r, l - 1)
      BY <2>1 DEF Covers, ReferralEdge
    <3> QED BY <2>1, <3>1
  <2>2. CASE r # Nobody
    BY <2>2, BindFacts
  <2> QED BY <2>1, <2>2
<1>3. \A e : e \in edges' <=> (e \in edges /\ e.descendant # u) \/ e \in new
  BY DEF UpTo
<1>4. edges' \subseteq ReferralEdge /\ rewarded' \subseteq Users
  BY <1>2, <1>3
<1>5. \A e \in edges : e.descendant \in Users
  BY DEF ReferralEdge
<1>6. EdgesOK'
  <2>1. ASSUME NEW e \in edges' PROVE e.status = Counted(e.descendant, verified')
    <3>1. CASE e \in new
      BY <1>1, <1>2, <3>1 DEF Counted
    <3>2. CASE e \in edges /\ e.descendant # u
      BY <3>2 DEF EdgesOK, Counted
    <3> QED BY <1>3, <3>1, <3>2
  <2> QED BY <2>1 DEF EdgesOK
<1>7. ReferrersOK'
  <2>1. ASSUME NEW v \in Users, referrer'[v] # Nobody PROVE referrer'[v] \in verified'
    <3>1. CASE v = u
      BY <1>1, <2>1, <3>1 DEF StandingOK
    <3>2. CASE v # u
      BY <1>1, <2>1, <3>2 DEF ReferrersOK, Trees
    <3> QED BY <3>1, <3>2
  <2> QED BY <2>1 DEF ReferrersOK
<1>8. RewardsOK' /\ StandingOK'
  BY <1>1 DEF RewardsOK, StandingOK
<1>9. ClosureOK'
  <2>1. \A a \in Users, d \in Users \cup {Nobody}, l \in Levels : d # u =>
          (Covers(edges', a, d, l) <=> Covers(edges, a, d, l))
    BY <1>2, <1>3 DEF Covers
  <2>2. \A a \in Users, l \in Levels : Covers(edges', a, u, l) <=> Covers(new, a, u, l)
    BY <1>2, <1>3 DEF Covers
  <2>3. \A l \in Levels \ {1} : l - 1 \in Levels
    BY DEF Levels
  <2>4. 1 \in Levels
    BY DEF Levels
  <2> SUFFICES ASSUME NEW a \in Users, NEW d \in Users
               PROVE  /\ Covers(edges', a, d, 1) <=> referrer'[d] = a
                      /\ \A l \in Levels \ {1} :
                           Covers(edges', a, d, l) <=> Covers(edges', a, referrer'[d], l - 1)
    BY DEF ClosureOK
  <2>5. CASE d = u
    <3>1. r # u /\ r \in Users \cup {Nobody}
      OBVIOUS
    <3>2. Covers(edges', a, u, 1) <=> referrer'[u] = a
      <4>1. Covers(new, a, u, 1) <=> a = r
        BY <1>2
      <4> QED BY <1>1, <2>2, <2>4, <4>1
    <3>3. ASSUME NEW l \in Levels \ {1}
          PROVE  Covers(edges', a, u, l) <=> Covers(edges', a, referrer'[u], l - 1)
      <4>1. Covers(edges', a, u, l) <=> Covers(new, a, u, l)
        BY <2>2
      <4>2. Covers(new, a, u, l) <=> Covers(edges, a, r, l - 1)
        BY <1>2
      <4>3. Covers(edges', a, r, l - 1) <=> Covers(edges, a, r, l - 1)
        BY <2>1, <2>3, <3>1
      <4> QED BY <1>1, <4>1, <4>2, <4>3
    <3> QED BY <2>5, <3>2, <3>3
  <2>6. CASE d # u
    <3>1. referrer'[d] = referrer[d] /\ referrer[d] # u /\ referrer[d] \in Users \cup {Nobody}
      BY <1>1, <2>6 DEF Trees
    <3>2. Covers(edges', a, d, 1) <=> referrer'[d] = a
      BY <2>1, <2>4, <2>6, <3>1 DEF ClosureOK
    <3>3. ASSUME NEW l \in Levels \ {1}
          PROVE  Covers(edges', a, d, l) <=> Covers(edges', a, referrer'[d], l - 1)
      BY <2>1, <2>3, <2>6, <3>1 DEF ClosureOK
    <3> QED BY <3>2, <3>3
  <2> QED BY <2>5, <2>6
<1>10. NoLoops(referrer')
  BY NoLoopsKept
<1> QED BY <1>1, <1>4, <1>6, <1>7, <1>8, <1>9, <1>10

LEMMA QualifyFacts ==
  ASSUME NEW u, edges \subseteq ReferralEdge
  PROVE  /\ qualify(u) \subseteq ReferralEdge
         /\ \A e \in edges : e.descendant # u => e \in qualify(u)
         /\ \A q \in qualify(u) : \E e \in edges :
              /\ q.ancestor = e.ancestor /\ q.descendant = e.descendant /\ q.level = e.level
              /\ q.status = IF e.descendant = u THEN "QUALIFIED" ELSE e.status
         /\ \A a, d, l : Covers(qualify(u), a, d, l) <=> Covers(edges, a, d, l)
<1> DEFINE up(e) == IF e.descendant = u THEN [e EXCEPT !.status = "QUALIFIED"] ELSE e
<1>1. \A e \in ReferralEdge :
        /\ up(e) \in ReferralEdge
        /\ up(e).ancestor = e.ancestor /\ up(e).descendant = e.descendant /\ up(e).level = e.level
        /\ up(e).status = IF e.descendant = u THEN "QUALIFIED" ELSE e.status
        /\ e.descendant # u => up(e) = e
  BY DEF ReferralEdge
<1>2. qualify(u) = {up(e) : e \in edges}
  BY DEF qualify
<1> HIDE DEF up
<1>3. /\ qualify(u) \subseteq ReferralEdge
      /\ \A e \in edges : e.descendant # u => e \in qualify(u)
  BY <1>1, <1>2
<1>4. ASSUME NEW q \in qualify(u)
      PROVE  \E e \in edges :
              /\ q.ancestor = e.ancestor /\ q.descendant = e.descendant /\ q.level = e.level
              /\ q.status = IF e.descendant = u THEN "QUALIFIED" ELSE e.status
  BY <1>1, <1>2
<1>5. ASSUME NEW a, NEW d, NEW l PROVE Covers(qualify(u), a, d, l) <=> Covers(edges, a, d, l)
  BY <1>1, <1>2 DEF Covers
<1> QED BY <1>3, <1>4, <1>5

LEMMA VerifyKeepsTree ==
  ASSUME ReferralsAssumption, TreeOK, NEW u \in Users, NEW paid \in BOOLEAN, Verify(u, paid)
  PROVE  TreeOK'
<1> USE DEF TreeOK
<1>1. /\ u \notin verified /\ verified' = verified \cup {u} /\ referrer' = referrer
      /\ status' \in [Users -> {"none", "pending", "active", "suspended"}]
      /\ status'[u] = "active" /\ \A v \in Users : v # u => status'[v] = status[v]
      /\ edges' = qualify(u)
      /\ rewarded' \subseteq rewarded \cup {u} /\ rewarded' \subseteq Users
  BY DEF Verify
<1>3. EdgesOK'
  <2>1. ASSUME NEW q \in edges' PROVE q.status = Counted(q.descendant, verified')
    <3>1. PICK e \in edges : /\ q.descendant = e.descendant
                            /\ q.status = IF e.descendant = u THEN "QUALIFIED" ELSE e.status
      BY <1>1, <2>1, QualifyFacts
    <3>2. e.status = Counted(e.descendant, verified)
      BY DEF EdgesOK
    <3> QED BY <1>1, <3>1, <3>2 DEF Counted
  <2> QED BY <2>1 DEF EdgesOK
<1>4. ReferrersOK'
  BY <1>1 DEF ReferrersOK
<1>5. RewardsOK' /\ StandingOK'
  BY <1>1 DEF RewardsOK, StandingOK
<1>6. ClosureOK'
  BY <1>1, QualifyFacts DEF ClosureOK
<1>7. edges' \subseteq ReferralEdge
  BY <1>1, QualifyFacts
<1> QED BY <1>1, <1>3, <1>4, <1>5, <1>6, <1>7

(* Suspensions, of pending users too, views and snapshots: who is verified *)
(* stays so, and the tree is not touched.                                  *)
LEMMA SameTree ==
  ASSUME TreeOK, UNCHANGED <<verified, referrer, edges, rewarded>>,
         status' \in [Users -> {"none", "pending", "active", "suspended"}], StandingOK'
  PROVE  TreeOK'
BY DEF TreeOK, EdgesOK, ReferrersOK, RewardsOK, ClosureOK

(* Whoever may sign up again has nobody below it.                          *)
LEMMA Unreferred ==
  ASSUME ReferralsAssumption, TreeOK, NEW u \in Users, status[u] \in {"none", "pending"}
  PROVE  u \notin verified /\ u \notin rewarded /\ \A v \in Users : referrer[v] # u
<1>1. u \notin verified
  BY DEF TreeOK, StandingOK
<1>2. ASSUME NEW v \in Users, referrer[v] = u PROVE FALSE
  BY <1>1, <1>2 DEF TreeOK, ReferrersOK, ReferralsAssumption
<1> QED BY <1>1, <1>2 DEF TreeOK, RewardsOK

LEMMA TreeInit == ASSUME ReferralsAssumption, Init PROVE TreeOK
<1> USE DEF Init
<1>1. referrer \in Trees /\ \A u \in Users : referrer[u] = Nobody
  BY DEF Trees
<1>2. \A u \in Users : \A n \in Nat \ {0} : Chain(referrer, u)[n] = Nobody
  <2> TAKE u \in Users
  <2> TAKE n \in Nat \ {0}
  <2>1. PICK m \in Nat : n = m + 1
    <3>1. n - 1 \in Nat /\ n = (n - 1) + 1
      OBVIOUS
    <3> QED BY <3>1
  <2>2. OneUp(referrer, u) = Nobody
    BY <1>1 DEF OneUp
  <2>3. Chain(referrer, u)[n] = Chain(referrer, Nobody)[m]
    BY <2>1, <2>2, ChainShift
  <2> QED BY <2>3, NobodyAboveNobody
<1>3. NoLoops(referrer)
  BY <1>2 DEF NoLoops, ReferralsAssumption
<1>4. ClosureOK
  BY <1>1 DEF ClosureOK, Covers, ReferralsAssumption
<1>5. StandingOK /\ EdgesOK /\ ReferrersOK /\ RewardsOK
  BY <1>1 DEF StandingOK, EdgesOK, ReferrersOK, RewardsOK
<1> QED BY <1>1, <1>3, <1>4, <1>5 DEF TreeOK

LEMMA TreeStep == ASSUME ReferralsAssumption, TreeOK, [Next]_referralVars PROVE TreeOK'
<1>1. ASSUME NEW u \in Users, NEW r \in (Users \ {u}) \cup {Nobody}, SignUp(u, r) PROVE TreeOK'
  <2>1. u \notin rewarded /\ \A v \in Users : referrer[v] # u
    BY <1>1, Unreferred DEF SignUp
  <2>2. PICK new : new = IF r = Nobody THEN {} ELSE bind(u, r)
    OBVIOUS
  <2>3. /\ r # Nobody => status[r] = "active"
        /\ status' = [status EXCEPT ![u] = "pending"] /\ verified' = verified \ {u}
        /\ referrer' = [referrer EXCEPT ![u] = r]
        /\ edges' = (edges \ UpTo(u)) \cup new /\ rewarded' = rewarded
    BY <1>1, <2>2 DEF SignUp
  <2> QED BY <2>1, <2>2, <2>3, Replanted
<1>2. ASSUME NEW u \in Expiring, DeleteExpired(u) PROVE TreeOK'
  <2>1. u \in Users /\ u \notin rewarded /\ \A v \in Users : referrer[v] # u
    BY <1>2 DEF DeleteExpired, Referred, ReferralsAssumption
  <2>2. /\ status' = [status EXCEPT ![u] = "none"] /\ verified' = verified \ {u}
        /\ referrer' = [referrer EXCEPT ![u] = Nobody]
        /\ edges' = (edges \ UpTo(u)) \cup {} /\ rewarded' = rewarded
    BY <1>2 DEF DeleteExpired
  <2> QED BY <2>1, <2>2, Replanted
<1>3. ASSUME NEW u \in Users, NEW paid \in BOOLEAN, Verify(u, paid) PROVE TreeOK'
  BY <1>3, VerifyKeepsTree
<1>4. ASSUME NEW u \in Users, Suspend(u) \/ Unsuspend(u) PROVE TreeOK'
  <2>1. UNCHANGED <<verified, referrer, edges, rewarded>>
    BY <1>4 DEF Suspend, Unsuspend
  <2>2. /\ status' \in [Users -> {"none", "pending", "active", "suspended"}]
        /\ \A v \in Users : v # u => status'[v] = status[v]
        /\ \/ status'[u] = "suspended"
           \/ status'[u] = IF u \in verified THEN "active" ELSE "pending"
    BY <1>4 DEF Suspend, Unsuspend, TreeOK
  <2>3. StandingOK'
    BY <2>1, <2>2 DEF TreeOK, StandingOK
  <2> QED BY <2>1, <2>2, <2>3, SameTree
<1>5. ASSUME UNCHANGED <<status, verified, referrer, edges, rewarded>> PROVE TreeOK'
  BY <1>5, SameTree DEF TreeOK, StandingOK
<1>6. CASE \/ UNCHANGED referralVars
           \/ CleaningFails
           \/ \E u \in Expiring : FindExpired(u)
           \/ \E u \in Viewers : \/ DayPasses(u) \/ Visit(u)
                                 \/ \E c \in Computes : FirstVisit(u, c) \/ SnapshotRefresh(u, c)
           \/ \E c \in Computes : Upsert(c)
  BY <1>5, <1>6 DEF referralVars, CleaningFails, FindExpired, DayPasses, Visit, FirstVisit,
     SnapshotRefresh, Upsert
<1> QED BY <1>1, <1>2, <1>3, <1>4, <1>6 DEF Next

(* Level by level, the closure is the chain of referrers.                  *)
LEMMA ClosureIsChain ==
  ASSUME ReferralsAssumption, TreeOK
  PROVE  \A l \in Levels : \A a, d \in Users :
           Covers(edges, a, d, l) <=> Chain(referrer, d)[l] = a
<1> USE DEF TreeOK, ReferralsAssumption
<1> DEFINE P == {n \in Nat : n + 1 \in Levels => \A a, d \in Users :
                   Covers(edges, a, d, n + 1) <=> Chain(referrer, d)[n + 1] = a}
<1>1. 0 \in P
  <2>1. ASSUME NEW a \in Users, NEW d \in Users
        PROVE  Covers(edges, a, d, 1) <=> Chain(referrer, d)[0 + 1] = a
    <3>1. Chain(referrer, d)[0 + 1] = OneUp(referrer, d) /\ OneUp(referrer, d) = referrer[d]
      BY ChainIs DEF OneUp
    <3> QED BY <3>1 DEF ClosureOK
  <2> QED BY <2>1
<1>2. ASSUME NEW n \in P PROVE n + 1 \in P
  <2> SUFFICES ASSUME (n + 1) + 1 \in Levels, NEW a \in Users, NEW d \in Users
               PROVE  Covers(edges, a, d, (n + 1) + 1) <=> Chain(referrer, d)[(n + 1) + 1] = a
    OBVIOUS
  <2>1. n + 1 \in Levels /\ (n + 1) + 1 \in Levels \ {1} /\ ((n + 1) + 1) - 1 = n + 1
    BY DEF Levels
  <2>2. PICK v : v = referrer[d]
    OBVIOUS
  <2>3. v \in Users \cup {Nobody} /\ OneUp(referrer, d) = v
    BY <2>2 DEF OneUp, Trees
  <2>4. Chain(referrer, d)[(n + 1) + 1] = Chain(referrer, v)[n + 1]
    BY <2>3, ChainShift
  <2>5. Covers(edges, a, d, (n + 1) + 1) <=> Covers(edges, a, v, n + 1)
    BY <2>1, <2>2 DEF ClosureOK
  <2>6. Covers(edges, a, v, n + 1) <=> Chain(referrer, v)[n + 1] = a
    <3>1. CASE v \in Users
      BY <2>1, <3>1
    <3>2. CASE v = Nobody
      <4>1. ~Covers(edges, a, v, n + 1)
        BY <3>2 DEF Covers, ReferralEdge
      <4>2. Chain(referrer, v)[n + 1] = Nobody
        BY <3>2, NobodyAboveNobody
      <4> QED BY <4>1, <4>2
    <3> QED BY <2>3, <3>1, <3>2
  <2> QED BY <2>4, <2>5, <2>6
<1> HIDE DEF P
<1>3. P = Nat
  BY <1>1, <1>2, NumbersInduction DEF P
<1>4. ASSUME NEW l \in Levels, NEW a \in Users, NEW d \in Users
      PROVE  Covers(edges, a, d, l) <=> Chain(referrer, d)[l] = a
  <2>1. PICK n \in Nat : l = n + 1
    <3>1. l - 1 \in Nat /\ l = (l - 1) + 1
      BY DEF Levels
    <3> QED BY <3>1
  <2>2. n \in P
    BY <1>3
  <2> QED BY <2>1, <2>2 DEF P
<1> QED BY <1>4

LEMMA GraphFollows == ASSUME ReferralsAssumption, TreeOK PROVE GraphIsTrue
<1> USE DEF TreeOK, ReferralsAssumption
<1>1. ASSUME NEW e \in ReferralEdge
      PROVE  e \in edges <=>
               /\ Above(e.descendant)[e.level] = e.ancestor
               /\ e.status = IF e.descendant \in verified THEN "QUALIFIED" ELSE "PENDING"
  <2>1. e.ancestor \in Users /\ e.descendant \in Users /\ e.level \in Levels
    BY DEF ReferralEdge
  <2>2. Covers(edges, e.ancestor, e.descendant, e.level)
          <=> Above(e.descendant)[e.level] = e.ancestor
    BY <2>1, ClosureIsChain, AboveIsChain
  <2>3. ASSUME NEW f \in edges, f.ancestor = e.ancestor, f.descendant = e.descendant,
               f.level = e.level, f.status = e.status
        PROVE  f = e
    BY <2>3 DEF ReferralEdge
  <2>4. e \in edges => Covers(edges, e.ancestor, e.descendant, e.level)
    BY DEF Covers
  <2> QED BY <2>2, <2>3, <2>4 DEF EdgesOK, Counted, Covers
<1>2. ASSUME NEW u \in Users, NEW n \in 1 .. Cardinality(Users) PROVE Above(u)[n] # u
  <2>1. n \in Nat \ {0}
    BY FS_CardinalityType
  <2> QED BY <2>1, AboveIsChain DEF NoLoops
<1>3. edges = TrueEdges
  BY <1>1 DEF TrueEdges
<1>4. ASSUME NEW u \in Users
      PROVE  /\ status[u] = "active" => u \in verified
             /\ referrer[u] # Nobody => referrer[u] \in verified
  BY DEF StandingOK, ReferrersOK
<1> QED BY <1>2, <1>3, <1>4 DEF GraphIsTrue

(* The closure table tells the truth about the tree, through every sign-up *)
(* that replaces another, expires or is deleted after it was verified, and *)
(* every suspension, of users who never verified too; nobody comes to be   *)
(* above themselves, and only who was verified is active or above anybody. *)
THEOREM TreeIsTold == ASSUME ReferralsAssumption PROVE Spec => []GraphIsTrue
BY TreeInit, TreeStep, GraphFollows, PTL DEF Spec

-----------------------------------------------------------------------------
(* Part 3: counts and snapshots.                                           *)
Below(E, a, l) == {e \in E : e.ancestor = a /\ e.level = l /\ e.status = "QUALIFIED"}

PaidFor(paid, ref, a) == {v \in paid : ref[v] = a}

LEMMA CountsAre ==
  /\ \A u, l : l \in Levels => QualifiedCounts(u)[l] = Cardinality(Below(edges, u, l))
  /\ \A u : Income(u) = Cardinality(PaidFor(rewarded, referrer, u))
BY DEF QualifiedCounts, Income, Below, PaidFor

(* There are no more edges to count at a level than there are users.       *)
LEMMA BelowFinite ==
  ASSUME ReferralsAssumption, NEW E \in SUBSET ReferralEdge, NEW a, NEW l
  PROVE  IsFiniteSet(Below(E, a, l)) /\ Cardinality(Below(E, a, l)) \in 0 .. Cardinality(Users)
<1> DEFINE T == Below(E, a, l)
           S == {e.descendant : e \in T}
           f == [d \in S |-> [ancestor |-> a, descendant |-> d, level |-> l, status |-> "QUALIFIED"]]
<1>1. \A e \in T : /\ e \in ReferralEdge
                   /\ e = [ancestor |-> a, descendant |-> e.descendant, level |-> l,
                           status |-> "QUALIFIED"]
  BY DEF Below, ReferralEdge
<1>2. S \subseteq Users
  BY <1>1 DEF ReferralEdge
<1>3. IsFiniteSet(S) /\ Cardinality(S) <= Cardinality(Users)
  BY <1>2, FS_Subset DEF ReferralsAssumption
<1>4. f \in Surjection(S, T)
  <2>1. \A d \in S : f[d] \in T
    <3> TAKE d \in S
    <3>1. PICK e \in T : e.descendant = d
      OBVIOUS
    <3>2. f[d] = e
      BY <1>1, <3>1
    <3> QED BY <3>1, <3>2
  <2>2. \A e \in T : e.descendant \in S /\ f[e.descendant] = e
    BY <1>1
  <2> HIDE DEF T, S
  <2>3. f \in [S -> T]
    BY <2>1
  <2>4. \A e \in T : \E d \in S : f[d] = e
    BY <2>2
  <2> HIDE DEF f
  <2> QED BY <2>3, <2>4 DEF Surjection
<1> HIDE DEF T, S, f
<1>6. IsFiniteSet(T) /\ Cardinality(T) <= Cardinality(S)
  BY <1>3, <1>4, FS_Surjection
<1>7. Cardinality(T) \in Nat /\ Cardinality(S) \in Nat /\ Cardinality(Users) \in Nat
  BY <1>3, <1>6, FS_CardinalityType DEF ReferralsAssumption
<1>8. Cardinality(T) \in 0 .. Cardinality(Users)
  BY <1>3, <1>6, <1>7
<1> QED BY <1>6, <1>8 DEF T

LEMMA PaidFinite ==
  ASSUME ReferralsAssumption, NEW paid \in SUBSET Users, NEW ref, NEW a
  PROVE  /\ IsFiniteSet(PaidFor(paid, ref, a))
         /\ Cardinality(PaidFor(paid, ref, a)) \in 0 .. Cardinality(Users)
<1>1. PaidFor(paid, ref, a) \in SUBSET Users
  BY DEF PaidFor
<1>2. /\ IsFiniteSet(PaidFor(paid, ref, a))
      /\ Cardinality(PaidFor(paid, ref, a)) <= Cardinality(Users)
  BY <1>1, FS_Subset DEF ReferralsAssumption
<1>3. Cardinality(PaidFor(paid, ref, a)) \in Nat /\ Cardinality(Users) \in Nat
  BY <1>2, FS_CardinalityType DEF ReferralsAssumption
<1> QED BY <1>2, <1>3

(* What a step takes from nobody.                                          *)
Rises(w) ==
  /\ \A l \in Levels : Below(edges, w, l) \subseteq Below(edges', w, l)
  /\ PaidFor(rewarded, referrer, w) \subseteq PaidFor(rewarded', referrer', w)

LEMMA RisenCounts ==
  ASSUME ReferralsAssumption, TreeOK, TreeOK', NEW w, Rises(w)
  PROVE  /\ \A l \in Levels : Cardinality(Below(edges, w, l)) <= Cardinality(Below(edges', w, l))
         /\ Cardinality(PaidFor(rewarded, referrer, w))
              <= Cardinality(PaidFor(rewarded', referrer', w))
<1>1. edges' \in SUBSET ReferralEdge /\ rewarded' \in SUBSET Users
  BY DEF TreeOK
<1>2. ASSUME NEW l \in Levels
      PROVE  Cardinality(Below(edges, w, l)) <= Cardinality(Below(edges', w, l))
  BY <1>1, BelowFinite, FS_Subset DEF Rises
<1>3. Cardinality(PaidFor(rewarded, referrer, w))
        <= Cardinality(PaidFor(rewarded', referrer', w))
  BY <1>1, PaidFinite, FS_Subset DEF Rises
<1> QED BY <1>2, <1>3

(* Only the deletion of a friend who verified meanwhile takes back what    *)
(* was counted, and whom it takes it from is undone from then on.          *)
LEMMA StepsRise ==
  ASSUME ReferralsAssumption, TreeOK, [Next]_referralVars, NEW w \in Users \ undone'
  PROVE  \/ w \notin undone /\ Rises(w)
         \/ w \in Expiring /\ DeleteExpired(w)
<1> USE DEF TreeOK
<1>1. ASSUME NEW u \in Users, NEW r \in (Users \ {u}) \cup {Nobody}, SignUp(u, r)
      PROVE  w \notin undone /\ Rises(w)
  <2>1. u \notin rewarded /\ u \notin verified
    BY <1>1, Unreferred DEF SignUp
  <2>2. \A e \in edges : e.status = "QUALIFIED" => e.descendant # u
    BY <2>1 DEF EdgesOK, Counted
  <2>3. edges \ UpTo(u) \subseteq edges' /\ rewarded' = rewarded /\ undone' = undone
    BY <1>1 DEF SignUp
  <2>4. \A v \in rewarded : referrer'[v] = referrer[v]
    BY <1>1, <2>1 DEF SignUp, Trees
  <2> QED BY <2>2, <2>3, <2>4 DEF Rises, Below, PaidFor, UpTo
<1>2. ASSUME NEW u \in Expiring, DeleteExpired(u)
      PROVE  w = u \/ (w \notin undone /\ Rises(w))
  <2>1. /\ u \notin rewarded /\ rewarded' = rewarded /\ edges' = edges \ UpTo(u)
        /\ undone' = (undone \cup {e.ancestor : e \in {f \in UpTo(u) : f.status = "QUALIFIED"}}) \ {u}
    BY <1>2 DEF DeleteExpired
  <2>2. \A v \in rewarded : referrer'[v] = referrer[v]
    BY <1>2, <2>1 DEF DeleteExpired, Trees
  <2>3. ASSUME w # u PROVE w \notin undone /\ Rises(w)
    <3>1. w \notin undone /\ \A e \in UpTo(u) : e.status = "QUALIFIED" => e.ancestor # w
      BY <2>1, <2>3
    <3> QED BY <2>1, <2>2, <3>1 DEF Rises, Below, PaidFor
  <2> QED BY <2>3
<1>3. ASSUME NEW u \in Users, NEW paid \in BOOLEAN, Verify(u, paid)
      PROVE  w \notin undone /\ Rises(w)
  <2>1. /\ u \notin verified /\ referrer' = referrer /\ rewarded \subseteq rewarded'
        /\ edges' = qualify(u) /\ undone' = undone
    BY <1>3 DEF Verify
  <2>2. \A e \in edges : e.status = "QUALIFIED" => e.descendant # u
    BY <2>1 DEF EdgesOK, Counted
  <2>3. \A e \in edges : e.status = "QUALIFIED" => e \in edges'
    BY <2>1, <2>2, QualifyFacts
  <2> QED BY <2>1, <2>3 DEF Rises, Below, PaidFor
<1>4. ASSUME UNCHANGED <<referrer, edges, rewarded, undone>> PROVE w \notin undone /\ Rises(w)
  BY <1>4 DEF Rises
<1>5. CASE \/ UNCHANGED referralVars
           \/ CleaningFails
           \/ \E u \in Users : Suspend(u) \/ Unsuspend(u)
           \/ \E u \in Expiring : FindExpired(u)
           \/ \E u \in Viewers : \/ DayPasses(u) \/ Visit(u)
                                 \/ \E c \in Computes : FirstVisit(u, c) \/ SnapshotRefresh(u, c)
           \/ \E c \in Computes : Upsert(c)
  BY <1>4, <1>5 DEF referralVars, CleaningFails, Suspend, Unsuspend, FindExpired, DayPasses, Visit,
     FirstVisit, SnapshotRefresh, Upsert
<1> QED BY <1>1, <1>2, <1>3, <1>5 DEF Next

(* What a snapshot shows, or a compute has read, is really there.          *)
ShownOK(w) ==
  /\ \A l \in Levels : snapshot[w].counts[l] <= Cardinality(Below(edges, w, l))
  /\ snapshot[w].income <= Cardinality(PaidFor(rewarded, referrer, w))

ReadOK(w) ==
  \A c \in Computes : compute[c].user = w =>
    \A l \in Levels : compute[c].counts[l] <= Cardinality(Below(edges, w, l))

Reading == [user : Users \cup {Nobody}, job : BOOLEAN, counts : Counts]

SnapshotsTyped ==
  /\ snapshot \in [Users -> ReferralSnapshot]
  /\ refresh \in [Users -> {"none", "queued", "done"}]
  /\ compute \in [Computes -> Reading]
  /\ \A c \in Computes : compute[c] # Free => compute[c].user # Nobody
  /\ expired \in Expiring \cup {Nobody} /\ undone \subseteq Users

SnapshotsOK == SnapshotsTyped /\ \A w \in Users \ undone : ShownOK(w) /\ ReadOK(w)

Told == TreeOK /\ SnapshotsOK

LEMMA CountsTyped ==
  ASSUME ReferralsAssumption, TreeOK, NEW u
  PROVE  /\ QualifiedCounts(u) \in Counts /\ Income(u) \in 0 .. Cardinality(Users)
         /\ Zero \in Counts /\ 0 \in 0 .. Cardinality(Users)
<1>1. Cardinality(Users) \in Nat
  BY FS_CardinalityType DEF ReferralsAssumption
<1>2. \A l \in Levels : Cardinality(Below(edges, u, l)) \in 0 .. Cardinality(Users)
  BY BelowFinite DEF TreeOK
<1>3. Cardinality(PaidFor(rewarded, referrer, u)) \in 0 .. Cardinality(Users)
  BY PaidFinite DEF TreeOK
<1>4. QualifiedCounts(u) \in Counts
  <2>1. \A l \in Levels : QualifiedCounts(u)[l] \in 0 .. Cardinality(Users)
    BY <1>2, CountsAre
  <2> QED BY <2>1 DEF QualifiedCounts, Counts
<1>5. Income(u) \in 0 .. Cardinality(Users)
  BY <1>3, CountsAre
<1> QED BY <1>1, <1>4, <1>5 DEF Zero, Counts

LEMMA FreeReading ==
  ASSUME ReferralsAssumption, TreeOK
  PROVE  /\ Free \in Reading /\ Free.user = Nobody
         /\ NoSnapshot \in ReferralSnapshot
         /\ \A l \in Levels : NoSnapshot.counts[l] = 0
         /\ NoSnapshot.income = 0
BY CountsTyped DEF Free, Reading, NoSnapshot, ReferralSnapshot, Zero

LEMMA SnapshotsInit == ASSUME ReferralsAssumption, Init PROVE SnapshotsOK
<1> USE TreeInit, FreeReading DEF Init
<1>1. SnapshotsTyped
  BY DEF SnapshotsTyped
<1>2. ASSUME NEW w \in Users PROVE ShownOK(w) /\ ReadOK(w)
  <2>1. \A l \in Levels : Cardinality(Below(edges, w, l)) \in Nat
    BY BelowFinite, FS_CardinalityType DEF TreeOK
  <2>2. Cardinality(PaidFor(rewarded, referrer, w)) \in Nat
    BY PaidFinite, FS_CardinalityType DEF TreeOK
  <2>3. ShownOK(w)
    BY <2>1, <2>2 DEF ShownOK
  <2>4. ReadOK(w)
    BY DEF ReadOK, ReferralsAssumption
  <2> QED BY <2>3, <2>4
<1> QED BY <1>1, <1>2 DEF SnapshotsOK

(* A step that changes neither snapshots nor what is being computed.       *)
LEMMA SnapshotsKept ==
  ASSUME ReferralsAssumption, Told, TreeOK', NEW w \in Users, w \notin undone, Rises(w)
  PROVE  /\ \A l \in Levels : snapshot[w].counts[l] <= Cardinality(Below(edges', w, l))
         /\ snapshot[w].income <= Cardinality(PaidFor(rewarded', referrer', w))
         /\ \A c \in Computes : compute[c].user = w =>
              \A l \in Levels : compute[c].counts[l] <= Cardinality(Below(edges', w, l))
<1> USE DEF Told
<1>1. /\ ShownOK(w) /\ ReadOK(w)
      /\ snapshot[w] \in ReferralSnapshot /\ \A c \in Computes : compute[c] \in Reading
  BY DEF SnapshotsOK, SnapshotsTyped
<1>2. /\ \A l \in Levels : /\ Cardinality(Below(edges, w, l)) \in Int
                          /\ Cardinality(Below(edges', w, l)) \in Int
      /\ Cardinality(PaidFor(rewarded, referrer, w)) \in Int
      /\ Cardinality(PaidFor(rewarded', referrer', w)) \in Int
  BY BelowFinite, PaidFinite DEF TreeOK
<1>3. /\ \A l \in Levels : Cardinality(Below(edges, w, l)) <= Cardinality(Below(edges', w, l))
      /\ Cardinality(PaidFor(rewarded, referrer, w))
           <= Cardinality(PaidFor(rewarded', referrer', w))
  BY RisenCounts
<1>4. /\ \A l \in Levels : snapshot[w].counts[l] \in Int
      /\ snapshot[w].income \in Int
      /\ \A c \in Computes : \A l \in Levels : compute[c].counts[l] \in Int
  BY <1>1 DEF ReferralSnapshot, Reading, Counts
<1>5. \A l \in Levels : snapshot[w].counts[l] <= Cardinality(Below(edges', w, l))
  BY <1>1, <1>2, <1>3, <1>4 DEF ShownOK
<1>6. snapshot[w].income <= Cardinality(PaidFor(rewarded', referrer', w))
  BY <1>1, <1>2, <1>3, <1>4 DEF ShownOK
<1>7. ASSUME NEW c \in Computes, compute[c].user = w, NEW l \in Levels
      PROVE  compute[c].counts[l] <= Cardinality(Below(edges', w, l))
  <2>1. compute[c].counts[l] <= Cardinality(Below(edges, w, l))
    BY <1>1, <1>7 DEF ReadOK
  <2> QED BY <1>2, <1>3, <1>4, <2>1
<1> QED BY <1>5, <1>6, <1>7

(* Where what a snapshot or a compute says comes from.                     *)
Sourced(w) ==
  /\ \/ snapshot'[w].counts = snapshot[w].counts /\ snapshot'[w].income = snapshot[w].income
     \/ /\ \E c \in Computes : compute[c].user = w /\ snapshot'[w].counts = compute[c].counts
        /\ snapshot'[w].income = Cardinality(PaidFor(rewarded', referrer', w))
     \/ snapshot'[w] = NoSnapshot
  /\ \A c \in Computes : compute'[c].user = w =>
       \/ compute[c].user = w /\ compute'[c].counts = compute[c].counts
       \/ \A l \in Levels : compute'[c].counts[l] = Cardinality(Below(edges', w, l))

LEMMA SourcedHolds ==
  ASSUME ReferralsAssumption, Told, TreeOK', NEW w \in Users, w \notin undone, Rises(w), Sourced(w)
  PROVE  ShownOK(w)' /\ ReadOK(w)'
<1>1. /\ \A l \in Levels : Cardinality(Below(edges', w, l)) \in Nat
      /\ Cardinality(PaidFor(rewarded', referrer', w)) \in Nat
  BY BelowFinite, PaidFinite, FS_CardinalityType DEF TreeOK
<1>2. \A l \in Levels : NoSnapshot.counts[l] = 0 /\ NoSnapshot.income = 0
  BY FreeReading DEF Told
<1>3. /\ \A l \in Levels : snapshot[w].counts[l] <= Cardinality(Below(edges', w, l))
      /\ snapshot[w].income <= Cardinality(PaidFor(rewarded', referrer', w))
      /\ \A c \in Computes : compute[c].user = w =>
           \A l \in Levels : compute[c].counts[l] <= Cardinality(Below(edges', w, l))
  BY SnapshotsKept
<1>4. ASSUME NEW l \in Levels PROVE snapshot'[w].counts[l] <= Cardinality(Below(edges', w, l))
  BY <1>1, <1>2, <1>3 DEF Sourced
<1>5. snapshot'[w].income <= Cardinality(PaidFor(rewarded', referrer', w))
  <2>1. NoSnapshot.income = 0
    BY FreeReading DEF Told
  <2> QED BY <1>1, <1>3, <2>1 DEF Sourced
<1>6. ASSUME NEW c \in Computes, compute'[c].user = w, NEW l \in Levels
      PROVE  compute'[c].counts[l] <= Cardinality(Below(edges', w, l))
  BY <1>1, <1>3, <1>6 DEF Sourced
<1> QED BY <1>4, <1>5, <1>6 DEF ShownOK, ReadOK

(* A deleted user's snapshot, and what was being computed, is gone.        *)
LEMMA GoneHolds ==
  ASSUME ReferralsAssumption, Told, TreeOK', NEW w \in Users, DeleteExpired(w)
  PROVE  ShownOK(w)' /\ ReadOK(w)'
<1>1. /\ \A l \in Levels : Cardinality(Below(edges', w, l)) \in Nat
      /\ Cardinality(PaidFor(rewarded', referrer', w)) \in Nat
  BY BelowFinite, PaidFinite, FS_CardinalityType DEF TreeOK
<1>2. /\ Free.user = Nobody /\ Nobody # w
      /\ NoSnapshot.income = 0 /\ \A l \in Levels : NoSnapshot.counts[l] = 0
  BY FreeReading DEF Told, ReferralsAssumption
<1>3. /\ snapshot'[w] = NoSnapshot
      /\ \A c \in Computes : compute'[c].user # w
  BY <1>2 DEF DeleteExpired, Told, SnapshotsOK, SnapshotsTyped
<1> QED BY <1>1, <1>2, <1>3 DEF ShownOK, ReadOK

LEMMA DeletionTyped ==
  ASSUME ReferralsAssumption, Told, NEW u \in Expiring, DeleteExpired(u)
  PROVE  SnapshotsTyped' /\ \A w \in Users : Sourced(w)
<1> USE DEF Told, SnapshotsOK, SnapshotsTyped
<1>1. /\ Free \in Reading /\ NoSnapshot \in ReferralSnapshot /\ Free.user = Nobody /\ Nobody \notin Users
  BY FreeReading DEF ReferralsAssumption
<1>2. undone' \subseteq Users
  <2>1. \A e \in UpTo(u) : e.ancestor \in Users
    BY DEF TreeOK, UpTo, ReferralEdge
  <2> QED BY <2>1 DEF DeleteExpired
<1>3. /\ snapshot' \in [Users -> ReferralSnapshot]
      /\ refresh' \in [Users -> {"none", "queued", "done"}]
      /\ compute' \in [Computes -> Reading]
      /\ \A c \in Computes : compute'[c] \in {compute[c], Free}
      /\ \A w \in Users : snapshot'[w] \in {snapshot[w], NoSnapshot}
      /\ expired' = Nobody
  BY <1>1 DEF DeleteExpired
<1>4. SnapshotsTyped'
  BY <1>2, <1>3
<1>5. ASSUME NEW w \in Users PROVE Sourced(w)
  BY <1>1, <1>3 DEF Sourced
<1> QED BY <1>4, <1>5

(* A view or the job starts to compute: the first read.                    *)
LEMMA ReadTyped ==
  ASSUME ReferralsAssumption, Told, NEW u \in Viewers, NEW c \in Computes,
         FirstVisit(u, c) \/ SnapshotRefresh(u, c)
  PROVE  SnapshotsTyped' /\ \A w \in Users : Sourced(w)
<1> USE DEF Told, SnapshotsOK, SnapshotsTyped
<1>1. PICK job \in BOOLEAN :
        /\ compute' = [compute EXCEPT ![c] = [user |-> u, job |-> job, counts |-> QualifiedCounts(u)]]
        /\ UNCHANGED <<referrer, edges, rewarded, snapshot, refresh, expired, undone>>
  BY DEF FirstVisit, SnapshotRefresh
<1>2. u \in Users /\ u # Nobody /\ QualifiedCounts(u) \in Counts
  BY CountsTyped DEF ReferralsAssumption
<1>3. \A l \in Levels : QualifiedCounts(u)[l] = Cardinality(Below(edges', u, l))
  BY <1>1, CountsAre
<1>4. PICK row : row = [user |-> u, job |-> job, counts |-> QualifiedCounts(u)]
  OBVIOUS
<1>5. row \in Reading /\ row.user = u /\ row.counts = QualifiedCounts(u)
  BY <1>2, <1>4 DEF Reading
<1>6. /\ compute' \in [Computes -> Reading] /\ compute'[c] = row
      /\ \A d \in Computes : d # c => compute'[d] = compute[d]
  BY <1>1, <1>4, <1>5
<1>7. SnapshotsTyped'
  BY <1>1, <1>2, <1>5, <1>6
<1>8. ASSUME NEW w \in Users PROVE Sourced(w)
  BY <1>1, <1>3, <1>5, <1>6 DEF Sourced
<1> QED BY <1>7, <1>8

(* The second read and the upsert.                                         *)
LEMMA UpsertTyped ==
  ASSUME ReferralsAssumption, Told, NEW c \in Computes, Upsert(c)
  PROVE  SnapshotsTyped' /\ \A w \in Users : Sourced(w)
<1> USE DEF Told, SnapshotsOK, SnapshotsTyped
<1>1. PICK u : u = compute[c].user
  OBVIOUS
<1>2. compute[c] \in Reading /\ compute[c] # Free /\ u \in Users /\ compute[c].counts \in Counts
  BY <1>1 DEF Upsert, Reading
<1>3. PICK row : row = [made |-> TRUE, old |-> FALSE, counts |-> compute[c].counts, income |-> Income(u)]
  OBVIOUS
<1>4. row \in ReferralSnapshot /\ row.counts = compute[c].counts /\ row.income = Income(u)
  BY <1>2, <1>3, CountsTyped DEF ReferralSnapshot
<1>5. /\ snapshot' = [snapshot EXCEPT ![u] = row]
      /\ refresh' \in [Users -> {"none", "queued", "done"}]
      /\ compute' = [compute EXCEPT ![c] = Free]
      /\ UNCHANGED <<referrer, edges, rewarded, expired, undone>>
  BY <1>1, <1>2, <1>3 DEF Upsert
<1>6. /\ snapshot' \in [Users -> ReferralSnapshot] /\ snapshot'[u] = row
      /\ \A w \in Users : w # u => snapshot'[w] = snapshot[w]
  BY <1>2, <1>4, <1>5
<1>7. /\ compute' \in [Computes -> Reading] /\ compute'[c] = Free
      /\ \A d \in Computes : d # c => compute'[d] = compute[d]
      /\ Free.user = Nobody /\ Nobody \notin Users
  BY <1>5, FreeReading DEF ReferralsAssumption
<1>8. SnapshotsTyped'
  BY <1>5, <1>6, <1>7
<1>9. Income(u) = Cardinality(PaidFor(rewarded', referrer', u))
  BY <1>5, CountsAre
<1>10. ASSUME NEW w \in Users PROVE Sourced(w)
  BY <1>1, <1>4, <1>6, <1>7, <1>9 DEF Sourced
<1> QED BY <1>8, <1>10

(* Everything else leaves the numbers as they are.                         *)
LEMMA OthersTyped ==
  ASSUME ReferralsAssumption, Told,
         \/ UNCHANGED referralVars
         \/ CleaningFails
         \/ \E u \in Expiring : FindExpired(u)
         \/ \E u \in Users : \/ \E r \in (Users \ {u}) \cup {Nobody} : SignUp(u, r)
                             \/ Suspend(u) \/ Unsuspend(u)
                             \/ \E paid \in BOOLEAN : Verify(u, paid)
         \/ \E u \in Viewers : DayPasses(u) \/ Visit(u)
  PROVE  SnapshotsTyped' /\ \A w \in Users : Sourced(w)
<1> USE DEF Told, SnapshotsOK, SnapshotsTyped, ReferralsAssumption
<1>1. /\ compute' = compute /\ undone' = undone /\ expired' \in Expiring \cup {Nobody}
      /\ refresh' \in [Users -> {"none", "queued", "done"}]
  BY DEF referralVars, CleaningFails, FindExpired, SignUp, Suspend, Unsuspend, Verify, DayPasses, Visit
<1>2. \/ snapshot' = snapshot
      \/ \E u \in Users : snapshot' = [snapshot EXCEPT ![u].old = TRUE]
  BY DEF referralVars, CleaningFails, FindExpired, SignUp, Suspend, Unsuspend, Verify, DayPasses, Visit
<1>3. /\ snapshot' \in [Users -> ReferralSnapshot]
      /\ \A w \in Users : /\ snapshot'[w].counts = snapshot[w].counts
                           /\ snapshot'[w].income = snapshot[w].income
  <2>1. CASE snapshot' = snapshot
    BY <2>1
  <2>2. ASSUME NEW u \in Users, snapshot' = [snapshot EXCEPT ![u].old = TRUE]
        PROVE  /\ snapshot' \in [Users -> ReferralSnapshot]
               /\ \A w \in Users : /\ snapshot'[w].counts = snapshot[w].counts
                                    /\ snapshot'[w].income = snapshot[w].income
    <3>1. PICK row : row = [snapshot[u] EXCEPT !.old = TRUE]
      OBVIOUS
    <3>2. snapshot[u] \in ReferralSnapshot
      OBVIOUS
    <3>3. /\ row \in ReferralSnapshot
          /\ row.counts = snapshot[u].counts /\ row.income = snapshot[u].income
      BY <3>1, <3>2 DEF ReferralSnapshot
    <3>4. snapshot' = [snapshot EXCEPT ![u] = row]
      BY <2>2, <3>1
    <3> QED BY <3>3, <3>4
  <2> QED BY <1>2, <2>1, <2>2
<1>4. SnapshotsTyped'
  BY <1>1, <1>3
<1>5. ASSUME NEW w \in Users PROVE Sourced(w)
  BY <1>1, <1>3 DEF Sourced
<1> QED BY <1>4, <1>5

LEMMA ToldStep == ASSUME ReferralsAssumption, Told, [Next]_referralVars PROVE Told'
<1>1. TreeOK'
  BY TreeStep DEF Told
<1>2. SnapshotsTyped' /\ \A w \in Users : Sourced(w)
  BY DeletionTyped, ReadTyped, UpsertTyped, OthersTyped DEF Next
<1>3. ASSUME NEW w \in Users \ undone' PROVE ShownOK(w)' /\ ReadOK(w)'
  <2>1. CASE w \notin undone /\ Rises(w)
    BY <1>1, <1>2, <2>1, SourcedHolds
  <2>2. CASE DeleteExpired(w)
    BY <1>1, <2>2, GoneHolds
  <2> QED BY <2>1, <2>2, StepsRise DEF Told
<1> QED BY <1>1, <1>2, <1>3 DEF Told, SnapshotsOK

LEMMA AlwaysTold == ASSUME ReferralsAssumption PROVE Spec => []Told
<1>1. Init => Told
  BY TreeInit, SnapshotsInit DEF Told
<1>2. Told /\ [Next]_referralVars => Told'
  BY ToldStep
<1> QED BY <1>1, <1>2, PTL DEF Spec

LEMMA ToldMeans == ASSUME ReferralsAssumption, Told PROVE TypeOK /\ SnapshotNeverAhead
<1>1. TypeOK
  BY DEF Told, TreeOK, Trees, SnapshotsOK, SnapshotsTyped, Reading, TypeOK
<1>2. SnapshotNeverAhead
  BY CountsAre DEF Told, SnapshotsOK, ShownOK, SnapshotNeverAhead
<1> QED BY <1>1, <1>2

(* Every reachable state of the tree and its snapshots is of its type.     *)
THEOREM TreeTyping == ASSUME ReferralsAssumption PROVE Spec => []TypeOK
<1>1. Told => TypeOK
  BY ToldMeans
<1> QED BY AlwaysTold, <1>1, PTL

(* referrals.compute_snapshot reads twice and writes last, and a snapshot  *)
(* never shows a friend or a reward too many all the same.                 *)
THEOREM NeverAhead == ASSUME ReferralsAssumption PROVE Spec => []SnapshotNeverAhead
<1>1. Told => SnapshotNeverAhead
  BY ToldMeans
<1> QED BY AlwaysTold, <1>1, PTL
=============================================================================
