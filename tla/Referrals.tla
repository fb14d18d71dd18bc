----------------------------- MODULE Referrals ------------------------------
(***************************************************************************)
(* The referral tree, kept twice: users.referrer_id, written once at       *)
(* sign-up, and referral_edges, its closure up to MaxLevel levels, which   *)
(* every count reads.  A snapshot of the counts and of the income is kept  *)
(* per user and refreshed by a job; it is computed in two statements.      *)
(***************************************************************************)
EXTENDS Integers, FiniteSets

CONSTANTS
  Users,     \* phone numbers; each signs up again after its sign-up is deleted
  Viewers,   \* bound: the users who open the referrals page
  Expiring,  \* bound: the users whose sign-ups may expire
  MaxLevel,  \* MAX_TRACKED_LEVEL (4)
  Computes,  \* bound: snapshots being computed at once
  Nobody

(* What the constants are; the module that instantiates this one assumes it. *)
ReferralsAssumption ==
  /\ Viewers \subseteq Users /\ Expiring \subseteq Users /\ Nobody \notin Users
  /\ IsFiniteSet(Users)
  /\ MaxLevel \in Nat \ {0}

VARIABLES
  status,    \* users.status, "none" without a row
  verified,  \* the users with a verified_at
  referrer,  \* users.referrer_id
  edges,     \* referral_edges
  rewarded,  \* users whose referrer was credited a reward for them
  snapshot,  \* referral_snapshots
  refresh,   \* per user, the snapshot_refresh job with today's dedupe key
  compute,   \* compute_snapshot calls between their two reads
  expired,   \* the sign-up housekeeping selected and is about to delete
  undone     \* users who lost a verified friend to that deletion

referralVars ==
  <<status, verified, referrer, edges, rewarded, snapshot, refresh, compute, expired, undone>>

Levels == 1 .. MaxLevel

ReferralEdge == [ancestor : Users, descendant : Users, level : Levels,
                 status : {"PENDING", "QUALIFIED"}]

Counts == [Levels -> 0 .. Cardinality(Users)]

Zero == [l \in Levels |-> 0]

ReferralSnapshot == [made : BOOLEAN, old : BOOLEAN, counts : Counts, income : 0 .. Cardinality(Users)]

NoSnapshot == [made |-> FALSE, old |-> FALSE, counts |-> Zero, income |-> 0]

Free == [user |-> Nobody, job |-> FALSE, counts |-> Zero]

-----------------------------------------------------------------------------
UpTo(u) == {e \in edges : e.descendant = u}

Direct(u, r) == [ancestor |-> r, descendant |-> u, level |-> 1, status |-> "PENDING"]

Shifted(u, e) ==
  [ancestor |-> e.ancestor, descendant |-> u, level |-> e.level + 1, status |-> "PENDING"]

(* Seeded bugs: the referrer's own ancestors are left out; all are taken.  *)
bind_direct(u, r) == {Direct(u, r)}

bind_all(u, r) == {Direct(u, r)} \cup {Shifted(u, e) : e \in UpTo(r)}

bind(u, r) == {Direct(u, r)} \cup {Shifted(u, e) : e \in {f \in UpTo(r) : f.level < MaxLevel}}

qualify(u) ==
  {IF e.descendant = u THEN [e EXCEPT !.status = "QUALIFIED"] ELSE e : e \in edges}

AllCounts(u) ==  \* seeded bug: pending friends are counted
  [l \in Levels |-> Cardinality({e \in edges : e.ancestor = u /\ e.level = l})]

QualifiedCounts(u) ==
  [l \in Levels |->
     Cardinality({e \in edges : e.ancestor = u /\ e.level = l /\ e.status = "QUALIFIED"})]

Income(u) == Cardinality({v \in rewarded : referrer[v] = u})

Pending(u) == status[u] = "pending"

-----------------------------------------------------------------------------
Init ==
  /\ status = [u \in Users |-> "none"]
  /\ verified = {}
  /\ referrer = [u \in Users |-> Nobody]
  /\ edges = {}
  /\ rewarded = {}
  /\ snapshot = [u \in Users |-> NoSnapshot]
  /\ refresh = [u \in Users |-> "none"]
  /\ compute = [c \in Computes |-> Free]
  /\ expired = Nobody
  /\ undone = {}

(* One transaction: the referrer is ACTIVE, an unverified sign-up of this  *)
(* number is deleted with its edges, the new user is bound below it.       *)
SignUp(u, r) ==
  /\ status[u] \in {"none", "pending"}
  /\ r # Nobody => status[r] = "active"
  /\ status' = [status EXCEPT ![u] = "pending"]
  /\ verified' = verified \ {u}
  /\ referrer' = [referrer EXCEPT ![u] = r]
  /\ edges' = (edges \ UpTo(u)) \cup (IF r = Nobody THEN {} ELSE bind(u, r))
  /\ expired' = IF expired = u THEN Nobody ELSE expired
  /\ UNCHANGED <<rewarded, snapshot, refresh, compute, undone>>

(* Housekeeping selects the sign-ups that expired ...                       *)
FindExpired(u) ==
  /\ expired = Nobody /\ Pending(u)
  /\ expired' = u
  /\ UNCHANGED <<status, verified, referrer, edges, rewarded, snapshot, refresh, compute, undone>>

Referred(u) == \E v \in Users : referrer[v] = u

(* ... and deletes them by id, verified or suspended since or not, unless  *)
(* another user or a reward refers to them.  Edges, snapshot and what is   *)
(* being computed for the user go with the row.                            *)
DeleteExpired(u) ==
  /\ expired = u
  /\ u \notin rewarded /\ ~Referred(u)
  /\ expired' = Nobody
  /\ status' = [status EXCEPT ![u] = "none"]
  /\ verified' = verified \ {u}
  /\ referrer' = [referrer EXCEPT ![u] = Nobody]
  /\ edges' = edges \ UpTo(u)
  /\ snapshot' = [snapshot EXCEPT ![u] = NoSnapshot]
  /\ refresh' = [refresh EXCEPT ![u] = "none"]
  /\ compute' = [c \in Computes |-> IF compute[c].user = u THEN Free ELSE compute[c]]
  /\ undone' = (undone \cup {e.ancestor : e \in {f \in UpTo(u) : f.status = "QUALIFIED"}}) \ {u}
  /\ UNCHANGED rewarded

(* A row without cascade refers to the user, or the worker dies: nothing   *)
(* is deleted.                                                             *)
CleaningFails ==
  /\ expired # Nobody
  /\ expired' = Nobody
  /\ UNCHANGED <<status, verified, referrer, edges, rewarded, snapshot, refresh, compute, undone>>

(* verification.complete; whether the campaign and its pool pay is open.   *)
(* The status it checks was read before it locks the user, so one who was  *)
(* suspended meanwhile is activated all the same.                          *)
Verify(u, paid) ==
  /\ status[u] \in {"pending", "suspended"} /\ u \notin verified
  /\ paid => referrer[u] # Nobody /\ status[referrer[u]] = "active"
  /\ status' = [status EXCEPT ![u] = "active"]
  /\ verified' = verified \cup {u}
  /\ edges' = qualify(u)
  /\ rewarded' = IF paid THEN rewarded \cup {u} ELSE rewarded
  /\ UNCHANGED <<referrer, snapshot, refresh, compute, expired, undone>>

(* The user's page offers it for whoever is not suspended, pending or not. *)
Suspend(u) ==
  /\ status[u] \in {"pending", "active"}
  /\ status' = [status EXCEPT ![u] = "suspended"]
  /\ UNCHANGED <<verified, referrer, edges, rewarded, snapshot, refresh, compute, expired, undone>>

Unsuspend(u) ==
  /\ status[u] = "suspended"
  /\ status' = [status EXCEPT ![u] = IF u \in verified THEN "active" ELSE "pending"]
  /\ UNCHANGED <<verified, referrer, edges, rewarded, snapshot, refresh, compute, expired, undone>>

-----------------------------------------------------------------------------
(* SNAPSHOT_MAX_AGE is over, and with it the day of the job's dedupe key.  *)
DayPasses(u) ==
  /\ snapshot[u].made /\ ~snapshot[u].old
  /\ refresh[u] # "queued"
  /\ snapshot' = [snapshot EXCEPT ![u].old = TRUE]
  /\ refresh' = [refresh EXCEPT ![u] = "none"]
  /\ UNCHANGED <<status, verified, referrer, edges, rewarded, compute, expired, undone>>

(* referrals.summary: the first visit computes, a later one may enqueue.   *)
FirstVisit(u, c) ==
  /\ status[u] = "active" /\ ~snapshot[u].made
  /\ compute[c] = Free
  /\ compute' = [compute EXCEPT ![c] = [user |-> u, job |-> FALSE, counts |-> QualifiedCounts(u)]]
  /\ UNCHANGED <<status, verified, referrer, edges, rewarded, snapshot, refresh, expired, undone>>

Visit(u) ==
  /\ status[u] = "active" /\ snapshot[u].old
  /\ refresh[u] = "none"
  /\ refresh' = [refresh EXCEPT ![u] = "queued"]
  /\ UNCHANGED <<status, verified, referrer, edges, rewarded, snapshot, compute, expired, undone>>

SnapshotRefresh(u, c) ==
  /\ refresh[u] = "queued"
  /\ compute[c] = Free
  /\ \A d \in Computes : ~(compute[d].job /\ compute[d].user = u)
  /\ compute' = [compute EXCEPT ![c] = [user |-> u, job |-> TRUE, counts |-> QualifiedCounts(u)]]
  /\ UNCHANGED <<status, verified, referrer, edges, rewarded, snapshot, refresh, expired, undone>>

(* The second read and the upsert, which replaces whatever is there.       *)
Upsert(c) ==
  LET u == compute[c].user IN
  /\ compute[c] # Free
  /\ snapshot' = [snapshot EXCEPT ![u] =
       [made |-> TRUE, old |-> FALSE, counts |-> compute[c].counts, income |-> Income(u)]]
  /\ refresh' = IF compute[c].job THEN [refresh EXCEPT ![u] = "done"] ELSE refresh
  /\ compute' = [compute EXCEPT ![c] = Free]
  /\ UNCHANGED <<status, verified, referrer, edges, rewarded, expired, undone>>

-----------------------------------------------------------------------------
Next ==
  \/ \E u \in Expiring : FindExpired(u) \/ DeleteExpired(u)
  \/ \E u \in Users :
       \/ \E r \in (Users \ {u}) \cup {Nobody} : SignUp(u, r)
       \/ Suspend(u) \/ Unsuspend(u)
       \/ \E paid \in BOOLEAN : Verify(u, paid)
  \/ \E u \in Viewers :
       \/ DayPasses(u) \/ Visit(u)
       \/ \E c \in Computes : FirstVisit(u, c) \/ SnapshotRefresh(u, c)
  \/ CleaningFails
  \/ \E c \in Computes : Upsert(c)

Spec == Init /\ [][Next]_referralVars

-----------------------------------------------------------------------------
(* Type invariant: the columns of the rows, and two reads of a snapshot.   *)
TypeOK ==
  /\ status \in [Users -> {"none", "pending", "active", "suspended"}]
  /\ verified \subseteq Users
  /\ referrer \in [Users -> Users \cup {Nobody}]
  /\ edges \subseteq ReferralEdge
  /\ rewarded \subseteq Users
  /\ snapshot \in [Users -> ReferralSnapshot]
  /\ refresh \in [Users -> {"none", "queued", "done"}]
  /\ compute \in [Computes -> [user : Users \cup {Nobody}, job : BOOLEAN, counts : Counts]]
  /\ expired \in Expiring \cup {Nobody} /\ undone \subseteq Users

(* The user n levels above u along referrer_id: the reference definition.  *)
Above(u) ==
  LET up[n \in Nat] ==
        IF n = 0 THEN u ELSE IF up[n - 1] = Nobody THEN Nobody ELSE referrer[up[n - 1]]
  IN up

(* What the closure table should say: one row per ancestor up to MaxLevel  *)
(* above, counted once the user is verified and not before.                *)
TrueEdges ==
  {e \in ReferralEdge :
     /\ Above(e.descendant)[e.level] = e.ancestor
     /\ e.status = IF e.descendant \in verified THEN "QUALIFIED" ELSE "PENDING"}

(* The closure table tells the truth about the tree, through every sign-up *)
(* that is replaced, expires or is deleted after it was verified, and      *)
(* every suspension, of a pending user too; nobody is above themselves;    *)
(* and only who was verified is ever active again, or above anybody.       *)
GraphIsTrue ==
  /\ edges = TrueEdges
  /\ \A u \in Users : \A n \in 1 .. Cardinality(Users) : Above(u)[n] # u
  /\ \A u \in Users :
       /\ status[u] = "active" => u \in verified
       /\ referrer[u] # Nobody => referrer[u] \in verified

(* A snapshot never shows more than what is really there, in any level or  *)
(* as income, however late it is written and whichever of two is written   *)
(* last: friends and rewards it showed once are never taken back, but by   *)
(* the deletion of a friend who verified while housekeeping was at work.   *)
SnapshotNeverAhead ==
  \A u \in Users \ undone :
    /\ \A l \in Levels : snapshot[u].counts[l] <= QualifiedCounts(u)[l]
    /\ snapshot[u].income <= Income(u)
=============================================================================
