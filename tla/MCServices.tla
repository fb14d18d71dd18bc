----------------------------- MODULE MCServices -----------------------------
(***************************************************************************)
(* Four components that share no state: sign-ups, the referral tree, the   *)
(* health of a bot and the launch gate.  Each behaviour works on one of    *)
(* them, its "focus", and leaves the others as they began.  The tree is    *)
(* looked at alone, with one user more and suspensions, and with rewards   *)
(* and snapshots; the gate as its settings and copies of them, and as the  *)
(* crossings.                                                              *)
(***************************************************************************)
EXTENDS Signups

CONSTANTS
  Nobody, p, q, w1, w2, k1, k2, x1, x2, x3,         \* sign-ups
  Friends, Last, Viewers, Expiring, MaxLevel, Computes,       \* referrals
  Callers, Probe, FailingAfter, MaxErrors,          \* bots
  Procs, Nonces, Crossings, Verified                \* launch gate

VARIABLES
  focus,
  status, verified, referrer, edges, rewarded, snapshot, refresh, compute, expired, undone,
  up, errors, bot, caller,
  gate, watcher, suspended, cache, loading, owner, minted, pass, spent, crossing

(* One number twice with the right captcha, once more with another, once   *)
(* from somebody else, and the key of the first form with another number.  *)
MCForms ==
  {[phone |-> p, password |-> w1, key |-> k1, captcha |-> x1],
   [phone |-> p, password |-> w1, key |-> k1, captcha |-> x2],
   [phone |-> p, password |-> w2, key |-> k2, captcha |-> x2],
   [phone |-> p, password |-> w2, key |-> k2, captcha |-> x3],
   [phone |-> q, password |-> w1, key |-> k1, captcha |-> x2]}

R == INSTANCE Referrals WITH Users <- Friends \cup {Last}
B == INSTANCE Bots
G == INSTANCE LaunchGate WITH Users <- Verified

ASSUME ServicesAssumption ==
  R!ReferralsAssumption /\ B!BotsAssumption /\ G!LaunchGateAssumption

tree == <<status, verified, referrer, edges, rewarded, snapshot, expired, undone>>
snapshots == <<refresh, compute>>
bots == <<up, errors, bot, caller>>
caches == <<gate, watcher, cache, loading>>
crossings == <<suspended, owner, minted, pass, spent, crossing>>

MCvars == <<focus, signupVars, tree, snapshots, bots, caches, crossings>>

MCInit ==
  /\ focus \in {"signups", "tree", "snapshots", "bots", "caches", "crossings"}
  /\ Init /\ R!Init /\ B!Init /\ G!Init

SignupsNext ==
  /\ focus = "signups" /\ Next
  /\ UNCHANGED <<focus, tree, snapshots, bots, caches, crossings>>

(* The tree without rewards; bound: one user at a time is suspended.       *)
TreeNext ==
  /\ focus = "tree" /\ R!Next
  /\ snapshots' = snapshots /\ rewarded' = rewarded
  /\ \A u, v \in Friends \cup {Last} : status'[u] = "suspended" /\ status'[v] = "suspended" => u = v
  /\ UNCHANGED <<focus, signupVars, bots, caches, crossings>>

SnapshotsNext ==
  /\ focus = "snapshots" /\ R!Next
  /\ status'[Last] = "none" /\ \A u \in Friends : status'[u] # "suspended"
  /\ UNCHANGED <<focus, signupVars, bots, caches, crossings>>

BotsNext ==
  /\ focus = "bots" /\ B!Next
  /\ UNCHANGED <<focus, signupVars, tree, snapshots, caches, crossings>>

CachesNext ==
  /\ focus = "caches" /\ G!Next
  /\ crossings' = crossings
  /\ UNCHANGED <<focus, signupVars, tree, snapshots, bots>>

CrossingsNext ==
  /\ focus = "crossings" /\ G!Next
  /\ <<cache, loading>>' = <<cache, loading>>
  /\ UNCHANGED <<focus, signupVars, tree, snapshots, bots>>

MCNext ==
  SignupsNext \/ TreeNext \/ SnapshotsNext \/ BotsNext \/ CachesNext \/ CrossingsNext

(* The fairness of each component, while it is the one that moves.         *)
MCFairness ==
  /\ \A c \in Calls : SF_signupVars(focus = "signups" /\ Step(c))
  /\ WF_bots(focus = "bots" /\ B!LimitPasses)
  /\ WF_bots(focus = "bots" /\ B!Load(Probe))
  /\ WF_bots(focus = "bots" /\ B!CallOk(Probe))
  /\ SF_bots(focus = "bots" /\ B!Commit(Probe, FALSE))
  /\ \A c \in Callers : WF_bots(focus = "bots" /\ B!Commit(c, FALSE))
  /\ \A proc \in Procs :
       /\ WF_caches(focus = "caches" /\ G!CacheExpires(proc))
       /\ \A value \in {"on", "off"} : WF_caches(focus = "caches" /\ G!StoreGate(proc, value))

MCSpec == MCInit /\ [][MCNext]_MCvars /\ MCFairness

(* The type invariants of the four.                                        *)
AllTyped ==
  /\ focus = "signups" => TypeOK
  /\ focus \in {"tree", "snapshots"} => R!TypeOK
  /\ focus = "bots" => B!TypeOK
  /\ focus \in {"caches", "crossings"} => G!TypeOK

(* The closure table agrees with the chain of referrers.                   *)
GraphIsTrue == focus \in {"tree", "snapshots"} => R!GraphIsTrue

(* Snapshots never show more than there is.                                *)
SnapshotNeverAhead == focus = "snapshots" => R!SnapshotNeverAhead

(* No failure of a bot is counted twice.                                   *)
FailsOnlyByErrors == focus = "bots" => B!FailsOnlyByErrors

(* A bot comes back when Telegram answers it again.                        *)
BotRecovers == B!Recovers

(* Nobody passes the gate for another account.                             *)
PassIsOwn == focus = "crossings" => G!PassIsOwn

(* A saved setting of the gate reaches every process.                      *)
GateConverges == G!GateConverges
=============================================================================
