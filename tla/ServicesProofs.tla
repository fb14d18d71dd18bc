--------------------------- MODULE ServicesProofs ---------------------------
(* The four components of MCServices for every value of the constants: the *)
(* sign-ups and the referral tree are proved about in modules of their own *)
(* and are carried over; the bots and the launch gate are proved about     *)
(* here.  A component that is not in focus stands still.                   *)
EXTENDS MCServices, SignupsProofs, TLAPS

RP == INSTANCE ReferralsProofs WITH Users <- Friends \cup {Last}

-----------------------------------------------------------------------------
(* Part 1: a bot is not taken out of the pool too early, with any number   *)
(* of webhooks and any limit.                                              *)
(* What a row, or a copy of it, may say after so many error answers.       *)
Plausible(b) ==
  /\ b.failures <= errors
  /\ b.health = "FAILING" => errors >= FailingAfter

(* An error is marked in one copy.  A copy that counts it was loaded when  *)
(* there was one error less, so no copy is ever ahead of the answers; that *)
(* it holds of each column separately is what makes it survive a merge.    *)
Honest ==
  /\ B!TypeOK
  /\ Plausible(bot)
  /\ \A c \in Callers \cup {Probe} : Plausible(caller[c].base) /\ Plausible(caller[c].copy)

(* What the three marks make of a row.                                     *)
LEMMA Marks ==
  ASSUME B!BotsAssumption, NEW b \in B!TelegramBot
  PROVE  /\ B!mark_ok(b) = [b EXCEPT !.health = "HEALTHY", !.failures = 0, !.limit = "none"]
         /\ B!mark_ok(b) \in B!TelegramBot
         /\ B!mark_ok(b).health = "HEALTHY" /\ B!mark_ok(b).failures = 0
         /\ B!mark_ok(b).limit = "none"
         /\ B!rate_limited(b) \in B!TelegramBot
         /\ B!rate_limited(b).health = "RATE_LIMITED" /\ B!rate_limited(b).failures = b.failures
<1>1. 0 \in 0 .. MaxErrors
  BY DEF B!BotsAssumption
<1> QED BY <1>1 DEF B!mark_ok, B!rate_limited, B!TelegramBot

LEMMA HonestInit == ASSUME B!BotsAssumption PROVE B!Init => Honest
BY DEF B!BotsAssumption, B!Init, Honest, B!TypeOK, Plausible, B!Free, B!New, B!TelegramBot

LEMMA HonestStep == ASSUME B!BotsAssumption, Honest, [B!Next]_B!botVars PROVE Honest'
<1> USE DEF B!BotsAssumption, Honest
<1>1. CASE UNCHANGED B!botVars
  BY <1>1 DEF B!botVars, B!TypeOK, Plausible
<1>2. CASE B!Telegram
  BY <1>2 DEF B!Telegram, B!TypeOK, Plausible
<1>3. CASE B!LimitPasses \/ B!Toggle \/ B!register
  <2>1. 0 \in 0 .. MaxErrors /\ bot \in B!TelegramBot
    BY DEF B!TypeOK
  <2>2. /\ bot' \in B!TelegramBot /\ bot'.limit # "new"
        /\ bot'.failures \in {0, bot.failures}
        /\ bot'.health \in {"HEALTHY", bot.health}
    <3>1. CASE B!LimitPasses
      BY <2>1, <3>1 DEF B!LimitPasses, B!TypeOK, B!TelegramBot
    <3>2. CASE B!Toggle
      <4>1. CASE bot.enabled
        BY <2>1, <3>2, <4>1 DEF B!Toggle, B!TypeOK, B!TelegramBot
      <4>2. CASE ~bot.enabled
        <5>1. [bot EXCEPT !.enabled = TRUE] \in B!TelegramBot
          BY <2>1 DEF B!TelegramBot
        <5> QED BY <3>2, <4>2, <5>1, Marks DEF B!Toggle
      <4> QED BY <4>1, <4>2
    <3>3. CASE B!register
      BY <2>1, <3>3 DEF B!register, B!TypeOK, B!TelegramBot
    <3> QED BY <1>3, <3>1, <3>2, <3>3
  <2>3. UNCHANGED <<up, errors, caller>>
    BY <1>3 DEF B!LimitPasses, B!Toggle, B!register
  <2> QED BY <2>2, <2>3 DEF B!TypeOK, Plausible
<1>4. ASSUME NEW c \in Callers \cup {Probe},
             B!Load(c) \/ B!CallOk(c) \/ B!CallLimited(c)
      PROVE  Honest'
  <2> DEFINE copy == caller[c].copy
  <2>1. copy \in B!TelegramBot /\ Plausible(copy) /\ errors \in Nat
    BY DEF B!TypeOK
  <2>2. CASE B!Load(c)
    BY <1>4, <2>2 DEF B!Load, B!TypeOK, Plausible
  <2>3. CASE B!CallOk(c)
    <3>1. B!marked_ok(copy) \in B!TelegramBot /\ Plausible(B!marked_ok(copy))
      <4>1. B!mark_ok(copy) \in B!TelegramBot /\ Plausible(B!mark_ok(copy))
        <5> HIDE DEF copy
        <5>1. /\ B!mark_ok(copy) \in B!TelegramBot
              /\ B!mark_ok(copy).health = "HEALTHY" /\ B!mark_ok(copy).failures = 0
          BY <2>1, Marks
        <5> QED BY <2>1, <5>1 DEF Plausible
      <4>2. B!marked_ok(copy) \in {copy, B!mark_ok(copy)}
        BY DEF B!marked_ok
      <4> QED BY <2>1, <4>1, <4>2
    <3>2. caller' = [caller EXCEPT ![c].copy = B!marked_ok(copy)] /\ UNCHANGED <<up, errors, bot>>
      BY <2>3 DEF B!CallOk
    <3> QED BY <3>1, <3>2 DEF B!TypeOK, Plausible
  <2>4. CASE B!CallLimited(c)
    <3>1. B!rate_limited(copy) \in B!TelegramBot /\ Plausible(B!rate_limited(copy))
      BY <2>1, Marks DEF Plausible
    <3>2. caller' = [caller EXCEPT ![c].copy = B!rate_limited(copy)] /\ UNCHANGED <<up, errors, bot>>
      BY <2>4 DEF B!CallLimited
    <3> QED BY <3>1, <3>2 DEF B!TypeOK, Plausible
  <2> QED BY <1>4, <2>2, <2>3, <2>4
<1>5. ASSUME NEW c \in Callers \cup {Probe}, B!CallError(c)
      PROVE  Honest'
  <2> DEFINE copy == caller[c].copy
  <2>1. /\ errors \in Nat /\ errors' = errors + 1 /\ errors' \in 0 .. MaxErrors
        /\ up' = up /\ bot' = bot
        /\ copy \in B!TelegramBot /\ Plausible(copy)
    BY <1>5 DEF B!CallError, B!TypeOK
  <2>2. copy.failures \in Nat /\ copy.failures <= errors
    BY <2>1 DEF B!TelegramBot, Plausible
  <2>3. /\ B!mark_error(copy).failures = copy.failures + 1
        /\ B!mark_error(copy).health \in {"FAILING", copy.health}
        /\ B!mark_error(copy).health = "FAILING" =>
             copy.failures + 1 >= FailingAfter \/ copy.health = "FAILING"
    BY <2>1 DEF B!mark_error, B!TelegramBot
  <2>4. B!mark_error(copy) \in B!TelegramBot
    <3>1. copy.failures + 1 \in 0 .. MaxErrors
      BY <2>1, <2>2
    <3> QED BY <2>1, <3>1 DEF B!mark_error, B!TelegramBot
  <2>5. /\ B!mark_error(copy).failures <= errors'
        /\ B!mark_error(copy).health = "FAILING" => errors' >= FailingAfter
    BY <2>1, <2>2, <2>3 DEF Plausible
  <2>6. caller' = [caller EXCEPT ![c].copy = B!mark_error(copy)]
    BY <1>5 DEF B!CallError
  <2>7. B!TypeOK'
    BY <2>1, <2>4, <2>6 DEF B!TypeOK
  <2>8. \A b \in B!TelegramBot : Plausible(b) => Plausible(b)'
    BY <2>1 DEF Plausible, B!TelegramBot
  <2> QED BY <2>1, <2>5, <2>6, <2>7, <2>8 DEF B!TypeOK, Plausible
<1>6. ASSUME NEW c \in Callers \cup {Probe}, NEW goesOn \in BOOLEAN, B!Commit(c, goesOn)
      PROVE  Honest'
  <2>1. caller[c].base \in B!TelegramBot /\ caller[c].copy \in B!TelegramBot
    BY DEF B!TypeOK
  <2>2. /\ bot'.enabled \in {bot.enabled, caller[c].copy.enabled}
        /\ bot'.health \in {bot.health, caller[c].copy.health}
        /\ bot'.failures \in {bot.failures, caller[c].copy.failures}
        /\ bot'.limit \in {bot.limit, B!Written(caller[c].copy).limit}
        /\ bot' \in B!TelegramBot /\ bot'.limit # "new"
    BY <1>6, <2>1 DEF B!Commit, B!Merged, B!Written, B!TypeOK, B!TelegramBot
  <2>3. /\ B!Written(caller[c].copy) \in B!TelegramBot
        /\ B!Written(caller[c].copy).failures = caller[c].copy.failures
        /\ B!Written(caller[c].copy).health = caller[c].copy.health
    BY <2>1 DEF B!Written, B!TelegramBot
  <2>4. Plausible(bot)'
    BY <1>6, <2>2 DEF B!Commit, Plausible
  <2>5. \A d \in Callers \cup {Probe} :
          Plausible(caller[d].base)' /\ Plausible(caller[d].copy)'
    BY <1>6, <2>3 DEF B!Commit, Plausible, B!Free, B!New, B!TypeOK
  <2>6. B!TypeOK'
    BY <1>6, <2>2, <2>3 DEF B!Commit, B!TypeOK, B!Free, B!New, B!TelegramBot
  <2> QED BY <2>4, <2>5, <2>6
<1>7. ASSUME NEW c \in Callers \cup {Probe}, B!Rollback(c) PROVE Honest'
  <2>1. B!Free.base \in B!TelegramBot /\ B!Free.copy \in B!TelegramBot /\ B!Free.busy = FALSE
    BY DEF B!Free, B!New, B!TelegramBot
  <2>2. Plausible(B!Free.base) /\ Plausible(B!Free.copy)
    BY DEF B!Free, B!New, Plausible, B!TypeOK
  <2>3. caller' = [caller EXCEPT ![c] = B!Free] /\ UNCHANGED <<up, errors, bot>>
    BY <1>7 DEF B!Rollback
  <2>4. B!TypeOK'
    BY <2>1, <2>3 DEF B!TypeOK, B!Free
  <2> QED BY <2>2, <2>3, <2>4 DEF B!TypeOK, Plausible
<1> QED BY <1>1, <1>2, <1>3, <1>4, <1>5, <1>6, <1>7 DEF B!Next

-----------------------------------------------------------------------------
(* Part 2: nobody passes the gate for another account, with any number of  *)
(* users, processes, nonces and crossings.                                 *)
(* A nonce in Redis is the one that was minted, and one a crossing deleted *)
(* is never minted again.                                                  *)
NoncesOK ==
  \A n \in Nonces :
    /\ owner[n] # Nobody => minted[n] = owner[n]
    /\ n \in spent => owner[n] = Nobody /\ minted[n] # Nobody

(* A crossing past its reads belongs to the user its nonce was minted for, *)
(* and past its delete the nonce is spent: the pass it is about to write   *)
(* cannot lose its ground, whatever another crossing does with the nonce.  *)
CrossingsOK ==
  \A x \in Crossings :
    LET n == crossing[x].nonce IN
    /\ crossing[x] # G!Absent => crossing[x].user \in Verified /\ n \in Nonces
    /\ crossing[x].step # "match" => minted[n] = crossing[x].user
    /\ crossing[x].step = "deleted" => n \in spent

Gate == G!TypeOK /\ NoncesOK /\ CrossingsOK /\ G!PassIsOwn

LEMMA GateInit == ASSUME G!LaunchGateAssumption PROVE G!Init => Gate
<1> SUFFICES ASSUME G!Init PROVE Gate
  OBVIOUS
<1>1. G!TypeOK
  BY DEF G!Init, G!TypeOK, G!Absent
<1>2. NoncesOK /\ G!PassIsOwn
  BY DEF G!Init, NoncesOK, G!PassIsOwn
<1>3. CrossingsOK
  BY DEF G!Init, CrossingsOK, G!Absent
<1> QED BY <1>1, <1>2, <1>3 DEF Gate

(* Settings, watchers, suspensions and copies of the setting touch neither *)
(* nonce nor pass.                                                         *)
LEMMA SettingsKeepGate ==
  ASSUME G!LaunchGateAssumption, Gate,
         \/ G!ToggleWatcher
         \/ \E proc \in Procs : G!LoadGate(proc) \/ G!CacheExpires(proc)
         \/ \E proc \in Procs, value \in {"on", "off"} : G!StoreGate(proc, value)
         \/ \E proc \in Procs, on \in BOOLEAN : G!SettingsSave(proc, on)
         \/ \E u \in Verified : G!Suspend(u) \/ G!Unsuspend(u)
         \/ UNCHANGED G!gateVars
  PROVE  Gate'
<1> USE DEF Gate
<1>1. UNCHANGED <<owner, minted, pass, spent, crossing>>
  BY DEF G!ToggleWatcher, G!LoadGate, G!CacheExpires, G!StoreGate, G!SettingsSave, G!Suspend, G!Unsuspend, G!gateVars
<1>2. G!TypeOK'
  <2>1. /\ gate' \in BOOLEAN /\ watcher' \in BOOLEAN
        /\ suspended' \subseteq Verified
    BY DEF G!TypeOK, G!ToggleWatcher, G!LoadGate, G!CacheExpires, G!StoreGate, G!SettingsSave, G!Suspend,
           G!Unsuspend, G!gateVars
  <2>2. cache' \in [Procs -> {"none", "on", "off"}]
    BY DEF G!TypeOK, G!ToggleWatcher, G!LoadGate, G!CacheExpires, G!StoreGate, G!SettingsSave, G!Suspend,
           G!Unsuspend, G!gateVars
  <2>3. loading' \in [Procs -> SUBSET {"on", "off"}]
    BY DEF G!TypeOK, G!ToggleWatcher, G!LoadGate, G!CacheExpires, G!StoreGate, G!SettingsSave, G!Suspend,
           G!Unsuspend, G!gateVars
  <2> QED BY <1>1, <2>1, <2>2, <2>3 DEF G!TypeOK
<1>3. NoncesOK' /\ CrossingsOK' /\ G!PassIsOwn'
  BY <1>1 DEF NoncesOK, CrossingsOK, G!PassIsOwn
<1> QED BY <1>2, <1>3

LEMMA TimersKeepGate ==
  ASSUME G!LaunchGateAssumption, Gate,
         \/ \E u \in Verified : G!PassExpires(u)
         \/ \E n \in Nonces : G!NonceExpires(n)
  PROVE  Gate'
BY DEF Gate, G!TypeOK, NoncesOK, CrossingsOK, G!PassIsOwn, G!PassExpires, G!NonceExpires

LEMMA ChallengeKeepsGate ==
  ASSUME G!LaunchGateAssumption, Gate, NEW u \in Verified, NEW n \in Nonces, G!Challenge(u, n)
  PROVE  Gate'
<1> USE DEF Gate, G!Challenge, G!LaunchGateAssumption
<1>1. G!TypeOK' BY DEF G!TypeOK
<1>2. NoncesOK' BY DEF G!TypeOK, NoncesOK
<1>3. CrossingsOK'
  <2> SUFFICES ASSUME NEW x \in Crossings
               PROVE  LET m == crossing[x].nonce IN
                      /\ crossing[x] # G!Absent => crossing[x].user \in Verified /\ m \in Nonces
                      /\ crossing[x].step # "match" => minted'[m] = crossing[x].user
                      /\ crossing[x].step = "deleted" => m \in spent
    BY DEF CrossingsOK
  <2>1. crossing[x].step # "match" => crossing[x].nonce # n
    BY DEF CrossingsOK, G!Absent
  <2> QED BY <2>1 DEF CrossingsOK, G!TypeOK
<1>4. G!PassIsOwn' BY DEF G!TypeOK, G!PassIsOwn, NoncesOK
<1> QED BY <1>1, <1>2, <1>3, <1>4

LEMMA CrossingKeepsGate ==
  ASSUME G!LaunchGateAssumption, Gate, NEW x \in Crossings,
         \/ \E u \in Verified, n \in Nonces : G!Match(x, u, n)
         \/ G!GetNonce(x) \/ G!DeleteNonce(x) \/ G!SetPass(x) \/ G!CrossingFails(x)
  PROVE  Gate'
<1> USE DEF Gate, G!LaunchGateAssumption
<1>1. CASE \E u \in Verified, n \in Nonces : G!Match(x, u, n)
  BY <1>1 DEF G!Match, G!TypeOK, NoncesOK, CrossingsOK, G!PassIsOwn, G!Absent
<1>2. CASE G!GetNonce(x)
  BY <1>2 DEF G!GetNonce, G!Accepted, G!TypeOK, NoncesOK, CrossingsOK, G!PassIsOwn, G!Absent
<1>3. CASE G!DeleteNonce(x)
  BY <1>3 DEF G!DeleteNonce, G!TypeOK, NoncesOK, CrossingsOK, G!PassIsOwn, G!Absent
<1>4. CASE G!SetPass(x)
  BY <1>4 DEF G!SetPass, G!TypeOK, NoncesOK, CrossingsOK, G!PassIsOwn, G!Absent
<1>5. CASE G!CrossingFails(x)
  BY <1>5 DEF G!CrossingFails, G!TypeOK, NoncesOK, CrossingsOK, G!PassIsOwn, G!Absent
<1> QED BY <1>1, <1>2, <1>3, <1>4, <1>5

LEMMA GateStep == ASSUME G!LaunchGateAssumption, Gate, [G!Next]_G!gateVars PROVE Gate'
BY SettingsKeepGate, TimersKeepGate, ChallengeKeepsGate, CrossingKeepsGate DEF G!Next

-----------------------------------------------------------------------------
(* Part 3: the referral tree, whose proofs are for any set of users, with  *)
(* the friends and one user more.  R and RP say the same of it.            *)
LEMMA SameSizes == \A S : /\ R!IsFiniteSet(S) <=> RP!IsFiniteSet(S)
                         /\ R!Cardinality(S) = RP!Cardinality(S)
BY DEF R!IsFiniteSet, RP!IsFiniteSet, R!Cardinality, RP!Cardinality

LEMMA SameStart ==
  /\ R!ReferralsAssumption <=> RP!ReferralsAssumption
  /\ R!Init <=> RP!Init
BY SameSizes DEF R!ReferralsAssumption, RP!ReferralsAssumption, R!Init, RP!Init,
                 R!NoSnapshot, RP!NoSnapshot, R!Zero, RP!Zero, R!Levels, RP!Levels,
                 R!Free, RP!Free

LEMMA SameSteps == [R!Next]_R!referralVars <=> [RP!Next]_RP!referralVars
BY DEF R!Cardinality, RP!Cardinality, R!Next, RP!Next, R!referralVars, RP!referralVars,
       R!SignUp, RP!SignUp, R!FindExpired, RP!FindExpired, R!DeleteExpired,
       RP!DeleteExpired, R!CleaningFails, RP!CleaningFails, R!Verify, RP!Verify,
       R!Suspend, RP!Suspend, R!Unsuspend, RP!Unsuspend, R!DayPasses, RP!DayPasses,
       R!FirstVisit, RP!FirstVisit, R!Visit, RP!Visit, R!SnapshotRefresh,
       RP!SnapshotRefresh, R!Upsert, RP!Upsert, R!Referred, RP!Referred, R!UpTo,
       RP!UpTo, R!Direct, RP!Direct, R!Shifted, RP!Shifted, R!bind, RP!bind, R!qualify,
       RP!qualify, R!Pending, RP!Pending, R!Free, RP!Free, R!NoSnapshot, RP!NoSnapshot,
       R!Zero, RP!Zero, R!Levels, RP!Levels, R!QualifiedCounts, RP!QualifiedCounts,
       R!Income, RP!Income

LEMMA SameClaims ==
  /\ R!TypeOK <=> RP!TypeOK
  /\ R!GraphIsTrue <=> RP!GraphIsTrue
  /\ R!SnapshotNeverAhead <=> RP!SnapshotNeverAhead
<1>1. R!TypeOK <=> RP!TypeOK
  BY SameSizes DEF R!TypeOK, RP!TypeOK, R!ReferralEdge, RP!ReferralEdge,
                   R!ReferralSnapshot, RP!ReferralSnapshot, R!Counts, RP!Counts,
                   R!Levels, RP!Levels
<1>2. R!GraphIsTrue <=> RP!GraphIsTrue
  BY SameSizes DEF R!GraphIsTrue, RP!GraphIsTrue, R!TrueEdges, RP!TrueEdges,
                   R!ReferralEdge, RP!ReferralEdge, R!Levels, RP!Levels, R!Above, RP!Above
<1>3. R!SnapshotNeverAhead <=> RP!SnapshotNeverAhead
  BY SameSizes DEF R!SnapshotNeverAhead, RP!SnapshotNeverAhead, R!QualifiedCounts,
                   RP!QualifiedCounts, R!Income, RP!Income, R!Levels, RP!Levels
<1> QED BY <1>1, <1>2, <1>3

LEMMA TreeStarts == ASSUME R!ReferralsAssumption, R!Init PROVE RP!Told
BY SameStart, RP!TreeInit, RP!SnapshotsInit DEF RP!Told

LEMMA TreeSteps ==
  ASSUME R!ReferralsAssumption, RP!Told, [R!Next]_R!referralVars
  PROVE  RP!Told'
BY SameStart, SameSteps, RP!ToldStep

LEMMA TreeClaims ==
  ASSUME R!ReferralsAssumption, RP!Told
  PROVE  R!TypeOK /\ R!GraphIsTrue /\ R!SnapshotNeverAhead
BY SameStart, SameClaims, RP!GraphFollows, RP!ToldMeans DEF RP!Told

-----------------------------------------------------------------------------
(* Part 4: the four together.                                              *)
Services == SignupInv /\ RP!Told /\ Honest /\ Gate

(* A step of the four is a step of each, or leaves it alone.               *)
LEMMA StepOfEach ==
  ASSUME [MCNext]_MCvars
  PROVE  /\ [Next]_signupVars /\ [R!Next]_R!referralVars
         /\ [B!Next]_B!botVars /\ [G!Next]_G!gateVars
<1> USE DEF tree, snapshots, bots, caches, crossings, R!referralVars, B!botVars, G!gateVars
<1>1. CASE UNCHANGED MCvars
  BY <1>1 DEF MCvars
<1>2. CASE SignupsNext
  BY <1>2 DEF SignupsNext
<1>3. CASE TreeNext
  BY <1>3 DEF TreeNext
<1>4. CASE SnapshotsNext
  BY <1>4 DEF SnapshotsNext
<1>5. CASE BotsNext
  BY <1>5 DEF BotsNext
<1>6. CASE CachesNext
  BY <1>6 DEF CachesNext
<1>7. CASE CrossingsNext
  BY <1>7 DEF CrossingsNext
<1> QED BY <1>1, <1>2, <1>3, <1>4, <1>5, <1>6, <1>7 DEF MCNext

LEMMA AlwaysServices == MCSpec => []Services
<1>1. MCInit => Services
  BY ServicesAssumption, StartKept, TreeStarts, HonestInit, GateInit DEF MCInit, Services
<1>2. Services /\ [MCNext]_MCvars => Services'
  BY ServicesAssumption, StepOfEach, StepKept, TreeSteps, HonestStep, GateStep DEF Services
<1> QED BY <1>1, <1>2, PTL DEF MCSpec

(* Every reachable state of the four is of its type.                       *)
THEOREM ServicesTyping == MCSpec => []AllTyped
<1>1. Services => AllTyped
  BY ServicesAssumption, TreeClaims DEF Services, AllTyped, SignupInv, Honest, Gate
<1> QED BY AlwaysServices, <1>1, PTL

(* bots.mark_error: FAILING_AFTER failures are really that many, although  *)
(* webhooks and the probe write back copies that are out of date.          *)
THEOREM FailingIsEarned == MCSpec => []FailsOnlyByErrors
<1>1. Services => FailsOnlyByErrors
  BY DEF Services, Honest, Plausible, FailsOnlyByErrors, B!FailsOnlyByErrors
<1> QED BY AlwaysServices, <1>1, PTL

(* A pass was had with a nonce of its own user, which is gone for good:    *)
(* launch_gate.complete checks before it deletes, in separate Redis calls. *)
THEOREM OwnPass == MCSpec => []PassIsOwn
<1>1. Services => PassIsOwn
  BY DEF Services, Gate, PassIsOwn
<1> QED BY AlwaysServices, <1>1, PTL

(* referral_edges says of each user exactly who is above them, at what     *)
(* level and whether verified, through replaced, expired and deleted       *)
(* sign-ups and suspensions, of users who never verified too.              *)
THEOREM TreeIsTold == MCSpec => []GraphIsTrue
<1>1. Services => GraphIsTrue
  BY ServicesAssumption, TreeClaims DEF Services, GraphIsTrue
<1> QED BY AlwaysServices, <1>1, PTL

(* referrals.compute_snapshot reads twice and writes last, and a snapshot  *)
(* never shows a friend or a reward too many all the same.                 *)
THEOREM NeverAhead == MCSpec => []SnapshotNeverAhead
<1>1. Services => SnapshotNeverAhead
  BY ServicesAssumption, TreeClaims DEF Services, SnapshotNeverAhead
<1> QED BY AlwaysServices, <1>1, PTL
=============================================================================
