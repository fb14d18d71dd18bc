---------------------------- MODULE Verification ----------------------------
(***************************************************************************)
(* Accounts and their Telegram verification: sign-up (which may replace a  *)
(* pending account), verification sessions, the bot's updates,             *)
(* verification.complete, suspension and the housekeeping that deletes     *)
(* expired sign-ups.                                                       *)
(*                                                                         *)
(* An action is a database transaction, except where the code decides on   *)
(* a row it read before it locked it: opening a session and a contact (the *)
(* user is read, then locked, and the lock does not refresh it) and        *)
(* housekeeping (expired accounts are read, then deleted by id).  Updates  *)
(* come at any time and any number of times, so a redelivered one needs no *)
(* action of its own; a lost or failed one is an update that never came or *)
(* Abort.                                                                  *)
(***************************************************************************)
EXTENDS Integers, Sequences, FiniteSets

CONSTANTS
  Phones,
  Telegrams,          \* Telegram accounts
  NumbersOf,          \* the numbers a Telegram account's own contact may show
  Bots,               \* verifier bots
  NoOne,              \* no Telegram account
  Handlers,           \* requests and updates handled concurrently
  Capacity,           \* campaign.capacity
  AccountLife,        \* pending_account_hours
  SessionLives,       \* values the admin may give verification_session_minutes
  MaxMismatches,      \* max_contact_mismatches
  ChannelsRequired,   \* whether any channel is required
  MaxTime,            \* bound: the clock stops here
  MaxUsers,           \* bound: accounts ever created
  MaxSessions         \* bound: verification sessions ever opened

ASSUME VerificationAssumption ==
  /\ DOMAIN NumbersOf = Telegrams
  /\ NoOne \notin Telegrams
  /\ AccountLife \in Nat \ {0}
  /\ SessionLives \subseteq Nat \ {0}
  /\ MaxMismatches \in Nat \ {0}
  /\ ChannelsRequired \in BOOLEAN
  /\ {Capacity, MaxTime, MaxUsers, MaxSessions} \subseteq Nat

VARIABLES
  now,
  users,      \* the users ever created, by id; a removed row is "DELETED"
  sessions,   \* telegram_verification_sessions, by id
  proofs,     \* telegram_verifications
  kept,       \* users that rewards, ledger accounts or friends refer to
  members,    \* membership_counter.verified_count
  gone,       \* bots that are failing or switched off
  handler,    \* what each handler in flight has read
  cleaning    \* what housekeeping has read

vars == <<now, users, sessions, proofs, kept, members, gone, handler, cleaning>>

Never == 0   \* pending_expires_at of an account that does not expire

UserRows == [phone : Phones, tg : Telegrams \cup {NoOne}, expires : Nat, verified : BOOLEAN,
             status : {"PENDING_VERIFICATION", "ACTIVE", "SUSPENDED", "DELETED"}]

OpenStatuses  == {"OPEN", "IN_PROGRESS"}
FinalStatuses == {"COMPLETED", "EXPIRED", "FAILED"}

SessionRows == [user : Nat, bot : Bots, tg : Telegrams \cup {NoOne}, confirmed : BOOLEAN,
                mismatches : 0 .. MaxMismatches, expires : Nat,
                status : OpenStatuses \cup FinalStatuses \cup {"DELETED"}]

Tasks == [op : {"idle", "open", "contact", "complete"}, user : Nat, session : Nat,
          tg : Telegrams \cup {NoOne}, expires : Nat]

Idle == [op |-> "idle", user |-> 0, session |-> 0, tg |-> NoOne, expires |-> Never]

NotCleaning == [on |-> FALSE, at |-> 0, ids |-> {}]

-----------------------------------------------------------------------------
UserIds    == DOMAIN users
SessionIds == DOMAIN sessions

Pending(i) == users[i].status = "PENDING_VERIFICATION"
Exists(i)  == users[i].status # "DELETED"

(* verification.is_open                                                    *)
Open(s) == sessions[s].status \in OpenStatuses /\ sessions[s].expires > now

SessionsOf(i) == {s \in SessionIds : sessions[s].user = i /\ sessions[s].status # "DELETED"}

Latest(S) == CHOOSE s \in S : \A r \in S : r <= s

(* FOR UPDATE locks held by contacts in flight.                            *)
SessionLocked(s) ==
  \E h \in Handlers : handler[h].op \in {"contact", "complete"} /\ handler[h].session = s

UserLocked(i) == \E h \in Handlers : handler[h].op = "complete" /\ handler[h].user = i

(* Nothing stops the user's row and the rows that cascade from it going.   *)
Deletable(i) == ~UserLocked(i) /\ \A s \in SessionsOf(i) : ~SessionLocked(s)

LinkedElsewhere(tg, i) == \E j \in UserIds : j # i /\ Exists(j) /\ users[j].tg = tg

(* The rows of the deleted users and what cascades from them.              *)
UsersWithout(ids) ==
  [i \in UserIds |-> IF i \in ids THEN [users[i] EXCEPT !.status = "DELETED"] ELSE users[i]]

SessionsWithout(ids, table) ==
  [s \in DOMAIN table |->
     IF table[s].user \in ids THEN [table[s] EXCEPT !.status = "DELETED"] ELSE table[s]]

ProofsWithout(ids) == {p \in proofs : p.user \notin ids}

-----------------------------------------------------------------------------
Init ==
  /\ now = 0
  /\ users = <<>>
  /\ sessions = <<>>
  /\ proofs = {}
  /\ kept = {}
  /\ members = 0
  /\ gone = {}
  /\ handler = [h \in Handlers |-> Idle]
  /\ cleaning = NotCleaning

Tick ==
  /\ now < MaxTime
  /\ now' = now + 1
  /\ UNCHANGED <<users, sessions, proofs, kept, members, gone, handler, cleaning>>

(* A bot fails, recovers, or is switched on or off.                        *)
BotChange(b) ==
  /\ gone' = IF b \in gone THEN gone \ {b} ELSE gone \cup {b}
  /\ UNCHANGED <<now, users, sessions, proofs, kept, members, handler, cleaning>>

(* auth.signup: an unverified account with the number is replaced, any     *)
(* other refuses the sign-up.                                              *)
SignUp(phone) ==
  LET taken == {i \in UserIds : Exists(i) /\ users[i].phone = phone}
      row   == [phone |-> phone, tg |-> NoOne, expires |-> now + AccountLife,
                verified |-> FALSE, status |-> "PENDING_VERIFICATION"]
  IN
  /\ Len(users) < MaxUsers
  /\ members < Capacity
  /\ \A i \in taken : Pending(i) /\ Deletable(i)
  /\ users' = Append(UsersWithout(taken), row)
  /\ sessions' = SessionsWithout(taken, sessions)
  /\ proofs' = ProofsWithout(taken)
  /\ UNCHANGED <<now, kept, members, gone, handler, cleaning>>

-----------------------------------------------------------------------------
(* POST /telegram/verification-session reads the user, whose expiry        *)
(* open_session goes on using ...                                          *)
AdmitOpen(h, i) ==
  /\ handler[h] = Idle
  /\ Pending(i)
  /\ handler' = [handler EXCEPT ![h] = [Idle EXCEPT !.op = "open", !.user = i,
                                                    !.expires = users[i].expires]]
  /\ UNCHANGED <<now, users, sessions, proofs, kept, members, gone, cleaning>>

(* ... and verification.open_session: the open session is returned if its  *)
(* bot can serve it, else it is closed and a new one opened, and the       *)
(* account lives at least as long.                                         *)
Reusable(s) == Open(s) /\ sessions[s].bot \notin gone

(* Seeded bug: an open session that cannot be used is left open.           *)
ClosedForNewLeft(old) == sessions

ClosedForNew(old) ==
  [s \in SessionIds |-> IF s \in old /\ sessions[s].status \in OpenStatuses
                        THEN [sessions[s] EXCEPT !.status = "EXPIRED"] ELSE sessions[s]]

(* Seeded bug: the account keeps the expiry it had.                        *)
ExtendedNever(seen, until, i) == users[i].expires

(* The expiry compared is the one read before the lock.                    *)
Extended(seen, until, i) ==
  IF seen = Never \/ seen < until THEN until ELSE users[i].expires

OpenSession(h) ==
  LET i   == handler[h].user
      old == IF SessionsOf(i) = {} THEN {} ELSE {Latest(SessionsOf(i))}
  IN
  /\ handler[h].op = "open"
  /\ Exists(i) /\ ~UserLocked(i)
  /\ \A s \in old : ~SessionLocked(s)
  /\ IF \E s \in old : Reusable(s)
     THEN UNCHANGED <<users, sessions>>
     ELSE \E b \in Bots \ gone, life \in SessionLives :
            /\ Len(sessions) < MaxSessions
            /\ sessions' = Append(ClosedForNew(old),
                 [user |-> i, bot |-> b, tg |-> NoOne, confirmed |-> FALSE, mismatches |-> 0,
                  expires |-> now + life, status |-> "OPEN"])
            /\ users' = [users EXCEPT ![i].expires = Extended(handler[h].expires, now + life, i)]
  /\ handler' = [handler EXCEPT ![h] = Idle]
  /\ UNCHANGED <<now, proofs, kept, members, gone, cleaning>>

-----------------------------------------------------------------------------
(* flow._on_start: the link names the session, whoever opens it last has   *)
(* it.                                                                     *)
Start(s, tg) ==
  LET confirmed == \/ sessions[s].confirmed /\ sessions[s].tg = tg
                   \/ ~ChannelsRequired
  IN
  /\ Open(s) /\ ~SessionLocked(s)
  /\ sessions' = [sessions EXCEPT ![s].tg = tg, ![s].confirmed = confirmed,
                                  ![s].status = "IN_PROGRESS"]
  /\ UNCHANGED <<now, users, proofs, kept, members, gone, handler, cleaning>>

(* flow._session_for finds this one.                                       *)
SessionFor(s, tg) ==
  /\ sessions[s].tg = tg
  /\ Open(s) /\ ~SessionLocked(s)
  /\ \A r \in SessionIds : /\ sessions[r].tg = tg
                           /\ sessions[r].bot = sessions[s].bot
                           /\ sessions[r].status \in OpenStatuses
                           => r <= s

(* flow._on_check with every channel joined.                               *)
CheckChannels(s, tg) ==
  /\ SessionFor(s, tg)
  /\ sessions' = [sessions EXCEPT ![s].confirmed = TRUE]
  /\ UNCHANGED <<now, users, proofs, kept, members, gone, handler, cleaning>>

(* flow._on_contact, a channel was left since.                             *)
ContactChannelLeft(s, tg) ==
  /\ SessionFor(s, tg)
  /\ sessions[s].confirmed /\ ChannelsRequired
  /\ sessions' = [sessions EXCEPT ![s].confirmed = FALSE]
  /\ UNCHANGED <<now, users, proofs, kept, members, gone, handler, cleaning>>

(* Seeded bug: one more wrong number than allowed.                         *)
ExhaustedLate(count) == count > MaxMismatches

Exhausted(count) == count >= MaxMismatches

(* flow._on_contact, the sender's own contact has another number.          *)
ContactMismatch(s, tg) ==
  LET count == sessions[s].mismatches + 1 IN
  /\ SessionFor(s, tg)
  /\ sessions[s].confirmed
  /\ \E number \in NumbersOf[tg] : number # users[sessions[s].user].phone
  /\ sessions' = [sessions EXCEPT ![s].mismatches = count,
                                  ![s].status = IF Exhausted(count) THEN "FAILED" ELSE @]
  /\ UNCHANGED <<now, users, proofs, kept, members, gone, handler, cleaning>>

OwnNumber(s, tg) == users[sessions[s].user].phone \in NumbersOf[tg]

(* flow._on_contact, the number is the account's: the session is locked    *)
(* and the user has been read, with whatever status it had.                *)
ContactMatches(h, s, tg) ==
  /\ handler[h] = Idle
  /\ SessionFor(s, tg)
  /\ sessions[s].confirmed
  /\ OwnNumber(s, tg)
  /\ Pending(sessions[s].user)
  /\ handler' = [handler EXCEPT ![h] = [op |-> "contact", user |-> sessions[s].user,
                                        session |-> s, tg |-> tg, expires |-> Never]]
  /\ UNCHANGED <<now, users, sessions, proofs, kept, members, gone, cleaning>>

(* Seeded bug: an account already linked to this Telegram is not looked    *)
(* for and nothing else stops a second link.                               *)
LinkFreeUnchecked(tg, i) == tg # NoOne

LinkFree(tg, i) == ~LinkedElsewhere(tg, i)

(* verification.complete, with the user's row locked; the status it checks *)
(* is the one read before.                                                 *)
LockUser(h) ==
  LET i == handler[h].user IN
  /\ handler[h].op = "contact"
  /\ ~UserLocked(i) /\ Exists(i)
  /\ handler' = [handler EXCEPT ![h] = IF Open(handler[h].session) /\ LinkFree(handler[h].tg, i)
                                       THEN [@ EXCEPT !.op = "complete"]
                                       ELSE Idle]
  /\ UNCHANGED <<now, users, sessions, proofs, kept, members, gone, cleaning>>

(* The rest of complete and its commit.  The unique telegram_user_id lets  *)
(* one of two accounts through.  Whether a reward is credited, which keeps *)
(* the row, is up to Payouts.                                              *)
Complete(h) ==
  LET i  == handler[h].user
      s  == handler[h].session
      tg == handler[h].tg
  IN
  /\ handler[h].op = "complete"
  /\ LinkFree(tg, i)
  /\ users' = [users EXCEPT ![i].status = "ACTIVE", ![i].verified = TRUE, ![i].tg = tg,
                            ![i].expires = Never]
  /\ sessions' = [sessions EXCEPT ![s].status = "COMPLETED"]
  /\ proofs' = proofs \cup {[user |-> i, tg |-> tg, session |-> s]}
  /\ kept' \in {kept, kept \cup {i}}
  /\ members' = members + 1
  /\ handler' = [handler EXCEPT ![h] = Idle]
  /\ UNCHANGED <<now, gone, cleaning>>

(* The transaction of a handler in flight rolls back; the webhook answers  *)
(* 200 all the same and the update is not sent again.                      *)
Abort(h) ==
  /\ handler[h] # Idle
  /\ handler' = [handler EXCEPT ![h] = Idle]
  /\ UNCHANGED <<now, users, sessions, proofs, kept, members, gone, cleaning>>

-----------------------------------------------------------------------------
(* admin user_suspend and user_unsuspend.                                  *)
Suspend(i) ==
  /\ Exists(i) /\ ~UserLocked(i)
  /\ users' = [users EXCEPT ![i].status = "SUSPENDED"]
  /\ UNCHANGED <<now, sessions, proofs, kept, members, gone, handler, cleaning>>

Unsuspend(i) ==
  /\ users[i].status = "SUSPENDED" /\ ~UserLocked(i)
  /\ users' = [users EXCEPT ![i].status =
                 IF users[i].verified THEN "ACTIVE" ELSE "PENDING_VERIFICATION"]
  /\ UNCHANGED <<now, sessions, proofs, kept, members, gone, handler, cleaning>>

(* Seeded bug: an account that ever had a session is passed over.          *)
ExpiredUntouched(at) == {i \in UserIds : Pending(i) /\ users[i].expires \in 1 .. at /\ SessionsOf(i) = {}}

(* worker.housekeeping: the expired sign-ups are read ...                  *)
Expired(at) == {i \in UserIds : Pending(i) /\ users[i].expires \in 1 .. at}

FindExpired ==
  /\ ~cleaning.on
  /\ cleaning' = [on |-> TRUE, at |-> now, ids |-> Expired(now)]
  /\ UNCHANGED <<now, users, sessions, proofs, kept, members, gone, handler>>

(* Seeded bug: sessions that are over already are closed again.            *)
ClosingAll(at) == {s \in SessionIds : sessions[s].status # "DELETED" /\ sessions[s].expires <= at}

(* ... and deleted by id, whatever they have become.  The deletion of a    *)
(* user other rows keep fails, with everything else housekeeping had to    *)
(* do.  Sessions past their time are closed.                               *)
Closing(at) == {s \in SessionIds : sessions[s].status \in OpenStatuses /\ sessions[s].expires <= at}

DeleteExpired ==
  LET ids == {i \in cleaning.ids : Exists(i)} IN
  /\ cleaning.on
  /\ \A i \in ids : Deletable(i)
  /\ \A s \in Closing(cleaning.at) : ~SessionLocked(s)
  /\ IF ids \cap kept = {}
     THEN /\ users' = UsersWithout(ids)
          /\ sessions' = SessionsWithout(ids,
               [s \in SessionIds |-> IF s \in Closing(cleaning.at)
                                     THEN [sessions[s] EXCEPT !.status = "EXPIRED"]
                                     ELSE sessions[s]])
          /\ proofs' = ProofsWithout(ids)
     ELSE UNCHANGED <<users, sessions, proofs>>
  /\ cleaning' = NotCleaning
  /\ UNCHANGED <<now, kept, members, gone, handler>>

(* Housekeeping fails (a lost connection, a deadlock) and is logged.       *)
CleaningFails ==
  /\ cleaning.on
  /\ cleaning' = NotCleaning
  /\ UNCHANGED <<now, users, sessions, proofs, kept, members, gone, handler>>

(* A verified user gets a ledger account, or a friend signs up.            *)
Keep(i) ==
  /\ Exists(i) /\ users[i].verified /\ ~UserLocked(i)
  /\ kept' = kept \cup {i}
  /\ UNCHANGED <<now, users, sessions, proofs, members, gone, handler, cleaning>>

-----------------------------------------------------------------------------
Update(s, tg) ==
  \/ Start(s, tg)
  \/ CheckChannels(s, tg)
  \/ ContactChannelLeft(s, tg)
  \/ ContactMismatch(s, tg)
  \/ \E h \in Handlers : ContactMatches(h, s, tg)

Step(h) == OpenSession(h) \/ LockUser(h) \/ Complete(h) \/ Abort(h)

Next ==
  \/ Tick
  \/ \E b \in Bots : BotChange(b)
  \/ \E phone \in Phones : SignUp(phone)
  \/ \E h \in Handlers : Step(h) \/ \E i \in UserIds : AdmitOpen(h, i)
  \/ \E s \in SessionIds, tg \in Telegrams : Update(s, tg)
  \/ \E i \in UserIds : Suspend(i) \/ Unsuspend(i) \/ Keep(i)
  \/ FindExpired
  \/ DeleteExpired
  \/ CleaningFails

Spec == Init /\ [][Next]_vars

(* The worker runs housekeeping every minute and does not fail for ever,   *)
(* every handler ends, and row locks are granted in turn, so a deletion    *)
(* that keeps becoming possible happens.                                   *)
Fairness ==
  /\ WF_vars(FindExpired)
  /\ SF_vars(DeleteExpired)
  /\ \A h \in Handlers : WF_vars(Step(h))

FairSpec == Spec /\ Fairness
-----------------------------------------------------------------------------
TypeOK ==
  /\ now \in Nat
  /\ users \in Seq(UserRows)
  /\ sessions \in Seq(SessionRows)
  /\ proofs \subseteq [user : UserIds, tg : Telegrams, session : SessionIds]
  /\ kept \subseteq UserIds
  /\ members \in Nat
  /\ gone \subseteq Bots
  /\ handler \in [Handlers -> Tasks]
  /\ cleaning \in [on : BOOLEAN, at : Nat, ids : SUBSET UserIds]

(* uq_telegram_verification_sessions_one_open: whatever is opened, closed  *)
(* and completed concurrently, a user has one open session at most.        *)
OneOpenSession ==
  \A r, s \in SessionIds :
    /\ sessions[r].user = sessions[s].user
    /\ {sessions[r].status, sessions[s].status} \subseteq OpenStatuses
    => r = s

(* Every account that is verified is so by a Telegram account that showed  *)
(* its number, through a session of its own, and no Telegram account       *)
(* stands behind two accounts (verification.complete), however links are   *)
(* forwarded, numbers change hands and contacts race.                      *)
LinkedByOwnNumber ==
  /\ \A i \in UserIds : Exists(i) /\ users[i].verified =>
       \E p \in proofs : p.user = i /\ p.tg = users[i].tg
  /\ \A p \in proofs : /\ users[p.user].phone \in NumbersOf[p.tg]
                       /\ sessions[p.session].user = p.user
                       /\ sessions[p.session].tg = p.tg
                       /\ sessions[p.session].status = "COMPLETED"
  /\ \A p, q \in proofs : p.tg = q.tg \/ p.user = q.user => p = q

(* "Keep the pending account alive while this session can still finish"    *)
(* (verification.open_session): a pending account never expires before its *)
(* open session, although the expiry it is compared with may be old.       *)
PendingOutlivesSession ==
  \A s \in SessionIds :
    LET i == sessions[s].user IN
    sessions[s].status \in OpenStatuses /\ Pending(i) => users[i].expires >= sessions[s].expires

(* A session that is over stays over until its user is deleted, it belongs *)
(* to one user and one bot, and wrong numbers are never forgotten.         *)
SessionsEnd ==
  [][\A s \in SessionIds :
       /\ s \in DOMAIN sessions'
       /\ sessions'[s].user = sessions[s].user /\ sessions'[s].bot = sessions[s].bot
       /\ sessions[s].status \in FinalStatuses
            => sessions'[s].status \in {sessions[s].status, "DELETED"}
       /\ sessions[s].status = "DELETED" => sessions'[s] = sessions[s]
       /\ sessions'[s].mismatches >= sessions[s].mismatches]_vars

Overdue(i) == i \in UserIds /\ Pending(i) /\ users[i].expires \in 1 .. now

(* "Pending accounts also expire ..., so nobody can reserve someone else's *)
(* number" (docs/PLAN.md): an expired sign-up does not stay, unless it     *)
(* is verified, suspended or given a new session first.                    *)
NumberFreed ==
  \A i \in 1 .. MaxUsers : []<>~Overdue(i)

(* "membership.verified_count is the real count of verified users"         *)
(* (docs/API.md): the counter is the number of verified accounts.          *)
CounterIsReal == members = Cardinality({i \in UserIds : Exists(i) /\ users[i].verified})

=============================================================================
