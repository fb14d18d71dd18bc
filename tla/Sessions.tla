------------------------------ MODULE Sessions ------------------------------
(***************************************************************************)
(* Logins: short access tokens, refresh tokens that rotate, the app that   *)
(* keeps one pair of them, and the suspension that revokes them.           *)
(*                                                                         *)
(* A call is one slot of "call" for its whole life: on its way, being      *)
(* handled, answered.  The app may stop waiting for it (a timeout, no      *)
(* connection, the app killed) and the server handles it all the same.     *)
(***************************************************************************)
EXTENDS Integers, Sequences, FiniteSets

CONSTANTS
  Users,
  Devices,       \* installed apps
  Owner,         \* Owner[d]: who logs in on d
  Calls,         \* bound: calls in flight at once
  AccessTime,    \* access_token_minutes
  RefreshTime,   \* refresh_token_days
  MaxTime,       \* bound: the clock stops here
  MaxSessions,   \* bound: auth_sessions rows ever created
  MaxLost        \* bound: calls an app stops waiting for

ASSUME SessionsAssumption ==
  /\ Devices # {} /\ IsFiniteSet(Calls)
  /\ Owner \in [Devices -> Users]
  /\ {AccessTime, RefreshTime, MaxTime, MaxSessions, MaxLost} \subseteq Nat

VARIABLES
  now,        \* timeutil.now()
  suspended,  \* the users whose status is SUSPENDED
  sessions,   \* auth_sessions rows; the index is the id
  device,     \* what each app stores and shows
  call,       \* calls in flight
  lost,       \* calls an app stopped waiting for
  alarms      \* families revoked because a refresh token came twice

vars == <<now, suspended, sessions, device, call, lost, alarms>>

Ids == DOMAIN sessions

AuthSession == [user : Users, family : Nat, parent : Nat, issued : Nat,
                rotated : BOOLEAN, revoked : BOOLEAN]

Apps == [store : 0..MaxSessions, in : BOOLEAN]

Slots == [kind : {"none", "login", "refresh", "logout"}, dev : Devices,
          step : {"sent", "commit", "revoke", "wait", "answer"}, token : 0..MaxSessions,
          seen : SUBSET (1..MaxSessions), reply : {"none", "ok", "refused", "failed"},
          got : 0..MaxSessions, wanted : BOOLEAN]

Free == [kind |-> "none", dev |-> CHOOSE d \in Devices : TRUE, step |-> "sent",
         token |-> 0, seen |-> {}, reply |-> "none", got |-> 0, wanted |-> FALSE]

-----------------------------------------------------------------------------
(* What the code reads.                                                    *)
Live(s) == ~sessions[s].revoked

Authenticates(s) == Live(s) /\ sessions[s].issued + AccessTime > now

LiveOf(family) == {s \in Ids : sessions[s].family = family /\ Live(s)}

Family(c) == sessions[call[c].token].family

LockedNever(s) == FALSE  \* seeded bug: the refresh takes no row lock

(* The row a refresh holds FOR UPDATE until it commits.                    *)
Locked(s) == \E c \in Calls :
  call[c].kind = "refresh" /\ call[c].step = "commit" /\ call[c].token = s

WaitingNever(d, kind) == FALSE  \* seeded bug: every answer starts a refresh

Waiting(d, kind) == \E c \in Calls :
  call[c].dev = d /\ call[c].kind = kind /\ call[c].wanted

At(c, kind, step) == call[c].kind = kind /\ call[c].step = step

Revoked(set) ==
  [s \in Ids |-> IF s \in set THEN [sessions[s] EXCEPT !.revoked = TRUE] ELSE sessions[s]]

Issued(user, family, parent) ==
  [user |-> user, family |-> family, parent |-> parent, issued |-> now,
   rotated |-> FALSE, revoked |-> FALSE]

-----------------------------------------------------------------------------
(* Calls.                                                                  *)
Send(c, kind, d) ==
  /\ call[c] = Free
  /\ ~Waiting(d, kind)
  /\ call' = [call EXCEPT ![c] =
       [Free EXCEPT !.kind = kind, !.dev = d, !.token = device[d].store, !.wanted = TRUE]]

(* Nobody reads the answer of a call its app no longer waits for.          *)
Answer(c, reply, got) ==
  call' = [call EXCEPT ![c] = IF call[c].wanted
             THEN [Free EXCEPT !.kind = call[c].kind, !.dev = call[c].dev, !.step = "answer",
                               !.reply = reply, !.got = got, !.wanted = TRUE]
             ELSE Free]

Goto(c, step) == call' = [call EXCEPT ![c].step = step]

-----------------------------------------------------------------------------
Init ==
  /\ now = 0
  /\ suspended = {}
  /\ sessions = <<>>
  /\ device = [d \in Devices |-> [store |-> 0, in |-> FALSE]]
  /\ call = [c \in Calls |-> Free]
  /\ lost = 0
  /\ alarms = 0

Tick ==
  /\ now < MaxTime
  /\ now' = now + 1
  /\ UNCHANGED <<suspended, sessions, device, call, lost, alarms>>

-----------------------------------------------------------------------------
(* Login: the status is read in one transaction, the session issued in a   *)
(* later one from the same copy of the user.                               *)
Login(d, c) ==
  /\ ~device[d].in
  /\ Send(c, "login", d)
  /\ UNCHANGED <<now, suspended, sessions, device, lost, alarms>>

AdmitLogin(c) ==
  /\ At(c, "login", "sent")
  /\ IF Owner[call[c].dev] \in suspended THEN Answer(c, "failed", 0) ELSE Goto(c, "commit")
  /\ UNCHANGED <<now, suspended, sessions, device, lost, alarms>>

IssueLogin(c) ==
  /\ At(c, "login", "commit")
  /\ Len(sessions) < MaxSessions
  /\ sessions' = Append(sessions, Issued(Owner[call[c].dev], Len(sessions) + 1, 0))
  /\ Answer(c, "ok", Len(sessions) + 1)
  /\ UNCHANGED <<now, suspended, device, lost, alarms>>

-----------------------------------------------------------------------------
(* The app: a call answered UNAUTHENTICATED starts a refresh with what is  *)
(* stored now, one at a time.  The answered call may be older than the     *)
(* stored tokens, so any dead access token of the login may start it.      *)
AskRefresh(d, c) ==
  LET s == device[d].store IN
  /\ s # 0
  /\ \E t \in Ids : sessions[t].family = sessions[s].family /\ ~Authenticates(t)
  /\ Send(c, "refresh", d)
  /\ UNCHANGED <<now, suspended, sessions, device, lost, alarms>>

(* sessions.refresh up to the row lock and what it decides under it.  Whoever *)
(* held the lock before left the row rotated or revoked, or changed nothing.  *)
LockRefresh(c) ==
  LET s == call[c].token IN
  /\ At(c, "refresh", "sent")
  /\ ~Locked(s)
  /\ \/ /\ sessions[s].rotated
        /\ Goto(c, "revoke")
        /\ alarms' = alarms + 1
     \/ /\ ~sessions[s].rotated
        /\ ~Live(s) \/ sessions[s].issued + RefreshTime <= now
        /\ Answer(c, "refused", 0)
        /\ UNCHANGED alarms
     \/ /\ Live(s) /\ sessions[s].issued + RefreshTime > now
        /\ Goto(c, IF sessions[s].user \in suspended THEN "revoke" ELSE "commit")
        /\ UNCHANGED alarms
  /\ UNCHANGED <<now, suspended, sessions, device, lost>>

(* Seeded bug: the old access token goes on working.                       *)
RotatedAlive(c) ==
  LET s == call[c].token IN
  Append([sessions EXCEPT ![s].rotated = TRUE], Issued(sessions[s].user, sessions[s].family, s))

Rotated(c) ==
  LET s == call[c].token IN
  Append([sessions EXCEPT ![s].rotated = TRUE, ![s].revoked = TRUE],
         Issued(sessions[s].user, sessions[s].family, s))

Rotate(c) ==
  /\ At(c, "refresh", "commit")
  /\ Len(sessions) < MaxSessions
  /\ sessions' = Rotated(c)
  /\ Answer(c, "ok", Len(sessions) + 1)
  /\ UNCHANGED <<now, suspended, device, lost, alarms>>

(* The transaction fails: it is the victim of a deadlock with a suspension *)
(* (which wants its session while it wants the user), or the link is gone. *)
AbortRotate(c) ==
  /\ At(c, "refresh", "commit")
  /\ Answer(c, "failed", 0)
  /\ UNCHANGED <<now, suspended, sessions, device, lost, alarms>>

-----------------------------------------------------------------------------
(* revoke_family is one UPDATE.  It sees the rows committed when it starts; *)
(* when one of them is locked it waits and then skips it if it was revoked, *)
(* and a row inserted in the meantime is not among those it sees.           *)
VisibleToken(c) == {call[c].token} \cap LiveOf(Family(c))  \* seeded bug: one session

Visible(c) == LiveOf(Family(c))

RevokeFamily(c) ==
  /\ call[c].step = "revoke"
  /\ \A s \in Visible(c) : ~Locked(s)
  /\ sessions' = Revoked(Visible(c))
  /\ Answer(c, IF call[c].kind = "logout" THEN "ok" ELSE "refused", 0)
  /\ UNCHANGED <<now, suspended, device, lost, alarms>>

RevokeWaits(c) ==
  /\ call[c].step = "revoke"
  /\ \E s \in Visible(c) : Locked(s)
  /\ call' = [call EXCEPT ![c].step = "wait", ![c].seen = Visible(c)]
  /\ UNCHANGED <<now, suspended, sessions, device, lost, alarms>>

RevokeResumes(c) ==
  /\ call[c].step = "wait"
  /\ \A s \in call[c].seen : ~Locked(s)
  /\ sessions' = Revoked(call[c].seen)
  /\ Answer(c, IF call[c].kind = "logout" THEN "ok" ELSE "refused", 0)
  /\ UNCHANGED <<now, suspended, device, lost, alarms>>

-----------------------------------------------------------------------------
Logout(d, c) ==
  /\ device[d].in /\ device[d].store # 0
  /\ Send(c, "logout", d)
  /\ UNCHANGED <<now, suspended, sessions, device, lost, alarms>>

AuthenticateLogout(c) ==
  /\ At(c, "logout", "sent")
  /\ IF Authenticates(call[c].token) THEN Goto(c, "revoke") ELSE Answer(c, "failed", 0)
  /\ UNCHANGED <<now, suspended, sessions, device, lost, alarms>>

-----------------------------------------------------------------------------
(* What the app does with an answer.                                       *)
SignedOut == [store |-> 0, in |-> FALSE]

(* Seeded bug: an answer is stored whole, whatever it is an answer to.      *)
ReceivedWhole(app, answer) == [store |-> answer.got]

Received(app, answer) ==
  CASE answer.kind = "login" /\ answer.reply = "ok"        -> [store |-> answer.got, in |-> TRUE]
    [] answer.kind = "refresh" /\ answer.reply = "ok"      -> [app EXCEPT !.store = answer.got]
    [] answer.kind = "refresh" /\ answer.reply = "refused" -> SignedOut
    [] answer.kind = "logout" /\ answer.reply = "ok"       -> SignedOut
    [] OTHER                                               -> app

Deliver(c) ==
  /\ call[c].step = "answer"
  /\ device' = [device EXCEPT ![call[c].dev] = Received(@, call[c])]
  /\ call' = [call EXCEPT ![c] = Free]
  /\ UNCHANGED <<now, suspended, sessions, lost, alarms>>

(* A logout that failed.  A refused one is sent again after a refresh (the *)
(* app goes on as in Deliver); when that fails too, or the first failed    *)
(* otherwise, the app signs out all the same.                              *)
LogoutFails(c) ==
  /\ At(c, "logout", "answer") /\ call[c].reply = "failed"
  /\ device' = [device EXCEPT ![call[c].dev] = SignedOut]
  /\ call' = [call EXCEPT ![c] = Free]
  /\ UNCHANGED <<now, suspended, sessions, lost, alarms>>

Dropped(slot) == IF slot.step = "answer" THEN Free ELSE [slot EXCEPT !.wanted = FALSE]

(* The app stops waiting.  A logout signs out on the phone all the same.   *)
GiveUp(c) ==
  /\ call[c].wanted /\ lost < MaxLost
  /\ call' = [call EXCEPT ![c] = Dropped(@)]
  /\ device' = IF call[c].kind = "logout"
               THEN [device EXCEPT ![call[c].dev] = SignedOut] ELSE device
  /\ lost' = lost + 1
  /\ UNCHANGED <<now, suspended, sessions, alarms>>

(* The app is killed and opened again: only the stored tokens are left.    *)
Restart(d) ==
  LET cut == {c \in Calls : call[c].wanted /\ call[c].dev = d} IN
  /\ lost + Cardinality(cut) <= MaxLost
  /\ call' = [c \in Calls |-> IF c \in cut THEN Dropped(call[c]) ELSE call[c]]
  /\ device' = [device EXCEPT ![d].in = device[d].store # 0]
  /\ lost' = lost + Cardinality(cut)
  /\ UNCHANGED <<now, suspended, sessions, alarms>>

-----------------------------------------------------------------------------
(* Seeded bug: the suspension does not wait for a rotation under way.      *)
SuspendAtOnce(u) ==
  /\ suspended' = suspended \cup {u}
  /\ sessions' = Revoked({s \in Ids : sessions[s].user = u})
  /\ UNCHANGED <<now, device, call, lost, alarms>>

(* One transaction.  It locks the user row, which a rotation needs to add  *)
(* its session, and waits for a rotation that holds one of the sessions.   *)
Suspend(u) ==
  /\ \A s \in Ids : Locked(s) => sessions[s].user # u
  /\ suspended' = suspended \cup {u}
  /\ sessions' = Revoked({s \in Ids : sessions[s].user = u})
  /\ UNCHANGED <<now, device, call, lost, alarms>>

Unsuspend(u) ==
  /\ u \in suspended
  /\ suspended' = suspended \ {u}
  /\ UNCHANGED <<now, sessions, device, call, lost, alarms>>

-----------------------------------------------------------------------------
Next ==
  \/ Tick
  \/ \E d \in Devices, c \in Calls : Login(d, c) \/ AskRefresh(d, c) \/ Logout(d, c)
  \/ \E c \in Calls :
       \/ AdmitLogin(c) \/ IssueLogin(c)
       \/ LockRefresh(c) \/ Rotate(c) \/ AbortRotate(c)
       \/ RevokeFamily(c) \/ RevokeWaits(c) \/ RevokeResumes(c)
       \/ AuthenticateLogout(c)
       \/ Deliver(c) \/ LogoutFails(c) \/ GiveUp(c)
  \/ \E d \in Devices : Restart(d)
  \/ \E u \in Users : Suspend(u) \/ Unsuspend(u)

Spec == Init /\ [][Next]_vars

-----------------------------------------------------------------------------
(* Type invariant: every variable has the type its rows and stores have.   *)
TypeOK ==
  /\ now \in 0..MaxTime
  /\ suspended \subseteq Users
  /\ sessions \in Seq(AuthSession) /\ Len(sessions) <= MaxSessions
  /\ device \in [Devices -> Apps]
  /\ call \in [Calls -> Slots]
  /\ lost \in 0..MaxLost /\ alarms \in Nat

(* A login has at most one session that works, however many refreshes of   *)
(* its tokens run at once, are repeated or are answered to nobody.         *)
OneLivePerFamily ==
  \A s, t \in Ids : Live(s) /\ Live(t) /\ sessions[s].family = sessions[t].family => s = t

(* Each refresh token works once: no session has two successors, and a     *)
(* session has one exactly when it is marked rotated.                      *)
EachTokenOnce ==
  \A s \in Ids :
    Cardinality({t \in Ids : sessions[t].parent = s}) = IF sessions[s].rotated THEN 1 ELSE 0

(* An app that no call was lost on is never taken for a thief: refreshes   *)
(* started by several answers at once, a login or a logout in between, and *)
(* old answers arriving late never make it present a token twice.          *)
NoFalseAlarm == alarms > 0 => lost > 0

(* A suspended user's login is never renewed.  The only session of theirs  *)
(* that may work is the first one of a login admitted before the suspension *)
(* and issued after it, which lasts one access token at most.              *)
SuspendedNeverRenews ==
  \A s \in Ids : Live(s) /\ sessions[s].user \in suspended => sessions[s].parent = 0

(* A reuse or a logout leaves nothing of the family working that was there *)
(* when its UPDATE began: what survives it is newer than a session that it *)
(* saw and waited for, which a rotation under way replaced meanwhile.      *)
RevokesAllButRacing ==
  [][\A c \in Calls :
       call[c].step \in {"revoke", "wait"} /\ call'[c].step \notin {"revoke", "wait"} =>
           \A s \in Ids' : sessions'[s].family = Family(c) /\ ~sessions'[s].revoked =>
             \E t \in call[c].seen : t < s]_vars
=============================================================================
