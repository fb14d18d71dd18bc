--------------------------- MODULE SessionsProofs ---------------------------
(* One live session per login, one use per token and no renewal for the    *)
(* suspended, with any number of users, apps, calls and sessions.          *)
EXTENDS Sessions, SequenceTheorems, FiniteSetTheorems, TLAPS

(* Calls and apps refer to sessions that exist, the first n.               *)
SlotsOK(slots, n) ==
  /\ slots \in [Calls -> Slots]
  /\ \A c \in Calls :
       /\ slots[c].token \in 0 .. n /\ slots[c].got \in 0 .. n
       /\ slots[c].kind \in {"refresh", "logout"} /\ slots[c].step # "answer"
            => slots[c].token # 0

AppsOK(apps, n) ==
  /\ apps \in [Devices -> Apps]
  /\ \A d \in Devices : apps[d].store \in 0 .. n

(* A session's family is an earlier session or itself, its parent an       *)
(* earlier one; being rotated and having a child is one thing.             *)
RowsOK ==
  \A s \in Ids :
    /\ sessions[s].family \in Ids
    /\ sessions[s].parent \in Ids \cup {0}
    /\ sessions[s].parent # 0 => sessions[sessions[s].parent].rotated
    /\ sessions[s].rotated => ~Live(s) /\ \E t \in Ids : sessions[t].parent = s

OneChild ==
  \A s, t \in Ids : sessions[s].parent # 0 /\ sessions[s].parent = sessions[t].parent => s = t

Committing(c) == At(c, "refresh", "commit")

(* What the row lock of a refresh keeps true from its check to its commit: *)
(* the session works, is not rotated, and its user is not suspended.       *)
RenewalsOK ==
  /\ \A c \in Calls : Committing(c) =>
       LET s == call[c].token IN
       s \in Ids /\ Live(s) /\ ~sessions[s].rotated /\ sessions[s].user \notin suspended
  /\ \A c, d \in Calls : Committing(c) /\ Committing(d) /\ call[c].token = call[d].token => c = d

Kept ==
  /\ TypeOK
  /\ SlotsOK(call, Len(sessions)) /\ AppsOK(device, Len(sessions))
  /\ RowsOK /\ OneChild /\ RenewalsOK
  /\ OneLivePerFamily /\ SuspendedNeverRenews

-----------------------------------------------------------------------------
(* Part 1: the table.                                                      *)
LEMMA IdsFacts ==
  ASSUME TypeOK
  PROVE  /\ Len(sessions) \in Nat /\ Ids = 1 .. Len(sessions)
         /\ \A s \in Ids : sessions[s] \in AuthSession
BY LenProperties, ElementOfSeq DEF TypeOK, Ids

LEMMA FreeTyped == Free \in Slots /\ Free.kind = "none" /\ Free.token = 0 /\ Free.got = 0
BY SessionsAssumption DEF Free, Slots

(* No step but the lock of a refresh starts a commit.                      *)
Steady ==
  \A c \in Calls : Committing(c)' => Committing(c) /\ call'[c].token = call[c].token

(* Sessions keep their family and never work again; new ones come last.    *)
Grows ==
  /\ Ids \subseteq Ids'
  /\ \A s \in Ids : sessions'[s].family = sessions[s].family /\ (Live(s)' => Live(s))
  /\ \A s \in Ids' \ Ids : s > Len(sessions)

(* Revoking sessions that no refresh holds.                                *)
LEMMA Revoking ==
  ASSUME Kept, NEW set, \A s \in set \cap Ids : ~Locked(s), sessions' = Revoked(set)
  PROVE  /\ sessions' \in Seq(AuthSession) /\ Len(sessions') = Len(sessions) /\ Ids' = Ids
         /\ \A s \in Ids : sessions'[s] = IF s \in set THEN [sessions[s] EXCEPT !.revoked = TRUE]
                                                     ELSE sessions[s]
<1>1. /\ Len(sessions) \in Nat /\ Ids = 1 .. Len(sessions)
      /\ \A s \in Ids : sessions[s] \in AuthSession
  BY IdsFacts DEF Kept
<1>2. sessions' \in [1 .. Len(sessions) -> AuthSession]
  BY <1>1 DEF Revoked, AuthSession
<1>3. sessions' \in Seq(AuthSession) /\ Len(sessions') = Len(sessions)
  BY <1>1, <1>2, SeqDef, LenProperties
<1>4. DOMAIN sessions' = Ids
  BY <1>1, <1>2
<1> QED BY <1>1, <1>2, <1>3, <1>4 DEF Revoked, Ids

Table == RowsOK /\ OneChild /\ RenewalsOK /\ OneLivePerFamily /\ SuspendedNeverRenews

(* A revocation leaves the table right, and every commit its ground, when  *)
(* it passes over what is locked and whoever is suspended now is revoked.  *)
LEMMA RevokedTable ==
  ASSUME Kept, NEW set, \A s \in set \cap Ids : ~Locked(s), sessions' = Revoked(set),
         Steady,
         \A s \in Ids : sessions[s].user \in suspended' => sessions[s].user \in suspended \/ s \in set
  PROVE  Table' /\ Grows
<1>1. /\ Len(sessions') = Len(sessions) /\ Ids' = Ids
      /\ \A s \in Ids : sessions'[s] = IF s \in set THEN [sessions[s] EXCEPT !.revoked = TRUE]
                                                   ELSE sessions[s]
  BY Revoking
<1>2. \A s \in Ids : sessions[s] \in AuthSession
  BY IdsFacts DEF Kept
<1>3. \A s \in Ids :
        /\ sessions'[s].user = sessions[s].user
        /\ sessions'[s].family = sessions[s].family
        /\ sessions'[s].parent = sessions[s].parent
        /\ sessions'[s].rotated = sessions[s].rotated
        /\ Live(s)' <=> Live(s) /\ s \notin set
  BY <1>1, <1>2 DEF Live, AuthSession
<1>4. RowsOK' /\ OneChild'
  BY <1>1, <1>3 DEF Kept, RowsOK, OneChild
<1>5. OneLivePerFamily'
  BY <1>1, <1>3 DEF Kept, OneLivePerFamily
<1>6. SuspendedNeverRenews'
  BY <1>1, <1>3 DEF Kept, SuspendedNeverRenews
<1>7. RenewalsOK'
  <2>1. \A c \in Calls : Committing(c) => call[c].token \in Ids /\ call[c].token \notin set
    BY DEF Kept, RenewalsOK, Committing, At, Locked
  <2> QED BY <1>1, <1>3, <2>1 DEF Kept, RenewalsOK, Steady
<1>8. Grows
  BY <1>1, <1>3 DEF Grows
<1> QED BY <1>4, <1>5, <1>6, <1>7, <1>8 DEF Table

(* Calls that only read: nothing in the table changes.                     *)
LEMMA SameTable ==
  ASSUME Kept, sessions' = sessions, suspended' \subseteq suspended, Steady
  PROVE  Table'
<1>1. Ids' = Ids /\ \A s \in Ids : Live(s)' <=> Live(s)
  BY DEF Ids, Live
<1>2. RowsOK' /\ OneChild' /\ OneLivePerFamily'
  BY <1>1 DEF Kept, RowsOK, OneChild, OneLivePerFamily
<1>3. SuspendedNeverRenews'
  BY <1>1 DEF Kept, SuspendedNeverRenews
<1>4. RenewalsOK'
  BY <1>1 DEF Kept, RenewalsOK, Steady
<1> QED BY <1>2, <1>3, <1>4 DEF Table

(* A login starts a family of its own.                                     *)
LEMMA LoginTable ==
  ASSUME Kept, NEW u \in Users, now \in Nat,
         sessions' = Append(sessions, Issued(u, Len(sessions) + 1, 0)),
         suspended' = suspended, Steady
  PROVE  /\ Table' /\ sessions' \in Seq(AuthSession) /\ Len(sessions') = Len(sessions) + 1
         /\ Grows
         /\ \A s \in Ids : sessions'[s] = sessions[s]
         /\ ~sessions'[Len(sessions) + 1].rotated
<1> DEFINE new == Len(sessions) + 1
<1>1. /\ Len(sessions) \in Nat /\ Ids = 1 .. Len(sessions)
      /\ \A s \in Ids : sessions[s] \in AuthSession
      /\ sessions \in Seq(AuthSession)
  BY IdsFacts DEF Kept, TypeOK
<1>2. Issued(u, new, 0) \in AuthSession
  BY <1>1 DEF Issued, AuthSession
<1>3. /\ sessions' \in Seq(AuthSession) /\ Len(sessions') = new
      /\ Ids' = Ids \cup {new} /\ new \notin Ids
      /\ \A s \in Ids : sessions'[s] = sessions[s]
      /\ sessions'[new] = Issued(u, new, 0)
  BY <1>1, <1>2, AppendProperties, LenProperties DEF Ids
<1>4. /\ \A s \in Ids : Live(s)' <=> Live(s)
      /\ sessions'[new].family = new /\ sessions'[new].parent = 0
      /\ ~sessions'[new].rotated
  <2>1. \A s \in Ids : Live(s)' <=> Live(s)
    BY <1>3 DEF Live
  <2> QED BY <1>3, <2>1 DEF Issued
<1>5. RowsOK'
  BY <1>1, <1>3, <1>4 DEF Kept, RowsOK
<1>6. OneChild'
  BY <1>1, <1>3, <1>4 DEF Kept, OneChild
<1>7. OneLivePerFamily'
  BY <1>1, <1>3, <1>4 DEF Kept, OneLivePerFamily, RowsOK
<1>8. SuspendedNeverRenews'
  BY <1>3, <1>4 DEF Kept, SuspendedNeverRenews
<1>9. RenewalsOK'
  BY <1>3, <1>4 DEF Kept, RenewalsOK, Steady
<1>10. Grows
  BY <1>1, <1>3, <1>4 DEF Grows
<1> QED BY <1>3, <1>4, <1>5, <1>6, <1>7, <1>8, <1>9, <1>10 DEF Table

(* A rotation hands the family over: the old session ends where the new    *)
(* one begins, and nobody else is committing for the same token.           *)
LEMMA RotatedTable ==
  ASSUME Kept, NEW c \in Calls, NEW old, Committing(c), call[c].token = old,
         now \in Nat, sessions' = Rotated(c),
         suspended' = suspended, Steady, ~Committing(c)'
  PROVE  /\ Table' /\ sessions' \in Seq(AuthSession) /\ Len(sessions') = Len(sessions) + 1
         /\ Grows
         /\ \A s \in Ids : s # old => (sessions'[s].rotated <=> sessions[s].rotated)
         /\ ~sessions'[Len(sessions) + 1].rotated
<1> DEFINE new == Len(sessions) + 1
           row == Issued(sessions[old].user, sessions[old].family, old)
           prefix == [sessions EXCEPT ![old].rotated = TRUE, ![old].revoked = TRUE]
<1>1. /\ Len(sessions) \in Nat /\ Ids = 1 .. Len(sessions)
      /\ \A s \in Ids : sessions[s] \in AuthSession
      /\ sessions \in [1 .. Len(sessions) -> AuthSession]
  BY IdsFacts, LenProperties DEF Kept, TypeOK
<1>2. /\ old \in Ids /\ Live(old) /\ ~sessions[old].rotated
      /\ sessions[old].user \notin suspended
  BY DEF Kept, RenewalsOK
<1>3. row \in AuthSession
  BY <1>1, <1>2 DEF Issued, AuthSession, Kept, RowsOK
<1>4. /\ prefix \in Seq(AuthSession) /\ Len(prefix) = Len(sessions)
      /\ \A s \in Ids : s # old => prefix[s] = sessions[s]
      /\ prefix[old] = [sessions[old] EXCEPT !.rotated = TRUE, !.revoked = TRUE]
  <2>1. prefix \in [1 .. Len(sessions) -> AuthSession]
    <3>1. \A s \in AuthSession : [s EXCEPT !.rotated = TRUE, !.revoked = TRUE] \in AuthSession
      BY DEF AuthSession
    <3> QED BY <1>1, <1>2, <3>1
  <2>2. prefix \in Seq(AuthSession) /\ Len(prefix) = Len(sessions)
    <3> HIDE DEF prefix
    <3> QED BY <1>1, <2>1, SeqDef, LenProperties
  <2> QED BY <1>1, <1>2, <2>2
<1>5. /\ sessions' \in Seq(AuthSession) /\ Len(sessions') = new
      /\ Ids' = Ids \cup {new} /\ new \notin Ids
      /\ \A s \in Ids : sessions'[s] = prefix[s]
      /\ sessions'[new] = row
  <2>1. sessions' = Append(prefix, row)
    BY DEF Rotated
  <2> HIDE DEF prefix, row
  <2> QED BY <1>1, <1>3, <1>4, <2>1, AppendProperties, LenProperties DEF Ids
<1>6. /\ \A s \in Ids : s # old => sessions'[s] = sessions[s]
      /\ sessions'[old].user = sessions[old].user /\ sessions'[old].family = sessions[old].family
      /\ sessions'[old].parent = sessions[old].parent
      /\ sessions'[old].rotated /\ ~Live(old)'
  <2>1. sessions'[old] = [sessions[old] EXCEPT !.rotated = TRUE, !.revoked = TRUE]
    BY <1>2, <1>4, <1>5
  <2>2. sessions[old] \in AuthSession
    BY <1>1, <1>2
  <2>3. /\ sessions'[old].user = sessions[old].user /\ sessions'[old].family = sessions[old].family
        /\ sessions'[old].parent = sessions[old].parent
        /\ sessions'[old].rotated /\ sessions'[old].revoked
    BY <2>1, <2>2 DEF AuthSession
  <2>4. \A s \in Ids : s # old => sessions'[s] = sessions[s]
    BY <1>4, <1>5
  <2> QED BY <2>3, <2>4 DEF Live
<1>7. /\ sessions'[new].user = sessions[old].user /\ sessions'[new].family = sessions[old].family
      /\ sessions'[new].parent = old /\ ~sessions'[new].rotated
  BY <1>5 DEF Issued
<1> HIDE DEF row, prefix
<1>8. \A s \in Ids :
        /\ sessions'[s].user = sessions[s].user /\ sessions'[s].family = sessions[s].family
        /\ sessions'[s].parent = sessions[s].parent
        /\ sessions[s].rotated => sessions'[s].rotated
        /\ s # old => (sessions'[s].rotated <=> sessions[s].rotated)
        /\ Live(s)' <=> Live(s) /\ s # old
  <2> TAKE s \in Ids
  <2>1. CASE s = old
    BY <1>6, <2>1
  <2>2. CASE s # old
    BY <1>6, <2>2 DEF Live
  <2> QED BY <2>1, <2>2
<1>9. \A s \in Ids : sessions[s].parent # old
  BY <1>1, <1>2 DEF Kept, RowsOK
<1>10. 0 \notin Ids
  BY <1>1
<1>11. RowsOK'
  <2> SUFFICES ASSUME NEW s \in Ids'
               PROVE  /\ sessions'[s].family \in Ids'
                      /\ sessions'[s].parent \in Ids' \cup {0}
                      /\ sessions'[s].parent # 0 => sessions'[sessions'[s].parent].rotated
                      /\ sessions'[s].rotated =>
                           ~Live(s)' /\ \E t \in Ids' : sessions'[t].parent = s
    BY DEF RowsOK
  <2>1. CASE s = new
    BY <1>2, <1>5, <1>6, <1>7, <2>1 DEF Kept, RowsOK
  <2>2. CASE s = old
    BY <1>2, <1>5, <1>6, <1>7, <1>8, <2>2 DEF Kept, RowsOK
  <2>3. CASE s \in Ids /\ s # old
    <3>1. /\ sessions'[s].family \in Ids /\ sessions'[s].parent \in Ids \cup {0}
          /\ sessions'[s].parent # 0 => sessions[sessions'[s].parent].rotated
      BY <1>8, <2>3 DEF Kept, RowsOK
    <3>2. sessions'[s].rotated => ~Live(s)' /\ \E t \in Ids : sessions'[t].parent = s
      BY <1>8, <2>3 DEF Kept, RowsOK
    <3> QED BY <1>5, <1>8, <1>10, <3>1, <3>2
  <2> QED BY <1>5, <2>1, <2>2, <2>3
<1>12. OneChild'
  BY <1>5, <1>7, <1>8, <1>9 DEF Kept, OneChild
<1>13. OneLivePerFamily'
  BY <1>2, <1>5, <1>7, <1>8 DEF Kept, OneLivePerFamily
<1>14. SuspendedNeverRenews'
  BY <1>2, <1>5, <1>7, <1>8 DEF Kept, SuspendedNeverRenews
<1>15. RenewalsOK'
  <2>1. \A d \in Calls : Committing(d)' => Committing(d) /\ call[d].token # old
                                         /\ call'[d].token = call[d].token
    BY DEF Steady, Kept, RenewalsOK
  <2> QED BY <1>5, <1>6, <1>8, <2>1 DEF Kept, RenewalsOK
<1>16. Grows
  BY <1>1, <1>5, <1>8 DEF Grows
<1> QED BY <1>5, <1>7, <1>8, <1>11, <1>12, <1>13, <1>14, <1>15, <1>16 DEF Table

-----------------------------------------------------------------------------
(* Part 2: calls and apps.                                                 *)
LEMMA Answering ==
  ASSUME Kept, NEW c \in Calls, NEW reply \in {"ok", "refused", "failed"},
         NEW n \in Nat, Len(sessions) <= n, n <= MaxSessions, NEW got \in 0 .. n,
         Answer(c, reply, got)
  PROVE  SlotsOK(call', n) /\ Steady /\ ~Committing(c)'
<1> DEFINE answer == [Free EXCEPT !.kind = call[c].kind, !.dev = call[c].dev, !.step = "answer",
                                  !.reply = reply, !.got = got, !.wanted = TRUE]
<1>1. /\ call \in [Calls -> Slots] /\ call[c] \in Slots /\ Len(sessions) \in Nat
      /\ SlotsOK(call, Len(sessions))
  BY IdsFacts DEF Kept, SlotsOK
<1>2. /\ answer \in Slots /\ answer.token = 0 /\ answer.got = got /\ answer.step = "answer"
      /\ got \in 0 .. MaxSessions
  <2>1. got \in 0 .. MaxSessions
    BY SessionsAssumption
  <2> QED BY <1>1, <2>1, FreeTyped DEF Slots
<1>3. call' = [call EXCEPT ![c] = IF call[c].wanted THEN answer ELSE Free]
  BY DEF Answer
<1> HIDE DEF answer
<1>4. /\ call' \in [Calls -> Slots]
      /\ \A d \in Calls : d # c => call'[d] = call[d]
      /\ call'[c] \in {answer, Free}
  BY <1>1, <1>2, <1>3, FreeTyped
<1>5. SlotsOK(call', n)
  BY <1>1, <1>2, <1>4, FreeTyped DEF SlotsOK
<1>6. Steady /\ ~Committing(c)'
  BY <1>2, <1>4, FreeTyped DEF Steady, Committing, At
<1> QED BY <1>5, <1>6

LEMMA Going ==
  ASSUME Kept, NEW c \in Calls, NEW step \in {"commit", "revoke", "wait"},
         call[c].step # "answer", Goto(c, step)
  PROVE  /\ SlotsOK(call', Len(sessions))
         /\ call[c].kind # "refresh" \/ step # "commit" => Steady
<1>1. /\ call \in [Calls -> Slots] /\ call[c] \in Slots
      /\ SlotsOK(call, Len(sessions))
  BY DEF Kept, SlotsOK
<1>2. /\ call' \in [Calls -> Slots]
      /\ \A d \in Calls : d # c => call'[d] = call[d]
      /\ call'[c] = [call[c] EXCEPT !.step = step]
  BY <1>1 DEF Goto, Slots
<1>3. /\ call'[c].token = call[c].token /\ call'[c].got = call[c].got
      /\ call'[c].kind = call[c].kind /\ call'[c].step = step
  BY <1>1, <1>2 DEF Slots
<1>4. SlotsOK(call', Len(sessions))
  BY <1>1, <1>2, <1>3 DEF SlotsOK
<1>5. call[c].kind # "refresh" \/ step # "commit" => Steady
  BY <1>2, <1>3 DEF Steady, Committing, At
<1> QED BY <1>4, <1>5

LEMMA Sending ==
  ASSUME Kept, NEW c \in Calls, NEW d \in Devices, NEW kind \in {"login", "refresh", "logout"},
         kind = "login" \/ device[d].store # 0, Send(c, kind, d)
  PROVE  SlotsOK(call', Len(sessions)) /\ Steady
<1> DEFINE slot == [Free EXCEPT !.kind = kind, !.dev = d, !.token = device[d].store, !.wanted = TRUE]
<1>1. /\ call \in [Calls -> Slots] /\ SlotsOK(call, Len(sessions))
      /\ device[d].store \in 0 .. Len(sessions) /\ device[d].store \in 0 .. MaxSessions
  BY DEF Kept, SlotsOK, AppsOK, Apps
<1>2. /\ slot \in Slots /\ slot.token = device[d].store /\ slot.got = 0
      /\ slot.step = "sent" /\ slot.kind = kind
  BY <1>1, FreeTyped DEF Slots, Free
<1>3. call' = [call EXCEPT ![c] = slot]
  BY DEF Send
<1> HIDE DEF slot
<1>4. /\ call' \in [Calls -> Slots] /\ call'[c] = slot
      /\ \A e \in Calls : e # c => call'[e] = call[e]
  BY <1>1, <1>2, <1>3
<1>5. SlotsOK(call', Len(sessions))
  BY <1>1, <1>2, <1>4, IdsFacts DEF SlotsOK, Kept
<1>6. Steady
  BY <1>2, <1>4 DEF Steady, Committing, At
<1> QED BY <1>5, <1>6

(* An app that stops waiting leaves the call to the server.                *)
LEMMA Dropping ==
  ASSUME Kept, NEW cut \in SUBSET Calls,
         call' = [c \in Calls |-> IF c \in cut THEN Dropped(call[c]) ELSE call[c]]
  PROVE  SlotsOK(call', Len(sessions)) /\ Steady
<1>1. /\ call \in [Calls -> Slots] /\ SlotsOK(call, Len(sessions)) /\ Len(sessions) \in Nat
  BY IdsFacts DEF Kept, SlotsOK
<1>2. \A slot \in Slots :
        /\ Dropped(slot) \in Slots
        /\ \/ Dropped(slot) = Free
           \/ /\ Dropped(slot).token = slot.token /\ Dropped(slot).got = slot.got
              /\ Dropped(slot).kind = slot.kind /\ Dropped(slot).step = slot.step
  BY FreeTyped DEF Dropped, Slots
<1>3. /\ call' \in [Calls -> Slots]
      /\ \A c \in Calls : call'[c] \in {call[c], Dropped(call[c])}
  BY <1>1, <1>2
<1>4. SlotsOK(call', Len(sessions))
  BY <1>1, <1>2, <1>3, FreeTyped DEF SlotsOK
<1>5. Steady
  BY <1>1, <1>2, <1>3, FreeTyped DEF Steady, Committing, At
<1> QED BY <1>4, <1>5

(* A step that leaves the sessions alone.                                  *)
LEMMA Quietly ==
  ASSUME Kept, sessions' = sessions, suspended' \subseteq suspended, Steady,
         SlotsOK(call', Len(sessions)), AppsOK(device', Len(sessions)),
         now' \in 0 .. MaxTime, lost' \in 0 .. MaxLost, alarms' \in Nat
  PROVE  Kept'
<1>1. Table'
  BY SameTable
<1>2. TypeOK'
  BY DEF Kept, TypeOK, SlotsOK, AppsOK
<1> QED BY <1>1, <1>2 DEF Kept, Table

-----------------------------------------------------------------------------
(* Part 3: every step.                                                     *)
LEMMA KeptFacts ==
  ASSUME Kept
  PROVE  /\ Len(sessions) \in Nat /\ Len(sessions) <= MaxSessions
         /\ Ids = 1 .. Len(sessions)
         /\ now \in 0 .. MaxTime /\ lost \in 0 .. MaxLost /\ alarms \in Nat
         /\ SlotsOK(call, Len(sessions)) /\ AppsOK(device, Len(sessions))
         /\ {MaxTime, MaxLost, MaxSessions} \subseteq Nat
BY IdsFacts, SessionsAssumption DEF Kept, TypeOK

LEMMA KeptInit == Init => Kept
<1> SUFFICES ASSUME Init PROVE Kept
  OBVIOUS
<1>1. Ids = {} /\ sessions \in Seq(AuthSession) /\ Len(sessions) = 0
  BY EmptySeq DEF Init, Ids
<1>2. SlotsOK(call, 0) /\ AppsOK(device, 0)
  BY FreeTyped, SessionsAssumption DEF Init, SlotsOK, AppsOK, Apps
<1>3. TypeOK
  BY <1>1, <1>2, SessionsAssumption DEF Init, TypeOK, SlotsOK, AppsOK
<1>4. \A c \in Calls : ~Committing(c)
  BY FreeTyped DEF Init, Committing, At
<1> QED
  BY <1>1, <1>2, <1>3, <1>4 DEF Kept, RowsOK, OneChild, RenewalsOK, OneLivePerFamily,
     SuspendedNeverRenews

(* Time, apps and admins, as far as they touch no session.                 *)
LEMMA OutsideKeeps ==
  ASSUME Kept,
         \/ Tick
         \/ \E u \in Users : Unsuspend(u)
         \/ \E d \in Devices : Restart(d)
         \/ \E c \in Calls : GiveUp(c) \/ Deliver(c) \/ LogoutFails(c)
         \/ UNCHANGED vars
  PROVE  Kept'
<1> USE KeptFacts
<1>1. call' = call => Steady
  BY DEF Steady, Committing, At
<1>2. CASE Tick \/ UNCHANGED vars
  BY <1>1, <1>2, Quietly DEF Tick, vars
<1>3. CASE \E u \in Users : Unsuspend(u)
  BY <1>1, <1>3, Quietly DEF Unsuspend
<1>4. ASSUME NEW d \in Devices, Restart(d) PROVE Kept'
  <2> DEFINE cut == {c \in Calls : call[c].wanted /\ call[c].dev = d}
  <2>1. SlotsOK(call', Len(sessions)) /\ Steady
    BY <1>4, Dropping DEF Restart
  <2>2. AppsOK(device', Len(sessions))
    BY <1>4 DEF Restart, AppsOK, Apps
  <2>3. Cardinality(cut) \in Nat
    BY SessionsAssumption, FS_Subset, FS_CardinalityType
  <2>4. lost' \in 0 .. MaxLost
    <3>1. lost + Cardinality(cut) <= MaxLost /\ lost' = lost + Cardinality(cut)
      BY <1>4 DEF Restart
    <3> HIDE DEF cut
    <3> QED BY <2>3, <3>1
  <2> QED BY <1>4, <2>1, <2>2, <2>4, Quietly DEF Restart
<1>5. ASSUME NEW c \in Calls, GiveUp(c) PROVE Kept'
  <2>1. call' = [b \in Calls |-> IF b \in {c} THEN Dropped(call[b]) ELSE call[b]]
    BY <1>5 DEF GiveUp, SlotsOK
  <2>2. SlotsOK(call', Len(sessions)) /\ Steady
    BY <2>1, Dropping
  <2>3. AppsOK(device', Len(sessions))
    <3>1. SignedOut \in Apps /\ SignedOut.store = 0
      BY DEF SignedOut, Apps
    <3>2. device' = device \/ device' = [device EXCEPT ![call[c].dev] = SignedOut]
      BY <1>5 DEF GiveUp
    <3> QED BY <3>1, <3>2 DEF AppsOK
  <2>4. lost' \in 0 .. MaxLost
    BY <1>5 DEF GiveUp
  <2> QED BY <1>5, <2>2, <2>3, <2>4, Quietly DEF GiveUp
<1>6. ASSUME NEW c \in Calls, Deliver(c) PROVE Kept'
  <2>1. SlotsOK(call', Len(sessions)) /\ Steady
    BY <1>6, FreeTyped DEF Deliver, SlotsOK, Steady, Committing, At
  <2>2. \A app \in Apps :
          /\ Received(app, call[c]) \in Apps
          /\ Received(app, call[c]).store \in {0, call[c].got, app.store}
    <3> TAKE app \in Apps
    <3>1. call[c].got \in 0 .. MaxSessions
      BY DEF SlotsOK, Slots
    <3>2. SignedOut \in Apps /\ SignedOut.store = 0
      BY DEF SignedOut, Apps
    <3>3. LET login == [store |-> call[c].got, in |-> TRUE]
              refresh == [app EXCEPT !.store = call[c].got]
          IN  /\ login \in Apps /\ login.store = call[c].got
              /\ refresh \in Apps /\ refresh.store = call[c].got
              /\ Received(app, call[c]) \in {login, refresh, SignedOut, app}
      BY <3>1 DEF Received, Apps
    <3> QED BY <3>2, <3>3
  <2>3. AppsOK(device', Len(sessions))
    <3> DEFINE d == call[c].dev
               app == Received(device[d], call[c])
    <3>1. /\ device' = [device EXCEPT ![d] = app]
          /\ d \in Devices /\ device[d] \in Apps /\ device \in [Devices -> Apps]
      BY <1>6 DEF Deliver, AppsOK, SlotsOK, Slots
    <3>2. app \in Apps /\ app.store \in {0, call[c].got, device[d].store}
      BY <2>2, <3>1
    <3>3. {0, call[c].got, device[d].store} \subseteq 0 .. Len(sessions)
      BY <3>1 DEF SlotsOK, AppsOK
    <3> HIDE DEF app, d
    <3> QED BY <3>1, <3>2, <3>3 DEF AppsOK
  <2> QED BY <1>6, <2>1, <2>3, Quietly DEF Deliver
<1>7. ASSUME NEW c \in Calls, LogoutFails(c) PROVE Kept'
  <2>1. SlotsOK(call', Len(sessions)) /\ Steady
    BY <1>7, FreeTyped DEF LogoutFails, SlotsOK, Steady, Committing, At
  <2>2. SignedOut \in Apps /\ SignedOut.store = 0
    BY DEF SignedOut, Apps
  <2>3. AppsOK(device', Len(sessions))
    <3>1. PICK h : h = call[c].dev
      OBVIOUS
    <3>2. device' = [device EXCEPT ![h] = SignedOut]
      BY <1>7, <3>1 DEF LogoutFails
    <3>3. \A d \in Devices : device'[d] = device[d] \/ device'[d] = SignedOut
      BY <3>2 DEF AppsOK
    <3>4. device' \in [Devices -> Apps]
      BY <2>2, <3>2 DEF AppsOK
    <3> QED BY <2>2, <3>3, <3>4 DEF AppsOK
  <2> QED BY <1>7, <2>1, <2>3, Quietly DEF LogoutFails
<1> QED BY <1>2, <1>3, <1>4, <1>5, <1>6, <1>7

(* What a call does before it writes.                                      *)
LEMMA CallsKeep ==
  ASSUME Kept,
         \/ \E d \in Devices, c \in Calls : Login(d, c) \/ AskRefresh(d, c) \/ Logout(d, c)
         \/ \E c \in Calls :
              AdmitLogin(c) \/ AbortRotate(c) \/ RevokeWaits(c) \/ AuthenticateLogout(c)
  PROVE  Kept'
<1> USE KeptFacts
<1>1. ASSUME NEW d \in Devices, NEW c \in Calls, Login(d, c) \/ AskRefresh(d, c) \/ Logout(d, c)
      PROVE  Kept'
  <2>1. SlotsOK(call', Len(sessions)) /\ Steady
    BY <1>1, Sending DEF Login, AskRefresh, Logout
  <2> QED BY <1>1, <2>1, Quietly DEF Login, AskRefresh, Logout
<1>2. ASSUME NEW c \in Calls, AdmitLogin(c) PROVE Kept'
  <2>1. SlotsOK(call', Len(sessions)) /\ Steady
    BY <1>2, Answering, Going DEF AdmitLogin, At
  <2> QED BY <1>2, <2>1, Quietly DEF AdmitLogin
<1>3. ASSUME NEW c \in Calls, AbortRotate(c) PROVE Kept'
  <2>1. SlotsOK(call', Len(sessions)) /\ Steady
    BY <1>3, Answering DEF AbortRotate
  <2> QED BY <1>3, <2>1, Quietly DEF AbortRotate
<1>4. ASSUME NEW c \in Calls, AuthenticateLogout(c) PROVE Kept'
  <2>1. SlotsOK(call', Len(sessions)) /\ Steady
    BY <1>4, Answering, Going DEF AuthenticateLogout, At
  <2> QED BY <1>4, <2>1, Quietly DEF AuthenticateLogout
<1>5. ASSUME NEW c \in Calls, RevokeWaits(c) PROVE Kept'
  <2>1. Visible(c) \in SUBSET (1 .. MaxSessions)
    BY DEF Visible, LiveOf
  <2>2. SlotsOK(call', Len(sessions))
    <3> DEFINE slot == [call[c] EXCEPT !.step = "wait", !.seen = Visible(c)]
    <3>1. /\ slot \in Slots /\ slot.token = call[c].token /\ slot.got = call[c].got
          /\ slot.kind = call[c].kind /\ slot.step = "wait"
      BY <2>1 DEF SlotsOK, Slots
    <3>2. call' = [call EXCEPT ![c] = slot] /\ call[c].step = "revoke"
      BY <1>5 DEF RevokeWaits
    <3> HIDE DEF slot
    <3> QED BY <3>1, <3>2 DEF SlotsOK
  <2>3. Steady
    BY <1>5 DEF RevokeWaits, Steady, Committing, At, SlotsOK, Slots
  <2> QED BY <1>5, <2>2, <2>3, Quietly DEF RevokeWaits
<1> QED BY <1>1, <1>2, <1>3, <1>4, <1>5

(* sessions.refresh takes the row lock: nobody else had it, and what it    *)
(* checks is what RenewalsOK says of its commit.                           *)
LEMMA LockKeeps == ASSUME Kept, NEW c \in Calls, LockRefresh(c) PROVE Kept'
<1> USE KeptFacts
<1> DEFINE s == call[c].token
<1>1. call[c].step = "sent" /\ call[c].kind = "refresh"
  BY DEF LockRefresh, At
<1>2. s \in Ids
  BY <1>1 DEF SlotsOK
<1>3. /\ UNCHANGED <<now, suspended, sessions, device, lost>> /\ alarms' \in Nat
      /\ ~Locked(s)
  BY DEF LockRefresh
<1>4. CASE Goto(c, "revoke") \/ Answer(c, "refused", 0)
  <2>1. SlotsOK(call', Len(sessions)) /\ Steady
    BY <1>1, <1>4, Answering, Going
  <2> QED BY <1>3, <2>1, Quietly
<1>5. CASE /\ Goto(c, "commit") /\ ~sessions[s].rotated /\ Live(s)
           /\ sessions[s].user \notin suspended
  <2>1. SlotsOK(call', Len(sessions))
    BY <1>1, <1>5, Going
  <2>2. /\ \A d \in Calls : d # c => call'[d] = call[d]
        /\ call'[c].token = s
    BY <1>1, <1>5 DEF Goto, SlotsOK, Slots
  <2>3. /\ Ids' = Ids
        /\ \A t \in Ids : Live(t)' <=> Live(t)
    BY <1>3 DEF Ids, Live
  <2>4. \A d \in Calls : Committing(d)' =>
          \/ d = c
          \/ Committing(d) /\ call[d].token # s /\ call'[d].token = call[d].token
    BY <1>3, <2>2 DEF Committing, At, Locked
  <2>5. RenewalsOK'
    <3>1. ASSUME NEW d \in Calls, Committing(d)'
          PROVE  /\ call'[d].token \in Ids /\ Live(call[d].token)'
                 /\ ~sessions[call'[d].token].rotated
                 /\ sessions[call'[d].token].user \notin suspended
      BY <1>2, <1>3, <1>5, <2>2, <2>4, <3>1 DEF Kept, RenewalsOK, Live
    <3>2. \A d, e \in Calls :
            Committing(d)' /\ Committing(e)' /\ call'[d].token = call'[e].token => d = e
      BY <2>2, <2>4 DEF Kept, RenewalsOK
    <3> QED BY <1>3, <2>3, <3>1, <3>2 DEF RenewalsOK
  <2>6. RowsOK' /\ OneChild' /\ OneLivePerFamily' /\ SuspendedNeverRenews'
    BY <1>3, <2>3 DEF Kept, RowsOK, OneChild, OneLivePerFamily, SuspendedNeverRenews
  <2>7. TypeOK'
    BY <1>3, <2>1 DEF Kept, TypeOK, SlotsOK
  <2> QED BY <1>3, <2>1, <2>5, <2>6, <2>7 DEF Kept
<1>6. Live(s) => ~sessions[s].rotated
  BY <1>2 DEF Kept, RowsOK
<1>7. \/ Goto(c, "revoke") \/ Answer(c, "refused", 0)
      \/ Live(s) /\ sessions[s].user \notin suspended /\ Goto(c, "commit")
  BY DEF LockRefresh
<1> QED BY <1>4, <1>5, <1>6, <1>7

(* The two steps that add a session.                                       *)
LEMMA AddingKeeps ==
  ASSUME Kept, NEW c \in Calls, IssueLogin(c) \/ Rotate(c)
  PROVE  Kept' /\ Grows
<1> USE KeptFacts
<1> DEFINE n == Len(sessions) + 1
<1>1. /\ n \in Nat /\ Len(sessions) <= n /\ n <= MaxSessions /\ now \in Nat
      /\ Answer(c, "ok", n)
      /\ UNCHANGED <<now, suspended, device, lost, alarms>>
  BY DEF IssueLogin, Rotate
<1>2. SlotsOK(call', n) /\ Steady /\ ~Committing(c)'
  <2> HIDE DEF n
  <2> QED BY <1>1, Answering
<1>3. Table' /\ sessions' \in Seq(AuthSession) /\ Len(sessions') = n /\ Grows
  <2>1. CASE IssueLogin(c)
    <3>1. Owner[call[c].dev] \in Users
      BY SessionsAssumption DEF SlotsOK, Slots
    <3> QED BY <1>1, <1>2, <2>1, <3>1, LoginTable DEF IssueLogin
  <2>2. CASE Rotate(c)
    BY <1>1, <1>2, <2>2, RotatedTable DEF Rotate, Committing
  <2> QED BY <2>1, <2>2
<1>4. AppsOK(device', n)
  BY <1>1 DEF AppsOK
<1>5. TypeOK'
  BY <1>1, <1>2, <1>3 DEF Kept, TypeOK, SlotsOK
<1> QED BY <1>2, <1>3, <1>4, <1>5 DEF Kept, Table

(* The steps that revoke.                                                  *)
LEMMA RevokingKeeps ==
  ASSUME Kept,
         \/ \E c \in Calls : RevokeFamily(c) \/ RevokeResumes(c)
         \/ \E u \in Users : Suspend(u)
  PROVE  Kept' /\ Grows
<1> USE KeptFacts
<1>1. ASSUME NEW set, \A s \in set \cap Ids : ~Locked(s), sessions' = Revoked(set), Steady,
             SlotsOK(call', Len(sessions)), device' = device, UNCHANGED <<now, lost, alarms>>,
             suspended' \subseteq Users,
             \A s \in Ids :
               sessions[s].user \in suspended' => sessions[s].user \in suspended \/ s \in set
      PROVE  Kept' /\ Grows
  <2>1. Table' /\ Grows
    BY <1>1, RevokedTable
  <2>2. sessions' \in Seq(AuthSession) /\ Len(sessions') = Len(sessions)
    BY <1>1, Revoking
  <2>3. TypeOK'
    BY <1>1, <2>2 DEF Kept, TypeOK, SlotsOK
  <2> QED BY <1>1, <2>1, <2>2, <2>3 DEF Kept, Table
<1>2. suspended \subseteq Users
  BY DEF Kept, TypeOK
<1>3. ASSUME NEW c \in Calls, RevokeFamily(c) \/ RevokeResumes(c) PROVE Kept' /\ Grows
  <2>1. SlotsOK(call', Len(sessions)) /\ Steady
    BY <1>3, Answering DEF RevokeFamily, RevokeResumes
  <2>2. PICK set : (\A s \in set \cap Ids : ~Locked(s)) /\ sessions' = Revoked(set)
    BY <1>3 DEF RevokeFamily, RevokeResumes
  <2> QED BY <1>1, <1>2, <1>3, <2>1, <2>2 DEF RevokeFamily, RevokeResumes
<1>4. ASSUME NEW u \in Users, Suspend(u) PROVE Kept' /\ Grows
  <2> DEFINE set == {s \in Ids : sessions[s].user = u}
  <2>1. Steady
    BY <1>4 DEF Suspend, Steady, Committing, At
  <2>2. (\A s \in set \cap Ids : ~Locked(s)) /\ sessions' = Revoked(set)
    BY <1>4 DEF Suspend
  <2>3. \A s \in Ids :
          sessions[s].user \in suspended' => sessions[s].user \in suspended \/ s \in set
    BY <1>4 DEF Suspend
  <2> HIDE DEF set
  <2> QED BY <1>1, <1>2, <1>4, <2>1, <2>2, <2>3 DEF Suspend
<1> QED BY <1>3, <1>4

LEMMA SameGrows == ASSUME TypeOK, sessions' = sessions PROVE Grows
BY IdsFacts DEF Grows, Ids, Live

LEMMA KeptNext == Kept /\ [Next]_vars => Kept'
BY OutsideKeeps, CallsKeep, LockKeeps, AddingKeeps, RevokingKeeps DEF Next

-----------------------------------------------------------------------------
(* Part 4: what a revocation that waits may miss.                          *)
InRevocation(c) == call[c].step \in {"revoke", "wait"}

(* While the UPDATE of a family waits, whatever works in the family is     *)
(* among what it saw, or newer than some of it.                            *)
WaitsOK ==
  \A c \in Calls :
    /\ InRevocation(c) => call[c].kind \in {"refresh", "logout"}
    /\ call[c].step = "wait" =>
         /\ call[c].seen # {} /\ call[c].seen \subseteq Ids
         /\ \A s \in LiveOf(Family(c)) : s \in call[c].seen \/ \E t \in call[c].seen : t < s

(* A call that is revoking after a step was so before, or just began.      *)
Waited(c) ==
  /\ InRevocation(c)' => call'[c].kind \in {"refresh", "logout"}
  /\ call'[c].step = "wait" =>
       /\ call[c].step = "wait"
       /\ call'[c].token = call[c].token /\ call'[c].seen = call[c].seen

LEMMA AnswerWaited ==
  ASSUME Kept, WaitsOK, NEW c \in Calls, NEW reply, NEW got, Answer(c, reply, got)
  PROVE  \A d \in Calls : Waited(d)
<1>1. call \in [Calls -> Slots]
  BY DEF Kept, TypeOK
<1>2. /\ \A d \in Calls : d # c => call'[d] = call[d]
      /\ call'[c].step \in {"answer", "sent"}
  BY <1>1 DEF Answer, Free
<1> QED BY <1>2 DEF Waited, InRevocation, WaitsOK

LEMMA GotoWaited ==
  ASSUME Kept, WaitsOK, NEW c \in Calls, NEW step,
         \/ step = "commit"
         \/ step = "revoke" /\ call[c].kind \in {"refresh", "logout"},
         Goto(c, step)
  PROVE  \A d \in Calls : Waited(d)
<1>1. call \in [Calls -> Slots]
  BY DEF Kept, TypeOK
<1>2. /\ \A d \in Calls : d # c => call'[d] = call[d]
      /\ call'[c].step = step /\ call'[c].kind = call[c].kind
  BY <1>1 DEF Goto, Slots
<1> QED BY <1>2 DEF Waited, InRevocation, WaitsOK

LEMMA DropWaited ==
  ASSUME Kept, WaitsOK, \A c \in Calls : call'[c] \in {call[c], Dropped(call[c]), Free}
  PROVE  \A d \in Calls : Waited(d)
<1> TAKE d \in Calls
<1>1. call[d] \in Slots
  BY DEF Kept, TypeOK
<1>2. \/ call'[d].step = "sent"
      \/ /\ call'[d].step = call[d].step /\ call'[d].kind = call[d].kind
         /\ call'[d].token = call[d].token /\ call'[d].seen = call[d].seen
  BY <1>1 DEF Dropped, Free, Slots
<1> QED BY <1>2 DEF Waited, InRevocation, WaitsOK

LEMMA CallsGoOn ==
  ASSUME Kept, WaitsOK, [Next]_vars
  PROVE  \A c \in Calls : Waited(c) \/ RevokeWaits(c)
<1>1. call \in [Calls -> Slots]
  BY DEF Kept, TypeOK
<1>2. CASE call' = call
  BY <1>2, DropWaited
<1>3. ASSUME NEW d \in Devices, NEW c \in Calls, Login(d, c) \/ AskRefresh(d, c) \/ Logout(d, c)
      PROVE  \A b \in Calls : Waited(b)
  <2>0. PICK kind : Send(c, kind, d)
    BY <1>3 DEF Login, AskRefresh, Logout
  <2>1. /\ \A b \in Calls : b # c => call'[b] = call[b]
        /\ call'[c].step = "sent"
    BY <1>1, <2>0 DEF Send, Free
  <2> QED BY <2>1 DEF Waited, InRevocation, WaitsOK
<1>4. ASSUME NEW c \in Calls, GiveUp(c) \/ Deliver(c) \/ LogoutFails(c)
      PROVE  \A b \in Calls : Waited(b)
  BY <1>1, <1>4, DropWaited DEF GiveUp, Deliver, LogoutFails
<1>5. ASSUME NEW d \in Devices, Restart(d)
      PROVE  \A b \in Calls : Waited(b)
  BY <1>5, DropWaited DEF Restart
<1>6. ASSUME NEW c \in Calls,
             \/ AdmitLogin(c) \/ IssueLogin(c) \/ LockRefresh(c) \/ Rotate(c) \/ AbortRotate(c)
             \/ RevokeFamily(c) \/ RevokeResumes(c) \/ AuthenticateLogout(c)
      PROVE  \A b \in Calls : Waited(b)
  <2>1. \/ \E reply, got : Answer(c, reply, got)
        \/ Goto(c, "commit")
        \/ Goto(c, "revoke") /\ call[c].kind \in {"refresh", "logout"}
    BY <1>6 DEF AdmitLogin, IssueLogin, LockRefresh, Rotate, AbortRotate, RevokeFamily,
                RevokeResumes, AuthenticateLogout, At
  <2> QED BY <2>1, AnswerWaited, GotoWaited
<1>7. ASSUME NEW c \in Calls, RevokeWaits(c)
      PROVE  \A b \in Calls : Waited(b) \/ RevokeWaits(b)
  <2>1. \A b \in Calls : b # c => call'[b] = call[b]
    BY <1>1, <1>7 DEF RevokeWaits
  <2> QED BY <1>7, <2>1 DEF Waited, InRevocation, WaitsOK
<1> QED
  BY <1>2, <1>3, <1>4, <1>5, <1>6, <1>7 DEF Next, Tick, Suspend, Unsuspend, vars

LEMMA GrowsNext == ASSUME Kept, [Next]_vars PROVE Grows
<1>1. sessions' = sessions => Grows
  BY SameGrows DEF Kept
<1> QED
  BY <1>1, AddingKeeps, RevokingKeeps
  DEF Next, vars, Tick, Login, AskRefresh, Logout, AdmitLogin, LockRefresh, AbortRotate,
      RevokeWaits, AuthenticateLogout, Deliver, LogoutFails, GiveUp, Restart, Unsuspend

LEMMA WaitsNext == ASSUME Kept, WaitsOK, [Next]_vars PROVE WaitsOK'
<1>1. Grows /\ Ids = 1 .. Len(sessions) /\ Len(sessions) \in Nat
  BY GrowsNext, KeptFacts
<1>2. ASSUME NEW c \in Calls, RevokeWaits(c)
      PROVE  /\ call'[c].kind \in {"refresh", "logout"}
             /\ call'[c].seen # {} /\ call'[c].seen \subseteq Ids'
             /\ LiveOf(Family(c))' = call'[c].seen
  <2>1. /\ call'[c].seen = Visible(c) /\ call'[c].token = call[c].token
        /\ call'[c].kind = call[c].kind /\ sessions' = sessions
        /\ call[c].step = "revoke" /\ Visible(c) # {}
    BY <1>2 DEF RevokeWaits, Kept, TypeOK, Slots
  <2>2. LiveOf(Family(c))' = Visible(c)
    BY <2>1 DEF Visible, LiveOf, Family, Live, Ids
  <2> QED BY <2>1, <2>2 DEF WaitsOK, InRevocation, LiveOf, Visible, Ids
<1>3. ASSUME NEW c \in Calls, Waited(c), call'[c].step = "wait"
      PROVE  /\ call'[c].seen # {} /\ call'[c].seen \subseteq Ids'
             /\ \A s \in LiveOf(Family(c))' :
                  s \in call'[c].seen \/ \E t \in call'[c].seen : t < s
  <2>1. /\ call[c].step = "wait" /\ call'[c].seen = call[c].seen
        /\ call'[c].token = call[c].token /\ call[c].token \in Ids
    BY <1>1, <1>3, KeptFacts DEF Waited, WaitsOK, InRevocation, SlotsOK
  <2>2. call[c].seen # {} /\ call[c].seen \subseteq Ids
    BY <2>1 DEF WaitsOK
  <2>3. Family(c)' = Family(c)
    BY <1>1, <2>1 DEF Grows, Family
  <2>4. ASSUME NEW s \in LiveOf(Family(c))'
        PROVE  s \in call[c].seen \/ \E t \in call[c].seen : t < s
    <3>1. CASE s \in Ids
      <4>1. s \in LiveOf(Family(c))
        BY <1>1, <2>3, <2>4, <3>1 DEF Grows, LiveOf
      <4> QED BY <2>1, <4>1 DEF WaitsOK
    <3>2. CASE s \notin Ids
      <4>1. PICK t \in call[c].seen : t \in Ids
        BY <2>2
      <4>2. s \in Ids'
        BY <2>4 DEF LiveOf
      <4>3. s > Len(sessions) /\ s \in Nat
        BY <1>1, <3>2, <4>2, KeptNext, IdsFacts DEF Grows, Ids, Kept
      <4> QED BY <1>1, <4>1, <4>3
    <3> QED BY <3>1, <3>2
  <2> QED BY <1>1, <2>1, <2>2, <2>4 DEF Grows
<1>4. \A c \in Calls : InRevocation(c)' => call'[c].kind \in {"refresh", "logout"}
  BY <1>2, CallsGoOn DEF Waited
<1> QED BY <1>2, <1>3, <1>4, CallsGoOn DEF WaitsOK

(* A call leaves its revocation by revoking what it saw.                   *)
LEMMA LeavesByRevoking ==
  ASSUME Kept, WaitsOK, [Next]_vars, NEW c \in Calls, InRevocation(c), ~InRevocation(c)'
  PROVE  RevokeFamily(c) \/ RevokeResumes(c)
<1>1. call \in [Calls -> Slots]
  BY DEF Kept, TypeOK
<1>2. call'[c] # call[c] /\ call'[c].step # call[c].step
  BY DEF InRevocation
<1>3. call[c].step # "answer" => Dropped(call[c]).step = call[c].step
  BY <1>1 DEF Dropped, Slots
<1> USE DEF InRevocation
<1>4. \A b \in Calls : GiveUp(b) => b # c
  BY <1>1, <1>2, <1>3 DEF GiveUp
<1>5. \A d \in Devices : ~Restart(d)
  BY <1>1, <1>2, <1>3 DEF Restart
<1>6. \A b \in Calls :
        \/ GiveUp(b) \/ Deliver(b) \/ LogoutFails(b) \/ AdmitLogin(b) \/ IssueLogin(b)
        \/ LockRefresh(b) \/ Rotate(b) \/ AbortRotate(b) \/ RevokeWaits(b) \/ AuthenticateLogout(b)
        \/ \E d \in Devices : Login(d, b) \/ AskRefresh(d, b) \/ Logout(d, b)
        => b = c
  <2>1. \A b \in Calls : \A slot : call' = [call EXCEPT ![b] = slot] => b = c
    BY <1>1, <1>2
  <2>2. \A b \in Calls, d \in Devices :
          Login(d, b) \/ AskRefresh(d, b) \/ Logout(d, b) => b = c
    BY <2>1 DEF Login, AskRefresh, Logout, Send
  <2>3. \A b \in Calls :
          GiveUp(b) \/ Deliver(b) \/ LogoutFails(b) \/ AdmitLogin(b) \/ IssueLogin(b) => b = c
    BY <2>1, <1>1, <1>2 DEF GiveUp, Deliver, LogoutFails, AdmitLogin, IssueLogin, Answer, Goto
  <2>4. \A b \in Calls : LockRefresh(b) \/ Rotate(b) \/ AbortRotate(b) => b = c
    BY <2>1, <1>1, <1>2 DEF LockRefresh, Rotate, AbortRotate, Answer, Goto
  <2>5. \A b \in Calls : RevokeWaits(b) \/ AuthenticateLogout(b) => b = c
    BY <2>1, <1>1, <1>2 DEF RevokeWaits, AuthenticateLogout, Answer, Goto
  <2> QED BY <2>2, <2>3, <2>4, <2>5
<1>7. /\ ~Deliver(c) /\ ~LogoutFails(c) /\ ~AdmitLogin(c) /\ ~IssueLogin(c)
      /\ ~LockRefresh(c) /\ ~Rotate(c) /\ ~AbortRotate(c) /\ ~RevokeWaits(c) /\ ~AuthenticateLogout(c)
  BY <1>1 DEF Deliver, LogoutFails, AdmitLogin, IssueLogin, LockRefresh, Rotate, AbortRotate,
     RevokeWaits, AuthenticateLogout, At, Slots
<1>8. \A d \in Devices : ~Login(d, c) /\ ~AskRefresh(d, c) /\ ~Logout(d, c)
  BY DEF Login, AskRefresh, Logout, Send, Free
<1>9. \A b \in Calls : RevokeFamily(b) \/ RevokeResumes(b) => b = c
  BY <1>1, <1>2 DEF RevokeFamily, RevokeResumes, Answer
<1> QED
  BY <1>2, <1>4, <1>5, <1>6, <1>7, <1>8, <1>9 DEF Next, vars, Tick, Suspend, Unsuspend
-----------------------------------------------------------------------------
(* Part 5: no false alarm.  While no call was lost, an app waits for every *)
(* call, so it asks for one refresh at a time; and every token is in one   *)
(* pair of hands: an app's store, a refresh that was asked with it, or an  *)
(* answer on its way that nobody has used yet.                             *)
Asking(c)  == call[c].kind = "refresh" /\ call[c].step \in {"sent", "commit"}
Carries(c) == call[c].step = "answer" /\ call[c].got # 0

Renewed(c, d) == /\ call[c].kind = "refresh" /\ call[c].dev = d
                 /\ call[c].step = "answer" /\ call[c].reply = "ok"

AllWaitedFor ==
  /\ \A c \in Calls : call[c] = Free \/ (call[c].wanted /\ call[c].kind # "none")
  /\ \A c, e \in Calls : call[c].kind = "refresh" /\ call[e].kind = "refresh"
                         /\ call[c].dev = call[e].dev => c = e

StoresHeld ==
  /\ \A d, e \in Devices : device[d].store # 0 /\ device[d].store = device[e].store => d = e
  /\ \A d \in Devices : device[d].store # 0 /\ sessions[device[d].store].rotated
                        => \E c \in Calls : Renewed(c, d)

AskingHeld ==
  \A c \in Calls : Asking(c) =>
    /\ ~sessions[call[c].token].rotated
    /\ \A d \in Devices : device[d].store = call[c].token => call[c].dev = d
    /\ \A e \in Calls : Asking(e) /\ call[e].token = call[c].token => call[e].dev = call[c].dev

AnswersHeld ==
  \A c \in Calls : Carries(c) =>
    /\ ~sessions[call[c].got].rotated
    /\ \A d \in Devices : device[d].store # call[c].got
    /\ \A e \in Calls : Asking(e) => call[e].token # call[c].got
    /\ \A e \in Calls : Carries(e) /\ call[e].got = call[c].got => e = c

TokensHeld == AllWaitedFor /\ StoresHeld /\ AskingHeld /\ AnswersHeld

LEMMA HandFacts ==
  ASSUME Kept
  PROVE  /\ call \in [Calls -> Slots] /\ device \in [Devices -> Apps]
         /\ Len(sessions) \in Nat /\ Ids = 1 .. Len(sessions)
         /\ \A d \in Devices : device[d].store # 0 => device[d].store \in Ids
         /\ \A c \in Calls : /\ Asking(c) => call[c].token \in Ids
                             /\ Carries(c) => call[c].got \in Ids
         /\ Free.kind = "none" /\ Free.step = "sent" /\ Free.got = 0
<1>1. Free.kind = "none" /\ Free.step = "sent" /\ Free.got = 0
  BY DEF Free
<1> QED BY <1>1, KeptFacts DEF SlotsOK, AppsOK, Asking, Carries

(* What most steps do to a call: it goes on, or ends, with what it has.    *)
Calmer(c) ==
  /\ call'[c] = Free \/ (call'[c].wanted /\ call'[c].kind # "none")
  /\ call'[c].kind = "refresh" => call[c].kind = "refresh" /\ call'[c].dev = call[c].dev
  /\ Asking(c)' => Asking(c) /\ call'[c].token = call[c].token
  /\ Carries(c)' => Carries(c) /\ call'[c].got = call[c].got
  /\ call[c].step = "answer" => call'[c] = call[c]

LEMMA CalmerHeld ==
  ASSUME Kept, TokensHeld, \A d \in Devices : device'[d].store = device[d].store,
         \A s \in Ids : sessions'[s].rotated <=> sessions[s].rotated,
         \A c \in Calls : Calmer(c)
  PROVE  TokensHeld'
<1> USE HandFacts DEF TokensHeld
<1>1. AllWaitedFor'
  BY DEF AllWaitedFor, Calmer
<1>2. StoresHeld'
  BY DEF StoresHeld, Calmer, Renewed
<1>3. AskingHeld'
  BY DEF AskingHeld, Calmer, AllWaitedFor, Asking
<1>4. AnswersHeld'
  BY DEF AnswersHeld, Calmer
<1> QED BY <1>1, <1>2, <1>3, <1>4

LEMMA SameCalmer == ASSUME TokensHeld, NEW c \in Calls, call'[c] = call[c] PROVE Calmer(c)
BY DEF TokensHeld, AllWaitedFor, Calmer, Asking, Carries

LEMMA AnswerCalmer ==
  ASSUME Kept, TokensHeld, NEW c \in Calls, call[c].step # "answer", call[c].kind # "none",
         NEW reply, Answer(c, reply, 0)
  PROVE  \A e \in Calls : Calmer(e)
<1>1. call \in [Calls -> Slots] /\ Free.kind = "none" /\ Free.step = "sent" /\ Free.got = 0
  BY HandFacts
<1>2. \A e \in Calls : e # c => call'[e] = call[e]
  BY <1>1 DEF Answer
<1>3. ASSUME call[c].wanted PROVE Calmer(c)
  <2>1. /\ call'[c].wanted /\ call'[c].kind = call[c].kind /\ call'[c].dev = call[c].dev
        /\ call'[c].step = "answer" /\ call'[c].got = 0
    BY <1>1, <1>3 DEF Answer, Free
  <2> QED BY <2>1 DEF Calmer, Asking, Carries
<1>4. ASSUME ~call[c].wanted PROVE Calmer(c)
  <2>1. call'[c] = Free
    BY <1>1, <1>4 DEF Answer
  <2> QED BY <1>1, <2>1 DEF Calmer, Asking, Carries
<1>5. Calmer(c)
  BY <1>3, <1>4
<1> QED BY <1>2, <1>5, SameCalmer

LEMMA MovingCalmer ==
  ASSUME Kept, TokensHeld, NEW c \in Calls, NEW step \in {"commit", "revoke", "wait"},
         call[c].step # "answer", call[c].kind # "none",
         call[c].kind = "refresh" /\ step = "commit" => call[c].step = "sent",
         \A e \in Calls : e # c => call'[e] = call[e],
         call'[c].step = step, call'[c].kind = call[c].kind, call'[c].dev = call[c].dev,
         call'[c].token = call[c].token, call'[c].wanted = call[c].wanted
  PROVE  \A e \in Calls : Calmer(e)
<1>1. call[c].wanted
  BY HandFacts DEF TokensHeld, AllWaitedFor
<1>2. Calmer(c)
  BY <1>1 DEF Calmer, Asking, Carries
<1> QED BY <1>2, SameCalmer

LEMMA GotoCalmer ==
  ASSUME Kept, TokensHeld, NEW c \in Calls, NEW step \in {"commit", "revoke"},
         call[c].step # "answer", call[c].kind # "none",
         call[c].kind = "refresh" /\ step = "commit" => call[c].step = "sent",
         Goto(c, step)
  PROVE  \A e \in Calls : Calmer(e)
<1>1. /\ \A e \in Calls : e # c => call'[e] = call[e]
      /\ call'[c].step = step /\ call'[c].kind = call[c].kind /\ call'[c].dev = call[c].dev
      /\ call'[c].token = call[c].token /\ call'[c].wanted = call[c].wanted
  BY HandFacts DEF Goto, Slots
<1> QED BY <1>1, MovingCalmer

LEMMA WaitsCalmer ==
  ASSUME Kept, TokensHeld, NEW c \in Calls, call[c].kind # "none", RevokeWaits(c)
  PROVE  \A e \in Calls : Calmer(e)
<1>1. /\ \A e \in Calls : e # c => call'[e] = call[e]
      /\ call'[c].step = "wait" /\ call'[c].kind = call[c].kind /\ call'[c].dev = call[c].dev
      /\ call'[c].token = call[c].token /\ call'[c].wanted = call[c].wanted
  BY HandFacts DEF RevokeWaits, Slots
<1> QED BY <1>1, MovingCalmer DEF RevokeWaits

(* A login or a logout is sent.                                            *)
LEMMA SendCalmer ==
  ASSUME Kept, TokensHeld, NEW c \in Calls, NEW d \in Devices, NEW kind \in {"login", "logout"},
         Send(c, kind, d)
  PROVE  \A e \in Calls : Calmer(e)
<1>1. /\ \A e \in Calls : e # c => call'[e] = call[e]
      /\ call[c].step = "sent" /\ call'[c].kind = kind /\ call'[c].step = "sent" /\ call'[c].wanted
  BY HandFacts DEF Send, Free
<1>2. Calmer(c)
  BY <1>1 DEF Calmer, Asking, Carries
<1> QED BY <1>1, <1>2, SameCalmer

(* A refresh is sent: the app waits for none, so what it stores is unused. *)
LEMMA AskHeld ==
  ASSUME Kept, TokensHeld, NEW c \in Calls, NEW d \in Devices, device[d].store # 0,
         Send(c, "refresh", d), device' = device, sessions' = sessions
  PROVE  TokensHeld'
<1> USE HandFacts DEF TokensHeld
<1>1. /\ \A e \in Calls : e # c => call'[e] = call[e]
      /\ call[c] = Free
      /\ call'[c].kind = "refresh" /\ call'[c].step = "sent" /\ call'[c].wanted
      /\ call'[c].token = device[d].store /\ call'[c].dev = d
  BY DEF Send, Free
<1>2. \A e \in Calls : ~(call[e].kind = "refresh" /\ call[e].dev = d)
  BY DEF Send, Waiting, AllWaitedFor
<1>3. ~sessions[device[d].store].rotated
  BY <1>2 DEF StoresHeld, Renewed
<1>4. Asking(c)' /\ ~Carries(c)' /\ ~Carries(c) /\ ~Asking(c)
  BY <1>1 DEF Asking, Carries
<1>5. \A e \in Calls : e # c => (Asking(e)' <=> Asking(e)) /\ (Carries(e)' <=> Carries(e))
  BY <1>1 DEF Asking, Carries
<1>6. AllWaitedFor'
  BY <1>1, <1>2 DEF AllWaitedFor
<1>7. StoresHeld'
  BY <1>1 DEF StoresHeld, Renewed
<1>8. AskingHeld'
  <2>1. \A e \in Calls : Asking(e) => call[e].token # device[d].store
    BY <1>2 DEF AskingHeld, Asking
  <2> QED BY <1>1, <1>3, <1>4, <1>5, <2>1 DEF AskingHeld, StoresHeld
<1>9. AnswersHeld'
  BY <1>1, <1>4, <1>5 DEF AnswersHeld
<1> QED BY <1>6, <1>7, <1>8, <1>9

(* A session is issued: nobody has its token, and the one it replaces is   *)
(* replaced in the store of the app that the answer goes to.               *)
LEMMA IssueHeld ==
  ASSUME Kept, TokensHeld, NEW c \in Calls, call[c].kind # "none", call[c].step # "answer",
         NEW new, new = Len(sessions) + 1, Answer(c, "ok", new), device' = device,
         ~sessions'[new].rotated,
         \A s \in Ids : sessions'[s].rotated => sessions[s].rotated \/ (Asking(c) /\ s = call[c].token)
  PROVE  TokensHeld'
<1> USE HandFacts DEF TokensHeld
<1>1. call[c].wanted
  BY DEF AllWaitedFor
<1>2. /\ \A e \in Calls : e # c => call'[e] = call[e]
      /\ call'[c].kind = call[c].kind /\ call'[c].dev = call[c].dev /\ call'[c].step = "answer"
      /\ call'[c].reply = "ok" /\ call'[c].got = new /\ call'[c].wanted
  BY <1>1 DEF Answer, Free
<1>3. new \notin Ids /\ new # 0
  OBVIOUS
<1>4. Carries(c)' /\ ~Asking(c)' /\ ~Carries(c)
  BY <1>2, <1>3 DEF Asking, Carries
<1>5. \A e \in Calls : e # c => (Asking(e)' <=> Asking(e)) /\ (Carries(e)' <=> Carries(e))
  BY <1>2 DEF Asking, Carries
<1>6. AllWaitedFor'
  BY <1>1, <1>2 DEF AllWaitedFor
<1>7. StoresHeld'
  <2>1. ASSUME NEW d \in Devices, device[d].store # 0, sessions'[device[d].store].rotated
        PROVE  \E e \in Calls : Renewed(e, d)'
    <3>1. CASE sessions[device[d].store].rotated
      <4>1. PICK e \in Calls : Renewed(e, d)
        BY <2>1, <3>1 DEF StoresHeld
      <4>2. e # c
        BY <4>1 DEF Renewed
      <4> QED BY <1>2, <4>1, <4>2 DEF Renewed
    <3>2. CASE Asking(c) /\ device[d].store = call[c].token
      <4>1. call[c].dev = d
        BY <3>2 DEF AskingHeld
      <4>2. Renewed(c, d)'
        BY <1>2, <3>2, <4>1 DEF Renewed, Asking
      <4> QED BY <4>2
    <3> QED BY <2>1, <3>1, <3>2
  <2> QED BY <2>1 DEF StoresHeld
<1>8. AskingHeld'
  <2> SUFFICES ASSUME NEW e \in Calls, Asking(e)'
               PROVE  /\ ~sessions'[call'[e].token].rotated
                      /\ \A d \in Devices : device'[d].store = call'[e].token => call'[e].dev = d
                      /\ \A b \in Calls : Asking(b)' /\ call'[b].token = call'[e].token
                                            => call'[b].dev = call'[e].dev
    BY DEF AskingHeld
  <2>1. e # c /\ Asking(e) /\ call'[e] = call[e]
    BY <1>2, <1>4, <1>5
  <2>2. ~(Asking(c) /\ call[e].token = call[c].token)
    BY <2>1 DEF AskingHeld, AllWaitedFor, Asking
  <2>3. ~sessions'[call[e].token].rotated
    BY <2>1, <2>2 DEF AskingHeld
  <2> QED BY <1>2, <1>4, <1>5, <2>1, <2>3 DEF AskingHeld
<1>9. AnswersHeld'
  <2> SUFFICES ASSUME NEW e \in Calls, Carries(e)'
               PROVE  /\ ~sessions'[call'[e].got].rotated
                      /\ \A d \in Devices : device'[d].store # call'[e].got
                      /\ \A b \in Calls : Asking(b)' => call'[b].token # call'[e].got
                      /\ \A b \in Calls : Carries(b)' /\ call'[b].got = call'[e].got => b = e
    BY DEF AnswersHeld
  <2>1. CASE e = c
    BY <1>2, <1>3, <1>4, <1>5, <2>1
  <2>2. CASE e # c
    <3>1. Carries(e) /\ call'[e] = call[e] /\ call[e].got \in Ids
      BY <1>2, <1>5, <2>2
    <3>2. ~sessions'[call[e].got].rotated
      BY <3>1 DEF AnswersHeld
    <3> QED BY <1>2, <1>3, <1>4, <1>5, <3>1, <3>2 DEF AnswersHeld
  <2> QED BY <2>1, <2>2
<1> QED BY <1>6, <1>7, <1>8, <1>9

(* An answer arrives, or a logout fails.                                   *)
LEMMA DeliverHeld ==
  ASSUME Kept, TokensHeld, NEW c \in Calls, Deliver(c) \/ LogoutFails(c)
  PROVE  TokensHeld'
<1> USE HandFacts DEF TokensHeld
<1>0. PICK h : h = call[c].dev
  OBVIOUS
<1>1. /\ sessions' = sessions /\ call[c].step = "answer"
      /\ call'[c] = Free /\ \A e \in Calls : e # c => call'[e] = call[e]
      /\ h \in Devices
      /\ \A d \in Devices : d # h => device'[d] = device[d]
      /\ \/ device'[h] = Received(device[h], call[c])
         \/ device'[h] = SignedOut /\ call[c].kind = "logout"
  BY <1>0 DEF Deliver, LogoutFails, Slots, At
<1>2. \/ device'[h].store = 0
      \/ device'[h].store = call[c].got /\ Carries(c)
      \/ device'[h].store = device[h].store /\ ~Renewed(c, h)
  <2>1. device[h] \in Apps
    BY <1>1
  <2>2. CASE call[c].kind \in {"login", "refresh"} /\ call[c].reply = "ok"
    <3>1. device'[h] = Received(device[h], call[c])
      BY <1>1, <2>2
    <3>2. device'[h].store = call[c].got
      BY <2>1, <2>2, <3>1 DEF Received, Apps
    <3> QED BY <1>1, <3>2 DEF Carries
  <2>3. CASE ~(call[c].kind \in {"login", "refresh"} /\ call[c].reply = "ok")
    <3>1. device'[h] \in {device[h], SignedOut}
      BY <1>1, <2>3 DEF Received
    <3> QED BY <2>3, <3>1 DEF SignedOut, Renewed
  <2> QED BY <2>2, <2>3
<1>3. ~Asking(c)' /\ ~Carries(c)' /\ ~Asking(c) /\ call'[c].kind # "refresh"
  BY <1>1 DEF Asking, Carries
<1>4. \A e \in Calls : e # c => (Asking(e)' <=> Asking(e)) /\ (Carries(e)' <=> Carries(e))
  BY <1>1 DEF Asking, Carries
<1>5. AllWaitedFor'
  <2>1. ASSUME NEW e \in Calls PROVE call'[e] = Free \/ (call'[e].wanted /\ call'[e].kind # "none")
    <3>1. CASE e = c
      BY <1>1, <3>1
    <3>2. CASE e # c
      <4>1. call'[e] = call[e]
        BY <1>1, <3>2
      <4>2. call[e] = Free \/ (call[e].wanted /\ call[e].kind # "none")
        BY DEF AllWaitedFor
      <4> QED BY <4>1, <4>2
    <3> QED BY <3>1, <3>2
  <2>2. \A e \in Calls : call'[e].kind = "refresh" => e # c /\ call'[e] = call[e]
    BY <1>1, <1>3
  <2> QED BY <2>1, <2>2 DEF AllWaitedFor
<1>6. StoresHeld'
  <2>1. ASSUME NEW d \in Devices, NEW e \in Devices,
               device'[d].store # 0, device'[d].store = device'[e].store
        PROVE  d = e
    BY <1>1, <1>2, <2>1 DEF StoresHeld, AnswersHeld
  <2>2. ASSUME NEW d \in Devices, device'[d].store # 0, sessions'[device'[d].store].rotated
        PROVE  \E e \in Calls : Renewed(e, d)'
    <3>1. /\ device'[d].store = device[d].store /\ ~(d = h /\ Renewed(c, h))
      BY <1>1, <1>2, <2>2 DEF AnswersHeld
    <3>2. PICK e \in Calls : Renewed(e, d)
      BY <1>1, <2>2, <3>1 DEF StoresHeld
    <3>3. e # c
      BY <1>0, <3>1, <3>2 DEF Renewed
    <3> QED BY <1>1, <3>2, <3>3 DEF Renewed
  <2> QED BY <2>1, <2>2 DEF StoresHeld
<1>7. AskingHeld'
  BY <1>1, <1>2, <1>3, <1>4 DEF AskingHeld, AnswersHeld
<1>8. AnswersHeld'
  BY <1>1, <1>2, <1>3, <1>4 DEF AnswersHeld
<1> QED BY <1>5, <1>6, <1>7, <1>8

(* Revoking rotates nothing.                                               *)
LEMMA RevokedRotated ==
  ASSUME Kept, NEW set, \A s \in set \cap Ids : ~Locked(s), sessions' = Revoked(set)
  PROVE  \A s \in Ids : sessions'[s].rotated <=> sessions[s].rotated
<1>1. \A s \in Ids : sessions'[s] = IF s \in set THEN [sessions[s] EXCEPT !.revoked = TRUE]
                                               ELSE sessions[s]
  BY Revoking
<1>2. \A s \in Ids : sessions[s] \in AuthSession
  BY IdsFacts DEF Kept
<1> QED BY <1>1, <1>2 DEF AuthSession

(* An app that is killed cuts off the calls it waits for.                  *)
LEMMA RestartLoses ==
  ASSUME Kept, NEW d \in Devices, Restart(d)
  PROVE  /\ lost' \in Nat /\ lost' >= lost
         /\ lost' = lost => call' = call
         /\ \A e \in Devices : device'[e].store = device[e].store
<1> USE HandFacts, KeptFacts
<1> DEFINE cut == {c \in Calls : call[c].wanted /\ call[c].dev = d}
<1>1. /\ lost' = lost + Cardinality(cut)
      /\ call' = [c \in Calls |-> IF c \in cut THEN Dropped(call[c]) ELSE call[c]]
      /\ device' = [device EXCEPT ![d].in = device[d].store # 0]
  BY DEF Restart
<1>2. IsFiniteSet(cut) /\ Cardinality(cut) \in Nat
  BY SessionsAssumption, FS_Subset, FS_CardinalityType
<1> HIDE DEF cut
<1>3. lost' \in Nat /\ lost' >= lost
  BY <1>1, <1>2
<1>4. ASSUME lost' = lost PROVE call' = call
  <2>1. Cardinality(cut) = 0
    BY <1>1, <1>2, <1>4
  <2>2. cut = {}
    BY <1>2, <2>1, FS_EmptySet
  <2> QED BY <1>1, <2>2
<1>5. \A e \in Devices : device'[e].store = device[e].store
  BY <1>1 DEF Apps
<1> QED BY <1>3, <1>4, <1>5

LEMMA LostGrows ==
  ASSUME Kept, [Next]_vars
  PROVE  lost' \in Nat /\ lost' >= lost
<1> USE KeptFacts
<1>1. ASSUME NEW d \in Devices, Restart(d) PROVE lost' \in Nat /\ lost' >= lost
  BY <1>1, RestartLoses
<1>2. ASSUME NEW c \in Calls, GiveUp(c) PROVE lost' \in Nat /\ lost' >= lost
  BY <1>2 DEF GiveUp
<1>3. ASSUME lost' = lost PROVE lost' \in Nat /\ lost' >= lost
  BY <1>3
<1> QED BY <1>1, <1>2, <1>3 DEF Next, vars, Tick, Login, AskRefresh, Logout, AdmitLogin,
     IssueLogin, LockRefresh, Rotate, AbortRotate, RevokeFamily, RevokeWaits, RevokeResumes,
     AuthenticateLogout, Deliver, LogoutFails, Suspend, Unsuspend

(* Every step that loses no call leaves every token in one pair of hands.  *)
LEMMA HeldNext ==
  ASSUME Kept, TokensHeld, [Next]_vars, lost' = lost
  PROVE  TokensHeld' /\ alarms' = alarms
<1> USE HandFacts, KeptFacts
<1> DEFINE Goal == TokensHeld' /\ alarms' = alarms
           Same == /\ device' = device /\ alarms' = alarms
                   /\ \A s \in Ids : sessions'[s].rotated <=> sessions[s].rotated
<1>1. ASSUME Same, \A c \in Calls : Calmer(c) PROVE Goal
  BY <1>1, CalmerHeld
<1>2. ASSUME UNCHANGED <<sessions, device, alarms>> PROVE Same
  BY <1>2
<1>3. ASSUME call' = call PROVE \A c \in Calls : Calmer(c)
  BY <1>3, SameCalmer
<1> HIDE DEF Same, Goal
<1>4. CASE Tick \/ UNCHANGED vars \/ \E u \in Users : Unsuspend(u)
  <2>1. UNCHANGED <<sessions, device, alarms>> /\ call' = call
    BY <1>4 DEF Tick, Unsuspend, vars
  <2> QED BY <1>1, <1>2, <1>3, <2>1 DEF Goal
<1>5. ASSUME NEW u \in Users, Suspend(u) PROVE Goal
  <2> DEFINE set == {s \in Ids : sessions[s].user = u}
  <2>1. \A s \in set \cap Ids : ~Locked(s)
    BY <1>5 DEF Suspend
  <2>2. sessions' = Revoked(set) /\ call' = call /\ device' = device /\ alarms' = alarms
    BY <1>5 DEF Suspend
  <2> HIDE DEF set
  <2>3. \A s \in Ids : sessions'[s].rotated <=> sessions[s].rotated
    BY <2>1, <2>2, RevokedRotated
  <2> QED BY <1>1, <1>3, <2>2, <2>3 DEF Same
<1>6. ASSUME NEW d \in Devices, NEW c \in Calls, Login(d, c) \/ Logout(d, c) PROVE Goal
  BY <1>1, <1>2, <1>6, SendCalmer DEF Login, Logout
<1>7. ASSUME NEW d \in Devices, NEW c \in Calls, AskRefresh(d, c) PROVE Goal
  BY <1>7, AskHeld DEF AskRefresh, Goal
<1>8. ASSUME NEW c \in Calls, AdmitLogin(c) \/ AbortRotate(c) \/ AuthenticateLogout(c) PROVE Goal
  <2>1. /\ call[c].kind # "none" /\ call[c].step # "answer"
        /\ call[c].kind = "refresh" => Answer(c, "failed", 0)
    BY <1>8 DEF AdmitLogin, AbortRotate, AuthenticateLogout, At
  <2>2. \/ Answer(c, "failed", 0) \/ Goto(c, "commit") \/ Goto(c, "revoke")
    BY <1>8 DEF AdmitLogin, AbortRotate, AuthenticateLogout
  <2>3. \A e \in Calls : Calmer(e)
    BY <2>1, <2>2, AnswerCalmer, GotoCalmer
  <2>4. Same
    BY <1>2, <1>8 DEF AdmitLogin, AbortRotate, AuthenticateLogout
  <2> QED BY <1>1, <2>3, <2>4
<1>9. ASSUME NEW c \in Calls, IssueLogin(c) \/ Rotate(c) PROVE Goal
  <2>1. PICK new : new = Len(sessions) + 1
    OBVIOUS
  <2>2. /\ new \in Nat /\ Len(sessions) <= new /\ new <= MaxSessions /\ now \in Nat
        /\ Answer(c, "ok", new)
        /\ call[c].kind # "none" /\ call[c].step = "commit"
        /\ UNCHANGED <<now, suspended, device, lost, alarms>>
    BY <1>9, <2>1 DEF IssueLogin, Rotate, At
  <2>3. Steady /\ ~Committing(c)'
    BY <2>2, Answering
  <2>4. /\ ~sessions'[new].rotated
        /\ \A s \in Ids : sessions'[s].rotated =>
              sessions[s].rotated \/ (Asking(c) /\ s = call[c].token)
    <3>1. CASE IssueLogin(c)
      <4>1. Owner[call[c].dev] \in Users
        BY SessionsAssumption DEF SlotsOK, Slots
      <4> QED BY <2>1, <2>2, <2>3, <3>1, <4>1, LoginTable DEF IssueLogin
    <3>2. CASE Rotate(c)
      <4>1. Committing(c) /\ Asking(c) /\ sessions' = Rotated(c)
        BY <3>2 DEF Rotate, Committing, Asking, At
      <4>2. /\ ~sessions'[Len(sessions) + 1].rotated
            /\ \A s \in Ids : s # call[c].token
                              => (sessions'[s].rotated <=> sessions[s].rotated)
        BY <2>2, <2>3, <4>1, RotatedTable
      <4> QED BY <2>1, <4>1, <4>2
    <3> QED BY <1>9, <3>1, <3>2
  <2> QED BY <2>1, <2>2, <2>4, IssueHeld DEF Goal
<1>10. ASSUME NEW c \in Calls, LockRefresh(c) PROVE Goal
  <2>1. call[c].kind = "refresh" /\ call[c].step = "sent" /\ Asking(c)
    BY <1>10 DEF LockRefresh, At, Asking
  <2>2. ~sessions[call[c].token].rotated
    BY <2>1 DEF TokensHeld, AskingHeld
  <2>3. Answer(c, "refused", 0) \/ Goto(c, "revoke") \/ Goto(c, "commit")
    BY <1>10, <2>2 DEF LockRefresh
  <2>4. Same
    BY <1>2, <1>10, <2>2 DEF LockRefresh
  <2>5. \A e \in Calls : Calmer(e)
    BY <2>1, <2>3, AnswerCalmer, GotoCalmer
  <2> QED BY <1>1, <2>4, <2>5
<1>11. ASSUME NEW c \in Calls, RevokeFamily(c) \/ RevokeWaits(c) \/ RevokeResumes(c) PROVE Goal
  <2>1. call[c].step \in {"revoke", "wait"} /\ call[c].kind # "none"
    BY <1>11 DEF RevokeFamily, RevokeWaits, RevokeResumes, TokensHeld, AllWaitedFor
  <2>2. CASE RevokeWaits(c)
    BY <1>1, <1>2, <2>1, <2>2, WaitsCalmer DEF RevokeWaits
  <2>3. CASE RevokeFamily(c) \/ RevokeResumes(c)
    <3>1. PICK set : (\A s \in set \cap Ids : ~Locked(s)) /\ sessions' = Revoked(set)
      BY <2>3 DEF RevokeFamily, RevokeResumes
    <3>2. \A s \in Ids : sessions'[s].rotated <=> sessions[s].rotated
      BY <3>1, RevokedRotated
    <3>3. PICK reply : Answer(c, reply, 0)
      BY <2>3 DEF RevokeFamily, RevokeResumes
    <3>4. device' = device /\ alarms' = alarms
      BY <2>3 DEF RevokeFamily, RevokeResumes
    <3>5. \A e \in Calls : Calmer(e)
      BY <2>1, <3>3, AnswerCalmer
    <3> QED BY <1>1, <3>2, <3>4, <3>5 DEF Same
  <2> QED BY <1>11, <2>2, <2>3
<1>12. ASSUME NEW c \in Calls, Deliver(c) \/ LogoutFails(c) PROVE Goal
  <2>1. TokensHeld'
    BY <1>12, DeliverHeld
  <2> QED BY <1>12, <2>1 DEF Deliver, LogoutFails, Goal
<1>13. ASSUME NEW c \in Calls, GiveUp(c) PROVE FALSE
  BY <1>13 DEF GiveUp
<1>14. ASSUME NEW d \in Devices, Restart(d) PROVE Goal
  <2>1. call' = call /\ \A e \in Devices : device'[e].store = device[e].store
    BY <1>14, RestartLoses
  <2>2. sessions' = sessions /\ alarms' = alarms
    BY <1>14 DEF Restart
  <2> QED BY <1>3, <2>1, <2>2, CalmerHeld DEF Goal
<1>15. Goal
  BY <1>4, <1>5, <1>6, <1>7, <1>8, <1>9, <1>10, <1>11, <1>12, <1>13, <1>14 DEF Next, Goal, Tick,
     Unsuspend, vars
<1> QED BY <1>15 DEF Goal

-----------------------------------------------------------------------------
(* Part 6: the theorems.                                                   *)
LEMMA AlwaysKept == Spec => []Kept
BY KeptInit, KeptNext, PTL DEF Spec

LEMMA AlwaysWaits == Spec => [](Kept /\ WaitsOK)
<1>1. Init => Kept /\ WaitsOK
  BY KeptInit DEF Init, WaitsOK, InRevocation, Free
<1>2. Kept /\ WaitsOK /\ [Next]_vars => (Kept /\ WaitsOK)'
  BY KeptNext, WaitsNext
<1> QED BY <1>1, <1>2, PTL DEF Spec

Calm == lost = 0 => TokensHeld /\ alarms = 0

LEMMA AlwaysCalm == Spec => []Calm
<1>1. Init => Calm
  <2> SUFFICES ASSUME Init PROVE TokensHeld /\ alarms = 0
    BY DEF Calm
  <2>1. /\ \A c \in Calls : call[c] = Free
        /\ \A d \in Devices : device[d].store = 0
        /\ Free.kind = "none" /\ Free.step = "sent" /\ alarms = 0
    BY DEF Init, Free
  <2>2. AllWaitedFor /\ StoresHeld
    BY <2>1 DEF AllWaitedFor, StoresHeld
  <2>3. \A c \in Calls : ~Asking(c) /\ ~Carries(c)
    BY <2>1 DEF Asking, Carries
  <2> QED BY <2>1, <2>2, <2>3 DEF TokensHeld, AskingHeld, AnswersHeld
<1>2. Kept /\ Calm /\ [Next]_vars => Calm'
  <2> SUFFICES ASSUME Kept, Calm, [Next]_vars, lost' = 0 PROVE TokensHeld' /\ alarms' = 0
    BY DEF Calm
  <2>1. lost = 0
    BY LostGrows, KeptFacts
  <2> QED BY <2>1, HeldNext DEF Calm
<1> QED BY AlwaysKept, <1>1, <1>2, PTL DEF Spec

(* Every reachable state of logins, apps and calls is of its type.         *)
THEOREM SessionTyping == Spec => []TypeOK
<1>1. Kept => TypeOK BY DEF Kept
<1> QED BY AlwaysKept, <1>1, PTL

(* sessions.refresh and revoke_family: a login has one working session.    *)
THEOREM OneLive == Spec => []OneLivePerFamily
<1>1. Kept => OneLivePerFamily BY DEF Kept
<1> QED BY AlwaysKept, <1>1, PTL

(* sessions.refresh against user_suspend: a suspended user's login is not  *)
(* renewed, though the two transactions overlap.                           *)
THEOREM NoRenewal == Spec => []SuspendedNeverRenews
<1>1. Kept => SuspendedNeverRenews BY DEF Kept
<1> QED BY AlwaysKept, <1>1, PTL

(* sessions.refresh: each refresh token has one successor, exactly when it *)
(* is rotated.                                                             *)
THEOREM TokenOnce == Spec => []EachTokenOnce
<1>1. Kept => EachTokenOnce
  <2> SUFFICES ASSUME Kept, NEW s \in Ids
               PROVE  Cardinality({t \in Ids : sessions[t].parent = s})
                        = IF sessions[s].rotated THEN 1 ELSE 0
    BY DEF EachTokenOnce
  <2> DEFINE children == {t \in Ids : sessions[t].parent = s}
  <2>1. s # 0
    BY KeptFacts
  <2>2. CASE sessions[s].rotated
    <3>1. PICK t \in Ids : sessions[t].parent = s
      BY <2>2 DEF Kept, RowsOK
    <3>2. children = {t}
      BY <2>1, <3>1 DEF Kept, OneChild
    <3> QED BY <2>2, <3>2, FS_Singleton
  <2>3. CASE ~sessions[s].rotated
    <3>1. children = {}
      BY <2>1, <2>3 DEF Kept, RowsOK
    <3> QED BY <2>3, <3>1, FS_EmptySet
  <2> QED BY <2>2, <2>3
<1> QED BY AlwaysKept, <1>1, PTL

(* sessions.revoke_family under READ COMMITTED: when its UPDATE is over,   *)
(* what works in the family is newer than a session the UPDATE waited for. *)
THEOREM RevocationHolds == Spec => RevokesAllButRacing
<1> DEFINE Over(c) ==
      call[c].step \in {"revoke", "wait"} /\ call'[c].step \notin {"revoke", "wait"} =>
        \A s \in Ids' : sessions'[s].family = Family(c) /\ ~sessions'[s].revoked =>
          \E t \in call[c].seen : t < s
<1>1. ASSUME Kept, WaitsOK, [Next]_vars, NEW c \in Calls PROVE Over(c)
  <2> SUFFICES ASSUME InRevocation(c), ~InRevocation(c)',
                      NEW s \in Ids', sessions'[s].family = Family(c), ~sessions'[s].revoked
               PROVE  \E t \in call[c].seen : t < s
    BY DEF InRevocation
  <2>0. RevokeFamily(c) \/ RevokeResumes(c)
    BY <1>1, LeavesByRevoking
  <2>1. PICK set : /\ sessions' = Revoked(set)
                   /\ set = LiveOf(Family(c)) \/ (call[c].step = "wait" /\ set = call[c].seen)
    BY <2>0 DEF RevokeFamily, RevokeResumes, Visible
  <2>2. s \in Ids /\ sessions[s].family = Family(c) /\ Live(s) /\ s \notin set
    BY <1>1, <2>1 DEF Revoked, Ids, Live, Kept, TypeOK, AuthSession
  <2>3. s \in LiveOf(Family(c)) /\ call[c].step = "wait" /\ s \notin call[c].seen
    BY <2>1, <2>2 DEF LiveOf
  <2> QED BY <1>1, <2>3 DEF WaitsOK
<1>2. Kept /\ WaitsOK /\ [Next]_vars => [\A c \in Calls : Over(c)]_vars
  BY <1>1
<1> QED BY AlwaysWaits, <1>2, PTL DEF Spec, RevokesAllButRacing

(* An app that no call was lost on is never taken for a thief, however the *)
(* refreshes, logins, logouts and late answers of all the apps interleave. *)
THEOREM NeverTakenForThief == Spec => []NoFalseAlarm
<1>1. Kept /\ Calm => NoFalseAlarm
  BY KeptFacts DEF Calm, NoFalseAlarm
<1> QED BY AlwaysKept, AlwaysCalm, <1>1, PTL
=============================================================================
