------------------------- MODULE VerificationProofs -------------------------
(* One open session per user and one Telegram account per verified user,   *)
(* with any number of people, bots, handlers, accounts and sessions.       *)
EXTENDS Verification, SequenceTheorems, TLAPS

InContact(h) == handler[h].op \in {"contact", "complete"}

(* A pending account is not verified, a session belongs to a user, and one *)
(* that is open has a wrong number left.                                   *)
RowsOK ==
  /\ \A i \in UserIds : Pending(i) => ~users[i].verified
  /\ \A s \in SessionIds :
       /\ sessions[s].user \in UserIds
       /\ sessions[s].status \in OpenStatuses => sessions[s].mismatches < MaxMismatches

(* A user's open session is the last one: the one open_session looks at.   *)
OpenIsLatest ==
  \A r, s \in SessionIds :
    sessions[r].user = sessions[s].user /\ sessions[s].status \in OpenStatuses => r <= s

(* What the row lock of a session keeps true from a contact's first look   *)
(* to its commit, whatever becomes of the user's status.                   *)
ContactOK(task) ==
  LET i == task.user
      s == task.session
  IN
  /\ s \in SessionIds /\ sessions[s].user = i
  /\ sessions[s].status \in OpenStatuses /\ sessions[s].tg = task.tg
  /\ Exists(i) /\ ~users[i].verified
  /\ task.tg \in Telegrams /\ users[i].phone \in NumbersOf[task.tg]

ContactsOK ==
  /\ \A h \in Handlers : handler[h].op # "idle" => handler[h].user \in UserIds
  /\ \A h \in Handlers : InContact(h) => ContactOK(handler[h])
  /\ \A g, h \in Handlers :
       InContact(g) /\ InContact(h) /\ handler[g].session = handler[h].session => g = h

(* Who is proved is a user who is verified by that Telegram account.       *)
ProofsOK ==
  \A p \in proofs : Exists(p.user) /\ users[p.user].verified /\ users[p.user].tg = p.tg

Linked == TypeOK /\ RowsOK /\ OpenIsLatest /\ ContactsOK /\ ProofsOK /\ LinkedByOwnNumber
-----------------------------------------------------------------------------
(* Part 1: the tables and what changes in them.                            *)
LEMMA Tables ==
  ASSUME TypeOK
  PROVE  /\ Len(users) \in Nat /\ UserIds = 1 .. Len(users)
         /\ \A i \in UserIds : users[i] \in UserRows
         /\ users \in [1 .. Len(users) -> UserRows]
         /\ Len(sessions) \in Nat /\ SessionIds = 1 .. Len(sessions)
         /\ \A s \in SessionIds : sessions[s] \in SessionRows
         /\ sessions \in [1 .. Len(sessions) -> SessionRows]
BY LenProperties, ElementOfSeq DEF TypeOK, UserIds, SessionIds

LEMMA FunctionIsSeq ==
  ASSUME NEW S, NEW n \in Nat, NEW f \in [1 .. n -> S]
  PROVE  f \in Seq(S) /\ Len(f) = n
BY SeqDef, LenProperties

LEMMA IdleTyped == Idle \in Tasks /\ Idle.op = "idle" /\ Idle.user = 0
BY DEF Idle, Tasks, Never

(* Changing the row of one user or of one session.                         *)
LEMMA UserSet ==
  ASSUME TypeOK, NEW i \in UserIds, NEW row \in UserRows, users' = [users EXCEPT ![i] = row]
  PROVE  /\ users' \in Seq(UserRows) /\ UserIds' = UserIds
         /\ users'[i] = row /\ \A j \in UserIds : j # i => users'[j] = users[j]
<1>1. users' \in [1 .. Len(users) -> UserRows] /\ Len(users) \in Nat
  BY Tables
<1>2. users' \in Seq(UserRows) /\ Len(users') = Len(users)
  BY <1>1, FunctionIsSeq
<1> QED BY <1>1, <1>2, Tables DEF UserIds

LEMMA SessionSet ==
  ASSUME TypeOK, NEW s \in SessionIds, NEW row \in SessionRows,
         sessions' = [sessions EXCEPT ![s] = row]
  PROVE  /\ sessions' \in Seq(SessionRows) /\ SessionIds' = SessionIds
         /\ sessions'[s] = row /\ \A r \in SessionIds : r # s => sessions'[r] = sessions[r]
<1>1. sessions' \in [1 .. Len(sessions) -> SessionRows] /\ Len(sessions) \in Nat
  BY Tables
<1>2. sessions' \in Seq(SessionRows) /\ Len(sessions') = Len(sessions)
  BY <1>1, FunctionIsSeq
<1> QED BY <1>1, <1>2, Tables DEF SessionIds

(* Deleting users, and the sessions that cascade from them.                *)
LEMMA UsersDeleted ==
  ASSUME TypeOK, NEW ids
  PROVE  LET left == UsersWithout(ids) IN
         /\ left \in Seq(UserRows) /\ Len(left) = Len(users) /\ DOMAIN left = UserIds
         /\ \A i \in UserIds : IF i \in ids THEN left[i] = [users[i] EXCEPT !.status = "DELETED"]
                                            ELSE left[i] = users[i]
<1> DEFINE left == UsersWithout(ids)
<1>1. \A row \in UserRows : [row EXCEPT !.status = "DELETED"] \in UserRows
  BY DEF UserRows
<1>2. left \in [1 .. Len(users) -> UserRows] /\ Len(users) \in Nat /\ UserIds = 1 .. Len(users)
  BY <1>1, Tables DEF UsersWithout
<1>3. left \in Seq(UserRows) /\ Len(left) = Len(users)
  <2> HIDE DEF left
  <2> QED BY <1>2, FunctionIsSeq
<1> QED BY <1>2, <1>3 DEF UsersWithout

LEMMA SessionsDeleted ==
  ASSUME TypeOK, NEW ids, NEW table \in Seq(SessionRows), DOMAIN table = SessionIds
  PROVE  LET left == SessionsWithout(ids, table) IN
         /\ left \in Seq(SessionRows) /\ DOMAIN left = SessionIds
         /\ \A s \in SessionIds :
              left[s] = IF table[s].user \in ids THEN [table[s] EXCEPT !.status = "DELETED"]
                                                ELSE table[s]
<1> DEFINE left == SessionsWithout(ids, table)
<1>1. \A s \in SessionIds : table[s] \in SessionRows
  BY ElementOfSeq, LenProperties
<1>2. Len(sessions) \in Nat /\ SessionIds = 1 .. Len(sessions)
  BY Tables
<1>3. \A row \in SessionRows : [row EXCEPT !.status = "DELETED"] \in SessionRows
  BY DEF SessionRows
<1>4. left \in [1 .. Len(sessions) -> SessionRows] /\ Len(sessions) \in Nat
      /\ SessionIds = 1 .. Len(sessions)
  BY <1>1, <1>2, <1>3 DEF SessionsWithout
<1>5. left \in Seq(SessionRows)
  <2> HIDE DEF left
  <2> QED BY <1>4, FunctionIsSeq
<1> QED BY <1>4, <1>5 DEF SessionsWithout

-----------------------------------------------------------------------------
(* Part 2: what keeps each part of the invariant.                          *)

(* SessionsEnd of one step.                                                *)
Ageing ==
  \A s \in SessionIds :
    /\ s \in DOMAIN sessions'
    /\ sessions'[s].user = sessions[s].user /\ sessions'[s].bot = sessions[s].bot
    /\ sessions[s].status \in FinalStatuses
         => sessions'[s].status \in {sessions[s].status, "DELETED"}
    /\ sessions[s].status = "DELETED" => sessions'[s] = sessions[s]
    /\ sessions'[s].mismatches >= sessions[s].mismatches

(* No closed session opens again.                                          *)
Reopens(s) == sessions[s].status \notin OpenStatuses /\ sessions'[s].status \in OpenStatuses

(* A user keeps what a contact relies on, and what links the account.      *)
SameUser(i) ==
  /\ i \in UserIds' /\ (Exists(i)' <=> Exists(i))
  /\ users'[i].phone = users[i].phone /\ users'[i].tg = users[i].tg
  /\ users'[i].verified = users[i].verified

(* A contact that goes on keeps its user, its session and their rows.      *)
GoesOn(h) ==
  /\ InContact(h)
  /\ handler'[h].user = handler[h].user /\ handler'[h].session = handler[h].session
  /\ handler'[h].tg = handler[h].tg
  /\ SameUser(handler[h].user)
  /\ handler[h].session \in SessionIds'
  /\ sessions'[handler[h].session] = sessions[handler[h].session]

LEMMA ContactsKept ==
  ASSUME Linked,
         \A h \in Handlers : handler'[h].op # "idle" => handler'[h].user \in UserIds',
         \A h \in Handlers : InContact(h)' => GoesOn(h)
  PROVE  ContactsOK'
<1>1. ASSUME NEW h \in Handlers, InContact(h)' PROVE ContactOK(handler[h])'
  BY <1>1 DEF Linked, ContactsOK, ContactOK, GoesOn, SameUser
<1>2. ASSUME NEW g \in Handlers, NEW h \in Handlers, InContact(g)', InContact(h)',
             handler'[g].session = handler'[h].session
      PROVE  g = h
  BY <1>2 DEF Linked, ContactsOK, GoesOn
<1> QED BY <1>1, <1>2 DEF ContactsOK

LEMMA LinksKept ==
  ASSUME Linked, proofs' \subseteq proofs,
         \A p \in proofs' : /\ SameUser(p.user)
                            /\ p.session \in SessionIds' /\ sessions'[p.session] = sessions[p.session],
         \A i \in UserIds' : Exists(i)' /\ users'[i].verified =>
           i \in UserIds /\ SameUser(i) /\ {p \in proofs : p.user = i} \subseteq proofs'
  PROVE  ProofsOK' /\ LinkedByOwnNumber'
<1>1. ProofsOK'
  BY DEF Linked, ProofsOK, SameUser
<1>2. \A i \in UserIds' : Exists(i)' /\ users'[i].verified =>
        \E p \in proofs' : p.user = i /\ p.tg = users'[i].tg
  BY DEF Linked, LinkedByOwnNumber, SameUser
<1>3. \A p \in proofs' : /\ users'[p.user].phone \in NumbersOf[p.tg]
                         /\ sessions'[p.session].user = p.user
                         /\ sessions'[p.session].tg = p.tg
                         /\ sessions'[p.session].status = "COMPLETED"
  BY DEF Linked, LinkedByOwnNumber, SameUser
<1>4. \A p, q \in proofs' : p.tg = q.tg \/ p.user = q.user => p = q
  BY DEF Linked, LinkedByOwnNumber
<1> QED BY <1>1, <1>2, <1>3, <1>4 DEF LinkedByOwnNumber

(* Every user and every session a proof or a contact names exists, and     *)
(* none of these sessions is both in a contact and in a proof.             *)
LEMMA LinkedFacts ==
  ASSUME Linked
  PROVE  /\ TypeOK
         /\ \A p \in proofs : /\ p.user \in UserIds /\ p.session \in SessionIds /\ p.tg \in Telegrams
                              /\ sessions[p.session].status = "COMPLETED"
                              /\ sessions[p.session].user = p.user
         /\ \A h \in Handlers : InContact(h) =>
              /\ handler[h].user \in UserIds /\ handler[h].session \in SessionIds
              /\ sessions[handler[h].session].status \in OpenStatuses
              /\ sessions[handler[h].session].user = handler[h].user
              /\ SessionLocked(handler[h].session)
BY DEF Linked, TypeOK, ContactsOK, ContactOK, LinkedByOwnNumber, InContact, SessionLocked

(* What may go is not in a contact.                                        *)
LEMMA DeletableFree ==
  ASSUME Linked, NEW i \in UserIds, Deletable(i), NEW h \in Handlers, InContact(h)
  PROVE  handler[h].user # i
BY LinkedFacts DEF Deletable, SessionsOf, OpenStatuses

LEMMA LatestKept ==
  ASSUME Linked, SessionIds' = SessionIds, Ageing, \A s \in SessionIds : ~Reopens(s)
  PROVE  OpenIsLatest'
BY DEF Linked, OpenIsLatest, Ageing, Reopens

LEMMA AgeingSame == ASSUME TypeOK, sessions' = sessions
                    PROVE  Ageing /\ SessionIds' = SessionIds /\ \A s \in SessionIds : ~Reopens(s)
BY Tables DEF Ageing, Reopens, SessionRows, SessionIds

-----------------------------------------------------------------------------
(* Part 3: the steps, by what they change.                                 *)
LEMMA LinkedInit == Init => Linked
<1> SUFFICES ASSUME Init PROVE Linked
  OBVIOUS
<1>1. users = <<>> /\ sessions = <<>> /\ UserIds = {} /\ SessionIds = {}
  BY DEF Init, UserIds, SessionIds
<1>2. TypeOK
  BY <1>1, IdleTyped, EmptySeq DEF Init, TypeOK, NotCleaning
<1> QED
  BY <1>1, <1>2, IdleTyped DEF Init, Linked, RowsOK, OpenIsLatest, ContactsOK, InContact, ProofsOK,
     LinkedByOwnNumber

(* The clock, bots, housekeeping's reading, and rows of other tables.      *)
LEMMA OutsideKeeps ==
  ASSUME Linked, UNCHANGED vars \/ Tick \/ FindExpired \/ CleaningFails
                 \/ (\E b \in Bots : BotChange(b)) \/ \E i \in UserIds : Keep(i)
  PROVE  Linked' /\ Ageing
<1>1. UNCHANGED <<users, sessions, proofs, members, handler>>
  BY DEF vars, Tick, FindExpired, CleaningFails, BotChange, Keep
<1>2. TypeOK'
  <2>1. now' \in Nat /\ kept' \subseteq UserIds /\ gone' \subseteq Bots
    BY DEF Linked, TypeOK, vars, Tick, FindExpired, CleaningFails, BotChange, Keep
  <2>2. cleaning' \in {cleaning, NotCleaning, [on |-> TRUE, at |-> now, ids |-> Expired(now)]}
    BY DEF vars, Tick, FindExpired, CleaningFails, BotChange, Keep
  <2>3. cleaning' \in [on : BOOLEAN, at : Nat, ids : SUBSET UserIds]
    <3> DEFINE Cleanings == [on : BOOLEAN, at : Nat, ids : SUBSET UserIds]
    <3>1. cleaning \in Cleanings
      BY DEF Linked, TypeOK
    <3>2. NotCleaning \in Cleanings
      BY DEF NotCleaning
    <3>3. Expired(now) \in SUBSET UserIds /\ now \in Nat
      BY DEF Expired, Linked, TypeOK
    <3>4. [on |-> TRUE, at |-> now, ids |-> Expired(now)] \in Cleanings
      BY <3>3
    <3> QED BY <2>2, <3>1, <3>2, <3>4
  <2> QED BY <1>1, <2>1, <2>3 DEF Linked, TypeOK, UserIds, SessionIds
<1>3. Ageing
  BY <1>1, AgeingSame DEF Linked
<1> QED
  BY <1>1, <1>2, <1>3 DEF Linked, RowsOK, OpenIsLatest, ContactsOK, ContactOK, InContact, ProofsOK,
     LinkedByOwnNumber, UserIds, SessionIds, Pending, Exists

(* A handler reads, locks or gives up.                                     *)
LEMMA HandlerKeeps ==
  ASSUME Linked, NEW h \in Handlers,
         \/ Abort(h) \/ LockUser(h)
         \/ \E i \in UserIds : AdmitOpen(h, i)
         \/ \E s \in SessionIds, tg \in Telegrams : ContactMatches(h, s, tg)
  PROVE  Linked' /\ Ageing
<1>1. UNCHANGED <<now, users, sessions, proofs, kept, members, gone, cleaning>>
  BY DEF Abort, LockUser, AdmitOpen, ContactMatches
<1>2. /\ handler \in [Handlers -> Tasks] /\ TypeOK
      /\ UserIds \subseteq Nat /\ SessionIds \subseteq Nat
      /\ \A i \in UserIds : users[i].expires \in Nat
  BY Tables DEF Linked, TypeOK, UserRows
<1>3. /\ handler'[h] \in Tasks /\ handler' = [handler EXCEPT ![h] = handler'[h]]
      /\ handler'[h].op # "idle" => handler'[h].user \in UserIds
      /\ \/ ~InContact(h)'
         \/ /\ InContact(h)
            /\ handler'[h].user = handler[h].user /\ handler'[h].session = handler[h].session
            /\ handler'[h].tg = handler[h].tg
         \/ /\ handler'[h].session \in SessionIds /\ ~SessionLocked(handler'[h].session)
            /\ ContactOK(handler'[h])
  <2>1. CASE Abort(h)
    BY <1>2, <2>1, IdleTyped DEF Abort, InContact
  <2>2. CASE LockUser(h)
    <3>1. handler[h].op = "contact" /\ handler[h].user \in UserIds /\ handler[h] \in Tasks
      BY <1>2, <2>2 DEF LockUser, Linked, ContactsOK
    <3> QED BY <1>2, <2>2, <3>1, IdleTyped DEF LockUser, InContact, Tasks
  <2>3. ASSUME NEW i \in UserIds, AdmitOpen(h, i) PROVE <1>3
    BY <1>2, <2>3, IdleTyped DEF AdmitOpen, InContact, Tasks, Idle
  <2>4. ASSUME NEW s \in SessionIds, NEW tg \in Telegrams, ContactMatches(h, s, tg) PROVE <1>3
    <3>1. sessions[s].user \in UserIds
      BY DEF Linked, RowsOK
    <3>2. handler'[h] \in Tasks /\ handler' = [handler EXCEPT ![h] = handler'[h]]
          /\ handler'[h] = [op |-> "contact", user |-> sessions[s].user,
                            session |-> s, tg |-> tg, expires |-> Never]
      BY <1>2, <2>4, <3>1 DEF ContactMatches, Tasks, Never
    <3>3. ContactOK(handler'[h]) /\ ~SessionLocked(s)
      BY <2>4, <3>1, <3>2 DEF ContactMatches, SessionFor, ContactOK, OwnNumber, Open, Pending, Exists,
         Linked, RowsOK
    <3> QED BY <3>1, <3>2, <3>3
  <2> QED BY <2>1, <2>2, <2>3, <2>4
<1>4. TypeOK' /\ Ageing
  BY <1>1, <1>2, <1>3, AgeingSame DEF TypeOK, UserIds, SessionIds
<1>5. \A g \in Handlers : g # h => handler'[g] = handler[g]
  BY <1>2, <1>3
<1>6. ContactsOK'
  <2>1. \A g \in Handlers : handler'[g].op # "idle" => handler'[g].user \in UserIds
    BY <1>3, <1>5 DEF Linked, ContactsOK
  <2>2. ASSUME NEW g \in Handlers, InContact(g)'
        PROVE  ContactOK(handler'[g])
    BY <1>3, <1>5, <2>2 DEF Linked, ContactsOK, InContact, ContactOK
  <2>3. ASSUME NEW f \in Handlers, NEW g \in Handlers, InContact(f)', InContact(g)',
               handler'[f].session = handler'[g].session
        PROVE  f = g
    BY <1>3, <1>5, <2>3 DEF Linked, ContactsOK, InContact, SessionLocked
  <2> QED BY <1>1, <2>1, <2>2, <2>3 DEF ContactsOK, ContactOK, UserIds, SessionIds, Exists
<1> QED
  BY <1>1, <1>4, <1>6 DEF Linked, RowsOK, OpenIsLatest, ProofsOK, LinkedByOwnNumber, UserIds,
     SessionIds, Pending, Exists

(* The status of a user changes, whatever is in flight.                    *)
LEMMA SuspensionKeeps ==
  ASSUME Linked, NEW i \in UserIds, Suspend(i) \/ Unsuspend(i)
  PROVE  Linked' /\ Ageing
<1>1. UNCHANGED <<now, sessions, proofs, kept, members, gone, handler, cleaning>> /\ TypeOK
  BY DEF Suspend, Unsuspend, Linked
<1>2. PICK status \in {"SUSPENDED", "ACTIVE", "PENDING_VERIFICATION"} :
        /\ users' = [users EXCEPT ![i] = [users[i] EXCEPT !.status = status]]
        /\ status = "PENDING_VERIFICATION" => ~users[i].verified
  BY DEF Suspend, Unsuspend
<1>3. Exists(i) /\ users[i] \in UserRows
  BY <1>1, Tables DEF Suspend, Unsuspend, Exists
<1>4. /\ users' \in Seq(UserRows) /\ UserIds' = UserIds
      /\ users'[i] = [users[i] EXCEPT !.status = status]
      /\ \A j \in UserIds : j # i => users'[j] = users[j]
  <2>1. [users[i] EXCEPT !.status = status] \in UserRows
    BY <1>3 DEF UserRows
  <2> QED BY <1>1, <1>2, <2>1, UserSet
<1>5. users'[i].status = status /\ \A j \in UserIds : SameUser(j)
  <2>1. /\ users'[i].status = status /\ users'[i].phone = users[i].phone
        /\ users'[i].tg = users[i].tg /\ users'[i].verified = users[i].verified
    BY <1>3, <1>4 DEF UserRows
  <2> QED BY <1>1, <1>2, <1>3, <1>4, <2>1 DEF SameUser, Exists
<1>6. TypeOK'
  BY <1>1, <1>4 DEF TypeOK, SessionIds
<1>7. RowsOK'
  BY <1>1, <1>2, <1>4, <1>5 DEF Linked, RowsOK, Pending, SameUser, SessionIds
<1>8. ContactsOK'
  <2>1. \A h \in Handlers : InContact(h)' => GoesOn(h)
    BY <1>1, <1>5, LinkedFacts DEF InContact, GoesOn, SessionIds
  <2>2. \A h \in Handlers : handler'[h].op # "idle" => handler'[h].user \in UserIds'
    BY <1>1, <1>4 DEF Linked, ContactsOK
  <2> QED BY <2>1, <2>2, ContactsKept
<1>9. ProofsOK' /\ LinkedByOwnNumber'
  BY <1>1, <1>4, <1>5, LinkedFacts, LinksKept DEF SameUser, SessionIds
<1>10. Ageing /\ OpenIsLatest'
  BY <1>1, AgeingSame, LatestKept
<1> QED BY <1>6, <1>7, <1>8, <1>9, <1>10 DEF Linked

(* The bot's updates: one session that nobody has locked changes.          *)
LEMMA UpdateKeeps ==
  ASSUME Linked, NEW s \in SessionIds, NEW tg \in Telegrams,
         Start(s, tg) \/ CheckChannels(s, tg) \/ ContactChannelLeft(s, tg) \/ ContactMismatch(s, tg)
  PROVE  Linked' /\ Ageing
<1>1. /\ UNCHANGED <<now, users, proofs, kept, members, gone, handler, cleaning>>
      /\ TypeOK /\ sessions[s].status \in OpenStatuses /\ ~SessionLocked(s)
  BY DEF Start, CheckChannels, ContactChannelLeft, ContactMismatch, SessionFor, Open, Linked
<1>2. /\ sessions[s] \in SessionRows /\ sessions[s].mismatches < MaxMismatches
      /\ sessions[s].mismatches \in Nat
  BY <1>1, Tables DEF Linked, RowsOK, SessionRows
<1> DEFINE Becomes(row) ==
             /\ sessions' = [sessions EXCEPT ![s] = row]
             /\ row.user = sessions[s].user /\ row.bot = sessions[s].bot
             /\ row.mismatches >= sessions[s].mismatches
             /\ row.status \in OpenStatuses => row.mismatches < MaxMismatches
<1>3. PICK row \in SessionRows : Becomes(row)
  <2>1. CASE Start(s, tg)
    <3> DEFINE confirmed == (sessions[s].confirmed /\ sessions[s].tg = tg) \/ ~ChannelsRequired
               row == [sessions[s] EXCEPT !.tg = tg, !.confirmed = confirmed, !.status = "IN_PROGRESS"]
    <3>1. confirmed \in BOOLEAN /\ sessions' = [sessions EXCEPT ![s] = row]
      BY <2>1 DEF Start
    <3> HIDE DEF confirmed
    <3>2. row \in SessionRows /\ row.user = sessions[s].user /\ row.bot = sessions[s].bot
          /\ row.mismatches = sessions[s].mismatches
      BY <1>2, <3>1 DEF SessionRows, OpenStatuses
    <3> HIDE DEF row
    <3>3. Becomes(row)
      BY <1>2, <3>1, <3>2
    <3> HIDE DEF Becomes
    <3> QED BY <3>2, <3>3
  <2>2. CASE CheckChannels(s, tg) \/ ContactChannelLeft(s, tg)
    <3>1. PICK confirmed \in BOOLEAN :
            sessions' = [sessions EXCEPT ![s] = [sessions[s] EXCEPT !.confirmed = confirmed]]
      BY <2>2 DEF CheckChannels, ContactChannelLeft
    <3> DEFINE row == [sessions[s] EXCEPT !.confirmed = confirmed]
    <3>2. row \in SessionRows /\ row.user = sessions[s].user /\ row.bot = sessions[s].bot
          /\ row.mismatches = sessions[s].mismatches
      BY <1>2 DEF SessionRows
    <3> HIDE DEF row
    <3>3. Becomes(row)
      BY <1>2, <3>1, <3>2 DEF row
    <3> HIDE DEF Becomes
    <3> QED BY <3>2, <3>3
  <2>3. CASE ContactMismatch(s, tg)
    <3> DEFINE count == sessions[s].mismatches + 1
               status == IF Exhausted(count) THEN "FAILED" ELSE sessions[s].status
               row == [sessions[s] EXCEPT !.mismatches = count, !.status = status]
    <3>1. sessions' = [sessions EXCEPT ![s] = row]
      BY <2>3 DEF ContactMismatch
    <3>2. /\ count \in 0 .. MaxMismatches /\ count >= sessions[s].mismatches
          /\ status \in OpenStatuses \cup FinalStatuses
          /\ status \in OpenStatuses => count < MaxMismatches
      BY <1>1, <1>2, VerificationAssumption DEF SessionRows, Exhausted, OpenStatuses, FinalStatuses
    <3> HIDE DEF count, status
    <3>3. row \in SessionRows /\ row.user = sessions[s].user /\ row.bot = sessions[s].bot
          /\ row.mismatches = count /\ row.status = status
      BY <1>2, <3>2 DEF SessionRows
    <3> HIDE DEF row
    <3>4. Becomes(row)
      BY <3>1, <3>2, <3>3 DEF row
    <3> HIDE DEF Becomes
    <3> QED BY <3>3, <3>4
  <2> QED BY <2>1, <2>2, <2>3
<1>4. /\ sessions' \in Seq(SessionRows) /\ SessionIds' = SessionIds
      /\ sessions'[s] = row /\ \A r \in SessionIds : r # s => sessions'[r] = sessions[r]
  BY <1>1, <1>3, SessionSet
<1>5. Ageing /\ \A r \in SessionIds : ~Reopens(r)
  <2>1. /\ sessions[s].status \notin FinalStatuses \cup {"DELETED"}
        /\ \A r \in SessionIds : sessions[r].mismatches >= sessions[r].mismatches
    BY <1>1, Tables DEF SessionRows, OpenStatuses, FinalStatuses
  <2> QED BY <1>1, <1>3, <1>4, <2>1 DEF Ageing, Reopens, SessionIds
<1>6. \A i \in UserIds : SameUser(i)
  BY <1>1 DEF SameUser, UserIds, Exists
<1>7. TypeOK'
  BY <1>1, <1>4 DEF TypeOK, UserIds
<1>8. RowsOK'
  BY <1>1, <1>3, <1>4 DEF Linked, RowsOK, Pending, UserIds
<1>9. ContactsOK'
  <2>1. \A h \in Handlers : InContact(h)' => GoesOn(h)
    BY <1>1, <1>4, <1>6, LinkedFacts DEF InContact, GoesOn
  <2>2. \A h \in Handlers : handler'[h].op # "idle" => handler'[h].user \in UserIds'
    BY <1>1 DEF Linked, ContactsOK, UserIds
  <2> QED BY <2>1, <2>2, ContactsKept
<1>10. ProofsOK' /\ LinkedByOwnNumber'
  <2>1. \A p \in proofs : p.session # s
    BY <1>1, LinkedFacts DEF OpenStatuses
  <2> QED BY <1>1, <1>4, <1>6, <2>1, LinkedFacts, LinksKept DEF SameUser, UserIds
<1>11. OpenIsLatest'
  BY <1>4, <1>5, LatestKept
<1> QED BY <1>5, <1>7, <1>8, <1>9, <1>10, <1>11 DEF Linked

(* A new session: what was open is the last one, and it is closed first.   *)
LEMMA OpenSessionKeeps ==
  ASSUME Linked, NEW h \in Handlers, OpenSession(h)
  PROVE  Linked' /\ Ageing
<1> DEFINE i == handler[h].user
           old == IF SessionsOf(i) = {} THEN {} ELSE {Latest(SessionsOf(i))}
           closed == ClosedForNew(old)
<1>1. /\ UNCHANGED <<now, proofs, kept, members, gone, cleaning>> /\ TypeOK
      /\ handler' = [handler EXCEPT ![h] = Idle]
      /\ handler \in [Handlers -> Tasks]
      /\ i \in UserIds /\ users[i] \in UserRows
      /\ \A s \in old : ~SessionLocked(s)
  <2>1. i \in UserIds
    BY DEF OpenSession, Linked, ContactsOK
  <2> QED BY <2>1, Tables DEF OpenSession, Linked, TypeOK
<1>2. /\ handler' \in [Handlers -> Tasks] /\ ~InContact(h)' /\ handler'[h].op = "idle"
      /\ \A g \in Handlers : g # h => handler'[g] = handler[g]
  BY <1>1, IdleTyped DEF InContact
<1>3. CASE UNCHANGED <<users, sessions>>
  <2>1. \A j \in UserIds : SameUser(j)
    BY <1>3 DEF SameUser, UserIds, Exists
  <2>2. TypeOK' /\ RowsOK'
    BY <1>1, <1>2, <1>3 DEF Linked, TypeOK, RowsOK, Pending, UserIds, SessionIds
  <2>3. Ageing /\ OpenIsLatest'
    BY <1>1, <1>3, AgeingSame, LatestKept
  <2>4. ContactsOK'
    <3>1. \A g \in Handlers : InContact(g)' => GoesOn(g)
      BY <1>2, <1>3, <2>1, LinkedFacts DEF InContact, GoesOn, SessionIds
    <3>2. \A g \in Handlers : handler'[g].op # "idle" => handler'[g].user \in UserIds'
      BY <1>2, <1>3 DEF Linked, ContactsOK, UserIds
    <3> QED BY <3>1, <3>2, ContactsKept
  <2>5. ProofsOK' /\ LinkedByOwnNumber'
    BY <1>1, <1>3, <2>1, LinkedFacts, LinksKept DEF SameUser, UserIds, SessionIds
  <2> QED BY <2>2, <2>3, <2>4, <2>5 DEF Linked
<1>4. ASSUME NEW b \in Bots, NEW life \in SessionLives,
             sessions' = Append(ClosedForNew(old),
               [user |-> i, bot |-> b, tg |-> NoOne, confirmed |-> FALSE, mismatches |-> 0,
                expires |-> now + life, status |-> "OPEN"]),
             users' = [users EXCEPT ![i].expires = Extended(handler[h].expires, now + life, i)]
      PROVE  Linked' /\ Ageing
  <2> DEFINE until == Extended(handler[h].expires, now + life, i)
             row == [user |-> i, bot |-> b, tg |-> NoOne, confirmed |-> FALSE, mismatches |-> 0,
                     expires |-> now + life, status |-> "OPEN"]
             new == Len(sessions) + 1
  <2>1. /\ now + life \in Nat /\ until \in Nat /\ MaxMismatches > 0 /\ i \in Nat
        /\ Len(sessions) \in Nat /\ SessionIds = 1 .. Len(sessions)
        /\ \A s \in SessionIds : sessions[s] \in SessionRows
    <3>1. now \in Nat /\ life \in Nat /\ users[i].expires \in Nat /\ MaxMismatches \in Nat \ {0}
      BY <1>1, VerificationAssumption DEF TypeOK, UserRows
    <3>2. now + life \in Nat /\ until \in Nat
      BY <3>1 DEF Extended
    <3>3. /\ Len(sessions) \in Nat /\ SessionIds = 1 .. Len(sessions) /\ UserIds = 1 .. Len(users)
          /\ Len(users) \in Nat /\ \A s \in SessionIds : sessions[s] \in SessionRows
      BY <1>1, Tables
    <3>4. i \in Nat
      BY <1>1, <3>3
    <3> QED BY <3>1, <3>2, <3>3, <3>4
  <2>2. /\ row \in SessionRows /\ row.user = i /\ row.status = "OPEN"
        /\ row.mismatches < MaxMismatches
    BY <2>1, VerificationAssumption DEF SessionRows, OpenStatuses
  <2>3. /\ users' \in Seq(UserRows) /\ UserIds' = UserIds /\ \A j \in UserIds : SameUser(j)
        /\ \A j \in UserIds : users'[j].status = users[j].status
    <3> DEFINE extended == [users[i] EXCEPT !.expires = until]
    <3>1. users' = [users EXCEPT ![i] = extended] /\ extended \in UserRows
      BY <1>1, <1>4, <2>1 DEF UserRows
    <3>2. /\ users' \in Seq(UserRows) /\ UserIds' = UserIds
          /\ users'[i] = extended /\ \A j \in UserIds : j # i => users'[j] = users[j]
      BY <1>1, <3>1, UserSet
    <3>3. /\ extended.phone = users[i].phone /\ extended.tg = users[i].tg
          /\ extended.verified = users[i].verified /\ extended.status = users[i].status
      BY <1>1 DEF UserRows
    <3> QED BY <3>2, <3>3 DEF SameUser, Exists
  <2>4. /\ closed \in Seq(SessionRows) /\ Len(closed) = Len(sessions)
        /\ \A s \in SessionIds :
             closed[s] = IF s \in old /\ sessions[s].status \in OpenStatuses
                         THEN [sessions[s] EXCEPT !.status = "EXPIRED"] ELSE sessions[s]
    <3>1. closed \in [1 .. Len(sessions) -> SessionRows]
      BY <2>1 DEF ClosedForNew, SessionRows, FinalStatuses
    <3>2. closed \in Seq(SessionRows) /\ Len(closed) = Len(sessions)
      <4> HIDE DEF closed
      <4> QED BY <2>1, <3>1, FunctionIsSeq
    <3> QED BY <2>1, <3>2 DEF ClosedForNew
  <2>5. /\ sessions' \in Seq(SessionRows) /\ SessionIds' = SessionIds \cup {new}
        /\ new \notin SessionIds /\ sessions'[new] = row
        /\ \A s \in SessionIds : sessions'[s] = closed[s]
    <3>1. sessions' = Append(closed, row)
      BY <1>4
    <3> HIDE DEF closed, row
    <3> QED BY <2>1, <2>2, <2>4, <3>1, AppendProperties, LenProperties DEF SessionIds
  <2> HIDE DEF row, closed
  <2>6. \A s \in SessionIds :
          /\ sessions'[s].user = sessions[s].user /\ sessions'[s].bot = sessions[s].bot
          /\ sessions'[s].mismatches = sessions[s].mismatches
          /\ s \notin old \/ sessions[s].status \notin OpenStatuses => sessions'[s] = sessions[s]
          /\ s \in old => sessions'[s].status \notin OpenStatuses
    <3> TAKE s \in SessionIds
    <3>1. sessions'[s] = closed[s] /\ sessions[s] \in SessionRows
      BY <2>1, <2>5
    <3>2. CASE s \in old /\ sessions[s].status \in OpenStatuses
      <4>1. closed[s] = [sessions[s] EXCEPT !.status = "EXPIRED"]
        BY <2>4, <3>2
      <4> QED BY <3>1, <3>2, <4>1 DEF SessionRows, OpenStatuses
    <3>3. CASE ~(s \in old /\ sessions[s].status \in OpenStatuses)
      <4>1. sessions'[s] = sessions[s]
        BY <2>4, <3>1, <3>3
      <4> QED BY <3>3, <4>1
    <3> QED BY <3>2, <3>3
  <2>7. Ageing
    <3>1. \A s \in SessionIds : sessions[s].mismatches >= sessions[s].mismatches
      BY <2>1 DEF SessionRows
    <3>2. \A s \in SessionIds :
            sessions[s].status \in FinalStatuses \cup {"DELETED"} => sessions'[s] = sessions[s]
      BY <2>6 DEF OpenStatuses, FinalStatuses
    <3> QED BY <2>5, <2>6, <3>1, <3>2 DEF Ageing, SessionIds
  <2>8. TypeOK'
    BY <1>1, <1>2, <2>3, <2>5 DEF TypeOK
  <2>9. RowsOK'
    BY <2>2, <2>3, <2>5, <2>6, <1>1 DEF Linked, RowsOK, Pending, SameUser
  <2>10. \A s \in SessionIds : sessions[s].user = i => sessions'[s].status \notin OpenStatuses
    <3> SUFFICES ASSUME NEW s \in SessionIds, sessions[s].user = i, sessions[s].status \in OpenStatuses
                 PROVE  s \in old
      BY <2>6
    <3>1. s \in SessionsOf(i) /\ \A r \in SessionsOf(i) : r <= s
      BY DEF SessionsOf, OpenStatuses, Linked, OpenIsLatest
    <3>2. Latest(SessionsOf(i)) \in SessionsOf(i) /\ \A r \in SessionsOf(i) : r <= Latest(SessionsOf(i))
      BY <3>1 DEF Latest
    <3>3. Latest(SessionsOf(i)) \in Nat /\ s \in Nat
      BY <2>1, <3>2 DEF SessionsOf
    <3>4. s = Latest(SessionsOf(i)) /\ SessionsOf(i) # {}
      BY <3>1, <3>2, <3>3
    <3> QED BY <3>4
  <2>11. OpenIsLatest'
    <3>1. ASSUME NEW r \in SessionIds', NEW s \in SessionIds', sessions'[r].user = sessions'[s].user,
                 sessions'[s].status \in OpenStatuses
          PROVE  r <= s
      <4>1. CASE s = new
        BY <2>1, <2>5, <4>1
      <4>2. CASE s # new
        <5>1. s \in SessionIds /\ sessions[s].status \in OpenStatuses /\ sessions[s].user # i
          BY <2>5, <2>6, <2>10, <3>1, <4>2
        <5>2. r \in SessionIds /\ sessions[r].user = sessions[s].user
          BY <2>2, <2>5, <2>6, <3>1, <5>1
        <5> QED BY <5>1, <5>2 DEF Linked, OpenIsLatest
      <4> QED BY <4>1, <4>2
    <3> QED BY <3>1 DEF OpenIsLatest
  <2>12. ContactsOK'
    <3>1. \A g \in Handlers : InContact(g)' => GoesOn(g)
      BY <1>1, <1>2, <2>3, <2>5, <2>6, LinkedFacts DEF InContact, GoesOn
    <3>2. \A g \in Handlers : handler'[g].op # "idle" => handler'[g].user \in UserIds'
      BY <1>2, <2>3 DEF Linked, ContactsOK
    <3> QED BY <3>1, <3>2, ContactsKept
  <2>13. ProofsOK' /\ LinkedByOwnNumber'
    <3>1. \A p \in proofs : sessions'[p.session] = sessions[p.session]
      BY <2>6, LinkedFacts DEF OpenStatuses
    <3> QED BY <1>1, <2>3, <2>5, <3>1, LinkedFacts, LinksKept DEF SameUser
  <2> QED BY <2>7, <2>8, <2>9, <2>11, <2>12, <2>13 DEF Linked
<1> QED BY <1>3, <1>4 DEF OpenSession

(* Deleting users no contact holds, with their sessions and proofs, when   *)
(* rows added and sessions closed meanwhile disturb nothing else.          *)
LEMMA DeletionKeeps ==
  ASSUME Linked, NEW ids \in SUBSET UserIds, NEW closing \in SUBSET SessionIds, handler' = handler,
         \A i \in ids : Deletable(i),
         \A s \in closing : sessions[s].status \in OpenStatuses /\ ~SessionLocked(s),
         UserIds \subseteq UserIds',
         \A i \in UserIds : users'[i] = UsersWithout(ids)[i],
         \A i \in UserIds' \ UserIds : users'[i] \in UserRows /\ ~users'[i].verified,
         sessions' = SessionsWithout(ids,
           [s \in SessionIds |-> IF s \in closing
                                 THEN [sessions[s] EXCEPT !.status = "EXPIRED"]
                                 ELSE sessions[s]]),
         proofs' = ProofsWithout(ids)
  PROVE  /\ sessions' \in Seq(SessionRows) /\ SessionIds' = SessionIds
         /\ RowsOK' /\ OpenIsLatest' /\ ContactsOK' /\ ProofsOK' /\ LinkedByOwnNumber' /\ Ageing
<1> DEFINE table == [s \in SessionIds |-> IF s \in closing
                                          THEN [sessions[s] EXCEPT !.status = "EXPIRED"]
                                          ELSE sessions[s]]
<1>1. TypeOK
  BY DEF Linked
<1>2. /\ table \in Seq(SessionRows) /\ DOMAIN table = SessionIds
      /\ \A s \in SessionIds :
           IF s \in closing THEN table[s] = [sessions[s] EXCEPT !.status = "EXPIRED"]
                            ELSE table[s] = sessions[s]
  <2>1. /\ Len(sessions) \in Nat /\ SessionIds = 1 .. Len(sessions)
        /\ \A s \in SessionIds : sessions[s] \in SessionRows
    BY <1>1, Tables
  <2>2. table \in [1 .. Len(sessions) -> SessionRows]
    <3>1. \A row \in SessionRows : [row EXCEPT !.status = "EXPIRED"] \in SessionRows
      BY DEF SessionRows, FinalStatuses
    <3> QED BY <2>1, <3>1
  <2>3. table \in Seq(SessionRows)
    <3> HIDE DEF table
    <3> QED BY <2>1, <2>2, FunctionIsSeq
  <2> QED BY <2>3
<1>3. /\ sessions' \in Seq(SessionRows) /\ SessionIds' = SessionIds
      /\ \A s \in SessionIds :
           sessions'[s] = IF table[s].user \in ids THEN [table[s] EXCEPT !.status = "DELETED"]
                                                   ELSE table[s]
  <2>1. sessions' = SessionsWithout(ids, table)
    OBVIOUS
  <2> HIDE DEF table
  <2>2. /\ SessionsWithout(ids, table) \in Seq(SessionRows)
        /\ DOMAIN SessionsWithout(ids, table) = SessionIds
        /\ \A s \in SessionIds :
             SessionsWithout(ids, table)[s] =
               IF table[s].user \in ids THEN [table[s] EXCEPT !.status = "DELETED"] ELSE table[s]
    BY <1>1, <1>2, SessionsDeleted
  <2>3. SessionIds' = SessionIds
    BY <2>1, <2>2 DEF SessionIds
  <2> QED BY <2>1, <2>2, <2>3
<1> HIDE DEF table
<1>4. ASSUME NEW s \in SessionIds
      PROVE  /\ sessions'[s].user = sessions[s].user /\ sessions'[s].bot = sessions[s].bot
             /\ sessions'[s].mismatches = sessions[s].mismatches /\ sessions[s].mismatches \in Nat
             /\ sessions[s].user \notin ids /\ s \notin closing => sessions'[s] = sessions[s]
             /\ sessions[s].user \in ids => sessions'[s].status = "DELETED"
             /\ s \in closing => sessions'[s].status \in {"EXPIRED", "DELETED"}
             /\ sessions[s].status = "DELETED" => sessions'[s] = sessions[s]
  <2>1. sessions[s] \in SessionRows
    BY <1>1, Tables
  <2>2. /\ table[s] \in SessionRows /\ table[s].user = sessions[s].user
        /\ table[s].bot = sessions[s].bot /\ table[s].mismatches = sessions[s].mismatches
        /\ s \in closing => table[s].status = "EXPIRED"
        /\ s \notin closing => table[s] = sessions[s]
    <3>1. CASE s \in closing
      <4>1. table[s] = [sessions[s] EXCEPT !.status = "EXPIRED"]
        BY <1>2, <3>1
      <4> QED BY <2>1, <3>1, <4>1 DEF SessionRows, FinalStatuses
    <3>2. CASE s \notin closing
      BY <1>2, <2>1, <3>2
    <3> QED BY <3>1, <3>2
  <2>3. CASE sessions[s].user \in ids
    <3>1. sessions'[s] = [table[s] EXCEPT !.status = "DELETED"]
      BY <1>3, <2>2, <2>3
    <3>2. sessions[s].status = "DELETED" => s \notin closing
      BY DEF OpenStatuses
    <3> QED BY <2>1, <2>2, <2>3, <3>1, <3>2 DEF SessionRows
  <2>4. CASE sessions[s].user \notin ids
    <3>1. sessions'[s] = table[s]
      BY <1>3, <2>2, <2>4
    <3>2. sessions[s].status = "DELETED" => s \notin closing
      BY DEF OpenStatuses
    <3> QED BY <2>1, <2>2, <2>4, <3>1, <3>2 DEF SessionRows
  <2> QED BY <2>3, <2>4
<1>5. /\ \A i \in UserIds : i \notin ids => SameUser(i) /\ users'[i] = users[i]
      /\ \A i \in ids : ~Exists(i)' /\ users'[i].verified = users[i].verified
  <2>1. \A i \in UserIds : IF i \in ids THEN users'[i] = [users[i] EXCEPT !.status = "DELETED"]
                                        ELSE users'[i] = users[i]
    BY <1>1, UsersDeleted
  <2>2. \A i \in UserIds : users[i] \in UserRows
    BY <1>1, Tables
  <2>3. ASSUME NEW i \in ids PROVE users'[i].status = "DELETED" /\ users'[i].verified = users[i].verified
    BY <2>1, <2>2, <2>3 DEF UserRows
  <2> QED BY <2>1, <2>3 DEF SameUser, Exists
<1>6. \A s \in SessionIds : ~Reopens(s)
  BY <1>4 DEF Reopens, OpenStatuses
<1>7. Ageing
  <2>1. \A s \in SessionIds : sessions[s].status \in FinalStatuses => s \notin closing
    BY DEF OpenStatuses, FinalStatuses
  <2>2. \A s \in SessionIds : s \in DOMAIN sessions'
    BY <1>3 DEF SessionIds
  <2>3. \A s \in SessionIds : sessions'[s].mismatches >= sessions[s].mismatches
    BY <1>4
  <2> QED BY <1>4, <2>1, <2>2, <2>3 DEF Ageing
<1>8. OpenIsLatest'
  BY <1>3, <1>6, <1>7, LatestKept
<1>9. RowsOK'
  <2>1. \A i \in UserIds' : Pending(i)' => ~users'[i].verified
    BY <1>5 DEF Pending, Exists, Linked, RowsOK
  <2>2. \A s \in SessionIds : sessions'[s].status \in OpenStatuses => sessions[s].status \in OpenStatuses
    BY <1>6 DEF Reopens
  <2> QED BY <1>3, <1>4, <2>1, <2>2 DEF Linked, RowsOK
<1>10. ContactsOK'
  <2>1. \A h \in Handlers : InContact(h)' => GoesOn(h)
    <3> SUFFICES ASSUME NEW h \in Handlers, InContact(h) PROVE GoesOn(h)
      BY DEF InContact
    <3>1. handler[h].user \in UserIds /\ handler[h].user \notin ids
      BY LinkedFacts, DeletableFree
    <3>2. handler[h].session \in SessionIds /\ handler[h].session \notin closing
      BY LinkedFacts
    <3>3. sessions'[handler[h].session] = sessions[handler[h].session]
      BY <1>4, <3>1, <3>2, LinkedFacts
    <3> QED BY <1>3, <1>5, <3>1, <3>2, <3>3 DEF GoesOn
  <2>2. \A h \in Handlers : handler'[h].op # "idle" => handler'[h].user \in UserIds'
    BY DEF Linked, ContactsOK
  <2> QED BY <2>1, <2>2, ContactsKept
<1>11. ProofsOK' /\ LinkedByOwnNumber'
  <2>1. \A p \in proofs' : p \in proofs /\ p.user \notin ids
    BY DEF ProofsWithout
  <2>2. \A p \in proofs' : /\ SameUser(p.user)
                           /\ p.session \in SessionIds' /\ sessions'[p.session] = sessions[p.session]
    <3> TAKE p \in proofs'
    <3>1. p \in proofs /\ p.user \in UserIds /\ p.user \notin ids /\ p.session \in SessionIds
          /\ sessions[p.session].user = p.user /\ sessions[p.session].status = "COMPLETED"
      BY <2>1, LinkedFacts
    <3>2. p.session \notin closing
      BY <3>1 DEF OpenStatuses
    <3> QED BY <1>3, <1>4, <1>5, <3>1, <3>2
  <2>3. \A i \in UserIds' : Exists(i)' /\ users'[i].verified =>
          i \in UserIds /\ SameUser(i) /\ {p \in proofs : p.user = i} \subseteq proofs'
    BY <1>5 DEF ProofsWithout
  <2> QED BY <2>1, <2>2, <2>3, LinksKept
<1> QED BY <1>3, <1>7, <1>8, <1>9, <1>10, <1>11

LEMMA SignUpKeeps ==
  ASSUME Linked, NEW phone \in Phones, SignUp(phone)
  PROVE  Linked' /\ Ageing
<1> DEFINE taken == {i \in UserIds : Exists(i) /\ users[i].phone = phone}
           row == [phone |-> phone, tg |-> NoOne, expires |-> now + AccountLife,
                   verified |-> FALSE, status |-> "PENDING_VERIFICATION"]
           left == UsersWithout(taken)
           new == Len(users) + 1
<1>1. /\ UNCHANGED <<now, kept, members, gone, handler, cleaning>> /\ TypeOK
      /\ users' = Append(left, row) /\ sessions' = SessionsWithout(taken, sessions)
      /\ proofs' = ProofsWithout(taken) /\ \A i \in taken : Deletable(i)
      /\ Len(users) \in Nat /\ UserIds = 1 .. Len(users)
  BY Tables DEF SignUp, Linked
<1>2. row \in UserRows /\ ~row.verified
  <2>1. now + AccountLife \in Nat
    BY <1>1, VerificationAssumption DEF TypeOK
  <2> QED BY <2>1 DEF UserRows
<1>3. left \in Seq(UserRows) /\ Len(left) = Len(users)
  <2> HIDE DEF taken
  <2> QED BY <1>1, UsersDeleted
<1>4. /\ users' \in Seq(UserRows) /\ UserIds' = UserIds \cup {new} /\ new \notin UserIds
      /\ users'[new] = row /\ \A i \in UserIds : users'[i] = left[i]
  <2> HIDE DEF left, row
  <2> QED BY <1>1, <1>2, <1>3, AppendProperties, LenProperties DEF UserIds
<1>5. sessions' = SessionsWithout(taken,
        [s \in SessionIds |-> IF s \in {} THEN [sessions[s] EXCEPT !.status = "EXPIRED"]
                              ELSE sessions[s]])
  <2>1. sessions = [s \in SessionIds |-> IF s \in {} THEN [sessions[s] EXCEPT !.status = "EXPIRED"]
                                         ELSE sessions[s]]
    BY <1>1, Tables
  <2> QED BY <1>1, <2>1
<1>6. taken \in SUBSET UserIds /\ {} \in SUBSET SessionIds
  OBVIOUS
<1> HIDE DEF row, taken
<1>7. /\ sessions' \in Seq(SessionRows) /\ SessionIds' = SessionIds
      /\ RowsOK' /\ OpenIsLatest' /\ ContactsOK' /\ ProofsOK' /\ LinkedByOwnNumber' /\ Ageing
  BY <1>1, <1>2, <1>4, <1>5, <1>6, DeletionKeeps
<1>8. TypeOK'
  BY <1>1, <1>4, <1>7 DEF TypeOK, ProofsWithout
<1> QED BY <1>7, <1>8 DEF Linked

(* Housekeeping's deletion fails as a whole when a user must be kept.      *)
LEMMA DeleteExpiredKeeps ==
  ASSUME Linked, DeleteExpired
  PROVE  Linked' /\ Ageing
<1> DEFINE ids == {i \in cleaning.ids : Exists(i)}
           closing == Closing(cleaning.at)
<1>1. /\ UNCHANGED <<now, kept, members, gone, handler>> /\ TypeOK /\ cleaning' = NotCleaning
      /\ ids \in SUBSET UserIds /\ closing \in SUBSET SessionIds
      /\ \A i \in ids : Deletable(i)
      /\ \A s \in closing : sessions[s].status \in OpenStatuses /\ ~SessionLocked(s)
  BY DEF DeleteExpired, Linked, TypeOK, Closing
<1>2. NotCleaning \in [on : BOOLEAN, at : Nat, ids : SUBSET UserIds']
  BY DEF NotCleaning
<1>3. CASE UNCHANGED <<users, sessions, proofs>>
  <2>1. TypeOK'
    BY <1>1, <1>2, <1>3 DEF TypeOK, UserIds, SessionIds
  <2>2. Ageing
    BY <1>1, <1>3, AgeingSame
  <2> QED
    BY <1>1, <1>3, <2>1, <2>2 DEF Linked, RowsOK, OpenIsLatest, ContactsOK, ContactOK, InContact,
       ProofsOK, LinkedByOwnNumber, UserIds, SessionIds, Pending, Exists
<1>4. CASE ids \cap kept = {}
  <2>1. /\ users' = UsersWithout(ids) /\ proofs' = ProofsWithout(ids)
        /\ sessions' = SessionsWithout(ids,
             [s \in SessionIds |-> IF s \in closing
                                   THEN [sessions[s] EXCEPT !.status = "EXPIRED"]
                                   ELSE sessions[s]])
    BY <1>4 DEF DeleteExpired
  <2> HIDE DEF ids, closing
  <2>2. users' \in Seq(UserRows) /\ UserIds' = UserIds
    BY <1>1, <2>1, UsersDeleted DEF UserIds
  <2>3. /\ sessions' \in Seq(SessionRows) /\ SessionIds' = SessionIds
        /\ RowsOK' /\ OpenIsLatest' /\ ContactsOK' /\ ProofsOK' /\ LinkedByOwnNumber' /\ Ageing
    BY <1>1, <2>1, <2>2, DeletionKeeps
  <2>4. TypeOK'
    BY <1>1, <1>2, <2>1, <2>2, <2>3 DEF TypeOK, ProofsWithout
  <2> QED BY <2>3, <2>4 DEF Linked
<1> QED BY <1>3, <1>4 DEF DeleteExpired

(* The commit of a verification: nobody else holds the user, the session   *)
(* or the Telegram account.                                                *)
LEMMA CompleteKeeps ==
  ASSUME Linked, NEW h \in Handlers, Complete(h)
  PROVE  Linked' /\ Ageing
<1> DEFINE i == handler[h].user
           s == handler[h].session
           tg == handler[h].tg
           row == [users[i] EXCEPT !.status = "ACTIVE", !.verified = TRUE, !.tg = tg, !.expires = Never]
           over == [sessions[s] EXCEPT !.status = "COMPLETED"]
           proof == [user |-> i, tg |-> tg, session |-> s]
<1>1. /\ UNCHANGED <<now, gone, cleaning>> /\ TypeOK
      /\ users' = [users EXCEPT ![i] = row] /\ sessions' = [sessions EXCEPT ![s] = over]
      /\ proofs' = proofs \cup {proof} /\ members' = members + 1
      /\ handler' = [handler EXCEPT ![h] = Idle] /\ handler \in [Handlers -> Tasks]
      /\ kept' \in {kept, kept \cup {i}}
      /\ InContact(h) /\ LinkFree(tg, i)
  BY DEF Complete, Linked, TypeOK, InContact
<1>2. /\ i \in UserIds /\ users[i] \in UserRows /\ s \in SessionIds /\ sessions[s] \in SessionRows
      /\ sessions[s].user = i /\ sessions[s].status \in OpenStatuses /\ sessions[s].tg = tg
      /\ Exists(i) /\ ~users[i].verified
      /\ tg \in Telegrams /\ users[i].phone \in NumbersOf[tg]
  BY <1>1, Tables DEF Linked, ContactsOK, ContactOK, InContact
<1>3. /\ row \in UserRows /\ row.verified /\ row.tg = tg /\ row.status = "ACTIVE"
      /\ row.phone = users[i].phone
  BY <1>2 DEF UserRows, Never
<1>4. /\ over \in SessionRows /\ over.user = i /\ over.tg = tg /\ over.status = "COMPLETED"
      /\ over.bot = sessions[s].bot /\ over.mismatches = sessions[s].mismatches
      /\ sessions[s].mismatches \in Nat
  BY <1>2 DEF SessionRows, FinalStatuses
<1>5. proof.user = i /\ proof.tg = tg /\ proof.session = s
  OBVIOUS
<1> HIDE DEF row, over, proof
<1>6. /\ users' \in Seq(UserRows) /\ UserIds' = UserIds
      /\ users'[i] = row /\ \A j \in UserIds : j # i => users'[j] = users[j]
  BY <1>1, <1>2, <1>3, UserSet
<1>7. /\ sessions' \in Seq(SessionRows) /\ SessionIds' = SessionIds
      /\ sessions'[s] = over /\ \A r \in SessionIds : r # s => sessions'[r] = sessions[r]
  BY <1>1, <1>2, <1>4, SessionSet
<1>8. /\ handler' \in [Handlers -> Tasks] /\ handler'[h].op = "idle"
      /\ \A g \in Handlers : g # h => handler'[g] = handler[g]
  BY <1>1, IdleTyped
<1>9. \A j \in UserIds : j # i => SameUser(j)
  BY <1>6 DEF SameUser, Exists
<1>10. TypeOK'
  <2>1. proof \in [user : UserIds', tg : Telegrams, session : SessionIds']
    BY <1>2, <1>6, <1>7 DEF proof
  <2> QED BY <1>1, <1>2, <1>6, <1>7, <1>8, <2>1 DEF TypeOK
<1>11. Ageing /\ \A r \in SessionIds : ~Reopens(r)
  <2>1. \A r \in SessionIds : sessions[r].mismatches >= sessions[r].mismatches
    BY <1>1, Tables DEF SessionRows
  <2>2. sessions[s].status \notin FinalStatuses \cup {"DELETED"} /\ over.status \notin OpenStatuses
    BY <1>2, <1>4 DEF OpenStatuses, FinalStatuses
  <2> QED BY <1>2, <1>4, <1>7, <2>1, <2>2 DEF Ageing, Reopens, SessionIds
<1>12. OpenIsLatest'
  BY <1>7, <1>11, LatestKept
<1>13. RowsOK'
  <2>1. users'[i].status # "PENDING_VERIFICATION" /\ over.status \notin OpenStatuses
    BY <1>3, <1>4, <1>6 DEF OpenStatuses
  <2> QED BY <1>2, <1>4, <1>6, <1>7, <2>1 DEF Linked, RowsOK, Pending
<1>14. ContactsOK'
  <2>1. ASSUME NEW g \in Handlers, InContact(g)' PROVE GoesOn(g)
    <3>1. g # h /\ InContact(g) /\ handler'[g] = handler[g]
      BY <1>8, <2>1 DEF InContact
    <3>2. handler[g].session # s
      BY <1>1, <3>1 DEF Linked, ContactsOK
    <3>3. handler[g].user # i
      <4>1. ASSUME handler[g].user = i PROVE FALSE
        <5>1. /\ sessions[handler[g].session].user = sessions[s].user
              /\ sessions[handler[g].session].status \in OpenStatuses
              /\ handler[g].session \in SessionIds
          BY <1>2, <3>1, <4>1, LinkedFacts
        <5>2. handler[g].session <= s /\ s <= handler[g].session
          BY <1>2, <5>1 DEF Linked, OpenIsLatest
        <5>3. handler[g].session \in Nat /\ s \in Nat
          BY <1>1, <1>2, <5>1, Tables
        <5> QED BY <3>2, <5>2, <5>3
      <4> QED BY <4>1
    <3> QED BY <1>7, <1>9, <3>1, <3>2, <3>3, LinkedFacts DEF GoesOn
  <2>2. \A g \in Handlers : handler'[g].op # "idle" => handler'[g].user \in UserIds'
    BY <1>6, <1>8 DEF Linked, ContactsOK
  <2> QED BY <2>1, <2>2, ContactsKept
<1>15. \A p \in proofs : /\ p.user # i /\ p.tg # tg /\ p.session # s
                         /\ p.user \in UserIds /\ p.session \in SessionIds
  <2> TAKE p \in proofs
  <2>1. /\ p.user \in UserIds /\ p.session \in SessionIds
        /\ Exists(p.user) /\ users[p.user].verified /\ users[p.user].tg = p.tg
        /\ sessions[p.session].status = "COMPLETED"
    BY LinkedFacts DEF Linked, ProofsOK
  <2>2. p.user # i /\ p.session # s
    BY <1>2, <2>1 DEF OpenStatuses
  <2> QED BY <1>1, <2>1, <2>2 DEF LinkFree, LinkedElsewhere
<1>16. ProofsOK'
  <2>1. users'[i].status # "DELETED"
    BY <1>3, <1>6
  <2> QED BY <1>1, <1>3, <1>5, <1>6, <1>9, <1>15, <2>1 DEF Linked, ProofsOK, SameUser, Exists
<1>17. LinkedByOwnNumber'
  <2>1. \A j \in UserIds' : Exists(j)' /\ users'[j].verified =>
          \E p \in proofs' : p.user = j /\ p.tg = users'[j].tg
    BY <1>1, <1>3, <1>5, <1>6, <1>9 DEF Linked, LinkedByOwnNumber, SameUser
  <2>2. \A p \in proofs' : /\ users'[p.user].phone \in NumbersOf[p.tg]
                           /\ sessions'[p.session].user = p.user
                           /\ sessions'[p.session].tg = p.tg
                           /\ sessions'[p.session].status = "COMPLETED"
    BY <1>1, <1>2, <1>3, <1>4, <1>5, <1>6, <1>7, <1>15 DEF Linked, LinkedByOwnNumber
  <2>3. \A p, q \in proofs' : p.tg = q.tg \/ p.user = q.user => p = q
    BY <1>1, <1>5, <1>15 DEF Linked, LinkedByOwnNumber
  <2> QED BY <2>1, <2>2, <2>3 DEF LinkedByOwnNumber
<1> QED BY <1>10, <1>11, <1>12, <1>13, <1>14, <1>16, <1>17 DEF Linked

LEMMA LinkedNext == Linked /\ [Next]_vars => Linked' /\ Ageing
BY OutsideKeeps, HandlerKeeps, SuspensionKeeps, UpdateKeeps, OpenSessionKeeps, SignUpKeeps,
   DeleteExpiredKeeps, CompleteKeeps
DEF Next, Step, Update

LEMMA AlwaysLinked == Spec => []Linked
BY LinkedInit, LinkedNext, PTL DEF Spec

-----------------------------------------------------------------------------
(* Part 4: how long an account lives while the admin leaves the length of  *)
(* a session alone.                                                        *)
SettingStays == \A a, b \in SessionLives : a = b

(* An account outlives its open session; the expiry that a request to open *)
(* another has read is not later than the account's, and is the account's  *)
(* unless the session that will be opened reaches further anyway.          *)
Lives(i) ==
  /\ users[i].expires > 0
  /\ \A s \in SessionIds : sessions[s].user = i /\ sessions[s].status \in OpenStatuses =>
       sessions[s].expires <= users[i].expires
  /\ \A h \in Handlers : handler[h].op = "open" /\ handler[h].user = i =>
       /\ handler[h].expires \in 1 .. users[i].expires
       /\ \/ handler[h].expires = users[i].expires
          \/ \A life \in SessionLives : users[i].expires <= now + life

LivesOK == \A i \in UserIds : Exists(i) /\ ~users[i].verified => Lives(i)

LEMMA LivesTyped ==
  ASSUME TypeOK
  PROVE  /\ now \in Nat /\ \A life \in SessionLives : life \in Nat
         /\ \A i \in UserIds : users[i].expires \in Nat
         /\ \A s \in SessionIds : sessions[s].expires \in Nat
         /\ \A h \in Handlers : handler[h].expires \in Nat
BY Tables, VerificationAssumption DEF TypeOK, UserRows, SessionRows, Tasks

(* What a step must leave alone for an account to live as long as before.  *)
LEMMA LivesCarried ==
  ASSUME Linked, LivesOK, NEW i \in UserIds, Exists(i), ~users[i].verified,
         now' \in {now, now + 1}, users'[i].expires = users[i].expires,
         \A s \in SessionIds' : sessions'[s].status \in OpenStatuses =>
           /\ s \in SessionIds /\ sessions[s].status \in OpenStatuses
           /\ sessions'[s].user = sessions[s].user /\ sessions'[s].expires = sessions[s].expires,
         \A h \in Handlers : handler'[h].op = "open" /\ handler'[h].user = i =>
           \/ handler'[h] = handler[h]
           \/ handler'[h].expires = users[i].expires
  PROVE  Lives(i)'
<1>1. Lives(i) /\ TypeOK
  BY DEF LivesOK, Linked
<1>2. /\ now \in Nat /\ \A life \in SessionLives : life \in Nat
      /\ users[i].expires \in Nat
  BY <1>1, LivesTyped
<1>3. \A s \in SessionIds' : sessions'[s].user = i /\ sessions'[s].status \in OpenStatuses =>
        sessions'[s].expires <= users'[i].expires
  BY <1>1 DEF Lives
<1>4. ASSUME NEW h \in Handlers, handler'[h].op = "open", handler'[h].user = i
      PROVE  /\ handler'[h].expires \in 1 .. users'[i].expires
             /\ \/ handler'[h].expires = users'[i].expires
                \/ \A life \in SessionLives : users'[i].expires <= now' + life
  <2>1. CASE handler'[h].expires = users[i].expires
    BY <1>1, <1>2, <2>1 DEF Lives
  <2>2. CASE handler'[h] = handler[h]
    BY <1>1, <1>2, <1>4, <2>2 DEF Lives
  <2> QED BY <1>4, <2>1, <2>2
<1>5. users'[i].expires > 0
  BY <1>1 DEF Lives
<1> QED BY <1>3, <1>4, <1>5 DEF Lives

(* The steps that open no session and create no account.                   *)
LEMMA LivesSteady ==
  ASSUME Linked, LivesOK, now' \in {now, now + 1}, Ageing, SessionIds' = SessionIds,
         \A s \in SessionIds : sessions'[s].expires = sessions[s].expires /\ ~Reopens(s),
         UserIds' = UserIds,
         \A i \in UserIds : Exists(i)' /\ ~users'[i].verified =>
           Exists(i) /\ ~users[i].verified /\ users'[i].expires = users[i].expires,
         \A h \in Handlers : handler'[h].op = "open" =>
           handler'[h] = handler[h] \/ handler'[h].expires = users[handler'[h].user].expires
  PROVE  LivesOK'
<1>1. \A s \in SessionIds' : sessions'[s].status \in OpenStatuses =>
        /\ s \in SessionIds /\ sessions[s].status \in OpenStatuses
        /\ sessions'[s].user = sessions[s].user /\ sessions'[s].expires = sessions[s].expires
  BY DEF Ageing, Reopens
<1>2. ASSUME NEW i \in UserIds, Exists(i)', ~users'[i].verified PROVE Lives(i)'
  BY <1>1, <1>2, LivesCarried
<1> QED BY <1>2 DEF LivesOK

LEMMA NeverReopens == ASSUME TypeOK, Ageing PROVE \A s \in SessionIds : ~Reopens(s)
BY Tables DEF Ageing, Reopens, SessionRows, OpenStatuses, FinalStatuses

(* Steps that leave users and sessions alone.                              *)
LEMMA LivesSame ==
  ASSUME Linked, LivesOK, [Next]_vars, UNCHANGED <<users, sessions>>,
         now' \in {now, now + 1},
         \A h \in Handlers : handler'[h].op = "open" =>
           handler'[h] = handler[h] \/ handler'[h].expires = users[handler'[h].user].expires
  PROVE  LivesOK'
<1>1. Ageing /\ SessionIds' = SessionIds /\ \A s \in SessionIds : ~Reopens(s)
  BY AgeingSame DEF Linked
<1> QED BY <1>1, LivesSteady DEF UserIds, Exists

LEMMA LivesReading ==
  ASSUME Linked, LivesOK, [Next]_vars,
         \/ UNCHANGED vars \/ Tick \/ FindExpired \/ CleaningFails
         \/ (\E b \in Bots : BotChange(b)) \/ (\E i \in UserIds : Keep(i))
         \/ \E h \in Handlers : \/ Abort(h) \/ LockUser(h)
                                \/ \E i \in UserIds : AdmitOpen(h, i)
                                \/ \E s \in SessionIds, tg \in Telegrams : ContactMatches(h, s, tg)
  PROVE  LivesOK'
<1>1. UNCHANGED <<users, sessions>> /\ now' \in {now, now + 1}
  BY DEF vars, Tick, FindExpired, CleaningFails, BotChange, Keep, Abort, LockUser, AdmitOpen,
     ContactMatches
<1>2. handler \in [Handlers -> Tasks]
  BY DEF Linked, TypeOK
<1> DEFINE Fresh(h) == \/ handler'[h] = handler[h]
                       \/ handler'[h].expires = users[handler'[h].user].expires
<1>3. ASSUME NEW h \in Handlers, handler'[h].op = "open" PROVE Fresh(h)
  <2>1. CASE handler' = handler
    BY <2>1
  <2>2. ASSUME NEW g \in Handlers, Abort(g) PROVE handler'[h] = handler[h]
    BY <1>2, <1>3, <2>2, IdleTyped DEF Abort
  <2>3. ASSUME NEW g \in Handlers, LockUser(g) PROVE handler'[h] = handler[h]
    BY <1>2, <1>3, <2>3, IdleTyped DEF LockUser, Tasks
  <2>4. ASSUME NEW g \in Handlers, NEW i \in UserIds, AdmitOpen(g, i) PROVE Fresh(h)
    BY <1>2, <1>3, <2>4 DEF AdmitOpen, Idle
  <2>5. ASSUME NEW g \in Handlers, NEW s \in SessionIds, NEW tg \in Telegrams, ContactMatches(g, s, tg)
        PROVE  handler'[h] = handler[h]
    BY <1>2, <1>3, <2>5 DEF ContactMatches
  <2> QED
    BY <2>1, <2>2, <2>3, <2>4, <2>5 DEF vars, Tick, FindExpired, CleaningFails, BotChange, Keep
<1> QED BY <1>1, <1>3, LivesSame

(* Updates, verifications, suspensions and deletions.                      *)
LEMMA LivesChanging ==
  ASSUME Linked, LivesOK, Ageing,
         \/ DeleteExpired
         \/ \E h \in Handlers : Complete(h)
         \/ \E i \in UserIds : Suspend(i) \/ Unsuspend(i)
         \/ \E s \in SessionIds, tg \in Telegrams :
              \/ Start(s, tg) \/ CheckChannels(s, tg)
              \/ ContactChannelLeft(s, tg) \/ ContactMismatch(s, tg)
  PROVE  LivesOK'
<1>1. /\ TypeOK /\ now' = now /\ \A s \in SessionIds : ~Reopens(s)
      /\ \A s \in SessionIds : sessions[s] \in SessionRows
      /\ \A i \in UserIds : users[i] \in UserRows
      /\ sessions \in [1 .. Len(sessions) -> SessionRows] /\ users \in [1 .. Len(users) -> UserRows]
      /\ SessionIds = 1 .. Len(sessions) /\ UserIds = 1 .. Len(users)
      /\ handler \in [Handlers -> Tasks]
  BY NeverReopens, Tables
  DEF Linked, TypeOK, DeleteExpired, Complete, Suspend, Unsuspend, Start, CheckChannels,
      ContactChannelLeft, ContactMismatch
<1>2. SessionIds' = SessionIds /\ \A s \in SessionIds : sessions'[s].expires = sessions[s].expires
  <2>1. CASE sessions' = sessions
    BY <2>1 DEF SessionIds
  <2>2. ASSUME NEW s \in SessionIds, NEW tg \in Telegrams,
               \/ Start(s, tg) \/ CheckChannels(s, tg)
               \/ ContactChannelLeft(s, tg) \/ ContactMismatch(s, tg)
        PROVE  <1>2
    <3>1. CASE Start(s, tg)
      BY <1>1, <3>1 DEF Start, SessionIds, SessionRows
    <3>2. CASE CheckChannels(s, tg)
      BY <1>1, <3>2 DEF CheckChannels, SessionIds, SessionRows
    <3>3. CASE ContactChannelLeft(s, tg)
      BY <1>1, <3>3 DEF ContactChannelLeft, SessionIds, SessionRows
    <3>4. CASE ContactMismatch(s, tg)
      BY <1>1, <3>4 DEF ContactMismatch, SessionIds, SessionRows
    <3> QED BY <2>2, <3>1, <3>2, <3>3, <3>4
  <2>3. ASSUME NEW h \in Handlers, Complete(h) PROVE <1>2
    <3>1. handler[h].session \in SessionIds
      BY <2>3, LinkedFacts DEF Complete, InContact
    <3> QED BY <1>1, <2>3, <3>1 DEF Complete, SessionIds, SessionRows
  <2>4. CASE DeleteExpired
    <3> DEFINE ids == {i \in cleaning.ids : Exists(i)}
               table == [s \in SessionIds |-> IF s \in Closing(cleaning.at)
                                              THEN [sessions[s] EXCEPT !.status = "EXPIRED"]
                                              ELSE sessions[s]]
    <3>1. sessions' = sessions \/ sessions' = SessionsWithout(ids, table)
      BY <2>4 DEF DeleteExpired
    <3>2. \A s \in SessionIds : table[s].expires = sessions[s].expires /\ table[s] \in SessionRows
      <4>1. \A row \in SessionRows :
              LET closed == [row EXCEPT !.status = "EXPIRED"] IN
              closed \in SessionRows /\ closed.expires = row.expires
        BY DEF SessionRows, FinalStatuses
      <4> QED BY <1>1, <4>1
    <3>3. DOMAIN table = SessionIds
      OBVIOUS
    <3> HIDE DEF table, ids
    <3>4. CASE sessions' = SessionsWithout(ids, table)
      BY <3>2, <3>3, <3>4 DEF SessionsWithout, SessionIds, SessionRows
    <3> QED BY <2>1, <3>1, <3>4
  <2> QED BY <2>1, <2>2, <2>3, <2>4 DEF Suspend, Unsuspend
<1>3. /\ UserIds' = UserIds
      /\ \A i \in UserIds : Exists(i)' /\ ~users'[i].verified =>
           Exists(i) /\ ~users[i].verified /\ users'[i].expires = users[i].expires
  <2>1. CASE users' = users
    BY <2>1 DEF UserIds, Exists
  <2>2. ASSUME NEW h \in Handlers, Complete(h) PROVE <1>3
    <3>1. handler[h].user \in UserIds
      BY <2>2, LinkedFacts DEF Complete, InContact
    <3> QED BY <1>1, <2>2, <3>1 DEF Complete, UserIds, UserRows, Exists
  <2>3. ASSUME NEW i \in UserIds, Suspend(i) \/ Unsuspend(i) PROVE <1>3
    <3>1. PICK status : users' = [users EXCEPT ![i].status = status]
      BY <2>3 DEF Suspend, Unsuspend
    <3>2. Exists(i)
      BY <2>3 DEF Suspend, Unsuspend, Exists
    <3> QED BY <1>1, <3>1, <3>2 DEF UserIds, UserRows, Exists
  <2>4. CASE DeleteExpired
    BY <1>1, <2>1, <2>4 DEF DeleteExpired, UsersWithout, UserIds, UserRows, Exists
  <2> QED
    BY <2>1, <2>2, <2>3, <2>4 DEF Start, CheckChannels, ContactChannelLeft, ContactMismatch
<1>4. ASSUME NEW h \in Handlers, handler'[h].op = "open" PROVE handler'[h] = handler[h]
  BY <1>1, <1>4, IdleTyped
  DEF DeleteExpired, Complete, Suspend, Unsuspend, Start, CheckChannels,
      ContactChannelLeft, ContactMismatch
<1> QED BY <1>1, <1>2, <1>3, <1>4, LivesSteady

LEMMA LivesSignUp ==
  ASSUME Linked, LivesOK, Linked', Ageing, NEW phone \in Phones, SignUp(phone)
  PROVE  LivesOK'
<1> DEFINE taken == {i \in UserIds : Exists(i) /\ users[i].phone = phone}
           row == [phone |-> phone, tg |-> NoOne, expires |-> now + AccountLife,
                   verified |-> FALSE, status |-> "PENDING_VERIFICATION"]
           left == UsersWithout(taken)
           new == Len(users) + 1
<1>1. /\ TypeOK /\ UNCHANGED <<now, handler>>
      /\ users' = Append(left, row) /\ sessions' = SessionsWithout(taken, sessions)
      /\ Len(users) \in Nat /\ UserIds = 1 .. Len(users)
      /\ \A i \in UserIds : users[i] \in UserRows
      /\ \A s \in SessionIds : ~Reopens(s)
  BY Tables, NeverReopens DEF SignUp, Linked
<1>2. row.expires > 0
  BY <1>1, VerificationAssumption DEF TypeOK
<1>3. /\ left \in Seq(UserRows) /\ Len(left) = Len(users)
      /\ \A i \in UserIds : left[i].expires = users[i].expires
                            /\ left[i].verified = users[i].verified
                            /\ left[i].status \in {users[i].status, "DELETED"}
  <2>1. left \in Seq(UserRows) /\ Len(left) = Len(users)
    <3> HIDE DEF taken
    <3> QED BY <1>1, UsersDeleted
  <2>2. \A i \in UserIds : left[i] \in {users[i], [users[i] EXCEPT !.status = "DELETED"]}
    BY DEF UsersWithout
  <2> HIDE DEF left
  <2> QED BY <1>1, <2>1, <2>2 DEF UserRows
<1>4. row \in UserRows
  BY <1>1, VerificationAssumption DEF TypeOK, UserRows
<1>5. /\ UserIds' = UserIds \cup {new} /\ new \notin UserIds
      /\ users'[new] = row /\ \A i \in UserIds : users'[i] = left[i]
  <2> HIDE DEF left, row
  <2> QED BY <1>1, <1>3, <1>4, AppendProperties, LenProperties DEF UserIds
<1>6. /\ SessionIds' = SessionIds
      /\ \A s \in SessionIds : sessions'[s].user \in UserIds
                               /\ sessions'[s].expires = sessions[s].expires
  <2>1. SessionIds' = SessionIds
        /\ \A s \in SessionIds : sessions'[s].expires = sessions[s].expires
    <3> HIDE DEF taken
    <3> QED BY <1>1, Tables DEF SessionsWithout, SessionIds, SessionRows
  <2> QED BY <2>1 DEF Linked, RowsOK, Ageing
<1> HIDE DEF row, left, taken
<1>7. ASSUME NEW i \in UserIds, Exists(i)', ~users'[i].verified PROVE Lives(i)'
  <2>1. Exists(i) /\ ~users[i].verified /\ users'[i].expires = users[i].expires
    BY <1>3, <1>5, <1>7 DEF Exists
  <2> QED BY <1>1, <1>6, <2>1, LivesCarried DEF Ageing, Reopens
<1>8. \A j : j = new => Lives(j)'
  <2>1. \A s \in SessionIds : sessions'[s].user # new
    BY <1>5, <1>6
  <2>2. \A h \in Handlers : handler'[h].op = "open" => handler'[h].user # new
    BY <1>1, <1>5 DEF Linked, ContactsOK
  <2>3. users'[new].expires > 0
    BY <1>2, <1>5
  <2> QED BY <1>6, <2>1, <2>2, <2>3 DEF Lives
<1> QED BY <1>5, <1>7, <1>8 DEF LivesOK

(* A session is opened: the account lives until it ends, or longer.        *)
LEMMA LivesOpen ==
  ASSUME SettingStays, Linked, LivesOK, Linked', Ageing, NEW h \in Handlers, OpenSession(h)
  PROVE  LivesOK'
<1> DEFINE i == handler[h].user
           old == IF SessionsOf(i) = {} THEN {} ELSE {Latest(SessionsOf(i))}
           closed == ClosedForNew(old)
<1>1. /\ TypeOK /\ now' = now /\ handler \in [Handlers -> Tasks]
      /\ handler' = [handler EXCEPT ![h] = Idle]
      /\ Exists(i) /\ i \in UserIds /\ handler[h].op = "open"
      /\ \A s \in SessionIds : ~Reopens(s)
      /\ now \in Nat /\ \A life \in SessionLives : life \in Nat
      /\ users \in [1 .. Len(users) -> UserRows] /\ UserIds = 1 .. Len(users)
  <2>1. i \in UserIds
    BY DEF OpenSession, Linked, ContactsOK
  <2> QED BY <2>1, Tables, LivesTyped, NeverReopens DEF OpenSession, Linked, TypeOK
<1>2. \A g \in Handlers : handler'[g].op = "open" => g # h /\ handler'[g] = handler[g]
  BY <1>1, IdleTyped
<1>3. CASE UNCHANGED <<users, sessions>>
  BY <1>1, <1>2, <1>3, LivesSteady DEF UserIds, SessionIds, Exists
<1>4. ASSUME NEW b \in Bots, NEW life \in SessionLives,
             sessions' = Append(closed,
               [user |-> i, bot |-> b, tg |-> NoOne, confirmed |-> FALSE, mismatches |-> 0,
                expires |-> now + life, status |-> "OPEN"]),
             users' = [users EXCEPT ![i].expires = Extended(handler[h].expires, now + life, i)]
      PROVE  LivesOK'
  <2> DEFINE until == now + life
             row == [user |-> i, bot |-> b, tg |-> NoOne, confirmed |-> FALSE, mismatches |-> 0,
                     expires |-> until, status |-> "OPEN"]
             new == Len(sessions) + 1
  <2>1. /\ UserIds' = UserIds
        /\ users'[i].expires = Extended(handler[h].expires, until, i)
        /\ users'[i].verified = users[i].verified
        /\ \A j \in UserIds : j # i => users'[j] = users[j]
    BY <1>1, <1>4 DEF UserIds, UserRows
  <2>2. /\ closed \in Seq(SessionRows) /\ Len(closed) = Len(sessions)
        /\ \A s \in SessionIds : closed[s].expires = sessions[s].expires
        /\ Len(sessions) \in Nat /\ SessionIds = 1 .. Len(sessions)
    <3>1. /\ Len(sessions) \in Nat /\ SessionIds = 1 .. Len(sessions)
          /\ \A s \in SessionIds : sessions[s] \in SessionRows
      BY <1>1, Tables
    <3>2. /\ closed \in [1 .. Len(sessions) -> SessionRows]
          /\ \A s \in SessionIds : closed[s].expires = sessions[s].expires
      BY <3>1 DEF ClosedForNew, SessionRows, FinalStatuses
    <3> HIDE DEF closed
    <3> QED BY <3>1, <3>2, FunctionIsSeq
  <2>3. row \in SessionRows /\ row.user = i /\ row.expires = until
    BY <1>1, <1>4, Tables, VerificationAssumption DEF SessionRows, OpenStatuses
  <2>4. /\ SessionIds' = SessionIds \cup {new} /\ new \notin SessionIds /\ sessions'[new] = row
        /\ \A s \in SessionIds : sessions'[s].expires = sessions[s].expires
    <3>1. sessions' = Append(closed, row)
      BY <1>4
    <3> HIDE DEF closed, row
    <3> QED BY <2>2, <2>3, <3>1, AppendProperties, LenProperties DEF SessionIds
  <2> HIDE DEF row, closed
  <2>5. \A s \in SessionIds' : s # new /\ sessions'[s].status \in OpenStatuses =>
          /\ s \in SessionIds /\ sessions[s].status \in OpenStatuses
          /\ sessions'[s].user = sessions[s].user /\ sessions'[s].expires = sessions[s].expires
    BY <1>1, <2>4 DEF Ageing, Reopens
  <2>6. ASSUME NEW j \in UserIds, j # i, Exists(j)', ~users'[j].verified PROVE Lives(j)'
    <3>1. Exists(j) /\ ~users[j].verified /\ users'[j].expires = users[j].expires
      BY <2>1, <2>6 DEF Exists
    <3>2. Lives(j) /\ j # handler[h].user
      BY <2>6, <3>1 DEF LivesOK
    <3>3. \A s \in SessionIds' : sessions'[s].user = j /\ sessions'[s].status \in OpenStatuses =>
            sessions'[s].expires <= users'[j].expires
      BY <2>3, <2>4, <2>5, <2>6, <3>1, <3>2 DEF Lives
    <3> QED BY <1>1, <1>2, <3>1, <3>2, <3>3 DEF Lives
  <2>7. ASSUME ~users'[i].verified
        PROVE  /\ users'[i].expires > 0
               /\ \A s \in SessionIds' : sessions'[s].user = i /\ sessions'[s].status \in OpenStatuses =>
                    sessions'[s].expires <= users'[i].expires
               /\ \A g \in Handlers : handler'[g].op = "open" /\ handler'[g].user = i =>
                    /\ handler'[g].expires \in 1 .. users'[i].expires
                    /\ \/ handler'[g].expires = users'[i].expires
                       \/ \A l \in SessionLives : users'[i].expires <= now' + l
    <3> DEFINE seen == handler[h].expires
    <3>1. Lives(i)
      BY <1>1, <2>1, <2>7 DEF LivesOK
    <3>2. /\ users[i].expires \in Nat /\ seen \in Nat /\ until \in Nat /\ seen \in 1 .. users[i].expires
          /\ \A s \in SessionIds : sessions[s].expires \in Nat
          /\ seen = users[i].expires \/ users[i].expires <= until
          /\ \A l \in SessionLives : l = life
      BY <1>1, <1>4, <3>1, LivesTyped DEF Lives, SettingStays
    <3>3. /\ users'[i].expires \in Nat /\ users'[i].expires >= users[i].expires
          /\ users'[i].expires >= until
          /\ users'[i].expires = users[i].expires \/ users'[i].expires = until
      BY <2>1, <3>2 DEF Extended, Never
    <3>4. users'[i].expires > 0
      BY <3>1, <3>2, <3>3 DEF Lives
    <3>5. ASSUME NEW s \in SessionIds', sessions'[s].user = i, sessions'[s].status \in OpenStatuses
          PROVE  sessions'[s].expires <= users'[i].expires
      <4>1. CASE s = new
        BY <2>3, <2>4, <3>3, <4>1
      <4>2. CASE s # new
        BY <2>5, <3>1, <3>2, <3>3, <3>5, <4>2 DEF Lives
      <4> QED BY <4>1, <4>2
    <3>6. ASSUME NEW g \in Handlers, handler'[g].op = "open", handler'[g].user = i
          PROVE  /\ handler'[g].expires \in 1 .. users'[i].expires
                 /\ \/ handler'[g].expires = users'[i].expires
                    \/ \A l \in SessionLives : users'[i].expires <= now' + l
      <4>1. /\ handler[g].expires \in 1 .. users[i].expires /\ handler'[g] = handler[g]
            /\ \/ handler[g].expires = users[i].expires
               \/ \A l \in SessionLives : users[i].expires <= now + l
        BY <1>2, <3>1, <3>6 DEF Lives
      <4> QED BY <1>1, <1>4, <3>2, <3>3, <4>1
    <3> QED BY <3>4, <3>5, <3>6
  <2>8. \A j : handler[h].user = j => (Exists(j)' /\ ~users'[j].verified => Lives(j)')
    BY <2>7 DEF Lives
  <2> QED BY <2>1, <2>6, <2>8 DEF LivesOK
<1> QED BY <1>3, <1>4 DEF OpenSession

LEMMA LivesNext == ASSUME SettingStays, Linked, LivesOK, [Next]_vars PROVE LivesOK'
<1>1. Linked' /\ Ageing
  BY LinkedNext
<1> QED
  BY <1>1, LivesReading, LivesChanging, LivesSignUp, LivesOpen DEF Next, Step, Update

-----------------------------------------------------------------------------
(* Part 5: the theorems.                                                   *)

(* Every reachable state of the accounts, their sessions and the handlers  *)
(* in flight is of its type.                                               *)
THEOREM VerificationTyping == Spec => []TypeOK
<1>1. Linked => TypeOK BY DEF Linked
<1> QED BY AlwaysLinked, <1>1, PTL

(* open_session: whatever requests race, a user has one open session.      *)
THEOREM OneOpen == Spec => []OneOpenSession
<1>1. Linked => OneOpenSession
  <2> SUFFICES ASSUME Linked, NEW r \in SessionIds, NEW s \in SessionIds,
                      sessions[r].user = sessions[s].user,
                      {sessions[r].status, sessions[s].status} \subseteq OpenStatuses
               PROVE  r = s
    BY DEF OneOpenSession
  <2>1. r <= s /\ s <= r
    BY DEF Linked, OpenIsLatest
  <2> QED BY <2>1, Tables DEF Linked
<1> QED BY AlwaysLinked, <1>1, PTL

(* complete: a verified account is linked to a Telegram account that       *)
(* showed its number in a session of its own, and to no other account's.   *)
THEOREM OwnNumberLinks == Spec => []LinkedByOwnNumber
<1>1. Linked => LinkedByOwnNumber BY DEF Linked
<1> QED BY AlwaysLinked, <1>1, PTL

(* A session that is over stays over, and nothing forgets a wrong number.  *)
THEOREM SessionsStayOver == Spec => SessionsEnd
<1>1. Linked /\ [Next]_vars => [Ageing]_vars
  BY LinkedNext
<1> QED BY AlwaysLinked, <1>1, PTL DEF Spec, SessionsEnd, Ageing

(* "Keep the pending account alive while this session can still finish"    *)
(* (open_session), although its expiry may have been read before another   *)
(* request opened a session, as long as the admin leaves the length of a   *)
(* session alone.                                                          *)
THEOREM PendingOutlives ==
  ASSUME SettingStays
  PROVE  Spec => []PendingOutlivesSession
<1>1. Init => LivesOK
  BY DEF Init, LivesOK, UserIds
<1>2. Linked /\ LivesOK /\ [Next]_vars => (Linked /\ LivesOK)'
  BY LinkedNext, LivesNext
<1>3. Linked /\ LivesOK => PendingOutlivesSession
  <2> SUFFICES ASSUME Linked, LivesOK, NEW s \in SessionIds, sessions[s].status \in OpenStatuses,
                      Pending(sessions[s].user)
               PROVE  users[sessions[s].user].expires >= sessions[s].expires
    BY DEF PendingOutlivesSession
  <2>1. /\ sessions[s].user \in UserIds /\ Exists(sessions[s].user)
        /\ ~users[sessions[s].user].verified
    BY DEF Linked, RowsOK, Pending, Exists
  <2>2. sessions[s].expires \in Nat /\ users[sessions[s].user].expires \in Nat
    BY <2>1, LivesTyped DEF Linked
  <2> QED BY <2>1, <2>2 DEF LivesOK, Lives
<1> QED BY <1>1, <1>2, <1>3, LinkedInit, PTL DEF Spec

=============================================================================
