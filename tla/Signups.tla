------------------------------ MODULE Signups -------------------------------
(***************************************************************************)
(* Signing up: a single-use captcha, an idempotency record and a unique    *)
(* phone number, with the same form sent again and different forms for one *)
(* number, all at the same time.  Each step is an await that another call  *)
(* can come before; what a transaction wrote counts at its Commit, and     *)
(* until then whoever needs the same row waits for it.                     *)
(***************************************************************************)
EXTENDS Integers, Sequences, FiniteSets

CONSTANTS
  Forms,        \* what may be sent: phone, password, idempotency key, captcha
  Calls,        \* bound: calls being handled at once
  MaxAccounts,  \* bound: accounts ever created
  MaxPurged     \* bound: records deleted by housekeeping

ASSUME SignupsAssumption == Forms # {} /\ MaxAccounts \in Nat /\ MaxPurged \in Nat

VARIABLES
  accounts,   \* users rows: id, phone, password, verified
  made,       \* for each account ever made, the key of its form
  records,    \* idempotency_keys: the key and the phone of each answered form
  purged,     \* per key, records deleted
  solved,     \* captchas in Redis
  sessions,   \* accounts a session was issued for, with the password shown
  signup      \* per call: the form, its step, the account it deletes or enters

signupVars == <<accounts, made, records, purged, solved, sessions, signup>>

Field(name) == {f[name] : f \in Forms}

Users == [id : 1 .. MaxAccounts, phone : Field("phone"), password : Field("password"),
          verified : BOOLEAN]

Steps == {"idle", "sent", "admit", "begin", "read", "phone", "wait", "insert", "commit",
          "replay", "issue"}

Free == [form |-> CHOOSE f \in Forms : TRUE, step |-> "idle", account |-> 0]

-----------------------------------------------------------------------------
Form(c) == signup[c].form

At(c, step) == signup[c].step = step

Goto(c, step, account) ==
  signup' = [signup EXCEPT ![c].step = step, ![c].account = account]

(* The call is answered, or its transaction is rolled back: nothing stays. *)
Ends(c) == signup' = [signup EXCEPT ![c] = Free]

Others(c) == Calls \ {c}

HoldsNothing(d, key) == FALSE  \* seeded bug: the key is not written in the transaction

HoldsKey(d, key) == Form(d).key = key /\ signup[d].step \in {"phone", "wait", "insert", "commit"}

(* Another transaction has the row of the phone number, locked or not yet  *)
(* committed.                                                              *)
HoldsPhone(d, phone) ==
  /\ Form(d).phone = phone
  /\ At(d, "commit") \/ (At(d, "insert") /\ signup[d].account # 0)

Row(phone) == {a \in accounts : a.phone = phone}

Record(key) == {r \in records : r.key = key}

-----------------------------------------------------------------------------
Init ==
  /\ accounts = {}
  /\ made = <<>>
  /\ records = {}
  /\ purged = [k \in Field("key") |-> 0]
  /\ solved = Field("captcha")
  /\ sessions = {}
  /\ signup = [c \in Calls |-> Free]

Send(c, form) ==
  /\ At(c, "idle")
  /\ Len(made) + Cardinality({d \in Calls : ~At(d, "idle")}) < MaxAccounts
  /\ signup' = [signup EXCEPT ![c] = [form |-> form, step |-> "sent", account |-> 0]]
  /\ UNCHANGED <<accounts, made, records, purged, solved, sessions>>

(* What a record found says of a form: a replay, or the key of another.    *)
Found(c, key) ==
  IF \E r \in Record(key) : r.phone = Form(c).phone THEN Goto(c, "replay", 0) ELSE Ends(c)

Lookup(c) ==
  /\ At(c, "sent")
  /\ IF Record(Form(c).key) = {} THEN Goto(c, "admit", 0) ELSE Found(c, Form(c).key)
  /\ UNCHANGED <<accounts, made, records, purged, solved, sessions>>

(* The rate limits, then the captcha: it is gone whatever comes of it.     *)
LimitHit(c) ==
  /\ At(c, "admit")
  /\ Ends(c)
  /\ UNCHANGED <<accounts, made, records, purged, solved, sessions>>

Kept(captcha) == solved  \* seeded bug: the captcha is read and not deleted

Taken(captcha) == solved \ {captcha}

Admit(c) ==
  /\ At(c, "admit")
  /\ IF Form(c).captcha \in solved THEN Goto(c, "begin", 0) ELSE Ends(c)
  /\ solved' = Taken(Form(c).captcha)
  /\ UNCHANGED <<accounts, made, records, purged, sessions>>

-----------------------------------------------------------------------------
(* idempotency.begin: an uncommitted record of the key makes it wait, a    *)
(* committed one is read in a second statement, when it may be gone.       *)
Begin(c) ==
  /\ At(c, "begin")
  /\ \A d \in Others(c) : ~HoldsKey(d, Form(c).key)
  /\ Goto(c, IF Record(Form(c).key) = {} THEN "phone" ELSE "read", 0)
  /\ UNCHANGED <<accounts, made, records, purged, solved, sessions>>

ReadRecord(c) ==
  /\ At(c, "read")
  /\ Found(c, Form(c).key)
  /\ UNCHANGED <<accounts, made, records, purged, solved, sessions>>

(* SELECT ... FOR UPDATE of the number: a verified user keeps it, a pending *)
(* one is deleted and replaced.                                            *)
FindExisting(c) ==
  LET row == Row(Form(c).phone)
      held == \E d \in Others(c) : HoldsPhone(d, Form(c).phone)
  IN
  /\ At(c, "phone")
  /\ \/ row = {} /\ Goto(c, "insert", 0)
     \/ \E a \in row : held /\ Goto(c, "wait", a.id)
     \/ \E a \in row : ~held /\ a.verified /\ Ends(c)
     \/ \E a \in row : ~held /\ ~a.verified /\ Goto(c, "insert", a.id)
  /\ UNCHANGED <<accounts, made, records, purged, solved, sessions>>

(* Seeded bug: the row is expected to be there after the wait.             *)
WaitForRow(c) ==
  /\ At(c, "wait")
  /\ \A d \in Others(c) : ~HoldsPhone(d, Form(c).phone)
  /\ \E a \in accounts : a.id = signup[c].account /\ Goto(c, "insert", a.id)
  /\ UNCHANGED <<accounts, made, records, purged, solved, sessions>>

(* The holder ended.  When it deleted the row, none is found: the one that *)
(* it inserted is not among those this statement sees.                     *)
WaitEnds(c) ==
  LET row == {a \in accounts : a.id = signup[c].account} IN
  /\ At(c, "wait")
  /\ \A d \in Others(c) : ~HoldsPhone(d, Form(c).phone)
  /\ \/ row = {} /\ Goto(c, "insert", 0)
     \/ \E a \in row : a.verified /\ Ends(c)
     \/ \E a \in row : ~a.verified /\ Goto(c, "insert", a.id)
  /\ UNCHANGED <<accounts, made, records, purged, solved, sessions>>

(* The INSERT waits for whoever has the number, then finds it taken or not. *)
Insert(c) ==
  /\ At(c, "insert")
  /\ \A d \in Others(c) : ~HoldsPhone(d, Form(c).phone)
  /\ IF \E a \in Row(Form(c).phone) : a.id # signup[c].account
     THEN Ends(c) ELSE Goto(c, "commit", signup[c].account)
  /\ UNCHANGED <<accounts, made, records, purged, solved, sessions>>

(* Sign-ups are closed, the code is not good, the process dies.            *)
RollsBack(c) ==
  /\ signup[c].step \in {"phone", "wait", "insert", "commit"}
  /\ Ends(c)
  /\ UNCHANGED <<accounts, made, records, purged, solved, sessions>>

Recorded(c) == records \cup {[key |-> Form(c).key, phone |-> Form(c).phone]}

Commit(c) ==
  LET id == Len(made) + 1 IN
  /\ At(c, "commit")
  /\ accounts' = {a \in accounts : a.id # signup[c].account}
       \cup {[id |-> id, phone |-> Form(c).phone, password |-> Form(c).password,
              verified |-> FALSE]}
  /\ made' = Append(made, Form(c).key)
  /\ records' = Recorded(c)
  /\ sessions' = sessions \cup {[account |-> id, of |-> Form(c).password,
                                shown |-> Form(c).password]}
  /\ Ends(c)
  /\ UNCHANGED <<purged, solved>>

-----------------------------------------------------------------------------
(* _replay_signup: the password is proved in one transaction, the session  *)
(* issued in a later one, which fails when the account is gone.            *)
ProvedByPhone(c, a) == a.phone = Form(c).phone  \* seeded bug: the password is not asked

Proved(c, a) == a.phone = Form(c).phone /\ a.password = Form(c).password

Replay(c) ==
  /\ At(c, "replay")
  /\ \/ \E a \in accounts : Proved(c, a) /\ Goto(c, "issue", a.id)
     \/ (\A a \in accounts : ~Proved(c, a)) /\ Ends(c)
  /\ UNCHANGED <<accounts, made, records, purged, solved, sessions>>

IssueReplay(c) ==
  /\ At(c, "issue")
  /\ \A d \in Others(c) : ~HoldsPhone(d, Form(c).phone)
  /\ sessions' = sessions \cup {[account |-> a.id, of |-> a.password, shown |-> Form(c).password] :
                                a \in {b \in accounts : b.id = signup[c].account}}
  /\ Ends(c)
  /\ UNCHANGED <<accounts, made, records, purged, solved>>

-----------------------------------------------------------------------------
Verify(a) ==
  /\ ~a.verified
  /\ \A c \in Calls : ~HoldsPhone(c, a.phone)
  /\ accounts' = (accounts \ {a}) \cup {[a EXCEPT !.verified = TRUE]}
  /\ UNCHANGED <<made, records, purged, solved, sessions, signup>>

(* Housekeeping: a pending user, and a record after 24 hours.              *)
DeletePending(a) ==
  /\ ~a.verified
  /\ \A c \in Calls : ~HoldsPhone(c, a.phone)
  /\ accounts' = accounts \ {a}
  /\ UNCHANGED <<made, records, purged, solved, sessions, signup>>

DeleteRecord(r) ==
  /\ purged[r.key] < MaxPurged
  /\ records' = records \ {r}
  /\ purged' = [purged EXCEPT ![r.key] = @ + 1]
  /\ UNCHANGED <<accounts, made, solved, sessions, signup>>

-----------------------------------------------------------------------------
Step(c) ==
  \/ Lookup(c) \/ LimitHit(c) \/ Admit(c) \/ Begin(c) \/ ReadRecord(c)
  \/ FindExisting(c) \/ WaitEnds(c) \/ Insert(c) \/ Commit(c)
  \/ Replay(c) \/ IssueReplay(c)

Next ==
  \/ \E c \in Calls : Step(c) \/ RollsBack(c) \/ \E form \in Forms : Send(c, form)
  \/ \E a \in accounts : Verify(a) \/ DeletePending(a)
  \/ \E r \in records : DeleteRecord(r)

(* A request goes on, and a row lock is granted in the order of waiting.   *)
Fairness == \A c \in Calls : SF_signupVars(Step(c))

Spec == Init /\ [][Next]_signupVars /\ Fairness

-----------------------------------------------------------------------------
(* Type invariant: rows, captchas and the step each call is at.            *)
TypeOK ==
  /\ accounts \subseteq Users
  /\ made \in Seq(Field("key")) /\ Len(made) <= MaxAccounts
  /\ records \subseteq [key : Field("key"), phone : Field("phone")]
  /\ purged \in [Field("key") -> 0 .. MaxPurged]
  /\ solved \subseteq Field("captcha")
  /\ sessions \subseteq [account : 1 .. MaxAccounts, of : Field("password"), shown : Field("password")]
  /\ signup \in [Calls -> [form : Forms, step : Steps, account : 0 .. MaxAccounts]]

(* However often a form is sent, at once or again, under whatever waits    *)
(* and rollbacks, its key makes one account; only a key whose record was   *)
(* deleted a day later may make another.                                   *)
OneAccountPerKey ==
  \A k \in Field("key") : Cardinality({i \in DOMAIN made : made[i] = k}) <= 1 + purged[k]

(* Each account cost a captcha of its own, although a retry is answered    *)
(* without one.                                                            *)
CaptchaPerAccount == Len(made) <= Cardinality(Field("captcha") \ solved)

(* A number has one account at most, and nobody is let into one with       *)
(* another password: neither by a retry that finds the account somebody    *)
(* else made under the number, nor by one replaced between its two steps.  *)
EachToItsOwner ==
  /\ \A a, b \in accounts : a.phone = b.phone => a = b
  /\ \A s \in sessions : s.of = s.shown

(* No order of calls waits for itself: every sign-up comes to an answer.   *)
CallsEnd == \A c \in Calls : []<>At(c, "idle")
=============================================================================
