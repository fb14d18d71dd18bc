---------------------------- MODULE SignupsProofs ----------------------------
(* One account per number, per key and per captcha, with any forms and any *)
(* number of calls at once.                                                *)
EXTENDS Signups, SequenceTheorems, FiniteSetTheorems, TLAPS

Slots == [form : Forms, step : Steps, account : 0 .. MaxAccounts]

Working == {"phone", "wait", "insert", "commit"}   \* the key is written, the number sought

Active == {c \in Calls : ~At(c, "idle")}

(* The calls whose captcha was good and that have made no account yet.     *)
Paying == {c \in Calls : signup[c].step \in Working \cup {"begin", "read"}}

Spent == Field("captcha") \ solved

MadeBy(k) == {i \in DOMAIN made : made[i] = k}

(* Every call that is under way has room for an account.                   *)
RoomOK == IsFiniteSet(Active) /\ Len(made) + Cardinality(Active) <= MaxAccounts

(* Ids are never used again, and calls name accounts that were made.       *)
IdsOK ==
  /\ \A a \in accounts : a.id \in 1 .. Len(made)
  /\ \A a, b \in accounts : a.id = b.id => a = b
  /\ \A c \in Calls : signup[c].account \in 0 .. Len(made)

(* Whoever commits replaces the one account its number has, and is the     *)
(* only call that has it.                                                  *)
NumbersOK ==
  /\ \A a, b \in accounts : a.phone = b.phone => a = b
  /\ \A c \in Calls : At(c, "commit") =>
       \A a \in accounts : a.phone = Form(c).phone => a.id = signup[c].account
  /\ \A c, d \in Calls : HoldsPhone(c, Form(c).phone) /\ HoldsPhone(d, Form(c).phone) => c = d

(* Sessions go to whoever proved the password of the account.              *)
SessionsOK ==
  /\ sessions \subseteq [account : 1 .. MaxAccounts, of : Field("password"),
                         shown : Field("password")]
  /\ \A s \in sessions : s.of = s.shown

PasswordsOK ==
  /\ \A s \in sessions : s.of = s.shown
  /\ \A c \in Calls : At(c, "issue") =>
       \A a \in accounts : a.id = signup[c].account => a.password = Form(c).password

(* A call that works under a key is the only one, and has no record yet;   *)
(* a key without a record made no more accounts than its deleted records.  *)
KeysOK ==
  /\ \A c, d \in Calls : signup[c].step \in Working /\ HoldsKey(d, Form(c).key) => c = d
  /\ \A c \in Calls : signup[c].step \in Working => Record(Form(c).key) = {}
  /\ \A k \in Field("key") :
       Cardinality(MadeBy(k)) <= IF Record(k) = {} THEN purged[k] ELSE purged[k] + 1

(* A captcha for every account, and one for every call about to make one.  *)
CaptchasOK ==
  /\ IsFiniteSet(Paying) /\ IsFiniteSet(Spent)
  /\ Len(made) + Cardinality(Paying) <= Cardinality(Spent)

SignupInv == TypeOK /\ RoomOK /\ IdsOK /\ NumbersOK /\ PasswordsOK /\ KeysOK /\ CaptchasOK
-----------------------------------------------------------------------------
(* Part 1: a step of one call that makes nothing.                          *)
LEMMA FreeTyped == Free \in Slots /\ Free.step = "idle" /\ Free.account = 0
BY SignupsAssumption DEF Free, Slots, Steps

LEMMA Typed ==
  ASSUME TypeOK
  PROVE  /\ signup \in [Calls -> Slots] /\ Len(made) \in Nat /\ MaxAccounts \in Nat
         /\ \A c \in Calls : signup[c] \in Slots /\ Form(c) \in Forms
         /\ DOMAIN made = 1 .. Len(made) /\ made \in Seq(Field("key"))
         /\ \A k \in Field("key") : purged[k] \in Nat
BY LenProperties, SignupsAssumption DEF TypeOK, Slots, Form

LEMMA Fields ==
  ASSUME NEW form \in Forms
  PROVE  /\ form.phone \in Field("phone") /\ form.password \in Field("password")
         /\ form.key \in Field("key") /\ form.captcha \in Field("captcha")
BY DEF Field

LEMMA Subsets ==
  ASSUME NEW S, IsFiniteSet(S), NEW T \in SUBSET S
  PROVE  /\ IsFiniteSet(T) /\ Cardinality(T) \in Nat /\ Cardinality(S) \in Nat
         /\ Cardinality(T) <= Cardinality(S)
BY FS_Subset, FS_CardinalityType

(* The captchas are spent one at a time, on a call that goes on.           *)
LEMMA CaptchasKept ==
  ASSUME SignupInv, made' = made, NEW c \in Calls,
         \/ solved' = solved /\ Paying' \subseteq Paying
         \/ \E x \in solved : solved' = solved \ {x} /\ Paying' \subseteq Paying \cup {c}
  PROVE  CaptchasOK'
<1>1. /\ IsFiniteSet(Paying) /\ IsFiniteSet(Spent) /\ solved \subseteq Field("captcha")
      /\ Len(made) + Cardinality(Paying) <= Cardinality(Spent) /\ Len(made) \in Nat
      /\ Cardinality(Paying) \in Nat /\ Cardinality(Spent) \in Nat
  BY Typed, FS_CardinalityType DEF SignupInv, TypeOK, CaptchasOK
<1>2. CASE solved' = solved /\ Paying' \subseteq Paying
  <2>1. Spent' = Spent
    BY <1>2 DEF Spent
  <2>2. IsFiniteSet(Paying') /\ Cardinality(Paying') \in Nat /\ Cardinality(Paying') <= Cardinality(Paying)
    BY <1>1, <1>2, Subsets
  <2> QED BY <1>1, <2>1, <2>2 DEF CaptchasOK
<1>3. CASE \E x \in solved : solved' = solved \ {x} /\ Paying' \subseteq Paying \cup {c}
  <2>1. PICK x \in solved : solved' = solved \ {x} /\ Paying' \subseteq Paying \cup {c}
    BY <1>3
  <2>2. Spent' = Spent \cup {x} /\ x \notin Spent
    BY <1>1, <2>1 DEF Spent
  <2>3. IsFiniteSet(Spent') /\ Cardinality(Spent') = Cardinality(Spent) + 1
    BY <1>1, <2>2, FS_AddElement
  <2> DEFINE more == Paying \cup {c}
  <2>4. IsFiniteSet(more) /\ Cardinality(more) \in Nat
        /\ Cardinality(more) <= Cardinality(Paying) + 1
    <3>1. c \in Paying => more = Paying
      OBVIOUS
    <3>2. c \notin Paying => IsFiniteSet(more) /\ Cardinality(more) = Cardinality(Paying) + 1
      BY <1>1, FS_AddElement
    <3> HIDE DEF more
    <3> QED BY <1>1, <3>1, <3>2
  <2>5. IsFiniteSet(Paying') /\ Cardinality(Paying') \in Nat
        /\ Cardinality(Paying') <= Cardinality(more)
    <3>1. Paying' \in SUBSET more
      BY <2>1
    <3> HIDE DEF more
    <3> QED BY <2>4, <3>1, Subsets
  <2> HIDE DEF more
  <2> QED BY <1>1, <2>3, <2>4, <2>5 DEF CaptchasOK
<1> QED BY <1>2, <1>3

LEMMA CallKeeps ==
  ASSUME SignupInv, NEW c \in Calls, ~At(c, "idle") \/ RoomOK', NEW slot \in Slots,
         signup' = [signup EXCEPT ![c] = slot],
         UNCHANGED <<accounts, made, records, purged>>,
         sessions' = sessions \/ SessionsOK',
         slot.account \in 0 .. Len(made),
         slot.step \notin {"idle", "sent"} => slot.form = Form(c),
         slot.step = "commit" =>
           \A a \in accounts : a.phone = Form(c).phone => a.id = slot.account,
         slot.step = "commit" \/ (slot.step = "insert" /\ slot.account # 0) =>
           \A d \in Others(c) : ~HoldsPhone(d, Form(c).phone),
         slot.step = "issue" =>
           \A a \in accounts : a.id = slot.account => a.password = Form(c).password,
         slot.step \in Working => \/ signup[c].step \in Working
                                  \/ /\ Record(Form(c).key) = {}
                                     /\ \A d \in Others(c) : ~HoldsKey(d, Form(c).key),
         \/ solved' = solved /\ (slot.step \in Working \cup {"begin", "read"} => c \in Paying)
         \/ \E x \in solved : solved' = solved \ {x}
  PROVE  SignupInv'
<1>1. /\ TypeOK /\ signup \in [Calls -> Slots]
      /\ signup'[c] = slot /\ \A d \in Calls : d # c => signup'[d] = signup[d]
      /\ signup' \in [Calls -> Slots]
  BY Typed DEF SignupInv
<1>2. TypeOK'
  BY <1>1 DEF TypeOK, Slots, SessionsOK
<1>3. ASSUME ~At(c, "idle")
      PROVE  RoomOK'
  <2>1. Active' \subseteq Active
    BY <1>1, <1>3 DEF Active, At
  <2>2. IsFiniteSet(Active') /\ Cardinality(Active') \in Nat /\ Cardinality(Active) \in Nat
        /\ Cardinality(Active') <= Cardinality(Active)
    BY <2>1, Subsets DEF SignupInv, RoomOK
  <2> QED BY <1>1, <2>2, Typed DEF SignupInv, RoomOK
<1>4. IdsOK'
  BY <1>1 DEF SignupInv, IdsOK
<1>5. NumbersOK'
  <2>1. \A d \in Calls : At(d, "commit")' =>
          \A a \in accounts : a.phone = signup'[d].form.phone => a.id = signup'[d].account
    BY <1>1 DEF SignupInv, NumbersOK, At, Form
  <2>2. ASSUME NEW d \in Calls, NEW e \in Calls,
               HoldsPhone(d, Form(d).phone)', HoldsPhone(e, Form(d).phone)'
        PROVE  d = e
    <3>1. CASE d # c /\ e # c
      BY <1>1, <2>2, <3>1 DEF SignupInv, NumbersOK, HoldsPhone, At, Form
    <3>2. CASE d = c /\ e # c
      BY <1>1, <2>2, <3>2 DEF HoldsPhone, At, Form, Others
    <3>3. CASE d # c /\ e = c
      BY <1>1, <2>2, <3>3 DEF HoldsPhone, At, Form, Others
    <3> QED BY <3>1, <3>2, <3>3
  <2> QED BY <2>1, <2>2 DEF SignupInv, NumbersOK, Form
<1>6. PasswordsOK'
  BY <1>1 DEF SignupInv, PasswordsOK, SessionsOK, At, Form
<1>7. KeysOK'
  <2>1. ASSUME NEW d \in Calls, NEW e \in Calls, signup'[d].step \in Working,
               HoldsKey(e, Form(d).key)'
        PROVE  d = e
    <3>1. CASE d # c /\ e # c
      BY <1>1, <2>1, <3>1 DEF SignupInv, KeysOK, HoldsKey, Form
    <3>2. CASE d = c /\ e # c
      BY <1>1, <2>1, <3>2 DEF SignupInv, KeysOK, HoldsKey, Form, Others, Working
    <3>3. CASE d # c /\ e = c
      BY <1>1, <2>1, <3>3 DEF SignupInv, KeysOK, HoldsKey, Form, Others, Working
    <3> QED BY <3>1, <3>2, <3>3
  <2>2. \A d \in Calls : signup'[d].step \in Working => Record(Form(d).key)' = {}
    BY <1>1 DEF SignupInv, KeysOK, Form, Record, Working
  <2>3. \A k : MadeBy(k)' = MadeBy(k) /\ Record(k)' = Record(k)
    BY DEF MadeBy, Record
  <2> QED BY <2>1, <2>2, <2>3 DEF SignupInv, KeysOK
<1>8. CaptchasOK'
  <2>1. /\ Paying' \subseteq Paying \cup {c}
        /\ slot.step \notin Working \cup {"begin", "read"} => Paying' \subseteq Paying
    BY <1>1 DEF Paying
  <2> QED BY <2>1, CaptchasKept
<1> QED BY <1>2, <1>3, <1>4, <1>5, <1>6, <1>7, <1>8 DEF SignupInv
-----------------------------------------------------------------------------
(* Part 2: the steps of a call that make nothing, one at a time.           *)
LEMMA EndKeeps ==
  ASSUME SignupInv, NEW c \in Calls, ~At(c, "idle"), Ends(c),
         UNCHANGED <<accounts, made, records, purged>>,
         sessions' = sessions \/ SessionsOK',
         \/ solved' = solved
         \/ \E x \in solved : solved' = solved \ {x}
  PROVE  SignupInv'
<1>1. Free \in Slots /\ Free.step = "idle" /\ Free.account \in 0 .. Len(made)
  BY FreeTyped, Typed DEF SignupInv
<1>2. signup' = [signup EXCEPT ![c] = Free]
  BY DEF Ends
<1> HIDE DEF Ends
<1> QED BY <1>1, <1>2, CallKeeps DEF Working

LEMMA SlotSet ==
  ASSUME NEW slot \in Slots, NEW step, NEW account
  PROVE  [slot EXCEPT !.step = step, !.account = account]
           = [form |-> slot.form, step |-> step, account |-> account]
<1>1. PICK f \in Forms, s \in Steps, a \in 0 .. MaxAccounts :
        slot = [form |-> f, step |-> s, account |-> a]
  BY DEF Slots
<1>2. [slot EXCEPT !.step = step] = [form |-> f, step |-> step, account |-> a]
  BY <1>1
<1>3. [[form |-> f, step |-> step, account |-> a] EXCEPT !.account = account]
        = [form |-> f, step |-> step, account |-> account]
  OBVIOUS
<1>4. slot.form = f
  BY <1>1
<1> QED BY <1>2, <1>3, <1>4

LEMMA GoesOn ==
  ASSUME SignupInv, NEW c \in Calls, ~At(c, "idle"),
         NEW step \in Steps, step # "idle", NEW account \in 0 .. Len(made),
         Goto(c, step, account),
         UNCHANGED <<accounts, made, records, purged, sessions>>,
         step = "commit" =>
           \A a \in accounts : a.phone = Form(c).phone => a.id = account,
         step = "commit" \/ (step = "insert" /\ account # 0) =>
           \A d \in Others(c) : ~HoldsPhone(d, Form(c).phone),
         step = "issue" =>
           \A a \in accounts : a.id = account => a.password = Form(c).password,
         step \in Working => \/ signup[c].step \in Working
                             \/ /\ Record(Form(c).key) = {}
                                /\ \A d \in Others(c) : ~HoldsKey(d, Form(c).key),
         \/ solved' = solved /\ (step \in Working \cup {"begin", "read"} => c \in Paying)
         \/ \E x \in solved : solved' = solved \ {x}
  PROVE  SignupInv'
<1> DEFINE slot == [form |-> Form(c), step |-> step, account |-> account]
<1>1. /\ signup \in [Calls -> Slots] /\ signup[c] \in Slots /\ Form(c) \in Forms
      /\ Len(made) \in Nat /\ MaxAccounts \in Nat /\ Len(made) <= MaxAccounts
  BY Typed DEF SignupInv, TypeOK
<1>2. account \in 0 .. MaxAccounts
  BY <1>1
<1>3. slot \in Slots /\ slot.step = step /\ slot.account = account /\ slot.form = Form(c)
  BY <1>1, <1>2 DEF Slots
<1>4. [signup[c] EXCEPT !.step = step, !.account = account] = slot
  BY <1>1, SlotSet DEF Form
<1>5. signup' = [signup EXCEPT ![c] = slot]
  <2>1. signup' = [signup EXCEPT ![c] = [signup[c] EXCEPT !.step = step, !.account = account]]
    BY <1>1 DEF Goto, Slots
  <2> HIDE DEF slot
  <2> QED BY <1>4, <2>1
<1> HIDE DEF slot
<1> QED BY <1>3, <1>5, CallKeeps

LEMMA Zero ==
  ASSUME SignupInv
  PROVE  0 \in 0 .. Len(made)
BY Typed DEF SignupInv

LEMMA FoundKeeps ==
  ASSUME SignupInv, NEW c \in Calls, ~At(c, "idle"), Found(c, Form(c).key),
         UNCHANGED <<accounts, made, records, purged, solved, sessions>>
  PROVE  SignupInv'
<1>1. CASE Ends(c)
  BY <1>1, EndKeeps
<1>2. CASE Goto(c, "replay", 0)
  BY <1>2, Zero, GoesOn DEF Steps, Working
<1> QED BY <1>1, <1>2 DEF Found

LEMMA LookupKeeps == ASSUME SignupInv, NEW c \in Calls, Lookup(c) PROVE SignupInv'
<1>1. CASE Found(c, Form(c).key)
  BY <1>1, FoundKeeps DEF Lookup, At
<1>2. CASE Goto(c, "admit", 0)
  BY <1>2, Zero, GoesOn DEF Lookup, At, Steps, Working
<1> QED BY <1>1, <1>2 DEF Lookup

LEMMA AdmitKeeps == ASSUME SignupInv, NEW c \in Calls, Admit(c) PROVE SignupInv'
<1>1. solved' = solved \/ \E x \in solved : solved' = solved \ {x}
  BY DEF Admit, Taken
<1>2. CASE Ends(c)
  BY <1>1, <1>2, EndKeeps DEF Admit, At
<1>3. CASE Goto(c, "begin", 0) /\ Form(c).captcha \in solved
  BY <1>3, Zero, GoesOn DEF Admit, Taken, At, Steps, Working
<1> QED BY <1>2, <1>3 DEF Admit

LEMMA BeginKeeps == ASSUME SignupInv, NEW c \in Calls, Begin(c) PROVE SignupInv'
<1>1. CASE Record(Form(c).key) = {} /\ Goto(c, "phone", 0)
  BY <1>1, Zero, GoesOn DEF Begin, At, Steps, Working, Paying
<1>2. CASE Goto(c, "read", 0)
  BY <1>2, Zero, GoesOn DEF Begin, At, Steps, Working, Paying
<1> QED BY <1>1, <1>2 DEF Begin

(* The row found is one the call may delete: nobody else has it.           *)
LEMMA ToInsert ==
  ASSUME SignupInv, NEW c \in Calls, signup[c].step \in {"phone", "wait"},
         NEW account \in 0 .. Len(made), Goto(c, "insert", account),
         account # 0 => \A d \in Others(c) : ~HoldsPhone(d, Form(c).phone),
         UNCHANGED <<accounts, made, records, purged, solved, sessions>>
  PROVE  SignupInv'
BY GoesOn DEF At, Steps, Working, Paying

LEMMA FindExistingKeeps == ASSUME SignupInv, NEW c \in Calls, FindExisting(c) PROVE SignupInv'
<1> DEFINE row == Row(Form(c).phone)
           held == \E d \in Others(c) : HoldsPhone(d, Form(c).phone)
<1>1. \A a \in row : a.id \in 0 .. Len(made)
  BY Typed DEF SignupInv, IdsOK, Row
<1>2. CASE Goto(c, "insert", 0)
  BY <1>2, Zero, ToInsert DEF FindExisting, At
<1>3. CASE \E a \in row : Goto(c, "wait", a.id)
  BY <1>1, <1>3, GoesOn DEF FindExisting, At, Steps, Working, Paying
<1>4. CASE Ends(c)
  BY <1>4, EndKeeps DEF FindExisting, At
<1>5. CASE \E a \in row : ~held /\ Goto(c, "insert", a.id)
  BY <1>1, <1>5, ToInsert DEF FindExisting, At
<1> QED BY <1>2, <1>3, <1>4, <1>5 DEF FindExisting

LEMMA WaitEndsKeeps == ASSUME SignupInv, NEW c \in Calls, WaitEnds(c) PROVE SignupInv'
<1>1. \A a \in accounts : a.id \in 0 .. Len(made)
  BY Typed DEF SignupInv, IdsOK
<1>2. CASE Goto(c, "insert", 0)
  BY <1>2, Zero, ToInsert DEF WaitEnds, At
<1>3. CASE Ends(c)
  BY <1>3, EndKeeps DEF WaitEnds, At
<1>4. CASE \E a \in accounts : Goto(c, "insert", a.id)
  BY <1>1, <1>4, ToInsert DEF WaitEnds, At
<1> QED BY <1>2, <1>3, <1>4 DEF WaitEnds

LEMMA InsertKeeps == ASSUME SignupInv, NEW c \in Calls, Insert(c) PROVE SignupInv'
<1>1. signup[c].account \in 0 .. Len(made)
  BY DEF SignupInv, IdsOK
<1>2. CASE Ends(c)
  BY <1>2, EndKeeps DEF Insert, At
<1>3. CASE /\ Goto(c, "commit", signup[c].account)
           /\ ~\E a \in Row(Form(c).phone) : a.id # signup[c].account
  BY <1>1, <1>3, GoesOn DEF Insert, At, Row, Steps, Working, Paying
<1> QED BY <1>2, <1>3 DEF Insert

LEMMA ReplayKeeps == ASSUME SignupInv, NEW c \in Calls, Replay(c) PROVE SignupInv'
<1>1. CASE Ends(c)
  BY <1>1, EndKeeps DEF Replay, At
<1>2. CASE \E a \in accounts : Proved(c, a) /\ Goto(c, "issue", a.id)
  <2>1. PICK a \in accounts : Proved(c, a) /\ Goto(c, "issue", a.id)
    BY <1>2
  <2>2. a.id \in 0 .. Len(made) /\ \A b \in accounts : b.id = a.id => b.password = Form(c).password
    BY <2>1, Typed DEF SignupInv, IdsOK, Proved
  <2> QED BY <2>1, <2>2, GoesOn DEF Replay, At, Steps, Working
<1> QED BY <1>1, <1>2 DEF Replay

LEMMA QuietSteps ==
  ASSUME SignupInv, NEW c \in Calls,
         \/ Lookup(c) \/ LimitHit(c) \/ Admit(c) \/ Begin(c) \/ ReadRecord(c) \/ FindExisting(c)
         \/ WaitEnds(c) \/ Insert(c) \/ Replay(c) \/ RollsBack(c)
  PROVE  SignupInv'
<1>1. CASE LimitHit(c) \/ RollsBack(c)
  BY <1>1, EndKeeps DEF LimitHit, RollsBack, At
<1>2. CASE ReadRecord(c)
  BY <1>2, FoundKeeps DEF ReadRecord, At
<1> QED BY <1>1, <1>2, LookupKeeps, AdmitKeeps, BeginKeeps, FindExistingKeeps, WaitEndsKeeps,
           InsertKeeps, ReplayKeeps

-----------------------------------------------------------------------------
(* Part 3: the first state, and the steps that make or delete something.   *)
LEMMA StartKept == ASSUME Init PROVE SignupInv
<1>1. Len(made) = 0 /\ DOMAIN made = {} /\ made \in Seq(Field("key"))
  BY EmptySeq DEF Init
<1>2. \A c \in Calls : signup[c] = Free
  BY DEF Init
<1>3. Active = {} /\ Paying = {} /\ Spent = {} /\ \A k : MadeBy(k) = {}
  BY <1>1, <1>2, FreeTyped DEF Active, Paying, Spent, MadeBy, At, Working, Init
<1>4. IsFiniteSet({}) /\ Cardinality({}) = 0
  BY FS_EmptySet
<1>5. TypeOK
  BY <1>1, FreeTyped, SignupsAssumption DEF TypeOK, Init, Slots
<1>6. RoomOK /\ CaptchasOK
  BY <1>1, <1>3, <1>4, SignupsAssumption DEF RoomOK, CaptchasOK
<1>7. IdsOK /\ NumbersOK /\ PasswordsOK
  BY <1>1, <1>2, FreeTyped DEF IdsOK, NumbersOK, PasswordsOK, HoldsPhone, At, Init
<1>8. KeysOK
  <2>1. \A k \in Field("key") : Cardinality(MadeBy(k)) = 0 /\ purged[k] = 0 /\ Record(k) = {}
    BY <1>3, <1>4 DEF Init, Record
  <2>2. \A c \in Calls : signup[c].step \notin Working
    BY <1>2, FreeTyped DEF Working
  <2> QED BY <2>1, <2>2 DEF KeysOK
<1> QED BY <1>5, <1>6, <1>7, <1>8 DEF SignupInv

LEMMA SendKeeps ==
  ASSUME SignupInv, NEW c \in Calls, NEW form \in Forms, Send(c, form)
  PROVE  SignupInv'
<1> DEFINE slot == [form |-> form, step |-> "sent", account |-> 0]
<1>1. slot \in Slots /\ slot.step = "sent" /\ slot.account \in 0 .. Len(made)
  BY Zero, Typed DEF SignupInv, Slots, Steps
<1>2. RoomOK'
  <2>1. signup \in [Calls -> Slots] /\ Len(made) \in Nat /\ MaxAccounts \in Nat
        /\ IsFiniteSet(Active) /\ Cardinality(Active) \in Nat
    BY Typed, FS_CardinalityType DEF SignupInv, RoomOK
  <2>2. Active' = Active \cup {c} /\ c \notin Active
    BY <2>1 DEF Active, At, Send
  <2>3. IsFiniteSet(Active') /\ Cardinality(Active') = Cardinality(Active) + 1
    BY <2>1, <2>2, FS_AddElement
  <2>4. Len(made) + Cardinality(Active) < MaxAccounts /\ made' = made
    BY DEF Send, Active
  <2> QED BY <2>1, <2>3, <2>4 DEF RoomOK
<1>3. signup' = [signup EXCEPT ![c] = slot]
  BY DEF Send
<1> HIDE DEF slot
<1> QED BY <1>1, <1>2, <1>3, CallKeeps DEF Send, Working

LEMMA IssueReplayKeeps == ASSUME SignupInv, NEW c \in Calls, IssueReplay(c) PROVE SignupInv'
<1>1. Form(c) \in Forms /\ Form(c).password \in Field("password")
  BY Typed, Fields DEF SignupInv
<1>2. \A s \in sessions' : \/ s \in sessions
                           \/ \E a \in accounts : /\ a.id = signup[c].account
                                                 /\ s = [account |-> a.id, of |-> a.password,
                                                          shown |-> Form(c).password]
  BY DEF IssueReplay
<1>3. \A a \in accounts : /\ a.id \in 1 .. MaxAccounts /\ a.password \in Field("password")
                          /\ a.id = signup[c].account => a.password = Form(c).password
  BY DEF SignupInv, TypeOK, Users, PasswordsOK, IssueReplay
<1>4. SessionsOK'
  <2>1. SessionsOK
    BY DEF SignupInv, TypeOK, PasswordsOK, SessionsOK
  <2>2. ASSUME NEW a \in accounts, a.id = signup[c].account,
               NEW s, s = [account |-> a.id, of |-> a.password, shown |-> Form(c).password]
        PROVE  /\ s.of = s.shown
               /\ s \in [account : 1 .. MaxAccounts, of : Field("password"), shown : Field("password")]
    BY <1>1, <1>3, <2>2
  <2> QED BY <1>2, <2>1, <2>2 DEF SessionsOK
<1> QED BY <1>4, EndKeeps DEF IssueReplay, At

LEMMA Written ==
  ASSUME SignupInv, NEW c \in Calls, Commit(c)
  PROVE  /\ \A d \in Calls : d # c => signup'[d] = signup[d]
         /\ signup'[c].step = "idle" /\ signup'[c].account = 0
         /\ signup' \in [Calls -> Slots]
         /\ Len(made') = Len(made) + 1 /\ made' \in Seq(Field("key"))
         /\ DOMAIN made' = 1 .. Len(made) + 1
         /\ \A i \in 1 .. Len(made) : made'[i] = made[i]
         /\ made'[Len(made) + 1] = Form(c).key
         /\ Form(c) \in Forms /\ Len(made) \in Nat /\ DOMAIN made = 1 .. Len(made)
<1>1. /\ signup \in [Calls -> Slots] /\ Form(c) \in Forms /\ Form(c).key \in Field("key")
      /\ made \in Seq(Field("key")) /\ Len(made) \in Nat /\ DOMAIN made = 1 .. Len(made)
  BY Typed, Fields DEF SignupInv
<1>2. made' = Append(made, Form(c).key) /\ signup' = [signup EXCEPT ![c] = Free]
  BY DEF Commit, Ends
<1>3. signup' \in [Calls -> Slots] /\ signup'[c] = Free /\ \A d \in Calls : d # c => signup'[d] = signup[d]
  BY <1>1, <1>2, FreeTyped
<1>4. /\ Len(made') = Len(made) + 1 /\ made' \in Seq(Field("key"))
      /\ \A i \in 1 .. Len(made) : made'[i] = made[i]
      /\ made'[Len(made) + 1] = Form(c).key
  BY <1>1, <1>2, AppendProperties
<1>5. DOMAIN made' = 1 .. Len(made) + 1
  BY <1>4, LenProperties
<1> QED BY <1>1, <1>3, <1>4, <1>5, FreeTyped

LEMMA CommitKeepsRoom ==
  ASSUME SignupInv, NEW c \in Calls, Commit(c)
  PROVE  RoomOK' /\ CaptchasOK' /\ Len(made) + 1 <= MaxAccounts
<1>1. c \in Active /\ c \in Paying /\ Active' = Active \ {c} /\ Paying' = Paying \ {c}
  BY Written DEF Active, Paying, At, Commit, Working
<1>2. Len(made') = Len(made) + 1 /\ Len(made) \in Nat /\ MaxAccounts \in Nat
  BY Written, SignupsAssumption
<1>3. /\ IsFiniteSet(Active') /\ Cardinality(Active') = Cardinality(Active) - 1
      /\ Cardinality(Active) \in Nat /\ Cardinality(Active') \in Nat
  BY <1>1, FS_RemoveElement, FS_CardinalityType DEF SignupInv, RoomOK
<1>4. /\ IsFiniteSet(Paying') /\ Cardinality(Paying') = Cardinality(Paying) - 1
      /\ Cardinality(Paying) \in Nat /\ Cardinality(Paying') \in Nat
  BY <1>1, FS_RemoveElement, FS_CardinalityType DEF SignupInv, CaptchasOK
<1>5. Spent' = Spent /\ IsFiniteSet(Spent) /\ Cardinality(Spent) \in Nat
  BY FS_CardinalityType DEF SignupInv, CaptchasOK, Spent, Commit
<1>6. RoomOK' /\ Len(made) + 1 <= MaxAccounts
  BY <1>2, <1>3 DEF SignupInv, RoomOK
<1>7. CaptchasOK'
  BY <1>2, <1>4, <1>5 DEF SignupInv, CaptchasOK
<1> QED BY <1>6, <1>7

LEMMA CommitKeepsNumbers ==
  ASSUME SignupInv, NEW c \in Calls, Commit(c)
  PROVE  IdsOK' /\ NumbersOK'
<1> DEFINE user == [id |-> Len(made) + 1, phone |-> Form(c).phone, password |-> Form(c).password,
                    verified |-> FALSE]
           left == {a \in accounts : a.id # signup[c].account}
<1>1. accounts' = left \cup {user} /\ user.id = Len(made) + 1 /\ user.phone = Form(c).phone
  BY DEF Commit
<1>2. /\ \A a \in left : a \in accounts /\ a.id \in 1 .. Len(made) /\ a.phone # Form(c).phone
      /\ \A a, b \in accounts : a.id = b.id => a = b
      /\ \A a, b \in accounts : a.phone = b.phone => a = b
      /\ Len(made) \in Nat /\ Len(made') = Len(made) + 1
  BY Written DEF SignupInv, IdsOK, NumbersOK, Commit
<1> HIDE DEF user, left
<1>3. IdsOK'
  <2>1. \A a \in accounts' : a.id \in 1 .. Len(made')
    BY <1>1, <1>2
  <2>2. \A a, b \in accounts' : a.id = b.id => a = b
    BY <1>1, <1>2
  <2>3. \A d \in Calls : signup'[d].account \in 0 .. Len(made')
    BY <1>2, Written DEF SignupInv, IdsOK
  <2> QED BY <2>1, <2>2, <2>3 DEF IdsOK
<1>4. NumbersOK'
  <2>1. \A a, b \in accounts' : a.phone = b.phone => a = b
    BY <1>1, <1>2
  <2>2. ASSUME NEW d \in Calls, At(d, "commit")',
               NEW a \in accounts', a.phone = signup'[d].form.phone
        PROVE  a.id = signup'[d].account
    <3>1. d # c /\ signup'[d] = signup[d] /\ At(d, "commit")
      BY <2>2, Written DEF At
    <3>2. Form(d).phone # Form(c).phone
      BY <3>1 DEF SignupInv, NumbersOK, HoldsPhone, At, Form, Commit
    <3>3. a \in left
      BY <1>1, <2>2, <3>1, <3>2 DEF Form
    <3> QED BY <1>2, <2>2, <3>1, <3>3 DEF SignupInv, NumbersOK, Form
  <2>3. ASSUME NEW d \in Calls, NEW e \in Calls,
               HoldsPhone(d, Form(d).phone)', HoldsPhone(e, Form(d).phone)'
        PROVE  d = e
    <3>1. d # c /\ e # c /\ signup'[d] = signup[d] /\ signup'[e] = signup[e]
      BY <2>3, Written DEF HoldsPhone, At
    <3> QED BY <2>3, <3>1 DEF SignupInv, NumbersOK, HoldsPhone, At, Form
  <2> QED BY <2>1, <2>2, <2>3 DEF NumbersOK, Form
<1> QED BY <1>3, <1>4

LEMMA MadeFinite ==
  ASSUME SignupInv, NEW k
  PROVE  IsFiniteSet(MadeBy(k)) /\ Cardinality(MadeBy(k)) \in Nat
<1>1. Len(made) \in Nat /\ MadeBy(k) \in SUBSET (1 .. Len(made))
  BY Typed DEF SignupInv, MadeBy
<1>2. IsFiniteSet(1 .. Len(made))
  BY <1>1, FS_Interval
<1> QED BY <1>1, <1>2, Subsets

LEMMA CommitKeepsKeys ==
  ASSUME SignupInv, NEW c \in Calls, Commit(c)
  PROVE  KeysOK'
<1>1. /\ Record(Form(c).key) = {} /\ Form(c).key \in Field("key")
      /\ \A d \in Calls : d # c /\ signup[d].step \in Working => Form(d).key # Form(c).key
  BY Written, Fields DEF SignupInv, KeysOK, HoldsKey, Commit, At, Working, Form
<1>2. \A k : /\ Record(k) \subseteq Record(k)'
             /\ k # Form(c).key => Record(k)' = Record(k)
             /\ k = Form(c).key => Record(k)' # {}
  <2> DEFINE record == [key |-> Form(c).key, phone |-> Form(c).phone]
  <2>1. records' = records \cup {record} /\ record.key = Form(c).key
    BY DEF Commit, Recorded
  <2> HIDE DEF record
  <2>2. \A k : Record(k) \subseteq Record(k)' /\ (k # Form(c).key => Record(k)' = Record(k))
    BY <2>1 DEF Record
  <2>3. \A k : k = Form(c).key => record \in Record(k)'
    BY <2>1 DEF Record
  <2> QED BY <2>2, <2>3
<1>3. ASSUME NEW d \in Calls, NEW e \in Calls, signup'[d].step \in Working,
             HoldsKey(e, Form(d).key)'
      PROVE  d = e
  <2>1. d # c /\ e # c /\ signup'[d] = signup[d] /\ signup'[e] = signup[e]
    BY <1>3, Written DEF HoldsKey, Working
  <2> QED BY <1>3, <2>1 DEF SignupInv, KeysOK, HoldsKey, Form
<1>4. ASSUME NEW d \in Calls, signup'[d].step \in Working
      PROVE  Record(Form(d).key)' = {}
  <2>1. d # c /\ signup'[d] = signup[d]
    BY <1>4, Written DEF Working
  <2>2. Form(d).key # Form(c).key /\ Record(Form(d).key) = {}
    BY <1>1, <1>4, <2>1 DEF SignupInv, KeysOK
  <2>3. Form(d)' = Form(d)
    BY <2>1 DEF Form
  <2>4. \A k : k = Form(d).key => Record(k)' = {}
    BY <1>2, <2>2
  <2> QED BY <2>3, <2>4 DEF Record
<1>5. ASSUME NEW k \in Field("key")
      PROVE  Cardinality(MadeBy(k)') <= IF Record(k)' = {} THEN purged'[k] ELSE purged'[k] + 1
  <2>1. purged' = purged /\ purged[k] \in Nat
        /\ Cardinality(MadeBy(k)) <= IF Record(k) = {} THEN purged[k] ELSE purged[k] + 1
    BY Typed DEF SignupInv, KeysOK, Commit
  <2>2. IsFiniteSet(MadeBy(k)) /\ Cardinality(MadeBy(k)) \in Nat
    BY MadeFinite
  <2>3. CASE k # Form(c).key
    <3>1. MadeBy(k)' = MadeBy(k)
      BY <2>3, Written DEF MadeBy
    <3>2. Record(k)' = Record(k)
      BY <1>2, <2>3
    <3> QED BY <2>1, <3>1, <3>2
  <2>4. CASE k = Form(c).key
    <3>1. MadeBy(k)' = MadeBy(k) \cup {Len(made) + 1} /\ Len(made) + 1 \notin MadeBy(k)
      BY <2>4, Written DEF MadeBy
    <3>2. Cardinality(MadeBy(k)') = Cardinality(MadeBy(k)) + 1
      BY <2>2, <3>1, FS_AddElement
    <3>3. Record(k)' # {} /\ Record(k) = {}
      BY <1>1, <1>2, <2>4
    <3> QED BY <2>1, <2>2, <3>2, <3>3
  <2> QED BY <2>3, <2>4
<1> QED BY <1>3, <1>4, <1>5 DEF KeysOK, Field

LEMMA CommitKeeps == ASSUME SignupInv, NEW c \in Calls, Commit(c) PROVE SignupInv'
<1> DEFINE id == Len(made) + 1
           user == [id |-> id, phone |-> Form(c).phone, password |-> Form(c).password,
                    verified |-> FALSE]
           issued == [account |-> id, of |-> Form(c).password, shown |-> Form(c).password]
           record == [key |-> Form(c).key, phone |-> Form(c).phone]
<1>1. /\ accounts' = {a \in accounts : a.id # signup[c].account} \cup {user}
      /\ sessions' = sessions \cup {issued} /\ records' = records \cup {record}
      /\ purged' = purged /\ solved' = solved
  BY DEF Commit, Recorded
<1>2. id \in 1 .. MaxAccounts /\ Len(made') <= MaxAccounts
  BY Written, CommitKeepsRoom, SignupsAssumption
<1>3. user \in Users /\ issued \in [account : 1 .. MaxAccounts, of : Field("password"), shown : Field("password")]
      /\ record \in [key : Field("key"), phone : Field("phone")] /\ issued.of = issued.shown
  BY <1>2, Written, Fields DEF Users
<1>4. /\ TypeOK /\ PasswordsOK /\ IdsOK /\ user.id = Len(made) + 1 /\ Len(made) \in Nat
  BY Written DEF SignupInv
<1> HIDE DEF user, issued, record
<1>5. TypeOK'
  BY <1>1, <1>2, <1>3, <1>4, Written DEF TypeOK, Slots
<1>6. PasswordsOK'
  <2>1. \A s \in sessions' : s.of = s.shown
    BY <1>1, <1>3, <1>4 DEF PasswordsOK
  <2>2. ASSUME NEW d \in Calls, At(d, "issue")',
               NEW a \in accounts', a.id = signup'[d].account
        PROVE  a.password = signup'[d].form.password
    <3>1. d # c /\ signup'[d] = signup[d]
      BY <2>2, Written DEF At
    <3>2. a \in accounts
      BY <1>1, <1>4, <2>2, <3>1 DEF IdsOK
    <3> QED BY <1>4, <2>2, <3>1, <3>2 DEF PasswordsOK, At, Form
  <2> QED BY <2>1, <2>2 DEF PasswordsOK, Form
<1> QED BY <1>5, <1>6, CommitKeepsRoom, CommitKeepsNumbers, CommitKeepsKeys DEF SignupInv

(* Rows verified or deleted: who has which number, with which password,    *)
(* stays true of those that are left.                                      *)
LEMMA AccountsKeep ==
  ASSUME SignupInv, accounts' \subseteq Users,
         \A a \in accounts' : \E b \in accounts :
           a.id = b.id /\ a.phone = b.phone /\ a.password = b.password,
         \A a, b \in accounts' : a.id = b.id => a = b,
         UNCHANGED <<made, records, purged, solved, sessions, signup>>
  PROVE  SignupInv'
<1>1. TypeOK'
  BY DEF SignupInv, TypeOK
<1>2. RoomOK' /\ CaptchasOK'
  <2>1. Active' = Active /\ Paying' = Paying /\ Spent' = Spent
    BY DEF Active, Paying, Spent, At
  <2> QED BY <2>1 DEF SignupInv, RoomOK, CaptchasOK
<1>3. IdsOK'
  BY DEF SignupInv, IdsOK
<1>4. NumbersOK'
  <2>1. \A a, b \in accounts' : a.phone = b.phone => a = b
    BY DEF SignupInv, NumbersOK
  <2>2. \A d \in Calls : At(d, "commit") =>
          \A a \in accounts' : a.phone = Form(d).phone => a.id = signup[d].account
    BY DEF SignupInv, NumbersOK
  <2> QED BY <2>1, <2>2 DEF SignupInv, NumbersOK, HoldsPhone, At, Form
<1>5. PasswordsOK'
  BY DEF SignupInv, PasswordsOK, At, Form
<1>6. KeysOK'
  <2>1. \A k : MadeBy(k)' = MadeBy(k) /\ Record(k)' = Record(k)
    BY DEF MadeBy, Record
  <2> QED BY <2>1 DEF SignupInv, KeysOK, HoldsKey, Form
<1> QED BY <1>1, <1>2, <1>3, <1>4, <1>5, <1>6 DEF SignupInv

LEMMA FlagSet ==
  ASSUME NEW a \in Users, NEW flag
  PROVE  [a EXCEPT !.verified = flag]
           = [id |-> a.id, phone |-> a.phone, password |-> a.password, verified |-> flag]
<1>1. PICK i, p, w, v : a = [id |-> i, phone |-> p, password |-> w, verified |-> v]
  BY DEF Users
<1>2. [a EXCEPT !.verified = flag] = [id |-> i, phone |-> p, password |-> w, verified |-> flag]
  BY <1>1
<1>3. a.id = i /\ a.phone = p /\ a.password = w
  BY <1>1
<1> QED BY <1>2, <1>3

LEMMA RowSteps ==
  ASSUME SignupInv, NEW a \in accounts, Verify(a) \/ DeletePending(a)
  PROVE  SignupInv'
<1>1. accounts \subseteq Users /\ \A b, d \in accounts : b.id = d.id => b = d
  BY DEF SignupInv, TypeOK, IdsOK
<1>2. CASE DeletePending(a)
  BY <1>1, <1>2, AccountsKeep DEF DeletePending
<1>3. CASE Verify(a)
  <2> DEFINE now == [a EXCEPT !.verified = TRUE]
  <2>1. a \in Users
    BY <1>1
  <2>2. now = [id |-> a.id, phone |-> a.phone, password |-> a.password, verified |-> TRUE]
    BY <2>1, FlagSet
  <2>3. now \in Users /\ now.id = a.id /\ now.phone = a.phone /\ now.password = a.password
    <3> HIDE DEF now
    <3> QED BY <2>1, <2>2 DEF Users
  <2>4. accounts' = (accounts \ {a}) \cup {now} /\ UNCHANGED <<made, records, purged, solved, sessions, signup>>
    BY <1>3 DEF Verify
  <2> HIDE DEF now
  <2>5. accounts' \subseteq Users
    BY <1>1, <2>3, <2>4
  <2>6. \A b \in accounts' : \E d \in accounts :
          b.id = d.id /\ b.phone = d.phone /\ b.password = d.password
    BY <2>3, <2>4
  <2>7. \A b, d \in accounts' : b.id = d.id => b = d
    BY <1>1, <2>3, <2>4
  <2> QED BY <2>4, <2>5, <2>6, <2>7, AccountsKeep
<1> QED BY <1>2, <1>3

LEMMA DeleteRecordKeeps ==
  ASSUME SignupInv, NEW r \in records, DeleteRecord(r)
  PROVE  SignupInv'
<1>1. /\ r.key \in Field("key") /\ purged \in [Field("key") -> 0 .. MaxPurged]
      /\ records' \subseteq records /\ MaxPurged \in Nat
      /\ purged' = [purged EXCEPT ![r.key] = purged[r.key] + 1] /\ purged[r.key] < MaxPurged
  BY SignupsAssumption DEF SignupInv, TypeOK, DeleteRecord
<1>2. UNCHANGED <<accounts, made, solved, sessions, signup>>
  BY DEF DeleteRecord
<1>3. TypeOK'
  BY <1>1, <1>2 DEF SignupInv, TypeOK
<1>4. RoomOK' /\ CaptchasOK'
  <2>1. Active' = Active /\ Paying' = Paying /\ Spent' = Spent
    BY <1>2 DEF Active, Paying, Spent, At
  <2> QED BY <1>2, <2>1 DEF SignupInv, RoomOK, CaptchasOK
<1>5. IdsOK' /\ NumbersOK' /\ PasswordsOK'
  BY <1>2 DEF SignupInv, IdsOK, NumbersOK, PasswordsOK, HoldsPhone, At, Form
<1>6. KeysOK'
  <2>1. \A k : MadeBy(k)' = MadeBy(k) /\ Record(k)' \subseteq Record(k)
    BY <1>1, <1>2 DEF MadeBy, Record
  <2>2. ASSUME NEW k \in Field("key")
        PROVE  Cardinality(MadeBy(k)') <= IF Record(k)' = {} THEN purged'[k] ELSE purged'[k] + 1
    <3>1. purged[k] \in Nat /\ Cardinality(MadeBy(k)) \in Nat
      BY MadeFinite, Typed DEF SignupInv
    <3>2. CASE k = r.key
      <4>1. purged'[k] = purged[k] + 1
        BY <1>1, <3>2
      <4>2. Cardinality(MadeBy(k)) <= purged[k] + 1
        BY <3>1 DEF SignupInv, KeysOK
      <4> QED BY <2>1, <3>1, <4>1, <4>2
    <3>3. CASE k # r.key
      <4>1. purged'[k] = purged[k]
        BY <1>1, <3>3
      <4>2. Record(k)' = Record(k)
        BY <3>3 DEF Record, DeleteRecord
      <4> QED BY <2>1, <4>1, <4>2 DEF SignupInv, KeysOK
    <3> QED BY <3>2, <3>3
  <2>3. \A d \in Calls : signup[d].step \in Working => Record(Form(d).key)' = {}
    BY <1>1, <1>2 DEF SignupInv, KeysOK, Record, Form
  <2> QED BY <1>2, <2>2, <2>3 DEF SignupInv, KeysOK, HoldsKey, Form, Field
<1> QED BY <1>3, <1>4, <1>5, <1>6 DEF SignupInv

-----------------------------------------------------------------------------
(* Part 4: the theorems.                                                   *)
LEMMA StepKept == ASSUME SignupInv, [Next]_signupVars PROVE SignupInv'
<1>1. CASE UNCHANGED signupVars
  <2>1. UNCHANGED <<made, records, purged, solved, sessions, signup>> /\ accounts' = accounts
    BY <1>1 DEF signupVars
  <2> QED BY <2>1, AccountsKeep DEF SignupInv, TypeOK, IdsOK
<1>2. CASE \E c \in Calls : Step(c) \/ RollsBack(c)
  BY <1>2, QuietSteps, CommitKeeps, IssueReplayKeeps DEF Step
<1>3. CASE \E c \in Calls, form \in Forms : Send(c, form)
  BY <1>3, SendKeeps
<1>4. CASE \E a \in accounts : Verify(a) \/ DeletePending(a)
  BY <1>4, RowSteps
<1>5. CASE \E r \in records : DeleteRecord(r)
  BY <1>5, DeleteRecordKeeps
<1> QED BY <1>1, <1>2, <1>3, <1>4, <1>5 DEF Next

LEMMA AlwaysSignupInv == Spec => []SignupInv
BY StartKept, StepKept, PTL DEF Spec

(* Whatever the forms and however many calls at once, rows, calls and      *)
(* counters keep their types, and no call makes an account beyond the room *)
(* it was let in for.                                                      *)
THEOREM SignupTyping == Spec => []TypeOK
<1>1. SignupInv => TypeOK
  BY DEF SignupInv
<1> QED BY AlwaysSignupInv, <1>1, PTL

(* A key makes one account, and one more for each of its records deleted.  *)
THEOREM KeysMakeOne == Spec => []OneAccountPerKey
<1>1. SignupInv => OneAccountPerKey
  <2> SUFFICES ASSUME SignupInv, NEW k \in Field("key")
               PROVE  Cardinality({i \in DOMAIN made : made[i] = k}) <= 1 + purged[k]
    BY DEF OneAccountPerKey
  <2>1. Cardinality(MadeBy(k)) \in Nat /\ purged[k] \in Nat
    BY MadeFinite, Typed DEF SignupInv
  <2>2. Cardinality(MadeBy(k)) <= 1 + purged[k]
    BY <2>1 DEF SignupInv, KeysOK
  <2> QED BY <2>2 DEF MadeBy
<1> QED BY AlwaysSignupInv, <1>1, PTL

(* Each account cost one captcha, retries and waits or not.                *)
THEOREM CaptchaEach == Spec => []CaptchaPerAccount
<1>1. SignupInv => CaptchaPerAccount
  <2> SUFFICES ASSUME SignupInv PROVE Len(made) <= Cardinality(Spent)
    BY DEF CaptchaPerAccount, Spent
  <2>1. Cardinality(Paying) \in Nat /\ Cardinality(Spent) \in Nat /\ Len(made) \in Nat
    BY Typed, FS_CardinalityType DEF SignupInv, CaptchasOK
  <2> QED BY <2>1 DEF SignupInv, CaptchasOK
<1> QED BY AlwaysSignupInv, <1>1, PTL

(* One account a number, and a session only for its own password.          *)
THEOREM NumbersKept == Spec => []EachToItsOwner
<1>1. SignupInv => EachToItsOwner
  BY DEF SignupInv, NumbersOK, PasswordsOK, EachToItsOwner
<1> QED BY AlwaysSignupInv, <1>1, PTL

=============================================================================
