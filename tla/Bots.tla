------------------------------- MODULE Bots ---------------------------------
(***************************************************************************)
(* The health of one bot of the pool.  Whoever calls Telegram works on a   *)
(* copy of the row read without a lock, and its transaction writes only    *)
(* the columns whose value it changed in that copy, at commit.  A webhook  *)
(* keeps its copy for all of its transactions.                             *)
(***************************************************************************)
EXTENDS Integers

CONSTANTS
  FailingAfter,  \* FAILING_AFTER (3)
  Callers,       \* webhook updates being handled at once
  Probe,         \* housekeeping's bots.recover, one at a time
  MaxErrors      \* bound: calls Telegram answers with an error

(* What the constants are; the module that instantiates this one assumes it. *)
BotsAssumption ==
  /\ FailingAfter \in Nat \ {0} /\ MaxErrors \in Nat
  /\ Probe \notin Callers

VARIABLES
  up,      \* Telegram answers this bot
  errors,  \* error answers so far
  bot,     \* the telegram_bots row
  caller   \* per caller: the copy as loaded or last written, and as it is now

botVars == <<up, errors, bot, caller>>

TelegramBot ==
  [enabled : BOOLEAN, health : {"HEALTHY", "RATE_LIMITED", "FAILING"},
   limit : {"none", "new", "waiting", "passed"},  \* rate_limited_until; new: not yet written
   failures : 0 .. MaxErrors]              \* consecutive_failures

New == [enabled |-> TRUE, health |-> "HEALTHY", limit |-> "none", failures |-> 0]

Free == [busy |-> FALSE, base |-> New, copy |-> New]

-----------------------------------------------------------------------------
mark_ok(b) == [b EXCEPT !.health = "HEALTHY", !.failures = 0, !.limit = "none"]

rate_limited(b) == [b EXCEPT !.health = "RATE_LIMITED", !.limit = "new"]

mark_error_early(b) ==  \* seeded bug: one failure too early
  [b EXCEPT !.failures = @ + 1,
            !.health = IF b.failures + 2 >= FailingAfter THEN "FAILING" ELSE @]

mark_error(b) ==
  [b EXCEPT !.failures = @ + 1,
            !.health = IF b.failures + 1 >= FailingAfter THEN "FAILING" ELSE @]

(* bots.call marks a success only on a copy that is not in order.          *)
marked_ok(b) == IF b.health # "HEALTHY" \/ b.failures # 0 THEN mark_ok(b) ELSE b

(* A time stamp is one like the others once it is in the database.         *)
Written(b) == IF b.limit = "new" THEN [b EXCEPT !.limit = "waiting"] ELSE b

(* What a commit leaves in the row: the columns changed in the copy.       *)
Merged(base, copy) ==
  [column \in DOMAIN bot |->
     IF copy[column] # base[column] THEN Written(copy)[column] ELSE bot[column]]

(* Seeded bug: failing bots are not probed.                                *)
RecoverableLimited == bot.enabled /\ bot.health = "RATE_LIMITED" /\ bot.limit = "passed"

(* bots.recover's WHERE; a rate limit without a time is never picked.      *)
Recoverable ==
  /\ bot.enabled
  /\ bot.health = "FAILING" \/ (bot.health = "RATE_LIMITED" /\ bot.limit = "passed")

Stranded == bot.health = "RATE_LIMITED" /\ bot.limit = "none"

-----------------------------------------------------------------------------
Init ==
  /\ up = TRUE
  /\ errors = 0
  /\ bot = New
  /\ caller = [c \in Callers \cup {Probe} |-> Free]

(* Telegram, the network or a block comes and goes.                        *)
Telegram ==
  /\ up' = ~up
  /\ UNCHANGED <<errors, bot, caller>>

Load(c) ==
  /\ ~caller[c].busy
  /\ IF c = Probe THEN Recoverable ELSE bot.enabled
  /\ caller' = [caller EXCEPT ![c] = [busy |-> TRUE, base |-> bot, copy |-> bot]]
  /\ UNCHANGED <<up, errors, bot>>

Unchanged(c) == caller[c].copy = caller[c].base

(* recover makes one call for a bot, a webhook one for each message.       *)
MayCall(c) == caller[c].busy /\ (c = Probe => Unchanged(c))

CallOk(c) ==
  /\ MayCall(c) /\ up
  /\ caller' = [caller EXCEPT ![c].copy = marked_ok(@)]
  /\ UNCHANGED <<up, errors, bot>>

CallError(c) ==
  /\ MayCall(c) /\ ~up /\ errors < MaxErrors
  /\ caller' = [caller EXCEPT ![c].copy = mark_error(@)]
  /\ errors' = errors + 1
  /\ UNCHANGED <<up, bot>>

CallLimited(c) ==
  /\ MayCall(c) /\ ~up
  /\ caller' = [caller EXCEPT ![c].copy = rate_limited(@)]
  /\ UNCHANGED <<up, errors, bot>>

(* The transaction commits.  A webhook goes on to its next transaction     *)
(* with the copy it has, or is done.                                       *)
Commit(c, goesOn) ==
  /\ caller[c].busy
  /\ c = Probe => ~goesOn /\ ~Unchanged(c)
  /\ bot' = Merged(caller[c].base, caller[c].copy)
  /\ caller' = [caller EXCEPT ![c] = IF goesOn
       THEN [busy |-> TRUE, base |-> Written(@.copy), copy |-> Written(@.copy)] ELSE Free]
  /\ UNCHANGED <<up, errors>>

(* The transaction rolls back or its process dies: a webhook ends with it, *)
(* and what Telegram answered is forgotten.  A probe that ends before its  *)
(* call is one that was not begun.                                         *)
Rollback(c) ==
  /\ caller[c].busy /\ (c = Probe => ~Unchanged(c))
  /\ caller' = [caller EXCEPT ![c] = Free]
  /\ UNCHANGED <<up, errors, bot>>

LimitPasses ==
  /\ bot.limit = "waiting"
  /\ bot' = [bot EXCEPT !.limit = "passed"]
  /\ UNCHANGED <<up, errors, caller>>

(* The bots page: switching on marks the bot as in order.                  *)
Toggle ==
  /\ bot' = IF bot.enabled THEN [bot EXCEPT !.enabled = FALSE]
                           ELSE mark_ok([bot EXCEPT !.enabled = TRUE])
  /\ UNCHANGED <<up, errors, caller>>

(* The bot is added again, for instance with a new token; the end of its   *)
(* rate limit is left as it was.                                           *)
register ==
  /\ up
  /\ bot' = [bot EXCEPT !.enabled = TRUE, !.health = "HEALTHY", !.failures = 0]
  /\ UNCHANGED <<up, errors, caller>>

-----------------------------------------------------------------------------
Next ==
  \/ Telegram \/ LimitPasses \/ Toggle \/ register
  \/ \E c \in Callers \cup {Probe} :
       \/ Load(c) \/ CallOk(c) \/ CallError(c) \/ CallLimited(c) \/ Rollback(c)
       \/ \E goesOn \in BOOLEAN : Commit(c, goesOn)

(* Housekeeping probes every minute, a rate limit passes, and a webhook    *)
(* comes to its end.  A probe may be rolled back, but the one a minute     *)
(* later is not for ever.                                                  *)
Fairness ==
  /\ WF_botVars(LimitPasses)
  /\ WF_botVars(Load(Probe))
  /\ WF_botVars(CallOk(Probe))
  /\ SF_botVars(Commit(Probe, FALSE))
  /\ \A c \in Callers : WF_botVars(Commit(c, FALSE))

Spec == Init /\ [][Next]_botVars /\ Fairness

-----------------------------------------------------------------------------
(* Type invariant: the row, and each copy of it as loaded and as it is now. *)
TypeOK ==
  /\ up \in BOOLEAN /\ errors \in 0 .. MaxErrors
  /\ bot \in TelegramBot /\ bot.limit # "new"
  /\ caller \in [Callers \cup {Probe} -> [busy : BOOLEAN, base : TelegramBot, copy : TelegramBot]]

(* No bot is taken out of the pool before FailingAfter calls of it failed, *)
(* whatever stale copies are written back: a failure may be forgotten by a *)
(* copy that missed it, but none is ever counted twice.                    *)
FailsOnlyByErrors ==
  /\ bot.failures <= errors
  /\ bot.health = "FAILING" => errors >= FailingAfter

(* When Telegram answers again, an enabled bot comes back by itself for    *)
(* good, although old copies may still mark it as failing: unless two      *)
(* copies of different columns left it rate limited without a time.        *)
Recovers ==
  <>[](up /\ bot.enabled) => <>[](bot.health = "HEALTHY" \/ Stranded)
=============================================================================
