----------------------------- MODULE LaunchGate -----------------------------
(***************************************************************************)
(* The Mini App launch gate: nonces and passes in Redis, and the copy of   *)
(* the setting that each server process keeps for GATE_CACHE_SECONDS.      *)
(*                                                                         *)
(* Each await of launch_gate.complete is a step: another crossing, a       *)
(* timer or a suspension may come between any two of them.                 *)
(***************************************************************************)
EXTENDS FiniteSets

CONSTANTS
  Users,      \* verified accounts, each with its own Telegram
  Procs,      \* server processes (uvicorn --workers 2)
  Nonces,     \* bound: nonces ever minted
  Crossings,  \* bound: Mini App callbacks being handled at once
  Nobody

(* What the constants are; the module that instantiates this one assumes it. *)
LaunchGateAssumption == Nobody \notin Users \cup Nonces

VARIABLES
  gate,       \* app_settings: launch_gate_enabled, with a miniapp_short_name set
  watcher,    \* an enabled WATCHER bot exists
  suspended,  \* users whose status is SUSPENDED
  cache,      \* per process, _gate_cache.launch_gate
  loading,    \* per process, values read from the database, not yet stored
  owner,      \* launch:nonce:<n>
  minted,     \* for whom each nonce was minted
  pass,       \* launch:pass:<user>
  spent,      \* nonces a crossing deleted
  crossing    \* callbacks being handled

gateVars == <<gate, watcher, suspended, cache, loading, owner, minted, pass, spent, crossing>>

Absent == [user |-> Nobody, nonce |-> Nobody, step |-> "match"]

(* Whether the app is given a link to a Mini App where a pass can be had.  *)
Offered == gate /\ watcher

(* What deps.verified refuses.                                             *)
Required(p, u) == cache[p] = "on" /\ u \notin pass

-----------------------------------------------------------------------------
Init ==
  /\ gate = FALSE
  /\ watcher = FALSE
  /\ suspended = {}
  /\ cache = [p \in Procs |-> "none"]
  /\ loading = [p \in Procs |-> {}]
  /\ owner = [n \in Nonces |-> Nobody]
  /\ minted = [n \in Nonces |-> Nobody]
  /\ pass = {}
  /\ spent = {}
  /\ crossing = [x \in Crossings |-> Absent]

(* The settings page: reset_gate_cache clears the copy of its process only. *)
SettingsSave(p, on) ==
  /\ gate' = on
  /\ cache' = [cache EXCEPT ![p] = "none"]
  /\ UNCHANGED <<watcher, suspended, loading, owner, minted, pass, spent, crossing>>

(* The bots page.                                                          *)
ToggleWatcher ==
  /\ watcher' = ~watcher
  /\ UNCHANGED <<gate, suspended, cache, loading, owner, minted, pass, spent, crossing>>

Suspend(u) ==
  /\ suspended' = suspended \cup {u}
  /\ UNCHANGED <<gate, watcher, cache, loading, owner, minted, pass, spent, crossing>>

Unsuspend(u) ==
  /\ suspended' = suspended \ {u}
  /\ UNCHANGED <<gate, watcher, cache, loading, owner, minted, pass, spent, crossing>>

-----------------------------------------------------------------------------
(* _gate_state: the settings are read in a transaction and stored after it, *)
(* and nothing keeps two requests of a process from doing so at once.      *)
LoadGate(p) ==
  /\ cache[p] = "none"
  /\ loading' = [loading EXCEPT ![p] = @ \cup {IF gate THEN "on" ELSE "off"}]
  /\ UNCHANGED <<gate, watcher, suspended, cache, owner, minted, pass, spent, crossing>>

StoreGate(p, value) ==
  /\ value \in loading[p]
  /\ cache' = [cache EXCEPT ![p] = value]
  /\ loading' = [loading EXCEPT ![p] = @ \ {value}]
  /\ UNCHANGED <<gate, watcher, suspended, owner, minted, pass, spent, crossing>>

CacheNeverExpires(p) == FALSE /\ UNCHANGED gateVars  \* seeded bug

CacheExpires(p) ==
  /\ cache[p] # "none"
  /\ cache' = [cache EXCEPT ![p] = "none"]
  /\ UNCHANGED <<gate, watcher, suspended, loading, owner, minted, pass, spent, crossing>>

-----------------------------------------------------------------------------
(* The app asks for a link; a suspended user has no session to ask with.   *)
Challenge(u, n) ==
  /\ Offered /\ u \notin suspended
  /\ minted[n] = Nobody
  /\ owner' = [owner EXCEPT ![n] = u]
  /\ minted' = [minted EXCEPT ![n] = u]
  /\ UNCHANGED <<gate, watcher, suspended, cache, loading, pass, spent, crossing>>

NonceExpires(n) ==
  /\ owner[n] # Nobody
  /\ owner' = [owner EXCEPT ![n] = Nobody]
  /\ UNCHANGED <<gate, watcher, suspended, cache, loading, minted, pass, spent, crossing>>

PassExpires(u) ==
  /\ u \in pass
  /\ pass' = pass \ {u}
  /\ UNCHANGED <<gate, watcher, suspended, cache, loading, owner, minted, spent, crossing>>

(* launch_gate.complete: the initData proves the Telegram account of an    *)
(* ACTIVE user; the nonce is whatever the Mini App was opened with.        *)
Match(x, u, n) ==
  /\ crossing[x] = Absent
  /\ watcher /\ u \notin suspended
  /\ minted[n] # Nobody
  /\ crossing' = [crossing EXCEPT ![x] = [user |-> u, nonce |-> n, step |-> "match"]]
  /\ UNCHANGED <<gate, watcher, suspended, cache, loading, owner, minted, pass, spent>>

AcceptedAny(x) == owner[crossing[x].nonce] # Nobody  \* seeded bug: anybody's link

Accepted(x) == owner[crossing[x].nonce] = crossing[x].user

(* A nonce that is gone, or another account's: refused, and left there.    *)
GetNonce(x) ==
  /\ crossing[x] # Absent /\ crossing[x].step = "match"
  /\ crossing' = [crossing EXCEPT ![x] =
       IF Accepted(x) THEN [@ EXCEPT !.step = "owned"] ELSE Absent]
  /\ UNCHANGED <<gate, watcher, suspended, cache, loading, owner, minted, pass, spent>>

DeleteNonce(x) ==
  /\ crossing[x].step = "owned"
  /\ owner' = [owner EXCEPT ![crossing[x].nonce] = Nobody]
  /\ spent' = spent \cup {crossing[x].nonce}
  /\ crossing' = [crossing EXCEPT ![x].step = "deleted"]
  /\ UNCHANGED <<gate, watcher, suspended, cache, loading, minted, pass>>

SetPass(x) ==
  /\ crossing[x].step = "deleted"
  /\ pass' = pass \cup {crossing[x].user}
  /\ crossing' = [crossing EXCEPT ![x] = Absent]
  /\ UNCHANGED <<gate, watcher, suspended, cache, loading, owner, minted, spent>>

(* The process dies, or Redis or the database does not answer.             *)
CrossingFails(x) ==
  /\ crossing[x] # Absent
  /\ crossing' = [crossing EXCEPT ![x] = Absent]
  /\ UNCHANGED <<gate, watcher, suspended, cache, loading, owner, minted, pass, spent>>

-----------------------------------------------------------------------------
Next ==
  \/ ToggleWatcher
  \/ \E p \in Procs : LoadGate(p) \/ CacheExpires(p)
  \/ \E p \in Procs, value \in {"on", "off"} : StoreGate(p, value)
  \/ \E p \in Procs, on \in BOOLEAN : SettingsSave(p, on)
  \/ \E u \in Users : Suspend(u) \/ Unsuspend(u) \/ PassExpires(u)
  \/ \E n \in Nonces : NonceExpires(n) \/ \E u \in Users : Challenge(u, n)
  \/ \E x \in Crossings :
       \/ \E u \in Users, n \in Nonces : Match(x, u, n)
       \/ GetNonce(x) \/ DeleteNonce(x) \/ SetPass(x) \/ CrossingFails(x)

(* The five seconds pass, and a request that read the settings goes on.    *)
Fairness == \A p \in Procs :
  /\ WF_gateVars(CacheExpires(p))
  /\ \A value \in {"on", "off"} : WF_gateVars(StoreGate(p, value))

Spec == Init /\ [][Next]_gateVars /\ Fairness

-----------------------------------------------------------------------------
(* Type invariant: settings, copies of them, Redis keys and callbacks.     *)
TypeOK ==
  /\ gate \in BOOLEAN
  /\ watcher \in BOOLEAN
  /\ suspended \subseteq Users /\ pass \subseteq Users /\ spent \subseteq Nonces
  /\ cache \in [Procs -> {"none", "on", "off"}]
  /\ loading \in [Procs -> SUBSET {"on", "off"}]
  /\ owner \in [Nonces -> Users \cup {Nobody}] /\ minted \in [Nonces -> Users \cup {Nobody}]
  /\ crossing \in [Crossings -> [user : Users \cup {Nobody}, nonce : Nonces \cup {Nobody},
                                 step : {"match", "owned", "deleted"}]]

(* Nobody passes for another account: a pass was had with a nonce minted   *)
(* for its own user, however crossings, timers and failures interleave,    *)
(* and that nonce is gone for good.                                        *)
PassIsOwn == \A u \in pass : \E n \in spent : minted[n] = u /\ owner[n] = Nobody

(* A saved setting reaches every process: once the gate stays on, or off,  *)
(* each process ends up enforcing that for good, although only the one     *)
(* that saved it clears its copy and a slow request may store an old one.  *)
GateConverges ==
  \A on \in BOOLEAN :
    <>[](gate = on)
      => <>[](\A p \in Procs : cache[p] \in {"none", IF on THEN "on" ELSE "off"})

(* A user whom the gate, as it is set now, keeps out is given a link to    *)
(* get in by (launch_gate.py:78 "don't trap the user").                    *)
NotTrapped == \A p \in Procs, u \in Users : Required(p, u) /\ gate => Offered
=============================================================================
