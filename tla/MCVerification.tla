--------------------------- MODULE MCVerification ---------------------------
(* Verification of two numbers, with a Telegram account for each, and two  *)
(* updates or requests in flight.                                          *)
EXTENDS Verification, TLC

CONSTANTS p1, p2, t1, t2

(* t1 had both numbers, one after the other; t2 has the second.            *)
MCNumbersOf == t1 :> {p1, p2} @@ t2 :> {p2}

HandlersAlike == Permutations(Handlers)
=============================================================================
