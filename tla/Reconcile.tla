------------------------------ MODULE Reconcile ------------------------------
(***************************************************************************)
(* The decision chambers/reconcile.py takes for one symbol: given the open *)
(* trades the sleeves' books hold and the net quantity the broker reports, *)
(* which trades are adopted as positions, which are closed as              *)
(* `reconcile_missing', and how much of the broker's quantity no trade     *)
(* explains and is flattened as an orphan.                                 *)
(*                                                                         *)
(* A trade is a record with an id and a signed quantity q (long > 0).      *)
(* Quantities are whole shares, so `_same' is equality; the 1% tolerance   *)
(* of crypto is not modelled (only S2 trades crypto, and one trade on a    *)
(* symbol is never compared by quantity).                                  *)
(***************************************************************************)
EXTENDS Integers, FiniteSets, Functions

(* Signed quantity of a set of trades: Trade.signed_qty summed.  The test  *)
(* makes the operator total, so that proofs have its type.                 *)
Quantity(T) == LET sum == SumFunction([t \in T |-> t.q])
               IN  IF sum \in Int THEN sum ELSE 0

(* open_trades() lists by id, so the first match is the oldest trade.      *)
First(T) == CHOOSE t \in T : \A u \in T : t.id <= u.id
Last(T)  == CHOOSE t \in T : \A u \in T : t.id >= u.id

SameSign(a, b) == a # 0 /\ b # 0 /\ (a > 0) = (b > 0)

(* Mutants of Adopted: signs alone decide; anything held adopts them all.  *)
AdoptedBySign(T, b)  == {t \in T : SameSign(t.q, b)}
AdoptedIfHeld(T, b)  == IF b # 0 THEN T ELSE {}

(* The single trade of a symbol is adopted on its sign alone; several are  *)
(* adopted together when they add up to the broker's quantity, or else the *)
(* first one that equals it alone.                                         *)
Adopted(T, b) ==
  LET exact == {t \in T : t.q = b}
  IN  CASE Cardinality(T) = 1 -> {t \in T : SameSign(t.q, b)}
        [] Cardinality(T) # 1 /\ b = Quantity(T) -> T
        [] Cardinality(T) # 1 /\ b # Quantity(T) /\ b # 0 /\ exact # {} -> {First(exact)}
        [] OTHER -> {}

Decide(T, b) ==
  [ adopt   |-> Adopted(T, b),
    missing |-> T \ Adopted(T, b),
    orphan  |-> IF Adopted(T, b) = {} THEN b ELSE 0 ]
==============================================================================
