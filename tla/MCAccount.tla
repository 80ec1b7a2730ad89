-------------------------------- MODULE MCAccount -------------------------------
(* Small instances of what a user may take back, one at a time: the account as a
   whole (Erasure), or the consent that try-ons rest on (Tryon). *)
EXTENDS Erasure, Tryon

VARIABLE part

AccountVars == <<part, erasureVars, vars>>

AccountInit == part \in {"erasure", "tryon"} /\ ErasureInit /\ Init

AccountNext ==
  \/ part = "erasure" /\ ErasureNext /\ UNCHANGED <<part, vars>>
  \/ part = "tryon" /\ Next /\ UNCHANGED <<part, erasureVars>>

AccountSpec == AccountInit /\ [][AccountNext]_AccountVars /\ ErasureFairness /\ Fairness

--------------------------------------------------------------------------------
\* An outfit has a garment more than passes are made.
MCFits == [o \in Outfits |-> 3]

(* The rows of an erasure, of consents, requests and renders are of the shape   *)
(* their columns allow, an attempt is counted only when something failed, and   *)
(* taps that pass the quota check together overshoot it by one request each.    *)
AccountTypeOK == ErasureTypeOK /\ TypeOK
================================================================================
