---------------------------------- MODULE Access -------------------------------
(* Who gets in: the accounts of persons and the keys of partners. *)
EXTENDS Accounts, PartnerKeys

(* Who gets in, however often and at once they ask: one account per address, its  *)
(* refresh tokens spent once they are said to be (auth.py), a partner within its  *)
(* allowance and only with a key and a user that stand (deps.py).                 *)
AccessHolds == OneAccount /\ SpentTokensStaySpent /\ AllowanceKept
================================================================================
