------------------------------ MODULE Refusals ------------------------------
(***************************************************************************)
(* A check that passes is "ok", one that fails is its reason.  A function  *)
(* of the source that throws at the first check that fails is the first    *)
(* refusal of its checks in their order.                                   *)
(***************************************************************************)
EXTENDS Naturals, Sequences

Require(holds, reason) == IF holds THEN "ok" ELSE reason

FirstRefusal(checks) ==
    IF \A i \in DOMAIN checks : checks[i] = "ok"
    THEN "ok"
    ELSE checks[CHOOSE i \in DOMAIN checks :
                    /\ checks[i] # "ok"
                    /\ \A j \in DOMAIN checks : j < i => checks[j] = "ok"]
=============================================================================
