---------------------------- MODULE KeyRegister -----------------------------
(***************************************************************************)
(* What the API keys promise, without transactions or row locks: a call is *)
(* admitted, and a key given, revoked or replaced, in one step.  A call    *)
(* needs a key that is live and has quota left in the month it counts in,  *)
(* which is this month or, if it had to wait, an earlier one.  A key can   *)
(* be replaced that was revoked or replaced meanwhile.                     *)
(***************************************************************************)
EXTENDS Integers

CONSTANTS Keys, FirstKey, Quotas, DefaultQuota, LastMonth

VARIABLES life,    \* a key: unissued, live or revoked
          quota,   \* what a key admits in a month
          used,    \* the calls it admitted, per month
          month

rvars == <<life, quota, used, month>>

RInit == /\ life = [k \in Keys |-> IF k = FirstKey THEN "live" ELSE "unissued"]
         /\ quota = [k \in Keys |-> DefaultQuota]
         /\ used = [k \in Keys |-> [m \in 0..LastMonth |-> 0]]
         /\ month = 0

AdmitCall(k, m) == /\ life[k] = "live"
                   /\ m <= month /\ used[k][m] < quota[k]
                   /\ used' = [used EXCEPT ![k][m] = @ + 1]
                   /\ UNCHANGED <<life, quota, month>>

Give(k) == /\ life[k] = "unissued"
           /\ life' = [life EXCEPT ![k] = "live"]
           /\ \E q \in Quotas : quota' = [quota EXCEPT ![k] = q]
           /\ UNCHANGED <<used, month>>

Revoke(k) == /\ life[k] = "live"
             /\ life' = [life EXCEPT ![k] = "revoked"]
             /\ UNCHANGED <<quota, used, month>>

ReplaceKey(old, new) ==
    /\ life[old] # "unissued" /\ life[new] = "unissued"
    /\ life' = [life EXCEPT ![new] = "live", ![old] = "revoked"]
    /\ \E q \in {quota[old], DefaultQuota} : quota' = [quota EXCEPT ![new] = q]
    /\ UNCHANGED <<used, month>>

TurnMonth == /\ month < LastMonth
             /\ month' = month + 1
             /\ UNCHANGED <<life, quota, used>>

RNext == \/ \E k \in Keys : Give(k) \/ Revoke(k) \/ \E m \in 0..LastMonth : AdmitCall(k, m)
         \/ \E old, new \in Keys : ReplaceKey(old, new)
         \/ TurnMonth

RSpec == RInit /\ [][RNext]_rvars
=============================================================================
