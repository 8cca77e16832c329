------------------------------- MODULE ApiKeys -------------------------------
(***************************************************************************)
(* The API keys of one organisation: calls that authenticate against a     *)
(* monthly quota (app/auth/api_key.py), and the operator's and the owner's *)
(* changes to the keys (app/api/admin.py, app/api/account.py and, with the *)
(* same statements, app/api/bff/router.py).  Statements that another       *)
(* transaction can come between are steps of their own; lock[k] is the row *)
(* lock that a transaction keeps to its end.                               *)
(***************************************************************************)
EXTENDS Integers, FiniteSets

CONSTANTS
    Keys,          \* keys, issued or to be issued
    FirstKey,      \* the key of the sign-up
    Callers,       \* API calls that authenticate
    Clerks,        \* changes to the keys
    Quotas,        \* quotas that a created key may be given
    DefaultQuota,  \* quota of the sign-up and of regenerated keys (1000)
    LastMonth,     \* bound: months
    NoKey, Nobody

ASSUME KeysAssumption ==
    /\ FirstKey \in Keys /\ NoKey \notin Keys
    /\ Callers \cap Clerks = {} /\ Nobody \notin Callers \cup Clerks
    /\ DefaultQuota \in Quotas /\ Quotas \subseteq Nat /\ LastMonth \in Nat
    /\ IsFiniteSet(Keys)

Months == 0..LastMonth

VARIABLES
    life,     \* a key: unissued, live or revoked
    quota,    \* api_keys.quota
    used,     \* usage_records of a key in a month
    month,    \* the calendar month
    lock,     \* the transaction that holds a key's row
    phase,    \* a transaction's place
    key,      \* the key it is about
    began,    \* the month of its now()
    counted,  \* monthly_count
    granted,  \* keys given by the sign-up and created, less those revoked
    overtaken \* whether a regeneration and another change were ever under way together

keyRows == <<life, quota, used, lock>>
calls == <<phase, key, began, counted>>
keyMarks == <<granted, overtaken>>
keyVars == <<keyRows, calls, month, keyMarks>>

KeysInit ==
    /\ life = [k \in Keys |-> IF k = FirstKey THEN "live" ELSE "unissued"]
    /\ quota = [k \in Keys |-> DefaultQuota]
    /\ used = [k \in Keys |-> [m \in Months |-> 0]]
    /\ month = 0
    /\ lock = [k \in Keys |-> Nobody]
    /\ phase = [c \in Callers \cup Clerks |-> "out"]
    /\ key = [c \in Callers \cup Clerks |-> NoKey]
    /\ began = [c \in Callers |-> 0]
    /\ counted = [c \in Callers |-> 0]
    /\ granted = 1 /\ overtaken = FALSE

Live == {k \in Keys : life[k] = "live"}

\* A transaction ends: its row is free again.
End(c, outcome) ==
    /\ lock' = [k \in Keys |-> IF lock[k] = c THEN Nobody ELSE lock[k]]
    /\ phase' = [phase EXCEPT ![c] = outcome]
    /\ key' = [key EXCEPT ![c] = NoKey]

-----------------------------------------------------------------------------
\* _lookup_and_record

\* resolve_org_for_api_key_prefix opens the transaction, so now() is read here.
Resolve(c) ==
    /\ phase[c] = "out"
    /\ \E k \in Live : key' = [key EXCEPT ![c] = k]
    /\ began' = [began EXCEPT ![c] = month]
    /\ phase' = [phase EXCEPT ![c] = "resolved"]
    /\ UNCHANGED <<keyRows, counted, month, keyMarks>>

\* Mutants: no FOR UPDATE; the re-fetch trusts the lookup.
NoWait(k) == TRUE
OnceLive(k) == TRUE

Free(k) == lock[k] = Nobody

StillLive(k) == life[k] = "live"

\* SELECT ... FOR UPDATE OF ak: waits for the row, then looks at it again.
LockKey(c) ==
    /\ phase[c] = "resolved"
    /\ Free(key[c]) /\ StillLive(key[c])
    /\ lock' = [lock EXCEPT ![key[c]] = c]
    /\ phase' = [phase EXCEPT ![c] = "locked"]
    /\ UNCHANGED <<life, quota, used, key, began, counted, month, keyMarks>>

CountUsage(c) ==
    /\ phase[c] = "locked"
    /\ counted' = [counted EXCEPT ![c] = used[key[c]][began[c]]]
    /\ phase' = [phase EXCEPT ![c] = "counted"]
    /\ UNCHANGED <<keyRows, key, began, month, keyMarks>>

WithinQuota(c) == counted[c] < quota[key[c]]

\* The usage record is inserted, with the month of now(), and committed.
Charge(c) ==
    /\ phase[c] = "counted"
    /\ WithinQuota(c)
    /\ used' = [used EXCEPT ![key[c]][began[c]] = @ + 1]
    /\ End(c, "admitted")
    /\ UNCHANGED <<life, quota, began, counted, month, keyMarks>>

\* 401 (the key was revoked meanwhile, or its hash does not match), 429, an error or a
\* death: the transaction rolls back.
Refuse(c) ==
    /\ \/ phase[c] = "resolved" /\ Free(key[c])
       \/ phase[c] \in {"locked", "counted"}
    /\ End(c, "refused")
    /\ UNCHANGED <<life, quota, used, began, counted, month, keyMarks>>

-----------------------------------------------------------------------------
\* Changes to the keys.

Changing == {a \in Clerks : phase[a] \in {"rotating", "replacing"}}

Replacing == {a \in Clerks : phase[a] = "replacing"}

\* A change begins or is made: did a regeneration meet another?
Meets(a, regenerates) ==
    overtaken' = (overtaken \/ (IF regenerates THEN Changing \ {a} ELSE Replacing \ {a}) # {})

Issue(k, itsQuota, revoked) ==
    /\ life[k] = "unissued"
    /\ life' = [life EXCEPT ![k] = "live", ![revoked] = "revoked"]
    /\ quota' = [quota EXCEPT ![k] = itsQuota]

\* _create_key_db, _create_key_bff_db
CreateKey(a) ==
    /\ phase[a] = "out"
    /\ \E k \in Keys, q \in Quotas :
          /\ life[k] = "unissued"
          /\ life' = [life EXCEPT ![k] = "live"]
          /\ quota' = [quota EXCEPT ![k] = q]
    /\ granted' = granted + 1
    /\ phase' = [phase EXCEPT ![a] = "changed"]
    /\ UNCHANGED <<used, lock, key, began, counted, month, overtaken>>

\* _revoke_key_db, _revoke_key_bff_db: one statement, which waits for the row.
RevokeKey(a) ==
    /\ phase[a] = "out"
    /\ \E k \in Live : Free(k) /\ life' = [life EXCEPT ![k] = "revoked"]
    /\ granted' = granted - 1
    /\ Meets(a, FALSE)
    /\ phase' = [phase EXCEPT ![a] = "changed"]
    /\ UNCHANGED <<quota, used, lock, key, began, counted, month>>

\* _rotate_key_db: FOR UPDATE, then revoke and insert with the old quota.
LockForRotation(a) ==
    /\ phase[a] = "out"
    /\ \E k \in Live : /\ Free(k)
                       /\ key' = [key EXCEPT ![a] = k]
                       /\ lock' = [lock EXCEPT ![k] = a]
    /\ Meets(a, FALSE)
    /\ phase' = [phase EXCEPT ![a] = "rotating"]
    /\ UNCHANGED <<life, quota, used, began, counted, month, granted>>

Rotate(a) ==
    /\ phase[a] = "rotating"
    /\ \E k \in Keys : Issue(k, quota[key[a]], key[a])
    /\ End(a, "changed")
    /\ UNCHANGED <<used, began, counted, month, keyMarks>>

\* _do_regenerate: a plain SELECT of the newest live key (with several, any of them
\* here), then an UPDATE that waits for the row and does not look at revoked_at.
ReadCurrent(a) ==
    /\ phase[a] = "out"
    /\ \E k \in Live : key' = [key EXCEPT ![a] = k]
    /\ Meets(a, TRUE)
    /\ phase' = [phase EXCEPT ![a] = "replacing"]
    /\ UNCHANGED <<keyRows, began, counted, month, granted>>

Replace(a) ==
    /\ phase[a] = "replacing"
    /\ Free(key[a])
    /\ \E k \in Keys : Issue(k, DefaultQuota, key[a])
    /\ End(a, "changed")
    /\ UNCHANGED <<used, began, counted, month, keyMarks>>

\* The change fails or its instance dies.
Abandon(a) ==
    /\ a \in Changing
    /\ End(a, "changed")
    /\ UNCHANGED <<life, quota, used, began, counted, month, keyMarks>>

NextMonth ==
    /\ month < LastMonth
    /\ month' = month + 1
    /\ UNCHANGED <<keyRows, calls, keyMarks>>

-----------------------------------------------------------------------------
Authenticate(c) == Resolve(c) \/ LockKey(c) \/ CountUsage(c) \/ Charge(c) \/ Refuse(c)

ChangeKeys(a) == \/ CreateKey(a) \/ RevokeKey(a) \/ LockForRotation(a) \/ Rotate(a)
                 \/ ReadCurrent(a) \/ Replace(a) \/ Abandon(a)

KeysNext == \/ \E c \in Callers : Authenticate(c)
            \/ \E a \in Clerks : ChangeKeys(a)
            \/ NextMonth

KeysSpec == KeysInit /\ [][KeysNext]_keyVars

-----------------------------------------------------------------------------
CallPhases == {"out", "resolved", "locked", "counted", "admitted", "refused"}

\* Every variable has its type.
KeysTypeOK ==
    /\ life \in [Keys -> {"unissued", "live", "revoked"}]
    /\ quota \in [Keys -> Quotas]
    /\ used \in [Keys -> [Months -> Nat]]
    /\ month \in Months
    /\ lock \in [Keys -> Callers \cup Clerks \cup {Nobody}]
    /\ phase \in [Callers \cup Clerks -> CallPhases \cup {"rotating", "replacing", "changed"}]
    /\ key \in [Callers \cup Clerks -> Keys \cup {NoKey}]
    /\ began \in [Callers -> Months]
    /\ counted \in [Callers -> Nat]
    /\ granted \in Int /\ overtaken \in BOOLEAN

\* No month holds more calls of a key than its quota, however many arrive at once and
\* on whichever side of the turn of the month their transactions began.
QuotaKept == \A k \in Keys : \A m \in Months : used[k][m] <= quota[k]

\* A revoked key admits nobody, not even a call that found it live before.
RevokedStaysOut ==
    [][\A k \in Keys : life[k] = "revoked" => used'[k] = used[k]]_keyVars

\* Rotation gives a key for a key: as many are live as were given and not revoked,
\* though rotations and revocations meet; only a regeneration that meets another
\* change can leave one too many.
OneForOne == ~overtaken => Cardinality(Live) = granted

\* Every interleaving of the transactions looks like calls and changes made one at a
\* time: each call is admitted by a key that is live and below its quota at that moment.
Register == INSTANCE KeyRegister
ImplementsRegister == Register!RSpec
=============================================================================
