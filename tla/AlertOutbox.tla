---------------------------- MODULE AlertOutbox -----------------------------
(***************************************************************************)
(* What urgent alerts promise, without gates, claims and sweeps: an event  *)
(* that was raised is owed until a mail carried it or it waits, a mail     *)
(* carries one owed event and whatever waits, the mails that count in a    *)
(* window stay within the cap, and only a mail retires an event.  Where    *)
(* one mail per window keeps them apart, no event is carried twice.  Only  *)
(* an error loses an owed event, and only after trouble is a mail not      *)
(* counted.                                                                *)
(***************************************************************************)
EXTENDS Naturals, FiniteSets

CONSTANTS Reviews, Tokens, MaxPerWindow

VARIABLES owed,     \* reviews of evaluations past the gates and not over
          waiting,  \* reviews held back at some time
          retired,  \* reviews that need no further mail
          mailed,   \* how often a review was mailed: never, once, or more (2)
          recent,   \* the mails counted in the window
          trouble   \* whether there was an "error" or a delivery was "late"

ovars == <<owed, waiting, retired, mailed, recent, trouble>>

OInit == /\ owed = {} /\ waiting = {} /\ retired = {} /\ recent = {} /\ trouble = {}
         /\ mailed = [r \in Reviews |-> 0]

Raise(r) == /\ owed' = owed \cup {r}
            /\ UNCHANGED <<waiting, retired, mailed, recent, trouble>>

HoldBack(r) == /\ r \in owed
               /\ waiting' = waiting \cup {r}
               /\ owed' \in {owed, owed \ {r}}
               /\ UNCHANGED <<retired, mailed, recent, trouble>>

Close(r) == /\ mailed[r] > 0
            /\ owed' = owed \ {r}
            /\ UNCHANGED <<waiting, retired, mailed, recent, trouble>>

Counted == \E t \in Tokens \ recent : /\ recent' = recent \cup {t}
                                      /\ Cardinality(recent') <= MaxPerWindow

Mail(S) == /\ \E r \in S \cap (owed \cup waiting) : S \ {r} \subseteq waiting
           /\ trouble = {} /\ MaxPerWindow = 1 => \A r \in S : mailed[r] = 0
           /\ mailed' = [r \in Reviews |-> IF r \in S /\ mailed[r] < 2
                                           THEN mailed[r] + 1 ELSE mailed[r]]
           /\ Counted \/ (trouble # {} /\ UNCHANGED recent)
           /\ UNCHANGED <<owed, waiting, retired, trouble>>

Retire(r) == /\ mailed[r] > 0
             /\ retired' = retired \cup {r}
             /\ UNCHANGED <<owed, waiting, mailed, recent, trouble>>

PassWindow == /\ \E t \in Tokens : recent' = recent \ {t}
              /\ trouble' \in {trouble, trouble \cup {"late"}}
              /\ UNCHANGED <<owed, waiting, retired, mailed>>

Suffer == /\ trouble' = trouble \cup {"error"}
          /\ owed' \in SUBSET owed
          /\ UNCHANGED <<waiting, retired, mailed, recent>>

ONext == \/ \E r \in Reviews : Raise(r) \/ HoldBack(r) \/ Close(r) \/ Retire(r)
         \/ \E S \in SUBSET Reviews : Mail(S)
         \/ PassWindow \/ Suffer

OSpec == OInit /\ [][ONext]_ovars
=============================================================================
