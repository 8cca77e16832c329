---------------------------- MODULE MCJudgemeSync ----------------------------
(***************************************************************************)
(* Two contents of one text and one of another, on pages of one review.    *)
(***************************************************************************)
EXTENDS JudgemeSync, TLC

CONSTANTS c1, c2, c3, t1, t2

MCTextOf == (c1 :> t1) @@ (c2 :> t1) @@ (c3 :> t2)

\* The reviews that the shop starts with have the first content; others come by edits.
FewStarts == Init /\ \A r \in Reviews : body[r] \in {c1, Nothing}

FewStartsSpec == FewStarts /\ [][Next]_vars /\ Fairness
=============================================================================
