-------------------------- MODULE ExtractionProofs --------------------------
(***************************************************************************)
(* What Extraction keeps and books, for any number of requests and texts.  *)
(***************************************************************************)
EXTENDS Extraction, TLAPS

\* Whoever still runs and read "retained" was under way in the purge that followed the
\* opt-out: after it, requests read "stateless".
OptOutInv ==
    /\ \A r \in Requests : pc[r] = "idle" => seen[r] = "stateless"
    /\ mode = "stateless" /\ clean =>
          \A r \in Requests : r \in Running /\ Keeps(r) => r \in across
    /\ OptOutHolds

Answering == {"save", "tokens", "cost", "alert"} \cup Over

\* How far the books of a request are, by its place, as long as nothing hit it.
BooksInv ==
    /\ deleted => \A r \in Requests : r \in hit
    /\ \A r \in called : pc[r] \in Answering
    /\ \A r \in Keyed \ hit : pc[r] # "idle" => r \in usage
    /\ \A r \in kept \ hit : stored[TextOf[r]] = r
    /\ \A r \in called \ hit :
          /\ r \in Keyed /\ pc[r] \in {"cost", "alert"} \cup Over => r \in metered
          /\ pc[r] \in {"alert"} \cup Over => r \in costed

-----------------------------------------------------------------------------
\* Types.

\* The first state has its types.
LEMMA TypeInit == Init => TypeOK
<1> SUFFICES ASSUME Init PROVE TypeOK
    OBVIOUS
<1> USE ExtractionAssumption DEF Init
<1>1. stored \in [Texts -> Requests \cup {NoOne}] /\ pc \in [Requests -> Places]
  BY DEF Places, Over
<1>2. seen \in [Requests -> Modes]
  BY DEF Modes
<1>3. left \in [mishaps : Nat, switches : Nat]
  OBVIOUS
<1>4. age \in [Texts -> Nat]
  OBVIOUS
<1>5. sweep \in [Sweeps -> Windows \cup {0}] /\ had \in [Sweeps -> SUBSET Windows]
  OBVIOUS
<1> QED BY <1>1, <1>2, <1>3, <1>4, <1>5 DEF TypeOK

\* Every step keeps them, and books tokens for calls with a key only.
LEMMA TypeStep == TypeOK /\ [Next]_vars => TypeOK'
<1> SUFFICES ASSUME TypeOK, [Next]_vars PROVE TypeOK'
    OBVIOUS
<1> USE ExtractionAssumption
<1> USE DEF org, rows, books, jobs, marks, TypeOK, Modes, Places, Over, Running, Retained
<1>0. mode \in Modes
  BY DEF ModeWith
<1>1. CASE UNCHANGED vars
  BY <1>1 DEF vars
<1>2. ASSUME NEW r \in Requests, Admit(r) PROVE TypeOK'
  BY <1>0, <1>2 DEF Admit, ReadMode, Goto
<1>3. ASSUME NEW r \in Requests, Accept(r) PROVE TypeOK'
  BY <1>3 DEF Accept, Goto
<1>4. ASSUME NEW r \in Requests, Resolve(r) PROVE TypeOK'
  BY <1>4 DEF Resolve, Goto
<1>5. ASSUME NEW r \in Requests, ReadLive(r) PROVE TypeOK'
  BY <1>0, <1>5 DEF ReadLive, ReadMode, Goto
<1>6. ASSUME NEW r \in Requests, Lookup(r) PROVE TypeOK'
  BY <1>6 DEF Lookup, Goto
<1>7. ASSUME NEW r \in Requests, Call(r) PROVE TypeOK'
  BY <1>7 DEF Call, Goto
<1>8. ASSUME NEW r \in Requests, Save(r) PROVE TypeOK'
  BY <1>8 DEF Save, Goto, OrgExists
<1>9. ASSUME NEW r \in Requests, Tokens(r) PROVE TypeOK'
  BY <1>9 DEF Tokens, Goto, HasUsage
<1>10. ASSUME NEW r \in Requests, Cost(r) PROVE TypeOK'
  BY <1>10 DEF Cost, Goto
<1>11. ASSUME NEW r \in Requests, Alert(r) PROVE TypeOK'
  BY <1>11 DEF Alert, Goto
<1>12. ASSUME NEW r \in Requests, Fail(r) PROVE TypeOK'
  BY <1>12 DEF Fail, Goto
<1>13. ASSUME NEW t \in Texts, Age(t) PROVE TypeOK'
  BY <1>13 DEF Age
<1>14. CASE Purge
  <2>1. stored' \in [Texts -> Requests \cup {NoOne}] /\ age' \in [Texts -> Nat]
    BY <1>14 DEF Purge, Delete
  <2>2. hit' \subseteq Requests
    BY <1>14 DEF Purge, Delete
  <2> QED BY <1>14, <2>1, <2>2 DEF Purge
<1>15. ASSUME NEW s \in Sweeps, List(s) PROVE TypeOK'
  <2>1. days \in Windows
    BY <1>15 DEF List, ModeWith
  <2> QED BY <1>15, <2>1 DEF List, Listed
<1>16. ASSUME NEW s \in Sweeps, Expire(s) PROVE TypeOK'
  <2>1. stored' \in [Texts -> Requests \cup {NoOne}] /\ age' \in [Texts -> Nat]
    BY <1>16 DEF Expire, Delete
  <2>2. hit' \subseteq Requests
    BY <1>16 DEF Expire, Delete
  <2>3. sweep' \in [Sweeps -> Windows \cup {0}] /\ had' \in [Sweeps -> SUBSET Windows]
    BY <1>16 DEF Expire, Done
  <2> QED BY <1>16, <2>1, <2>2, <2>3 DEF Expire
<1>17. ASSUME NEW s \in Sweeps, ExpireFails(s) PROVE TypeOK'
  BY <1>17 DEF ExpireFails, Done
<1>18. CASE Switch
  <2>1. days' \in Windows \cup {0} /\ mode' = ModeWith(days')
    BY <1>18 DEF Switch
  <2>2. left' \in [mishaps : Nat, switches : Nat]
    BY <1>18 DEF Switch
  <2>3. had' \in [Sweeps -> SUBSET Windows]
    BY <1>18, <2>1 DEF Switch
  <2> QED BY <1>18, <2>1, <2>2, <2>3 DEF Switch
<1>19. CASE DeleteOrg
  BY <1>19 DEF DeleteOrg, ModeWith
<1>20. ASSUME NEW r \in Requests, Request(r) \/ Accept(r) \/ Fail(r) PROVE TypeOK'
  BY ONLY <1>20, <1>2, <1>3, <1>4, <1>5, <1>6, <1>7, <1>8, <1>9, <1>10, <1>11, <1>12 DEF Request
<1> QED BY ONLY <1>1, [Next]_vars, <1>13, <1>14, <1>15, <1>16, <1>17, <1>18, <1>19, <1>20 DEF Next

\* The variables keep their types, and tokens are booked only on usage records, for any
\* number of requests.
THEOREM TypeCorrect == Spec => []TypeOK
<1> QED BY TypeInit, TypeStep, PTL DEF Spec

-----------------------------------------------------------------------------
\* The opt-out.

\* At first nothing is stored and nobody has read a mode.
LEMMA OptOutInit == Init => OptOutInv
BY ExtractionAssumption DEF Init, OptOutInv, OptOutHolds, Running, Over, Retained

\* A step that saves is one of a request that read "retained".
LEMMA OptOutStep == TypeOK /\ OptOutInv /\ [Next]_vars => OptOutInv'
<1> SUFFICES ASSUME TypeOK, OptOutInv, [Next]_vars PROVE OptOutInv'
    OBVIOUS
<1> USE ExtractionAssumption DEF TypeOK, Modes, Places
<1> USE DEF org, rows, books, jobs, marks, OptOutInv, OptOutHolds, Over, Running, Retained, Keeps
<1>1. CASE UNCHANGED vars
  BY <1>1 DEF vars
<1>2. ASSUME NEW r \in Requests, Admit(r) PROVE OptOutInv'
  BY <1>2 DEF Admit, ReadMode, Goto
<1>3. ASSUME NEW r \in Requests, Accept(r) PROVE OptOutInv'
  BY <1>3 DEF Accept, Goto
<1>4. ASSUME NEW r \in Requests, Resolve(r) PROVE OptOutInv'
  BY <1>4 DEF Resolve, Goto
<1>5. ASSUME NEW r \in Requests, ReadLive(r) PROVE OptOutInv'
  BY <1>5 DEF ReadLive, ReadMode, Goto
<1>6. ASSUME NEW r \in Requests, Lookup(r) PROVE OptOutInv'
  BY <1>6 DEF Lookup, Goto
<1>7. ASSUME NEW r \in Requests, Call(r) PROVE OptOutInv'
  BY <1>7 DEF Call, Goto
<1>8. ASSUME NEW r \in Requests, Save(r) PROVE OptOutInv'
  BY <1>8 DEF Save, Goto, OrgExists
<1>9. ASSUME NEW r \in Requests, Tokens(r) PROVE OptOutInv'
  BY <1>9 DEF Tokens, Goto, HasUsage
<1>10. ASSUME NEW r \in Requests, Cost(r) PROVE OptOutInv'
  BY <1>10 DEF Cost, Goto
<1>11. ASSUME NEW r \in Requests, Alert(r) PROVE OptOutInv'
  BY <1>11 DEF Alert, Goto
<1>12. ASSUME NEW r \in Requests, Fail(r) PROVE OptOutInv'
  BY <1>12 DEF Fail, Goto
<1>13. ASSUME NEW t \in Texts, Age(t) PROVE OptOutInv'
  BY <1>13 DEF Age
<1>14. CASE Purge
  BY <1>14 DEF Purge, Delete
<1>15. ASSUME NEW s \in Sweeps, List(s) PROVE OptOutInv'
  BY <1>15 DEF List, Listed
<1>16. ASSUME NEW s \in Sweeps, Expire(s) PROVE OptOutInv'
  BY <1>16 DEF Expire, Done, Delete, Expired
<1>17. ASSUME NEW s \in Sweeps, ExpireFails(s) PROVE OptOutInv'
  BY <1>17 DEF ExpireFails, Done
<1>18. CASE Switch
  BY <1>18 DEF Switch
<1>19. CASE DeleteOrg
  BY <1>19 DEF DeleteOrg
<1>20. ASSUME NEW r \in Requests, Request(r) \/ Accept(r) \/ Fail(r) PROVE OptOutInv'
  BY ONLY <1>20, <1>2, <1>3, <1>4, <1>5, <1>6, <1>7, <1>8, <1>9, <1>10, <1>11, <1>12 DEF Request
<1> QED BY ONLY <1>1, [Next]_vars, <1>13, <1>14, <1>15, <1>16, <1>17, <1>18, <1>19, <1>20 DEF Next

\* An organisation that opted out and purged is left with nothing but what requests under
\* way in the purge saved, however many requests there are.
THEOREM OptOutHonoured == Spec => []OptOutHolds
<1>1. OptOutInv => OptOutHolds
  BY DEF OptOutInv
<1> QED BY <1>1, TypeInit, TypeStep, OptOutInit, OptOutStep, PTL DEF Spec

-----------------------------------------------------------------------------
\* The books.

\* At first there is nothing to book.
LEMMA BooksInit == Init => BooksInv /\ NothingAfterDeletion
BY ExtractionAssumption DEF Init, BooksInv, NothingAfterDeletion

\* A request moves on only once its book is written; who loses its row or its usage
\* record is hit.
LEMMA BooksStep == TypeOK /\ BooksInv /\ [Next]_vars => BooksInv'
<1> SUFFICES ASSUME TypeOK, BooksInv, [Next]_vars PROVE BooksInv'
    OBVIOUS
<1> USE ExtractionAssumption DEF TypeOK, Modes, Places
<1> USE DEF org, rows, books, jobs, marks, BooksInv, Answering, Over, Running, Retained, Keeps, IdHolds
<1>1. CASE UNCHANGED vars
  BY <1>1 DEF vars
<1>2. ASSUME NEW r \in Requests, Admit(r) PROVE BooksInv'
  BY <1>2 DEF Admit, ReadMode, Goto
<1>3. ASSUME NEW r \in Requests, Accept(r) PROVE BooksInv'
  BY <1>3 DEF Accept, Goto
<1>4. ASSUME NEW r \in Requests, Resolve(r) PROVE BooksInv'
  BY <1>4 DEF Resolve, Goto
<1>5. ASSUME NEW r \in Requests, ReadLive(r) PROVE BooksInv'
  BY <1>5 DEF ReadLive, ReadMode, Goto
<1>6. ASSUME NEW r \in Requests, Lookup(r) PROVE BooksInv'
  BY <1>6 DEF Lookup, Goto
<1>7. ASSUME NEW r \in Requests, Call(r) PROVE BooksInv'
  BY <1>7 DEF Call, Goto
<1>8. ASSUME NEW r \in Requests, Save(r) PROVE BooksInv'
  BY <1>8 DEF Save, Goto, OrgExists
<1>9. ASSUME NEW r \in Requests, Tokens(r) PROVE BooksInv'
  BY <1>9 DEF Tokens, Goto, HasUsage
<1>10. ASSUME NEW r \in Requests, Cost(r) PROVE BooksInv'
  BY <1>10 DEF Cost, Goto
<1>11. ASSUME NEW r \in Requests, Alert(r) PROVE BooksInv'
  BY <1>11 DEF Alert, Goto
<1>12. ASSUME NEW r \in Requests, Fail(r) PROVE BooksInv'
  BY <1>12 DEF Fail, Goto
<1>13. ASSUME NEW t \in Texts, Age(t) PROVE BooksInv'
  BY <1>13 DEF Age
<1>14. CASE Purge
  BY <1>14 DEF Purge, Delete
<1>15. ASSUME NEW s \in Sweeps, List(s) PROVE BooksInv'
  BY <1>15 DEF List, Listed
<1>16. ASSUME NEW s \in Sweeps, Expire(s) PROVE BooksInv'
  BY <1>16 DEF Expire, Done, Delete, Expired
<1>17. ASSUME NEW s \in Sweeps, ExpireFails(s) PROVE BooksInv'
  BY <1>17 DEF ExpireFails, Done
<1>18. CASE Switch
  BY <1>18 DEF Switch
<1>19. CASE DeleteOrg
  BY <1>19 DEF DeleteOrg
<1>20. ASSUME NEW r \in Requests, Request(r) \/ Accept(r) \/ Fail(r) PROVE BooksInv'
  BY ONLY <1>20, <1>2, <1>3, <1>4, <1>5, <1>6, <1>7, <1>8, <1>9, <1>10, <1>11, <1>12 DEF Request
<1> QED BY ONLY <1>1, [Next]_vars, <1>13, <1>14, <1>15, <1>16, <1>17, <1>18, <1>19, <1>20 DEF Next

\* Two equal requests may both call the model and only one keeps its row: both are paid
\* for and metered, however many there are.
THEOREM CallsPaidFor == Spec => []CallsAccounted
<1>1. BooksInv => CallsAccounted
  BY DEF BooksInv, CallsAccounted
<1> QED BY <1>1, TypeInit, TypeStep, BooksInit, BooksStep, PTL DEF Spec

-----------------------------------------------------------------------------
\* Deletion.

\* A write after the deletion has no organisation to refer to.
LEMMA DeletionStep ==
    TypeOK /\ NothingAfterDeletion /\ [Next]_vars => NothingAfterDeletion'
<1> SUFFICES ASSUME TypeOK, NothingAfterDeletion, [Next]_vars PROVE NothingAfterDeletion'
    OBVIOUS
<1> USE ExtractionAssumption DEF TypeOK
<1> USE DEF org, rows, books, jobs, marks, NothingAfterDeletion, Retained
<1>1. CASE UNCHANGED vars
  BY <1>1 DEF vars
<1>2. ASSUME NEW r \in Requests, Admit(r) PROVE NothingAfterDeletion'
  BY <1>2 DEF Admit, ReadMode, Goto
<1>3. ASSUME NEW r \in Requests, Accept(r) PROVE NothingAfterDeletion'
  BY <1>3 DEF Accept, Goto
<1>4. ASSUME NEW r \in Requests, Resolve(r) PROVE NothingAfterDeletion'
  BY <1>4 DEF Resolve, Goto
<1>5. ASSUME NEW r \in Requests, ReadLive(r) PROVE NothingAfterDeletion'
  BY <1>5 DEF ReadLive, ReadMode, Goto
<1>6. ASSUME NEW r \in Requests, Lookup(r) PROVE NothingAfterDeletion'
  BY <1>6 DEF Lookup, Goto
<1>7. ASSUME NEW r \in Requests, Call(r) PROVE NothingAfterDeletion'
  BY <1>7 DEF Call, Goto
<1>8. ASSUME NEW r \in Requests, Save(r) PROVE NothingAfterDeletion'
  BY <1>8 DEF Save, Goto, OrgExists
<1>9. ASSUME NEW r \in Requests, Tokens(r) PROVE NothingAfterDeletion'
  BY <1>9 DEF Tokens, Goto, HasUsage
<1>10. ASSUME NEW r \in Requests, Cost(r) PROVE NothingAfterDeletion'
  BY <1>10 DEF Cost, Goto
<1>11. ASSUME NEW r \in Requests, Alert(r) PROVE NothingAfterDeletion'
  BY <1>11 DEF Alert, Goto
<1>12. ASSUME NEW r \in Requests, Fail(r) PROVE NothingAfterDeletion'
  BY <1>12 DEF Fail, Goto
<1>13. ASSUME NEW t \in Texts, Age(t) PROVE NothingAfterDeletion'
  BY <1>13 DEF Age
<1>14. CASE Purge
  BY <1>14 DEF Purge, Delete
<1>15. ASSUME NEW s \in Sweeps, List(s) PROVE NothingAfterDeletion'
  BY <1>15 DEF List, Listed
<1>16. ASSUME NEW s \in Sweeps, Expire(s) PROVE NothingAfterDeletion'
  BY <1>16 DEF Expire, Done, Delete, Expired
<1>17. ASSUME NEW s \in Sweeps, ExpireFails(s) PROVE NothingAfterDeletion'
  BY <1>17 DEF ExpireFails, Done
<1>18. CASE Switch
  BY <1>18 DEF Switch
<1>19. CASE DeleteOrg
  BY <1>19 DEF DeleteOrg
<1>20. ASSUME NEW r \in Requests, Request(r) \/ Accept(r) \/ Fail(r) PROVE NothingAfterDeletion'
  BY ONLY <1>20, <1>2, <1>3, <1>4, <1>5, <1>6, <1>7, <1>8, <1>9, <1>10, <1>11, <1>12 DEF Request
<1> QED BY ONLY <1>1, [Next]_vars, <1>13, <1>14, <1>15, <1>16, <1>17, <1>18, <1>19, <1>20 DEF Next

\* What a deleted organisation had stays gone, whatever still runs for it.
THEOREM DeletionFinal == Spec => []NothingAfterDeletion
<1> QED BY TypeInit, TypeStep, BooksInit, DeletionStep, PTL DEF Spec

-----------------------------------------------------------------------------
\* The window.

\* The window a sweep works with was in force since it listed.
SweepInv == \A s \in Sweeps : sweep[s] # 0 => sweep[s] \in had[s]

\* At first no sweep has listed anything.
LEMMA SweepInit == Init => SweepInv
BY DEF Init, SweepInv

\* A sweep lists the window in force; a change of it adds to what was in force and takes
\* nothing away.
LEMMA SweepStep == TypeOK /\ SweepInv /\ [Next]_vars => SweepInv'
<1> SUFFICES ASSUME TypeOK, SweepInv, [Next]_vars PROVE SweepInv'
    OBVIOUS
<1> USE ExtractionAssumption DEF TypeOK, SweepInv
<1>1. CASE UNCHANGED jobs
  BY <1>1 DEF jobs
<1>2. ASSUME NEW s \in Sweeps, List(s) PROVE SweepInv'
  BY <1>2 DEF List, Listed, ModeWith
<1>3. ASSUME NEW s \in Sweeps, Expire(s) \/ ExpireFails(s) PROVE SweepInv'
  BY <1>3 DEF Expire, ExpireFails, Done
<1>4. CASE Switch
  BY <1>4 DEF Switch
<1>5. ASSUME NEW r \in Requests, Request(r) \/ Accept(r) \/ Fail(r) PROVE UNCHANGED jobs
  BY <1>5 DEF Request, Admit, Accept, Resolve, ReadLive, Lookup, Call, Save, Tokens, Cost, Alert, Fail
<1>6. CASE (\E t \in Texts : Age(t)) \/ Purge \/ DeleteOrg
  BY <1>1, <1>6 DEF Age, Purge, DeleteOrg
<1> QED BY <1>1, <1>2, <1>3, <1>4, <1>5, <1>6 DEF Next, vars

\* No step but the owner's takes a row that has outlived no window of the time since a
\* list.
LEMMA WindowStep ==
    TypeOK /\ SweepInv /\ [Next]_vars =>
        [\A t \in Retained :
            stored'[t] = NoOne =>
                Owned \/ \E s \in Sweeps : \E w \in had[s] : age[t] >= w]_vars
<1> DEFINE Kept == \A t \in Retained : stored'[t] = NoOne =>
                        Owned \/ \E s \in Sweeps : \E w \in had[s] : age[t] >= w
<1> SUFFICES ASSUME TypeOK, SweepInv, Next, ~Owned PROVE Kept
    BY DEF vars
<1> USE ExtractionAssumption DEF TypeOK, Retained, rows
<1>1. ASSUME NEW r \in Requests, Save(r) PROVE Kept
  BY <1>1 DEF Save
<1>2. ASSUME NEW s \in Sweeps, Expire(s) PROVE Kept
  <2> SUFFICES ASSUME NEW t \in Retained, stored'[t] = NoOne
               PROVE \E w \in had[s] : age[t] >= w
      OBVIOUS
  <2>1. t \in Expired(s)
    BY <1>2 DEF Expire, Delete
  <2>2. age[t] >= sweep[s] /\ sweep[s] \in had[s]
    BY <1>2, <2>1 DEF Expire, Expired, SweepInv
  <2> QED BY <2>2
<1>3. CASE UNCHANGED stored
  BY <1>3
<1>4. ASSUME NEW r \in Requests, Request(r) \/ Accept(r) \/ Fail(r), ~Save(r)
      PROVE UNCHANGED stored
  BY <1>4 DEF Request, Admit, Accept, Resolve, ReadLive, Lookup, Call, Tokens, Cost, Alert, Fail
<1>5. CASE (\E t \in Texts : Age(t)) \/ (\E s \in Sweeps : List(s) \/ ExpireFails(s)) \/ Switch
  BY <1>3, <1>5 DEF Age, List, ExpireFails, Switch
<1> QED BY <1>1, <1>2, <1>3, <1>4, <1>5 DEF Next, Owned

\* However many sweeps overlap, and however often the window changes under them, a row that
\* its owner does not delete goes only when it has outlived a window that was in force
\* since some sweep's list.
THEOREM WindowRespected == Spec => FreshKept
<1> QED BY TypeInit, TypeStep, SweepInit, SweepStep, WindowStep, PTL DEF Spec, FreshKept
=============================================================================
