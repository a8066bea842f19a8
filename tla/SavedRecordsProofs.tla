--------------------------- MODULE SavedRecordsProofs ---------------------------
(***************************************************************************)
(* Proofs about SavedRecords, for each panel and any number of requests    *)
(* and conditions.                                                         *)
(*                                                                         *)
(* The argument: the key a panel keeps is always the first of the user's   *)
(* wish (KeysOK), so two keys are two wishes.  While a list is fresh and   *)
(* no creation overlaps it, none is under way, so nothing joins the list   *)
(* shown behind its back (ListOK).  Current data are wanted only while no  *)
(* review is shown (ReviewOK).  Nothing changes a form that is being       *)
(* computed (DesignOK).                                                    *)
(***************************************************************************)
EXTENDS SavedRecords, WellFoundedInduction, TLAPS

-----------------------------------------------------------------------------
(* The inductive invariant.                                                *)

\* What is answered is on the server.
AnswersOK ==
    /\ post # None /\ post.answer \in Records => post.answer \in made
    /\ load # None /\ load.answer # None => load.answer \subseteq made

\* A key is its own wish, the one kept is that of the wish, and only keys drawn
\* can make records.
KeysOK ==
    /\ pending = wish
    /\ \A k \in Keys : wishOf[k] \in {0, k}
    /\ \A k \in made \cup stray : wishOf[k] # 0
    /\ post # None => wishOf[post.key] # 0

\* While a list is fresh that no creation overlaps, none is under way, and its
\* answer has everything shown.
ListOK ==
    panel \in Stamped /\ load # None /\ load.fresh /\ ~load.overlaps =>
        /\ post = None
        /\ load.answer # None => list \subseteq load.answer

ReviewOK ==
    /\ panel = "review" /\ live = TRUE => shown = None
    /\ SavedReviewIsShown

\* A design is computed for what the form says, and nothing else goes on.
DesignOK ==
    /\ computing # None => /\ panel = "design"
                           /\ computing = form
                           /\ post = None /\ opening = None
    /\ panel = "design" /\ post # None => resultOf # None
    /\ DesignIsOfForm

IInv == TypeOK /\ AnswersOK /\ KeysOK /\ ListOK /\ ReviewOK /\ DesignOK

-----------------------------------------------------------------------------
(* Steps.                                                                  *)

\* The newest of some records is one of them.
LEMMA NewestIsOne ==
    ASSUME NEW S \in SUBSET Records, S # {} PROVE Newest(S) \in S
<1> DEFINE Gap == {n \in Nat : \E r \in S : n = MaxKeys - r}
<1>1. S \subseteq 1..MaxKeys /\ MaxKeys \in Nat BY RecordsAssumption DEF Records, Keys
<1>2. \A r \in S : MaxKeys - r \in Gap BY <1>1
<1>3. PICK n \in Gap : \A m \in Gap : ~ (<<m, n>> \in OpToRel(<, Nat))
  <2>1. Gap \subseteq Nat /\ Gap # {} BY <1>2
  <2>2. QED BY <2>1, NatLessThanWellFounded, WFMin
<1>4. \A m \in Gap : ~ (m < n) BY <1>3 DEF OpToRel
<1>5. \E r \in S : \A q \in S : r >= q
  <2>1. PICK r \in S : n = MaxKeys - r OBVIOUS
  <2>2. ASSUME NEW q \in S PROVE r >= q
    <3>1. MaxKeys - q \in Gap BY <1>2
    <3>2. ~ (MaxKeys - q < MaxKeys - r) BY <1>4, <2>1, <3>1
    <3> HIDE DEF Gap
    <3>3. QED BY <1>1, <3>2
  <2>3. QED BY <2>2
<1>6. QED BY <1>5 DEF Newest

\* The parts of the state keep their types.
LEMMA TypeKept ==
    ASSUME IInv, [Next]_vars PROVE TypeOK'
<1> USE RecordsAssumption DEF IInv, TypeOK, Keys, Records, Loads, Posts, Panels, choice, designer,
          market, server, history, Busy, KeyInMemory, KeyInSession, Stamped, ForgetsOnRefusal
<1>1. CASE Refresh
  <2>1. load' \in Loads
    <3>1. PICK b \in BOOLEAN : load' = [FirstLoad EXCEPT !.overlaps = b] BY <1>1 DEF Refresh
    <3>2. QED BY <3>1 DEF FirstLoad
  <2>2. QED BY <1>1, <2>1 DEF Refresh
<1>2. CASE ListIsServed BY <1>2 DEF ListIsServed
<1>3. CASE ListArrives
  <2>1. CASE load.answer # None /\ Wanted /\ list' = load.answer /\ Preselect(load.answer)
    <3>1. load.answer \subseteq made BY <1>3, <2>1 DEF ListArrives, AnswersOK
    <3>2. {selected', opening'} \subseteq made \cup {None}
      BY <2>1, <3>1, NewestIsOne DEF Preselect
    <3>3. QED BY <1>3, <2>1, <3>1, <3>2 DEF ListArrives
  <2>2. CASE UNCHANGED <<list, selected, opening>> BY <1>3, <2>2 DEF ListArrives
  <2>3. QED BY <1>3, <2>1, <2>2 DEF ListArrives
<1>4. ASSUME NEW anew \in BOOLEAN, Create(anew) PROVE TypeOK'
  <2>1. PICK k \in Keys, first \in 0..MaxKeys :
          /\ post' = [key |-> k, answer |-> None]
          /\ pending' = k
          /\ wish' = first
          /\ wishOf' = [wishOf EXCEPT ![k] = IF @ = 0 THEN first ELSE @]
    <3>1. KeyFor(anew) \in Keys BY <1>4 DEF Create
    <3>2. (IF wish = 0 \/ anew THEN KeyFor(anew) ELSE wish) \in 0..MaxKeys BY <3>1
    <3>3. QED BY <1>4, <3>1, <3>2 DEF Create
  <2>2. load' \in Loads \cup {None} BY <1>4 DEF Create, Bump
  <2>3. post' \in Posts BY <2>1
  <2>4. wishOf' \in [Keys -> 0..MaxKeys] BY <2>1
  <2>5. QED BY <1>4, <2>1, <2>2, <2>3, <2>4 DEF Create
<1>5. CASE CreationIsServed BY <1>5 DEF CreationIsServed, RecordIsMade, CreationIsRefused
<1>6. CASE StrayIsServed BY <1>6 DEF StrayIsServed, RecordIsMade
<1>7. CASE Created
  <2>1. post.answer \in made BY <1>7 DEF Created, AnswersOK
  <2>2. live' \in BOOLEAN \cup {None} /\ data' \in made' \cup {Live, None}
    BY <1>7, <2>1 DEF Created, ShowReview, DropLive
  <2>3. form' \in Conditions /\ resultOf' \in Conditions \cup {None} /\ dirty' \in BOOLEAN
    BY <1>7 DEF Created, ShowDesign, DesignOK
  <2>4. list' \subseteq made BY <1>7, <2>1 DEF Created
  <2>5. {selected', opening', shown'} \subseteq made \cup {None} BY <1>7, <2>1 DEF Created
  <2>6. QED BY <1>7, <2>2, <2>3, <2>4, <2>5 DEF Created
<1>8. CASE CreationRefused BY <1>8 DEF CreationRefused
<1>9. CASE CreationFails BY <1>9 DEF CreationFails, GiveUp
<1>10. ASSUME NEW r \in Records, Open(r) PROVE TypeOK'
  BY <1>10 DEF Open
<1>11. CASE Opened
  <2>1. shown' \in made \cup {None} BY <1>11 DEF Opened
  <2>2. live' \in BOOLEAN \cup {None} /\ data' \in made \cup {Live, None}
    BY <1>11 DEF Opened, ShowReview, DropLive
  <2>3. form' \in Conditions /\ resultOf' \in Conditions \cup {None} /\ dirty' \in BOOLEAN
    BY <1>11 DEF Opened, ShowDesign
  <2>4. QED BY <1>11, <2>1, <2>2, <2>3 DEF Opened
<1>12. CASE EditDesign BY <1>12 DEF EditDesign
<1>13. CASE ComputeDesign BY <1>13 DEF ComputeDesign
<1>14. CASE DesignComputed
  <2>1. dirty' \in BOOLEAN BY <1>14 DEF DesignComputed
  <2>2. resultOf' \in Conditions \cup {None} BY <1>14 DEF DesignComputed
  <2>3. QED BY <1>14, <2>1, <2>2 DEF DesignComputed
<1>15. CASE LiveArrives
  <2>1. live' \in BOOLEAN \cup {None} BY <1>15 DEF LiveArrives
  <2>2. data' \in made \cup {Live, None} BY <1>15 DEF LiveArrives
  <2>3. QED BY <1>15, <2>1, <2>2 DEF LiveArrives
<1>16. CASE LookAgain BY <1>16 DEF LookAgain
<1>17. CASE Remount
  <2>1. load' = FirstLoad /\ FirstLoad \in Loads BY <1>17 DEF Remount, FirstLoad
  <2>2. stray' \subseteq Keys BY <1>17 DEF Remount, GiveUp
  <2>3. live' \in BOOLEAN \cup {None} BY <1>17 DEF Remount, FirstLive
  <2>4. pending' \in 0..MaxKeys /\ wish' \in 0..MaxKeys BY <1>17 DEF Remount, Survives
  <2>5. {selected', opening', shown'} = {None} /\ data' = None BY <1>17 DEF Remount
  <2>6. dirty' \in BOOLEAN /\ resultOf' = None /\ computing' = None BY <1>17 DEF Remount
  <2>7. list' \subseteq made' /\ made' \subseteq Records BY <1>17 DEF Remount
  <2>8. panel' \in Panels /\ post' = None /\ form' \in Conditions /\ wishOf' \in [Keys -> 0..MaxKeys]
    BY <1>17 DEF Remount
  <2>9. QED BY <2>1, <2>2, <2>3, <2>4, <2>5, <2>6, <2>7, <2>8
<1>18. CASE UNCHANGED vars BY <1>18 DEF vars
<1>19. QED
  BY <1>1, <1>2, <1>3, <1>4, <1>5, <1>6, <1>7, <1>8, <1>9, <1>10, <1>11, <1>12, <1>13, <1>14, <1>15,
     <1>16, <1>17, <1>18 DEF Next

\* What is answered stays true, since no record is ever lost.
LEMMA AnswersKept ==
    ASSUME IInv, [Next]_vars PROVE AnswersOK'
<1> USE RecordsAssumption DEF IInv, TypeOK, AnswersOK, Loads, Posts, Records, Keys,
          choice, designer, market, server, history
<1>1. CASE Refresh
  <2>1. load'.answer = None BY <1>1 DEF Refresh, FirstLoad
  <2>2. QED BY <1>1, <2>1 DEF Refresh
<1>2. CASE ListIsServed BY <1>2 DEF ListIsServed
<1>3. CASE ListArrives BY <1>3 DEF ListArrives
<1>4. ASSUME NEW anew \in BOOLEAN, Create(anew) PROVE AnswersOK'
  <2>1. post'.answer = None BY <1>4 DEF Create
  <2>2. load' # None => load # None /\ load'.answer = load.answer BY <1>4 DEF Create, Bump
  <2>3. QED BY <1>4, <2>1, <2>2 DEF Create
<1>5. CASE CreationIsServed BY <1>5 DEF CreationIsServed, RecordIsMade, CreationIsRefused
<1>6. CASE StrayIsServed BY <1>6 DEF StrayIsServed, RecordIsMade
<1>7. CASE Created BY <1>7 DEF Created
<1>8. CASE CreationRefused BY <1>8 DEF CreationRefused
<1>9. CASE CreationFails BY <1>9 DEF CreationFails
<1>10. ASSUME NEW r \in Records, Open(r) PROVE AnswersOK' BY <1>10 DEF Open
<1>11. CASE Opened BY <1>11 DEF Opened
<1>12. CASE EditDesign BY <1>12 DEF EditDesign
<1>13. CASE ComputeDesign BY <1>13 DEF ComputeDesign
<1>14. CASE DesignComputed BY <1>14 DEF DesignComputed
<1>15. CASE LiveArrives BY <1>15 DEF LiveArrives
<1>16. CASE LookAgain BY <1>16 DEF LookAgain
<1>17. CASE Remount BY <1>17 DEF Remount, FirstLoad
<1>18. CASE UNCHANGED vars BY <1>18 DEF vars
<1>19. QED
  BY <1>1, <1>2, <1>3, <1>4, <1>5, <1>6, <1>7, <1>8, <1>9, <1>10, <1>11, <1>12, <1>13, <1>14, <1>15,
     <1>16, <1>17, <1>18 DEF Next

\* The keys and the wishes: they change together, by Create, the answers and Remount.
LEMMA KeysKept ==
    ASSUME IInv, [Next]_vars PROVE KeysOK'
<1> USE RecordsAssumption DEF IInv, KeysOK
<1>1. ASSUME NEW anew \in BOOLEAN, Create(anew) PROVE KeysOK'
  <2>1. PICK k \in Keys :
          /\ k = KeyFor(anew)
          /\ post' = [key |-> k, answer |-> None]
          /\ pending' = k
          /\ wish' = (IF wish = 0 \/ anew THEN k ELSE wish)
          /\ wishOf' = [wishOf EXCEPT ![k] = IF @ = 0 THEN wish' ELSE @]
    BY <1>1 DEF Create
  <2>2. wish' = k BY <2>1 DEF KeyFor
  <2>3. wishOf \in [Keys -> 0..MaxKeys] /\ k # 0 /\ k \in Nat BY <2>1 DEF TypeOK, Keys
  <2>4. \A j \in Keys : wishOf'[j] = IF j = k THEN k ELSE wishOf[j] BY <2>1, <2>2, <2>3
  <2>5. made \cup stray \subseteq Keys BY DEF TypeOK, Records
  <2>6. UNCHANGED <<made, stray>> BY <1>1 DEF Create, server
  <2>7. QED BY <2>1, <2>2, <2>3, <2>4, <2>5, <2>6
<1>2. CASE CreationIsServed
  <2>1. made' \subseteq made \cup {post.key} /\ post # None
    BY <1>2 DEF CreationIsServed, RecordIsMade, CreationIsRefused
  <2>2. post'.key = post.key BY <1>2 DEF CreationIsServed, RecordIsMade, CreationIsRefused, TypeOK, Posts
  <2>3. QED BY <1>2, <2>1, <2>2 DEF CreationIsServed, RecordIsMade, CreationIsRefused, history
<1>3. CASE StrayIsServed BY <1>3 DEF StrayIsServed, RecordIsMade, history
<1>4. CASE Created BY <1>4 DEF Created, server
<1>5. CASE CreationRefused BY <1>5 DEF CreationRefused, server
<1>6. CASE CreationFails BY <1>6 DEF CreationFails, GiveUp, history
<1>7. CASE Remount BY <1>7 DEF Remount, GiveUp, Survives
<1>8. CASE UNCHANGED <<pending, wish, wishOf, made, stray, post>> BY <1>8
<1>9. CASE UNCHANGED vars BY <1>9, <1>8 DEF vars, server, history
<1>10. CASE \/ Refresh \/ ListIsServed \/ ListArrives \/ Opened \/ EditDesign \/ ComputeDesign
           \/ DesignComputed \/ LiveArrives \/ LookAgain \/ \E r \in Records : Open(r)
  BY <1>8, <1>10 DEF Refresh, ListIsServed, ListArrives, Opened, EditDesign, ComputeDesign,
     DesignComputed, LiveArrives, LookAgain, Open, server, history
<1>11. QED BY <1>1, <1>2, <1>3, <1>4, <1>5, <1>6, <1>7, <1>9, <1>10 DEF Next

\* A fresh list that no creation overlaps: a creation makes it stale at once.
LEMMA ListKept ==
    ASSUME IInv, [Next]_vars PROVE ListOK'
<1> USE RecordsAssumption DEF IInv, ListOK
<1>1. CASE Refresh
  <2>1. load'.answer = None /\ load'.overlaps = (post # None) BY <1>1 DEF Refresh, FirstLoad
  <2>2. QED BY <1>1, <2>1 DEF Refresh
<1>2. CASE ListIsServed
  <2>1. list \subseteq made BY DEF TypeOK
  <2>2. load'.fresh = load.fresh /\ load'.overlaps = load.overlaps /\ load'.answer = made
    BY <1>2 DEF ListIsServed, TypeOK, Loads
  <2>3. QED BY <1>2, <2>1, <2>2 DEF ListIsServed
<1>3. CASE ListArrives BY <1>3 DEF ListArrives
<1>4. ASSUME NEW anew \in BOOLEAN, Create(anew) PROVE ListOK'
  <2>1. CASE load = None BY <1>4, <2>1 DEF Create, Bump
  <2>2. CASE panel \notin Stamped BY <1>4, <2>2 DEF Create
  <2>3. CASE load # None /\ panel \in Stamped
    <3>1. load' = [load EXCEPT !.fresh = FALSE] BY <1>4, <2>3 DEF Create, Bump
    <3>2. load'.fresh = FALSE BY <2>3, <3>1 DEF TypeOK, Loads
    <3>3. QED BY <3>2
  <2>4. QED BY <2>1, <2>2, <2>3
<1>5. CASE CreationIsServed BY <1>5 DEF CreationIsServed, RecordIsMade, CreationIsRefused
<1>6. CASE Created BY <1>6 DEF Created
<1>7. CASE CreationRefused BY <1>7 DEF CreationRefused
<1>8. CASE CreationFails BY <1>8 DEF CreationFails
<1>9. CASE Remount BY <1>9 DEF Remount, FirstLoad
<1>10. CASE UNCHANGED <<panel, load, post, list>> BY <1>10
<1>11. CASE UNCHANGED vars BY <1>10, <1>11 DEF vars
<1>12. CASE \/ StrayIsServed \/ Opened \/ EditDesign \/ ComputeDesign
           \/ DesignComputed \/ LiveArrives \/ LookAgain \/ \E r \in Records : Open(r)
  BY <1>10, <1>12 DEF StrayIsServed, RecordIsMade, Opened, EditDesign, ComputeDesign,
     DesignComputed, LiveArrives, LookAgain, Open
<1>13. QED BY <1>1, <1>2, <1>3, <1>4, <1>5, <1>6, <1>7, <1>8, <1>9, <1>11, <1>12 DEF Next

\* A review is shown with its data: whoever shows one drops what is on its way.
LEMMA ReviewKept ==
    ASSUME IInv, [Next]_vars PROVE ReviewOK'
<1> USE DEF IInv, ReviewOK, SavedReviewIsShown, ReviewShown
<1>1. CASE Created BY <1>1 DEF Created, ShowReview, DropLive
<1>2. ASSUME NEW r \in Records, Open(r) PROVE ReviewOK' BY <1>2 DEF Open, market
<1>3. CASE Opened
  <2>1. CASE shown' = opening /\ ShowReview(opening)
    BY <1>3, <2>1 DEF Opened, ShowReview, DropLive
  <2>2. CASE UNCHANGED <<shown, market, form, resultOf, dirty>>
    BY <1>3, <2>2 DEF Opened, market
  <2>3. QED BY <1>3, <2>1, <2>2 DEF Opened
<1>4. CASE LiveArrives BY <1>4, RecordsAssumption DEF LiveArrives, choice, TypeOK
<1>5. CASE LookAgain BY <1>5 DEF LookAgain
<1>6. CASE Remount BY <1>6 DEF Remount
<1>7. CASE UNCHANGED <<panel, shown, live, data>> BY <1>7
<1>8. CASE UNCHANGED vars BY <1>7, <1>8 DEF vars, choice, market
<1>9. CASE \/ Refresh \/ ListIsServed \/ ListArrives \/ CreationIsServed \/ StrayIsServed
          \/ CreationRefused \/ CreationFails \/ EditDesign \/ ComputeDesign \/ DesignComputed
          \/ \E anew \in BOOLEAN : Create(anew)
  BY <1>7, <1>9 DEF Refresh, ListIsServed, ListArrives, CreationIsServed, CreationIsRefused,
     StrayIsServed, RecordIsMade, CreationRefused, CreationFails, EditDesign, ComputeDesign, DesignComputed,
     Create, choice, market
<1>10. QED BY <1>1, <1>2, <1>3, <1>4, <1>5, <1>6, <1>8, <1>9 DEF Next

\* A design is of its form: the form is disabled while anything is under way.
LEMMA DesignKept ==
    ASSUME IInv, [Next]_vars PROVE DesignOK'
<1> USE RecordsAssumption DEF IInv, DesignOK, DesignIsOfForm, DesignShown
<1>1. ASSUME NEW anew \in BOOLEAN, Create(anew) PROVE DesignOK'
  BY <1>1 DEF Create, CanCreate, Busy, designer, choice
<1>2. CASE Created BY <1>2 DEF Created, ShowDesign
<1>3. ASSUME NEW r \in Records, Open(r) PROVE DesignOK'
  BY <1>3 DEF Open, Busy, designer
<1>4. CASE Opened
  <2>1. CASE \E c \in Conditions : ShowDesign(c)
    BY <1>4, <2>1 DEF Opened, ShowDesign
  <2>2. CASE UNCHANGED <<shown, market, form, resultOf, dirty>>
    BY <1>4, <2>2 DEF Opened
  <2>3. QED BY <1>4, <2>1, <2>2 DEF Opened
<1>5. CASE EditDesign BY <1>5 DEF EditDesign, CanEdit, Busy, choice
<1>6. CASE ComputeDesign BY <1>6 DEF ComputeDesign, Busy, choice
<1>7. CASE DesignComputed BY <1>7 DEF DesignComputed, choice
<1>8. CASE Remount BY <1>8 DEF Remount
<1>9. CASE ListArrives BY <1>9 DEF ListArrives, Preselect, designer
<1>10. CASE CreationIsServed BY <1>10 DEF CreationIsServed, RecordIsMade, CreationIsRefused, designer, choice
<1>11. CASE CreationRefused \/ CreationFails
  BY <1>11 DEF CreationRefused, CreationFails, designer, choice
<1>12. CASE UNCHANGED <<panel, computing, form, post, opening, resultOf, dirty>> BY <1>12
<1>13. CASE UNCHANGED vars BY <1>12, <1>13 DEF vars, designer, choice
<1>14. CASE Refresh \/ ListIsServed \/ StrayIsServed
  BY <1>12, <1>14 DEF Refresh, ListIsServed, StrayIsServed, RecordIsMade, designer, choice
<1>15. CASE LiveArrives \/ LookAgain
  BY <1>12, <1>15 DEF LiveArrives, LookAgain, designer, choice
<1>16. QED
  BY <1>1, <1>2, <1>3, <1>4, <1>5, <1>6, <1>7, <1>8, <1>9, <1>10, <1>11, <1>13, <1>14, <1>15 DEF Next

LEMMA InitHolds == Init => IInv
<1> SUFFICES ASSUME Init PROVE IInv OBVIOUS
<1> USE RecordsAssumption DEF Init, FirstLoad, FirstLive
<1>1. TypeOK
  <2>1. FirstLoad \in Loads BY DEF Loads
  <2>2. wishOf \in [Keys -> 0..MaxKeys] /\ pending \in 0..MaxKeys /\ wish \in 0..MaxKeys OBVIOUS
  <2>3. live \in BOOLEAN \cup {None} /\ dirty \in BOOLEAN OBVIOUS
  <2>4. QED BY <2>1, <2>2, <2>3 DEF TypeOK
<1>2. AnswersOK BY DEF AnswersOK
<1>3. KeysOK BY DEF KeysOK, Keys
<1>4. ListOK BY DEF ListOK
<1>5. ReviewOK BY DEF ReviewOK, SavedReviewIsShown, ReviewShown
<1>6. DesignOK BY DEF DesignOK, DesignIsOfForm, DesignShown
<1>7. QED BY <1>1, <1>2, <1>3, <1>4, <1>5, <1>6 DEF IInv

-----------------------------------------------------------------------------
(* Theorems.                                                               *)

\* The inductive invariant, for each panel and any number of requests.
THEOREM RecordsInvariance == Spec => []IInv
<1>1. IInv /\ [Next]_vars => IInv'
  BY TypeKept, AnswersKept, KeysKept, ListKept, ReviewKept, DesignKept DEF IInv
<1>2. QED BY <1>1, InitHolds, PTL DEF Spec

\* The variables of the panels keep their types.
THEOREM PanelTypesAreKept == Spec => []TypeOK
<1>1. IInv => TypeOK BY DEF IInv
<1>2. QED BY <1>1, RecordsInvariance, PTL

\* However often the user repeats a creation whose outcome is unknown, and however
\* late the server gets to the first attempt, one wish makes one record.
THEOREM WishesMakeOneRecord == Spec => []OneRecordPerWish
<1>1. IInv => OneRecordPerWish BY DEF IInv, TypeOK, KeysOK, OneRecordPerWish, Records
<1>2. QED BY <1>1, RecordsInvariance, PTL

\* A saved review is shown with its own data, a design is the form's or marked as
\* not, and no late list takes a record off the list shown.
THEOREM PanelsShowAsSaid == Spec => ShownAsSaid
<1>1. IInv => SavedReviewIsShown /\ DesignIsOfForm BY DEF IInv, ReviewOK, DesignOK
<1>2. IInv => (ListArrives /\ panel \in Stamped /\ ~load.overlaps => list \subseteq list')
  <2>1. ASSUME IInv, ListArrives, panel \in Stamped, ~load.overlaps PROVE list \subseteq list'
    <3>1. CASE load.answer # None /\ Wanted /\ list' = load.answer
      BY <2>1, <3>1 DEF IInv, ListOK, Wanted, ListArrives
    <3>2. CASE UNCHANGED list BY <3>2
    <3>3. QED BY <2>1, <3>1, <3>2 DEF ListArrives
  <2>2. QED BY <2>1
<1>3. QED BY <1>1, <1>2, RecordsInvariance, PTL DEF ShownAsSaid, LateListLosesNothing
=============================================================================
