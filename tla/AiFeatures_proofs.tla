--------------------------- MODULE AiFeatures_proofs ---------------------------
(***************************************************************************)
(* Proofs about AiFeatures, for any sessions, subjects, limits, budgets    *)
(* and costs: the daily quotas, whatever the features spend; the warnings  *)
(* nobody is sure of; how far the month's and the day's budgets are        *)
(* overshot; that costs are recorded from the inside out; the types.       *)
(***************************************************************************)
EXTENDS AiFeatures, FiniteSetTheorems, TLAPS

Fields == {"made", "requests", "text", "aigc", "diagnosis", "cost"}

\* A row that is not there counts nothing; the others keep their quotas.  What a
\* row costs plays no part.
RowHolds(row, u) ==
  /\ DOMAIN row = Fields /\ row.made \in BOOLEAN
  /\ row.requests \in Nat /\ row.text \in Nat /\ row.aigc \in Nat /\ row.diagnosis \in Nat
  /\ ~row.made => row.text = 0 /\ row.aigc = 0 /\ row.diagnosis = 0
  /\ row.text <= TextLimit[u] /\ row.aigc <= AigcLimit[u]
  /\ row.diagnosis <= DiagnosisLimit[u]
  /\ row.requests = row.text + row.aigc + row.diagnosis

QuotaInv ==
  /\ usage = [u \in Subjects |-> usage[u]]
  /\ \A u \in Subjects : RowHolds(usage[u], u)

\* One row changes, to one that holds.
LEMMA RowChanges ==
  ASSUME QuotaInv, NEW u \in Subjects, NEW new, RowHolds(new, u),
         usage' = [usage EXCEPT ![u] = new]
  PROVE  QuotaInv'
<1>1. usage' = [v \in Subjects |-> IF v = u THEN new ELSE usage[v]]
  BY DEF QuotaInv
<1>2. \A v \in Subjects : usage'[v] = IF v = u THEN new ELSE usage[v]
  BY <1>1
<1>3. usage' = [v \in Subjects |-> usage'[v]]
  BY <1>1, <1>2
<1>4. \A v \in Subjects : RowHolds(usage'[v], v)
  BY <1>2 DEF QuotaInv
<1> QED BY <1>3, <1>4 DEF QuotaInv, RowHolds

\* The conditional upsert keeps the row's quotas (reserve_text,
\* reserve_daily_request, reserve_request).
LEMMA ReserveKeeps ==
  ASSUME QuotaInv, NEW u \in Subjects,
         \/ HasQuota(u, "text", TextLimit) /\ Reserve(u, "text")
         \/ HasQuota(u, "aigc", AigcLimit) /\ Reserve(u, "aigc")
         \/ HasQuota(u, "diagnosis", DiagnosisLimit) /\ Reserve(u, "diagnosis")
  PROVE  QuotaInv'
<1> DEFINE row == usage[u]
<1>1. /\ RowHolds(row, u) /\ usage = [v \in Subjects |-> usage[v]]
      /\ TextLimit[u] \in Nat \ {0} /\ AigcLimit[u] \in Nat \ {0}
      /\ DiagnosisLimit[u] \in Nat \ {0}
  BY LedgerAssumption DEF QuotaInv
<1>2. CASE HasQuota(u, "text", TextLimit) /\ Reserve(u, "text")
  <2> DEFINE new == [row EXCEPT !.made = TRUE, !.requests = @ + 1, !.text = @ + 1]
  <2>1. usage' = [usage EXCEPT ![u] = new]
    BY <1>1, <1>2 DEF Reserve, RowHolds, Fields
  <2>2. row.text < TextLimit[u]
    BY <1>1, <1>2 DEF HasQuota, RowHolds
  <2>3. /\ DOMAIN new = Fields /\ new.made = TRUE
        /\ new.requests = row.requests + 1 /\ new.text = row.text + 1
        /\ new.aigc = row.aigc /\ new.diagnosis = row.diagnosis
    BY <1>1 DEF RowHolds, Fields
  <2> HIDE DEF new
  <2>4. RowHolds(new, u)
    <3>1. /\ row.requests \in Nat /\ row.text \in Nat
          /\ row.aigc \in Nat /\ row.diagnosis \in Nat
      BY <1>1 DEF RowHolds
    <3>2. new.made \in BOOLEAN /\ new.made
      BY <2>3
    <3> QED BY <1>1, <2>2, <2>3, <3>1, <3>2 DEF RowHolds
  <2> QED BY <2>1, <2>4, RowChanges
<1>3. CASE HasQuota(u, "aigc", AigcLimit) /\ Reserve(u, "aigc")
  <2> DEFINE new == [row EXCEPT !.made = TRUE, !.requests = @ + 1, !.aigc = @ + 1]
  <2>1. usage' = [usage EXCEPT ![u] = new]
    BY <1>1, <1>3 DEF Reserve, RowHolds, Fields
  <2>2. row.aigc < AigcLimit[u]
    BY <1>1, <1>3 DEF HasQuota, RowHolds
  <2>3. /\ DOMAIN new = Fields /\ new.made = TRUE
        /\ new.requests = row.requests + 1 /\ new.aigc = row.aigc + 1
        /\ new.text = row.text /\ new.diagnosis = row.diagnosis
    BY <1>1 DEF RowHolds, Fields
  <2> HIDE DEF new
  <2>4. RowHolds(new, u)
    <3>1. /\ row.requests \in Nat /\ row.text \in Nat
          /\ row.aigc \in Nat /\ row.diagnosis \in Nat
      BY <1>1 DEF RowHolds
    <3>2. new.made \in BOOLEAN /\ new.made
      BY <2>3
    <3> QED BY <1>1, <2>2, <2>3, <3>1, <3>2 DEF RowHolds
  <2> QED BY <2>1, <2>4, RowChanges
<1>4. CASE HasQuota(u, "diagnosis", DiagnosisLimit) /\ Reserve(u, "diagnosis")
  <2> DEFINE new == [row EXCEPT !.made = TRUE, !.requests = @ + 1, !.diagnosis = @ + 1]
  <2>1. usage' = [usage EXCEPT ![u] = new]
    BY <1>1, <1>4 DEF Reserve, RowHolds, Fields
  <2>2. row.diagnosis < DiagnosisLimit[u]
    BY <1>1, <1>4 DEF HasQuota, RowHolds
  <2>3. /\ DOMAIN new = Fields /\ new.made = TRUE
        /\ new.requests = row.requests + 1 /\ new.diagnosis = row.diagnosis + 1
        /\ new.text = row.text /\ new.aigc = row.aigc
    BY <1>1 DEF RowHolds, Fields
  <2> HIDE DEF new
  <2>4. RowHolds(new, u)
    <3>1. /\ row.requests \in Nat /\ row.text \in Nat
          /\ row.aigc \in Nat /\ row.diagnosis \in Nat
      BY <1>1 DEF RowHolds
    <3>2. new.made \in BOOLEAN /\ new.made
      BY <2>3
    <3> QED BY <1>1, <2>2, <2>3, <3>1, <3>2 DEF RowHolds
  <2> QED BY <2>1, <2>4, RowChanges
<1> QED BY <1>2, <1>3, <1>4

\* add_usage adds to a row's cost and to nothing else.
LEMMA AddUsageKeeps ==
  ASSUME QuotaInv, NEW u \in Subjects, NEW spent, AddUsage(u, spent)
  PROVE  QuotaInv'
<1> DEFINE row == usage[u]
<1>1. CASE row.made
  <2> DEFINE new == [row EXCEPT !.cost = @ + spent]
  <2>1. RowHolds(row, u) /\ usage = [v \in Subjects |-> usage[v]]
    BY DEF QuotaInv
  <2>2. usage' = [usage EXCEPT ![u] = new]
    BY <1>1, <2>1 DEF AddUsage, RowHolds, Fields
  <2>3. /\ DOMAIN new = Fields /\ new.made = row.made
        /\ new.requests = row.requests /\ new.text = row.text
        /\ new.aigc = row.aigc /\ new.diagnosis = row.diagnosis
    BY <2>1 DEF RowHolds, Fields
  <2> HIDE DEF new
  <2>4. RowHolds(new, u)
    BY <2>1, <2>3 DEF RowHolds
  <2> QED BY <2>2, <2>4, RowChanges
<1>2. CASE ~row.made
  BY <1>2 DEF AddUsage, QuotaInv, RowHolds
<1> QED BY <1>1, <1>2

\* The new day's rows are not there yet.
LEMMA FreshRowsHold ==
  \A u \in Subjects : RowHolds(NoRow, u)
BY LedgerAssumption DEF RowHolds, Fields, NoRow

LEMMA NewRows ==
  ASSUME usage' = [u \in Subjects |-> NoRow]
  PROVE  QuotaInv'
BY FreshRowsHold DEF QuotaInv, RowHolds

LEMMA QuotaInit == Init => QuotaInv
BY FreshRowsHold DEF Init, LedgerInit, QuotaInv, RowHolds

\* The steps that leave usage as it is.
LEMMA UsageUntouched ==
  ASSUME QuotaInv, UNCHANGED usage PROVE QuotaInv'
BY DEF QuotaInv, RowHolds

LEMMA ThemeKeeps ==
  ASSUME QuotaInv, NEW s \in Sessions, ThemeNext(s) PROVE QuotaInv'
<1>0. Who[s] \in Subjects
  BY LedgerAssumption
<1>1. CASE ReserveDailyRequest(s)
  BY <1>0, <1>1, ReserveKeeps, UsageUntouched DEF ReserveDailyRequest
<1>2. CASE AddThemeUsage(s)
  BY <1>0, <1>2, AddUsageKeeps DEF AddThemeUsage
<1>3. CASE AskTheme(s) \/ FindCached(s) \/ ChooseImages(s) \/ GenerateImage(s)
           \/ SaveGeneration(s) \/ ThemeFails(s)
  BY <1>3, UsageUntouched
  DEF AskTheme, FindCached, ChooseImages, GenerateImage, SaveGeneration, ThemeFails, ledgerVars
<1> QED BY <1>1, <1>2, <1>3 DEF ThemeNext

LEMMA DiagnosisKeeps ==
  ASSUME QuotaInv, NEW s \in Sessions, DiagnosisNext(s) PROVE QuotaInv'
<1>0. Who[s] \in Subjects
  BY LedgerAssumption
<1>1. CASE ReserveDiagnosis(s)
  BY <1>0, <1>1, ReserveKeeps, UsageUntouched DEF ReserveDiagnosis
<1>2. CASE AddDiagnosisUsage(s)
  BY <1>0, <1>2, AddUsageKeeps DEF AddDiagnosisUsage
<1>3. CASE AskDiagnosis(s) \/ RefuseImage(s) \/ ChooseVlm(s) \/ Analyze(s)
           \/ CompleteRun(s) \/ SaveDiagnosis(s) \/ DiagnosisFails(s)
  BY <1>3, UsageUntouched
  DEF AskDiagnosis, RefuseImage, ChooseVlm, Analyze, CompleteRun, SaveDiagnosis,
      DiagnosisFails, ledgerVars
<1> QED BY <1>1, <1>2, <1>3 DEF DiagnosisNext

\* However many requests of however many features arrive at once, the daily
\* quotas of usage_daily hold and every request is counted once.
THEOREM QuotasHold == Spec => []QuotaHolds
<1>1. Init => QuotaInv
  BY QuotaInit
<1>2. QuotaInv /\ [Next]_vars => QuotaInv'
  <2> SUFFICES ASSUME QuotaInv, [Next]_vars PROVE QuotaInv'
    OBVIOUS
  <2>1. ASSUME NEW s \in Sessions, ReserveText(s) PROVE QuotaInv'
    BY <2>1, LedgerAssumption, ReserveKeeps DEF ReserveText
  <2>2. CASE Midnight
    BY <2>2, NewRows DEF Midnight, NewDay
  <2>3. CASE UNCHANGED vars
    BY <2>3, UsageUntouched DEF vars
  <2> QED BY <2>1, <2>2, <2>3, ThemeKeeps, DiagnosisKeeps DEF Next
<1>3. QuotaInv => QuotaHolds
  BY DEF QuotaInv, RowHolds, QuotaHolds
<1> QED BY <1>1, <1>2, <1>3, PTL DEF Spec

--------------------------------------------------------------------------------
\* Each of All may spend a price; those in Pending have read a budget that was not
\* used up and have not recorded theirs yet; what is recorded and what is pending is
\* bounded.
Within(spent, price, limit, All, Pending) ==
  /\ Pending # {} => limit > 0
  /\ spent > 0 \/ Pending # {} =>
       spent + price * Cardinality(Pending) < limit + price * Cardinality(All)

LEMMA CountsAreBounded ==
  ASSUME NEW All, IsFiniteSet(All), NEW P, P \subseteq All
  PROVE  /\ IsFiniteSet(P) /\ Cardinality(P) \in Nat /\ Cardinality(All) \in Nat
         /\ Cardinality(P) <= Cardinality(All)
BY FS_Subset, FS_CardinalityType

LEMMA Times ==
  ASSUME NEW price \in Nat, NEW m \in Nat, NEW n \in Nat, m <= n
  PROVE  /\ price * m \in Nat /\ price * n \in Nat
         /\ price * m <= price * n
         /\ price * (m + 1) = price * m + price
BY Z3

LEMMA FewerPending ==
  ASSUME NEW spent \in Nat, NEW price \in Nat, NEW limit \in Nat,
         NEW All, IsFiniteSet(All), NEW P, P \subseteq All, NEW Q, Q \subseteq P,
         Within(spent, price, limit, All, P),
         NEW left \in Nat, left <= spent
  PROVE  Within(left, price, limit, All, Q)
<1>1. /\ Cardinality(P) \in Nat /\ Cardinality(Q) \in Nat /\ Cardinality(All) \in Nat
      /\ Cardinality(Q) <= Cardinality(P) /\ Cardinality(P) <= Cardinality(All)
  BY CountsAreBounded, FS_Subset
<1>2. /\ price * Cardinality(Q) \in Nat /\ price * Cardinality(P) \in Nat
      /\ price * Cardinality(All) \in Nat
      /\ price * Cardinality(Q) <= price * Cardinality(P)
      /\ price * Cardinality(P) <= price * Cardinality(All)
  BY <1>1, Times
<1>3. CASE spent > 0 \/ P # {}
  BY <1>2, <1>3 DEF Within
<1>4. CASE spent = 0 /\ P = {}
  BY <1>4 DEF Within
<1> QED BY <1>3, <1>4

LEMMA OneMorePending ==
  ASSUME NEW spent \in Nat, NEW price \in Nat, NEW limit \in Nat,
         NEW All, IsFiniteSet(All), NEW Q, Q \subseteq All, spent < limit
  PROVE  Within(spent, price, limit, All, Q)
<1>1. /\ Cardinality(Q) \in Nat /\ Cardinality(All) \in Nat
      /\ Cardinality(Q) <= Cardinality(All)
  BY CountsAreBounded
<1>2. /\ price * Cardinality(Q) \in Nat /\ price * Cardinality(All) \in Nat
      /\ price * Cardinality(Q) <= price * Cardinality(All)
  BY <1>1, Times
<1> QED BY <1>2 DEF Within

LEMMA PendingPays ==
  ASSUME NEW spent \in Nat, NEW price \in Nat, NEW limit \in Nat,
         NEW All, IsFiniteSet(All), NEW P, P \subseteq All, NEW s \in P,
         Within(spent, price, limit, All, P)
  PROVE  Within(spent + price, price, limit, All, P \ {s})
<1>1. /\ IsFiniteSet(P) /\ Cardinality(P) \in Nat /\ Cardinality(All) \in Nat
      /\ Cardinality(P \ {s}) \in Nat
  BY CountsAreBounded
<1>2. Cardinality(P \ {s}) = Cardinality(P) - 1
  BY <1>1, FS_RemoveElement
<1>3. Cardinality(P) = Cardinality(P \ {s}) + 1
  BY <1>1, <1>2
<1>4. price * Cardinality(P) = price * Cardinality(P \ {s}) + price
  BY <1>1, <1>3, Times
<1>5. /\ price * Cardinality(P) \in Nat /\ price * Cardinality(P \ {s}) \in Nat
      /\ price * Cardinality(All) \in Nat
  BY <1>1, Times
<1>6. /\ limit > 0
      /\ spent + price * Cardinality(P) < limit + price * Cardinality(All)
  BY DEF Within
<1> QED BY <1>4, <1>5, <1>6 DEF Within

LEMMA SessionsAreFinite == IsFiniteSet(Sessions)
BY LedgerAssumption

--------------------------------------------------------------------------------
\* A session that draws an external image it has not recorded yet.
ImagePending(r) == r.pc \in {"imaging", "saving"} /\ r.image = "external"
ImagePendings == {s \in Sessions : ImagePending(req[s])}

ThemeShape(r) ==
  /\ "pc" \in DOMAIN r
  /\ r.pc \in ThemePhases => DOMAIN r = {"pc", "class", "economy", "image"}

ImageInv ==
  /\ req = [s \in Sessions |-> req[s]]
  /\ \A s \in Sessions : ThemeShape(req[s])
  /\ imageSpent \in Nat
  /\ Within(10 * imageSpent, 10 * ImageCost, 8 * ImageBudget, Sessions, ImagePendings)

LEMMA ImageMoves ==
  ASSUME ImageInv, NEW s \in Sessions, NEW new, ThemeShape(new), Becomes(s, new),
         \/ /\ UNCHANGED imageSpent
            /\ ImagePending(new) => ImagePending(req[s]) \/ 10 * imageSpent < 8 * ImageBudget
         \/ /\ ImagePending(req[s]) /\ ~ImagePending(new)
            /\ imageSpent' = imageSpent + ImageCost
  PROVE  ImageInv'
<1>1. \A r \in Sessions : req'[r] = IF r = s THEN new ELSE req[r]
  BY DEF Becomes, ImageInv
<1>2. req' = [r \in Sessions |-> req'[r]] /\ \A r \in Sessions : ThemeShape(req'[r])
  <2>1. req' = [r \in Sessions |-> req'[r]]
    BY DEF Becomes, ImageInv
  <2> QED BY <1>1, <2>1 DEF ImageInv
<1>3. ImagePendings' = (ImagePendings \ {s}) \cup (IF ImagePending(new) THEN {s} ELSE {})
  BY <1>1 DEF ImagePendings, ImagePending
<1>4. ImagePendings \subseteq Sessions /\ ImagePendings' \subseteq Sessions
  BY DEF ImagePendings
<1>5. /\ 10 * imageSpent \in Nat /\ 10 * ImageCost \in Nat /\ 8 * ImageBudget \in Nat
      /\ 10 * (imageSpent + ImageCost) = 10 * imageSpent + 10 * ImageCost
      /\ imageSpent + ImageCost \in Nat
  BY ThemeAssumption DEF ImageInv
<1>6. CASE UNCHANGED imageSpent /\ (ImagePending(new) => ImagePending(req[s]))
  <2>1. ImagePendings' \subseteq ImagePendings
    BY <1>3, <1>6 DEF ImagePendings
  <2>2. Within(10 * imageSpent, 10 * ImageCost, 8 * ImageBudget, Sessions, ImagePendings')
    BY <1>4, <1>5, <2>1, FewerPending, SessionsAreFinite DEF ImageInv
  <2> QED BY <1>2, <1>6, <2>2 DEF ImageInv, Within, ThemeShape
<1>7. CASE UNCHANGED imageSpent /\ 10 * imageSpent < 8 * ImageBudget
  <2>1. Within(10 * imageSpent, 10 * ImageCost, 8 * ImageBudget, Sessions, ImagePendings')
    BY <1>4, <1>5, <1>7, OneMorePending, SessionsAreFinite
  <2> QED BY <1>2, <1>7, <2>1 DEF ImageInv, Within, ThemeShape
<1>8. CASE /\ ImagePending(req[s]) /\ ~ImagePending(new)
           /\ imageSpent' = imageSpent + ImageCost
  <2>1. ImagePendings' = ImagePendings \ {s} /\ s \in ImagePendings
    BY <1>3, <1>8 DEF ImagePendings
  <2>2. Within(10 * imageSpent + 10 * ImageCost, 10 * ImageCost, 8 * ImageBudget, Sessions,
               ImagePendings \ {s})
    BY <1>4, <1>5, <2>1, PendingPays, SessionsAreFinite DEF ImageInv
  <2>3. Within(10 * imageSpent', 10 * ImageCost, 8 * ImageBudget, Sessions, ImagePendings')
    BY <1>5, <1>8, <2>1, <2>2
  <2> QED BY <1>2, <1>5, <1>8, <2>3 DEF ImageInv, Within, ThemeShape
<1> QED BY <1>6, <1>7, <1>8

LEMMA ImageGoes ==
  ASSUME ImageInv, NEW s \in Sessions, UNCHANGED imageSpent,
         NEW pc, pc \notin {"imaging", "saving"}, req[s].pc \in ThemePhases, Goto(s, pc)
  PROVE  ImageInv'
<1> DEFINE new == [req[s] EXCEPT !.pc = pc]
<1>1. Becomes(s, new)
  BY DEF Goto, Becomes, ImageInv
<1>2. ThemeShape(new) /\ ~ImagePending(new)
  BY DEF ImageInv, ThemeShape, ImagePending
<1> HIDE DEF new
<1> QED BY <1>1, <1>2, ImageMoves

LEMMA ImageEnds ==
  ASSUME ImageInv, NEW s \in Sessions, UNCHANGED imageSpent, Ends(s) PROVE ImageInv'
<1>1. ThemeShape(Idle) /\ ~ImagePending(Idle)
  BY DEF ThemeShape, ImagePending, ThemePhases, Idle
<1> QED BY <1>1, ImageMoves DEF Ends

LEMMA ImageUntouched ==
  ASSUME ImageInv, UNCHANGED req, imageSpent' \in {0, imageSpent} PROVE ImageInv'
<1>1. ImagePendings' = ImagePendings /\ ImagePendings \subseteq Sessions
  BY DEF ImagePendings, ImagePending
<1>2. /\ 10 * imageSpent \in Nat /\ 10 * ImageCost \in Nat /\ 8 * ImageBudget \in Nat
      /\ 10 * imageSpent' \in {0, 10 * imageSpent} /\ imageSpent' \in Nat
      /\ 10 * imageSpent' <= 10 * imageSpent
  BY ThemeAssumption DEF ImageInv
<1>3. Within(10 * imageSpent', 10 * ImageCost, 8 * ImageBudget, Sessions, ImagePendings)
  BY <1>1, <1>2, FewerPending, SessionsAreFinite DEF ImageInv
<1> QED BY <1>1, <1>2, <1>3 DEF ImageInv, ThemeShape

LEMMA ImageThemeKeeps ==
  ASSUME ImageInv, NEW s \in Sessions, ThemeNext(s) PROVE ImageInv'
<1>1. CASE AskTheme(s)
  <2> DEFINE new(class) ==
        [pc |-> "asked", class |-> class, economy |-> Economy, image |-> "none"]
  <2>1. \A class : ThemeShape(new(class)) /\ ~ImagePending(new(class))
    BY DEF ThemeShape, ImagePending
  <2>2. UNCHANGED imageSpent /\ \E class : Becomes(s, new(class))
    BY <1>1 DEF AskTheme, themeVars
  <2> HIDE DEF new
  <2> QED BY <2>1, <2>2, ImageMoves
<1>2. CASE ReserveDailyRequest(s) \/ FindCached(s)
  BY <1>2, ImageGoes, ImageEnds
  DEF ReserveDailyRequest, FindCached, At, ThemePhases, themeVars
<1>3. CASE ChooseImages(s)
  <2> DEFINE image == IF ~req[s].economy /\ ImagesNormal THEN "external" ELSE "mock"
             new == [req[s] EXCEPT !.pc = "imaging", !.image = image]
  <2>1. Becomes(s, new) /\ UNCHANGED imageSpent
    BY <1>3 DEF ChooseImages, Becomes, themeVars, ImageInv
  <2>2. DOMAIN req[s] = {"pc", "class", "economy", "image"}
    BY <1>3 DEF ChooseImages, At, ThemePhases, ImageInv, ThemeShape
  <2>3. ThemeShape(new) /\ new.image = image
    BY <2>2 DEF ThemeShape
  <2> HIDE DEF new
  <2>4. ImagePending(new) => 10 * imageSpent < 8 * ImageBudget
    BY <2>3 DEF ImagePending, ImagesNormal
  <2> QED BY <2>1, <2>3, <2>4, ImageMoves
<1>4. CASE GenerateImage(s)
  <2> DEFINE drawn == [req[s] EXCEPT !.pc = "saving"]
             mock  == [req[s] EXCEPT !.pc = "saving", !.image = "mock"]
  <2>1. (Becomes(s, drawn) \/ Becomes(s, mock)) /\ UNCHANGED imageSpent
    BY <1>4 DEF GenerateImage, Goto, Becomes, themeVars, ImageInv
  <2>2. DOMAIN req[s] = {"pc", "class", "economy", "image"} /\ req[s].pc = "imaging"
    BY <1>4 DEF GenerateImage, At, ThemePhases, ImageInv, ThemeShape
  <2>3. ThemeShape(drawn) /\ (ImagePending(drawn) => ImagePending(req[s]))
    BY <2>2 DEF ThemeShape, ImagePending
  <2>4. ThemeShape(mock) /\ ~ImagePending(mock)
    BY <2>2 DEF ThemeShape, ImagePending
  <2> HIDE DEF drawn, mock
  <2> QED BY <2>1, <2>3, <2>4, ImageMoves
<1>5. CASE SaveGeneration(s)
  <2> DEFINE new == [req[s] EXCEPT !.pc = "saved"]
  <2>1. Becomes(s, new)
    BY <1>5 DEF SaveGeneration, Goto, Becomes, ImageInv
  <2>2. DOMAIN req[s] = {"pc", "class", "economy", "image"} /\ req[s].pc = "saving"
    BY <1>5 DEF SaveGeneration, At, ThemePhases, ImageInv, ThemeShape
  <2>3. ThemeShape(new) /\ ~ImagePending(new)
    BY <2>2 DEF ThemeShape, ImagePending
  <2> HIDE DEF new
  <2>4. CASE req[s].image = "external"
    <3>1. ImagePending(req[s]) /\ imageSpent' = imageSpent + ImageCost
      BY <1>5, <2>2, <2>4 DEF SaveGeneration, ImagePaid, ImagePending
    <3> QED BY <2>1, <2>3, <3>1, ImageMoves
  <2>5. CASE req[s].image # "external"
    <3>1. UNCHANGED imageSpent
      BY <1>5, <2>5 DEF SaveGeneration, ImagePaid, ImageInv
    <3> QED BY <2>1, <2>3, <3>1, ImageMoves
  <2> QED BY <2>4, <2>5
<1>6. CASE AddThemeUsage(s) \/ ThemeFails(s)
  BY <1>6, ImageEnds DEF AddThemeUsage, ThemeFails, themeVars
<1> QED BY <1>1, <1>2, <1>3, <1>4, <1>5, <1>6 DEF ThemeNext

\* A diagnosis goes from place to place of its own.
LEMMA DiagnosisGoes ==
  ASSUME req = [r \in Sessions |-> req[r]], NEW s \in Sessions, "pc" \in DOMAIN req[s],
         DiagnosisNext(s)
  PROVE  \E new : Becomes(s, new) /\ "pc" \in DOMAIN new /\ new.pc \notin ThemePhases
<1> USE DEF ThemePhases
<1>1. CASE RefuseImage(s) \/ AddDiagnosisUsage(s) \/ DiagnosisFails(s)
  BY <1>1 DEF RefuseImage, AddDiagnosisUsage, DiagnosisFails, Ends, Idle
<1>2. CASE SaveDiagnosis(s)
  <2> DEFINE new == [req[s] EXCEPT !.pc = "recorded"]
  <2>1. Becomes(s, new)
    BY <1>2 DEF SaveDiagnosis, Goto, Becomes
  <2>2. "pc" \in DOMAIN new /\ new.pc = "recorded"
    OBVIOUS
  <2> QED BY <2>1, <2>2
<1>3. CASE AskDiagnosis(s)
  BY <1>3 DEF AskDiagnosis
<1>4. CASE ReserveDiagnosis(s)
  BY <1>4 DEF ReserveDiagnosis, Ends, Idle
<1>5. CASE ChooseVlm(s)
  BY <1>5 DEF ChooseVlm
<1>6. CASE Analyze(s)
  BY <1>6 DEF Analyze
<1>7. CASE CompleteRun(s)
  BY <1>7 DEF CompleteRun
<1> QED BY <1>1, <1>2, <1>3, <1>4, <1>5, <1>6, <1>7 DEF DiagnosisNext

\* So does a theme.
LEMMA ThemeGoes ==
  ASSUME req = [r \in Sessions |-> req[r]], NEW s \in Sessions, "pc" \in DOMAIN req[s],
         ThemeNext(s)
  PROVE  \E new : Becomes(s, new) /\ "pc" \in DOMAIN new /\ new.pc \notin DiagnosisPhases
<1> USE DEF DiagnosisPhases
<1>1. CASE AddThemeUsage(s) \/ ThemeFails(s)
  BY <1>1 DEF AddThemeUsage, ThemeFails, Ends, Idle
<1>2. CASE \E pc \in ThemePhases : Goto(s, pc)
  <2>1. PICK pc \in ThemePhases : Goto(s, pc)
    BY <1>2
  <2> DEFINE new == [req[s] EXCEPT !.pc = pc]
  <2>2. Becomes(s, new)
    BY <2>1 DEF Goto, Becomes
  <2>3. "pc" \in DOMAIN new /\ new.pc = pc /\ pc \notin DiagnosisPhases
    BY DEF ThemePhases
  <2> QED BY <2>2, <2>3
<1>3. CASE Ends(s)
  BY <1>3 DEF Ends, Idle
<1>4. CASE ReserveDailyRequest(s) \/ FindCached(s) \/ SaveGeneration(s)
  BY <1>2, <1>3, <1>4 DEF ReserveDailyRequest, FindCached, SaveGeneration, ThemePhases
<1>5. CASE AskTheme(s)
  BY <1>5 DEF AskTheme
<1>6. CASE ChooseImages(s)
  <2> DEFINE new == [req[s] EXCEPT !.pc = "imaging",
                       !.image = IF ~req[s].economy /\ ImagesNormal THEN "external" ELSE "mock"]
  <2>1. Becomes(s, new)
    BY <1>6 DEF ChooseImages, Becomes
  <2>2. "pc" \in DOMAIN new /\ new.pc = "imaging"
    OBVIOUS
  <2> HIDE DEF new
  <2> QED BY <2>1, <2>2
<1>7. CASE GenerateImage(s)
  <2> DEFINE mock == [req[s] EXCEPT !.pc = "saving", !.image = "mock"]
  <2>1. Goto(s, "saving") \/ Becomes(s, mock)
    BY <1>7 DEF GenerateImage, Becomes
  <2>2. "pc" \in DOMAIN mock /\ mock.pc = "saving"
    OBVIOUS
  <2> HIDE DEF mock
  <2> QED BY <1>2, <2>1, <2>2 DEF ThemePhases
<1> QED BY <1>1, <1>4, <1>5, <1>6, <1>7 DEF ThemeNext

LEMMA ImageDiagnosisKeeps ==
  ASSUME ImageInv, NEW s \in Sessions, DiagnosisNext(s), UNCHANGED imageSpent PROVE ImageInv'
<1>1. PICK new : Becomes(s, new) /\ "pc" \in DOMAIN new /\ new.pc \notin ThemePhases
  BY DiagnosisGoes DEF ImageInv, ThemeShape
<1>2. ThemeShape(new) /\ ~ImagePending(new)
  BY <1>1 DEF ThemeShape, ImagePending, ThemePhases
<1> QED BY <1>1, <1>2, ImageMoves

\* The month's image budget is overshot by no more than one image of every
\* session at work, whatever fails and whenever the month ends (ChooseImages reads
\* it, SaveGeneration adds to it).
THEOREM ImagesOvershootBounded == Spec => []ImageBudgetOvershoot
<1>1. Init => ImageInv
  <2> SUFFICES ASSUME Init PROVE ImageInv
    OBVIOUS
  <2>1. \A s \in Sessions : req[s] = Idle
    BY DEF Init, LedgerInit
  <2>2. ImagePendings = {}
    BY <2>1 DEF ImagePendings, ImagePending, Idle
  <2>3. \A s \in Sessions : ThemeShape(req[s])
    BY <2>1 DEF ThemeShape, ThemePhases, Idle
  <2> QED BY <2>2, <2>3 DEF Init, LedgerInit, ThemeInit, ImageInv, Within
<1>2. ImageInv /\ [Next]_vars => ImageInv'
  <2> SUFFICES ASSUME ImageInv, [Next]_vars PROVE ImageInv'
    OBVIOUS
  <2>1. ASSUME NEW s \in Sessions, ReserveText(s), UNCHANGED themeVars PROVE ImageInv'
    BY <2>1, ImageUntouched DEF ReserveText, themeVars
  <2>2. ASSUME NEW s \in Sessions, DiagnosisNext(s), UNCHANGED themeVars PROVE ImageInv'
    BY <2>2, ImageDiagnosisKeeps DEF themeVars
  <2>3. CASE Midnight \/ UNCHANGED vars
    BY <2>3, ImageUntouched DEF Midnight, vars
  <2> QED BY <2>1, <2>2, <2>3, ImageThemeKeeps DEF Next
<1>3. ImageInv => ImageBudgetOvershoot
  <2> SUFFICES ASSUME ImageInv, imageSpent > 0
               PROVE  10 * imageSpent < 8 * ImageBudget + 10 * ImageCost * Cardinality(Sessions)
    BY DEF ImageBudgetOvershoot
  <2>1. ImagePendings \subseteq Sessions
    BY DEF ImagePendings
  <2>2. /\ 10 * imageSpent \in Nat /\ 10 * imageSpent > 0
        /\ 10 * ImageCost \in Nat /\ 8 * ImageBudget \in Nat
    BY ThemeAssumption DEF ImageInv
  <2>3. (10 * ImageCost) * Cardinality(ImagePendings) \in Nat
    BY <2>1, <2>2, CountsAreBounded, SessionsAreFinite, Times
  <2>4. (10 * ImageCost) * Cardinality(Sessions) \in Nat
    BY <2>2, CountsAreBounded, SessionsAreFinite, Times
  <2>5. 10 * imageSpent + (10 * ImageCost) * Cardinality(ImagePendings)
          < 8 * ImageBudget + (10 * ImageCost) * Cardinality(Sessions)
    BY <2>2 DEF ImageInv, Within
  <2> QED BY <2>2, <2>3, <2>4, <2>5
<1> QED BY <1>1, <1>2, <1>3, PTL DEF Spec

--------------------------------------------------------------------------------
\* A session whose analysis is paid for but not recorded yet.
VlmPending(r) ==
  \/ r.pc = "analyzing" /\ r.external
  \/ r.pc \in {"analyzed", "closed"} /\ r.cost # 0
VlmPendings == {s \in Sessions : VlmPending(req[s])}

VlmShape(r) ==
  /\ "pc" \in DOMAIN r
  /\ r.pc \in {"analyzed", "closed"} => r.cost \in {0, VlmCost}

VlmInv ==
  /\ req = [s \in Sessions |-> req[s]]
  /\ \A s \in Sessions : VlmShape(req[s])
  /\ vlmSpent \in Nat
  /\ Within(vlmSpent, VlmCost, VlmBudget, Sessions, VlmPendings)

LEMMA VlmMoves ==
  ASSUME VlmInv, NEW s \in Sessions, NEW new, VlmShape(new), Becomes(s, new),
         \/ UNCHANGED vlmSpent /\ (VlmPending(new) => VlmPending(req[s]) \/ vlmSpent < VlmBudget)
         \/ /\ VlmPending(req[s]) /\ ~VlmPending(new)
            /\ vlmSpent' = vlmSpent + VlmCost
  PROVE  VlmInv'
<1>1. \A r \in Sessions : req'[r] = IF r = s THEN new ELSE req[r]
  BY DEF Becomes, VlmInv
<1>2. req' = [r \in Sessions |-> req'[r]] /\ \A r \in Sessions : VlmShape(req'[r])
  <2>1. req' = [r \in Sessions |-> req'[r]]
    BY DEF Becomes, VlmInv
  <2> QED BY <1>1, <2>1 DEF VlmInv
<1>3. VlmPendings' = (VlmPendings \ {s}) \cup (IF VlmPending(new) THEN {s} ELSE {})
  BY <1>1 DEF VlmPendings, VlmPending
<1>4. VlmPendings \subseteq Sessions /\ VlmPendings' \subseteq Sessions
  BY DEF VlmPendings
<1>5. vlmSpent \in Nat /\ VlmCost \in Nat /\ VlmBudget \in Nat /\ vlmSpent + VlmCost \in Nat
  BY DiagnosisAssumption DEF VlmInv
<1>6. CASE UNCHANGED vlmSpent /\ (VlmPending(new) => VlmPending(req[s]))
  <2>1. VlmPendings' \subseteq VlmPendings
    BY <1>3, <1>6 DEF VlmPendings
  <2>2. Within(vlmSpent, VlmCost, VlmBudget, Sessions, VlmPendings')
    BY <1>4, <1>5, <2>1, FewerPending, SessionsAreFinite DEF VlmInv
  <2> QED BY <1>2, <1>6, <2>2 DEF VlmInv, Within, VlmShape
<1>7. CASE UNCHANGED vlmSpent /\ vlmSpent < VlmBudget
  <2>1. Within(vlmSpent, VlmCost, VlmBudget, Sessions, VlmPendings')
    BY <1>4, <1>5, <1>7, OneMorePending, SessionsAreFinite
  <2> QED BY <1>2, <1>7, <2>1 DEF VlmInv, Within, VlmShape
<1>8. CASE /\ VlmPending(req[s]) /\ ~VlmPending(new)
           /\ vlmSpent' = vlmSpent + VlmCost
  <2>1. VlmPendings' = VlmPendings \ {s} /\ s \in VlmPendings
    BY <1>3, <1>8 DEF VlmPendings
  <2>2. Within(vlmSpent + VlmCost, VlmCost, VlmBudget, Sessions, VlmPendings \ {s})
    BY <1>4, <1>5, <2>1, PendingPays, SessionsAreFinite DEF VlmInv
  <2> QED BY <1>2, <1>5, <1>8, <2>1, <2>2 DEF VlmInv, Within, VlmShape
<1> QED BY <1>6, <1>7, <1>8

LEMMA VlmEnds ==
  ASSUME VlmInv, NEW s \in Sessions, UNCHANGED vlmSpent, Ends(s) PROVE VlmInv'
<1>1. VlmShape(Idle) /\ ~VlmPending(Idle)
  BY DEF VlmShape, VlmPending, Idle
<1> QED BY <1>1, VlmMoves DEF Ends

LEMMA VlmUntouched ==
  ASSUME VlmInv, UNCHANGED req, vlmSpent' \in {0, vlmSpent} PROVE VlmInv'
<1>1. VlmPendings' = VlmPendings /\ VlmPendings \subseteq Sessions
  BY DEF VlmPendings, VlmPending
<1>2. vlmSpent \in Nat /\ VlmCost \in Nat /\ VlmBudget \in Nat /\ vlmSpent' \in Nat
      /\ vlmSpent' <= vlmSpent
  BY DiagnosisAssumption DEF VlmInv
<1>3. Within(vlmSpent', VlmCost, VlmBudget, Sessions, VlmPendings)
  BY <1>1, <1>2, FewerPending, SessionsAreFinite DEF VlmInv
<1> QED BY <1>1, <1>2, <1>3 DEF VlmInv, VlmShape

LEMMA VlmThemeKeeps ==
  ASSUME VlmInv, NEW s \in Sessions, ThemeNext(s), UNCHANGED vlmSpent PROVE VlmInv'
<1>1. PICK new : Becomes(s, new) /\ "pc" \in DOMAIN new /\ new.pc \notin DiagnosisPhases
  BY ThemeGoes DEF VlmInv, VlmShape
<1>2. VlmShape(new) /\ ~VlmPending(new)
  BY <1>1 DEF VlmShape, VlmPending, DiagnosisPhases
<1> QED BY <1>1, <1>2, VlmMoves

LEMMA VlmDiagnosisKeeps ==
  ASSUME VlmInv, NEW s \in Sessions, DiagnosisNext(s) PROVE VlmInv'
<1>1. CASE AskDiagnosis(s)
  <2> DEFINE new(class) == [pc |-> "guarded", class |-> class, economy |-> Economy]
  <2>1. \A class : VlmShape(new(class)) /\ ~VlmPending(new(class))
    BY DEF VlmShape, VlmPending
  <2>2. UNCHANGED vlmSpent /\ \E class : Becomes(s, new(class))
    BY <1>1 DEF AskDiagnosis
  <2> HIDE DEF new
  <2> QED BY <2>1, <2>2, VlmMoves
<1>2. CASE ReserveDiagnosis(s)
  <2> DEFINE new == [pc |-> "stored", class |-> req[s].class, economy |-> req[s].economy,
                     run |-> today]
  <2>1. VlmShape(new) /\ ~VlmPending(new)
    BY DEF VlmShape, VlmPending
  <2>2. UNCHANGED vlmSpent /\ (Becomes(s, new) \/ Ends(s))
    BY <1>2 DEF ReserveDiagnosis
  <2> HIDE DEF new
  <2> QED BY <2>1, <2>2, VlmMoves, VlmEnds
<1>3. CASE ChooseVlm(s)
  <2> DEFINE new == [pc |-> "analyzing", class |-> req[s].class, run |-> req[s].run,
                     external |-> ~req[s].economy /\ VlmAffordable]
  <2>1. VlmShape(new) /\ (VlmPending(new) => VlmAffordable)
    BY DEF VlmShape, VlmPending
  <2>2. UNCHANGED vlmSpent /\ Becomes(s, new)
    BY <1>3 DEF ChooseVlm
  <2> HIDE DEF new
  <2> QED BY <2>1, <2>2, VlmMoves DEF VlmAffordable
<1>4. CASE Analyze(s)
  <2> DEFINE new(paid) == [pc |-> "analyzed", class |-> req[s].class, run |-> req[s].run,
                           cost |-> paid]
  <2>1. PICK paid : /\ Becomes(s, new(paid))
                    /\ \/ paid = 0
                       \/ paid = VlmCost /\ req[s].external
    BY <1>4 DEF Analyze
  <2>2. req[s].pc = "analyzing" /\ UNCHANGED vlmSpent
    BY <1>4 DEF Analyze, At
  <2>3. new(paid).pc = "analyzed" /\ new(paid).cost = paid /\ "pc" \in DOMAIN new(paid)
    OBVIOUS
  <2> HIDE DEF new
  <2>4. VlmShape(new(paid))
    BY <2>1, <2>3 DEF VlmShape
  <2>5. VlmPending(new(paid)) => VlmPending(req[s])
    BY <2>1, <2>2, <2>3 DEF VlmPending
  <2> QED BY <2>1, <2>2, <2>4, <2>5, VlmMoves
<1>5. CASE CompleteRun(s)
  <2> DEFINE new == [pc |-> "closed", class |-> req[s].class, cost |-> req[s].cost]
  <2>1. Becomes(s, new) /\ req[s].pc = "analyzed" /\ UNCHANGED vlmSpent
    BY <1>5 DEF CompleteRun, At
  <2>2. VlmShape(new) /\ (VlmPending(new) => VlmPending(req[s]))
    BY <2>1 DEF VlmInv, VlmShape, VlmPending
  <2> HIDE DEF new
  <2> QED BY <2>1, <2>2, VlmMoves
<1>6. CASE SaveDiagnosis(s)
  <2> DEFINE new == [req[s] EXCEPT !.pc = "recorded"]
  <2>1. Becomes(s, new)
    BY <1>6 DEF SaveDiagnosis, Goto, Becomes, VlmInv
  <2>2. req[s].pc = "closed" /\ vlmSpent' = vlmSpent + req[s].cost
    BY <1>6 DEF SaveDiagnosis, At
  <2>3. VlmShape(new) /\ ~VlmPending(new)
    BY DEF VlmInv, VlmShape, VlmPending
  <2> HIDE DEF new
  <2>4. CASE req[s].cost # 0
    <3>1. VlmPending(req[s]) /\ req[s].cost = VlmCost
      BY <2>2, <2>4 DEF VlmInv, VlmShape, VlmPending
    <3> QED BY <2>1, <2>2, <2>3, <3>1, VlmMoves
  <2>5. CASE req[s].cost = 0
    <3>1. UNCHANGED vlmSpent
      BY <2>2, <2>5 DEF VlmInv
    <3> QED BY <2>1, <2>3, <3>1, VlmMoves
  <2> QED BY <2>2, <2>4, <2>5 DEF VlmInv, VlmShape
<1>7. CASE RefuseImage(s) \/ AddDiagnosisUsage(s) \/ DiagnosisFails(s)
  BY <1>7, VlmEnds DEF RefuseImage, AddDiagnosisUsage, DiagnosisFails
<1> QED BY <1>1, <1>2, <1>3, <1>4, <1>5, <1>6, <1>7 DEF DiagnosisNext

\* The month's budget for the VLM is overshot by less than one analysis of every
\* session at work (ChooseVlm reads it, SaveDiagnosis adds to it).
THEOREM VlmOvershootBounded == Spec => []VlmBudgetOvershoot
<1>1. Init => VlmInv
  <2> SUFFICES ASSUME Init PROVE VlmInv
    OBVIOUS
  <2>1. \A s \in Sessions : req[s] = Idle
    BY DEF Init, LedgerInit
  <2>2. VlmPendings = {}
    BY <2>1 DEF VlmPendings, VlmPending, Idle
  <2>3. \A s \in Sessions : VlmShape(req[s])
    BY <2>1 DEF VlmShape, Idle
  <2> QED BY <2>2, <2>3 DEF Init, LedgerInit, DiagnosisInit, VlmInv, Within
<1>2. VlmInv /\ [Next]_vars => VlmInv'
  <2> SUFFICES ASSUME VlmInv, [Next]_vars PROVE VlmInv'
    OBVIOUS
  <2>1. ASSUME NEW s \in Sessions, ReserveText(s), UNCHANGED vlmSpent PROVE VlmInv'
    BY <2>1, VlmUntouched DEF ReserveText
  <2>2. CASE Midnight \/ UNCHANGED vars
    BY <2>2, VlmUntouched DEF Midnight, vars
  <2> QED BY <2>1, <2>2, VlmThemeKeeps, VlmDiagnosisKeeps DEF Next
<1>3. VlmInv => VlmBudgetOvershoot
  <2> SUFFICES ASSUME VlmInv, vlmSpent > 0
               PROVE  vlmSpent < VlmBudget + VlmCost * Cardinality(Sessions)
    BY DEF VlmBudgetOvershoot
  <2>1. VlmPendings \subseteq Sessions
    BY DEF VlmPendings
  <2>2. vlmSpent \in Nat /\ VlmCost \in Nat /\ VlmBudget \in Nat
    BY DiagnosisAssumption DEF VlmInv
  <2>3. VlmCost * Cardinality(VlmPendings) \in Nat /\ VlmCost * Cardinality(Sessions) \in Nat
    BY <2>1, <2>2, CountsAreBounded, SessionsAreFinite, Times
  <2>4. vlmSpent + VlmCost * Cardinality(VlmPendings) < VlmBudget + VlmCost * Cardinality(Sessions)
    BY <2>2 DEF VlmInv, Within
  <2> QED BY <2>2, <2>3, <2>4
<1> QED BY <1>1, <1>2, <1>3, PTL DEF Spec

--------------------------------------------------------------------------------
\* What a request knows at each place of its way.
Costs == {0, VlmCost}
ThemeReq     == [pc : ThemePhases, class : Classes, economy : BOOLEAN,
                 image : {"none", "external", "mock"}]
GuardedReq   == [pc : {"guarded"}, class : Classes, economy : BOOLEAN]
StoredReq    == [pc : {"stored"}, class : Classes, economy : BOOLEAN, run : Nat]
AnalyzingReq == [pc : {"analyzing"}, class : Classes, run : Nat, external : BOOLEAN]
AnalyzedReq  == [pc : {"analyzed"}, class : Classes, run : Nat, cost : Costs]
ClosedReq    == [pc : {"closed", "recorded"}, class : Classes, cost : Costs]
ReqType == {Idle} \cup ThemeReq \cup GuardedReq \cup StoredReq \cup AnalyzingReq
           \cup AnalyzedReq \cup ClosedReq

\* A theme's image is chosen before it is drawn, and never an external one in
\* economy mode; no run is of a day to come.
Chosen(r) ==
  /\ r.pc \in {"imaging", "saving", "saved"} => r.image \in {"external", "mock"}
  /\ r.pc \in ThemePhases /\ r.economy => r.image # "external"
Dated(r, day) == r.pc \in {"stored", "analyzing", "analyzed"} => r.run <= day
ReqInv ==
  /\ req \in [Sessions -> ReqType]
  /\ today \in 0..MaxDay
  /\ \A s \in Sessions : Chosen(req[s]) /\ Dated(req[s], today)

\* What a request that was let through may still add to the day's costs: a theme
\* one amount, a diagnosis the same amount twice, so each counts as two halves.
Halves == {"run", "record"}
Owes(r, half) ==
  \/ r.pc \in {"asked", "reserved", "generating", "imaging", "saving", "guarded", "stored"}
     /\ ~r.economy
  \/ r.pc = "analyzing" /\ r.external
  \/ r.pc = "analyzed" /\ r.cost # 0
  \/ r.pc = "closed" /\ half = "record" /\ r.cost # 0
DayPendings == {t \in Sessions \X Halves : Owes(req[t[1]], t[2])}
DayInv ==
  /\ cost \in [Tables -> [Classes -> Nat]]
  /\ Within(20 * DailyCost, 10 * MostExpensive, 16 * DailyBudget,
            Sessions \X Halves, DayPendings)

\* A step that charges nobody: the request goes on or ends, and owes no more than
\* before, or what a budget with room left has just allowed.
Quotas == {"text", "aigc", "diagnosis"}
Quiet(s) ==
  \E new \in ReqType :
    /\ Becomes(s, new) /\ Chosen(new) /\ Dated(new, today)
    /\ new.pc \notin {"saved", "closed", "recorded"}
    /\ \A half \in Halves : Owes(new, half) => Owes(req[s], half) \/ ~Economy
    /\ UNCHANGED cost
    /\ UNCHANGED usage \/ \E count \in Quotas : Reserve(Who[s], count)

LEMMA Places ==
  ASSUME ReqInv, NEW s \in Sessions
  PROVE  /\ req[s] \in ReqType /\ Chosen(req[s]) /\ Dated(req[s], today)
         /\ req[s].pc \in ThemePhases => req[s] \in ThemeReq
         /\ req[s].pc = "guarded" => req[s] \in GuardedReq
         /\ req[s].pc = "stored" => req[s] \in StoredReq
         /\ req[s].pc = "analyzing" => req[s] \in AnalyzingReq
         /\ req[s].pc = "analyzed" => req[s] \in AnalyzedReq
         /\ req[s].pc \in {"closed", "recorded"} => req[s] \in ClosedReq
<1>1. req[s] \in ReqType
  BY DEF ReqInv
<1>2. req[s] \in ThemeReq => req[s].pc \in ThemePhases
  BY DEF ThemeReq
<1> QED BY <1>1, <1>2
    DEF ReqInv, ReqType, Idle, GuardedReq, StoredReq, AnalyzingReq, AnalyzedReq,
        ClosedReq, ThemePhases

LEMMA EndsQuiet ==
  ASSUME NEW s \in Sessions, Ends(s), UNCHANGED cost,
         UNCHANGED usage \/ \E count \in Quotas : Reserve(Who[s], count)
  PROVE  Quiet(s)
<1>1. /\ Idle \in ReqType /\ Chosen(Idle) /\ Dated(Idle, today) /\ Idle.pc = "idle"
      /\ \A half \in Halves : ~Owes(Idle, half)
  BY DEF ReqType, Chosen, Dated, Idle, Owes, ThemePhases
<1> QED BY <1>1 DEF Quiet, Ends

LEMMA ThemeIsQuiet ==
  ASSUME ReqInv, NEW s \in Sessions,
         \/ AskTheme(s) \/ ReserveDailyRequest(s) \/ FindCached(s) \/ ChooseImages(s)
         \/ GenerateImage(s) \/ ThemeFails(s)
  PROVE  Quiet(s)
<1> DEFINE old == req[s]
<1>0. /\ old.pc \in ThemePhases => old \in ThemeReq
      /\ Chosen(old) /\ req = [t \in Sessions |-> req[t]]
  BY Places DEF ReqInv
<1> HIDE DEF old
<1>old. old = req[s]
  BY DEF old
<1>go. ASSUME NEW pc \in {"reserved", "generating", "saving"},
              NEW image \in {"none", "external", "mock"},
              old \in ThemeReq,
              pc = "saving" => old.pc = "imaging" /\ image \in {old.image, "mock"},
              pc # "saving" => old.pc \in {"asked", "reserved"} /\ image = old.image,
              Becomes(s, [old EXCEPT !.pc = pc, !.image = image]), UNCHANGED cost,
              UNCHANGED usage \/ \E count \in Quotas : Reserve(Who[s], count)
       PROVE  Quiet(s)
  <2> DEFINE new == [old EXCEPT !.pc = pc, !.image = image]
  <2>1. /\ new \in ThemeReq /\ new.pc = pc /\ new.image = image /\ new.economy = old.economy
    BY <1>go DEF ThemeReq, ThemePhases
  <2> HIDE DEF new
  <2>2. Chosen(new) /\ Dated(new, today)
    BY <1>0, <1>go, <2>1 DEF Chosen, Dated, ThemePhases
  <2>3. \A half \in Halves : Owes(new, half) => Owes(old, half)
    BY <1>go, <2>1 DEF Owes
  <2>4. Becomes(s, new)
    BY <1>go DEF new
  <2> QED BY <1>old, <1>go, <2>1, <2>2, <2>3, <2>4 DEF Quiet, ReqType
<1>goto. ASSUME NEW pc \in {"reserved", "generating", "saving"}, Goto(s, pc), old \in ThemeReq,
                pc = "saving" => old.pc = "imaging",
                pc # "saving" => old.pc \in {"asked", "reserved"}, UNCHANGED cost,
                UNCHANGED usage \/ \E count \in Quotas : Reserve(Who[s], count)
         PROVE  Quiet(s)
  <2>1. Becomes(s, [old EXCEPT !.pc = pc, !.image = old.image])
    <3>1. [old EXCEPT !.pc = pc, !.image = old.image] = [old EXCEPT !.pc = pc]
      BY <1>goto DEF ThemeReq
    <3> QED BY <3>1, <1>0, <1>goto, <1>old DEF Goto, Becomes
  <2>2. old.image \in {"none", "external", "mock"}
    BY <1>goto DEF ThemeReq
  <2> QED BY <2>1, <2>2, <1>go, <1>goto
<1>1. CASE AskTheme(s)
  <2>1. PICK class \in Classes :
          Becomes(s, [pc |-> "asked", class |-> class, economy |-> Economy, image |-> "none"])
    BY <1>1 DEF AskTheme
  <2> DEFINE new == [pc |-> "asked", class |-> class, economy |-> Economy, image |-> "none"]
  <2>2. Economy \in BOOLEAN
    BY DEF Economy
  <2>3. /\ new \in ThemeReq /\ new.pc = "asked" /\ new.economy = Economy /\ new.image = "none"
    BY <2>2 DEF ThemeReq, ThemePhases
  <2> HIDE DEF new
  <2>4. Chosen(new) /\ Dated(new, today)
    BY <2>3 DEF Chosen, Dated
  <2>5. \A half \in Halves : Owes(new, half) => ~Economy
    BY <2>3 DEF Owes
  <2>6. Becomes(s, new)
    BY <2>1 DEF new
  <2>7. UNCHANGED <<cost, usage>>
    BY <1>1 DEF AskTheme, ledgerVars
  <2> QED BY <2>3, <2>4, <2>5, <2>6, <2>7 DEF Quiet, ReqType
<1>2. CASE ReserveDailyRequest(s)
  <2>1. old \in ThemeReq /\ old.pc = "asked" /\ UNCHANGED cost
    BY <1>0, <1>2, <1>old DEF ReserveDailyRequest, At, ThemePhases
  <2>2. "aigc" \in Quotas
    BY DEF Quotas
  <2> QED BY <1>2, <2>1, <2>2, <1>goto, EndsQuiet DEF ReserveDailyRequest
<1>3. CASE FindCached(s)
  <2>1. old \in ThemeReq /\ old.pc = "reserved" /\ UNCHANGED <<cost, usage>>
    BY <1>0, <1>3, <1>old DEF FindCached, At, ThemePhases, ledgerVars
  <2> QED BY <1>3, <2>1, <1>goto, EndsQuiet DEF FindCached
<1>4. CASE ChooseImages(s)
  <2> DEFINE image == IF ~req[s].economy /\ ImagesNormal THEN "external" ELSE "mock"
             new == [old EXCEPT !.pc = "imaging", !.image = image]
  <2>1. Becomes(s, new) /\ UNCHANGED <<cost, usage>>
    BY <1>0, <1>4, <1>old DEF ChooseImages, Becomes, ledgerVars
  <2>2. old \in ThemeReq /\ old.pc = "generating"
    BY <1>0, <1>4, <1>old DEF ChooseImages, At, ThemePhases
  <2>3. image \in {"external", "mock"} /\ (old.economy => image = "mock")
    BY <1>old
  <2> HIDE DEF image
  <2>4. /\ new \in ThemeReq /\ new.pc = "imaging" /\ new.image = image
        /\ new.economy = old.economy
    BY <2>2, <2>3 DEF ThemeReq, ThemePhases
  <2> HIDE DEF new
  <2>5. Chosen(new) /\ Dated(new, today)
    BY <2>3, <2>4 DEF Chosen, Dated
  <2>6. \A half \in Halves : Owes(new, half) => Owes(old, half)
    BY <2>2, <2>4 DEF Owes
  <2> QED BY <1>old, <2>1, <2>4, <2>5, <2>6 DEF Quiet, ReqType
<1>5. CASE GenerateImage(s)
  <2>1. old \in ThemeReq /\ old.pc = "imaging" /\ UNCHANGED <<cost, usage>>
    BY <1>0, <1>5, <1>old DEF GenerateImage, At, ThemePhases, ledgerVars
  <2>2. CASE Goto(s, "saving")
    BY <2>1, <2>2, <1>goto
  <2>3. CASE req' = [req EXCEPT ![s].pc = "saving", ![s].image = "mock"]
    <3>1. Becomes(s, [old EXCEPT !.pc = "saving", !.image = "mock"])
      BY <1>0, <1>old, <2>3 DEF Becomes
    <3> QED BY <2>1, <3>1, <1>go
  <2> QED BY <1>5, <2>2, <2>3 DEF GenerateImage
<1>6. CASE ThemeFails(s)
  BY <1>6, EndsQuiet DEF ThemeFails, ledgerVars
<1> QED BY <1>1, <1>2, <1>3, <1>4, <1>5, <1>6

LEMMA DiagnosisIsQuiet ==
  ASSUME ReqInv, NEW s \in Sessions,
         \/ AskDiagnosis(s) \/ RefuseImage(s) \/ ReserveDiagnosis(s) \/ ChooseVlm(s)
         \/ Analyze(s) \/ DiagnosisFails(s)
  PROVE  Quiet(s)
<1>1. CASE AskDiagnosis(s)
  <2>1. PICK class \in Classes :
          Becomes(s, [pc |-> "guarded", class |-> class, economy |-> Economy])
    BY <1>1 DEF AskDiagnosis
  <2> DEFINE new == [pc |-> "guarded", class |-> class, economy |-> Economy]
  <2>2. Economy \in BOOLEAN
    BY DEF Economy
  <2>3. new \in GuardedReq /\ new.pc = "guarded" /\ new.economy = Economy
    BY <2>2 DEF GuardedReq
  <2> HIDE DEF new
  <2>4. Chosen(new) /\ Dated(new, today)
    BY <2>3 DEF Chosen, Dated, ThemePhases
  <2>5. \A half \in Halves : Owes(new, half) => ~Economy
    BY <2>3 DEF Owes
  <2>6. Becomes(s, new)
    BY <2>1 DEF new
  <2>7. UNCHANGED <<cost, usage>>
    BY <1>1 DEF AskDiagnosis, ledgerVars
  <2> QED BY <2>3, <2>4, <2>5, <2>6, <2>7 DEF Quiet, ReqType
<1>2. CASE ReserveDiagnosis(s)
  <2>1. CASE Ends(s) /\ UNCHANGED usage
    BY <1>2, <2>1, EndsQuiet DEF ReserveDiagnosis
  <2>2. CASE /\ Reserve(Who[s], "diagnosis")
             /\ Becomes(s, [pc |-> "stored", class |-> req[s].class, economy |-> req[s].economy,
                            run |-> today])
    <3> DEFINE new == [pc |-> "stored", class |-> req[s].class, economy |-> req[s].economy,
                       run |-> today]
    <3>1. req[s] \in GuardedReq /\ req[s].pc = "guarded" /\ today \in Nat
      BY <1>2, Places, DayAssumption DEF ReserveDiagnosis, At, ReqInv
    <3>2. new \in StoredReq /\ new.pc = "stored" /\ new.run = today
          /\ new.economy = req[s].economy
      BY <3>1 DEF StoredReq, GuardedReq
    <3> HIDE DEF new
    <3>3. Chosen(new) /\ Dated(new, today)
      BY <3>1, <3>2 DEF Chosen, Dated, ThemePhases
    <3>4. \A half \in Halves : Owes(new, half) => Owes(req[s], half)
      BY <3>1, <3>2 DEF Owes
    <3>5. Becomes(s, new) /\ UNCHANGED cost /\ "diagnosis" \in Quotas
      BY <1>2, <2>2 DEF new, ReserveDiagnosis, Quotas
    <3> QED BY <2>2, <3>2, <3>3, <3>4, <3>5 DEF Quiet, ReqType
  <2> QED BY <1>2, <2>1, <2>2 DEF ReserveDiagnosis
<1>3. CASE ChooseVlm(s)
  <2> DEFINE paid == ~req[s].economy /\ VlmAffordable
             new == [pc |-> "analyzing", class |-> req[s].class, run |-> req[s].run,
                     external |-> paid]
  <2>1. req[s] \in StoredReq /\ req[s].pc = "stored" /\ Dated(req[s], today)
    BY <1>3, Places DEF ChooseVlm, At
  <2>0. paid \in BOOLEAN /\ (paid => ~req[s].economy)
    OBVIOUS
  <2>5. Becomes(s, new) /\ UNCHANGED <<cost, usage>>
    BY <1>3 DEF ChooseVlm, ledgerVars
  <2> HIDE DEF paid
  <2>2. new \in AnalyzingReq /\ new.pc = "analyzing" /\ new.run = req[s].run
        /\ new.external = paid
    BY <2>0, <2>1 DEF StoredReq, AnalyzingReq
  <2> HIDE DEF new
  <2>3. Chosen(new) /\ Dated(new, today)
    BY <2>1, <2>2 DEF Chosen, Dated, ThemePhases
  <2>4. \A half \in Halves : Owes(new, half) => Owes(req[s], half)
    BY <2>0, <2>1, <2>2 DEF Owes
  <2> QED BY <2>2, <2>3, <2>4, <2>5 DEF Quiet, ReqType
<1>4. CASE Analyze(s)
  <2> DEFINE new(paid) == [pc |-> "analyzed", class |-> req[s].class, run |-> req[s].run,
                           cost |-> paid]
  <2>1. PICK paid \in Costs :
          Becomes(s, new(paid)) /\ (paid # 0 => req[s].external)
    BY <1>4 DEF Analyze, Costs
  <2>2. req[s] \in AnalyzingReq /\ req[s].pc = "analyzing" /\ Dated(req[s], today)
    BY <1>4, Places DEF Analyze, At
  <2>3. /\ new(paid) \in AnalyzedReq /\ new(paid).pc = "analyzed"
        /\ new(paid).run = req[s].run /\ new(paid).cost = paid
    BY <2>2 DEF AnalyzedReq, AnalyzingReq
  <2> HIDE DEF new
  <2>4. Chosen(new(paid)) /\ Dated(new(paid), today)
    BY <2>2, <2>3 DEF Chosen, Dated, ThemePhases
  <2>5. \A half \in Halves : Owes(new(paid), half) => Owes(req[s], half)
    BY <2>1, <2>2, <2>3 DEF Owes
  <2>6. UNCHANGED <<cost, usage>>
    BY <1>4 DEF Analyze, ledgerVars
  <2> QED BY <2>1, <2>3, <2>4, <2>5, <2>6 DEF Quiet, ReqType
<1>5. CASE RefuseImage(s) \/ DiagnosisFails(s)
  BY <1>5, EndsQuiet DEF RefuseImage, DiagnosisFails, ledgerVars
<1> QED BY <1>1, <1>2, <1>3, <1>4, <1>5

\* The steps that record what was spent.
LEMMA GenerationSpends ==
  ASSUME ReqInv, NEW s \in Sessions, SaveGeneration(s)
  PROVE  \E new \in ThemeReq :
           /\ Becomes(s, new) /\ Chosen(new) /\ new.pc = "saved"
           /\ new.economy = req[s].economy /\ new.image = req[s].image
           /\ req[s] \in ThemeReq /\ req[s].pc = "saving" /\ Chosen(req[s])
<1> DEFINE new == [req[s] EXCEPT !.pc = "saved"]
<1>1. req[s] \in ThemeReq /\ req[s].pc = "saving" /\ Chosen(req[s])
  BY Places DEF SaveGeneration, At, ThemePhases
<1>2. Becomes(s, new)
  BY DEF SaveGeneration, Goto, Becomes, ReqInv
<1>3. /\ new \in ThemeReq /\ new.pc = "saved"
      /\ new.economy = req[s].economy /\ new.image = req[s].image
  BY <1>1 DEF ThemeReq, ThemePhases
<1> HIDE DEF new
<1>4. Chosen(new)
  BY <1>1, <1>3 DEF Chosen, ThemePhases
<1> QED BY <1>1, <1>2, <1>3, <1>4

LEMMA RunSpends ==
  ASSUME ReqInv, NEW s \in Sessions, CompleteRun(s)
  PROVE  \E new \in ClosedReq :
           /\ Becomes(s, new) /\ new.pc = "closed" /\ new.cost = req[s].cost
           /\ req[s] \in AnalyzedReq /\ req[s].pc = "analyzed" /\ Dated(req[s], today)
<1> DEFINE new == [pc |-> "closed", class |-> req[s].class, cost |-> req[s].cost]
<1>1. req[s] \in AnalyzedReq /\ req[s].pc = "analyzed" /\ Dated(req[s], today)
  BY Places DEF CompleteRun, At
<1>2. Becomes(s, new)
  BY DEF CompleteRun
<1>3. new \in ClosedReq /\ new.pc = "closed" /\ new.cost = req[s].cost
  BY <1>1 DEF AnalyzedReq, ClosedReq
<1> HIDE DEF new
<1> QED BY <1>1, <1>2, <1>3

LEMMA DiagnosisSpends ==
  ASSUME ReqInv, NEW s \in Sessions, SaveDiagnosis(s)
  PROVE  \E new \in ClosedReq :
           /\ Becomes(s, new) /\ new.pc = "recorded" /\ new.cost = req[s].cost
           /\ req[s] \in ClosedReq /\ req[s].pc = "closed"
<1> DEFINE new == [req[s] EXCEPT !.pc = "recorded"]
<1>1. req[s] \in ClosedReq /\ req[s].pc = "closed"
  BY Places DEF SaveDiagnosis, At
<1>2. Becomes(s, new)
  BY DEF SaveDiagnosis, Goto, Becomes, ReqInv
<1>3. new \in ClosedReq /\ new.pc = "recorded" /\ new.cost = req[s].cost
  BY <1>1 DEF ClosedReq
<1> HIDE DEF new
<1> QED BY <1>1, <1>2, <1>3

\* All that a session does.
LEMMA StepKinds ==
  ASSUME ReqInv, NEW s \in Sessions, ThemeNext(s) \/ DiagnosisNext(s)
  PROVE  \/ Quiet(s)
         \/ SaveGeneration(s) \/ AddThemeUsage(s)
         \/ CompleteRun(s) \/ SaveDiagnosis(s) \/ AddDiagnosisUsage(s)
BY ThemeIsQuiet, DiagnosisIsQuiet DEF ThemeNext, DiagnosisNext

LEMMA ReqMoves ==
  ASSUME ReqInv, NEW s \in Sessions, NEW new \in ReqType, Becomes(s, new),
         Chosen(new), Dated(new, today), UNCHANGED today
  PROVE  ReqInv'
<1>1. \A r \in Sessions : req'[r] = IF r = s THEN new ELSE req[r]
  BY DEF Becomes, ReqInv
<1>2. req' \in [Sessions -> ReqType]
  BY DEF Becomes, ReqInv
<1>3. \A r \in Sessions : Chosen(req'[r]) /\ Dated(req'[r], today')
  BY <1>1 DEF ReqInv
<1> QED BY <1>2, <1>3 DEF ReqInv

LEMMA IdleFits == Idle \in ReqType /\ Chosen(Idle) /\ \A day : Dated(Idle, day)
BY DEF ReqType, Chosen, Dated, Idle, ThemePhases

LEMMA ReqStep == ReqInv /\ [Next]_vars => ReqInv'
<1> SUFFICES ASSUME ReqInv, [Next]_vars PROVE ReqInv'
  OBVIOUS
<1>1. ASSUME NEW s \in Sessions, ThemeNext(s) \/ DiagnosisNext(s), UNCHANGED today
      PROVE  ReqInv'
  <2>1. CASE Quiet(s)
    BY <1>1, <2>1, ReqMoves DEF Quiet
  <2>2. CASE SaveGeneration(s)
    <3>1. PICK new \in ThemeReq : Becomes(s, new) /\ Chosen(new) /\ new.pc = "saved"
      BY <2>2, GenerationSpends
    <3>2. new \in ReqType /\ Dated(new, today)
      BY <3>1 DEF ReqType, Dated
    <3> QED BY <1>1, <3>1, <3>2, ReqMoves
  <2>3. CASE CompleteRun(s) \/ SaveDiagnosis(s)
    <3>1. PICK new \in ClosedReq : Becomes(s, new) /\ new.pc \in {"closed", "recorded"}
      BY <2>3, RunSpends, DiagnosisSpends
    <3>2. new \in ReqType /\ Dated(new, today) /\ Chosen(new)
      BY <3>1 DEF ReqType, Dated, Chosen, ThemePhases
    <3> QED BY <1>1, <3>1, <3>2, ReqMoves
  <2>4. CASE AddThemeUsage(s) \/ AddDiagnosisUsage(s)
    BY <1>1, <2>4, IdleFits, ReqMoves DEF AddThemeUsage, AddDiagnosisUsage, Ends
  <2> QED BY <1>1, <2>1, <2>2, <2>3, <2>4, StepKinds
<1>2. CASE Midnight
  <2>1. req' = req /\ today' = today + 1 /\ today \in Nat /\ today' \in 0..MaxDay
    BY <1>2, DayAssumption DEF Midnight, ReqInv
  <2>2. ASSUME NEW s \in Sessions PROVE Dated(req[s], today')
    <3>1. /\ req[s].pc = "stored" => req[s].run \in Nat
          /\ req[s].pc = "analyzing" => req[s].run \in Nat
          /\ req[s].pc = "analyzed" => req[s].run \in Nat
          /\ Dated(req[s], today)
      BY Places DEF StoredReq, AnalyzingReq, AnalyzedReq
    <3> QED BY <2>1, <3>1 DEF Dated
  <2> QED BY <2>1, <2>2 DEF ReqInv
<1>3. CASE \/ \E s \in Sessions : ReserveText(s) /\ UNCHANGED <<themeVars, vlmSpent, today>>
           \/ UNCHANGED vars
  BY <1>3 DEF ReserveText, vars, ReqInv
<1> QED BY <1>1, <1>2, <1>3 DEF Next

LEMMA ReqStart == Init => ReqInv
<1> SUFFICES ASSUME Init PROVE ReqInv
  OBVIOUS
<1>1. req = [s \in Sessions |-> Idle] /\ today = 0
  BY DEF Init, LedgerInit
<1> QED BY <1>1, IdleFits, DayAssumption DEF ReqInv

--------------------------------------------------------------------------------
LEMMA SumsAreNat ==
  ASSUME cost \in [Tables -> [Classes -> Nat]], NEW table \in Tables
  PROVE  SumOf(cost[table], Classes) \in Nat /\ SumOf(cost[table], Classes \cap {"user"}) \in Nat
BY DEF SumOf

\* What it does to the day's costs.
LEMMA ChargeAdds ==
  ASSUME cost \in [Tables -> [Classes -> Nat]],
         NEW table \in Tables, NEW class \in Classes, NEW spent \in Nat,
         Charge(table, class, spent)
  PROVE  /\ cost' \in [Tables -> [Classes -> Nat]]
         /\ SumOf(cost'[table], Classes) = SumOf(cost[table], Classes) + spent
         /\ \A other \in Tables \ {table} : cost'[other] = cost[other]
         /\ DailyCost \in Nat /\ DailyCost' \in Nat /\ DailyCost' <= DailyCost + spent
<1> DEFINE d == [cost[table] EXCEPT ![class] = @ + spent]
<1>1. cost' = [cost EXCEPT ![table] = d] /\ cost[table] \in [Classes -> Nat]
  BY DEF Charge
<1>0. d = [cost[table] EXCEPT ![class] = @ + spent]
  OBVIOUS
<1> HIDE DEF d
<1>2. /\ d \in [Classes -> Nat]
      /\ SumOf(d, Classes) = SumOf(cost[table], Classes) + spent
      /\ \/ SumOf(d, Classes \cap {"user"}) = SumOf(cost[table], Classes \cap {"user"}) + spent
         \/ SumOf(d, Classes \cap {"user"}) = SumOf(cost[table], Classes \cap {"user"})
  <2> DEFINE c == cost[table]
  <2>1. /\ c \in [Classes -> Nat] /\ d \in [Classes -> Nat]
        /\ \A k \in Classes : d[k] = IF k = class THEN c[k] + spent ELSE c[k]
    BY <1>0, <1>1
  <2> HIDE DEF c
  <2>2. /\ d \in [Classes -> Nat] /\ SumOf(d, Classes) = SumOf(c, Classes) + spent
        /\ \/ SumOf(d, Classes \cap {"user"}) = SumOf(c, Classes \cap {"user"}) + spent
           \/ SumOf(d, Classes \cap {"user"}) = SumOf(c, Classes \cap {"user"})
    <3>1. Classes \subseteq {"user", "load_test"} /\ (class = "user" \/ class = "load_test")
      BY LedgerAssumption
    <3>2. \A k \in Classes : c[k] \in Nat /\ d[k] \in Nat
      BY <2>1
    <3> QED BY <2>1, <3>1, <3>2 DEF SumOf
  <2> QED BY <2>2 DEF c
<1>3. cost'[table] = d /\ \A other \in Tables \ {table} : cost'[other] = cost[other]
  BY <1>1
<1>4. cost' \in [Tables -> [Classes -> Nat]]
  BY <1>1, <1>2
<1>5. \A t \in Tables : /\ SumOf(cost[t], Classes) \in Nat
                        /\ SumOf(cost[t], Classes \cap {"user"}) \in Nat
  BY SumsAreNat
<1>6. Tables = {"runs", "generations", "diagnoses"}
  BY DEF Tables
<1>7. CASE table = "runs"
  <2>1. cost'["generations"] = cost["generations"] /\ cost'["diagnoses"] = cost["diagnoses"]
    BY <1>3, <1>6, <1>7
  <2> QED BY <1>2, <1>3, <1>4, <1>5, <1>6, <1>7, <2>1 DEF DailyCost
<1>8. CASE table = "generations"
  <2>1. cost'["runs"] = cost["runs"] /\ cost'["diagnoses"] = cost["diagnoses"]
    BY <1>3, <1>6, <1>8
  <2> QED BY <1>2, <1>3, <1>4, <1>5, <1>6, <1>8, <2>1 DEF DailyCost
<1>9. CASE table = "diagnoses"
  <2>1. cost'["runs"] = cost["runs"] /\ cost'["generations"] = cost["generations"]
    BY <1>3, <1>6, <1>9
  <2> QED BY <1>2, <1>3, <1>4, <1>5, <1>6, <1>9, <2>1 DEF DailyCost
<1> QED BY <1>6, <1>7, <1>8, <1>9

LEMMA DailyCostIsNat ==
  ASSUME cost \in [Tables -> [Classes -> Nat]] PROVE DailyCost \in Nat
<1>1. "runs" \in Tables /\ "generations" \in Tables /\ "diagnoses" \in Tables
  BY DEF Tables
<1>2. /\ SumOf(cost["runs"], Classes \cap {"user"}) \in Nat
      /\ SumOf(cost["generations"], Classes) \in Nat /\ SumOf(cost["diagnoses"], Classes) \in Nat
  BY <1>1, SumsAreNat
<1> QED BY <1>2 DEF DailyCost

LEMMA NewCosts ==
  ASSUME cost' = NoCost
  PROVE  /\ cost' \in [Tables -> [Classes -> Nat]] /\ DailyCost' = 0
         /\ \A table \in Tables : SumOf(cost'[table], Classes) = 0
<1>1. /\ Classes \subseteq {"user", "load_test"}
      /\ {"runs", "generations", "diagnoses"} \subseteq Tables
  BY LedgerAssumption DEF Tables
<1>2. \A table \in Tables, class \in Classes : cost'[table][class] = 0
  BY DEF NoCost
<1>3. cost' \in [Tables -> [Classes -> Nat]]
  BY DEF NoCost
<1>4. \A table \in Tables : /\ SumOf(cost'[table], Classes) = 0
                            /\ SumOf(cost'[table], Classes \cap {"user"}) = 0
  BY <1>1, <1>2 DEF SumOf
<1> QED BY <1>1, <1>3, <1>4 DEF DailyCost

--------------------------------------------------------------------------------
AllHalves == Sessions \X Halves

LEMMA HalvesCount ==
  /\ IsFiniteSet(AllHalves)
  /\ Cardinality(Sessions) \in Nat /\ Cardinality(AllHalves) = 2 * Cardinality(Sessions)
<1>1. "run" # "record" /\ Halves = {"run"} \cup {"record"}
  BY DEF Halves
<1>a. IsFiniteSet({"run"}) /\ Cardinality({"run"}) = 1
  BY FS_Singleton
<1>b. /\ IsFiniteSet({"run"} \cup {"record"})
      /\ Cardinality({"run"} \cup {"record"}) = Cardinality({"run"}) + 1
  BY <1>a, <1>1, FS_AddElement
<1>2. IsFiniteSet(Halves) /\ Cardinality(Halves) = 2
  BY <1>1, <1>a, <1>b
<1>3. /\ IsFiniteSet(AllHalves)
      /\ Cardinality(AllHalves) = Cardinality(Sessions) * Cardinality(Halves)
  BY <1>2, SessionsAreFinite, FS_Product DEF AllHalves
<1>4. Cardinality(Sessions) \in Nat
  BY SessionsAreFinite, FS_CardinalityType
<1> QED BY <1>2, <1>3, <1>4

LEMMA PriceBounds ==
  /\ MostExpensive \in Nat
  /\ ThemeCost + ImageCost <= MostExpensive /\ 2 * VlmCost <= MostExpensive
  /\ ThemeCost \in Nat /\ ImageCost \in Nat /\ VlmCost \in Nat
  /\ 10 * MostExpensive \in Nat /\ 16 * DailyBudget \in Nat /\ DailyBudget \in Nat
BY LedgerAssumption, ThemeAssumption, DiagnosisAssumption DEF MostExpensive

WithinDay(spent, Pending) ==
  Within(20 * spent, 10 * MostExpensive, 16 * DailyBudget, AllHalves, Pending)

LEMMA FewerHalves ==
  ASSUME NEW P, P \subseteq AllHalves, NEW Q, Q \subseteq P, NEW spent \in Nat,
         WithinDay(spent, P), NEW left \in Nat, left <= spent
  PROVE  WithinDay(left, Q)
<1>1. 20 * spent \in Nat /\ 20 * left \in Nat /\ 20 * left <= 20 * spent
  OBVIOUS
<1> QED BY <1>1, PriceBounds, HalvesCount, FewerPending DEF WithinDay

LEMMA LetIn ==
  ASSUME NEW P, P \subseteq AllHalves, NEW spent \in Nat, 10 * spent < 8 * DailyBudget
  PROVE  WithinDay(spent, P)
<1>1. 20 * spent \in Nat /\ 20 * spent < 16 * DailyBudget
  BY PriceBounds
<1> QED BY <1>1, PriceBounds, HalvesCount, OneMorePending DEF WithinDay

\* One half pays at most half of the highest price, both together all of it.
LEMMA HalfPays ==
  ASSUME NEW P, P \subseteq AllHalves, NEW t \in P, NEW spent \in Nat, WithinDay(spent, P),
         NEW left \in Nat, 2 * left <= 2 * spent + MostExpensive,
         NEW Q, Q \subseteq P \ {t}
  PROVE  WithinDay(left, Q)
<1> DEFINE price == 10 * MostExpensive
<1>1. /\ 20 * spent \in Nat /\ price \in Nat /\ 20 * spent + price \in Nat
      /\ 20 * left \in Nat /\ 20 * left <= 20 * spent + price /\ 16 * DailyBudget \in Nat
  BY PriceBounds
<1> HIDE DEF price
<1>2. Within(20 * spent, price, 16 * DailyBudget, AllHalves, P)
  BY DEF WithinDay, price
<1>3. Within(20 * spent + price, price, 16 * DailyBudget, AllHalves, P \ {t})
  BY <1>1, <1>2, HalvesCount, PendingPays
<1>4. P \ {t} \subseteq AllHalves
  OBVIOUS
<1>5. Within(20 * left, price, 16 * DailyBudget, AllHalves, Q)
  BY <1>1, <1>3, <1>4, HalvesCount, FewerPending
<1> QED BY <1>5 DEF WithinDay, price

LEMMA BothPay ==
  ASSUME NEW P, P \subseteq AllHalves, NEW t \in P, NEW u \in P, t # u,
         NEW spent \in Nat, WithinDay(spent, P),
         NEW left \in Nat, left <= spent + MostExpensive,
         NEW Q, Q \subseteq P \ {t, u}
  PROVE  WithinDay(left, Q)
<1> DEFINE price == 10 * MostExpensive
<1>1. /\ 20 * spent \in Nat /\ price \in Nat /\ 20 * spent + price \in Nat
      /\ (20 * spent + price) + price \in Nat
      /\ 20 * left \in Nat /\ 20 * left <= (20 * spent + price) + price
      /\ 16 * DailyBudget \in Nat
  BY PriceBounds
<1> HIDE DEF price
<1>2. Within(20 * spent, price, 16 * DailyBudget, AllHalves, P)
  BY DEF WithinDay, price
<1>3. Within(20 * spent + price, price, 16 * DailyBudget, AllHalves, P \ {t})
  BY <1>1, <1>2, HalvesCount, PendingPays
<1>4. P \ {t} \subseteq AllHalves /\ u \in P \ {t}
  OBVIOUS
<1>5. Within((20 * spent + price) + price, price, 16 * DailyBudget, AllHalves, (P \ {t}) \ {u})
  BY <1>1, <1>3, <1>4, HalvesCount, PendingPays
<1>6. (P \ {t}) \ {u} \subseteq AllHalves /\ Q \subseteq (P \ {t}) \ {u}
  OBVIOUS
<1>7. Within(20 * left, price, 16 * DailyBudget, AllHalves, Q)
  BY <1>1, <1>5, <1>6, HalvesCount, FewerPending
<1> QED BY <1>7 DEF WithinDay, price

LEMMA DayIs ==
  ASSUME DayInv
  PROVE  /\ cost \in [Tables -> [Classes -> Nat]] /\ DailyCost \in Nat
         /\ WithinDay(DailyCost, DayPendings) /\ DayPendings \subseteq AllHalves
BY DailyCostIsNat DEF DayInv, WithinDay, AllHalves, DayPendings

LEMMA DayNext ==
  ASSUME cost' \in [Tables -> [Classes -> Nat]], WithinDay(DailyCost', DayPendings')
  PROVE  DayInv'
BY DEF DayInv, WithinDay, AllHalves

\* What is pending after one request has become new.
LEMMA PendingsAfter ==
  ASSUME ReqInv, NEW s \in Sessions, NEW new, Becomes(s, new)
  PROVE  /\ \A r \in Sessions \ {s}, half \in Halves :
              <<r, half>> \in DayPendings' <=> <<r, half>> \in DayPendings
         /\ \A half \in Halves : /\ <<s, half>> \in DayPendings' <=> Owes(new, half)
                                 /\ <<s, half>> \in DayPendings <=> Owes(req[s], half)
         /\ DayPendings' \subseteq AllHalves
<1>1. \A r \in Sessions : req'[r] = IF r = s THEN new ELSE req[r]
  BY DEF Becomes, ReqInv
<1> QED BY <1>1 DEF DayPendings, AllHalves, Owes

LEMMA Pairs ==
  ASSUME NEW P, P \subseteq AllHalves, NEW Q, Q \subseteq AllHalves, NEW s \in Sessions,
         \A r \in Sessions \ {s}, half \in Halves : <<r, half>> \in Q => <<r, half>> \in P,
         \A half \in Halves : <<s, half>> \in Q => <<s, half>> \in P
  PROVE  Q \subseteq P
<1> SUFFICES ASSUME NEW t \in Q PROVE t \in P
  OBVIOUS
<1>1. PICK r \in Sessions, half \in Halves : t = <<r, half>>
  BY DEF AllHalves
<1> QED BY <1>1

LEMMA DayQuiet ==
  ASSUME ReqInv, DayInv, NEW s \in Sessions, Quiet(s) PROVE DayInv'
<1>1. PICK new \in ReqType :
        /\ Becomes(s, new) /\ UNCHANGED cost
        /\ \A half \in Halves : Owes(new, half) => Owes(req[s], half) \/ ~Economy
  BY DEF Quiet
<1>2. /\ cost \in [Tables -> [Classes -> Nat]] /\ DailyCost \in Nat
      /\ WithinDay(DailyCost, DayPendings) /\ DayPendings \subseteq AllHalves
  BY DayIs
<1>3. DailyCost' = DailyCost /\ cost' = cost
  BY <1>1 DEF DailyCost
<1>4. DayPendings' \subseteq AllHalves
  BY <1>1, PendingsAfter
<1>5. CASE Economy
  <2>1. DayPendings' \subseteq DayPendings
    BY <1>1, <1>2, <1>4, <1>5, PendingsAfter, Pairs
  <2>2. WithinDay(DailyCost, DayPendings')
    BY <1>2, <2>1, FewerHalves
  <2> QED BY <1>2, <1>3, <2>2, DayNext
<1>6. CASE ~Economy
  <2>1. 10 * DailyCost < 8 * DailyBudget
    BY <1>2, <1>6, PriceBounds DEF Economy
  <2>2. WithinDay(DailyCost, DayPendings')
    BY <1>2, <1>4, <2>1, LetIn
  <2> QED BY <1>2, <1>3, <2>2, DayNext
<1> QED BY <1>5, <1>6

LEMMA DayGeneration ==
  ASSUME ReqInv, DayInv, NEW s \in Sessions, SaveGeneration(s) PROVE DayInv'
<1>1. PICK new \in ThemeReq :
        /\ Becomes(s, new) /\ new.pc = "saved"
        /\ req[s] \in ThemeReq /\ req[s].pc = "saving" /\ Chosen(req[s])
  BY GenerationSpends
<1>2. /\ cost \in [Tables -> [Classes -> Nat]] /\ DailyCost \in Nat
      /\ WithinDay(DailyCost, DayPendings) /\ DayPendings \subseteq AllHalves
  BY DayIs
<1> DEFINE P == DayPendings
           Q == DayPendings'
<1>3. Q \subseteq AllHalves /\ \A half \in Halves : <<s, half>> \notin Q
  BY <1>1, PendingsAfter DEF Owes
<1>4. Q \subseteq P
  BY <1>1, <1>2, <1>3, PendingsAfter, Pairs
<1>5. TotalCost(s) \in Nat /\ TotalCost(s) <= MostExpensive
      /\ (req[s].economy => TotalCost(s) = 0)
  BY <1>1, PriceBounds DEF TotalCost, ThemePaid, ImagePaid, Generator, Chosen, ThemePhases
<1>6. /\ cost' \in [Tables -> [Classes -> Nat]]
      /\ DailyCost' \in Nat /\ DailyCost' <= DailyCost + TotalCost(s)
  <2>1. Charge("generations", req[s].class, TotalCost(s)) /\ "generations" \in Tables
        /\ req[s].class \in Classes
    BY <1>1 DEF SaveGeneration, Tables, ThemeReq
  <2> QED BY <1>2, <1>5, <2>1, ChargeAdds
<1>7. CASE req[s].economy
  <2>1. DailyCost' <= DailyCost
    BY <1>2, <1>5, <1>6, <1>7
  <2> QED BY <1>2, <1>4, <1>6, <2>1, FewerHalves, DayNext
<1>8. CASE ~req[s].economy
  <2>1. \A half \in Halves : <<s, half>> \in P
    BY <1>1, <1>8, PendingsAfter DEF Owes
  <2>2. <<s, "run">> \in P /\ <<s, "record">> \in P /\ <<s, "run">> # <<s, "record">>
        /\ Q \subseteq P \ {<<s, "run">>, <<s, "record">>}
    BY <1>3, <1>4, <2>1 DEF Halves
  <2>3. DailyCost' <= DailyCost + MostExpensive
    BY <1>2, <1>5, <1>6, PriceBounds
  <2> QED BY <1>2, <1>6, <2>2, <2>3, BothPay, DayNext
<1> QED BY <1>7, <1>8

LEMMA HalfTheDearest ==
  ASSUME NEW c \in Nat, NEW before \in Nat, NEW after \in Nat, NEW dearest \in Nat,
         after <= before + c, 2 * c <= dearest
  PROVE  2 * after <= 2 * before + dearest
OBVIOUS

LEMMA DayDiagnosis ==
  ASSUME ReqInv, DayInv, NEW s \in Sessions, CompleteRun(s) \/ SaveDiagnosis(s) PROVE DayInv'
<1> DEFINE half == IF CompleteRun(s) THEN "run" ELSE "record"
           table == IF CompleteRun(s) THEN "runs" ELSE "diagnoses"
           P == DayPendings
           Q == DayPendings'
<1>1. PICK new \in ClosedReq :
        /\ Becomes(s, new) /\ new.cost = req[s].cost
        /\ req[s].class \in Classes /\ req[s].cost \in Costs
        /\ \/ /\ half = "run" /\ table = "runs"
              /\ req[s].pc = "analyzed" /\ new.pc = "closed"
           \/ /\ half = "record" /\ table = "diagnoses"
              /\ req[s].pc = "closed" /\ new.pc = "recorded"
  BY RunSpends, DiagnosisSpends DEF AnalyzedReq, ClosedReq
<1>2. /\ cost \in [Tables -> [Classes -> Nat]] /\ DailyCost \in Nat
      /\ WithinDay(DailyCost, P) /\ P \subseteq AllHalves
  BY DayIs
<1>3. Charge(table, req[s].class, req[s].cost) \/ UNCHANGED cost
  BY <1>1 DEF CompleteRun, SaveDiagnosis, RunCost
<1> HIDE DEF half, table
<1>4. half \in Halves /\ table \in Tables
  BY <1>1 DEF Halves, Tables
<1>5. /\ Q \subseteq AllHalves /\ <<s, half>> \notin Q
      /\ \A h \in Halves : <<s, h>> \in Q => <<s, h>> \in P
      /\ req[s].cost # 0 => <<s, half>> \in P
  BY <1>1, <1>4, PendingsAfter DEF Owes, Halves
<1>6. Q \subseteq P
  BY <1>1, <1>2, <1>5, PendingsAfter, Pairs
<1>7. req[s].cost \in Nat /\ 2 * req[s].cost <= MostExpensive
  BY <1>1, PriceBounds DEF Costs
<1>8. /\ cost' \in [Tables -> [Classes -> Nat]]
      /\ DailyCost' \in Nat /\ DailyCost' <= DailyCost + req[s].cost
  <2>1. CASE Charge(table, req[s].class, req[s].cost)
    BY <1>1, <1>2, <1>4, <1>7, <2>1, ChargeAdds
  <2>2. CASE UNCHANGED cost
    <3>1. DailyCost' = DailyCost
      BY <2>2 DEF DailyCost
    <3> QED BY <1>2, <1>7, <2>2, <3>1
  <2> QED BY <1>3, <2>1, <2>2
<1>9. CASE req[s].cost = 0
  <2>1. DailyCost' <= DailyCost
    BY <1>2, <1>8, <1>9
  <2> QED BY <1>2, <1>6, <1>8, <2>1, FewerHalves, DayNext
<1>10. CASE req[s].cost # 0
  <2>1. <<s, half>> \in P /\ Q \subseteq P \ {<<s, half>>}
    BY <1>5, <1>6, <1>10
  <2>0. MostExpensive \in Nat
    BY PriceBounds
  <2>2. 2 * DailyCost' <= 2 * DailyCost + MostExpensive
    BY <1>2, <1>7, <1>8, <2>0, HalfTheDearest
  <2> QED BY <1>2, <1>8, <2>1, <2>2, HalfPays, DayNext
<1> QED BY <1>9, <1>10

LEMMA DayUsage ==
  ASSUME ReqInv, DayInv, NEW s \in Sessions, AddThemeUsage(s) \/ AddDiagnosisUsage(s)
  PROVE  DayInv'
<1>1. Becomes(s, Idle) /\ UNCHANGED cost
  BY DEF AddThemeUsage, AddDiagnosisUsage, Ends
<1>2. /\ cost \in [Tables -> [Classes -> Nat]] /\ DailyCost \in Nat
      /\ WithinDay(DailyCost, DayPendings) /\ DayPendings \subseteq AllHalves
  BY DayIs
<1>3. DailyCost' = DailyCost /\ cost' = cost
  BY <1>1 DEF DailyCost
<1>4. \A half \in Halves : ~Owes(Idle, half)
  BY DEF Owes, Idle
<1>5. DayPendings' \subseteq DayPendings
  BY <1>1, <1>2, <1>4, PendingsAfter, Pairs
<1>6. WithinDay(DailyCost, DayPendings')
  BY <1>2, <1>5, FewerHalves
<1> QED BY <1>2, <1>3, <1>6, DayNext

LEMMA DayStep == ReqInv /\ DayInv /\ [Next]_vars => DayInv'
<1> SUFFICES ASSUME ReqInv, DayInv, [Next]_vars PROVE DayInv'
  OBVIOUS
<1>0. /\ cost \in [Tables -> [Classes -> Nat]] /\ DailyCost \in Nat
      /\ WithinDay(DailyCost, DayPendings) /\ DayPendings \subseteq AllHalves
  BY DayIs
<1>1. ASSUME NEW s \in Sessions, ThemeNext(s) \/ DiagnosisNext(s) PROVE DayInv'
  BY <1>1, StepKinds, DayQuiet, DayGeneration, DayDiagnosis, DayUsage
<1>2. CASE Midnight
  <2>1. cost' = NoCost /\ UNCHANGED req
    BY <1>2 DEF Midnight, NewDay
  <2>2. DayPendings' = DayPendings
    BY <2>1 DEF DayPendings
  <2>3. WithinDay(0, DayPendings)
    BY <1>0, FewerHalves
  <2> QED BY <2>1, <2>2, <2>3, NewCosts, DayNext
<1>3. CASE UNCHANGED <<cost, req>>
  <2>1. DayPendings' = DayPendings /\ DailyCost' = DailyCost
    BY <1>3 DEF DayPendings, DailyCost
  <2> QED BY <1>0, <1>3, <2>1, DayNext
<1> QED BY <1>1, <1>2, <1>3 DEF Next, ReserveText, vars

LEMMA DayStart == Init => DayInv
<1> SUFFICES ASSUME Init PROVE DayInv
  OBVIOUS
<1>1. cost = NoCost /\ \A s \in Sessions : req[s] = Idle
  BY DEF Init, LedgerInit
<1>2. DayPendings = {}
  BY <1>1 DEF DayPendings, Owes, Idle
<1>3. cost \in [Tables -> [Classes -> Nat]]
  BY <1>1 DEF NoCost
<1>4. DailyCost = 0
  <2>1. /\ Classes \subseteq {"user", "load_test"}
        /\ "runs" \in Tables /\ "generations" \in Tables /\ "diagnoses" \in Tables
    BY LedgerAssumption DEF Tables
  <2>2. \A table \in Tables, class \in Classes : cost[table][class] = 0
    BY <1>1 DEF NoCost
  <2> QED BY <2>1, <2>2 DEF DailyCost, SumOf
<1> QED BY <1>2, <1>3, <1>4 DEF DayInv, Within

\* The day's budget is overshot by less than one request of the dearest kind for
\* every session at work: those the guard let through when it was last below 80 %
\* of it (BudgetGuard.current, read once; the costs are recorded at the ends).
THEOREM DailyOvershootBounded == Spec => []DailyBudgetOvershoot
<1>1. DayInv => DailyBudgetOvershoot
  <2> SUFFICES ASSUME DayInv, DailyCost > 0
               PROVE  10 * DailyCost < 8 * DailyBudget
                                         + 10 * MostExpensive * Cardinality(Sessions)
    BY DEF DailyBudgetOvershoot
  <2>1. /\ DailyCost \in Nat /\ DayPendings \subseteq AllHalves
        /\ WithinDay(DailyCost, DayPendings)
    BY DayIs
  <2> DEFINE price == 10 * MostExpensive
             n == Cardinality(Sessions)
  <2>2. /\ price \in Nat /\ n \in Nat /\ Cardinality(AllHalves) = 2 * n
        /\ Cardinality(DayPendings) \in Nat
    BY <2>1, PriceBounds, HalvesCount, CountsAreBounded
  <2>3. 20 * DailyCost + price * Cardinality(DayPendings)
          < 16 * DailyBudget + price * Cardinality(AllHalves)
    BY <2>1 DEF WithinDay, Within
  <2> HIDE DEF price, n
  <2>4. price * Cardinality(DayPendings) \in Nat /\ price * n \in Nat
    BY <2>2, Times
  <2>5. price * Cardinality(AllHalves) = 2 * (price * n)
    <3>1. price * (2 * n) = 2 * (price * n)
      BY <2>2, Z3
    <3> QED BY <2>2, <3>1
  <2>6. 10 * DailyCost < 8 * DailyBudget + price * n
    BY <2>1, <2>3, <2>4, <2>5, PriceBounds
  <2> QED BY <2>6 DEF price, n
<1> QED BY <1>1, ReqStart, ReqStep, DayStart, DayStep, PTL DEF Spec

--------------------------------------------------------------------------------
\* The subjects' rows, with what they cost.
RowType == [made : BOOLEAN, requests : Nat, text : Nat, aigc : Nat, diagnosis : Nat, cost : Nat]
UsageInv == usage \in [Subjects -> RowType]

LEMMA RowGrows ==
  ASSUME NEW row \in RowType, NEW count \in Quotas
  PROVE  LET new == [row EXCEPT !.made = TRUE, !.requests = @ + 1, ![count] = @ + 1]
         IN  new \in RowType /\ new.cost = row.cost
<1> DEFINE made == [row EXCEPT !.made = TRUE]
           asked == [made EXCEPT !.requests = @ + 1]
<1>0. [row EXCEPT !.made = TRUE, !.requests = @ + 1, ![count] = @ + 1]
        = [asked EXCEPT ![count] = @ + 1]
  BY DEF RowType, Quotas
<1>1. made \in RowType /\ made.cost = row.cost
  BY DEF RowType
<1> HIDE DEF made
<1>2. asked \in RowType /\ asked.cost = made.cost
  BY <1>1 DEF RowType
<1> HIDE DEF asked
<1>4. [asked EXCEPT ![count] = @ + 1] \in RowType
      /\ [asked EXCEPT ![count] = @ + 1].cost = asked.cost
  BY <1>2 DEF RowType, Quotas
<1> QED BY <1>0, <1>1, <1>2, <1>4

LEMMA RowReserved ==
  ASSUME UsageInv, NEW u \in Subjects, NEW count \in Quotas, Reserve(u, count)
  PROVE  UsageInv' /\ \A v \in Subjects : usage'[v].cost = usage[v].cost
<1> DEFINE row == usage[u]
           new == [row EXCEPT !.made = TRUE, !.requests = @ + 1, ![count] = @ + 1]
<1>1. row \in RowType
  BY DEF UsageInv
<1>2. usage' = [usage EXCEPT ![u] = new]
  BY DEF Reserve, UsageInv, RowType, Quotas
<1>3. new \in RowType /\ new.cost = row.cost
  BY <1>1, RowGrows
<1> HIDE DEF new
<1> QED BY <1>2, <1>3 DEF UsageInv

LEMMA RowCharged ==
  ASSUME UsageInv, NEW u \in Subjects, NEW spent \in Nat, AddUsage(u, spent)
  PROVE  /\ UsageInv'
         /\ \A v \in Subjects \ {u} : usage'[v].cost = usage[v].cost
         /\ usage'[u].cost <= usage[u].cost + spent
<1> DEFINE row == usage[u]
           new == [row EXCEPT !.cost = @ + spent]
<1>1. row \in RowType /\ \A v \in Subjects : usage[v].cost \in Nat
  BY DEF UsageInv, RowType
<1>2. CASE row.made
  <2>1. usage' = [usage EXCEPT ![u] = new]
    BY <1>2 DEF AddUsage
  <2>2. new \in RowType /\ new.cost = row.cost + spent
    BY <1>1 DEF RowType
  <2> HIDE DEF new
  <2> QED BY <1>1, <2>1, <2>2 DEF UsageInv
<1>3. CASE ~row.made
  <2>1. usage' = usage
    BY <1>3 DEF AddUsage
  <2> QED BY <1>1, <2>1 DEF UsageInv
<1> QED BY <1>2, <1>3

--------------------------------------------------------------------------------
\* What is recorded at a feature's place and not in usage yet, and what a run has
\* cost and no diagnosis has been saved for yet.
Kinds == {"run", "theme", "image", "vlm"}
Owing(r, kind) ==
  \/ kind = "run" /\ r.pc = "closed" /\ r.cost # 0
  \/ kind = "theme" /\ r.pc = "saved" /\ ~r.economy
  \/ kind = "image" /\ r.pc = "saved" /\ r.image = "external"
  \/ kind = "vlm" /\ r.pc = "recorded" /\ r.cost # 0
Price(kind) ==
  CASE kind = "theme" -> ThemeCost
    [] kind = "image" -> ImageCost
    [] OTHER          -> VlmCost
Share(r, kind) == IF Owing(r, kind) THEN Price(kind) ELSE 0
Shares(r) == Share(r, "theme") + Share(r, "image") + Share(r, "vlm")
Debtors(kind, Of) == {s \in Sessions : Who[s] \in Of /\ Owing(req[s], kind)}
Due(kind, Of) == Price(kind) * Cardinality(Debtors(kind, Of))
Recorded(table) == SumOf(cost[table], Classes)

BackedInv ==
  today = 0 =>
    /\ Recorded("diagnoses") + Due("run", Subjects) <= Recorded("runs")
    /\ \A u \in Subjects :
         usage[u].cost + Due("theme", {u}) + Due("image", {u}) + Due("vlm", {u})
           <= Recorded("generations") + Recorded("diagnoses")

LEMMA PriceIsNat ==
  ASSUME NEW kind \in Kinds PROVE Price(kind) \in Nat /\ \A r : Share(r, kind) \in Nat
<1>1. Price(kind) \in Nat
  BY ThemeAssumption, DiagnosisAssumption DEF Price
<1> QED BY <1>1 DEF Share

\* A set that one member joins or leaves.
LEMMA OneMember ==
  ASSUME NEW price \in Nat, NEW P \in SUBSET Sessions, NEW Q \in SUBSET Sessions,
         NEW s \in Sessions, \A r \in Sessions \ {s} : r \in Q <=> r \in P
  PROVE  /\ price * Cardinality(P) \in Nat /\ price * Cardinality(Q) \in Nat
         /\ price * Cardinality(Q) + (IF s \in P THEN price ELSE 0)
              = price * Cardinality(P) + (IF s \in Q THEN price ELSE 0)
<1>1. IsFiniteSet(P) /\ IsFiniteSet(Q) /\ Cardinality(P) \in Nat /\ Cardinality(Q) \in Nat
  BY SessionsAreFinite, FS_Subset, FS_CardinalityType
<1>2. price * Cardinality(P) \in Nat /\ price * Cardinality(Q) \in Nat
  BY <1>1, Times
<1>3. CASE s \in P <=> s \in Q
  <2>1. P = Q
    BY <1>3
  <2> QED BY <1>2, <2>1
<1>4. CASE s \in Q /\ s \notin P
  <2>1. Q = P \cup {s}
    BY <1>4
  <2>2. Cardinality(Q) = Cardinality(P) + 1
    BY <1>1, <1>4, <2>1, FS_AddElement
  <2>3. price * Cardinality(Q) = price * Cardinality(P) + price
    BY <1>1, <2>2, Times
  <2> QED BY <1>2, <1>4, <2>3
<1>5. CASE s \in P /\ s \notin Q
  <2>1. P = Q \cup {s}
    BY <1>5
  <2>2. Cardinality(P) = Cardinality(Q) + 1
    BY <1>1, <1>5, <2>1, FS_AddElement
  <2>3. price * Cardinality(P) = price * Cardinality(Q) + price
    BY <1>1, <2>2, Times
  <2> QED BY <1>2, <1>5, <2>3
<1> QED BY <1>3, <1>4, <1>5

LEMMA DueChanges ==
  ASSUME ReqInv, NEW s \in Sessions, NEW new, Becomes(s, new), NEW kind \in Kinds, NEW Of
  PROVE  /\ Due(kind, Of) \in Nat /\ Due(kind, Of)' \in Nat
         /\ Who[s] \in Of => Due(kind, Of)' + Share(req[s], kind) = Due(kind, Of) + Share(new, kind)
         /\ Who[s] \notin Of => Due(kind, Of)' = Due(kind, Of)
<1> DEFINE P == Debtors(kind, Of)
           Q == {r \in Sessions : Who[r] \in Of /\ Owing(req'[r], kind)}
<1>1. \A r \in Sessions : req'[r] = IF r = s THEN new ELSE req[r]
  BY DEF Becomes, ReqInv
<1>2. Due(kind, Of) = Price(kind) * Cardinality(P) /\ Due(kind, Of)' = Price(kind) * Cardinality(Q)
  BY DEF Due, Debtors, Owing
<1>3. /\ P \in SUBSET Sessions /\ Q \in SUBSET Sessions
      /\ \A r \in Sessions \ {s} : r \in Q <=> r \in P
      /\ s \in P <=> Who[s] \in Of /\ Owing(req[s], kind)
      /\ s \in Q <=> Who[s] \in Of /\ Owing(new, kind)
  BY <1>1 DEF Debtors
<1> HIDE DEF P, Q
<1>4. /\ Price(kind) * Cardinality(P) \in Nat /\ Price(kind) * Cardinality(Q) \in Nat
      /\ Price(kind) * Cardinality(Q) + (IF s \in P THEN Price(kind) ELSE 0)
           = Price(kind) * Cardinality(P) + (IF s \in Q THEN Price(kind) ELSE 0)
  BY <1>3, PriceIsNat, OneMember
<1>5. CASE Who[s] \in Of
  <2>1. /\ (IF s \in P THEN Price(kind) ELSE 0) = Share(req[s], kind)
        /\ (IF s \in Q THEN Price(kind) ELSE 0) = Share(new, kind)
    BY <1>3, <1>5 DEF Share
  <2> QED BY <1>2, <1>4, <1>5, <2>1
<1>6. CASE Who[s] \notin Of
  <2>1. P = Q
    BY <1>3, <1>6
  <2> QED BY <1>2, <1>4, <1>6, <2>1
<1> QED BY <1>5, <1>6

--------------------------------------------------------------------------------
LEMMA ThreeMoves ==
  ASSUME NEW x1 \in Nat, NEW x2 \in Nat, NEW x3 \in Nat, NEW y1 \in Nat, NEW y2 \in Nat,
         NEW y3 \in Nat, NEW a1 \in Nat, NEW a2 \in Nat, NEW a3 \in Nat, NEW b1 \in Nat,
         NEW b2 \in Nat, NEW b3 \in Nat, y1 + b1 = x1 + a1, y2 + b2 = x2 + a2, y3 + b3 = x3 + a3
  PROVE  y1 + y2 + y3 + (b1 + b2 + b3) = x1 + x2 + x3 + (a1 + a2 + a3)
OBVIOUS

\* One request becomes new, while each table and its subject's row grow by what
\* they grow by: nothing is recorded outside that was not owed inside.
LEMMA BackedMoves ==
  ASSUME ReqInv, UsageInv, BackedInv, UNCHANGED today,
         cost \in [Tables -> [Classes -> Nat]], cost' \in [Tables -> [Classes -> Nat]],
         NEW s \in Sessions, NEW new, Becomes(s, new),
         NEW g \in Nat, NEW d \in Nat, NEW r \in Nat, NEW c \in Nat,
         Recorded("generations")' = Recorded("generations") + g,
         Recorded("diagnoses")' = Recorded("diagnoses") + d,
         Recorded("runs")' = Recorded("runs") + r,
         UsageInv', usage'[Who[s]].cost <= usage[Who[s]].cost + c,
         \A u \in Subjects \ {Who[s]} : usage'[u].cost = usage[u].cost,
         today = 0 => d + Share(new, "run") <= r + Share(req[s], "run"),
         c + Shares(new) <= g + d + Shares(req[s])
  PROVE  BackedInv'
<1> SUFFICES ASSUME today = 0
             PROVE  /\ Recorded("diagnoses")' + Due("run", Subjects)' <= Recorded("runs")'
                    /\ \A u \in Subjects :
                         usage'[u].cost + Due("theme", {u})' + Due("image", {u})'
                                        + Due("vlm", {u})'
                           <= Recorded("generations")' + Recorded("diagnoses")'
  BY DEF BackedInv
<1>0. Who[s] \in Subjects /\ {"run", "theme", "image", "vlm"} \subseteq Kinds
  BY LedgerAssumption DEF Kinds
<1>1. \A table \in Tables : Recorded(table) \in Nat /\ Recorded(table)' \in Nat
  BY DEF Recorded, SumOf
<1>2. /\ Recorded("generations") \in Nat /\ Recorded("diagnoses") \in Nat
      /\ Recorded("runs") \in Nat
  BY <1>1 DEF Tables
<1>3. \A u \in Subjects : usage[u].cost \in Nat /\ usage'[u].cost \in Nat
  BY DEF UsageInv, RowType
<1>4. \A kind \in Kinds : Share(new, kind) \in Nat /\ Share(req[s], kind) \in Nat
  BY PriceIsNat
<1>5. Recorded("diagnoses")' + Due("run", Subjects)' <= Recorded("runs")'
  <2>1. /\ Due("run", Subjects) \in Nat /\ Due("run", Subjects)' \in Nat
        /\ Due("run", Subjects)' + Share(req[s], "run") = Due("run", Subjects) + Share(new, "run")
    BY <1>0, DueChanges
  <2>2. Recorded("diagnoses") + Due("run", Subjects) <= Recorded("runs")
    BY DEF BackedInv
  <2>3. Share(new, "run") \in Nat /\ Share(req[s], "run") \in Nat
    BY <1>0, <1>4
  <2>4. d + Share(new, "run") <= r + Share(req[s], "run")
    OBVIOUS
  <2> DEFINE x == Due("run", Subjects)
             y == Due("run", Subjects)'
             a == Share(new, "run")
             b == Share(req[s], "run")
             D == Recorded("diagnoses")
             R == Recorded("runs")
  <2>5. D + x <= R /\ y + b = x + a /\ d + a <= r + b
        /\ D \in Nat /\ R \in Nat /\ x \in Nat /\ y \in Nat /\ a \in Nat /\ b \in Nat
    BY <1>2, <2>1, <2>2, <2>3, <2>4
  <2> HIDE DEF x, y, a, b, D, R
  <2>6. (D + d) + y <= R + r
    BY <2>5
  <2> QED BY <2>6 DEF D, R, y
<1>6. ASSUME NEW u \in Subjects
      PROVE  usage'[u].cost + Due("theme", {u})' + Due("image", {u})' + Due("vlm", {u})'
               <= Recorded("generations")' + Recorded("diagnoses")'
  <2> DEFINE x == Due("theme", {u}) + Due("image", {u}) + Due("vlm", {u})
             y == Due("theme", {u})' + Due("image", {u})' + Due("vlm", {u})'
             G == Recorded("generations")
             D == Recorded("diagnoses")
             k == usage[u].cost
             l == usage'[u].cost
             a == Shares(new)
             b == Shares(req[s])
  <2>1. /\ Due("theme", {u}) \in Nat /\ Due("image", {u}) \in Nat /\ Due("vlm", {u}) \in Nat
        /\ Due("theme", {u})' \in Nat /\ Due("image", {u})' \in Nat /\ Due("vlm", {u})' \in Nat
    BY <1>0, DueChanges
  <2>2. k + x <= G + D
    <3>1. usage[u].cost + Due("theme", {u}) + Due("image", {u}) + Due("vlm", {u}) <= G + D
      BY DEF BackedInv
    <3> QED BY <1>2, <1>3, <2>1, <3>1
  <2>3. /\ k \in Nat /\ l \in Nat /\ G \in Nat /\ D \in Nat /\ x \in Nat /\ y \in Nat
        /\ a \in Nat /\ b \in Nat
    BY <1>0, <1>2, <1>3, <1>4, <2>1 DEF Shares
  <2>4. l + y <= (G + g) + (D + d)
    <3>1. CASE u = Who[s]
      <4>1. /\ Due("theme", {u})' + Share(req[s], "theme") = Due("theme", {u}) + Share(new, "theme")
            /\ Due("image", {u})' + Share(req[s], "image") = Due("image", {u}) + Share(new, "image")
            /\ Due("vlm", {u})' + Share(req[s], "vlm") = Due("vlm", {u}) + Share(new, "vlm")
        BY <1>0, <3>1, DueChanges
      <4>2. y + b = x + a
        <5> DEFINE x1 == Due("theme", {u})
                   x2 == Due("image", {u})
                   x3 == Due("vlm", {u})
                   y1 == Due("theme", {u})'
                   y2 == Due("image", {u})'
                   y3 == Due("vlm", {u})'
                   a1 == Share(new, "theme")
                   a2 == Share(new, "image")
                   a3 == Share(new, "vlm")
                   b1 == Share(req[s], "theme")
                   b2 == Share(req[s], "image")
                   b3 == Share(req[s], "vlm")
        <5>1. /\ x1 \in Nat /\ x2 \in Nat /\ x3 \in Nat
              /\ y1 \in Nat /\ y2 \in Nat /\ y3 \in Nat
              /\ a1 \in Nat /\ a2 \in Nat /\ a3 \in Nat
              /\ b1 \in Nat /\ b2 \in Nat /\ b3 \in Nat
              /\ y1 + b1 = x1 + a1 /\ y2 + b2 = x2 + a2 /\ y3 + b3 = x3 + a3
          BY <1>0, <1>4, <2>1, <4>1
        <5> HIDE DEF x1, x2, x3, y1, y2, y3, a1, a2, a3, b1, b2, b3
        <5>2. y1 + y2 + y3 + (b1 + b2 + b3) = x1 + x2 + x3 + (a1 + a2 + a3)
          BY <5>1, ThreeMoves
        <5> QED BY <5>2 DEF Shares, x1, x2, x3, y1, y2, y3, a1, a2, a3, b1, b2, b3
      <4>3. l <= k + c /\ c + a <= g + d + b
        BY <3>1
      <4> HIDE DEF x, y, G, D, k, l, a, b
      <4> QED BY <2>2, <2>3, <4>2, <4>3
    <3>2. CASE u # Who[s]
      <4>1. /\ Due("theme", {u})' = Due("theme", {u})
            /\ Due("image", {u})' = Due("image", {u})
            /\ Due("vlm", {u})' = Due("vlm", {u})
        BY <1>0, <3>2, DueChanges
      <4>2. l = k /\ y = x
        BY <3>2, <4>1
      <4> HIDE DEF x, y, G, D, k, l, a, b
      <4> QED BY <2>2, <2>3, <4>2
    <3> QED BY <3>1, <3>2
  <2>5. l + y = usage'[u].cost + Due("theme", {u})' + Due("image", {u})' + Due("vlm", {u})'
    BY <1>3, <2>1
  <2> HIDE DEF y, l, x, k, a, b
  <2> QED BY <2>4, <2>5 DEF G, D
<1> QED BY <1>5, <1>6

\* What each step's request owes, before and after.
LEMMA NothingOwed ==
  ASSUME NEW r, r.pc \notin {"saved", "closed", "recorded"}
  PROVE  Shares(r) = 0 /\ Share(r, "run") = 0
BY DEF Shares, Share, Owing

LEMMA ThemeOwed ==
  ASSUME ReqInv, NEW s \in Sessions, NEW r, r.pc = "saved", r.economy = req[s].economy,
         r.image = req[s].image, req[s].economy \in BOOLEAN
  PROVE  Shares(r) = TotalCost(s) /\ Share(r, "run") = 0 /\ TotalCost(s) \in Nat
<1>1. Share(r, "vlm") = 0 /\ Share(r, "run") = 0
  BY DEF Share, Owing
<1>2. Share(r, "theme") = ThemePaid(s) /\ Share(r, "image") = ImagePaid(s)
  BY DEF Share, Owing, Price, ThemePaid, ImagePaid, Generator
<1>3. ThemePaid(s) \in Nat /\ ImagePaid(s) \in Nat
  BY ThemeAssumption DEF ThemePaid, ImagePaid
<1> QED BY <1>1, <1>2, <1>3 DEF Shares, TotalCost

LEMMA RunOwed ==
  ASSUME NEW r, r.pc = "closed", r.cost \in Costs
  PROVE  Shares(r) = 0 /\ Share(r, "run") = r.cost
BY DiagnosisAssumption DEF Shares, Share, Owing, Price, Costs

LEMMA DiagnosisOwed ==
  ASSUME NEW r, r.pc = "recorded", r.cost \in Costs
  PROVE  Shares(r) = r.cost /\ Share(r, "run") = 0
BY DiagnosisAssumption DEF Shares, Share, Owing, Price, Costs

--------------------------------------------------------------------------------
\* The inductive invariant: requests and rows are typed, costs are recorded from
\* the inside out.
BookInv == UsageInv /\ BackedInv

LEMMA BookQuiet ==
  ASSUME ReqInv, BookInv, cost \in [Tables -> [Classes -> Nat]], UNCHANGED today,
         NEW s \in Sessions, Quiet(s)
  PROVE  BookInv'
<1>1. PICK new \in ReqType :
        /\ Becomes(s, new) /\ new.pc \notin {"saved", "closed", "recorded"} /\ UNCHANGED cost
        /\ UNCHANGED usage \/ \E count \in Quotas : Reserve(Who[s], count)
  BY DEF Quiet
<1>2. UsageInv' /\ \A u \in Subjects : usage'[u].cost = usage[u].cost
  <2>1. CASE UNCHANGED usage
    BY <2>1 DEF BookInv, UsageInv
  <2>2. CASE \E count \in Quotas : Reserve(Who[s], count)
    BY <2>2, RowReserved, LedgerAssumption DEF BookInv
  <2> QED BY <1>1, <2>1, <2>2
<1>3. \A table \in Tables : Recorded(table) \in Nat /\ Recorded(table)' = Recorded(table) + 0
  BY <1>1, SumsAreNat DEF Recorded
<1>4. Shares(new) = 0 /\ Share(new, "run") = 0
  BY <1>1, NothingOwed
<1>5. Shares(req[s]) \in Nat /\ Share(req[s], "run") \in Nat
  BY PriceIsNat DEF Shares, Kinds
<1>6. Who[s] \in Subjects /\ {"runs", "generations", "diagnoses"} \subseteq Tables
  BY LedgerAssumption DEF Tables
<1>7. \A u \in Subjects : usage[u].cost \in Nat
  BY DEF BookInv, UsageInv, RowType
<1>8. BackedInv'
  <2>1. /\ usage'[Who[s]].cost <= usage[Who[s]].cost + 0
        /\ 0 + Share(new, "run") <= 0 + Share(req[s], "run")
        /\ 0 + Shares(new) <= 0 + 0 + Shares(req[s])
    BY <1>2, <1>4, <1>5, <1>6, <1>7
  <2>2. cost' \in [Tables -> [Classes -> Nat]]
    BY <1>1
  <2> QED BY <1>1, <1>2, <1>3, <1>6, <2>1, <2>2, BackedMoves DEF BookInv
<1> QED BY <1>2, <1>8 DEF BookInv

\* What a charge does to the three tables.
LEMMA ChargeRecords ==
  ASSUME cost \in [Tables -> [Classes -> Nat]], NEW table \in Tables, NEW class \in Classes,
         NEW spent \in Nat, Charge(table, class, spent)
  PROVE  /\ cost' \in [Tables -> [Classes -> Nat]]
         /\ Recorded(table)' = Recorded(table) + spent
         /\ \A other \in Tables \ {table} : Recorded(other)' = Recorded(other) + 0
<1>1. /\ cost' \in [Tables -> [Classes -> Nat]]
      /\ SumOf(cost'[table], Classes) = SumOf(cost[table], Classes) + spent
      /\ \A other \in Tables \ {table} : cost'[other] = cost[other]
  BY ChargeAdds
<1>2. \A other \in Tables : SumOf(cost[other], Classes) \in Nat
  BY SumsAreNat
<1> QED BY <1>1, <1>2 DEF Recorded

LEMMA BookGeneration ==
  ASSUME ReqInv, BookInv, cost \in [Tables -> [Classes -> Nat]], UNCHANGED today,
         NEW s \in Sessions, SaveGeneration(s)
  PROVE  BookInv'
<1>1. PICK new \in ThemeReq :
        /\ Becomes(s, new) /\ new.pc = "saved"
        /\ new.economy = req[s].economy /\ new.image = req[s].image
        /\ req[s] \in ThemeReq /\ req[s].pc = "saving"
  BY GenerationSpends
<1>2. /\ Shares(new) = TotalCost(s) /\ Share(new, "run") = 0 /\ TotalCost(s) \in Nat
      /\ Shares(req[s]) = 0 /\ Share(req[s], "run") = 0
  BY <1>1, ThemeOwed, NothingOwed DEF ThemeReq
<1>3. /\ Charge("generations", req[s].class, TotalCost(s)) /\ usage' = usage
      /\ req[s].class \in Classes
  BY <1>1 DEF SaveGeneration, ThemeReq
<1>4. /\ cost' \in [Tables -> [Classes -> Nat]]
      /\ Recorded("generations")' = Recorded("generations") + TotalCost(s)
      /\ Recorded("diagnoses")' = Recorded("diagnoses") + 0
      /\ Recorded("runs")' = Recorded("runs") + 0
  BY <1>2, <1>3, ChargeRecords DEF Tables
<1>5. UsageInv /\ UsageInv' /\ Who[s] \in Subjects /\ BackedInv
      /\ \A u \in Subjects : usage[u].cost \in Nat /\ usage'[u].cost = usage[u].cost
  BY <1>3, LedgerAssumption DEF BookInv, UsageInv, RowType
<1>6. /\ usage'[Who[s]].cost <= usage[Who[s]].cost + 0
      /\ 0 + Share(new, "run") <= 0 + Share(req[s], "run")
      /\ 0 + Shares(new) <= TotalCost(s) + 0 + Shares(req[s])
  BY <1>2, <1>5
<1>7. BackedInv'
  BY <1>1, <1>2, <1>4, <1>5, <1>6, BackedMoves
<1> QED BY <1>5, <1>7 DEF BookInv

LEMMA BookRun ==
  ASSUME ReqInv, BookInv, cost \in [Tables -> [Classes -> Nat]], UNCHANGED today,
         NEW s \in Sessions, CompleteRun(s)
  PROVE  BookInv'
<1>1. PICK new \in ClosedReq :
        /\ Becomes(s, new) /\ new.pc = "closed" /\ new.cost = req[s].cost
        /\ req[s] \in AnalyzedReq /\ req[s].pc = "analyzed" /\ Dated(req[s], today)
  BY RunSpends
<1>2. /\ Shares(new) = 0 /\ Share(new, "run") = req[s].cost /\ req[s].cost \in Nat
      /\ Shares(req[s]) = 0 /\ Share(req[s], "run") = 0
  BY <1>1, RunOwed, NothingOwed, DiagnosisAssumption DEF AnalyzedReq, Costs
<1>3. UsageInv /\ UsageInv' /\ Who[s] \in Subjects /\ BackedInv
      /\ \A u \in Subjects : usage[u].cost \in Nat /\ usage'[u].cost = usage[u].cost
  BY LedgerAssumption DEF CompleteRun, BookInv, UsageInv, RowType
\* On the first day, the run is of that day.
<1>4. PICK r \in Nat :
        /\ today = 0 => r = req[s].cost
        /\ cost' \in [Tables -> [Classes -> Nat]]
        /\ Recorded("generations")' = Recorded("generations") + 0
        /\ Recorded("diagnoses")' = Recorded("diagnoses") + 0
        /\ Recorded("runs")' = Recorded("runs") + r
  <2>1. CASE req[s].run = today
    <3>1. Charge("runs", req[s].class, req[s].cost) /\ req[s].class \in Classes
      BY <1>1, <2>1 DEF CompleteRun, RunCost, AnalyzedReq
    <3> QED BY <1>2, <3>1, ChargeRecords DEF Tables
  <2>2. CASE req[s].run # today
    <3>1. req[s].run \in Nat /\ req[s].run <= today /\ today \in Nat
      BY <1>1, DayAssumption DEF Dated, AnalyzedReq, ReqInv
    <3>2. today # 0 /\ cost' = cost
      BY <2>2, <3>1 DEF CompleteRun
    <3>3. \A table \in Tables : Recorded(table) \in Nat /\ Recorded(table)' = Recorded(table)
      BY <3>2, SumsAreNat DEF Recorded
    <3>4. /\ cost' \in [Tables -> [Classes -> Nat]]
          /\ Recorded("generations")' = Recorded("generations") + 0
          /\ Recorded("diagnoses")' = Recorded("diagnoses") + 0
          /\ Recorded("runs")' = Recorded("runs") + 0
      BY <3>2, <3>3 DEF Tables
    <3> QED BY <3>2, <3>4
  <2> QED BY <2>1, <2>2
<1>5. /\ usage'[Who[s]].cost <= usage[Who[s]].cost + 0
      /\ today = 0 => 0 + Share(new, "run") <= r + Share(req[s], "run")
      /\ 0 + Shares(new) <= 0 + 0 + Shares(req[s])
  BY <1>2, <1>3, <1>4
<1>6. BackedInv'
  BY <1>1, <1>3, <1>4, <1>5, BackedMoves
<1> QED BY <1>3, <1>6 DEF BookInv

LEMMA BookDiagnosis ==
  ASSUME ReqInv, BookInv, cost \in [Tables -> [Classes -> Nat]], UNCHANGED today,
         NEW s \in Sessions, SaveDiagnosis(s)
  PROVE  BookInv'
<1>1. PICK new \in ClosedReq :
        /\ Becomes(s, new) /\ new.pc = "recorded" /\ new.cost = req[s].cost
        /\ req[s] \in ClosedReq /\ req[s].pc = "closed"
  BY DiagnosisSpends
<1>2. /\ Shares(new) = req[s].cost /\ Share(new, "run") = 0 /\ req[s].cost \in Nat
      /\ Shares(req[s]) = 0 /\ Share(req[s], "run") = req[s].cost
  BY <1>1, RunOwed, DiagnosisOwed, DiagnosisAssumption DEF ClosedReq, Costs
<1>3. /\ Charge("diagnoses", req[s].class, req[s].cost) /\ usage' = usage
      /\ req[s].class \in Classes
  BY <1>1 DEF SaveDiagnosis, ClosedReq
<1>4. /\ cost' \in [Tables -> [Classes -> Nat]]
      /\ Recorded("generations")' = Recorded("generations") + 0
      /\ Recorded("diagnoses")' = Recorded("diagnoses") + req[s].cost
      /\ Recorded("runs")' = Recorded("runs") + 0
  BY <1>2, <1>3, ChargeRecords DEF Tables
<1>5. UsageInv /\ UsageInv' /\ Who[s] \in Subjects /\ BackedInv
      /\ \A u \in Subjects : usage[u].cost \in Nat /\ usage'[u].cost = usage[u].cost
  BY <1>3, LedgerAssumption DEF BookInv, UsageInv, RowType
<1>6. /\ usage'[Who[s]].cost <= usage[Who[s]].cost + 0
      /\ req[s].cost + Share(new, "run") <= 0 + Share(req[s], "run")
      /\ 0 + Shares(new) <= 0 + req[s].cost + Shares(req[s])
  BY <1>2, <1>5
<1>7. BackedInv'
  BY <1>1, <1>2, <1>4, <1>5, <1>6, BackedMoves
<1> QED BY <1>5, <1>7 DEF BookInv

LEMMA BookUsage ==
  ASSUME ReqInv, BookInv, cost \in [Tables -> [Classes -> Nat]], UNCHANGED today,
         NEW s \in Sessions, AddThemeUsage(s) \/ AddDiagnosisUsage(s)
  PROVE  BookInv'
<1>1. PICK spent \in Nat : /\ AddUsage(Who[s], spent) /\ Becomes(s, Idle) /\ UNCHANGED cost
                           /\ Shares(req[s]) = spent /\ Share(req[s], "run") = 0
  <2>1. CASE AddThemeUsage(s)
    <3>1. req[s].pc = "saved" /\ req[s] \in ThemeReq
      BY <2>1, Places DEF AddThemeUsage, At, ThemePhases
    <3>2. /\ Shares(req[s]) = TotalCost(s) /\ TotalCost(s) \in Nat
          /\ Share(req[s], "run") = 0
      BY <3>1, ThemeOwed DEF ThemeReq
    <3> QED BY <2>1, <3>2 DEF AddThemeUsage, Ends
  <2>2. CASE AddDiagnosisUsage(s)
    <3>1. req[s].pc = "recorded" /\ req[s] \in ClosedReq
      BY <2>2, Places DEF AddDiagnosisUsage, At
    <3>2. /\ Shares(req[s]) = req[s].cost /\ req[s].cost \in Nat
          /\ Share(req[s], "run") = 0
      BY <3>1, DiagnosisOwed, DiagnosisAssumption DEF ClosedReq, Costs
    <3> QED BY <2>2, <3>2 DEF AddDiagnosisUsage, Ends
  <2> QED BY <2>1, <2>2
<1>2. Shares(Idle) = 0 /\ Share(Idle, "run") = 0
  BY NothingOwed DEF Idle
<1>3. UsageInv /\ BackedInv /\ Who[s] \in Subjects
  BY LedgerAssumption DEF BookInv
<1>4. /\ UsageInv' /\ usage'[Who[s]].cost <= usage[Who[s]].cost + spent
      /\ \A u \in Subjects \ {Who[s]} : usage'[u].cost = usage[u].cost
  BY <1>1, <1>3, RowCharged
<1>5. /\ \A table \in Tables : Recorded(table) \in Nat /\ Recorded(table)' = Recorded(table)
      /\ cost' \in [Tables -> [Classes -> Nat]]
  BY <1>1, SumsAreNat DEF Recorded
<1>6. /\ Recorded("generations")' = Recorded("generations") + 0
      /\ Recorded("diagnoses")' = Recorded("diagnoses") + 0
      /\ Recorded("runs")' = Recorded("runs") + 0
  BY <1>5 DEF Tables
<1>7. /\ 0 + Share(Idle, "run") <= 0 + Share(req[s], "run")
      /\ spent + Shares(Idle) <= 0 + 0 + Shares(req[s])
  BY <1>1, <1>2
<1>8. BackedInv'
  BY <1>1, <1>3, <1>4, <1>5, <1>6, <1>7, BackedMoves
<1> QED BY <1>4, <1>8 DEF BookInv

LEMMA BookStep == ReqInv /\ DayInv /\ BookInv /\ [Next]_vars => BookInv'
<1> SUFFICES ASSUME ReqInv, DayInv, BookInv, [Next]_vars PROVE BookInv'
  OBVIOUS
<1>0. cost \in [Tables -> [Classes -> Nat]] /\ today \in Nat
  BY DayIs, DayAssumption DEF ReqInv
<1>1. ASSUME NEW s \in Sessions, ThemeNext(s) \/ DiagnosisNext(s), UNCHANGED today
      PROVE  BookInv'
  BY <1>0, <1>1, StepKinds, BookQuiet, BookGeneration, BookRun, BookDiagnosis, BookUsage
<1>2. CASE Midnight
  <2>1. usage' = [u \in Subjects |-> NoRow] /\ today' = today + 1
    BY <1>2 DEF Midnight, NewDay
  <2>2. NoRow \in RowType
    BY DEF NoRow, RowType
  <2>3. today' # 0
    BY <1>0, <2>1
  <2> QED BY <2>1, <2>2, <2>3 DEF BookInv, UsageInv, BackedInv
<1>3. ASSUME NEW s \in Sessions, ReserveText(s), UNCHANGED today PROVE BookInv'
  <2>1. /\ Reserve(Who[s], "text") /\ "text" \in Quotas /\ UNCHANGED <<cost, req>>
        /\ Who[s] \in Subjects
    BY <1>3, LedgerAssumption DEF ReserveText, Quotas
  <2>2. UsageInv' /\ \A u \in Subjects : usage'[u].cost = usage[u].cost
    BY <2>1, RowReserved DEF BookInv
  <2> QED BY <1>3, <2>1, <2>2 DEF BookInv, BackedInv, Recorded, Due, Debtors
<1>4. CASE UNCHANGED vars
  BY <1>4 DEF vars, BookInv, UsageInv, BackedInv, Recorded, Due, Debtors
<1> QED BY <1>1, <1>2, <1>3, <1>4 DEF Next

LEMMA BookStart == Init => BookInv
<1> SUFFICES ASSUME Init PROVE BookInv
  OBVIOUS
<1>1. /\ usage = [u \in Subjects |-> NoRow] /\ cost = NoCost
      /\ \A s \in Sessions : req[s] = Idle
  BY DEF Init, LedgerInit
<1>2. UsageInv /\ \A u \in Subjects : usage[u].cost = 0
  BY <1>1 DEF UsageInv, RowType, NoRow
<1>3. \A table \in Tables : Recorded(table) = 0
  <2>1. \A table \in Tables, class \in Classes : cost[table][class] = 0
    BY <1>1 DEF NoCost
  <2> QED BY <2>1, LedgerAssumption DEF Recorded, SumOf
<1>4. ASSUME NEW kind \in Kinds, NEW Of PROVE Due(kind, Of) = 0
  <2>1. Debtors(kind, Of) = {}
    BY <1>1 DEF Debtors, Owing, Idle
  <2>2. Cardinality({}) = 0
    BY FS_EmptySet
  <2> QED BY <2>1, <2>2, PriceIsNat DEF Due
<1>5. BackedInv
  BY <1>2, <1>3, <1>4 DEF BackedInv, Kinds, Tables
<1> QED BY <1>2, <1>5 DEF BookInv

\* Costs are recorded from the inside out, whatever fails in between and whoever
\* else records theirs: a diagnosis's run before its record before its subject's
\* usage, a generation before its usage (complete_run, save, add_usage).
THEOREM RecordsBackUsage == Spec => []CostsAreBacked
<1>1. ReqInv /\ DayInv /\ BookInv => CostsAreBacked
  <2> SUFFICES ASSUME ReqInv, DayInv, BookInv, today = 0
               PROVE  /\ Recorded("diagnoses") <= Recorded("runs")
                      /\ \A u \in Subjects :
                           usage[u].cost <= Recorded("generations") + Recorded("diagnoses")
    BY DEF CostsAreBacked, Recorded
  <2>1. ASSUME NEW kind \in Kinds, NEW Of PROVE Due(kind, Of) \in Nat
    <3>1. Debtors(kind, Of) \subseteq Sessions
      BY DEF Debtors
    <3> QED BY <3>1, PriceIsNat, CountsAreBounded, SessionsAreFinite, Times DEF Due
  <2>2. \A table \in Tables : Recorded(table) \in Nat
    BY DayIs, SumsAreNat DEF Recorded
  <2>3. \A u \in Subjects : usage[u].cost \in Nat
    BY DEF BookInv, UsageInv, RowType
  <2>4. /\ Recorded("generations") \in Nat /\ Recorded("diagnoses") \in Nat
        /\ Recorded("runs") \in Nat
    BY <2>2 DEF Tables
  <2>5. BackedInv
    BY DEF BookInv
  <2>6. Recorded("diagnoses") <= Recorded("runs")
    <3>1. /\ Recorded("diagnoses") + Due("run", Subjects) <= Recorded("runs")
          /\ Due("run", Subjects) \in Nat
      BY <2>1, <2>5 DEF BackedInv, Kinds
    <3> QED BY <2>4, <3>1
  <2>7. ASSUME NEW u \in Subjects
        PROVE  usage[u].cost <= Recorded("generations") + Recorded("diagnoses")
    <3>1. /\ Due("theme", {u}) \in Nat /\ Due("image", {u}) \in Nat /\ Due("vlm", {u}) \in Nat
      BY <2>1 DEF Kinds
    <3>2. usage[u].cost + Due("theme", {u}) + Due("image", {u}) + Due("vlm", {u})
            <= Recorded("generations") + Recorded("diagnoses")
      BY <2>5 DEF BackedInv
    <3> QED BY <2>3, <2>4, <3>1, <3>2
  <2> QED BY <2>6, <2>7
<1> QED BY <1>1, ReqStart, ReqStep, DayStart, DayStep, BookStart, BookStep, PTL DEF Spec

--------------------------------------------------------------------------------
\* What is stored besides: the themes, and the month's sums.
StoreInv ==
  /\ themes \subseteq [of : Subjects, generator : {"local", "external"}]
  /\ imageSpent \in Nat /\ vlmSpent \in Nat

LEMMA StoreStep == ReqInv /\ StoreInv /\ [Next]_vars => StoreInv'
<1> SUFFICES ASSUME ReqInv, StoreInv, [Next]_vars PROVE StoreInv'
  OBVIOUS
<1>1. ASSUME NEW s \in Sessions, ThemeNext(s), UNCHANGED vlmSpent PROVE StoreInv'
  <2>1. CASE SaveGeneration(s)
    <3>1. Theme(s) \in [of : Subjects, generator : {"local", "external"}]
      BY LedgerAssumption DEF Theme, Generator
    <3>2. ImagePaid(s) \in Nat
      BY ThemeAssumption DEF ImagePaid
    <3> QED BY <1>1, <2>1, <3>1, <3>2 DEF SaveGeneration, StoreInv
  <2>2. CASE \/ AskTheme(s) \/ ReserveDailyRequest(s) \/ FindCached(s) \/ ChooseImages(s)
             \/ GenerateImage(s) \/ AddThemeUsage(s) \/ ThemeFails(s)
    <3>1. UNCHANGED themeVars
      BY <2>2 DEF AskTheme, ReserveDailyRequest, FindCached, ChooseImages, GenerateImage,
                  AddThemeUsage, ThemeFails
    <3> QED BY <1>1, <3>1 DEF themeVars, StoreInv
  <2> QED BY <1>1, <2>1, <2>2 DEF ThemeNext
<1>2. ASSUME NEW s \in Sessions, DiagnosisNext(s), UNCHANGED themeVars PROVE StoreInv'
  <2>1. CASE SaveDiagnosis(s)
    <3>1. req[s].cost \in Nat
      BY <2>1, DiagnosisSpends, DiagnosisAssumption DEF ClosedReq, Costs
    <3> QED BY <1>2, <2>1, <3>1 DEF SaveDiagnosis, themeVars, StoreInv
  <2>2. CASE \/ AskDiagnosis(s) \/ RefuseImage(s) \/ ReserveDiagnosis(s) \/ ChooseVlm(s)
             \/ Analyze(s) \/ CompleteRun(s) \/ AddDiagnosisUsage(s)
             \/ DiagnosisFails(s)
    <3>1. UNCHANGED vlmSpent
      BY <2>2 DEF AskDiagnosis, RefuseImage, ReserveDiagnosis, ChooseVlm, Analyze,
                  CompleteRun, AddDiagnosisUsage, DiagnosisFails
    <3> QED BY <1>2, <3>1 DEF themeVars, StoreInv
  <2> QED BY <1>2, <2>1, <2>2 DEF DiagnosisNext
<1>3. CASE Midnight
  BY <1>3 DEF Midnight, StoreInv
<1>4. CASE UNCHANGED <<themes, imageSpent, vlmSpent>>
  BY <1>4 DEF StoreInv
<1> QED BY <1>1, <1>2, <1>3, <1>4 DEF Next, themeVars, vars

\* A request always knows what its place asks for, whichever of its statements
\* fail; a theme's image is external or its mock from its choice on, and every
\* run is dated by a day that has come.
THEOREM FeaturesTyped == Spec => []TypeOK
<1>1. Init => StoreInv
  BY DEF Init, ThemeInit, DiagnosisInit, StoreInv
<1>2. ReqInv /\ DayInv /\ BookInv /\ StoreInv => TypeOK
  <2> SUFFICES ASSUME ReqInv, DayInv, BookInv, StoreInv PROVE TypeOK
    OBVIOUS
  <2>1. LedgerTypeOK
    BY DayIs DEF BookInv, UsageInv, RowType, LedgerTypeOK
  <2>2. today \in 0..MaxDay /\ today \in Nat
    BY DayAssumption DEF ReqInv
  <2>3. ASSUME NEW s \in Sessions
        PROVE  /\ req[s].pc \in {"idle"} \cup ThemePhases \cup DiagnosisPhases
               /\ req[s].pc \in ThemePhases \cup DiagnosisPhases => req[s].class \in Classes
               /\ req[s].pc \in {"saving", "saved"} => req[s].image \in {"external", "mock"}
               /\ req[s].pc \in {"stored", "analyzing", "analyzed"}
                    => req[s].run \in 0..today
               /\ req[s].pc \in {"analyzed", "closed", "recorded"} => req[s].cost \in {0, VlmCost}
    <3> DEFINE r == req[s]
    <3>1. r \in ReqType /\ Chosen(r) /\ Dated(r, today)
      BY Places
    <3>2. /\ r.pc \in {"idle"} \cup ThemePhases \cup DiagnosisPhases
          /\ r.pc # "idle" => r.class \in Classes
          /\ r.pc \in {"stored", "analyzing", "analyzed"} => r.run \in Nat
          /\ r.pc \in {"analyzed", "closed", "recorded"} => r.cost \in Costs
      <4> HIDE DEF r
      <4>1. CASE r = Idle
        BY <4>1 DEF Idle
      <4>2. CASE r \in ThemeReq
        BY <4>2 DEF ThemeReq, ThemePhases
      <4>3. CASE r \in GuardedReq \cup StoredReq \cup AnalyzingReq
        BY <4>3 DEF GuardedReq, StoredReq, AnalyzingReq, DiagnosisPhases
      <4>4. CASE r \in AnalyzedReq \cup ClosedReq
        BY <4>4 DEF AnalyzedReq, ClosedReq, DiagnosisPhases
      <4> QED BY <3>1, <4>1, <4>2, <4>3, <4>4 DEF ReqType
    <3> QED BY <2>2, <3>1, <3>2 DEF Chosen, Dated, Costs, ThemePhases, DiagnosisPhases
  <2>4. ThemeTypeOK
    BY <2>3 DEF StoreInv, ThemeTypeOK
  <2>5. DiagnosisTypeOK
    BY <2>3 DEF StoreInv, DiagnosisTypeOK
  <2> QED BY <2>1, <2>2, <2>3, <2>4, <2>5 DEF TypeOK
<1> QED BY <1>1, <1>2, ReqStart, ReqStep, DayStart, DayStep, BookStart, BookStep, StoreStep, PTL
    DEF Spec
================================================================================
