------------------------------- MODULE ThemeStudio -----------------------------
(***************************************************************************)
(* ThemeGenerationService.generate behind POST /aigc/themes, with external *)
(* theme and image providers: the quota, the cached theme, the model that  *)
(* writes the theme, the month's image budget, the image or its mock, the  *)
(* asset, the generation's row, the usage.  An error leaves the request    *)
(* where it is: nothing that was reserved or spent is given back.          *)
(***************************************************************************)
EXTENDS UsageLedger

CONSTANTS ThemeCost, ImageCost,   \* of one call of each provider
          ImageBudget             \* monthly_image_budget_cny

ASSUME ThemeAssumption == ThemeCost \in Nat /\ ImageCost \in Nat /\ ImageBudget \in Nat

VARIABLES themes,       \* cockpit_themes: whose, and written by which generator
          imageSpent    \* the month's cost of external images in aigc_generations

themeVars == <<themes, imageSpent>>

ThemeInit == themes = {} /\ imageSpent = 0

\* The route reads the day's budget and resolves the vehicle.
AskTheme(s) ==
  /\ At(s, "idle")
  /\ \E class \in Classes :
       Becomes(s, [pc |-> "asked", class |-> class, economy |-> Economy, image |-> "none"])
  /\ UNCHANGED <<ledgerVars, themeVars>>

ReserveDailyRequest(s) ==
  /\ At(s, "asked")
  /\ \/ /\ HasQuota(Who[s], "aigc", AigcLimit)
        /\ Reserve(Who[s], "aigc") /\ Goto(s, "reserved")
     \/ ~HasQuota(Who[s], "aigc", AigcLimit) /\ Ends(s) /\ UNCHANGED usage
  /\ UNCHANGED <<cost, themeVars>>

\* In economy mode the local generator writes the theme, and the prompt's hash
\* names it.
Generator(s) == IF req[s].economy THEN "local" ELSE "external"
Theme(s) == [of |-> Who[s], generator |-> Generator(s)]

\* find_cached, unless the request is to regenerate; a theme found is saved once
\* more at no cost.
FindCached(s) ==
  /\ At(s, "reserved")
  /\ \/ Theme(s) \in themes /\ Ends(s)
     \/ \E regenerate \in BOOLEAN :
          (regenerate \/ Theme(s) \notin themes) /\ Goto(s, "generating")
  /\ UNCHANGED <<ledgerVars, themeVars>>

\* The generator answers, after one repair if need be, and the month's budget
\* chooses the images.  (An invalid theme is one of ThemeFails, and what its
\* calls cost is recorded nowhere.)
ImagesNormal_UntilExhausted == ImageBudget > 0 /\ imageSpent <= ImageBudget   \* fault
ImagesNormal == ImageBudget > 0 /\ 10 * imageSpent < 8 * ImageBudget
ChooseImages(s) ==
  /\ At(s, "generating")
  /\ req' = [req EXCEPT ![s].pc = "imaging",
               ![s].image = IF ~req[s].economy /\ ImagesNormal THEN "external" ELSE "mock"]
  /\ UNCHANGED <<ledgerVars, themeVars>>

\* The image, or the mock's when the provider fails, put into the asset store.
GenerateImage_NoFallback(s) ==                                         \* fault
  /\ At(s, "imaging")
  /\ \/ Goto(s, "saving")
     \/ req[s].image = "external"
        /\ req' = [req EXCEPT ![s].pc = "saving", ![s].image = "none"]
  /\ UNCHANGED <<ledgerVars, themeVars>>
GenerateImage(s) ==
  /\ At(s, "imaging")
  /\ \/ Goto(s, "saving")
     \/ req[s].image = "external"
        /\ req' = [req EXCEPT ![s].pc = "saving", ![s].image = "mock"]
  /\ UNCHANGED <<ledgerVars, themeVars>>

ThemePaid(s) == IF Generator(s) = "external" THEN ThemeCost ELSE 0
ImagePaid(s) == IF req[s].image = "external" THEN ImageCost ELSE 0
TotalCost(s) == ThemePaid(s) + ImagePaid(s)

\* save_generation, the generation and its theme in one transaction.
SaveGeneration(s) ==
  /\ At(s, "saving")
  /\ Charge("generations", req[s].class, TotalCost(s))
  /\ imageSpent' = imageSpent + ImagePaid(s)
  /\ themes' = themes \cup {Theme(s)}
  /\ Goto(s, "saved")
  /\ UNCHANGED usage

AddThemeUsage(s) ==
  /\ At(s, "saved")
  /\ AddUsage(Who[s], TotalCost(s))
  /\ Ends(s)
  /\ UNCHANGED <<cost, themeVars>>

ThemePhases == {"asked", "reserved", "generating", "imaging", "saving", "saved"}

\* A statement, a provider or the store fails, or the request is cancelled.
ThemeFails(s) ==
  /\ req[s].pc \in ThemePhases
  /\ Ends(s)
  /\ UNCHANGED <<ledgerVars, themeVars>>

ThemeNext(s) ==
  \/ AskTheme(s) \/ ReserveDailyRequest(s) \/ FindCached(s)
  \/ ChooseImages(s) \/ GenerateImage(s)
  \/ SaveGeneration(s) \/ AddThemeUsage(s)
  \/ ThemeFails(s)

--------------------------------------------------------------------------------
ThemeTypeOK ==
  /\ themes \subseteq [of : Subjects, generator : {"local", "external"}]
  /\ imageSpent \in Nat
  /\ \A s \in Sessions :
       /\ req[s].pc \in ThemePhases => req[s].class \in Classes
       /\ req[s].pc \in {"saving", "saved"} => req[s].image \in {"external", "mock"}

\* docs/phase-3.5-architecture.md:44: from 80 % of the month's image budget on no
\* external image is drawn.  The check reads what is recorded, so the requests
\* at work may each add one more, and no others.
ImageBudgetOvershoot ==
  imageSpent > 0 => 10 * imageSpent < 8 * ImageBudget + 10 * ImageCost * Cardinality(Sessions)
================================================================================
