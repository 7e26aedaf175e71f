------------------------------ MODULE Commands ------------------------------
(***************************************************************************)
(* The commands and pages that share no state with each other: images      *)
(* prune, document-sorter, the GUI's volume pages, fleet-status, survey,   *)
(* find-recipe, the storage broker, gui serve and stop, the redundancy     *)
(* report, find-duplicates and the plan of a sweep.  A behaviour is one of *)
(* any of them, with everything that goes on around it; the others rest as *)
(* they began.                                                             *)
(***************************************************************************)
EXTENDS Images, DocumentPipeline, Volumes, Observe, Survey, Recipe, Broker,
        Gui, Redundancy, Duplicates, PlanSweep

VARIABLE focus   \* the part that the behaviour is about

vars == <<imageVars, docVars, volVars, fleetVars, surveyVars, recipeVars, brokerVars,
          guiVars, redundancyVars, duplicateVars, planVars, focus>>

TypeOK == /\ ImageTypes /\ DocTypes /\ VolTypes /\ FleetTypes
          /\ SurveyTypes /\ RecipeTypes /\ BrokerTypes
          /\ GuiTypes /\ RedundancyTypes /\ DuplicateTypes /\ PlanTypes

(* A part that the behaviour is not about rests in one of its initial states. *)
Init ==
  /\ focus \in {"images", "documents", "volumes", "fleet", "survey", "recipe", "broker",
               "gui", "redundancy", "duplicates", "plan"}
  /\ ImageInit /\ VolInit /\ FleetInit /\ GuiInit
  /\ DocInit /\ (focus # "documents" => near)
  /\ SurveyInit /\ (focus # "survey" => attached = {})
  /\ RecipeInit
  /\ focus # "recipe" => /\ candidate.is = "absent" /\ recipes = {}
                         /\ supplied = "none" /\ bound = RootLevel
  /\ BrokerInit /\ (focus # "broker" => policy = CHOOSE p \in Policies : TRUE)
  /\ RedundancyInit /\ (focus # "redundancy" => table = CHOOSE t \in Tables : TRUE)
  /\ DuplicateInit /\ (focus # "duplicates" => Present = {})
  /\ PlanInit /\ (focus # "plan" => \A n \in Nodes : is[n] = "gone")

Rotating ==
  /\ focus = "images" /\ ImageNext
  /\ UNCHANGED <<docVars, volVars, fleetVars, surveyVars, recipeVars,
                 brokerVars, guiVars, redundancyVars, duplicateVars, planVars, focus>>
Sorting ==
  /\ focus = "documents" /\ DocNext
  /\ UNCHANGED <<imageVars, volVars, fleetVars, surveyVars, recipeVars,
                 brokerVars, guiVars, redundancyVars, duplicateVars, planVars, focus>>
Browsing ==
  /\ focus = "volumes" /\ VolNext
  /\ UNCHANGED <<imageVars, docVars, fleetVars, surveyVars, recipeVars,
                 brokerVars, guiVars, redundancyVars, duplicateVars, planVars, focus>>
Watching ==
  /\ focus = "fleet" /\ FleetNext
  /\ UNCHANGED <<imageVars, docVars, volVars, surveyVars, recipeVars,
                 brokerVars, guiVars, redundancyVars, duplicateVars, planVars, focus>>
Surveying ==
  /\ focus = "survey" /\ SurveyNext
  /\ UNCHANGED <<imageVars, docVars, volVars, fleetVars, recipeVars,
                 brokerVars, guiVars, redundancyVars, duplicateVars, planVars, focus>>
Finding ==
  /\ focus = "recipe" /\ RecipeNext
  /\ UNCHANGED <<imageVars, docVars, volVars, fleetVars, surveyVars,
                 brokerVars, guiVars, redundancyVars, duplicateVars, planVars, focus>>
Brokering ==
  /\ focus = "broker" /\ BrokerNext
  /\ UNCHANGED <<imageVars, docVars, volVars, fleetVars, surveyVars,
                 recipeVars, guiVars, redundancyVars, duplicateVars, planVars, focus>>
Serving ==
  /\ focus = "gui" /\ GuiNext
  /\ UNCHANGED <<imageVars, docVars, volVars, fleetVars, surveyVars,
                 recipeVars, brokerVars, redundancyVars, duplicateVars, planVars, focus>>
Assessing ==
  /\ focus = "redundancy" /\ RedundancyNext
  /\ UNCHANGED <<imageVars, docVars, volVars, fleetVars, surveyVars,
                 recipeVars, brokerVars, guiVars, duplicateVars, planVars, focus>>
Comparing ==
  /\ focus = "duplicates" /\ DuplicateNext
  /\ UNCHANGED <<imageVars, docVars, volVars, fleetVars, surveyVars,
                 recipeVars, brokerVars, guiVars, redundancyVars, planVars, focus>>
Planning ==
  /\ focus = "plan" /\ PlanNext
  /\ UNCHANGED <<imageVars, docVars, volVars, fleetVars, surveyVars,
                 recipeVars, brokerVars, guiVars, redundancyVars, duplicateVars, focus>>

Next == \/ Rotating \/ Sorting \/ Browsing \/ Watching \/ Surveying
        \/ Finding \/ Brokering \/ Serving \/ Assessing \/ Comparing
        \/ Planning

(* The server's threads run, in behaviours about them: the fairness of        *)
(* Volumes.                                                                  *)
Spec == Init /\ [][Next]_vars /\ \A w \in Workers : WF_volVars(focus = "volumes" /\ PageStep(w))
=============================================================================
