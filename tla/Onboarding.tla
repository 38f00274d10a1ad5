----------------------------- MODULE Onboarding ------------------------------
(***************************************************************************)
(* The guided tour: onboarding-store and OnboardingOverlay, over the tabs  *)
(* of Navigation.  It starts by itself for a user who has not seen it to   *)
(* its end, each step shows its tab, and it leaves with an animation.  The *)
(* overlay hides the page but does not keep it still: the browser's        *)
(* history, the keyboard's focus and the palette above it work on.         *)
(*                                                                         *)
(* A handler, the render it causes and the effects of that render are one  *)
(* action: a store's change is rendered before the next event is taken.    *)
(***************************************************************************)
EXTENDS Integers, Navigation

CONSTANTS
  Target,     \* [step -> navigateTo, or NoTab]
  NoTab,
  LastStep,
  Persistent  \* whether localStorage works

ASSUME TourAssumption ==
  /\ LastStep \in Nat /\ NoTab \notin Tabs
  /\ Target \in [0 .. LastStep -> Tabs \cup {NoTab}]
  /\ Persistent \in BOOLEAN

VARIABLES
  user,         \* the auth store has a user
  isActive, isExiting, currentStep, hasCompleted,
  stored,       \* localStorage holds ONBOARDING_VERSION
  paletteOpen,  \* the command palette is open, with a result highlighted
  strayed,      \* (history) the tab was changed under the step on display
  finished      \* (history) the tour was seen to its end

tourVars == <<isActive, isExiting, currentStep>>
doneVars == <<hasCompleted, stored, finished>>
vars == <<navVars, user, tourVars, doneVars, paletteOpen, strayed>>

Steps == 0 .. LastStep

TypeOK ==
  /\ NavTypeOK
  /\ user \in BOOLEAN /\ isActive \in BOOLEAN /\ isExiting \in BOOLEAN
  /\ isExiting => isActive
  /\ currentStep \in Steps
  /\ hasCompleted \in BOOLEAN /\ stored \in BOOLEAN /\ finished \in BOOLEAN
  /\ paletteOpen \in BOOLEAN /\ strayed \in BOOLEAN

\* A load of the page: readCompleted.
Fresh(completed) ==
  /\ user = FALSE /\ isActive = FALSE /\ isExiting = FALSE /\ currentStep = 0
  /\ hasCompleted = completed /\ paletteOpen = FALSE /\ strayed = FALSE

Init ==
  /\ NavInit /\ finished = FALSE
  /\ stored \in IF Persistent THEN BOOLEAN ELSE {FALSE}
  /\ Fresh(stored)

-----------------------------------------------------------------------------
(* The store, and the effect that navigates. *)

\* What the effect depends on.
Shown(active, exiting, step) == <<active, exiting, Target[step]>>

\* The new state, and the tab when the effect runs.
Tour(active, exiting, step) ==
  /\ isActive' = active /\ isExiting' = exiting /\ currentStep' = step
  /\ IF /\ Shown(active, exiting, step) # Shown(isActive, isExiting, currentStep)
        /\ active /\ ~exiting /\ Target[step] # NoTab
     THEN setActiveTab(Target[step]) /\ strayed' = FALSE
     ELSE UNCHANGED <<navVars, strayed>>

startOnboarding == Tour(TRUE, FALSE, 0)

\* Also completeOnboarding, which does the same.
beginExit == Tour(isActive, TRUE, currentStep)

nextStep ==
  IF currentStep >= LastStep THEN beginExit
  ELSE Tour(isActive, isExiting, currentStep + 1)

prevStep ==
  Tour(isActive, isExiting, IF currentStep > 0 THEN currentStep - 1 ELSE 0)

goToStep(step) == Tour(isActive, isExiting, step)

\* A plausible bug: only the store learns that the tour was seen.
finalizeExitUnsaved ==
  /\ Tour(FALSE, FALSE, currentStep)
  /\ hasCompleted' = TRUE /\ finished' = TRUE
  /\ UNCHANGED stored

\* persistCompleted does nothing where localStorage does not work.
finalizeExit ==
  /\ Tour(FALSE, FALSE, currentStep)
  /\ hasCompleted' = TRUE /\ finished' = TRUE
  /\ stored' = (stored \/ Persistent)

-----------------------------------------------------------------------------
(* Effects and events. *)

UserKnown ==
  /\ ~user /\ user' = TRUE
  /\ UNCHANGED <<navVars, tourVars, doneVars, paletteOpen, strayed>>

\* The first visit.
AutoStart ==
  /\ user /\ ~hasCompleted /\ ~isActive
  /\ startOnboarding
  /\ UNCHANGED <<user, doneVars, paletteOpen>>

\* "Restart tour" of the sidebar; by keyboard also from beneath the overlay.
Restart ==
  /\ startOnboarding
  /\ UNCHANGED <<user, doneVars, paletteOpen>>

Touring == isActive /\ ~isExiting

\* Right arrow, or "Continue", or "Launch Command Center".
Forward == Touring /\ nextStep /\ UNCHANGED <<user, doneVars, paletteOpen>>

\* Left arrow, or "Previous".
Back == Touring /\ prevStep /\ UNCHANGED <<user, doneVars, paletteOpen>>

Dot(step) ==
  Touring /\ goToStep(step) /\ UNCHANGED <<user, doneVars, paletteOpen>>

Skip == Touring /\ beginExit /\ UNCHANGED <<user, doneVars, paletteOpen>>

\* The end of the animation onboarding-shutdown.
ShutdownEnd == isExiting /\ finalizeExit /\ UNCHANGED <<user, paletteOpen>>

-----------------------------------------------------------------------------
(* What goes on beneath and above the overlay. *)

\* Ctrl+K opens and closes the palette.
TogglePalette ==
  /\ paletteOpen' = ~paletteOpen
  /\ UNCHANGED <<navVars, user, tourVars, doneVars, strayed>>

\* Escape is heard by both.
Escape ==
  /\ paletteOpen /\ paletteOpen' = FALSE
  /\ IF Touring THEN beginExit ELSE UNCHANGED <<navVars, tourVars, strayed>>
  /\ UNCHANGED <<user, doneVars>>

\* A result is clicked, or taken by Enter with no tour to hear it:
\* selectResult.
PickByMouse ==
  /\ paletteOpen /\ paletteOpen' = FALSE
  /\ setActiveTab(Home) /\ strayed' = TRUE
  /\ UNCHANGED <<user, tourVars, doneVars>>

\* Enter is heard by both: the result is shown on its tab, then the tour goes
\* on and may change the tab again.
PickByEnter ==
  /\ paletteOpen /\ paletteOpen' = FALSE /\ Touring
  /\ IF currentStep >= LastStep
     THEN /\ setActiveTab(Home) /\ strayed' = TRUE
          /\ isExiting' = TRUE /\ UNCHANGED <<isActive, currentStep>>
     ELSE LET step == currentStep + 1
              tab == Target[step]
              goes == tab \notin {NoTab, Target[currentStep]}
          IN /\ currentStep' = step /\ UNCHANGED <<isActive, isExiting>>
             /\ activeTab' = IF goes THEN tab ELSE Home
             /\ address' = activeTab'
             /\ announced' = (announced \/ address # Home \/ (goes /\ tab # Home))
             /\ strayed' = ~goes
  /\ UNCHANGED <<user, doneVars>>

Sidebar(tab) ==
  /\ setActiveTab(tab) /\ strayed' = TRUE
  /\ UNCHANGED <<user, tourVars, doneVars, paletteOpen>>

History ==
  /\ Browse /\ strayed' = TRUE
  /\ UNCHANGED <<user, tourVars, doneVars, paletteOpen>>

Listen ==
  /\ HashChange
  /\ UNCHANGED <<user, tourVars, doneVars, paletteOpen, strayed>>

\* The page is loaded anew, on the tab that its address names.
ReloadPage ==
  /\ user' = FALSE /\ isActive' = FALSE /\ isExiting' = FALSE /\ currentStep' = 0
  /\ hasCompleted' = stored /\ paletteOpen' = FALSE /\ strayed' = FALSE
  /\ activeTab' = parseHash(address) /\ announced' = FALSE
  /\ UNCHANGED <<address, stored, finished>>

-----------------------------------------------------------------------------
Next ==
  \/ UserKnown \/ AutoStart \/ Restart \/ Forward \/ Back \/ Skip \/ ShutdownEnd
  \/ TogglePalette \/ Escape \/ PickByMouse \/ PickByEnter
  \/ History \/ Listen \/ ReloadPage
  \/ \E step \in Steps : Dot(step)
  \/ \E tab \in Tabs : Sidebar(tab)

Spec == Init /\ [][Next]_vars

-----------------------------------------------------------------------------
(* Properties. *)

\* A step is shown on its tab, whatever hashchange events were still queued
\* when it came up: only the user's own history, sidebar or palette leads away.
StepOnItsTab ==
  Touring /\ Target[currentStep] # NoTab /\ ~strayed
    => activeTab = Target[currentStep] /\ address = activeTab

\* A tour seen to its end does not begin by itself again, in this load of the
\* page or in a later one, where localStorage works.
SeenOnce == finished /\ Persistent => hasCompleted

\* With what makes them inductive: what was seen is also saved, where it can be.
IInv ==
  /\ TypeOK
  /\ StepOnItsTab
  /\ finished /\ Persistent => hasCompleted /\ stored
=============================================================================
