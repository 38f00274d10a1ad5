------------------------------- MODULE MCViews -------------------------------
(***************************************************************************)
(* The tour, the palette and the chat, one at a time.  They have no        *)
(* variable in common, and each property speaks of one of them: what one   *)
(* does, whatever the others do meanwhile, it does alone.                  *)
(***************************************************************************)
EXTENDS Onboarding, Palette, AiChat

\* The five steps of onboarding-steps.
MCTarget ==
  [step \in 0 .. 4 |->
     CASE step = 0 -> "none" [] step = 2 -> "tables" [] step = 3 -> "ai"
       [] OTHER -> "data-products"]

\* Three queries, finding three products, one and none.
MCQueries == 1 .. 3
MCCount == <<3, 1, 0>>

VARIABLE view

TourStep == Next /\ UNCHANGED <<paletteVars, chatVars>>
PaletteStep == PaletteNext /\ UNCHANGED <<vars, chatVars>>
ChatStep == ChatNext /\ UNCHANGED <<vars, paletteVars>>

ViewsInit ==
  /\ view \in {"tour", "palette", "chat"}
  /\ Init /\ PaletteInit /\ ChatInit
  /\ view # "tour" => address = Home /\ ~stored

ViewsNext ==
  \/ view = "tour" /\ TourStep /\ UNCHANGED view
  \/ view = "palette" /\ PaletteStep /\ UNCHANGED view
  \/ view = "chat" /\ ChatStep /\ UNCHANGED view

ViewsSpec ==
  /\ ViewsInit /\ [][ViewsNext]_<<vars, paletteVars, chatVars, view>>
  /\ WF_chatVars(Server)
=============================================================================
