----------------------------- MODULE ViewProofs -----------------------------
(***************************************************************************)
(* Theorems about three of the views.  Of the tour (Onboarding), for any   *)
(* steps and any tabs: its types, that a step is shown on its tab, and     *)
(* that a tour seen to its end is not begun again by itself.  Of the       *)
(* command palette (Palette), for any queries and any number of requests:  *)
(* its types, that the list answers the query in the box, and that what is *)
(* highlighted is on the list.  Of the chat (AiChat), for any number of    *)
(* prompts and of clearings: its types, that each question is answered     *)
(* once, and that questions and answers alternate.                         *)
(***************************************************************************)
EXTENDS Onboarding, Palette, AiChat, SequenceTheorems, TLAPS

-----------------------------------------------------------------------------
(* THE TOUR                                                                *)

-----------------------------------------------------------------------------
(* The store's operations                                                  *)

\* Going to a step, however it is reached, shows it on its tab.
LEMMA TourStep ==
    ASSUME TypeOK, StepOnItsTab,
           NEW active \in BOOLEAN, NEW exiting \in BOOLEAN, NEW step \in Steps,
           exiting => active,
           Tour(active, exiting, step)
    PROVE  /\ NavTypeOK' /\ strayed' \in BOOLEAN
           /\ isActive' = active /\ isExiting' = exiting /\ currentStep' = step
           /\ StepOnItsTab'
  <1> USE TourAssumption, TabsAssumption
  <1>1. /\ isActive' = active /\ isExiting' = exiting /\ currentStep' = step
        /\ Target[step] \in Tabs \cup {NoTab}
    BY DEF Tour, Steps
  <1>2. CASE UNCHANGED <<navVars, strayed>>
    <2>1. NavTypeOK' /\ strayed' \in BOOLEAN
      BY <1>2 DEF TypeOK, NavTypeOK, navVars
    <2>2. CASE Shown(active, exiting, step) = Shown(isActive, isExiting, currentStep)
      BY <1>1, <1>2, <2>1, <2>2 DEF StepOnItsTab, Touring, Shown, navVars
    <2>3. CASE ~(active /\ ~exiting /\ Target[step] # NoTab)
      BY <1>1, <2>1, <2>3 DEF StepOnItsTab, Touring
    <2>4. CASE setActiveTab(Target[step]) /\ strayed' = FALSE
      BY <1>1, <2>1, <2>4 DEF StepOnItsTab, setActiveTab, SetAddress
    <2>5. QED
      BY <2>2, <2>3, <2>4 DEF Tour
  <1>3. CASE setActiveTab(Target[step]) /\ Target[step] # NoTab /\ strayed' = FALSE
    BY <1>1, <1>3 DEF StepOnItsTab, TypeOK, NavTypeOK, Addresses, setActiveTab, SetAddress
  <1>4. QED
    BY <1>2, <1>3 DEF Tour

\* A step to another, or the begin of the exit.
LEMMA StepOperations ==
    ASSUME TypeOK, StepOnItsTab, NEW target \in Steps,
           \/ startOnboarding
           \/ Touring /\ (nextStep \/ prevStep \/ goToStep(target) \/ beginExit)
    PROVE  /\ NavTypeOK' /\ strayed' \in BOOLEAN
           /\ isActive' = TRUE /\ isExiting' \in BOOLEAN /\ currentStep' \in Steps
           /\ StepOnItsTab'
  <1> USE TourAssumption
  <1>1. \E step \in Steps : Tour(TRUE, FALSE, step) \/ Tour(TRUE, TRUE, step)
    <2>1. CASE startOnboarding
      <3>1. 0 \in Steps
        BY DEF Steps
      <3>2. QED
        BY <2>1, <3>1, Zenon DEF startOnboarding
    <2>2. ASSUME Touring
          PROVE  isActive = TRUE /\ isExiting = FALSE /\ currentStep \in 0..LastStep
      BY <2>2 DEF Touring, TypeOK, Steps
    <2>3. CASE Touring /\ nextStep
      <3>1. CASE currentStep >= LastStep
        <4>1. Tour(isActive, TRUE, currentStep) /\ currentStep \in Steps
          BY <2>2, <2>3, <3>1 DEF nextStep, beginExit, Steps
        <4>2. isActive = TRUE
          BY <2>2, <2>3
        <4>3. QED
          BY <4>1, <4>2, Zenon
      <3>2. CASE ~(currentStep >= LastStep)
        <4>1. Tour(isActive, isExiting, currentStep + 1)
          BY <2>3, <3>2, Zenon DEF nextStep
        <4>2. isActive = TRUE /\ isExiting = FALSE
          BY <2>2, <2>3
        <4>3. currentStep + 1 \in Steps
          BY <2>2, <2>3, <3>2 DEF Steps
        <4>4. QED
          BY <4>1, <4>2, <4>3, Zenon
      <3>3. QED
        BY <3>1, <3>2
    <2>4. CASE Touring /\ prevStep
      <3>1. PICK step \in Steps : Tour(isActive, isExiting, step)
        <4>1. (IF currentStep > 0 THEN currentStep - 1 ELSE 0) \in Steps
          BY <2>2, <2>4 DEF Steps
        <4>2. QED
          BY <2>4, <4>1, Zenon DEF prevStep
      <3>2. isActive = TRUE /\ isExiting = FALSE
        BY <2>2, <2>4
      <3>3. QED
        BY <3>1, <3>2, Zenon
    <2>5. CASE Touring /\ (goToStep(target) \/ beginExit)
      <3>1. \/ Tour(isActive, isExiting, target)
            \/ Tour(isActive, TRUE, currentStep) /\ currentStep \in Steps
        BY <2>2, <2>5 DEF goToStep, beginExit, Steps
      <3>2. isActive = TRUE /\ isExiting = FALSE
        BY <2>2, <2>5
      <3>3. QED
        BY <3>1, <3>2, Zenon
    <2>6. QED
      BY <2>1, <2>3, <2>4, <2>5
  <1>2. QED
    BY <1>1, TourStep

-----------------------------------------------------------------------------
(* Invariance                                                              *)

LEMMA InitIInv == Init => IInv
  <1> SUFFICES ASSUME Init PROVE IInv
    OBVIOUS
  <1> USE TourAssumption, TabsAssumption
  <1>1. NavTypeOK
    BY DEF Init, NavInit, NavTypeOK, Addresses, parseHash
  <1>2. /\ stored \in BOOLEAN /\ hasCompleted \in BOOLEAN /\ finished = FALSE
        /\ user = FALSE /\ isActive = FALSE /\ isExiting = FALSE /\ currentStep = 0
        /\ paletteOpen = FALSE /\ strayed = FALSE
    <2>1. stored \in BOOLEAN
      <3>1. CASE Persistent
        BY <3>1 DEF Init
      <3>2. CASE ~Persistent
        BY <3>2 DEF Init
      <3>3. QED
        BY <3>1, <3>2
    <2>2. QED
      BY <2>1 DEF Init, Fresh
  <1>3. TypeOK
    <2>1. 0 \in Steps
      BY DEF Steps
    <2>2. QED
      BY <1>1, <1>2, <2>1, Zenon DEF TypeOK
  <1>4. QED
    BY <1>2, <1>3 DEF IInv, StepOnItsTab, Touring

\* The user, the tour's own buttons and keys, and the first visit.
LEMMA TourActions ==
    ASSUME IInv,
           \/ AutoStart \/ Restart \/ Forward \/ Back \/ Skip
           \/ \E step \in Steps : Dot(step)
    PROVE  IInv'
  <1>1. PICK target \in Steps :
          \/ startOnboarding
          \/ Touring /\ (nextStep \/ prevStep \/ goToStep(target) \/ beginExit)
    <2>1. 0 \in Steps
      BY TourAssumption DEF Steps
    <2>2. QED
      BY <2>1 DEF AutoStart, Restart, Forward, Back, Skip, Dot
  <1>2. /\ NavTypeOK' /\ strayed' \in BOOLEAN
        /\ isActive' = TRUE /\ isExiting' \in BOOLEAN /\ currentStep' \in Steps
        /\ StepOnItsTab'
    BY <1>1, StepOperations DEF IInv
  <1>3. UNCHANGED <<user, doneVars, paletteOpen>>
    BY DEF AutoStart, Restart, Forward, Back, Skip, Dot
  <1>4. QED
    BY <1>2, <1>3 DEF IInv, TypeOK, doneVars

LEMMA ExitActions ==
    ASSUME IInv, ShutdownEnd
    PROVE  IInv'
  <1>1. /\ NavTypeOK' /\ strayed' \in BOOLEAN /\ StepOnItsTab'
        /\ isActive' = FALSE /\ isExiting' = FALSE /\ currentStep' = currentStep
    <2>1. Tour(FALSE, FALSE, currentStep) /\ currentStep \in Steps
      BY DEF ShutdownEnd, finalizeExit, IInv, TypeOK
    <2>2. QED
      BY <2>1, TourStep DEF IInv
  <1>2. /\ hasCompleted' = TRUE /\ finished' = TRUE /\ UNCHANGED <<user, paletteOpen>>
        /\ stored' = (stored \/ Persistent)
    BY DEF ShutdownEnd, finalizeExit
  <1>3. QED
    BY <1>1, <1>2, TourAssumption DEF IInv, TypeOK

\* The palette above the tour hears the keys first.
LEMMA PaletteActions ==
    ASSUME IInv, TogglePalette \/ Escape \/ PickByMouse \/ PickByEnter
    PROVE  IInv'
  <1> USE TourAssumption, TabsAssumption
  <1>1. CASE TogglePalette
    BY <1>1 DEF TogglePalette, IInv, TypeOK, NavTypeOK, StepOnItsTab, Touring,
                navVars, tourVars, doneVars
  <1>2. CASE Escape
    <2>1. CASE Touring
      <3>1. /\ NavTypeOK' /\ strayed' \in BOOLEAN
            /\ isActive' = TRUE /\ isExiting' \in BOOLEAN /\ currentStep' \in Steps
            /\ StepOnItsTab'
        <4>1. Touring /\ beginExit /\ 0 \in Steps
          BY <1>2, <2>1 DEF Escape, Steps
        <4>2. QED
          BY <4>1, StepOperations DEF IInv
      <3>2. QED
        BY <1>2, <3>1 DEF Escape, IInv, TypeOK, doneVars
    <2>2. CASE ~Touring
      BY <1>2, <2>2 DEF Escape, IInv, TypeOK, NavTypeOK, StepOnItsTab, Touring,
                        navVars, tourVars, doneVars
    <2>3. QED
      BY <2>1, <2>2
  <1>3. CASE PickByMouse
    BY <1>3 DEF PickByMouse, IInv, TypeOK, NavTypeOK, Addresses, StepOnItsTab,
                setActiveTab, SetAddress, tourVars, doneVars
  <1>4. CASE PickByEnter
    <2>1. CASE currentStep >= LastStep
      BY <1>4, <2>1 DEF PickByEnter, IInv, TypeOK, NavTypeOK, Addresses, StepOnItsTab,
                        Touring, setActiveTab, SetAddress, doneVars
    <2>2. CASE ~(currentStep >= LastStep)
      <3> DEFINE tab == Target[currentStep + 1]
                 goes == tab \notin {NoTab, Target[currentStep]}
      <3>1. currentStep + 1 \in Steps /\ tab \in Tabs \cup {NoTab}
        BY <2>2 DEF IInv, TypeOK, Steps
      <3>2. /\ currentStep' = currentStep + 1 /\ UNCHANGED <<isActive, isExiting>>
            /\ activeTab' = (IF goes THEN tab ELSE Home) /\ address' = activeTab'
            /\ announced' = (announced \/ address # Home \/ (goes /\ tab # Home))
            /\ strayed' = ~goes
            /\ paletteOpen' = FALSE /\ UNCHANGED <<user, doneVars>>
        BY <1>4, <2>2 DEF PickByEnter
      <3>3. NavTypeOK'
        BY <3>1, <3>2 DEF IInv, TypeOK, NavTypeOK, Addresses
      <3>4. StepOnItsTab'
        BY <3>1, <3>2 DEF StepOnItsTab
      <3>5. QED
        BY <3>1, <3>2, <3>3, <3>4 DEF IInv, TypeOK, doneVars
    <2>3. QED
      BY <2>1, <2>2
  <1>5. QED
    BY <1>1, <1>2, <1>3, <1>4

\* What goes on beneath the overlay: the listener finds the address of the step.
LEMMA PageActions ==
    ASSUME IInv,
           \/ UserKnown \/ History \/ Listen \/ ReloadPage
           \/ \E tab \in Tabs : Sidebar(tab)
           \/ UNCHANGED vars
    PROVE  IInv'
  <1> USE TourAssumption, TabsAssumption
  <1>1. CASE UserKnown \/ UNCHANGED vars
    <2>1. /\ UNCHANGED <<navVars, tourVars, doneVars, paletteOpen, strayed>>
          /\ user' = TRUE \/ user' = user
      BY <1>1 DEF UserKnown, vars
    <2>2. NavTypeOK' /\ StepOnItsTab'
      BY <2>1 DEF IInv, TypeOK, NavTypeOK, StepOnItsTab, Touring, navVars, tourVars
    <2>3. TypeOK'
      BY <2>1, <2>2 DEF IInv, TypeOK, tourVars, doneVars
    <2>4. QED
      BY <2>1, <2>2, <2>3 DEF IInv, doneVars
  <1>2. CASE History
    BY <1>2 DEF History, Browse, SetAddress, IInv, TypeOK, NavTypeOK, Addresses,
                StepOnItsTab, tourVars, doneVars
  <1>3. CASE Listen
    <2>1. /\ parseHash(address) \in Tabs
          /\ address \in Tabs => parseHash(address) = address
      BY DEF parseHash
    <2>2. NavTypeOK'
      BY <1>3, <2>1 DEF Listen, HashChange, IInv, TypeOK, NavTypeOK, Addresses
    <2>3. StepOnItsTab'
      <3>1. activeTab \in Tabs
        BY DEF IInv, TypeOK, NavTypeOK
      <3>2. QED
        BY <1>3, <2>1, <3>1 DEF Listen, HashChange, IInv, StepOnItsTab, Touring, tourVars
    <2>4. QED
      BY <1>3, <2>2, <2>3 DEF Listen, IInv, TypeOK, tourVars, doneVars
  <1>4. CASE ReloadPage
    <2>1. NavTypeOK'
      BY <1>4 DEF ReloadPage, IInv, TypeOK, NavTypeOK, Addresses, parseHash
    <2>2. TypeOK'
      <3>1. 0 \in Steps
        BY DEF Steps
      <3>2. QED
        BY <1>4, <2>1, <3>1, Zenon DEF ReloadPage, IInv, TypeOK
    <2>3. StepOnItsTab'
      BY <1>4 DEF ReloadPage, StepOnItsTab, Touring
    <2>4. QED
      BY <1>4, <2>2, <2>3 DEF ReloadPage, IInv
  <1>5. CASE \E tab \in Tabs : Sidebar(tab)
    BY <1>5 DEF Sidebar, setActiveTab, SetAddress, IInv, TypeOK, NavTypeOK, Addresses,
                StepOnItsTab, tourVars, doneVars
  <1>6. QED
    BY <1>1, <1>2, <1>3, <1>4, <1>5

LEMMA NextIInv == IInv /\ [Next]_vars => IInv'
  BY TourActions, ExitActions, PaletteActions, PageActions DEF Next

\* The types, the step on its tab, and the flag saved with what was seen.
THEOREM Invariance == Spec => []IInv
  BY InitIInv, NextIInv, PTL DEF Spec

\* Every variable keeps its type; the last animation is of an active tour.
THEOREM TypeCorrect == Spec => []TypeOK
  <1>1. IInv => TypeOK
    BY DEF IInv
  <1>2. QED
    BY <1>1, Invariance, PTL

\* Whatever tour is configured, and whatever keys, hashchange events and
\* reloads come between: a step is shown on its tab unless the user left it.
THEOREM StepsOnTheirTabs == Spec => []StepOnItsTab
  <1>1. IInv => StepOnItsTab
    BY DEF IInv
  <1>2. QED
    BY <1>1, Invariance, PTL

\* A tour seen to its end is not offered again, over any number of reloads.
THEOREM TourSeenOnce == Spec => []SeenOnce
  <1>1. IInv => SeenOnce
    BY DEF IInv, SeenOnce
  <1>2. QED
    BY <1>1, Invariance, PTL

-----------------------------------------------------------------------------
(* THE COMMAND PALETTE                                                     *)

-----------------------------------------------------------------------------
(* Requests                                                                *)

\* A sequence without its i-th element: what was before it, then what was after.
LEMMA Removal ==
    ASSUME NEW S, NEW seq \in Seq(S), NEW i \in 1 .. Len(seq)
    PROVE  /\ RemoveAt(seq, i) \in Seq(S)
           /\ Len(RemoveAt(seq, i)) = Len(seq) - 1
           /\ \A j \in 1 .. i - 1 : RemoveAt(seq, i)[j] = seq[j]
           /\ \A j \in i .. Len(seq) - 1 : RemoveAt(seq, i)[j] = seq[j + 1]
  <1> DEFINE n == Len(seq)
             front == SubSeq(seq, 1, i - 1)
             back == SubSeq(seq, i + 1, n)
  <1>1. n \in Nat /\ i \in 1 .. n /\ \A j \in 1 .. n : seq[j] \in S
    OBVIOUS
  <1>2. /\ front \in Seq(S) /\ Len(front) = i - 1
        /\ \A j \in 1 .. i - 1 : front[j] = seq[j]
    <2>1. i - 1 \in Int /\ \A j \in 1 .. i - 1 : seq[j] \in S
      BY <1>1
    <2>2. /\ front \in Seq(S) /\ Len(front) = IF 1 <= i - 1 THEN (i - 1) - 1 + 1 ELSE 0
          /\ \A j \in 1 .. (i - 1) - 1 + 1 : front[j] = seq[1 + j - 1]
      BY <2>1, SubSeqProperties
    <2> HIDE DEF front
    <2>3. QED
      BY <1>1, <2>2
  <1>3. /\ back \in Seq(S) /\ Len(back) = n - i
        /\ \A j \in 1 .. n - i : back[j] = seq[i + j]
    <2>1. i + 1 \in Int /\ n \in Int /\ \A j \in i + 1 .. n : seq[j] \in S
      BY <1>1
    <2>2. /\ back \in Seq(S) /\ Len(back) = IF i + 1 <= n THEN n - (i + 1) + 1 ELSE 0
          /\ \A j \in 1 .. n - (i + 1) + 1 : back[j] = seq[(i + 1) + j - 1]
      BY <2>1, SubSeqProperties
    <2> HIDE DEF back
    <2>3. QED
      BY <1>1, <2>2
  <1>4. RemoveAt(seq, i) = front \o back
    BY DEF RemoveAt
  <1> HIDE DEF front, back
  <1>5. /\ front \o back \in Seq(S)
        /\ Len(front \o back) = (i - 1) + (n - i)
        /\ \A j \in 1 .. (i - 1) + (n - i) :
              (front \o back)[j] = IF j <= i - 1 THEN front[j] ELSE back[j - (i - 1)]
    <2>1. /\ front \o back \in Seq(S)
          /\ Len(front \o back) = Len(front) + Len(back)
          /\ \A j \in 1 .. Len(front) + Len(back) :
                (front \o back)[j] = IF j <= Len(front) THEN front[j] ELSE back[j - Len(front)]
      BY <1>2, <1>3, ConcatProperties, Zenon
    <2>2. QED
      BY <1>2, <1>3, <2>1
  <1>6. QED
    <2>1. ASSUME NEW j \in 1 .. i - 1
          PROVE  RemoveAt(seq, i)[j] = seq[j]
      <3>1. j \in 1 .. (i - 1) + (n - i) /\ j <= i - 1
        BY <1>1
      <3>2. (front \o back)[j] = front[j]
        BY <1>5, <3>1
      <3>3. QED
        BY <1>2, <1>4, <3>2
    <2>2. ASSUME NEW j \in i .. n - 1
          PROVE  RemoveAt(seq, i)[j] = seq[j + 1]
      <3> DEFINE k == j - (i - 1)
      <3>1. /\ j \in 1 .. (i - 1) + (n - i) /\ ~(j <= i - 1)
            /\ k \in 1 .. n - i /\ i + k = j + 1
        BY <1>1
      <3>2. (front \o back)[j] = back[k]
        BY <1>5, <3>1
      <3>3. back[k] = seq[i + k]
        BY <1>3, <3>1
      <3>4. QED
        BY <1>4, <3>1, <3>2, <3>3
    <2>3. RemoveAt(seq, i) \in Seq(S) /\ Len(RemoveAt(seq, i)) = n - 1
      BY <1>1, <1>4, <1>5
    <2>4. QED
      BY <2>1, <2>2, <2>3

\* What is left once the i-th request is answered: those after it as they were,
\* the latest still the latest; those before it overtaken.
LEMMA Remaining ==
    ASSUME inFlight \in Seq(Request), NEW i \in DOMAIN inFlight
    PROVE  /\ Without(i) \in Seq(Request)
           /\ Len(Without(i)) = Len(inFlight) - 1
           /\ i < Len(inFlight) => /\ Without(i) # <<>>
                                   /\ Last(Without(i)) = Last(inFlight)
           /\ i = Len(inFlight) =>
                \A j \in DOMAIN Without(i) : Without(i)[j].overtaken
           /\ (\A j \in DOMAIN inFlight : inFlight[j].orphan) =>
                \A j \in DOMAIN Without(i) : Without(i)[j].orphan
           /\ (\A j \in DOMAIN inFlight : inFlight[j].overtaken) =>
                \A j \in DOMAIN Without(i) : Without(i)[j].overtaken
  <1> DEFINE n == Len(inFlight)
             after(r) == [r EXCEPT !.overtaken = TRUE]
             marked == [j \in DOMAIN inFlight |->
                          IF j < i THEN after(inFlight[j]) ELSE inFlight[j]]
  <1>1. /\ n \in Nat /\ DOMAIN inFlight = 1 .. n /\ i \in 1 .. n
        /\ \A j \in 1 .. n : inFlight[j] \in Request
    OBVIOUS
  <1>2. ASSUME NEW r \in Request
        PROVE  after(r) \in Request /\ after(r).overtaken /\ after(r).orphan = r.orphan
    BY DEF Request
  <1> HIDE DEF after
  <1>3. marked \in [1 .. n -> Request]
    BY <1>1, <1>2
  <1>4. marked \in Seq(Request) /\ Len(marked) = n
    BY <1>1, <1>3
  <1>5. /\ \A j \in 1 .. i - 1 : marked[j] = after(inFlight[j])
        /\ \A j \in i .. n : marked[j] = inFlight[j]
    BY <1>1
  <1>6. Without(i) = RemoveAt(marked, i)
    BY DEF Without, after
  <1> HIDE DEF marked
  <1>7. /\ Without(i) \in Seq(Request) /\ Len(Without(i)) = n - 1
        /\ \A j \in 1 .. i - 1 : Without(i)[j] = marked[j]
        /\ \A j \in i .. n - 1 : Without(i)[j] = marked[j + 1]
    <2>1. i \in 1 .. Len(marked)
      BY <1>1, <1>4
    <2>2. /\ RemoveAt(marked, i) \in Seq(Request)
          /\ Len(RemoveAt(marked, i)) = Len(marked) - 1
          /\ \A j \in 1 .. i - 1 : RemoveAt(marked, i)[j] = marked[j]
          /\ \A j \in i .. Len(marked) - 1 : RemoveAt(marked, i)[j] = marked[j + 1]
      BY <1>4, <2>1, Removal, Zenon
    <2>3. QED
      BY <1>4, <1>6, <2>2
  <1>8. /\ DOMAIN Without(i) = 1 .. n - 1
        /\ \A j \in 1 .. i - 1 : Without(i)[j] = after(inFlight[j])
        /\ \A j \in i .. n - 1 : Without(i)[j] = inFlight[j + 1]
    BY <1>1, <1>5, <1>7
  <1>9. ASSUME i < n
        PROVE  Without(i) # <<>> /\ Last(Without(i)) = Last(inFlight)
    BY <1>1, <1>7, <1>8, <1>9 DEF Last
  <1>10. ASSUME NEW j \in 1 .. n - 1
         PROVE  \/ j < i /\ Without(i)[j] = after(inFlight[j]) /\ inFlight[j] \in Request
                \/ i < n /\ j + 1 \in 1 .. n /\ Without(i)[j] = inFlight[j + 1]
    BY <1>1, <1>8
  <1>11. i = n => \A j \in 1 .. n - 1 : Without(i)[j].overtaken
    <2> SUFFICES ASSUME i = n, NEW j \in 1 .. n - 1 PROVE Without(i)[j].overtaken
      OBVIOUS
    <2>1. Without(i)[j] = after(inFlight[j]) /\ inFlight[j] \in Request
      BY <1>1, <1>10
    <2>2. QED
      BY <1>2, <2>1
  <1>12. (\A j \in 1 .. n : inFlight[j].orphan) => \A j \in 1 .. n - 1 : Without(i)[j].orphan
    <2> SUFFICES ASSUME \A j \in 1 .. n : inFlight[j].orphan, NEW j \in 1 .. n - 1
                 PROVE  Without(i)[j].orphan
      OBVIOUS
    <2>1. CASE Without(i)[j] = after(inFlight[j]) /\ inFlight[j] \in Request
      <3>1. j \in 1 .. n
        BY <1>1
      <3>2. inFlight[j].orphan
        BY <3>1
      <3>3. after(inFlight[j]).orphan = inFlight[j].orphan
        BY <1>2, <2>1
      <3>4. QED
        BY <2>1, <3>2, <3>3, Zenon
    <2>2. CASE j + 1 \in 1 .. n /\ Without(i)[j] = inFlight[j + 1]
      BY <2>2
    <2>3. QED
      BY <1>10, <2>1, <2>2
  <1>13. (\A j \in 1 .. n : inFlight[j].overtaken) => \A j \in 1 .. n - 1 : Without(i)[j].overtaken
    <2> SUFFICES ASSUME \A j \in 1 .. n : inFlight[j].overtaken, NEW j \in 1 .. n - 1
                 PROVE  Without(i)[j].overtaken
      OBVIOUS
    <2>1. CASE Without(i)[j] = after(inFlight[j]) /\ inFlight[j] \in Request
      BY <1>2, <2>1
    <2>2. CASE j + 1 \in 1 .. n /\ Without(i)[j] = inFlight[j + 1]
      BY <2>2
    <2>3. QED
      BY <1>10, <2>1, <2>2
  <1>14. QED
    BY <1>1, <1>7, <1>8, <1>9, <1>11, <1>12, <1>13

\* Those under way when the box is emptied, or the palette opened.
LEMMA Orphans ==
    ASSUME inFlight \in Seq(Request)
    PROVE  /\ Orphaned \in Seq(Request) /\ Len(Orphaned) = Len(inFlight)
           /\ \A i \in DOMAIN Orphaned : Orphaned[i].orphan
  <1> DEFINE n == Len(inFlight)
  <1>1. n \in Nat /\ DOMAIN inFlight = 1 .. n /\ \A i \in 1 .. n : inFlight[i] \in Request
    OBVIOUS
  <1>2. \A i \in 1 .. n : [inFlight[i] EXCEPT !.orphan = TRUE] \in Request
    BY <1>1 DEF Request
  <1>3. Orphaned \in [1 .. n -> Request]
    BY <1>1, <1>2 DEF Orphaned
  <1>4. Orphaned \in Seq(Request) /\ Len(Orphaned) = n
    BY <1>1, <1>3
  <1>5. \A i \in 1 .. n : Orphaned[i].orphan
    BY <1>1 DEF Orphaned, Request
  <1>6. QED
    BY <1>1, <1>4, <1>5

\* A list has at most a page of items, and none before the first.
LEMMA ListLength ==
    ASSUME PaletteTypeOK
    PROVE  Length \in 0 .. PageSize
  BY PaletteAssumption DEF PaletteTypeOK, Length, Request

-----------------------------------------------------------------------------
(* The invariant                                                           *)

LEMMA InitPaletteInv == PaletteInit => PaletteInv
  <1> SUFFICES ASSUME PaletteInit PROVE PaletteInv
    OBVIOUS
  <1> USE PaletteAssumption DEF PaletteInit
  <1>1. PaletteTypeOK
    <2>1. results \in [query : {Blank}, orphan : BOOLEAN, overtaken : BOOLEAN]
      BY DEF Nothing
    <2>2. activeIndex \in -1 .. PageSize - 1
      OBVIOUS
    <2>3. inFlight \in Seq(Request) /\ Len(inFlight) <= MaxInFlight
      OBVIOUS
    <2>4. QED
      BY <2>1, <2>2, <2>3 DEF PaletteTypeOK
  <1>2. BlankStartsNothing /\ QueryIsFollowed /\ HighlightListed
    BY DEF BlankStartsNothing, QueryIsFollowed, HighlightListed, Length, Nothing
  <1>3. QED
    BY <1>1, <1>2 DEF PaletteInv

\* Opening, closing, and what is typed.
LEMMA BoxActions ==
    ASSUME PaletteInv,
           \/ Open \/ Dismiss \/ close
           \/ \E q \in Queries \cup {Blank} : Type(q)
    PROVE  PaletteInv'
  <1> USE PaletteAssumption
  <1> PaletteTypeOK
    BY DEF PaletteInv
  <1>1. CASE Open
    <2>1. PaletteTypeOK'
      BY <1>1, Orphans DEF PaletteTypeOK, Open, Nothing
    <2>2. BlankStartsNothing'
      BY <1>1, Orphans DEF PaletteTypeOK, Open, Nothing, BlankStartsNothing
    <2>3. QueryIsFollowed' /\ HighlightListed'
      BY <1>1 DEF Open, Nothing, QueryIsFollowed, HighlightListed, Length
    <2>4. QED
      BY <2>1, <2>2, <2>3 DEF PaletteInv
  <1>2. CASE Dismiss
    <2>1. PaletteTypeOK'
      BY <1>2 DEF PaletteTypeOK, Dismiss
    <2>2. BlankStartsNothing' /\ QueryIsFollowed'
      BY <1>2 DEF Dismiss, BlankStartsNothing, QueryIsFollowed
    <2>3. HighlightListed'
      BY <1>2 DEF Dismiss, PaletteInv, HighlightListed, Length
    <2>4. QED
      BY <2>1, <2>2, <2>3 DEF PaletteInv
  <1>3. CASE close
    <2>1. PaletteTypeOK'
      BY <1>3 DEF PaletteTypeOK, close, Nothing
    <2>2. BlankStartsNothing' /\ QueryIsFollowed'
      BY <1>3 DEF close, BlankStartsNothing, QueryIsFollowed
    <2>3. HighlightListed'
      BY <1>3 DEF close, HighlightListed, Length, Nothing
    <2>4. QED
      BY <2>1, <2>2, <2>3 DEF PaletteInv
  <1>4. ASSUME NEW q \in Queries \cup {Blank}, Type(q)
        PROVE  PaletteInv'
    <2>1. CASE q = Blank
      <3>1. /\ query' = Blank /\ timer' = Blank /\ results' = Nothing
            /\ inFlight' = Orphaned /\ UNCHANGED <<open, activeIndex, loading>>
        BY <1>4, <2>1 DEF Type
      <3>2. PaletteTypeOK'
        BY <3>1, Orphans DEF PaletteTypeOK, Nothing
      <3>3. BlankStartsNothing'
        BY <3>1, Orphans DEF PaletteTypeOK, Nothing, BlankStartsNothing
      <3>4. QueryIsFollowed' /\ HighlightListed'
        BY <3>1 DEF QueryIsFollowed, HighlightListed, Length, Nothing
      <3>5. QED
        BY <3>2, <3>3, <3>4 DEF PaletteInv
    <2>2. CASE q # Blank
      <3>1. /\ query' = q /\ timer' = q
            /\ UNCHANGED <<results, inFlight, open, activeIndex, loading>>
        BY <1>4, <2>2 DEF Type
      <3>2. PaletteTypeOK'
        BY <3>1 DEF PaletteTypeOK
      <3>3. BlankStartsNothing' /\ QueryIsFollowed'
        BY <2>2, <3>1 DEF BlankStartsNothing, QueryIsFollowed
      <3>4. HighlightListed'
        BY <3>1 DEF PaletteInv, HighlightListed, Length
      <3>5. QED
        BY <3>2, <3>3, <3>4 DEF PaletteInv
    <2>3. QED
      BY <2>1, <2>2
  <1>5. QED
    BY <1>1, <1>2, <1>3, <1>4

\* The keys and the mouse move the highlight within the list.
LEMMA HighlightActions ==
    ASSUME PaletteInv,
           ArrowDown \/ ArrowUp \/ \E idx \in Indices : Hover(idx)
    PROVE  PaletteInv'
  <1> USE PaletteAssumption
  <1>1. /\ UNCHANGED <<open, query, results, loading, timer, inFlight>>
        /\ \/ activeIndex' = IF activeIndex + 1 < Length THEN activeIndex + 1 ELSE Length - 1
           \/ activeIndex' = IF activeIndex > 0 THEN activeIndex - 1 ELSE 0
           \/ activeIndex' \in Listed
    BY DEF ArrowDown, ArrowUp, Hover
  <1>2. PaletteTypeOK /\ HighlightListed /\ Length \in 0 .. PageSize /\ Length' = Length
    BY <1>1, ListLength DEF PaletteInv, Length
  <1>3. activeIndex' \in -1 .. PageSize - 1 /\ HighlightListed'
    BY <1>1, <1>2 DEF PaletteTypeOK, HighlightListed, Listed
  <1>4. PaletteTypeOK'
    BY <1>1, <1>2, <1>3 DEF PaletteTypeOK
  <1>5. BlankStartsNothing' /\ QueryIsFollowed'
    BY <1>1 DEF PaletteInv, BlankStartsNothing, QueryIsFollowed
  <1>6. QED
    BY <1>3, <1>4, <1>5 DEF PaletteInv

\* The timer ends: the query becomes the latest request.
LEMMA SearchAction ==
    ASSUME PaletteInv, Search
    PROVE  PaletteInv'
  <1> DEFINE latest == [query |-> timer, orphan |-> FALSE, overtaken |-> FALSE]
  <1>1. /\ timer # Blank /\ timer' = Blank /\ inFlight' = Append(inFlight, latest)
        /\ Len(inFlight) < MaxInFlight /\ loading' = TRUE
        /\ UNCHANGED <<open, query, results, activeIndex>>
    BY DEF Search
  <1>2. PaletteTypeOK /\ latest \in Request /\ latest.query = timer
    BY <1>1 DEF PaletteInv, PaletteTypeOK, Request
  <1> HIDE DEF latest
  <1>3. /\ inFlight' \in Seq(Request) /\ Len(inFlight') = Len(inFlight) + 1
        /\ inFlight' # <<>> /\ Last(inFlight') = latest
    BY <1>1, <1>2 DEF PaletteTypeOK, Last
  <1>4. PaletteTypeOK'
    BY <1>1, <1>2, <1>3, PaletteAssumption DEF PaletteTypeOK
  <1>5. BlankStartsNothing'
    BY <1>1 DEF PaletteInv, BlankStartsNothing
  <1>6. QueryIsFollowed'
    BY <1>1, <1>2, <1>3 DEF PaletteInv, QueryIsFollowed
  <1>7. HighlightListed'
    BY <1>1 DEF PaletteInv, HighlightListed, Length
  <1>8. QED
    BY <1>4, <1>5, <1>6, <1>7 DEF PaletteInv

\* An answer, or a failure, of any request: it is listed from the top, and
\* those sent before it will come after a later one.
LEMMA AnswerAction ==
    ASSUME PaletteInv, NEW i \in DOMAIN inFlight, Answer(i) \/ Fail(i)
    PROVE  PaletteInv'
  <1> USE PaletteAssumption
  <1> DEFINE n == Len(inFlight)
  <1>1. /\ PaletteTypeOK /\ n \in Nat /\ n <= MaxInFlight
        /\ DOMAIN inFlight = 1 .. n /\ i \in 1 .. n /\ inFlight[i] \in Request
    BY DEF PaletteInv, PaletteTypeOK
  <1>2. /\ inFlight' = Without(i) /\ activeIndex' = 0 /\ loading' = FALSE
        /\ UNCHANGED <<open, query, timer>>
        /\ results' = inFlight[i] \/ results' = [inFlight[i] EXCEPT !.query = Blank]
    BY DEF Answer, Fail, Show
  <1>3. /\ results' \in Request \cup [query : {Blank}, orphan : BOOLEAN, overtaken : BOOLEAN]
        /\ results'.query \in {inFlight[i].query, Blank}
        /\ results'.orphan = inFlight[i].orphan /\ results'.overtaken = inFlight[i].overtaken
    BY <1>1, <1>2 DEF Request
  <1>4. /\ inFlight' \in Seq(Request) /\ Len(inFlight') = n - 1
        /\ i < n => inFlight' # <<>> /\ Last(inFlight') = Last(inFlight)
        /\ i = n => \A j \in DOMAIN inFlight' : inFlight'[j].overtaken
        /\ (\A j \in DOMAIN inFlight : inFlight[j].orphan) =>
              \A j \in DOMAIN inFlight' : inFlight'[j].orphan
        /\ (\A j \in DOMAIN inFlight : inFlight[j].overtaken) =>
              \A j \in DOMAIN inFlight' : inFlight'[j].overtaken
    <2>1. inFlight \in Seq(Request)
      BY <1>1 DEF PaletteTypeOK
    <2>2. inFlight' = Without(i)
      BY <1>2
    <2>3. QED
      BY <2>1, <2>2, Remaining, Zenon
  <1>5. PaletteTypeOK'
    <2>1. inFlight' \in Seq(Request) /\ Len(inFlight') <= MaxInFlight
      BY <1>1, <1>4
    <2>2. activeIndex' \in -1 .. PageSize - 1
      BY <1>2
    <2>3. QED
      BY <1>1, <1>2, <1>3, <2>1, <2>2, Zenon DEF PaletteTypeOK
  <1>6. BlankStartsNothing'
    <2> SUFFICES ASSUME open, query = Blank
                 PROVE  /\ timer' = Blank
                        /\ \A j \in DOMAIN inFlight' : inFlight'[j].orphan
                        /\ results'.query = Blank \/ results'.orphan
      BY <1>2, Zenon DEF BlankStartsNothing
    <2>1. timer = Blank /\ \A j \in DOMAIN inFlight : inFlight[j].orphan
      BY DEF PaletteInv, BlankStartsNothing
    <2>2. inFlight[i].orphan
      BY <2>1
    <2>3. QED
      BY <1>2, <1>3, <1>4, <2>1, <2>2, Zenon
  <1>7. QueryIsFollowed'
    <2> SUFFICES ASSUME open, query # Blank
                 PROVE  \/ timer' = query
                        \/ timer' = Blank /\ inFlight' # <<>> /\ Last(inFlight').query = query
                        \/ /\ timer' = Blank
                           /\ \A j \in DOMAIN inFlight' : inFlight'[j].overtaken
                           /\ results'.query \in {query, Blank} \/ results'.overtaken
      BY <1>2, Zenon DEF QueryIsFollowed
    <2>1. CASE timer = query
      BY <1>2, <2>1
    <2>2. CASE timer = Blank /\ inFlight # <<>> /\ Last(inFlight).query = query
      <3>1. CASE i = n
        <4>1. results'.query \in {query, Blank}
          BY <1>1, <1>3, <2>2, <3>1 DEF Last
        <4>2. QED
          BY <1>2, <1>4, <2>2, <3>1, <4>1, Zenon
      <3>2. CASE i < n
        BY <1>2, <1>4, <2>2, <3>2, Zenon
      <3>3. QED
        BY <1>1, <3>1, <3>2
    <2>3. CASE timer = Blank /\ \A j \in DOMAIN inFlight : inFlight[j].overtaken
      <3>1. results'.overtaken
        <4>1. inFlight[i].overtaken
          BY <2>3
        <4>2. QED
          BY <1>3, <4>1, Zenon
      <3>2. QED
        BY <1>2, <1>4, <2>3, <3>1, Zenon
    <2>4. QED
      BY <2>1, <2>2, <2>3 DEF PaletteInv, QueryIsFollowed
  <1>8. HighlightListed'
    <2>1. Length' \in 0 .. PageSize
      BY <1>3 DEF Length, Request
    <2>2. QED
      BY <1>2, <2>1 DEF HighlightListed
  <1>9. QED
    BY <1>5, <1>6, <1>7, <1>8 DEF PaletteInv

LEMMA NextPaletteInv == PaletteInv /\ [PaletteNext]_paletteVars => PaletteInv'
  <1> SUFFICES ASSUME PaletteInv, [PaletteNext]_paletteVars PROVE PaletteInv'
    OBVIOUS
  <1>1. CASE User
    <2>1. CASE \/ Open \/ Dismiss \/ close \/ \E q \in Queries \cup {Blank} : Type(q)
      BY <2>1, BoxActions
    <2>2. CASE ArrowDown \/ ArrowUp \/ \E idx \in Indices : Hover(idx)
      BY <2>2, HighlightActions
    <2>3. QED
      BY <1>1, <2>1, <2>2 DEF User, ClickOutside, Enter, Click
  <1>2. CASE Search
    BY <1>2, SearchAction
  <1>3. CASE Network
    BY <1>3, AnswerAction DEF Network
  <1>4. CASE UNCHANGED paletteVars
    <2>1. PaletteTypeOK'
      BY <1>4 DEF PaletteInv, PaletteTypeOK, paletteVars
    <2>2. BlankStartsNothing' /\ QueryIsFollowed' /\ HighlightListed'
      BY <1>4 DEF PaletteInv, BlankStartsNothing, QueryIsFollowed, HighlightListed,
                  Length, paletteVars
    <2>3. QED
      BY <2>1, <2>2 DEF PaletteInv
  <1>5. QED
    BY <1>1, <1>2, <1>3, <1>4 DEF PaletteNext

\* The types, and where the query in the box is on its way to the list.
THEOREM PaletteInvariance == PaletteSpec => []PaletteInv
  BY InitPaletteInv, NextPaletteInv, PTL DEF PaletteSpec

\* Every variable keeps its type: the highlight never leaves the page of items
\* but by one, to -1.
THEOREM PaletteTypeCorrect == PaletteSpec => []PaletteTypeOK
  <1>1. PaletteInv => PaletteTypeOK
    BY DEF PaletteInv
  <1>2. QED
    BY <1>1, PaletteInvariance, PTL

\* However many requests are under way, answered in whatever order or failed,
\* and however often the palette is closed and opened over them: once they are
\* through, the list answers the query in the box, or is empty for a failure, or
\* a later request was answered first; and an empty box lists only answers sent
\* for before.
THEOREM ListAnswers == PaletteSpec => []ListAnswersQuery
  <1>1. PaletteInv => ListAnswersQuery
    BY DEF PaletteInv, BlankStartsNothing, QueryIsFollowed, ListAnswersQuery
  <1>2. QED
    BY <1>1, PaletteInvariance, PTL

\* Whatever list comes under the highlight, the highlighted item is on it.
THEOREM HighlightStays == PaletteSpec => []HighlightListed
  <1>1. PaletteInv => HighlightListed
    BY DEF PaletteInv
  <1>2. QED
    BY <1>1, PaletteInvariance, PTL

-----------------------------------------------------------------------------
(* THE CHAT                                                                *)

-----------------------------------------------------------------------------
(* Messages                                                                *)

\* The prompts whose question is the last message: at most one.
Asked(msgs) == {msgs[i].prompt : i \in {j \in {Len(msgs)} : msgs[j].role = "user"}}

Alternate(msgs) ==
  \A i \in 2 .. Len(msgs) :
    IF i % 2 = 0 THEN msgs[i].role = "user"
    ELSE msgs[i].role = "assistant" /\ msgs[i].prompt = msgs[i - 1].prompt

LEMMA AskedIs ==
    ASSUME NEW msgs
    PROVE  Asked(msgs) = IF msgs[Len(msgs)].role = "user"
                         THEN {msgs[Len(msgs)].prompt} ELSE {}
  BY DEF Asked

LEMMA AlternatingIs ==
    Alternating <=> (~disturbed => /\ Alternate(messages) /\ underWay = Asked(messages)
                                   /\ isTyping <=> underWay # {})
  BY DEF Alternating, Alternate, Asked

\* Whose turn it is, from the number of messages.
LEMMA Turns ==
    ASSUME NEW msgs, Len(msgs) \in Nat, Len(msgs) > 0, msgs[1].role = "assistant",
           Alternate(msgs)
    PROVE  msgs[Len(msgs)].role = IF Len(msgs) % 2 = 0 THEN "user" ELSE "assistant"
  <1>1. CASE Len(msgs) = 1
    BY <1>1
  <1>2. CASE Len(msgs) # 1
    <2> \A n \in Nat : n > 0 /\ n # 1 => n \in 2..n
      OBVIOUS
    <2>1. Len(msgs) \in 2..Len(msgs)
      BY <1>2, Zenon
    <2>2. IF Len(msgs) % 2 = 0 THEN msgs[Len(msgs)].role = "user"
          ELSE msgs[Len(msgs)].role = "assistant"
      BY <2>1, Zenon DEF Alternate
    <2>3. QED
      BY <2>2, Zenon
  <1>3. QED
    BY <1>1, <1>2

LEMMA OpeningType ==
    ASSUME NEW g \in Greetings
    PROVE  /\ Opening(g) \in Message /\ Opening(g).role = "assistant"
           /\ <<Opening(g)>> \in Seq(Message) /\ Len(<<Opening(g)>>) = 1
           /\ <<Opening(g)>>[1] = Opening(g) /\ <<Opening(g)>> # <<>>
  <1>1. Opening(g) \in Message /\ Opening(g).role = "assistant"
    BY DEF Opening, Message
  <1>2. QED
    BY <1>1

-----------------------------------------------------------------------------
(* Places                                                                  *)

\* An opening speaks of no prompt.
LEMMA PlacesAtFirst ==
    ASSUME NEW g, messages = <<Opening(g)>>
    PROVE  /\ \A role, p : p \in Nat \ {0} => Places(role, p) = {}
           /\ \A i \in DOMAIN messages : messages[i].prompt = 0
  <1>1. \A i \in DOMAIN messages : messages[i].prompt = 0
    BY DEF Opening
  <1>2. QED
    BY <1>1 DEF Places

\* A new message is one more place of its role and prompt.
LEMMA PlacesAppended ==
    ASSUME NEW m, messages \in Seq(Message), m \in Message, messages' = Append(messages, m)
    PROVE  LET n == Len(messages) + 1 IN
           /\ DOMAIN messages' = DOMAIN messages \cup {n}
           /\ \A i \in DOMAIN messages : i \in Nat /\ i < n /\ messages'[i] = messages[i]
           /\ messages'[n] = m
           /\ \A role, p : Places(role, p)' = IF m.role = role /\ m.prompt = p
                                             THEN Places(role, p) \cup {n} ELSE Places(role, p)
           /\ \A role, p : Places(role, p) \subseteq DOMAIN messages
  <1> DEFINE n == Len(messages) + 1
  <1>1. /\ Len(messages) \in Nat /\ DOMAIN messages = 1..Len(messages)
        /\ messages' \in Seq(Message) /\ Len(messages') = n /\ DOMAIN messages' = 1..n
        /\ \A i \in 1..Len(messages) : messages'[i] = messages[i]
        /\ messages'[n] = m
    BY AppendProperties, LenProperties
  <1>2. DOMAIN messages' = DOMAIN messages \cup {n} /\ n \notin DOMAIN messages
    BY <1>1
  <1>3. \A i \in DOMAIN messages : i \in Nat /\ i < n /\ messages'[i] = messages[i]
    BY <1>1
  <1> HIDE DEF n
  <1>4. ASSUME NEW role, NEW p
        PROVE  Places(role, p)' = IF m.role = role /\ m.prompt = p
                                  THEN Places(role, p) \cup {n} ELSE Places(role, p)
    BY <1>1, <1>2, <1>3, Zenon DEF Places
  <1>5. \A role, p : Places(role, p) \subseteq DOMAIN messages
    BY Zenon DEF Places
  <1>6. QED
    BY <1>1, <1>2, <1>3, <1>4, <1>5 DEF n

\* The sides are told apart.
LEMMA Sides ==
    ASSUME NEW p, NEW what
    PROVE  /\ Question(p).role = "user" /\ Question(p).prompt = p
           /\ Reply(p, what).role = "assistant" /\ Reply(p, what).prompt = p
  BY DEF Question, Reply

-----------------------------------------------------------------------------
(* ChatInvariance                                                              *)

LEMMA InitChatInv == ChatInit => ChatInv
  <1> SUFFICES ASSUME ChatInit PROVE ChatInv
    OBVIOUS
  <1>1. Default \in Greetings
    BY DEF Greetings
  <1>2. messages \in Seq(Message) /\ Len(messages) = 1 /\ messages # <<>>
        /\ messages[1] = Opening(Default) /\ messages[1].role = "assistant"
    BY <1>1, OpeningType DEF ChatInit
  <1>3. ChatTypeOK
    <2>1. 0 \in 0..MaxPrompts /\ 0 \in 0..MaxClears /\ 0 \in 0..0
      BY ChatAssumption
    <2>2. QED
      BY <1>1, <1>2, <2>1, Zenon DEF ChatInit, ChatTypeOK
  <1>4. Asked(messages) = {}
    BY <1>2, AskedIs
  <1>5. Alternating
    BY <1>2, <1>4, AlternatingIs DEF ChatInit, Alternate
  <1>6. EachAnswered /\ SaidIsSent
    <2>1. messages = <<Opening(Default)>> /\ before = 0 /\ sent = 0 /\ isTyping = FALSE
      BY DEF ChatInit
    <2>2. QED
      BY <2>1, PlacesAtFirst DEF EachAnswered, SaidIsSent
  <1>7. QED
    BY <1>2, <1>3, <1>5, <1>6 DEF ChatInv, OpeningFirst, ChatInit

\* What every message sequence of a state is like.
LEMMA MessagesType ==
    ASSUME ChatTypeOK
    PROVE  /\ Len(messages) \in Nat /\ Len(messages) > 0
           /\ messages[1].role = "assistant"
  <1>1. Len(messages) \in Nat /\ (Len(messages) = 0 => messages = <<>>)
    BY LenProperties, EmptySeq DEF ChatTypeOK
  <1>2. messages[1].role = "assistant"
    BY OpeningType DEF ChatTypeOK
  <1>3. QED
    BY <1>1, <1>2 DEF ChatTypeOK

\* What the properties of the conversation depend on.
Said == <<messages, isTyping, underWay, sent, before, disturbed>>

LEMMA SaidUnchanged ==
    ASSUME SaidIsSent, Alternating, EachAnswered, UNCHANGED Said
    PROVE  SaidIsSent' /\ Alternating' /\ EachAnswered'
  <1>1. /\ messages' = messages /\ isTyping' = isTyping /\ underWay' = underWay
        /\ sent' = sent /\ before' = before /\ disturbed' = disturbed
    BY DEF Said
  <1>2. \A role, p : Places(role, p)' = Places(role, p)
    BY <1>1 DEF Places
  <1>3. EachAnswered'
    BY <1>1, <1>2 DEF EachAnswered
  <1>4. QED
    BY <1>1, <1>3 DEF SaidIsSent, Alternating

LEMMA OneMessage ==
    ASSUME ChatTypeOK, Len(messages) = 1
    PROVE  messages = <<Opening(greeting)>>
  BY DEF ChatTypeOK

LEMMA BootstrapStep ==
    ASSUME ChatInv, Bootstrap
    PROVE  ChatInv'
  <1>1. /\ starting /\ Len(messages) = 1 /\ underWay = {} /\ starting' = FALSE
        /\ UNCHANGED <<isTyping, underWay, sent, clears, before, disturbed>>
    BY DEF ChatInv, OpeningFirst, Bootstrap
  <1>2. CASE setGreeting(Configured)
    <2>1. greeting' = Configured /\ messages' = <<Opening(Configured)>> /\ Configured \in Greetings
      BY <1>1, <1>2 DEF setGreeting, Greetings
    <2>2. /\ messages' \in Seq(Message) /\ Len(messages') = 1 /\ messages' # <<>>
          /\ messages'[1] = Opening(Configured) /\ messages'[1].role = "assistant"
      BY <2>1, OpeningType
    <2>3. Asked(messages') = {}
      BY <2>2, AskedIs
    <2>4. Alternate(messages')
      BY <2>2 DEF Alternate
    <2>5. ChatTypeOK'
      BY <1>1, <2>1, <2>2 DEF ChatInv, ChatTypeOK
    <2>6. Alternating'
      BY <1>1, <2>3, <2>4 DEF Alternating, Alternate, Asked, ChatInv
    <2>7. EachAnswered' /\ SaidIsSent'
      <3>1. ~isTyping
        BY <1>1 DEF ChatInv, EachAnswered
      <3>2. sent \in Nat /\ before \in 0..sent
        BY DEF ChatInv, ChatTypeOK
      <3>3. \A i \in DOMAIN messages : messages[i].prompt = 0
        BY MessagesType, PlacesAtFirst, OneMessage, <1>1 DEF ChatInv
      <3>4. before = sent
        <4>1. SUFFICES ASSUME before # sent PROVE FALSE
          OBVIOUS
        <4>2. sent \in before + 1 .. sent
          BY <3>2, <4>1
        <4>3. PICK i \in DOMAIN messages : Places("user", sent) = {i}
          BY <4>2 DEF ChatInv, EachAnswered
        <4>4. messages[i].prompt = sent
          BY <4>3 DEF Places
        <4>5. QED
          BY <3>2, <3>3, <4>2, <4>4
      <3>5. /\ \A role, p : p \in Nat \ {0} => Places(role, p)' = {}
            /\ \A i \in DOMAIN messages' : messages'[i].prompt = 0
        BY <2>1 DEF Places, Opening
      <3>6. QED
        BY <1>1, <3>1, <3>2, <3>4, <3>5 DEF EachAnswered, SaidIsSent
    <2>8. QED
      BY <1>1, <2>5, <2>6, <2>7 DEF ChatInv, OpeningFirst
  <1>3. CASE UNCHANGED <<greeting, messages>>
    <2>1. UNCHANGED Said
      BY <1>1, <1>3 DEF Said
    <2>2. QED
      BY <1>1, <1>3, <2>1, SaidUnchanged DEF ChatInv, ChatTypeOK, OpeningFirst
  <1>4. QED
    BY <1>2, <1>3 DEF Bootstrap

LEMMA SendStep ==
    ASSUME ChatInv, Send
    PROVE  ChatInv'
  <1> USE ChatAssumption
  <1>1. /\ ~starting /\ ~isTyping /\ sent \in Nat /\ sent < MaxPrompts
        /\ sent' = sent + 1 /\ sent' \in Prompts
        /\ messages' = Append(messages, Question(sent')) /\ messages \in Seq(Message)
        /\ isTyping' = TRUE /\ underWay' = underWay \cup {sent'}
        /\ UNCHANGED <<starting, greeting, clears, before, disturbed>>
    BY DEF Send, ChatInv, ChatTypeOK, Prompts
  <1>2. Question(sent') \in Message /\ Question(sent').role = "user" /\ Question(sent').prompt = sent'
    BY <1>1 DEF Question, Message
  <1>3. Len(messages) \in Nat /\ Len(messages) > 0 /\ messages[1].role = "assistant"
    BY MessagesType DEF ChatInv
  <1>4. /\ messages' \in Seq(Message) /\ messages' # <<>> /\ Len(messages') = Len(messages) + 1
        /\ \A i \in 1..Len(messages) : messages'[i] = messages[i]
        /\ messages'[Len(messages) + 1] = Question(sent')
    BY <1>1, <1>2, AppendProperties
  <1>5. ChatTypeOK'
    BY <1>1, <1>3, <1>4 DEF ChatInv, ChatTypeOK
  <1>6. ASSUME ~disturbed
        PROVE  /\ Alternate(messages') /\ underWay' = Asked(messages')
               /\ isTyping' <=> underWay' # {}
    <2>1. Alternate(messages) /\ underWay = Asked(messages) /\ underWay = {}
      BY <1>1, <1>6, AlternatingIs DEF ChatInv
    <2>2. messages[Len(messages)].role # "user"
      BY <2>1, AskedIs
    <2>3. Len(messages) % 2 # 0
      BY <1>3, <2>1, <2>2, Turns
    <2>4. (Len(messages) + 1) % 2 = 0
      BY <1>3, <2>3
    <2>5. Alternate(messages')
      BY <1>2, <1>3, <1>4, <2>1, <2>4 DEF Alternate
    <2>6. Asked(messages') = {sent'}
      BY <1>2, <1>4, AskedIs
    <2>7. QED
      BY <1>1, <2>1, <2>5, <2>6
  <1>7. Alternating'
    BY <1>1, <1>6 DEF Alternating, Alternate, Asked
  <1>8. EachAnswered' /\ SaidIsSent'
    <2> DEFINE n == Len(messages) + 1
    <2>1. before \in 0..sent /\ underWay \subseteq 1..sent
      BY DEF ChatInv, ChatTypeOK
    <2>2. /\ DOMAIN messages' = DOMAIN messages \cup {n}
          /\ \A i \in DOMAIN messages : i \in Nat /\ i < n /\ messages'[i] = messages[i]
          /\ messages'[n] = Question(sent')
          /\ \A role, p : Places(role, p)' = IF role = "user" /\ p = sent'
                                            THEN Places(role, p) \cup {n} ELSE Places(role, p)
      BY <1>1, <1>2, PlacesAppended
    <2> HIDE DEF n
    <2>3. \A i \in DOMAIN messages : messages[i].prompt <= sent
      BY DEF ChatInv, SaidIsSent
    <2>4. SaidIsSent'
      <3>1. ASSUME NEW i \in DOMAIN messages' PROVE messages'[i].prompt <= sent'
        <4>1. CASE i = n
          BY <1>1, <1>2, <2>2, <4>1
        <4>2. CASE i \in DOMAIN messages
          <5>1. messages[i] \in Message
            BY <1>1, <4>2
          <5>2. messages[i].prompt \in Nat
            BY <5>1 DEF Message, Question, Reply, Opening, Prompts
          <5>3. QED
            BY <1>1, <2>2, <2>3, <4>2, <5>2
        <4>3. QED
          BY <2>2, <4>1, <4>2
      <3>2. QED
        BY <3>1 DEF SaidIsSent
    <2>5. \A role : Places(role, sent') = {}
      BY <1>1, <2>3 DEF Places
    <2>6. ASSUME NEW p \in before' + 1 .. sent'
          PROVE  \E i \in DOMAIN messages' :
                   /\ Places("user", p)' = {i}
                   /\ IF p \in underWay' THEN Places("assistant", p)' = {}
                      ELSE \E j \in DOMAIN messages' : j > i /\ Places("assistant", p)' = {j}
      <3>1. CASE p = sent'
        <4>1. Places("user", p)' = {n} /\ Places("assistant", p)' = {} /\ p \in underWay'
          BY <1>1, <2>2, <2>5, <3>1
        <4>2. QED
          BY <2>2, <4>1
      <3>2. CASE p # sent'
        <4>1. p \in before + 1 .. sent
          BY <1>1, <2>1, <3>2
        <4>2. PICK i \in DOMAIN messages :
                /\ Places("user", p) = {i}
                /\ IF p \in underWay THEN Places("assistant", p) = {}
                   ELSE \E j \in DOMAIN messages : j > i /\ Places("assistant", p) = {j}
          BY <4>1 DEF ChatInv, EachAnswered
        <4>3. \A role : Places(role, p)' = Places(role, p)
          BY <2>2, <3>2
        <4>4. p \in underWay' <=> p \in underWay
          BY <1>1, <3>2
        <4>5. QED
          BY <2>2, <4>2, <4>3, <4>4
      <3>3. QED
        BY <3>1, <3>2
    <2>7. ASSUME NEW p \in 1 .. before'
          PROVE  /\ Places("user", p)' = {}
                 /\ Places("assistant", p)' = {} \/ p \notin underWay'
                 /\ \A i, j \in Places("assistant", p)' : i = j
      <3>1. p \in 1 .. before /\ p # sent'
        BY <1>1, <2>1
      <3>2. QED
        BY <1>1, <2>2, <3>1 DEF ChatInv, EachAnswered
    <2>8. sent' > before' /\ sent' \in underWay'
      BY <1>1, <2>1
    <2>9. QED
      BY <2>4, <2>6, <2>7, <2>8 DEF EachAnswered
  <1>9. QED
    BY <1>1, <1>5, <1>7, <1>8 DEF ChatInv, OpeningFirst

LEMMA SettledStep ==
    ASSUME ChatInv, NEW p \in Prompts, NEW what \in Replies, Settled(p, what)
    PROVE  ChatInv'
  <1>1. /\ p \in underWay /\ underWay' = underWay \ {p} /\ underWay \subseteq 1..sent
        /\ messages' = Append(messages, Reply(p, what)) /\ messages \in Seq(Message)
        /\ isTyping' = FALSE
        /\ UNCHANGED <<starting, greeting, sent, clears, before, disturbed>>
    BY DEF Settled, ChatInv, ChatTypeOK
  <1>2. /\ Reply(p, what) \in Message /\ Reply(p, what).role = "assistant"
        /\ Reply(p, what).prompt = p
    BY DEF Reply, Message
  <1>3. Len(messages) \in Nat /\ Len(messages) > 0 /\ messages[1].role = "assistant"
    BY MessagesType DEF ChatInv
  <1>4. /\ messages' \in Seq(Message) /\ messages' # <<>> /\ Len(messages') = Len(messages) + 1
        /\ \A i \in 1..Len(messages) : messages'[i] = messages[i]
        /\ messages'[Len(messages) + 1] = Reply(p, what)
    BY <1>1, <1>2, AppendProperties
  <1>5. ChatTypeOK'
    <2>1. messages'[1] = Opening(greeting')
      BY <1>1, <1>3, <1>4 DEF ChatInv, ChatTypeOK
    <2>2. underWay' \subseteq 1..sent'
      BY <1>1
    <2>3. QED
      BY <1>1, <1>4, <2>1, <2>2, Zenon DEF ChatInv, ChatTypeOK
  <1>6. ASSUME ~disturbed
        PROVE  Alternate(messages') /\ underWay' = Asked(messages') /\ underWay' = {}
    <2>1. Alternate(messages) /\ underWay = Asked(messages)
      BY <1>6, AlternatingIs DEF ChatInv
    <2>2. messages[Len(messages)].role = "user" /\ underWay = {messages[Len(messages)].prompt}
      BY <1>1, <2>1, AskedIs
    <2>3. Len(messages) % 2 = 0
      BY <1>3, <2>1, <2>2, Turns
    <2>4. (Len(messages) + 1) % 2 # 0
      BY <1>3, <2>3
    <2>5. Alternate(messages')
      BY <1>1, <1>2, <1>3, <1>4, <2>1, <2>2, <2>4 DEF Alternate
    <2>6. Asked(messages') = {}
      BY <1>2, <1>4, AskedIs
    <2>7. QED
      BY <1>1, <2>2, <2>5, <2>6
  <1>7. Alternating'
    BY <1>1, <1>6 DEF Alternating, Alternate, Asked
  <1>8. ~starting
    BY <1>1 DEF ChatInv, OpeningFirst
  <1>9. EachAnswered' /\ SaidIsSent'
    <2> DEFINE n == Len(messages) + 1
    <2>1. before \in 0..sent /\ sent \in Nat /\ p \in Nat /\ p <= sent /\ p # 0
      BY <1>1 DEF ChatInv, ChatTypeOK, Prompts
    <2>2. /\ DOMAIN messages' = DOMAIN messages \cup {n}
          /\ \A i \in DOMAIN messages : i \in Nat /\ i < n /\ messages'[i] = messages[i]
          /\ messages'[n] = Reply(p, what) /\ n \in Nat
          /\ \A role, q : Places(role, q)' = IF role = "assistant" /\ q = p
                                            THEN Places(role, q) \cup {n} ELSE Places(role, q)
      BY <1>1, <1>2, <1>3, PlacesAppended
    <2> HIDE DEF n
    <2>3. SaidIsSent'
      BY <1>1, <1>2, <2>1, <2>2 DEF ChatInv, SaidIsSent
    <2>4. ASSUME NEW q \in before' + 1 .. sent'
          PROVE  \E i \in DOMAIN messages' :
                   /\ Places("user", q)' = {i}
                   /\ IF q \in underWay' THEN Places("assistant", q)' = {}
                      ELSE \E j \in DOMAIN messages' : j > i /\ Places("assistant", q)' = {j}
      <3>1. PICK i \in DOMAIN messages :
              /\ Places("user", q) = {i}
              /\ IF q \in underWay THEN Places("assistant", q) = {}
                 ELSE \E j \in DOMAIN messages : j > i /\ Places("assistant", q) = {j}
        BY <1>1 DEF ChatInv, EachAnswered
      <3>2. Places("user", q)' = {i}
        BY <2>2, <3>1
      <3>3. CASE q = p
        <4>1. Places("assistant", q)' = {n} /\ n > i /\ q \notin underWay'
          BY <1>1, <2>2, <3>1, <3>3
        <4>2. QED
          BY <2>2, <3>2, <4>1
      <3>4. CASE q # p
        <4>1. Places("assistant", q)' = Places("assistant", q) /\ (q \in underWay' <=> q \in underWay)
          BY <1>1, <2>2, <3>4
        <4>2. QED
          BY <2>2, <3>1, <3>2, <4>1
      <3>5. QED
        BY <3>3, <3>4
    <2>5. ASSUME NEW q \in 1 .. before'
          PROVE  /\ Places("user", q)' = {}
                 /\ Places("assistant", q)' = {} \/ q \notin underWay'
                 /\ \A i, j \in Places("assistant", q)' : i = j
      <3>1. /\ Places("user", q) = {}
            /\ Places("assistant", q) = {} \/ q \notin underWay
            /\ \A i, j \in Places("assistant", q) : i = j
        BY <1>1 DEF ChatInv, EachAnswered
      <3>2. QED
        BY <1>1, <2>2, <3>1
    <2>6. QED
      BY <1>1, <2>3, <2>4, <2>5 DEF EachAnswered
  <1>10. QED
    BY <1>1, <1>5, <1>7, <1>8, <1>9 DEF ChatInv, OpeningFirst

LEMMA ClearStep ==
    ASSUME ChatInv, clearHistory
    PROVE  ChatInv'
  <1>1. /\ ~starting /\ clears < MaxClears /\ clears' = clears + 1 /\ clears \in 0..MaxClears
        /\ messages' = <<Opening(greeting)>> /\ greeting \in Greetings
        /\ isTyping' = FALSE /\ before' = sent /\ disturbed' = (underWay # {})
        /\ UNCHANGED <<starting, greeting, underWay, sent>>
    BY DEF clearHistory, ChatInv, ChatTypeOK
  <1>2. /\ messages' \in Seq(Message) /\ Len(messages') = 1 /\ messages' # <<>>
        /\ messages'[1] = Opening(greeting) /\ messages'[1].role = "assistant"
    BY <1>1, OpeningType
  <1>3. ChatTypeOK'
    <2>1. clears' \in 0..MaxClears
      BY <1>1, ChatAssumption
    <2>2. before' \in 0..sent' /\ sent' \in 0..MaxPrompts /\ underWay' \subseteq 1..sent'
      BY <1>1 DEF ChatInv, ChatTypeOK
    <2>3. QED
      BY <1>1, <1>2, <2>1, <2>2, Zenon DEF ChatInv, ChatTypeOK
  <1>4. Asked(messages') = {} /\ Alternate(messages')
    BY <1>2, AskedIs DEF Alternate
  <1>5. Alternating'
    BY <1>1, <1>4 DEF Alternating, Alternate, Asked
  <1>6. EachAnswered' /\ SaidIsSent'
    <2>1. sent \in Nat
      BY DEF ChatInv, ChatTypeOK
    <2>2. /\ \A role, p : p \in Nat \ {0} => Places(role, p)' = {}
          /\ \A i \in DOMAIN messages' : messages'[i].prompt = 0
      BY <1>1 DEF Places, Opening
    <2>3. QED
      BY <1>1, <2>1, <2>2 DEF EachAnswered, SaidIsSent
  <1>7. QED
    BY <1>1, <1>3, <1>5, <1>6 DEF ChatInv, OpeningFirst

LEMMA NextChatInv == ChatInv /\ [ChatNext]_chatVars => ChatInv'
  <1> SUFFICES ASSUME ChatInv, [ChatNext]_chatVars PROVE ChatInv'
    OBVIOUS
  <1>1. CASE UNCHANGED chatVars
    <2>1. UNCHANGED Said
      BY <1>1 DEF Said, chatVars
    <2>2. QED
      BY <1>1, <2>1, SaidUnchanged DEF chatVars, ChatInv, ChatTypeOK, OpeningFirst
  <1>2. QED
    BY <1>1, BootstrapStep, SendStep, SettledStep, ClearStep DEF ChatNext, Server

\* Types, nothing said before the configuration is there, and alternation.
THEOREM ChatInvariance == ChatSpec => []ChatInv
  BY InitChatInv, NextChatInv, PTL DEF ChatSpec

\* Every variable keeps its type, and the first message is the greeting.
THEOREM ChatTypeCorrect == ChatSpec => []ChatTypeOK
  <1>1. ChatInv => ChatTypeOK
    BY DEF ChatInv
  <1>2. QED
    BY <1>1, ChatInvariance, PTL

\* In every conversation, whatever late answers come into it: each of its own
\* questions stands there once, is under way or answered once below, and the box
\* is closed only while its latest question is under way.
THEOREM QuestionsAnswered == ChatSpec => []EachAnswered
  <1>1. ChatInv => EachAnswered
    BY DEF ChatInv
  <1>2. QED
    BY <1>1, ChatInvariance, PTL

\* However many questions are asked and conversations cleared: in one that was
\* begun with no request out, each answer stands under its question and the box
\* is closed exactly while one is missing.
THEOREM Alternation == ChatSpec => []Alternating
  <1>1. ChatInv => Alternating
    BY DEF ChatInv
  <1>2. QED
    BY <1>1, ChatInvariance, PTL
=============================================================================
