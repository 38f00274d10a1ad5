-------------------------- MODULE EditSessionProofs --------------------------
(***************************************************************************)
(* Theorems about EditSession, for any products and texts and any number   *)
(* of saves and of other users' writes: its types, that no draft of the    *)
(* description or the documentation outlives the text it was begun from,   *)
(* and when a page at rest shows what was saved.                           *)
(***************************************************************************)
EXTENDS EditSession, TLAPS

Queries == [Products -> Query]
Mutations == Seq(Saves \cup {None})

-----------------------------------------------------------------------------
(* The operators                                                           *)

\* A fetch begun on top of another keeps what is displayed on display.
LEMMA RefetchedShows ==
    ASSUME NEW q \in Query
    PROVE  /\ Refetched(q) \in Query
           /\ Refetched(q).data = q.data
           /\ q.data # None /\ ~q.error => ~Refetched(q).error
  <1>1. CASE q.data = None /\ q.fetch # "none"
    BY <1>1 DEF Refetched
  <1>2. CASE ~(q.data = None /\ q.fetch # "none")
    BY <1>2 DEF Refetched, Query
  <1>3. QED
    BY <1>1, <1>2

\* So does an invalidation,
LEMMA InvalidatedShows ==
    ASSUME NEW q \in Queries, NEW p \in Products \cup {None}, NEW shown,
           NEW r \in Products
    PROVE  /\ Invalidated(q, p, shown) \in Queries
           /\ Invalidated(q, p, shown)[r].data = q[r].data
           /\ Displays(r, q) => Displays(r, Invalidated(q, p, shown))
  <1>1. CASE p = None
    BY <1>1 DEF Invalidated, Queries
  <1>2. CASE p # None
    <2> DEFINE marked == [q[p] EXCEPT !.invalid = TRUE]
               new == IF p = shown THEN Refetched(marked) ELSE marked
    <2>1. p \in Products /\ q[p] \in Query
      BY <1>2 DEF Queries
    <2>2. /\ marked \in Query /\ marked.data = q[p].data
          /\ marked.error = q[p].error
      BY <2>1 DEF Query
    <2>3. /\ new \in Query /\ new.data = q[p].data
          /\ q[p].data # None /\ ~q[p].error => ~new.error
      BY <2>2, RefetchedShows
    <2>4. Invalidated(q, p, shown) = [q EXCEPT ![p] = new]
      BY <1>2 DEF Invalidated
    <2> HIDE DEF new
    <2>5. QED
      BY <2>1, <2>3, <2>4 DEF Queries, Displays
  <1>3. QED
    BY <1>1, <1>2

\* and the selection's move to another product.
LEMMA ObservedTyped ==
    ASSUME NEW q \in Queries, NEW p \in Products, NEW old \in BOOLEAN
    PROVE  Observed(q, p, old) \in Queries
  <1>1. q[p] \in Query
    BY DEF Queries
  <1>2. Refetched(q[p]) \in Query
    BY <1>1, RefetchedShows
  <1>3. QED
    BY <1>1, <1>2 DEF Observed, Queries

\* Two states of a mutation that owe the same.
SameStanding(s, t) ==
  /\ s = None <=> t = None
  /\ s # None => t.to = s.to /\ t.st = s.st /\ t.by = s.by

\* A render changes who hears of an answer, and no more.
LEMMA ObservedAfterTyped ==
    ASSUME NEW s \in Saves \cup {None}, NEW p \in Products \cup {None},
           NEW tl, NEW dc, NEW fm
    PROVE  /\ ObservedAfter(s, p, tl, dc, fm) \in Saves \cup {None}
           /\ SameStanding(s, ObservedAfter(s, p, tl, dc, fm))
  <1>1. CASE s = None
    BY <1>1 DEF ObservedAfter, SameStanding
  <1>2. CASE s # None
    <2>1. \A on \in BOOLEAN, key \in Products \cup {None} :
            /\ [s EXCEPT !.observed = on, !.key = key] \in Saves
            /\ SameStanding(s, [s EXCEPT !.observed = on, !.key = key])
      <3> SUFFICES ASSUME NEW on \in BOOLEAN, NEW key \in Products \cup {None}
                   PROVE  /\ [s EXCEPT !.observed = on, !.key = key] \in Saves
                          /\ SameStanding(s, [s EXCEPT !.observed = on, !.key = key])
        OBVIOUS
      <3> DEFINE t == [s EXCEPT !.observed = on, !.key = key]
      <3>1. t \in Saves /\ t.to = s.to /\ t.st = s.st /\ t.by = s.by
        BY <1>2 DEF Saves, SavesOf
      <3>2. t # None
        BY <3>1, NoneAssumption
      <3>3. QED
        BY <1>2, <3>1, <3>2 DEF SameStanding
    <2>2. s.observed \in BOOLEAN /\ s.key \in Products \cup {None}
      BY <1>2 DEF Saves, SavesOf
    <2> DEFINE stays == CASE s.by = "text" -> TRUE
                          [] s.by = "restore" -> IF s.body.field = "desc"
                                                 THEN tl.mode = "history"
                                                 ELSE dc.open /\ dc.mode = "history"
                          [] OTHER -> fm # None
               on == s.observed /\ stays
    <2>3. /\ on \in BOOLEAN
          /\ ObservedAfter(s, p, tl, dc, fm)
               = [s EXCEPT !.observed = on, !.key = IF on THEN p ELSE s.key]
      BY <1>2, <2>2, Zenon DEF ObservedAfter
    <2>4. (IF on THEN p ELSE s.key) \in Products \cup {None}
      BY <2>2
    <2> DEFINE key == IF on THEN p ELSE s.key
               t   == [s EXCEPT !.observed = on, !.key = key]
    <2>5. on \in BOOLEAN /\ key \in Products \cup {None} /\ ObservedAfter(s, p, tl, dc, fm) = t
      BY <2>3, <2>4
    <2> HIDE DEF on, key
    <2>6. t \in Saves /\ SameStanding(s, t)
      BY <2>1, <2>5
    <2> HIDE DEF t
    <2>7. QED
      BY <2>5, <2>6
  <1>3. QED
    BY <1>1, <1>2

\* A render keeps the number of the mutations and their types.
LEMMA RenderedSaves ==
    ASSUME NEW sv \in Mutations, Len(sv) <= MaxSaves,
           NEW p \in Products \cup {None}, NEW tl, NEW dc, NEW fm
    PROVE  /\ Observers(sv, p, tl, dc, fm) \in Mutations
           /\ Len(Observers(sv, p, tl, dc, fm)) <= MaxSaves
  <1> DEFINE new == [i \in DOMAIN sv |-> ObservedAfter(sv[i], p, tl, dc, fm)]
  <1>1. \A i \in DOMAIN sv : sv[i] \in Saves \cup {None}
    BY DEF Mutations
  <1>2. new \in [1 .. Len(sv) -> Saves \cup {None}]
    BY <1>1, ObservedAfterTyped DEF Mutations
  <1>3. Len(sv) \in Nat
    BY DEF Mutations
  <1>4. new \in Mutations /\ Len(new) = Len(sv)
    BY <1>2, <1>3 DEF Mutations
  <1>5. QED
    BY <1>4 DEF Observers

LEMMA OverTyped ==
    ASSUME TypeOK, NEW i \in Pending
    PROVE  Over(i) \in Mutations /\ Len(Over(i)) <= MaxSaves
  <1>1. i \in 1 .. Len(saves) /\ saves \in Mutations
    BY DEF Pending, TypeOK, Mutations
  <1>2. Over(i) \in Mutations /\ Len(Over(i)) = Len(saves)
    BY <1>1 DEF Over, Mutations
  <1>3. QED
    BY <1>2 DEF TypeOK

LEMMA BegunTyped ==
    ASSUME TypeOK, selected \in Products, CanBegin, EditAssumption,
           NEW by, NEW body,
           \/ by = "form" /\ body \in Forms
           \/ by \in {"text", "remove", "restore"} /\ body \in [field : Fields, text : Texts]
    PROVE  Begun(by, body) \in Mutations /\ Len(Begun(by, body)) <= MaxSaves
  <1> DEFINE s == [by |-> by, to |-> selected, key |-> selected, observed |-> TRUE,
                   body |-> body, st |-> "sent"]
             older(t) == IF t # None /\ by = "text" /\ t.by = by
                         THEN [t EXCEPT !.observed = FALSE] ELSE t
             old == [i \in DOMAIN saves |-> older(saves[i])]
  <1>1. s \in Saves
    BY DEF Saves, SavesOf
  <1>2. ASSUME NEW t \in Saves \cup {None}
        PROVE  older(t) \in Saves \cup {None}
    <2>1. t # None => [t EXCEPT !.observed = FALSE] \in Saves
      BY <1>2 DEF Saves, SavesOf
    <2>2. QED
      BY <1>2, <2>1
  <1>3. saves \in Mutations /\ Len(saves) \in Nat /\ Len(saves) < MaxSaves
    BY DEF TypeOK, Mutations, CanBegin
  <1>4. \A i \in DOMAIN saves : saves[i] \in Saves \cup {None}
    BY <1>3 DEF Mutations
  <1> HIDE DEF s, older
  <1>5. old \in [1 .. Len(saves) -> Saves \cup {None}]
    BY <1>2, <1>3, <1>4 DEF Mutations
  <1>6. old \in Mutations /\ Len(old) = Len(saves)
    BY <1>3, <1>5 DEF Mutations
  <1>7. Begun(by, body) = Append(old, s)
    BY Zenon DEF Begun, s, older
  <1> HIDE DEF old
  <1>8. Append(old, s) \in Mutations /\ Len(Append(old, s)) = Len(saves) + 1
    BY <1>1, <1>6 DEF Mutations
  <1>9. QED
    BY <1>3, <1>7, <1>8, EditAssumption DEF EditAssumption

-----------------------------------------------------------------------------
(* The page                                                                *)

\* The effects of a render take a draft away whose product or text is not
\* the one now on display.
LEMMA Rendered ==
    ASSUME DraftInv, EditAssumption,
           selected' \in Products \cup {None}, query' \in Queries,
           editOpen' \in BOOLEAN,
           title' = TitleAfter(selected', query'),
           doc' = DocAfter(selected', query'),
           form' = FormAfter(selected', query', editOpen')
    PROVE  /\ title' \in Drafts /\ doc' \in Documents
           /\ form' \in Forms \cup {None} /\ (form' # None => editOpen')
           /\ DraftsShown' /\ DraftsOfTheDisplay'
  <1>1. ASSUME Displays(selected', query')
        PROVE  /\ selected' \in Products
               /\ query'[selected'].data \in Row
               /\ Displayed' /\ Detail' = query'[selected'].data
               /\ query'[selected'].data.desc \in Texts
               /\ query'[selected'].data.doc \in Texts
               /\ FormOf(query'[selected'].data) \in Forms
    BY <1>1 DEF Displays, Queries, Query, Row, Displayed, Detail, FormOf, Forms
  <1>2. ASSUME Displayed
        PROVE  Detail.desc \in Texts /\ Detail.doc \in Texts
    BY <1>2 DEF DraftInv, TypeOK, Displayed, Displays, Detail, Query, Row
  <1>3. /\ NoDraft \in Drafts /\ NoDraft.mode = "view"
        /\ Closed \in Documents /\ Closed.open = FALSE
    BY EditAssumption DEF EditAssumption, NoDraft, Drafts, Closed, Documents
  <1>4. /\ title' \in Drafts
        /\ title'.mode = "edit" => /\ Displayed'
                                  /\ title'.of = selected' /\ title'.base = Detail'.desc
    <2>1. CASE /\ Displays(selected', query') /\ Displayed /\ selected' = selected
               /\ query'[selected'].data.desc = Detail.desc
      <3>1. title' = title
        BY <2>1 DEF TitleAfter
      <3>2. QED
        BY <1>1, <2>1, <3>1 DEF DraftInv, TypeOK, DraftsOfTheDisplay
    <2>2. CASE ~(/\ Displays(selected', query') /\ Displayed /\ selected' = selected
                 /\ query'[selected'].data.desc = Detail.desc)
      <3>1. title' = NoDraft
        BY <2>2 DEF TitleAfter
      <3>2. QED
        BY <1>3, <3>1
    <2>3. QED
      BY <2>1, <2>2
  <1>5. /\ doc' \in Documents
        /\ doc'.open => Displayed' /\ doc'.base = Detail'.doc
    <2>1. CASE ~Displays(selected', query') \/ ~Displayed
      <3>1. doc' = Closed
        BY <2>1 DEF DocAfter
      <3>2. QED
        BY <1>3, <3>1
    <2>2. CASE /\ Displays(selected', query') /\ Displayed
               /\ query'[selected'].data.doc = Detail.doc \/ ~doc.open
      <3>1. doc' = doc
        BY <2>2 DEF DocAfter
      <3>2. QED
        BY <1>1, <2>2, <3>1 DEF DraftInv, TypeOK, DraftsOfTheDisplay
    <2>3. CASE /\ Displays(selected', query') /\ Displayed
               /\ ~(query'[selected'].data.doc = Detail.doc \/ ~doc.open)
      <3> DEFINE text == query'[selected'].data.doc
      <3>1. doc' = [open |-> TRUE, mode |-> "edit", text |-> text, base |-> text]
        BY <2>3 DEF DocAfter, Closed
      <3>2. QED
        BY <1>1, <2>3, <3>1 DEF Documents
    <2>4. QED
      BY <2>1, <2>2, <2>3
  <1>6. /\ form' \in Forms \cup {None}
        /\ form' # None => editOpen' /\ Displayed'
    BY <1>1 DEF DraftInv, TypeOK, FormAfter
  <1>7. QED
    BY <1>4, <1>5, <1>6 DEF DraftsShown, DraftsOfTheDisplay

\* What a render keeps of the invariant, wherever the selection, the queries
\* and the mutations come from.
LEMMA RerenderKeeps ==
    ASSUME DraftInv, EditAssumption,
           NEW p \in Products \cup {None}, NEW q \in Queries,
           NEW sv \in Mutations, Len(sv) <= MaxSaves, NEW open \in BOOLEAN,
           Rerender(p, q, sv, open),
           rows' \in [Products -> Row], gone' \subseteq Products,
           excused' \subseteq Products, trouble' \in 0 .. MaxTrouble
    PROVE  DraftInv'
  <1>1. /\ selected' = p /\ query' = q /\ editOpen' = open
        /\ title' = TitleAfter(p, q) /\ doc' = DocAfter(p, q)
        /\ form' = FormAfter(p, q, open)
        /\ saves' = Observers(sv, p, title', doc', form')
    BY Zenon DEF Rerender, Show
  <1>2. saves' \in Mutations /\ Len(saves') <= MaxSaves
    BY <1>1, RenderedSaves
  <1>3. /\ title' \in Drafts /\ doc' \in Documents
        /\ form' \in Forms \cup {None} /\ (form' # None => editOpen')
        /\ DraftsShown' /\ DraftsOfTheDisplay'
    <2>1. /\ selected' \in Products \cup {None} /\ query' \in Queries
          /\ editOpen' \in BOOLEAN
          /\ title' = TitleAfter(selected', query')
          /\ doc' = DocAfter(selected', query')
          /\ form' = FormAfter(selected', query', editOpen')
      BY <1>1
    <2>2. QED
      BY <2>1, Rendered
  <1>4. QED
    BY <1>1, <1>2, <1>3 DEF DraftInv, TypeOK, Queries, Mutations

\* The user's acts: the page and its data stay as they are.
LEMMA ActKeeps ==
    ASSUME DraftInv, EditAssumption, Elsewhere,
           NEW tl \in Drafts, NEW dc \in Documents, NEW open \in BOOLEAN,
           NEW fm \in Forms \cup {None}, fm # None => open /\ Displayed,
           NEW sv \in Mutations, Len(sv) <= MaxSaves,
           Act(tl, dc, open, fm, sv),
           tl.mode = "edit" => Displayed /\ tl.of = selected /\ tl.base = Detail.desc,
           dc.open => Displayed /\ dc.base = Detail.doc
    PROVE  DraftInv'
  <1>1. /\ selected' = selected /\ query' = query
        /\ title' = tl /\ doc' = dc /\ editOpen' = open /\ form' = fm
        /\ saves' = Observers(sv, selected, tl, dc, fm)
    BY Zenon DEF Act, Show
  <1>2. selected \in Products \cup {None}
    BY DEF DraftInv, TypeOK
  <1>3. saves' \in Mutations /\ Len(saves') <= MaxSaves
    BY <1>1, <1>2, RenderedSaves
  <1>4. TypeOK'
    BY <1>1, <1>3 DEF DraftInv, TypeOK, Mutations, Elsewhere
  <1>5. DraftsShown' /\ DraftsOfTheDisplay'
    BY <1>1 DEF DraftsShown, DraftsOfTheDisplay, Displayed, Detail
  <1>6. QED
    BY <1>4, <1>5 DEF DraftInv

\* The user's acts begin where a product is on display.
LEMMA OnDisplay ==
    ASSUME TypeOK, Displayed
    PROVE  /\ selected \in Products
           /\ Detail \in Row /\ Detail.desc \in Texts /\ Detail.doc \in Texts
           /\ FormOf(Detail) \in Forms
  BY DEF TypeOK, Displayed, Displays, Detail, Query, Row, FormOf, Forms

-----------------------------------------------------------------------------
(* The steps                                                               *)

LEMMA InitDraftInv == Init => DraftInv
  <1> SUFFICES ASSUME Init PROVE DraftInv
    OBVIOUS
  <1> USE EditAssumption
  <1>1. selected \in Products
    BY DEF Init, EditAssumption
  <1>2. Fresh \in Row /\ Unasked \in Query /\ [Unasked EXCEPT !.fetch = "sent"] \in Query
    BY DEF EditAssumption, Fresh, Row, Unasked, Query
  <1>3. rows \in [Products -> Row] /\ query \in Queries
    BY <1>2 DEF Init, Queries
  <1>4. /\ title \in Drafts /\ title.mode = "view"
        /\ doc \in Documents /\ doc.open = FALSE
    BY DEF EditAssumption, Init, NoDraft, Drafts, Closed, Documents
  <1>5. saves \in Seq(Saves \cup {None}) /\ Len(saves) = 0 /\ 0 <= MaxSaves
        /\ 0 \in 0 .. MaxTrouble
    <2>1. \A S : <<>> \in Seq(S) /\ Len(<<>>) = 0
      OBVIOUS
    <2>2. 0 <= MaxSaves /\ 0 \in 0 .. MaxTrouble
      BY DEF EditAssumption
    <2>3. QED
      BY <2>1, <2>2, Zenon DEF Init
  <1>6. TypeOK
    BY <1>1, <1>3, <1>4, <1>5 DEF Init, TypeOK, Queries
  <1>7. QED
    BY <1>4, <1>6 DEF Init, DraftInv, DraftsShown, DraftsOfTheDisplay

\* EditableTitle: its draft begins with the description on display.
LEMMA TitleActs ==
    ASSUME DraftInv, EditAssumption,
           \/ EditTitle \/ SaveTitle \/ CancelTitle \/ TitleHistory
           \/ \E t \in Texts : TypeTitle(t) \/ RestoreTitle(t)
    PROVE  DraftInv'
  <1>1. /\ Displayed /\ selected \in Products /\ Detail.desc \in Texts
        /\ title \in Drafts /\ doc \in Documents /\ editOpen \in BOOLEAN
        /\ form \in Forms \cup {None} /\ (form # None => editOpen)
        /\ doc.open = FALSE /\ saves \in Mutations /\ Len(saves) <= MaxSaves
    <2>1. Uncovered
      BY Zenon DEF EditTitle, SaveTitle, CancelTitle, TitleHistory, TypeTitle, RestoreTitle
    <2>2. QED
      BY <2>1, OnDisplay DEF DraftInv, TypeOK, Uncovered, Documents, Mutations
  <1>2. /\ NoDraft \in Drafts /\ NoDraft.mode = "view"
        /\ [NoDraft EXCEPT !.mode = "history"] \in Drafts
        /\ [NoDraft EXCEPT !.mode = "history"].mode = "history"
    BY DEF EditAssumption, NoDraft, Drafts
  <1>3. title.mode = "edit" => title.of = selected /\ title.base = Detail.desc
    BY DEF DraftInv, DraftsOfTheDisplay
  <1>4. CASE EditTitle
    <2> DEFINE tl == [mode |-> "edit", text |-> Detail.desc, base |-> Detail.desc,
                      of |-> selected]
    <2>1. tl \in Drafts /\ tl.of = selected /\ tl.base = Detail.desc
      BY <1>1 DEF Drafts
    <2>2. Act(tl, doc, editOpen, form, saves) /\ Elsewhere
      BY <1>4 DEF EditTitle
    <2> HIDE DEF tl
    <2>3. QED
      BY <1>1, <2>1, <2>2, ActKeeps
  <1>5. ASSUME NEW t \in Texts, TypeTitle(t)
        PROVE  DraftInv'
    <2> DEFINE tl == [title EXCEPT !.text = t]
    <2>1. tl \in Drafts /\ tl.of = selected /\ tl.base = Detail.desc
      BY <1>1, <1>3, <1>5 DEF Drafts, TypeTitle
    <2>2. Act(tl, doc, editOpen, form, saves) /\ Elsewhere
      BY <1>5 DEF TypeTitle
    <2> HIDE DEF tl
    <2>3. QED
      BY <1>1, <2>1, <2>2, ActKeeps
  <1>6. CASE SaveTitle
    <2> DEFINE body == [field |-> "desc", text |-> title.text]
               sv == Begun("text", body)
    <2>1. body \in [field : Fields, text : Texts]
      BY <1>1 DEF Drafts, Fields
    <2>2. CanBegin /\ Act(NoDraft, doc, editOpen, form, sv) /\ Elsewhere
      BY <1>6 DEF SaveTitle
    <2> HIDE DEF body
    <2>3. sv \in Mutations /\ Len(sv) <= MaxSaves
      BY <1>1, <2>1, <2>2, BegunTyped DEF DraftInv
    <2> HIDE DEF sv
    <2>4. QED
      BY <1>1, <1>2, <2>2, <2>3, ActKeeps
  <1>7. CASE CancelTitle
    BY <1>1, <1>2, <1>7, ActKeeps DEF CancelTitle
  <1>8. CASE TitleHistory
    BY <1>1, <1>2, <1>8, ActKeeps DEF TitleHistory
  <1>9. ASSUME NEW t \in Texts, RestoreTitle(t)
        PROVE  DraftInv'
    <2> DEFINE body == [field |-> "desc", text |-> t]
               sv == Begun("restore", body)
    <2>1. body \in [field : Fields, text : Texts]
      BY <1>9 DEF Fields
    <2>2. CanBegin /\ Act(title, doc, editOpen, form, sv) /\ Elsewhere
      BY <1>9 DEF RestoreTitle
    <2> HIDE DEF body
    <2>3. sv \in Mutations /\ Len(sv) <= MaxSaves
      BY <1>1, <2>1, <2>2, BegunTyped DEF DraftInv
    <2> HIDE DEF sv
    <2>4. QED
      BY <1>1, <1>3, <2>2, <2>3, ActKeeps
  <1>10. QED
    BY <1>4, <1>5, <1>6, <1>7, <1>8, <1>9

\* DocumentationModal: its draft begins with the documentation on display.
LEMMA DocActs ==
    ASSUME DraftInv, EditAssumption,
           \/ OpenDoc \/ CloseDoc \/ SaveDoc
           \/ \E mode \in {"edit", "history"} : DocTab(mode)
           \/ \E t \in Texts : TypeDoc(t) \/ RestoreDoc(t)
    PROVE  DraftInv'
  <1>1. /\ Displayed /\ selected \in Products /\ Detail.doc \in Texts
        /\ title \in Drafts /\ doc \in Documents /\ editOpen \in BOOLEAN
        /\ form \in Forms \cup {None} /\ (form # None => editOpen)
        /\ saves \in Mutations /\ Len(saves) <= MaxSaves
    <2>1. Displayed
      BY Zenon DEF DraftInv, DraftsShown, Uncovered, OpenDoc, CloseDoc, SaveDoc, DocTab,
                   TypeDoc, RestoreDoc
    <2>2. QED
      BY <2>1, OnDisplay DEF DraftInv, TypeOK, Mutations
  <1>2. Closed \in Documents /\ Closed.open = FALSE
    BY DEF EditAssumption, Closed, Documents
  <1>3. /\ title.mode = "edit" => title.of = selected /\ title.base = Detail.desc
        /\ doc.open => doc.base = Detail.doc
    BY DEF DraftInv, DraftsOfTheDisplay
  <1>4. CASE OpenDoc
    <2> DEFINE dc == [Closed EXCEPT !.open = TRUE, !.text = Detail.doc, !.base = Detail.doc]
    <2>1. dc \in Documents /\ dc.base = Detail.doc
      BY <1>1, <1>2 DEF Documents
    <2>2. Act(title, dc, editOpen, form, saves) /\ Elsewhere
      BY <1>4 DEF OpenDoc
    <2> HIDE DEF dc
    <2>3. QED
      BY <1>1, <1>3, <2>1, <2>2, ActKeeps
  <1>5. CASE CloseDoc
    BY <1>1, <1>2, <1>3, <1>5, ActKeeps DEF CloseDoc
  <1>6. ASSUME NEW mode \in {"edit", "history"}, DocTab(mode)
        PROVE  DraftInv'
    <2> DEFINE dc == [doc EXCEPT !.mode = mode]
    <2>1. dc \in Documents /\ dc.base = doc.base /\ dc.open = doc.open
      BY <1>1, <1>6 DEF Documents
    <2>2. Act(title, dc, editOpen, form, saves) /\ Elsewhere
      BY <1>6 DEF DocTab
    <2> HIDE DEF dc
    <2>3. QED
      BY <1>1, <1>3, <2>1, <2>2, ActKeeps
  <1>7. ASSUME NEW t \in Texts, TypeDoc(t)
        PROVE  DraftInv'
    <2> DEFINE dc == [doc EXCEPT !.text = t]
    <2>1. dc \in Documents /\ dc.base = doc.base /\ dc.open = doc.open
      BY <1>1, <1>7 DEF Documents
    <2>2. Act(title, dc, editOpen, form, saves) /\ Elsewhere
      BY <1>7 DEF TypeDoc
    <2> HIDE DEF dc
    <2>3. QED
      BY <1>1, <1>3, <2>1, <2>2, ActKeeps
  <1>8. CASE SaveDoc
    <2> DEFINE body == [field |-> "doc", text |-> doc.text]
               sv == Begun("text", body)
    <2>1. body \in [field : Fields, text : Texts]
      BY <1>1 DEF Documents, Fields
    <2>2. CanBegin /\ Act(title, Closed, editOpen, form, sv) /\ Elsewhere
      BY <1>8 DEF SaveDoc
    <2> HIDE DEF body
    <2>3. sv \in Mutations /\ Len(sv) <= MaxSaves
      BY <1>1, <2>1, <2>2, BegunTyped DEF DraftInv
    <2> HIDE DEF sv
    <2>4. QED
      BY <1>1, <1>2, <1>3, <2>2, <2>3, ActKeeps
  <1>9. ASSUME NEW t \in Texts, RestoreDoc(t)
        PROVE  DraftInv'
    <2> DEFINE body == [field |-> "doc", text |-> t]
               sv == Begun("restore", body)
    <2>1. body \in [field : Fields, text : Texts]
      BY <1>9 DEF Fields
    <2>2. CanBegin /\ Act(title, doc, editOpen, form, sv) /\ Elsewhere
      BY <1>9 DEF RestoreDoc
    <2> HIDE DEF body
    <2>3. sv \in Mutations /\ Len(sv) <= MaxSaves
      BY <1>1, <2>1, <2>2, BegunTyped DEF DraftInv
    <2> HIDE DEF sv
    <2>4. QED
      BY <1>1, <1>3, <2>2, <2>3, ActKeeps
  <1>10. QED
    BY <1>4, <1>5, <1>6, <1>7, <1>8, <1>9

\* EditProductModal: the other two editors are closed under it, or stay as they
\* are.
LEMMA FormActs ==
    ASSUME DraftInv, EditAssumption,
           \/ OpenForm \/ CloseForm \/ SaveForm \/ Delete
           \/ \E t \in Texts : TypeForm(t) \/ PickTables(t)
    PROVE  DraftInv'
  <1>1. /\ title \in Drafts /\ doc \in Documents
        /\ form \in Forms \cup {None} /\ editOpen \in BOOLEAN
        /\ form # None => editOpen /\ Displayed /\ selected \in Products
        /\ saves \in Mutations /\ Len(saves) <= MaxSaves
    BY OnDisplay DEF DraftInv, TypeOK, Mutations, DraftsShown
  <1>2. /\ title.mode = "edit" => Displayed /\ title.of = selected /\ title.base = Detail.desc
        /\ doc.open => Displayed /\ doc.base = Detail.doc
    BY DEF DraftInv, DraftsOfTheDisplay, DraftsShown
  <1>3. CASE OpenForm
    <2>1. Displayed /\ FormOf(Detail) \in Forms
      BY <1>3, OnDisplay DEF OpenForm, Uncovered, DraftInv
    <2>2. QED
      BY <1>1, <1>2, <1>3, <2>1, ActKeeps DEF OpenForm
  <1>4. CASE CloseForm
    BY <1>1, <1>2, <1>4, ActKeeps DEF CloseForm
  <1>5. ASSUME NEW t \in Texts, TypeForm(t)
        PROVE  DraftInv'
    <2> DEFINE fm == [form EXCEPT !.doc = t]
    <2>1. form # None /\ fm \in Forms
      BY <1>1, <1>5 DEF Forms, TypeForm
    <2>2. Act(title, doc, TRUE, fm, saves) /\ Elsewhere
      BY <1>5 DEF TypeForm
    <2> HIDE DEF fm
    <2>3. QED
      BY <1>1, <1>2, <2>1, <2>2, ActKeeps
  <1>6. ASSUME NEW t \in Texts, PickTables(t)
        PROVE  DraftInv'
    <2> DEFINE fm == [form EXCEPT !.tables = t]
    <2>1. form # None /\ fm \in Forms
      BY <1>1, <1>6 DEF Forms, PickTables
    <2>2. Act(title, doc, TRUE, fm, saves) /\ Elsewhere
      BY <1>6 DEF PickTables
    <2> HIDE DEF fm
    <2>3. QED
      BY <1>1, <1>2, <2>1, <2>2, ActKeeps
  <1>7. CASE SaveForm
    <2> DEFINE body == [doc |-> form.doc, tables |-> form.tables]
               sv == Begun("form", body)
    <2>1. body \in Forms
      BY <1>1, <1>7 DEF Forms, SaveForm
    <2>2. CanBegin /\ Act(title, doc, TRUE, form, sv) /\ Elsewhere
      BY <1>7 DEF SaveForm
    <2> HIDE DEF body
    <2>3. sv \in Mutations /\ Len(sv) <= MaxSaves
      BY <1>1, <1>7, <2>1, <2>2, BegunTyped  DEF DraftInv, SaveForm
    <2> HIDE DEF sv
    <2>4. QED
      BY <1>1, <1>2, <2>2, <2>3, ActKeeps
  <1>8. CASE Delete
    <2> DEFINE body == [field |-> "doc", text |-> First]
               sv == Begun("remove", body)
    <2>1. body \in [field : Fields, text : Texts]
      BY DEF Fields, EditAssumption
    <2>2. CanBegin /\ Act(title, doc, TRUE, form, sv) /\ Elsewhere
      BY <1>8 DEF Delete
    <2> HIDE DEF body
    <2>3. sv \in Mutations /\ Len(sv) <= MaxSaves
      BY <1>1, <1>8, <2>1, <2>2, BegunTyped  DEF DraftInv, Delete
    <2> HIDE DEF sv
    <2>4. QED
      BY <1>1, <1>2, <2>2, <2>3, ActKeeps
  <1>9. QED
    BY <1>3, <1>4, <1>5, <1>6, <1>7, <1>8

\* An answer, or a fetch, that renders the page anew.
LEMMA PageSteps ==
    ASSUME DraftInv, EditAssumption,
           \/ Retry
           \/ \E p \in Products : Select(p) \/ Arrive(p) \/ FetchFails(p)
           \/ \E i \in Pending : TextSaved(i) \/ FormSaved(i) \/ Removed(i)
    PROVE  DraftInv'
  <1>1. /\ saves \in Mutations /\ Len(saves) <= MaxSaves /\ editOpen \in BOOLEAN
        /\ selected \in Products \cup {None} /\ query \in Queries
        /\ rows \in [Products -> Row] /\ gone \subseteq Products
        /\ excused \subseteq Products /\ trouble \in 0 .. MaxTrouble
    BY DEF DraftInv, TypeOK, Mutations, Queries
  <1>2. Trouble => trouble' \in 0 .. MaxTrouble
    BY <1>1, EditAssumption DEF Trouble, EditAssumption
  <1>3. ASSUME NEW i \in Pending
        PROVE  Over(i) \in Mutations /\ Len(Over(i)) <= MaxSaves /\ saves[i] \in Saves
    BY <1>3, OverTyped DEF DraftInv, TypeOK, Pending
  <1>4. CASE Retry
    <2>1. PICK q : q = [query EXCEPT ![selected] = Refetched(@)]
      OBVIOUS
    <2>2. selected \in Products /\ query[selected] \in Query
      BY <1>1, <1>4 DEF Retry, Queries
    <2>3. q \in Queries
      BY <1>1, <2>1, <2>2, RefetchedShows DEF Queries
    <2>4. /\ Rerender(selected, q, saves, editOpen)
          /\ UNCHANGED <<rows, gone, excused, trouble>>
      BY <1>4, <2>1 DEF Retry
    <2>5. QED
      BY <1>1, <2>3, <2>4, RerenderKeeps
  <1>5. ASSUME NEW p \in Products, Select(p)
        PROVE  DraftInv'
    <2>1. PICK old \in BOOLEAN : Rerender(p, Observed(query, p, old), saves, editOpen)
      BY <1>5 DEF Select
    <2>2. Observed(query, p, old) \in Queries
      BY <1>1, ObservedTyped
    <2>3. Trouble /\ UNCHANGED <<rows, gone, excused>>
      BY <1>5 DEF Select
    <2>4. PICK q \in Queries : q = Observed(query, p, old)
      BY <2>2
    <2>5. Rerender(p, q, saves, editOpen)
      BY <2>1, <2>4
    <2>6. QED
      BY <1>1, <1>2, <2>3, <2>5, RerenderKeeps
  <1>6. ASSUME NEW p \in Products, Arrive(p)
        PROVE  DraftInv'
    <2>1. PICK q : q = [query EXCEPT ![p] = [Unasked EXCEPT !.data = query[p].got]]
      OBVIOUS
    <2>2. query[p].got \in Row \cup {None}
      BY <1>1 DEF Queries, Query
    <2>3. [Unasked EXCEPT !.data = query[p].got] \in Query
      BY <2>2 DEF Unasked, Query
    <2>4. q \in Queries
      BY <1>1, <2>1, <2>3 DEF Queries
    <2>5. Rerender(selected, q, saves, editOpen) /\ UNCHANGED <<rows, gone, excused, trouble>>
      BY <1>6, <2>1 DEF Arrive
    <2>6. QED
      BY <1>1, <2>4, <2>5, RerenderKeeps
  <1>7. ASSUME NEW p \in Products, FetchFails(p)
        PROVE  DraftInv'
    <2> DEFINE failed == [query[p] EXCEPT !.error = TRUE, !.invalid = TRUE,
                                          !.fetch = "none", !.got = None]
    <2>1. PICK q : q = [query EXCEPT ![p] = failed]
      OBVIOUS
    <2>2. query[p] \in Query
      BY <1>1 DEF Queries
    <2>3. failed \in Query
      BY <2>2 DEF Query
    <2>4. /\ Rerender(selected, q, saves, editOpen) /\ UNCHANGED <<rows, gone, excused>>
          /\ Trouble \/ UNCHANGED trouble
      BY <1>7, <2>1 DEF FetchFails
    <2> HIDE DEF failed
    <2>5. q \in Queries
      BY <1>1, <2>1, <2>3 DEF Queries
    <2>6. QED
      BY <1>1, <1>2, <2>4, <2>5, RerenderKeeps
  <1>8. ASSUME NEW i \in Pending, TextSaved(i) \/ FormSaved(i)
        PROVE  DraftInv'
    <2>1. saves[i].key \in Products \cup {None} /\ saves[i].to \in Products
      BY <1>3 DEF Saves, SavesOf
    <2>2. Invalidated(query, saves[i].key, selected) \in Queries
      BY <1>1, <2>1, InvalidatedShows, EditAssumption DEF EditAssumption
    <2>3. PICK q \in Queries : q = Invalidated(query, saves[i].key, selected)
      BY <2>2
    <2>4. PICK sv \in Mutations : sv = Over(i) /\ Len(sv) <= MaxSaves
      BY <1>3
    <2>5. /\ UNCHANGED <<rows, gone, trouble>>
          /\ excused' = excused \/ excused' = excused \cup {saves[i].to}
      BY <1>8 DEF TextSaved, FormSaved, AfterAnswer
    <2>6. /\ excused' \subseteq Products /\ rows' \in [Products -> Row]
          /\ gone' \subseteq Products /\ trouble' \in 0 .. MaxTrouble
      BY <1>1, <2>1, <2>5
    <2>7. Rerender(selected, q, sv, editOpen) \/ Rerender(selected, q, sv, FALSE)
      BY <1>8, <2>3, <2>4 DEF TextSaved, FormSaved
    <2>8. CASE Rerender(selected, q, sv, editOpen)
      BY <1>1, <2>4, <2>6, <2>8, RerenderKeeps
    <2>9. CASE Rerender(selected, q, sv, FALSE)
      BY <1>1, <2>4, <2>6, <2>9, RerenderKeeps
    <2>10. QED
      BY <2>7, <2>8, <2>9
  <1>9. ASSUME NEW i \in Pending, Removed(i)
        PROVE  DraftInv'
    <2>1. PICK sv \in Mutations : sv = Over(i) /\ Len(sv) <= MaxSaves
      BY <1>3
    <2>2. Rerender(None, query, sv, FALSE) /\ Elsewhere
      BY <1>9, <2>1 DEF Removed
    <2>3. QED
      BY <1>1, <2>1, <2>2, RerenderKeeps DEF Elsewhere
  <1>10. QED
    BY <1>4, <1>5, <1>6, <1>7, <1>8, <1>9

\* A restore that is still on display closes its list; the drafts stay.
LEMMA RestoredKeeps ==
    ASSUME DraftInv, EditAssumption, NEW i \in Pending, Restored(i)
    PROVE  DraftInv'
  <1> DEFINE tl == IF saves[i].observed /\ saves[i].body.field = "desc" THEN NoDraft ELSE title
             dc == IF saves[i].observed /\ saves[i].body.field = "doc"
                   THEN [doc EXCEPT !.mode = "edit"] ELSE doc
  <1>1. /\ saves[i].key \in Products \cup {None} /\ saves[i].to \in Products
        /\ Over(i) \in Mutations /\ Len(Over(i)) <= MaxSaves
        /\ query \in Queries /\ selected \in Products \cup {None}
    BY OverTyped DEF DraftInv, TypeOK, Pending, Saves, SavesOf, Queries
  <1>2. /\ Invalidated(query, saves[i].key, selected) \in Queries
        /\ \A r \in Products :
             /\ Invalidated(query, saves[i].key, selected)[r].data = query[r].data
             /\ Displays(r, query) =>
                  Displays(r, Invalidated(query, saves[i].key, selected))
    BY <1>1, InvalidatedShows, EditAssumption DEF EditAssumption
  <1>3. PICK q \in Queries : q = Invalidated(query, saves[i].key, selected)
    BY <1>2
  <1>4. PICK sv \in Mutations : sv = Over(i) /\ Len(sv) <= MaxSaves
    BY <1>1
  <1>5. /\ selected' = selected /\ query' = q /\ title' = tl /\ doc' = dc
        /\ editOpen' = editOpen /\ form' = form
        /\ saves' = Observers(sv, selected, tl, dc, form)
        /\ UNCHANGED <<rows, gone, trouble>>
        /\ excused' = excused \/ excused' = excused \cup {saves[i].to}
    BY <1>3, <1>4, Zenon DEF Restored, Show, AfterAnswer
  <1>6. saves' \in Mutations /\ Len(saves') <= MaxSaves
    BY <1>1, <1>4, <1>5, RenderedSaves
  <1>7. /\ tl \in Drafts /\ (tl.mode = "edit" => tl = title)
        /\ dc \in Documents /\ dc.open = doc.open /\ dc.base = doc.base
    BY EditAssumption DEF EditAssumption, DraftInv, TypeOK, NoDraft, Drafts, Documents
  <1> HIDE DEF tl, dc
  <1>8. TypeOK'
    BY <1>1, <1>5, <1>6, <1>7 DEF DraftInv, TypeOK, Queries, Mutations
  <1>9. Displayed => Displayed' /\ Detail' = Detail
    <2>1. Displayed => selected \in Products
      BY <1>1 DEF Displayed, Displays
    <2>2. QED
      BY <1>2, <1>3, <1>5, <2>1 DEF Displayed, Detail
  <1>10. DraftsShown' /\ DraftsOfTheDisplay'
    BY <1>5, <1>7, <1>9 DEF DraftInv, DraftsShown, DraftsOfTheDisplay
  <1>11. QED
    BY <1>8, <1>10 DEF DraftInv

\* The steps away from the page: what it shows stays.
LEMMA Unseen ==
    ASSUME DraftInv,
           UNCHANGED <<selected, editors>>, query' \in Queries,
           \A r \in Products : query'[r].data = query[r].data /\ query'[r].error = query[r].error,
           saves' \in Mutations, Len(saves') <= MaxSaves,
           rows' \in [Products -> Row], gone' \subseteq Products,
           excused' \subseteq Products, trouble' \in 0 .. MaxTrouble
    PROVE  DraftInv'
  <1>1. TypeOK'
    BY DEF DraftInv, TypeOK, Queries, Mutations, editors
  <1>2. Displayed => Displayed' /\ Detail' = Detail
    BY DEF DraftInv, TypeOK, Displayed, Displays, Detail, editors
  <1>3. DraftsShown' /\ DraftsOfTheDisplay'
    BY <1>2 DEF DraftInv, DraftsShown, DraftsOfTheDisplay, editors
  <1>4. QED
    BY <1>1, <1>3 DEF DraftInv

\* What a mutation writes keeps the row's type.
LEMMA CommitTyped ==
    ASSUME DraftInv, NEW i \in Pending, Commit(i)
    PROVE  rows' \in [Products -> Row] /\ gone' \subseteq Products
  <1> DEFINE s == saves[i]
             row == rows[s.to]
             new == CASE s.by = "remove" -> row
                      [] s.by = "form" -> IF s.st = "sent" THEN [row EXCEPT !.doc = s.body.doc]
                                          ELSE [row EXCEPT !.tables = s.body.tables]
                      [] OTHER -> [row EXCEPT ![s.body.field] = s.body.text]
  <1>1. s \in Saves
    BY DEF DraftInv, TypeOK, Pending
  <1>2. s.to \in Products /\ row \in Row
    BY <1>1 DEF DraftInv, TypeOK, Saves, SavesOf
  <1>3. s.by = "form" => s.body \in Forms
    BY <1>1 DEF Saves, SavesOf
  <1>4. s.by # "form" => s.body \in [field : Fields, text : Texts]
    BY <1>1 DEF Saves, SavesOf
  <1>5. new \in Row
    <2>1. CASE s.by = "remove"
      BY <1>2, <2>1
    <2>2. CASE s.by = "form"
      <3>1. /\ s.body.doc \in Texts /\ s.body.tables \in Texts
        BY <1>3, <2>2 DEF Forms
      <3>2. /\ [row EXCEPT !.doc = s.body.doc] \in Row
            /\ [row EXCEPT !.tables = s.body.tables] \in Row
        BY <1>2, <3>1 DEF Row
      <3>3. QED
        BY <2>2, <3>2
    <2>3. CASE s.by \notin {"remove", "form"}
      <3>1. s.body.field \in {"desc", "doc"} /\ s.body.text \in Texts
        BY <1>4, <2>3 DEF Fields
      <3>2. /\ [row EXCEPT !["desc"] = s.body.text] \in Row
            /\ [row EXCEPT !["doc"] = s.body.text] \in Row
        BY <1>2, <3>1 DEF Row
      <3>3. new = [row EXCEPT ![s.body.field] = s.body.text]
        BY <2>3, Zenon
      <3>4. QED
        BY <3>1, <3>2, <3>3
    <2>4. QED
      BY <2>1, <2>2, <2>3
  <1>6. /\ rows' = [rows EXCEPT ![s.to] = new]
        /\ gone' = IF s.by = "remove" THEN gone \cup {s.to} ELSE gone
    BY Zenon DEF Commit
  <1> HIDE DEF s, new
  <1>7. QED
    BY <1>2, <1>5, <1>6 DEF DraftInv, TypeOK

\* The backend serves reads and mutations, and others write.
LEMMA BackendSteps ==
    ASSUME DraftInv, EditAssumption,
           \/ \E p \in Products : Serve(p)
           \/ \E i \in Pending : Backend(i)
           \/ \E p \in Products, f \in Fields, t \in Texts : OthersWrite(p, f, t)
    PROVE  DraftInv'
  <1>1. /\ saves \in Mutations /\ Len(saves) <= MaxSaves
        /\ query \in Queries /\ rows \in [Products -> Row] /\ gone \subseteq Products
        /\ excused \subseteq Products /\ trouble \in 0 .. MaxTrouble
    BY DEF DraftInv, TypeOK, Mutations, Queries
  <1>2. Trouble => trouble' \in 0 .. MaxTrouble
    BY <1>1 DEF Trouble, EditAssumption
  <1>3. ASSUME NEW i \in Pending, NEW st \in {"sent", "second", "ok", "bad"}, Set(i, st)
        PROVE  saves' \in Mutations /\ Len(saves') <= MaxSaves
    <2>1. i \in 1 .. Len(saves) /\ saves[i] \in Saves
      BY <1>1, <1>3 DEF Pending, Mutations
    <2>2. [saves[i] EXCEPT !.st = st] \in Saves
      BY <2>1, <1>3 DEF Saves, SavesOf
    <2>3. saves' = [saves EXCEPT ![i] = [saves[i] EXCEPT !.st = st]]
      BY <1>3 DEF Set
    <2>4. saves' \in Mutations /\ Len(saves') = Len(saves)
      BY <1>1, <2>1, <2>2, <2>3 DEF Mutations
    <2>5. QED
      BY <1>1, <2>4
  <1>4. ASSUME NEW i \in Pending
        PROVE  saves[i].to \in Products
    BY <1>4 DEF Pending, DraftInv, TypeOK, Saves, SavesOf
  <1>5. ASSUME PageLeft
        PROVE  /\ UNCHANGED <<selected, editors>> /\ query' \in Queries
               /\ \A r \in Products : /\ query'[r].data = query[r].data
                                      /\ query'[r].error = query[r].error
    BY <1>1, <1>5 DEF PageLeft
  <1>6. ASSUME NEW p \in Products, Serve(p)
        PROVE  DraftInv'
    <2>1. query[p] \in Query /\ rows[p] \in Row
      BY <1>1 DEF Queries
    <2> DEFINE served == [query[p] EXCEPT !.fetch = "served", !.got = rows[p]]
    <2>2. /\ served \in Query
          /\ served.data = query[p].data /\ served.error = query[p].error
      BY <2>1 DEF Query
    <2>3. /\ query' = [query EXCEPT ![p] = served] /\ excused' = excused \ {p}
          /\ UNCHANGED <<rows, gone, selected, editors, saves, trouble>>
      BY <1>1, <1>6 DEF Serve, Queries
    <2> HIDE DEF served
    <2>4. /\ query' \in Queries
          /\ \A r \in Products : /\ query'[r].data = query[r].data
                                 /\ query'[r].error = query[r].error
      BY <1>1, <2>2, <2>3 DEF Queries
    <2>5. QED
      BY <1>1, <2>3, <2>4, Unseen
  <1>7. ASSUME NEW i \in Pending, Succeed(i)
        PROVE  DraftInv'
    <2>1. Set(i, "second") \/ Set(i, "ok")
      BY <1>7 DEF Succeed
    <2>2. Commit(i) /\ PageLeft /\ UNCHANGED <<excused, trouble>>
      BY <1>7 DEF Succeed
    <2>3. saves' \in Mutations /\ Len(saves') <= MaxSaves
      BY <1>3, <2>1
    <2>4. QED
      BY <1>1, <1>5, <2>2, <2>3, CommitTyped, Unseen
  <1>8. ASSUME NEW i \in Pending, Lose(i)
        PROVE  DraftInv'
    <2>1. /\ Trouble /\ Commit(i) /\ Set(i, "bad") /\ PageLeft
          /\ excused' = excused \cup {saves[i].to}
      BY <1>8 DEF Lose
    <2>2. saves' \in Mutations /\ Len(saves') <= MaxSaves
      BY <1>3, <2>1
    <2>3. excused' \subseteq Products
      BY <1>1, <1>4, <2>1
    <2>4. QED
      BY <1>1, <1>2, <1>5, <2>1, <2>2, <2>3, CommitTyped, Unseen
  <1>9. ASSUME NEW i \in Pending, Refuse(i)
        PROVE  DraftInv'
    <2>1. /\ Trouble \/ UNCHANGED trouble
          /\ Set(i, "bad") /\ PageLeft /\ UNCHANGED <<rows, gone>>
          /\ excused' = excused \cup {saves[i].to} \/ excused' = excused
      BY <1>9 DEF Refuse
    <2>2. saves' \in Mutations /\ Len(saves') <= MaxSaves
      BY <1>3, <2>1
    <2>3. /\ excused' \subseteq Products /\ trouble' \in 0 .. MaxTrouble
          /\ rows' \in [Products -> Row] /\ gone' \subseteq Products
      BY <1>1, <1>2, <1>4, <2>1
    <2>4. QED
      BY <1>1, <1>5, <2>1, <2>2, <2>3, Unseen
  <1>10. ASSUME NEW p \in Products, NEW f \in Fields, NEW t \in Texts, OthersWrite(p, f, t)
         PROVE  DraftInv'
    <2>1. /\ Trouble /\ PageLeft /\ UNCHANGED <<gone, saves>>
          /\ excused' = excused \cup {p}
          /\ rows' = [rows EXCEPT ![p] = [rows[p] EXCEPT ![f] = t]]
      BY <1>10 DEF OthersWrite
    <2>2. rows[p] \in Row /\ f \in {"desc", "doc"}
      BY <1>1, <1>10 DEF Fields
    <2>3. [rows[p] EXCEPT !["desc"] = t] \in Row /\ [rows[p] EXCEPT !["doc"] = t] \in Row
      BY <2>2, <1>10 DEF Row
    <2>4. [rows[p] EXCEPT ![f] = t] \in Row
      BY <2>2, <2>3
    <2>5. rows' \in [Products -> Row] /\ excused' \subseteq Products
      BY <1>1, <2>1, <2>4
    <2>6. QED
      BY <1>1, <1>2, <1>5, <2>1, <2>5, Unseen
  <1>11. QED
    BY <1>6, <1>7, <1>8, <1>9, <1>10 DEF Backend

LEMMA NextDraftInv == DraftInv /\ [Next]_vars => DraftInv'
  <1> SUFFICES ASSUME DraftInv, [Next]_vars PROVE DraftInv'
    OBVIOUS
  <1>1. CASE User
    BY <1>1, EditAssumption, TitleActs, DocActs, FormActs, PageSteps DEF User
  <1>2. CASE \E p \in Products : Serve(p) \/ Arrive(p) \/ FetchFails(p)
    BY <1>2, EditAssumption, BackendSteps, PageSteps
  <1>3. CASE \E i \in Pending : Backend(i)
    BY <1>3, EditAssumption, BackendSteps
  <1>4. ASSUME NEW i \in Pending, Answered(i)
        PROVE  DraftInv'
    <2>1. CASE Failed(i)
      <3>1. PICK sv \in Mutations : sv = Over(i) /\ Len(sv) <= MaxSaves
        BY OverTyped DEF DraftInv
      <3>2. Act(title, doc, editOpen, form, sv) /\ Elsewhere
        BY <2>1, <3>1 DEF Failed
      <3>3. /\ title \in Drafts /\ doc \in Documents /\ editOpen \in BOOLEAN
            /\ form \in Forms \cup {None} /\ (form # None => editOpen /\ Displayed)
            /\ title.mode = "edit" => /\ Displayed /\ title.of = selected
                                     /\ title.base = Detail.desc
            /\ doc.open => Displayed /\ doc.base = Detail.doc
        BY DEF DraftInv, TypeOK, DraftsShown, DraftsOfTheDisplay
      <3>4. QED
        BY <3>1, <3>2, <3>3, EditAssumption, ActKeeps
    <2>2. CASE TextSaved(i) \/ FormSaved(i) \/ Removed(i)
      BY <1>4, <2>2, EditAssumption, PageSteps
    <2>3. CASE Restored(i)
      BY <1>4, <2>3, EditAssumption, RestoredKeeps
    <2>4. QED
      BY <1>4, <2>1, <2>2, <2>3 DEF Answered
  <1>5. CASE \E p \in Products, f \in Fields, t \in Texts : OthersWrite(p, f, t)
    BY <1>5, EditAssumption, BackendSteps
  <1>6. CASE UNCHANGED vars
    BY <1>6 DEF vars, editors, DraftInv, TypeOK, DraftsShown, DraftsOfTheDisplay, Displayed,
                Detail, Pending
  <1>7. QED
    BY <1>1, <1>2, <1>3, <1>4, <1>5, <1>6 DEF Next

-----------------------------------------------------------------------------
(* Mutations and reads                                                     *)

\* Mutations of the same standing owe the same.
LEMMA SameOwing ==
    ASSUME NEW a, NEW b, DOMAIN a = DOMAIN b,
           \A i \in DOMAIN a : SameStanding(a[i], b[i])
    PROVE  /\ \A p : Owing(a, p) => Owing(b, p)
           /\ RemovedAreGone(a) => RemovedAreGone(b)
  <1>1. \A p : Owing(a, p) => Owing(b, p)
    BY DEF SameStanding, Owing, Owes
  <1>2. RemovedAreGone(a) => RemovedAreGone(b)
    BY DEF SameStanding, RemovedAreGone
  <1>3. QED
    BY <1>1, <1>2

\* A render leaves every answer owed that was.
LEMMA RenderOwes ==
    ASSUME NEW sv \in Mutations, NEW p \in Products \cup {None},
           NEW tl, NEW dc, NEW fm
    PROVE  /\ \A r : Owing(sv, r) => Owing(Observers(sv, p, tl, dc, fm), r)
           /\ RemovedAreGone(sv) => RemovedAreGone(Observers(sv, p, tl, dc, fm))
  <1> DEFINE ob == Observers(sv, p, tl, dc, fm)
  <1>1. \A i \in DOMAIN sv : sv[i] \in Saves \cup {None}
    BY DEF Mutations
  <1>2. DOMAIN ob = DOMAIN sv /\ \A i \in DOMAIN sv : SameStanding(sv[i], ob[i])
    BY <1>1, ObservedAfterTyped DEF Observers
  <1> HIDE DEF ob
  <1>3. (\A r : Owing(sv, r) => Owing(ob, r)) /\ (RemovedAreGone(sv) => RemovedAreGone(ob))
    BY <1>2, SameOwing
  <1>4. QED
    BY <1>3 DEF ob

\* A mutation just begun owes nothing, and stops no other from owing.
LEMMA BegunOwes ==
    ASSUME TypeOK, NEW by, NEW body
    PROVE  /\ \A r : Owing(saves, r) => Owing(Begun(by, body), r)
           /\ RemovedAreGone(saves) => RemovedAreGone(Begun(by, body))
  <1> DEFINE s == [by |-> by, to |-> selected, key |-> selected, observed |-> TRUE,
                   body |-> body, st |-> "sent"]
             older(t) == IF t # None /\ by = "text" /\ t.by = by
                         THEN [t EXCEPT !.observed = FALSE] ELSE t
             old == [i \in DOMAIN saves |-> older(saves[i])]
  <1>1. saves \in Mutations /\ Len(saves) \in Nat /\ DOMAIN saves = 1 .. Len(saves)
    BY DEF TypeOK, Mutations
  <1>2. ASSUME NEW t \in Saves \cup {None}
        PROVE  older(t) \in Saves \cup {None} /\ SameStanding(t, older(t))
    <2>1. CASE t # None /\ by = "text" /\ t.by = by
      <3>1. [t EXCEPT !.observed = FALSE] \in Saves
        BY <1>2, <2>1 DEF Saves, SavesOf
      <3>2. [t EXCEPT !.observed = FALSE] # None
        BY <3>1, NoneAssumption
      <3>3. /\ [t EXCEPT !.observed = FALSE].to = t.to
            /\ [t EXCEPT !.observed = FALSE].st = t.st
            /\ [t EXCEPT !.observed = FALSE].by = t.by
        BY <1>2, <2>1 DEF Saves, SavesOf
      <3>4. QED
        BY <2>1, <3>1, <3>2, <3>3 DEF SameStanding
    <2>2. CASE ~(t # None /\ by = "text" /\ t.by = by)
      BY <1>2, <2>2 DEF SameStanding
    <2>3. QED
      BY <2>1, <2>2
  <1>3. \A i \in DOMAIN saves : saves[i] \in Saves \cup {None}
    BY <1>1 DEF Mutations
  <1>4. s.st = "sent"
    OBVIOUS
  <1>5. Begun(by, body) = Append(old, s)
    BY Zenon DEF Begun
  <1> HIDE DEF s, older
  <1>6. /\ DOMAIN old = DOMAIN saves
        /\ \A i \in DOMAIN saves : SameStanding(saves[i], old[i])
    BY <1>2, <1>3
  <1>7. old \in Seq(Saves \cup {None}) /\ Len(old) = Len(saves)
    <2>1. old \in [1 .. Len(saves) -> Saves \cup {None}]
      BY <1>1, <1>2, <1>3
    <2>2. QED
      BY <1>1, <2>1
  <1>8. (\A r : Owing(saves, r) => Owing(old, r)) /\ (RemovedAreGone(saves) => RemovedAreGone(old))
    BY <1>6, SameOwing
  <1> HIDE DEF old
  <1> DEFINE new == Append(old, s)
  <1>9. /\ DOMAIN new = 1 .. Len(old) + 1 /\ Len(old) \in Nat
        /\ \A i \in 1 .. Len(old) : new[i] = old[i]
        /\ new[Len(old) + 1] = s
        /\ DOMAIN old = 1 .. Len(old)
    BY <1>1, <1>7
  <1> HIDE DEF new
  <1>10. DOMAIN old \subseteq DOMAIN new
    BY <1>9
  <1>11. \A r : Owing(old, r) => Owing(new, r)
    BY <1>9, <1>10 DEF Owing
  <1>12. \A i \in DOMAIN new : i \in DOMAIN old \/ i = Len(old) + 1
    BY <1>9
  <1>13. RemovedAreGone(old) => RemovedAreGone(new)
    BY <1>4, <1>9, <1>12 DEF RemovedAreGone
  <1>14. QED
    BY <1>5, <1>8, <1>11, <1>13 DEF new

\* A mutation that is over owes nothing any more, and nothing else changes.
LEMMA OverOwes ==
    ASSUME TypeOK, NEW i \in Pending
    PROVE  /\ \A r : Owing(saves, r) /\ ~Owes(saves[i], r) => Owing(Over(i), r)
           /\ RemovedAreGone(saves) => RemovedAreGone(Over(i))
  <1>1. /\ DOMAIN Over(i) = DOMAIN saves /\ Over(i)[i] = None
        /\ \A j \in DOMAIN saves \ {i} : Over(i)[j] = saves[j]
    BY DEF Over, Pending, TypeOK
  <1>2. \A r : Owing(saves, r) /\ ~Owes(saves[i], r) => Owing(Over(i), r)
    BY <1>1 DEF Owing
  <1>3. RemovedAreGone(saves) => RemovedAreGone(Over(i))
    BY <1>1 DEF RemovedAreGone
  <1>4. QED
    BY <1>2, <1>3

\* A fetch begun anew has read nothing, and one that goes on has what it had.
LEMMA RefetchedCurrent ==
    ASSUME NEW q \in Query
    PROVE  /\ Refetched(q).fetch # "none"
           /\ Refetched(q).fetch = "served" => Refetched(q) = q
           /\ q.fetch = "served" /\ q.data # None => Refetched(q).fetch = "sent"
           /\ ~MarkedAtRest(Refetched(q))
           /\ \A row : Current(q, row) => Current(Refetched(q), row)
  <1>1. CASE q.data = None /\ q.fetch # "none"
    BY <1>1 DEF Refetched, MarkedAtRest
  <1>2. CASE ~(q.data = None /\ q.fetch # "none")
    <2>1. Refetched(q).fetch = "sent"
      BY <1>2 DEF Refetched, Query
    <2>2. QED
      BY <2>1 DEF MarkedAtRest, Current
  <1>3. QED
    BY <1>1, <1>2

\* An invalidation makes no query claim more than before, and the one it is of
\* claims nothing unless a fetch goes on that has read already.
LEMMA InvalidatedCurrent ==
    ASSUME NEW q \in Queries, NEW p \in Products \cup {None},
           NEW shown \in Products \cup {None}, NEW r \in Products
    PROVE  /\ \A row : Current(q[r], row) => Current(Invalidated(q, p, shown)[r], row)
           /\ r = p /\ ~(q[r].fetch = "served" /\ (r # shown \/ q[r].data = None)) =>
                \A row : Current(Invalidated(q, p, shown)[r], row)
           /\ r = shown /\ ~MarkedAtRest(q[r]) => ~MarkedAtRest(Invalidated(q, p, shown)[r])
  <1>1. CASE p = None \/ p # r
    <2>1. Invalidated(q, p, shown)[r] = q[r]
      BY <1>1 DEF Invalidated, Queries
    <2>2. CASE p = None /\ r = p
      BY <2>2, EditAssumption DEF EditAssumption
    <2>3. QED
      BY <1>1, <2>1, <2>2
  <1>2. CASE p # None /\ p = r
    <2> DEFINE marked == [q[p] EXCEPT !.invalid = TRUE]
               new == IF p = shown THEN Refetched(marked) ELSE marked
    <2>1. p \in Products /\ q[p] \in Query
      BY <1>2 DEF Queries
    <2>2. /\ marked \in Query /\ marked.data = q[p].data /\ marked.invalid = TRUE
          /\ marked.error = q[p].error /\ marked.fetch = q[p].fetch
          /\ marked.got = q[p].got
      BY <2>1 DEF Query
    <2>3. Invalidated(q, p, shown)[r] = new
      BY <1>2, <2>1 DEF Invalidated, Queries
    <2>4. /\ \A row : Current(q[r], row) => Current(marked, row)
          /\ q[r].fetch # "served" => \A row : Current(marked, row)
      BY <1>2, <2>2 DEF Current
    <2>5. CASE p # shown
      BY <1>2, <2>3, <2>4, <2>5
    <2>6. CASE p = shown
      <3>1. /\ Refetched(marked).fetch # "none"
            /\ Refetched(marked).fetch = "served" => Refetched(marked) = marked
            /\ marked.fetch = "served" /\ marked.data # None => Refetched(marked).fetch = "sent"
            /\ ~MarkedAtRest(Refetched(marked))
            /\ \A row : Current(marked, row) => Current(Refetched(marked), row)
        BY <2>2, RefetchedCurrent
      <3>2. new = Refetched(marked)
        BY <2>6
      <3>3. ASSUME ~(q[r].fetch = "served" /\ q[r].data = None), NEW row
            PROVE  Current(Refetched(marked), row)
        <4>1. Refetched(marked).fetch # "served"
          BY <1>2, <2>2, <3>1, <3>3
        <4>2. QED
          BY <3>1, <4>1 DEF Current
      <3> HIDE DEF marked
      <3>4. QED
        BY <1>2, <2>3, <2>4, <2>6, <3>1, <3>2, <3>3
    <2>7. QED
      BY <2>5, <2>6
  <1>3. QED
    BY <1>1, <1>2

-----------------------------------------------------------------------------
(* What the page shows                                                     *)

\* A step of the page: what is owed after it was owed before, and where nothing
\* is owed its queries are current.
LEMMA PageCurrent ==
    ASSUME IInv, DraftInv',
           NEW sv \in Mutations, NEW p \in Products \cup {None}, NEW tl, NEW dc, NEW fm,
           saves' = Observers(sv, p, tl, dc, fm), RemovedAreGone(sv),
           UNCHANGED <<rows, gone>>,
           \A r \in Products : r \notin excused' \cup gone /\ ~Owing(sv, r)
                               => Current(query'[r], rows[r]),
           DisplayNotMarked'
    PROVE  IInv'
  <1>1. (\A r : Owing(sv, r) => Owing(saves', r)) /\ RemovedAreGone(saves')
    BY RenderOwes
  <1>2. RemovedAreGone(saves)'
    BY <1>1 DEF RemovedAreGone
  <1>3. ASSUME NEW r \in Products, r \notin excused' \cup gone', ~Owing(saves, r)'
        PROVE  Current(query'[r], rows'[r])
    <2>1. Owing(saves, r)' = Owing(saves', r)
      BY DEF Owing, Owes
    <2>2. QED
      BY <1>1, <1>3, <2>1
  <1>4. ReadsAreCurrent'
    BY <1>3 DEF ReadsAreCurrent, Current
  <1>5. QED
    BY <1>2, <1>4 DEF IInv

\* The user's acts in the editors change no query.
LEMMA ActsCurrent ==
    ASSUME IInv, DraftInv', Elsewhere,
           NEW sv \in Mutations, NEW tl, NEW dc, NEW open, NEW fm,
           Act(tl, dc, open, fm, sv), RemovedAreGone(sv),
           \A r : Owing(saves, r) => Owing(sv, r)
    PROVE  IInv'
  <1>1. /\ selected' = selected /\ query' = query
        /\ saves' = Observers(sv, selected, tl, dc, fm)
        /\ UNCHANGED <<rows, gone, excused>>
    BY Zenon DEF Act, Show, Elsewhere
  <1>2. selected \in Products \cup {None}
    BY DEF IInv, DraftInv, TypeOK
  <1>3. \A r \in Products : r \notin excused' \cup gone /\ ~Owing(sv, r)
                            => Current(query'[r], rows[r])
    BY <1>1 DEF IInv, ReadsAreCurrent
  <1>4. DisplayNotMarked'
    BY <1>1 DEF IInv, DisplayNotMarked, MarkedAtRest
  <1>5. QED
    BY <1>1, <1>2, <1>3, <1>4, PageCurrent

\* An act that begins no mutation,
LEMMA EditsCurrent ==
    ASSUME IInv, DraftInv', Elsewhere, NEW tl, NEW dc, NEW open, NEW fm,
           Act(tl, dc, open, fm, saves)
    PROVE  IInv'
  <1>1. saves \in Mutations /\ RemovedAreGone(saves)
    BY DEF IInv, DraftInv, TypeOK, Mutations
  <1>2. PICK sv \in Mutations : sv = saves
    BY <1>1
  <1>3. Act(tl, dc, open, fm, sv) /\ RemovedAreGone(sv)
    BY <1>1, <1>2
  <1>4. \A r : Owing(saves, r) => Owing(sv, r)
    BY <1>2
  <1>5. QED
    BY <1>3, <1>4, ActsCurrent

\* and one that does.
LEMMA BeginsCurrent ==
    ASSUME IInv, DraftInv', Elsewhere, NEW tl, NEW dc, NEW open, NEW fm,
           NEW by, NEW body, selected \in Products, CanBegin,
           \/ by = "form" /\ body \in Forms
           \/ by \in {"text", "remove", "restore"} /\ body \in [field : Fields, text : Texts],
           Act(tl, dc, open, fm, Begun(by, body))
    PROVE  IInv'
  <1>1. TypeOK /\ RemovedAreGone(saves)
    BY DEF IInv, DraftInv
  <1>2. Begun(by, body) \in Mutations
    BY <1>1, EditAssumption, BegunTyped
  <1>3. PICK sv \in Mutations : sv = Begun(by, body)
    BY <1>2
  <1>4. RemovedAreGone(sv) /\ \A r : Owing(saves, r) => Owing(sv, r)
    BY <1>1, <1>3, BegunOwes
  <1>5. Act(tl, dc, open, fm, sv)
    BY <1>3
  <1>6. QED
    BY <1>4, <1>5, ActsCurrent

\* Every act in the editors is one or the other.
LEMMA EditorsCurrent ==
    ASSUME IInv, DraftInv',
           \/ EditTitle \/ CancelTitle \/ TitleHistory
           \/ OpenDoc \/ CloseDoc \/ OpenForm \/ CloseForm
           \/ \E t \in Texts : TypeTitle(t) \/ TypeDoc(t) \/ TypeForm(t) \/ PickTables(t)
           \/ \E mode \in {"edit", "history"} : DocTab(mode)
    PROVE  IInv'
  <1>1. CASE EditTitle \/ CancelTitle \/ TitleHistory \/ \E t \in Texts : TypeTitle(t)
    BY <1>1, EditsCurrent DEF EditTitle, CancelTitle, TitleHistory, TypeTitle
  <1>2. CASE OpenDoc \/ CloseDoc \/ \E t \in Texts : TypeDoc(t)
    BY <1>2, EditsCurrent DEF OpenDoc, CloseDoc, TypeDoc
  <1>3. CASE \E mode \in {"edit", "history"} : DocTab(mode)
    BY <1>3, EditsCurrent DEF DocTab
  <1>4. CASE OpenForm \/ CloseForm \/ \E t \in Texts : TypeForm(t) \/ PickTables(t)
    BY <1>4, EditsCurrent DEF OpenForm, CloseForm, TypeForm, PickTables
  <1>5. QED
    BY <1>1, <1>2, <1>3, <1>4

LEMMA MutationsCurrent ==
    ASSUME IInv, DraftInv',
           \/ SaveTitle \/ SaveDoc \/ SaveForm \/ Delete
           \/ \E t \in Texts : RestoreTitle(t) \/ RestoreDoc(t)
    PROVE  IInv'
  <1>1. TypeOK /\ DraftsShown
    BY DEF IInv, DraftInv
  <1>2. title.text \in Texts /\ doc.text \in Texts /\ First \in Texts
    BY <1>1, EditAssumption DEF TypeOK, Drafts, Documents, EditAssumption
  <1>3. \A f \in {"desc", "doc"}, t \in Texts :
          [field |-> f, text |-> t] \in [field : Fields, text : Texts]
    BY DEF Fields
  <1>4. Displayed
    BY <1>1, Zenon DEF DraftsShown, Uncovered, SaveTitle, SaveDoc, SaveForm, Delete,
                       RestoreTitle, RestoreDoc
  <1>5. selected \in Products
    BY <1>1, <1>4, OnDisplay
  <1>6. CASE SaveTitle
    <2>1. [field |-> "desc", text |-> title.text] \in [field : Fields, text : Texts]
      BY <1>2, <1>3
    <2>2. QED
      BY <1>5, <1>6, <2>1, BeginsCurrent DEF SaveTitle
  <1>7. CASE SaveDoc
    <2>1. [field |-> "doc", text |-> doc.text] \in [field : Fields, text : Texts]
      BY <1>2, <1>3
    <2>2. QED
      BY <1>5, <1>7, <2>1, BeginsCurrent DEF SaveDoc
  <1>8. CASE SaveForm
    <2>1. [doc |-> form.doc, tables |-> form.tables] \in Forms
      BY <1>1, <1>8 DEF SaveForm, TypeOK, Forms
    <2>2. QED
      BY <1>5, <1>8, <2>1, BeginsCurrent DEF SaveForm
  <1>9. CASE Delete
    <2>1. [field |-> "doc", text |-> First] \in [field : Fields, text : Texts]
      BY <1>2, <1>3
    <2>2. QED
      BY <1>5, <1>9, <2>1, BeginsCurrent DEF Delete
  <1>10. ASSUME NEW t \in Texts, RestoreTitle(t)
         PROVE  IInv'
    <2>1. [field |-> "desc", text |-> t] \in [field : Fields, text : Texts]
      BY <1>3
    <2>2. QED
      BY <1>5, <1>10, <2>1, BeginsCurrent DEF RestoreTitle
  <1>11. ASSUME NEW t \in Texts, RestoreDoc(t)
         PROVE  IInv'
    <2>1. [field |-> "doc", text |-> t] \in [field : Fields, text : Texts]
      BY <1>3
    <2>2. QED
      BY <1>5, <1>11, <2>1, BeginsCurrent DEF RestoreDoc
  <1>12. QED
    BY <1>6, <1>7, <1>8, <1>9, <1>10, <1>11

\* A render of other queries keeps what is shown current if they are.
LEMMA RerenderCurrent ==
    ASSUME IInv, DraftInv', NEW p \in Products \cup {None}, NEW q \in Queries,
           NEW sv \in Mutations, NEW open, Rerender(p, q, sv, open),
           RemovedAreGone(sv), UNCHANGED <<rows, gone>>,
           \A r \in Products : r \notin excused' \cup gone /\ ~Owing(sv, r)
                               => Current(q[r], rows[r]),
           p # None => ~MarkedAtRest(q[p])
    PROVE  IInv'
  <1>1. /\ selected' = p /\ query' = q
        /\ saves' = Observers(sv, p, title', doc', form')
    BY Zenon DEF Rerender, Show
  <1>2. DisplayNotMarked'
    BY <1>1 DEF DisplayNotMarked, MarkedAtRest
  <1>3. QED
    BY <1>1, <1>2, PageCurrent

\* A fetch that is begun, answered or failed, and a move of the selection.
LEMMA FetchesCurrent ==
    ASSUME IInv, DraftInv',
           Retry \/ \E p \in Products : Select(p) \/ Arrive(p) \/ FetchFails(p)
    PROVE  IInv'
  <1>1. /\ query \in Queries /\ selected \in Products \cup {None}
        /\ saves \in Mutations /\ RemovedAreGone(saves)
        /\ \A r \in Products : query[r] \in Query
        /\ \A r \in Products : r \notin excused \cup gone /\ ~Owing(saves, r)
                               => Current(query[r], rows[r])
        /\ selected # None => ~MarkedAtRest(query[selected])
    BY DEF IInv, DraftInv, TypeOK, Queries, Mutations, ReadsAreCurrent, DisplayNotMarked
  <1>2. ASSUME NEW p \in Products, NEW new \in Query,
               \A row : Current(query[p], row) => Current(new, row)
        PROVE  \E q \in Queries :
                 /\ q = [query EXCEPT ![p] = new]
                 /\ q[p] = new /\ \A r \in Products \ {p} : q[r] = query[r]
                 /\ \A r \in Products : r \notin excused \cup gone /\ ~Owing(saves, r)
                                        => Current(q[r], rows[r])
    <2> DEFINE q == [query EXCEPT ![p] = new]
    <2>1. q \in Queries /\ q[p] = new /\ \A r \in Products \ {p} : q[r] = query[r]
      BY <1>1, <1>2 DEF Queries
    <2>2. q = [query EXCEPT ![p] = new]
      OBVIOUS
    <2> HIDE DEF q
    <2>3. \A r \in Products : r \notin excused \cup gone /\ ~Owing(saves, r)
                              => Current(q[r], rows[r])
      BY <1>1, <1>2, <2>1
    <2>4. QED
      BY <2>1, <2>2, <2>3
  <1>3. CASE Retry
    <2>1. selected \in Products /\ selected # None
      BY <1>1, <1>3 DEF Retry
    <2>2. /\ Refetched(query[selected]) \in Query
          /\ ~MarkedAtRest(Refetched(query[selected]))
          /\ \A row : Current(query[selected], row) => Current(Refetched(query[selected]), row)
      BY <1>1, <2>1, RefetchedCurrent, RefetchedShows
    <2>3. PICK q \in Queries :
             /\ q = [query EXCEPT ![selected] = Refetched(query[selected])]
             /\ q[selected] = Refetched(query[selected])
             /\ \A r \in Products : r \notin excused \cup gone /\ ~Owing(saves, r)
                                    => Current(q[r], rows[r])
      BY <1>2, <2>1, <2>2
    <2>4. Rerender(selected, q, saves, editOpen) /\ UNCHANGED <<rows, gone, excused>>
      BY <1>3, <2>3 DEF Retry
    <2>5. QED
      BY <1>1, <2>2, <2>3, <2>4, RerenderCurrent
  <1>4. ASSUME NEW p \in Products, Select(p) PROVE IInv'
    <2>1. PICK old \in BOOLEAN : Rerender(p, Observed(query, p, old), saves, editOpen)
      BY <1>4 DEF Select
    <2>2. UNCHANGED <<rows, gone, excused>>
      BY <1>4 DEF Select
    <2>3. CASE query[p].fetch = "none" /\ (query[p].data = None \/ query[p].invalid \/ old)
      <3>1. /\ Refetched(query[p]) \in Query /\ ~MarkedAtRest(Refetched(query[p]))
            /\ \A row : Current(query[p], row) => Current(Refetched(query[p]), row)
        BY <1>1, RefetchedCurrent, RefetchedShows
      <3>2. PICK q \in Queries :
               /\ q = [query EXCEPT ![p] = Refetched(query[p])]
               /\ q[p] = Refetched(query[p])
               /\ \A r \in Products : r \notin excused \cup gone /\ ~Owing(saves, r)
                                      => Current(q[r], rows[r])
        BY <1>2, <3>1
      <3>3. Rerender(p, q, saves, editOpen)
        BY <2>1, <2>3, <3>2 DEF Observed
      <3>4. QED
        BY <1>1, <2>2, <3>1, <3>2, <3>3, RerenderCurrent
    <2>4. CASE ~(query[p].fetch = "none" /\ (query[p].data = None \/ query[p].invalid \/ old))
      <3>1. Rerender(p, query, saves, editOpen)
        BY <2>1, <2>4 DEF Observed
      <3>2. ~MarkedAtRest(query[p])
        BY <2>4 DEF MarkedAtRest
      <3>3. PICK q \in Queries : q = query
        BY <1>1
      <3>4. QED
        BY <1>1, <2>2, <3>1, <3>2, <3>3, RerenderCurrent
    <2>5. QED
      BY <2>3, <2>4
  <1>5. ASSUME NEW p \in Products, Arrive(p) PROVE IInv'
    <2> DEFINE new == [Unasked EXCEPT !.data = query[p].got]
    <2>1. query[p].got \in Row \cup {None} /\ query[p].fetch = "served"
      BY <1>1, <1>5 DEF Query, Arrive
    <2>2. /\ new \in Query /\ ~MarkedAtRest(new)
          /\ \A row : Current(query[p], row) => Current(new, row)
      BY <2>1 DEF Unasked, Query, MarkedAtRest, Current
    <2> HIDE DEF new
    <2>3. PICK q \in Queries :
             /\ q = [query EXCEPT ![p] = new]
             /\ q[p] = new /\ \A r \in Products \ {p} : q[r] = query[r]
             /\ \A r \in Products : r \notin excused \cup gone /\ ~Owing(saves, r)
                                    => Current(q[r], rows[r])
      BY <1>2, <2>2
    <2>4. Rerender(selected, q, saves, editOpen) /\ UNCHANGED <<rows, gone, excused>>
      BY <1>5, <2>3 DEF Arrive, new
    <2>5. selected # None => ~MarkedAtRest(q[selected])
      BY <1>1, <2>2, <2>3
    <2>6. QED
      BY <1>1, <2>3, <2>4, <2>5, RerenderCurrent
  <1>6. ASSUME NEW p \in Products, FetchFails(p) PROVE IInv'
    <2> DEFINE new == [query[p] EXCEPT !.error = TRUE, !.invalid = TRUE,
                                       !.fetch = "none", !.got = None]
    <2>1. query[p] \in Query
      BY <1>1
    <2>2. /\ new \in Query /\ ~MarkedAtRest(new)
          /\ \A row : Current(query[p], row) => Current(new, row)
      BY <2>1 DEF Query, MarkedAtRest, Current
    <2>3. [query EXCEPT ![p] = [@ EXCEPT !.error = TRUE, !.invalid = TRUE,
                                         !.fetch = "none", !.got = None]]
            = [query EXCEPT ![p] = new]
      OBVIOUS
    <2> HIDE DEF new
    <2>4. PICK q \in Queries :
             /\ q = [query EXCEPT ![p] = new]
             /\ q[p] = new /\ \A r \in Products \ {p} : q[r] = query[r]
             /\ \A r \in Products : r \notin excused \cup gone /\ ~Owing(saves, r)
                                    => Current(q[r], rows[r])
      BY <1>2, <2>2
    <2>5. Rerender(selected, q, saves, editOpen) /\ UNCHANGED <<rows, gone, excused>>
      BY <1>6, <2>3, <2>4 DEF FetchFails
    <2>6. selected # None => ~MarkedAtRest(q[selected])
      BY <1>1, <2>2, <2>4
    <2>7. QED
      BY <1>1, <2>4, <2>5, <2>6, RerenderCurrent
  <1>7. QED
    BY <1>3, <1>4, <1>5, <1>6

\* What an answer leaves: the mutation is over, its product is marked or being
\* read anew, or what is shown of it is excused.
LEMMA AnswerCurrent ==
    ASSUME IInv, NEW i \in Pending, AfterAnswer(i)
    PROVE  \E q \in Queries, sv \in Mutations :
              /\ q = Invalidated(query, saves[i].key, selected) /\ sv = Over(i)
              /\ RemovedAreGone(sv)
              /\ \A r \in Products : r \notin excused' \cup gone /\ ~Owing(sv, r)
                                     => Current(q[r], rows[r])
              /\ selected # None => ~MarkedAtRest(q[selected])
  <1>1. /\ query \in Queries /\ selected \in Products \cup {None}
        /\ saves[i] \in Saves /\ TypeOK /\ RemovedAreGone(saves)
        /\ \A r \in Products : r \notin excused \cup gone /\ ~Owing(saves, r)
                               => Current(query[r], rows[r])
        /\ selected # None => ~MarkedAtRest(query[selected])
    BY DEF IInv, DraftInv, TypeOK, Queries, Pending, ReadsAreCurrent, DisplayNotMarked
  <1>2. saves[i].key \in Products \cup {None} /\ saves[i].to \in Products
    BY <1>1 DEF Saves, SavesOf
  <1>3. PICK q : q = Invalidated(query, saves[i].key, selected)
    OBVIOUS
  <1>4. /\ q \in Queries
        /\ \A r \in Products :
             /\ \A row : Current(query[r], row) => Current(q[r], row)
             /\ r = saves[i].key
                  /\ ~(query[r].fetch = "served" /\ (r # selected \/ query[r].data = None)) =>
                  \A row : Current(q[r], row)
             /\ r = selected /\ ~MarkedAtRest(query[r]) => ~MarkedAtRest(q[r])
    <2>1. q \in Queries
      BY <1>1, <1>2, <1>3, InvalidatedShows, EditAssumption DEF EditAssumption
    <2>2. ASSUME NEW r \in Products
          PROVE  /\ \A row : Current(query[r], row) => Current(q[r], row)
                 /\ r = saves[i].key
                      /\ ~(query[r].fetch = "served" /\ (r # selected \/ query[r].data = None)) =>
                      \A row : Current(q[r], row)
                 /\ r = selected /\ ~MarkedAtRest(query[r]) => ~MarkedAtRest(q[r])
      <3>1. /\ query \in Queries /\ saves[i].key \in Products \cup {None}
            /\ selected \in Products \cup {None}
        BY <1>1, <1>2
      <3> DEFINE then == Invalidated(query, saves[i].key, selected)
      <3>2. \A row : Current(query[r], row) => Current(then[r], row)
        BY <3>1, InvalidatedCurrent
      <3>3. r = saves[i].key
              /\ ~(query[r].fetch = "served" /\ (r # selected \/ query[r].data = None)) =>
              \A row : Current(then[r], row)
        BY <3>1, InvalidatedCurrent
      <3>4. r = selected /\ ~MarkedAtRest(query[r]) => ~MarkedAtRest(then[r])
        BY <3>1, InvalidatedCurrent
      <3>5. q = then
        BY <1>3
      <3> HIDE DEF then
      <3>6. QED
        BY <3>2, <3>3, <3>4, <3>5
    <2>3. QED
      BY <2>1, <2>2
  <1>5. PICK sv \in Mutations : sv = Over(i)
    BY <1>1, OverTyped
  <1>6. /\ \A r : Owing(saves, r) /\ ~Owes(saves[i], r) => Owing(sv, r)
        /\ RemovedAreGone(sv)
    BY <1>1, <1>5, OverOwes
  <1>7. excused \subseteq excused'
    BY DEF AfterAnswer
  <1>8. ASSUME NEW r \in Products, r \notin excused' \cup gone, ~Owing(sv, r)
        PROVE  Current(q[r], rows[r])
    <2>1. CASE Owes(saves[i], r)
      <3>1. r = saves[i].to
        BY <2>1 DEF Owes
      <3>2. saves[i].key = r /\ ~Overtaken(r)
        BY <1>8, <3>1 DEF AfterAnswer
      <3>3. QED
        BY <1>4, <3>2 DEF Overtaken
    <2>2. CASE ~Owes(saves[i], r)
      BY <1>1, <1>4, <1>6, <1>7, <1>8, <2>2
    <2>3. QED
      BY <2>1, <2>2
  <1>9. selected # None => ~MarkedAtRest(q[selected])
    BY <1>1, <1>4
  <1>10. QED
    BY <1>3, <1>4, <1>5, <1>6, <1>8, <1>9

\* The answers.
LEMMA AnswersCurrent ==
    ASSUME IInv, DraftInv', NEW i \in Pending, Answered(i)
    PROVE  IInv'
  <1>1. /\ query \in Queries /\ selected \in Products \cup {None}
        /\ saves[i] \in Saves /\ TypeOK /\ RemovedAreGone(saves)
        /\ \A r \in Products : r \notin excused \cup gone /\ ~Owing(saves, r)
                               => Current(query[r], rows[r])
    BY DEF IInv, DraftInv, TypeOK, Queries, Pending, ReadsAreCurrent
  <1>2. PICK sv \in Mutations :
          /\ sv = Over(i)
          /\ \A r : Owing(saves, r) /\ ~Owes(saves[i], r) => Owing(sv, r)
          /\ RemovedAreGone(sv)
    BY <1>1, OverTyped, OverOwes
  <1>3. CASE Failed(i)
    <2>1. \A r : ~Owes(saves[i], r)
      BY <1>3 DEF Failed, Owes
    <2>2. Act(title, doc, editOpen, form, sv) /\ Elsewhere
      BY <1>2, <1>3 DEF Failed
    <2>3. QED
      BY <1>2, <2>1, <2>2, ActsCurrent
  <1>4. CASE TextSaved(i) \/ FormSaved(i)
    <2>1. AfterAnswer(i)
      BY <1>4 DEF TextSaved, FormSaved
    <2>2. PICK q \in Queries, s \in Mutations :
              /\ q = Invalidated(query, saves[i].key, selected) /\ s = Over(i)
              /\ RemovedAreGone(s)
              /\ \A r \in Products : r \notin excused' \cup gone /\ ~Owing(s, r)
                                     => Current(q[r], rows[r])
              /\ selected # None => ~MarkedAtRest(q[selected])
      BY <2>1, AnswerCurrent
    <2>3. Rerender(selected, q, s, editOpen) \/ Rerender(selected, q, s, FALSE)
      BY <1>4, <2>2 DEF TextSaved, FormSaved
    <2>4. UNCHANGED <<rows, gone>>
      BY <2>1 DEF AfterAnswer
    <2>5. QED
      BY <1>1, <2>2, <2>3, <2>4, RerenderCurrent
  <1>5. CASE Restored(i)
    <2>1. AfterAnswer(i)
      BY <1>5 DEF Restored
    <2>2. PICK q \in Queries, s \in Mutations :
              /\ q = Invalidated(query, saves[i].key, selected) /\ s = Over(i)
              /\ RemovedAreGone(s)
              /\ \A r \in Products : r \notin excused' \cup gone /\ ~Owing(s, r)
                                     => Current(q[r], rows[r])
              /\ selected # None => ~MarkedAtRest(q[selected])
      BY <2>1, AnswerCurrent
    <2>3. /\ selected' = selected /\ query' = q
          /\ saves' = Observers(s, selected, title', doc', form')
      BY <1>5, <2>2, Zenon DEF Restored, Show
    <2>4. UNCHANGED <<rows, gone>>
      BY <2>1 DEF AfterAnswer
    <2>5. DisplayNotMarked'
      BY <2>2, <2>3 DEF DisplayNotMarked, MarkedAtRest
    <2>6. \A r \in Products : r \notin excused' \cup gone /\ ~Owing(s, r)
                              => Current(query'[r], rows[r])
      BY <2>2, <2>3
    <2>7. QED
      BY <1>1, <2>2, <2>3, <2>4, <2>5, <2>6, PageCurrent
  <1>6. CASE Removed(i)
    <2>1. Rerender(None, query, sv, FALSE) /\ UNCHANGED <<rows, gone, excused>>
      BY <1>2, <1>6 DEF Removed, Elsewhere
    <2>2. saves[i].to \in gone /\ i \in DOMAIN saves /\ saves[i] # None
      BY <1>1, <1>6 DEF Removed, RemovedAreGone, Pending
    <2>3. \A r \in Products : r \notin excused' \cup gone /\ ~Owing(sv, r)
                              => Current(query[r], rows[r])
      BY <1>1, <1>2, <2>1, <2>2 DEF Owes
    <2>4. PICK q \in Queries : q = query
      BY <1>1
    <2>5. QED
      BY <1>2, <2>1, <2>3, <2>4, RerenderCurrent
  <1>7. QED
    BY <1>3, <1>4, <1>5, <1>6 DEF Answered

\* The backend: what it writes is owed, or what is shown of it is excused.
LEMMA BackendCurrent ==
    ASSUME IInv, DraftInv',
           \/ \E p \in Products : Serve(p)
           \/ \E i \in Pending : Backend(i)
           \/ \E p \in Products, f \in Fields, t \in Texts : OthersWrite(p, f, t)
    PROVE  IInv'
  <1>1. /\ query \in Queries /\ selected \in Products \cup {None} /\ rows \in [Products -> Row]
        /\ TypeOK /\ RemovedAreGone(saves)
        /\ \A r \in Products : r \notin excused \cup gone /\ ~Owing(saves, r)
                               => Current(query[r], rows[r])
        /\ selected # None => ~MarkedAtRest(query[selected])
    BY DEF IInv, DraftInv, TypeOK, Queries, ReadsAreCurrent, DisplayNotMarked
  <1>2. ASSUME NEW p \in Products, Serve(p) PROVE IInv'
    <2> DEFINE new == [query[p] EXCEPT !.fetch = "served", !.got = rows[p]]
    <2>1. query[p] \in Query
      BY <1>1 DEF Queries
    <2>2. query' = [query EXCEPT ![p] = new]
      BY <1>1, <1>2, <2>1 DEF Serve, Queries
    <2>3. ~MarkedAtRest(new) /\ Current(new, rows[p])
      BY <2>1 DEF Query, MarkedAtRest, Current
    <2> HIDE DEF new
    <2>4. query'[p] = new /\ \A r \in Products \ {p} : query'[r] = query[r]
      BY <1>1, <2>2 DEF Queries
    <2>5. UNCHANGED <<rows, gone, selected, saves>> /\ excused' = excused \ {p}
      BY <1>2 DEF Serve
    <2>6. ReadsAreCurrent'
      <3>1. ASSUME NEW r \in Products, r \notin excused' \cup gone, ~Owing(saves, r)
            PROVE  Current(query'[r], rows[r])
        BY <1>1, <2>3, <2>4, <2>5, <3>1
      <3>2. QED
        BY <2>5, <3>1 DEF ReadsAreCurrent, Current, Owing, Owes
    <2>7. DisplayNotMarked'
      BY <1>1, <2>3, <2>4, <2>5 DEF DisplayNotMarked, MarkedAtRest
    <2>8. RemovedAreGone(saves)'
      BY <1>1, <2>5 DEF RemovedAreGone
    <2>9. QED
      BY <2>6, <2>7, <2>8 DEF IInv
  <1>3. ASSUME NEW i \in Pending, Backend(i) PROVE IInv'
    <2> DEFINE s == saves[i]
    <2>1. /\ i \in DOMAIN saves /\ s # None /\ s \in Saves /\ s.to \in Products
          /\ \A j \in DOMAIN saves : saves[j] \in Saves \cup {None}
      BY <1>1, <1>3 DEF Pending, TypeOK, Saves, SavesOf
    <2>2. PICK st \in {"second", "ok", "bad"} :
            /\ Set(i, st)
            /\ st = "ok" /\ s.by = "remove" => s.to \in gone'
            /\ \/ st \in {"second", "ok"} \/ s.to \in excused'
               \/ s.st = "sent" /\ UNCHANGED <<rows, gone>>
      <3>1. CASE Succeed(i)
        BY <2>1, <3>1 DEF Succeed, Commit
      <3>2. CASE Lose(i)
        BY <2>1, <3>2 DEF Lose
      <3>3. CASE Refuse(i)
        BY <2>1, <3>3 DEF Refuse
      <3>4. QED
        BY <1>3, <3>1, <3>2, <3>3 DEF Backend
    <2>3. [s EXCEPT !.st = st] \in Saves
      BY <2>1 DEF Saves, SavesOf
    <2>4. /\ [s EXCEPT !.st = st] # None /\ [s EXCEPT !.st = st].to = s.to
          /\ [s EXCEPT !.st = st].by = s.by /\ [s EXCEPT !.st = st].st = st
      BY <2>1, <2>3, NoneAssumption DEF Saves, SavesOf
    <2>5. /\ DOMAIN saves' = DOMAIN saves /\ \A j \in DOMAIN saves \ {i} : saves'[j] = saves[j]
          /\ saves'[i] = [s EXCEPT !.st = st]
      BY <1>1, <2>1, <2>2 DEF TypeOK, Set
    <2>6. /\ UNCHANGED <<query, selected>> /\ excused \subseteq excused' /\ gone \subseteq gone'
          /\ \A r \in Products \ {s.to} : rows'[r] = rows[r]
      BY <1>1, <1>3, <2>1 DEF Backend, Succeed, Lose, Refuse, PageLeft, Commit
    <2>7. ASSUME NEW r \in Products, r \notin excused' \cup gone', ~Owing(saves', r)
          PROVE  Current(query'[r], rows'[r])
      <3>1. CASE r = s.to
        <4>1. ~Owes(saves'[i], r)
          BY <2>1, <2>5, <2>7 DEF Owing
        <4>2. st \notin {"second", "ok"}
          BY <2>4, <2>5, <3>1, <4>1 DEF Owes
        <4>3. s.st = "sent" /\ UNCHANGED <<rows, gone>>
          BY <2>2, <2>7, <3>1, <4>2
        <4>4. ~Owes(s, r)
          BY <4>3 DEF Owes
        <4>5. ~Owing(saves, r)
          BY <2>5, <2>7, <4>4 DEF Owing
        <4>6. QED
          BY <1>1, <2>6, <2>7, <4>3, <4>5
      <3>2. CASE r # s.to
        <4>1. ~Owing(saves, r)
          BY <2>5, <2>7, <3>2 DEF Owing, Owes
        <4>2. QED
          BY <1>1, <2>6, <2>7, <3>2, <4>1
      <3>3. QED
        BY <3>1, <3>2
    <2>8. ReadsAreCurrent'
      <3>1. \A r : Owing(saves, r)' <=> Owing(saves', r)
        BY DEF Owing, Owes
      <3>2. QED
        BY <2>7, <3>1 DEF ReadsAreCurrent, Current
    <2>9. DisplayNotMarked'
      BY <1>1, <2>6 DEF DisplayNotMarked, MarkedAtRest
    <2>10. RemovedAreGone(saves)'
      <3> SUFFICES ASSUME NEW j \in DOMAIN saves, saves'[j] # None,
                          saves'[j].by = "remove", saves'[j].st = "ok"
                   PROVE  saves'[j].to \in gone'
        BY <2>5 DEF RemovedAreGone
      <3>1. CASE j = i
        BY <2>2, <2>4, <2>5, <3>1
      <3>2. CASE j # i
        BY <1>1, <2>5, <2>6, <3>2 DEF RemovedAreGone
      <3>3. QED
        BY <3>1, <3>2
    <2>11. QED
      BY <2>8, <2>9, <2>10 DEF IInv
  <1>4. ASSUME NEW p \in Products, NEW f \in Fields, NEW t \in Texts, OthersWrite(p, f, t)
        PROVE  IInv'
    <2>1. /\ UNCHANGED <<query, selected, gone, saves>> /\ excused' = excused \cup {p}
          /\ \A r \in Products \ {p} : rows'[r] = rows[r]
      BY <1>1, <1>4 DEF OthersWrite, PageLeft
    <2>2. ReadsAreCurrent'
      <3>1. ASSUME NEW r \in Products, r \notin excused' \cup gone, ~Owing(saves, r)
            PROVE  Current(query[r], rows'[r])
        BY <1>1, <2>1, <3>1
      <3>2. QED
        BY <2>1, <3>1 DEF ReadsAreCurrent, Current, Owing, Owes
    <2>3. DisplayNotMarked' /\ RemovedAreGone(saves)'
      BY <1>1, <2>1 DEF DisplayNotMarked, MarkedAtRest, RemovedAreGone
    <2>4. QED
      BY <2>2, <2>3 DEF IInv
  <1>5. QED
    BY <1>2, <1>3, <1>4

LEMMA InitIInv == Init => IInv
  <1> SUFFICES ASSUME Init PROVE IInv
    OBVIOUS
  <1>1. DraftInv
    BY InitDraftInv
  <1>2. \A p \in Products : query[p].data = None /\ query[p].fetch \in {"none", "sent"}
    BY DEF Init, Unasked
  <1>3. selected \in Products \cup {None} /\ saves = <<>>
    BY <1>1 DEF Init, DraftInv, TypeOK
  <1>4. ReadsAreCurrent /\ DisplayNotMarked
    BY <1>2, <1>3 DEF ReadsAreCurrent, Current, DisplayNotMarked, MarkedAtRest
  <1>5. RemovedAreGone(saves)
    BY <1>3 DEF RemovedAreGone
  <1>6. QED
    BY <1>1, <1>4, <1>5 DEF IInv

LEMMA NextIInv == IInv /\ [Next]_vars => IInv'
  <1> SUFFICES ASSUME IInv, [Next]_vars PROVE IInv'
    OBVIOUS
  <1>1. DraftInv'
    BY NextDraftInv DEF IInv
  <1>2. CASE UNCHANGED vars
    BY <1>1, <1>2 DEF vars, IInv, ReadsAreCurrent, Current, DisplayNotMarked, MarkedAtRest,
                      RemovedAreGone, Owing, Owes
  <1>3. CASE User
    BY <1>1, <1>3, EditorsCurrent, MutationsCurrent, FetchesCurrent DEF User
  <1>4. CASE \E p \in Products : Serve(p) \/ Arrive(p) \/ FetchFails(p)
    BY <1>1, <1>4, BackendCurrent, FetchesCurrent
  <1>5. CASE \E i \in Pending : Backend(i) \/ Answered(i)
    BY <1>1, <1>5, BackendCurrent, AnswersCurrent
  <1>6. CASE \E p \in Products, f \in Fields, t \in Texts : OthersWrite(p, f, t)
    BY <1>1, <1>6, BackendCurrent
  <1>7. QED
    BY <1>2, <1>3, <1>4, <1>5, <1>6 DEF Next

-----------------------------------------------------------------------------
(* The theorems                                                            *)

\* The inductive invariant: types, editors only where a product is displayed,
\* drafts of what is displayed, and queries that are current wherever the page
\* was not misled and no answer is still to come.
THEOREM Invariance == Spec => []IInv
  BY InitIInv, NextIInv, PTL DEF Spec

\* Every variable keeps its type.
THEOREM TypeCorrect == Spec => []TypeOK
  <1>1. IInv => TypeOK
    BY DEF IInv, DraftInv
  <1>2. QED
    BY <1>1, Invariance, PTL

\* No order of renders, answers, refetches and moves of the selection leaves the
\* description's draft over another product or over a text it was not begun
\* from, or the documentation's over another text (EditableTitle.tsx,
\* DocumentationModal.tsx).
THEOREM DraftsFollowTheDisplay == Spec => []DraftsOfTheDisplay
  <1>1. IInv => DraftsOfTheDisplay
    BY DEF IInv, DraftInv
  <1>2. QED
    BY <1>1, Invariance, PTL

\* However saves, restores, answers, fetches and moves of the selection
\* interleave, a page at rest shows what the backend holds: every confirmed save
\* is followed by a read (DataProductWorkspace.tsx, use-update-pipeline.ts), but
\* for products of which the page has not been told all: others wrote, half of a
\* save or its answer was lost, or the answer found another product selected or
\* a read under way of a product that was not on display.
THEOREM SavesAreShown == Spec => []OwnSavesShown
  <1>1. ASSUME IInv, Displayed, selected \notin excused \cup gone,
               query[selected].fetch = "none", ~\E i \in Pending : saves[i].to = selected
        PROVE  Detail = rows[selected]
    <2>1. selected \in Products /\ selected # None
      BY <1>1 DEF IInv, DraftInv, TypeOK, Displayed, Displays
    <2>2. ~Owing(saves, selected)
      BY <1>1 DEF Owing, Owes, Pending
    <2>3. Current(query[selected], rows[selected])
      BY <1>1, <2>1, <2>2 DEF IInv, ReadsAreCurrent
    <2>4. query[selected].data # None /\ ~query[selected].error
      BY <1>1 DEF Displayed, Displays
    <2>5. query[selected] \in Query
      BY <1>1, <2>1 DEF IInv, DraftInv, TypeOK
    <2>6. ~query[selected].invalid
      BY <1>1, <2>1, <2>4, <2>5 DEF IInv, DisplayNotMarked, MarkedAtRest
    <2>7. QED
      BY <1>1, <2>3, <2>4, <2>6 DEF Current, Detail
  <1>2. IInv => OwnSavesShown
    BY <1>1 DEF OwnSavesShown
  <1>3. QED
    BY <1>2, Invariance, PTL

=============================================================================
