----------------------------- MODULE EditSession -----------------------------
(***************************************************************************)
(* Editing a data product: DataProductWorkspace with its description       *)
(* editor, documentation dialog, revision lists and edit dialog, over the  *)
(* detail query and the mutations, while the selection moves under them    *)
(* (the palette opens above every dialog, and the list may drop a product) *)
(* and others write.                                                       *)
(*                                                                         *)
(* A handler or an answer, the render it causes and the effects of that    *)
(* render are one action.  The name and the schedule of the edit dialog    *)
(* travel with its documentation and are not told apart from it; the user  *)
(* may edit every product.                                                 *)
(***************************************************************************)
EXTENDS Naturals, Sequences

CONSTANTS
  Products,
  Texts,     \* descriptions, documentations and sets of tables
  First,     \* the text everything has at the start
  MaxSaves,  \* bound on the user's mutations
  MaxTrouble, \* bound on the changes of the selection, the writes of others and
              \* the failing requests, together
  None

ASSUME EditAssumption ==
  /\ First \in Texts /\ Products # {} /\ None \notin Products \cup Texts
  /\ MaxSaves \in Nat /\ MaxTrouble \in Nat

VARIABLES
  rows,     \* the backend's products
  gone,     \* the deleted ones
  query,    \* [product -> the query of its detail]
  selected, \* selectedProductId
  title,    \* EditableTitle
  doc,      \* DocumentationPreview and DocumentationModal
  editOpen,
  form,     \* EditProductModal, when mounted
  saves,    \* the mutations, in the order they were begun
  excused,  \* (history) products of which the page may know less than it was told
  trouble

editors == <<title, doc, editOpen, form>>
vars == <<rows, gone, query, selected, editors, saves, excused, trouble>>

Row == [desc : Texts, doc : Texts, tables : Texts]
Fields == {"desc", "doc"}

\* The page shows data, and goes on showing it through a fetch.
Query == [data : Row \cup {None}, error : BOOLEAN, invalid : BOOLEAN,
          fetch : {"none", "sent", "served"}, got : Row \cup {None}]

\* base: the text of the product the draft began with (history).
Drafts == [mode : {"view", "edit", "history"}, text : Texts, base : Texts,
           of : Products \cup {None}]
NoDraft == [mode |-> "view", text |-> First, base |-> First, of |-> None]

\* open: docOpen; mode "edit" is the edit tab or its preview, which shows the draft.
Documents == [open : BOOLEAN, mode : {"edit", "history"}, text : Texts, base : Texts]
Closed == [open |-> FALSE, mode |-> "edit", text |-> First, base |-> First]

Forms == [doc : Texts, tables : Texts]

\* A mutation, None when it is over: where it is sent, and key, the product whose queries its answer
\* will invalidate.  While a component observes it, every render of that
\* component gives it the callbacks of the product then selected.
SavesOf(by, bodies) ==
  [by : by, to : Products, key : Products \cup {None}, observed : BOOLEAN,
   body : bodies, st : {"sent", "second", "ok", "bad"}]
Saves == SavesOf({"form"}, Forms)
         \cup SavesOf({"text", "remove", "restore"}, [field : Fields, text : Texts])

ASSUME NoneAssumption == None \notin Saves

TypeOK ==
  /\ rows \in [Products -> Row] /\ gone \subseteq Products
  /\ query \in [Products -> Query]
  /\ selected \in Products \cup {None}
  /\ title \in Drafts /\ doc \in Documents
  /\ editOpen \in BOOLEAN /\ form \in Forms \cup {None}
  /\ form # None => editOpen
  /\ saves \in Seq(Saves \cup {None}) /\ Len(saves) <= MaxSaves
  /\ excused \subseteq Products
  /\ trouble \in 0 .. MaxTrouble

Fresh == [desc |-> First, doc |-> First, tables |-> First]

Unasked == [data |-> None, error |-> FALSE, invalid |-> FALSE,
            fetch |-> "none", got |-> None]

Init ==
  /\ rows = [p \in Products |-> Fresh] /\ gone = {}
  /\ selected = CHOOSE p \in Products : TRUE
  /\ query = [p \in Products |->
                IF p = selected THEN [Unasked EXCEPT !.fetch = "sent"] ELSE Unasked]
  /\ title = NoDraft /\ doc = Closed /\ editOpen = FALSE /\ form = None
  /\ saves = <<>> /\ excused = {}
  /\ trouble = 0

Trouble == trouble < MaxTrouble /\ trouble' = trouble + 1

-----------------------------------------------------------------------------
(* Rendering. *)

\* The product on display is past its skeleton and its error screen.
Displays(p, q) == p # None /\ q[p].data # None /\ ~q[p].error
Displayed == Displays(selected, query)
Detail == query[selected].data

\* The form takes what it begins with when it is mounted, and never again.
FormOf(row) == [doc |-> row.doc, tables |-> row.tables]

\* A plausible bug: the editor does not look at the product's id.
TitleByText(p, q) ==
  IF Displays(p, q) /\ Displayed /\ q[p].data.desc = Detail.desc
  THEN title ELSE NoDraft

\* The effect of EditableTitle on [pipelineId, description].
TitleAfter(p, q) ==
  IF Displays(p, q) /\ Displayed /\ p = selected /\ q[p].data.desc = Detail.desc
  THEN title ELSE NoDraft

\* The effects of DocumentationModal on [documentation] and
\* [open, documentation]: they do not look at the product.
DocAfter(p, q) ==
  IF ~Displays(p, q) \/ ~Displayed THEN Closed
  ELSE IF q[p].data.doc = Detail.doc \/ ~doc.open THEN doc
  ELSE [Closed EXCEPT !.open = TRUE, !.text = q[p].data.doc, !.base = q[p].data.doc]

\* A plausible bug: the end of a save leaves its dialog up.
FormUnclosed(p, q, open) ==
  IF ~Displays(p, q) \/ (form = None /\ ~open) THEN None
  ELSE IF form # None THEN form ELSE FormOf(q[p].data)

FormAfter(p, q, open) ==
  IF ~open \/ ~Displays(p, q) THEN None
  ELSE IF form # None THEN form ELSE FormOf(q[p].data)

\* A component that goes ceases to observe; one that stays is rendered with
\* the product now selected.  The workspace itself observes its text saves.
ObservedAfter(s, p, tl, dc, fm) ==
  IF s = None THEN None
  ELSE
  LET stays == CASE s.by = "text" -> TRUE
                 [] s.by = "restore" -> IF s.body.field = "desc"
                                        THEN tl.mode = "history"
                                        ELSE dc.open /\ dc.mode = "history"
                 [] OTHER -> fm # None
      on == s.observed /\ stays
  IN [s EXCEPT !.observed = on, !.key = IF on THEN p ELSE @]

Observers(sv, p, tl, dc, fm) ==
  [i \in DOMAIN sv |-> ObservedAfter(sv[i], p, tl, dc, fm)]

\* The page with product p selected, queries q, mutations sv, the edit dialog
\* open or not, and the editors as the user or the effects leave them.
Show(p, q, sv, tl, dc, open, fm) ==
  /\ selected' = p /\ query' = q
  /\ title' = tl /\ doc' = dc /\ editOpen' = open /\ form' = fm
  /\ saves' = Observers(sv, p, tl, dc, fm)

Rerender(p, q, sv, open) ==
  Show(p, q, sv, TitleAfter(p, q), DocAfter(p, q), open, FormAfter(p, q, open))

\* The user's acts leave the selection and the data alone.
Act(tl, dc, open, fm, sv) == Show(selected, query, sv, tl, dc, open, fm)

-----------------------------------------------------------------------------
(* The detail query. *)

\* A fetch on top of another one that may show data begins it anew.
Refetched(q) ==
  IF q.data = None /\ q.fetch # "none" THEN q
  ELSE [q EXCEPT !.fetch = "sent", !.got = None, !.error = @ /\ q.data # None]

\* invalidateQueries: a query on display is fetched again, another is marked.
Invalidated(q, p, shown) ==
  IF p = None THEN q
  ELSE [q EXCEPT ![p] = LET marked == [@ EXCEPT !.invalid = TRUE]
                        IN IF p = shown THEN Refetched(marked) ELSE marked]

\* The selection moves to p: its query is fetched if it has no data, is marked,
\* or is older than its staleTime, which the model leaves open.
Observed(q, p, old) ==
  IF q[p].fetch = "none" /\ (q[p].data = None \/ q[p].invalid \/ old)
  THEN [q EXCEPT ![p] = Refetched(@)] ELSE q

Select(p) ==
  /\ Trouble /\ p # selected
  /\ \E old \in BOOLEAN :
       Rerender(p, Observed(query, p, old), saves, editOpen)
  /\ UNCHANGED <<rows, gone, excused>>

\* The backend reads the product.
Serve(p) ==
  /\ query[p].fetch = "sent" /\ p \notin gone
  /\ query' = [query EXCEPT ![p].fetch = "served", ![p].got = rows[p]]
  /\ excused' = excused \ {p}
  /\ UNCHANGED <<rows, gone, selected, editors, saves, trouble>>

Arrive(p) ==
  /\ query[p].fetch = "served"
  /\ Rerender(selected, [query EXCEPT ![p] = [Unasked EXCEPT !.data = query[p].got]],
              saves, editOpen)
  /\ UNCHANGED <<rows, gone, excused, trouble>>

\* After its retries; a product that is gone is always failed.
FetchFails(p) ==
  /\ query[p].fetch # "none"
  /\ IF p \in gone /\ query[p].fetch = "sent" THEN UNCHANGED trouble
     ELSE Trouble
  /\ Rerender(selected,
              [query EXCEPT ![p] = [@ EXCEPT !.error = TRUE, !.invalid = TRUE,
                                             !.fetch = "none", !.got = None]],
              saves, editOpen)
  /\ UNCHANGED <<rows, gone, excused>>

\* "Retry" of the error screen.
Retry ==
  /\ selected # None /\ query[selected].error
  /\ Rerender(selected, [query EXCEPT ![selected] = Refetched(@)], saves, editOpen)
  /\ UNCHANGED <<rows, gone, excused, trouble>>

-----------------------------------------------------------------------------
(* Beginning a mutation. *)

Begun(by, body) ==
  LET s == [by |-> by, to |-> selected, key |-> selected, observed |-> TRUE,
            body |-> body, st |-> "sent"]
      \* useMutation observes its latest mutation only.
      older(t) == IF t # None /\ by = "text" /\ t.by = by THEN [t EXCEPT !.observed = FALSE] ELSE t
  IN Append([i \in DOMAIN saves |-> older(saves[i])], s)

CanBegin == Len(saves) < MaxSaves

Pending == {i \in DOMAIN saves : saves[i] # None}

\* save.isPending || remove.isPending of the dialog on display.
Busy == \E i \in Pending : saves[i].by \in {"form", "remove"} /\ saves[i].observed

\* isRestoring of the list on display.
Restoring(f) == \E i \in Pending :
                  /\ saves[i].by = "restore" /\ saves[i].body.field = f
                  /\ saves[i].observed

Elsewhere == UNCHANGED <<rows, gone, excused, trouble>>

\* No dialog covers the page.
Uncovered == Displayed /\ ~doc.open /\ ~editOpen

-----------------------------------------------------------------------------
(* EditableTitle. *)

EditTitle ==
  /\ Uncovered
  /\ Act([mode |-> "edit", text |-> Detail.desc, base |-> Detail.desc,
          of |-> selected], doc, editOpen, form, saves)
  /\ Elsewhere

TypeTitle(t) ==
  /\ Uncovered /\ title.mode = "edit" /\ t # title.text
  /\ Act([title EXCEPT !.text = t], doc, editOpen, form, saves)
  /\ Elsewhere

\* handleSaveDesc: Ctrl+Enter works while another save is under way.
SaveTitle ==
  /\ Uncovered /\ title.mode = "edit" /\ CanBegin
  /\ Act(NoDraft, doc, editOpen, form,
         Begun("text", [field |-> "desc", text |-> title.text]))
  /\ Elsewhere

CancelTitle ==
  /\ Uncovered /\ title.mode # "view"
  /\ Act(NoDraft, doc, editOpen, form, saves)
  /\ Elsewhere

TitleHistory ==
  /\ Uncovered /\ title.mode = "view"
  /\ Act([NoDraft EXCEPT !.mode = "history"], doc, editOpen, form, saves)
  /\ Elsewhere

\* One click of CompactRevisionList, on an earlier text.
RestoreTitle(t) ==
  /\ Uncovered /\ title.mode = "history" /\ ~Restoring("desc") /\ CanBegin
  /\ Act(title, doc, editOpen, form,
         Begun("restore", [field |-> "desc", text |-> t]))
  /\ Elsewhere

-----------------------------------------------------------------------------
(* DocumentationPreview and DocumentationModal. *)

\* Bound: the description's editor is closed before a dialog is opened.
OpenDoc ==
  /\ Uncovered /\ title.mode = "view"
  /\ Act(title, [Closed EXCEPT !.open = TRUE, !.text = Detail.doc,
                               !.base = Detail.doc], editOpen, form, saves)
  /\ Elsewhere

CloseDoc ==
  /\ doc.open /\ Act(title, Closed, editOpen, form, saves)
  /\ Elsewhere

DocTab(mode) ==
  /\ doc.open /\ mode # doc.mode
  /\ Act(title, [doc EXCEPT !.mode = mode], editOpen, form, saves)
  /\ Elsewhere

TypeDoc(t) ==
  /\ doc.open /\ doc.mode = "edit" /\ t # doc.text
  /\ Act(title, [doc EXCEPT !.text = t], editOpen, form, saves)
  /\ Elsewhere

\* Ctrl+S, too, works while another save is under way.
SaveDoc ==
  /\ doc.open /\ doc.mode = "edit" /\ CanBegin
  /\ Act(title, Closed, editOpen, form,
         Begun("text", [field |-> "doc", text |-> doc.text]))
  /\ Elsewhere

\* "Restore" of RevisionHistoryPanel, confirmed.
RestoreDoc(t) ==
  /\ doc.open /\ doc.mode = "history"
  /\ ~Restoring("doc") /\ CanBegin
  /\ Act(title, doc, editOpen, form,
         Begun("restore", [field |-> "doc", text |-> t]))
  /\ Elsewhere

-----------------------------------------------------------------------------
(* EditProductModal. *)

OpenForm ==
  /\ Uncovered /\ title.mode = "view"
  /\ Act(title, doc, TRUE, FormOf(Detail), saves)
  /\ Elsewhere

\* Cancel and the cross, also while a save is under way.
CloseForm ==
  /\ form # None
  /\ Act(title, doc, FALSE, None, saves)
  /\ Elsewhere

TypeForm(t) ==
  /\ form # None /\ t # form.doc
  /\ Act(title, doc, TRUE, [form EXCEPT !.doc = t], saves)
  /\ Elsewhere

PickTables(t) ==
  /\ form # None /\ t # form.tables
  /\ Act(title, doc, TRUE, [form EXCEPT !.tables = t], saves)
  /\ Elsewhere

SaveForm ==
  /\ form # None /\ ~Busy /\ CanBegin
  /\ Act(title, doc, TRUE, form,
         Begun("form", [doc |-> form.doc, tables |-> form.tables]))
  /\ Elsewhere

\* The second click on "Delete", which confirms it.
Delete ==
  /\ form # None /\ ~Busy /\ CanBegin
  /\ Act(title, doc, TRUE, form,
         Begun("remove", [field |-> "doc", text |-> First]))
  /\ Elsewhere

-----------------------------------------------------------------------------
(* The backend, and the answers. *)

Set(i, st) == saves' = [saves EXCEPT ![i].st = st]
PageLeft == UNCHANGED <<query, selected, editors>>

\* The request at hand takes effect.  A form's first request is its PATCH, the
\* second the PUT of its tables.
Commit(i) ==
  LET s == saves[i]
      row == rows[s.to]
  IN /\ s.st \in {"sent", "second"} /\ s.to \notin gone
     /\ rows' = [rows EXCEPT ![s.to] =
          CASE s.by = "remove" -> row
            [] s.by = "form" -> IF s.st = "sent" THEN [row EXCEPT !.doc = s.body.doc]
                                ELSE [row EXCEPT !.tables = s.body.tables]
            [] OTHER -> [row EXCEPT ![s.body.field] = s.body.text]]
     /\ gone' = IF s.by = "remove" THEN gone \cup {s.to} ELSE gone

Succeed(i) ==
  /\ Commit(i)
  /\ Set(i, IF saves[i].by = "form" /\ saves[i].st = "sent" THEN "second" ELSE "ok")
  /\ PageLeft /\ UNCHANGED <<excused, trouble>>

\* It takes effect and the answer is lost.
Lose(i) ==
  /\ Trouble
  /\ Commit(i) /\ Set(i, "bad")
  /\ excused' = excused \cup {saves[i].to}
  /\ PageLeft

\* Refused, or never delivered.  A form's PATCH may have been committed before.
Refuse(i) ==
  /\ saves[i].st \in {"sent", "second"}
  /\ IF saves[i].to \in gone THEN UNCHANGED trouble
     ELSE Trouble
  /\ Set(i, "bad")
  /\ excused' = IF saves[i].st = "second" THEN excused \cup {saves[i].to} ELSE excused
  /\ PageLeft /\ UNCHANGED <<rows, gone>>

Over(i) == [saves EXCEPT ![i] = None]

\* Only a toast.
Failed(i) ==
  /\ saves[i].st = "bad"
  /\ Act(title, doc, editOpen, form, Over(i))
  /\ Elsewhere

\* A fetch that had read the product goes on over the invalidation, and its end
\* takes the mark away.
Overtaken(p) ==
  query[p].fetch = "served" /\ (p # selected \/ query[p].data = None)

\* The queries of the product the callbacks were last given.
AfterAnswer(i) ==
  LET s == saves[i] IN
  /\ s.st = "ok"
  /\ excused' = IF s.key = s.to /\ ~Overtaken(s.to) THEN excused
                 ELSE excused \cup {s.to}
  /\ UNCHANGED <<rows, gone, trouble>>

\* A plausible bug: only the list is invalidated.
TextSavedListOnly(i) ==
  /\ saves[i].by = "text" /\ AfterAnswer(i)
  /\ Rerender(selected, query, Over(i), editOpen)

TextSaved(i) ==
  /\ saves[i].by = "text" /\ AfterAnswer(i)
  /\ Rerender(selected, Invalidated(query, saves[i].key, selected), Over(i), editOpen)

\* onRestored is called if the list that began it is still on display.
Restored(i) ==
  LET s == saves[i]
      q == Invalidated(query, s.key, selected)
  IN /\ s.by = "restore" /\ AfterAnswer(i)
     /\ Show(selected, q, Over(i),
             IF s.observed /\ s.body.field = "desc" THEN NoDraft ELSE title,
             IF s.observed /\ s.body.field = "doc"
             THEN [doc EXCEPT !.mode = "edit"] ELSE doc,
             editOpen, form)

\* onClose closes the dialog that is open by then, its own or a later one.
FormSaved(i) ==
  /\ saves[i].by = "form" /\ AfterAnswer(i)
  /\ Rerender(selected, Invalidated(query, saves[i].key, selected), Over(i), FALSE)

\* Whatever is selected by then is deselected.
Removed(i) ==
  /\ saves[i].by = "remove" /\ saves[i].st = "ok"
  /\ Rerender(None, query, Over(i), FALSE)
  /\ Elsewhere

\* Another user saves a text.
OthersWrite(p, f, t) ==
  /\ Trouble
  /\ p \notin gone /\ rows[p][f] # t
  /\ rows' = [rows EXCEPT ![p][f] = t]
  /\ excused' = excused \cup {p}
  /\ PageLeft /\ UNCHANGED <<gone, saves>>

-----------------------------------------------------------------------------
User ==
  \/ EditTitle \/ SaveTitle \/ CancelTitle \/ TitleHistory
  \/ OpenDoc \/ CloseDoc \/ SaveDoc
  \/ OpenForm \/ CloseForm \/ SaveForm \/ Delete \/ Retry
  \/ \E t \in Texts : TypeTitle(t) \/ RestoreTitle(t) \/ TypeDoc(t) \/ RestoreDoc(t)
                      \/ TypeForm(t) \/ PickTables(t)
  \/ \E mode \in {"edit", "history"} : DocTab(mode)
  \/ \E p \in Products : Select(p)

Backend(i) == Succeed(i) \/ Lose(i) \/ Refuse(i)
Answered(i) == Failed(i) \/ TextSaved(i) \/ Restored(i) \/ FormSaved(i) \/ Removed(i)

Next ==
  \/ User
  \/ \E p \in Products : Serve(p) \/ Arrive(p) \/ FetchFails(p)
  \/ \E i \in Pending : Backend(i) \/ Answered(i)
  \/ \E p \in Products, f \in Fields, t \in Texts : OthersWrite(p, f, t)

Spec == Init /\ [][Next]_vars

-----------------------------------------------------------------------------
(* Properties. *)

\* A draft is of the product on display and was begun from, or saved over, the
\* text on display: an answer that changes the text under the user's hands
\* takes the draft away, so that no text that was shown is overwritten unseen.
\* The documentation's draft may have come from another product, with equal
\* documentation.
DraftsOfTheDisplay ==
  /\ title.mode = "edit" => title.of = selected /\ title.base = Detail.desc
  /\ doc.open => doc.base = Detail.doc

\* Drafts are begun where a product is displayed, and go with it.
DraftsShown == title.mode = "edit" \/ doc.open \/ form # None => Displayed

DraftInv == TypeOK /\ DraftsShown /\ DraftsOfTheDisplay

\* Among the mutations sv, one of product p was committed and its answer, which
\* will have p read again, has not been handled.
Owes(s, p) == s # None /\ s.to = p /\ s.st \in {"second", "ok"}
Owing(sv, p) == \E i \in DOMAIN sv : Owes(sv[i], p)

\* What a query has read, and what it takes for valid, is the backend's row.
Current(q, row) ==
  /\ q.fetch = "served" => q.got = row
  /\ q.fetch = "none" /\ q.data # None /\ ~q.error /\ ~q.invalid => q.data = row

\* Where the page was not misled, only an answer still to come makes it stale.
ReadsAreCurrent ==
  \A p \in Products : p \notin excused \cup gone /\ ~Owing(saves, p)
                       => Current(query[p], rows[p])

\* The query on display does not stay marked: it is fetched or has failed.
MarkedAtRest(q) == q.fetch = "none" /\ q.data # None /\ ~q.error /\ q.invalid
DisplayNotMarked == selected # None => ~MarkedAtRest(query[selected])

RemovedAreGone(sv) ==
  \A i \in DOMAIN sv : sv[i] # None /\ sv[i].by = "remove" /\ sv[i].st = "ok"
                       => sv[i].to \in gone

IInv == DraftInv /\ ReadsAreCurrent /\ DisplayNotMarked /\ RemovedAreGone(saves)

\* At rest, with no write of others since the last read, the page shows what
\* the backend holds: every save of this user that was confirmed, by any of the
\* four ways to save, is followed by a read.  It may not be where the save
\* failed after its first request or its answer was lost, where the answer found
\* another product selected and invalidated that one's queries, or where it
\* came over a read under way of a product that was not on display.
OwnSavesShown ==
  (/\ Displayed /\ selected \notin excused \cup gone
   /\ query[selected].fetch = "none"
   /\ ~\E i \in Pending : saves[i].to = selected)
  => Detail = rows[selected]
=============================================================================
