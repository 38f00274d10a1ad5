------------------------------ MODULE Registry -------------------------------
(***************************************************************************)
(* The list of data products and the selection: DataProductRegistry with   *)
(* its search and filters, useDataProducts, data-product-store, and the    *)
(* ends of the dialogs and of the palette that move the selection.  The    *)
(* list is an infinite query per search and filters: pages by offset over  *)
(* a catalog that others change, reloaded whole when it is invalidated.    *)
(* The backend answers a page by two statements, a count and the rows, or, *)
(* if nothing narrows the list, from the cache of one of its processes:    *)
(* with what they found in any earlier state, for all this module knows    *)
(* (CatalogCache bounds its age).                                          *)
(*                                                                         *)
(* Of the two filters, team and schedule, which are treated alike, one is  *)
(* modelled, that of the team, which no edit changes; and one search term, *)
(* that finds a product by what an edit changes of it, its name.           *)
(***************************************************************************)
EXTENDS Naturals, Sequences, FiniteSets, SequencesExt, Navigation

CONSTANTS
  Products,   \* the ids
  Names,      \* numbers, in order
  TeamOf,     \* team of a product, or Unassigned; numbers, in order
  Unassigned,
  Found,      \* the names that the search term finds
  Catalogs,   \* the catalogs to start from: names of some products
  Stored,     \* the favourites that localStorage may hold at the start
  PageSize,
  MaxOthers,  \* bound on the changes others make
  MaxMoves,   \* bound on what the user does, and on failures
  None

\* What a catalog may be: the names of some products.
Contents == UNION {[S -> Names] : S \in SUBSET Products}

ASSUME RegistryAssumption ==
  /\ Names \subseteq Nat /\ IsFiniteSet(Names) /\ None \notin Products
  /\ TeamOf \in [Products -> Nat] /\ Found \subseteq Names
  /\ Catalogs \subseteq Contents
  /\ Stored \subseteq SUBSET Products
  /\ PageSize \in Nat \ {0} /\ MaxOthers \in Nat /\ MaxMoves \in Nat

VARIABLES
  catalogs,    \* the names of the backend's products, after each commit
  gone,        \* products that were deleted; an id is not used again
  others,      \* changes made by others
  moves,       \* acts of the user, and failures
  typed,       \* localQuery of DataProductSearch: the term, or nothing
  searchQuery, \* the same in the store, after the debounce
  teamFilters,
  favorites,
  selected,    \* selectedProductId
  lists,       \* [Keys -> the infinite query]
  write,       \* the creation, edit or deletion this user has under way
  deleted      \* (history) deletions answered to this user

choiceVars == <<typed, searchQuery, teamFilters>>
rowVars == <<catalogs, gone, others>>
dataVars == <<rowVars, moves>>
vars == <<navVars, dataVars, choiceVars, favorites, selected, lists, write,
          deleted>>

\* One more act of the user, or failure.
Move == moves < MaxMoves /\ moves' = moves + 1

Teams == {TeamOf[p] : p \in Products} \ {Unassigned}

catalog == Last(catalogs)
names == {catalog[p] : p \in DOMAIN catalog}

\* A query key.  Bound: a search and a filter are not combined.
Keys == {k \in [search : BOOLEAN, teams : SUBSET Teams] :
           k.search => k.teams = {}}
key == [search |-> searchQuery, teams |-> teamFilters]

\* The key of the whole list, which is the one that the backend caches.
Whole == [search |-> FALSE, teams |-> {}]

Mounted == activeTab = Home

-----------------------------------------------------------------------------
(* A query: the pages it shows, the pages fetched so far, the total that   *)
(* the backend has counted for the next page, and the page on its way.  A  *)
(* page is an offset into the listing of the time its rows were read, with *)
(* the total of the time they were counted.                                *)

NoList == [pages |-> <<>>, error |-> FALSE, invalid |-> FALSE,
           fetch |-> "none", got |-> <<>>, counted |-> <<>>, coming |-> <<>>,
           late |-> FALSE,    \* (history) the fetch went on over an invalidation
           excused |-> FALSE] \* (history) the pages lost their mark that way

Least(m, n) == IF m < n THEN m ELSE n

\* The members of S in order: the i-th is the one that i - 1 others precede.
InOrder(S) ==
  [i \in 1 .. Cardinality(S) |->
     CHOOSE p \in S : Cardinality({q \in S : q < p}) = i - 1]

\* list_products of the repository: what catalog c has for a key, by name.
Listing(c, k) ==
  LET matches == {p \in DOMAIN c : /\ k.search => c[p] \in Found
                                   /\ k.teams # {} => TeamOf[p] \in k.teams}
      ordered == InOrder({c[p] : p \in matches})
  IN [i \in DOMAIN ordered |->
        [id |-> CHOOSE p \in matches : c[p] = ordered[i], name |-> ordered[i]]]

Cut(page) ==
  SubSeq(page.listing, page.skip + 1, Least(page.skip + PageSize, Len(page.listing)))

Rows(pages) == FlattenSeq([i \in DOMAIN pages |-> Cut(pages[i])])

ids(items) == {items[i].id : i \in DOMAIN items}

loaded(pages) == Len(Rows(pages))

\* A plausible bug: the end is passed by one page.
hasNextPageLate(pages) == pages # <<>> /\ loaded(pages) <= Last(pages).total

\* A plausible bug: the total of the first page.
hasNextPageOfFirst(pages) == pages # <<>> /\ loaded(pages) < pages[1].total

\* getNextPageParam: loaded of the last page's total.
hasNextPage(pages) == pages # <<>> /\ loaded(pages) < Last(pages).total

isLoading(l) == l.pages = <<>> /\ l.fetch # "none"

\* The list as it stands is fetched again, as many pages as it has.
Reload(l) == [l EXCEPT !.fetch = "reload", !.got = <<>>, !.counted = <<>>,
                       !.coming = <<>>, !.late = FALSE]

Wanted(l) == IF l.fetch = "more" THEN Len(l.pages) + 1
             ELSE IF l.pages = <<>> THEN 1 ELSE Len(l.pages)

\* What the query of key k may be when it comes on display: without data or
\* invalidated it is fetched, after two minutes too.
Observed(k) ==
  LET l == lists[k] IN
  IF l.fetch # "none" THEN {lists}
  ELSE {[lists EXCEPT ![k] = Reload(l)]}
       \cup (IF l.pages = <<>> \/ l.invalid THEN {} ELSE {lists})

\* invalidateQueries: every list is marked, the one on display fetched again,
\* in place of the fetch under way if it has data to show meanwhile.
Invalidated ==
  [k \in Keys |->
     LET l == lists[k]
         display == Mounted /\ k = key
         goesOn == l.fetch # "none" /\ ~(display /\ l.pages # <<>>)
         marked == [l EXCEPT !.invalid = l.pages # <<>> \/ l.fetch # "none"
                                          \/ l.error]
     IN IF goesOn THEN [marked EXCEPT !.late = TRUE]
        ELSE IF display THEN Reload(marked) ELSE marked]

-----------------------------------------------------------------------------
(* What is on display. *)

products == Rows(lists[key].pages)

availableTeams == {TeamOf[p] : p \in ids(products)} \ {Unassigned}

\* The items of s whose id is in S.  By a function of s, for TLC to evaluate
\* the list only once.
Kept(s, S) ==
  LET kept == [t \in {s} |->
        FlattenSeq([i \in DOMAIN t |-> IF t[i].id \in S THEN <<t[i]>> ELSE <<>>])]
  IN kept[s]

filteredProducts ==
  Kept(products, {p \in Products : teamFilters # {} => TeamOf[p] \in teamFilters})

\* By team, by name within it, and otherwise as they are in the list.
Before(s, i, j) ==
  \/ TeamOf[s[i].id] < TeamOf[s[j].id]
  \/ TeamOf[s[i].id] = TeamOf[s[j].id] /\ s[i].name < s[j].name
  \/ TeamOf[s[i].id] = TeamOf[s[j].id] /\ s[i].name = s[j].name /\ i <= j

\* groupedProducts[0].pipelines[0]: the first favourite, or the first product
\* of the first team.
firstGrouped ==
  LET shown == filteredProducts
      starred == Kept(shown, favorites)
  IN IF starred # <<>> THEN starred[1].id
     ELSE shown[CHOOSE i \in DOMAIN shown :
                  \A j \in DOMAIN shown : Before(shown, i, j)].id

-----------------------------------------------------------------------------
NoWrite == [op |-> "none", product |-> None, name |-> None, committed |-> FALSE]

Writes == [op : {"create", "edit", "delete"}, product : Products, name : Names,
           committed : BOOLEAN]

Item == [id : Products, name : Names]

\* A listing has a product once.
Page == {page \in [skip : Nat, total : Nat, listing : Seq(Item), cached : BOOLEAN] :
           \A i, j \in DOMAIN page.listing :
             page.listing[i].id = page.listing[j].id => i = j}

List == [pages : Seq(Page), error : BOOLEAN, invalid : BOOLEAN,
         fetch : {"none", "reload", "more"}, got : Seq(Page), counted : Seq(Nat),
         coming : Seq(Page), late : BOOLEAN, excused : BOOLEAN]

\* Pages are fetched one at a time, and "Load more" adds to what is shown.
ListOK(l) ==
  /\ l \in List
  /\ Len(l.coming) < 2 /\ Len(l.counted) < 2
  /\ l.counted = <<>> \/ l.coming = <<>>
  /\ l.fetch = "more" => Len(l.got) = Len(l.pages) /\ l.pages # <<>>
  /\ l.fetch = "none" => l.got = <<>> /\ l.counted = <<>> /\ l.coming = <<>>

TypeOK ==
  /\ NavTypeOK
  /\ catalogs \in Seq(Contents) \ {<<>>}
  /\ gone \subseteq Products \ DOMAIN catalog /\ deleted \subseteq gone
  /\ others \in 0 .. MaxOthers /\ moves \in 0 .. MaxMoves
  /\ typed \in BOOLEAN /\ searchQuery \in BOOLEAN
  /\ key \in Keys
  /\ favorites \subseteq Products
  /\ selected \in Products \cup {None}
  /\ write \in Writes \cup {NoWrite}
  /\ lists \in [Keys -> List] /\ \A k \in Keys : ListOK(lists[k])

Init ==
  /\ NavInit
  /\ \E c \in Catalogs : catalogs = <<c>>
  /\ gone = {} /\ others = 0 /\ moves = 0
  /\ typed = FALSE /\ searchQuery = FALSE /\ teamFilters = {}
  /\ favorites \in Stored /\ selected = None
  /\ lists = [k \in Keys |-> IF Mounted /\ k = key THEN Reload(NoList)
                             ELSE NoList]
  /\ write = NoWrite /\ deleted = {}

-----------------------------------------------------------------------------
(* The pages of a query.  A request that fails has been tried three times. *)

Answered(k, total, listing, cached) ==
  lists' = [lists EXCEPT ![k].counted = <<>>, ![k].coming =
              <<[skip |-> loaded(lists[k].got), total |-> total,
                 listing |-> listing, cached |-> cached]>>]

\* The count statement, on the catalog of its time.
PageCount(k) ==
  LET l == lists[k] IN
  /\ l.fetch # "none" /\ l.counted = <<>> /\ l.coming = <<>>
  /\ lists' = [lists EXCEPT ![k].counted = <<Len(Listing(catalog, k))>>]
  /\ UNCHANGED <<navVars, dataVars, choiceVars, favorites, selected, write,
                 deleted>>

\* The data statement, on the catalog of its own.
PageRead(k) ==
  LET l == lists[k] IN
  /\ l.counted # <<>>
  /\ Answered(k, l.counted[1], Listing(catalog, k), FALSE)
  /\ UNCHANGED <<navVars, dataVars, choiceVars, favorites, selected, write,
                 deleted>>

\* A process answers with the page it has in its cache: its total and its rows
\* were read one after the other, at any time so far.  The clear by a write
\* tells the process that committed it only, and a read under way refills it.
PageCached(k) ==
  LET l == lists[k] IN
  /\ k = Whole /\ l.fetch # "none" /\ l.counted = <<>> /\ l.coming = <<>>
  /\ \E v, w \in DOMAIN catalogs :
       v <= w /\ Answered(k, Len(Listing(catalogs[v], k)), Listing(catalogs[w], k), TRUE)
  /\ UNCHANGED <<navVars, dataVars, choiceVars, favorites, selected, write,
                 deleted>>

\* (history) The pages it gets for l count as valid, though read too early.
LetThrough(l) ==
  \/ l.late
  \/ l.fetch = "more" /\ (l.excused \/ l.invalid)

\* The next page is asked for, or the pages fetched replace the list.
PageArrives(k) ==
  LET l == lists[k]
      got == l.got \o l.coming
  IN /\ l.coming # <<>>
     /\ lists' = [lists EXCEPT ![k] =
          IF Len(got) < Wanted(l) /\ hasNextPage(got)
          THEN [l EXCEPT !.got = got, !.coming = <<>>]
          ELSE [l EXCEPT !.pages = got, !.error = FALSE, !.invalid = FALSE,
                         !.fetch = "none", !.got = <<>>, !.coming = <<>>,
                         !.late = FALSE, !.excused = LetThrough(l)]]
     /\ UNCHANGED <<navVars, dataVars, choiceVars, favorites, selected, write,
                    deleted>>

\* The list keeps what it shows.
PageFails(k) ==
  /\ Move /\ lists[k].fetch # "none"
  /\ lists' = [lists EXCEPT ![k] =
       [@ EXCEPT !.error = TRUE, !.fetch = "none", !.got = <<>>,
                 !.counted = <<>>, !.coming = <<>>, !.late = FALSE]]
  /\ UNCHANGED <<navVars, rowVars, choiceVars, favorites, selected, write,
                 deleted>>

\* "Load more": a reload under way is given up for it, and the list it gets
\* counts as valid.
LoadMore ==
  LET l == lists[key] IN
  /\ Move /\ Mounted /\ hasNextPage(l.pages) /\ l.fetch # "more"
  /\ lists' = [lists EXCEPT ![key] =
       [l EXCEPT !.fetch = "more", !.got = l.pages, !.counted = <<>>,
                 !.coming = <<>>, !.late = FALSE]]
  /\ UNCHANGED <<navVars, rowVars, choiceVars, favorites, selected, write,
                 deleted>>

Retry ==
  /\ Move /\ Mounted /\ lists[key].error
  /\ lists' = [lists EXCEPT ![key] = Reload(@)]
  /\ UNCHANGED <<navVars, rowVars, choiceVars, favorites, selected, write,
                 deleted>>

-----------------------------------------------------------------------------
(* Search, filters and favourites. *)

\* The query of the key now chosen comes on display.
Narrow(search, teams) ==
  /\ searchQuery' = search /\ teamFilters' = teams
  /\ lists' \in Observed([search |-> search, teams |-> teams])

\* Typing restarts the timer of 300 ms.
Type ==
  /\ Move /\ Mounted /\ teamFilters = {}
  /\ typed' = ~typed
  /\ UNCHANGED <<navVars, rowVars, searchQuery, teamFilters, favorites,
                 selected, lists, write, deleted>>

Debounced ==
  /\ Mounted /\ typed # searchQuery /\ teamFilters = {}
  /\ Narrow(typed, {})
  /\ UNCHANGED <<navVars, dataVars, typed, favorites, selected, write, deleted>>

toggleFilter(team) ==
  /\ Move /\ Mounted /\ ~typed /\ ~searchQuery /\ team \in availableTeams
  /\ Narrow(searchQuery, IF team \in teamFilters THEN teamFilters \ {team}
                         ELSE teamFilters \cup {team})
  /\ UNCHANGED <<navVars, rowVars, typed, favorites, selected, write, deleted>>

\* In the drawer, or in the strip that replaces it when it is closed.
clearAllFilters ==
  /\ Move /\ Mounted /\ teamFilters # {}
  /\ Narrow(searchQuery, {})
  /\ UNCHANGED <<navVars, rowVars, typed, favorites, selected, write, deleted>>

toggleFavorite(p) ==
  /\ Move /\ Mounted /\ p \in ids(filteredProducts)
  /\ favorites' = IF p \in favorites THEN favorites \ {p} ELSE favorites \cup {p}
  /\ UNCHANGED <<navVars, rowVars, choiceVars, selected, lists, write, deleted>>

-----------------------------------------------------------------------------
(* The selection. *)

setSelectedProductId(p) == selected' = p /\ ShowHome

handleSelectProduct(p) ==
  /\ Move /\ Mounted /\ p \in ids(filteredProducts)
  /\ setSelectedProductId(p)
  /\ UNCHANGED <<rowVars, choiceVars, favorites, lists, write, deleted>>

\* First effect: something is selected.
SelectFirst ==
  /\ Mounted /\ selected = None /\ filteredProducts # <<>>
  /\ setSelectedProductId(firstGrouped)
  /\ UNCHANGED <<dataVars, choiceVars, favorites, lists, write, deleted>>

\* A plausible bug: the effect is skipped while the list is narrowed.
FollowUnfilteredList ==
  /\ Mounted /\ teamFilters = {} /\ ~searchQuery /\ filteredProducts # <<>> /\ selected # None
  /\ selected \notin ids(filteredProducts)
  /\ setSelectedProductId(filteredProducts[1].id)
  /\ UNCHANGED <<dataVars, choiceVars, favorites, lists, write, deleted>>

\* Second effect: what is selected is in the list.
FollowList ==
  /\ Mounted /\ selected # None /\ filteredProducts # <<>>
  /\ selected \notin ids(filteredProducts)
  /\ setSelectedProductId(filteredProducts[1].id)
  /\ UNCHANGED <<dataVars, choiceVars, favorites, lists, write, deleted>>

-----------------------------------------------------------------------------
(* Tabs: the registry is in the tree on its own tab only. *)

\* A new registry has an empty search, put in the store by its timer.
Mounting ==
  /\ typed' = IF activeTab' = activeTab THEN typed ELSE FALSE
  /\ IF activeTab' = Home /\ activeTab # Home THEN lists' \in Observed(key)
     ELSE UNCHANGED lists

Navigate(tab) ==
  /\ Move /\ setActiveTab(tab) /\ Mounting
  /\ UNCHANGED <<rowVars, searchQuery, teamFilters, favorites, selected,
                 write, deleted>>

Listen ==
  /\ HashChange /\ Mounting
  /\ UNCHANGED <<dataVars, searchQuery, teamFilters, favorites, selected,
                 write, deleted>>

History ==
  /\ Move /\ Browse
  /\ UNCHANGED <<rowVars, choiceVars, favorites, selected, lists, write,
                 deleted>>

\* selectResult of CommandPalette: any product of the catalog.
PaletteSelects(p) ==
  /\ Move /\ p \in DOMAIN catalog
  /\ setActiveTab(Home) /\ selected' = p /\ Mounting
  /\ UNCHANGED <<rowVars, searchQuery, teamFilters, favorites, write, deleted>>

-----------------------------------------------------------------------------
(* Creation, edit and deletion.  Bound: this user has one under way at a    *)
(* time.                                                                    *)

\* The create button; for the product on display a save of the form or of a
\* text (which keeps the name) or a restore, and the confirmed delete.
Ask ==
  /\ Move /\ Mounted /\ write = NoWrite
  /\ \/ \E p \in Products \ (DOMAIN catalog \cup gone), n \in Names :
          write' = [op |-> "create", product |-> p, name |-> n, committed |-> FALSE]
     \/ /\ selected \in DOMAIN catalog
        /\ \/ \E n \in Names : write' = [op |-> "edit", product |-> selected,
                                        name |-> n, committed |-> FALSE]
           \/ write' = [op |-> "delete", product |-> selected,
                        name |-> catalog[selected], committed |-> FALSE]
  /\ UNCHANGED <<navVars, rowVars, choiceVars, favorites, selected, lists,
                 deleted>>

\* A name is given once.
AddRow(p, n) ==
  /\ p \notin DOMAIN catalog \cup gone /\ n \notin names
  /\ catalogs' = Append(catalogs, [q \in DOMAIN catalog \cup {p} |->
                                     IF q = p THEN n ELSE catalog[q]])
  /\ UNCHANGED gone

Rename(p, n) ==
  /\ p \in DOMAIN catalog /\ n \notin names
  /\ catalogs' = Append(catalogs, [catalog EXCEPT ![p] = n])
  /\ UNCHANGED gone

KeepName(p, n) ==
  /\ p \in DOMAIN catalog /\ catalog[p] = n
  /\ UNCHANGED <<catalogs, gone>>

DropRow(p) ==
  /\ p \in DOMAIN catalog
  /\ catalogs' = Append(catalogs, [q \in DOMAIN catalog \ {p} |-> catalog[q]])
  /\ gone' = gone \cup {p}

Commits ==
  /\ write.op # "none" /\ ~write.committed
  /\ \/ write.op = "create" /\ AddRow(write.product, write.name)
     \/ write.op = "edit" /\ Rename(write.product, write.name)
     \/ write.op = "edit" /\ KeepName(write.product, write.name)
     \/ write.op = "delete" /\ DropRow(write.product)
  /\ write' = [write EXCEPT !.committed = TRUE]
  /\ UNCHANGED <<navVars, others, moves, choiceVars, favorites, selected, lists,
                 deleted>>

\* A toast: nothing else, though the backend may have committed, or the form's
\* PATCH have done so before its PUT failed.
Fails ==
  /\ Move /\ write.op # "none"
  /\ write' = NoWrite
  /\ UNCHANGED <<navVars, rowVars, choiceVars, favorites, selected, lists,
                 deleted>>

\* onSuccess of the creation, then onCreated of the registry; both run
\* wherever the user has gone.
Created ==
  /\ write.op = "create" /\ write.committed
  /\ write' = NoWrite /\ lists' = Invalidated
  /\ setSelectedProductId(write.product)
  /\ UNCHANGED <<dataVars, choiceVars, favorites, deleted>>

\* onSuccess of a save or of a restore.
Saved ==
  /\ write.op = "edit" /\ write.committed
  /\ write' = NoWrite /\ lists' = Invalidated
  /\ UNCHANGED <<navVars, dataVars, choiceVars, favorites, selected, deleted>>

\* A plausible bug: the list is not invalidated.
DeletedKeepingList ==
  /\ write.op = "delete" /\ write.committed
  /\ write' = NoWrite
  /\ setSelectedProductId(None)
  /\ deleted' = deleted \cup {write.product}
  /\ UNCHANGED <<dataVars, choiceVars, favorites, lists>>

\* onSuccess of the deletion.
Deleted ==
  /\ write.op = "delete" /\ write.committed
  /\ write' = NoWrite /\ lists' = Invalidated
  /\ setSelectedProductId(None)
  /\ deleted' = deleted \cup {write.product}
  /\ UNCHANGED <<dataVars, choiceVars, favorites>>

OthersWrite ==
  /\ others < MaxOthers /\ others' = others + 1
  /\ \E p \in Products : \/ \E n \in Names : AddRow(p, n) \/ Rename(p, n)
                        \/ DropRow(p)
  /\ UNCHANGED <<navVars, moves, choiceVars, favorites, selected, lists, write, deleted>>

-----------------------------------------------------------------------------
Query == \E k \in Keys :
           PageCount(k) \/ PageRead(k) \/ PageCached(k) \/ PageArrives(k)

Failures == Fails \/ \E k \in Keys : PageFails(k)

Effects == SelectFirst \/ FollowList

User ==
  \/ LoadMore \/ Retry \/ Type \/ clearAllFilters \/ Ask \/ History
  \/ \E t \in Teams : toggleFilter(t)
  \/ \E p \in Products :
       toggleFavorite(p) \/ handleSelectProduct(p) \/ PaletteSelects(p)
  \/ \E tab \in Tabs : Navigate(tab)

Answers == Commits \/ Created \/ Saved \/ Deleted

Next ==
  \/ Query \/ Failures \/ Effects \/ Debounced \/ Listen \/ Answers \/ User
  \/ OthersWrite

Spec == Init /\ [][Next]_vars

\* Effects follow renders, events and timers are delivered.
Fairness == WF_vars(SelectFirst) /\ WF_vars(FollowList) /\ WF_vars(Listen)
            /\ WF_vars(Debounced)

FairSpec == Spec /\ Fairness

-----------------------------------------------------------------------------
(* Properties. *)

\* What is selected is in the list on display, once there is one: neither a
\* creation, a deletion, a palette choice, a filter nor a reload leaves the
\* workspace beside the list for good.
SelectionShown ==
  ~Mounted \/ filteredProducts = <<>> \/ selected \in ids(filteredProducts)

SelectionSettles == []<>SelectionShown

\* The pages of a list whose totals and rows are all of one listing are the
\* beginning of it: by offsets, none twice, none left out, none empty but the
\* only one, and "Load more" is offered until it is complete.
OneListing(pages) ==
  \A i \in DOMAIN pages : /\ pages[i].listing = pages[1].listing
                          /\ pages[i].total = Len(pages[1].listing)

BeginsListing(pages) ==
  pages # <<>> /\ OneListing(pages) =>
    /\ IsPrefix(Rows(pages), pages[1].listing)
    /\ Len(pages) > 1 => Cut(Last(pages)) # <<>>
    /\ ~hasNextPage(pages) => Rows(pages) = pages[1].listing

PagesAreAPrefix == \A k \in Keys : BeginsListing(lists[k].pages)

\* Of a list whose pages were read while it changed: a product that was there
\* all the time is left out of the complete list only if it moved up between
\* two pages, and is in it twice only if it moved down.  A list is complete
\* when no more is offered and its last total was not counted too small.
Place(page, p) ==
  CHOOSE i \in DOMAIN page.listing : page.listing[i].id = p

Stays(pages, p) == \A i \in DOMAIN pages : p \in ids(pages[i].listing)

MovesUp(pages, p) ==
  \E i \in 2 .. Len(pages) : Place(pages[i], p) < Place(pages[i - 1], p)

MovesDown(pages, p) ==
  \E i \in 2 .. Len(pages) : Place(pages[i], p) > Place(pages[i - 1], p)

Once(pages, p) ==
  \A i, j \in DOMAIN Rows(pages) :
    Rows(pages)[i].id = p /\ Rows(pages)[j].id = p => i = j

Complete(pages) ==
  ~hasNextPage(pages) /\ Last(pages).total >= Len(Last(pages).listing)

StayingListed(pages) ==
  \A p \in Products : pages # <<>> /\ Stays(pages, p) =>
    /\ Complete(pages) => MovesUp(pages, p) \/ p \in ids(Rows(pages))
    /\ MovesDown(pages, p) \/ Once(pages, p)

ListedOnce == \A k \in Keys : StayingListed(lists[k].pages)

\* A product whose deletion was answered to this user is not in the list on
\* display, once nothing is being fetched and nothing failed: unless the page
\* came from a cache, the reload was given up for "Load more", or the list was
\* already being fetched and the invalidation let it go on.
DeletedLeaves ==
  LET l == lists[key] IN
  Mounted /\ l.fetch = "none" /\ ~l.error /\ ~l.excused =>
    \A i \in DOMAIN l.pages :
      l.pages[i].cached \/ ids(Cut(l.pages[i])) \cap deleted = {}

(* The invariant. *)

\* A product that was there all the time is among the rows of the pages or
\* comes after them, and is not both.
Tracks(pages) ==
  \A p \in Products : pages # <<>> /\ Stays(pages, p) =>
    /\ \/ MovesUp(pages, p) \/ p \in ids(Rows(pages))
       \/ Place(Last(pages), p) > loaded(pages)
    /\ \/ MovesDown(pages, p)
       \/ /\ Once(pages, p)
          /\ p \in ids(Rows(pages)) => Place(Last(pages), p) <= loaded(pages)

\* A page is asked for at the end of the ones before it, which were not all.
ReadInOrder(l) ==
  /\ BeginsListing(l.pages) /\ BeginsListing(l.got)
  /\ Tracks(l.pages) /\ Tracks(l.got)
  /\ l.got # <<>> => hasNextPage(l.got)
  /\ l.coming # <<>> => l.coming[1].skip = loaded(l.got)

\* The pages that were read from the catalog have nothing deleted.
Clean(pages) ==
  \A i \in DOMAIN pages :
    pages[i].cached \/ pages[i].listing \in Seq([id : Products \ deleted, name : Names])

\* Pages with a deleted product are marked, or were let through; so are those
\* fetched, which replace them.
DeletionsMarked(l) ==
  /\ Clean(l.pages) \/ l.invalid \/ l.excused
  /\ \/ Clean(l.got) /\ Clean(l.coming)
     \/ l.late
     \/ l.fetch = "more" /\ (l.invalid \/ l.excused)

\* The list on display is fetched again when it is marked.
DisplayIsFetched ==
  Mounted /\ lists[key].invalid => lists[key].fetch # "none" \/ lists[key].error

DeletedIsGone == write.op = "delete" /\ write.committed => write.product \in gone

IInv ==
  /\ TypeOK /\ AddressNamesTab /\ DeletedIsGone /\ DisplayIsFetched
  /\ \A k \in Keys : ReadInOrder(lists[k]) /\ DeletionsMarked(lists[k])
=============================================================================
