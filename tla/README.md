# A TLA+ project for EtlNexus

EtlNexus is a catalog of data products: a FastAPI backend over PostgreSQL
(`backend/`), a React single-page frontend (`frontend/`) and a package of hooks
that instruments Spark ETL jobs (`etlnexus-hooks/`). This directory holds TLA+
specifications of the parts whose correctness depends on interleavings,
failures and time, the TLC configurations that check them, and TLAPS proofs.
Paths below are relative to `src/`; line numbers are in `PROJECT.json`
("map", "hazards").

Much of `docs/` and of the top-level README describes an earlier system
(Airflow pipelines, sync cycles, grants). Every definition here is translated
from the code.

## 1. The system

| Component | State it keeps | Operations | What is hard |
|---|---|---|---|
| Data product writes (`routers/data_products.py`, `services/data_product_service.py`, `repositories/data_product_repo.py`, `revision_repo.py`, `models/`) | tables `data_products`, `product_revisions`; per request a session with an identity map | create, edit, set tables, delete, restore a revision | statements of concurrent requests interleave; rows read once are used later; locks, deadlocks, failed and lost commits |
| Authorisation (`auth.py`, `config.py`) | none of its own; reads the product into the request's session | who may edit, team of a new product | checked before the write, on a row that may change |
| Catalog caches (`cache.py`, used by the product service and `ai_service.py`) | per process, entries with a time stamp | get, set with lazy eviction, clear | reads in flight across a clear; processes that never talk to each other; expiry |
| OIDC client (`integrations/oidc_client.py`) | signing keys, when they were fetched, last on-demand refresh, HTTP client | initialise, refresh, validate a token, close | concurrent refreshes; identity provider down at start-up; key rotation |
| Spark Connect client (`integrations/spark_connect_client.py`, `services/table_service.py`) | one session shared by worker threads; `table_schema_cache` | create lazily, health check, read a schema, stop | thread races; a session that outlives its server |
| AI chat (`services/ai_service.py`, `integrations/llm_client.py`) | lazily created HTTP client | chat | slow external service |
| Metrics and middleware (`routers/metrics.py`, `middleware.py`, `rate_limit.py`) | counters per method, path, status | record a request | the cap on the number of keys |
| Start-up (`main.py`, `db_bootstrap.py`) | database, schema, tables | create what is missing, open and close the clients | several processes at once |
| ETL hooks (`mixin.py`, `metrics_collector.py`, `spark_introspect.py`) | `DataFrame.writeTo` of the whole process while a job runs | instrumented run, capture of writes, plan tree | captures that overlap; a job that raises |
| Frontend API client (`api/client.ts`) | retry marks per request; the store's token | attach the token, renew it once after a 401, resend idempotent calls, sign out | several 401s at once; a copy that is executed after its answer was given up; a retry of what was done |
| Frontend sign-in (`AuthProvider.tsx`, `AuthGuard.tsx`, `use-auth.ts`, `auth-store.ts`) | configuration, mode, user, token, the OIDC library's user and its stored copy | load the configuration, sign in and out, renew, ask who the user is | an effect that runs twice; several sources of one token; every request may fail |
| Frontend editing (`DataProductWorkspace.tsx`, `EditableTitle.tsx`, `DocumentationModal.tsx`, `RevisionHistoryPanel.tsx`, `use-update-pipeline.ts`, `use-revisions.ts`) | drafts of three editors, the detail's query cache, mutations in flight | edit, save (PATCH then PUT), restore, delete, select | half a save; refetch against a draft; callbacks that belong to another product by then |
| Frontend registry and selection (`DataProductRegistry.tsx`, `use-data-products.ts`, `data-product-store.ts`, `favorites-store.ts`) | pages per query key, search, filters, favourites, selection | page, reload, search, filter, create, delete, select | pages read at different times; a reload given up; a selection that follows the list |
| Frontend navigation (`navigation-store.ts`, `App.tsx`) | the tab, the address | change either | each is written to the other by a later event |
| Frontend command palette (`CommandPalette.tsx`) | query, timer, requests, results, highlight | type, search, move, select | responses out of order; timers and requests that outlive the palette |
| Frontend AI chat (`use-ai-chat.ts`, `ai-store.ts`) | messages, requests out | send, clear, leave | an answer that comes to another conversation |
| Frontend onboarding (`onboarding-store.ts`, `OnboardingOverlay.tsx`) | the step, whether the tour was seen, in memory and in `localStorage` | start, step, skip, finish | keys shared with the palette; queued tab events; reloads |

Interactions: a request of the frontend passes the API client, the middleware,
`get_current_user` (OIDC client), the permission check (which loads the product
into the same session the service then uses), the service and its repositories,
and on a write clears the list cache of its process. List and chat requests
fill the caches. Nothing is sent between backend processes.

Correctness, by component:

- *Writes*: two products never share a name; a revision never outlives its
  product; only who may edit a product as it is at the commit changes it; saves
  of different columns merge; a text never changes without a revision; a
  restore writes only what that product's history holds; a request that did not
  commit leaves nothing, and one that did took effect as a whole at its COMMIT;
  every request is answered.
- *Caches*: what is served was superseded a bounded time ago, in every process;
  a cache drops nothing that could be served; processes converge.
- *OIDC*: a token is accepted only with a key published recently; a token of
  a key the provider has published for a while is not refused, whatever other
  requests, late answers and the cooldown do, unless the provider failed.
- *Spark session*: one session; never used after `stop`; recreated when dead.
- *Metrics*: never more keys than the cap; counters agree with each other.
- *Hooks*: after all captures ended `writeTo` is the original; each capture
  holds exactly its own writes.
- *API client*: a call settles once; it resolves only if it was executed; a
  POST, PATCH or DELETE is executed at most once, however often it was renewed
  and resent; a call refused for its token has left nothing behind.
- *Sign-in*: a page is under SSO or has the default administrator, never both;
  no loading screen stays; an application at rest has its user, unless a log-out
  threw its token away and could not remove the OIDC library's user.
- *Editing*: no draft of a text outlives the text it was drawn from; what was
  saved is shown, where the page was told all of it.
- *Registry*: pages of one listing are its beginning; a product that stays is
  listed once unless it moves between two pages; a deleted product leaves the
  list, once a reload after the deletion has read it from the catalog; the
  selection settles on a product of the list.
- *Palette, navigation, chat, tour*: the query in the box is followed to its
  answer; the address and the tab agree; each question is answered once, below;
  a step is shown on its tab, and a tour that was seen stays seen.

## 2. Modules

| Module | Kind | Models |
|---|---|---|
| `ProductData` | vocabulary | rows, revisions, calls, and who may edit a row |
| `ProductCatalog` | abstract specification | what the write endpoints promise: a request takes effect at one moment, or never |
| `DataProducts` | specification | the write endpoints, statement by statement, and the two tables; implements `ProductCatalog` |
| `MCDataProducts` | instances | users, teams, bodies and seed rows for TLC |
| `DataProductsProofs` | proofs | theorems about `DataProducts`, the refinement among them |
| `CatalogCache` | specification | both catalog caches, the reads that fill and the writes that clear them |
| `MCCatalogCache` | instances | constants for TLC |
| `CatalogCacheProofs` | proofs | theorems about `CatalogCache` |
| `JwksClient` | specification | the identity provider's keys, refreshed by concurrent token validations |
| `MCJwksClient` | instance | the provider's key sets for TLC |
| `JwksClientProofs` | proofs | theorems about `JwksClient` |
| `RemoteCall` | abstract specification | what a caller of the API client may rely on |
| `ApiClient` | specification | the axios instance: renewals, retries and sign-outs; implements `RemoteCall` |
| `ApiClientProofs` | proofs | theorems about `ApiClient`, the refinement among them |
| `SignIn`, `SignInProofs` | specification, proofs | from the request for the configuration to a page with its user |
| `Navigation` | specification (part) | the tab and the address; composed into `Registry` and `Onboarding` |
| `Registry`, `RegistryProofs` | specification, proofs | the list of products page by page, and the selection |
| `Palette` | specification | the command palette's search |
| `AiChat` | specification | the conversation with the assistant |
| `Onboarding` | specification | the guided tour over the tabs, with the palette above it |
| `ViewProofs` | proofs | theorems about `Onboarding`, `Palette` and `AiChat` |
| `EditSession`, `EditSessionProofs` | specification, proofs | the three editors of a product, their saves, and the selection |
| `MCApiClient`, `MCSignIn`, `MCRegistry`, `MCEditSession` | instances | constants for TLC |
| `MCViews` | instance | `Onboarding`, `Palette` and `AiChat`, one at a time |

The specifications share no variables: the caches and the keys belong to a
process and touch the catalog only through the version a statement reads. Those
of the frontend meet the backend through what a request does to a row, a list or
a token; `Navigation` is the one part that two of them share.

### DataProducts

A request is one HTTP call with one SQLAlchemy session, hence one READ
COMMITTED transaction. It gives up the event loop at every statement, so an
action is one statement with the Python code up to the next:

| `pc` | The code at that point |
|---|---|
| `idle` | before the request: `BeginCreate`, `RefuseCreate`, `BeginEdit` (with `Authorize`, i.e. `require_team_membership`) |
| `load` | `get_by_id` of the service, skipped by delete and by an edit that got `preloaded_product` |
| `revision` | `rev_repo.get_by_id` in `restore_revision` and its checks |
| `snapshot` | `RevisionRepository.create`, INSERT and flush, per changed text |
| `write` | the UPDATE or DELETE |
| `claim` | the unique-index entry that statement (or the INSERT of a creation) needs |
| `commit` | `session.commit()` |
| `committed` | the cache clear and building the response |
| `done` | answered |

`products` and `revisions` hold what is committed; `born` the ids that were
ever committed (a client can only know those; ids are random, `uuid4`).
`call[r]` is what was asked, with the columns the handler assigns
(`wanted`); `loaded[r]` is the row in the session's identity map, *as first
read*: reading it again in the same session does not refresh it. What a
transaction has written but not committed, and the locks it holds, are
operators of these (`Changes`, `Drafts`, `Written`, `Exclusive`,
`HoldsKeyShare`, `Claimed`) instead of further variables.

What SQLAlchemy and PostgreSQL do is external and modelled from its use: an
UPDATE names the attributes whose assigned value differs from the loaded one;
an UPDATE that changes the unique name and a DELETE lock the row FOR UPDATE,
other UPDATEs FOR NO KEY UPDATE; the foreign key of an inserted revision locks
its product FOR KEY SHARE; a unique index waits for an uncommitted equal
entry; the deadlock detector aborts a member of a minimal circle; a COMMIT may
succeed without the client hearing of it.

`ProductCatalog` has the same tables and calls, and of each request only its
fate: `new`, `open`, `applied` or `refused`. There a request asks, reads the
product once, at some moment, and is refused or takes effect as a whole
(`Create`, `Edit`, `Delete`): with the name free, the permission valid and the
restored revision in the history *at that moment*. An edit is made of the request
and of the row as it was read, which is weaker than a serial execution and is
what the code does: a column that had the wanted value when it was read is not
written, and the history records the text as it was then. `DataProducts` maps to
it by `Fate`: a request is applied from its COMMIT on (`Durable`), whether or not
its client hears of it, and refused when it ends otherwise. `ActsAsCatalog` is
the mapped specification.

Abstractions: `updated_at` and `created_at` are not columns of the model (only
that `updated_at` is expired after an UPDATE matters, in `Respond`); a time
stamp is the identity of the request that took it; the two INSERTs of one save
are one action, because the first takes the lock that keeps anybody from coming
between; the two UPDATEs of `set_product_tables` (tables, then
`last_updated_by` at the commit) are one, because the first holds the row's
lock until the second and nothing is read between. The viewer role is left out
(no token yields it), and so is the default admin of a deployment without SSO.
Answers that are a 500 to the client are kept apart by their reason
(`fk_violation`, `stale_data`, `unhandled_duplicate`, `failed`, `deadlock`,
`lost_commit`, `expired_read`).

### CatalogCache

The catalog is known by its version, the number of committed writes; `since[v]`
says how long ago version `v` was committed. `store[p][k]` is an entry of
process `p`: its age and the versions of its rows and, for a page of the list,
of its total. A statement is sent, executed and answered in three steps; a write
commits, then clears the pages of its process and is answered, or its connection
breaks after the commit and it clears nothing (`lost`). `Tick` lets a second
pass, and is disabled while a statement has waited `Timeout` seconds
(`command_timeout`): it must be answered or fail first. The model assumes that
the event loop resumes a coroutine in less than a tick. A cache hit changes no
state and is no action; what a hit would return is what the properties say of
live entries.

### JwksClient

The coroutines that validate tokens share one `OIDCClient` per process. They
give up the event loop at a GET only, so an action is a GET's answer with the
code up to the next GET or to the end of `validate_token`; that code is the
chain of operators `CheckStale`, `Lookup`, `SecondLookup`, `Returned`.

| `pc` | The code at that point |
|---|---|
| `begin` | `get_current_user` calls `validate_token` |
| `discover` | `initialize` awaits the well-known configuration |
| `wellknown` | `_refresh_jwks` awaits it, lacking a `jwks_uri` |
| `keys`, `served` | `_refresh_jwks` awaits the keys; the provider has not, or has, sent them |
| `accepted`, `unknown`, `uninitialized`, `error` | how `validate_token` ended |

`stage` is the line that awaits the refresh: in `initialize`, after
`_is_jwks_stale`, or on demand after a miss. `Main` is the call of `initialize`
at start-up; requests arrive when it has returned.

The keys are known by their generation, the number of the key set the provider
had published when it sent them; `since[g]` is the time since generation `g`
was published. Time stamps are ages that `Tick` advances and that stop when
they have outgrown what they are compared with (`TTL + 1`, `Cooldown`). Both
stamps start at 0.0 on the host's monotonic clock: fresh after a reboot, old
otherwise, and `Init` has every case. The stamp `now` that an on-demand refresh
captures before it awaits travels with the request (`stamp`). `trouble` records
when a fetch last failed; only properties read it.

Abstractions: `accepted` means the key was found (signature and expiry are
PyJWT's business, and what the claims say is the caller's); a GET ends within
`Timeout` ticks, which httpx enforces for connecting and for each read and
write rather than for the sum; the clients that `initialize` opens are not
counted; `close` and `extract_groups` are left out. An answer that is no JSON
raises past every handler of the client to `get_current_user`
(`BodyUnreadable`); at start-up it keeps the process from coming up.

### The frontend

JavaScript runs one handler at a time, so in all the modules below an action is
what happens between two awaits: a handler or an answer, the render it causes,
and the effects of that render. React, TanStack Query, axios, the OIDC library
and the browser are external and modelled from their use.

**ApiClient.** `phase[c]` is where a call is; `sent` holds the copies of
requests on their way, which may be executed late or never (`Arrive`, `Lose`),
also after the client has stopped waiting for them. `renewed` and `retries` are
the marks the interceptor leaves on the request's `config`, and their sum
numbers the attempts. `Renew`, `RenewalSucceeds`, `RenewalFails` and
`SignedOut` are the 401 branch, `Transient` and `Resend` the branch of passing
failures. The identity provider issues a token to a renewal before the client
hears of it (`granted`). Payloads are left out; delays are "later".

**SignIn.** `run` are the runs of the effect that loads the configuration: in
development React runs it twice and cancels the first (`StrictRemount`).
`GuardEffects` is one batch of the effects of `SSOGuard` and `useCurrentUser`,
in the order of the hooks; `screen` is what the conditions of `AuthBootstrap`,
`SSOGuard` and `AuthGuard` show. Renewals follow `ApiClient` (`StartRenewal` to
`Removed`), one per query of a token and one for the application's requests
together. `kept` is history: the library failed to remove its user in a log-out
that threw the store's token away, and no token has come since. What else the
OIDC library keeps in the session is left out.

**Navigation** has the tab, the address and a flag for the queued `hashchange`
events: the handler reads the address of its own time, so that one stands for
many.

**Registry.** `lists[k]` is the infinite query of a key: the pages on display,
those fetched so far and the one on its way. A page is the offset it was asked
with, the listing the backend had when it read the rows, and the total it had
counted a statement earlier (`PageCount`, `PageRead`), on a catalog that may have
changed between. The page of the whole list may instead come from the cache of a
backend process (`PageCached`): then its total and its rows are those of any two
states of the catalog so far, the second not before the first, for which
`catalogs` keeps every one. So a listing from before a deletion may come after
it, as the program's does when a read under way has refilled the cleared cache or
when another process answers. How old it can be is `CatalogCache`'s matter
(`BoundedStaleness`); here a cached page has no age. Products are known by ids,
which are not used again, and ordered by names, which an edit or a restore, of
this user or of others, may change; every save invalidates the list
(`Saved`). An edit of the description, the tables or the schedule changes
nothing that the list is ordered or narrowed by in the model: a search by name
stands for one by any of the columns, and a product keeps its team, as no
endpoint changes it. `InOrder` is the ORDER BY of the query, `Kept` the filter
of the page; both are written out, not taken from a library, to be reasoned
about. `Reload`, `Invalidated` and `Observed` are TanStack
Query's rules for a refetch, an invalidation and a key that comes on display;
`LoadMore` gives up a reload under way. `SelectFirst` and `FollowList` are the
two effects that move the selection; they are weakly fair, as is the debounce.
Bounds: one search term and one of the two filters (they are treated alike),
not combined; one creation, edit or deletion at a time. `late` and `excused` are
history: a fetch that went on over an invalidation, and a list whose mark was
lost that way or to "Load more".

**Palette.** `timer` is the debounced query, `inFlight` the requests in the
order they were sent. No request is cancelled. An item is the query it answers
and its index, of at most `PageSize`, and the catalog stands still. The
operators that other views have too carry the module's name (`PaletteInit`,
`ChatInit`), so that `ViewProofs` can speak of all. `orphan` and `overtaken` are the
history of a request, which only the property reads.

**AiChat.** Prompts are numbered. A request outlives the view and the
conversation; its answer is appended to the messages there are when it comes.
`starting` is the `loading` of `AuthBootstrap`. Two variables are history:
`before`, the prompts that were sent before the conversation was begun, and
`disturbed`, that one of them was out then.

**Onboarding.** The operations of the store are operators (`nextStep`,
`beginExit`, `finalizeExit`, ...), each with the effect that shows the step's
tab; the events are actions. `Escape` and `PickByEnter` are keys that the tour
and the palette both hear, in the order of their listeners.

**EditSession.** `query[p]` is the detail query of a product, `title`, `doc` and
`form` the three editors, `saves` the mutations in the order they were begun.
`Rerender` applies what a change of the selection or of the data does to the
editors: `TitleAfter` and `DocAfter` are their effects, `FormAfter` the form that
is mounted once. A mutation that a component still observes is given the
callbacks of the product selected at each render (`ObservedAfter`); that is why
its answer may invalidate the queries of another. A form's save is a PATCH and
then a PUT; any request may be refused, lost before or after it took effect, or
meet a deleted product. Abstractions and bounds: the name and the schedule
travel with the documentation of the form and are not told apart from it; a
restore and a delete are their second, confirming click; the description's
editor is closed before a dialog opens; the page stays on the products' tab;
the list of the products is not modelled (`Registry` is). `excused` is a
history variable: products of which the page may know less than it was told.

## 3. Runs

| Run | Instance | Shows |
|---|---|---|
| `products_two` | 2 requests, 3 products, 4 users, 3 teams, 5 patches; fairness, no symmetry | `IInv`, `ErrorLeavesNoTrace`, `OnlyEditorsWrite`, `ActsAsCatalog` (the refinement of `ProductCatalog`), `EveryTextChangeRecorded`, `RestoreFromOwnHistory`, `EveryRequestAnswered` |
| `products_three` | 3 requests, fewer inputs; requests are symmetric | `UniqueNames`, `RevisionsHaveProduct`, `DeadlockOnlyAmongRenames` |
| `cache_reads` | 1 process, 2 readers, 1 write, 2 pages and the context, TTL 1, timeout 1, capacity 1; fairness, no symmetry | `IInv`, `BoundedStaleness`, `EvictionSound`, `Converged` |
| `jwks_rotation` | 2 requests and the start-up, 2 keys in 3 generations, TTL 2, cooldown 2, timeout 1; requests are symmetric | `IInv`, `AcceptedKeysAreRecent`, `RotationIsSeen` |
| `api_calls` | a PUT and a PATCH together, 2 retries, 3 tokens; fairness | `IInv`, `RefusedLeavesNothing`, `PromiseKept` (the refinement), `EveryCallSettles` |
| `sign_in` | 3 tokens; fairness | `IInv`, `ModesExclusive`, `RestingAppHasUser`, `LoadingEnds` |
| `registry` | 2 products and names, one or both there at the start, pages of 1, 2 tabs, a team and none, 3 acts or failures; fairness | `AddressNamesTab`, `SelectionSettles` |
| `registry_pages` | 3 products and names, the first and the last name taken at the start, pages of 1, 1 change by others, 2 acts or failures | `IInv` (with `PagesAreAPrefix`), `ListedOnce`, `DeletedLeaves` |
| `views` | the tour with the 5 steps of `onboarding-steps.tsx` and 3 tabs; the palette with 3 queries that find 3, 1 and no products and 3 requests out; the chat with 4 prompts and 2 clearings; fairness | `StepOnItsTab`, `SeenOnce`; `ListAnswersQuery`, `HighlightListed`; `EachAnswered`, `Alternating`, `TypingEnds` |
| `edit_session` | 2 products with equal texts, 2 texts, 2 saves, 2 moves, failures or writes of others | `IInv`, `DraftsOfTheDisplay`, `OwnSavesShown` |
| `products_history_complete`, `products_restore` | as `products_two` | one counterexample each, see section 6 |

`IInv` is the inductive invariant of section 4, of which the types and, in
`Registry`, `PagesAreAPrefix` are conjuncts; TLC checks it before it is proved.
Those of the three views are proved and not run.

Why the bounds are enough. In `DataProducts` a request is served once, so two
requests are every pair of overlapping calls; the users cover a master, a
member (one in other letter case), the creator of an unassigned product and a
stranger; the bodies cover one text, both texts, a rename with and without a
text, a null name, duplicate and empty table names. Interactions of three
matter for lock circles and names handed on (`products_three`): no guard of the
model looks at more than one rival, the row and the index. In `CatalogCache`
one process is enough, for staleness and for convergence, because processes
share nothing but the catalog: a write of another process is, to this one, a
write that clears nothing, which `CommitWrite` includes (the answer to COMMIT
is lost). TTL 1 and timeout 1 separate the two bounds, 2 for the rows and 3 for
the total. Two readers put two reads of one key in flight across the write, and
readers begin again, so that one read fills the cache another has filled. Two
pages and capacity 1 let the cache be full, overfull with live entries, and
cleaned of expired ones. In `JwksClient` two requests and the start-up let a
refresh be overtaken by another of any kind; the provider adds a key and then
withdraws the old one, so that a key can be too new or too old. TTL and
cooldown exceed the timeout, as the program's do; with any smaller bound than
`TTL + Timeout` and `Cooldown + Timeout` TLC finds a counterexample to the
respective property, so the instance reaches the extremes.

In `ApiClient` two calls are enough to overlap two renewals, or a renewal with a
sign-out, and the two are of the two kinds the code tells apart; two retries are
the program's own number; three tokens are the first and one renewal of each
call. In `SignIn` three tokens allow a stored session and two renewals, so that
a renewal of a query can be overtaken by another; each further one repeats this.
In `Registry` pages of one product make every list of two products one of two
pages. For the selection two products are enough: the list has the one selected,
another, or none; with three acts a product is created or deleted, the list
narrowed and the tab changed under it. For the pages there are three: a third is
created between the two there are, one of those is deleted or renamed past the
other, by this user or by others, so that a product that stays moves up or down
between two pages; each write, answer and failure falls between any two
statements. Two acts are a write and "Load more", which gives up the reload the
write asked for. What the cache may answer is any of up to four catalogs. A
deletion of this user and a cached page that still has its product, a reload
given up for "Load more", and a fetch that an invalidation lets go on are all
reached: without any one of its exceptions TLC finds `DeletedLeaves` violated.
In `MCViews` one of three views is at work: they share no variable and each
property speaks of one, so that what the others do meanwhile adds nothing. In
`Palette` the queries find more, fewer and no items than an index left by
another list; three requests can be answered in any order. In `EditSession` two
products with equal texts make the effects that look at a text alone miss a move
between them; two saves are two of one editor, of two, or a save and a delete.
The proofs do not depend on any of these bounds.

Fairness. `DataProducts!FairSpec`: weak fairness of each request's next
statement (the event loop resumes a coroutine whose statement returned, and
PostgreSQL grants a lock nobody holds) and of the deadlock detector, which runs
after `deadlock_timeout`. None of arrivals, failures and lost connections.
`CatalogCache!FairSpec`: time passes, and a statement in flight ends, by its
answer, an error or `command_timeout`. The database is not assumed to execute
it, and writers are not assumed to answer.

`ApiClient!FairSpec`: axios gives up after its timeout, timers fire, and
`signinSilent` and `removeUser` settle; nothing is assumed of the network, the
backend or the identity provider. `SignIn!FairSpec`: requests settle, effects
run after their render, a redirect succeeds or is given up; no click and no
renewal is assumed. `Registry!FairSpec`: effects, the debounce and the
`hashchange` events run; no fetch is assumed to end. `AiChat!ChatFairSpec`, and
with it `MCViews!ViewsSpec`: every request ends, because `aiRequestTimeoutMs` is
positive. The other runs check safety only and assume nothing.

Deadlock is checked in every passing run but four. `DataProducts` and
`ApiClient` have a `Terminated` stutter for when everything is answered,
`SignIn` one for a page at which nothing is under way. `registry`,
`registry_pages`, `views` and `edit_session` turn the check off: when the user's
acts are used up and nothing is in flight, the page waits. The counterexample
runs have no use for it.

## 4. Proofs

`DataProductsProofs` proves for any sets of requests, users, products, names,
bodies and any well-formed seed: `Invariance` (`Spec => []IInv`), and from it
`TypeCorrect`, `NamesStayUnique`, `NoOrphanRevision`, `WritesArePermitted`,
`ErrorsLeaveNoTrace`, `TextChangesRecorded`, `RestoresComeFromHistory`,
`OnlyRenamesDeadlock` and `ImplementsCatalog`: every safety property its runs
check. `ColumnsMerge`, `DedupeKeepsFirsts` and `TablesAreListedOnce` state more
than the runs do.

The argument. Unique names and orphan-free revisions are not inductive: that a
commit keeps them depends on what the locks kept others from doing since the
statement ran. `IInv` adds that: `ControlOK` (which operation can be at which
statement, and what it has read by then), `FreshIds` (the id of a creation in
flight is nobody else's), `LocksCompatible` (no two requests hold conflicting
locks on one row), `LockedRowsExist` (so an INSERTed revision's product is there
at the commit), `ClaimedNamesFree` (a name in the index but uncommitted is no
other row's and no other claim's), `PermissionHolds` (team and creator never
change after creation, so the permission checked on arrival still holds). A step
that does not commit changes one request's place and keeps the tables; lemmas
(`QuietKeeps`, `Acquires`, `OthersFrame`) say what that preserves, and
`CommitEffect` and the `*Kept` lemmas treat the commit of each operation
conjunct by conjunct.

`EditedBy` says what a save may write, and with `CommitEffect` gives
`ColumnsMerge` and `TextChangesRecorded`. A restore uses its revision several
statements after it has found it, so `RestoresComeFromHistory` needs
`RestoresOwnRevision`: the revision stays as long as the product, for a delete
takes both and no id comes back. For `OnlyRenamesDeadlock`, `EachBlocks` says
that each request of a smallest circle of waits blocks another of it.
`WaitingWriterRenames` shows from `ControlOK` that one that has changed its row
and still waits claims a name, which only an update that renames does. There is
one more lock a waiting request may hold, the key share of its revision; if it
renames nothing itself it waits for a rival that has renamed their row, and
`LocksCompatible` says that these two locks are not held together.

`ImplementsCatalog` (`Spec => ActsAsCatalog`) is the refinement of
`ProductCatalog`. `Outcomes` sorts the steps: one commits, or answers a commit,
or writes nothing and goes on or fails; `Fates` reads off what that does to the
fate of its request, and that it leaves the others'. `StepsAsCatalog` then maps
every step to one of the catalog's or to none. That a COMMIT is `Create`,
`Edit` or `Delete` is where the whole invariant is used: each guard the abstract
step has at the commit, the code checked several statements earlier.
`CreatesAsCatalog` takes the free name from `ClaimedNamesFree` and the new id
from `FreshIds`; `EditsAsCatalog` the row from `LockedRowsExist`, the permission
from `PermissionHolds`, the restored revision from `RestoresOwnRevision`.
`EditSets` shows that what the session has written, and the revisions it has
inserted, are those the abstract edit sets and records. (`ColumnsMerge` follows
from the refinement as well, and is no longer checked by a run of its own.)

`DedupeKeepsFirsts` says of `_dedupe` that it keeps every non-empty name of any
list, once, in the order of their first occurrence, and nothing else.
`DedupeRuns` shows that its loop, a recursive function, has a value, by the
set of the numbers up to which it has one and a least number outside it
(`Reaches`); `KeepsOneMore` is the step. With `TablesDedupedKept`, which follows
a list from the call to the commit, `TablesAreListedOnce` concludes that no
committed list names a table twice, seeded ones apart.

`CatalogCacheProofs` proves `[]TypeOK`, `[]IInv`, `[]BoundedStaleness` and the
action property `EvictionSound` for any TTL, timeout, capacity, pages and
processes. `BoundedStaleness` speaks of
live entries only; the invariant says how stale what a statement read can be
while it is in flight (`ReadsAreRecent`: no more than the time since it was
sent, one `Timeout` more for the total) and carries that bound into the entry
with its age (`EntriesAreRecent`). `EvictionSound` is shown action by action,
for one key at a time (`KeptUnlessCleared`, `GrowsOnlyLive`).

`JwksClientProofs` proves `[]TypeOK`, `[]IInv` and the action properties
`AcceptedKeysAreRecent` and `RotationIsSeen` for any requests, keys, sequence
of key sets and times. That an answer is right depends on how the keys came to
be cached: `KeysAreRecent` says that what the provider sent is no older than
its request, hence the cache no older than its own age plus one timeout, even
when a late answer overwrote a newer one; `CooldownIsEarned` that whoever
started a running cooldown left keys as recent as that, or has seen a failure
since. `AnswersFromKeys` then shows, action by action, that every answer was
taken from keys of which one of these holds; `RecentGeneration`
(with `SinceOrdered`) turns the age of a generation into its place in the
sequence.

`ApiClientProofs` proves for any calls, any number of retries and of tokens
`[]IInv`, `[]TypeOK`, `[]RefusedLeavesNothing` and that `ApiClient` implements
`RemoteCall` (`KeepsPromise`, the temporal formula `PromiseKept`). A call is
executed by copies that travel on their own, so how often it has been executed
is not to be read off its phase: `ExecutionsCounted` bounds executions and
travelling copies together by the number of sendings, and `OneCopy` says of a
call that may not be repeated that it goes out again only after a refusal, when
no other copy of it is about. With these every step of the client is a step of
`RemoteCall` under the mapping `status`, or leaves it as it is.

`SignInProofs` proves `[]IInv`, `[]TypeOK`, `[]ModesExclusive` and
`[]RestingAppHasUser` for any number of tokens; the last with the exception that
the property names, an app without a token after a log-out that left the OIDC
library its user. The mode is decided once: `OneDecision` says that a run the
page still waits for finds the page loading, and `Dormant` that on a page
without SSO nothing of the OIDC library, no renewal, redirect or query, is there
to touch the default user. That an application at rest has its user is not
inductive: the effect that stores what a query found runs later than the answer,
so `KnownUserIsStored` says that whoever is known of the current token is stored
or about to be. That the exception is the only one takes `TokenlessIsKept`:
while the library has a user, the store lacks his token only because a log-out
threw it away, whose removal of him or redirect is under way or failed; it needs
`TokensAreIssued`, for a renewal's token to be a new one.

`RegistryProofs` proves `[]IInv`, `[]TypeOK`, `[]AddressNamesTab`,
`[]PagesAreAPrefix`, `[]ListedOnce` and `[]DeletedLeaves` for any products,
names, teams, filters and size of the pages, any number of acts, failures and
changes by others, and whatever a cache answers. Pages are shown that were
fetched one by one before, so `ReadInOrder` says of both that they begin their
listing, that a page is asked for at the end of those fetched and only while
there was more; `BeginsAppend` then adds one page. For `ListedOnce` it says
(`Tracks`) that a product that stays is among the rows loaded or has its place
in the last listing behind them, unless it moved up, and not both, unless it
moved down: its `Place` in the next page's listing is again before or behind the
offset at which that page is cut. The rows are a flattening, a recursive
function: that it has one solution, of a type and growing at its end
(`OneFlattening`, `Flattening`, `FlattenAppend`), is shown by the set of the
numbers up to which it holds and a least number outside it (`Reaches`), as is
that `InOrder` lists a set in order, from its ranks (`Ordered`). For
`DeletedLeaves`, `DeletionsMarked` follows a deleted product from the page it
was read with: what shows one came from a cache, is marked or was let through,
and so is what is being fetched, which will replace it; `InvalidatedKeeps` shows
that an invalidation marks enough for any deletion answered with it, and
`DisplayIsFetched` that no mark stays on display without a fetch or a failure.

`ViewProofs` proves, of the tour, `[]StepOnItsTab` and `[]SeenOnce` for any tour
and tabs; a tour seen to its end must also be in `localStorage`, or a reload
would forget it. Of the palette, `[]ListAnswersQuery` and `[]HighlightListed` for
any queries, answers and number of requests out: `QueryIsFollowed` says that the
query in the box is the timer's, or the latest request's, or was answered with
every request still out overtaken; `BlankStartsNothing` that under an empty box
every request is from before. Requests are answered in any order, so the lemmas
speak of a sequence from which one element is removed. Of the chat,
`[]EachAnswered` and `[]Alternating` for any number of prompts and clearings. The
first speaks of every conversation, also of one into which answers of an earlier
one come in any order: `Places` says where a prompt is spoken of, and what an
answer appends adds one place to it. Both need that nothing is said before the
configuration is there (`OpeningFirst`), since a late greeting replaces the
messages, and of no prompt that was not sent (`SaidIsSent`).

`EditSessionProofs` proves `[]DraftsOfTheDisplay` and `[]OwnSavesShown` for any
products and texts and any number of saves, failures and writes of others. The
second speaks of products that are not in `excused`, to which a product belongs,
until it is read again, when others wrote it, when a save of it failed after its
PATCH or lost its answer, or when the answer found another product selected or a
read of it under way while it was not on display. For the first the invariant
adds the types and `DraftsShown`, that an editor is open only over a product on
display; the lemma `Rendered` then shows, for whatever a render brings, that the
effects keep a draft only where its text still stands, and `ActKeeps` that the
user's acts begin drafts with the text on display. For the second,
`ReadsAreCurrent` says of every product, on display or not, that what its query
has read and takes for valid is the backend's row unless an answer is still to
come that will have it read again (`Owing`); `DisplayNotMarked`, that what is
marked and on display is fetched; and `RemovedAreGone`, that an answer to a
delete speaks of a product that is gone. The `*Current` lemmas take the steps
one by one.

Assumptions: the sentinel `None` is no member of the value sets, the bodies and
seed are well-typed, lists of tables are sequences of strings that `_dedupe`
keeps in their set, `TeamsOf` and `Lower` are functions (`SentinelsAssumption`,
`UsersAssumption`, `BodiesAssumption`, `SeedAssumption`, `KeysAssumption`,
`EditAssumption`, `NoneAssumption`), the times are natural numbers
(`TimesAssumption`), the cooldown is not 0, and the provider has published
something (`ProviderAssumption`); an answer of the palette's search has at most
`PageSize` items, and there is room for one (`PaletteAssumption`); the names of
the registry are finitely many, numbers in the order of `data_product_repo.py`,
and a page has room for one (`RegistryAssumption`). TLC evaluates all of them in
the runs.

Only model-checked is liveness (`EveryRequestAnswered`, `Converged`,
`EveryCallSettles`, `LoadingEnds`, `SelectionSettles`, `TypingEnds`), which needs
fairness and ENABLED. Every safety property of a run that passes is proved, and
the two abstract specifications are shown to be implemented.

## 5. Plan and what is not modelled

Modelled: `DataProducts` with `ProductCatalog`, `CatalogCache`, `JwksClient`, and
the frontend's `ApiClient`, `SignIn`, `Navigation`, `Registry`, `Palette`,
`AiChat`, `Onboarding`, `EditSession`. Not modelled yet, in the order of what
they would add:

1. `WriteCapture`: overlapping captures of `DataFrame.writeTo` and
   `EtlNexusMixin.run` with its exceptions.
2. `SparkSession` (threads, stop, a dead server, `table_schema_cache`),
   `Metrics` (the cap and the agreement of the counters), `Bootstrap` (several
   processes creating one database).
3. `PlanTree`: `_build_tree_from_graph` against a reference definition of the
   tree over small graphs.
4. Proofs: of `Registry`, that what is selected is a product of the catalog, or
   was, or is None.

Not to be modelled: rendering and formatting, the parsers of Spark plan
strings, deployment files, read-only queries of the metrics table, streaming
from the LLM.

## 6. Where the repository and the code disagree

Two runs expect a counterexample; each checks one property, taken from lines of
the repository that `PROJECT.json` ("findings") quotes.

| Run | Property | What the code does |
|---|---|---|
| `products_history_complete` | `HistoryIsComplete` | The revision written with a save is taken from the row the session loaded on arrival; a save committed in between is lost from the history, though `models/product_revision.py` says the table holds the value before each change. |
| `products_restore` | `RestoreRestores` | A restore to the text the session has loaded writes nothing, though another save has changed it since; it answers 200. (`docs/API_REFERENCE.md`: "Restore a pipeline field to a previous revision's content.") |

The following was met while modelling as well; each happens in the models above,
and the properties that are checked name it as an exception or are stated so as
to hold in spite of it.

Backend:

- `last_updated_by` is not written, though another user saved since, when the
  editor is the one the session loaded.
- A rename to a taken name fails at a flush outside the `try` of
  `data_product_service.py` and is a 500, not the 409 of a creation.
- `PUT .../tables` fails after its commit, reading the expired `updated_at`: the
  client sees an error for a change that is saved.
- `models/data_product.py` says any non-viewer may edit an unassigned product;
  only its creator and master admins may.
- Clearing the list on a write does not stop a read that began earlier from
  caching the list from before it (`docs/DEVELOPER_GUIDE.md` has the clear keep
  stale data from being served), and a process that did not commit the write is
  not told of it. `BoundedStaleness` says for how long. An unfiltered list asked
  for after a deletion may show the deleted product until the entry expires.
- `_ON_DEMAND_REFRESH_COOLDOWN` is called the minimum interval between on-demand
  refreshes; a refresh is recorded when it is over, so requests that arrive
  meanwhile refresh as well.

Frontend:

- Between a new token and the start of its query `AuthGuard` shows the
  application without a user; `RestingAppHasUser` speaks of pages at rest.
- A renewal that fails signs out, also when another renewal has just succeeded.
  When the OIDC library then fails to remove its user, `AuthGuard` goes on showing
  the application, at rest, without a user and without a token
  (`RestingAppHasUser` names the case).
- A question that is out when the chat is cleared is answered in the new
  conversation (`EachAnswered` lets such answers stand in it, once each).
- An answer of the palette's search that was overtaken by a later one, or that
  comes after the box was emptied, is listed all the same; Enter takes an entry
  of the list that is kept, unseen, while a new search loads.
- A product chosen in the palette, or just created, whose page is not loaded
  loses the selection to the first product of the list.
- When the PUT of a save fails after its PATCH, what the PATCH changed is saved
  and not shown until the next read.
- The edit form stays mounted, with its fields, when the selection moves to a
  product that is already loaded: "Save" then writes the first product's fields
  into the second. The documentation's draft survives a move to a product with
  equal documentation.
- The answer of a save closes, and that of a delete deselects, whatever is open
  or selected when it comes; a text's save invalidates the detail of the product
  selected by then, so the one that was saved may be shown as it was.
- A product whose query is invalidated while it is not on display loses its mark
  to a fetch that had already read it.
- A failed refetch in the background takes the editors, and their drafts, off the
  page.
- The detail of a deleted product is shown again from the cache when it is
  selected.
- "Load more" gives up a reload under way and takes its mark: a deleted product
  stays in the list until the next one.
