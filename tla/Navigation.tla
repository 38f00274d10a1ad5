----------------------------- MODULE Navigation ------------------------------
(***************************************************************************)
(* The tab on display and the page's address: navigation-store, and the    *)
(* hashchange listener of App.  The address is written by the application  *)
(* (setActiveTab, and setSelectedProductId which writes nothing but the    *)
(* address) and by the browser's history; each change of it is announced   *)
(* to the listener later.                                                  *)
(***************************************************************************)
CONSTANTS
  Tabs,      \* VALID_TABS
  Home,      \* DEFAULT_TAB: the data products
  Elsewhere  \* an address that names no tab

ASSUME TabsAssumption == Home \in Tabs /\ Elsewhere \notin Tabs

VARIABLES
  activeTab,
  address,   \* window.location.hash
  announced  \* a hashchange is queued; the handler reads the address of its
             \* own time, so that one stands for many

navVars == <<activeTab, address, announced>>

Addresses == Tabs \cup {Elsewhere}

NavTypeOK ==
  /\ activeTab \in Tabs /\ address \in Addresses /\ announced \in BOOLEAN

parseHash(h) == IF h \in Tabs THEN h ELSE Home

NavInit ==
  /\ address \in Addresses
  /\ activeTab = parseHash(address)
  /\ announced = FALSE

SetAddress(h) ==
  /\ address' = h
  /\ announced' = (announced \/ h # address)

\* A plausible bug: the address is left alone.
SetActiveTabOnly(tab) ==
  /\ activeTab' = tab
  /\ UNCHANGED <<address, announced>>

setActiveTab(tab) ==
  /\ activeTab' = tab
  /\ SetAddress(tab)

\* setSelectedProductId: the tab follows by the announcement.
ShowHome ==
  /\ SetAddress(Home)
  /\ UNCHANGED activeTab

\* The browser's back and forward, or an address typed in.
Browse ==
  /\ \E h \in Addresses \ {address} : SetAddress(h)
  /\ UNCHANGED activeTab

\* The handler sees the tab of the last render: a store's change is rendered,
\* and its effects run, before another event is taken.
HashChange ==
  /\ announced
  /\ LET tab == parseHash(address) IN
       IF tab = activeTab
       THEN announced' = FALSE /\ UNCHANGED <<activeTab, address>>
       ELSE /\ activeTab' = tab /\ address' = tab
            /\ announced' = (address # tab)

\* The tab is the one the address names, or will be looked at again.
AddressNamesTab == announced \/ activeTab = parseHash(address)
=============================================================================
