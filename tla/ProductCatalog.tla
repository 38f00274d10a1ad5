--------------------------- MODULE ProductCatalog ---------------------------
(***************************************************************************)
(* What the data-product endpoints promise, whatever their statements do   *)
(* between each other: a request takes effect at one moment, as a whole,   *)
(* or never.  At that moment its user may edit the product, the name it    *)
(* gives is free, and the history grows by what the edit replaces.         *)
(*                                                                         *)
(* The promise is weaker than "read and written at once": an edit is made  *)
(* of what the request asks for and of the row as the request read it, at  *)
(* some moment before.  A column that already had the wanted value then is *)
(* not written, and the history records the text as it was then.           *)
(***************************************************************************)
EXTENDS ProductData

CONSTANTS SeedProducts, SeedRevisions

VARIABLES
    products,   \* products[p]: the row of p, or None
    revisions,  \* the history
    born,       \* ids that products have, or had
    call,       \* call[r]: what r asks for
    loaded,     \* loaded[r]: the row r has read, or None
    fate        \* fate[r]: "new", "open", "applied" or "refused"

vars == <<products, revisions, born, call, loaded, fate>>

Init ==
    /\ products  = SeedProducts
    /\ revisions = SeedRevisions
    /\ born      = {p \in Products : SeedProducts[p] # None}
    /\ call      = [r \in Requests |-> Idle]
    /\ loaded    = [r \in Requests |-> None]
    /\ fate      = [r \in Requests |-> "new"]

Becomes(r, f) == fate' = [fate EXCEPT ![r] = f]

\* A request comes in, may read the product at once, and may be refused.
Ask(r) ==
    /\ fate[r] = "new"
    /\ call' = [call EXCEPT ![r] = call'[r]]
    /\ CallShape(r, call'[r]) /\ call'[r] # Idle
    /\ \/ UNCHANGED loaded
       \/ loaded' = [loaded EXCEPT ![r] = products[call'[r].product]]
    /\ Becomes(r, "open") \/ Becomes(r, "refused")
    /\ UNCHANGED <<products, revisions, born>>

\* It reads the product, once.
Read(r) ==
    /\ fate[r] = "open" /\ loaded[r] = None
    /\ loaded' = [loaded EXCEPT ![r] = products[call[r].product]]
    /\ UNCHANGED <<products, revisions, born, call, fate>>

\* It fails, and leaves nothing behind.
Refuse(r) ==
    /\ fate[r] \in {"new", "open"}
    /\ Becomes(r, "refused")
    /\ UNCHANGED <<products, revisions, born, call, loaded>>

NameFree(name, p) ==
    \A q \in Products \ {p} : products[q] # None => products[q]["name"] # name

Permitted(r) ==
    products[call[r].product] # None =>
        MayEdit(call[r].user, products[call[r].product])

\* The id is new, and the product its creator's.
Create(r) ==
    LET c == call[r]
    IN  /\ fate[r] = "open" /\ c.op = "create"
        /\ c.product \notin born
        /\ NameFree(c.wanted["name"], c.product)
        /\ products' = [products EXCEPT ![c.product] = c.wanted]
        /\ born' = born \cup {c.product}
        /\ Becomes(r, "applied")
        /\ UNCHANGED <<revisions, call, loaded>>

\* The columns r sets, and the texts it records.
Set(r) == {d \in DOMAIN call[r].wanted : call[r].wanted[d] # loaded[r][d]}

Recorded(r) == IF call[r].op = "restore" THEN {call[r].revision.field}
               ELSE TextFields \cap Set(r)

Record(r, f) ==
    [request |-> r, product |-> call[r].product, field |-> f, content |-> loaded[r][f],
     changed_by |-> call[r].user,
     change_source |-> IF call[r].op = "restore" THEN "restore" ELSE "user"]

\* A restore is of a revision that the product's history still has.
Edit(r) ==
    LET c == call[r]
        p == c.product
    IN  /\ fate[r] = "open" /\ c.op \in {"update", "set_tables", "restore"}
        /\ loaded[r] # None
        /\ Permitted(r)
        /\ Set(r) # {} \/ Recorded(r) # {} => products[p] # None
        /\ "name" \in Set(r) => NameFree(c.wanted["name"], p)
        /\ c.op = "restore" => c.revision \in revisions /\ c.revision.product = p
        /\ products' = IF Set(r) = {} THEN products
                       ELSE [products EXCEPT ![p] =
                               [d \in Columns |-> IF d \in Set(r) THEN c.wanted[d] ELSE @[d]]]
        /\ revisions' = revisions \cup {Record(r, f) : f \in Recorded(r)}
        /\ Becomes(r, "applied")
        /\ UNCHANGED <<born, call, loaded>>

\* The product goes with its history.
Delete(r) ==
    LET p == call[r].product
    IN  /\ fate[r] = "open" /\ call[r].op = "delete"
        /\ products[p] # None /\ Permitted(r)
        /\ products' = [products EXCEPT ![p] = None]
        /\ revisions' = {v \in revisions : v.product # p}
        /\ Becomes(r, "applied")
        /\ UNCHANGED <<born, call, loaded>>

Next == \E r \in Requests :
            Ask(r) \/ Read(r) \/ Refuse(r) \/ Create(r) \/ Edit(r) \/ Delete(r)

Spec == Init /\ [][Next]_vars

=============================================================================
