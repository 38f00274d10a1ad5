---------------------------- MODULE ProductData ----------------------------
(***************************************************************************)
(* The vocabulary of the catalog: the rows of the two tables (models/),    *)
(* the calls that write them, and who may edit a row (auth.py).            *)
(***************************************************************************)
CONSTANTS
    Requests,      \* HTTP requests, each served once
    Users,         \* user names
    Masters,       \* those listed in MASTER_ADMIN_USERNAMES
    Teams,         \* team names, in every casing that occurs
    TeamsOf,       \* TeamsOf[u]: the teams of u's token
    Lower,         \* Lower[t]: t in lower case
    Products,      \* product ids (uuid4)
    Names,         \* product names
    Texts,         \* values of description and documentation
    Schedules,     \* values of schedule_type
    TableLists,    \* lists of full table names
    Seeded,        \* the author of seeded rows and revisions
    None           \* Python's None, a missing row

TextFields  == {"description", "documentation"}
EditColumns == TextFields \cup {"name", "schedule_type"}
BodyColumns == EditColumns \cup {"tables"}
Columns     == BodyColumns \cup {"team", "created_by",
                                 "last_updated_by", "last_updated_at"}

\* A time stamp is known by the request that took it: no two are equal.
Stamps == Requests \cup {Seeded}

ValuesOf(c) ==
    CASE c = "name"            -> Names
      [] c = "description"     -> Texts \cup {None}
      [] c = "documentation"   -> Texts \cup {None}
      [] c = "schedule_type"   -> Schedules \cup {None}
      [] c = "tables"          -> TableLists
      [] c = "team"            -> Teams \cup {None}
      [] c = "created_by"      -> Users
      [] c = "last_updated_by" -> Users
      [] c = "last_updated_at" -> Stamps

\* w gives well-typed values to some of the columns cs.
IsChange(w, cs) ==
    /\ w = [c \in DOMAIN w |-> w[c]]
    /\ DOMAIN w \subseteq cs
    /\ \A c \in DOMAIN w : w[c] \in ValuesOf(c)

IsRow(row) == IsChange(row, Columns) /\ DOMAIN row = Columns

Revision == [request : Stamps, product : Products, field : TextFields,
             content : Texts \cup {None}, changed_by : Users,
             change_source : {"user", "restore"}]

-----------------------------------------------------------------------------
(* Who may edit                                                            *)

SameTeam(t, ts) == Lower[t] \in {Lower[x] : x \in ts}

\* require_team_membership on the row it loads.
MayEdit(u, row) ==
    \/ u \in Masters
    \/ row["team"] = None /\ row["created_by"] = u
    \/ row["team"] # None /\ SameTeam(row["team"], TeamsOf[u])

-----------------------------------------------------------------------------
(* Calls                                                                   *)

Idle == [op |-> "none", user |-> None, product |-> None,
         wanted |-> [c \in {} |-> None], revision |-> None]

\* What the op of r's call says of its arguments.
CallShape(r, c) ==
    \/ c = Idle
    \/ /\ c.user \in Users /\ c.product \in Products
       /\ \/ /\ c.op = "create"
             /\ IsRow(c.wanted) /\ c.wanted["last_updated_at"] = r
             /\ c.wanted["created_by"] = c.user /\ MayEdit(c.user, c.wanted)
             /\ c.wanted["last_updated_by"] = c.user
          \/ /\ c.op \in {"update", "restore"}
             /\ IsChange(c.wanted, EditColumns \cup {"last_updated_by", "last_updated_at"})
             /\ {"last_updated_by", "last_updated_at"} \subseteq DOMAIN c.wanted
             /\ c.wanted["last_updated_by"] = c.user /\ c.wanted["last_updated_at"] = r
             /\ c.op = "restore" =>
                   /\ c.revision \in Revision
                   /\ DOMAIN c.wanted = {c.revision.field, "last_updated_by", "last_updated_at"}
                   /\ c.wanted[c.revision.field] = c.revision.content
          \/ /\ c.op = "set_tables"
             /\ IsChange(c.wanted, {"tables", "last_updated_by"})
             /\ "last_updated_by" \in DOMAIN c.wanted
             /\ c.wanted["last_updated_by"] = c.user
          \/ /\ c.op = "delete"
             /\ DOMAIN c.wanted = {}

=============================================================================
