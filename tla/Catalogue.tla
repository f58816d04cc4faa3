----------------------------- MODULE Catalogue -----------------------------
(***************************************************************************)
(* The catalogue of a tenant (catalog/service.go) and its import from a    *)
(* file (catalog/import.go, csv.go).  An import is one transaction of many *)
(* statements at READ COMMITTED: it reads the names that exist, inserts    *)
(* those it misses, then the items with their opening stock.  An insertion *)
(* waits for another transaction's uncommitted row of the same name and    *)
(* fails on a committed one.                                               *)
(*                                                                         *)
(* Names are compared without regard to case: a name here is its lower     *)
(* case.  A row is known by the request that inserted it and, for an item, *)
(* by its line.                                                            *)
(***************************************************************************)
EXTENDS Integers, FiniteSets, SequencesExt

CONSTANTS
  Requests,    \* requests to the catalogue
  Files,       \* contents of files: sequences of lines
  MaxCSVRows,  \* accepted rows of a file
  ItemNames,
  GroupNames,  \* names of categories and of suppliers
  None

VARIABLES
  db,       \* committed rows of categories, suppliers and items
  work,     \* rows inserted or changed by the open transactions
  reqs,     \* requests
  patched   \* the last committed change of each field of an item

catalogueVars == <<db, work, reqs, patched>>

Tables == {"categories", "suppliers", "items"}

Nothing == [t \in Tables |-> {}]

(* A line of a file: blank, in error, or a row. *)
Line ==
  [kind : {"blank", "bad"}]
    \cup [kind : {"row"}, line : Nat, name : ItemNames,
          category : GroupNames \cup {None}, supplier : GroupNames \cup {None}, opening : Nat]

ASSUME CatalogueAssumption ==
  /\ Files \subseteq Seq(Line) /\ MaxCSVRows \in Nat
  /\ None \notin Requests \cup ItemNames \cup GroupNames
  /\ ItemNames # {} /\ GroupNames # {}

Row(name, category, supplier, opening) ==
  [ kind |-> "row", line |-> 1, name |-> name, category |-> category,
    supplier |-> supplier, opening |-> opening ]

(* Lines in turn: blank ones are skipped, one too many ends the reading,     *)
(* a name is refused when an accepted row has it.  A row keeps its line.     *)
ParseLine(parsed, line, at) ==
  CASE parsed.full \/ line.kind = "blank" -> parsed
    [] OTHER ->
       CASE Len(parsed.rows) >= MaxCSVRows ->
              [parsed EXCEPT !.errors = @ + 1, !.full = TRUE]
         [] line.kind = "bad" \/ \E row \in Range(parsed.rows) : row.name = line.name ->
              [parsed EXCEPT !.errors = @ + 1]
         [] OTHER -> [parsed EXCEPT !.rows = Append(@, [line EXCEPT !.line = at])]

ParseCSV(file) ==
  LET parse[n \in 0 .. Len(file)] ==
        IF n = 0 THEN [rows |-> << >>, errors |-> 0, full |-> FALSE]
        ELSE ParseLine(parse[n - 1], file[n], n)
  IN  parse[Len(file)]

(* A catalogue that has been worked with. *)
Stocked ==
  [ t \in Tables |->
      CASE t = "items" -> {[ id |-> <<None, 1>>, name |-> CHOOSE n \in ItemNames : TRUE,
                             by |-> None, category |-> None, supplier |-> None,
                             onHand |-> 0, archived |-> FALSE ]}
        [] t = "categories" -> {[name |-> CHOOSE n \in GroupNames : TRUE, by |-> None]}
        [] OTHER -> {} ]

Idle == [op |-> "none", step |-> "idle", rows |-> << >>, at |-> 1,
         known |-> Nothing, change |-> None, item |-> None, reply |-> "none", report |-> 0]

CatalogueInit ==
  /\ db \in {Nothing, Stocked}
  /\ work = [r \in Requests |-> Nothing]
  /\ reqs = [r \in Requests |-> Idle]
  /\ patched = << >>

At(r, step) == reqs[r].step = step

Named(rows, name) == {row \in rows : row.name = name}

(* The unique index on (tenant, lower name): a committed row refuses, another *)
(* transaction's uncommitted one is waited for.                               *)
Taken(r, table, name) == Named(db[table] \cup work[r][table], name) # {}

Pending(r, table, name) ==
  {o \in Requests \ {r} : Named(work[o][table], name) # {}}

(* A transaction that updates a row waits for the one that has. *)
RowPending(r, item) ==
  {o \in Requests \ {r} : \E row \in work[o].items : row.id = item}

Goto(r, step) == reqs' = [reqs EXCEPT ![r].step = step]

Answer(r, reply) == reqs' = [reqs EXCEPT ![r].step = "done", ![r].reply = reply]

Rollback(r, reply) ==
  /\ Answer(r, reply)
  /\ work' = [work EXCEPT ![r] = Nothing]
  /\ UNCHANGED <<db, patched>>

Insert(r, table, row) == work' = [work EXCEPT ![r][table] = @ \cup {row}]

-----------------------------------------------------------------------------
(* Import *)

(* Errors or a preview write nothing. *)
StartImport(r) ==
  /\ At(r, "idle")
  /\ \E file \in Files, dryRun \in BOOLEAN :
       LET parsed == ParseCSV(file)
           preview == dryRun \/ parsed.errors > 0
       IN  /\ parsed.errors > 0 \/ parsed.rows # << >>
           /\ reqs' = [reqs EXCEPT ![r] =
                [Idle EXCEPT !.op = "import", !.rows = parsed.rows,
                   !.step = IF preview THEN "done" ELSE "categories",
                   !.reply = IF preview THEN "preview" ELSE "none"]]
  /\ UNCHANGED <<db, work, patched>>

(* The step that makes what a table misses. *)
New(table) == IF table = "categories" THEN "new categories" ELSE "new suppliers"

(* The group a row asks for in a table. *)
Asked(row, table) == IF table = "categories" THEN row.category ELSE row.supplier

(* Rows that ask for a group neither read in the table nor made since. *)
Missing(r, table) ==
  {n \in DOMAIN reqs[r].rows :
     LET name == Asked(reqs[r].rows[n], table)
     IN  name # None /\ Named(reqs[r].known[table], name) = {}}

(* The group made next, in the order of the rows. *)
NextMissing(r, table) == Asked(reqs[r].rows[Min(Missing(r, table))], table)

(* A plausible mistake: rows of transactions in progress are seen. *)
ReadUncommitted(r, table) ==
  /\ At(r, table)
  /\ reqs' = [reqs EXCEPT
       ![r].known[table] = UNION ({db[table]} \cup {work[o][table] : o \in Requests}),
       ![r].step = New(table)]
  /\ UNCHANGED <<db, work, patched>>

(* One read of the whole table; later ones are not seen. *)
ReadNames(r, table) ==
  /\ At(r, table)
  /\ reqs' = [reqs EXCEPT ![r].known[table] = db[table], ![r].step = New(table)]
  /\ UNCHANGED <<db, work, patched>>

CreateMissing(r, table) ==
  /\ At(r, New(table)) /\ reqs[r].op = "import"
  /\ IF Missing(r, table) = {}
     THEN /\ Goto(r, IF table = "categories" THEN "suppliers" ELSE "items")
          /\ UNCHANGED work
     ELSE LET row == [name |-> NextMissing(r, table), by |-> r]
          IN  /\ Pending(r, table, row.name) = {} /\ ~Taken(r, table, row.name)
              /\ Insert(r, table, row)
              /\ reqs' = [reqs EXCEPT ![r].known[table] = @ \cup {row},
                                      ![r].report = @ + 1]
  /\ UNCHANGED <<db, patched>>

(* The row of a name in a table read before; none for an empty cell. *)
Resolved(known, name) ==
  IF name = None THEN None ELSE CHOOSE row \in known : row.name = name

(* An item with its terms of purchase, its balance row and its opening stock. *)
ItemOf(r, row) ==
  [ id |-> <<r, row.line>>, name |-> row.name, by |-> r,
    category |-> Resolved(reqs[r].known.categories, row.category),
    supplier |-> Resolved(reqs[r].known.suppliers, row.supplier),
    onHand |-> row.opening, archived |-> FALSE ]

ImportItem(r) ==
  /\ At(r, "items")
  /\ LET row == reqs[r].rows[reqs[r].at]
     IN  /\ Pending(r, "items", row.name) = {} /\ ~Taken(r, "items", row.name)
         /\ Insert(r, "items", ItemOf(r, row))
  /\ reqs' = [reqs EXCEPT ![r].at = @ + 1,
                          ![r].step = IF reqs[r].at = Len(reqs[r].rows) THEN "commit" ELSE @]
  /\ UNCHANGED <<db, patched>>

-----------------------------------------------------------------------------
(* Requests of one statement *)

(* A category, a supplier or an item, as a file of one row would make it. *)
StartCreate(r) ==
  /\ At(r, "idle")
  /\ \/ \E table \in {"categories", "suppliers"}, name \in GroupNames :
          reqs' = [reqs EXCEPT ![r] =
            [Idle EXCEPT !.op = "create", !.step = New(table),
                         !.rows = <<IF table = "categories" THEN Row(None, name, None, 0)
                                    ELSE Row(None, None, name, 0)>>]]
     \/ \E name \in ItemNames :
          reqs' = [reqs EXCEPT ![r] =
            [Idle EXCEPT !.op = "create", !.step = "items",
                         !.rows = <<Row(name, None, None, 0)>>]]
  /\ UNCHANGED <<db, work, patched>>

CreateGroup(r, table) ==
  /\ At(r, New(table)) /\ reqs[r].op = "create"
  /\ LET row == [name |-> NextMissing(r, table), by |-> r]
     IN  /\ Pending(r, table, row.name) = {} /\ ~Taken(r, table, row.name)
         /\ Insert(r, table, row)
  /\ Goto(r, "commit")
  /\ UNCHANGED <<db, patched>>

(* PATCH names the fields it changes; archiving is a change of one field. *)
StartUpdate(r) ==
  /\ At(r, "idle")
  /\ \E row \in db.items :
       \E change \in [field : {"name"}, value : ItemNames]
                       \cup [field : {"category"}, value : db.categories]
                       \cup [field : {"supplier"}, value : db.suppliers]
                       \cup [field : {"archived"}, value : {TRUE}] :
         reqs' = [reqs EXCEPT ![r] =
           [Idle EXCEPT !.op = "update", !.step = "update", !.item = row,
                        !.change = change]]
  /\ UNCHANGED <<db, work, patched>>

ChangedRow(row, change) == [row EXCEPT ![change.field] = change.value]

(* A plausible mistake: the row is written as it was read. *)
WrittenRow(r) == ChangedRow(reqs[r].item, reqs[r].change)

(* The update statement sees the row as it is once it has its lock. *)
UpdatedRow(r) ==
  ChangedRow(CHOOSE row \in db.items : row.id = reqs[r].item.id, reqs[r].change)

UpdateItem(r) ==
  /\ At(r, "update")
  /\ RowPending(r, reqs[r].item.id) = {}
  /\ LET row == UpdatedRow(r)
     IN  /\ Pending(r, "items", row.name) = {}
         /\ Named({o \in db.items : o.id # row.id}, row.name) = {}
         /\ Insert(r, "items", row)
  /\ Goto(r, "commit")
  /\ UNCHANGED <<db, patched>>

-----------------------------------------------------------------------------
(* Ends *)

Committed(r, table) ==
  {row \in db[table] : table # "items" \/ \A own \in work[r].items : own.id # row.id}
    \cup work[r][table]

Commit(r) ==
  /\ At(r, "commit")
  /\ db' = [t \in Tables |-> Committed(r, t)]
  /\ patched' = IF reqs[r].op = "update"
                THEN LET field == <<reqs[r].item.id, reqs[r].change.field>>
                     IN  [f \in DOMAIN patched \cup {field} |->
                            IF f = field THEN reqs[r].change.value ELSE patched[f]]
                ELSE patched
  /\ work' = [work EXCEPT ![r] = Nothing]
  /\ Answer(r, "done")

(* What the statement about to run inserts: its table and its name. *)
Inserts(r) ==
  CASE At(r, "new categories") /\ Missing(r, "categories") # {} ->
         {<<"categories", NextMissing(r, "categories")>>}
    [] At(r, "new suppliers") /\ Missing(r, "suppliers") # {} ->
         {<<"suppliers", NextMissing(r, "suppliers")>>}
    [] At(r, "items") -> {<<"items", reqs[r].rows[reqs[r].at].name>>}
    [] At(r, "update") -> {<<"items", UpdatedRow(r).name>>}
    [] OTHER -> {}

(* A committed row of another has the name the statement would write. *)
NameTaken(r) ==
  \E ins \in Inserts(r) :
    \E row \in Named(db[ins[1]] \cup work[r][ins[1]], ins[2]) :
      ~(At(r, "update") /\ row.id = reqs[r].item.id)

(* A plausible mistake: the statement is tried again until the name is free. *)
TryAgain(r) == NameTaken(r) /\ UNCHANGED catalogueVars

(* A conflict for items and for requests of one statement, an error of the   *)
(* server for a category or supplier of a file.                              *)
Conflict(r) ==
  /\ NameTaken(r)
  /\ Rollback(r, IF At(r, "items") \/ reqs[r].op # "import" THEN "taken" ELSE "error")

(* Whom a transaction waits for. *)
WaitsFor(r) ==
  UNION {Pending(r, ins[1], ins[2]) : ins \in Inserts(r)}
    \cup IF At(r, "update") THEN RowPending(r, reqs[r].item.id) ELSE {}

(* The database ends one transaction of a cycle. *)
Deadlock(r) ==
  /\ \E o \in WaitsFor(r) : r \in WaitsFor(o)
  /\ Rollback(r, "error")

(* The client goes, or the server stops, before the commit. *)
Abandon(r) ==
  /\ reqs[r].step \notin {"idle", "done"}
  /\ Rollback(r, "error")

RequestStep(r) ==
  \/ ReadNames(r, "categories") \/ ReadNames(r, "suppliers")
  \/ CreateMissing(r, "categories") \/ CreateMissing(r, "suppliers") \/ ImportItem(r)
  \/ CreateGroup(r, "categories") \/ CreateGroup(r, "suppliers")
  \/ UpdateItem(r) \/ Commit(r) \/ Conflict(r) \/ Deadlock(r)

CatalogueNext ==
  \E r \in Requests :
    \/ StartImport(r) \/ StartCreate(r) \/ StartUpdate(r)
    \/ RequestStep(r) \/ Abandon(r)

CatalogueFairness == \A r \in Requests : WF_catalogueVars(RequestStep(r))

CatalogueSpec == CatalogueInit /\ [][CatalogueNext]_catalogueVars

-----------------------------------------------------------------------------

(* An import is all or nothing (catalog/import.go, Import): when it has been *)
(* answered as done every row is an item with the category and supplier it    *)
(* names, whose rows exist, and it reports the directories it has made; else  *)
(* nothing of it is there.                                                    *)
ImportsAreWhole ==
  \A r \in Requests : reqs[r].op = "import" =>
    LET made(t) == {row \in db[t] : row.by = r}
    IN  IF reqs[r].reply = "done"
        THEN /\ {row.id[2] : row \in made("items")} = {row.line : row \in Range(reqs[r].rows)}
             /\ \A row \in made("items") :
                  /\ row.category \in db.categories \cup {None}
                  /\ row.supplier \in db.suppliers \cup {None}
             /\ Cardinality(made("categories")) + Cardinality(made("suppliers"))
                  = reqs[r].report
        ELSE \A t \in Tables : made(t) = {}

(* A change of one field keeps the others as they were last changed, by       *)
(* whatever request, at the same time or before (catalog/service.go,          *)
(* UpdateItem).                                                               *)
PatchesSurvive ==
  \A f \in DOMAIN patched :
    \E row \in db.items : row.id = f[1] /\ row[f[2]] = patched[f]

(* A request to the catalogue is answered, whatever names it waits for. *)
CatalogueRequestsEnd ==
  \A r \in Requests : ~At(r, "idle") ~> At(r, "done")

=============================================================================
