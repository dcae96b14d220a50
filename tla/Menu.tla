------------------------------- MODULE Menu -------------------------------
(***************************************************************************)
(* The writers of the menu: the four commands of MenuAgent, the CSV import *)
(* and the batch that gives products their skus.  Each is one transaction  *)
(* under READ COMMITTED, run statement by statement while others do the    *)
(* same: a SELECT sees what is committed and the transaction's own rows,   *)
(* FOR UPDATE and UPDATE wait for row locks, a foreign key takes a shared  *)
(* lock on its category, and products.sku has a unique index.              *)
(*                                                                         *)
(* Names are told apart up to letter case.  Prices are only known to be    *)
(* there or not, and the columns nothing looks up (description, image,     *)
(* sort, period, scope) are left out, as are external category ids.        *)
(***************************************************************************)
EXTENDS Naturals, Sequences, FiniteSets

CONSTANTS
    Writers,     \* transactions running at once (bound)
    Cats,        \* category ids (bound)
    Prods,       \* product ids (bound)
    CatNames,
    ProdNames,   \* product names, numbered in alphabetical order
    Norm,        \* Norm[n]: the name without its white space
    SkuCodes,
    Legacy,      \* Legacy[n]: the sku of the inventory row named n, or Null
    Slugs,       \* Slugs[p][n]: the skus tried in turn for product p named n
    Commands,    \* the commands and files the admins send (bound)
    MaxSent,     \* how many of them (bound)
    MenuStart,   \* [cat, prod]: the tables to start from
    Null         \* SQL's NULL; no id, name or value

VARIABLES
    cat,      \* the committed rows of categories
    prod,     \* the committed rows of products
    mtx,      \* the transactions in progress
    sent      \* how many commands and files were sent

menuVars == <<cat, prod, mtx, sent>>

Category == [name : CatNames, parent : Cats \cup {Null}]

Product == [name : ProdNames, cat : Cats \cup {Null}, priced : BOOLEAN, active : BOOLEAN,
            sku : SkuCodes \cup {Null}]

(* A line of a CSV file; a name or a price may be missing or unreadable.   *)
Line == [name : ProdNames \cup {Null}, cat : CatNames \cup {Null},
         price : {"given", "blank", "invalid"}]

Kind == {"create_product", "create_category", "update_product", "update_category",
         "import", "skus"}

(* What a command or a file is: Null is a field that is not given, cat the *)
(* name of the category or of the parent category.  A command without a    *)
(* field its kind requires is refused before its first SELECT.             *)
Command ==
    {cmd \in [kind : Kind,
              id : Prods \cup Cats \cup {Null}, name : ProdNames \cup CatNames \cup {Null},
              cat : CatNames \cup {Null}, priced : {TRUE, Null}, active : BOOLEAN \cup {Null},
              sku : SkuCodes \cup {Null}, lines : Seq(Line)] :
        /\ cmd.kind = "create_product" => cmd.name \in ProdNames /\ cmd.cat # Null
        /\ cmd.kind = "create_category" => cmd.name \in CatNames
        /\ cmd.kind = "update_product" => cmd.id \in Prods /\ cmd.name \in ProdNames \cup {Null}
        /\ cmd.kind = "update_category" => cmd.id \in Cats /\ cmd.name \in CatNames \cup {Null}}

NoCommand == [kind |-> "skus", id |-> Null, name |-> Null, cat |-> Null, priced |-> Null,
              active |-> Null, sku |-> Null, lines |-> <<>>]

(* Rows of the two tables are told apart; the unique index on products.sku *)
(* holds of the rows to start from.                                        *)
ASSUME MenuAssumption ==
    /\ IsFiniteSet(Writers)
    /\ IsFiniteSet(Cats) /\ IsFiniteSet(Prods) /\ Cats \cap Prods = {}
    /\ Null \notin Cats \cup Prods \cup CatNames \cup ProdNames \cup SkuCodes \cup Category \cup Product
    /\ ProdNames \subseteq Nat
    /\ Norm \in [ProdNames -> ProdNames]
    /\ Legacy \in [ProdNames -> SkuCodes \cup {Null}]
    /\ Slugs \in [Prods -> [ProdNames -> Seq(SkuCodes)]]
    /\ Commands \subseteq Command
    /\ MaxSent \in Nat
    /\ MenuStart \in [cat : [Cats -> Category \cup {Null}], prod : [Prods -> Product \cup {Null}]]
    /\ \A j, k \in Prods :
          (j # k /\ MenuStart.prod[j] # Null /\ MenuStart.prod[k] # Null) =>
              MenuStart.prod[j].sku = Null \/ MenuStart.prod[j].sku # MenuStart.prod[k].sku

(* todo: the statements left; rows: what a file's lines resolved to; found *)
(* the rows the last SELECT returned; owned, shared: the rows locked FOR   *)
(* UPDATE and FOR KEY SHARE; c, p: the rows written as they will be        *)
(* committed; link: the category the command resolved; taken: the skus the *)
(* batch knows of.                                                         *)
NoTx == [todo |-> <<>>, cmd |-> NoCommand, rows |-> <<>>, found |-> {}, owned |-> {},
         shared |-> {}, link |-> Null, taken |-> {},
         c |-> [k \in Cats |-> Null], p |-> [k \in Prods |-> Null]]

MenuInit ==
    /\ cat = MenuStart.cat
    /\ prod = MenuStart.prod
    /\ mtx = [w \in Writers |-> NoTx]
    /\ sent = 0

---------------------------------------------------------------------------
(* The tables as a statement of w sees them.                               *)
SeesCat(w, k) == IF mtx[w].c[k] # Null THEN mtx[w].c[k] ELSE cat[k]

SeesProd(w, k) == IF mtx[w].p[k] # Null THEN mtx[w].p[k] ELSE prod[k]

CatsNamed(w, n) == {k \in Cats : SeesCat(w, k) # Null /\ SeesCat(w, k).name = n}

ProdsNamed(w, n) == {k \in Prods : SeesProd(w, k) # Null /\ SeesProd(w, k).name = n}

SkuOf(v) == IF v = Null THEN Null ELSE v.sku

(* Rows of either table that other transactions have locked.               *)
OwnedByOthers(w) == UNION {mtx[v].owned : v \in Writers \ {w}}

SharedByOthers(w) == UNION {mtx[v].shared : v \in Writers \ {w}}

(* Slip: the field is written whether it was given or not.                 *)
WriteAnyway(value, column) == value

(* COALESCE(:value, column).                                               *)
Coalesce(value, column) == IF value = Null THEN column ELSE value

Current(w) == IF mtx[w].todo = <<>> THEN "idle" ELSE Head(mtx[w].todo)

(* The current statement is done; t is the transaction after it.           *)
Proceed(w, t) ==
    /\ mtx' = [mtx EXCEPT ![w] = [t EXCEPT !.todo = Tail(@)]]
    /\ UNCHANGED <<cat, prod, sent>>

(* Slip: the session is left open, with its locks.                         *)
ForgetSession(w) ==
    /\ mtx' = [mtx EXCEPT ![w].todo = <<>>]
    /\ UNCHANGED <<cat, prod, sent>>

(* Rejected, raised or aborted: the session is rolled back.                *)
RollBack(w) ==
    /\ mtx' = [mtx EXCEPT ![w] = NoTx]
    /\ UNCHANGED <<cat, prod, sent>>

Begin(w, cmd, todo) ==
    /\ Current(w) = "idle"
    /\ mtx' = [mtx EXCEPT ![w] = [NoTx EXCEPT !.cmd = cmd, !.todo = todo]]
    /\ sent < MaxSent /\ sent' = sent + 1
    /\ UNCHANGED <<cat, prod>>

(* Statements a command needs only when a field is given.                  *)
If(field, statements) == IF field = Null THEN <<>> ELSE statements

---------------------------------------------------------------------------
(* MenuAgent.apply_menu: POST /menu/products/apply.                        *)
ApplyMenu(w, cmd) ==
    /\ cmd.kind = "create_product"
    /\ Begin(w, cmd, <<"validate", "find", "lock", "name", "insert", "commit">>)

(* MenuAgent.apply_category: POST /menu/categories/apply.                  *)
ApplyCategory(w, cmd) ==
    /\ cmd.kind = "create_category"
    /\ Begin(w, cmd, <<"validate">> \o If(cmd.cat, <<"find", "lock">>)
                     \o <<"name", "insert", "commit">>)

(* MenuAgent.update_product: PATCH /menu/products/{product_id}/apply.      *)
UpdateProduct(w, cmd) ==
    /\ cmd.kind = "update_product"
    /\ Begin(w, cmd, <<"validate", "row">> \o If(cmd.cat, <<"find", "lock">>)
                     \o If(cmd.sku, <<"sku">>) \o <<"update", "commit">>)

(* MenuAgent.update_category: PATCH /menu/categories/{category_id}/apply.  *)
UpdateCategory(w, cmd) ==
    /\ cmd.kind = "update_category"
    /\ Begin(w, cmd, <<"validate", "row">> \o If(cmd.name, <<"name">>)
                     \o If(cmd.cat, <<"find", "lock">>) \o <<"update", "commit">>)

(* MenuImportService.import_csv.                                           *)
ImportCsv(w, cmd) ==
    /\ cmd.kind = "import"
    /\ Begin(w, cmd, <<"resolve", "dedupe", "lines", "commit">>)

(* MenuImportService.generate_missing_skus.                                *)
GenerateMissingSkus(w, cmd) ==
    /\ cmd.kind = "skus"
    /\ Begin(w, cmd, <<"taken", "targets", "assign", "commit">>)

---------------------------------------------------------------------------
(* The early rejections.                                                   *)
ValidApplyCommand(w, cmd) ==
    /\ Cardinality(CatsNamed(w, cmd.cat)) = 1
    /\ ProdsNamed(w, cmd.name) = {}

ValidApplyCategoryCommand(w, cmd) ==
    /\ CatsNamed(w, cmd.name) = {}
    /\ cmd.cat # Null => Cardinality(CatsNamed(w, cmd.cat)) = 1

ValidUpdateProductCommand(w, cmd) ==
    /\ SeesProd(w, cmd.id) # Null
    /\ cmd.cat # Null => Cardinality(CatsNamed(w, cmd.cat)) = 1

ValidUpdateCategoryCommand(w, cmd) ==
    /\ SeesCat(w, cmd.id) # Null
    /\ cmd.name # Null => CatsNamed(w, cmd.name) \subseteq {cmd.id}
    /\ cmd.cat # Null => /\ Cardinality(CatsNamed(w, cmd.cat)) = 1
                         /\ CatsNamed(w, cmd.cat) # {cmd.id}

Validate(w) ==
    /\ Current(w) = "validate"
    /\ LET cmd == mtx[w].cmd
           ok == CASE cmd.kind = "create_product" -> ValidApplyCommand(w, cmd)
                   [] cmd.kind = "create_category" -> ValidApplyCategoryCommand(w, cmd)
                   [] cmd.kind = "update_product" -> ValidUpdateProductCommand(w, cmd)
                   [] cmd.kind = "update_category" -> ValidUpdateCategoryCommand(w, cmd)
       IN IF ok THEN Proceed(w, mtx[w]) ELSE RollBack(w)

(* SELECT id ... WHERE id = :id FOR UPDATE on the row to change.           *)
LockTarget(w) ==
    /\ Current(w) = "row"
    /\ mtx[w].cmd.id \notin OwnedByOthers(w) \cup SharedByOthers(w)
    /\ Proceed(w, [mtx[w] EXCEPT !.owned = @ \cup {mtx[w].cmd.id}])

(* SELECT id FROM categories WHERE lower(name) = lower(:name) FOR UPDATE:  *)
(* first the rows the statement's snapshot shows...                        *)
FindCategory(w) ==
    /\ Current(w) = "find"
    /\ Proceed(w, [mtx[w] EXCEPT !.found = CatsNamed(w, mtx[w].cmd.cat)])

(* Slip: the category is read without FOR UPDATE.                          *)
TakeFound(w) ==
    /\ Current(w) = "lock"
    /\ IF Cardinality(mtx[w].found) = 1 /\ mtx[w].found # {mtx[w].cmd.id}
       THEN \E k \in mtx[w].found : Proceed(w, [mtx[w] EXCEPT !.found = {}, !.link = k])
       ELSE RollBack(w)

(* ... then, once they can be locked, those that still have the name.      *)
(* Exactly one is needed, and not the category itself.                     *)
LockCategory(w) ==
    /\ Current(w) = "lock"
    /\ mtx[w].found \cap (OwnedByOthers(w) \cup SharedByOthers(w)) = {}
    /\ LET t == mtx[w]
           still == t.found \cap CatsNamed(w, t.cmd.cat)
       IN IF Cardinality(still) = 1 /\ still # {t.cmd.id}
          THEN \E k \in still :
                  Proceed(w, [t EXCEPT !.found = {}, !.link = k, !.owned = @ \cup {k}])
          ELSE RollBack(w)

(* The SELECT for another row of the new name.                             *)
CheckName(w) ==
    /\ Current(w) = "name"
    /\ LET cmd == mtx[w].cmd
           others == IF cmd.kind = "create_product" THEN ProdsNamed(w, cmd.name)
                     ELSE CatsNamed(w, cmd.name) \ {cmd.id}
       IN IF others = {} THEN Proceed(w, mtx[w]) ELSE RollBack(w)

(* SELECT id FROM products WHERE sku = :sku AND id != :id FOR UPDATE.      *)
CheckSku(w) ==
    /\ Current(w) = "sku"
    /\ LET t == mtx[w]
           others == {k \in Prods \ {t.cmd.id} : SkuOf(prod[k]) = t.cmd.sku}
       IN /\ others \cap OwnedByOthers(w) = {}
          /\ IF others = {} THEN Proceed(w, t) ELSE RollBack(w)

(* Ids no row and no transaction has.                                      *)
FreeProducts == {k \in Prods : prod[k] = Null /\ \A v \in Writers : mtx[v].p[k] = Null}

FreeCategories == {k \in Cats : cat[k] = Null /\ \A v \in Writers : mtx[v].c[k] = Null}

(* The INSERT of apply_menu_command.                                       *)
InsertProduct(w) ==
    /\ Current(w) = "insert" /\ mtx[w].cmd.kind = "create_product"
    /\ \E k \in FreeProducts :
          Proceed(w, [mtx[w] EXCEPT !.p[k] =
             [name |-> mtx[w].cmd.name, cat |-> mtx[w].link, priced |-> TRUE, active |-> TRUE,
              sku |-> Null]])

(* The INSERT of apply_category_command.                                   *)
InsertCategory(w) ==
    /\ Current(w) = "insert" /\ mtx[w].cmd.kind = "create_category"
    /\ \E k \in FreeCategories :
          Proceed(w, [mtx[w] EXCEPT !.c[k] = [name |-> mtx[w].cmd.name, parent |-> mtx[w].link]])

(* Transactions that are giving a product the sku, or taking it away: a    *)
(* write of the sku waits for them.                                        *)
SkuInFlight(w, sku) ==
    {v \in Writers \ {w} : \E k \in Prods :
        mtx[v].p[k] # Null /\ sku \in {SkuOf(mtx[v].p[k]), SkuOf(prod[k])}}

(* Slip: products.sku has a plain index.                                   *)
SetSkuUnchecked(w, k, sku, t) == Proceed(w, t)

(* Product k gets the sku: the unique index lets it, or raises.            *)
SetSku(w, k, sku, t) ==
    LET free == sku = Null \/ \A j \in Prods \ {k} : SkuOf(SeesProd(w, j)) # sku
    IN /\ sku \notin {Null, SkuOf(SeesProd(w, k))} => SkuInFlight(w, sku) = {}
       /\ IF free THEN Proceed(w, t) ELSE RollBack(w)

(* The UPDATE of apply_update_product_command: the row as it is now, with  *)
(* the given fields changed.                                               *)
UpdateProductRow(w) ==
    /\ Current(w) = "update" /\ mtx[w].cmd.kind = "update_product"
    /\ LET t == mtx[w]
           k == t.cmd.id
           new == [name |-> Coalesce(t.cmd.name, prod[k].name),
                   cat |-> Coalesce(t.link, prod[k].cat),
                   priced |-> Coalesce(t.cmd.priced, prod[k].priced),
                   active |-> Coalesce(t.cmd.active, prod[k].active),
                   sku |-> Coalesce(t.cmd.sku, prod[k].sku)]
       IN SetSku(w, k, new.sku, [t EXCEPT !.p[k] = new])

(* The UPDATE of apply_update_category_command.                            *)
UpdateCategoryRow(w) ==
    /\ Current(w) = "update" /\ mtx[w].cmd.kind = "update_category"
    /\ LET t == mtx[w]
           k == t.cmd.id
       IN Proceed(w, [t EXCEPT !.c[k] = [name |-> Coalesce(t.cmd.name, cat[k].name),
                                         parent |-> Coalesce(t.link, cat[k].parent)]])

---------------------------------------------------------------------------
(* The sequence of a set of positions, in order (exactly one).             *)
InOrder(S) == {s \in [1 .. Cardinality(S) -> S] : \A i, j \in DOMAIN s : i < j => s[i] < s[j]}

(* parse_and_validate_csv, lines by themselves: those without a name, with *)
(* an unknown category or an invalid price are skipped.  Of several        *)
(* categories of one name the last one read is taken.                      *)
ResolveLines(w) ==
    /\ Current(w) = "resolve"
    /\ LET lines == mtx[w].cmd.lines
           good == {i \in DOMAIN lines :
                      /\ lines[i].name # Null /\ lines[i].price # "invalid"
                      /\ lines[i].cat # Null => CatsNamed(w, lines[i].cat) # {}}
       IN \E index \in InOrder(good), pick \in [CatNames -> Cats \cup {Null}] :
             /\ \A n \in CatNames :
                   pick[n] \in IF CatsNamed(w, n) = {} THEN {Null} ELSE CatsNamed(w, n)
             /\ Proceed(w, [mtx[w] EXCEPT !.rows = [i \in DOMAIN index |->
                   LET l == lines[index[i]]
                   IN [name |-> l.name, cat |-> IF l.cat = Null THEN Null ELSE pick[l.cat],
                       priced |-> l.price = "given"]]])

(* Lines with a name of several products, or of an earlier line that was   *)
(* kept, are skipped; both up to white space.                              *)
DedupeLines(w) ==
    /\ Current(w) = "dedupe"
    /\ LET rows == mtx[w].rows
           Known(n) == {k \in Prods : prod[k] # Null /\ Norm[prod[k].name] = Norm[n]}
           kept == {i \in 1 .. Len(rows) :
                      /\ Cardinality(Known(rows[i].name)) <= 1
                      /\ \A j \in 1 .. (i - 1) : Norm[rows[j].name] # Norm[rows[i].name]}
       IN \E index \in InOrder(kept) :
             Proceed(w, [mtx[w] EXCEPT !.rows = [i \in DOMAIN index |-> rows[index[i]]]])

(* apply_menu_import, the SELECT of the next line's name: several products *)
(* skip the line, none inserts it, one updates that row.                   *)
FindLine(w) ==
    /\ Current(w) = "lines"
    /\ LET t == mtx[w] IN
       IF t.rows = <<>> THEN Proceed(w, t)
       ELSE LET ids == ProdsNamed(w, Head(t.rows).name)
                write == CASE ids = {} -> <<"add">>
                           [] Cardinality(ids) = 1 -> <<"overwrite">>
                           [] OTHER -> <<>>
            IN /\ mtx' = [mtx EXCEPT ![w] = [t EXCEPT
                             !.todo = write \o @, !.found = IF write = <<>> THEN {} ELSE ids,
                             !.rows = IF write = <<>> THEN Tail(@) ELSE @]]
               /\ UNCHANGED <<cat, prod, sent>>

(* A write of a product with a category the transaction has not locked is  *)
(* followed by the foreign key's check.                                    *)
WriteLine(w, k, new, checked) ==
    LET t == mtx[w]
        fk == IF checked \/ new.cat \in t.owned \cup t.shared \cup {Null} THEN <<>> ELSE <<"fk">>
    IN /\ mtx' = [mtx EXCEPT ![w] = [t EXCEPT
                     !.todo = fk \o Tail(@), !.p[k] = new, !.owned = @ \cup {k}, !.found = {},
                     !.link = IF fk = <<>> THEN Null ELSE new.cat, !.rows = Tail(@)]]
       /\ UNCHANGED <<cat, prod, sent>>

InsertLine(w) ==
    /\ Current(w) = "add"
    /\ \E k \in FreeProducts :
          LET l == Head(mtx[w].rows)
          IN WriteLine(w, k, [name |-> l.name, cat |-> l.cat, priced |-> l.priced,
                              active |-> l.priced, sku |-> Null], FALSE)

(* Slip: the line replaces the row, sku included.                          *)
ReplaceLine(w) ==
    /\ Current(w) = "overwrite"
    /\ mtx[w].found \cap OwnedByOthers(w) = {}
    /\ \E k \in mtx[w].found :
          LET l == Head(mtx[w].rows)
          IN WriteLine(w, k, [name |-> l.name, cat |-> l.cat, priced |-> l.priced,
                              active |-> l.priced, sku |-> Null], FALSE)

(* UPDATE ... WHERE id = :id waits for the row and writes on what it is by *)
(* then.                                                                   *)
OverwriteLine(w) ==
    /\ Current(w) = "overwrite"
    /\ mtx[w].found \cap OwnedByOthers(w) = {}
    /\ \E k \in mtx[w].found :
          LET l == Head(mtx[w].rows)
              old == SeesProd(w, k)
          IN WriteLine(w, k, [old EXCEPT !.cat = l.cat, !.priced = l.priced, !.active = l.priced],
                       l.cat = old.cat)

(* The foreign key: FOR KEY SHARE on the category.                         *)
CheckForeignKey(w) ==
    /\ Current(w) = "fk"
    /\ mtx[w].link \notin OwnedByOthers(w)
    /\ Proceed(w, [mtx[w] EXCEPT !.shared = @ \cup {mtx[w].link}, !.link = Null])

---------------------------------------------------------------------------
(* generate_missing_skus reads the skus in use...                          *)
ReadTaken(w) ==
    /\ Current(w) = "taken"
    /\ Proceed(w, [mtx[w] EXCEPT !.taken = {SkuOf(prod[k]) : k \in Prods} \ {Null}])

(* ... then the products without one, by name.                             *)
ReadTargets(w) ==
    /\ Current(w) = "targets"
    /\ \E rows \in UNION {[1 .. n -> {k \in Prods : prod[k] # Null /\ prod[k].sku = Null}]
                            : n \in 0 .. Cardinality(Prods)} :
          /\ Len(rows) = Cardinality({k \in Prods : prod[k] # Null /\ prod[k].sku = Null})
          /\ \A i, j \in DOMAIN rows : i < j =>
                rows[i] # rows[j] /\ prod[rows[i]].name <= prod[rows[j]].name
          /\ Proceed(w, [mtx[w] EXCEPT
                !.rows = [i \in DOMAIN rows |-> [id |-> rows[i], name |-> prod[rows[i]].name]]])

(* The sku for a product: that of its namesake in inventory unless it is   *)
(* taken, else the first free one made from its name.  The code tries      *)
(* suffixes without end; here none is left once Slugs (bound) is used up.  *)
Candidate(k, n, taken) ==
    IF Legacy[n] # Null /\ Legacy[n] \notin taken THEN {Legacy[n]}
    ELSE LET tried == Slugs[k][n]
         IN {tried[i] : i \in {i \in DOMAIN tried :
                tried[i] \notin taken /\ \A j \in 1 .. (i - 1) : tried[j] \in taken}}

(* UPDATE products SET sku = :sku WHERE id = :id, for one target after the *)
(* other.                                                                  *)
AssignSku(w) ==
    /\ Current(w) = "assign"
    /\ LET t == mtx[w] IN
       IF t.rows = <<>> THEN Proceed(w, t)
       ELSE LET k == Head(t.rows).id
            IN /\ k \notin OwnedByOthers(w)
               /\ \E sku \in Candidate(k, Head(t.rows).name, t.taken) :
                     SetSku(w, k, sku, [t EXCEPT
                        !.todo = <<"assign">> \o @, !.rows = Tail(@), !.taken = @ \cup {sku},
                        !.p[k] = [SeesProd(w, k) EXCEPT !.sku = sku], !.owned = @ \cup {k}])

---------------------------------------------------------------------------
(* The agent, the import service or the batch commits.                     *)
CommitMenu(w) ==
    /\ Current(w) = "commit"
    /\ cat' = [k \in Cats |-> SeesCat(w, k)]
    /\ prod' = [k \in Prods |-> SeesProd(w, k)]
    /\ mtx' = [mtx EXCEPT ![w] = NoTx]
    /\ UNCHANGED sent

(* The transactions the current statement of w waits for.                  *)
MenuBlockers(w) ==
    LET t == mtx[w]
        Owners(ids) == {v \in Writers \ {w} : mtx[v].owned \cap ids # {}}
        Sharers(ids) == {v \in Writers \ {w} : mtx[v].shared \cap ids # {}}
    IN CASE Current(w) = "row" -> Owners({t.cmd.id}) \cup Sharers({t.cmd.id})
         [] Current(w) = "lock" -> Owners(t.found) \cup Sharers(t.found)
         [] Current(w) = "overwrite" -> Owners(t.found)
         [] Current(w) = "fk" -> Owners({t.link})
         [] Current(w) = "sku" ->
               Owners({k \in Prods \ {t.cmd.id} : SkuOf(prod[k]) = t.cmd.sku})
         [] Current(w) = "update" /\ t.cmd.sku # Null /\ t.cmd.sku # SkuOf(prod[t.cmd.id]) ->
               SkuInFlight(w, t.cmd.sku)
         [] Current(w) = "assign" /\ t.rows # <<>> ->
               Owners({Head(t.rows).id})
               \cup UNION {SkuInFlight(w, sku) :
                              sku \in Candidate(Head(t.rows).id, Head(t.rows).name, t.taken)}
         [] OTHER -> {}

(* The transaction is on a cycle of waits.                                 *)
MenuDeadlocked(w) ==
    \E n \in 1 .. Cardinality(Writers) : \E q \in [0 .. n -> Writers] :
       q[0] = w /\ q[n] = w /\ \A i \in 0 .. (n - 1) : q[i + 1] \in MenuBlockers(q[i])

(* PostgreSQL aborts a transaction of such a cycle.                        *)
AbortMenuDeadlock(w) == MenuDeadlocked(w) /\ RollBack(w)

(* The server process restarts.                                            *)
MenuCrash ==
    /\ mtx' = [w \in Writers |-> NoTx]
    /\ UNCHANGED <<cat, prod, sent>>

(* The bound on rows leaves an id for every insert a command may still do. *)
Inserts(cmd, kind) ==
    CASE cmd.kind = kind -> 1
      [] cmd.kind = "import" /\ kind = "create_product" -> Len(cmd.lines)
      [] OTHER -> 0

RoomFor(cmd) ==
    \A kind \in {"create_product", "create_category"} :
        LET ids == IF kind = "create_category" THEN {k \in Cats : cat[k] = Null}
                   ELSE {k \in Prods : prod[k] = Null}
            others == UNION {{v} \X (1 .. Inserts(mtx[v].cmd, kind)) : v \in Writers}
        IN Inserts(cmd, kind) = 0 \/ Cardinality(others) + Inserts(cmd, kind) <= Cardinality(ids)

Send(w, cmd) ==
    /\ RoomFor(cmd)
    /\ \/ ApplyMenu(w, cmd) \/ ApplyCategory(w, cmd)
       \/ UpdateProduct(w, cmd) \/ UpdateCategory(w, cmd)
       \/ ImportCsv(w, cmd) \/ GenerateMissingSkus(w, cmd)

MenuStep(w) ==
    \/ Validate(w) \/ LockTarget(w) \/ FindCategory(w) \/ LockCategory(w) \/ CheckName(w)
    \/ CheckSku(w) \/ InsertProduct(w) \/ InsertCategory(w) \/ UpdateProductRow(w) \/ UpdateCategoryRow(w)
    \/ ResolveLines(w) \/ DedupeLines(w) \/ FindLine(w) \/ InsertLine(w) \/ OverwriteLine(w)
    \/ CheckForeignKey(w) \/ ReadTaken(w) \/ ReadTargets(w) \/ AssignSku(w)
    \/ CommitMenu(w) \/ AbortMenuDeadlock(w)

MenuNext ==
    \/ \E w \in Writers, cmd \in Commands : Send(w, cmd)
    \/ \E w \in Writers : MenuStep(w)
    \/ MenuCrash

MenuSpec == MenuInit /\ [][MenuNext]_menuVars

(* A transaction goes on by itself: the event loop resumes it, and         *)
(* PostgreSQL grants locks in turn.                                        *)
MenuFairness == \A w \in Writers : SF_menuVars(MenuStep(w))

---------------------------------------------------------------------------
(* The rows hold what the columns may hold, committed and not, and a       *)
(* transaction locks rows only.                                            *)
MenuTypeOK ==
    /\ sent \in 0 .. MaxSent
    /\ cat \in [Cats -> Category \cup {Null}]
    /\ prod \in [Prods -> Product \cup {Null}]
    /\ \A w \in Writers :
          /\ mtx[w].cmd \in Commands \cup {NoCommand}
          /\ mtx[w].c \in [Cats -> Category \cup {Null}]
          /\ mtx[w].p \in [Prods -> Product \cup {Null}]
          /\ mtx[w].owned \subseteq Cats \cup Prods
          /\ mtx[w].shared \subseteq Cats
          /\ mtx[w].link \in Cats \cup {Null}

(* No two products get one sku, whoever sets it: the SELECTs of an update  *)
(* and of the sku batch do not see what others have not committed.         *)
SkusUnique ==
    \A j, k \in Prods :
        (j # k /\ SkuOf(prod[j]) # Null) => SkuOf(prod[j]) # SkuOf(prod[k])

(* The category a command resolved by its name still has that name when    *)
(* the row that refers to it is written and committed, and it is not the   *)
(* category itself.                                                        *)
CategoryStands ==
    \A w \in Writers :
        (mtx[w].link # Null /\ mtx[w].cmd.kind # "import") =>
            cat[mtx[w].link].name = mtx[w].cmd.cat /\ mtx[w].link # mtx[w].cmd.id

(* A commit changes only what its command is about: an update the fields   *)
(* it was given, an import neither name nor sku, the sku batch nothing     *)
(* else, whatever was committed while they ran.                            *)
OtherFieldsKept ==
    [][\A k \in Prods :
        (prod[k] # Null /\ prod'[k] # prod[k]) =>
            \E w \in Writers :
                /\ Current(w) = "commit"
                /\ LET cmd == mtx[w].cmd IN
                   CASE cmd.kind = "import" ->
                           prod'[k].name = prod[k].name /\ prod'[k].sku = prod[k].sku
                     [] cmd.kind = "skus" ->
                           prod'[k] = [prod[k] EXCEPT !.sku = prod'[k].sku]
                     [] cmd.kind = "update_product" ->
                           /\ k = cmd.id
                           /\ \A f \in {"name", "cat", "priced", "active", "sku"} :
                                 cmd[f] = Null => prod'[k][f] = prod[k][f]
                     [] OTHER -> FALSE]_menuVars

(* Every command, import and batch ends; cycles of waits are broken.       *)
MenuWriteEnds == \A w \in Writers : (Current(w) # "idle") ~> (Current(w) = "idle")

(* "Manually-set skus (non-NULL) are never touched - this only fills gaps" *)
(* (generate_missing_skus): only an update of the product changes a sku    *)
(* that is set.                                                            *)
SkusOnlyFillGaps ==
    [][\A k \in Prods :
        (SkuOf(prod[k]) # Null /\ SkuOf(prod'[k]) # SkuOf(prod[k])) =>
            \E w \in Writers : Current(w) = "commit" /\ mtx[w].cmd.kind = "update_product"]_menuVars

===========================================================================
