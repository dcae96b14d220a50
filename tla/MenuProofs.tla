----------------------------- MODULE MenuProofs -----------------------------
(***************************************************************************)
(* The writers of the menu keep its tables consistent, for any tables, any *)
(* commands and files and any number of concurrent transactions.           *)
(***************************************************************************)
EXTENDS Menu, FiniteSetTheorems, TLAPS

Statement == {"validate", "find", "lock", "name", "row", "sku", "insert", "update", "resolve",
              "dedupe", "lines", "add", "overwrite", "fk", "taken", "targets", "assign", "commit"}

(* The statements of each kind of command.                                 *)
Plan(kind) ==
    CASE kind = "create_product" -> {"validate", "find", "lock", "name", "insert", "commit"}
      [] kind = "create_category" -> {"validate", "find", "lock", "name", "insert", "commit"}
      [] kind = "update_product" -> {"validate", "row", "find", "lock", "sku", "update", "commit"}
      [] kind = "update_category" -> {"validate", "row", "find", "lock", "name", "update", "commit"}
      [] kind = "import" -> {"resolve", "dedupe", "lines", "add", "overwrite", "fk", "commit"}
      [] OTHER -> {"taken", "targets", "assign", "commit"}

(* A line of a file as it is written, and a product without a sku.         *)
FileRow == [name : ProdNames, cat : Cats \cup {Null}, priced : BOOLEAN]

Target == [id : Prods, name : ProdNames]

Tx == [todo : Seq(Statement), cmd : Command, rows : Seq(FileRow \cup Target),
       found : SUBSET (Cats \cup Prods), owned : SUBSET (Cats \cup Prods),
       shared : SUBSET Cats, link : Cats \cup {Null}, taken : SUBSET SkuCodes,
       c : [Cats -> Category \cup {Null}], p : [Prods -> Product \cup {Null}]]

TxTypes(t) ==
    /\ t \in Tx
    /\ t.cmd \in Commands \cup {NoCommand}
    /\ \A i \in DOMAIN t.todo : t.todo[i] \in Plan(t.cmd.kind)
    /\ \A i \in DOMAIN t.rows : t.rows[i] \in IF t.cmd.kind = "skus" THEN Target ELSE FileRow
    /\ t.found \subseteq IF t.cmd.kind = "import" THEN Prods ELSE Cats

(* Checks come first and the row is locked right after them; nothing but   *)
(* the commit follows a write; a line of a file is written by itself.      *)
Ordered(s) ==
    \A i \in DOMAIN s :
        /\ s[i] \in {"validate", "add", "overwrite", "fk"} => i = 1
        /\ s[i] = "row" => i = 1 \/ (i = 2 /\ s[1] = "validate")
        /\ \A j \in DOMAIN s :
              (s[j] \in {"insert", "update"} /\ j < i) => s[i] = "commit"

First(t, s) == t.todo # <<>> /\ t.todo[1] = s

Checking(t) == First(t, "validate") /\ 2 \in DOMAIN t.todo /\ t.todo[2] = "row"

(* The rows a transaction has locked are in the tables, or its own.        *)
Held(t, cc, pp) ==
    /\ \A k \in Prods \cap t.owned : pp[k] # Null \/ t.p[k] # Null
    /\ \A k \in Cats \cap t.owned : cc[k] # Null \/ t.c[k] # Null

(* What the statements before have left for those to come.                 *)
Staged(t, cc, pp) ==
    /\ t.todo # <<>> =>
          /\ t.cmd.kind = "update_product" =>
                Checking(t) \/ (pp[t.cmd.id] # Null /\ (First(t, "row") \/ t.cmd.id \in t.owned))
          /\ t.cmd.kind = "update_category" =>
                Checking(t) \/ (cc[t.cmd.id] # Null /\ (First(t, "row") \/ t.cmd.id \in t.owned))
    /\ First(t, "add") => t.rows # <<>>
    /\ First(t, "overwrite") => t.rows # <<>> /\ \A k \in t.found : pp[k] # Null \/ t.p[k] # Null
    /\ First(t, "fk") => t.link # Null
    /\ t.cmd.kind = "skus" => \A i \in DOMAIN t.rows : pp[t.rows[i].id] # Null

(* A row is written under its lock, or it is new.                          *)
Covered(t, cc, pp) ==
    /\ \A k \in Prods : t.p[k] # Null => pp[k] = Null \/ k \in t.owned
    /\ \A k \in Cats : t.c[k] # Null => cc[k] = Null \/ k \in t.owned

(* A command writes once, just before it commits.                          *)
WritesLast(t) ==
    \/ t.cmd.kind \in {"import", "skus"}
    \/ \A i \in DOMAIN t.todo : t.todo[i] = "commit"
    \/ (\A k \in Prods : t.p[k] = Null) /\ (\A k \in Cats : t.c[k] = Null)

(* The category the command resolved is locked and has its name.           *)
Linked(t, cc) ==
    (t.link # Null /\ t.cmd.kind # "import") =>
        /\ t.link \in t.owned /\ cc[t.link] # Null
        /\ cc[t.link].name = t.cmd.cat /\ t.link # t.cmd.id

(* What the transaction changes of a product that was there.               *)
Keeps(t, pp) ==
    \A k \in Prods : (t.p[k] # Null /\ pp[k] # Null) =>
        /\ t.cmd.kind \in {"import", "skus", "update_product"}
        /\ t.cmd.kind = "import" => t.p[k].name = pp[k].name /\ t.p[k].sku = pp[k].sku
        /\ t.cmd.kind = "skus" =>
              /\ t.p[k].name = pp[k].name /\ t.p[k].cat = pp[k].cat
              /\ t.p[k].priced = pp[k].priced /\ t.p[k].active = pp[k].active
        /\ t.cmd.kind = "update_product" =>
              /\ k = t.cmd.id
              /\ t.cmd.name = Null => t.p[k].name = pp[k].name
              /\ t.cmd.cat = Null => t.p[k].cat = pp[k].cat
              /\ t.cmd.priced = Null => t.p[k].priced = pp[k].priced
              /\ t.cmd.active = Null => t.p[k].active = pp[k].active
              /\ t.cmd.sku = Null => t.p[k].sku = pp[k].sku

(* The skus of the products as the transaction sees them.                  *)
SkuSeen(t, pp, k) == SkuOf(IF t.p[k] # Null THEN t.p[k] ELSE pp[k])

Distinct(t, pp) ==
    \A j, k \in Prods : j # k => SkuSeen(t, pp, j) = Null \/ SkuSeen(t, pp, j) # SkuSeen(t, pp, k)

TxInv(t, cc, pp) ==
    /\ TxTypes(t) /\ Ordered(t.todo) /\ Held(t, cc, pp) /\ Staged(t, cc, pp)
    /\ Covered(t, cc, pp) /\ WritesLast(t)
    /\ Linked(t, cc) /\ Keeps(t, pp) /\ Distinct(t, pp)

(* Two transactions lock and write different rows, and their skus differ.  *)
Apart(t, u) ==
    /\ t.owned \cap u.owned = {}
    /\ \A k \in Prods : t.p[k] = Null \/ u.p[k] = Null
    /\ \A k \in Cats : t.c[k] = Null \/ u.c[k] = Null
    /\ \A j, k \in Prods : (t.p[j] # Null /\ u.p[k] # Null) =>
          t.p[j].sku = Null \/ t.p[j].sku # u.p[k].sku

Tables ==
    /\ sent \in 0 .. MaxSent
    /\ cat \in [Cats -> Category \cup {Null}]
    /\ prod \in [Prods -> Product \cup {Null}]
    /\ mtx \in [Writers -> Tx]

MenuInv ==
    /\ Tables
    /\ SkusUnique
    /\ \A w \in Writers : TxInv(mtx[w], cat, prod)
    /\ \A v, w \in Writers : v # w => Apart(mtx[v], mtx[w])

---------------------------------------------------------------------------
(* No row, id, name or sku is Null.                                        *)
LEMMA NullFacts ==
    /\ Null \notin Cats /\ Null \notin Prods /\ Null \notin CatNames /\ Null \notin ProdNames
    /\ Null \notin SkuCodes /\ Null \notin Category /\ Null \notin Product
  BY MenuAssumption

LEMMA CommandFacts ==
    ASSUME NEW cmd \in Commands \cup {NoCommand}
    PROVE  /\ cmd \in Command /\ cmd.kind \in Kind
           /\ cmd.cat \in CatNames \cup {Null} /\ cmd.priced \in {TRUE, Null}
           /\ cmd.active \in BOOLEAN \cup {Null} /\ cmd.sku \in SkuCodes \cup {Null}
           /\ cmd.lines \in Seq(Line)
           /\ cmd.kind = "create_product" => cmd.name \in ProdNames /\ cmd.cat # Null
           /\ cmd.kind = "create_category" => cmd.name \in CatNames
           /\ cmd.kind = "update_product" => cmd.id \in Prods /\ cmd.name \in ProdNames \cup {Null}
           /\ cmd.kind = "update_category" => cmd.id \in Cats /\ cmd.name \in CatNames \cup {Null}
<1>1. NoCommand \in Command
  BY DEF NoCommand, Command, Kind
<1>2. cmd \in Command
  BY <1>1, MenuAssumption
<1> QED BY <1>2 DEF Command, Kind

(* Sequences.                                                              *)
LEMMA TailFacts ==
    ASSUME NEW S, NEW s \in Seq(S), s # <<>>
    PROVE  /\ Tail(s) \in Seq(S) /\ Len(Tail(s)) = Len(s) - 1 /\ Len(s) \in Nat \ {0}
           /\ \A i \in DOMAIN Tail(s) : i \in Nat \ {0} /\ i + 1 \in DOMAIN s /\ Tail(s)[i] = s[i + 1]
           /\ 1 \in DOMAIN s /\ Head(s) = s[1] /\ s[1] \in S
  OBVIOUS

LEMMA JoinFacts ==
    ASSUME NEW S, NEW r \in Seq(S), NEW s \in Seq(S)
    PROVE  /\ r \o s \in Seq(S) /\ Len(r) \in Nat /\ Len(s) \in Nat
           /\ DOMAIN r = 1 .. Len(r) /\ DOMAIN s = 1 .. Len(s)
           /\ DOMAIN (r \o s) = 1 .. (Len(r) + Len(s))
           /\ \A i \in DOMAIN r : (r \o s)[i] = r[i]
           /\ \A i \in DOMAIN (r \o s) : i \notin DOMAIN r =>
                 i - Len(r) \in DOMAIN s /\ (r \o s)[i] = s[i - Len(r)]
  OBVIOUS

(* A plan opens with its checks, goes on with reads and ends with a write. *)
Opening(s) ==
    \A i \in DOMAIN s :
        \/ s[i] = "validate" /\ i = 1
        \/ s[i] = "row" /\ i = 2 /\ s[1] = "validate"
        \/ s[i] \in {"find", "lock", "sku", "name"}

Reads(s) == \A i \in DOMAIN s : s[i] \in {"find", "lock", "sku", "name"}

Closing(s) ==
    \A i \in DOMAIN s :
        /\ s[i] \in {"find", "lock", "name", "insert", "update", "commit"}
        /\ \A j \in DOMAIN s : (s[j] \in {"insert", "update"} /\ j < i) => s[i] = "commit"

LEMMA Opens ==
    ASSUME NEW S, NEW r \in Seq(S), NEW s \in Seq(S), r # <<>>, Opening(r), Reads(s)
    PROVE  /\ r \o s \in Seq(S) /\ Opening(r \o s) /\ r \o s # <<>>
           /\ \A i \in DOMAIN r : i \in DOMAIN (r \o s) /\ (r \o s)[i] = r[i]
<1>1. /\ r \o s \in Seq(S) /\ Len(r) \in Nat /\ Len(s) \in Nat
      /\ DOMAIN r = 1 .. Len(r) /\ DOMAIN s = 1 .. Len(s)
      /\ DOMAIN (r \o s) = 1 .. (Len(r) + Len(s))
      /\ \A i \in DOMAIN r : (r \o s)[i] = r[i]
      /\ \A i \in DOMAIN (r \o s) : i \notin DOMAIN r =>
            i - Len(r) \in DOMAIN s /\ (r \o s)[i] = s[i - Len(r)]
  BY JoinFacts
<1>2. 1 \in DOMAIN r
  BY TailFacts
<1>3. 1 \in DOMAIN (r \o s)
  BY <1>1, <1>2
<1>4. r \o s # <<>>
  BY <1>3
<1>5. Opening(r \o s)
  BY <1>1, <1>2 DEF Opening, Reads
<1> QED BY <1>1, <1>2, <1>4, <1>5

LEMMA Closes ==
    ASSUME NEW S, NEW r \in Seq(S), NEW s \in Seq(S), r # <<>>, Opening(r), Closing(s)
    PROVE  /\ r \o s \in Seq(S) /\ Ordered(r \o s) /\ r \o s # <<>>
           /\ \A i \in DOMAIN r : i \in DOMAIN (r \o s) /\ (r \o s)[i] = r[i]
<1>1. /\ r \o s \in Seq(S) /\ Len(r) \in Nat /\ Len(s) \in Nat
      /\ DOMAIN r = 1 .. Len(r) /\ DOMAIN s = 1 .. Len(s)
      /\ DOMAIN (r \o s) = 1 .. (Len(r) + Len(s))
      /\ \A i \in DOMAIN r : (r \o s)[i] = r[i]
      /\ \A i \in DOMAIN (r \o s) : i \notin DOMAIN r =>
            i - Len(r) \in DOMAIN s /\ (r \o s)[i] = s[i - Len(r)]
  BY JoinFacts
<1>2. 1 \in DOMAIN r
  BY TailFacts
<1>3. 1 \in DOMAIN (r \o s)
  BY <1>1, <1>2
<1>4. r \o s # <<>>
  BY <1>3
<1>5. ASSUME NEW i \in DOMAIN (r \o s), NEW j \in DOMAIN (r \o s),
             (r \o s)[j] \in {"insert", "update"}, j < i
      PROVE  (r \o s)[i] = "commit"
  <2>1. j \notin DOMAIN r
    BY <1>1, <1>5 DEF Opening
  <2>2. i \notin DOMAIN r
    BY <1>1, <1>5, <2>1
  <2> QED BY <1>1, <1>5, <2>1, <2>2 DEF Closing
<1>6. ASSUME NEW i \in DOMAIN (r \o s)
      PROVE  /\ (r \o s)[i] \in {"validate", "add", "overwrite", "fk"} => i = 1
             /\ (r \o s)[i] = "row" => i = 1 \/ (i = 2 /\ (r \o s)[1] = "validate")
  BY <1>1, <1>2 DEF Opening, Closing
<1> QED BY <1>1, <1>2, <1>4, <1>5, <1>6 DEF Ordered

---------------------------------------------------------------------------
(* The state of the other transactions.                                    *)
LEMMA TxFacts ==
    ASSUME NEW t, TxTypes(t)
    PROVE  /\ t.todo \in Seq(Statement) /\ t.cmd \in Command /\ t.rows \in Seq(FileRow \cup Target)
           /\ t.found \in SUBSET (Cats \cup Prods) /\ t.owned \in SUBSET (Cats \cup Prods)
           /\ t.shared \in SUBSET Cats /\ t.link \in Cats \cup {Null} /\ t.taken \in SUBSET SkuCodes
           /\ t.c \in [Cats -> Category \cup {Null}] /\ t.p \in [Prods -> Product \cup {Null}]
           /\ t.cmd \in Commands \cup {NoCommand}
  BY DEF TxTypes, Tx

LEMMA ApartSym ==
    ASSUME NEW t, NEW u, Apart(t, u)
    PROVE  Apart(u, t)
  BY DEF Apart

(* A transaction's step, given what it comes to.                           *)
LEMMA TxStep ==
    ASSUME MenuInv, NEW w \in Writers, NEW t,
           mtx' = [mtx EXCEPT ![w] = t], UNCHANGED <<cat, prod>>, sent' \in 0 .. MaxSent,
           TxInv(t, cat, prod), \A v \in Writers \ {w} : Apart(t, mtx[v])
    PROVE  MenuInv'
<1>1. t \in Tx
  BY DEF TxInv, TxTypes
<1>2. mtx' \in [Writers -> Tx] /\ \A v \in Writers : mtx'[v] = IF v = w THEN t ELSE mtx[v]
  BY <1>1 DEF MenuInv, Tables
<1>3. \A v \in Writers : TxInv(mtx'[v], cat, prod)
  BY <1>2 DEF MenuInv
<1>4. \A v \in Writers \ {w} : Apart(mtx[v], t)
  BY ApartSym
<1>5. \A u, v \in Writers : u # v => Apart(mtx'[u], mtx'[v])
  BY <1>2, <1>4 DEF MenuInv
<1>6. SkusUnique'
  BY DEF MenuInv, SkusUnique, SkuOf
<1> QED BY <1>2, <1>3, <1>5, <1>6 DEF MenuInv, Tables

(* No transaction at all.                                                  *)
LEMMA NoTxFacts ==
    /\ NoTx \in Tx /\ NoTx.todo = <<>> /\ NoTx.cmd = NoCommand /\ NoTx.rows = <<>>
    /\ NoTx.found = {} /\ NoTx.owned = {} /\ NoTx.link = Null /\ NoTx.taken = {}
    /\ \A k \in Cats : NoTx.c[k] = Null
    /\ \A k \in Prods : NoTx.p[k] = Null
    /\ NoCommand.kind = "skus"
<1>1. NoCommand \in Command
  BY CommandFacts
<1> QED BY <1>1 DEF NoTx, Tx, NoCommand

LEMMA NoTxInv ==
    ASSUME NEW pp, \A j, k \in Prods : (j # k /\ SkuOf(pp[j]) # Null) => SkuOf(pp[j]) # SkuOf(pp[k])
    PROVE  /\ \A cc : TxInv(NoTx, cc, pp)
           /\ \A u : Apart(NoTx, u)
<1> SUFFICES ASSUME NEW cc PROVE TxInv(NoTx, cc, pp) /\ \A u : Apart(NoTx, u)
  OBVIOUS
<1>1. TxTypes(NoTx)
  BY NoTxFacts DEF TxTypes
<1>2. Ordered(NoTx.todo) /\ Held(NoTx, cc, pp)
  BY NoTxFacts DEF Ordered, Held
<1>3. Staged(NoTx, cc, pp)
  <2>1. \A i \in DOMAIN NoTx.rows : FALSE
    BY NoTxFacts
  <2> QED BY <2>1, NoTxFacts DEF Staged, First, Checking
<1>4. Covered(NoTx, cc, pp) /\ WritesLast(NoTx) /\ Linked(NoTx, cc) /\ Keeps(NoTx, pp)
  BY NoTxFacts DEF Covered, WritesLast, Linked, Keeps
<1>5. Distinct(NoTx, pp)
  BY NoTxFacts DEF Distinct, SkuSeen
<1> QED BY <1>1, <1>2, <1>3, <1>4, <1>5, NoTxFacts DEF TxInv, Apart

LEMMA RollBackStep ==
    ASSUME MenuInv, NEW w \in Writers, RollBack(w)
    PROVE  MenuInv'
<1>1. TxInv(NoTx, cat, prod) /\ \A u : Apart(NoTx, u)
  BY NoTxInv DEF MenuInv, SkusUnique
<1> QED BY <1>1, TxStep DEF RollBack, MenuInv, Tables

(* The statement is done.                                                  *)
Pop(t) == [t EXCEPT !.todo = Tail(@)]

LEMMA Popped ==
    ASSUME NEW t, TxTypes(t), Ordered(t.todo), t.todo # <<>>
    PROVE  /\ TxTypes(Pop(t)) /\ Ordered(Pop(t).todo)
           /\ Pop(t).cmd = t.cmd /\ Pop(t).rows = t.rows /\ Pop(t).found = t.found
           /\ Pop(t).owned = t.owned /\ Pop(t).link = t.link /\ Pop(t).c = t.c /\ Pop(t).p = t.p
           /\ \A s \in {"validate", "add", "overwrite", "fk"} : ~First(Pop(t), s)
           /\ First(Pop(t), "row") => t.todo[1] = "validate"
           /\ Checking(t) => First(Pop(t), "row")
           /\ t.todo[1] \in {"insert", "update"} => \A i \in DOMAIN Pop(t).todo : Pop(t).todo[i] = "commit"
           /\ \A i \in DOMAIN Pop(t).todo : i + 1 \in DOMAIN t.todo /\ Pop(t).todo[i] = t.todo[i + 1]
<1> DEFINE u == Pop(t)
<1>1. /\ t.todo \in Seq(Statement) /\ t \in Tx
  BY DEF TxTypes, Tx
<1>2. /\ Tail(t.todo) \in Seq(Statement) /\ 1 \in DOMAIN t.todo
      /\ \A i \in DOMAIN Tail(t.todo) :
            i \in Nat \ {0} /\ i + 1 \in DOMAIN t.todo /\ Tail(t.todo)[i] = t.todo[i + 1]
  BY <1>1, TailFacts
<1>3. /\ u.todo = Tail(t.todo) /\ u \in Tx
      /\ u.cmd = t.cmd /\ u.rows = t.rows /\ u.found = t.found
      /\ u.owned = t.owned /\ u.link = t.link /\ u.c = t.c /\ u.p = t.p
  BY <1>1, <1>2 DEF Pop, Tx
<1> HIDE DEF u
<1>4. TxTypes(u)
  BY <1>2, <1>3 DEF TxTypes
<1>5. \A i \in DOMAIN u.todo : i \in Nat \ {0} /\ i + 1 \in DOMAIN t.todo /\ u.todo[i] = t.todo[i + 1]
  BY <1>2, <1>3
<1>6. Ordered(u.todo)
  BY <1>2, <1>5 DEF Ordered
<1>7. u.todo # <<>> => 1 \in DOMAIN u.todo
  BY <1>2, <1>3, TailFacts
<1>8. /\ \A s \in {"validate", "add", "overwrite", "fk"} : ~First(u, s)
      /\ First(u, "row") => t.todo[1] = "validate"
  BY <1>5, <1>7 DEF First, Ordered
<1>10. Checking(t) => First(u, "row")
  <2> SUFFICES ASSUME Checking(t) PROVE First(u, "row")
    OBVIOUS
  <2>1. Len(t.todo) >= 2 /\ Len(Tail(t.todo)) = Len(t.todo) - 1 /\ Len(t.todo) \in Nat
    BY <1>1, TailFacts DEF Checking, First
  <2>2. 1 \in DOMAIN Tail(t.todo)
    BY <1>2, <2>1
  <2>3. u.todo # <<>>
    <3>1. Len(Tail(t.todo)) # 0
      BY <1>1, TailFacts DEF Checking, First
    <3>2. Len(<<>>) = 0
      OBVIOUS
    <3> QED BY <1>3, <3>1, <3>2, Zenon
  <2> QED BY <1>5, <1>3, <2>2, <2>3 DEF First, Checking
<1>9. t.todo[1] \in {"insert", "update"} => \A i \in DOMAIN u.todo : u.todo[i] = "commit"
  BY <1>2, <1>5 DEF Ordered
<1> QED BY <1>3, <1>4, <1>5, <1>6, <1>8, <1>9, <1>10 DEF u

LEMMA Advance ==
    ASSUME MenuInv, NEW w \in Writers, NEW s, Proceed(w, s), mtx[w].todo # <<>>,
           s.todo = mtx[w].todo, s.cmd = mtx[w].cmd, mtx[w].owned \subseteq s.owned,
           TxTypes(s), Held(s, cat, prod), Covered(s, cat, prod), Linked(s, cat), Keeps(s, prod),
           Distinct(s, prod), \A v \in Writers \ {w} : Apart(s, mtx[v]),
           s.todo[1] = "validate" =>
              /\ s.cmd.kind = "update_product" => prod[s.cmd.id] # Null
              /\ s.cmd.kind = "update_category" => cat[s.cmd.id] # Null,
           s.todo[1] = "row" => s.cmd.id \in s.owned,
           s.cmd.kind = "skus" => \A i \in DOMAIN s.rows : prod[s.rows[i].id] # Null,
           \/ s.p = mtx[w].p /\ s.c = mtx[w].c
           \/ s.todo[1] \in {"insert", "update"}
           \/ s.cmd.kind \in {"import", "skus"}
    PROVE  MenuInv'
<1> DEFINE t == mtx[w]
           u == Pop(s)
<1>1. TxInv(t, cat, prod)
  BY DEF MenuInv
<1>2. Ordered(s.todo) /\ s.todo # <<>> /\ Staged(t, cat, prod) /\ WritesLast(t)
  BY <1>1 DEF TxInv
<1>3. /\ TxTypes(u) /\ Ordered(u.todo)
      /\ u.cmd = s.cmd /\ u.rows = s.rows /\ u.found = s.found
      /\ u.owned = s.owned /\ u.link = s.link /\ u.c = s.c /\ u.p = s.p
      /\ \A x \in {"validate", "add", "overwrite", "fk"} : ~First(u, x)
      /\ First(u, "row") => s.todo[1] = "validate"
      /\ Checking(s) => First(u, "row")
      /\ s.todo[1] \in {"insert", "update"} => \A i \in DOMAIN u.todo : u.todo[i] = "commit"
      /\ \A i \in DOMAIN u.todo : i + 1 \in DOMAIN s.todo /\ u.todo[i] = s.todo[i + 1]
  BY <1>2, Popped
<1>4. mtx' = [mtx EXCEPT ![w] = u] /\ UNCHANGED <<cat, prod, sent>>
  BY DEF Proceed, Pop
<1> HIDE DEF u
<1>5. Held(u, cat, prod) /\ Covered(u, cat, prod) /\ Linked(u, cat)
  BY <1>3 DEF Held, Covered, Linked
<1>6. Keeps(u, prod)
  BY <1>3 DEF Keeps
<1>7. Distinct(u, prod)
  BY <1>3 DEF Distinct, SkuSeen
<1>8. \A v \in Writers \ {w} : Apart(u, mtx[v])
  BY <1>3 DEF Apart
<1>9. WritesLast(u)
  BY <1>2, <1>3 DEF WritesLast
<1>10. Staged(u, cat, prod)
  <2>1. s.cmd.kind = "update_product" /\ u.todo # <<>> =>
           prod[s.cmd.id] # Null /\ (First(u, "row") \/ s.cmd.id \in s.owned)
    BY <1>2, <1>3 DEF Staged, First, Checking
  <2>2. s.cmd.kind = "update_category" /\ u.todo # <<>> =>
           cat[s.cmd.id] # Null /\ (First(u, "row") \/ s.cmd.id \in s.owned)
    BY <1>2, <1>3 DEF Staged, First, Checking
  <2> QED BY <1>3, <2>1, <2>2 DEF Staged
<1>11. TxInv(u, cat, prod)
  BY <1>3, <1>5, <1>6, <1>7, <1>9, <1>10 DEF TxInv
<1> QED BY <1>4, <1>8, <1>11, TxStep DEF MenuInv, Tables

(* A statement that writes no row.                                         *)
LEMMA ReadStep ==
    ASSUME MenuInv, NEW w \in Writers, NEW s, Proceed(w, s), mtx[w].todo # <<>>,
           s.todo = mtx[w].todo, s.cmd = mtx[w].cmd, mtx[w].owned \subseteq s.owned,
           s.p = mtx[w].p, s.c = mtx[w].c, TxTypes(s), Linked(s, cat),
           \A k \in s.owned \ mtx[w].owned :
              /\ \A v \in Writers \ {w} : k \notin mtx[v].owned
              /\ k \in Prods => prod[k] # Null
              /\ k \in Cats => cat[k] # Null,
           s.todo[1] = "validate" =>
              /\ s.cmd.kind = "update_product" => prod[s.cmd.id] # Null
              /\ s.cmd.kind = "update_category" => cat[s.cmd.id] # Null,
           s.todo[1] = "row" => s.cmd.id \in s.owned,
           s.cmd.kind = "skus" => \A i \in DOMAIN s.rows : prod[s.rows[i].id] # Null
    PROVE  MenuInv'
<1> DEFINE t == mtx[w]
<1>1. TxInv(t, cat, prod)
  BY DEF MenuInv
<1>2. Held(t, cat, prod) /\ Covered(t, cat, prod) /\ Keeps(t, prod) /\ Distinct(t, prod)
  BY <1>1 DEF TxInv
<1>3. Held(s, cat, prod) /\ Covered(s, cat, prod)
  BY <1>2 DEF Held, Covered
<1>4. Keeps(s, prod)
  BY <1>2 DEF Keeps
<1>5. Distinct(s, prod)
  BY <1>2 DEF Distinct, SkuSeen
<1>6. ASSUME NEW v \in Writers \ {w} PROVE Apart(s, mtx[v])
  <2>1. Apart(t, mtx[v])
    BY DEF MenuInv
  <2> QED BY <2>1 DEF Apart
<1> QED BY <1>3, <1>4, <1>5, <1>6, Advance

(* Where a transaction is.                                                 *)
LEMMA AtFacts ==
    ASSUME MenuInv, NEW w \in Writers, NEW x, Current(w) = x, x # "idle"
    PROVE  /\ TxInv(mtx[w], cat, prod) /\ TxTypes(mtx[w]) /\ mtx[w] \in Tx
           /\ mtx[w].todo # <<>> /\ mtx[w].todo[1] = x /\ x \in Plan(mtx[w].cmd.kind)
           /\ First(mtx[w], x) /\ mtx[w].cmd \in Commands \cup {NoCommand}
           /\ Linked(mtx[w], cat) /\ Staged(mtx[w], cat, prod)
<1>1. TxInv(mtx[w], cat, prod)
  BY DEF MenuInv
<1>2. TxTypes(mtx[w])
  BY <1>1 DEF TxInv
<1>3. mtx[w].todo \in Seq(Statement)
  BY <1>2, TxFacts
<1>4. mtx[w].todo # <<>>
  BY DEF Current
<1>5. Head(mtx[w].todo) = mtx[w].todo[1] /\ 1 \in DOMAIN mtx[w].todo
  BY <1>3, <1>4, TailFacts
<1> QED BY <1>1, <1>2, <1>4, <1>5 DEF Current, TxInv, TxTypes, First

---------------------------------------------------------------------------
(* The checks and the locks of a command.                                  *)
LEMMA PassStep ==
    ASSUME MenuInv, NEW w \in Writers, Proceed(w, mtx[w]),
           NEW x \in Statement \ {"validate", "row"}, Current(w) = x
    PROVE  MenuInv'
<1>1. /\ TxTypes(mtx[w]) /\ mtx[w].todo # <<>> /\ mtx[w].todo[1] = x
      /\ Linked(mtx[w], cat) /\ Staged(mtx[w], cat, prod)
  BY AtFacts DEF Statement
<1>2. mtx[w].cmd.kind = "skus" => \A i \in DOMAIN mtx[w].rows : prod[mtx[w].rows[i].id] # Null
  BY <1>1 DEF Staged
<1> QED BY <1>1, <1>2, ReadStep

(* Before its write a command has written nothing.                         *)
LEMMA NothingWritten ==
    ASSUME MenuInv, NEW w \in Writers,
           NEW x \in {"validate", "row", "find", "lock", "name", "sku", "insert", "update"}, Current(w) = x
    PROVE  (\A k \in Prods : mtx[w].p[k] = Null) /\ (\A k \in Cats : mtx[w].c[k] = Null)
<1>1. /\ TxInv(mtx[w], cat, prod) /\ TxTypes(mtx[w]) /\ mtx[w].todo # <<>> /\ mtx[w].todo[1] = x
      /\ x \in Plan(mtx[w].cmd.kind)
  BY AtFacts
<1>2. 1 \in DOMAIN mtx[w].todo
  BY <1>1, TxFacts, TailFacts
<1>3. mtx[w].cmd.kind \notin {"import", "skus"}
  BY <1>1 DEF Plan
<1> QED BY <1>1, <1>2, <1>3 DEF TxInv, WritesLast

LEMMA ValidateStep ==
    ASSUME MenuInv, NEW w \in Writers, Validate(w)
    PROVE  MenuInv'
<1> DEFINE cmd == mtx[w].cmd
<1>1. /\ TxTypes(mtx[w]) /\ mtx[w].todo # <<>> /\ mtx[w].todo[1] = "validate"
      /\ Linked(mtx[w], cat) /\ Staged(mtx[w], cat, prod) /\ cmd \in Commands \cup {NoCommand}
  BY AtFacts DEF Validate
<1>2. CASE RollBack(w)
  BY <1>2, RollBackStep
<1>3. CASE Proceed(w, mtx[w])
  <2>1. (\A k \in Prods : mtx[w].p[k] = Null) /\ (\A k \in Cats : mtx[w].c[k] = Null)
    BY NothingWritten DEF Validate
  <2>2. CASE RollBack(w)
    BY <2>2, RollBackStep
  <2>3. CASE ~RollBack(w)
    <3>1. cmd.kind = "update_product" => cmd.id \in Prods /\ SeesProd(w, cmd.id) # Null
      BY <1>1, <2>3, CommandFacts DEF Validate, ValidUpdateProductCommand
    <3>2. cmd.kind = "update_category" => cmd.id \in Cats /\ SeesCat(w, cmd.id) # Null
      BY <1>1, <2>3, CommandFacts DEF Validate, ValidUpdateCategoryCommand
    <3>3. /\ cmd.kind = "update_product" => prod[cmd.id] # Null
          /\ cmd.kind = "update_category" => cat[cmd.id] # Null
      BY <2>1, <3>1, <3>2 DEF SeesProd, SeesCat
    <3>4. cmd.kind = "skus" => \A i \in DOMAIN mtx[w].rows : prod[mtx[w].rows[i].id] # Null
      BY <1>1 DEF Staged
    <3> QED BY <1>1, <1>3, <3>3, <3>4, ReadStep
  <2> QED BY <2>2, <2>3
<1> QED BY <1>2, <1>3 DEF Validate

LEMMA LockTargetStep ==
    ASSUME MenuInv, NEW w \in Writers, LockTarget(w)
    PROVE  MenuInv'
<1> DEFINE t == mtx[w]
           k == t.cmd.id
           s == [t EXCEPT !.owned = @ \cup {k}]
<1>1. /\ TxTypes(t) /\ t \in Tx /\ t.todo # <<>> /\ t.todo[1] = "row" /\ "row" \in Plan(t.cmd.kind)
      /\ Linked(t, cat) /\ Staged(t, cat, prod) /\ t.cmd \in Commands \cup {NoCommand}
  BY AtFacts DEF LockTarget
<1>2. t.cmd.kind \in {"update_product", "update_category"}
  BY <1>1 DEF Plan
<1>3. /\ t.cmd.kind = "update_product" => k \in Prods /\ prod[k] # Null
      /\ t.cmd.kind = "update_category" => k \in Cats /\ cat[k] # Null
  BY <1>1, CommandFacts DEF Staged, Checking, First
<1>4. k \in Cats \cup Prods
  BY <1>2, <1>3
<1>5. /\ s \in Tx /\ s.todo = t.todo /\ s.cmd = t.cmd /\ s.owned = t.owned \cup {k} /\ s.p = t.p
      /\ s.c = t.c /\ s.rows = t.rows /\ s.found = t.found /\ s.link = t.link
  BY <1>1, <1>4 DEF Tx
<1>6. Proceed(w, s) /\ \A v \in Writers \ {w} : k \notin mtx[v].owned
  BY DEF LockTarget, OwnedByOthers
<1> HIDE DEF s
<1>7. TxTypes(s) /\ Linked(s, cat)
  BY <1>1, <1>5 DEF TxTypes, Linked
<1>8. (k \in Prods => prod[k] # Null) /\ (k \in Cats => cat[k] # Null)
  BY <1>2, <1>3, MenuAssumption
<1> QED BY <1>1, <1>2, <1>5, <1>6, <1>7, <1>8, ReadStep

LEMMA FindCategoryStep ==
    ASSUME MenuInv, NEW w \in Writers, FindCategory(w)
    PROVE  MenuInv'
<1> DEFINE t == mtx[w]
           found == CatsNamed(w, t.cmd.cat)
           s == [t EXCEPT !.found = found]
<1>1. /\ TxTypes(t) /\ t \in Tx /\ t.todo # <<>> /\ t.todo[1] = "find" /\ "find" \in Plan(t.cmd.kind)
      /\ Linked(t, cat) /\ t.cmd \in Commands \cup {NoCommand}
  BY AtFacts DEF FindCategory
<1>2. t.cmd.kind \notin {"import", "skus"}
  BY <1>1 DEF Plan
<1>3. found \subseteq Cats
  BY DEF CatsNamed
<1>4. /\ s \in Tx /\ s.todo = t.todo /\ s.cmd = t.cmd /\ s.owned = t.owned /\ s.p = t.p
      /\ s.c = t.c /\ s.rows = t.rows /\ s.found = found /\ s.link = t.link
  BY <1>1, <1>3 DEF Tx
<1>5. Proceed(w, s)
  BY DEF FindCategory
<1> HIDE DEF s, found
<1>6. TxTypes(s) /\ Linked(s, cat)
  BY <1>1, <1>2, <1>3, <1>4 DEF TxTypes, Linked
<1> QED BY <1>1, <1>2, <1>4, <1>5, <1>6, ReadStep

LEMMA LockCategoryStep ==
    ASSUME MenuInv, NEW w \in Writers, LockCategory(w)
    PROVE  MenuInv'
<1> DEFINE t == mtx[w]
           still == t.found \cap CatsNamed(w, t.cmd.cat)
<1>1. /\ TxTypes(t) /\ t \in Tx /\ t.todo # <<>> /\ t.todo[1] = "lock" /\ "lock" \in Plan(t.cmd.kind)
      /\ Linked(t, cat) /\ t.cmd \in Commands \cup {NoCommand}
  BY AtFacts DEF LockCategory
<1>2. t.cmd.kind \notin {"import", "skus"}
  BY <1>1 DEF Plan
<1>3. CASE RollBack(w)
  BY <1>3, RollBackStep
<1>4. CASE ~RollBack(w)
  <2>1. PICK k \in still :
           Proceed(w, [t EXCEPT !.found = {}, !.link = k, !.owned = @ \cup {k}])
    BY <1>4 DEF LockCategory
  <2>2. Cardinality(still) = 1 /\ still # {t.cmd.id}
    BY <1>4 DEF LockCategory
  <2>3. k \in Cats /\ k \in t.found /\ SeesCat(w, k) # Null /\ SeesCat(w, k).name = t.cmd.cat
    BY <2>1 DEF CatsNamed
  <2>4. IsFiniteSet(still)
    <3>1. still \subseteq Cats
      BY DEF CatsNamed
    <3> QED BY <3>1, FS_Subset, MenuAssumption
  <2>5. PICK x : still = {x}
    BY <2>2, <2>4, FS_Singleton
  <2>6. k # t.cmd.id
    BY <2>1, <2>2, <2>5
  <2>7. cat[k] # Null /\ cat[k].name = t.cmd.cat
    <3>1. mtx[w].c[k] = Null
      BY <2>3, NothingWritten DEF LockCategory
    <3> QED BY <2>3, <3>1 DEF SeesCat
  <2>8. \A v \in Writers \ {w} : k \notin mtx[v].owned
    BY <2>3 DEF LockCategory, OwnedByOthers
  <2>9. k \notin Prods
    BY <2>3, MenuAssumption
  <2> DEFINE s == [t EXCEPT !.found = {}, !.link = k, !.owned = @ \cup {k}]
  <2>10. /\ s \in Tx /\ s.todo = t.todo /\ s.cmd = t.cmd /\ s.owned = t.owned \cup {k} /\ s.p = t.p
         /\ s.c = t.c /\ s.rows = t.rows /\ s.found = {} /\ s.link = k
    BY <1>1, <2>3 DEF Tx
  <2>11. Proceed(w, s)
    BY <2>1
  <2> HIDE DEF s, still
  <2>12. TxTypes(s) /\ Linked(s, cat)
    BY <1>1, <2>6, <2>7, <2>10 DEF TxTypes, Linked
  <2> QED BY <1>1, <1>2, <2>7, <2>8, <2>9, <2>10, <2>11, <2>12, ReadStep
<1> QED BY <1>3, <1>4

LEMMA CheckNameStep ==
    ASSUME MenuInv, NEW w \in Writers, CheckName(w)
    PROVE  MenuInv'
<1>1. RollBack(w) \/ Proceed(w, mtx[w])
  BY DEF CheckName
<1> QED BY <1>1, RollBackStep, PassStep DEF CheckName, Statement

LEMMA CheckSkuStep ==
    ASSUME MenuInv, NEW w \in Writers, CheckSku(w)
    PROVE  MenuInv'
<1>1. RollBack(w) \/ Proceed(w, mtx[w])
  BY DEF CheckSku
<1> QED BY <1>1, RollBackStep, PassStep DEF CheckSku, Statement

---------------------------------------------------------------------------
(* The reads of a file and of the sku batch.                               *)
LEMMA InOrderFacts ==
    ASSUME NEW n \in Nat, NEW S \in SUBSET (1 .. n), NEW s \in InOrder(S)
    PROVE  /\ Cardinality(S) \in Nat /\ s \in [1 .. Cardinality(S) -> S]
           /\ DOMAIN s = 1 .. Cardinality(S)
<1>1. IsFiniteSet(1 .. n)
  BY FS_Interval
<1>2. IsFiniteSet(S)
  BY <1>1, FS_Subset
<1> QED BY <1>2, FS_CardinalityType DEF InOrder

(* New rows for a file or for the batch.                                   *)
LEMMA RowsStep ==
    ASSUME MenuInv, NEW w \in Writers, NEW x \in {"resolve", "dedupe", "targets"}, Current(w) = x,
           NEW n \in Nat, NEW rows \in [1 .. n -> IF x = "targets" THEN Target ELSE FileRow],
           x = "targets" => \A i \in 1 .. n : prod[rows[i].id] # Null,
           Proceed(w, [mtx[w] EXCEPT !.rows = rows])
    PROVE  MenuInv'
<1> DEFINE t == mtx[w]
           s == [t EXCEPT !.rows = rows]
<1>1. /\ TxTypes(t) /\ t \in Tx /\ t.todo # <<>> /\ t.todo[1] = x /\ x \in Plan(t.cmd.kind)
      /\ Linked(t, cat) /\ t.cmd \in Commands \cup {NoCommand}
  BY AtFacts
<1>2. t.cmd.kind = IF x = "targets" THEN "skus" ELSE "import"
  BY <1>1, CommandFacts DEF Plan, Kind
<1>3. rows \in Seq(FileRow \cup Target) /\ DOMAIN rows = 1 .. n
  OBVIOUS
<1>4. /\ s \in Tx /\ s.todo = t.todo /\ s.cmd = t.cmd /\ s.owned = t.owned /\ s.p = t.p
      /\ s.c = t.c /\ s.rows = rows /\ s.found = t.found /\ s.link = t.link
  BY <1>1, <1>3 DEF Tx
<1>5. Proceed(w, s)
  OBVIOUS
<1> HIDE DEF s
<1>6. \A i \in DOMAIN s.rows : s.rows[i] \in IF s.cmd.kind = "skus" THEN Target ELSE FileRow
  BY <1>2, <1>3, <1>4
<1>7. TxTypes(s) /\ Linked(s, cat)
  BY <1>1, <1>4, <1>6 DEF TxTypes, Linked
<1> QED BY <1>1, <1>2, <1>3, <1>4, <1>5, <1>7, ReadStep

LEMMA ResolveLinesStep ==
    ASSUME MenuInv, NEW w \in Writers, ResolveLines(w)
    PROVE  MenuInv'
<1> DEFINE lines == mtx[w].cmd.lines
           good == {i \in DOMAIN lines :
                      /\ lines[i].name # Null /\ lines[i].price # "invalid"
                      /\ lines[i].cat # Null => CatsNamed(w, lines[i].cat) # {}}
<1>1. mtx[w].cmd \in Commands \cup {NoCommand}
  BY AtFacts DEF ResolveLines
<1>2. lines \in Seq(Line)
  BY <1>1, CommandFacts
<1>3. Len(lines) \in Nat /\ DOMAIN lines = 1 .. Len(lines) /\ \A i \in DOMAIN lines : lines[i] \in Line
  BY <1>2
<1>4. PICK index \in InOrder(good), pick \in [CatNames -> Cats \cup {Null}] :
         Proceed(w, [mtx[w] EXCEPT !.rows = [i \in DOMAIN index |->
            LET l == lines[index[i]]
            IN [name |-> l.name, cat |-> IF l.cat = Null THEN Null ELSE pick[l.cat],
                priced |-> l.price = "given"]]])
  BY DEF ResolveLines
<1>5. good \in SUBSET (1 .. Len(lines))
  BY <1>3
<1> DEFINE n == Cardinality(good)
           rows == [i \in DOMAIN index |->
                      LET l == lines[index[i]]
                      IN [name |-> l.name, cat |-> IF l.cat = Null THEN Null ELSE pick[l.cat],
                          priced |-> l.price = "given"]]
<1>6. n \in Nat /\ index \in [1 .. n -> good] /\ DOMAIN index = 1 .. n
  BY <1>3, <1>5, InOrderFacts
<1>7. ASSUME NEW i \in 1 .. n PROVE rows[i] \in FileRow
  <2>1. lines[index[i]] \in Line /\ lines[index[i]].name # Null
    BY <1>3, <1>6
  <2> QED BY <1>6, <2>1 DEF Line, FileRow
<1>8. rows \in [1 .. n -> FileRow]
  BY <1>6, <1>7
<1>9. Proceed(w, [mtx[w] EXCEPT !.rows = rows]) /\ Current(w) = "resolve"
  BY <1>4 DEF ResolveLines
<1> HIDE DEF rows, n
<1> QED BY <1>6, <1>8, <1>9, RowsStep

LEMMA DedupeLinesStep ==
    ASSUME MenuInv, NEW w \in Writers, DedupeLines(w)
    PROVE  MenuInv'
<1> DEFINE rows == mtx[w].rows
           Known(n) == {k \in Prods : prod[k] # Null /\ Norm[prod[k].name] = Norm[n]}
           kept == {i \in 1 .. Len(rows) :
                      /\ Cardinality(Known(rows[i].name)) <= 1
                      /\ \A j \in 1 .. (i - 1) : Norm[rows[j].name] # Norm[rows[i].name]}
<1>1. TxTypes(mtx[w]) /\ "dedupe" \in Plan(mtx[w].cmd.kind) /\ Current(w) = "dedupe"
  BY AtFacts DEF DedupeLines
<1>2. PICK index \in InOrder(kept) :
         Proceed(w, [mtx[w] EXCEPT !.rows = [i \in DOMAIN index |-> rows[index[i]]]])
  BY DEF DedupeLines
<1>3. kept \in SUBSET (1 .. Len(rows))
  OBVIOUS
<1> HIDE DEF kept
<1>4. mtx[w].cmd.kind # "skus"
  BY <1>1 DEF Plan
<1>5. Len(rows) \in Nat /\ DOMAIN rows = 1 .. Len(rows) /\ \A i \in DOMAIN rows : rows[i] \in FileRow
  BY <1>1, <1>4, TxFacts DEF TxTypes
<1> DEFINE n == Cardinality(kept)
           new == [i \in DOMAIN index |-> rows[index[i]]]
<1>6. n \in Nat /\ index \in [1 .. n -> kept] /\ DOMAIN index = 1 .. n
  BY <1>3, <1>5, InOrderFacts
<1>7. new \in [1 .. n -> FileRow]
  BY <1>3, <1>5, <1>6
<1>8. Proceed(w, [mtx[w] EXCEPT !.rows = new])
  BY <1>2
<1> HIDE DEF new, n
<1> QED BY <1>1, <1>6, <1>7, <1>8, RowsStep

LEMMA ReadTargetsStep ==
    ASSUME MenuInv, NEW w \in Writers, ReadTargets(w)
    PROVE  MenuInv'
<1> DEFINE S == {k \in Prods : prod[k] # Null /\ prod[k].sku = Null}
<1>1. PICK rows \in UNION {[1 .. n -> S] : n \in 0 .. Cardinality(Prods)} :
         Proceed(w, [mtx[w] EXCEPT
            !.rows = [i \in DOMAIN rows |-> [id |-> rows[i], name |-> prod[rows[i]].name]]])
  BY DEF ReadTargets
<1>2. PICK n \in 0 .. Cardinality(Prods) : rows \in [1 .. n -> S]
  BY <1>1
<1>3. n \in Nat
  OBVIOUS
<1> DEFINE new == [i \in DOMAIN rows |-> [id |-> rows[i], name |-> prod[rows[i]].name]]
<1>4. ASSUME NEW i \in 1 .. n PROVE new[i] \in Target /\ prod[new[i].id] # Null
  <2>1. rows[i] \in Prods /\ prod[rows[i]] # Null
    BY <1>2
  <2>2. prod[rows[i]] \in Product
    BY <2>1 DEF MenuInv, Tables
  <2>3. new[i] = [id |-> rows[i], name |-> prod[rows[i]].name]
    BY <1>2
  <2> QED BY <2>1, <2>2, <2>3 DEF Product, Target
<1>5. new \in [1 .. n -> Target]
  BY <1>2, <1>4
<1>6. Proceed(w, [mtx[w] EXCEPT !.rows = new]) /\ Current(w) = "targets"
  BY <1>1 DEF ReadTargets
<1> HIDE DEF new
<1> QED BY <1>3, <1>4, <1>5, <1>6, RowsStep

LEMMA ReadTakenStep ==
    ASSUME MenuInv, NEW w \in Writers, ReadTaken(w)
    PROVE  MenuInv'
<1> DEFINE t == mtx[w]
           new == {SkuOf(prod[k]) : k \in Prods} \ {Null}
           s == [t EXCEPT !.taken = new]
<1>1. /\ TxTypes(t) /\ t \in Tx /\ t.todo # <<>> /\ t.todo[1] = "taken"
      /\ Linked(t, cat) /\ Staged(t, cat, prod)
  BY AtFacts DEF ReadTaken
<1>2. new \subseteq SkuCodes
  BY DEF SkuOf, MenuInv, Tables, Product
<1>3. /\ s \in Tx /\ s.todo = t.todo /\ s.cmd = t.cmd /\ s.owned = t.owned /\ s.p = t.p
      /\ s.c = t.c /\ s.rows = t.rows /\ s.found = t.found /\ s.link = t.link
  BY <1>1, <1>2 DEF Tx
<1>4. Proceed(w, s)
  BY DEF ReadTaken
<1> HIDE DEF s
<1>5. TxTypes(s) /\ Linked(s, cat)
  BY <1>1, <1>3 DEF TxTypes, Linked
<1>6. s.cmd.kind = "skus" => \A i \in DOMAIN s.rows : prod[s.rows[i].id] # Null
  BY <1>1, <1>3 DEF Staged
<1> QED BY <1>1, <1>3, <1>4, <1>5, <1>6, ReadStep

LEMMA CheckForeignKeyStep ==
    ASSUME MenuInv, NEW w \in Writers, CheckForeignKey(w)
    PROVE  MenuInv'
<1> DEFINE t == mtx[w]
           s == [t EXCEPT !.shared = @ \cup {t.link}, !.link = Null]
<1>1. /\ TxTypes(t) /\ t \in Tx /\ t.todo # <<>> /\ t.todo[1] = "fk" /\ First(t, "fk")
      /\ Staged(t, cat, prod) /\ "fk" \in Plan(t.cmd.kind)
  BY AtFacts DEF CheckForeignKey
<1>2. t.link \in Cats
  BY <1>1, TxFacts DEF Staged
<1>3. /\ s \in Tx /\ s.todo = t.todo /\ s.cmd = t.cmd /\ s.owned = t.owned /\ s.p = t.p
      /\ s.c = t.c /\ s.rows = t.rows /\ s.found = t.found /\ s.link = Null
  BY <1>1, <1>2 DEF Tx
<1>4. Proceed(w, s)
  BY DEF CheckForeignKey
<1> HIDE DEF s
<1>5. TxTypes(s) /\ Linked(s, cat)
  BY <1>1, <1>3 DEF TxTypes, Linked
<1>6. s.cmd.kind # "skus"
  BY <1>1, <1>3 DEF Plan
<1> QED BY <1>1, <1>3, <1>4, <1>5, <1>6, ReadStep

---------------------------------------------------------------------------
(* A product's row is written: what the write must respect.                *)
Others(w) == Writers \ {w}

LEMMA SkuFree ==
    ASSUME MenuInv, NEW w \in Writers, NEW k \in Prods, NEW sku \in SkuCodes,
           \A v \in Others(w) : mtx[v].p[k] = Null,
           sku # SkuOf(SeesProd(w, k)) => SkuInFlight(w, sku) = {},
           \A j \in Prods \ {k} : SkuOf(SeesProd(w, j)) # sku,
           NEW v \in Others(w), NEW j \in Prods \ {k}, mtx[v].p[j] # Null
    PROVE  mtx[v].p[j].sku # sku
<1>1. CASE sku # SkuOf(SeesProd(w, k))
  BY <1>1 DEF SkuInFlight, SkuOf, Others
<1>2. CASE sku = SkuOf(SeesProd(w, k)) /\ mtx[v].p[j].sku = sku
  <2>1. Distinct(mtx[v], prod)
    BY DEF MenuInv, TxInv, Others
  <2>2. SkuSeen(mtx[v], prod, j) = sku /\ SkuSeen(mtx[v], prod, k) = SkuOf(prod[k])
    BY <1>2 DEF SkuSeen, SkuOf
  <2>3. SkuOf(prod[k]) # sku
    BY <2>1, <2>2, NullFacts DEF Distinct
  <2>4. mtx[w].p[k] # Null /\ mtx[w].p[k].sku = sku
    BY <1>2, <2>3 DEF SeesProd, SkuOf
  <2>5. Apart(mtx[w], mtx[v])
    BY DEF MenuInv, Others
  <2> QED BY <1>2, <2>4, <2>5, NullFacts DEF Apart
<1> QED BY <1>1, <1>2

(* Nobody else writes a row that is there and that nobody else has locked. *)
LEMMA OthersKeepOff ==
    ASSUME MenuInv, NEW w \in Writers, NEW k \in Prods,
           \A v \in Others(w) : k \notin mtx[v].owned,
           prod[k] # Null \/ mtx[w].p[k] # Null
    PROVE  \A v \in Others(w) : mtx[v].p[k] = Null
<1> SUFFICES ASSUME NEW v \in Others(w), mtx[v].p[k] # Null PROVE FALSE
  OBVIOUS
<1>1. Covered(mtx[v], cat, prod) /\ Apart(mtx[w], mtx[v])
  BY DEF MenuInv, TxInv, Others
<1> QED BY <1>1 DEF Covered, Apart

LEMMA FreeFacts ==
    ASSUME MenuInv, NEW v \in Writers
    PROVE  /\ \A k \in FreeProducts : k \in Prods /\ prod[k] = Null /\ mtx[v].p[k] = Null /\ k \notin mtx[v].owned
           /\ \A k \in FreeCategories : k \in Cats /\ cat[k] = Null /\ mtx[v].c[k] = Null /\ k \notin mtx[v].owned
<1>1. Held(mtx[v], cat, prod)
  BY DEF MenuInv, TxInv
<1> QED BY <1>1 DEF Held, FreeProducts, FreeCategories

LEMMA WriteFacts ==
    ASSUME MenuInv, NEW w \in Writers, NEW s, NEW k \in Prods, NEW new \in Product,
           s.p = [mtx[w].p EXCEPT ![k] = new], s.c = mtx[w].c,
           mtx[w].owned \subseteq s.owned, s.owned \subseteq mtx[w].owned \cup {k},
           prod[k] = Null \/ k \in s.owned,
           \A v \in Others(w) : k \notin mtx[v].owned /\ mtx[v].p[k] = Null,
           \/ new.sku = Null
           \/ /\ \A j \in Prods \ {k} : SkuOf(SeesProd(w, j)) # new.sku
              /\ \A v \in Others(w), j \in Prods \ {k} : mtx[v].p[j] # Null => mtx[v].p[j].sku # new.sku
    PROVE  /\ Held(s, cat, prod) /\ Covered(s, cat, prod) /\ Distinct(s, prod)
           /\ \A v \in Writers \ {w} : Apart(s, mtx[v])
<1> DEFINE t == mtx[w]
<1>1. TxInv(t, cat, prod)
  BY DEF MenuInv
<1>2. Held(t, cat, prod) /\ Covered(t, cat, prod) /\ Distinct(t, prod) /\ TxTypes(t)
  BY <1>1 DEF TxInv
<1>3. new # Null
  BY NullFacts
<1>4. \A j \in Prods : s.p[j] = IF j = k THEN new ELSE t.p[j]
  BY <1>2, TxFacts
<1>5. k \notin Cats
  BY MenuAssumption
<1>6. Held(s, cat, prod)
  BY <1>2, <1>3, <1>4, <1>5 DEF Held
<1>7. Covered(s, cat, prod)
  BY <1>2, <1>4 DEF Covered
<1>8. SkuSeen(s, prod, k) = new.sku /\ \A j \in Prods \ {k} : SkuSeen(s, prod, j) = SkuSeen(t, prod, j)
  BY <1>3, <1>4 DEF SkuSeen, SkuOf
<1>9. \A j \in Prods : SkuSeen(t, prod, j) = SkuOf(SeesProd(w, j))
  BY DEF SkuSeen, SeesProd
<1>10. Distinct(s, prod)
  BY <1>2, <1>8, <1>9 DEF Distinct
<1>11. ASSUME NEW v \in Writers \ {w} PROVE Apart(s, mtx[v])
  <2>1. Apart(t, mtx[v]) /\ v \in Others(w)
    BY DEF MenuInv, Others
  <2>2. s.owned \cap mtx[v].owned = {}
    BY <2>1 DEF Apart
  <2>3. /\ \A j \in Prods : s.p[j] = Null \/ mtx[v].p[j] = Null
        /\ \A j \in Cats : s.c[j] = Null \/ mtx[v].c[j] = Null
    BY <1>4, <2>1 DEF Apart
  <2>4. ASSUME NEW i \in Prods, NEW j \in Prods, s.p[i] # Null, mtx[v].p[j] # Null
        PROVE  s.p[i].sku = Null \/ s.p[i].sku # mtx[v].p[j].sku
    <3>1. CASE i = k
      <4>1. j # k
        BY <2>1, <2>4
      <4> QED BY <1>4, <2>1, <2>4, <3>1, <4>1
    <3>2. CASE i # k
      BY <1>4, <2>1, <2>4, <3>2 DEF Apart
    <3> QED BY <3>1, <3>2
  <2> QED BY <2>2, <2>3, <2>4 DEF Apart
<1> QED BY <1>6, <1>7, <1>10, <1>11

(* What the unique index lets through.                                     *)
LEMMA SetSkuFacts ==
    ASSUME MenuInv, NEW w \in Writers, NEW k \in Prods, NEW sku \in SkuCodes \cup {Null}, NEW t,
           SetSku(w, k, sku, t), ~RollBack(w),
           \A v \in Others(w) : mtx[v].p[k] = Null
    PROVE  /\ Proceed(w, t)
           /\ \/ sku = Null
              \/ /\ \A j \in Prods \ {k} : SkuOf(SeesProd(w, j)) # sku
                 /\ \A v \in Others(w), j \in Prods \ {k} : mtx[v].p[j] # Null => mtx[v].p[j].sku # sku
<1>1. Proceed(w, t)
  BY DEF SetSku
<1>2. CASE sku # Null
  <2>1. \A j \in Prods \ {k} : SkuOf(SeesProd(w, j)) # sku
    BY <1>2 DEF SetSku
  <2>2. sku # SkuOf(SeesProd(w, k)) => SkuInFlight(w, sku) = {}
    BY <1>2 DEF SetSku
  <2>3. \A v \in Others(w), j \in Prods \ {k} : mtx[v].p[j] # Null => mtx[v].p[j].sku # sku
    BY <1>2, <2>1, <2>2, SkuFree
  <2> QED BY <1>1, <2>1, <2>3
<1> QED BY <1>1, <1>2

---------------------------------------------------------------------------
(* The write of a command.                                                 *)
LEMMA InsertProductStep ==
    ASSUME MenuInv, NEW w \in Writers, InsertProduct(w)
    PROVE  MenuInv'
<1> DEFINE t == mtx[w]
           new == [name |-> t.cmd.name, cat |-> t.link, priced |-> TRUE, active |-> TRUE, sku |-> Null]
<1>1. /\ TxInv(t, cat, prod) /\ TxTypes(t) /\ t \in Tx /\ t.todo # <<>> /\ t.todo[1] = "insert"
      /\ Linked(t, cat) /\ t.cmd \in Commands \cup {NoCommand}
  BY AtFacts DEF InsertProduct
<1>2. PICK k \in FreeProducts : Proceed(w, [t EXCEPT !.p[k] = new])
  BY DEF InsertProduct
<1>3. t.cmd.kind = "create_product" /\ t.cmd.name \in ProdNames /\ t.link \in Cats \cup {Null}
  BY <1>1, CommandFacts, TxFacts DEF InsertProduct
<1>4. new \in Product /\ new.sku = Null
  BY <1>3 DEF Product
<1>5. /\ k \in Prods /\ prod[k] = Null
      /\ \A v \in Others(w) : mtx[v].p[k] = Null /\ k \notin mtx[v].owned
  BY <1>2, FreeFacts DEF Others
<1> DEFINE s == [t EXCEPT !.p[k] = new]
<1> HIDE DEF new
<1>6. /\ s \in Tx /\ s.todo = t.todo /\ s.cmd = t.cmd /\ s.owned = t.owned /\ s.c = t.c
      /\ s.p = [t.p EXCEPT ![k] = new] /\ s.rows = t.rows /\ s.found = t.found /\ s.link = t.link
  BY <1>1, <1>4, <1>5 DEF Tx
<1>7. Proceed(w, s)
  BY <1>2
<1> HIDE DEF s
<1>8. TxTypes(s) /\ Linked(s, cat)
  BY <1>1, <1>6 DEF TxTypes, Linked
<1>9. /\ Held(s, cat, prod) /\ Covered(s, cat, prod) /\ Distinct(s, prod)
      /\ \A v \in Writers \ {w} : Apart(s, mtx[v])
  <2>1. mtx[w].owned \subseteq s.owned /\ s.owned \subseteq mtx[w].owned \cup {k}
    BY <1>6
  <2>2. s.p = [mtx[w].p EXCEPT ![k] = new] /\ s.c = mtx[w].c
    BY <1>6
  <2> QED BY <1>4, <1>5, <2>1, <2>2, WriteFacts
<1>10. \A j \in Prods : t.p[j] = Null
  BY NothingWritten DEF InsertProduct
<1>11. \A j \in Prods : s.p[j] = IF j = k THEN new ELSE t.p[j]
  BY <1>1, <1>6, TxFacts
<1>12. Keeps(s, prod)
  BY <1>5, <1>10, <1>11 DEF Keeps
<1> QED BY <1>1, <1>3, <1>6, <1>7, <1>8, <1>9, <1>12, Advance

(* A category's row is written.                                            *)
LEMMA WriteCategory ==
    ASSUME MenuInv, NEW w \in Writers, NEW k \in Cats, NEW new \in Category,
           Proceed(w, [mtx[w] EXCEPT !.c[k] = new]),
           Current(w) \in {"insert", "update"}, mtx[w].cmd.kind \in {"create_category", "update_category"},
           cat[k] = Null \/ k \in mtx[w].owned,
           \A v \in Others(w) : mtx[v].c[k] = Null
    PROVE  MenuInv'
<1> DEFINE t == mtx[w]
           s == [t EXCEPT !.c[k] = new]
<1>1. /\ TxInv(t, cat, prod) /\ TxTypes(t) /\ t \in Tx /\ t.todo # <<>>
      /\ t.todo[1] \in {"insert", "update"} /\ Linked(t, cat)
  BY AtFacts
<1>2. /\ s \in Tx /\ s.todo = t.todo /\ s.cmd = t.cmd /\ s.owned = t.owned /\ s.p = t.p
      /\ s.c = [t.c EXCEPT ![k] = new] /\ s.rows = t.rows /\ s.found = t.found /\ s.link = t.link
  BY <1>1 DEF Tx
<1>3. Proceed(w, s)
  OBVIOUS
<1> HIDE DEF s
<1>4. TxTypes(s) /\ Linked(s, cat)
  BY <1>1, <1>2 DEF TxTypes, Linked
<1>5. \A j \in Cats : s.c[j] = IF j = k THEN new ELSE t.c[j]
  BY <1>1, <1>2, TxFacts
<1>6. new # Null
  BY NullFacts
<1>7. Held(t, cat, prod) /\ Covered(t, cat, prod) /\ Distinct(t, prod) /\ Keeps(t, prod)
  BY <1>1 DEF TxInv
<1>8. Held(s, cat, prod) /\ Covered(s, cat, prod)
  BY <1>2, <1>5, <1>6, <1>7 DEF Held, Covered
<1>9. Keeps(s, prod) /\ Distinct(s, prod)
  <2>1. Keeps(s, prod)
    BY <1>2, <1>7 DEF Keeps
  <2>2. Distinct(s, prod)
    BY <1>2, <1>7 DEF Distinct, SkuSeen
  <2> QED BY <2>1, <2>2
<1>10. ASSUME NEW v \in Writers \ {w} PROVE Apart(s, mtx[v])
  <2>1. Apart(t, mtx[v]) /\ v \in Others(w)
    BY DEF MenuInv, Others
  <2> QED BY <1>2, <1>5, <2>1 DEF Apart
<1> QED BY <1>1, <1>2, <1>3, <1>4, <1>8, <1>9, <1>10, Advance

LEMMA InsertCategoryStep ==
    ASSUME MenuInv, NEW w \in Writers, InsertCategory(w)
    PROVE  MenuInv'
<1> DEFINE t == mtx[w]
           new == [name |-> t.cmd.name, parent |-> t.link]
<1>1. TxTypes(t) /\ t.cmd \in Commands \cup {NoCommand}
  BY AtFacts DEF InsertCategory
<1>2. PICK k \in FreeCategories : Proceed(w, [t EXCEPT !.c[k] = new])
  BY DEF InsertCategory
<1>3. t.cmd.kind = "create_category" /\ t.cmd.name \in CatNames /\ t.link \in Cats \cup {Null}
  BY <1>1, CommandFacts, TxFacts DEF InsertCategory
<1>4. new \in Category
  BY <1>3 DEF Category
<1>5. k \in Cats /\ cat[k] = Null /\ \A v \in Others(w) : mtx[v].c[k] = Null
  BY <1>2, FreeFacts DEF Others
<1> HIDE DEF new
<1> QED BY <1>2, <1>3, <1>4, <1>5, WriteCategory DEF InsertCategory

(* An update owns its row.                                                 *)
LEMMA UpdateOwns ==
    ASSUME MenuInv, NEW w \in Writers, Current(w) = "update"
    PROVE  /\ mtx[w].cmd.kind = "update_product" =>
                 mtx[w].cmd.id \in Prods \cap mtx[w].owned /\ prod[mtx[w].cmd.id] \in Product
           /\ mtx[w].cmd.kind = "update_category" =>
                 mtx[w].cmd.id \in Cats \cap mtx[w].owned /\ cat[mtx[w].cmd.id] \in Category
           /\ \A v \in Others(w) : mtx[w].owned \cap mtx[v].owned = {}
<1>1. /\ TxTypes(mtx[w]) /\ mtx[w].todo # <<>> /\ mtx[w].todo[1] = "update"
      /\ Staged(mtx[w], cat, prod) /\ mtx[w].cmd \in Commands \cup {NoCommand}
  BY AtFacts
<1>2. /\ mtx[w].cmd.kind = "update_product" => mtx[w].cmd.id \in Prods
      /\ mtx[w].cmd.kind = "update_category" => mtx[w].cmd.id \in Cats
  BY <1>1, CommandFacts
<1>3. /\ mtx[w].cmd.kind = "update_product" =>
            mtx[w].cmd.id \in mtx[w].owned /\ prod[mtx[w].cmd.id] # Null
      /\ mtx[w].cmd.kind = "update_category" =>
            mtx[w].cmd.id \in mtx[w].owned /\ cat[mtx[w].cmd.id] # Null
  BY <1>1 DEF Staged, Checking, First
<1>4. \A v \in Others(w) : mtx[w].owned \cap mtx[v].owned = {}
  BY DEF MenuInv, Apart, Others
<1> QED BY <1>2, <1>3, <1>4 DEF MenuInv, Tables

LEMMA UpdateCategoryRowStep ==
    ASSUME MenuInv, NEW w \in Writers, UpdateCategoryRow(w)
    PROVE  MenuInv'
<1> DEFINE t == mtx[w]
           k == t.cmd.id
           new == [name |-> Coalesce(t.cmd.name, cat[k].name),
                   parent |-> Coalesce(t.link, cat[k].parent)]
<1>1. TxTypes(t) /\ t.cmd \in Commands \cup {NoCommand} /\ t.cmd.kind = "update_category"
  BY AtFacts DEF UpdateCategoryRow
<1>2. t.cmd.name \in CatNames \cup {Null} /\ t.link \in Cats \cup {Null}
  BY <1>1, CommandFacts, TxFacts
<1>3. /\ k \in Cats \cap t.owned /\ cat[k] \in Category
      /\ \A v \in Others(w) : t.owned \cap mtx[v].owned = {}
  BY <1>1, UpdateOwns DEF UpdateCategoryRow
<1>4. new \in Category
  BY <1>2, <1>3 DEF Category, Coalesce
<1>5. ASSUME NEW v \in Others(w) PROVE mtx[v].c[k] = Null
  <2>1. Covered(mtx[v], cat, prod)
    BY DEF MenuInv, TxInv, Others
  <2> QED BY <1>3, <2>1, NullFacts DEF Covered
<1>6. Proceed(w, [t EXCEPT !.c[k] = new])
  BY DEF UpdateCategoryRow
<1> HIDE DEF new
<1> QED BY <1>1, <1>3, <1>4, <1>5, <1>6, WriteCategory DEF UpdateCategoryRow

LEMMA UpdateProductRowStep ==
    ASSUME MenuInv, NEW w \in Writers, UpdateProductRow(w)
    PROVE  MenuInv'
<1> DEFINE t == mtx[w]
           k == t.cmd.id
           new == [name |-> Coalesce(t.cmd.name, prod[k].name),
                   cat |-> Coalesce(t.link, prod[k].cat),
                   priced |-> Coalesce(t.cmd.priced, prod[k].priced),
                   active |-> Coalesce(t.cmd.active, prod[k].active),
                   sku |-> Coalesce(t.cmd.sku, prod[k].sku)]
           s == [t EXCEPT !.p[k] = new]
<1>1. /\ TxInv(t, cat, prod) /\ TxTypes(t) /\ t \in Tx /\ t.todo # <<>> /\ t.todo[1] = "update"
      /\ Linked(t, cat) /\ t.cmd \in Commands \cup {NoCommand} /\ t.cmd.kind = "update_product"
  BY AtFacts DEF UpdateProductRow
<1>2. CASE RollBack(w)
  BY <1>2, RollBackStep
<1>3. CASE ~RollBack(w)
  <2>1. /\ t.cmd.name \in ProdNames \cup {Null} /\ t.cmd.priced \in {TRUE, Null}
        /\ t.cmd.active \in BOOLEAN \cup {Null} /\ t.cmd.sku \in SkuCodes \cup {Null}
        /\ t.link \in Cats \cup {Null}
    BY <1>1, CommandFacts, TxFacts
  <2>2. /\ k \in Prods \cap t.owned /\ prod[k] \in Product
        /\ \A v \in Others(w) : t.owned \cap mtx[v].owned = {}
    BY <1>1, UpdateOwns DEF UpdateProductRow
  <2>3. prod[k] # Null /\ \A v \in Others(w) : k \notin mtx[v].owned
    BY <2>2, NullFacts
  <2>4. \A v \in Others(w) : mtx[v].p[k] = Null
    BY <2>2, <2>3, OthersKeepOff
  <2>5. /\ new \in Product /\ new.sku \in SkuCodes \cup {Null}
        /\ t.cmd.name = Null => new.name = prod[k].name
        /\ t.link = Null => new.cat = prod[k].cat
        /\ t.cmd.priced = Null => new.priced = prod[k].priced
        /\ t.cmd.active = Null => new.active = prod[k].active
        /\ t.cmd.sku = Null => new.sku = prod[k].sku
    BY <2>1, <2>2 DEF Product, Coalesce
  <2>6. SetSku(w, k, new.sku, s)
    BY DEF UpdateProductRow
  <2> HIDE DEF new
  <2>7. /\ s \in Tx /\ s.todo = t.todo /\ s.cmd = t.cmd /\ s.owned = t.owned /\ s.c = t.c
        /\ s.p = [t.p EXCEPT ![k] = new] /\ s.rows = t.rows /\ s.found = t.found /\ s.link = t.link
    BY <1>1, <2>2, <2>5 DEF Tx
  <2> HIDE DEF s
  <2>8. /\ Proceed(w, s)
        /\ \/ new.sku = Null
           \/ /\ \A j \in Prods \ {k} : SkuOf(SeesProd(w, j)) # new.sku
              /\ \A v \in Others(w), j \in Prods \ {k} : mtx[v].p[j] # Null => mtx[v].p[j].sku # new.sku
    BY <1>3, <2>2, <2>4, <2>5, <2>6, SetSkuFacts
  <2>9. /\ Held(s, cat, prod) /\ Covered(s, cat, prod) /\ Distinct(s, prod)
        /\ \A v \in Writers \ {w} : Apart(s, mtx[v])
    <3>1. mtx[w].owned \subseteq s.owned /\ s.owned \subseteq mtx[w].owned \cup {k} /\ k \in s.owned
      BY <2>2, <2>7
    <3>2. s.p = [mtx[w].p EXCEPT ![k] = new] /\ s.c = mtx[w].c /\ k \in Prods /\ new \in Product
      BY <2>2, <2>5, <2>7
    <3>3. \/ new.sku = Null
          \/ /\ \A j \in Prods \ {k} : SkuOf(SeesProd(w, j)) # new.sku
             /\ \A v \in Others(w), j \in Prods \ {k} : mtx[v].p[j] # Null => mtx[v].p[j].sku # new.sku
      BY <2>8
    <3>4. \A v \in Others(w) : k \notin mtx[v].owned /\ mtx[v].p[k] = Null
      BY <2>3, <2>4
    <3> HIDE DEF k
    <3> QED BY <3>1, <3>2, <3>3, <3>4, WriteFacts
  <2>10. TxTypes(s) /\ Linked(s, cat)
    BY <1>1, <2>7 DEF TxTypes, Linked
  <2>11. \A j \in Prods : t.p[j] = Null
    BY NothingWritten DEF UpdateProductRow
  <2>12. \A j \in Prods : s.p[j] = IF j = k THEN new ELSE t.p[j]
    BY <1>1, <2>7, TxFacts
  <2>13. t.cmd.cat = Null => t.link = Null
    <3> SUFFICES ASSUME t.cmd.cat = Null, t.link # Null PROVE FALSE
      OBVIOUS
    <3>1. cat[t.link] # Null /\ cat[t.link].name = Null /\ t.link \in Cats
      BY <1>1, <2>1 DEF Linked
    <3>2. cat[t.link] \in Category
      BY <3>1 DEF MenuInv, Tables
    <3> QED BY <3>1, <3>2, NullFacts DEF Category
  <2>14. Keeps(s, prod)
    BY <1>1, <2>5, <2>7, <2>11, <2>12, <2>13 DEF Keeps
  <2> QED BY <1>1, <2>7, <2>8, <2>9, <2>10, <2>14, Advance
<1> QED BY <1>2, <1>3

---------------------------------------------------------------------------
(* The lines of a file.                                                    *)
LEMMA FileOrder ==
    ASSUME NEW s \in Seq(Statement), \A i \in DOMAIN s : s[i] \in Plan("import"),
           \A i \in DOMAIN s : i # 1 => s[i] \notin {"add", "overwrite", "fk"}
    PROVE  Ordered(s)
  BY DEF Ordered, Plan

(* A step of an import or of the batch that leaves the statements rs.      *)
LEMMA LineStep ==
    ASSUME MenuInv, NEW w \in Writers, NEW s, mtx' = [mtx EXCEPT ![w] = s], UNCHANGED <<cat, prod, sent>>,
           TxTypes(s), Ordered(s.todo), s.cmd = mtx[w].cmd, s.cmd.kind \in {"import", "skus"},
           Linked(s, cat),
           Held(s, cat, prod), Covered(s, cat, prod), Keeps(s, prod), Distinct(s, prod),
           \A v \in Writers \ {w} : Apart(s, mtx[v]),
           First(s, "add") => s.rows # <<>>,
           First(s, "overwrite") => s.rows # <<>> /\ \A k \in s.found : prod[k] # Null \/ s.p[k] # Null,
           First(s, "fk") => s.link # Null,
           s.cmd.kind = "skus" => \A i \in DOMAIN s.rows : prod[s.rows[i].id] # Null
    PROVE  MenuInv'
<1>1. WritesLast(s)
  BY DEF WritesLast
<1>2. Staged(s, cat, prod)
  BY DEF Staged
<1>3. TxInv(s, cat, prod)
  BY <1>1, <1>2 DEF TxInv
<1> QED BY <1>3, TxStep DEF MenuInv, Tables

(* The same rows locked and written as before.                             *)
LEMMA SameRows ==
    ASSUME MenuInv, NEW w \in Writers, NEW s, s.cmd = mtx[w].cmd, s.owned = mtx[w].owned,
           s.p = mtx[w].p, s.c = mtx[w].c
    PROVE  /\ Held(s, cat, prod) /\ Covered(s, cat, prod) /\ Keeps(s, prod) /\ Distinct(s, prod)
           /\ \A v \in Writers \ {w} : Apart(s, mtx[v])
<1>1. /\ Held(mtx[w], cat, prod) /\ Covered(mtx[w], cat, prod) /\ Keeps(mtx[w], prod)
      /\ Distinct(mtx[w], prod) /\ \A v \in Writers \ {w} : Apart(mtx[w], mtx[v])
  BY DEF MenuInv, TxInv
<1>2. Held(s, cat, prod) /\ Covered(s, cat, prod)
  BY <1>1 DEF Held, Covered
<1>3. Keeps(s, prod)
  BY <1>1 DEF Keeps
<1>4. Distinct(s, prod)
  BY <1>1 DEF Distinct, SkuSeen
<1>5. \A v \in Writers \ {w} : Apart(s, mtx[v])
  BY <1>1 DEF Apart
<1> QED BY <1>2, <1>3, <1>4, <1>5

LEMMA FindLineStep ==
    ASSUME MenuInv, NEW w \in Writers, FindLine(w)
    PROVE  MenuInv'
<1> DEFINE t == mtx[w]
           ids == ProdsNamed(w, Head(t.rows).name)
<1>1. /\ TxInv(t, cat, prod) /\ TxTypes(t) /\ t \in Tx /\ t.todo # <<>> /\ t.todo[1] = "lines"
      /\ "lines" \in Plan(t.cmd.kind) /\ t.cmd \in Commands \cup {NoCommand} /\ Staged(t, cat, prod)
  BY AtFacts DEF FindLine
<1>2. t.cmd.kind = "import"
  BY <1>1, CommandFacts DEF Plan, Kind
<1>3. CASE t.rows = <<>>
  <2>1. Proceed(w, t) /\ Current(w) = "lines"
    BY <1>3 DEF FindLine
  <2> QED BY <2>1, PassStep DEF Statement
<1>4. CASE t.rows # <<>>
  <2>0. t.todo \in Seq(Statement) /\ t.rows \in Seq(FileRow \cup Target)
    BY <1>1, TxFacts
  <2>1. PICK x \in {"add", "overwrite", "none"} :
           LET write == IF x = "none" THEN <<>> ELSE <<x>>
           IN mtx' = [mtx EXCEPT ![w] = [t EXCEPT
                        !.todo = write \o @, !.found = IF write = <<>> THEN {} ELSE ids,
                        !.rows = IF write = <<>> THEN Tail(@) ELSE @]]
    <3>1. CASE ids = {}
      BY <1>4, <3>1 DEF FindLine
    <3>2. CASE ids # {} /\ Cardinality(ids) = 1
      BY <1>4, <3>2 DEF FindLine
    <3>3. CASE ids # {} /\ Cardinality(ids) # 1
      BY <1>4, <3>3 DEF FindLine
    <3> QED BY <3>1, <3>2, <3>3
  <2>2. UNCHANGED <<cat, prod, sent>>
    BY <1>4 DEF FindLine
  <2>3. ids \subseteq Prods /\ \A k \in ids : prod[k] # Null \/ t.p[k] # Null
    BY DEF ProdsNamed, SeesProd
  <2> HIDE DEF ids
  <2>4. CASE x = "none"
    <3> DEFINE s == [t EXCEPT !.todo = <<>> \o @, !.found = {}, !.rows = Tail(@)]
    <3>1. mtx' = [mtx EXCEPT ![w] = s]
      BY <2>1, <2>4
    <3>2. <<>> \o t.todo = t.todo
      BY <2>0
    <3>3. /\ Tail(t.rows) \in Seq(FileRow \cup Target)
          /\ \A i \in DOMAIN Tail(t.rows) : i + 1 \in DOMAIN t.rows /\ Tail(t.rows)[i] = t.rows[i + 1]
      BY <1>4, <2>0, TailFacts
    <3>4. /\ s \in Tx /\ s.todo = t.todo /\ s.cmd = t.cmd /\ s.owned = t.owned /\ s.p = t.p
          /\ s.c = t.c /\ s.rows = Tail(t.rows) /\ s.found = {} /\ s.link = t.link
      BY <1>1, <3>2, <3>3 DEF Tx
    <3> HIDE DEF s
    <3>5. TxTypes(s)
      BY <1>1, <3>3, <3>4 DEF TxTypes
    <3>6. /\ Held(s, cat, prod) /\ Covered(s, cat, prod) /\ Keeps(s, prod) /\ Distinct(s, prod)
          /\ \A v \in Writers \ {w} : Apart(s, mtx[v])
      BY <3>4, SameRows
    <3>7. Ordered(s.todo) /\ ~First(s, "add") /\ ~First(s, "overwrite") /\ ~First(s, "fk")
      BY <1>1, <3>4 DEF TxInv, First
    <3>8. Linked(s, cat)
      BY <1>2, <3>4 DEF Linked
    <3> QED BY <1>2, <2>2, <3>1, <3>4, <3>5, <3>6, <3>7, <3>8, LineStep
  <2>5. CASE x # "none"
    <3> DEFINE s == [t EXCEPT !.todo = <<x>> \o @, !.found = ids, !.rows = @]
    <3>1. mtx' = [mtx EXCEPT ![w] = s]
      <4>1. <<x>> # <<>>
        OBVIOUS
      <4> QED BY <2>1, <2>5, <4>1
    <3>2. x \in Statement /\ x \in Plan("import")
      BY <2>5 DEF Statement, Plan
    <3>3. /\ <<x>> \in Seq(Statement) /\ Len(<<x>>) = 1 /\ <<x>>[1] = x /\ DOMAIN <<x>> = 1 .. 1
      BY <3>2
    <3>4. /\ <<x>> \o t.todo \in Seq(Statement) /\ Len(t.todo) \in Nat
          /\ DOMAIN t.todo = 1 .. Len(t.todo) /\ DOMAIN (<<x>> \o t.todo) = 1 .. (1 + Len(t.todo))
          /\ (<<x>> \o t.todo)[1] = x
          /\ \A i \in DOMAIN (<<x>> \o t.todo) : i # 1 =>
                i - 1 \in DOMAIN t.todo /\ (<<x>> \o t.todo)[i] = t.todo[i - 1]
      BY <2>0, <3>3, JoinFacts
    <3>5. /\ s \in Tx /\ s.todo = <<x>> \o t.todo /\ s.cmd = t.cmd /\ s.owned = t.owned /\ s.p = t.p
          /\ s.c = t.c /\ s.rows = t.rows /\ s.found = ids /\ s.link = t.link
      BY <1>1, <2>3, <3>4 DEF Tx
    <3> HIDE DEF s
    <3>6. \A i \in DOMAIN s.todo : s.todo[i] \in Plan("import")
      BY <1>1, <1>2, <3>2, <3>4, <3>5 DEF TxTypes
    <3>7. TxTypes(s)
      BY <1>1, <1>2, <2>3, <3>5, <3>6 DEF TxTypes
    <3>8. \A i \in DOMAIN s.todo : i # 1 => s.todo[i] \notin {"add", "overwrite", "fk"}
      BY <1>1, <3>4, <3>5 DEF TxInv, Ordered
    <3>9. Ordered(s.todo)
      BY <3>4, <3>5, <3>6, <3>8, FileOrder
    <3>10. /\ Held(s, cat, prod) /\ Covered(s, cat, prod) /\ Keeps(s, prod) /\ Distinct(s, prod)
           /\ \A v \in Writers \ {w} : Apart(s, mtx[v])
      BY <3>5, SameRows
    <3>11. ~First(s, "fk") /\ Linked(s, cat)
      BY <1>2, <3>4, <3>5 DEF First, Linked
    <3> QED BY <1>2, <1>4, <2>2, <2>3, <3>1, <3>5, <3>7, <3>9, <3>10, <3>11, LineStep
  <2> QED BY <2>4, <2>5
<1> QED BY <1>3, <1>4

LEMMA WriteLineStep ==
    ASSUME MenuInv, NEW w \in Writers, NEW k \in Prods, NEW new \in Product, NEW checked,
           Current(w) \in {"add", "overwrite"}, WriteLine(w, k, new, checked),
           \A v \in Others(w) : k \notin mtx[v].owned /\ mtx[v].p[k] = Null,
           \/ new.sku = Null
           \/ /\ \A j \in Prods \ {k} : SkuOf(SeesProd(w, j)) # new.sku
              /\ \A v \in Others(w), j \in Prods \ {k} : mtx[v].p[j] # Null => mtx[v].p[j].sku # new.sku,
           prod[k] # Null => new.name = prod[k].name /\ new.sku = prod[k].sku
    PROVE  MenuInv'
<1> DEFINE t == mtx[w]
<1>1. /\ TxInv(t, cat, prod) /\ TxTypes(t) /\ t \in Tx /\ t.todo # <<>>
      /\ t.todo[1] \in {"add", "overwrite"} /\ t.todo[1] \in Plan(t.cmd.kind)
      /\ First(t, t.todo[1]) /\ t.cmd \in Commands \cup {NoCommand} /\ Staged(t, cat, prod)
  BY AtFacts
<1>2. t.cmd.kind = "import"
  BY <1>1, CommandFacts DEF Plan, Kind
<1>3. t.rows # <<>>
  BY <1>1 DEF Staged
<1>4. t.todo \in Seq(Statement) /\ t.rows \in Seq(FileRow \cup Target)
  BY <1>1, TxFacts
<1>5. /\ Tail(t.rows) \in Seq(FileRow \cup Target)
      /\ \A i \in DOMAIN Tail(t.rows) : i + 1 \in DOMAIN t.rows /\ Tail(t.rows)[i] = t.rows[i + 1]
  BY <1>3, <1>4, TailFacts
<1>6. /\ Tail(t.todo) \in Seq(Statement)
      /\ \A i \in DOMAIN Tail(t.todo) :
            i \in Nat \ {0} /\ i + 1 \in DOMAIN t.todo /\ Tail(t.todo)[i] = t.todo[i + 1]
  BY <1>1, <1>4, TailFacts
<1>7. PICK fk \in {<<>>, <<"fk">>} :
         /\ fk # <<>> => new.cat # Null
         /\ mtx' = [mtx EXCEPT ![w] = [t EXCEPT
               !.todo = fk \o Tail(@), !.p[k] = new, !.owned = @ \cup {k}, !.found = {},
               !.link = IF fk = <<>> THEN Null ELSE new.cat, !.rows = Tail(@)]]
  <2>1. CASE checked \/ new.cat \in t.owned \cup t.shared \cup {Null}
    BY <2>1 DEF WriteLine
  <2>2. CASE ~(checked \/ new.cat \in t.owned \cup t.shared \cup {Null})
    BY <2>2 DEF WriteLine
  <2> QED BY <2>1, <2>2
<1>8. UNCHANGED <<cat, prod, sent>>
  BY DEF WriteLine
<1>9. new.cat \in Cats \cup {Null}
  BY DEF Product
<1> DEFINE todo == fk \o Tail(t.todo)
           link == IF fk = <<>> THEN Null ELSE new.cat
           s == [t EXCEPT !.todo = fk \o Tail(@), !.p[k] = new, !.owned = @ \cup {k}, !.found = {},
                          !.link = IF fk = <<>> THEN Null ELSE new.cat, !.rows = Tail(@)]
<1>10. /\ todo \in Seq(Statement)
       /\ \A i \in DOMAIN todo : todo[i] \in Plan("import")
       /\ \A i \in DOMAIN todo : i # 1 => todo[i] \notin {"add", "overwrite", "fk"}
       /\ todo # <<>> => todo[1] \notin {"add", "overwrite"}
       /\ fk = <<>> => (todo # <<>> => todo[1] # "fk")
  <2>1. \A i \in DOMAIN Tail(t.todo) : Tail(t.todo)[i] \in Plan("import")
    BY <1>1, <1>2, <1>6 DEF TxTypes
  <2>2. \A i \in DOMAIN Tail(t.todo) : Tail(t.todo)[i] \notin {"add", "overwrite", "fk"}
    BY <1>1, <1>6 DEF TxInv, Ordered
  <2>3. CASE fk = <<>>
    <3>1. todo = Tail(t.todo)
      BY <1>6, <2>3
    <3>2. Tail(t.todo) # <<>> => 1 \in DOMAIN Tail(t.todo)
      BY <1>6, TailFacts
    <3> QED BY <1>6, <2>1, <2>2, <3>1, <3>2
  <2>4. CASE fk = <<"fk">>
    <3>1. <<"fk">> \in Seq(Statement) /\ Len(<<"fk">>) = 1 /\ <<"fk">>[1] = "fk" /\ DOMAIN <<"fk">> = 1 .. 1
      BY DEF Statement
    <3>2. /\ todo \in Seq(Statement) /\ todo[1] = "fk"
          /\ \A i \in DOMAIN todo : i # 1 =>
                i - 1 \in DOMAIN Tail(t.todo) /\ todo[i] = Tail(t.todo)[i - 1]
      BY <1>6, <2>4, <3>1, JoinFacts
    <3>3. "fk" \in Plan("import") /\ fk # <<>>
      BY <2>4 DEF Plan
    <3> QED BY <2>1, <2>2, <3>2, <3>3
  <2> QED BY <2>3, <2>4
<1>11. link \in Cats \cup {Null} /\ (fk # <<>> => link # Null)
  BY <1>7, <1>9
<1>12. /\ s \in Tx /\ s.todo = todo /\ s.cmd = t.cmd /\ s.owned = t.owned \cup {k}
       /\ s.p = [t.p EXCEPT ![k] = new] /\ s.c = t.c /\ s.rows = Tail(t.rows) /\ s.found = {}
       /\ s.link = link
  BY <1>1, <1>5, <1>10, <1>11 DEF Tx
<1>13. mtx' = [mtx EXCEPT ![w] = s]
  BY <1>7
<1> HIDE DEF s, todo, link
<1>14. TxTypes(s) /\ Ordered(s.todo)
  <2>1. \A i \in DOMAIN s.rows : s.rows[i] \in FileRow
    BY <1>1, <1>2, <1>5, <1>12 DEF TxTypes
  <2> QED BY <1>1, <1>2, <1>10, <1>12, <2>1, FileOrder DEF TxTypes
<1>15. /\ Held(s, cat, prod) /\ Covered(s, cat, prod) /\ Distinct(s, prod)
       /\ \A v \in Writers \ {w} : Apart(s, mtx[v])
  <2>1. mtx[w].owned \subseteq s.owned /\ s.owned \subseteq mtx[w].owned \cup {k} /\ k \in s.owned
    BY <1>12
  <2>2. s.p = [mtx[w].p EXCEPT ![k] = new] /\ s.c = mtx[w].c
    BY <1>12
  <2> QED BY <2>1, <2>2, WriteFacts
<1>16. \A j \in Prods : s.p[j] = IF j = k THEN new ELSE t.p[j]
  BY <1>1, <1>12, TxFacts
<1>17. Keeps(s, prod)
  <2>1. Keeps(t, prod)
    BY <1>1 DEF TxInv
  <2> QED BY <1>2, <1>12, <1>16, <2>1 DEF Keeps
<1>18. /\ ~First(s, "add") /\ ~First(s, "overwrite") /\ Linked(s, cat)
       /\ First(s, "fk") => s.link # Null
  BY <1>2, <1>10, <1>11, <1>12 DEF First, Linked
<1> QED BY <1>2, <1>8, <1>12, <1>13, <1>14, <1>15, <1>17, <1>18, LineStep

LEMMA LineFacts ==
    ASSUME MenuInv, NEW w \in Writers, Current(w) \in {"add", "overwrite"}
    PROVE  Head(mtx[w].rows) \in FileRow
<1> DEFINE t == mtx[w]
<1>1. /\ TxTypes(t) /\ t.todo # <<>> /\ t.todo[1] \in {"add", "overwrite"} /\ t.todo[1] \in Plan(t.cmd.kind)
      /\ First(t, t.todo[1]) /\ Staged(t, cat, prod)
  BY AtFacts
<1>2. t.cmd.kind # "skus"
  BY <1>1 DEF Plan
<1>3. t.rows # <<>> /\ t.rows \in Seq(FileRow \cup Target)
  BY <1>1, TxFacts DEF Staged
<1>4. 1 \in DOMAIN t.rows /\ Head(t.rows) = t.rows[1]
  BY <1>3, TailFacts
<1> QED BY <1>1, <1>2, <1>4 DEF TxTypes

LEMMA InsertLineStep ==
    ASSUME MenuInv, NEW w \in Writers, InsertLine(w)
    PROVE  MenuInv'
<1> DEFINE l == Head(mtx[w].rows)
           new == [name |-> l.name, cat |-> l.cat, priced |-> l.priced, active |-> l.priced, sku |-> Null]
<1>1. PICK k \in FreeProducts : WriteLine(w, k, new, FALSE)
  BY DEF InsertLine
<1>2. l \in FileRow
  BY LineFacts DEF InsertLine
<1>3. new \in Product /\ new.sku = Null
  BY <1>2 DEF Product, FileRow
<1>4. /\ k \in Prods /\ prod[k] = Null
      /\ \A v \in Others(w) : mtx[v].p[k] = Null /\ k \notin mtx[v].owned
  BY <1>1, FreeFacts DEF Others
<1> DEFINE no == FALSE
<1>5. WriteLine(w, k, new, no) /\ Current(w) \in {"add", "overwrite"}
  BY <1>1 DEF InsertLine
<1> HIDE DEF new, no
<1> QED BY <1>3, <1>4, <1>5, WriteLineStep

LEMMA OverwriteLineStep ==
    ASSUME MenuInv, NEW w \in Writers, OverwriteLine(w)
    PROVE  MenuInv'
<1> DEFINE t == mtx[w]
           l == Head(t.rows)
<1>1. PICK k \in t.found :
         LET old == SeesProd(w, k)
         IN WriteLine(w, k, [old EXCEPT !.cat = l.cat, !.priced = l.priced, !.active = l.priced],
                      l.cat = old.cat)
  BY DEF OverwriteLine
<1> DEFINE old == SeesProd(w, k)
           new == [old EXCEPT !.cat = l.cat, !.priced = l.priced, !.active = l.priced]
<1>2. /\ TxInv(t, cat, prod) /\ TxTypes(t) /\ First(t, "overwrite") /\ Staged(t, cat, prod)
      /\ "overwrite" \in Plan(t.cmd.kind) /\ t.cmd \in Commands \cup {NoCommand}
  BY AtFacts DEF OverwriteLine
<1>3. t.cmd.kind = "import"
  BY <1>2, CommandFacts DEF Plan, Kind
<1>4. k \in Prods /\ (prod[k] # Null \/ t.p[k] # Null)
  BY <1>1, <1>2, <1>3 DEF TxTypes, Staged
<1>5. \A v \in Others(w) : k \notin mtx[v].owned
  BY <1>1 DEF OverwriteLine, OwnedByOthers, Others
<1>6. \A v \in Others(w) : mtx[v].p[k] = Null
  BY <1>4, <1>5, OthersKeepOff
<1>7. l \in FileRow
  BY LineFacts DEF OverwriteLine
<1>8. old \in Product
  <2>1. t.p \in [Prods -> Product \cup {Null}] /\ prod \in [Prods -> Product \cup {Null}]
    BY <1>2, TxFacts DEF MenuInv, Tables
  <2> QED BY <1>4, <2>1 DEF SeesProd
<1>9. new \in Product /\ new.name = old.name /\ new.sku = old.sku /\ old.sku \in SkuCodes \cup {Null}
  BY <1>7, <1>8 DEF Product, FileRow
<1>10. prod[k] # Null => old.name = prod[k].name /\ old.sku = prod[k].sku
  <2>1. Keeps(t, prod)
    BY <1>2 DEF TxInv
  <2> QED BY <1>3, <1>4, <2>1 DEF Keeps, SeesProd
<1>11. \/ old.sku = Null
       \/ /\ \A j \in Prods \ {k} : SkuOf(SeesProd(w, j)) # old.sku
          /\ \A v \in Others(w), j \in Prods \ {k} : mtx[v].p[j] # Null => mtx[v].p[j].sku # old.sku
  <2> SUFFICES ASSUME old.sku # Null
               PROVE  /\ \A j \in Prods \ {k} : SkuOf(SeesProd(w, j)) # old.sku
                      /\ \A v \in Others(w), j \in Prods \ {k} :
                            mtx[v].p[j] # Null => mtx[v].p[j].sku # old.sku
    OBVIOUS
  <2>1. SkuOf(SeesProd(w, k)) = old.sku /\ old.sku \in SkuCodes
    BY <1>8, <1>9, NullFacts DEF SkuOf
  <2>2. Distinct(t, prod) /\ \A j \in Prods : SkuSeen(t, prod, j) = SkuOf(SeesProd(w, j))
    BY <1>2 DEF TxInv, SkuSeen, SeesProd
  <2>3. \A j \in Prods \ {k} : SkuOf(SeesProd(w, j)) # old.sku
    BY <1>4, <2>1, <2>2 DEF Distinct
  <2> HIDE DEF old
  <2>4. \A v \in Others(w), j \in Prods \ {k} : mtx[v].p[j] # Null => mtx[v].p[j].sku # old.sku
    BY <1>4, <1>6, <2>1, <2>3, SkuFree
  <2> QED BY <2>3, <2>4
<1>12. WriteLine(w, k, new, l.cat = old.cat) /\ Current(w) = "overwrite"
  BY <1>1 DEF OverwriteLine
<1> DEFINE same == (l.cat = old.cat)
<1>13. WriteLine(w, k, new, same) /\ Current(w) \in {"add", "overwrite"}
  BY <1>12
<1> HIDE DEF new, old, same
<1>14. prod[k] # Null => new.name = prod[k].name /\ new.sku = prod[k].sku
  BY <1>9, <1>10
<1>15. \/ new.sku = Null
       \/ /\ \A j \in Prods \ {k} : SkuOf(SeesProd(w, j)) # new.sku
          /\ \A v \in Others(w), j \in Prods \ {k} : mtx[v].p[j] # Null => mtx[v].p[j].sku # new.sku
  BY <1>9, <1>11
<1> QED BY <1>4, <1>5, <1>6, <1>9, <1>13, <1>14, <1>15, WriteLineStep

---------------------------------------------------------------------------
(* The sku batch.                                                          *)
LEMMA Unpushed ==
    ASSUME NEW S, NEW x \in S, NEW s \in Seq(S)
    PROVE  Tail(<<x>> \o s) = s
  OBVIOUS

LEMMA AssignSkuStep ==
    ASSUME MenuInv, NEW w \in Writers, AssignSku(w)
    PROVE  MenuInv'
<1> DEFINE t == mtx[w]
           k == Head(t.rows).id
           name == Head(t.rows).name
<1>0. Current(w) = "assign"
  BY DEF AssignSku
<1>1. /\ TxInv(t, cat, prod) /\ TxTypes(t) /\ t \in Tx /\ t.todo # <<>> /\ t.todo[1] = "assign"
      /\ "assign" \in Plan(t.cmd.kind) /\ t.cmd \in Commands \cup {NoCommand} /\ Staged(t, cat, prod)
  BY <1>0, AtFacts
<1>2. t.cmd.kind = "skus"
  BY <1>1, CommandFacts DEF Plan, Kind
<1>3. CASE t.rows = <<>>
  <2>1. Proceed(w, t) /\ Current(w) = "assign"
    BY <1>3 DEF AssignSku
  <2> QED BY <2>1, PassStep DEF Statement
<1>4. CASE t.rows # <<>> /\ RollBack(w)
  BY <1>4, RollBackStep
<1>5. CASE t.rows # <<>> /\ ~RollBack(w)
  <2>1. t.todo \in Seq(Statement) /\ t.rows \in Seq(FileRow \cup Target)
    BY <1>1, TxFacts
  <2>2. /\ Tail(t.rows) \in Seq(FileRow \cup Target) /\ 1 \in DOMAIN t.rows /\ Head(t.rows) = t.rows[1]
        /\ \A i \in DOMAIN Tail(t.rows) : i + 1 \in DOMAIN t.rows /\ Tail(t.rows)[i] = t.rows[i + 1]
    BY <1>5, <2>1, TailFacts
  <2>3. Head(t.rows) \in Target /\ prod[k] # Null
    BY <1>1, <1>2, <2>2 DEF TxTypes, Staged
  <2>4. k \in Prods /\ name \in ProdNames
    BY <2>3 DEF Target
  <2>5. \A v \in Others(w) : k \notin mtx[v].owned
    BY <1>5 DEF AssignSku, OwnedByOthers, Others
  <2>6. \A v \in Others(w) : mtx[v].p[k] = Null
    BY <2>3, <2>4, <2>5, OthersKeepOff
  <2>7. PICK sku \in Candidate(k, name, t.taken) :
           SetSku(w, k, sku, [t EXCEPT
              !.todo = <<"assign">> \o @, !.rows = Tail(@), !.taken = @ \cup {sku},
              !.p[k] = [SeesProd(w, k) EXCEPT !.sku = sku], !.owned = @ \cup {k}])
    BY <1>5 DEF AssignSku
  <2>8. sku \in SkuCodes
    <3> HIDE DEF name, k
    <3>0. Legacy \in [ProdNames -> SkuCodes \cup {Null}] /\ Slugs \in [Prods -> [ProdNames -> Seq(SkuCodes)]]
      BY MenuAssumption
    <3>1. Legacy[name] \in SkuCodes \cup {Null} /\ Slugs[k][name] \in Seq(SkuCodes)
      BY <2>4, <3>0
    <3> QED BY <2>7, <3>1 DEF Candidate
  <2> DEFINE old == SeesProd(w, k)
             new == [old EXCEPT !.sku = sku]
             s == [t EXCEPT !.todo = <<"assign">> \o @, !.rows = Tail(@), !.taken = @ \cup {sku},
                            !.p[k] = new, !.owned = @ \cup {k}]
             u == [s EXCEPT !.todo = Tail(@)]
  <2>9. old \in Product
    <3>1. t.p \in [Prods -> Product \cup {Null}] /\ prod \in [Prods -> Product \cup {Null}]
      BY <1>1, TxFacts DEF MenuInv, Tables
    <3> QED BY <2>3, <2>4, <3>1 DEF SeesProd
  <2>10. /\ new \in Product /\ new.sku = sku /\ new.name = old.name /\ new.cat = old.cat
         /\ new.priced = old.priced /\ new.active = old.active
    BY <2>8, <2>9 DEF Product
  <2>11. SetSku(w, k, sku, s)
    BY <2>7
  <2>12. /\ Proceed(w, s)
         /\ \/ sku = Null
            \/ /\ \A j \in Prods \ {k} : SkuOf(SeesProd(w, j)) # sku
               /\ \A v \in Others(w), j \in Prods \ {k} : mtx[v].p[j] # Null => mtx[v].p[j].sku # sku
    <3> HIDE DEF s, k
    <3> QED BY <1>5, <2>4, <2>6, <2>8, <2>11, SetSkuFacts
  <2>13. mtx' = [mtx EXCEPT ![w] = u] /\ UNCHANGED <<cat, prod, sent>>
    BY <2>12 DEF Proceed
  <2>14. Tail(<<"assign">> \o t.todo) = t.todo /\ <<"assign">> \o t.todo \in Seq(Statement)
    BY <2>1, Unpushed DEF Statement
  <2> HIDE DEF new, old
  <2>15. /\ s \in Tx /\ s.todo = <<"assign">> \o t.todo /\ s.cmd = t.cmd /\ s.owned = t.owned \cup {k}
         /\ s.p = [t.p EXCEPT ![k] = new] /\ s.c = t.c /\ s.rows = Tail(t.rows) /\ s.found = t.found
         /\ s.link = t.link
    BY <1>1, <2>2, <2>4, <2>8, <2>10, <2>14 DEF Tx
  <2> HIDE DEF s
  <2>16. /\ u \in Tx /\ u.todo = t.todo /\ u.cmd = t.cmd /\ u.owned = t.owned \cup {k}
         /\ u.p = [t.p EXCEPT ![k] = new] /\ u.c = t.c /\ u.rows = Tail(t.rows) /\ u.found = t.found
         /\ u.link = t.link
    BY <2>1, <2>14, <2>15 DEF Tx
  <2> HIDE DEF u
  <2>17. TxTypes(u) /\ Ordered(u.todo)
    BY <1>1, <2>2, <2>16 DEF TxTypes, TxInv
  <2>18. /\ Held(u, cat, prod) /\ Covered(u, cat, prod) /\ Distinct(u, prod)
         /\ \A v \in Writers \ {w} : Apart(u, mtx[v])
    <3>1. mtx[w].owned \subseteq u.owned /\ u.owned \subseteq mtx[w].owned \cup {k} /\ k \in u.owned
      BY <2>16
    <3>2. u.p = [mtx[w].p EXCEPT ![k] = new] /\ u.c = mtx[w].c
      BY <2>16
    <3>3. \/ new.sku = Null
          \/ /\ \A j \in Prods \ {k} : SkuOf(SeesProd(w, j)) # new.sku
             /\ \A v \in Others(w), j \in Prods \ {k} : mtx[v].p[j] # Null => mtx[v].p[j].sku # new.sku
      BY <2>10, <2>12
    <3> HIDE DEF k
    <3> QED BY <2>4, <2>5, <2>6, <2>10, <3>1, <3>2, <3>3, WriteFacts
  <2>19. \A j \in Prods : u.p[j] = IF j = k THEN new ELSE t.p[j]
    BY <1>1, <2>16, TxFacts
  <2>20. /\ old.name = prod[k].name /\ old.cat = prod[k].cat
         /\ old.priced = prod[k].priced /\ old.active = prod[k].active
    <3>1. Keeps(t, prod)
      BY <1>1 DEF TxInv
    <3> HIDE DEF k
    <3> QED BY <1>2, <2>3, <2>4, <3>1 DEF Keeps, SeesProd, old
  <2>21. Keeps(u, prod)
    <3>1. Keeps(t, prod)
      BY <1>1 DEF TxInv
    <3> HIDE DEF k
    <3> QED BY <1>2, <2>10, <2>16, <2>19, <2>20, <3>1 DEF Keeps
  <2>22. \A i \in DOMAIN u.rows : prod[u.rows[i].id] # Null
    BY <1>1, <1>2, <2>2, <2>16 DEF Staged
  <2>23. ~First(u, "add") /\ ~First(u, "overwrite") /\ ~First(u, "fk")
    BY <1>1, <2>16 DEF First
  <2>24. Linked(u, cat)
    BY <1>1, <2>16 DEF TxInv, Linked
  <2> QED BY <1>2, <2>13, <2>16, <2>17, <2>18, <2>21, <2>22, <2>23, <2>24, LineStep
<1> QED BY <1>3, <1>4, <1>5

---------------------------------------------------------------------------
(* A commit, as the other transactions find it.                            *)
LEMMA CommitMenuStep ==
    ASSUME MenuInv, NEW w \in Writers, CommitMenu(w)
    PROVE  MenuInv'
<1> DEFINE t == mtx[w]
<1>1. TxInv(t, cat, prod) /\ TxTypes(t) /\ Covered(t, cat, prod) /\ Distinct(t, prod)
  BY DEF MenuInv, TxInv
<1>2. /\ t.c \in [Cats -> Category \cup {Null}] /\ t.p \in [Prods -> Product \cup {Null}]
      /\ cat \in [Cats -> Category \cup {Null}] /\ prod \in [Prods -> Product \cup {Null}]
  BY <1>1, TxFacts DEF MenuInv, Tables
<1>3. /\ \A k \in Cats : cat'[k] = IF t.c[k] # Null THEN t.c[k] ELSE cat[k]
      /\ \A k \in Prods : prod'[k] = IF t.p[k] # Null THEN t.p[k] ELSE prod[k]
  BY DEF CommitMenu, SeesCat, SeesProd
<1>4. cat' \in [Cats -> Category \cup {Null}]
  BY <1>2 DEF CommitMenu, SeesCat
<1>5. prod' \in [Prods -> Product \cup {Null}]
  BY <1>2 DEF CommitMenu, SeesProd
<1>6. \A j, k \in Prods : (j # k /\ SkuOf(prod'[j]) # Null) => SkuOf(prod'[j]) # SkuOf(prod'[k])
  BY <1>1, <1>3 DEF Distinct, SkuSeen
<1>7. TxInv(NoTx, cat', prod') /\ \A u : Apart(NoTx, u)
  BY <1>6, NoTxInv
<1>8. mtx' \in [Writers -> Tx] /\ \A v \in Writers : mtx'[v] = IF v = w THEN NoTx ELSE mtx[v]
  BY NoTxFacts DEF CommitMenu, MenuInv, Tables
<1>9. ASSUME NEW v \in Writers \ {w} PROVE TxInv(mtx[v], cat', prod')
  <2> DEFINE u == mtx[v]
  <2>1. TxInv(u, cat, prod) /\ Apart(t, u)
    BY DEF MenuInv
  <2>2. /\ TxTypes(u) /\ Ordered(u.todo) /\ Held(u, cat, prod) /\ Staged(u, cat, prod)
        /\ Covered(u, cat, prod) /\ WritesLast(u) /\ Linked(u, cat) /\ Keeps(u, prod)
        /\ Distinct(u, prod)
    BY <2>1 DEF TxInv
  <2>3. /\ u.owned \subseteq Cats \cup Prods /\ u.link \in Cats \cup {Null}
        /\ u.found \subseteq Cats \cup Prods /\ u.cmd \in Commands \cup {NoCommand}
    BY <2>2, TxFacts
  <2>4. /\ \A k \in Prods : prod[k] # Null => prod'[k] # Null
        /\ \A k \in Cats : cat[k] # Null => cat'[k] # Null
    BY <1>3
  <2>5. \A k \in Cats : (k \in u.owned /\ cat[k] # Null) => cat'[k] = cat[k]
    BY <1>1, <1>3, <2>1 DEF Covered, Apart
  <2>6. /\ \A k \in Prods : u.p[k] # Null => prod'[k] = prod[k]
        /\ \A k \in Cats : u.c[k] # Null => cat'[k] = cat[k]
    BY <1>3, <2>1 DEF Apart
  <2>7. Held(u, cat', prod')
    BY <2>2, <2>4 DEF Held
  <2>8. Covered(u, cat', prod')
    BY <2>2, <2>6 DEF Covered
  <2>9. Staged(u, cat', prod')
    <3>1. /\ u.cmd.kind = "update_product" => u.cmd.id \in Prods
          /\ u.cmd.kind = "update_category" => u.cmd.id \in Cats
      BY <2>3, CommandFacts
    <3>2. First(u, "overwrite") => u.found \subseteq Prods
      <4>1. u.todo # <<>> => 1 \in DOMAIN u.todo
        BY <2>2, TxFacts, TailFacts
      <4>2. First(u, "overwrite") => u.cmd.kind = "import"
        BY <2>2, <2>3, <4>1, CommandFacts DEF First, TxTypes, Plan, Kind
      <4> QED BY <2>2, <4>2 DEF TxTypes
    <3>3. u.cmd.kind = "skus" => \A i \in DOMAIN u.rows : u.rows[i].id \in Prods
      BY <2>2 DEF TxTypes, Target
    <3> QED BY <2>2, <2>4, <3>1, <3>2, <3>3 DEF Staged
  <2>10. Linked(u, cat')
    BY <2>2, <2>3, <2>5 DEF Linked
  <2>11. Keeps(u, prod')
    BY <2>2, <2>6 DEF Keeps
  <2>12. Distinct(u, prod')
    <3> SUFFICES ASSUME NEW j \in Prods, NEW k \in Prods, j # k,
                        SkuSeen(u, prod', j) # Null, SkuSeen(u, prod', j) = SkuSeen(u, prod', k)
                 PROVE  FALSE
      BY DEF Distinct
    <3>1. \A i \in Prods : t.p[i] = Null => SkuSeen(u, prod', i) = SkuSeen(u, prod, i)
      BY <1>3 DEF SkuSeen
    <3>2. \A i \in Prods : u.p[i] = Null => SkuSeen(u, prod', i) = SkuSeen(t, prod, i)
      BY <1>3 DEF SkuSeen
    <3>3. \A i \in Prods : t.p[i] # Null =>
             u.p[i] = Null /\ SkuSeen(u, prod', i) = t.p[i].sku
      BY <1>3, <2>1 DEF SkuSeen, SkuOf, Apart
    <3>4. \A i \in Prods : u.p[i] # Null =>
             t.p[i] = Null /\ SkuSeen(u, prod', i) = u.p[i].sku
      BY <2>1 DEF SkuSeen, SkuOf, Apart
    <3>5. CASE t.p[j] = Null /\ t.p[k] = Null
      BY <2>2, <3>1, <3>5 DEF Distinct
    <3>6. CASE u.p[j] = Null /\ u.p[k] = Null
      BY <1>1, <3>2, <3>6 DEF Distinct
    <3>7. CASE t.p[j] # Null /\ u.p[k] # Null
      BY <2>1, <3>3, <3>4, <3>7 DEF Apart
    <3>8. CASE u.p[j] # Null /\ t.p[k] # Null
      BY <2>1, <3>3, <3>4, <3>8 DEF Apart
    <3> QED BY <3>3, <3>4, <3>5, <3>6, <3>7, <3>8
  <2> QED BY <2>2, <2>7, <2>8, <2>9, <2>10, <2>11, <2>12 DEF TxInv
<1>10. \A v \in Writers : TxInv(mtx'[v], cat', prod')
  BY <1>7, <1>8, <1>9
<1>11. \A u, v \in Writers : u # v => Apart(mtx'[u], mtx'[v])
  BY <1>7, <1>8, ApartSym DEF MenuInv
<1>12. SkusUnique'
  BY <1>6 DEF SkusUnique, SkuOf
<1>13. sent' \in 0 .. MaxSent
  BY DEF CommitMenu, MenuInv, Tables
<1> QED BY <1>4, <1>5, <1>8, <1>10, <1>11, <1>12, <1>13 DEF MenuInv, Tables

LEMMA MenuCrashStep ==
    ASSUME MenuInv, MenuCrash
    PROVE  MenuInv'
<1>1. TxInv(NoTx, cat, prod) /\ \A u : Apart(NoTx, u)
  BY NoTxInv DEF MenuInv, SkusUnique
<1>2. mtx' \in [Writers -> Tx] /\ \A v \in Writers : mtx'[v] = NoTx
  BY NoTxFacts DEF MenuCrash
<1>3. UNCHANGED <<cat, prod, sent>>
  BY DEF MenuCrash
<1>4. SkusUnique'
  BY <1>3 DEF MenuInv, SkusUnique, SkuOf
<1> QED BY <1>1, <1>2, <1>3, <1>4 DEF MenuInv, Tables

---------------------------------------------------------------------------
(* A command is sent.                                                      *)
LEMMA BeginStep ==
    ASSUME MenuInv, NEW w \in Writers, NEW cmd \in Commands, NEW todo, Begin(w, cmd, todo),
           todo \in Seq(Plan(cmd.kind)), Ordered(todo),
           cmd.kind \in {"update_product", "update_category"} =>
              2 \in DOMAIN todo /\ todo[1] = "validate" /\ todo[2] = "row",
           todo # <<>> => todo[1] \notin {"add", "overwrite", "fk"}
    PROVE  MenuInv'
<1> DEFINE t == [NoTx EXCEPT !.cmd = cmd, !.todo = todo]
<1>1. cmd \in Command /\ cmd \in Commands \cup {NoCommand}
  BY CommandFacts
<1>2. Plan(cmd.kind) \subseteq Statement
  BY DEF Plan, Statement
<1>3. todo \in Seq(Statement) /\ \A i \in DOMAIN todo : todo[i] \in Plan(cmd.kind)
  BY <1>2
<1>4. /\ t \in Tx /\ t.todo = todo /\ t.cmd = cmd /\ t.rows = <<>> /\ t.found = {} /\ t.owned = {}
      /\ t.link = Null /\ t.c = NoTx.c /\ t.p = NoTx.p
  BY <1>1, <1>3, NoTxFacts DEF Tx
<1>5. mtx' = [mtx EXCEPT ![w] = t] /\ UNCHANGED <<cat, prod>> /\ sent' \in 0 .. MaxSent
  BY MenuAssumption DEF Begin, MenuInv, Tables
<1> HIDE DEF t
<1>6. \A i \in DOMAIN t.rows : FALSE
  BY <1>4
<1>7. TxTypes(t)
  BY <1>1, <1>3, <1>4, <1>6 DEF TxTypes
<1>8. (\A k \in Cats : t.c[k] = Null) /\ (\A k \in Prods : t.p[k] = Null)
  BY <1>4, NoTxFacts
<1>9. Held(t, cat, prod) /\ Covered(t, cat, prod) /\ WritesLast(t) /\ Linked(t, cat) /\ Keeps(t, prod)
  BY <1>4, <1>8 DEF Held, Covered, WritesLast, Linked, Keeps
<1>10. Distinct(t, prod)
  BY <1>8 DEF Distinct, SkuSeen, MenuInv, SkusUnique
<1>11. \A v \in Writers \ {w} : Apart(t, mtx[v])
  BY <1>4, <1>8 DEF Apart
<1>12. Staged(t, cat, prod)
  <2>1. cmd.kind \in {"update_product", "update_category"} /\ todo # <<>> => Checking(t)
    BY <1>4 DEF Checking, First
  <2> QED BY <1>4, <1>6, <2>1 DEF Staged, First
<1>13. TxInv(t, cat, prod)
  BY <1>4, <1>7, <1>9, <1>10, <1>12 DEF TxInv
<1> QED BY <1>5, <1>11, <1>13, TxStep

LEMMA CreatePlans ==
    ASSUME NEW kind \in {"create_product", "create_category"}
    PROVE  /\ <<"validate", "find", "lock", "name", "insert", "commit">> \in Seq(Plan(kind))
           /\ Ordered(<<"validate", "find", "lock", "name", "insert", "commit">>)
           /\ <<"validate">> \in Seq(Plan(kind)) /\ Opening(<<"validate">>)
           /\ <<"find", "lock">> \in Seq(Plan(kind))
           /\ <<"name", "insert", "commit">> \in Seq(Plan(kind)) /\ Closing(<<"name", "insert", "commit">>)
<1>1. Plan(kind) = {"validate", "find", "lock", "name", "insert", "commit"}
  BY DEF Plan
<1>2. Ordered(<<"validate", "find", "lock", "name", "insert", "commit">>)
  BY DEF Ordered
<1>3. Opening(<<"validate">>) /\ Closing(<<"name", "insert", "commit">>)
  BY DEF Opening, Closing
<1> QED BY <1>1, <1>2, <1>3

LEMMA UpdatePlans ==
    ASSUME NEW kind \in {"update_product", "update_category"}
    PROVE  /\ <<"validate", "row">> \in Seq(Plan(kind)) /\ Opening(<<"validate", "row">>)
           /\ <<"find", "lock">> \in Seq(Plan(kind))
           /\ kind = "update_product" => <<"sku">> \in Seq(Plan(kind))
           /\ kind = "update_category" => <<"name">> \in Seq(Plan(kind))
           /\ <<"update", "commit">> \in Seq(Plan(kind)) /\ Closing(<<"update", "commit">>)
<1>1. {"validate", "row", "find", "lock", "update", "commit"} \subseteq Plan(kind)
  BY DEF Plan
<1>2. /\ kind = "update_product" => "sku" \in Plan(kind)
      /\ kind = "update_category" => "name" \in Plan(kind)
  BY DEF Plan
<1>3. Opening(<<"validate", "row">>) /\ Closing(<<"update", "commit">>)
  BY DEF Opening, Closing
<1> QED BY <1>1, <1>2, <1>3

LEMMA IfReads ==
    ASSUME NEW S, NEW f, <<"find", "lock">> \in Seq(S)
    PROVE  If(f, <<"find", "lock">>) \in Seq(S) /\ Reads(If(f, <<"find", "lock">>))
  BY DEF If, Reads

LEMMA IfRead ==
    ASSUME NEW S, NEW f, NEW x \in {"sku", "name"}, <<x>> \in Seq(S)
    PROVE  If(f, <<x>>) \in Seq(S) /\ Reads(If(f, <<x>>))
  BY DEF If, Reads

LEMMA ApplyMenuStep ==
    ASSUME MenuInv, NEW w \in Writers, NEW cmd \in Commands, ApplyMenu(w, cmd)
    PROVE  MenuInv'
<1> DEFINE todo == <<"validate", "find", "lock", "name", "insert", "commit">>
<1>1. cmd.kind = "create_product" /\ Begin(w, cmd, todo)
  BY DEF ApplyMenu
<1>2. todo \in Seq(Plan(cmd.kind)) /\ Ordered(todo)
  BY <1>1, CreatePlans
<1>3. todo[1] = "validate"
  OBVIOUS
<1> HIDE DEF todo
<1> QED BY <1>1, <1>2, <1>3, BeginStep

LEMMA ApplyCategoryStep ==
    ASSUME MenuInv, NEW w \in Writers, NEW cmd \in Commands, ApplyCategory(w, cmd)
    PROVE  MenuInv'
<1> DEFINE a == <<"validate">>
           b == If(cmd.cat, <<"find", "lock">>)
           c == <<"name", "insert", "commit">>
           P == Plan(cmd.kind)
<1>1. cmd.kind = "create_category" /\ Begin(w, cmd, a \o b \o c)
  BY DEF ApplyCategory
<1>2. a \in Seq(P) /\ Opening(a) /\ c \in Seq(P) /\ Closing(c)
  BY <1>1, CreatePlans
<1>3. b \in Seq(P) /\ Reads(b)
  BY <1>1, CreatePlans, IfReads
<1>4. a # <<>> /\ 1 \in DOMAIN a /\ a[1] = "validate"
  OBVIOUS
<1> HIDE DEF a, b, c, P
<1>5. /\ a \o b \in Seq(P) /\ Opening(a \o b) /\ a \o b # <<>>
      /\ \A i \in DOMAIN a : i \in DOMAIN (a \o b) /\ (a \o b)[i] = a[i]
  BY <1>2, <1>3, <1>4, Opens
<1> DEFINE d == a \o b
<1>6. /\ d \o c \in Seq(P) /\ Ordered(d \o c) /\ d \o c # <<>>
      /\ \A i \in DOMAIN d : i \in DOMAIN (d \o c) /\ (d \o c)[i] = d[i]
  <2>1. d \in Seq(P) /\ Opening(d) /\ d # <<>>
    BY <1>5
  <2> HIDE DEF d
  <2> QED BY <1>2, <2>1, Closes
<1> DEFINE todo == d \o c
<1>7. todo[1] = "validate"
  BY <1>4, <1>5, <1>6
<1>8. Begin(w, cmd, todo) /\ todo \in Seq(Plan(cmd.kind)) /\ Ordered(todo)
  BY <1>1, <1>6 DEF P
<1> HIDE DEF todo
<1> QED BY <1>1, <1>7, <1>8, BeginStep

(* Both updates check, lock their row, read twice at most and write.       *)
LEMMA UpdateStep ==
    ASSUME MenuInv, NEW w \in Writers, NEW cmd \in Commands,
           cmd.kind \in {"update_product", "update_category"},
           NEW b \in Seq(Plan(cmd.kind)), NEW c \in Seq(Plan(cmd.kind)), Reads(b), Reads(c),
           Begin(w, cmd, <<"validate", "row">> \o b \o c \o <<"update", "commit">>)
    PROVE  MenuInv'
<1> DEFINE a == <<"validate", "row">>
           e == <<"update", "commit">>
           P == Plan(cmd.kind)
<1>1. a \in Seq(P) /\ Opening(a) /\ e \in Seq(P) /\ Closing(e)
  BY UpdatePlans
<1>2. a # <<>> /\ 1 \in DOMAIN a /\ 2 \in DOMAIN a /\ a[1] = "validate" /\ a[2] = "row"
  OBVIOUS
<1>3. Begin(w, cmd, a \o b \o c \o e) /\ b \in Seq(P) /\ c \in Seq(P)
  OBVIOUS
<1> HIDE DEF a, e, P
<1> DEFINE f == a \o b
<1>4. /\ f \in Seq(P) /\ Opening(f) /\ f # <<>>
      /\ \A i \in DOMAIN a : i \in DOMAIN f /\ f[i] = a[i]
  BY <1>1, <1>2, <1>3, Opens
<1> DEFINE g == f \o c
<1>5. /\ g \in Seq(P) /\ Opening(g) /\ g # <<>>
      /\ \A i \in DOMAIN f : i \in DOMAIN g /\ g[i] = f[i]
  <2> HIDE DEF f
  <2> QED BY <1>3, <1>4, Opens
<1> DEFINE todo == g \o e
<1>6. /\ todo \in Seq(P) /\ Ordered(todo) /\ todo # <<>>
      /\ \A i \in DOMAIN g : i \in DOMAIN todo /\ todo[i] = g[i]
  <2> HIDE DEF g
  <2> QED BY <1>1, <1>5, Closes
<1>7. Begin(w, cmd, todo)
  BY <1>3
<1> HIDE DEF f, g, todo
<1>8. 2 \in DOMAIN todo /\ todo[1] = "validate" /\ todo[2] = "row"
  BY <1>2, <1>4, <1>5, <1>6
<1>9. todo \in Seq(Plan(cmd.kind))
  BY <1>6 DEF P
<1> QED BY <1>6, <1>7, <1>8, <1>9, BeginStep

LEMMA UpdateProductStep ==
    ASSUME MenuInv, NEW w \in Writers, NEW cmd \in Commands, UpdateProduct(w, cmd)
    PROVE  MenuInv'
<1> DEFINE b == If(cmd.cat, <<"find", "lock">>)
           c == If(cmd.sku, <<"sku">>)
<1>1. cmd.kind = "update_product" /\ Begin(w, cmd, <<"validate", "row">> \o b \o c \o <<"update", "commit">>)
  BY DEF UpdateProduct
<1>2. b \in Seq(Plan(cmd.kind)) /\ Reads(b)
  BY <1>1, UpdatePlans, IfReads
<1>3. c \in Seq(Plan(cmd.kind)) /\ Reads(c)
  BY <1>1, UpdatePlans, IfRead
<1> HIDE DEF b, c
<1> QED BY <1>1, <1>2, <1>3, UpdateStep

LEMMA UpdateCategoryStep ==
    ASSUME MenuInv, NEW w \in Writers, NEW cmd \in Commands, UpdateCategory(w, cmd)
    PROVE  MenuInv'
<1> DEFINE b == If(cmd.name, <<"name">>)
           c == If(cmd.cat, <<"find", "lock">>)
<1>1. cmd.kind = "update_category" /\ Begin(w, cmd, <<"validate", "row">> \o b \o c \o <<"update", "commit">>)
  BY DEF UpdateCategory
<1>2. c \in Seq(Plan(cmd.kind)) /\ Reads(c)
  BY <1>1, UpdatePlans, IfReads
<1>3. b \in Seq(Plan(cmd.kind)) /\ Reads(b)
  BY <1>1, UpdatePlans, IfRead
<1> HIDE DEF b, c
<1> QED BY <1>1, <1>2, <1>3, UpdateStep

LEMMA ImportCsvStep ==
    ASSUME MenuInv, NEW w \in Writers, NEW cmd \in Commands, ImportCsv(w, cmd)
    PROVE  MenuInv'
<1> DEFINE todo == <<"resolve", "dedupe", "lines", "commit">>
<1>1. cmd.kind = "import" /\ Begin(w, cmd, todo)
  BY DEF ImportCsv
<1>2. todo \in Seq(Plan(cmd.kind))
  BY <1>1 DEF Plan
<1>3. Ordered(todo) /\ todo[1] = "resolve"
  BY DEF Ordered
<1> HIDE DEF todo
<1> QED BY <1>1, <1>2, <1>3, BeginStep

LEMMA GenerateMissingSkusStep ==
    ASSUME MenuInv, NEW w \in Writers, NEW cmd \in Commands, GenerateMissingSkus(w, cmd)
    PROVE  MenuInv'
<1> DEFINE todo == <<"taken", "targets", "assign", "commit">>
<1>1. cmd.kind = "skus" /\ Begin(w, cmd, todo)
  BY DEF GenerateMissingSkus
<1>2. todo \in Seq(Plan(cmd.kind))
  BY <1>1 DEF Plan
<1>3. Ordered(todo) /\ todo[1] = "taken"
  BY DEF Ordered
<1> HIDE DEF todo
<1> QED BY <1>1, <1>2, <1>3, BeginStep

---------------------------------------------------------------------------
LEMMA MenuInitially ==
    ASSUME MenuInit
    PROVE  MenuInv
<1>1. /\ cat \in [Cats -> Category \cup {Null}] /\ prod \in [Prods -> Product \cup {Null}]
      /\ sent \in 0 .. MaxSent
  BY MenuAssumption DEF MenuInit
<1>2. mtx \in [Writers -> Tx] /\ \A w \in Writers : mtx[w] = NoTx
  BY NoTxFacts DEF MenuInit
<1>3. SkusUnique
  BY MenuAssumption DEF MenuInit, SkusUnique, SkuOf
<1>4. TxInv(NoTx, cat, prod) /\ \A u : Apart(NoTx, u)
  BY <1>3, NoTxInv DEF SkusUnique
<1> QED BY <1>1, <1>2, <1>3, <1>4 DEF MenuInv, Tables

LEMMA MenuStepInv ==
    ASSUME MenuInv, NEW w \in Writers, MenuStep(w)
    PROVE  MenuInv'
<1>1. CASE Validate(w) \/ LockTarget(w) \/ FindCategory(w) \/ LockCategory(w) \/ CheckName(w) \/ CheckSku(w)
  BY <1>1, ValidateStep, LockTargetStep, FindCategoryStep, LockCategoryStep, CheckNameStep, CheckSkuStep
<1>2. CASE InsertProduct(w) \/ InsertCategory(w) \/ UpdateProductRow(w) \/ UpdateCategoryRow(w)
  BY <1>2, InsertProductStep, InsertCategoryStep, UpdateProductRowStep, UpdateCategoryRowStep
<1>3. CASE ResolveLines(w) \/ DedupeLines(w) \/ FindLine(w) \/ InsertLine(w) \/ OverwriteLine(w)
           \/ CheckForeignKey(w)
  BY <1>3, ResolveLinesStep, DedupeLinesStep, FindLineStep, InsertLineStep, OverwriteLineStep,
     CheckForeignKeyStep
<1>4. CASE ReadTaken(w) \/ ReadTargets(w) \/ AssignSku(w)
  BY <1>4, ReadTakenStep, ReadTargetsStep, AssignSkuStep
<1>5. CASE CommitMenu(w)
  BY <1>5, CommitMenuStep
<1>6. CASE AbortMenuDeadlock(w)
  <2>1. RollBack(w)
    BY <1>6 DEF AbortMenuDeadlock
  <2> QED BY <2>1, RollBackStep
<1> QED BY <1>1, <1>2, <1>3, <1>4, <1>5, <1>6 DEF MenuStep

LEMMA MenuInductive ==
    ASSUME MenuInv, [MenuNext]_menuVars
    PROVE  MenuInv'
<1>1. ASSUME NEW w \in Writers, NEW cmd \in Commands, Send(w, cmd) PROVE MenuInv'
  BY <1>1, ApplyMenuStep, ApplyCategoryStep, UpdateProductStep, UpdateCategoryStep, ImportCsvStep,
     GenerateMissingSkusStep DEF Send
<1>2. CASE UNCHANGED menuVars
  <2>1. cat' = cat /\ prod' = prod /\ mtx' = mtx /\ sent' = sent
    BY <1>2 DEF menuVars
  <2>2. SkusUnique'
    BY <2>1 DEF MenuInv, SkusUnique, SkuOf
  <2> QED BY <2>1, <2>2 DEF MenuInv, Tables
<1> QED BY <1>1, <1>2, MenuStepInv, MenuCrashStep DEF MenuNext

(* The inductive invariant: locks and unwritten rows of transactions are   *)
(* disjoint, rows are written under their lock, and every transaction's    *)
(* view of the skus is free of duplicates, whatever the others do.         *)
THEOREM MenuInvariant == MenuSpec => []MenuInv
<1>1. MenuInit => MenuInv
  BY MenuInitially
<1>2. MenuInv /\ [MenuNext]_menuVars => MenuInv'
  BY MenuInductive
<1> QED BY <1>1, <1>2, PTL DEF MenuSpec

(* The rows of the menu hold what the columns may hold, committed or not,  *)
(* and a transaction locks rows only.                                      *)
THEOREM MenuTypeCorrect == MenuSpec => []MenuTypeOK
<1>1. MenuInv => MenuTypeOK
  <2> SUFFICES ASSUME MenuInv PROVE MenuTypeOK
    OBVIOUS
  <2>1. ASSUME NEW w \in Writers
        PROVE  /\ mtx[w].cmd \in Commands \cup {NoCommand}
               /\ mtx[w].c \in [Cats -> Category \cup {Null}]
               /\ mtx[w].p \in [Prods -> Product \cup {Null}]
               /\ mtx[w].owned \subseteq Cats \cup Prods
               /\ mtx[w].shared \subseteq Cats
               /\ mtx[w].link \in Cats \cup {Null}
    <3>1. TxTypes(mtx[w])
      BY DEF MenuInv, TxInv
    <3> QED BY <3>1, TxFacts
  <2> QED BY <2>1 DEF MenuTypeOK, MenuInv, Tables
<1> QED BY <1>1, MenuInvariant, PTL

(* No two products get one sku, whoever sets it: a command, a file and the *)
(* sku batch that race see none of each other's uncommitted rows.          *)
THEOREM SkusStayUnique == MenuSpec => []SkusUnique
<1>1. MenuInv => SkusUnique
  BY DEF MenuInv
<1> QED BY <1>1, MenuInvariant, PTL

(* The category a command resolved by its name still has that name when    *)
(* the row that refers to it is written and committed.                     *)
THEOREM CategoriesStand == MenuSpec => []CategoryStands
<1>1. MenuInv => CategoryStands
  <2> SUFFICES ASSUME MenuInv, NEW w \in Writers, mtx[w].link # Null, mtx[w].cmd.kind # "import"
               PROVE  cat[mtx[w].link].name = mtx[w].cmd.cat /\ mtx[w].link # mtx[w].cmd.id
    BY DEF CategoryStands
  <2>1. Linked(mtx[w], cat)
    BY DEF MenuInv, TxInv
  <2> QED BY <2>1 DEF Linked
<1> QED BY <1>1, MenuInvariant, PTL

---------------------------------------------------------------------------
(* The tables change with commits only.                                    *)
LEMMA SetSkuKeeps ==
    ASSUME NEW w, NEW k, NEW sku, NEW t, SetSku(w, k, sku, t)
    PROVE  prod' = prod
  BY DEF SetSku, Proceed, RollBack

LEMMA OnlyCommits ==
    ASSUME MenuNext, prod' # prod
    PROVE  \E w \in Writers : CommitMenu(w)
<1>1. ASSUME NEW w \in Writers, NEW cmd \in Commands, Send(w, cmd) PROVE FALSE
  BY <1>1 DEF Send, ApplyMenu, ApplyCategory, UpdateProduct, UpdateCategory, ImportCsv,
              GenerateMissingSkus, Begin
<1>2. ~MenuCrash
  BY DEF MenuCrash
<1>3. ASSUME NEW w \in Writers, MenuStep(w), ~CommitMenu(w) PROVE FALSE
  <2>1. \A t : ~Proceed(w, t) /\ ~RollBack(w)
    BY DEF Proceed, RollBack
  <2>2. ~(Validate(w) \/ LockTarget(w) \/ FindCategory(w) \/ LockCategory(w) \/ CheckName(w) \/ CheckSku(w))
    BY <2>1 DEF Validate, LockTarget, FindCategory, LockCategory, CheckName, CheckSku
  <2>3. ~(InsertProduct(w) \/ InsertCategory(w) \/ UpdateCategoryRow(w))
    BY <2>1 DEF InsertProduct, InsertCategory, UpdateCategoryRow
  <2>4. ~UpdateProductRow(w)
    BY SetSkuKeeps DEF UpdateProductRow
  <2>5. ~(ResolveLines(w) \/ DedupeLines(w) \/ CheckForeignKey(w) \/ ReadTaken(w) \/ ReadTargets(w))
    BY <2>1 DEF ResolveLines, DedupeLines, CheckForeignKey, ReadTaken, ReadTargets
  <2>6. ~FindLine(w)
    BY <2>1 DEF FindLine
  <2>7. ~InsertLine(w) /\ ~OverwriteLine(w)
    BY DEF InsertLine, OverwriteLine, WriteLine
  <2>8. ~AssignSku(w)
    BY <2>1, SetSkuKeeps DEF AssignSku
  <2>9. ~AbortMenuDeadlock(w)
    BY <2>1 DEF AbortMenuDeadlock
  <2> QED BY <1>3, <2>2, <2>3, <2>4, <2>5, <2>6, <2>7, <2>8, <2>9 DEF MenuStep
<1> QED BY <1>1, <1>2, <1>3 DEF MenuNext

LEMMA SameButSku ==
    ASSUME NEW a \in Product, NEW b \in Product, a.name = b.name, a.cat = b.cat,
           a.priced = b.priced, a.active = b.active
    PROVE  a = [b EXCEPT !.sku = a.sku]
  BY DEF Product

(* A commit changes only what its command is about: an update the fields   *)
(* it was given, an import neither name nor sku, the sku batch nothing but *)
(* skus, whatever was committed while they ran.                            *)
THEOREM FieldsKept == MenuSpec => OtherFieldsKept
<1>1. ASSUME MenuInv, MenuNext, NEW k \in Prods, prod[k] # Null, prod'[k] # prod[k]
      PROVE  \E w \in Writers :
                /\ Current(w) = "commit"
                /\ LET cmd == mtx[w].cmd IN
                   CASE cmd.kind = "import" ->
                           prod'[k].name = prod[k].name /\ prod'[k].sku = prod[k].sku
                     [] cmd.kind = "skus" ->
                           prod'[k] = [prod[k] EXCEPT !.sku = prod'[k].sku]
                     [] cmd.kind = "update_product" ->
                           /\ k = cmd.id
                           /\ \A f \in {"name", "cat", "priced", "active", "sku"} :
                                 cmd[f] = Null => prod'[k][f] = prod[k][f]
                     [] OTHER -> FALSE
  <2>1. PICK w \in Writers : CommitMenu(w)
    BY <1>1, OnlyCommits
  <2> DEFINE t == mtx[w]
             cmd == t.cmd
  <2>2. Current(w) = "commit" /\ prod'[k] = IF t.p[k] # Null THEN t.p[k] ELSE prod[k]
    BY <2>1 DEF CommitMenu, SeesProd
  <2>3. t.p[k] # Null /\ prod'[k] = t.p[k]
    BY <1>1, <2>2
  <2>4. TxTypes(t) /\ Keeps(t, prod)
    BY <1>1 DEF MenuInv, TxInv
  <2>5. t.p[k] \in Product /\ prod[k] \in Product
    BY <1>1, <2>3, <2>4, TxFacts DEF MenuInv, Tables
  <2>6. cmd.kind \in {"import", "skus", "update_product"}
    BY <1>1, <2>3, <2>4 DEF Keeps
  <2>7. CASE cmd.kind = "import"
    <3>1. prod'[k].name = prod[k].name /\ prod'[k].sku = prod[k].sku
      BY <1>1, <2>3, <2>4, <2>7 DEF Keeps
    <3> QED BY <2>2, <2>7, <3>1
  <2>8. CASE cmd.kind = "skus"
    <3>1. /\ t.p[k].name = prod[k].name /\ t.p[k].cat = prod[k].cat
          /\ t.p[k].priced = prod[k].priced /\ t.p[k].active = prod[k].active
      BY <1>1, <2>3, <2>4, <2>8 DEF Keeps
    <3>2. t.p[k] = [prod[k] EXCEPT !.sku = t.p[k].sku]
      BY <2>5, <3>1, SameButSku
    <3>3. prod'[k] = [prod[k] EXCEPT !.sku = prod'[k].sku]
      BY <2>3, <3>2
    <3> QED BY <2>2, <2>8, <3>3
  <2>9. CASE cmd.kind = "update_product"
    <3>1. /\ k = cmd.id
          /\ cmd.name = Null => t.p[k].name = prod[k].name
          /\ cmd.cat = Null => t.p[k].cat = prod[k].cat
          /\ cmd.priced = Null => t.p[k].priced = prod[k].priced
          /\ cmd.active = Null => t.p[k].active = prod[k].active
          /\ cmd.sku = Null => t.p[k].sku = prod[k].sku
      BY <1>1, <2>3, <2>4, <2>9 DEF Keeps
    <3>2. \A f \in {"name", "cat", "priced", "active", "sku"} :
             cmd[f] = Null => prod'[k][f] = prod[k][f]
      BY <2>3, <3>1
    <3> QED BY <2>2, <2>9, <3>1, <3>2
  <2> QED BY <2>6, <2>7, <2>8, <2>9
<1>2. MenuInv /\ [MenuNext]_menuVars =>
        [\A k \in Prods :
            (prod[k] # Null /\ prod'[k] # prod[k]) =>
                \E w \in Writers :
                    /\ Current(w) = "commit"
                    /\ LET cmd == mtx[w].cmd IN
                       CASE cmd.kind = "import" ->
                               prod'[k].name = prod[k].name /\ prod'[k].sku = prod[k].sku
                         [] cmd.kind = "skus" ->
                               prod'[k] = [prod[k] EXCEPT !.sku = prod'[k].sku]
                         [] cmd.kind = "update_product" ->
                               /\ k = cmd.id
                               /\ \A f \in {"name", "cat", "priced", "active", "sku"} :
                                     cmd[f] = Null => prod'[k][f] = prod[k][f]
                         [] OTHER -> FALSE]_menuVars
  BY <1>1 DEF menuVars
<1> QED BY <1>2, MenuInvariant, PTL DEF MenuSpec, OtherFieldsKept

---------------------------------------------------------------------------
(* The locks of the transactions.  The last statement is the commit, a     *)
(* transaction that is over has no lock, and a create locks one row, its   *)
(* category, and waits for nothing after that.                             *)
Creates == {"create_product", "create_category"}

AfterLock == {"name", "insert", "commit"}

LockOnce(s) == \A i, j \in DOMAIN s : (s[i] = "lock" /\ i < j) => s[j] \in AfterLock

Tidy(t) ==
    /\ t.todo # <<>> => t.todo[Len(t.todo)] = "commit"
    /\ t.todo = <<>> => t.owned = {} /\ t.shared = {} /\ \A k \in Prods : t.p[k] = Null
    /\ t.cmd.kind \in Creates =>
          /\ t.shared = {}
          /\ LockOnce(t.todo)
          /\ t.owned # {} => \A i \in DOMAIN t.todo : t.todo[i] \in AfterLock

AllTidy == \A w \in Writers : Tidy(mtx[w])

LEMMA NoTxTidy == Tidy(NoTx) /\ NoTx.shared = {}
<1>1. NoTx.shared = {}
  BY DEF NoTx
<1> QED BY <1>1, NoTxFacts DEF Tidy, Creates

LEMMA JoinLast ==
    ASSUME NEW S, NEW r \in Seq(S), NEW s \in Seq(S), s # <<>>
    PROVE  r \o s # <<>> /\ (r \o s)[Len(r \o s)] = s[Len(s)]
<1>1. Len(s) \in Nat \ {0} /\ Len(r) \in Nat /\ Len(r \o s) = Len(r) + Len(s)
  OBVIOUS
<1> QED BY <1>1

LEMMA LastFacts ==
    ASSUME NEW S, NEW s \in Seq(S), s # <<>>, Len(s) # 1
    PROVE  /\ Tail(s) # <<>> /\ Len(Tail(s)) \in DOMAIN Tail(s)
           /\ Tail(s)[Len(Tail(s))] = s[Len(s)]
<1>1. Len(s) \in Nat \ {0} /\ Len(Tail(s)) = Len(s) - 1 /\ Tail(s) \in Seq(S)
  BY TailFacts
<1> DEFINE r == Tail(s)
<1>2. r \in Seq(S) /\ Len(r) \in Nat \ {0}
  BY <1>1
<1>3. r # <<>> /\ Len(r) \in DOMAIN r
  <2> HIDE DEF r
  <2>1. DOMAIN r = 1 .. Len(r)
    BY <1>2
  <2>2. Len(r) \in DOMAIN r
    BY <1>2, <2>1
  <2> QED BY <1>2, <2>2
<1> QED BY <1>1, <1>3, TailFacts

(* The next statement is taken.                                            *)
LEMMA TidyPop ==
    ASSUME NEW t, TxTypes(t), Tidy(t), t.todo # <<>>, t.todo[1] # "commit",
           NEW s, s.todo = Tail(t.todo), s.cmd = t.cmd, s.shared = t.shared,
           s.owned = t.owned \/ t.todo[1] = "lock"
    PROVE  Tidy(s)
<1>1. t.todo \in Seq(Statement)
  BY TxFacts
<1>2. /\ Len(Tail(t.todo)) = Len(t.todo) - 1 /\ Len(t.todo) \in Nat \ {0}
      /\ Tail(t.todo) \in Seq(Statement)
      /\ \A i \in DOMAIN Tail(t.todo) :
            i \in Nat \ {0} /\ i + 1 \in DOMAIN t.todo /\ Tail(t.todo)[i] = t.todo[i + 1]
      /\ 1 \in DOMAIN t.todo
  BY <1>1, TailFacts
<1>3. Len(t.todo) # 1
  BY DEF Tidy
<1>4. Len(Tail(t.todo)) \in DOMAIN Tail(t.todo) /\ Tail(t.todo) # <<>>
  BY <1>1, <1>3, LastFacts
<1>5. s.todo # <<>> /\ s.todo[Len(s.todo)] = "commit"
  <2>1. Tail(t.todo)[Len(Tail(t.todo))] = t.todo[Len(t.todo)]
    BY <1>1, <1>3, LastFacts
  <2> QED BY <1>4, <2>1 DEF Tidy
<1>6. ASSUME t.cmd.kind \in Creates
      PROVE  /\ s.shared = {}
             /\ LockOnce(s.todo)
             /\ s.owned # {} => \A i \in DOMAIN s.todo : s.todo[i] \in AfterLock
  <2>1. s.shared = {}
    BY <1>6 DEF Tidy
  <2>2. ASSUME NEW i \in DOMAIN s.todo, NEW j \in DOMAIN s.todo, s.todo[i] = "lock", i < j
        PROVE  s.todo[j] \in AfterLock
    <3>1. i + 1 \in DOMAIN t.todo /\ j + 1 \in DOMAIN t.todo /\ i + 1 < j + 1
      BY <1>2, <2>2
    <3>2. t.todo[i + 1] = "lock" /\ s.todo[j] = t.todo[j + 1]
      BY <1>2, <2>2
    <3> QED BY <1>6, <3>1, <3>2 DEF Tidy, LockOnce
  <2>3. ASSUME s.owned # {}, NEW i \in DOMAIN s.todo
        PROVE  s.todo[i] \in AfterLock
    <3>1. i + 1 \in DOMAIN t.todo /\ 1 < i + 1 /\ s.todo[i] = t.todo[i + 1]
      BY <1>2
    <3>2. CASE t.todo[1] = "lock"
      BY <1>2, <1>6, <3>1, <3>2 DEF Tidy, LockOnce
    <3>3. CASE t.owned # {}
      BY <1>6, <3>1, <3>3 DEF Tidy
    <3> QED BY <2>3, <3>2, <3>3
  <2> QED BY <2>1, <2>2, <2>3 DEF LockOnce
<1> QED BY <1>5, <1>6 DEF Tidy

(* A statement of a file or of the sku batch is put before the rest.       *)
LEMMA TidyPush ==
    ASSUME NEW t, TxTypes(t), Tidy(t), t.todo # <<>>, t.todo[1] # "commit",
           NEW s, s.cmd = t.cmd, t.cmd.kind \notin Creates, NEW x \in Statement,
           s.todo \in {t.todo, Tail(t.todo), <<x>> \o t.todo, <<x>> \o Tail(t.todo)}
    PROVE  Tidy(s)
<1> DEFINE r == [todo |-> Tail(t.todo), cmd |-> t.cmd, shared |-> t.shared, owned |-> t.owned]
<1>1. t.todo \in Seq(Statement) /\ <<x>> \in Seq(Statement)
  BY TxFacts
<1>2. Tail(t.todo) \in Seq(Statement)
  BY <1>1, TailFacts
<1>3. Tidy(r)
  <2>1. /\ r.todo = Tail(t.todo) /\ r.cmd = t.cmd /\ r.shared = t.shared /\ r.owned = t.owned
    OBVIOUS
  <2> HIDE DEF r
  <2> QED BY <2>1, TidyPop
<1>4. Tail(t.todo) # <<>>
  <2>1. Len(t.todo) # 1
    BY <1>1 DEF Tidy
  <2> QED BY <1>1, <2>1, LastFacts
<1>5. Tail(t.todo)[Len(Tail(t.todo))] = "commit"
  BY <1>3, <1>4 DEF Tidy
<1>6. t.todo[Len(t.todo)] = "commit"
  BY DEF Tidy
<1>7. ASSUME NEW q \in Seq(Statement), q # <<>>, q[Len(q)] = "commit"
      PROVE  <<x>> \o q # <<>> /\ (<<x>> \o q)[Len(<<x>> \o q)] = "commit"
  BY <1>1, <1>7, JoinLast
<1>8. s.todo # <<>> /\ s.todo[Len(s.todo)] = "commit"
  BY <1>1, <1>2, <1>4, <1>5, <1>6, <1>7
<1> QED BY <1>8 DEF Tidy

(* A transaction's step, given what it comes to.                           *)
LEMMA TidyStep ==
    ASSUME MenuInv, AllTidy, NEW w \in Writers, NEW s, Tidy(s), mtx' = [mtx EXCEPT ![w] = s]
    PROVE  AllTidy'
  BY DEF AllTidy, MenuInv, Tables

LEMMA RollBackTidy ==
    ASSUME MenuInv, AllTidy, NEW w \in Writers, RollBack(w)
    PROVE  AllTidy'
  BY NoTxTidy, TidyStep DEF RollBack

(* A statement that takes no lock but the category's, or is not a create's. *)
LEMMA ProceedTidy ==
    ASSUME MenuInv, AllTidy, NEW w \in Writers, NEW x, Current(w) = x, x \notin {"idle", "commit"},
           NEW s, {"todo", "cmd", "owned", "shared"} \subseteq DOMAIN s, Proceed(w, s),
           s.todo = mtx[w].todo, s.cmd = mtx[w].cmd,
           \/ s.shared = mtx[w].shared /\ (s.owned = mtx[w].owned \/ x = "lock")
           \/ mtx[w].cmd.kind \notin Creates
    PROVE  AllTidy'
<1> DEFINE t == mtx[w]
           r == [s EXCEPT !.todo = Tail(@)]
<1>1. TxTypes(t) /\ t.todo # <<>> /\ t.todo[1] = x
  BY AtFacts
<1>2. r.todo = Tail(t.todo) /\ r.cmd = t.cmd /\ r.owned = s.owned /\ r.shared = s.shared
  OBVIOUS
<1>3. mtx' = [mtx EXCEPT ![w] = r]
  BY DEF Proceed
<1>4. Tidy(t)
  BY DEF AllTidy
<1> HIDE DEF r
<1>5. CASE s.shared = t.shared /\ (s.owned = t.owned \/ x = "lock")
  BY <1>1, <1>2, <1>3, <1>4, <1>5, TidyPop, TidyStep
<1>6. CASE t.cmd.kind \notin Creates
  BY <1>1, <1>2, <1>3, <1>4, <1>6, TidyPush, TidyStep DEF Statement
<1> QED BY <1>5, <1>6

LEMMA SameTidy ==
    ASSUME MenuInv, AllTidy, NEW w \in Writers, Proceed(w, mtx[w]), Current(w) \notin {"idle", "commit"}
    PROVE  AllTidy'
<1> DEFINE x == Current(w)
<1>1. mtx[w] \in Tx
  BY DEF MenuInv, Tables
<1>2. {"todo", "cmd", "owned", "shared"} \subseteq DOMAIN mtx[w]
  BY <1>1 DEF Tx
<1> HIDE DEF x
<1> QED BY <1>2, ProceedTidy

LEMMA CommandTidy ==
    ASSUME MenuInv, AllTidy, NEW w \in Writers,
           \/ Validate(w) \/ LockTarget(w) \/ FindCategory(w) \/ LockCategory(w) \/ CheckName(w)
           \/ CheckSku(w)
    PROVE  AllTidy'
<1> DEFINE t == mtx[w]
<1>1. t \in Tx
  BY DEF MenuInv, Tables
<1>2. CASE RollBack(w)
  BY <1>2, RollBackTidy
<1>3. CASE Proceed(w, t) /\ Current(w) \notin {"idle", "commit"}
  BY <1>3, SameTidy
<1>4. CASE LockTarget(w)
  <2> DEFINE s == [t EXCEPT !.owned = @ \cup {t.cmd.id}]
  <2>1. {"todo", "cmd", "owned", "shared"} \subseteq DOMAIN s /\ s.todo = t.todo /\ s.cmd = t.cmd
    BY <1>1 DEF Tx
  <2>2. Proceed(w, s) /\ Current(w) = "row"
    BY <1>4 DEF LockTarget
  <2>3. t.cmd.kind \notin Creates
    BY <2>2, AtFacts DEF Plan, Creates
  <2> HIDE DEF s
  <2> QED BY <2>1, <2>2, <2>3, ProceedTidy
<1>5. CASE FindCategory(w)
  <2> DEFINE s == [t EXCEPT !.found = CatsNamed(w, t.cmd.cat)]
  <2>1. /\ {"todo", "cmd", "owned", "shared"} \subseteq DOMAIN s /\ s.todo = t.todo /\ s.cmd = t.cmd
        /\ s.owned = t.owned /\ s.shared = t.shared
    BY <1>1 DEF Tx
  <2>2. Proceed(w, s) /\ Current(w) = "find"
    BY <1>5 DEF FindCategory
  <2> HIDE DEF s
  <2> QED BY <2>1, <2>2, ProceedTidy
<1>6. CASE LockCategory(w) /\ ~RollBack(w)
  <2>1. PICK k : Proceed(w, [t EXCEPT !.found = {}, !.link = k, !.owned = @ \cup {k}])
    BY <1>6 DEF LockCategory
  <2> DEFINE s == [t EXCEPT !.found = {}, !.link = k, !.owned = @ \cup {k}]
  <2>2. /\ {"todo", "cmd", "owned", "shared"} \subseteq DOMAIN s /\ s.todo = t.todo /\ s.cmd = t.cmd
        /\ s.shared = t.shared
    BY <1>1 DEF Tx
  <2>3. Proceed(w, s) /\ Current(w) = "lock"
    BY <1>6, <2>1 DEF LockCategory
  <2> HIDE DEF s
  <2> QED BY <2>2, <2>3, ProceedTidy
<1> QED BY <1>2, <1>3, <1>4, <1>5, <1>6 DEF Validate, CheckName, CheckSku

(* The write of a command locks nothing.                                   *)
LEMMA WriteTidy ==
    ASSUME MenuInv, AllTidy, NEW w \in Writers,
           InsertProduct(w) \/ InsertCategory(w) \/ UpdateProductRow(w) \/ UpdateCategoryRow(w)
    PROVE  AllTidy'
<1> DEFINE t == mtx[w]
<1>1. t \in Tx
  BY DEF MenuInv, Tables
<1>2. CASE RollBack(w)
  BY <1>2, RollBackTidy
<1>3. CASE ~RollBack(w)
  <2>1. \/ \E k, new : Proceed(w, [t EXCEPT !.p[k] = new])
        \/ \E k, new : Proceed(w, [t EXCEPT !.c[k] = new])
    <3>1. CASE InsertProduct(w)
      BY <3>1 DEF InsertProduct
    <3>2. CASE InsertCategory(w)
      BY <3>2 DEF InsertCategory
    <3>3. CASE UpdateProductRow(w)
      BY <1>3, <3>3 DEF UpdateProductRow, SetSku
    <3>4. CASE UpdateCategoryRow(w)
      BY <3>4 DEF UpdateCategoryRow
    <3> QED BY <3>1, <3>2, <3>3, <3>4
  <2>2. Current(w) \in {"insert", "update"}
    BY DEF InsertProduct, InsertCategory, UpdateProductRow, UpdateCategoryRow
  <2>3. ASSUME NEW k, NEW new, Proceed(w, [t EXCEPT !.p[k] = new])
        PROVE  AllTidy'
    <3> DEFINE s == [t EXCEPT !.p[k] = new]
    <3>1. /\ {"todo", "cmd", "owned", "shared"} \subseteq DOMAIN s /\ s.todo = t.todo /\ s.cmd = t.cmd
          /\ s.owned = t.owned /\ s.shared = t.shared
      BY <1>1 DEF Tx
    <3>2. Proceed(w, s)
      BY <2>3
    <3> HIDE DEF s
    <3> QED BY <2>2, <3>1, <3>2, ProceedTidy
  <2>4. ASSUME NEW k, NEW new, Proceed(w, [t EXCEPT !.c[k] = new])
        PROVE  AllTidy'
    <3> DEFINE s == [t EXCEPT !.c[k] = new]
    <3>1. /\ {"todo", "cmd", "owned", "shared"} \subseteq DOMAIN s /\ s.todo = t.todo /\ s.cmd = t.cmd
          /\ s.owned = t.owned /\ s.shared = t.shared
      BY <1>1 DEF Tx
    <3>2. Proceed(w, s)
      BY <2>4
    <3> HIDE DEF s
    <3> QED BY <2>2, <3>1, <3>2, ProceedTidy
  <2> QED BY <2>1, <2>3, <2>4
<1> QED BY <1>2, <1>3

(* The statements of a file and of the sku batch.                          *)
LEMMA ReadTidy ==
    ASSUME MenuInv, AllTidy, NEW w \in Writers,
           ResolveLines(w) \/ DedupeLines(w) \/ ReadTaken(w) \/ ReadTargets(w) \/ CheckForeignKey(w)
    PROVE  AllTidy'
<1> DEFINE t == mtx[w]
<1>1. t \in Tx
  BY DEF MenuInv, Tables
<1>2. Current(w) \in {"resolve", "dedupe", "taken", "targets", "fk"}
  BY DEF ResolveLines, DedupeLines, ReadTaken, ReadTargets, CheckForeignKey
<1>3. t.cmd.kind \notin Creates
  BY <1>2, AtFacts DEF Plan, Creates
<1>4. CASE ResolveLines(w) \/ DedupeLines(w) \/ ReadTargets(w)
  <2>1. PICK rows : Proceed(w, [t EXCEPT !.rows = rows])
    <3>1. CASE ResolveLines(w)
      BY <3>1 DEF ResolveLines
    <3>2. CASE DedupeLines(w)
      BY <3>2 DEF DedupeLines
    <3>3. CASE ReadTargets(w)
      BY <3>3 DEF ReadTargets
    <3> QED BY <1>4, <3>1, <3>2, <3>3
  <2> DEFINE s == [t EXCEPT !.rows = rows]
  <2>2. {"todo", "cmd", "owned", "shared"} \subseteq DOMAIN s /\ s.todo = t.todo /\ s.cmd = t.cmd
    BY <1>1 DEF Tx
  <2>3. Proceed(w, s)
    BY <2>1
  <2> HIDE DEF s
  <2> QED BY <1>2, <1>3, <2>2, <2>3, ProceedTidy
<1>5. CASE ReadTaken(w)
  <2> DEFINE s == [t EXCEPT !.taken = {SkuOf(prod[k]) : k \in Prods} \ {Null}]
  <2>1. {"todo", "cmd", "owned", "shared"} \subseteq DOMAIN s /\ s.todo = t.todo /\ s.cmd = t.cmd
    BY <1>1 DEF Tx
  <2>2. Proceed(w, s)
    BY <1>5 DEF ReadTaken
  <2> HIDE DEF s
  <2> QED BY <1>2, <1>3, <2>1, <2>2, ProceedTidy
<1>6. CASE CheckForeignKey(w)
  <2> DEFINE s == [t EXCEPT !.shared = @ \cup {t.link}, !.link = Null]
  <2>1. {"todo", "cmd", "owned", "shared"} \subseteq DOMAIN s /\ s.todo = t.todo /\ s.cmd = t.cmd
    BY <1>1 DEF Tx
  <2>2. Proceed(w, s)
    BY <1>6 DEF CheckForeignKey
  <2> HIDE DEF s
  <2> QED BY <1>2, <1>3, <2>1, <2>2, ProceedTidy
<1> QED BY <1>4, <1>5, <1>6

LEMMA LineTidy ==
    ASSUME MenuInv, AllTidy, NEW w \in Writers, FindLine(w) \/ InsertLine(w) \/ OverwriteLine(w)
    PROVE  AllTidy'
<1> DEFINE t == mtx[w]
<1>1. t \in Tx /\ TxTypes(t) /\ Tidy(t) /\ t.todo \in Seq(Statement)
  BY TxFacts DEF MenuInv, Tables, TxInv, AllTidy
<1>2. Current(w) \in {"lines", "add", "overwrite"}
  BY DEF FindLine, InsertLine, OverwriteLine
<1>3. t.cmd.kind \notin Creates /\ t.todo # <<>> /\ t.todo[1] # "commit"
  BY <1>2, AtFacts DEF Plan, Creates
<1>4. CASE Proceed(w, t)
  BY <1>2, <1>4, SameTidy
<1>5. CASE ~Proceed(w, t)
  <2>1. CASE FindLine(w)
    <3> DEFINE ids == ProdsNamed(w, Head(t.rows).name)
    <3>1. PICK x \in {"add", "overwrite", "none"} :
             LET write == IF x = "none" THEN <<>> ELSE <<x>>
             IN mtx' = [mtx EXCEPT ![w] = [t EXCEPT
                          !.todo = write \o @, !.found = IF write = <<>> THEN {} ELSE ids,
                          !.rows = IF write = <<>> THEN Tail(@) ELSE @]]
      <4>1. CASE ids = {}
        BY <1>5, <2>1, <4>1 DEF FindLine
      <4>2. CASE ids # {} /\ Cardinality(ids) = 1
        BY <1>5, <2>1, <4>2 DEF FindLine
      <4>3. CASE ids # {} /\ Cardinality(ids) # 1
        BY <1>5, <2>1, <4>3 DEF FindLine
      <4> QED BY <4>1, <4>2, <4>3
    <3> HIDE DEF ids
    <3>2. CASE x = "none"
      <4> DEFINE s == [t EXCEPT !.todo = <<>> \o @, !.found = {}, !.rows = Tail(@)]
      <4>1. mtx' = [mtx EXCEPT ![w] = s]
        BY <3>1, <3>2
      <4>2. <<>> \o t.todo = t.todo
        BY <1>1
      <4>3. s.cmd = t.cmd /\ s.todo = t.todo
        BY <1>1, <4>2 DEF Tx
      <4> HIDE DEF s
      <4> QED BY <1>1, <1>3, <4>1, <4>3, TidyPush, TidyStep DEF Statement
    <3>3. CASE x # "none"
      <4> DEFINE s == [t EXCEPT !.todo = <<x>> \o @, !.found = ids]
      <4>1. mtx' = [mtx EXCEPT ![w] = s]
        <5>1. <<x>> # <<>>
          OBVIOUS
        <5>2. s = [t EXCEPT !.todo = <<x>> \o @, !.found = ids, !.rows = @]
          BY <1>1 DEF Tx
        <5> QED BY <3>1, <3>3, <5>1, <5>2
      <4>2. s.cmd = t.cmd /\ s.todo = <<x>> \o t.todo
        BY <1>1 DEF Tx
      <4>3. x \in Statement
        BY <3>3 DEF Statement
      <4> HIDE DEF s
      <4> QED BY <1>1, <1>3, <4>1, <4>2, <4>3, TidyPush, TidyStep
    <3> QED BY <3>2, <3>3
  <2>2. CASE InsertLine(w) \/ OverwriteLine(w)
    <3>1. PICK k, new, checked : WriteLine(w, k, new, checked)
      BY <2>2 DEF InsertLine, OverwriteLine
    <3>2. PICK fk \in {<<>>, <<"fk">>} :
             mtx' = [mtx EXCEPT ![w] = [t EXCEPT
                       !.todo = fk \o Tail(@), !.p[k] = new, !.owned = @ \cup {k}, !.found = {},
                       !.link = IF fk = <<>> THEN Null ELSE new.cat, !.rows = Tail(@)]]
      <4>1. CASE checked \/ new.cat \in t.owned \cup t.shared \cup {Null}
        BY <3>1, <4>1 DEF WriteLine
      <4>2. CASE ~(checked \/ new.cat \in t.owned \cup t.shared \cup {Null})
        BY <3>1, <4>2 DEF WriteLine
      <4> QED BY <4>1, <4>2
    <3> DEFINE s == [t EXCEPT !.todo = fk \o Tail(@), !.p[k] = new, !.owned = @ \cup {k}, !.found = {},
                              !.link = IF fk = <<>> THEN Null ELSE new.cat, !.rows = Tail(@)]
    <3>3. s.cmd = t.cmd /\ s.todo = fk \o Tail(t.todo)
      BY <1>1 DEF Tx
    <3>4. <<>> \o Tail(t.todo) = Tail(t.todo)
      <4>1. Tail(t.todo) \in Seq(Statement)
        BY <1>1, <1>3, TailFacts
      <4> QED BY <4>1
    <3>5. mtx' = [mtx EXCEPT ![w] = s]
      BY <3>2
    <3> HIDE DEF s
    <3>6. s.todo \in {Tail(t.todo), <<"fk">> \o Tail(t.todo)} /\ "fk" \in Statement
      BY <3>2, <3>3, <3>4 DEF Statement
    <3> QED BY <1>1, <1>3, <3>3, <3>5, <3>6, TidyPush, TidyStep
  <2> QED BY <2>1, <2>2
<1> QED BY <1>4, <1>5

LEMMA AssignTidy ==
    ASSUME MenuInv, AllTidy, NEW w \in Writers, AssignSku(w)
    PROVE  AllTidy'
<1> DEFINE t == mtx[w]
<1>1. t \in Tx /\ TxTypes(t) /\ Tidy(t) /\ t.todo \in Seq(Statement)
  BY TxFacts DEF MenuInv, Tables, TxInv, AllTidy
<1>2. Current(w) = "assign"
  BY DEF AssignSku
<1>3. t.cmd.kind \notin Creates /\ t.todo # <<>> /\ t.todo[1] # "commit"
  BY <1>2, AtFacts DEF Plan, Creates
<1>4. CASE RollBack(w)
  BY <1>4, RollBackTidy
<1>5. CASE Proceed(w, t)
  BY <1>2, <1>5, SameTidy
<1>6. CASE ~RollBack(w) /\ ~Proceed(w, t)
  <2>1. PICK k, new, sku :
           Proceed(w, [t EXCEPT !.todo = <<"assign">> \o @, !.rows = Tail(@), !.taken = @ \cup {sku},
                                !.p[k] = new, !.owned = @ \cup {k}])
    BY <1>6 DEF AssignSku, SetSku
  <2> DEFINE s == [t EXCEPT !.todo = <<"assign">> \o @, !.rows = Tail(@), !.taken = @ \cup {sku},
                            !.p[k] = new, !.owned = @ \cup {k}]
             r == [s EXCEPT !.todo = Tail(@)]
  <2>2. "todo" \in DOMAIN s /\ "cmd" \in DOMAIN s /\ s.cmd = t.cmd /\ s.todo = <<"assign">> \o t.todo
    BY <1>1 DEF Tx
  <2>3. mtx' = [mtx EXCEPT ![w] = r]
    BY <2>1 DEF Proceed
  <2> HIDE DEF s
  <2>4. r.cmd = t.cmd /\ r.todo = Tail(<<"assign">> \o t.todo)
    BY <2>2
  <2> HIDE DEF r
  <2>5. r.todo = t.todo
    BY <1>1, <2>4, Unpushed DEF Statement
  <2> QED BY <1>1, <1>3, <2>3, <2>4, <2>5, TidyPush, TidyStep DEF Statement
<1> QED BY <1>4, <1>5, <1>6

---------------------------------------------------------------------------
(* A command is sent.                                                      *)
LEMMA BeginTidy ==
    ASSUME MenuInv, AllTidy, NEW w \in Writers, NEW cmd, NEW todo, Begin(w, cmd, todo),
           todo # <<>>, todo[Len(todo)] = "commit",
           cmd.kind \in Creates => LockOnce(todo)
    PROVE  AllTidy'
<1> DEFINE t == [NoTx EXCEPT !.cmd = cmd, !.todo = todo]
<1>1. t.todo = todo /\ t.cmd = cmd /\ t.owned = {} /\ t.shared = {}
  BY DEF NoTx
<1>2. mtx' = [mtx EXCEPT ![w] = t]
  BY DEF Begin
<1> HIDE DEF t
<1>3. Tidy(t)
  BY <1>1 DEF Tidy
<1> QED BY <1>2, <1>3, TidyStep

LEMMA LockJoin ==
    ASSUME NEW S, NEW r \in Seq(S), NEW s \in Seq(S), LockOnce(r), LockOnce(s),
           \/ \A i \in DOMAIN r : r[i] # "lock"
           \/ \A i \in DOMAIN s : s[i] \in AfterLock
    PROVE  LockOnce(r \o s) /\ r \o s \in Seq(S)
<1>1. /\ r \o s \in Seq(S) /\ Len(r) \in Nat /\ Len(s) \in Nat
      /\ DOMAIN r = 1 .. Len(r) /\ DOMAIN s = 1 .. Len(s)
      /\ DOMAIN (r \o s) = 1 .. (Len(r) + Len(s))
      /\ \A i \in DOMAIN r : (r \o s)[i] = r[i]
      /\ \A i \in DOMAIN (r \o s) : i \notin DOMAIN r =>
            i - Len(r) \in DOMAIN s /\ (r \o s)[i] = s[i - Len(r)]
  BY JoinFacts
<1>2. ASSUME NEW i \in DOMAIN (r \o s), NEW j \in DOMAIN (r \o s), (r \o s)[i] = "lock", i < j
      PROVE  (r \o s)[j] \in AfterLock
  <2>1. CASE i \notin DOMAIN r
    <3>1. j \notin DOMAIN r /\ i - Len(r) < j - Len(r)
      BY <1>1, <1>2, <2>1
    <3> QED BY <1>1, <1>2, <2>1, <3>1 DEF LockOnce
  <2>2. CASE i \in DOMAIN r /\ j \in DOMAIN r
    BY <1>1, <1>2, <2>2 DEF LockOnce
  <2>3. CASE i \in DOMAIN r /\ j \notin DOMAIN r
    BY <1>1, <1>2, <2>3
  <2> QED BY <2>1, <2>2, <2>3
<1> QED BY <1>1, <1>2 DEF LockOnce

LEMMA SendTidy ==
    ASSUME MenuInv, AllTidy, NEW w \in Writers, NEW cmd \in Commands, Send(w, cmd)
    PROVE  AllTidy'
<1>1. CASE ApplyMenu(w, cmd)
  <2> DEFINE todo == <<"validate", "find", "lock", "name", "insert", "commit">>
  <2>1. Begin(w, cmd, todo)
    BY <1>1 DEF ApplyMenu
  <2>2. todo # <<>> /\ todo[Len(todo)] = "commit"
    OBVIOUS
  <2>3. LockOnce(todo)
    BY DEF LockOnce, AfterLock
  <2> HIDE DEF todo
  <2> QED BY <2>1, <2>2, <2>3, BeginTidy
<1>2. CASE ApplyCategory(w, cmd)
  <2> DEFINE a == <<"validate">>
             b == If(cmd.cat, <<"find", "lock">>)
             c == <<"name", "insert", "commit">>
             P == Plan(cmd.kind)
             d == a \o b
  <2>1. cmd.kind = "create_category" /\ Begin(w, cmd, d \o c)
    BY <1>2 DEF ApplyCategory
  <2>2. a \in Seq(P) /\ b \in Seq(P) /\ c \in Seq(P)
    BY <2>1, CreatePlans, IfReads
  <2>3. LockOnce(a) /\ LockOnce(b) /\ LockOnce(c) /\ \A i \in DOMAIN a : a[i] # "lock"
    BY DEF LockOnce, If
  <2>4. (\A i \in DOMAIN c : c[i] \in AfterLock) /\ c # <<>> /\ c[Len(c)] = "commit"
    BY DEF AfterLock
  <2> HIDE DEF a, b, c, P
  <2>5. LockOnce(d) /\ d \in Seq(P)
    BY <2>2, <2>3, LockJoin
  <2> HIDE DEF d
  <2> DEFINE todo == d \o c
  <2>6. LockOnce(todo)
    BY <2>2, <2>3, <2>4, <2>5, LockJoin
  <2>7. todo # <<>> /\ todo[Len(todo)] = "commit"
    BY <2>2, <2>4, <2>5, JoinLast
  <2>8. Begin(w, cmd, todo)
    BY <2>1
  <2> HIDE DEF todo
  <2> QED BY <2>6, <2>7, <2>8, BeginTidy
<1>3. ASSUME cmd.kind \in {"update_product", "update_category"},
             NEW b \in Seq(Plan(cmd.kind)), NEW c \in Seq(Plan(cmd.kind)),
             Begin(w, cmd, <<"validate", "row">> \o b \o c \o <<"update", "commit">>)
      PROVE  AllTidy'
  <2> DEFINE a == <<"validate", "row">>
             e == <<"update", "commit">>
             P == Plan(cmd.kind)
  <2>1. a \in Seq(P) /\ e \in Seq(P)
    BY <1>3, UpdatePlans
  <2>2. e # <<>> /\ e[Len(e)] = "commit"
    OBVIOUS
  <2>3. Begin(w, cmd, a \o b \o c \o e) /\ b \in Seq(P) /\ c \in Seq(P)
    BY <1>3
  <2> HIDE DEF a, e, P
  <2> DEFINE f == a \o b \o c
  <2>4. f \in Seq(P)
    <3>1. a \o b \in Seq(P)
      BY <2>1, <2>3
    <3> QED BY <2>3, <3>1
  <2> HIDE DEF f
  <2> DEFINE todo == f \o e
  <2>5. todo # <<>> /\ todo[Len(todo)] = "commit"
    BY <2>1, <2>2, <2>4, JoinLast
  <2>6. Begin(w, cmd, todo)
    BY <2>3 DEF f
  <2>7. cmd.kind \notin Creates
    BY <1>3 DEF Creates
  <2> HIDE DEF todo
  <2> QED BY <2>5, <2>6, <2>7, BeginTidy
<1>4. CASE UpdateProduct(w, cmd) \/ UpdateCategory(w, cmd)
  <2>1. CASE UpdateProduct(w, cmd)
    <3> DEFINE b == If(cmd.cat, <<"find", "lock">>)
               c == If(cmd.sku, <<"sku">>)
    <3>1. /\ cmd.kind = "update_product"
          /\ Begin(w, cmd, <<"validate", "row">> \o b \o c \o <<"update", "commit">>)
      BY <2>1 DEF UpdateProduct
    <3>2. b \in Seq(Plan(cmd.kind)) /\ c \in Seq(Plan(cmd.kind))
      BY <3>1, UpdatePlans, IfReads, IfRead
    <3> HIDE DEF b, c
    <3> QED BY <1>3, <3>1, <3>2
  <2>2. CASE UpdateCategory(w, cmd)
    <3> DEFINE b == If(cmd.name, <<"name">>)
               c == If(cmd.cat, <<"find", "lock">>)
    <3>1. /\ cmd.kind = "update_category"
          /\ Begin(w, cmd, <<"validate", "row">> \o b \o c \o <<"update", "commit">>)
      BY <2>2 DEF UpdateCategory
    <3>2. b \in Seq(Plan(cmd.kind)) /\ c \in Seq(Plan(cmd.kind))
      BY <3>1, UpdatePlans, IfReads, IfRead
    <3> HIDE DEF b, c
    <3> QED BY <1>3, <3>1, <3>2
  <2> QED BY <1>4, <2>1, <2>2
<1>5. CASE ImportCsv(w, cmd)
  <2> DEFINE todo == <<"resolve", "dedupe", "lines", "commit">>
  <2>1. Begin(w, cmd, todo) /\ cmd.kind \notin Creates
    BY <1>5 DEF ImportCsv, Creates
  <2>2. todo # <<>> /\ todo[Len(todo)] = "commit"
    OBVIOUS
  <2> HIDE DEF todo
  <2> QED BY <2>1, <2>2, BeginTidy
<1>6. CASE GenerateMissingSkus(w, cmd)
  <2> DEFINE todo == <<"taken", "targets", "assign", "commit">>
  <2>1. Begin(w, cmd, todo) /\ cmd.kind \notin Creates
    BY <1>6 DEF GenerateMissingSkus, Creates
  <2>2. todo # <<>> /\ todo[Len(todo)] = "commit"
    OBVIOUS
  <2> HIDE DEF todo
  <2> QED BY <2>1, <2>2, BeginTidy
<1> QED BY <1>1, <1>2, <1>4, <1>5, <1>6 DEF Send

LEMMA NextTidy ==
    ASSUME MenuInv, AllTidy, [MenuNext]_menuVars
    PROVE  AllTidy'
<1>1. ASSUME NEW w \in Writers, MenuStep(w) PROVE AllTidy'
  <2>1. CASE \/ Validate(w) \/ LockTarget(w) \/ FindCategory(w) \/ LockCategory(w)
             \/ CheckName(w) \/ CheckSku(w)
    BY <2>1, CommandTidy
  <2>2. CASE InsertProduct(w) \/ InsertCategory(w) \/ UpdateProductRow(w) \/ UpdateCategoryRow(w)
    BY <2>2, WriteTidy
  <2>3. CASE ResolveLines(w) \/ DedupeLines(w) \/ ReadTaken(w) \/ ReadTargets(w) \/ CheckForeignKey(w)
    BY <2>3, ReadTidy
  <2>4. CASE FindLine(w) \/ InsertLine(w) \/ OverwriteLine(w)
    BY <2>4, LineTidy
  <2>5. CASE AssignSku(w)
    BY <2>5, AssignTidy
  <2>6. CASE CommitMenu(w)
    BY <2>6, NoTxTidy, TidyStep DEF CommitMenu
  <2>7. CASE AbortMenuDeadlock(w)
    BY <2>7, RollBackTidy DEF AbortMenuDeadlock
  <2> QED BY <1>1, <2>1, <2>2, <2>3, <2>4, <2>5, <2>6, <2>7 DEF MenuStep
<1>2. CASE MenuCrash
  BY <1>2, NoTxTidy DEF MenuCrash, AllTidy
<1>3. CASE UNCHANGED menuVars
  BY <1>3 DEF menuVars, AllTidy
<1> QED BY <1>1, <1>2, <1>3, SendTidy DEF MenuNext

LEMMA TidyInvariant == MenuSpec => [](MenuInv /\ AllTidy)
<1>1. MenuInit => AllTidy
  BY NoTxTidy DEF MenuInit, AllTidy
<1>2. MenuInv /\ AllTidy /\ [MenuNext]_menuVars => AllTidy'
  BY NextTidy
<1> QED BY <1>1, <1>2, MenuInvariant, PTL DEF MenuSpec

---------------------------------------------------------------------------
(* The waits of the transactions.  q is a chain of n waits that starts at  *)
(* w: each transaction of it waits for a lock the next one has.            *)
MenuChain(w, n, q) ==
    /\ q \in [0 .. n -> Writers]
    /\ q[0] = w
    /\ \A k \in 0 .. (n - 1) : q[k + 1] \in MenuBlockers(q[k])

(* The chain of waits of every transaction ends, at one that waits for     *)
(* nobody or at one on a cycle, which PostgreSQL breaks.                   *)
MenuWaitsEnd ==
    \A w \in Writers :
        Current(w) # "idle" =>
            \E n \in 0 .. Cardinality(Writers) : \E q \in [0 .. n -> Writers] :
                /\ MenuChain(w, n, q)
                /\ Current(q[n]) # "idle"
                /\ MenuBlockers(q[n]) = {} \/ MenuDeadlocked(q[n])

(* Whoever is waited for is not over, and a create is waited for only when *)
(* it waits for nobody.                                                    *)
LEMMA MenuWaitFacts ==
    ASSUME MenuInv, AllTidy, NEW w \in Writers, NEW v \in MenuBlockers(w)
    PROVE  /\ v \in Writers /\ Current(v) # "idle"
           /\ mtx[v].cmd.kind \in Creates => MenuBlockers(v) = {}
<1> DEFINE u == mtx[v]
<1>1. /\ v \in Writers
      /\ \/ u.owned # {} \/ u.shared # {}
         \/ \E k \in Prods : u.p[k] # Null
  BY DEF MenuBlockers, SkuInFlight
<1>2. Tidy(u) /\ TxTypes(u) /\ u.todo \in Seq(Statement) /\ WritesLast(u)
  BY <1>1, TxFacts DEF MenuInv, TxInv, AllTidy
<1>3. u.todo # <<>>
  BY <1>1, <1>2 DEF Tidy
<1>4. Head(u.todo) = u.todo[1] /\ 1 \in DOMAIN u.todo
  BY <1>2, <1>3, TailFacts
<1>5. Current(v) = u.todo[1] /\ u.todo[1] \in Statement
  BY <1>2, <1>3, <1>4 DEF Current
<1>6. Current(v) # "idle"
  BY <1>5 DEF Statement
<1>7. ASSUME u.cmd.kind \in Creates
      PROVE  MenuBlockers(v) = {}
  <2>1. u.todo[1] \in AfterLock
    <3>1. CASE u.owned # {}
      BY <1>2, <1>4, <1>7, <3>1 DEF Tidy
    <3>2. CASE \E k \in Prods : u.p[k] # Null
      BY <1>2, <1>4, <1>7, <3>2 DEF WritesLast, Creates, AfterLock
    <3> QED BY <1>1, <1>2, <1>7, <3>1, <3>2 DEF Tidy
  <2> QED BY <1>5, <2>1 DEF MenuBlockers, AfterLock
<1> QED BY <1>1, <1>6, <1>7

(* A collection of subsets of a finite set has a smallest member.          *)
LEMMA SmallestOf ==
    ASSUME NEW D, IsFiniteSet(D), NEW C \in SUBSET SUBSET D, C # {}
    PROVE  \E X \in C : \A Y \in C : ~(Y \subseteq X /\ Y # X)
<1>1. FiniteSubsetsOf(D) = SUBSET D
  BY FS_FiniteSubsetsOfFinite
<1>2. IsWellFoundedOn(StrictSubsetOrdering(D), SUBSET D)
  BY <1>1, FS_StrictSubsetOrderingWellFounded
<1>3. PICK X \in C : \A Y \in C : <<Y, X>> \notin StrictSubsetOrdering(D)
  BY <1>2, WFMin
<1> QED BY <1>3 DEF StrictSubsetOrdering

(* A chain can be followed until it ends.                                  *)
LEMMA MenuChainGoesOn ==
    ASSUME MenuInv, AllTidy, NEW w \in Writers, NEW N \in Nat
    PROVE  \/ \E n \in 0 .. N : \E p : MenuChain(w, n, p) /\ MenuBlockers(p[n]) = {}
           \/ \E p : MenuChain(w, N, p)
<1> DEFINE Short(n) == ~ \E p : MenuChain(w, n, p)
           C == {X \in SUBSET (0 .. N) : \E n \in 0 .. N : X = 0 .. n /\ Short(n)}
<1> SUFFICES ASSUME \A n \in 0 .. N : \A p : MenuChain(w, n, p) => MenuBlockers(p[n]) # {},
                    Short(N)
             PROVE  FALSE
  OBVIOUS
<1>1. 0 .. N \in C
  OBVIOUS
<1>2. IsFiniteSet(0 .. N)
  BY FS_Interval
<1>3. PICK X \in C : \A Y \in C : ~(Y \subseteq X /\ Y # X)
  <2> DEFINE D == 0 .. N
  <2>1. C \in SUBSET SUBSET D /\ C # {} /\ IsFiniteSet(D)
    BY <1>1, <1>2
  <2> HIDE DEF C, D
  <2> QED
    BY <2>1, SmallestOf
<1>4. PICK n \in 0 .. N : X = 0 .. n /\ Short(n)
  OBVIOUS
<1>5. CASE n = 0
  <2> DEFINE q == [k \in 0 .. 0 |-> w]
  <2>1. MenuChain(w, 0, q)
    BY DEF MenuChain
  <2> QED
    BY <1>4, <1>5, <2>1
<1>6. CASE n # 0
  <2>1. n - 1 \in 0 .. N /\ n \in Nat
    BY <1>6
  <2>2. ~ Short(n - 1)
    <3>1. 0 .. (n - 1) \subseteq X /\ 0 .. (n - 1) # X /\ 0 .. (n - 1) \in SUBSET (0 .. N)
      BY <1>4, <2>1
    <3>2. 0 .. (n - 1) \notin C
      BY <1>3, <3>1
    <3> QED
      BY <2>1, <3>1, <3>2
  <2>3. PICK p : MenuChain(w, n - 1, p)
    BY <2>2
  <2>4. PICK v : v \in MenuBlockers(p[n - 1])
    BY <2>1, <2>3
  <2>5. v \in Writers
    <3>1. p[n - 1] \in Writers
      BY <2>1, <2>3 DEF MenuChain
    <3> QED
      BY <2>4, <3>1, MenuWaitFacts
  <2> DEFINE q == [k \in 0 .. n |-> IF k = n THEN v ELSE p[k]]
  <2>6. q \in [0 .. n -> Writers] /\ q[0] = w
    BY <1>6, <2>1, <2>3, <2>5 DEF MenuChain
  <2>7. ASSUME NEW k \in 0 .. (n - 1) PROVE q[k + 1] \in MenuBlockers(q[k])
    <3>1. CASE k = n - 1
      <4>1. q[k] = p[n - 1] /\ q[k + 1] = v
        BY <2>1, <3>1
      <4> QED
        BY <2>4, <4>1
    <3>2. CASE k # n - 1
      <4>1. k \in 0 .. (n - 1 - 1) /\ q[k] = p[k] /\ q[k + 1] = p[k + 1]
        BY <2>1, <3>2
      <4> QED
        BY <2>3, <4>1 DEF MenuChain
    <3> QED
      BY <3>1, <3>2
  <2>8. MenuChain(w, n, q)
    BY <2>6, <2>7 DEF MenuChain
  <2> QED
    BY <1>4, <2>8
<1> QED
  BY <1>5, <1>6

(* A chain of as many waits as there are transactions passes one twice.        *)
LEMMA LongMenuChain ==
    ASSUME NEW w \in Writers, NEW p, MenuChain(w, Cardinality(Writers), p)
    PROVE  \E i \in 0 .. Cardinality(Writers) : MenuDeadlocked(p[i])
<1> DEFINE N == Cardinality(Writers)
<1>1. N \in Nat /\ IsFiniteSet(Writers)
  BY MenuAssumption, FS_CardinalityType
<1>2. IsFiniteSet(0 .. N) /\ Cardinality(0 .. N) = N + 1
  BY <1>1, FS_Interval
<1>3. p \in [0 .. N -> Writers]
  BY DEF MenuChain
<1>4. \E i, j \in 0 .. N : i < j /\ p[i] = p[j]
  <2> HIDE DEF N
  <2>0. Cardinality(Writers) = N
    BY DEF N
  <2>1. PICK i, j \in 0 .. N : i # j /\ p[i] = p[j]
    BY <1>1, <1>2, <1>3, <2>0, FS_PigeonHole
  <2> QED
    BY <1>1, <2>1
<1>5. PICK i, j \in 0 .. N : i < j /\ p[i] = p[j]
  BY <1>4
<1> DEFINE n == j - i
           q == [k \in 0 .. n |-> p[i + k]]
<1>6. n \in 1 .. N /\ i \in Nat /\ j \in Nat
  BY <1>1, <1>5
<1>7. \A k \in 0 .. n : i + k \in 0 .. N
  BY <1>1, <1>5
<1>8. q \in [0 .. n -> Writers] /\ q[0] = p[i] /\ q[n] = p[i]
  BY <1>1, <1>3, <1>5, <1>6, <1>7
<1>9. ASSUME NEW k \in 0 .. (n - 1) PROVE q[k + 1] \in MenuBlockers(q[k])
  <2>1. i + k \in 0 .. (N - 1) /\ k \in 0 .. n /\ k + 1 \in 0 .. n
    BY <1>1, <1>5, <1>6
  <2>2. q[k] = p[i + k] /\ q[k + 1] = p[i + k + 1]
    BY <1>6, <2>1
  <2> QED
    BY <2>1, <2>2 DEF MenuChain
<1>10. MenuDeadlocked(p[i])
  <2> HIDE DEF q, n
  <2> QED
    BY <1>6, <1>8, <1>9 DEF MenuDeadlocked
<1> QED
  BY <1>10

LEMMA MenuWaitsEndInv == MenuInv /\ AllTidy => MenuWaitsEnd
<1> SUFFICES ASSUME MenuInv, AllTidy, NEW w \in Writers, Current(w) # "idle"
             PROVE  \E n \in 0 .. Cardinality(Writers) : \E p \in [0 .. n -> Writers] :
                        /\ MenuChain(w, n, p)
                        /\ Current(p[n]) # "idle"
                        /\ MenuBlockers(p[n]) = {} \/ MenuDeadlocked(p[n])
  BY DEF MenuWaitsEnd
<1> DEFINE N == Cardinality(Writers)
<1>1. N \in Nat
  BY MenuAssumption, FS_CardinalityType
<1>2. ASSUME NEW n \in 0 .. N, NEW p, MenuChain(w, n, p)
      PROVE  Current(p[n]) # "idle"
  <2>1. CASE n = 0
    BY <1>2, <2>1 DEF MenuChain
  <2>2. CASE n # 0
    <3>1. n - 1 \in 0 .. (n - 1) /\ n - 1 \in 0 .. n /\ (n - 1) + 1 = n
      BY <1>1, <2>2
    <3>2. p[n - 1] \in Writers /\ p[n] \in MenuBlockers(p[n - 1])
      BY <1>2, <3>1 DEF MenuChain
    <3> QED
      BY <3>2, MenuWaitFacts
  <2> QED
    BY <2>1, <2>2
<1>3. ASSUME NEW n \in 0 .. N, NEW p, MenuChain(w, n, p), MenuBlockers(p[n]) = {}
      PROVE  \E m \in 0 .. N : \E q \in [0 .. m -> Writers] :
                 /\ MenuChain(w, m, q)
                 /\ Current(q[m]) # "idle"
                 /\ MenuBlockers(q[m]) = {} \/ MenuDeadlocked(q[m])
  BY <1>2, <1>3 DEF MenuChain
<1>4. ASSUME NEW p, MenuChain(w, N, p)
      PROVE  \E m \in 0 .. N : \E q \in [0 .. m -> Writers] :
                 /\ MenuChain(w, m, q)
                 /\ Current(q[m]) # "idle"
                 /\ MenuBlockers(q[m]) = {} \/ MenuDeadlocked(q[m])
  <2>1. PICK m \in 0 .. N : MenuDeadlocked(p[m])
    BY <1>4, LongMenuChain
  <2> DEFINE q == [k \in 0 .. m |-> p[k]]
  <2>2. \A k \in 0 .. m : k \in 0 .. N /\ q[k] = p[k]
    BY <1>1
  <2>3. \A k \in 0 .. (m - 1) : k \in 0 .. (N - 1) /\ k \in 0 .. m /\ k + 1 \in 0 .. m
    BY <1>1
  <2>4. 0 \in 0 .. m /\ m \in 0 .. m
    BY <1>1
  <2>5. q \in [0 .. m -> Writers] /\ q[0] = w /\ q[m] = p[m]
    BY <1>4, <2>2, <2>4 DEF MenuChain
  <2>6. \A k \in 0 .. (m - 1) : q[k + 1] \in MenuBlockers(q[k])
    BY <1>4, <2>2, <2>3 DEF MenuChain
  <2>7. MenuChain(w, m, q)
    BY <2>5, <2>6 DEF MenuChain
  <2> HIDE DEF q
  <2> QED
    BY <1>2, <2>1, <2>5, <2>7
<1> QED
  BY <1>1, <1>3, <1>4, MenuChainGoesOn

(* No command, file or batch waits forever for lack of anyone who could go *)
(* on: follow the locks it waits for (the FOR UPDATEs of                   *)
(* menu_agent_tools.py, the UPDATEs of menu_import_tools.py, the foreign   *)
(* key and the unique index), and there is a transaction that runs or a    *)
(* cycle that the deadlock detector breaks.  With the fairness of the      *)
(* event loop this is why MenuWriteEnds.                                   *)
THEOREM MenuNobodyIsStuck == MenuSpec => []MenuWaitsEnd
BY TidyInvariant, MenuWaitsEndInv, PTL

(* A create is never the victim of a deadlock.                             *)
CreatesSurvive ==
    \A w \in Writers : MenuDeadlocked(w) => mtx[w].cmd.kind \notin Creates

LEMMA VictimsUpdate == MenuInv /\ AllTidy => CreatesSurvive
<1> SUFFICES ASSUME MenuInv, AllTidy, NEW w \in Writers, MenuDeadlocked(w)
             PROVE  mtx[w].cmd.kind \notin Creates
  BY DEF CreatesSurvive
<1>1. Cardinality(Writers) \in Nat
  BY MenuAssumption, FS_CardinalityType
<1>2. PICK n \in 1 .. Cardinality(Writers) : \E q \in [0 .. n -> Writers] :
         q[0] = w /\ q[n] = w /\ \A i \in 0 .. (n - 1) : q[i + 1] \in MenuBlockers(q[i])
  BY DEF MenuDeadlocked
<1>3. PICK q \in [0 .. n -> Writers] :
         q[0] = w /\ q[n] = w /\ \A i \in 0 .. (n - 1) : q[i + 1] \in MenuBlockers(q[i])
  BY <1>2
<1>4. 0 \in 0 .. (n - 1) /\ n - 1 \in 0 .. (n - 1) /\ n - 1 \in 0 .. n /\ (n - 1) + 1 = n
  BY <1>1
<1>5. q[0 + 1] \in MenuBlockers(w) /\ w \in MenuBlockers(q[n - 1]) /\ q[n - 1] \in Writers
  BY <1>3, <1>4
<1> QED BY <1>5, MenuWaitFacts

(* apply_menu and apply_category lock one row, their category, and ask for *)
(* nothing after it: PostgreSQL never aborts a create, only updates, files *)
(* and the sku batch (menu_agent_tools.py, menu_import_tools.py).          *)
THEOREM CreatesAreNotAborted == MenuSpec => []CreatesSurvive
BY TidyInvariant, VictimsUpdate, PTL

=============================================================================
