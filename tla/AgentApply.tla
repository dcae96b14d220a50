---------------------------- MODULE AgentApply ----------------------------
(***************************************************************************)
(* The apply phase of the admin agents, for the two tables whose commands  *)
(* name their row: delivery zones and promotions.  A command is validated, *)
(* its target looked up by name and locked, the rules checked again, the   *)
(* row written and the transaction committed, one SQL statement at a time  *)
(* under READ COMMITTED, while other agents do the same.                   *)
(*                                                                         *)
(* A zone's time and fee and a promotion's effect are not told apart, and  *)
(* an instruction no command is made of is not a step.                     *)
(***************************************************************************)
EXTENDS FiniteSets, Naturals

CONSTANTS
    Agents,    \* apply phases running at once (bound)
    Rows,      \* row ids (bound)
    Names,     \* zone or promotion names, up to letter case
    Codes,     \* promotions' trigger codes, up to letter case
    None       \* no row, name, code or action

VARIABLES
    table,     \* which table this behaviour is about; never changes
    row,       \* its committed rows
    tx         \* the apply phases in progress

vars == <<table, row, tx>>

State == {"ACTIVE", "RETIRED", "CREATED", "EXPIRED", "ARCHIVED"}

Action == {"create", "update", "activate", "deactivate", "expire", "archive"}

Row == [name : Names, state : State, code : Codes \cup {None}]

(* form: the row a form was opened on; found: the rows the lookup saw; id: *)
(* the row that is locked or inserted; to: the state it will get, None for *)
(* the one it has; new: what is written to it.                             *)
Tx == [pc : {"idle", "validate", "find", "lock", "check", "write", "commit"},
       act : Action \cup {None}, target : Names \cup {None}, name : Names \cup {None},
       code : Codes \cup {None}, form : Rows \cup {None}, found : SUBSET Rows,
       id : Rows \cup {None}, to : State \cup {None}, new : Row \cup {None}]

NoTx == [pc |-> "idle", act |-> None, target |-> None, name |-> None, code |-> None,
         form |-> None, found |-> {}, id |-> None, to |-> None, new |-> None]

ASSUME AgentApplyAssumption ==
    /\ None \notin Rows \cup Names \cup Codes \cup State \cup Action \cup Row
    /\ IsFiniteSet(Rows) /\ IsFiniteSet(Agents)

AgentTypeOK ==
    /\ table \in {"zone", "promotion"}
    /\ row \in [Rows -> Row \cup {None}]
    /\ tx \in [Agents -> Tx]

Init ==
    /\ table \in {"zone", "promotion"}
    /\ row = [r \in Rows |-> None]
    /\ tx = [a \in Agents |-> NoTx]

---------------------------------------------------------------------------
(* What the actions other than create do to a row's state.                 *)
ZONE_ACTIONS ==
    {<<"ACTIVE", "update", "ACTIVE">>,
     <<"ACTIVE", "deactivate", "RETIRED">>,
     <<"RETIRED", "activate", "ACTIVE">>}

PROMOTION_TRANSITIONS ==
    {<<"CREATED", "activate", "ACTIVE">>,
     <<"ACTIVE", "expire", "EXPIRED">>,
     <<"EXPIRED", "archive", "ARCHIVED">>}

Edges == IF table = "zone" THEN ZONE_ACTIONS ELSE PROMOTION_TRANSITIONS

Live(r) == row[r] # None

(* The rows a lookup for the action returns: a zone only in the state the  *)
(* action is for, a promotion in any.                                      *)
Matches(act, n) ==
    {r \in Rows : /\ Live(r) /\ row[r].name = n
                  /\ table = "zone" => \E e \in Edges : e[1] = row[r].state /\ e[2] = act}

(* The names a new zone or promotion may not have.  A promotion's name is  *)
(* taken whatever its state, a zone's only while it is active.             *)
Taken(n, except) ==
    \E r \in Rows \ {except} :
        Live(r) /\ row[r].name = n /\ (table = "zone" => row[r].state = "ACTIVE")

CodeTaken(c) == c # None /\ \E r \in Rows : Live(r) /\ row[r].code = c

(* The rules of a create or of a change of row r.                          *)
MayCreate(t) == ~Taken(t.name, None) /\ ~CodeTaken(t.code)

MayChange(t, r) == \E e \in Edges : e[1] = row[r].state /\ e[2] = t.act

(* A slip: the action is stored instead of the state it leads to.          *)
ActionWritten(t) ==
    IF t.act = "create"
    THEN [name |-> t.name, code |-> t.code, state |-> t.act]
    ELSE [row[t.id] EXCEPT !.name = IF t.name = None THEN @ ELSE t.name, !.state = t.act]

(* The state an action leads to; an update does not set it.                *)
Target(act, s) ==
    IF act = "update" THEN None
    ELSE (CHOOSE e \in Edges : e[1] = s /\ e[2] = act)[3]

(* The row that is written: a create's, or the locked one changed.         *)
Written(t) ==
    IF t.act = "create"
    THEN [name |-> t.name, code |-> t.code,
          state |-> IF table = "zone" THEN "ACTIVE" ELSE "CREATED"]
    ELSE [row[t.id] EXCEPT
            !.name = IF t.name = None THEN @ ELSE t.name,
            !.state = IF t.to = None THEN @ ELSE t.to]

(* A slip: no unique index.                                                *)
NoKey(v) == None

(* The unique indexes: of active zones' names, of promotions' codes.       *)
Key(v) ==
    IF v = None THEN None
    ELSE IF table = "zone" THEN (IF v.state = "ACTIVE" THEN v.name ELSE None) ELSE v.code

---------------------------------------------------------------------------
Start(a, t) ==
    /\ tx[a].pc = "idle"
    /\ tx' = [tx EXCEPT ![a] = [t EXCEPT !.pc = "validate"]]
    /\ UNCHANGED <<table, row>>

(* The bound on rows leaves an id for every create in progress.            *)
RoomToCreate ==
    Cardinality({r \in Rows : Live(r)}) + Cardinality({b \in Agents : tx[b].act = "create"})
        < Cardinality(Rows)

(* An instruction the collect phase made a command of.                     *)
Instruct(a) ==
    \/ \E n \in Names, c \in Codes \cup {None} :
          /\ RoomToCreate
          /\ table = "zone" => c = None
          /\ Start(a, [NoTx EXCEPT !.act = "create", !.name = n, !.code = c])
    \/ \E e \in Edges, n \in Names, new \in Names \cup {None} :
          /\ e[2] # "update" => new = None
          /\ Start(a, [NoTx EXCEPT !.act = e[2], !.target = n, !.name = new])

(* PATCH /zones/{zone_id}/apply: the zone's name is looked up by its id,   *)
(* and the command names the zone by it.                                   *)
Form(a) ==
    /\ table = "zone"
    /\ \E r \in Rows, new \in Names \cup {None} :
          /\ Live(r)
          /\ Start(a, [NoTx EXCEPT !.act = "update", !.target = row[r].name,
                                   !.name = new, !.form = r])

(* The transaction goes on, or ends without a change.                      *)
Go(a, to) ==
    /\ tx' = [tx EXCEPT ![a] = to]
    /\ UNCHANGED <<table, row>>

(* A slip: the session is left as it is.                                   *)
KeepOpen(a) == Go(a, tx[a])

(* Rejected or raised: the transaction is rolled back.                     *)
Rollback(a) == Go(a, NoTx)

(* validate_apply_*: early rejection.                                      *)
Validate(a) ==
    /\ tx[a].pc = "validate"
    /\ LET t == tx[a]
           ms == Matches(t.act, t.target)
           ok == IF t.act = "create" THEN MayCreate(t)
                 ELSE /\ Cardinality(ms) = 1 /\ \A r \in ms : MayChange(t, r)
                      /\ (table = "zone" /\ t.act = "activate") => ~Taken(t.target, None)
       IN IF ~ok THEN Rollback(a)
          ELSE Go(a, [t EXCEPT !.pc = IF t.act = "create" THEN "check" ELSE "find"])

(* SELECT ... FOR UPDATE, first part: the rows the statement's snapshot    *)
(* shows.                                                                  *)
Find(a) ==
    /\ tx[a].pc = "find"
    /\ Go(a, [tx[a] EXCEPT !.pc = "lock", !.found = Matches(tx[a].act, tx[a].target)])

(* A slip: SELECT without FOR UPDATE.                                      *)
NotLocked(r, a) == FALSE

(* Another transaction has locked the row.                                 *)
Locked(r, a) == \E b \in Agents \ {a} : tx[b].id = r /\ tx[b].act # "create"

(* A slip: the rows are not looked at again once they are locked.          *)
BlindLock(a) ==
    /\ tx[a].pc = "lock"
    /\ \A r \in tx[a].found : ~Locked(r, a)
    /\ IF Cardinality(tx[a].found) = 1
       THEN \E r \in tx[a].found :
               Go(a, [tx[a] EXCEPT !.pc = "check", !.found = {}, !.id = r, !.to = row[r].state])
       ELSE Rollback(a)

(* Second part: once nobody else has them they are locked and looked at    *)
(* again; exactly one must be left, and the action allowed in its state.   *)
Lock(a) ==
    /\ tx[a].pc = "lock"
    /\ \A r \in tx[a].found : ~Locked(r, a)
    /\ LET t == tx[a]
           ms == t.found \cap Matches(t.act, t.target)
       IN IF Cardinality(ms) = 1 /\ \A r \in ms : MayChange(t, r)
          THEN \E r \in ms :
                  Go(a, [t EXCEPT !.pc = "check", !.found = {}, !.id = r,
                                  !.to = Target(t.act, row[r].state)])
          ELSE Rollback(a)

(* The name, and a promotion's code, must be free.                         *)
Check(a) ==
    /\ tx[a].pc = "check"
    /\ LET t == tx[a]
           ok == CASE t.act = "create" -> MayCreate(t)
                   [] t.act = "update" -> t.name # None => ~Taken(t.name, t.id)
                   [] t.act = "activate" /\ table = "zone" -> ~Taken(t.target, t.id)
                   [] OTHER -> TRUE
       IN IF ok THEN Go(a, [t EXCEPT !.pc = "write"]) ELSE Rollback(a)

(* INSERT or UPDATE: waits for a transaction that is adding or removing    *)
(* the same key, and raises when the key is another row's.                 *)
Write(a) ==
    /\ tx[a].pc = "write"
    /\ LET t == tx[a]
           v == Written(t)
           Same(w) == Key(v) # None /\ Key(w) = Key(v)
           free == {r \in Rows : ~Live(r) /\ \A b \in Agents : tx[b].id # r}
       IN /\ \A b \in Agents \ {a} :
                tx[b].pc = "commit" => ~Same(tx[b].new) /\ ~Same(row[tx[b].id])
          /\ IF \E r \in Rows \ {t.id} : Same(row[r])
             THEN Rollback(a)
             ELSE \E r \in IF t.act = "create" THEN free ELSE {t.id} :
                     Go(a, [t EXCEPT !.pc = "commit", !.id = r, !.new = v])

(* The caller of the tools commits.                                        *)
Commit(a) ==
    /\ tx[a].pc = "commit"
    /\ row' = [row EXCEPT ![tx[a].id] = tx[a].new]
    /\ tx' = [tx EXCEPT ![a] = NoTx]
    /\ UNCHANGED table

(* The server process restarts.                                            *)
Crash ==
    /\ tx' = [a \in Agents |-> NoTx]
    /\ UNCHANGED <<table, row>>

Apply(a) == Validate(a) \/ Find(a) \/ Lock(a) \/ Check(a) \/ Write(a) \/ Commit(a)

Next ==
    \/ \E a \in Agents : Instruct(a) \/ Form(a) \/ Apply(a)
    \/ Crash

Spec == Init /\ [][Next]_vars

(* A statement that waits for a lock is woken in turn.                     *)
FairSpec == Spec /\ \A a \in Agents : SF_vars(Apply(a))

---------------------------------------------------------------------------
(* No two active zones have one name and no two promotions one code,       *)
(* although the SELECTs that look for them see only what is committed.     *)
KeysUnique ==
    \A r, s \in Rows :
        (r # s /\ Live(r) /\ Live(s)) =>
            IF table = "zone"
            THEN row[r].name = row[s].name => "RETIRED" \in {row[r].state, row[s].state}
            ELSE row[r].code = row[s].code => row[r].code = None

(* From the lock to the commit, the row a command is about to change has   *)
(* the name the command gave and a state its action is for, whatever was   *)
(* renamed, retired or moved on since the command was validated.           *)
CommandStands ==
    \A a \in Agents :
        (tx[a].pc \in {"check", "write", "commit"} /\ tx[a].act # "create") =>
            /\ row[tx[a].id].name = tx[a].target
            /\ MayChange(tx[a], tx[a].id)

(* Rows are never removed; what is committed to one is a step of its       *)
(* table's graph, and only an active zone is renamed.                      *)
RowStepsLegal ==
    [][\A r \in Rows :
         (Live(r) /\ row'[r] # row[r]) =>
            /\ row'[r] # None
            /\ \E e \in Edges : e[1] = row[r].state /\ e[3] = row'[r].state
            /\ row'[r].name # row[r].name => row[r].state = "ACTIVE" /\ table = "zone"
            /\ row'[r].code = row[r].code]_vars

(* Every apply phase ends: locks and index waits never form a cycle.       *)
ApplyEnds == \A a \in Agents : (tx[a].pc # "idle") ~> (tx[a].pc = "idle")

(* An edit made from a zone's form changes that zone, as long as it is     *)
(* active: after a rename in between it "correctly fails closed instead of *)
(* silently touching a different row" (zone_update).                       *)
FormEditsItsZone ==
    \A a \in Agents :
        (tx[a].pc = "commit" /\ tx[a].form # None /\ row[tx[a].form].state = "ACTIVE") =>
            tx[a].id = tx[a].form

===========================================================================
