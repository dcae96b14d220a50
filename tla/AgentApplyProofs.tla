------------------------- MODULE AgentApplyProofs -------------------------
(***************************************************************************)
(* What the apply phase of the zone and promotion agents keeps, for any    *)
(* number of rows, names, codes and concurrent commands.                   *)
(***************************************************************************)
EXTENDS AgentApply, FiniteSetTheorems, TLAPS

(* A command other than create that has locked its row.                    *)
Holding(t) == t.pc \in {"check", "write", "commit"} /\ t.act # "create"

(* A zone is active or retired; a promotion may be in any other state.     *)
StateOK(v) == table = "zone" => v.state \in {"ACTIVE", "RETIRED"}

(* What is known of a command at each step: only an update renames, only a *)
(* command past the lock or the insert has a row, and a locked row is the  *)
(* one the command named, in a state its action leads from.                *)
TxOK(t) ==
    /\ t.pc # "idle" => t.act # None
    /\ t.act \notin {"create", "update"} => t.name = None
    /\ (t.pc # "idle" /\ t.act = "create") => t.name \in Names
    /\ t.pc \in {"find", "lock"} => t.act # "create"
    /\ (~Holding(t) /\ t.pc # "commit") => t.id = None
    /\ Holding(t) =>
          /\ t.id \in Rows /\ Live(t.id)
          /\ row[t.id].name = t.target
          /\ MayChange(t, t.id)
          /\ IF t.act = "update" THEN t.to = None
             ELSE <<row[t.id].state, t.act, t.to>> \in Edges
    /\ (t.pc = "commit" /\ t.act = "create") => t.id \in Rows /\ ~Live(t.id)
    /\ t.pc = "commit" => t.new \in Row /\ StateOK(t.new)
    /\ (t.pc = "commit" /\ t.act # "create") => t.new = Written(t)

(* No two commands have one row.                                           *)
IdsDistinct ==
    \A a, b \in Agents : (a # b /\ tx[a].id # None) => tx[a].id # tx[b].id

(* The key an uncommitted row has in the index is nobody else's.           *)
IndexOK ==
    \A a \in Agents :
        (tx[a].pc = "commit" /\ Key(tx[a].new) # None) =>
            /\ \A r \in Rows \ {tx[a].id} : Key(row[r]) # Key(tx[a].new)
            /\ \A b \in Agents \ {a} : tx[b].pc = "commit" => Key(tx[b].new) # Key(tx[a].new)

(* No two committed rows have one key.                                     *)
KeysDistinct ==
    \A r, s \in Rows : (r # s /\ Key(row[r]) # None) => Key(row[r]) # Key(row[s])

StatesOK == \A r \in Rows : Live(r) => StateOK(row[r])

AgentInv ==
    /\ AgentTypeOK
    /\ StatesOK
    /\ \A a \in Agents : TxOK(tx[a])
    /\ IdsDistinct
    /\ IndexOK
    /\ KeysDistinct

---------------------------------------------------------------------------
(* A command goes on to t while nothing is committed.                      *)
LEMMA GoInv ==
    ASSUME AgentInv, NEW a \in Agents, NEW t \in Tx, Go(a, t), TxOK(t),
           t.id # None => \A b \in Agents \ {a} : tx[b].id # t.id,
           (t.pc = "commit" /\ Key(t.new) # None) =>
               /\ \A r \in Rows \ {t.id} : Key(row[r]) # Key(t.new)
               /\ \A b \in Agents \ {a} : tx[b].pc = "commit" => Key(tx[b].new) # Key(t.new)
    PROVE  AgentInv'
<1>1. /\ tx' = [tx EXCEPT ![a] = t] /\ UNCHANGED <<table, row>>
      /\ tx \in [Agents -> Tx]
  BY DEF Go, AgentInv, AgentTypeOK
<1>2. AgentTypeOK'
  BY <1>1 DEF AgentInv, AgentTypeOK
<1>3. ASSUME NEW b \in Agents PROVE TxOK(tx[b])'
  <2>1. tx'[b] = IF b = a THEN t ELSE tx[b]
    BY <1>1
  <2>2. TxOK(tx'[b])
    BY <2>1 DEF AgentInv
  <2>3. TxOK(tx'[b]) = TxOK(tx[b])'
    BY <1>1 DEF TxOK, Holding, Live, MayChange, Written, Edges, StateOK
  <2> QED BY <2>2, <2>3
<1>4. IdsDistinct'
  BY <1>1 DEF AgentInv, IdsDistinct
<1>5. IndexOK'
  <2> SUFFICES ASSUME NEW b \in Agents, tx'[b].pc = "commit", Key(tx'[b].new) # None
               PROVE  /\ \A r \in Rows \ {tx'[b].id} : Key(row[r]) # Key(tx'[b].new)
                      /\ \A c \in Agents \ {b} :
                            tx'[c].pc = "commit" => Key(tx'[c].new) # Key(tx'[b].new)
    BY <1>1 DEF IndexOK, Key
  <2> QED
    BY <1>1 DEF AgentInv, IndexOK
<1>6. KeysDistinct'
  BY <1>1 DEF AgentInv, KeysDistinct, Key
<1>7. StatesOK'
  BY <1>1 DEF AgentInv, StatesOK, StateOK, Live
<1> QED BY <1>2, <1>3, <1>4, <1>5, <1>6, <1>7 DEF AgentInv

(* A command that is rolled back.                                          *)
LEMMA RollbackInv ==
    ASSUME AgentInv, NEW a \in Agents, Rollback(a)
    PROVE  AgentInv'
<1>1. NoTx \in Tx
  BY DEF NoTx, Tx
<1>2. TxOK(NoTx)
  BY DEF NoTx, TxOK, Holding
<1>3. NoTx.id = None /\ NoTx.pc # "commit"
  BY DEF NoTx
<1> QED BY <1>1, <1>2, <1>3, GoInv DEF Rollback

(* A new command: well formed, and nothing is locked yet.                  *)
LEMMA StartInv ==
    ASSUME AgentInv, NEW a \in Agents, NEW t \in Tx, Start(a, t),
           t.act \in Action, t.id = None,
           t.act \notin {"create", "update"} => t.name = None,
           t.act = "create" => t.name \in Names
    PROVE  AgentInv'
<1> DEFINE u == [t EXCEPT !.pc = "validate"]
<1>1. u \in Tx /\ u.pc = "validate" /\ u.id = None /\ u.act = t.act /\ u.name = t.name
  BY DEF Tx
<1>2. TxOK(u)
  BY <1>1, AgentApplyAssumption DEF TxOK, Holding
<1>3. Go(a, u)
  BY DEF Start, Go
<1> QED BY <1>1, <1>2, <1>3, GoInv

(* The instruction's commands and the form's are well formed.              *)
LEMMA BeginInv ==
    ASSUME AgentInv, NEW a \in Agents, Instruct(a) \/ Form(a)
    PROVE  AgentInv'
<1>1. NoTx \in Tx
  BY DEF NoTx, Tx
<1>2. ASSUME NEW n \in Names, NEW c \in Codes \cup {None},
             Start(a, [NoTx EXCEPT !.act = "create", !.name = n, !.code = c])
      PROVE  AgentInv'
  <2> DEFINE t == [NoTx EXCEPT !.act = "create", !.name = n, !.code = c]
  <2>1. t \in Tx /\ t.act = "create" /\ t.name = n /\ t.id = None
    BY DEF NoTx, Tx, Action
  <2>2. t.act \in Action
    BY <2>1 DEF Action
  <2> QED BY <1>2, <2>1, <2>2, StartInv
<1>3. ASSUME NEW e \in Edges, NEW n \in Names, NEW new \in Names \cup {None},
             e[2] # "update" => new = None,
             Start(a, [NoTx EXCEPT !.act = e[2], !.target = n, !.name = new])
      PROVE  AgentInv'
  <2> DEFINE t == [NoTx EXCEPT !.act = e[2], !.target = n, !.name = new]
  <2>1. e[2] \in Action /\ e[2] # "create"
    BY DEF Edges, ZONE_ACTIONS, PROMOTION_TRANSITIONS, Action
  <2>2. t \in Tx /\ t.act = e[2] /\ t.name = new /\ t.id = None
    BY <2>1 DEF NoTx, Tx
  <2> QED BY <1>3, <2>1, <2>2, StartInv
<1>4. ASSUME NEW r \in Rows, NEW new \in Names \cup {None}, Live(r),
             Start(a, [NoTx EXCEPT !.act = "update", !.target = row[r].name,
                                   !.name = new, !.form = r])
      PROVE  AgentInv'
  <2> DEFINE t == [NoTx EXCEPT !.act = "update", !.target = row[r].name,
                               !.name = new, !.form = r]
  <2>1. row[r].name \in Names
    BY <1>4 DEF AgentInv, AgentTypeOK, Live, Row
  <2>2. t \in Tx /\ t.act = "update" /\ t.name = new /\ t.id = None
    BY <2>1 DEF NoTx, Tx, Action
  <2>3. t.act \in Action
    BY <2>2 DEF Action
  <2> QED BY <1>4, <2>2, <2>3, StartInv
<1> QED BY <1>2, <1>3, <1>4 DEF Instruct, Form

(* Validation rejects, or goes on without touching anything.               *)
LEMMA ValidateInv ==
    ASSUME AgentInv, NEW a \in Agents, Validate(a)
    PROVE  AgentInv'
<1> DEFINE t == tx[a]
           u == [t EXCEPT !.pc = IF t.act = "create" THEN "check" ELSE "find"]
<1>1. t \in Tx /\ t.pc = "validate" /\ TxOK(t)
  BY DEF Validate, AgentInv, AgentTypeOK
<1>2. Rollback(a) \/ Go(a, u)
  BY DEF Validate
<1>3. /\ u \in Tx /\ u.id = t.id /\ u.act = t.act /\ u.name = t.name
      /\ u.pc = IF t.act = "create" THEN "check" ELSE "find"
  BY <1>1 DEF Tx
<1>4. TxOK(u) /\ u.id = None /\ u.pc # "commit"
  BY <1>1, <1>3 DEF TxOK, Holding
<1> QED BY <1>2, <1>3, <1>4, GoInv, RollbackInv

(* The lookup only notes what it saw.                                      *)
LEMMA FindInv ==
    ASSUME AgentInv, NEW a \in Agents, Find(a)
    PROVE  AgentInv'
<1> DEFINE t == tx[a]
           u == [t EXCEPT !.pc = "lock", !.found = Matches(t.act, t.target)]
<1>1. t \in Tx /\ t.pc = "find" /\ TxOK(t)
  BY DEF Find, AgentInv, AgentTypeOK
<1>2. Go(a, u)
  BY DEF Find
<1>3. u \in Tx /\ u.id = t.id /\ u.act = t.act /\ u.name = t.name /\ u.pc = "lock"
  BY <1>1, ZenonT(60) DEF Tx, Matches
<1>4. TxOK(u) /\ u.id = None
  BY <1>1, <1>3 DEF TxOK, Holding
<1> QED BY <1>2, <1>3, <1>4, GoInv

(* A command that has locked row r, and the fields that are left alone.    *)
WithLock(t, r, s) == [t EXCEPT !.pc = "check", !.found = {}, !.id = r, !.to = s]

(* Locking changes four fields of a command.                               *)
LEMMA WithLockTx ==
    ASSUME NEW t \in Tx, NEW r \in Rows, NEW s \in State \cup {None}
    PROVE  /\ WithLock(t, r, s) \in Tx
           /\ WithLock(t, r, s).pc = "check"
           /\ WithLock(t, r, s).id = r
           /\ WithLock(t, r, s).to = s
           /\ WithLock(t, r, s).act = t.act
           /\ WithLock(t, r, s).name = t.name
           /\ WithLock(t, r, s).target = t.target
BY ZenonT(60) DEF Tx, WithLock

(* The row that is locked is live, has the name and the right state, and   *)
(* nobody else has it.                                                     *)
LEMMA LockInv ==
    ASSUME AgentInv, NEW a \in Agents, Lock(a)
    PROVE  AgentInv'
<1> DEFINE t == tx[a]
           u(r) == WithLock(t, r, Target(t.act, row[r].state))
<1>1. t \in Tx /\ t.pc = "lock" /\ TxOK(t)
  BY DEF Lock, AgentInv, AgentTypeOK
<1>2. CASE Rollback(a)
  BY <1>2, RollbackInv
<1>3. ASSUME NEW r \in t.found \cap Matches(t.act, t.target), MayChange(t, r),
             ~Locked(r, a), Go(a, u(r))
      PROVE  AgentInv'
  <2>1. r \in Rows /\ Live(r) /\ row[r].name = t.target /\ t.act # "create"
    BY <1>1, <1>3 DEF Matches, TxOK
  <2>2. row[r].state \in State
    BY <2>1 DEF AgentInv, AgentTypeOK, Live, Row
  <2>3. IF t.act = "update" THEN Target(t.act, row[r].state) = None
        ELSE <<row[r].state, t.act, Target(t.act, row[r].state)>> \in Edges
    <3>1. CASE t.act = "update"
      BY <3>1 DEF Target
    <3>2. CASE t.act # "update"
      <4> DEFINE e == CHOOSE e \in Edges : e[1] = row[r].state /\ e[2] = t.act
      <4>1. e \in Edges /\ e[1] = row[r].state /\ e[2] = t.act
        BY <1>3 DEF MayChange
      <4>2. e = <<e[1], e[2], e[3]>>
        <5>1. Edges \subseteq ZONE_ACTIONS \cup PROMOTION_TRANSITIONS
          BY DEF Edges
        <5>2. \A f \in ZONE_ACTIONS : f = <<f[1], f[2], f[3]>>
          BY DEF ZONE_ACTIONS
        <5>3. \A f \in PROMOTION_TRANSITIONS : f = <<f[1], f[2], f[3]>>
          BY DEF PROMOTION_TRANSITIONS
        <5> QED BY <4>1, <5>1, <5>2, <5>3
      <4>3. Target(t.act, row[r].state) = e[3]
        BY <3>2 DEF Target
      <4> QED BY <3>2, <4>1, <4>2, <4>3
    <3> QED BY <3>1, <3>2
  <2>4. Target(t.act, row[r].state) \in State \cup {None}
    BY <2>3 DEF Edges, ZONE_ACTIONS, PROMOTION_TRANSITIONS, State
  <2>5. /\ u(r) \in Tx /\ u(r).pc = "check" /\ u(r).id = r /\ u(r).act = t.act
        /\ u(r).name = t.name /\ u(r).target = t.target
        /\ u(r).to = Target(t.act, row[r].state)
    BY <1>1, <2>1, <2>4, WithLockTx
  <2>6. MayChange(u(r), r)
    BY <1>3, <2>5 DEF MayChange
  <2>7. TxOK(u(r))
    BY <1>1, <2>1, <2>3, <2>5, <2>6 DEF TxOK, Holding
  <2>8. ASSUME NEW b \in Agents \ {a} PROVE tx[b].id # r
    BY <1>3, <2>1, AgentApplyAssumption DEF Locked, AgentInv, TxOK, Holding
  <2> QED BY <1>3, <2>5, <2>7, <2>8, GoInv
<1> QED BY <1>2, <1>3 DEF Lock, WithLock

(* The search for namesakes only decides whether the command goes on.      *)
LEMMA CheckInv ==
    ASSUME AgentInv, NEW a \in Agents, Check(a)
    PROVE  AgentInv'
<1> DEFINE t == tx[a]
           u == [t EXCEPT !.pc = "write"]
<1>1. t \in Tx /\ t.pc = "check" /\ TxOK(t)
  BY DEF Check, AgentInv, AgentTypeOK
<1>2. Rollback(a) \/ Go(a, u)
  BY DEF Check
<1>3. /\ u \in Tx /\ u.pc = "write" /\ u.id = t.id /\ u.act = t.act /\ u.name = t.name
      /\ u.target = t.target /\ u.to = t.to
  BY <1>1 DEF Tx
<1>4. MayChange(u, t.id) = MayChange(t, t.id)
  BY <1>3 DEF MayChange
<1>5. TxOK(u)
  BY <1>1, <1>3, <1>4 DEF TxOK, Holding
<1>6. t.id # None => \A b \in Agents \ {a} : tx[b].id # t.id
  BY DEF AgentInv, IdsDistinct
<1> QED BY <1>2, <1>3, <1>5, <1>6, GoInv, RollbackInv

(* What is written: of the row's type, and for a locked row only a rename  *)
(* and the step of its state.                                              *)
LEMMA WrittenType ==
    ASSUME AgentInv, NEW t \in Tx, TxOK(t), t.pc = "write"
    PROVE  Written(t) \in Row /\ StateOK(Written(t))
<1>1. CASE t.act = "create"
  BY <1>1 DEF TxOK, Written, Row, State, Tx, StateOK
<1>2. CASE t.act # "create"
  <2>1. t.id \in Rows /\ row[t.id] \in Row /\ StateOK(row[t.id])
    BY <1>2 DEF TxOK, Holding, Live, AgentInv, AgentTypeOK, StatesOK
  <2>2. /\ Written(t) \in Row
        /\ Written(t).state = IF t.to = None THEN row[t.id].state ELSE t.to
    BY <1>2, <2>1 DEF Written, Row, Tx
  <2>3. t.to = None \/ <<row[t.id].state, t.act, t.to>> \in Edges
    BY <1>2 DEF TxOK, Holding
  <2>4. (table = "zone" /\ t.to # None) => t.to \in {"ACTIVE", "RETIRED"}
    BY <2>3 DEF Edges, ZONE_ACTIONS
  <2> QED BY <2>1, <2>2, <2>4 DEF StateOK
<1> QED BY <1>1, <1>2

(* A command that has written v to row r.                                  *)
WithWrite(t, r, v) == [t EXCEPT !.pc = "commit", !.id = r, !.new = v]

(* Writing changes three fields of a command.                              *)
LEMMA WithWriteTx ==
    ASSUME NEW t \in Tx, NEW r \in Rows, NEW v \in Row
    PROVE  /\ WithWrite(t, r, v) \in Tx
           /\ WithWrite(t, r, v).pc = "commit"
           /\ WithWrite(t, r, v).id = r
           /\ WithWrite(t, r, v).new = v
           /\ WithWrite(t, r, v).act = t.act
           /\ WithWrite(t, r, v).name = t.name
           /\ WithWrite(t, r, v).target = t.target
           /\ WithWrite(t, r, v).to = t.to
BY ZenonT(60) DEF Tx, WithWrite

(* What is written depends on four fields of the command only.             *)
LEMMA WrittenSame ==
    ASSUME NEW t, NEW u, t.act # "create", u.act = t.act, u.id = t.id,
           u.name = t.name, u.to = t.to
    PROVE  Written(u) = Written(t)
BY DEF Written

(* An INSERT or UPDATE puts a key into the index that nobody else has.     *)
LEMMA WriteInv ==
    ASSUME AgentInv, NEW a \in Agents, Write(a)
    PROVE  AgentInv'
<1> DEFINE t == tx[a]
           v == Written(t)
           u(r) == WithWrite(t, r, v)
<1>1. t \in Tx /\ t.pc = "write" /\ TxOK(t) /\ v \in Row /\ StateOK(v)
  BY WrittenType DEF Write, AgentInv, AgentTypeOK
<1>2. CASE Rollback(a)
  BY <1>2, RollbackInv
<1>3. ASSUME NEW r \in Rows, Go(a, u(r)),
             \A b \in Agents \ {a} : tx[b].pc = "commit" =>
                 ~(Key(v) # None /\ Key(tx[b].new) = Key(v)),
             \A s \in Rows \ {t.id} : ~(Key(v) # None /\ Key(row[s]) = Key(v)),
             IF t.act = "create" THEN ~Live(r) /\ \A b \in Agents : tx[b].id # r
             ELSE r = t.id
      PROVE  AgentInv'
  <2>1. /\ u(r) \in Tx /\ u(r).pc = "commit" /\ u(r).id = r /\ u(r).new = v
        /\ u(r).act = t.act /\ u(r).name = t.name /\ u(r).target = t.target /\ u(r).to = t.to
    BY <1>1, WithWriteTx
  <2>2. MayChange(u(r), r) = MayChange(t, r)
    BY <2>1 DEF MayChange
  <2>3. t.act # "create" => Written(u(r)) = v
    <3> SUFFICES ASSUME t.act # "create" PROVE Written(u(r)) = v
      OBVIOUS
    <3>1. u(r).act = t.act /\ u(r).id = t.id /\ u(r).name = t.name /\ u(r).to = t.to
      BY <1>3, <2>1
    <3> HIDE DEF u
    <3> QED BY <3>1, WrittenSame
  <2>4. TxOK(u(r))
    BY <1>1, <1>3, <2>1, <2>2, <2>3 DEF TxOK, Holding
  <2>5. \A b \in Agents \ {a} : tx[b].id # r
    BY <1>1, <1>3, AgentApplyAssumption DEF AgentInv, IdsDistinct
  <2>6. Key(v) # None =>
          /\ \A s \in Rows \ {r} : Key(row[s]) # Key(v)
          /\ \A b \in Agents \ {a} : tx[b].pc = "commit" => Key(tx[b].new) # Key(v)
    <3>1. t.act = "create" => t.id = None
      BY <1>1 DEF TxOK, Holding
    <3> QED BY <1>3, <3>1, AgentApplyAssumption
  <2> QED BY <1>3, <2>1, <2>4, <2>5, <2>6, GoInv
<1>4. t.act # "create" => t.id \in Rows
  BY <1>1 DEF TxOK, Holding
<1> QED BY <1>2, <1>3, <1>4 DEF Write, WithWrite

(* A commit: the row takes a key nobody has, and no other command has the  *)
(* row.                                                                    *)
LEMMA CommitInv ==
    ASSUME AgentInv, NEW a \in Agents, Commit(a)
    PROVE  AgentInv'
<1> DEFINE t == tx[a]
<1>1. t \in Tx /\ t.pc = "commit" /\ TxOK(t) /\ t.id \in Rows /\ t.new \in Row
  BY DEF Commit, AgentInv, AgentTypeOK, TxOK, Holding
<1>2. /\ row' = [row EXCEPT ![t.id] = t.new] /\ tx' = [tx EXCEPT ![a] = NoTx]
      /\ table' = table /\ tx \in [Agents -> Tx] /\ row \in [Rows -> Row \cup {None}]
  BY DEF Commit, AgentInv, AgentTypeOK
<1>3. NoTx \in Tx /\ NoTx.pc = "idle" /\ NoTx.id = None /\ NoTx.act = None /\ NoTx.name = None
  BY DEF NoTx, Tx
<1>4. \A b \in Agents \ {a} : tx[b].id # t.id
  BY <1>1, AgentApplyAssumption DEF AgentInv, IdsDistinct
<1>5. AgentTypeOK'
  BY <1>1, <1>2, <1>3 DEF AgentInv, AgentTypeOK
<1>6. ASSUME NEW b \in Agents PROVE TxOK(tx[b])'
  <2>1. CASE b = a
    BY <1>2, <1>3, <2>1 DEF TxOK, Holding
  <2>2. CASE b # a
    <3>1. tx'[b] = tx[b] /\ TxOK(tx[b]) /\ tx[b].id # t.id /\ tx[b] \in Tx
      BY <1>2, <1>4, <2>2 DEF AgentInv
    <3>2. tx[b].id \in Rows => row'[tx[b].id] = row[tx[b].id]
      BY <1>2, <3>1
    <3>3. tx[b].id \in Rows =>
            /\ Live(tx[b].id)' = Live(tx[b].id)
            /\ MayChange(tx[b], tx[b].id)' = MayChange(tx[b], tx[b].id)
            /\ Written(tx[b])' = Written(tx[b])
      BY <1>2, <3>1, <3>2 DEF Live, MayChange, Written, Edges
    <3>4. Edges' = Edges /\ StateOK(tx[b].new)' = StateOK(tx[b].new)
      BY <1>2, <3>1 DEF Edges, StateOK
    <3> QED BY <3>1, <3>2, <3>3, <3>4 DEF TxOK, Holding
  <2> QED BY <2>1, <2>2
<1>7. IdsDistinct'
  BY <1>2, <1>3 DEF AgentInv, IdsDistinct
<1>8. \A w : Key(w)' = Key(w)
  BY <1>2 DEF Key
<1>9. IndexOK'
  <2> SUFFICES ASSUME NEW b \in Agents, tx'[b].pc = "commit", Key(tx'[b].new) # None
               PROVE  /\ \A r \in Rows \ {tx'[b].id} : Key(row'[r]) # Key(tx'[b].new)
                      /\ \A c \in Agents \ {b} :
                            tx'[c].pc = "commit" => Key(tx'[c].new) # Key(tx'[b].new)
    BY <1>2 DEF IndexOK, Key
  <2>1. b # a /\ tx'[b] = tx[b]
    BY <1>2, <1>3
  <2>2. /\ \A r \in Rows \ {tx[b].id} : Key(row[r]) # Key(tx[b].new)
        /\ \A c \in Agents \ {b} : tx[c].pc = "commit" => Key(tx[c].new) # Key(tx[b].new)
    BY <2>1 DEF AgentInv, IndexOK
  <2>3. ASSUME NEW r \in Rows \ {tx[b].id} PROVE Key(row'[r]) # Key(tx[b].new)
    BY <1>1, <1>2, <2>1, <2>2
  <2>4. ASSUME NEW c \in Agents \ {b}, tx'[c].pc = "commit"
        PROVE  Key(tx'[c].new) # Key(tx[b].new)
    BY <1>2, <1>3, <2>2, <2>4
  <2> QED BY <2>1, <2>3, <2>4
<1>10. KeysDistinct'
  <2> SUFFICES ASSUME NEW r \in Rows, NEW s \in Rows, r # s, Key(row'[r]) # None
               PROVE  Key(row'[r]) # Key(row'[s])
    BY <1>2 DEF KeysDistinct, Key
  <2>1. Key(t.new) # None => \A q \in Rows \ {t.id} : Key(row[q]) # Key(t.new)
    BY <1>1 DEF AgentInv, IndexOK
  <2>2. \A q \in Rows : row'[q] = IF q = t.id THEN t.new ELSE row[q]
    BY <1>1, <1>2
  <2> QED BY <2>1, <2>2 DEF AgentInv, KeysDistinct
<1>11. StatesOK'
  <2>1. StateOK(t.new)
    BY <1>1 DEF TxOK
  <2> QED BY <1>1, <1>2, <2>1 DEF AgentInv, StatesOK, StateOK, Live
<1> QED BY <1>5, <1>6, <1>7, <1>9, <1>10, <1>11 DEF AgentInv

(* A restart rolls every command back.                                     *)
LEMMA CrashInv ==
    ASSUME AgentInv, Crash
    PROVE  AgentInv'
<1>1. /\ tx' = [a \in Agents |-> NoTx] /\ UNCHANGED <<table, row>>
      /\ NoTx \in Tx /\ NoTx.pc = "idle" /\ NoTx.id = None /\ NoTx.act = None
      /\ NoTx.name = None
  BY DEF Crash, NoTx, Tx
<1>2. AgentTypeOK'
  BY <1>1 DEF AgentInv, AgentTypeOK
<1>3. ASSUME NEW b \in Agents PROVE TxOK(tx[b])'
  BY <1>1 DEF TxOK, Holding
<1>4. IdsDistinct' /\ IndexOK'
  BY <1>1 DEF IdsDistinct, IndexOK
<1>5. KeysDistinct' /\ StatesOK'
  BY <1>1 DEF AgentInv, KeysDistinct, Key, StatesOK, StateOK, Live
<1> QED BY <1>2, <1>3, <1>4, <1>5 DEF AgentInv

(* Every step keeps the invariant.                                         *)
LEMMA NextInv ==
    ASSUME AgentInv, [Next]_vars
    PROVE  AgentInv'
<1>1. ASSUME NEW a \in Agents, Instruct(a) \/ Form(a) \/ Apply(a) PROVE AgentInv'
  BY <1>1, BeginInv, ValidateInv, FindInv, LockInv, CheckInv, WriteInv, CommitInv DEF Apply
<1>2. CASE Crash
  BY <1>2, CrashInv
<1>3. CASE UNCHANGED vars
  <2>1. table' = table /\ row' = row /\ tx' = tx
    BY <1>3 DEF vars
  <2>2. AgentTypeOK' /\ IdsDistinct' /\ KeysDistinct' /\ IndexOK' /\ StatesOK'
    BY <2>1 DEF AgentInv, AgentTypeOK, IdsDistinct, KeysDistinct, IndexOK, Key,
                StatesOK, StateOK, Live
  <2>3. ASSUME NEW b \in Agents PROVE TxOK(tx[b])'
    BY <2>1 DEF AgentInv, TxOK, Holding, Live, MayChange, Written, Edges, StateOK
  <2> QED BY <2>2, <2>3 DEF AgentInv
<1> QED BY <1>1, <1>2, <1>3 DEF Next

(* The empty table satisfies the invariant.                                *)
LEMMA InitInv ==
    ASSUME Init
    PROVE  AgentInv
<1>1. NoTx \in Tx /\ NoTx.pc = "idle" /\ NoTx.id = None /\ NoTx.act = None /\ NoTx.name = None
  BY DEF NoTx, Tx
<1>2. AgentTypeOK
  BY <1>1 DEF Init, AgentTypeOK
<1>3. ASSUME NEW b \in Agents PROVE TxOK(tx[b])
  BY <1>1 DEF Init, TxOK, Holding
<1>4. IdsDistinct /\ IndexOK /\ KeysDistinct /\ StatesOK
  BY <1>1 DEF Init, IdsDistinct, IndexOK, KeysDistinct, Key, StatesOK, Live
<1> QED BY <1>2, <1>3, <1>4 DEF AgentInv

(* The invariant holds of every reachable state.                           *)
THEOREM AgentInvariant == Spec => []AgentInv
BY InitInv, NextInv, PTL DEF Spec

(* Zones and promotions keep their shape, and so does every command in     *)
(* progress (core.delivery, core.promotions, the agents' tools).           *)
THEOREM AgentTypeCorrect == Spec => []AgentTypeOK
<1>1. AgentInv => AgentTypeOK
  BY DEF AgentInv
<1> QED BY <1>1, AgentInvariant, PTL

(* Two active zones never share a name and two promotions never share a    *)
(* code, however many commands race past each other's SELECTs.             *)
THEOREM KeysStayUnique == Spec => []KeysUnique
<1>1. ASSUME AgentInv PROVE KeysUnique
  <2> SUFFICES ASSUME NEW r \in Rows, NEW s \in Rows, r # s, Live(r), Live(s)
               PROVE  IF table = "zone"
                      THEN row[r].name = row[s].name => "RETIRED" \in {row[r].state, row[s].state}
                      ELSE row[r].code = row[s].code => row[r].code = None
    BY DEF KeysUnique
  <2>1. row[r] \in Row /\ row[s] \in Row /\ row[r] # None /\ row[s] # None
    BY <1>1 DEF AgentInv, AgentTypeOK, Live
  <2>2. Key(row[r]) # None => Key(row[r]) # Key(row[s])
    BY <1>1 DEF AgentInv, KeysDistinct
  <2>3. CASE table = "zone"
    <3>1. row[r].state \in {"ACTIVE", "RETIRED"} /\ row[s].state \in {"ACTIVE", "RETIRED"}
      BY <1>1, <2>3 DEF AgentInv, StatesOK, StateOK
    <3>2. row[r].name # None
      BY <2>1, AgentApplyAssumption DEF Row
    <3> QED BY <2>1, <2>2, <2>3, <3>1, <3>2 DEF Key
  <2>4. CASE table # "zone"
    BY <2>1, <2>2, <2>4 DEF Key
  <2> QED BY <2>3, <2>4
<1> QED BY <1>1, AgentInvariant, PTL

(* A command that holds its row's lock is still about the row it named, in *)
(* a state its action is for.                                              *)
THEOREM CommandsStand == Spec => []CommandStands
<1>1. AgentInv => CommandStands
  BY DEF AgentInv, CommandStands, TxOK, Holding
<1> QED BY <1>1, AgentInvariant, PTL

(* A commit moves a row along its table's graph, renames only active       *)
(* zones, and changes no code.                                             *)
THEOREM RowsStepLegally == Spec => RowStepsLegal
<1> DEFINE Legal ==
      \A r \in Rows :
         (Live(r) /\ row'[r] # row[r]) =>
            /\ row'[r] # None
            /\ \E e \in Edges : e[1] = row[r].state /\ e[3] = row'[r].state
            /\ row'[r].name # row[r].name => row[r].state = "ACTIVE" /\ table = "zone"
            /\ row'[r].code = row[r].code
<1>1. ASSUME AgentInv, [Next]_vars PROVE [Legal]_vars
  <2> SUFFICES ASSUME NEW r \in Rows, Live(r), row'[r] # row[r]
               PROVE  /\ row'[r] # None
                      /\ \E e \in Edges : e[1] = row[r].state /\ e[3] = row'[r].state
                      /\ row'[r].name # row[r].name => row[r].state = "ACTIVE" /\ table = "zone"
                      /\ row'[r].code = row[r].code
    OBVIOUS
  <2>1. PICK a \in Agents : Commit(a)
    BY <1>1 DEF Next, Instruct, Form, Apply, Start, Validate, Find, Lock, Check, Write, Go,
                Rollback, Crash, vars
  <2> DEFINE t == tx[a]
  <2>2. /\ t \in Tx /\ t.pc = "commit" /\ TxOK(t) /\ t.id = r /\ row'[r] = t.new
        /\ row[r] \in Row
    BY <1>1, <2>1 DEF Commit, AgentInv, AgentTypeOK, TxOK, Holding, Live
  <2>3. t.act # "create" /\ t.new = Written(t) /\ t.new \in Row
    BY <2>2 DEF TxOK
  <2>4. /\ MayChange(t, r)
        /\ IF t.act = "update" THEN t.to = None ELSE <<row[r].state, t.act, t.to>> \in Edges
        /\ t.act # "update" => t.name = None
    BY <2>2, <2>3 DEF TxOK, Holding
  <2>5. /\ t.new.state = IF t.to = None THEN row[r].state ELSE t.to
        /\ t.new.name = IF t.name = None THEN row[r].name ELSE t.name
        /\ t.new.code = row[r].code
    BY <2>2, <2>3 DEF Written, Row
  <2>6. t.new # None
    BY <2>3, AgentApplyAssumption
  <2>7. CASE t.act = "update"
    <3>1. PICK e \in Edges : e[1] = row[r].state /\ e[2] = "update"
      BY <2>4, <2>7 DEF MayChange
    <3>2. table = "zone" /\ e = <<"ACTIVE", "update", "ACTIVE">>
      BY <3>1 DEF Edges, ZONE_ACTIONS, PROMOTION_TRANSITIONS
    <3>3. e[1] = row[r].state /\ e[3] = row'[r].state
      BY <2>2, <2>4, <2>5, <2>7, <3>1, <3>2
    <3> QED BY <2>2, <2>5, <2>6, <3>1, <3>2, <3>3
  <2>8. CASE t.act # "update"
    <3>1. t.to # None
      BY <2>4, <2>8, AgentApplyAssumption DEF Edges, ZONE_ACTIONS, PROMOTION_TRANSITIONS, State
    <3>2. \E e \in Edges : e[1] = row[r].state /\ e[3] = row'[r].state
      BY <2>2, <2>4, <2>5, <2>8, <3>1
    <3> QED BY <2>2, <2>4, <2>5, <2>6, <2>8, <3>2
  <2> QED BY <2>7, <2>8
<1> QED BY <1>1, AgentInvariant, PTL DEF Spec, RowStepsLegal

---------------------------------------------------------------------------
(* Waits for locks and for the index.                                      *)

(* The statement of a waits for the transaction of b: for a row that b has *)
(* locked, or for a key that b is adding to the index or removing.         *)
WaitsFor(a, b) ==
    \/ /\ tx[a].pc = "lock" /\ tx[b].act # "create"
       /\ \E r \in tx[a].found : tx[b].id = r
    \/ /\ tx[a].pc = "write" /\ tx[b].pc = "commit"
       /\ Key(Written(tx[a])) # None
       /\ Key(Written(tx[a])) \in {Key(tx[b].new), Key(row[tx[b].id])}

(* An insert finds an id.                                                  *)
HasId(a) ==
    (tx[a].pc = "write" /\ tx[a].act = "create") =>
        \E r \in Rows : ~Live(r) /\ \A b \in Agents : tx[b].id # r

(* Nothing is in the way of the next statement of a.                       *)
MayGoOn(a) == HasId(a) /\ \A b \in Agents \ {a} : ~WaitsFor(a, b)

(* No command waits for itself, through whatever others: a wait for a row  *)
(* leads to a command that may go on, or to one that waits for the index,  *)
(* and that one waits for a commit.                                        *)
WaitsAreShort ==
    \A a \in Agents :
        \/ MayGoOn(a)
        \/ \E b \in Agents \ {a} :
              /\ WaitsFor(a, b)
              /\ MayGoOn(b) \/ \E c \in Agents \ {a, b} : WaitsFor(b, c) /\ MayGoOn(c)

LiveRows == {r \in Rows : Live(r)}

Creates == {b \in Agents : tx[b].act = "create"}

(* There is an id for every create in progress.                            *)
Room == Cardinality(LiveRows) + Cardinality(Creates) <= Cardinality(Rows)

LEMMA Counts ==
    /\ IsFiniteSet(LiveRows) /\ Cardinality(LiveRows) \in Nat
    /\ IsFiniteSet(Creates) /\ Cardinality(Creates) \in Nat
    /\ Cardinality(Rows) \in Nat
<1>1. LiveRows \in SUBSET Rows /\ Creates \in SUBSET Agents BY DEF LiveRows, Creates
<1>2. IsFiniteSet(Rows) /\ IsFiniteSet(Agents) BY AgentApplyAssumption
<1>3. IsFiniteSet(LiveRows) /\ IsFiniteSet(Creates) BY <1>1, <1>2, FS_Subset
<1> QED BY <1>2, <1>3, FS_CardinalityType

(* A step that adds neither a row nor a create.                            *)
LEMMA RoomKept ==
    ASSUME Room, LiveRows' \subseteq LiveRows, Creates' \subseteq Creates
    PROVE  Room'
<1>1. /\ IsFiniteSet(LiveRows) /\ Cardinality(LiveRows) \in Nat
      /\ IsFiniteSet(Creates) /\ Cardinality(Creates) \in Nat /\ Cardinality(Rows) \in Nat
    BY Counts
<1> DEFINE L == LiveRows'
           C == Creates'
<1>2. L \in SUBSET LiveRows /\ C \in SUBSET Creates OBVIOUS
<1> HIDE DEF L, C
<1>3. IsFiniteSet(L) /\ Cardinality(L) <= Cardinality(LiveRows) BY <1>1, <1>2, FS_Subset
<1>4. IsFiniteSet(C) /\ Cardinality(C) <= Cardinality(Creates) BY <1>1, <1>2, FS_Subset
<1>5. Cardinality(L) \in Nat /\ Cardinality(C) \in Nat BY <1>3, <1>4, FS_CardinalityType
<1>6. Cardinality(L) + Cardinality(C) <= Cardinality(Rows) BY <1>1, <1>3, <1>4, <1>5 DEF Room
<1> QED BY <1>6 DEF Room, L, C

(* A command goes on as it is or ends.                                     *)
LEMMA GoRoom ==
    ASSUME AgentInv, Room, NEW a \in Agents, NEW t, Go(a, t), t.act = "create" => tx[a].act = "create"
    PROVE  Room'
<1>1. tx' = [tx EXCEPT ![a] = t] /\ UNCHANGED row /\ tx \in [Agents -> Tx]
    BY DEF Go, AgentInv, AgentTypeOK
<1>2. LiveRows' \subseteq LiveRows BY <1>1 DEF LiveRows, Live
<1>3. Creates' \subseteq Creates BY <1>1 DEF Creates
<1> QED BY <1>2, <1>3, RoomKept

LEMMA RollbackRoom ==
    ASSUME AgentInv, Room, NEW a \in Agents, Rollback(a)
    PROVE  Room'
<1>1. NoTx.act # "create" BY AgentApplyAssumption DEF NoTx, Action
<1> QED BY <1>1, GoRoom DEF Rollback

(* A new create is accepted while there is an id for it.                   *)
LEMMA BeginRoom ==
    ASSUME AgentInv, Room, NEW a \in Agents, Instruct(a) \/ Form(a)
    PROVE  Room'
<1>1. tx \in [Agents -> Tx] BY DEF AgentInv, AgentTypeOK
<1>2. ASSUME NEW n, NEW c, RoomToCreate, Start(a, [NoTx EXCEPT !.act = "create", !.name = n, !.code = c])
      PROVE  Room'
    <2>1. Cardinality(LiveRows) + Cardinality(Creates) < Cardinality(Rows)
        BY <1>2 DEF RoomToCreate, LiveRows, Creates
    <2>2. LiveRows' = LiveRows BY <1>2 DEF Start, LiveRows, Live
    <2>3. Creates' \subseteq Creates \cup {a} BY <1>1, <1>2 DEF Start, Creates
    <2> DEFINE C == Creates'
    <2>4. C \in SUBSET (Creates \cup {a}) BY <2>3
    <2> HIDE DEF C
    <2>5. /\ IsFiniteSet(Creates) /\ Cardinality(Creates) \in Nat
          /\ Cardinality(LiveRows) \in Nat /\ Cardinality(Rows) \in Nat
        BY Counts
    <2>6. /\ IsFiniteSet(Creates \cup {a})
          /\ Cardinality(Creates \cup {a}) = IF a \in Creates THEN Cardinality(Creates) ELSE Cardinality(Creates) + 1
        BY <2>5, FS_AddElement
    <2>7. IsFiniteSet(C) /\ Cardinality(C) <= Cardinality(Creates \cup {a}) BY <2>4, <2>6, FS_Subset
    <2>8. Cardinality(C) \in Nat BY <2>7, FS_CardinalityType
    <2>9. Cardinality(LiveRows) + Cardinality(C) <= Cardinality(Rows) BY <2>1, <2>5, <2>6, <2>7, <2>8
    <2> QED BY <2>2, <2>9 DEF Room, C
<1>3. ASSUME NEW t, Start(a, t), [t EXCEPT !.pc = "validate"].act # "create" PROVE Room'
    <2> DEFINE u == [t EXCEPT !.pc = "validate"]
    <2>1. Go(a, u) /\ u.act # "create" BY <1>3 DEF Start, Go
    <2> HIDE DEF u
    <2> QED BY <2>1, GoRoom
<1>4. ASSUME NEW e \in Edges, NEW n, NEW new, Start(a, [NoTx EXCEPT !.act = e[2], !.target = n, !.name = new])
      PROVE  Room'
    <2> DEFINE t == [NoTx EXCEPT !.act = e[2], !.target = n, !.name = new]
    <2>1. e[2] # "create" BY DEF Edges, ZONE_ACTIONS, PROMOTION_TRANSITIONS
    <2>2. [t EXCEPT !.pc = "validate"].act = e[2] BY DEF NoTx
    <2> QED BY <1>3, <1>4, <2>1, <2>2
<1>5. CASE Instruct(a) BY <1>2, <1>4, <1>5 DEF Instruct
<1>6. CASE Form(a)
    <2>1. PICK r \in Rows, new \in Names \cup {None} :
            Start(a, [NoTx EXCEPT !.act = "update", !.target = row[r].name, !.name = new, !.form = r])
        BY <1>6 DEF Form
    <2> DEFINE t == [NoTx EXCEPT !.act = "update", !.target = row[r].name, !.name = new, !.form = r]
    <2>2. [t EXCEPT !.pc = "validate"].act = "update" BY DEF NoTx
    <2> QED BY <1>3, <2>1, <2>2
<1> QED BY <1>5, <1>6

(* A committed create turns its id into a row.                             *)
LEMMA CommitRoom ==
    ASSUME AgentInv, Room, NEW a \in Agents, Commit(a)
    PROVE  Room'
<1> DEFINE t == tx[a]
<1>1. /\ t \in Tx /\ t.pc = "commit" /\ TxOK(t) /\ t.id \in Rows /\ t.new \in Row
      /\ tx \in [Agents -> Tx] /\ row \in [Rows -> Row \cup {None}]
    BY DEF Commit, AgentInv, AgentTypeOK, TxOK, Holding
<1>2. row' = [row EXCEPT ![t.id] = t.new] /\ tx' = [tx EXCEPT ![a] = NoTx] BY DEF Commit
<1>3. NoTx.act # "create" BY AgentApplyAssumption DEF NoTx, Action
<1>4. LiveRows' \subseteq LiveRows \cup {t.id} BY <1>1, <1>2 DEF LiveRows, Live
<1>5. Creates' = Creates \ {a} BY <1>1, <1>2, <1>3 DEF Creates
<1>6. CASE t.act # "create"
    <2>1. t.id \in LiveRows BY <1>1, <1>6 DEF TxOK, Holding, LiveRows
    <2> QED BY <1>4, <1>5, <2>1, RoomKept
<1>7. CASE t.act = "create"
    <2>1. a \in Creates BY <1>7 DEF Creates
    <2>2. /\ IsFiniteSet(Creates) /\ Cardinality(Creates) \in Nat
          /\ IsFiniteSet(LiveRows) /\ Cardinality(LiveRows) \in Nat /\ Cardinality(Rows) \in Nat
        BY Counts
    <2>3. Cardinality(Creates \ {a}) = Cardinality(Creates) - 1 BY <2>1, <2>2, FS_RemoveElement
    <2> DEFINE L == LiveRows'
               i == t.id
    <2>4. L \in SUBSET (LiveRows \cup {i}) BY <1>4
    <2> HIDE DEF L, i
    <2>5. /\ IsFiniteSet(LiveRows \cup {i})
          /\ Cardinality(LiveRows \cup {i}) = IF i \in LiveRows THEN Cardinality(LiveRows) ELSE Cardinality(LiveRows) + 1
        BY <2>2, FS_AddElement
    <2>6. IsFiniteSet(L) /\ Cardinality(L) <= Cardinality(LiveRows \cup {i}) BY <2>4, <2>5, FS_Subset
    <2>7. Cardinality(L) \in Nat BY <2>6, FS_CardinalityType
    <2>8. Cardinality(L) + Cardinality(Creates \ {a}) <= Cardinality(Rows)
        BY <2>2, <2>3, <2>5, <2>6, <2>7 DEF Room
    <2> QED BY <1>5, <2>8 DEF Room, L
<1> QED BY <1>6, <1>7

LEMMA NextRoom ==
    ASSUME AgentInv, Room, [Next]_vars
    PROVE  Room'
<1>1. ASSUME NEW a \in Agents, Validate(a) \/ Find(a) \/ Lock(a) \/ Check(a) \/ Write(a) PROVE Room'
    <2>1. tx[a] \in Tx BY DEF AgentInv, AgentTypeOK
    <2>2. ASSUME NEW t, Go(a, t), t.act = tx[a].act PROVE Room' BY <2>2, GoRoom
    <2>3. CASE Validate(a)
        <3>1. Rollback(a) \/ \E pc : Go(a, [tx[a] EXCEPT !.pc = pc]) BY <2>3 DEF Validate
        <3>2. ASSUME NEW pc, Go(a, [tx[a] EXCEPT !.pc = pc]) PROVE Room'
            <4> DEFINE t == [tx[a] EXCEPT !.pc = pc]
            <4>1. t.act = tx[a].act BY <2>1 DEF Tx
            <4> QED BY <2>2, <3>2, <4>1
        <3> QED BY <3>1, <3>2, RollbackRoom
    <2>4. CASE Find(a)
        <3> DEFINE t == [tx[a] EXCEPT !.pc = "lock", !.found = Matches(tx[a].act, tx[a].target)]
        <3>1. t.act = tx[a].act BY <2>1 DEF Tx
        <3> QED BY <2>2, <2>4, <3>1 DEF Find
    <2>5. CASE Lock(a)
        <3>1. \/ Rollback(a)
              \/ \E r, to : Go(a, [tx[a] EXCEPT !.pc = "check", !.found = {}, !.id = r, !.to = to])
            BY <2>5 DEF Lock
        <3>2. ASSUME NEW r, NEW to, Go(a, [tx[a] EXCEPT !.pc = "check", !.found = {}, !.id = r, !.to = to])
              PROVE  Room'
            <4> DEFINE t == [tx[a] EXCEPT !.pc = "check", !.found = {}, !.id = r, !.to = to]
            <4>1. t.act = tx[a].act BY <2>1 DEF Tx
            <4> QED BY <2>2, <3>2, <4>1
        <3> QED BY <3>1, <3>2, RollbackRoom
    <2>6. CASE Check(a)
        <3>1. Rollback(a) \/ Go(a, [tx[a] EXCEPT !.pc = "write"]) BY <2>6 DEF Check
        <3> DEFINE t == [tx[a] EXCEPT !.pc = "write"]
        <3>2. t.act = tx[a].act BY <2>1 DEF Tx
        <3> QED BY <2>2, <3>1, <3>2, RollbackRoom
    <2>7. CASE Write(a)
        <3>1. \/ Rollback(a)
              \/ \E r, v : Go(a, [tx[a] EXCEPT !.pc = "commit", !.id = r, !.new = v])
            BY <2>7 DEF Write
        <3>2. ASSUME NEW r, NEW v, Go(a, [tx[a] EXCEPT !.pc = "commit", !.id = r, !.new = v])
              PROVE  Room'
            <4> DEFINE t == [tx[a] EXCEPT !.pc = "commit", !.id = r, !.new = v]
            <4>1. t.act = tx[a].act BY <2>1 DEF Tx
            <4> QED BY <2>2, <3>2, <4>1
        <3> QED BY <3>1, <3>2, RollbackRoom
    <2> QED BY <1>1, <2>3, <2>4, <2>5, <2>6, <2>7
<1>2. CASE Crash
    <2>1. NoTx.act # "create" BY AgentApplyAssumption DEF NoTx, Action
    <2>2. LiveRows' \subseteq LiveRows /\ Creates' \subseteq Creates
        BY <1>2, <2>1 DEF Crash, LiveRows, Live, Creates
    <2> QED BY <2>2, RoomKept
<1>3. CASE UNCHANGED vars
    <2>1. LiveRows' \subseteq LiveRows /\ Creates' \subseteq Creates BY <1>3 DEF vars, LiveRows, Live, Creates
    <2> QED BY <2>1, RoomKept
<1> QED BY <1>1, <1>2, <1>3, BeginRoom, CommitRoom DEF Next, Apply

(* By counting: the rows that are not live outnumber the creates that have *)
(* an id.                                                                  *)
LEMMA IdLeft ==
    ASSUME AgentInv, Room, NEW a \in Agents
    PROVE  HasId(a)
<1> SUFFICES ASSUME tx[a].pc = "write", tx[a].act = "create",
                    \A r \in Rows : Live(r) \/ \E b \in Agents : tx[b].id = r
             PROVE  FALSE
    BY DEF HasId
<1> DEFINE S == Creates \ {a}
           T == Rows \ LiveRows
<1>1. ASSUME NEW r \in T PROVE \E b \in S : tx[b].id = r
    <2>1. r \in Rows /\ ~Live(r) BY DEF LiveRows
    <2>2. PICK b \in Agents : tx[b].id = r BY <2>1
    <2>3. TxOK(tx[a]) /\ TxOK(tx[b]) /\ r # None BY <2>1, AgentApplyAssumption DEF AgentInv
    <2>4. tx[a].id = None BY <2>3 DEF TxOK, Holding
    <2>5. ~Holding(tx[b]) BY <2>1, <2>2, <2>3 DEF TxOK
    <2>6. tx[b].act = "create" BY <2>2, <2>3, <2>5 DEF TxOK, Holding
    <2> QED BY <2>2, <2>3, <2>4, <2>6 DEF Creates
<1>2. a \in Creates BY DEF Creates
<1>3. /\ IsFiniteSet(LiveRows) /\ Cardinality(LiveRows) \in Nat
      /\ IsFiniteSet(Creates) /\ Cardinality(Creates) \in Nat /\ Cardinality(Rows) \in Nat
    BY Counts
<1>4. IsFiniteSet(S) /\ Cardinality(S) = Cardinality(Creates) - 1 BY <1>2, <1>3, FS_RemoveElement
<1>5. T \in SUBSET Rows /\ IsFiniteSet(Rows) BY AgentApplyAssumption
<1>6. IsFiniteSet(T) BY <1>5, FS_Subset
<1>7. LiveRows \cup T = Rows /\ LiveRows \cap T = {} BY DEF LiveRows
<1> HIDE DEF S, T
<1>8. Cardinality(LiveRows \cup T) = Cardinality(LiveRows) + Cardinality(T) - Cardinality(LiveRows \cap T)
    BY <1>3, <1>6, FS_Union
<1>9. Cardinality(Rows) = Cardinality(LiveRows) + Cardinality(T) - 0 BY <1>7, <1>8, FS_EmptySet
<1>10. Cardinality(T) \in Nat BY <1>6, FS_CardinalityType
<1>11. Cardinality(S) < Cardinality(T) BY <1>3, <1>4, <1>9, <1>10 DEF Room
<1> DEFINE f == [r \in T |-> CHOOSE b \in S : tx[b].id = r]
<1>12. f \in [T -> S] /\ \A r \in T : tx[f[r]].id = r BY <1>1
<1> HIDE DEF f
<1>13. \E x, y \in T : x # y /\ f[x] = f[y] BY <1>4, <1>6, <1>11, <1>12, FS_PigeonHole
<1> QED BY <1>12, <1>13

(* Whoever is waited for has its row, and only an insert or update that    *)
(* waits for the index may be waiting itself, for somebody who only has to *)
(* commit.                                                                 *)
LEMMA WaitsUp ==
    ASSUME AgentInv, NEW a \in Agents, NEW b \in Agents, WaitsFor(a, b)
    PROVE  /\ tx[a].pc \in {"lock", "write"}
           /\ tx[b].pc \in {"check", "write", "commit"}
           /\ tx[a].pc = "write" => tx[b].pc = "commit"
<1>1. CASE tx[a].pc = "lock" /\ tx[b].act # "create" /\ \E r \in tx[a].found : tx[b].id = r
    <2>1. tx[a] \in Tx /\ TxOK(tx[b]) BY DEF AgentInv, AgentTypeOK
    <2>2. tx[b].id # None BY <1>1, <2>1, AgentApplyAssumption DEF Tx
    <2> QED BY <1>1, <2>1, <2>2 DEF TxOK, Holding
<1>2. CASE tx[a].pc = "write" /\ tx[b].pc = "commit" BY <1>2
<1> QED BY <1>1, <1>2 DEF WaitsFor

(* The row locks and the unique index never make commands wait for each    *)
(* other in a circle, although the tools take them in several statements:  *)
(* a command that waits for a row has locked none, and one that waits for  *)
(* the index waits for a commit.  So chains of waits have at most two      *)
(* links, and at the end of each a command may go on: the safety half of   *)
(* ApplyEnds.                                                              *)
THEOREM NoCommandIsStuck == Spec => []WaitsAreShort
<1>1. Init => Room
    <2> SUFFICES ASSUME Init PROVE Room OBVIOUS
    <2>1. NoTx.act # "create" BY AgentApplyAssumption DEF NoTx, Action
    <2>2. LiveRows = {} /\ Creates = {} BY <2>1 DEF Init, LiveRows, Live, Creates
    <2>3. Cardinality({}) = 0 /\ Cardinality(Rows) \in Nat BY FS_EmptySet, Counts
    <2> QED BY <2>2, <2>3 DEF Room
<1>2. AgentInv /\ Room /\ [Next]_vars => Room' BY NextRoom
<1>3. ASSUME AgentInv, Room PROVE WaitsAreShort
    <2> SUFFICES ASSUME NEW a \in Agents, ~MayGoOn(a)
                 PROVE  \E b \in Agents \ {a} :
                           /\ WaitsFor(a, b)
                           /\ MayGoOn(b) \/ \E c \in Agents \ {a, b} : WaitsFor(b, c) /\ MayGoOn(c)
        BY DEF WaitsAreShort
    <2>1. \A x \in Agents : HasId(x) BY <1>3, IdLeft
    <2>2. \A x \in Agents : tx[x].pc \notin {"lock", "write"} => MayGoOn(x)
        BY <1>3, <2>1, WaitsUp DEF MayGoOn
    <2>3. PICK b \in Agents \ {a} : WaitsFor(a, b) BY <2>1 DEF MayGoOn
    <2>4. CASE MayGoOn(b) BY <2>3, <2>4
    <2>5. CASE ~MayGoOn(b)
        <3>1. PICK c \in Agents \ {b} : WaitsFor(b, c) BY <2>1, <2>3, <2>5 DEF MayGoOn
        <3>2. tx[b].pc = "write" /\ tx[c].pc = "commit" BY <1>3, <2>3, <3>1, WaitsUp
        <3>3. tx[a].pc = "lock" BY <1>3, <2>3, <3>2, WaitsUp
        <3>4. MayGoOn(c) /\ c # a BY <2>2, <3>2, <3>3
        <3> QED BY <2>3, <3>1, <3>4
    <2> QED BY <2>4, <2>5
<1> QED BY <1>1, <1>2, <1>3, AgentInvariant, PTL DEF Spec

============================================================================
