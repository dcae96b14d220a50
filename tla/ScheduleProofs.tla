--------------------------- MODULE ScheduleProofs ---------------------------
(***************************************************************************)
(* The rows of schedule_windows keep their types and implement the board   *)
(* of opening hours, for any length of a day, any number of days, editors  *)
(* and pages, and any commands.                                            *)
(***************************************************************************)
EXTENDS Schedule, TLAPS

(* Nothing is written for a day that is yet to come...                     *)
FutureIsFree ==
    \A p \in Periods, d \in Dates : d > day => window[p][d] = NoWindow

(* ... the permanent rows stay...                                          *)
PermanentStays == \A p \in Periods : window[p][Permanent] \in Hours

(* ... and a transaction that is about to write was given a command for    *)
(* the day it read from the clock, or hours for the permanent row.         *)
EditOK(e) ==
    /\ edit[e].pc # "idle" => edit[e].cmd \in ScheduleCommands
    /\ edit[e].date \in Dates => edit[e].date <= day
    /\ edit[e].pc = "write" => edit[e].date \in Dates \cup {Permanent}
    /\ (edit[e].pc = "write" /\ edit[e].cmd.action = "reset_to_default") => edit[e].date \in Dates
    /\ (edit[e].pc = "commit" /\ edit[e].date = Permanent) => edit[e].new \in Hours

PageOK(v) == page[v].pc = "query" => page[v].date \in Dates

ScheduleInv ==
    /\ ScheduleTypeOK
    /\ FutureIsFree
    /\ PermanentStays
    /\ \A e \in Editors : EditOK(e)
    /\ \A v \in Visitors : PageOK(v)

---------------------------------------------------------------------------
(* The rows the migration seeds satisfy the invariant.                     *)
LEMMA ScheduleInitInv == ScheduleInit => ScheduleInv
<1> SUFFICES ASSUME ScheduleInit PROVE ScheduleInv
  OBVIOUS
<1> USE ScheduleAssumption DEF ScheduleInit
<1>1. window \in [Periods -> [Dates \cup {Permanent} -> Hours \cup {NoWindow}]]
  OBVIOUS
<1>2. /\ edit \in [Editors -> Edit] /\ page \in [Visitors -> Page]
      /\ day \in Dates /\ tick \in Ticks /\ given \in 0 .. MaxGiven
  BY DEF Edit, Page, NoEdit, NoPage, Dates, Ticks
<1>3. FutureIsFree /\ PermanentStays
  BY DEF FutureIsFree, PermanentStays
<1>4. ASSUME NEW e \in Editors PROVE EditOK(e)
  BY DEF EditOK, NoEdit
<1>5. ASSUME NEW v \in Visitors PROVE PageOK(v)
  BY DEF PageOK, NoPage
<1> QED BY <1>1, <1>2, <1>3, <1>4, <1>5 DEF ScheduleInv, ScheduleTypeOK

(* A step of one transaction that writes no row yet.                       *)
LEMMA GoesInv ==
    ASSUME ScheduleInv, NEW e \in Editors, NEW to \in Edit, Goes(e, to),
           to.pc # "idle" => to.cmd \in ScheduleCommands,
           to.date \in Dates => to.date <= day,
           to.pc = "write" => to.date \in Dates \cup {Permanent},
           (to.pc = "write" /\ to.cmd.action = "reset_to_default") => to.date \in Dates,
           (to.pc = "commit" /\ to.date = Permanent) => to.new \in Hours
    PROVE  ScheduleInv'
<1>1. edit' = [edit EXCEPT ![e] = to] /\ UNCHANGED <<day, tick, window, page, given>>
  BY DEF Goes
<1>2. ScheduleTypeOK'
  BY <1>1 DEF ScheduleInv, ScheduleTypeOK
<1>3. FutureIsFree' /\ PermanentStays'
  BY <1>1 DEF ScheduleInv, FutureIsFree, PermanentStays
<1>4. ASSUME NEW f \in Editors PROVE EditOK(f)'
  <2>1. edit'[f] = IF f = e THEN to ELSE edit[f]
    BY <1>1 DEF ScheduleInv, ScheduleTypeOK
  <2>2. CASE f = e
    BY <1>1, <2>1, <2>2 DEF EditOK
  <2>3. CASE f # e
    BY <1>1, <2>1, <2>3 DEF ScheduleInv, EditOK
  <2> QED BY <2>2, <2>3
<1>5. ASSUME NEW v \in Visitors PROVE PageOK(v)'
  BY <1>1 DEF ScheduleInv, PageOK
<1> QED BY <1>2, <1>3, <1>4, <1>5 DEF ScheduleInv

(* The end of a transaction that wrote nothing.                            *)
LEMMA DropInv ==
    ASSUME ScheduleInv, NEW e \in Editors, Goes(e, NoEdit)
    PROVE  ScheduleInv'
<1>1. NoEdit \in Edit /\ NoEdit.pc = "idle" /\ NoEdit.date \notin Dates
  BY ScheduleAssumption DEF NoEdit, Edit
<1> QED BY <1>1, GoesInv

(* The statements of an apply phase, up to its commit.                     *)
LEMMA StatementInv ==
    ASSUME ScheduleInv, NEW e \in Editors,
           ValidateSchedule(e) \/ SetHours(e) \/ ResetToDefault(e) \/ FailEdit(e)
    PROVE  ScheduleInv'
<1>1. edit[e] \in Edit /\ EditOK(e) /\ day \in Dates
  BY DEF ScheduleInv, ScheduleTypeOK
<1>2. CASE ValidateSchedule(e)
  <2> DEFINE o == edit[e].cmd
             d == IF o.scope = "permanent" THEN Permanent ELSE Today
             to == [edit[e] EXCEPT !.pc = "write", !.date = d]
  <2>1. edit[e].pc = "validate" /\ o \in ScheduleCommands
    BY <1>1, <1>2 DEF ValidateSchedule, EditOK
  <2>2. d \in Dates \cup {Permanent} /\ (d \in Dates => d <= day)
    BY <1>1, ScheduleAssumption DEF Today, Dates
  <2>3. CASE ValidApplyScheduleCommand(o)
    <3>1. Goes(e, to)
      BY <1>2, <2>3 DEF ValidateSchedule
    <3>2. to \in Edit /\ to.pc = "write" /\ to.cmd = o /\ to.date = d
      BY <1>1, <2>2 DEF Edit
    <3>3. o.action = "reset_to_default" => d \in Dates
      BY <1>1, <2>3 DEF ValidApplyScheduleCommand, Today
    <3> HIDE DEF to, d, o
    <3>4. /\ to.pc # "idle" => to.cmd \in ScheduleCommands
          /\ to.date \in Dates => to.date <= day
          /\ to.pc = "write" => to.date \in Dates \cup {Permanent}
          /\ (to.pc = "write" /\ to.cmd.action = "reset_to_default") => to.date \in Dates
          /\ (to.pc = "commit" /\ to.date = Permanent) => to.new \in Hours
      BY <2>1, <2>2, <3>2, <3>3
    <3> QED BY <3>1, <3>2, <3>4, GoesInv
  <2>4. CASE ~ValidApplyScheduleCommand(o)
    BY <1>2, <2>4, DropInv DEF ValidateSchedule
  <2> QED BY <2>3, <2>4
<1>3. CASE SetHours(e)
  <2> DEFINE to == [edit[e] EXCEPT !.pc = "commit", !.new = edit[e].cmd.hours]
  <2>1. edit[e].pc = "write" /\ edit[e].cmd \in ScheduleCommands /\ Goes(e, to)
    BY <1>1, <1>3 DEF SetHours, EditOK
  <2>2. edit[e].cmd.hours \in Hours
    BY <2>1, ScheduleAssumption DEF ScheduleCommand
  <2>3. /\ to \in Edit /\ to.pc = "commit" /\ to.cmd = edit[e].cmd
        /\ to.date = edit[e].date /\ to.new \in Hours
    BY <1>1, <2>2 DEF Edit
  <2> HIDE DEF to
  <2>4. /\ to.pc # "idle" => to.cmd \in ScheduleCommands
        /\ to.date \in Dates => to.date <= day
        /\ to.pc # "write"
        /\ (to.pc = "commit" /\ to.date = Permanent) => to.new \in Hours
    BY <1>1, <2>1, <2>3 DEF EditOK
  <2> QED BY <2>1, <2>3, <2>4, GoesInv
<1>4. CASE ResetToDefault(e)
  <2> DEFINE there == window[edit[e].cmd.period][edit[e].date] # NoWindow
             to == [edit[e] EXCEPT !.pc = "commit", !.date = IF there THEN @ ELSE NoDate]
  <2>1. /\ edit[e].pc = "write" /\ edit[e].cmd \in ScheduleCommands
        /\ edit[e].cmd.action = "reset_to_default" /\ Goes(e, to)
    BY <1>1, <1>4 DEF ResetToDefault, EditOK
  <2>2. edit[e].date \in Dates /\ edit[e].date <= day
    BY <1>1, <2>1 DEF EditOK
  <2>3. /\ to \in Edit /\ to.pc = "commit" /\ to.cmd = edit[e].cmd
        /\ to.date = edit[e].date \/ to.date = NoDate
    BY <1>1, <2>2 DEF Edit
  <2> HIDE DEF to
  <2>4. /\ to.pc # "idle" => to.cmd \in ScheduleCommands
        /\ to.date \in Dates => to.date <= day
        /\ to.pc # "write" /\ to.date # Permanent
    BY <2>1, <2>2, <2>3, ScheduleAssumption
  <2> QED BY <2>1, <2>3, <2>4, GoesInv
<1>5. CASE FailEdit(e)
  BY <1>5, DropInv DEF FailEdit
<1> QED BY <1>2, <1>3, <1>4, <1>5

(* The row a commit writes, for the day of the edit or for good.           *)
LEMMA CommitRows ==
    ASSUME ScheduleInv, NEW e \in Editors, CommitEdit(e)
    PROVE  /\ edit[e].cmd.period \in Periods /\ edit[e].new \in Hours \cup {NoWindow}
           /\ \A p \in Periods, d \in Dates \cup {Permanent} :
                 window'[p][d] = IF p = edit[e].cmd.period /\ d = edit[e].date
                                 THEN edit[e].new ELSE window[p][d]
           /\ window' \in [Periods -> [Dates \cup {Permanent} -> Hours \cup {NoWindow}]]
<1> DEFINE q == edit[e].cmd.period
           row == [d \in DOMAIN window[q] |->
                     IF d = edit[e].date THEN edit[e].new ELSE window[q][d]]
<1>1. /\ edit[e] \in Edit /\ edit[e].pc = "commit" /\ EditOK(e)
      /\ window \in [Periods -> [Dates \cup {Permanent} -> Hours \cup {NoWindow}]]
  BY DEF ScheduleInv, ScheduleTypeOK, CommitEdit
<1>2. q \in Periods /\ edit[e].new \in Hours \cup {NoWindow}
  BY <1>1, ScheduleAssumption DEF EditOK, Edit, ScheduleCommand
<1>3. window' = [window EXCEPT ![q] = row]
  BY DEF CommitEdit
<1>4. row \in [Dates \cup {Permanent} -> Hours \cup {NoWindow}]
  BY <1>1, <1>2
<1>5. \A d \in Dates \cup {Permanent} :
         row[d] = IF d = edit[e].date THEN edit[e].new ELSE window[q][d]
  BY <1>1, <1>2
<1> HIDE DEF row, q
<1>6. window' \in [Periods -> [Dates \cup {Permanent} -> Hours \cup {NoWindow}]]
  BY <1>1, <1>2, <1>3, <1>4
<1>7. \A p \in Periods : window'[p] = IF p = q THEN row ELSE window[p]
  BY <1>1, <1>2, <1>3
<1> QED BY <1>2, <1>5, <1>6, <1>7 DEF q

(* A commit keeps the invariant.                                           *)
LEMMA CommitInv ==
    ASSUME ScheduleInv, NEW e \in Editors, CommitEdit(e)
    PROVE  ScheduleInv'
<1>1. /\ edit' = [edit EXCEPT ![e] = NoEdit] /\ UNCHANGED <<day, tick, page, given>>
      /\ edit[e].pc = "commit" /\ EditOK(e)
  BY DEF CommitEdit, ScheduleInv
<1>2. ScheduleTypeOK'
  <2>1. NoEdit \in Edit
    BY DEF NoEdit, Edit
  <2> QED BY <1>1, <2>1, CommitRows DEF ScheduleInv, ScheduleTypeOK
<1>3. FutureIsFree'
  <2> SUFFICES ASSUME NEW p \in Periods, NEW d \in Dates, d > day
               PROVE  window'[p][d] = NoWindow
    BY <1>1 DEF FutureIsFree
  <2>1. d # edit[e].date
    BY <1>1 DEF EditOK, ScheduleInv, ScheduleTypeOK, Dates
  <2> QED BY <2>1, CommitRows DEF ScheduleInv, FutureIsFree
<1>4. PermanentStays'
  BY <1>1, CommitRows DEF ScheduleInv, PermanentStays, EditOK
<1>5. ASSUME NEW f \in Editors PROVE EditOK(f)'
  <2>1. edit'[f] = IF f = e THEN NoEdit ELSE edit[f]
    BY <1>1 DEF ScheduleInv, ScheduleTypeOK
  <2>2. CASE f = e
    BY <1>1, <2>1, <2>2, ScheduleAssumption DEF EditOK, NoEdit
  <2>3. CASE f # e
    BY <1>1, <2>1, <2>3 DEF ScheduleInv, EditOK
  <2> QED BY <2>2, <2>3
<1>6. ASSUME NEW v \in Visitors PROVE PageOK(v)'
  BY <1>1 DEF ScheduleInv, PageOK
<1> QED BY <1>2, <1>3, <1>4, <1>5, <1>6 DEF ScheduleInv

(* A step of a page.                                                       *)
LEMMA PageInv ==
    ASSUME ScheduleInv, NEW v \in Visitors,
           OpenPage(v) \/ QueryWindows(v) \/ GetMenuWindowContext(v)
    PROVE  ScheduleInv'
<1>1. page[v] \in Page /\ PageOK(v) /\ day \in Dates
  BY DEF ScheduleInv, ScheduleTypeOK
<1>2. PICK to \in Page : Shows(v, to) /\ (to.pc = "query" => to.date \in Dates)
  <2>1. CASE OpenPage(v)
    <3> DEFINE to == [NoPage EXCEPT !.pc = "query", !.date = QueryDay]
    <3>1. to \in Page /\ to.date \in Dates
      BY <1>1 DEF Page, NoPage, QueryDay
    <3> QED BY <2>1, <3>1 DEF OpenPage
  <2>2. CASE QueryWindows(v)
    <3> DEFINE to == [page[v] EXCEPT !.pc = "clock", !.got = LoadWindows(page[v].date)]
    <3>1. page[v].date \in Dates
      BY <1>1, <2>2 DEF QueryWindows, PageOK
    <3>2. LoadWindows(page[v].date) \in [Periods -> Hours \cup {NoWindow}]
      BY <3>1 DEF LoadWindows, ScheduleInv, ScheduleTypeOK
    <3>3. to \in Page /\ to.pc = "clock"
      BY <1>1, <3>2 DEF Page
    <3> QED BY <2>2, <3>3 DEF QueryWindows
  <2>3. CASE GetMenuWindowContext(v)
    <3> DEFINE open == \E p \in Periods : WindowOpen(page[v].got[p], tick)
               early == /\ ~open /\ page[v].got["evening"] # NoWindow
                        /\ tick < page[v].got["evening"].start
               to == [page[v] EXCEPT !.pc = "shown", !.open = open, !.preorder = early]
    <3>1. open \in BOOLEAN /\ early \in BOOLEAN
      OBVIOUS
    <3>2. Shows(v, to)
      BY <2>3 DEF GetMenuWindowContext
    <3> HIDE DEF open, early
    <3>3. to \in Page /\ to.pc = "shown"
      BY <1>1, <3>1 DEF Page
    <3> QED BY <3>2, <3>3
  <2> QED BY <2>1, <2>2, <2>3
<1>3. page' = [page EXCEPT ![v] = to] /\ UNCHANGED <<day, tick, window, edit, given>>
  BY <1>2 DEF Shows
<1>4. ScheduleTypeOK'
  BY <1>2, <1>3 DEF ScheduleInv, ScheduleTypeOK
<1>5. FutureIsFree' /\ PermanentStays'
  BY <1>3 DEF ScheduleInv, FutureIsFree, PermanentStays
<1>6. ASSUME NEW e \in Editors PROVE EditOK(e)'
  BY <1>3 DEF ScheduleInv, EditOK
<1>7. ASSUME NEW u \in Visitors PROVE PageOK(u)'
  BY <1>2, <1>3 DEF ScheduleInv, ScheduleTypeOK, PageOK
<1> QED BY <1>4, <1>5, <1>6, <1>7 DEF ScheduleInv

(* Every step keeps the invariant.                                         *)
LEMMA ScheduleNextInv == ScheduleInv /\ [ScheduleNext]_schedVars => ScheduleInv'
<1> SUFFICES ASSUME ScheduleInv, [ScheduleNext]_schedVars PROVE ScheduleInv'
  OBVIOUS
<1>1. CASE Tick
  <2>1. /\ UNCHANGED <<window, edit, page, given>> /\ day \in Dates /\ tick \in Ticks
        /\ day' \in Dates /\ tick' \in Ticks /\ day <= day'
    BY <1>1, ScheduleAssumption DEF Tick, ScheduleInv, ScheduleTypeOK, Dates, Ticks
  <2>2. ScheduleTypeOK'
    BY <2>1 DEF ScheduleInv, ScheduleTypeOK
  <2>3. FutureIsFree' /\ PermanentStays'
    BY <2>1 DEF ScheduleInv, FutureIsFree, PermanentStays, Dates
  <2>4. ASSUME NEW e \in Editors PROVE EditOK(e)'
    BY <2>1 DEF ScheduleInv, EditOK, Dates
  <2>5. ASSUME NEW v \in Visitors PROVE PageOK(v)'
    BY <2>1 DEF ScheduleInv, PageOK
  <2> QED BY <2>2, <2>3, <2>4, <2>5 DEF ScheduleInv
<1>2. ASSUME NEW e \in Editors, NEW cmd \in ScheduleCommands, CollectSchedule(e, cmd)
      PROVE ScheduleInv'
  <2> DEFINE to == [NoEdit EXCEPT !.pc = "validate", !.cmd = cmd, !.asked = day]
  <2>1. to \in Edit /\ to.pc = "validate" /\ to.cmd = cmd /\ to.date = NoDate
    BY DEF Edit, NoEdit, ScheduleInv, ScheduleTypeOK
  <2>2. /\ edit' = [edit EXCEPT ![e] = to] /\ UNCHANGED <<day, tick, window, page>>
        /\ given < MaxGiven /\ given' = given + 1
    BY <1>2 DEF CollectSchedule
  <2> HIDE DEF to
  <2>3. ScheduleTypeOK'
    <3>1. given' \in 0 .. MaxGiven
      BY <2>2, ScheduleAssumption DEF ScheduleInv, ScheduleTypeOK
    <3>2. edit' \in [Editors -> Edit]
      BY <2>1, <2>2 DEF ScheduleInv, ScheduleTypeOK
    <3> QED BY <2>2, <3>1, <3>2 DEF ScheduleInv, ScheduleTypeOK
  <2>4. FutureIsFree' /\ PermanentStays'
    BY <2>2 DEF ScheduleInv, FutureIsFree, PermanentStays
  <2>5. ASSUME NEW f \in Editors PROVE EditOK(f)'
    <3>1. edit'[f] = IF f = e THEN to ELSE edit[f]
      BY <2>2 DEF ScheduleInv, ScheduleTypeOK
    <3>2. CASE f = e
      BY <2>1, <2>2, <3>1, <3>2, ScheduleAssumption DEF EditOK
    <3>3. CASE f # e
      BY <2>2, <3>1, <3>3 DEF ScheduleInv, EditOK
    <3> QED BY <3>2, <3>3
  <2>6. ASSUME NEW v \in Visitors PROVE PageOK(v)'
    BY <2>2 DEF ScheduleInv, PageOK
  <2> QED BY <2>3, <2>4, <2>5, <2>6 DEF ScheduleInv
<1>3. ASSUME NEW e \in Editors,
             ValidateSchedule(e) \/ SetHours(e) \/ ResetToDefault(e) \/ FailEdit(e)
      PROVE ScheduleInv'
  BY <1>3, StatementInv
<1>4. ASSUME NEW e \in Editors, CommitEdit(e) PROVE ScheduleInv'
  BY <1>4, CommitInv
<1>5. ASSUME NEW v \in Visitors, OpenPage(v) \/ QueryWindows(v) \/ GetMenuWindowContext(v)
      PROVE ScheduleInv'
  BY <1>5, PageInv
<1>6. CASE ScheduleCrash
  <2>1. /\ edit' = [e \in Editors |-> NoEdit] /\ page' = [v \in Visitors |-> NoPage]
        /\ UNCHANGED <<day, tick, window, given>>
    BY <1>6 DEF ScheduleCrash
  <2>2. NoEdit \in Edit /\ NoPage \in Page
    BY DEF NoEdit, Edit, NoPage, Page
  <2>3. ScheduleTypeOK'
    BY <2>1, <2>2 DEF ScheduleInv, ScheduleTypeOK
  <2>4. FutureIsFree' /\ PermanentStays'
    BY <2>1 DEF ScheduleInv, FutureIsFree, PermanentStays
  <2>5. ASSUME NEW e \in Editors PROVE EditOK(e)'
    BY <2>1, ScheduleAssumption DEF EditOK, NoEdit
  <2>6. ASSUME NEW v \in Visitors PROVE PageOK(v)'
    BY <2>1 DEF PageOK, NoPage
  <2> QED BY <2>3, <2>4, <2>5, <2>6 DEF ScheduleInv
<1>7. CASE UNCHANGED schedVars
  <2>1. UNCHANGED <<day, tick, window, edit, page, given>>
    BY <1>7 DEF schedVars
  <2> QED
    BY <2>1 DEF ScheduleInv, ScheduleTypeOK, FutureIsFree, PermanentStays, EditOK, PageOK
<1> QED BY <1>1, <1>2, <1>3, <1>4, <1>5, <1>6, <1>7 DEF ScheduleNext

(* However long the days and however many editors, pages and commands, the *)
(* rows, edits and pages of the schedule are well formed.                  *)
THEOREM ScheduleTypeCorrect == ScheduleSpec => []ScheduleTypeOK
<1>1. ScheduleInv => ScheduleTypeOK
  BY DEF ScheduleInv
<1> QED BY <1>1, ScheduleInitInv, ScheduleNextInv, PTL DEF ScheduleSpec

(* The permanent row of a period is never lost, whatever is reset.         *)
THEOREM PermanentRowStays == ScheduleSpec => []PermanentStays
<1>1. ScheduleInv => PermanentStays
  BY DEF ScheduleInv
<1> QED BY <1>1, ScheduleInitInv, ScheduleNextInv, PTL DEF ScheduleSpec

---------------------------------------------------------------------------
Usual == [p \in Periods |-> window[p][Permanent]]

Special == [p \in Periods |-> window[p][day]]

(* The seeded rows show the usual hours and none for today.                *)
LEMMA BoardInitially == ScheduleInit => Board!BoardInit
<1> SUFFICES ASSUME ScheduleInit PROVE Board!BoardInit
  OBVIOUS
<1>1. day \in Dates /\ day \in Nat
  BY ScheduleAssumption DEF ScheduleInit, Dates
<1>2. Usual \in [Periods -> Hours]
  BY ScheduleAssumption DEF ScheduleInit, Usual
<1>3. Special = [p \in Periods |-> NoWindow]
  BY <1>1, ScheduleAssumption DEF ScheduleInit, Special
<1> QED BY <1>1, <1>2, <1>3 DEF Board!BoardInit, Usual, Special

(* Overwriting a function at one place.                                    *)
LEMMA OverwriteOne ==
    ASSUME NEW S, NEW f, NEW g, NEW q \in S, NEW h,
           f = [p \in S |-> f[p]],
           g = [p \in S |-> IF p = q THEN h ELSE f[p]]
    PROVE  g = [f EXCEPT ![q] = h]
  OBVIOUS

(* A commit writes one permanent row, one row of today, or none that       *)
(* matters any more.                                                       *)
LEMMA CommitOnBoard ==
    ASSUME ScheduleInv, NEW e \in Editors, CommitEdit(e)
    PROVE  [Board!BoardNext]_(Board!boardVars)
<1>a. PICK q \in Periods, h \in Hours \cup {NoWindow} :
         q = edit[e].cmd.period /\ h = edit[e].new
  BY CommitRows
<1>1. /\ day' = day /\ day \in Dates /\ edit[e].pc = "commit" /\ EditOK(e)
      /\ \A p \in Periods, d \in Dates \cup {Permanent} :
            window'[p][d] = IF p = q /\ d = edit[e].date THEN h ELSE window[p][d]
  <2>1. day' = day /\ edit[e].pc = "commit"
    BY DEF CommitEdit
  <2>2. day \in Dates /\ EditOK(e)
    BY DEF ScheduleInv, ScheduleTypeOK
  <2>3. \A p \in Periods, d \in Dates \cup {Permanent} :
           window'[p][d] = IF p = q /\ d = edit[e].date THEN h ELSE window[p][d]
    BY <1>a, CommitRows
  <2> QED BY <2>1, <2>2, <2>3
<1>2. CASE edit[e].date = Permanent
  <2>1. h \in Hours /\ day # Permanent
    BY <1>a, <1>1, <1>2, ScheduleAssumption DEF EditOK
  <2>2. Usual' = [Usual EXCEPT ![q] = h]
    <3>1. ASSUME NEW p \in Periods
          PROVE  window'[p][Permanent] = IF p = q THEN h ELSE window[p][Permanent]
      BY <1>1, <1>2
    <3>2. Usual' = [p \in Periods |-> IF p = q THEN h ELSE Usual[p]]
      BY <3>1, Zenon DEF Usual
    <3>3. Usual = [p \in Periods |-> Usual[p]]
      BY DEF Usual
    <3> QED BY <3>2, <3>3, OverwriteOne
  <2>3. Special' = Special
    BY <1>1, <1>2, <2>1 DEF Special
  <2>4. Board!SetUsual(q, h)
    BY <1>1, <2>2, <2>3 DEF Board!SetUsual, Usual, Special
  <2> QED BY <1>1, <2>1, <2>4 DEF Board!BoardNext
<1>3. CASE edit[e].date = day
  <2>1. day # Permanent
    BY <1>1, ScheduleAssumption
  <2>2. Usual' = Usual
    BY <1>1, <1>3, <2>1 DEF Usual
  <2>3. Special' = [Special EXCEPT ![q] = h]
    <3>1. ASSUME NEW p \in Periods
          PROVE  window'[p][day'] = IF p = q THEN h ELSE window[p][day]
      BY <1>1, <1>3
    <3>2. Special' = [p \in Periods |-> IF p = q THEN h ELSE Special[p]]
      BY <3>1 DEF Special
    <3>3. Special = [p \in Periods |-> Special[p]]
      BY DEF Special
    <3> QED BY <3>2, <3>3, OverwriteOne
  <2>4. Board!SetSpecial(q, h)
    BY <1>1, <2>2, <2>3 DEF Board!SetSpecial, Usual, Special
  <2> QED BY <1>1, <2>4 DEF Board!BoardNext
<1>4. CASE edit[e].date # Permanent /\ edit[e].date # day
  <2>1. Usual' = Usual /\ Special' = Special
    BY <1>1, <1>4 DEF Usual, Special
  <2> QED BY <1>1, <2>1 DEF Board!boardVars, Usual, Special
<1> QED BY <1>2, <1>3, <1>4

(* Every step of the clock, of an editor or of a page is a change of the   *)
(* board, a midnight, or nothing the board shows.                          *)
LEMMA BoardStep ==
    ScheduleInv /\ [ScheduleNext]_schedVars => [Board!BoardNext]_(Board!boardVars)
<1> SUFFICES ASSUME ScheduleInv, [ScheduleNext]_schedVars
             PROVE  [Board!BoardNext]_(Board!boardVars)
  OBVIOUS
<1>1. CASE UNCHANGED <<day, window>>
  BY <1>1 DEF Board!boardVars
<1>2. CASE Tick
  <2>1. UNCHANGED window /\ day \in Dates
    BY <1>2 DEF Tick, ScheduleInv, ScheduleTypeOK
  <2>2. CASE day' = day
    BY <1>1, <2>1, <2>2
  <2>3. CASE day' = day + 1 /\ day < LastDay
    <3>1. day' \in Dates /\ day' > day
      BY <2>1, <2>3, ScheduleAssumption DEF Dates
    <3>2. Special' = [p \in Periods |-> NoWindow]
      BY <2>1, <3>1 DEF Special, ScheduleInv, FutureIsFree
    <3>3. Usual' = Usual
      BY <2>1 DEF Usual
    <3>4. Board!Midnight
      BY <2>3, <3>2, <3>3 DEF Board!Midnight, Usual, Special
    <3> QED BY <3>4 DEF Board!BoardNext
  <2> QED BY <1>2, <2>2, <2>3 DEF Tick
<1>3. ASSUME NEW e \in Editors, CommitEdit(e) PROVE [Board!BoardNext]_(Board!boardVars)
  BY <1>3, CommitOnBoard
<1>4. ASSUME NEW e \in Editors, NEW cmd \in ScheduleCommands, CollectSchedule(e, cmd)
      PROVE UNCHANGED <<day, window>>
  BY <1>4 DEF CollectSchedule
<1>5. ASSUME NEW e \in Editors,
             ValidateSchedule(e) \/ SetHours(e) \/ ResetToDefault(e) \/ FailEdit(e)
      PROVE UNCHANGED <<day, window>>
  BY <1>5 DEF ValidateSchedule, SetHours, ResetToDefault, FailEdit, Goes
<1>6. ASSUME NEW v \in Visitors, OpenPage(v) \/ QueryWindows(v) \/ GetMenuWindowContext(v)
      PROVE UNCHANGED <<day, window>>
  BY <1>6 DEF OpenPage, QueryWindows, GetMenuWindowContext, Shows
<1>7. CASE ScheduleCrash
  BY <1>1, <1>7 DEF ScheduleCrash
<1>8. CASE UNCHANGED schedVars
  BY <1>1, <1>8 DEF schedVars
<1> QED BY <1>1, <1>2, <1>3, <1>4, <1>5, <1>6, <1>7, <1>8 DEF ScheduleNext

(* The rows, the clock and the commands that race implement the board of   *)
(* opening hours: one change at a time, and nothing of a day is left after *)
(* its midnight.                                                           *)
THEOREM RowsImplementBoard == ScheduleSpec => ImplementsBoard
<1>1. ScheduleInit => Board!BoardInit
  BY BoardInitially
<1>2. ScheduleInv /\ [ScheduleNext]_schedVars => [Board!BoardNext]_(Board!boardVars)
  BY BoardStep
<1> QED
  BY <1>1, <1>2, ScheduleInitInv, ScheduleNextInv, PTL
  DEF ScheduleSpec, ImplementsBoard, Board!BoardSpec

---------------------------------------------------------------------------
(* What a transaction writes is what it was told: the row of the day the   *)
(* clock showed after the command came in, or the permanent row; the hours *)
(* of the command, or none for a reset.                                    *)
Means(r, today) ==
    /\ r.pc # "idle" => r.asked \in Dates /\ r.asked <= today
    /\ r.pc \in {"write", "commit"} =>
          /\ ValidApplyScheduleCommand(r.cmd)
          /\ r.cmd.scope = "permanent" => r.date = Permanent
          /\ r.cmd.scope = "today" => r.date \in Dates \cup {NoDate}
          /\ r.date \in Dates => r.asked <= r.date /\ r.date <= today
          /\ r.date = NoDate => r.pc = "commit" /\ r.cmd.action = "reset_to_default"
    /\ r.pc \in {"validate", "write"} => r.new = NoWindow
    /\ r.pc = "commit" =>
          r.new = IF r.cmd.action = "set_hours" THEN r.cmd.hours ELSE NoWindow

EditsMean == \A e \in Editors : Means(edit[e], day)

(* A page that has its rows has hours for both periods, and one that is    *)
(* shown is open when they cover the day.                                  *)
Shown(r) ==
    /\ r.pc \in {"clock", "shown"} => r.got \in [Periods -> Hours]
    /\ (/\ r.pc = "shown" /\ r.got["morning"].start = 0
        /\ r.got["evening"].start <= r.got["morning"].end /\ r.got["evening"].end = Eod)
          => r.open /\ ~r.preorder

PagesShow == \A v \in Visitors : Shown(page[v])

(* A transaction in progress at midnight means what it meant.              *)
LEMMA MeansLater ==
    ASSUME NEW r, NEW d \in Dates, NEW n \in Dates, d <= n, Means(r, d)
    PROVE  Means(r, n)
  BY ScheduleAssumption DEF Means, Dates

LEMMA NoEditMeans == \A d : Means(NoEdit, d)
  BY DEF Means, NoEdit

(* One transaction goes on, the others stay.                               *)
LEMMA OneEditMeans ==
    ASSUME ScheduleInv, EditsMean, NEW e \in Editors, NEW to,
           edit' = [edit EXCEPT ![e] = to], day' = day, Means(to, day)
    PROVE  EditsMean'
<1> SUFFICES ASSUME NEW f \in Editors PROVE Means(edit'[f], day)
  BY DEF EditsMean
<1>1. edit'[f] = IF f = e THEN to ELSE edit[f]
  BY DEF ScheduleInv, ScheduleTypeOK
<1> QED BY <1>1 DEF EditsMean

(* The statements of an apply phase do what its command says.              *)
LEMMA StatementMeans ==
    ASSUME ScheduleInv, EditsMean, NEW e \in Editors,
           ValidateSchedule(e) \/ SetHours(e) \/ ResetToDefault(e) \/ FailEdit(e)
    PROVE  EditsMean'
<1>1. /\ edit[e] \in Edit /\ EditOK(e) /\ Means(edit[e], day) /\ day \in Dates
      /\ NoDate \notin Dates \cup {Permanent} /\ Permanent \notin Dates
  BY ScheduleAssumption DEF ScheduleInv, ScheduleTypeOK, EditsMean
<1>d. day' = day
  BY DEF ValidateSchedule, SetHours, ResetToDefault, FailEdit, Goes
<1>2. CASE ValidateSchedule(e)
  <2> DEFINE o == edit[e].cmd
             d == IF o.scope = "permanent" THEN Permanent ELSE Today
             to == [edit[e] EXCEPT !.pc = "write", !.date = d]
  <2>1. edit[e].pc = "validate" /\ o \in ScheduleCommands
    BY <1>1, <1>2 DEF ValidateSchedule, EditOK
  <2>2. CASE ValidApplyScheduleCommand(o)
    <3>1. edit' = [edit EXCEPT ![e] = to]
      BY <1>2, <2>2 DEF ValidateSchedule, Goes
    <3>2. /\ to.pc = "write" /\ to.cmd = o /\ to.date = d /\ to.asked = edit[e].asked
          /\ to.new = edit[e].new
      BY <1>1 DEF Edit
    <3>3. /\ o.scope = "permanent" => d = Permanent
          /\ o.scope # "permanent" => d = day
      BY DEF Today
    <3> HIDE DEF to, d, o
    <3>4. /\ edit[e].asked \in Dates /\ edit[e].asked <= day /\ edit[e].new = NoWindow
      BY <1>1, <2>1 DEF Means
    <3>5. day <= day
      BY <1>1 DEF Dates
    <3>6. Means(to, day)
      BY <1>1, <2>2, <3>2, <3>3, <3>4, <3>5 DEF Means
    <3> QED BY <1>d, <3>1, <3>6, OneEditMeans
  <2>3. CASE ~ValidApplyScheduleCommand(o)
    <3>1. edit' = [edit EXCEPT ![e] = NoEdit]
      BY <1>2, <2>3 DEF ValidateSchedule, Goes
    <3> QED BY <1>d, <3>1, NoEditMeans, OneEditMeans
  <2> QED BY <2>2, <2>3
<1>3. CASE SetHours(e)
  <2> DEFINE to == [edit[e] EXCEPT !.pc = "commit", !.new = edit[e].cmd.hours]
  <2>1. /\ edit[e].pc = "write" /\ edit[e].cmd.action = "set_hours"
        /\ edit' = [edit EXCEPT ![e] = to]
    BY <1>3 DEF SetHours, Goes
  <2>2. /\ to.pc = "commit" /\ to.cmd = edit[e].cmd /\ to.date = edit[e].date
        /\ to.asked = edit[e].asked /\ to.new = edit[e].cmd.hours
    BY <1>1 DEF Edit
  <2> HIDE DEF to
  <2>3. Means(to, day)
    BY <1>1, <2>1, <2>2 DEF Means
  <2> QED BY <1>d, <2>1, <2>3, OneEditMeans
<1>4. CASE ResetToDefault(e)
  <2> DEFINE there == window[edit[e].cmd.period][edit[e].date] # NoWindow
             to == [edit[e] EXCEPT !.pc = "commit", !.date = IF there THEN @ ELSE NoDate]
  <2>1. /\ edit[e].pc = "write" /\ edit[e].cmd.action = "reset_to_default"
        /\ edit' = [edit EXCEPT ![e] = to]
    BY <1>4 DEF ResetToDefault, Goes
  <2>2. /\ to.pc = "commit" /\ to.cmd = edit[e].cmd
        /\ to.date = edit[e].date \/ to.date = NoDate
        /\ to.asked = edit[e].asked /\ to.new = edit[e].new
    BY <1>1 DEF Edit
  <2> HIDE DEF to
  <2>3. edit[e].cmd.scope = "today"
    BY <1>1, <2>1 DEF Means, ValidApplyScheduleCommand
  <2>4. Means(to, day)
    BY <1>1, <2>1, <2>2, <2>3 DEF Means
  <2> QED BY <1>d, <2>1, <2>4, OneEditMeans
<1>5. CASE FailEdit(e)
  <2>1. edit' = [edit EXCEPT ![e] = NoEdit]
    BY <1>5 DEF FailEdit, Goes
  <2> QED BY <1>d, <2>1, NoEditMeans, OneEditMeans
<1> QED BY <1>2, <1>3, <1>4, <1>5

(* Every step keeps what the transactions mean.                            *)
LEMMA EditsMeanStep ==
    ASSUME ScheduleInv, EditsMean, [ScheduleNext]_schedVars PROVE EditsMean'
<1>0. day \in Dates
  BY DEF ScheduleInv, ScheduleTypeOK
<1>1. CASE Tick
  <2>1. edit' = edit /\ day' \in Dates /\ day <= day'
    BY <1>0, <1>1, ScheduleAssumption DEF Tick, Dates
  <2>2. ASSUME NEW e \in Editors PROVE Means(edit[e], day')
    BY <1>0, <2>1, MeansLater DEF EditsMean
  <2> QED BY <2>1, <2>2 DEF EditsMean
<1>2. ASSUME NEW e \in Editors, NEW cmd \in ScheduleCommands, CollectSchedule(e, cmd)
      PROVE EditsMean'
  <2> DEFINE to == [NoEdit EXCEPT !.pc = "validate", !.cmd = cmd, !.asked = day]
  <2>1. to.pc = "validate" /\ to.asked = day /\ to.new = NoWindow
    BY DEF NoEdit
  <2>2. edit' = [edit EXCEPT ![e] = to] /\ day' = day
    BY <1>2 DEF CollectSchedule
  <2> HIDE DEF to
  <2>3. day <= day
    BY <1>0 DEF Dates
  <2>4. Means(to, day)
    BY <1>0, <2>1, <2>3 DEF Means
  <2> QED BY <2>2, <2>4, OneEditMeans
<1>3. ASSUME NEW e \in Editors,
             ValidateSchedule(e) \/ SetHours(e) \/ ResetToDefault(e) \/ FailEdit(e)
      PROVE EditsMean'
  BY <1>3, StatementMeans
<1>4. ASSUME NEW e \in Editors, CommitEdit(e) PROVE EditsMean'
  BY <1>4, NoEditMeans, OneEditMeans DEF CommitEdit
<1>5. ASSUME NEW v \in Visitors, OpenPage(v) \/ QueryWindows(v) \/ GetMenuWindowContext(v)
      PROVE EditsMean'
  BY <1>5 DEF OpenPage, QueryWindows, GetMenuWindowContext, Shows, EditsMean
<1>6. CASE ScheduleCrash
  BY <1>6, NoEditMeans DEF ScheduleCrash, EditsMean
<1>7. CASE UNCHANGED schedVars
  BY <1>7 DEF schedVars, EditsMean
<1> QED BY <1>1, <1>2, <1>3, <1>4, <1>5, <1>6, <1>7 DEF ScheduleNext

(* The only step after which a committing transaction is gone and a row    *)
(* has changed is its own commit.                                          *)
LEMMA WhoWrites ==
    ASSUME ScheduleInv, [ScheduleNext]_schedVars, NEW e \in Editors,
           edit[e].pc = "commit", edit'[e].pc = "idle", window' # window
    PROVE  CommitEdit(e)
<1>1. ~Tick /\ ~ScheduleCrash /\ ~UNCHANGED schedVars
  BY DEF Tick, ScheduleCrash, schedVars
<1>2. \A f \in Editors :
         /\ \A cmd \in ScheduleCommands : ~CollectSchedule(f, cmd)
         /\ ~ValidateSchedule(f) /\ ~SetHours(f) /\ ~ResetToDefault(f) /\ ~FailEdit(f)
  BY DEF CollectSchedule, ValidateSchedule, SetHours, ResetToDefault, FailEdit, Goes
<1>3. \A v \in Visitors : ~OpenPage(v) /\ ~QueryWindows(v) /\ ~GetMenuWindowContext(v)
  BY DEF OpenPage, QueryWindows, GetMenuWindowContext, Shows
<1>4. PICK f \in Editors : CommitEdit(f)
  BY <1>1, <1>2, <1>3 DEF ScheduleNext
<1>5. f = e
  <2> SUFFICES ASSUME f # e PROVE FALSE
    OBVIOUS
  <2>1. edit'[e] = edit[e]
    BY <1>4 DEF CommitEdit, ScheduleInv, ScheduleTypeOK
  <2> QED BY <2>1
<1> QED BY <1>4, <1>5

(* What a commit changes is in force when the day is still that of the     *)
(* command.                                                                *)
LEMMA CommitTakesEffect ==
    ASSUME ScheduleInv, EditsMean, NEW e \in Editors, CommitEdit(e), window' # window,
           edit[e].asked = day
    PROVE  LET o == edit[e].cmd
               used == LoadWindows(day)'[o.period]
           IN IF o.action = "reset_to_default" THEN used = window'[o.period][Permanent]
              ELSE \/ used = o.hours
                   \/ o.scope = "permanent" /\ window[o.period][day] # NoWindow
<1> DEFINE o == edit[e].cmd
           q == edit[e].cmd.period
           d == edit[e].date
           n == edit[e].new
<1>1. /\ day' = day /\ day \in Dates /\ edit[e].pc = "commit" /\ EditOK(e)
      /\ Means(edit[e], day) /\ edit[e] \in Edit
      /\ window \in [Periods -> [Dates \cup {Permanent} -> Hours \cup {NoWindow}]]
  BY DEF CommitEdit, ScheduleInv, ScheduleTypeOK, EditsMean
<1>2. /\ q \in Periods /\ n \in Hours \cup {NoWindow}
      /\ \A p \in Periods, x \in Dates \cup {Permanent} :
            window'[p][x] = IF p = q /\ x = d THEN n ELSE window[p][x]
      /\ window' \in [Periods -> [Dates \cup {Permanent} -> Hours \cup {NoWindow}]]
  BY CommitRows
<1>3. /\ o \in ScheduleCommand /\ o.hours \in Hours
      /\ NoWindow \notin Hours /\ Permanent \notin Dates /\ NoDate \notin Dates \cup {Permanent}
  BY <1>1, ScheduleAssumption DEF EditOK, ScheduleCommand
<1>4. d # NoDate
  <2> SUFFICES ASSUME d = NoDate PROVE FALSE
    OBVIOUS
  <2>1. \A p \in Periods : \A x \in Dates \cup {Permanent} : window'[p][x] = window[p][x]
    BY <1>2, <1>3
  <2>2. \A p \in Periods : window'[p] = window[p]
    BY <1>1, <1>2, <2>1
  <2>3. window' = window
    BY <1>1, <1>2, <2>2
  <2> QED BY <2>3
<1>5. d = Permanent \/ d = day
  <2>1. d \in Dates \cup {Permanent, NoDate}
    BY <1>1 DEF Edit
  <2>2. d \in Dates => day <= d /\ d <= day
    BY <1>1 DEF Means
  <2> QED BY <1>1, <1>4, <2>1, <2>2 DEF Dates
<1>6. LoadWindows(day)'[q] =
         IF window'[q][day] # NoWindow THEN window'[q][day] ELSE window'[q][Permanent]
  BY <1>1, <1>2 DEF LoadWindows
<1>7. CASE o.action = "reset_to_default"
  <2>1. d = day /\ n = NoWindow
    <3>1. o.scope = "today"
      BY <1>1, <1>7 DEF Means, ValidApplyScheduleCommand
    <3>2. d \in Dates
      BY <1>1, <1>4, <3>1 DEF Means
    <3> QED BY <1>1, <1>3, <1>5, <1>7, <3>2 DEF Means
  <2>2. window'[q][day] = NoWindow
    BY <1>1, <1>2, <2>1
  <2> QED BY <1>6, <1>7, <2>2
<1>8. CASE o.action = "set_hours" /\ o.scope = "today"
  <2>1. d = day /\ n = o.hours
    <3>1. d \in Dates
      BY <1>1, <1>4, <1>8 DEF Means
    <3> QED BY <1>1, <1>3, <1>5, <1>8, <3>1 DEF Means
  <2>2. window'[q][day] = o.hours
    BY <1>1, <1>2, <2>1
  <2> QED BY <1>3, <1>6, <1>8, <2>2
<1>9. CASE o.action = "set_hours" /\ o.scope = "permanent"
  <2>1. d = Permanent /\ n = o.hours
    BY <1>1, <1>9 DEF Means
  <2>2. window'[q][Permanent] = o.hours /\ window'[q][day] = window[q][day]
    BY <1>1, <1>2, <1>3, <2>1
  <2> QED BY <1>6, <1>9, <2>2
<1> QED BY <1>3, <1>7, <1>8, <1>9 DEF ScheduleCommand

LEMMA EditsMeanInit == ScheduleInit => EditsMean
  BY NoEditMeans DEF ScheduleInit, EditsMean

(* A command that is committed on the day it was given takes effect at     *)
(* once, whatever commits, fails or ends a day in between.                 *)
THEOREM CommandsTakeEffect == ScheduleSpec => CommandTakesEffect
<1>1. ScheduleInv /\ EditsMean /\ [ScheduleNext]_schedVars => EditsMean'
  BY EditsMeanStep
<1>2. ScheduleInv /\ EditsMean /\ [ScheduleNext]_schedVars =>
        [\A e \in Editors :
         (edit[e].pc = "commit" /\ edit'[e].pc = "idle" /\ window' # window
            /\ edit[e].asked = day) =>
            LET o == edit[e].cmd
                used == LoadWindows(day)'[o.period]
            IN IF o.action = "reset_to_default" THEN used = window'[o.period][Permanent]
               ELSE \/ used = o.hours
                    \/ o.scope = "permanent" /\ window[o.period][day] # NoWindow]_schedVars
  <2> SUFFICES ASSUME ScheduleInv, EditsMean, [ScheduleNext]_schedVars, NEW e \in Editors,
                      edit[e].pc = "commit", edit'[e].pc = "idle", window' # window,
                      edit[e].asked = day
               PROVE  LET o == edit[e].cmd
                          used == LoadWindows(day)'[o.period]
                      IN IF o.action = "reset_to_default"
                         THEN used = window'[o.period][Permanent]
                         ELSE \/ used = o.hours
                              \/ o.scope = "permanent" /\ window[o.period][day] # NoWindow
    OBVIOUS
  <2>1. CommitEdit(e)
    BY WhoWrites
  <2> QED BY <2>1, CommitTakesEffect
<1> QED
  BY <1>1, <1>2, EditsMeanInit, ScheduleInitInv, ScheduleNextInv, PTL
  DEF ScheduleSpec, CommandTakesEffect

---------------------------------------------------------------------------
(* Hours that cover the day are open at every tick.                        *)
LEMMA CoveredIsOpen ==
    ASSUME NEW t \in Ticks, NEW m \in Hours, NEW n \in Hours,
           m.start = 0, n.start <= m.end, n.end = Eod
    PROVE  WindowOpen(m, t) \/ WindowOpen(n, t)
<1>1. /\ t \in Nat /\ m.start \in Nat /\ m.end \in Nat /\ n.start \in Nat /\ n.end \in Nat
      /\ m # NoWindow /\ n # NoWindow
  BY ScheduleAssumption DEF Hours, Ticks
<1> QED BY <1>1 DEF WindowOpen

(* Every step keeps the pages right.                                       *)
LEMMA PagesShowStep ==
    ASSUME ScheduleInv, PagesShow, [ScheduleNext]_schedVars PROVE PagesShow'
<1>n. Shown(NoPage)
  BY DEF Shown, NoPage
<1>1. ASSUME NEW v \in Visitors, NEW to, Shows(v, to), Shown(to) PROVE PagesShow'
  <2> SUFFICES ASSUME NEW u \in Visitors PROVE Shown(page'[u])
    BY DEF PagesShow
  <2>1. page'[u] = IF u = v THEN to ELSE page[u]
    BY <1>1 DEF Shows, ScheduleInv, ScheduleTypeOK
  <2> QED BY <1>1, <2>1 DEF PagesShow
<1>2. ASSUME NEW v \in Visitors, OpenPage(v) PROVE PagesShow'
  <2> DEFINE to == [NoPage EXCEPT !.pc = "query", !.date = QueryDay]
  <2>1. to.pc = "query" /\ Shows(v, to)
    BY <1>2 DEF NoPage, OpenPage
  <2> HIDE DEF to
  <2>2. Shown(to)
    BY <2>1 DEF Shown
  <2> QED BY <1>1, <2>1, <2>2
<1>3. ASSUME NEW v \in Visitors, QueryWindows(v) PROVE PagesShow'
  <2> DEFINE to == [page[v] EXCEPT !.pc = "clock", !.got = LoadWindows(page[v].date)]
  <2>1. page[v] \in Page /\ page[v].date \in Dates
    BY <1>3 DEF ScheduleInv, ScheduleTypeOK, PageOK, QueryWindows
  <2>2. LoadWindows(page[v].date) \in [Periods -> Hours]
    BY <2>1 DEF LoadWindows, ScheduleInv, ScheduleTypeOK, PermanentStays
  <2>3. to.pc = "clock" /\ to.got = LoadWindows(page[v].date) /\ Shows(v, to)
    BY <1>3, <2>1 DEF Page, QueryWindows
  <2> HIDE DEF to
  <2>4. Shown(to)
    BY <2>2, <2>3 DEF Shown
  <2> QED BY <1>1, <2>3, <2>4
<1>4. ASSUME NEW v \in Visitors, GetMenuWindowContext(v) PROVE PagesShow'
  <2> DEFINE got == page[v].got
             open == \E p \in Periods : WindowOpen(got[p], tick)
             early == /\ ~open /\ got["evening"] # NoWindow
                      /\ tick < got["evening"].start
             to == [page[v] EXCEPT !.pc = "shown", !.open = open, !.preorder = early]
  <2>1. page[v] \in Page /\ page[v].pc = "clock" /\ Shows(v, to) /\ tick \in Ticks
    BY <1>4 DEF ScheduleInv, ScheduleTypeOK, GetMenuWindowContext
  <2>2. got \in [Periods -> Hours]
    BY <2>1 DEF PagesShow, Shown
  <2>3. /\ open \in BOOLEAN /\ early \in BOOLEAN
        /\ got["morning"] \in Hours /\ got["evening"] \in Hours
    BY <2>2 DEF Periods
  <2>4. ASSUME got["morning"].start = 0, got["evening"].start <= got["morning"].end,
               got["evening"].end = Eod
        PROVE  open /\ ~early
    <3>1. WindowOpen(got["morning"], tick) \/ WindowOpen(got["evening"], tick)
      BY <2>1, <2>3, <2>4, CoveredIsOpen
    <3> QED BY <3>1 DEF Periods
  <2> HIDE DEF open, early, got
  <2>5. to.pc = "shown" /\ to.got = got /\ to.open = open /\ to.preorder = early
    BY <2>1 DEF Page, got
  <2> HIDE DEF to
  <2>6. Shown(to)
    BY <2>2, <2>4, <2>5 DEF Shown
  <2> QED BY <1>1, <2>1, <2>6
<1>5. CASE UNCHANGED page
  BY <1>5 DEF PagesShow
<1>6. CASE ScheduleCrash
  BY <1>6, <1>n DEF ScheduleCrash, PagesShow
<1>7. ASSUME Tick \/ UNCHANGED schedVars PROVE UNCHANGED page
  BY <1>7 DEF Tick, schedVars
<1>8. ASSUME NEW e \in Editors,
             \/ \E cmd \in ScheduleCommands : CollectSchedule(e, cmd)
             \/ ValidateSchedule(e) \/ SetHours(e) \/ ResetToDefault(e)
             \/ FailEdit(e) \/ CommitEdit(e)
      PROVE UNCHANGED page
  BY <1>8
  DEF CollectSchedule, ValidateSchedule, SetHours, ResetToDefault, FailEdit, CommitEdit, Goes
<1> QED BY <1>2, <1>3, <1>4, <1>5, <1>6, <1>7, <1>8 DEF ScheduleNext

(* Whatever the length of the day and the hours that cover it, no page     *)
(* shows the shop as closed.                                               *)
THEOREM CoveredDayStaysOpen == ScheduleSpec => []CoveredDayIsOpen
<1>1. ScheduleInit => PagesShow
  BY DEF ScheduleInit, PagesShow, Shown, NoPage
<1>2. ScheduleInv /\ PagesShow /\ [ScheduleNext]_schedVars => PagesShow'
  BY PagesShowStep
<1>3. PagesShow => CoveredDayIsOpen
  BY DEF PagesShow, Shown, CoveredDayIsOpen
<1> QED
  BY <1>1, <1>2, <1>3, ScheduleInitInv, ScheduleNextInv, PTL DEF ScheduleSpec

=============================================================================
