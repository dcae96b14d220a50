------------------------------ MODULE Schedule ------------------------------
(***************************************************************************)
(* The opening hours: rows of schedule_windows, one permanent row per      *)
(* period and at most one for a period and a day; the apply phase of       *)
(* ScheduleAgent that writes them while the clock goes on; and the pages   *)
(* that work out from them whether the shop is open.                       *)
(*                                                                         *)
(* The clock is MENU_TIMEZONE's.  is_active is left out: every row is      *)
(* active.  So is the state of BusinessScheduleFSM, which no caller gives. *)
(***************************************************************************)
EXTENDS Naturals

CONSTANTS
    Editors,     \* apply phases running at once (bound)
    Visitors,    \* pages being built at once (bound)
    LastTick,    \* the last moment of a day, after Eod
    Eod,         \* 23:59:59
    LastDay,     \* bound on the days explored
    ScheduleCommands,  \* the commands admins give (bound)
    MaxGiven,    \* how many of them (bound)
    Seed,        \* Seed[p]: the permanent row the migration seeds
    NoWindow,    \* no row
    Permanent,   \* effective_date IS NULL
    NoDate       \* no row was written

VARIABLES
    day, tick,   \* the clock
    window,      \* the committed rows: window[p][d]
    edit,        \* the apply phases in progress
    page,        \* the pages being built
    given        \* how many commands were given

schedVars == <<day, tick, window, edit, page, given>>

Periods == {"morning", "evening"}

Ticks == 0 .. LastTick

Dates == 0 .. LastDay

Hours == [start : Ticks, end : Ticks]

ScheduleCommand == [period : Periods, action : {"set_hours", "reset_to_default"},
                    scope : {"today", "permanent"}, hours : Hours]

ASSUME ScheduleAssumption ==
    /\ LastTick \in Nat /\ LastDay \in Nat /\ MaxGiven \in Nat /\ Eod \in Ticks
    /\ ScheduleCommands \subseteq ScheduleCommand
    /\ Seed \in [Periods -> Hours]
    /\ NoWindow \notin Hours
    /\ Permanent \notin Dates /\ NoDate \notin Dates \cup {Permanent}

(* date: the effective_date of the row to write, new: that row; asked: the *)
(* day the command came in, which nothing reads.                           *)
Edit == [pc : {"idle", "validate", "write", "commit"}, cmd : ScheduleCommands \cup {NoWindow},
         asked : Dates \cup {NoDate}, date : Dates \cup {Permanent, NoDate}, new : Hours \cup {NoWindow}]

NoEdit == [pc |-> "idle", cmd |-> NoWindow, asked |-> NoDate, date |-> NoDate,
           new |-> NoWindow]

(* date: the day the query is for; got: the rows that are used; open: the  *)
(* answer.                                                                 *)
Page == [pc : {"idle", "query", "clock", "shown"}, date : Dates \cup {NoDate},
         got : [Periods -> Hours \cup {NoWindow}], open : BOOLEAN, preorder : BOOLEAN]

NoPage == [pc |-> "idle", date |-> NoDate, got |-> [p \in Periods |-> NoWindow],
           open |-> FALSE, preorder |-> FALSE]

(* The clock stays within the day, rows, edits and pages are well formed.  *)
ScheduleTypeOK ==
    /\ day \in Dates /\ tick \in Ticks
    /\ window \in [Periods -> [Dates \cup {Permanent} -> Hours \cup {NoWindow}]]
    /\ edit \in [Editors -> Edit]
    /\ page \in [Visitors -> Page]
    /\ given \in 0 .. MaxGiven

ScheduleInit ==
    /\ day = 0 /\ tick = 0
    /\ window = [p \in Periods |-> [d \in Dates \cup {Permanent} |->
                    IF d = Permanent THEN Seed[p] ELSE NoWindow]]
    /\ edit = [e \in Editors |-> NoEdit]
    /\ page = [v \in Visitors |-> NoPage]
    /\ given = 0

---------------------------------------------------------------------------
Tick ==
    /\ \/ tick < LastTick /\ tick' = tick + 1 /\ UNCHANGED day
       \/ tick = LastTick /\ day < LastDay /\ tick' = 0 /\ day' = day + 1
    /\ UNCHANGED <<window, edit, page, given>>

(* Slip: the date of a database server whose day begins one tick later.    *)
ServerDate == IF tick = 0 /\ day > 0 THEN day - 1 ELSE day

(* datetime.now(_menu_timezone()).date() in apply_schedule_command ...     *)
Today == day

(* Slip: the next day.                                                     *)
NextDay == day + 1

(* ... and in _load_windows.                                               *)
QueryDay == day

Goes(e, to) ==
    /\ edit' = [edit EXCEPT ![e] = to]
    /\ UNCHANGED <<day, tick, window, page, given>>

(* The agent's collect phase made a command of an instruction.             *)
CollectSchedule(e, cmd) ==
    /\ edit[e].pc = "idle"
    /\ given < MaxGiven /\ given' = given + 1
    /\ edit' = [edit EXCEPT ![e] = [NoEdit EXCEPT !.pc = "validate", !.cmd = cmd, !.asked = day]]
    /\ UNCHANGED <<day, tick, window, page>>

ValidApplyScheduleCommand(o) ==
    /\ o.action = "set_hours" => o.hours.start < o.hours.end
    /\ o.action = "reset_to_default" => o.scope = "today"

(* The command is checked, and checked again by apply_schedule_command,    *)
(* which then reads the clock; nothing between them waits.                 *)
ValidateSchedule(e) ==
    LET o == edit[e].cmd
        d == IF o.scope = "permanent" THEN Permanent ELSE Today
    IN /\ edit[e].pc = "validate"
       /\ Goes(e, IF ValidApplyScheduleCommand(o)
                  THEN [edit[e] EXCEPT !.pc = "write", !.date = d] ELSE NoEdit)

(* Another transaction has written the row for p and d.                    *)
Busy(e, p, d) ==
    \E f \in Editors \ {e} :
        edit[f].pc = "commit" /\ edit[f].cmd.period = p /\ edit[f].date = d

(* INSERT ... ON CONFLICT DO UPDATE waits for another that writes the row. *)
SetHours(e) ==
    LET o == edit[e].cmd
    IN /\ edit[e].pc = "write" /\ o.action = "set_hours"
       /\ ~Busy(e, o.period, edit[e].date)
       /\ Goes(e, [edit[e] EXCEPT !.pc = "commit", !.new = o.hours])

(* Slip: the DELETE leaves the date out of its WHERE clause.               *)
DeletePeriod(e) ==
    LET o == edit[e].cmd
    IN /\ edit[e].pc = "write" /\ o.action = "reset_to_default"
       /\ ~Busy(e, o.period, Permanent)
       /\ Goes(e, [edit[e] EXCEPT !.pc = "commit", !.date = Permanent])

(* DELETE ... WHERE period = :period AND effective_date = :today.  It      *)
(* waits for another that changes the row, and does not see one that is    *)
(* not committed.                                                          *)
ResetToDefault(e) ==
    LET o == edit[e].cmd
        there == window[o.period][edit[e].date] # NoWindow
    IN /\ edit[e].pc = "write" /\ o.action = "reset_to_default"
       /\ there => ~Busy(e, o.period, edit[e].date)
       /\ Goes(e, [edit[e] EXCEPT !.pc = "commit", !.date = IF there THEN @ ELSE NoDate])

(* The statement fails and the agent rolls back.                           *)
FailEdit(e) == edit[e].pc \in {"write", "commit"} /\ Goes(e, NoEdit)

CommitEdit(e) ==
    /\ edit[e].pc = "commit"
    /\ window' = [window EXCEPT ![edit[e].cmd.period] =
                    [d \in DOMAIN @ |-> IF d = edit[e].date THEN edit[e].new ELSE @[d]]]
    /\ edit' = [edit EXCEPT ![e] = NoEdit]
    /\ UNCHANGED <<day, tick, page, given>>

---------------------------------------------------------------------------
(* _load_windows: of the rows of day d and the permanent ones, the first   *)
(* of each period ORDER BY effective_date NULLS LAST.                      *)
LoadWindows(d) ==
    [p \in Periods |-> IF window[p][d] # NoWindow THEN window[p][d] ELSE window[p][Permanent]]

Shows(v, to) ==
    /\ page' = [page EXCEPT ![v] = to]
    /\ UNCHANGED <<day, tick, window, edit, given>>

(* A page is asked for: the day is read ...                                *)
OpenPage(v) ==
    /\ page[v].pc \in {"idle", "shown"}
    /\ Shows(v, [NoPage EXCEPT !.pc = "query", !.date = QueryDay])

(* ... a connection is taken and the rows are read ...                     *)
QueryWindows(v) ==
    /\ page[v].pc = "query"
    /\ Shows(v, [page[v] EXCEPT !.pc = "clock", !.got = LoadWindows(page[v].date)])

(* Slip: no sentinel.                                                      *)
StrictlyOpen(w, t) == w # NoWindow /\ w.start <= t /\ t <= w.end

WindowOpen(w, t) == w # NoWindow /\ w.start <= t /\ (t <= w.end \/ w.end = Eod)

(* ... then the clock.  A shop that is closed takes preorders before its   *)
(* evening begins.                                                         *)
GetMenuWindowContext(v) ==
    LET got == page[v].got
        open == \E p \in Periods : WindowOpen(got[p], tick)
    IN /\ page[v].pc = "clock"
       /\ Shows(v, [page[v] EXCEPT !.pc = "shown", !.open = open,
                       !.preorder = /\ ~open /\ got["evening"] # NoWindow
                                    /\ tick < got["evening"].start])

(* The server process restarts.                                            *)
ScheduleCrash ==
    /\ edit' = [e \in Editors |-> NoEdit]
    /\ page' = [v \in Visitors |-> NoPage]
    /\ UNCHANGED <<day, tick, window, given>>

ScheduleNext ==
    \/ Tick
    \/ \E e \in Editors :
          \/ \E cmd \in ScheduleCommands : CollectSchedule(e, cmd)
          \/ ValidateSchedule(e) \/ SetHours(e) \/ ResetToDefault(e) \/ FailEdit(e) \/ CommitEdit(e)
    \/ \E v \in Visitors : OpenPage(v) \/ QueryWindows(v) \/ GetMenuWindowContext(v)
    \/ ScheduleCrash

ScheduleSpec == ScheduleInit /\ [][ScheduleNext]_schedVars

---------------------------------------------------------------------------
(* The board of opening hours, as the rows of today give it.               *)
Board == INSTANCE ScheduleBoard WITH
            NoHours <- NoWindow, today <- day,
            usual <- [p \in Periods |-> window[p][Permanent]],
            special <- [p \in Periods |-> window[p][day]]

(* The rows implement the board of opening hours: what is in force on a    *)
(* day changes by one command at a time, and the hours of a day are gone   *)
(* after midnight, also when a command and midnight race.                  *)
ImplementsBoard == Board!BoardSpec

(* A command given and committed on one day has its effect at once: hours  *)
(* for today are what the pages use, a reset brings back the permanent     *)
(* ones, and permanent hours are used unless there are others for today.   *)
CommandTakesEffect ==
    [][\A e \in Editors :
         (edit[e].pc = "commit" /\ edit'[e].pc = "idle" /\ window' # window
            /\ edit[e].asked = day) =>
            LET o == edit[e].cmd
                used == LoadWindows(day)'[o.period]
            IN IF o.action = "reset_to_default" THEN used = window'[o.period][Permanent]
               ELSE \/ used = o.hours
                    \/ o.scope = "permanent" /\ window[o.period][day] # NoWindow]_schedVars

(* Hours that cover the day leave no moment at which a page shows the shop *)
(* as closed, be it the moment one window passes into the other or the     *)
(* last second of the day, and the shop takes no preorders then.           *)
CoveredDayIsOpen ==
    \A v \in Visitors :
        LET m == page[v].got["morning"]
            n == page[v].got["evening"]
        IN (page[v].pc = "shown" /\ m.start = 0 /\ n.start <= m.end /\ n.end = Eod) =>
              page[v].open /\ ~page[v].preorder

===========================================================================
