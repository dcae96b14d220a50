--------------------------- MODULE ScheduleBoard ---------------------------
(***************************************************************************)
(* What the opening hours promise: every period has its usual hours, may   *)
(* have other hours for the current day, and those are gone the next day.  *)
(* Changes come one at a time.                                             *)
(***************************************************************************)
EXTENDS Naturals

CONSTANTS Periods, Hours, NoHours

VARIABLES
    today,      \* the day it is
    usual,      \* the hours of a period on a day without special ones
    special     \* the hours it has today instead, or NoHours

boardVars == <<today, usual, special>>

BoardInit ==
    /\ today \in Nat
    /\ usual \in [Periods -> Hours]
    /\ special = [p \in Periods |-> NoHours]

SetUsual(p, h) ==
    /\ usual' = [usual EXCEPT ![p] = h]
    /\ UNCHANGED <<today, special>>

SetSpecial(p, h) ==
    /\ special' = [special EXCEPT ![p] = h]
    /\ UNCHANGED <<today, usual>>

Midnight ==
    /\ today' = today + 1
    /\ special' = [p \in Periods |-> NoHours]
    /\ UNCHANGED usual

BoardNext ==
    \/ \E p \in Periods, h \in Hours : SetUsual(p, h)
    \/ \E p \in Periods, h \in Hours \cup {NoHours} : SetSpecial(p, h)
    \/ Midnight

BoardSpec == BoardInit /\ [][BoardNext]_boardVars

===========================================================================
