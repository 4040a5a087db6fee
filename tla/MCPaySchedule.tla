--------------------------- MODULE MCPaySchedule ---------------------------
(* Instances of PaySchedule for TLC. *)
EXTENDS PaySchedule

\* A closed day, and a long weekend.
Week == {2, 9, 10, 11}

\* Paid every second day, or every fourth with closed days displaced.
Changing == {[gap |-> 2, shift |-> "none"], [gap |-> 4, shift |-> "prior"],
             [gap |-> 4, shift |-> "next"]}

\* The days an owner may state a payday for.
ThreeDays == {2, 9, 10}

\* The owner's grid day is closed every time: always paid the day after it.
OwnGridDay == {2, 6, 10, 14}

\* Paid every fourth day, then every second.
Faster == {[gap |-> 4, shift |-> "next"], [gap |-> 2, shift |-> "none"]}

\* The grid days 2 and 6, and the payday of the second.
GridDays == {2, 6, 7}
=============================================================================
