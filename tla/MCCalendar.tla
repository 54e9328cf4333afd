----------------------------- MODULE MCCalendar -----------------------------
(* Constants for the run of Calendar. *)
EXTENDS Calendar

on(y, m, d) == [y |-> y, m |-> m, d |-> d]

\* Four centuries, 1701 to 2100, after which the calendar repeats itself; the two
\* ends of the years that calendar.rs takes.
MC_Walks == {[first |-> -98250, date |-> on(1701, 1, 1), last |-> 47847],
             [first |-> -719600, date |-> on(-1, 10, 21), last |-> -719400],
             [first |-> 2932800, date |-> on(9999, 9, 26), last |-> 2932900]}

\* In hours.
MC_Offsets == {-12, 0, 3, 14}
MC_TauLock == 14 * 24
=============================================================================
