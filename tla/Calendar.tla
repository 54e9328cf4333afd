------------------------------ MODULE Calendar ------------------------------
(***************************************************************************)
(* The calendar that Settle rests on.  A settlement record carries a date; *)
(* it counts when it is no earlier than the day of the engagement in the   *)
(* registry's time zone.  The code decides this three times, in three      *)
(* ways: pprev-types/src/calendar.rs turns the engagement time into the    *)
(* number Y * 10000 + M * 100 + D, which the prover and the policy         *)
(* verifier give to the circuit; circuits/src/lib/date.circom reads the    *)
(* record's date into such a number and phi_s.circom compares the two; the *)
(* mock notary compares day counts.                                        *)
(*                                                                         *)
(* The specification is a reference calendar: a walk from day to day that  *)
(* knows only how long the months are.  At every day of the walk the three *)
(* computations must agree with it.                                        *)
(***************************************************************************)
EXTENDS Integers

CONSTANTS
    Walks,         \* walks to take: a first day, its date, and the last day
    SECS_PER_DAY,  \* units of time in a day: 86400 in the code, fewer for TLC,
                   \* whose integers end at 2^31
    Offsets,       \* time zones: units ahead of UTC
    TauLock        \* lock window of the deployment

Date == [y : Int, m : 1..12, d : 1..31]

ASSUME CalendarAssumption ==
    /\ \A w \in Walks : w.first \in Int /\ w.last \in Int /\ w.date \in Date
    /\ SECS_PER_DAY \in Nat \ {0} /\ Offsets \subseteq Int /\ TauLock \in Nat

VARIABLES day, date, yesterday, last

walkVars == <<day, date, yesterday, last>>

-----------------------------------------------------------------------------
(* The reference calendar. *)

isLeap(y) == (y % 4 = 0 /\ y % 100 # 0) \/ y % 400 = 0

length(y, m) ==
    CASE m \in {4, 6, 9, 11} -> 30
      [] m = 2 -> IF isLeap(y) THEN 29 ELSE 28
      [] m \in {1, 3, 5, 7, 8, 10, 12} -> 31

Real(y, m, d) == m \in 1..12 /\ d \in 1..length(y, m)

following(t) ==
    IF t.d < length(t.y, t.m) THEN [t EXCEPT !.d = t.d + 1]
    ELSE IF t.m < 12 THEN [y |-> t.y, m |-> t.m + 1, d |-> 1]
    ELSE [y |-> t.y + 1, m |-> 1, d |-> 1]

-----------------------------------------------------------------------------
(* calendar.rs.  Rust's / and TLA+'s \div agree on the naturals it meets.  *)

ymd(y, m, d) == y * 10000 + m * 100 + d

fourDigits(y) == y \in Nat /\ y < 10000

\* No date: the function returns an error.
NoDay == -1

\* Mutant of yearOfEra: the century years without a leap day are not made up for.
yearOfEraJulian(doe) == (doe - doe \div 1460 - doe \div 146096) \div 365

yearOfEra(doe) == (doe - doe \div 1460 + doe \div 36524 - doe \div 146096) \div 365

\* H. Hinnant's civil_from_days: years begin on the first of March.
civil(days) ==
    LET z   == days + 719468
        era == z \div 146097
        doe == z - era * 146097
        yoe == yearOfEra(doe)
        doy == doe - (365 * yoe + yoe \div 4 - yoe \div 100)
        mp  == (5 * doy + 2) \div 153
        m   == IF mp < 10 THEN mp + 3 ELSE mp - 9
    IN [y |-> yoe + era * 400 + (IF m <= 2 THEN 1 ELSE 0),
        m |-> m,
        d |-> doy - (153 * mp + 2) \div 5 + 1]

ymd_of_days(days) ==
    LET c == civil(days) IN IF fourDigits(c.y) THEN ymd(c.y, c.m, c.d) ELSE NoDay

\* Mutant of engagement_day: the offset is applied the wrong way round.
engagementDayWest(expires_at, tau_lock, utc_offset_secs) ==
    IF expires_at < tau_lock THEN NoDay
    ELSE ymd_of_days((expires_at - tau_lock - utc_offset_secs) \div SECS_PER_DAY)

engagement_day(expires_at, tau_lock, utc_offset_secs) ==
    IF expires_at < tau_lock THEN NoDay
    ELSE ymd_of_days((expires_at - tau_lock + utc_offset_secs) \div SECS_PER_DAY)

-----------------------------------------------------------------------------
(* date.circom and step (4) of phi_s.circom, on the two-digit values that    *)
(* DecimalValue makes of the ten bytes.                                    *)

\* circomlib's comparators of n bits, w = 2^n: the carry out of a + 2^n - b.
LessThanBits(w, a, b) == ((a + w - b) \div w) % 2 = 0
GreaterEqThanBits(w, a, b) == LessThanBits(w, b, a + 1)
bits7  == 128
bits27 == 134217728

\* The two low bits of a number below 128.
DivisibleBy4(x) == x % 4 = 0

\* Mutant of leapCircuit: centuries are common years.
leapCircuitShort(c, y) == DivisibleBy4(y) /\ y # 0

leapCircuit(c, y) == (DivisibleBy4(y) /\ y # 0) \/ (DivisibleBy4(c) /\ y = 0)

monthLength(c, y, m) ==
    31 - (IF m \in {4, 6, 9, 11} THEN 1 ELSE 0)
       - (IF m = 2 THEN 3 - (IF leapCircuit(c, y) THEN 1 ELSE 0) ELSE 0)

\* CalendarDate has a witness.
CalendarDate(c, y, m, d) ==
    /\ m # 0 /\ LessThanBits(bits7, m, 13)
    /\ d # 0 /\ LessThanBits(bits7, d, monthLength(c, y, m) + 1)

\* phi_S (4): the date of the notation and the engagement day of the statement.
NotBefore(t, engagementDay) ==
    LET c == t.y \div 100
        y == t.y % 100
    IN /\ CalendarDate(c, y, t.m, t.d)
       /\ engagementDay \in 0..(bits27 - 1)
       /\ GreaterEqThanBits(bits27, (c * 100 + y) * 10000 + t.m * 100 + t.d, engagementDay)

-----------------------------------------------------------------------------
(* mock.rs: days_from_civil, and the check of sign_settle.                   *)

day_number(y, m, d) ==
    LET yy  == IF m <= 2 THEN y - 1 ELSE y
        era == yy \div 400
        yoe == yy - era * 400
        doy == (153 * ((m + 9) % 12) + 2) \div 5 + d - 1
    IN era * 146097 + (yoe * 365 + yoe \div 4 - yoe \div 100 + doy) - 719468

MockNotBefore(t, expires_at, tau_lock, utc_offset_secs) ==
    /\ Real(t.y, t.m, t.d) /\ expires_at >= tau_lock
    /\ day_number(t.y, t.m, t.d) >= (expires_at - tau_lock + utc_offset_secs) \div SECS_PER_DAY

-----------------------------------------------------------------------------
FirstDay ==
    \E w \in Walks : day = w.first /\ date = w.date /\ yesterday = w.date /\ last = w.last

Tick ==
    /\ day < last
    /\ day' = day + 1 /\ date' = following(date) /\ yesterday' = date
    /\ UNCHANGED last

NextDay == Tick

WalkSpec == FirstDay /\ [][NextDay]_walkVars

-----------------------------------------------------------------------------
(* Properties.                                                             *)

\* calendar.rs names every day by its date, over leap years, the centuries that
\* are none, and back before 1970; outside the years 0000 to 9999 it refuses.
DateAgrees ==
    ymd_of_days(day) = IF fourDigits(date.y) THEN ymd(date.y, date.m, date.d) ELSE NoDay

\* The circuit has a witness for exactly the dates of the calendar, among all that
\* eight digits can spell.  Evaluated once a year.
CircuitDatesAreReal ==
    date.m = 1 /\ date.d = 1 /\ fourDigits(date.y) =>
        \A m \in 0..99, d \in 0..99 :
            CalendarDate(date.y \div 100, date.y % 100, m, d) <=> Real(date.y, m, d)

\* Moments of the day, in local time, at which an engagement may happen.
moments == {0, SECS_PER_DAY \div 2, SECS_PER_DAY - 1}

\* expiresAt of an engagement made today.
expiry(second, offset) == day * SECS_PER_DAY + second - offset + TauLock

\* An engagement of today, by the registry's clock: a record of today settles it
\* and a record of yesterday does not, at the first and the last moment of the
\* day and in every time zone.
SettleDateRule ==
    \A second \in moments, offset \in Offsets :
        expiry(second, offset) >= TauLock /\ yesterday # date
          /\ fourDigits(date.y) /\ date.y # 0 =>
            LET today == engagement_day(expiry(second, offset), TauLock, offset)
            IN NotBefore(date, today) /\ ~ NotBefore(yesterday, today)

\* The mock notary, which counts days, takes the same records as the circuit.
MockAgrees ==
    \A second \in moments, offset \in Offsets, t \in {date, yesterday, following(date)} :
        expiry(second, offset) >= TauLock /\ fourDigits(t.y) /\ t.y # 0 =>
            /\ MockNotBefore(t, expiry(second, offset), TauLock, offset)
               <=> NotBefore(t, engagement_day(expiry(second, offset), TauLock, offset))
            /\ day_number(date.y, date.m, date.d) = day

\* The day of an engagement means the same to the notary, the circuit and the mock
\* notary: the two rules above.
SettleDatesAgree == SettleDateRule /\ MockAgrees
=============================================================================
