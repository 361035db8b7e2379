\* Two requests at a time, crashes, a special-leave request and one accrual.
CONSTANTS
    e1 = e1  t1 = t1
    Employees = {e1}
    Types = {t1}
    Years = {2026}
    ThisYear = 2026
    Spans <- TwoSpans
    YearOf <- MCYearOf
    Days = {1, 2}
    Holidays = {}
    MaxConsecutive = 2
    Monthly = 1
    DaysPerYear = 2
    Months = 1
    Applications = {a1, a2}
    Requests = {q1}
    NoId = NoId
    Workers = {w1, w2}
    Crashes = TRUE
SPECIFICATION MCSpec
INVARIANTS DaysAddUp OnlySpecialOverdraws ApprovedIsCharged NoOverlapUnraced TakenIsChargedUnraced
SYMMETRY Symmetry
CHECK_DEADLOCK FALSE
