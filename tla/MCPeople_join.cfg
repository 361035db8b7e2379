\* One link with two requests at a time beside HR's own creations, with crashes; one day
\* of one employee with two requests at a time.
CONSTANTS
    e1 = e1  e2 = e2  l1 = l1  l2 = l2
    NoOne = NoOne  NoCode = NoCode  NoLink = NoLink  NoDay = NoDay
    Links = {l1}
    Emails = {e1, e2}
    EmailOf <- OneEmail
    Typed <- LateCode
    MaxEmployees = 2
    Types = {t1}
    Workers = {w1, w2}
    Crashes = TRUE
    Days = {d1}
    Times = {1, 2}
    Minutes = {1}
    MaxMinutes = 2
    Named = {"NONE", "PRESENT"}
SPECIFICATION MCSpec
INVARIANTS TypesAreOK HiredOnce JoinedIsComplete DayAddsUp
PROPERTIES ChangesAreLoggedUnraced
SYMMETRY Symmetry
CHECK_DEADLOCK FALSE
