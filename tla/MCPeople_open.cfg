\* One request at a time on one day.
CONSTANTS
    e1 = e1  e2 = e2  l1 = l1  l2 = l2
    NoOne = NoOne  NoCode = NoCode  NoLink = NoLink  NoDay = NoDay
    Links = {l1, l2}
    Emails = {e1, e2}
    EmailOf <- TwoEmails
    Typed <- LateCode
    MaxEmployees = 2
    Types = {t1}
    Workers = {w1}
    Crashes = FALSE
    Days = {d1}
    Times = {1, 2}
    Minutes = {1}
    MaxMinutes = 2
    Named = {"NONE"}
SPECIFICATION MCSpec
INVARIANTS OpenLogCanBeClosed
CHECK_DEADLOCK FALSE
