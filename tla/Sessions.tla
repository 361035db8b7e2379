------------------------------ MODULE Sessions ------------------------------
(***************************************************************************)
(* Who is logged in: the one refresh token Redis keeps for a user, the     *)
(* rows of the login history, and links to reset a password.  Tokens are   *)
(* signed from the user and the second, so a token is the second of its    *)
(* issue.  Statements that a handler sends off together (Promise.all) are  *)
(* a set, done in any order.  Passwords are taken to be right; access      *)
(* tokens, one-time codes and device tokens are left out.                  *)
(***************************************************************************)
EXTENDS Integers

CONSTANTS
    Users,          \* of one organization, all active
    MaxTime,        \* bound on the clock
    DayLength,      \* seconds of a day
    Cutoff,         \* autoLogoutTime, as the second of a day
    NoUser,
    Workers,        \* concurrently served requests
    Crashes

VARIABLES
    now,
    refresh,        \* user -> the stored token, 0 for none
    rows,           \* user -> seconds of logins whose LoginHistory row is open
    link,           \* user -> the key of a link to reset the password; one link a user
    resets,         \* user -> how often the link was used, up to twice  (history)
    over,           \* user -> when the last finished revocation had begun  (history)
    marked,         \* days whose nightly logout has begun
    night,          \* the nightly logout under way
    job             \* worker -> its request

vars == <<now, refresh, rows, link, resets, over, marked, night, job>>

Seconds == 0 .. MaxTime
Ops == {"idle", "login", "refresh", "logout", "session", "change", "reset"}
Statements == {"token", "row", "password", "link"}
NoJob == [op |-> "idle", user |-> NoUser, at |-> 0, rest |-> {}]
NoNight == [at |-> 0, users |-> {}, step |-> "idle"]

TypeOK ==
    /\ now \in Seconds /\ refresh \in [Users -> Seconds]
    /\ rows \in [Users -> SUBSET Seconds]
    /\ link \in [Users -> {"unsent", "valid", "gone"}] /\ resets \in [Users -> 0 .. 2]
    /\ over \in [Users -> Seconds]
    /\ marked \subseteq Nat
    /\ night \in [at : Seconds, users : SUBSET Users, step : {"idle", "tokens"}]
    /\ job \in [Workers -> [op : Ops, user : Users \cup {NoUser}, at : Seconds,
                            rest : SUBSET Statements]]

Init ==
    /\ now = 1
    /\ refresh = [u \in Users |-> 0] /\ rows = [u \in Users |-> {}]
    /\ link = [u \in Users |-> "unsent"] /\ resets = [u \in Users |-> 0]
    /\ over = [u \in Users |-> 0]
    /\ marked = {} /\ night = NoNight
    /\ job = [w \in Workers |-> NoJob]

Begin(w, op, u, rest) ==
    /\ job[w].op = "idle"
    /\ job' = [job EXCEPT ![w] = [op |-> op, user |-> u, at |-> now, rest |-> rest]]
    /\ UNCHANGED <<now, refresh, rows, link, resets, over, marked, night>>

(* One of the statements a request has left. *)
Do(w, s) ==
    /\ s \in job[w].rest
    /\ job' = [job EXCEPT ![w].rest = @ \ {s}]
    /\ UNCHANGED <<now, over, marked, night>>

-----------------------------------------------------------------------------
(* What a request reads and checks, up to its first write. *)

(* login, and verifyOtp, which ends in it; the tokens are signed here.     *)
Login(w, u) == Begin(w, "login", u, {"token", "row"})

(* The token presented is the stored one, and the next is signed.          *)
Refresh(w, u) == refresh[u] # 0 /\ Begin(w, "refresh", u, {"token"})

Logout(w, u) == Begin(w, "logout", u, {"token", "row"})           \* logoutAll as well

(* One row of the list of sessions, by its id. *)
LogoutSession(w, u, t) ==
    /\ t \in rows[u] /\ job[w].op = "idle"
    /\ job' = [job EXCEPT ![w] = [op |-> "session", user |-> u, at |-> t, rest |-> {"row"}]]
    /\ UNCHANGED <<now, refresh, rows, link, resets, over, marked, night>>

ChangePassword(w, u) == Begin(w, "change", u, {"password", "token"})

ResetPassword(w, u) == link[u] = "valid" /\ Begin(w, "reset", u, {"password", "link", "token"})

(* EmployeesService.sendPasswordResetEmail; a link expires by itself.      *)
SendLink(u) ==
    /\ link[u] = "unsent"
    /\ link' = [link EXCEPT ![u] = "valid"]
    /\ UNCHANGED <<now, refresh, rows, resets, over, marked, night, job>>

-----------------------------------------------------------------------------
(* The statements.  A password is updated before the token is deleted in   *)
(* changePassword; elsewhere the order is free.                            *)
Issues(w) == job[w].op \in {"login", "refresh"}

SaveToken(w) ==
    /\ Issues(w) /\ Do(w, "token")
    /\ refresh' = [refresh EXCEPT ![job[w].user] = job[w].at]
    /\ UNCHANGED <<rows, link, resets>>

DeleteToken(w) ==
    /\ job[w].op \in {"logout", "change", "reset"} /\ Do(w, "token")
    /\ job[w].op = "change" => "password" \notin job[w].rest
    /\ refresh' = [refresh EXCEPT ![job[w].user] = 0]
    /\ UNCHANGED <<rows, link, resets>>

OpenRow(w) ==
    /\ job[w].op = "login" /\ Do(w, "row")
    /\ rows' = [rows EXCEPT ![job[w].user] = @ \cup {now}]
    /\ UNCHANGED <<refresh, link, resets>>

CloseRows(w) ==
    LET u == job[w].user
    IN /\ job[w].op \in {"logout", "session"} /\ Do(w, "row")
       /\ rows' = [rows EXCEPT ![u] = IF job[w].op = "logout" THEN {} ELSE @ \ {job[w].at}]
       /\ UNCHANGED <<refresh, link, resets>>

SavePassword(w) ==
    LET u == job[w].user
    IN /\ Do(w, "password")
       /\ resets' = [resets EXCEPT ![u] = IF job[w].op = "reset" /\ @ < 2 THEN @ + 1 ELSE @]
       /\ UNCHANGED <<refresh, rows, link>>

DeleteLink(w) ==
    /\ Do(w, "link")
    /\ link' = [link EXCEPT ![job[w].user] = "gone"]
    /\ UNCHANGED <<refresh, rows, resets>>

(* The answer.  A revocation that gets here is over. *)
Later(s, t) == IF s > t THEN s ELSE t

Finish(w) ==
    LET j == job[w]
    IN /\ j.op # "idle" /\ j.rest = {}
       /\ job' = [job EXCEPT ![w] = NoJob]
       /\ over' = IF Issues(w) \/ j.op = "session" THEN over
                  ELSE [over EXCEPT ![j.user] = Later(@, j.at)]
       /\ UNCHANGED <<now, refresh, rows, link, resets, marked, night>>

-----------------------------------------------------------------------------
(* AutoLogoutScheduler: once a day from the cutoff on.  The day is marked  *)
(* before the work is done.                                                *)
Day(t) == t \div DayLength

NightBegin ==
    /\ night.step = "idle"
    /\ now % DayLength >= Cutoff
    /\ Day(now) \notin marked
    /\ marked' = marked \cup {Day(now)}
    /\ night' = [at |-> now, users |-> Users, step |-> "tokens"]
    /\ UNCHANGED <<now, refresh, rows, link, resets, over, job>>

(* Fault: those with a row in the history are enough. *)
NightListed(u) ==
    /\ night.step = "tokens" /\ u \in night.users
    /\ refresh' = IF rows[u] = {} THEN refresh ELSE [refresh EXCEPT ![u] = 0]
    /\ night' = [night EXCEPT !.users = @ \ {u}]
    /\ UNCHANGED <<now, rows, link, resets, over, marked, job>>

NightDelete(u) ==
    /\ night.step = "tokens" /\ u \in night.users
    /\ refresh' = [refresh EXCEPT ![u] = 0]
    /\ night' = [night EXCEPT !.users = @ \ {u}]
    /\ UNCHANGED <<now, rows, link, resets, over, marked, job>>

NightClose ==
    /\ night.step = "tokens" /\ night.users = {}
    /\ rows' = [u \in Users |-> {}]
    /\ over' = [u \in Users |-> Later(over[u], night.at)]
    /\ night' = NoNight
    /\ UNCHANGED <<now, refresh, link, resets, marked, job>>

-----------------------------------------------------------------------------
(* Keys have lifetimes. *)
Expire(u) ==
    /\ \/ refresh[u] # 0 /\ refresh' = [refresh EXCEPT ![u] = 0] /\ UNCHANGED link
       \/ link[u] = "valid" /\ link' = [link EXCEPT ![u] = "gone"] /\ UNCHANGED refresh
    /\ UNCHANGED <<now, rows, resets, over, marked, night, job>>

Tick == now < MaxTime /\ now' = now + 1
        /\ UNCHANGED <<refresh, rows, link, resets, over, marked, night, job>>

(* A statement of a request, or of the nightly logout, fails.              *)
Fail(w) ==
    /\ Crashes /\ job[w].rest # {}
    /\ job' = [job EXCEPT ![w] = NoJob]
    /\ UNCHANGED <<now, refresh, rows, link, resets, over, marked, night>>

NightFails ==
    /\ Crashes /\ night # NoNight
    /\ night' = NoNight
    /\ UNCHANGED <<now, refresh, rows, link, resets, over, marked, job>>

Next ==
    \/ \E w \in Workers :
          \/ \E u \in Users : \/ Login(w, u) \/ Refresh(w, u) \/ Logout(w, u)
                              \/ \E t \in rows[u] : LogoutSession(w, u, t)
                              \/ ChangePassword(w, u) \/ ResetPassword(w, u)
          \/ SaveToken(w) \/ DeleteToken(w) \/ OpenRow(w) \/ CloseRows(w)
          \/ SavePassword(w) \/ DeleteLink(w) \/ Finish(w) \/ Fail(w)
    \/ \E u \in Users : SendLink(u) \/ NightDelete(u) \/ Expire(u)
    \/ NightBegin \/ NightClose \/ NightFails \/ Tick

Spec == Init /\ [][Next]_vars

-----------------------------------------------------------------------------
(* PROPERTIES *)

(* No token is good that is older than a logout, a change of password or a *)
(* nightly logout that has been answered.                                  *)
RevokedIsGone == \A u \in Users : refresh[u] # 0 => refresh[u] >= over[u]

(* A link resets a password once. *)
LinkWorksOnce == \A u \in Users : resets[u] <= 1

(* Two requests of a user, or one of them and the nightly logout, overlap. *)
Revokes(w) == job[w].op \in {"logout", "change", "reset"}
Overlap ==
    \E w \in Workers : \/ Issues(w) /\ night # NoNight
                       \/ \E v \in Workers \ {w} :
                             job[v].user = job[w].user /\ Revokes(v) /\ (Issues(w) \/ Revokes(w))
=============================================================================
