------------------------------- MODULE MCDesk -------------------------------
(***************************************************************************)
(* The everyday services around an employee: logging in, service requests, *)
(* appraisals, uploads, chat, notices and disciplinary memos.  Where two   *)
(* of them touch one table (a special leave, an attachment, a status) each *)
(* models what it needs of it, so a behaviour takes the steps of one.      *)
(***************************************************************************)
EXTENDS TLC, Naturals

CONSTANTS
    Workers, Ids,
    Users, MaxTime, NoUser,
    Requests, People, Nobody,
    Cycles, NoCycle, NoOne, MaxHops, Depth,
    NoAsset,
    Members, Rooms, Messages, NoRoom, NoMessage,
    Notices, Readers, Never, Same, NoNotice,
    Staff, Threshold, MaxMemos

(* What is missing is not one of what there is; the tree below a manager   *)
(* is not walked further than the chain above an employee; and a review    *)
(* takes a memo.                                                           *)
ASSUME DeskAssumption ==
    /\ NoUser \notin Users /\ NoAsset \notin Ids /\ NoOne \notin Ids \cup Members \cup Staff
    /\ NoCycle \notin Cycles /\ NoRoom \notin Rooms /\ NoMessage \notin Messages
    /\ NoNotice \notin Notices /\ Nobody \notin Requests \cup People /\ MaxTime \in Nat \ {0}
    /\ MaxHops \in Nat /\ Depth \in Nat /\ Depth <= MaxHops
    /\ Threshold \in Nat \ {0} /\ MaxMemos \in Nat

VARIABLES
    clock, refresh, rows, link, resets, over, marked, night, sjob,
    request, leaves, call,
    manager, gone, cycle, ratedBy, rjob, moved,
    file, photo, byHand, documents, notice, purge, answered, ujob,
    active, room, posted, wire, joined, inbox, cjob, insisted, chats,
    now, board, reads, due, njob,
    memos, flagged, notices, djob,
    side,     \* which of the seven
    raced,    \* what one request has read, another one has changed
    died      \* a request or a job has died half way

S == INSTANCE Sessions WITH
        DayLength <- 3, Cutoff <- 2, Crashes <- TRUE, now <- clock, job <- sjob
Q == INSTANCE ServiceDesk WITH Desks <- Workers
A == INSTANCE Appraisals WITH
        Employees <- Ids, Raters <- Workers, MaxAsked <- 3,
        job <- rjob, asked <- moved
U == INSTANCE Uploads WITH Assets <- Ids, job <- ujob
C == INSTANCE ChatRooms WITH Employees <- Members, MaxAsked <- 4, job <- cjob, asked <- chats
N == INSTANCE NoticeBoard WITH
        MaxTime <- 1, MaxTexts <- 1, Editors <- Workers, notice <- board, job <- njob
D == INSTANCE Disciplinary WITH
        Employees <- Staff, Desks <- Workers, job <- djob

sessionVars == <<clock, refresh, rows, link, resets, over, marked, night, sjob>>
requestVars == <<request, leaves, call>>
ratingVars == <<manager, gone, cycle, ratedBy, rjob, moved>>
fileVars == <<file, photo, byHand, documents, notice, purge, answered, ujob>>
chatVars == <<active, room, posted, wire, joined, inbox, cjob, insisted, chats>>
noticeVars == <<now, board, reads, due, njob>>
memoVars == <<memos, flagged, notices, djob>>
vars == <<sessionVars, requestVars, ratingVars, fileVars, chatVars, noticeVars, memoVars>>

Symmetry == Permutations(Workers) \cup Permutations(Ids)

MCInit ==
    /\ S!Init /\ Q!Init /\ A!Init /\ U!Init /\ C!Init /\ N!Init /\ D!Init
    /\ side \in {"sessions", "requests", "ratings", "files", "chat", "notices", "memos"}
    /\ raced = FALSE /\ died = FALSE

(* Nothing is claimed once a revocation has met another request. *)
SessionsStep ==
    /\ side = "sessions"
    /\ S!Next /\ ~S!Overlap
    /\ raced' = FALSE
    /\ died' = (died \/ \E w \in Workers : S!Fail(w))
    /\ UNCHANGED <<requestVars, ratingVars, fileVars, chatVars, noticeVars, memoVars>>

RequestsStep ==
    /\ side = "requests"
    /\ Q!Next
    /\ raced' = (raced \/ Q!Overlap')
    /\ UNCHANGED <<sessionVars, ratingVars, fileVars, chatVars, noticeVars, memoVars, died>>

RatingsStep ==
    /\ side = "ratings"
    /\ A!Next
    /\ raced' = (raced \/ (A!Submitting /\ <<cycle, moved>>' # <<cycle, moved>>))
    /\ UNCHANGED <<sessionVars, requestVars, fileVars, chatVars, noticeVars, memoVars, died>>

FilesStep ==
    /\ side = "files"
    /\ U!Next
    /\ raced' = (raced \/ U!Overlap(U!Kinds)')
    /\ died' = (died \/ U!Die \/ (\E w \in Workers : U!Fail(w))
                     \/ \E a \in Ids : file[a].disk /\ U!DeleteRow(a))
    /\ UNCHANGED <<sessionVars, requestVars, ratingVars, chatVars, noticeVars, memoVars>>

ChatStep ==
    /\ side = "chat"
    /\ C!Next
    /\ raced' = (raced \/ C!Overlap')
    /\ died' = (died \/ \E w \in Workers : cjob[w].op = "revoke" /\ C!Fail(w))
    /\ UNCHANGED <<sessionVars, requestVars, ratingVars, fileVars, noticeVars, memoVars>>

NoticesStep ==
    /\ side = "notices"
    /\ N!Next
    /\ raced' = (raced \/ N!Overlap')
    /\ UNCHANGED <<sessionVars, requestVars, ratingVars, fileVars, chatVars, memoVars, died>>

MemosStep ==
    /\ side = "memos"
    /\ D!Next
    /\ raced' = (raced \/ D!Overlap')
    /\ died' = (died \/ \E w \in Workers : D!Fail(w))
    /\ UNCHANGED <<sessionVars, requestVars, ratingVars, fileVars, chatVars, noticeVars>>

MCNext ==
    /\ \/ SessionsStep \/ RequestsStep \/ RatingsStep \/ FilesStep
       \/ ChatStep \/ NoticesStep \/ MemosStep
    /\ UNCHANGED side

MCSpec == MCInit /\ [][MCNext]_<<vars, side, raced, died>>

-----------------------------------------------------------------------------
TypesAreOK ==
    S!TypeOK /\ Q!TypeOK /\ A!TypeOK /\ U!TypeOK /\ C!TypeOK /\ N!TypeOK /\ D!TypeOK

(* A logout, a change of password or a nightly logout leaves no older token *)
(* behind, and a link resets a password once, as long as none of them meets *)
(* another request of the user (and, for the link, none dies half way).     *)
SessionsEnd == ~S!Overlap => S!RevokedIsGone /\ (~died => S!LinkWorksOnce)

(* A special leave is resolved only by granting it, whatever calls meet;    *)
(* and one call at a time it is granted once, resolved stays resolved, and  *)
(* the times of a request agree with its status.                            *)
RequestsAreSettled == Q!ResolvedIsGranted /\ (~raced => Q!ResolvedStaysResolved)

(* getSubordinates and getReportingChain see one org chart, rings or not;   *)
(* and memos flag an employee for review exactly from the threshold on, one *)
(* at a time and none dead, and never before it.                            *)
RecordsAgree ==
    /\ A!ChartsAgree
    /\ D!FlagIsEarned /\ (~raced /\ ~died => D!ReviewIsDue)

(* The attachment of a notice is always stored; documents, and the photo   *)
(* an upload has set, are if no two uploads meet, and then no file is left  *)
(* behind unless one dies or a file cannot be unlinked, but for photos that *)
(* an address given by hand has replaced, until the next upload.            *)
FilesAreAccounted ==
    /\ U!AttachmentIsStored
    /\ ~raced => U!InUseIsStored /\ U!AnsweredIsListed
    /\ ~raced /\ ~died => U!NothingIsLeft

(* A socket is sent only what is stored in a room its employee has been a   *)
(* member of; opening and revoking one at a time, two employees have one    *)
(* room, and nobody suspended is in that of the department, unless they had *)
(* it opened themselves since.                                              *)
RoomsAreForMembers ==
    /\ C!SentToMembers
    /\ ~raced => C!OneRoomEach
    /\ ~raced /\ ~died => C!SuspendedIsOut

(* A rating is written in an open cycle by someone above the employee, if   *)
(* neither changes meanwhile; and a published notice is only ever deleted,  *)
(* one request at a time.                                                   *)
StepsAreAllowed ==
    [][~raced' => A!RatedFromAbove /\ N!PublishedIsFinal]_vars
=============================================================================
