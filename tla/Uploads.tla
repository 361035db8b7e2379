------------------------------ MODULE Uploads ------------------------------
(***************************************************************************)
(* Uploaded files and the columns that point at them, in three shapes: the *)
(* photo of an employee or the logo of an organization, replaced by the    *)
(* next one; the list of an employee's documents; the attachment of a      *)
(* notice.  A file is written to disk, then gets a FileAsset row, then is  *)
(* pointed at; what it replaces is deleted last, by calls nobody waits for. *)
(***************************************************************************)
EXTENDS Naturals

CONSTANTS
    Assets,             \* ids of files
    NoAsset,
    Workers             \* concurrently served uploads and removals

VARIABLES
    file,               \* id -> where it is, and the kind of its entity
    photo,              \* profilePhotoUrl, or logoUrl: a file's, or any other (NoAsset)
    byHand,             \* it is what an update gave, not an upload    (history)
    documents,          \* Employee.documents
    notice,             \* the notice: whether there is one, and attachmentKey
    purge,              \* ids whose deleteFile has been called
    answered,           \* documents whose upload was answered  (history)
    job

vars == <<file, photo, byHand, documents, notice, purge, answered, job>>

Kinds == {"photo", "document", "notice"}
NoFile == [disk |-> FALSE, row |-> FALSE, kind |-> "none"]
NoJob == [at |-> "idle", kind |-> "none", asset |-> NoAsset, documents |-> {}, key |-> NoAsset]

TypeOK ==
    /\ file \in [Assets -> [disk : BOOLEAN, row : BOOLEAN, kind : Kinds \cup {"none", "gone"}]]
    /\ photo \in Assets \cup {NoAsset} /\ byHand \in BOOLEAN /\ documents \subseteq Assets
    /\ notice \in [exists : BOOLEAN, key : Assets \cup {NoAsset}]
    /\ purge \subseteq Assets /\ answered \subseteq Assets
    /\ job \in [Workers -> [at : {"idle", "disk", "row", "save", "prior", "remove"},
                            kind : Kinds \cup {"none"}, asset : Assets \cup {NoAsset},
                            documents : SUBSET Assets, key : Assets \cup {NoAsset}]]

Init ==
    /\ file = [a \in Assets |-> NoFile]
    /\ photo = NoAsset /\ byHand = FALSE /\ documents = {} /\ notice = [exists |-> TRUE, key |-> NoAsset]
    /\ purge = {} /\ answered = {}
    /\ job = [w \in Workers |-> NoJob]

Columns == <<photo, byHand, documents, notice>>
Goto(w, at) == job' = [job EXCEPT ![w].at = at]
Done(w) == job' = [job EXCEPT ![w] = NoJob]
Key(k) == {k} \ {NoAsset}

-----------------------------------------------------------------------------
(* The row is read; the new file will have the id a.                       *)
UploadRead(w, kind, a) ==
    /\ job[w] = NoJob
    /\ file[a] = NoFile /\ \A v \in Workers : job[v].asset # a
    /\ kind = "notice" => notice.exists
    /\ job' = [job EXCEPT ![w] = [at |-> "disk", kind |-> kind, asset |-> a,
                                  documents |-> documents, key |-> notice.key]]
    /\ UNCHANGED <<file, Columns, purge, answered>>

(* FilesService.upload *)
WriteDisk(w) ==
    /\ job[w].at = "disk"
    /\ file' = [file EXCEPT ![job[w].asset].disk = TRUE]
    /\ Goto(w, "row")
    /\ UNCHANGED <<Columns, purge, answered>>

CreateRow(w) ==
    LET a == job[w].asset
    IN /\ job[w].at = "row"
       /\ file' = [file EXCEPT ![a] = [disk |-> TRUE, row |-> TRUE, kind |-> job[w].kind]]
       /\ Goto(w, "save")
       /\ UNCHANGED <<Columns, purge, answered>>

(* The row is refused: the file is unlinked again. *)
RefuseRow(w) ==
    /\ job[w].at = "row"
    /\ file' = [file EXCEPT ![job[w].asset] = NoFile]
    /\ Done(w)
    /\ UNCHANGED <<Columns, purge, answered>>

SavePhoto(w) ==
    /\ job[w].at = "save" /\ job[w].kind = "photo"
    /\ photo' = job[w].asset /\ byHand' = FALSE
    /\ Goto(w, "prior")
    /\ UNCHANGED <<file, documents, notice, purge, answered>>

(* Fault: the list read at the start is not kept. *)
SaveOnly(w) ==
    LET a == job[w].asset
    IN /\ job[w].at = "save" /\ job[w].kind = "document"
       /\ documents' = {a}
       /\ answered' = answered \cup {a}
       /\ Done(w)
       /\ UNCHANGED <<file, photo, byHand, notice, purge>>

(* The list read at the start, with the new entry. *)
SaveDocument(w) ==
    LET a == job[w].asset
    IN /\ job[w].at = "save" /\ job[w].kind = "document"
       /\ documents' = job[w].documents \cup {a}
       /\ answered' = answered \cup {a}
       /\ Done(w)
       /\ UNCHANGED <<file, photo, byHand, notice, purge>>

(* The update fails when the notice is gone. *)
SaveAttachment(w) ==
    /\ job[w].at = "save" /\ job[w].kind = "notice"
    /\ IF notice.exists
       THEN /\ notice' = [notice EXCEPT !.key = job[w].asset]
            /\ purge' = purge \cup Key(job[w].key)
       ELSE UNCHANGED <<notice, purge>>
    /\ Done(w)
    /\ UNCHANGED <<file, photo, byHand, documents, answered>>

(* An update of the employee or of the organization writes the address it  *)
(* is given, whatever it is; the file it replaces stays.                   *)
SetPhoto(url) ==
    /\ photo' = url /\ byHand' = TRUE
    /\ UNCHANGED <<file, documents, notice, purge, answered, job>>

(* Every other photo that has a row is deleted, by calls of their own.     *)
PurgePrior(w) ==
    /\ job[w].at = "prior"
    /\ purge' = purge \cup {a \in Assets \ {job[w].asset} : file[a].row /\ file[a].kind = "photo"}
    /\ Done(w)
    /\ UNCHANGED <<file, Columns, answered>>

(* NoticesService.remove *)
RemoveRead(w) ==
    /\ job[w] = NoJob /\ notice.exists
    /\ job' = [job EXCEPT ![w] = [NoJob EXCEPT !.at = "remove", !.key = notice.key]]
    /\ UNCHANGED <<file, Columns, purge, answered>>

RemoveWrite(w) ==
    /\ job[w].at = "remove"
    /\ notice' = [exists |-> FALSE, key |-> NoAsset]
    /\ purge' = IF notice.exists THEN purge \cup Key(job[w].key) ELSE purge
    /\ Done(w)
    /\ UNCHANGED <<file, photo, byHand, documents, answered>>

-----------------------------------------------------------------------------
(* FilesService.deleteFile: unlink, then delete the row, even when the     *)
(* unlinking has failed.                                                   *)
Unlink(a) ==
    /\ a \in purge /\ file[a].row /\ file[a].disk
    /\ file' = [file EXCEPT ![a].disk = FALSE]
    /\ UNCHANGED <<Columns, purge, answered, job>>

DeleteRow(a) ==
    /\ a \in purge
    /\ file' = [file EXCEPT ![a].row = FALSE, ![a].kind = "gone"]
    /\ purge' = purge \ {a}
    /\ UNCHANGED <<Columns, answered, job>>

(* A statement fails, or the process dies with all it had to do.           *)
Fail(w) == job[w] # NoJob /\ Done(w) /\ UNCHANGED <<file, Columns, purge, answered>>
Die ==
    /\ purge # {}
    /\ purge' = {} /\ job' = [w \in Workers |-> NoJob]
    /\ UNCHANGED <<file, Columns, answered>>

Next ==
    \/ \E w \in Workers :
          \/ \E k \in Kinds, a \in Assets : UploadRead(w, k, a)
          \/ WriteDisk(w) \/ CreateRow(w) \/ RefuseRow(w)
          \/ SavePhoto(w) \/ SaveDocument(w) \/ SaveAttachment(w) \/ PurgePrior(w)
          \/ RemoveRead(w) \/ RemoveWrite(w) \/ Fail(w)
    \/ \E url \in Assets \cup {NoAsset} : SetPhoto(url)
    \/ \E a \in Assets : Unlink(a) \/ DeleteRow(a)
    \/ Die

Spec == Init /\ [][Next]_vars

-----------------------------------------------------------------------------
(* PROPERTIES *)

(* Two uploads to one column, or one and a removal, are under way. *)
Overlap(kinds) ==
    \E v, w \in Workers :
        /\ v # w /\ job[v].kind \in kinds
        /\ \/ job[v].kind = job[w].kind
           \/ job[v].kind = "notice" /\ job[w].at = "remove"

Stored(a) == file[a].disk /\ file[a].row

(* However uploads, removals and failures meet, the attachment of a notice *)
(* exists: each deletes only the one it replaced.                          *)
AttachmentIsStored == \A a \in Key(notice.key) : Stored(a) /\ a \notin purge

(* ... and so do the documents, and the photo an upload has set, if uploads *)
(* do not meet, and no document whose upload was answered is missing from  *)
(* the list.                                                               *)
InUseIsStored ==
    /\ \A a \in documents : Stored(a) /\ a \notin purge
    /\ ~byHand => \A a \in Key(photo) : Stored(a) /\ a \notin purge
AnsweredIsListed == answered \subseteq documents

(* When nothing is under way, there is no file that nothing points at: only *)
(* photos stay behind an address given by hand, until the next upload.     *)
NothingIsLeft ==
    purge = {} /\ (\A w \in Workers : job[w] = NoJob) =>
        \A a \in Assets : file[a].disk \/ file[a].row =>
            a \in {photo, notice.key} \cup documents \/ (byHand /\ file[a].kind = "photo")
=============================================================================
