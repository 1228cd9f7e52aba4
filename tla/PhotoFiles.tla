----------------------------- MODULE PhotoFiles -----------------------------
(***************************************************************************)
(* The files of photos beside their rows.  An upload writes the file and   *)
(* then adds the row; a deletion removes the row and then the file.  No    *)
(* transaction covers both: the disk fails, the answer of a COMMIT is lost *)
(* and the process stops between any two steps.                            *)
(*                                                                         *)
(* A row is added and deleted in one step, as ProfileLedger promises.      *)
(***************************************************************************)
EXTENDS FiniteSets

CONSTANTS Keys,      \* names of files: random, so none is drawn twice
          Requests,  \* request slots: how many requests run at a time
          NoKey      \* a slot without a request

ASSUME NoKeyIsNoKey == NoKey \notin Keys

VARIABLES
  file,   \* what is on disk under each key
  row,    \* keys of the rows of table photo
  drawn,  \* keys that have been used
  pc,     \* next step of each request
  key,    \* the key each request works on
  lost,   \* history: keys whose row was added by a COMMIT reported as failed
  stray   \* history: keys whose file a failure has left behind

vars == <<file, row, drawn, pc, key, lost, stray>>

Uploading == {"create", "fill", "unfill", "add_row", "discard"}
Deleting == {"drop_row", "unlink"}
Working == Uploading \cup Deleting

Goto(r, step) == pc' = [pc EXCEPT ![r] = step]

Finish(r) == Goto(r, "idle") /\ key' = [key EXCEPT ![r] = NoKey]

-----------------------------------------------------------------------------
Init ==
  /\ file = [k \in Keys |-> "none"]
  /\ row = {}
  /\ drawn = {}
  /\ pc = [r \in Requests |-> "idle"]
  /\ key = [r \in Requests |-> NoKey]
  /\ lost = {}
  /\ stray = {}

(* Mistake: the name of a file is not drawn, so it can be another one's. *)
NewKeysAny == Keys
NewKeys == Keys \ drawn

(* POST /profile/me/photos: Save draws a name. *)
Upload(r) ==
  /\ pc[r] = "idle"
  /\ \E k \in NewKeys : key' = [key EXCEPT ![r] = k] /\ drawn' = drawn \cup {k}
  /\ Goto(r, "create")
  /\ UNCHANGED <<file, row, lost, stray>>

(* MkdirAll and OpenFile with O_EXCL. *)
CreateFile(r) ==
  /\ pc[r] = "create"
  /\ \/ /\ file[key[r]] = "none"
        /\ file' = [file EXCEPT ![key[r]] = "partial"]
        /\ Goto(r, "fill")
        /\ UNCHANGED key
     \/ Finish(r) /\ UNCHANGED file
  /\ UNCHANGED <<row, drawn, lost, stray>>

(* Write and Close. *)
FillFile(r) ==
  /\ pc[r] = "fill"
  /\ \/ file' = [file EXCEPT ![key[r]] = "whole"] /\ Goto(r, "add_row")
     \/ Goto(r, "unfill") /\ UNCHANGED file
  /\ UNCHANGED <<row, drawn, key, lost, stray>>

(* os.Remove; an error is ignored in Save and logged in deleteFile. *)
RemoveFile(r) ==
  /\ pc[r] \in {"unfill", "discard", "unlink"}
  /\ \/ file' = [file EXCEPT ![key[r]] = "none"] /\ UNCHANGED stray
     \/ stray' = stray \cup {key[r]} /\ UNCHANGED file
  /\ Finish(r)
  /\ UNCHANGED <<row, drawn, lost>>

(* Mistake: the file is cleaned up when the row has been added as well. *)
AfterAddAlways(r, failed) == Goto(r, "discard") /\ UNCHANGED key
(* Mistake: the file stays when the row could not be added. *)
AfterAddNever(r, failed) == Finish(r)
AfterAdd(r, failed) ==
  IF failed THEN Goto(r, "discard") /\ UNCHANGED key ELSE Finish(r)

(* ProfileRepo.AddPhoto: the row is committed, or it is not, or it is but  *)
(* the service is told it is not.                                          *)
AddRow(r) ==
  /\ pc[r] = "add_row"
  /\ \/ row' = row \cup {key[r]} /\ AfterAdd(r, FALSE) /\ UNCHANGED lost
     \/ row' = row /\ AfterAdd(r, TRUE) /\ UNCHANGED lost
     \/ row' = row \cup {key[r]} /\ lost' = lost \cup {key[r]} /\ AfterAdd(r, TRUE)
  /\ UNCHANGED <<file, drawn, stray>>

(* DELETE /profile/me/photos/{id}: the client names a photo it has seen. *)
Delete(r) ==
  /\ pc[r] = "idle"
  /\ \E k \in drawn : key' = [key EXCEPT ![r] = k]
  /\ Goto(r, "drop_row")
  /\ UNCHANGED <<file, row, drawn, lost, stray>>

AfterDrop(r, failed) ==
  IF failed THEN Finish(r) ELSE Goto(r, "unlink") /\ UNCHANGED key

(* ProfileRepo.DeletePhoto: there is no such row, or it is deleted, or it  *)
(* is not, or it is but the service is told it is not.                     *)
DropRow(r) ==
  /\ pc[r] = "drop_row"
  /\ \/ key[r] \in row /\ row' = row \ {key[r]} /\ AfterDrop(r, FALSE) /\ UNCHANGED stray
     \/ row' = row /\ AfterDrop(r, TRUE) /\ UNCHANGED stray
     \/ /\ key[r] \in row
        /\ row' = row \ {key[r]}
        /\ stray' = stray \cup {key[r]}
        /\ AfterDrop(r, TRUE)
  /\ UNCHANGED <<file, drawn, lost>>

(* The process stops; requests end wherever they are. *)
Crash ==
  /\ \E r \in Requests : pc[r] # "idle"
  /\ pc' = [r \in Requests |-> "idle"]
  /\ key' = [r \in Requests |-> NoKey]
  /\ stray' = stray \cup {key[r] : r \in {q \in Requests : pc[q] \in Working \ {"drop_row"}}}
  /\ UNCHANGED <<file, row, drawn, lost>>

Next ==
  \/ \E r \in Requests :
       \/ Upload(r) \/ CreateFile(r) \/ FillFile(r) \/ AddRow(r)
       \/ Delete(r) \/ DropRow(r) \/ RemoveFile(r)
  \/ Crash

Spec == Init /\ [][Next]_vars

-----------------------------------------------------------------------------
(* The variables have their types; a request has a key while it works, and *)
(* no two uploads work on the same.                                        *)
TypeOK ==
  /\ file \in [Keys -> {"none", "partial", "whole"}]
  /\ row \subseteq drawn
  /\ drawn \subseteq Keys
  /\ pc \in [Requests -> {"idle"} \cup Working]
  /\ key \in [Requests -> Keys \cup {NoKey}]
  /\ \A r \in Requests : pc[r] \in Working <=> key[r] \in Keys
  /\ \A r, q \in Requests :
       pc[r] \in Uploading /\ pc[q] \in Uploading /\ key[r] = key[q] => r = q
  /\ lost \subseteq drawn
  /\ stray \subseteq drawn

(* Every photo of a profile has its whole file, whatever fails and however *)
(* uploads and deletions overlap, with one exception: a COMMIT that added  *)
(* the row was reported as failed, and the upload deleted the file.        *)
RowsHaveFiles == \A k \in row : file[k] = "whole" \/ k \in lost

(* A file nobody works on belongs to a photo, or a failure left it: of the *)
(* disk, of the process, or of a deletion whose COMMIT was reported as     *)
(* failed.  Nothing that goes well leaves a file behind.                   *)
FilesHaveRows ==
  \A k \in Keys :
    file[k] # "none" =>
      \/ k \in row \cup stray
      \/ \E r \in Requests : key[r] = k /\ pc[r] \in Working \ {"drop_row"}
=============================================================================
