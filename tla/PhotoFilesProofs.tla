-------------------------- MODULE PhotoFilesProofs --------------------------
(***************************************************************************)
(* Proofs about PhotoFiles: its invariants, for any keys and any number of *)
(* concurrent requests and failures.                                       *)
(***************************************************************************)
EXTENDS PhotoFiles, TLAPS

(* Before it adds its row an upload is the only request that can touch its *)
(* key: other requests that name it find no row to delete.                 *)
Fresh(r) == pc[r] \in {"create", "fill", "unfill", "add_row"}

OwnInv ==
  \A r, q \in Requests :
    Fresh(r) /\ r # q /\ key[q] = key[r] => pc[q] = "drop_row"

(* What a request knows of the file and the row of its key. *)
StepInv ==
  \A r \in Requests :
    /\ Fresh(r) => key[r] \notin row
    /\ pc[r] # "idle" => key[r] \in drawn
    /\ pc[r] = "create" => file[key[r]] = "none"
    /\ pc[r] = "add_row" => file[key[r]] = "whole"
    /\ pc[r] = "discard" /\ key[r] \in row => key[r] \in lost
    /\ pc[r] = "unlink" => key[r] \notin row

UndrawnInv == \A k \in Keys \ drawn : file[k] = "none"

IInv == TypeOK /\ OwnInv /\ StepInv /\ UndrawnInv /\ RowsHaveFiles /\ FilesHaveRows

THEOREM InitIInv == Init => IInv
<1> SUFFICES ASSUME Init PROVE IInv
  OBVIOUS
<1>1. TypeOK
  BY NoKeyIsNoKey DEF Init, TypeOK, Working, Uploading, Deleting
<1>2. OwnInv /\ StepInv /\ UndrawnInv
  BY DEF Init, OwnInv, Fresh, StepInv, UndrawnInv
<1>3. RowsHaveFiles /\ FilesHaveRows
  BY DEF Init, RowsHaveFiles, FilesHaveRows
<1> QED
  BY <1>1, <1>2, <1>3 DEF IInv

(* No failure and no interleaving breaks the invariant. *)
LEMMA Step == IInv /\ [Next]_vars => IInv'
<1> SUFFICES ASSUME IInv, [Next]_vars PROVE IInv'
  OBVIOUS
<1> USE NoKeyIsNoKey DEF Working, Uploading, Deleting, Goto, Finish
<1>0. TypeOK /\ OwnInv /\ StepInv /\ UndrawnInv /\ RowsHaveFiles /\ FilesHaveRows
  BY DEF IInv
<1>1. ASSUME NEW r \in Requests, Upload(r) PROVE IInv'
  <2>1. PICK k \in Keys \ drawn : key' = [key EXCEPT ![r] = k] /\ drawn' = drawn \cup {k}
    BY <1>1 DEF Upload, NewKeys
  <2>2. \A q \in Requests : key[q] # k
    BY <1>0, <2>1 DEF TypeOK, StepInv
  <2>3. TypeOK'
    BY <1>0, <1>1, <2>1, <2>2 DEF TypeOK, Upload
  <2>4. OwnInv'
    BY <1>0, <1>1, <2>1, <2>2 DEF TypeOK, OwnInv, Fresh, Upload
  <2>5. StepInv'
    BY <1>0, <1>1, <2>1 DEF TypeOK, StepInv, UndrawnInv, Fresh, Upload
  <2>6. UndrawnInv' /\ RowsHaveFiles' /\ FilesHaveRows'
    BY <1>0, <1>1, <2>1 DEF TypeOK, UndrawnInv, RowsHaveFiles, FilesHaveRows, Upload
  <2> QED
    BY <2>3, <2>4, <2>5, <2>6 DEF IInv
<1>2. ASSUME NEW r \in Requests, CreateFile(r) PROVE IInv'
  <2>1. TypeOK'
    BY <1>0, <1>2 DEF TypeOK, CreateFile
  <2>2. OwnInv'
    BY <1>0, <1>2 DEF TypeOK, OwnInv, Fresh, CreateFile
  <2>3. StepInv'
    BY <1>0, <1>2 DEF TypeOK, OwnInv, StepInv, Fresh, CreateFile
  <2>4. UndrawnInv' /\ RowsHaveFiles'
    BY <1>0, <1>2 DEF TypeOK, StepInv, Fresh, UndrawnInv, RowsHaveFiles, CreateFile
  <2>5. FilesHaveRows'
    BY <1>0, <1>2 DEF TypeOK, StepInv, FilesHaveRows, CreateFile
  <2> QED
    BY <2>1, <2>2, <2>3, <2>4, <2>5 DEF IInv
<1>3. ASSUME NEW r \in Requests, FillFile(r) PROVE IInv'
  <2>1. TypeOK'
    BY <1>0, <1>3 DEF TypeOK, FillFile
  <2>2. OwnInv'
    BY <1>0, <1>3 DEF TypeOK, OwnInv, Fresh, FillFile
  <2>3. StepInv'
    BY <1>0, <1>3 DEF TypeOK, OwnInv, StepInv, Fresh, FillFile
  <2>4. UndrawnInv' /\ RowsHaveFiles'
    BY <1>0, <1>3 DEF TypeOK, StepInv, UndrawnInv, RowsHaveFiles, FillFile
  <2>5. FilesHaveRows'
    BY <1>0, <1>3 DEF TypeOK, StepInv, FilesHaveRows, FillFile
  <2> QED
    BY <2>1, <2>2, <2>3, <2>4, <2>5 DEF IInv
<1>4. ASSUME NEW r \in Requests, AddRow(r) PROVE IInv'
  <2>1. TypeOK'
    BY <1>0, <1>4 DEF TypeOK, StepInv, AddRow, AfterAdd
  <2>2. OwnInv'
    BY <1>0, <1>4 DEF TypeOK, OwnInv, Fresh, AddRow, AfterAdd
  <2>3. StepInv'
    BY <1>0, <1>4 DEF TypeOK, OwnInv, StepInv, Fresh, AddRow, AfterAdd
  <2>4. UndrawnInv' /\ RowsHaveFiles'
    BY <1>0, <1>4 DEF TypeOK, StepInv, UndrawnInv, RowsHaveFiles, AddRow, AfterAdd
  <2>5. FilesHaveRows'
    BY <1>0, <1>4 DEF TypeOK, StepInv, FilesHaveRows, AddRow, AfterAdd
  <2> QED
    BY <2>1, <2>2, <2>3, <2>4, <2>5 DEF IInv
<1>5. ASSUME NEW r \in Requests, Delete(r) PROVE IInv'
  <2>1. TypeOK'
    BY <1>0, <1>5 DEF TypeOK, Delete
  <2>2. OwnInv'
    BY <1>0, <1>5 DEF TypeOK, OwnInv, Fresh, Delete
  <2>3. StepInv'
    BY <1>0, <1>5 DEF TypeOK, StepInv, Fresh, Delete
  <2>4. UndrawnInv' /\ RowsHaveFiles' /\ FilesHaveRows'
    BY <1>0, <1>5 DEF TypeOK, UndrawnInv, RowsHaveFiles, FilesHaveRows, Delete
  <2> QED
    BY <2>1, <2>2, <2>3, <2>4 DEF IInv
<1>6. ASSUME NEW r \in Requests, DropRow(r) PROVE IInv'
  <2>1. TypeOK'
    BY <1>0, <1>6 DEF TypeOK, StepInv, DropRow, AfterDrop
  <2>2. OwnInv'
    BY <1>0, <1>6 DEF TypeOK, OwnInv, StepInv, Fresh, DropRow, AfterDrop
  <2>3. StepInv'
    BY <1>0, <1>6 DEF TypeOK, StepInv, Fresh, DropRow, AfterDrop
  <2>4. UndrawnInv' /\ RowsHaveFiles'
    BY <1>0, <1>6 DEF TypeOK, UndrawnInv, RowsHaveFiles, DropRow, AfterDrop
  <2>5. FilesHaveRows'
    BY <1>0, <1>6 DEF TypeOK, FilesHaveRows, DropRow, AfterDrop
  <2> QED
    BY <2>1, <2>2, <2>3, <2>4, <2>5 DEF IInv
<1>7. ASSUME NEW r \in Requests, RemoveFile(r) PROVE IInv'
  <2>1. TypeOK'
    BY <1>0, <1>7 DEF TypeOK, StepInv, RemoveFile
  <2>2. OwnInv'
    BY <1>0, <1>7 DEF TypeOK, OwnInv, Fresh, RemoveFile
  <2>3. StepInv'
    BY <1>0, <1>7 DEF TypeOK, OwnInv, StepInv, Fresh, RemoveFile
  <2>4. UndrawnInv' /\ RowsHaveFiles'
    BY <1>0, <1>7 DEF TypeOK, StepInv, Fresh, UndrawnInv, RowsHaveFiles, RemoveFile
  <2>5. FilesHaveRows'
    BY <1>0, <1>7 DEF TypeOK, StepInv, FilesHaveRows, RemoveFile
  <2> QED
    BY <2>1, <2>2, <2>3, <2>4, <2>5 DEF IInv
<1>8. ASSUME Crash PROVE IInv'
  <2>1. TypeOK'
    BY <1>0, <1>8 DEF TypeOK, StepInv, Crash
  <2>2. OwnInv' /\ StepInv'
    BY <1>8 DEF OwnInv, StepInv, Fresh, Crash
  <2>3. UndrawnInv' /\ RowsHaveFiles'
    BY <1>0, <1>8 DEF UndrawnInv, RowsHaveFiles, Crash
  <2>4. FilesHaveRows'
    BY <1>0, <1>8 DEF TypeOK, FilesHaveRows, Crash
  <2> QED
    BY <2>1, <2>2, <2>3, <2>4 DEF IInv
<1>9. ASSUME UNCHANGED vars PROVE IInv'
  BY <1>0, <1>9 DEF vars, IInv, TypeOK, OwnInv, StepInv, Fresh, UndrawnInv,
                    RowsHaveFiles, FilesHaveRows
<1> QED
  BY <1>1, <1>2, <1>3, <1>4, <1>5, <1>6, <1>7, <1>8, <1>9 DEF Next

LEMMA Invariance == Spec => []IInv
  BY InitIInv, Step, PTL DEF Spec

(* The types hold in every state, and two uploads never work on one key.   *)
THEOREM TypeCorrect == Spec => []TypeOK
  BY Invariance, PTL DEF IInv

(* A photo keeps its whole file through every interleaving and failure,    *)
(* unless its own upload was told that the committed row was not added.    *)
THEOREM RowsKeepFiles == Spec => []RowsHaveFiles
  BY Invariance, PTL DEF IInv

(* Only a failure leaves a file that belongs to no photo and no request.   *)
THEOREM FilesHaveOwners == Spec => []FilesHaveRows
  BY Invariance, PTL DEF IInv


(* A file is written once: whoever has the address of a photo is served    *)
(* the same bytes or nothing, never a part of them and never another       *)
(* photo.  It becomes whole by the one upload that works on it, while all  *)
(* others that name it find no row to delete, and it comes into being only *)
(* by an upload that was about to create it.                               *)
WrittenOnce ==
  \A k \in Keys :
    /\ file[k] = "whole" => file'[k] \in {"whole", "none"}
    /\ file'[k] = "whole" /\ file[k] # "whole" =>
         \E r \in Requests : /\ pc[r] = "fill" /\ key[r] = k /\ file[k] = "partial"
                             /\ \A q \in Requests \ {r} : key[q] = k => pc[q] = "drop_row"
    /\ file[k] = "none" /\ file'[k] # "none" =>
         \E r \in Requests : pc[r] = "create" /\ key[r] = k /\ pc'[r] = "fill"

THEOREM FilesNeverChange == Spec => [][WrittenOnce]_vars
<1> DEFINE Filling == \A r \in Requests : pc[r] = "fill" => file[key[r]] = "partial"
<1>1. Init => Filling
  BY DEF Init
<1>2. IInv /\ Filling /\ [Next]_vars => Filling'
  <2> SUFFICES ASSUME IInv, Filling, [Next]_vars PROVE Filling'
    OBVIOUS
  <2> USE DEF Working, Uploading, Deleting, Goto, Finish
  <2>0. TypeOK /\ OwnInv
    BY DEF IInv
  <2>1. ASSUME NEW r \in Requests,
               Upload(r) \/ AddRow(r) \/ Delete(r) \/ DropRow(r)
        PROVE  Filling'
    <3>1. /\ file' = file /\ pc'[r] # "fill"
          /\ \A q \in Requests \ {r} : pc'[q] = pc[q] /\ key'[q] = key[q]
      BY <2>0, <2>1 DEF TypeOK, Upload, AddRow, Delete, DropRow, AfterAdd, AfterDrop
    <3> QED  BY <3>1
  <2>2. ASSUME NEW r \in Requests, CreateFile(r) \/ FillFile(r) \/ RemoveFile(r)
        PROVE  Filling'
    <3>1. /\ \A q \in Requests \ {r} : pc'[q] = pc[q] /\ key'[q] = key[q]
          /\ \A k \in Keys \ {key[r]} : file'[k] = file[k]
          /\ pc'[r] = "fill" => key'[r] = key[r] /\ file'[key[r]] = "partial"
      BY <2>0, <2>2 DEF TypeOK, CreateFile, FillFile, RemoveFile
    <3>2. ASSUME NEW q \in Requests, q # r, pc[q] = "fill"
          PROVE  key[q] # key[r] /\ key[q] \in Keys
      BY <2>0, <2>2, <3>2 DEF TypeOK, OwnInv, Fresh, CreateFile, FillFile, RemoveFile
    <3> QED  BY <3>1, <3>2
  <2>3. CASE Crash
    BY <2>3 DEF Crash
  <2>4. CASE UNCHANGED vars
    BY <2>4 DEF vars
  <2> QED  BY <2>1, <2>2, <2>3, <2>4 DEF Next
<1>3. IInv /\ Filling /\ [Next]_vars => [WrittenOnce]_vars
  <2> SUFFICES ASSUME IInv, Filling, [Next]_vars PROVE WrittenOnce
    OBVIOUS
  <2> USE DEF Goto, Finish
  <2>0. TypeOK /\ OwnInv /\ StepInv
    BY DEF IInv
  <2>1. CASE file' = file
    BY <2>1 DEF WrittenOnce
  <2>2. ASSUME NEW r \in Requests, CreateFile(r), file' # file PROVE WrittenOnce
    <3>1. /\ pc[r] = "create" /\ pc'[r] = "fill" /\ file[key[r]] = "none"
          /\ file' = [file EXCEPT ![key[r]] = "partial"]
      BY <2>0, <2>2 DEF TypeOK, CreateFile
    <3> QED  BY <2>0, <3>1 DEF TypeOK, WrittenOnce
  <2>3. ASSUME NEW r \in Requests, FillFile(r), file' # file PROVE WrittenOnce
    <3>1. pc[r] = "fill" /\ file[key[r]] = "partial"
          /\ file' = [file EXCEPT ![key[r]] = "whole"]
      BY <2>3 DEF FillFile
    <3>2. \A q \in Requests \ {r} : key[q] = key[r] => pc[q] = "drop_row"
      BY <2>0, <3>1 DEF OwnInv, Fresh
    <3> QED  BY <2>0, <3>1, <3>2 DEF TypeOK, WrittenOnce
  <2>4. ASSUME NEW r \in Requests, RemoveFile(r), file' # file PROVE WrittenOnce
    <3>1. file' = [file EXCEPT ![key[r]] = "none"]
      BY <2>4 DEF RemoveFile
    <3> QED  BY <2>0, <3>1 DEF TypeOK, WrittenOnce
  <2>5. \/ file' = file
        \/ \E r \in Requests : CreateFile(r) \/ FillFile(r) \/ RemoveFile(r)
    BY DEF Next, Upload, AddRow, Delete, DropRow, Crash, vars
  <2> QED  BY <2>1, <2>2, <2>3, <2>4, <2>5
<1>4. Spec => [](IInv /\ Filling)
  <2> HIDE DEF Filling
  <2> QED  BY <1>1, <1>2, InitIInv, Step, PTL DEF Spec
<1> HIDE DEF Filling
<1> QED  BY <1>3, <1>4, PTL DEF Spec
=============================================================================
