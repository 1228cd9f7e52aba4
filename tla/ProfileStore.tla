---------------------------- MODULE ProfileStore ----------------------------
(***************************************************************************)
(* The questionnaire, photos and search filter of one user, changed by     *)
(* requests that run at the same time: PATCH /profile/me, POST, DELETE and *)
(* PUT of /profile/me/photos, and PUT /filters/me.  Every method of        *)
(* ProfileRepo that writes takes the row lock of the profile, reads the    *)
(* profile, decides and writes in one READ COMMITTED transaction;          *)
(* FilterRepo.Upsert is one statement and takes no such lock.              *)
(*                                                                         *)
(* versions, photo, filter and updated are committed rows.  What an open   *)
(* transaction has written is computed when it commits, from what it has   *)
(* read (tx) and its input; under the row lock nobody can tell.            *)
(* Profiles of different users share no row, so one of them is enough.     *)
(***************************************************************************)
EXTENDS ProfileFields, Integers, Sequences, FiniteSets

CONSTANTS Photos,       \* ids the database may give to photos
          MaxPhotos,    \* model.MaxPhotos
          Requests,     \* request slots: how many requests run at a time
          Ops,          \* what the requests do
          MaxRequests,  \* bound on the requests received in a behavior
          NoInput       \* the input of an answered slot

ASSUME OpsKnown == Ops \subseteq {"patch", "add", "delete", "reorder", "filter"}
ASSUME LimitsAreNat == MaxPhotos \in Nat /\ MaxRequests \in Nat
ASSUME PhotosFinite == IsFiniteSet(Photos)
ASSUME NullIsNoValue == "null" \notin Values

VARIABLES
  versions,  \* field values of each row of profile_version, by revision
  photo,     \* rows of table photo: position (0: no row) and created_at
  drawn,     \* ids that have been given to a photo
  filter,    \* created_at of the row of search_filter, 0: no row
  updated,   \* updated_at of the row of table profile
  pc,        \* next step of each request, or its last answer
  input,     \* what each request asks for
  tx,        \* start time of each transaction, and the profile it has read
  clock,     \* the database clock
  received,  \* requests received so far, at most MaxRequests
  photoAt,   \* history: when photos were last changed
  filterAt   \* history: when the row of search_filter was inserted

rows == <<versions, photo, drawn, filter, updated>>
history == <<photoAt, filterAt>>
vars == <<rows, pc, input, tx, clock, received, history>>

-----------------------------------------------------------------------------
Refusals == {"unknown_tag", "photo_limit", "photo_not_found", "last_photo",
             "order_mismatch"}
Answers == Refusals \cup {"saved", "stale_time", "failed"}
Locked == {"load", "write", "commit"}
InFlight == {"begin", "lock", "upsert"} \cup Locked

(* Orders the handler lets pass: not empty, not too long, no repetitions. *)
Orders ==
  {o \in UNION {[1..n -> Photos] : n \in 1..MaxPhotos} :
     \A i, j \in DOMAIN o : o[i] = o[j] => i = j}

Inputs ==
  {i \in [op : {"patch"}, patch : Patches] \cup [op : {"add", "filter"}]
         \cup [op : {"delete"}, id : Photos] \cup [op : {"reorder"}, order : Orders] :
     i.op \in Ops}

Revisions(v) == Len(v)
CurrentFields(v) == IF v = <<>> THEN Unfilled ELSE v[Revisions(v)]
RowsOf(p) == {id \in Photos : p[id].position # 0}

(* Profile.Missing returns nothing. *)
Complete(fields, photos, filtered) ==
  RequiredFilled(fields) /\ photos # {} /\ filtered

Nothing == [fields |-> Unfilled, position |-> [id \in Photos |-> 0], filtered |-> FALSE]
NoTx == [started |-> 0, seen |-> Nothing]

(* What the transaction of a request knows of the profile. *)
SeenPhotos(r) == {id \in Photos : tx[r].seen.position[id] # 0}
SeenComplete(r) == Complete(tx[r].seen.fields, SeenPhotos(r), tx[r].seen.filtered)

Goto(r, step) == pc' = [pc EXCEPT ![r] = step]

(* The request ends: its transaction, if any, is closed and the slot freed. *)
Answer(r, answer) ==
  /\ Goto(r, answer)
  /\ input' = [input EXCEPT ![r] = NoInput]
  /\ tx' = [tx EXCEPT ![r] = NoTx]

-----------------------------------------------------------------------------
(* A registered user has a profile without versions, photos and filter. *)
Init ==
  /\ versions = <<>>
  /\ photo = [id \in Photos |-> [position |-> 0, created |-> 0]]
  /\ drawn = {}
  /\ filter = 0
  /\ updated = 0
  /\ pc = [r \in Requests |-> "idle"]
  /\ input = [r \in Requests |-> NoInput]
  /\ tx = [r \in Requests |-> NoTx]
  /\ clock = 1
  /\ received = 0
  /\ photoAt = 0
  /\ filterAt = 0

Receive(r) ==
  /\ pc[r] \in {"idle"} \cup Answers
  /\ received < MaxRequests
  /\ received' = received + 1
  /\ \E i \in Inputs : input' = [input EXCEPT ![r] = i]
  /\ Goto(r, "begin")
  /\ UNCHANGED <<rows, tx, clock, history>>

(* BEGIN, or the only statement of FilterRepo, fixes CURRENT_TIMESTAMP. *)
Begin(r) ==
  /\ pc[r] = "begin"
  /\ Goto(r, IF input[r].op = "filter" THEN "upsert" ELSE "lock")
  /\ tx' = [tx EXCEPT ![r].started = clock]
  /\ clock' = clock + 1
  /\ UNCHANGED <<rows, input, received, history>>

(* Mistake: the row of the profile is read without FOR UPDATE. *)
MayLockAnyTime(r) == pc[r] = "lock"
(* SELECT ... FOR UPDATE waits for the transaction that has the row. *)
MayLock(r) == \A q \in Requests : pc[q] \notin Locked

Lock(r) ==
  /\ pc[r] = "lock"
  /\ MayLock(r)
  /\ Goto(r, "load")
  /\ UNCHANGED <<rows, input, tx, clock, received, history>>

(* What loadProfileByUserID returns. *)
Snapshot ==
  [fields |-> CurrentFields(versions),
   position |-> [id \in Photos |-> photo[id].position],
   filtered |-> filter # 0]

Load(r) ==
  /\ pc[r] = "load"
  /\ tx' = [tx EXCEPT ![r].seen = Snapshot]
  /\ Goto(r, "write")
  /\ UNCHANGED <<rows, input, clock, received, history>>

OverLimit(r) == Cardinality(SeenPhotos(r)) >= MaxPhotos

(* Mistake: the last photo is deleted like any other. *)
KeepsLastNever(r) == FALSE
KeepsLast(r) == Cardinality(SeenPhotos(r)) = 1 /\ SeenComplete(r)

(* The new order has the length of the gallery and names all its photos. *)
MatchesOrder(r) ==
  /\ Len(input[r].order) = Cardinality(SeenPhotos(r))
  /\ \A id \in SeenPhotos(r) : \E i \in DOMAIN input[r].order : input[r].order[i] = id

(* Mistake: names the dictionary does not have go unnoticed. *)
UnknownTagNever(r) == FALSE
(* findTags misses a name in the table of tags. *)
UnknownTag(r) == \E f \in Fields : input[r].patch[f] = "unknown"

(* The code refuses a request for what it has read. *)
Refused(r, answer) ==
  \/ answer = "unknown_tag" /\ input[r].op = "patch" /\ UnknownTag(r)
  \/ answer = "photo_limit" /\ input[r].op = "add" /\ OverLimit(r)
  \/ /\ answer = "photo_not_found" /\ input[r].op = "delete"
     /\ input[r].id \notin SeenPhotos(r)
  \/ /\ answer = "last_photo" /\ input[r].op = "delete"
     /\ input[r].id \in SeenPhotos(r) /\ KeepsLast(r)
  \/ answer = "order_mismatch" /\ input[r].op = "reorder" /\ ~MatchesOrder(r)

(* INSERT of a photo at the end of the list. *)
Added(r, new) ==
  [photo EXCEPT ![new] = [position |-> Cardinality(SeenPhotos(r)) + 1,
                          created |-> tx[r].started]]

(* DELETE of the photo, UPDATE of those behind it. *)
Deleted(r) ==
  LET place == tx[r].seen.position[input[r].id] IN
  [id \in Photos |->
     IF id = input[r].id THEN [position |-> 0, created |-> 0]
     ELSE [photo[id] EXCEPT !.position = IF @ > place THEN @ - 1 ELSE @]]

Place(order, id) == CHOOSE i \in DOMAIN order : order[i] = id
(* UPDATE of the positions that differ from those in the new order. *)
Reordered(r) ==
  [id \in Photos |-> IF id \in RowsOf(photo)
                     THEN [photo[id] EXCEPT !.position = Place(input[r].order, id)]
                     ELSE photo[id]]

Rewritten(r) == IF input[r].op = "delete" THEN Deleted(r) ELSE Reordered(r)

(* Mistake: the columns hold whole seconds, here eight instants, and the   *)
(* CHECK is strict.                                                        *)
DatesStrict(r) ==
  input[r].op \in {"delete", "reorder"} =>
    LET new == Rewritten(r) IN
    \A id \in Photos :
      /\ new[id].position # 0
      /\ new[id].position # photo[id].position
      => tx[r].started \div 8 > photo[id].created \div 8
(* CHECK (updated_at >= created_at) on every photo whose position changes: *)
(* updated_at is the start of the transaction.                             *)
DatesValid(r) ==
  input[r].op \in {"delete", "reorder"} =>
    LET new == Rewritten(r) IN
    \A id \in Photos :
      /\ new[id].position # 0
      /\ new[id].position # photo[id].position
      => tx[r].started >= photo[id].created

(* The statements after the decision; touchProfile is one of them. *)
Write(r) ==
  /\ pc[r] = "write"
  /\ \/ \E answer \in Refusals : Refused(r, answer) /\ Answer(r, answer)
     \/ /\ \A answer \in Refusals : ~Refused(r, answer)
        /\ \/ DatesValid(r) /\ Goto(r, "commit") /\ UNCHANGED <<input, tx>>
           \/ ~DatesValid(r) /\ Answer(r, "stale_time")
  /\ UNCHANGED <<rows, clock, received, history>>

(* What COMMIT publishes.  An id is never given to a second photo. *)
PublishPatch(r) ==
  /\ input[r].op = "patch"
  /\ versions' = Append(versions, Apply(input[r].patch, tx[r].seen.fields))
  /\ UNCHANGED <<photo, drawn, photoAt>>

PublishPhotos(r) ==
  /\ \/ /\ input[r].op = "add"
        /\ \E new \in Photos \ drawn :
             photo' = Added(r, new) /\ drawn' = drawn \cup {new}
     \/ /\ input[r].op \in {"delete", "reorder"}
        /\ photo' = Rewritten(r)
        /\ UNCHANGED drawn
  /\ photoAt' = clock
  /\ UNCHANGED versions

(* The answer of COMMIT may be lost on the way back. *)
Commit(r) ==
  /\ pc[r] = "commit"
  /\ PublishPatch(r) \/ PublishPhotos(r)
  /\ updated' = tx[r].started
  /\ clock' = clock + 1
  /\ \E answer \in {"saved", "failed"} : Answer(r, answer)
  /\ UNCHANGED <<filter, received, filterAt>>

(* INSERT ... ON CONFLICT DO UPDATE, a transaction of its own; its answer  *)
(* may be lost as well.                                                    *)
InsertFilter(r) ==
  /\ pc[r] = "upsert"
  /\ filter = 0
  /\ filter' = tx[r].started
  /\ filterAt' = clock
  /\ clock' = clock + 1
  /\ \E answer \in {"saved", "failed"} : Answer(r, answer)
  /\ UNCHANGED <<versions, photo, drawn, updated, received, photoAt>>

UpdateFilter(r) ==
  /\ pc[r] = "upsert"
  /\ filter # 0
  /\ \/ tx[r].started >= filter /\ \E answer \in {"saved", "failed"} : Answer(r, answer)
     \/ tx[r].started < filter /\ Answer(r, "stale_time")
  /\ UNCHANGED <<rows, clock, received, history>>

(* The client disconnects, the connection breaks or the process dies. *)
Fail(r) ==
  /\ pc[r] \in InFlight
  /\ Answer(r, "failed")
  /\ UNCHANGED <<rows, clock, received, history>>

Proceed(r) ==
  Begin(r) \/ Lock(r) \/ Load(r) \/ Write(r) \/ Commit(r)
    \/ InsertFilter(r) \/ UpdateFilter(r)

Next == \E r \in Requests : Receive(r) \/ Proceed(r) \/ Fail(r)

Spec == Init /\ [][Next]_vars

-----------------------------------------------------------------------------
FieldValues == [Fields -> Values \cup {"null"}]

(* The variables have the types the tables give them; no field holds a tag *)
(* the dictionary does not know.                                           *)
TypeOK ==
  /\ versions \in Seq(FieldValues)
  /\ photo \in [Photos -> [position : 0..MaxPhotos, created : Nat]]
  /\ drawn \subseteq Photos
  /\ filter \in Nat
  /\ updated \in Nat
  /\ pc \in [Requests -> {"idle"} \cup Answers \cup InFlight]
  /\ input \in [Requests -> Inputs \cup {NoInput}]
  /\ \A r \in Requests : pc[r] \in InFlight => input[r] \in Inputs
  /\ tx \in [Requests -> [started : Nat,
                          seen : [fields : FieldValues, filtered : BOOLEAN,
                                  position : [Photos -> 0..MaxPhotos]]]]
  /\ clock \in Nat \ {0}
  /\ received \in Nat
  /\ photoAt \in Nat
  /\ filterAt \in Nat

(* The photos of a profile have the positions 1, 2, ... without gaps or    *)
(* repetitions, however uploads, deletions and reorders overlap, so the    *)
(* UNIQUE constraint of table photo is never met by a request.             *)
PositionsDense ==
  /\ \A id \in RowsOf(photo) : photo[id].position <= Cardinality(RowsOf(photo))
  /\ \A a, b \in RowsOf(photo) : photo[a].position = photo[b].position => a = b

(* A new version is the patch applied to the version that is current when  *)
(* it is committed: two patches at the same time never undo each other.    *)
PatchOnCurrent ==
  [][\A r \in Requests :
       pc[r] = "commit" /\ input[r].op = "patch" /\ versions' # versions
         => versions' = Append(versions, Apply(input[r].patch, CurrentFields(versions)))]_vars

IsComplete == Complete(CurrentFields(versions), RowsOf(photo), filter # 0)

(* A complete profile becomes incomplete in one way only: a deletion of    *)
(* its only photo that had begun before the search filter was there.       *)
LapseNeedsRace ==
  [][IsComplete /\ ~IsComplete' =>
       \E r \in Requests : /\ pc[r] = "commit" /\ input[r].op = "delete"
                           /\ tx[r].started < filterAt]_vars

(* A change is refused for its dates only if photos, or the filter, were   *)
(* changed after it had begun: requests sent one after the other never are.*)
StaleTimeNeedsOverlap ==
  [][\A r \in Requests :
       pc[r] \in InFlight /\ pc'[r] = "stale_time" =>
         tx[r].started < (IF pc[r] = "upsert" THEN filterAt ELSE photoAt)]_vars

(* From outside, each transaction is one step on the gallery, the fields   *)
(* and the filter: no upload or deletion is lost by another one.           *)
Gallery ==
  [i \in 1..Cardinality(RowsOf(photo)) |->
     CHOOSE id \in Photos : photo[id].position = i]
Ledger == INSTANCE ProfileLedger
  WITH fields <- CurrentFields(versions), gallery <- Gallery, filtered <- filter # 0
ImplementsLedger == Ledger!Spec

-----------------------------------------------------------------------------
(* The error of DeletePhoto and the API documentation say that the only    *)
(* photo of a complete profile cannot be deleted.                          *)
LastPhotoStays == [][IsComplete => RowsOf(photo') # {}]_vars
=============================================================================
