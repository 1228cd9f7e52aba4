----------------------------- MODULE SwipeMatch -----------------------------
(***************************************************************************)
(* POST /api/v1/feed/swipe: the service reads the author's profile, then   *)
(* one READ COMMITTED transaction looks the target up, upserts the swipe   *)
(* and inserts a match when it sees the counter-like.  Requests run as     *)
(* goroutines, so their database statements interleave: one action here is *)
(* one statement, a request slot is one goroutine and is reused once the   *)
(* request has been answered.                                              *)
(*                                                                         *)
(* What other transactions can see is in the variables swipe and match     *)
(* (committed rows); what a transaction has written and not committed is   *)
(* read off its program counter, its input and tx.                         *)
(***************************************************************************)
EXTENDS Integers

CONSTANTS Users,        \* user ids, registered or not
          Requests,     \* request slots: how many requests run at a time
          MaxRequests,  \* bound on the requests received in a behavior
          NoInput       \* the input of an answered slot

ASSUME UsersAreIds == Users \subseteq Int

VARIABLES
  profile,   \* state of each user's profile row
  pc,        \* next step of each request, or its last answer
  input,     \* author, target and action of each request
  tx,        \* start time and uncommitted results of each transaction
  swipe,     \* committed rows of table swipe, by <<author, target>>
  match,     \* committed rows of table match
  clock,     \* the database clock: CURRENT_TIMESTAMP of the next transaction
  received,  \* requests received so far, at most MaxRequests
  saved,     \* history: when each swipe row was last committed
  liked      \* history: the pairs that ever had a committed like

vars == <<profile, pc, input, tx, swipe, match, clock, received, saved, liked>>
dbVars == <<swipe, match, clock, saved, liked>>

-----------------------------------------------------------------------------
Actions == {"like", "dislike", "super_like"}

(* The actions that can make a match. *)
Positive(action) == action \in {"like", "super_like"}

Inputs == [author : Users, target : Users, action : Actions]
Keys == Users \X Users

Answers == {"saved", "invalid", "incomplete", "not_found", "stale_time", "failed"}
InTransaction == {"find_target", "insert_swipe", "find_counter", "insert_match", "commit"}
InFlight == {"load_author", "begin"} \cup InTransaction

NoTx == [started |-> 0, counter |-> FALSE, made |-> FALSE]
NoRow == [action |-> "none", created |-> 0, updated |-> 0]

Key(r) == <<input[r].author, input[r].target>>
CounterKey(r) == <<input[r].target, input[r].author>>

(* LEAST and GREATEST of the two users, the order table match requires. *)
PairOf(a, b) == IF a < b THEN <<a, b>> ELSE <<b, a>>
Pair(r) == PairOf(input[r].author, input[r].target)

Exists(key) == swipe[key].action # "none"

(* Rows a transaction has written: another writer of them has to wait. *)
HoldsSwipe(r, key) == pc[r] \in {"find_counter", "insert_match", "commit"} /\ Key(r) = key
HoldsMatch(r, pair) == pc[r] = "commit" /\ tx[r].made /\ Pair(r) = pair

Goto(r, step) == pc' = [pc EXCEPT ![r] = step]

(* The request ends: its transaction, if any, is closed and the slot freed. *)
Answer(r, answer) ==
  /\ pc' = [pc EXCEPT ![r] = answer]
  /\ input' = [input EXCEPT ![r] = NoInput]
  /\ tx' = [tx EXCEPT ![r] = NoTx]

-----------------------------------------------------------------------------
Init ==
  /\ profile = [u \in Users |-> "absent"]
  /\ pc = [r \in Requests |-> "idle"]
  /\ input = [r \in Requests |-> NoInput]
  /\ tx = [r \in Requests |-> NoTx]
  /\ swipe = [k \in Keys |-> NoRow]
  /\ match = {}
  /\ clock = 1
  /\ received = 0
  /\ saved = [k \in Keys |-> 0]
  /\ liked = {}

(* The user and the empty profile are inserted in one transaction. *)
Register(u) ==
  /\ profile[u] = "absent"
  /\ profile' = [profile EXCEPT ![u] = "new"]
  /\ UNCHANGED <<pc, input, tx, dbVars, received>>

(* The user fills in the last missing field of the profile. *)
CompleteProfile(u) ==
  /\ profile[u] \in {"new", "lapsed"}
  /\ profile' = [profile EXCEPT ![u] = "complete"]
  /\ UNCHANGED <<pc, input, tx, dbVars, received>>

(* A complete profile loses its only photo: DeletePhoto decided to let it  *)
(* go while the profile still had no search filter.                        *)
LapseProfile(u) ==
  /\ profile[u] = "complete"
  /\ profile' = [profile EXCEPT ![u] = "lapsed"]
  /\ UNCHANGED <<pc, input, tx, dbVars, received>>

(* A registered user sends a swipe; one's own profile is refused at once. *)
Receive(r) ==
  /\ pc[r] \in {"idle"} \cup Answers
  /\ received < MaxRequests
  /\ received' = received + 1
  /\ \E i \in Inputs :
       /\ profile[i.author] # "absent"
       /\ \/ /\ i.author = i.target
             /\ pc' = [pc EXCEPT ![r] = "invalid"]
             /\ UNCHANGED input
          \/ /\ i.author # i.target
             /\ pc' = [pc EXCEPT ![r] = "load_author"]
             /\ input' = [input EXCEPT ![r] = i]
  /\ UNCHANGED <<profile, tx, dbVars>>

(* Mistake: the completeness of the author's profile is not looked at. *)
MayStartUnchecked(r) == profile[input[r].author] # "absent"
MayStart(r) == profile[input[r].author] = "complete"

(* The author's profile is read in a transaction of its own. *)
LoadAuthor(r) ==
  /\ pc[r] = "load_author"
  /\ \/ MayStart(r) /\ Goto(r, "begin") /\ UNCHANGED <<input, tx>>
     \/ ~MayStart(r) /\ Answer(r, "incomplete")
  /\ UNCHANGED <<profile, dbVars, received>>

(* BEGIN fixes CURRENT_TIMESTAMP for the whole transaction. *)
Begin(r) ==
  /\ pc[r] = "begin"
  /\ Goto(r, "find_target")
  /\ tx' = [tx EXCEPT ![r].started = clock]
  /\ clock' = clock + 1
  /\ UNCHANGED <<profile, input, swipe, match, received, saved, liked>>

FindTarget(r) ==
  /\ pc[r] = "find_target"
  /\ \/ /\ profile[input[r].target] # "absent"
        /\ Goto(r, "insert_swipe")
        /\ UNCHANGED <<input, tx>>
     \/ /\ profile[input[r].target] = "absent"
        /\ Answer(r, "not_found")
  /\ UNCHANGED <<profile, dbVars, received>>

(* Mistake: the dates of the row are not checked. *)
DatesUnchecked(r) == pc[r] = "insert_swipe"
(* Mistake: the check of the row's dates is the wrong way round. *)
DatesSwapped(r) == Exists(Key(r)) => swipe[Key(r)].created >= tx[r].started
(* CHECK (updated_at >= created_at): an update stamps the row with the     *)
(* start of its transaction, which may precede the row's creation.         *)
DatesValid(r) == Exists(Key(r)) => tx[r].started >= swipe[Key(r)].created

(* INSERT ... ON CONFLICT DO UPDATE waits for another writer of the row. *)
InsertSwipe(r) ==
  /\ pc[r] = "insert_swipe"
  /\ \A q \in Requests \ {r} : ~HoldsSwipe(q, Key(r))
  /\ \/ DatesValid(r) /\ Goto(r, "find_counter") /\ UNCHANGED <<input, tx>>
     \/ ~DatesValid(r) /\ Answer(r, "stale_time")
  /\ UNCHANGED <<profile, dbVars, received>>

(* Mistake: any swipe of the target about the author makes a match. *)
SeesCounterAny(r) ==
  Positive(input[r].action) /\ Exists(CounterKey(r))
(* Mistake: the super-likes of the target are not looked for. *)
SeesCounterLike(r) ==
  Positive(input[r].action) /\ swipe[CounterKey(r)].action = "like"
(* The action makes a match and a committed counter-like is there. *)
SeesCounter(r) ==
  Positive(input[r].action) /\ Positive(swipe[CounterKey(r)].action)

(* Mistake: the counter-like is read with FOR UPDATE. *)
FindCounterLocking(r) ==
  /\ pc[r] = "find_counter"
  /\ \A q \in Requests \ {r} : ~HoldsSwipe(q, CounterKey(r))
  /\ Goto(r, "insert_match")
  /\ tx' = [tx EXCEPT ![r].counter = SeesCounter(r)]
  /\ UNCHANGED <<profile, input, dbVars, received>>
(* The snapshot of INSERT INTO match ... SELECT: is there a counter-like? *)
FindCounter(r) ==
  /\ pc[r] = "find_counter"
  /\ Goto(r, "insert_match")
  /\ tx' = [tx EXCEPT ![r].counter = SeesCounter(r)]
  /\ UNCHANGED <<profile, input, dbVars, received>>

(* ON CONFLICT DO NOTHING keeps the row that is already there. *)
InsertsMatch(r) == tx[r].counter /\ Pair(r) \notin match

(* The insertion itself, which waits for another writer of the same pair. *)
InsertMatch(r) ==
  /\ pc[r] = "insert_match"
  /\ tx[r].counter => \A q \in Requests \ {r} : ~HoldsMatch(q, Pair(r))
  /\ Goto(r, "commit")
  /\ tx' = [tx EXCEPT ![r].made = InsertsMatch(r)]
  /\ UNCHANGED <<profile, input, dbVars, received>>

(* Mistake: ON CONFLICT leaves the action of the row alone. *)
RowKeepsAction(r) ==
  [action |-> IF Exists(Key(r)) THEN swipe[Key(r)].action ELSE input[r].action,
   created |-> IF Exists(Key(r)) THEN swipe[Key(r)].created ELSE tx[r].started,
   updated |-> tx[r].started]
(* The row COMMIT publishes; an updated row keeps its creation time. *)
RowOf(r) ==
  [action |-> input[r].action,
   created |-> IF Exists(Key(r)) THEN swipe[Key(r)].created ELSE tx[r].started,
   updated |-> tx[r].started]

(* COMMIT publishes both rows; its answer may be lost on the way back. *)
Commit(r) ==
  /\ pc[r] = "commit"
  /\ swipe' = [swipe EXCEPT ![Key(r)] = RowOf(r)]
  /\ match' = IF tx[r].made THEN match \cup {Pair(r)} ELSE match
  /\ clock' = clock + 1
  /\ saved' = [saved EXCEPT ![Key(r)] = clock]
  /\ liked' = IF Positive(input[r].action) THEN liked \cup {Key(r)} ELSE liked
  /\ \E answer \in {"saved", "failed"} : Answer(r, answer)
  /\ UNCHANGED <<profile, received>>

(* The client disconnects, the connection breaks or the process dies: the  *)
(* open transaction is rolled back.                                        *)
Fail(r) ==
  /\ pc[r] \in InFlight
  /\ Answer(r, "failed")
  /\ UNCHANGED <<profile, dbVars, received>>

(* Everything a request does by itself, once it has been received. *)
Proceed(r) ==
  LoadAuthor(r) \/ Begin(r) \/ FindTarget(r) \/ InsertSwipe(r)
    \/ FindCounter(r) \/ InsertMatch(r) \/ Commit(r)

Next ==
  \/ \E u \in Users : Register(u) \/ CompleteProfile(u) \/ LapseProfile(u)
  \/ \E r \in Requests : Receive(r) \/ Proceed(r) \/ Fail(r)

Spec == Init /\ [][Next]_vars

(* The server and the database keep executing what they have accepted. *)
Fairness == \A r \in Requests : WF_vars(Proceed(r))
FairSpec == Spec /\ Fairness

-----------------------------------------------------------------------------
Row == [action : Actions \cup {"none"}, created : Nat, updated : Nat]

(* The variables have the types the declarations and the tables give them; *)
(* a request in flight has an input, and no row was created after its last *)
(* update (the CHECK constraint of table swipe).                           *)
TypeOK ==
  /\ profile \in [Users -> {"absent", "new", "complete", "lapsed"}]
  /\ pc \in [Requests -> {"idle"} \cup Answers \cup InFlight]
  /\ input \in [Requests -> Inputs \cup {NoInput}]
  /\ \A r \in Requests : pc[r] \in InFlight => input[r] \in Inputs
  /\ tx \in [Requests -> [started : Nat, counter : BOOLEAN, made : BOOLEAN]]
  /\ swipe \in [Keys -> Row]
  /\ \A k \in Keys : swipe[k].created <= swipe[k].updated
  /\ match \subseteq Keys
  /\ clock \in Nat \ {0}
  /\ received \in Nat
  /\ saved \in [Keys -> Nat]
  /\ liked \subseteq Keys

(* A match is in the order table match requires, and each of the two users *)
(* liked the other at some time: no interleaving of swipes, changes of     *)
(* mind and failures invents a match.                                      *)
MatchNeedsBothLikes ==
  \A p \in match : p[1] < p[2] /\ p \in liked /\ <<p[2], p[1]>> \in liked

(* When two users like each other and the second of these swipes began     *)
(* only after the first was committed, they are matched: a counter-like    *)
(* that is visible is never overlooked, so a match can be missed only by   *)
(* two transactions that overlap, and any later like makes up for it.      *)
SerialLikesMatch ==
  \A a, b \in Users :
    (/\ a # b
     /\ Positive(swipe[<<a, b>>].action)
     /\ Positive(swipe[<<b, a>>].action)
     /\ saved[<<a, b>>] < swipe[<<b, a>>].updated)
    => PairOf(a, b) \in match

(* Only users who had completed their profile have swiped, and only people *)
(* who are registered have been swiped, however old the checks were when   *)
(* the row was committed.                                                  *)
SwipesAreEligible ==
  \A a, b \in Users :
    Exists(<<a, b>>) => /\ a # b
                        /\ profile[a] \in {"complete", "lapsed"}
                        /\ profile[b] # "absent"

(* A swipe is refused for its dates only if another swipe of the same      *)
(* author about the same target was committed after this one had begun:    *)
(* swipes sent one after the other are never refused.                      *)
StaleTimeNeedsOverlap ==
  [][\A r \in Requests :
       pc[r] = "insert_swipe" /\ pc'[r] = "stale_time"
         => saved[Key(r)] > tx[r].started]_vars

(* Every request that is received is answered: waiting for the rows of     *)
(* other transactions never becomes a deadlock.                            *)
EveryRequestAnswered ==
  \A r \in Requests : pc[r] \in InFlight ~> pc[r] \notin InFlight

(* The transaction implements the one-step promise of SwipeLedger: its     *)
(* four statements and the waits between them look, from the committed     *)
(* tables, like swipes saved one at a time.                                *)
Ledger == INSTANCE SwipeLedger WITH decision <- [k \in Keys |-> swipe[k].action]
ImplementsLedger == Ledger!Spec

-----------------------------------------------------------------------------
(* What the design of table match requires of this transaction: of two     *)
(* users who like each other and have no swipe under way, there is a       *)
(* match.                                                                  *)
MutualLikesMatched ==
  (\A r \in Requests : pc[r] \notin InFlight)
    => \A a, b \in Users :
         (/\ a # b
          /\ Positive(swipe[<<a, b>>].action)
          /\ Positive(swipe[<<b, a>>].action))
         => PairOf(a, b) \in match
=============================================================================
