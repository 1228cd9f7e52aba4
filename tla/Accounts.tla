------------------------------ MODULE Accounts ------------------------------
(***************************************************************************)
(* Registration and login, with the people who register.  CreateUser       *)
(* inserts the rows of user and profile in one transaction; the session is *)
(* opened afterwards in Redis, and its failure leaves the account behind.  *)
(* Whoever is told that registration failed registers again; whoever is    *)
(* told that the address is taken, or is given no cookies, logs in.        *)
(*                                                                         *)
(* Addresses are told apart by the mailbox they stand for: Normalize trims *)
(* and lowers what is typed.  An account is the row of user with the row   *)
(* of profile that the same COMMIT publishes.  Module Sessions follows a   *)
(* session after it has been opened.                                       *)
(***************************************************************************)
EXTENDS Naturals

CONSTANTS Clients,     \* browsers, each with a form filled in
          Typed,       \* addresses as they are typed
          Mailbox,     \* the mailbox a typed address stands for
          Forms,       \* [typed, password] that may be filled in
          Weak,        \* passwords ValidatePassword refuses
          Long,        \* passwords longer than the 72 bytes bcrypt takes
          MaxFailures  \* bound on lost answers and failed statements

Passwords == {f.password : f \in Forms}
Mailboxes == {Mailbox[t] : t \in Typed}

ASSUME FormsTyped == \A f \in Forms : f = [typed |-> f.typed, password |-> f.password]
                                      /\ f.typed \in Typed
ASSUME MaxFailuresIsNat == MaxFailures \in Nat

VARIABLES
  users,     \* committed accounts
  pending,   \* clients whose transaction has inserted an address
  form,      \* what each client has filled in
  pc,        \* next step of each client or of the request it has sent
  found,     \* the account of the request: created, or found by the address
  failures   \* failures so far, at most MaxFailures

vars == <<users, pending, form, pc, found, failures>>

-----------------------------------------------------------------------------
Registering == {"insert_user", "insert_profile", "commit", "open_first"}
LoggingIn == {"find", "open"}
Ends == {"in", "invalid", "refused"}

NoAccount == [by |-> "nobody"]
(* Mistake: the address is stored and looked up as it is typed. *)
NormalizeNever(typed) == typed
Normalize(typed) == Mailbox[typed]
Email(c) == Normalize(form[c].typed)

(* Mistake: registration accepts any password. *)
RegistrableAny(password) == TRUE
(* ValidatePassword, and Hash, which refuses what bcrypt does. *)
Registrable(password) == password \notin Weak \cup Long

(* Mistake: an account that is found is the client's. *)
MatchesAny(password, account) == TRUE
(* BcryptHasher.Matches; a password that is too long matches none. *)
Matches(password, account) == password = account.password /\ password \notin Long

Goto(c, step) == pc' = [pc EXCEPT ![c] = step]

-----------------------------------------------------------------------------
Init ==
  /\ users = {}
  /\ pending = {}
  /\ form \in [Clients -> Forms]
  /\ pc = [c \in Clients |-> "register"]
  /\ found = [c \in Clients |-> NoAccount]
  /\ failures = 0

(* POST /auth/register is checked. *)
Register(c) ==
  /\ pc[c] = "register"
  /\ Goto(c, IF Registrable(form[c].password) THEN "insert_user" ELSE "invalid")
  /\ UNCHANGED <<users, pending, form, found, failures>>

(* INSERT of the user waits for a transaction that has inserted the same   *)
(* address, and violates UNIQUE if the address is there: 409, so log in.   *)
InsertUser(c) ==
  /\ pc[c] = "insert_user"
  /\ \A d \in pending : Email(d) # Email(c)
  /\ IF \E u \in users : u.email = Email(c)
     THEN Goto(c, "login") /\ UNCHANGED pending
     ELSE Goto(c, "insert_profile") /\ pending' = pending \cup {c}
  /\ UNCHANGED <<users, form, found, failures>>

InsertProfile(c) ==
  /\ pc[c] = "insert_profile"
  /\ Goto(c, "commit")
  /\ UNCHANGED <<users, pending, form, found, failures>>

NewAccount(c) == [by |-> c, email |-> Email(c), password |-> form[c].password]

Publish(c) ==
  /\ pc[c] = "commit"
  /\ users' = users \cup {NewAccount(c)}
  /\ pending' = pending \ {c}
  /\ UNCHANGED form

Commit(c) ==
  /\ Publish(c)
  /\ found' = [found EXCEPT ![c] = NewAccount(c)]
  /\ Goto(c, "open_first")
  /\ UNCHANGED failures

(* POST /auth/login, with the address typed in any way. *)
Login(c) ==
  /\ pc[c] = "login"
  /\ \E t \in Typed : /\ Mailbox[t] = Mailbox[form[c].typed]
                      /\ form' = [form EXCEPT ![c].typed = t]
  /\ Goto(c, "find")
  /\ UNCHANGED <<users, pending, found, failures>>

(* GetUserByEmail and Matches: 401, or the account whose profile is read.  *)
FindUser(c) ==
  /\ pc[c] = "find"
  /\ \/ \E u \in users :
          /\ u.email = Email(c) /\ Matches(form[c].password, u)
          /\ found' = [found EXCEPT ![c] = u]
          /\ Goto(c, "open")
     \/ /\ \A u \in users : u.email = Email(c) => ~Matches(form[c].password, u)
        /\ Goto(c, "refused")
        /\ UNCHANGED found
  /\ UNCHANGED <<users, pending, form, failures>>

(* openSession; the answer with the cookies arrives. *)
OpenSession(c) ==
  /\ pc[c] \in {"open_first", "open"}
  /\ Goto(c, "in")
  /\ UNCHANGED <<users, pending, form, found, failures>>

-----------------------------------------------------------------------------
Failing == failures < MaxFailures /\ failures' = failures + 1

(* Mistake: a failed registration leaves its transaction open. *)
RolledBackNever(c) == pending
(* defer tx.Rollback() *)
RolledBack(c) == pending \ {c}

(* A statement fails, the process dies or the answer is lost, at any step: *)
(* the client sends the request again.                                     *)
Fail(c) ==
  /\ pc[c] \in Registering \cup LoggingIn
  /\ Failing
  /\ pending' = RolledBack(c)
  /\ found' = [found EXCEPT ![c] = NoAccount]
  /\ Goto(c, IF pc[c] \in Registering THEN "register" ELSE "login")
  /\ UNCHANGED <<users, form>>

(* The answer of COMMIT is lost: the account is there, and the client does *)
(* not know.                                                               *)
LoseCommit(c) ==
  /\ Publish(c)
  /\ Failing
  /\ Goto(c, "register")
  /\ UNCHANGED found

(* ErrSessionNotOpened: 201 without cookies. *)
NotOpened(c) ==
  /\ pc[c] = "open_first"
  /\ Failing
  /\ found' = [found EXCEPT ![c] = NoAccount]
  /\ Goto(c, "login")
  /\ UNCHANGED <<users, pending, form>>

Proceed(c) ==
  \/ Register(c) \/ InsertUser(c) \/ InsertProfile(c) \/ Commit(c)
  \/ Login(c) \/ FindUser(c) \/ OpenSession(c)

Next == \E c \in Clients : Proceed(c) \/ Fail(c) \/ LoseCommit(c) \/ NotOpened(c)

Spec == Init /\ [][Next]_vars

(* Handlers run, the database answers, and people try again. *)
FairSpec == Spec /\ \A c \in Clients : WF_vars(Proceed(c))

-----------------------------------------------------------------------------
Accounts == [by : Clients, email : Mailboxes, password : Passwords]

(* The variables have their types, and no account has a password that      *)
(* registration refuses.                                                   *)
TypeOK ==
  /\ users \subseteq Accounts
  /\ \A u \in users : u.password \notin Weak \cup Long
  /\ pending \subseteq Clients
  /\ form \in [Clients -> [typed : Typed, password : Passwords]]
  /\ pc \in [Clients -> {"register", "login"} \cup Registering \cup LoggingIn \cup Ends]
  /\ found \in [Clients -> Accounts \cup {NoAccount}]
  /\ failures \in 0..MaxFailures

(* A mailbox has one account, however it is typed and however many         *)
(* registrations of it overlap, fail half-way or are sent again.           *)
OneAccountPerMailbox ==
  \A u, v \in users : Mailbox[form[u.by].typed] = Mailbox[form[v.by].typed] => u = v

(* Who is signed in, is signed in to the account of the own mailbox with   *)
(* the own password; who is refused at login, is refused because somebody  *)
(* else has the mailbox with another password.  The form that created an   *)
(* account always opens it.                                                *)
OwnAccountOnly ==
  \A c \in Clients :
    /\ pc[c] = "in" => /\ found[c] \in users
                       /\ found[c].password = form[c].password
                       /\ Mailbox[form[found[c].by].typed] = Mailbox[form[c].typed]
    /\ pc[c] = "refused" => \E u \in users :
         /\ Mailbox[form[u.by].typed] = Mailbox[form[c].typed]
         /\ u.by # c /\ u.password # form[c].password

(* Registration survives failures between its steps: whoever keeps trying  *)
(* is signed in, unless the form is invalid or the mailbox is another's.   *)
EveryoneGetsAnAnswer == \A c \in Clients : <>[](pc[c] \in Ends)
=============================================================================
