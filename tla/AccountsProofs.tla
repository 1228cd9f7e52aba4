--------------------------- MODULE AccountsProofs ---------------------------
(***************************************************************************)
(* Proofs about Accounts, for any number of clients, any way of typing an  *)
(* address and any number of failures.                                     *)
(***************************************************************************)
EXTENDS Accounts, TLAPS

(* The steps at which a client's transaction holds its address, at which   *)
(* the form has passed the check, and at which the mailbox has an account. *)
Holding == {"insert_profile", "commit"}
Checked == Registering \cup LoggingIn \cup {"login", "in", "refused"}
Registered == LoggingIn \cup {"login", "open_first", "in", "refused"}

-----------------------------------------------------------------------------
(* The inductive invariant. *)

(* An account is what its client has filled in, for good: logging in       *)
(* changes how the address is typed, and not the mailbox.                  *)
FormInv ==
  \A u \in users : /\ u \in Accounts
                   /\ u.email = Email(u.by)
                   /\ u.password = form[u.by].password
                   /\ Registrable(u.password)

(* The index on the address: of those who hold one and those who have it,  *)
(* there is one.                                                           *)
AddressInv ==
  /\ \A u, v \in users : u.email = v.email => u = v
  /\ \A c \in pending : pc[c] \in Holding
  /\ \A c \in Clients : pc[c] \in Holding => c \in pending
  /\ \A c, d \in pending : Email(c) = Email(d) => c = d
  /\ \A c \in pending, u \in users : u.email # Email(c)

(* What each client may rely on at the step it is at. *)
StepInv ==
  \A c \in Clients :
    /\ pc[c] \in Checked => Registrable(form[c].password)
    /\ pc[c] \in Registered => \E u \in users : u.email = Email(c)
    /\ pc[c] \in {"open_first", "open", "in"} =>
         /\ found[c] \in users
         /\ found[c].email = Email(c)
         /\ found[c].password = form[c].password
    /\ pc[c] = "refused" =>
         \E u \in users : u.email = Email(c) /\ u.password # form[c].password

Inv == TypeOK /\ FormInv /\ AddressInv /\ StepInv

(* An account belongs to the mailbox of whoever registered it. *)
LEMMA EmailIsMailbox ==
  ASSUME NEW c PROVE Email(c) = Mailbox[form[c].typed]
BY DEF Email, Normalize

LEMMA InvInit == Init => Inv
<1> SUFFICES ASSUME Init PROVE Inv
  OBVIOUS
<1>1. TypeOK
  BY FormsTyped, MaxFailuresIsNat DEF Init, TypeOK, Passwords
<1>2. FormInv /\ AddressInv
  BY DEF Init, FormInv, AddressInv, Holding
<1>3. StepInv
  BY DEF Init, StepInv, Checked, Registered, Registering, LoggingIn
<1> QED  BY <1>1, <1>2, <1>3 DEF Inv

-----------------------------------------------------------------------------
(* Steps of a client c that keep the accounts and the forms: what they     *)
(* leave to show is that c may be where it goes, and the address index.    *)
LEMMA MoveKeepsInv ==
  ASSUME Inv, NEW c \in Clients, NEW step,
         step \in {"register", "login"} \cup Registering \cup LoggingIn \cup Ends,
         Goto(c, step),
         UNCHANGED <<users, form>>,
         pending' \subseteq Clients,
         found' \in [Clients -> Accounts \cup {NoAccount}],
         \A d \in Clients \ {c} : found'[d] = found[d],
         failures' \in 0..MaxFailures,
         pending' \ {c} = pending \ {c},
         c \in pending' <=> step \in Holding,
         c \in pending' => /\ \A d \in pending \ {c} : Email(d) # Email(c)
                           /\ \A u \in users : u.email # Email(c),
         step \in Checked => Registrable(form[c].password),
         step \in Registered => \E u \in users : u.email = Email(c),
         step \in {"open_first", "open", "in"} =>
           /\ found'[c] \in users
           /\ found'[c].email = Email(c)
           /\ found'[c].password = form[c].password,
         step = "refused" =>
           \E u \in users : u.email = Email(c) /\ u.password # form[c].password
  PROVE  Inv'
<1>1. /\ pc'[c] = step
      /\ \A d \in Clients \ {c} : pc'[d] = pc[d]
      /\ pc' \in [Clients -> {"register", "login"} \cup Registering \cup LoggingIn \cup Ends]
  BY DEF Inv, TypeOK, Goto
<1>2. \A d : Email(d)' = Email(d)
  BY DEF Email
<1>3. TypeOK'
  BY <1>1 DEF Inv, TypeOK
<1>4. FormInv'
  BY <1>2 DEF Inv, FormInv
<1>5. AddressInv'
  <2>1. \A d \in pending' : d = c \/ d \in pending \ {c}
    OBVIOUS
  <2>2. \A d \in pending' : pc'[d] \in Holding
    BY <1>1, <2>1 DEF Inv, TypeOK, AddressInv
  <2>3. \A d \in Clients : pc'[d] \in Holding => d \in pending'
    BY <1>1 DEF Inv, AddressInv
  <2>4. \A d, e \in pending' : Email(d)' = Email(e)' => d = e
    BY <1>2, <2>1 DEF Inv, AddressInv
  <2>5. \A d \in pending', u \in users' : u.email # Email(d)'
    BY <1>2, <2>1 DEF Inv, AddressInv
  <2>6. \A u, v \in users' : u.email = v.email => u = v
    BY DEF Inv, AddressInv
  <2> QED  BY <2>2, <2>3, <2>4, <2>5, <2>6 DEF AddressInv
<1>6. StepInv'
  <2> SUFFICES ASSUME NEW d \in Clients
               PROVE  /\ pc'[d] \in Checked => Registrable(form'[d].password)
                      /\ pc'[d] \in Registered => \E u \in users' : u.email = Email(d)'
                      /\ pc'[d] \in {"open_first", "open", "in"} =>
                           /\ found'[d] \in users'
                           /\ found'[d].email = Email(d)'
                           /\ found'[d].password = form'[d].password
                      /\ pc'[d] = "refused" =>
                           \E u \in users' : u.email = Email(d)' /\ u.password # form'[d].password
    BY DEF StepInv, Registrable
  <2>1. CASE d = c
    BY <1>1, <1>2, <2>1
  <2>2. CASE d # c
    BY <1>1, <1>2, <2>2 DEF Inv, StepInv
  <2> QED  BY <2>1, <2>2
<1> QED  BY <1>3, <1>4, <1>5, <1>6 DEF Inv

LEMMA RegisterKeepsInv ==
  ASSUME Inv, NEW c \in Clients, Register(c) PROVE Inv'
<1>1. pc[c] = "register" /\ c \notin pending
  BY DEF Register, Inv, TypeOK, AddressInv, Holding
<1>2. CASE Registrable(form[c].password)
  BY <1>1, <1>2, MoveKeepsInv DEF Register, Inv, TypeOK, Registering, Registered, LoggingIn, Holding
<1>3. CASE ~Registrable(form[c].password)
  BY <1>1, <1>3, MoveKeepsInv
     DEF Register, Inv, TypeOK, Ends, Checked, Registering, Registered, LoggingIn, Holding
<1> QED  BY <1>2, <1>3

LEMMA InsertUserKeepsInv ==
  ASSUME Inv, NEW c \in Clients, InsertUser(c) PROVE Inv'
<1>1. /\ pc[c] = "insert_user" /\ c \notin pending
      /\ Registrable(form[c].password)
      /\ \A d \in pending : Email(d) # Email(c)
      /\ UNCHANGED <<users, form, found, failures>>
  BY DEF InsertUser, Inv, TypeOK, AddressInv, StepInv, Holding, Checked, Registering
<1>2. CASE \E u \in users : u.email = Email(c)
  <2>1. Goto(c, "login") /\ UNCHANGED pending
    BY <1>2 DEF InsertUser
  <2> QED
    BY <1>1, <1>2, <2>1, MoveKeepsInv DEF Inv, TypeOK, Holding
<1>3. CASE ~(\E u \in users : u.email = Email(c))
  <2>1. Goto(c, "insert_profile") /\ pending' = pending \cup {c}
    BY <1>3 DEF InsertUser
  <2> QED
    BY <1>1, <1>3, <2>1, MoveKeepsInv
       DEF Inv, TypeOK, Holding, Registering, Registered, LoggingIn
<1> QED  BY <1>2, <1>3

LEMMA InsertProfileKeepsInv ==
  ASSUME Inv, NEW c \in Clients, InsertProfile(c) PROVE Inv'
<1>1. /\ pc[c] = "insert_profile" /\ c \in pending
      /\ Registrable(form[c].password)
      /\ UNCHANGED <<users, pending, form, found, failures>> /\ Goto(c, "commit")
  BY DEF InsertProfile, Inv, TypeOK, AddressInv, StepInv, Holding, Checked, Registering
<1>2. /\ \A d \in pending \ {c} : Email(d) # Email(c)
      /\ \A u \in users : u.email # Email(c)
  BY <1>1 DEF Inv, AddressInv
<1> QED
  BY <1>1, <1>2, MoveKeepsInv DEF Inv, TypeOK, Holding, Registering, Registered, LoggingIn

(* The account is published: the address passes from the transaction to    *)
(* the row, and whoever has registered it has one from now on.             *)
LEMMA PublishKeepsInv ==
  ASSUME Inv, NEW c \in Clients, NEW step, Publish(c), Goto(c, step),
         \/ step = "open_first" /\ found' = [found EXCEPT ![c] = NewAccount(c)]
         \/ step = "register" /\ UNCHANGED found,
         failures' \in 0..MaxFailures
  PROVE  Inv'
<1> DEFINE new == NewAccount(c)
<1>1. /\ pc[c] = "commit" /\ c \in pending /\ Registrable(form[c].password)
      /\ users' = users \cup {new} /\ pending' = pending \ {c} /\ UNCHANGED form
  BY DEF Publish, Inv, AddressInv, StepInv, Holding, Checked, Registering
<1>2. \A d : Email(d)' = Email(d)
  BY <1>1 DEF Email
<1>3. /\ new \in Accounts /\ new.by = c /\ new.email = Email(c)
      /\ new.password = form[c].password /\ Registrable(new.password)
  <2>1. form[c].typed \in Typed /\ form[c].password \in Passwords
    BY DEF Inv, TypeOK
  <2> QED  BY <1>1, <2>1, EmailIsMailbox DEF NewAccount, Accounts, Mailboxes
<1>4. \A u \in users : u.email # Email(c)
  BY <1>1 DEF Inv, AddressInv
<1>5. /\ pc'[c] = step
      /\ \A d \in Clients \ {c} : pc'[d] = pc[d] /\ found'[d] = found[d]
      /\ pc' \in [Clients -> {"register", "login"} \cup Registering \cup LoggingIn \cup Ends]
      /\ found' \in [Clients -> Accounts \cup {NoAccount}]
  BY <1>3 DEF Inv, TypeOK, Goto, Registering
<1>6. TypeOK'
  BY <1>1, <1>3, <1>5 DEF Inv, TypeOK, Registrable
<1>7. FormInv'
  BY <1>1, <1>2, <1>3 DEF Inv, FormInv, Registrable
<1>8. AddressInv'
  <2>1. \A u, v \in users' : u.email = v.email => u = v
    BY <1>1, <1>3, <1>4 DEF Inv, AddressInv
  <2>2. \A d \in pending' : pc'[d] \in Holding
    BY <1>1, <1>5 DEF Inv, TypeOK, AddressInv
  <2>3. \A d \in Clients : pc'[d] \in Holding => d \in pending'
    BY <1>1, <1>5 DEF Inv, AddressInv, Holding
  <2>4. \A d, e \in pending' : Email(d)' = Email(e)' => d = e
    BY <1>1, <1>2 DEF Inv, AddressInv
  <2>5. \A d \in pending', u \in users' : u.email # Email(d)'
    BY <1>1, <1>2, <1>3 DEF Inv, AddressInv
  <2> QED  BY <2>1, <2>2, <2>3, <2>4, <2>5 DEF AddressInv
<1>9. StepInv'
  <2> SUFFICES ASSUME NEW d \in Clients
               PROVE  /\ pc'[d] \in Checked => Registrable(form'[d].password)
                      /\ pc'[d] \in Registered => \E u \in users' : u.email = Email(d)'
                      /\ pc'[d] \in {"open_first", "open", "in"} =>
                           /\ found'[d] \in users'
                           /\ found'[d].email = Email(d)'
                           /\ found'[d].password = form'[d].password
                      /\ pc'[d] = "refused" =>
                           \E u \in users' : u.email = Email(d)' /\ u.password # form'[d].password
    BY DEF StepInv, Registrable
  <2>1. CASE d = c /\ step = "open_first"
    <3>1. found'[c] = new
      BY <2>1 DEF Inv, TypeOK
    <3> QED  BY <1>1, <1>2, <1>3, <1>5, <2>1, <3>1
  <2>2. CASE d = c /\ step = "register"
    BY <1>5, <2>2 DEF Checked, Registered, Registering, LoggingIn
  <2>3. CASE d # c
    BY <1>1, <1>2, <1>5, <2>3 DEF Inv, StepInv
  <2> QED  BY <2>1, <2>2, <2>3
<1> QED  BY <1>6, <1>7, <1>8, <1>9 DEF Inv

(* The address is typed in another way: the mailbox is the same. *)
LEMMA LoginKeepsInv ==
  ASSUME Inv, NEW c \in Clients, Login(c) PROVE Inv'
<1>1. PICK t \in Typed : /\ Mailbox[t] = Mailbox[form[c].typed]
                         /\ form' = [form EXCEPT ![c].typed = t]
  BY DEF Login
<1>2. /\ pc[c] = "login" /\ UNCHANGED <<users, pending, found, failures>>
      /\ pc'[c] = "find" /\ \A d \in Clients \ {c} : pc'[d] = pc[d]
      /\ pc' \in [Clients -> {"register", "login"} \cup Registering \cup LoggingIn \cup Ends]
  BY DEF Login, Goto, Inv, TypeOK, LoggingIn
<1>3. /\ form' \in [Clients -> [typed : Typed, password : Passwords]]
      /\ \A d \in Clients : /\ form'[d].password = form[d].password
                            /\ Mailbox[form'[d].typed] = Mailbox[form[d].typed]
  BY <1>1 DEF Inv, TypeOK
<1>4. \A d \in Clients : Email(d)' = Email(d)
  BY <1>3 DEF Email, Normalize
<1>5. TypeOK'
  BY <1>2, <1>3 DEF Inv, TypeOK
<1>6. FormInv'
  <2> SUFFICES ASSUME NEW u \in users
               PROVE  /\ u \in Accounts /\ u.email = Email(u.by)'
                      /\ u.password = form'[u.by].password /\ Registrable(u.password)
    BY <1>2 DEF FormInv, Registrable
  <2>1. u.by \in Clients
    BY DEF Inv, FormInv, Accounts
  <2> QED  BY <1>3, <1>4, <2>1 DEF Inv, FormInv
<1>7. AddressInv'
  <2>1. pending \subseteq Clients /\ c \notin pending
    BY <1>2 DEF Inv, TypeOK, AddressInv, Holding
  <2> QED  BY <1>2, <1>4, <2>1 DEF Inv, AddressInv, Holding
<1>8. StepInv'
  <2> SUFFICES ASSUME NEW d \in Clients
               PROVE  /\ pc'[d] \in Checked => Registrable(form'[d].password)
                      /\ pc'[d] \in Registered => \E u \in users' : u.email = Email(d)'
                      /\ pc'[d] \in {"open_first", "open", "in"} =>
                           /\ found'[d] \in users'
                           /\ found'[d].email = Email(d)'
                           /\ found'[d].password = form'[d].password
                      /\ pc'[d] = "refused" =>
                           \E u \in users' : u.email = Email(d)' /\ u.password # form'[d].password
    BY DEF StepInv, Registrable
  <2>1. CASE d = c
    BY <1>2, <1>3, <1>4, <2>1 DEF Inv, StepInv, Checked, Registered
  <2>2. CASE d # c
    BY <1>2, <1>3, <1>4, <2>2 DEF Inv, StepInv
  <2> QED  BY <2>1, <2>2
<1> QED  BY <1>5, <1>6, <1>7, <1>8 DEF Inv

LEMMA FindUserKeepsInv ==
  ASSUME Inv, NEW c \in Clients, FindUser(c) PROVE Inv'
<1>1. /\ pc[c] = "find" /\ c \notin pending /\ UNCHANGED <<users, pending, form, failures>>
      /\ Registrable(form[c].password)
  BY DEF FindUser, Inv, AddressInv, StepInv, Holding, Checked, LoggingIn
<1>2. PICK mine \in users : mine.email = Email(c)
  BY <1>1 DEF Inv, StepInv, Registered, LoggingIn
<1>3. CASE \E u \in users : /\ u.email = Email(c) /\ Matches(form[c].password, u)
                            /\ found' = [found EXCEPT ![c] = u]
                            /\ Goto(c, "open")
  <2>1. PICK u \in users : /\ u.email = Email(c) /\ Matches(form[c].password, u)
                           /\ found' = [found EXCEPT ![c] = u]
                           /\ Goto(c, "open")
    BY <1>3
  <2>2. u \in Accounts /\ u.password = form[c].password
    BY <2>1 DEF Inv, FormInv, Matches
  <2>3. /\ found' \in [Clients -> Accounts \cup {NoAccount}] /\ found'[c] = u
        /\ \A d \in Clients \ {c} : found'[d] = found[d]
    BY <2>1, <2>2 DEF Inv, TypeOK
  <2> QED
    BY <1>1, <2>1, <2>2, <2>3, MoveKeepsInv DEF Inv, TypeOK, Holding, LoggingIn
<1>4. CASE /\ \A u \in users : u.email = Email(c) => ~Matches(form[c].password, u)
           /\ Goto(c, "refused")
           /\ UNCHANGED found
  <2>1. mine.password # form[c].password
    BY <1>1, <1>2, <1>4 DEF Matches, Registrable
  <2> QED
    BY <1>1, <1>2, <1>4, <2>1, MoveKeepsInv DEF Inv, TypeOK, Holding, Ends
<1> QED  BY <1>3, <1>4 DEF FindUser

LEMMA OpenSessionKeepsInv ==
  ASSUME Inv, NEW c \in Clients, OpenSession(c) PROVE Inv'
<1>1. /\ pc[c] \in {"open_first", "open"} /\ c \notin pending
      /\ UNCHANGED <<users, pending, form, found, failures>> /\ Goto(c, "in")
      /\ Registrable(form[c].password)
  BY DEF OpenSession, Inv, AddressInv, StepInv, Holding, Checked, Registering, LoggingIn
<1>2. /\ found[c] \in users /\ found[c].email = Email(c)
      /\ found[c].password = form[c].password
  BY <1>1 DEF Inv, StepInv
<1> QED  BY <1>1, <1>2, MoveKeepsInv DEF Inv, TypeOK, Holding, Ends

(* A failure rolls the transaction back and sends the client to a step     *)
(* that relies on no less than it had.                                     *)
LEMMA FailKeepsInv ==
  ASSUME Inv, NEW c \in Clients, Fail(c) PROVE Inv'
<1> DEFINE step == IF pc[c] \in Registering THEN "register" ELSE "login"
<1>1. /\ pc[c] \in Registering \cup LoggingIn /\ pending' = pending \ {c}
      /\ found' = [found EXCEPT ![c] = NoAccount] /\ Goto(c, step)
      /\ UNCHANGED <<users, form>>
  BY DEF Fail, RolledBack
<1>2. failures' \in 0..MaxFailures
  BY MaxFailuresIsNat DEF Fail, Failing, Inv, TypeOK
<1>3. /\ step \in {"register", "login"}
      /\ step \in Checked => Registrable(form[c].password)
      /\ step \in Registered => \E u \in users : u.email = Email(c)
  BY <1>1 DEF Inv, StepInv, Checked, Registered, Registering, LoggingIn
<1>4. /\ found' \in [Clients -> Accounts \cup {NoAccount}]
      /\ \A d \in Clients \ {c} : found'[d] = found[d]
  BY <1>1 DEF Inv, TypeOK
<1> HIDE DEF step
<1> QED  BY <1>1, <1>2, <1>3, <1>4, MoveKeepsInv DEF Inv, TypeOK, Holding

LEMMA NotOpenedKeepsInv ==
  ASSUME Inv, NEW c \in Clients, NotOpened(c) PROVE Inv'
<1>1. /\ pc[c] = "open_first" /\ c \notin pending
      /\ found' = [found EXCEPT ![c] = NoAccount] /\ Goto(c, "login")
      /\ UNCHANGED <<users, pending, form>>
  BY DEF NotOpened, Inv, AddressInv, Holding
<1>2. failures' \in 0..MaxFailures
  BY MaxFailuresIsNat DEF NotOpened, Failing, Inv, TypeOK
<1>3. Registrable(form[c].password) /\ \E u \in users : u.email = Email(c)
  BY <1>1 DEF Inv, StepInv, Checked, Registered, Registering
<1>4. /\ found' \in [Clients -> Accounts \cup {NoAccount}]
      /\ \A d \in Clients \ {c} : found'[d] = found[d]
  BY <1>1 DEF Inv, TypeOK
<1> QED  BY <1>1, <1>2, <1>3, <1>4, MoveKeepsInv DEF Inv, TypeOK, Holding

LEMMA InvStep == Inv /\ [Next]_vars => Inv'
<1> SUFFICES ASSUME Inv, [Next]_vars PROVE Inv'
  OBVIOUS
<1>1. ASSUME NEW c \in Clients, Commit(c) PROVE Inv'
  BY <1>1, PublishKeepsInv DEF Commit, Inv, TypeOK
<1>2. ASSUME NEW c \in Clients, LoseCommit(c) PROVE Inv'
  <2>1. failures' \in 0..MaxFailures
    BY <1>2, MaxFailuresIsNat DEF LoseCommit, Failing, Inv, TypeOK
  <2> QED  BY <1>2, <2>1, PublishKeepsInv DEF LoseCommit
<1>3. ASSUME NEW c \in Clients, Proceed(c) PROVE Inv'
  BY <1>1, <1>3, RegisterKeepsInv, InsertUserKeepsInv, InsertProfileKeepsInv, LoginKeepsInv,
     FindUserKeepsInv, OpenSessionKeepsInv DEF Proceed
<1>4. CASE UNCHANGED vars
  BY <1>4 DEF vars, Inv, TypeOK, FormInv, AddressInv, StepInv, Email, Registrable
<1> QED  BY <1>2, <1>3, <1>4, FailKeepsInv, NotOpenedKeepsInv DEF Next

THEOREM InvHolds == Spec => []Inv
BY InvInit, InvStep, PTL DEF Spec

-----------------------------------------------------------------------------
(* Registration stores what it has checked, and every request is at a step *)
(* of its own.                                                             *)
THEOREM TypeCorrect == Spec => []TypeOK
BY InvHolds, PTL DEF Inv

(* Whatever overlaps and fails: one account for a mailbox.                 *)
THEOREM OneAccount == Spec => []OneAccountPerMailbox
<1>1. Inv => OneAccountPerMailbox
  BY EmailIsMailbox DEF Inv, FormInv, AddressInv, OneAccountPerMailbox
<1> QED  BY <1>1, InvHolds, PTL

(* Nobody is signed in to another's account, nor kept from their own.      *)
THEOREM OwnAccount == Spec => []OwnAccountOnly
<1>1. Inv => OwnAccountOnly
  <2> SUFFICES ASSUME Inv, NEW c \in Clients
               PROVE  /\ pc[c] = "in" =>
                           /\ found[c] \in users /\ found[c].password = form[c].password
                           /\ Mailbox[form[found[c].by].typed] = Mailbox[form[c].typed]
                      /\ pc[c] = "refused" => \E u \in users :
                           /\ Mailbox[form[u.by].typed] = Mailbox[form[c].typed]
                           /\ u.by # c /\ u.password # form[c].password
    BY DEF OwnAccountOnly
  <2>1. CASE pc[c] = "in"
    BY <2>1, EmailIsMailbox DEF Inv, FormInv, StepInv
  <2>2. CASE pc[c] = "refused"
    <3>1. PICK u \in users : u.email = Email(c) /\ u.password # form[c].password
      BY <2>2 DEF Inv, StepInv
    <3>2. u.email = Email(u.by) /\ u.password = form[u.by].password
      BY DEF Inv, FormInv
    <3> QED  BY <2>2, <3>1, <3>2, EmailIsMailbox
  <2> QED  BY <2>1, <2>2
<1> QED  BY <1>1, InvHolds, PTL

-----------------------------------------------------------------------------
(* The wait for an address. *)

(* d has inserted the address that c is about to insert.                   *)
WaitsFor(c, d) == pc[c] = "insert_user" /\ d \in pending /\ Email(d) = Email(c)

(* The safety part of EveryoneGetsAnAnswer: a registration waits for at    *)
(* most one other, of the same mailbox, which is under way and waits for   *)
(* nobody; an open transaction belongs to a client who is still at it, so  *)
(* no failure leaves an address blocked.                                   *)
WaitsAreShort ==
  /\ \A c \in Clients : \A d, e \in pending : WaitsFor(c, d) /\ WaitsFor(c, e) => d = e
  /\ \A d \in pending : /\ pc[d] \in {"insert_profile", "commit"}
                        /\ \A e \in pending : ~WaitsFor(d, e)
THEOREM WaitsEnd == Spec => []WaitsAreShort
<1>1. Inv => WaitsAreShort
  <2> SUFFICES ASSUME Inv PROVE WaitsAreShort
    OBVIOUS
  <2>1. \A d \in pending : pc[d] \in {"insert_profile", "commit"}
    BY DEF Inv, AddressInv, Holding
  <2>2. \A d, e \in pending : Email(d) = Email(e) => d = e
    BY DEF Inv, AddressInv
  <2> QED  BY <2>1, <2>2 DEF WaitsAreShort, WaitsFor
<1> QED  BY <1>1, InvHolds, PTL
=============================================================================
